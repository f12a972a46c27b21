------------------------------ MODULE NpsHttp ------------------------------
(***************************************************************************)
(* A kept-alive HTTP connection of a visitor of the NPS server             *)
(* (server/proxy/http.go, handleHttp).  The handler reads requests and     *)
(* writes each to a stream of the client whose host it names; a goroutine  *)
(* copies the answers back.  A request for another host closes the stream  *)
(* and jumps back to `reset', where a second stream and a second goroutine *)
(* come to be while the first may not be gone - or may not have started.   *)
(*                                                                         *)
(* The cache is left out: nothing ever adds to it.  The panic of a copier  *)
(* that meets the limit of traffic is in NpsRelay.                         *)
(***************************************************************************)
EXTENDS Integers, Sequences, FiniteSets

CONSTANTS
    Guest,     \* visitors' connections
    Host,      \* the hosts they ask for
    Owner,     \* [Host -> the client of each]
    MaxStream  \* bound: streams of one connection

NoHost  == "no host"
Clients == {Owner[h] : h \in Host}

VARIABLES
    page,   \* each handler: [pc, host, defers, isReset, made, cut, gone, down]
    held    \* [Clients -> Client.NowConn]

httpVars == <<page, held>>

(* defers: whose clients the deferred AddConn are bound to.  made: streams *)
(* so far, the last is connClient.  cut: those closed.  gone: the          *)
(* visitor's connection is closed.  down: the goroutines, [at, of].        *)
Fresh == [pc |-> "idle", host |-> NoHost, defers |-> <<>>, isReset |-> FALSE,
          made |-> 0, cut |-> {}, gone |-> FALSE, down |-> <<>>]

HttpInit ==
    /\ page = [g \in Guest |-> Fresh]
    /\ held = [c \in Clients |-> 0]

In(g, pc)   == page[g].pc = pc
To(g, p)    == page' = [page EXCEPT ![g] = p]
Hold(h, n)  == held' = [held EXCEPT ![Owner[h]] = @ + n]

-----------------------------------------------------------------------------
(* The handler.                                                            *)

(* handleTunneling hijacks the connection.                                 *)
HandleHttp(g, h) ==
    /\ In(g, "idle")
    /\ To(g, [Fresh EXCEPT !.pc = "check", !.host = h])
    /\ UNCHANGED held

(* CheckFlowAndConnNum takes one for the host.  An AddConn is deferred     *)
(* for the first host only - or for a later one, when a goroutine that     *)
(* started late has taken isReset back.                                    *)
CheckHost(g) ==
    /\ In(g, "check")
    /\ Hold(page[g].host, 1)
    /\ To(g, [page[g] EXCEPT !.pc = "deal",
                             !.defers = IF page[g].isReset THEN @ ELSE Append(@, page[g].host)])

(* The host is black-listed, gone, or its client's limits are reached.     *)
RefuseHost(g) ==
    /\ In(g, "check")
    /\ To(g, [page[g] EXCEPT !.pc = "defer", !.gone = TRUE])
    /\ UNCHANGED held

(* No password, no target, not on the white list, no tunnel.               *)
FailHost(g) ==
    /\ In(g, "deal")
    /\ To(g, [page[g] EXCEPT !.pc = "defer"])
    /\ UNCHANGED held

SendLink(g) ==
    /\ In(g, "deal") /\ page[g].made < MaxStream
    /\ To(g, [page[g] EXCEPT !.pc = "write", !.made = @ + 1,
                             !.down = Append(@, [at |-> "spawned", of |-> 0])])
    /\ UNCHANGED held

(* writeRequestRaw or r.Write; an error breaks the loop.                   *)
WriteRequest(g) ==
    /\ In(g, "write")
    /\ To(g, [page[g] EXCEPT !.pc = IF page[g].made \in page[g].cut THEN "wait" ELSE "read"])
    /\ UNCHANGED held

ReadSame(g) ==
    /\ In(g, "read") /\ ~page[g].gone
    /\ To(g, [page[g] EXCEPT !.pc = "write"])
    /\ UNCHANGED held

(* ReadRequest fails: return, without wg.Wait.                             *)
ReadFails(g) ==
    /\ In(g, "read")
    /\ To(g, [page[g] EXCEPT !.pc = "defer"])
    /\ UNCHANGED held

(* The host of the request is not known: break.                            *)
ReadUnknown(g) ==
    /\ In(g, "read") /\ ~page[g].gone
    /\ To(g, [page[g] EXCEPT !.pc = "wait"])
    /\ UNCHANGED held

(* Mutant of ReadOther: goes to reset with the stream open.                *)
ReadOtherOpen(g, h) ==
    /\ In(g, "read") /\ ~page[g].gone
    /\ h # page[g].host
    /\ To(g, [page[g] EXCEPT !.pc = "reset", !.host = h, !.isReset = TRUE])
    /\ UNCHANGED held

ReadOther(g, h) ==
    /\ In(g, "read") /\ ~page[g].gone
    /\ h # page[g].host
    /\ To(g, [page[g] EXCEPT !.pc = "reset", !.host = h, !.isReset = TRUE, !.cut = @ \cup {page[g].made}])
    /\ UNCHANGED held

(* What is given back at reset is the new host's.                          *)
Reset(g) ==
    /\ In(g, "reset")
    /\ To(g, [page[g] EXCEPT !.pc = "check"])
    /\ IF page[g].isReset THEN Hold(page[g].host, -1) ELSE UNCHANGED held

Taken(g, c) == Cardinality({i \in DOMAIN page[g].defers : Owner[page[g].defers[i]] = c})
Copying(g)  == {i \in DOMAIN page[g].down : page[g].down[i].at = "copying"}

(* wg.Wait knows only goroutines that have started.                        *)
WaitDown(g) ==
    /\ In(g, "wait") /\ Copying(g) = {}
    /\ To(g, [page[g] EXCEPT !.pc = "defer"])
    /\ UNCHANGED held

Return(g) ==
    /\ In(g, "defer")
    /\ To(g, [page[g] EXCEPT !.pc = "done", !.gone = TRUE, !.cut = @ \cup ({page[g].made} \ {0})])
    /\ held' = [c \in Clients |-> held[c] - Taken(g, c)]

-----------------------------------------------------------------------------
(* The goroutines that copy back.                                          *)

(* wg.Add and isReset = false; connClient is read only now.                *)
DownStart(g, i) ==
    /\ page[g].down[i].at = "spawned"
    /\ To(g, [page[g] EXCEPT !.isReset = FALSE, !.down[i] = [at |-> "copying", of |-> page[g].made]])
    /\ UNCHANGED held

(* Its stream, or the visitor, is gone.                                    *)
DownEnds(g, i) ==
    /\ page[g].down[i].at = "copying"
    /\ page[g].gone \/ page[g].down[i].of \in page[g].cut
    /\ To(g, [page[g] EXCEPT !.down[i].at = "left", !.cut = @ \cup {page[g].down[i].of},
                             !.gone = @ \/ ~page[g].isReset])
    /\ UNCHANGED held

TargetEnds(g) ==
    /\ page[g].made \notin page[g].cut \cup {0}
    /\ To(g, [page[g] EXCEPT !.cut = @ \cup {page[g].made}])
    /\ UNCHANGED held

GuestEnds(g) ==
    /\ page[g].pc # "idle" /\ ~page[g].gone
    /\ To(g, [page[g] EXCEPT !.gone = TRUE])
    /\ UNCHANGED held

HttpNext ==
    \E g \in Guest :
       \/ \E h \in Host : HandleHttp(g, h) \/ ReadOther(g, h)
       \/ Reset(g) \/ CheckHost(g) \/ RefuseHost(g) \/ FailHost(g) \/ SendLink(g)
       \/ WriteRequest(g) \/ ReadSame(g) \/ ReadFails(g) \/ ReadUnknown(g)
       \/ WaitDown(g) \/ Return(g) \/ TargetEnds(g) \/ GuestEnds(g)
       \/ \E i \in DOMAIN page[g].down : DownStart(g, i) \/ DownEnds(g, i)

HttpSpec == HttpInit /\ [][HttpNext]_httpVars

-----------------------------------------------------------------------------
(* Types (http.go:138).                                                    *)
HttpTypeOK ==
    /\ page \in [Guest ->
          [pc : {"idle", "reset", "check", "deal", "write", "read", "wait", "defer", "done"},
           host : Host \cup {NoHost}, defers : UNION {[1 .. n -> Host] : n \in 0 .. MaxStream + 1}, isReset : BOOLEAN,
           made : 0 .. MaxStream, cut : SUBSET (1 .. MaxStream), gone : BOOLEAN,
           down : UNION {[1 .. n -> [at : {"spawned", "copying", "left"}, of : 0 .. MaxStream]]
                            : n \in 0 .. MaxStream}]]
    /\ held \in [Clients -> Int]

(* A handler that is done has closed the visitor and every stream it       *)
(* opened, however often it switched; no goroutine is left with an open    *)
(* end to wait for.                                                        *)
StreamsClosed ==
    \A g \in Guest : In(g, "done") =>
        /\ page[g].gone
        /\ page[g].cut = 1 .. page[g].made

(* A connection counts against the client of a host it visits, from the    *)
(* check to the return, and against no other (obj.go:34, "the connection   *)
(* num of now").                                                           *)
HttpQuota ==
    (\A g \in Guest : ~In(g, "defer") /\ ~In(g, "reset")) => \A c \in Clients : held[c] =
        Cardinality({g \in Guest : page[g].host # NoHost /\ Owner[page[g].host] = c
                                   /\ page[g].pc \in {"deal", "write", "read", "wait"}})

(* A switch of hosts leaves the visitor's connection alone: while a second *)
(* stream lasts nobody but the visitor closes it (http.go:251).            *)
SwitchKeepsVisitor ==
    [][\A g \in Guest, i \in 1 .. MaxStream :
          i \in DOMAIN page[g].down /\ page[g].down[i].of < page[g].made
          /\ page[g].made \notin page[g].cut /\ ~page[g].gone
          /\ DownEnds(g, i) => ~page'[g].gone]_httpVars
=============================================================================
