------------------------------ MODULE NpsRelay ------------------------------
(***************************************************************************)
(* A connection through the NPS server: accepted from a visitor, counted   *)
(* against the client's MaxConn, given a stream of the client's tunnel,    *)
(* copied in both directions at the server and again at npc, and closed    *)
(* from either side (server/proxy/base.go, tcp.go, socks5.go, https.go,    *)
(* websocket.go, lib/goroutine/pool.go, lib/conn, bridge.SendLinkInfo,     *)
(* client.handleChan).                                                     *)
(*                                                                         *)
(*   visitor -- front [server] back == peer [npc] out -- target            *)
(*                                                                         *)
(* A copier reads from its source end until that end or the one across is  *)
(* closed.  What is copied is left out, except that it counts as traffic.  *)
(***************************************************************************)
EXTENDS Integers, FiniteSets

CONSTANTS
    Visitor,    \* connections
    Kinds,      \* bound: the kinds of connection each of them may be, [Visitor -> SUBSET Kind]
    MaxConn,    \* the client's limit
    FlowLimit   \* whether the client has a limit of traffic that may be reached

(* tcp: a tunnel with its task.  proxy: socks5, HTTP proxy and HTTPS, which *)
(* pass no task on.  assoc: UDP over socks5.  ws: web sockets.  secret:    *)
(* visitors with a key.                                                    *)
Kind   == {"tcp", "proxy", "assoc", "ws", "secret"}
End    == {"visitor", "front", "back", "peer", "out", "target"}
Server == {"up", "down"}                    \* copiers at the server
Npc    == {"up2", "down2"}                  \* and at npc

VARIABLES
    conn,     \* each connection: [kind, pc, closed: ends, copiers, npc, odd]
    nowConn,  \* Client.NowConn
    exceeded, \* the traffic has reached FlowLimit
    crashed   \* a goroutine of the server has panicked

relayVars == <<conn, nowConn, exceeded, crashed>>

Across(e) == CASE e = "visitor" -> "front" [] e = "front" -> "visitor" [] e = "back" -> "peer"
               [] e = "peer" -> "back" [] e = "out" -> "target" [] e = "target" -> "out"
Src(c) == CASE c = "up" -> "front" [] c = "down" -> "back" [] c = "up2" -> "peer" [] c = "down2" -> "out"
Dst(c) == CASE c = "up" -> "back" [] c = "down" -> "front" [] c = "up2" -> "out" [] c = "down2" -> "peer"

Counted(v) == conn[v].kind # "secret"       \* kinds that take part in NowConn
NoConn     == [kind |-> "tcp", pc |-> "idle", closed |-> {}, copiers |-> {}, npc |-> "none", odd |-> FALSE]

Init ==
    /\ conn = [v \in Visitor |-> NoConn]
    /\ nowConn = 0
    /\ exceeded = FALSE
    /\ crashed = FALSE

At(v, pc) == conn[v].pc = pc /\ ~crashed
Set(v, c) == conn' = [conn EXCEPT ![v] = c]
Quiet     == UNCHANGED <<nowConn, exceeded, crashed>>

-----------------------------------------------------------------------------
(* The server, up to the copying.                                          *)

(* Accept starts a goroutine for each; only the listeners of tunnels check.*)
Accept(v, k) ==
    /\ At(v, "idle")
    /\ Set(v, [NoConn EXCEPT !.kind = k, !.pc = CASE k = "secret" -> "deal" [] k = "ws" -> "take" [] OTHER -> "check"])
    /\ Quiet

(* CheckFlowAndConnNum: GetConn compares ...                               *)
CheckFlowAndConnNum(v) ==
    /\ At(v, "check")
    /\ Set(v, IF exceeded \/ nowConn >= MaxConn
              THEN [conn[v] EXCEPT !.pc = "done", !.closed = @ \cup {"front"}]
              ELSE [conn[v] EXCEPT !.pc = "take"])
    /\ Quiet

(* ... and then adds.                                                      *)
CutConn(v) ==
    /\ At(v, "take")
    /\ Set(v, [conn[v] EXCEPT !.pc = "deal"])
    /\ nowConn' = nowConn + 1
    /\ UNCHANGED <<exceeded, crashed>>

(* Mutant of Refuse: returns past AddConn.                                 *)
RefuseUncounted(v) ==
    /\ At(v, "deal")
    /\ Set(v, [conn[v] EXCEPT !.pc = "done", !.closed = @ \cup {"front"}])
    /\ Quiet

(* A handshake that fails, a black list, no target, a client that is not   *)
(* there (SendLinkInfo).                                                   *)
Refuse(v) ==
    /\ At(v, "deal")
    /\ Set(v, [conn[v] EXCEPT !.pc = "release", !.closed = @ \cup {"front"}])
    /\ Quiet

(* handleBind, and doConnect of an address type it does not know, leave    *)
(* the connection to the visitor.                                          *)
Leave(v) ==
    /\ At(v, "deal")
    /\ conn[v].kind = "proxy"
    /\ Set(v, [conn[v] EXCEPT !.pc = "release", !.odd = TRUE])
    /\ Quiet

(* SendLinkInfo gets a stream, the copiers start.                          *)
SendLinkInfo(v) ==
    /\ At(v, "deal")
    /\ Set(v, [conn[v] EXCEPT !.pc = "copy", !.copiers = Server, !.npc = "dial"])
    /\ Quiet

-----------------------------------------------------------------------------
(* npc.                                                                    *)

(* handleUdp binds a socket, and reads both it, for ever, and the stream.  *)
HandleUdp == {"up2"}

(* handleChan dials the target, or hands over to handleUdp.                *)
DialTarget(v) ==
    /\ conn[v].npc = "dial"
    /\ Set(v, [conn[v] EXCEPT !.npc = "copy",
                  !.copiers = @ \cup IF conn[v].kind = "assoc" THEN HandleUdp ELSE Npc])
    /\ Quiet

DialFails(v) ==
    /\ conn[v].npc = "dial"
    /\ Set(v, [conn[v] EXCEPT !.npc = "done", !.closed = @ \cup {"peer", "out"}])
    /\ Quiet

-----------------------------------------------------------------------------
(* Copying.                                                                *)

Runs(v, c)    == c \in conn[v].copiers /\ (c \in Server => ~crashed)
SeesEnd(v, c) == {Src(c), Across(Src(c))} \cap conn[v].closed # {}

(* What a copier that ends closes: both its ends; the second goroutine of  *)
(* handleUDP closes the visitor's connection only.                         *)
Closes(v, c) == IF conn[v].kind = "assoc" /\ c = "down" THEN {"front"} ELSE {Src(c), Dst(c)}
Ended(v, c)  == [conn[v] EXCEPT !.copiers = @ \ {c}, !.closed = @ \cup Closes(v, c)]

(* Mutant of CopierEnds: closes its source only.                           *)
CopierEndsHalf(v, c) ==
    /\ Runs(v, c) /\ SeesEnd(v, c)
    /\ Set(v, [conn[v] EXCEPT !.copiers = @ \ {c}, !.closed = @ \cup {Src(c)}])
    /\ Quiet

CopierEnds(v, c) ==
    /\ Runs(v, c) /\ SeesEnd(v, c)
    /\ Set(v, Ended(v, c))
    /\ Quiet

(* Traffic for an end that is closed.                                      *)
WriteFails(v, c) ==
    /\ Runs(v, c)
    /\ Src(c) \notin conn[v].closed
    /\ {Dst(c), Across(Dst(c))} \cap conn[v].closed # {}
    /\ Set(v, Ended(v, c))
    /\ Quiet

(* Traffic past the limit.  CopyBuffer ends without an error, so nothing   *)
(* is closed; where it was given no task it panics while it logs that: the *)
(* pool of copiers survives, but nobody calls wg.Done; a web socket's      *)
(* goroutine takes the process with it.                                    *)
Exceed(v, c) ==
    /\ FlowLimit
    /\ Runs(v, c) /\ c \in Server
    /\ conn[v].kind # "assoc"
    /\ Src(c) \notin conn[v].closed /\ Dst(c) \notin conn[v].closed
    /\ exceeded' = TRUE
    /\ Set(v, [conn[v] EXCEPT !.odd = TRUE,
                  !.copiers = (@ \ {c}) \cup IF conn[v].kind = "tcp" THEN {} ELSE {"lost"}])
    /\ crashed' = (conn[v].kind = "ws")
    /\ UNCHANGED nowConn

(* An address that is not on the white list: it is answered and closed.    *)
Unauthorised(v) ==
    /\ conn[v].kind = "tcp"
    /\ Runs(v, "up")
    /\ "front" \notin conn[v].closed
    /\ Set(v, [conn[v] EXCEPT !.odd = TRUE, !.copiers = @ \ {"up"}, !.closed = @ \cup {"front"}])
    /\ Quiet

-----------------------------------------------------------------------------
(* The end.                                                                *)

(* wg.Wait; handleUDP returns when its own loop ends.                      *)
Waits(v) == (IF conn[v].kind = "assoc" THEN {"up"} ELSE Server) \cup {"lost"}
CopyDone(v) ==
    /\ At(v, "copy")
    /\ conn[v].copiers \cap Waits(v) = {}
    /\ Set(v, [conn[v] EXCEPT !.pc = "release"])
    /\ Quiet

AddConn(v) ==
    /\ At(v, "release")
    /\ Set(v, [conn[v] EXCEPT !.pc = "done"])
    /\ nowConn' = IF Counted(v) THEN nowConn - 1 ELSE nowConn
    /\ UNCHANGED <<exceeded, crashed>>

Ends(v, e) ==
    /\ conn[v].pc # "idle"
    /\ e = "target" => conn[v].npc = "copy" /\ conn[v].kind # "assoc"
    /\ e \notin conn[v].closed
    /\ Set(v, [conn[v] EXCEPT !.closed = @ \cup {e}])
    /\ Quiet

(* The tunnel goes, and every stream in it.                                *)
TunnelLost ==
    /\ \E v \in Visitor : conn[v].npc # "none" /\ ~({"back", "peer"} \subseteq conn[v].closed)
    /\ conn' = [v \in Visitor |->
          IF conn[v].npc = "none" THEN conn[v] ELSE [conn[v] EXCEPT !.closed = @ \cup {"back", "peer"}]]
    /\ Quiet

Next ==
    \/ \E v \in Visitor :
          \/ \E k \in Kinds[v] : Accept(v, k)
          \/ CheckFlowAndConnNum(v) \/ CutConn(v) \/ Refuse(v) \/ Leave(v) \/ SendLinkInfo(v)
          \/ DialTarget(v) \/ DialFails(v) \/ Unauthorised(v)
          \/ \E c \in Server \cup Npc : CopierEnds(v, c) \/ WriteFails(v, c) \/ Exceed(v, c)
          \/ CopyDone(v) \/ AddConn(v) \/ Ends(v, "visitor") \/ Ends(v, "target")
    \/ TunnelLost

Spec == Init /\ [][Next]_relayVars

-----------------------------------------------------------------------------
(* Types (base.go:24, obj.go:34).                                          *)
TypeOK ==
    /\ conn \in [Visitor ->
          [kind : Kind, pc : {"idle", "check", "take", "deal", "copy", "release", "done"},
           closed : SUBSET End, copiers : SUBSET (Server \cup Npc \cup {"lost"}),
           npc : {"none", "dial", "copy", "done"}, odd : BOOLEAN]]
    /\ nowConn \in Nat
    /\ exceeded \in BOOLEAN /\ crashed \in BOOLEAN

(* NowConn counts the connections in work (obj.go: "the connection num of  *)
(* now"): every way out of a handler gives back what was taken, once.      *)
QuotaExact ==
    nowConn = Cardinality({v \in Visitor : Counted(v) /\ conn[v].pc \in {"deal", "copy", "release"}})

(* A connection one of whose ends has closed is closed all the way: while  *)
(* it lasts some copier notices, and when the server is done with it the   *)
(* ends are closed, those of npc as soon as npc has noticed.               *)
AllClose ==
    \A v \in Visitor : ~conn[v].odd /\ ~crashed =>
        /\ conn[v].pc = "copy" /\ conn[v].closed # {} /\ conn[v].npc # "dial"
           => \/ conn[v].copiers \cap Waits(v) = {}
              \/ \E c \in conn[v].copiers : SeesEnd(v, c)
        /\ conn[v].pc = "done" => "front" \in conn[v].closed
        /\ conn[v].pc = "done" /\ conn[v].npc \in {"copy", "done"} =>
              \/ {"back", "peer"} \subseteq conn[v].closed
              \/ \E c \in conn[v].copiers : SeesEnd(v, c)

(* The client's limit is kept (feature.md:134).                            *)
LimitKept == nowConn <= MaxConn

(* A limit of traffic that is reached has the client refused service       *)
(* (feature.md:68), and no other.                                          *)
StaysUp == ~crashed
=============================================================================
