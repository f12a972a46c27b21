----------------------------- MODULE NpsBridge ------------------------------
(***************************************************************************)
(* The session of one NPS client with the bridge of the NPS server: the    *)
(* two connections npc opens (WORK_MAIN for signals, WORK_CHAN for the     *)
(* tunnel mux), the server's entry for the client in Bridge.Client, the    *)
(* reader of the signal connection, the bridge's ping and DelClient        *)
(* (bridge/bridge.go, client/client.go, cmd/npc/npc.go, and the desktop    *)
(* program's internal/gui/npc.go).                                         *)
(*                                                                         *)
(* A run of TRPClient.Start is a number; 0 stands for no run.  Entries of  *)
(* Bridge.Client are objects: a goroutine that has loaded one may go on    *)
(* with it after it has left the map.                                      *)
(***************************************************************************)
EXTENDS Naturals, FiniteSets

CONSTANTS
    Runs,       \* bound: runs of TRPClient.Start
    Faults,     \* bound: connections the network cuts or refuses, and orders to disconnect
    MayCut,     \* bound: <<run, kind>> of those it may cut
    MaxRetry,   \* ticks a half-filled entry may stay (the code: 3)
    Reconnect   \* npc's command loop: TRUE; the desktop program: FALSE

Run  == 1 .. Runs
Kind == {"main", "chan"}
Obj  == 1 .. 2 * Runs                       \* each registration makes at most one
Pinger  == 0                                \* those who call DelClient: ping, the
Admin   == Runs + 1                         \* reader of a run's signals, an administrator
Deleter == 0 .. Runs + 1

ASSUME BoundAssumption == Faults \in Nat /\ {Runs, MaxRetry} \subseteq Nat \ {0}
ASSUME KindAssumption  == Reconnect \in BOOLEAN

VARIABLES
    npc,      \* each run: [pc, chan: newChan, closed: closeCh, tunnel: s.tunnel is set]
    conn,     \* each run's two connections, [c, s]: as either end sees it
    cut,      \* connections the network has cut
    deal,     \* the server's goroutine of each connection, inside typeDeal: [pc, obj]
    health,   \* each run: whether GetHealthFromClient reads its signal connection
    entry,    \* objects of type Client: [signal, tunnel, retry]
    current,  \* Bridge.Client: the object, or 0
    del,      \* each caller of DelClient: [pc, obj, signal]
    faults

client == <<npc>>
wire   == <<conn, cut, faults>>
server == <<deal, health, entry, current, del>>
vars   == <<client, wire, server>>

NoEntry == [signal |-> 0, tunnel |-> 0, retry |-> 0]
Idle    == [pc |-> "no", obj |-> 0]

Init ==
    /\ npc = [g \in Run |-> [pc |-> "idle", chan |-> "no", closed |-> FALSE, tunnel |-> FALSE]]
    /\ conn = [g \in Run |-> [k \in Kind |-> [c |-> "none", s |-> "none"]]]
    /\ cut = {}
    /\ deal = [g \in Run |-> [k \in Kind |-> [pc |-> "no", obj |-> 0]]]
    /\ health = [g \in Run |-> FALSE]
    /\ entry = [o \in Obj |-> NoEntry]
    /\ current = 0
    /\ del = [p \in Deleter |-> Idle]
    /\ faults = 0

(* An end learns that a connection is gone when the other end has closed   *)
(* it or the network has cut it.                                           *)
ClientSees(g, k) == conn[g][k].c = "open" /\ (conn[g][k].s = "closed" \/ <<g, k>> \in cut)
ServerSees(g, k) == conn[g][k].s = "open" /\ (conn[g][k].c = "closed" \/ <<g, k>> \in cut)

(* A tunnel mux closes itself when its connection is gone (MuxLink).       *)
MuxClosed(g) == ServerSees(g, "chan") \/ conn[g]["chan"].s = "closed"

-----------------------------------------------------------------------------
(* npc: TRPClient.                                                         *)

Previous(g) == \A h \in Run : h < g => npc[h].pc = "ended"

(* NewConn(WORK_MAIN): the flag is sent, the server goes on by itself.     *)
(* Then newChan is started and the signal connection read.                 *)
Dial(g) ==
    /\ npc[g].pc = "idle"
    /\ Previous(g)
    /\ g > 1 => Reconnect
    /\ npc' = [npc EXCEPT ![g].pc = "up", ![g].chan = "dial"]
    /\ conn' = [conn EXCEPT ![g]["main"] = [c |-> "open", s |-> "open"]]
    /\ deal' = [deal EXCEPT ![g]["main"].pc = "load"]
    /\ UNCHANGED <<cut, faults, health, entry, current, del>>

(* newChan: NewConn(WORK_CHAN) and s.tunnel, which Close may already have  *)
(* looked for.                                                             *)
DialChan(g) ==
    /\ npc[g].chan = "dial"
    /\ npc' = [npc EXCEPT ![g].chan = "accept", ![g].tunnel = TRUE]
    /\ conn' = [conn EXCEPT ![g]["chan"] = [c |-> "open", s |-> "open"]]
    /\ deal' = [deal EXCEPT ![g]["chan"].pc = "load"]
    /\ UNCHANGED <<cut, faults, health, entry, current, del>>

(* closing runs once: it ends ping and closes what is set.                 *)
Close(g, to) ==
    /\ npc' = [npc EXCEPT ![g] = [to EXCEPT !.closed = TRUE]]
    /\ conn' = IF npc[g].closed THEN conn
               ELSE [conn EXCEPT ![g]["main"].c = "closed",
                                 ![g]["chan"].c = IF npc[g].tunnel THEN "closed" ELSE @]

(* Mutant of DialFails: the failure of newChan ends newChan only.          *)
DialFailsHalf(g) ==
    /\ npc[g].chan = "dial"
    /\ <<g, "chan">> \in MayCut
    /\ faults < Faults
    /\ faults' = faults + 1
    /\ npc' = [npc EXCEPT ![g].chan = "ended"]
    /\ UNCHANGED <<conn, cut, server>>

DialFails(g) ==
    /\ npc[g].chan = "dial"
    /\ <<g, "chan">> \in MayCut
    /\ faults < Faults
    /\ faults' = faults + 1
    /\ Close(g, [npc[g] EXCEPT !.chan = "ended"])
    /\ UNCHANGED <<cut, server>>

(* handleMain ends with the signal connection, Start returns.              *)
MainEnds(g) ==
    /\ npc[g].pc = "up"
    /\ npc[g].closed \/ ClientSees(g, "main")
    /\ Close(g, [npc[g] EXCEPT !.pc = "ended"])
    /\ UNCHANGED <<cut, faults, server>>

(* The tunnel mux closes itself when its connection is gone; then Accept   *)
(* fails or ping notices, and either closes the client.                    *)
TunnelEnds(g) ==
    /\ npc[g].chan = "accept"
    /\ ClientSees(g, "chan") \/ conn[g]["chan"].c = "closed"
    /\ npc' = [npc EXCEPT ![g].chan = "ended", ![g].closed = TRUE]
    /\ conn' = [conn EXCEPT ![g]["chan"].c = "closed",
                            ![g]["main"].c = IF npc[g].closed THEN @ ELSE "closed"]
    /\ UNCHANGED <<cut, faults, server>>

-----------------------------------------------------------------------------
(* The bridge: typeDeal.                                                   *)

(* Objects nobody refers to are collected.                                 *)
Held(cur, ds, dl) == {cur} \cup {ds[g][k].obj : g \in Run, k \in Kind} \cup {dl[p].obj : p \in Deleter}
Fresh   == CHOOSE o \in Obj : o \notin Held(current, deal, del) /\ \A q \in Obj : q < o => q \in Held(current, deal, del)
Collect(e) == entry' = [o \in Obj |-> IF o \in Held(current', deal', del') THEN e[o] ELSE NoEntry]

(* WORK_MAIN: LoadOrStore makes an entry, ...                              *)
StoreMain(g) ==
    /\ deal[g]["main"].pc = "load"
    /\ IF current = 0
       THEN /\ entry' = [entry EXCEPT ![Fresh].signal = g]
            /\ current' = Fresh
            /\ deal' = [deal EXCEPT ![g]["main"].pc = "done"]
            /\ health' = [health EXCEPT ![g] = TRUE]
       ELSE /\ deal' = [deal EXCEPT ![g]["main"] = [pc |-> "swap", obj |-> current]]
            /\ UNCHANGED <<entry, current, health>>
    /\ UNCHANGED <<client, wire, del>>

(* ... or takes over the one it finds; the connection of before is asked   *)
(* to close, which npc does not do.                                        *)
SwapMain(g) ==
    /\ deal[g]["main"].pc = "swap"
    /\ deal' = [deal EXCEPT ![g]["main"] = [pc |-> "done", obj |-> 0]]
    /\ health' = [health EXCEPT ![g] = TRUE]
    /\ UNCHANGED <<client, wire, current, del>>
    /\ LET o == deal[g]["main"].obj
       IN  Collect([entry EXCEPT ![o].signal = g, ![o].retry = 0])

(* WORK_CHAN likewise; the tunnel of before is closed.                     *)
StoreChan(g) ==
    /\ deal[g]["chan"].pc = "load"
    /\ IF current = 0
       THEN /\ entry' = [entry EXCEPT ![Fresh].tunnel = g]
            /\ current' = Fresh
            /\ deal' = [deal EXCEPT ![g]["chan"].pc = "done"]
       ELSE /\ deal' = [deal EXCEPT ![g]["chan"] = [pc |-> "swap", obj |-> current]]
            /\ UNCHANGED <<entry, current>>
    /\ UNCHANGED <<client, wire, health, del>>

SwapChan(g) ==
    LET o   == deal[g]["chan"].obj
        old == entry[o].tunnel
    IN  /\ deal[g]["chan"].pc = "swap"
        /\ conn' = IF old = 0 THEN conn ELSE [conn EXCEPT ![old]["chan"].s = "closed"]
        /\ deal' = [deal EXCEPT ![g]["chan"] = [pc |-> "done", obj |-> 0]]
        /\ UNCHANGED <<client, cut, faults, current, health, del>>
        /\ Collect([entry EXCEPT ![o].tunnel = g])

-----------------------------------------------------------------------------
(* The bridge: DelClient and those who call it.                            *)

(* DelClient loads the entry ...                                           *)
BeginDel(p) == del' = [del EXCEPT ![p] = IF current = 0 THEN Idle
                                         ELSE [pc |-> "take", obj |-> current]]

(* GetHealthFromClient ends with its signal connection, whoever has taken  *)
(* the entry over since.                                                   *)
HealthEnds(g) ==
    /\ health[g]
    /\ ServerSees(g, "main") \/ conn[g]["main"].s = "closed"
    /\ health' = [health EXCEPT ![g] = FALSE]
    /\ BeginDel(g)
    /\ UNCHANGED <<client, wire, deal, entry, current>>

(* Mutant of Tick: counts what is missing, and removes nothing for it.     *)
TickCounts ==
    /\ del[Pinger] = Idle
    /\ current # 0
    /\ LET e == entry[current]
       IN  IF e.tunnel = 0 \/ e.signal = 0
           THEN /\ e.retry < MaxRetry
                /\ entry' = [entry EXCEPT ![current].retry = @ + 1]
                /\ UNCHANGED del
           ELSE /\ MuxClosed(e.tunnel)
                /\ BeginDel(Pinger)
                /\ UNCHANGED entry
    /\ UNCHANGED <<client, wire, deal, health, current>>

(* Mutant of Tick: one tick too many before it gives up.                   *)
TickLate ==
    /\ del[Pinger] = Idle
    /\ current # 0
    /\ LET e == entry[current]
       IN  IF e.tunnel = 0 \/ e.signal = 0
           THEN /\ entry' = [entry EXCEPT ![current].retry = @ + 1]
                /\ IF e.retry + 1 > MaxRetry THEN BeginDel(Pinger) ELSE UNCHANGED del
           ELSE /\ MuxClosed(e.tunnel)
                /\ BeginDel(Pinger)
                /\ UNCHANGED entry
    /\ UNCHANGED <<client, wire, deal, health, current>>

(* ping, every five seconds: counts the ticks an entry lacks one of its    *)
(* connections, and gives up on a closed tunnel.                           *)
Tick ==
    /\ del[Pinger] = Idle
    /\ current # 0
    /\ LET e == entry[current]
       IN  IF e.tunnel = 0 \/ e.signal = 0
           THEN /\ entry' = [entry EXCEPT ![current].retry = @ + 1]
                /\ IF e.retry + 1 >= MaxRetry THEN BeginDel(Pinger) ELSE UNCHANGED del
           ELSE /\ MuxClosed(e.tunnel)
                /\ BeginDel(Pinger)
                /\ UNCHANGED entry
    /\ UNCHANGED <<client, wire, deal, health, current>>

(* An administrator disconnects the client, or its time is over.           *)
DelClientConnect ==
    /\ del[Admin] = Idle
    /\ current # 0
    /\ faults < Faults
    /\ faults' = faults + 1
    /\ BeginDel(Admin)
    /\ UNCHANGED <<client, conn, cut, deal, health, entry, current>>

(* ... takes the signal connection out of it under its lock, closes it ... *)
CloseSignal(p) ==
    LET o == del[p].obj
    IN  /\ del[p].pc = "take"
        /\ del' = [del EXCEPT ![p].pc = "delete", ![p].obj = 0]
        /\ conn' = IF entry[o].signal = 0 THEN conn
                   ELSE [conn EXCEPT ![entry[o].signal]["main"].s = "closed"]
        /\ UNCHANGED <<client, cut, faults, deal, health, current>>
        /\ Collect([entry EXCEPT ![o].signal = 0])

(* ... and deletes what the map holds by then.                             *)
Delete(p) ==
    /\ del[p].pc = "delete"
    /\ del' = [del EXCEPT ![p] = Idle]
    /\ current' = 0
    /\ UNCHANGED <<client, wire, deal, health>>
    /\ Collect(entry)

-----------------------------------------------------------------------------
Cut(g, k) ==
    /\ conn[g][k].c = "open" \/ conn[g][k].s = "open"
    /\ <<g, k>> \in MayCut \ cut
    /\ faults < Faults
    /\ faults' = faults + 1
    /\ cut' = cut \cup {<<g, k>>}
    /\ UNCHANGED <<client, conn, server>>

Client(g)  == Dial(g) \/ DialChan(g) \/ MainEnds(g) \/ TunnelEnds(g)
Dealing(g) == StoreMain(g) \/ SwapMain(g) \/ StoreChan(g) \/ SwapChan(g) \/ HealthEnds(g)
DelClient(p) == CloseSignal(p) \/ Delete(p)

(* What the two programs do by themselves, and what befalls them.          *)
System ==
    \/ \E g \in Run : Client(g) \/ Dealing(g)
    \/ \E p \in Deleter : DelClient(p)
    \/ Tick

Next ==
    \/ System
    \/ \E g \in Run : DialFails(g) \/ \E k \in Kind : Cut(g, k)
    \/ DelClientConnect

(* Every goroutine of either side runs, and ping's ticker ticks.           *)
Fairness == WF_vars(System)

Spec == Init /\ [][Next]_vars /\ Fairness

-----------------------------------------------------------------------------
(* Types (bridge.go:31, client.go:25); the entry's retryTime stops at its  *)
(* bound.                                                                  *)
TypeOK ==
    /\ npc \in [Run -> [pc : {"idle", "up", "ended"}, chan : {"no", "dial", "accept", "ended"},
                        closed : BOOLEAN, tunnel : BOOLEAN]]
    /\ conn \in [Run -> [Kind -> [c : {"none", "open", "closed"}, s : {"none", "open", "closed"}]]]
    /\ cut \subseteq Run \X Kind
    /\ deal \in [Run -> [Kind -> [pc : {"no", "load", "swap", "done"}, obj : {0} \cup Obj]]]
    /\ health \in [Run -> BOOLEAN]
    /\ entry \in [Obj -> [signal : 0 .. Runs, tunnel : 0 .. Runs, retry : 0 .. MaxRetry]]
    /\ current \in {0} \cup Obj
    /\ del \in [Deleter -> [pc : {"no", "take", "delete"}, obj : {0} \cup Obj]]
    /\ faults \in 0 .. Faults

(* A client that has lost one of its two connections does not stay half    *)
(* connected: it ends as a whole and Start returns (client.go:225: without *)
(* Close "the client stays half-connected").                               *)
NotHalf ==
    []<>(\A g \in Run : /\ npc[g].chan = "ended" => npc[g].pc = "ended"
                        /\ ClientSees(g, "main") => npc[g].closed)

(* An entry that has only one of its two connections does not stay: it is  *)
(* completed or removed (bridge.go:475).                                   *)
HalfGone == []<>(current # 0 => 0 \notin {entry[current].signal, entry[current].tunnel})

(* A tunnel the entry no longer holds is closed at the server (the change  *)
(* log of NPS: the old WORK_CHAN mux was not closed, its connection and    *)
(* goroutines were never released; fixed).                                 *)
OldTunnelsClosed ==
    []<>(\A g \in Run : deal[g]["chan"].pc = "done" =>
            (MuxClosed(g) \/ (current # 0 /\ entry[current].tunnel = g)))
=============================================================================
