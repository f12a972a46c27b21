------------------------------ MODULE Desktop ------------------------------
(***************************************************************************)
(* The desktop program (internal/gui/bridge.go, npc.go): Connect makes a   *)
(* client of the network and a goroutine, runClient, that follows it until *)
(* it returns or the user disconnects, keeps the state the window shows,   *)
(* and runs an NPS client beside it while it is connected.                 *)
(*                                                                         *)
(* Calls of the window come one at a time, in its message loop; they       *)
(* interleave with runClient, with Run, and with the goroutines of NPS     *)
(* clients (nps-master/client/client.go, Start and closing), which share   *)
(* the package's variable CloseClient.                                     *)
(***************************************************************************)
EXTENDS Integers

CONSTANTS
    MaxRun, \* bound: Connects that start a client
    MaxTrp  \* bound: NPS clients

Run == 1 .. MaxRun
Trp == 1 .. MaxTrp
None == 0

VARIABLES
    cli,         \* App.cli: the run in progress, or None
    stop,        \* App.stop: the run whose channel it is, or None
    status,      \* State.Status
    run,         \* [Run -> [pc: of runClient, net: of Client.Run, vip: SelfVIP is set, stopped]]
    npc,         \* npcManager.trp, or None
    trp,         \* [Trp -> [pc, once: closing has run, signal]]
    CloseClient, \* of package client
    panicked

desktopVars == <<cli, stop, status, run, npc, trp, CloseClient, panicked>>

DesktopInit ==
    /\ cli = None /\ stop = None /\ status = "disconnected"
    /\ run = [r \in Run |-> [pc |-> "none", net |-> "none", vip |-> FALSE, stopped |-> FALSE]]
    /\ npc = None
    /\ trp = [t \in Trp |-> [pc |-> "none", once |-> FALSE, signal |-> "nil"]]
    /\ CloseClient = FALSE
    /\ panicked = FALSE

Sits(r, pc)   == run[r].pc = pc /\ ~panicked
Step(r, pc)   == run' = [run EXCEPT ![r].pc = pc]
Ui            == <<cli, stop, status>>
Npc           == <<npc, trp, CloseClient>>

-----------------------------------------------------------------------------
(* The window.                                                             *)

Connect ==
    /\ cli = None /\ ~panicked
    /\ \E r \in Run :
          /\ run[r].pc = "none" /\ \A q \in 1 .. r - 1 : run[q].pc # "none"
          /\ cli' = r /\ stop' = r /\ status' = "connecting"
          /\ run' = [run EXCEPT ![r] = [pc |-> "loop", net |-> "new", vip |-> FALSE, stopped |-> FALSE]]
    /\ UNCHANGED <<npc, trp, CloseClient, panicked>>

(* Disconnect, and Quit: a.stop is never set back to nil.                  *)
Disconnect ==
    /\ stop # None /\ ~panicked
    /\ status' = "connecting"
    /\ run' = [run EXCEPT ![stop].stopped = TRUE]
    /\ UNCHANGED <<cli, stop, npc, trp, CloseClient, panicked>>

-----------------------------------------------------------------------------
(* Client.Run, in a goroutine of its own (ClientSession has what it does). *)

RunBegins(r) ==
    /\ run[r].net = "new" /\ ~panicked
    /\ run' = [run EXCEPT ![r].net = "runs"]
    /\ UNCHANGED <<cli, stop, status, npc, trp, CloseClient, panicked>>

(* SelfVIP: an address, once there is one, stays.                          *)
Online(r) ==
    /\ run[r].net = "runs" /\ ~run[r].vip /\ ~panicked
    /\ run' = [run EXCEPT ![r].vip = TRUE]
    /\ UNCHANGED <<cli, stop, status, npc, trp, CloseClient, panicked>>

(* A fatal error is shown, and then done is closed.                        *)
RunFails(r) ==
    /\ run[r].net \in {"new", "runs"} /\ ~panicked
    /\ status' = "error"
    /\ run' = [run EXCEPT ![r].net = "failed"]
    /\ UNCHANGED <<cli, stop, npc, trp, CloseClient, panicked>>

RunReturns(r) ==
    /\ run[r].net \in {"failed", "closed"} /\ ~panicked
    /\ run' = [run EXCEPT ![r].net = "done"]
    /\ UNCHANGED <<cli, stop, status, npc, trp, CloseClient, panicked>>

-----------------------------------------------------------------------------
(* TRPClient.                                                              *)

(* closing, once: it closes the signal it can see.                         *)
Closed(t) == [trp[t] EXCEPT !.once = TRUE, !.signal = IF @ = "open" THEN "closed" ELSE @]

(* npcManager.stop: Close of the one it has.                               *)
StopNpc ==
    /\ npc' = None
    /\ trp' = IF npc = None THEN trp ELSE [trp EXCEPT ![npc] = Closed(npc)]
    /\ CloseClient' = (CloseClient \/ (npc # None /\ ~trp[npc].once))

(* npcManager.start: stop, then a new one.                                 *)
StartNpc(t) ==
    /\ trp[t].pc = "none" /\ \A u \in 1 .. t - 1 : trp[u].pc # "none"
    /\ npc' = t
    /\ trp' = [u \in Trp |-> IF u = t THEN [trp[t] EXCEPT !.pc = "start"]
                             ELSE IF u = npc THEN Closed(u) ELSE trp[u]]
    /\ CloseClient' = (CloseClient \/ (npc # None /\ ~trp[npc].once))

(* Start: CloseClient = false.                                             *)
Start(t) ==
    /\ trp[t].pc = "start"
    /\ trp' = [trp EXCEPT ![t].pc = "retry"]
    /\ CloseClient' = FALSE
    /\ UNCHANGED <<cli, stop, status, run, npc, panicked>>

(* The label retry looks at the variable all clients share.                *)
Retry(t) ==
    /\ trp[t].pc = "retry"
    /\ trp' = [trp EXCEPT ![t].pc = IF CloseClient THEN "gone" ELSE "dial"]
    /\ UNCHANGED <<cli, stop, status, run, npc, CloseClient, panicked>>

(* NewConn fails, five seconds, or it succeeds and nobody looks whether    *)
(* the client was closed meanwhile.                                        *)
Dial(t) ==
    /\ trp[t].pc = "dial"
    /\ \/ trp' = [trp EXCEPT ![t].pc = "retry"]
       \/ trp' = [trp EXCEPT ![t].pc = "main", ![t].signal = "open"]
    /\ UNCHANGED <<cli, stop, status, run, npc, CloseClient, panicked>>

(* handleMain: the connection is closed or lost, and Start returns.        *)
MainEnds(t) ==
    /\ trp[t].pc = "main"
    /\ trp' = [trp EXCEPT ![t] = [pc |-> "gone", once |-> TRUE, signal |-> "closed"]]
    /\ CloseClient' = (CloseClient \/ ~trp[t].once)
    /\ UNCHANGED <<cli, stop, status, run, npc, panicked>>

-----------------------------------------------------------------------------
(* runClient's loop.                                                       *)

(* A tick: syncFromClient shows an address that is new to the window ...   *)
SyncFromClient(r) ==
    /\ Sits(r, "loop") /\ run[r].vip
    /\ status # "connected"
    /\ status' = "connected"
    /\ Step(r, "synced")
    /\ UNCHANGED <<cli, stop, npc, trp, CloseClient, panicked>>

(* ... and starts the NPS client.                                          *)
SyncStarts(r) ==
    /\ Sits(r, "synced")
    /\ Step(r, "loop")
    /\ \E t \in Trp : StartNpc(t)
    /\ UNCHANGED <<cli, stop, status, panicked>>

(* The channel stop: c.Close, which panics before Run has made c.closed.   *)
StopClient(r) ==
    /\ Sits(r, "loop") /\ run[r].stopped
    /\ panicked' = (run[r].net = "new")
    /\ run' = [run EXCEPT ![r].pc = "stop", ![r].net = IF @ = "runs" THEN "closed" ELSE @]
    /\ UNCHANGED <<cli, stop, status, npc, trp, CloseClient>>

StopStopsNpc(r) ==
    /\ Sits(r, "stop")
    /\ Step(r, "wait")
    /\ StopNpc
    /\ UNCHANGED <<cli, stop, status, panicked>>

(* Mutant of WaitDone: does not wait.                                      *)
WaitNot(r) ==
    /\ Sits(r, "wait")
    /\ cli' = None
    /\ Step(r, "show")
    /\ UNCHANGED <<stop, status, npc, trp, CloseClient, panicked>>

WaitDone(r) ==
    /\ Sits(r, "wait") /\ run[r].net = "done"
    /\ cli' = None
    /\ Step(r, "show")
    /\ UNCHANGED <<stop, status, npc, trp, CloseClient, panicked>>

Show(r) ==
    /\ Sits(r, "show")
    /\ status' = "disconnected"
    /\ Step(r, "gone")
    /\ UNCHANGED <<cli, stop, npc, trp, CloseClient, panicked>>

(* Mutant of DoneStopsNpc: leaves the NPS client.                          *)
DoneLeavesNpc(r) ==
    /\ Sits(r, "loop") /\ run[r].net = "done"
    /\ Step(r, "clear")
    /\ UNCHANGED <<cli, stop, status, npc, trp, CloseClient, panicked>>

(* Run has returned.                                                       *)
DoneStopsNpc(r) ==
    /\ Sits(r, "loop") /\ run[r].net = "done"
    /\ Step(r, "clear")
    /\ StopNpc
    /\ UNCHANGED <<cli, stop, status, panicked>>

DoneClears(r) ==
    /\ Sits(r, "clear")
    /\ cli' = IF cli = r THEN None ELSE cli
    /\ Step(r, IF cli = r THEN "look" ELSE "gone")
    /\ UNCHANGED <<stop, status, npc, trp, CloseClient, panicked>>

(* The state is read, and set in a second lock.                            *)
DoneLooks(r) ==
    /\ Sits(r, "look")
    /\ Step(r, IF status \in {"connected", "connecting"} THEN "show" ELSE "gone")
    /\ UNCHANGED <<cli, stop, status, npc, trp, CloseClient, panicked>>

DesktopNext ==
    \/ Connect \/ Disconnect
    \/ \E r \in Run : \/ RunBegins(r) \/ Online(r) \/ RunFails(r) \/ RunReturns(r)
                      \/ SyncFromClient(r) \/ SyncStarts(r)
                      \/ StopClient(r) \/ StopStopsNpc(r) \/ WaitDone(r) \/ Show(r)
                      \/ DoneStopsNpc(r) \/ DoneClears(r) \/ DoneLooks(r)
    \/ \E t \in Trp : ~panicked /\ (Start(t) \/ Retry(t) \/ Dial(t) \/ MainEnds(t))

DesktopSpec == DesktopInit /\ [][DesktopNext]_desktopVars

-----------------------------------------------------------------------------
(* Types (app.go:20, npc.go:25, client.go:25).                             *)
DesktopTypeOK ==
    /\ cli \in Run \cup {None} /\ stop \in Run \cup {None} /\ npc \in Trp \cup {None}
    /\ status \in {"disconnected", "connecting", "connected", "error"}
    /\ run \in [Run -> [pc : {"none", "loop", "synced", "stop", "wait", "show", "clear", "look", "gone"},
                        net : {"none", "new", "runs", "failed", "closed", "done"},
                        vip : BOOLEAN, stopped : BOOLEAN]]
    /\ trp \in [Trp -> [pc : {"none", "start", "retry", "dial", "main", "gone"},
                        once : BOOLEAN, signal : {"nil", "open", "closed"}]]
    /\ CloseClient \in BOOLEAN /\ panicked \in BOOLEAN

(* One network at a time (bridge.go:72): two clients would fight over the  *)
(* virtual card and over the address.  And an NPS client is kept only      *)
(* beside a network (bridge.go:147, 159).                                  *)
OneNetwork ==
    /\ \A q, r \in Run : q # r => run[q].net \in {"none", "done"} \/ run[r].net \in {"none", "done"}
    /\ npc # None => cli # None

(* What the user has ended is ended: when no run is left, no NPS client is *)
(* left that goes on by itself (npc.go:25, it "manages the life cycle of   *)
(* the embedded NPS client").                                              *)
NoStrayNpc ==
    (\A r \in Run : run[r].pc \in {"none", "gone"})
        => ~\E t \in Trp : trp[t].pc = "main" /\ trp[t].signal = "open" /\ trp[t].once

(* The window says "connecting" while something connects (bridge.go:265).  *)
ShowsTruth ==
    status = "connecting" => \E r \in Run : run[r].pc \notin {"none", "gone"}
=============================================================================
