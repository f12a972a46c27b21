---------------------------- MODULE ClientSession ----------------------------
(***************************************************************************)
(* The life of one client process (internal/client/client.go): the loop of *)
(* Run, which makes a session, connects and waits for the session to end;  *)
(* the goroutines that connectOnce starts for a session; and Close, called *)
(* once by the program around the client.                                  *)
(*                                                                         *)
(* The fields of Client (session, conn, udp, tun, crypto) are shared       *)
(* without a lock.  A step reads or writes one of them, except that        *)
(* teardown, which closes what three of them refer to, is one step, and so *)
(* is the start of the loops: each captures the conn, udp or tun of the    *)
(* session that starts it.  The NAT object is made and closed together with*)
(* the TUN.  heartbeatLoop changes nothing and is left out.  Faults of the *)
(* network, of the TUN driver and of the server are choices that each use  *)
(* up one of MaxFaults.                                                    *)
(***************************************************************************)
EXTENDS Integers

CONSTANTS
    Session,        \* identities of sessions; one is reused once forgotten
    NoSession,      \* a nil field
    MaxFaults,      \* bound: faults in a behaviour
    MaxRefusals     \* bound: times the server forgets or blocks the device

VARIABLES
    run,        \* where Run and connectOnce are
    session,    \* the field c.session
    ended,      \* sessions whose channel is closed
    field,      \* the session whose conn, udp or tun the field refers to
    open,       \* what each session has open
    loop,       \* the critical loops of each session
    credential, \* what the client keeps: none, valid at the server, stale
    crypto,     \* c.crypto # nil
    blocked,    \* the server refuses to register this device
    closer,     \* where Close is
    crash,      \* why the process panicked
    faults, refusals

connection == <<session, ended, field, open>>
budget     == <<faults, refusals>>
server     == <<credential, crypto, blocked>>
vars == <<run, connection, loop, server, closer, crash, budget>>

ASSUME SessionAssumption == NoSession \notin Session
ASSUME BoundAssumption   == MaxFaults \in Nat /\ MaxRefusals \in Nat

Resource == {"conn", "udp", "tun"}          \* each read by one critical loop
RunPC    == {"init", "top", "dial", "auth", "udp", "tun", "spawn", "wait",
             "pause", "returned"}
LoopPC   == {"none", "run", "closing"}      \* none: not started, or finished
CloserPC == {"no", "ending", "closing", "teardown", "done"}

AllLoops(l) == [k \in Resource |-> l]

Init ==
    /\ run = "init"
    /\ session = NoSession
    /\ ended = {}
    /\ field = [k \in Resource |-> NoSession]
    /\ open = [s \in Session |-> {}]
    /\ loop = [s \in Session |-> AllLoops("none")]
    /\ credential \in {"none", "valid"}
    /\ crypto = (credential # "none")
    /\ blocked = FALSE
    /\ closer = "no"
    /\ crash = "no"
    /\ faults = MaxFaults
    /\ refusals = MaxRefusals

Alive  == crash = "no"
Closed == closer # "no"         \* c.closed is closed
At(l)  == Alive /\ run = l
Goto(l) == run' = l
Fault  == faults > 0 /\ faults' = faults - 1

-----------------------------------------------------------------------------
(* Mutant of teardown: forgets the data socket.                            *)
TeardownKeepsUDP ==
    open' = [s \in Session |-> open[s] \ {k \in {"conn", "tun"} : field[k] = s}]

(* teardown closes what the fields refer to and leaves the fields alone.   *)
teardown == open' = [s \in Session |-> open[s] \ {k \in Resource : field[k] = s}]

(* Run makes c.closed only after it has found the hardware id.             *)
Begin ==
    /\ At("init")
    /\ Goto("top")
    /\ UNCHANGED <<connection, loop, server, closer, crash, budget>>

(* A fresh session channel.  An identity is fresh when nothing refers to   *)
(* its earlier use.                                                        *)
Forgotten(s) ==
    /\ s # session
    /\ open[s] = {}
    /\ loop[s] = AllLoops("none")

NewSession ==
    /\ At("top")
    /\ \E s \in Session :
          /\ Forgotten(s)
          /\ session' = s
          /\ ended' = ended \ {s}
    /\ Goto("dial")
    /\ UNCHANGED <<field, open, loop, server, closer, crash, budget>>

(* connectOnce returns an error that is not fatal, or errRegistered.       *)
Retry == teardown /\ Goto("pause") /\ UNCHANGED <<session, ended, field>>

Acquire(k) ==
    /\ field' = [field EXCEPT ![k] = session]
    /\ open' = [open EXCEPT ![session] = @ \cup {k}]
    /\ UNCHANGED <<session, ended>>

Usable(k) == k \in open[session]     \* Close has not closed it meanwhile

(* An error of connectOnce: a fault, or a socket that Close has closed.    *)
ConnectError ==
    /\ run \in {"dial", "auth", "udp", "tun", "spawn"}
    /\ Alive
    /\ \/ Fault
       \/ run \in {"auth", "spawn"} /\ ~Usable("conn") /\ UNCHANGED faults
       \/ run = "spawn" /\ ~Usable("udp") /\ UNCHANGED faults
    /\ Retry
    /\ UNCHANGED <<loop, server, closer, crash, refusals>>

Dial ==
    /\ At("dial")
    /\ Acquire("conn")
    /\ Goto("auth")
    /\ UNCHANGED <<loop, server, closer, crash, budget>>

(* Registration: the answer carries the credential, a refusal is fatal.    *)
Register ==
    /\ At("auth")
    /\ Usable("conn")
    /\ credential = "none"
    /\ IF blocked
       THEN Goto("returned") /\ UNCHANGED <<connection, server>>
       ELSE /\ credential' = "valid"
            /\ crypto' = TRUE
            /\ Retry
            /\ UNCHANGED blocked
    /\ UNCHANGED <<loop, closer, crash, budget>>

(* Mutant of Hello: keeps a refused credential.                            *)
HelloKeeps ==
    /\ At("auth")
    /\ Usable("conn")
    /\ \/ credential = "valid" /\ Goto("udp") /\ UNCHANGED connection
       \/ credential = "stale" /\ Retry
    /\ UNCHANGED <<server, loop, closer, crash, budget>>

(* Hello: a refused credential is dropped, the next round registers.  This *)
(* server renames a device whose name is taken, so errNameTaken is left out*)
Hello ==
    /\ At("auth")
    /\ Usable("conn")
    /\ \/ credential = "valid" /\ Goto("udp") /\ UNCHANGED <<connection, server>>
       \/ /\ credential = "stale"
          /\ credential' = "none"
          /\ crypto' = FALSE
          /\ Retry
          /\ UNCHANGED blocked
    /\ UNCHANGED <<loop, closer, crash, budget>>

ListenUDP ==
    /\ At("udp")
    /\ Acquire("udp")
    /\ Goto("tun")
    /\ UNCHANGED <<loop, server, closer, crash, budget>>

OpenTun ==
    /\ At("tun")
    /\ Acquire("tun")
    /\ Goto("spawn")
    /\ UNCHANGED <<loop, server, closer, crash, budget>>

(* The rules are asked for and the server probed, then the loops start.    *)
Spawn ==
    /\ At("spawn")
    /\ Usable("conn")
    /\ Usable("udp")
    /\ loop' = [loop EXCEPT ![session] = AllLoops("run")]
    /\ Goto("wait")
    /\ UNCHANGED <<connection, server, closer, crash, budget>>

(* The select of Run.  It takes either branch when both are ready.         *)
WaitClosed ==
    /\ At("wait")
    /\ Closed
    /\ Goto("returned")
    /\ UNCHANGED <<connection, loop, server, closer, crash, budget>>

(* Mutant of WaitEnded: does not tear down.                                *)
WaitEndedOpen ==
    /\ At("wait")
    /\ session \in ended
    /\ Goto("top")
    /\ UNCHANGED <<connection, loop, server, closer, crash, budget>>

WaitEnded ==
    /\ At("wait")
    /\ session \in ended
    /\ teardown
    /\ Goto("top")
    /\ UNCHANGED <<session, ended, field, loop, server, closer, crash, budget>>

Pause ==
    /\ At("pause")
    /\ Goto(IF Closed THEN "returned" ELSE "top")
    /\ UNCHANGED <<connection, loop, server, closer, crash, budget>>

RunStep ==
    \/ Begin \/ NewSession \/ ConnectError
    \/ Dial \/ Register \/ Hello \/ ListenUDP \/ OpenTun \/ Spawn
    \/ WaitClosed \/ WaitEnded \/ Pause

-----------------------------------------------------------------------------
(* Mutant of endSession: nothing happens to a closed or nil channel.       *)
EndSessionQuiet ==
    /\ ended' = ended \cup {session}
    /\ UNCHANGED crash

(* endSession: looks whether c.session is closed, then closes c.session.   *)
endSession ==
    IF session \in ended \cup {NoSession}
    THEN /\ crash' = IF session = NoSession THEN "nil" ELSE "closed twice"
         /\ UNCHANGED ended
    ELSE /\ ended' = ended \cup {session}
         /\ UNCHANGED crash

SetLoop(s, k, l) == loop' = [loop EXCEPT ![s][k] = l]

(* Mutant of LoopBreaks: the loop returns without endSession.              *)
LoopReturns(s, k) ==
    /\ Alive
    /\ loop[s][k] = "run"
    /\ SetLoop(s, k, "none")
    /\ UNCHANGED <<run, connection, server, closer, crash, refusals>>

(* The read of a critical loop fails, because its resource was closed or   *)
(* for another reason; the deferred endSession finds c.session closed, or  *)
(* is about to close it.                                                   *)
LoopBreaks(s, k) ==
    /\ Alive
    /\ loop[s][k] = "run"
    /\ SetLoop(s, k, IF session \in ended THEN "none" ELSE "closing")
    /\ UNCHANGED <<run, connection, server, closer, crash, refusals>>

LoopClosed(s, k) == k \notin open[s] /\ LoopBreaks(s, k) /\ UNCHANGED faults
LoopFault(s, k)  == Fault /\ LoopBreaks(s, k)

LoopEnd(s, k) ==
    /\ Alive
    /\ loop[s][k] = "closing"
    /\ endSession
    /\ SetLoop(s, k, "none")
    /\ UNCHANGED <<run, session, field, open, server, closer, budget>>

LoopStep(s, k) == LoopClosed(s, k) \/ LoopEnd(s, k)

(* A data loop with a packet in hand, and the goroutine of startPunch, that*)
(* sends for up to four seconds and looks at no session, use c.crypto as it*)
(* is at that moment.  Either may be left over from an earlier session.    *)
NilCrypto ==
    /\ Alive
    /\ ~crypto
    /\ field["tun"] # NoSession
    /\ crash' = "nil"
    /\ UNCHANGED <<run, connection, loop, server, closer, budget>>

-----------------------------------------------------------------------------
(* Close: closes c.closed, nil until Run has begun, ends the session and   *)
(* tears down.                                                             *)
CloseBegin ==
    /\ Alive
    /\ closer = "no"
    /\ IF run = "init"
       THEN crash' = "nil" /\ UNCHANGED closer
       ELSE closer' = "ending" /\ UNCHANGED crash
    /\ UNCHANGED <<run, connection, loop, server, budget>>

CloseStep ==
    /\ Alive
    /\ \/ /\ closer = "ending"
          /\ closer' = IF session \in ended THEN "teardown" ELSE "closing"
          /\ UNCHANGED <<connection, crash>>
       \/ /\ closer = "closing"
          /\ endSession
          /\ closer' = "teardown"
          /\ UNCHANGED <<session, field, open>>
       \/ /\ closer = "teardown"
          /\ teardown
          /\ closer' = "done"
          /\ UNCHANGED <<session, ended, field, crash>>
    /\ UNCHANGED <<run, loop, server, budget>>

(* The server's side: the device's credential is revoked with a block, or  *)
(* lost with the device file; an administrator lifts the block.            *)
Refuse ==
    /\ Alive
    /\ refusals > 0
    /\ refusals' = refusals - 1
    /\ credential' = IF credential = "valid" THEN "stale" ELSE credential
    /\ blocked' \in BOOLEAN
    /\ UNCHANGED <<run, connection, loop, crypto, closer, crash, faults>>

(* The process has ended, or nothing is left to do in it.                  *)
Finished ==
    /\ crash # "no" \/ run = "returned"
    /\ UNCHANGED vars

Next ==
    \/ RunStep
    \/ \E s \in Session, k \in Resource : LoopStep(s, k)
    \/ \E s \in Session, k \in Resource : LoopFault(s, k)
    \/ NilCrypto
    \/ CloseBegin \/ CloseStep
    \/ Refuse
    \/ Finished

(* Go runs every goroutine that can run; reads of a closed socket return.  *)
(* The loops of one session take only so many steps, so fairness to their  *)
(* steps together is fairness to each.                                     *)
Fairness ==
    /\ WF_vars(RunStep)
    /\ \A s \in Session : WF_vars(\E k \in Resource : LoopStep(s, k))
    /\ WF_vars(CloseStep)

Spec == Init /\ [][Next]_vars /\ Fairness

-----------------------------------------------------------------------------
(* Every field has the type of its counterpart in the code.                *)
TypeOK ==
    /\ run \in RunPC
    /\ session \in Session \cup {NoSession}
    /\ ended \subseteq Session
    /\ field \in [Resource -> Session \cup {NoSession}]
    /\ open \in [Session -> SUBSET Resource]
    /\ loop \in [Session -> [Resource -> LoopPC]]
    /\ credential \in {"none", "valid", "stale"}
    /\ crypto \in BOOLEAN
    /\ blocked \in BOOLEAN
    /\ closer \in CloserPC
    /\ crash \in {"no", "nil", "closed twice"}
    /\ faults \in 0 .. MaxFaults
    /\ refusals \in 0 .. MaxRefusals

(***************************************************************************)
(* The process never has two virtual network cards, sockets or connections *)
(* open: what Run opens for a session is closed before the next one opens  *)
(* its own, wherever connectOnce failed and whenever Close cuts in.        *)
(***************************************************************************)
OneOfEach ==
    \A s, t \in Session : s # t => open[s] \cap open[t] = {}

(***************************************************************************)
(* As long as Run holds a session to be alive and Close has not been called*)
(* the session works: its keys are there, its sockets and its TUN are open *)
(* and none of the three loops that read them has finished.  A loop that   *)
(* fails therefore always brings Run back, also when loops of an earlier   *)
(* session finish late.                                                    *)
(***************************************************************************)
LiveSession ==
    At("wait") /\ session \notin ended /\ ~Closed =>
        /\ crypto
        /\ open[session] = Resource
        /\ \A k \in Resource : loop[session][k] # "none"

(***************************************************************************)
(* A loop does not outlive the session whose socket it reads: once Run has *)
(* gone on to another session, the old one's loops come to an end.         *)
(***************************************************************************)
OldLoopsEnd ==
    \A s \in Session, k \in Resource :
        (loop[s][k] = "run" /\ session # s) ~> (loop[s][k] # "run" \/ ~Alive)

(***************************************************************************)
(* The client never gives up: whatever fails, it is connected again and    *)
(* again, with a new credential when the server no longer knows the old    *)
(* one, unless it was closed or registration was refused.                  *)
(***************************************************************************)
ConnectsAgain == []<>(run \in {"wait", "returned"} \/ ~Alive)

(***************************************************************************)
(* What the comment on Run promises (client.go:164), reconnection after a  *)
(* disconnect: once faults have stopped, the client settles in a session.  *)
(***************************************************************************)
Settles ==
    [](~Closed /\ Alive) => <>[](run \in {"wait", "returned"})
=============================================================================
