------------------------- MODULE ClientSessionProofs -------------------------
(***************************************************************************)
(* Proofs about the client process: for any number of sessions, of faults  *)
(* and of refusals, the process has at most one of each resource open, and *)
(* a session that Run takes to be alive works.                             *)
(***************************************************************************)
EXTENDS ClientSession, TLAPS

(* What connectOnce has opened for the session when Run is at l; once Run  *)
(* has returned, what is left for Close to close.                          *)
HeldAt(l) ==
    {k \in Resource :
        \/ k = "conn" /\ l \in {"auth", "udp", "tun", "spawn", "wait", "returned"}
        \/ k = "udp"  /\ l \in {"tun", "spawn", "wait", "returned"}
        \/ k = "tun"  /\ l \in {"spawn", "wait", "returned"}}

(* Whatever is open was opened by connectOnce for the session of the field *)
(* c.session, and the field that teardown looks at still refers to it.     *)
OpenIsHeld ==
    \A s \in Session : \A k \in open[s] :
        s = session /\ field[k] = s /\ k \in HeldAt(run)

(* Nobody but Close takes a resource away from a session that is used.     *)
HeldIsOpen ==
    ~Closed /\ run # "returned" /\ session # NoSession =>
        HeldAt(run) \subseteq open[session]

(* A session exists once Run has gone round.                               *)
SessionMade == session = NoSession => run \in {"init", "top"}

(* The keys are there exactly when the client has a credential, and it has *)
(* one from its acceptance by the server until the session is over.        *)
KeysKept ==
    /\ credential # "none" <=> crypto
    /\ run \in {"udp", "tun", "spawn", "wait"} => credential # "none"

(* A loop of the session that is gone has ended the session.               *)
LoopsWatched ==
    At("wait") /\ session \notin ended =>
        \A k \in Resource : loop[session][k] # "none"

IInv ==
    /\ TypeOK
    /\ OpenIsHeld
    /\ HeldIsOpen
    /\ SessionMade
    /\ KeysKept
    /\ LoopsWatched

-----------------------------------------------------------------------------
(* teardown closes everything, whoever calls it.                           *)
LEMMA TeardownClosesAll ==
    ASSUME TypeOK, OpenIsHeld, teardown
    PROVE  open' = [s \in Session |-> {}]
BY DEF TypeOK, OpenIsHeld, teardown

(* What Run opens is open, and nothing else changes.                       *)
LEMMA AcquireOpens ==
    ASSUME TypeOK, session \in Session, NEW k \in Resource, Acquire(k)
    PROVE  /\ field' \in [Resource -> Session \cup {NoSession}]
           /\ open' \in [Session -> SUBSET Resource]
           /\ field'[k] = session
           /\ open'[session] = open[session] \cup {k}
           /\ \A j \in Resource \ {k} : field'[j] = field[j]
           /\ \A s \in Session \ {session} : open'[s] = open[s]
BY DEF TypeOK, Acquire

(* A step of a loop changes the loop and keeps the type of all.            *)
LEMMA SetLoopType ==
    ASSUME TypeOK, NEW s \in Session, NEW k \in Resource, NEW l \in LoopPC,
           SetLoop(s, k, l)
    PROVE  /\ loop' \in [Session -> [Resource -> LoopPC]]
           /\ \A t \in Session, j \in Resource :
                 loop'[t][j] = IF t = s /\ j = k THEN l ELSE loop[t][j]
<1>1. loop \in [Session -> [Resource -> LoopPC]]
  BY DEF TypeOK
<1>2. /\ loop'[s] = [loop[s] EXCEPT ![k] = l]
      /\ \A t \in Session \ {s} : loop'[t] = loop[t]
      /\ loop' = [t \in Session |-> loop'[t]]
  BY <1>1 DEF SetLoop
<1>3. loop'[s] \in [Resource -> LoopPC]
  BY <1>1, <1>2
<1>4. loop' \in [Session -> [Resource -> LoopPC]]
  BY <1>1, <1>2, <1>3
<1>5. \A t \in Session, j \in Resource :
          loop'[t][j] = IF t = s /\ j = k THEN l ELSE loop[t][j]
  BY <1>1, <1>2
<1>6. QED BY <1>4, <1>5

(***************************************************************************)
(* Every step of the client process keeps the types of its fields          *)
(* (client.go:30, the fields of Client).                                   *)
(***************************************************************************)
LEMMA TypeStep == TypeOK /\ SessionMade /\ [Next]_vars => TypeOK'
<1> SUFFICES ASSUME TypeOK, SessionMade, [Next]_vars PROVE TypeOK'
  OBVIOUS
<1> USE DEF At, Alive, Goto, Fault, connection, budget, server
<1>1. ASSUME teardown PROVE open' \in [Session -> SUBSET Resource]
  BY <1>1 DEF TypeOK, teardown
<1>2. ASSUME Begin PROVE TypeOK'
  BY <1>2 DEF Begin, TypeOK, RunPC
<1>3. ASSUME NewSession PROVE TypeOK'
  BY <1>3 DEF NewSession, TypeOK, RunPC
<1>4. ASSUME ConnectError PROVE TypeOK'
  BY <1>1, <1>4, BoundAssumption DEF ConnectError, Retry, TypeOK, RunPC
<1>5. ASSUME Dial \/ ListenUDP \/ OpenTun PROVE TypeOK'
  <2>1. session \in Session
    BY <1>5 DEF Dial, ListenUDP, OpenTun, SessionMade, TypeOK
  <2>2. /\ field' \in [Resource -> Session \cup {NoSession}]
        /\ open' \in [Session -> SUBSET Resource]
    BY <1>5, <2>1, AcquireOpens DEF Dial, ListenUDP, OpenTun, Resource
  <2>3. QED BY <1>5, <2>2 DEF Dial, ListenUDP, OpenTun, Acquire, TypeOK, RunPC
<1>6. ASSUME Register PROVE TypeOK'
  BY <1>1, <1>6 DEF Register, Retry, TypeOK, RunPC
<1>7. ASSUME Hello PROVE TypeOK'
  BY <1>1, <1>7 DEF Hello, Retry, TypeOK, RunPC
<1>8. ASSUME Spawn PROVE TypeOK'
  BY <1>8 DEF Spawn, TypeOK, RunPC, AllLoops, LoopPC
<1>9. ASSUME WaitClosed \/ Pause PROVE TypeOK'
  BY <1>9 DEF WaitClosed, Pause, TypeOK, RunPC
<1>10. ASSUME WaitEnded PROVE TypeOK'
  BY <1>1, <1>10 DEF WaitEnded, TypeOK, RunPC
<1>11. ASSUME NEW s \in Session, NEW k \in Resource, LoopBreaks(s, k),
              faults' \in 0 .. MaxFaults
       PROVE  TypeOK'
  <2>1. loop' \in [Session -> [Resource -> LoopPC]]
    BY <1>11, SetLoopType DEF LoopBreaks, LoopPC
  <2>2. QED BY <1>11, <2>1 DEF LoopBreaks, TypeOK
<1>12. ASSUME NEW s \in Session, NEW k \in Resource, LoopClosed(s, k) PROVE TypeOK'
  BY <1>11, <1>12 DEF LoopClosed, TypeOK
<1>13. ASSUME NEW s \in Session, NEW k \in Resource, LoopFault(s, k) PROVE TypeOK'
  <2>1. faults \in 0 .. MaxFaults /\ faults > 0 /\ faults' = faults - 1
    BY <1>13 DEF LoopFault, TypeOK
  <2>. faults' \in 0 .. MaxFaults
    BY <2>1, BoundAssumption
  <2>2. QED BY <1>11, <1>13 DEF LoopFault
<1>14. ASSUME endSession
       PROVE  ended' \subseteq Session /\ crash' \in {"no", "nil", "closed twice"}
  BY <1>14 DEF endSession, TypeOK
<1>15. ASSUME NEW s \in Session, NEW k \in Resource, LoopEnd(s, k) PROVE TypeOK'
  <2>1. loop' \in [Session -> [Resource -> LoopPC]]
    BY <1>15, SetLoopType DEF LoopEnd, LoopPC
  <2>2. QED BY <1>14, <1>15, <2>1 DEF LoopEnd, TypeOK
<1>16. ASSUME NilCrypto PROVE TypeOK'
  BY <1>16 DEF NilCrypto, TypeOK
<1>17. ASSUME CloseBegin PROVE TypeOK'
  BY <1>17 DEF CloseBegin, TypeOK, CloserPC
<1>18. ASSUME CloseStep PROVE TypeOK'
  BY <1>1, <1>14, <1>18 DEF CloseStep, TypeOK, CloserPC
<1>19. ASSUME Refuse PROVE TypeOK'
  BY <1>19, BoundAssumption DEF Refuse, TypeOK
<1>20. ASSUME UNCHANGED vars PROVE TypeOK'
  BY <1>20 DEF vars, TypeOK
<1>21. QED
  BY <1>2, <1>3, <1>4, <1>5, <1>6, <1>7, <1>8, <1>9, <1>10, <1>12, <1>13,
     <1>15, <1>16, <1>17, <1>18, <1>19, <1>20
     DEF Next, RunStep, LoopStep, Finished

-----------------------------------------------------------------------------
(* Every step keeps what is open tied to the session that Run works on.    *)
LEMMA ResourceStep ==
    ASSUME TypeOK, TypeOK', OpenIsHeld, HeldIsOpen, SessionMade, [Next]_vars
    PROVE  OpenIsHeld' /\ HeldIsOpen' /\ SessionMade'
<1> DEFINE Kept == OpenIsHeld' /\ HeldIsOpen' /\ SessionMade'
<1> USE DEF At, Goto, connection, budget, server
<1>1. \A l \in {"init", "top", "dial", "pause"} : HeldAt(l) = {}
  BY DEF HeldAt
<1>2. ASSUME teardown, UNCHANGED <<session, field>>, run # "init",
             run' \in {"top", "pause"}, session \in Session
      PROVE  Kept
  <2>1. open' = [s \in Session |-> {}]
    BY <1>2, TeardownClosesAll
  <2>2. QED BY <1>1, <1>2, <2>1, SessionAssumption
            DEF OpenIsHeld, HeldIsOpen, SessionMade
<1>3. ASSUME UNCHANGED <<run, session, field, open>>, Closed => Closed'
      PROVE  Kept
  BY <1>3 DEF OpenIsHeld, HeldIsOpen, SessionMade
<1>4. run \notin {"init", "top"} => session \in Session
  BY DEF SessionMade, TypeOK
<1>5. ASSUME Retry, run \notin {"init", "top"} PROVE Kept
  BY <1>2, <1>4, <1>5 DEF Retry
<1>6. ASSUME Begin PROVE Kept
  BY <1>1, <1>6 DEF Begin, OpenIsHeld, HeldIsOpen, SessionMade
<1>7. ASSUME NewSession PROVE Kept
  <2>1. \A s \in Session : open[s] = {}
    BY <1>1, <1>7 DEF NewSession, OpenIsHeld, TypeOK
  <2>2. session' \in Session /\ run' = "dial" /\ open' = open
    BY <1>7 DEF NewSession
  <2>3. QED BY <1>1, <2>1, <2>2, SessionAssumption
            DEF OpenIsHeld, HeldIsOpen, SessionMade
<1>8. ASSUME ConnectError PROVE Kept
  BY <1>5, <1>8 DEF ConnectError
<1>9. ASSUME NEW k \in Resource, Acquire(k), UNCHANGED closer,
             run \notin {"init", "top", "returned"},
             run' \notin {"init", "top", "returned"},
             HeldAt(run') = HeldAt(run) \cup {k}
      PROVE  Kept
  <2>1. /\ field'[k] = session
        /\ open'[session] = open[session] \cup {k}
        /\ \A j \in Resource \ {k} : field'[j] = field[j]
        /\ \A s \in Session \ {session} : open'[s] = open[s]
    BY <1>4, <1>9, AcquireOpens
  <2>2. session' = session /\ session \in Session
    BY <1>4, <1>9 DEF Acquire
  <2>3. OpenIsHeld'
    <3> SUFFICES ASSUME NEW s \in Session, NEW j \in open'[s]
                 PROVE  s = session /\ field'[j] = s /\ j \in HeldAt(run')
      BY <2>2 DEF OpenIsHeld
    <3>1. j \in Resource
      BY DEF TypeOK
    <3>2. QED BY <1>9, <2>1, <2>2, <3>1 DEF OpenIsHeld
  <2>4. HeldIsOpen'
    BY <1>9, <2>1, <2>2 DEF HeldIsOpen, Closed
  <2>5. SessionMade'
    BY <2>2, SessionAssumption DEF SessionMade
  <2>6. QED BY <2>3, <2>4, <2>5
<1>10. ASSUME Dial PROVE Kept
  <2>1. HeldAt("auth") = HeldAt("dial") \cup {"conn"}
    BY DEF HeldAt, Resource
  <2>2. QED BY <1>9, <1>10, <2>1 DEF Dial, Resource
<1>11. ASSUME ListenUDP PROVE Kept
  <2>1. HeldAt("tun") = HeldAt("udp") \cup {"udp"}
    BY DEF HeldAt, Resource
  <2>2. QED BY <1>9, <1>11, <2>1 DEF ListenUDP, Resource
<1>12. ASSUME OpenTun PROVE Kept
  <2>1. HeldAt("spawn") = HeldAt("tun") \cup {"tun"}
    BY DEF HeldAt, Resource
  <2>2. QED BY <1>9, <1>12, <2>1 DEF OpenTun, Resource
<1>13. ASSUME UNCHANGED <<session, field, open, closer>>,
              run \notin {"init", "top"}, run' \notin {"init", "top"},
              HeldAt(run) \subseteq HeldAt(run'),
              run' # "returned" => run # "returned" /\ HeldAt(run') = HeldAt(run)
       PROVE  Kept
  BY <1>13 DEF OpenIsHeld, HeldIsOpen, SessionMade, Closed
<1>14. HeldAt("auth") \subseteq HeldAt("returned") /\ HeldAt("auth") = HeldAt("udp")
  BY DEF HeldAt
<1>15. HeldAt("wait") = HeldAt("returned") /\ HeldAt("spawn") = HeldAt("wait")
  BY DEF HeldAt
<1>16. ASSUME Register PROVE Kept
  BY <1>5, <1>13, <1>14, <1>16 DEF Register
<1>17. ASSUME Hello PROVE Kept
  BY <1>5, <1>13, <1>14, <1>17 DEF Hello
<1>18. ASSUME Spawn PROVE Kept
  BY <1>13, <1>15, <1>18 DEF Spawn
<1>19. ASSUME WaitClosed PROVE Kept
  BY <1>13, <1>15, <1>19 DEF WaitClosed
<1>20. ASSUME WaitEnded PROVE Kept
  BY <1>2, <1>4, <1>20 DEF WaitEnded
<1>21. ASSUME Pause PROVE Kept
  <2>1. \A s \in Session : open[s] = {}
    BY <1>1, <1>21 DEF Pause, OpenIsHeld, TypeOK
  <2>2. QED BY <1>1, <1>4, <1>21, <2>1, SessionAssumption
            DEF Pause, OpenIsHeld, HeldIsOpen, SessionMade
<1>22. ASSUME NEW s \in Session, NEW k \in Resource,
              LoopStep(s, k) \/ LoopFault(s, k)
       PROVE  Kept
  BY <1>3, <1>22 
     DEF LoopStep, LoopFault, LoopClosed, LoopBreaks, LoopEnd, Closed
<1>23. ASSUME NilCrypto \/ Refuse \/ UNCHANGED vars PROVE Kept
  BY <1>3, <1>23 DEF NilCrypto, Refuse, vars, Closed
<1>24. ASSUME CloseBegin PROVE Kept
  BY <1>3, <1>24 DEF CloseBegin, Closed
<1>25. ASSUME CloseStep PROVE Kept
  <2>1. CASE closer = "teardown" /\ teardown /\ UNCHANGED <<session, field, run>> /\ closer' = "done"
    <3>1. open' = [s \in Session |-> {}]
      BY <2>1, TeardownClosesAll
    <3>2. QED BY <2>1, <3>1 DEF OpenIsHeld, HeldIsOpen, SessionMade, Closed
  <2>2. CASE closer' # "no" /\ UNCHANGED <<session, field, open, run>>
    BY <1>3, <2>2 DEF Closed
  <2>3. QED BY <1>25, <2>1, <2>2 DEF CloseStep
<1>26. QED
  BY <1>6, <1>7, <1>8, <1>10, <1>11, <1>12, <1>16, <1>17, <1>18, <1>19, <1>20,
     <1>21, <1>22, <1>23, <1>24, <1>25
     DEF Next, RunStep, Finished

(* Every step keeps the keys of the session with its credential.           *)
LEMMA KeysStep == TypeOK /\ KeysKept /\ [Next]_vars => KeysKept'
<1> SUFFICES ASSUME TypeOK, KeysKept, [Next]_vars PROVE KeysKept'
  OBVIOUS
<1> USE DEF At, Goto, connection, budget, server
<1>1. ASSUME UNCHANGED <<credential, crypto>>,
             run' \in {"udp", "tun", "spawn", "wait"} =>
                 run \in {"udp", "tun", "spawn", "wait"}
      PROVE  KeysKept'
  BY <1>1 DEF KeysKept
<1>2. ASSUME Register \/ Hello PROVE KeysKept'
  BY <1>2 DEF Register, Hello, Retry, KeysKept
<1>3. ASSUME Refuse PROVE KeysKept'
  BY <1>3 DEF Refuse, KeysKept
<1>4. ASSUME Begin \/ NewSession \/ ConnectError \/ Dial PROVE KeysKept'
  BY <1>1, <1>4 DEF Begin, NewSession, ConnectError, Retry, Dial
<1>5. ASSUME ListenUDP \/ OpenTun \/ Spawn \/ WaitClosed \/ WaitEnded \/ Pause
      PROVE  KeysKept'
  BY <1>1, <1>5 DEF ListenUDP, OpenTun, Spawn, WaitClosed, WaitEnded, Pause
<1>6. ASSUME NEW s \in Session, NEW k \in Resource, LoopStep(s, k) \/ LoopFault(s, k)
      PROVE  KeysKept'
  BY <1>1, <1>6 DEF LoopStep, LoopFault, LoopClosed, LoopBreaks, LoopEnd
<1>7. ASSUME NilCrypto \/ CloseBegin \/ CloseStep \/ UNCHANGED vars PROVE KeysKept'
  BY <1>1, <1>7 DEF NilCrypto, CloseBegin, CloseStep, vars
<1>8. QED
  BY <1>2, <1>3, <1>4, <1>5, <1>6, <1>7 DEF Next, RunStep, Finished

(* A loop finishes only after it has found its session over or ended it.   *)
LEMMA LoopsStep ==
    ASSUME TypeOK, SessionMade, LoopsWatched, [Next]_vars
    PROVE  LoopsWatched'
<1> USE DEF At, Alive, Goto, connection, budget, server
<1>1. ASSUME run' # "wait" PROVE LoopsWatched'
  BY <1>1 DEF LoopsWatched
<1>2. ASSUME UNCHANGED <<run, session, loop>>, crash' = "no" => crash = "no",
             ended \subseteq ended'
      PROVE  LoopsWatched'
  BY <1>2 DEF LoopsWatched
<1>3. ASSUME endSession
      PROVE  /\ crash' = "no" => session \in ended'
             /\ ended \subseteq ended'
  BY <1>3 DEF endSession
<1>4. ASSUME RunStep, ~Spawn PROVE LoopsWatched'
  BY <1>1, <1>4
     DEF RunStep, Begin, NewSession, ConnectError, Retry, Dial, Register, Hello,
         ListenUDP, OpenTun, WaitClosed, WaitEnded, Pause
<1>5. ASSUME Spawn PROVE LoopsWatched'
  <2>1. session \in Session /\ session' = session
    BY <1>5 DEF Spawn, SessionMade, TypeOK
  <2>2. loop'[session] = AllLoops("run")
    BY <1>5, <2>1 DEF Spawn, TypeOK
  <2>3. QED BY <2>1, <2>2 DEF LoopsWatched, AllLoops
<1>6. ASSUME NEW s \in Session, NEW k \in Resource, LoopBreaks(s, k)
      PROVE  LoopsWatched'
  <2>1. /\ loop[s][k] = "run"
        /\ SetLoop(s, k, IF session \in ended THEN "none" ELSE "closing")
        /\ UNCHANGED <<run, session, ended, crash>>
    BY <1>6 DEF LoopBreaks
  <2>2. \A t \in Session, j \in Resource :
            loop'[t][j] = IF t = s /\ j = k
                          THEN IF session \in ended THEN "none" ELSE "closing"
                          ELSE loop[t][j]
    BY <2>1, SetLoopType DEF LoopPC
  <2>3. run = "wait" => session \in Session
    BY DEF SessionMade, TypeOK
  <2>4. QED BY <2>1, <2>2, <2>3 DEF LoopsWatched
<1>7. ASSUME NEW s \in Session, NEW k \in Resource, LoopEnd(s, k)
      PROVE  LoopsWatched'
  BY <1>3, <1>7 DEF LoopEnd, LoopsWatched
<1>8. ASSUME NilCrypto \/ CloseBegin \/ Refuse \/ UNCHANGED vars PROVE LoopsWatched'
  BY <1>2, <1>8 DEF NilCrypto, CloseBegin, Refuse, vars
<1>9. ASSUME CloseStep PROVE LoopsWatched'
  BY <1>2, <1>3, <1>9 DEF CloseStep
<1>10. QED
  BY <1>4, <1>5, <1>6, <1>7, <1>8, <1>9
     DEF Next, LoopStep, LoopClosed, LoopFault, Finished

-----------------------------------------------------------------------------
LEMMA IInvInit == Init => IInv
<1> USE BoundAssumption, SessionAssumption
<1>1. Init => TypeOK
  <2> SUFFICES ASSUME Init PROVE TypeOK
    OBVIOUS
  <2>1. crypto \in BOOLEAN
    BY ZenonT(20) DEF Init
  <2>2. loop \in [Session -> [Resource -> LoopPC]]
    BY DEF Init, AllLoops, LoopPC
  <2>3. /\ run \in RunPC /\ closer \in CloserPC
        /\ session \in Session \cup {NoSession}
        /\ ended \subseteq Session
        /\ field \in [Resource -> Session \cup {NoSession}]
        /\ open \in [Session -> SUBSET Resource]
    BY DEF Init, RunPC, CloserPC
  <2>4. faults \in 0 .. MaxFaults /\ refusals \in 0 .. MaxRefusals
    BY DEF Init
  <2>5. credential \in {"none", "valid", "stale"} /\ blocked \in BOOLEAN
    BY DEF Init
  <2>6. crash \in {"no", "nil", "closed twice"}
    BY DEF Init
  <2>7. QED BY <2>1, <2>2, <2>3, <2>4, <2>5, <2>6 DEF TypeOK
<1>2. Init => OpenIsHeld /\ HeldIsOpen /\ SessionMade
  BY DEF Init, OpenIsHeld, HeldIsOpen, SessionMade
<1>3. Init => KeysKept /\ LoopsWatched
  BY DEF Init, KeysKept, LoopsWatched, At
<1>4. QED BY <1>1, <1>2, <1>3 DEF IInv

LEMMA IInvStep == IInv /\ [Next]_vars => IInv'
<1> SUFFICES ASSUME IInv, [Next]_vars PROVE IInv'
  OBVIOUS
<1>1. TypeOK'
  BY TypeStep DEF IInv
<1>2. OpenIsHeld' /\ HeldIsOpen' /\ SessionMade'
  BY <1>1, ResourceStep DEF IInv
<1>3. KeysKept' /\ LoopsWatched'
  BY KeysStep, LoopsStep DEF IInv
<1>4. QED BY <1>1, <1>2, <1>3 DEF IInv

THEOREM Invariant == Spec => []IInv
BY IInvInit, IInvStep, PTL DEF Spec

(***************************************************************************)
(* The fields of the client keep their types (client.go:30).               *)
(***************************************************************************)
THEOREM TypeCorrect == Spec => []TypeOK
<1>1. IInv => TypeOK
  BY DEF IInv
<1>2. QED BY <1>1, Invariant, PTL

(***************************************************************************)
(* However many sessions the client goes through, and wherever connectOnce *)
(* fails or Close cuts in (client.go:164, 201, 737), the process never has *)
(* two sockets, two connections or two TUN devices open.                   *)
(***************************************************************************)
THEOREM NeverTwo == Spec => []OneOfEach
<1>1. IInv => OneOfEach
  BY DEF IInv, OpenIsHeld, OneOfEach
<1>2. QED BY <1>1, Invariant, PTL

(***************************************************************************)
(* A session that Run waits for and that nobody has ended works: its keys  *)
(* are there, its resources are open and its loops run (client.go:182).    *)
(***************************************************************************)
THEOREM SessionWorks == Spec => []LiveSession
<1>1. IInv => LiveSession
  <2> SUFFICES ASSUME IInv, At("wait"), session \notin ended, ~Closed
               PROVE  /\ crypto
                      /\ open[session] = Resource
                      /\ \A k \in Resource : loop[session][k] # "none"
    BY DEF LiveSession
  <2>1. run = "wait"
    BY DEF At
  <2>2. session \in Session /\ session # NoSession
    BY <2>1, SessionAssumption DEF IInv, SessionMade, TypeOK
  <2>3. HeldAt("wait") = Resource
    BY DEF HeldAt, Resource
  <2>4. open[session] = Resource
    BY <2>1, <2>2, <2>3 DEF IInv, HeldIsOpen, TypeOK
  <2>5. crypto
    BY <2>1 DEF IInv, KeysKept
  <2>6. QED BY <2>4, <2>5 DEF IInv, LoopsWatched
<1>2. QED BY <1>1, Invariant, PTL

(* A step either opens things, or closes all of them.                      *)
LEMMA CloseAllStep ==
    ASSUME IInv, [Next]_vars, NEW t \in Session, ~(open[t] \subseteq open'[t])
    PROVE  \A s \in Session : open'[s] = {}
<1>1. teardown
  <2>1. open' # open
    OBVIOUS
  <2>2. ASSUME NEW k \in Resource, Acquire(k) PROVE FALSE
    BY <2>2 DEF Acquire, IInv, TypeOK
  <2>3. CASE RunStep
    BY <2>1, <2>2, <2>3
       DEF RunStep, Begin, NewSession, ConnectError, Retry, Dial, Register, Hello,
           ListenUDP, OpenTun, Spawn, WaitClosed, WaitEnded, Pause, connection, Resource
  <2>4. CASE CloseStep
    BY <2>1, <2>4 DEF CloseStep, connection
  <2>5. ASSUME NEW s \in Session, NEW k \in Resource, LoopStep(s, k) \/ LoopFault(s, k)
        PROVE  FALSE
    BY <2>1, <2>5 DEF LoopStep, LoopFault, LoopClosed, LoopBreaks, LoopEnd, connection
  <2>6. ASSUME NilCrypto \/ CloseBegin \/ Refuse \/ Finished \/ UNCHANGED vars
        PROVE  FALSE
    BY <2>1, <2>6 DEF NilCrypto, CloseBegin, Refuse, Finished, vars, connection
  <2>7. QED BY <2>3, <2>4, <2>5, <2>6 DEF Next
<1>2. open' = [s \in Session |-> {}]
  BY <1>1, TeardownClosesAll DEF IInv
<1>3. QED BY <1>2

(***************************************************************************)
(* Whoever tears down, Run between two sessions or Close (client.go:276),  *)
(* leaves nothing open of any session: a step that closes anything closes  *)
(* everything.                                                             *)
(***************************************************************************)
THEOREM ClosesEverything ==
    Spec => [][\A t \in Session : ~(open[t] \subseteq open'[t]) =>
                  \A s \in Session : open'[s] = {}]_vars
<1>1. IInv /\ [Next]_vars =>
          [\A t \in Session : ~(open[t] \subseteq open'[t]) =>
              \A s \in Session : open'[s] = {}]_vars
  BY CloseAllStep
<1>2. QED BY <1>1, Invariant, PTL DEF Spec
=============================================================================
