------------------------------- MODULE MCMux -------------------------------
(***************************************************************************)
(* MuxLink and MuxWindow for TLC, in one run: a behaviour is one of the    *)
(* link, or one of the flow control of a connection.  The one that does    *)
(* not take part stays in its initial state.                               *)
(***************************************************************************)
EXTENDS MuxLink

CONSTANTS N, Sizes, FirstSize, WindowMayClose, WindowMayTimeOut

ASSUME BoundsOfWindow == N \in Nat \ {0} /\ FirstSize \in Sizes /\ Sizes \subseteq Nat \ {0}
ASSUME CloseOfWindow  == WindowMayClose \subseteq {"A", "B"} /\ WindowMayTimeOut \in BOOLEAN

VARIABLES part, wSend, wWriter, wAcker, wEndA, wData, wAcks, wRecv, wSession, wReader, wQueue,
          wEndB, wCloser, wGot

windowVars == <<wSend, wWriter, wAcker, wEndA, wData, wAcks, wRecv, wSession, wReader, wQueue,
                wEndB, wCloser, wGot>>

Window ==
    INSTANCE MuxWindow WITH
        MayClose <- WindowMayClose, MayTimeOut <- WindowMayTimeOut,
        send <- wSend, writer <- wWriter, acker <- wAcker, endA <- wEndA, data <- wData,
        acks <- wAcks, recv <- wRecv, session <- wSession, reader <- wReader, queue <- wQueue,
        endB <- wEndB, closer <- wCloser, got <- wGot

MuxInit == part \in {"link", "window"} /\ Init /\ Window!Init

MuxNext ==
    \/ part = "link" /\ Next /\ UNCHANGED <<part, windowVars>>
    \/ part = "window" /\ Window!Next /\ UNCHANGED <<part, vars>>

InWindow(A) == part = "window" /\ A
WindowFairness ==
    /\ WF_windowVars(InWindow(Window!WriteStep)) /\ WF_windowVars(InWindow(Window!AckStep))
    /\ WF_windowVars(InWindow(Window!ArriveStep)) /\ WF_windowVars(InWindow(Window!ReadStep))
    /\ WF_windowVars(InWindow(Window!CloseWindowA)) /\ WF_windowVars(InWindow(Window!CloseWhenClosed))
    /\ \A p \in {"reader", "Close"} : WF_windowVars(InWindow(Window!CloseStep(p)))

(* Nothing of the link that fairness speaks of can happen in its initial   *)
(* state, so its own fairness serves when it takes no part.                *)
MuxSpec ==
    /\ MuxInit /\ [][MuxNext]_<<part, vars, windowVars>>
    /\ Fairness /\ WindowFairness

(* What is written on which connections, and which ends close which.       *)
BWrites == {<<"B", 1>>}
AEnds   == {<<"A", 1>>}

-----------------------------------------------------------------------------
(* Two connections never share an id, a connection that NewConn returns is *)
(* one the other end was given, no message meets an end that does not know *)
(* its connection, and openings overtake data a bounded number of times    *)
(* (mux.go:96, 236, 366; queue.go:54).                                     *)
LinkSafe == TypeOK /\ DistinctIds /\ Paired /\ NothingLost /\ LowNotStarved

(* Nothing written is lost, doubled or overtaken, and the count of the send*)
(* window is what is on its way or not acknowledged yet (conn.go:276, 357).*)
WindowSafe == Window!TypeOK /\ Window!InOrder /\ Window!CreditExact

InLink == part = "link"

(* NewConnReturns of the link, and AllArrives of the window: every call of *)
(* NewConn returns, and all that is written is read unless somebody closes.*)
Progress == (InLink => Waits) ~> (IF InLink THEN ~Waits ELSE Window!Arrived)

(* PeerLearns of the link, and WriterReleased of the window: a link closed *)
(* at one end is closed at the other, and a writer whose connection closes *)
(* gets out of its wait.                                                   *)
ClosingEnds ==
    (IF InLink THEN Shut ELSE wEndA.op) ~> (IF InLink THEN BothDead ELSE Window!Released)
=============================================================================
