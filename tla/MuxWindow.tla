----------------------------- MODULE MuxWindow ------------------------------
(***************************************************************************)
(* Flow control of one direction of a connection of nps_mux: the sendWindow*)
(* of the writing end, the receiveWindow and receiveWindowQueue of the      *)
(* reading end (lib/nps_mux/conn.go, queue.go), and closing either end.    *)
(*                                                                         *)
(* Sizes are counted in segments; every message is one.  A window's packed *)
(* word maxSizeDone is read and replaced by compare-and-swap, so a step     *)
(* that depends on it alone is one action; a step that also looks at the   *)
(* length of the queue computes first and swaps later.                     *)
(***************************************************************************)
EXTENDS Naturals, Sequences

CONSTANTS
    N,          \* bound: segments the application writes
    Sizes,      \* window sizes calcSize may choose
    FirstSize,  \* the initial window
    MayClose,   \* ends whose application may close: subset of {"A", "B"}
    MayTimeOut  \* whether B's reads have a deadline

VARIABLES
    send,     \* sendWindow.maxSizeDone of A: [max, done, wait]
    writer,   \* A's Write: where it is, and segments sent so far
    acker,    \* A's reading session, inside SetSize or not
    endA,     \* A: [isClose, closing flag, closeOp, tokens in closeOpCh, setSizeCh closed]
    data,     \* messages from A to B: segment numbers, or 0 for muxConnClose
    acks,     \* messages from B to A: [max, read], or muxConnClose
    recv,     \* receiveWindow.maxSizeDone of B: [max, done, wait]
    session,  \* B's reading session, inside receiveWindow.Write or not
    reader,   \* B's application, inside Read
    queue,    \* receiveWindowQueue: [len, wait, chain]
    endB,     \* B: [isClose, closeOp, stopped, tokens in stopOp, closeOpCh full]
    closer,   \* CloseWindow of B, called by its reader or by Close
    got       \* segments the application of B has read

sender   == <<send, writer, acker, endA>>
wire     == <<data, acks>>
receiver == <<recv, session, reader, queue, endB, closer, got>>
vars     == <<sender, wire, receiver>>

Window   == [max : Sizes, done : 0 .. 2 * N, wait : BOOLEAN]
NoWindow == [max |-> FirstSize, done |-> 0, wait |-> FALSE]
Closing  == [max |-> 0, read |-> 0]                 \* muxConnClose
Ack(w)   == [max |-> w.max, read |-> w.done]
Closer   == {"reader", "Close"}
Nothing  == [pc |-> "idle", seg |-> 0, saw |-> NoWindow, room |-> 0]

Init ==
    /\ send = NoWindow
    /\ writer = [pc |-> "ready", sent |-> 0]
    /\ acker = "idle"
    /\ endA = [closed |-> FALSE, closing |-> FALSE, op |-> FALSE, tokens |-> 0, shut |-> FALSE]
    /\ data = <<>>
    /\ acks = <<>>
    /\ recv = NoWindow
    /\ session = Nothing
    /\ reader = Nothing
    /\ queue = [len |-> 0, wait |-> FALSE, chain |-> <<>>]
    /\ endB = [closed |-> FALSE, op |-> FALSE, stopped |-> FALSE, tokens |-> 0, full |-> FALSE]
    /\ closer = [p \in Closer |-> "no"]
    /\ got = 0

-----------------------------------------------------------------------------
(* A: the application writes.                                              *)

(* WriteTo: takes a segment if the window has room, sent counts it, ...    *)
WriteTo ==
    /\ writer.pc = "ready"
    /\ writer.sent < N
    /\ ~endA.op
    /\ IF send.max > send.done
       THEN /\ send' = [send EXCEPT !.done = @ + 1]
            /\ writer' = [pc |-> "push", sent |-> writer.sent + 1]
       ELSE /\ send' = [send EXCEPT !.wait = TRUE]
            /\ writer' = [writer EXCEPT !.pc = "wait"]
    /\ UNCHANGED <<acker, endA, wire, receiver>>

(* ... and WriteFull sends it.                                             *)
WriteFull ==
    /\ writer.pc = "push"
    /\ data' = Append(data, writer.sent)
    /\ writer' = [writer EXCEPT !.pc = "ready"]
    /\ UNCHANGED <<send, acker, endA, acks, receiver>>

(* Write refuses on a connection closed by either end.                     *)
WriteFails ==
    /\ writer.pc = "ready"
    /\ endA.op \/ endA.closing
    /\ writer' = [writer EXCEPT !.pc = "failed"]
    /\ UNCHANGED <<send, acker, endA, wire, receiver>>

(* waitReceiveWindow: setSizeCh is unbuffered, allow hands over to it ...  *)
Allowed ==
    /\ writer.pc = "wait"
    /\ acker = "allow"
    /\ ~endA.shut
    /\ writer' = [writer EXCEPT !.pc = "ready"]
    /\ acker' = "idle"
    /\ UNCHANGED <<send, endA, wire, receiver>>

(* ... or the window is closed.                                            *)
WaitFails ==
    /\ writer.pc = "wait"
    /\ \/ endA.shut /\ UNCHANGED endA
       \/ endA.tokens > 0 /\ endA' = [endA EXCEPT !.tokens = @ - 1]
    /\ writer' = [writer EXCEPT !.pc = "failed"]
    /\ UNCHANGED <<send, acker, wire, receiver>>

-----------------------------------------------------------------------------
(* A: the reading session takes what B sends.                              *)

(* Mutant of SetSize: forgets that somebody waits.                         *)
SetSizeSilent ==
    /\ acker = "idle"
    /\ acks # <<>>
    /\ acks[1] # Closing
    /\ acks' = Tail(acks)
    /\ IF ~endA.closed /\ ~endA.op /\ acks[1].read <= send.done
       THEN send' = [max |-> acks[1].max, done |-> send.done - acks[1].read, wait |-> FALSE]
       ELSE UNCHANGED send
    /\ UNCHANGED <<writer, acker, endA, data, receiver>>

(* muxMsgSendOk: SetSize, unless the connection is closed.                 *)
SetSize ==
    /\ acker = "idle"
    /\ acks # <<>>
    /\ acks[1] # Closing
    /\ acks' = Tail(acks)
    /\ LET a    == acks[1]
           done == send.done - a.read
           wait == send.wait /\ a.max <= done
       IN  IF endA.closed \/ a.read > send.done \/ (a.read = 0 /\ a.max = send.max)
           THEN UNCHANGED <<send, acker>>
           ELSE /\ send' = [max |-> a.max, done |-> done, wait |-> wait]
                /\ acker' = IF send.wait /\ ~wait THEN "allow" ELSE "idle"
    /\ UNCHANGED <<writer, endA, data, receiver>>

(* allow gives up when the window is closed.                               *)
AllowFails ==
    /\ acker = "allow"
    /\ endA.shut \/ endA.tokens > 0
    /\ endA' = IF endA.shut THEN endA ELSE [endA EXCEPT !.tokens = @ - 1, !.shut = TRUE]
    /\ acker' = "idle"
    /\ UNCHANGED <<send, writer, wire, receiver>>

(* muxConnClose sets closingFlag (and ends A's own reading).               *)
ClosedByPeer ==
    /\ acker = "idle"
    /\ acks # <<>>
    /\ acks[1] = Closing
    /\ acks' = Tail(acks)
    /\ endA' = [endA EXCEPT !.closing = ~endA.closed]
    /\ UNCHANGED <<send, writer, acker, data, receiver>>

(* closeProcess: the peer is told, then the send window is closed.         *)
CloseA ==
    /\ "A" \in MayClose \/ endA.closing \/ writer.pc = "failed"
    /\ ~endA.closed
    /\ endA' = [endA EXCEPT !.closed = TRUE]
    /\ data' = Append(data, 0)
    /\ UNCHANGED <<send, writer, acker, acks, receiver>>

(* Mutant of CloseWindowA: the writer is not told.                         *)
CloseWindowSilent ==
    /\ endA.closed /\ ~endA.op
    /\ endA' = [endA EXCEPT !.op = TRUE]
    /\ UNCHANGED <<send, writer, acker, wire, receiver>>

CloseWindowA ==
    /\ endA.closed /\ ~endA.op
    /\ endA' = [endA EXCEPT !.op = TRUE, !.tokens = 2]
    /\ UNCHANGED <<send, writer, acker, wire, receiver>>

-----------------------------------------------------------------------------
(* B: the reading session.                                                 *)

Monus(m, n) == IF m > n THEN m - n ELSE 0
Room(w, l)  == Monus(w.max, queue.len + l)          \* remainingSize

(* A segment arrives: calcSize may change the window; the word is loaded   *)
(* and the room that is left computed.                                     *)
Receive ==
    /\ session.pc = "idle"
    /\ data # <<>>
    /\ data[1] # 0
    /\ data' = Tail(data)
    /\ IF endB.closed \/ endB.op
       THEN UNCHANGED <<recv, session>>
       ELSE \E m \in Sizes :
              LET w == [recv EXCEPT !.max = m]
              IN  /\ recv' = w
                  /\ session' = [pc |-> "swap", seg |-> data[1], saw |-> w, room |-> Room(w, 1)]
    /\ UNCHANGED <<sender, acks, reader, queue, endB, closer, got>>

(* Mutant of SwapWait: does not look whether the word is still the same.   *)
SwapAnyway ==
    /\ session.pc = "swap"
    /\ IF session.saw.wait \/ session.room = 0
       THEN /\ recv' = IF session.saw.wait THEN recv ELSE [session.saw EXCEPT !.wait = TRUE]
            /\ session' = [session EXCEPT !.pc = "length", !.room = 0]
       ELSE /\ recv' = [session.saw EXCEPT !.done = 0]
            /\ session' = [session EXCEPT !.pc = "length"]
    /\ UNCHANGED <<sender, wire, reader, queue, endB, closer, got>>

(* receiveWindow.Write: a full window is marked, or what was read since the*)
(* last acknowledgement is taken to be acknowledged; if the word changed   *)
(* meanwhile it starts again.                                              *)
SwapWait ==
    /\ session.pc = "swap"
    /\ IF session.saw.wait
       THEN /\ session' = [session EXCEPT !.pc = "length", !.room = 0]
            /\ UNCHANGED recv
       ELSE IF recv # session.saw
       THEN /\ session' = [session EXCEPT !.saw = recv, !.room = Room(recv, 1)]
            /\ UNCHANGED recv
       ELSE /\ recv' = IF session.room = 0 THEN [recv EXCEPT !.wait = TRUE]
                                       ELSE [recv EXCEPT !.done = 0]
            /\ session' = [session EXCEPT !.pc = "length"]
    /\ UNCHANGED <<sender, wire, reader, queue, endB, closer, got>>

(* Push: the length first, ...                                             *)
PushLength ==
    /\ session.pc = "length"
    /\ queue' = [queue EXCEPT !.len = @ + 1, !.wait = FALSE]
    /\ session' = [session EXCEPT !.pc = IF queue.wait THEN "chain+" ELSE "chain"]
    /\ UNCHANGED <<sender, wire, recv, reader, endB, closer, got>>

(* ... then the element; allowPop wakes a reader that waits.               *)
PushHead ==
    /\ session.pc \in {"chain", "chain+"}
    /\ queue' = [queue EXCEPT !.chain = Append(@, session.seg)]
    /\ session' = [session EXCEPT !.pc = IF @ = "chain+" THEN "signal" ELSE "ack"]
    /\ UNCHANGED <<sender, wire, recv, reader, endB, closer, got>>

AllowPop ==
    /\ session.pc = "signal"
    /\ \/ /\ reader.pc = "wait"
          /\ reader' = Nothing
          /\ UNCHANGED endB
       \/ /\ endB.tokens > 0
          /\ endB' = [endB EXCEPT !.tokens = @ - 1]
          /\ UNCHANGED reader
    /\ session' = [session EXCEPT !.pc = "ack"]
    /\ UNCHANGED <<sender, wire, recv, queue, closer, got>>

(* muxMsgSendOk goes out unless the window is full.                        *)
SendOk ==
    /\ session.pc = "ack"
    /\ acks' = IF session.room = 0 THEN acks ELSE Append(acks, Ack(session.saw))
    /\ session' = Nothing
    /\ UNCHANGED <<sender, data, recv, reader, queue, endB, closer, got>>

(* Mutant of Stopped: not only once.                                       *)
StoppedAgain(e) == [e EXCEPT !.stopped = TRUE, !.tokens = @ + 2]

(* muxConnClose: Stop puts two tokens into stopOp, once.                   *)
Stopped(e) == IF e.stopped THEN e ELSE [e EXCEPT !.stopped = TRUE, !.tokens = 2]
PeerCloses ==
    /\ session.pc = "idle"
    /\ data # <<>>
    /\ data[1] = 0
    /\ data' = Tail(data)
    /\ endB' = IF endB.closed THEN endB ELSE Stopped(endB)
    /\ UNCHANGED <<sender, acks, recv, session, reader, queue, closer, got>>

-----------------------------------------------------------------------------
(* B: the application reads.                                               *)

Eof == [Nothing EXCEPT !.pc = "eof"]

(* Pop: an empty queue is marked and waited on.                            *)
Pop ==
    /\ reader.pc = "idle"
    /\ IF endB.op THEN reader' = Eof /\ UNCHANGED queue
       ELSE IF queue.len = 0
       THEN /\ queue' = [queue EXCEPT !.wait = TRUE]
            /\ reader' = [reader EXCEPT !.pc = "wait"]
       ELSE reader' = [reader EXCEPT !.pc = "pop"] /\ UNCHANGED queue
    /\ UNCHANGED <<sender, wire, recv, session, endB, closer, got>>

(* waitPush ends when the queue is stopped or the read deadline passes.    *)
StopPop ==
    /\ reader.pc = "wait"
    /\ \/ endB.tokens > 0 /\ endB' = [endB EXCEPT !.tokens = @ - 1]
       \/ MayTimeOut /\ UNCHANGED endB
    /\ reader' = Eof
    /\ closer' = [closer EXCEPT !["reader"] = "check"]
    /\ UNCHANGED <<sender, wire, recv, session, queue, got>>

(* TryPop takes the element, then its length; the segment is copied out.   *)
PopTail ==
    /\ reader.pc = "pop"
    /\ queue.chain # <<>>
    /\ queue' = [queue EXCEPT !.chain = Tail(@)]
    /\ reader' = [reader EXCEPT !.pc = "popped", !.seg = Head(queue.chain)]
    /\ got' = Head(queue.chain)
    /\ UNCHANGED <<sender, wire, recv, session, endB, closer>>

PopLength ==
    /\ reader.pc = "popped"
    /\ queue' = [queue EXCEPT !.len = @ - 1]
    /\ reader' = [reader EXCEPT !.pc = "load"]
    /\ UNCHANGED <<sender, wire, recv, session, endB, closer, got>>

(* sendStatus computes the room that is left, ...                          *)
LoadStatus ==
    /\ reader.pc = "load"
    /\ reader' = [reader EXCEPT !.pc = "swap", !.saw = recv, !.room = Room(recv, 0)]
    /\ UNCHANGED <<sender, wire, recv, session, queue, endB, closer, got>>

(* ... and acknowledges what was read if the writer may wait, if half the  *)
(* window was read or if nothing is left; otherwise it adds to what was    *)
(* read.                                                                   *)
Notify ==
    \/ recv.wait /\ reader.room > 0
    \/ recv.done + 1 >= recv.max \div 2
    \/ reader.room = recv.max

SendStatus ==
    /\ reader.pc = "swap"
    /\ IF recv # reader.saw
       THEN reader' = [reader EXCEPT !.pc = "load"] /\ UNCHANGED <<recv, acks>>
       ELSE /\ reader' = Nothing
            /\ IF Notify
               THEN /\ recv' = [recv EXCEPT !.done = 0, !.wait = FALSE]
                    /\ acks' = Append(acks, [max |-> recv.max, read |-> recv.done + 1])
               ELSE /\ recv' = [recv EXCEPT !.done = @ + 1]
                    /\ UNCHANGED acks
    /\ UNCHANGED <<sender, data, session, queue, endB, closer, got>>

-----------------------------------------------------------------------------
(* B closes.                                                               *)

(* closeProcess: the peer is told, then the receive window is closed.  The *)
(* session does so when the reader has closed the window before (newMsg).  *)
CloseB ==
    /\ "B" \in MayClose \/ endB.op \/ endB.stopped
    /\ ~endB.closed
    /\ endB' = [endB EXCEPT !.closed = TRUE]
    /\ acks' = Append(acks, Closing)
    /\ closer' = [closer EXCEPT !["Close"] = "check"]
    /\ UNCHANGED <<sender, data, recv, session, reader, queue, got>>

(* CloseWindow tests closeOp, sets it and puts two tokens into closeOpCh,  *)
(* which has room for two and which nobody reads; ...                      *)
CheckCloseB(p) ==
    /\ closer[p] = "check"
    /\ closer' = [closer EXCEPT ![p] = IF endB.op THEN "stop" ELSE "set"]
    /\ UNCHANGED <<sender, wire, recv, session, reader, queue, endB, got>>

SetCloseB(p) ==
    /\ closer[p] = "set"
    /\ ~endB.full
    /\ endB' = [endB EXCEPT !.op = TRUE, !.full = TRUE]
    /\ closer' = [closer EXCEPT ![p] = "stop"]
    /\ UNCHANGED <<sender, wire, recv, session, reader, queue, got>>

(* ... then the queue is stopped and emptied (release).                    *)
StopB(p) ==
    /\ closer[p] = "stop"
    /\ endB' = Stopped(endB)
    /\ queue' = [queue EXCEPT !.chain = <<>>, !.len = @ - Len(queue.chain)]
    /\ closer' = [closer EXCEPT ![p] = "done"]
    /\ UNCHANGED <<sender, wire, recv, session, reader, got>>

-----------------------------------------------------------------------------
WriteStep  == WriteTo \/ WriteFull \/ WriteFails \/ Allowed \/ WaitFails
AckStep    == SetSize \/ AllowFails \/ ClosedByPeer
ArriveStep == Receive \/ SwapWait \/ PushLength \/ PushHead \/ AllowPop \/ SendOk \/ PeerCloses
ReadStep   == Pop \/ StopPop \/ PopTail \/ PopLength \/ LoadStatus \/ SendStatus
CloseStep(p) == CheckCloseB(p) \/ SetCloseB(p) \/ StopB(p)

Next ==
    \/ WriteStep \/ AckStep \/ CloseA \/ CloseWindowA
    \/ ArriveStep \/ ReadStep \/ CloseB \/ \E p \in Closer : CloseStep(p)

(* Every goroutine that can run is run; an application closes a connection *)
(* whose peer has closed or whose reads or writes fail.                    *)
CloseWhenClosed == \/ (endA.closing \/ writer.pc = "failed") /\ CloseA
                   \/ endB.op /\ CloseB

Fairness ==
    /\ WF_vars(WriteStep) /\ WF_vars(AckStep) /\ WF_vars(ArriveStep) /\ WF_vars(ReadStep)
    /\ WF_vars(CloseWindowA) /\ WF_vars(CloseWhenClosed) /\ \A p \in Closer : WF_vars(CloseStep(p))

Spec == Init /\ [][Next]_vars /\ Fairness

-----------------------------------------------------------------------------
(* Every part of the state has the type of its counterpart in the code.    *)
TypeOK ==
    /\ send \in Window /\ recv \in Window
    /\ writer \in [pc : {"ready", "push", "wait", "failed"}, sent : 0 .. N]
    /\ acker \in {"idle", "allow"}
    /\ endA \in [closed : BOOLEAN, closing : BOOLEAN, op : BOOLEAN, tokens : 0 .. 2, shut : BOOLEAN]
    /\ data \in Seq(0 .. N)
    /\ acks \in Seq([max : Sizes, read : 0 .. 2 * N] \cup {Closing})
    /\ session \in [pc : {"idle", "swap", "length", "chain", "chain+", "signal", "ack"},
                    seg : 0 .. N, saw : Window, room : Nat]
    /\ reader \in [pc : {"idle", "wait", "pop", "popped", "load", "swap", "eof"},
                   seg : 0 .. N, saw : Window, room : Nat]
    /\ queue \in [len : 0 .. N, wait : BOOLEAN, chain : Seq(1 .. N)]
    /\ endB \in [closed : BOOLEAN, op : BOOLEAN, stopped : BOOLEAN, tokens : 0 .. 2, full : BOOLEAN]
    /\ closer \in [Closer -> {"no", "check", "set", "stop", "done"}]
    /\ got \in 0 .. N

Open == ~endA.closed /\ ~endB.closed /\ ~endB.op

Held    == IF session.pc \in {"swap", "length", "chain", "chain+"} THEN <<session.seg>> ELSE <<>>
Pending == IF writer.pc = "push" THEN <<writer.sent>> ELSE <<>>

(***************************************************************************)
(* Nothing is lost, doubled or overtaken on the way through the windows:   *)
(* what is queued, being queued, on the wire and about to be sent are the  *)
(* segments written and not read, in order (conn.go:260, 508;              *)
(* queue.go:238).                                                          *)
(***************************************************************************)
InOrder ==
    Open => LET way == queue.chain \o Held \o data \o Pending
            IN  way = [i \in 1 .. writer.sent - got |-> got + i]

(***************************************************************************)
(* The count of the send window is exact: it is what is on its way to the  *)
(* reader plus what was read and is not acknowledged to the writer yet,    *)
(* wherever the two ends have got to.  A credit lost narrows the window    *)
(* for ever, one counted twice overruns it (conn.go:276, 357, 477).        *)
(***************************************************************************)
Unread       == Len(queue.chain) + Len(Held) + Len(data) + Len(Pending)
BeingRead    == IF reader.pc \in {"popped", "load", "swap"} THEN 1 ELSE 0
Unsent       == IF session.pc \in {"length", "chain", "chain+", "signal", "ack"} /\ session.room > 0
                THEN session.saw.done ELSE 0
ReadOf(s)    == LET sum[i \in 0 .. Len(s)] == IF i = 0 THEN 0 ELSE sum[i - 1] + s[i].read
                IN  sum[Len(s)]
Acknowledged == ReadOf(acks)
CreditExact  == Open => send.done = Unread + BeingRead + recv.done + Unsent + Acknowledged

(***************************************************************************)
(* The windows never starve each other: unless somebody closes, everything *)
(* written is read, although acknowledgements are withheld when the window *)
(* is full and skipped when little was read (conn.go:276, 357).            *)
(***************************************************************************)
Arrived    == got = N \/ ~Open                \* a window closed stays closed
AllArrives == TRUE ~> Arrived

(***************************************************************************)
(* A closed send window releases the writer and the session that is about  *)
(* to wake it, whichever takes the two tokens (conn.go:152, 498).          *)
(***************************************************************************)
Released == writer.pc # "wait" /\ acker = "idle"
WriterReleased == endA.op ~> Released

(***************************************************************************)
(* "receive window stop or time out, break the loop and return"            *)
(* (conn.go:328): the reader of a connection that was closed returns.      *)
(***************************************************************************)
ReaderReturns == endB.closed ~> reader.pc \in {"idle", "eof"}
=============================================================================
