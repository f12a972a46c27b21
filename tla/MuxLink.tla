------------------------------ MODULE MuxLink -------------------------------
(***************************************************************************)
(* A link of nps_mux: opening, accepting and closing connections over one  *)
(* TCP connection, the priority queue in front of it, pings, and closing   *)
(* the link itself (lib/nps_mux/mux.go, map.go, queue.go, netpackager.go). *)
(* End A opens connections (the server of NPS), end B accepts them (npc).  *)
(* What a connection carries is counted here; its flow control is module   *)
(* MuxWindow, the queues' own interleavings are module MuxQueue.           *)
(*                                                                         *)
(* A connection is named by the call of NewConn that made it.  The code    *)
(* knows it only by its id, and so do the handlers below.                  *)
(***************************************************************************)
EXTENDS Naturals, Sequences, FiniteSets

CONSTANTS
    Opens,        \* bound: calls of NewConn
    MaxId,        \* ids wrap after this one (the code: 2^31 - 10000)
    FirstId,      \* the id given out last when the model begins
    Writes,       \* bound: which ends send a message on which connections
    Ends,         \* bound: which ends may close which connections
    MaxStarving,  \* maxStarving of the priority queue (the code: 8)
    Threshold,    \* pingCheckThreshold
    Ticks,        \* bound: ticks of A's ping timer
    Closers,      \* bound: goroutines of an end inside Close at a time
    MayClose,     \* ends whose program may close the link
    MayTimeOut    \* whether the two minutes of NewConn may end on a good link

End  == {"A", "B"}
Conn == 1 .. Opens
Id   == 1 .. MaxId + Opens              \* getId looks before it counts

ASSUME OpensAssumption == Opens \in Nat \ {0} /\ MaxId \in Nat \ {0} /\ FirstId \in 0 .. MaxId
ASSUME BoundAssumption == {Threshold, Ticks} \subseteq Nat /\ {MaxStarving, Closers} \subseteq Nat \ {0}
ASSUME UseAssumption   == Writes \subseteq End \X Conn /\ Ends \subseteq End \X Conn
ASSUME CloseAssumption == MayClose \subseteq End /\ MayTimeOut \in BOOLEAN

VARIABLES
    id,      \* A: Mux.id
    caller,  \* A: each call of NewConn, [pc, id]
    table,   \* connMap of each end: id -> connection, 0 for none
    conn,    \* each end's view of each connection
    sent,    \* messages each end's application has sent on it
    got,     \* messages received for it
    out,     \* writeQueue of each end: [high, mid, low, starving]
    wire,    \* packets of each end in the TCP connection
    link,    \* whether that TCP connection is up
    reader,  \* reading session of each end: 0, or the connection whose Ok it hands over
    backlog, \* B: newConnQueue
    accept,  \* B: the goroutine behind Accept, [pc, conn]
    ping,    \* A: [check: pingCheckTime, ticks]
    mux,     \* each end: [closed, checked, stored, shut, panic]
    lost,    \* history: messages that found no connection at an end that had not closed it
    passed   \* history: packets of the middle queue sent while one of the lowest waited

opening  == <<id, caller, table, conn>>
carrying == <<sent, got, lost>>
queues   == <<out, wire, passed>>
sessions == <<reader, backlog, accept, ping>>
vars     == <<opening, carrying, queues, link, sessions, mux>>

Other(e)      == CHOOSE f \in End : f # e
Packet        == [flag : {"new", "ok", "data", "close"}, conn : Conn, id : Id]
Ping          == [flag |-> "ping"]
Pong          == [flag |-> "pong"]
Packs(f, c, i) == [flag |-> f, conn |-> c, id |-> i]
Empty         == [high |-> <<>>, mid |-> <<>>, low |-> <<>>, starving |-> 0]
Alive(e)      == ~mux[e].closed /\ ~mux[e].panic
Running(e)    == ~mux[e].panic

Init ==
    /\ id = FirstId
    /\ caller = [c \in Conn |-> [pc |-> "start", id |-> 0]]
    /\ table = [e \in End |-> [i \in Id |-> 0]]
    /\ conn = [e \in End |-> [c \in Conn |-> "none"]]
    /\ sent = [e \in End |-> [c \in Conn |-> 0]]
    /\ got = [e \in End |-> [c \in Conn |-> 0]]
    /\ out = [e \in End |-> Empty]
    /\ wire = [e \in End |-> <<>>]
    /\ link = TRUE
    /\ reader = [e \in End |-> 0]
    /\ backlog = <<>>
    /\ accept = [pc |-> "pop", conn |-> 0, id |-> 0]
    /\ ping = [check |-> 0, ticks |-> 0]
    /\ mux = [e \in End |-> [closed |-> FALSE, checked |-> 0, stored |-> 0, shut |-> FALSE, panic |-> FALSE]]
    /\ lost = {}
    /\ passed = [e \in End |-> 0]

-----------------------------------------------------------------------------
(* The queue in front of the wire.                                         *)

(* priorityQueue.push: pings before openings before everything else.       *)
Push(q, p) ==
    CASE p.flag \in {"ping", "pong"} -> [q EXCEPT !.high = Append(@, p)]
      [] p.flag \in {"new", "ok"}    -> [q EXCEPT !.mid = Append(@, p)]
      [] OTHER                       -> [q EXCEPT !.low = Append(@, p)]

(* sendInfo does nothing once the link is closed.                          *)
sendInfo(e, p) == out' = IF mux[e].closed THEN out ELSE [out EXCEPT ![e] = Push(@, p)]

(* priorityQueue.TryPop: which queue gives a packet, and what becomes of   *)
(* starving.                                                               *)
High(q) == q.high # <<>>
Mid(q)  == ~High(q) /\ q.mid # <<>> /\ (q.starving < MaxStarving \/ q.low = <<>>)
Low(q)  == ~High(q) /\ q.low # <<>> /\ ~Mid(q)

(* Mutant of TryPop: the openings always go first.                         *)
TryPopMiddle(q) ==
    IF q.high # <<>> THEN [pack |-> Head(q.high), rest |-> [q EXCEPT !.high = Tail(@)]]
    ELSE IF q.mid # <<>> THEN [pack |-> Head(q.mid), rest |-> [q EXCEPT !.mid = Tail(@)]]
    ELSE [pack |-> Head(q.low), rest |-> [q EXCEPT !.low = Tail(@)]]

TryPop(q) ==
    CASE High(q) -> [pack |-> Head(q.high), rest |-> [q EXCEPT !.high = Tail(@)]]
      [] Mid(q)  -> [pack |-> Head(q.mid), rest |-> [q EXCEPT !.mid = Tail(@), !.starving = @ + 1]]
      [] Low(q)  -> [pack |-> Head(q.low), rest |-> [q EXCEPT !.low = Tail(@), !.starving = @ \div 2]]

(* writeSession sends one packet.                                          *)
Send(e) ==
    /\ Alive(e) /\ link
    /\ out[e] # [Empty EXCEPT !.starving = out[e].starving]
    /\ LET next == TryPop(out[e])
       IN  /\ out' = [out EXCEPT ![e] = next.rest]
           /\ wire' = [wire EXCEPT ![e] = Append(@, next.pack)]
           /\ passed' = [passed EXCEPT ![e] =
                 IF next.pack.flag \in {"data", "close"} \/ out[e].low = <<>> THEN 0
                 ELSE IF next.pack.flag \in {"new", "ok"} THEN @ + 1 ELSE @]
    /\ UNCHANGED <<opening, carrying, link, sessions, mux>>

-----------------------------------------------------------------------------
(* A: NewConn.                                                             *)

At(c, pc) == caller[c].pc = pc /\ Running("A")
Goto(c, pc) == caller' = [caller EXCEPT ![c].pc = pc]

(* NewConn refuses on a closed link; getId looks whether ids run out, ...  *)
BeginOpen(c) ==
    /\ At(c, "start")
    /\ \A d \in Conn : d < c => caller[d].pc # "start"        \* callers are alike
    /\ Goto(c, IF mux["A"].closed THEN "failed" ELSE IF id >= MaxId THEN "wrap" ELSE "take")
    /\ UNCHANGED <<id, table, conn, carrying, queues, link, sessions, mux>>

WrapId(c) ==
    /\ At(c, "wrap")
    /\ id' = 0
    /\ Goto(c, "take")
    /\ UNCHANGED <<table, conn, carrying, queues, link, sessions, mux>>

(* Mutant of TakeId: an id that is read before it is advanced.             *)
TakeIdStale(c) ==
    /\ At(c, "take")
    /\ id' = IF id < MaxId THEN id + 1 ELSE id
    /\ caller' = [caller EXCEPT ![c] = [pc |-> "set", id |-> id']]
    /\ UNCHANGED <<table, conn, carrying, queues, link, sessions, mux>>

(* ... and tries again if the id is still in use.                          *)
TakeId(c) ==
    /\ At(c, "take")
    /\ id' = id + 1
    /\ caller' = [caller EXCEPT ![c] =
          IF table["A"][id + 1] = 0 THEN [pc |-> "set", id |-> id + 1]
          ELSE [pc |-> IF id + 1 >= MaxId THEN "wrap" ELSE "take", id |-> 0]]
    /\ UNCHANGED <<table, conn, carrying, queues, link, sessions, mux>>

(* Mutant of SetConn: the connection is not in the table when it is sent.   *)
SetConnLate(c) ==
    /\ At(c, "set")
    /\ conn' = [conn EXCEPT !["A"][c] = "made"]
    /\ Goto(c, "send")
    /\ UNCHANGED <<id, table, carrying, queues, link, sessions, mux>>

(* "It must be Set before send."                                           *)
SetConn(c) ==
    /\ At(c, "set")
    /\ table' = [table EXCEPT !["A"][caller[c].id] = c]
    /\ conn' = [conn EXCEPT !["A"][c] = "made"]
    /\ Goto(c, "send")
    /\ UNCHANGED <<id, carrying, queues, link, sessions, mux>>

SendNew(c) ==
    /\ At(c, "send")
    /\ sendInfo("A", Packs("new", c, caller[c].id))
    /\ Goto(c, "wait")
    /\ UNCHANGED <<id, table, conn, carrying, wire, passed, link, sessions, mux>>

(* connStatusOkCh has no buffer: caller and reading session meet.          *)
Opened(c) ==
    /\ At(c, "wait")
    /\ reader["A"] = c
    /\ reader' = [reader EXCEPT !["A"] = 0]
    /\ conn' = [conn EXCEPT !["A"][c] = IF @ = "made" THEN "open" ELSE @]
    /\ Goto(c, "open")
    /\ UNCHANGED <<id, table, carrying, queues, link, backlog, accept, ping, mux>>

(* The timer of two minutes.  The connection stays in the table.           *)
TimeOut(c) ==
    /\ At(c, "wait")
    /\ MayTimeOut \/ mux["A"].closed
    /\ Goto(c, "failed")
    /\ UNCHANGED <<id, table, conn, carrying, queues, link, sessions, mux>>

-----------------------------------------------------------------------------
(* B: the goroutine behind Accept.                                         *)

PopNew ==
    /\ accept.pc = "pop"
    /\ Alive("B")
    /\ backlog # <<>>
    /\ backlog' = Tail(backlog)
    /\ accept' = [pc |-> "set", conn |-> Head(backlog).conn, id |-> Head(backlog).id]
    /\ UNCHANGED <<opening, carrying, queues, link, reader, ping, mux>>

SetAccepted ==
    /\ accept.pc = "set"
    /\ Running("B")
    /\ table' = [table EXCEPT !["B"][accept.id] = accept.conn]
    /\ conn' = [conn EXCEPT !["B"][accept.conn] = "made"]
    /\ accept' = [accept EXCEPT !.pc = "deliver"]
    /\ UNCHANGED <<id, caller, carrying, queues, link, reader, backlog, ping, mux>>

(* Mutant of Accept: the connection is answered for before it is taken.    *)
AcceptUntaken ==
    /\ accept.pc = "deliver"
    /\ Running("B")
    /\ accept' = [accept EXCEPT !.pc = "ok"]
    /\ UNCHANGED <<opening, carrying, queues, link, reader, backlog, ping, mux>>

(* newConnCh has no buffer: a goroutine of the program takes it from       *)
(* Accept.                                                                 *)
Accept ==
    /\ accept.pc = "deliver"
    /\ Running("B")
    /\ ~mux["B"].shut
    /\ conn' = [conn EXCEPT !["B"][accept.conn] = IF @ = "made" THEN "open" ELSE @]
    /\ accept' = [accept EXCEPT !.pc = "ok"]
    /\ UNCHANGED <<id, caller, table, carrying, queues, link, reader, backlog, ping, mux>>

(* Close has closed newConnCh under a goroutine that sends on it.          *)
SendOnClosed ==
    /\ accept.pc = "deliver"
    /\ Running("B")
    /\ mux["B"].shut
    /\ mux' = [mux EXCEPT !["B"].panic = TRUE]
    /\ link' = FALSE
    /\ UNCHANGED <<opening, carrying, queues, sessions>>

SendOk ==
    /\ accept.pc = "ok"
    /\ Running("B")
    /\ sendInfo("B", Packs("ok", accept.conn, accept.id))
    /\ accept' = [accept EXCEPT !.pc = IF mux["B"].closed THEN "end" ELSE "pop"]
    /\ UNCHANGED <<opening, carrying, wire, passed, link, reader, backlog, ping, mux>>

-----------------------------------------------------------------------------
(* The reading session of either end.                                      *)

Incoming(e) == wire[Other(e)]
Reads(e, flag) ==
    /\ Alive(e)
    /\ reader[e] = 0
    /\ Incoming(e) # <<>>
    /\ Head(Incoming(e)).flag = flag
    /\ wire' = [wire EXCEPT ![Other(e)] = Tail(@)]
    /\ UNCHANGED <<id, caller, sent, passed, link, accept>>

(* The connection a packet is for: by its id.                              *)
Known(e, p) == table[e][p.id]

ReadNew ==
    /\ Reads("B", "new")
    /\ backlog' = Append(backlog, Head(Incoming("B")))
    /\ UNCHANGED <<table, conn, got, lost, out, reader, ping, mux>>

ReadData(e) ==
    /\ Reads(e, "data")
    /\ LET p == Head(Incoming(e))
           c == Known(e, p)
       IN  IF c # 0
           THEN got' = [got EXCEPT ![e][c] = @ + 1] /\ UNCHANGED lost
           ELSE lost' = lost \cup (IF conn[e][p.conn] = "closed" THEN {} ELSE {<<e, p.conn>>})
                /\ UNCHANGED got
    /\ UNCHANGED <<table, conn, out, reader, backlog, ping, mux>>

(* Mutant of ReadOk: an Ok nobody waits for yet is dropped.                *)
ReadOkImpatient ==
    /\ Reads("A", "ok")
    /\ LET c == Known("A", Head(Incoming("A")))
       IN  reader' = [reader EXCEPT !["A"] = IF c # 0 /\ caller[c].pc = "open" THEN c ELSE 0]
    /\ UNCHANGED <<table, conn, got, lost, out, backlog, ping, mux>>

(* The reading session stops until NewConn takes the Ok.                   *)
ReadOk ==
    /\ Reads("A", "ok")
    /\ reader' = [reader EXCEPT !["A"] = Known("A", Head(Incoming("A")))]
    /\ UNCHANGED <<table, conn, got, lost, out, backlog, ping, mux>>

ReadClose(e) ==
    /\ Reads(e, "close")
    /\ LET c == Known(e, Head(Incoming(e)))
       IN  conn' = IF c = 0 THEN conn ELSE [conn EXCEPT ![e][c] = "closing"]
    /\ UNCHANGED <<table, got, lost, out, reader, backlog, ping, mux>>

ReadPing ==
    /\ Reads("B", "ping")
    /\ sendInfo("B", Pong)
    /\ UNCHANGED <<table, conn, got, lost, reader, backlog, ping, mux>>

ReadPong ==
    /\ Reads("A", "pong")
    /\ ping' = [ping EXCEPT !.check = 0]
    /\ UNCHANGED <<table, conn, got, lost, out, reader, backlog, mux>>

-----------------------------------------------------------------------------
(* The applications.                                                       *)

Write(e, c) ==
    /\ conn[e][c] = "open"
    /\ Alive(e)
    /\ <<e, c>> \in Writes
    /\ sent[e][c] = 0
    /\ sent' = [sent EXCEPT ![e][c] = @ + 1]
    /\ sendInfo(e, Packs("data", c, caller[c].id))
    /\ UNCHANGED <<opening, got, lost, wire, passed, link, sessions, mux>>

(* conn.Close: out of the table, and the peer is told.                     *)
CloseConn(e, c) ==
    /\ conn[e][c] \in {"open", "closing"}
    /\ <<e, c>> \in Ends
    /\ e = "A" => caller[c].pc = "open"
    /\ Alive(e)
    /\ conn' = [conn EXCEPT ![e][c] = "closed"]
    /\ table' = [table EXCEPT ![e][caller[c].id] = 0]
    /\ sendInfo(e, Packs("close", c, caller[c].id))
    /\ UNCHANGED <<id, caller, carrying, wire, passed, link, sessions, mux>>

-----------------------------------------------------------------------------
(* Pings, and closing the link.                                            *)

(* Mutant of CheckClose: a failed read or write leaves the link to the pings. *)
CheckCloseNot(e) ==
    /\ Alive(e)
    /\ mux[e].checked + mux[e].stored < Closers
    /\ e \in MayClose
    /\ mux' = [mux EXCEPT ![e].checked = @ + 1]
    /\ UNCHANGED <<opening, carrying, queues, link, sessions>>

(* The ticker: too many pings unanswered end the link.                     *)
Tick ==
    /\ Alive("A")
    /\ ping.ticks < Ticks
    /\ IF ping.check > Threshold
       THEN /\ mux["A"].checked + mux["A"].stored < Closers
            /\ mux' = [mux EXCEPT !["A"].checked = @ + 1]
            /\ ping' = [ping EXCEPT !.ticks = Ticks]
            /\ UNCHANGED out
       ELSE /\ sendInfo("A", Ping)
            /\ ping' = [check |-> ping.check + 1, ticks |-> ping.ticks + 1]
            /\ UNCHANGED mux
    /\ UNCHANGED <<opening, carrying, wire, passed, link, reader, backlog, accept>>

(* Close looks at isClose, ...                                             *)
CheckClose(e) ==
    /\ Alive(e)
    /\ mux[e].checked + mux[e].stored < Closers
    /\ \/ e \in MayClose                                \* the program closes
       \/ ~link /\ reader[e] = 0                         \* UnPack fails
       \/ ~link /\ out[e].high \o out[e].mid \o out[e].low # <<>>   \* Pack fails
    /\ mux' = [mux EXCEPT ![e].checked = @ + 1]
    /\ UNCHANGED <<opening, carrying, queues, link, sessions>>

(* Mutant of StoreClose: the closer does not leave the check.              *)
StoreCloseAgain(e) ==
    /\ mux[e].checked > 0
    /\ Running(e)
    /\ mux' = [mux EXCEPT ![e].stored = @ + 1, ![e].closed = TRUE]
    /\ UNCHANGED <<opening, carrying, queues, link, sessions>>

(* ... sets it, closes every connection in the table, ...                  *)
StoreClose(e) ==
    /\ mux[e].checked > 0
    /\ Running(e)
    /\ mux' = [mux EXCEPT ![e].checked = @ - 1, ![e].stored = @ + 1, ![e].closed = TRUE]
    /\ LET held == {table[e][i] : i \in Id} \ {0}
       IN  conn' = [conn EXCEPT ![e] = [c \in Conn |-> IF c \in held THEN "closed" ELSE @[c]]]
    /\ table' = [table EXCEPT ![e] = [i \in Id |-> 0]]
    /\ UNCHANGED <<id, caller, carrying, queues, link, sessions>>

(* ... closes the channel of Accept, where a second closer panics, and the *)
(* TCP connection, and empties the queues.                                 *)
FinishClose(e) ==
    /\ mux[e].stored > 0
    /\ Running(e)
    /\ mux' = [mux EXCEPT ![e].stored = @ - 1, ![e].shut = TRUE, ![e].panic = mux[e].shut]
    /\ link' = FALSE
    /\ out' = [out EXCEPT ![e] = Empty]
    /\ backlog' = IF e = "B" THEN <<>> ELSE backlog
    /\ UNCHANGED <<opening, carrying, wire, passed, reader, accept, ping>>

Calling(c) == BeginOpen(c) \/ WrapId(c) \/ TakeId(c) \/ SetConn(c) \/ SendNew(c) \/ Opened(c) \/ TimeOut(c)
Accepting  == PopNew \/ SetAccepted \/ Accept \/ SendOnClosed \/ SendOk
Reading    == ReadNew \/ ReadOk \/ ReadPing \/ ReadPong \/ \E e \in End : ReadData(e) \/ ReadClose(e)
Closing(e) == CheckClose(e) \/ StoreClose(e) \/ FinishClose(e)

Next ==
    \/ \E c \in Conn : Calling(c)
    \/ Accepting
    \/ Reading
    \/ Tick
    \/ \E e \in End : \/ Send(e)
                      \/ Closing(e)
                      \/ \E c \in Conn : Write(e, c) \/ CloseConn(e, c)

(* Goroutines run, the timers fire and B's program keeps calling Accept;   *)
(* nobody need open, write, close or tick.                                 *)
Fairness ==
    /\ \A c \in Conn : WF_vars(Calling(c) /\ caller[c].pc # "start")
    /\ WF_vars(Accepting)
    /\ WF_vars(Reading)
    /\ \A e \in End : WF_vars(Send(e)) /\ WF_vars(StoreClose(e) \/ FinishClose(e))
                      /\ WF_vars(CheckClose(e) /\ ~link)

Spec == Init /\ [][Next]_vars /\ Fairness

-----------------------------------------------------------------------------
(* Types (mux.go:30, queue.go:14): with the number of waiting packets.     *)
TypeOK ==
    /\ id \in {0} \cup Id
    /\ caller \in [Conn -> [pc : {"start", "wrap", "take", "set", "send", "wait", "open", "failed"}, id : {0} \cup Id]]
    /\ table \in [End -> [Id -> 0 .. Opens]]
    /\ conn \in [End -> [Conn -> {"none", "made", "open", "closing", "closed"}]]
    /\ sent \in [End -> [Conn -> 0 .. 1]]
    /\ got \in [End -> [Conn -> 0 .. 1]]
    /\ out \in [End -> [high : Seq({Ping, Pong}), mid : Seq(Packet), low : Seq(Packet),
                        starving : 0 .. 2 * Opens + MaxStarving]]
    /\ wire \in [End -> Seq(Packet \cup {Ping, Pong})]
    /\ link \in BOOLEAN
    /\ reader \in [End -> 0 .. Opens] /\ reader["B"] = 0
    /\ backlog \in Seq(Packet)
    /\ accept \in [pc : {"pop", "set", "deliver", "ok", "end"}, conn : 0 .. Opens, id : {0} \cup Id]
    /\ ping \in [check : 0 .. Ticks, ticks : 0 .. Ticks]
    /\ mux \in [End -> [closed : BOOLEAN, checked : 0 .. Closers, stored : 0 .. Closers,
                        shut : BOOLEAN, panic : BOOLEAN]]
    /\ lost \in SUBSET (End \X Conn)
    /\ passed \in [End -> Nat]

(* Two connections in use never share an id, over the wrap of the counter  *)
(* (getId: "Get New connId as unique flag", mux.go:366).                   *)
DistinctIds ==
    \A c, d \in Conn :
        c # d /\ caller[c].id # 0 /\ caller[c].id = caller[d].id
        => \E x \in {c, d} : conn["A"][x] = "closed"

(* When NewConn returns a connection, the program at the other end has     *)
(* been given it by Accept (the Ok goes out after newConnCh, mux.go:237).  *)
Paired ==
    \A c \in Conn : caller[c].pc = "open" => conn["B"][c] \in {"open", "closing", "closed"}

(* No message for a connection arrives at an end that does not know it     *)
(* yet: not at A although B may write before its Ok is sent, and not at B, *)
(* although openings overtake data (mux.go:96 and 236).                    *)
NothingLost == lost = {}

(* Data and closings are overtaken by a bounded number of openings         *)
(* (maxStarving, queue.go:54).                                             *)
LowNotStarved == \A e \in End : passed[e] <= MaxStarving

(* NewConn always returns, all calls of it: with a connection, or when its *)
(* timer ends after the link has closed (mux.go:100).                       *)
Waits == \E c \in Conn : caller[c].pc = "wait"
NewConnReturns == Waits ~> ~Waits

(* When one end closes the link, the other does too (mux.go:253 and 163).  *)
Shut     == \E e \in End : mux[e].shut
BothDead == \A e \in End : ~Alive(e)
PeerLearns == Shut ~> BothDead
=============================================================================
