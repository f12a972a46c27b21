--------------------------- MODULE PeerViewProofs ---------------------------
(***************************************************************************)
(* Proofs about what devices are told of each other, for any clients, any  *)
(* number of connections, and every interleaving of the goroutines of the  *)
(* server with each other and with restarts.                               *)
(***************************************************************************)
EXTENDS PeerView, FiniteSetTheorems, SequenceTheorems, TLAPS

Sent == [to : Conn, msg : Message]

Comes(m, w) == m.type \in {"PeerList", "PeerOnline"} /\ w \in m.peers
Parts(m, w) == m.type = "PeerOffline" /\ w \in m.peers

(* What a client that knows the peers k will know of w when it has read q. *)
EndsKnown(q, k, w) ==
    \/ w \in k /\ \A j \in 1 .. Len(q) : ~Parts(q[j], w)
    \/ \E i \in 1 .. Len(q) : Comes(q[i], w) /\ \A j \in i + 1 .. Len(q) : ~Parts(q[j], w)

EndsForgotten(q, k, w) ==
    \/ w \notin k /\ \A j \in 1 .. Len(q) : ~Comes(q[j], w)
    \/ \E i \in 1 .. Len(q) : Parts(q[i], w) /\ \A j \in i + 1 .. Len(q) : ~Comes(q[j], w)

(* One more message.                                                       *)
LEMMA OneMore ==
    ASSUME NEW q \in Seq(Message), NEW m \in Message, NEW k, NEW w
    PROVE  /\ Comes(m, w) => EndsKnown(Append(q, m), k, w)
           /\ EndsKnown(q, k, w) /\ ~Parts(m, w) => EndsKnown(Append(q, m), k, w)
           /\ Parts(m, w) => EndsForgotten(Append(q, m), k, w)
           /\ EndsForgotten(q, k, w) /\ ~Comes(m, w) => EndsForgotten(Append(q, m), k, w)
<1> DEFINE n == Len(q)
           Q == Append(q, m)
<1>1. /\ n \in Nat /\ Len(Q) = n + 1 /\ Q[n + 1] = m
      /\ \A i \in 1 .. n : Q[i] = q[i]
  OBVIOUS
<1> HIDE DEF n, Q
<1> USE <1>1
<1>2. Comes(m, w) => EndsKnown(Q, k, w)
  BY DEF EndsKnown
<1>3. Parts(m, w) => EndsForgotten(Q, k, w)
  BY DEF EndsForgotten
<1>4. EndsKnown(q, k, w) /\ ~Parts(m, w) => EndsKnown(Q, k, w)
  <2> SUFFICES ASSUME EndsKnown(q, k, w), ~Parts(m, w) PROVE EndsKnown(Q, k, w)
    OBVIOUS
  <2>1. CASE w \in k /\ \A j \in 1 .. n : ~Parts(q[j], w)
    BY <2>1 DEF EndsKnown
  <2>2. CASE \E i \in 1 .. n : Comes(q[i], w) /\ \A j \in i + 1 .. n : ~Parts(q[j], w)
    <3>1. PICK i \in 1 .. n : Comes(q[i], w) /\ \A j \in i + 1 .. n : ~Parts(q[j], w)
      BY <2>2
    <3>2. i \in 1 .. Len(Q) /\ Comes(Q[i], w) /\ \A j \in i + 1 .. Len(Q) : ~Parts(Q[j], w)
      BY <3>1
    <3>3. QED BY <3>2 DEF EndsKnown
  <2>3. QED BY <2>1, <2>2 DEF EndsKnown, n
<1>5. EndsForgotten(q, k, w) /\ ~Comes(m, w) => EndsForgotten(Q, k, w)
  <2> SUFFICES ASSUME EndsForgotten(q, k, w), ~Comes(m, w) PROVE EndsForgotten(Q, k, w)
    OBVIOUS
  <2>1. CASE w \notin k /\ \A j \in 1 .. n : ~Comes(q[j], w)
    BY <2>1 DEF EndsForgotten
  <2>2. CASE \E i \in 1 .. n : Parts(q[i], w) /\ \A j \in i + 1 .. n : ~Comes(q[j], w)
    <3>1. PICK i \in 1 .. n : Parts(q[i], w) /\ \A j \in i + 1 .. n : ~Comes(q[j], w)
      BY <2>2
    <3>2. i \in 1 .. Len(Q) /\ Parts(Q[i], w) /\ \A j \in i + 1 .. Len(Q) : ~Comes(Q[j], w)
      BY <3>1
    <3>3. QED BY <3>2 DEF EndsForgotten
  <2>3. QED BY <2>1, <2>2 DEF EndsForgotten, n
<1>6. QED BY <1>2, <1>3, <1>4, <1>5 DEF Q

(* The first message is read.                                              *)
LEMMA OneRead ==
    ASSUME NEW q \in Seq(Message), q # <<>>, NEW k, NEW l, NEW w
    PROVE  /\ /\ EndsKnown(q, k, w)
              /\ Comes(Head(q), w) => w \in l
              /\ w \in k => w \in l \/ Parts(Head(q), w)
              => EndsKnown(Tail(q), l, w)
           /\ /\ EndsForgotten(q, k, w)
              /\ Parts(Head(q), w) => w \notin l
              /\ w \in l => w \in k \/ Comes(Head(q), w)
              => EndsForgotten(Tail(q), l, w)
<1> DEFINE n == Len(q)
           T == Tail(q)
<1>1. /\ n \in Nat \ {0} /\ Len(T) = n - 1 /\ Head(q) = q[1]
      /\ \A i \in 1 .. n - 1 : T[i] = q[i + 1]
  BY HeadTailProperties, EmptySeq
<1>2. \A i \in 2 .. n : i - 1 \in 1 .. n - 1 /\ T[i - 1] = q[i]
  BY <1>1
<1> HIDE DEF n, T
<1> USE <1>1, <1>2
<1>3. ASSUME EndsKnown(q, k, w), Comes(q[1], w) => w \in l, w \in k => w \in l \/ Parts(q[1], w)
      PROVE  EndsKnown(T, l, w)
  <2>1. CASE w \in k /\ \A j \in 1 .. n : ~Parts(q[j], w)
    BY <1>3, <2>1 DEF EndsKnown
  <2>2. CASE \E i \in 1 .. n : Comes(q[i], w) /\ \A j \in i + 1 .. n : ~Parts(q[j], w)
    <3>1. PICK i \in 1 .. n : Comes(q[i], w) /\ \A j \in i + 1 .. n : ~Parts(q[j], w)
      BY <2>2
    <3>2. CASE i = 1
      BY <1>3, <3>1, <3>2 DEF EndsKnown
    <3>3. CASE i # 1
      <4>1. i - 1 \in 1 .. Len(T) /\ Comes(T[i - 1], w)
        BY <3>1, <3>3
      <4>2. \A j \in (i - 1) + 1 .. Len(T) : ~Parts(T[j], w)
        BY <3>1, <3>3
      <4>3. QED BY <4>1, <4>2 DEF EndsKnown
    <3>4. QED BY <3>2, <3>3
  <2>3. QED BY <1>3, <2>1, <2>2 DEF EndsKnown, n
<1>4. ASSUME EndsForgotten(q, k, w), Parts(q[1], w) => w \notin l, w \in l => w \in k \/ Comes(q[1], w)
      PROVE  EndsForgotten(T, l, w)
  <2>1. CASE w \notin k /\ \A j \in 1 .. n : ~Comes(q[j], w)
    BY <1>4, <2>1 DEF EndsForgotten
  <2>2. CASE \E i \in 1 .. n : Parts(q[i], w) /\ \A j \in i + 1 .. n : ~Comes(q[j], w)
    <3>1. PICK i \in 1 .. n : Parts(q[i], w) /\ \A j \in i + 1 .. n : ~Comes(q[j], w)
      BY <2>2
    <3>2. CASE i = 1
      BY <1>4, <3>1, <3>2 DEF EndsForgotten
    <3>3. CASE i # 1
      <4>1. i - 1 \in 1 .. Len(T) /\ Parts(T[i - 1], w)
        BY <3>1, <3>3
      <4>2. \A j \in (i - 1) + 1 .. Len(T) : ~Comes(T[j], w)
        BY <3>1, <3>3
      <4>3. QED BY <4>1, <4>2 DEF EndsForgotten
    <3>4. QED BY <3>2, <3>3
  <2>3. QED BY <1>4, <2>1, <2>2 DEF EndsForgotten, n
<1>5. QED BY <1>3, <1>4 DEF T

-----------------------------------------------------------------------------
(* What ToAll sends: the message, to the connection of each of S, and to   *)
(* nobody else.                                                            *)
LEMMA ToAllIs ==
    ASSUME NEW S \in SUBSET Client, NEW m, NEW o \in ToAll(S, m)
    PROVE  /\ Len(o) \in Nat /\ DOMAIN o = 1 .. Len(o)
           /\ \A T : (\A v \in S : [to |-> <<v, online[v]>>, msg |-> m] \in T) => o \in Seq(T)
           /\ \A v \in S : \E i \in 1 .. Len(o) : o[i] = [to |-> <<v, online[v]>>, msg |-> m]
<1>1. Cardinality(S) \in Nat
  BY ClientAssumption, FS_Subset, FS_CardinalityType
<1>2. PICK s \in Orders(S) : o = [i \in DOMAIN s |-> [to |-> <<s[i], online[s[i]]>>, msg |-> m]]
  BY DEF ToAll
<1>3. /\ DOMAIN s = 1 .. Cardinality(S) /\ \A i \in 1 .. Cardinality(S) : s[i] \in S
      /\ \A v \in S : \E i \in 1 .. Cardinality(S) : s[i] = v
  BY DEF Orders
<1>4. /\ DOMAIN o = 1 .. Cardinality(S)
      /\ \A i \in 1 .. Cardinality(S) : o[i] = [to |-> <<s[i], online[s[i]]>>, msg |-> m]
  BY <1>2, <1>3
<1>5. Len(o) = Cardinality(S)
  BY <1>1, <1>2, <1>3, <1>4
<1>6. ASSUME NEW T, \A v \in S : [to |-> <<v, online[v]>>, msg |-> m] \in T PROVE o \in Seq(T)
  <2>1. \A i \in 1 .. Cardinality(S) : o[i] \in T
    BY <1>3, <1>4, <1>6
  <2>2. o = [i \in 1 .. Cardinality(S) |-> o[i]]
    BY <1>2, <1>4
  <2>3. QED BY <1>1, <2>1, <2>2, IsASeq
<1>7. QED BY <1>1, <1>3, <1>4, <1>5, <1>6
-----------------------------------------------------------------------------
(* Types.                                                                  *)

ConnRec == [pc : PC, out : Seq(Sent)]

LEMMA MsgTypes ==
    /\ \A S \in SUBSET Client, t \in {"Welcome", "PeerList", "PeerOnline", "PeerOffline"} :
          Msg(t, S) \in Message /\ Msg(t, S).type = t /\ Msg(t, S).peers = S
    /\ Idle \in ConnRec
    /\ \A s \in Sent : <<s>> \in Seq(Sent) /\ Len(<<s>>) = 1 /\ <<s>>[1] = s
<1>1. \A S \in SUBSET Client, t \in {"Welcome", "PeerList", "PeerOnline", "PeerOffline"} :
          Msg(t, S) \in Message /\ Msg(t, S).type = t /\ Msg(t, S).peers = S
  BY DEF Msg, Message
<1>2. Idle \in ConnRec
  BY DEF Idle, ConnRec, PC
<1>3. QED BY <1>1, <1>2

LEMMA ToAllType ==
    ASSUME TypeOK, NEW m \in Message, NEW S \in SUBSET Devices, NEW o \in ToAll(S, m)
    PROVE  /\ o \in Seq(Sent)
           /\ \A i \in 1 .. Len(o) : o[i].msg = m
           /\ \A v \in S : \E i \in 1 .. Len(o) : o[i] = [to |-> <<v, online[v]>>, msg |-> m]
<1>1. \A v \in S : /\ [to |-> <<v, online[v]>>, msg |-> m] \in Sent
                   /\ [to |-> <<v, online[v]>>, msg |-> m] \in [to : Conn, msg : {m}]
  BY DEF TypeOK, Devices, Sent, Conn, Session, None
<1>2. S \in SUBSET Client
  BY DEF Devices
<1>3. o \in Seq(Sent) /\ o \in Seq([to : Conn, msg : {m}])
  BY <1>1, <1>2, ToAllIs
<1>4. \A i \in 1 .. Len(o) : o[i] \in [to : Conn, msg : {m}]
  BY <1>3, ElementOfSeq
<1>5. \A i \in 1 .. Len(o) : o[i].msg = m
  BY <1>4
<1>6. \A v \in S : \E i \in 1 .. Len(o) : o[i] = [to |-> <<v, online[v]>>, msg |-> m]
  BY <1>2, ToAllIs, Zenon
<1>7. QED BY <1>3, <1>5, <1>6

(* What a goroutine of the server does next, and what it has to send.      *)
LEMMA ConnTypes ==
    ASSUME TypeOK, NEW c \in Conn, NEW p \in PC, NEW o \in Seq(Sent),
           conn' = [conn EXCEPT ![c] = [pc |-> p, out |-> o]]
    PROVE  /\ conn' \in [Conn -> ConnRec]
           /\ conn'[c].pc = p /\ conn'[c].out = o
           /\ \A d \in Conn \ {c} : conn'[d] = conn[d]
<1>1. conn \in [Conn -> ConnRec] /\ [pc |-> p, out |-> o] \in ConnRec
  BY DEF TypeOK, ConnRec, Sent
<1>2. QED BY <1>1

LEMMA ConnIs ==
    ASSUME TypeOK, NEW c \in Conn
    PROVE  /\ c = <<c[1], c[2]>> /\ c[1] \in Client /\ c[2] \in Session /\ c[2] \in Nat \ {None}
           /\ conn[c] \in ConnRec /\ conn[c].pc \in PC /\ conn[c].out \in Seq(Sent)
           /\ conn[c] = [pc |-> conn[c].pc, out |-> conn[c].out]
<1>1. c \in Client \X Session
  BY DEF Conn
<1>2. conn[c] \in ConnRec
  BY DEF TypeOK, ConnRec, Sent
<1>3. c[2] \in Nat \ {None}
  BY <1>1, JoinAssumption DEF Session, None
<1>4. QED BY <1>1, <1>2, <1>3 DEF ConnRec

LEMMA SendType ==
    ASSUME TypeOK, NEW c \in Conn, Send(c)
    PROVE  /\ Head(conn[c].out) \in Sent
           /\ conn' = [conn EXCEPT ![c] = [pc |-> conn[c].pc, out |-> Tail(conn[c].out)]]
           /\ Tail(conn[c].out) \in Seq(Sent)
<1>1. conn[c].out # <<>> /\ conn' = [conn EXCEPT ![c].out = Tail(@)]
  BY DEF Send
<1>2. conn[c].out \in Seq(Sent) /\ conn[c] = [pc |-> conn[c].pc, out |-> conn[c].out]
  BY ConnIs
<1>3. Head(conn[c].out) \in Sent /\ Tail(conn[c].out) \in Seq(Sent)
  BY <1>1, <1>2, HeadTailProperties
<1> DEFINE T == Tail(conn[c].out)
<1>4. conn' = [conn EXCEPT ![c].out = T]
  BY <1>1
<1> HIDE DEF T
<1>5. conn' = [conn EXCEPT ![c] = [pc |-> conn[c].pc, out |-> T]]
  <2>1. [conn[c] EXCEPT !.out = T] = [pc |-> conn[c].pc, out |-> T]
    BY <1>2
  <2>2. QED BY <1>4, <2>1
<1>6. QED BY <1>3, <1>5 DEF T

LEMMA ConnStepTypes ==
    ASSUME TypeOK, NEW c \in Conn, ConnStep(c)
    PROVE  TypeOK'
<1> USE DEF server, client, history
<1>1. /\ c[1] \in Client /\ c[2] \in Session /\ conn[c].pc \in PC /\ conn[c].out \in Seq(Sent)
      /\ Devices \subseteq Client
  BY ConnIs DEF Devices
<1>9. <<>> \in Seq(Sent)
  OBVIOUS
<1>2. ASSUME NEW p \in PC, NEW o \in Seq(Sent), conn' = [conn EXCEPT ![c] = [pc |-> p, out |-> o]]
      PROVE  conn' \in [Conn -> [pc : PC, out : Seq([to : Conn, msg : Message])]]
  BY <1>2, ConnTypes DEF ConnRec, Sent
<1>3. ASSUME PeerList(c) PROVE TypeOK'
  <2> DEFINE s == [to |-> c, msg |-> Msg("PeerList", Devices \ {c[1]})]
  <2>1. s \in Sent /\ <<s>> \in Seq(Sent)
    BY <1>1, MsgTypes DEF Sent
  <2>2. conn' \in [Conn -> [pc : PC, out : Seq([to : Conn, msg : Message])]]
    BY <1>2, <1>3, <2>1 DEF PeerList, PC
  <2>3. QED BY <1>3, <2>2 DEF PeerList, TypeOK
<1>4. ASSUME NotifyOnline(c) PROVE TypeOK'
  <2> DEFINE others == {v \in Devices : <<v, online[v]>> # c}
  <2>1. Msg("PeerOnline", {c[1]}) \in Message
    BY <1>1, MsgTypes
  <2>2. PICK o \in ToAll(others, Msg("PeerOnline", {c[1]})) :
            conn' = [conn EXCEPT ![c] = [pc |-> "read", out |-> o]]
    BY <1>4 DEF NotifyOnline
  <2>3. o \in Seq(Sent)
    BY <2>1, <2>2, ToAllType
  <2>4. conn' \in [Conn -> [pc : PC, out : Seq([to : Conn, msg : Message])]]
    BY <1>2, <2>2, <2>3 DEF PC
  <2>5. QED BY <1>4, <2>4 DEF NotifyOnline, TypeOK
<1>5. ASSUME Send(c) PROVE TypeOK'
  <2> DEFINE s == Head(conn[c].out)
  <2>1. s \in Sent /\ s.to \in Conn /\ s.to[1] \in Client /\ s.msg \in Message
    BY <1>5, SendType DEF Sent, Conn
  <2>2. conn' \in [Conn -> [pc : PC, out : Seq([to : Conn, msg : Message])]]
    BY <1>1, <1>2, <1>5, SendType
  <2>3. queue \in [Client -> Seq(Message)] /\ s.msg.peers \subseteq Client
    BY <2>1 DEF TypeOK, Message
  <2>4. /\ queue' = [queue EXCEPT ![s.to[1]] = Append(queue[s.to[1]], s.msg)] \/ queue' = queue
    BY <1>5 DEF Send
  <2>5. queue[s.to[1]] \in Seq(Message) /\ Append(queue[s.to[1]], s.msg) \in Seq(Message)
    BY <2>1, <2>3
  <2>6. queue' \in [Client -> Seq(Message)]
    BY <2>3, <2>4, <2>5
  <2>7. overtaken' \in SUBSET (Client \X Client)
    BY <1>5, <2>1, <2>3 DEF Send, TypeOK
  <2>8. QED BY <1>5, <2>2, <2>6, <2>7 DEF Send, TypeOK
<1>6. ASSUME RemoveDevice(c) PROVE TypeOK'
  <2>1. conn' = [conn EXCEPT ![c] = [pc |-> "farewell", out |-> conn[c].out]]
    <3>1. conn' = [conn EXCEPT ![c].pc = "farewell"] /\ conn[c] = [pc |-> conn[c].pc, out |-> conn[c].out]
      BY <1>6, ConnIs DEF RemoveDevice
    <3>2. [conn[c] EXCEPT !.pc = "farewell"] = [pc |-> "farewell", out |-> conn[c].out]
      BY <3>1
    <3>3. QED BY <3>1, <3>2
  <2>2. conn' \in [Conn -> [pc : PC, out : Seq([to : Conn, msg : Message])]]
    BY <1>1, <1>2, <2>1 DEF PC
  <2>3. online' \in [Client -> Session \cup {None}] /\ witness' \subseteq witness
    BY <1>1, <1>6 DEF RemoveDevice, TypeOK
  <2>4. QED BY <1>6, <2>2, <2>3 DEF RemoveDevice, TypeOK
<1>7. ASSUME NotifyOffline(c) PROVE TypeOK'
  <2>1. Msg("PeerOffline", {c[1]}) \in Message
    BY <1>1, MsgTypes
  <2>2. PICK o \in ToAll(Devices, Msg("PeerOffline", {c[1]})) :
            conn' = [conn EXCEPT ![c] = [pc |-> "gone", out |-> o]]
    BY <1>7 DEF NotifyOffline
  <2>3. o \in Seq(Sent)
    BY <2>1, <2>2, ToAllType
  <2>4. conn' \in [Conn -> [pc : PC, out : Seq([to : Conn, msg : Message])]]
    BY <1>2, <2>2, <2>3 DEF PC
  <2>5. QED BY <1>7, <2>4 DEF NotifyOffline, TypeOK
<1>8. QED BY <1>3, <1>4, <1>5, <1>6, <1>7 DEF ConnStep

LEMMA RestartTypes == TypeOK /\ Restart => TypeOK'
<1> SUFFICES ASSUME TypeOK, Restart PROVE TypeOK'
  OBVIOUS
<1>1. /\ Idle \in ConnRec
      /\ [Idle EXCEPT !.pc = "gone"] \in ConnRec
  BY MsgTypes DEF ConnRec, PC
<1>2. conn' \in [Conn -> ConnRec]
  BY <1>1, Zenon DEF Restart
<1>3. online' \in [Client -> Session \cup {None}]
  BY DEF Restart
<1>4. QED BY <1>2, <1>3 DEF Restart, client, TypeOK, ConnRec, Sent

LEMMA JoinTypes == ASSUME TypeOK, NEW v \in Client, Join(v) PROVE TypeOK'
<1> DEFINE c == <<v, session[v] + 1>>
           s == [to |-> c, msg |-> Msg("Welcome", {})]
<1>1. session[v] + 1 \in Session /\ c \in Conn /\ c[2] = session[v] + 1
  <2>1. session[v] < MaxJoin
    BY Zenon DEF Join, Room
  <2>2. session[v] \in 0 .. MaxJoin
    BY JoinAssumption DEF TypeOK, Session, None
  <2>3. QED BY <2>1, <2>2, JoinAssumption DEF Session, Conn
<1>2. s \in Sent /\ <<s>> \in Seq(Sent)
  BY <1>1, MsgTypes DEF Sent
<1>3. conn' \in [Conn -> ConnRec]
  <2>1. conn' = [conn EXCEPT ![c] = [pc |-> "list", out |-> <<s>>]]
    BY DEF Join
  <2>2. QED BY <1>1, <1>2, <2>1, ConnTypes DEF PC
<1>4. session' \in [Client -> Session \cup {None}] /\ online' \in [Client -> Session \cup {None}]
  BY <1>1 DEF Join, TypeOK
<1>5. witness' \in SUBSET (Client \X Client)
  BY DEF Join, TypeOK
<1>6. state' \in [Client -> {"off", "wait", "up"}]
  BY DEF Join, TypeOK
<1>7. QED BY <1>3, <1>4, <1>5, <1>6 DEF Join, TypeOK, ConnRec, Sent

(* What a client takes from its queue.                                     *)
LEMMA ReadTypes ==
    ASSUME TypeOK, NEW v \in Client, queue[v] # <<>>
    PROVE  /\ Head(queue[v]) \in Message /\ Tail(queue[v]) \in Seq(Message)
           /\ [queue EXCEPT ![v] = Tail(@)] \in [Client -> Seq(Message)]
<1>1. queue \in [Client -> Seq(Message)] /\ queue[v] \in Seq(Message)
  BY DEF TypeOK
<1>2. Head(queue[v]) \in Message /\ Tail(queue[v]) \in Seq(Message)
  BY <1>1, HeadTailProperties
<1>3. QED BY <1>1, <1>2

LEMMA ClientTypes ==
    ASSUME TypeOK, NEW v \in Client, Drop(v) \/ Welcomed(v) \/ Arrival(v) \/ Departure(v)
    PROVE  TypeOK'
<1> USE DEF server, history
<1>1. ASSUME Ended(v) PROVE /\ state' \in [Client -> {"off", "wait", "up"}]
                            /\ queue' \in [Client -> Seq(Message)]
                            /\ witness' \in SUBSET (Client \X Client)
  BY <1>1 DEF Ended, TypeOK
<1>2. ASSUME Drop(v) PROVE TypeOK'
  BY <1>1, <1>2 DEF Drop, TypeOK
<1>3. ASSUME Welcomed(v) PROVE TypeOK'
  <2>1. CASE Ended(v)
    BY <1>1, <1>3, <2>1 DEF Welcomed, TypeOK
  <2>2. CASE ~Ended(v)
    <3>1. /\ queue[v] # <<>> /\ state' = [state EXCEPT ![v] = "up"]
          /\ queue' = [queue EXCEPT ![v] = Tail(@)] /\ UNCHANGED <<server, session, known, history>>
      BY <1>3, <2>2 DEF Welcomed
    <3>2. QED BY <3>1, ReadTypes DEF TypeOK
  <2>3. QED BY <2>1, <2>2
<1>4. ASSUME Arrival(v) \/ Departure(v) PROVE TypeOK'
  <2>1. /\ queue[v] # <<>> /\ queue' = [queue EXCEPT ![v] = Tail(@)]
        /\ UNCHANGED <<server, session, state, history>>
        /\ known' = [known EXCEPT ![v] = known[v] \cup Head(queue[v]).peers]
           \/ known' = [known EXCEPT ![v] = known[v] \ Head(queue[v]).peers]
    BY <1>4 DEF Arrival, Departure, Reads
  <2>2. Head(queue[v]).peers \subseteq Client /\ queue' \in [Client -> Seq(Message)]
    BY <2>1, ReadTypes DEF Message
  <2>3. known' \in [Client -> SUBSET Client]
    <3>1. known \in [Client -> SUBSET Client] /\ known[v] \in SUBSET Client
      BY DEF TypeOK
    <3>2. \E K \in SUBSET Client : known' = [known EXCEPT ![v] = K]
      BY <2>1, <2>2, <3>1
    <3>3. QED BY <3>1, <3>2
  <2>4. QED BY <2>1, <2>2, <2>3 DEF TypeOK
<1>5. QED BY <1>2, <1>3, <1>4

LEMMA Types == TypeOK /\ [Next]_vars => TypeOK'
<1> SUFFICES ASSUME TypeOK, [Next]_vars PROVE TypeOK'
  OBVIOUS
<1>1. CASE \E c \in Conn : ConnStep(c)
  BY <1>1, ConnStepTypes
<1>2. CASE \E v \in Client : ClientStep(v)
  BY <1>2, JoinTypes, ClientTypes DEF ClientStep
<1>3. CASE Restart
  BY <1>3, RestartTypes
<1>4. CASE UNCHANGED vars
  BY <1>4 DEF vars, server, client, history, TypeOK
<1>5. QED BY <1>1, <1>2, <1>3, <1>4 DEF Next
-----------------------------------------------------------------------------
(* The inductive invariant.                                                *)

(* The connection that has the address is the client's own, or an earlier  *)
(* one, and has not been given up; a connection to come has done nothing.  *)
Entered ==
    /\ \A v \in Client : online[v] # None =>
          online[v] <= session[v] /\ conn[<<v, online[v]>>].pc \in {"list", "announce", "read"}
    /\ \A c \in Conn : c[2] > session[c[1]] => conn[c] = Idle

(* What a goroutine has still to send tells how far it has got.            *)
Sends(c, s) ==
    \/ conn[c].pc = "list" /\ s.to = c /\ s.msg = Msg("Welcome", {})
    \/ conn[c].pc = "announce" /\ s.to = c /\ s.msg.type = "PeerList"
    \/ conn[c].pc = "read" /\ s.msg = Msg("PeerOnline", {c[1]})
    \/ conn[c].pc = "gone" /\ s.msg = Msg("PeerOffline", {c[1]})

OutIs == \A c \in Conn : \A i \in 1 .. Len(conn[c].out) : Sends(c, conn[c].out[i])

(* Whoever is connected, or waits for it, has had a connection.            *)
Begun == \A v \in Client : state[v] # "off" => session[v] # None

(* Server and client agree on the connection.                              *)
Live(v) == state[v] # "off" /\ online[v] = session[v] /\ online[v] # None

(* Who has seen an arrival stays connected.                                *)
Watches ==
    \A p \in witness : Live(p[1]) /\ conn[<<p[1], online[p[1]]>>].pc = "read" /\ p[1] # p[2]

OnItsWay(v, w) ==
    \E c \in Conn : \E i \in 1 .. Len(conn[c].out) :
        conn[c].out[i].to = <<v, online[v]>> /\ Comes(conn[c].out[i].msg, w)

(* Whoever is connected is known, or the news is on its way, or it will be *)
(* in the list, or announced.                                              *)
WillKnow(v, w) ==
    \/ <<v, w>> \in overtaken
    \/ EndsKnown(queue[v], known[v], w)
    \/ OnItsWay(v, w)
    \/ conn[<<v, online[v]>>].pc = "list"
    \/ conn[<<w, online[w]>>].pc \in {"list", "announce"}

Told == \A v, w \in Client : v # w /\ Live(v) /\ online[w] # None => WillKnow(v, w)

(* A connection of a client that has still to tell v that it left.         *)
Owes(c, v) ==
    \/ conn[c].pc \in {"list", "announce", "read", "farewell"}
    \/ \E i \in 1 .. Len(conn[c].out) :
          conn[c].out[i].to = <<v, online[v]>> /\ Parts(conn[c].out[i].msg, c[1])

(* A witness of an arrival ends up not knowing the peer, unless a          *)
(* connection of the peer has still to say good-bye.                       *)
Farewells ==
    \A p \in witness :
        \/ \E k \in Session : Owes(<<p[2], k>>, p[1])
        \/ EndsForgotten(queue[p[1]], known[p[1]], p[2])

IInv == TypeOK /\ Entered /\ OutIs /\ Begun /\ Watches /\ Told /\ Farewells

-----------------------------------------------------------------------------
(* What the steps of a goroutine do.                                       *)

LEMMA PeerListDoes ==
    ASSUME TypeOK, NEW c \in Conn, PeerList(c)
    PROVE  /\ conn[c].pc = "list" /\ Len(conn[c].out) = 0
           /\ conn'[c].pc = "announce" /\ Len(conn'[c].out) = 1
           /\ conn'[c].out[1] = [to |-> c, msg |-> Msg("PeerList", Devices \ {c[1]})]
           /\ \A d \in Conn \ {c} : conn'[d] = conn[d]
<1> DEFINE s == [to |-> c, msg |-> Msg("PeerList", Devices \ {c[1]})]
<1>1. s \in Sent /\ <<s>> \in Seq(Sent) /\ Len(<<s>>) = 1 /\ <<s>>[1] = s
  BY MsgTypes, ConnIs DEF Sent, Devices
<1>2. conn[c].pc = "list" /\ conn[c].out = <<>>
  BY DEF PeerList, At
<1>3. conn' = [conn EXCEPT ![c] = [pc |-> "announce", out |-> <<s>>]]
  BY DEF PeerList
<1>4. QED BY <1>1, <1>2, <1>3, ConnTypes DEF PC

LEMMA NotifyOnlineDoes ==
    ASSUME TypeOK, NEW c \in Conn, NotifyOnline(c)
    PROVE  /\ conn[c].pc = "announce" /\ Len(conn[c].out) = 0
           /\ conn'[c].pc = "read"
           /\ \A i \in 1 .. Len(conn'[c].out) : conn'[c].out[i].msg = Msg("PeerOnline", {c[1]})
           /\ \A v \in Client : online[v] # None /\ <<v, online[v]>> # c =>
                \E i \in 1 .. Len(conn'[c].out) :
                    conn'[c].out[i] = [to |-> <<v, online[v]>>, msg |-> Msg("PeerOnline", {c[1]})]
           /\ \A d \in Conn \ {c} : conn'[d] = conn[d]
<1> DEFINE others == {v \in Devices : <<v, online[v]>> # c}
           m == Msg("PeerOnline", {c[1]})
<1>1. m \in Message /\ Devices \in SUBSET Client
  <2>1. {c[1]} \in SUBSET Client
    BY ConnIs
  <2>2. QED BY <2>1, MsgTypes DEF Devices
<1>2. PICK o \in ToAll(others, m) : conn' = [conn EXCEPT ![c] = [pc |-> "read", out |-> o]]
  BY DEF NotifyOnline
<1>3. /\ o \in Seq(Sent) /\ \A i \in 1 .. Len(o) : o[i].msg = m
      /\ \A v \in others : \E i \in 1 .. Len(o) : o[i] = [to |-> <<v, online[v]>>, msg |-> m]
  <2> HIDE DEF m
  <2>1. QED BY <1>1, <1>2, ToAllType
<1>4. conn'[c].pc = "read" /\ conn'[c].out = o /\ \A d \in Conn \ {c} : conn'[d] = conn[d]
  BY <1>2, <1>3, ConnTypes DEF PC
<1>5. conn[c].pc = "announce" /\ conn[c].out = <<>>
  BY DEF NotifyOnline, At
<1> HIDE DEF m
<1>6. \A v \in Client : online[v] # None /\ <<v, online[v]>> # c => v \in others
  BY DEF Devices
<1>7. QED BY <1>3, <1>4, <1>5, <1>6 DEF m

LEMMA NotifyOfflineDoes ==
    ASSUME TypeOK, NEW c \in Conn, NotifyOffline(c)
    PROVE  /\ conn[c].pc = "farewell" /\ Len(conn[c].out) = 0
           /\ conn'[c].pc = "gone"
           /\ \A i \in 1 .. Len(conn'[c].out) : conn'[c].out[i].msg = Msg("PeerOffline", {c[1]})
           /\ \A v \in Client : online[v] # None =>
                \E i \in 1 .. Len(conn'[c].out) :
                    conn'[c].out[i] = [to |-> <<v, online[v]>>, msg |-> Msg("PeerOffline", {c[1]})]
           /\ \A d \in Conn \ {c} : conn'[d] = conn[d]
<1> DEFINE m == Msg("PeerOffline", {c[1]})
<1>1. m \in Message /\ Devices \in SUBSET Client
  <2>1. {c[1]} \in SUBSET Client
    BY ConnIs
  <2>2. QED BY <2>1, MsgTypes DEF Devices
<1>2. PICK o \in ToAll(Devices, m) : conn' = [conn EXCEPT ![c] = [pc |-> "gone", out |-> o]]
  BY DEF NotifyOffline
<1>3. /\ o \in Seq(Sent) /\ \A i \in 1 .. Len(o) : o[i].msg = m
      /\ \A v \in Devices : \E i \in 1 .. Len(o) : o[i] = [to |-> <<v, online[v]>>, msg |-> m]
  <2> HIDE DEF m
  <2>1. QED BY <1>1, <1>2, ToAllType
<1>4. conn'[c].pc = "gone" /\ conn'[c].out = o /\ \A d \in Conn \ {c} : conn'[d] = conn[d]
  BY <1>2, <1>3, ConnTypes DEF PC
<1>5. conn[c].pc = "farewell" /\ conn[c].out = <<>>
  BY DEF NotifyOffline, At
<1> HIDE DEF m
<1>6. \A v \in Client : online[v] # None => v \in Devices
  BY DEF Devices
<1>7. QED BY <1>3, <1>4, <1>5, <1>6 DEF m

LEMMA SendDoes ==
    ASSUME TypeOK, NEW c \in Conn, Send(c)
    PROVE  /\ Len(conn[c].out) \in Nat \ {0} /\ conn[c].out[1] \in Sent
           /\ conn'[c].pc = conn[c].pc /\ Len(conn'[c].out) = Len(conn[c].out) - 1
           /\ \A i \in 1 .. Len(conn'[c].out) : conn'[c].out[i] = conn[c].out[i + 1]
           /\ \A d \in Conn \ {c} : conn'[d] = conn[d]
           /\ Head(conn[c].out) = conn[c].out[1]
<1> DEFINE o == conn[c].out
<1>1. o \in Seq(Sent) /\ o # <<>>
  BY ConnIs DEF Send
<1>2. conn'[c].pc = conn[c].pc /\ conn'[c].out = Tail(o) /\ \A d \in Conn \ {c} : conn'[d] = conn[d]
  <2>1. /\ conn' = [conn EXCEPT ![c] = [pc |-> conn[c].pc, out |-> Tail(o)]]
        /\ Tail(o) \in Seq(Sent) /\ conn[c].pc \in PC
    BY SendType, ConnIs
  <2> HIDE DEF o
  <2>2. QED BY <2>1, ConnTypes
<1> HIDE DEF o
<1>3. /\ Len(o) \in Nat \ {0} /\ Len(Tail(o)) = Len(o) - 1 /\ Head(o) = o[1] /\ o[1] \in Sent
      /\ \A i \in 1 .. Len(o) - 1 : Tail(o)[i] = o[i + 1]
  BY <1>1, HeadTailProperties, EmptySeq
<1>4. QED BY <1>2, <1>3 DEF o

LEMMA RemoveDeviceDoes ==
    ASSUME TypeOK, NEW c \in Conn, RemoveDevice(c)
    PROVE  /\ conn[c].pc = "read" /\ Len(conn[c].out) = 0
           /\ conn'[c].pc = "farewell" /\ Len(conn'[c].out) = 0
           /\ \A d \in Conn \ {c} : conn'[d] = conn[d]
           /\ \A v \in Client : online'[v] # None =>
                 online'[v] = online[v] /\ <<v, online[v]>> # c
<1>1. conn[c].pc = "read" /\ conn[c].out = <<>> /\ conn' = [conn EXCEPT ![c].pc = "farewell"]
  BY DEF RemoveDevice, At
<1>2. conn[c] \in ConnRec /\ conn \in [Conn -> ConnRec]
  BY DEF TypeOK, ConnRec, Sent
<1>3. /\ conn'[c].pc = "farewell" /\ conn'[c].out = <<>> /\ \A d \in Conn \ {c} : conn'[d] = conn[d]
  BY <1>1, <1>2 DEF ConnRec
<1>4. /\ c = <<c[1], c[2]>> /\ c[1] \in Client
      /\ online' = [online EXCEPT ![c[1]] = IF online[c[1]] = c[2] THEN None ELSE online[c[1]]]
  BY ConnIs DEF RemoveDevice
<1>5. ASSUME NEW v \in Client, online'[v] # None
      PROVE  online'[v] = online[v] /\ <<v, online[v]>> # c
  BY <1>4, <1>5 DEF TypeOK
<1>6. QED BY <1>1, <1>3, <1>5

LEMMA JoinDoes ==
    ASSUME TypeOK, Entered, NEW v \in Client, Join(v)
    PROVE  LET c == <<v, session[v] + 1>>
           IN  /\ c \in Conn /\ conn[c] = Idle
               /\ conn'[c].pc = "list" /\ Len(conn'[c].out) = 1
               /\ conn'[c].out[1] = [to |-> c, msg |-> Msg("Welcome", {})]
               /\ \A d \in Conn \ {c} : conn'[d] = conn[d]
               /\ session'[v] = session[v] + 1 /\ online'[v] = session[v] + 1
               /\ session[v] \in Nat /\ session[v] + 1 \in Session
               /\ \A w \in Client \ {v} : online'[w] = online[w] /\ session'[w] = session[w]
                                          /\ state'[w] = state[w]
<1> DEFINE c == <<v, session[v] + 1>>
           s == [to |-> c, msg |-> Msg("Welcome", {})]
<1>1. session[v] < MaxJoin
  BY Zenon DEF Join, Room
<1>2. session[v] \in 0 .. MaxJoin
  BY JoinAssumption DEF TypeOK, Session, None
<1>3. session[v] + 1 \in Session /\ c \in Conn /\ c[1] = v /\ c[2] = session[v] + 1 /\ session[v] \in Nat
  BY <1>1, <1>2, JoinAssumption DEF Session, Conn
<1>4. conn[c] = Idle
  BY <1>3 DEF Entered
<1>5. s \in Sent /\ <<s>> \in Seq(Sent) /\ Len(<<s>>) = 1 /\ <<s>>[1] = s
  BY <1>3, MsgTypes DEF Sent
<1>6. conn' = [conn EXCEPT ![c] = [pc |-> "list", out |-> <<s>>]]
  BY DEF Join
<1>7. /\ conn'[c].pc = "list" /\ conn'[c].out = <<s>> /\ \A d \in Conn \ {c} : conn'[d] = conn[d]
  BY <1>3, <1>5, <1>6, ConnTypes DEF PC
<1>8. /\ session'[v] = session[v] + 1 /\ online'[v] = session[v] + 1
      /\ \A w \in Client \ {v} : online'[w] = online[w] /\ session'[w] = session[w]
                                 /\ state'[w] = state[w]
  <2>1. /\ session' = [session EXCEPT ![v] = session[v] + 1]
        /\ online' = [online EXCEPT ![v] = session[v] + 1]
        /\ state' = [state EXCEPT ![v] = "wait"]
    BY Zenon DEF Join
  <2>2. QED BY <2>1 DEF TypeOK
<1>9. QED BY <1>3, <1>4, <1>5, <1>7, <1>8
-----------------------------------------------------------------------------
(* The steps, invariant by invariant.                                      *)

LEMMA EnteredStep == TypeOK /\ Entered /\ [Next]_vars => Entered'
<1> SUFFICES ASSUME TypeOK, Entered, [Next]_vars PROVE Entered'
  OBVIOUS
<1> USE DEF server, client, history
<1>1. ASSUME UNCHANGED <<online, conn, session>> PROVE Entered'
  BY <1>1 DEF Entered
<1>2. ASSUME NEW c \in Conn, UNCHANGED session, conn[c] # Idle,
             \A d \in Conn \ {c} : conn'[d] = conn[d],
             \A v \in Client : online'[v] # None =>
                online'[v] = online[v] /\ (<<v, online[v]>> = c =>
                    conn'[c].pc \in {"list", "announce", "read"})
      PROVE  Entered'
  <2>1. ASSUME NEW v \in Client, online'[v] # None
        PROVE  online'[v] <= session'[v] /\ conn'[<<v, online'[v]>>].pc \in {"list", "announce", "read"}
    <3>1. <<v, online[v]>> \in Conn /\ online'[v] = online[v]
      BY <1>2, <2>1 DEF TypeOK, Conn
    <3>2. QED BY <1>2, <2>1, <3>1 DEF Entered
  <2>2. ASSUME NEW d \in Conn, d[2] > session'[d[1]] PROVE conn'[d] = Idle
    BY <1>2, <2>2 DEF Entered
  <2>3. QED BY <2>1, <2>2 DEF Entered
<1>3. \A c \in Conn : conn[c] = Idle => conn[c].pc = "none" /\ conn[c].out = <<>>
  BY DEF Idle
<1>4. ASSUME NEW c \in Conn, PeerList(c) PROVE Entered'
  BY <1>2, <1>3, <1>4, PeerListDoes DEF PeerList
<1>5. ASSUME NEW c \in Conn, NotifyOnline(c) PROVE Entered'
  BY <1>2, <1>3, <1>5, NotifyOnlineDoes DEF NotifyOnline
<1>6. ASSUME NEW c \in Conn, Send(c) PROVE Entered'
  <2>1. /\ conn[c] # Idle /\ UNCHANGED <<online, session>> /\ conn'[c].pc = conn[c].pc
        /\ \A d \in Conn \ {c} : conn'[d] = conn[d]
    BY <1>3, <1>6, SendDoes DEF Send
  <2>2. \A v \in Client : online[v] # None => conn[<<v, online[v]>>].pc \in {"list", "announce", "read"}
    BY DEF Entered
  <2>3. QED BY <1>2, <2>1, <2>2
<1>7. ASSUME NEW c \in Conn, RemoveDevice(c) PROVE Entered'
  BY <1>2, <1>3, <1>7, RemoveDeviceDoes DEF RemoveDevice
<1>8. ASSUME NEW c \in Conn, NotifyOffline(c) PROVE Entered'
  <2>1. \A v \in Client : online[v] # None => conn[<<v, online[v]>>].pc \in {"list", "announce", "read"}
    BY DEF Entered
  <2>2. QED BY <1>2, <1>3, <1>8, <2>1, NotifyOfflineDoes DEF NotifyOffline
<1>9. ASSUME NEW v \in Client, Join(v) PROVE Entered'
  <2> DEFINE c == <<v, session[v] + 1>>
  <2>1. /\ c \in Conn /\ conn'[c].pc = "list" /\ \A d \in Conn \ {c} : conn'[d] = conn[d]
        /\ session'[v] = session[v] + 1 /\ online'[v] = session[v] + 1 /\ session[v] \in Nat
        /\ \A w \in Client \ {v} : online'[w] = online[w] /\ session'[w] = session[w]
    BY <1>9, JoinDoes
  <2>2. ASSUME NEW w \in Client, online'[w] # None
        PROVE  online'[w] <= session'[w] /\ conn'[<<w, online'[w]>>].pc \in {"list", "announce", "read"}
    <3>1. CASE w = v
      BY <2>1, <3>1
    <3>2. CASE w # v
      <4>1. <<w, online[w]>> \in Conn \ {c} /\ online[w] # None
        BY <2>1, <2>2, <3>2 DEF TypeOK, Conn
      <4>2. QED BY <2>1, <3>2, <4>1 DEF Entered
    <3>3. QED BY <3>1, <3>2
  <2>3. ASSUME NEW d \in Conn, d[2] > session'[d[1]] PROVE conn'[d] = Idle
    <3>1. d[1] \in Client /\ d[2] \in Nat /\ session[d[1]] \in Nat
      BY JoinAssumption DEF Conn, Session, TypeOK, None
    <3>2. d # c /\ d[2] > session[d[1]]
      BY <2>1, <2>3, <3>1
    <3>3. QED BY <2>1, <3>2 DEF Entered
  <2>4. QED BY <2>2, <2>3 DEF Entered
<1>10. ASSUME NEW v \in Client, Drop(v) \/ Welcomed(v) \/ Arrival(v) \/ Departure(v) PROVE Entered'
  BY <1>1, <1>10 DEF Drop, Welcomed, Arrival, Departure, Reads
<1>11. ASSUME Restart PROVE Entered'
  <2>1. \A v \in Client : online'[v] = None
    BY <1>11 DEF Restart
  <2>2. \A c \in Conn : conn[c] = Idle => conn'[c] = Idle
    BY <1>3, <1>11 DEF Restart
  <2>3. session' = session
    BY <1>11 DEF Restart
  <2>4. QED BY <2>1, <2>2, <2>3 DEF Entered
<1>12. CASE UNCHANGED vars
  BY <1>1, <1>12 DEF vars
<1>13. QED
  BY <1>4, <1>5, <1>6, <1>7, <1>8, <1>9, <1>10, <1>11, <1>12 DEF Next, ConnStep, ClientStep

LEMMA OutIsStep == TypeOK /\ Entered /\ OutIs /\ [Next]_vars => OutIs'
<1> SUFFICES ASSUME TypeOK, Entered, OutIs, [Next]_vars PROVE OutIs'
  OBVIOUS
<1> USE DEF server, client, history
<1>1. ASSUME UNCHANGED conn PROVE OutIs'
  BY <1>1 DEF OutIs, Sends
<1>2. ASSUME NEW c \in Conn, \A d \in Conn \ {c} : conn'[d] = conn[d],
             (\A i \in 1 .. Len(conn[c].out) : Sends(c, conn[c].out[i]))'
      PROVE  OutIs'
  <2>1. ASSUME NEW d \in Conn \ {c}, NEW i \in 1 .. Len(conn'[d].out)
        PROVE  Sends(d, conn[d].out[i])'
    <3>1. conn'[d] = conn[d] /\ Sends(d, conn[d].out[i])
      BY <1>2, <2>1 DEF OutIs
    <3>2. QED BY <3>1 DEF Sends
  <2>2. QED BY <1>2, <2>1 DEF OutIs
<1>3. ASSUME NEW c \in Conn, PeerList(c) PROVE OutIs'
  <2>1. /\ \A d \in Conn \ {c} : conn'[d] = conn[d]
        /\ conn'[c].pc = "announce" /\ Len(conn'[c].out) = 1
        /\ conn'[c].out[1] = [to |-> c, msg |-> Msg("PeerList", Devices \ {c[1]})]
    BY <1>3, PeerListDoes
  <2>2. conn'[c].out[1].to = c /\ conn'[c].out[1].msg.type = "PeerList"
    BY <2>1 DEF Msg
  <2>3. \A i \in 1 .. Len(conn'[c].out) : i = 1
    BY <2>1
  <2>4. QED BY <1>2, <2>1, <2>2, <2>3 DEF Sends
<1>4. ASSUME NEW c \in Conn, NotifyOnline(c) PROVE OutIs'
  BY <1>2, <1>4, NotifyOnlineDoes DEF Sends
<1>5. ASSUME NEW c \in Conn, Send(c) PROVE OutIs'
  <2>1. \A i \in 1 .. Len(conn'[c].out) : i + 1 \in 1 .. Len(conn[c].out)
    BY <1>5, SendDoes
  <2>2. \A i \in 1 .. Len(conn'[c].out) : Sends(c, conn[c].out[i + 1])
    BY <2>1 DEF OutIs
  <2>3. ASSUME NEW i \in 1 .. Len(conn'[c].out) PROVE Sends(c, conn[c].out[i])'
    <3>1. /\ conn'[c].pc = conn[c].pc /\ conn'[c].out[i] = conn[c].out[i + 1]
          /\ Sends(c, conn[c].out[i + 1])
      BY <1>5, <2>2, SendDoes
    <3>2. QED BY <3>1 DEF Sends
  <2>4. QED BY <1>2, <1>5, <2>3, SendDoes
<1>6. ASSUME NEW c \in Conn, RemoveDevice(c) PROVE OutIs'
  BY <1>2, <1>6, RemoveDeviceDoes
<1>7. ASSUME NEW c \in Conn, NotifyOffline(c) PROVE OutIs'
  BY <1>2, <1>7, NotifyOfflineDoes DEF Sends
<1>8. ASSUME NEW v \in Client, Join(v) PROVE OutIs'
  <2> DEFINE c == <<v, session[v] + 1>>
  <2>1. /\ c \in Conn /\ conn'[c].pc = "list" /\ Len(conn'[c].out) = 1
        /\ conn'[c].out[1] = [to |-> c, msg |-> Msg("Welcome", {})]
        /\ \A d \in Conn \ {c} : conn'[d] = conn[d]
    BY <1>8, JoinDoes
  <2> HIDE DEF c
  <2>2. \A i \in 1 .. Len(conn'[c].out) : i = 1
    BY <2>1
  <2>3. conn'[c].out[1].to = c /\ conn'[c].out[1].msg = Msg("Welcome", {})
    BY <2>1
  <2>4. QED BY <1>2, <2>1, <2>2, <2>3 DEF Sends
<1>9. ASSUME NEW v \in Client, Drop(v) \/ Welcomed(v) \/ Arrival(v) \/ Departure(v) PROVE OutIs'
  BY <1>1, <1>9 DEF Drop, Welcomed, Arrival, Departure, Reads
<1>10. ASSUME Restart PROVE OutIs'
  <2>1. \A c \in Conn : Len(conn'[c].out) = 0
    BY <1>10 DEF Restart, Idle
  <2>2. QED BY <2>1 DEF OutIs
<1>11. CASE UNCHANGED vars
  BY <1>1, <1>11 DEF vars
<1>12. QED
  BY <1>3, <1>4, <1>5, <1>6, <1>7, <1>8, <1>9, <1>10, <1>11 DEF Next, ConnStep, ClientStep

LEMMA BegunStep == TypeOK /\ Begun /\ [Next]_vars => Begun'
<1> SUFFICES ASSUME TypeOK, Begun, [Next]_vars PROVE Begun'
  OBVIOUS
<1> USE DEF server, client, history
<1>1. ASSUME UNCHANGED <<session, state>> PROVE Begun'
  BY <1>1 DEF Begun
<1>2. ASSUME NEW v \in Client, Join(v) PROVE Begun'
  <2>1. /\ session' = [session EXCEPT ![v] = session[v] + 1] /\ state' = [state EXCEPT ![v] = "wait"]
    BY <1>2, Zenon DEF Join
  <2>2. \A w \in Client : session[w] \in Nat
    BY JoinAssumption DEF TypeOK, Session, None
  <2>3. QED BY <2>1, <2>2 DEF Begun, TypeOK, None
<1>3. ASSUME NEW v \in Client, Drop(v) \/ Welcomed(v) PROVE Begun'
  BY <1>3 DEF Drop, Welcomed, Ended, Begun, TypeOK
<1>4. ASSUME NEW v \in Client, Arrival(v) \/ Departure(v) PROVE Begun'
  BY <1>1, <1>4 DEF Arrival, Departure, Reads
<1>5. ASSUME NEW c \in Conn, ConnStep(c) PROVE Begun'
  BY <1>1, <1>5 DEF ConnStep, PeerList, NotifyOnline, Send, RemoveDevice, NotifyOffline
<1>6. CASE Restart
  BY <1>1, <1>6 DEF Restart
<1>7. CASE UNCHANGED vars
  BY <1>1, <1>7 DEF vars
<1>8. QED BY <1>2, <1>3, <1>4, <1>5, <1>6, <1>7 DEF Next, ClientStep

LEMMA WatchesStep == TypeOK /\ Entered /\ Begun /\ Watches /\ [Next]_vars => Watches'
<1> SUFFICES ASSUME TypeOK, Entered, Begun, Watches, [Next]_vars PROVE Watches'
  OBVIOUS
<1> USE DEF server, client, history
<1>1. \A p \in witness : p \in Client \X Client /\ <<p[1], online[p[1]]>> \in Conn
  BY DEF Watches, Live, TypeOK, Conn
<1>2. ASSUME UNCHANGED <<online, session>>, witness' \subseteq witness,
             \A p \in witness' : state'[p[1]] # "off",
             \A c \in Conn : conn[c].pc = "read" => conn'[c].pc = "read"
      PROVE  Watches'
  BY <1>1, <1>2 DEF Watches, Live
<1>3. ASSUME UNCHANGED <<online, session, state, witness>>, NEW c \in Conn,
             \A d \in Conn \ {c} : conn'[d] = conn[d], conn[c].pc = "read" => conn'[c].pc = "read"
      PROVE  Watches'
  <2>1. \A d \in Conn : conn[d].pc = "read" => conn'[d].pc = "read"
    BY <1>3
  <2>2. \A p \in witness' : state'[p[1]] # "off"
    BY <1>3 DEF Watches, Live
  <2>3. QED BY <1>2, <1>3, <2>1, <2>2
<1>4. ASSUME NEW c \in Conn, PeerList(c) PROVE Watches'
  BY <1>3, <1>4, PeerListDoes DEF PeerList
<1>5. ASSUME NEW c \in Conn, NotifyOnline(c) PROVE Watches'
  BY <1>3, <1>5, NotifyOnlineDoes DEF NotifyOnline
<1>6. ASSUME NEW c \in Conn, Send(c) PROVE Watches'
  BY <1>3, <1>6, SendDoes DEF Send
<1>7. ASSUME NEW c \in Conn, NotifyOffline(c) PROVE Watches'
  BY <1>3, <1>7, NotifyOfflineDoes DEF NotifyOffline
<1>8. ASSUME NEW c \in Conn, RemoveDevice(c) PROVE Watches'
  <2>1. UNCHANGED <<session, state>> /\ \A p \in witness' : p \in witness /\ online'[p[1]] # None
    BY <1>8 DEF RemoveDevice
  <2>2. \A p \in witness' : online'[p[1]] = online[p[1]] /\ <<p[1], online[p[1]]>> \in Conn \ {c}
    BY <1>1, <1>8, <2>1, RemoveDeviceDoes
  <2>3. \A d \in Conn \ {c} : conn'[d] = conn[d]
    BY <1>8, RemoveDeviceDoes
  <2>4. ASSUME NEW p \in witness'
        PROVE  Live(p[1])' /\ conn'[<<p[1], online'[p[1]]>>].pc = "read" /\ p[1] # p[2]
    <3>1. Live(p[1]) /\ conn[<<p[1], online[p[1]]>>].pc = "read" /\ p[1] # p[2]
      BY <2>1, <2>4 DEF Watches
    <3>2. QED BY <2>1, <2>2, <2>3, <2>4, <3>1 DEF Live
  <2>5. QED BY <2>4 DEF Watches
<1>9. ASSUME NEW v \in Client, Join(v) PROVE Watches'
  <2> DEFINE c == <<v, session[v] + 1>>
  <2>1. /\ c \in Conn /\ \A d \in Conn \ {c} : conn'[d] = conn[d]
        /\ \A w \in Client \ {v} : online'[w] = online[w] /\ session'[w] = session[w] /\ state'[w] = state[w]
    BY <1>9, JoinDoes
  <2>2. ASSUME NEW w \in Client \ {v}, HasList(w)
        PROVE  Live(w) /\ conn[<<w, online[w]>>].pc = "read"
    BY <2>2 DEF HasList, Live, Begun, Entered
  <2>3. ASSUME NEW w \in Client \ {v}, Live(w), conn[<<w, online[w]>>].pc = "read"
        PROVE  Live(w)' /\ conn'[<<w, online'[w]>>].pc = "read"
    <3>1. <<w, online[w]>> \in Conn \ {c}
      BY <2>3 DEF Live, TypeOK, Conn
    <3>2. QED BY <2>1, <2>3, <3>1 DEF Live
  <2>4. ASSUME NEW p \in witness' PROVE Live(p[1])' /\ conn'[<<p[1], online'[p[1]]>>].pc = "read" /\ p[1] # p[2]
    <3>0. witness' = {q \in witness : v \notin {q[1], q[2]}} \cup {w \in Client \ {v} : HasList(w)} \X {v}
      BY <1>9, Zenon DEF Join
    <3>1. \/ p \in witness /\ v \notin {p[1], p[2]}
          \/ \E w \in Client \ {v} : HasList(w) /\ p = <<w, v>>
      BY <3>0
    <3>2. CASE p \in witness /\ v \notin {p[1], p[2]}
      BY <1>1, <2>3, <3>2 DEF Watches
    <3>3. CASE \E w \in Client \ {v} : HasList(w) /\ p = <<w, v>>
      <4>1. PICK w \in Client \ {v} : HasList(w) /\ p = <<w, v>>
        BY <3>3
      <4>2. p[1] = w /\ p[2] = v
        BY <4>1
      <4>3. QED BY <2>2, <2>3, <4>1, <4>2
    <3>4. QED BY <3>1, <3>2, <3>3
  <2>5. QED BY <2>4 DEF Watches
<1>10. ASSUME NEW v \in Client, Drop(v) \/ Welcomed(v) PROVE Watches'
  <2>1. /\ UNCHANGED <<online, conn, session>> /\ witness' \subseteq witness
        /\ \A p \in witness' : state'[p[1]] = state[p[1]] \/ state'[p[1]] = "up"
    <3>1. CASE Drop(v) \/ (Welcomed(v) /\ Ended(v))
      BY <1>1, <3>1 DEF Drop, Welcomed, Ended, TypeOK
    <3>2. CASE Welcomed(v) /\ ~Ended(v)
      BY <1>1, <3>2 DEF Welcomed, TypeOK
    <3>3. QED BY <1>10, <3>1, <3>2
  <2>2. \A p \in witness' : state'[p[1]] # "off"
    BY <2>1 DEF Watches, Live
  <2>3. QED BY <1>2, <2>1, <2>2
<1>11. ASSUME NEW v \in Client, Arrival(v) \/ Departure(v) PROVE Watches'
  BY <1>11 DEF Arrival, Departure, Reads, Watches, Live
<1>12. CASE Restart
  BY <1>12 DEF Restart, Watches
<1>13. CASE UNCHANGED vars
  BY <1>13 DEF vars, Watches, Live
<1>14. QED
  BY <1>4, <1>5, <1>6, <1>7, <1>8, <1>9, <1>10, <1>11, <1>12, <1>13 DEF Next, ConnStep, ClientStep
(* What is on its way from other goroutines stays on its way.              *)
LEMMA StaysOnItsWay ==
    ASSUME NEW c \in Conn, Len(conn[c].out) = 0, \A d \in Conn \ {c} : conn'[d] = conn[d],
           NEW v \in Client, online'[v] = online[v], NEW w, OnItsWay(v, w)
    PROVE  OnItsWay(v, w)'
<1>1. PICK d \in Conn : \E i \in 1 .. Len(conn[d].out) :
          conn[d].out[i].to = <<v, online[v]>> /\ Comes(conn[d].out[i].msg, w)
  BY DEF OnItsWay
<1>2. d # c
  BY <1>1
<1>3. QED BY <1>1, <1>2 DEF OnItsWay

(* A message for the connection in force reaches the client.               *)
LEMMA SendReaches ==
    ASSUME TypeOK, Entered, NEW c \in Conn, Send(c), NEW v \in Client, Live(v)
    PROVE  LET s == conn[c].out[1]
           IN  /\ s.to = <<v, online[v]>> =>
                    /\ queue'[v] = Append(queue[v], s.msg)
                    /\ s.msg.type = "PeerOffline" =>
                        /\ overtaken \subseteq overtaken'
                        /\ \A w \in s.msg.peers : online[w] # None => <<v, w>> \in overtaken'
                    /\ \A w : <<v, w>> \in overtaken /\ w \notin s.msg.peers => <<v, w>> \in overtaken'
               /\ s.to # <<v, online[v]>> =>
                    /\ queue'[v] = queue[v]
                    /\ \A w : <<v, w>> \in overtaken => <<v, w>> \in overtaken'
<1> DEFINE s == conn[c].out[1]
<1>1. s = Head(conn[c].out) /\ s \in Sent
  BY SendDoes
<1>2. /\ s.to \in Conn /\ s.to[1] \in Client /\ s.to = <<s.to[1], s.to[2]>>
      /\ s.msg \in Message
  BY <1>1 DEF Sent, Conn
<1> HIDE DEF s
<1>3. \/ /\ Reaches(s.to) /\ queue' = [queue EXCEPT ![s.to[1]] = Append(queue[s.to[1]], s.msg)]
         /\ overtaken' = IF s.msg.type = "PeerOffline"
                         THEN overtaken \cup {p \in {s.to[1]} \X s.msg.peers : online[p[2]] # None}
                         ELSE overtaken \ ({s.to[1]} \X s.msg.peers)
      \/ ~Reaches(s.to) /\ UNCHANGED <<queue, overtaken>>
  BY <1>1 DEF Send
<1>4. queue \in [Client -> Seq(Message)]
  BY DEF TypeOK
<1>5. /\ state[v] # "off" /\ online[v] = session[v]
      /\ conn[<<v, online[v]>>].pc \notin {"farewell", "gone"}
  BY DEF Live, Entered
<1>6. CASE s.to = <<v, online[v]>>
  <2>1. s.to[1] = v /\ s.to[2] = online[v]
    BY <1>6
  <2>2. Reaches(s.to)
    BY <1>5, <1>6, <2>1 DEF Reaches
  <2>3. /\ queue' = [queue EXCEPT ![v] = Append(queue[v], s.msg)]
        /\ overtaken' = IF s.msg.type = "PeerOffline"
                        THEN overtaken \cup {p \in {v} \X s.msg.peers : online[p[2]] # None}
                        ELSE overtaken \ ({v} \X s.msg.peers)
    BY <1>3, <2>1, <2>2
  <2>4. queue'[v] = Append(queue[v], s.msg)
    BY <1>4, <2>3
  <2>5. \A w \in s.msg.peers : <<v, w>> \in {v} \X s.msg.peers /\ <<v, w>>[2] = w
    OBVIOUS
  <2>6. QED BY <1>6, <2>3, <2>4, <2>5 DEF s
<1>7. CASE s.to # <<v, online[v]>>
  <2>1. CASE Reaches(s.to)
    <3>1. s.to[1] # v
      BY <1>2, <1>5, <1>7, <2>1 DEF Reaches
    <3>2. queue'[v] = queue[v]
      BY <1>2, <1>3, <1>4, <2>1, <3>1
    <3>3. \A w : <<v, w>> \in overtaken => <<v, w>> \in overtaken'
      BY <1>3, <2>1, <3>1
    <3>4. QED BY <1>7, <3>2, <3>3 DEF s
  <2>2. CASE ~Reaches(s.to)
    BY <1>3, <1>7, <2>2 DEF s
  <2>3. QED BY <2>1, <2>2
<1>8. QED BY <1>6, <1>7

LEMMA ToldStep == TypeOK /\ Entered /\ OutIs /\ Told /\ [Next]_vars => Told'
<1> SUFFICES ASSUME TypeOK, Entered, OutIs, Told, [Next]_vars,
                    NEW v \in Client, NEW w \in Client, v # w, Live(v)', online'[w] # None
             PROVE  WillKnow(v, w)'
  BY DEF Told
<1> USE DEF server, client, history
<1> DEFINE Cv == <<v, online[v]>>
           Cw == <<w, online[w]>>
(* Steps that leave the queues alone and one goroutine's place at most     *)
(* changes, for nobody's worse.                                            *)
<1>1. ASSUME NEW c \in Conn, Len(conn[c].out) = 0, \A d \in Conn \ {c} : conn'[d] = conn[d],
             UNCHANGED <<session, state, queue, known, overtaken>>,
             online'[v] = online[v], online'[w] = online[w],
             Cv = c => conn[c].pc # "list" \/ WillKnow(v, w)',
             Cw = c => conn[c].pc \notin {"list", "announce"} \/ WillKnow(v, w)'
      PROVE  WillKnow(v, w)'
  <2>1. Cv \in Conn /\ Cw \in Conn
    BY <1>1 DEF Live, TypeOK, Conn
  <2>2. WillKnow(v, w)
    BY <1>1 DEF Told, Live
  <2>3. CASE <<v, w>> \in overtaken \/ EndsKnown(queue[v], known[v], w)
    BY <1>1, <2>3 DEF WillKnow
  <2>4. CASE OnItsWay(v, w)
    BY <1>1, <2>4, StaysOnItsWay DEF WillKnow
  <2>5. CASE conn[Cv].pc = "list"
    BY <1>1, <2>1, <2>5 DEF WillKnow
  <2>6. CASE conn[Cw].pc \in {"list", "announce"}
    BY <1>1, <2>1, <2>6 DEF WillKnow
  <2>7. QED BY <2>2, <2>3, <2>4, <2>5, <2>6 DEF WillKnow
<1>2. ASSUME NEW c \in Conn, PeerList(c) PROVE WillKnow(v, w)'
  <2>1. UNCHANGED <<online, session, state, queue, known, overtaken>>
    BY <1>2 DEF PeerList
  <2>2. ASSUME Cv = c PROVE WillKnow(v, w)'
    <3>1. /\ Len(conn'[c].out) = 1
          /\ conn'[c].out[1] = [to |-> c, msg |-> Msg("PeerList", Devices \ {c[1]})]
      BY <1>2, PeerListDoes
    <3>2. w \in Devices \ {c[1]} /\ Cv = <<v, online'[v]>>
      BY <2>1, <2>2 DEF Devices
    <3>3. conn'[c].out[1].to = <<v, online'[v]>> /\ Comes(conn'[c].out[1].msg, w)
      BY <2>2, <3>1, <3>2 DEF Comes, Msg
    <3>4. QED BY <3>1, <3>3 DEF WillKnow, OnItsWay
  <2>3. Cw = c => WillKnow(v, w)'
    BY <1>2, <2>1, PeerListDoes DEF WillKnow
  <2>4. QED BY <1>1, <1>2, <2>1, <2>2, <2>3, PeerListDoes
<1>3. ASSUME NEW c \in Conn, NotifyOnline(c) PROVE WillKnow(v, w)'
  <2>1. UNCHANGED <<online, session, state, queue, known, overtaken>>
    BY <1>3 DEF NotifyOnline
  <2>2. ASSUME Cw = c PROVE WillKnow(v, w)'
    <3>1. Cv # c /\ c[1] = w /\ online[v] # None
      BY <2>1, <2>2 DEF Live
    <3>2. PICK i \in 1 .. Len(conn'[c].out) :
              conn'[c].out[i] = [to |-> <<v, online[v]>>, msg |-> Msg("PeerOnline", {w})]
      BY <1>3, <3>1, NotifyOnlineDoes
    <3>3. conn'[c].out[i].to = <<v, online'[v]>> /\ Comes(conn'[c].out[i].msg, w)
      BY <2>1, <3>2 DEF Comes, Msg
    <3>4. QED BY <3>3 DEF WillKnow, OnItsWay
  <2>3. QED BY <1>1, <1>3, <2>1, <2>2, NotifyOnlineDoes
<1>4. ASSUME NEW c \in Conn, Send(c) PROVE WillKnow(v, w)'
  <2> DEFINE s == conn[c].out[1]
  <2>1. /\ UNCHANGED <<online, session, state, known>>
        /\ \A d \in Conn : conn'[d].pc = conn[d].pc
    BY <1>4, SendDoes DEF Send
  <2>2. Live(v) /\ WillKnow(v, w) /\ Cv \in Conn /\ Cw \in Conn
    BY <2>1 DEF Told, Live, TypeOK, Conn
  <2>3. s \in Sent /\ s.msg \in Message /\ queue[v] \in Seq(Message) /\ 1 \in 1 .. Len(conn[c].out)
    <3>1. s \in Sent /\ Len(conn[c].out) \in Nat \ {0}
      BY <1>4, SendDoes
    <3>2. queue[v] \in Seq(Message)
      BY DEF TypeOK
    <3> HIDE DEF s
    <3>3. QED BY <3>1, <3>2 DEF Sent
  <2>4. ASSUME s.to = Cv, Comes(s.msg, w) PROVE WillKnow(v, w)'
    BY <1>4, <2>1, <2>2, <2>3, <2>4, SendReaches, OneMore DEF WillKnow
  <2>5. ASSUME s.to = Cv, Parts(s.msg, w) PROVE WillKnow(v, w)'
    BY <1>4, <2>1, <2>2, <2>5, SendReaches DEF WillKnow, Parts
  <2>6. ASSUME s.to # Cv \/ (~Comes(s.msg, w) /\ ~Parts(s.msg, w)) PROVE WillKnow(v, w)'
    <3>1. CASE <<v, w>> \in overtaken
      <4>1. s.to = Cv => w \notin s.msg.peers
        <5>1. s.msg.type \in {"PeerList", "PeerOnline", "PeerOffline"} \/ s.msg.peers = {}
          <6>1. Sends(c, s)
            BY <2>3 DEF OutIs
          <6>2. s.msg = Msg("Welcome", {}) => s.msg.peers = {}
            BY DEF Msg
          <6>3. \A S : Msg("PeerOnline", S).type = "PeerOnline" /\ Msg("PeerOffline", S).type = "PeerOffline"
            BY DEF Msg
          <6> HIDE DEF s
          <6>4. QED BY <6>1, <6>2, <6>3 DEF Sends
        <5>2. QED BY <2>6, <5>1 DEF Comes, Parts
      <4>2. QED BY <1>4, <2>2, <3>1, <4>1, SendReaches DEF WillKnow
    <3>2. CASE EndsKnown(queue[v], known[v], w)
      <4>1. EndsKnown(queue'[v], known[v], w)
        BY <1>4, <2>2, <2>3, <2>6, <3>2, SendReaches, OneMore
      <4>2. QED BY <2>1, <4>1 DEF WillKnow
    <3>3. CASE OnItsWay(v, w)
      <4>0. PICK d \in Conn : \E i \in 1 .. Len(conn[d].out) :
                conn[d].out[i].to = Cv /\ Comes(conn[d].out[i].msg, w)
        BY <3>3 DEF OnItsWay
      <4>1. PICK i \in 1 .. Len(conn[d].out) : conn[d].out[i].to = Cv /\ Comes(conn[d].out[i].msg, w)
        BY <4>0
      <4>2. CASE d # c
        <5>1. conn'[d] = conn[d] /\ online'[v] = online[v]
          BY <1>4, <2>1, <4>2, SendDoes
        <5>2. OnItsWay(v, w)'
          BY <4>1, <5>1 DEF OnItsWay
        <5>3. QED BY <5>2 DEF WillKnow
      <4>3. CASE d = c
        <5>1. i # 1
          BY <2>6, <4>1, <4>3
        <5>2. i - 1 \in 1 .. Len(conn'[c].out) /\ conn'[c].out[i - 1] = conn[c].out[i]
          BY <1>4, <4>1, <4>3, <5>1, SendDoes
        <5>3. QED BY <2>1, <4>1, <4>3, <5>2 DEF WillKnow, OnItsWay
      <4>4. QED BY <4>2, <4>3
    <3>4. CASE conn[Cv].pc = "list" \/ conn[Cw].pc \in {"list", "announce"}
      BY <2>1, <2>2, <3>4 DEF WillKnow
    <3>5. QED BY <2>2, <3>1, <3>2, <3>3, <3>4 DEF WillKnow
  <2>7. QED BY <2>4, <2>5, <2>6
<1>5. ASSUME NEW c \in Conn, RemoveDevice(c) PROVE WillKnow(v, w)'
  <2>1. /\ online'[v] = online[v] /\ Cv # c
        /\ online'[w] = online[w] /\ Cw # c
    BY <1>5, RemoveDeviceDoes DEF Live
  <2>2. UNCHANGED <<session, state, queue, known, overtaken>>
    BY <1>5 DEF RemoveDevice
  <2>3. QED BY <1>1, <1>5, <2>1, <2>2, RemoveDeviceDoes
<1>6. ASSUME NEW c \in Conn, NotifyOffline(c) PROVE WillKnow(v, w)'
  <2>1. UNCHANGED <<online, session, state, queue, known, overtaken>>
    BY <1>6 DEF NotifyOffline
  <2>2. QED BY <1>1, <1>6, <2>1, NotifyOfflineDoes
<1>7. ASSUME NEW x \in Client, Join(x) PROVE WillKnow(v, w)'
  <2> DEFINE c == <<x, session[x] + 1>>
  <2>1. /\ c \in Conn /\ conn[c] = Idle /\ conn'[c].pc = "list"
        /\ \A d \in Conn \ {c} : conn'[d] = conn[d]
        /\ online'[x] = session[x] + 1
        /\ \A u \in Client \ {x} : online'[u] = online[u] /\ session'[u] = session[u] /\ state'[u] = state[u]
    BY <1>7, JoinDoes
  <2>2. CASE x = v
    BY <2>1, <2>2 DEF WillKnow
  <2>3. CASE x = w
    BY <2>1, <2>3 DEF WillKnow
  <2>4. CASE x # v /\ x # w
    <3>1. UNCHANGED <<queue, known, overtaken>>
      BY <1>7, Zenon DEF Join
    <3>2. conn[c].pc = "none" /\ Len(conn[c].out) = 0 /\ Cv # c /\ Cw # c
      BY <2>1, <2>4 DEF Idle
    <3>3. WillKnow(v, w)
      BY <2>1, <2>4 DEF Told, Live
    <3>4. Cv \in Conn /\ Cw \in Conn /\ online'[v] = online[v] /\ online'[w] = online[w]
      BY <2>1, <2>4 DEF Live, TypeOK, Conn
    <3>5. OnItsWay(v, w) => OnItsWay(v, w)'
      BY <2>1, <3>2, <3>4, StaysOnItsWay
    <3>6. conn'[Cv] = conn[Cv] /\ conn'[Cw] = conn[Cw]
      BY <2>1, <3>2, <3>4
    <3>7. QED BY <3>1, <3>3, <3>4, <3>5, <3>6 DEF WillKnow
  <2>5. QED BY <2>2, <2>3, <2>4
<1>8. ASSUME UNCHANGED <<online, conn, session, overtaken>>, Live(v),
             EndsKnown(queue[v], known[v], w) => EndsKnown(queue'[v], known'[v], w)
      PROVE  WillKnow(v, w)'
  <2>1. WillKnow(v, w)
    BY <1>8 DEF Told
  <2>2. OnItsWay(v, w) => OnItsWay(v, w)'
    BY <1>8 DEF OnItsWay
  <2>3. QED BY <1>8, <2>1, <2>2 DEF WillKnow
<1>9. ASSUME NEW x \in Client, Drop(x) \/ Welcomed(x) PROVE WillKnow(v, w)'
  <2>1. UNCHANGED <<online, conn, session, known, overtaken>>
    BY <1>9 DEF Drop, Welcomed
  <2>2. CASE Ended(x)
    <3>1. x # v /\ state'[v] = state[v] /\ queue'[v] = queue[v]
      BY <2>2 DEF Ended, Live, TypeOK
    <3>2. QED BY <1>8, <2>1, <3>1 DEF Live
  <2>3. CASE ~Ended(x)
    <3>1. /\ Welcomed(x) /\ state[x] = "wait" /\ queue[x] # <<>> /\ Head(queue[x]).type = "Welcome"
          /\ state' = [state EXCEPT ![x] = "up"] /\ queue' = [queue EXCEPT ![x] = Tail(queue[x])]
      BY <1>9, <2>3 DEF Drop, Welcomed
    <3>2. Live(v)
      BY <2>1, <3>1 DEF Live, TypeOK
    <3>3. EndsKnown(queue[v], known[v], w) => EndsKnown(queue'[v], known'[v], w)
      <4>1. CASE x = v
        <5>1. queue'[v] = Tail(queue[v]) /\ known'[v] = known[v] /\ queue[v] \in Seq(Message)
          BY <2>1, <3>1, <4>1 DEF TypeOK
        <5>2. QED BY <3>1, <4>1, <5>1, OneRead DEF Comes
      <4>2. CASE x # v
        BY <2>1, <3>1, <4>2 DEF TypeOK
      <4>3. QED BY <4>1, <4>2
    <3>4. QED BY <1>8, <2>1, <3>2, <3>3
  <2>4. QED BY <2>2, <2>3
<1>10. ASSUME NEW x \in Client, Arrival(x) \/ Departure(x) PROVE WillKnow(v, w)'
  <2>1. /\ UNCHANGED <<online, conn, session, state, overtaken>> /\ queue[x] # <<>>
        /\ queue' = [queue EXCEPT ![x] = Tail(queue[x])]
        /\ \/ /\ Head(queue[x]).type \in {"PeerList", "PeerOnline"}
              /\ known' = [known EXCEPT ![x] = known[x] \cup Head(queue[x]).peers]
           \/ /\ Head(queue[x]).type = "PeerOffline"
              /\ known' = [known EXCEPT ![x] = known[x] \ Head(queue[x]).peers]
    BY <1>10 DEF Arrival, Departure, Reads
  <2>2. CASE x # v
    BY <1>8, <2>1, <2>2 DEF TypeOK, Live
  <2>3. CASE x = v
    <3> DEFINE m == Head(queue[v])
    <3>1. queue'[v] = Tail(queue[v]) /\ queue[v] \in Seq(Message) /\ queue[v] # <<>>
      BY <2>1, <2>3 DEF TypeOK
    <3>2. \/ m.type \in {"PeerList", "PeerOnline"} /\ known'[v] = known[v] \cup m.peers
          \/ m.type = "PeerOffline" /\ known'[v] = known[v] \ m.peers
      BY <2>1, <2>3 DEF TypeOK
    <3>3. Comes(m, w) => w \in known'[v]
      BY <3>2 DEF Comes
    <3>4. w \in known[v] => w \in known'[v] \/ Parts(m, w)
      BY <3>2 DEF Parts
    <3>5. EndsKnown(queue[v], known[v], w) => EndsKnown(queue'[v], known'[v], w)
      BY <3>1, <3>3, <3>4, OneRead
    <3>6. QED BY <1>8, <2>1, <3>5 DEF Live
  <2>4. QED BY <2>2, <2>3
<1>11. ASSUME Restart PROVE FALSE
  BY <1>11 DEF Restart
<1>12. CASE UNCHANGED vars
  BY <1>8, <1>12 DEF vars, Live
<1>13. QED
  BY <1>2, <1>3, <1>4, <1>5, <1>6, <1>7, <1>9, <1>10, <1>11, <1>12 DEF Next, ConnStep, ClientStep
LEMMA FarewellsStep ==
    TypeOK /\ Entered /\ OutIs /\ Watches /\ Farewells /\ [Next]_vars => Farewells'
<1> SUFFICES ASSUME TypeOK, Entered, OutIs, Watches, Farewells, [Next]_vars, NEW p \in witness'
             PROVE  \/ \E k \in Session : Owes(<<p[2], k>>, p[1])'
                    \/ EndsForgotten(queue[p[1]], known[p[1]], p[2])'
  BY DEF Farewells
<1> USE DEF server, client, history
<1> DEFINE v == p[1]
           w == p[2]
           Good == \/ \E k \in Session : Owes(<<w, k>>, v)'
                   \/ EndsForgotten(queue[v], known[v], w)'
<1>1. ASSUME p \in witness
      PROVE  /\ v \in Client /\ w \in Client /\ v # w /\ Live(v) /\ <<v, online[v]>> \in Conn
             /\ conn[<<v, online[v]>>].pc = "read"
             /\ (\E k \in Session : Owes(<<w, k>>, v)) \/ EndsForgotten(queue[v], known[v], w)
             /\ \A k \in Session : <<w, k>> \in Conn
  BY <1>1 DEF Watches, Farewells, Live, TypeOK, Conn
(* A step of one goroutine, which goes on owing what it owed.              *)
<1>2. ASSUME p \in witness, UNCHANGED <<queue, known>>, online'[v] = online[v],
             NEW c \in Conn, \A d \in Conn \ {c} : conn'[d] = conn[d],
             c[1] = w /\ Owes(c, v) => Owes(c, v)'
      PROVE  Good
  <2>1. CASE EndsForgotten(queue[v], known[v], w)
    BY <1>2, <2>1
  <2>2. CASE \E k \in Session : Owes(<<w, k>>, v)
    <3>1. PICK k \in Session : Owes(<<w, k>>, v)
      BY <2>2
    <3>2. <<w, k>> \in Conn /\ <<w, k>>[1] = w
      BY <1>1, <1>2
    <3>3. CASE <<w, k>> = c
      BY <1>2, <3>1, <3>2, <3>3
    <3>4. CASE <<w, k>> # c
      <4>1. conn'[<<w, k>>] = conn[<<w, k>>]
        BY <1>2, <3>2, <3>4
      <4>2. Owes(<<w, k>>, v)'
        BY <1>2, <3>1, <4>1 DEF Owes
      <4>3. QED BY <4>2
    <3>5. QED BY <3>3, <3>4
  <2>3. QED BY <1>1, <1>2, <2>1, <2>2
<1>3. ASSUME NEW c \in Conn, PeerList(c) PROVE Good
  <2>1. UNCHANGED <<online, queue, known, witness>>
    BY <1>3 DEF PeerList
  <2>2. QED BY <1>2, <1>3, <2>1, PeerListDoes DEF Owes
<1>4. ASSUME NEW c \in Conn, NotifyOnline(c) PROVE Good
  <2>1. UNCHANGED <<online, queue, known, witness>>
    BY <1>4 DEF NotifyOnline
  <2>2. QED BY <1>2, <1>4, <2>1, NotifyOnlineDoes DEF Owes
<1>5. ASSUME NEW c \in Conn, NotifyOffline(c) PROVE Good
  <2>1. UNCHANGED <<online, queue, known, witness>>
    BY <1>5 DEF NotifyOffline
  <2>2. ASSUME c[1] = w PROVE Owes(c, v)'
    <3>1. PICK i \in 1 .. Len(conn'[c].out) :
              conn'[c].out[i] = [to |-> <<v, online[v]>>, msg |-> Msg("PeerOffline", {c[1]})]
      BY <1>1, <1>5, <2>1, NotifyOfflineDoes DEF Live
    <3>2. conn'[c].out[i].to = <<v, online'[v]>> /\ Parts(conn'[c].out[i].msg, c[1])
      BY <2>1, <3>1 DEF Parts, Msg
    <3>3. QED BY <3>2 DEF Owes
  <2>3. QED BY <1>2, <1>5, <2>1, <2>2, NotifyOfflineDoes
<1>6. ASSUME NEW c \in Conn, RemoveDevice(c) PROVE Good
  <2>1. UNCHANGED <<queue, known>> /\ p \in witness /\ online'[v] # None
    BY <1>6 DEF RemoveDevice
  <2>2. online'[v] = online[v]
    BY <1>1, <1>6, <2>1, RemoveDeviceDoes
  <2>3. QED BY <1>2, <1>6, <2>1, <2>2, RemoveDeviceDoes DEF Owes
<1>7. ASSUME NEW c \in Conn, Send(c) PROVE Good
  <2> DEFINE s == conn[c].out[1]
  <2>1. UNCHANGED <<online, known, witness>>
    BY <1>7 DEF Send
  <2>2. /\ v \in Client /\ w \in Client /\ Live(v) /\ conn[<<v, online[v]>>].pc = "read"
        /\ (\E k \in Session : Owes(<<w, k>>, v)) \/ EndsForgotten(queue[v], known[v], w)
        /\ \A k \in Session : <<w, k>> \in Conn
    BY <1>1, <2>1
  <2>3. s \in Sent /\ Len(conn[c].out) \in Nat \ {0} /\ queue[v] \in Seq(Message)
    <3>1. s \in Sent /\ Len(conn[c].out) \in Nat \ {0}
      BY <1>7, SendDoes
    <3>2. queue[v] \in Seq(Message)
      BY <2>2 DEF TypeOK
    <3>3. QED BY <3>1, <3>2
  <2>4. s.msg \in Message /\ Sends(c, s)
    <3>1. Sends(c, s)
      BY <2>3 DEF OutIs
    <3> HIDE DEF s
    <3>2. QED BY <2>3, <3>1 DEF Sent
  <2>5. ASSUME s.to = <<v, online[v]>>, Parts(s.msg, w) PROVE Good
    <3>1. queue'[v] = Append(queue[v], s.msg)
      BY <1>7, <2>2, <2>5, SendReaches
    <3>2. EndsForgotten(queue'[v], known[v], w)
      BY <2>3, <2>4, <2>5, <3>1, OneMore
    <3>3. QED BY <2>1, <3>2
  <2>6. ASSUME NEW k \in Session, Owes(<<w, k>>, v) PROVE Good
    <3>1. <<w, k>> \in Conn /\ <<w, k>>[1] = w /\ conn'[<<w, k>>].pc = conn[<<w, k>>].pc
      BY <1>7, <2>2, SendDoes
    <3>2. CASE conn[<<w, k>>].pc \in {"list", "announce", "read", "farewell"}
      BY <3>1, <3>2 DEF Owes
    <3>3. CASE \E i \in 1 .. Len(conn[<<w, k>>].out) :
                  conn[<<w, k>>].out[i].to = <<v, online[v]>> /\ Parts(conn[<<w, k>>].out[i].msg, w)
      <4>1. PICK i \in 1 .. Len(conn[<<w, k>>].out) :
                  conn[<<w, k>>].out[i].to = <<v, online[v]>> /\ Parts(conn[<<w, k>>].out[i].msg, w)
        BY <3>3
      <4>2. CASE <<w, k>> # c
        <5>1. conn'[<<w, k>>] = conn[<<w, k>>] /\ online'[v] = online[v]
          BY <1>7, <2>1, <3>1, <4>2, SendDoes
        <5>2. Owes(<<w, k>>, v)'
          BY <3>1, <4>1, <5>1 DEF Owes
        <5>3. QED BY <5>2
      <4>3. CASE <<w, k>> = c /\ i # 1
        <5>1. i - 1 \in 1 .. Len(conn'[c].out) /\ conn'[c].out[i - 1] = conn[c].out[i]
          BY <1>7, <4>1, <4>3, SendDoes
        <5>2. Owes(c, v)'
          BY <2>1, <3>1, <4>1, <4>3, <5>1 DEF Owes
        <5>3. QED BY <4>3, <5>2
      <4>4. CASE <<w, k>> = c /\ i = 1
        BY <2>5, <4>1, <4>4
      <4>5. QED BY <4>2, <4>3, <4>4
    <3>4. QED BY <2>6, <3>1, <3>2, <3>3 DEF Owes
  <2>7. ASSUME EndsForgotten(queue[v], known[v], w), s.to = <<v, online[v]>> => ~Comes(s.msg, w)
        PROVE  Good
    <3>1. EndsForgotten(queue'[v], known[v], w)
      BY <1>7, <2>2, <2>3, <2>4, <2>7, SendReaches, OneMore
    <3>2. QED BY <2>1, <3>1
  <2>8. ASSUME s.to = <<v, online[v]>>, Comes(s.msg, w) PROVE Good
    <3>1. /\ s.to = c => conn[c].pc = "read"
          /\ Msg("Welcome", {}).type = "Welcome"
          /\ Msg("PeerOffline", {c[1]}).type = "PeerOffline"
      BY <2>2, <2>8 DEF Msg
    <3>2. conn[c].pc = "read" /\ s.msg = Msg("PeerOnline", {c[1]})
      <4> HIDE DEF s
      <4>1. QED BY <2>4, <2>8, <3>1 DEF Sends, Comes
    <3>3. c[1] = w
      BY <2>8, <3>2 DEF Comes, Msg
    <3>4. c = <<w, c[2]>> /\ c[2] \in Session
      BY <3>3 DEF Conn
    <3>5. conn'[c].pc = "read"
      BY <1>7, <3>2, SendDoes
    <3>6. Owes(<<w, c[2]>>, v)'
      BY <3>4, <3>5 DEF Owes
    <3>7. QED BY <3>4, <3>6
  <2>9. QED BY <2>2, <2>6, <2>7, <2>8
<1>8. ASSUME NEW x \in Client, Join(x) PROVE Good
  <2> DEFINE c == <<x, session[x] + 1>>
  <2>1. /\ c \in Conn /\ conn[c] = Idle /\ conn'[c].pc = "list" /\ session[x] + 1 \in Session
        /\ \A d \in Conn \ {c} : conn'[d] = conn[d]
        /\ \A u \in Client \ {x} : online'[u] = online[u]
    BY <1>8, JoinDoes
  <2>2. /\ witness' = {q \in witness : x \notin {q[1], q[2]}} \cup {u \in Client \ {x} : HasList(u)} \X {x}
        /\ UNCHANGED <<queue, known>>
    BY <1>8, Zenon DEF Join
  <2>3. CASE p \in witness /\ x \notin {p[1], p[2]}
    <3>1. online'[v] = online[v] /\ c[1] # w
      BY <1>1, <2>1, <2>3
    <3>2. QED BY <1>2, <2>1, <2>2, <2>3, <3>1
  <2>4. CASE p \in {u \in Client \ {x} : HasList(u)} \X {x}
    <3>1. w = x
      BY <2>4
    <3>2. PICK k \in Session : k = session[x] + 1
      BY <2>1
    <3>3. Owes(<<w, k>>, v)'
      BY <2>1, <3>1, <3>2 DEF Owes
    <3>4. QED BY <3>3
  <2>5. QED BY <2>2, <2>3, <2>4
<1>9. ASSUME UNCHANGED <<online, conn>>, p \in witness,
             EndsForgotten(queue[v], known[v], w) => EndsForgotten(queue'[v], known'[v], w)
      PROVE  Good
  <2>1. \A k \in Session : Owes(<<w, k>>, v) => Owes(<<w, k>>, v)'
    BY <1>9 DEF Owes
  <2>2. QED BY <1>1, <1>9, <2>1
<1>10. ASSUME NEW x \in Client, Drop(x) \/ Welcomed(x) PROVE Good
  <2>1. UNCHANGED <<online, conn, known>>
    BY <1>10 DEF Drop, Welcomed
  <2>2. CASE Ended(x)
    <3>1. x # v /\ p \in witness
      BY <2>2 DEF Ended
    <3>2. queue'[v] = queue[v]
      BY <1>1, <2>2, <3>1 DEF Ended, TypeOK
    <3>3. QED BY <1>9, <2>1, <3>1, <3>2
  <2>3. CASE ~Ended(x)
    <3>1. /\ queue[x] # <<>> /\ Head(queue[x]).type = "Welcome" /\ p \in witness
          /\ queue' = [queue EXCEPT ![x] = Tail(queue[x])]
      BY <1>10, <2>3 DEF Drop, Welcomed
    <3>2. v \in Client /\ queue \in [Client -> Seq(Message)]
      BY <1>1, <3>1 DEF TypeOK
    <3>3. EndsForgotten(queue[v], known[v], w) => EndsForgotten(queue'[v], known'[v], w)
      <4>1. CASE x = v
        <5>1. queue'[v] = Tail(queue[v]) /\ known'[v] = known[v] /\ queue[v] \in Seq(Message)
          BY <2>1, <3>1, <3>2, <4>1
        <5>2. QED BY <3>1, <4>1, <5>1, OneRead DEF Parts
      <4>2. CASE x # v
        BY <2>1, <3>1, <3>2, <4>2
      <4>3. QED BY <4>1, <4>2
    <3>4. QED BY <1>9, <2>1, <3>1, <3>3
  <2>4. QED BY <2>2, <2>3
<1>11. ASSUME NEW x \in Client, Arrival(x) \/ Departure(x) PROVE Good
  <2>1. /\ UNCHANGED <<online, conn, witness>> /\ queue[x] # <<>>
        /\ queue' = [queue EXCEPT ![x] = Tail(queue[x])]
        /\ \/ /\ Head(queue[x]).type \in {"PeerList", "PeerOnline"}
              /\ known' = [known EXCEPT ![x] = known[x] \cup Head(queue[x]).peers]
           \/ /\ Head(queue[x]).type = "PeerOffline"
              /\ known' = [known EXCEPT ![x] = known[x] \ Head(queue[x]).peers]
    BY <1>11 DEF Arrival, Departure, Reads
  <2>2. v \in Client /\ queue \in [Client -> Seq(Message)] /\ known \in [Client -> SUBSET Client]
    BY <1>1, <2>1 DEF TypeOK
  <2>3. CASE x # v
    BY <1>9, <2>1, <2>2, <2>3
  <2>4. CASE x = v
    <3> DEFINE m == Head(queue[v])
    <3>1. queue'[v] = Tail(queue[v]) /\ queue[v] \in Seq(Message) /\ queue[v] # <<>>
      BY <2>1, <2>2, <2>4
    <3>2. \/ m.type \in {"PeerList", "PeerOnline"} /\ known'[v] = known[v] \cup m.peers
          \/ m.type = "PeerOffline" /\ known'[v] = known[v] \ m.peers
      BY <2>1, <2>2, <2>4
    <3>3. Parts(m, w) => w \notin known'[v]
      BY <3>2 DEF Parts
    <3>4. w \in known'[v] => w \in known[v] \/ Comes(m, w)
      BY <3>2 DEF Comes
    <3>5. EndsForgotten(queue[v], known[v], w) => EndsForgotten(queue'[v], known'[v], w)
      BY <3>1, <3>3, <3>4, OneRead
    <3>6. QED BY <1>9, <2>1, <3>5
  <2>5. QED BY <2>3, <2>4
<1>12. ASSUME Restart PROVE FALSE
  BY <1>12 DEF Restart
<1>13. CASE UNCHANGED vars
  BY <1>9, <1>13 DEF vars
<1>14. QED
  BY <1>3, <1>4, <1>5, <1>6, <1>7, <1>8, <1>10, <1>11, <1>12, <1>13 DEF Next, ConnStep, ClientStep

-----------------------------------------------------------------------------
(* The theorems.                                                           *)

LEMMA InvInit == Init => IInv
<1> SUFFICES ASSUME Init PROVE IInv
  OBVIOUS
<1>1. Idle \in ConnRec
  BY MsgTypes
<1>2. TypeOK
  BY <1>1 DEF Init, TypeOK, ConnRec, Sent
<1>3. OutIs
  BY DEF Init, Idle, OutIs
<1>4. QED BY <1>2, <1>3 DEF Init, IInv, Entered, Begun, Watches, Told, Live, Farewells

LEMMA InvStep == IInv /\ [Next]_vars => IInv'
BY Types, EnteredStep, OutIsStep, BegunStep, WatchesStep, ToldStep, FarewellsStep DEF IInv

(* The inductive invariant.                                                *)
THEOREM Invariant == Spec => []IInv
BY InvInit, InvStep, PTL DEF Spec

(* The server's tables and the clients' have the types of the code.        *)
THEOREM TypeCorrect == Spec => []TypeOK
<1>1. IInv => TypeOK
  BY DEF IInv
<1>2. QED BY Invariant, <1>1, PTL

(* However the look-ups and sends of joining and leaving devices           *)
(* interleave (peerList and notifyOnline in server.go), and however often  *)
(* the server starts anew: once nothing is on its way, every device that   *)
(* is connected knows every other, but for those that a late farewell of   *)
(* an earlier connection has reported gone.                                *)
THEOREM NobodySlipsThrough == Spec => []EveryoneKnown
<1>1. IInv => EveryoneKnown
  <2> SUFFICES ASSUME IInv, Quiet, NEW v \in Client, NEW w \in Client, v # w,
                      Connected(v), Connected(w), <<v, w>> \notin overtaken
               PROVE  w \in known[v]
    BY DEF EveryoneKnown
  <2>1. Live(v) /\ online[w] # None
    BY DEF IInv, Begun, Connected, Live
  <2>2. WillKnow(v, w)
    BY <2>1 DEF IInv, Told
  <2>3. /\ conn[<<v, online[v]>>].pc = "read" /\ conn[<<w, online[w]>>].pc = "read"
    BY DEF Connected, At
  <2>4. ~OnItsWay(v, w)
    BY DEF Quiet, OnItsWay
  <2>5. EndsKnown(queue[v], known[v], w)
    BY <2>2, <2>3, <2>4 DEF WillKnow
  <2>6. queue[v] = <<>>
    BY DEF Quiet
  <2>7. QED BY <2>5, <2>6 DEF EndsKnown
<1>2. QED BY Invariant, <1>1, PTL

(* Arrivals and departures are never seen in the wrong order: who had its  *)
(* list when a device came, and is connected since, does not go on knowing *)
(* it when it has left (notifyOffline in server.go).                       *)
THEOREM DeparturesHeard == Spec => []GoneForgotten
<1>1. IInv => GoneForgotten
  <2> SUFFICES ASSUME IInv, Quiet, NEW p \in witness, Connected(p[1]), Over(p[2])
               PROVE  p[2] \notin known[p[1]]
    BY DEF GoneForgotten
  <2>1. p[1] \in Client /\ p[2] \in Client
    BY DEF IInv, TypeOK
  <2>2. ASSUME NEW k \in Session PROVE ~Owes(<<p[2], k>>, p[1])
    <3>1. <<p[2], k>> \in Conn /\ <<p[2], k>> \in {p[2]} \X Session
      BY <2>1 DEF Conn
    <3>2. conn[<<p[2], k>>].pc \in {"none", "gone"} /\ conn[<<p[2], k>>].out = <<>>
      BY <3>1 DEF Over, Quiet
    <3>3. QED BY <3>2 DEF Owes
  <2>3. EndsForgotten(queue[p[1]], known[p[1]], p[2])
    BY <2>2 DEF IInv, Farewells
  <2>4. queue[p[1]] = <<>>
    BY <2>1 DEF Quiet
  <2>5. QED BY <2>3, <2>4 DEF EndsForgotten
<1>2. QED BY Invariant, <1>1, PTL
=============================================================================
