-------------------------- MODULE HolePunchProofs ---------------------------
(***************************************************************************)
(* Proofs about hole punching, for any clients, whichever of them punch,   *)
(* any number of connections, and every interleaving of the server's       *)
(* goroutines, the clients' loops, timers and packets, and restarts.       *)
(***************************************************************************)
EXTENDS HolePunch, SequenceTheorems, TLAPS

Of(m, T, w) == m.type \in T /\ w \in m.peers
Parts(m, w) == Of(m, {"PeerOffline"}, w)

(* Whether w will be in a set that is K now, when the messages q have been *)
(* read: a message of type T about w puts it there, PeerOffline takes it   *)
(* out.                                                                    *)
Ends(q, K, T, w) ==
    \/ w \in K /\ \A j \in 1 .. Len(q) : ~Parts(q[j], w)
    \/ \E i \in 1 .. Len(q) : Of(q[i], T, w) /\ \A j \in i + 1 .. Len(q) : ~Parts(q[j], w)

(* One more message.                                                       *)
LEMMA OneMore ==
    ASSUME NEW q \in Seq(Message), NEW m \in Message, NEW K, NEW T, NEW w
    PROVE  /\ Of(m, T, w) => Ends(Append(q, m), K, T, w)
           /\ Ends(q, K, T, w) /\ ~Parts(m, w) => Ends(Append(q, m), K, T, w)
<1> DEFINE n == Len(q)
           Q == Append(q, m)
<1>1. /\ n \in Nat /\ Len(Q) = n + 1 /\ Q[n + 1] = m
      /\ \A i \in 1 .. n : Q[i] = q[i]
  OBVIOUS
<1> HIDE DEF n, Q
<1> USE <1>1
<1>2. Of(m, T, w) => Ends(Q, K, T, w)
  BY DEF Ends
<1>3. ASSUME Ends(q, K, T, w), ~Parts(m, w) PROVE Ends(Q, K, T, w)
  <2>1. CASE w \in K /\ \A j \in 1 .. n : ~Parts(q[j], w)
    BY <1>3, <2>1 DEF Ends
  <2>2. CASE \E i \in 1 .. n : Of(q[i], T, w) /\ \A j \in i + 1 .. n : ~Parts(q[j], w)
    <3>1. PICK i \in 1 .. n : Of(q[i], T, w) /\ \A j \in i + 1 .. n : ~Parts(q[j], w)
      BY <2>2
    <3>2. i \in 1 .. Len(Q) /\ Of(Q[i], T, w) /\ \A j \in i + 1 .. Len(Q) : ~Parts(Q[j], w)
      BY <1>3, <3>1
    <3>3. QED BY <3>2 DEF Ends
  <2>3. QED BY <1>3, <2>1, <2>2 DEF Ends, n
<1>4. QED BY <1>2, <1>3 DEF Q

(* The first message is read.                                              *)
LEMMA OneRead ==
    ASSUME NEW q \in Seq(Message), q # <<>>, NEW K, NEW L, NEW T, NEW w,
           Ends(q, K, T, w),
           Of(Head(q), T, w) => w \in L,
           w \in K => w \in L \/ Parts(Head(q), w)
    PROVE  Ends(Tail(q), L, T, w)
<1> DEFINE n == Len(q)
           R == Tail(q)
<1>1. /\ n \in Nat \ {0} /\ Len(R) = n - 1 /\ Head(q) = q[1]
      /\ \A i \in 1 .. n - 1 : R[i] = q[i + 1]
  BY HeadTailProperties, EmptySeq
<1>2. \A i \in 2 .. n : i - 1 \in 1 .. n - 1 /\ R[i - 1] = q[i]
  BY <1>1
<1> HIDE DEF n, R
<1> USE <1>1, <1>2
<1>3. ASSUME w \in K, \A j \in 1 .. n : ~Parts(q[j], w) PROVE Ends(R, L, T, w)
  BY <1>3 DEF Ends
<1>4. ASSUME NEW i \in 1 .. n, Of(q[i], T, w), \A j \in i + 1 .. n : ~Parts(q[j], w)
      PROVE  Ends(R, L, T, w)
  <2>1. CASE i = 1
    BY <1>4, <2>1 DEF Ends
  <2>2. CASE i # 1
    <3>1. i - 1 \in 1 .. Len(R) /\ Of(R[i - 1], T, w)
      BY <1>4, <2>2
    <3>2. \A j \in (i - 1) + 1 .. Len(R) : ~Parts(R[j], w)
      BY <1>4, <2>2
    <3>3. QED BY <3>1, <3>2 DEF Ends
  <2>3. QED BY <2>1, <2>2
<1>5. QED BY <1>3, <1>4 DEF Ends, n, R

(* What is in a set now and loses nobody but by a PeerOffline.             *)
LEMMA Grows ==
    ASSUME NEW q, NEW K, NEW L, NEW T, NEW w, K \subseteq L, Ends(q, K, T, w)
    PROVE  Ends(q, L, T, w)
BY DEF Ends

(* Some message of type T is about w.                                      *)
Has(q, T, w) == \E i \in 1 .. Len(q) : Of(q[i], T, w)

LEMMA HasMore ==
    ASSUME NEW q \in Seq(Message), NEW m \in Message, NEW T, NEW w
    PROVE  Has(q, T, w) \/ Of(m, T, w) => Has(Append(q, m), T, w)
<1>1. /\ Len(q) \in Nat /\ Len(Append(q, m)) = Len(q) + 1 /\ Append(q, m)[Len(q) + 1] = m
      /\ \A i \in 1 .. Len(q) : Append(q, m)[i] = q[i]
  OBVIOUS
<1>2. QED BY <1>1 DEF Has

LEMMA HasRead ==
    ASSUME NEW q \in Seq(Message), q # <<>>, NEW T, NEW w
    PROVE  Has(q, T, w) => Of(Head(q), T, w) \/ Has(Tail(q), T, w)
<1>1. /\ Len(q) \in Nat \ {0} /\ Len(Tail(q)) = Len(q) - 1 /\ Head(q) = q[1]
      /\ \A i \in 1 .. Len(q) - 1 : Tail(q)[i] = q[i + 1]
  BY HeadTailProperties, EmptySeq
<1>2. \A i \in 2 .. Len(q) : i - 1 \in 1 .. Len(Tail(q)) /\ Tail(q)[i - 1] = q[i]
  BY <1>1
<1>3. QED BY <1>1, <1>2 DEF Has

-----------------------------------------------------------------------------
(* The inductive invariant.                                                *)

(* A HoleNotify is about one peer and has its address.                     *)
Legal  == {m \in Message : m.type = "HoleNotify" =>
                              m.addr # None /\ \E x \in Client : m.peers = {x}}
Answer == {m \in Legal : m.type \in {"HoleNotify", "Error"}}
Sent   == [to : Conn, msg : Answer]

Legible ==
    /\ queue \in [Client -> Seq(Legal)]
    /\ out \in [Conn -> Seq(Sent)]

(* The server serves the connection that has the address of a device, and  *)
(* records no packets of devices that are not online; a session that goes  *)
(* on has begun.                                                           *)
Entered ==
    \A v \in Client :
        /\ online[v] # None => <<v, online[v]>> \in serving
        /\ udpAddr[v] # None => online[v] # None
        /\ v \in up => session[v] # None

Live(v) == v \in up /\ online[v] = session[v]

News      == {"PeerList", "PeerOnline", "HoleNotify"}
Asking    == {"PeerList", "PeerOnline", "Error"}
KnownIn(P, v) == {w \in Client : P[v][w].known}
CandIn(P, v)  == {w \in Client : P[v][w].cand # None}
Knows(v)   == KnownIn(peers, v)
HasCand(v) == CandIn(peers, v)

(* A retry asks again only for a peer that is known.                       *)
WillKnow(v, w) == Ends(queue[v], Knows(v), News, w)

WillAsk(v, w) ==
    \/ w \in requests[v] \cup retry[v]
    \/ Has(queue[v], Asking, w)
Answering(v, w) ==
    \E i \in 1 .. Len(out[<<v, online[v]>>]) :
        LET s == out[<<v, online[v]>>][i] IN s.to = <<v, online[v]>> /\ w \in s.msg.peers
WillFind(v, w) ==
    \/ Ends(queue[v], HasCand(v), {"HoleNotify"}, w)
    \/ WillAsk(v, w)
    \/ Answering(v, w)

Sought ==
    \A v \in Punching : \A w \in Client \ {v} :
        Live(v) /\ online[w] # None /\ <<v, w>> \notin overtaken
            => WillKnow(v, w) /\ WillFind(v, w)

IInv == TypeOK /\ Legible /\ Entered /\ Sought

-----------------------------------------------------------------------------
(* Types.                                                                  *)

LEMMA SeqOf ==
    ASSUME NEW S, NEW T, S \subseteq T, NEW q \in Seq(S)
    PROVE  q \in Seq(T)
<1>1. /\ Len(q) \in Nat /\ \A i \in 1 .. Len(q) : q[i] \in T
      /\ q = [i \in 1 .. Len(q) |-> q[i]]
  OBVIOUS
<1>2. QED BY <1>1, IsASeq

LEMMA LegalIs ==
    /\ Answer \subseteq Legal /\ Legal \subseteq Message /\ Seq(Legal) \subseteq Seq(Message)
    /\ \A m \in Message : m.peers \subseteq Client /\ m.addr \in Addr
    /\ \A s \in Sent : s.to \in Conn /\ s.msg \in Answer
    /\ \A q \in Seq(Sent) : q \in Seq([to : Conn, msg : Message])
<1>1. Legal \subseteq Message
  BY DEF Legal
<1>2. \A q \in Seq(Legal) : q \in Seq(Message)
  BY <1>1, SeqOf
<1>3. Sent \subseteq [to : Conn, msg : Message]
  BY <1>1 DEF Answer, Sent
<1>4. \A q \in Seq(Sent) : q \in Seq([to : Conn, msg : Message])
  BY <1>3, SeqOf
<1>5. QED BY <1>1, <1>2, <1>4 DEF Answer, Message, Sent

LEMMA MsgIs ==
    ASSUME NEW t \in {"PeerList", "PeerOnline", "PeerOffline", "Error"}, NEW S \in SUBSET Client
    PROVE  Msg(t, S) \in Legal /\ Msg(t, S).type = t /\ Msg(t, S).peers = S
<1>1. Msg(t, S) \in Message /\ Msg(t, S).type = t /\ Msg(t, S).peers = S
  BY DEF Msg, Message, Addr
<1>2. QED BY <1>1 DEF Legal

LEMMA CandidateIs ==
    ASSUME NEW w \in Client, NEW a \in Addr \ {None}
    PROVE  Candidate(w, a) \in Answer /\ Candidate(w, a).peers = {w}
<1>1. Candidate(w, a) \in Message /\ Candidate(w, a).type = "HoleNotify"
      /\ Candidate(w, a).addr = a /\ Candidate(w, a).peers = {w}
  BY DEF Candidate, Message
<1>2. QED BY <1>1 DEF Answer, Legal

LEMMA ConnIs ==
    ASSUME NEW c \in Conn
    PROVE  c[1] \in Client /\ c[2] \in Session /\ c = <<c[1], c[2]>> /\ c[2] # None
<1>1. c \in Client \X Session /\ None \notin Session
  BY BoundAssumption DEF Conn, Session, None
<1>2. QED BY <1>1

(* One client's view of one peer changes.                                  *)
LEMMA PeersType ==
    ASSUME NEW P \in [Client -> [Client -> Peer]], NEW v \in Client, NEW w \in Client, NEW r \in Peer
    PROVE  /\ [P EXCEPT ![v][w] = r] \in [Client -> [Client -> Peer]]
           /\ \A x \in Client : x # v => [P EXCEPT ![v][w] = r][x] = P[x]
           /\ \A y \in Client : y # w => [P EXCEPT ![v][w] = r][v][y] = P[v][y]
           /\ [P EXCEPT ![v][w] = r][v][w] = r
<1>1. P[v] \in [Client -> Peer]
  OBVIOUS
<1>2. [P[v] EXCEPT ![w] = r] \in [Client -> Peer]
  BY <1>1
<1>3. QED BY <1>1, <1>2

LEMMA PeerIs ==
    ASSUME NEW p \in Peer, NEW a \in Addr
    PROVE  /\ [p EXCEPT !.known = TRUE, !.addr = a] \in Peer
           /\ [p EXCEPT !.known = TRUE, !.addr = a].known
           /\ [p EXCEPT !.known = TRUE, !.addr = a].cand = p.cand
           /\ [p EXCEPT !.known = TRUE, !.cand = a] \in Peer
           /\ [p EXCEPT !.known = TRUE, !.cand = a].known
           /\ [p EXCEPT !.known = TRUE, !.cand = a].cand = a
           /\ [p EXCEPT !.known = TRUE] \in Peer
           /\ [p EXCEPT !.known = TRUE].known
           /\ [p EXCEPT !.known = TRUE].cand = p.cand
           /\ Stranger \in Peer
<1>1. /\ [p EXCEPT !.known = TRUE, !.addr = a] \in Peer
      /\ [p EXCEPT !.known = TRUE, !.cand = a] \in Peer
      /\ [p EXCEPT !.known = TRUE] \in Peer
  BY DEF Peer
<1>2. /\ [p EXCEPT !.known = TRUE, !.addr = a].known
      /\ [p EXCEPT !.known = TRUE, !.cand = a].known
      /\ [p EXCEPT !.known = TRUE].known
  BY DEF Peer
<1>3. /\ [p EXCEPT !.known = TRUE, !.addr = a].cand = p.cand
      /\ [p EXCEPT !.known = TRUE, !.cand = a].cand = a
      /\ [p EXCEPT !.known = TRUE].cand = p.cand
  BY DEF Peer
<1>4. Stranger \in Peer
  BY DEF Peer, Stranger, Addr
<1>5. QED BY <1>1, <1>2, <1>3, <1>4

(* A path is proved: the peer is known, and no candidate is lost.          *)
LEMMA ProvesIs ==
    ASSUME NEW P \in [Client -> [Client -> Peer]], NEW v \in Client, NEW w \in Client,
           session[v] \in Addr
    PROVE  /\ Proves(P, v, w) \in [Client -> [Client -> Peer]]
           /\ \A x \in Client : /\ KnownIn(P, x) \subseteq KnownIn(Proves(P, v, w), x)
                                /\ CandIn(P, x) = CandIn(Proves(P, v, w), x)
<1> DEFINE r == [P[w][v] EXCEPT !.known = TRUE, !.addr = session[v]]
<1>1. P[w][v] \in Peer
  OBVIOUS
<1>2. r \in Peer /\ r.known /\ r.cand = P[w][v].cand
  BY <1>1, PeerIs
<1>3. Proves(P, v, w) = [P EXCEPT ![w][v] = r]
  BY DEF Proves
<1> HIDE DEF r
<1>4. Proves(P, v, w) \in [Client -> [Client -> Peer]]
  BY <1>2, <1>3, PeersType
<1>5. ASSUME NEW x \in Client
      PROVE  /\ KnownIn(P, x) \subseteq KnownIn(Proves(P, v, w), x)
             /\ CandIn(P, x) = CandIn(Proves(P, v, w), x)
  <2>1. \A y \in Client : <<x, y>> # <<w, v>> => Proves(P, v, w)[x][y] = P[x][y]
    BY <1>2, <1>3, PeersType
  <2>2. Proves(P, v, w)[w][v] = r
    BY <1>2, <1>3, PeersType
  <2>3. QED BY <1>2, <2>1, <2>2 DEF KnownIn, CandIn
<1>6. QED BY <1>4, <1>5

(* One message for each of T.                                              *)
LEMMA ToldTypes ==
    ASSUME Legible, NEW T \in SUBSET Client, NEW m \in Legal,
           queue' = [w \in Client |-> IF w \in T THEN Append(queue[w], m) ELSE queue[w]]
    PROVE  queue' \in [Client -> Seq(Legal)]
<1>1. \A w \in Client : queue[w] \in Seq(Legal) /\ Append(queue[w], m) \in Seq(Legal)
  BY DEF Legible
<1>2. QED BY <1>1

LEMMA JoinTypes ==
    ASSUME TypeOK, Legible, NEW v \in Client, Join(v)
    PROVE  TypeOK' /\ Legible'
<1> DEFINE k == session[v] + 1
           others == {w \in Devices \ {v} : Reaches(<<w, online[w]>>)}
<1>1. k \in Session /\ <<v, k>> \in Conn
  <2>1. session[v] < MaxJoin
    BY Zenon DEF Join, Room
  <2>2. session[v] \in 0 .. MaxJoin
    BY BoundAssumption DEF TypeOK, Addr, Session, None
  <2>3. QED BY <2>1, <2>2, BoundAssumption DEF Session, Conn
<1>2. Msg("PeerList", Devices \ {v}) \in Legal /\ Msg("PeerOnline", {v}) \in Legal
  BY MsgIs DEF Devices
<1>3. queue' \in [Client -> Seq(Legal)]
  <2>1. queue' = [w \in Client |->
                       IF w = v THEN <<Msg("PeerList", Devices \ {v})>>
                       ELSE IF w \in others THEN Append(queue[w], Msg("PeerOnline", {v}))
                       ELSE queue[w]]
    BY Zenon DEF Join
  <2>2. \A w \in Client : queue[w] \in Seq(Legal)
    BY DEF Legible
  <2>3. QED BY <1>2, <2>1, <2>2
<1>4. /\ session' = [session EXCEPT ![v] = k] /\ up' = up \cup {v}
      /\ online' = [online EXCEPT ![v] = k] /\ udpAddr' = [udpAddr EXCEPT ![v] = None]
      /\ serving' = serving \cup {<<v, k>>}
      /\ overtaken' = overtaken \ (others \X {v} \cup {v} \X Devices)
      /\ UNCHANGED <<out, requests, retry, table>>
  BY Zenon DEF Join
<1> HIDE DEF k, others
<1>5. QED BY <1>1, <1>3, <1>4, LegalIs DEF TypeOK, Legible, Addr, table

LEMMA LeaveTypes ==
    ASSUME TypeOK, Legible, NEW c \in Conn, Leave(c)
    PROVE  TypeOK' /\ Legible'
<1> DEFINE v == c[1]
           left == IF online[v] = c[2] THEN Devices \ {v} ELSE Devices
           told == {w \in left : Reaches(<<w, online[w]>>)}
<1>1. v \in Client /\ told \subseteq Client /\ Msg("PeerOffline", {v}) \in Legal
  BY ConnIs, MsgIs DEF Devices
<1>2. queue' \in [Client -> Seq(Legal)]
  BY <1>1, ToldTypes DEF Leave
<1>3. /\ serving' = serving \ {c}
      /\ \/ /\ online' = [online EXCEPT ![v] = None] /\ udpAddr' = [udpAddr EXCEPT ![v] = None]
            /\ UNCHANGED overtaken
         \/ overtaken' = overtaken \cup told \X {v} /\ UNCHANGED <<online, udpAddr>>
      /\ UNCHANGED <<out, link, requests, retry, table>>
  BY DEF Leave
<1> HIDE DEF told, v
<1>4. QED BY <1>1, <1>2, <1>3, LegalIs DEF TypeOK, Legible, Addr, link, table

LEMMA HoleRequestTypes ==
    ASSUME TypeOK, Legible, Entered, NEW c \in Conn, NEW w \in Client, HoleRequest(c, w)
    PROVE  TypeOK' /\ Legible'
<1> DEFINE v == c[1]
           toFrom == [to |-> c, msg |-> Candidate(w, udpAddr[w])]
           toPeer == [to |-> <<w, online[w]>>, msg |-> Candidate(v, udpAddr[v])]
           error  == [to |-> c, msg |-> Msg("Error", {w})]
           o == IF udpAddr[w] = None THEN <<error>>
                ELSE IF udpAddr[v] = None THEN <<toFrom>> ELSE <<toFrom, toPeer>>
<1>1. v \in Client /\ udpAddr[v] \in Addr /\ udpAddr[w] \in Addr /\ online[w] \in Addr
  BY ConnIs DEF TypeOK
<1>2. error \in Sent
  BY MsgIs DEF Sent, Answer
<1>3. udpAddr[w] # None => toFrom \in Sent
  BY <1>1, CandidateIs DEF Sent
<1>4. udpAddr[w] # None /\ udpAddr[v] # None => toPeer \in Sent
  <2>1. udpAddr[w] # None => <<w, online[w]>> \in Conn
    BY <1>1 DEF Entered, Conn, Addr
  <2>2. QED BY <1>1, <2>1, CandidateIs DEF Sent
<1>5. out' = [out EXCEPT ![c] = o] /\ requests' = [requests EXCEPT ![v] = requests[v] \ {w}]
      /\ UNCHANGED <<online, udpAddr, serving, link, queue, retry, table, overtaken>>
  BY DEF HoleRequest
<1>6. o \in Seq(Sent)
  <2> HIDE DEF error, toFrom, toPeer
  <2>1. QED BY <1>2, <1>3, <1>4
<1> HIDE DEF o, v
<1>7. out' \in [Conn -> Seq(Sent)] /\ out' \in [Conn -> Seq([to : Conn, msg : Message])]
  <2>1. out' \in [Conn -> Seq(Sent)]
    BY <1>5, <1>6 DEF Legible
  <2>2. QED BY <2>1, LegalIs
<1>8. QED BY <1>1, <1>5, <1>7 DEF TypeOK, Legible, link, table

(* What a goroutine of the server has still to send.                       *)
LEMMA OutIs ==
    ASSUME Legible, NEW c \in Conn, out[c] # <<>>
    PROVE  /\ out[c] \in Seq(Sent) /\ Len(out[c]) \in Nat \ {0}
           /\ Head(out[c]) = out[c][1] /\ Head(out[c]) \in Sent
           /\ Head(out[c]).to \in Conn /\ Head(out[c]).msg \in Answer
           /\ Tail(out[c]) \in Seq(Sent) /\ Len(Tail(out[c])) = Len(out[c]) - 1
           /\ \A i \in 1 .. Len(Tail(out[c])) : Tail(out[c])[i] = out[c][i + 1]
<1>1. out[c] \in Seq(Sent)
  BY DEF Legible
<1>2. /\ Len(out[c]) \in Nat \ {0} /\ Head(out[c]) = out[c][1] /\ Head(out[c]) \in Sent
      /\ Tail(out[c]) \in Seq(Sent) /\ Len(Tail(out[c])) = Len(out[c]) - 1
      /\ \A i \in 1 .. Len(Tail(out[c])) : Tail(out[c])[i] = out[c][i + 1]
  BY <1>1, HeadTailProperties, EmptySeq
<1>3. QED BY <1>1, <1>2, LegalIs

LEMMA SendTypes ==
    ASSUME TypeOK, Legible, NEW c \in Conn, Send(c)
    PROVE  TypeOK' /\ Legible'
<1> DEFINE s == Head(out[c])
           v == s.to[1]
           t == Tail(out[c])
<1>1. /\ out[c] # <<>> /\ out' = [out EXCEPT ![c] = t]
      /\ UNCHANGED <<online, udpAddr, serving, link, requests, retry, table>>
      /\ queue' = [queue EXCEPT ![v] = Append(queue[v], s.msg)] \/ queue' = queue
      /\ overtaken' \subseteq overtaken
  BY DEF Send
<1>2. t \in Seq(Sent) /\ v \in Client /\ s.msg \in Legal
  BY <1>1, OutIs, ConnIs, LegalIs
<1> HIDE DEF s, v, t
<1>3. out' \in [Conn -> Seq(Sent)]
  BY <1>1, <1>2 DEF Legible
<1>5. out' \in [Conn -> Seq([to : Conn, msg : Message])]
  BY <1>3, LegalIs
<1>6. queue' \in [Client -> Seq(Legal)]
  <2>1. queue \in [Client -> Seq(Legal)] /\ queue[v] \in Seq(Legal) /\ Append(queue[v], s.msg) \in Seq(Legal)
    BY <1>2 DEF Legible
  <2>2. QED BY <1>1, <1>2, <2>1
<1>7. QED BY <1>1, <1>3, <1>5, <1>6, LegalIs DEF TypeOK, Legible, link, table

LEMMA RestartTypes == TypeOK /\ Legible /\ Restart => TypeOK' /\ Legible'
BY DEF Restart, TypeOK, Legible, Addr, link, signals, table

(* What a client takes from its queue.                                     *)
LEMMA ReadIs ==
    ASSUME Legible, NEW v \in Client, queue[v] # <<>>
    PROVE  /\ queue[v] \in Seq(Message) /\ Head(queue[v]) \in Legal /\ Head(queue[v]) \in Message
           /\ About(v) \subseteq Client /\ Head(queue[v]).addr \in Addr
           /\ [queue EXCEPT ![v] = Tail(@)] \in [Client -> Seq(Legal)]
<1>1. queue \in [Client -> Seq(Legal)] /\ queue[v] \in Seq(Legal)
  BY DEF Legible
<1>2. Head(queue[v]) \in Legal /\ Tail(queue[v]) \in Seq(Legal)
  BY <1>1, HeadTailProperties
<1>3. QED BY <1>1, <1>2, LegalIs DEF About

LEMMA ReadsTypes ==
    ASSUME TypeOK, Legible, NEW v \in Client, NEW w \in Client,
           Arrival(v) \/ Departure(v) \/ NotReady(v) \/ HoleNotify(v, w)
    PROVE  TypeOK' /\ Legible'
<1>1. /\ queue[v] # <<>> /\ queue' = [queue EXCEPT ![v] = Tail(@)]
      /\ UNCHANGED <<server, link, overtaken>>
  BY DEF Arrival, Departure, NotReady, HoleNotify, Reads
<1>2. About(v) \subseteq Client /\ Head(queue[v]).addr \in Addr /\ queue' \in [Client -> Seq(Legal)]
  BY <1>1, ReadIs
<1>3. /\ peers \in [Client -> [Client -> Peer]] /\ peers[v] \in [Client -> Peer]
      /\ requests \in [Client -> SUBSET Client] /\ retry \in [Client -> SUBSET Client]
      /\ punching \in [Client -> SUBSET Client] /\ punchers \in [Client -> [Client -> Nat]]
  BY DEF TypeOK
<1>4. ASSUME /\ peers' \in [Client -> [Client -> Peer]] /\ requests' \in [Client -> SUBSET Client]
             /\ retry' \in [Client -> SUBSET Client] /\ punching' \in [Client -> SUBSET Client]
             /\ punchers' \in [Client -> [Client -> Nat]]
      PROVE  TypeOK' /\ Legible'
  BY <1>1, <1>2, <1>4, LegalIs DEF TypeOK, Legible, server, link
<1>5. CASE Arrival(v)
  <2> DEFINE f == [x \in Client |-> IF x \in About(v) THEN [peers[v][x] EXCEPT !.known = TRUE]
                                    ELSE peers[v][x]]
  <2>1. f \in [Client -> Peer]
    <3>1. \A x \in Client : peers[v][x] \in Peer /\ [peers[v][x] EXCEPT !.known = TRUE] \in Peer
      BY <1>2, <1>3, PeerIs
    <3>2. QED BY <3>1
  <2>2. peers' = [peers EXCEPT ![v] = f]
    BY <1>5 DEF Arrival
  <2> HIDE DEF f
  <2>3. peers' \in [Client -> [Client -> Peer]]
    BY <1>3, <2>1, <2>2
  <2>4. requests' \in [Client -> SUBSET Client] /\ UNCHANGED <<retry, punching, punchers>>
    BY <1>2, <1>3, <1>5 DEF Arrival
  <2>5. QED BY <1>3, <1>4, <2>3, <2>4
<1>6. CASE Departure(v)
  <2> DEFINE f == [x \in Client |-> IF x \in About(v) THEN Stranger ELSE peers[v][x]]
  <2>1. f \in [Client -> Peer]
    BY <1>3 DEF Peer, Stranger, Addr
  <2>2. peers' = [peers EXCEPT ![v] = f]
    BY <1>6 DEF Departure
  <2> HIDE DEF f
  <2>3. peers' \in [Client -> [Client -> Peer]]
    BY <1>3, <2>1, <2>2
  <2>4. punching' \in [Client -> SUBSET Client] /\ UNCHANGED <<requests, retry, punchers>>
    BY <1>2, <1>3, <1>6 DEF Departure
  <2>5. QED BY <1>3, <1>4, <2>3, <2>4
<1>7. CASE NotReady(v)
  BY <1>2, <1>3, <1>4, <1>7 DEF NotReady, table
<1>8. CASE HoleNotify(v, w)
  <2>1. CASE v \in Punching
    <3> DEFINE r == [peers[v][w] EXCEPT !.known = TRUE, !.cand = Head(queue[v]).addr]
               n == IF w \in punching[v] THEN punchers[v][w] ELSE punchers[v][w] + 1
    <3>1. r \in Peer
      BY <1>2, <1>3, PeerIs
    <3>2. peers' = [peers EXCEPT ![v][w] = r] /\ punching' = [punching EXCEPT ![v] = @ \cup {w}]
          /\ punchers' = [punchers EXCEPT ![v][w] = n] /\ UNCHANGED <<requests, retry>>
      BY <1>8, <2>1 DEF HoleNotify
    <3>3. n \in Nat /\ punchers[v] \in [Client -> Nat]
      BY <1>3
    <3> HIDE DEF r, n
    <3>4. peers' \in [Client -> [Client -> Peer]]
      BY <1>3, <3>1, <3>2, PeersType
    <3>5. [punchers[v] EXCEPT ![w] = n] \in [Client -> Nat]
      BY <3>3
    <3>6. punchers' \in [Client -> [Client -> Nat]]
      BY <1>3, <3>2, <3>5
    <3>7. QED BY <1>3, <1>4, <3>2, <3>4, <3>6
  <2>2. CASE v \notin Punching
    BY <1>3, <1>4, <1>8, <2>2 DEF HoleNotify, table
  <2>3. QED BY <2>1, <2>2
<1>9. QED BY <1>5, <1>6, <1>7, <1>8

LEMMA PacketTypes ==
    ASSUME TypeOK, Legible, NEW v \in Client, NEW w \in Client,
           Probe(v, w) \/ SendData(v, w) \/ PunchEnds(v, w) \/ Record(v) \/ Drop(v) \/ Retry(v, w)
    PROVE  TypeOK' /\ Legible'
<1> USE DEF server, link, signals, table
<1>1. /\ peers \in [Client -> [Client -> Peer]] /\ \A x \in Client : session[x] \in Addr
  BY DEF TypeOK
<1>2. CASE Probe(v, w) \/ SendData(v, w)
  <2>1. /\ peers' = Proves(peers, v, w) \/ peers' = Proves(Proves(peers, v, w), w, v)
        /\ UNCHANGED <<server, link, signals, punching, punchers, overtaken>>
    BY <1>2 DEF Probe, SendData
  <2>2. peers' \in [Client -> [Client -> Peer]]
    <3>1. Proves(peers, v, w) \in [Client -> [Client -> Peer]]
      BY <1>1, ProvesIs
    <3>2. Proves(Proves(peers, v, w), w, v) \in [Client -> [Client -> Peer]]
      BY <1>1, <3>1, ProvesIs
    <3>3. QED BY <2>1, <3>1, <3>2
  <2>3. QED BY <2>1, <2>2 DEF TypeOK, Legible
<1>3. CASE PunchEnds(v, w)
  <2>1. punchers \in [Client -> [Client -> Nat]] /\ punchers[v] \in [Client -> Nat] /\ punchers[v][w] - 1 \in Nat
    BY <1>3 DEF PunchEnds, TypeOK
  <2>2. [punchers[v] EXCEPT ![w] = punchers[v][w] - 1] \in [Client -> Nat]
    BY <2>1
  <2>3. punchers' \in [Client -> [Client -> Nat]]
    BY <1>3, <2>1, <2>2 DEF PunchEnds
  <2>4. QED BY <1>3, <2>3 DEF PunchEnds, TypeOK, Legible
<1>4. CASE Record(v)
  BY <1>1, <1>4 DEF Record, TypeOK, Legible
<1>5. CASE Drop(v)
  <2>1. /\ queue' = [queue EXCEPT ![v] = <<>>] /\ up' \subseteq up
        /\ requests' = [requests EXCEPT ![v] = {}] /\ retry' = [retry EXCEPT ![v] = {}]
        /\ UNCHANGED <<server, session, table, overtaken>>
    BY <1>5 DEF Drop
  <2>2. <<>> \in Seq(Legal) /\ queue \in [Client -> Seq(Legal)]
    BY DEF Legible
  <2>3. queue' \in [Client -> Seq(Legal)]
    BY <2>1, <2>2
  <2>4. QED BY <2>1, <2>3, LegalIs DEF TypeOK, Legible
<1>6. CASE Retry(v, w)
  BY <1>6 DEF Retry, TypeOK, Legible
<1>7. QED BY <1>2, <1>3, <1>4, <1>5, <1>6

LEMMA Types == TypeOK /\ Legible /\ Entered /\ [Next]_vars => TypeOK' /\ Legible'
<1> SUFFICES ASSUME TypeOK, Legible, Entered, [Next]_vars PROVE TypeOK' /\ Legible'
  OBVIOUS
<1>1. ASSUME NEW c \in Conn, ConnStep(c) PROVE TypeOK' /\ Legible'
  BY <1>1, LeaveTypes, SendTypes, HoleRequestTypes DEF ConnStep
<1>2. ASSUME NEW v \in Client, ClientStep(v) PROVE TypeOK' /\ Legible'
  <2>1. PICK w \in Client :
            \/ Join(v) \/ Drop(v) \/ Record(v) \/ Arrival(v) \/ Departure(v) \/ NotReady(v)
            \/ HoleNotify(v, w) \/ Retry(v, w) \/ Probe(v, w) \/ PunchEnds(v, w) \/ SendData(v, w)
    BY <1>2 DEF ClientStep
  <2>2. QED BY <2>1, JoinTypes, ReadsTypes, PacketTypes
<1>3. CASE Restart
  BY <1>3, RestartTypes
<1>4. CASE UNCHANGED vars
  BY <1>4 DEF vars, server, link, signals, table, TypeOK, Legible
<1>5. QED BY <1>1, <1>2, <1>3, <1>4 DEF Next

LEMMA EnteredStep == TypeOK /\ Entered /\ [Next]_vars => Entered'
<1> SUFFICES ASSUME TypeOK, Entered, [Next]_vars PROVE Entered'
  OBVIOUS
<1> USE DEF server, link, signals, table, Entered
<1>1. ASSUME NEW x \in Client, Join(x) PROVE Entered'
  <2>1. /\ session' = [session EXCEPT ![x] = session[x] + 1] /\ up' = up \cup {x}
        /\ online' = [online EXCEPT ![x] = session[x] + 1] /\ udpAddr' = [udpAddr EXCEPT ![x] = None]
        /\ serving' = serving \cup {<<x, session[x] + 1>>}
    BY <1>1, Zenon DEF Join
  <2>2. session[x] \in 0 .. MaxJoin
    BY BoundAssumption DEF TypeOK, Addr, Session, None
  <2>3. session[x] + 1 # None
    BY <2>2 DEF None
  <2>4. QED BY <2>1, <2>3 DEF TypeOK
<1>2. ASSUME NEW c \in Conn, Leave(c) PROVE Entered'
  <2>1. /\ c = <<c[1], c[2]>> /\ c[1] \in Client /\ serving' = serving \ {c}
        /\ UNCHANGED <<up, session>>
        /\ IF online[c[1]] = c[2]
           THEN online' = [online EXCEPT ![c[1]] = None] /\ udpAddr' = [udpAddr EXCEPT ![c[1]] = None]
           ELSE UNCHANGED <<online, udpAddr>>
    BY <1>2, ConnIs DEF Leave
  <2> SUFFICES ASSUME NEW v \in Client
               PROVE  /\ online'[v] # None => <<v, online'[v]>> \in serving'
                      /\ udpAddr'[v] # None => online'[v] # None
                      /\ v \in up' => session'[v] # None
    OBVIOUS
  <2>2. CASE online'[v] = online[v]
    <3>1. online[v] # None => <<v, online[v]>> # c
      BY <2>1, <2>2 DEF TypeOK
    <3>2. udpAddr'[v] = None \/ udpAddr'[v] = udpAddr[v]
      BY <2>1 DEF TypeOK
    <3>3. QED BY <2>1, <2>2, <3>1, <3>2
  <2>3. CASE online'[v] # online[v]
    BY <2>1, <2>3 DEF TypeOK
  <2>4. QED BY <2>2, <2>3
<1>3. ASSUME NEW v \in Client, Record(v) PROVE Entered'
  BY <1>3 DEF Record, TypeOK
<1>4. ASSUME NEW v \in Client, Drop(v) PROVE Entered'
  BY <1>4 DEF Drop
<1>5. CASE Restart
  BY <1>5 DEF Restart
<1>6. ASSUME UNCHANGED <<online, udpAddr, serving, session, up>> PROVE Entered'
  BY <1>6
<1>7. ASSUME NEW c \in Conn, NEW w \in Client, Send(c) \/ HoleRequest(c, w) PROVE Entered'
  BY <1>6, <1>7 DEF Send, HoleRequest
<1>8. ASSUME NEW v \in Client, NEW w \in Client,
             \/ Arrival(v) \/ Departure(v) \/ NotReady(v) \/ HoleNotify(v, w)
             \/ Retry(v, w) \/ Probe(v, w) \/ PunchEnds(v, w) \/ SendData(v, w)
      PROVE  Entered'
  BY <1>6, <1>8 DEF Arrival, Departure, NotReady, HoleNotify, Reads, Retry, Probe, PunchEnds, SendData
<1>9. CASE UNCHANGED vars
  BY <1>6, <1>9 DEF vars
<1>10. QED BY <1>1, <1>2, <1>3, <1>4, <1>5, <1>7, <1>8, <1>9 DEF Next, ConnStep, ClientStep

(* Nothing is lost while the client goes on and reads nothing.             *)
LEMMA Still ==
    ASSUME NEW v, NEW w, WillKnow(v, w), WillFind(v, w), UNCHANGED <<queue[v], online[v]>>,
           Knows(v) \subseteq Knows(v)', HasCand(v) \subseteq HasCand(v)',
           requests[v] \cup retry[v] \subseteq requests'[v] \cup retry'[v],
           out'[<<v, online[v]>>] = out[<<v, online[v]>>]
    PROVE  WillKnow(v, w)' /\ WillFind(v, w)'
<1>1. WillKnow(v, w)'
  BY Grows DEF WillKnow
<1>2. Ends(queue[v], HasCand(v), {"HoleNotify"}, w) => Ends(queue[v], HasCand(v), {"HoleNotify"}, w)'
  BY Grows
<1>3. WillAsk(v, w) => WillAsk(v, w)'
  BY DEF WillAsk
<1>4. Answering(v, w) => Answering(v, w)'
  BY DEF Answering
<1>5. QED BY <1>1, <1>2, <1>3, <1>4 DEF WillFind

(* A message comes that does not take the peer away.                       *)
LEMMA Hears ==
    ASSUME Legible, NEW v \in Client, NEW w, NEW m \in Legal, WillKnow(v, w), WillFind(v, w),
           queue'[v] = Append(queue[v], m), ~Parts(m, w),
           UNCHANGED <<peers, requests, retry, online[v]>>,
           out'[<<v, online[v]>>] = out[<<v, online[v]>>]
    PROVE  WillKnow(v, w)' /\ WillFind(v, w)'
<1>1. queue[v] \in Seq(Message) /\ m \in Message /\ Knows(v)' = Knows(v) /\ HasCand(v)' = HasCand(v)
  BY LegalIs DEF Legible, Knows, HasCand
<1>2. WillKnow(v, w)'
  BY <1>1, OneMore DEF WillKnow
<1>3. Ends(queue[v], HasCand(v), {"HoleNotify"}, w) => Ends(queue[v], HasCand(v), {"HoleNotify"}, w)'
  BY <1>1, OneMore
<1>4. WillAsk(v, w) => WillAsk(v, w)'
  BY <1>1, HasMore DEF WillAsk
<1>5. Answering(v, w) => Answering(v, w)'
  BY DEF Answering
<1>6. QED BY <1>2, <1>3, <1>4, <1>5 DEF WillFind

(* News of the peer comes.                                                 *)
LEMMA HearsNews ==
    ASSUME Legible, NEW v \in Client, NEW w, NEW m \in Legal, NEW q \in Seq(Legal),
           queue'[v] = Append(q, m), Of(m, News, w)
    PROVE  WillKnow(v, w)' /\ WillFind(v, w)'
<1>1. q \in Seq(Message) /\ m \in Message
  BY LegalIs
<1>2. WillKnow(v, w)'
  BY <1>1, OneMore DEF WillKnow
<1>3. ASSUME Of(m, Asking, w) PROVE WillFind(v, w)'
  <2>1. Has(queue'[v], Asking, w)
    BY <1>1, <1>3, HasMore
  <2>2. QED BY <2>1 DEF WillFind, WillAsk
<1>4. ASSUME Of(m, {"HoleNotify"}, w) PROVE WillFind(v, w)'
  <2>1. Ends(queue'[v], HasCand(v)', {"HoleNotify"}, w)
    BY <1>1, <1>4, OneMore
  <2>2. QED BY <2>1 DEF WillFind
<1>5. QED BY <1>2, <1>3, <1>4 DEF Of, News, Asking

Pair(v, w) == Live(v) /\ online[w] # None /\ <<v, w>> \notin overtaken

(* The server's steps.                                                     *)
LEMMA SoughtJoin ==
    ASSUME TypeOK, Legible, Entered, NEW v \in Client, NEW w \in Client, v # w,
           Pair(v, w) => WillKnow(v, w) /\ WillFind(v, w),
           NEW x \in Client, Join(x), Pair(v, w)'
    PROVE  WillKnow(v, w)' /\ WillFind(v, w)'
<1> DEFINE k == session[x] + 1
           others == {u \in Devices \ {x} : Reaches(<<u, online[u]>>)}
<1>1. /\ session' = [session EXCEPT ![x] = k] /\ up' = up \cup {x}
      /\ online' = [online EXCEPT ![x] = k]
      /\ overtaken' = overtaken \ (others \X {x} \cup {x} \X Devices)
      /\ UNCHANGED <<out, requests, retry, peers>>
  BY Zenon DEF Join, table
<1>2. queue' = [u \in Client |->
                   IF u = x THEN <<Msg("PeerList", Devices \ {x})>>
                   ELSE IF u \in others THEN Append(queue[u], Msg("PeerOnline", {x}))
                   ELSE queue[u]]
  BY Zenon DEF Join
<1>3. /\ online \in [Client -> Addr] /\ session \in [Client -> Addr] /\ queue[v] \in Seq(Legal)
  BY DEF TypeOK, Legible
<1>4. CASE x = v
  <2> DEFINE m == Msg("PeerList", Devices \ {v})
  <2>1. m \in Legal /\ Of(m, News, w)
    <3>1. w \in Devices \ {v}
      BY <1>1, <1>3, <1>4 DEF Pair, Devices
    <3>2. m \in Legal /\ m.type = "PeerList" /\ m.peers = Devices \ {v}
      BY MsgIs DEF Devices
    <3> HIDE DEF m
    <3>3. QED BY <3>1, <3>2 DEF Of, News
  <2>2. queue'[v] = <<m>>
    BY <1>2, <1>4
  <2>3. queue'[v] = Append(<<>>, m) /\ <<>> \in Seq(Legal)
    BY <2>1, <2>2
  <2>4. QED BY <2>1, <2>3, HearsNews
<1>5. CASE x # v
  <2>1. Live(v) /\ online[v] # None
    BY <1>1, <1>3, <1>5 DEF Pair, Live, Entered
  <2>2. v \in others
    BY <1>5, <2>1 DEF Live, Entered, Devices, Reaches
  <2> DEFINE m == Msg("PeerOnline", {x})
  <2>3. queue'[v] = Append(queue[v], m)
    BY <1>2, <1>5, <2>2
  <2>4. m \in Legal /\ m.type = "PeerOnline" /\ m.peers = {x}
    BY MsgIs
  <2> HIDE DEF m
  <2>5. CASE x = w
    BY <1>3, <2>3, <2>4, <2>5, HearsNews DEF Of, News
  <2>6. CASE x # w
    <3>1. Pair(v, w)
      BY <1>1, <1>3, <1>5, <2>1, <2>6 DEF Pair
    <3>2. ~Parts(m, w) /\ UNCHANGED <<peers, requests, retry, online[v]>>
      BY <1>1, <1>5, <1>3, <2>4 DEF Parts, Of
    <3>3. out'[<<v, online[v]>>] = out[<<v, online[v]>>]
      BY <1>1
    <3>4. QED BY <2>3, <2>4, <3>1, <3>2, <3>3, Hears
  <2>7. QED BY <2>5, <2>6
<1>6. QED BY <1>4, <1>5

LEMMA SoughtLeave ==
    ASSUME TypeOK, Legible, Entered, NEW v \in Client, NEW w \in Client, v # w,
           Pair(v, w) => WillKnow(v, w) /\ WillFind(v, w),
           NEW c \in Conn, Leave(c), Pair(v, w)'
    PROVE  WillKnow(v, w)' /\ WillFind(v, w)'
<1> DEFINE x == c[1]
           left == IF online[x] = c[2] THEN Devices \ {x} ELSE Devices
           told == {u \in left : Reaches(<<u, online[u]>>)}
           m == Msg("PeerOffline", {x})
<1>1. /\ IF online[x] = c[2]
         THEN online' = [online EXCEPT ![x] = None] /\ UNCHANGED overtaken
         ELSE overtaken' = overtaken \cup told \X {x} /\ UNCHANGED online
      /\ queue' = [u \in Client |-> IF u \in told THEN Append(queue[u], m) ELSE queue[u]]
      /\ UNCHANGED <<out, session, up, requests, retry, peers>>
  BY DEF Leave, link, table
<1>2. x \in Client /\ m \in Legal /\ m.type = "PeerOffline" /\ m.peers = {x}
  BY ConnIs, MsgIs
<1>3. online \in [Client -> Addr]
  BY DEF TypeOK
<1>4. session[v] # None
  BY <1>1 DEF Entered, Pair, Live
<1>5. /\ online'[v] = online[v] /\ online'[w] = online[w] /\ Live(v)
      /\ x \in {v, w} => online[x] # c[2]
  BY <1>1, <1>2, <1>3, <1>4 DEF Pair, Live
<1>6. Pair(v, w)
  BY <1>1, <1>5 DEF Pair
<1>7. x # w
  <2> SUFFICES ASSUME x = w PROVE FALSE
    OBVIOUS
  <2>1. v \in told
    BY <1>4, <1>5 DEF Live, Entered, Devices, Reaches
  <2>2. QED BY <1>1, <1>5, <2>1 DEF Pair
<1>8. ~Parts(m, w) /\ UNCHANGED <<peers, requests, retry, online[v]>>
      /\ out'[<<v, online[v]>>] = out[<<v, online[v]>>]
  <2> HIDE DEF m
  <2>1. QED BY <1>1, <1>2, <1>5, <1>7 DEF Parts, Of
<1> HIDE DEF m
<1>9. CASE v \in told
  <2>1. queue'[v] = Append(queue[v], m)
    BY <1>1, <1>9
  <2>2. QED BY <1>2, <1>6, <1>8, <2>1, Hears
<1>10. CASE v \notin told
  <2>1. queue'[v] = queue[v] /\ Knows(v)' = Knows(v) /\ HasCand(v)' = HasCand(v)
    BY <1>1, <1>10 DEF Knows, HasCand, KnownIn, CandIn
  <2>2. QED BY <1>6, <1>8, <2>1, Still
<1>11. QED BY <1>9, <1>10

LEMMA SoughtHoleRequest ==
    ASSUME TypeOK, Legible, Entered, NEW v \in Client, NEW w \in Client, v # w,
           Pair(v, w) => WillKnow(v, w) /\ WillFind(v, w),
           NEW c \in Conn, NEW y \in Client, HoleRequest(c, y), Pair(v, w)'
    PROVE  WillKnow(v, w)' /\ WillFind(v, w)'
<1> DEFINE toFrom == [to |-> c, msg |-> Candidate(y, udpAddr[y])]
           toPeer == [to |-> <<y, online[y]>>, msg |-> Candidate(c[1], udpAddr[c[1]])]
           error  == [to |-> c, msg |-> Msg("Error", {y})]
           o == IF udpAddr[y] = None THEN <<error>>
                ELSE IF udpAddr[c[1]] = None THEN <<toFrom>> ELSE <<toFrom, toPeer>>
<1>1. /\ out[c] = <<>> /\ c[2] = session[c[1]] /\ out' = [out EXCEPT ![c] = o]
      /\ requests' = [requests EXCEPT ![c[1]] = requests[c[1]] \ {y}]
      /\ UNCHANGED <<online, session, up, queue, retry, peers, overtaken>>
  BY DEF HoleRequest, link, table
<1>2. Pair(v, w) /\ WillKnow(v, w) /\ WillFind(v, w) /\ WillKnow(v, w)'
      /\ Knows(v)' = Knows(v) /\ HasCand(v)' = HasCand(v)
  BY <1>1 DEF Pair, Live, WillKnow, Knows, HasCand
<1>3. c \in DOMAIN out /\ c = <<c[1], c[2]>>
  BY ConnIs DEF TypeOK
<1>4. CASE c = <<v, online[v]>> /\ y = w
  <2>1. /\ error.to = c /\ error.msg.peers = {w} /\ toFrom.to = c /\ toFrom.msg.peers = {w}
    BY <1>4 DEF Msg, Candidate
  <2>2. 1 \in 1 .. Len(o) /\ o[1] \in {error, toFrom}
    <3> HIDE DEF error, toFrom, toPeer
    <3>1. QED OBVIOUS
  <2>3. o[1].to = c /\ w \in o[1].msg.peers
    <3> HIDE DEF o, error, toFrom
    <3>1. QED BY <2>1, <2>2
  <2> HIDE DEF o
  <2>4. out'[<<v, online'[v]>>] = o
    BY <1>1, <1>3, <1>4
  <2>5. Answering(v, w)'
    BY <1>1, <1>4, <2>2, <2>3, <2>4 DEF Answering
  <2>6. QED BY <1>2, <2>5 DEF WillFind
<1>5. CASE c # <<v, online[v]>>
  <2> HIDE DEF o
  <2>1. c[1] # v
    BY <1>1, <1>2, <1>3, <1>5 DEF Pair, Live
  <2>2. out'[<<v, online[v]>>] = out[<<v, online[v]>>]
    BY <1>1, <1>5
  <2>3. requests'[v] = requests[v]
    BY <1>1, <2>1
  <2>4. QED BY <1>1, <1>2, <2>2, <2>3, Still
<1>6. CASE c = <<v, online[v]>> /\ y # w
  <2> HIDE DEF o
  <2>1. ~Answering(v, w)
    BY <1>1, <1>6 DEF Answering
  <2>2. w \in requests[v] => w \in requests'[v]
    BY <1>1, <1>6 DEF TypeOK
  <2>3. WillAsk(v, w) => WillAsk(v, w)'
    BY <1>1, <2>2 DEF WillAsk
  <2>4. QED BY <1>1, <1>2, <2>1, <2>3 DEF WillFind
<1>7. QED BY <1>4, <1>5, <1>6

LEMMA SoughtSend ==
    ASSUME TypeOK, Legible, Entered, NEW v \in Client, NEW w \in Client, v # w,
           Pair(v, w) => WillKnow(v, w) /\ WillFind(v, w),
           NEW c \in Conn, Send(c), Pair(v, w)'
    PROVE  WillKnow(v, w)' /\ WillFind(v, w)'
<1> DEFINE s == Head(out[c])
           m == s.msg
           t == Tail(out[c])
           mine == <<v, online[v]>>
<1>1. /\ out[c] # <<>> /\ out' = [out EXCEPT ![c] = t]
      /\ UNCHANGED <<online, session, up, serving, requests, retry, peers>>
      /\ IF Reaches(s.to)
         THEN /\ queue' = [queue EXCEPT ![s.to[1]] = Append(queue[s.to[1]], m)]
              /\ \/ overtaken' = overtaken
                 \/ m.type = "HoleNotify" /\ overtaken' = overtaken \ ({s.to[1]} \X m.peers)
         ELSE UNCHANGED <<queue, overtaken>>
  BY DEF Send, link, table
<1>2. /\ out[c] \in Seq(Sent) /\ Len(out[c]) \in Nat \ {0} /\ s = out[c][1]
      /\ s.to \in Conn /\ m \in Legal /\ m \in Message /\ m.type \in {"HoleNotify", "Error"}
      /\ Len(t) = Len(out[c]) - 1 /\ \A i \in 1 .. Len(t) : t[i] = out[c][i + 1]
  BY <1>1, OutIs, LegalIs DEF Answer
<1>3. queue \in [Client -> Seq(Legal)] /\ queue[v] \in Seq(Legal) /\ queue[v] \in Seq(Message)
      /\ out \in [Conn -> Seq(Sent)]
  BY LegalIs DEF Legible
<1>4. s.to = <<s.to[1], s.to[2]>> /\ s.to[1] \in Client
  BY <1>2, ConnIs
<1>5. /\ Live(v) /\ session[v] # None /\ Reaches(mine) /\ mine[1] = v
      /\ Knows(v)' = Knows(v) /\ HasCand(v)' = HasCand(v)
  BY <1>1 DEF Pair, Live, Entered, Reaches, Knows, HasCand
<1> HIDE DEF s, t
(* What is sent leaves the queue of what is to be sent.                    *)
<1>9. ASSUME Answering(v, w), ~(s.to = mine /\ w \in m.peers) PROVE Answering(v, w)'
  <2>1. PICK i \in 1 .. Len(out[mine]) : out[mine][i].to = mine /\ w \in out[mine][i].msg.peers
    BY <1>9 DEF Answering
  <2>2. CASE c = mine
    <3>1. i # 1
      BY <1>2, <1>9, <2>1, <2>2
    <3>2. \A j \in 2 .. Len(out[c]) : j - 1 \in 1 .. Len(t) /\ t[j - 1] = out[c][j]
      BY <1>2
    <3>3. i - 1 \in 1 .. Len(t) /\ t[i - 1] = out[mine][i]
      BY <1>2, <2>1, <2>2, <3>1, <3>2
    <3>4. out'[<<v, online'[v]>>] = t /\ UNCHANGED online
      BY <1>1, <1>3, <2>2
    <3>5. t[i - 1].to = mine /\ w \in t[i - 1].msg.peers
      BY <2>1, <3>3
    <3>6. QED BY <3>3, <3>4, <3>5 DEF Answering
  <2>3. CASE c # mine
    <3>1. out'[mine] = out[mine] /\ UNCHANGED online
      BY <1>1, <2>3
    <3>2. QED BY <1>9, <3>1 DEF Answering
  <2>4. QED BY <2>2, <2>3
<1>6. CASE s.to[1] = v /\ Reaches(s.to)
  <2>1. s.to = mine
    BY <1>4, <1>5, <1>6 DEF Reaches, Live
  <2>2. queue'[v] = Append(queue[v], m)
    BY <1>1, <1>3, <1>6
  <2>3. CASE w \in m.peers
    <3>1. CASE m.type = "HoleNotify"
      BY <1>2, <1>3, <2>2, <2>3, <3>1, HearsNews DEF Of, News
    <3>2. CASE m.type = "Error"
      <4>1. Pair(v, w)
        BY <1>1, <3>2 DEF Pair, Live
      <4>2. ~Parts(m, w) /\ Of(m, Asking, w)
        BY <2>3, <3>2 DEF Parts, Of, Asking
      <4>3. WillKnow(v, w)'
        BY <1>2, <1>3, <1>5, <2>2, <4>1, <4>2, OneMore DEF WillKnow
      <4>4. Has(queue'[v], Asking, w)
        BY <1>2, <1>3, <2>2, <4>2, HasMore
      <4>5. QED BY <4>3, <4>4 DEF WillFind, WillAsk
    <3>3. QED BY <1>2, <3>1, <3>2
  <2>4. CASE w \notin m.peers
    <3>1. Pair(v, w)
      <4>1. <<v, w>> \notin {s.to[1]} \X m.peers
        BY <2>4
      <4>2. QED BY <1>1, <4>1 DEF Pair, Live
    <3>2. ~Parts(m, w)
      BY <2>4 DEF Parts, Of
    <3>3. WillKnow(v, w)'
      BY <1>2, <1>3, <1>5, <2>2, <3>1, <3>2, OneMore DEF WillKnow
    <3>4. Ends(queue[v], HasCand(v), {"HoleNotify"}, w) => Ends(queue[v], HasCand(v), {"HoleNotify"}, w)'
      BY <1>2, <1>3, <1>5, <2>2, <3>2, OneMore
    <3>5. WillAsk(v, w) => WillAsk(v, w)'
      BY <1>1, <1>2, <1>3, <2>2, HasMore DEF WillAsk
    <3>6. Answering(v, w) => Answering(v, w)'
      BY <1>9, <2>4
    <3>7. QED BY <3>1, <3>3, <3>4, <3>5, <3>6 DEF WillFind
  <2>5. QED BY <2>3, <2>4
<1>7. CASE ~(s.to[1] = v /\ Reaches(s.to))
  <2>1. queue'[v] = queue[v] /\ s.to # mine
    BY <1>1, <1>3, <1>4, <1>5, <1>7
  <2>2. Pair(v, w)
    <3>1. Reaches(s.to) => <<v, w>> \notin {s.to[1]} \X m.peers
      BY <1>7
    <3>2. QED BY <1>1, <3>1 DEF Pair, Live
  <2>3. WillKnow(v, w)'
    BY <1>5, <2>1, <2>2 DEF WillKnow
  <2>4. Answering(v, w) => Answering(v, w)'
    BY <1>9, <2>1
  <2>5. WillAsk(v, w) => WillAsk(v, w)'
    BY <1>1, <2>1 DEF WillAsk
  <2>6. QED BY <1>5, <2>1, <2>2, <2>3, <2>4, <2>5 DEF WillFind
<1>8. QED BY <1>6, <1>7

(* The clients' steps.                                                     *)
LEMMA SoughtReads ==
    ASSUME TypeOK, Legible, NEW v \in Client, NEW w \in Client, v # w, v \in Punching,
           Pair(v, w) => WillKnow(v, w) /\ WillFind(v, w),
           NEW x \in Client, NEW y \in Client,
           Arrival(x) \/ Departure(x) \/ NotReady(x) \/ HoleNotify(x, y), Pair(v, w)'
    PROVE  WillKnow(v, w)' /\ WillFind(v, w)'
<1>1. /\ queue[x] # <<>> /\ queue' = [queue EXCEPT ![x] = Tail(queue[x])]
      /\ UNCHANGED <<online, out, session, up, overtaken>>
  BY DEF Arrival, Departure, NotReady, HoleNotify, Reads, server, link
<1>2. WillKnow(v, w) /\ WillFind(v, w)
  BY <1>1 DEF Pair, Live
<1>3. /\ peers \in [Client -> [Client -> Peer]] /\ queue \in [Client -> Seq(Legal)]
      /\ requests \in [Client -> SUBSET Client] /\ retry \in [Client -> SUBSET Client]
  BY DEF TypeOK, Legible
<1>4. CASE x # v
  <2>1. \A f : [peers EXCEPT ![x] = f][v] = peers[v]
    BY <1>3, <1>4
  <2>2. \A f : [peers EXCEPT ![x][y] = f][v] = peers[v]
    BY <1>3, <1>4
  <2>3. peers'[v] = peers[v] /\ requests'[v] = requests[v] /\ retry'[v] = retry[v]
    BY <1>3, <1>4, <2>1, <2>2 DEF Arrival, Departure, NotReady, HoleNotify, table
  <2>4. Knows(v)' = Knows(v) /\ HasCand(v)' = HasCand(v) /\ queue'[v] = queue[v]
    BY <1>1, <1>3, <1>4, <2>3 DEF Knows, HasCand, KnownIn, CandIn
  <2>5. QED BY <1>1, <1>2, <2>3, <2>4, Still
<1>5. CASE x = v
  <2> DEFINE m == Head(queue[v])
             S == About(v)
  <2>1. /\ m \in Legal /\ m \in Message /\ S = m.peers /\ S \subseteq Client /\ queue[v] # <<>>
        /\ queue[v] \in Seq(Message) /\ queue'[v] = Tail(queue[v])
    BY <1>1, <1>3, <1>5, ReadIs DEF About
  <2> HIDE DEF m, S
  (* What each kind of message does to the client's table.                 *)
  <2>2. /\ Of(m, News, w) => w \in Knows(v)'
        /\ w \in Knows(v) => w \in Knows(v)' \/ Parts(m, w)
        /\ Of(m, {"HoleNotify"}, w) => w \in HasCand(v)'
        /\ w \in HasCand(v) => w \in HasCand(v)' \/ Parts(m, w)
        /\ requests[v] \subseteq requests'[v] /\ retry[v] \subseteq retry'[v]
        /\ Of(m, Asking, w) => w \in requests'[v] \cup retry'[v]
    <3>1. ASSUME Arrival(v) PROVE <2>2
      <4> DEFINE f == [u \in Client |-> IF u \in S THEN [peers[v][u] EXCEPT !.known = TRUE]
                                        ELSE peers[v][u]]
      <4>1. /\ m.type \in {"PeerList", "PeerOnline"} /\ peers' = [peers EXCEPT ![v] = f]
            /\ requests' = [requests EXCEPT ![v] = requests[v] \cup S] /\ UNCHANGED retry
        BY <3>1 DEF Arrival, Reads, m, S
      <4>2. peers'[v] = f /\ requests'[v] = requests[v] \cup S
        BY <1>3, <4>1
      <4>3. \A u \in Client : f[u].cand = peers[v][u].cand
                              /\ (u \in S => f[u].known) /\ (peers[v][u].known => f[u].known)
        <5>1. \A u \in Client : peers[v][u] \in Peer /\ None \in Addr
          BY <1>3 DEF Addr
        <5>2. \A u \in Client : /\ [peers[v][u] EXCEPT !.known = TRUE].known
                               /\ [peers[v][u] EXCEPT !.known = TRUE].cand = peers[v][u].cand
          BY <5>1, PeerIs
        <5>3. QED BY <5>2
      <4> HIDE DEF f
      <4>4. Knows(v) \cup S \subseteq Knows(v)' /\ HasCand(v)' = HasCand(v)
        BY <2>1, <4>2, <4>3 DEF Knows, HasCand, KnownIn, CandIn
      <4>5. QED BY <2>1, <4>1, <4>2, <4>4 DEF Of, News, Asking
    <3>2. ASSUME Departure(v) PROVE <2>2
      <4> DEFINE f == [u \in Client |-> IF u \in S THEN Stranger ELSE peers[v][u]]
      <4>1. m.type = "PeerOffline" /\ peers' = [peers EXCEPT ![v] = f] /\ UNCHANGED <<requests, retry>>
        BY <3>2 DEF Departure, Reads, m, S
      <4>2. peers'[v] = f
        BY <1>3, <4>1
      <4>3. \A u \in Client \ S : f[u] = peers[v][u]
        OBVIOUS
      <4> HIDE DEF f
      <4>4. w \notin S => (w \in Knows(v) => w \in Knows(v)') /\ (w \in HasCand(v) => w \in HasCand(v)')
        BY <4>2, <4>3 DEF Knows, HasCand, KnownIn, CandIn
      <4>5. QED BY <2>1, <4>1, <4>4 DEF Of, News, Asking, Parts
    <3>3. ASSUME NotReady(v) PROVE <2>2
      <4>1. /\ m.type = "Error" /\ UNCHANGED <<peers, requests>>
            /\ retry' = [retry EXCEPT ![v] = retry[v] \cup S]
        BY <3>3 DEF NotReady, Reads, table, m, S
      <4>2. Knows(v)' = Knows(v) /\ HasCand(v)' = HasCand(v) /\ retry'[v] = retry[v] \cup S
        BY <1>3, <4>1 DEF Knows, HasCand, KnownIn, CandIn
      <4>3. QED BY <2>1, <4>1, <4>2 DEF Of, News, Asking
    <3>4. ASSUME HoleNotify(v, y) PROVE <2>2
      <4> DEFINE r == [peers[v][y] EXCEPT !.known = TRUE, !.cand = m.addr]
      <4>1. /\ m.type = "HoleNotify" /\ y \in S /\ peers' = [peers EXCEPT ![v][y] = r]
            /\ UNCHANGED <<requests, retry>>
        BY <3>4 DEF HoleNotify, Reads, m, S
      <4>2. m.addr # None /\ S = {y} /\ m.addr \in Addr
        BY <2>1, <4>1, LegalIs DEF Legal
      <4>3. r \in Peer /\ r.known /\ r.cand = m.addr
        <5>1. peers[v][y] \in Peer
          BY <1>3
        <5>2. QED BY <4>2, <5>1, PeerIs
      <4> HIDE DEF r
      <4>4. peers'[v][y] = r /\ \A u \in Client \ {y} : peers'[v][u] = peers[v][u]
        BY <1>3, <4>1, <4>3, PeersType
      <4>5. Knows(v) \cup {y} \subseteq Knows(v)' /\ HasCand(v) \cup {y} \subseteq HasCand(v)'
        BY <4>2, <4>3, <4>4 DEF Knows, HasCand, KnownIn, CandIn
      <4>6. QED BY <2>1, <4>1, <4>2, <4>5 DEF Of, News, Asking
    <3>5. QED BY <1>5, <3>1, <3>2, <3>3, <3>4
  <2>3. WillKnow(v, w)'
    BY <1>2, <2>1, <2>2, OneRead DEF WillKnow, m
  <2>4. Ends(queue[v], HasCand(v), {"HoleNotify"}, w) => Ends(queue[v], HasCand(v), {"HoleNotify"}, w)'
    BY <2>1, <2>2, OneRead DEF m
  <2>5. WillAsk(v, w) => WillAsk(v, w)'
    BY <2>1, <2>2, HasRead DEF WillAsk, m
  <2>6. Answering(v, w) => Answering(v, w)'
    BY <1>1 DEF Answering
  <2>7. QED BY <1>2, <2>3, <2>4, <2>5, <2>6 DEF WillFind
<1>6. QED BY <1>4, <1>5

LEMMA SoughtPackets ==
    ASSUME TypeOK, NEW v \in Client, NEW w \in Client, v # w,
           Pair(v, w) => WillKnow(v, w) /\ WillFind(v, w),
           NEW x \in Client, NEW y \in Client,
           Probe(x, y) \/ SendData(x, y) \/ PunchEnds(x, y) \/ Record(x), Pair(v, w)'
    PROVE  WillKnow(v, w)' /\ WillFind(v, w)'
<1>1. /\ UNCHANGED <<online, out, session, up, queue, requests, retry, overtaken>>
      /\ \/ peers' = peers
         \/ peers' = Proves(peers, x, y)
         \/ peers' = Proves(Proves(peers, x, y), y, x)
  BY DEF Probe, SendData, PunchEnds, Record, server, link, signals, table
<1>2. peers \in [Client -> [Client -> Peer]] /\ \A u \in Client : session[u] \in Addr
  BY DEF TypeOK
<1>3. /\ KnownIn(peers, v) \subseteq KnownIn(peers', v)
      /\ CandIn(peers, v) = CandIn(peers', v)
  <2> DEFINE P == Proves(peers, x, y)
             Q == Proves(P, y, x)
  <2>1. /\ P \in [Client -> [Client -> Peer]]
        /\ KnownIn(peers, v) \subseteq KnownIn(P, v) /\ CandIn(peers, v) = CandIn(P, v)
    BY <1>2, ProvesIs
  <2>2. KnownIn(P, v) \subseteq KnownIn(Q, v) /\ CandIn(P, v) = CandIn(Q, v)
    <3>1. /\ KnownIn(P, v) \subseteq KnownIn(Proves(P, y, x), v)
          /\ CandIn(P, v) = CandIn(Proves(P, y, x), v)
      <4>1. session[y] \in Addr
        BY <1>2
      <4> HIDE DEF P
      <4>2. QED BY <2>1, <4>1, ProvesIs
    <3>2. QED BY <3>1
  <2> HIDE DEF P, Q
  <2>3. peers' \in {peers, P, Q}
    BY <1>1 DEF P, Q
  <2>4. QED BY <2>1, <2>2, <2>3
<1>4. Knows(v) \subseteq Knows(v)' /\ HasCand(v) \subseteq HasCand(v)'
  BY <1>3 DEF Knows, HasCand
<1>5. Pair(v, w)
  BY <1>1 DEF Pair, Live
<1>6. QED BY <1>1, <1>4, <1>5, Still

LEMMA SoughtRetry ==
    ASSUME TypeOK, NEW v \in Client, NEW w \in Client, v # w,
           Pair(v, w) => WillKnow(v, w) /\ WillFind(v, w),
           NEW x \in Client, NEW y \in Client, Retry(x, y), Pair(v, w)'
    PROVE  WillKnow(v, w)' /\ WillFind(v, w)'
<1>1. /\ retry' = [retry EXCEPT ![x] = retry[x] \ {y}]
      /\ requests' = [requests EXCEPT ![x] = IF peers[x][y].known THEN requests[x] \cup {y}
                                             ELSE requests[x]]
      /\ UNCHANGED <<online, out, session, up, queue, peers, overtaken>>
  BY DEF Retry, server, link, table
<1>2. Pair(v, w) /\ WillKnow(v, w) /\ WillFind(v, w) /\ Knows(v)' = Knows(v) /\ HasCand(v)' = HasCand(v)
  BY <1>1 DEF Pair, Live, Knows, HasCand
<1>3. retry \in [Client -> SUBSET Client] /\ requests \in [Client -> SUBSET Client]
  BY DEF TypeOK
<1>4. CASE x # v
  BY <1>1, <1>2, <1>3, <1>4, Still
<1>5. CASE x = v /\ (y # w \/ peers[v][w].known)
  <2>1. WillAsk(v, w) => WillAsk(v, w)'
    BY <1>1, <1>3, <1>5 DEF WillAsk
  <2>2. Answering(v, w) => Answering(v, w)'
    BY <1>1 DEF Answering
  <2>3. QED BY <1>1, <1>2, <2>1, <2>2 DEF WillFind, WillKnow
(* The timer finds the peer gone: it has come back, and is still to be     *)
(* heard of.                                                               *)
<1>6. CASE x = v /\ y = w /\ ~peers[v][w].known
  <2>1. w \notin Knows(v)
    BY <1>6 DEF Knows, KnownIn
  <2>2. PICK i \in 1 .. Len(queue[v]) :
            Of(queue[v][i], News, w) /\ \A j \in i + 1 .. Len(queue[v]) : ~Parts(queue[v][j], w)
    BY <1>2, <2>1 DEF WillKnow, Ends
  <2>3. CASE Of(queue[v][i], {"HoleNotify"}, w)
    <3>1. Ends(queue[v], HasCand(v), {"HoleNotify"}, w)
      BY <2>2, <2>3 DEF Ends
    <3>2. QED BY <1>1, <1>2, <3>1 DEF WillFind, WillKnow
  <2>4. CASE Of(queue[v][i], Asking, w)
    <3>1. Has(queue[v], Asking, w)
      BY <2>2, <2>4 DEF Has
    <3>2. QED BY <1>1, <1>2, <3>1 DEF WillFind, WillKnow, WillAsk
  <2>5. QED BY <2>2, <2>3, <2>4 DEF Of, News, Asking
<1>7. QED BY <1>4, <1>5, <1>6

LEMMA SoughtDrop ==
    ASSUME TypeOK, NEW v \in Client, NEW w \in Client, v # w,
           Pair(v, w) => WillKnow(v, w) /\ WillFind(v, w),
           NEW x \in Client, Drop(x), Pair(v, w)'
    PROVE  WillKnow(v, w)' /\ WillFind(v, w)'
<1>1. /\ up' = up \ {x} /\ queue' = [queue EXCEPT ![x] = <<>>]
      /\ requests' = [requests EXCEPT ![x] = {}] /\ retry' = [retry EXCEPT ![x] = {}]
      /\ UNCHANGED <<online, out, session, peers, overtaken>>
  BY DEF Drop, server, table
<1>2. x # v /\ Pair(v, w) /\ Knows(v)' = Knows(v) /\ HasCand(v)' = HasCand(v)
  BY <1>1 DEF Pair, Live, Knows, HasCand
<1>3. queue'[v] = queue[v] /\ requests'[v] = requests[v] /\ retry'[v] = retry[v]
  BY <1>1, <1>2 DEF TypeOK
<1>4. QED BY <1>1, <1>2, <1>3, Still

LEMMA SoughtStep == TypeOK /\ Legible /\ Entered /\ Sought /\ [Next]_vars => Sought'
<1> SUFFICES ASSUME TypeOK, Legible, Entered, Sought, [Next]_vars,
                    NEW v \in Punching, NEW w \in Client \ {v}, Pair(v, w)'
             PROVE  WillKnow(v, w)' /\ WillFind(v, w)'
  BY DEF Sought, Pair
<1>1. v \in Client /\ v # w /\ w \in Client
  BY PunchAssumption
<1>2. Pair(v, w) => WillKnow(v, w) /\ WillFind(v, w)
  BY DEF Sought, Pair
<1>3. ASSUME NEW c \in Conn, ConnStep(c) PROVE WillKnow(v, w)' /\ WillFind(v, w)'
  BY <1>1, <1>2, <1>3, SoughtLeave, SoughtSend, SoughtHoleRequest DEF ConnStep
<1>4. ASSUME NEW x \in Client, ClientStep(x) PROVE WillKnow(v, w)' /\ WillFind(v, w)'
  <2>1. PICK y \in Client :
            \/ Join(x) \/ Drop(x) \/ Record(x) \/ Arrival(x) \/ Departure(x) \/ NotReady(x)
            \/ HoleNotify(x, y) \/ Retry(x, y) \/ Probe(x, y) \/ PunchEnds(x, y) \/ SendData(x, y)
    BY <1>1, <1>4 DEF ClientStep
  <2>2. QED
    BY <1>1, <1>2, <2>1, SoughtJoin, SoughtReads, SoughtPackets, SoughtRetry, SoughtDrop
<1>5. ASSUME Restart PROVE FALSE
  BY <1>1, <1>5 DEF Restart, Pair
<1>6. CASE UNCHANGED vars
  <2>1. Pair(v, w) /\ Knows(v)' = Knows(v) /\ HasCand(v)' = HasCand(v)
        /\ UNCHANGED <<queue, online, out, requests, retry>>
    BY <1>6 DEF vars, server, link, signals, table, Pair, Live, Knows, HasCand
  <2>2. QED BY <1>2, <2>1, Still
<1>7. QED BY <1>3, <1>4, <1>5, <1>6 DEF Next

-----------------------------------------------------------------------------
(* The theorems.                                                           *)

LEMMA InvInit == Init => IInv
<1> SUFFICES ASSUME Init PROVE IInv
  OBVIOUS
<1>1. Stranger \in Peer
  BY DEF Stranger, Peer, Addr
<1>2. TypeOK
  BY <1>1 DEF Init, TypeOK, Addr
<1>3. QED BY <1>2 DEF Init, IInv, Legible, Entered, Sought

LEMMA InvStep == IInv /\ [Next]_vars => IInv'
BY Types, EnteredStep, SoughtStep DEF IInv

(* The inductive invariant.                                                *)
THEOREM Invariant == Spec => []IInv
BY InvInit, InvStep, PTL DEF Spec

(* The server's tables and the clients' have the types of the code         *)
(* (Device, peer and the messages of signalling).                          *)
THEOREM TypeCorrect == Spec => []TypeOK
<1>1. IInv => TypeOK
  BY DEF IInv
<1>2. QED BY Invariant, <1>1, PTL

(* No hole request is lost between handleHoleRequest, its two answers, the *)
(* timers of "not ready" and the peers that come and go: once nothing is   *)
(* on its way, a connected device that punches has a candidate address of  *)
(* every device connected, or is going to ask again.                       *)
THEOREM NoRequestLost == Spec => []CandidateFound
<1>1. IInv => CandidateFound
  <2> SUFFICES ASSUME IInv, Quiet, NEW v \in Punching, NEW w \in Client \ {v},
                      Connected(v), Connected(w), <<v, w>> \notin overtaken
               PROVE  peers[v][w].cand # None \/ w \in requests[v] \cup retry[v]
    BY DEF CandidateFound
  <2>1. v \in Client /\ w \in Client /\ online[v] # None /\ online[w] # None
    BY PunchAssumption DEF IInv, Entered, Connected
  <2>2. WillFind(v, w)
    BY <2>1 DEF IInv, Sought, Connected, Live
  <2>3. queue[v] = <<>> /\ out[<<v, online[v]>>] = <<>>
    <3>1. <<v, online[v]>> \in Conn
      BY <2>1 DEF IInv, TypeOK, Addr, Conn
    <3>2. QED BY <2>1, <3>1 DEF Quiet
  <2>4. ~Answering(v, w) /\ ~Has(queue[v], Asking, w)
    BY <2>3 DEF Answering, Has
  <2>5. Ends(queue[v], HasCand(v), {"HoleNotify"}, w) => w \in HasCand(v)
    BY <2>3 DEF Ends
  <2>6. QED BY <2>2, <2>4, <2>5 DEF WillFind, WillAsk, HasCand, CandIn
<1>2. QED BY Invariant, <1>1, PTL
=============================================================================
