------------------------------ MODULE MuxProofs -----------------------------
(***************************************************************************)
(* Proofs about the multiplexer for any values of the constants. Of a      *)
(* connection: nothing written is lost, doubled or overtaken, and the count*)
(* of the send window is exact. Of the link: two connections never share   *)
(* an id, both ends mean the same connection by one, no message misses its *)
(* connection, and data wait for a bounded number of openings.             *)
(***************************************************************************)
EXTENDS MCMux, FiniteSetTheorems, WellFoundedInduction, TLAPS

-----------------------------------------------------------------------------
(* Induction over lengths, by a smallest counterexample.                   *)

Below == {ss \in Nat \X Nat : ss[1] < ss[2]}

(* Lengths cannot go down for ever.                                        *)
LEMMA BelowWellFounded == IsWellFoundedOn(Below, Nat)
BY NatLessThanWellFounded DEF OpToRel, Below

(* A set of naturals that is not empty has a smallest element.             *)
LEMMA Smallest ==
    ASSUME NEW T \in SUBSET Nat, T # {}
    PROVE  \E n \in T : \A m \in T : n <= m
<1>1. PICK n \in T : \A m \in T : <<m, n>> \notin Below
  BY BelowWellFounded, WFMin, Zenon
<1>2. \A m \in T : m < n => <<m, n>> \in Below
  BY DEF Below
<1>3. \A m \in T : n <= m
  <2>1. \A m \in T : m \in Nat /\ ~ m < n
    BY <1>1, <1>2
  <2>2. n \in Nat
    OBVIOUS
  <2> QED BY <2>1, <2>2
<1>4. QED BY <1>3

-----------------------------------------------------------------------------
(* What a sequence of acknowledgements says was read.                      *)

AckMessage == [max : Nat, read : Nat]

(* The partial sums of a sequence of acknowledgements.                     *)
Sums(s, f, n) ==
    /\ f \in [0 .. n -> Nat]
    /\ f[0] = 0
    /\ \A i \in 1 .. n : f[i] = f[i - 1] + s[i].read

(* What one acknowledgement says was read is a natural number.             *)
LEMMA ReadNat ==
    ASSUME NEW s \in Seq(AckMessage), NEW i \in 1 .. Len(s)
    PROVE  s[i].read \in Nat
<1>1. s[i] \in AckMessage
  OBVIOUS
<1>2. QED BY <1>1 DEF AckMessage

(* They exist, up to any length.                                           *)
LEMMA SumsExist ==
    ASSUME NEW s \in Seq(AckMessage), NEW n \in 0 .. Len(s)
    PROVE  \E f : Sums(s, f, n)
<1> DEFINE T == {m \in 0 .. Len(s) : ~ \E f : Sums(s, f, m)}
<1> SUFFICES ASSUME T # {} PROVE FALSE
  OBVIOUS
<1>1. PICK m \in T : \A k \in T : m <= k
  <2>1. T \in SUBSET Nat
    OBVIOUS
  <2> HIDE DEF T
  <2> QED BY <2>1, Smallest
<1>2. m # 0
  <2>1. Sums(s, [i \in 0 .. 0 |-> 0], 0)
    BY DEF Sums
  <2> QED BY <2>1
<1>3. PICK f : Sums(s, f, m - 1)
  BY <1>1, <1>2
<1> DEFINE g == [i \in 0 .. m |-> IF i = m THEN f[m - 1] + s[m].read ELSE f[i]]
<1>4. s[m].read \in Nat
  BY <1>2, ReadNat
<1>5. Sums(s, g, m)
  <2>1. \A i \in 0 .. m - 1 : f[i] \in Nat /\ g[i] = f[i]
    BY <1>2, <1>3 DEF Sums
  <2>2. g[m] = f[m - 1] + s[m].read /\ g[m] \in Nat
    <3>1. f[m - 1] \in Nat
      <4>1. m - 1 \in 0 .. m - 1
        BY <1>2
      <4> QED BY <2>1, <4>1
    <3> QED BY <1>2, <1>4, <3>1
  <2>3. g \in [0 .. m -> Nat]
    <3>1. \A i \in 0 .. m : i = m \/ i \in 0 .. m - 1
      BY <1>2
    <3> HIDE DEF g
    <3>2. \A i \in 0 .. m : g[i] \in Nat
      BY <2>1, <2>2, <3>1
    <3>3. g = [i \in 0 .. m |-> g[i]]
      BY DEF g
    <3> QED BY <3>2, <3>3
  <2>4. \A i \in 1 .. m : g[i] = g[i - 1] + s[i].read
    BY <1>2, <1>3, <2>1, <2>2 DEF Sums
  <2>5. g[0] = 0
    BY <1>2, <1>3, <2>1 DEF Sums
  <2> HIDE DEF g
  <2> QED BY <2>3, <2>4, <2>5 DEF Sums
<1> QED BY <1>5

(* ReadOf is the last of the partial sums.                                 *)
LEMMA ReadOfIs ==
    ASSUME NEW s \in Seq(AckMessage), NEW f, Sums(s, f, Len(s))
    PROVE  Window!ReadOf(s) = f[Len(s)] /\ Window!ReadOf(s) \in Nat
<1> DEFINE n == Len(s)
           sum == CHOOSE g : g = [i \in 0 .. n |-> IF i = 0 THEN 0 ELSE g[i - 1] + s[i].read]
<1>1. n \in Nat
  OBVIOUS
<1>2. f = [i \in 0 .. n |-> IF i = 0 THEN 0 ELSE f[i - 1] + s[i].read]
  BY <1>1 DEF Sums
<1>3. sum = [i \in 0 .. n |-> IF i = 0 THEN 0 ELSE sum[i - 1] + s[i].read]
  BY <1>2
<1>4. Window!ReadOf(s) = sum[n]
  BY DEF Window!ReadOf
<1> DEFINE T == {i \in 0 .. n : sum[i] # f[i]}
<1>5. T = {}
  <2> SUFFICES ASSUME T # {} PROVE FALSE
    OBVIOUS
  <2>1. T \in SUBSET Nat
    OBVIOUS
  <2>2. PICK m \in T : \A k \in T : m <= k
    <3> HIDE DEF T
    <3> QED BY <2>1, Smallest
  <2> HIDE DEF sum
  <2>3. m \in 0 .. n /\ sum[m] # f[m]
    OBVIOUS
  <2>4. m # 0
    BY <1>1, <1>3, <2>3 DEF Sums
  <2>5. m - 1 \in 0 .. n /\ sum[m - 1] = f[m - 1]
    BY <1>1, <2>2, <2>3, <2>4
  <2>6. sum[m] = sum[m - 1] + s[m].read
    BY <1>1, <1>3, <2>3, <2>4
  <2>7. f[m] = f[m - 1] + s[m].read
    BY <1>1, <2>3, <2>4 DEF Sums
  <2> QED BY <2>3, <2>5, <2>6, <2>7
<1>6. sum[n] = f[n]
  BY <1>1, <1>5
<1>7. f[n] \in Nat
  BY <1>1 DEF Sums
<1> QED BY <1>4, <1>6, <1>7

(* What acknowledgements say was read is a natural number, ...             *)
LEMMA ReadOfNat ==
    ASSUME NEW s \in Seq(AckMessage)
    PROVE  Window!ReadOf(s) \in Nat
<1>1. PICK f : Sums(s, f, Len(s))
  BY SumsExist
<1> QED BY <1>1, ReadOfIs

(* ... nothing where there is none, ...                                    *)
LEMMA ReadOfEmpty == Window!ReadOf(<<>>) = 0
<1>1. Sums(<<>>, [i \in 0 .. 0 |-> 0], Len(<<>>)) /\ <<>> \in Seq(AckMessage)
  BY DEF Sums
<1> QED BY <1>1, ReadOfIs

(* ... more by what the one sent last says, ...                            *)
LEMMA ReadOfAppend ==
    ASSUME NEW s \in Seq(AckMessage), NEW a \in AckMessage
    PROVE  Window!ReadOf(Append(s, a)) = Window!ReadOf(s) + a.read
<1> DEFINE t == Append(s, a)
<1>2. t \in Seq(AckMessage) /\ Len(t) = Len(s) + 1 /\ t[Len(t)] = a /\ Len(s) \in Nat
  OBVIOUS
<1>3. \A i \in 1 .. Len(s) : t[i] = s[i]
  OBVIOUS
<1> HIDE DEF t
<1>1. PICK f : Sums(t, f, Len(t))
  BY <1>2, SumsExist
<1> DEFINE g == [i \in 0 .. Len(s) |-> f[i]]
<1>4. Sums(s, g, Len(s))
  <2>1. \A i \in 0 .. Len(s) : i \in 0 .. Len(t) /\ f[i] \in Nat /\ g[i] = f[i]
    BY <1>1, <1>2 DEF Sums
  <2>2. g \in [0 .. Len(s) -> Nat] /\ g[0] = 0
    BY <1>1, <1>2, <2>1 DEF Sums
  <2>3. ASSUME NEW i \in 1 .. Len(s) PROVE g[i] = g[i - 1] + s[i].read
    <3>1. f[i] = f[i - 1] + t[i].read
      BY <1>1, <1>2 DEF Sums
    <3>2. i - 1 \in 0 .. Len(s) /\ i \in 0 .. Len(s)
      BY <1>2
    <3> QED BY <1>3, <2>1, <3>1, <3>2
  <2> QED BY <2>2, <2>3 DEF Sums
<1>5. Window!ReadOf(s) = g[Len(s)]
  BY <1>4, ReadOfIs
<1>6. Window!ReadOf(t) = f[Len(t)]
  BY <1>1, <1>2, ReadOfIs
<1>7. f[Len(t)] = f[Len(s)] + a.read
  BY <1>1, <1>2 DEF Sums
<1> QED BY <1>2, <1>5, <1>6, <1>7 DEF t

(* ... and less by what the one taken off the wire says.                   *)
LEMMA ReadOfTail ==
    ASSUME NEW s \in Seq(AckMessage), s # <<>>
    PROVE  Window!ReadOf(s) = s[1].read + Window!ReadOf(Tail(s))
<1> DEFINE t == Tail(s)
<1>1. PICK f : Sums(s, f, Len(s))
  BY SumsExist
<1>2. /\ t \in Seq(AckMessage) /\ Len(s) = Len(t) + 1 /\ Len(t) \in Nat
      /\ \A i \in 1 .. Len(t) : t[i] = s[i + 1]
  OBVIOUS
<1> HIDE DEF t
<1>3. s[1].read \in Nat
  BY <1>2, ReadNat
<1>4. PICK g : Sums(t, g, Len(t))
  BY <1>2, SumsExist
<1> DEFINE h == [i \in 0 .. Len(s) |-> IF i = 0 THEN 0 ELSE s[1].read + g[i - 1]]
<1>5. Sums(s, h, Len(s))
  <2>1. \A i \in 1 .. Len(s) : i - 1 \in 0 .. Len(t) /\ g[i - 1] \in Nat
    <3>1. \A i \in 1 .. Len(s) : i - 1 \in 0 .. Len(t)
      BY <1>2
    <3> QED BY <1>4, <3>1 DEF Sums
  <2>2. h \in [0 .. Len(s) -> Nat] /\ h[0] = 0
    BY <1>2, <1>3, <2>1
  <2>3. \A i \in 1 .. Len(s) : h[i] = s[1].read + g[i - 1]
    BY <1>2
  <2>4. ASSUME NEW i \in 1 .. Len(s) PROVE h[i] = h[i - 1] + s[i].read
    <3>1. CASE i = 1
      BY <1>2, <1>3, <1>4, <2>2, <2>3, <3>1 DEF Sums
    <3>2. CASE i # 1
      <4>1. i - 1 \in 1 .. Len(t) /\ i - 1 \in 1 .. Len(s)
        BY <1>2, <3>2
      <4>2. g[i - 1] = g[i - 2] + t[i - 1].read
        BY <1>4, <4>1 DEF Sums
      <4>3. t[i - 1] = s[i]
        BY <1>2, <4>1
      <4>4. h[i - 1] = s[1].read + g[i - 2]
        BY <2>3, <4>1
      <4>5. s[i].read \in Nat
        BY ReadNat
      <4>6. g[i - 2] \in Nat
        BY <2>1, <4>1
      <4>7. h[i] = s[1].read + g[i - 1]
        BY <2>3
      <4> HIDE DEF h
      <4> QED BY <1>3, <4>2, <4>3, <4>4, <4>5, <4>6, <4>7
    <3> QED BY <3>1, <3>2
  <2> HIDE DEF h
  <2> QED BY <2>2, <2>4 DEF Sums
<1>6. Window!ReadOf(s) = h[Len(s)]
  BY <1>5, ReadOfIs
<1>7. Window!ReadOf(t) = g[Len(t)]
  BY <1>2, <1>4, ReadOfIs
<1>8. h[Len(s)] = s[1].read + g[Len(t)]
  BY <1>2
<1> QED BY <1>6, <1>7, <1>8 DEF t
-----------------------------------------------------------------------------
(* The windows of a connection.                                            *)

chain   == wQueue.chain
taking  == wSession.pc \in {"swap", "length", "chain", "chain+"}   \* the session holds a segment
inHand  == IF taking THEN 1 ELSE 0
counted == IF wSession.pc \in {"chain", "chain+"} THEN 1 ELSE 0     \* and in the length
popped  == IF wReader.pc = "popped" THEN 1 ELSE 0
reading == IF wReader.pc \in {"popped", "load", "swap"} THEN 1 ELSE 0
leaving == IF wWriter.pc = "push" THEN 1 ELSE 0
last    == wWriter.sent - leaving                                    \* written and sent

(* The types of the windows' state, by name: a step is typed when each     *)
(* variable it changes is.                                                 *)
WriterType  == [pc : {"ready", "push", "wait", "failed"}, sent : 0 .. N]
EndAType    == [closed : BOOLEAN, closing : BOOLEAN, op : BOOLEAN, tokens : 0 .. 2, shut : BOOLEAN]
AckType     == [max : Sizes, read : 0 .. 2 * N] \cup {Window!Closing}
SessionType == [pc : {"idle", "swap", "length", "chain", "chain+", "signal", "ack"},
                seg : 0 .. N, saw : Window!Window, room : Nat]
ReaderType  == [pc : {"idle", "wait", "pop", "popped", "load", "swap", "eof"},
                seg : 0 .. N, saw : Window!Window, room : Nat]
QueueType   == [len : 0 .. N, wait : BOOLEAN, chain : Seq(1 .. N)]
EndBType    == [closed : BOOLEAN, op : BOOLEAN, stopped : BOOLEAN, tokens : 0 .. 2, full : BOOLEAN]
CloserType  == [Window!Closer -> {"no", "check", "set", "stop", "done"}]
Segments    == 0 .. N
SeqOfSegments == Seq(Segments)
SeqOfAcks   == Seq(AckType)
AckerType   == {"idle", "allow"}

Typed ==
    /\ wSend \in Window!Window /\ wRecv \in Window!Window
    /\ wWriter \in WriterType /\ wAcker \in AckerType /\ wEndA \in EndAType
    /\ wData \in SeqOfSegments /\ wAcks \in SeqOfAcks
    /\ wSession \in SessionType /\ wReader \in ReaderType /\ wQueue \in QueueType
    /\ wEndB \in EndBType /\ wCloser \in CloserType /\ wGot \in Segments

(* Typed is the type invariant of the windows.                             *)
LEMMA TypedIs == Typed <=> Window!TypeOK
BY Zenon DEF Typed, Window!TypeOK, WriterType, EndAType, AckType, SessionType, ReaderType,
             QueueType,
   EndBType, CloserType, Segments, SeqOfSegments, SeqOfAcks, AckerType

(* Always, closing included, segments come in the order they were written: *)
(* in the queue, being queued and on the wire, where a 0 closes.           *)
Chained ==
    /\ wGot <= last
    /\ \A i \in 1 .. Len(chain) : chain[i] >= wGot + i /\ chain[i] <= last
    /\ \A i, j \in 1 .. Len(chain) : i <= j => chain[j] - chain[i] >= j - i

Holding ==
    taking => /\ wSession.seg > wGot + Len(chain)
              /\ wSession.seg <= last
              /\ \A i \in 1 .. Len(chain) : wSession.seg - chain[i] >= Len(chain) + 1 - i

Underway ==
    \A i \in 1 .. Len(wData) : wData[i] # 0 =>
        /\ wData[i] > wGot
        /\ wData[i] <= last
        /\ \A k \in 1 .. Len(chain) : wData[i] > chain[k]
        /\ taking => wData[i] > wSession.seg
        /\ \A j \in 1 .. i - 1 : wData[j] < wData[i]

(* What is counted is there: the length of the queue, what was read since  *)
(* the last acknowledgement, and the segments the send window counts.      *)
Counted ==
    /\ wQueue.len = Len(chain) + counted + popped
    /\ wRecv.done + reading <= wGot
    /\ wSend.done <= wWriter.sent
    /\ leaving <= wWriter.sent

(* A close goes over the wire, and the queue is emptied, only after the    *)
(* window was closed.                                                      *)
Closed ==
    /\ ~wEndA.closed => \A i \in 1 .. Len(wData) : wData[i] # 0
    /\ \A q \in {"reader", "Close"} : wCloser[q] \in {"stop", "done"} => wEndB.op

(* While nobody closes, no segment is missing.                             *)
Complete ==
    Window!Open =>
        /\ wGot + Len(chain) + inHand + Len(wData) + leaving = wWriter.sent
        /\ \A i \in 1 .. Len(chain) : chain[i] = wGot + i
        /\ taking => wSession.seg = wGot + Len(chain) + 1
        /\ \A i \in 1 .. Len(wData) : wData[i] = wGot + Len(chain) + inHand + i

Credit ==
    Window!Open =>
        wSend.done = Len(chain) + inHand + Len(wData) + leaving + reading + wRecv.done
                     + Window!Unsent + Window!Acknowledged

WindowInv == Typed /\ Chained /\ Holding /\ Underway /\ Counted /\ Closed /\ Complete /\ Credit

(* A new connection has nothing to lose.                                   *)
LEMMA WindowInitInv == Window!Init => WindowInv
<1> SUFFICES ASSUME Window!Init PROVE WindowInv
  OBVIOUS
<1>1. N \in Nat /\ FirstSize \in Sizes
  BY BoundsOfWindow
<1>2. Window!NoWindow \in Window!Window
  BY <1>1 DEF Window!NoWindow, Window!Window
<1>3. Typed
  BY <1>1, <1>2 DEF Window!Init, Typed, Window!Nothing, Window!Closer, WriterType, EndAType,
                    AckType, SessionType,
     ReaderType, QueueType, EndBType, CloserType, Segments, SeqOfSegments, SeqOfAcks, AckerType
<1>4. Chained /\ Holding /\ Underway /\ Closed
  BY DEF Window!Init, Chained, Holding, Underway, Closed, Window!Nothing, Window!Closer,
         chain, taking,
         last, leaving
<1>5. Counted /\ Complete
  BY DEF Window!Init, Counted, Complete, Window!Nothing, Window!NoWindow, chain, taking,
         last, leaving, counted, popped, reading, inHand
<1>6. Credit
  BY ReadOfEmpty DEF Window!Init, Credit, Window!Nothing, Window!NoWindow, chain, taking,
                     leaving,
         reading, inHand, Window!Unsent, Window!Acknowledged
<1>7. QED BY <1>3, <1>4, <1>5, <1>6 DEF WindowInv

-----------------------------------------------------------------------------
(* What the types say of the numbers above.                                *)
LEMMA SizesNat == N \in Nat /\ N > 0 /\ Sizes \subseteq Nat
BY BoundsOfWindow

(* The elements of a sequence are in its set.                              *)
LEMMA Element ==
    ASSUME NEW S, NEW s \in Seq(S)
    PROVE  Len(s) \in Nat /\ \A i \in 1 .. Len(s) : s[i] \in S
OBVIOUS

(* A sequence of some values is one of more values, and two of them behind *)
(* each other are one.                                                     *)
LEMMA SeqWider ==
    ASSUME NEW S, NEW T, S \subseteq T, NEW s \in Seq(S)
    PROVE  s \in Seq(T)
<1>1. Len(s) \in Nat /\ s = [i \in 1 .. Len(s) |-> s[i]] /\ \A i \in 1 .. Len(s) : s[i] \in S
  OBVIOUS
<1> QED BY <1>1

(* Which element of the one or the other is the i-th of both.              *)
LEMMA Concatenation ==
    ASSUME NEW S, NEW s \in Seq(S), NEW t \in Seq(S)
    PROVE  /\ s \o t \in Seq(S)
           /\ Len(s \o t) = Len(s) + Len(t)
           /\ \A i \in 1 .. Len(s \o t) :
                 (s \o t)[i] = IF i <= Len(s) THEN s[i] ELSE t[i - Len(s)]
OBVIOUS

(* What is left of a sequence without its first element.                   *)
LEMMA TailIs ==
    ASSUME NEW S, NEW s \in Seq(S), s # <<>>
    PROVE  /\ Tail(s) \in Seq(S) /\ s[1] \in S /\ Head(s) = s[1]
           /\ Len(s) = Len(Tail(s)) + 1 /\ Len(Tail(s)) \in Nat
           /\ \A i \in 1 .. Len(Tail(s)) : i + 1 \in 1 .. Len(s) /\ Tail(s)[i] = s[i + 1]
OBVIOUS

(* The sequences and numbers of the windows are within their bounds.       *)
LEMMA Numbers ==
    ASSUME Typed
    PROVE  /\ chain \in Seq(1 .. N) /\ Len(chain) \in Nat
           /\ \A i \in 1 .. Len(chain) : chain[i] \in 1 .. N
           /\ wData \in Seq(0 .. N) /\ Len(wData) \in Nat
           /\ \A i \in 1 .. Len(wData) : wData[i] \in 0 .. N
           /\ wGot \in 0 .. N /\ wWriter.sent \in 0 .. N
           /\ wSession.seg \in 0 .. N /\ wQueue.len \in 0 .. N
           /\ wRecv.done \in 0 .. 2 * N /\ wSend.done \in 0 .. 2 * N
<1>1. chain \in Seq(1 .. N)
  BY DEF Typed, QueueType, chain
<1>2. wData \in Seq(0 .. N)
  BY DEF Typed, SeqOfSegments, Segments
<1>3. wGot \in 0 .. N /\ wWriter.sent \in 0 .. N
  BY DEF Typed, Segments, WriterType
<1>4. wSession.seg \in 0 .. N
  BY DEF Typed, SessionType
<1>5. wQueue.len \in 0 .. N
  BY DEF Typed, QueueType
<1>6. wRecv.done \in 0 .. 2 * N /\ wSend.done \in 0 .. 2 * N
  BY DEF Typed, Window!Window
<1>7. Len(chain) \in Nat /\ \A i \in 1 .. Len(chain) : chain[i] \in 1 .. N
  BY <1>1, Element
<1>8. Len(wData) \in Nat /\ \A i \in 1 .. Len(wData) : wData[i] \in 0 .. N
  BY <1>2, Element
<1> QED BY <1>1, <1>2, <1>3, <1>4, <1>5, <1>6, <1>7, <1>8

(* A phase counts for one or nothing.                                      *)
LEMMA Flags ==
    /\ inHand \in {0, 1} /\ counted \in {0, 1} /\ popped \in {0, 1}
    /\ reading \in {0, 1} /\ leaving \in {0, 1}
    /\ taking <=> inHand = 1
    /\ popped <= reading /\ counted <= inHand
BY DEF inHand, counted, popped, reading, leaving, taking

(* What is acknowledged, on the wire or not sent yet, are natural numbers. *)
LEMMA AcksNat ==
    ASSUME Typed
    PROVE  /\ wAcks \in Seq(AckMessage)
           /\ Window!Acknowledged \in Nat
           /\ Window!Unsent \in Nat
<1>1. AckType \subseteq AckMessage
  <2>1. 0 .. 2 * N \subseteq Nat /\ Sizes \subseteq Nat
    BY SizesNat
  <2>2. [max : Sizes, read : 0 .. 2 * N] \subseteq AckMessage
    BY <2>1 DEF AckMessage
  <2>3. Window!Closing \in AckMessage
    BY DEF AckMessage, Window!Closing
  <2> QED BY <2>2, <2>3 DEF AckType
<1>2. wAcks \in Seq(AckMessage)
  BY <1>1 DEF Typed, SeqOfAcks
<1>3. wSession.saw.done \in Nat
  BY SizesNat DEF Typed, SessionType, Window!Window
<1> QED BY <1>2, <1>3, ReadOfNat DEF Window!Acknowledged, Window!Unsent

(* A window stays one when what was read or whether it waits changes.      *)
LEMMA WindowChanges ==
    ASSUME NEW w \in Window!Window, NEW d \in 0 .. 2 * N, NEW b \in BOOLEAN, NEW m \in Sizes
    PROVE  /\ [w EXCEPT !.done = d] \in Window!Window
           /\ [w EXCEPT !.wait = b] \in Window!Window
           /\ [w EXCEPT !.max = m] \in Window!Window
           /\ [w EXCEPT !.done = d, !.wait = b] \in Window!Window
           /\ [max |-> m, done |-> d, wait |-> b] \in Window!Window
BY DEF Window!Window

(* The order is kept where none of what it speaks of changes, ...          *)
LEMMA OrderKept ==
    ASSUME Chained, Holding, Underway, chain' = chain, last' = last, wGot' = wGot,
           taking' = taking, taking => wSession.seg' = wSession.seg, wData' = wData
    PROVE  (Chained /\ Holding /\ Underway)'
BY DEF Chained, Holding, Underway

(* ... and so is what an open window has, ...                              *)
LEMMA CompleteKept ==
    ASSUME Complete, Window!Open' => Window!Open, chain' = chain, wGot' = wGot,
           taking' = taking, inHand' = inHand, taking => wSession.seg' = wSession.seg,
           wData' = wData,
           leaving' = leaving, wWriter.sent' = wWriter.sent
    PROVE  Complete'
BY DEF Complete

(* ... and the balance of the send window, ...                             *)
LEMMA CreditKept ==
    ASSUME Credit, Window!Open' => Window!Open, chain' = chain, inHand' = inHand,
           wData' = wData,
           leaving' = leaving, reading' = reading, wRecv.done' = wRecv.done,
           wSend.done' = wSend.done, Window!Unsent' = Window!Unsent,
           Window!Open' => Window!Acknowledged' = Window!Acknowledged
    PROVE  Credit'
BY DEF Credit

(* ... and what is counted.                                                *)
LEMMA CountedKept ==
    ASSUME Counted, chain' = chain, wGot' = wGot, counted' = counted, popped' = popped,
           wQueue.len' = wQueue.len, reading' = reading, wRecv.done' = wRecv.done,
           wSend.done' = wSend.done, leaving' = leaving, wWriter.sent' = wWriter.sent
    PROVE  Counted'
BY DEF Counted

(* A step that changes none of the numbers.                                *)
LEMMA Quiet ==
    ASSUME WindowInv, Typed', Closed', Window!Open' => Window!Open, chain' = chain,
           wGot' = wGot,
           wData' = wData, wQueue.len' = wQueue.len, wWriter.sent' = wWriter.sent,
           taking => wSession.seg' = wSession.seg, taking' = taking, counted' = counted,
           popped' = popped,
           reading' = reading, leaving' = leaving, wRecv.done' = wRecv.done,
           wSend.done' = wSend.done, Window!Unsent' = Window!Unsent,
           Window!Open' => Window!Acknowledged' = Window!Acknowledged
    PROVE  WindowInv'
<1>1. last' = last
  BY DEF last
<1>2. inHand' = inHand
  BY DEF inHand
<1>3. (Chained /\ Holding /\ Underway)'
  BY <1>1, OrderKept DEF WindowInv
<1>4. Complete'
  BY <1>2, CompleteKept DEF WindowInv
<1>5. Credit'
  BY <1>2, CreditKept DEF WindowInv
<1>6. Counted'
  BY CountedKept DEF WindowInv
<1> QED BY <1>3, <1>4, <1>5, <1>6 DEF WindowInv

(* A session or a reader that does nothing, and room that is left.         *)
LEMMA NothingTyped ==
    /\ Window!Nothing \in SessionType /\ Window!Nothing \in ReaderType
    /\ Window!Eof \in ReaderType
    /\ Window!Nothing.pc = "idle" /\ Window!Nothing.seg = 0 /\ Window!Eof.pc = "eof"
<1>1. Window!NoWindow \in Window!Window
  BY BoundsOfWindow DEF Window!NoWindow, Window!Window
<1>2. 0 \in 0 .. N
  BY SizesNat
<1>3. Window!Nothing \in SessionType /\ Window!Nothing \in ReaderType
  BY <1>1, <1>2 DEF Window!Nothing, SessionType, ReaderType
<1>4. Window!Eof \in ReaderType
  BY <1>1, <1>2 DEF Window!Nothing, ReaderType, Window!Eof
<1> QED BY <1>3, <1>4 DEF Window!Nothing, Window!Eof

(* The room of a window is a natural number.                               *)
LEMMA RoomNat ==
    ASSUME Typed, NEW w \in Window!Window, NEW l \in {0, 1}
    PROVE  Window!Room(w, l) \in Nat
<1>1. w.max \in Nat
  BY SizesNat DEF Window!Window
<1> QED BY <1>1, Numbers DEF Window!Room, Window!Monus

(* Tokens are taken and given.                                             *)
LEMMA TokenTaken ==
    /\ \A x \in EndAType : x.tokens > 0 =>
          /\ [x EXCEPT !.tokens = @ - 1] \in EndAType
          /\ [x EXCEPT !.tokens = @ - 1, !.shut = TRUE] \in EndAType
    /\ \A x \in EndAType : [x EXCEPT !.op = TRUE, !.tokens = 2] \in EndAType
    /\ \A x \in EndBType : x.tokens > 0 => [x EXCEPT !.tokens = @ - 1] \in EndBType
    /\ \A x \in EndBType : Window!Stopped(x) \in EndBType /\ Window!Stopped(x).op = x.op
                           /\ Window!Stopped(x).closed = x.closed
<1>1. \A n \in 0 .. 2 : n > 0 => n - 1 \in 0 .. 2
  OBVIOUS
<1>2. 2 \in 0 .. 2
  OBVIOUS
<1> QED BY <1>1, <1>2 DEF EndAType, EndBType, Window!Stopped

(* All of these are natural numbers.                                       *)
Countable ==
    /\ Len(chain) \in Nat /\ Len(wData) \in Nat /\ wGot \in Nat /\ wWriter.sent \in Nat
    /\ wSession.seg \in Nat /\ wQueue.len \in Nat /\ wRecv.done \in Nat /\ wSend.done \in Nat
    /\ inHand \in Nat /\ counted \in Nat /\ popped \in Nat /\ reading \in Nat /\ leaving \in Nat
    /\ Window!Unsent \in Nat /\ Window!Acknowledged \in Nat
    /\ N \in Nat /\ last \in Int

(* All that is added and compared below is a number.                       *)
LEMMA Ints == ASSUME Typed PROVE Countable
<1>1. /\ inHand \in Nat
      /\ counted \in Nat
      /\ popped \in Nat
      /\ reading \in Nat
      /\ leaving \in Nat
  BY Flags
<1>2. N \in Nat
  BY SizesNat
<1>3. wWriter.sent \in Nat
  BY <1>2, Numbers
<1>4. last \in Int
  BY <1>1, <1>3 DEF last
<1> QED BY <1>1, <1>2, <1>4, Numbers, AcksNat DEF Countable

(* What is left of a sum.                                                  *)
LEMMA Rest ==
    ASSUME NEW x, NEW y \in Nat, NEW n \in Nat, x = n + y
    PROVE  y = x - n /\ n <= x
OBVIOUS

-----------------------------------------------------------------------------
(* Steps that move no segment and no credit.                               *)
LEMMA WriteFailsStep ==
    ASSUME WindowInv, Window!WriteFails
    PROVE  WindowInv'
<1>a. Typed
  BY DEF WindowInv
<1>0. UNCHANGED <<wSend, wAcker, wEndA, wData, wAcks, wRecv, wSession, wReader, wQueue,
                  wEndB, wCloser, wGot>>
  BY DEF Window!WriteFails, Window!sender, Window!wire, Window!receiver
<1>t1. wWriter' \in WriterType
  BY <1>a DEF Typed, Window!WriteFails, WriterType
<1>t. Typed'
  BY <1>a, <1>0, <1>t1 DEF Typed
<1>c. Closed'
  BY <1>a, <1>0 DEF WindowInv, Closed, Window!WriteFails, Typed, CloserType, Window!Closer
<1>q. /\ chain' = chain /\ wGot' = wGot /\ wData' = wData /\ wQueue.len' = wQueue.len
      /\ wWriter.sent' = wWriter.sent /\ wSession.seg' = wSession.seg /\ wRecv.done' = wRecv.done
      /\ wSend.done' = wSend.done
  BY <1>a, <1>0 DEF Window!WriteFails, Typed, chain, WriterType
<1>f. /\ taking' = taking /\ counted' = counted /\ popped' = popped /\ reading' = reading
      /\ leaving' = leaving /\ Window!Unsent' = Window!Unsent
  BY <1>a, <1>0 DEF Window!WriteFails, Typed, taking, counted, popped, reading, leaving,
                    Window!Unsent, WriterType
<1>o. Window!Open' => Window!Open /\ Window!Acknowledged' = Window!Acknowledged
  BY <1>a, <1>0 DEF Window!WriteFails, Window!Open, Window!Acknowledged
<1> QED BY <1>t, <1>c, <1>q, <1>f, <1>o, Quiet

(* The writer is woken by an acknowledgement.                              *)
LEMMA AllowedStep ==
    ASSUME WindowInv, Window!Allowed
    PROVE  WindowInv'
<1>a. Typed
  BY DEF WindowInv
<1>0. UNCHANGED <<wSend, wEndA, wData, wAcks, wRecv, wSession, wReader, wQueue, wEndB,
                  wCloser, wGot>>
  BY DEF Window!Allowed, Window!sender, Window!wire, Window!receiver
<1>t1. wWriter' \in WriterType
  BY <1>a DEF Typed, Window!Allowed, WriterType
<1>t2. wAcker' \in AckerType
  BY <1>a DEF Typed, Window!Allowed, AckerType
<1>t. Typed'
  BY <1>a, <1>0, <1>t1, <1>t2 DEF Typed
<1>c. Closed'
  BY <1>a, <1>0 DEF WindowInv, Closed, Window!Allowed, Typed, CloserType, Window!Closer
<1>q. /\ chain' = chain /\ wGot' = wGot /\ wData' = wData /\ wQueue.len' = wQueue.len
      /\ wWriter.sent' = wWriter.sent /\ wSession.seg' = wSession.seg /\ wRecv.done' = wRecv.done
      /\ wSend.done' = wSend.done
  BY <1>a, <1>0 DEF Window!Allowed, Typed, chain, WriterType
<1>f. /\ taking' = taking /\ counted' = counted /\ popped' = popped /\ reading' = reading
      /\ leaving' = leaving /\ Window!Unsent' = Window!Unsent
  BY <1>a, <1>0 DEF Window!Allowed, Typed, taking, counted, popped, reading, leaving,
                    Window!Unsent, WriterType
<1>o. Window!Open' => Window!Open /\ Window!Acknowledged' = Window!Acknowledged
  BY <1>a, <1>0 DEF Window!Allowed, Window!Open, Window!Acknowledged
<1> QED BY <1>t, <1>c, <1>q, <1>f, <1>o, Quiet

(* The close of its window ends its wait.                                  *)
LEMMA WaitFailsStep ==
    ASSUME WindowInv, Window!WaitFails
    PROVE  WindowInv'
<1>a. Typed
  BY DEF WindowInv
<1>0. UNCHANGED <<wSend, wAcker, wData, wAcks, wRecv, wSession, wReader, wQueue, wEndB,
                  wCloser, wGot>>
  BY DEF Window!WaitFails, Window!sender, Window!wire, Window!receiver
<1>t1. wWriter' \in WriterType
  BY <1>a DEF Typed, Window!WaitFails, WriterType
<1>t2. wEndA' \in EndAType
  BY <1>a, TokenTaken DEF Typed, Window!WaitFails
<1>t. Typed'
  BY <1>a, <1>0, <1>t1, <1>t2 DEF Typed
<1>c. Closed'
  BY <1>a, <1>0 DEF WindowInv, Closed, Window!WaitFails, Typed, CloserType, Window!Closer,
                    EndAType
<1>q. /\ chain' = chain /\ wGot' = wGot /\ wData' = wData /\ wQueue.len' = wQueue.len
      /\ wWriter.sent' = wWriter.sent /\ wSession.seg' = wSession.seg /\ wRecv.done' = wRecv.done
      /\ wSend.done' = wSend.done
  BY <1>a, <1>0 DEF Window!WaitFails, Typed, chain, WriterType
<1>f. /\ taking' = taking /\ counted' = counted /\ popped' = popped /\ reading' = reading
      /\ leaving' = leaving /\ Window!Unsent' = Window!Unsent
  BY <1>a, <1>0 DEF Window!WaitFails, Typed, taking, counted, popped, reading, leaving,
                    Window!Unsent, WriterType
<1>o. Window!Open' => Window!Open /\ Window!Acknowledged' = Window!Acknowledged
  BY <1>a, <1>0 DEF Window!WaitFails, Window!Open, Window!Acknowledged, Typed, EndAType
<1> QED BY <1>t, <1>c, <1>q, <1>f, <1>o, Quiet

(* A wake-up gives up when the window is closed.                           *)
LEMMA AllowFailsStep ==
    ASSUME WindowInv, Window!AllowFails
    PROVE  WindowInv'
<1>a. Typed
  BY DEF WindowInv
<1>0. UNCHANGED <<wSend, wWriter, wData, wAcks, wRecv, wSession, wReader, wQueue, wEndB,
                  wCloser, wGot>>
  BY DEF Window!AllowFails, Window!sender, Window!wire, Window!receiver
<1>t1. wAcker' \in AckerType
  BY <1>a DEF Typed, Window!AllowFails, AckerType
<1>t2. wEndA' \in EndAType
  BY <1>a, TokenTaken DEF Typed, Window!AllowFails
<1>t. Typed'
  BY <1>a, <1>0, <1>t1, <1>t2 DEF Typed
<1>c. Closed'
  BY <1>a, <1>0 DEF WindowInv, Closed, Window!AllowFails, Typed, CloserType, Window!Closer,
                    EndAType
<1>q. /\ chain' = chain /\ wGot' = wGot /\ wData' = wData /\ wQueue.len' = wQueue.len
      /\ wWriter.sent' = wWriter.sent /\ wSession.seg' = wSession.seg /\ wRecv.done' = wRecv.done
      /\ wSend.done' = wSend.done
  BY <1>a, <1>0 DEF Window!AllowFails, Typed, chain
<1>f. /\ taking' = taking /\ counted' = counted /\ popped' = popped /\ reading' = reading
      /\ leaving' = leaving /\ Window!Unsent' = Window!Unsent
  BY <1>a, <1>0 DEF Window!AllowFails, Typed, taking, counted, popped, reading, leaving,
                    Window!Unsent
<1>o. Window!Open' => Window!Open /\ Window!Acknowledged' = Window!Acknowledged
  BY <1>a, <1>0 DEF Window!AllowFails, Window!Open, Window!Acknowledged, Typed, EndAType
<1> QED BY <1>t, <1>c, <1>q, <1>f, <1>o, Quiet

(* The sending window closes.                                              *)
LEMMA CloseWindowAStep ==
    ASSUME WindowInv, Window!CloseWindowA
    PROVE  WindowInv'
<1>a. Typed
  BY DEF WindowInv
<1>0. UNCHANGED <<wSend, wWriter, wAcker, wData, wAcks, wRecv, wSession, wReader, wQueue,
                  wEndB, wCloser, wGot>>
  BY DEF Window!CloseWindowA, Window!sender, Window!wire, Window!receiver
<1>t1. wEndA' \in EndAType
  BY <1>a, TokenTaken DEF Typed, Window!CloseWindowA
<1>t. Typed'
  BY <1>a, <1>0, <1>t1 DEF Typed
<1>c. Closed'
  BY <1>a, <1>0 DEF WindowInv, Closed, Window!CloseWindowA, Typed, CloserType, Window!Closer,
                    EndAType
<1>q. /\ chain' = chain /\ wGot' = wGot /\ wData' = wData /\ wQueue.len' = wQueue.len
      /\ wWriter.sent' = wWriter.sent /\ wSession.seg' = wSession.seg /\ wRecv.done' = wRecv.done
      /\ wSend.done' = wSend.done
  BY <1>a, <1>0 DEF Window!CloseWindowA, Typed, chain
<1>f. /\ taking' = taking /\ counted' = counted /\ popped' = popped /\ reading' = reading
      /\ leaving' = leaving /\ Window!Unsent' = Window!Unsent
  BY <1>a, <1>0 DEF Window!CloseWindowA, Typed, taking, counted, popped, reading, leaving,
                    Window!Unsent
<1>o. Window!Open' => Window!Open /\ Window!Acknowledged' = Window!Acknowledged
  BY <1>a, <1>0 DEF Window!CloseWindowA, Window!Open, Window!Acknowledged, Typed, EndAType
<1> QED BY <1>t, <1>c, <1>q, <1>f, <1>o, Quiet

(* A push wakes the reader that waits.                                     *)
LEMMA AllowPopStep ==
    ASSUME WindowInv, Window!AllowPop
    PROVE  WindowInv'
<1>a. Typed
  BY DEF WindowInv
<1>0. UNCHANGED <<wSend, wWriter, wAcker, wEndA, wData, wAcks, wRecv, wQueue, wCloser, wGot>>
  BY DEF Window!AllowPop, Window!sender, Window!wire, Window!receiver
<1>t1. wSession' \in SessionType
  BY <1>a DEF Typed, Window!AllowPop, SessionType, Window!Nothing, Window!NoWindow, Window!Eof
<1>t2. wReader' \in ReaderType
  BY <1>a, NothingTyped DEF Typed, Window!AllowPop, ReaderType
<1>t3. wEndB' \in EndBType
  BY <1>a DEF Typed, Window!AllowPop, EndBType, Window!Nothing, Window!NoWindow, Window!Eof
<1>t. Typed'
  BY <1>a, <1>0, <1>t1, <1>t2, <1>t3 DEF Typed
<1>c. Closed'
  BY <1>a, <1>0 DEF WindowInv, Closed, Window!AllowPop, Typed, CloserType, Window!Closer,
                    EndBType
<1>q. /\ chain' = chain /\ wGot' = wGot /\ wData' = wData /\ wQueue.len' = wQueue.len
      /\ wWriter.sent' = wWriter.sent /\ wSession.seg' = wSession.seg /\ wRecv.done' = wRecv.done
      /\ wSend.done' = wSend.done
  BY <1>a, <1>0 DEF Window!AllowPop, Typed, chain, SessionType
<1>f. /\ taking' = taking /\ counted' = counted /\ popped' = popped /\ reading' = reading
      /\ leaving' = leaving /\ Window!Unsent' = Window!Unsent
  BY <1>a, <1>0 DEF Window!AllowPop, Typed, taking, counted, popped, reading, leaving,
                    Window!Unsent, Window!Nothing, Window!NoWindow, Window!Eof, SessionType,
                    ReaderType
<1>o. Window!Open' => Window!Open /\ Window!Acknowledged' = Window!Acknowledged
  BY <1>a, <1>0 DEF Window!AllowPop, Window!Open, Window!Acknowledged, Typed, EndBType
<1> QED BY <1>t, <1>c, <1>q, <1>f, <1>o, Quiet

(* The reader finds the queue empty or not.                                *)
LEMMA PopStep ==
    ASSUME WindowInv, Window!Pop
    PROVE  WindowInv'
<1>a. Typed
  BY DEF WindowInv
<1>0. UNCHANGED <<wSend, wWriter, wAcker, wEndA, wData, wAcks, wRecv, wSession, wEndB,
                  wCloser, wGot>>
  BY DEF Window!Pop, Window!sender, Window!wire, Window!receiver
<1>t1. wReader' \in ReaderType
  BY <1>a, NothingTyped DEF Typed, Window!Pop, ReaderType, Window!Nothing, Window!NoWindow,
                            Window!Eof
<1>t2. wQueue' \in QueueType
  BY <1>a DEF Typed, Window!Pop, QueueType, Window!Nothing, Window!NoWindow, Window!Eof
<1>t. Typed'
  BY <1>a, <1>0, <1>t1, <1>t2 DEF Typed
<1>c. Closed'
  BY <1>a, <1>0 DEF WindowInv, Closed, Window!Pop, Typed, CloserType, Window!Closer
<1>q. /\ chain' = chain /\ wGot' = wGot /\ wData' = wData /\ wQueue.len' = wQueue.len
      /\ wWriter.sent' = wWriter.sent /\ wSession.seg' = wSession.seg /\ wRecv.done' = wRecv.done
      /\ wSend.done' = wSend.done
  BY <1>a, <1>0 DEF Window!Pop, Typed, chain, QueueType
<1>f. /\ taking' = taking /\ counted' = counted /\ popped' = popped /\ reading' = reading
      /\ leaving' = leaving /\ Window!Unsent' = Window!Unsent
  BY <1>a, <1>0 DEF Window!Pop, Typed, taking, counted, popped, reading, leaving,
                    Window!Unsent, Window!Nothing, Window!NoWindow, Window!Eof, ReaderType
<1>o. Window!Open' => Window!Open /\ Window!Acknowledged' = Window!Acknowledged
  BY <1>a, <1>0 DEF Window!Pop, Window!Open, Window!Acknowledged
<1> QED BY <1>t, <1>c, <1>q, <1>f, <1>o, Quiet

(* The stop of the queue or a deadline ends its wait.                      *)
LEMMA StopPopStep ==
    ASSUME WindowInv, Window!StopPop
    PROVE  WindowInv'
<1>a. Typed
  BY DEF WindowInv
<1>0. UNCHANGED <<wSend, wWriter, wAcker, wEndA, wData, wAcks, wRecv, wSession, wQueue, wGot>>
  BY DEF Window!StopPop, Window!sender, Window!wire, Window!receiver
<1>t1. wReader' \in ReaderType
  BY <1>a, NothingTyped DEF Typed, Window!StopPop, ReaderType
<1>t2. wEndB' \in EndBType
  BY <1>a DEF Typed, Window!StopPop, EndBType, Window!Nothing, Window!NoWindow, Window!Eof
<1>t3. wCloser' \in CloserType
  BY <1>a DEF Typed, Window!StopPop, CloserType, Window!Nothing, Window!NoWindow, Window!Eof
<1>t. Typed'
  BY <1>a, <1>0, <1>t1, <1>t2, <1>t3 DEF Typed
<1>c. Closed'
  BY <1>a, <1>0 DEF WindowInv, Closed, Window!StopPop, Typed, CloserType, Window!Closer,
                    EndBType
<1>q. /\ chain' = chain /\ wGot' = wGot /\ wData' = wData /\ wQueue.len' = wQueue.len
      /\ wWriter.sent' = wWriter.sent /\ wSession.seg' = wSession.seg /\ wRecv.done' = wRecv.done
      /\ wSend.done' = wSend.done
  BY <1>a, <1>0 DEF Window!StopPop, Typed, chain
<1>f. /\ taking' = taking /\ counted' = counted /\ popped' = popped /\ reading' = reading
      /\ leaving' = leaving /\ Window!Unsent' = Window!Unsent
  BY <1>a, <1>0 DEF Window!StopPop, Typed, taking, counted, popped, reading, leaving,
                    Window!Unsent, Window!Nothing, Window!NoWindow, Window!Eof, ReaderType
<1>o. Window!Open' => Window!Open /\ Window!Acknowledged' = Window!Acknowledged
  BY <1>a, <1>0 DEF Window!StopPop, Window!Open, Window!Acknowledged, Typed, EndBType
<1> QED BY <1>t, <1>c, <1>q, <1>f, <1>o, Quiet

(* The reader loads the receive window and computes the room.              *)
LEMMA LoadStatusStep ==
    ASSUME WindowInv, Window!LoadStatus
    PROVE  WindowInv'
<1>a. Typed
  BY DEF WindowInv
<1>0. UNCHANGED <<wSend, wWriter, wAcker, wEndA, wData, wAcks, wRecv, wSession, wQueue,
                  wEndB, wCloser, wGot>>
  BY DEF Window!LoadStatus, Window!sender, Window!wire, Window!receiver
<1>t1. wReader' \in ReaderType
  BY <1>a, RoomNat DEF Typed, Window!LoadStatus, ReaderType
<1>t. Typed'
  BY <1>a, <1>0, <1>t1 DEF Typed
<1>c. Closed'
  BY <1>a, <1>0 DEF WindowInv, Closed, Window!LoadStatus, Typed, CloserType, Window!Closer
<1>q. /\ chain' = chain /\ wGot' = wGot /\ wData' = wData /\ wQueue.len' = wQueue.len
      /\ wWriter.sent' = wWriter.sent /\ wSession.seg' = wSession.seg /\ wRecv.done' = wRecv.done
      /\ wSend.done' = wSend.done
  BY <1>a, <1>0 DEF Window!LoadStatus, Typed, chain
<1>f. /\ taking' = taking /\ counted' = counted /\ popped' = popped /\ reading' = reading
      /\ leaving' = leaving /\ Window!Unsent' = Window!Unsent
  BY <1>a, <1>0 DEF Window!LoadStatus, Typed, taking, counted, popped, reading, leaving,
                    Window!Unsent, ReaderType
<1>o. Window!Open' => Window!Open /\ Window!Acknowledged' = Window!Acknowledged
  BY <1>a, <1>0 DEF Window!LoadStatus, Window!Open, Window!Acknowledged
<1> QED BY <1>t, <1>c, <1>q, <1>f, <1>o, Quiet

(* The receiving side tells the peer that it closes.                       *)
LEMMA CloseBStep ==
    ASSUME WindowInv, Window!CloseB
    PROVE  WindowInv'
<1>a. Typed
  BY DEF WindowInv
<1>0. UNCHANGED <<wSend, wWriter, wAcker, wEndA, wData, wRecv, wSession, wReader, wQueue,
                  wGot>>
  BY DEF Window!CloseB, Window!sender, Window!wire, Window!receiver
<1>t1. wAcks' \in SeqOfAcks
  BY <1>a DEF Typed, Window!CloseB, SeqOfAcks, AckType
<1>t2. wEndB' \in EndBType
  BY <1>a DEF Typed, Window!CloseB, EndBType
<1>t3. wCloser' \in CloserType
  BY <1>a DEF Typed, Window!CloseB, CloserType
<1>t. Typed'
  BY <1>a, <1>0, <1>t1, <1>t2, <1>t3 DEF Typed
<1>c. Closed'
  BY <1>a, <1>0 DEF WindowInv, Closed, Window!CloseB, Typed, CloserType, Window!Closer,
                    EndBType
<1>q. /\ chain' = chain /\ wGot' = wGot /\ wData' = wData /\ wQueue.len' = wQueue.len
      /\ wWriter.sent' = wWriter.sent /\ wSession.seg' = wSession.seg /\ wRecv.done' = wRecv.done
      /\ wSend.done' = wSend.done
  BY <1>a, <1>0 DEF Window!CloseB, Typed, chain
<1>f. /\ taking' = taking /\ counted' = counted /\ popped' = popped /\ reading' = reading
      /\ leaving' = leaving /\ Window!Unsent' = Window!Unsent
  BY <1>a, <1>0 DEF Window!CloseB, Typed, taking, counted, popped, reading, leaving,
                    Window!Unsent
<1>o. Window!Open' => Window!Open /\ Window!Acknowledged' = Window!Acknowledged
  BY <1>a, <1>0 DEF Window!CloseB, Window!Open, Window!Acknowledged, Typed, EndBType
<1> QED BY <1>t, <1>c, <1>q, <1>f, <1>o, Quiet

(* Closing reads whether it is closed ...                                  *)
LEMMA CheckCloseBStep ==
    ASSUME WindowInv, NEW q \in Window!Closer, Window!CheckCloseB(q)
    PROVE  WindowInv'
<1>a. Typed
  BY DEF WindowInv
<1>0. UNCHANGED <<wSend, wWriter, wAcker, wEndA, wData, wAcks, wRecv, wSession, wReader,
                  wQueue, wEndB, wGot>>
  BY DEF Window!CheckCloseB, Window!sender, Window!wire, Window!receiver
<1>t1. wCloser' \in CloserType
  BY <1>a DEF Typed, Window!CheckCloseB, CloserType
<1>t. Typed'
  BY <1>a, <1>0, <1>t1 DEF Typed
<1>c. Closed'
  BY <1>a, <1>0 DEF WindowInv, Closed, Window!CheckCloseB, Typed, CloserType, Window!Closer
<1>q. /\ chain' = chain /\ wGot' = wGot /\ wData' = wData /\ wQueue.len' = wQueue.len
      /\ wWriter.sent' = wWriter.sent /\ wSession.seg' = wSession.seg /\ wRecv.done' = wRecv.done
      /\ wSend.done' = wSend.done
  BY <1>a, <1>0 DEF Window!CheckCloseB, Typed, chain
<1>f. /\ taking' = taking /\ counted' = counted /\ popped' = popped /\ reading' = reading
      /\ leaving' = leaving /\ Window!Unsent' = Window!Unsent
  BY <1>a, <1>0 DEF Window!CheckCloseB, Typed, taking, counted, popped, reading, leaving,
                    Window!Unsent
<1>o. Window!Open' => Window!Open /\ Window!Acknowledged' = Window!Acknowledged
  BY <1>a, <1>0 DEF Window!CheckCloseB, Window!Open, Window!Acknowledged
<1> QED BY <1>t, <1>c, <1>q, <1>f, <1>o, Quiet

(* ... and sets it in another step.                                        *)
LEMMA SetCloseBStep ==
    ASSUME WindowInv, NEW q \in Window!Closer, Window!SetCloseB(q)
    PROVE  WindowInv'
<1>a. Typed
  BY DEF WindowInv
<1>0. UNCHANGED <<wSend, wWriter, wAcker, wEndA, wData, wAcks, wRecv, wSession, wReader,
                  wQueue, wGot>>
  BY DEF Window!SetCloseB, Window!sender, Window!wire, Window!receiver
<1>t1. wEndB' \in EndBType
  BY <1>a DEF Typed, Window!SetCloseB, EndBType
<1>t2. wCloser' \in CloserType
  BY <1>a DEF Typed, Window!SetCloseB, CloserType
<1>t. Typed'
  BY <1>a, <1>0, <1>t1, <1>t2 DEF Typed
<1>c. Closed'
  BY <1>a, <1>0 DEF WindowInv, Closed, Window!SetCloseB, Typed, CloserType, Window!Closer,
                    EndBType
<1>q. /\ chain' = chain /\ wGot' = wGot /\ wData' = wData /\ wQueue.len' = wQueue.len
      /\ wWriter.sent' = wWriter.sent /\ wSession.seg' = wSession.seg /\ wRecv.done' = wRecv.done
      /\ wSend.done' = wSend.done
  BY <1>a, <1>0 DEF Window!SetCloseB, Typed, chain
<1>f. /\ taking' = taking /\ counted' = counted /\ popped' = popped /\ reading' = reading
      /\ leaving' = leaving /\ Window!Unsent' = Window!Unsent
  BY <1>a, <1>0 DEF Window!SetCloseB, Typed, taking, counted, popped, reading, leaving,
                    Window!Unsent
<1>o. Window!Open' => Window!Open /\ Window!Acknowledged' = Window!Acknowledged
  BY <1>a, <1>0 DEF Window!SetCloseB, Window!Open, Window!Acknowledged, Typed, EndBType
<1> QED BY <1>t, <1>c, <1>q, <1>f, <1>o, Quiet

-----------------------------------------------------------------------------
(* Writing.                                                                *)
LEMMA WriteToStep ==
    ASSUME WindowInv, Window!WriteTo
    PROVE  WindowInv'
<1>a. Typed
  BY DEF WindowInv
<1>0. UNCHANGED <<wAcker, wEndA, wData, wAcks, wRecv, wSession, wReader, wQueue, wEndB,
                  wCloser, wGot>>
  BY DEF Window!WriteTo, Window!sender, Window!wire, Window!receiver
<1>i. Countable
  BY <1>a, Ints
<1>s. /\ chain' = chain /\ taking' = taking /\ inHand' = inHand
      /\ counted' = counted /\ popped' = popped /\ reading' = reading
      /\ Window!Unsent' = Window!Unsent /\ Window!Open' = Window!Open
      /\ Window!Acknowledged' = Window!Acknowledged
  BY <1>0 DEF chain, taking, inHand, counted, popped, reading, Window!Unsent, Window!Open,
              Window!Acknowledged
<1>1. CASE wSend.max > wSend.done
  <2>1. /\ wWriter.pc = "ready" /\ wWriter.sent < N
        /\ wSend' = [wSend EXCEPT !.done = wSend.done + 1]
        /\ wWriter' = [pc |-> "push", sent |-> wWriter.sent + 1]
    BY <1>1 DEF Window!WriteTo
  <2>2. wSend.done + 1 \in 0 .. 2 * N
    <3>1. wSend.done \in Nat /\ N \in Nat /\ wWriter.sent \in Nat /\ wWriter.sent < N
      BY <1>i, <2>1 DEF Countable
    <3>2. wSend.done <= wWriter.sent
      BY DEF WindowInv, Counted
    <3> QED BY <3>1, <3>2
  <2>3. wSend' \in Window!Window
    BY <1>a, <2>1, <2>2 DEF Typed, Window!Window
  <2>4. wSend.done' = wSend.done + 1 /\ wWriter.sent' = wWriter.sent + 1
    BY <1>a, <2>1 DEF Typed, Window!Window
  <2>5. wWriter' \in WriterType
    <3>1. wWriter.sent \in Nat /\ N \in Nat /\ wWriter.sent < N
      BY <1>i, <2>1 DEF Countable
    <3>2. wWriter.sent + 1 \in 0 .. N
      BY <3>1
    <3> QED BY <2>1, <3>2 DEF WriterType
  <2>6. leaving = 0 /\ leaving' = 1
    BY <2>1 DEF leaving
  <2>7. last' = last
    BY <1>a, <2>4, <2>6, Numbers DEF last
  <2>8. Typed'
    BY <1>a, <1>0, <2>3, <2>5 DEF Typed
  <2>9. (Chained /\ Holding /\ Underway)'
    BY <1>0, <1>s, <2>7, OrderKept DEF WindowInv
  <2>10. Counted'
    BY <1>a, <1>0, <1>s, <2>4, <2>6, Numbers DEF WindowInv, Counted
  <2>11. Closed'
    BY <1>0 DEF WindowInv, Closed
  <2>12. Complete'
    BY <1>a, <1>0, <1>s, <2>4, <2>6, Numbers, Flags DEF WindowInv, Complete
  <2>13. Credit'
    <3>1. Credit
      BY DEF WindowInv
    <3> QED BY <1>a, <1>0, <1>s, <2>4, <2>6, <3>1, <1>i DEF Countable, Credit
  <2> QED BY <2>8, <2>9, <2>10, <2>11, <2>12, <2>13 DEF WindowInv
<1>2. CASE ~ wSend.max > wSend.done
  <2>1. /\ wWriter.pc = "ready"
        /\ wSend' = [wSend EXCEPT !.wait = TRUE]
        /\ wWriter' = [wWriter EXCEPT !.pc = "wait"]
    BY <1>2 DEF Window!WriteTo
  <2>2. wSend' \in Window!Window /\ wWriter' \in WriterType
    BY <1>a, <2>1 DEF Typed, Window!Window, WriterType
  <2>3. Typed'
    BY <1>a, <1>0, <2>2 DEF Typed
  <2>4. wSend.done' = wSend.done /\ wWriter.sent' = wWriter.sent
    BY <1>a, <2>1 DEF Typed, Window!Window, WriterType
  <2>5. leaving' = leaving
    BY <1>a, <2>1 DEF Typed, WriterType, leaving
  <2>6. Closed'
    BY <1>0 DEF WindowInv, Closed
  <2> QED BY <1>0, <1>s, <2>3, <2>4, <2>5, <2>6, Quiet
<1> QED BY <1>1, <1>2

(* A segment that was counted goes over the wire.                          *)
LEMMA WriteFullStep ==
    ASSUME WindowInv, Window!WriteFull
    PROVE  WindowInv'
<1>a. Typed
  BY DEF WindowInv
<1>0. UNCHANGED <<wSend, wAcker, wEndA, wAcks, wRecv, wSession, wReader, wQueue, wEndB,
                  wCloser, wGot>>
  BY DEF Window!WriteFull, Window!sender, Window!wire, Window!receiver
<1>i. Countable
  BY <1>a, Ints
<1>s. /\ chain' = chain /\ taking' = taking /\ inHand' = inHand
      /\ counted' = counted /\ popped' = popped /\ reading' = reading
      /\ Window!Unsent' = Window!Unsent /\ Window!Open' = Window!Open
      /\ Window!Acknowledged' = Window!Acknowledged
  BY <1>0 DEF chain, taking, inHand, counted, popped, reading, Window!Unsent, Window!Open,
              Window!Acknowledged
<1>1. /\ wWriter.pc = "push" /\ wData' = Append(wData, wWriter.sent)
      /\ wWriter' = [wWriter EXCEPT !.pc = "ready"]
  BY DEF Window!WriteFull
<1>2. leaving = 1 /\ leaving' = 0 /\ wWriter.sent' = wWriter.sent
  BY <1>a, <1>1 DEF Typed, WriterType, leaving
<1>3. last + 1 = wWriter.sent /\ last' = wWriter.sent /\ last \in Nat
  BY <1>a, <1>2, Numbers DEF last, WindowInv, Counted
<1>4. /\ Len(wData') = Len(wData) + 1 /\ wData'[Len(wData) + 1] = wWriter.sent
      /\ \A i \in 1 .. Len(wData) : wData'[i] = wData[i]
  BY <1>a, <1>1, Numbers
<1>t. Typed'
  <2>1. wData' \in SeqOfSegments
    BY <1>a, <1>1, Numbers DEF SeqOfSegments, Segments
  <2>2. wWriter' \in WriterType
    BY <1>a, <1>1 DEF Typed, WriterType
  <2> QED BY <1>a, <1>0, <2>1, <2>2 DEF Typed
<1>5. Chained' /\ Holding'
  BY <1>a, <1>0, <1>s, <1>3, Numbers DEF WindowInv, Chained, Holding
<1>6. Underway'
  <2> SUFFICES ASSUME NEW i \in 1 .. Len(wData'), wData'[i] # 0
               PROVE  /\ wData'[i] > wGot
                      /\ wData'[i] <= wWriter.sent
                      /\ \A k \in 1 .. Len(chain) : wData'[i] > chain[k]
                      /\ taking => wData'[i] > wSession.seg
                      /\ \A j \in 1 .. i - 1 : wData'[j] < wData'[i]
    BY <1>0, <1>s, <1>3 DEF Underway
  <2>1. CASE i \in 1 .. Len(wData)
    <3>1. \A j \in 1 .. i - 1 : wData'[j] = wData[j]
      BY <1>a, <1>4, <2>1, Numbers
    <3>2. wData'[i] = wData[i]
      BY <1>4, <2>1
    <3> QED BY <1>a, <1>3, <2>1, <3>1, <3>2, Numbers DEF WindowInv, Underway
  <2>2. CASE i = Len(wData) + 1
    <3>1. wData'[i] = last + 1
      BY <1>3, <1>4, <2>2
    <3>2. wGot <= last /\ \A k \in 1 .. Len(chain) : chain[k] <= last
      BY DEF WindowInv, Chained
    <3>3. taking => wSession.seg <= last
      BY DEF WindowInv, Holding
    <3>4. \A j \in 1 .. i - 1 : wData'[j] < wData'[i]
      <4>1. \A j \in 1 .. i - 1 : j \in 1 .. Len(wData) /\ wData'[j] = wData[j]
        BY <1>a, <1>4, <2>2, Numbers
      <4>2. \A j \in 1 .. Len(wData) : wData[j] <= last /\ wData[j] \in Nat
        BY <1>a, <1>3, Numbers DEF WindowInv, Underway
      <4>3. \A j \in 1 .. i - 1 : wData'[j] <= last /\ wData'[j] \in Nat
        BY <4>1, <4>2
      <4> QED BY <1>3, <3>1, <4>3
    <3>5. \A k \in 1 .. Len(chain) : chain[k] \in Nat
      BY <1>a, Numbers
    <3>6. wData'[i] > wGot /\ wData'[i] <= wWriter.sent
      BY <1>a, <1>3, <3>1, <3>2, <1>i DEF Countable
    <3>7. \A k \in 1 .. Len(chain) : wData'[i] > chain[k]
      BY <1>3, <3>1, <3>2, <3>5
    <3>8. taking => wData'[i] > wSession.seg
      BY <1>a, <1>3, <3>1, <3>3, <1>i DEF Countable
    <3> QED BY <3>4, <3>6, <3>7, <3>8
  <2> QED BY <1>a, <1>4, <2>1, <2>2, Numbers
<1>7. Counted'
  BY <1>a, <1>0, <1>s, <1>2, Numbers DEF WindowInv, Counted
<1>8. Closed'
  BY <1>a, <1>0, <1>2, <1>4, Numbers DEF WindowInv, Closed, Counted
<1>9. Complete'
  <2> SUFFICES ASSUME Window!Open
               PROVE  /\ wGot + Len(chain) + inHand + Len(wData') + leaving' = wWriter.sent
                      /\ \A i \in 1 .. Len(chain) : chain[i] = wGot + i
                      /\ taking => wSession.seg = wGot + Len(chain) + 1
                      /\ \A i \in 1 .. Len(wData') : wData'[i] = wGot + Len(chain) + inHand + i
    BY <1>0, <1>s, <1>2 DEF Complete
  <2>1. /\ wGot + Len(chain) + inHand + Len(wData) + leaving = wWriter.sent
        /\ \A i \in 1 .. Len(chain) : chain[i] = wGot + i
        /\ taking => wSession.seg = wGot + Len(chain) + 1
        /\ \A i \in 1 .. Len(wData) : wData[i] = wGot + Len(chain) + inHand + i
    BY DEF WindowInv, Complete
  <2>2. wGot + Len(chain) + inHand + Len(wData') + leaving' = wWriter.sent
    BY <1>a, <1>2, <1>4, <2>1, <1>i DEF Countable
  <2>3. wWriter.sent = wGot + Len(chain) + inHand + (Len(wData) + 1)
    BY <1>a, <1>2, <2>1, <1>i DEF Countable
  <2>4. ASSUME NEW i \in 1 .. Len(wData') PROVE wData'[i] = wGot + Len(chain) + inHand + i
    <3>1. i \in 1 .. Len(wData) \/ i = Len(wData) + 1
      BY <1>a, <1>4, <1>i DEF Countable
    <3> QED BY <1>4, <2>1, <2>3, <3>1
  <2> QED BY <2>1, <2>2, <2>4
<1>10. Credit'
  <2>1. Credit
    BY DEF WindowInv
  <2> QED BY <1>a, <1>0, <1>s, <1>2, <1>4, <2>1, <1>i DEF Countable, Credit
<1> QED BY <1>t, <1>5, <1>6, <1>7, <1>8, <1>9, <1>10 DEF WindowInv

(* Acknowledgements.                                                       *)
LEMMA SetSizeStep ==
    ASSUME WindowInv, Window!SetSize
    PROVE  WindowInv'
<1>a. Typed
  BY DEF WindowInv
<1>0. UNCHANGED <<wWriter, wEndA, wData, wRecv, wSession, wReader, wQueue, wEndB, wCloser,
                  wGot>>
  BY DEF Window!SetSize, Window!sender, Window!wire, Window!receiver
<1>i. Countable
  BY <1>a, Ints
<1>s. /\ chain' = chain /\ taking' = taking /\ inHand' = inHand
      /\ counted' = counted /\ popped' = popped /\ reading' = reading
      /\ leaving' = leaving /\ last' = last /\ Window!Unsent' = Window!Unsent
      /\ Window!Open' = Window!Open
  BY <1>0 DEF chain, taking, inHand, counted, popped, reading, leaving, last, Window!Unsent,
              Window!Open
<1>1. /\ wAcks # <<>> /\ wAcks' = Tail(wAcks) /\ wAcks[1] # Window!Closing
      /\ wAcks \in Seq(AckType)
  BY <1>a DEF Window!SetSize, Typed, SeqOfAcks
<1> DEFINE a == wAcks[1]
<1>2. a \in [max : Sizes, read : 0 .. 2 * N]
  BY <1>1, TailIs DEF AckType
<1>3. Window!Acknowledged = a.read + Window!Acknowledged'
  BY <1>a, <1>1, AcksNat, ReadOfTail DEF Window!Acknowledged
<1>4. wAcks' \in SeqOfAcks
  BY <1>1, TailIs DEF SeqOfAcks
<1>5. a.read \in Nat /\ a.max \in Sizes
  <2>1. 0 .. 2 * N \subseteq Nat
    OBVIOUS
  <2> QED BY <1>2, <2>1
<1>6. Window!Acknowledged' \in Nat
  <2>1. Window!ReadOf(wAcks') \in Nat
    BY <1>1, <1>a, AcksNat, TailIs, ReadOfNat
  <2> QED BY <2>1 DEF Window!Acknowledged
<1> DEFINE n == a.read
<1>n. n \in Nat /\ Window!Acknowledged' = Window!Acknowledged - n /\ n <= Window!Acknowledged
  <2> HIDE DEF n
  <2>1. n \in Nat /\ Window!Acknowledged = n + Window!Acknowledged'
    BY <1>3, <1>5 DEF n
  <2> QED BY <1>6, <2>1, Rest
<1>c. Closed'
  BY <1>0 DEF WindowInv, Closed
<1>7. CASE /\ wEndA.closed \/ n > wSend.done \/ n = 0
           /\ UNCHANGED <<wSend, wAcker>>
  <2>1. Typed'
    BY <1>a, <1>0, <1>4, <1>7 DEF Typed
  <2>2. Window!Open' => Window!Acknowledged' = Window!Acknowledged
    <3> SUFFICES ASSUME Window!Open PROVE Window!Acknowledged' = Window!Acknowledged
      BY <1>s
    <3>1. ~ wEndA.closed
      BY DEF Window!Open
    <3>2. wSend.done = Len(chain) + inHand + Len(wData) + leaving + reading + wRecv.done
                       + Window!Unsent + Window!Acknowledged
      BY DEF WindowInv, Credit
    <3> HIDE DEF n
    <3>3. n <= wSend.done
      BY <1>i, <1>n, <3>2 DEF Countable
    <3>4. n = 0
      BY <1>n, <1>7, <1>i, <3>1, <3>3 DEF Countable
    <3> QED BY <1>n, <1>i, <3>4 DEF Countable
  <2> QED BY <1>0, <1>s, <1>7, <1>c, <2>1, <2>2, Quiet
<1>8. CASE /\ ~ n > wSend.done
           /\ \E b \in BOOLEAN : wSend' = [max |-> a.max, done |-> wSend.done - n, wait |-> b]
           /\ wAcker' \in AckerType
  <2>1. wSend.done - n \in 0 .. 2 * N
    <3>1. wSend.done \in 0 .. 2 * N /\ N \in Nat
      BY <1>a, Numbers, SizesNat
    <3> HIDE DEF n
    <3> QED BY <1>n, <1>8, <3>1
  <2>2. wSend' \in Window!Window /\ wSend.done' = wSend.done - n
    <3> HIDE DEF n
    <3> QED BY <1>5, <1>8, <2>1 DEF Window!Window
  <2>3. Typed'
    BY <1>a, <1>0, <1>4, <1>8, <2>2 DEF Typed
  <2>4. last' = last
    BY <1>0 DEF last, leaving
  <2>5. (Chained /\ Holding /\ Underway)'
    BY <1>0, <1>s, <2>4, OrderKept DEF WindowInv
  <2>6. Complete'
    BY <1>0, <1>s, CompleteKept DEF WindowInv
  <2> HIDE DEF n
  <2>7. Counted'
    <3>1. Counted
      BY DEF WindowInv
    <3> QED BY <1>0, <1>s, <1>n, <1>i, <2>2, <3>1 DEF Countable, Counted
  <2>8. Credit'
    <3>1. Credit
      BY DEF WindowInv
    <3> QED BY <1>0, <1>s, <1>n, <1>i, <2>2, <3>1 DEF Countable, Credit
  <2> QED BY <1>c, <2>3, <2>5, <2>6, <2>7, <2>8 DEF WindowInv
<1>9. <1>7!1 \/ <1>8!1
  BY DEF Window!SetSize, AckerType
<1> QED BY <1>7, <1>8, <1>9

(* The sender learns that the other side closed.                           *)
LEMMA ClosedByPeerStep ==
    ASSUME WindowInv, Window!ClosedByPeer
    PROVE  WindowInv'
<1>a. Typed
  BY DEF WindowInv
<1>0. UNCHANGED <<wSend, wWriter, wAcker, wData, wRecv, wSession, wReader, wQueue, wEndB,
                  wCloser, wGot>>
  BY DEF Window!ClosedByPeer, Window!sender, Window!wire, Window!receiver
<1>i. Countable
  BY <1>a, Ints
<1>s. /\ chain' = chain /\ taking' = taking /\ inHand' = inHand
      /\ counted' = counted /\ popped' = popped /\ reading' = reading
      /\ leaving' = leaving /\ last' = last /\ Window!Unsent' = Window!Unsent
  BY <1>0 DEF chain, taking, inHand, counted, popped, reading, leaving, last, Window!Unsent
<1>1. /\ wAcks # <<>> /\ wAcks' = Tail(wAcks) /\ wAcks[1] = Window!Closing
      /\ wAcks \in Seq(AckType)
  BY <1>a DEF Window!ClosedByPeer, Typed, SeqOfAcks
<1>2. Window!Acknowledged = wAcks[1].read + Window!Acknowledged'
  BY <1>a, <1>1, AcksNat, ReadOfTail DEF Window!Acknowledged
<1>3. Window!Acknowledged' \in Nat
  <2>1. Window!ReadOf(wAcks') \in Nat
    BY <1>1, <1>a, AcksNat, TailIs, ReadOfNat
  <2> QED BY <2>1 DEF Window!Acknowledged
<1>4. Window!Acknowledged' = Window!Acknowledged
  <2>1. wAcks[1].read = 0
    BY <1>1 DEF Window!Closing
  <2>2. Window!Acknowledged = 0 + Window!Acknowledged'
    BY <1>2, <2>1
  <2>3. Window!Acknowledged' = Window!Acknowledged - 0
    BY <1>3, <2>2, Rest
  <2> QED BY <1>i, <2>3 DEF Countable
<1>5. wAcks' \in SeqOfAcks
  BY <1>1, TailIs DEF SeqOfAcks
<1>6. wEndA' = [wEndA EXCEPT !.closing = ~ wEndA.closed]
  BY DEF Window!ClosedByPeer
<1>7. wEndA' \in EndAType /\ wEndA.closed' = wEndA.closed
  BY <1>a, <1>6 DEF Typed, EndAType
<1>8. Typed'
  BY <1>a, <1>0, <1>5, <1>7 DEF Typed
<1>9. Closed' /\ (Window!Open' => Window!Open)
  BY <1>0, <1>7 DEF WindowInv, Closed, Window!Open
<1> QED BY <1>0, <1>s, <1>4, <1>8, <1>9, Quiet

(* Closing at A.                                                           *)
LEMMA CloseAStep ==
    ASSUME WindowInv, Window!CloseA
    PROVE  WindowInv'
<1>a. Typed
  BY DEF WindowInv
<1>0. UNCHANGED <<wSend, wWriter, wAcker, wAcks, wRecv, wSession, wReader, wQueue, wEndB,
                  wCloser, wGot>>
  BY DEF Window!CloseA, Window!sender, Window!wire, Window!receiver
<1>i. Countable
  BY <1>a, Ints
<1>s. /\ chain' = chain /\ taking' = taking /\ inHand' = inHand
      /\ counted' = counted /\ popped' = popped /\ reading' = reading
      /\ leaving' = leaving /\ last' = last /\ Window!Unsent' = Window!Unsent
      /\ Window!Acknowledged' = Window!Acknowledged
  BY <1>0 DEF chain, taking, inHand, counted, popped, reading, leaving, last, Window!Unsent,
              Window!Acknowledged
<1>1. wData' = Append(wData, 0) /\ wEndA' = [wEndA EXCEPT !.closed = TRUE]
  BY DEF Window!CloseA
<1>2. wEndA' \in EndAType /\ wEndA.closed' = TRUE
  BY <1>a, <1>1 DEF Typed, EndAType
<1>3. wData' \in SeqOfSegments
  BY <1>a, <1>1, <1>i, Numbers DEF SeqOfSegments, Segments, Countable
<1>4. Typed'
  BY <1>a, <1>0, <1>2, <1>3 DEF Typed
<1>5. /\ Len(wData') = Len(wData) + 1 /\ wData'[Len(wData) + 1] = 0
      /\ \A i \in 1 .. Len(wData) : wData'[i] = wData[i]
  BY <1>a, <1>1, Numbers
<1>6. Chained' /\ Holding'
  BY <1>0, <1>s DEF WindowInv, Chained, Holding
<1>7. Underway'
  <2> SUFFICES ASSUME NEW i \in 1 .. Len(wData'), wData'[i] # 0
               PROVE  /\ wData'[i] > wGot
                      /\ wData'[i] <= last
                      /\ \A k \in 1 .. Len(chain) : wData'[i] > chain[k]
                      /\ taking => wData'[i] > wSession.seg
                      /\ \A j \in 1 .. i - 1 : wData'[j] < wData'[i]
    BY <1>0, <1>s DEF Underway
  <2>1. i \in 1 .. Len(wData)
    BY <1>5, <1>i DEF Countable
  <2>2. \A j \in 1 .. i - 1 : wData'[j] = wData[j]
    BY <1>5, <1>i, <2>1 DEF Countable
  <2> QED BY <1>5, <2>1, <2>2 DEF WindowInv, Underway
<1>8. Counted'
  BY <1>0, <1>s, CountedKept DEF WindowInv
<1>9. Closed'
  BY <1>0, <1>2 DEF WindowInv, Closed
<1>10. Complete' /\ Credit'
  BY <1>2 DEF Complete, Credit, Window!Open
<1> QED BY <1>4, <1>6, <1>7, <1>8, <1>9, <1>10 DEF WindowInv

(* Arriving.                                                               *)

(* What is under way stays in order when its first element leaves.         *)
LEMMA UnderwayTail ==
    ASSUME Typed, Underway, wData # <<>>, wData' = Tail(wData), chain' = chain, wGot' = wGot,
           last' = last, taking' => taking /\ wSession.seg' = wSession.seg
    PROVE  Underway'
<1>1. /\ Len(wData) = Len(wData') + 1 /\ Len(wData') \in Nat
      /\ \A i \in 1 .. Len(wData') : i + 1 \in 1 .. Len(wData) /\ wData'[i] = wData[i + 1]
  BY Numbers, TailIs
<1> SUFFICES ASSUME NEW i \in 1 .. Len(wData'), wData'[i] # 0
             PROVE  /\ wData'[i] > wGot
                    /\ wData'[i] <= last
                    /\ \A k \in 1 .. Len(chain) : wData'[i] > chain[k]
                    /\ taking' => wData'[i] > wSession.seg'
                    /\ \A j \in 1 .. i - 1 : wData'[j] < wData'[i]
  BY DEF Underway
<1>2. i + 1 \in 1 .. Len(wData) /\ wData'[i] = wData[i + 1]
  BY <1>1
<1>3. /\ wData[i + 1] > wGot
      /\ wData[i + 1] <= last
      /\ \A k \in 1 .. Len(chain) : wData[i + 1] > chain[k]
      /\ taking => wData[i + 1] > wSession.seg
      /\ \A j \in 1 .. i : wData[j] < wData[i + 1]
  BY <1>2 DEF Underway
<1>4. \A j \in 1 .. i - 1 : j + 1 \in 1 .. i /\ wData'[j] = wData[j + 1]
  BY <1>1
<1> QED BY <1>2, <1>3, <1>4

(* A segment comes off the wire.                                           *)
LEMMA ReceiveStep ==
    ASSUME WindowInv, Window!Receive
    PROVE  WindowInv'
<1>a. Typed
  BY DEF WindowInv
<1>0. UNCHANGED <<wSend, wWriter, wAcker, wEndA, wAcks, wReader, wQueue, wEndB, wCloser, wGot>>
  BY DEF Window!Receive, Window!sender, Window!wire, Window!receiver
<1>i. Countable
  BY <1>a, Ints
<1>s. /\ chain' = chain /\ popped' = popped /\ reading' = reading
      /\ leaving' = leaving /\ last' = last /\ Window!Open' = Window!Open
      /\ Window!Acknowledged' = Window!Acknowledged
  BY <1>0 DEF chain, popped, reading, leaving, last, Window!Open, Window!Acknowledged
<1>1. /\ wSession.pc = "idle" /\ wData # <<>> /\ wData[1] # 0 /\ wData' = Tail(wData)
  BY DEF Window!Receive
<1>2. /\ Len(wData) = Len(wData') + 1 /\ Len(wData') \in Nat /\ wData' \in Seq(0 .. N)
      /\ \A i \in 1 .. Len(wData') : i + 1 \in 1 .. Len(wData) /\ wData'[i] = wData[i + 1]
  BY <1>a, <1>1, Numbers, TailIs
<1>3. wData' \in SeqOfSegments
  BY <1>2 DEF SeqOfSegments, Segments
<1>4. ~ taking /\ inHand = 0 /\ counted = 0 /\ Window!Unsent = 0
  BY <1>1 DEF taking, inHand, counted, Window!Unsent
<1>5. Closed'
  BY <1>0, <1>2 DEF WindowInv, Closed
<1>6. CASE (wEndB.closed \/ wEndB.op) /\ UNCHANGED <<wRecv, wSession>>
  <2>1. Typed'
    BY <1>a, <1>0, <1>3, <1>6 DEF Typed
  <2>2. taking' = taking /\ inHand' = inHand /\ counted' = counted
    BY <1>6 DEF taking, inHand, counted
  <2>3. Chained' /\ Holding'
    BY <1>0, <1>s, <1>6, <2>2 DEF WindowInv, Chained, Holding
  <2>4. Underway'
    BY <1>a, <1>0, <1>s, <1>1, <1>4, <2>2, UnderwayTail DEF WindowInv
  <2>5. Counted'
    BY <1>0, <1>s, <1>6, <2>2, CountedKept DEF WindowInv
  <2>6. Complete' /\ Credit'
    BY <1>0, <1>6 DEF Complete, Credit, Window!Open
  <2> QED BY <1>5, <2>1, <2>3, <2>4, <2>5, <2>6 DEF WindowInv
<1>7. ASSUME NEW m \in Sizes,
             wRecv' = [wRecv EXCEPT !.max = m],
             wSession' = [pc |-> "swap", seg |-> wData[1], saw |-> [wRecv EXCEPT !.max = m],
                          room |-> Window!Room([wRecv EXCEPT !.max = m], 1)]
      PROVE  WindowInv'
  <2>1. wRecv' \in Window!Window /\ wRecv.done' = wRecv.done
    BY <1>a, <1>7 DEF Typed, Window!Window
  <2>2. wData[1] \in 0 .. N
    BY <1>a, <1>1, Numbers, TailIs
  <2>3. Window!Room([wRecv EXCEPT !.max = m], 1) \in Nat
    BY <1>a, <1>7, <2>1, RoomNat
  <2>4. wSession' \in SessionType
    BY <1>7, <2>1, <2>2, <2>3 DEF SessionType
  <2>5. Typed'
    BY <1>a, <1>0, <1>3, <2>1, <2>4 DEF Typed
  <2>6. wSession.pc' = "swap" /\ wSession.seg' = wData[1]
    BY <1>7
  <2>7. taking' /\ inHand' = 1 /\ counted' = 0 /\ Window!Unsent' = 0
    BY <2>6 DEF taking, inHand, counted, Window!Unsent
  <2>8. 1 \in 1 .. Len(wData)
    BY <1>2
  <2>9. /\ wData[1] > wGot /\ wData[1] <= last
        /\ \A k \in 1 .. Len(chain) : wData[1] > chain[k]
    BY <1>1, <2>8 DEF WindowInv, Underway
  <2>10. Chained'
    BY <1>0, <1>s DEF WindowInv, Chained
  <2>11. Holding'
    <3>1. /\ wData[1] > wGot + Len(chain)
          /\ \A i \in 1 .. Len(chain) : wData[1] - chain[i] >= Len(chain) + 1 - i
      <4>1. wGot \in Nat /\ Len(chain) \in Nat
        BY <1>i DEF Countable
      <4>2. \A i \in 1 .. Len(chain) : chain[i] \in Nat
        BY <1>a, <1>i, Numbers DEF Countable
      <4>3. CASE Len(chain) = 0
        BY <2>2, <2>9, <4>1, <4>3
      <4>4. CASE Len(chain) # 0
        <5>1. Len(chain) \in 1 .. Len(chain)
          BY <4>1, <4>4
        <5>2. /\ chain[Len(chain)] >= wGot + Len(chain)
              /\ \A i \in 1 .. Len(chain) : chain[Len(chain)] - chain[i] >= Len(chain) - i
          BY <5>1 DEF WindowInv, Chained
        <5>3. wData[1] > chain[Len(chain)] /\ wData[1] \in Nat /\ chain[Len(chain)] \in Nat
          BY <2>2, <2>9, <4>2, <5>1
        <5> QED BY <4>1, <4>2, <5>2, <5>3
      <4> QED BY <4>3, <4>4
    <3> QED BY <1>0, <1>s, <2>6, <2>9, <3>1 DEF Holding
  <2>12. Underway'
    <3> SUFFICES ASSUME NEW i \in 1 .. Len(wData'), wData'[i] # 0
                 PROVE  /\ wData'[i] > wGot
                        /\ wData'[i] <= last
                        /\ \A k \in 1 .. Len(chain) : wData'[i] > chain[k]
                        /\ wData'[i] > wData[1]
                        /\ \A j \in 1 .. i - 1 : wData'[j] < wData'[i]
      BY <1>0, <1>s, <2>6 DEF Underway
    <3>1. i + 1 \in 1 .. Len(wData) /\ wData'[i] = wData[i + 1]
      BY <1>2
    <3>2. /\ wData[i + 1] > wGot
          /\ wData[i + 1] <= last
          /\ \A k \in 1 .. Len(chain) : wData[i + 1] > chain[k]
          /\ \A j \in 1 .. i : wData[j] < wData[i + 1]
      BY <3>1 DEF WindowInv, Underway
    <3>3. \A j \in 1 .. i - 1 : j + 1 \in 1 .. i /\ wData'[j] = wData[j + 1]
      BY <1>2
    <3>4. 1 \in 1 .. i
      OBVIOUS
    <3> QED BY <3>1, <3>2, <3>3, <3>4
  <2>13. Counted'
    <3>1. Counted
      BY DEF WindowInv
    <3> QED BY <1>0, <1>s, <1>4, <1>i, <2>1, <2>7, <3>1 DEF Counted, Countable
  <2>14. Complete'
    <3> SUFFICES ASSUME Window!Open
                 PROVE  /\ wGot + Len(chain) + 1 + Len(wData') + leaving = wWriter.sent
                        /\ \A i \in 1 .. Len(chain) : chain[i] = wGot + i
                        /\ wData[1] = wGot + Len(chain) + 1
                        /\ \A i \in 1 .. Len(wData') : wData'[i] = wGot + Len(chain) + 1 + i
      BY <1>0, <1>s, <2>6, <2>7 DEF Complete
    <3>1. /\ wGot + Len(chain) + 0 + Len(wData) + leaving = wWriter.sent
          /\ \A i \in 1 .. Len(chain) : chain[i] = wGot + i
          /\ \A i \in 1 .. Len(wData) : wData[i] = wGot + Len(chain) + 0 + i
      BY <1>4 DEF WindowInv, Complete
    <3>2. wGot + Len(chain) + 1 + Len(wData') + leaving = wWriter.sent
      BY <1>2, <1>i, <3>1 DEF Countable
    <3>3. wData[1] = wGot + Len(chain) + 1
      BY <1>i, <2>8, <3>1 DEF Countable
    <3>4. ASSUME NEW i \in 1 .. Len(wData') PROVE wData'[i] = wGot + Len(chain) + 1 + i
      <4>1. wData[i + 1] = wGot + Len(chain) + 0 + (i + 1)
        BY <1>2, <3>1
      <4> QED BY <1>2, <1>i, <4>1 DEF Countable
    <3> QED BY <3>1, <3>2, <3>3, <3>4
  <2>15. Credit'
    <3>1. Credit
      BY DEF WindowInv
    <3> QED BY <1>0, <1>s, <1>2, <1>4, <1>i, <2>1, <2>7, <3>1 DEF Credit, Countable
  <2> QED BY <1>5, <2>5, <2>10, <2>11, <2>12, <2>13, <2>14, <2>15 DEF WindowInv
<1> QED BY <1>6, <1>7 DEF Window!Receive

(* The session marks a full window, or takes what was read to be           *)
(* acknowledged, or starts again where the window changed meanwhile.       *)
LEMMA SwapWaitStep ==
    ASSUME WindowInv, Window!SwapWait
    PROVE  WindowInv'
<1>a. Typed
  BY DEF WindowInv
<1>0. UNCHANGED <<wSend, wWriter, wAcker, wEndA, wData, wAcks, wReader, wQueue, wEndB,
                  wCloser, wGot>>
  BY DEF Window!SwapWait, Window!sender, Window!wire, Window!receiver
<1>i. Countable
  BY <1>a, Ints
<1>s. /\ chain' = chain /\ popped' = popped /\ reading' = reading
      /\ leaving' = leaving /\ last' = last /\ Window!Open' = Window!Open
      /\ Window!Acknowledged' = Window!Acknowledged
  BY <1>0 DEF chain, popped, reading, leaving, last, Window!Open, Window!Acknowledged
<1>c. Closed'
  BY <1>0 DEF WindowInv, Closed
<1>1. wSession.pc = "swap" /\ wSession.room \in Nat /\ wSession.saw \in Window!Window
  BY <1>a DEF Window!SwapWait, Typed, SessionType
<1>2. taking /\ inHand = 1 /\ counted = 0 /\ Window!Unsent = 0
  BY <1>1 DEF taking, inHand, counted, Window!Unsent
<1>3. CASE /\ wSession.saw.wait
           /\ wSession' = [wSession EXCEPT !.pc = "length", !.room = 0]
           /\ wRecv' = wRecv
  <2>1. wSession' \in SessionType /\ wSession.pc' = "length" /\ wSession.seg' = wSession.seg
        /\ wSession.room' = 0
    BY <1>a, <1>3 DEF Typed, SessionType
  <2>2. taking' = taking /\ counted' = counted /\ Window!Unsent' = Window!Unsent
    BY <1>2, <2>1 DEF taking, counted, Window!Unsent
  <2>3. Typed'
    BY <1>a, <1>0, <1>3, <2>1 DEF Typed
  <2> QED BY <1>0, <1>s, <1>c, <1>3, <2>1, <2>2, <2>3, Quiet
<1>4. CASE /\ wSession' = [wSession EXCEPT !.saw = wRecv, !.room = Window!Room(wRecv, 1)]
           /\ wRecv' = wRecv
  <2>1. Window!Room(wRecv, 1) \in Nat
    BY <1>a, RoomNat DEF Typed
  <2>2. wSession' \in SessionType /\ wSession.pc' = "swap" /\ wSession.seg' = wSession.seg
    BY <1>a, <1>1, <1>4, <2>1 DEF Typed, SessionType
  <2>3. taking' = taking /\ counted' = counted /\ Window!Unsent' = Window!Unsent
    BY <1>2, <2>2 DEF taking, counted, Window!Unsent
  <2>4. Typed'
    BY <1>a, <1>0, <1>4, <2>2 DEF Typed
  <2> QED BY <1>0, <1>s, <1>c, <1>4, <2>2, <2>3, <2>4, Quiet
<1>5. CASE wSession.room = 0 /\ wSession' = [wSession EXCEPT !.pc = "length"]
           /\ wRecv' = [wRecv EXCEPT !.wait = TRUE]
  <2>1. wSession' \in SessionType /\ wSession.pc' = "length" /\ wSession.seg' = wSession.seg
        /\ wSession.room' = 0
    BY <1>a, <1>5 DEF Typed, SessionType
  <2>2. wRecv' \in Window!Window /\ wRecv.done' = wRecv.done
    BY <1>a, <1>5 DEF Typed, Window!Window
  <2>3. taking' = taking /\ counted' = counted /\ Window!Unsent' = Window!Unsent
    BY <1>2, <2>1 DEF taking, counted, Window!Unsent
  <2>4. Typed'
    BY <1>a, <1>0, <2>1, <2>2 DEF Typed
  <2> QED BY <1>0, <1>s, <1>c, <2>1, <2>2, <2>3, <2>4, Quiet
<1>6. CASE /\ wSession.room # 0
           /\ wRecv = wSession.saw
           /\ wSession' = [wSession EXCEPT !.pc = "length"]
           /\ wRecv' = [wRecv EXCEPT !.done = 0]
  <2>1. /\ wSession' \in SessionType /\ wSession.pc' = "length" /\ wSession.seg' = wSession.seg
        /\ wSession.room' > 0 /\ wSession.saw' = wRecv
    BY <1>a, <1>1, <1>6 DEF Typed, SessionType
  <2>2. wRecv' \in Window!Window /\ wRecv.done' = 0
    <3>1. N \in Nat
      BY <1>i DEF Countable
    <3>2. 0 \in 0 .. 2 * N
      BY <3>1
    <3> QED BY <1>a, <1>6, <3>2 DEF Typed, Window!Window
  <2>3. taking' = taking /\ inHand' = inHand /\ counted' = counted
    BY <1>2, <2>1 DEF taking, inHand, counted
  <2>4. Window!Unsent' = wRecv.done
    BY <2>1 DEF Window!Unsent
  <2>5. Typed'
    BY <1>a, <1>0, <2>1, <2>2 DEF Typed
  <2>6. (Chained /\ Holding /\ Underway)'
    BY <1>0, <1>s, <2>1, <2>3, OrderKept DEF WindowInv
  <2>7. Complete'
    BY <1>0, <1>s, <2>1, <2>3, CompleteKept DEF WindowInv
  <2>8. Counted'
    <3>1. Counted
      BY DEF WindowInv
    <3> QED BY <1>0, <1>s, <1>i, <2>2, <2>3, <3>1 DEF Counted, Countable
  <2>9. Credit'
    <3>1. Credit
      BY DEF WindowInv
    <3> QED BY <1>0, <1>s, <1>i, <1>2, <2>2, <2>3, <2>4, <3>1 DEF Credit, Countable
  <2> QED BY <1>c, <2>5, <2>6, <2>7, <2>8, <2>9 DEF WindowInv
<1> QED BY <1>3, <1>4, <1>5, <1>6 DEF Window!SwapWait

(* A segment is counted in the length of the queue before it is linked ... *)
LEMMA PushLengthStep ==
    ASSUME WindowInv, Window!PushLength
    PROVE  WindowInv'
<1>a. Typed
  BY DEF WindowInv
<1>0. UNCHANGED <<wSend, wWriter, wAcker, wEndA, wData, wAcks, wRecv, wReader, wEndB,
                  wCloser, wGot>>
  BY DEF Window!PushLength, Window!sender, Window!wire, Window!receiver
<1>i. Countable
  BY <1>a, Ints
<1>s. /\ popped' = popped /\ reading' = reading /\ leaving' = leaving
      /\ last' = last /\ Window!Open' = Window!Open
      /\ Window!Acknowledged' = Window!Acknowledged
  BY <1>0 DEF popped, reading, leaving, last, Window!Open, Window!Acknowledged
<1>1. /\ wSession.pc = "length"
      /\ wSession' = [wSession EXCEPT !.pc = IF wQueue.wait THEN "chain+" ELSE "chain"]
      /\ wQueue' = [wQueue EXCEPT !.len = @ + 1, !.wait = FALSE]
  BY DEF Window!PushLength
<1>2. /\ wSession' \in SessionType
      /\ wSession.pc' \in {"chain", "chain+"}
      /\ wSession.seg' = wSession.seg
      /\ wSession.room' = wSession.room /\ wSession.saw' = wSession.saw
  BY <1>a, <1>1 DEF Typed, SessionType
<1>3. taking /\ taking' /\ inHand' = inHand /\ counted = 0 /\ counted' = 1 /\ inHand = 1
  BY <1>1, <1>2 DEF taking, inHand, counted
<1>4. Window!Unsent' = Window!Unsent
  BY <1>1, <1>2 DEF Window!Unsent
<1>5. wQueue.len + 1 \in 0 .. N
  <2>1. /\ wQueue.len = Len(chain) + 0 + popped /\ wRecv.done + reading <= wGot
        /\ wSession.seg > wGot + Len(chain) /\ wSession.seg <= last /\ last = wWriter.sent - leaving
        /\ popped <= reading
    BY <1>3, Flags DEF WindowInv, Counted, Holding, last
  <2>2. wWriter.sent <= N
    BY <1>a, <1>i, Numbers DEF Countable
  <2>3. wQueue.len + 1 <= wSession.seg
    BY <1>i, <2>1 DEF Countable
  <2>4. wSession.seg <= N
    BY <1>i, <2>1, <2>2 DEF Countable
  <2> QED BY <1>i, <2>3, <2>4 DEF Countable
<1>6. wQueue' \in QueueType /\ wQueue.len' = wQueue.len + 1 /\ chain' = chain
  BY <1>a, <1>1, <1>5 DEF Typed, QueueType, chain
<1>7. Typed'
  BY <1>a, <1>0, <1>2, <1>6 DEF Typed
<1>8. (Chained /\ Holding /\ Underway)'
  BY <1>0, <1>s, <1>2, <1>3, <1>6, OrderKept DEF WindowInv
<1>9. Complete'
  BY <1>0, <1>s, <1>2, <1>3, <1>6, CompleteKept DEF WindowInv
<1>10. Credit'
  BY <1>0, <1>s, <1>3, <1>4, <1>6, CreditKept DEF WindowInv
<1>11. Counted'
  <2>1. Counted
    BY DEF WindowInv
  <2> QED BY <1>0, <1>s, <1>i, <1>3, <1>6, <2>1 DEF Counted, Countable
<1>c. Closed'
  BY <1>0 DEF WindowInv, Closed
<1> QED BY <1>c, <1>7, <1>8, <1>9, <1>10, <1>11 DEF WindowInv

(* ... and linked in another step (queue.go:238).                          *)
LEMMA PushHeadStep ==
    ASSUME WindowInv, Window!PushHead
    PROVE  WindowInv'
<1>a. Typed
  BY DEF WindowInv
<1>0. UNCHANGED <<wSend, wWriter, wAcker, wEndA, wData, wAcks, wRecv, wReader, wEndB,
                  wCloser, wGot>>
  BY DEF Window!PushHead, Window!sender, Window!wire, Window!receiver
<1>i. Countable
  BY <1>a, Ints
<1>s. /\ popped' = popped /\ reading' = reading /\ leaving' = leaving
      /\ last' = last /\ Window!Open' = Window!Open
      /\ Window!Acknowledged' = Window!Acknowledged
  BY <1>0 DEF popped, reading, leaving, last, Window!Open, Window!Acknowledged
<1>1. wSession.pc \in {"chain", "chain+"}
      /\ wSession' = [wSession EXCEPT !.pc = IF wSession.pc = "chain+" THEN "signal" ELSE "ack"]
      /\ wQueue' = [wQueue EXCEPT !.chain = Append(wQueue.chain, wSession.seg)]
  BY DEF Window!PushHead
<1>2. /\ wSession' \in SessionType
      /\ wSession.pc' \in {"signal", "ack"}
      /\ wSession.seg' = wSession.seg
      /\ wSession.room' = wSession.room /\ wSession.saw' = wSession.saw
  BY <1>a, <1>1 DEF Typed, SessionType
<1>3. taking /\ ~ taking' /\ inHand = 1 /\ inHand' = 0 /\ counted = 1 /\ counted' = 0
  BY <1>1, <1>2 DEF taking, inHand, counted
<1>4. Window!Unsent' = Window!Unsent
  BY <1>1, <1>2 DEF Window!Unsent
<1>5. /\ wSession.seg > wGot + Len(chain) /\ wSession.seg <= last
      /\ \A i \in 1 .. Len(chain) : wSession.seg - chain[i] >= Len(chain) + 1 - i
  BY <1>3 DEF WindowInv, Holding
<1>6. wSession.seg \in 1 .. N
  <2>1. wSession.seg \in 0 .. N
    BY <1>a, Numbers
  <2> QED BY <1>5, <1>i, <2>1 DEF Countable
<1>7. wQueue' \in QueueType /\ wQueue.len' = wQueue.len /\ chain' = Append(chain, wSession.seg)
  <2>1. Append(wQueue.chain, wSession.seg) \in Seq(1 .. N)
    BY <1>a, <1>6, Numbers DEF chain
  <2> QED BY <1>a, <1>1, <2>1 DEF Typed, QueueType, chain
<1>8. /\ Len(chain') = Len(chain) + 1 /\ chain'[Len(chain) + 1] = wSession.seg
      /\ \A i \in 1 .. Len(chain) : chain'[i] = chain[i]
  BY <1>a, <1>7, Numbers
<1>9. Typed'
  BY <1>a, <1>0, <1>2, <1>7 DEF Typed
<1>10. \A i \in 1 .. Len(chain') : i \in 1 .. Len(chain) \/ i = Len(chain) + 1
  BY <1>8, <1>i DEF Countable
<1>11. Chained'
  <2>1. wGot <= last
    BY DEF WindowInv, Chained
  <2>2. ASSUME NEW i \in 1 .. Len(chain') PROVE chain'[i] >= wGot + i /\ chain'[i] <= last
    <3>1. CASE i \in 1 .. Len(chain)
      BY <1>8, <3>1 DEF WindowInv, Chained
    <3>2. CASE i = Len(chain) + 1
      BY <1>5, <1>8, <1>i, <3>2 DEF Countable
    <3> QED BY <1>10, <3>1, <3>2
  <2>3. ASSUME NEW i \in 1 .. Len(chain'), NEW j \in 1 .. Len(chain'), i <= j
        PROVE  chain'[j] - chain'[i] >= j - i
    <3>1. CASE j \in 1 .. Len(chain)
      <4>1. i \in 1 .. Len(chain)
        BY <1>i, <2>3, <3>1 DEF Countable
      <4> QED BY <1>8, <2>3, <3>1, <4>1 DEF WindowInv, Chained
    <3>2. CASE j = Len(chain) + 1 /\ i \in 1 .. Len(chain)
      BY <1>5, <1>8, <3>2
    <3>3. CASE j = Len(chain) + 1 /\ i = Len(chain) + 1
      BY <1>8, <1>i, <3>3 DEF Countable
    <3> QED BY <1>10, <3>1, <3>2, <3>3
  <2> QED BY <1>0, <1>s, <2>1, <2>2, <2>3 DEF Chained
<1>12. Holding'
  BY <1>3 DEF Holding
<1>13. Underway'
  <2> SUFFICES ASSUME NEW i \in 1 .. Len(wData), wData[i] # 0
               PROVE  /\ wData[i] > wGot
                      /\ wData[i] <= last
                      /\ \A k \in 1 .. Len(chain') : wData[i] > chain'[k]
                      /\ \A j \in 1 .. i - 1 : wData[j] < wData[i]
    BY <1>0, <1>s, <1>3 DEF Underway
  <2>1. /\ wData[i] > wGot
        /\ wData[i] <= last
        /\ \A k \in 1 .. Len(chain) : wData[i] > chain[k]
        /\ wData[i] > wSession.seg
        /\ \A j \in 1 .. i - 1 : wData[j] < wData[i]
    BY <1>3 DEF WindowInv, Underway
  <2> QED BY <1>8, <1>10, <2>1
<1>14. Counted'
  <2>1. Counted
    BY DEF WindowInv
  <2> QED BY <1>0, <1>s, <1>i, <1>3, <1>7, <1>8, <2>1 DEF Counted, Countable
<1>15. Complete'
  <2> SUFFICES ASSUME Window!Open
               PROVE  /\ wGot + Len(chain') + 0 + Len(wData) + leaving = wWriter.sent
                      /\ \A i \in 1 .. Len(chain') : chain'[i] = wGot + i
                      /\ \A i \in 1 .. Len(wData) : wData[i] = wGot + Len(chain') + 0 + i
    BY <1>0, <1>s, <1>3 DEF Complete
  <2>1. /\ wGot + Len(chain) + 1 + Len(wData) + leaving = wWriter.sent
        /\ \A i \in 1 .. Len(chain) : chain[i] = wGot + i
        /\ wSession.seg = wGot + Len(chain) + 1
        /\ \A i \in 1 .. Len(wData) : wData[i] = wGot + Len(chain) + 1 + i
    BY <1>3 DEF WindowInv, Complete
  <2>2. wGot + Len(chain') + 0 + Len(wData) + leaving = wWriter.sent
    BY <1>8, <1>i, <2>1 DEF Countable
  <2>3. ASSUME NEW i \in 1 .. Len(chain') PROVE chain'[i] = wGot + i
    <3>1. CASE i \in 1 .. Len(chain)
      BY <1>8, <2>1, <3>1
    <3>2. CASE i = Len(chain) + 1
      BY <1>8, <1>i, <2>1, <3>2 DEF Countable
    <3> QED BY <1>10, <3>1, <3>2
  <2>4. ASSUME NEW i \in 1 .. Len(wData) PROVE wData[i] = wGot + Len(chain') + 0 + i
    BY <1>8, <1>i, <2>1 DEF Countable
  <2> QED BY <2>2, <2>3, <2>4
<1>16. Credit'
  <2>1. Credit
    BY DEF WindowInv
  <2> QED BY <1>0, <1>s, <1>i, <1>3, <1>4, <1>8, <2>1 DEF Credit, Countable
<1>c. Closed'
  BY <1>0 DEF WindowInv, Closed
<1> QED BY <1>c, <1>9, <1>11, <1>12, <1>13, <1>14, <1>15, <1>16 DEF WindowInv

(* The session acknowledges unless the window is full.                     *)
LEMMA SendOkStep ==
    ASSUME WindowInv, Window!SendOk
    PROVE  WindowInv'
<1>a. Typed
  BY DEF WindowInv
<1>0. UNCHANGED <<wSend, wWriter, wAcker, wEndA, wData, wRecv, wReader, wQueue, wEndB,
                  wCloser, wGot>>
  BY DEF Window!SendOk, Window!sender, Window!wire, Window!receiver
<1>i. Countable
  BY <1>a, Ints
<1>s. /\ chain' = chain /\ popped' = popped /\ reading' = reading
      /\ leaving' = leaving /\ last' = last /\ Window!Open' = Window!Open
  BY <1>0 DEF chain, popped, reading, leaving, last, Window!Open
<1>1. wSession.pc = "ack" /\ wSession' = Window!Nothing
      /\ wAcks' = IF wSession.room = 0 THEN wAcks ELSE Append(wAcks, Window!Ack(wSession.saw))
  BY DEF Window!SendOk
<1>2. wSession' \in SessionType /\ wSession.pc' = "idle"
  BY <1>1, NothingTyped
<1>3. ~ taking /\ taking' = taking /\ inHand = 0 /\ inHand' = 0 /\ counted' = counted
      /\ Window!Unsent' = 0
  BY <1>1, <1>2 DEF taking, inHand, counted, Window!Unsent
<1>4. /\ Window!Ack(wSession.saw) \in AckType
      /\ wSession.saw.done \in Nat
      /\ Window!Ack(wSession.saw).read = wSession.saw.done
      /\ Window!Ack(wSession.saw) \in AckMessage
  <2>1. wSession.saw \in Window!Window
    BY <1>a DEF Typed, SessionType
  <2>2. wSession.saw.max \in Sizes /\ wSession.saw.done \in 0 .. 2 * N
    BY <2>1 DEF Window!Window
  <2>3. wSession.saw.max \in Nat /\ wSession.saw.done \in Nat
    <3>1. wSession.saw.max \in Nat
      BY SizesNat, <2>2
    <3>2. wSession.saw.done \in Nat
      BY <2>2
    <3> QED BY <3>1, <3>2
  <2> QED BY <2>2, <2>3 DEF Window!Ack, AckType, AckMessage
<1>5. wAcks' \in SeqOfAcks
  BY <1>a, <1>1, <1>4 DEF Typed, SeqOfAcks
<1>6. Typed'
  BY <1>a, <1>0, <1>2, <1>5 DEF Typed
<1>7. Window!Acknowledged' = Window!Acknowledged + Window!Unsent
  <2>1. wSession.room \in Nat
    BY <1>a DEF Typed, SessionType
  <2>2. CASE wSession.room = 0
    <3>1. Window!Unsent = 0 /\ wAcks' = wAcks
      BY <1>1, <2>2 DEF Window!Unsent
    <3>2. Window!Acknowledged' = Window!Acknowledged
      BY <3>1 DEF Window!Acknowledged
    <3> QED BY <1>i, <3>1, <3>2 DEF Countable
  <2>3. CASE wSession.room # 0
    <3>1. Window!Unsent = wSession.saw.done
      BY <1>1, <2>1, <2>3 DEF Window!Unsent
    <3>2. wAcks' = Append(wAcks, Window!Ack(wSession.saw)) /\ wAcks \in Seq(AckMessage)
      BY <1>1, <1>a, <2>3, AcksNat
    <3> QED BY <1>4, <3>1, <3>2, ReadOfAppend DEF Window!Acknowledged
  <2> QED BY <2>2, <2>3
<1>8. (Chained /\ Holding /\ Underway)'
  BY <1>0, <1>s, <1>3, OrderKept DEF WindowInv
<1>9. Complete'
  BY <1>0, <1>s, <1>3, CompleteKept DEF WindowInv
<1>10. Counted'
  BY <1>0, <1>s, <1>3, CountedKept DEF WindowInv
<1>11. Credit'
  <2>1. Credit
    BY DEF WindowInv
  <2> QED BY <1>0, <1>s, <1>i, <1>3, <1>7, <2>1 DEF Credit, Countable
<1>c. Closed'
  BY <1>0 DEF WindowInv, Closed
<1> QED BY <1>c, <1>6, <1>8, <1>9, <1>10, <1>11 DEF WindowInv

(* The close of the other side comes off the wire.                         *)
LEMMA PeerClosesStep ==
    ASSUME WindowInv, Window!PeerCloses
    PROVE  WindowInv'
<1>a. Typed
  BY DEF WindowInv
<1>0. UNCHANGED <<wSend, wWriter, wAcker, wEndA, wAcks, wRecv, wSession, wReader, wQueue,
                  wCloser, wGot>>
  BY DEF Window!PeerCloses, Window!sender, Window!wire, Window!receiver
<1>i. Countable
  BY <1>a, Ints
<1>s. /\ chain' = chain /\ taking' = taking /\ inHand' = inHand
      /\ counted' = counted /\ popped' = popped /\ reading' = reading
      /\ leaving' = leaving /\ last' = last /\ Window!Unsent' = Window!Unsent
      /\ Window!Acknowledged' = Window!Acknowledged
  BY <1>0 DEF chain, taking, inHand, counted, popped, reading, leaving, last, Window!Unsent,
              Window!Acknowledged
<1>1. /\ wSession.pc = "idle" /\ wData # <<>> /\ wData[1] = 0 /\ wData' = Tail(wData)
      /\ wEndB' = IF wEndB.closed THEN wEndB ELSE Window!Stopped(wEndB)
  BY DEF Window!PeerCloses
<1>2. /\ Len(wData) = Len(wData') + 1 /\ Len(wData') \in Nat /\ wData' \in Seq(0 .. N)
      /\ \A i \in 1 .. Len(wData') : i + 1 \in 1 .. Len(wData) /\ wData'[i] = wData[i + 1]
  BY <1>a, <1>1, Numbers, TailIs
<1>3. wData' \in SeqOfSegments
  BY <1>2 DEF SeqOfSegments, Segments
<1>4. wEndB' \in EndBType /\ wEndB.op' = wEndB.op /\ wEndB.closed' = wEndB.closed
  BY <1>a, <1>1, TokenTaken DEF Typed
<1>5. Typed'
  BY <1>a, <1>0, <1>3, <1>4 DEF Typed
<1>6. wEndA.closed
  BY <1>1, <1>2 DEF WindowInv, Closed
<1>7. Chained' /\ Holding'
  BY <1>0, <1>s DEF WindowInv, Chained, Holding
<1>8. Underway'
  BY <1>a, <1>0, <1>s, <1>1, UnderwayTail DEF WindowInv
<1>9. Counted'
  BY <1>0, <1>s, CountedKept DEF WindowInv
<1>10. Closed'
  BY <1>0, <1>4, <1>6 DEF WindowInv, Closed
<1>11. Complete' /\ Credit'
  BY <1>0, <1>6 DEF Complete, Credit, Window!Open
<1> QED BY <1>5, <1>7, <1>8, <1>9, <1>10, <1>11 DEF WindowInv

(* Reading.                                                                *)
LEMMA PopTailStep ==
    ASSUME WindowInv, Window!PopTail
    PROVE  WindowInv'
<1>a. Typed
  BY DEF WindowInv
<1>0. UNCHANGED <<wSend, wWriter, wAcker, wEndA, wData, wAcks, wRecv, wSession, wEndB,
                  wCloser>>
  BY DEF Window!PopTail, Window!sender, Window!wire, Window!receiver
<1>i. Countable
  BY <1>a, Ints
<1>s. /\ taking' = taking /\ inHand' = inHand /\ counted' = counted
      /\ leaving' = leaving /\ last' = last /\ Window!Unsent' = Window!Unsent
      /\ Window!Open' = Window!Open
      /\ Window!Acknowledged' = Window!Acknowledged
  BY <1>0 DEF taking, inHand, counted, leaving, last, Window!Unsent, Window!Open,
              Window!Acknowledged
<1>1. /\ wReader.pc = "pop" /\ chain # <<>>
      /\ wQueue' = [wQueue EXCEPT !.chain = Tail(chain)]
      /\ wReader' = [wReader EXCEPT !.pc = "popped", !.seg = Head(chain)]
      /\ wGot' = Head(chain)
  BY DEF Window!PopTail, chain
<1>2. /\ Tail(chain) \in Seq(1 .. N) /\ chain[1] \in 1 .. N /\ Head(chain) = chain[1]
      /\ Len(chain) = Len(Tail(chain)) + 1 /\ Len(Tail(chain)) \in Nat
      /\ \A i \in 1 .. Len(Tail(chain)) : i + 1 \in 1 .. Len(chain) /\ Tail(chain)[i] = chain[i + 1]
  BY <1>a, <1>1, Numbers, TailIs
<1>3. wQueue' \in QueueType /\ wQueue.len' = wQueue.len /\ chain' = Tail(chain)
  BY <1>a, <1>1, <1>2 DEF Typed, QueueType, chain
<1>4. /\ wGot' = chain[1] /\ Len(chain) = Len(chain') + 1 /\ Len(chain') \in Nat
      /\ \A i \in 1 .. Len(chain') : i + 1 \in 1 .. Len(chain) /\ chain'[i] = chain[i + 1]
  BY <1>1, <1>2, <1>3
<1>5. chain[1] \in Nat /\ chain[1] \in 0 .. N
  BY <1>2
<1>6. wReader' \in ReaderType /\ wReader.pc' = "popped"
  BY <1>a, <1>1, <1>2, <1>5 DEF Typed, ReaderType
<1>7. Typed'
  BY <1>a, <1>0, <1>3, <1>4, <1>5, <1>6 DEF Typed, Segments
<1>8. popped = 0 /\ popped' = 1 /\ reading = 0 /\ reading' = 1
  BY <1>1, <1>6 DEF popped, reading
<1>9. 1 \in 1 .. Len(chain)
  BY <1>2
<1>10. /\ wGot <= last
       /\ \A i \in 1 .. Len(chain) : chain[i] >= wGot + i /\ chain[i] <= last /\ chain[i] \in Nat
       /\ \A i, j \in 1 .. Len(chain) : i <= j => chain[j] - chain[i] >= j - i
  BY <1>a, <1>i, Numbers DEF WindowInv, Chained, Countable
<1>11. chain[1] >= wGot + 1
  BY <1>9, <1>10
<1>12. Chained'
  <2>1. ASSUME NEW i \in 1 .. Len(chain') PROVE chain'[i] >= chain[1] + i /\ chain'[i] <= last
    <3>1. i + 1 \in 1 .. Len(chain) /\ chain'[i] = chain[i + 1] /\ 1 <= i + 1
      BY <1>4
    <3>2. chain[i + 1] - chain[1] >= (i + 1) - 1 /\ chain[i + 1] \in Nat /\ chain[i + 1] <= last
      BY <1>9, <1>10, <3>1
    <3> QED BY <1>5, <3>1, <3>2
  <2>2. ASSUME NEW i \in 1 .. Len(chain'), NEW j \in 1 .. Len(chain'), i <= j
        PROVE  chain'[j] - chain'[i] >= j - i
    <3>1. i + 1 \in 1 .. Len(chain) /\ chain'[i] = chain[i + 1] /\ j + 1 \in 1 .. Len(chain)
          /\ chain'[j] = chain[j + 1] /\ i + 1 <= j + 1
      BY <1>4, <2>2
    <3>2. chain[j + 1] - chain[i + 1] >= (j + 1) - (i + 1)
      BY <1>10, <3>1
    <3> QED BY <3>1, <3>2
  <2>3. chain[1] <= last
    BY <1>9, <1>10
  <2> QED BY <1>s, <1>4, <2>1, <2>2, <2>3 DEF Chained
<1>13. Holding'
  <2> SUFFICES ASSUME taking
               PROVE  /\ wSession.seg > chain[1] + Len(chain')
                      /\ wSession.seg <= last
                      /\ \A i \in 1 .. Len(chain') : wSession.seg - chain'[i] >= Len(chain') + 1 - i
    BY <1>0, <1>s, <1>4 DEF Holding
  <2>1. /\ wSession.seg <= last
        /\ \A i \in 1 .. Len(chain) : wSession.seg - chain[i] >= Len(chain) + 1 - i
    BY DEF WindowInv, Holding
  <2>2. wSession.seg - chain[1] >= Len(chain) + 1 - 1
    BY <1>9, <2>1
  <2>3. wSession.seg > chain[1] + Len(chain')
    BY <1>4, <1>5, <1>i, <2>2 DEF Countable
  <2>4. ASSUME NEW i \in 1 .. Len(chain') PROVE wSession.seg - chain'[i] >= Len(chain') + 1 - i
    <3>1. wSession.seg - chain[i + 1] >= Len(chain) + 1 - (i + 1)
      BY <1>4, <2>1
    <3> QED BY <1>4, <1>10, <1>i, <3>1 DEF Countable
  <2> QED BY <2>1, <2>3, <2>4
<1>14. Underway'
  <2> SUFFICES ASSUME NEW i \in 1 .. Len(wData), wData[i] # 0
               PROVE  /\ wData[i] > chain[1]
                      /\ wData[i] <= last
                      /\ \A k \in 1 .. Len(chain') : wData[i] > chain'[k]
                      /\ taking => wData[i] > wSession.seg
                      /\ \A j \in 1 .. i - 1 : wData[j] < wData[i]
    BY <1>0, <1>s, <1>4 DEF Underway
  <2>1. /\ wData[i] <= last
        /\ \A k \in 1 .. Len(chain) : wData[i] > chain[k]
        /\ taking => wData[i] > wSession.seg
        /\ \A j \in 1 .. i - 1 : wData[j] < wData[i]
    BY DEF WindowInv, Underway
  <2> QED BY <1>4, <1>9, <2>1
<1>15. Counted'
  <2>1. Counted
    BY DEF WindowInv
  <2>2. wQueue.len = Len(chain') + counted + 1
    BY <1>4, <1>8, <1>i, <2>1 DEF Counted, Countable
  <2>3. wRecv.done + 1 <= chain[1]
    BY <1>5, <1>8, <1>11, <1>i, <2>1 DEF Counted, Countable
  <2> QED BY <1>0, <1>s, <1>3, <1>4, <1>8, <2>1, <2>2, <2>3 DEF Counted
<1>16. Complete'
  <2> SUFFICES ASSUME Window!Open
               PROVE  /\ chain[1] + Len(chain') + inHand + Len(wData) + leaving = wWriter.sent
                      /\ \A i \in 1 .. Len(chain') : chain'[i] = chain[1] + i
                      /\ taking => wSession.seg = chain[1] + Len(chain') + 1
                      /\ \A i \in 1 .. Len(wData) : wData[i] = chain[1] + Len(chain') + inHand + i
    BY <1>0, <1>s, <1>4 DEF Complete
  <2>1. /\ wGot + Len(chain) + inHand + Len(wData) + leaving = wWriter.sent
        /\ \A i \in 1 .. Len(chain) : chain[i] = wGot + i
        /\ taking => wSession.seg = wGot + Len(chain) + 1
        /\ \A i \in 1 .. Len(wData) : wData[i] = wGot + Len(chain) + inHand + i
    BY DEF WindowInv, Complete
  <2>2. chain[1] = wGot + 1
    BY <1>9, <2>1
  <2>3. chain[1] + Len(chain') = wGot + Len(chain)
    BY <1>4, <1>i, <2>2 DEF Countable
  <2>4. ASSUME NEW i \in 1 .. Len(chain') PROVE chain'[i] = chain[1] + i
    <3>1. chain'[i] = wGot + (i + 1)
      BY <1>4, <2>1
    <3> QED BY <1>i, <2>2, <3>1 DEF Countable
  <2> QED BY <2>1, <2>3, <2>4
<1>17. Credit'
  <2>1. Credit
    BY DEF WindowInv
  <2> QED BY <1>0, <1>s, <1>4, <1>8, <1>i, <2>1 DEF Credit, Countable
<1>c. Closed'
  BY <1>0 DEF WindowInv, Closed
<1> QED BY <1>c, <1>7, <1>12, <1>13, <1>14, <1>15, <1>16, <1>17 DEF WindowInv

(* ... and uncounts it in another step.                                    *)
LEMMA PopLengthStep ==
    ASSUME WindowInv, Window!PopLength
    PROVE  WindowInv'
<1>a. Typed
  BY DEF WindowInv
<1>0. UNCHANGED <<wSend, wWriter, wAcker, wEndA, wData, wAcks, wRecv, wSession, wEndB,
                  wCloser, wGot>>
  BY DEF Window!PopLength, Window!sender, Window!wire, Window!receiver
<1>i. Countable
  BY <1>a, Ints
<1>s. /\ taking' = taking /\ inHand' = inHand /\ counted' = counted
      /\ leaving' = leaving /\ last' = last /\ Window!Unsent' = Window!Unsent
      /\ Window!Open' = Window!Open
      /\ Window!Acknowledged' = Window!Acknowledged
  BY <1>0 DEF taking, inHand, counted, leaving, last, Window!Unsent, Window!Open,
              Window!Acknowledged
<1>1. /\ wReader.pc = "popped" /\ wQueue' = [wQueue EXCEPT !.len = wQueue.len - 1]
      /\ wReader' = [wReader EXCEPT !.pc = "load"]
  BY DEF Window!PopLength
<1>2. wReader' \in ReaderType /\ wReader.pc' = "load"
  BY <1>a, <1>1 DEF Typed, ReaderType
<1>3. popped = 1 /\ popped' = 0 /\ reading' = reading
  BY <1>1, <1>2 DEF popped, reading
<1>4. wQueue.len = Len(chain) + counted + popped
  BY DEF WindowInv, Counted
<1>5. wQueue.len - 1 \in 0 .. N
  <2>1. wQueue.len >= 1
    BY <1>3, <1>4, <1>i DEF Countable
  <2>2. wQueue.len \in 0 .. N
    BY <1>a, Numbers
  <2> QED BY <1>i, <2>1, <2>2 DEF Countable
<1>6. wQueue' \in QueueType /\ wQueue.len' = wQueue.len - 1 /\ chain' = chain
  BY <1>a, <1>1, <1>5 DEF Typed, QueueType, chain
<1>7. Typed'
  BY <1>a, <1>0, <1>2, <1>6 DEF Typed
<1>8. (Chained /\ Holding /\ Underway)'
  BY <1>0, <1>s, <1>6, OrderKept DEF WindowInv
<1>9. Complete'
  BY <1>0, <1>s, <1>6, CompleteKept DEF WindowInv
<1>10. Credit'
  BY <1>0, <1>s, <1>3, <1>6, CreditKept DEF WindowInv
<1>11. Counted'
  <2>1. Counted
    BY DEF WindowInv
  <2> QED BY <1>0, <1>s, <1>i, <1>3, <1>6, <2>1 DEF Counted, Countable
<1>c. Closed'
  BY <1>0 DEF WindowInv, Closed
<1> QED BY <1>c, <1>7, <1>8, <1>9, <1>10, <1>11 DEF WindowInv

(* The reader counts what it read, acknowledges it, or starts again.       *)
LEMMA SendStatusStep ==
    ASSUME WindowInv, Window!SendStatus
    PROVE  WindowInv'
<1>a. Typed
  BY DEF WindowInv
<1>0. UNCHANGED <<wSend, wWriter, wAcker, wEndA, wData, wSession, wQueue, wEndB, wCloser,
                  wGot>>
  BY DEF Window!SendStatus, Window!sender, Window!wire, Window!receiver
<1>i. Countable
  BY <1>a, Ints
<1>s. /\ chain' = chain /\ taking' = taking /\ inHand' = inHand
      /\ counted' = counted /\ leaving' = leaving /\ last' = last
      /\ Window!Unsent' = Window!Unsent /\ Window!Open' = Window!Open
  BY <1>0 DEF chain, taking, inHand, counted, leaving, last, Window!Unsent, Window!Open
<1>c. Closed'
  BY <1>0 DEF WindowInv, Closed
<1>1. wReader.pc = "swap" /\ reading = 1 /\ popped = 0
  BY DEF Window!SendStatus, reading, popped
<1>2. CASE wReader' = [wReader EXCEPT !.pc = "load"] /\ UNCHANGED <<wRecv, wAcks>>
  <2>1. wReader' \in ReaderType /\ wReader.pc' = "load"
    BY <1>a, <1>2 DEF Typed, ReaderType
  <2>2. reading' = reading /\ popped' = popped
    BY <1>1, <2>1 DEF reading, popped
  <2>3. Typed'
    BY <1>a, <1>0, <1>2, <2>1 DEF Typed
  <2>4. Window!Acknowledged' = Window!Acknowledged
    BY <1>2 DEF Window!Acknowledged
  <2> QED BY <1>0, <1>s, <1>c, <1>2, <2>2, <2>3, <2>4, Quiet
<1>3. CASE wReader' = Window!Nothing /\ wRecv = wReader.saw
  <2>1. wReader' \in ReaderType /\ wReader.pc' = "idle"
    BY <1>3, NothingTyped
  <2>2. reading' = 0 /\ popped' = 0
    BY <2>1 DEF reading, popped
  <2>3. wRecv.done + 1 <= wGot /\ wGot <= N
    <3>1. wGot <= N
      BY <1>a, <1>i, Numbers DEF Countable
    <3> QED BY <1>1, <3>1 DEF WindowInv, Counted
  <2>4. wRecv.done + 1 \in 0 .. 2 * N /\ 0 \in 0 .. 2 * N
    <3>1. wRecv.done \in Nat /\ wGot \in Nat /\ N \in Nat
      BY <1>i DEF Countable
    <3> QED BY <2>3, <3>1
  <2>5. CASE /\ wRecv' = [wRecv EXCEPT !.done = 0, !.wait = FALSE]
             /\ wAcks' = Append(wAcks, [max |-> wRecv.max, read |-> wRecv.done + 1])
    <3>1. wRecv' \in Window!Window /\ wRecv.done' = 0
      BY <1>a, <2>4, <2>5 DEF Typed, Window!Window
    <3>2. wRecv.max \in Sizes
      BY <1>a DEF Typed, Window!Window
    <3>3. [max |-> wRecv.max, read |-> wRecv.done + 1] \in AckType
      BY <2>4, <3>2 DEF AckType
    <3>4. wAcks' \in SeqOfAcks
      BY <1>a, <2>5, <3>3 DEF Typed, SeqOfAcks
    <3>5. Window!Acknowledged' = Window!Acknowledged + (wRecv.done + 1)
      <4>1. wRecv.max \in Nat
        BY <3>2, SizesNat
      <4>2. [max |-> wRecv.max, read |-> wRecv.done + 1] \in AckMessage
        BY <1>i, <4>1 DEF AckMessage, Countable
      <4> QED BY <1>a, <2>5, <4>2, AcksNat, ReadOfAppend DEF Window!Acknowledged
    <3>6. Typed'
      BY <1>a, <1>0, <2>1, <3>1, <3>4 DEF Typed
    <3>7. (Chained /\ Holding /\ Underway)' /\ Complete'
      BY <1>0, <1>s, OrderKept, CompleteKept DEF WindowInv
    <3>8. Counted'
      <4>1. Counted
        BY DEF WindowInv
      <4> QED BY <1>0, <1>s, <1>i, <1>1, <2>2, <3>1, <4>1 DEF Counted, Countable
    <3>9. Credit'
      <4>1. Credit
        BY DEF WindowInv
      <4> QED BY <1>0, <1>s, <1>i, <1>1, <2>2, <3>1, <3>5, <4>1 DEF Credit, Countable
    <3> QED BY <1>c, <3>6, <3>7, <3>8, <3>9 DEF WindowInv
  <2>6. CASE wRecv' = [wRecv EXCEPT !.done = wRecv.done + 1] /\ wAcks' = wAcks
    <3>1. wRecv' \in Window!Window /\ wRecv.done' = wRecv.done + 1
      BY <1>a, <2>4, <2>6 DEF Typed, Window!Window
    <3>2. Window!Acknowledged' = Window!Acknowledged
      BY <2>6 DEF Window!Acknowledged
    <3>3. Typed'
      BY <1>a, <1>0, <2>1, <2>6, <3>1 DEF Typed
    <3>4. (Chained /\ Holding /\ Underway)' /\ Complete'
      BY <1>0, <1>s, OrderKept, CompleteKept DEF WindowInv
    <3>5. Counted'
      <4>1. Counted
        BY DEF WindowInv
      <4> QED BY <1>0, <1>s, <1>i, <1>1, <2>2, <3>1, <4>1 DEF Counted, Countable
    <3>6. Credit'
      <4>1. Credit
        BY DEF WindowInv
      <4> QED BY <1>0, <1>s, <1>i, <1>1, <2>2, <3>1, <3>2, <4>1 DEF Credit, Countable
    <3> QED BY <1>c, <3>3, <3>4, <3>5, <3>6 DEF WindowInv
  <2> QED BY <1>3, <2>5, <2>6 DEF Window!SendStatus
<1> QED BY <1>2, <1>3 DEF Window!SendStatus

(* Closing at B empties the queue.                                         *)
LEMMA StopBStep ==
    ASSUME WindowInv, NEW q \in Window!Closer, Window!StopB(q)
    PROVE  WindowInv'
<1>a. Typed
  BY DEF WindowInv
<1>0. UNCHANGED <<wSend, wWriter, wAcker, wEndA, wData, wAcks, wRecv, wSession, wReader, wGot>>
  BY DEF Window!StopB, Window!sender, Window!wire, Window!receiver
<1>i. Countable
  BY <1>a, Ints
<1>s. /\ taking' = taking /\ inHand' = inHand /\ counted' = counted
      /\ popped' = popped /\ reading' = reading /\ leaving' = leaving
      /\ last' = last /\ Window!Unsent' = Window!Unsent
      /\ Window!Acknowledged' = Window!Acknowledged
  BY <1>0 DEF taking, inHand, counted, popped, reading, leaving, last, Window!Unsent,
              Window!Acknowledged
<1>1. /\ wCloser[q] = "stop" /\ wEndB' = Window!Stopped(wEndB)
      /\ wQueue' = [wQueue EXCEPT !.chain = <<>>, !.len = wQueue.len - Len(chain)]
      /\ wCloser' = [wCloser EXCEPT ![q] = "done"]
  BY DEF Window!StopB, chain
<1>2. wEndB' \in EndBType /\ wEndB.op' = wEndB.op /\ wEndB.closed' = wEndB.closed
  BY <1>a, <1>1, TokenTaken DEF Typed
<1>3. wEndB.op
  BY <1>1 DEF WindowInv, Closed, Window!Closer
<1>4. wCloser' \in CloserType
  BY <1>a, <1>1 DEF Typed, CloserType
<1>5. wQueue.len = Len(chain) + counted + popped
  BY DEF WindowInv, Counted
<1>6. wQueue.len - Len(chain) \in 0 .. N
  <2>1. wQueue.len \in 0 .. N
    BY <1>a, Numbers
  <2> QED BY <1>i, <1>5, <2>1 DEF Countable
<1>7. wQueue' \in QueueType /\ wQueue.len' = wQueue.len - Len(chain) /\ chain' = <<>>
  <2>1. <<>> \in Seq(1 .. N)
    OBVIOUS
  <2> QED BY <1>a, <1>1, <1>6, <2>1 DEF Typed, QueueType, chain
<1>8. Typed'
  BY <1>a, <1>0, <1>2, <1>4, <1>7 DEF Typed
<1>9. Len(chain') = 0
  BY <1>7
<1>10. Chained'
  BY <1>0, <1>s, <1>9 DEF WindowInv, Chained
<1>11. Holding'
  <2> SUFFICES ASSUME taking PROVE wSession.seg > wGot + 0 /\ wSession.seg <= last
    BY <1>0, <1>s, <1>9 DEF Holding
  <2>1. wSession.seg > wGot + Len(chain) /\ wSession.seg <= last
    BY DEF WindowInv, Holding
  <2> QED BY <1>i, <2>1 DEF Countable
<1>12. Underway'
  BY <1>0, <1>s, <1>9 DEF WindowInv, Underway
<1>13. Counted'
  <2>1. Counted
    BY DEF WindowInv
  <2> QED BY <1>0, <1>s, <1>i, <1>7, <1>9, <2>1 DEF Counted, Countable
<1>14. Closed'
  BY <1>0, <1>2, <1>3 DEF WindowInv, Closed
<1>15. Complete' /\ Credit'
  BY <1>2, <1>3 DEF Complete, Credit, Window!Open
<1> QED BY <1>8, <1>10, <1>11, <1>12, <1>13, <1>14, <1>15 DEF WindowInv

(* Every step keeps the invariant.                                         *)
LEMMA WindowStep == WindowInv /\ Window!Next => WindowInv'
<1> SUFFICES ASSUME WindowInv, Window!Next PROVE WindowInv'
  OBVIOUS
<1> QED
  BY WriteToStep, WriteFullStep, WriteFailsStep, AllowedStep, WaitFailsStep, SetSizeStep,
     AllowFailsStep, ClosedByPeerStep, CloseAStep, CloseWindowAStep, ReceiveStep,
     SwapWaitStep, PushLengthStep, PushHeadStep, AllowPopStep, SendOkStep, PeerClosesStep,
     PopStep, StopPopStep, PopTailStep, PopLengthStep, LoadStatusStep, SendStatusStep,
     CloseBStep, CheckCloseBStep, SetCloseBStep, StopBStep
  DEF Window!Next, Window!WriteStep, Window!AckStep, Window!ArriveStep, Window!ReadStep,
      Window!CloseStep

(* A link that takes its step leaves the windows alone.                    *)
LEMMA WindowStill == WindowInv /\ UNCHANGED windowVars => WindowInv'
<1> SUFFICES ASSUME WindowInv, UNCHANGED windowVars PROVE WindowInv'
  OBVIOUS
<1>0. UNCHANGED <<wSend, wWriter, wAcker, wEndA, wData, wAcks, wRecv, wSession, wReader,
                  wQueue,
                  wEndB, wCloser, wGot>>
  BY DEF windowVars
<1>1. Typed'
  BY <1>0 DEF WindowInv, Typed
<1>2. Closed'
  BY <1>0 DEF WindowInv, Closed
<1>3. /\ chain' = chain /\ taking' = taking /\ counted' = counted /\ popped' = popped
      /\ reading' = reading /\ leaving' = leaving /\ Window!Unsent' = Window!Unsent
      /\ Window!Open' = Window!Open /\ Window!Acknowledged' = Window!Acknowledged
  BY <1>0 DEF chain, taking, counted, popped, reading, leaving, Window!Unsent, Window!Open,
              Window!Acknowledged
<1> QED BY <1>0, <1>1, <1>2, <1>3, Quiet

(* What the run checks follows.                                            *)
LEMMA WindowInvKeeps == WindowInv => WindowSafe
<1> SUFFICES ASSUME WindowInv PROVE WindowSafe
  OBVIOUS
<1>a. Typed
  BY DEF WindowInv
<1>i. Countable
  BY <1>a, Ints
<1>1. Window!TypeOK
  BY <1>a, TypedIs
<1>2. Window!InOrder
  <2> SUFFICES ASSUME Window!Open
               PROVE  chain \o Window!Held \o wData \o Window!Pending
                      = [i \in 1 .. wWriter.sent - wGot |-> wGot + i]
    BY DEF Window!InOrder, chain
  <2>1. /\ wGot + Len(chain) + inHand + Len(wData) + leaving = wWriter.sent
        /\ \A i \in 1 .. Len(chain) : chain[i] = wGot + i
        /\ taking => wSession.seg = wGot + Len(chain) + 1
        /\ \A i \in 1 .. Len(wData) : wData[i] = wGot + Len(chain) + inHand + i
    BY DEF WindowInv, Complete
  <2>2. chain \in Seq(Nat) /\ wData \in Seq(Nat)
    <3>1. 1 .. N \subseteq Nat /\ 0 .. N \subseteq Nat
      OBVIOUS
    <3>2. chain \in Seq(1 .. N) /\ wData \in Seq(0 .. N)
      BY <1>a, Numbers
    <3> QED BY <3>1, <3>2, SeqWider
  <2>3. Window!Held \in Seq(Nat) /\ Len(Window!Held) = inHand
        /\ (inHand = 1 => Window!Held[1] = wSession.seg)
    BY <1>i DEF Window!Held, inHand, taking, Countable
  <2>4. Window!Pending \in Seq(Nat) /\ Len(Window!Pending) = leaving
        /\ (leaving = 1 => Window!Pending[1] = wWriter.sent)
    BY <1>i DEF Window!Pending, leaving, Countable
  <2> DEFINE a == chain \o Window!Held
             b == a \o wData
             c == b \o Window!Pending
  <2>5. a \in Seq(Nat) /\ Len(a) = Len(chain) + inHand
        /\ \A i \in 1 .. Len(a) :
              a[i] = IF i <= Len(chain) THEN chain[i] ELSE Window!Held[i - Len(chain)]
    BY <2>2, <2>3, Concatenation
  <2>6. \A i \in 1 .. Len(a) : a[i] = wGot + i
    <3> SUFFICES ASSUME NEW i \in 1 .. Len(a) PROVE a[i] = wGot + i
      OBVIOUS
    <3> HIDE DEF a
    <3>1. CASE i <= Len(chain)
      <4>1. i \in 1 .. Len(chain)
        BY <1>i, <2>5, <3>1 DEF Countable
      <4> QED BY <2>1, <2>5, <3>1, <4>1
    <3>2. CASE ~ i <= Len(chain)
      <4>1. inHand = 1 /\ i = Len(chain) + 1 /\ i - Len(chain) = 1
        BY <1>i, <2>5, <3>2, Flags DEF Countable
      <4>2. a[i] = wSession.seg
        BY <2>3, <2>5, <3>2, <4>1
      <4> QED BY <1>i, <2>1, <4>1, <4>2, Flags DEF Countable
    <3> QED BY <3>1, <3>2
  <2> HIDE DEF a
  <2>7. b \in Seq(Nat) /\ Len(b) = Len(a) + Len(wData)
        /\ \A i \in 1 .. Len(b) : b[i] = IF i <= Len(a) THEN a[i] ELSE wData[i - Len(a)]
    BY <2>2, <2>5, Concatenation
  <2>8. \A i \in 1 .. Len(b) : b[i] = wGot + i
    <3> SUFFICES ASSUME NEW i \in 1 .. Len(b) PROVE b[i] = wGot + i
      OBVIOUS
    <3> HIDE DEF b
    <3>1. CASE i <= Len(a)
      <4>1. i \in 1 .. Len(a)
        BY <2>5, <2>7, <3>1
      <4> QED BY <2>6, <2>7, <3>1, <4>1
    <3>2. CASE ~ i <= Len(a)
      <4>0. Len(a) \in Nat /\ Len(wData) \in Nat /\ i \in 1 .. Len(a) + Len(wData)
        <5>1. Len(a) \in Nat /\ Len(wData) \in Nat
          BY <2>2, <2>5, Element
        <5> QED BY <2>7, <5>1
      <4>1. i - Len(a) \in 1 .. Len(wData)
        BY <3>2, <4>0
      <4>2. b[i] = wGot + Len(chain) + inHand + (i - Len(a))
        BY <2>1, <2>7, <3>2, <4>1
      <4> QED BY <1>i, <2>5, <4>2 DEF Countable
    <3> QED BY <3>1, <3>2
  <2> HIDE DEF b
  <2>9. c \in Seq(Nat) /\ Len(c) = Len(b) + leaving
        /\ \A i \in 1 .. Len(c) : c[i] = IF i <= Len(b) THEN b[i] ELSE Window!Pending[i - Len(b)]
    <3>1. b \in Seq(Nat) /\ Window!Pending \in Seq(Nat) /\ Len(Window!Pending) = leaving
      BY <2>4, <2>7
    <3> QED BY <3>1, Concatenation
  <2>10. \A i \in 1 .. Len(c) : c[i] = wGot + i
    <3> SUFFICES ASSUME NEW i \in 1 .. Len(c) PROVE c[i] = wGot + i
      OBVIOUS
    <3> HIDE DEF c
    <3>1. CASE i <= Len(b)
      <4>1. i \in 1 .. Len(b)
        BY <2>7, <2>9, <3>1
      <4> QED BY <2>8, <2>9, <3>1, <4>1
    <3>2. CASE ~ i <= Len(b)
      <4>1. leaving = 1 /\ i = Len(b) + 1 /\ i - Len(b) = 1
        BY <1>i, <2>7, <2>9, <3>2, Flags DEF Countable
      <4>2. c[i] = wWriter.sent
        BY <2>4, <2>9, <3>2, <4>1
      <4>3. Len(b) = Len(chain) + inHand + Len(wData)
        BY <2>5, <2>7
      <4> QED BY <1>i, <2>1, <4>1, <4>2, <4>3 DEF Countable
    <3> QED BY <3>1, <3>2
  <2>11. Len(c) = wWriter.sent - wGot
    <3>1. Len(c) = Len(chain) + inHand + Len(wData) + leaving
      BY <2>5, <2>7, <2>9
    <3> QED BY <1>i, <2>1, <3>1 DEF Countable
  <2>12. c = [i \in 1 .. wWriter.sent - wGot |-> wGot + i]
    <3> HIDE DEF c
    <3>1. c = [i \in 1 .. Len(c) |-> c[i]]
      BY <2>9
    <3> QED BY <2>10, <2>11, <3>1
  <2> QED BY <2>12 DEF a, b
<1>3. Window!CreditExact
  <2> SUFFICES ASSUME Window!Open
               PROVE  wSend.done = Window!Unread + Window!BeingRead + wRecv.done + Window!Unsent
                                   + Window!Acknowledged
    BY DEF Window!CreditExact
  <2>1. Window!BeingRead = reading
    BY DEF Window!BeingRead, reading
  <2>2. Len(Window!Held) = inHand /\ Len(Window!Pending) = leaving
    BY DEF Window!Held, Window!Pending, inHand, leaving, taking
  <2>3. Window!Unread = Len(chain) + inHand + Len(wData) + leaving
    BY <2>2 DEF Window!Unread, chain
  <2>4. Credit
    BY DEF WindowInv
  <2> QED BY <1>i, <2>1, <2>3, <2>4 DEF Credit, Countable
<1> QED BY <1>1, <1>2, <1>3 DEF WindowSafe

(* Nothing written is lost, doubled or overtaken, and the count of the send*)
(* window is exact (conn.go:276, 357, 477): for any number of segments and *)
(* any sizes of the window, closing and deadlines included.                *)
THEOREM WindowKeeps == MuxSpec => []WindowSafe
<1>1. MuxInit => WindowInv
  BY WindowInitInv DEF MuxInit
<1>2. WindowInv /\ [MuxNext]_<<part, vars, windowVars>> => WindowInv'
  <2> SUFFICES ASSUME WindowInv, [MuxNext]_<<part, vars, windowVars>> PROVE WindowInv'
    OBVIOUS
  <2>1. CASE Window!Next
    BY <2>1, WindowStep
  <2>2. CASE UNCHANGED windowVars
    BY <2>2, WindowStill
  <2>3. QED BY <2>1, <2>2 DEF MuxNext
<1>3. QED BY <1>1, <1>2, WindowInvKeeps, PTL DEF MuxSpec

-----------------------------------------------------------------------------
(* The link: its inductive invariant.                                      *)

(* Types, without the bounds that follow from the rest.                    *)
Queues    == [high : Seq({Ping, Pong}), mid : Seq(Packet), low : Seq(Packet), starving : Nat]
Packs2    == Packet \cup {Ping, Pong}
LinkTypes ==
    /\ id \in {0} \cup Id
    /\ caller \in [Conn -> [pc : {"start", "wrap", "take", "set", "send", "wait", "open", "failed"}, id : {0} \cup Id]]
    /\ table \in [End -> [Id -> 0 .. Opens]]
    /\ conn \in [End -> [Conn -> {"none", "made", "open", "closing", "closed"}]]
    /\ sent \in [End -> [Conn -> 0 .. 1]]
    /\ got \in [End -> [Conn -> Nat]]
    /\ out \in [End -> Queues]
    /\ wire \in [End -> Seq(Packs2)]
    /\ link \in BOOLEAN
    /\ reader \in [End -> 0 .. Opens] /\ reader["B"] = 0
    /\ backlog \in Seq(Packet)
    /\ accept \in [pc : {"pop", "set", "deliver", "ok", "end"}, conn : 0 .. Opens, id : {0} \cup Id]
    /\ ping \in [check : 0 .. Ticks, ticks : 0 .. Ticks]
    /\ mux \in [End -> [closed : BOOLEAN, checked : 0 .. Closers, stored : 0 .. Closers,
                        shut : BOOLEAN, panic : BOOLEAN]]
    /\ passed \in [End -> Nat]

(* Whether a packet is in a queue, and whether one that may come only once *)
(* does.                                                                   *)
In(s, p)    == \E i \in 1 .. Len(s) : s[i] = p
OnceOnly(p) == p.flag \in {"new", "data"}
Sole(s)     == \A i, j \in 1 .. Len(s) : s[i] = s[j] /\ OnceOnly(s[i]) => i = j
Way(e, p)   == In(wire[e], p) \/ In(out[e].mid, p) \/ In(out[e].low, p)

Once ==
    /\ \A e \in End : /\ Sole(wire[e]) /\ Sole(out[e].mid) /\ Sole(out[e].low)
                      /\ \A p \in Packet : OnceOnly(p) /\ (In(out[e].mid, p) \/ In(out[e].low, p)) => ~In(wire[e], p)
                      /\ \A i \in 1 .. Len(out[e].mid) : out[e].mid[i].flag \in {"new", "ok"}
                      /\ \A i \in 1 .. Len(out[e].low) : out[e].low[i].flag \in {"data", "close"}
    /\ Sole(backlog)

(* Calls of NewConn that have an id, and what ids were given: from FirstId *)
(* on, and the last one perhaps from the start again.                      *)
Taken     == {c \in Conn : caller[c].id # 0}
Counting  == /\ id = FirstId + Cardinality(Taken)
             /\ \A c \in Taken : caller[c].id > FirstId /\ caller[c].id <= id
             /\ \A c \in Conn : caller[c].pc = "wrap" => id >= MaxId
Wrapped   == /\ id = 0
             /\ \A c \in Taken : caller[c].id > FirstId
             /\ FirstId > 0
             /\ \E c \in Conn : caller[c].pc = "take" /\ Taken = Conn \ {c}
IdsGiven ==
    /\ \A c, d \in Taken : caller[c].id = caller[d].id => c = d
    /\ \A c \in Conn : /\ caller[c].pc \in {"start", "wrap", "take"} => caller[c].id = 0
                       /\ caller[c].pc \in {"set", "send", "wait", "open"} => caller[c].id # 0
    /\ Counting \/ Wrapped \/ Taken = Conn

(* A connection is in the table of an end under its id as long as that end *)
(* has it, and no other.                                                   *)
Had(e, c) == conn[e][c] \in {"made", "open", "closing"}
Tabled ==
    /\ \A e \in End, i \in Id : table[e][i] # 0 => caller[table[e][i]].id = i /\ Had(e, table[e][i])
    /\ \A e \in End, c \in Conn : Had(e, c) => table[e][caller[c].id] = c
Tables ==
    /\ Tabled
    /\ \A c \in Conn : conn["A"][c] = "none" <=> caller[c].pc \in {"start", "wrap", "take", "set"}
                                                  \/ (caller[c].pc = "failed" /\ caller[c].id = 0)
    /\ \A c \in Conn : conn["A"][c] = "open" => caller[c].pc = "open"

(* A packet is about a connection that was announced, ...                  *)
Announced(c) == caller[c].pc \in {"wait", "open", "failed"} /\ caller[c].id # 0
Given(c)     == conn["B"][c] \in {"open", "closing", "closed"}
Packets ==
    /\ \A e \in End, p \in Packet :
          Way(e, p) => /\ Announced(p.conn) /\ p.id = caller[p.conn].id
                       /\ p.flag # "new" => Given(p.conn)
    /\ \A c \in Conn : caller[c].pc = "open" => Given(c)
    /\ reader["A"] # 0 => Given(reader["A"])
    /\ accept.pc = "ok" => Given(accept.conn)

(* ... the announcement is made once, ...                                  *)
News ==
    /\ \A e \in End, p \in Packet :
          (Way(e, p) \/ In(backlog, p)) /\ p.flag = "new"
             => /\ conn["B"][p.conn] = "none"
                /\ Way(e, p) => ~In(backlog, p)
                /\ accept.pc = "set" => accept.conn # p.conn
    /\ \A e \in End, p \in Packet : Way(e, p) /\ p.flag = "new" => e = "A"
    /\ \A p \in Packet : In(backlog, p) => p.flag = "new" /\ Announced(p.conn) /\ p.id = caller[p.conn].id
    /\ accept.pc \in {"set", "deliver", "ok"} =>
          accept.conn \in Conn /\ Announced(accept.conn) /\ accept.id = caller[accept.conn].id
    /\ accept.pc = "set" => conn["B"][accept.conn] = "none"
    /\ accept.pc \in {"deliver", "ok"} => conn["B"][accept.conn] # "none"
    /\ \A c \in Conn : conn["B"][c] # "none" => Announced(c)

(* ... and so is a message.                                                *)
Messages ==
    /\ \A e \in End, c \in Conn : got[Other(e)][c] <= sent[e][c]
    /\ \A e \in End, p \in Packet :
          Way(e, p) /\ p.flag = "data" => sent[e][p.conn] = 1 /\ got[Other(e)][p.conn] = 0
    /\ lost = {}

(* How many openings an end has in its queue or has sent.                  *)
Asked    == {c \in Conn : Announced(c)}
Answered == {c \in Conn : conn["B"][c] # "none" /\ (accept.pc \in {"deliver", "ok"} => accept.conn # c)}
Starving ==
    /\ out["A"].starving + Len(out["A"].mid) <= Cardinality(Asked)
    /\ out["B"].starving + Len(out["B"].mid) <= Cardinality(Answered)
    /\ \A e \in End : /\ passed[e] <= MaxStarving
                      /\ ~mux[e].closed => passed[e] <= out[e].starving

Bounds ==
    /\ ping.check <= ping.ticks
    /\ \A e \in End : /\ mux[e].checked + mux[e].stored <= Closers
                      /\ mux[e].stored > 0 => mux[e].closed

LinkInv ==
    /\ LinkTypes /\ Once /\ IdsGiven /\ Tables /\ Packets /\ News /\ Messages /\ Starving /\ Bounds

-----------------------------------------------------------------------------
(* The link: its queues.                                                   *)

(* What appending does: one more, and once only if it was not there.       *)
LEMMA AppendIn ==
    ASSUME NEW S, NEW s \in Seq(S), NEW p \in S
    PROVE  /\ Append(s, p) \in Seq(S) /\ Len(Append(s, p)) = Len(s) + 1
           /\ \A q : In(Append(s, p), q) <=> In(s, q) \/ q = p
           /\ Sole(s) /\ (OnceOnly(p) => ~In(s, p)) => Sole(Append(s, p))
           /\ \A T : (\A i \in 1 .. Len(s) : s[i].flag \in T) /\ p.flag \in T
                        => \A i \in 1 .. Len(Append(s, p)) : Append(s, p)[i].flag \in T
<1> DEFINE n == Len(s)
           r == Append(s, p)
<1>1. /\ n \in Nat /\ r \in Seq(S) /\ Len(r) = n + 1 /\ r[n + 1] = p
      /\ \A i \in 1 .. n : r[i] = s[i]
  OBVIOUS
<1> HIDE DEF n, r
<1>2. \A i \in 1 .. Len(r) : i = n + 1 \/ i \in 1 .. n
  BY <1>1
<1>3. \A i \in 1 .. n : i \in 1 .. Len(r)
  BY <1>1
<1>4. n + 1 \in 1 .. Len(r)
  BY <1>1
<1>5. \A q : In(r, q) <=> In(s, q) \/ q = p
  BY <1>1, <1>2, <1>3, <1>4 DEF In, n
<1>6. ASSUME Sole(s), OnceOnly(p) => ~In(s, p) PROVE Sole(r)
  <2> SUFFICES ASSUME NEW i \in 1 .. Len(r), NEW j \in 1 .. Len(r), r[i] = r[j], OnceOnly(r[i]) PROVE i = j
    BY DEF Sole
  <2>1. \A k \in 1 .. n : OnceOnly(p) => r[k] # p
    BY <1>1, <1>6 DEF In, n
  <2>2. CASE i = n + 1
    BY <1>1, <1>2, <2>1, <2>2
  <2>3. CASE j = n + 1
    BY <1>1, <1>2, <2>1, <2>3
  <2> QED BY <1>1, <1>2, <1>6, <2>2, <2>3 DEF Sole, n
<1>7. ASSUME NEW T, \A i \in 1 .. n : s[i].flag \in T, p.flag \in T PROVE \A i \in 1 .. Len(r) : r[i].flag \in T
  BY <1>1, <1>2, <1>7
<1> QED BY <1>1, <1>5, <1>6, <1>7 DEF n, r

(* What taking the first does: one less, and it is gone if it came once.   *)
LEMMA TailIn ==
    ASSUME NEW S, NEW s \in Seq(S), s # <<>>
    PROVE  /\ Head(s) \in S /\ In(s, Head(s))
           /\ Tail(s) \in Seq(S) /\ Len(Tail(s)) = Len(s) - 1 /\ Len(s) \in Nat /\ Len(s) > 0
           /\ \A q : In(Tail(s), q) => In(s, q)
           /\ Sole(s) => Sole(Tail(s)) /\ (OnceOnly(Head(s)) => ~In(Tail(s), Head(s)))
           /\ \A T : (\A i \in 1 .. Len(s) : s[i].flag \in T)
                        => /\ Head(s).flag \in T
                           /\ \A i \in 1 .. Len(Tail(s)) : Tail(s)[i].flag \in T
<1> DEFINE n == Len(s)
           r == Tail(s)
<1>1. /\ n \in Nat /\ n > 0 /\ r \in Seq(S) /\ Len(r) = n - 1 /\ Head(s) = s[1] /\ Head(s) \in S
      /\ \A i \in 1 .. n - 1 : r[i] = s[i + 1]
  OBVIOUS
<1> HIDE DEF n, r
<1>2. \A i \in 1 .. Len(r) : i + 1 \in 1 .. n /\ r[i] = s[i + 1] /\ i + 1 # 1
  BY <1>1
<1>3. 1 \in 1 .. n
  BY <1>1
<1>4. In(s, Head(s)) /\ \A q : In(r, q) => In(s, q)
  BY <1>1, <1>2, <1>3 DEF In, n
<1>5. ASSUME Sole(s) PROVE Sole(r) /\ (OnceOnly(Head(s)) => ~In(r, Head(s)))
  <2>1. Sole(r)
    <3> SUFFICES ASSUME NEW i \in 1 .. Len(r), NEW j \in 1 .. Len(r), r[i] = r[j], OnceOnly(r[i]) PROVE i = j
      BY DEF Sole
    <3>1. i + 1 = j + 1
      BY <1>2, <1>5 DEF Sole, n
    <3> QED BY <3>1, <1>1
  <2>2. OnceOnly(Head(s)) => ~In(r, Head(s))
    BY <1>1, <1>2, <1>3, <1>5 DEF Sole, In, n
  <2> QED BY <2>1, <2>2
<1>6. ASSUME NEW T, \A i \in 1 .. n : s[i].flag \in T
      PROVE Head(s).flag \in T /\ \A i \in 1 .. Len(r) : r[i].flag \in T
  BY <1>1, <1>2, <1>3, <1>6
<1> QED BY <1>1, <1>4, <1>5, <1>6 DEF n, r

(* Nothing is in the empty sequence.                                       *)
LEMMA EmptyIn ==
    /\ \A q : ~In(<<>>, q)
    /\ Sole(<<>>) /\ Len(<<>>) = 0 /\ \A S : <<>> \in Seq(S)
BY DEF In, Sole

(* There are two ends.                                                     *)
LEMMA Ends2 == "A" \in End /\ "B" \in End /\ Other("A") = "B" /\ Other("B") = "A"
               /\ \A e \in End : Other(e) \in End /\ Other(e) # e /\ Other(Other(e)) = e
<1>1. Other("A") = "B" /\ Other("B") = "A"
  BY DEF Other, End
<1> QED BY <1>1 DEF End

(* What a packet is made of; pings are none.                               *)
LEMMA PacketIs ==
    /\ \A f \in {"new", "ok", "data", "close"}, c \in Conn, i \in Id :
          LET p == Packs(f, c, i) IN p \in Packet /\ p.flag = f /\ p.conn = c /\ p.id = i
    /\ \A p \in Packet : /\ p.flag \in {"new", "ok", "data", "close"} /\ p.conn \in Conn /\ p.id \in Id
                         /\ p = Packs(p.flag, p.conn, p.id)
    /\ Ping \notin Packet /\ Pong \notin Packet /\ Ping.flag = "ping" /\ Pong.flag = "pong"
BY DEF Packs, Packet, Ping, Pong

(* The types of an end's queues.                                           *)
LEMMA LinkTyped ==
    ASSUME LinkTypes, NEW e \in End
    PROVE  /\ out[e] \in Queues
           /\ out[e].high \in Seq({Ping, Pong}) /\ out[e].mid \in Seq(Packet) /\ out[e].low \in Seq(Packet)
           /\ out[e].starving \in Nat /\ Len(out[e].mid) \in Nat
           /\ wire[e] \in Seq(Packs2)
           /\ mux[e].closed \in BOOLEAN
<1>1. out[e] \in Queues /\ wire[e] \in Seq(Packs2) /\ mux[e].closed \in BOOLEAN
  BY DEF LinkTypes
<1>2. out[e].high \in Seq({Ping, Pong}) /\ out[e].mid \in Seq(Packet) /\ out[e].low \in Seq(Packet)
      /\ out[e].starving \in Nat
  BY <1>1 DEF Queues
<1> QED BY <1>1, <1>2

(* What pushing a packet does to a queue.                                  *)
LEMMA PushIs ==
    ASSUME NEW q \in Queues, NEW p
    PROVE  /\ p \in {Ping, Pong} => /\ Push(q, p) \in Queues /\ Push(q, p).mid = q.mid /\ Push(q, p).low = q.low
                                    /\ Push(q, p).starving = q.starving
           /\ p \in Packet /\ p.flag \in {"new", "ok"} =>
                 /\ Push(q, p) \in Queues /\ Push(q, p).mid = Append(q.mid, p) /\ Push(q, p).low = q.low
                 /\ Push(q, p).starving = q.starving
           /\ p \in Packet /\ p.flag \in {"data", "close"} =>
                 /\ Push(q, p) \in Queues /\ Push(q, p).low = Append(q.low, p) /\ Push(q, p).mid = q.mid
                 /\ Push(q, p).starving = q.starving
<1>0. q.high \in Seq({Ping, Pong}) /\ q.mid \in Seq(Packet) /\ q.low \in Seq(Packet)
  BY DEF Queues
<1>1. ASSUME p \in {Ping, Pong} PROVE /\ Push(q, p) \in Queues /\ Push(q, p).mid = q.mid /\ Push(q, p).low = q.low
                                    /\ Push(q, p).starving = q.starving
  <2>1. Push(q, p) = [q EXCEPT !.high = Append(@, p)]
    BY <1>1, PacketIs DEF Push
  <2>2. Append(q.high, p) \in Seq({Ping, Pong})
    BY <1>0, <1>1, AppendIn
  <2> QED BY <2>1, <2>2 DEF Queues
<1>2. ASSUME p \in Packet, p.flag \in {"new", "ok"}
      PROVE /\ Push(q, p) \in Queues /\ Push(q, p).mid = Append(q.mid, p) /\ Push(q, p).low = q.low
            /\ Push(q, p).starving = q.starving
  <2>1. Push(q, p) = [q EXCEPT !.mid = Append(@, p)]
    BY <1>2 DEF Push
  <2>2. Append(q.mid, p) \in Seq(Packet)
    BY <1>0, <1>2, AppendIn
  <2> QED BY <2>1, <2>2 DEF Queues
<1>3. ASSUME p \in Packet, p.flag \in {"data", "close"}
      PROVE /\ Push(q, p) \in Queues /\ Push(q, p).low = Append(q.low, p) /\ Push(q, p).mid = q.mid
            /\ Push(q, p).starving = q.starving
  <2>1. Push(q, p) = [q EXCEPT !.low = Append(@, p)]
    BY <1>3 DEF Push
  <2>2. Append(q.low, p) \in Seq(Packet)
    BY <1>0, <1>3, AppendIn
  <2> QED BY <2>1, <2>2 DEF Queues
<1> QED BY <1>1, <1>2, <1>3

(* ... and taking one from it.                                             *)
LEMMA PopIs ==
    ASSUME NEW q \in Queues, q # [Empty EXCEPT !.starving = q.starving],
           NEW pk, pk = TryPop(q).pack, NEW r, r = TryPop(q).rest
    PROVE  \/ /\ q.high # <<>> /\ pk \in {Ping, Pong}
              /\ r = [q EXCEPT !.high = Tail(@)]
           \/ /\ q.mid # <<>> /\ pk = Head(q.mid)
              /\ q.low # <<>> => q.starving < MaxStarving
              /\ r = [q EXCEPT !.mid = Tail(@), !.starving = @ + 1]
           \/ /\ q.low # <<>> /\ pk = Head(q.low)
              /\ r = [q EXCEPT !.low = Tail(@), !.starving = @ \div 2]
<1>1. q.high \in Seq({Ping, Pong})
  BY DEF Queues
<1>2. q.high = <<>> /\ q.mid = <<>> /\ q.low = <<>> => q = [Empty EXCEPT !.starving = q.starving]
  BY DEF Queues, Empty
<1>3. CASE High(q)
  <2>1. TryPop(q) = [pack |-> Head(q.high), rest |-> [q EXCEPT !.high = Tail(@)]]
    <3>1. ~Mid(q) /\ ~Low(q)
      BY <1>3 DEF Mid, Low
    <3> QED BY <1>3, <3>1 DEF TryPop
  <2>2. q.high # <<>> /\ Head(q.high) \in {Ping, Pong}
    <3>1. q.high # <<>>
      BY <1>3 DEF High
    <3> QED BY <1>1, <3>1, TailIn
  <2> QED BY <2>1, <2>2
<1>4. CASE Mid(q)
  <2>1. ~High(q) /\ q.mid # <<>> /\ (q.low # <<>> => q.starving < MaxStarving)
    BY <1>4 DEF Mid
  <2>2. ~Low(q)
    BY <1>4 DEF Low
  <2>3. TryPop(q) = [pack |-> Head(q.mid), rest |-> [q EXCEPT !.mid = Tail(@), !.starving = @ + 1]]
    BY <1>4, <2>1, <2>2 DEF TryPop
  <2> QED BY <2>1, <2>3
<1>5. CASE ~High(q) /\ ~Mid(q)
  <2>1. Low(q) /\ q.low # <<>>
    BY <1>2, <1>5 DEF High, Mid, Low
  <2>2. TryPop(q) = [pack |-> Head(q.low), rest |-> [q EXCEPT !.low = Tail(@), !.starving = @ \div 2]]
    BY <1>5, <2>1 DEF TryPop
  <2> QED BY <2>1, <2>2
<1> QED BY <1>3, <1>4, <1>5

(* A packet for the queue of end e: what changes.                          *)
LEMMA SendInfoIs ==
    ASSUME LinkTypes, Once, NEW e \in End, NEW p, sendInfo(e, p), UNCHANGED <<wire, backlog>>,
           p \in Packet \/ p \in {Ping, Pong},
           p \in Packet /\ OnceOnly(p) => ~Way(e, p)
    PROVE  /\ out' \in [End -> Queues]
           /\ Once'
           /\ \A f \in End, q \in Packet : Way(f, q)' => Way(f, q) \/ (f = e /\ q = p)
           /\ \A f \in End : /\ out'[f].starving = out[f].starving
                             /\ Len(out'[f].mid) =
                                  IF f = e /\ ~mux[e].closed /\ p.flag \in {"new", "ok"}
                                  THEN Len(out[f].mid) + 1 ELSE Len(out[f].mid)
<1>0. out \in [End -> Queues] /\ out[e] \in Queues
  BY DEF LinkTypes
<1>00. p.flag \in {"new", "ok"} => p \in Packet
  BY PacketIs
<1>1. CASE mux[e].closed
  <2>1. out' = out
    BY <1>1 DEF sendInfo
  <2> QED BY <1>0, <1>1, <2>1 DEF Once, Way
<1>2. CASE ~mux[e].closed
  <2>1. out' = [out EXCEPT ![e] = Push(out[e], p)]
    BY <1>2 DEF sendInfo
  <2> DEFINE q == Push(out[e], p)
  <2>2. out'[e] = q /\ \A f \in End : f # e => out'[f] = out[f]
    BY <1>0, <2>1
  <2>3. q \in Queues
    BY <1>0, PushIs, PacketIs
  <2>4. out' \in [End -> Queues]
    BY <1>0, <2>1, <2>3
  <2>51. /\ p \in Packet => p.flag \in {"new", "ok"} \/ p.flag \in {"data", "close"}
         /\ p \in {Ping, Pong} => p.flag \notin {"new", "ok"}
    BY PacketIs
  <2>5. /\ \/ q.mid = out[e].mid /\ q.low = out[e].low /\ p.flag \notin {"new", "ok"}
           \/ q.mid = Append(out[e].mid, p) /\ q.low = out[e].low /\ p \in Packet /\ p.flag \in {"new", "ok"}
           \/ q.low = Append(out[e].low, p) /\ q.mid = out[e].mid /\ p \in Packet /\ p.flag \in {"data", "close"}
        /\ q.starving = out[e].starving
    <3>1. CASE p \in {Ping, Pong}
      BY <1>0, <2>51, <3>1, PushIs, Zenon
    <3>2. CASE p \in Packet /\ p.flag \in {"new", "ok"}
      BY <1>0, <3>2, PushIs, Zenon
    <3>3. CASE p \in Packet /\ p.flag \in {"data", "close"}
      BY <1>0, <3>3, PushIs, Zenon
    <3> QED BY <2>51, <3>1, <3>2, <3>3
  <2> HIDE DEF q
  <2>7. out[e].mid \in Seq(Packet) /\ out[e].low \in Seq(Packet)
    BY LinkTyped
  <2>8. Len(q.mid) = IF p.flag \in {"new", "ok"} THEN Len(out[e].mid) + 1 ELSE Len(out[e].mid)
    <3>1. p \in Packet => Len(Append(out[e].mid, p)) = Len(out[e].mid) + 1
      BY <2>7, AppendIn
    <3> QED BY <2>5, <3>1
  <2>9. \A f \in End, x \in Packet : Way(f, x)' => Way(f, x) \/ (f = e /\ x = p)
    <3> SUFFICES ASSUME NEW f \in End, NEW x \in Packet, Way(f, x)' PROVE Way(f, x) \/ (f = e /\ x = p)
      OBVIOUS
    <3>1. p \in Packet => /\ In(Append(out[e].mid, p), x) => In(out[e].mid, x) \/ x = p
                          /\ In(Append(out[e].low, p), x) => In(out[e].low, x) \/ x = p
      BY <2>7, AppendIn
    <3>2. CASE f # e
      BY <2>2, <3>2 DEF Way
    <3>3. CASE f = e
      <4>1. In(wire[e], x) \/ In(q.mid, x) \/ In(q.low, x)
        BY <2>2, <3>3 DEF Way
      <4> QED BY <2>5, <3>1, <3>3, <4>1 DEF Way
    <3> QED BY <3>2, <3>3
  <2>10. Once'
    <3>1. p \in Packet => /\ Sole(out[e].mid) /\ (OnceOnly(p) => ~In(out[e].mid, p)) => Sole(Append(out[e].mid, p))
                          /\ Sole(out[e].low) /\ (OnceOnly(p) => ~In(out[e].low, p)) => Sole(Append(out[e].low, p))
      BY <2>7, AppendIn
    <3>2. Sole(q.mid) /\ Sole(q.low)
      BY <2>5, <3>1 DEF Once, Way
    <3>3. \A i \in 1 .. Len(q.mid) : q.mid[i].flag \in {"new", "ok"}
      <4>1. \A i \in 1 .. Len(out[e].mid) : out[e].mid[i].flag \in {"new", "ok"}
        BY DEF Once
      <4> HIDE DEF Once
      <4>2. CASE q.mid = Append(out[e].mid, p) /\ p \in Packet /\ p.flag \in {"new", "ok"}
        BY <2>7, <4>1, <4>2, AppendIn
      <4> QED BY <2>5, <4>1, <4>2
    <3>4. \A i \in 1 .. Len(q.low) : q.low[i].flag \in {"data", "close"}
      <4>1. \A i \in 1 .. Len(out[e].low) : out[e].low[i].flag \in {"data", "close"}
        BY DEF Once
      <4>2. CASE q.low = Append(out[e].low, p) /\ p \in Packet /\ p.flag \in {"data", "close"}
        BY <2>7, <4>1, <4>2, AppendIn
      <4> QED BY <2>5, <4>1, <4>2
    <3>5. ASSUME NEW x \in Packet, OnceOnly(x), In(q.mid, x) \/ In(q.low, x) PROVE ~In(wire[e], x)
      <4>1. CASE x = p
        BY <3>5, <4>1 DEF Way
      <4>2. CASE x # p
        <5>1. In(out[e].mid, x) \/ In(out[e].low, x)
          <6>1. p \in Packet => /\ In(Append(out[e].mid, p), x) => In(out[e].mid, x) \/ x = p
                                /\ In(Append(out[e].low, p), x) => In(out[e].low, x) \/ x = p
            BY <2>7, AppendIn
          <6> QED BY <2>5, <3>5, <4>2, <6>1
        <5> QED BY <3>5, <5>1 DEF Once
      <4> QED BY <4>1, <4>2
    <3> QED BY <2>2, <3>2, <3>3, <3>4, <3>5 DEF Once
  <2> QED BY <1>2, <2>2, <2>4, <2>5, <2>8, <2>9, <2>10
<1> QED BY <1>1, <1>2

(* A packet goes out: what changes.                                        *)
LEMMA SendIs ==
    ASSUME LinkTypes, Once, NEW e \in End, Send(e)
    PROVE  /\ out' \in [End -> Queues] /\ wire' \in [End -> Seq(Packs2)] /\ passed' \in [End -> Nat]
           /\ Once'
           /\ \A f \in End, q \in Packet : Way(f, q)' => Way(f, q)
           /\ \A f \in End : /\ out'[f].starving + Len(out'[f].mid) <= out[f].starving + Len(out[f].mid)
                             /\ \/ passed'[f] = 0
                                \/ passed'[f] = passed[f] /\ out'[f].starving = out[f].starving
                                \/ /\ passed'[f] = passed[f] + 1 /\ out'[f].starving = out[f].starving + 1
                                   /\ out[f].starving < MaxStarving
<1>0. out \in [End -> Queues] /\ out[e] \in Queues /\ passed \in [End -> Nat] /\ wire \in [End -> Seq(Packs2)]
  BY DEF LinkTypes
<1>1. PICK next : next = TryPop(out[e])
  OBVIOUS
<1> DEFINE r == next.rest
           pk == next.pack
           q == out[e]
<1>2. /\ out' = [out EXCEPT ![e] = r]
      /\ wire' = [wire EXCEPT ![e] = Append(@, pk)]
      /\ passed' = [passed EXCEPT ![e] =
                 IF pk.flag \in {"data", "close"} \/ q.low = <<>> THEN 0
                 ELSE IF pk.flag \in {"new", "ok"} THEN @ + 1 ELSE @]
      /\ q # [Empty EXCEPT !.starving = q.starving]
      /\ UNCHANGED backlog
  BY <1>1 DEF Send, sessions
<1>3. \/ /\ q.high # <<>> /\ pk \in {Ping, Pong}
         /\ r = [q EXCEPT !.high = Tail(@)]
      \/ /\ q.mid # <<>> /\ pk = Head(q.mid)
         /\ q.low # <<>> => q.starving < MaxStarving
         /\ r = [q EXCEPT !.mid = Tail(@), !.starving = @ + 1]
      \/ /\ q.low # <<>> /\ pk = Head(q.low)
         /\ r = [q EXCEPT !.low = Tail(@), !.starving = @ \div 2]
  BY <1>0, <1>1, <1>2, PopIs
<1>4. /\ q.high \in Seq({Ping, Pong}) /\ q.mid \in Seq(Packet) /\ q.low \in Seq(Packet) /\ q.starving \in Nat
      /\ wire[e] \in Seq(Packs2) /\ Len(q.mid) \in Nat
  BY LinkTyped
<1>5. /\ \A i \in 1 .. Len(q.mid) : q.mid[i].flag \in {"new", "ok"}
      /\ \A i \in 1 .. Len(q.low) : q.low[i].flag \in {"data", "close"}
      /\ Sole(q.mid) /\ Sole(q.low) /\ Sole(wire[e])
      /\ \A p \in Packet : OnceOnly(p) /\ (In(q.mid, p) \/ In(q.low, p)) => ~In(wire[e], p)
  BY DEF Once
<1> HIDE DEF q, r, pk
(* What is left of the queue, and the packet.                              *)
<1>6. /\ r \in Queues /\ pk \in Packs2
      /\ Sole(r.mid) /\ Sole(r.low)
      /\ \A i \in 1 .. Len(r.mid) : r.mid[i].flag \in {"new", "ok"}
      /\ \A i \in 1 .. Len(r.low) : r.low[i].flag \in {"data", "close"}
      /\ \A x \in Packet : In(r.mid, x) => In(q.mid, x)
      /\ \A x \in Packet : In(r.low, x) => In(q.low, x)
      /\ pk \in Packet => In(q.mid, pk) \/ In(q.low, pk)
      /\ pk \in Packet /\ OnceOnly(pk) => ~In(r.mid, pk) /\ ~In(r.low, pk)
      /\ r.starving + Len(r.mid) <= q.starving + Len(q.mid)
      /\ \/ pk.flag \in {"data", "close"}
         \/ pk.flag \in {"new", "ok"} /\ r.starving = q.starving + 1 /\ (q.low # <<>> => q.starving < MaxStarving)
         \/ pk.flag \in {"ping", "pong"} /\ r.starving = q.starving
  <2>0. q \in Queues
    BY <1>0 DEF q
  <2>1. CASE q.high # <<>> /\ pk \in {Ping, Pong} /\ r = [q EXCEPT !.high = Tail(@)]
    <3>1. Tail(q.high) \in Seq({Ping, Pong})
      BY <1>4, <2>1, TailIn
    <3>2. r \in Queues /\ r.mid = q.mid /\ r.low = q.low /\ r.starving = q.starving
      BY <2>0, <2>1, <3>1 DEF Queues
    <3>3. pk \in Packs2 /\ pk \notin Packet /\ pk.flag \in {"ping", "pong"}
      BY <2>1, PacketIs DEF Packs2
    <3> QED BY <1>4, <1>5, <3>2, <3>3
  <2>2. CASE /\ q.mid # <<>> /\ pk = Head(q.mid)
             /\ q.low # <<>> => q.starving < MaxStarving
             /\ r = [q EXCEPT !.mid = Tail(@), !.starving = @ + 1]
    <3>1. /\ Tail(q.mid) \in Seq(Packet) /\ Sole(Tail(q.mid)) /\ pk \in Packet /\ In(q.mid, pk)
          /\ Len(Tail(q.mid)) = Len(q.mid) - 1
          /\ \A x : In(Tail(q.mid), x) => In(q.mid, x)
          /\ OnceOnly(pk) => ~In(Tail(q.mid), pk)
      BY <1>4, <1>5, <2>2, TailIn
    <3>2. pk.flag \in {"new", "ok"} /\ \A i \in 1 .. Len(Tail(q.mid)) : Tail(q.mid)[i].flag \in {"new", "ok"}
      BY <1>4, <1>5, <2>2, TailIn
    <3>3. r \in Queues /\ r.mid = Tail(q.mid) /\ r.low = q.low /\ r.starving = q.starving + 1
      <4>1. q.starving + 1 \in Nat
        BY <1>4
      <4>2. r = [high |-> q.high, mid |-> Tail(q.mid), low |-> q.low, starving |-> q.starving + 1]
        BY <2>0, <2>2 DEF Queues
      <4> QED BY <1>4, <3>1, <4>1, <4>2 DEF Queues
    <3>4. ~In(q.low, pk)
      BY <1>5, <3>2 DEF In
    <3> HIDE DEF In, Sole, OnceOnly
    <3> QED BY <1>4, <1>5, <2>2, <3>1, <3>2, <3>3, <3>4 DEF Packs2
  <2>3. CASE /\ q.low # <<>> /\ pk = Head(q.low)
             /\ r = [q EXCEPT !.low = Tail(@), !.starving = @ \div 2]
    <3>1. /\ Tail(q.low) \in Seq(Packet) /\ Sole(Tail(q.low)) /\ pk \in Packet /\ In(q.low, pk)
          /\ \A x : In(Tail(q.low), x) => In(q.low, x)
          /\ OnceOnly(pk) => ~In(Tail(q.low), pk)
      BY <1>4, <1>5, <2>3, TailIn
    <3>2. pk.flag \in {"data", "close"} /\ \A i \in 1 .. Len(Tail(q.low)) : Tail(q.low)[i].flag \in {"data", "close"}
      BY <1>4, <1>5, <2>3, TailIn
    <3>3. q.starving \div 2 \in Nat /\ q.starving \div 2 <= q.starving
      BY <1>4
    <3>4. r \in Queues /\ r.low = Tail(q.low) /\ r.mid = q.mid /\ r.starving = q.starving \div 2
      BY <1>4, <2>0, <2>3, <3>1, <3>3 DEF Queues
    <3>5. ~In(q.mid, pk)
      BY <1>5, <3>2 DEF In
    <3>6. r.starving + Len(r.mid) <= q.starving + Len(q.mid)
      <4>1. r.starving <= q.starving /\ r.starving \in Nat /\ Len(r.mid) = Len(q.mid)
        BY <3>3, <3>4
      <4> QED BY <1>4, <4>1
    <3> QED BY <1>5, <3>1, <3>2, <3>4, <3>5, <3>6 DEF Packs2
  <2> QED BY <1>3, <2>1, <2>2, <2>3
<1>7. out'[e] = r /\ wire'[e] = Append(wire[e], pk) /\ \A f \in End : f # e => out'[f] = out[f] /\ wire'[f] = wire[f] /\ passed'[f] = passed[f]
  BY <1>0, <1>2
<1>8. out' \in [End -> Queues]
  BY <1>0, <1>2, <1>6
<1>9. wire' \in [End -> Seq(Packs2)]
  <2>1. Append(wire[e], pk) \in Seq(Packs2)
    BY <1>4, <1>6, AppendIn
  <2> QED BY <1>0, <1>2, <2>1
<1>10. /\ \A x : In(Append(wire[e], pk), x) <=> In(wire[e], x) \/ x = pk
       /\ Sole(Append(wire[e], pk))
  <2>1. OnceOnly(pk) => pk \in Packet
    BY <1>6, PacketIs DEF OnceOnly, Packs2
  <2>2. OnceOnly(pk) => ~In(wire[e], pk)
    BY <1>5, <1>6, <2>1
  <2> QED BY <1>4, <1>5, <1>6, <2>2, AppendIn
<1>11. \A f \in End, x \in Packet : Way(f, x)' => Way(f, x)
  <2> SUFFICES ASSUME NEW f \in End, NEW x \in Packet, Way(f, x)' PROVE Way(f, x)
    OBVIOUS
  <2>1. CASE f # e
    BY <1>7, <2>1 DEF Way
  <2>2. CASE f = e
    <3>1. In(Append(wire[e], pk), x) \/ In(r.mid, x) \/ In(r.low, x)
      BY <1>7, <2>2 DEF Way
    <3>2. In(wire[e], x) \/ In(q.mid, x) \/ In(q.low, x)
      BY <1>6, <1>10, <3>1
    <3> QED BY <2>2, <3>2 DEF Way, q
  <2> QED BY <2>1, <2>2
<1>12. Once'
  <2>1. ASSUME NEW x \in Packet, OnceOnly(x), In(r.mid, x) \/ In(r.low, x) PROVE ~In(Append(wire[e], pk), x)
    BY <1>5, <1>6, <1>10, <2>1
  <2>2. \A f \in End : f # e =>
          /\ Sole(wire[f]) /\ Sole(out[f].mid) /\ Sole(out[f].low)
          /\ \A p \in Packet : OnceOnly(p) /\ (In(out[f].mid, p) \/ In(out[f].low, p)) => ~In(wire[f], p)
          /\ \A i \in 1 .. Len(out[f].mid) : out[f].mid[i].flag \in {"new", "ok"}
          /\ \A i \in 1 .. Len(out[f].low) : out[f].low[i].flag \in {"data", "close"}
    BY DEF Once
  <2>3. Sole(backlog')
    BY <1>2 DEF Once
  <2>4. ASSUME NEW f \in End
        PROVE  /\ Sole(wire'[f]) /\ Sole(out'[f].mid) /\ Sole(out'[f].low)
               /\ \A p \in Packet : OnceOnly(p) /\ (In(out'[f].mid, p) \/ In(out'[f].low, p)) => ~In(wire'[f], p)
               /\ \A i \in 1 .. Len(out'[f].mid) : out'[f].mid[i].flag \in {"new", "ok"}
               /\ \A i \in 1 .. Len(out'[f].low) : out'[f].low[i].flag \in {"data", "close"}
    <3>1. CASE f = e
      BY <1>6, <1>7, <1>10, <2>1, <3>1
    <3>2. CASE f # e
      BY <1>7, <2>2, <3>2
    <3> QED BY <3>1, <3>2
  <2> QED BY <2>3, <2>4 DEF Once
<1>13. passed' \in [End -> Nat]
  <2>1. passed[e] \in Nat
    BY <1>0
  <2> DEFINE v == IF pk.flag \in {"data", "close"} \/ q.low = <<>> THEN 0
                  ELSE IF pk.flag \in {"new", "ok"} THEN passed[e] + 1 ELSE passed[e]
  <2>2. v \in Nat
    BY <2>1
  <2>3. passed' = [passed EXCEPT ![e] = v]
    BY <1>2
  <2> HIDE DEF v
  <2> QED BY <1>0, <2>2, <2>3
<1>14. ASSUME NEW f \in End
       PROVE  /\ out'[f].starving + Len(out'[f].mid) <= out[f].starving + Len(out[f].mid)
              /\ \/ passed'[f] = 0
                 \/ passed'[f] = passed[f] /\ out'[f].starving = out[f].starving
                 \/ /\ passed'[f] = passed[f] + 1 /\ out'[f].starving = out[f].starving + 1
                    /\ out[f].starving < MaxStarving
  <2>1. CASE f = e
    <3>1. passed'[e] = IF pk.flag \in {"data", "close"} \/ q.low = <<>> THEN 0
                       ELSE IF pk.flag \in {"new", "ok"} THEN passed[e] + 1 ELSE passed[e]
      BY <1>0, <1>2
    <3>2. out'[e].starving + Len(out'[e].mid) <= out[e].starving + Len(out[e].mid)
      BY <1>6, <1>7 DEF q
    <3>3. \/ passed'[e] = 0
          \/ passed'[e] = passed[e] /\ r.starving = q.starving
          \/ /\ passed'[e] = passed[e] + 1 /\ r.starving = q.starving + 1
             /\ q.starving < MaxStarving
      BY <1>6, <3>1
    <3> QED BY <1>7, <2>1, <3>2, <3>3 DEF q
  <2>2. CASE f # e
    <3>1. out[f].starving \in Nat /\ Len(out[f].mid) \in Nat
      BY LinkTyped
    <3> QED BY <1>7, <2>2, <3>1
  <2> QED BY <2>1, <2>2
<1> QED BY <1>8, <1>9, <1>11, <1>12, <1>13, <1>14

(* A packet is read: what changes.                                         *)
LEMMA ReadsWire ==
    ASSUME LinkTypes, Once, NEW e \in End, NEW flag, Reads(e, flag), NEW p, p = Head(Incoming(e))
    PROVE  /\ wire' \in [End -> Seq(Packs2)] /\ p \in Packs2 /\ p.flag = flag /\ (p \in Packet => Way(Other(e), p))
           /\ \A f \in End : \A x : In(wire'[f], x) => In(wire[f], x)
           /\ \A f \in End : Sole(wire'[f])
           /\ p \in Packet /\ OnceOnly(p) =>
                 /\ ~In(wire'[Other(e)], p) /\ ~In(out[Other(e)].mid, p) /\ ~In(out[Other(e)].low, p)
<1> DEFINE g == Other(e)
<1>0. g \in End /\ wire[g] \in Seq(Packs2) /\ wire \in [End -> Seq(Packs2)] /\ Incoming(e) = wire[g]
  BY Ends2 DEF LinkTypes, Incoming
<1> HIDE DEF g
<1>1. wire[g] # <<>> /\ wire' = [wire EXCEPT ![g] = Tail(@)] /\ p = Head(wire[g]) /\ p.flag = flag
  BY <1>0 DEF Reads, g
<1>2. /\ p \in Packs2 /\ In(wire[g], p) /\ Tail(wire[g]) \in Seq(Packs2)
      /\ \A x : In(Tail(wire[g]), x) => In(wire[g], x)
      /\ Sole(wire[g]) => Sole(Tail(wire[g])) /\ (OnceOnly(p) => ~In(Tail(wire[g]), p))
  BY <1>0, <1>1, TailIn
<1>3. wire'[g] = Tail(wire[g]) /\ \A f \in End : f # g => wire'[f] = wire[f]
  BY <1>0, <1>1
<1>4. wire' \in [End -> Seq(Packs2)]
  BY <1>0, <1>1, <1>2
<1>5. \A f \in End : \A x : In(wire'[f], x) => In(wire[f], x)
  BY <1>2, <1>3
<1>6. \A f \in End : Sole(wire'[f])
  BY <1>2, <1>3 DEF Once
<1>7. p \in Packet => Way(g, p)
  BY <1>2 DEF Way
<1>8. p \in Packet /\ OnceOnly(p) => ~In(wire'[g], p) /\ ~In(out[g].mid, p) /\ ~In(out[g].low, p)
  BY <1>0, <1>2, <1>3 DEF Once
<1> QED BY <1>1, <1>2, <1>4, <1>5, <1>6, <1>7, <1>8 DEF g

(* Packets only leave the wires: those that come once still do.            *)
LEMMA OnceShrinks ==
    ASSUME Once, Sole(backlog'),
           \A f \in End : \A x : In(wire'[f], x) => In(wire[f], x),
           \A f \in End : Sole(wire'[f]) /\ out'[f].mid = out[f].mid /\ out'[f].low = out[f].low
    PROVE  Once' /\ \A f \in End, q \in Packet : Way(f, q)' => Way(f, q)
<1>1. \A f \in End, q \in Packet : Way(f, q)' => Way(f, q)
  BY DEF Way
<1>2. Once'
  BY DEF Once
<1> QED BY <1>1, <1>2

(* ... when the queues are left alone.                                     *)
LEMMA ReadsIs ==
    ASSUME LinkTypes, Once, NEW e \in End, NEW flag, Reads(e, flag), UNCHANGED <<out, backlog>>,
           NEW p, p = Head(Incoming(e))
    PROVE  /\ wire' \in [End -> Seq(Packs2)] /\ p \in Packs2 /\ p.flag = flag /\ (p \in Packet => Way(Other(e), p))
           /\ Once'
           /\ \A f \in End, q \in Packet : Way(f, q)' => Way(f, q)
           /\ p \in Packet /\ OnceOnly(p) => ~Way(Other(e), p)'
<1>1. /\ wire' \in [End -> Seq(Packs2)] /\ p \in Packs2 /\ p.flag = flag /\ (p \in Packet => Way(Other(e), p))
      /\ \A f \in End : \A x : In(wire'[f], x) => In(wire[f], x)
      /\ \A f \in End : Sole(wire'[f])
      /\ p \in Packet /\ OnceOnly(p) =>
            /\ ~In(wire'[Other(e)], p) /\ ~In(out[Other(e)].mid, p) /\ ~In(out[Other(e)].low, p)
  BY ReadsWire, Zenon
<1>2. Sole(backlog')
  BY DEF Once
<1>3. Once' /\ \A f \in End, q \in Packet : Way(f, q)' => Way(f, q)
  BY <1>1, <1>2, OnceShrinks
<1>4. p \in Packet /\ OnceOnly(p) => ~Way(Other(e), p)'
  BY <1>1 DEF Way
<1> QED BY <1>1, <1>3, <1>4

-----------------------------------------------------------------------------
(* The link: what keeps each part of the invariant.                        *)

Fine(q) == Announced(q.conn) /\ q.id = caller[q.conn].id /\ (q.flag # "new" => Given(q.conn))

(* Callers keep the ids they have announced.                               *)
Stay == \A c \in Conn : Announced(c) => Announced(c)' /\ caller'[c].id = caller[c].id

(* Packets stay where they are when queues and wires do.                   *)
LEMMA WayStill == ASSUME UNCHANGED <<out, wire>> PROVE \A e \in End, p \in Packet : Way(e, p)' = Way(e, p)
BY DEF Way

(* ... and come once.                                                      *)
LEMMA OnceStill == ASSUME Once, UNCHANGED <<out, wire, backlog>> PROVE Once'
BY DEF Once

(* Ids stay when the callers do.                                           *)
LEMMA IdsStill == ASSUME IdsGiven, UNCHANGED <<id, caller>> PROVE IdsGiven'
BY DEF IdsGiven, Counting, Wrapped, Taken

(* Tables agree with the connections when neither changes.                 *)
LEMMA TablesStill == ASSUME Tables, UNCHANGED <<caller, table, conn>> PROVE Tables'
BY DEF Tables, Tabled, Had

(* Callers that do not move keep what they announced.                      *)
LEMMA StayStill == ASSUME UNCHANGED caller PROVE Stay
BY DEF Stay, Announced

(* New packets are fine, and those on their way stay so.                   *)
LEMMA PacketsStill ==
    ASSUME LinkTypes, Packets, News, Stay,
           \A c \in Conn : Given(c) => Given(c)',
           \A c \in Conn : caller'[c].pc = "open" => caller[c].pc = "open" \/ Given(c)',
           \A e \in End, q \in Packet : Way(e, q)' => Way(e, q) \/ Fine(q)',
           reader'["A"] \in {0, reader["A"]} \/ Given(reader["A"])',
           accept'.pc = "ok" => Given(accept.conn)' \/ accept' = accept
    PROVE  Packets'
<1>1. ASSUME NEW e \in End, NEW q \in Packet, Way(e, q)' PROVE Fine(q)'
  <2>1. q.conn \in Conn
    BY PacketIs
  <2>2. Way(e, q) => Fine(q)'
    BY <2>1 DEF Packets, Stay, Fine
  <2> QED BY <1>1, <2>2
<1>2. \A c \in Conn : caller'[c].pc = "open" => Given(c)'
  BY DEF Packets
<1>3. reader'["A"] # 0 => Given(reader["A"])'
  <2>1. PICK r : r = reader["A"]
    OBVIOUS
  <2>2. r \in 0 .. Opens
    BY <2>1, Ends2 DEF LinkTypes
  <2>3. r # 0 => r \in Conn /\ Given(r)
    BY <2>1, <2>2, OpensAssumption DEF Conn, Packets
  <2>4. r # 0 => Given(r)'
    BY <2>3
  <2> QED BY <2>1, <2>4 DEF Given
<1>4. accept'.pc = "ok" => Given(accept.conn)'
  <2>1. ASSUME accept' = accept, accept.pc = "ok" PROVE Given(accept.conn)'
    <3>1. PICK c : c = accept.conn
      OBVIOUS
    <3>2. c \in Conn /\ Given(c)
      BY <2>1, <3>1 DEF Packets, News
    <3>3. Given(c)'
      BY <3>2
    <3> QED BY <2>1, <3>1, <3>3 DEF Given
  <2> QED BY <2>1
<1> QED BY <1>1, <1>2, <1>3, <1>4 DEF Packets, Fine

(* Announcements stay single when none is sent or taken.                   *)
LEMMA NewsStill ==
    ASSUME LinkTypes, News, Stay, UNCHANGED <<accept, backlog>>,
           \A c \in Conn : conn'["B"][c] = "none" <=> conn["B"][c] = "none",
           \A e \in End, q \in Packet : Way(e, q)' => Way(e, q) \/ q.flag # "new"
    PROVE  News'
<1>1. \A q \in Packet : q.conn \in Conn
  BY PacketIs
<1>2. \A q : In(backlog, q)' <=> In(backlog, q)
  BY DEF In
<1>3. \A c \in Conn : Announced(c) => Announced(c)' /\ caller'[c].id = caller[c].id
  BY DEF Stay
<1>4. /\ \A e \in End, p \in Packet :
            (Way(e, p)' \/ In(backlog, p)') /\ p.flag = "new"
               => /\ conn'["B"][p.conn] = "none"
                  /\ Way(e, p)' => ~In(backlog, p)'
                  /\ accept'.pc = "set" => accept'.conn # p.conn
      /\ \A e \in End, p \in Packet : Way(e, p)' /\ p.flag = "new" => e = "A"
  BY <1>1, <1>2 DEF News
<1>5. \A p \in Packet : In(backlog, p)' => p.flag = "new" /\ Announced(p.conn)' /\ p.id = caller'[p.conn].id
  BY <1>1, <1>2, <1>3 DEF News
<1>6. accept'.pc \in {"set", "deliver", "ok"} =>
          accept'.conn \in Conn /\ Announced(accept.conn)' /\ accept'.id = caller'[accept.conn].id
  <2>1. PICK c : c = accept.conn
    OBVIOUS
  <2>2. accept.pc \in {"set", "deliver", "ok"} => c \in Conn /\ Announced(c) /\ accept.id = caller[c].id
    BY <2>1 DEF News
  <2>3. accept.pc \in {"set", "deliver", "ok"} => c \in Conn /\ Announced(c)' /\ accept.id = caller'[c].id
    BY <1>3, <2>2
  <2> QED BY <2>1, <2>3 DEF Announced
<1>7. /\ accept'.pc = "set" => conn'["B"][accept'.conn] = "none"
      /\ accept'.pc \in {"deliver", "ok"} => conn'["B"][accept'.conn] # "none"
      /\ \A c \in Conn : conn'["B"][c] # "none" => Announced(c)'
  BY <1>3 DEF News
<1> HIDE DEF News, Way, In, Announced
<1> QED BY <1>4, <1>5, <1>6, <1>7 DEF News

(* Messages stay single when none is sent or read.                         *)
LEMMA MessagesStill ==
    ASSUME Messages, UNCHANGED <<sent, got, lost>>,
           \A e \in End, q \in Packet : Way(e, q)' => Way(e, q) \/ q.flag # "data"
    PROVE  Messages'
BY DEF Messages

(* Sets of connections can be counted.                                     *)
LEMMA ConnFinite ==
    /\ IsFiniteSet(Conn) /\ Cardinality(Conn) = Opens /\ Opens \in Nat
    /\ \A S, T : S \subseteq T /\ T \subseteq Conn
          => Cardinality(S) \in Nat /\ Cardinality(T) \in Nat /\ Cardinality(S) <= Cardinality(T) /\ Cardinality(T) <= Opens
<1>1. IsFiniteSet(Conn) /\ Cardinality(Conn) = Opens /\ Opens \in Nat
  BY OpensAssumption, FS_Interval DEF Conn
<1>2. ASSUME NEW S, NEW T, S \subseteq T, T \subseteq Conn
      PROVE Cardinality(S) \in Nat /\ Cardinality(T) \in Nat /\ Cardinality(S) <= Cardinality(T) /\ Cardinality(T) <= Opens
  <2>1. IsFiniteSet(T) /\ Cardinality(T) <= Opens
    BY <1>1, <1>2, FS_Subset
  <2>2. IsFiniteSet(S) /\ Cardinality(S) <= Cardinality(T)
    BY <1>2, <2>1, FS_Subset
  <2> QED BY <2>1, <2>2, FS_CardinalityType
<1> QED BY <1>1, <1>2

(* The count of openings holds when no more are queued.                    *)
LEMMA StarvingStill ==
    ASSUME LinkTypes, Starving, out' \in [End -> Queues], UNCHANGED passed,
           Asked \subseteq Asked', Answered \subseteq Answered',
           \A e \in End : /\ out'[e].starving = out[e].starving /\ Len(out'[e].mid) = Len(out[e].mid)
                          /\ mux[e].closed => mux'[e].closed
    PROVE  Starving'
<1>1. Cardinality(Asked) <= Cardinality(Asked)' /\ Cardinality(Asked) \in Nat /\ Cardinality(Asked)' \in Nat
  <2>1. Asked' \subseteq Conn /\ Asked \subseteq Conn
    BY DEF Asked
  <2> QED BY <2>1, ConnFinite
<1>2. Cardinality(Answered) <= Cardinality(Answered)' /\ Cardinality(Answered) \in Nat /\ Cardinality(Answered)' \in Nat
  <2>1. Answered' \subseteq Conn /\ Answered \subseteq Conn
    BY DEF Answered
  <2> QED BY <2>1, ConnFinite
<1>3. \A e \in End : out[e].starving \in Nat /\ Len(out[e].mid) \in Nat
  BY LinkTyped
<1>4. out'["A"].starving + Len(out'["A"].mid) <= Cardinality(Asked)'
  <2>1. out'["A"].starving = out["A"].starving /\ Len(out'["A"].mid) = Len(out["A"].mid)
    BY Ends2
  <2> QED BY <1>1, <1>3, <2>1, Ends2 DEF Starving
<1>5. out'["B"].starving + Len(out'["B"].mid) <= Cardinality(Answered)'
  <2>1. out'["B"].starving = out["B"].starving /\ Len(out'["B"].mid) = Len(out["B"].mid)
    BY Ends2
  <2> QED BY <1>2, <1>3, <2>1, Ends2 DEF Starving
<1>6. \A e \in End : passed'[e] <= MaxStarving /\ (~mux'[e].closed => passed'[e] <= out'[e].starving)
  BY DEF Starving
<1> QED BY <1>4, <1>5, <1>6 DEF Starving

(* Who has asked and who was answered stays so.                            *)
LEMMA SetsKept ==
    ASSUME Stay, UNCHANGED accept, \A c \in Conn : conn'["B"][c] = "none" <=> conn["B"][c] = "none"
    PROVE  Asked \subseteq Asked' /\ Answered \subseteq Answered'
BY DEF Stay, Asked, Answered

-----------------------------------------------------------------------------
(* The link: its steps.                                                    *)

CallerPc == {"start", "wrap", "take", "set", "send", "wait", "open", "failed"}
CallerIs == [pc : CallerPc, id : {0} \cup Id]

(* What is left alone.                                                     *)
LEMMA TypesKept ==
    ASSUME LinkTypes,
           id' \in {0} \cup Id, caller' \in [Conn -> CallerIs],
           UNCHANGED table \/ table' \in [End -> [Id -> 0 .. Opens]],
           UNCHANGED conn \/ conn' \in [End -> [Conn -> {"none", "made", "open", "closing", "closed"}]],
           UNCHANGED sent, UNCHANGED got,
           out' \in [End -> Queues], wire' \in [End -> Seq(Packs2)],
           UNCHANGED <<link, backlog, accept, ping, mux>>,
           UNCHANGED reader \/ (reader' \in [End -> 0 .. Opens] /\ reader'["B"] = 0),
           UNCHANGED passed \/ passed' \in [End -> Nat]
    PROVE  LinkTypes'
BY DEF LinkTypes, CallerIs, CallerPc

(* A caller takes a step: what changes.                                    *)
LEMMA CallerMoves ==
    ASSUME LinkTypes, NEW c \in Conn, NEW r \in CallerIs, caller' = [caller EXCEPT ![c] = r]
    PROVE  /\ caller' \in [Conn -> CallerIs] /\ caller'[c] = r
           /\ \A d \in Conn : d # c => caller'[d] = caller[d]
           /\ (Announced(c) => r.pc \in {"wait", "open", "failed"} /\ r.id = caller[c].id) => Stay
           /\ caller[c].pc \in CallerPc /\ caller[c].id \in {0} \cup Id
<1>1. caller \in [Conn -> CallerIs]
  BY DEF LinkTypes, CallerIs, CallerPc
<1>2. caller' \in [Conn -> CallerIs] /\ caller'[c] = r /\ \A d \in Conn : d # c => caller'[d] = caller[d]
  BY <1>1
<1>3. caller[c] \in CallerIs
  BY <1>1
<1>4. ASSUME Announced(c) => r.pc \in {"wait", "open", "failed"} /\ r.id = caller[c].id PROVE Stay
  <2>1. ASSUME NEW d \in Conn, Announced(d) PROVE Announced(d)' /\ caller'[d].id = caller[d].id
    BY <1>2, <1>4, <2>1 DEF Announced
  <2> QED BY <2>1 DEF Stay
<1> QED BY <1>2, <1>3, <1>4 DEF CallerIs

(* ... and when only its place in the program does.                        *)
LEMMA CallerGoes ==
    ASSUME LinkTypes, NEW c \in Conn, NEW v \in CallerPc, caller' = [caller EXCEPT ![c].pc = v]
    PROVE  \E r \in CallerIs : r.pc = v /\ r.id = caller[c].id /\ caller' = [caller EXCEPT ![c] = r]
<1>1. caller \in [Conn -> CallerIs]
  BY DEF LinkTypes, CallerIs, CallerPc
<1>2. PICK r : r = [caller[c] EXCEPT !.pc = v]
  OBVIOUS
<1>3. caller[c] \in CallerIs
  BY <1>1
<1>4. r \in CallerIs /\ r.pc = v /\ r.id = caller[c].id
  BY <1>2, <1>3 DEF CallerIs
<1>5. caller' = [caller EXCEPT ![c] = r]
  BY <1>2
<1> QED BY <1>4, <1>5

(* Steps of a call of NewConn before it is in the table leave all but ids. *)
LEMMA EarlyStep ==
    ASSUME LinkInv, NEW c \in Conn, NEW r \in CallerIs, caller' = [caller EXCEPT ![c] = r],
           UNCHANGED <<table, conn, carrying, queues, link, sessions, mux>>,
           id' \in {0} \cup Id,
           caller[c].pc \in {"start", "wrap", "take"},
           r.pc \in {"start", "wrap", "take", "set"} \/ (r.pc = "failed" /\ r.id = 0),
           IdsGiven'
    PROVE  LinkInv'
<1> USE DEF carrying, queues, sessions
<1>1. LinkTypes /\ Once /\ IdsGiven /\ Tables /\ Packets /\ News /\ Messages /\ Starving /\ Bounds
  BY DEF LinkInv
<1>2. ~Announced(c)
  BY DEF Announced
<1>3. Stay /\ caller' \in [Conn -> CallerIs] /\ caller'[c] = r /\ \A d \in Conn : d # c => caller'[d] = caller[d]
  BY <1>1, <1>2, CallerMoves
<1>4. LinkTypes'
  <2>1. out \in [End -> Queues] /\ wire \in [End -> Seq(Packs2)]
    BY <1>1 DEF LinkTypes
  <2> QED BY <1>1, <1>3, <2>1, TypesKept
<1>5. \A e \in End, p \in Packet : Way(e, p)' = Way(e, p)
  BY WayStill
<1>6. Once'
  BY <1>1, OnceStill
<1>7. Tables'
  <2>1. caller[c].id = 0 /\ \A e \in End : ~Had(e, c)
    <3>1. conn["A"][c] = "none" /\ caller[c].id = 0
      BY <1>1 DEF Tables, Tabled, IdsGiven
    <3>2. conn["B"][c] = "none"
      BY <1>1, <1>2 DEF News
    <3> QED BY <3>1, <3>2 DEF Had, End
  <2>2. ASSUME NEW e \in End, NEW i \in Id, table'[e][i] # 0
        PROVE  caller'[table'[e][i]].id = i /\ Had(e, table[e][i])'
    <3>1. PICK d : d = table[e][i]
      OBVIOUS
    <3>2. d \in 0 .. Opens
      BY <1>1, <3>1 DEF LinkTypes
    <3>3. d \in Conn /\ caller[d].id = i /\ Had(e, d)
      BY <1>1, <2>2, <3>1, <3>2, OpensAssumption DEF Conn, Tables, Tabled
    <3>4. d # c
      BY <2>1, <3>3
    <3> QED BY <1>3, <2>2, <3>1, <3>3, <3>4 DEF Had
  <2>3. ASSUME NEW e \in End, NEW d \in Conn, Had(e, d)' PROVE table'[e][caller'[d].id] = d
    BY <1>1, <1>3, <2>1, <2>3 DEF Tables, Tabled, Had
  <2>4. ASSUME NEW d \in Conn
        PROVE  /\ conn'["A"][d] = "none" <=> caller'[d].pc \in {"start", "wrap", "take", "set"}
                                                  \/ (caller'[d].pc = "failed" /\ caller'[d].id = 0)
               /\ conn'["A"][d] = "open" => caller'[d].pc = "open"
    <3>1. CASE d = c
      <4>1. conn["A"][c] = "none"
        BY <1>1 DEF Tables, Tabled
      <4> QED BY <1>3, <3>1, <4>1
    <3>2. CASE d # c
      BY <1>1, <1>3, <3>2 DEF Tables, Tabled
    <3> QED BY <3>1, <3>2
  <2> QED BY <2>2, <2>3, <2>4 DEF Tables, Tabled
<1>8. Packets'
  <2>1. \A d \in Conn : Given(d) => Given(d)'
    BY DEF Given
  <2>2. \A d \in Conn : caller'[d].pc = "open" => caller[d].pc = "open"
    BY <1>3
  <2>3. reader' = reader /\ accept' = accept
    OBVIOUS
  <2> QED BY <1>1, <1>3, <1>5, <2>1, <2>2, <2>3, PacketsStill
<1>9. News'
  BY <1>1, <1>3, <1>5, NewsStill
<1>10. Messages'
  BY <1>1, <1>5, MessagesStill
<1>11. Starving'
  <2>1. out \in [End -> Queues]
    BY <1>1 DEF LinkTypes
  <2> QED BY <1>1, <1>3, <2>1, SetsKept, StarvingStill
<1>12. Bounds'
  BY <1>1 DEF Bounds
<1> QED BY <1>4, <1>6, <1>7, <1>8, <1>9, <1>10, <1>11, <1>12 DEF LinkInv

(* At most the last call of NewConn starts the counter over, below the ids *)
(* in use.  Two calls that find it at its end at once would both set it    *)
(* back, and could be given one id (mux.go:366).                           *)
FewOpens == FirstId + Opens <= MaxId + 1 /\ (FirstId = 0 => Opens <= MaxId)

(* The calls that have an id can be counted.                               *)
LEMMA TakenIs ==
    ASSUME LinkTypes
    PROVE  /\ IsFiniteSet(Taken) /\ Cardinality(Taken) \in Nat /\ Taken \subseteq Conn /\ Cardinality(Taken) <= Opens
           /\ \A c \in Conn \ Taken : /\ Cardinality(Taken \cup {c}) = Cardinality(Taken) + 1
                                      /\ Cardinality(Taken) + 1 <= Opens
                                      /\ Cardinality(Taken) + 1 >= Opens => Taken = Conn \ {c}
           /\ \A c \in Taken : caller[c].id \in Nat
           /\ FirstId \in Nat /\ MaxId \in Nat /\ Opens \in Nat /\ MaxId > 0
           /\ id \in Nat
<1>1. IsFiniteSet(Conn) /\ Cardinality(Conn) = Opens /\ Opens \in Nat
  BY ConnFinite
<1>2. Taken \subseteq Conn
  BY DEF Taken
<1>3. IsFiniteSet(Taken) /\ Cardinality(Taken) \in Nat /\ Cardinality(Taken) <= Opens
  BY <1>1, <1>2, FS_Subset, FS_CardinalityType
<1>4. ASSUME NEW c \in Conn \ Taken
      PROVE  /\ Cardinality(Taken \cup {c}) = Cardinality(Taken) + 1
             /\ Cardinality(Taken) + 1 <= Opens
             /\ Cardinality(Taken) + 1 >= Opens => Taken = Conn \ {c}
  <2>1. Cardinality(Taken \cup {c}) = Cardinality(Taken) + 1
    BY <1>3, FS_AddElement
  <2>2. Taken \cup {c} \subseteq Conn
    BY <1>2
  <2>3. Cardinality(Taken \cup {c}) <= Opens
    BY <1>1, <2>2, FS_Subset
  <2>4. Cardinality(Taken) + 1 >= Opens => Taken \cup {c} = Conn
    <3>1. Cardinality(Taken) + 1 >= Opens => Cardinality(Taken \cup {c}) = Cardinality(Conn)
      BY <1>1, <1>3, <2>1, <2>3
    <3> QED BY <1>1, <2>2, <3>1, FS_Subset
  <2> QED BY <2>1, <2>3, <2>4
<1>5. \A c \in Taken : caller[c].id \in Nat
  <2>1. \A c \in Conn : caller[c].id \in {0} \cup Id
    BY DEF LinkTypes
  <2> QED BY <1>2, <2>1 DEF Id
<1>6. FirstId \in Nat /\ MaxId \in Nat /\ Opens \in Nat /\ MaxId > 0
  BY OpensAssumption
<1>7. id \in Nat
  BY DEF LinkTypes, Id
<1> QED BY <1>2, <1>3, <1>4, <1>5, <1>6, <1>7

(* NewConn begins (mux.go:88).                                             *)
LEMMA BeginOpenStep == ASSUME LinkInv, NEW c \in Conn, BeginOpen(c) PROVE LinkInv'
<1>1. LinkTypes /\ IdsGiven
  BY DEF LinkInv
<1> DEFINE v == IF mux["A"].closed THEN "failed" ELSE IF id >= MaxId THEN "wrap" ELSE "take"
<1>2. caller[c].pc = "start" /\ caller' = [caller EXCEPT ![c].pc = v] /\ id' = id
  BY DEF BeginOpen, At, Goto
<1>3. v \in CallerPc /\ (v = "wrap" => id >= MaxId) /\ v \in {"failed", "wrap", "take"}
  BY DEF CallerPc
<1> HIDE DEF v
<1>4. PICK r \in CallerIs : r.pc = v /\ r.id = caller[c].id /\ caller' = [caller EXCEPT ![c] = r]
  BY <1>1, <1>2, <1>3, CallerGoes
<1>5. r.id = 0 /\ caller[c].id = 0
  BY <1>1, <1>2, <1>4 DEF IdsGiven
<1>6. caller'[c] = r /\ \A d \in Conn : d # c => caller'[d] = caller[d]
  BY <1>1, <1>4, CallerMoves
<1>7. Taken' = Taken /\ \A d \in Conn : caller'[d].id = caller[d].id
  BY <1>5, <1>6 DEF Taken
<1>8. IdsGiven'
  <2>1. \A d, e \in Taken' : caller'[d].id = caller'[e].id => d = e
    BY <1>1, <1>7 DEF IdsGiven, Taken
  <2>2. \A d \in Conn : /\ caller'[d].pc \in {"start", "wrap", "take"} => caller'[d].id = 0
                        /\ caller'[d].pc \in {"set", "send", "wait", "open"} => caller'[d].id # 0
    <3>1. \A d \in Conn : d # c => /\ caller[d].pc \in {"start", "wrap", "take"} => caller[d].id = 0
                                   /\ caller[d].pc \in {"set", "send", "wait", "open"} => caller[d].id # 0
      BY <1>1 DEF IdsGiven
    <3> QED BY <1>3, <1>4, <1>5, <1>6, <3>1
  <2>3. Counting => Counting'
    <3>1. \A d \in Taken : caller'[d].id = caller[d].id
      BY <1>7 DEF Taken
    <3>2. \A d \in Conn : caller'[d].pc = "wrap" => caller[d].pc = "wrap" \/ id >= MaxId
      BY <1>3, <1>4, <1>6
    <3> QED BY <1>2, <1>7, <3>1, <3>2 DEF Counting
  <2>4. Wrapped => Wrapped'
    <3> SUFFICES ASSUME Wrapped PROVE Wrapped'
      OBVIOUS
    <3>1. PICK d \in Conn : caller[d].pc = "take" /\ Taken = Conn \ {d}
      BY DEF Wrapped
    <3>2. c = d
      BY <1>5, <3>1 DEF Taken
    <3> QED BY <1>2, <3>1, <3>2
  <2> QED BY <1>1, <1>7, <2>1, <2>2, <2>3, <2>4 DEF IdsGiven
<1>9. id' \in {0} \cup Id
  BY <1>1, <1>2 DEF LinkTypes
<1> QED BY <1>2, <1>3, <1>4, <1>5, <1>8, <1>9, EarlyStep DEF BeginOpen

(* getId starts over: only the last call comes there (mux.go:367).         *)
LEMMA WrapIdStep == ASSUME LinkInv, FewOpens, NEW c \in Conn, WrapId(c) PROVE LinkInv'
<1>1. LinkTypes /\ IdsGiven
  BY DEF LinkInv
<1>2. caller[c].pc = "wrap" /\ caller' = [caller EXCEPT ![c].pc = "take"] /\ id' = 0
  BY DEF WrapId, At, Goto
<1>4. PICK r \in CallerIs : r.pc = "take" /\ r.id = caller[c].id /\ caller' = [caller EXCEPT ![c] = r]
  BY <1>1, <1>2, CallerGoes DEF CallerPc
<1>5. r.id = 0 /\ caller[c].id = 0 /\ c \notin Taken
  BY <1>1, <1>2, <1>4 DEF IdsGiven, Taken
<1>6. caller'[c] = r /\ \A d \in Conn : d # c => caller'[d] = caller[d]
  BY <1>1, <1>4, CallerMoves
<1>7. Taken' = Taken /\ \A d \in Conn : caller'[d].id = caller[d].id
  BY <1>5, <1>6 DEF Taken
<1>8. IdsGiven'
  <2>1. \A d, e \in Taken' : caller'[d].id = caller'[e].id => d = e
    BY <1>1, <1>7 DEF IdsGiven, Taken
  <2>2. \A d \in Conn : /\ caller'[d].pc \in {"start", "wrap", "take"} => caller'[d].id = 0
                        /\ caller'[d].pc \in {"set", "send", "wait", "open"} => caller'[d].id # 0
    <3>1. \A d \in Conn : d # c => /\ caller[d].pc \in {"start", "wrap", "take"} => caller[d].id = 0
                                   /\ caller[d].pc \in {"set", "send", "wait", "open"} => caller[d].id # 0
      BY <1>1 DEF IdsGiven
    <3> QED BY <1>4, <1>5, <1>6, <3>1
  <2>3. Counting
    <3>1. ~Wrapped
      <4> SUFFICES ASSUME Wrapped PROVE FALSE
        OBVIOUS
      <4>1. PICK d \in Conn : caller[d].pc = "take" /\ Taken = Conn \ {d}
        BY DEF Wrapped
      <4> QED BY <1>2, <1>5, <4>1
    <3> QED BY <1>1, <1>5, <3>1 DEF IdsGiven
  <2>4. Taken = Conn \ {c} /\ FirstId > 0
    <3>1. id >= MaxId /\ id = FirstId + Cardinality(Taken)
      BY <1>2, <2>3 DEF Counting
    <3>2. Cardinality(Taken) + 1 <= Opens /\ Cardinality(Taken) \in Nat
      BY <1>1, <1>5, TakenIs
    <3>3. FirstId \in Nat /\ MaxId \in Nat /\ Opens \in Nat
      BY <1>1, TakenIs
    <3>4. Cardinality(Taken) + 1 >= Opens /\ FirstId > 0
      BY <3>1, <3>2, <3>3 DEF FewOpens
    <3> QED BY <1>1, <1>5, <3>4, TakenIs
  <2>5. Wrapped'
    <3>1. \A d \in Taken : caller'[d].id > FirstId
      BY <1>7, <2>3 DEF Counting, Taken
    <3> QED BY <1>2, <1>4, <1>6, <1>7, <2>4, <3>1 DEF Wrapped
  <2> QED BY <2>1, <2>2, <2>5 DEF IdsGiven
<1>9. id' \in {0} \cup Id
  BY <1>2
<1> QED BY <1>2, <1>4, <1>5, <1>8, <1>9, EarlyStep DEF WrapId

(* getId gives an id that no other call has (mux.go:366).                  *)
LEMMA TakeIdStep == ASSUME LinkInv, FewOpens, NEW c \in Conn, TakeId(c) PROVE LinkInv'
<1>1. LinkTypes /\ IdsGiven /\ Tables
  BY DEF LinkInv
<1>2. /\ caller[c].pc = "take" /\ id' = id + 1
      /\ caller' = [caller EXCEPT ![c] =
           IF table["A"][id + 1] = 0 THEN [pc |-> "set", id |-> id + 1]
           ELSE [pc |-> IF id + 1 >= MaxId THEN "wrap" ELSE "take", id |-> 0]]
  BY DEF TakeId, At
<1>3. caller[c].id = 0 /\ c \notin Taken /\ Taken # Conn
  BY <1>1, <1>2 DEF IdsGiven, Taken
<1>4. /\ FirstId \in Nat /\ MaxId \in Nat /\ Opens \in Nat /\ id \in Nat /\ Cardinality(Taken) \in Nat
      /\ Cardinality(Taken \cup {c}) = Cardinality(Taken) + 1 /\ Cardinality(Taken) + 1 <= Opens
      /\ \A d \in Taken : caller[d].id \in Nat
  BY <1>1, <1>3, TakenIs
(* The id is new.                                                          *)
<1>5. id + 1 \in Id /\ \A d \in Taken : caller[d].id # id + 1
  <2>1. CASE Counting
    <3>1. id = FirstId + Cardinality(Taken) /\ \A d \in Taken : caller[d].id <= id
      BY <2>1 DEF Counting
    <3>2. id + 1 <= MaxId + Opens /\ id + 1 >= 1
      BY <1>4, <3>1, OpensAssumption DEF FewOpens
    <3> QED BY <1>4, <3>1, <3>2 DEF Id
  <2>2. CASE Wrapped
    <3>1. id = 0 /\ FirstId > 0 /\ \A d \in Taken : caller[d].id > FirstId
      BY <2>2 DEF Wrapped
    <3>2. 1 <= MaxId + Opens
      BY OpensAssumption
    <3> QED BY <1>4, <3>1, <3>2 DEF Id
  <2> QED BY <1>1, <1>3, <2>1, <2>2 DEF IdsGiven
<1>6. table["A"][id + 1] = 0
  <2> SUFFICES ASSUME table["A"][id + 1] # 0 PROVE FALSE
    OBVIOUS
  <2>1. PICK d : d = table["A"][id + 1]
    OBVIOUS
  <2>2. d \in 0 .. Opens
    BY <1>1, <1>5, <2>1, Ends2 DEF LinkTypes
  <2>3. d \in Conn /\ caller[d].id = id + 1
    BY <1>1, <1>4, <1>5, <2>1, <2>2, Ends2 DEF Conn, Tables, Tabled
  <2>4. d \in Taken
    BY <1>4, <2>3 DEF Taken
  <2> QED BY <1>5, <2>3, <2>4
<1>7. PICK r : r = [pc |-> "set", id |-> id + 1]
  OBVIOUS
<1>8. r \in CallerIs /\ caller' = [caller EXCEPT ![c] = r] /\ r.pc = "set" /\ r.id = id + 1
  BY <1>2, <1>5, <1>6, <1>7 DEF CallerIs, CallerPc
<1>9. caller'[c] = r /\ \A d \in Conn : d # c => caller'[d] = caller[d]
  BY <1>1, <1>8, CallerMoves
<1>10. Taken' = Taken \cup {c}
  BY <1>4, <1>8, <1>9 DEF Taken
<1>11. IdsGiven'
  <2>1. ASSUME NEW d \in Taken', NEW e \in Taken', caller'[d].id = caller'[e].id PROVE d = e
    <3>1. \A x \in Taken : x # c /\ caller'[x] = caller[x] /\ x \in Conn
      BY <1>3, <1>9 DEF Taken
    <3> QED BY <1>1, <1>5, <1>8, <1>9, <1>10, <2>1, <3>1 DEF IdsGiven
  <2>2. \A d \in Conn : /\ caller'[d].pc \in {"start", "wrap", "take"} => caller'[d].id = 0
                        /\ caller'[d].pc \in {"set", "send", "wait", "open"} => caller'[d].id # 0
    <3>1. \A d \in Conn : d # c => /\ caller[d].pc \in {"start", "wrap", "take"} => caller[d].id = 0
                                   /\ caller[d].pc \in {"set", "send", "wait", "open"} => caller[d].id # 0
      BY <1>1 DEF IdsGiven
    <3> QED BY <1>4, <1>8, <1>9, <3>1
  <2>3. Counting => Counting'
    <3> SUFFICES ASSUME Counting PROVE Counting'
      OBVIOUS
    <3>1. /\ id = FirstId + Cardinality(Taken) /\ \A d \in Taken : caller[d].id > FirstId /\ caller[d].id <= id
          /\ \A d \in Conn : caller[d].pc = "wrap" => id >= MaxId
      BY DEF Counting
    <3>2. id' = FirstId + Cardinality(Taken')
      BY <1>2, <1>4, <1>10, <3>1
    <3>3. ASSUME NEW d \in Taken' PROVE caller'[d].id > FirstId /\ caller'[d].id <= id'
      <4>1. CASE d = c
        BY <1>2, <1>4, <1>8, <1>9, <3>1, <4>1
      <4>2. CASE d # c
        <5>1. d \in Taken /\ caller'[d] = caller[d]
          BY <1>9, <1>10, <4>2 DEF Taken
        <5>2. caller[d].id \in Nat /\ caller[d].id > FirstId /\ caller[d].id <= id
          BY <1>4, <3>1, <5>1
        <5> QED BY <1>2, <1>4, <5>1, <5>2
      <4> QED BY <4>1, <4>2
    <3>4. ASSUME NEW d \in Conn, caller'[d].pc = "wrap" PROVE id' >= MaxId
      <4>1. d # c /\ caller[d].pc = "wrap"
        BY <1>8, <1>9, <3>4
      <4>2. id >= MaxId
        BY <3>1, <4>1
      <4> QED BY <1>2, <1>4, <4>2
    <3> QED BY <3>2, <3>3, <3>4 DEF Counting
  <2>4. Wrapped => Taken' = Conn
    <3> SUFFICES ASSUME Wrapped PROVE Taken' = Conn
      OBVIOUS
    <3>1. PICK d \in Conn : caller[d].pc = "take" /\ Taken = Conn \ {d}
      BY DEF Wrapped
    <3>2. c = d
      BY <1>3, <3>1 DEF Taken
    <3> QED BY <1>10, <3>1, <3>2
  <2> QED BY <1>1, <1>3, <2>1, <2>2, <2>3, <2>4 DEF IdsGiven
<1>12. id' \in {0} \cup Id
  BY <1>2, <1>5
<1> QED BY <1>2, <1>8, <1>11, <1>12, EarlyStep DEF TakeId

ConnIs == {"none", "made", "open", "closing", "closed"}

(* An end's view of a connection changes.                                  *)
LEMMA ConnSet ==
    ASSUME LinkTypes, NEW e \in End, NEW c \in Conn, NEW v \in ConnIs, conn' = [conn EXCEPT ![e][c] = v]
    PROVE  /\ conn' \in [End -> [Conn -> ConnIs]]
           /\ conn'[e][c] = v
           /\ \A f \in End, d \in Conn : f # e \/ d # c => conn'[f][d] = conn[f][d]
<1>1. conn \in [End -> [Conn -> ConnIs]]
  BY DEF LinkTypes, ConnIs
<1> QED BY <1>1

(* Calls with the same id are one.                                         *)
LEMMA SameCall ==
    ASSUME LinkTypes, IdsGiven, NEW c \in Conn, NEW d \in Conn, caller[c].id = caller[d].id, caller[c].id # 0
    PROVE  c = d
BY DEF IdsGiven, Taken

(* What is in a table is a connection under its id.                        *)
LEMMA TableIs ==
    ASSUME LinkTypes, Tabled, NEW e \in End, NEW i \in Id, table[e][i] # 0
    PROVE  table[e][i] \in Conn /\ caller[table[e][i]].id = i /\ Had(e, table[e][i])
<1>1. table[e][i] \in 0 .. Opens
  BY DEF LinkTypes
<1> QED BY <1>1, OpensAssumption DEF Tabled, Conn

(* A connection comes into a table, changes there or leaves it.            *)
LEMMA TabledStep ==
    ASSUME LinkTypes, IdsGiven, Tabled, NEW e \in End, NEW c \in Conn, caller[c].id # 0,
           \A f \in End, d \in Conn : Had(f, d) => caller[d].id # 0,
           \A d \in Conn : caller'[d].id = caller[d].id,
           \A f \in End, d \in Conn : f # e \/ d # c => conn'[f][d] = conn[f][d],
           \A f \in End, j \in Id : f # e \/ j # caller[c].id => table'[f][j] = table[f][j],
           \/ table'[e][caller[c].id] = c /\ conn'[e][c] \in {"made", "open", "closing"}
           \/ table'[e][caller[c].id] = 0 /\ conn'[e][c] \notin {"made", "open", "closing"}
    PROVE  Tabled'
<1> DEFINE k == caller[c].id
<1>1. k \in Id
  BY DEF LinkTypes
<1>3. Had(e, c)' <=> conn'[e][c] \in {"made", "open", "closing"}
  BY DEF Had
<1>4. \A f \in End, d \in Conn : f # e \/ d # c => (Had(f, d)' <=> Had(f, d))
  BY DEF Had
<1>5. \A d \in Conn : caller[d].id = k => d = c
  BY SameCall
<1>7. /\ \A f \in End, j \in Id : f # e \/ j # k => table'[f][j] = table[f][j]
      /\ table'[e][k] = c <=> Had(e, c)'
      /\ table'[e][k] \in {0, c}
  <2>1. c # 0
    BY OpensAssumption DEF Conn
  <2> QED BY <1>1, <1>3, <2>1
<1> HIDE DEF k
<1>8. ASSUME NEW f \in End, NEW j \in Id, table'[f][j] # 0
      PROVE  caller'[table'[f][j]].id = j /\ Had(f, table[f][j])'
  <2>1. CASE f = e /\ j = k
    <3>1. table'[f][j] = c /\ Had(e, c)'
      BY <1>7, <1>8, <2>1
    <3>2. conn'[e][c] \in {"made", "open", "closing"}
      BY <3>1 DEF Had
    <3> QED BY <2>1, <3>1, <3>2 DEF Had, k
  <2>2. CASE f # e \/ j # k
    <3>1. PICK d : d = table[f][j]
      OBVIOUS
    <3>2. table'[f][j] = d /\ d # 0
      BY <1>7, <1>8, <2>2, <3>1
    <3>3. d \in Conn /\ caller[d].id = j /\ Had(f, d)
      BY <3>1, <3>2, TableIs
    <3>4. f # e \/ d # c
      BY <2>2, <3>3 DEF k
    <3>5. Had(f, d)'
      BY <1>4, <3>3, <3>4
    <3> QED BY <3>2, <3>3, <3>5 DEF Had
  <2> QED BY <2>1, <2>2
<1>9. ASSUME NEW f \in End, NEW d \in Conn, Had(f, d)' PROVE table'[f][caller'[d].id] = d
  <2>1. CASE f = e /\ d = c
    BY <1>7, <1>9, <2>1 DEF k
  <2>2. CASE f # e \/ d # c
    <3>1. Had(f, d)
      BY <1>4, <1>9, <2>2
    <3>2. table[f][caller[d].id] = d
      BY <3>1 DEF Tabled
    <3>3. caller[d].id \in Id
      <4>1. caller[d].id # 0
        BY <3>1
      <4> QED BY <4>1 DEF LinkTypes
    <3>4. f # e \/ caller[d].id # k
      BY <1>5, <2>2
    <3> QED BY <1>7, <3>2, <3>3, <3>4
  <2> QED BY <2>1, <2>2
<1> QED BY <1>8, <1>9 DEF Tabled

(* Whoever has a connection has an id for it.                              *)
LEMMA HadIds ==
    ASSUME LinkInv
    PROVE  \A e \in End, c \in Conn : conn[e][c] # "none" => caller[c].id # 0 /\ caller[c].id \in Id
<1>1. LinkTypes /\ IdsGiven /\ Tables /\ News
  BY DEF LinkInv
<1> SUFFICES ASSUME NEW e \in End, NEW c \in Conn, conn[e][c] # "none"
             PROVE  caller[c].id # 0 /\ caller[c].id \in Id
  OBVIOUS
<1>2. caller[c].pc \in CallerPc /\ caller[c].id \in {0} \cup Id
  BY <1>1 DEF LinkTypes, CallerPc
<1>3. CASE e = "A"
  BY <1>1, <1>2, <1>3 DEF Tables, IdsGiven, CallerPc
<1>4. CASE e = "B"
  BY <1>1, <1>2, <1>4 DEF News, Announced
<1> QED BY <1>2, <1>3, <1>4 DEF End

(* The parts of the invariant, for use in the steps.                       *)
LEMMA InvParts ==
    ASSUME LinkInv
    PROVE  /\ LinkTypes /\ Once /\ IdsGiven /\ Tables /\ Tabled /\ Packets /\ News /\ Messages /\ Starving /\ Bounds
           /\ out \in [End -> Queues] /\ wire \in [End -> Seq(Packs2)] /\ caller \in [Conn -> CallerIs]
           /\ \A c \in Conn : Announced(c) => c \in Conn /\ caller[c].id \in Id /\ caller[c].id # 0
<1>1. LinkTypes /\ Tables
  BY DEF LinkInv
<1>2. \A c \in Conn : caller[c].id \in {0} \cup Id
  BY <1>1 DEF LinkTypes
<1> QED BY <1>1, <1>2 DEF LinkInv, Tables, LinkTypes, CallerIs, CallerPc, Announced

(* NewConn puts the connection in the table (mux.go:96).                   *)
LEMMA SetConnStep == ASSUME LinkInv, NEW c \in Conn, SetConn(c) PROVE LinkInv'
<1> USE InvParts, Ends2
<1>1. /\ caller[c].pc = "set"
      /\ table' = [table EXCEPT !["A"][caller[c].id] = c]
      /\ conn' = [conn EXCEPT !["A"][c] = "made"]
      /\ caller' = [caller EXCEPT ![c].pc = "send"]
      /\ UNCHANGED <<id, sent, got, lost, out, wire, passed, link, reader, backlog, accept, ping, mux>>
  BY DEF SetConn, At, Goto, carrying, queues, sessions
<1>2. PICK r \in CallerIs : r.pc = "send" /\ r.id = caller[c].id /\ caller' = [caller EXCEPT ![c] = r]
  BY <1>1, CallerGoes DEF CallerPc
<1>3. ~Announced(c)
  BY <1>1 DEF Announced
<1>4. Stay /\ caller' \in [Conn -> CallerIs] /\ caller'[c] = r /\ \A d \in Conn : d # c => caller'[d] = caller[d]
  BY <1>2, <1>3, CallerMoves
<1>5. caller[c].id # 0 /\ caller[c].id \in Id
  BY <1>1 DEF IdsGiven, LinkTypes
<1>6. /\ conn' \in [End -> [Conn -> ConnIs]]
      /\ conn'["A"][c] = "made"
      /\ \A f \in End, d \in Conn : f # "A" \/ d # c => conn'[f][d] = conn[f][d]
  BY <1>1, ConnSet DEF ConnIs
<1>7. /\ table' \in [End -> [Id -> 0 .. Opens]]
      /\ table'["A"][caller[c].id] = c
      /\ \A f \in End, j \in Id : f # "A" \/ j # caller[c].id => table'[f][j] = table[f][j]
  <2>1. c \in 0 .. Opens
    BY OpensAssumption DEF Conn
  <2> QED BY <1>1, <1>5, <2>1 DEF LinkTypes
<1>8. LinkTypes'
  BY <1>1, <1>4, <1>6, <1>7, TypesKept DEF ConnIs, LinkTypes
<1>9. \A e \in End, p \in Packet : Way(e, p)' = Way(e, p)
  BY <1>1, WayStill
<1>10. Once'
  BY <1>1, OnceStill
<1>11. IdsGiven'
  <2>1. \A d \in Conn : caller'[d].id = caller[d].id
    BY <1>2, <1>4
  <2>2. Taken' = Taken
    BY <2>1 DEF Taken
  <2>3. \A d \in Conn : /\ caller'[d].pc = "wrap" => caller[d].pc = "wrap"
                        /\ caller[d].pc = "take" => caller'[d].pc = "take"
    BY <1>1, <1>2, <1>4
  <2>4. \A d \in Conn : /\ caller'[d].pc \in {"start", "wrap", "take"} => caller'[d].id = 0
                        /\ caller'[d].pc \in {"set", "send", "wait", "open"} => caller'[d].id # 0
    <3>1. \A d \in Conn : d # c => /\ caller[d].pc \in {"start", "wrap", "take"} => caller[d].id = 0
                                   /\ caller[d].pc \in {"set", "send", "wait", "open"} => caller[d].id # 0
      BY DEF IdsGiven
    <3> QED BY <1>2, <1>4, <1>5, <3>1
  <2>5. \A d \in Taken : d \in Conn
    BY DEF Taken
  <2>6. Counting => Counting'
    BY <1>1, <2>1, <2>2, <2>3, <2>5 DEF Counting
  <2>7. Wrapped => Wrapped'
    BY <1>1, <2>1, <2>2, <2>3, <2>5 DEF Wrapped
  <2> QED BY <2>1, <2>2, <2>4, <2>5, <2>6, <2>7 DEF IdsGiven
<1>12. Tables'
  <2>1. Tabled'
    <3>1. \A f \in End, d \in Conn : Had(f, d) => caller[d].id # 0
      BY HadIds DEF Had
    <3>2. \A d \in Conn : caller'[d].id = caller[d].id
      BY <1>2, <1>4
    <3>3. LinkTypes /\ IdsGiven /\ Tabled
      OBVIOUS
    <3> QED BY <1>5, <1>6, <1>7, <3>1, <3>2, <3>3, TabledStep
  <2>2. ASSUME NEW d \in Conn
        PROVE  /\ conn'["A"][d] = "none" <=> caller'[d].pc \in {"start", "wrap", "take", "set"}
                                                  \/ (caller'[d].pc = "failed" /\ caller'[d].id = 0)
               /\ conn'["A"][d] = "open" => caller'[d].pc = "open"
    <3>1. CASE d = c
      BY <1>2, <1>4, <1>6, <3>1
    <3>2. CASE d # c
      BY <1>4, <1>6, <3>2 DEF Tables
    <3> QED BY <3>1, <3>2
  <2> QED BY <2>1, <2>2 DEF Tables
<1>13. \A d \in Conn : conn'["B"][d] = conn["B"][d]
  BY <1>6
<1>14. Packets'
  <2>1. \A d \in Conn : Given(d) => Given(d)'
    BY <1>13 DEF Given
  <2>2. \A d \in Conn : caller'[d].pc = "open" => caller[d].pc = "open"
    BY <1>2, <1>4
  <2> QED BY <1>1, <1>4, <1>9, <2>1, <2>2, PacketsStill
<1>15. News'
  BY <1>1, <1>4, <1>9, <1>13, NewsStill
<1>16. Messages'
  BY <1>1, <1>9, MessagesStill
<1>17. Starving'
  BY <1>1, <1>4, <1>13, SetsKept, StarvingStill
<1>18. Bounds'
  BY <1>1 DEF Bounds
<1> QED BY <1>8, <1>10, <1>11, <1>12, <1>14, <1>15, <1>16, <1>17, <1>18 DEF LinkInv

(* A call that has an id goes on.                                          *)
LEMMA IdsMove ==
    ASSUME LinkTypes, IdsGiven, NEW c \in Conn, NEW r \in CallerIs, caller' = [caller EXCEPT ![c] = r],
           UNCHANGED id, r.id = caller[c].id,
           caller[c].pc \in {"set", "send", "wait"}, r.pc \in {"send", "wait", "open", "failed"}
    PROVE  IdsGiven' /\ caller[c].id # 0 /\ caller[c].id \in Id /\ \A d \in Conn : caller'[d].id = caller[d].id
<1>1. caller'[c] = r /\ \A d \in Conn : d # c => caller'[d] = caller[d]
  BY CallerMoves
<1>2. caller[c].id # 0 /\ caller[c].id \in {0} \cup Id
  BY DEF IdsGiven, LinkTypes
<1>3. \A d \in Conn : caller'[d].id = caller[d].id
  BY <1>1
<1>4. Taken' = Taken /\ Taken \subseteq Conn
  BY <1>3 DEF Taken
<1>5. \A d \in Conn : /\ caller'[d].pc = "wrap" => caller[d].pc = "wrap"
                      /\ caller[d].pc = "take" => caller'[d].pc = "take"
  BY <1>1
<1>6. \A d \in Conn : /\ caller'[d].pc \in {"start", "wrap", "take"} => caller'[d].id = 0
                      /\ caller'[d].pc \in {"set", "send", "wait", "open"} => caller'[d].id # 0
  <2>1. \A d \in Conn : d # c => /\ caller[d].pc \in {"start", "wrap", "take"} => caller[d].id = 0
                                 /\ caller[d].pc \in {"set", "send", "wait", "open"} => caller[d].id # 0
    BY DEF IdsGiven
  <2> QED BY <1>1, <1>2, <2>1
<1>7. Counting => Counting'
  BY <1>3, <1>4, <1>5 DEF Counting
<1>8. Wrapped => Wrapped'
  BY <1>3, <1>4, <1>5 DEF Wrapped
<1> QED BY <1>2, <1>3, <1>4, <1>6, <1>7, <1>8 DEF IdsGiven

(* Nothing comes into a table or leaves it.                                *)
LEMMA TabledSame ==
    ASSUME LinkTypes, Tabled, UNCHANGED table,
           \A d \in Conn : caller'[d].id = caller[d].id,
           \A f \in End, d \in Conn : Had(f, d)' <=> Had(f, d)
    PROVE  Tabled'
<1>1. ASSUME NEW f \in End, NEW j \in Id, table'[f][j] # 0
      PROVE  caller'[table'[f][j]].id = j /\ Had(f, table[f][j])'
  <2>1. PICK d : d = table[f][j]
    OBVIOUS
  <2>2. d \in Conn /\ caller[d].id = j /\ Had(f, d)
    BY <1>1, <2>1, TableIs
  <2>3. Had(f, d)' /\ caller'[d].id = j
    BY <2>2
  <2> QED BY <2>1, <2>3 DEF Had
<1>2. ASSUME NEW f \in End, NEW d \in Conn, Had(f, d)' PROVE table'[f][caller'[d].id] = d
  BY <1>2 DEF Tabled
<1> QED BY <1>1, <1>2 DEF Tabled

(* NewConn announces it: the only packet about it so far.                  *)
LEMMA SendNewStep == ASSUME LinkInv, NEW c \in Conn, SendNew(c) PROVE LinkInv'
<1> USE InvParts, Ends2
<1>1. /\ caller[c].pc = "send"
      /\ sendInfo("A", Packs("new", c, caller[c].id))
      /\ caller' = [caller EXCEPT ![c].pc = "wait"]
      /\ UNCHANGED <<id, table, conn, sent, got, lost, wire, passed, link, reader, backlog, accept, ping, mux>>
  BY DEF SendNew, At, Goto, carrying, queues, sessions
<1>2. PICK r \in CallerIs : r.pc = "wait" /\ r.id = caller[c].id /\ caller' = [caller EXCEPT ![c] = r]
  BY <1>1, CallerGoes DEF CallerPc
<1>3. ~Announced(c)
  BY <1>1 DEF Announced
<1>4. Stay /\ caller' \in [Conn -> CallerIs] /\ caller'[c] = r /\ \A d \in Conn : d # c => caller'[d] = caller[d]
  BY <1>2, <1>3, CallerMoves
<1>5. IdsGiven' /\ caller[c].id # 0 /\ caller[c].id \in Id /\ \A d \in Conn : caller'[d].id = caller[d].id
  BY <1>1, <1>2, IdsMove
<1>6. PICK p : p = Packs("new", c, caller[c].id)
  OBVIOUS
<1>7. p \in Packet /\ p.flag = "new" /\ p.conn = c /\ p.id = caller[c].id
  BY <1>5, <1>6, PacketIs
<1>8. /\ \A e \in End, q \in Packet : Way(e, q) => q.conn # c
      /\ \A q \in Packet : In(backlog, q) => q.conn # c
      /\ accept.pc \in {"set", "deliver", "ok"} => accept.conn # c
      /\ conn["B"][c] = "none"
  <2>1. \A e \in End, q \in Packet : Way(e, q) => q.conn # c
    BY <1>3 DEF Packets
  <2>2. \A q \in Packet : In(backlog, q) => q.conn # c
    BY <1>3 DEF News
  <2>3. (accept.pc \in {"set", "deliver", "ok"} => accept.conn # c) /\ conn["B"][c] = "none"
    BY <1>3 DEF News
  <2> QED BY <2>1, <2>2, <2>3
<1>9. /\ out' \in [End -> Queues]
      /\ Once'
      /\ \A f \in End, q \in Packet : Way(f, q)' => Way(f, q) \/ (f = "A" /\ q = p)
      /\ \A f \in End : /\ out'[f].starving = out[f].starving
                        /\ Len(out'[f].mid) =
                             IF f = "A" /\ ~mux["A"].closed /\ p.flag \in {"new", "ok"}
                             THEN Len(out[f].mid) + 1 ELSE Len(out[f].mid)
  <2>1. sendInfo("A", p) /\ UNCHANGED <<wire, backlog>> /\ ~Way("A", p)
    BY <1>1, <1>6, <1>7, <1>8
  <2> QED BY <1>7, <2>1, SendInfoIs
<1>10. LinkTypes'
  BY <1>1, <1>4, <1>9, TypesKept DEF LinkTypes
<1>11. Tables'
  <2>1. Tabled'
    <3>1. \A f \in End, d \in Conn : Had(f, d)' <=> Had(f, d)
      BY <1>1 DEF Had
    <3> QED BY <1>1, <1>5, <3>1, TabledSame
  <2>2. ASSUME NEW d \in Conn
        PROVE  /\ conn'["A"][d] = "none" <=> caller'[d].pc \in {"start", "wrap", "take", "set"}
                                                  \/ (caller'[d].pc = "failed" /\ caller'[d].id = 0)
               /\ conn'["A"][d] = "open" => caller'[d].pc = "open"
    <3>1. CASE d = c
      <4>1. conn["A"][c] # "none" /\ conn["A"][c] # "open"
        BY <1>1 DEF Tables
      <4> QED BY <1>1, <1>2, <1>4, <3>1, <4>1
    <3>2. CASE d # c
      BY <1>1, <1>4, <3>2 DEF Tables
    <3> QED BY <3>1, <3>2
  <2> QED BY <2>1, <2>2 DEF Tables
<1>12. Announced(c)'
  BY <1>2, <1>4, <1>5 DEF Announced
<1>13. Packets'
  <2>1. \A d \in Conn : Given(d) => Given(d)'
    BY <1>1 DEF Given
  <2>2. \A d \in Conn : caller'[d].pc = "open" => caller[d].pc = "open"
    BY <1>2, <1>4
  <2>3. Fine(p)'
    BY <1>5, <1>7, <1>12 DEF Fine
  <2>4. \A e \in End, q \in Packet : Way(e, q)' => Way(e, q) \/ Fine(q)'
    BY <1>9, <2>3
  <2> QED BY <1>1, <1>4, <2>1, <2>2, <2>4, PacketsStill
<1>14. News'
  <2>1. \A q \in Packet : q.conn \in Conn
    BY PacketIs
  <2>2. \A q : In(backlog, q)' <=> In(backlog, q)
    BY <1>1 DEF In
  <2>3. \A d \in Conn : Announced(d) => Announced(d)' /\ caller'[d].id = caller[d].id
    BY <1>4 DEF Stay
  <2>4. ASSUME NEW e \in End, NEW q \in Packet, Way(e, q)' \/ In(backlog, q)', q.flag = "new"
        PROVE  /\ conn'["B"][q.conn] = "none" /\ (Way(e, q)' => ~In(backlog, q)')
               /\ accept'.pc = "set" => accept'.conn # q.conn
    <3>1. CASE Way(e, q) \/ In(backlog, q)
      <4>1. /\ conn["B"][q.conn] = "none" /\ (Way(e, q) => ~In(backlog, q))
            /\ accept.pc = "set" => accept.conn # q.conn
        BY <2>4, <3>1 DEF News
      <4>2. Way(e, q)' => Way(e, q) \/ ~In(backlog, q)
        BY <1>7, <1>8, <1>9
      <4> QED BY <1>1, <2>2, <4>1, <4>2
    <3>2. CASE ~Way(e, q) /\ ~In(backlog, q)
      <4>1. q = p
        BY <1>9, <2>2, <2>4, <3>2
      <4> QED BY <1>1, <1>7, <1>8, <2>2, <3>2, <4>1
    <3> QED BY <3>1, <3>2
  <2>5. \A e \in End, q \in Packet : Way(e, q)' /\ q.flag = "new" => e = "A"
    BY <1>9 DEF News
  <2>6. \A q \in Packet : In(backlog, q)' => q.flag = "new" /\ Announced(q.conn)' /\ q.id = caller'[q.conn].id
    BY <2>1, <2>2, <2>3 DEF News
  <2>7. accept'.pc \in {"set", "deliver", "ok"} =>
            accept'.conn \in Conn /\ Announced(accept.conn)' /\ accept'.id = caller'[accept'.conn].id
    <3>1. PICK d : d = accept.conn
      OBVIOUS
    <3>2. accept.pc \in {"set", "deliver", "ok"} => d \in Conn /\ Announced(d) /\ accept.id = caller[d].id
      BY <3>1 DEF News
    <3>3. accept.pc \in {"set", "deliver", "ok"} => d \in Conn /\ Announced(d)' /\ accept.id = caller'[d].id
      BY <2>3, <3>2
    <3> QED BY <1>1, <3>1, <3>3 DEF Announced
  <2>8. /\ accept'.pc = "set" => conn'["B"][accept'.conn] = "none"
        /\ accept'.pc \in {"deliver", "ok"} => conn'["B"][accept'.conn] # "none"
        /\ \A d \in Conn : conn'["B"][d] # "none" => Announced(d)'
    BY <1>1, <2>3 DEF News
  <2> HIDE DEF News, Way, In, Announced
  <2> QED BY <1>1, <2>4, <2>5, <2>6, <2>7, <2>8 DEF News
<1>15. Messages'
  BY <1>1, <1>7, <1>9, MessagesStill
<1>16. Starving'
  <2>1. Asked' = Asked \cup {c} /\ c \notin Asked
    BY <1>3, <1>4, <1>12 DEF Asked, Announced
  <2>2. Cardinality(Asked)' = Cardinality(Asked) + 1 /\ Cardinality(Asked) \in Nat
    <3>1. IsFiniteSet(Asked)
      BY ConnFinite, FS_Subset DEF Asked
    <3> QED BY <2>1, <3>1, FS_AddElement, FS_CardinalityType
  <2>3. Answered' = Answered
    BY <1>1 DEF Answered
  <2>4. \A e \in End : out[e].starving \in Nat /\ Len(out[e].mid) \in Nat
    BY LinkTyped
  <2>5. out'["A"].starving + Len(out'["A"].mid) <= Cardinality(Asked)'
    <3>1. out["A"].starving + Len(out["A"].mid) <= Cardinality(Asked)
      BY DEF Starving
    <3>2. PICK k \in Nat, m \in Nat, n \in Nat :
             k = out["A"].starving /\ m = Len(out["A"].mid) /\ n = Cardinality(Asked)
      BY <2>2, <2>4
    <3>3. out'["A"].starving = k /\ (Len(out'["A"].mid) = m \/ Len(out'["A"].mid) = m + 1)
      BY <1>9, <3>2
    <3>4. k + m <= n /\ Cardinality(Asked)' = n + 1
      BY <2>2, <3>1, <3>2
    <3> QED BY <3>3, <3>4
  <2>6. out'["B"].starving + Len(out'["B"].mid) <= Cardinality(Answered)'
    <3>1. out'["B"].starving = out["B"].starving /\ Len(out'["B"].mid) = Len(out["B"].mid)
      BY <1>9
    <3> QED BY <2>3, <3>1 DEF Starving
  <2> QED BY <1>1, <1>9, <2>5, <2>6 DEF Starving
<1>17. Bounds'
  BY <1>1 DEF Bounds
<1> QED BY <1>5, <1>9, <1>10, <1>11, <1>13, <1>14, <1>15, <1>16, <1>17 DEF LinkInv

(* NewConn takes the Ok.                                                   *)
LEMMA OpenedStep == ASSUME LinkInv, NEW c \in Conn, Opened(c) PROVE LinkInv'
<1> USE InvParts, Ends2
<1>0. PICK v : v = IF conn["A"][c] = "made" THEN "open" ELSE conn["A"][c]
  OBVIOUS
<1>1. /\ caller[c].pc = "wait" /\ reader["A"] = c
      /\ reader' = [reader EXCEPT !["A"] = 0]
      /\ conn' = [conn EXCEPT !["A"][c] = v]
      /\ caller' = [caller EXCEPT ![c].pc = "open"]
      /\ UNCHANGED <<id, table, sent, got, lost, out, wire, passed, link, backlog, accept, ping, mux>>
  BY <1>0 DEF Opened, At, Goto, carrying, queues
<1>2. PICK r \in CallerIs : r.pc = "open" /\ r.id = caller[c].id /\ caller' = [caller EXCEPT ![c] = r]
  BY <1>1, CallerGoes DEF CallerPc
<1>3. Stay /\ caller' \in [Conn -> CallerIs] /\ caller'[c] = r /\ \A d \in Conn : d # c => caller'[d] = caller[d]
  BY <1>2, CallerMoves DEF Announced
<1>4. IdsGiven' /\ caller[c].id # 0 /\ caller[c].id \in Id /\ \A d \in Conn : caller'[d].id = caller[d].id
  BY <1>1, <1>2, IdsMove
<1>5. v \in ConnIs /\ v # "none" /\ (v \in {"made", "open", "closing"} <=> Had("A", c))
  <2>1. conn["A"][c] \in ConnIs
    BY DEF LinkTypes, ConnIs
  <2>2. conn["A"][c] # "none"
    BY <1>1 DEF Tables
  <2> QED BY <1>0, <2>1, <2>2 DEF Had, ConnIs
<1>6. /\ conn' \in [End -> [Conn -> ConnIs]]
      /\ conn'["A"][c] = v
      /\ \A f \in End, d \in Conn : f # "A" \/ d # c => conn'[f][d] = conn[f][d]
  <2>1. conn \in [End -> [Conn -> ConnIs]]
    BY DEF LinkTypes, ConnIs
  <2>2. v \in ConnIs /\ conn' = [conn EXCEPT !["A"][c] = v]
    BY <1>1, <1>5
  <2> QED BY <2>1, <2>2
<1>7. LinkTypes'
  <2>1. reader' \in [End -> 0 .. Opens] /\ reader'["B"] = 0
    BY <1>1, OpensAssumption DEF LinkTypes
  <2> QED BY <1>1, <1>3, <1>6, <2>1, TypesKept DEF ConnIs, LinkTypes
<1>9. \A e \in End, p \in Packet : Way(e, p)' = Way(e, p)
  BY <1>1, WayStill
<1>10. Once'
  BY <1>1, OnceStill
<1>12. Tables'
  <2>1. Tabled'
    <3>1. ASSUME NEW f \in End, NEW d \in Conn PROVE Had(f, d)' <=> Had(f, d)
      <4>1. CASE f = "A" /\ d = c
        BY <1>5, <1>6, <4>1 DEF Had
      <4>2. CASE f # "A" \/ d # c
        BY <1>6, <4>2 DEF Had
      <4> QED BY <4>1, <4>2
    <3> QED BY <1>1, <1>4, <3>1, TabledSame
  <2>2. ASSUME NEW d \in Conn
        PROVE  /\ conn'["A"][d] = "none" <=> caller'[d].pc \in {"start", "wrap", "take", "set"}
                                                  \/ (caller'[d].pc = "failed" /\ caller'[d].id = 0)
               /\ conn'["A"][d] = "open" => caller'[d].pc = "open"
    <3>1. CASE d = c
      BY <1>2, <1>3, <1>5, <1>6, <3>1
    <3>2. CASE d # c
      BY <1>3, <1>6, <3>2 DEF Tables
    <3> QED BY <3>1, <3>2
  <2> QED BY <2>1, <2>2 DEF Tables
<1>13. \A d \in Conn : conn'["B"][d] = conn["B"][d]
  BY <1>6
<1>14. Packets'
  <2>1. \A d \in Conn : Given(d) => Given(d)'
    BY <1>13 DEF Given
  <2>2. Given(c)
    <3>1. c # 0
      BY OpensAssumption DEF Conn
    <3> QED BY <1>1, <3>1 DEF Packets
  <2>3. \A d \in Conn : caller'[d].pc = "open" => caller[d].pc = "open" \/ Given(d)'
    BY <1>3, <2>1, <2>2
  <2>4. reader'["A"] = 0
    BY <1>1 DEF LinkTypes
  <2> QED BY <1>1, <1>3, <1>9, <2>1, <2>3, <2>4, PacketsStill
<1>15. News'
  BY <1>1, <1>3, <1>9, <1>13, NewsStill
<1>16. Messages'
  BY <1>1, <1>9, MessagesStill
<1>17. Starving'
  BY <1>1, <1>3, <1>13, SetsKept, StarvingStill
<1>18. Bounds'
  BY <1>1 DEF Bounds
<1> QED BY <1>4, <1>7, <1>10, <1>12, <1>14, <1>15, <1>16, <1>17, <1>18 DEF LinkInv

(* NewConn gives up: the connection stays in the table.                    *)
LEMMA TimeOutStep == ASSUME LinkInv, NEW c \in Conn, TimeOut(c) PROVE LinkInv'
<1> USE InvParts, Ends2
<1>1. /\ caller[c].pc = "wait"
      /\ caller' = [caller EXCEPT ![c].pc = "failed"]
      /\ UNCHANGED <<id, table, conn, sent, got, lost, out, wire, passed, link, reader, backlog, accept, ping, mux>>
  BY DEF TimeOut, At, Goto, carrying, queues, sessions
<1>2. PICK r \in CallerIs : r.pc = "failed" /\ r.id = caller[c].id /\ caller' = [caller EXCEPT ![c] = r]
  BY <1>1, CallerGoes DEF CallerPc
<1>3. Stay /\ caller' \in [Conn -> CallerIs] /\ caller'[c] = r /\ \A d \in Conn : d # c => caller'[d] = caller[d]
  BY <1>2, CallerMoves DEF Announced
<1>4. IdsGiven' /\ caller[c].id # 0 /\ caller[c].id \in Id /\ \A d \in Conn : caller'[d].id = caller[d].id
  BY <1>1, <1>2, IdsMove
<1>7. LinkTypes'
  BY <1>1, <1>3, TypesKept DEF LinkTypes
<1>9. \A e \in End, p \in Packet : Way(e, p)' = Way(e, p)
  BY <1>1, WayStill
<1>10. Once'
  BY <1>1, OnceStill
<1>12. Tables'
  <2>1. Tabled'
    <3>1. \A f \in End, d \in Conn : Had(f, d)' <=> Had(f, d)
      BY <1>1 DEF Had
    <3> QED BY <1>1, <1>4, <3>1, TabledSame
  <2>2. ASSUME NEW d \in Conn
        PROVE  /\ conn'["A"][d] = "none" <=> caller'[d].pc \in {"start", "wrap", "take", "set"}
                                                  \/ (caller'[d].pc = "failed" /\ caller'[d].id = 0)
               /\ conn'["A"][d] = "open" => caller'[d].pc = "open"
    <3>1. CASE d = c
      <4>1. conn["A"][c] # "none" /\ conn["A"][c] # "open"
        BY <1>1 DEF Tables
      <4> QED BY <1>1, <1>2, <1>3, <1>4, <3>1, <4>1
    <3>2. CASE d # c
      BY <1>1, <1>3, <3>2 DEF Tables
    <3> QED BY <3>1, <3>2
  <2> QED BY <2>1, <2>2 DEF Tables
<1>14. Packets'
  <2>1. \A d \in Conn : Given(d) => Given(d)'
    BY <1>1 DEF Given
  <2>2. \A d \in Conn : caller'[d].pc = "open" => caller[d].pc = "open"
    BY <1>2, <1>3
  <2> QED BY <1>1, <1>3, <1>9, <2>1, <2>2, PacketsStill
<1>15. News'
  BY <1>1, <1>3, <1>9, NewsStill
<1>16. Messages'
  BY <1>1, <1>9, MessagesStill
<1>17. Starving'
  BY <1>1, <1>3, SetsKept, StarvingStill
<1>18. Bounds'
  BY <1>1 DEF Bounds
<1> QED BY <1>4, <1>7, <1>10, <1>12, <1>14, <1>15, <1>16, <1>17, <1>18 DEF LinkInv

(* Packets are what they carry.                                            *)
LEMMA SamePacket ==
    ASSUME NEW p \in Packet, NEW q \in Packet, p.flag = q.flag, p.conn = q.conn, p.id = q.id
    PROVE  p = q
BY DEF Packet

(* An announcement is taken from newConnQueue: there is no other of it.    *)
LEMMA PopNewStep == ASSUME LinkInv, PopNew PROVE LinkInv'
<1> USE InvParts, Ends2
<1>1. /\ accept.pc = "pop" /\ backlog # <<>> /\ backlog' = Tail(backlog)
      /\ UNCHANGED <<id, caller, table, conn, sent, got, lost, out, wire, passed, link, reader, ping, mux>>
  BY DEF PopNew, opening, carrying, queues
<1>2. PICK h : h = Head(backlog)
  OBVIOUS
<1>3. /\ h \in Packet /\ In(backlog, h) /\ Tail(backlog) \in Seq(Packet)
      /\ \A q : In(Tail(backlog), q) => In(backlog, q)
      /\ Sole(backlog) => Sole(Tail(backlog)) /\ (OnceOnly(h) => ~In(Tail(backlog), h))
  <2>1. backlog \in Seq(Packet)
    BY DEF LinkTypes
  <2> QED BY <1>1, <1>2, <2>1, TailIn
<1>4. h.flag = "new" /\ Announced(h.conn) /\ h.id = caller[h.conn].id /\ h.conn \in Conn /\ h.id \in Id
  <2>1. h.conn \in Conn /\ h.id \in Id
    BY <1>3, PacketIs
  <2> QED BY <1>3, <2>1 DEF News
<1>5. Sole(backlog') /\ ~In(backlog', h) /\ \A q : In(backlog', q) => In(backlog, q)
  <2>1. Sole(backlog)
    BY DEF Once
  <2> QED BY <1>1, <1>3, <1>4, <2>1 DEF OnceOnly
<1>6. accept'.pc = "set" /\ accept'.conn = h.conn /\ accept'.id = h.id
      /\ accept' = [pc |-> "set", conn |-> h.conn, id |-> h.id]
  BY <1>2 DEF PopNew
<1>7. LinkTypes'
  <2>1. h.conn \in 0 .. Opens
    BY <1>4, OpensAssumption DEF Conn
  <2> QED BY <1>1, <1>3, <1>4, <1>6, <2>1 DEF LinkTypes
<1>8. \A e \in End, p \in Packet : Way(e, p)' = Way(e, p)
  BY <1>1, WayStill
<1>9. Once'
  BY <1>1, <1>5 DEF Once
<1>10. IdsGiven' /\ Tables'
  BY <1>1, IdsStill, TablesStill
<1>11. Stay
  BY <1>1, StayStill
<1>12. Packets'
  <2>1. \A d \in Conn : Given(d) => Given(d)'
    BY <1>1 DEF Given
  <2> QED BY <1>1, <1>6, <1>8, <1>11, <2>1, PacketsStill
<1>13. News'
  <2>1. \A d \in Conn : Announced(d)' = Announced(d) /\ caller'[d].id = caller[d].id
    BY <1>1 DEF Announced
  <2>2. ASSUME NEW q \in Packet, q.flag = "new", q.conn = h.conn, q.id = caller[q.conn].id PROVE q = h
    BY <1>3, <1>4, <2>2, SamePacket
  <2>3. ASSUME NEW e \in End, NEW q \in Packet, Way(e, q)' \/ In(backlog, q)', q.flag = "new"
        PROVE  /\ conn'["B"][q.conn] = "none"
               /\ Way(e, q)' => ~In(backlog, q)'
               /\ accept'.pc = "set" => accept'.conn # q.conn
    <3>1. Way(e, q)' <=> Way(e, q)
      BY <1>8
    <3>2. In(backlog, q)' => In(backlog, q) /\ q # h
      BY <1>5 DEF In
    <3>3. conn["B"][q.conn] = "none" /\ (Way(e, q) => ~In(backlog, q))
      BY <2>3, <3>1, <3>2 DEF News
    <3>4. q.id = caller[q.conn].id
      <4>1. Way(e, q) => q.id = caller[q.conn].id
        BY DEF Packets
      <4>2. In(backlog, q) => q.id = caller[q.conn].id
        BY DEF News
      <4> QED BY <2>3, <3>1, <3>2, <4>1, <4>2
    <3>5. q = h => FALSE
      BY <1>3, <2>3, <3>1, <3>2, <3>3
    <3>6. q.conn # h.conn
      BY <2>2, <2>3, <3>4, <3>5
    <3> QED BY <1>1, <1>6, <3>1, <3>2, <3>3, <3>6
  <2>4. \A e \in End, q \in Packet : Way(e, q)' /\ q.flag = "new" => e = "A"
    BY <1>8 DEF News
  <2>5. \A q \in Packet : In(backlog, q)' => q.flag = "new" /\ Announced(q.conn)' /\ q.id = caller'[q.conn].id
    <3>1. \A q \in Packet : In(backlog, q)' => In(backlog, q)
      BY <1>5
    <3>2. \A q \in Packet : q.conn \in Conn
      BY PacketIs
    <3> QED BY <2>1, <3>1, <3>2 DEF News
  <2>6. accept'.pc \in {"set", "deliver", "ok"} =>
            accept'.conn \in Conn /\ Announced(accept.conn)' /\ accept'.id = caller'[accept'.conn].id
    <3>1. PICK d : d = h.conn
      OBVIOUS
    <3>2. d \in Conn /\ Announced(d)' /\ h.id = caller'[d].id
      BY <1>4, <2>1, <3>1
    <3> QED BY <1>6, <3>1, <3>2 DEF Announced
  <2>7. /\ accept'.pc = "set" => conn'["B"][accept'.conn] = "none"
        /\ accept'.pc \in {"deliver", "ok"} => conn'["B"][accept'.conn] # "none"
    <3>1. conn["B"][h.conn] = "none"
      BY <1>3, <1>4 DEF News
    <3> QED BY <1>1, <1>6, <3>1
  <2>8. \A d \in Conn : conn'["B"][d] # "none" => Announced(d)'
    BY <1>1, <2>1 DEF News
  <2> HIDE DEF News, Way, In, Announced
  <2> QED BY <2>3, <2>4, <2>5, <2>6, <2>7, <2>8 DEF News
<1>14. Messages'
  BY <1>1, <1>8, MessagesStill
<1>15. Starving'
  <2>1. Asked' = Asked /\ Answered' = Answered
    BY <1>1, <1>6 DEF Asked, Answered, Announced
  <2> QED BY <1>1, <2>1, StarvingStill
<1>16. Bounds'
  BY <1>1 DEF Bounds
<1> QED BY <1>7, <1>9, <1>10, <1>12, <1>13, <1>14, <1>15, <1>16 DEF LinkInv

(* B puts the connection in its table (mux.go:235).                        *)
LEMMA SetAcceptedStep == ASSUME LinkInv, SetAccepted PROVE LinkInv'
<1> USE InvParts, Ends2
<1>1. /\ accept.pc = "set" /\ accept' = [accept EXCEPT !.pc = "deliver"]
      /\ table' = [table EXCEPT !["B"][accept.id] = accept.conn]
      /\ conn' = [conn EXCEPT !["B"][accept.conn] = "made"]
      /\ UNCHANGED <<id, caller, sent, got, lost, out, wire, passed, link, reader, backlog, ping, mux>>
  BY DEF SetAccepted, carrying, queues
<1>2. PICK c : c = accept.conn
  OBVIOUS
<1>3. c \in Conn /\ Announced(c) /\ accept.id = caller[c].id /\ conn["B"][c] = "none"
  BY <1>1, <1>2 DEF News
<1>4. accept'.pc = "deliver" /\ accept'.conn = c /\ accept'.id = caller[c].id /\ caller[c].id \in Id /\ caller[c].id # 0
      /\ accept' \in [pc : {"pop", "set", "deliver", "ok", "end"}, conn : 0 .. Opens, id : {0} \cup Id]
  <2>1. accept \in [pc : {"pop", "set", "deliver", "ok", "end"}, conn : 0 .. Opens, id : {0} \cup Id]
    BY DEF LinkTypes
  <2>2. caller[c].id \in Id /\ caller[c].id # 0
    BY <1>3
  <2> QED BY <1>1, <1>2, <1>3, <2>1, <2>2
<1>6. /\ conn' \in [End -> [Conn -> ConnIs]]
      /\ conn'["B"][c] = "made"
      /\ \A f \in End, d \in Conn : f # "B" \/ d # c => conn'[f][d] = conn[f][d]
  <2>1. conn \in [End -> [Conn -> ConnIs]]
    BY DEF LinkTypes, ConnIs
  <2> QED BY <1>1, <1>2, <1>3, <2>1 DEF ConnIs
<1>7. /\ table' \in [End -> [Id -> 0 .. Opens]]
      /\ table'["B"][caller[c].id] = c
      /\ \A f \in End, j \in Id : f # "B" \/ j # caller[c].id => table'[f][j] = table[f][j]
  <2>1. c \in 0 .. Opens
    BY <1>3, OpensAssumption DEF Conn
  <2>2. table \in [End -> [Id -> 0 .. Opens]] /\ table' = [table EXCEPT !["B"][caller[c].id] = c]
    BY <1>1, <1>2, <1>3 DEF LinkTypes
  <2> QED BY <1>4, <2>1, <2>2
<1>8. LinkTypes'
  BY <1>1, <1>4, <1>6, <1>7 DEF LinkTypes, ConnIs
<1>9. \A e \in End, p \in Packet : Way(e, p)' = Way(e, p)
  BY <1>1, WayStill
<1>10. Once' /\ IdsGiven'
  BY <1>1, OnceStill, IdsStill
<1>11. Stay
  BY <1>1, StayStill
<1>12. Tables'
  <2>1. Tabled'
    <3>1. \A f \in End, d \in Conn : Had(f, d) => caller[d].id # 0
      BY HadIds DEF Had
    <3>2. \A d \in Conn : caller'[d].id = caller[d].id
      BY <1>1
    <3>3. LinkTypes /\ IdsGiven /\ Tabled
      OBVIOUS
    <3> QED BY <1>3, <1>4, <1>6, <1>7, <3>1, <3>2, <3>3, TabledStep
  <2>2. \A d \in Conn : conn'["A"][d] = conn["A"][d] /\ caller'[d] = caller[d]
    BY <1>1, <1>6
  <2> QED BY <2>1, <2>2 DEF Tables
<1>13. \A d \in Conn : conn["B"][d] # "none" => conn'["B"][d] = conn["B"][d]
  BY <1>3, <1>6
<1>14. Packets'
  <2>1. \A d \in Conn : Given(d) => Given(d)'
    BY <1>13 DEF Given
  <2> QED BY <1>1, <1>4, <1>9, <1>11, <2>1, PacketsStill
<1>15. News'
  <2>1. \A d \in Conn : Announced(d)' = Announced(d) /\ caller'[d].id = caller[d].id
    BY <1>1 DEF Announced
  <2>2. \A q : In(backlog, q)' = In(backlog, q)
    BY <1>1 DEF In
  <2>3. ASSUME NEW e \in End, NEW q \in Packet, Way(e, q)' \/ In(backlog, q)', q.flag = "new"
        PROVE  /\ conn'["B"][q.conn] = "none"
               /\ Way(e, q)' => ~In(backlog, q)'
               /\ accept'.pc = "set" => accept'.conn # q.conn
    <3>1. /\ conn["B"][q.conn] = "none" /\ (Way(e, q) => ~In(backlog, q)) /\ q.conn # c
      BY <1>1, <1>2, <1>9, <2>2, <2>3 DEF News
    <3>2. q.conn \in Conn
      BY PacketIs
    <3> QED BY <1>4, <1>6, <1>9, <2>2, <3>1, <3>2
  <2>4. \A e \in End, q \in Packet : Way(e, q)' /\ q.flag = "new" => e = "A"
    BY <1>9 DEF News
  <2>5. \A q \in Packet : In(backlog, q)' => q.flag = "new" /\ Announced(q.conn)' /\ q.id = caller'[q.conn].id
    <3>1. \A q \in Packet : q.conn \in Conn
      BY PacketIs
    <3> QED BY <2>1, <2>2, <3>1 DEF News
  <2>6. accept'.pc \in {"set", "deliver", "ok"} =>
            accept'.conn \in Conn /\ Announced(accept.conn)' /\ accept'.id = caller'[accept'.conn].id
    <3>1. c \in Conn /\ Announced(c)' /\ caller[c].id = caller'[c].id
      BY <1>3, <2>1
    <3> QED BY <1>4, <3>1 DEF Announced
  <2>7. /\ accept'.pc = "set" => conn'["B"][accept'.conn] = "none"
        /\ accept'.pc \in {"deliver", "ok"} => conn'["B"][accept'.conn] # "none"
    BY <1>4, <1>6
  <2>8. \A d \in Conn : conn'["B"][d] # "none" => Announced(d)'
    <3>1. \A d \in Conn : d # c => conn'["B"][d] = conn["B"][d]
      BY <1>6
    <3> QED BY <1>3, <2>1, <3>1 DEF News
  <2> HIDE DEF News, Way, In, Announced
  <2> QED BY <2>3, <2>4, <2>5, <2>6, <2>7, <2>8 DEF News
<1>16. Messages'
  BY <1>1, <1>9, MessagesStill
<1>17. Starving'
  <2>1. Asked' = Asked
    BY <1>1 DEF Asked, Announced
  <2>2. Answered' = Answered
    <3>1. \A d \in Conn : d \in Answered' <=> d \in Answered
      <4>1. \A d \in Conn : d \in Answered <=> conn["B"][d] # "none"
        BY <1>1 DEF Answered
      <4>2. \A d \in Conn : d \in Answered' <=> conn'["B"][d] # "none" /\ d # c
        BY <1>4 DEF Answered
      <4> QED BY <1>3, <1>6, <4>1, <4>2
    <3> QED BY <3>1 DEF Answered
  <2> QED BY <1>1, <2>1, <2>2, StarvingStill
<1>18. Bounds'
  BY <1>1 DEF Bounds
<1> QED BY <1>8, <1>10, <1>12, <1>14, <1>15, <1>16, <1>17, <1>18 DEF LinkInv

(* The goroutine behind Accept goes on with its connection.                *)
LEMMA NewsMove ==
    ASSUME LinkTypes, News, UNCHANGED <<caller, backlog>>,
           accept'.conn = accept.conn, accept'.id = accept.id,
           accept.pc \in {"deliver", "ok"}, accept'.pc \in {"ok", "pop", "end"},
           \A c \in Conn : conn'["B"][c] = "none" <=> conn["B"][c] = "none",
           \A e \in End, q \in Packet : Way(e, q)' => Way(e, q) \/ q.flag # "new"
    PROVE  News'
<1>0. Stay
  BY StayStill
<1>1. \A q \in Packet : q.conn \in Conn
  BY PacketIs
<1>2. \A q : In(backlog, q)' <=> In(backlog, q)
  BY DEF In
<1>3. \A c \in Conn : Announced(c) => Announced(c)' /\ caller'[c].id = caller[c].id
  BY <1>0 DEF Stay
<1>4. /\ \A e \in End, p \in Packet :
            (Way(e, p)' \/ In(backlog, p)') /\ p.flag = "new"
               => /\ conn'["B"][p.conn] = "none"
                  /\ Way(e, p)' => ~In(backlog, p)'
                  /\ accept'.pc = "set" => accept'.conn # p.conn
      /\ \A e \in End, p \in Packet : Way(e, p)' /\ p.flag = "new" => e = "A"
  BY <1>1, <1>2 DEF News
<1>5. \A p \in Packet : In(backlog, p)' => p.flag = "new" /\ Announced(p.conn)' /\ p.id = caller'[p.conn].id
  BY <1>1, <1>2, <1>3 DEF News
<1>6. PICK c : c = accept.conn
  OBVIOUS
<1>7. c \in Conn /\ Announced(c)' /\ accept'.id = caller'[c].id /\ conn'["B"][c] # "none"
  <2>1. c \in Conn /\ Announced(c) /\ accept.id = caller[c].id /\ conn["B"][c] # "none"
    BY <1>6 DEF News
  <2> QED BY <1>3, <2>1
<1>8. accept'.pc \in {"set", "deliver", "ok"} =>
          accept'.conn \in Conn /\ Announced(accept.conn)' /\ accept'.id = caller'[accept'.conn].id
  BY <1>6, <1>7 DEF Announced
<1>9. /\ accept'.pc = "set" => conn'["B"][accept'.conn] = "none"
      /\ accept'.pc \in {"deliver", "ok"} => conn'["B"][accept'.conn] # "none"
  BY <1>6, <1>7
<1>10. \A d \in Conn : conn'["B"][d] # "none" => Announced(d)'
  BY <1>3 DEF News
<1> HIDE DEF News, Way, In, Announced
<1> QED BY <1>4, <1>5, <1>8, <1>9, <1>10 DEF News

(* Accept hands it over: B's program has been given it.                    *)
LEMMA AcceptStep == ASSUME LinkInv, Accept PROVE LinkInv'
<1> USE InvParts, Ends2
<1>1. PICK c : c = accept.conn
  OBVIOUS
<1>2. PICK v : v = IF conn["B"][c] = "made" THEN "open" ELSE conn["B"][c]
  OBVIOUS
<1>3. /\ accept.pc = "deliver" /\ accept' = [accept EXCEPT !.pc = "ok"]
      /\ conn' = [conn EXCEPT !["B"][c] = v]
      /\ UNCHANGED <<id, caller, table, sent, got, lost, out, wire, passed, link, reader, backlog, ping, mux>>
  BY <1>1, <1>2 DEF Accept, carrying, queues
<1>4. c \in Conn /\ conn["B"][c] # "none"
  BY <1>1, <1>3 DEF News
<1>5. v \in ConnIs /\ v \in {"open", "closing", "closed"} /\ (v \in {"made", "open", "closing"} <=> Had("B", c))
  <2>1. conn["B"][c] \in ConnIs
    BY <1>4 DEF LinkTypes, ConnIs
  <2> QED BY <1>2, <1>4, <2>1 DEF Had, ConnIs
<1>6. /\ conn' \in [End -> [Conn -> ConnIs]]
      /\ conn'["B"][c] = v
      /\ \A f \in End, d \in Conn : f # "B" \/ d # c => conn'[f][d] = conn[f][d]
  <2>1. conn \in [End -> [Conn -> ConnIs]]
    BY DEF LinkTypes, ConnIs
  <2> QED BY <1>3, <1>4, <1>5, <2>1
<1>7. accept'.pc = "ok" /\ accept'.conn = c /\ accept'.id = accept.id
      /\ accept' \in [pc : {"pop", "set", "deliver", "ok", "end"}, conn : 0 .. Opens, id : {0} \cup Id]
  <2>1. accept \in [pc : {"pop", "set", "deliver", "ok", "end"}, conn : 0 .. Opens, id : {0} \cup Id]
    BY DEF LinkTypes
  <2> QED BY <1>1, <1>3, <2>1
<1>8. LinkTypes'
  BY <1>3, <1>6, <1>7 DEF LinkTypes, ConnIs
<1>9. \A e \in End, p \in Packet : Way(e, p)' = Way(e, p)
  BY <1>3, WayStill
<1>10. Once' /\ IdsGiven'
  BY <1>3, OnceStill, IdsStill
<1>11. Stay
  BY <1>3, StayStill
<1>12. Tables'
  <2>1. Tabled'
    <3>1. ASSUME NEW f \in End, NEW d \in Conn PROVE Had(f, d)' <=> Had(f, d)
      <4>1. CASE f = "B" /\ d = c
        BY <1>5, <1>6, <4>1 DEF Had
      <4>2. CASE f # "B" \/ d # c
        BY <1>6, <4>2 DEF Had
      <4> QED BY <4>1, <4>2
    <3> QED BY <1>3, <3>1, TabledSame
  <2>2. \A d \in Conn : conn'["A"][d] = conn["A"][d] /\ caller'[d] = caller[d]
    BY <1>3, <1>6
  <2> QED BY <2>1, <2>2 DEF Tables
<1>13. \A d \in Conn : /\ Given(d) => Given(d)'
                       /\ conn'["B"][d] = "none" <=> conn["B"][d] = "none"
  BY <1>4, <1>5, <1>6 DEF Given
<1>14. Packets'
  <2>1. Given(accept.conn)'
    BY <1>5, <1>6, <1>7 DEF Given
  <2> QED BY <1>3, <1>9, <1>11, <1>13, <2>1, PacketsStill
<1>15. News'
  BY <1>1, <1>3, <1>7, <1>9, <1>13, NewsMove
<1>16. Messages'
  BY <1>3, <1>9, MessagesStill
<1>17. Starving'
  <2>1. Asked' = Asked /\ Answered' = Answered
    BY <1>1, <1>3, <1>7, <1>13 DEF Asked, Answered, Announced
  <2> QED BY <1>3, <2>1, StarvingStill
<1>18. Bounds'
  BY <1>3 DEF Bounds
<1> QED BY <1>8, <1>10, <1>12, <1>14, <1>15, <1>16, <1>17, <1>18 DEF LinkInv

MuxIs == [closed : BOOLEAN, checked : 0 .. Closers, stored : 0 .. Closers, shut : BOOLEAN, panic : BOOLEAN]

(* The program's ends of the queues and the sessions are left alone, or    *)
(* nothing but what the link itself is made of changes.                    *)
LEMMA EndsStep ==
    ASSUME LinkInv, UNCHANGED <<opening, carrying, reader, backlog, accept, out, wire, passed>>,
           LinkTypes', Bounds', \A e \in End : mux[e].closed => mux'[e].closed
    PROVE  LinkInv'
<1> USE InvParts DEF opening, carrying
<1>1. Once' /\ IdsGiven' /\ Tables'
  BY OnceStill, IdsStill, TablesStill
<1>2. \A e \in End, p \in Packet : Way(e, p)' = Way(e, p)
  BY WayStill
<1>3. Stay
  BY StayStill
<1>4. Packets'
  <2>1. \A d \in Conn : Given(d) => Given(d)'
    BY DEF Given
  <2> QED BY <1>2, <1>3, <2>1, PacketsStill
<1>5. News' /\ Messages'
  BY <1>2, <1>3, NewsStill, MessagesStill
<1>6. Starving'
  BY <1>3, SetsKept, StarvingStill
<1> QED BY <1>1, <1>4, <1>5, <1>6 DEF LinkInv

(* The goroutine behind Accept panics.                                     *)
LEMMA SendOnClosedStep == ASSUME LinkInv, SendOnClosed PROVE LinkInv'
<1>1. /\ mux' = [mux EXCEPT !["B"].panic = TRUE] /\ link' = FALSE
      /\ UNCHANGED <<opening, carrying, queues, sessions>>
  BY DEF SendOnClosed
<1>2. LinkTypes /\ Bounds
  BY InvParts
<1>3. LinkTypes' /\ \A e \in End : mux'[e].closed = mux[e].closed /\ mux'[e].checked = mux[e].checked /\ mux'[e].stored = mux[e].stored
  <2>1. mux \in [End -> MuxIs]
    BY <1>2 DEF LinkTypes, MuxIs
  <2>2. mux' \in [End -> MuxIs] /\ mux'["B"] = [mux["B"] EXCEPT !.panic = TRUE] /\ mux'["A"] = mux["A"]
    BY <1>1, <2>1, Ends2 DEF MuxIs
  <2>3. \A e \in End : mux'[e].closed = mux[e].closed /\ mux'[e].checked = mux[e].checked /\ mux'[e].stored = mux[e].stored
    BY <2>1, <2>2 DEF MuxIs, End
  <2>4. LinkTypes'
    BY <1>1, <1>2, <2>2 DEF LinkTypes, MuxIs, opening, carrying, queues, sessions
  <2> QED BY <2>3, <2>4
<1>4. Bounds'
  BY <1>1, <1>2, <1>3 DEF Bounds, sessions
<1> QED BY <1>1, <1>3, <1>4, EndsStep DEF queues, sessions

(* Only now is the opening answered (mux.go:237).                          *)
LEMMA OkSentStep == ASSUME LinkInv, SendOk PROVE LinkInv'
<1> USE InvParts, Ends2
<1>1. PICK c : c = accept.conn
  OBVIOUS
<1>2. PICK p : p = Packs("ok", c, accept.id)
  OBVIOUS
<1>3. /\ accept.pc = "ok" /\ accept' = [accept EXCEPT !.pc = IF mux["B"].closed THEN "end" ELSE "pop"]
      /\ sendInfo("B", p)
      /\ UNCHANGED <<id, caller, table, conn, sent, got, lost, wire, passed, link, reader, backlog, ping, mux>>
  BY <1>1, <1>2 DEF SendOk, opening, carrying
<1>4. c \in Conn /\ Announced(c) /\ accept.id = caller[c].id /\ Given(c) /\ conn["B"][c] # "none"
  BY <1>1, <1>3 DEF News, Packets
<1>5. p \in Packet /\ p.flag = "ok" /\ p.conn = c /\ p.id = caller[c].id
  BY <1>2, <1>4, PacketIs
<1>6. /\ out' \in [End -> Queues]
      /\ Once'
      /\ \A f \in End, q \in Packet : Way(f, q)' => Way(f, q) \/ (f = "B" /\ q = p)
      /\ \A f \in End : /\ out'[f].starving = out[f].starving
                        /\ Len(out'[f].mid) =
                             IF f = "B" /\ ~mux["B"].closed /\ p.flag \in {"new", "ok"}
                             THEN Len(out[f].mid) + 1 ELSE Len(out[f].mid)
  <2>1. ~OnceOnly(p)
    BY <1>5 DEF OnceOnly
  <2>2. UNCHANGED <<wire, backlog>> /\ sendInfo("B", p)
    BY <1>3
  <2> QED BY <1>5, <2>1, <2>2, SendInfoIs
<1>7. accept'.pc \in {"pop", "end"} /\ accept'.conn = c /\ accept'.id = accept.id
      /\ accept' \in [pc : {"pop", "set", "deliver", "ok", "end"}, conn : 0 .. Opens, id : {0} \cup Id]
  <2>1. accept \in [pc : {"pop", "set", "deliver", "ok", "end"}, conn : 0 .. Opens, id : {0} \cup Id]
    BY DEF LinkTypes
  <2> QED BY <1>1, <1>3, <2>1
<1>8. LinkTypes'
  BY <1>3, <1>6, <1>7 DEF LinkTypes
<1>10. IdsGiven' /\ Tables'
  BY <1>3, IdsStill, TablesStill
<1>11. Stay
  BY <1>3, StayStill
<1>14. Packets'
  <2>1. Fine(p)'
    BY <1>3, <1>4, <1>5 DEF Fine, Announced, Given
  <2>2. \A e \in End, q \in Packet : Way(e, q)' => Way(e, q) \/ Fine(q)'
    BY <1>6, <2>1
  <2>3. \A d \in Conn : Given(d) => Given(d)'
    BY <1>3 DEF Given
  <2> QED BY <1>3, <1>7, <1>11, <2>2, <2>3, PacketsStill
<1>15. News'
  <2>1. \A e \in End, q \in Packet : Way(e, q)' => Way(e, q) \/ q.flag # "new"
    BY <1>5, <1>6
  <2> QED BY <1>1, <1>3, <1>7, <2>1, NewsMove
<1>16. Messages'
  BY <1>3, <1>5, <1>6, MessagesStill
<1>17. Starving'
  <2>1. Answered' = Answered \cup {c} /\ c \notin Answered
    BY <1>1, <1>3, <1>4, <1>7 DEF Answered
  <2>2. Cardinality(Answered)' = Cardinality(Answered) + 1 /\ Cardinality(Answered) \in Nat
    <3>1. IsFiniteSet(Answered)
      BY ConnFinite, FS_Subset DEF Answered
    <3> QED BY <2>1, <3>1, FS_AddElement, FS_CardinalityType
  <2>3. Asked' = Asked
    BY <1>3 DEF Asked, Announced
  <2>4. \A e \in End : out[e].starving \in Nat /\ Len(out[e].mid) \in Nat
    BY LinkTyped
  <2>5. out'["B"].starving + Len(out'["B"].mid) <= Cardinality(Answered)'
    <3>1. out["B"].starving + Len(out["B"].mid) <= Cardinality(Answered)
      BY DEF Starving
    <3>2. PICK k \in Nat, m \in Nat, n \in Nat :
             k = out["B"].starving /\ m = Len(out["B"].mid) /\ n = Cardinality(Answered)
      BY <2>2, <2>4
    <3>3. out'["B"].starving = k /\ (Len(out'["B"].mid) = m \/ Len(out'["B"].mid) = m + 1)
      BY <1>6, <3>2
    <3>4. k + m <= n /\ Cardinality(Answered)' = n + 1
      BY <2>2, <3>1, <3>2
    <3> QED BY <3>3, <3>4
  <2>6. out'["A"].starving + Len(out'["A"].mid) <= Cardinality(Asked)'
    <3>1. out'["A"].starving = out["A"].starving /\ Len(out'["A"].mid) = Len(out["A"].mid)
      BY <1>6
    <3> QED BY <2>3, <3>1 DEF Starving
  <2> QED BY <1>3, <1>6, <2>5, <2>6 DEF Starving
<1>18. Bounds'
  BY <1>3 DEF Bounds
<1> QED BY <1>6, <1>8, <1>10, <1>14, <1>15, <1>16, <1>17, <1>18 DEF LinkInv

(* A packet is read: everything but messages and types.                    *)
LEMMA ReadsKeep ==
    ASSUME LinkInv, UNCHANGED <<id, caller, table, backlog, accept, passed, mux>>,
           out' \in [End -> Queues],
           \A e \in End : out'[e].starving = out[e].starving /\ Len(out'[e].mid) = Len(out[e].mid),
           \A e \in End, q \in Packet : Way(e, q)' => Way(e, q),
           \A e \in End, d \in Conn : /\ Had(e, d)' <=> Had(e, d)
                                      /\ conn'[e][d] = "none" <=> conn[e][d] = "none",
           \A d \in Conn : conn'["A"][d] = "open" => conn["A"][d] = "open",
           \A d \in Conn : Given(d) => Given(d)',
           reader'["A"] \in {0, reader["A"]} \/ Given(reader["A"])'
    PROVE  IdsGiven' /\ Tables' /\ Packets' /\ News' /\ Starving'
<1> USE InvParts, Ends2
<1>1. Stay
  BY StayStill
<1>2. IdsGiven'
  BY IdsStill
<1>3. Tables'
  <2>1. Tabled'
    BY TabledSame
  <2>2. \A d \in Conn : /\ conn'["A"][d] = "none" <=> conn["A"][d] = "none"
                        /\ conn'["A"][d] = "open" => conn["A"][d] = "open"
    OBVIOUS
  <2> QED BY <2>1, <2>2 DEF Tables
<1>4. Packets'
  BY <1>1, PacketsStill
<1>5. \A c \in Conn : conn'["B"][c] = "none" <=> conn["B"][c] = "none"
  OBVIOUS
<1>6. News'
  BY <1>1, <1>5, NewsStill
<1>7. Starving'
  BY <1>1, <1>5, SetsKept, StarvingStill
<1> QED BY <1>2, <1>3, <1>4, <1>6, <1>7

(* The connection a packet is for, by its id, is the one it is about or is *)
(* closed.                                                                 *)
LEMMA Knows ==
    ASSUME LinkInv, NEW e \in End, NEW f \in End, NEW p \in Packet, Way(f, p), p.flag # "new",
           NEW c, c = Known(e, p)
    PROVE  /\ p.conn \in Conn /\ p.id \in Id /\ Given(p.conn) /\ p.id = caller[p.conn].id
           /\ c \in {0, p.conn} /\ c \in 0 .. Opens
           /\ c = 0 => conn[e][p.conn] = "closed"
           /\ c # 0 => c = p.conn /\ Had(e, c)
<1> USE InvParts, Ends2
<1>1. p.conn \in Conn /\ p.id \in Id
  BY PacketIs
<1>2. PICK d : d = p.conn
  OBVIOUS
<1>3. Announced(d) /\ p.id = caller[d].id /\ Given(d) /\ d \in Conn
  BY <1>1, <1>2 DEF Packets
<1>4. conn[e][d] \in {"made", "open", "closing", "closed"}
  <2>1. conn["B"][d] # "none"
    BY <1>3 DEF Given
  <2>2. conn["A"][d] # "none"
    BY <1>3 DEF Tables, Announced
  <2>3. conn[e][d] \in ConnIs
    BY <1>3 DEF LinkTypes, ConnIs
  <2> QED BY <2>1, <2>2, <2>3 DEF End, ConnIs
<1>5. c = table[e][p.id] /\ c \in 0 .. Opens
  <2>1. table \in [End -> [Id -> 0 .. Opens]]
    BY DEF LinkTypes
  <2>2. c = table[e][p.id]
    BY DEF Known
  <2> QED BY <1>1, <2>1, <2>2
<1>6. c = 0 => conn[e][d] = "closed"
  <2>1. Had(e, d) => table[e][caller[d].id] = d
    BY <1>3 DEF Tabled
  <2>2. d # 0
    BY <1>3, OpensAssumption DEF Conn
  <2> QED BY <1>3, <1>4, <1>5, <2>1, <2>2 DEF Had
<1>7. c # 0 => c = d /\ Had(e, c)
  <2> SUFFICES ASSUME c # 0 PROVE c = d /\ Had(e, c)
    OBVIOUS
  <2>1. c \in Conn /\ caller[c].id = p.id /\ Had(e, c)
    BY <1>1, <1>5, TableIs
  <2>2. caller[d].id # 0
    BY <1>3
  <2>3. c = d
    BY <1>3, <2>1, <2>2, SameCall
  <2> QED BY <2>1, <2>3
<1> QED BY <1>1, <1>2, <1>3, <1>5, <1>6, <1>7

(* A message is read: its connection is in the table unless it is closed   *)
(* here.                                                                   *)
LEMMA ReadDataStep == ASSUME LinkInv, NEW e \in End, ReadData(e) PROVE LinkInv'
<1> USE InvParts, Ends2
<1>1. PICK p : p = Head(Incoming(e))
  OBVIOUS
<1>2. PICK c : c = Known(e, p)
  OBVIOUS
<1>3. PICK g : g = Other(e)
  OBVIOUS
<1>4. /\ Reads(e, "data")
      /\ IF c # 0
         THEN got' = [got EXCEPT ![e][c] = @ + 1] /\ UNCHANGED lost
         ELSE lost' = lost \cup (IF conn[e][p.conn] = "closed" THEN {} ELSE {<<e, p.conn>>}) /\ UNCHANGED got
      /\ UNCHANGED <<id, caller, table, conn, sent, out, passed, link, reader, backlog, accept, ping, mux>>
  BY <1>1, <1>2 DEF ReadData, Reads
<1>5. /\ wire' \in [End -> Seq(Packs2)] /\ p \in Packs2 /\ p.flag = "data" /\ (p \in Packet => Way(g, p))
      /\ Once'
      /\ \A f \in End, q \in Packet : Way(f, q)' => Way(f, q)
      /\ p \in Packet /\ OnceOnly(p) => ~Way(g, p)'
  <2>1. UNCHANGED <<out, backlog>> /\ Reads(e, "data") /\ LinkTypes /\ Once
    BY <1>4
  <2>2. /\ wire' \in [End -> Seq(Packs2)] /\ p \in Packs2 /\ p.flag = "data" /\ (p \in Packet => Way(Other(e), p))
        /\ Once'
        /\ \A f \in End, q \in Packet : Way(f, q)' => Way(f, q)
        /\ p \in Packet /\ OnceOnly(p) => ~Way(Other(e), p)'
    BY <1>1, <2>1, ReadsIs, Zenon
  <2> QED BY <1>3, <2>2 DEF Way
<1>6. p \in Packet /\ Way(g, p) /\ ~Way(g, p)' /\ g \in End /\ g # e /\ Other(g) = e
  BY <1>3, <1>5, PacketIs DEF Packs2, OnceOnly
<1>7. /\ p.conn \in Conn /\ p.id \in Id /\ Given(p.conn) /\ p.id = caller[p.conn].id
      /\ c \in {0, p.conn} /\ c \in 0 .. Opens
      /\ c = 0 => conn[e][p.conn] = "closed"
      /\ c # 0 => c = p.conn /\ Had(e, c)
  BY <1>2, <1>5, <1>6, Knows
<1>8. lost' = lost
  BY <1>4, <1>7
<1>9. got \in [End -> [Conn -> Nat]] /\ sent \in [End -> [Conn -> 0 .. 1]]
  BY DEF LinkTypes
<1>10. /\ got' \in [End -> [Conn -> Nat]]
       /\ \A f \in End, d \in Conn : got'[f][d] = IF c # 0 /\ f = e /\ d = c THEN got[f][d] + 1 ELSE got[f][d]
  <2>1. CASE c = 0
    BY <1>4, <1>9, <2>1
  <2>2. CASE c # 0
    <3>1. got' = [got EXCEPT ![e][c] = @ + 1] /\ c \in Conn
      BY <1>4, <1>7, <2>2
    <3> QED BY <1>9, <2>2, <3>1
  <2> QED BY <2>1, <2>2
<1>11. LinkTypes'
  BY <1>4, <1>5, <1>10 DEF LinkTypes
<1>12. IdsGiven' /\ Tables' /\ Packets' /\ News' /\ Starving'
  <2>1. \A f \in End, d \in Conn : /\ Had(f, d)' <=> Had(f, d)
                                   /\ conn'[f][d] = "none" <=> conn[f][d] = "none"
    BY <1>4 DEF Had
  <2>2. \A d \in Conn : Given(d) => Given(d)'
    BY <1>4 DEF Given
  <2> QED BY <1>4, <1>5, <2>1, <2>2, ReadsKeep
<1>13. Messages'
  <2>1. sent[g][p.conn] = 1 /\ got[e][p.conn] = 0
    BY <1>5, <1>6 DEF Messages
  <2>2. ASSUME NEW f \in End, NEW d \in Conn PROVE got'[Other(f)][d] <= sent'[f][d]
    <3>1. got[Other(f)][d] <= sent[f][d] /\ Other(f) \in End
      BY DEF Messages
    <3>2. CASE c # 0 /\ Other(f) = e /\ d = c
      <4>1. f = g
        BY <1>3, <3>2 DEF End
      <4> QED BY <1>4, <1>7, <1>9, <1>10, <2>1, <3>2, <4>1
    <3>3. CASE ~(c # 0 /\ Other(f) = e /\ d = c)
      BY <1>4, <1>10, <3>1, <3>3
    <3> QED BY <3>2, <3>3
  <2>3. ASSUME NEW f \in End, NEW q \in Packet, Way(f, q)', q.flag = "data"
        PROVE  sent'[f][q.conn] = 1 /\ got'[Other(f)][q.conn] = 0
    <3>1. Way(f, q) /\ q.conn \in Conn /\ q.id = caller[q.conn].id /\ Other(f) \in End
      <4>1. Way(f, q) /\ q.conn \in Conn /\ Other(f) \in End
        BY <1>5, <2>3, PacketIs
      <4> QED BY <4>1 DEF Packets
    <3>2. sent[f][q.conn] = 1 /\ got[Other(f)][q.conn] = 0
      BY <2>3, <3>1 DEF Messages
    <3>3. ~(c # 0 /\ Other(f) = e /\ q.conn = c)
      <4> SUFFICES ASSUME c # 0, Other(f) = e, q.conn = c PROVE FALSE
        OBVIOUS
      <4>1. f = g
        BY <1>3 DEF End
      <4>2. q = p
        BY <1>5, <1>6, <1>7, <2>3, <3>1, SamePacket
      <4> QED BY <1>6, <2>3, <4>1, <4>2
    <3> QED BY <1>4, <1>10, <3>1, <3>2, <3>3
  <2>4. lost' = {}
    BY <1>8 DEF Messages
  <2> QED BY <2>2, <2>3, <2>4 DEF Messages
<1>14. Bounds'
  BY <1>4 DEF Bounds
<1> QED BY <1>5, <1>11, <1>12, <1>13, <1>14 DEF LinkInv

(* An Ok is read: the connection it is for was given to B.                 *)
LEMMA ReadOkStep == ASSUME LinkInv, ReadOk PROVE LinkInv'
<1> USE InvParts, Ends2
<1>1. PICK p : p = Head(Incoming("A"))
  OBVIOUS
<1>2. PICK c : c = Known("A", p)
  OBVIOUS
<1>4. /\ Reads("A", "ok")
      /\ reader' = [reader EXCEPT !["A"] = c]
      /\ UNCHANGED <<id, caller, table, conn, sent, got, lost, out, passed, link, backlog, accept, ping, mux>>
  BY <1>1, <1>2 DEF ReadOk, Reads
<1>5. /\ wire' \in [End -> Seq(Packs2)] /\ p \in Packs2 /\ p.flag = "ok" /\ (p \in Packet => Way("B", p))
      /\ Once'
      /\ \A f \in End, q \in Packet : Way(f, q)' => Way(f, q)
  <2>1. UNCHANGED <<out, backlog>> /\ Reads("A", "ok") /\ LinkTypes /\ Once
    BY <1>4
  <2>2. /\ wire' \in [End -> Seq(Packs2)] /\ p \in Packs2 /\ p.flag = "ok" /\ (p \in Packet => Way(Other("A"), p))
        /\ Once'
        /\ \A f \in End, q \in Packet : Way(f, q)' => Way(f, q)
        /\ p \in Packet /\ OnceOnly(p) => ~Way(Other("A"), p)'
    BY <1>1, <2>1, ReadsIs, Zenon
  <2> QED BY <2>2
<1>6. p \in Packet /\ Way("B", p)
  BY <1>5, PacketIs DEF Packs2
<1>7. Given(p.conn) /\ c \in {0, p.conn} /\ c \in 0 .. Opens
  BY <1>2, <1>5, <1>6, Knows
<1>8. reader' \in [End -> 0 .. Opens] /\ reader'["B"] = 0 /\ reader'["A"] = c
  BY <1>4, <1>7 DEF LinkTypes
<1>11. LinkTypes'
  BY <1>4, <1>5, <1>8 DEF LinkTypes
<1>12. IdsGiven' /\ Tables' /\ Packets' /\ News' /\ Starving'
  <2>1. \A f \in End, d \in Conn : /\ Had(f, d)' <=> Had(f, d)
                                   /\ conn'[f][d] = "none" <=> conn[f][d] = "none"
    BY <1>4 DEF Had
  <2>2. \A d \in Conn : Given(d) => Given(d)'
    BY <1>4 DEF Given
  <2>3. reader'["A"] = 0 \/ Given(reader["A"])'
    BY <1>4, <1>7, <1>8 DEF Given
  <2> QED BY <1>4, <1>5, <2>1, <2>2, <2>3, ReadsKeep
<1>13. Messages'
  BY <1>4, <1>5, MessagesStill
<1>14. Bounds'
  BY <1>4 DEF Bounds
<1> QED BY <1>5, <1>11, <1>12, <1>13, <1>14 DEF LinkInv

(* A closing is read.                                                      *)
LEMMA ReadCloseStep == ASSUME LinkInv, NEW e \in End, ReadClose(e) PROVE LinkInv'
<1> USE InvParts, Ends2
<1>1. PICK p : p = Head(Incoming(e))
  OBVIOUS
<1>2. PICK c : c = Known(e, p)
  OBVIOUS
<1>4. /\ Reads(e, "close")
      /\ conn' = IF c = 0 THEN conn ELSE [conn EXCEPT ![e][c] = "closing"]
      /\ UNCHANGED <<id, caller, table, sent, got, lost, out, passed, link, reader, backlog, accept, ping, mux>>
  BY <1>1, <1>2 DEF ReadClose, Reads
<1>5. /\ wire' \in [End -> Seq(Packs2)] /\ p \in Packs2 /\ p.flag = "close" /\ (p \in Packet => Way(Other(e), p))
      /\ Once'
      /\ \A f \in End, q \in Packet : Way(f, q)' => Way(f, q)
  <2>1. UNCHANGED <<out, backlog>> /\ Reads(e, "close") /\ LinkTypes /\ Once
    BY <1>4
  <2>2. /\ wire' \in [End -> Seq(Packs2)] /\ p \in Packs2 /\ p.flag = "close" /\ (p \in Packet => Way(Other(e), p))
        /\ Once'
        /\ \A f \in End, q \in Packet : Way(f, q)' => Way(f, q)
        /\ p \in Packet /\ OnceOnly(p) => ~Way(Other(e), p)'
    BY <1>1, <2>1, ReadsIs, Zenon
  <2> QED BY <2>2
<1>6. p \in Packet /\ Way(Other(e), p)
  BY <1>5, PacketIs DEF Packs2
<1>7. p.conn \in Conn /\ Given(p.conn) /\ c \in {0, p.conn} /\ (c # 0 => c = p.conn /\ Had(e, c))
  BY <1>2, <1>5, <1>6, Knows
<1>8. conn \in [End -> [Conn -> ConnIs]]
  BY DEF LinkTypes, ConnIs
<1>10. /\ conn' \in [End -> [Conn -> ConnIs]]
       /\ \A f \in End, d \in Conn : conn'[f][d] = IF c # 0 /\ f = e /\ d = c THEN "closing" ELSE conn[f][d]
  <2>1. CASE c = 0
    BY <1>4, <1>8, <2>1
  <2>2. CASE c # 0
    <3>1. conn' = [conn EXCEPT ![e][c] = "closing"] /\ c \in Conn
      BY <1>4, <1>7, <2>2
    <3> QED BY <1>8, <2>2, <3>1 DEF ConnIs
  <2> QED BY <2>1, <2>2
<1>11. LinkTypes'
  BY <1>4, <1>5, <1>10 DEF LinkTypes, ConnIs
<1>12. IdsGiven' /\ Tables' /\ Packets' /\ News' /\ Starving'
  <2>1. \A f \in End, d \in Conn : /\ Had(f, d)' <=> Had(f, d)
                                   /\ conn'[f][d] = "none" <=> conn[f][d] = "none"
    BY <1>7, <1>10 DEF Had
  <2>2. \A d \in Conn : Given(d) => Given(d)'
    BY <1>10 DEF Given
  <2>3. \A d \in Conn : conn'["A"][d] = "open" => conn["A"][d] = "open"
    BY <1>10
  <2> QED BY <1>4, <1>5, <2>1, <2>2, <2>3, ReadsKeep
<1>13. Messages'
  BY <1>4, <1>5, MessagesStill
<1>14. Bounds'
  BY <1>4 DEF Bounds
<1> QED BY <1>5, <1>11, <1>12, <1>13, <1>14 DEF LinkInv

(* A pong is read.                                                         *)
LEMMA ReadPongStep == ASSUME LinkInv, ReadPong PROVE LinkInv'
<1> USE InvParts, Ends2
<1>4. /\ Reads("A", "pong")
      /\ ping' = [ping EXCEPT !.check = 0]
      /\ UNCHANGED <<id, caller, table, conn, sent, got, lost, out, passed, link, reader, backlog, accept, mux>>
  BY DEF ReadPong, Reads
<1>5. /\ wire' \in [End -> Seq(Packs2)]
      /\ Once'
      /\ \A f \in End, q \in Packet : Way(f, q)' => Way(f, q)
  <2>1. UNCHANGED <<out, backlog>> /\ Reads("A", "pong") /\ LinkTypes /\ Once
    BY <1>4
  <2>2. PICK p : p = Head(Incoming("A"))
    OBVIOUS
  <2>3. /\ wire' \in [End -> Seq(Packs2)] /\ p \in Packs2 /\ p.flag = "pong" /\ (p \in Packet => Way(Other("A"), p))
        /\ Once'
        /\ \A f \in End, q \in Packet : Way(f, q)' => Way(f, q)
        /\ p \in Packet /\ OnceOnly(p) => ~Way(Other("A"), p)'
    BY <2>1, <2>2, ReadsIs, Zenon
  <2> QED BY <2>3
<1>6. ping' \in [check : 0 .. Ticks, ticks : 0 .. Ticks] /\ ping'.check <= ping'.ticks
  <2>1. ping \in [check : 0 .. Ticks, ticks : 0 .. Ticks] /\ Ticks \in Nat
    BY BoundAssumption DEF LinkTypes
  <2> QED BY <1>4, <2>1
<1>11. LinkTypes'
  BY <1>4, <1>5, <1>6 DEF LinkTypes
<1>12. IdsGiven' /\ Tables' /\ Packets' /\ News' /\ Starving'
  <2>1. \A f \in End, d \in Conn : /\ Had(f, d)' <=> Had(f, d)
                                   /\ conn'[f][d] = "none" <=> conn[f][d] = "none"
    BY <1>4 DEF Had
  <2>2. \A d \in Conn : Given(d) => Given(d)'
    BY <1>4 DEF Given
  <2> QED BY <1>4, <1>5, <2>1, <2>2, ReadsKeep
<1>13. Messages'
  BY <1>4, <1>5, MessagesStill
<1>14. Bounds'
  BY <1>4, <1>6 DEF Bounds
<1> QED BY <1>5, <1>11, <1>12, <1>13, <1>14 DEF LinkInv

(* A ping is read and answered.                                            *)
LEMMA ReadPingStep == ASSUME LinkInv, ReadPing PROVE LinkInv'
<1> USE InvParts, Ends2
<1>1. /\ Reads("B", "ping")
      /\ sendInfo("B", Pong)
      /\ UNCHANGED <<id, caller, table, conn, sent, got, lost, passed, link, reader, backlog, accept, ping, mux>>
  BY DEF ReadPing, Reads
<1>2. /\ wire' \in [End -> Seq(Packs2)]
      /\ \A f \in End : \A x : In(wire'[f], x) => In(wire[f], x)
      /\ \A f \in End : Sole(wire'[f])
  <2>1. PICK p : p = Head(Incoming("B"))
    OBVIOUS
  <2>2. Reads("B", "ping") /\ LinkTypes /\ Once
    BY <1>1
  <2>3. /\ wire' \in [End -> Seq(Packs2)] /\ p \in Packs2 /\ p.flag = "ping" /\ (p \in Packet => Way(Other("B"), p))
        /\ \A f \in End : \A x : In(wire'[f], x) => In(wire[f], x)
        /\ \A f \in End : Sole(wire'[f])
        /\ p \in Packet /\ OnceOnly(p) =>
              /\ ~In(wire'[Other("B")], p) /\ ~In(out[Other("B")].mid, p) /\ ~In(out[Other("B")].low, p)
    BY <2>1, <2>2, ReadsWire, Zenon
  <2> QED BY <2>3
<1>3. /\ out' \in [End -> Queues]
      /\ \A f \in End : /\ out'[f].mid = out[f].mid /\ out'[f].low = out[f].low
                        /\ out'[f].starving = out[f].starving
  <2>1. CASE mux["B"].closed
    BY <1>1, <2>1 DEF sendInfo
  <2>2. CASE ~mux["B"].closed
    <3>1. PICK q : q = Push(out["B"], Pong)
      OBVIOUS
    <3>2. out' = [out EXCEPT !["B"] = q]
      BY <1>1, <2>2, <3>1 DEF sendInfo
    <3>3. out["B"] \in Queues
      OBVIOUS
    <3>4. q \in Queues /\ q.mid = out["B"].mid /\ q.low = out["B"].low /\ q.starving = out["B"].starving
      BY <3>1, <3>3, PushIs
    <3> QED BY <3>2, <3>4
  <2> QED BY <2>1, <2>2
<1>4. Once' /\ \A f \in End, q \in Packet : Way(f, q)' => Way(f, q)
  <2>1. Sole(backlog')
    BY <1>1 DEF Once
  <2> QED BY <1>2, <1>3, <2>1, OnceShrinks
<1>11. LinkTypes'
  BY <1>1, <1>2, <1>3 DEF LinkTypes
<1>12. IdsGiven' /\ Tables' /\ Packets' /\ News' /\ Starving'
  <2>1. \A f \in End, d \in Conn : /\ Had(f, d)' <=> Had(f, d)
                                   /\ conn'[f][d] = "none" <=> conn[f][d] = "none"
    BY <1>1 DEF Had
  <2>2. \A d \in Conn : Given(d) => Given(d)'
    BY <1>1 DEF Given
  <2> QED BY <1>1, <1>3, <1>4, <2>1, <2>2, ReadsKeep
<1>13. Messages'
  BY <1>1, <1>4, MessagesStill
<1>14. Bounds'
  BY <1>1 DEF Bounds
<1> QED BY <1>4, <1>11, <1>12, <1>13, <1>14 DEF LinkInv

(* An announcement is read: from the wire to newConnQueue.                 *)
LEMMA ReadNewStep == ASSUME LinkInv, ReadNew PROVE LinkInv'
<1> USE InvParts, Ends2
<1>1. PICK p : p = Head(Incoming("B"))
  OBVIOUS
<1>2. /\ Reads("B", "new")
      /\ backlog' = Append(backlog, p)
      /\ UNCHANGED <<id, caller, table, conn, sent, got, lost, out, passed, link, reader, accept, ping, mux>>
  BY <1>1 DEF ReadNew, Reads
<1>3. /\ wire' \in [End -> Seq(Packs2)] /\ p \in Packs2 /\ p.flag = "new" /\ (p \in Packet => Way("A", p))
      /\ \A f \in End : \A x : In(wire'[f], x) => In(wire[f], x)
      /\ \A f \in End : Sole(wire'[f])
      /\ p \in Packet /\ OnceOnly(p) =>
            /\ ~In(wire'["A"], p) /\ ~In(out["A"].mid, p) /\ ~In(out["A"].low, p)
  <2>2. Reads("B", "new") /\ LinkTypes /\ Once
    BY <1>2
  <2>3. /\ wire' \in [End -> Seq(Packs2)] /\ p \in Packs2 /\ p.flag = "new" /\ (p \in Packet => Way(Other("B"), p))
        /\ \A f \in End : \A x : In(wire'[f], x) => In(wire[f], x)
        /\ \A f \in End : Sole(wire'[f])
        /\ p \in Packet /\ OnceOnly(p) =>
              /\ ~In(wire'[Other("B")], p) /\ ~In(out[Other("B")].mid, p) /\ ~In(out[Other("B")].low, p)
    BY <1>1, <2>2, ReadsWire, Zenon
  <2> QED BY <2>3
<1>4. p \in Packet /\ Way("A", p) /\ ~Way("A", p)' /\ p.conn \in Conn /\ OnceOnly(p)
  <2>1. p \in Packet /\ OnceOnly(p)
    BY <1>3, PacketIs DEF Packs2, OnceOnly
  <2>2. ~Way("A", p)'
    BY <1>2, <1>3, <2>1 DEF Way
  <2> QED BY <1>3, <2>1, <2>2, PacketIs
<1>5. /\ conn["B"][p.conn] = "none" /\ ~In(backlog, p) /\ (accept.pc = "set" => accept.conn # p.conn)
      /\ Announced(p.conn) /\ p.id = caller[p.conn].id
  <2>1. /\ conn["B"][p.conn] = "none" /\ ~In(backlog, p) /\ (accept.pc = "set" => accept.conn # p.conn)
    BY <1>3, <1>4 DEF News
  <2> QED BY <1>4, <2>1 DEF Packets
<1>6. backlog' \in Seq(Packet) /\ Sole(backlog') /\ \A q : In(backlog', q) <=> In(backlog, q) \/ q = p
  <2>1. backlog \in Seq(Packet) /\ Sole(backlog)
    BY DEF LinkTypes, Once
  <2> QED BY <1>2, <1>4, <1>5, <2>1, AppendIn
<1>7. Once' /\ \A f \in End, q \in Packet : Way(f, q)' => Way(f, q)
  BY <1>2, <1>3, <1>6, OnceShrinks
<1>8. LinkTypes'
  BY <1>2, <1>3, <1>6 DEF LinkTypes
<1>9. IdsGiven' /\ Tables'
  BY <1>2, IdsStill, TablesStill
<1>10. Stay
  BY <1>2, StayStill
<1>11. Packets'
  <2>1. \A d \in Conn : Given(d) => Given(d)'
    BY <1>2 DEF Given
  <2> QED BY <1>2, <1>7, <1>10, <2>1, PacketsStill
<1>12. News'
  <2>1. \A d \in Conn : Announced(d)' = Announced(d) /\ caller'[d].id = caller[d].id
    BY <1>2 DEF Announced
  <2>2. \A q : In(backlog, q)' <=> In(backlog, q) \/ q = p
    BY <1>6
  <2>3. ASSUME NEW e \in End, NEW q \in Packet, Way(e, q)' \/ In(backlog, q)', q.flag = "new"
        PROVE  /\ conn'["B"][q.conn] = "none"
               /\ Way(e, q)' => ~In(backlog, q)'
               /\ accept'.pc = "set" => accept'.conn # q.conn
    <3>1. Way(e, q)' => Way(e, q) /\ e = "A" /\ q # p
      <4>1. Way(e, q)' => Way(e, q) /\ e = "A"
        BY <1>7, <2>3 DEF News
      <4> QED BY <1>4, <4>1
    <3>2. CASE q = p
      BY <1>2, <1>5, <3>1, <3>2
    <3>3. CASE q # p
      <4>1. Way(e, q) \/ In(backlog, q)
        BY <2>2, <2>3, <3>1, <3>3
      <4>2. /\ conn["B"][q.conn] = "none"
            /\ Way(e, q) => ~In(backlog, q)
            /\ accept.pc = "set" => accept.conn # q.conn
        BY <2>3, <4>1 DEF News
      <4> QED BY <1>2, <2>2, <3>1, <3>3, <4>2
    <3> QED BY <3>2, <3>3
  <2>4. \A e \in End, q \in Packet : Way(e, q)' /\ q.flag = "new" => e = "A"
    BY <1>7 DEF News
  <2>5. \A q \in Packet : In(backlog, q)' => q.flag = "new" /\ Announced(q.conn)' /\ q.id = caller'[q.conn].id
    <3>1. \A q \in Packet : q.conn \in Conn
      BY PacketIs
    <3>2. \A q \in Packet : In(backlog, q) => q.flag = "new" /\ Announced(q.conn) /\ q.id = caller[q.conn].id
      BY DEF News
    <3> QED BY <1>3, <1>5, <2>1, <2>2, <3>1, <3>2
  <2>6. accept'.pc \in {"set", "deliver", "ok"} =>
            accept'.conn \in Conn /\ Announced(accept.conn)' /\ accept'.id = caller'[accept'.conn].id
    BY <1>2, <2>1 DEF News, Announced
  <2>7. /\ accept'.pc = "set" => conn'["B"][accept'.conn] = "none"
        /\ accept'.pc \in {"deliver", "ok"} => conn'["B"][accept'.conn] # "none"
        /\ \A d \in Conn : conn'["B"][d] # "none" => Announced(d)'
    BY <1>2, <2>1 DEF News
  <2> HIDE DEF News, Way, In, Announced
  <2> QED BY <2>3, <2>4, <2>5, <2>6, <2>7 DEF News
<1>13. Messages'
  BY <1>2, <1>7, MessagesStill
<1>14. Starving'
  <2>1. Asked' = Asked /\ Answered' = Answered
    BY <1>2 DEF Asked, Answered, Announced
  <2> QED BY <1>2, <2>1, StarvingStill
<1>15. Bounds'
  BY <1>2 DEF Bounds
<1> QED BY <1>7, <1>8, <1>9, <1>11, <1>12, <1>13, <1>14, <1>15 DEF LinkInv

(* A message is written, the first of this end on it.                      *)
LEMMA WriteStep == ASSUME LinkInv, NEW e \in End, NEW c \in Conn, Write(e, c) PROVE LinkInv'
<1> USE InvParts, Ends2
<1>1. PICK p : p = Packs("data", c, caller[c].id)
  OBVIOUS
<1>2. /\ conn[e][c] = "open" /\ sent[e][c] = 0
      /\ sent' = [sent EXCEPT ![e][c] = @ + 1]
      /\ sendInfo(e, p)
      /\ UNCHANGED <<id, caller, table, conn, got, lost, wire, passed, link, reader, backlog, accept, ping, mux>>
  BY <1>1 DEF Write, opening, sessions
<1>3. Announced(c) /\ Given(c) /\ caller[c].id \in Id
  <2>1. CASE e = "A"
    <3>1. caller[c].pc = "open" /\ caller[c].id # 0
      BY <1>2, <2>1 DEF Tables, IdsGiven
    <3>2. Announced(c) /\ Given(c)
      BY <3>1 DEF Announced, Packets
    <3> QED BY <3>2
  <2>2. CASE e = "B"
    <3>1. Announced(c) /\ Given(c)
      BY <1>2, <2>2 DEF News, Given
    <3> QED BY <3>1
  <2> QED BY <2>1, <2>2 DEF End
<1>4. p \in Packet /\ p.flag = "data" /\ p.conn = c /\ p.id = caller[c].id
  BY <1>1, <1>3, PacketIs
<1>5. ~Way(e, p)
  BY <1>2, <1>4 DEF Messages
<1>6. /\ out' \in [End -> Queues]
      /\ Once'
      /\ \A f \in End, q \in Packet : Way(f, q)' => Way(f, q) \/ (f = e /\ q = p)
      /\ \A f \in End : out'[f].starving = out[f].starving /\ Len(out'[f].mid) = Len(out[f].mid)
  <2>1. UNCHANGED <<wire, backlog>> /\ sendInfo(e, p)
    BY <1>2
  <2>2. p.flag \notin {"new", "ok"}
    BY <1>4
  <2>3. /\ out' \in [End -> Queues]
        /\ Once'
        /\ \A f \in End, q \in Packet : Way(f, q)' => Way(f, q) \/ (f = e /\ q = p)
        /\ \A f \in End : /\ out'[f].starving = out[f].starving
                          /\ Len(out'[f].mid) =
                               IF f = e /\ ~mux[e].closed /\ p.flag \in {"new", "ok"}
                               THEN Len(out[f].mid) + 1 ELSE Len(out[f].mid)
    BY <1>4, <1>5, <2>1, SendInfoIs
  <2> QED BY <2>2, <2>3
<1>7. sent' \in [End -> [Conn -> 0 .. 1]] /\ \A f \in End, d \in Conn : sent'[f][d] = IF f = e /\ d = c THEN 1 ELSE sent[f][d]
  <2>1. sent \in [End -> [Conn -> 0 .. 1]]
    BY DEF LinkTypes
  <2> QED BY <1>2, <2>1
<1>8. LinkTypes'
  BY <1>2, <1>6, <1>7 DEF LinkTypes
<1>9. IdsGiven' /\ Tables'
  BY <1>2, IdsStill, TablesStill
<1>10. Stay
  BY <1>2, StayStill
<1>11. Packets'
  <2>1. \A d \in Conn : Given(d) => Given(d)'
    BY <1>2 DEF Given
  <2>2. Fine(p)'
    BY <1>2, <1>3, <1>4 DEF Fine, Announced, Given
  <2>3. \A f \in End, q \in Packet : Way(f, q)' => Way(f, q) \/ Fine(q)'
    BY <1>6, <2>2
  <2> QED BY <1>2, <1>10, <2>1, <2>3, PacketsStill
<1>12. News'
  <2>1. \A f \in End, q \in Packet : Way(f, q)' => Way(f, q) \/ q.flag # "new"
    BY <1>4, <1>6
  <2> QED BY <1>2, <1>10, <2>1, NewsStill
<1>13. Messages'
  <2>0. got[Other(e)][c] = 0 /\ got \in [End -> [Conn -> Nat]] /\ sent \in [End -> [Conn -> 0 .. 1]]
    <3>1. got \in [End -> [Conn -> Nat]] /\ sent \in [End -> [Conn -> 0 .. 1]]
      BY DEF LinkTypes
    <3>2. got[Other(e)][c] \in Nat /\ got[Other(e)][c] <= 0
      BY <1>2, <3>1 DEF Messages
    <3> QED BY <3>1, <3>2
  <2>1. ASSUME NEW f \in End, NEW d \in Conn PROVE got'[Other(f)][d] <= sent'[f][d]
    <3>1. got[Other(f)][d] <= sent[f][d]
      BY DEF Messages
    <3>2. CASE f = e /\ d = c
      BY <1>2, <1>7, <2>0, <3>2
    <3>3. CASE f # e \/ d # c
      <4>1. sent'[f][d] = sent[f][d]
        BY <1>7, <3>3
      <4> QED BY <1>2, <3>1, <4>1
    <3> QED BY <3>2, <3>3
  <2>2. ASSUME NEW f \in End, NEW q \in Packet, Way(f, q)', q.flag = "data"
        PROVE  sent'[f][q.conn] = 1 /\ got'[Other(f)][q.conn] = 0
    <3>1. q.conn \in Conn
      BY PacketIs
    <3>2. CASE f = e /\ q = p
      BY <1>2, <1>4, <1>7, <2>0, <3>2
    <3>3. CASE Way(f, q)
      <4>1. sent[f][q.conn] = 1 /\ got[Other(f)][q.conn] = 0
        BY <2>2, <3>3 DEF Messages
      <4> QED BY <1>2, <1>7, <3>1, <4>1
    <3> QED BY <1>6, <2>2, <3>2, <3>3
  <2>3. lost' = {}
    BY <1>2 DEF Messages
  <2> QED BY <2>1, <2>2, <2>3 DEF Messages
<1>14. Starving'
  <2>1. Asked' = Asked /\ Answered' = Answered
    BY <1>2 DEF Asked, Answered, Announced
  <2> QED BY <1>2, <1>6, <2>1, StarvingStill
<1>15. Bounds'
  BY <1>2 DEF Bounds
<1> QED BY <1>6, <1>8, <1>9, <1>11, <1>12, <1>13, <1>14, <1>15 DEF LinkInv

(* A connection is closed: out of the table.                               *)
LEMMA CloseConnStep == ASSUME LinkInv, NEW e \in End, NEW c \in Conn, CloseConn(e, c) PROVE LinkInv'
<1> USE InvParts, Ends2
<1>1. PICK p : p = Packs("close", c, caller[c].id)
  OBVIOUS
<1>2. /\ conn[e][c] \in {"open", "closing"} /\ (e = "A" => caller[c].pc = "open")
      /\ conn' = [conn EXCEPT ![e][c] = "closed"]
      /\ table' = [table EXCEPT ![e][caller[c].id] = 0]
      /\ sendInfo(e, p)
      /\ UNCHANGED <<id, caller, sent, got, lost, wire, passed, link, reader, backlog, accept, ping, mux>>
  BY <1>1 DEF CloseConn, carrying, sessions
<1>3. Announced(c) /\ Given(c) /\ caller[c].id \in Id /\ caller[c].id # 0
  <2>1. CASE e = "A"
    <3>1. caller[c].pc = "open" /\ caller[c].id # 0
      BY <1>2, <2>1 DEF IdsGiven
    <3>2. Announced(c) /\ Given(c)
      BY <3>1 DEF Announced, Packets
    <3> QED BY <3>2
  <2>2. CASE e = "B"
    <3>1. Announced(c) /\ Given(c)
      BY <1>2, <2>2 DEF News, Given
    <3> QED BY <3>1
  <2> QED BY <2>1, <2>2 DEF End
<1>4. p \in Packet /\ p.flag = "close" /\ p.conn = c /\ p.id = caller[c].id
  BY <1>1, <1>3, PacketIs
<1>5. /\ out' \in [End -> Queues]
      /\ Once'
      /\ \A f \in End, q \in Packet : Way(f, q)' => Way(f, q) \/ (f = e /\ q = p)
      /\ \A f \in End : out'[f].starving = out[f].starving /\ Len(out'[f].mid) = Len(out[f].mid)
  <2>1. UNCHANGED <<wire, backlog>> /\ sendInfo(e, p) /\ ~OnceOnly(p)
    BY <1>2, <1>4 DEF OnceOnly
  <2>2. p.flag \notin {"new", "ok"}
    BY <1>4
  <2>3. /\ out' \in [End -> Queues]
        /\ Once'
        /\ \A f \in End, q \in Packet : Way(f, q)' => Way(f, q) \/ (f = e /\ q = p)
        /\ \A f \in End : /\ out'[f].starving = out[f].starving
                          /\ Len(out'[f].mid) =
                               IF f = e /\ ~mux[e].closed /\ p.flag \in {"new", "ok"}
                               THEN Len(out[f].mid) + 1 ELSE Len(out[f].mid)
    BY <1>4, <2>1, SendInfoIs
  <2> QED BY <2>2, <2>3
<1>6. /\ conn' \in [End -> [Conn -> ConnIs]]
      /\ conn'[e][c] = "closed"
      /\ \A f \in End, d \in Conn : f # e \/ d # c => conn'[f][d] = conn[f][d]
  <2>1. conn \in [End -> [Conn -> ConnIs]]
    BY DEF LinkTypes, ConnIs
  <2> QED BY <1>2, <2>1 DEF ConnIs
<1>7. /\ table' \in [End -> [Id -> 0 .. Opens]]
      /\ table'[e][caller[c].id] = 0
      /\ \A f \in End, j \in Id : f # e \/ j # caller[c].id => table'[f][j] = table[f][j]
  <2>1. table \in [End -> [Id -> 0 .. Opens]]
    BY DEF LinkTypes
  <2>2. 0 \in 0 .. Opens
    BY OpensAssumption
  <2> QED BY <1>2, <1>3, <2>1, <2>2
<1>8. LinkTypes'
  BY <1>2, <1>5, <1>6, <1>7 DEF LinkTypes, ConnIs
<1>9. IdsGiven'
  BY <1>2, IdsStill
<1>10. Stay
  BY <1>2, StayStill
<1>11. Tables'
  <2>1. Tabled'
    <3>1. \A f \in End, d \in Conn : Had(f, d) => caller[d].id # 0
      BY HadIds DEF Had
    <3>2. \A d \in Conn : caller'[d].id = caller[d].id
      BY <1>2
    <3>3. LinkTypes /\ IdsGiven /\ Tabled
      OBVIOUS
    <3> QED BY <1>3, <1>6, <1>7, <3>1, <3>2, <3>3, TabledStep
  <2>2. ASSUME NEW d \in Conn
        PROVE  /\ conn'["A"][d] = "none" <=> conn["A"][d] = "none"
               /\ conn'["A"][d] = "open" => conn["A"][d] = "open"
               /\ caller'[d] = caller[d]
    <3>1. CASE e = "A" /\ d = c
      BY <1>2, <1>6, <3>1
    <3>2. CASE e # "A" \/ d # c
      BY <1>2, <1>6, <3>2
    <3> QED BY <3>1, <3>2
  <2> QED BY <2>1, <2>2 DEF Tables
<1>12. ASSUME NEW d \in Conn
       PROVE  /\ conn'["B"][d] = "none" <=> conn["B"][d] = "none"
              /\ Given(d) => Given(d)'
  <2>1. CASE e = "B" /\ d = c
    BY <1>2, <1>6, <2>1 DEF Given
  <2>2. CASE e # "B" \/ d # c
    BY <1>6, <2>2 DEF Given
  <2> QED BY <2>1, <2>2
<1>13. Packets'
  <2>1. Fine(p)'
    <3>1. Given(c)'
      BY <1>3, <1>12
    <3> QED BY <1>2, <1>3, <1>4, <3>1 DEF Fine, Announced, Given
  <2>2. \A f \in End, q \in Packet : Way(f, q)' => Way(f, q) \/ Fine(q)'
    BY <1>5, <2>1
  <2> QED BY <1>2, <1>10, <1>12, <2>2, PacketsStill
<1>14. News'
  <2>1. \A f \in End, q \in Packet : Way(f, q)' => Way(f, q) \/ q.flag # "new"
    BY <1>4, <1>5
  <2> QED BY <1>2, <1>10, <1>12, <2>1, NewsStill
<1>15. Messages'
  BY <1>2, <1>4, <1>5, MessagesStill
<1>16. Starving'
  <2>1. Asked \subseteq Asked' /\ Answered \subseteq Answered'
    BY <1>2, <1>10, <1>12, SetsKept
  <2> QED BY <1>2, <1>5, <2>1, StarvingStill
<1>17. Bounds'
  BY <1>2 DEF Bounds
<1> QED BY <1>5, <1>8, <1>9, <1>11, <1>13, <1>14, <1>15, <1>16, <1>17 DEF LinkInv

(* A closer's step.                                                        *)
LEMMA MuxSet ==
    ASSUME LinkTypes, NEW e \in End, NEW m \in MuxIs, mux' = [mux EXCEPT ![e] = m]
    PROVE  /\ mux' \in [End -> MuxIs] /\ mux'[e] = m /\ \A f \in End : f # e => mux'[f] = mux[f]
           /\ mux[e] \in MuxIs
<1>1. mux \in [End -> MuxIs]
  BY DEF LinkTypes, MuxIs
<1> QED BY <1>1

(* One more goroutine is inside Close.                                     *)
LEMMA CloserComes ==
    ASSUME LinkTypes, Bounds, NEW e \in End, mux[e].checked + mux[e].stored < Closers,
           mux' = [mux EXCEPT ![e].checked = @ + 1]
    PROVE  /\ mux' \in [End -> MuxIs]
           /\ \A f \in End : mux'[f].closed = mux[f].closed /\ mux'[f].stored = mux[f].stored
           /\ \A f \in End : mux'[f].checked + mux'[f].stored <= Closers
<1>0. mux \in [End -> MuxIs]
  BY DEF LinkTypes, MuxIs
<1>1. mux[e] \in MuxIs /\ Closers \in Nat
  BY <1>0, BoundAssumption
<1>2. PICK m : m = [mux[e] EXCEPT !.checked = @ + 1]
  OBVIOUS
<1>3. mux[e].checked \in Nat /\ mux[e].stored \in Nat /\ mux[e].checked + 1 \in 0 .. Closers
  BY <1>1 DEF MuxIs
<1>4. m \in MuxIs /\ m.checked = mux[e].checked + 1 /\ m.stored = mux[e].stored /\ m.closed = mux[e].closed
  BY <1>1, <1>2, <1>3 DEF MuxIs
<1>5. mux' = [mux EXCEPT ![e] = m]
  BY <1>2
<1>6. mux' \in [End -> MuxIs] /\ mux'[e] = m /\ \A f \in End : f # e => mux'[f] = mux[f]
  BY <1>0, <1>4, <1>5
<1>7. ASSUME NEW f \in End
      PROVE  mux'[f].closed = mux[f].closed /\ mux'[f].stored = mux[f].stored /\ mux'[f].checked + mux'[f].stored <= Closers
  <2>1. CASE f = e
    BY <1>1, <1>3, <1>4, <1>6, <2>1
  <2>2. CASE f # e
    BY <1>6, <2>2 DEF Bounds
  <2> QED BY <2>1, <2>2
<1> QED BY <1>6, <1>7

(* Close looks at isClose.                                                 *)
LEMMA CheckCloseStep == ASSUME LinkInv, NEW e \in End, CheckClose(e) PROVE LinkInv'
<1>1. /\ mux[e].checked + mux[e].stored < Closers /\ mux' = [mux EXCEPT ![e].checked = @ + 1]
      /\ UNCHANGED <<opening, carrying, queues, link, sessions>>
  BY DEF CheckClose
<1>2. LinkTypes /\ Bounds
  BY InvParts
<1>3. /\ mux' \in [End -> MuxIs]
      /\ \A f \in End : mux'[f].closed = mux[f].closed /\ mux'[f].stored = mux[f].stored
      /\ \A f \in End : mux'[f].checked + mux'[f].stored <= Closers
  BY <1>1, <1>2, CloserComes
<1>4. LinkTypes'
  BY <1>1, <1>2, <1>3 DEF LinkTypes, MuxIs, opening, carrying, queues, sessions
<1>5. Bounds'
  BY <1>1, <1>2, <1>3 DEF Bounds, sessions
<1> QED BY <1>1, <1>3, <1>4, <1>5, EndsStep DEF queues, sessions

(* The ticker pings, or closes.                                            *)
LEMMA TickStep == ASSUME LinkInv, Tick PROVE LinkInv'
<1> USE InvParts, Ends2
<1>0. ping \in [check : 0 .. Ticks, ticks : 0 .. Ticks] /\ Ticks \in Nat /\ ping.check <= ping.ticks
  BY BoundAssumption DEF LinkTypes, Bounds
<1>1. /\ ping.ticks < Ticks
      /\ UNCHANGED <<id, caller, table, conn, sent, got, lost, wire, passed, link, reader, backlog, accept>>
  BY DEF Tick, opening, carrying
<1>2. CASE ping.check > Threshold
  <2>1. /\ mux["A"].checked + mux["A"].stored < Closers
        /\ mux' = [mux EXCEPT !["A"].checked = @ + 1]
        /\ ping' = [ping EXCEPT !.ticks = Ticks]
        /\ out' = out
    BY <1>2 DEF Tick
  <2>2. /\ mux' \in [End -> MuxIs]
        /\ \A f \in End : mux'[f].closed = mux[f].closed /\ mux'[f].stored = mux[f].stored
        /\ \A f \in End : mux'[f].checked + mux'[f].stored <= Closers
    BY <2>1, CloserComes
  <2>3. ping' \in [check : 0 .. Ticks, ticks : 0 .. Ticks] /\ ping'.check <= ping'.ticks
    BY <1>0, <2>1
  <2>4. LinkTypes'
    BY <1>1, <2>1, <2>2, <2>3 DEF LinkTypes, MuxIs
  <2>5. Bounds'
    BY <2>2, <2>3 DEF Bounds
  <2> QED BY <1>1, <2>1, <2>2, <2>4, <2>5, EndsStep DEF opening, carrying
<1>3. CASE ~(ping.check > Threshold)
  <2>1. /\ sendInfo("A", Ping)
        /\ ping' = [check |-> ping.check + 1, ticks |-> ping.ticks + 1]
        /\ mux' = mux
    BY <1>3 DEF Tick
  <2>2. PICK p : p = Ping
    OBVIOUS
  <2>3. p \notin Packet /\ p.flag = "ping" /\ p \in {Ping, Pong}
    BY <2>2, PacketIs
  <2>4. /\ out' \in [End -> Queues]
        /\ Once'
        /\ \A f \in End, q \in Packet : Way(f, q)' => Way(f, q)
        /\ \A f \in End : out'[f].starving = out[f].starving /\ Len(out'[f].mid) = Len(out[f].mid)
    <3>1. UNCHANGED <<wire, backlog>> /\ sendInfo("A", p)
      BY <1>1, <2>1, <2>2
    <3>2. /\ out' \in [End -> Queues]
          /\ Once'
          /\ \A f \in End, q \in Packet : Way(f, q)' => Way(f, q) \/ (f = "A" /\ q = p)
          /\ \A f \in End : /\ out'[f].starving = out[f].starving
                            /\ Len(out'[f].mid) =
                                 IF f = "A" /\ ~mux["A"].closed /\ p.flag \in {"new", "ok"}
                                 THEN Len(out[f].mid) + 1 ELSE Len(out[f].mid)
      BY <2>3, <3>1, SendInfoIs
    <3>3. p.flag \notin {"new", "ok"}
      BY <2>3
    <3> QED BY <2>3, <3>2, <3>3
  <2>5. ping' \in [check : 0 .. Ticks, ticks : 0 .. Ticks] /\ ping'.check <= ping'.ticks
    BY <1>0, <1>1, <2>1
  <2>6. LinkTypes'
    BY <1>1, <2>1, <2>4, <2>5 DEF LinkTypes
  <2>7. IdsGiven' /\ Tables' /\ Packets' /\ News' /\ Starving'
    <3>1. \A f \in End, d \in Conn : /\ Had(f, d)' <=> Had(f, d)
                                     /\ conn'[f][d] = "none" <=> conn[f][d] = "none"
      BY <1>1 DEF Had
    <3>2. \A d \in Conn : Given(d) => Given(d)'
      BY <1>1 DEF Given
    <3> QED BY <1>1, <2>1, <2>4, <3>1, <3>2, ReadsKeep
  <2>8. Messages'
    BY <1>1, <2>4, MessagesStill
  <2>9. Bounds'
    BY <2>1, <2>5 DEF Bounds
  <2> QED BY <2>4, <2>6, <2>7, <2>8, <2>9 DEF LinkInv
<1> QED BY <1>2, <1>3

(* Close empties the table: everything there is closed.                    *)
LEMMA StoreCloseStep == ASSUME LinkInv, NEW e \in End, StoreClose(e) PROVE LinkInv'
<1> USE InvParts, Ends2
<1>1. PICK held : held = {table[e][i] : i \in Id} \ {0}
  OBVIOUS
<1>2. /\ mux[e].checked > 0
      /\ mux' = [mux EXCEPT ![e].checked = @ - 1, ![e].stored = @ + 1, ![e].closed = TRUE]
      /\ conn' = [conn EXCEPT ![e] = [c \in Conn |-> IF c \in held THEN "closed" ELSE conn[e][c]]]
      /\ table' = [table EXCEPT ![e] = [i \in Id |-> 0]]
      /\ UNCHANGED <<id, caller, sent, got, lost, out, wire, passed, link, reader, backlog, accept, ping>>
  BY <1>1 DEF StoreClose, carrying, queues, sessions
<1>3. mux' \in [End -> MuxIs] /\ Bounds' /\ \A f \in End : mux[f].closed => mux'[f].closed
  <2>0. mux \in [End -> MuxIs]
    BY DEF LinkTypes, MuxIs
  <2>1. mux[e] \in MuxIs /\ Closers \in Nat /\ mux[e].checked + mux[e].stored <= Closers
    BY <2>0, BoundAssumption DEF Bounds
  <2>2. PICK m : m = [mux[e] EXCEPT !.checked = @ - 1, !.stored = @ + 1, !.closed = TRUE]
    OBVIOUS
  <2>3. mux[e].checked \in Nat /\ mux[e].stored \in Nat /\ mux[e].checked - 1 \in 0 .. Closers /\ mux[e].stored + 1 \in 0 .. Closers
    BY <1>2, <2>1 DEF MuxIs
  <2>4. m \in MuxIs /\ m.checked = mux[e].checked - 1 /\ m.stored = mux[e].stored + 1 /\ m.closed = TRUE
    BY <2>1, <2>2, <2>3 DEF MuxIs
  <2>5. mux' = [mux EXCEPT ![e] = m]
    BY <1>2, <2>2
  <2>6. mux' \in [End -> MuxIs] /\ mux'[e] = m /\ \A f \in End : f # e => mux'[f] = mux[f]
    BY <2>0, <2>4, <2>5
  <2>7. ASSUME NEW f \in End
        PROVE  /\ mux'[f].checked + mux'[f].stored <= Closers
               /\ mux'[f].stored > 0 => mux'[f].closed
               /\ mux[f].closed => mux'[f].closed
    <3>1. CASE f = e
      <4>1. (mux[e].checked - 1) + (mux[e].stored + 1) <= Closers
        <5>1. PICK j \in Nat, k \in Nat : j = mux[e].checked /\ k = mux[e].stored
          BY <2>3
        <5>2. j + k <= Closers
          BY <2>1, <5>1
        <5>3. (j - 1) + (k + 1) <= Closers
          BY <2>1, <5>2
        <5> QED BY <5>1, <5>3
      <4> QED BY <2>4, <2>6, <3>1, <4>1
    <3>2. CASE f # e
      BY <2>6, <3>2 DEF Bounds
    <3> QED BY <3>1, <3>2
  <2>8. Bounds'
    BY <1>2, <2>7 DEF Bounds
  <2> QED BY <2>6, <2>7, <2>8
(* The end has nothing any more.                                           *)
<1>4. /\ conn' \in [End -> [Conn -> ConnIs]]
      /\ \A c \in Conn : conn'[e][c] = IF c \in held THEN "closed" ELSE conn[e][c]
      /\ \A f \in End, c \in Conn : f # e => conn'[f][c] = conn[f][c]
  <2>1. conn \in [End -> [Conn -> ConnIs]]
    BY DEF LinkTypes, ConnIs
  <2>2. PICK h : h = [c \in Conn |-> IF c \in held THEN "closed" ELSE conn[e][c]]
    OBVIOUS
  <2>3. h \in [Conn -> ConnIs] /\ \A c \in Conn : h[c] = IF c \in held THEN "closed" ELSE conn[e][c]
    BY <2>1, <2>2 DEF ConnIs
  <2>4. conn' = [conn EXCEPT ![e] = h]
    BY <1>2, <2>2
  <2> QED BY <2>1, <2>3, <2>4
<1>5. /\ table' \in [End -> [Id -> 0 .. Opens]]
      /\ \A i \in Id : table'[e][i] = 0
      /\ \A f \in End, i \in Id : f # e => table'[f][i] = table[f][i]
  <2>1. table \in [End -> [Id -> 0 .. Opens]] /\ 0 \in 0 .. Opens
    BY OpensAssumption DEF LinkTypes
  <2> QED BY <1>2, <2>1
<1>6. \A c \in Conn : c \in held <=> Had(e, c)
  <2>1. ASSUME NEW c \in Conn, Had(e, c) PROVE c \in held
    <3>1. caller[c].id \in Id
      BY <2>1, HadIds DEF Had
    <3>2. table[e][caller[c].id] = c /\ c # 0
      BY <2>1, OpensAssumption DEF Tabled, Conn
    <3> QED BY <1>1, <3>1, <3>2
  <2>2. ASSUME NEW c \in Conn, c \in held PROVE Had(e, c)
    <3>1. PICK i \in Id : c = table[e][i]
      BY <1>1, <2>2
    <3>2. c # 0
      BY OpensAssumption DEF Conn
    <3> QED BY <3>1, <3>2, TableIs
  <2> QED BY <2>1, <2>2
<1>7. ASSUME NEW c \in Conn
      PROVE  /\ conn'[e][c] = "none" <=> conn[e][c] = "none"
             /\ ~Had(e, c)' /\ conn'[e][c] # "open"
  <2>1. CASE Had(e, c)
    BY <1>4, <1>6, <2>1 DEF Had
  <2>2. CASE ~Had(e, c)
    BY <1>4, <1>6, <2>2 DEF Had
  <2> QED BY <2>1, <2>2
<1>8. LinkTypes'
  BY <1>2, <1>3, <1>4, <1>5 DEF LinkTypes, MuxIs, ConnIs
<1>9. Once' /\ IdsGiven'
  BY <1>2, OnceStill, IdsStill
<1>10. Stay
  BY <1>2, StayStill
<1>11. Tables'
  <2>1. ASSUME NEW f \in End, NEW j \in Id, table'[f][j] # 0
        PROVE  caller'[table'[f][j]].id = j /\ Had(f, table[f][j])'
    <3>1. f # e /\ table'[f][j] = table[f][j]
      BY <1>5, <2>1
    <3>2. PICK d : d = table[f][j]
      OBVIOUS
    <3>3. d \in Conn /\ caller[d].id = j /\ Had(f, d)
      BY <2>1, <3>1, <3>2, TableIs
    <3>4. Had(f, d)' /\ caller'[d].id = j
      BY <1>2, <1>4, <3>1, <3>3 DEF Had
    <3> QED BY <3>1, <3>2, <3>4 DEF Had
  <2>2. ASSUME NEW f \in End, NEW d \in Conn, Had(f, d)' PROVE table'[f][caller'[d].id] = d
    <3>1. f # e
      BY <1>7, <2>2
    <3>2. Had(f, d)
      BY <1>4, <2>2, <3>1 DEF Had
    <3>3. caller[d].id \in Id
      BY <3>2, HadIds DEF Had
    <3> QED BY <1>2, <1>5, <3>1, <3>2, <3>3 DEF Tabled
  <2>3. ASSUME NEW d \in Conn
        PROVE  /\ conn'["A"][d] = "none" <=> conn["A"][d] = "none"
               /\ conn'["A"][d] = "open" => conn["A"][d] = "open"
               /\ caller'[d] = caller[d]
    <3>1. CASE e = "A"
      BY <1>2, <1>7, <3>1
    <3>2. CASE e # "A"
      BY <1>2, <1>4, <3>2
    <3> QED BY <3>1, <3>2
  <2>4. Tabled'
    BY <2>1, <2>2 DEF Tabled
  <2> QED BY <2>3, <2>4 DEF Tables
<1>12. ASSUME NEW d \in Conn
       PROVE  /\ conn'["B"][d] = "none" <=> conn["B"][d] = "none"
              /\ Given(d) => Given(d)'
  <2>1. CASE e = "B"
    BY <1>4, <1>7, <2>1 DEF Given
  <2>2. CASE e # "B"
    BY <1>4, <2>2 DEF Given
  <2> QED BY <2>1, <2>2
<1>13. \A f \in End, p \in Packet : Way(f, p)' = Way(f, p)
  BY <1>2, WayStill
<1>14. Packets' /\ News' /\ Messages'
  <2>1. Packets'
    BY <1>2, <1>10, <1>12, <1>13, PacketsStill
  <2>2. News'
    BY <1>2, <1>10, <1>12, <1>13, NewsStill
  <2>3. Messages'
    BY <1>2, <1>13, MessagesStill
  <2> QED BY <2>1, <2>2, <2>3
<1>15. Starving'
  <2>1. Asked \subseteq Asked' /\ Answered \subseteq Answered'
    BY <1>2, <1>10, <1>12, SetsKept
  <2> QED BY <1>2, <1>3, <2>1, StarvingStill
<1> QED BY <1>3, <1>8, <1>9, <1>11, <1>14, <1>15 DEF LinkInv

(* Close empties the queues.                                               *)
LEMMA FinishCloseStep == ASSUME LinkInv, NEW e \in End, FinishClose(e) PROVE LinkInv'
<1> USE InvParts, Ends2
<1>1. /\ mux[e].stored > 0
      /\ mux' = [mux EXCEPT ![e].stored = @ - 1, ![e].shut = TRUE, ![e].panic = mux[e].shut]
      /\ link' = FALSE
      /\ out' = [out EXCEPT ![e] = Empty]
      /\ backlog' = IF e = "B" THEN <<>> ELSE backlog
      /\ UNCHANGED <<id, caller, table, conn, sent, got, lost, wire, passed, reader, accept, ping>>
  BY DEF FinishClose, opening, carrying
<1>2. mux[e].closed /\ mux' \in [End -> MuxIs] /\ Bounds' /\ \A f \in End : mux'[f].closed = mux[f].closed
  <2>0. mux \in [End -> MuxIs]
    BY DEF LinkTypes, MuxIs
  <2>1. mux[e] \in MuxIs /\ Closers \in Nat /\ mux[e].checked + mux[e].stored <= Closers /\ mux[e].closed
    BY <1>1, <2>0, BoundAssumption DEF Bounds
  <2>2. PICK m : m = [mux[e] EXCEPT !.stored = @ - 1, !.shut = TRUE, !.panic = mux[e].shut]
    OBVIOUS
  <2>3. mux[e].checked \in Nat /\ mux[e].stored \in Nat /\ mux[e].stored - 1 \in 0 .. Closers
    BY <1>1, <2>1 DEF MuxIs
  <2>4. m \in MuxIs /\ m.checked = mux[e].checked /\ m.stored = mux[e].stored - 1 /\ m.closed = mux[e].closed
    BY <2>1, <2>2, <2>3 DEF MuxIs
  <2>5. mux' = [mux EXCEPT ![e] = m]
    BY <1>1, <2>2
  <2>6. mux' \in [End -> MuxIs] /\ mux'[e] = m /\ \A f \in End : f # e => mux'[f] = mux[f]
    BY <2>0, <2>4, <2>5
  <2>7. ASSUME NEW f \in End
        PROVE  /\ mux'[f].checked + mux'[f].stored <= Closers
               /\ mux'[f].stored > 0 => mux'[f].closed
               /\ mux'[f].closed = mux[f].closed
    <3>1. CASE f = e
      <4>1. mux[e].checked + (mux[e].stored - 1) <= Closers
        BY <2>1, <2>3
      <4> QED BY <2>1, <2>4, <2>6, <3>1, <4>1
    <3>2. CASE f # e
      BY <2>6, <3>2 DEF Bounds
    <3> QED BY <3>1, <3>2
  <2>8. Bounds'
    BY <1>1, <2>7 DEF Bounds
  <2> QED BY <2>1, <2>6, <2>7, <2>8
<1>3. Empty \in Queues /\ Empty.mid = <<>> /\ Empty.low = <<>> /\ Empty.starving = 0
  BY EmptyIn DEF Empty, Queues
<1>4. out' \in [End -> Queues] /\ out'[e] = Empty /\ \A f \in End : f # e => out'[f] = out[f]
  BY <1>1, <1>3
<1>5. backlog' \in Seq(Packet) /\ Sole(backlog') /\ \A q : In(backlog', q) => In(backlog, q)
  <2>1. backlog \in Seq(Packet) /\ Sole(backlog)
    BY DEF LinkTypes, Once
  <2> QED BY <1>1, <2>1, EmptyIn
<1>6. \A f \in End, q \in Packet : Way(f, q)' => Way(f, q)
  <2> SUFFICES ASSUME NEW f \in End, NEW q \in Packet, Way(f, q)' PROVE Way(f, q)
    OBVIOUS
  <2>1. CASE f = e
    BY <1>1, <1>3, <1>4, <2>1, EmptyIn DEF Way
  <2>2. CASE f # e
    BY <1>1, <1>4, <2>2 DEF Way
  <2> QED BY <2>1, <2>2
<1>7. Once'
  <2>1. ASSUME NEW f \in End
        PROVE  /\ Sole(wire'[f]) /\ Sole(out'[f].mid) /\ Sole(out'[f].low)
               /\ \A p \in Packet : OnceOnly(p) /\ (In(out'[f].mid, p) \/ In(out'[f].low, p)) => ~In(wire'[f], p)
               /\ \A i \in 1 .. Len(out'[f].mid) : out'[f].mid[i].flag \in {"new", "ok"}
               /\ \A i \in 1 .. Len(out'[f].low) : out'[f].low[i].flag \in {"data", "close"}
    <3>1. CASE f = e
      <4>1. Sole(wire'[f])
        BY <1>1 DEF Once
      <4>2. out'[f].mid = <<>> /\ out'[f].low = <<>>
        BY <1>3, <1>4, <3>1
      <4>3. \A q : ~In(<<>>, q)
        BY EmptyIn
      <4>4. Sole(<<>>) /\ Len(<<>>) = 0
        BY EmptyIn
      <4> HIDE DEF In, Sole
      <4> QED BY <4>1, <4>2, <4>3, <4>4
    <3>2. CASE f # e
      <4>1. out'[f] = out[f] /\ wire' = wire
        BY <1>1, <1>4, <3>2
      <4> QED BY <4>1 DEF Once
    <3> QED BY <3>1, <3>2
  <2> QED BY <1>5, <2>1 DEF Once
<1>8. LinkTypes'
  BY <1>1, <1>2, <1>4, <1>5 DEF LinkTypes, MuxIs
<1>9. IdsGiven' /\ Tables'
  BY <1>1, IdsStill, TablesStill
<1>10. Stay
  BY <1>1, StayStill
<1>11. Packets'
  <2>1. \A d \in Conn : Given(d) => Given(d)'
    BY <1>1 DEF Given
  <2> QED BY <1>1, <1>6, <1>10, <2>1, PacketsStill
<1>12. News'
  <2>1. \A d \in Conn : Announced(d)' = Announced(d) /\ caller'[d].id = caller[d].id
    BY <1>1 DEF Announced
  <2>2. \A q : In(backlog, q)' => In(backlog, q)
    BY <1>5
  <2>3. ASSUME NEW f \in End, NEW q \in Packet, Way(f, q)' \/ In(backlog, q)', q.flag = "new"
        PROVE  /\ conn'["B"][q.conn] = "none"
               /\ Way(f, q)' => ~In(backlog, q)'
               /\ accept'.pc = "set" => accept'.conn # q.conn
    <3>1. Way(f, q)' => Way(f, q)
      BY <1>6
    <3>2. /\ conn["B"][q.conn] = "none"
          /\ Way(f, q) => ~In(backlog, q)
          /\ accept.pc = "set" => accept.conn # q.conn
      BY <2>2, <2>3, <3>1 DEF News
    <3> QED BY <1>1, <2>2, <3>1, <3>2
  <2>4. \A f \in End, q \in Packet : Way(f, q)' /\ q.flag = "new" => f = "A"
    BY <1>6 DEF News
  <2>5. \A q \in Packet : In(backlog, q)' => q.flag = "new" /\ Announced(q.conn)' /\ q.id = caller'[q.conn].id
    <3>1. \A q \in Packet : q.conn \in Conn
      BY PacketIs
    <3>2. \A q \in Packet : In(backlog, q) => q.flag = "new" /\ Announced(q.conn) /\ q.id = caller[q.conn].id
      BY DEF News
    <3> QED BY <2>1, <2>2, <3>1, <3>2
  <2>6. accept'.pc \in {"set", "deliver", "ok"} =>
            accept'.conn \in Conn /\ Announced(accept.conn)' /\ accept'.id = caller'[accept'.conn].id
    BY <1>1, <2>1 DEF News, Announced
  <2>7. /\ accept'.pc = "set" => conn'["B"][accept'.conn] = "none"
        /\ accept'.pc \in {"deliver", "ok"} => conn'["B"][accept'.conn] # "none"
        /\ \A d \in Conn : conn'["B"][d] # "none" => Announced(d)'
    BY <1>1, <2>1 DEF News
  <2> HIDE DEF News, Way, In, Announced
  <2> QED BY <2>3, <2>4, <2>5, <2>6, <2>7 DEF News
<1>13. Messages'
  BY <1>1, <1>6, MessagesStill
<1>14. Starving'
  <2>1. Asked' = Asked /\ Answered' = Answered
    BY <1>1 DEF Asked, Answered, Announced
  <2>2. Cardinality(Asked) \in Nat /\ Cardinality(Answered) \in Nat
    <3>1. Asked \subseteq Conn /\ Answered \subseteq Conn
      BY DEF Asked, Answered
    <3> QED BY <3>1, ConnFinite
  <2>3. ASSUME NEW f \in End, NEW n \in Nat, out[f].starving + Len(out[f].mid) <= n
        PROVE  out'[f].starving + Len(out'[f].mid) <= n
    <3>1. CASE f = e
      <4>1. out'[f].starving = 0 /\ Len(out'[f].mid) = 0
        BY <1>3, <1>4, <3>1, EmptyIn
      <4> QED BY <4>1
    <3>2. CASE f # e
      BY <1>4, <2>3, <3>2
    <3> QED BY <3>1, <3>2
  <2>4. out'["A"].starving + Len(out'["A"].mid) <= Cardinality(Asked)
    BY <2>2, <2>3 DEF Starving
  <2>5. out'["B"].starving + Len(out'["B"].mid) <= Cardinality(Answered)
    BY <2>2, <2>3 DEF Starving
  <2>6. ASSUME NEW f \in End PROVE passed'[f] <= MaxStarving /\ (~mux'[f].closed => passed'[f] <= out'[f].starving)
    <3>1. passed[f] <= MaxStarving /\ (~mux[f].closed => passed[f] <= out[f].starving)
      BY DEF Starving
    <3>2. CASE f = e
      BY <1>1, <1>2, <3>1, <3>2
    <3>3. CASE f # e
      BY <1>1, <1>2, <1>4, <3>1, <3>3
    <3> QED BY <3>2, <3>3
  <2> QED BY <2>1, <2>4, <2>5, <2>6 DEF Starving
<1> QED BY <1>2, <1>7, <1>8, <1>9, <1>11, <1>12, <1>13, <1>14 DEF LinkInv

(* A packet goes out: it passes at most maxStarving times (queue.go:54).   *)
LEMMA SendStep == ASSUME LinkInv, NEW e \in End, Send(e) PROVE LinkInv'
<1> USE InvParts, Ends2
<1>1. ~mux[e].closed /\ UNCHANGED <<opening, carrying, link, sessions, mux>>
  BY DEF Send, Alive
<1>2. UNCHANGED <<id, caller, table, conn, sent, got, lost, link, reader, backlog, accept, ping, mux>>
  BY <1>1 DEF opening, carrying, sessions
<1>3. /\ out' \in [End -> Queues] /\ wire' \in [End -> Seq(Packs2)] /\ passed' \in [End -> Nat]
      /\ Once'
      /\ \A f \in End, q \in Packet : Way(f, q)' => Way(f, q)
      /\ \A f \in End : /\ out'[f].starving + Len(out'[f].mid) <= out[f].starving + Len(out[f].mid)
                        /\ \/ passed'[f] = 0
                           \/ passed'[f] = passed[f] /\ out'[f].starving = out[f].starving
                           \/ /\ passed'[f] = passed[f] + 1 /\ out'[f].starving = out[f].starving + 1
                              /\ out[f].starving < MaxStarving
  BY SendIs
<1>4. LinkTypes'
  BY <1>2, <1>3 DEF LinkTypes
<1>5. IdsGiven' /\ Tables'
  BY <1>2, IdsStill, TablesStill
<1>6. Stay
  BY <1>2, StayStill
<1>7. Packets'
  <2>1. \A d \in Conn : Given(d) => Given(d)'
    BY <1>2 DEF Given
  <2> QED BY <1>2, <1>3, <1>6, <2>1, PacketsStill
<1>8. News'
  BY <1>2, <1>3, <1>6, NewsStill
<1>9. Messages'
  BY <1>2, <1>3, MessagesStill
<1>10. Starving'
  <2>1. Asked' = Asked /\ Answered' = Answered
    BY <1>2 DEF Asked, Answered, Announced
  <2>2. Cardinality(Asked) \in Nat /\ Cardinality(Answered) \in Nat
    <3>1. Asked \subseteq Conn /\ Answered \subseteq Conn
      BY DEF Asked, Answered
    <3> QED BY <3>1, ConnFinite
  <2>3. \A f \in End : /\ out[f].starving \in Nat /\ Len(out[f].mid) \in Nat /\ out'[f].starving \in Nat
                       /\ Len(out'[f].mid) \in Nat /\ passed[f] \in Nat /\ MaxStarving \in Nat
    <3>1. \A f \in End : out[f].starving \in Nat /\ Len(out[f].mid) \in Nat
      BY LinkTyped
    <3>2. \A f \in End : out'[f] \in Queues
      BY <1>3
    <3>3. ASSUME NEW f \in End PROVE out'[f].starving \in Nat /\ Len(out'[f].mid) \in Nat
      <4>1. PICK q : q = out'[f]
        OBVIOUS
      <4>2. q \in Queues
        BY <3>2, <4>1
      <4>3. q.starving \in Nat /\ q.mid \in Seq(Packet)
        BY <4>2 DEF Queues
      <4>4. Len(q.mid) \in Nat
        BY <4>3
      <4> QED BY <4>1, <4>3, <4>4
    <3>4. \A f \in End : passed[f] \in Nat
      BY DEF LinkTypes
    <3> QED BY <3>1, <3>3, <3>4, BoundAssumption
  <2>4. ASSUME NEW f \in End, NEW n \in Nat, out[f].starving + Len(out[f].mid) <= n
        PROVE  out'[f].starving + Len(out'[f].mid) <= n
    <3>1. PICK a \in Nat, b \in Nat, j \in Nat, k \in Nat :
             /\ a = out'[f].starving /\ b = Len(out'[f].mid) /\ j = out[f].starving /\ k = Len(out[f].mid)
      BY <2>3
    <3>2. a + b <= j + k /\ j + k <= n
      BY <1>3, <2>4, <3>1
    <3>3. a + b <= n
      BY <3>2
    <3> QED BY <3>1, <3>3
  <2>5. out'["A"].starving + Len(out'["A"].mid) <= Cardinality(Asked)
    BY <2>2, <2>4 DEF Starving
  <2>6. out'["B"].starving + Len(out'["B"].mid) <= Cardinality(Answered)
    BY <2>2, <2>4 DEF Starving
  <2>7. ASSUME NEW f \in End PROVE passed'[f] <= MaxStarving /\ (~mux'[f].closed => passed'[f] <= out'[f].starving)
    <3>1. passed[f] <= MaxStarving /\ (~mux[f].closed => passed[f] <= out[f].starving)
      BY DEF Starving
    <3>2. ~mux[f].closed \/ passed'[f] = passed[f]
      <4>1. CASE f = e
        BY <1>1, <4>1
      <4>2. CASE f # e
        <5>1. passed' = [passed EXCEPT ![e] = passed'[e]]
          BY DEF Send
        <5>2. passed \in [End -> Nat]
          BY DEF LinkTypes
        <5> QED BY <4>2, <5>1, <5>2
      <4> QED BY <4>1, <4>2
    <3>3. PICK j \in Nat, k \in Nat, m \in Nat, a \in Nat :
             j = passed[f] /\ k = out[f].starving /\ m = MaxStarving /\ a = out'[f].starving
      BY <2>3
    <3>4. PICK b : b = passed'[f]
      OBVIOUS
    <3>5. /\ j <= m /\ (~mux[f].closed => j <= k)
          /\ b = 0 \/ (b = j /\ a = k) \/ (b = j + 1 /\ a = k + 1 /\ k < m)
          /\ ~mux[f].closed \/ b = j
      BY <1>3, <3>1, <3>2, <3>3, <3>4
    <3>6. b <= m /\ (~mux[f].closed => b <= a)
      BY <3>5
    <3> QED BY <1>2, <3>3, <3>6, <3>4
  <2> QED BY <2>1, <2>5, <2>6, <2>7 DEF Starving
<1>11. Bounds'
  BY <1>2 DEF Bounds
<1> QED BY <1>3, <1>4, <1>5, <1>7, <1>8, <1>9, <1>10, <1>11 DEF LinkInv

(* The link begins in the invariant.                                       *)
LEMMA LinkInitInv == Init => LinkInv
<1> SUFFICES ASSUME Init PROVE LinkInv
  OBVIOUS
<1> USE Ends2
<1>1. Opens \in Nat /\ FirstId \in Nat /\ MaxId \in Nat /\ Ticks \in Nat /\ Closers \in Nat /\ MaxStarving \in Nat
  BY OpensAssumption, BoundAssumption
<1>2. /\ id = FirstId
      /\ \A c \in Conn : caller[c].pc = "start" /\ caller[c].id = 0
      /\ \A e \in End, i \in Id : table[e][i] = 0
      /\ \A e \in End, c \in Conn : conn[e][c] = "none" /\ sent[e][c] = 0 /\ got[e][c] = 0
      /\ \A e \in End : /\ out[e] = Empty /\ wire[e] = <<>> /\ reader[e] = 0 /\ passed[e] = 0
                        /\ mux[e] = [closed |-> FALSE, checked |-> 0, stored |-> 0, shut |-> FALSE, panic |-> FALSE]
      /\ backlog = <<>> /\ accept = [pc |-> "pop", conn |-> 0, id |-> 0] /\ ping = [check |-> 0, ticks |-> 0]
      /\ lost = {}
  BY DEF Init
<1>3. Empty \in Queues /\ Empty.mid = <<>> /\ Empty.low = <<>> /\ Empty.starving = 0 /\ \A S : <<>> \in Seq(S)
  BY EmptyIn DEF Empty, Queues
<1>4. LinkTypes
  <2>1. /\ id \in {0} \cup Id
        /\ caller \in [Conn -> [pc : {"start", "wrap", "take", "set", "send", "wait", "open", "failed"}, id : {0} \cup Id]]
        /\ table \in [End -> [Id -> 0 .. Opens]]
    BY <1>1, OpensAssumption DEF Init, Id
  <2>2. /\ conn \in [End -> [Conn -> {"none", "made", "open", "closing", "closed"}]]
        /\ sent \in [End -> [Conn -> 0 .. 1]]
        /\ got \in [End -> [Conn -> Nat]]
        /\ out \in [End -> Queues]
        /\ wire \in [End -> Seq(Packs2)]
        /\ link \in BOOLEAN
    BY <1>3 DEF Init
  <2>3. /\ reader \in [End -> 0 .. Opens] /\ reader["B"] = 0
        /\ backlog \in Seq(Packet)
        /\ accept \in [pc : {"pop", "set", "deliver", "ok", "end"}, conn : 0 .. Opens, id : {0} \cup Id]
        /\ ping \in [check : 0 .. Ticks, ticks : 0 .. Ticks]
        /\ passed \in [End -> Nat]
    BY <1>1, <1>3 DEF Init
  <2>4. mux \in [End -> [closed : BOOLEAN, checked : 0 .. Closers, stored : 0 .. Closers, shut : BOOLEAN, panic : BOOLEAN]]
    BY <1>1 DEF Init
  <2> QED BY <2>1, <2>2, <2>3, <2>4 DEF LinkTypes
<1>5. /\ \A e \in End, p \in Packet : ~Way(e, p)
      /\ \A p : ~In(backlog, p)
  BY <1>2, <1>3, EmptyIn DEF Way
<1>6. Once
  <2>1. Sole(<<>>) /\ Len(<<>>) = 0 /\ \A q : ~In(<<>>, q)
    BY EmptyIn
  <2>2. \A e \in End : wire[e] = <<>> /\ out[e].mid = <<>> /\ out[e].low = <<>>
    BY <1>2, <1>3
  <2> QED BY <1>2, <2>1, <2>2 DEF Once
<1>7. IdsGiven
  <2>1. Taken = {}
    BY <1>2 DEF Taken
  <2>2. Cardinality(Taken) = 0
    BY <2>1, FS_EmptySet
  <2> QED BY <1>1, <1>2, <2>1, <2>2 DEF IdsGiven, Counting
<1>8. Tables
  BY <1>2 DEF Tables, Tabled, Had
<1>9. Packets
  BY <1>2, <1>5 DEF Packets
<1>10. News
  BY <1>2, <1>5 DEF News
<1>11. Messages
  BY <1>2, <1>5 DEF Messages
<1>12. Starving
  <2>1. Cardinality(Asked) \in Nat /\ Cardinality(Answered) \in Nat
    <3>1. Asked \subseteq Conn /\ Answered \subseteq Conn
      BY DEF Asked, Answered
    <3> QED BY <3>1, ConnFinite
  <2>2. \A e \in End : out[e].starving = 0 /\ Len(out[e].mid) = 0 /\ passed[e] = 0
    BY <1>2, <1>3, EmptyIn
  <2> QED BY <1>1, <2>1, <2>2 DEF Starving
<1>13. Bounds
  BY <1>1, <1>2 DEF Bounds
<1> QED BY <1>4, <1>6, <1>7, <1>8, <1>9, <1>10, <1>11, <1>12, <1>13 DEF LinkInv

(* Every step of the link keeps it.                                        *)
LEMMA LinkStep == ASSUME FewOpens, LinkInv, Next PROVE LinkInv'
<1>1. ASSUME NEW c \in Conn, Calling(c) PROVE LinkInv'
  BY <1>1, BeginOpenStep, WrapIdStep, TakeIdStep, SetConnStep, SendNewStep, OpenedStep, TimeOutStep DEF Calling
<1>2. CASE Accepting
  BY <1>2, PopNewStep, SetAcceptedStep, AcceptStep, SendOnClosedStep, OkSentStep DEF Accepting
<1>3. CASE Reading
  BY <1>3, ReadNewStep, ReadOkStep, ReadPingStep, ReadPongStep, ReadDataStep, ReadCloseStep DEF Reading
<1>4. CASE Tick
  BY <1>4, TickStep
<1>5. ASSUME NEW e \in End, Send(e) \/ Closing(e) PROVE LinkInv'
  BY <1>5, SendStep, CheckCloseStep, StoreCloseStep, FinishCloseStep DEF Closing
<1>6. ASSUME NEW e \in End, NEW c \in Conn, Write(e, c) \/ CloseConn(e, c) PROVE LinkInv'
  BY <1>6, WriteStep, CloseConnStep
<1> QED BY <1>1, <1>2, <1>3, <1>4, <1>5, <1>6 DEF Next

(* ... and so does a step that leaves the link alone.                      *)
LEMMA LinkStill == ASSUME LinkInv, UNCHANGED vars PROVE LinkInv'
<1>1. UNCHANGED <<opening, carrying, reader, backlog, accept, out, wire, passed, link, mux, ping>>
  BY DEF vars, queues, sessions
<1>2. LinkTypes' /\ Bounds'
  BY <1>1, InvParts DEF LinkTypes, Bounds, opening, carrying
<1> QED BY <1>1, <1>2, EndsStep

(* What the invariant says of the link's safety.                           *)
LEMMA LinkInvSafe == ASSUME LinkInv PROVE LinkSafe
<1> USE InvParts, Ends2
<1>1. TypeOK
  <2>1. got \in [End -> [Conn -> 0 .. 1]]
    <3>1. got \in [End -> [Conn -> Nat]] /\ sent \in [End -> [Conn -> 0 .. 1]]
      BY DEF LinkTypes
    <3>2. ASSUME NEW e \in End, NEW c \in Conn PROVE got[e][c] \in 0 .. 1
      <4>1. PICK f \in End : Other(f) = e
        OBVIOUS
      <4>2. got[e][c] <= sent[f][c]
        BY <4>1 DEF Messages
      <4>3. got[e][c] \in Nat /\ sent[f][c] \in 0 .. 1
        BY <3>1
      <4>4. PICK j \in Nat, k \in 0 .. 1 : j = got[e][c] /\ k = sent[f][c]
        BY <4>3
      <4>5. j <= k
        BY <4>2, <4>4
      <4>6. j \in 0 .. 1
        BY <4>5
      <4> QED BY <4>4, <4>6
    <3> QED BY <3>1, <3>2
  <2>2. out \in [End -> [high : Seq({Ping, Pong}), mid : Seq(Packet), low : Seq(Packet),
                         starving : 0 .. 2 * Opens + MaxStarving]]
    <3>0. Opens \in Nat /\ MaxStarving \in Nat
      BY OpensAssumption, BoundAssumption
    <3>1. Asked \subseteq Conn /\ Answered \subseteq Conn
      BY DEF Asked, Answered
    <3>2. PICK j \in Nat, k \in Nat : j = Cardinality(Asked) /\ k = Cardinality(Answered) /\ j <= Opens /\ k <= Opens
      BY <3>1, ConnFinite
    <3>3. ASSUME NEW e \in End PROVE out[e].starving \in 0 .. 2 * Opens + MaxStarving
      <4>1. out[e].starving \in Nat /\ Len(out[e].mid) \in Nat
        BY LinkTyped
      <4>2. out[e].starving + Len(out[e].mid) <= j \/ out[e].starving + Len(out[e].mid) <= k
        BY <3>2 DEF End, Starving
      <4>3. out[e].starving <= Opens
        BY <3>0, <3>2, <4>1, <4>2
      <4> QED BY <3>0, <4>1, <4>3
    <3>4. \A e \in End : out[e] \in Queues
      BY DEF LinkTypes
    <3>5. \A e \in End : out[e] \in [high : Seq({Ping, Pong}), mid : Seq(Packet), low : Seq(Packet),
                                     starving : 0 .. 2 * Opens + MaxStarving]
      BY <3>3, <3>4 DEF Queues
    <3> QED BY <3>5 DEF LinkTypes
  <2>3. lost \in SUBSET (End \X Conn)
    BY DEF Messages
  <2> QED BY <2>1, <2>2, <2>3 DEF TypeOK, LinkTypes, Packs2
<1>2. DistinctIds
  BY SameCall DEF DistinctIds
<1>3. Paired
  BY DEF Paired, Packets, Given
<1>4. NothingLost
  BY DEF NothingLost, Messages
<1>5. LowNotStarved
  BY DEF LowNotStarved, Starving
<1> QED BY <1>1, <1>2, <1>3, <1>4, <1>5 DEF LinkSafe

(* The link: two connections never share an id, what NewConn returns the   *)
(* other end was given, every message meets its connection, and data wait  *)
(* for a bounded number of openings, unless ids are asked for while the    *)
(* counter starts over (mux.go:96, 236, 366; queue.go:54).                 *)
THEOREM LinkKeeps == FewOpens => (MuxSpec => []LinkSafe)
<1> SUFFICES ASSUME FewOpens PROVE MuxSpec => []LinkSafe
  OBVIOUS
<1>1. MuxInit => LinkInv
  BY LinkInitInv DEF MuxInit
<1>2. LinkInv /\ [MuxNext]_<<part, vars, windowVars>> => LinkInv'
  <2> SUFFICES ASSUME LinkInv, [MuxNext]_<<part, vars, windowVars>> PROVE LinkInv'
    OBVIOUS
  <2>1. CASE Next
    BY <2>1, LinkStep
  <2>2. CASE UNCHANGED vars
    BY <2>2, LinkStill
  <2>3. QED BY <2>1, <2>2 DEF MuxNext
<1>3. LinkInv => LinkSafe
  BY LinkInvSafe
<1> QED BY <1>1, <1>2, <1>3, PTL DEF MuxSpec

=============================================================================
