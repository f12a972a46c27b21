------------------------------ MODULE Packets ------------------------------
(***************************************************************************)
(* What becomes of an IP packet on its way through the programs that       *)
(* change it: the client's NAT and its delivery of broadcasts              *)
(* (internal/client/nat.go) and the server's answer to a ping              *)
(* (internal/server/icmp.go).  They overwrite addresses and ports in place *)
(* and compute the checksums anew.                                         *)
(*                                                                         *)
(* A byte has B values, 256 in the code, and a word is two bytes.  Headers *)
(* are cut down to what is read or written: sport, dport and the checksum  *)
(* for UDP, two more bytes before it for TCP, type, code and checksum for  *)
(* ICMP.  The receivers are kernels: they verify what they get.            *)
(***************************************************************************)
EXTENDS Integers, Sequences, SequencesExt

CONSTANTS
    B,         \* values of a byte
    MaxData,   \* bound: bytes after the transport header
    self,      \* n.self, or the server's address: a word
    broadcast, \* of the network
    target,    \* of the rule
    other,     \* whoever sends
    vPort,     \* of the rule: a byte
    tPort      \* of its target

W    == B * B
Byte == 0 .. B - 1
Word == 0 .. W - 1
ICMP == 0
TCP  == 1
UDP  == 2

VARIABLES
    packet,  \* [proto, part: "whole" or a "rest" without transport header, src, dst, hsum, seg]
    place,   \* where it is
    sent     \* the packet as it was sent

packetVars == <<packet, place, sent>>

Hi(w) == w \div B
Lo(w) == w % B
WordAt(s, i) == s[i] * B + s[i + 1]

(* parseIPv4 and ipv4HeaderLen: seg is what is there of the packet after   *)
(* its header.  Lengths of the transport headers (transportOK), and where  *)
(* they have their checksum.                                               *)
HeadLen(proto) == CASE proto = TCP -> 6 [] proto \in {UDP, ICMP} -> 4 [] OTHER -> 0
SumAt(proto)   == IF proto = TCP THEN 5 ELSE 3
Transport(p)   == Len(p.seg) >= HeadLen(p.proto)

-----------------------------------------------------------------------------
(* checksum: a last odd byte is the high one, and carries are added until  *)
(* there are none.                                                         *)

Words(buf) == [i \in 1 .. (Len(buf) + 1) \div 2 |->
                  B * buf[2 * i - 1] + (IF 2 * i <= Len(buf) THEN buf[2 * i] ELSE 0)]
Sum(buf)   == FoldSeq(LAMBDA x, y : x + y, 0, Words(buf))

(* Mutant of Carry: the carries are lost.                                  *)
CarryLost(n) == n % W

Folded[n \in Nat] == IF n < W THEN n ELSE Folded[(n % W) + (n \div W)]
Carry(n) == Folded[n]
checksum(buf) == W - 1 - Carry(Sum(buf))

Bytes(w)       == <<Hi(w), Lo(w)>>
Header(p)      == <<0, p.proto>> \o Bytes(p.hsum) \o Bytes(p.src) \o Bytes(p.dst)
Pseudo(p, seg) == Bytes(p.src) \o Bytes(p.dst) \o <<0, p.proto>> \o Bytes(Len(seg) % W) \o seg
Covered(p, seg) == IF p.proto = ICMP THEN seg ELSE Pseudo(p, seg)

PutSum(seg, proto, w) == [seg EXCEPT ![SumAt(proto)] = Hi(w), ![SumAt(proto) + 1] = Lo(w)]
HeaderSum(p) == [p EXCEPT !.hsum = checksum(Header([p EXCEPT !.hsum = 0]))]
SegSum(p)    == [p EXCEPT !.seg = PutSum(p.seg, p.proto, checksum(Covered(p, PutSum(p.seg, p.proto, 0))))]

(* Mutant of rewriteChecksums: takes a UDP packet whose checksum's high    *)
(* byte is even for one without (nat.go:304 tells of it).                  *)
rewriteChecksumsHalf(p) ==
    LET q == HeaderSum(p)
    IN  IF \/ q.proto \notin {TCP, UDP}
           \/ q.proto = UDP /\ Transport(q) /\ q.seg[3] % 2 = 0
           \/ Len(q.seg) < SumAt(q.proto) + 1
        THEN q ELSE SegSum(q)

(* The zero checksum of UDP, none, stays.                                  *)
rewriteChecksums(p) ==
    LET q == HeaderSum(p)
    IN  IF \/ q.proto \notin {TCP, UDP}
           \/ q.proto = UDP /\ Transport(q) /\ WordAt(q.seg, 3) = 0
           \/ Len(q.seg) < SumAt(q.proto) + 1
        THEN q ELSE SegSum(q)

-----------------------------------------------------------------------------
(* What a kernel takes: by the definition of the sum, not its computation. *)

Good(buf) == Sum(buf) > 0 /\ Sum(buf) % (W - 1) = 0

Accepted(p) ==
    /\ Good(Header(p))
    /\ p.part = "whole" /\ p.proto \in {ICMP, TCP, UDP} =>
          \/ p.proto = UDP /\ WordAt(p.seg, 3) = 0
          \/ Good(Covered(p, p.seg))

Data    == UNION {[1 .. n -> Byte] : n \in 0 .. MaxData}
Packet(proto, src, dst, seg) ==
    [proto |-> proto, part |-> "whole", src |-> src, dst |-> dst, hsum |-> 0, seg |-> seg]

(* A packet as a kernel sends it; UDP may be without checksum.             *)
Sealed(p)   == LET q == SegSum(HeaderSum(p))
               IN  IF q.proto = UDP /\ WordAt(q.seg, 3) = 0
                   THEN [q EXCEPT !.seg = PutSum(q.seg, UDP, W - 1)] ELSE q
Unsummed(p) == LET q == HeaderSum(p) IN [q EXCEPT !.seg = PutSum(q.seg, UDP, 0)]

Send(p) ==
    /\ place = "none"
    /\ packet' = p /\ sent' = p
    /\ place' = "sent"

SendWhole ==
    \E d \in Data, dst \in {self, broadcast}, port \in {vPort, tPort}, sport \in {0, B - 1} :
       \/ Send(Sealed(Packet(UDP, other, dst, <<sport, port, 0, 0>> \o d)))
       \/ Send(Unsummed(Packet(UDP, other, dst, <<sport, port, 0, 0>> \o d)))
       \/ Send(Sealed(Packet(TCP, other, dst, <<sport, port, B - 1, 1, 0, 0>> \o d)))
       \/ Send(Sealed(Packet(ICMP, other, dst, <<sport, 0, 0, 0>> \o d)))

(* Too short for its protocol, or a later fragment.                        *)
SendPart ==
    \E proto \in {TCP, UDP}, seg \in Data, dst \in {self, broadcast}, part \in {"whole", "rest"} :
       /\ part = "whole" => Len(seg) < HeadLen(proto)
       /\ Send(HeaderSum([Packet(proto, other, dst, seg) EXCEPT !.part = part]))

-----------------------------------------------------------------------------
(* The NAT.                                                                *)

Port(p, i) == IF Len(p.seg) < 2 THEN 0 ELSE p.seg[i]
Hit(p)     == /\ p.proto \in {TCP, UDP} /\ p.dst = self
              /\ Port(p, 2) = vPort /\ Transport(p)

DNAT ==
    /\ place = "sent"
    /\ IF Hit(packet)
       THEN /\ packet' = rewriteChecksums([packet EXCEPT !.dst = target, !.seg[2] = tPort])
            /\ place' = "target"
       ELSE packet.dst = self /\ place' = "self" /\ UNCHANGED packet
    /\ UNCHANGED sent

(* The target's answer, with data of its own.                              *)
Answer ==
    /\ place = "target" /\ packet.part = "whole"
    /\ \E d \in Data :
          LET p == Sealed([packet EXCEPT !.src = target, !.dst = other,
                                         !.seg = <<tPort, packet.seg[1]>>
                                                 \o SubSeq(packet.seg, 3, HeadLen(packet.proto)) \o d])
          IN  packet' = p /\ sent' = p
    /\ place' = "answered"

SNAT ==
    /\ place = "answered"
    /\ packet' = rewriteChecksums([packet EXCEPT !.src = self, !.seg[1] = vPort])
    /\ place' = "returned"
    /\ UNCHANGED sent

(* rewriteDstToSelf: a broadcast is delivered as a packet to this device.  *)
Broadcast ==
    /\ place = "sent" /\ packet.dst = broadcast
    /\ packet' = rewriteChecksums([packet EXCEPT !.dst = self])
    /\ place' = "self"
    /\ UNCHANGED sent

(* echoReply.                                                              *)
EchoReply ==
    /\ place = "sent"
    /\ packet.proto = ICMP /\ packet.part = "whole" /\ Transport(packet)
    /\ packet.dst = self /\ packet.seg[1] = B - 1 /\ packet.seg[2] = 0
    /\ packet' = HeaderSum(SegSum([packet EXCEPT !.src = self, !.dst = packet.src, !.seg[1] = 0]))
    /\ place' = "replied"
    /\ UNCHANGED sent

PacketNext ==
    \/ SendWhole \/ SendPart
    \/ DNAT \/ Answer \/ SNAT \/ Broadcast \/ EchoReply

PacketInit ==
    /\ packet = Packet(UDP, other, self, <<>>) /\ sent = packet
    /\ place = "none"

PacketSpec == PacketInit /\ [][PacketNext]_packetVars

-----------------------------------------------------------------------------
(* Types (nat.go:190).                                                     *)
PacketTypeOK ==
    /\ place \in {"none", "sent", "target", "answered", "returned", "self", "replied"}
    /\ packet.proto \in Byte /\ packet.part \in {"whole", "rest"}
    /\ {packet.src, packet.dst, packet.hsum} \subseteq Word
    /\ \A i \in DOMAIN packet.seg : packet.seg[i] \in Byte

Whole(p) == p.part = "whole" /\ Transport(p)
Body(p)  == SubSeq(p.seg, HeadLen(p.proto) + 1, Len(p.seg))

(* Whoever gets a packet that was changed on the way accepts it, whatever  *)
(* its data, its sum and its carries, and finds the data it was sent with; *)
(* a packet too short for its protocol goes through as it came (nat.go:286,*)
(* icmp.go:34).                                                            *)
PacketAccepted ==
    /\ Whole(sent) => Accepted(packet) /\ Body(packet) = Body(sent)
    /\ sent.part = "whole" /\ ~Transport(sent) => packet.seg = sent.seg

(* A later fragment is carried through: it has no header to rewrite        *)
(* (nat.go:336, a broadcast is delivered to this device).                  *)
PartsIntact == sent.part = "rest" => packet.seg = sent.seg
=============================================================================
