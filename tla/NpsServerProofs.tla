--------------------------- MODULE NpsServerProofs --------------------------
(***************************************************************************)
(* Proofs about the parts of the embedded NPS, each for any values of the  *)
(* constants: the counting and closing of connections, the streams of a    *)
(* kept-alive HTTP connection, UDP sessions, certificates, the direct path *)
(* and the targets in use.                                                 *)
(***************************************************************************)
EXTENDS MCNpsServer, FiniteSetTheorems, TLAPS

-----------------------------------------------------------------------------
(* UDP tunnels.                                                            *)

(* Sessions that have taken a connection of the client and not given it    *)
(* back.                                                                   *)
Counted == {s \in Udp!Session : session[s].pc \in {"link", "loop", "release"}}

(* The session in the map has a builder that has not left; one that is     *)
(* about to leave takes it out first; and whoever waits for a session that *)
(* has had its answer has been woken.                                      *)
Built ==
    /\ addrMap # Udp!None => addrMap <= made /\ session[addrMap].pc \notin {"none", "gone"}
    /\ \A s \in Udp!Session : s > made => session[s].pc = "none"
    /\ \A s \in Udp!Session : session[s].pc \in {"loop", "release", "gone"} => session[s].ready # "no"
    /\ addrMap # Udp!None /\ session[addrMap].pc = "release" => <<"run", addrMap>> \in removers

(* A packet that waits or writes does so for a session.                    *)
Found == \A p \in Packet : packet[p].pc \in {"dispatch", "write"} => packet[p].s \in Udp!Session

UdpInv == Udp!UdpTypeOK /\ Built /\ Found /\ udpConns = Cardinality(Counted)

LEMMA UdpInitInv == Udp!UdpInit => UdpInv
<1> SUFFICES ASSUME Udp!UdpInit PROVE UdpInv
  OBVIOUS
<1>1. Counted = {}
  BY DEF Counted, Udp!UdpInit
<1>2. Udp!UdpTypeOK
  BY DEF Udp!UdpInit, Udp!UdpTypeOK, Udp!None, Udp!Session
<1>3. Built /\ Found
  BY DEF Built, Found, Udp!UdpInit, Udp!None, Udp!Session
<1>4. QED BY <1>1, <1>2, <1>3, FS_EmptySet DEF UdpInv, Udp!UdpInit

(* The sessions are finitely many.                                         *)
LEMMA CountedFinite ==
    /\ IsFiniteSet(Counted)
    /\ Cardinality(Counted) \in Nat
<1>1. MaxSession \in Nat
  BY BoundAssumption
<1>2. IsFiniteSet(Udp!Session)
  BY <1>1, FS_Interval DEF Udp!Session
<1>3. Counted \subseteq Udp!Session
  BY DEF Counted
<1>4. QED BY <1>2, <1>3, FS_Subset, FS_CardinalityType

UdpSession ==
    [pc : {"none", "check", "link", "loop", "release", "gone"}, target : {"none", "open", "closed"},
     ready : {"no", "ok", "err"}, idle : BOOLEAN]

(* What is left when one session becomes r: if r counts as the session did *)
(* the number of those that count is the same.                             *)
LEMMA OneSession ==
    ASSUME UdpInv, NEW s \in Udp!Session, NEW r \in UdpSession, Udp!Sess(s, r)
    PROVE  /\ session' \in [Udp!Session -> UdpSession]
           /\ session'[s] = r
           /\ \A t \in Udp!Session \ {s} : session'[t] = session[t]
           /\ r.pc \in {"link", "loop", "release"} <=> session[s].pc \in {"link", "loop", "release"}
              => Counted' = Counted
<1>1. session \in [Udp!Session -> UdpSession]
  BY DEF UdpInv, Udp!UdpTypeOK, UdpSession
<1>2. /\ session' \in [Udp!Session -> UdpSession]
      /\ session'[s] = r
      /\ \A t \in Udp!Session \ {s} : session'[t] = session[t]
  BY <1>1 DEF Udp!Sess
<1>3. QED BY <1>2 DEF Counted

(* The steps of a packet that leave the sessions alone.                    *)
LEMMA PacketStep ==
    ASSUME UdpInv, NEW p \in Packet, NEW k \in {"load", "claim", "dispatch", "write", "done"},
           NEW s \in Udp!Session \cup {Udp!None}, Udp!Pack(p, k, s),
           k \in {"dispatch", "write"} => s # Udp!None,
           UNCHANGED <<session, made, addrMap, removers, shut, udpConns>>
    PROVE  UdpInv'
<1> USE DEF UdpInv
<1>1. Udp!UdpTypeOK'
  BY DEF Udp!UdpTypeOK, Udp!Pack
<1>2. Found'
  BY DEF Found, Udp!Pack, Udp!UdpTypeOK
<1>3. Built' /\ (udpConns = Cardinality(Counted))'
  BY DEF Built, Counted
<1>4. QED BY <1>1, <1>2, <1>3

PacketType == [Packet -> [pc : {"idle", "load", "claim", "dispatch", "write", "done"}, s : Udp!Session \cup {Udp!None}]]
RemoverType(R) == \A r \in R : r[1] \in Packet \cup {"sweeper", "close", "run"} /\ r[2] \in Udp!Session

(* A step that changes one session: what it has to respect.                *)
LEMMA SessionStep ==
    ASSUME UdpInv, NEW s \in Udp!Session, NEW r \in UdpSession, Udp!Sess(s, r),
           session[s].pc = "none" => r.pc = "none",
           r.pc \in {"loop", "release", "gone"} => r.ready # "no",
           addrMap' \in {addrMap, Udp!None}, addrMap' # Udp!None => removers \subseteq removers',
           addrMap' = s => r.pc \notin {"none", "gone"} /\ (r.pc = "release" => <<"run", s>> \in removers'),
           udpConns' = Cardinality(Counted'),
           made' = made, RemoverType(removers'), shut' \in {"no", "range", "listener", "done"},
           \/ packet' = packet
           \/ \E p \in Packet : Udp!Pack(p, "done", Udp!None)
    PROVE  UdpInv'
<1> USE DEF UdpInv
<1>1. /\ made \in Udp!Session \cup {Udp!None} /\ addrMap \in Udp!Session \cup {Udp!None}
      /\ Udp!None \notin Udp!Session /\ packet \in PacketType /\ udpConns \in Nat
  BY DEF Udp!UdpTypeOK, Udp!None, Udp!Session, PacketType
<1>2. /\ session' \in [Udp!Session -> UdpSession] /\ session'[s] = r
      /\ \A t \in Udp!Session \ {s} : session'[t] = session[t]
  BY OneSession
<1>3. packet' \in PacketType /\ Found'
  <2>1. CASE packet' = packet
    BY <1>1, <2>1 DEF Found
  <2>2. ASSUME NEW p \in Packet, Udp!Pack(p, "done", Udp!None) PROVE packet' \in PacketType /\ Found'
    BY <1>1, <2>2 DEF Found, PacketType, Udp!Pack
  <2>3. QED BY <2>1, <2>2
<1>4. Counted' \subseteq Udp!Session /\ MaxSession \in Nat
  BY BoundAssumption DEF Counted
<1>5. udpConns' \in Nat
  <2>1. IsFiniteSet(Udp!Session)
    BY <1>4, FS_Interval DEF Udp!Session
  <2>2. QED BY <1>4, <2>1, FS_Subset, FS_CardinalityType
<1>6. Udp!UdpTypeOK'
  BY <1>1, <1>2, <1>3, <1>5 DEF Udp!UdpTypeOK, PacketType, RemoverType, UdpSession
<1>7. Built'
  <2>1. ASSUME NEW t \in Udp!Session
        PROVE  /\ t > made => session'[t].pc = "none"
               /\ session'[t].pc \in {"loop", "release", "gone"} => session'[t].ready # "no"
    BY <1>2, <2>1 DEF Built
  <2>2. ASSUME addrMap' # Udp!None
        PROVE  /\ addrMap <= made /\ session'[addrMap].pc \notin {"none", "gone"}
               /\ session'[addrMap].pc = "release" => <<"run", addrMap>> \in removers'
    BY <1>1, <1>2, <2>2 DEF Built
  <2>3. QED BY <2>1, <2>2 DEF Built
<1>8. QED BY <1>3, <1>6, <1>7

(* ... and what it has to if the session goes on.                          *)
LEMMA SessionGoes ==
    ASSUME UdpInv, NEW s \in Udp!Session, NEW r \in UdpSession, Udp!Sess(s, r),
           r.pc = session[s].pc, r.ready = session[s].ready,
           addrMap' \in {addrMap, Udp!None}, addrMap' # Udp!None => removers \subseteq removers',
           udpConns' = udpConns,
           made' = made, RemoverType(removers'), shut' \in {"no", "range", "listener", "done"},
           \/ packet' = packet
           \/ \E p \in Packet : Udp!Pack(p, "done", Udp!None)
    PROVE  UdpInv'
<1>1. r.pc \in {"loop", "release", "gone"} => r.ready # "no"
  BY DEF UdpInv, Built
<1>2. addrMap' = s => r.pc \notin {"none", "gone"} /\ (r.pc = "release" => <<"run", s>> \in removers')
  BY DEF UdpInv, Built, Udp!None, Udp!Session
<1>3. Counted' = Counted
  BY OneSession
<1>4. udpConns' = Cardinality(Counted')
  BY <1>3 DEF UdpInv
<1>5. QED BY <1>1, <1>2, <1>4, SessionStep

(* removeSession's comparison: the session itself only loses its stream.   *)
LEMMA CloseGoes ==
    ASSUME UdpInv, NEW s \in Udp!Session
    PROVE  /\ Udp!Close(s) \in UdpSession
           /\ Udp!Close(s).pc = session[s].pc /\ Udp!Close(s).ready = session[s].ready
<1>1. session[s] \in UdpSession
  BY DEF UdpInv, Udp!UdpTypeOK, UdpSession
<1>2. QED BY <1>1 DEF Udp!Close, UdpSession

LEMMA CompareStep ==
    ASSUME UdpInv, NEW w \in Packet \cup {"sweeper", "close", "run"}, NEW s \in Udp!Session, Udp!Compare(w, s),
           made' = made, addrMap' = addrMap, udpConns' = udpConns, shut' \in {"no", "range", "listener", "done"},
           \/ packet' = packet
           \/ \E p \in Packet : Udp!Pack(p, "done", Udp!None)
    PROVE  UdpInv'
<1> DEFINE r == IF addrMap = s THEN session[s] ELSE Udp!Close(s)
<1>1. r \in UdpSession /\ r.pc = session[s].pc /\ r.ready = session[s].ready
  BY CloseGoes DEF UdpInv, Udp!UdpTypeOK, UdpSession
<1>2. Udp!Sess(s, r)
  BY DEF Udp!Compare
<1>3. removers \subseteq removers' /\ RemoverType(removers')
  BY DEF Udp!Compare, RemoverType, UdpInv, Udp!UdpTypeOK
<1> HIDE DEF r
<1>4. QED BY <1>1, <1>2, <1>3, SessionGoes

LEMMA UdpStep == UdpInv /\ Udp!UdpNext => UdpInv'
<1> SUFFICES ASSUME UdpInv, Udp!UdpNext PROVE UdpInv'
  OBVIOUS
<1> USE DEF UdpInv
<1>1. /\ packet \in [Packet -> [pc : {"idle", "load", "claim", "dispatch", "write", "done"},
                                s : Udp!Session \cup {Udp!None}]]
      /\ session \in [Udp!Session -> UdpSession]
      /\ made \in Udp!Session \cup {Udp!None} /\ addrMap \in Udp!Session \cup {Udp!None}
      /\ Udp!None \notin Udp!Session
  BY DEF Udp!UdpTypeOK, UdpSession, Udp!None, Udp!Session
<1>2. ASSUME NEW p \in Packet, Udp!Arrive(p) PROVE UdpInv'
  BY <1>2, PacketStep DEF Udp!Arrive
<1>3. ASSUME NEW p \in Packet, Udp!Load(p) PROVE UdpInv'
  <2>1. CASE addrMap = Udp!None
    BY <1>3, <2>1, PacketStep DEF Udp!Load
  <2>2. CASE addrMap # Udp!None
    BY <1>1, <1>3, <2>2, PacketStep DEF Udp!Load
  <2>3. QED BY <2>1, <2>2
<1>4. ASSUME NEW p \in Packet, Udp!Drop(p) PROVE UdpInv'
  BY <1>4, PacketStep DEF Udp!Drop
<1>5. ASSUME NEW p \in Packet, Udp!Woken(p) PROVE UdpInv'
  <2>1. packet[p].s \in Udp!Session
    BY <1>5 DEF Udp!Woken, Found
  <2>2. QED BY <1>1, <1>5, <2>1, PacketStep DEF Udp!Woken
<1>6. ASSUME NEW p \in Packet, Udp!LoadOrStore(p) PROVE UdpInv'
  <2>1. CASE addrMap # Udp!None
    BY <1>1, <1>6, <2>1, PacketStep DEF Udp!LoadOrStore
  <2>2. CASE addrMap = Udp!None
    <3> DEFINE r == [session[made + 1] EXCEPT !.pc = "check"]
    <3>1. /\ made < MaxSession /\ Udp!Pack(p, "done", Udp!None) /\ made' = made + 1
          /\ addrMap' = made + 1 /\ Udp!Sess(made + 1, r) /\ UNCHANGED <<removers, shut, udpConns>>
      BY <1>6, <2>2 DEF Udp!LoadOrStore
    <3>2. made + 1 \in Udp!Session /\ made + 1 > made /\ MaxSession \in Nat
      BY <1>1, <3>1, BoundAssumption DEF Udp!Session, Udp!None
    <3>3. session[made + 1].pc = "none" /\ session[made + 1] \in UdpSession
      BY <1>1, <3>2 DEF Built
    <3>4. r \in UdpSession /\ r.pc = "check"
      BY <3>3 DEF UdpSession
    <3> HIDE DEF r
    <3>5. /\ session' \in [Udp!Session -> UdpSession] /\ session'[made + 1] = r
          /\ \A t \in Udp!Session \ {made + 1} : session'[t] = session[t]
          /\ Counted' = Counted
      BY <3>1, <3>2, <3>3, <3>4, OneSession
    <3>6. Udp!UdpTypeOK'
      BY <3>1, <3>2, <3>5 DEF Udp!UdpTypeOK, Udp!Pack, UdpSession
    <3>7. Found'
      BY <1>1, <3>1 DEF Found, Udp!Pack
    <3>8. Built'
      BY <1>1, <3>1, <3>2, <3>4, <3>5 DEF Built, Udp!Session, Udp!None
    <3>9. QED BY <3>1, <3>5, <3>6, <3>7, <3>8
  <2>3. QED BY <2>1, <2>2
<1>7. ASSUME NEW s \in Udp!Session,
             NEW r \in UdpSession, Udp!Sess(s, r), r.pc = session[s].pc, r.ready = session[s].ready,
             UNCHANGED <<made, addrMap, removers, shut, udpConns>>,
             packet' = packet \/ \E p \in Packet : Udp!Pack(p, "done", Udp!None)
      PROVE  UdpInv'
  <2>1. RemoverType(removers') /\ shut' \in {"no", "range", "listener", "done"}
    BY <1>7 DEF RemoverType, Udp!UdpTypeOK
  <2>2. QED BY <1>7, <2>1, SessionGoes
<1>8. ASSUME NEW s \in Udp!Session, NEW i \in BOOLEAN
      PROVE  /\ [session[s] EXCEPT !.idle = i] \in UdpSession
             /\ [session[s] EXCEPT !.idle = i].pc = session[s].pc
             /\ [session[s] EXCEPT !.idle = i].ready = session[s].ready
  BY <1>1 DEF UdpSession
<1>9. ASSUME NEW p \in Packet, Udp!Write(p) PROVE UdpInv'
  <2>1. packet[p].s \in Udp!Session
    BY <1>9 DEF Udp!Write, Found
  <2>2. QED BY <1>7, <1>8, <1>9, <2>1 DEF Udp!Write
<1>10. ASSUME NEW s \in Udp!Session, Udp!Idle(s) \/ Udp!Answer(s) PROVE UdpInv'
  BY <1>7, <1>8, <1>10 DEF Udp!Idle, Udp!Answer
<1>11. ASSUME NEW p \in Packet, Udp!WriteFails(p) PROVE UdpInv'
  <2>1. packet[p].s \in Udp!Session /\ shut \in {"no", "range", "listener", "done"}
    BY <1>11 DEF Udp!WriteFails, Found, Udp!UdpTypeOK
  <2>2. QED BY <1>11, <2>1, CompareStep DEF Udp!WriteFails
<1>12. ASSUME NEW r \in removers, Udp!Delete(r[1], r[2]) PROVE UdpInv'
  <2>1. r[2] \in Udp!Session
    BY DEF Udp!UdpTypeOK
  <2>2. /\ Udp!Sess(r[2], Udp!Close(r[2])) /\ addrMap' = Udp!None /\ UNCHANGED <<packet, made, shut, udpConns>>
        /\ removers' \subseteq removers
    BY <1>12 DEF Udp!Delete
  <2>3. RemoverType(removers') /\ shut' \in {"no", "range", "listener", "done"}
    BY <2>2 DEF RemoverType, Udp!UdpTypeOK
  <2>4. QED BY <2>1, <2>2, <2>3, CloseGoes, SessionGoes
<1>13. CASE Udp!Sweep
  BY <1>1, <1>13, CompareStep DEF Udp!Sweep
<1>14. CASE Udp!CloseServer
  <2>1. CASE shut = "range" /\ shut' = "listener" /\ addrMap # Udp!None /\ Udp!Compare("close", addrMap)
    BY <1>1, <1>14, <2>1, CompareStep DEF Udp!CloseServer
  <2>2. CASE UNCHANGED <<removers, session>> /\ shut' \in {"range", "done"}
    <3>1. UNCHANGED <<packet, made, addrMap, udpConns>>
      BY <1>14 DEF Udp!CloseServer
    <3>2. Udp!UdpTypeOK'
      BY <2>2, <3>1 DEF Udp!UdpTypeOK
    <3>3. QED BY <2>2, <3>1, <3>2 DEF Built, Found, Counted
  <2>3. QED BY <1>14, <2>1, <2>2 DEF Udp!CloseServer
<1>15. ASSUME NEW s \in Udp!Session, Udp!CheckConns(s) PROVE UdpInv'
  <2> DEFINE r == [session[s] EXCEPT !.pc = "link"]
  <2>1. /\ session[s].pc = "check" /\ Udp!Sess(s, r) /\ udpConns' = udpConns + 1
        /\ UNCHANGED <<packet, made, addrMap, removers, shut>>
    BY <1>15 DEF Udp!CheckConns
  <2>2. r \in UdpSession /\ r.pc = "link"
    BY <1>1 DEF UdpSession
  <2> HIDE DEF r
  <2>3. session'[s] = r /\ \A t \in Udp!Session \ {s} : session'[t] = session[t]
    BY <2>1, <2>2, OneSession
  <2>4. Counted' = Counted \cup {s} /\ s \notin Counted
    BY <2>1, <2>2, <2>3 DEF Counted
  <2>5. udpConns' = Cardinality(Counted')
    BY <2>1, <2>4, CountedFinite, FS_AddElement
  <2>6. RemoverType(removers') /\ shut' \in {"no", "range", "listener", "done"}
    BY <2>1 DEF RemoverType, Udp!UdpTypeOK
  <2>7. QED BY <2>1, <2>2, <2>5, <2>6, SessionStep
<1>16. ASSUME NEW s \in Udp!Session, Udp!Release(s) PROVE UdpInv'
  <2> DEFINE r == [session[s] EXCEPT !.pc = "gone"]
  <2>1. /\ session[s].pc = "release" /\ <<"run", s>> \notin removers
        /\ Udp!Sess(s, r) /\ udpConns' = udpConns - 1
        /\ UNCHANGED <<packet, made, addrMap, removers, shut>>
    BY <1>16 DEF Udp!Release
  <2>2. r \in UdpSession /\ r.pc = "gone" /\ r.ready = session[s].ready /\ session[s].ready # "no"
    BY <1>1, <2>1 DEF UdpSession, Built
  <2> HIDE DEF r
  <2>3. session'[s] = r /\ \A t \in Udp!Session \ {s} : session'[t] = session[t]
    BY <2>1, <2>2, OneSession
  <2>4. Counted' = Counted \ {s} /\ s \in Counted
    BY <2>1, <2>2, <2>3 DEF Counted
  <2>5. udpConns' = Cardinality(Counted')
    BY <2>1, <2>4, CountedFinite, FS_RemoveElement
  <2>6. RemoverType(removers') /\ shut' \in {"no", "range", "listener", "done"} /\ addrMap # s
    BY <1>1, <2>1 DEF RemoverType, Udp!UdpTypeOK, Built
  <2>7. QED BY <2>1, <2>2, <2>5, <2>6, SessionStep
<1>17. ASSUME NEW s \in Udp!Session, Udp!FailBuild(s) PROVE UdpInv'
  <2> DEFINE r == [session[s] EXCEPT !.pc = IF @ = "check" THEN "gone" ELSE "release", !.ready = "err"]
  <2>1. /\ session[s].pc \in {"check", "link"} /\ Udp!Sess(s, r) /\ addrMap' = Udp!None
        /\ UNCHANGED <<packet, made, removers, shut, udpConns>>
    BY <1>17 DEF Udp!FailBuild
  <2>2. /\ r \in UdpSession /\ r.ready = "err"
        /\ r.pc = IF session[s].pc = "check" THEN "gone" ELSE "release"
    BY <1>1, <2>1 DEF UdpSession
  <2> HIDE DEF r
  <2>3. Counted' = Counted
    BY <2>1, <2>2, OneSession
  <2>4. RemoverType(removers') /\ shut' \in {"no", "range", "listener", "done"}
    BY <1>1, <2>1 DEF RemoverType, Udp!UdpTypeOK
  <2>5. udpConns' = Cardinality(Counted')
    BY <2>1, <2>3
  <2>6. QED BY <1>1, <2>1, <2>2, <2>4, <2>5, SessionStep
<1>18. ASSUME NEW s \in Udp!Session, Udp!Build(s) PROVE UdpInv'
  <2> DEFINE r == [session[s] EXCEPT !.pc = "loop", !.target = "open", !.ready = "ok"]
  <2>1. /\ session[s].pc = "link" /\ Udp!Sess(s, r)
        /\ UNCHANGED <<packet, made, addrMap, removers, shut, udpConns>>
    BY <1>18 DEF Udp!Build
  <2>2. r \in UdpSession /\ r.ready = "ok" /\ r.pc = "loop"
    BY <1>1 DEF UdpSession
  <2> HIDE DEF r
  <2>3. Counted' = Counted
    BY <2>1, <2>2, OneSession
  <2>4. RemoverType(removers') /\ shut' \in {"no", "range", "listener", "done"}
    BY <1>1, <2>1 DEF RemoverType, Udp!UdpTypeOK
  <2>5. udpConns' = Cardinality(Counted')
    BY <2>1, <2>3
  <2>6. QED BY <2>1, <2>2, <2>4, <2>5, SessionStep
<1>19. ASSUME NEW s \in Udp!Session, Udp!LoopEnds(s) PROVE UdpInv'
  <2> DEFINE q == IF addrMap = s THEN session[s] ELSE Udp!Close(s)
             r == [q EXCEPT !.pc = "release"]
  <2>1. /\ session[s].pc = "loop" /\ Udp!Sess(s, r)
        /\ removers' = IF addrMap = s THEN removers \cup {<<"run", s>>} ELSE removers
        /\ UNCHANGED <<packet, made, addrMap, shut, udpConns>>
    BY <1>19 DEF Udp!LoopEnds
  <2>2. q \in UdpSession /\ q.ready = session[s].ready /\ session[s].ready # "no"
    BY <1>1, <2>1, CloseGoes DEF Built
  <2>3. r \in UdpSession /\ r.ready # "no" /\ r.pc = "release"
    BY <2>2 DEF UdpSession
  <2> HIDE DEF r
  <2>4. Counted' = Counted
    BY <2>1, <2>3, OneSession
  <2>5. RemoverType(removers') /\ shut' \in {"no", "range", "listener", "done"}
    BY <1>1, <2>1 DEF RemoverType, Udp!UdpTypeOK
  <2>6. udpConns' = Cardinality(Counted')
    BY <2>1, <2>4
  <2>7. QED BY <2>1, <2>3, <2>5, <2>6, SessionStep
<1>20. QED
  BY <1>2, <1>3, <1>4, <1>5, <1>6, <1>9, <1>10, <1>11, <1>12, <1>13, <1>14, <1>15, <1>16, <1>17, <1>18, <1>19
     DEF Udp!UdpNext

LEMMA UdpStill == UdpInv /\ UNCHANGED udpVars => UdpInv'
BY DEF udpVars, UdpInv, Udp!UdpTypeOK, Built, Found, Counted

LEMMA UdpInvKeeps == UdpInv => Udp!SessionAlive
BY DEF UdpInv, Udp!UdpTypeOK, Built, Found, Udp!SessionAlive, Udp!Ready

-----------------------------------------------------------------------------
(* HTTPS hosts.                                                            *)

(* A listener in the map is of the certificate it is found under, and the  *)
(* one a connection has taken is of the connection's certificate.          *)
OwnListener ==
    /\ \A c \in Cert : httpsListenerMap[c] # 0 => listeners[httpsListenerMap[c]] = c
    /\ \A k \in Caller :
          /\ hello[k].pc # "idle" => hello[k].site \in Site /\ hello[k].cert \in Cert
          /\ hello[k].pc \in {"store", "storeCert", "served"} => hello[k].l # 0
          /\ hello[k].pc \in {"store", "storeCert", "hand", "served"} /\ hello[k].l # 0
                => listeners[hello[k].l] = hello[k].cert

HttpsInv == Https!HttpsTypeOK /\ OwnListener

HelloType(n) ==
    [pc : {"idle", "sweep", "lookup", "store", "storeCert", "hand", "served"},
     site : Site \cup {0}, cert : Cert \cup {Https!NoCert}, l : 0 .. n]

(* What OwnListener says of one connection.                                *)
OwnHello(h, L) ==
    /\ h.pc # "idle" => h.site \in Site /\ h.cert \in Cert
    /\ h.pc \in {"store", "storeCert", "served"} => h.l # 0
    /\ h.pc \in {"store", "storeCert", "hand", "served"} /\ h.l # 0 => L[h.l] = h.cert

LEMMA HttpsInitInv == Https!HttpsInit => HttpsInv
<1> SUFFICES ASSUME Https!HttpsInit PROVE HttpsInv
  OBVIOUS
<1>1. Len(listeners) = 0 /\ listeners \in Seq(Cert) /\ 0 \in 0 .. MaxChange
  BY BoundAssumption DEF Https!HttpsInit
<1>2. Https!HttpsTypeOK
  <2>1. /\ siteCert \in [Site -> Cert \cup {Https!NoCert}]
        /\ hostIdCertMap \in [Site -> Cert \cup {Https!NoCert}] /\ panicked \in BOOLEAN
    BY DEF Https!HttpsInit
  <2>2. 0 \in 0 .. Len(listeners)
    BY <1>1
  <2>3. httpsListenerMap \in [Cert -> 0 .. Len(listeners)]
    BY <2>2 DEF Https!HttpsInit
  <2>4. hello \in [Caller -> HelloType(Len(listeners))]
    BY <2>2 DEF Https!HttpsInit, HelloType
  <2>5. QED BY <1>1, <2>1, <2>3, <2>4 DEF Https!HttpsInit, Https!HttpsTypeOK, Https!Made, HelloType
<1>3. OwnListener
  BY DEF Https!HttpsInit, OwnListener
<1>4. QED BY <1>2, <1>3 DEF HttpsInv

(* A step of one connection that makes at most one listener.               *)
LEMMA HelloStep ==
    ASSUME HttpsInv, NEW k \in Caller, NEW r, Https!Put(k, r),
           listeners' \in Seq(Cert), Len(listeners') >= Len(listeners),
           \A l \in 1 .. Len(listeners) : listeners'[l] = listeners[l],
           r \in HelloType(Len(listeners')), OwnHello(r, listeners'),
           siteCert' = siteCert, hostIdCertMap' \in [Site -> Cert \cup {Https!NoCert}],
           httpsListenerMap' \in [Cert -> 0 .. Len(listeners')],
           \A c \in Cert : httpsListenerMap'[c] # 0 => listeners'[httpsListenerMap'[c]] = c,
           changes' = changes, panicked' = panicked
    PROVE  HttpsInv'
<1> USE DEF HttpsInv
<1>1. /\ hello \in [Caller -> HelloType(Len(listeners))] /\ listeners \in Seq(Cert)
      /\ Len(listeners) \in Nat /\ Len(listeners') \in Nat
  BY DEF Https!HttpsTypeOK, HelloType, Https!Made
<1>2. \A j \in Caller : OwnHello(hello[j], listeners) /\ hello[j] \in HelloType(Len(listeners))
  BY <1>1 DEF OwnListener, OwnHello
<1>3. ASSUME NEW j \in Caller
      PROVE  OwnHello(hello[j], listeners') /\ hello[j] \in HelloType(Len(listeners'))
  <2>1. hello[j].l \in 0 .. Len(listeners)
    BY <1>2 DEF HelloType
  <2>2. hello[j].l # 0 => listeners'[hello[j].l] = listeners[hello[j].l]
    BY <2>1
  <2>3. 0 .. Len(listeners) \subseteq 0 .. Len(listeners')
    BY <1>1
  <2>4. OwnHello(hello[j], listeners')
    BY <1>2, <2>2 DEF OwnHello
  <2>5. QED BY <1>2, <2>3, <2>4 DEF HelloType
<1>4. hello' \in [Caller -> HelloType(Len(listeners'))] /\ \A j \in Caller : OwnHello(hello'[j], listeners')
  <2>1. hello' = [j \in Caller |-> IF j = k THEN r ELSE hello[j]]
    BY <1>1 DEF Https!Put
  <2>2. QED BY <1>3, <2>1
<1>5. Https!HttpsTypeOK'
  BY <1>4 DEF Https!HttpsTypeOK, HelloType, Https!Made
<1>6. OwnListener'
  BY <1>4 DEF OwnListener, OwnHello
<1>7. QED BY <1>5, <1>6

LEMMA HttpsStep == HttpsInv /\ Https!HttpsNext => HttpsInv'
<1> SUFFICES ASSUME HttpsInv, Https!HttpsNext PROVE HttpsInv'
  OBVIOUS
<1> USE DEF HttpsInv
<1>1. /\ hello \in [Caller -> HelloType(Len(listeners))] /\ listeners \in Seq(Cert) /\ Len(listeners) \in Nat
      /\ siteCert \in [Site -> Cert \cup {Https!NoCert}] /\ hostIdCertMap \in [Site -> Cert \cup {Https!NoCert}]
      /\ httpsListenerMap \in [Cert -> 0 .. Len(listeners)]
      /\ \A c \in Cert : httpsListenerMap[c] # 0 => listeners[httpsListenerMap[c]] = c
  BY DEF Https!HttpsTypeOK, HelloType, Https!Made, OwnListener
<1>2. ASSUME NEW k \in Caller
      PROVE  /\ hello[k] \in HelloType(Len(listeners)) /\ OwnHello(hello[k], listeners)
             /\ hello[k].pc # "idle" => hello[k].site \in Site /\ hello[k].cert \in Cert
  BY <1>1 DEF OwnListener, OwnHello
<1>3. ASSUME NEW k \in Caller, NEW q \in {"lookup", "storeCert", "hand", "served"}
      PROVE  /\ [hello[k] EXCEPT !.pc = q] \in HelloType(Len(listeners))
             /\ [hello[k] EXCEPT !.pc = q].pc = q
             /\ [hello[k] EXCEPT !.pc = q].site = hello[k].site
             /\ [hello[k] EXCEPT !.pc = q].cert = hello[k].cert
             /\ [hello[k] EXCEPT !.pc = q].l = hello[k].l
  BY <1>2 DEF HelloType
<1>4. ASSUME NEW s \in Site, NEW c \in Cert \cup {Https!NoCert}, Https!ChangeHost(s, c) PROVE HttpsInv'
  <2>1. /\ siteCert' = [siteCert EXCEPT ![s] = c] /\ changes < MaxChange /\ changes' = changes + 1
        /\ UNCHANGED <<hostIdCertMap, httpsListenerMap, listeners, hello, panicked>>
    BY <1>4 DEF Https!ChangeHost
  <2>2. changes' \in 0 .. MaxChange
    BY <2>1, BoundAssumption DEF Https!HttpsTypeOK
  <2>3. siteCert' \in [Site -> Cert \cup {Https!NoCert}]
    BY <1>1, <2>1
  <2>4. QED BY <2>1, <2>2, <2>3 DEF Https!HttpsTypeOK, OwnListener, Https!Made
<1>5. ASSUME NEW k \in Caller, NEW s \in Site, Https!Hello(k, s) PROVE HttpsInv'
  <2> DEFINE r == [pc |-> "sweep", site |-> s, cert |-> siteCert[s], l |-> 0]
  <2>1. /\ Https!Put(k, r) /\ siteCert[s] # Https!NoCert
        /\ UNCHANGED <<siteCert, hostIdCertMap, httpsListenerMap, listeners, changes, panicked>>
    BY <1>5 DEF Https!Hello
  <2>2. r \in HelloType(Len(listeners)) /\ OwnHello(r, listeners)
    BY <1>1, <2>1 DEF HelloType, OwnHello
  <2> HIDE DEF r
  <2>3. QED BY <1>1, <2>1, <2>2, HelloStep
<1>6. ASSUME NEW k \in Caller, Https!SweepHosts(k) PROVE HttpsInv'
  <2> DEFINE r == [hello[k] EXCEPT !.pc = "lookup"]
  <2>1. /\ Https!Put(k, r) /\ hello[k].pc = "sweep" /\ UNCHANGED <<siteCert, listeners, changes, panicked>>
        /\ httpsListenerMap' = [c \in Cert |-> IF \E s \in Https!Dead : hostIdCertMap[s] = c THEN 0
                                              ELSE httpsListenerMap[c]]
        /\ hostIdCertMap' = [s \in Site |-> IF s \in Https!Dead THEN Https!NoCert ELSE hostIdCertMap[s]]
    BY <1>6 DEF Https!SweepHosts, Https!Is
  <2>2. /\ hostIdCertMap' \in [Site -> Cert \cup {Https!NoCert}]
        /\ httpsListenerMap' \in [Cert -> 0 .. Len(listeners)]
        /\ \A c \in Cert : httpsListenerMap'[c] \in {0, httpsListenerMap[c]}
    BY <1>1, <2>1
  <2>3. r \in HelloType(Len(listeners)) /\ OwnHello(r, listeners)
    BY <1>2, <1>3, <2>1 DEF OwnHello
  <2> HIDE DEF r
  <2>4. \A c \in Cert : httpsListenerMap'[c] # 0 => listeners[httpsListenerMap'[c]] = c
    BY <1>1, <2>2
  <2>5. /\ listeners' = listeners /\ Len(listeners') >= Len(listeners)
        /\ siteCert' = siteCert /\ changes' = changes /\ panicked' = panicked /\ Https!Put(k, r)
    BY <1>1, <2>1
  <2>6. QED BY <1>1, <2>2, <2>3, <2>4, <2>5, HelloStep
<1>7. ASSUME NEW k \in Caller, Https!Known(k) PROVE HttpsInv'
  <2> DEFINE r == [hello[k] EXCEPT !.pc = "hand", !.l = httpsListenerMap[hello[k].cert]]
  <2>1. /\ Https!Put(k, r) /\ hello[k].pc = "lookup"
        /\ UNCHANGED <<siteCert, hostIdCertMap, httpsListenerMap, listeners, changes, panicked>>
    BY <1>7 DEF Https!Known, Https!Is
  <2>2. hello[k].site \in Site /\ hello[k].cert \in Cert /\ httpsListenerMap[hello[k].cert] \in 0 .. Len(listeners)
    BY <1>1, <1>2, <2>1
  <2>3. /\ r \in HelloType(Len(listeners)) /\ r.pc = "hand" /\ r.l = httpsListenerMap[hello[k].cert]
        /\ r.site = hello[k].site /\ r.cert = hello[k].cert
    BY <1>2, <2>2 DEF HelloType
  <2> HIDE DEF r
  <2>4. OwnHello(r, listeners)
    BY <1>1, <2>2, <2>3 DEF OwnHello
  <2>5. QED BY <1>1, <2>1, <2>3, <2>4, HelloStep
<1>8. ASSUME NEW k \in Caller, Https!Renew(k) \/ Https!First(k) PROVE HttpsInv'
  <2> DEFINE r == [hello[k] EXCEPT !.pc = "store", !.l = Len(listeners) + 1]
  <2>1. /\ Https!Put(k, r) /\ hello[k].pc = "lookup" /\ listeners' = Append(listeners, hello[k].cert)
        /\ UNCHANGED <<siteCert, hostIdCertMap, changes, panicked>>
        /\ \/ httpsListenerMap' = httpsListenerMap
           \/ httpsListenerMap' = [httpsListenerMap EXCEPT ![hostIdCertMap[hello[k].site]] = 0]
    BY <1>8 DEF Https!Renew, Https!First, Https!Is, Https!Made
  <2>2. hello[k].site \in Site /\ hello[k].cert \in Cert
    BY <1>2, <2>1
  <2>3. /\ listeners' \in Seq(Cert) /\ Len(listeners') = Len(listeners) + 1
        /\ listeners'[Len(listeners) + 1] = hello[k].cert
        /\ \A l \in 1 .. Len(listeners) : listeners'[l] = listeners[l]
    BY <1>1, <2>1, <2>2
  <2>4. /\ r \in HelloType(Len(listeners')) /\ r.pc = "store" /\ r.l = Len(listeners) + 1
        /\ r.site = hello[k].site /\ r.cert = hello[k].cert
    <3>1. Len(listeners) + 1 \in 0 .. Len(listeners')
      BY <1>1, <2>3
    <3>2. QED BY <1>2, <3>1 DEF HelloType
  <2> HIDE DEF r
  <2>5. OwnHello(r, listeners')
    BY <1>1, <2>2, <2>3, <2>4 DEF OwnHello
  <2>6. \A c \in Cert : httpsListenerMap'[c] \in {0, httpsListenerMap[c]}
    BY <1>1, <2>1
  <2>7. httpsListenerMap' \in [Cert -> 0 .. Len(listeners')]
    <3>1. 0 .. Len(listeners) \subseteq 0 .. Len(listeners') /\ 0 \in 0 .. Len(listeners')
      BY <1>1, <2>3
    <3>2. QED BY <1>1, <2>1, <3>1
  <2>8. ASSUME NEW c \in Cert, httpsListenerMap'[c] # 0 PROVE listeners'[httpsListenerMap'[c]] = c
    <3>1. httpsListenerMap'[c] = httpsListenerMap[c] /\ httpsListenerMap[c] \in 1 .. Len(listeners)
      BY <1>1, <2>6, <2>8
    <3>2. QED BY <1>1, <2>3, <2>8, <3>1
  <2>9. /\ Len(listeners') >= Len(listeners) /\ Https!Put(k, r) /\ siteCert' = siteCert
        /\ hostIdCertMap' \in [Site -> Cert \cup {Https!NoCert}] /\ changes' = changes /\ panicked' = panicked
    BY <1>1, <2>1, <2>3
  <2>10. QED BY <2>3, <2>4, <2>5, <2>7, <2>8, <2>9, HelloStep
<1>9. ASSUME NEW k \in Caller, Https!StoreListener(k) PROVE HttpsInv'
  <2> DEFINE r == [hello[k] EXCEPT !.pc = "storeCert"]
  <2>1. /\ Https!Put(k, r) /\ hello[k].pc = "store"
        /\ httpsListenerMap' = [httpsListenerMap EXCEPT ![hello[k].cert] = hello[k].l]
        /\ UNCHANGED <<siteCert, hostIdCertMap, listeners, changes, panicked>>
    BY <1>9 DEF Https!StoreListener, Https!Is
  <2>2. /\ hello[k].site \in Site /\ hello[k].cert \in Cert /\ hello[k].l \in 0 .. Len(listeners)
        /\ hello[k].l # 0 /\ listeners[hello[k].l] = hello[k].cert
    BY <1>2, <2>1 DEF OwnHello, HelloType
  <2>3. r \in HelloType(Len(listeners)) /\ OwnHello(r, listeners)
    BY <1>2, <1>3, <2>1, <2>2 DEF OwnHello
  <2> HIDE DEF r
  <2>4. /\ httpsListenerMap' \in [Cert -> 0 .. Len(listeners)]
        /\ \A c \in Cert : httpsListenerMap'[c] # 0 => listeners[httpsListenerMap'[c]] = c
    BY <1>1, <2>1, <2>2
  <2>5. QED BY <1>1, <2>1, <2>3, <2>4, HelloStep
<1>10. ASSUME NEW k \in Caller, Https!StoreCert(k) PROVE HttpsInv'
  <2> DEFINE r == [hello[k] EXCEPT !.pc = "hand"]
  <2>1. /\ Https!Put(k, r) /\ hello[k].pc = "storeCert"
        /\ hostIdCertMap' = [hostIdCertMap EXCEPT ![hello[k].site] = hello[k].cert]
        /\ UNCHANGED <<siteCert, httpsListenerMap, listeners, changes, panicked>>
    BY <1>10 DEF Https!StoreCert, Https!Is
  <2>2. hello[k].site \in Site /\ hello[k].cert \in Cert
    BY <1>2, <2>1
  <2>3. r \in HelloType(Len(listeners)) /\ OwnHello(r, listeners)
    BY <1>2, <1>3, <2>1, <2>2 DEF OwnHello
  <2> HIDE DEF r
  <2>4. hostIdCertMap' \in [Site -> Cert \cup {Https!NoCert}]
    BY <1>1, <2>1, <2>2
  <2>5. QED BY <1>1, <2>1, <2>3, <2>4, HelloStep
<1>11. ASSUME NEW k \in Caller, Https!HandOver(k) PROVE HttpsInv'
  <2>1. CASE hello[k].l = 0
    <3>1. /\ panicked' \in BOOLEAN
          /\ UNCHANGED <<siteCert, hostIdCertMap, httpsListenerMap, listeners, hello, changes>>
      BY <1>11, <2>1 DEF Https!HandOver
    <3>2. QED BY <3>1 DEF Https!HttpsTypeOK, OwnListener, Https!Made
  <2>2. CASE hello[k].l # 0
    <3> DEFINE r == [hello[k] EXCEPT !.pc = "served"]
    <3>1. /\ Https!Put(k, r) /\ hello[k].pc = "hand" /\ ~panicked /\ panicked' = FALSE
          /\ UNCHANGED <<siteCert, hostIdCertMap, httpsListenerMap, listeners, changes>>
      BY <1>11, <2>2 DEF Https!HandOver, Https!Is
    <3>2. panicked' = panicked
      BY <3>1 DEF Https!HttpsTypeOK
    <3>3. r \in HelloType(Len(listeners)) /\ OwnHello(r, listeners)
      BY <1>2, <1>3, <2>2, <3>1 DEF OwnHello
    <3> HIDE DEF r
    <3>4. QED BY <1>1, <3>1, <3>2, <3>3, HelloStep
  <2>3. QED BY <2>1, <2>2
<1>12. QED
  BY <1>4, <1>5, <1>6, <1>7, <1>8, <1>9, <1>10, <1>11 DEF Https!HttpsNext

LEMMA HttpsStill == HttpsInv /\ UNCHANGED httpsVars => HttpsInv'
BY DEF httpsVars, HttpsInv, Https!HttpsTypeOK, OwnListener, Https!Made

LEMMA HttpsInvKeeps == HttpsInv => Https!RightCert
BY DEF HttpsInv, OwnListener, Https!RightCert

-----------------------------------------------------------------------------
(* The direct path.                                                        *)

(* What is under way to an end and at the ports is about ends and attempts.*)
Addressed ==
    /\ answers \subseteq Ports \X Punch!End \X Punch!End
    /\ p2p \in [Ports -> Nat]
    /\ entry \in [Ports -> Seq(Punch!Provider \cup {Punch!None})]
    /\ polling \in [Ports -> SUBSET (Punch!Provider \X Nat)]

(* Nobody says that he has heard another before he has.                    *)
HeardFirst ==
    \A a, b \in Punch!End :
        /\ <<a, b, "success">> \in tests => <<a, b>> \in heard
        /\ <<a, b, "end">> \in tests => <<a, b>> \in heard /\ <<b, a>> \in heard

PunchInv == Punch!PunchTypeOK /\ Addressed /\ HeardFirst /\ Punch!Mutual

LEMMA PunchInitInv == Punch!PunchInit => PunchInv
<1> SUFFICES ASSUME Punch!PunchInit PROVE PunchInv
  OBVIOUS
<1>1. MaxTry \in Nat
  BY BoundAssumption
<1>2. Addressed
  BY DEF Punch!PunchInit, Addressed
<1>3. HeardFirst /\ Punch!Mutual
  BY DEF Punch!PunchInit, HeardFirst, Punch!Mutual
<1>4. \A s \in Ports : Len(entry[s]) = 0 /\ p2p[s] = 0 /\ polling[s] = {}
  BY DEF Punch!PunchInit
<1>5. Punch!PunchTypeOK
  BY <1>1, <1>4 DEF Punch!PunchInit, Punch!PunchTypeOK, Punch!Nothing
<1>6. QED BY <1>2, <1>3, <1>5 DEF PunchInv

(* The parts of PunchInv: the ends, ...                                    *)
PunchEnds ==
    /\ tries \in 0 .. MaxTry
    /\ pc \in [Punch!End -> {"no", "hung", "wait", "test", "closed"}]
    /\ got \in [Punch!End -> [Ports -> Punch!End \cup {Punch!None}]]
    /\ told \subseteq Punch!Provider
    /\ reports \subseteq Ports \X Punch!End \X Punch!Provider
    /\ answers \subseteq Ports \X Punch!End \X Punch!End

(* ... the ports, ...                                                      *)
PunchPorts ==
    /\ p2p \in [Ports -> Nat]
    /\ entry \in [Ports -> Seq(Punch!Provider \cup {Punch!None})]
    /\ polling \in [Ports -> SUBSET (Punch!Provider \X Nat)]
    /\ \A s \in Ports : /\ p2p[s] <= Len(entry[s])
                         /\ \A g \in polling[s] : g[2] \in 1 .. Len(entry[s])

(* ... and what was heard.                                                 *)
PunchHeard ==
    /\ HeardFirst /\ Punch!Mutual
    /\ result \in [Punch!End -> Punch!End \cup {Punch!None}]

LEMMA PunchParts == PunchInv <=> PunchEnds /\ PunchPorts /\ PunchHeard
<1>1. PunchInv => PunchEnds /\ PunchHeard
  BY DEF PunchInv, PunchEnds, PunchHeard, Punch!PunchTypeOK, Addressed
<1>2. PunchInv => PunchPorts
  <2> SUFFICES ASSUME PunchInv PROVE PunchPorts
    OBVIOUS
  <2>1. \A s \in Ports : Len(entry[s]) \in Nat
    BY DEF PunchInv, Addressed
  <2>2. QED BY <2>1 DEF PunchInv, PunchPorts, Punch!PunchTypeOK, Addressed
<1>3. PunchEnds /\ PunchPorts /\ PunchHeard => PunchInv
  <2> SUFFICES ASSUME PunchEnds, PunchPorts, PunchHeard PROVE PunchInv
    OBVIOUS
  <2>1. \A s \in Ports : Len(entry[s]) \in Nat /\ p2p[s] \in Nat
    BY DEF PunchPorts
  <2>2. \A s \in Ports : p2p[s] \in 0 .. Len(entry[s])
    BY <2>1 DEF PunchPorts
  <2>3. QED BY <2>2 DEF PunchEnds, PunchPorts, PunchHeard, PunchInv, Punch!PunchTypeOK, Addressed
<1>4. QED BY <1>1, <1>2, <1>3

LEMMA PunchEndsStep == PunchInv /\ Punch!PunchNext => PunchEnds'
<1> SUFFICES ASSUME PunchEnds, PunchPorts, Punch!PunchNext PROVE PunchEnds'
  BY PunchParts
<1> USE DEF PunchEnds
<1>1. MaxTry \in Nat /\ Punch!Provider \subseteq Punch!End /\ Punch!Asking \in Punch!End
      /\ Punch!Nothing \in [Ports -> Punch!End \cup {Punch!None}]
  BY BoundAssumption DEF Punch!End, Punch!Nothing
<1>2. ASSUME NEW e \in Punch!End, NEW n \in Punch!Provider, Punch!Report(e, n)
      PROVE  /\ pc' \in [Punch!End -> {"no", "hung", "wait", "test", "closed"}]
             /\ got' \in [Punch!End -> [Ports -> Punch!End \cup {Punch!None}]]
             /\ reports' \subseteq Ports \X Punch!End \X Punch!Provider
  BY <1>1, <1>2 DEF Punch!Report
<1>3. CASE Punch!Ask
  <2>1. tries' = tries + 1 /\ tries' \in Punch!Provider /\ answers' = answers
    BY <1>1, <1>3 DEF Punch!Ask, Punch!Provider
  <2>2. tries' \in 0 .. MaxTry
    BY <1>1, <2>1 DEF Punch!Provider
  <2>3. CASE Punch!Answer
    BY <1>1, <1>2, <2>1, <2>2, <2>3 DEF Punch!Answer
  <2>4. CASE Punch!NoAnswer
    BY <1>1, <2>1, <2>2, <2>4 DEF Punch!NoAnswer
  <2>5. QED BY <1>3, <2>3, <2>4 DEF Punch!Ask
<1>4. ASSUME NEW n \in Punch!Provider, Punch!Told(n) PROVE PunchEnds'
  <2>1. Punch!Report(n, n) /\ told' = told \ {n} /\ UNCHANGED <<tries, answers>>
    BY <1>4 DEF Punch!Told
  <2>2. QED BY <1>1, <1>2, <2>1
<1>5. ASSUME NEW s \in Ports, Punch!AtServer(s) PROVE PunchEnds'
  <2>1. ASSUME NEW n \in Punch!Provider, Punch!Visits(s, n) \/ Punch!Provides(s, n) PROVE PunchEnds'
    BY <2>1 DEF Punch!Visits, Punch!Provides
  <2>2. ASSUME NEW g \in polling[s], Punch!GiveUp(s, g) PROVE PunchEnds'
    BY <2>2 DEF Punch!GiveUp, Punch!EndPolling
  <2>3. ASSUME NEW g \in polling[s], Punch!Pair(s, g) PROVE PunchEnds'
    <3>1. entry[s] \in Seq(Punch!Provider \cup {Punch!None}) /\ g[2] \in 1 .. Len(entry[s])
      BY DEF PunchPorts
    <3>2. entry[s][g[2]] \in Punch!Provider
      BY <2>3, <3>1 DEF Punch!Pair
    <3>3. QED BY <1>1, <2>3, <3>2 DEF Punch!Pair, Punch!EndPolling
  <2>4. QED BY <1>5, <2>1, <2>2, <2>3 DEF Punch!AtServer
<1>6. ASSUME NEW e \in Punch!End, Punch!Closed(e)
      PROVE  /\ pc' \in [Punch!End -> {"no", "hung", "wait", "test", "closed"}]
             /\ got' \in [Punch!End -> [Ports -> Punch!End \cup {Punch!None}]]
  BY <1>1, <1>6 DEF Punch!Closed
<1>7. ASSUME NEW e \in Punch!End, Punch!AtEnd(e) PROVE PunchEnds'
  <2>1. CASE Punch!TimeOut(e)
    BY <1>6, <2>1 DEF Punch!TimeOut
  <2>2. CASE Punch!Connect(e)
    BY <2>2 DEF Punch!Connect
  <2>3. ASSUME NEW s \in Ports, NEW a \in Punch!End, Punch!Answered(s, e, a) PROVE PunchEnds'
    <3>1. got' = [got EXCEPT ![e][s] = a]
      BY <2>3 DEF Punch!Answered
    <3>2. got[e] \in [Ports -> Punch!End \cup {Punch!None}]
      OBVIOUS
    <3>3. [got[e] EXCEPT ![s] = a] \in [Ports -> Punch!End \cup {Punch!None}]
      BY <3>2
    <3>4. got' \in [Punch!End -> [Ports -> Punch!End \cup {Punch!None}]]
      BY <3>1, <3>3
    <3>5. /\ answers' \subseteq answers /\ UNCHANGED <<tries, told, reports>>
          /\ pc' \in [Punch!End -> {"no", "hung", "wait", "test", "closed"}]
      BY <2>3 DEF Punch!Answered
    <3>6. QED BY <3>4, <3>5
  <2>4. ASSUME NEW a \in Punch!End, Punch!TakeConnect(e, a) PROVE PunchEnds'
    BY <2>4 DEF Punch!TakeConnect
  <2>5. ASSUME NEW a \in Punch!End, Punch!TakeSuccess(e, a) \/ Punch!TakeEnd(e, a) PROVE PunchEnds'
    BY <1>6, <2>5 DEF Punch!TakeSuccess, Punch!TakeEnd, Punch!EndTest
  <2>6. QED BY <1>7, <2>1, <2>2, <2>3, <2>4, <2>5 DEF Punch!AtEnd
<1>8. QED BY <1>3, <1>4, <1>5, <1>7 DEF Punch!PunchNext

LEMMA PunchPortsStep == PunchInv /\ Punch!PunchNext => PunchPorts'
<1> SUFFICES ASSUME PunchEnds, PunchPorts, Punch!PunchNext PROVE PunchPorts'
  BY PunchParts
<1> USE DEF PunchPorts
<1>1. ASSUME UNCHANGED <<p2p, entry, polling>> PROVE PunchPorts'
  BY <1>1
<1>2. ASSUME NEW s \in Ports
      PROVE  /\ entry[s] \in Seq(Punch!Provider \cup {Punch!None}) /\ Len(entry[s]) \in Nat /\ p2p[s] \in Nat
             /\ p2p[s] <= Len(entry[s]) /\ polling[s] \subseteq Punch!Provider \X Nat
             /\ \A g \in polling[s] : g[2] \in 1 .. Len(entry[s])
  OBVIOUS
<1>3. ASSUME NEW s \in Ports
      PROVE  /\ Punch!Table(s) \in Seq(Punch!Provider \cup {Punch!None})
             /\ Len(Punch!Table(s)) >= Len(entry[s]) /\ Len(Punch!Table(s)) \in Nat
             /\ Punch!Found(s) \in 1 .. Len(Punch!Table(s))
  <2>1. CASE p2p[s] = 0
    BY <1>2, <2>1 DEF Punch!Table, Punch!Found
  <2>2. CASE p2p[s] # 0
    BY <1>2, <2>2 DEF Punch!Table, Punch!Found
  <2>3. QED BY <2>1, <2>2
\* One port changes: its table, which may grow, its entry and who waits there.
<1>4. ASSUME NEW s \in Ports, NEW T \in Seq(Punch!Provider \cup {Punch!None}), NEW f \in 0 .. Len(T),
             NEW Q \in SUBSET (Punch!Provider \X Nat), \A g \in Q : g[2] \in 1 .. Len(T),
             p2p' = [p2p EXCEPT ![s] = f], entry' = [entry EXCEPT ![s] = T], polling' = [polling EXCEPT ![s] = Q]
      PROVE  PunchPorts'
  <2>1. /\ p2p' \in [Ports -> Nat] /\ entry' \in [Ports -> Seq(Punch!Provider \cup {Punch!None})]
        /\ polling' \in [Ports -> SUBSET (Punch!Provider \X Nat)]
    BY <1>4
  <2>2. p2p'[s] <= Len(entry'[s]) /\ \A g \in polling'[s] : g[2] \in 1 .. Len(entry'[s])
    BY <1>4
  <2>3. ASSUME NEW t \in Ports \ {s}
        PROVE  p2p'[t] = p2p[t] /\ entry'[t] = entry[t] /\ polling'[t] = polling[t]
    BY <1>4
  <2>4. QED BY <1>2, <2>1, <2>2, <2>3
<1>5. ASSUME NEW s \in Ports, Punch!AtServer(s) PROVE PunchPorts'
  <2>1. ASSUME NEW n \in Punch!Provider, Punch!Visits(s, n) PROVE PunchPorts'
    <3> DEFINE T == Punch!Table(s)  f == Punch!Found(s)  Q == polling[s] \cup {<<n, f>>}
    <3>1. /\ p2p' = [p2p EXCEPT ![s] = f] /\ entry' = [entry EXCEPT ![s] = T]
          /\ polling' = [polling EXCEPT ![s] = Q]
      BY <2>1 DEF Punch!Visits
    <3>2. /\ T \in Seq(Punch!Provider \cup {Punch!None}) /\ f \in 1 .. Len(T) /\ Len(T) >= Len(entry[s])
          /\ Len(T) \in Nat
      BY <1>3
    <3>3. Q \in SUBSET (Punch!Provider \X Nat)
      BY <1>2, <3>2
    <3>4. \A g \in Q : g[2] \in 1 .. Len(T)
      BY <1>2, <3>2
    <3> HIDE DEF T, f, Q
    <3>5. f \in 0 .. Len(T)
      BY <3>2
    <3>6. QED BY <1>4, <3>1, <3>2, <3>3, <3>4, <3>5
  <2>2. ASSUME NEW n \in Punch!Provider, Punch!Provides(s, n) PROVE PunchPorts'
    <3> DEFINE f == Punch!Found(s)  T == [Punch!Table(s) EXCEPT ![f] = n]
    <3>1. /\ p2p' = [p2p EXCEPT ![s] = f] /\ entry' = [entry EXCEPT ![s] = T] /\ polling' = polling
      BY <2>2 DEF Punch!Provides
    <3>2. /\ Punch!Table(s) \in Seq(Punch!Provider \cup {Punch!None}) /\ f \in 1 .. Len(Punch!Table(s))
          /\ Len(Punch!Table(s)) >= Len(entry[s]) /\ Len(Punch!Table(s)) \in Nat
      BY <1>3
    <3>3. T \in Seq(Punch!Provider \cup {Punch!None}) /\ Len(T) = Len(Punch!Table(s))
      BY <3>2
    <3>4. polling[s] \in SUBSET (Punch!Provider \X Nat) /\ polling' = [polling EXCEPT ![s] = polling[s]]
      BY <1>2, <3>1
    <3>5. f \in 0 .. Len(T) /\ Len(T) >= Len(entry[s]) /\ Len(T) \in Nat
      BY <3>2, <3>3
    <3> HIDE DEF T, f
    <3>6. \A g \in polling[s] : g[2] \in 1 .. Len(T)
      BY <1>2, <3>5
    <3>7. QED BY <1>4, <3>1, <3>3, <3>4, <3>5, <3>6
  <2>3. ASSUME NEW g \in polling[s], Punch!Pair(s, g) \/ Punch!GiveUp(s, g) PROVE PunchPorts'
    <3>1. p2p' = [p2p EXCEPT ![s] = 0] /\ entry' = entry /\ polling' = [polling EXCEPT ![s] = polling[s] \ {g}]
      BY <2>3 DEF Punch!Pair, Punch!GiveUp, Punch!EndPolling
    <3>2. /\ entry' = [entry EXCEPT ![s] = entry[s]] /\ 0 \in 0 .. Len(entry[s])
          /\ polling[s] \ {g} \in SUBSET (Punch!Provider \X Nat)
          /\ \A h \in polling[s] \ {g} : h[2] \in 1 .. Len(entry[s])
      BY <1>2, <3>1
    <3>3. entry[s] \in Seq(Punch!Provider \cup {Punch!None})
      BY <1>2
    <3>4. QED BY <1>4, <3>1, <3>2, <3>3
  <2>4. QED BY <1>5, <2>1, <2>2, <2>3 DEF Punch!AtServer
<1>6. CASE Punch!Ask
  BY <1>1, <1>6 DEF Punch!Ask, Punch!rendezvous
<1>7. ASSUME NEW n \in Punch!Provider, Punch!Told(n) PROVE PunchPorts'
  BY <1>1, <1>7 DEF Punch!Told, Punch!rendezvous
<1>8. ASSUME NEW e \in Punch!End, Punch!AtEnd(e) PROVE PunchPorts'
  BY <1>1, <1>8
     DEF Punch!AtEnd, Punch!TimeOut, Punch!Connect, Punch!Answered, Punch!TakeConnect, Punch!TakeSuccess,
         Punch!TakeEnd, Punch!EndTest, Punch!rendezvous
<1>9. QED BY <1>5, <1>6, <1>7, <1>8 DEF Punch!PunchNext

LEMMA PunchHeardStep == PunchInv /\ Punch!PunchNext => PunchHeard'
<1> SUFFICES ASSUME PunchEnds, PunchHeard, Punch!PunchNext PROVE PunchHeard'
  BY PunchParts
<1> USE DEF PunchHeard
<1>1. ASSUME UNCHANGED <<tests, heard, result>> PROVE PunchHeard'
  BY <1>1 DEF HeardFirst, Punch!Mutual
<1>2. Punch!Asking \in Punch!End
  BY DEF Punch!End
<1>3. CASE Punch!Ask
  <2>1. result' = [result EXCEPT ![Punch!Asking] = Punch!None] /\ UNCHANGED <<tests, heard>>
    BY <1>3 DEF Punch!Ask
  <2>2. QED BY <1>2, <2>1 DEF HeardFirst, Punch!Mutual
<1>4. ASSUME NEW n \in Punch!Provider, Punch!Told(n) PROVE PunchHeard'
  BY <1>1, <1>4 DEF Punch!Told, Punch!history
<1>5. ASSUME NEW s \in Ports, Punch!AtServer(s) PROVE PunchHeard'
  BY <1>1, <1>5
     DEF Punch!AtServer, Punch!Visits, Punch!Provides, Punch!Pair, Punch!GiveUp, Punch!EndPolling, Punch!history
<1>6. ASSUME NEW e \in Punch!End, Punch!AtEnd(e) PROVE PunchHeard'
  <2>1. CASE Punch!TimeOut(e)
    BY <1>1, <2>1 DEF Punch!TimeOut, Punch!history
  <2>2. CASE Punch!Connect(e)
    <3>1. /\ heard' = heard /\ result' = result
          /\ \E a : tests' = tests \cup {<<e, a, "connect">>}
      <4>1. heard' = heard /\ result' = result
        BY <2>2 DEF Punch!Connect, Punch!history
      <4>2. \E a \in Punch!Aims(e) : tests' = tests \cup {<<e, a, "connect">>}
        BY <2>2 DEF Punch!Connect
      <4>3. QED BY <4>1, <4>2
    <3>2. PICK x : tests' = tests \cup {<<e, x, "connect">>}
      BY <3>1
    <3>3. ASSUME NEW a, NEW b
          PROVE  /\ <<a, b, "success">> \in tests' => <<a, b, "success">> \in tests
                 /\ <<a, b, "end">> \in tests' => <<a, b, "end">> \in tests
      BY <3>2
    <3>4. QED BY <3>1, <3>3 DEF HeardFirst, Punch!Mutual
  <2>3. ASSUME NEW s \in Ports, NEW a \in Punch!End, Punch!Answered(s, e, a) PROVE PunchHeard'
    BY <1>1, <2>3 DEF Punch!Answered, Punch!history
  <2>4. ASSUME NEW a \in Punch!End, Punch!TakeConnect(e, a) PROVE PunchHeard'
    BY <2>4 DEF Punch!TakeConnect, Punch!Receives, HeardFirst, Punch!Mutual
  <2>5. ASSUME NEW a \in Punch!End, Punch!TakeSuccess(e, a) PROVE PunchHeard'
    <3>1. /\ <<a, e>> \in heard /\ heard' = heard \cup {<<e, a>>} /\ tests' = tests \cup {<<e, a, "end">>}
          /\ result' = [result EXCEPT ![e] = a]
      BY <2>5 DEF Punch!TakeSuccess, Punch!Receives, Punch!EndTest, HeardFirst
    <3>2. QED BY <3>1 DEF HeardFirst, Punch!Mutual
  <2>6. ASSUME NEW a \in Punch!End, Punch!TakeEnd(e, a) PROVE PunchHeard'
    <3>1. /\ <<a, e>> \in heard /\ <<e, a>> \in heard /\ heard' = heard \cup {<<e, a>>} /\ tests' = tests
          /\ result' = [result EXCEPT ![e] = a]
      BY <2>6 DEF Punch!TakeEnd, Punch!Receives, Punch!EndTest, HeardFirst
    <3>2. QED BY <3>1 DEF HeardFirst, Punch!Mutual
  <2>7. QED BY <1>6, <2>1, <2>2, <2>3, <2>4, <2>5, <2>6 DEF Punch!AtEnd
<1>7. QED BY <1>3, <1>4, <1>5, <1>6 DEF Punch!PunchNext

LEMMA PunchStep == PunchInv /\ Punch!PunchNext => PunchInv'
BY PunchParts, PunchEndsStep, PunchPortsStep, PunchHeardStep, PTL

LEMMA PunchStill == PunchInv /\ UNCHANGED punchVars => PunchInv'
BY DEF punchVars, PunchInv, Punch!PunchTypeOK, Addressed, HeardFirst, Punch!Mutual

-----------------------------------------------------------------------------
(* HTTP hosts.                                                             *)

(* Only the last stream of a connection can be open, and it is not while   *)
(* the handler is between two hosts; a goroutine copies from one of them.  *)
LastOpen(p) ==
    /\ p.cut \subseteq 1 .. p.made
    /\ 1 .. p.made - 1 \subseteq p.cut
    /\ p.pc \in {"idle", "reset", "check", "deal", "done"} => p.cut = 1 .. p.made
    /\ p.pc = "done" => p.gone
    /\ DOMAIN p.down = 1 .. p.made
    /\ \A i \in 1 .. p.made : p.down[i].at # "spawned" => p.down[i].of \in 1 .. p.made

(* A handler defers once for a host at most.                               *)
Deferred(p) ==
    Len(p.defers) <= p.made + (IF p.pc \in {"idle", "reset", "check", "write", "read", "wait"} THEN 0 ELSE 1)

Down == [at : {"spawned", "copying", "left"}, of : 0 .. MaxStream]

Page ==
    [pc : {"idle", "reset", "check", "deal", "write", "read", "wait", "defer", "done"},
     host : Host \cup {Http!NoHost}, defers : Seq(Host), isReset : BOOLEAN, made : 0 .. MaxStream,
     cut : SUBSET (1 .. MaxStream), gone : BOOLEAN,
     down : Seq(Down)]

(* A handler between two hosts knows the next, and has a stream while it   *)
(* writes to one.                                                          *)
Visits(p) ==
    /\ p.pc \in {"reset", "check", "deal"} => p.host \in Host
    /\ p.pc \in {"write", "read"} => p.made # 0

PageOK(p) == p \in Page /\ LastOpen(p) /\ Deferred(p) /\ Visits(p)

HttpInv ==
    /\ page \in [Guest -> Page]
    /\ \A g \in Guest : PageOK(page[g])
    /\ held \in [Http!Clients -> Int]

LEMMA HttpInitInv == Http!HttpInit => HttpInv
<1> SUFFICES ASSUME Http!HttpInit PROVE HttpInv
  OBVIOUS
<1>1. MaxStream \in Nat
  BY BoundAssumption
<1> DEFINE r == Http!Fresh
<1>2. r \in Page
  BY <1>1 DEF Http!Fresh, Page
<1>3. /\ r.pc = "idle" /\ r.made = 0 /\ r.cut = {} /\ r.down = <<>> /\ r.defers = <<>>
  BY DEF Http!Fresh
<1>4. LastOpen(r) /\ Deferred(r) /\ Visits(r)
  BY <1>3 DEF LastOpen, Deferred, Visits
<1>5. \A g \in Guest : page[g] = r
  BY DEF Http!HttpInit
<1> HIDE DEF r
<1>6. page = [g \in Guest |-> r] /\ held = [c \in Http!Clients |-> 0]
  BY DEF Http!HttpInit, r
<1>7. QED BY <1>2, <1>4, <1>5, <1>6 DEF HttpInv, PageOK

(* One handler's connection becomes r.                                     *)
LEMMA PageStep ==
    ASSUME HttpInv, NEW g \in Guest, NEW r, PageOK(r), Http!To(g, r), held' \in [Http!Clients -> Int]
    PROVE  HttpInv'
<1>1. page' \in [Guest -> Page]
  BY DEF HttpInv, PageOK, Http!To
<1>2. \A h \in Guest : page'[h] = IF h = g THEN r ELSE page[h]
  BY DEF HttpInv, Http!To
<1>3. \A h \in Guest : PageOK(page'[h])
  BY <1>2 DEF HttpInv
<1>4. QED BY <1>1, <1>3 DEF HttpInv

(* What one more or one less does to the count of a host's client.         *)
LEMMA HeldStep ==
    ASSUME HttpInv, NEW h \in Host, NEW n \in Int, Http!Hold(h, n)
    PROVE  held' \in [Http!Clients -> Int]
BY DEF HttpInv, Http!Hold, Http!Clients

(* A step of the handler that changes where it is, its host, isReset or    *)
(* what is closed, and defers nothing.                                     *)
LEMMA HandlerStep ==
    ASSUME HttpInv, NEW g \in Guest, NEW r \in Page, Http!To(g, r), held' \in [Http!Clients -> Int],
           r.made = page[g].made, r.down = page[g].down, r.defers = page[g].defers,
           page[g].cut \subseteq r.cut, r.cut \subseteq 1 .. r.made,
           r.pc \in {"reset", "check", "done"} => r.cut = 1 .. r.made,
           r.pc = "deal" => page[g].pc = "deal",
           r.pc = "idle" => page[g].pc = "idle",
           r.pc = "done" => r.gone,
           r.pc \in {"reset", "check", "write", "read", "wait"} =>
               page[g].pc \in {"idle", "reset", "check", "write", "read", "wait"},
           Visits(r)
    PROVE  HttpInv'
<1>1. PageOK(page[g]) /\ page[g] \in Page
  BY DEF HttpInv
<1>2. LastOpen(r)
  BY <1>1 DEF PageOK, LastOpen
<1>3. Deferred(r)
  <2>1. r.made \in Nat /\ Len(r.defers) \in Nat
    BY BoundAssumption DEF Page
  <2>2. r.pc \in {"idle", "reset", "check", "write", "read", "wait"} =>
          page[g].pc \in {"idle", "reset", "check", "write", "read", "wait"}
    OBVIOUS
  <2>3. QED BY <1>1, <2>1, <2>2 DEF PageOK, Deferred
<1>4. QED BY <1>2, <1>3, PageStep DEF PageOK

(* In an instance Cardinality is a symbol of its own.                      *)
LEMMA HttpCardinality == \A S : Http!Cardinality(S) = Cardinality(S)
BY Zenon DEF Cardinality, Http!Cardinality

LEMMA TakenIsNat ==
    ASSUME HttpInv, NEW g \in Guest, NEW c
    PROVE  Http!Taken(g, c) \in Nat
<1> DEFINE S == {i \in DOMAIN page[g].defers : Owner[page[g].defers[i]] = c}
<1>1. page[g].defers \in Seq(Host)
  BY DEF HttpInv, Page
<1>2. DOMAIN page[g].defers = 1 .. Len(page[g].defers) /\ Len(page[g].defers) \in Nat
  BY <1>1
<1>3. IsFiniteSet(DOMAIN page[g].defers)
  BY <1>2, FS_Interval
<1>4. IsFiniteSet(S) /\ Cardinality(S) \in Nat
  BY <1>3, FS_Subset, FS_CardinalityType
<1>5. Http!Taken(g, c) = Cardinality(S)
  BY HttpCardinality DEF Http!Taken
<1>6. QED BY <1>4, <1>5

(* A goroutine of a handler goes on: it copies from the last stream, or    *)
(* ends with its own.                                                      *)
LEMMA DownStep ==
    ASSUME HttpInv, NEW g \in Guest, NEW r \in Page, Http!To(g, r), UNCHANGED held,
           r.pc = page[g].pc, r.host = page[g].host, r.made = page[g].made, r.defers = page[g].defers,
           page[g].gone => r.gone, page[g].cut \subseteq r.cut, r.cut \subseteq 1 .. r.made,
           NEW i \in DOMAIN page[g].down, DOMAIN r.down = DOMAIN page[g].down,
           \A j \in DOMAIN r.down \ {i} : r.down[j] = page[g].down[j],
           r.down[i].of \in 1 .. r.made
    PROVE  HttpInv'
<1>1. PageOK(page[g]) /\ page[g] \in Page /\ held' \in [Http!Clients -> Int]
  BY DEF HttpInv
<1>2. LastOpen(r)
  <2>1. DOMAIN r.down = 1 .. r.made /\ i \in 1 .. r.made
    BY <1>1 DEF PageOK, LastOpen
  <2>2. \A j \in 1 .. r.made : r.down[j].at # "spawned" => r.down[j].of \in 1 .. r.made
    <3> SUFFICES ASSUME NEW j \in 1 .. r.made, r.down[j].at # "spawned" PROVE r.down[j].of \in 1 .. r.made
      OBVIOUS
    <3>1. CASE j = i
      BY <3>1
    <3>2. CASE j # i
      BY <1>1, <2>1, <3>2 DEF PageOK, LastOpen
    <3>3. QED BY <3>1, <3>2
  <2>3. 1 .. r.made - 1 \subseteq r.cut
    BY <1>1 DEF PageOK, LastOpen
  <2>4. r.pc \in {"idle", "reset", "check", "deal", "done"} => r.cut = 1 .. r.made
    BY <1>1 DEF PageOK, LastOpen
  <2>5. r.pc = "done" => r.gone
    BY <1>1 DEF PageOK, LastOpen
  <2>6. QED BY <2>1, <2>2, <2>3, <2>4, <2>5 DEF LastOpen
<1>3. Deferred(r) /\ Visits(r)
  BY <1>1 DEF PageOK, Deferred, Visits
<1>4. QED BY <1>1, <1>2, <1>3, PageStep DEF PageOK

LEMMA HttpStep == HttpInv /\ Http!HttpNext => HttpInv'
<1> SUFFICES ASSUME HttpInv, NEW g \in Guest,
                    \/ \E h \in Host : Http!HandleHttp(g, h) \/ Http!ReadOther(g, h)
                    \/ Http!Reset(g) \/ Http!CheckHost(g) \/ Http!RefuseHost(g) \/ Http!FailHost(g)
                    \/ Http!SendLink(g) \/ Http!WriteRequest(g) \/ Http!ReadSame(g) \/ Http!ReadFails(g)
                    \/ Http!ReadUnknown(g) \/ Http!WaitDown(g) \/ Http!Return(g) \/ Http!TargetEnds(g)
                    \/ Http!GuestEnds(g)
                    \/ \E i \in DOMAIN page[g].down : Http!DownStart(g, i) \/ Http!DownEnds(g, i)
             PROVE  HttpInv'
  BY DEF Http!HttpNext
<1> DEFINE p == page[g]
<1>1. PageOK(p) /\ p \in Page /\ MaxStream \in Nat /\ held \in [Http!Clients -> Int]
  BY BoundAssumption DEF HttpInv
<1>2. p.cut \subseteq 1 .. p.made /\ p.made \in 0 .. MaxStream /\ 1 .. p.made \subseteq 1 .. MaxStream
      /\ 1 .. p.made - 1 \subseteq p.cut
  BY <1>1 DEF PageOK, LastOpen, Page
<1>3. ASSUME UNCHANGED held PROVE held' \in [Http!Clients -> Int]
  BY <1>1, <1>3
<1>4. p.made # 0 => p.cut \cup {p.made} = 1 .. p.made
  BY <1>2
<1>5. ASSUME NEW h \in Host, Http!HandleHttp(g, h) PROVE HttpInv'
  <2> DEFINE r == [Http!Fresh EXCEPT !.pc = "check", !.host = h]
  <2>1. r \in Page
    <3>1. Http!Fresh \in Page
      BY <1>1 DEF Http!Fresh, Page
    <3> HIDE DEF Down
    <3>2. QED BY <3>1 DEF Page
  <2>2. /\ r.pc = "check" /\ r.host = h /\ r.made = 0 /\ r.cut = {} /\ r.down = <<>> /\ r.defers = <<>>
    BY DEF Http!Fresh
  <2>3. Http!To(g, r) /\ UNCHANGED held
    BY <1>5 DEF Http!HandleHttp
  <2> HIDE DEF r
  <2>4. LastOpen(r) /\ Deferred(r) /\ Visits(r)
    BY <2>2 DEF LastOpen, Deferred, Visits
  <2>5. QED BY <1>3, <2>1, <2>3, <2>4, PageStep DEF PageOK
<1>6. ASSUME NEW h \in Host, Http!ReadOther(g, h) PROVE HttpInv'
  <2> DEFINE r == [p EXCEPT !.pc = "reset", !.host = h, !.isReset = TRUE, !.cut = @ \cup {p.made}]
  <2>1. p.pc = "read" /\ Http!To(g, r) /\ UNCHANGED held
    BY <1>6 DEF Http!ReadOther, Http!In
  <2>2. p.made # 0
    BY <1>1, <2>1 DEF PageOK, Visits
  <2>3. p.cut \cup {p.made} \in SUBSET (1 .. MaxStream)
    BY <1>2, <1>4, <2>2
  <2>4. r \in Page
    BY <1>1, <2>3 DEF Page
  <2>5. /\ r.made = p.made /\ r.down = p.down /\ r.defers = p.defers /\ r.cut = 1 .. p.made
        /\ r.pc = "reset" /\ r.host = h
    BY <1>1, <1>4, <2>2 DEF Page
  <2> HIDE DEF r
  <2>6. QED BY <1>2, <1>3, <2>1, <2>4, <2>5, HandlerStep DEF Visits
<1>7. ASSUME NEW k \in {"check", "write", "read", "wait", "defer"}, Http!To(g, [p EXCEPT !.pc = k]),
             held' \in [Http!Clients -> Int],
             k = "check" => p.pc = "reset",
             k \in {"write", "read", "wait"} => p.pc \in {"write", "read"}
      PROVE  HttpInv'
  <2> DEFINE r == [p EXCEPT !.pc = k]
  <2>1. r \in Page
    BY <1>1 DEF Page
  <2>2. /\ r.made = p.made /\ r.down = p.down /\ r.defers = p.defers /\ r.cut = p.cut
        /\ r.pc = k /\ r.host = p.host
    BY <1>1 DEF Page
  <2>3. Http!To(g, r)
    BY <1>7
  <2> HIDE DEF r
  <2>4. Visits(r) /\ (k = "check" => r.cut = 1 .. r.made)
    BY <1>1, <1>7, <2>2 DEF PageOK, Visits, LastOpen
  <2>5. QED BY <1>2, <1>7, <2>1, <2>2, <2>3, <2>4, HandlerStep
<1>8. CASE Http!Reset(g)
  <2>1. p.pc = "reset" /\ Http!To(g, [p EXCEPT !.pc = "check"])
        /\ (UNCHANGED held \/ Http!Hold(p.host, -1))
    BY <1>8 DEF Http!Reset, Http!In
  <2>2. p.host \in Host
    BY <1>1, <2>1 DEF PageOK, Visits
  <2>3. held' \in [Http!Clients -> Int]
    BY <1>3, <2>1, <2>2, HeldStep
  <2>4. QED BY <1>7, <2>1, <2>3
<1>9. CASE Http!CheckHost(g)
  <2> DEFINE d == IF p.isReset THEN p.defers ELSE Append(p.defers, p.host)
             r == [p EXCEPT !.pc = "deal", !.defers = d]
  <2>1. p.pc = "check" /\ Http!To(g, r) /\ Http!Hold(p.host, 1)
    BY <1>9 DEF Http!CheckHost, Http!In
  <2>2. p.host \in Host /\ Len(p.defers) <= p.made /\ p.cut = 1 .. p.made
    <3>1. p.host \in Host /\ p.cut = 1 .. p.made
      BY <1>1, <2>1 DEF PageOK, Visits, LastOpen
    <3>2. Len(p.defers) <= p.made + 0
      BY <1>1, <2>1 DEF PageOK, Deferred
    <3>3. QED BY <1>2, <3>1, <3>2
  <2>3. d \in Seq(Host) /\ Len(d) <= p.made + 1
    BY <1>1, <1>2, <2>2 DEF Page
  <2> HIDE DEF d
  <2>4. r \in Page
    BY <1>1, <2>3 DEF Page
  <2>5. /\ r.made = p.made /\ r.down = p.down /\ r.defers = d /\ r.cut = p.cut
        /\ r.pc = "deal" /\ r.host = p.host
    BY <1>1 DEF Page
  <2> HIDE DEF r
  <2>6. LastOpen(r) /\ Deferred(r) /\ Visits(r)
    BY <1>1, <2>2, <2>3, <2>5 DEF PageOK, LastOpen, Deferred, Visits
  <2>7. held' \in [Http!Clients -> Int]
    BY <2>1, <2>2, HeldStep
  <2>8. QED BY <2>1, <2>4, <2>6, <2>7, PageStep DEF PageOK
<1>10. CASE Http!RefuseHost(g)
  <2> DEFINE r == [p EXCEPT !.pc = "defer", !.gone = TRUE]
  <2>1. Http!To(g, r) /\ UNCHANGED held
    BY <1>10 DEF Http!RefuseHost
  <2>2. r \in Page
    BY <1>1 DEF Page
  <2>3. /\ r.made = p.made /\ r.down = p.down /\ r.defers = p.defers /\ r.cut = p.cut /\ r.pc = "defer"
    BY <1>1 DEF Page
  <2> HIDE DEF r
  <2>4. QED BY <1>2, <1>3, <2>1, <2>2, <2>3, HandlerStep DEF Visits
<1>11. CASE Http!FailHost(g) \/ Http!ReadFails(g) \/ Http!WaitDown(g)
  <2>1. Http!To(g, [p EXCEPT !.pc = "defer"]) /\ UNCHANGED held
    BY <1>11 DEF Http!FailHost, Http!ReadFails, Http!WaitDown
  <2>2. QED BY <1>3, <1>7, <2>1
<1>12. CASE Http!ReadSame(g) \/ Http!ReadUnknown(g) \/ Http!WriteRequest(g)
  <2>1. PICK k \in {"write", "read", "wait"} : Http!To(g, [p EXCEPT !.pc = k])
    BY <1>12 DEF Http!ReadSame, Http!ReadUnknown, Http!WriteRequest
  <2>2. p.pc \in {"write", "read"} /\ UNCHANGED held
    BY <1>12 DEF Http!ReadSame, Http!ReadUnknown, Http!WriteRequest, Http!In
  <2>3. QED BY <1>3, <1>7, <2>1, <2>2
<1>13. CASE Http!SendLink(g)
  <2> DEFINE d == Append(p.down, [at |-> "spawned", of |-> 0])
             r == [p EXCEPT !.pc = "write", !.made = @ + 1, !.down = d]
  <2>1. p.pc = "deal" /\ p.made < MaxStream /\ Http!To(g, r) /\ UNCHANGED held
    BY <1>13 DEF Http!SendLink, Http!In
  <2>2. p.cut = 1 .. p.made /\ DOMAIN p.down = 1 .. p.made /\ Len(p.defers) <= p.made + 1
    BY <1>1, <2>1 DEF PageOK, LastOpen, Deferred
  <2>3. p.down \in Seq(Down) /\ [at |-> "spawned", of |-> 0] \in Down
    BY <1>1 DEF Page, Down
  <2>4. Len(p.down) = p.made
    BY <1>2, <2>2, <2>3
  <2>5. /\ d \in Seq(Down) /\ DOMAIN d = 1 .. p.made + 1 /\ d[p.made + 1].at = "spawned"
        /\ \A i \in 1 .. p.made : d[i] = p.down[i]
    BY <1>2, <2>3, <2>4
  <2> HIDE DEF d
  <2>6. r \in Page
    <3>1. p.made + 1 \in 0 .. MaxStream
      BY <1>1, <1>2, <2>1
    <3>2. QED BY <1>1, <2>5, <3>1 DEF Page
  <2>7. /\ r.made = p.made + 1 /\ r.down = d /\ r.defers = p.defers /\ r.cut = p.cut /\ r.pc = "write"
    BY <1>1 DEF Page
  <2> HIDE DEF r
  <2>8. \A i \in 1 .. r.made : r.down[i].at # "spawned" => r.down[i].of \in 1 .. r.made
    <3> SUFFICES ASSUME NEW i \in 1 .. r.made, r.down[i].at # "spawned" PROVE r.down[i].of \in 1 .. r.made
      OBVIOUS
    <3>1. i \in 1 .. p.made /\ r.down[i] = p.down[i]
      BY <1>2, <2>5, <2>7
    <3>2. p.down[i].of \in 1 .. p.made
      BY <1>1, <3>1 DEF PageOK, LastOpen
    <3>3. QED BY <1>2, <2>7, <3>1, <3>2
  <2>9. LastOpen(r)
    BY <1>2, <2>2, <2>5, <2>7, <2>8 DEF LastOpen
  <2>10. Deferred(r) /\ Visits(r)
    BY <1>2, <2>2, <2>7 DEF Deferred, Visits
  <2>11. QED BY <1>3, <2>1, <2>6, <2>9, <2>10, PageStep DEF PageOK
<1>14. CASE Http!Return(g)
  <2> DEFINE r == [p EXCEPT !.pc = "done", !.gone = TRUE, !.cut = @ \cup ({p.made} \ {0})]
  <2>1. Http!To(g, r) /\ held' = [c \in Http!Clients |-> held[c] - Http!Taken(g, c)]
    BY <1>14 DEF Http!Return
  <2>2. p.cut \cup ({p.made} \ {0}) = 1 .. p.made
    BY <1>2
  <2>3. r \in Page
    BY <1>1, <1>2, <2>2 DEF Page
  <2>4. /\ r.made = p.made /\ r.down = p.down /\ r.defers = p.defers /\ r.cut = 1 .. p.made /\ r.pc = "done"
        /\ r.gone
    BY <1>1, <2>2 DEF Page
  <2> HIDE DEF r
  <2>5. held' \in [Http!Clients -> Int]
    <3>1. \A c \in Http!Clients : held[c] \in Int /\ Http!Taken(g, c) \in Nat
      BY <1>1, TakenIsNat
    <3>2. QED BY <2>1, <3>1
  <2>6. QED BY <1>2, <2>1, <2>3, <2>4, <2>5, HandlerStep DEF Visits
<1>15. CASE Http!TargetEnds(g)
  <2> DEFINE r == [p EXCEPT !.cut = @ \cup {p.made}]
  <2>1. p.made # 0 /\ Http!To(g, r) /\ UNCHANGED held
    BY <1>15 DEF Http!TargetEnds
  <2>2. r \in Page
    BY <1>1, <1>2, <1>4, <2>1 DEF Page
  <2>3. /\ r.made = p.made /\ r.down = p.down /\ r.defers = p.defers /\ r.cut = 1 .. p.made
        /\ r.pc = p.pc /\ r.host = p.host /\ r.gone = p.gone
    BY <1>1, <1>4, <2>1 DEF Page
  <2> HIDE DEF r
  <2>4. Visits(r) /\ (r.pc = "done" => r.gone)
    BY <1>1, <2>3 DEF PageOK, Visits, LastOpen
  <2>5. QED BY <1>2, <1>3, <2>1, <2>2, <2>3, <2>4, HandlerStep
<1>16. CASE Http!GuestEnds(g)
  <2> DEFINE r == [p EXCEPT !.gone = TRUE]
  <2>1. Http!To(g, r) /\ UNCHANGED held
    BY <1>16 DEF Http!GuestEnds
  <2>2. r \in Page
    BY <1>1 DEF Page
  <2>3. /\ r.made = p.made /\ r.down = p.down /\ r.defers = p.defers /\ r.cut = p.cut
        /\ r.pc = p.pc /\ r.host = p.host /\ r.gone
    BY <1>1 DEF Page
  <2> HIDE DEF r
  <2>4. Visits(r) /\ (r.pc \in {"reset", "check", "done"} => r.cut = 1 .. r.made)
    BY <1>1, <2>3 DEF PageOK, Visits, LastOpen
  <2>5. QED BY <1>2, <1>3, <2>1, <2>2, <2>3, <2>4, HandlerStep
<1>17. ASSUME NEW i \in DOMAIN p.down 
      PROVE  /\ i \in 1 .. p.made /\ p.down[i] \in Down
             /\ (p.down[i].at # "spawned" => p.down[i].of \in 1 .. p.made)
  <2>1. i \in 1 .. p.made /\ (p.down[i].at # "spawned" => p.down[i].of \in 1 .. p.made)
    BY <1>1, <1>17 DEF PageOK, LastOpen
  <2>2. p.down \in Seq(Down)
    BY <1>1 DEF Page
  <2>3. QED BY <1>17, <2>1, <2>2
<1>18. ASSUME NEW i \in DOMAIN p.down, Http!DownStart(g, i) PROVE HttpInv'
  <2> DEFINE d == [p.down EXCEPT ![i] = [at |-> "copying", of |-> p.made]]
             r == [p EXCEPT !.isReset = FALSE, !.down = d]
  <2>1. Http!To(g, r) /\ UNCHANGED held
    BY <1>18 DEF Http!DownStart
  <2>2. /\ d \in Seq(Down) /\ DOMAIN d = DOMAIN p.down
        /\ d[i].of = p.made /\ \A j \in DOMAIN d \ {i} : d[j] = p.down[j]
    <3>1. p.down \in Seq(Down)
          /\ [at |-> "copying", of |-> p.made] \in Down
      BY <1>1, <1>2 DEF Page, Down
    <3>2. QED BY <3>1
  <2> HIDE DEF d
  <2>3. r \in Page
    BY <1>1, <2>2 DEF Page
  <2>4. /\ r.made = p.made /\ r.down = d /\ r.defers = p.defers /\ r.cut = p.cut
        /\ r.pc = p.pc /\ r.host = p.host /\ r.gone = p.gone
    BY <1>1 DEF Page
  <2> HIDE DEF r
  <2>5. r.down[i].of \in 1 .. r.made
    BY <1>2, <1>17, <2>2, <2>4
  <2>6. QED BY <1>2, <2>1, <2>2, <2>3, <2>4, <2>5, DownStep
<1>19. ASSUME NEW i \in DOMAIN p.down, Http!DownEnds(g, i) PROVE HttpInv'
  <2> DEFINE d == [p.down EXCEPT ![i].at = "left"]
             k == p.down[i].of
             r == [p EXCEPT !.down = d, !.cut = @ \cup {k}, !.gone = @ \/ ~p.isReset]
  <2>1. p.down[i].at = "copying" /\ Http!To(g, r) /\ UNCHANGED held
    BY <1>19 DEF Http!DownEnds
  <2>2. k \in 1 .. p.made
    BY <1>17, <2>1
  <2>3. /\ d \in Seq(Down) /\ DOMAIN d = DOMAIN p.down
        /\ d[i].of = k /\ \A j \in DOMAIN d \ {i} : d[j] = p.down[j]
    <3>1. p.down \in Seq(Down)
          /\ [p.down[i] EXCEPT !.at = "left"] \in Down
          /\ [p.down[i] EXCEPT !.at = "left"].of = k
      BY <1>1, <1>17 DEF Page, Down
    <3>2. d = [p.down EXCEPT ![i] = [p.down[i] EXCEPT !.at = "left"]]
      OBVIOUS
    <3>3. QED BY <3>1, <3>2
  <2> HIDE DEF d, k
  <2>4. r \in Page
    BY <1>1, <1>2, <2>2, <2>3 DEF Page
  <2>5. /\ r.made = p.made /\ r.down = d /\ r.defers = p.defers /\ r.cut = p.cut \cup {k}
        /\ r.pc = p.pc /\ r.host = p.host /\ (p.gone => r.gone)
    BY <1>1 DEF Page
  <2> HIDE DEF r
  <2>6. QED BY <1>2, <2>1, <2>2, <2>3, <2>4, <2>5, DownStep
<1>20. QED
  BY <1>5, <1>6, <1>8, <1>9, <1>10, <1>11, <1>12, <1>13, <1>14, <1>15, <1>16, <1>18, <1>19

LEMMA HttpStill == HttpInv /\ UNCHANGED httpVars => HttpInv'
BY DEF httpVars, HttpInv

(* A sequence that is no longer than a bound is one of those the type of a *)
(* handler's connection lists.                                             *)
LEMMA Bounded ==
    ASSUME NEW S, NEW n \in Nat, NEW s \in Seq(S), Len(s) <= n
    PROVE  s \in UNION {[1 .. m -> S] : m \in 0 .. n}
<1>1. s \in [1 .. Len(s) -> S] /\ Len(s) \in 0 .. n
  OBVIOUS
<1>2. QED BY <1>1

LEMMA HttpInvKeeps == HttpInv => Http!HttpTypeOK /\ Http!StreamsClosed
<1> SUFFICES ASSUME HttpInv PROVE Http!HttpTypeOK /\ Http!StreamsClosed
  OBVIOUS
<1>1. Http!StreamsClosed
  BY DEF HttpInv, PageOK, LastOpen, Http!StreamsClosed, Http!In
<1> DEFINE D == UNION {[1 .. n -> Host] : n \in 0 .. MaxStream + 1}
           E == UNION {[1 .. n -> Down] : n \in 0 .. MaxStream}
<1>2. ASSUME NEW g \in Guest
      PROVE  page[g].defers \in D /\ page[g].down \in E
  <2>1. page[g] \in Page /\ PageOK(page[g]) /\ MaxStream \in Nat /\ MaxStream + 1 \in Nat
    BY BoundAssumption DEF HttpInv
  <2>2. Len(page[g].defers) <= page[g].made + 1 /\ page[g].made \in 0 .. MaxStream
        /\ page[g].defers \in Seq(Host)
    BY <2>1 DEF PageOK, Deferred, Page
  <2>3. page[g].down \in Seq(Down)
        /\ DOMAIN page[g].down = 1 .. page[g].made
    BY <2>1 DEF PageOK, LastOpen, Page
  <2>4. Len(page[g].down) = page[g].made
    BY <2>2, <2>3
  <2>5. page[g].defers \in D
    BY <2>1, <2>2, Bounded
  <2>6. page[g].down \in E
    BY <2>1, <2>2, <2>3, <2>4, Bounded
  <2>7. QED BY <2>5, <2>6
<1> HIDE DEF D, E
<1>3. ASSUME NEW g \in Guest
      PROVE  page[g] \in
               [pc : {"idle", "reset", "check", "deal", "write", "read", "wait", "defer", "done"},
                host : Host \cup {Http!NoHost}, defers : D, isReset : BOOLEAN, made : 0 .. MaxStream,
                cut : SUBSET (1 .. MaxStream), gone : BOOLEAN, down : E]
  BY <1>2 DEF HttpInv, Page
<1>4. Http!HttpTypeOK
  BY <1>3 DEF HttpInv, Http!HttpTypeOK, D, E, Down
<1>5. QED BY <1>1, <1>4

-----------------------------------------------------------------------------
(* Connections through the server.                                         *)

(* A copier that has ended has closed what it closes: at the server        *)
(* since copying began, at npc since it has reached the target.            *)
Ends(c, k)    == IF c.kind = "assoc" /\ k = "down" THEN {"front"} ELSE {Relay!Src(k), Relay!Dst(k)}
NpcCopiers(c) == IF c.kind = "assoc" THEN {"up2"} ELSE {"up2", "down2"}
HasClosed(c, k) == k \in c.copiers \/ Ends(c, k) \subseteq c.closed

(* How far the ends of a connection are closed, as long as nothing odd was *)
(* done with it.                                                           *)
Orderly(c) ==
    /\ "lost" \notin c.copiers
    /\ c.pc \in {"release", "done"} => "front" \in c.closed
    /\ c.npc = "none" => c.pc # "copy" /\ c.copiers = {} /\ c.closed \subseteq {"front", "visitor"}
    /\ c.npc # "none" => /\ c.pc \in {"copy", "release", "done"}
                         /\ HasClosed(c, "up") /\ HasClosed(c, "down")
                         /\ c.pc \in {"release", "done"} => "up" \notin c.copiers
    /\ c.npc = "dial" => c.copiers \subseteq Relay!Server /\ {"out", "target"} \cap c.closed = {}
    /\ c.npc = "copy" => \A k \in NpcCopiers(c) : HasClosed(c, k)
    /\ c.npc = "copy" /\ c.kind = "assoc" /\ {"out", "target"} \cap c.closed # {} => "peer" \in c.closed
    /\ c.npc = "done" => {"peer", "out"} \subseteq c.closed

Conn ==
    [kind : Relay!Kind, pc : {"idle", "check", "take", "deal", "copy", "release", "done"},
     closed : SUBSET Relay!End, copiers : SUBSET (Relay!Server \cup Relay!Npc \cup {"lost"}),
     npc : {"none", "dial", "copy", "done"}, odd : BOOLEAN]

ConnOK(c) ==
    /\ c \in Conn
    /\ c.pc \in {"check", "take"} => c.kind # "secret"
    /\ c.odd \/ Orderly(c)

(* A connection counts against the client from the moment it is taken      *)
(* until it is given back.                                                 *)
Counts(c) == c.kind # "secret" /\ c.pc \in {"deal", "copy", "release"}
Working   == {v \in Visitor : Counts(conn[v])}

RelayInv ==
    /\ conn \in [Visitor -> Conn]
    /\ \A v \in Visitor : ConnOK(conn[v])
    /\ nowConn = Cardinality(Working)
    /\ exceeded \in BOOLEAN /\ crashed \in BOOLEAN

LEMMA RelayInitInv == Relay!Init => RelayInv
<1> SUFFICES ASSUME Relay!Init PROVE RelayInv
  OBVIOUS
<1> DEFINE c == Relay!NoConn
<1>1. c \in Conn
  BY DEF Relay!NoConn, Conn, Relay!Kind
<1>2. /\ c.kind = "tcp" /\ c.pc = "idle" /\ c.closed = {} /\ c.copiers = {} /\ c.npc = "none"
  BY DEF Relay!NoConn
<1>3. conn = [v \in Visitor |-> c] /\ nowConn = 0 /\ exceeded = FALSE /\ crashed = FALSE
  BY DEF Relay!Init
<1> HIDE DEF c
<1>4. ConnOK(c) /\ ~Counts(c)
  BY <1>1, <1>2 DEF ConnOK, Orderly, Counts
<1>5. Working = {}
  BY <1>3, <1>4 DEF Working
<1>6. QED BY <1>1, <1>3, <1>4, <1>5, FS_EmptySet DEF RelayInv

LEMMA WorkingFinite == IsFiniteSet(Working) /\ Cardinality(Working) \in Nat
<1>1. IsFiniteSet(Visitor) /\ Working \subseteq Visitor
  BY BoundAssumption DEF Working
<1>2. QED BY <1>1, FS_Subset, FS_CardinalityType

(* One connection becomes r, and the client's count follows.               *)
LEMMA ConnStep ==
    ASSUME RelayInv, NEW v \in Visitor, NEW r, ConnOK(r), Relay!Set(v, r),
           exceeded' \in BOOLEAN, crashed' \in BOOLEAN,
           \/ Counts(r) /\ Counts(conn[v]) /\ nowConn' = nowConn
           \/ ~Counts(r) /\ ~Counts(conn[v]) /\ nowConn' = nowConn
           \/ Counts(r) /\ ~Counts(conn[v]) /\ nowConn' = nowConn + 1
           \/ ~Counts(r) /\ Counts(conn[v]) /\ nowConn' = nowConn - 1
    PROVE  RelayInv'
<1>1. conn' \in [Visitor -> Conn] /\ conn'[v] = r /\ \A w \in Visitor \ {v} : conn'[w] = conn[w]
  BY DEF RelayInv, ConnOK, Relay!Set
<1>2. \A w \in Visitor : ConnOK(conn'[w])
  BY <1>1 DEF RelayInv
<1>3. Cardinality(Working) \in Nat /\ IsFiniteSet(Working) /\ nowConn = Cardinality(Working)
  BY WorkingFinite DEF RelayInv
<1>4. nowConn' = Cardinality(Working')
  <2>1. CASE (Counts(r) <=> Counts(conn[v])) /\ nowConn' = nowConn
    <3>1. Working' = Working
      BY <1>1, <2>1 DEF Working
    <3>2. QED BY <1>3, <2>1, <3>1
  <2>2. CASE Counts(r) /\ ~Counts(conn[v]) /\ nowConn' = nowConn + 1
    <3>1. Working' = Working \cup {v} /\ v \notin Working
      BY <1>1, <2>2 DEF Working
    <3>2. Cardinality(Working \cup {v}) = Cardinality(Working) + 1
      BY <1>3, <3>1, FS_AddElement
    <3>3. QED BY <1>3, <2>2, <3>1, <3>2
  <2>3. CASE ~Counts(r) /\ Counts(conn[v]) /\ nowConn' = nowConn - 1
    <3>1. Working' = Working \ {v} /\ v \in Working
      BY <1>1, <2>3 DEF Working
    <3>2. Cardinality(Working \ {v}) = Cardinality(Working) - 1
      BY <1>3, <3>1, FS_RemoveElement
    <3>3. QED BY <1>3, <2>3, <3>1, <3>2
  <2>4. QED BY <2>1, <2>2, <2>3
<1>5. QED BY <1>1, <1>2, <1>4 DEF RelayInv

(* More ends close, and some copiers that close them end.                  *)
LEMMA MoreCloses ==
    ASSUME NEW c, ConnOK(c), NEW r \in Conn, r.kind = c.kind, r.pc = c.pc, r.npc = c.npc, r.odd = c.odd,
           c.closed \subseteq r.closed, r.copiers \subseteq c.copiers,
           \A k \in c.copiers \ r.copiers : Ends(c, k) \subseteq r.closed,
           ~c.odd /\ c.npc = "none" => r.closed \subseteq {"front", "visitor"},
           ~c.odd /\ c.npc = "dial" => {"out", "target"} \cap r.closed = {},
           ~c.odd /\ c.npc = "copy" /\ c.kind = "assoc" /\ {"out", "target"} \cap r.closed # {} => "peer" \in r.closed
    PROVE  ConnOK(r)
<1>1. c \in Conn
  BY DEF ConnOK
<1>2. ASSUME NEW k, HasClosed(c, k) PROVE HasClosed(r, k)
  BY <1>2 DEF HasClosed, Ends
<1>3. NpcCopiers(r) = NpcCopiers(c)
  BY DEF NpcCopiers
<1>4. ASSUME ~c.odd, Orderly(c) PROVE Orderly(r)
  <2>1. c.npc # "none" => HasClosed(r, "up") /\ HasClosed(r, "down")
    BY <1>2, <1>4 DEF Orderly
  <2>2. c.npc = "copy" => \A k \in NpcCopiers(r) : HasClosed(r, k)
    BY <1>2, <1>3, <1>4 DEF Orderly
  <2>3. QED BY <1>4, <2>1, <2>2 DEF Orderly
<1>5. QED BY <1>4 DEF ConnOK

LEMMA Table ==
    /\ Relay!Src("up") = "front" /\ Relay!Dst("up") = "back"
    /\ Relay!Src("down") = "back" /\ Relay!Dst("down") = "front"
    /\ Relay!Src("up2") = "peer" /\ Relay!Dst("up2") = "out"
    /\ Relay!Src("down2") = "out" /\ Relay!Dst("down2") = "peer"
    /\ Relay!Across("front") = "visitor" /\ Relay!Across("back") = "peer"
    /\ Relay!Across("peer") = "back" /\ Relay!Across("out") = "target"
BY DEF Relay!Src, Relay!Dst, Relay!Across

LEMMA RelayInvKeeps == RelayInv => Relay!TypeOK /\ Relay!QuotaExact /\ Relay!AllClose
<1> SUFFICES ASSUME RelayInv PROVE Relay!TypeOK /\ Relay!QuotaExact /\ Relay!AllClose
  OBVIOUS
<1>1. Relay!TypeOK
  BY WorkingFinite DEF RelayInv, Relay!TypeOK, Conn
<1>2. Relay!QuotaExact
  <2>1. \A S : Relay!Cardinality(S) = Cardinality(S)
    BY Zenon DEF Cardinality, Relay!Cardinality
  <2>2. Working = {v \in Visitor : Relay!Counted(v) /\ conn[v].pc \in {"deal", "copy", "release"}}
    BY DEF Working, Counts, Relay!Counted
  <2>3. QED BY <2>1, <2>2 DEF RelayInv, Relay!QuotaExact
<1>3. ASSUME NEW v \in Visitor, ~conn[v].odd
      PROVE  /\ conn[v].pc = "copy" /\ conn[v].closed # {} /\ conn[v].npc # "dial"
                  => \/ conn[v].copiers \cap Relay!Waits(v) = {}
                     \/ \E k \in conn[v].copiers : Relay!SeesEnd(v, k)
             /\ conn[v].pc = "done" => "front" \in conn[v].closed
             /\ conn[v].pc = "done" /\ conn[v].npc \in {"copy", "done"} =>
                  \/ {"back", "peer"} \subseteq conn[v].closed
                  \/ \E k \in conn[v].copiers : Relay!SeesEnd(v, k)
  <2> DEFINE c == conn[v]
  <2>1. Orderly(c) /\ c \in Conn
    BY <1>3 DEF RelayInv, ConnOK
  <2>2. /\ {"front", "visitor"} \cap c.closed # {} => Relay!SeesEnd(v, "up")
        /\ {"back", "peer"} \cap c.closed # {} => Relay!SeesEnd(v, "down") /\ Relay!SeesEnd(v, "up2")
        /\ {"out", "target"} \cap c.closed # {} => Relay!SeesEnd(v, "down2")
    BY Table DEF Relay!SeesEnd
  <2>3. /\ c.npc # "none" => /\ "up" \in c.copiers \/ {"front", "back"} \subseteq c.closed
                             /\ "down" \in c.copiers \/ "front" \in c.closed
                             /\ c.kind # "assoc" => "down" \in c.copiers \/ "back" \in c.closed
        /\ c.npc = "copy" => "up2" \in c.copiers \/ {"peer", "out"} \subseteq c.closed
        /\ c.npc = "copy" /\ c.kind # "assoc" => "down2" \in c.copiers \/ {"peer", "out"} \subseteq c.closed
    BY <2>1, Table DEF Orderly, HasClosed, Ends, NpcCopiers
  <2>4. Relay!Waits(v) = (IF c.kind = "assoc" THEN {"up"} ELSE {"up", "down"}) \cup {"lost"}
    BY DEF Relay!Waits, Relay!Server
  <2>5. c.npc # "none" /\ c.closed # {} /\ c.npc # "dial" =>
            {"front", "visitor"} \cap c.closed # {} \/ {"back", "peer"} \cap c.closed # {}
            \/ {"out", "target"} \cap c.closed # {}
    BY <2>1 DEF Conn, Relay!End
  <2>6. c.pc = "copy" => c.npc # "none"
    BY <2>1 DEF Orderly
  <2>7. c.npc # "none" => c.npc \in {"dial", "copy", "done"}
    BY <2>1 DEF Conn
  <2> HIDE DEF c
  <2>8. ASSUME c.pc = "copy", c.closed # {}, c.npc # "dial"
        PROVE  c.copiers \cap Relay!Waits(v) = {} \/ \E k \in c.copiers : Relay!SeesEnd(v, k)
    <3>1. "lost" \notin c.copiers /\ c.npc \in {"copy", "done"}
      BY <2>1, <2>6, <2>7, <2>8 DEF Orderly
    <3>2. CASE {"front", "visitor"} \cap c.closed # {}
      BY <2>2, <2>3, <2>4, <3>1, <3>2
    <3>3. CASE {"back", "peer"} \cap c.closed # {}
      BY <2>2, <2>3, <2>4, <3>1, <3>2, <3>3
    <3>4. CASE {"out", "target"} \cap c.closed # {}
      <4>1. c.kind = "assoc" \/ c.npc = "done" => "peer" \in c.closed
        BY <2>1, <3>1, <3>4 DEF Orderly
      <4>2. QED BY <2>2, <2>3, <3>1, <3>3, <3>4, <4>1
    <3>5. QED BY <2>5, <2>6, <2>8, <3>2, <3>3, <3>4
  <2>9. c.pc = "done" => "front" \in c.closed
    BY <2>1 DEF Orderly
  <2>10. ASSUME c.pc = "done", c.npc \in {"copy", "done"}
         PROVE  {"back", "peer"} \subseteq c.closed \/ \E k \in c.copiers : Relay!SeesEnd(v, k)
    <3>1. "up" \notin c.copiers /\ (c.npc = "done" => "peer" \in c.closed)
      BY <2>1, <2>10 DEF Orderly
    <3>2. QED BY <2>2, <2>3, <2>10, <3>1
  <2>11. QED BY <2>8, <2>9, <2>10 DEF c
<1>4. QED BY <1>1, <1>2, <1>3 DEF Relay!AllClose

(* A step of npc, of a copier or of the ends, after which more is closed.  *)
LEMMA ClosingStep ==
    ASSUME RelayInv, NEW v \in Visitor, NEW r \in Conn, Relay!Set(v, r), Relay!Quiet,
           r.kind = conn[v].kind, r.pc = conn[v].pc, r.odd \/ Orderly(r), ConnOK(conn[v])
    PROVE  RelayInv'
<1>1. ConnOK(r)
  BY DEF ConnOK
<1>2. (Counts(r) <=> Counts(conn[v])) /\ nowConn' = nowConn /\ exceeded' \in BOOLEAN /\ crashed' \in BOOLEAN
  BY DEF Counts, Relay!Quiet, RelayInv
<1>3. QED BY <1>1, <1>2, ConnStep

LEMMA RelayServerStep ==
    ASSUME RelayInv, NEW v \in Visitor,
           \/ \E k \in Kinds[v] : Relay!Accept(v, k)
           \/ Relay!CheckFlowAndConnNum(v) \/ Relay!CutConn(v) \/ Relay!Refuse(v) \/ Relay!Leave(v)
           \/ Relay!SendLinkInfo(v) \/ Relay!CopyDone(v) \/ Relay!AddConn(v)
    PROVE  RelayInv'
<1> DEFINE c == conn[v]
<1>1. /\ c \in Conn /\ ConnOK(c) /\ (c.odd \/ Orderly(c)) /\ exceeded \in BOOLEAN /\ crashed \in BOOLEAN
      /\ c.pc \in {"check", "take"} => c.kind # "secret"
  BY DEF RelayInv, ConnOK
<1>2. ASSUME NEW k \in Kinds[v], Relay!Accept(v, k) PROVE RelayInv'
  <2> DEFINE q == CASE k = "secret" -> "deal" [] k = "ws" -> "take" [] OTHER -> "check"
             r == [Relay!NoConn EXCEPT !.kind = k, !.pc = q]
  <2>1. c.pc = "idle" /\ Relay!Set(v, r) /\ Relay!Quiet
    BY <1>2 DEF Relay!Accept, Relay!At
  <2>2. k \in Relay!Kind
    BY KindsAssumption
  <2>3. q \in {"deal", "take", "check"} /\ (q = "deal" <=> k = "secret")
    OBVIOUS
  <2> HIDE DEF q
  <2>4. r \in Conn
    BY <2>2, <2>3 DEF Conn, Relay!NoConn
  <2>5. r.kind = k /\ r.pc = q /\ r.closed = {} /\ r.copiers = {} /\ r.npc = "none"
    BY DEF Relay!NoConn
  <2> HIDE DEF r
  <2>6. ConnOK(r) /\ ~Counts(r) /\ ~Counts(c)
    BY <2>1, <2>3, <2>4, <2>5 DEF ConnOK, Orderly, Counts
  <2>7. QED BY <1>1, <2>1, <2>6, ConnStep DEF Relay!Quiet
\* The handler goes on to q without anything closing.
<1>3. ASSUME NEW q \in {"take", "deal", "release", "done"}, Relay!Set(v, [c EXCEPT !.pc = q]),
             exceeded' = exceeded, crashed' = crashed, q = "take" => c.kind # "secret",
             q \in {"release", "done"} /\ ~c.odd => "front" \in c.closed /\ "up" \notin c.copiers,
             q \in {"take", "deal"} => c.pc \in {"check", "take"}, 
             \/ Counts([c EXCEPT !.pc = q]) /\ Counts(c) /\ nowConn' = nowConn
             \/ ~Counts([c EXCEPT !.pc = q]) /\ ~Counts(c) /\ nowConn' = nowConn
             \/ Counts([c EXCEPT !.pc = q]) /\ ~Counts(c) /\ nowConn' = nowConn + 1
             \/ ~Counts([c EXCEPT !.pc = q]) /\ Counts(c) /\ nowConn' = nowConn - 1
      PROVE  RelayInv'
  <2> DEFINE r == [c EXCEPT !.pc = q]
  <2>1. r \in Conn
    BY <1>1 DEF Conn
  <2>2. r.kind = c.kind /\ r.pc = q /\ r.closed = c.closed /\ r.copiers = c.copiers /\ r.npc = c.npc /\ r.odd = c.odd
    BY <1>1 DEF Conn
  <2>3. /\ Relay!Set(v, r)
        /\ \/ Counts(r) /\ Counts(c) /\ nowConn' = nowConn
           \/ ~Counts(r) /\ ~Counts(c) /\ nowConn' = nowConn
           \/ Counts(r) /\ ~Counts(c) /\ nowConn' = nowConn + 1
           \/ ~Counts(r) /\ Counts(c) /\ nowConn' = nowConn - 1
    BY <1>3
  <2> HIDE DEF r
  <2>4. ASSUME Orderly(c), ~c.odd PROVE Orderly(r)
    BY <1>3, <2>2, <2>4 DEF Orderly, HasClosed, Ends, NpcCopiers
  <2>5. ConnOK(r)
    BY <1>1, <1>3, <2>1, <2>2, <2>4 DEF ConnOK
  <2>6. QED BY <1>1, <1>3, <2>3, <2>5, ConnStep
\* The handler goes on to q and leaves or closes the visitor's connection.
<1>4. CASE Relay!CheckFlowAndConnNum(v)
  <2>1. c.pc = "check" /\ c.kind # "secret" /\ Relay!Quiet
    BY <1>1, <1>4 DEF Relay!CheckFlowAndConnNum, Relay!At
  <2>2. CASE Relay!Set(v, [c EXCEPT !.pc = "take"])
    <3>1. ~Counts([c EXCEPT !.pc = "take"]) /\ ~Counts(c)
      BY <1>1, <2>1 DEF Counts, Conn
    <3>2. QED BY <1>3, <2>1, <2>2, <3>1 DEF Relay!Quiet
  <2>3. CASE Relay!Set(v, [c EXCEPT !.pc = "done", !.closed = @ \cup {"front"}])
    <3> DEFINE r == [c EXCEPT !.pc = "done", !.closed = @ \cup {"front"}]
    <3>1. r \in Conn
      BY <1>1 DEF Conn, Relay!End
    <3>2. /\ r.kind = c.kind /\ r.pc = "done" /\ r.closed = c.closed \cup {"front"}
          /\ r.copiers = c.copiers /\ r.npc = c.npc /\ r.odd = c.odd
      BY <1>1 DEF Conn
    <3>3. Relay!Set(v, r)
      BY <2>3
    <3> HIDE DEF r
    <3>4. ASSUME Orderly(c) PROVE Orderly(r)
      BY <2>1, <3>2, <3>4 DEF Orderly, HasClosed, Ends, NpcCopiers
    <3>5. ConnOK(r) /\ ~Counts(r) /\ ~Counts(c)
      BY <1>1, <2>1, <3>1, <3>2, <3>4 DEF ConnOK, Counts
    <3>6. QED BY <1>1, <2>1, <3>3, <3>5, ConnStep DEF Relay!Quiet
  <2>4. QED BY <1>4, <2>2, <2>3 DEF Relay!CheckFlowAndConnNum
<1>5. CASE Relay!CutConn(v)
  <2>1. c.pc = "take" /\ c.kind # "secret" /\ nowConn' = nowConn + 1 /\ exceeded' = exceeded /\ crashed' = crashed
        /\ Relay!Set(v, [c EXCEPT !.pc = "deal"])
    BY <1>1, <1>5 DEF Relay!CutConn, Relay!At
  <2>2. Counts([c EXCEPT !.pc = "deal"]) /\ ~Counts(c)
    BY <1>1, <2>1 DEF Counts, Conn
  <2>3. QED BY <1>3, <2>1, <2>2
<1>6. CASE Relay!Refuse(v) \/ Relay!Leave(v) \/ Relay!SendLinkInfo(v)
  <2>1. c.pc = "deal" /\ Relay!Quiet
    BY <1>6 DEF Relay!Refuse, Relay!Leave, Relay!SendLinkInfo, Relay!At
  <2>2. ASSUME ~c.odd PROVE c.npc = "none" /\ c.copiers = {} /\ c.closed \subseteq {"front", "visitor"}
    BY <1>1, <2>1, <2>2 DEF Orderly
  <2>3. ASSUME NEW r \in Conn, Relay!Set(v, r), r.kind = c.kind, r.pc \in {"release", "copy"}, r.odd \/ Orderly(r)
        PROVE  RelayInv'
    <3>1. ConnOK(r) /\ (Counts(r) <=> Counts(c))
      BY <2>1, <2>3 DEF ConnOK, Counts
    <3>2. QED BY <1>1, <2>1, <2>3, <3>1, ConnStep DEF Relay!Quiet
  <2>4. CASE Relay!Refuse(v)
    <3> DEFINE r == [c EXCEPT !.pc = "release", !.closed = @ \cup {"front"}]
    <3>1. r \in Conn
      BY <1>1 DEF Conn, Relay!End
    <3>2. /\ r.kind = c.kind /\ r.pc = "release" /\ r.closed = c.closed \cup {"front"}
          /\ r.copiers = c.copiers /\ r.npc = c.npc /\ r.odd = c.odd
      BY <1>1 DEF Conn
    <3>3. Relay!Set(v, r)
      BY <2>4 DEF Relay!Refuse
    <3> HIDE DEF r
    <3>4. r.odd \/ Orderly(r)
      BY <2>2, <3>2 DEF Orderly
    <3>5. QED BY <2>3, <3>1, <3>2, <3>3, <3>4
  <2>5. CASE Relay!Leave(v)
    <3> DEFINE r == [c EXCEPT !.pc = "release", !.odd = TRUE]
    <3>1. r \in Conn
      BY <1>1 DEF Conn
    <3>2. r.kind = c.kind /\ r.pc = "release" /\ r.odd
      BY <1>1 DEF Conn
    <3>3. Relay!Set(v, r)
      BY <2>5 DEF Relay!Leave
    <3>4. QED BY <2>3, <3>1, <3>2, <3>3
  <2>6. CASE Relay!SendLinkInfo(v)
    <3> DEFINE r == [c EXCEPT !.pc = "copy", !.copiers = Relay!Server, !.npc = "dial"]
    <3>1. r \in Conn
      BY <1>1 DEF Conn
    <3>2. /\ r.kind = c.kind /\ r.pc = "copy" /\ r.closed = c.closed
          /\ r.copiers = Relay!Server /\ r.npc = "dial" /\ r.odd = c.odd
      BY <1>1 DEF Conn
    <3>3. Relay!Set(v, r)
      BY <2>6 DEF Relay!SendLinkInfo
    <3> HIDE DEF r
    <3>4. r.odd \/ Orderly(r)
      BY <2>2, <3>2 DEF Orderly, HasClosed, Relay!Server
    <3>5. QED BY <2>3, <3>1, <3>2, <3>3, <3>4
  <2>7. QED BY <1>6, <2>4, <2>5, <2>6
<1>7. CASE Relay!CopyDone(v)
  <2>1. c.pc = "copy" /\ "up" \notin c.copiers /\ Relay!Quiet /\ Relay!Set(v, [c EXCEPT !.pc = "release"])
    BY <1>7 DEF Relay!CopyDone, Relay!At, Relay!Waits, Relay!Server
  <2>2. ASSUME ~c.odd PROVE "front" \in c.closed
    BY <1>1, <2>1, <2>2, Table DEF Orderly, HasClosed, Ends
  <2>3. Counts([c EXCEPT !.pc = "release"]) <=> Counts(c)
    BY <1>1, <2>1 DEF Counts, Conn
  <2>4. QED BY <1>3, <2>1, <2>2, <2>3 DEF Relay!Quiet
<1>8. CASE Relay!AddConn(v)
  <2>1. c.pc = "release" /\ exceeded' = exceeded /\ crashed' = crashed /\ Relay!Set(v, [c EXCEPT !.pc = "done"])
        /\ nowConn' = IF c.kind # "secret" THEN nowConn - 1 ELSE nowConn
    BY <1>8 DEF Relay!AddConn, Relay!At, Relay!Counted
  <2>2. ASSUME ~c.odd PROVE "front" \in c.closed /\ "up" \notin c.copiers
    BY <1>1, <2>1, <2>2 DEF Orderly
  <2>3. ~Counts([c EXCEPT !.pc = "done"]) /\ (Counts(c) <=> c.kind # "secret")
    BY <1>1, <2>1 DEF Counts, Conn
  <2>4. QED BY <1>3, <2>1, <2>2, <2>3
<1>9. QED BY <1>2, <1>4, <1>5, <1>6, <1>7, <1>8

LEMMA RelayCopyStep ==
    ASSUME RelayInv, NEW v \in Visitor,
           \/ Relay!DialTarget(v) \/ Relay!DialFails(v) \/ Relay!Unauthorised(v)
           \/ \E k \in Relay!Server \cup Relay!Npc : \/ Relay!CopierEnds(v, k) \/ Relay!WriteFails(v, k)
                                                     \/ Relay!Exceed(v, k)
           \/ Relay!Ends(v, "visitor") \/ Relay!Ends(v, "target")
    PROVE  RelayInv'
<1> DEFINE c == conn[v]
<1>1. /\ c \in Conn /\ ConnOK(c) /\ (c.odd \/ Orderly(c)) /\ exceeded \in BOOLEAN /\ crashed \in BOOLEAN
  BY DEF RelayInv, ConnOK
<1>2. CASE Relay!DialTarget(v)
  <2> DEFINE K == IF c.kind = "assoc" THEN Relay!HandleUdp ELSE Relay!Npc
             r == [c EXCEPT !.npc = "copy", !.copiers = @ \cup K]
  <2>1. c.npc = "dial" /\ Relay!Set(v, r) /\ Relay!Quiet
    BY <1>2 DEF Relay!DialTarget
  <2>2. K = NpcCopiers(c) /\ K \subseteq Relay!Npc
    BY DEF NpcCopiers, Relay!HandleUdp, Relay!Npc
  <2> HIDE DEF K
  <2>3. r \in Conn
    BY <1>1, <2>2 DEF Conn
  <2>4. /\ r.kind = c.kind /\ r.pc = c.pc /\ r.closed = c.closed /\ r.copiers = c.copiers \cup K
        /\ r.npc = "copy" /\ r.odd = c.odd
    BY <1>1 DEF Conn
  <2> HIDE DEF r
  <2>5. ASSUME Orderly(c) PROVE Orderly(r)
    <3>1. \A k \in NpcCopiers(r) : HasClosed(r, k)
      BY <2>2, <2>4 DEF NpcCopiers, HasClosed
    <3>2. HasClosed(r, "up") /\ HasClosed(r, "down")
      BY <2>1, <2>4, <2>5 DEF Orderly, HasClosed, Ends
    <3>3. "lost" \notin r.copiers /\ (r.pc \in {"release", "done"} => "up" \notin r.copiers)
      BY <2>1, <2>2, <2>4, <2>5 DEF Orderly, Relay!Npc
    <3>4. QED BY <2>1, <2>4, <2>5, <3>1, <3>2, <3>3 DEF Orderly
  <2>6. QED BY <1>1, <2>1, <2>3, <2>4, <2>5, ClosingStep
<1>3. CASE Relay!DialFails(v)
  <2> DEFINE r == [c EXCEPT !.npc = "done", !.closed = @ \cup {"peer", "out"}]
  <2>1. c.npc = "dial" /\ Relay!Set(v, r) /\ Relay!Quiet
    BY <1>3 DEF Relay!DialFails
  <2>2. r \in Conn
    BY <1>1 DEF Conn, Relay!End
  <2>3. /\ r.kind = c.kind /\ r.pc = c.pc /\ r.closed = c.closed \cup {"peer", "out"} /\ r.copiers = c.copiers
        /\ r.npc = "done" /\ r.odd = c.odd
    BY <1>1 DEF Conn
  <2> HIDE DEF r
  <2>4. ASSUME Orderly(c) PROVE Orderly(r)
    <3>1. HasClosed(r, "up") /\ HasClosed(r, "down")
      BY <2>1, <2>3, <2>4 DEF Orderly, HasClosed, Ends
    <3>2. QED BY <2>1, <2>3, <2>4, <3>1 DEF Orderly
  <2>5. QED BY <1>1, <2>1, <2>2, <2>3, <2>4, ClosingStep
\* An odd end: nothing is promised of the connection any more.
<1>4. ASSUME NEW r \in Conn, Relay!Set(v, r), r.kind = c.kind, r.pc = c.pc, r.odd,
             nowConn' = nowConn, exceeded' \in BOOLEAN, crashed' \in BOOLEAN
      PROVE  RelayInv'
  <2>1. ConnOK(r) /\ (Counts(r) <=> Counts(c))
    BY <1>1, <1>4 DEF ConnOK, Counts
  <2>2. QED BY <1>4, <2>1, ConnStep
<1>5. CASE Relay!Unauthorised(v)
  <2> DEFINE r == [c EXCEPT !.odd = TRUE, !.copiers = @ \ {"up"}, !.closed = @ \cup {"front"}]
  <2>1. r \in Conn
    BY <1>1 DEF Conn, Relay!End
  <2>2. r.kind = c.kind /\ r.pc = c.pc /\ r.odd
    BY <1>1 DEF Conn
  <2>3. Relay!Set(v, r) /\ Relay!Quiet
    BY <1>5 DEF Relay!Unauthorised
  <2> HIDE DEF r
  <2>4. QED BY <1>1, <1>4, <2>1, <2>2, <2>3 DEF Relay!Quiet
<1>6. ASSUME NEW k \in Relay!Server \cup Relay!Npc, Relay!Exceed(v, k) PROVE RelayInv'
  <2> DEFINE K == (c.copiers \ {k}) \cup IF c.kind = "tcp" THEN {} ELSE {"lost"}
             r == [c EXCEPT !.odd = TRUE, !.copiers = K]
  <2>1. Relay!Set(v, r) /\ exceeded' = TRUE /\ crashed' = (c.kind = "ws") /\ nowConn' = nowConn
    BY <1>6 DEF Relay!Exceed
  <2>2. K \subseteq Relay!Server \cup Relay!Npc \cup {"lost"}
    BY <1>1 DEF Conn
  <2> HIDE DEF K
  <2>3. r \in Conn
    BY <1>1, <2>2 DEF Conn
  <2>4. r.kind = c.kind /\ r.pc = c.pc /\ r.odd
    BY <1>1 DEF Conn
  <2> HIDE DEF r
  <2>5. exceeded' \in BOOLEAN /\ crashed' \in BOOLEAN
    BY <2>1
  <2>6. QED BY <1>4, <2>1, <2>3, <2>4, <2>5
<1>7. ASSUME NEW k \in Relay!Server \cup Relay!Npc, Relay!CopierEnds(v, k) \/ Relay!WriteFails(v, k)
      PROVE  RelayInv'
  <2> DEFINE r == Relay!Ended(v, k)
  <2>1. k \in c.copiers /\ Relay!Set(v, r) /\ Relay!Quiet
    BY <1>7 DEF Relay!CopierEnds, Relay!WriteFails, Relay!Runs
  <2>2. Relay!Closes(v, k) = Ends(c, k)
    BY DEF Relay!Closes, Ends
  <2>3. Ends(c, k) \subseteq Relay!End
    BY Table DEF Ends, Relay!Server, Relay!Npc, Relay!End
  <2>4. r = [c EXCEPT !.copiers = @ \ {k}, !.closed = @ \cup Ends(c, k)]
    BY <2>2 DEF Relay!Ended
  <2> HIDE DEF r
  <2>5. r \in Conn
    BY <1>1, <2>3, <2>4 DEF Conn
  <2>6. /\ r.kind = c.kind /\ r.pc = c.pc /\ r.closed = c.closed \cup Ends(c, k) /\ r.copiers = c.copiers \ {k}
        /\ r.npc = c.npc /\ r.odd = c.odd
    BY <1>1, <2>4 DEF Conn
  <2>7. ASSUME ~c.odd
        PROVE  /\ c.npc # "none"
               /\ c.npc = "dial" => {"out", "target"} \cap r.closed = {}
               /\ c.npc = "copy" /\ c.kind = "assoc" /\ {"out", "target"} \cap r.closed # {} => "peer" \in r.closed
    <3>1. Orderly(c)
      BY <1>1, <2>7
    <3>2. c.npc # "none"
      BY <2>1, <3>1 DEF Orderly
    <3>3. k \in {"up", "down"} => {"out", "target", "peer"} \cap Ends(c, k) = {}
      BY Table DEF Ends
    <3>4. k \in {"up2", "down2"} => "peer" \in Ends(c, k)
      BY Table DEF Ends
    <3>5. c.npc = "dial" => {"out", "target"} \cap r.closed = {}
      BY <2>1, <2>6, <3>1, <3>3 DEF Orderly, Relay!Server
    <3>6. c.npc = "copy" /\ c.kind = "assoc" /\ {"out", "target"} \cap r.closed # {} => "peer" \in r.closed
      BY <2>6, <3>1, <3>3, <3>4 DEF Orderly, Relay!Server, Relay!Npc
    <3>7. QED BY <3>2, <3>5, <3>6
  <2>8. ConnOK(r)
    BY <1>1, <2>1, <2>5, <2>6, <2>7, MoreCloses
  <2>9. QED BY <1>1, <2>1, <2>5, <2>6, <2>8, ClosingStep DEF ConnOK
<1>8. ASSUME NEW e \in {"visitor", "target"}, Relay!Ends(v, e) PROVE RelayInv'
  <2> DEFINE r == [c EXCEPT !.closed = @ \cup {e}]
  <2>1. Relay!Set(v, r) /\ Relay!Quiet /\ (e = "target" => c.npc = "copy" /\ c.kind # "assoc")
    BY <1>8 DEF Relay!Ends
  <2>2. r \in Conn
    BY <1>1 DEF Conn, Relay!End
  <2>3. /\ r.kind = c.kind /\ r.pc = c.pc /\ r.closed = c.closed \cup {e} /\ r.copiers = c.copiers
        /\ r.npc = c.npc /\ r.odd = c.odd
    BY <1>1 DEF Conn
  <2> HIDE DEF r
  <2>4. ASSUME ~c.odd
        PROVE  /\ c.npc = "none" => r.closed \subseteq {"front", "visitor"}
               /\ c.npc = "dial" => {"out", "target"} \cap r.closed = {}
               /\ c.npc = "copy" /\ c.kind = "assoc" /\ {"out", "target"} \cap r.closed # {} => "peer" \in r.closed
    BY <1>1, <2>1, <2>3, <2>4 DEF Orderly
  <2>5. ConnOK(r)
    BY <1>1, <2>2, <2>3, <2>4, MoreCloses
  <2>6. QED BY <1>1, <2>1, <2>2, <2>3, <2>5, ClosingStep DEF ConnOK
<1>9. QED BY <1>2, <1>3, <1>5, <1>6, <1>7, <1>8

LEMMA TunnelLostStep == RelayInv /\ Relay!TunnelLost => RelayInv'
<1> SUFFICES ASSUME RelayInv, Relay!TunnelLost PROVE RelayInv'
  OBVIOUS
<1> DEFINE lost(c) == IF c.npc = "none" THEN c ELSE [c EXCEPT !.closed = @ \cup {"back", "peer"}]
<1>1. conn' = [v \in Visitor |-> lost(conn[v])] /\ Relay!Quiet
  BY DEF Relay!TunnelLost
<1>2. ASSUME NEW v \in Visitor
      PROVE  ConnOK(lost(conn[v])) /\ (Counts(lost(conn[v])) <=> Counts(conn[v]))
  <2> DEFINE c == conn[v]  r == [c EXCEPT !.closed = @ \cup {"back", "peer"}]
  <2>1. c \in Conn /\ ConnOK(c) /\ (c.odd \/ Orderly(c))
    BY DEF RelayInv, ConnOK
  <2>2. r \in Conn
    BY <2>1 DEF Conn, Relay!End
  <2>3. /\ r.kind = c.kind /\ r.pc = c.pc /\ r.closed = c.closed \cup {"back", "peer"} /\ r.copiers = c.copiers
        /\ r.npc = c.npc /\ r.odd = c.odd
    BY <2>1 DEF Conn
  <2>4. lost(c) = IF c.npc = "none" THEN c ELSE r
    OBVIOUS
  <2> HIDE DEF c, r, lost
  <2>5. ASSUME ~c.odd
        PROVE  /\ c.npc = "dial" => {"out", "target"} \cap r.closed = {}
               /\ c.npc = "copy" /\ c.kind = "assoc" /\ {"out", "target"} \cap r.closed # {} => "peer" \in r.closed
    BY <2>1, <2>3, <2>5 DEF Orderly
  <2>6. c.npc # "none" => ConnOK(r)
    BY <2>1, <2>2, <2>3, <2>5, MoreCloses
  <2>7. Counts(r) <=> Counts(c)
    BY <2>3 DEF Counts
  <2>8. QED BY <2>1, <2>4, <2>6, <2>7 DEF c
<1> HIDE DEF lost
<1>3. \A v \in Visitor : conn'[v] = lost(conn[v])
  BY <1>1
<1>4. conn' \in [Visitor -> Conn]
  BY <1>1, <1>2 DEF ConnOK
<1>5. Working' = Working
  BY <1>2, <1>3 DEF Working
<1>6. \A v \in Visitor : ConnOK(conn'[v])
  BY <1>2, <1>3
<1>7. QED BY <1>1, <1>4, <1>5, <1>6 DEF RelayInv, Relay!Quiet

LEMMA RelayStep == RelayInv /\ Relay!Next => RelayInv'
BY RelayServerStep, RelayCopyStep, TunnelLostStep DEF Relay!Next

LEMMA RelayStill == RelayInv /\ UNCHANGED relayVars => RelayInv'
BY DEF relayVars, RelayInv, Working

-----------------------------------------------------------------------------
(* Health checks.                                                          *)

(* A tunnel that is checked has targets, each listed once, and fails after *)
(* some failures (health.go:31); that there is no list yet is no list.     *)
TargetsListed ==
    /\ Targets \in Seq(Health!T) /\ Targets # <<>> /\ Health!IsInjective(Targets)
    /\ Health!Nil \notin Seq(Health!T)
    /\ {MaxFail, MaxWire, MaxRemoved, Losses} \subseteq Nat /\ MaxFail > 0

(* The last report about a target on its way says how it is.               *)
Reported ==
    \A i \in 1 .. Len(signal) :
        (\A j \in i + 1 .. Len(signal) : signal[j][1] # signal[i][1]) =>
            (signal[i][2] <=> healthMap[signal[i][1]] < MaxFail)

(* A target about which no report is on its way is used if it is well, and *)
(* one that is not used can be put back.                                   *)
Unreported(t) == \A i \in 1 .. Len(signal) : signal[i][1] # t

Used ==
    ~edited =>
        /\ \A t \in Health!T \ out : Unreported(t) => (Health!InUse(t) <=> healthMap[t] < MaxFail)
        /\ \A t \in Health!T : ~Health!InUse(t) => \E i \in 1 .. Len(RemoveArr) : RemoveArr[i] = t
        /\ TargetArr = Health!Nil => RemoveArr = <<>>

HealthInv == Health!HealthTypeOK /\ Reported /\ Used

(* A set of naturals that is not empty has a smallest element.             *)
Below == {ss \in Nat \X Nat : ss[1] < ss[2]}

LEMMA Smallest ==
    ASSUME NEW S \in SUBSET Nat, S # {}
    PROVE  \E n \in S : \A m \in S : n <= m
<1>1. IsWellFoundedOn(Below, Nat)
  BY NatLessThanWellFounded DEF OpToRel, Below
<1>2. PICK n \in S : \A m \in S : <<m, n>> \notin Below
  BY <1>1, WFMin, Zenon
<1>3. \A m \in S : m \in Nat /\ ~ m < n
  BY <1>2 DEF Below
<1>4. n \in Nat
  OBVIOUS
<1>5. QED BY <1>3, <1>4

(* The first element is as the last one leaves the others.                 *)
LEMMA TailElements ==
    ASSUME NEW S, NEW s \in Seq(S), s # <<>>
    PROVE  /\ Tail(s) \in Seq(S) /\ s[1] \in S /\ Head(s) = s[1]
           /\ Len(s) = Len(Tail(s)) + 1 /\ Len(Tail(s)) \in Nat
           /\ \A i \in 1 .. Len(Tail(s)) : i + 1 \in 1 .. Len(s) /\ Tail(s)[i] = s[i + 1]
OBVIOUS

(* The elements of a sequence over a set are of the set.                   *)
LEMMA Elements ==
    ASSUME NEW S, NEW s \in Seq(S)
    PROVE  Len(s) \in Nat /\ DOMAIN s = 1 .. Len(s) /\ \A i \in 1 .. Len(s) : s[i] \in S
OBVIOUS

(* An element put at the end is the last, and the others are as they were. *)
LEMMA Appended ==
    ASSUME NEW S, NEW s \in Seq(S), NEW e \in S
    PROVE  /\ Append(s, e) \in Seq(S) /\ Len(Append(s, e)) = Len(s) + 1
           /\ \A i \in 1 .. Len(s) : Append(s, e)[i] = s[i]
           /\ Append(s, e)[Len(s) + 1] = e
OBVIOUS

(* What a sequence is from its k-th element on.                            *)
LEMMA RestOf ==
    ASSUME NEW S, NEW s \in Seq(S), NEW k \in 1 .. Len(s) + 1
    PROVE  /\ SubSeq(s, k, Len(s)) \in Seq(S)
           /\ Len(SubSeq(s, k, Len(s))) = Len(s) + 1 - k
           /\ \A i \in 1 .. Len(s) + 1 - k : SubSeq(s, k, Len(s))[i] = s[k + i - 1]
<1> DEFINE n == Len(s) + 1 - k
           f == [i \in 1 .. n |-> s[k + i - 1]]
<1>1. n \in Nat /\ Len(s) \in Nat
  OBVIOUS
<1>2. \A i \in 1 .. n : k + i - 1 \in 1 .. Len(s)
  BY <1>1
<1>3. f \in Seq(S) /\ Len(f) = n
  BY <1>1, <1>2
<1>4. SubSeq(s, k, Len(s)) = f
  BY <1>1
<1> QED BY <1>3, <1>4

(* The place after one.                                                    *)
LEMMA NextPlace ==
    ASSUME NEW n \in Nat, NEW k \in 1 .. n
    PROVE  k + 1 \in 1 .. n + 1 /\ n + 1 - (k + 1) = n - k
OBVIOUS

(* A sequence is what its elements make it.                                *)
LEMMA IsItsElements ==
    ASSUME NEW S, NEW s \in Seq(S)
    PROVE  s = [i \in 1 .. Len(s) |-> s[i]]
OBVIOUS

(* Its rest from an element on, without that element.                      *)
LEMMA RestTail ==
    ASSUME NEW S, NEW s \in Seq(S), NEW k \in 1 .. Len(s) + 1, SubSeq(s, k, Len(s)) # <<>>
    PROVE  /\ k \in 1 .. Len(s) /\ SubSeq(s, k, Len(s))[1] = s[k]
           /\ k + 1 \in 1 .. Len(s) + 1
           /\ Tail(SubSeq(s, k, Len(s))) = SubSeq(s, k + 1, Len(s))
<1>1. Len(s) \in Nat
  OBVIOUS
<1>2. SubSeq(s, k, Len(s)) = [i \in 1 .. Len(s) + 1 - k |-> s[k + i - 1]]
  BY <1>1
<1>3. k \in 1 .. Len(s)
  <2>1. CASE k = Len(s) + 1
    BY <1>1, <1>2, <2>1
  <2>2. CASE k # Len(s) + 1
    BY <1>1, <2>2
  <2> QED BY <2>1, <2>2
<1>4. k + 1 \in 1 .. Len(s) + 1 /\ k \in Nat
  BY <1>1, <1>3
<1>5. SubSeq(s, k, Len(s))[1] = s[k]
  BY <1>1, <1>2, <1>3
<1>6. Tail(SubSeq(s, k, Len(s))) = SubSeq(s, k + 1, Len(s))
  <2>1. SubSeq(s, k + 1, Len(s)) = [i \in 1 .. Len(s) - k |-> s[k + i]]
    BY <1>1, <1>4
  <2> DEFINE f == [i \in 1 .. Len(s) + 1 - k |-> s[k + i - 1]]
  <2>2. Len(f) = Len(s) + 1 - k /\ f # <<>>
    BY <1>1, <1>3
  <2>3. Tail(f) = [i \in 1 .. Len(s) - k |-> f[i + 1]]
    <3>1. f \in Seq(S)
      <4>1. \A i \in 1 .. Len(s) + 1 - k : k + i - 1 \in 1 .. Len(s)
        BY <1>1, <1>4
      <4> QED BY <1>1, <1>4, <4>1
    <3>2. Tail(f) \in Seq(S) /\ Len(Tail(f)) = Len(s) - k
          /\ \A i \in 1 .. Len(Tail(f)) : Tail(f)[i] = f[i + 1]
      <4> HIDE DEF f
      <4>1. Len(Tail(f)) = Len(f) - 1 /\ Tail(f) \in Seq(S)
            /\ \A i \in 1 .. Len(Tail(f)) : Tail(f)[i] = f[i + 1]
        BY <2>2, <3>1
      <4> QED BY <1>1, <1>4, <2>2, <4>1
    <3> HIDE DEF f
    <3>3. Tail(f) = [i \in 1 .. Len(Tail(f)) |-> Tail(f)[i]]
      BY <3>2, IsItsElements
    <3> QED BY <3>2, <3>3
  <2>4. \A i \in 1 .. Len(s) - k : f[i + 1] = s[k + i]
    BY <1>1, <1>3
  <2> HIDE DEF f
  <2>5. Tail(f) = [i \in 1 .. Len(s) - k |-> s[k + i]]
    BY <2>3, <2>4
  <2> QED BY <1>2, <2>1, <2>5 DEF f
<1> QED BY <1>3, <1>4, <1>5, <1>6

(* The elements of two sequences, one after the other.                     *)
LEMMA Both ==
    ASSUME NEW S, NEW s \in Seq(S), NEW t \in Seq(S)
    PROVE  /\ s \o t \in Seq(S)
           /\ Len(s \o t) = Len(s) + Len(t)
           /\ \A i \in 1 .. Len(s \o t) :
                 (s \o t)[i] = IF i <= Len(s) THEN s[i] ELSE t[i - Len(s)]
OBVIOUS

(* What RemoveArrVal leaves (util.go:412): everything but one element of   *)
(* the value, and all of it where there is none.                           *)
LEMMA Removed ==
    ASSUME NEW S, NEW s \in Seq(S), NEW e, NEW w, w = Health!Without(s, e)
    PROVE  /\ w \in Seq(S)
           /\ Len(w) \in Nat /\ Len(w) <= Len(s)
           /\ \A i \in 1 .. Len(w) : \E k \in 1 .. Len(s) : w[i] = s[k]
           /\ \A i \in 1 .. Len(s) : s[i] # e => \E k \in 1 .. Len(w) : w[k] = s[i]
           /\ Health!IsInjective(s) => Health!IsInjective(w) /\ \A i \in 1 .. Len(w) : w[i] # e
<1>1. Len(s) \in Nat /\ DOMAIN s = 1 .. Len(s)
  OBVIOUS
<1>2. CASE ~ \E i \in 1 .. Len(s) : s[i] = e
  <2>1. w = s
    BY <1>2 DEF Health!Without, Health!RemoveFirst
  <2> QED BY <1>1, <1>2, <2>1
<1>3. CASE \E i \in 1 .. Len(s) : s[i] = e
  <2> DEFINE K == {i \in 1 .. Len(s) : s[i] = e}
  <2>1. PICK k \in 1 .. Len(s) : s[k] = e /\ w = Health!RemoveAt(s, k)
    <3>1. K \subseteq Nat /\ K # {}
      BY <1>1, <1>3
    <3>2. PICK m \in K : \A j \in K : m <= j
      <4> HIDE DEF K
      <4> QED BY <3>1, Smallest
    <3>4. Health!SelectInSeq(s, LAMBDA v : v = e) = m
      <4>1. Health!SelectInSeq(s, LAMBDA v : v = e) = Health!Min(K)
        BY <3>1 DEF Health!SelectInSeq
      <4>2. \A x \in K : (\A j \in K : x <= j) => x = m
        BY <1>1, <3>2
      <4> HIDE DEF K
      <4> QED BY <3>2, <4>1, <4>2 DEF Health!Min
    <3> QED BY <1>3, <3>4 DEF Health!Without, Health!RemoveFirst
  <2>2. w = SubSeq(s, 1, k - 1) \o SubSeq(s, k + 1, Len(s))
    BY <2>1 DEF Health!RemoveAt
  <2>3. /\ w \in Seq(S) /\ Len(w) = Len(s) - 1
        /\ \A i \in 1 .. Len(w) : w[i] = IF i < k THEN s[i] ELSE s[i + 1]
    <3> DEFINE u == SubSeq(s, 1, k - 1)
               v == SubSeq(s, k + 1, Len(s))
    <3>1. u \in Seq(S) /\ Len(u) = k - 1 /\ \A i \in 1 .. Len(u) : u[i] = s[i]
      BY <1>1
    <3>2. v \in Seq(S) /\ Len(v) = Len(s) - k /\ \A i \in 1 .. Len(v) : v[i] = s[k + i]
      <4>0. k + 1 \in 1 .. Len(s) + 1 /\ Len(s) + 1 - (k + 1) = Len(s) - k
        BY <1>1, NextPlace
      <4>1. v \in Seq(S) /\ Len(v) = Len(s) - k
        BY <4>0, RestOf
      <4>2. \A i \in 1 .. Len(s) - k : v[i] = s[k + i]
        BY <1>1
      <4> HIDE DEF v
      <4> QED BY <4>1, <4>2
    <3> HIDE DEF u, v
    <3>3. u \o v \in Seq(S) /\ Len(u \o v) = Len(u) + Len(v)
          /\ \A i \in 1 .. Len(u \o v) : (u \o v)[i] = IF i <= Len(u) THEN u[i] ELSE v[i - Len(u)]
      BY <3>1, <3>2, Both
    <3>4. w = u \o v
      BY <2>2 DEF u, v
    <3>5. Len(w) = Len(s) - 1
      <4>1. Len(w) = (k - 1) + (Len(s) - k)
        BY <3>1, <3>2, <3>3, <3>4
      <4> QED BY <1>1, <4>1
    <3>6. ASSUME NEW i \in 1 .. Len(w) PROVE w[i] = IF i < k THEN s[i] ELSE s[i + 1]
      <4>1. CASE i < k
        <5>1. i \in 1 .. Len(u) /\ i <= Len(u)
          BY <1>1, <3>1, <3>5, <4>1
        <5> QED BY <3>1, <3>3, <3>4, <4>1, <5>1
      <4>2. CASE ~ i < k
        <5>1. i - Len(u) \in 1 .. Len(v) /\ ~ i <= Len(u) /\ k + (i - Len(u)) = i + 1
          BY <1>1, <3>1, <3>2, <3>5, <4>2
        <5> QED BY <3>2, <3>3, <3>4, <4>2, <5>1
      <4> QED BY <4>1, <4>2
    <3> QED BY <3>3, <3>4, <3>5, <3>6
  <2>4. Len(w) \in Nat /\ Len(w) <= Len(s)
    BY <1>1, <2>3
  <2>5. \A i \in 1 .. Len(w) : i \in 1 .. Len(s) /\ i + 1 \in 1 .. Len(s)
    BY <1>1, <2>3
  <2>6. \A i \in 1 .. Len(s) : s[i] # e => \E j \in 1 .. Len(w) : w[j] = s[i]
    <3> SUFFICES ASSUME NEW i \in 1 .. Len(s), s[i] # e
                 PROVE  \E j \in 1 .. Len(w) : w[j] = s[i]
      OBVIOUS
    <3>1. CASE i < k
      <4>1. i \in 1 .. Len(w)
        BY <1>1, <2>3, <3>1
      <4> QED BY <2>3, <3>1, <4>1
    <3>2. CASE ~ i < k
      <4>1. i - 1 \in 1 .. Len(w) /\ ~ i - 1 < k /\ (i - 1) + 1 = i
        BY <1>1, <2>1, <2>3, <3>2
      <4> QED BY <2>3, <4>1
    <3> QED BY <3>1, <3>2
  <2>7. Health!IsInjective(s) => Health!IsInjective(w) /\ \A i \in 1 .. Len(w) : w[i] # e
    <3> SUFFICES ASSUME Health!IsInjective(s)
                 PROVE  Health!IsInjective(w) /\ \A i \in 1 .. Len(w) : w[i] # e
      OBVIOUS
    <3> DEFINE at(i) == IF i < k THEN i ELSE i + 1
    <3>1. \A i \in 1 .. Len(w) : at(i) \in 1 .. Len(s) /\ at(i) # k /\ w[i] = s[at(i)]
      BY <1>1, <2>3, <2>5
    <3>2. \A i, j \in 1 .. Len(w) : at(i) = at(j) => i = j
      BY <1>1, <2>3
    <3>3. \A a, b \in 1 .. Len(s) : s[a] = s[b] => a = b
      BY <1>1 DEF Health!IsInjective
    <3>4. DOMAIN w = 1 .. Len(w)
      BY <2>3
    <3> HIDE DEF at
    <3> QED BY <2>1, <3>1, <3>2, <3>3, <3>4 DEF Health!IsInjective
  <2>8. \A i \in 1 .. Len(w) : \E j \in 1 .. Len(s) : w[i] = s[j]
    BY <2>3, <2>5
  <2> QED BY <2>3, <2>4, <2>6, <2>7, <2>8
<1> QED BY <1>2, <1>3

(* Which targets there are.                                                *)
LEMMA TargetsAre ==
    ASSUME TargetsListed
    PROVE  /\ Len(Targets) \in Nat /\ Len(Targets) > 0 /\ DOMAIN Targets = 1 .. Len(Targets)
           /\ \A t : t \in Health!T <=> \E i \in 1 .. Len(Targets) : Targets[i] = t
           /\ MaxFail \in Nat /\ MaxFail > 0
<1>1. DOMAIN Targets = 1 .. Len(Targets) /\ Len(Targets) \in Nat
  BY Elements DEF TargetsListed
<1>2. Len(Targets) > 0
  BY <1>1 DEF TargetsListed
<1> QED BY <1>1, <1>2 DEF TargetsListed, Health!T, Health!Range

(* At first no report is on its way and every target is in use.             *)
LEMMA HealthInitInv ==
    ASSUME TargetsListed, Health!HealthInit
    PROVE  HealthInv
<1>1. Health!Idle \in [rest : Health!Rests, err : {"not tried", "failed", "fine"}]
  <2>1. <<>> = SubSeq(Targets, Len(Targets) + 1, Len(Targets))
    <3>1. Len(Targets) + 1 \in 1 .. Len(Targets) + 1 /\ Len(Targets) + 1 - (Len(Targets) + 1) = 0
      BY TargetsAre
    <3>2. Len(SubSeq(Targets, Len(Targets) + 1, Len(Targets))) = 0
          /\ SubSeq(Targets, Len(Targets) + 1, Len(Targets)) \in Seq(Health!T)
      BY <3>1, RestOf DEF TargetsListed
    <3> QED BY <3>2
  <2> QED BY <2>1, TargetsAre DEF Health!Idle, Health!Rests
<1>2. Health!HealthTypeOK
  <2>1. healthMap \in [Health!T -> 0 .. 2 * MaxFail - 1]
    BY TargetsAre DEF Health!HealthInit
  <2>2. nowIndex \in 1 .. Len(Targets) /\ losses \in 0 .. Losses /\ Len(signal) <= MaxWire
        /\ Len(RemoveArr) <= MaxRemoved
    BY TargetsAre DEF Health!HealthInit, TargetsListed
  <2>3. check \in [Checker -> [rest : Health!Rests, err : {"not tried", "failed", "fine"}]]
        /\ \A c \in Checker : check[c].err # "not tried" => check[c].rest # <<>>
    BY <1>1 DEF Health!HealthInit, Health!Idle
  <2>4. {taking, edited, healthPanicked} \subseteq BOOLEAN /\ out \subseteq Health!T
        /\ healthSession \in {"waits", "ended"}
    BY DEF Health!HealthInit
  <2>5. signal \in Seq(Health!T \X BOOLEAN) /\ RemoveArr \in Seq(Health!T)
        /\ TargetArr = Health!Nil
    BY DEF Health!HealthInit
  <2> QED BY <2>1, <2>2, <2>3, <2>4, <2>5 DEF Health!HealthTypeOK
<1>3. Reported /\ Used
  BY TargetsAre DEF Health!HealthInit, Reported, Used, Health!InUse
<1> QED BY <1>2, <1>3 DEF HealthInv

(* What the runs check follows.                                             *)
LEMMA HealthInvKeeps ==
    ASSUME HealthInv
    PROVE  Health!HealthTypeOK /\ Health!UsedIfWell
<1>1. Health!HealthTypeOK
  BY DEF HealthInv
<1>2. ASSUME ~edited PROVE signal = <<>> => \A t \in Health!T \ out : Health!InUse(t) <=> healthMap[t] < MaxFail
  BY <1>2 DEF HealthInv, Used, Unreported
<1>3. ASSUME ~edited, NEW t \in Health!T, ~Health!InUse(t) PROVE t \in Health!Range(RemoveArr)
  <2>1. DOMAIN RemoveArr = 1 .. Len(RemoveArr)
    BY <1>1, Elements DEF Health!HealthTypeOK
  <2> QED BY <1>3, <2>1 DEF HealthInv, Used, Health!Range
<1> QED BY <1>1, <1>2, <1>3 DEF Health!UsedIfWell

(* Steps of the client that send nothing.                                  *)
LEMMA TryStep ==
    ASSUME TargetsListed, HealthInv,
           (\E c \in Checker : Health!Tick(c) \/ Health!Try(c)) \/ Health!TickEarly
    PROVE  HealthInv'
<1>1. UNCHANGED <<healthMap, out, losses, signal, TargetArr, RemoveArr, nowIndex, taking, edited,
                  healthPanicked>>
  BY DEF Health!Tick, Health!Try, Health!TickEarly, Health!server
<1>2. Targets \in Health!Rests
  <2>1. Targets = SubSeq(Targets, 1, Len(Targets))
    BY DEF TargetsListed
  <2> QED BY <2>1, TargetsAre DEF Health!Rests
<1>3. check' \in [Checker -> [rest : Health!Rests, err : {"not tried", "failed", "fine"}]]
      /\ \A d \in Checker : check'[d].err # "not tried" => check'[d].rest # <<>>
  <2>1. CASE \E c \in Checker : Health!Tick(c)
    BY <1>2, <2>1 DEF HealthInv, Health!HealthTypeOK, Health!Tick, Health!Idle, TargetsListed
  <2>2. CASE \E c \in Checker : Health!Try(c)
    BY <2>2 DEF HealthInv, Health!HealthTypeOK, Health!Try
  <2>3. CASE Health!TickEarly
    BY <2>3 DEF HealthInv, Health!HealthTypeOK, Health!TickEarly
  <2> QED BY <2>1, <2>2, <2>3
<1>4. healthSession' \in {"waits", "ended"}
  BY DEF HealthInv, Health!HealthTypeOK, Health!Tick, Health!Try, Health!TickEarly
<1>5. Health!HealthTypeOK'
  BY <1>1, <1>3, <1>4 DEF HealthInv, Health!HealthTypeOK
<1>6. Reported'
  BY <1>1 DEF HealthInv, Reported
<1>7. Used'
  BY <1>1 DEF HealthInv, Used, Unreported, Health!InUse
<1> QED BY <1>5, <1>6, <1>7 DEF HealthInv

(* What a check that has its answer is about, and what it tries then.      *)
LEMMA TriedIs ==
    ASSUME TargetsListed, HealthInv, NEW c \in Checker, check[c].err # "not tried"
    PROVE  Health!Tried(c) \in Health!T /\ Tail(check[c].rest) \in Health!Rests
<1>1. check[c].rest \in Health!Rests /\ check[c].rest # <<>>
  BY DEF HealthInv, Health!HealthTypeOK
<1>2. PICK k \in 1 .. Len(Targets) + 1 : check[c].rest = SubSeq(Targets, k, Len(Targets))
  BY <1>1 DEF Health!Rests
<1>3. /\ k \in 1 .. Len(Targets) /\ check[c].rest[1] = Targets[k]
      /\ k + 1 \in 1 .. Len(Targets) + 1
      /\ Tail(check[c].rest) = SubSeq(Targets, k + 1, Len(Targets))
  BY <1>1, <1>2, RestTail DEF TargetsListed
<1>4. Targets[k] \in Health!T
  BY <1>3, TargetsAre
<1> QED BY <1>3, <1>4 DEF Health!Rests, Health!Tried

(* A check goes on to the next target.                                     *)
LEMMA NextTyped ==
    ASSUME TargetsListed, HealthInv, NEW c \in Checker, check[c].err # "not tried", Health!Next1(c)
    PROVE  /\ check' \in [Checker -> [rest : Health!Rests, err : {"not tried", "failed", "fine"}]]
           /\ \A d \in Checker : check'[d].err # "not tried" => check'[d].rest # <<>>
<1>1. Tail(check[c].rest) \in Health!Rests
  BY TriedIs
<1> QED BY <1>1 DEF HealthInv, Health!HealthTypeOK, Health!Next1

(* A count that says the same of a target keeps what the reports mean, ... *)
LEMMA SameHealth ==
    ASSUME HealthInv, UNCHANGED <<signal, TargetArr, RemoveArr, out, edited>>,
           \A t \in Health!T : healthMap'[t] < MaxFail <=> healthMap[t] < MaxFail
    PROVE  Reported' /\ Used'
<1>1. \A i \in 1 .. Len(signal) : signal[i][1] \in Health!T
  <2>1. signal \in Seq(Health!T \X BOOLEAN)
    BY DEF HealthInv, Health!HealthTypeOK
  <2>2. \A i \in 1 .. Len(signal) : signal[i] \in Health!T \X BOOLEAN
    BY <2>1, Elements
  <2> QED BY <2>2
<1>2. Reported'
  BY <1>1 DEF HealthInv, Reported
<1>3. Used'
  BY DEF HealthInv, Used, Unreported, Health!InUse
<1> QED BY <1>2, <1>3

(* ... and so does one that is reported.                                   *)
LEMMA ReportSent ==
    ASSUME HealthInv, UNCHANGED <<TargetArr, RemoveArr, out, edited>>,
           NEW t \in Health!T, NEW b \in BOOLEAN,
           signal' = Append(signal, <<t, b>>),
           b <=> healthMap'[t] < MaxFail,
           \A u \in Health!T \ {t} : healthMap'[u] = healthMap[u]
    PROVE  Reported' /\ Used'
<1>1. signal \in Seq(Health!T \X BOOLEAN)
  BY DEF HealthInv, Health!HealthTypeOK
<1>2. /\ Len(signal) \in Nat /\ \A i \in 1 .. Len(signal) : signal[i][1] \in Health!T
  BY <1>1, Elements
<1>3. /\ Len(signal') = Len(signal) + 1
      /\ \A i \in 1 .. Len(signal) : signal'[i] = signal[i]
      /\ signal'[Len(signal) + 1] = <<t, b>>
  <2>1. <<t, b>> \in Health!T \X BOOLEAN
    OBVIOUS
  <2> QED BY <1>1, <2>1, Appended
<1>4. Reported'
  <2> SUFFICES ASSUME NEW i \in 1 .. Len(signal'),
                      \A j \in i + 1 .. Len(signal') : signal'[j][1] # signal'[i][1]
               PROVE  signal'[i][2] <=> healthMap'[signal'[i][1]] < MaxFail
    BY DEF Reported
  <2>1. CASE i = Len(signal) + 1
    BY <1>3, <2>1
  <2>2. CASE i # Len(signal) + 1
    <3>1. i \in 1 .. Len(signal)
      BY <1>2, <1>3, <2>2
    <3>2. \A j \in i + 1 .. Len(signal) : j \in i + 1 .. Len(signal') /\ j \in 1 .. Len(signal)
      BY <1>2, <1>3, <3>1
    <3>3. Len(signal) + 1 \in i + 1 .. Len(signal')
      BY <1>2, <1>3, <3>1
    <3>4. signal[i][1] \in Health!T \ {t}
      BY <1>2, <1>3, <3>1, <3>3
    <3>5. \A j \in i + 1 .. Len(signal) : signal[j][1] # signal[i][1]
      BY <1>3, <3>1, <3>2
    <3> QED BY <1>3, <3>1, <3>4, <3>5 DEF HealthInv, Reported
  <2> QED BY <2>1, <2>2
<1>5. Used'
  <2>1. ~Unreported(t)'
    <3>1. Len(signal) + 1 \in 1 .. Len(signal')
      BY <1>2, <1>3
    <3> QED BY <1>3, <3>1 DEF Unreported
  <2>2. \A u : Unreported(u)' => Unreported(u)
    <3>1. \A i \in 1 .. Len(signal) : i \in 1 .. Len(signal')
      BY <1>2, <1>3
    <3> QED BY <1>3, <3>1 DEF Unreported
  <2> QED BY <2>1, <2>2 DEF HealthInv, Used, Health!InUse
<1> QED BY <1>4, <1>5

(* There is room for one.                                                  *)
LEMMA OneFits ==
    ASSUME NEW m \in Nat, NEW n \in Nat, m < n
    PROVE  m + 1 <= n /\ m <= n
OBVIOUS

(* Below twice a number only itself is a multiple of it.                   *)
LEMMA Divides ==
    ASSUME NEW m \in Nat, m > 0, NEW n \in 1 .. 2 * m - 1
    PROVE  n % m = 0 <=> n = m
<1>1. CASE n < m
  <2>1. n % m = n
    BY <1>1
  <2> QED BY <1>1, <2>1
<1>2. CASE n >= m
  <2>1. n % m = n - m
    BY <1>2
  <2> QED BY <2>1
<1> QED BY <1>1, <1>2

(* A failure is counted, and reported if it makes the target bad.          *)
LEMMA CountFailureStep ==
    ASSUME TargetsListed, HealthInv, NEW c \in Checker, Health!CountFailure(c)
    PROVE  HealthInv'
<1> DEFINE t == Health!Tried(c)
           n == Health!Fails(healthMap[t])
<1>1. check[c].err # "not tried" /\ Health!Next1(c) /\ Len(signal) < MaxWire
      /\ UNCHANGED <<healthSession, out, losses, TargetArr, RemoveArr, nowIndex, taking, edited, healthPanicked>>
  BY DEF Health!CountFailure, Health!server
<1>2. t \in Health!T
  BY <1>1, TriedIs
<1>3. healthMap \in [Health!T -> 0 .. 2 * MaxFail - 1] /\ MaxFail \in Nat /\ MaxFail > 0
  BY TargetsAre DEF HealthInv, Health!HealthTypeOK
<1>4. healthMap' = [healthMap EXCEPT ![t] = n]
      /\ signal' = IF n % MaxFail = 0 THEN Append(signal, <<t, FALSE>>) ELSE signal
  BY DEF Health!CountFailure
<1>5. /\ n \in 1 .. 2 * MaxFail - 1
      /\ n < MaxFail => healthMap[t] < MaxFail
      /\ n >= MaxFail /\ n # MaxFail => healthMap[t] >= MaxFail
  BY <1>2, <1>3 DEF Health!Fails
<1>6. n % MaxFail = 0 <=> n = MaxFail
  BY <1>3, <1>5, Divides
<1> HIDE DEF t, n
<1>7. /\ healthMap' \in [Health!T -> 0 .. 2 * MaxFail - 1]
      /\ healthMap'[t] = n /\ \A u \in Health!T \ {t} : healthMap'[u] = healthMap[u]
  BY <1>2, <1>3, <1>4, <1>5
<1>8. signal' \in Seq(Health!T \X BOOLEAN) /\ Len(signal') <= MaxWire
  <2>1. signal \in Seq(Health!T \X BOOLEAN) /\ <<t, FALSE>> \in Health!T \X BOOLEAN
    BY <1>2 DEF HealthInv, Health!HealthTypeOK
  <2>2. Append(signal, <<t, FALSE>>) \in Seq(Health!T \X BOOLEAN)
        /\ Len(Append(signal, <<t, FALSE>>)) = Len(signal) + 1 /\ Len(signal) \in Nat
    BY <2>1, Appended, Elements
  <2>3. MaxWire \in Nat
    BY DEF TargetsListed
  <2>4. Len(signal) + 1 <= MaxWire /\ Len(signal) <= MaxWire
    BY <1>1, <2>2, <2>3, OneFits
  <2>5. signal' = signal \/ signal' = Append(signal, <<t, FALSE>>)
    BY <1>4
  <2> QED BY <2>1, <2>2, <2>4, <2>5
<1>9. Health!HealthTypeOK'
  <2>1. /\ check' \in [Checker -> [rest : Health!Rests, err : {"not tried", "failed", "fine"}]]
        /\ \A d \in Checker : check'[d].err # "not tried" => check'[d].rest # <<>>
    BY <1>1, NextTyped
  <2> QED BY <1>1, <1>7, <1>8, <2>1 DEF HealthInv, Health!HealthTypeOK
<1>10. Reported' /\ Used'
  <2>1. CASE n = MaxFail
    <3>1. signal' = Append(signal, <<t, FALSE>>)
      BY <1>4, <1>6, <2>1
    <3>2. ~ healthMap'[t] < MaxFail
      BY <1>3, <1>7, <2>1
    <3> QED BY <1>1, <1>2, <1>7, <3>1, <3>2, ReportSent
  <2>2. CASE n # MaxFail
    <3>1. healthMap'[t] < MaxFail <=> healthMap[t] < MaxFail
      <4>1. healthMap[t] \in Nat
        BY <1>2, <1>3
      <4>2. n < MaxFail <=> healthMap[t] < MaxFail
        <5>1. n \in Nat
          BY <1>5
        <5>2. CASE n < MaxFail
          BY <1>5, <5>2
        <5>3. CASE ~ n < MaxFail
          BY <1>3, <1>5, <2>2, <4>1, <5>1, <5>3
        <5> QED BY <5>2, <5>3
      <4> QED BY <1>7, <4>2
    <3>2. \A u \in Health!T : healthMap'[u] < MaxFail <=> healthMap[u] < MaxFail
      BY <1>7, <3>1
    <3>3. signal' = signal
      BY <1>4, <1>6, <2>2
    <3> QED BY <1>1, <3>2, <3>3, SameHealth
  <2> QED BY <2>1, <2>2
<1> QED BY <1>9, <1>10 DEF HealthInv

(* A success takes the failures back and reports it where the target is bad*)
LEMMA CountSuccessStep ==
    ASSUME TargetsListed, HealthInv, NEW c \in Checker, Health!CountSuccess(c)
    PROVE  HealthInv'
<1> DEFINE t == Health!Tried(c)
<1>1. check[c].err # "not tried" /\ Health!Next1(c) /\ Len(signal) < MaxWire
      /\ UNCHANGED <<healthSession, out, losses, TargetArr, RemoveArr, nowIndex, taking, edited, healthPanicked>>
  BY DEF Health!CountSuccess, Health!server
<1>2. t \in Health!T
  BY <1>1, TriedIs
<1>3. healthMap \in [Health!T -> 0 .. 2 * MaxFail - 1] /\ MaxFail \in Nat /\ MaxFail > 0
  BY TargetsAre DEF HealthInv, Health!HealthTypeOK
<1>4. \/ /\ healthMap' = [healthMap EXCEPT ![t] = 0]
         /\ signal' = Append(signal, <<t, TRUE>>)
      \/ healthMap' = healthMap /\ signal' = signal
  BY DEF Health!CountSuccess
<1> HIDE DEF t
<1>5. healthMap' \in [Health!T -> 0 .. 2 * MaxFail - 1]
  <2>1. 0 \in 0 .. 2 * MaxFail - 1
    BY <1>3
  <2> QED BY <1>2, <1>3, <1>4, <2>1
<1>6. signal' \in Seq(Health!T \X BOOLEAN) /\ Len(signal') <= MaxWire
  <2>1. signal \in Seq(Health!T \X BOOLEAN) /\ <<t, TRUE>> \in Health!T \X BOOLEAN
    BY <1>2 DEF HealthInv, Health!HealthTypeOK
  <2>2. Append(signal, <<t, TRUE>>) \in Seq(Health!T \X BOOLEAN)
        /\ Len(Append(signal, <<t, TRUE>>)) = Len(signal) + 1 /\ Len(signal) \in Nat
    BY <2>1, Appended, Elements
  <2>3. MaxWire \in Nat
    BY DEF TargetsListed
  <2>4. Len(signal) + 1 <= MaxWire /\ Len(signal) <= MaxWire
    BY <1>1, <2>2, <2>3, OneFits
  <2>5. signal' = signal \/ signal' = Append(signal, <<t, TRUE>>)
    BY <1>4
  <2> QED BY <2>1, <2>2, <2>4, <2>5
<1>7. Health!HealthTypeOK'
  <2>1. /\ check' \in [Checker -> [rest : Health!Rests, err : {"not tried", "failed", "fine"}]]
        /\ \A d \in Checker : check'[d].err # "not tried" => check'[d].rest # <<>>
    BY <1>1, NextTyped
  <2> QED BY <1>1, <1>5, <1>6, <2>1 DEF HealthInv, Health!HealthTypeOK
<1>8. Reported' /\ Used'
  <2>1. CASE healthMap' = [healthMap EXCEPT ![t] = 0] /\ signal' = Append(signal, <<t, TRUE>>)
    <3>1. healthMap'[t] < MaxFail /\ \A u \in Health!T \ {t} : healthMap'[u] = healthMap[u]
      BY <1>2, <1>3, <2>1
    <3> QED BY <1>1, <1>2, <2>1, <3>1, ReportSent
  <2>2. CASE healthMap' = healthMap /\ signal' = signal
    BY <1>1, <2>2, SameHealth
  <2> QED BY <1>4, <2>1, <2>2
<1> QED BY <1>7, <1>8 DEF HealthInv

(* The connection is lost with the reports on it.                          *)
LEMMA HeathCheckStep ==
    ASSUME TargetsListed, HealthInv, Health!HeathCheck
    PROVE  HealthInv'
<1>1. MaxFail \in Nat /\ MaxFail > 0 /\ MaxWire \in Nat /\ Losses \in Nat
  BY DEF TargetsListed
<1>2. /\ healthMap' = [t \in Health!T |-> 0] /\ signal' = <<>>
      /\ out' = {t \in Health!T : ~Health!InUse(t)} /\ losses < Losses /\ losses' = losses + 1
      /\ UNCHANGED <<healthSession, check, TargetArr, RemoveArr, nowIndex, taking, edited, healthPanicked>>
  BY DEF Health!HeathCheck, Health!server
<1>3. healthMap' \in [Health!T -> 0 .. 2 * MaxFail - 1]
  BY <1>1, <1>2
<1>4. losses' \in 0 .. Losses
  <2>1. losses \in 0 .. Losses
    BY DEF HealthInv, Health!HealthTypeOK
  <2>2. losses < Losses /\ losses' = losses + 1
    BY <1>2
  <2> QED BY <1>1, <2>1, <2>2
<1>5. signal' \in Seq(Health!T \X BOOLEAN) /\ Len(signal') <= MaxWire
  BY <1>1, <1>2
<1>6. Health!HealthTypeOK'
  BY <1>2, <1>3, <1>4, <1>5 DEF HealthInv, Health!HealthTypeOK
<1>7. Reported'
  BY <1>2 DEF Reported
<1>8. Used'
  BY <1>1, <1>2 DEF HealthInv, Used, Health!InUse
<1> QED BY <1>6, <1>7, <1>8 DEF HealthInv

(* What a report arriving leaves.                                          *)
LEMMA Arrived ==
    ASSUME TargetsListed, HealthInv, signal # <<>>, signal' = Tail(signal), healthMap' = healthMap
    PROVE  /\ Head(signal) = signal[1] /\ signal[1] \in Health!T \X BOOLEAN
           /\ signal' \in Seq(Health!T \X BOOLEAN) /\ Len(signal') <= MaxWire
           /\ Reported'
           /\ \A u : Unreported(u)' /\ u # signal[1][1] => Unreported(u)
           /\ \A u : Unreported(u)' /\ u = signal[1][1] => (signal[1][2] <=> healthMap[u] < MaxFail)
<1>1. signal \in Seq(Health!T \X BOOLEAN) /\ Len(signal) <= MaxWire
  BY DEF HealthInv, Health!HealthTypeOK
<1>2. /\ signal' \in Seq(Health!T \X BOOLEAN) /\ signal[1] \in Health!T \X BOOLEAN
      /\ Head(signal) = signal[1] /\ Len(signal) = Len(signal') + 1 /\ Len(signal') \in Nat
      /\ \A i \in 1 .. Len(signal') : i + 1 \in 1 .. Len(signal) /\ signal'[i] = signal[i + 1]
  BY <1>1, TailElements
<1>3. Len(signal') <= MaxWire
  <2>1. MaxWire \in Nat
    BY DEF TargetsListed
  <2>2. Len(signal) = Len(signal') + 1 /\ Len(signal') \in Nat /\ Len(signal) <= MaxWire
    BY <1>1, <1>2
  <2> QED BY <2>1, <2>2
<1>4. Reported'
  <2> SUFFICES ASSUME NEW i \in 1 .. Len(signal'),
                      \A j \in i + 1 .. Len(signal') : signal'[j][1] # signal'[i][1]
               PROVE  signal'[i][2] <=> healthMap'[signal'[i][1]] < MaxFail
    BY DEF Reported
  <2>1. ASSUME NEW j \in (i + 1) + 1 .. Len(signal) PROVE signal[j][1] # signal[i + 1][1]
    <3>1. j - 1 \in i + 1 .. Len(signal') /\ j - 1 \in 1 .. Len(signal') /\ (j - 1) + 1 = j
      BY <1>2
    <3> QED BY <1>2, <3>1
  <2> QED BY <1>2, <2>1 DEF HealthInv, Reported
<1>5. ASSUME NEW i \in 1 .. Len(signal), i # 1
      PROVE  i - 1 \in 1 .. Len(signal') /\ signal'[i - 1] = signal[i]
  <2>1. i - 1 \in 1 .. Len(signal') /\ (i - 1) + 1 = i
    BY <1>2, <1>5
  <2> QED BY <1>2, <2>1
<1>6. ASSUME NEW u, Unreported(u)', u # signal[1][1] PROVE Unreported(u)
  BY <1>5, <1>6 DEF Unreported
<1>7. ASSUME NEW u, Unreported(u)', u = signal[1][1]
      PROVE  signal[1][2] <=> healthMap[u] < MaxFail
  <2>1. \A j \in 1 + 1 .. Len(signal) : j \in 1 .. Len(signal) /\ j # 1
    BY <1>2
  <2>2. \A j \in 1 + 1 .. Len(signal) : signal[j][1] # signal[1][1]
    BY <1>5, <1>7, <2>1 DEF Unreported
  <2>3. 1 \in 1 .. Len(signal)
    BY <1>2
  <2>4. signal[1][2] <=> healthMap[signal[1][1]] < MaxFail
    BY <2>2, <2>3 DEF HealthInv, Reported
  <2> QED BY <1>7, <2>4
<1> QED BY <1>2, <1>3, <1>4, <1>6, <1>7

(* A sequence holds a value at some place.                                 *)
LEMMA Holds ==
    ASSUME NEW S, NEW s \in Seq(S)
    PROVE  \A t : t \in Health!Range(s) <=> \E i \in 1 .. Len(s) : s[i] = t
BY DEF Health!Range

(* The list there is, or is made from the string of targets.               *)
LEMMA ListIs ==
    ASSUME TargetsListed, HealthInv, NEW arr, arr = IF TargetArr = Health!Nil THEN Targets ELSE TargetArr
    PROVE  /\ arr \in Seq(Health!T) /\ Health!IsInjective(arr)
           /\ \A t \in Health!T : Health!InUse(t) <=> \E i \in 1 .. Len(arr) : arr[i] = t
           /\ Len(arr) \in Nat /\ Len(arr) <= Len(Targets)
           /\ arr # Health!Nil
<1>1. arr \in Seq(Health!T) /\ Health!IsInjective(arr)
  BY DEF HealthInv, Health!HealthTypeOK, TargetsListed
<1>2. \A t \in Health!T : Health!InUse(t) <=> \E i \in 1 .. Len(arr) : arr[i] = t
  BY <1>1, TargetsAre, Holds DEF Health!InUse
<1>3. Len(arr) \in Nat /\ DOMAIN arr = 1 .. Len(arr) /\ \A i \in 1 .. Len(arr) : arr[i] \in Health!T
  BY <1>1, Elements
<1>4. Len(arr) <= Len(Targets)
  <2> DEFINE f == [i \in 1 .. Len(arr) |-> CHOOSE k \in 1 .. Len(Targets) : Targets[k] = arr[i]]
  <2>1. \A i \in 1 .. Len(arr) : f[i] \in 1 .. Len(Targets) /\ Targets[f[i]] = arr[i]
    BY <1>3, TargetsAre
  <2>2. f \in [1 .. Len(arr) -> 1 .. Len(Targets)]
    BY <2>1
  <2>3. \A i, j \in 1 .. Len(arr) : f[i] = f[j] => i = j
    <3> HIDE DEF f
    <3> QED BY <1>1, <1>3, <2>1 DEF Health!IsInjective
  <2> HIDE DEF f
  <2>4. f \in Injection(1 .. Len(arr), 1 .. Len(Targets))
    BY <2>2, <2>3 DEF Injection, IsInjective
  <2>5. IsFiniteSet(1 .. Len(Targets)) /\ Cardinality(1 .. Len(Targets)) = Len(Targets)
        /\ Cardinality(1 .. Len(arr)) = Len(arr)
    <3>1. \A n \in Nat : IsFiniteSet(1 .. n) /\ Cardinality(1 .. n) = n
      <4> SUFFICES ASSUME NEW n \in Nat PROVE IsFiniteSet(1 .. n) /\ Cardinality(1 .. n) = n
        OBVIOUS
      <4>1. IsFiniteSet(1 .. n) /\ Cardinality(1 .. n) = IF 1 > n THEN 0 ELSE n - 1 + 1
        BY FS_Interval
      <4> QED BY <4>1
    <3> QED BY <1>3, <3>1, TargetsAre
  <2> QED BY <2>4, <2>5, FS_Injection
<1>5. arr # Health!Nil
  BY <1>1 DEF TargetsListed
<1> QED BY <1>1, <1>2, <1>3, <1>4, <1>5

(* A target is taken out.                                                  *)
LEMMA TakeOutStep ==
    ASSUME TargetsListed, HealthInv, Health!TakeOut
    PROVE  HealthInv'
<1>0. PICK t : t = signal[1][1]
  OBVIOUS
<1> DEFINE arr == IF TargetArr = Health!Nil THEN Targets ELSE TargetArr
           old == IF TargetArr = Health!Nil \/ (TargetArr = <<>> /\ RemoveArr = <<>>) THEN Targets ELSE TargetArr
<1>1. /\ signal # <<>> /\ signal' = Tail(signal) /\ healthMap' = healthMap
      /\ ~Head(signal)[2] /\ Len(RemoveArr) < MaxRemoved
      /\ TargetArr' = Health!Without(old, Head(signal)[1])
      /\ RemoveArr' = Append(RemoveArr, Head(signal)[1])
      /\ UNCHANGED <<healthSession, check, out, losses, nowIndex, taking, edited, healthPanicked>>
  BY DEF Health!TakeOut, Health!client
<1>2. /\ Head(signal) = signal[1] /\ signal[1] \in Health!T \X BOOLEAN
      /\ signal' \in Seq(Health!T \X BOOLEAN) /\ Len(signal') <= MaxWire
      /\ Reported'
      /\ \A u : Unreported(u)' /\ u # t => Unreported(u)
      /\ Unreported(t)' => (signal[1][2] <=> healthMap[t] < MaxFail)
  BY <1>0, <1>1, Arrived
<1>3. t \in Health!T
  BY <1>0, <1>2
<1>4. old \in Seq(Health!T) /\ Health!IsInjective(old)
  BY DEF HealthInv, Health!HealthTypeOK, TargetsListed
<1>5. TargetArr' = Health!Without(old, t) /\ RemoveArr' = Append(RemoveArr, t)
  BY <1>0, <1>1, <1>2
<1>6. /\ TargetArr' \in Seq(Health!T) /\ Health!IsInjective(TargetArr')
      /\ \A i \in 1 .. Len(TargetArr') : TargetArr'[i] # t /\ \E k \in 1 .. Len(old) : TargetArr'[i] = old[k]
      /\ \A i \in 1 .. Len(old) : old[i] # t => \E k \in 1 .. Len(TargetArr') : TargetArr'[k] = old[i]
  <2> HIDE DEF old
  <2> QED BY <1>4, <1>5, Removed
<1>7. RemoveArr \in Seq(Health!T)
  BY DEF HealthInv, Health!HealthTypeOK
<1>8. /\ RemoveArr' \in Seq(Health!T) /\ Len(RemoveArr') = Len(RemoveArr) + 1 /\ Len(RemoveArr) \in Nat
      /\ \A i \in 1 .. Len(RemoveArr) : RemoveArr'[i] = RemoveArr[i]
      /\ RemoveArr'[Len(RemoveArr) + 1] = t
  BY <1>3, <1>5, <1>7, Appended, Elements
<1>9. Len(RemoveArr') <= MaxRemoved
  <2>1. MaxRemoved \in Nat /\ Len(RemoveArr) < MaxRemoved /\ Len(RemoveArr) \in Nat
    BY <1>1, <1>8 DEF TargetsListed
  <2> QED BY <1>8, <2>1, OneFits
<1>10. Health!HealthTypeOK'
  BY <1>1, <1>2, <1>6, <1>8, <1>9 DEF HealthInv, Health!HealthTypeOK
<1>11. Used'
  <2> SUFFICES ASSUME ~edited
               PROVE  /\ \A u \in Health!T \ out :
                           Unreported(u)' => (Health!InUse(u)' <=> healthMap[u] < MaxFail)
                      /\ \A u \in Health!T : ~Health!InUse(u)' =>
                           \E i \in 1 .. Len(RemoveArr') : RemoveArr'[i] = u
                      /\ TargetArr' # Health!Nil
    BY <1>1 DEF Used
  <2>1. TargetArr' # Health!Nil
    BY <1>6 DEF TargetsListed
  <2>2. \A u \in Health!T : Health!InUse(u)' <=> \E i \in 1 .. Len(TargetArr') : TargetArr'[i] = u
    BY <1>6, <2>1, Holds DEF Health!InUse
  <2>3. old = arr
    <3>1. CASE TargetArr = <<>> /\ RemoveArr = <<>>
      <4>1. Health!InUse(t)
        BY <1>3, <3>1 DEF HealthInv, Used
      <4>2. TargetArr = Health!Nil
        BY <3>1, <4>1 DEF Health!InUse, Health!Range
      <4> QED BY <4>2
    <3> QED BY <3>1
  <2>4. \A u \in Health!T \ {t} : Health!InUse(u)' <=> Health!InUse(u)
    <3>1. \A u \in Health!T : Health!InUse(u) <=> \E i \in 1 .. Len(old) : old[i] = u
      BY <2>3, ListIs
    <3> HIDE DEF old
    <3> QED BY <1>6, <2>2, <3>1
  <2>5. ~Health!InUse(t)'
    BY <1>3, <1>6, <2>2
  <2>6. Unreported(t)' => ~ healthMap[t] < MaxFail
    BY <1>1, <1>2
  <2>7. \A u \in Health!T \ out : Unreported(u)' => (Health!InUse(u)' <=> healthMap[u] < MaxFail)
    <3> QED BY <1>2, <2>4, <2>5, <2>6 DEF HealthInv, Used
  <2>8. \A u \in Health!T : ~Health!InUse(u)' => \E i \in 1 .. Len(RemoveArr') : RemoveArr'[i] = u
    <3>1. Len(RemoveArr) + 1 \in 1 .. Len(RemoveArr')
          /\ \A i \in 1 .. Len(RemoveArr) : i \in 1 .. Len(RemoveArr')
      BY <1>8
    <3> QED BY <1>8, <2>4, <3>1 DEF HealthInv, Used
  <2> QED BY <2>1, <2>7, <2>8
<1> QED BY <1>2, <1>10, <1>11 DEF HealthInv

(* A target comes back.                                                    *)
LEMMA PutBackStep ==
    ASSUME TargetsListed, HealthInv, Health!PutBack
    PROVE  HealthInv'
<1>0. PICK t : t = signal[1][1]
  OBVIOUS
<1> DEFINE base == IF TargetArr = Health!Nil THEN <<>> ELSE TargetArr
<1>1. /\ signal # <<>> /\ signal' = Tail(signal) /\ healthMap' = healthMap /\ Head(signal)[2]
      /\ UNCHANGED <<healthSession, check, losses, nowIndex, taking, edited, healthPanicked>>
  BY DEF Health!PutBack
<1>2. /\ Head(signal) = signal[1] /\ signal[1] \in Health!T \X BOOLEAN
      /\ signal' \in Seq(Health!T \X BOOLEAN) /\ Len(signal') <= MaxWire
      /\ Reported'
      /\ \A u : Unreported(u)' /\ u # t => Unreported(u)
      /\ \A u : Unreported(u)' /\ u = t => (signal[1][2] <=> healthMap[u] < MaxFail)
  BY <1>0, <1>1, Arrived
<1>3. t \in Health!T /\ Head(signal)[1] = t
  BY <1>0, <1>2
<1>4. Unreported(t)' => healthMap[t] < MaxFail
  BY <1>1, <1>2
<1>5. RemoveArr \in Seq(Health!T) /\ Len(RemoveArr) <= MaxRemoved
  BY DEF HealthInv, Health!HealthTypeOK
<1>6. CASE /\ t \in Health!Range(RemoveArr) /\ (TargetArr = Health!Nil \/ t \notin Health!Range(TargetArr))
           /\ TargetArr' = Append(base, t)
           /\ RemoveArr' = Health!Without(RemoveArr, t)
           /\ out' = out \ {t}
  <2>1. base \in Seq(Health!T) /\ Health!IsInjective(base)
        /\ \A i \in 1 .. Len(base) : base[i] # t
    <3>1. CASE TargetArr = Health!Nil
      BY <3>1 DEF Health!IsInjective
    <3>2. CASE TargetArr # Health!Nil
      <4>1. TargetArr \in Seq(Health!T) /\ Health!IsInjective(TargetArr)
        BY <3>2 DEF HealthInv, Health!HealthTypeOK
      <4>2. base = TargetArr
        BY <3>2
      <4> HIDE DEF base
      <4> QED BY <1>6, <3>2, <4>1, <4>2, Holds
    <3> QED BY <3>1, <3>2
  <2>2. TargetArr' = Append(base, t)
    BY <1>6
  <2> HIDE DEF base
  <2>3. /\ TargetArr' \in Seq(Health!T) /\ Len(TargetArr') = Len(base) + 1 /\ Len(base) \in Nat
        /\ \A i \in 1 .. Len(base) : TargetArr'[i] = base[i]
        /\ TargetArr'[Len(base) + 1] = t
    BY <1>3, <2>1, <2>2, Appended, Elements
  <2>4. DOMAIN TargetArr' = 1 .. Len(TargetArr') /\ DOMAIN base = 1 .. Len(base)
    BY <2>1, <2>3, Elements
  <2>5. \A i \in 1 .. Len(TargetArr') : i \in 1 .. Len(base) \/ i = Len(base) + 1
    BY <2>3
  <2>6. Health!IsInjective(TargetArr')
    <3> SUFFICES ASSUME NEW i \in 1 .. Len(TargetArr'), NEW j \in 1 .. Len(TargetArr'),
                        TargetArr'[i] = TargetArr'[j]
                 PROVE  i = j
      BY <2>4 DEF Health!IsInjective
    <3>1. \A k, m \in 1 .. Len(base) : base[k] = base[m] => k = m
      BY <2>1, <2>4 DEF Health!IsInjective
    <3> QED BY <2>1, <2>3, <2>5, <3>1
  <2>7. /\ RemoveArr' \in Seq(Health!T) /\ Len(RemoveArr') \in Nat /\ Len(RemoveArr') <= Len(RemoveArr)
        /\ \A i \in 1 .. Len(RemoveArr) :
              RemoveArr[i] # t => \E k \in 1 .. Len(RemoveArr') : RemoveArr'[k] = RemoveArr[i]
    BY <1>5, <1>6, Removed
  <2>8. Len(RemoveArr') <= MaxRemoved
    <3>1. MaxRemoved \in Nat /\ Len(RemoveArr) \in Nat
      BY <1>5, Elements DEF TargetsListed
    <3> QED BY <1>5, <2>7, <3>1
  <2>9. out' \subseteq Health!T
    BY <1>6 DEF HealthInv, Health!HealthTypeOK
  <2>10. Health!HealthTypeOK'
    BY <1>1, <1>2, <2>3, <2>6, <2>7, <2>8, <2>9 DEF HealthInv, Health!HealthTypeOK
  <2>11. Used'
    <3> SUFFICES ASSUME ~edited
                 PROVE  /\ \A u \in Health!T \ out' :
                             Unreported(u)' => (Health!InUse(u)' <=> healthMap[u] < MaxFail)
                        /\ \A u \in Health!T : ~Health!InUse(u)' =>
                             \E i \in 1 .. Len(RemoveArr') : RemoveArr'[i] = u
                        /\ TargetArr' # Health!Nil
      BY <1>1 DEF Used
    <3>1. TargetArr' # Health!Nil
      BY <2>3 DEF TargetsListed
    <3>2. TargetArr # Health!Nil
      <4>1. \E i \in 1 .. Len(RemoveArr) : RemoveArr[i] = t
        BY <1>5, <1>6, Holds
      <4>2. RemoveArr # <<>>
        BY <4>1
      <4> QED BY <4>2 DEF HealthInv, Used
    <3>3. base = TargetArr
      BY <3>2 DEF base
    <3>4. \A u \in Health!T : Health!InUse(u)' <=> \E i \in 1 .. Len(TargetArr') : TargetArr'[i] = u
      BY <2>3, <3>1, Holds DEF Health!InUse
    <3>5. \A u \in Health!T : Health!InUse(u) <=> \E i \in 1 .. Len(base) : base[i] = u
      BY <2>1, <3>2, <3>3, Holds DEF Health!InUse
    <3>6. Len(base) + 1 \in 1 .. Len(TargetArr') /\ \A i \in 1 .. Len(base) : i \in 1 .. Len(TargetArr')
      BY <2>3
    <3>7. Health!InUse(t)'
      BY <1>3, <2>3, <3>4, <3>6
    <3>8. \A u \in Health!T \ {t} : Health!InUse(u)' <=> Health!InUse(u)
      BY <2>3, <2>5, <3>4, <3>5, <3>6
    <3>9. \A u \in Health!T \ out' : Unreported(u)' => (Health!InUse(u)' <=> healthMap[u] < MaxFail)
      BY <1>2, <1>4, <1>6, <3>7, <3>8 DEF HealthInv, Used
    <3>10. \A u \in Health!T : ~Health!InUse(u)' => \E i \in 1 .. Len(RemoveArr') : RemoveArr'[i] = u
      BY <2>7, <3>7, <3>8 DEF HealthInv, Used
    <3> QED BY <3>1, <3>9, <3>10
  <2> QED BY <1>2, <2>10, <2>11 DEF HealthInv
<1>7. CASE /\ ~(t \in Health!Range(RemoveArr) /\ (TargetArr = Health!Nil \/ t \notin Health!Range(TargetArr)))
           /\ UNCHANGED <<TargetArr, RemoveArr, out>>
  <2>1. Health!HealthTypeOK'
    BY <1>1, <1>2, <1>7 DEF HealthInv, Health!HealthTypeOK
  <2>2. Used'
    <3> SUFFICES ASSUME ~edited
                 PROVE  \A u \in Health!T \ out :
                             Unreported(u)' => (Health!InUse(u) <=> healthMap[u] < MaxFail)
      BY <1>1, <1>7 DEF HealthInv, Used, Health!InUse
    <3>1. Health!InUse(t)
      <4>1. SUFFICES ASSUME ~Health!InUse(t) PROVE FALSE
        OBVIOUS
      <4>2. t \in Health!Range(RemoveArr)
        BY <1>3, <1>5, <4>1, Holds DEF HealthInv, Used
      <4> QED BY <1>7, <4>1, <4>2 DEF Health!InUse
    <3> QED BY <1>2, <1>4, <3>1 DEF HealthInv, Used
  <2> QED BY <1>2, <2>1, <2>2 DEF HealthInv
<1> QED BY <1>3, <1>6, <1>7 DEF Health!PutBack

(* A visitor takes a target: the list is there from then on.               *)
LEMMA GetRandomTargetStep ==
    ASSUME TargetsListed, HealthInv, Health!GetRandomTarget
    PROVE  HealthInv'
<1> DEFINE arr == IF TargetArr = Health!Nil THEN Targets ELSE TargetArr
<1>1. /\ TargetArr' = arr /\ arr # <<>> /\ nowIndex' = IF nowIndex >= Len(arr) THEN 1 ELSE nowIndex + 1
      /\ taking' = TRUE
      /\ UNCHANGED <<healthSession, healthMap, check, out, losses, signal, RemoveArr, edited, healthPanicked>>
  BY DEF Health!GetRandomTarget, Health!client
<1>2. /\ arr \in Seq(Health!T) /\ Health!IsInjective(arr)
      /\ \A t \in Health!T : Health!InUse(t) <=> \E i \in 1 .. Len(arr) : arr[i] = t
      /\ Len(arr) \in Nat /\ Len(arr) <= Len(Targets) /\ arr # Health!Nil
  BY ListIs
<1> HIDE DEF arr
<1>3. nowIndex' \in 1 .. Len(Targets)
  <2>1. nowIndex \in 1 .. Len(Targets) /\ Len(Targets) \in Nat /\ Len(Targets) > 0
    BY TargetsAre DEF HealthInv, Health!HealthTypeOK
  <2> QED BY <1>1, <1>2, <2>1
<1>4. Health!HealthTypeOK'
  BY <1>1, <1>2, <1>3 DEF HealthInv, Health!HealthTypeOK
<1>5. Reported'
  BY <1>1 DEF HealthInv, Reported
<1>6. \A t \in Health!T : Health!InUse(t)' <=> Health!InUse(t)
  BY <1>1, <1>2, Holds DEF Health!InUse
<1>7. \A t : Unreported(t)' <=> Unreported(t)
  BY <1>1 DEF Unreported
<1>8. Used'
  <2>1. TargetArr' # Health!Nil
    BY <1>1, <1>2
  <2>2. ASSUME ~edited, NEW t \in Health!T, ~Health!InUse(t)'
        PROVE  \E i \in 1 .. Len(RemoveArr') : RemoveArr'[i] = t
    BY <1>1, <1>6, <2>2 DEF HealthInv, Used
  <2>3. ASSUME ~edited, NEW t \in Health!T \ out, Unreported(t)'
        PROVE  Health!InUse(t)' <=> healthMap'[t] < MaxFail
    BY <1>1, <1>6, <1>7, <2>3 DEF HealthInv, Used
  <2> QED BY <1>1, <2>1, <2>2, <2>3 DEF Used
<1> QED BY <1>4, <1>5, <1>8 DEF HealthInv

(* ... and reads it.                                                       *)
LEMMA ReadTargetStep ==
    ASSUME TargetsListed, HealthInv, Health!ReadTarget
    PROVE  HealthInv'
<1>1. /\ taking' = FALSE /\ healthPanicked' \in BOOLEAN
      /\ UNCHANGED <<healthSession, healthMap, check, out, losses, signal, TargetArr, RemoveArr, nowIndex,
                     edited>>
  BY DEF Health!ReadTarget, Health!client
<1>2. Health!HealthTypeOK'
  BY <1>1 DEF HealthInv, Health!HealthTypeOK
<1>3. Reported' /\ Used'
  BY <1>1 DEF HealthInv, Reported, Used, Unreported, Health!InUse
<1> QED BY <1>2, <1>3 DEF HealthInv

(* The administrator gives the tunnel other targets.                       *)
LEMMA EditStep ==
    ASSUME TargetsListed, HealthInv, Health!Edit
    PROVE  HealthInv'
<1>1. /\ edited' = TRUE /\ TargetArr' = Health!Nil /\ nowIndex' = 1
      /\ UNCHANGED <<healthSession, healthMap, check, out, losses, signal, RemoveArr, taking, healthPanicked>>
  BY DEF Health!Edit, Health!client
<1>2. nowIndex' \in 1 .. Len(Targets)
  BY <1>1, TargetsAre
<1>3. Health!HealthTypeOK'
  BY <1>1, <1>2 DEF HealthInv, Health!HealthTypeOK
<1>4. Reported' /\ Used'
  BY <1>1 DEF HealthInv, Reported, Used
<1> QED BY <1>3, <1>4 DEF HealthInv

(* Each step of the checks.                                                *)
LEMMA HealthStep ==
    ASSUME TargetsListed, HealthInv, Health!HealthNext
    PROVE  HealthInv'
<1>1. CASE \E c \in Checker : Health!Tick(c) \/ Health!Try(c) \/ Health!CountFailure(c) \/ Health!CountSuccess(c)
  BY <1>1, TryStep, CountFailureStep, CountSuccessStep
<1>2. CASE Health!TickEarly
  BY <1>2, TryStep
<1>3. CASE Health!HeathCheck
  BY <1>3, HeathCheckStep
<1>4. CASE Health!TakeOut
  BY <1>4, TakeOutStep
<1>5. CASE Health!PutBack
  BY <1>5, PutBackStep
<1>6. CASE Health!GetRandomTarget
  BY <1>6, GetRandomTargetStep
<1>7. CASE Health!ReadTarget \/ Health!Edit
  BY <1>7, ReadTargetStep, EditStep
<1> QED BY <1>1, <1>2, <1>3, <1>4, <1>5, <1>6, <1>7 DEF Health!HealthNext

(* Nothing of the checks changes where their variables do not.             *)
LEMMA HealthStill ==
    ASSUME HealthInv, UNCHANGED Health!healthVars
    PROVE  HealthInv'
<1>1. UNCHANGED <<healthSession, healthMap, check, out, losses, signal, TargetArr, RemoveArr, nowIndex, taking,
                  edited, healthPanicked>>
  BY DEF Health!healthVars
<1>2. Health!HealthTypeOK'
  BY <1>1 DEF HealthInv, Health!HealthTypeOK
<1>3. Reported' /\ Used'
  BY <1>1 DEF HealthInv, Reported, Used, Unreported, Health!InUse
<1> QED BY <1>2, <1>3 DEF HealthInv

-----------------------------------------------------------------------------
(* Tunnels: their invariant.                                               *)

(* A step is about a tunnel, a client or a file.                           *)
TaskDo   == {"create", "get", "test", "testOwn", "load", "run", "close", "unrun", "enable", "store", "del", "drop",
             "open"}
ClientDo == {"own", "delclient", "pause", "sweep", "sweepNoStore", "kick", "closeClient"}
FileDo   == {"snapshot", "rename"}
Steps ==
    [do : TaskDo, arg : Tasks!Task, skip : Nat] \cup [do : ClientDo, arg : Client, skip : Nat]
    \cup [do : FileDo, arg : Tasks!File, skip : Nat]

(* What may come right after a step, and which one may be the last.        *)
Then(x, y) ==
    /\ (x.do = "snapshot" \/ y.do = "rename") => x.do = "snapshot" /\ y.do = "rename" /\ y.arg = x.arg
    /\ (x.do = "close" \/ y.do = "unrun") => x.do = "close" /\ y.do = "unrun" /\ y.arg = x.arg
    /\ x.do \in {"create", "store", "drop"} => y.do = "snapshot" /\ y.arg = "tasks"
    /\ x.do \in {"enable", "unrun"} => y.do = "store" /\ y.arg = x.arg
    /\ x.do = "testOwn" => y.do = "run"
    /\ y.do = "run" => x.do \in {"test", "testOwn"} /\ y.arg = x.arg
    /\ y.do = "enable" => x.do = "run" /\ y.arg = x.arg
    /\ y.do = "create" => x.do = "test"
MayEnd(x) == x.do \notin {"snapshot", "close", "create", "store", "drop", "enable", "unrun", "testOwn"}

Linked(s)   == \A i \in 1 .. Len(s) - 1 : Then(s[i], s[i + 1])
Creating(s) == \A i \in 1 .. Len(s) : s[i].do = "create" => i = 1 \/ (i = 2 /\ s[1].do = "test")
Closing(s)  == \A i \in 1 .. Len(s) : s[i].do = "close" =>
                   /\ s[i].skip \in {4, 7}
                   /\ s[i].skip = 7 => i + 5 <= Len(s) /\ s[i + 5].do = "drop"
Formed(s)   == Linked(s) /\ Creating(s) /\ Closing(s) /\ (s # <<>> => MayEnd(s[Len(s)]))

TodoOK == todo \in [Tasks!Proc -> Seq(Steps)] /\ \A p \in Tasks!Proc : Formed(todo[p])

(* A file's lock is held by the goroutine that is to rename.               *)
Renames(f) == {p \in Tasks!Proc : Tasks!At(p, "rename") /\ Tasks!Arg(p) = f}
Renaming ==
    \A f \in Tasks!File : IF saving[f] = <<>> THEN Renames(f) = {} ELSE \E p \in Tasks!Proc : Renames(f) = {p}

(* An id that a step is about was given, and one whose task is still to be *)
(* created is in no step of another goroutine.                             *)
Mentions(s, t) == \E i \in 1 .. Len(s) : s[i].do \in TaskDo /\ s[i].arg = t
Creates(s, t)  == \E i \in 1 .. Len(s) : s[i].do = "create" /\ s[i].arg = t
Issued ==
    /\ tasks \subseteq 1 .. lastId
    /\ \A p \in Tasks!Proc, t \in Tasks!Task : Mentions(todo[p], t) => t <= lastId
Unborn ==
    \A p \in Tasks!Proc, t \in Tasks!Task : Creates(todo[p], t) =>
        t \notin tasks /\ \A q \in Tasks!Proc \ {p} : ~Mentions(todo[q], t)

(* Clients never come back: those of a newer file are among those of the   *)
(* older.                                                                  *)
Ids(x) == {e[1] : e \in x}
ClientsKept ==
    /\ DOMAIN clients \subseteq Ids(disk["clients"])
    /\ saving["clients"] # <<>> => /\ DOMAIN clients \subseteq Ids(saving["clients"][1])
                                   /\ Ids(saving["clients"][1]) \subseteq Ids(disk["clients"])

(* A file of tasks that can be loaded back: one entry for an id, none of a *)
(* task that is not to be stored.                                          *)
Fits(x, D, object, n) ==
    /\ \A e \in x : e[2] \in Ids(D) => ~object[e[1]].noStore /\ e[1] <= n
    /\ \A e, f \in x : e[1] = f[1] => e = f
Loadable(x) == Fits(x, disk["clients"], task, lastId)

(* What the file has to hold, or what is about to be renamed into it, or   *)
(* somebody is about to write it.                                          *)
Covers(x, content, C) == content \subseteq x /\ \A e \in x \ content : e[2] \notin C
Good(x) == Covers(x, Tasks!Content("tasks"), DOMAIN clients)
Owes(p) == Tasks!At(p, "store") \/ (Tasks!At(p, "snapshot") /\ Tasks!Arg(p) = "tasks")
Kept ==
    /\ Loadable(disk["tasks"]) /\ (saving["tasks"] # <<>> => Loadable(saving["tasks"][1]))
    /\ \/ \E p \in Tasks!Proc : Owes(p)
       \/ saving["tasks"] = <<>> /\ Good(disk["tasks"])
       \/ saving["tasks"] # <<>> /\ Good(saving["tasks"][1])

TasksInv == Tasks!TypeOK /\ TodoOK /\ Renaming /\ Issued /\ Unborn /\ ClientsKept /\ Kept

(* The constants are numbers where they bound something.                   *)
TasksBounded == {MaxTask, MaxServer, Requests, Crashes} \subseteq Nat

-----------------------------------------------------------------------------
(* Tunnels: sequences of steps.                                            *)

LEMMA StepsAre ==
    /\ \A x \in Steps : /\ x.skip \in Nat /\ x.do \in TaskDo \cup ClientDo \cup FileDo
                        /\ x.do \in TaskDo => x.arg \in Tasks!Task
                        /\ x.do \in ClientDo => x.arg \in Client
                        /\ x.do \in FileDo => x.arg \in Tasks!File
    /\ \A d \in TaskDo, t \in Tasks!Task, k \in Nat : [do |-> d, arg |-> t, skip |-> k] \in Steps
    /\ \A d \in ClientDo, c \in Client, k \in Nat : [do |-> d, arg |-> c, skip |-> k] \in Steps
    /\ \A d \in FileDo, f \in Tasks!File, k \in Nat : [do |-> d, arg |-> f, skip |-> k] \in Steps
BY DEF Steps, TaskDo, ClientDo, FileDo

LEMMA StepIs ==
    ASSUME NEW d, NEW a
    PROVE  Tasks!Step(d, a).do = d /\ Tasks!Step(d, a).arg = a /\ Tasks!Step(d, a).skip = 0
BY DEF Tasks!Step

(* What one sequence after another is.                                     *)
LEMMA Cat ==
    ASSUME NEW a \in Seq(Steps), NEW b \in Seq(Steps), NEW s, s = a \o b
    PROVE  /\ s \in Seq(Steps) /\ Len(s) = Len(a) + Len(b) /\ Len(a) \in Nat /\ Len(b) \in Nat
           /\ \A i \in 1 .. Len(a) : i \in 1 .. Len(s) /\ s[i] = a[i]
           /\ \A i \in 1 .. Len(b) : Len(a) + i \in 1 .. Len(s) /\ s[Len(a) + i] = b[i]
           /\ \A i \in 1 .. Len(s) : i \in 1 .. Len(a) \/ i - Len(a) \in 1 .. Len(b)
<1>1. /\ s \in Seq(Steps) /\ Len(s) = Len(a) + Len(b) /\ Len(a) \in Nat /\ Len(b) \in Nat
      /\ \A i \in 1 .. Len(s) : s[i] = IF i <= Len(a) THEN a[i] ELSE b[i - Len(a)]
  BY Both, Elements
<1>2. ASSUME NEW i \in 1 .. Len(a) PROVE i \in 1 .. Len(s) /\ s[i] = a[i]
  BY <1>1
<1>3. ASSUME NEW i \in 1 .. Len(b) PROVE Len(a) + i \in 1 .. Len(s) /\ s[Len(a) + i] = b[i]
  <2>1. Len(a) + i \in 1 .. Len(s) /\ ~ Len(a) + i <= Len(a) /\ (Len(a) + i) - Len(a) = i
    BY <1>1
  <2> QED BY <1>1, <2>1
<1>4. ASSUME NEW i \in 1 .. Len(s) PROVE i \in 1 .. Len(a) \/ i - Len(a) \in 1 .. Len(b)
  BY <1>1
<1> QED BY <1>1, <1>2, <1>3, <1>4

(* Empty sequences, first and last.                                        *)
LEMMA Ends3 ==
    ASSUME NEW s \in Seq(Steps)
    PROVE  /\ Len(s) \in Nat /\ (s = <<>> <=> Len(s) = 0)
           /\ s # <<>> => Len(s) \in Nat \ {0} /\ 1 \in 1 .. Len(s) /\ Len(s) \in 1 .. Len(s)
                          /\ s[1] \in Steps /\ s[Len(s)] \in Steps
           /\ \A i \in 1 .. Len(s) : s[i] \in Steps
<1>1. Len(s) \in Nat /\ \A i \in 1 .. Len(s) : s[i] \in Steps
  BY Elements
<1>2. s = <<>> <=> Len(s) = 0
  OBVIOUS
<1> QED BY <1>1, <1>2

(* Two lists in a row: what comes right after what.                        *)
InARow(s, a, b, n, m) ==
    /\ n \in Nat /\ m \in Nat /\ s \in Seq(Steps) /\ Len(s) = n + m
    /\ \A i \in 1 .. n : i \in 1 .. Len(s) /\ s[i] = a[i]
    /\ \A i \in 1 .. m : n + i \in 1 .. Len(s) /\ s[n + i] = b[i]
    /\ \A i \in 1 .. Len(s) : i \in 1 .. n \/ (i - n \in 1 .. m /\ s[i] = b[i - n])

LEMMA CatIs ==
    ASSUME NEW a \in Seq(Steps), NEW b \in Seq(Steps), NEW s, s = a \o b
    PROVE  InARow(s, a, b, Len(a), Len(b))
<1> SUFFICES ASSUME NEW n, NEW m, n = Len(a), m = Len(b) PROVE InARow(s, a, b, n, m)
  OBVIOUS
<1>1. n \in Nat /\ m \in Nat /\ s \in Seq(Steps) /\ Len(s) = n + m
  BY Cat
<1>2. \A i \in 1 .. n : i \in 1 .. Len(s) /\ s[i] = a[i]
  BY Cat, SMT
<1>3. \A i \in 1 .. m : n + i \in 1 .. Len(s) /\ s[n + i] = b[i]
  BY Cat, SMT
<1>4. \A i \in 1 .. Len(s) : i \in 1 .. n \/ i - n \in 1 .. m
  BY Cat
<1>5. ASSUME NEW i \in 1 .. Len(s), i - n \in 1 .. m PROVE s[i] = b[i - n]
  <2>1. n + (i - n) = i
    BY <1>1, <1>5
  <2>2. s[n + (i - n)] = b[i - n]
    BY <1>3, <1>5
  <2> QED BY <2>1, <2>2
<1> QED BY <1>1, <1>2, <1>3, <1>4, <1>5 DEF InARow

LEMMA JoinLinked ==
    ASSUME NEW a \in Seq(Steps), NEW b \in Seq(Steps), Linked(a), Linked(b),
           a # <<>> /\ b # <<>> => Then(a[Len(a)], b[1]), NEW s, s = a \o b
    PROVE  Linked(s)
<1> SUFFICES ASSUME NEW i \in 1 .. Len(s) - 1 PROVE Then(s[i], s[i + 1])
  BY DEF Linked
<1> DEFINE n == Len(a)
           m == Len(b)
<1>1. /\ n \in Nat /\ m \in Nat /\ s \in Seq(Steps) /\ Len(s) = n + m
      /\ \A j \in 1 .. n : j \in 1 .. Len(s) /\ s[j] = a[j]
      /\ \A j \in 1 .. m : n + j \in 1 .. Len(s) /\ s[n + j] = b[j]
      /\ \A j \in 1 .. Len(s) : j \in 1 .. n \/ (j - n \in 1 .. m /\ s[j] = b[j - n])
  <2>1. InARow(s, a, b, n, m)
    BY CatIs, Zenon
  <2> QED BY <2>1, Zenon DEF InARow
<1>2. (n = 0 <=> a = <<>>) /\ (m = 0 <=> b = <<>>)
  BY Ends3
<1>3. /\ \A j \in 1 .. n - 1 : Then(a[j], a[j + 1])
      /\ \A j \in 1 .. m - 1 : Then(b[j], b[j + 1])
  BY DEF Linked
<1>4. n # 0 /\ m # 0 => Then(a[n], b[1])
  BY <1>2
<1> HIDE DEF n, m
<1>5. CASE i \in 1 .. n - 1
  <2>1. i \in 1 .. n /\ i + 1 \in 1 .. n
    BY <1>1, <1>5
  <2>2. s[i] = a[i] /\ s[i + 1] = a[i + 1]
    BY <1>1, <2>1
  <2> QED BY <1>3, <1>5, <2>2
<1>6. CASE i = n
  <2>1. n \in 1 .. n /\ 1 \in 1 .. m /\ n # 0 /\ m # 0
    BY <1>1, <1>6
  <2>2. s[i] = a[n] /\ s[i + 1] = b[1]
    BY <1>1, <1>6, <2>1
  <2> QED BY <1>4, <2>1, <2>2
<1>7. CASE i - n \in 1 .. m - 1
  <2>1. i - n \in 1 .. m /\ (i - n) + 1 \in 1 .. m /\ n + (i - n) = i /\ n + ((i - n) + 1) = i + 1
    BY <1>1, <1>7
  <2>2. s[n + (i - n)] = b[i - n] /\ s[n + ((i - n) + 1)] = b[(i - n) + 1]
    BY <1>1, <2>1
  <2>3. Then(b[i - n], b[(i - n) + 1])
    BY <1>3, <1>7
  <2> QED BY <2>1, <2>2, <2>3
<1>8. i \in 1 .. n - 1 \/ i = n \/ i - n \in 1 .. m - 1
  BY <1>1
<1> QED BY <1>5, <1>6, <1>7, <1>8

(* A list of steps: how many there are, of which kinds and about which     *)
(* task, the first and the last.                                           *)
Piece(s, n, D, t, x, y) ==
    /\ s \in Seq(Steps) /\ n \in Nat \ {0} /\ Len(s) = n /\ Linked(s)
    /\ x \in Steps /\ s[1] = x /\ y \in Steps /\ s[n] = y
    /\ \A i \in 1 .. n : s[i].do \in D /\ (s[i].do \in TaskDo => s[i].arg = t)

(* Two lists in a row are a list.                                          *)
LEMMA Join ==
    ASSUME NEW a, NEW b, NEW n, NEW m, NEW D, NEW E, NEW t, NEW x, NEW y, NEW z, NEW w,
           Piece(a, n, D, t, x, y), Piece(b, m, E, t, z, w), Then(y, z), NEW s, s = a \o b
    PROVE  Piece(s, n + m, D \cup E, t, x, w)
<1>1. /\ a \in Seq(Steps) /\ n \in Nat \ {0} /\ Len(a) = n /\ Linked(a)
      /\ x \in Steps /\ a[1] = x /\ y \in Steps /\ a[n] = y
      /\ \A i \in 1 .. n : a[i].do \in D /\ (a[i].do \in TaskDo => a[i].arg = t)
  BY Zenon DEF Piece
<1>2. /\ b \in Seq(Steps) /\ m \in Nat \ {0} /\ Len(b) = m /\ Linked(b)
      /\ z \in Steps /\ b[1] = z /\ w \in Steps /\ b[m] = w
      /\ \A i \in 1 .. m : b[i].do \in E /\ (b[i].do \in TaskDo => b[i].arg = t)
  BY Zenon DEF Piece
<1>3. /\ n \in Nat /\ m \in Nat /\ s \in Seq(Steps) /\ Len(s) = n + m
      /\ \A i \in 1 .. n : i \in 1 .. Len(s) /\ s[i] = a[i]
      /\ \A i \in 1 .. m : n + i \in 1 .. Len(s) /\ s[n + i] = b[i]
      /\ \A i \in 1 .. Len(s) : i \in 1 .. n \/ (i - n \in 1 .. m /\ s[i] = b[i - n])
  <2>1. InARow(s, a, b, Len(a), Len(b))
    BY <1>1, <1>2, CatIs, Zenon
  <2>2. InARow(s, a, b, n, m)
    BY <1>1, <1>2, <2>1, Zenon
  <2> QED BY <2>2, Zenon DEF InARow
<1>4. n + m \in Nat \ {0} /\ 1 \in 1 .. n /\ n \in 1 .. n /\ 1 \in 1 .. m /\ m \in 1 .. m
  BY <1>1, <1>2
<1>5. s[1] = x /\ s[n + m] = w
  BY <1>1, <1>2, <1>3, <1>4
<1>6. ASSUME NEW i \in 1 .. n + m PROVE s[i].do \in D \cup E /\ (s[i].do \in TaskDo => s[i].arg = t)
  BY <1>1, <1>2, <1>3
<1>7. Linked(s)
  BY <1>1, <1>2, JoinLinked
<1> QED BY <1>1, <1>2, <1>3, <1>4, <1>5, <1>6, <1>7 DEF Piece

(* One step is a list, ...                                                 *)
LEMMA OnePiece ==
    ASSUME NEW t, NEW x \in Steps, x.do \in TaskDo => x.arg = t, NEW s, s = <<x>>
    PROVE  Piece(s, 1, {x.do}, t, x, x)
<1>1. s \in Seq(Steps) /\ Len(s) = 1 /\ s[1] = x
  OBVIOUS
<1>2. Linked(s)
  BY <1>1 DEF Linked
<1> QED BY <1>1, <1>2 DEF Piece

(* ... and so are two.                                                     *)
LEMMA TwoPiece ==
    ASSUME NEW t, NEW x \in Steps, NEW y \in Steps, Then(x, y), x.do \in TaskDo => x.arg = t,
           y.do \in TaskDo => y.arg = t, NEW s, s = <<x, y>>
    PROVE  Piece(s, 2, {x.do, y.do}, t, x, y)
<1>1. s \in Seq(Steps) /\ Len(s) = 2 /\ s[1] = x /\ s[2] = y
  OBVIOUS
<1>2. Linked(s)
  BY <1>1 DEF Linked
<1> QED BY <1>1, <1>2 DEF Piece

(* A list that is all a goroutine does, ...                                *)
LEMMA PieceFormed ==
    ASSUME NEW s, NEW n, NEW D, NEW t, NEW x, NEW y, Piece(s, n, D, t, x, y), MayEnd(y), Creating(s), Closing(s)
    PROVE  /\ s \in Seq(Steps) /\ Formed(s) /\ s # <<>> /\ Len(s) = n /\ s[1] = x
           /\ \A u : Mentions(s, u) => u = t
           /\ \A u : Creates(s, u) => u = t /\ "create" \in D
<1>1. /\ s \in Seq(Steps) /\ n \in Nat \ {0} /\ Len(s) = n /\ Linked(s) /\ s[1] = x /\ s[n] = y
      /\ \A i \in 1 .. n : s[i].do \in D /\ (s[i].do \in TaskDo => s[i].arg = t)
  BY Zenon DEF Piece
<1>2. s # <<>>
  BY <1>1, Ends3
<1>3. Formed(s)
  BY <1>1 DEF Formed
<1>4. \A u : Mentions(s, u) => u = t
  BY <1>1 DEF Mentions
<1>5. "create" \in TaskDo
  BY DEF TaskDo
<1>6. \A u : Creates(s, u) => u = t /\ "create" \in D
  BY <1>1, <1>5 DEF Creates
<1> QED BY <1>1, <1>2, <1>3, <1>4, <1>6

LEMMA NoneOf ==
    ASSUME NEW s, NEW n, NEW D, NEW t, NEW x, NEW y, Piece(s, n, D, t, x, y)
    PROVE  ("create" \notin D => Creating(s)) /\ ("close" \notin D => Closing(s))
BY DEF Piece, Creating, Closing

(* ... and one that is followed by another.                                *)
LEMMA FormedJoin ==
    ASSUME NEW a \in Seq(Steps), NEW r \in Seq(Steps), a # <<>>, Linked(a), Creating(a), Closing(a),
           MayEnd(a[Len(a)]), Formed(r), \A i \in 1 .. Len(r) : r[i].do # "create",
           r # <<>> => Then(a[Len(a)], r[1]), NEW s, s = a \o r
    PROVE  /\ s \in Seq(Steps) /\ Formed(s) /\ s # <<>> /\ s[1] = a[1]
           /\ \A u : Mentions(s, u) => Mentions(a, u) \/ Mentions(r, u)
           /\ \A u : Creates(s, u) => Creates(a, u)
<1> DEFINE n == Len(a)
           m == Len(r)
<1>1. /\ n \in Nat /\ m \in Nat /\ s \in Seq(Steps) /\ Len(s) = n + m
      /\ \A i \in 1 .. n : i \in 1 .. Len(s) /\ s[i] = a[i]
      /\ \A i \in 1 .. m : n + i \in 1 .. Len(s) /\ s[n + i] = r[i]
      /\ \A i \in 1 .. Len(s) : i \in 1 .. n \/ (i - n \in 1 .. m /\ s[i] = r[i - n])
  <2>1. InARow(s, a, r, n, m)
    BY CatIs, Zenon
  <2> QED BY <2>1, Zenon DEF InARow
<1>2. n \in Nat \ {0} /\ (m = 0 <=> r = <<>>)
  BY Ends3
<1>3. Linked(s)
  BY JoinLinked DEF Formed
<1>4. s[1] = a[1] /\ s # <<>>
  <2>1. 1 \in 1 .. n /\ Len(s) # 0
    BY <1>1, <1>2
  <2> QED BY <1>1, <2>1, Ends3
<1>5. MayEnd(s[Len(s)])
  <2>1. CASE m = 0
    <3>1. n \in 1 .. n /\ Len(s) = n
      BY <1>1, <1>2, <2>1
    <3> QED BY <1>1, <3>1
  <2>2. CASE m # 0
    <3>1. m \in 1 .. m /\ Len(s) = n + m
      BY <1>1, <2>2
    <3>2. s[n + m] = r[m]
      BY <1>1, <3>1
    <3> QED BY <1>2, <2>2, <3>1, <3>2 DEF Formed
  <2> QED BY <2>1, <2>2
<1>6. Closing(s)
  <2> SUFFICES ASSUME NEW i \in 1 .. Len(s), s[i].do = "close"
               PROVE  s[i].skip \in {4, 7} /\ (s[i].skip = 7 => i + 5 <= Len(s) /\ s[i + 5].do = "drop")
    BY DEF Closing
  <2>1. CASE i \in 1 .. n
    <3>1. a[i].do = "close" /\ s[i] = a[i]
      BY <1>1, <2>1
    <3>2. a[i].skip \in {4, 7} /\ (a[i].skip = 7 => i + 5 <= n /\ a[i + 5].do = "drop")
      BY <2>1, <3>1 DEF Closing
    <3>3. i + 5 <= n => i + 5 \in 1 .. n /\ i + 5 <= Len(s)
      BY <1>1, <2>1
    <3> QED BY <1>1, <3>1, <3>2, <3>3
  <2>2. CASE i - n \in 1 .. m /\ s[i] = r[i - n]
    <3>1. r[i - n].skip \in {4, 7} /\ (r[i - n].skip = 7 => (i - n) + 5 <= m /\ r[(i - n) + 5].do = "drop")
      BY <2>2 DEF Closing, Formed
    <3>2. (i - n) + 5 <= m => (i - n) + 5 \in 1 .. m /\ i + 5 <= Len(s) /\ n + ((i - n) + 5) = i + 5
      <4>1. PICK l \in Nat, k \in Nat, j \in Nat : l = Len(s) /\ k = n /\ j = m
        BY <1>1
      <4>2. l = k + j /\ i \in Nat /\ i - k \in 1 .. j
        BY <1>1, <2>2, <4>1
      <4>3. (i - k) + 5 <= j => (i - k) + 5 \in 1 .. j /\ i + 5 <= l /\ k + ((i - k) + 5) = i + 5
        BY <4>2
      <4> QED BY <4>1, <4>3
    <3>3. (i - n) + 5 <= m => s[n + ((i - n) + 5)] = r[(i - n) + 5]
      BY <1>1, <3>2
    <3> QED BY <2>2, <3>1, <3>2, <3>3
  <2> QED BY <1>1, <2>1, <2>2
<1> HIDE DEF n, m
<1>7. \A i \in 1 .. m : r[i].do # "create"
  BY DEF m
<1>8. \A i \in 1 .. n : a[i].do = "create" => i = 1 \/ (i = 2 /\ a[1].do = "test")
  BY DEF Creating, n
<1>9. Creating(s)
  BY <1>1, <1>4, <1>7, <1>8 DEF Creating
<1>10. \A u : Mentions(s, u) => Mentions(a, u) \/ Mentions(r, u)
  BY <1>1 DEF Mentions, n, m
<1>11. \A u : Creates(s, u) => Creates(a, u)
  BY <1>1, <1>7 DEF Creates, n
<1> QED BY <1>1, <1>3, <1>4, <1>5, <1>6, <1>9, <1>10, <1>11 DEF Formed

-----------------------------------------------------------------------------
(* Tunnels: what each request and each handler does.                       *)

TStep(d, t) == Tasks!Step(d, t)

LEMMA TStepIs ==
    /\ \A d \in TaskDo, t \in Tasks!Task : TStep(d, t) \in Steps
    /\ \A d \in ClientDo, c \in Client : TStep(d, c) \in Steps
    /\ \A d \in FileDo, f \in Tasks!File : TStep(d, f) \in Steps
    /\ \A d, x : TStep(d, x).do = d /\ TStep(d, x).arg = x
    /\ "tasks" \in Tasks!File /\ "clients" \in Tasks!File
BY StepsAre DEF TStep, Tasks!Step, Tasks!File

LEMMA SavePiece ==
    ASSUME NEW f \in Tasks!File, NEW t
    PROVE  Piece(Tasks!Save(f), 2, FileDo, t, TStep("snapshot", f), TStep("rename", f))
<1>1. Tasks!Save(f) = <<TStep("snapshot", f), TStep("rename", f)>>
  BY DEF Tasks!Save, TStep
<1>2. /\ TStep("snapshot", f) \in Steps /\ TStep("rename", f) \in Steps
      /\ TStep("snapshot", f).do = "snapshot" /\ TStep("rename", f).do = "rename"
      /\ TStep("snapshot", f).arg = f /\ TStep("rename", f).arg = f
  BY TStepIs DEF FileDo
<1>3. Then(TStep("snapshot", f), TStep("rename", f))
  BY <1>2 DEF Then
<1>4. "snapshot" \notin TaskDo /\ "rename" \notin TaskDo /\ FileDo = {"snapshot", "rename"}
  BY DEF TaskDo, FileDo
<1> QED BY <1>1, <1>2, <1>3, <1>4, TwoPiece

(* One step about a task.                                                  *)
LEMMA TaskPiece ==
    ASSUME NEW d \in TaskDo, NEW t \in Tasks!Task
    PROVE  Piece(<<TStep(d, t)>>, 1, {d}, t, TStep(d, t), TStep(d, t))
BY TStepIs, OnePiece

(* One step about a client.                                                *)
LEMMA ClientPiece ==
    ASSUME NEW d \in ClientDo, NEW c \in Client, NEW t
    PROVE  Piece(<<TStep(d, c)>>, 1, {d}, t, TStep(d, c), TStep(d, c))
<1>1. d \notin TaskDo
  BY DEF ClientDo, TaskDo
<1> QED BY <1>1, TStepIs, OnePiece

(* Kinds of steps, whose names differ.                                     *)
LEMMA Kinds3 ==
    /\ {"store", "get", "test", "run", "enable", "drop", "del", "create", "open", "testOwn", "unrun", "close", "load"}
          \subseteq TaskDo
    /\ {"delclient", "sweep", "kick", "pause", "sweepNoStore", "own", "closeClient"} \subseteq ClientDo
    /\ FileDo = {"snapshot", "rename"}
    /\ \A d \in ClientDo : d \notin TaskDo /\ d \notin FileDo
    /\ \A d \in TaskDo : d \notin FileDo
BY DEF TaskDo, ClientDo, FileDo

LEMMA UpdatePiece ==
    ASSUME NEW t \in Tasks!Task
    PROVE  Piece(Tasks!UpdateTask(t), 3, {"store"} \cup FileDo, t, TStep("store", t), TStep("rename", "tasks"))
<1>1. Piece(<<TStep("store", t)>>, 1, {"store"}, t, TStep("store", t), TStep("store", t))
  BY TaskPiece, Kinds3
<1>2. Piece(Tasks!Save("tasks"), 2, FileDo, t, TStep("snapshot", "tasks"), TStep("rename", "tasks"))
  BY SavePiece, TStepIs
<1>3. Then(TStep("store", t), TStep("snapshot", "tasks"))
  BY TStepIs DEF Then
<1>4. Tasks!UpdateTask(t) = <<TStep("store", t)>> \o Tasks!Save("tasks")
  BY DEF Tasks!UpdateTask, TStep
<1>5. Piece(Tasks!UpdateTask(t), 1 + 2, {"store"} \cup FileDo, t, TStep("store", t), TStep("rename", "tasks"))
  BY <1>1, <1>2, <1>3, <1>4, Join, Zenon
<1> QED BY <1>5

LEMMA AddPiece ==
    ASSUME NEW t \in Tasks!Task
    PROVE  Piece(Tasks!AddTask(t), 2, {"test", "run"}, t, TStep("test", t), TStep("run", t))
<1>1. Tasks!AddTask(t) = <<TStep("test", t), TStep("run", t)>>
  BY DEF Tasks!AddTask, TStep
<1>2. /\ TStep("test", t) \in Steps /\ TStep("run", t) \in Steps
      /\ TStep("test", t).do = "test" /\ TStep("run", t).do = "run"
      /\ TStep("test", t).arg = t /\ TStep("run", t).arg = t
  BY TStepIs, Kinds3
<1>3. Then(TStep("test", t), TStep("run", t))
  BY <1>2 DEF Then
<1> QED BY <1>1, <1>2, <1>3, TwoPiece

LEMMA StartPiece ==
    ASSUME NEW t \in Tasks!Task
    PROVE  Piece(Tasks!StartTask(t), 7, {"get", "test", "run", "enable", "store"} \cup FileDo, t,
                 TStep("get", t), TStep("rename", "tasks"))
<1>1. /\ Piece(<<TStep("get", t)>>, 1, {"get"}, t, TStep("get", t), TStep("get", t))
      /\ Piece(<<TStep("enable", t)>>, 1, {"enable"}, t, TStep("enable", t), TStep("enable", t))
  BY TaskPiece, Kinds3
<1>2. Then(TStep("get", t), TStep("test", t)) /\ Then(TStep("run", t), TStep("enable", t))
      /\ Then(TStep("enable", t), TStep("store", t))
  BY TStepIs DEF Then
<1> DEFINE a == <<TStep("get", t)>> \o Tasks!AddTask(t)
           b == a \o <<TStep("enable", t)>>
<1>3. Tasks!StartTask(t) = b \o Tasks!UpdateTask(t)
  BY DEF Tasks!StartTask, TStep
<1>4. Piece(a, 1 + 2, {"get"} \cup {"test", "run"}, t, TStep("get", t), TStep("run", t))
  BY <1>1, <1>2, AddPiece, Join, Zenon
<1> HIDE DEF a
<1>5. Piece(b, 1 + 2 + 1, {"get"} \cup {"test", "run"} \cup {"enable"}, t, TStep("get", t), TStep("enable", t))
  BY <1>1, <1>2, <1>4, Join, Zenon
<1> HIDE DEF b
<1>6. Piece(Tasks!StartTask(t), 1 + 2 + 1 + 3, ({"get"} \cup {"test", "run"} \cup {"enable"}) \cup ({"store"} \cup FileDo),
            t, TStep("get", t), TStep("rename", "tasks"))
  BY <1>2, <1>3, <1>5, UpdatePiece, Join, Zenon
<1>7. 1 + 2 + 1 + 3 = 7
  OBVIOUS
<1>8. ({"get"} \cup {"test", "run"} \cup {"enable"}) \cup ({"store"} \cup FileDo)
         = {"get", "test", "run", "enable", "store"} \cup FileDo
  OBVIOUS
<1> QED BY <1>6, <1>7, <1>8

(* StopServer: an error of it skips as much as its caller returns past.    *)
CloseStep(t, k) == [do |-> "close", arg |-> t, skip |-> 4 + k]

LEMMA StopPiece ==
    ASSUME NEW t \in Tasks!Task, NEW k \in {0, 3}
    PROVE  /\ Piece(Tasks!StopServer(t, k), 5, {"close", "unrun", "store"} \cup FileDo, t, CloseStep(t, k), TStep("rename", "tasks"))
           /\ \A i \in 1 .. 5 : Tasks!StopServer(t, k)[i].do = "close" => i = 1
<1> DEFINE a == <<CloseStep(t, k), TStep("unrun", t)>>
           b == Tasks!UpdateTask(t)
           s == Tasks!StopServer(t, k)
<1>1. /\ CloseStep(t, k) \in Steps /\ TStep("unrun", t) \in Steps
      /\ CloseStep(t, k).do = "close" /\ TStep("unrun", t).do = "unrun"
      /\ CloseStep(t, k).arg = t /\ TStep("unrun", t).arg = t
  <2>1. 4 + k \in Nat /\ "close" \in TaskDo /\ "unrun" \in TaskDo
    BY Kinds3
  <2> QED BY <2>1, TStepIs, StepsAre DEF CloseStep
<1>2. Then(CloseStep(t, k), TStep("unrun", t))
  BY <1>1 DEF Then
<1>3. Piece(a, 2, {"close", "unrun"}, t, CloseStep(t, k), TStep("unrun", t))
  BY <1>1, <1>2, TwoPiece
<1>4. s = a \o b
  BY DEF Tasks!StopServer, CloseStep, TStep
<1>5. Then(TStep("unrun", t), TStep("store", t))
  BY TStepIs DEF Then
<1>6. Piece(b, 3, {"store"} \cup FileDo, t, TStep("store", t), TStep("rename", "tasks"))
  BY UpdatePiece
<1>7. a[2] = TStep("unrun", t)
  OBVIOUS
<1> HIDE DEF a, b, s
<1>8. Piece(s, 2 + 3, {"close", "unrun"} \cup ({"store"} \cup FileDo), t, CloseStep(t, k), TStep("rename", "tasks"))
  BY <1>3, <1>4, <1>5, <1>6, Join, Zenon
<1>9. 2 + 3 = 5 /\ {"close", "unrun"} \cup ({"store"} \cup FileDo) = {"close", "unrun", "store"} \cup FileDo
  OBVIOUS
<1>10. ASSUME NEW i \in 1 .. 5, s[i].do = "close" PROVE i = 1
  <2>1. a \in Seq(Steps) /\ b \in Seq(Steps) /\ Len(a) = 2 /\ Len(b) = 3
    BY <1>3, <1>6 DEF Piece
  <2>2. InARow(s, a, b, Len(a), Len(b))
    BY <1>4, <2>1, CatIs, Zenon
  <2>3. InARow(s, a, b, 2, 3)
    BY <2>1, <2>2
  <2>4. (i \in 1 .. 2 /\ s[i] = a[i]) \/ (i - 2 \in 1 .. 3 /\ s[i] = b[i - 2])
    BY <2>3 DEF InARow
  <2>5. i - 2 \in 1 .. 3 => b[i - 2].do # "close"
    BY <1>6, Kinds3 DEF Piece
  <2>6. i = 1 \/ i = 2
    BY <1>10, <2>4, <2>5
  <2> QED BY <1>1, <1>7, <1>10, <2>4, <2>5, <2>6
<1> QED BY <1>8, <1>9, <1>10 DEF s

LEMMA DropPiece ==
    ASSUME NEW t \in Tasks!Task
    PROVE  Piece(Tasks!DropTask(t), 3, {"drop"} \cup FileDo, t, TStep("drop", t), TStep("rename", "tasks"))
<1>1. Piece(<<TStep("drop", t)>>, 1, {"drop"}, t, TStep("drop", t), TStep("drop", t))
  BY TaskPiece, Kinds3
<1>2. Piece(Tasks!Save("tasks"), 2, FileDo, t, TStep("snapshot", "tasks"), TStep("rename", "tasks"))
  BY SavePiece, TStepIs
<1>3. Then(TStep("drop", t), TStep("snapshot", "tasks"))
  BY TStepIs DEF Then
<1>4. Tasks!DropTask(t) = <<TStep("drop", t)>> \o Tasks!Save("tasks")
  BY DEF Tasks!DropTask, TStep
<1>5. Piece(Tasks!DropTask(t), 1 + 2, {"drop"} \cup FileDo, t, TStep("drop", t), TStep("rename", "tasks"))
  BY <1>1, <1>2, <1>3, <1>4, Join, Zenon
<1> QED BY <1>5

LEMMA NewPiece ==
    ASSUME NEW t \in Tasks!Task
    PROVE  Piece(Tasks!NewTask(t), 3, {"create"} \cup FileDo, t, TStep("create", t), TStep("rename", "tasks"))
<1>1. Piece(<<TStep("create", t)>>, 1, {"create"}, t, TStep("create", t), TStep("create", t))
  BY TaskPiece, Kinds3
<1>2. Piece(Tasks!Save("tasks"), 2, FileDo, t, TStep("snapshot", "tasks"), TStep("rename", "tasks"))
  BY SavePiece, TStepIs
<1>3. Then(TStep("create", t), TStep("snapshot", "tasks"))
  BY TStepIs DEF Then
<1>4. Tasks!NewTask(t) = <<TStep("create", t)>> \o Tasks!Save("tasks")
  BY DEF Tasks!NewTask, TStep
<1>5. Piece(Tasks!NewTask(t), 1 + 2, {"create"} \cup FileDo, t, TStep("create", t), TStep("rename", "tasks"))
  BY <1>1, <1>2, <1>3, <1>4, Join, Zenon
<1> QED BY <1>5

(* What StopServer ends with when it is part of DelTask, and of Edit.      *)
LEMMA StopDropPiece ==
    ASSUME NEW t \in Tasks!Task, NEW s, s = Tasks!StopServer(t, 3) \o Tasks!DropTask(t)
    PROVE  /\ Piece(s, 8, {"close", "unrun", "store", "drop"} \cup FileDo, t, CloseStep(t, 3), TStep("rename", "tasks"))
           /\ Closing(s)
<1> DEFINE a == Tasks!StopServer(t, 3)
           b == Tasks!DropTask(t)
<1>1. /\ Piece(a, 5, {"close", "unrun", "store"} \cup FileDo, t, CloseStep(t, 3), TStep("rename", "tasks"))
      /\ \A i \in 1 .. 5 : a[i].do = "close" => i = 1
  BY StopPiece
<1>2. Piece(b, 3, {"drop"} \cup FileDo, t, TStep("drop", t), TStep("rename", "tasks"))
  BY DropPiece
<1>3. Then(TStep("rename", "tasks"), TStep("drop", t)) /\ TStep("drop", t).do = "drop"
  BY TStepIs DEF Then
<1>4. s = a \o b
  OBVIOUS
<1> HIDE DEF a, b
<1>5. Piece(s, 5 + 3, ({"close", "unrun", "store"} \cup FileDo) \cup ({"drop"} \cup FileDo), t, CloseStep(t, 3), TStep("rename", "tasks"))
  BY <1>1, <1>2, <1>3, <1>4, Join, Zenon
<1>6. 5 + 3 = 8 /\ ({"close", "unrun", "store"} \cup FileDo) \cup ({"drop"} \cup FileDo) = {"close", "unrun", "store", "drop"} \cup FileDo
  OBVIOUS
<1>7. Piece(s, 8, {"close", "unrun", "store", "drop"} \cup FileDo, t, CloseStep(t, 3), TStep("rename", "tasks"))
  BY <1>5, <1>6
<1>8. ASSUME NEW i \in 1 .. 8, s[i].do = "close" PROVE i = 1
  <2>1. a \in Seq(Steps) /\ b \in Seq(Steps) /\ Len(a) = 5 /\ Len(b) = 3
    BY <1>1, <1>2 DEF Piece
  <2>2. InARow(s, a, b, Len(a), Len(b))
    BY <1>4, <2>1, CatIs, Zenon
  <2>3. InARow(s, a, b, 5, 3)
    BY <2>1, <2>2
  <2>6. Len(s) = 5 + 3
    BY <2>3 DEF InARow
  <2>7. /\ \A j \in 1 .. 5 : s[j] = a[j]
        /\ \A j \in 1 .. Len(s) : j \in 1 .. 5 \/ (j - 5 \in 1 .. 3 /\ s[j] = b[j - 5])
    BY <2>3 DEF InARow
  <2>8. i \in 1 .. Len(s)
    BY <2>6
  <2>4. (i \in 1 .. 5 /\ s[i] = a[i]) \/ (i - 5 \in 1 .. 3 /\ s[i] = b[i - 5])
    BY <2>7, <2>8
  <2>5. i - 5 \in 1 .. 3 => b[i - 5].do # "close"
    BY <1>2, Kinds3 DEF Piece
  <2> QED BY <1>1, <1>8, <2>4, <2>5
<1>9. s[6] = TStep("drop", t)
  <2>1. a \in Seq(Steps) /\ b \in Seq(Steps) /\ Len(a) = 5 /\ Len(b) = 3 /\ b[1] = TStep("drop", t)
    BY <1>1, <1>2 DEF Piece
  <2>2. InARow(s, a, b, Len(a), Len(b))
    BY <1>4, <2>1, CatIs, Zenon
  <2>3. InARow(s, a, b, 5, 3)
    BY <2>1, <2>2
  <2>4. s[5 + 1] = b[1]
    BY <2>3 DEF InARow
  <2>5. 5 + 1 = 6
    OBVIOUS
  <2> QED BY <2>1, <2>4, <2>5
<1>10. s[1] = CloseStep(t, 3) /\ Len(s) = 8
  BY <1>7 DEF Piece
<1>11. CloseStep(t, 3).skip = 7
  BY DEF CloseStep
<1>12. Closing(s)
  <2>4. \A i \in 1 .. 8 : s[i].do = "close" => i = 1 /\ s[i].skip = 7 /\ i + 5 = 6
    <3>1. s[1].skip = 7 /\ 1 + 5 = 6
      BY <1>10, <1>11
    <3> QED BY <1>8, <3>1
  <2>1. \A i \in 1 .. Len(s) : s[i].do = "close" => i = 1 /\ s[i].skip = 7 /\ i + 5 = 6
    BY <1>10, <2>4
  <2>2. s[6].do = "drop"
    BY <1>3, <1>9
  <2>3. 6 <= Len(s)
    BY <1>10
  <2> QED BY <2>1, <2>2, <2>3 DEF Closing
<1> QED BY <1>7, <1>12

(* What a goroutine sets out to do: it ends, does not hold a file's lock   *)
(* yet, and is about certain tasks, of which it creates some.              *)
Errand(s, T, C) ==
    /\ s \in Seq(Steps) /\ Formed(s) /\ (s # <<>> => s[1].do # "rename")
    /\ \A u : Mentions(s, u) => u \in T
    /\ \A u : Creates(s, u) => u \in C

LEMMA PieceErrand ==
    ASSUME NEW s, NEW n, NEW D, NEW t, NEW x, NEW y, Piece(s, n, D, t, x, y), MayEnd(y), x.do # "rename",
           "close" \notin D \/ Closing(s)
    PROVE  /\ "create" \notin D => Errand(s, {t}, {})
           /\ Creating(s) => Errand(s, {t}, {t})
           /\ D \cap TaskDo = {} => Errand(s, {}, {})
<1>1. Closing(s) /\ ("create" \notin D => Creating(s))
  BY NoneOf, Zenon
<1>2. ASSUME Creating(s)
      PROVE  /\ s \in Seq(Steps) /\ Formed(s) /\ s # <<>> /\ Len(s) = n /\ s[1] = x
             /\ \A u : Mentions(s, u) => u = t
             /\ \A u : Creates(s, u) => u = t /\ "create" \in D
  BY <1>1, <1>2, PieceFormed, Zenon
<1>3. ASSUME Creating(s) PROVE Errand(s, {t}, {t}) /\ ("create" \notin D => Errand(s, {t}, {}))
  BY <1>2, <1>3 DEF Errand
<1>4. ASSUME D \cap TaskDo = {} PROVE Errand(s, {}, {})
  <2>1. "create" \notin D /\ \A i \in 1 .. n : s[i].do \notin TaskDo
    BY <1>4, Kinds3 DEF Piece
  <2>2. \A u : ~Mentions(s, u)
    BY <2>1 DEF Mentions, Piece
  <2> QED BY <1>1, <1>3, <2>1, <2>2 DEF Errand
<1> QED BY <1>1, <1>3, <1>4

LEMMA RenameEnds == MayEnd(TStep("rename", "tasks")) /\ MayEnd(TStep("rename", "clients"))
BY TStepIs DEF MayEnd

LEMMA TaskErrands ==
    ASSUME NEW t \in Tasks!Task
    PROVE  /\ Errand(Tasks!StartTask(t), {t}, {}) /\ Errand(Tasks!StopServer(t, 0), {t}, {})
           /\ Errand(Tasks!DelTask(t), {t}, {}) /\ Errand(Tasks!DropTask(t), {t}, {})
<1>1. Errand(Tasks!StartTask(t), {t}, {})
  <2>1. TStep("get", t).do # "rename"
    BY TStepIs
  <2>2. "close" \notin {"get", "test", "run", "enable", "store"} \cup FileDo
        /\ "create" \notin {"get", "test", "run", "enable", "store"} \cup FileDo
    BY Kinds3
  <2> QED BY <2>1, <2>2, StartPiece, PieceErrand, RenameEnds, Zenon
<1>2. Errand(Tasks!StopServer(t, 0), {t}, {})
  <2>1. /\ Piece(Tasks!StopServer(t, 0), 5, {"close", "unrun", "store"} \cup FileDo, t, CloseStep(t, 0), TStep("rename", "tasks"))
        /\ \A i \in 1 .. 5 : Tasks!StopServer(t, 0)[i].do = "close" => i = 1
    BY StopPiece
  <2>2. CloseStep(t, 0).do # "rename" /\ CloseStep(t, 0).skip = 4
    BY DEF CloseStep
  <2>3. Closing(Tasks!StopServer(t, 0))
    <3>1. Tasks!StopServer(t, 0)[1] = CloseStep(t, 0) /\ Len(Tasks!StopServer(t, 0)) = 5
      BY <2>1 DEF Piece
    <3> QED BY <2>1, <2>2, <3>1 DEF Closing
  <2>4. "create" \notin {"close", "unrun", "store"} \cup FileDo
    BY Kinds3
  <2> QED BY <2>1, <2>2, <2>3, <2>4, PieceErrand, RenameEnds, Zenon
<1>3. Errand(Tasks!DelTask(t), {t}, {})
  <2>1. Piece(<<TStep("del", t)>>, 1, {"del"}, t, TStep("del", t), TStep("del", t))
    BY TaskPiece, Kinds3
  <2>2. Tasks!DelTask(t) = <<TStep("del", t)>>
    BY DEF Tasks!DelTask, TStep
  <2>3. TStep("del", t).do # "rename" /\ MayEnd(TStep("del", t))
    BY TStepIs DEF MayEnd
  <2>4. "close" \notin {"del"} /\ "create" \notin {"del"}
    OBVIOUS
  <2> QED BY <2>1, <2>2, <2>3, <2>4, PieceErrand, Zenon
<1>4. Errand(Tasks!DropTask(t), {t}, {})
  <2>1. TStep("drop", t).do # "rename"
    BY TStepIs
  <2>2. "close" \notin {"drop"} \cup FileDo /\ "create" \notin {"drop"} \cup FileDo
    BY Kinds3
  <2> QED BY <2>1, <2>2, DropPiece, PieceErrand, RenameEnds, Zenon
<1> QED BY <1>1, <1>2, <1>3, <1>4

LEMMA EditErrand ==
    ASSUME NEW t \in Tasks!Task
    PROVE  Errand(Tasks!Edit(t), {t}, {})
<1> DEFINE a == Tasks!UpdateTask(t)
           b == Tasks!StopServer(t, 0)
           ab == a \o b
           c == Tasks!StartTask(t)
           s == Tasks!Edit(t)
           D == (({"store"} \cup FileDo) \cup ({"close", "unrun", "store"} \cup FileDo))
                  \cup ({"get", "test", "run", "enable", "store"} \cup FileDo)
<1>1. Then(TStep("rename", "tasks"), CloseStep(t, 0)) /\ Then(TStep("rename", "tasks"), TStep("get", t))
  BY TStepIs DEF Then, CloseStep
<1>2. /\ Piece(b, 5, {"close", "unrun", "store"} \cup FileDo, t, CloseStep(t, 0), TStep("rename", "tasks"))
      /\ \A i \in 1 .. 5 : b[i].do = "close" => i = 1
  BY StopPiece
<1>3. s = ab \o c
  BY DEF Tasks!Edit
<1>4. Piece(a, 3, {"store"} \cup FileDo, t, TStep("store", t), TStep("rename", "tasks"))
  BY UpdatePiece
<1>5. Piece(c, 7, {"get", "test", "run", "enable", "store"} \cup FileDo, t, TStep("get", t), TStep("rename", "tasks"))
  BY StartPiece
<1> HIDE DEF a, b, c, s
<1>6. Piece(ab, 3 + 5, ({"store"} \cup FileDo) \cup ({"close", "unrun", "store"} \cup FileDo), t, TStep("store", t), TStep("rename", "tasks"))
  BY <1>1, <1>2, <1>4, Join, Zenon
<1>7. InARow(ab, a, b, 3, 5)
  <2>1. a \in Seq(Steps) /\ b \in Seq(Steps) /\ Len(a) = 3 /\ Len(b) = 5
    BY <1>2, <1>4 DEF Piece
  <2>2. InARow(ab, a, b, Len(a), Len(b))
    BY <2>1, CatIs, Zenon
  <2> QED BY <2>1, <2>2
<1> HIDE DEF ab
<1>8. Piece(s, 3 + 5 + 7, D, t, TStep("store", t), TStep("rename", "tasks"))
  BY <1>1, <1>3, <1>5, <1>6, Join, Zenon
<1>9. Closing(s)
  <2>1. /\ \A i \in 1 .. 3 : a[i].do # "close"
        /\ \A i \in 1 .. 7 : c[i].do # "close"
    BY <1>4, <1>5, Kinds3 DEF Piece
  <2>2. b[1] = CloseStep(t, 0) /\ CloseStep(t, 0).skip = 4
    BY <1>2 DEF Piece, CloseStep
  <2>3. ASSUME NEW i \in 1 .. Len(ab), ab[i].do = "close" PROVE ab[i].skip = 4
    <3>1. /\ \A j \in 1 .. 3 : ab[j] = a[j]
          /\ \A j \in 1 .. Len(ab) : j \in 1 .. 3 \/ (j - 3 \in 1 .. 5 /\ ab[j] = b[j - 3])
      BY <1>7 DEF InARow
    <3>2. i - 3 \in 1 .. 5 /\ ab[i] = b[i - 3]
      BY <2>1, <2>3, <3>1
    <3>3. i - 3 = 1
      BY <1>2, <2>3, <3>2
    <3> QED BY <2>2, <3>2, <3>3
  <2>4. InARow(s, ab, c, Len(ab), Len(c))
    <3>1. ab \in Seq(Steps) /\ c \in Seq(Steps)
      BY <1>5, <1>6 DEF Piece
    <3> QED BY <1>3, <3>1, CatIs, Zenon
  <2>5. ASSUME NEW i \in 1 .. Len(s), s[i].do = "close" PROVE s[i].skip = 4
    <3>1. /\ \A j \in 1 .. Len(ab) : s[j] = ab[j]
          /\ \A j \in 1 .. Len(s) : j \in 1 .. Len(ab) \/ (j - Len(ab) \in 1 .. Len(c) /\ s[j] = c[j - Len(ab)])
      BY <2>4 DEF InARow
    <3>2. Len(c) = 7
      BY <1>5 DEF Piece
    <3> QED BY <2>1, <2>3, <2>5, <3>1, <3>2
  <2> QED BY <2>5 DEF Closing
<1>10. "create" \notin D /\ TStep("store", t).do # "rename"
  BY Kinds3, TStepIs
<1> HIDE DEF D
<1>11. Errand(s, {t}, {})
  BY <1>8, <1>9, <1>10, PieceErrand, RenameEnds, Zenon
<1> QED BY <1>11 DEF s

LEMMA ClientErrands ==
    ASSUME NEW c \in Client
    PROVE  /\ Errand(Tasks!ChangeStatus(c), {}, {}) /\ Errand(Tasks!DelClient(c), {}, {})
           /\ Errand(Tasks!OwnDelClient(c), {}, {}) /\ Errand(Tasks!Expire(c), {}, {})
           /\ Errand(Tasks!CloseClient(c), {}, {})
<1> DEFINE file == Tasks!Save("clients")
           pause == <<TStep("pause", c), TStep("kick", c)>>
           sweep == <<TStep("sweep", c), TStep("kick", c)>>
           delc == <<TStep("delclient", c)>>
           t == 0
<1>1. /\ TStep("pause", c) \in Steps /\ TStep("kick", c) \in Steps /\ TStep("sweep", c) \in Steps
      /\ TStep("delclient", c) \in Steps /\ TStep("sweepNoStore", c) \in Steps
      /\ TStep("pause", c).do = "pause" /\ TStep("kick", c).do = "kick" /\ TStep("sweep", c).do = "sweep"
      /\ TStep("delclient", c).do = "delclient" /\ TStep("sweepNoStore", c).do = "sweepNoStore"
      /\ {"pause", "kick", "sweep", "delclient", "sweepNoStore"} \cap TaskDo = {}
  BY TStepIs, Kinds3
<1>2. /\ Then(TStep("pause", c), TStep("kick", c)) /\ Then(TStep("sweep", c), TStep("kick", c))
      /\ Then(TStep("delclient", c), TStep("snapshot", "clients"))
      /\ Then(TStep("rename", "clients"), TStep("sweep", c))
      /\ Then(TStep("kick", c), TStep("snapshot", "clients"))
      /\ MayEnd(TStep("kick", c)) /\ MayEnd(TStep("sweepNoStore", c))
  BY TStepIs DEF Then, MayEnd
<1>3. Piece(file, 2, FileDo, t, TStep("snapshot", "clients"), TStep("rename", "clients"))
  BY SavePiece, TStepIs
<1>4. Piece(pause, 2, {"pause", "kick"}, t, TStep("pause", c), TStep("kick", c))
  BY <1>1, <1>2, TwoPiece
<1>5. Piece(sweep, 2, {"sweep", "kick"}, t, TStep("sweep", c), TStep("kick", c))
  BY <1>1, <1>2, TwoPiece
<1>6. Piece(delc, 1, {"delclient"}, t, TStep("delclient", c), TStep("delclient", c))
  BY ClientPiece, Kinds3
<1>7. /\ Tasks!ChangeStatus(c) = pause /\ Tasks!DelClient(c) = (delc \o file) \o sweep
      /\ Tasks!OwnDelClient(c) = delc \o file /\ Tasks!Expire(c) = pause \o file
      /\ Tasks!CloseClient(c) = <<TStep("sweepNoStore", c)>>
  BY DEF Tasks!ChangeStatus, Tasks!DelClient, Tasks!OwnDelClient, Tasks!Expire, Tasks!CloseClient, TStep
<1> HIDE DEF file, pause, sweep, delc, t
<1>8. Errand(Tasks!ChangeStatus(c), {}, {})
  <2>1. {"pause", "kick"} \cap TaskDo = {} /\ "close" \notin {"pause", "kick"} /\ TStep("pause", c).do # "rename"
    BY <1>1
  <2> QED BY <1>2, <1>4, <1>7, <2>1, PieceErrand, Zenon
<1>9. Piece(delc \o file, 1 + 2, {"delclient"} \cup FileDo, t, TStep("delclient", c), TStep("rename", "clients"))
  BY <1>2, <1>3, <1>6, Join, Zenon
<1>10. Errand(Tasks!OwnDelClient(c), {}, {})
  <2>1. ({"delclient"} \cup FileDo) \cap TaskDo = {} /\ "close" \notin {"delclient"} \cup FileDo /\ TStep("delclient", c).do # "rename"
    BY <1>1, Kinds3
  <2> QED BY <1>7, <1>9, <2>1, PieceErrand, RenameEnds, Zenon
<1>11. Errand(Tasks!DelClient(c), {}, {})
  <2> DEFINE D == ({"delclient"} \cup FileDo) \cup {"sweep", "kick"}
  <2>1. D \cap TaskDo = {} /\ "close" \notin D /\ TStep("delclient", c).do # "rename"
    BY <1>1, Kinds3
  <2>2. Piece((delc \o file) \o sweep, 1 + 2 + 2, D, t, TStep("delclient", c), TStep("kick", c))
    BY <1>2, <1>5, <1>9, Join, Zenon
  <2> HIDE DEF D
  <2> QED BY <1>2, <1>7, <2>1, <2>2, PieceErrand, Zenon
<1>12. Errand(Tasks!Expire(c), {}, {})
  <2> DEFINE D == {"pause", "kick"} \cup FileDo
  <2>1. D \cap TaskDo = {} /\ "close" \notin D /\ TStep("pause", c).do # "rename"
    BY <1>1, Kinds3
  <2>2. Piece(pause \o file, 2 + 2, D, t, TStep("pause", c), TStep("rename", "clients"))
    BY <1>2, <1>3, <1>4, Join, Zenon
  <2> HIDE DEF D
  <2> QED BY <1>7, <2>1, <2>2, PieceErrand, RenameEnds, Zenon
<1>13. Errand(Tasks!CloseClient(c), {}, {})
  <2>1. Piece(<<TStep("sweepNoStore", c)>>, 1, {"sweepNoStore"}, t, TStep("sweepNoStore", c), TStep("sweepNoStore", c))
    BY ClientPiece, Kinds3
  <2>2. {"sweepNoStore"} \cap TaskDo = {} /\ "close" \notin {"sweepNoStore"} /\ TStep("sweepNoStore", c).do # "rename"
    BY <1>1
  <2> QED BY <1>2, <1>7, <2>1, <2>2, PieceErrand, Zenon
<1> QED BY <1>8, <1>10, <1>11, <1>12, <1>13

(* NewTask creates first.                                                  *)
LEMMA OneCreate ==
    ASSUME NEW t \in Tasks!Task
    PROVE  \A i \in 1 .. 3 : Tasks!NewTask(t)[i].do = "create" => i = 1
<1> DEFINE b == Tasks!NewTask(t)
<1>0. Piece(b, 3, {"create"} \cup FileDo, t, TStep("create", t), TStep("rename", "tasks"))
  BY NewPiece
<1>1. b = <<TStep("create", t)>> \o Tasks!Save("tasks")
  BY DEF Tasks!NewTask, TStep
<1>2. /\ Piece(<<TStep("create", t)>>, 1, {"create"}, t, TStep("create", t), TStep("create", t))
      /\ Piece(Tasks!Save("tasks"), 2, FileDo, t, TStep("snapshot", "tasks"), TStep("rename", "tasks"))
  BY TaskPiece, SavePiece, TStepIs, Kinds3
<1> DEFINE e == <<TStep("create", t)>>
           g == Tasks!Save("tasks")
<1> HIDE DEF b, e, g
<1>3. e \in Seq(Steps) /\ g \in Seq(Steps) /\ Len(e) = 1 /\ Len(g) = 2
  BY <1>2 DEF Piece, e, g
<1>4. InARow(b, e, g, Len(e), Len(g))
  BY <1>1, <1>3, CatIs, Zenon DEF e, g
<1>5. \A j \in 1 .. Len(b) : j \in 1 .. Len(e) \/ (j - Len(e) \in 1 .. Len(g) /\ b[j] = g[j - Len(e)])
  BY <1>4 DEF InARow
<1>6. \A i \in 1 .. 2 : g[i].do # "create"
  BY <1>2, Kinds3 DEF Piece, g
<1>7. Len(b) = 3
  BY <1>0 DEF Piece
<1> QED BY <1>3, <1>5, <1>6, <1>7 DEF b

(* The requests that create a task.                                        *)
LEMMA CreateErrands ==
    ASSUME NEW t \in Tasks!Task
    PROVE  /\ Errand((<<TStep("test", t)>> \o Tasks!NewTask(t)) \o Tasks!AddTask(t), {t}, {t})
           /\ Errand(Tasks!NewTask(t) \o <<TStep("test", t), TStep("open", t)>>, {t}, {t})
<1> DEFINE a == <<TStep("test", t)>>
           b == Tasks!NewTask(t)
           c == Tasks!AddTask(t)
           d == <<TStep("test", t), TStep("open", t)>>
<1>1. /\ TStep("test", t) \in Steps /\ TStep("open", t) \in Steps
      /\ TStep("test", t).do = "test" /\ TStep("open", t).do = "open"
      /\ TStep("test", t).arg = t /\ TStep("open", t).arg = t
      /\ TStep("create", t).do = "create" /\ TStep("run", t).do = "run" /\ TStep("rename", "tasks").do = "rename"
  BY TStepIs, Kinds3
<1>2. /\ Then(TStep("test", t), TStep("open", t)) /\ Then(TStep("test", t), TStep("create", t))
      /\ Then(TStep("rename", "tasks"), TStep("test", t)) /\ MayEnd(TStep("run", t)) /\ MayEnd(TStep("open", t))
  BY <1>1 DEF Then, MayEnd
<1>3. Piece(a, 1, {"test"}, t, TStep("test", t), TStep("test", t))
  BY TaskPiece, Kinds3
<1>4. Piece(b, 3, {"create"} \cup FileDo, t, TStep("create", t), TStep("rename", "tasks"))
  BY NewPiece
<1>5. Piece(c, 2, {"test", "run"}, t, TStep("test", t), TStep("run", t))
  BY AddPiece
<1>6. Piece(d, 2, {"test", "open"}, t, TStep("test", t), TStep("open", t))
  BY <1>1, <1>2, TwoPiece
<1>7. \A i \in 1 .. 3 : b[i].do = "create" => i = 1
  BY OneCreate
<1> HIDE DEF a, b, c, d
<1>8. Errand(b \o d, {t}, {t})
  <2> DEFINE s == b \o d
             D == ({"create"} \cup FileDo) \cup {"test", "open"}
  <2>1. Piece(s, 3 + 2, D, t, TStep("create", t), TStep("open", t))
    BY <1>2, <1>4, <1>6, Join, Zenon
  <2>2. InARow(s, b, d, Len(b), Len(d))
    <3>1. b \in Seq(Steps) /\ d \in Seq(Steps)
      BY <1>4, <1>6 DEF Piece
    <3> QED BY <3>1, CatIs, Zenon
  <2>3. Len(b) = 3 /\ Len(d) = 2 /\ \A i \in 1 .. 2 : d[i].do # "create"
    BY <1>4, <1>6 DEF Piece
  <2> HIDE DEF s
  <2>4. Creating(s)
    <3>1. /\ \A j \in 1 .. Len(b) : s[j] = b[j]
          /\ \A j \in 1 .. Len(s) : j \in 1 .. Len(b) \/ (j - Len(b) \in 1 .. Len(d) /\ s[j] = d[j - Len(b)])
      BY <2>2 DEF InARow
    <3>2. \A j \in 1 .. Len(s) : s[j].do = "create" => j = 1
      BY <1>7, <2>3, <3>1
    <3> QED BY <3>2 DEF Creating
  <2>5. "close" \notin D /\ TStep("create", t).do # "rename"
    BY <1>1, Kinds3
  <2> HIDE DEF D
  <2> QED BY <1>2, <2>1, <2>4, <2>5, PieceErrand, Zenon DEF s
<1>9. Errand((a \o b) \o c, {t}, {t})
  <2> DEFINE ab == a \o b
             s == ab \o c
             D == ({"test"} \cup ({"create"} \cup FileDo)) \cup {"test", "run"}
  <2>1. Piece(ab, 1 + 3, {"test"} \cup ({"create"} \cup FileDo), t, TStep("test", t), TStep("rename", "tasks"))
    BY <1>2, <1>3, <1>4, Join, Zenon
  <2>2. InARow(ab, a, b, Len(a), Len(b))
    <3>1. a \in Seq(Steps) /\ b \in Seq(Steps)
      BY <1>3, <1>4 DEF Piece
    <3> QED BY <3>1, CatIs, Zenon
  <2> HIDE DEF ab
  <2>3. Piece(s, 1 + 3 + 2, D, t, TStep("test", t), TStep("run", t))
    BY <1>2, <1>5, <2>1, Join, Zenon
  <2>4. InARow(s, ab, c, Len(ab), Len(c))
    <3>1. ab \in Seq(Steps) /\ c \in Seq(Steps)
      BY <1>5, <2>1 DEF Piece
    <3> QED BY <3>1, CatIs, Zenon
  <2> HIDE DEF s
  <2>5. /\ Len(a) = 1 /\ a[1].do = "test" /\ Len(b) = 3 /\ Len(ab) = 4 /\ Len(c) = 2
        /\ \A i \in 1 .. 2 : c[i].do # "create"
    BY <1>1, <1>3, <1>4, <1>5, <2>1 DEF Piece
  <2>6. \A i \in 1 .. 4 : ab[i].do = "create" => i = 2
    <3>1. /\ \A j \in 1 .. Len(a) : ab[j] = a[j]
          /\ \A j \in 1 .. Len(ab) : j \in 1 .. Len(a) \/ (j - Len(a) \in 1 .. Len(b) /\ ab[j] = b[j - Len(a)])
      BY <2>2 DEF InARow
    <3>2. \A i \in 1 .. 4 : i = 1 \/ (i - 1 \in 1 .. 3 /\ ab[i] = b[i - 1])
      BY <2>5, <3>1
    <3>3. \A i \in 1 .. 4 : i - 1 \in 1 .. 3 /\ b[i - 1].do = "create" => i = 2
      BY <1>7
    <3>4. ab[1].do = "test"
      BY <2>5, <3>1
    <3> QED BY <3>2, <3>3, <3>4
  <2>7. Creating(s)
    <3>1. /\ \A j \in 1 .. Len(ab) : s[j] = ab[j]
          /\ \A j \in 1 .. Len(s) : j \in 1 .. Len(ab) \/ (j - Len(ab) \in 1 .. Len(c) /\ s[j] = c[j - Len(ab)])
      BY <2>4 DEF InARow
    <3>2. \A j \in 1 .. Len(s) : s[j].do = "create" => j = 2
      BY <2>5, <2>6, <3>1
    <3>3. s[1].do = "test"
      BY <1>1, <2>3 DEF Piece
    <3> QED BY <3>2, <3>3 DEF Creating
  <2>8. "close" \notin D /\ TStep("test", t).do # "rename"
    BY <1>1, Kinds3
  <2> HIDE DEF D
  <2> QED BY <1>2, <2>3, <2>7, <2>8, PieceErrand, Zenon DEF s, ab
<1> QED BY <1>8, <1>9 DEF a, b, c, d

-----------------------------------------------------------------------------
(* Tunnels: what is left to do.                                            *)

(* r is s without its first k steps.                                       *)
Suffix(r, s, k) ==
    /\ k \in 0 .. Len(s) /\ r \in Seq(Steps) /\ Len(r) = Len(s) - k
    /\ \A i \in 1 .. Len(r) : r[i] = s[i + k]

LEMMA SuffixFormed ==
    ASSUME NEW s \in Seq(Steps), Formed(s), NEW r, NEW k, Suffix(r, s, k)
    PROVE  /\ Formed(r)
           /\ \A u : (Mentions(r, u) => Mentions(s, u)) /\ (Creates(r, u) => Creates(s, u))
           /\ r # <<>> /\ k > 0 => r[1] = s[k + 1] /\ Then(s[k], r[1]) /\ k \in 1 .. Len(s) - 1
           /\ r = <<>> => k = Len(s)
           /\ k > 0 => \A u : Creates(r, u) => s[1].do = "test" /\ k = 1
<1> DEFINE n == Len(s)
           m == Len(r)
<1>1. /\ n \in Nat /\ m \in Nat /\ k \in Nat /\ k <= n /\ m = n - k /\ r \in Seq(Steps)
      /\ \A i \in 1 .. m : i + k \in 1 .. n /\ r[i] = s[i + k]
  BY Ends3 DEF Suffix
<1>2. (m = 0 <=> r = <<>>) /\ (n = 0 <=> s = <<>>)
  BY <1>1, Ends3
<1>3. /\ \A i \in 1 .. n - 1 : Then(s[i], s[i + 1])
      /\ \A i \in 1 .. n : s[i].do = "create" => i = 1 \/ (i = 2 /\ s[1].do = "test")
      /\ n # 0 => MayEnd(s[n])
      /\ \A i \in 1 .. n : s[i].do = "close" =>
                   /\ s[i].skip \in {4, 7}
                   /\ s[i].skip = 7 => i + 5 <= n /\ s[i + 5].do = "drop"
  BY <1>2 DEF Formed, Linked, Creating, Closing
<1> HIDE DEF n, m
<1>4. Linked(r)
  <2>1. ASSUME NEW i \in 1 .. m - 1 PROVE Then(r[i], r[i + 1])
    <3>1. i + k \in 1 .. n - 1 /\ i \in 1 .. m /\ i + 1 \in 1 .. m /\ (i + 1) + k = (i + k) + 1
      BY <1>1
    <3>2. r[i] = s[i + k] /\ r[i + 1] = s[(i + k) + 1]
      BY <1>1, <3>1
    <3> QED BY <1>3, <3>1, <3>2
  <2> QED BY <2>1 DEF Linked, m
<1>5. \A i \in 1 .. m : r[i].do = "create" => (i + k = 1 \/ (i + k = 2 /\ s[1].do = "test"))
  BY <1>1, <1>3
<1>6. Creating(r)
  <2>1. ASSUME NEW i \in 1 .. m, r[i].do = "create" PROVE i = 1 \/ (i = 2 /\ r[1].do = "test")
    <3>1. i = 1 \/ (i = 2 /\ k = 0 /\ s[1].do = "test")
      BY <1>1, <1>5, <2>1
    <3>2. k = 0 => r[1] = s[1]
      <4>1. 1 \in 1 .. m /\ (k = 0 => 1 + k = 1)
        BY <1>1
      <4>2. r[1] = s[1 + k]
        BY <1>1, <4>1
      <4> QED BY <4>1, <4>2
    <3> QED BY <3>1, <3>2
  <2> QED BY <2>1 DEF Creating, m
<1>7. Closing(r)
  <2>1. ASSUME NEW i \in 1 .. m, r[i].do = "close"
        PROVE  r[i].skip \in {4, 7} /\ (r[i].skip = 7 => i + 5 <= m /\ r[i + 5].do = "drop")
    <3>1. /\ i + k \in 1 .. n /\ r[i] = s[i + k]
          /\ r[i].skip = 7 => (i + k) + 5 <= n /\ s[(i + k) + 5].do = "drop"
          /\ r[i].skip \in {4, 7}
      BY <1>1, <1>3, <2>1
    <3>2. (i + k) + 5 <= n => i + 5 \in 1 .. m /\ (i + k) + 5 = (i + 5) + k /\ i + 5 <= m
      BY <1>1
    <3>3. (i + k) + 5 <= n => r[i + 5] = s[(i + k) + 5]
      BY <1>1, <3>2
    <3> QED BY <3>1, <3>2, <3>3
  <2> QED BY <2>1 DEF Closing, m
<1>8. m # 0 => MayEnd(r[m])
  <2>1. m # 0 => m \in 1 .. m /\ m + k = n /\ n # 0
    BY <1>1
  <2> QED BY <1>1, <1>3, <2>1
<1>9. Formed(r)
  BY <1>2, <1>4, <1>6, <1>7, <1>8 DEF Formed, m
<1>10. \A u : (Mentions(r, u) => Mentions(s, u)) /\ (Creates(r, u) => Creates(s, u))
  BY <1>1 DEF Mentions, Creates, n, m
<1>11. r # <<>> /\ k > 0 => r[1] = s[k + 1] /\ Then(s[k], r[1]) /\ k \in 1 .. n - 1
  <2> HAVE r # <<>> /\ k > 0
  <2>1. 1 \in 1 .. m /\ 1 + k = k + 1 /\ k \in 1 .. n - 1
    BY <1>1, <1>2
  <2>2. r[1] = s[k + 1]
    BY <1>1, <2>1
  <2> QED BY <1>3, <2>1, <2>2
<1>12. k > 0 => \A u : Creates(r, u) => s[1].do = "test" /\ k = 1
  <2>1. k > 0 => \A i \in 1 .. m : r[i].do = "create" => s[1].do = "test" /\ k = 1
    BY <1>1, <1>5
  <2> QED BY <2>1 DEF Creates, m
<1>13. r = <<>> => k = n
  BY <1>1, <1>2
<1> QED BY <1>9, <1>10, <1>11, <1>12, <1>13 DEF n

LEMMA TailSuffix ==
    ASSUME NEW s \in Seq(Steps), s # <<>>
    PROVE  Suffix(Tail(s), s, 1)
<1>1. Tail(s) \in Seq(Steps) /\ Len(Tail(s)) = Len(s) - 1 /\ \A i \in 1 .. Len(s) - 1 : Tail(s)[i] = s[i + 1]
  OBVIOUS
<1> QED BY <1>1, Ends3 DEF Suffix

LEMMA SubSeqSuffix ==
    ASSUME NEW s \in Seq(Steps), NEW k \in 0 .. Len(s)
    PROVE  Suffix(SubSeq(s, 1 + k, Len(s)), s, k)
<1>1. Len(s) \in Nat
  BY Ends3
<1>2. /\ SubSeq(s, 1 + k, Len(s)) \in Seq(Steps) /\ Len(SubSeq(s, 1 + k, Len(s))) = Len(s) - k
      /\ \A i \in 1 .. Len(s) - k : SubSeq(s, 1 + k, Len(s))[i] = s[i + k]
  BY <1>1
<1> QED BY <1>1, <1>2 DEF Suffix

(* Steps after which anything may follow that begins something.            *)
Between == {"own", "load", "del", "sweep", "sweepNoStore", "kick"}

(* A goroutine puts something in front of what is left to do.              *)
LEMMA FrontOf ==
    ASSUME NEW s \in Seq(Steps), s # <<>>, Formed(s), s[1].do \in Between,
           NEW a, NEW T, NEW C, Errand(a, T, C), NEW w, w = a \o Tail(s)
    PROVE  /\ w \in Seq(Steps) /\ Formed(w) /\ (w # <<>> => w[1].do # "rename")
           /\ \A u : Mentions(w, u) => u \in T \/ Mentions(s, u)
           /\ \A u : Creates(w, u) => u \in C
<1> DEFINE r == Tail(s)
<1>1. Suffix(r, s, 1) /\ r \in Seq(Steps)
  BY TailSuffix DEF Suffix
<1>2. /\ Formed(r)
      /\ \A u : (Mentions(r, u) => Mentions(s, u)) /\ (Creates(r, u) => Creates(s, u))
      /\ r # <<>> /\ 1 > 0 => r[1] = s[1 + 1] /\ Then(s[1], r[1]) /\ 1 \in 1 .. Len(s) - 1
      /\ 1 > 0 => \A u : Creates(r, u) => s[1].do = "test" /\ 1 = 1
  BY <1>1, SuffixFormed, Zenon
<1>3. \A u : ~Creates(r, u)
  BY <1>2 DEF Between
<1>4. r # <<>> => r[1].do \notin {"rename", "unrun", "run", "enable", "create"}
  <2>1. r # <<>> => Then(s[1], r[1])
    BY <1>2
  <2> QED BY <2>1 DEF Then, Between
<1>5. a \in Seq(Steps) /\ Formed(a)
  BY DEF Errand
<1> HIDE DEF r
<1>6. CASE a = <<>>
  <2>1. w = r
    BY <1>1, <1>6 DEF r
  <2> QED BY <1>1, <1>2, <1>3, <1>4, <2>1
<1>7. CASE a # <<>>
  <2>1. Linked(a) /\ Creating(a) /\ Closing(a) /\ MayEnd(a[Len(a)])
    BY <1>5, <1>7 DEF Formed
  <2>2. r # <<>> => Then(a[Len(a)], r[1])
    BY <1>4, <2>1 DEF Then, MayEnd
  <2>3. \A i \in 1 .. Len(r) : r[i].do # "create"
    BY <1>3 DEF Creates
  <2>4. w = a \o r
    BY DEF r
  <2>5. /\ w \in Seq(Steps) /\ Formed(w) /\ w # <<>> /\ w[1] = a[1]
        /\ \A u : Mentions(w, u) => Mentions(a, u) \/ Mentions(r, u)
        /\ \A u : Creates(w, u) => Creates(a, u)
    BY <1>1, <1>2, <1>5, <1>7, <2>1, <2>2, <2>3, <2>4, FormedJoin, Zenon
  <2> QED BY <1>2, <1>7, <2>5 DEF Errand
<1> QED BY <1>6, <1>7

(* The same step for each of several tasks or clients.                     *)
LEMMA SameErrand ==
    ASSUME NEW n \in Nat, NEW d \in {"del", "load", "own"}, NEW s, s \in [1 .. n -> Steps],
           \A i \in 1 .. n : s[i].do = d
    PROVE  s \in Seq(Steps) /\ Len(s) = n /\ Errand(s, IF d = "own" THEN {} ELSE {s[i].arg : i \in 1 .. n}, {})
<1>1. s \in Seq(Steps) /\ Len(s) = n
  OBVIOUS
<1>2. \A x, y \in Steps : x.do = d /\ y.do = d => Then(x, y) /\ MayEnd(x)
  BY DEF Then, MayEnd
<1>3. Linked(s)
  BY <1>1, <1>2 DEF Linked
<1>4. Creating(s) /\ Closing(s)
  BY <1>1 DEF Creating, Closing
<1>5. s # <<>> => MayEnd(s[Len(s)]) /\ s[1].do # "rename"
  <2>1. s # <<>> => 1 \in 1 .. n /\ n \in 1 .. n
    BY <1>1
  <2> QED BY <1>1, <1>2, <2>1
<1>6. \A u : ~Creates(s, u)
  BY <1>1 DEF Creates
<1>7. \A u : Mentions(s, u) => d \in TaskDo /\ u \in {s[i].arg : i \in 1 .. n}
  BY <1>1 DEF Mentions
<1>8. "own" \notin TaskDo
  BY Kinds3
<1> QED BY <1>1, <1>3, <1>4, <1>5, <1>6, <1>7, <1>8 DEF Errand, Formed

LEMMA TasksCardinality == \A S : Tasks!Cardinality(S) = Cardinality(S)
BY Zenon DEF Cardinality, Tasks!Cardinality

(* The tasks of a set in some order.                                       *)
LEMMA InOrderOf ==
    ASSUME TasksBounded, NEW S, S \subseteq Tasks!Task, NEW list \in Tasks!SetToSeqs(S)
    PROVE  /\ list \in [1 .. Cardinality(S) -> S] /\ Cardinality(S) \in Nat /\ Len(list) = Cardinality(S)
           /\ \A i, j \in 1 .. Cardinality(S) : i # j => list[i] # list[j]
<1>1. IsFiniteSet(S)
  <2>1. 1 \in Int /\ MaxTask \in Int
    BY DEF TasksBounded
  <2>2. IsFiniteSet(1 .. MaxTask)
    BY <2>1, FS_Interval
  <2>3. Tasks!Task = 1 .. MaxTask
    BY DEF Tasks!Task
  <2> QED BY <2>2, <2>3, FS_Subset
<1>2. Cardinality(S) \in Nat
  BY <1>1, FS_CardinalityType
<1>3. list \in [1 .. Cardinality(S) -> S] /\ \A i, j \in 1 .. Cardinality(S) : i # j => list[i] # list[j]
  BY TasksCardinality, Zenon DEF Tasks!SetToSeqs
<1>4. Len(list) = Cardinality(S)
  BY <1>2, <1>3
<1> QED BY <1>2, <1>3, <1>4

LEMMA EachErrand ==
    ASSUME TasksBounded, NEW S, S \subseteq Tasks!Task, NEW list \in Tasks!SetToSeqs(S), NEW d \in {"del", "load"}
    PROVE  /\ Errand(Tasks!Each(d, list), S, {}) /\ Len(Tasks!Each(d, list)) = Cardinality(S)
           /\ \A i \in 1 .. Cardinality(S) : Tasks!Each(d, list)[i] = TStep(d, list[i])
<1> DEFINE n == Cardinality(S)
           s == Tasks!Each(d, list)
<1>1. list \in [1 .. n -> S] /\ n \in Nat /\ Len(list) = n
  BY InOrderOf, Zenon
<1> HIDE DEF n
<1>2. s = [i \in 1 .. n |-> TStep(d, list[i])]
  BY <1>1 DEF Tasks!Each, TStep
<1>3. d \in TaskDo
  BY Kinds3
<1>4. \A i \in 1 .. n : s[i] = TStep(d, list[i]) /\ s[i] \in Steps /\ s[i].do = d /\ s[i].arg \in S
  BY <1>1, <1>2, <1>3, TStepIs
<1>5. s \in [1 .. n -> Steps]
  BY <1>2, <1>4
<1> HIDE DEF s
<1>6. Len(s) = n /\ Errand(s, IF d = "own" THEN {} ELSE {s[i].arg : i \in 1 .. n}, {})
  BY <1>1, <1>4, <1>5, SameErrand
<1>7. Errand(s, S, {})
  BY <1>4, <1>6 DEF Errand
<1> QED BY <1>4, <1>6, <1>7 DEF n, s

LEMMA OwnErrand ==
    ASSUME NEW c \in Client, NEW n \in {1, 2}
    PROVE  Errand([i \in 1 .. n |-> TStep("own", c)], {}, {})
<1> DEFINE s == [i \in 1 .. n |-> TStep("own", c)]
<1>1. s \in [1 .. n -> Steps] /\ \A i \in 1 .. n : s[i].do = "own"
  BY TStepIs, Kinds3
<1> HIDE DEF s
<1>2. Errand(s, IF "own" = "own" THEN {} ELSE {s[i].arg : i \in 1 .. n}, {})
  BY <1>1, SameErrand
<1> QED BY <1>2 DEF s

(* What DelTask, Sulink's page, InitFromCsv and Bridge.DelClient put in    *)
(* front.                                                                  *)
LEMMA FrontErrands ==
    ASSUME NEW t \in Tasks!Task
    PROVE  /\ Errand(Tasks!StopServer(t, 3) \o Tasks!DropTask(t), {t}, {})
           /\ Errand(<<>> \o Tasks!DropTask(t), {t}, {})
           /\ Errand(<<TStep("run", t)>>, {t}, {})
           /\ Errand(Tasks!NewTask(t) \o Tasks!OwnAddTask(t), {t}, {t})
<1>1. Errand(Tasks!StopServer(t, 3) \o Tasks!DropTask(t), {t}, {})
  <2> DEFINE s == Tasks!StopServer(t, 3) \o Tasks!DropTask(t)
             D == {"close", "unrun", "store", "drop"} \cup FileDo
  <2>1. Piece(s, 8, D, t, CloseStep(t, 3), TStep("rename", "tasks")) /\ Closing(s)
    BY StopDropPiece, Zenon
  <2>2. "create" \notin D /\ CloseStep(t, 3).do # "rename"
    BY Kinds3 DEF CloseStep
  <2> HIDE DEF s, D
  <2>3. Errand(s, {t}, {})
    BY <2>1, <2>2, PieceErrand, RenameEnds, Zenon
  <2> QED BY <2>3 DEF s
<1>2. Errand(<<>> \o Tasks!DropTask(t), {t}, {})
  <2>1. Errand(Tasks!DropTask(t), {t}, {})
    BY TaskErrands
  <2>2. <<>> \o Tasks!DropTask(t) = Tasks!DropTask(t)
    BY <2>1 DEF Errand
  <2> QED BY <2>1, <2>2
<1>3. Errand(<<TStep("run", t)>>, {t}, {})
  <2>1. Piece(<<TStep("run", t)>>, 1, {"run"}, t, TStep("run", t), TStep("run", t))
    BY TaskPiece, Kinds3
  <2>2. TStep("run", t).do # "rename" /\ MayEnd(TStep("run", t)) /\ "close" \notin {"run"} /\ "create" \notin {"run"}
    BY TStepIs DEF MayEnd
  <2> QED BY <2>1, <2>2, PieceErrand, Zenon
<1>4. Errand(Tasks!NewTask(t) \o Tasks!OwnAddTask(t), {t}, {t})
  <2> DEFINE b == Tasks!NewTask(t)
             c == Tasks!OwnAddTask(t)
             s == b \o c
             D == ({"create"} \cup FileDo) \cup {"testOwn", "run"}
  <2>1. /\ TStep("testOwn", t) \in Steps /\ TStep("run", t) \in Steps
        /\ TStep("testOwn", t).do = "testOwn" /\ TStep("run", t).do = "run"
        /\ TStep("testOwn", t).arg = t /\ TStep("run", t).arg = t
        /\ TStep("create", t).do = "create" /\ TStep("rename", "tasks").do = "rename"
    BY TStepIs, Kinds3
  <2>2. Then(TStep("testOwn", t), TStep("run", t)) /\ Then(TStep("rename", "tasks"), TStep("testOwn", t))
        /\ MayEnd(TStep("run", t))
    BY <2>1 DEF Then, MayEnd
  <2>3. c = <<TStep("testOwn", t), TStep("run", t)>>
    BY DEF Tasks!OwnAddTask, TStep
  <2> HIDE DEF c
  <2>4. Piece(c, 2, {"testOwn", "run"}, t, TStep("testOwn", t), TStep("run", t))
    BY <2>1, <2>2, <2>3, TwoPiece
  <2>5. Piece(b, 3, {"create"} \cup FileDo, t, TStep("create", t), TStep("rename", "tasks"))
    BY NewPiece
  <2>6. \A i \in 1 .. 3 : b[i].do = "create" => i = 1
    BY <2>5, OneCreate
  <2> HIDE DEF b
  <2>7. Piece(s, 3 + 2, D, t, TStep("create", t), TStep("run", t))
    BY <2>2, <2>4, <2>5, Join, Zenon
  <2>8. InARow(s, b, c, Len(b), Len(c))
    <3>1. b \in Seq(Steps) /\ c \in Seq(Steps)
      BY <2>4, <2>5 DEF Piece
    <3> QED BY <3>1, CatIs, Zenon
  <2>9. Len(b) = 3 /\ Len(c) = 2 /\ \A i \in 1 .. 2 : c[i].do # "create"
    BY <2>4, <2>5 DEF Piece
  <2> HIDE DEF s
  <2>10. Creating(s)
    <3>1. /\ \A j \in 1 .. Len(b) : s[j] = b[j]
          /\ \A j \in 1 .. Len(s) : j \in 1 .. Len(b) \/ (j - Len(b) \in 1 .. Len(c) /\ s[j] = c[j - Len(b)])
      BY <2>8 DEF InARow
    <3>2. \A j \in 1 .. Len(s) : s[j].do = "create" => j = 1
      BY <2>6, <2>9, <3>1
    <3> QED BY <3>2 DEF Creating
  <2>11. "close" \notin D /\ TStep("create", t).do # "rename"
    BY <2>1, Kinds3
  <2> HIDE DEF D
  <2>12. Errand(s, {t}, {t})
    BY <2>2, <2>7, <2>10, <2>11, PieceErrand, Zenon
  <2> QED BY <2>12 DEF s, b, c
<1> QED BY <1>1, <1>2, <1>3, <1>4

LEMMA KickErrand ==
    ASSUME NEW c \in Client
    PROVE  Errand(<<TStep("closeClient", c)>>, {}, {})
<1>1. Piece(<<TStep("closeClient", c)>>, 1, {"closeClient"}, 0, TStep("closeClient", c), TStep("closeClient", c))
  BY ClientPiece, Kinds3
<1>2. /\ TStep("closeClient", c).do # "rename" /\ MayEnd(TStep("closeClient", c)) /\ "close" \notin {"closeClient"}
      /\ {"closeClient"} \cap TaskDo = {}
  BY TStepIs, Kinds3 DEF MayEnd
<1> QED BY <1>1, <1>2, PieceErrand, Zenon

-----------------------------------------------------------------------------
(* Tunnels: one goroutine goes on.                                         *)

LEMMA TodoTypes ==
    ASSUME TodoOK, NEW p \in Tasks!Proc
    PROVE  /\ todo[p] \in Seq(Steps) /\ Formed(todo[p]) /\ DOMAIN todo = Tasks!Proc
           /\ \A u : Mentions(todo[p], u) => u \in Tasks!Task
           /\ \A u : Creates(todo[p], u) => Mentions(todo[p], u)
<1>1. todo[p] \in Seq(Steps) /\ Formed(todo[p]) /\ DOMAIN todo = Tasks!Proc
  BY DEF TodoOK
<1>2. \A i \in 1 .. Len(todo[p]) : todo[p][i] \in Steps
  BY <1>1, Elements
<1>3. \A u : Mentions(todo[p], u) => u \in Tasks!Task
  BY <1>2, StepsAre DEF Mentions
<1>4. "create" \in TaskDo
  BY Kinds3
<1>5. \A u : Creates(todo[p], u) => Mentions(todo[p], u)
  BY <1>4 DEF Creates, Mentions
<1> QED BY <1>1, <1>3, <1>5

(* A goroutine that has a step to take: ...                                *)
Next1(p, d) ==
    /\ todo[p] \in Seq(Steps) /\ todo[p] # <<>> /\ Formed(todo[p]) /\ DOMAIN todo = Tasks!Proc
    /\ todo[p][1] \in Steps /\ todo[p][1].do = d /\ Tasks!Arg(p) = todo[p][1].arg
    /\ d \in TaskDo => Tasks!Arg(p) \in Tasks!Task /\ Mentions(todo[p], Tasks!Arg(p))
    /\ d \in ClientDo => Tasks!Arg(p) \in Client
    /\ d \in FileDo => Tasks!Arg(p) \in Tasks!File
    /\ d = "create" => Creates(todo[p], Tasks!Arg(p))
    /\ \A e : Tasks!At(p, e) <=> e = d

LEMMA Head1 ==
    ASSUME TodoOK, NEW p \in Tasks!Proc, NEW d, Tasks!At(p, d)
    PROVE  Next1(p, d)
<1>1. todo[p] \in Seq(Steps) /\ Formed(todo[p]) /\ DOMAIN todo = Tasks!Proc
  BY TodoTypes
<1>2. todo[p] # <<>> /\ todo[p][1].do = d /\ Tasks!Arg(p) = todo[p][1].arg
  BY DEF Tasks!At, Tasks!Idle, Tasks!Head1, Tasks!Arg
<1>3. todo[p][1] \in Steps /\ 1 \in 1 .. Len(todo[p])
  BY <1>1, <1>2, Ends3
<1>4. /\ d \in TaskDo => Tasks!Arg(p) \in Tasks!Task
      /\ d \in ClientDo => Tasks!Arg(p) \in Client
      /\ d \in FileDo => Tasks!Arg(p) \in Tasks!File
  BY <1>2, <1>3, StepsAre
<1>5. d \in TaskDo => Mentions(todo[p], Tasks!Arg(p))
  BY <1>2, <1>3 DEF Mentions
<1>6. d = "create" => Creates(todo[p], Tasks!Arg(p))
  BY <1>2, <1>3 DEF Creates
<1>7. \A e : Tasks!At(p, e) <=> e = d
  BY <1>2 DEF Tasks!At, Tasks!Idle, Tasks!Head1
<1> QED BY <1>1, <1>2, <1>3, <1>4, <1>5, <1>6, <1>7 DEF Next1

(* ... goes on to what is left, ...                                        *)
Left(p, r, d) ==
    /\ r \in Seq(Steps) /\ Formed(r)
    /\ d # "snapshot" => (r # <<>> => r[1].do # "rename")
    /\ \A u : Mentions(r, u) => Mentions(todo[p], u)
    /\ \A u : Creates(r, u) => Creates(todo[p], u) /\ d = "test"

LEMMA RestIs ==
    ASSUME TodoOK, NEW p \in Tasks!Proc, NEW d, Tasks!At(p, d)
    PROVE  /\ Left(p, Tasks!Rest(p), d)
           /\ Tasks!Rest(p) # <<>> => Then(todo[p][1], Tasks!Rest(p)[1])
           /\ Tasks!Rest(p) = <<>> => MayEnd(todo[p][1])
           /\ Suffix(Tasks!Rest(p), todo[p], 1)
<1> DEFINE s == todo[p]
           r == Tasks!Rest(p)
<1>1. s \in Seq(Steps) /\ s # <<>> /\ Formed(s) /\ s[1].do = d
  BY Head1 DEF Next1
<1>2. r = Tail(s)
  BY DEF Tasks!Rest
<1>3. Suffix(r, s, 1) /\ r \in Seq(Steps)
  BY <1>1, <1>2, TailSuffix DEF Suffix
<1> HIDE DEF r, s
<1>4. /\ Formed(r)
      /\ \A u : (Mentions(r, u) => Mentions(s, u)) /\ (Creates(r, u) => Creates(s, u))
      /\ r # <<>> /\ 1 > 0 => r[1] = s[1 + 1] /\ Then(s[1], r[1]) /\ 1 \in 1 .. Len(s) - 1
      /\ r = <<>> => 1 = Len(s)
      /\ 1 > 0 => \A u : Creates(r, u) => s[1].do = "test" /\ 1 = 1
  BY <1>1, <1>3, SuffixFormed, Zenon
<1>5. r # <<>> => Then(s[1], r[1])
  BY <1>4
<1>6. r = <<>> => MayEnd(s[1])
  BY <1>1, <1>4 DEF Formed
<1>7. d # "snapshot" => (r # <<>> => r[1].do # "rename")
  BY <1>1, <1>5 DEF Then
<1>8. \A u : Creates(r, u) => Creates(s, u) /\ d = "test"
  BY <1>1, <1>4
<1>9. \A u : Mentions(r, u) => Mentions(s, u)
  BY <1>4
<1>10. Left(p, r, d)
  BY <1>3, <1>4, <1>7, <1>8, <1>9 DEF Left, s
<1> QED BY <1>3, <1>5, <1>6, <1>10 DEF r, s

(* ... or gives up, ...                                                    *)
LEMMA NothingLeft ==
    ASSUME NEW p, NEW d
    PROVE  Left(p, <<>>, d)
<1>1. <<>> \in Seq(Steps) /\ Len(<<>>) = 0 /\ 1 .. 0 = {}
  OBVIOUS
<1>2. Linked(<<>>) /\ Creating(<<>>) /\ Closing(<<>>)
  BY <1>1 DEF Linked, Creating, Closing
<1>3. \A u : ~Mentions(<<>>, u) /\ ~Creates(<<>>, u)
  BY <1>1 DEF Mentions, Creates
<1> QED BY <1>1, <1>2, <1>3 DEF Left, Formed

(* ... or returns past some of it.                                         *)
LEMMA SkipIs ==
    ASSUME TodoOK, NEW p \in Tasks!Proc, NEW d, Tasks!At(p, d), d # "test",
           NEW k \in 0 .. Len(Tasks!Rest(p)), NEW w, w = SubSeq(Tasks!Rest(p), 1 + k, Len(Tasks!Rest(p))),
           w # <<>> => w[1].do # "rename"
    PROVE  Left(p, w, d)
<1> DEFINE r == Tasks!Rest(p)
<1>1. Left(p, r, d)
  BY RestIs
<1> HIDE DEF r
<1>2. r \in Seq(Steps) /\ Formed(r)
  BY <1>1 DEF Left
<1>3. Suffix(w, r, k)
  BY <1>2, SubSeqSuffix DEF r
<1>4. /\ Formed(w)
      /\ \A u : (Mentions(w, u) => Mentions(r, u)) /\ (Creates(w, u) => Creates(r, u))
  BY <1>2, <1>3, SuffixFormed, Zenon
<1>5. w \in Seq(Steps)
  BY <1>3 DEF Suffix
<1> QED BY <1>1, <1>4, <1>5 DEF Left

(* What it goes on to is about tasks it was about, or those there are, or  *)
(* one with the next id; and it creates no other than before, or that one. *)
Narrow(p, r) ==
    /\ r \in Seq(Steps) /\ Formed(r)
    /\ \A u : Mentions(r, u) => Mentions(todo[p], u) \/ u \in tasks \/ (u = lastId + 1 /\ lastId' = u)
    /\ \A u : Creates(r, u) => Creates(todo[p], u) \/ (u = lastId + 1 /\ lastId' = u)
    /\ \A u \in tasks' \ tasks : Mentions(todo[p], u) /\ ~Creates(r, u)

LEMMA GoIs ==
    ASSUME TodoOK, NEW p \in Tasks!Proc, NEW r, Tasks!Go(p, r)
    PROVE  /\ todo'[p] = r /\ \A q \in Tasks!Proc \ {p} : todo'[q] = todo[q]
           /\ DOMAIN todo' = Tasks!Proc
           /\ r \in Seq(Steps) => todo' \in [Tasks!Proc -> Seq(Steps)]
BY DEF TodoOK, Tasks!Go

LEMMA GoKeeps ==
    ASSUME TasksBounded, Tasks!TypeOK, TodoOK, Issued, Unborn, NEW p \in Tasks!Proc, NEW r, Tasks!Go(p, r),
           Narrow(p, r), lastId' \in {lastId, lastId + 1}, tasks' \subseteq Tasks!Task
    PROVE  TodoOK' /\ Issued' /\ Unborn'
<1>1. /\ todo'[p] = r /\ \A q \in Tasks!Proc \ {p} : todo'[q] = todo[q]
      /\ DOMAIN todo' = Tasks!Proc
      /\ r \in Seq(Steps) => todo' \in [Tasks!Proc -> Seq(Steps)]
  BY GoIs
<1>2. /\ r \in Seq(Steps) /\ Formed(r)
      /\ \A u : Mentions(r, u) => Mentions(todo[p], u) \/ u \in tasks \/ (u = lastId + 1 /\ lastId' = u)
      /\ \A u : Creates(r, u) => Creates(todo[p], u) \/ (u = lastId + 1 /\ lastId' = u)
      /\ \A u \in tasks' \ tasks : Mentions(todo[p], u) /\ ~Creates(r, u)
  BY DEF Narrow
<1>3. TodoOK'
  BY <1>1, <1>2 DEF TodoOK
<1>4. tasks \subseteq Tasks!Task /\ lastId \in Nat /\ lastId' \in Nat /\ lastId <= lastId'
      /\ Tasks!Task \subseteq Nat \ {0}
  BY DEF Tasks!TypeOK, TasksBounded, Tasks!Task
<1>5. /\ \A u \in tasks : u \in 1 .. lastId
      /\ \A q \in Tasks!Proc, u \in Tasks!Task : Mentions(todo[q], u) => u <= lastId
  BY DEF Issued
<1>6. \A q \in Tasks!Proc : \A u : Mentions(todo[q], u) => u \in Tasks!Task /\ u <= lastId /\ u # lastId + 1
  <2> SUFFICES ASSUME NEW q \in Tasks!Proc, NEW u, Mentions(todo[q], u)
               PROVE  u \in Tasks!Task /\ u <= lastId /\ u # lastId + 1
    OBVIOUS
  <2>1. u \in Tasks!Task
    BY TodoTypes
  <2>2. u <= lastId
    BY <1>5, <2>1
  <2> QED BY <1>4, <2>1, <2>2
<1>7. \A u \in tasks' : u \in tasks \/ Mentions(todo[p], u)
  BY <1>2
<1>8. \A u \in tasks' : u \in Nat \ {0} /\ u <= lastId
  BY <1>4, <1>5, <1>6, <1>7
<1>9. tasks' \subseteq 1 .. lastId'
  BY <1>4, <1>8
<1>10. \A u : Mentions(r, u) /\ u \in Tasks!Task => u <= lastId'
  BY <1>2, <1>4, <1>5, <1>6
<1>11. \A q \in Tasks!Proc, u \in Tasks!Task : Mentions(todo'[q], u) => u <= lastId'
  BY <1>1, <1>4, <1>5, <1>10
<1>12. Issued'
  BY <1>9, <1>11 DEF Issued, Tasks!Proc, Tasks!Task, Mentions
<1>13. ASSUME NEW u \in Tasks!Task, Creates(r, u)
       PROVE  u \notin tasks' /\ \A q \in Tasks!Proc \ {p} : ~Mentions(todo[q], u)
  <2>1. CASE Creates(todo[p], u)
    <3>1. u \notin tasks /\ \A q \in Tasks!Proc \ {p} : ~Mentions(todo[q], u)
      BY <2>1 DEF Unborn
    <3> QED BY <1>2, <1>13, <3>1
  <2>2. CASE u = lastId + 1 /\ lastId' = u
    <3>1. u \notin tasks' /\ \A q \in Tasks!Proc : ~Mentions(todo[q], u)
      BY <1>4, <1>6, <1>8, <2>2
    <3> QED BY <3>1
  <2> QED BY <1>2, <1>13, <2>1, <2>2
<1>14. ASSUME NEW q \in Tasks!Proc \ {p}, NEW u \in Tasks!Task, Creates(todo[q], u)
       PROVE  u \notin tasks' /\ ~Mentions(r, u) /\ \A x \in Tasks!Proc \ {q} : ~Mentions(todo[x], u)
  <2>1. u \notin tasks /\ \A x \in Tasks!Proc \ {q} : ~Mentions(todo[x], u)
    BY <1>14 DEF Unborn
  <2>2. ~Mentions(todo[p], u) /\ Mentions(todo[q], u)
    BY <1>14, <2>1, TodoTypes
  <2> QED BY <1>2, <1>6, <1>7, <2>1, <2>2
<1>15. \A q \in Tasks!Proc, u \in Tasks!Task : Creates(todo'[q], u) =>
          u \notin tasks' /\ \A x \in Tasks!Proc \ {q} : ~Mentions(todo'[x], u)
  <2> SUFFICES ASSUME NEW q \in Tasks!Proc, NEW u \in Tasks!Task, Creates(todo'[q], u)
               PROVE  u \notin tasks' /\ \A x \in Tasks!Proc \ {q} : ~Mentions(todo'[x], u)
    OBVIOUS
  <2>1. CASE q = p
    BY <1>1, <1>13, <2>1
  <2>2. CASE q # p
    BY <1>1, <1>14, <2>2
  <2> QED BY <2>1, <2>2
<1>16. Unborn'
  BY <1>15 DEF Unborn, Tasks!Proc, Tasks!Task, Mentions, Creates
<1> QED BY <1>3, <1>12, <1>16

(* The first step of a rest may come after the one before it.              *)
LEMMA SuffixAfter ==
    ASSUME NEW s \in Seq(Steps), Formed(s), NEW r, NEW k, Suffix(r, s, k), k > 0, r # <<>>
    PROVE  Then(s[k], r[1])
<1>1. /\ Formed(r)
      /\ \A u : (Mentions(r, u) => Mentions(s, u)) /\ (Creates(r, u) => Creates(s, u))
      /\ r # <<>> /\ k > 0 => r[1] = s[k + 1] /\ Then(s[k], r[1]) /\ k \in 1 .. Len(s) - 1
      /\ r = <<>> => k = Len(s)
      /\ k > 0 => \A u : Creates(r, u) => s[1].do = "test" /\ k = 1
  BY SuffixFormed, Zenon
<1> QED BY <1>1

(* Some steps have another after them.                                     *)
LEMMA Onward ==
    ASSUME NEW s \in Seq(Steps), Formed(s), NEW i \in 1 .. Len(s), ~MayEnd(s[i])
    PROVE  /\ i + 1 \in 1 .. Len(s)
           /\ s[i].do = "close" => s[i + 1].do = "unrun"
           /\ s[i].do = "unrun" => s[i + 1].do = "store"
           /\ s[i].do \in {"store", "drop"} => s[i + 1].do = "snapshot"
           /\ s[i].do = "snapshot" => s[i + 1].do = "rename"
<1>1. Len(s) \in Nat /\ s # <<>>
  BY Ends3
<1>2. i # Len(s)
  BY <1>1 DEF Formed
<1>3. i + 1 \in 1 .. Len(s) /\ i \in 1 .. Len(s) - 1
  BY <1>1, <1>2
<1>4. Then(s[i], s[i + 1])
  BY <1>3 DEF Formed, Linked
<1> QED BY <1>3, <1>4 DEF Then

(* What is stored is saved.                                                *)
LEMMA StoreSaves ==
    ASSUME NEW s \in Seq(Steps), Formed(s), NEW i \in 1 .. Len(s), s[i].do \in {"store", "drop"}
    PROVE  i + 2 \in 1 .. Len(s) /\ s[i + 2].do = "rename"
<1>1. /\ i + 1 \in 1 .. Len(s)
      /\ s[i].do \in {"store", "drop"} => s[i + 1].do = "snapshot"
  <2>1. ~MayEnd(s[i])
    BY DEF MayEnd
  <2> QED BY <2>1, Onward, Zenon
<1>2. ~MayEnd(s[i + 1]) /\ s[i + 1].do = "snapshot"
  BY <1>1 DEF MayEnd
<1>3. (i + 1) + 1 \in 1 .. Len(s) /\ s[(i + 1) + 1].do = "rename"
  BY <1>1, <1>2, Onward, Zenon
<1>4. (i + 1) + 1 = i + 2
  OBVIOUS
<1> QED BY <1>3, <1>4

(* What StopServer leaves when it finds no server, ...                     *)
LEMMA CloseSkips ==
    ASSUME TodoOK, NEW p \in Tasks!Proc, Tasks!At(p, "close"), NEW w, Tasks!Skip(p),
           w = SubSeq(Tasks!Rest(p), 1 + Tasks!Head1(p).skip, Len(Tasks!Rest(p)))
    PROVE  Left(p, w, "close") /\ Tasks!Go(p, w)
<1> DEFINE s == todo[p]
           n == Len(s)
           k == s[1].skip
           r == Tasks!Rest(p)
<1>1. s \in Seq(Steps) /\ s # <<>> /\ Formed(s) /\ s[1].do = "close"
  BY Head1 DEF Next1
<1>2. n \in Nat /\ 1 \in 1 .. n
  BY <1>1, Ends3
<1>3. /\ k \in {4, 7}
      /\ k = 7 => 1 + 5 <= n /\ s[1 + 5].do = "drop"
  BY <1>1, <1>2 DEF Formed, Closing
<1>4. Suffix(r, s, 1) /\ Left(p, r, "close")
  BY RestIs
<1>5. r \in Seq(Steps) /\ Formed(r) /\ Len(r) = n - 1 /\ \A i \in 1 .. Len(r) : r[i] = s[i + 1]
  BY <1>4 DEF Left, Suffix
<1>6. k = Tasks!Head1(p).skip
  BY DEF Tasks!Head1
<1> HIDE DEF s, n, k, r
<1>7. 1 + 1 \in 1 .. n /\ s[1 + 1].do = "unrun"
  <2>1. ~MayEnd(s[1])
    BY <1>1 DEF MayEnd
  <2> QED BY <1>1, <1>2, <2>1, Onward DEF n
<1>8. 2 + 1 \in 1 .. n /\ s[2 + 1].do = "store"
  <2>1. ~MayEnd(s[2]) /\ 2 \in 1 .. n /\ s[2].do = "unrun"
    BY <1>7 DEF MayEnd
  <2> QED BY <1>1, <1>2, <2>1, Onward DEF n
<1>9. 3 + 2 \in 1 .. n /\ s[3 + 2].do = "rename"
  <2>1. 3 \in 1 .. n /\ s[3].do = "store"
    BY <1>8
  <2> QED BY <1>1, <2>1, StoreSaves DEF n
<1>10. k = 7 => 6 + 2 \in 1 .. n /\ s[6 + 2].do = "rename"
  <2>1. k = 7 => 6 \in 1 .. n /\ s[6].do = "drop"
    BY <1>2, <1>3
  <2> QED BY <1>1, <2>1, StoreSaves DEF n
<1>11. k + 1 \in 1 .. n /\ s[k + 1].do = "rename" /\ k \in 1 .. Len(r) /\ k \in 0 .. Len(r) /\ r[k].do = "rename"
  BY <1>2, <1>3, <1>5, <1>9, <1>10
<1>12. Suffix(w, r, k)
  BY <1>5, <1>6, <1>11, SubSeqSuffix DEF r
<1>13. w # <<>> => Then(r[k], w[1])
  <2>1. k > 0
    BY <1>3
  <2> QED BY <1>5, <1>12, <2>1, SuffixAfter, Zenon
<1>14. w # <<>> => w[1].do # "rename"
  BY <1>11, <1>13 DEF Then
<1>15. Left(p, w, "close")
  BY <1>6, <1>11, <1>14, SkipIs DEF r
<1> QED BY <1>15 DEF Tasks!Skip

(* ... and when it finds a server of a task that has gone.                 *)
LEMMA UnrunSkips ==
    ASSUME TodoOK, NEW p \in Tasks!Proc, Tasks!At(p, "unrun"), NEW w,
           w = SubSeq(Tasks!Rest(p), 4, Len(Tasks!Rest(p)))
    PROVE  Left(p, w, "unrun")
<1> DEFINE s == todo[p]
           n == Len(s)
           r == Tasks!Rest(p)
<1>1. s \in Seq(Steps) /\ s # <<>> /\ Formed(s) /\ s[1].do = "unrun"
  BY Head1 DEF Next1
<1>2. n \in Nat /\ 1 \in 1 .. n
  BY <1>1, Ends3
<1>4. Suffix(r, s, 1) /\ Left(p, r, "unrun")
  BY RestIs
<1>5. r \in Seq(Steps) /\ Formed(r) /\ Len(r) = n - 1 /\ \A i \in 1 .. Len(r) : r[i] = s[i + 1]
  BY <1>4 DEF Left, Suffix
<1> HIDE DEF s, n, r
<1>8. 1 + 1 \in 1 .. n /\ s[1 + 1].do = "store"
  <2>1. ~MayEnd(s[1])
    BY <1>1 DEF MayEnd
  <2> QED BY <1>1, <1>2, <2>1, Onward DEF n
<1>9. 2 + 2 \in 1 .. n /\ s[2 + 2].do = "rename"
  <2>1. 2 \in 1 .. n /\ s[2].do = "store"
    BY <1>8
  <2> QED BY <1>1, <2>1, StoreSaves DEF n
<1>11. 3 \in 1 .. Len(r) /\ 3 \in 0 .. Len(r) /\ r[3].do = "rename" /\ 1 + 3 = 4
  BY <1>2, <1>5, <1>9
<1>12. Suffix(w, r, 3)
  BY <1>5, <1>11, SubSeqSuffix DEF r
<1>13. w # <<>> => Then(r[3], w[1])
  <2>1. 3 > 0
    OBVIOUS
  <2> QED BY <1>5, <1>12, <2>1, SuffixAfter, Zenon
<1>14. w # <<>> => w[1].do # "rename"
  BY <1>11, <1>13 DEF Then
<1> QED BY <1>11, <1>14, SkipIs DEF r

-----------------------------------------------------------------------------
(* Tunnels: who holds the lock of a file.                                  *)

(* A goroutine is to rename a file.                                        *)
RenamesIt(s, f) == s # <<>> /\ s[1].do = "rename" /\ s[1].arg = f

LEMMA RenamesAre == \A f : Renames(f) = {p \in Tasks!Proc : RenamesIt(todo[p], f)}
BY DEF Renames, RenamesIt, Tasks!At, Tasks!Arg, Tasks!Idle, Tasks!Head1

LEMMA OthersRename ==
    ASSUME NEW p, \A q \in Tasks!Proc \ {p} : todo'[q] = todo[q], NEW f,
           ~RenamesIt(todo'[p], f), ~RenamesIt(todo[p], f)
    PROVE  Renames(f)' = Renames(f)
<1>1. Renames(f)' = {q \in Tasks!Proc : RenamesIt(todo'[q], f)}
  BY DEF Renames, RenamesIt, Tasks!At, Tasks!Arg, Tasks!Idle, Tasks!Head1, Tasks!Proc
<1>2. \A q \in Tasks!Proc : RenamesIt(todo'[q], f) <=> RenamesIt(todo[q], f)
  OBVIOUS
<1> QED BY <1>1, <1>2, RenamesAre

(* Nobody comes to it or leaves it.                                        *)
LEMMA RenamingSame ==
    ASSUME Renaming, saving' = saving, \A p \in Tasks!Proc, f \in Tasks!File : RenamesIt(todo'[p], f) <=> RenamesIt(todo[p], f)
    PROVE  Renaming'
<1>1. \A f \in Tasks!File : Renames(f)' = {p \in Tasks!Proc : RenamesIt(todo'[p], f)}
  BY DEF Renames, RenamesIt, Tasks!At, Tasks!Arg, Tasks!Idle, Tasks!Head1, Tasks!Proc
<1>2. \A f \in Tasks!File : Renames(f)' = Renames(f)
  BY <1>1, RenamesAre
<1>3. \A f \in Tasks!File : IF saving[f] = <<>> THEN Renames(f)' = {} ELSE \E p \in Tasks!Proc : Renames(f)' = {p}
  BY <1>2 DEF Renaming
<1> QED BY <1>3 DEF Renaming, Tasks!File, Tasks!Proc

LEMMA RenamingGo ==
    ASSUME TodoOK, Renaming, NEW p \in Tasks!Proc, NEW r, Tasks!Go(p, r), saving' = saving,
           ~Tasks!At(p, "rename"), r # <<>> => r[1].do # "rename"
    PROVE  Renaming'
<1>1. todo'[p] = r /\ \A q \in Tasks!Proc \ {p} : todo'[q] = todo[q]
  BY GoIs
<1>2. \A f : ~RenamesIt(todo[p], f) /\ ~RenamesIt(r, f)
  BY DEF RenamesIt, Tasks!At, Tasks!Idle, Tasks!Head1
<1> QED BY <1>1, <1>2, RenamingSame

(* A goroutine takes the lock, ...                                         *)
LEMMA RenamingTaken ==
    ASSUME TodoOK, Renaming, NEW p \in Tasks!Proc, Tasks!At(p, "snapshot"), Tasks!Go(p, Tasks!Rest(p)),
           NEW x, saving[Tasks!Arg(p)] = <<>>, DOMAIN saving = Tasks!File,
           x # <<>>, saving' = [saving EXCEPT ![Tasks!Arg(p)] = x]
    PROVE  Renaming'
<1> SUFFICES ASSUME NEW f, f = Tasks!Arg(p) PROVE Renaming'
  OBVIOUS
<1> DEFINE r == Tasks!Rest(p)
<1>1. todo'[p] = r /\ \A q \in Tasks!Proc \ {p} : todo'[q] = todo[q]
  BY GoIs
<1>2. /\ r # <<>> => Then(todo[p][1], r[1])
      /\ r = <<>> => MayEnd(todo[p][1])
  BY RestIs
<1>3. todo[p][1].do = "snapshot" /\ f = todo[p][1].arg /\ f \in Tasks!File /\ todo[p] # <<>>
  BY Head1, Kinds3 DEF Next1
<1>4. saving'[f] = x /\ \A g \in Tasks!File \ {f} : saving'[g] = saving[g]
  BY <1>3
<1> HIDE DEF r
<1>5. r # <<>> /\ r[1].do = "rename" /\ r[1].arg = f
  BY <1>2, <1>3 DEF MayEnd, Then
<1>6. \A g : (RenamesIt(todo'[p], g) <=> g = f) /\ ~RenamesIt(todo[p], g)
  BY <1>1, <1>3, <1>5 DEF RenamesIt
<1>7. \A g \in Tasks!File : Renames(g)' = {q \in Tasks!Proc : RenamesIt(todo'[q], g)}
  BY DEF Renames, RenamesIt, Tasks!At, Tasks!Arg, Tasks!Idle, Tasks!Head1, Tasks!Proc
<1>8. \A q \in Tasks!Proc : ~RenamesIt(todo[q], f)
  <2>1. saving[f] = <<>>
    OBVIOUS
  <2>2. Renames(f) = {}
    BY <1>3, <2>1 DEF Renaming
  <2> QED BY <2>2, RenamesAre
<1>9. Renames(f)' = {p}
  <2>1. \A q \in Tasks!Proc : RenamesIt(todo'[q], f) <=> q = p
    BY <1>1, <1>6, <1>8
  <2>2. Renames(f)' = {q \in Tasks!Proc : RenamesIt(todo'[q], f)}
    BY <1>3, <1>7
  <2> QED BY <2>1, <2>2
<1>10. \A g \in Tasks!File \ {f} : Renames(g)' = Renames(g)
  BY <1>1, <1>6, <1>7, OthersRename
<1>11. \A g \in Tasks!File : IF saving'[g] = <<>> THEN Renames(g)' = {} ELSE \E q \in Tasks!Proc : Renames(g)' = {q}
  <2> SUFFICES ASSUME NEW g \in Tasks!File
               PROVE  IF saving'[g] = <<>> THEN Renames(g)' = {} ELSE \E q \in Tasks!Proc : Renames(g)' = {q}
    OBVIOUS
  <2>1. CASE g = f
    BY <1>4, <1>9, <2>1
  <2>2. CASE g # f
    <3>1. IF saving[g] = <<>> THEN Renames(g) = {} ELSE \E q \in Tasks!Proc : Renames(g) = {q}
      BY DEF Renaming
    <3>2. saving'[g] = saving[g] /\ Renames(g)' = Renames(g)
      BY <1>4, <1>10, <2>2
    <3> QED BY <3>1, <3>2
  <2> QED BY <2>1, <2>2
<1> QED BY <1>11 DEF Renaming, Tasks!File, Tasks!Proc

(* ... and gives it back.                                                  *)
LEMMA RenamingGiven ==
    ASSUME TodoOK, Renaming, NEW p \in Tasks!Proc, Tasks!At(p, "rename"), Tasks!Go(p, Tasks!Rest(p)),
           DOMAIN saving = Tasks!File, saving' = [saving EXCEPT ![Tasks!Arg(p)] = <<>>]
    PROVE  Renaming' /\ saving[Tasks!Arg(p)] # <<>> /\ Tasks!Arg(p) \in Tasks!File
<1> SUFFICES ASSUME NEW f, f = Tasks!Arg(p) PROVE Renaming' /\ saving[f] # <<>> /\ f \in Tasks!File
  OBVIOUS
<1> DEFINE r == Tasks!Rest(p)
<1>1. todo'[p] = r /\ \A q \in Tasks!Proc \ {p} : todo'[q] = todo[q]
  BY GoIs
<1>2. r # <<>> => r[1].do # "rename"
  BY RestIs DEF Left
<1>3. todo[p][1].do = "rename" /\ f = todo[p][1].arg /\ f \in Tasks!File /\ todo[p] # <<>>
  BY Head1, Kinds3 DEF Next1
<1>4. saving'[f] = <<>> /\ \A g \in Tasks!File \ {f} : saving'[g] = saving[g]
  BY <1>3
<1> HIDE DEF r
<1>6. \A g : ~RenamesIt(todo'[p], g) /\ (RenamesIt(todo[p], g) <=> g = f)
  BY <1>1, <1>2, <1>3 DEF RenamesIt
<1>7. \A g \in Tasks!File : Renames(g)' = {q \in Tasks!Proc : RenamesIt(todo'[q], g)}
  BY DEF Renames, RenamesIt, Tasks!At, Tasks!Arg, Tasks!Idle, Tasks!Head1, Tasks!Proc
<1>8. p \in Renames(f)
  BY <1>6, RenamesAre
<1>9. saving[f] # <<>> /\ Renames(f) = {p}
  BY <1>3, <1>8 DEF Renaming
<1>10. Renames(f)' = {}
  <2>1. \A q \in Tasks!Proc \ {p} : ~RenamesIt(todo[q], f)
    BY <1>9, RenamesAre
  <2>2. \A q \in Tasks!Proc : ~RenamesIt(todo'[q], f)
    BY <1>1, <1>6, <2>1
  <2>3. Renames(f)' = {q \in Tasks!Proc : RenamesIt(todo'[q], f)}
    BY <1>3, <1>7
  <2> QED BY <2>2, <2>3
<1>11. \A g \in Tasks!File \ {f} : Renames(g)' = Renames(g)
  BY <1>1, <1>6, <1>7, OthersRename
<1>12. \A g \in Tasks!File : IF saving'[g] = <<>> THEN Renames(g)' = {} ELSE \E q \in Tasks!Proc : Renames(g)' = {q}
  <2> SUFFICES ASSUME NEW g \in Tasks!File
               PROVE  IF saving'[g] = <<>> THEN Renames(g)' = {} ELSE \E q \in Tasks!Proc : Renames(g)' = {q}
    OBVIOUS
  <2>1. CASE g = f
    BY <1>4, <1>10, <2>1
  <2>2. CASE g # f
    <3>1. IF saving[g] = <<>> THEN Renames(g) = {} ELSE \E q \in Tasks!Proc : Renames(g) = {q}
      BY DEF Renaming
    <3>2. saving'[g] = saving[g] /\ Renames(g)' = Renames(g)
      BY <1>4, <1>11, <2>2
    <3> QED BY <3>1, <3>2
  <2> QED BY <2>1, <2>2
<1> QED BY <1>3, <1>9, <1>12 DEF Renaming, Tasks!File, Tasks!Proc

-----------------------------------------------------------------------------
(* Tunnels: what each step leaves to be done.                              *)

TodoSafe == TodoOK /\ Renaming /\ Issued /\ Unborn

(* Everything with types but who renames.                                  *)
TypesAnd == TasksBounded /\ Tasks!TypeOK /\ TodoSafe

LEMMA WorkStep ==
    ASSUME TypesAnd, NEW p \in Tasks!Proc, NEW r, Tasks!Go(p, r), Narrow(p, r), lastId' \in {lastId, lastId + 1},
           tasks' \subseteq Tasks!Task, saving' = saving, ~Tasks!At(p, "rename"), r # <<>> => r[1].do # "rename"
    PROVE  TodoSafe'
<1>1. TodoOK' /\ Issued' /\ Unborn'
  BY GoKeeps DEF TypesAnd, TodoSafe
<1>2. Renaming'
  BY RenamingGo DEF TypesAnd, TodoSafe
<1> QED BY <1>1, <1>2 DEF TodoSafe

(* A goroutine goes on, or returns; it may add the task that its step is   *)
(* about.                                                                  *)
LEMMA OnStep ==
    ASSUME TypesAnd, NEW p \in Tasks!Proc, NEW d, Tasks!At(p, d), d \notin {"snapshot", "rename"},
           NEW r, Left(p, r, d), Tasks!Go(p, r), lastId' = lastId, saving' = saving,
           tasks' \subseteq tasks \cup {u \in {Tasks!Arg(p)} : d \in {"create", "store"}}
    PROVE  TodoSafe'
<1>1. Next1(p, d)
  BY Head1 DEF TypesAnd, TodoSafe
<1>2. {"create", "store"} \subseteq TaskDo
  BY Kinds3
<1>3. \A u \in tasks' : u \in tasks \/ (u \in Tasks!Task /\ Mentions(todo[p], u) /\ d # "test")
  BY <1>1, <1>2 DEF Next1
<1>4. tasks' \subseteq Tasks!Task
  BY <1>3 DEF TypesAnd, Tasks!TypeOK
<1>5. /\ r \in Seq(Steps) /\ Formed(r)
      /\ d # "snapshot" => (r # <<>> => r[1].do # "rename")
      /\ \A u : Mentions(r, u) => Mentions(todo[p], u)
      /\ \A u : Creates(r, u) => Creates(todo[p], u) /\ d = "test"
  BY Zenon DEF Left
<1>6. Narrow(p, r)
  BY <1>3, <1>5 DEF Narrow
<1>7. ~Tasks!At(p, "rename")
  BY <1>1 DEF Next1
<1> QED BY <1>4, <1>5, <1>6, <1>7, WorkStep

(* It sets out to something new: about tasks there are or that it is about *)
(* anyway, or about one with the next id.                                  *)
LEMMA SetOut ==
    ASSUME TypesAnd, NEW p \in Tasks!Proc, ~Tasks!At(p, "rename"), NEW w, Tasks!Go(p, w), NEW T, NEW C,
           w \in Seq(Steps), Formed(w), w # <<>> => w[1].do # "rename",
           \A u : Mentions(w, u) => u \in T \/ Mentions(todo[p], u),
           \A u : Creates(w, u) => u \in C,
           saving' = saving, tasks' = tasks,
           \/ lastId' = lastId /\ C = {} /\ \A u \in T : u \in tasks \/ Mentions(todo[p], u)
           \/ lastId' = lastId + 1 /\ T \cup C \subseteq {lastId'}
    PROVE  TodoSafe'
<1>1. tasks' \subseteq Tasks!Task
  BY DEF TypesAnd, Tasks!TypeOK
<1>2. lastId' \in {lastId, lastId + 1}
  OBVIOUS
<1>3. \A u : Mentions(w, u) => Mentions(todo[p], u) \/ u \in tasks \/ (u = lastId + 1 /\ lastId' = u)
  OBVIOUS
<1>4. \A u : Creates(w, u) => Creates(todo[p], u) \/ (u = lastId + 1 /\ lastId' = u)
  OBVIOUS
<1>5. Narrow(p, w)
  BY <1>3, <1>4 DEF Narrow
<1> QED BY <1>1, <1>2, <1>5, WorkStep

(* One that has nothing to do begins, ...                                  *)
LEMMA BeginStep ==
    ASSUME TypesAnd, NEW p \in Tasks!Proc, Tasks!Idle(p), NEW w, Tasks!Go(p, w), NEW T, NEW C, Errand(w, T, C),
           saving' = saving, tasks' = tasks,
           \/ lastId' = lastId /\ C = {} /\ T \subseteq tasks
           \/ lastId' = lastId + 1 /\ T \cup C \subseteq {lastId'}
    PROVE  TodoSafe'
<1>1. /\ w \in Seq(Steps) /\ Formed(w) /\ (w # <<>> => w[1].do # "rename")
      /\ \A u : Mentions(w, u) => u \in T
      /\ \A u : Creates(w, u) => u \in C
  BY DEF Errand
<1>2. ~Tasks!At(p, "rename")
  BY DEF Tasks!At
<1>3. \/ lastId' = lastId /\ C = {} /\ \A u \in T : u \in tasks \/ Mentions(todo[p], u)
      \/ lastId' = lastId + 1 /\ T \cup C \subseteq {lastId'}
  OBVIOUS
<1>4. \A u : Mentions(w, u) => u \in T \/ Mentions(todo[p], u)
  BY <1>1
<1> QED BY <1>1, <1>2, <1>3, <1>4, SetOut

(* ... and one that has puts something in front.                           *)
LEMMA FrontStep ==
    ASSUME TypesAnd, NEW p \in Tasks!Proc, NEW d \in Between, Tasks!At(p, d), NEW a, NEW T, NEW C, Errand(a, T, C),
           NEW w, w = a \o Tasks!Rest(p), Tasks!Go(p, w),
           saving' = saving, tasks' = tasks,
           \/ lastId' = lastId /\ C = {} /\ \A u \in T : u \in tasks \/ Mentions(todo[p], u)
           \/ lastId' = lastId + 1 /\ T \cup C \subseteq {lastId'}
    PROVE  TodoSafe'
<1>1. Next1(p, d)
  BY Head1 DEF TypesAnd, TodoSafe
<1>2. todo[p] \in Seq(Steps) /\ todo[p] # <<>> /\ Formed(todo[p]) /\ todo[p][1].do \in Between /\ ~Tasks!At(p, "rename")
  BY <1>1 DEF Next1, Between
<1>3. w = a \o Tail(todo[p])
  BY DEF Tasks!Rest
<1>4. /\ w \in Seq(Steps) /\ Formed(w) /\ (w # <<>> => w[1].do # "rename")
      /\ \A u : Mentions(w, u) => u \in T \/ Mentions(todo[p], u)
      /\ \A u : Creates(w, u) => u \in C
  BY <1>2, <1>3, FrontOf, Zenon
<1> QED BY <1>2, <1>4, SetOut

(* Nobody does anything.                                                   *)
LEMMA TodoStill ==
    ASSUME TodoSafe, UNCHANGED <<tasks, lastId, saving, todo>>
    PROVE  TodoSafe'
<1>1. TodoOK'
  BY DEF TodoSafe, TodoOK, Formed, Linked, Creating, Closing, Tasks!Proc
<1>2. Renaming'
  BY RenamingSame DEF TodoSafe
<1>3. Issued'
  BY DEF TodoSafe, Issued, Mentions, Tasks!Proc, Tasks!Task
<1>4. Unborn'
  BY DEF TodoSafe, Unborn, Mentions, Creates, Tasks!Proc, Tasks!Task
<1> QED BY <1>1, <1>2, <1>3, <1>4 DEF TodoSafe

-----------------------------------------------------------------------------
(* Tunnels: what each action leaves to be done.                            *)

LEMMA NextIdIs ==
    ASSUME TypesAnd
    PROVE  lastId + 1 # lastId /\ tasks \subseteq Tasks!Task
BY DEF TypesAnd, Tasks!TypeOK, TasksBounded

(* Requests of the page, and of configuration connections.                 *)
LEMMA AddTodo ==
    ASSUME TypesAnd, NEW a, NEW c \in Client, (a \in Admin /\ Tasks!Add(a, c)) \/ Tasks!Config(c)
    PROVE  TodoSafe'
<1> SUFFICES ASSUME NEW t, t = lastId + 1 PROVE TodoSafe'
  OBVIOUS
<1>1. (a \in Admin => a \in Tasks!Proc) /\ "config" \in Tasks!Proc
  BY DEF Tasks!Proc
<1>2. CASE a \in Admin /\ Tasks!Add(a, c)
  <2> DEFINE w == (<<TStep("test", t)>> \o Tasks!NewTask(t)) \o Tasks!AddTask(t)
  <2>1. /\ a \in Tasks!Proc /\ Tasks!Idle(a) /\ Tasks!Go(a, w) /\ t \in Tasks!Task
        /\ saving' = saving /\ tasks' = tasks /\ lastId' = t
    BY <1>1, <1>2 DEF Tasks!Add, Tasks!Request, Tasks!files, TStep
  <2>2. Errand(w, {t}, {t})
    BY <2>1, CreateErrands
  <2>3. lastId' = lastId + 1 /\ {t} \cup {t} \subseteq {lastId'}
    BY <2>1
  <2> HIDE DEF w
  <2> QED BY <2>1, <2>2, <2>3, BeginStep
<1>3. CASE Tasks!Config(c)
  <2> DEFINE w == Tasks!NewTask(t) \o <<TStep("test", t), TStep("open", t)>>
  <2>1. /\ Tasks!Idle("config") /\ Tasks!Go("config", w) /\ t \in Tasks!Task
        /\ saving' = saving /\ tasks' = tasks /\ lastId' = t
    BY <1>3 DEF Tasks!Config, Tasks!files, TStep
  <2>2. Errand(w, {t}, {t})
    BY <2>1, CreateErrands
  <2>3. lastId' = lastId + 1 /\ {t} \cup {t} \subseteq {lastId'}
    BY <2>1
  <2> HIDE DEF w
  <2> QED BY <1>1, <2>1, <2>2, <2>3, BeginStep
<1> QED BY <1>2, <1>3

LEMMA OwnAddTodo ==
    ASSUME TypesAnd, NEW a \in Admin, NEW c \in Client, Tasks!OwnAdd(a, c)
    PROVE  TodoSafe'
<1>1. PICK n \in {1, 2} : Tasks!Request(a, [i \in 1 .. n |-> Tasks!Step("own", c)])
  BY DEF Tasks!OwnAdd
<1> DEFINE w == [i \in 1 .. n |-> TStep("own", c)]
<1>2. /\ a \in Tasks!Proc /\ Tasks!Idle(a) /\ Tasks!Go(a, w)
      /\ saving' = saving /\ tasks' = tasks /\ lastId' = lastId
  BY <1>1 DEF Tasks!OwnAdd, Tasks!Request, Tasks!files, Tasks!memory, TStep, Tasks!Proc
<1>3. Errand(w, {}, {})
  BY OwnErrand
<1> HIDE DEF w
<1> QED BY <1>2, <1>3, BeginStep

LEMMA RequestTodo ==
    ASSUME TypesAnd, NEW a \in Admin, NEW w, Tasks!Request(a, w), Errand(w, {}, {}) \/ \E t \in tasks : Errand(w, {t}, {}),
           UNCHANGED Tasks!memory
    PROVE  TodoSafe'
<1>1. /\ a \in Tasks!Proc /\ Tasks!Idle(a) /\ Tasks!Go(a, w)
      /\ saving' = saving /\ tasks' = tasks /\ lastId' = lastId
  BY DEF Tasks!Request, Tasks!files, Tasks!memory, Tasks!Proc
<1>2. PICK T \in SUBSET tasks : Errand(w, T, {})
  OBVIOUS
<1> QED BY <1>1, <1>2, BeginStep

LEMMA CommandTodo ==
    ASSUME TypesAnd, NEW a \in Admin, Tasks!Command(a)
    PROVE  TodoSafe'
<1>1. \A t \in tasks : t \in Tasks!Task
  BY NextIdIs
<1>2. DOMAIN clients \subseteq Client /\ UNCHANGED Tasks!memory
  BY DEF TypesAnd, Tasks!TypeOK, Tasks!Command
<1>3. CASE \E t \in tasks : \/ Tasks!Request(a, Tasks!StartTask(t)) \/ Tasks!Request(a, Tasks!StopServer(t, 0))
                            \/ Tasks!Request(a, Tasks!DelTask(t)) \/ Tasks!Request(a, Tasks!Edit(t))
  <2>1. PICK t \in tasks : \/ Tasks!Request(a, Tasks!StartTask(t)) \/ Tasks!Request(a, Tasks!StopServer(t, 0))
                           \/ Tasks!Request(a, Tasks!DelTask(t)) \/ Tasks!Request(a, Tasks!Edit(t))
    BY <1>3
  <2>2. /\ Errand(Tasks!StartTask(t), {t}, {}) /\ Errand(Tasks!StopServer(t, 0), {t}, {})
        /\ Errand(Tasks!DelTask(t), {t}, {}) /\ Errand(Tasks!Edit(t), {t}, {})
    BY <1>1, TaskErrands, EditErrand
  <2> QED BY <1>2, <2>1, <2>2, RequestTodo
<1>4. CASE \E c \in DOMAIN clients : \/ Tasks!Request(a, Tasks!ChangeStatus(c)) \/ Tasks!Request(a, Tasks!DelClient(c))
                                     \/ Tasks!Request(a, Tasks!OwnDelClient(c))
  <2>1. PICK c \in Client : \/ Tasks!Request(a, Tasks!ChangeStatus(c)) \/ Tasks!Request(a, Tasks!DelClient(c))
                            \/ Tasks!Request(a, Tasks!OwnDelClient(c))
    BY <1>2, <1>4
  <2>2. /\ Errand(Tasks!ChangeStatus(c), {}, {}) /\ Errand(Tasks!DelClient(c), {}, {})
        /\ Errand(Tasks!OwnDelClient(c), {}, {})
    BY ClientErrands
  <2> QED BY <1>2, <2>1, <2>2, RequestTodo
<1> QED BY <1>3, <1>4 DEF Tasks!Command

LEMMA ExpireTodo ==
    ASSUME TypesAnd, NEW c \in Client, Tasks!CheckExpire(c)
    PROVE  TodoSafe'
<1>1. /\ "expire" \in Tasks!Proc /\ Tasks!Idle("expire") /\ Tasks!Go("expire", Tasks!Expire(c))
      /\ saving' = saving /\ tasks' = tasks /\ lastId' = lastId
  BY DEF Tasks!CheckExpire, Tasks!files, Tasks!memory, Tasks!Proc
<1>2. Errand(Tasks!Expire(c), {}, {})
  BY ClientErrands
<1> QED BY <1>1, <1>2, BeginStep

(* Steps that only go on.                                                  *)
LEMMA PlainTodo ==
    ASSUME TypesAnd, NEW p \in Tasks!Proc,
           \/ Tasks!Create(p) \/ Tasks!Get(p) \/ Tasks!Run(p) \/ Tasks!CloseServer(p) \/ Tasks!Unrun(p)
           \/ Tasks!Enable(p) \/ Tasks!Store(p) \/ Tasks!Drop(p) \/ Tasks!RemoveClient(p) \/ Tasks!Pause(p)
    PROVE  TodoSafe'
<1> DEFINE On(d, r) ==
             /\ Tasks!At(p, d) /\ d \notin {"snapshot", "rename"} /\ Left(p, r, d) /\ Tasks!Go(p, r)
             /\ lastId' = lastId /\ saving' = saving
             /\ tasks' \subseteq tasks \cup {u \in {Tasks!Arg(p)} : d \in {"create", "store"}}
<1>1. TodoOK
  BY DEF TypesAnd, TodoSafe
<1>2. \A d : Tasks!At(p, d) => Left(p, Tasks!Rest(p), d) /\ Left(p, <<>>, d)
  BY <1>1, RestIs, NothingLeft
<1>3. SUFFICES \E d, r : On(d, r)
  BY OnStep
<1>4. CASE Tasks!Create(p)
  <2>1. On("create", Tasks!Rest(p))
    BY <1>2, <1>4 DEF Tasks!Create, Tasks!files
  <2> QED BY <2>1
<1>5. CASE Tasks!Get(p)
  <2>1. On("get", Tasks!Rest(p)) \/ On("get", <<>>)
    BY <1>2, <1>5 DEF Tasks!Get, Tasks!files, Tasks!memory, Tasks!Abort
  <2> QED BY <2>1
<1>6. CASE Tasks!Run(p)
  <2>1. On("run", Tasks!Rest(p))
    BY <1>2, <1>6 DEF Tasks!Run, Tasks!files, Tasks!memory
  <2> QED BY <2>1
<1>7. CASE Tasks!CloseServer(p)
  <2>1. /\ Tasks!At(p, "close") /\ lastId' = lastId /\ saving' = saving /\ tasks' = tasks
        /\ Tasks!Skip(p) \/ Tasks!Abort(p) \/ Tasks!Go(p, Tasks!Rest(p))
    <3>1. Tasks!At(p, "close") /\ lastId' = lastId /\ saving' = saving /\ tasks' = tasks
      BY <1>7 DEF Tasks!CloseServer, Tasks!files, Tasks!memory
    <3>2. Tasks!Skip(p) \/ Tasks!Abort(p) \/ Tasks!Go(p, Tasks!Rest(p))
      BY <1>7, Zenon DEF Tasks!CloseServer
    <3> QED BY <3>1, <3>2
  <2>2. CASE Tasks!Skip(p)
    <3> DEFINE w == SubSeq(Tasks!Rest(p), 1 + Tasks!Head1(p).skip, Len(Tasks!Rest(p)))
    <3>1. Left(p, w, "close") /\ Tasks!Go(p, w)
      BY <1>1, <2>1, <2>2, CloseSkips
    <3> HIDE DEF w
    <3>2. On("close", w)
      BY <2>1, <3>1
    <3> QED BY <3>2
  <2>3. CASE Tasks!Abort(p) \/ Tasks!Go(p, Tasks!Rest(p))
    <3>1. On("close", <<>>) \/ On("close", Tasks!Rest(p))
      BY <1>2, <2>1, <2>3 DEF Tasks!Abort
    <3> QED BY <3>1
  <2> QED BY <2>1, <2>2, <2>3
<1>8. CASE Tasks!Unrun(p)
  <2> DEFINE w == SubSeq(Tasks!Rest(p), 4, Len(Tasks!Rest(p)))
  <2>1. /\ Tasks!At(p, "unrun") /\ lastId' = lastId /\ saving' = saving /\ tasks' = tasks
        /\ Tasks!Go(p, w) \/ Tasks!Go(p, Tasks!Rest(p))
    BY <1>8 DEF Tasks!Unrun, Tasks!files
  <2>2. Left(p, w, "unrun")
    BY <1>1, <2>1, UnrunSkips
  <2> HIDE DEF w
  <2>3. On("unrun", w) \/ On("unrun", Tasks!Rest(p))
    BY <1>2, <2>1, <2>2
  <2> QED BY <2>3
<1>9. CASE Tasks!Enable(p)
  <2>1. On("enable", Tasks!Rest(p))
    BY <1>2, <1>9 DEF Tasks!Enable, Tasks!files
  <2> QED BY <2>1
<1>10. CASE Tasks!Store(p)
  <2>1. On("store", Tasks!Rest(p))
    BY <1>2, <1>10 DEF Tasks!Store, Tasks!files
  <2> QED BY <2>1
<1>11. CASE Tasks!Drop(p)
  <2>1. On("drop", Tasks!Rest(p))
    BY <1>2, <1>11 DEF Tasks!Drop, Tasks!files
  <2> QED BY <2>1
<1>12. CASE Tasks!RemoveClient(p)
  <2>1. On("delclient", Tasks!Rest(p))
    BY <1>2, <1>12 DEF Tasks!RemoveClient, Tasks!files
  <2> QED BY <2>1
<1>13. CASE Tasks!Pause(p)
  <2>1. On("pause", Tasks!Rest(p))
    BY <1>2, <1>13 DEF Tasks!Pause, Tasks!files
  <2> QED BY <2>1
<1> QED BY <1>4, <1>5, <1>6, <1>7, <1>8, <1>9, <1>10, <1>11, <1>12, <1>13

(* Steps that put something in front.                                      *)
LEMMA OwnTodo ==
    ASSUME TypesAnd, NEW p \in Tasks!Proc, Tasks!Own(p)
    PROVE  TodoSafe'
<1> SUFFICES ASSUME NEW t, t = lastId + 1 PROVE TodoSafe'
  OBVIOUS
<1> DEFINE a == Tasks!NewTask(t) \o Tasks!OwnAddTask(t)
           w == a \o Tasks!Rest(p)
<1>1. /\ Tasks!At(p, "own") /\ t \in Tasks!Task /\ Tasks!Go(p, w)
      /\ saving' = saving /\ tasks' = tasks /\ lastId' = t
  BY DEF Tasks!Own, Tasks!files
<1>2. Errand(a, {t}, {t})
  BY <1>1, FrontErrands
<1>3. "own" \in Between /\ lastId' = lastId + 1 /\ {t} \cup {t} \subseteq {lastId'}
  BY <1>1 DEF Between
<1>4. w = a \o Tasks!Rest(p)
  OBVIOUS
<1> HIDE DEF a, w
<1> QED BY <1>1, <1>2, <1>3, <1>4, FrontStep

LEMMA LoadTodo ==
    ASSUME TypesAnd, NEW p \in Tasks!Proc, Tasks!Load(p)
    PROVE  TodoSafe'
<1> SUFFICES ASSUME NEW t, t = Tasks!Arg(p) PROVE TodoSafe'
  OBVIOUS
<1> DEFINE a == <<TStep("run", t)>>
           w == a \o Tasks!Rest(p)
<1>1. /\ Tasks!At(p, "load") /\ (Tasks!Go(p, w) \/ Tasks!Go(p, Tasks!Rest(p)))
      /\ saving' = saving /\ tasks' = tasks /\ lastId' = lastId
  BY DEF Tasks!Load, Tasks!files, Tasks!memory, TStep
<1>2. TodoOK
  BY DEF TypesAnd, TodoSafe
<1>3. t \in Tasks!Task /\ Mentions(todo[p], t)
  BY <1>1, <1>2, Head1, Kinds3 DEF Next1
<1>4. Errand(a, {t}, {}) /\ w = a \o Tasks!Rest(p)
  BY <1>3, FrontErrands
<1>5. "load" \in Between /\ \A u \in {t} : u \in tasks \/ Mentions(todo[p], u)
  BY <1>3 DEF Between
<1>6. Left(p, Tasks!Rest(p), "load")
  BY <1>1, <1>2, RestIs
<1> HIDE DEF a, w
<1>7. CASE Tasks!Go(p, w)
  BY <1>1, <1>4, <1>5, <1>7, FrontStep
<1>8. CASE Tasks!Go(p, Tasks!Rest(p))
  BY <1>1, <1>6, <1>8, OnStep
<1> QED BY <1>1, <1>7, <1>8

LEMMA TestTodo ==
    ASSUME TypesAnd, NEW p \in Tasks!Proc, Tasks!Test(p)
    PROVE  TodoSafe'
<1> SUFFICES ASSUME NEW t, t = Tasks!Arg(p) PROVE TodoSafe'
  OBVIOUS
<1>1. /\ saving' = saving /\ tasks' = tasks /\ lastId' = lastId
      /\ \/ Tasks!At(p, "test") /\ Tasks!Go(p, <<>>)
         \/ Tasks!At(p, "testOwn") /\ Tasks!Go(p, Tasks!DropTask(t))
         \/ (Tasks!At(p, "test") \/ Tasks!At(p, "testOwn")) /\ Tasks!Go(p, Tasks!Rest(p))
  BY DEF Tasks!Test, Tasks!files, Tasks!memory, Tasks!Abort
<1>2. TodoOK
  BY DEF TypesAnd, TodoSafe
<1>3. CASE Tasks!At(p, "test") /\ Tasks!Go(p, <<>>)
  BY <1>1, <1>3, NothingLeft, OnStep
<1>4. CASE Tasks!At(p, "testOwn") /\ Tasks!Go(p, Tasks!DropTask(t))
  <2>1. t \in Tasks!Task /\ Mentions(todo[p], t) /\ ~Tasks!At(p, "rename")
    BY <1>2, <1>4, Head1, Kinds3 DEF Next1
  <2>2. Errand(Tasks!DropTask(t), {t}, {})
    BY <2>1, TaskErrands
  <2> DEFINE w == Tasks!DropTask(t)
  <2>3. /\ w \in Seq(Steps) /\ Formed(w) /\ (w # <<>> => w[1].do # "rename")
        /\ \A u : Mentions(w, u) => u \in {t} \/ Mentions(todo[p], u)
        /\ \A u : Creates(w, u) => u \in {}
    BY <2>2 DEF Errand
  <2>4. lastId' = lastId /\ {} = {} /\ \A u \in {t} : u \in tasks \/ Mentions(todo[p], u)
    BY <1>1, <2>1
  <2> HIDE DEF w
  <2> QED BY <1>1, <1>4, <2>1, <2>3, <2>4, SetOut DEF w
<1>5. CASE (Tasks!At(p, "test") \/ Tasks!At(p, "testOwn")) /\ Tasks!Go(p, Tasks!Rest(p))
  <2>1. PICK d \in {"test", "testOwn"} : Tasks!At(p, d)
    BY <1>5
  <2>2. Left(p, Tasks!Rest(p), d)
    BY <1>2, <2>1, RestIs
  <2> QED BY <1>1, <1>5, <2>1, <2>2, OnStep
<1> QED BY <1>1, <1>3, <1>4, <1>5

LEMMA DelTodo ==
    ASSUME TypesAnd, NEW p \in Tasks!Proc, Tasks!Del(p)
    PROVE  TodoSafe'
<1> SUFFICES ASSUME NEW t, t = Tasks!Arg(p) PROVE TodoSafe'
  OBVIOUS
<1>1. /\ Tasks!At(p, "del") /\ saving' = saving /\ tasks' = tasks /\ lastId' = lastId
      /\ \/ Tasks!Go(p, (<<>> \o Tasks!DropTask(t)) \o Tasks!Rest(p))
         \/ Tasks!Go(p, (Tasks!StopServer(t, 3) \o Tasks!DropTask(t)) \o Tasks!Rest(p))
  BY DEF Tasks!Del, Tasks!files, Tasks!memory
<1>2. TodoOK
  BY DEF TypesAnd, TodoSafe
<1>3. t \in Tasks!Task /\ Mentions(todo[p], t)
  BY <1>1, <1>2, Head1, Kinds3 DEF Next1
<1>4. Errand(<<>> \o Tasks!DropTask(t), {t}, {}) /\ Errand(Tasks!StopServer(t, 3) \o Tasks!DropTask(t), {t}, {})
  BY <1>3, FrontErrands
<1>5. "del" \in Between /\ \A u \in {t} : u \in tasks \/ Mentions(todo[p], u)
  BY <1>3 DEF Between
<1>6. ASSUME NEW a, Errand(a, {t}, {}), Tasks!Go(p, a \o Tasks!Rest(p)) PROVE TodoSafe'
  BY <1>1, <1>5, <1>6, FrontStep
<1> QED BY <1>1, <1>4, <1>6

LEMMA SweepTodo ==
    ASSUME TypesAnd, NEW p \in Tasks!Proc, Tasks!Sweep(p)
    PROVE  TodoSafe'
<1>1. /\ saving' = saving /\ tasks' = tasks /\ lastId' = lastId
      /\ Tasks!At(p, "sweep") \/ Tasks!At(p, "sweepNoStore")
      /\ \E T \in SUBSET tasks : \E list : list \in Tasks!SetToSeqs(T) /\ Tasks!Go(p, Tasks!Each("del", list) \o Tasks!Rest(p))
  BY DEF Tasks!Sweep, Tasks!files, Tasks!memory
<1>2. PICK T \in SUBSET tasks : \E list \in Tasks!SetToSeqs(T) : Tasks!Go(p, Tasks!Each("del", list) \o Tasks!Rest(p))
  BY <1>1
<1>3. PICK list \in Tasks!SetToSeqs(T) : Tasks!Go(p, Tasks!Each("del", list) \o Tasks!Rest(p))
  BY <1>2
<1>4. TasksBounded /\ T \subseteq Tasks!Task
  BY NextIdIs DEF TypesAnd
<1>5. Errand(Tasks!Each("del", list), T, {})
  BY <1>4, EachErrand
<1>6. PICK d \in {"sweep", "sweepNoStore"} : Tasks!At(p, d)
  BY <1>1
<1>7. d \in Between
  BY DEF Between
<1>8. ASSUME NEW a, Errand(a, T, {}), Tasks!Go(p, a \o Tasks!Rest(p)) PROVE TodoSafe'
  BY <1>1, <1>6, <1>7, <1>8, FrontStep
<1> QED BY <1>3, <1>5, <1>8

LEMMA KickTodo ==
    ASSUME TypesAnd, NEW p \in Tasks!Proc, Tasks!Kick(p)
    PROVE  TodoSafe'
<1> SUFFICES ASSUME NEW c, c = Tasks!Arg(p) PROVE TodoSafe'
  OBVIOUS
<1> DEFINE a == <<TStep("closeClient", c)>>
<1>1. /\ Tasks!At(p, "kick") /\ (Tasks!Go(p, a \o Tasks!Rest(p)) \/ Tasks!Go(p, Tasks!Rest(p)))
      /\ saving' = saving /\ tasks' = tasks /\ lastId' = lastId
  BY DEF Tasks!Kick, Tasks!files, Tasks!memory, TStep
<1>2. TodoOK
  BY DEF TypesAnd, TodoSafe
<1>3. c \in Client
  BY <1>1, <1>2, Head1, Kinds3 DEF Next1
<1>4. Errand(a, {}, {})
  BY <1>3, KickErrand
<1>5. "kick" \in Between
  BY DEF Between
<1>6. Left(p, Tasks!Rest(p), "kick")
  BY <1>1, <1>2, RestIs
<1> HIDE DEF a
<1>7. CASE Tasks!Go(p, a \o Tasks!Rest(p))
  <2>1. PICK T \in SUBSET tasks : Errand(a, T, {})
    BY <1>4
  <2>2. ASSUME NEW b, Errand(b, T, {}), Tasks!Go(p, b \o Tasks!Rest(p)) PROVE TodoSafe'
    BY <1>1, <1>5, <2>2, FrontStep
  <2> QED BY <1>7, <2>1, <2>2
<1>8. CASE Tasks!Go(p, Tasks!Rest(p))
  BY <1>1, <1>6, <1>8, OnStep
<1> QED BY <1>1, <1>7, <1>8

-----------------------------------------------------------------------------
(* Tunnels: the lock of a file, and DealBridgeTask.                        *)

LEMMA LockTodo ==
    ASSUME TypesAnd, NEW p \in Tasks!Proc, Tasks!Snapshot(p) \/ Tasks!Rename(p)
    PROVE  TodoSafe'
<1>1. TodoOK /\ Renaming /\ Issued /\ Unborn /\ TasksBounded /\ Tasks!TypeOK
  BY DEF TypesAnd, TodoSafe
<1>2. PICK d \in {"snapshot", "rename"} : Tasks!At(p, d)
  BY DEF Tasks!Snapshot, Tasks!Rename
<1>3. Left(p, Tasks!Rest(p), d)
  BY <1>1, <1>2, RestIs
<1>4. tasks' = tasks /\ lastId' = lastId /\ Tasks!Go(p, Tasks!Rest(p))
  BY DEF Tasks!Snapshot, Tasks!Rename, Tasks!memory
<1>5. Narrow(p, Tasks!Rest(p))
  BY <1>3, <1>4 DEF Narrow, Left
<1>6. tasks' \subseteq Tasks!Task
  BY <1>4, NextIdIs
<1>7. TodoOK' /\ Issued' /\ Unborn'
  BY <1>1, <1>4, <1>5, <1>6, GoKeeps
<1>8. DOMAIN saving = Tasks!File
  BY <1>1 DEF Tasks!TypeOK
<1>9. Renaming'
  <2>1. CASE Tasks!Snapshot(p)
    <3>1. PICK x : x # <<>> /\ saving' = [saving EXCEPT ![Tasks!Arg(p)] = x]
      <4>1. <<Tasks!Content(Tasks!Arg(p))>> # <<>>
        OBVIOUS
      <4> QED BY <2>1, <4>1 DEF Tasks!Snapshot
    <3>2. Tasks!At(p, "snapshot") /\ saving[Tasks!Arg(p)] = <<>>
      BY <2>1 DEF Tasks!Snapshot
    <3> QED BY <1>1, <1>4, <1>8, <3>1, <3>2, RenamingTaken
  <2>2. CASE Tasks!Rename(p)
    <3>1. Tasks!At(p, "rename") /\ saving' = [saving EXCEPT ![Tasks!Arg(p)] = <<>>]
      BY <2>2 DEF Tasks!Rename
    <3> QED BY <1>1, <1>4, <1>8, <3>1, RenamingGiven
  <2> QED BY <2>1, <2>2
<1> QED BY <1>7, <1>9 DEF TodoSafe

(* DealBridgeTask takes over: as if the other goroutine went on first.     *)
LEMMA DealTodo ==
    ASSUME TypesAnd, NEW p \in Tasks!Proc, Tasks!Deal(p)
    PROVE  TodoSafe'
<1> DEFINE r == Tasks!Rest(p)
<1>1. TodoOK /\ Renaming /\ Issued /\ Unborn /\ TasksBounded /\ Tasks!TypeOK
  BY DEF TypesAnd, TodoSafe
<1>2. PICK d \in {"open", "closeClient"} : Tasks!At(p, d)
  BY DEF Tasks!Deal
<1>3. Next1(p, d) /\ Left(p, r, d)
  BY <1>1, <1>2, Head1, RestIs
<1>4. Tasks!Idle("dealer") /\ p # "dealer" /\ "dealer" \in Tasks!Proc
  BY <1>2 DEF Tasks!Deal, Tasks!At, Tasks!Proc
<1> DEFINE Given(x, T) == /\ Errand(x, T, {}) /\ \A u \in T : u \in Tasks!Task /\ Mentions(todo[p], u)
                          /\ todo' = [todo EXCEPT ![p] = r, !["dealer"] = x]
<1>5. PICK x, T : Given(x, T)
  <2>1. CASE d = "open"
    <3>1. /\ Tasks!Arg(p) \in Tasks!Task /\ Mentions(todo[p], Tasks!Arg(p))
      BY <1>3, <2>1, Kinds3 DEF Next1
    <3>2. Errand(Tasks!StartTask(Tasks!Arg(p)), {Tasks!Arg(p)}, {})
      BY <3>1, TaskErrands
    <3>3. todo' = [todo EXCEPT ![p] = r, !["dealer"] = Tasks!StartTask(Tasks!Arg(p))]
      BY <1>2, <2>1 DEF Tasks!Deal
    <3>4. Given(Tasks!StartTask(Tasks!Arg(p)), {Tasks!Arg(p)})
      BY <3>1, <3>2, <3>3
    <3> HIDE DEF Given
    <3> QED BY <3>4
  <2>2. CASE d = "closeClient"
    <3>1. Tasks!Arg(p) \in Client /\ ~Tasks!At(p, "open")
      BY <1>3, <2>2, Kinds3 DEF Next1
    <3>2. Errand(Tasks!CloseClient(Tasks!Arg(p)), {}, {})
      BY <3>1, ClientErrands
    <3>3. todo' = [todo EXCEPT ![p] = r, !["dealer"] = Tasks!CloseClient(Tasks!Arg(p))]
      BY <3>1 DEF Tasks!Deal
    <3>4. Given(Tasks!CloseClient(Tasks!Arg(p)), {})
      BY <3>2, <3>3
    <3> HIDE DEF Given
    <3> QED BY <3>4
  <2> QED BY <2>1, <2>2
<1>6. saving' = saving /\ tasks' = tasks /\ lastId' = lastId
  BY DEF Tasks!Deal, Tasks!files, Tasks!memory
<1> HIDE DEF r
<1>7. /\ todo'[p] = r /\ todo'["dealer"] = x /\ DOMAIN todo' = Tasks!Proc
      /\ \A q \in Tasks!Proc \ {p, "dealer"} : todo'[q] = todo[q]
  BY <1>1, <1>4, <1>5 DEF TodoOK
<1>8. /\ r \in Seq(Steps) /\ Formed(r)
      /\ d # "snapshot" => (r # <<>> => r[1].do # "rename")
      /\ \A u : Mentions(r, u) => Mentions(todo[p], u)
      /\ \A u : Creates(r, u) => Creates(todo[p], u) /\ d = "test"
  BY <1>3, Zenon DEF Left
<1>9. /\ x \in Seq(Steps) /\ Formed(x) /\ (x # <<>> => x[1].do # "rename")
      /\ \A u : Mentions(x, u) => u \in T
      /\ \A u : Creates(x, u) => u \in {}
  BY <1>5 DEF Errand
<1>10. \A q \in Tasks!Proc : todo'[q] \in Seq(Steps) /\ Formed(todo'[q])
  BY <1>1, <1>7, <1>8, <1>9, TodoTypes
<1>11. TodoOK'
  <2>1. todo' = [q \in Tasks!Proc |-> todo'[q]]
    BY <1>1, <1>5 DEF TodoOK
  <2> QED BY <1>10, <2>1 DEF TodoOK, Tasks!Proc
<1>12. todo["dealer"] = <<>> /\ todo[p] # <<>> /\ todo[p][1].do # "rename"
  BY <1>3, <1>4 DEF Next1, Tasks!Idle
<1>13. \A q \in Tasks!Proc, f \in Tasks!File : RenamesIt(todo'[q], f) <=> RenamesIt(todo[q], f)
  BY <1>2, <1>7, <1>8, <1>9, <1>12 DEF RenamesIt
<1>14. Renaming'
  BY <1>1, <1>6, <1>13, RenamingSame
<1>15. \A q \in Tasks!Proc : \A u : Mentions(todo'[q], u) => Mentions(todo[q], u) \/ (q = "dealer" /\ Mentions(todo[p], u))
  BY <1>5, <1>7, <1>8, <1>9
<1>16. \A q \in Tasks!Proc : \A u : Creates(todo'[q], u) => Creates(todo[q], u) /\ q \notin {p, "dealer"}
  BY <1>2, <1>7, <1>8, <1>9
<1>17. \A q \in Tasks!Proc, u \in Tasks!Task : Mentions(todo'[q], u) => u <= lastId'
  BY <1>1, <1>6, <1>15 DEF Issued
<1>18. Issued'
  BY <1>1, <1>6, <1>17 DEF Issued, Tasks!Proc, Tasks!Task, Mentions
<1>19. \A q \in Tasks!Proc, u \in Tasks!Task : Creates(todo'[q], u) =>
          u \notin tasks' /\ \A z \in Tasks!Proc \ {q} : ~Mentions(todo'[z], u)
  <2> SUFFICES ASSUME NEW q \in Tasks!Proc, NEW u \in Tasks!Task, Creates(todo'[q], u), NEW z \in Tasks!Proc \ {q}
               PROVE  u \notin tasks' /\ ~Mentions(todo'[z], u)
    <3>2. \A q \in Tasks!Proc : \E z \in Tasks!Proc : z # q
      BY <1>4
    <3> QED BY <3>2
  <2>1. u \notin tasks /\ \A y \in Tasks!Proc \ {q} : ~Mentions(todo[y], u)
    BY <1>1, <1>16 DEF Unborn
  <2>2. p \in Tasks!Proc \ {q} /\ z \in Tasks!Proc \ {q}
    BY <1>16
  <2> QED BY <1>6, <1>15, <2>1, <2>2
<1>20. Unborn'
  BY <1>19 DEF Unborn, Tasks!Proc, Tasks!Task, Mentions, Creates
<1> QED BY <1>11, <1>14, <1>18, <1>20 DEF TodoSafe

(* Whatever a goroutine does.                                              *)
LEMMA StepTodo ==
    ASSUME TypesAnd, NEW p \in Tasks!Proc, Tasks!StepOf(p)
    PROVE  TodoSafe'
BY OwnTodo, LoadTodo, TestTodo, DelTodo, SweepTodo, KickTodo, LockTodo, DealTodo, PlainTodo DEF Tasks!StepOf

-----------------------------------------------------------------------------
(* Tunnels: types.                                                         *)

TaskRecord == [owner : Client \cup {Tasks!None}, status : BOOLEAN, noStore : BOOLEAN, born : 0 .. Requests]
MemoryOK ==
    /\ \E C \in SUBSET Client : clients \in [C -> BOOLEAN]
    /\ tasks \subseteq Tasks!Task
    /\ task \in [Tasks!Task -> TaskRecord]
    /\ lastId \in 0 .. MaxTask
RunningOK ==
    /\ runList \in [Tasks!Task -> 0 .. MaxServer]
    /\ server \in [Tasks!Server -> {Tasks!Gone} \cup [task : Tasks!Task, state : {"starting", "listening"}]]
    /\ \A t \in Tasks!Task : runList[t] # 0 => server[runList[t]].task \in {0, t}
FileOK(f) == /\ disk[f] \subseteq Tasks!Entry[f]
             /\ saving[f] = <<>> \/ (Len(saving[f]) = 1 /\ saving[f][1] \subseteq Tasks!Entry[f])
StoredOK == DOMAIN disk = Tasks!File /\ DOMAIN saving = Tasks!File /\ \A f \in Tasks!File : FileOK(f)
CountsOK ==
    /\ online \cup verified \subseteq Client
    /\ raced \in BOOLEAN /\ requests \in 0 .. Requests /\ crashes \in 0 .. Crashes
PartsOK == MemoryOK /\ RunningOK /\ StoredOK /\ CountsOK

LEMMA PartsAre ==
    /\ Tasks!TypeOK => PartsOK
    /\ PartsOK /\ Renaming => Tasks!TypeOK
<1>1. (\E C \in SUBSET Client : clients \in [C -> BOOLEAN]) <=> clients \in UNION {[C -> BOOLEAN] : C \in SUBSET Client}
  OBVIOUS
<1>2. Tasks!TypeOK => MemoryOK
  BY <1>1 DEF Tasks!TypeOK, MemoryOK, TaskRecord
<1>3. Tasks!TypeOK => RunningOK
  BY DEF Tasks!TypeOK, RunningOK
<1>4. Tasks!TypeOK => StoredOK
  BY DEF Tasks!TypeOK, StoredOK, FileOK
<1>5. Tasks!TypeOK => CountsOK
  BY DEF Tasks!TypeOK, CountsOK
<1>6. Renaming => \A f \in Tasks!File : {p \in Tasks!Proc : Tasks!At(p, "rename") /\ Tasks!Arg(p) = f} \in
                                          IF saving[f] = <<>> THEN {{}} ELSE {{p} : p \in Tasks!Proc}
  <2> SUFFICES ASSUME Renaming, NEW f \in Tasks!File
               PROVE  Renames(f) \in IF saving[f] = <<>> THEN {{}} ELSE {{p} : p \in Tasks!Proc}
    BY DEF Renames
  <2>1. IF saving[f] = <<>> THEN Renames(f) = {} ELSE \E p \in Tasks!Proc : Renames(f) = {p}
    BY DEF Renaming
  <2> QED BY <2>1
<1>7. ASSUME PartsOK, Renaming PROVE Tasks!TypeOK
  <2>1. MemoryOK /\ RunningOK /\ StoredOK /\ CountsOK
    BY <1>7 DEF PartsOK
  <2>2. /\ clients \in UNION {[C -> BOOLEAN] : C \in SUBSET Client}
        /\ tasks \subseteq Tasks!Task
        /\ task \in [Tasks!Task -> [owner : Client \cup {Tasks!None}, status : BOOLEAN, noStore : BOOLEAN, born : 0 .. Requests]]
        /\ lastId \in 0 .. MaxTask
    BY <1>1, <2>1 DEF MemoryOK, TaskRecord
  <2>3. /\ runList \in [Tasks!Task -> 0 .. MaxServer]
        /\ server \in [Tasks!Server -> {Tasks!Gone} \cup [task : Tasks!Task, state : {"starting", "listening"}]]
        /\ \A t \in Tasks!Task : runList[t] # 0 => server[runList[t]].task \in {0, t}
    BY <2>1 DEF RunningOK
  <2>4. DOMAIN disk = Tasks!File /\ DOMAIN saving = Tasks!File
        /\ \A f \in Tasks!File : /\ disk[f] \subseteq Tasks!Entry[f]
                                 /\ saving[f] = <<>> \/ (Len(saving[f]) = 1 /\ saving[f][1] \subseteq Tasks!Entry[f])
    BY <2>1 DEF StoredOK, FileOK
  <2>5. /\ online \cup verified \subseteq Client
        /\ raced \in BOOLEAN /\ requests \in 0 .. Requests /\ crashes \in 0 .. Crashes
    BY <2>1 DEF CountsOK
  <2>6. \A f \in Tasks!File :
          /\ disk[f] \subseteq Tasks!Entry[f]
          /\ saving[f] = <<>> \/ (Len(saving[f]) = 1 /\ saving[f][1] \subseteq Tasks!Entry[f])
          /\ {p \in Tasks!Proc : Tasks!At(p, "rename") /\ Tasks!Arg(p) = f} \in
               IF saving[f] = <<>> THEN {{}} ELSE {{p} : p \in Tasks!Proc}
    BY <1>6, <1>7, <2>4
  <2> QED BY <2>2, <2>3, <2>4, <2>5, <2>6, Zenon DEF Tasks!TypeOK
<1> QED BY <1>2, <1>3, <1>4, <1>5, <1>7 DEF PartsOK

(* What does not change keeps its type.                                    *)
LEMMA PartsStill ==
    /\ MemoryOK /\ UNCHANGED Tasks!memory => MemoryOK'
    /\ RunningOK /\ UNCHANGED Tasks!run => RunningOK'
    /\ StoredOK /\ UNCHANGED Tasks!files => StoredOK'
    /\ CountsOK /\ UNCHANGED Tasks!bridge /\ UNCHANGED Tasks!bounds => CountsOK'
<1>1. MemoryOK /\ UNCHANGED Tasks!memory => MemoryOK'
  BY DEF MemoryOK, Tasks!memory, Tasks!Task, TaskRecord
<1>2. RunningOK /\ UNCHANGED Tasks!run => RunningOK'
  BY DEF RunningOK, Tasks!run, Tasks!Task, Tasks!Server
<1>3. StoredOK /\ UNCHANGED Tasks!files => StoredOK'
  <2> SUFFICES ASSUME StoredOK, disk' = disk, saving' = saving PROVE StoredOK'
    BY DEF Tasks!files
  <2>1. \A f \in Tasks!File : FileOK(f)'
    BY DEF StoredOK, FileOK, Tasks!Entry, Tasks!Task
  <2> QED BY <2>1 DEF StoredOK, Tasks!File
<1>4. CountsOK /\ UNCHANGED Tasks!bridge /\ UNCHANGED Tasks!bounds => CountsOK'
  BY DEF CountsOK, Tasks!bridge, Tasks!bounds
<1> QED BY <1>1, <1>2, <1>3, <1>4

(* An object is made for the next id, or changed.                          *)
LEMMA TaskChanges ==
    ASSUME MemoryOK, NEW t \in Tasks!Task, NEW o \in TaskRecord, task' = [task EXCEPT ![t] = o],
           clients' = clients, tasks' \subseteq tasks \cup {t}, lastId' \in {lastId, t}
    PROVE  MemoryOK'
BY DEF MemoryOK, TaskRecord, Tasks!Task

LEMMA NewObject ==
    ASSUME TypesAnd, NEW c \in Client
    PROVE  /\ [Tasks!NoTask EXCEPT !.owner = c] \in TaskRecord
           /\ [Tasks!NoTask EXCEPT !.owner = c, !.noStore = TRUE] \in TaskRecord
<1>1. Tasks!NoTask \in TaskRecord
  BY DEF TypesAnd, TasksBounded, TaskRecord, Tasks!NoTask
<1>2. ASSUME NEW o \in TaskRecord
      PROVE  [o EXCEPT !.owner = c] \in TaskRecord /\ [o EXCEPT !.owner = c, !.noStore = TRUE] \in TaskRecord
  BY DEF TaskRecord
<1> QED BY <1>1, <1>2

LEMMA ObjectIs ==
    ASSUME TypesAnd, NEW t \in Tasks!Task
    PROVE  /\ task[t] \in TaskRecord
           /\ [task[t] EXCEPT !.status = TRUE] \in TaskRecord
           /\ [task[t] EXCEPT !.status = FALSE] \in TaskRecord
           /\ [task[t] EXCEPT !.status = TRUE, !.born = requests] \in TaskRecord
<1>1. requests \in 0 .. Requests /\ task \in [Tasks!Task -> TaskRecord]
  BY PartsAre DEF TypesAnd, PartsOK, MemoryOK, CountsOK
<1>2. ASSUME NEW o \in TaskRecord
      PROVE  /\ [o EXCEPT !.status = TRUE] \in TaskRecord /\ [o EXCEPT !.status = FALSE] \in TaskRecord
             /\ [o EXCEPT !.status = TRUE, !.born = requests] \in TaskRecord
  BY <1>1 DEF TaskRecord
<1>3. task[t] \in TaskRecord
  BY <1>1
<1> QED BY <1>2, <1>3

(* Requests.                                                               *)
Asks(a, c) ==
    \/ a \in Admin /\ Tasks!Command(a)
    \/ a \in Admin /\ c \in Client /\ (Tasks!Add(a, c) \/ Tasks!OwnAdd(a, c))
    \/ c \in Client /\ (Tasks!Config(c) \/ Tasks!CheckExpire(c))

LEMMA RequestTypes ==
    ASSUME TypesAnd, NEW a, NEW c, Asks(a, c)
    PROVE  PartsOK'
<1>1. PartsOK /\ Requests \in Nat /\ Tasks!Task \subseteq 0 .. MaxTask
  BY PartsAre DEF TypesAnd, TasksBounded, Tasks!Task
<1>2. /\ requests < Requests /\ requests' = requests + 1 /\ (\E p \in Tasks!Proc : raced' = (raced \/ Tasks!Busy(p)))
      /\ UNCHANGED <<Tasks!run, Tasks!files, Tasks!bridge, crashes>>
  <2>1. CASE a \in Admin /\ \E w : Tasks!Request(a, w)
    BY <2>1 DEF Tasks!Request, Tasks!Proc
  <2>2. CASE Tasks!Config(c) \/ Tasks!CheckExpire(c)
    BY <2>2 DEF Tasks!Config, Tasks!CheckExpire, Tasks!Proc
  <2> QED BY <2>1, <2>2 DEF Asks, Tasks!Command, Tasks!Add, Tasks!OwnAdd
<1>3. CountsOK'
  <2>1. requests' \in 0 .. Requests /\ raced' \in BOOLEAN
    BY <1>1, <1>2 DEF PartsOK, CountsOK
  <2> QED BY <1>1, <1>2, <2>1 DEF PartsOK, CountsOK, Tasks!bridge
<1>4. MemoryOK'
  <2>1. CASE UNCHANGED Tasks!memory
    BY <1>1, <2>1, PartsStill DEF PartsOK
  <2>2. CASE c \in Client /\ (Tasks!Add(a, c) \/ Tasks!Config(c))
    <3> SUFFICES ASSUME NEW t, t = lastId + 1 PROVE MemoryOK'
      OBVIOUS
    <3>1. /\ t \in Tasks!Task /\ lastId' = t /\ clients' = clients /\ tasks' = tasks
          /\ \/ task' = [task EXCEPT ![t] = IF t \in tasks THEN task[t] ELSE [Tasks!NoTask EXCEPT !.owner = c]]
             \/ task' = [task EXCEPT ![t] = IF t \in tasks THEN task[t] ELSE [Tasks!NoTask EXCEPT !.owner = c, !.noStore = TRUE]]
      BY <2>2 DEF Tasks!Add, Tasks!Config
    <3>2. PICK o \in TaskRecord : task' = [task EXCEPT ![t] = o]
      BY <2>2, <3>1, NewObject, ObjectIs
    <3> QED BY <1>1, <3>1, <3>2, TaskChanges DEF PartsOK
  <2> QED BY <2>1, <2>2 DEF Asks, Tasks!Command, Tasks!OwnAdd, Tasks!CheckExpire
<1> QED BY <1>1, <1>2, <1>3, <1>4, PartsStill DEF PartsOK

(* Steps.                                                                  *)
LEMMA MemoryStep ==
    ASSUME TypesAnd, NEW p \in Tasks!Proc,
           \/ Tasks!Own(p) \/ Tasks!Create(p) \/ Tasks!Enable(p) \/ Tasks!Unrun(p) \/ Tasks!Store(p) \/ Tasks!Drop(p)
           \/ Tasks!RemoveClient(p) \/ Tasks!Pause(p)
    PROVE  MemoryOK'
<1>1. MemoryOK /\ TodoOK
  BY PartsAre DEF TypesAnd, PartsOK, TodoSafe
<1> SUFFICES ASSUME NEW t, t = Tasks!Arg(p) PROVE MemoryOK'
  OBVIOUS
<1>2. \A d \in {"create", "enable", "unrun", "store"} : Tasks!At(p, d) => t \in Tasks!Task
  BY <1>1, Head1, Kinds3 DEF Next1
<1>3. CASE Tasks!Own(p)
  <2> SUFFICES ASSUME NEW u, u = lastId + 1 PROVE MemoryOK'
    OBVIOUS
  <2>1. /\ u \in Tasks!Task /\ lastId' = u /\ clients' = clients /\ tasks' = tasks /\ Tasks!At(p, "own")
        /\ task' = [task EXCEPT ![u] = IF u \in tasks THEN task[u] ELSE [Tasks!NoTask EXCEPT !.owner = t]]
    BY <1>3 DEF Tasks!Own
  <2>2. t \in Client
    BY <1>1, <2>1, Head1, Kinds3 DEF Next1
  <2>3. PICK o \in TaskRecord : task' = [task EXCEPT ![u] = o]
    BY <2>1, <2>2, NewObject, ObjectIs
  <2> QED BY <1>1, <2>1, <2>3, TaskChanges
<1>4. ASSUME NEW o, t \in Tasks!Task, o \in TaskRecord, task' = [task EXCEPT ![t] = o], clients' = clients,
             tasks' \subseteq tasks \cup {t}, lastId' = lastId
      PROVE  MemoryOK'
  BY <1>1, <1>4, TaskChanges
<1>5. t \in Tasks!Task =>
        /\ task[t] \in TaskRecord /\ [task[t] EXCEPT !.status = TRUE] \in TaskRecord
        /\ [task[t] EXCEPT !.status = FALSE] \in TaskRecord
        /\ [task[t] EXCEPT !.status = TRUE, !.born = requests] \in TaskRecord
  BY ObjectIs
<1>6. CASE Tasks!Create(p)
  <2>1. /\ clients' = clients /\ tasks' = tasks \cup {t} /\ lastId' = lastId /\ t \in Tasks!Task
    BY <1>2, <1>6 DEF Tasks!Create
  <2>2. task' = [task EXCEPT ![t] = [task[t] EXCEPT !.status = TRUE, !.born = requests]]
    BY <1>1, <1>6 DEF Tasks!Create, MemoryOK, TaskRecord
  <2> QED BY <1>4, <1>5, <2>1, <2>2
<1>7. CASE Tasks!Enable(p)
  <2>1. /\ clients' = clients /\ tasks' = tasks /\ lastId' = lastId /\ t \in Tasks!Task
        /\ task' = [task EXCEPT ![t] = [task[t] EXCEPT !.status = TRUE]]
    BY <1>2, <1>7 DEF Tasks!Enable
  <2> QED BY <1>4, <1>5, <2>1
<1>8. CASE Tasks!Unrun(p)
  <2>1. /\ clients' = clients /\ tasks' = tasks /\ lastId' = lastId /\ t \in Tasks!Task
        /\ task' = task \/ task' = [task EXCEPT ![t] = [task[t] EXCEPT !.status = FALSE]]
    BY <1>2, <1>8 DEF Tasks!Unrun
  <2>2. task' = task => MemoryOK'
    BY <1>1, <2>1, PartsStill DEF Tasks!memory
  <2> QED BY <1>4, <1>5, <2>1, <2>2
<1>9. CASE Tasks!Store(p) \/ Tasks!Drop(p)
  <2>1. /\ clients' = clients /\ tasks' \subseteq Tasks!Task /\ lastId' = lastId /\ task' = task
    BY <1>1, <1>2, <1>9 DEF Tasks!Store, Tasks!Drop, MemoryOK
  <2> QED BY <1>1, <2>1 DEF MemoryOK, Tasks!Task, TaskRecord
<1>10. CASE Tasks!RemoveClient(p) \/ Tasks!Pause(p)
  <2>1. PICK C \in SUBSET Client : clients \in [C -> BOOLEAN]
    BY <1>1 DEF MemoryOK
  <2>2. clients' \in [C -> BOOLEAN] \/ clients' \in [C \ {t} -> BOOLEAN]
    BY <1>10, <2>1 DEF Tasks!RemoveClient, Tasks!Pause
  <2>3. \E D \in SUBSET Client : clients' \in [D -> BOOLEAN]
    BY <2>2
  <2>4. tasks' = tasks /\ task' = task /\ lastId' = lastId
    BY <1>10 DEF Tasks!RemoveClient, Tasks!Pause
  <2> QED BY <1>1, <2>3, <2>4 DEF MemoryOK, Tasks!Task, TaskRecord
<1> QED BY <1>3, <1>6, <1>7, <1>8, <1>9, <1>10

(* The list of servers and the servers.                                    *)
LEMMA RunningStep ==
    ASSUME TypesAnd
    PROVE  /\ \A p \in Tasks!Proc : Tasks!Run(p) \/ Tasks!CloseServer(p) \/ Tasks!Unrun(p) => RunningOK'
           /\ \A s \in Tasks!Server : Tasks!Listen(s) => RunningOK'
<1>1. RunningOK /\ TodoOK
  BY PartsAre DEF TypesAnd, PartsOK, TodoSafe
<1>2. /\ runList \in [Tasks!Task -> 0 .. MaxServer]
      /\ server \in [Tasks!Server -> {Tasks!Gone} \cup [task : Tasks!Task, state : {"starting", "listening"}]]
      /\ \A t \in Tasks!Task : runList[t] # 0 => runList[t] \in Tasks!Server /\ server[runList[t]].task \in {0, t}
      /\ Tasks!Server \subseteq 1 .. MaxServer /\ MaxServer \in Nat
  BY <1>1 DEF RunningOK, Tasks!Server, TypesAnd, TasksBounded
<1>3. /\ Tasks!Gone.task = 0 /\ Tasks!Gone.state = "none"
      /\ \A s \in Tasks!Server : server[s] # Tasks!Gone => server[s].task \in Tasks!Task /\ server[s].state \in {"starting", "listening"}
      /\ \A t \in Tasks!Task, x \in {"starting", "listening"} : [task |-> t, state |-> x].task = t
  BY <1>2 DEF Tasks!Gone
<1>4. ASSUME NEW R, NEW S, R \in [Tasks!Task -> 0 .. MaxServer],
             S \in [Tasks!Server -> {Tasks!Gone} \cup [task : Tasks!Task, state : {"starting", "listening"}]],
             \A t \in Tasks!Task : R[t] # 0 => S[R[t]].task \in {0, t},
             runList' = R, server' = S
      PROVE  RunningOK'
  BY <1>4 DEF RunningOK, Tasks!Task, Tasks!Server
<1>5. ASSUME NEW p \in Tasks!Proc, Tasks!Run(p) PROVE RunningOK'
  <2>1. PICK s, t : /\ s \in {x \in Tasks!Server : server[x] = Tasks!Gone /\ \A u \in Tasks!Task : runList[u] # x}
                    /\ t = Tasks!Arg(p) /\ runList' = [runList EXCEPT ![t] = s]
                    /\ server' = [server EXCEPT ![s] = [task |-> t, state |-> "starting"]]
    BY <1>5 DEF Tasks!Run
  <2>2. t \in Tasks!Task
    <3>1. Tasks!At(p, "run")
      BY <1>5 DEF Tasks!Run
    <3> QED BY <1>1, <2>1, <3>1, Head1, Kinds3 DEF Next1
  <2> DEFINE R == [runList EXCEPT ![t] = s]
             S == [server EXCEPT ![s] = [task |-> t, state |-> "starting"]]
  <2>3. R \in [Tasks!Task -> 0 .. MaxServer] /\ R[t] = s /\ \A u \in Tasks!Task \ {t} : R[u] = runList[u] /\ R[u] # s
    BY <1>2, <2>1, <2>2
  <2>4. /\ S \in [Tasks!Server -> {Tasks!Gone} \cup [task : Tasks!Task, state : {"starting", "listening"}]]
        /\ S[s].task = t /\ \A x \in Tasks!Server \ {s} : S[x] = server[x]
    BY <1>2, <2>1, <2>2
  <2> HIDE DEF R, S
  <2>5. \A u \in Tasks!Task : R[u] # 0 => S[R[u]].task \in {0, u}
    BY <1>2, <2>3, <2>4
  <2> QED BY <1>4, <2>1, <2>3, <2>4, <2>5 DEF R, S
<1>6. ASSUME NEW s \in Tasks!Server, NEW S, S = [server EXCEPT ![s] = Tasks!Gone] PROVE
        /\ S \in [Tasks!Server -> {Tasks!Gone} \cup [task : Tasks!Task, state : {"starting", "listening"}]]
        /\ \A t \in Tasks!Task : runList[t] # 0 => S[runList[t]].task \in {0, t}
  BY <1>2, <1>3, <1>6
<1>7. ASSUME NEW t \in Tasks!Task, NEW R, R = [runList EXCEPT ![t] = 0], NEW S, \A u \in Tasks!Task : runList[u] # 0 => S[runList[u]].task \in {0, u}
      PROVE  R \in [Tasks!Task -> 0 .. MaxServer] /\ \A u \in Tasks!Task : R[u] # 0 => S[R[u]].task \in {0, u}
  BY <1>2, <1>7
<1>8. ASSUME NEW p \in Tasks!Proc, Tasks!CloseServer(p) PROVE RunningOK'
  <2>1. runList' = runList /\ Tasks!At(p, "close")
    BY <1>8 DEF Tasks!CloseServer
  <2>2. Tasks!Arg(p) \in Tasks!Task
    BY <1>1, <2>1, Head1, Kinds3 DEF Next1
  <2>3. CASE server' = server
    BY <1>1, <2>1, <2>3, PartsStill DEF Tasks!run
  <2>4. CASE server' # server
    <3>1. PICK s \in Tasks!Server : server' = [server EXCEPT ![s] = Tasks!Gone]
      BY <1>2, <1>8, <2>2, <2>4 DEF Tasks!CloseServer
    <3> QED BY <1>2, <1>4, <1>6, <2>1, <3>1
  <2> QED BY <2>3, <2>4
<1>9. ASSUME NEW p \in Tasks!Proc, Tasks!Unrun(p) PROVE RunningOK'
  <2>1. runList' = [runList EXCEPT ![Tasks!Arg(p)] = 0] /\ server' = server /\ Tasks!At(p, "unrun")
    BY <1>9 DEF Tasks!Unrun
  <2>2. Tasks!Arg(p) \in Tasks!Task
    BY <1>1, <2>1, Head1, Kinds3 DEF Next1
  <2> QED BY <1>2, <1>4, <1>7, <2>1, <2>2
<1>10. ASSUME NEW s \in Tasks!Server, Tasks!Listen(s) PROVE RunningOK'
  <2> SUFFICES ASSUME NEW t, t = server[s].task PROVE RunningOK'
    OBVIOUS
  <2>1. server[s].state = "starting" /\ t \in Tasks!Task
    BY <1>3, <1>10 DEF Tasks!Listen
  <2>2. CASE server' = [server EXCEPT ![s] = Tasks!Gone] /\ runList' = [runList EXCEPT ![t] = 0]
    <3> DEFINE S == [server EXCEPT ![s] = Tasks!Gone]
               R == [runList EXCEPT ![t] = 0]
    <3>1. /\ S \in [Tasks!Server -> {Tasks!Gone} \cup [task : Tasks!Task, state : {"starting", "listening"}]]
          /\ \A u \in Tasks!Task : runList[u] # 0 => S[runList[u]].task \in {0, u}
      BY <1>6
    <3>2. R \in [Tasks!Task -> 0 .. MaxServer] /\ \A u \in Tasks!Task : R[u] # 0 => S[R[u]].task \in {0, u}
      BY <1>7, <2>1, <3>1
    <3> HIDE DEF R, S
    <3> QED BY <1>4, <2>2, <3>1, <3>2 DEF R, S
  <2>3. CASE server' = [server EXCEPT ![s].state = "listening"] /\ runList' = runList
    <3> DEFINE S == [server EXCEPT ![s].state = "listening"]
    <3>1. server[s] \in [task : Tasks!Task, state : {"starting", "listening"}]
      BY <1>2, <1>3, <2>1
    <3>2. [server[s] EXCEPT !.state = "listening"] \in [task : Tasks!Task, state : {"starting", "listening"}]
          /\ [server[s] EXCEPT !.state = "listening"].task = server[s].task
      BY <3>1
    <3>3. S \in [Tasks!Server -> {Tasks!Gone} \cup [task : Tasks!Task, state : {"starting", "listening"}]]
          /\ \A x \in Tasks!Server : S[x].task = server[x].task
      BY <1>2, <3>2
    <3> HIDE DEF S
    <3>4. \A u \in Tasks!Task : runList[u] # 0 => S[runList[u]].task \in {0, u}
      BY <1>2, <3>3
    <3> QED BY <1>2, <1>4, <2>3, <3>3, <3>4 DEF S
  <2> QED BY <1>10, <2>2, <2>3 DEF Tasks!Listen
<1> QED BY <1>5, <1>8, <1>9, <1>10

(* What is written.                                                        *)
LEMMA ContentTypes ==
    ASSUME TypesAnd, NEW f \in Tasks!File
    PROVE  Tasks!Content(f) \subseteq Tasks!Entry[f]
<1>1. MemoryOK
  BY PartsAre DEF TypesAnd, PartsOK
<1>2. CASE f = "tasks"
  <2>1. Tasks!Content(f) = {<<t, task[t].owner, task[t].status>> : t \in {x \in tasks : ~task[x].noStore}}
    BY <1>2 DEF Tasks!Content
  <2>2. Tasks!Entry[f] = Tasks!Task \X (Client \cup {Tasks!None}) \X BOOLEAN
    BY <1>2 DEF Tasks!Entry
  <2>3. \A t \in tasks : t \in Tasks!Task /\ task[t].owner \in Client \cup {Tasks!None} /\ task[t].status \in BOOLEAN
    BY <1>1 DEF MemoryOK, TaskRecord
  <2> QED BY <2>1, <2>2, <2>3
<1>3. CASE f = "clients"
  <2>1. Tasks!Content(f) = {<<c, clients[c]>> : c \in DOMAIN clients}
    BY <1>3 DEF Tasks!Content
  <2>2. Tasks!Entry[f] = Client \X BOOLEAN
    BY <1>3 DEF Tasks!Entry
  <2>3. \A c \in DOMAIN clients : c \in Client /\ clients[c] \in BOOLEAN
    BY <1>1 DEF MemoryOK
  <2> QED BY <2>1, <2>2, <2>3
<1> QED BY <1>2, <1>3 DEF Tasks!File

LEMMA StoredStep ==
    ASSUME TypesAnd, NEW p \in Tasks!Proc, Tasks!Snapshot(p) \/ Tasks!Rename(p)
    PROVE  StoredOK'
<1>1. StoredOK /\ TodoOK /\ Renaming
  BY PartsAre DEF TypesAnd, PartsOK, TodoSafe
<1> SUFFICES ASSUME NEW f, f = Tasks!Arg(p) PROVE StoredOK'
  OBVIOUS
<1>2. f \in Tasks!File
  BY <1>1, Head1, Kinds3 DEF Next1, Tasks!Snapshot, Tasks!Rename
<1>3. DOMAIN disk = Tasks!File /\ DOMAIN saving = Tasks!File
      /\ \A g \in Tasks!File : /\ disk[g] \subseteq Tasks!Entry[g]
                               /\ saving[g] = <<>> \/ (Len(saving[g]) = 1 /\ saving[g][1] \subseteq Tasks!Entry[g])
  BY <1>1 DEF StoredOK, FileOK
<1>4. CASE Tasks!Snapshot(p)
  <2>1. PICK x \in SUBSET Tasks!Entry[f] : saving' = [saving EXCEPT ![f] = <<x>>] /\ disk' = disk
    BY <1>2, <1>4, ContentTypes DEF Tasks!Snapshot
  <2>2. saving'[f] = <<x>> /\ \A g \in Tasks!File \ {f} : saving'[g] = saving[g]
    BY <1>2, <1>3, <2>1
  <2>3. Len(<<x>>) = 1 /\ <<x>>[1] = x
    OBVIOUS
  <2>4. DOMAIN saving' = Tasks!File /\ DOMAIN disk' = Tasks!File
    BY <1>3, <2>1
  <2>5. \A g \in Tasks!File : FileOK(g)'
    <3> SUFFICES ASSUME NEW g \in Tasks!File PROVE FileOK(g)'
      OBVIOUS
    <3>1. /\ disk'[g] \subseteq Tasks!Entry[g]
          /\ saving'[g] = <<>> \/ (Len(saving'[g]) = 1 /\ saving'[g][1] \subseteq Tasks!Entry[g])
      BY <1>3, <2>1, <2>2, <2>3
    <3> QED BY <3>1 DEF FileOK, Tasks!Entry, Tasks!Task
  <2> QED BY <2>4, <2>5 DEF StoredOK, Tasks!File
<1>5. CASE Tasks!Rename(p)
  <2>1. saving' = [saving EXCEPT ![f] = <<>>] /\ disk' = [disk EXCEPT ![f] = saving[f][1]]
    BY <1>5 DEF Tasks!Rename
  <2>2. saving[f] # <<>>
    BY <1>1, <1>3, <1>5, RenamingGiven DEF Tasks!Rename
  <2>3. saving'[f] = <<>> /\ disk'[f] = saving[f][1]
        /\ \A g \in Tasks!File \ {f} : saving'[g] = saving[g] /\ disk'[g] = disk[g]
    BY <1>2, <1>3, <2>1
  <2>4. DOMAIN saving' = Tasks!File /\ DOMAIN disk' = Tasks!File
    BY <1>3, <2>1
  <2>5. \A g \in Tasks!File : FileOK(g)'
    <3> SUFFICES ASSUME NEW g \in Tasks!File PROVE FileOK(g)'
      OBVIOUS
    <3>1. /\ disk'[g] \subseteq Tasks!Entry[g]
          /\ saving'[g] = <<>> \/ (Len(saving'[g]) = 1 /\ saving'[g][1] \subseteq Tasks!Entry[g])
      BY <1>3, <2>2, <2>3
    <3> QED BY <3>1 DEF FileOK, Tasks!Entry, Tasks!Task
  <2> QED BY <2>4, <2>5 DEF StoredOK, Tasks!File
<1> QED BY <1>4, <1>5

LEMMA BridgeStep ==
    ASSUME TypesAnd
    PROVE  /\ \A p \in Tasks!Proc : Tasks!Kick(p) \/ Tasks!Deal(p) => CountsOK'
           /\ \A c \in Client : Tasks!Verify(c) \/ Tasks!Register(c) => CountsOK'
<1>1. CountsOK
  BY PartsAre DEF TypesAnd, PartsOK
<1>2. ASSUME NEW p \in Tasks!Proc, Tasks!Kick(p) PROVE CountsOK'
  BY <1>1, <1>2 DEF CountsOK, Tasks!Kick, Tasks!bounds
<1>3. ASSUME NEW p \in Tasks!Proc, Tasks!Deal(p) PROVE CountsOK'
  <2>1. raced' \in BOOLEAN /\ requests' = requests /\ crashes' = crashes /\ online' = online /\ verified' = verified
    BY <1>1, <1>3 DEF CountsOK, Tasks!Deal, Tasks!bridge
  <2> QED BY <1>1, <2>1 DEF CountsOK
<1>4. ASSUME NEW c \in Client, Tasks!Verify(c) \/ Tasks!Register(c) PROVE CountsOK'
  BY <1>1, <1>4 DEF CountsOK, Tasks!Verify, Tasks!Register, Tasks!bounds
<1> QED BY <1>2, <1>3, <1>4

(* Whatever a goroutine does.                                              *)
LEMMA StepTypes ==
    ASSUME TypesAnd, NEW p \in Tasks!Proc, Tasks!StepOf(p)
    PROVE  PartsOK'
<1>1. PartsOK
  BY PartsAre DEF TypesAnd
<1>2. MemoryOK'
  <2>1. \/ Tasks!Own(p) \/ Tasks!Create(p) \/ Tasks!Enable(p) \/ Tasks!Unrun(p) \/ Tasks!Store(p) \/ Tasks!Drop(p)
        \/ Tasks!RemoveClient(p) \/ Tasks!Pause(p)
        \/ UNCHANGED Tasks!memory
    BY DEF Tasks!StepOf, Tasks!Get, Tasks!Test, Tasks!Load, Tasks!Run, Tasks!CloseServer, Tasks!Del, Tasks!Snapshot,
           Tasks!Rename, Tasks!Sweep, Tasks!Kick, Tasks!Deal
  <2> QED BY <1>1, <2>1, MemoryStep, PartsStill DEF PartsOK
<1>3. RunningOK'
  <2>1. Tasks!Run(p) \/ Tasks!CloseServer(p) \/ Tasks!Unrun(p) \/ UNCHANGED Tasks!run
    BY DEF Tasks!StepOf, Tasks!Get, Tasks!Test, Tasks!Load, Tasks!Own, Tasks!Create, Tasks!Del, Tasks!Snapshot,
           Tasks!Rename, Tasks!Sweep, Tasks!Kick, Tasks!Deal, Tasks!Enable, Tasks!Store, Tasks!Drop, Tasks!RemoveClient,
           Tasks!Pause
  <2> QED BY <1>1, <2>1, RunningStep, PartsStill DEF PartsOK
<1>4. StoredOK'
  <2>1. Tasks!Snapshot(p) \/ Tasks!Rename(p) \/ UNCHANGED Tasks!files
    BY DEF Tasks!StepOf, Tasks!Get, Tasks!Test, Tasks!Load, Tasks!Own, Tasks!Create, Tasks!Del, Tasks!Run,
           Tasks!CloseServer, Tasks!Unrun, Tasks!Sweep, Tasks!Kick, Tasks!Deal, Tasks!Enable, Tasks!Store, Tasks!Drop,
           Tasks!RemoveClient, Tasks!Pause
  <2> QED BY <1>1, <2>1, StoredStep, PartsStill DEF PartsOK
<1>5. CountsOK'
  <2>1. Tasks!Kick(p) \/ Tasks!Deal(p) \/ (UNCHANGED Tasks!bridge /\ UNCHANGED Tasks!bounds)
    BY DEF Tasks!StepOf, Tasks!Get, Tasks!Test, Tasks!Load, Tasks!Own, Tasks!Create, Tasks!Del, Tasks!Run,
           Tasks!CloseServer, Tasks!Unrun, Tasks!Sweep, Tasks!Enable, Tasks!Store, Tasks!Drop,
           Tasks!RemoveClient, Tasks!Pause, Tasks!Snapshot, Tasks!Rename
  <2> QED BY <1>1, <2>1, BridgeStep, PartsStill DEF PartsOK
<1> QED BY <1>2, <1>3, <1>4, <1>5 DEF PartsOK

-----------------------------------------------------------------------------
(* Tunnels: clients never come back.                                       *)

LEMMA ClientsSame ==
    ASSUME ClientsKept, DOMAIN clients' \subseteq DOMAIN clients,
           disk'["clients"] = disk["clients"], saving'["clients"] = saving["clients"]
    PROVE  ClientsKept'
BY DEF ClientsKept

LEMMA ClientsStep ==
    ASSUME TypesAnd, ClientsKept, NEW p \in Tasks!Proc, Tasks!StepOf(p)
    PROVE  /\ ClientsKept' /\ DOMAIN clients' \subseteq DOMAIN clients
           /\ Ids(disk'["clients"]) \subseteq Ids(disk["clients"])
<1>1. StoredOK /\ MemoryOK /\ TodoOK /\ Renaming
  BY PartsAre DEF TypesAnd, PartsOK, TodoSafe
<1>2. DOMAIN disk = Tasks!File /\ DOMAIN saving = Tasks!File /\ "clients" \in Tasks!File
  BY <1>1 DEF StoredOK, Tasks!File
<1>3. CASE Tasks!Snapshot(p) \/ Tasks!Rename(p)
  <2> SUFFICES ASSUME NEW f, f = Tasks!Arg(p)
               PROVE  ClientsKept' /\ DOMAIN clients' \subseteq DOMAIN clients
                      /\ Ids(disk'["clients"]) \subseteq Ids(disk["clients"])
    OBVIOUS
  <2>1. f \in Tasks!File /\ clients' = clients
    BY <1>1, <1>3, Head1, Kinds3 DEF Next1, Tasks!Snapshot, Tasks!Rename, Tasks!memory
  <2>2. CASE f # "clients"
    <3>1. disk'["clients"] = disk["clients"] /\ saving'["clients"] = saving["clients"]
      BY <1>2, <1>3, <2>1, <2>2 DEF Tasks!Snapshot, Tasks!Rename
    <3> QED BY <2>1, <3>1, ClientsSame
  <2>3. CASE f = "clients" /\ Tasks!Snapshot(p)
    <3>1. disk' = disk /\ saving'["clients"] = <<Tasks!Content("clients")>>
      BY <1>2, <2>1, <2>3 DEF Tasks!Snapshot
    <3>2. Tasks!Content("clients") = {<<c, clients[c]>> : c \in DOMAIN clients}
      BY DEF Tasks!Content
    <3>3. Ids(Tasks!Content("clients")) = DOMAIN clients
      <4>1. \A e \in Tasks!Content("clients") : e[1] \in DOMAIN clients
        BY <3>2
      <4>2. ASSUME NEW c \in DOMAIN clients PROVE \E e \in Tasks!Content("clients") : e[1] = c
        <5>1. <<c, clients[c]>> \in Tasks!Content("clients") /\ <<c, clients[c]>>[1] = c
          BY <3>2
        <5> QED BY <5>1
      <4> QED BY <4>1, <4>2 DEF Ids
    <3>4. saving'["clients"][1] = Tasks!Content("clients")
      BY <3>1
    <3> QED BY <2>1, <3>1, <3>3, <3>4 DEF ClientsKept
  <2>4. CASE f = "clients" /\ Tasks!Rename(p)
    <3>1. disk'["clients"] = saving["clients"][1] /\ saving'["clients"] = <<>>
      BY <1>2, <2>1, <2>4 DEF Tasks!Rename
    <3>2. saving["clients"] # <<>>
      BY <1>1, <1>2, <2>4, RenamingGiven DEF Tasks!Rename
    <3> QED BY <2>1, <3>1, <3>2 DEF ClientsKept
  <2> QED BY <1>3, <2>2, <2>3, <2>4
<1>4. CASE ~(Tasks!Snapshot(p) \/ Tasks!Rename(p))
  <2>1. UNCHANGED Tasks!files
    BY <1>4 DEF Tasks!StepOf, Tasks!Get, Tasks!Test, Tasks!Load, Tasks!Own, Tasks!Create, Tasks!Del, Tasks!Run,
           Tasks!CloseServer, Tasks!Unrun, Tasks!Sweep, Tasks!Kick, Tasks!Deal, Tasks!Enable, Tasks!Store, Tasks!Drop,
           Tasks!RemoveClient, Tasks!Pause
  <2>2. Tasks!RemoveClient(p) \/ Tasks!Pause(p) \/ clients' = clients
    BY <1>4 DEF Tasks!StepOf, Tasks!Get, Tasks!Test, Tasks!Load, Tasks!Own, Tasks!Create, Tasks!Del, Tasks!Run,
           Tasks!CloseServer, Tasks!Unrun, Tasks!Sweep, Tasks!Kick, Tasks!Deal, Tasks!Enable, Tasks!Store, Tasks!Drop,
           Tasks!memory
  <2>3. DOMAIN clients' \subseteq DOMAIN clients
    BY <2>2 DEF Tasks!RemoveClient, Tasks!Pause
  <2> QED BY <2>1, <2>3, ClientsSame DEF Tasks!files
<1> QED BY <1>3, <1>4

-----------------------------------------------------------------------------
(* Tunnels: the file of tasks.                                             *)

LEMMA ContentIs == Tasks!Content("tasks") = {<<t, task[t].owner, task[t].status>> : t \in {x \in tasks : ~task[x].noStore}}
BY DEF Tasks!Content

LEMMA ContentSame ==
    ASSUME tasks' = tasks, \A t \in tasks : task'[t] = task[t]
    PROVE  Tasks!Content("tasks")' = Tasks!Content("tasks")
<1>1. Tasks!Content("tasks")' = {<<t, task'[t].owner, task'[t].status>> : t \in {x \in tasks' : ~task'[x].noStore}}
  BY DEF Tasks!Content
<1>2. {x \in tasks' : ~task'[x].noStore} = {x \in tasks : ~task[x].noStore}
  OBVIOUS
<1> QED BY <1>1, <1>2, ContentIs

(* What can be loaded back can still be.                                   *)
LEMMA FitsStill ==
    ASSUME TypesAnd, NEW x, x \subseteq Tasks!Entry["tasks"], Fits(x, disk["clients"], task, lastId),
           Ids(disk'["clients"]) \subseteq Ids(disk["clients"]), lastId' \in Nat, lastId <= lastId',
           \A t \in Tasks!Task : t <= lastId => task'[t].noStore = task[t].noStore
    PROVE  Fits(x, disk'["clients"], task', lastId')
<1>1. lastId \in Nat /\ Tasks!Task \subseteq Nat
  BY DEF TypesAnd, Tasks!TypeOK, TasksBounded, Tasks!Task
<1>2. \A e \in x : e[1] \in Tasks!Task
  BY DEF Tasks!Entry
<1>3. \A e \in x : e[2] \in Ids(disk["clients"]) => ~task[e[1]].noStore /\ e[1] <= lastId
  BY DEF Fits
<1>4. ASSUME NEW e \in x, e[2] \in Ids(disk'["clients"]) PROVE ~task'[e[1]].noStore /\ e[1] <= lastId'
  <2>1. ~task[e[1]].noStore /\ e[1] <= lastId /\ e[1] \in Tasks!Task
    BY <1>2, <1>3, <1>4
  <2>2. task'[e[1]].noStore = task[e[1]].noStore
    BY <2>1
  <2>3. e[1] <= lastId'
    <3> SUFFICES ASSUME NEW n \in Nat, n = e[1], n <= lastId PROVE n <= lastId'
      BY <1>1, <2>1
    <3> QED BY <1>1
  <2> QED BY <2>1, <2>2, <2>3
<1>5. \A e, f \in x : e[1] = f[1] => e = f
  BY DEF Fits
<1> QED BY <1>4, <1>5 DEF Fits

(* A step that is no end of a saving keeps the files ...                   *)
Grown ==
    /\ Ids(disk'["clients"]) \subseteq Ids(disk["clients"]) /\ lastId' \in Nat /\ lastId <= lastId'
    /\ \A t \in Tasks!Task : t <= lastId => task'[t].noStore = task[t].noStore
    /\ disk'["tasks"] = disk["tasks"] /\ saving'["tasks"] = saving["tasks"]

LEMMA FitsBoth ==
    ASSUME TypesAnd, Kept, Grown
    PROVE  /\ Fits(disk'["tasks"], disk'["clients"], task', lastId')
           /\ saving'["tasks"] # <<>> => Fits(saving'["tasks"][1], disk'["clients"], task', lastId')
<1>1. StoredOK /\ "tasks" \in Tasks!File
  BY PartsAre DEF TypesAnd, PartsOK, Tasks!File
<1>2. disk["tasks"] \subseteq Tasks!Entry["tasks"] /\ (saving["tasks"] # <<>> => saving["tasks"][1] \subseteq Tasks!Entry["tasks"])
  BY <1>1 DEF StoredOK, FileOK
<1>3. /\ Fits(disk["tasks"], disk["clients"], task, lastId)
      /\ saving["tasks"] # <<>> => Fits(saving["tasks"][1], disk["clients"], task, lastId)
  BY DEF Kept, Loadable
<1>4. ASSUME NEW x, x \subseteq Tasks!Entry["tasks"], Fits(x, disk["clients"], task, lastId)
      PROVE  Fits(x, disk'["clients"], task', lastId')
  BY <1>4, FitsStill DEF Grown
<1>5. Fits(disk["tasks"], disk'["clients"], task', lastId')
  BY <1>2, <1>3, <1>4
<1>6. saving["tasks"] # <<>> => Fits(saving["tasks"][1], disk'["clients"], task', lastId')
  BY <1>2, <1>3, <1>4
<1> QED BY <1>5, <1>6 DEF Grown

(* ... if nothing about the tasks to be stored changes, ...                *)
LEMMA KeptSame ==
    ASSUME TypesAnd, Kept, Grown, DOMAIN clients' \subseteq DOMAIN clients,
           Tasks!Content("tasks")' = Tasks!Content("tasks"),
           (\E q \in Tasks!Proc : Owes(q)) => \E q \in Tasks!Proc : Owes(q)'
    PROVE  Kept'
<1>1. /\ Fits(disk'["tasks"], disk'["clients"], task', lastId')
      /\ saving'["tasks"] # <<>> => Fits(saving'["tasks"][1], disk'["clients"], task', lastId')
  BY FitsBoth
<1>2. ASSUME NEW x, Covers(x, Tasks!Content("tasks"), DOMAIN clients)
      PROVE  Covers(x, Tasks!Content("tasks")', DOMAIN clients')
  BY <1>2 DEF Covers
<1>3. \/ \E q \in Tasks!Proc : Owes(q)
      \/ saving["tasks"] = <<>> /\ Covers(disk["tasks"], Tasks!Content("tasks"), DOMAIN clients)
      \/ saving["tasks"] # <<>> /\ Covers(saving["tasks"][1], Tasks!Content("tasks"), DOMAIN clients)
  BY DEF Kept, Good
<1>4. \/ \E q \in Tasks!Proc : Owes(q)'
      \/ saving'["tasks"] = <<>> /\ Covers(disk'["tasks"], Tasks!Content("tasks")', DOMAIN clients')
      \/ saving'["tasks"] # <<>> /\ Covers(saving'["tasks"][1], Tasks!Content("tasks")', DOMAIN clients')
  <2>1. CASE saving["tasks"] = <<>> /\ Covers(disk["tasks"], Tasks!Content("tasks"), DOMAIN clients)
    BY <1>2, <2>1 DEF Grown
  <2>2. CASE saving["tasks"] # <<>> /\ Covers(saving["tasks"][1], Tasks!Content("tasks"), DOMAIN clients)
    BY <1>2, <2>2 DEF Grown
  <2> QED BY <1>3, <2>1, <2>2
<1> QED BY <1>1, <1>4 DEF Kept, Good, Loadable, Tasks!Proc

(* ... or somebody is about to save them.                                  *)
LEMMA KeptOwed ==
    ASSUME TypesAnd, Kept, Grown, NEW q \in Tasks!Proc, Owes(q)'
    PROVE  Kept'
<1>1. /\ Fits(disk'["tasks"], disk'["clients"], task', lastId')
      /\ saving'["tasks"] # <<>> => Fits(saving'["tasks"][1], disk'["clients"], task', lastId')
  BY FitsBoth
<1> QED BY <1>1 DEF Kept, Loadable, Tasks!Proc

OwesIt(s) == s # <<>> /\ (s[1].do = "store" \/ (s[1].do = "snapshot" /\ s[1].arg = "tasks"))

LEMMA OwesIs == \A q : (Owes(q) <=> OwesIt(todo[q])) /\ (Owes(q)' <=> OwesIt(todo'[q]))
BY DEF Owes, OwesIt, Tasks!At, Tasks!Arg, Tasks!Idle, Tasks!Head1

(* Who owes it still does when another goes on.                            *)
LEMMA OwesStill ==
    ASSUME NEW p \in Tasks!Proc, \A q \in Tasks!Proc \ {p} : todo[q] # <<>> => todo'[q] = todo[q], ~OwesIt(todo[p])
    PROVE  (\E q \in Tasks!Proc : Owes(q)) => \E q \in Tasks!Proc : Owes(q)'
<1> SUFFICES ASSUME NEW q \in Tasks!Proc, Owes(q) PROVE Owes(q)'
  OBVIOUS
<1>1. OwesIt(todo[q]) /\ q # p /\ todo[q] # <<>>
  BY OwesIs DEF OwesIt
<1> QED BY <1>1, OwesIs

(* What each step does to the files, the object of each task and the tasks.*)
LEMMA GrownStep ==
    ASSUME TypesAnd, ClientsKept, NEW p \in Tasks!Proc, Tasks!StepOf(p),
           ~(Tasks!Snapshot(p) /\ Tasks!Arg(p) = "tasks"), ~(Tasks!Rename(p) /\ Tasks!Arg(p) = "tasks")
    PROVE  Grown
<1>1. Ids(disk'["clients"]) \subseteq Ids(disk["clients"])
  BY ClientsStep
<1>2. StoredOK /\ MemoryOK /\ TodoOK
  BY PartsAre DEF TypesAnd, PartsOK, TodoSafe
<1>3. disk'["tasks"] = disk["tasks"] /\ saving'["tasks"] = saving["tasks"]
  <2>1. CASE Tasks!Snapshot(p) \/ Tasks!Rename(p)
    <3>1. Tasks!Arg(p) \in Tasks!File /\ Tasks!Arg(p) # "tasks"
      BY <1>2, <2>1, Head1, Kinds3 DEF Next1, Tasks!Snapshot, Tasks!Rename
    <3> QED BY <1>2, <2>1, <3>1 DEF Tasks!Snapshot, Tasks!Rename, StoredOK, Tasks!File
  <2>2. CASE ~(Tasks!Snapshot(p) \/ Tasks!Rename(p))
    <3>1. UNCHANGED Tasks!files
      BY <2>2 DEF Tasks!StepOf, Tasks!Get, Tasks!Test, Tasks!Load, Tasks!Own, Tasks!Create, Tasks!Del, Tasks!Run,
             Tasks!CloseServer, Tasks!Unrun, Tasks!Sweep, Tasks!Kick, Tasks!Deal, Tasks!Enable, Tasks!Store, Tasks!Drop,
             Tasks!RemoveClient, Tasks!Pause
    <3> QED BY <3>1 DEF Tasks!files
  <2> QED BY <2>1, <2>2
<1>4. lastId \in Nat /\ task \in [Tasks!Task -> TaskRecord]
  BY <1>2 DEF MemoryOK, TypesAnd, TasksBounded
<1>5. /\ lastId' \in Nat /\ lastId <= lastId'
      /\ \A t \in Tasks!Task : t <= lastId => task'[t].noStore = task[t].noStore
  <2>1. CASE Tasks!Own(p)
    <3> SUFFICES ASSUME NEW u, u = lastId + 1
                 PROVE  /\ lastId' \in Nat /\ lastId <= lastId'
                        /\ \A t \in Tasks!Task : t <= lastId => task'[t].noStore = task[t].noStore
      OBVIOUS
    <3>1. lastId' = u /\ u \in Tasks!Task
          /\ task' = [task EXCEPT ![u] = IF u \in tasks THEN task[u] ELSE [Tasks!NoTask EXCEPT !.owner = Tasks!Arg(p)]]
      BY <2>1 DEF Tasks!Own
    <3>2. \A t \in Tasks!Task : t <= lastId => t # u
      BY <1>4
    <3> QED BY <1>4, <3>1, <3>2
  <2>2. CASE ~Tasks!Own(p)
    <3>1. lastId' = lastId
      BY <2>2 DEF Tasks!StepOf, Tasks!Get, Tasks!Test, Tasks!Load, Tasks!Create, Tasks!Del, Tasks!Run,
             Tasks!CloseServer, Tasks!Unrun, Tasks!Sweep, Tasks!Kick, Tasks!Deal, Tasks!Enable, Tasks!Store, Tasks!Drop,
             Tasks!RemoveClient, Tasks!Pause, Tasks!Snapshot, Tasks!Rename, Tasks!memory
    <3>2. Tasks!Create(p) \/ Tasks!Enable(p) \/ Tasks!Unrun(p) \/ task' = task
      BY <2>2 DEF Tasks!StepOf, Tasks!Get, Tasks!Test, Tasks!Load, Tasks!Del, Tasks!Run,
             Tasks!CloseServer, Tasks!Sweep, Tasks!Kick, Tasks!Deal, Tasks!Store, Tasks!Drop,
             Tasks!RemoveClient, Tasks!Pause, Tasks!Snapshot, Tasks!Rename, Tasks!memory
    <3>3. ASSUME NEW t \in Tasks!Task PROVE task'[t].noStore = task[t].noStore
      <4>1. task[t] \in TaskRecord
        BY <1>4
      <4>2. ASSUME NEW o \in TaskRecord
            PROVE  /\ [o EXCEPT !.status = TRUE].noStore = o.noStore /\ [o EXCEPT !.status = FALSE].noStore = o.noStore
                   /\ [o EXCEPT !.status = TRUE, !.born = requests].noStore = o.noStore
        BY DEF TaskRecord
      <4>3. CASE Tasks!Create(p)
        <5> SUFFICES ASSUME NEW u, u = Tasks!Arg(p) PROVE task'[t].noStore = task[t].noStore
          OBVIOUS
        <5>1. task' = [task EXCEPT ![u].status = TRUE, ![u].born = requests]
          BY <4>3 DEF Tasks!Create
        <5>2. CASE t = u
          <6>1. task'[t] = [task[t] EXCEPT !.status = TRUE, !.born = requests]
            BY <1>4, <5>1, <5>2
          <6> QED BY <4>1, <4>2, <6>1
        <5>3. CASE t # u
          BY <1>4, <5>1, <5>3
        <5> QED BY <5>2, <5>3
      <4>4. CASE Tasks!Enable(p) \/ Tasks!Unrun(p)
        <5> SUFFICES ASSUME NEW u, u = Tasks!Arg(p) PROVE task'[t].noStore = task[t].noStore
          OBVIOUS
        <5>1. task' = task \/ \E b \in {TRUE, FALSE} : task' = [task EXCEPT ![u].status = b]
          BY <4>4 DEF Tasks!Enable, Tasks!Unrun
        <5>2. ASSUME NEW b \in {TRUE, FALSE}, task' = [task EXCEPT ![u].status = b], t = u PROVE task'[t].noStore = task[t].noStore
          <6>1. task'[t] = [task[t] EXCEPT !.status = b]
            BY <1>4, <5>2
          <6> QED BY <4>1, <4>2, <5>2, <6>1
        <5>3. ASSUME NEW b \in {TRUE, FALSE}, task' = [task EXCEPT ![u].status = b], t # u PROVE task'[t].noStore = task[t].noStore
          BY <1>4, <5>3
        <5> QED BY <5>1, <5>2, <5>3
      <4> QED BY <3>2, <4>3, <4>4
    <3> QED BY <1>4, <3>1, <3>3
  <2> QED BY <2>1, <2>2
<1> QED BY <1>1, <1>3, <1>5 DEF Grown

(* Steps that leave the tasks to be stored as they are.                    *)
LEMMA KeptPlain ==
    ASSUME TypesAnd, ClientsKept, Kept, NEW p \in Tasks!Proc, Tasks!StepOf(p),
           \/ Tasks!Own(p) \/ Tasks!Get(p) \/ Tasks!Test(p) \/ Tasks!Load(p) \/ Tasks!Run(p) \/ Tasks!CloseServer(p)
           \/ Tasks!Unrun(p) /\ Tasks!Arg(p) \notin tasks
           \/ Tasks!Del(p) \/ Tasks!RemoveClient(p) \/ Tasks!Pause(p) \/ Tasks!Sweep(p) \/ Tasks!Kick(p) \/ Tasks!Deal(p)
           \/ (Tasks!Snapshot(p) \/ Tasks!Rename(p)) /\ Tasks!Arg(p) # "tasks"
    PROVE  Kept'
<1>1. TodoOK /\ MemoryOK /\ tasks \subseteq 1 .. lastId
  BY PartsAre DEF TypesAnd, PartsOK, TodoSafe, Issued
<1>2. PICK d \in {"own", "get", "test", "testOwn", "load", "run", "close", "unrun", "del", "delclient", "pause", "sweep",
                  "sweepNoStore", "kick", "open", "closeClient", "snapshot", "rename"} :
             Tasks!At(p, d) /\ (d = "snapshot" => Tasks!Arg(p) # "tasks")
  <2> DEFINE K == {"own", "get", "test", "testOwn", "load", "run", "close", "unrun", "del", "delclient", "pause", "sweep",
                   "sweepNoStore", "kick", "open", "closeClient", "snapshot", "rename"}
             Fine(d) == Tasks!At(p, d) /\ (d = "snapshot" => Tasks!Arg(p) # "tasks")
  <2>1. \A d \in K : Tasks!At(p, d) /\ d # "snapshot" => Fine(d)
    OBVIOUS
  <2>2. \/ Tasks!At(p, "own") \/ Tasks!At(p, "get") \/ Tasks!At(p, "test") \/ Tasks!At(p, "testOwn") \/ Tasks!At(p, "load")
        \/ Tasks!At(p, "run") \/ Tasks!At(p, "close") \/ Tasks!At(p, "unrun") \/ Tasks!At(p, "del")
        \/ Tasks!At(p, "delclient") \/ Tasks!At(p, "pause") \/ Tasks!At(p, "sweep") \/ Tasks!At(p, "sweepNoStore")
        \/ Tasks!At(p, "kick") \/ Tasks!At(p, "open") \/ Tasks!At(p, "closeClient") \/ Tasks!At(p, "rename")
        \/ Tasks!At(p, "snapshot") /\ Tasks!Arg(p) # "tasks"
    BY Zenon DEF Tasks!Own, Tasks!Get, Tasks!Test, Tasks!Load, Tasks!Run, Tasks!CloseServer, Tasks!Unrun, Tasks!Del,
           Tasks!RemoveClient, Tasks!Pause, Tasks!Sweep, Tasks!Kick, Tasks!Deal, Tasks!Snapshot, Tasks!Rename
  <2>3. CASE Tasks!At(p, "snapshot") /\ Tasks!Arg(p) # "tasks"
    BY <2>3
  <2>4. CASE ~(Tasks!At(p, "snapshot") /\ Tasks!Arg(p) # "tasks")
    <3> HIDE DEF Fine
    <3>1. \E d \in K : Fine(d)
      BY <2>1, <2>2, <2>4
    <3> QED BY <3>1 DEF Fine
  <2> QED BY <2>3, <2>4
<1>3. Next1(p, d)
  BY <1>1, <1>2, Head1
<1>4. Grown
  <2>1. ~(Tasks!Snapshot(p) /\ Tasks!Arg(p) = "tasks") /\ ~(Tasks!Rename(p) /\ Tasks!Arg(p) = "tasks")
    BY DEF Tasks!Own, Tasks!Get, Tasks!Test, Tasks!Load, Tasks!Run, Tasks!CloseServer, Tasks!Unrun, Tasks!Del,
           Tasks!RemoveClient, Tasks!Pause, Tasks!Sweep, Tasks!Kick, Tasks!Deal, Tasks!Snapshot, Tasks!Rename,
           Tasks!At
  <2> QED BY <2>1, GrownStep
<1>5. ~OwesIt(todo[p])
  BY <1>2, <1>3 DEF Next1, OwesIt
<1>6. \A q \in Tasks!Proc \ {p} : todo[q] # <<>> => todo'[q] = todo[q]
  <2>1. CASE Tasks!Deal(p)
    <3>1. /\ todo["dealer"] = <<>>
          /\ \E x, y : todo' = [todo EXCEPT ![p] = x, !["dealer"] = y]
      BY <2>1 DEF Tasks!Deal, Tasks!Idle
    <3> QED BY <1>1, <3>1 DEF TodoOK
  <2>2. CASE ~Tasks!Deal(p)
    <3>1. \E r : Tasks!Go(p, r)
      BY <2>2 DEF Tasks!Own, Tasks!Get, Tasks!Test, Tasks!Load, Tasks!Run, Tasks!CloseServer, Tasks!Unrun, Tasks!Del,
             Tasks!RemoveClient, Tasks!Pause, Tasks!Sweep, Tasks!Kick, Tasks!Snapshot, Tasks!Rename, Tasks!Skip, Tasks!Abort
    <3> QED BY <1>1, <3>1, GoIs
  <2> QED BY <2>1, <2>2
<1>7. (\E q \in Tasks!Proc : Owes(q)) => \E q \in Tasks!Proc : Owes(q)'
  BY <1>5, <1>6, OwesStill
<1>8. Tasks!Content("tasks")' = Tasks!Content("tasks")
  <2>1. tasks' = tasks
    BY DEF Tasks!Own, Tasks!Get, Tasks!Test, Tasks!Load, Tasks!Run, Tasks!CloseServer, Tasks!Unrun, Tasks!Del,
           Tasks!RemoveClient, Tasks!Pause, Tasks!Sweep, Tasks!Kick, Tasks!Deal, Tasks!Snapshot, Tasks!Rename,
           Tasks!memory
  <2>2. Tasks!Own(p) \/ task' = task
    BY DEF Tasks!Get, Tasks!Test, Tasks!Load, Tasks!Run, Tasks!CloseServer, Tasks!Unrun, Tasks!Del,
           Tasks!RemoveClient, Tasks!Pause, Tasks!Sweep, Tasks!Kick, Tasks!Deal, Tasks!Snapshot, Tasks!Rename,
           Tasks!memory
  <2>3. \A t \in tasks : task'[t] = task[t]
    <3>1. CASE Tasks!Own(p)
      <4> SUFFICES ASSUME NEW u, u = lastId + 1 PROVE \A t \in tasks : task'[t] = task[t]
        OBVIOUS
      <4>1. \E o : task' = [task EXCEPT ![u] = o]
        BY <3>1 DEF Tasks!Own
      <4>2. u \notin tasks /\ tasks \subseteq DOMAIN task
        BY <1>1 DEF MemoryOK, TypesAnd, TasksBounded
      <4> QED BY <4>1, <4>2
    <3> QED BY <2>2, <3>1
  <2> QED BY <2>1, <2>3, ContentSame
<1>9. DOMAIN clients' \subseteq DOMAIN clients
  BY ClientsStep
<1> QED BY <1>4, <1>7, <1>8, <1>9, KeptSame

(* Steps that change them: the next one sees to the file.                  *)
LEMMA KeptChanged ==
    ASSUME TypesAnd, ClientsKept, Kept, NEW p \in Tasks!Proc, Tasks!StepOf(p),
           \/ Tasks!Create(p) \/ Tasks!Enable(p) \/ Tasks!Store(p) \/ Tasks!Drop(p)
           \/ Tasks!Unrun(p) /\ Tasks!Arg(p) \in tasks
    PROVE  Kept'
<1>1. TodoOK
  BY DEF TypesAnd, TodoSafe
<1>2. PICK d \in {"create", "enable", "store", "drop", "unrun"} : Tasks!At(p, d)
  BY DEF Tasks!Create, Tasks!Enable, Tasks!Store, Tasks!Drop, Tasks!Unrun
<1>3. Tasks!Go(p, Tasks!Rest(p))
  BY DEF Tasks!Create, Tasks!Enable, Tasks!Store, Tasks!Drop, Tasks!Unrun
<1>4. todo'[p] = Tasks!Rest(p) /\ Next1(p, d)
  BY <1>1, <1>2, <1>3, GoIs, Head1
<1>5. /\ Tasks!Rest(p) # <<>> => Then(todo[p][1], Tasks!Rest(p)[1])
      /\ Tasks!Rest(p) = <<>> => MayEnd(todo[p][1])
  BY <1>1, <1>2, RestIs
<1>6. OwesIt(Tasks!Rest(p))
  <2>1. todo[p][1].do = d
    BY <1>4 DEF Next1
  <2> QED BY <1>5, <2>1 DEF OwesIt, MayEnd, Then
<1>7. Owes(p)'
  BY <1>4, <1>6, OwesIs
<1>8. Grown
  <2>1. ~(Tasks!Snapshot(p) /\ Tasks!Arg(p) = "tasks") /\ ~(Tasks!Rename(p) /\ Tasks!Arg(p) = "tasks")
    BY DEF Tasks!Create, Tasks!Enable, Tasks!Store, Tasks!Drop, Tasks!Unrun, Tasks!Snapshot, Tasks!Rename, Tasks!At
  <2> QED BY <2>1, GrownStep
<1> QED BY <1>7, <1>8, KeptOwed

(* The file is saved.                                                      *)
LEMMA KeptSaved ==
    ASSUME TypesAnd, ClientsKept, Kept, NEW p \in Tasks!Proc, Tasks!Arg(p) = "tasks",
           Tasks!Snapshot(p) \/ Tasks!Rename(p)
    PROVE  Kept'
<1>1. TodoOK /\ MemoryOK /\ StoredOK /\ Renaming /\ tasks \subseteq 1 .. lastId
  BY PartsAre DEF TypesAnd, PartsOK, TodoSafe, Issued
<1>2. "tasks" \in Tasks!File /\ DOMAIN disk = Tasks!File /\ DOMAIN saving = Tasks!File /\ "clients" # "tasks"
  BY <1>1 DEF StoredOK, Tasks!File
<1>3. UNCHANGED Tasks!memory
  BY DEF Tasks!Snapshot, Tasks!Rename
<1>4. clients' = clients /\ tasks' = tasks /\ task' = task /\ lastId' = lastId
  BY <1>3 DEF Tasks!memory
<1>5. Tasks!Content("tasks")' = Tasks!Content("tasks")
  BY <1>4, ContentSame
<1>6. CASE Tasks!Snapshot(p)
  <2>1. disk' = disk /\ saving'["tasks"] = <<Tasks!Content("tasks")>> /\ saving["tasks"] = <<>>
    BY <1>2, <1>6 DEF Tasks!Snapshot
  <2>2. saving'["tasks"] # <<>> /\ saving'["tasks"][1] = Tasks!Content("tasks")
    BY <2>1
  <2>3. Fits(Tasks!Content("tasks"), disk["clients"], task, lastId)
    <3>1. \A e \in Tasks!Content("tasks") : e[1] \in tasks /\ e = <<e[1], task[e[1]].owner, task[e[1]].status>> /\ ~task[e[1]].noStore
      BY ContentIs
    <3>2. \A t \in tasks : t <= lastId
      BY <1>1 DEF MemoryOK, TypesAnd, TasksBounded
    <3> QED BY <3>1, <3>2 DEF Fits
  <2>4. Covers(Tasks!Content("tasks"), Tasks!Content("tasks"), DOMAIN clients)
    BY DEF Covers
  <2>5. Fits(disk["tasks"], disk["clients"], task, lastId)
    BY DEF Kept, Loadable
  <2> QED BY <1>4, <1>5, <2>1, <2>2, <2>3, <2>4, <2>5 DEF Kept, Good, Loadable
<1>7. CASE Tasks!Rename(p)
  <2>1. disk'["tasks"] = saving["tasks"][1] /\ saving'["tasks"] = <<>> /\ disk'["clients"] = disk["clients"]
    BY <1>2, <1>7 DEF Tasks!Rename
  <2>2. saving["tasks"] # <<>>
    BY <1>1, <1>2, <1>7, RenamingGiven DEF Tasks!Rename
  <2>3. Fits(saving["tasks"][1], disk["clients"], task, lastId)
    BY <2>2 DEF Kept, Loadable
  <2>4. \/ \E q \in Tasks!Proc : Owes(q)
        \/ Covers(saving["tasks"][1], Tasks!Content("tasks"), DOMAIN clients)
    BY <2>2 DEF Kept, Good
  <2>5. (\E q \in Tasks!Proc : Owes(q)) => \E q \in Tasks!Proc : Owes(q)'
    <3>1. Tasks!At(p, "rename") /\ Tasks!Go(p, Tasks!Rest(p))
      BY <1>7 DEF Tasks!Rename
    <3>2. ~OwesIt(todo[p])
      BY <1>1, <3>1, Head1 DEF Next1, OwesIt
    <3> QED BY <1>1, <3>1, <3>2, GoIs, OwesStill
  <2> QED BY <1>4, <1>5, <2>1, <2>3, <2>4, <2>5 DEF Kept, Good, Loadable, Tasks!Proc
<1> QED BY <1>6, <1>7

LEMMA KeptStep ==
    ASSUME TypesAnd, ClientsKept, Kept, NEW p \in Tasks!Proc, Tasks!StepOf(p)
    PROVE  Kept'
BY KeptPlain, KeptChanged, KeptSaved DEF Tasks!StepOf

(* A request, a configuration connection and the expiry begin: no task is  *)
(* in the table yet.                                                       *)
LEMMA RequestKept ==
    ASSUME TypesAnd, ClientsKept, Kept, NEW a, NEW c, Asks(a, c)
    PROVE  ClientsKept' /\ Kept'
<1>1. TodoOK /\ MemoryOK /\ tasks \subseteq 1 .. lastId
  BY PartsAre DEF TypesAnd, PartsOK, TodoSafe, Issued
<1>2. lastId \in Nat /\ task \in [Tasks!Task -> TaskRecord] /\ Tasks!Task \subseteq Nat /\ tasks \subseteq Tasks!Task
  BY <1>1 DEF MemoryOK, TypesAnd, TasksBounded, Tasks!Task
<1>3. clients' = clients /\ tasks' = tasks /\ UNCHANGED Tasks!files
  BY DEF Asks, Tasks!Command, Tasks!Add, Tasks!OwnAdd, Tasks!Config, Tasks!CheckExpire, Tasks!Request, Tasks!memory
<1>4. disk' = disk /\ saving' = saving
  BY <1>3 DEF Tasks!files
<1>5. \E p \in Tasks!Proc : todo[p] = <<>> /\ \E r : Tasks!Go(p, r)
  <2>1. \A w : Tasks!Request(a, w) => todo[a] = <<>> /\ Tasks!Go(a, w)
    BY DEF Tasks!Request, Tasks!Idle
  <2>2. (a \in Admin => a \in Tasks!Proc) /\ "config" \in Tasks!Proc /\ "expire" \in Tasks!Proc
    BY DEF Tasks!Proc
  <2>3. Tasks!Config(c) => todo["config"] = <<>> /\ \E r : Tasks!Go("config", r)
    BY DEF Tasks!Config, Tasks!Idle
  <2>4. Tasks!CheckExpire(c) => todo["expire"] = <<>> /\ \E r : Tasks!Go("expire", r)
    BY DEF Tasks!CheckExpire, Tasks!Idle
  <2>5. Tasks!Command(a) \/ Tasks!Add(a, c) \/ Tasks!OwnAdd(a, c) => \E w : Tasks!Request(a, w)
    BY DEF Tasks!Command, Tasks!Add, Tasks!OwnAdd
  <2> QED BY <2>1, <2>2, <2>3, <2>4, <2>5 DEF Asks
<1>6. (\E q \in Tasks!Proc : Owes(q)) => \E q \in Tasks!Proc : Owes(q)'
  <2>1. PICK p \in Tasks!Proc : todo[p] = <<>> /\ \E r : Tasks!Go(p, r)
    BY <1>5
  <2>2. ~OwesIt(todo[p]) /\ \A q \in Tasks!Proc \ {p} : todo'[q] = todo[q]
    BY <1>1, <2>1, GoIs DEF OwesIt
  <2> QED BY <2>1, <2>2, OwesStill
<1>7. /\ lastId' \in Nat /\ lastId <= lastId'
      /\ \A t \in Tasks!Task : t <= lastId => task'[t] = task[t]
  <2>1. CASE Tasks!Add(a, c) \/ Tasks!Config(c)
    <3> SUFFICES ASSUME NEW u, u = lastId + 1
                 PROVE  /\ lastId' \in Nat /\ lastId <= lastId'
                        /\ \A t \in Tasks!Task : t <= lastId => task'[t] = task[t]
      OBVIOUS
    <3>1. lastId' = u /\ \E o : task' = [task EXCEPT ![u] = o]
      BY <2>1 DEF Tasks!Add, Tasks!Config
    <3>2. \A t \in Tasks!Task : t <= lastId => t # u
      BY <1>2
    <3> QED BY <1>2, <3>1, <3>2
  <2>2. CASE UNCHANGED Tasks!memory
    BY <1>2, <2>2 DEF Tasks!memory
  <2> QED BY <2>1, <2>2 DEF Asks, Tasks!Command, Tasks!OwnAdd, Tasks!CheckExpire
<1>8. Tasks!Content("tasks")' = Tasks!Content("tasks")
  <2>1. \A t \in tasks : t \in Tasks!Task /\ t <= lastId
    BY <1>1, <1>2
  <2> QED BY <1>3, <1>7, <2>1, ContentSame
<1>9. Grown
  BY <1>4, <1>7 DEF Grown
<1> QED BY <1>3, <1>4, <1>6, <1>8, <1>9, ClientsSame, KeptSame

(* A server goes on, a client connects.                                    *)
LEMMA IdleKept ==
    ASSUME TypesAnd, ClientsKept, Kept, UNCHANGED <<Tasks!memory, Tasks!files, todo>>
    PROVE  ClientsKept' /\ Kept'
<1>1. /\ clients' = clients /\ tasks' = tasks /\ task' = task /\ lastId' = lastId
      /\ disk' = disk /\ saving' = saving /\ todo' = todo
  BY DEF Tasks!memory, Tasks!files
<1>2. lastId \in Nat
  BY PartsAre DEF TypesAnd, PartsOK, TasksBounded, MemoryOK
<1>3. Grown
  BY <1>1, <1>2 DEF Grown
<1>4. Tasks!Content("tasks")' = Tasks!Content("tasks")
  BY <1>1, ContentSame
<1>5. (\E q \in Tasks!Proc : Owes(q)) => \E q \in Tasks!Proc : Owes(q)'
  BY <1>1, OwesIs
<1> QED BY <1>1, <1>3, <1>4, <1>5, ClientsSame, KeptSame

LEMMA OthersInv ==
    ASSUME TypesAnd, ClientsKept, Kept,
           \/ \E s \in Tasks!Server : Tasks!Listen(s)
           \/ \E c \in Client : Tasks!Verify(c) \/ Tasks!Register(c)
           \/ UNCHANGED Tasks!vars
    PROVE  TasksInv'
<1>1. PartsOK
  BY PartsAre DEF TypesAnd
<1>2. UNCHANGED <<Tasks!memory, Tasks!files, todo>>
  BY DEF Tasks!Listen, Tasks!Verify, Tasks!Register, Tasks!vars
<1>3. MemoryOK' /\ StoredOK' /\ TodoSafe'
  BY <1>1, <1>2, PartsStill, TodoStill DEF TypesAnd, PartsOK, Tasks!memory, Tasks!files
<1>4. ClientsKept' /\ Kept'
  BY <1>2, IdleKept
<1>5. RunningOK' /\ CountsOK'
  <2>1. CASE \E s \in Tasks!Server : Tasks!Listen(s)
    <3>1. RunningOK'
      BY <2>1, RunningStep
    <3>2. UNCHANGED Tasks!bridge /\ UNCHANGED Tasks!bounds
      BY <2>1 DEF Tasks!Listen
    <3> QED BY <1>1, <3>1, <3>2, PartsStill DEF PartsOK
  <2>2. CASE \E c \in Client : Tasks!Verify(c) \/ Tasks!Register(c)
    <3>1. CountsOK'
      BY <2>2, BridgeStep
    <3>2. UNCHANGED Tasks!run
      BY <2>2 DEF Tasks!Verify, Tasks!Register
    <3> QED BY <1>1, <3>1, <3>2, PartsStill DEF PartsOK
  <2>3. CASE UNCHANGED Tasks!vars
    <3>1. UNCHANGED Tasks!run /\ UNCHANGED Tasks!bridge /\ UNCHANGED Tasks!bounds
      BY <2>3 DEF Tasks!vars
    <3> QED BY <1>1, <3>1, PartsStill DEF PartsOK
  <2> QED BY <2>1, <2>2, <2>3
<1>6. Tasks!TypeOK'
  BY <1>3, <1>5, PartsAre, PTL DEF PartsOK, TodoSafe
<1> QED BY <1>3, <1>4, <1>6 DEF TasksInv, TodoSafe

-----------------------------------------------------------------------------
(* Tunnels: a restart.                                                     *)

Loaded     == {e \in disk.tasks : \E d \in disk.clients : d[1] = e[2]}
LoadedIds  == {e[1] : e \in Loaded}
EntryOf(t) == CHOOSE e \in Loaded : e[1] = t
Started    == {x \in LoadedIds : EntryOf(x)[3]}
Reload(list) ==
    /\ clients' = [c \in {d[1] : d \in disk.clients} |-> <<c, TRUE>> \in disk.clients]
    /\ tasks' = LoadedIds
    /\ task' = [t \in Tasks!Task |->
                  IF t \in LoadedIds THEN [task[t] EXCEPT !.owner = EntryOf(t)[2], !.status = EntryOf(t)[3]]
                  ELSE Tasks!NoTask]
    /\ lastId' = CHOOSE n \in 0 .. MaxTask : n \in LoadedIds \cup {0} /\ \A t \in LoadedIds : t <= n
    /\ todo' = [p \in Tasks!Proc |-> IF p = "boot" THEN Tasks!Each("load", list) ELSE <<>>]
Reset ==
    /\ runList' = [t \in Tasks!Task |-> 0]
    /\ server' = [s \in Tasks!Server |-> Tasks!Gone]
    /\ saving' = [f \in Tasks!File |-> <<>>]
    /\ online' = {} /\ verified' = {}
    /\ raced' = FALSE
    /\ disk' = disk /\ requests' = requests

LEMMA RestartIs ==
    ASSUME Tasks!Restart
    PROVE  Reset /\ \E list \in Tasks!SetToSeqs(Started) : Reload(list)
<1>1. Reset
  BY DEF Tasks!Restart, Reset
<1>2. \E list \in Tasks!SetToSeqs(Started) : Reload(list)
  BY Zenon DEF Tasks!Restart, Reload, Started, LoadedIds, Loaded, EntryOf
<1> QED BY <1>1, <1>2

(* What is loaded: one entry for an id.                                    *)
LoadedOK ==
    /\ Loaded = {e \in disk["tasks"] : e[2] \in Ids(disk["clients"])}
    /\ LoadedIds \subseteq Tasks!Task
    /\ \A e \in Loaded : e = <<e[1], e[2], e[3]>> /\ e[1] \in LoadedIds /\ EntryOf(e[1]) = e
    /\ \A t \in LoadedIds : /\ EntryOf(t) \in Loaded /\ EntryOf(t) = <<t, EntryOf(t)[2], EntryOf(t)[3]>>
                            /\ EntryOf(t)[2] \in Client \cup {Tasks!None} /\ EntryOf(t)[3] \in BOOLEAN
                            /\ ~task[t].noStore

LEMMA LoadedIs ==
    ASSUME TypesAnd, Kept
    PROVE  LoadedOK
<1>1. disk["tasks"] \subseteq Tasks!Entry["tasks"]
  BY PartsAre DEF TypesAnd, PartsOK, StoredOK, FileOK, Tasks!File
<1>2. Loaded = {e \in disk["tasks"] : e[2] \in Ids(disk["clients"])}
  BY DEF Loaded, Ids
<1>3. \A e \in Loaded : /\ e[1] \in Tasks!Task /\ e[2] \in Client \cup {Tasks!None} /\ e[3] \in BOOLEAN
                        /\ e = <<e[1], e[2], e[3]>>
  BY <1>1, <1>2 DEF Tasks!Entry
<1>4. \A e \in Loaded : ~task[e[1]].noStore
  BY <1>2 DEF Kept, Loadable, Fits
<1>5. \A e, f \in Loaded : e[1] = f[1] => e = f
  BY <1>2 DEF Kept, Loadable, Fits
<1>6. ASSUME NEW t \in LoadedIds PROVE EntryOf(t) \in Loaded /\ EntryOf(t)[1] = t
  <2>1. \E e \in Loaded : e[1] = t
    BY DEF LoadedIds
  <2> QED BY <2>1 DEF EntryOf
<1>7. \A e \in Loaded : e[1] \in LoadedIds
  BY DEF LoadedIds
<1>8. \A e \in Loaded : EntryOf(e[1]) = e
  BY <1>5, <1>6, <1>7
<1>9. \A t \in LoadedIds : /\ EntryOf(t) \in Loaded /\ EntryOf(t) = <<t, EntryOf(t)[2], EntryOf(t)[3]>>
                           /\ EntryOf(t)[2] \in Client \cup {Tasks!None} /\ EntryOf(t)[3] \in BOOLEAN
                           /\ ~task[t].noStore
  BY <1>3, <1>4, <1>6
<1>10. LoadedIds \subseteq Tasks!Task
  BY <1>3 DEF LoadedIds
<1> QED BY <1>2, <1>3, <1>7, <1>8, <1>9, <1>10 DEF LoadedOK

(* The last id is the largest there is.                                    *)
LEMMA Largest ==
    ASSUME NEW N \in Nat, NEW S, S \subseteq 1 .. N, NEW k, k = CHOOSE n \in 0 .. N : n \in S \cup {0} /\ \A t \in S : t <= n
    PROVE  k \in 0 .. N /\ \A t \in S : t <= k
<1> DEFINE U == {n \in 0 .. N : \A t \in S : t <= n}
<1>1. N \in U /\ U \in SUBSET Nat
  OBVIOUS
<1>2. PICK m \in U : \A n \in U : m <= n
  BY <1>1, Smallest
<1>3. m \in S \cup {0}
  <2> SUFFICES ASSUME m \notin S \cup {0} PROVE FALSE
    OBVIOUS
  <2>1. m - 1 \in U
    OBVIOUS
  <2> QED BY <1>2, <2>1
<1>4. \E n \in 0 .. N : n \in S \cup {0} /\ \A t \in S : t <= n
  BY <1>3
<1> QED BY <1>4

(* The tunnels in memory are those of the file whose client is there.      *)
LEMMA ReloadIs ==
    ASSUME TypesAnd, Kept, NEW list, Reload(list)
    PROVE  /\ \A t \in LoadedIds : task'[t] \in TaskRecord /\ task'[t].owner = EntryOf(t)[2] /\ task'[t].status = EntryOf(t)[3]
                                   /\ ~task'[t].noStore /\ task'[t].born = task[t].born
           /\ task' \in [Tasks!Task -> TaskRecord]
           /\ tasks' = LoadedIds /\ lastId' \in 0 .. MaxTask /\ \A t \in LoadedIds : t <= lastId'
           /\ DOMAIN clients' = Ids(disk["clients"]) /\ clients' \in [Ids(disk["clients"]) -> BOOLEAN]
<1>1. LoadedOK
  BY LoadedIs
<1>2. task \in [Tasks!Task -> TaskRecord] /\ MaxTask \in Nat
  BY PartsAre DEF TypesAnd, PartsOK, MemoryOK, TasksBounded
<1>4. ASSUME NEW t \in LoadedIds
      PROVE  task'[t] \in TaskRecord /\ task'[t].owner = EntryOf(t)[2] /\ task'[t].status = EntryOf(t)[3]
             /\ ~task'[t].noStore /\ task'[t].born = task[t].born
  <2>1. t \in Tasks!Task /\ EntryOf(t)[2] \in Client \cup {Tasks!None} /\ EntryOf(t)[3] \in BOOLEAN /\ ~task[t].noStore
    BY <1>1 DEF LoadedOK
  <2>2. task[t] \in TaskRecord
    BY <1>2, <2>1
  <2>3. task'[t] = [task[t] EXCEPT !.owner = EntryOf(t)[2], !.status = EntryOf(t)[3]]
    BY <2>1 DEF Reload
  <2>4. ASSUME NEW o, NEW x, NEW b, NEW y, o = task[t], x = EntryOf(t)[2], b = EntryOf(t)[3], y = task'[t]
        PROVE  y \in TaskRecord /\ y.owner = x /\ y.status = b /\ y.noStore = o.noStore /\ y.born = o.born
    <3>1. o \in TaskRecord /\ x \in Client \cup {Tasks!None} /\ b \in BOOLEAN /\ y = [o EXCEPT !.owner = x, !.status = b]
      BY <2>1, <2>2, <2>3, <2>4
    <3> QED BY <3>1 DEF TaskRecord
  <2> QED BY <2>1, <2>4
<1>5. task' \in [Tasks!Task -> TaskRecord]
  <2>1. Tasks!NoTask \in TaskRecord
    BY DEF TypesAnd, TasksBounded, TaskRecord, Tasks!NoTask
  <2>2. \A t \in Tasks!Task : task'[t] \in TaskRecord
    BY <1>4, <2>1 DEF Reload
  <2>3. task' = [t \in Tasks!Task |-> task'[t]]
    BY DEF Reload
  <2> QED BY <2>2, <2>3
<1>6. tasks' = LoadedIds /\ lastId' \in 0 .. MaxTask /\ \A t \in LoadedIds : t <= lastId'
  <2>1. LoadedIds \subseteq 1 .. MaxTask
    BY <1>1 DEF LoadedOK, Tasks!Task
  <2>2. lastId' = CHOOSE n \in 0 .. MaxTask : n \in LoadedIds \cup {0} /\ \A t \in LoadedIds : t <= n
    BY DEF Reload
  <2>3. tasks' = LoadedIds
    BY DEF Reload
  <2> QED BY <1>2, <2>1, <2>2, <2>3, Largest
<1>7. DOMAIN clients' = Ids(disk["clients"]) /\ clients' \in [Ids(disk["clients"]) -> BOOLEAN]
  <2>1. clients' = [c \in Ids(disk["clients"]) |-> <<c, TRUE>> \in disk["clients"]]
    BY DEF Reload, Ids
  <2> QED BY <2>1
<1> QED BY <1>4, <1>5, <1>6, <1>7

(* Nothing is said of an id that was not loaded.                           *)
LEMMA ReloadTodo ==
    ASSUME TypesAnd, Kept, NEW list \in Tasks!SetToSeqs(Started), Reload(list), Reset
    PROVE  TodoSafe'
<1> DEFINE w == Tasks!Each("load", list)
<1>1. Started \subseteq LoadedIds /\ Started \subseteq Tasks!Task /\ LoadedIds \subseteq Tasks!Task
  BY LoadedIs DEF LoadedOK, Started
<1>2. Errand(w, Started, {})
  BY <1>1, EachErrand DEF TypesAnd
<1> HIDE DEF w
<1>3. todo' = [p \in Tasks!Proc |-> IF p = "boot" THEN w ELSE <<>>]
  BY DEF Reload, w
<1>4. Errand(<<>>, Started, {})
  <2>1. Left("boot", <<>>, "load")
    BY NothingLeft
  <2>2. \A u : ~Mentions(<<>>, u) /\ ~Creates(<<>>, u)
    BY DEF Mentions, Creates
  <2> QED BY <2>1, <2>2 DEF Left, Errand
<1>5. \A p \in Tasks!Proc : Errand(todo'[p], Started, {})
  BY <1>2, <1>3, <1>4
<1>6. lastId' \in 0 .. MaxTask /\ (\A t \in LoadedIds : t <= lastId') /\ tasks' = LoadedIds
  BY ReloadIs
<1>7. TodoOK'
  <2>1. todo' = [p \in Tasks!Proc |-> todo'[p]]
    BY <1>3
  <2>2. \A p \in Tasks!Proc : todo'[p] \in Seq(Steps) /\ Formed(todo'[p])
    BY <1>5 DEF Errand
  <2>3. todo' \in [Tasks!Proc -> Seq(Steps)]
    BY <2>1, <2>2
  <2> QED BY <2>2, <2>3 DEF TodoOK, Tasks!Proc, Formed, Linked, Creating, Closing
<1>8. Renaming'
  <2>1. saving' = [f \in Tasks!File |-> <<>>]
    BY DEF Reset
  <2>2. \A f \in Tasks!File : saving'[f] = <<>>
    BY <2>1
  <2>3. \A p \in Tasks!Proc : ~Tasks!At(p, "rename")'
    BY <1>5 DEF Errand, Tasks!At, Tasks!Idle, Tasks!Head1
  <2>4. \A f : Renames(f)' = {}
    BY <2>3 DEF Renames, Tasks!Proc
  <2> QED BY <2>2, <2>4 DEF Renaming, Tasks!File
<1>9. Issued'
  <2>1. tasks' \subseteq 1 .. lastId'
    BY <1>1, <1>6 DEF Tasks!Task
  <2>2. ASSUME NEW p \in Tasks!Proc, NEW t \in Tasks!Task, Mentions(todo'[p], t) PROVE t <= lastId'
    BY <1>1, <1>5, <1>6, <2>2 DEF Errand
  <2> QED BY <2>1, <2>2 DEF Issued, Tasks!Proc, Tasks!Task, Mentions
<1>10. Unborn'
  <2>1. \A p \in Tasks!Proc : \A t : ~Creates(todo'[p], t)
    BY <1>5 DEF Errand
  <2> QED BY <2>1 DEF Unborn, Tasks!Proc, Tasks!Task, Creates
<1> QED BY <1>7, <1>8, <1>9, <1>10 DEF TodoSafe

LEMMA ReloadKept ==
    ASSUME TypesAnd, Kept, NEW list, Reload(list), Reset
    PROVE  ClientsKept' /\ Kept'
<1>1. LoadedOK
  BY LoadedIs
<1>2. /\ \A t \in LoadedIds : task'[t].owner = EntryOf(t)[2] /\ task'[t].status = EntryOf(t)[3] /\ ~task'[t].noStore
      /\ tasks' = LoadedIds /\ \A t \in LoadedIds : t <= lastId'
      /\ DOMAIN clients' = Ids(disk["clients"])
  BY ReloadIs
<1>3. disk' = disk /\ saving'["clients"] = <<>> /\ saving'["tasks"] = <<>>
  BY DEF Reset, Tasks!File
<1>4. ClientsKept'
  BY <1>2, <1>3 DEF ClientsKept
<1>5. Tasks!Content("tasks")' = Loaded
  <2>1. Tasks!Content("tasks")' = {<<t, task'[t].owner, task'[t].status>> : t \in {x \in tasks' : ~task'[x].noStore}}
    BY DEF Tasks!Content
  <2>2. {x \in tasks' : ~task'[x].noStore} = LoadedIds
    BY <1>2
  <2>3. \A t \in LoadedIds : <<t, task'[t].owner, task'[t].status>> = EntryOf(t) /\ EntryOf(t) \in Loaded
    BY <1>1, <1>2 DEF LoadedOK
  <2>4. \A e \in Loaded : e[1] \in LoadedIds /\ e = EntryOf(e[1])
    BY <1>1 DEF LoadedOK
  <2>5. {<<t, task'[t].owner, task'[t].status>> : t \in LoadedIds} = Loaded
    <3>1. \A x \in {<<t, task'[t].owner, task'[t].status>> : t \in LoadedIds} : x \in Loaded
      BY <2>3
    <3>2. ASSUME NEW e \in Loaded PROVE e \in {<<t, task'[t].owner, task'[t].status>> : t \in LoadedIds}
      <4>1. PICK t \in LoadedIds : e = EntryOf(t)
        BY <2>4
      <4>2. e = <<t, task'[t].owner, task'[t].status>>
        BY <2>3, <4>1
      <4> QED BY <4>2
    <3> QED BY <3>1, <3>2
  <2> QED BY <2>1, <2>2, <2>5
<1>6. Fits(disk["tasks"], disk["clients"], task', lastId')
  <2>1. \A e \in disk["tasks"] : e[2] \in Ids(disk["clients"]) => e \in Loaded
    BY <1>1 DEF LoadedOK
  <2>2. \A e \in Loaded : e[1] \in LoadedIds
    BY <1>1 DEF LoadedOK
  <2>3. \A e, f \in disk["tasks"] : e[1] = f[1] => e = f
    BY DEF Kept, Loadable, Fits
  <2> QED BY <1>2, <2>1, <2>2, <2>3 DEF Fits
<1>7. Covers(disk["tasks"], Loaded, Ids(disk["clients"]))
  BY <1>1 DEF Covers, LoadedOK
<1> QED BY <1>2, <1>3, <1>4, <1>5, <1>6, <1>7 DEF Kept, Good, Loadable

LEMMA RestartInv ==
    ASSUME TypesAnd, Kept, Tasks!Restart, crashes' \in 0 .. Crashes
    PROVE  TasksInv'
<1>1. PICK list \in Tasks!SetToSeqs(Started) : Reload(list)
  BY RestartIs
<1>2. Reset
  BY RestartIs
<1>3. TodoSafe' /\ ClientsKept' /\ Kept'
  BY <1>1, <1>2, ReloadTodo, ReloadKept
<1>4. MemoryOK' /\ StoredOK' /\ CountsOK'
  <2>1. PartsOK /\ LoadedOK
    BY PartsAre, LoadedIs DEF TypesAnd
  <2>2. disk["clients"] \subseteq Tasks!Entry["clients"]
    BY <2>1 DEF PartsOK, StoredOK, FileOK, Tasks!File
  <2>3. Ids(disk["clients"]) \subseteq Client
    BY <2>2 DEF Ids, Tasks!Entry
  <2>4. MemoryOK'
    <3>1. /\ task' \in [Tasks!Task -> TaskRecord] /\ tasks' \subseteq Tasks!Task /\ lastId' \in 0 .. MaxTask
          /\ clients' \in [Ids(disk["clients"]) -> BOOLEAN]
      BY <1>1, <2>1, ReloadIs DEF LoadedOK
    <3> QED BY <2>3, <3>1 DEF MemoryOK, TaskRecord, Tasks!Task
  <2>5. StoredOK'
    <3>1. disk' = disk /\ saving' = [f \in Tasks!File |-> <<>>]
      BY <1>2 DEF Reset
    <3>2. \A f \in Tasks!File : FileOK(f)'
      BY <2>1, <3>1 DEF PartsOK, StoredOK, FileOK, Tasks!Entry, Tasks!Task, Tasks!File
    <3> QED BY <2>1, <3>1, <3>2 DEF PartsOK, StoredOK, Tasks!File
  <2>6. CountsOK'
    BY <1>2, <2>1 DEF Reset, PartsOK, CountsOK
  <2> QED BY <2>4, <2>5, <2>6
<1>5. RunningOK'
  BY <1>2 DEF Reset, RunningOK, TypesAnd, TasksBounded, Tasks!Task, Tasks!Server
<1> QED BY <1>3, <1>4, <1>5, PartsAre, PTL DEF PartsOK, TodoSafe, TasksInv

-----------------------------------------------------------------------------
(* Tunnels: the invariant holds.                                           *)

LEMMA StepInv ==
    ASSUME TypesAnd, ClientsKept, Kept, NEW p \in Tasks!Proc, Tasks!StepOf(p)
    PROVE  TasksInv'
<1>1. PartsOK' /\ TodoSafe'
  BY StepTypes, StepTodo
<1>2. ClientsKept' /\ Kept'
  BY ClientsStep, KeptStep
<1>3. Tasks!TypeOK'
  BY <1>1, PartsAre, PTL DEF TodoSafe
<1> QED BY <1>1, <1>2, <1>3 DEF TasksInv, TodoSafe

LEMMA RequestInv ==
    ASSUME TypesAnd, ClientsKept, Kept, NEW a, NEW c, Asks(a, c)
    PROVE  TasksInv'
<1>1. PartsOK'
  BY RequestTypes
<1>2. ClientsKept' /\ Kept'
  BY RequestKept
<1>3. TodoSafe'
  BY AddTodo, OwnAddTodo, CommandTodo, ExpireTodo DEF Asks
<1>4. Tasks!TypeOK'
  BY <1>1, <1>3, PartsAre, PTL DEF TodoSafe
<1> QED BY <1>2, <1>3, <1>4 DEF TasksInv, TodoSafe

LEMMA TasksInitInv == TasksBounded /\ Tasks!Init => TasksInv
<1> SUFFICES ASSUME TasksBounded, Tasks!Init PROVE TasksInv
  OBVIOUS
<1>1. /\ clients = [c \in Client |-> TRUE] /\ tasks = {} /\ task = [t \in Tasks!Task |-> Tasks!NoTask] /\ lastId = 0
      /\ runList = [t \in Tasks!Task |-> 0] /\ server = [s \in Tasks!Server |-> Tasks!Gone]
      /\ disk = [tasks |-> {}, clients |-> {<<c, TRUE>> : c \in Client}] /\ saving = [f \in Tasks!File |-> <<>>]
      /\ todo = [p \in Tasks!Proc |-> <<>>] /\ online = {} /\ verified = {} /\ raced = FALSE /\ requests = 0 /\ crashes = 0
  BY DEF Tasks!Init
<1>2. Errand(<<>>, {}, {})
  <2>1. Left("boot", <<>>, "load")
    BY NothingLeft
  <2>2. \A u : ~Mentions(<<>>, u) /\ ~Creates(<<>>, u)
    BY DEF Mentions, Creates
  <2> QED BY <2>1, <2>2 DEF Left, Errand
<1>3. \A p \in Tasks!Proc : Errand(todo[p], {}, {}) /\ todo[p] = <<>>
  BY <1>1, <1>2
<1>4. TodoOK
  <2>1. \A p \in Tasks!Proc : todo[p] \in Seq(Steps) /\ Formed(todo[p])
    BY <1>3 DEF Errand
  <2>2. todo \in [Tasks!Proc -> Seq(Steps)]
    BY <1>1, <2>1
  <2> QED BY <2>1, <2>2 DEF TodoOK
<1>5. Renaming
  <2>1. \A f : Renames(f) = {}
    BY <1>3 DEF Renames, Tasks!At, Tasks!Idle
  <2> QED BY <1>1, <2>1 DEF Renaming
<1>6. Issued /\ Unborn
  BY <1>1, <1>3 DEF Issued, Unborn, Errand
<1>7. disk["clients"] = {<<c, TRUE>> : c \in Client} /\ disk["tasks"] = {} /\ DOMAIN disk = Tasks!File
      /\ saving["clients"] = <<>> /\ saving["tasks"] = <<>>
  BY <1>1 DEF Tasks!File
<1>8. ClientsKept
  <2>1. ASSUME NEW c \in Client PROVE c \in Ids(disk["clients"])
    <3>1. <<c, TRUE>> \in disk["clients"] /\ <<c, TRUE>>[1] = c
      BY <1>7
    <3> QED BY <3>1 DEF Ids
  <2>2. DOMAIN clients = Client
    BY <1>1
  <2> QED BY <1>7, <2>1, <2>2 DEF ClientsKept
<1>9. Kept
  <2>1. Tasks!Content("tasks") = {}
    BY <1>1 DEF Tasks!Content
  <2> QED BY <1>7, <2>1 DEF Kept, Loadable, Fits, Good, Covers
<1>10. PartsOK
  <2>1. MemoryOK
    BY <1>1 DEF MemoryOK, TaskRecord, Tasks!NoTask, TasksBounded
  <2>2. RunningOK
    BY <1>1 DEF RunningOK, TasksBounded
  <2>3. StoredOK
    <3>1. FileOK("tasks")
      BY <1>7 DEF FileOK
    <3>2. FileOK("clients")
      <4>1. Tasks!Entry["clients"] = Client \X BOOLEAN
        BY DEF Tasks!Entry
      <4>2. TRUE \in BOOLEAN
        OBVIOUS
      <4>3. ASSUME NEW e \in disk["clients"] PROVE e \in Client \X BOOLEAN
        <5>1. PICK c \in Client : e = <<c, TRUE>>
          BY <1>7
        <5>2. ASSUME NEW b \in BOOLEAN PROVE <<c, b>> \in Client \X BOOLEAN
          OBVIOUS
        <5>3. <<c, TRUE>> \in Client \X BOOLEAN
          BY <4>2, <5>2, Zenon
        <5> QED BY <5>1, <5>3, Zenon
      <4> QED BY <1>7, <4>1, <4>3 DEF FileOK
    <3> QED BY <1>1, <1>7, <3>1, <3>2 DEF StoredOK, Tasks!File
  <2>4. CountsOK
    <3>1. Requests \in Nat /\ Crashes \in Nat
      BY DEF TasksBounded
    <3>2. online \cup verified = {}
      BY <1>1
    <3>3. requests \in 0 .. Requests /\ crashes \in 0 .. Crashes
      BY <1>1, <3>1
    <3>4. raced \in BOOLEAN
      BY <1>1, Zenon
    <3> QED BY <3>2, <3>3, <3>4, Zenon DEF CountsOK
  <2> QED BY <2>1, <2>2, <2>3, <2>4 DEF PartsOK
<1> QED BY <1>4, <1>5, <1>6, <1>8, <1>9, <1>10, PartsAre DEF TasksInv

LEMMA TasksStep == TasksBounded /\ TasksInv /\ [Tasks!Next]_(Tasks!vars) => TasksInv'
<1> SUFFICES ASSUME TasksBounded, TasksInv, [Tasks!Next]_(Tasks!vars) PROVE TasksInv'
  OBVIOUS
<1>1. TypesAnd /\ ClientsKept /\ Kept
  BY DEF TypesAnd, TasksInv, TodoSafe
<1>2. CASE \E p \in Tasks!Proc : Tasks!StepOf(p)
  BY <1>1, <1>2, StepInv
<1>3. CASE \E a \in Admin : Tasks!Command(a) \/ \E c \in Client : Tasks!Add(a, c) \/ Tasks!OwnAdd(a, c)
  <2>1. \E a, c : Asks(a, c)
    BY <1>3 DEF Asks
  <2> QED BY <1>1, <2>1, RequestInv
<1>4. CASE \E c \in Client : Tasks!Config(c) \/ Tasks!CheckExpire(c)
  <2>1. \E a, c : Asks(a, c)
    BY <1>4 DEF Asks
  <2> QED BY <1>1, <2>1, RequestInv
<1>5. CASE Tasks!Crash \/ Tasks!Panic
  <2>1. Tasks!Restart /\ crashes' \in 0 .. Crashes
    <3>1. Tasks!Restart
      BY <1>5 DEF Tasks!Crash, Tasks!Panic
    <3>2. crashes \in 0 .. Crashes /\ Crashes \in Nat
      BY PartsAre DEF TasksInv, PartsOK, CountsOK, TasksBounded
    <3>3. crashes' = crashes \/ (crashes < Crashes /\ crashes' = crashes + 1)
      BY <1>5 DEF Tasks!Crash, Tasks!Panic
    <3> QED BY <3>1, <3>2, <3>3
  <2> QED BY <1>1, <2>1, RestartInv
<1>6. CASE \/ \E s \in Tasks!Server : Tasks!Listen(s)
           \/ \E c \in Client : Tasks!Verify(c) \/ Tasks!Register(c)
           \/ UNCHANGED Tasks!vars
  BY <1>1, <1>6, OthersInv
<1> QED BY <1>2, <1>3, <1>4, <1>5, <1>6 DEF Tasks!Next

(* A tunnel that is in the table keeps what it was made for.               *)
LEMMA BornStays ==
    TasksBounded /\ TasksInv /\ [Tasks!Next]_(Tasks!vars) => \A t \in tasks : t \in tasks' => task'[t].born = task[t].born
<1> SUFFICES ASSUME TasksBounded, TasksInv, [Tasks!Next]_(Tasks!vars), NEW t \in tasks, t \in tasks'
             PROVE  task'[t].born = task[t].born
  OBVIOUS
<1>1. TypesAnd /\ ClientsKept /\ Kept /\ TodoOK /\ Unborn
  BY DEF TypesAnd, TasksInv, TodoSafe
<1>2. MemoryOK /\ tasks \subseteq 1 .. lastId
  BY <1>1, PartsAre DEF TypesAnd, PartsOK, TodoSafe, Issued
<1>3. task \in [Tasks!Task -> TaskRecord] /\ t \in Tasks!Task /\ lastId \in Nat /\ t # lastId + 1
  BY <1>1, <1>2 DEF MemoryOK, TypesAnd, TasksBounded
<1>4. ASSUME NEW u, u # t, \E o : task' = [task EXCEPT ![u] = o] PROVE task'[t].born = task[t].born
  BY <1>3, <1>4
<1>5. CASE \E a, c : Tasks!Add(a, c) \/ Tasks!Config(c) \/ \E p : Tasks!Own(p)
  <2> SUFFICES ASSUME NEW u, u = lastId + 1 PROVE task'[t].born = task[t].born
    OBVIOUS
  <2>1. \E o : task' = [task EXCEPT ![u] = o]
    BY <1>5 DEF Tasks!Add, Tasks!Config, Tasks!Own
  <2> QED BY <1>3, <1>4, <2>1
<1>6. CASE \E p \in Tasks!Proc : Tasks!Create(p)
  <2>1. PICK p \in Tasks!Proc : Tasks!Create(p)
    BY <1>6
  <2> SUFFICES ASSUME NEW u, u = Tasks!Arg(p) PROVE task'[t].born = task[t].born
    OBVIOUS
  <2>2. Creates(todo[p], u) /\ u \in Tasks!Task
    <3>1. Tasks!At(p, "create")
      BY <2>1 DEF Tasks!Create
    <3> QED BY <1>1, <3>1, Head1, Kinds3 DEF Next1
  <2>3. u # t
    BY <1>1, <2>2 DEF Unborn
  <2>4. task' = [task EXCEPT ![u].status = TRUE, ![u].born = requests]
    BY <2>1 DEF Tasks!Create
  <2> QED BY <1>3, <2>3, <2>4
<1>7. CASE \E p \in Tasks!Proc : Tasks!Enable(p) \/ Tasks!Unrun(p)
  <2>1. PICK p \in Tasks!Proc : Tasks!Enable(p) \/ Tasks!Unrun(p)
    BY <1>7
  <2> SUFFICES ASSUME NEW u, u = Tasks!Arg(p) PROVE task'[t].born = task[t].born
    OBVIOUS
  <2>2. task' = task \/ \E b \in {TRUE, FALSE} : task' = [task EXCEPT ![u].status = b]
    BY <2>1 DEF Tasks!Enable, Tasks!Unrun
  <2>3. ASSUME NEW b \in {TRUE, FALSE}, task' = [task EXCEPT ![u].status = b], t = u PROVE task'[t].born = task[t].born
    <3>1. task'[t] = [task[t] EXCEPT !.status = b]
      BY <1>3, <2>3
    <3>2. task[t] \in TaskRecord
      BY <1>3
    <3> QED BY <3>1, <3>2 DEF TaskRecord
  <2>4. ASSUME NEW b \in {TRUE, FALSE}, task' = [task EXCEPT ![u].status = b], t # u PROVE task'[t].born = task[t].born
    BY <1>3, <2>4
  <2> QED BY <2>2, <2>3, <2>4
<1>8. CASE Tasks!Restart
  <2>1. PICK list : Reload(list)
    BY <1>8, RestartIs
  <2>2. t \in LoadedIds
    BY <1>1, <2>1, ReloadIs
  <2> QED BY <1>1, <2>1, <2>2, ReloadIs
<1>9. CASE task' = task
  BY <1>9
<1> QED BY <1>5, <1>6, <1>7, <1>8, <1>9
         DEF Tasks!Next, Tasks!StepOf, Tasks!Get, Tasks!Test, Tasks!Load, Tasks!Run, Tasks!CloseServer, Tasks!Del,
             Tasks!RemoveClient, Tasks!Pause, Tasks!Sweep, Tasks!Kick, Tasks!Deal, Tasks!Snapshot, Tasks!Rename,
             Tasks!Store, Tasks!Drop, Tasks!Command, Tasks!OwnAdd, Tasks!Verify, Tasks!Register, Tasks!CheckExpire,
             Tasks!Listen, Tasks!Crash, Tasks!Panic, Tasks!memory, Tasks!vars

(* With nobody at work nobody owes the file, nor holds its lock.           *)
LEMMA TasksSaved == TasksInv => Tasks!TypeOK /\ Tasks!Saved
<1> SUFFICES ASSUME TasksInv, Tasks!Quiet
             PROVE  /\ Tasks!Content("tasks") \subseteq disk["tasks"]
                    /\ \A e \in disk["tasks"] \ Tasks!Content("tasks") : e[2] \notin DOMAIN clients
  BY DEF TasksInv, Tasks!Saved
<1>1. \A p \in Tasks!Proc : Tasks!Idle(p)
  BY DEF Tasks!Quiet
<1>2. (\A p \in Tasks!Proc : ~Owes(p)) /\ Renames("tasks") = {}
  BY <1>1 DEF Owes, Renames, Tasks!At
<1>3. saving["tasks"] = <<>>
  BY <1>2 DEF TasksInv, Renaming, Tasks!File
<1>4. Good(disk["tasks"])
  BY <1>2, <1>3 DEF TasksInv, Kept
<1> QED BY <1>4 DEF Good, Covers

-----------------------------------------------------------------------------
(* The parts by themselves.                                                *)

(* Whatever becomes of a connection through the server - refused, cut by   *)
(* npc, by a target that cannot be dialled, by the loss of its tunnel -    *)
(* NowConn gives back what it took, once (obj.go:84), and one end that     *)
(* closes takes the others with it (conn.go:378).                          *)
THEOREM ConnectionsEnd == Relay!Spec => [](Relay!TypeOK /\ Relay!QuotaExact /\ Relay!AllClose)
<1>1. RelayInv /\ [Relay!Next]_(Relay!relayVars) => RelayInv'
  BY RelayStep, RelayStill DEF relayVars, Relay!relayVars
<1>2. RelayInv => Relay!TypeOK /\ Relay!QuotaExact /\ Relay!AllClose
  BY RelayInvKeeps
<1>3. QED BY RelayInitInv, <1>1, <1>2, PTL DEF Relay!Spec

(* handleHttp closes the visitor and every stream it opened, however often *)
(* the host changed and whenever the goroutines that copy back started     *)
(* (http.go:157, 251).                                                     *)
THEOREM StreamsEnd == Http!HttpSpec => [](Http!HttpTypeOK /\ Http!StreamsClosed)
<1>1. HttpInv /\ [Http!HttpNext]_(Http!httpVars) => HttpInv'
  BY HttpStep, HttpStill DEF httpVars, Http!httpVars
<1>2. HttpInv => Http!HttpTypeOK /\ Http!StreamsClosed
  BY HttpInvKeeps
<1>3. QED BY HttpInitInv, <1>1, <1>2, PTL DEF Http!HttpSpec

(* The session that a packet finds in addrMap has its builder, who takes   *)
(* it out before he leaves, and whoever waits for a session whose builder  *)
(* has left was woken (udp.go:129).                                        *)
THEOREM SessionsLive == Udp!UdpSpec => [](Udp!UdpTypeOK /\ Udp!SessionAlive)
<1>1. UdpInv /\ [Udp!UdpNext]_(Udp!udpVars) => UdpInv'
  BY UdpStep, UdpStill DEF udpVars, Udp!udpVars
<1>2. UdpInv => Udp!UdpTypeOK /\ Udp!SessionAlive
  BY UdpInvKeeps DEF UdpInv
<1>3. QED BY UdpInitInv, <1>1, <1>2, PTL DEF Udp!UdpSpec

(* A connection is served under the certificate its host had when it came, *)
(* however often hosts change theirs and whoever else loads one            *)
(* (https.go:180).                                                         *)
THEOREM CertificatesRight == Https!HttpsSpec => [](Https!HttpsTypeOK /\ Https!RightCert)
<1>1. HttpsInv /\ [Https!HttpsNext]_(Https!httpsVars) => HttpsInv'
  BY HttpsStep, HttpsStill DEF httpsVars, Https!httpsVars
<1>2. HttpsInv => Https!HttpsTypeOK /\ Https!RightCert
  BY HttpsInvKeeps DEF HttpsInv
<1>3. QED BY HttpsInitInv, <1>1, <1>2, PTL DEF Https!HttpsSpec

(* A test reports an address only after each of the two ends has heard the *)
(* other, also when the port paired sockets of different attempts          *)
(* (control.go:470).                                                       *)
THEOREM PathsWork == Punch!PunchSpec => [](Punch!PunchTypeOK /\ Punch!Mutual)
<1>1. PunchInv /\ [Punch!PunchNext]_(Punch!punchVars) => PunchInv'
  BY PunchStep, PunchStill DEF punchVars, Punch!punchVars
<1>2. PunchInv => Punch!PunchTypeOK /\ Punch!Mutual
  BY DEF PunchInv
<1>3. QED BY PunchInitInv, <1>1, <1>2, PTL DEF Punch!PunchSpec

(* Everything in memory that is to be stored is in the file once nobody is *)
(* at work, ...                                                            *)
THEOREM TunnelsSaved ==
    ASSUME TasksBounded
    PROVE  Tasks!Spec => [](Tasks!TypeOK /\ Tasks!Saved)
<1>1. Tasks!Init => TasksInv
  BY TasksInitInv
<1>2. TasksInv /\ [Tasks!Next]_(Tasks!vars) => TasksInv'
  BY TasksStep
<1>3. QED BY <1>1, <1>2, TasksSaved, PTL DEF Tasks!Spec

(* When every report has arrived the targets in use are those that are not *)
(* known to be bad, and one that is not in use can be put back             *)
(* (health.go:91, bridge.go:158): for any list of targets that names none  *)
(* twice, any number of checks that overlap, any failures it takes, any    *)
(* reports on their way and any number of lost connections.                *)
THEOREM TargetsUsed ==
    ASSUME TargetsListed
    PROVE  Health!HealthSpec => [](Health!HealthTypeOK /\ Health!UsedIfWell)
<1>1. HealthInv /\ [Health!HealthNext]_(Health!healthVars) => HealthInv'
  BY HealthStep, HealthStill
<1>2. HealthInv => Health!HealthTypeOK /\ Health!UsedIfWell
  BY HealthInvKeeps
<1>3. Health!HealthInit => HealthInv
  BY HealthInitInv
<1>4. QED BY <1>1, <1>2, <1>3, PTL DEF Health!HealthSpec

-----------------------------------------------------------------------------
(* The server.                                                             *)

(* A part that is not the behaviour's stays as it began, so each invariant *)
(* holds in every behaviour.                                               *)
ServerInv ==
    /\ part \in Part
    /\ RelayInv /\ HttpInv /\ UdpInv /\ HttpsInv /\ PunchInv
    /\ TargetsListed => HealthInv
    /\ TasksBounded => TasksInv

LEMMA ServerInitInv == ServerInit => ServerInv
BY RelayInitInv, HttpInitInv, UdpInitInv, HttpsInitInv, PunchInitInv, HealthInitInv, TasksInitInv
   DEF ServerInit, ServerInv

LEMMA ServerStep == ServerInv /\ [ServerNext]_serverVars => ServerInv'
<1> SUFFICES ASSUME ServerInv, [ServerNext]_serverVars PROVE ServerInv'
  OBVIOUS
<1>1. part' = part
  BY DEF ServerNext, OthersStill, serverVars
<1>2. Relay!Next \/ UNCHANGED relayVars
  BY DEF ServerNext, OthersStill, serverVars
<1>3. Http!HttpNext \/ UNCHANGED httpVars
  BY DEF ServerNext, OthersStill, serverVars
<1>4. Udp!UdpNext \/ UNCHANGED udpVars
  BY DEF ServerNext, OthersStill, serverVars
<1>5. Https!HttpsNext \/ UNCHANGED httpsVars
  BY DEF ServerNext, OthersStill, serverVars
<1>6. Punch!PunchNext \/ UNCHANGED punchVars
  BY DEF ServerNext, OthersStill, serverVars
<1>7. Health!HealthNext \/ UNCHANGED Health!healthVars
  BY DEF ServerNext, OthersStill, serverVars, healthVars, Health!healthVars
<1>8. TargetsListed => HealthInv'
  BY <1>7, HealthStep, HealthStill DEF ServerInv
<1>9. Tasks!Next \/ UNCHANGED Tasks!vars
  BY DEF ServerNext, OthersStill, serverVars, tasksVars, Tasks!vars, Tasks!memory, Tasks!run, Tasks!files,
         Tasks!bridge, Tasks!bounds
<1>10. TasksBounded => TasksInv'
  BY <1>9, TasksStep DEF ServerInv
<1>11. QED
  BY <1>1, <1>2, <1>3, <1>4, <1>5, <1>6, <1>8, <1>10, RelayStep, RelayStill, HttpStep, HttpStill, UdpStep, UdpStill,
     HttpsStep, HttpsStill, PunchStep, PunchStill DEF ServerInv

(* The inductive invariants of the seven parts hold together.              *)
THEOREM Invariant == ServerSpec => []ServerInv
BY ServerInitInv, ServerStep, PTL DEF ServerSpec

(* The parts keep their types, the checks those of a list of targets that  *)
(* names none twice.                                                       *)
THEOREM TypesCorrect ==
    ASSUME TasksBounded
    PROVE  ServerSpec => [](part # "queue" /\ (part = "health" => TargetsListed) => ServerTypes)
<1>1. ServerInv /\ part # "queue" /\ (part = "health" => TargetsListed) => ServerTypes
  BY RelayInvKeeps, HttpInvKeeps, HealthInvKeeps, TasksSaved
     DEF ServerInv, UdpInv, HttpsInv, PunchInv, ServerTypes
<1>2. QED BY Invariant, <1>1, PTL

(* A tunnel keeps its id for itself, whoever creates, deletes and stores   *)
(* tunnels meanwhile and however often the server starts again (file.go:54,*)
(* 152): NewTask stores a task under an id that nobody else has heard of,  *)
(* and after a restart ids go on behind the largest that was loaded.       *)
THEOREM IdsKept ==
    ASSUME TasksBounded
    PROVE  ServerSpec => IdsStay
<1>1. ServerInv /\ [ServerNext]_serverVars =>
        [\A t \in tasks : t \in tasks' => task'[t].born = task[t].born]_serverVars
  <2> SUFFICES ASSUME ServerInv, [ServerNext]_serverVars
               PROVE  \A t \in tasks : t \in tasks' => task'[t].born = task[t].born
    OBVIOUS
  <2>1. TasksInv
    BY DEF ServerInv
  <2>2. Tasks!Next \/ UNCHANGED Tasks!vars
    BY DEF ServerNext, OthersStill, serverVars, tasksVars, Tasks!vars, Tasks!memory, Tasks!run, Tasks!files,
           Tasks!bridge, Tasks!bounds
  <2> QED BY <2>1, <2>2, BornStays
<1>2. QED BY Invariant, <1>1, PTL DEF ServerSpec, IdsStay

(* Connections are counted exactly and closed at every end (obj.go:84,     *)
(* conn.go:378), streams end with their visitor (http.go:157), a packet    *)
(* finds a live session (udp.go:129), and a path is reported only once     *)
(* heard from both ends (control.go:470): for any number of visitors,      *)
(* hosts, packets and attempts.                                            *)
THEOREM TrafficEnds == ServerSpec => [](part # "queue" => TrafficSafe)
<1>1. ServerInv /\ part # "queue" => TrafficSafe
  BY RelayInvKeeps, HttpInvKeeps, UdpInvKeeps DEF ServerInv, PunchInv, TrafficSafe
<1>2. QED BY Invariant, <1>1, PTL

(* A connection is served under the certificate its host had when it came  *)
(* (https.go:180), for any number of hosts, certificates and connections;  *)
(* and the targets in use are those that are well (bridge.go:188).         *)
THEOREM RecordsAgree ==
    ServerSpec => [](part # "tasks" /\ (part = "health" => TargetsListed) => RecordsTrue)
<1>1. ServerInv /\ part # "tasks" /\ (part = "health" => TargetsListed) => RecordsTrue
  BY HttpsInvKeeps, HealthInvKeeps DEF ServerInv, RecordsTrue
<1>2. QED BY Invariant, <1>1, PTL
=============================================================================
