-------------------------- MODULE AdmissionProofs ---------------------------
(***************************************************************************)
(* Proofs about the device table, for any sets of devices and credentials, *)
(* any pool and any lease length; then about admission, for any            *)
(* connections and display names, over the invariants of the table.        *)
(***************************************************************************)
EXTENDS Admission, DeviceTableProps, TLAPS

USE PoolAssumption, TimeAssumption, NullAssumption, RuleAssumption, SaveAssumption

-----------------------------------------------------------------------------
(* What a save writes is a device file.                                    *)
LEMMA SaveType ==
    ASSUME TypeOK, saveLocked,
           known' \subseteq HWID, vip' \in [HWID -> IP \cup {0}],
           expireAt' \in [HWID -> Nat], forward' \in [HWID -> RuleSet],
           deviceID' \in [HWID -> DeviceID \cup {NoID}],
           blocked' \in [HWID -> BOOLEAN]
    PROVE  file' \in DeviceFile /\ stale' \in BOOLEAN
<1>1. CASE /\ file' = [known    |-> known',
                   vip      |-> vip',
                   expireAt |-> [h \in HWID |-> IF vip'[h] = 0 THEN 0 ELSE expireAt'[h]],
                   forward  |-> forward',
                   deviceID |-> deviceID',
                   blocked  |-> blocked']
           /\ stale' = FALSE
  <2>1. [h \in HWID |-> IF vip'[h] = 0 THEN 0 ELSE expireAt'[h]] \in [HWID -> Nat]
    OBVIOUS
  <2>2. QED BY <1>1, <2>1 DEF DeviceFile
<1>2. CASE file' = file /\ stale' = TRUE
  BY <1>2 DEF TypeOK
<1>3. QED BY <1>1, <1>2 DEF saveLocked

(* Pruning keeps the types.                                                *)
LEMMA PrunedType ==
    ASSUME TypeOK
    PROVE  /\ PrunedVIP \in [HWID -> IP \cup {0}]
           /\ PrunedExpiry \in [HWID -> Nat]
           /\ PrunedIndex \in [IP -> HWID \cup {NoHWID}]
           /\ PrunedUsed \subseteq Pool
BY DEF TypeOK, PrunedVIP, PrunedExpiry, PrunedIndex, PrunedUsed

(* The common part of the successful branches of Assign.                   *)
LEMMA LeaseType ==
    ASSUME TypeOK, NEW h \in HWID, NEW a \in IP, NEW u \in SUBSET Pool,
           NEW idx \in [IP -> HWID \cup {NoHWID}], Lease(h, a, u, idx)
    PROVE  TypeOK'
<1>1. /\ known' \subseteq HWID
      /\ vip' \in [HWID -> IP \cup {0}]
      /\ expireAt' \in [HWID -> Nat]
      /\ forward' \in [HWID -> RuleSet]
      /\ deviceID' \in [HWID -> DeviceID \cup {NoID}]
      /\ blocked' \in [HWID -> BOOLEAN]
      /\ clock + LeaseDuration \in Nat
  BY PrunedType DEF Lease, TypeOK
<1>2. file' \in DeviceFile /\ stale' \in BOOLEAN
  BY <1>1, SaveType DEF Lease
<1>3. QED BY <1>1, <1>2 DEF Lease, TypeOK

(***************************************************************************)
(* Every operation of the table keeps the types of its state.              *)
(***************************************************************************)
LEMMA TypeStep == TypeOK /\ [Next]_vars => TypeOK'
<1> SUFFICES ASSUME TypeOK, [Next]_vars PROVE TypeOK'
  OBVIOUS
<1>1. ASSUME NEW h \in HWID, NEW id \in DeviceID, SetCredential(h, id) PROVE TypeOK'
  BY <1>1, SaveType DEF SetCredential, TypeOK
<1>2. ASSUME NEW h \in HWID, ClearCredential(h) PROVE TypeOK'
  BY <1>2, SaveType DEF ClearCredential, TypeOK
<1>3. ASSUME NEW h \in HWID, Block(h) PROVE TypeOK'
  BY <1>3, SaveType DEF Block, TypeOK
<1>4. ASSUME NEW h \in HWID, Unblock(h) PROVE TypeOK'
  BY <1>4, SaveType DEF Unblock, index, TypeOK
<1>5. ASSUME NEW h \in HWID, AssignNew(h) PROVE TypeOK'
  <2>1. PICK a \in Pool : Alloc(PrunedUsed, a)
             /\ Lease(h, a, PrunedUsed \cup {a},
                   [x \in IP |-> CASE x = a -> h
                                   [] x # a /\ x = PrunedVIP[h] -> NoHWID
                                   [] OTHER -> PrunedIndex[x]])
    BY <1>5 DEF AssignNew
  <2>2. [x \in IP |-> CASE x = a -> h
                        [] x # a /\ x = PrunedVIP[h] -> NoHWID
                        [] OTHER -> PrunedIndex[x]] \in [IP -> HWID \cup {NoHWID}]
    BY PrunedType
  <2>3. a \in IP /\ PrunedUsed \cup {a} \in SUBSET Pool
    BY <2>1, PrunedType DEF IP
  <2>4. QED BY <2>1, <2>2, <2>3, LeaseType
<1>6. ASSUME NEW h \in HWID, AssignRenew(h) PROVE TypeOK'
  BY <1>6, LeaseType, PrunedType DEF AssignRenew, IP
<1>7. ASSUME NEW h \in HWID, AssignReclaim(h) PROVE TypeOK'
  BY <1>7, LeaseType, PrunedType DEF AssignReclaim, IP
<1>8. ASSUME NEW h \in HWID, AssignFull(h) PROVE TypeOK'
  BY <1>8, PrunedType DEF AssignFull, disk, TypeOK
<1>9. ASSUME NEW h \in HWID, NEW rules \in RuleSet, SetForward(h, rules) PROVE TypeOK'
  BY <1>9, SaveType DEF SetForward, index, TypeOK
<1>10. ASSUME NEW h \in HWID, NEW a \in Pool, SetIP(h, a) PROVE TypeOK'
  <2>1. [x \in IP |-> CASE x = a -> h
                        [] x # a /\ x = vip[h] -> NoHWID
                        [] OTHER -> byVIP[x]] \in [IP -> HWID \cup {NoHWID}]
    BY DEF TypeOK
  <2>2. /\ vip' \in [HWID -> IP \cup {0}]
        /\ byVIP' \in [IP -> HWID \cup {NoHWID}]
        /\ used' \subseteq Pool
    BY <1>10, <2>1 DEF SetIP, TypeOK, IP
  <2>3. file' \in DeviceFile /\ stale' \in BOOLEAN
    BY <1>10, <2>2, SaveType DEF SetIP, TypeOK
  <2>4. QED BY <1>10, <2>2, <2>3 DEF SetIP, TypeOK
<1>11. CASE Prune
  <2>1. file' \in DeviceFile /\ stale' \in BOOLEAN
    BY <1>11, PrunedType, SaveType DEF Prune, TypeOK
  <2>2. QED BY <1>11, <2>1, PrunedType DEF Prune, TypeOK
<1>12. CASE AllocAnonymous
  BY <1>12 DEF AllocAnonymous, record, index, disk, TypeOK
<1>13. ASSUME NEW a \in Pool, ReleaseAnonymous(a) PROVE TypeOK'
  BY <1>13 DEF ReleaseAnonymous, record, index, disk, TypeOK
<1>14. CASE Tick
  BY <1>14 DEF Tick, record, index, disk, TypeOK
<1>15. CASE UNCHANGED vars
  BY <1>15 DEF vars, record, index, disk, TypeOK
<1>16. QED
  BY <1>1, <1>2, <1>3, <1>4, <1>5, <1>6, <1>7, <1>8, <1>9, <1>10, <1>11,
     <1>12, <1>13, <1>14, <1>15 DEF Next, Assign, Granted

(* The initial table and the empty file are well typed.                    *)
LEMMA InitType == Init => TypeOK
<1>1. NoRules \in RuleSet
  BY RuleAssumption
<1>2. EmptyFile \in DeviceFile
  BY <1>1 DEF EmptyFile, DeviceFile
<1>3. Init => /\ blocked \in [HWID -> BOOLEAN]
              /\ stale \in BOOLEAN
  BY DEF Init
<1>4. Init => /\ known \subseteq HWID
              /\ vip \in [HWID -> IP \cup {0}]
              /\ expireAt \in [HWID -> Nat]
              /\ forward \in [HWID -> RuleSet]
              /\ deviceID \in [HWID -> DeviceID \cup {NoID}]
              /\ byVIP \in [IP -> HWID \cup {NoHWID}]
              /\ byDeviceID \in [DeviceID -> HWID \cup {NoHWID}]
              /\ used \subseteq Pool
              /\ anon \subseteq Pool
              /\ clock \in Nat \ {0}
  BY <1>1 DEF Init
<1>5. QED BY <1>2, <1>3, <1>4 DEF Init, TypeOK

(***************************************************************************)
(* The state of the table stays well typed during one server lifetime.     *)
(***************************************************************************)
THEOREM TypeCorrect == Spec => []TypeOK
BY InitType, TypeStep, PTL DEF Spec

-----------------------------------------------------------------------------
(* A table (addresses v, reverse index i) and a pool u that agree.         *)
Exact(v, i, u) ==
    /\ \A g, h \in HWID : v[g] # 0 /\ v[g] = v[h] => g = h
    /\ \A a \in IP, h \in HWID : i[a] = h <=> v[h] = a
    /\ \A h \in HWID : v[h] \in Pool \cup {0}
    /\ \A a \in Pool : a \in u <=> a \in anon \/ \E h \in HWID : v[h] = a
    /\ \A a \in anon, h \in HWID : v[h] # a

(* Inductive for one server lifetime: the two stated invariants, and every *)
(* address belongs to a record, which is where pruneLocked looks for it.   *)
LeaseInv ==
    /\ TypeOK
    /\ UniqueLease
    /\ PoolExact
    /\ \A h \in HWID : vip[h] # 0 => h \in known

(* The invariant says that used, the index and the records agree exactly.  *)
LEMMA ExactState ==
    ASSUME TypeOK
    PROVE  UniqueLease /\ PoolExact <=> Exact(vip, byVIP, used)
<1>1. 0 \notin Pool
  BY PoolAssumption DEF Pool
<1>2. PoolExact => /\ \A a \in Pool : a \in used <=> a \in anon \/ \E h \in HWID : vip[h] = a
                   /\ \A a \in anon, h \in HWID : vip[h] # a
  BY <1>1 DEF PoolExact, Leased, TypeOK
<1>3. ASSUME Exact(vip, byVIP, used) PROVE PoolExact
  <2>1. \A x \in Leased : x \in Pool
    BY <1>3 DEF Leased, Exact
  <2>2. used = Leased \cup anon
    BY <1>1, <1>3, <2>1 DEF Exact, Leased, TypeOK
  <2>3. Leased \cap anon = {}
    BY <1>3 DEF Exact, Leased
  <2>4. QED BY <2>2, <2>3 DEF PoolExact
<1>4. QED BY <1>2, <1>3 DEF Exact, UniqueLease

(* The same fact about the next state.                                     *)
LEMMA ExactNextState ==
    ASSUME TypeOK', anon' = anon, Exact(vip', byVIP', used')
    PROVE  UniqueLease' /\ PoolExact'
<1>1. 0 \notin Pool
  BY PoolAssumption DEF Pool
<1>2. \A x \in Leased' : x \in Pool
  BY DEF Leased, Exact
<1>3. used' = Leased' \cup anon'
  BY <1>1, <1>2 DEF Exact, Leased, TypeOK
<1>4. Leased' \cap anon' = {}
  BY DEF Exact, Leased
<1>5. QED BY <1>3, <1>4 DEF Exact, UniqueLease, PoolExact

(* Pruning takes matching entries out of the table, the index and the pool.*)
LEMMA PrunedExact ==
    ASSUME LeaseInv
    PROVE  Exact(PrunedVIP, PrunedIndex, PrunedUsed)
<1>1. Exact(vip, byVIP, used)
  BY ExactState DEF LeaseInv
<1>2. 0 \notin Pool /\ 0 \notin IP
  BY PoolAssumption DEF Pool, IP
<1>3. \A h \in HWID : PrunedVIP[h] = IF h \in Expired THEN 0 ELSE vip[h]
  BY DEF PrunedVIP
<1>4. \A a \in IP : PrunedIndex[a] = IF \E h \in Expired : vip[h] = a THEN NoHWID ELSE byVIP[a]
  BY DEF PrunedIndex
<1>5. Expired \subseteq HWID /\ \A h \in Expired : vip[h] # 0
  BY DEF Expired, LeaseInv, TypeOK
<1>6. \A a \in IP, h \in HWID : PrunedIndex[a] = h <=> PrunedVIP[h] = a
  <2> SUFFICES ASSUME NEW a \in IP, NEW h \in HWID
               PROVE  PrunedIndex[a] = h <=> PrunedVIP[h] = a
    OBVIOUS
  <2>1. CASE \E g \in Expired : vip[g] = a
    <3>1. PICK g \in Expired : vip[g] = a
      BY <2>1
    <3>2. PrunedIndex[a] # h
      BY <1>4, <2>1, NullAssumption
    <3>3. PrunedVIP[h] # a
      BY <1>1, <1>2, <1>3, <1>5, <3>1 DEF Exact
    <3>4. QED BY <3>2, <3>3
  <2>2. CASE ~ \E g \in Expired : vip[g] = a
    <3>1. PrunedIndex[a] = h <=> vip[h] = a
      BY <1>1, <1>4, <2>2 DEF Exact
    <3>2. PrunedVIP[h] = a <=> vip[h] = a
      BY <1>2, <1>3, <2>2
    <3>3. QED BY <3>1, <3>2
  <2>3. QED BY <2>1, <2>2
<1>7. \A a \in Pool : a \in PrunedUsed <=> a \in anon \/ \E h \in HWID : PrunedVIP[h] = a
  <2>1. \A a \in Pool : a \in PrunedUsed <=> a \in used /\ \A h \in Expired : vip[h] # a
    BY DEF PrunedUsed
  <2>2. QED BY <1>1, <1>2, <1>3, <1>5, <2>1 DEF Exact
<1>8. QED BY <1>1, <1>2, <1>3, <1>6, <1>7 DEF Exact, LeaseInv, TypeOK

(* Giving device h the free address a, in place of the one it may have.    *)
LEMMA MoveExact ==
    ASSUME NEW v \in [HWID -> IP \cup {0}], NEW i \in [IP -> HWID \cup {NoHWID}],
           NEW u \in SUBSET Pool, Exact(v, i, u),
           NEW h \in HWID, NEW a \in Pool, a \notin u
    PROVE  Exact([v EXCEPT ![h] = a],
                 [x \in IP |-> CASE x = a -> h
                                 [] x # a /\ x = v[h] -> NoHWID
                                 [] OTHER -> i[x]],
                 (u \cup {a}) \ {v[h]})
<1> DEFINE w == [v EXCEPT ![h] = a]
           j == [x \in IP |-> CASE x = a -> h
                                [] x # a /\ x = v[h] -> NoHWID
                                [] OTHER -> i[x]]
           q == (u \cup {a}) \ {v[h]}
<1>0. /\ \A g \in HWID : v[g] \in Pool \cup {0}
      /\ \A x \in anon, g \in HWID : v[g] # x
  BY DEF Exact
<1>1. a \in IP /\ 0 \notin Pool /\ a # v[h]
  BY PoolAssumption DEF Pool, IP, Exact
<1>2. \A g \in HWID : v[g] # a
  BY DEF Exact
<1>3. \A g \in HWID : w[g] = IF g = h THEN a ELSE v[g]
  OBVIOUS
<1>4. \A x \in IP : j[x] = IF x = a THEN h ELSE IF x = v[h] THEN NoHWID ELSE i[x]
  OBVIOUS
<1>a. w \in [HWID -> IP \cup {0}] /\ j \in [IP -> HWID \cup {NoHWID}]
  BY <1>1
<1>b. \A x : x \in q <=> (x \in u \/ x = a) /\ x # v[h]
  OBVIOUS
<1> HIDE DEF w, j, q
<1>5. \A f, g \in HWID : w[f] # 0 /\ w[f] = w[g] => f = g
  BY <1>2, <1>3 DEF Exact
<1>6. \A x \in IP, g \in HWID : j[x] = g <=> w[g] = x
  <2> SUFFICES ASSUME NEW x \in IP, NEW g \in HWID PROVE j[x] = g <=> w[g] = x
    OBVIOUS
  <2>1. CASE x = a
    BY <1>2, <1>3, <1>4, <2>1
  <2>2. CASE x # a /\ x = v[h]
    <3>1. x # 0
      BY PoolAssumption DEF IP, Pool
    <3>2. g # h => v[g] # x
      BY <2>2, <3>1 DEF Exact
    <3>3. QED BY <1>3, <1>4, <2>2, <3>2, NullAssumption
  <2>3. CASE x # a /\ x # v[h]
    BY <1>3, <1>4, <2>3 DEF Exact
  <2>4. QED BY <2>1, <2>2, <2>3
<1>7. \A g \in HWID : w[g] \in Pool \cup {0}
  BY <1>0, <1>3
<1>8. \A x \in Pool : x \in q <=> x \in anon \/ \E g \in HWID : w[g] = x
  <2> SUFFICES ASSUME NEW x \in Pool PROVE x \in q <=> x \in anon \/ \E g \in HWID : w[g] = x
    OBVIOUS
  <2>1. CASE x = a
    BY <1>1, <1>3, <1>a, <1>b, <2>1
  <2>2. CASE x = v[h]
    <3>1. x \notin anon /\ x # 0 /\ x # a
      BY <1>1, <2>2 DEF Exact
    <3>2. \A g \in HWID : w[g] # x
      <4> SUFFICES ASSUME NEW g \in HWID PROVE w[g] # x
        OBVIOUS
      <4>1. CASE g = h
        BY <1>3, <3>1, <4>1
      <4>2. CASE g # h
        BY <1>3, <2>2, <3>1, <4>2 DEF Exact
      <4>3. QED BY <4>1, <4>2
    <3>3. QED BY <1>b, <2>2, <3>1, <3>2
  <2>3. CASE x # a /\ x # v[h]
    BY <1>3, <1>a, <1>b, <2>3 DEF Exact
  <2>4. QED BY <2>1, <2>2, <2>3
<1>9. \A x \in anon, g \in HWID : w[g] # x
  <2>1. a \notin anon
    BY DEF Exact
  <2>2. QED BY <1>0, <1>3, <2>1
<1>10. Exact(w, j, q)
  BY <1>5, <1>6, <1>7, <1>8, <1>9 DEF Exact
<1>11. QED BY <1>10 DEF w, j, q

-----------------------------------------------------------------------------
(* In one lifetime an address that a record holds is marked in the pool, so*)
(* only a record without an address is given a new one, and Assign never   *)
(* takes an address back into the pool.                                    *)
LEMMA AssignCases ==
    ASSUME LeaseInv, NEW h \in HWID
    PROVE  /\ NeedsNew(h) => PrunedVIP[h] = 0
           /\ ~ AssignReclaim(h)
<1>1. Exact(PrunedVIP, PrunedIndex, PrunedUsed)
  BY PrunedExact
<1>2. 0 \notin Pool
  BY PoolAssumption DEF Pool
<1>3. QED BY <1>1, <1>2 DEF Exact, NeedsNew, AssignReclaim

(* Only a known record has an address once pruning is done.                *)
LEMMA PrunedKnown ==
    ASSUME LeaseInv
    PROVE  \A h \in HWID : PrunedVIP[h] # 0 => h \in known
BY DEF LeaseInv, PrunedVIP

(***************************************************************************)
(* Every operation keeps the table, the index and the pool in agreement.   *)
(***************************************************************************)
LEMMA LeaseStep == LeaseInv /\ [Next]_vars => LeaseInv'
<1> SUFFICES ASSUME LeaseInv, [Next]_vars PROVE LeaseInv'
  OBVIOUS
<1> DEFINE Rest == \A g \in HWID : vip[g] # 0 => g \in known
<1>1. TypeOK /\ TypeOK'
  BY TypeStep DEF LeaseInv
<1>2. ASSUME anon' = anon, Exact(vip', byVIP', used'), Rest' PROVE LeaseInv'
  BY <1>1, <1>2, ExactNextState DEF LeaseInv
<1>3. ASSUME UNCHANGED <<vip, byVIP, used, anon>>, known \subseteq known' PROVE LeaseInv'
  <2>1. Exact(vip, byVIP, used)
    BY ExactState DEF LeaseInv
  <2>2. QED BY <1>2, <1>3, <2>1 DEF LeaseInv, Exact
<1>4. ASSUME NEW h \in HWID, NEW id \in DeviceID, SetCredential(h, id) PROVE LeaseInv'
  BY <1>3, <1>4 DEF SetCredential
<1>5. ASSUME NEW h \in HWID, ClearCredential(h) PROVE LeaseInv'
  BY <1>3, <1>5 DEF ClearCredential
<1>6. ASSUME NEW h \in HWID, Block(h) PROVE LeaseInv'
  BY <1>3, <1>6 DEF Block
<1>7. ASSUME NEW h \in HWID, Unblock(h) PROVE LeaseInv'
  BY <1>3, <1>7 DEF Unblock, index
<1>8. ASSUME NEW h \in HWID, AssignNew(h) PROVE LeaseInv'
  <2>1. PICK a \in Pool : Alloc(PrunedUsed, a)
             /\ Lease(h, a, PrunedUsed \cup {a},
                   [x \in IP |-> CASE x = a -> h
                                   [] x # a /\ x = PrunedVIP[h] -> NoHWID
                                   [] OTHER -> PrunedIndex[x]])
    BY <1>8 DEF AssignNew
  <2>2. PrunedVIP[h] = 0
    BY <1>8, AssignCases DEF AssignNew
  <2>3. Exact(PrunedVIP, PrunedIndex, PrunedUsed)
    BY PrunedExact
  <2>4. Exact([PrunedVIP EXCEPT ![h] = a],
              [x \in IP |-> CASE x = a -> h
                              [] x # a /\ x = PrunedVIP[h] -> NoHWID
                              [] OTHER -> PrunedIndex[x]],
              (PrunedUsed \cup {a}) \ {PrunedVIP[h]})
    BY <1>1, <2>1, <2>3, MoveExact, PrunedType DEF Alloc
  <2>5. (PrunedUsed \cup {a}) \ {PrunedVIP[h]} = PrunedUsed \cup {a}
    <3>1. 0 \notin Pool
      BY PoolAssumption DEF Pool
    <3>2. QED BY <1>1, <2>2, <3>1, PrunedType
  <2>6. Exact(vip', byVIP', used')
    BY <2>1, <2>4, <2>5 DEF Lease
  <2>7. Rest'
    BY <1>1, <2>1, PrunedType, PrunedKnown DEF Lease
  <2>8. QED BY <1>2, <2>1, <2>6, <2>7 DEF Lease
<1>9. ASSUME NEW h \in HWID, AssignRenew(h) PROVE LeaseInv'
  <2>1. [PrunedVIP EXCEPT ![h] = PrunedVIP[h]] = PrunedVIP
    BY <1>1, PrunedType
  <2>2. vip' = PrunedVIP /\ byVIP' = PrunedIndex /\ used' = PrunedUsed /\ anon' = anon
    BY <1>9, <2>1 DEF AssignRenew, Lease
  <2>3. Rest'
    BY <1>9, <2>2, PrunedKnown DEF AssignRenew, Lease
  <2>4. QED BY <1>2, <2>2, <2>3, PrunedExact
<1>10. ASSUME NEW h \in HWID, AssignFull(h) PROVE LeaseInv'
  <2>1. Rest'
    BY <1>10, PrunedKnown DEF AssignFull
  <2>2. QED BY <1>2, <1>10, <2>1, PrunedExact DEF AssignFull
<1>11. ASSUME NEW h \in HWID, NEW rules \in RuleSet, SetForward(h, rules) PROVE LeaseInv'
  BY <1>3, <1>11 DEF SetForward, index
<1>12. ASSUME NEW h \in HWID, NEW a \in Pool, SetIP(h, a) PROVE LeaseInv'
  <2>1. Exact(vip, byVIP, used)
    BY <1>1, ExactState DEF LeaseInv
  <2>2. Exact(vip', byVIP', used')
    <3>1. /\ vip \in [HWID -> IP \cup {0}] /\ byVIP \in [IP -> HWID \cup {NoHWID}]
          /\ used \in SUBSET Pool
      BY <1>1 DEF TypeOK
    <3>2. Exact([vip EXCEPT ![h] = a],
                [x \in IP |-> CASE x = a -> h
                                [] x # a /\ x = vip[h] -> NoHWID
                                [] OTHER -> byVIP[x]],
                (used \cup {a}) \ {vip[h]})
      BY <1>12, <2>1, <3>1, MoveExact DEF SetIP
    <3>3. QED BY <1>12, <3>2 DEF SetIP
  <2>3. Rest'
    BY <1>1, <1>12 DEF SetIP, LeaseInv, TypeOK
  <2>4. QED BY <1>2, <1>12, <2>2, <2>3 DEF SetIP
<1>13. CASE Prune
  <2>1. Rest'
    BY <1>13, PrunedKnown DEF Prune
  <2>2. QED BY <1>2, <1>13, <2>1, PrunedExact DEF Prune
<1>14. CASE AllocAnonymous
  <2>1. PICK a \in Pool : a \notin used /\ used' = used \cup {a} /\ anon' = anon \cup {a}
    BY <1>14 DEF AllocAnonymous, Alloc
  <2>2. UNCHANGED <<vip, byVIP, known>>
    BY <1>14 DEF AllocAnonymous, record, index
  <2>3. UniqueLease'
    BY <2>2 DEF UniqueLease, LeaseInv
  <2>4. PoolExact'
    BY <2>1, <2>2 DEF PoolExact, Leased, LeaseInv
  <2>5. QED BY <1>1, <2>2, <2>3, <2>4 DEF LeaseInv
<1>15. ASSUME NEW a \in Pool, ReleaseAnonymous(a) PROVE LeaseInv'
  <2>1. a \in anon /\ used' = used \ {a} /\ anon' = anon \ {a}
    BY <1>15 DEF ReleaseAnonymous
  <2>2. UNCHANGED <<vip, byVIP, known>>
    BY <1>15 DEF ReleaseAnonymous, record, index
  <2>3. UniqueLease'
    BY <2>2 DEF UniqueLease, LeaseInv
  <2>4. PoolExact'
    BY <2>1, <2>2 DEF PoolExact, Leased, LeaseInv
  <2>5. QED BY <1>1, <2>2, <2>3, <2>4 DEF LeaseInv
<1>16. CASE Tick
  BY <1>3, <1>16 DEF Tick, record, index
<1>17. CASE UNCHANGED vars
  BY <1>3, <1>17 DEF vars, record, index
<1>18. QED
  BY <1>4, <1>5, <1>6, <1>7, <1>8, <1>9, <1>10, <1>11, <1>12, <1>13, <1>14,
     <1>15, <1>16, <1>17, AssignCases DEF Next, Assign, Granted

(* The empty table and the empty pool agree.                               *)
LEMMA LeaseInit == Init => LeaseInv
<1> SUFFICES ASSUME Init PROVE LeaseInv
  OBVIOUS
<1>1. TypeOK
  BY InitType
<1>2. 0 \notin IP
  BY PoolAssumption DEF IP, Pool
<1>3. UniqueLease
  BY <1>2, NullAssumption DEF Init, UniqueLease
<1>4. PoolExact
  BY DEF Init, PoolExact, Leased
<1>5. QED BY <1>1, <1>3, <1>4 DEF Init, LeaseInv

(***************************************************************************)
(* During one server lifetime no two devices share an address and the      *)
(* reverse index is exact, for any number of devices and any pool.         *)
(***************************************************************************)
THEOREM LeasesUnique == Spec => []UniqueLease
<1>1. LeaseInv => UniqueLease
  BY DEF LeaseInv
<1>2. QED BY LeaseInit, LeaseStep, <1>1, PTL DEF Spec

(***************************************************************************)
(* During one server lifetime the pool marks exactly the addresses that    *)
(* are leased or lent: none leaks and none in use can be handed out.       *)
(***************************************************************************)
THEOREM PoolNeverLeaks == Spec => []PoolExact
<1>1. LeaseInv => PoolExact
  BY DEF LeaseInv
<1>2. QED BY LeaseInit, LeaseStep, <1>1, PTL DEF Spec

-----------------------------------------------------------------------------
(* Pruning takes back exactly the leases that have lapsed.                 *)
LEMMA KeptIsPruned ==
    ASSUME LeaseInv
    PROVE  /\ Promise!Lapsed = Expired
           /\ Promise!Kept = PrunedVIP
           /\ Promise!KeptUntil = PrunedExpiry
<1>1. Promise!Lapsed = Expired
  BY DEF Promise!Lapsed, Expired, LeaseInv, TypeOK
<1>2. QED BY <1>1 DEF Promise!Kept, Promise!KeptUntil, PrunedVIP, PrunedExpiry

(* An address outside the pool's used set is free in the abstract sense.   *)
LEMMA UnusedIsFree ==
    ASSUME NEW v, NEW i, NEW u, Exact(v, i, u), NEW a \in Pool, a \notin u
    PROVE  a \in Promise!Free(v)
BY DEF Exact, Promise!Free

(* When Assign finds no address, no lease had lapsed.                      *)
LEMMA FullMeansLeased ==
    ASSUME LeaseInv, NEW h \in HWID, AssignFull(h)
    PROVE  UNCHANGED <<vip, expireAt, anon, clock>>
<1>1. Expired = {}
  <2> SUFFICES ASSUME NEW g \in Expired PROVE FALSE
    OBVIOUS
  <2>1. g \in HWID /\ vip[g] # 0
    BY DEF Expired, LeaseInv, TypeOK
  <2>2. vip[g] \in Pool
    BY <2>1 DEF LeaseInv, UniqueLease
  <2>3. vip[g] \notin PrunedUsed
    BY DEF PrunedUsed
  <2>4. QED BY <2>2, <2>3 DEF AssignFull
<1>2. PrunedVIP = vip /\ PrunedExpiry = expireAt
  BY <1>1 DEF PrunedVIP, PrunedExpiry, LeaseInv, TypeOK
<1>3. QED BY <1>2 DEF AssignFull

(* Every operation of the table is a step of the promise, or none.         *)
LEMMA PromiseStep == LeaseInv /\ [Next]_vars => [Promise!Next]_(Promise!vars)
<1> SUFFICES ASSUME LeaseInv, [Next]_vars PROVE [Promise!Next]_(Promise!vars)
  OBVIOUS
<1>1. ASSUME UNCHANGED <<vip, expireAt, anon, clock>> PROVE UNCHANGED Promise!vars
  BY <1>1 DEF Promise!vars
<1>2. ASSUME NEW h \in HWID, NEW id \in DeviceID, SetCredential(h, id)
      PROVE  UNCHANGED Promise!vars
  BY <1>1, <1>2 DEF SetCredential
<1>3. ASSUME NEW h \in HWID, ClearCredential(h) \/ Block(h) \/ Unblock(h)
      PROVE  UNCHANGED Promise!vars
  BY <1>1, <1>3 DEF ClearCredential, Block, Unblock
<1>4. ASSUME NEW h \in HWID, NEW rules \in RuleSet, SetForward(h, rules)
      PROVE  UNCHANGED Promise!vars
  BY <1>1, <1>4 DEF SetForward
<1>5. ASSUME NEW h \in HWID, AssignNew(h) PROVE Promise!Connect(h)
  <2>1. PICK a \in Pool : Alloc(PrunedUsed, a)
             /\ Lease(h, a, PrunedUsed \cup {a},
                   [x \in IP |-> CASE x = a -> h
                                   [] x # a /\ x = PrunedVIP[h] -> NoHWID
                                   [] OTHER -> PrunedIndex[x]])
    BY <1>5 DEF AssignNew
  <2>2. PrunedVIP[h] = 0
    BY <1>5, AssignCases DEF AssignNew
  <2>3. a \in Promise!Free(PrunedVIP)
    BY <2>1, PrunedExact, UnusedIsFree DEF Alloc
  <2>4. QED BY <2>1, <2>2, <2>3, KeptIsPruned DEF Lease, Promise!Connect
<1>6. ASSUME NEW h \in HWID, AssignRenew(h) PROVE Promise!Connect(h)
  BY <1>6, KeptIsPruned DEF AssignRenew, Lease, Promise!Connect
<1>7. ASSUME NEW h \in HWID, AssignFull(h) PROVE UNCHANGED Promise!vars
  BY <1>1, <1>7, FullMeansLeased
<1>8. ASSUME NEW h \in HWID, NEW a \in Pool, SetIP(h, a) PROVE Promise!Move(h, a)
  <2>1. a \in Promise!Free(vip)
    <3>1. Exact(vip, byVIP, used)
      BY ExactState DEF LeaseInv
    <3>2. QED BY <1>8, <3>1, UnusedIsFree DEF SetIP
  <2>2. QED BY <1>8, <2>1 DEF SetIP, Promise!Move
<1>9. ASSUME Prune PROVE Promise!Reclaim
  BY <1>9, KeptIsPruned DEF Prune, Promise!Reclaim
<1>10. ASSUME AllocAnonymous PROVE \E a \in Pool : Promise!GuestIn(a)
  <2>1. PICK a \in Pool : a \notin used /\ anon' = anon \cup {a}
    BY <1>10 DEF AllocAnonymous, Alloc
  <2>2. a \in Promise!Free(vip)
    <3>1. Exact(vip, byVIP, used)
      BY ExactState DEF LeaseInv
    <3>2. QED BY <2>1, <3>1, UnusedIsFree
  <2>3. QED BY <1>10, <2>1, <2>2 DEF AllocAnonymous, record, Promise!GuestIn
<1>11. ASSUME NEW a \in Pool, ReleaseAnonymous(a) PROVE Promise!GuestOut(a)
  BY <1>11 DEF ReleaseAnonymous, record, Promise!GuestOut
<1>12. ASSUME Tick PROVE Promise!Pass
  BY <1>12 DEF Tick, record, Promise!Pass
<1>13. CASE UNCHANGED vars
  BY <1>1, <1>13 DEF vars, record
<1>14. QED
  BY <1>2, <1>3, <1>4, <1>5, <1>6, <1>7, <1>8, <1>9, <1>10, <1>11, <1>12, <1>13,
     AssignCases DEF Next, Assign, Granted, Promise!Next

(* The empty table is an initial state of the promise.                     *)
LEMMA PromiseInit == Init => Promise!Init
BY DEF Init, Promise!Init

(***************************************************************************)
(* In every behaviour of one server lifetime the table keeps its promise   *)
(* about addresses: whoever connects before the lease lapses gets the same *)
(* address, and nobody is turned away while an address is free.            *)
(***************************************************************************)
THEOREM TableKeepsPromise == Spec => LeasePromise
BY PromiseInit, PromiseStep, LeaseInit, LeaseStep, PTL DEF Spec, LeasePromise, Promise!Spec

-----------------------------------------------------------------------------
(* Restarts, failed saves, edited and lost files.                          *)

(* The file never gives one credential to two entries; with the index this *)
(* is inductive over any number of server lifetimes.                       *)
CredentialInv ==
    /\ TypeOK
    /\ CredentialIndex
    /\ \A h \in HWID : deviceID[h] # NoID => h \in known
    /\ \A g, h \in HWID : file.deviceID[h] # NoID =>
          /\ h \in file.known
          /\ file.deviceID[g] = file.deviceID[h] => g = h

(* Loading a device file gives a well typed table.                         *)
LEMMA LoadType ==
    ASSUME TypeOK, NEW f \in DeviceFile, Load(f)
    PROVE  TypeOK'
<1>1. /\ f.known \subseteq HWID
      /\ f.vip \in [HWID -> IP \cup {0}]
      /\ f.expireAt \in [HWID -> Nat]
      /\ f.forward \in [HWID -> RuleSet]
      /\ f.deviceID \in [HWID -> DeviceID \cup {NoID}]
      /\ f.blocked \in [HWID -> BOOLEAN]
  BY DEF DeviceFile
<1>2. QED BY <1>1 DEF Load, TypeOK

(* An edited file is a device file; only addresses differ.                 *)
LEMMA EditedFile ==
    ASSUME TypeOK, NEW h \in HWID, NEW a \in ForeignIP \cup Pool \cup {0}
    PROVE  LET f == [file EXCEPT !.vip[h] = a]
           IN  f \in DeviceFile /\ f.known = file.known /\ f.deviceID = file.deviceID
BY DEF TypeOK, DeviceFile, IP

(* Restarts keep the types, also from an edited file or from none.         *)
LEMMA MaintainedTypeStep == TypeOK /\ [MaintainedNext]_vars => TypeOK'
<1> SUFFICES ASSUME TypeOK, [MaintainedNext]_vars PROVE TypeOK'
  OBVIOUS
<1>1. CASE [Next]_vars
  BY <1>1, TypeStep
<1>2. CASE Restart
  BY <1>2, LoadType DEF Restart, TypeOK
<1>3. ASSUME NEW h \in HWID, NEW a \in ForeignIP \cup Pool \cup {0}, RestartEdited(h, a)
      PROVE  TypeOK'
  BY <1>3, LoadType, EditedFile DEF RestartEdited
<1>4. CASE RestartFileLost
  <2>1. EmptyFile \in DeviceFile
    <3>1. NoRules \in RuleSet
      BY RuleAssumption
    <3>2. QED BY <3>1 DEF EmptyFile, DeviceFile
  <2>2. QED BY <1>4, <2>1, LoadType DEF RestartFileLost
<1>5. QED BY <1>1, <1>2, <1>3, <1>4 DEF MaintainedNext, RestartNext

(* A save of a table whose credentials are unique leaves such a file.      *)
LEMMA CredentialSave ==
    ASSUME TypeOK', CredentialInv, saveLocked, CredentialIndex',
           \A h \in HWID : deviceID'[h] # NoID => h \in known'
    PROVE  CredentialInv'
<1>1. \A g, h \in HWID : deviceID'[h] # NoID /\ deviceID'[g] = deviceID'[h] => g = h
  BY DEF CredentialIndex, TypeOK
<1>2. CASE file' = file
  BY <1>2 DEF CredentialInv
<1>3. CASE file' # file
  <2>1. file'.deviceID = deviceID' /\ file'.known = known'
    BY <1>3 DEF saveLocked
  <2>2. QED BY <1>1, <2>1 DEF CredentialInv
<1>4. QED BY <1>2, <1>3

(* An operation that leaves credentials alone keeps them consistent.       *)
LEMMA CredentialFrame ==
    ASSUME TypeOK', CredentialInv, UNCHANGED <<deviceID, byDeviceID>>,
           known \subseteq known', saveLocked \/ UNCHANGED file
    PROVE  CredentialInv'
<1>1. /\ CredentialIndex'
      /\ \A h \in HWID : deviceID'[h] # NoID => h \in known'
  BY DEF CredentialInv, CredentialIndex
<1>2. CASE saveLocked
  BY <1>1, <1>2, CredentialSave
<1>3. CASE UNCHANGED file
  BY <1>1, <1>3 DEF CredentialInv
<1>4. QED BY <1>2, <1>3

(* Loading indexes the credentials of the file exactly.                    *)
LEMMA CredentialLoad ==
    ASSUME TypeOK', NEW f \in DeviceFile, Load(f),
           \A g, h \in HWID : f.deviceID[h] # NoID =>
              h \in f.known /\ (f.deviceID[g] = f.deviceID[h] => g = h)
    PROVE  CredentialInv'
<1>1. /\ deviceID' = f.deviceID /\ known' = f.known /\ file' = f
      /\ f.deviceID \in [HWID -> DeviceID \cup {NoID}]
      /\ f.known \subseteq HWID
  BY DEF Load, DeviceFile
<1>2. ASSUME NEW id \in DeviceID, NEW h \in HWID
      PROVE  byDeviceID'[id] = h <=> f.deviceID[h] = id
  <2>1. LET named == {g \in f.known : f.deviceID[g] = id}
        IN  IF named = {} THEN byDeviceID'[id] = NoHWID ELSE byDeviceID'[id] \in named
    BY DEF Load
  <2>2. id # NoID
    BY NullAssumption
  <2>3. QED BY <1>1, <2>1, <2>2, NullAssumption
<1>3. CredentialIndex'
  BY <1>1, <1>2 DEF CredentialIndex
<1>4. QED BY <1>1, <1>3 DEF CredentialInv

(* Every step, a restart included, keeps credentials and their index exact.*)
LEMMA CredentialStep == CredentialInv /\ [MaintainedNext]_vars => CredentialInv'
<1> SUFFICES ASSUME CredentialInv, [MaintainedNext]_vars PROVE CredentialInv'
  OBVIOUS
<1>1. TypeOK /\ TypeOK'
  BY MaintainedTypeStep DEF CredentialInv
<1>2. ASSUME NEW h \in HWID, NEW id \in DeviceID, SetCredential(h, id) PROVE CredentialInv'
  <2>1. CredentialIndex'
    BY <1>1, <1>2, NullAssumption DEF SetCredential, CredentialInv, CredentialIndex, TypeOK
  <2>2. \A g \in HWID : deviceID'[g] # NoID => g \in known'
    BY <1>1, <1>2 DEF SetCredential, CredentialInv, TypeOK
  <2>3. QED BY <1>1, <1>2, <2>1, <2>2, CredentialSave DEF SetCredential
<1>3. ASSUME NEW h \in HWID, ClearCredential(h) PROVE CredentialInv'
  <2>1. CredentialIndex'
    BY <1>1, <1>3, NullAssumption DEF ClearCredential, CredentialInv, CredentialIndex, TypeOK
  <2>2. \A g \in HWID : deviceID'[g] # NoID => g \in known'
    BY <1>1, <1>3 DEF ClearCredential, CredentialInv, TypeOK
  <2>3. QED BY <1>1, <1>3, <2>1, <2>2, CredentialSave DEF ClearCredential
<1>4. ASSUME NEW h \in HWID, Block(h) PROVE CredentialInv'
  <2>1. CredentialIndex'
    BY <1>1, <1>4, NullAssumption DEF Block, CredentialInv, CredentialIndex, TypeOK
  <2>2. \A g \in HWID : deviceID'[g] # NoID => g \in known'
    BY <1>1, <1>4 DEF Block, CredentialInv, TypeOK
  <2>3. QED BY <1>1, <1>4, <2>1, <2>2, CredentialSave DEF Block
<1>5. ASSUME NEW h \in HWID, Unblock(h) PROVE CredentialInv'
  BY <1>1, <1>5, CredentialFrame DEF Unblock, index
<1>6. ASSUME NEW h \in HWID, Assign(h) PROVE CredentialInv'
  <2>1. UNCHANGED <<deviceID, byDeviceID>> /\ known \subseteq known'
    BY <1>6 DEF Assign, Granted, AssignNew, AssignRenew, AssignReclaim, AssignFull, Lease
  <2>2. saveLocked \/ UNCHANGED file
    BY <1>6 DEF Assign, Granted, AssignNew, AssignRenew, AssignReclaim, AssignFull, Lease, disk
  <2>3. QED BY <1>1, <2>1, <2>2, CredentialFrame
<1>7. ASSUME NEW h \in HWID, NEW rules \in RuleSet, SetForward(h, rules) PROVE CredentialInv'
  BY <1>1, <1>7, CredentialFrame DEF SetForward, index
<1>8. ASSUME NEW h \in HWID, NEW a \in Pool, SetIP(h, a) PROVE CredentialInv'
  BY <1>1, <1>8, CredentialFrame DEF SetIP
<1>9. CASE Prune
  BY <1>1, <1>9, CredentialFrame DEF Prune
<1>10. ASSUME AllocAnonymous \/ (\E a \in Pool : ReleaseAnonymous(a)) \/ Tick \/ UNCHANGED vars
       PROVE  CredentialInv'
  <2>1. UNCHANGED <<deviceID, byDeviceID, known, file>>
    BY <1>10 DEF AllocAnonymous, ReleaseAnonymous, Tick, vars, record, index, disk
  <2>2. QED BY <1>1, <2>1, CredentialFrame
<1>11. CASE Restart
  BY <1>1, <1>11, CredentialLoad DEF Restart, CredentialInv, TypeOK
<1>12. ASSUME NEW h \in HWID, NEW a \in ForeignIP \cup Pool \cup {0}, RestartEdited(h, a)
       PROVE  CredentialInv'
  <2> DEFINE f == [file EXCEPT !.vip[h] = a]
  <2>1. f \in DeviceFile /\ f.known = file.known /\ f.deviceID = file.deviceID
    BY <1>1, EditedFile
  <2>2. Load(f)
    BY <1>12 DEF RestartEdited
  <2> HIDE DEF f
  <2>3. QED BY <1>1, <2>1, <2>2, CredentialLoad DEF CredentialInv
<1>13. CASE RestartFileLost
  <2>1. EmptyFile \in DeviceFile
    <3>1. NoRules \in RuleSet
      BY RuleAssumption
    <3>2. QED BY <3>1 DEF EmptyFile, DeviceFile
  <2>2. \A h \in HWID : EmptyFile.deviceID[h] = NoID
    BY DEF EmptyFile
  <2>3. QED BY <1>1, <1>13, <2>1, <2>2, CredentialLoad DEF RestartFileLost
<1>14. QED
  BY <1>2, <1>3, <1>4, <1>5, <1>6, <1>7, <1>8, <1>9, <1>10, <1>11, <1>12, <1>13
  DEF MaintainedNext, RestartNext, Next

(* The empty table has no credentials and an empty index.                  *)
LEMMA CredentialInit == Init => CredentialInv
<1> SUFFICES ASSUME Init PROVE CredentialInv
  OBVIOUS
<1>1. TypeOK
  BY InitType
<1>2. CredentialIndex
  BY NullAssumption DEF Init, CredentialIndex
<1>3. \A h \in HWID : deviceID[h] = NoID /\ file.deviceID[h] = NoID
  BY DEF Init, EmptyFile
<1>4. QED BY <1>1, <1>2, <1>3 DEF CredentialInv

(***************************************************************************)
(* Over any number of restarts, failed saves and edits of addresses, a     *)
(* credential leads to the device that holds it and to no other.           *)
(***************************************************************************)
THEOREM CredentialsExact == MaintainedSpec => []CredentialIndex
<1>1. CredentialInv => CredentialIndex
  BY DEF CredentialInv
<1>2. QED BY CredentialInit, CredentialStep, <1>1, PTL DEF MaintainedSpec

-----------------------------------------------------------------------------
(* NoDanglingIndex is inductive as it stands, given the types.             *)
LEMMA DanglingStep == TypeOK /\ NoDanglingIndex /\ [MaintainedNext]_vars => NoDanglingIndex'
<1> SUFFICES ASSUME TypeOK, NoDanglingIndex, [MaintainedNext]_vars PROVE NoDanglingIndex'
  OBVIOUS
<1>1. 0 \notin IP
  BY PoolAssumption DEF IP, Pool
<1>2. ASSUME UNCHANGED <<vip, byVIP>> PROVE NoDanglingIndex'
  BY <1>2 DEF NoDanglingIndex
<1>3. ASSUME NEW f, Load(f) PROVE NoDanglingIndex'
  <2> SUFFICES ASSUME NEW a \in IP, NEW h \in HWID, byVIP'[a] = h PROVE vip'[h] = a
    BY DEF NoDanglingIndex
  <2>1. LET named == {g \in f.known : f.vip[g] = a}
        IN  IF named = {} THEN byVIP'[a] = NoHWID ELSE byVIP'[a] \in named
    BY <1>3 DEF Load
  <2>2. QED BY <1>3, <2>1, NullAssumption DEF Load
<1>4. \A a \in IP, h \in HWID : PrunedIndex[a] = h => PrunedVIP[h] = a
  <2> SUFFICES ASSUME NEW a \in IP, NEW h \in HWID, PrunedIndex[a] = h PROVE PrunedVIP[h] = a
    OBVIOUS
  <2>1. byVIP[a] = h /\ \A g \in Expired : vip[g] # a
    BY NullAssumption DEF PrunedIndex
  <2>2. vip[h] = a
    BY <2>1 DEF NoDanglingIndex
  <2>3. QED BY <2>1, <2>2 DEF PrunedVIP
<1>5. ASSUME vip' = PrunedVIP, byVIP' = PrunedIndex PROVE NoDanglingIndex'
  BY <1>4, <1>5 DEF NoDanglingIndex
<1>6. ASSUME NEW h \in HWID, AssignNew(h) PROVE NoDanglingIndex'
  <2>1. PICK a \in Pool :
             Lease(h, a, PrunedUsed \cup {a},
                   [x \in IP |-> CASE x = a -> h
                                   [] x # a /\ x = PrunedVIP[h] -> NoHWID
                                   [] OTHER -> PrunedIndex[x]])
    BY <1>6 DEF AssignNew
  <2>2. /\ vip' = [PrunedVIP EXCEPT ![h] = a]
        /\ byVIP' = [x \in IP |-> CASE x = a -> h
                                    [] x # a /\ x = PrunedVIP[h] -> NoHWID
                                    [] OTHER -> PrunedIndex[x]]
    BY <2>1 DEF Lease
  <2>3. PrunedVIP \in [HWID -> IP \cup {0}] /\ PrunedIndex \in [IP -> HWID \cup {NoHWID}]
    BY PrunedType
  <2>4. \A x \in IP : byVIP'[x] = IF x = a THEN h
                                ELSE IF x = PrunedVIP[h] THEN NoHWID ELSE PrunedIndex[x]
    BY <2>2
  <2>5. \A g \in HWID : vip'[g] = IF g = h THEN a ELSE PrunedVIP[g]
    BY <2>2, <2>3
  <2>6. QED BY <1>4, <2>4, <2>5, NullAssumption DEF NoDanglingIndex
<1>7. ASSUME NEW h \in HWID, AssignRenew(h) \/ AssignReclaim(h) PROVE NoDanglingIndex'
  <2>1. [PrunedVIP EXCEPT ![h] = PrunedVIP[h]] = PrunedVIP
    BY PrunedType
  <2>2. vip' = PrunedVIP /\ byVIP' = PrunedIndex
    BY <1>7, <2>1 DEF AssignRenew, AssignReclaim, Lease
  <2>3. QED BY <1>5, <2>2
<1>8. ASSUME NEW h \in HWID, AssignFull(h) PROVE NoDanglingIndex'
  BY <1>5, <1>8 DEF AssignFull
<1>9. ASSUME NEW h \in HWID, NEW a \in Pool, SetIP(h, a) PROVE NoDanglingIndex'
  <2>1. \A x \in IP : byVIP'[x] = IF x = a THEN h
                                ELSE IF x = vip[h] THEN NoHWID ELSE byVIP[x]
    BY <1>9 DEF SetIP
  <2>2. \A g \in HWID : vip'[g] = IF g = h THEN a ELSE vip[g]
    BY <1>9 DEF SetIP, TypeOK
  <2>3. QED BY <2>1, <2>2, NullAssumption DEF NoDanglingIndex
<1>10. CASE Prune
  BY <1>5, <1>10 DEF Prune
<1>11. ASSUME NEW h \in HWID, ClearCredential(h) \/ Block(h) \/ Unblock(h) PROVE NoDanglingIndex'
  BY <1>2, <1>11 DEF ClearCredential, Block, Unblock, index
<1>12. ASSUME NEW h \in HWID, NEW id \in DeviceID, SetCredential(h, id) PROVE NoDanglingIndex'
  BY <1>2, <1>12 DEF SetCredential
<1>13. ASSUME NEW h \in HWID, NEW rules \in RuleSet, SetForward(h, rules) PROVE NoDanglingIndex'
  BY <1>2, <1>13 DEF SetForward, index
<1>14. ASSUME AllocAnonymous \/ (\E a \in Pool : ReleaseAnonymous(a)) \/ Tick \/ UNCHANGED vars
       PROVE  NoDanglingIndex'
  BY <1>2, <1>14 DEF AllocAnonymous, ReleaseAnonymous, Tick, vars, record, index
<1>15. QED
  BY <1>3, <1>6, <1>7, <1>8, <1>9, <1>10, <1>11, <1>12, <1>13, <1>14
  DEF MaintainedNext, RestartNext, Next, Assign, Granted, Restart, RestartEdited, RestartFileLost

(***************************************************************************)
(* Whatever happens to the file, the reverse index never names a device    *)
(* that no longer has the address: SetIP's "already taken" is never stale. *)
(***************************************************************************)
THEOREM IndexNeverDangles == MaintainedSpec => []NoDanglingIndex
<1>1. Init => TypeOK /\ NoDanglingIndex
  BY InitType, NullAssumption DEF Init, NoDanglingIndex
<1>2. QED BY <1>1, DanglingStep, MaintainedTypeStep, PTL DEF MaintainedSpec

-----------------------------------------------------------------------------
(* A successful save makes the file equal to the table.                    *)
LEMMA DurableSave ==
    ASSUME TypeOK', saveLocked
    PROVE  Durable'
<1>1. CASE stale' = TRUE
  BY <1>1 DEF Durable
<1>2. CASE stale' # TRUE
  <2>1. file' = [known    |-> known',
                 vip      |-> vip',
                 expireAt |-> [h \in HWID |-> IF vip'[h] = 0 THEN 0 ELSE expireAt'[h]],
                 forward  |-> forward',
                 deviceID |-> deviceID',
                 blocked  |-> blocked']
    BY <1>2 DEF saveLocked
  <2>2. QED BY <2>1 DEF Durable
<1>3. QED BY <1>1, <1>2

(* Loading does as well.                                                   *)
LEMMA DurableLoad ==
    ASSUME NEW f \in DeviceFile, Load(f)
    PROVE  Durable'
BY DEF Load, Durable, DeviceFile

(* Every step that changes the table also saves it, or notes the failure,  *)
(* or only drops leases that have run out.                                 *)
LEMMA DurableStep == TypeOK /\ Durable /\ [MaintainedNext]_vars => Durable'
<1> SUFFICES ASSUME TypeOK, Durable, [MaintainedNext]_vars PROVE Durable'
  OBVIOUS
<1>1. TypeOK'
  BY MaintainedTypeStep
<1>2. ASSUME saveLocked PROVE Durable'
  BY <1>1, <1>2, DurableSave
<1>3. ASSUME NEW h \in HWID, AssignFull(h) PROVE Durable'
  <2>1. /\ UNCHANGED <<forward, deviceID, blocked, file, stale, clock>>
        /\ \A g \in HWID : vip'[g] = IF g \in Expired THEN 0 ELSE vip[g]
        /\ \A g \in HWID : expireAt'[g] = IF g \in Expired THEN 0 ELSE expireAt[g]
    BY <1>3 DEF AssignFull, disk, PrunedVIP, PrunedExpiry
  <2>2. \A g \in Expired : vip[g] # 0 /\ expireAt[g] # 0 /\ expireAt[g] <= clock
    BY DEF Expired
  <2> SUFFICES ASSUME ~stale', NEW g \in HWID
               PROVE  /\ file'.deviceID[g] = deviceID'[g]
                      /\ file'.blocked[g] = blocked'[g]
                      /\ file'.forward[g] = forward'[g]
                      /\ \/ /\ file'.vip[g] = vip'[g]
                            /\ vip'[g] # 0 => file'.expireAt[g] = expireAt'[g]
                         \/ /\ vip'[g] = 0
                            /\ file'.expireAt[g] # 0 /\ file'.expireAt[g] <= clock'
    BY DEF Durable
  <2>3. CASE g \in Expired
    BY <2>1, <2>2, <2>3 DEF Durable
  <2>4. CASE g \notin Expired
    BY <2>1, <2>4 DEF Durable
  <2>5. QED BY <2>3, <2>4
<1>4. CASE Tick
  BY <1>4 DEF Tick, record, index, disk, Durable, TypeOK, DeviceFile
<1>5. ASSUME AllocAnonymous \/ (\E a \in Pool : ReleaseAnonymous(a)) \/ UNCHANGED vars
      PROVE  Durable'
  BY <1>5 DEF AllocAnonymous, ReleaseAnonymous, vars, record, index, disk, Durable
<1>6. ASSUME NEW h \in HWID, NEW a \in ForeignIP \cup Pool \cup {0}, RestartEdited(h, a)
      PROVE  Durable'
  <2> DEFINE f == [file EXCEPT !.vip[h] = a]
  <2>1. f \in DeviceFile
    BY EditedFile
  <2>2. Load(f)
    BY <1>6 DEF RestartEdited
  <2> HIDE DEF f
  <2>3. QED BY <2>1, <2>2, DurableLoad
<1>7. CASE Restart
  BY <1>7, DurableLoad DEF Restart, TypeOK
<1>8. CASE RestartFileLost
  <2>1. EmptyFile \in DeviceFile
    <3>1. NoRules \in RuleSet
      BY RuleAssumption
    <3>2. QED BY <3>1 DEF EmptyFile, DeviceFile
  <2>2. QED BY <1>8, <2>1, DurableLoad DEF RestartFileLost
<1>9. ASSUME NEW h \in HWID, Granted(h) PROVE Durable'
  BY <1>2, <1>9 DEF Granted, AssignNew, AssignRenew, AssignReclaim, Lease
<1>10. ASSUME NEW h \in HWID, ClearCredential(h) \/ Block(h) \/ Unblock(h) PROVE Durable'
  BY <1>2, <1>10 DEF ClearCredential, Block, Unblock
<1>11. ASSUME NEW h \in HWID, NEW id \in DeviceID, SetCredential(h, id) PROVE Durable'
  BY <1>2, <1>11 DEF SetCredential
<1>12. ASSUME NEW h \in HWID, NEW rules \in RuleSet, SetForward(h, rules) PROVE Durable'
  BY <1>2, <1>12 DEF SetForward
<1>13. ASSUME NEW h \in HWID, NEW a \in Pool, SetIP(h, a) PROVE Durable'
  BY <1>2, <1>13 DEF SetIP
<1>14. CASE Prune
  BY <1>2, <1>14 DEF Prune
<1>15. QED
  BY <1>3, <1>4, <1>5, <1>6, <1>7, <1>8, <1>9, <1>10, <1>11, <1>12, <1>13, <1>14
  DEF MaintainedNext, RestartNext, Next, Assign

(***************************************************************************)
(* After any operation whose write succeeded a crash loses nothing but     *)
(* leases that have run out, although one return path does not save.       *)
(***************************************************************************)
THEOREM TableDurable == MaintainedSpec => []Durable
<1>1. Init => TypeOK /\ Durable
  <2> SUFFICES ASSUME Init PROVE TypeOK /\ Durable
    OBVIOUS
  <2>1. TypeOK
    BY InitType
  <2>2. Durable
    BY DEF Init, EmptyFile, Durable
  <2>3. QED BY <2>1, <2>2
<1>2. QED BY <1>1, DurableStep, MaintainedTypeStep, PTL DEF MaintainedSpec

-----------------------------------------------------------------------------
(***************************************************************************)
(* Over any number of restarts and edits, the address Assign returns is    *)
(* one of the pool's and marked as taken in it.                            *)
(***************************************************************************)
THEOREM GrantsHeld == MaintainedSpec => GrantIsHeld
<1>1. TypeOK /\ [MaintainedNext]_vars => [\A h \in HWID : Granted(h) => vip'[h] \in used' \cap Pool]_vars
  <2> SUFFICES ASSUME TypeOK, NEW h \in HWID, Granted(h)
               PROVE  vip'[h] \in used' \cap Pool
    OBVIOUS
  <2>1. CASE AssignNew(h)
    BY <2>1, PrunedType DEF AssignNew, Lease, Alloc
  <2>2. CASE AssignRenew(h)
    BY <2>2, PrunedType DEF AssignRenew, Lease
  <2>3. CASE AssignReclaim(h)
    BY <2>3, PrunedType DEF AssignReclaim, Lease
  <2>4. QED BY <2>1, <2>2, <2>3 DEF Granted
<1>2. QED BY <1>1, InitType, MaintainedTypeStep, PTL DEF MaintainedSpec, GrantIsHeld

-----------------------------------------------------------------------------
(* Admission.                                                              *)

USE ConnAssumption, SuffixAssumption, NullAssumption

-----------------------------------------------------------------------------
(* What a connection's record holds, by where its goroutine is.            *)
Shape(c) ==
    /\ ~At(c, "idle") => dev[c].who \in HWID
    /\ dev[c].pc \in {"join", "online", "release"} => dev[c].addr \in IP
    /\ At(c, "online") => dev[c].name \in Name
    /\ At(c, "release") => dev[c].hwid = NoHWID

Shaped == \A c \in Conn : Shape(c)

(* Every step does to the table what one of its operations does, or leaves *)
(* it alone.                                                               *)
LEMMA TableStep ==
    ASSUME ATypeOK, Shaped, [ANext]_all
    PROVE  [Next]_vars
<1>1. ASSUME NEW c \in Conn, NEW id \in DeviceID, IssueCredential(c, id) PROVE [Next]_vars
  <2>1. dev[c].who \in HWID
    BY <1>1 DEF IssueCredential, Shaped, Shape, At
  <2>2. CASE SetCredential(dev[c].who, id)
    BY <2>1, <2>2 DEF Next
  <2>3. CASE UNCHANGED table
    BY <2>3 DEF table
  <2>4. QED BY <1>1, <2>2, <2>3 DEF IssueCredential, table
<1>2. ASSUME NEW c \in Conn, AllocVIP(c) PROVE [Next]_vars
  <2>1. dev[c].hwid \in HWID \cup {NoHWID}
    BY DEF ATypeOK, Device
  <2>2. CASE dev[c].hwid # NoHWID
    <3>1. Assign(dev[c].hwid)
      BY <1>2, <2>2 DEF AllocVIP, Assign
    <3>2. QED BY <2>1, <2>2, <3>1 DEF Next
  <2>3. CASE dev[c].hwid = NoHWID
    <3>1. AllocAnonymous \/ UNCHANGED table
      BY <1>2, <2>3 DEF AllocVIP
    <3>2. QED BY <3>1 DEF Next, table
  <2>4. QED BY <2>2, <2>3
<1>3. ASSUME NEW c \in Conn, Release(c) PROVE [Next]_vars
  <2>1. dev[c].addr \in Pool /\ ReleaseAnonymous(dev[c].addr)
    BY <1>3 DEF Release, ReleaseAnonymous, ATypeOK, TypeOK
  <2>2. QED BY <2>1 DEF Next
<1>4. ASSUME NEW h \in HWID, RevokeDeviceCredential(h) \/ UnblockDevice(h) PROVE [Next]_vars
  BY <1>4 DEF RevokeDeviceCredential, UnblockDevice, Next
<1>5. ASSUME NEW h \in HWID, NEW a \in Pool, SetDeviceIP(h, a) PROVE [Next]_vars
  BY <1>5 DEF SetDeviceIP, Next, table
<1>6. CASE Sweep \/ Advance
  BY <1>6 DEF Sweep, Advance, Next
<1>7. ASSUME UNCHANGED table PROVE [Next]_vars
  BY <1>7 DEF table
<1>8. ASSUME NEW c \in Conn, NEW h \in HWID \cup {NoHWID},
             Accept(c, h) \/ GiveUp(c) \/ Register(c) \/ LookUpCredential(c) \/ Hello(c, h)
             \/ Join(c) \/ Break(c) \/ Remove(c)
      PROVE  [Next]_vars
  BY <1>7, <1>8 DEF Accept, GiveUp, Register, LookUpCredential, Hello, Join, Break, Remove
<1>9. ASSUME NEW h \in HWID, CloseDevice(h) PROVE [Next]_vars
  BY <1>7, <1>9 DEF CloseDevice
<1>10. CASE UNCHANGED all
  BY <1>7, <1>10 DEF all
<1>11. QED
  BY <1>1, <1>2, <1>3, <1>4, <1>5, <1>6, <1>8, <1>9, <1>10 DEF ANext

(* A goroutine that ends, or goes on to a place where nothing more is asked*)
(* of its record, leaves the connections well typed.                       *)
LEMMA DropType ==
    ASSUME dev \in [Conn -> Device], Shaped, NEW c \in Conn, Drop(c)
    PROVE  dev' \in [Conn -> Device] /\ Shaped'
<1>1. Idle \in Device
  BY DEF Idle, Device, PC
<1>2. QED BY <1>1 DEF Drop, Shaped, Shape, At, Idle

LEMMA GotoType ==
    ASSUME dev \in [Conn -> Device], Shaped, NEW c \in Conn, ~At(c, "idle"),
           NEW l \in {"credential", "issue", "recheck"}, Goto(c, l)
    PROVE  dev' \in [Conn -> Device] /\ Shaped'
<1>1. dev' \in [Conn -> Device] /\ dev'[c].pc = l /\ dev'[c].who = dev[c].who
  BY DEF Goto, Device, PC
<1>2. \A d \in Conn : d # c => dev'[d] = dev[d]
  BY DEF Goto
<1>3. QED BY <1>1, <1>2 DEF Shaped, Shape, At

(* A reply changes what the device keeps by a credential of its own.       *)
LEMMA ReplyType ==
    ASSUME ATypeOK, Shaped, NEW c \in Conn, NEW id \in DeviceID, Reply(c, id)
    PROVE  dev' \in [Conn -> Device] /\ Shaped' /\ holds' \in [HWID -> DeviceID \cup {NoID}]
<1>1. Drop(c) /\ holds' \in [HWID -> DeviceID \cup {NoID}]
  BY DEF Reply, ATypeOK
<1>2. QED BY <1>1, DropType DEF ATypeOK

(* A name that register chooses is one that nobody has.                    *)
LEMMA FreeNameIsFree ==
    ASSUME NEW h \in HWID, NEW n \in FreeName(BaseName[h], byID)
    PROVE  n \in Name /\ byID[n] = NoConn
<1>1. PICK i \in Suffix : n = <<BaseName[h], i>> /\ byID[<<BaseName[h], i>>] = NoConn
  BY DEF FreeName
<1>2. QED BY <1>1 DEF Name

(* Join changes the connection that joins and the one whose address it has.*)
LEMMA JoinChanges ==
    ASSUME ATypeOK, Shaped, NEW c \in Conn, Join(c)
    PROVE  \E n \in FreeName(BaseName[dev[c].who], byID) :
              /\ n \in Name /\ byID[n] = NoConn
              /\ byID' = [byID EXCEPT ![n] = c]
              /\ dev' \in [Conn -> Device]
              /\ dev'[c].pc = "online" /\ dev'[c].name = n
              /\ dev'[c].who = dev[c].who /\ dev'[c].hwid = dev[c].hwid
              /\ dev'[c].addr = dev[c].addr
              /\ \A d \in Conn \ {c} :
                    /\ dev'[d].pc = dev[d].pc /\ dev'[d].name = dev[d].name
                    /\ dev'[d].who = dev[d].who /\ dev'[d].hwid = dev[d].hwid
                    /\ dev'[d].addr = dev[d].addr
                    /\ dev'[d].open => dev[d].open /\ d # devices[dev[c].addr]
<1>1. dev[c].who \in HWID
  BY DEF Join, Shaped, Shape, At
<1>2. PICK n \in FreeName(BaseName[dev[c].who], byID) :
            /\ dev' = [d \in Conn |->
                         CASE d = c -> [dev[d] EXCEPT !.pc = "online", !.name = n]
                           [] d # c /\ d = devices[dev[c].addr] -> [dev[d] EXCEPT !.open = FALSE]
                           [] OTHER -> dev[d]]
            /\ byID' = [byID EXCEPT ![n] = c]
  BY DEF Join
<1>3. n \in Name /\ byID[n] = NoConn
  BY <1>1, FreeNameIsFree
<1>4. /\ dev'[c] = [dev[c] EXCEPT !.pc = "online", !.name = n]
      /\ \A d \in Conn \ {c} : dev'[d] = IF d = devices[dev[c].addr]
                                         THEN [dev[d] EXCEPT !.open = FALSE] ELSE dev[d]
      /\ dev' = [d \in Conn |-> dev'[d]]
  BY <1>2
<1>5. /\ dev'[c] \in Device
      /\ dev'[c].pc = "online" /\ dev'[c].name = n
      /\ dev'[c].who = dev[c].who /\ dev'[c].hwid = dev[c].hwid
      /\ dev'[c].addr = dev[c].addr
  <2>1. dev[c] \in Device
    BY DEF ATypeOK
  <2>2. QED BY <1>3, <1>4, <2>1 DEF Device, PC
<1>6. ASSUME NEW d \in Conn \ {c}
      PROVE  /\ dev'[d] \in Device
             /\ dev'[d].pc = dev[d].pc /\ dev'[d].name = dev[d].name
             /\ dev'[d].who = dev[d].who /\ dev'[d].hwid = dev[d].hwid
             /\ dev'[d].addr = dev[d].addr
             /\ dev'[d].open => dev[d].open /\ d # devices[dev[c].addr]
  <2>1. dev[d] \in Device
    BY DEF ATypeOK
  <2>2. CASE d = devices[dev[c].addr]
    <3>1. dev'[d] = [dev[d] EXCEPT !.open = FALSE]
      BY <1>4, <2>2
    <3>2. QED BY <2>1, <3>1 DEF Device
  <2>3. CASE d # devices[dev[c].addr]
    <3>1. dev'[d] = dev[d]
      BY <1>4, <2>3
    <3>2. QED BY <2>1, <2>3, <3>1
  <2>4. QED BY <2>2, <2>3
<1>7. dev' \in [Conn -> Device]
  BY <1>4, <1>5, <1>6
<1>8. QED BY <1>2, <1>3, <1>5, <1>6, <1>7

-----------------------------------------------------------------------------
(***************************************************************************)
(* Every step of a connection or of the administrator keeps the types, and *)
(* the record of a connection what its goroutine relies on.                *)
(***************************************************************************)
LEMMA AdmissionTypeStep ==
    ASSUME ATypeOK, Shaped, TypeOK', [ANext]_all
    PROVE  ATypeOK' /\ Shaped'
<1> DEFINE Typed == dev' \in [Conn -> Device] /\ Shaped'
<1>0. dev \in [Conn -> Device]
  BY DEF ATypeOK
<1>1. ASSUME Typed, UNCHANGED <<server, holds, closing>> PROVE ATypeOK' /\ Shaped'
  BY <1>1 DEF ATypeOK, server
<1>2. ASSUME Typed, holds' \in [HWID -> DeviceID \cup {NoID}], UNCHANGED <<server, closing>>
      PROVE  ATypeOK' /\ Shaped'
  BY <1>2 DEF ATypeOK, server
<1>3. ASSUME UNCHANGED dev PROVE Typed
  BY <1>3 DEF ATypeOK, Shaped, Shape, At
<1>4. ASSUME NEW c \in Conn, Drop(c) PROVE Typed
  BY <1>4, DropType DEF ATypeOK
<1>5. ASSUME NEW c \in Conn, NEW h \in HWID, Accept(c, h) PROVE ATypeOK' /\ Shaped'
  <2>1. dev'[c] = [dev[c] EXCEPT !.pc = "first", !.who = h, !.open = TRUE] /\ dev' = [d \in Conn |-> dev'[d]]
    BY <1>0, <1>5 DEF Accept
  <2>2. \A d \in Conn : d # c => dev'[d] = dev[d]
    BY <1>0, <1>5 DEF Accept
  <2>3. dev[c] \in Device
    BY <1>0
  <2>4. dev'[c] \in Device /\ dev'[c].pc = "first" /\ dev'[c].who = h
    BY <2>1, <2>3 DEF Device, PC
  <2>5. dev' \in [Conn -> Device]
    BY <1>0, <2>1, <2>2, <2>4
  <2>6. Typed
    BY <2>2, <2>4, <2>5 DEF Shaped, Shape, At
  <2>7. QED BY <1>1, <1>5, <2>6 DEF Accept
<1>6. ASSUME NEW c \in Conn, GiveUp(c) PROVE ATypeOK' /\ Shaped'
  BY <1>1, <1>4, <1>6 DEF GiveUp
<1>7. ASSUME NEW c \in Conn, Register(c) PROVE ATypeOK' /\ Shaped'
  <2>1. Drop(c) \/ Goto(c, "credential")
    BY <1>7 DEF Register
  <2>2. Typed
    BY <1>4, <1>7, <2>1, GotoType DEF Register, At, ATypeOK
  <2>3. QED BY <1>1, <1>7, <2>2 DEF Register
<1>8. ASSUME NEW c \in Conn, LookUpCredential(c) PROVE ATypeOK' /\ Shaped'
  <2>1. dev[c].who \in HWID /\ deviceID[dev[c].who] \in DeviceID \cup {NoID} /\ ~At(c, "idle")
    BY <1>8 DEF LookUpCredential, Shaped, Shape, At, ATypeOK, TypeOK
  <2>2. CASE deviceID[dev[c].who] # NoID
    <3>1. Reply(c, deviceID[dev[c].who])
      BY <1>8, <2>2 DEF LookUpCredential
    <3>2. QED BY <1>2, <1>8, <2>1, <2>2, <3>1, ReplyType DEF LookUpCredential
  <2>3. CASE deviceID[dev[c].who] = NoID
    <3>1. (Drop(c) \/ Goto(c, "issue")) /\ UNCHANGED holds
      BY <1>8, <2>3 DEF LookUpCredential
    <3>2. Typed
      BY <1>4, <2>1, <3>1, GotoType DEF ATypeOK
    <3>3. QED BY <1>1, <1>8, <3>1, <3>2 DEF LookUpCredential
  <2>4. QED BY <2>2, <2>3
<1>9. ASSUME NEW c \in Conn, NEW id \in DeviceID, IssueCredential(c, id) PROVE ATypeOK' /\ Shaped'
  <2>1. CASE Reply(c, id)
    BY <1>2, <1>9, <2>1, ReplyType DEF IssueCredential
  <2>2. CASE Goto(c, "recheck") /\ UNCHANGED holds
    <3>1. Typed
      BY <1>9, <2>2, GotoType DEF IssueCredential, At, ATypeOK
    <3>2. QED BY <1>1, <1>9, <2>2, <3>1 DEF IssueCredential
  <2>3. QED BY <1>9, <2>1, <2>2 DEF IssueCredential
<1>10. ASSUME NEW c \in Conn, NEW h \in HWID \cup {NoHWID}, Hello(c, h) PROVE ATypeOK' /\ Shaped'
  <2>1. dev[c].who \in HWID
    BY <1>10 DEF Hello, Shaped, Shape, At
  <2>2. CASE Drop(c) /\ holds' = [holds EXCEPT ![dev[c].who] = NoID]
    <3>1. holds' \in [HWID -> DeviceID \cup {NoID}]
      BY <2>2 DEF ATypeOK
    <3>2. QED BY <1>2, <1>4, <1>10, <2>2, <3>1 DEF Hello
  <2>3. CASE dev' = [dev EXCEPT ![c].pc = "alloc", ![c].hwid = h] /\ UNCHANGED holds
    <3>1. dev'[c] = [dev[c] EXCEPT !.pc = "alloc", !.hwid = h] /\ dev' = [d \in Conn |-> dev'[d]]
      BY <1>0, <2>3
    <3>2. \A d \in Conn : d # c => dev'[d] = dev[d]
      BY <1>0, <2>3
    <3>3. dev[c] \in Device
      BY <1>0
    <3>4. dev'[c] \in Device /\ dev'[c].pc = "alloc" /\ dev'[c].who = dev[c].who
      BY <3>1, <3>3 DEF Device, PC
    <3>5. dev' \in [Conn -> Device]
      BY <1>0, <3>1, <3>2, <3>4
    <3>6. Typed
      BY <2>1, <3>2, <3>4, <3>5 DEF Shaped, Shape, At
    <3>7. QED BY <1>1, <1>10, <2>3, <3>6 DEF Hello
  <2>4. QED BY <1>10, <2>2, <2>3 DEF Hello
<1>11. ASSUME NEW c \in Conn, AllocVIP(c) PROVE ATypeOK' /\ Shaped'
  <2>1. dev[c].who \in HWID /\ dev[c].hwid \in HWID \cup {NoHWID}
    BY <1>11 DEF AllocVIP, Shaped, Shape, At, ATypeOK, Device
  <2>2. ASSUME NEW a \in IP, dev' = [dev EXCEPT ![c].pc = "join", ![c].addr = a] PROVE Typed
    <3>1. dev'[c] = [dev[c] EXCEPT !.pc = "join", !.addr = a] /\ dev' = [d \in Conn |-> dev'[d]]
      BY <1>0, <2>2
    <3>2. \A d \in Conn : d # c => dev'[d] = dev[d]
      BY <1>0, <2>2
    <3>3. dev[c] \in Device
      BY <1>0
    <3>4. dev'[c] \in Device /\ dev'[c].pc = "join" /\ dev'[c].who = dev[c].who /\ dev'[c].addr = a
      BY <3>1, <3>3 DEF Device, PC
    <3>5. dev' \in [Conn -> Device]
      BY <1>0, <3>1, <3>2, <3>4
    <3>6. QED BY <2>1, <3>2, <3>4, <3>5 DEF Shaped, Shape, At
  <2>3. ASSUME NEW h \in HWID, Granted(h) PROVE vip'[h] \in IP
    <3>1. ASSUME NEW a \in IP, NEW u, NEW idx, Lease(h, a, u, idx) PROVE vip'[h] = a
      BY <3>1, PrunedType DEF Lease, ATypeOK
    <3>2. CASE AssignNew(h)
      BY <3>1, <3>2 DEF AssignNew, IP
    <3>3. PrunedVIP[h] \in IP \cup {0} /\ Pool \subseteq IP
      BY PrunedType DEF ATypeOK, IP
    <3>4. CASE AssignRenew(h)
      BY <3>1, <3>3, <3>4 DEF AssignRenew
    <3>5. CASE AssignReclaim(h)
      BY <3>1, <3>3, <3>5 DEF AssignReclaim
    <3>6. QED BY <2>3, <3>2, <3>4, <3>5 DEF Granted
  <2>4. anon' \subseteq IP
    BY DEF TypeOK, IP
  <2>5. Typed
    <3>1. CASE dev[c].hwid # NoHWID
      BY <1>4, <1>11, <2>1, <2>2, <2>3, <3>1 DEF AllocVIP
    <3>2. CASE dev[c].hwid = NoHWID
      BY <1>4, <1>11, <2>2, <2>4, <3>2 DEF AllocVIP
    <3>3. QED BY <3>1, <3>2
  <2>6. QED BY <1>1, <1>11, <2>5 DEF AllocVIP
<1>12. ASSUME NEW c \in Conn, Join(c) PROVE ATypeOK' /\ Shaped'
  <2>1. PICK n \in FreeName(BaseName[dev[c].who], byID) :
              /\ n \in Name
              /\ byID' = [byID EXCEPT ![n] = c]
              /\ dev' \in [Conn -> Device]
              /\ dev'[c].pc = "online" /\ dev'[c].name = n
              /\ dev'[c].who = dev[c].who /\ dev'[c].hwid = dev[c].hwid
              /\ dev'[c].addr = dev[c].addr
              /\ \A d \in Conn \ {c} :
                    /\ dev'[d].pc = dev[d].pc /\ dev'[d].name = dev[d].name
                    /\ dev'[d].who = dev[d].who /\ dev'[d].hwid = dev[d].hwid
                    /\ dev'[d].addr = dev[d].addr
    BY <1>12, JoinChanges
  <2>2. dev[c].who \in HWID /\ dev[c].addr \in IP
    BY <1>12 DEF Join, Shaped, Shape, At
  <2>3. Shaped'
    BY <2>1, <2>2 DEF Shaped, Shape, At
  <2>4. /\ byID' \in [Name -> Conn \cup {NoConn}]
        /\ devices' \in [IP -> Conn \cup {NoConn}]
        /\ UNCHANGED <<holds, closing>>
    BY <1>12, <2>1, <2>2 DEF Join, ATypeOK
  <2>5. QED BY <2>1, <2>3, <2>4 DEF ATypeOK
<1>13. ASSUME NEW c \in Conn, dev' = [dev EXCEPT ![c].open = FALSE] PROVE Typed
  <2>1. /\ dev'[c] = [dev[c] EXCEPT !.open = FALSE] /\ dev' = [d \in Conn |-> dev'[d]]
        /\ dev[c] \in Device /\ \A d \in Conn : d # c => dev'[d] = dev[d]
    BY <1>0, <1>13
  <2>2. dev'[c] \in Device
    BY <2>1 DEF Device
  <2>3. dev' \in [Conn -> Device]
    BY <1>0, <2>1, <2>2
  <2>4. \A d \in Conn : /\ dev'[d].pc = dev[d].pc /\ dev'[d].who = dev[d].who /\ dev'[d].addr = dev[d].addr
                        /\ dev'[d].name = dev[d].name /\ dev'[d].hwid = dev[d].hwid
    BY <1>0, <1>13 DEF Device
  <2>5. QED BY <2>3, <2>4 DEF Shaped, Shape, At
<1>14. ASSUME NEW c \in Conn, Break(c) PROVE ATypeOK' /\ Shaped'
  <2>1. dev' = [dev EXCEPT ![c].open = FALSE] /\ UNCHANGED <<server, holds, closing>>
    BY <1>14 DEF Break
  <2>2. QED BY <1>1, <1>13, <2>1
<1>15. ASSUME NEW c \in Conn, Remove(c) PROVE ATypeOK' /\ Shaped'
  <2>1. dev[c].who \in HWID /\ dev[c].addr \in IP /\ dev[c].name \in Name
    BY <1>15 DEF Remove, Shaped, Shape, At
  <2>2. ASSUME dev[c].hwid = NoHWID, Goto(c, "release") PROVE Typed
    <3>1. /\ dev' \in [Conn -> Device] /\ dev'[c].pc = "release" /\ dev'[c].who = dev[c].who
          /\ dev'[c].addr = dev[c].addr /\ dev'[c].hwid = NoHWID
      BY <1>0, <2>2 DEF Goto, Device, PC
    <3>2. \A d \in Conn : d # c => dev'[d] = dev[d]
      BY <1>0, <2>2 DEF Goto
    <3>3. QED BY <2>1, <3>1, <3>2 DEF Shaped, Shape, At
  <2>3. Drop(c) \/ (dev[c].hwid = NoHWID /\ Goto(c, "release"))
    BY <1>15 DEF Remove
  <2>4. Typed
    BY <1>4, <2>2, <2>3
  <2>5. /\ devices' \in [IP -> Conn \cup {NoConn}]
        /\ byID' \in [Name -> Conn \cup {NoConn}]
        /\ UNCHANGED <<holds, closing>>
    BY <1>15, <2>1 DEF Remove, ATypeOK
  <2>6. QED BY <2>4, <2>5 DEF ATypeOK
<1>16. ASSUME NEW c \in Conn, Release(c) PROVE ATypeOK' /\ Shaped'
  BY <1>1, <1>4, <1>16 DEF Release
<1>17. ASSUME NEW h \in HWID, RevokeDeviceCredential(h) \/ UnblockDevice(h) PROVE ATypeOK' /\ Shaped'
  BY <1>3, <1>17 DEF RevokeDeviceCredential, UnblockDevice, ATypeOK, server
<1>18. ASSUME NEW h \in HWID, NEW a \in Pool, SetDeviceIP(h, a) PROVE ATypeOK' /\ Shaped'
  BY <1>3, <1>18 DEF SetDeviceIP, ATypeOK, server
<1>19. ASSUME NEW h \in HWID, CloseDevice(h) PROVE ATypeOK' /\ Shaped'
  <2>1. UNCHANGED dev \/ \E c \in FindByHWID(h) : dev' = [dev EXCEPT ![c].open = FALSE]
    BY <1>19 DEF CloseDevice
  <2>2. FindByHWID(h) \subseteq Conn
    BY DEF FindByHWID
  <2>3. Typed
    BY <1>3, <1>13, <2>1, <2>2
  <2>4. closing' \subseteq HWID /\ UNCHANGED <<server, holds>>
    BY <1>19 DEF CloseDevice, ATypeOK
  <2>5. QED BY <2>3, <2>4 DEF ATypeOK, server
<1>20. CASE Sweep \/ Advance
  BY <1>1, <1>3, <1>20 DEF Sweep, Advance
<1>21. CASE UNCHANGED all
  BY <1>1, <1>3, <1>21 DEF all
<1>22. QED
  BY <1>5, <1>6, <1>7, <1>8, <1>9, <1>10, <1>11, <1>12, <1>14, <1>15, <1>16, <1>17, <1>18,
     <1>19, <1>20, <1>21 DEF ANext

-----------------------------------------------------------------------------
(* The server starts with nobody connected.                                *)
LEMMA AdmissionTypeInit == AInit => ATypeOK /\ Shaped
<1> SUFFICES ASSUME AInit PROVE ATypeOK /\ Shaped
  OBVIOUS
<1>1. TypeOK
  BY InitType DEF AInit
<1>2. Idle \in Device
  BY DEF Idle, Device, PC
<1>3. QED BY <1>1, <1>2 DEF AInit, ATypeOK, Shaped, Shape, At, Idle

(* What holds of the table holds of it under admission.                    *)
AdmissionType == ATypeOK /\ Shaped

LEMMA AdmissionStep == AdmissionType /\ [ANext]_all => AdmissionType' /\ [Next]_vars
<1> SUFFICES ASSUME AdmissionType, [ANext]_all PROVE AdmissionType' /\ [Next]_vars
  OBVIOUS
<1>1. [Next]_vars
  BY TableStep DEF AdmissionType
<1>2. TypeOK'
  BY <1>1, TypeStep DEF AdmissionType, ATypeOK
<1>3. QED BY <1>1, <1>2, AdmissionTypeStep DEF AdmissionType

(***************************************************************************)
(* The connections and the two indexes of the server stay well typed while *)
(* handleConn, register, removeDevice and the administration page work on  *)
(* them side by side.                                                      *)
(***************************************************************************)
THEOREM AdmissionTypeCorrect == ASpec => []ATypeOK
<1>1. AInit => AdmissionType
  BY AdmissionTypeInit DEF AdmissionType
<1>2. AdmissionType => ATypeOK
  BY DEF AdmissionType
<1>3. QED BY <1>1, <1>2, AdmissionStep, PTL DEF ASpec

-----------------------------------------------------------------------------
(* Only register and removeDevice touch the server's indexes and let a     *)
(* connection begin or end to be online.                                   *)
LEMMA OnlineSteps ==
    ASSUME AdmissionType, [ANext]_all
    PROVE  \/ \E c \in Conn : Join(c) \/ Remove(c)
           \/ /\ UNCHANGED server
              /\ \A d \in Conn :
                    /\ dev'[d].pc = "online" <=> dev[d].pc = "online"
                    /\ dev[d].pc = "online" => /\ dev'[d].addr = dev[d].addr
                                               /\ dev'[d].name = dev[d].name
                                               /\ dev'[d].open => dev[d].open
<1> DEFINE Kept == \A d \in Conn :
                      /\ dev'[d].pc = "online" <=> dev[d].pc = "online"
                      /\ dev[d].pc = "online" => /\ dev'[d].addr = dev[d].addr
                                                 /\ dev'[d].name = dev[d].name
                                                 /\ dev'[d].open => dev[d].open
<1>0. dev \in [Conn -> Device]
  BY DEF AdmissionType, ATypeOK
<1>1. ASSUME NEW c \in Conn, dev[c].pc # "online", dev'[c].pc # "online",
             \A d \in Conn : d # c => dev'[d] = dev[d]
      PROVE  Kept
  BY <1>1
<1>2. ASSUME NEW c \in Conn, ~At(c, "online"), Drop(c) PROVE Kept
  <2>1. dev'[c].pc # "online" /\ \A d \in Conn : d # c => dev'[d] = dev[d]
    BY <1>0, <1>2 DEF Drop, Idle
  <2>2. QED BY <1>1, <1>2, <2>1 DEF At
<1>3. ASSUME NEW c \in Conn, ~At(c, "online"), NEW l, l # "online", Goto(c, l) PROVE Kept
  <2>1. dev'[c] = [dev[c] EXCEPT !.pc = l] /\ dev[c] \in Device
        /\ \A d \in Conn : d # c => dev'[d] = dev[d]
    BY <1>0, <1>3 DEF Goto
  <2>2. dev'[c].pc = l
    BY <2>1 DEF Device
  <2>3. QED BY <1>1, <1>3, <2>1, <2>2 DEF At
<1>4. ASSUME NEW c \in Conn, NEW h \in HWID, Accept(c, h) PROVE Kept
  <2>1. /\ dev'[c] = [dev[c] EXCEPT !.pc = "first", !.who = h, !.open = TRUE]
        /\ dev[c] \in Device /\ \A d \in Conn : d # c => dev'[d] = dev[d]
    BY <1>0, <1>4 DEF Accept
  <2>2. dev'[c].pc = "first"
    BY <2>1 DEF Device
  <2>3. QED BY <1>1, <1>4, <2>1, <2>2 DEF Accept, At
<1>5. ASSUME NEW c \in Conn, NEW id, Reply(c, id), ~At(c, "online") PROVE Kept
  BY <1>2, <1>5 DEF Reply
<1>6. ASSUME NEW c \in Conn, GiveUp(c) \/ Register(c) \/ Release(c) PROVE Kept
  <2>1. ~At(c, "online") /\ (Drop(c) \/ Goto(c, "credential"))
    BY <1>6 DEF GiveUp, Register, Release, At
  <2>2. QED BY <1>2, <1>3, <2>1
<1>7. ASSUME NEW c \in Conn, LookUpCredential(c) PROVE Kept
  <2>1. ~At(c, "online") /\ (Reply(c, deviceID[dev[c].who]) \/ Drop(c) \/ Goto(c, "issue"))
    BY <1>7 DEF LookUpCredential, At
  <2>2. QED BY <1>2, <1>3, <1>5, <2>1
<1>8. ASSUME NEW c \in Conn, NEW id \in DeviceID, IssueCredential(c, id) PROVE Kept
  <2>1. ~At(c, "online") /\ (Reply(c, id) \/ Goto(c, "recheck"))
    BY <1>8 DEF IssueCredential, At
  <2>2. QED BY <1>3, <1>5, <2>1
<1>9. ASSUME NEW c \in Conn, NEW h \in HWID \cup {NoHWID}, Hello(c, h) PROVE Kept
  <2>1. ~At(c, "online") /\ (Drop(c) \/ dev' = [dev EXCEPT ![c].pc = "alloc", ![c].hwid = h])
    BY <1>9 DEF Hello, At
  <2>2. CASE dev' = [dev EXCEPT ![c].pc = "alloc", ![c].hwid = h]
    <3>1. /\ dev'[c] = [dev[c] EXCEPT !.pc = "alloc", !.hwid = h]
          /\ dev[c] \in Device /\ \A d \in Conn : d # c => dev'[d] = dev[d]
      BY <1>0, <2>2
    <3>2. dev'[c].pc = "alloc"
      BY <3>1 DEF Device
    <3>3. QED BY <1>1, <2>1, <3>1, <3>2 DEF At
  <2>3. QED BY <1>2, <2>1, <2>2
<1>10. ASSUME NEW c \in Conn, AllocVIP(c) PROVE Kept
  <2>1. ~At(c, "online") /\ (Drop(c) \/ \E a : dev' = [dev EXCEPT ![c].pc = "join", ![c].addr = a])
    BY <1>10 DEF AllocVIP, At
  <2>2. ASSUME NEW a, dev' = [dev EXCEPT ![c].pc = "join", ![c].addr = a] PROVE Kept
    <3>1. /\ dev'[c] = [dev[c] EXCEPT !.pc = "join", !.addr = a]
          /\ dev[c] \in Device /\ \A d \in Conn : d # c => dev'[d] = dev[d]
      BY <1>0, <2>2
    <3>2. dev'[c].pc = "join"
      BY <3>1 DEF Device
    <3>3. QED BY <1>1, <2>1, <3>1, <3>2 DEF At
  <2>3. QED BY <1>2, <2>1, <2>2
<1>11. ASSUME NEW c \in Conn, dev' = [dev EXCEPT ![c].open = FALSE] PROVE Kept
  <2>1. /\ dev'[c] = [dev[c] EXCEPT !.open = FALSE]
        /\ dev[c] \in Device /\ \A d \in Conn : d # c => dev'[d] = dev[d]
    BY <1>0, <1>11
  <2>2. /\ dev'[c].pc = dev[c].pc /\ dev'[c].addr = dev[c].addr
        /\ dev'[c].name = dev[c].name /\ ~dev'[c].open
    BY <2>1 DEF Device
  <2>3. QED BY <2>1, <2>2
<1>12. ASSUME UNCHANGED dev PROVE Kept
  BY <1>12
<1>13. ASSUME NEW h \in HWID, CloseDevice(h) PROVE Kept
  <2>1. UNCHANGED dev \/ \E c \in Conn : dev' = [dev EXCEPT ![c].open = FALSE]
    BY <1>13 DEF CloseDevice, FindByHWID
  <2>2. QED BY <1>11, <1>12, <2>1
<1>14. ASSUME NEW c \in Conn, Break(c) PROVE Kept
  <2>1. dev' = [dev EXCEPT ![c].open = FALSE]
    BY <1>14 DEF Break
  <2>2. QED BY <1>11, <2>1
<1>15. UNCHANGED server \/ \E c \in Conn : Join(c) \/ Remove(c)
  BY DEF ANext, Accept, GiveUp, Register, LookUpCredential, IssueCredential, Hello, AllocVIP,
     Break, Release, RevokeDeviceCredential, UnblockDevice, SetDeviceIP, CloseDevice, Sweep,
     Advance, all
<1>16. Kept \/ UNCHANGED dev \/ \E c \in Conn : Join(c) \/ Remove(c)
  BY <1>4, <1>6, <1>7, <1>8, <1>9, <1>10, <1>13, <1>14
     DEF ANext, RevokeDeviceCredential, UnblockDevice, SetDeviceIP, Sweep, Advance, all
<1>17. QED BY <1>12, <1>15, <1>16

(* removeDevice ends the goroutine of one connection, or lets it go on to  *)
(* give the address back, and deletes the entries that are its own.        *)
LEMMA RemoveChanges ==
    ASSUME AdmissionType, NEW c \in Conn, Remove(c)
    PROVE  /\ dev[c].pc = "online" /\ ~dev[c].open
           /\ dev'[c].pc # "online"
           /\ dev'[c].pc = "release" => dev'[c].addr = dev[c].addr
           /\ dev'[c].pc \in {"idle", "release"}
           /\ \A d \in Conn : d # c => dev'[d] = dev[d]
           /\ \A a \in IP : devices'[a] = IF a = dev[c].addr /\ devices[a] = c
                                          THEN NoConn ELSE devices[a]
           /\ \A n \in Name : byID'[n] = IF n = dev[c].name /\ byID[n] = c
                                         THEN NoConn ELSE byID[n]
<1>0. dev \in [Conn -> Device] /\ dev[c].addr \in IP /\ dev[c].name \in Name
  BY DEF AdmissionType, ATypeOK, Shaped, Shape, Remove, At
<1>1. dev[c].pc = "online" /\ ~dev[c].open /\ (Goto(c, "release") \/ Drop(c))
  BY DEF Remove, At
<1>2. CASE Drop(c)
  <2>1. dev'[c].pc = "idle" /\ \A d \in Conn : d # c => dev'[d] = dev[d]
    BY <1>0, <1>2 DEF Drop, Idle
  <2>2. QED BY <1>0, <1>1, <2>1 DEF Remove, AdmissionType, ATypeOK
<1>3. CASE Goto(c, "release")
  <2>1. dev'[c] = [dev[c] EXCEPT !.pc = "release"] /\ dev[c] \in Device
        /\ \A d \in Conn : d # c => dev'[d] = dev[d]
    BY <1>0, <1>3 DEF Goto
  <2>2. dev'[c].pc = "release" /\ dev'[c].addr = dev[c].addr
    BY <2>1 DEF Device
  <2>3. QED BY <1>0, <1>1, <2>1, <2>2 DEF Remove, AdmissionType, ATypeOK
<1>4. QED BY <1>1, <1>2, <1>3

(* The indexes agree with the connections, inductively.                    *)
LEMMA NoGhostStep ==
    ASSUME AdmissionType, NoGhost, [ANext]_all
    PROVE  NoGhost'
<1>0. /\ devices \in [IP -> Conn \cup {NoConn}]
      /\ byID \in [Name -> Conn \cup {NoConn}]
      /\ \A c \in Conn : dev[c].pc = "online" => dev[c].name \in Name
  BY DEF AdmissionType, ATypeOK, Shaped, Shape, At
<1>1. ASSUME NEW c \in Conn, Join(c) PROVE NoGhost'
  <2>1. PICK n \in Name :
              /\ byID[n] = NoConn
              /\ byID' = [byID EXCEPT ![n] = c]
              /\ dev'[c].pc = "online" /\ dev'[c].name = n
              /\ dev'[c].addr = dev[c].addr
              /\ \A d \in Conn \ {c} :
                    /\ dev'[d].pc = dev[d].pc /\ dev'[d].name = dev[d].name
                    /\ dev'[d].addr = dev[d].addr
    BY <1>1, JoinChanges DEF AdmissionType
  <2>2. dev[c].pc = "join" /\ dev[c].addr \in IP /\ devices' = [devices EXCEPT ![dev[c].addr] = c]
    BY <1>1 DEF Join, AdmissionType, Shaped, Shape, At
  <2>3. ASSUME NEW a \in IP, devices'[a] # NoConn
        PROVE  dev'[devices'[a]].pc = "online" /\ dev'[devices'[a]].addr = a
    <3>1. CASE a = dev[c].addr
      BY <1>0, <2>1, <2>2, <3>1
    <3>2. CASE a # dev[c].addr
      <4>1. devices'[a] = devices[a] /\ devices[a] \in Conn
        BY <1>0, <2>2, <2>3, <3>2
      <4>2. dev[devices[a]].pc = "online" /\ dev[devices[a]].addr = a
        BY <2>3, <4>1 DEF NoGhost, At
      <4>3. QED BY <2>1, <2>2, <4>1, <4>2
    <3>3. QED BY <3>1, <3>2
  <2>4. ASSUME NEW m \in Name, byID'[m] # NoConn
        PROVE  dev'[byID'[m]].pc = "online" /\ dev'[byID'[m]].name = m
    <3>1. CASE m = n
      BY <1>0, <2>1, <3>1
    <3>2. CASE m # n
      <4>1. byID'[m] = byID[m] /\ byID[m] \in Conn
        BY <1>0, <2>1, <2>4, <3>2
      <4>2. dev[byID[m]].pc = "online" /\ dev[byID[m]].name = m
        BY <2>4, <4>1 DEF NoGhost, At
      <4>3. QED BY <2>1, <2>2, <4>1, <4>2
    <3>3. QED BY <3>1, <3>2
  <2>5. ASSUME NEW d \in Conn, dev'[d].pc = "online" PROVE byID'[dev'[d].name] = d
    <3>1. CASE d = c
      BY <1>0, <2>1, <3>1
    <3>2. CASE d # c
      <4>1. dev[d].pc = "online" /\ dev'[d].name = dev[d].name
        BY <2>1, <2>5, <3>2
      <4>2. byID[dev[d].name] = d /\ dev[d].name \in Name /\ dev[d].name # n
        BY <1>0, <2>1, <4>1 DEF NoGhost, At
      <4>3. QED BY <1>0, <2>1, <4>1, <4>2
    <3>3. QED BY <3>1, <3>2
  <2>6. QED BY <2>3, <2>4, <2>5 DEF NoGhost, At
<1>2. ASSUME NEW c \in Conn, Remove(c) PROVE NoGhost'
  <2>1. /\ dev[c].pc = "online" /\ dev'[c].pc # "online"
        /\ \A d \in Conn : d # c => dev'[d] = dev[d]
        /\ \A a \in IP : devices'[a] = IF a = dev[c].addr /\ devices[a] = c
                                       THEN NoConn ELSE devices[a]
        /\ \A n \in Name : byID'[n] = IF n = dev[c].name /\ byID[n] = c
                                      THEN NoConn ELSE byID[n]
    BY <1>2, RemoveChanges
  <2>2. ASSUME NEW a \in IP, devices'[a] # NoConn
        PROVE  dev'[devices'[a]].pc = "online" /\ dev'[devices'[a]].addr = a
    <3>1. devices'[a] = devices[a] /\ devices[a] \in Conn
      BY <1>0, <2>1, <2>2
    <3>2. dev[devices[a]].pc = "online" /\ dev[devices[a]].addr = a
      BY <2>2, <3>1 DEF NoGhost, At
    <3>3. devices[a] # c
      BY <2>1, <2>2, <3>2
    <3>4. QED BY <2>1, <3>1, <3>2, <3>3
  <2>3. ASSUME NEW n \in Name, byID'[n] # NoConn
        PROVE  dev'[byID'[n]].pc = "online" /\ dev'[byID'[n]].name = n
    <3>1. byID'[n] = byID[n] /\ byID[n] \in Conn
      BY <1>0, <2>1, <2>3
    <3>2. dev[byID[n]].pc = "online" /\ dev[byID[n]].name = n
      BY <2>3, <3>1 DEF NoGhost, At
    <3>3. byID[n] # c
      BY <2>1, <2>3, <3>2
    <3>4. QED BY <2>1, <3>1, <3>2, <3>3
  <2>4. ASSUME NEW d \in Conn, dev'[d].pc = "online" PROVE byID'[dev'[d].name] = d
    <3>1. d # c /\ dev'[d] = dev[d]
      BY <2>1, <2>4
    <3>2. byID[dev[d].name] = d /\ dev[d].name \in Name
      BY <1>0, <2>4, <3>1 DEF NoGhost, At
    <3>3. QED BY <2>1, <3>1, <3>2
  <2>5. QED BY <2>2, <2>3, <2>4 DEF NoGhost, At
<1>3. ASSUME UNCHANGED server,
             \A d \in Conn : /\ dev'[d].pc = "online" <=> dev[d].pc = "online"
                             /\ dev[d].pc = "online" => /\ dev'[d].addr = dev[d].addr
                                                        /\ dev'[d].name = dev[d].name
      PROVE  NoGhost'
  <2>1. devices' = devices /\ byID' = byID
    BY <1>3 DEF server
  <2>2. QED BY <1>0, <1>3, <2>1 DEF NoGhost, At
<1>4. QED BY <1>1, <1>2, <1>3, OnlineSteps

(***************************************************************************)
(* However takeovers by register, late calls of removeDevice and closed    *)
(* connections interleave, devices and byID lead only to connections that  *)
(* are joined, and every joined connection is found under its name.        *)
(***************************************************************************)
THEOREM IndexesHaveNoGhost == ASpec => []NoGhost
<1>1. AInit => AdmissionType
  BY AdmissionTypeInit DEF AdmissionType
<1>2. AInit => NoGhost
  BY DEF AInit, NoGhost, At, Idle
<1>3. AdmissionType /\ NoGhost /\ [ANext]_all => NoGhost'
  BY NoGhostStep
<1>4. QED BY <1>1, <1>2, <1>3, AdmissionStep, PTL DEF ASpec

-----------------------------------------------------------------------------
LEMMA OneConnStep ==
    ASSUME AdmissionType, OneConnPerAddress, [ANext]_all
    PROVE  OneConnPerAddress'
<1>0. /\ devices \in [IP -> Conn \cup {NoConn}]
      /\ \A c \in Conn : dev[c].pc = "online" => dev[c].addr \in IP
  BY DEF AdmissionType, ATypeOK, Shaped, Shape, At
<1>1. ASSUME NEW c \in Conn, Join(c) PROVE OneConnPerAddress'
  <2>1. /\ dev'[c].addr = dev[c].addr
        /\ \A d \in Conn \ {c} :
              /\ dev'[d].pc = dev[d].pc
              /\ dev'[d].addr = dev[d].addr
              /\ dev'[d].open => dev[d].open /\ d # devices[dev[c].addr]
    BY <1>1, JoinChanges DEF AdmissionType
  <2>2. dev[c].addr \in IP /\ devices' = [devices EXCEPT ![dev[c].addr] = c]
    BY <1>1 DEF Join, AdmissionType, Shaped, Shape, At
  <2>3. ASSUME NEW d \in Conn, dev'[d].pc = "online", dev'[d].open
        PROVE  devices'[dev'[d].addr] = d
    <3>1. CASE d = c
      BY <1>0, <2>1, <2>2, <3>1
    <3>2. CASE d # c
      <4>1. dev[d].pc = "online" /\ dev[d].open /\ dev'[d].addr = dev[d].addr
            /\ d # devices[dev[c].addr]
        BY <2>1, <2>3, <3>2
      <4>2. devices[dev[d].addr] = d /\ dev[d].addr \in IP
        BY <1>0, <4>1 DEF OneConnPerAddress, Online, At
      <4>3. QED BY <1>0, <2>2, <4>1, <4>2
    <3>3. QED BY <3>1, <3>2
  <2>4. QED BY <2>3 DEF OneConnPerAddress, Online, At
<1>2. ASSUME NEW c \in Conn, Remove(c) PROVE OneConnPerAddress'
  <2>1. /\ dev'[c].pc # "online"
        /\ \A d \in Conn : d # c => dev'[d] = dev[d]
        /\ \A a \in IP : devices'[a] = IF a = dev[c].addr /\ devices[a] = c
                                       THEN NoConn ELSE devices[a]
    BY <1>2, RemoveChanges
  <2>2. ASSUME NEW d \in Conn, dev'[d].pc = "online", dev'[d].open
        PROVE  devices'[dev'[d].addr] = d
    <3>1. d # c /\ dev'[d] = dev[d]
      BY <2>1, <2>2
    <3>2. devices[dev[d].addr] = d /\ dev[d].addr \in IP
      BY <1>0, <2>2, <3>1 DEF OneConnPerAddress, Online, At
    <3>3. QED BY <2>1, <3>1, <3>2
  <2>3. QED BY <2>2 DEF OneConnPerAddress, Online, At
<1>3. ASSUME UNCHANGED server,
             \A d \in Conn : /\ dev'[d].pc = "online" <=> dev[d].pc = "online"
                             /\ dev[d].pc = "online" => /\ dev'[d].addr = dev[d].addr
                                                        /\ dev'[d].open => dev[d].open
      PROVE  OneConnPerAddress'
  <2>1. devices' = devices
    BY <1>3 DEF server
  <2>2. QED BY <1>3, <2>1 DEF OneConnPerAddress, Online, At
<1>4. QED BY <1>1, <1>2, <1>3, OnlineSteps

(***************************************************************************)
(* A connection that is online and not closed is the one devices names at  *)
(* its address: of any number of connections that come to hold one address *)
(* at most one is still open, the one that joined last.                    *)
(***************************************************************************)
THEOREM OneOpenPerAddress == ASpec => []OneConnPerAddress
<1>1. AInit => AdmissionType
  BY AdmissionTypeInit DEF AdmissionType
<1>2. AInit => OneConnPerAddress
  BY DEF AInit, OneConnPerAddress, Online, At, Idle
<1>3. AdmissionType /\ OneConnPerAddress /\ [ANext]_all => OneConnPerAddress'
  BY OneConnStep
<1>4. QED BY <1>1, <1>2, <1>3, AdmissionStep, PTL DEF ASpec

-----------------------------------------------------------------------------
(* Only allocVIP and the release of an address change which addresses are  *)
(* lent; no other step makes a connection a guest or moves a guest.        *)
LEMMA GuestSteps ==
    ASSUME AdmissionType, [ANext]_all
    PROVE  \/ \E c \in Conn : AllocVIP(c) \/ Release(c)
           \/ /\ anon' = anon
              /\ \A d \in Conn : Guest(d)' => Guest(d) /\ dev'[d].addr = dev[d].addr
<1> DEFINE Kept == \A d \in Conn : Guest(d)' => Guest(d) /\ dev'[d].addr = dev[d].addr
<1>0. dev \in [Conn -> Device]
  BY DEF AdmissionType, ATypeOK
<1>1. ASSUME NEW c \in Conn, dev'[c].pc \notin {"join", "online", "release"},
             \A d \in Conn : d # c => dev'[d] = dev[d]
      PROVE  Kept
  BY <1>1 DEF Guest
<1>2. ASSUME NEW c \in Conn, Drop(c) PROVE Kept
  <2>1. dev'[c].pc = "idle" /\ \A d \in Conn : d # c => dev'[d] = dev[d]
    BY <1>0, <1>2 DEF Drop, Idle
  <2>2. QED BY <1>1, <2>1
<1>3. ASSUME NEW c \in Conn, NEW l \in {"credential", "issue", "recheck"}, Goto(c, l) PROVE Kept
  <2>1. dev'[c] = [dev[c] EXCEPT !.pc = l] /\ dev[c] \in Device
        /\ \A d \in Conn : d # c => dev'[d] = dev[d]
    BY <1>0, <1>3 DEF Goto
  <2>2. dev'[c].pc = l
    BY <2>1 DEF Device
  <2>3. QED BY <1>1, <1>3, <2>1, <2>2
<1>4. ASSUME NEW c \in Conn, NEW h \in HWID, Accept(c, h) PROVE Kept
  <2>1. /\ dev'[c] = [dev[c] EXCEPT !.pc = "first", !.who = h, !.open = TRUE]
        /\ dev[c] \in Device /\ \A d \in Conn : d # c => dev'[d] = dev[d]
    BY <1>0, <1>4 DEF Accept
  <2>2. dev'[c].pc = "first"
    BY <2>1 DEF Device
  <2>3. QED BY <1>1, <2>1, <2>2
<1>5. ASSUME NEW c \in Conn, NEW id, Reply(c, id) PROVE Kept
  BY <1>2, <1>5 DEF Reply
<1>6. ASSUME NEW c \in Conn, GiveUp(c) \/ Register(c) PROVE Kept
  <2>1. Drop(c) \/ Goto(c, "credential")
    BY <1>6 DEF GiveUp, Register
  <2>2. QED BY <1>2, <1>3, <2>1
<1>7. ASSUME NEW c \in Conn, LookUpCredential(c) PROVE Kept
  <2>1. Reply(c, deviceID[dev[c].who]) \/ Drop(c) \/ Goto(c, "issue")
    BY <1>7 DEF LookUpCredential
  <2>2. QED BY <1>2, <1>3, <1>5, <2>1
<1>8. ASSUME NEW c \in Conn, NEW id \in DeviceID, IssueCredential(c, id) PROVE Kept
  <2>1. Reply(c, id) \/ Goto(c, "recheck")
    BY <1>8 DEF IssueCredential
  <2>2. QED BY <1>3, <1>5, <2>1
<1>9. ASSUME NEW c \in Conn, NEW h \in HWID \cup {NoHWID}, Hello(c, h) PROVE Kept
  <2>1. Drop(c) \/ dev' = [dev EXCEPT ![c].pc = "alloc", ![c].hwid = h]
    BY <1>9 DEF Hello
  <2>2. CASE dev' = [dev EXCEPT ![c].pc = "alloc", ![c].hwid = h]
    <3>1. /\ dev'[c] = [dev[c] EXCEPT !.pc = "alloc", !.hwid = h]
          /\ dev[c] \in Device /\ \A d \in Conn : d # c => dev'[d] = dev[d]
      BY <1>0, <2>2
    <3>2. dev'[c].pc = "alloc"
      BY <3>1 DEF Device
    <3>3. QED BY <1>1, <3>1, <3>2
  <2>3. QED BY <1>2, <2>1, <2>2
<1>10. ASSUME NEW c \in Conn, Join(c) PROVE Kept
  <2>1. \A d \in Conn : /\ dev'[d].hwid = dev[d].hwid /\ dev'[d].addr = dev[d].addr
                        /\ dev'[d].pc = dev[d].pc \/ dev[d].pc = "join"
    <3>1. dev[c].pc = "join"
      BY <1>10 DEF Join, At
    <3>2. QED BY <1>10, <3>1, JoinChanges DEF AdmissionType
  <2>2. QED BY <2>1 DEF Guest
<1>11. ASSUME NEW c \in Conn, dev' = [dev EXCEPT ![c].open = FALSE] PROVE Kept
  <2>1. /\ dev'[c] = [dev[c] EXCEPT !.open = FALSE]
        /\ dev[c] \in Device /\ \A d \in Conn : d # c => dev'[d] = dev[d]
    BY <1>0, <1>11
  <2>2. dev'[c].pc = dev[c].pc /\ dev'[c].addr = dev[c].addr /\ dev'[c].hwid = dev[c].hwid
    BY <2>1 DEF Device
  <2>3. QED BY <2>1, <2>2 DEF Guest
<1>12. ASSUME UNCHANGED dev PROVE Kept
  BY <1>12 DEF Guest
<1>13. ASSUME NEW h \in HWID, CloseDevice(h) PROVE Kept
  <2>1. UNCHANGED dev \/ \E c \in Conn : dev' = [dev EXCEPT ![c].open = FALSE]
    BY <1>13 DEF CloseDevice, FindByHWID
  <2>2. QED BY <1>11, <1>12, <2>1
<1>14. ASSUME NEW c \in Conn, Break(c) PROVE Kept
  <2>1. dev' = [dev EXCEPT ![c].open = FALSE]
    BY <1>14 DEF Break
  <2>2. QED BY <1>11, <2>1
<1>15. ASSUME NEW c \in Conn, Remove(c) PROVE Kept
  <2>1. dev[c].pc = "online" /\ (Drop(c) \/ (dev[c].hwid = NoHWID /\ Goto(c, "release")))
    BY <1>15 DEF Remove, At
  <2>2. CASE dev[c].hwid = NoHWID /\ Goto(c, "release")
    <3>1. dev'[c] = [dev[c] EXCEPT !.pc = "release"] /\ dev[c] \in Device
          /\ \A d \in Conn : d # c => dev'[d] = dev[d]
      BY <1>0, <2>2 DEF Goto
    <3>2. dev'[c].addr = dev[c].addr
      BY <3>1 DEF Device
    <3>3. QED BY <2>1, <2>2, <3>1, <3>2 DEF Guest
  <2>3. QED BY <1>2, <2>1, <2>2
<1>16. anon' = anon \/ \E c \in Conn : AllocVIP(c) \/ Release(c)
  BY DEF ANext, Accept, GiveUp, Register, LookUpCredential, IssueCredential, Hello, Join, Break,
     Remove, RevokeDeviceCredential, UnblockDevice, SetDeviceIP, CloseDevice, Sweep, Advance,
     SetCredential, Block, Unblock, SetIP, Prune, Tick, table, vars, all
<1>17. Kept \/ \E c \in Conn : AllocVIP(c) \/ Release(c)
  BY <1>4, <1>6, <1>7, <1>8, <1>9, <1>10, <1>12, <1>13, <1>14, <1>15
     DEF ANext, RevokeDeviceCredential, UnblockDevice, SetDeviceIP, Sweep, Advance, all
<1>18. QED BY <1>16, <1>17

(* allocVIP lends a guest an address that nobody leases or has been lent;  *)
(* with a hardware id it lends nothing.                                    *)
LEMMA AllocChanges ==
    ASSUME AdmissionType, PoolExact, NEW c \in Conn, AllocVIP(c)
    PROVE  /\ anon \subseteq anon'
           /\ \A d \in Conn : d # c => dev'[d] = dev[d]
           /\ Guest(c)' => dev'[c].addr \in anon' \ anon
<1>0. dev \in [Conn -> Device] /\ dev[c] \in Device
  BY DEF AdmissionType, ATypeOK
<1>1. CASE Drop(c) /\ (AssignFull(dev[c].hwid) \/ UNCHANGED table)
  <2>1. anon' = anon
    BY <1>1 DEF AssignFull, table, vars
  <2>2. dev'[c].pc = "idle" /\ \A d \in Conn : d # c => dev'[d] = dev[d]
    BY <1>0, <1>1 DEF Drop, Idle
  <2>3. QED BY <2>1, <2>2 DEF Guest
<1>2. ASSUME NEW a, dev' = [dev EXCEPT ![c].pc = "join", ![c].addr = a]
      PROVE  /\ dev'[c].addr = a /\ dev'[c].hwid = dev[c].hwid
             /\ \A d \in Conn : d # c => dev'[d] = dev[d]
  <2>1. /\ dev'[c] = [dev[c] EXCEPT !.pc = "join", !.addr = a]
        /\ \A d \in Conn : d # c => dev'[d] = dev[d]
    BY <1>0, <1>2
  <2>2. QED BY <1>0, <2>1 DEF Device
<1>3. CASE /\ dev[c].hwid # NoHWID /\ Granted(dev[c].hwid)
           /\ dev' = [dev EXCEPT ![c].pc = "join", ![c].addr = vip'[dev[c].hwid]]
  <2>1. anon' = anon
    BY <1>3 DEF Granted, AssignNew, AssignRenew, AssignReclaim, Lease
  <2>2. QED BY <1>2, <1>3, <2>1 DEF Guest
<1>4. ASSUME AllocAnonymous, NEW a \in anon' \ anon,
             dev' = [dev EXCEPT ![c].pc = "join", ![c].addr = a]
      PROVE  /\ anon \subseteq anon'
             /\ \A d \in Conn : d # c => dev'[d] = dev[d]
             /\ Guest(c)' => dev'[c].addr \in anon' \ anon
  <2>1. anon \subseteq anon'
    BY <1>4 DEF AllocAnonymous
  <2>2. QED BY <1>2, <1>4, <2>1
<1>5. QED BY <1>1, <1>3, <1>4 DEF AllocVIP

LEMMA GuestStep ==
    ASSUME AdmissionType, LeaseInv, LeaseInv', GuestKeepsAddress, [ANext]_all
    PROVE  GuestKeepsAddress'
<1>0. dev \in [Conn -> Device]
  BY DEF AdmissionType, ATypeOK
<1>1. (anon \cap {vip[h] : h \in HWID})' = {}
  <2>1. 0 \notin anon'
    BY PoolAssumption DEF LeaseInv, TypeOK, Pool
  <2>2. (Leased \cap anon)' = {}
    BY DEF LeaseInv, PoolExact
  <2>3. QED BY <2>1, <2>2 DEF Leased
<1>2. ASSUME NEW c \in Conn, AllocVIP(c) PROVE GuestKeepsAddress'
  <2>1. /\ anon \subseteq anon'
        /\ \A d \in Conn : d # c => dev'[d] = dev[d]
        /\ Guest(c)' => dev'[c].addr \in anon' \ anon
    BY <1>2, AllocChanges DEF LeaseInv
  <2>2. \A d \in Conn \ {c} : Guest(d)' => Guest(d) /\ dev'[d].addr = dev[d].addr
    BY <2>1 DEF Guest
  <2>3. \A d \in Conn \ {c} : Guest(d)' => dev'[d].addr \in anon
    BY <2>2 DEF GuestKeepsAddress
  <2>4. \A d \in Conn : Guest(d)' => dev'[d].addr \in anon'
    BY <2>1, <2>3
  <2>5. \A d, e \in Conn : Guest(d)' /\ Guest(e)' /\ dev'[d].addr = dev'[e].addr => d = e
    BY <2>1, <2>2, <2>3 DEF GuestKeepsAddress
  <2>6. QED BY <1>1, <2>4, <2>5 DEF GuestKeepsAddress
<1>3. ASSUME NEW c \in Conn, Release(c) PROVE GuestKeepsAddress'
  <2>1. /\ Guest(c) /\ anon' = anon \ {dev[c].addr}
        /\ dev'[c].pc = "idle" /\ \A d \in Conn : d # c => dev'[d] = dev[d]
    BY <1>0, <1>3 DEF Release, ReleaseAnonymous, Drop, Idle, At, Guest, AdmissionType, Shaped, Shape
  <2>2. \A d \in Conn : Guest(d)' => d # c /\ Guest(d) /\ dev'[d].addr = dev[d].addr
    BY <2>1 DEF Guest
  <2>3. QED BY <1>1, <2>1, <2>2 DEF GuestKeepsAddress
<1>4. ASSUME anon' = anon,
             \A d \in Conn : Guest(d)' => Guest(d) /\ dev'[d].addr = dev[d].addr
      PROVE  GuestKeepsAddress'
  BY <1>1, <1>4 DEF GuestKeepsAddress
<1>5. QED BY <1>2, <1>3, <1>4, GuestSteps

(***************************************************************************)
(* A connection without a hardware id has its address to itself from       *)
(* allocVIP until it has given it back, although removeDevice decides under*)
(* s.mu to release it and releases it outside: no other guest has been lent*)
(* it and no device leases it.                                             *)
(***************************************************************************)
THEOREM GuestsKeepAddresses == ASpec => []GuestKeepsAddress
<1>1. AInit => AdmissionType
  BY AdmissionTypeInit DEF AdmissionType
<1>2. AInit => LeaseInv
  BY LeaseInit DEF AInit
<1>3. AInit => GuestKeepsAddress
  BY DEF AInit, Init, GuestKeepsAddress, Guest, Idle
<1>4. LeaseInv /\ [Next]_vars => LeaseInv'
  BY LeaseStep
<1>5. AdmissionType /\ LeaseInv /\ LeaseInv' /\ GuestKeepsAddress /\ [ANext]_all => GuestKeepsAddress'
  BY GuestStep
<1>6. QED BY <1>1, <1>2, <1>3, <1>4, <1>5, AdmissionStep, PTL DEF ASpec

-----------------------------------------------------------------------------
(* The credential on a device's disk is its own or nobody's: the index     *)
(* never leads from it to another device.                                  *)
HoldsOwn == \A g \in HWID : holds[g] # NoID => byDeviceID[holds[g]] \in {NoHWID, g}

LEMMA HoldsOwnStep ==
    ASSUME AdmissionType, CredentialIndex, HoldsOwn, [ANext]_all
    PROVE  HoldsOwn'
<1>0. /\ holds \in [HWID -> DeviceID \cup {NoID}]
      /\ byDeviceID \in [DeviceID -> HWID \cup {NoHWID}]
      /\ deviceID \in [HWID -> DeviceID \cup {NoID}]
  BY DEF AdmissionType, ATypeOK, TypeOK
<1>1. ASSUME UNCHANGED <<holds, byDeviceID>> PROVE HoldsOwn'
  BY <1>1 DEF HoldsOwn
<1>2. ASSUME NEW c \in Conn, LookUpCredential(c) PROVE HoldsOwn'
  <2>1. dev[c].who \in HWID /\ byDeviceID' = byDeviceID
    BY <1>2 DEF LookUpCredential, AdmissionType, Shaped, Shape, At, table, vars, index
  <2>2. CASE UNCHANGED holds
    BY <1>1, <2>1, <2>2
  <2>3. CASE /\ deviceID[dev[c].who] # NoID
             /\ holds' = [holds EXCEPT ![dev[c].who] = deviceID[dev[c].who]]
    <3>1. deviceID[dev[c].who] \in DeviceID
          /\ byDeviceID[deviceID[dev[c].who]] = dev[c].who
      BY <1>0, <2>1, <2>3 DEF CredentialIndex
    <3>2. QED BY <1>0, <2>1, <2>3, <3>1 DEF HoldsOwn
  <2>4. QED BY <1>2, <2>2, <2>3 DEF LookUpCredential, Reply
<1>3. ASSUME NEW c \in Conn, NEW id \in DeviceID, IssueCredential(c, id) PROVE HoldsOwn'
  <2>1. dev[c].who \in HWID /\ \A g \in HWID : holds[g] # id
    BY <1>3 DEF IssueCredential, AdmissionType, Shaped, Shape, At
  <2>2. CASE UNCHANGED <<table, holds>>
    BY <1>1, <2>2 DEF table, vars, index
  <2>3. CASE SetCredential(dev[c].who, id) /\ Reply(c, id)
    <3>1. byDeviceID' = [byDeviceID EXCEPT ![id] = dev[c].who]
      BY <2>3 DEF SetCredential
    <3>2. holds' = holds \/ holds' = [holds EXCEPT ![dev[c].who] = id]
      BY <2>3 DEF Reply
    <3>3. ASSUME NEW g \in HWID, holds'[g] # NoID PROVE byDeviceID'[holds'[g]] \in {NoHWID, g}
      <4>1. CASE holds'[g] = holds[g]
        BY <1>0, <2>1, <3>1, <3>3, <4>1 DEF HoldsOwn
      <4>2. CASE g = dev[c].who /\ holds'[g] = id
        BY <1>0, <3>1, <4>2
      <4>3. QED BY <1>0, <3>2, <4>1, <4>2
    <3>4. QED BY <3>3 DEF HoldsOwn
  <2>4. QED BY <1>3, <2>2, <2>3 DEF IssueCredential
<1>4. ASSUME NEW c \in Conn, NEW h \in HWID \cup {NoHWID}, Hello(c, h) PROVE HoldsOwn'
  <2>1. /\ byDeviceID' = byDeviceID
        /\ UNCHANGED holds \/ holds' = [holds EXCEPT ![dev[c].who] = NoID]
    BY <1>4 DEF Hello, table, vars, index
  <2>2. QED BY <1>0, <2>1 DEF HoldsOwn
<1>5. ASSUME NEW h \in HWID, RevokeDeviceCredential(h) PROVE HoldsOwn'
  <2>1. /\ UNCHANGED holds
        /\ byDeviceID' = [id \in DeviceID |-> IF id = deviceID[h] THEN NoHWID ELSE byDeviceID[id]]
    BY <1>5 DEF RevokeDeviceCredential, Block
  <2>2. QED BY <1>0, <2>1 DEF HoldsOwn
<1>6. ASSUME NEW h \in HWID, UnblockDevice(h) \/ CloseDevice(h) PROVE HoldsOwn'
  BY <1>1, <1>6 DEF UnblockDevice, Unblock, CloseDevice, table, vars, index
<1>7. ASSUME NEW h \in HWID, NEW a \in Pool, SetDeviceIP(h, a) PROVE HoldsOwn'
  BY <1>1, <1>7 DEF SetDeviceIP, SetIP, table, vars, index
<1>8. CASE Sweep \/ Advance \/ UNCHANGED all
  BY <1>1, <1>8 DEF Sweep, Advance, Prune, Tick, all, table, vars, index, record
<1>9. ASSUME NEW c \in Conn, AllocVIP(c) PROVE HoldsOwn'
  <2>1. AssignFull(dev[c].hwid) \/ Granted(dev[c].hwid) \/ AllocAnonymous \/ UNCHANGED table
    BY <1>9 DEF AllocVIP
  <2>2. byDeviceID' = byDeviceID
    BY <2>1 DEF AssignFull, Granted, AssignNew, AssignRenew, AssignReclaim, Lease,
                AllocAnonymous, table, vars, index
  <2>3. QED BY <1>1, <1>9, <2>2 DEF AllocVIP
<1>10. ASSUME NEW c \in Conn, NEW h \in HWID,
              Accept(c, h) \/ GiveUp(c) \/ Register(c) \/ Join(c) \/ Break(c) \/ Remove(c) \/ Release(c)
       PROVE  HoldsOwn'
  BY <1>1, <1>10 DEF Accept, GiveUp, Register, Join, Break, Remove, Release, ReleaseAnonymous,
                     table, vars, index
<1>11. QED
  BY <1>2, <1>3, <1>4, <1>5, <1>6, <1>7, <1>8, <1>9, <1>10 DEF ANext, AdmissionType, Shaped, Shape,
     GiveUp, Register, Join, Break, Remove, Release, At

(* A blocked device that is quiet gets no credential and no connection     *)
(* past the checks, whatever else happens.                                 *)
LEMMA QuietStep ==
    ASSUME AdmissionType, CredentialIndex, HoldsOwn, [ANext]_all,
           NEW h \in HWID, Quiet(h), blocked'[h]
    PROVE  Quiet(h)'
<1> DEFINE Waiting == \A c \in Conn : dev'[c].who = h => dev'[c].pc = "first"
<1>0. /\ dev \in [Conn -> Device]
      /\ holds \in [HWID -> DeviceID \cup {NoID}]
      /\ deviceID \in [HWID -> DeviceID \cup {NoID}]
      /\ blocked[h] /\ deviceID[h] = NoID
      /\ \A id \in DeviceID : byDeviceID[id] # h
      /\ \A c \in Conn : dev[c].who = h => dev[c].pc = "first"
  <2>1. deviceID[h] = NoID
    BY DEF Quiet
  <2>2. \A id \in DeviceID : byDeviceID[id] # h
    BY <2>1 DEF CredentialIndex
  <2>3. QED BY <2>1, <2>2 DEF AdmissionType, ATypeOK, TypeOK, Quiet, At
<1>1. ASSUME NEW c \in Conn, dev'[c].who # h, \A d \in Conn : d # c => dev'[d] = dev[d]
      PROVE  Waiting
  BY <1>0, <1>1
<1>2. ASSUME NEW c \in Conn, Drop(c) PROVE Waiting
  <2>1. dev'[c].who = NoHWID /\ \A d \in Conn : d # c => dev'[d] = dev[d]
    BY <1>0, <1>2 DEF Drop, Idle
  <2>2. QED BY <1>1, <2>1
<1>3. ASSUME NEW c \in Conn, NEW l, Goto(c, l), dev[c].who # h PROVE Waiting
  <2>1. dev'[c] = [dev[c] EXCEPT !.pc = l] /\ dev[c] \in Device
        /\ \A d \in Conn : d # c => dev'[d] = dev[d]
    BY <1>0, <1>3 DEF Goto
  <2>2. dev'[c].who = dev[c].who
    BY <2>1 DEF Device
  <2>3. QED BY <1>1, <1>3, <2>1, <2>2
<1>4. ASSUME NEW c \in Conn, NEW g \in HWID, Accept(c, g) PROVE Waiting
  <2>1. /\ dev'[c] = [dev[c] EXCEPT !.pc = "first", !.who = g, !.open = TRUE]
        /\ dev[c] \in Device /\ \A d \in Conn : d # c => dev'[d] = dev[d]
    BY <1>0, <1>4 DEF Accept
  <2>2. dev'[c].pc = "first"
    BY <2>1 DEF Device
  <2>3. QED BY <1>0, <2>1, <2>2
<1>5. ASSUME NEW c \in Conn, NEW id, Reply(c, id) PROVE Waiting
  BY <1>2, <1>5 DEF Reply
<1>6. ASSUME NEW c \in Conn, GiveUp(c) \/ Release(c) PROVE Waiting
  BY <1>2, <1>6 DEF GiveUp, Release
<1>7. ASSUME NEW c \in Conn, Register(c) PROVE Waiting
  <2>1. CASE dev[c].who = h
    BY <1>0, <1>2, <1>7, <2>1 DEF Register
  <2>2. CASE dev[c].who # h
    BY <1>2, <1>3, <1>7, <2>2 DEF Register
  <2>3. QED BY <2>1, <2>2
<1>8. ASSUME NEW c \in Conn, LookUpCredential(c) PROVE Waiting
  <2>1. dev[c].who # h /\ (Reply(c, deviceID[dev[c].who]) \/ Drop(c) \/ Goto(c, "issue"))
    BY <1>0, <1>8 DEF LookUpCredential
  <2>2. QED BY <1>2, <1>3, <1>5, <2>1
<1>9. ASSUME NEW c \in Conn, NEW id \in DeviceID, IssueCredential(c, id)
      PROVE  Waiting /\ dev[c].who # h
  <2>1. dev[c].who # h /\ (Reply(c, id) \/ Goto(c, "recheck"))
    BY <1>0, <1>9 DEF IssueCredential, At
  <2>2. QED BY <1>3, <1>5, <2>1
<1>10. ASSUME NEW c \in Conn, NEW g \in HWID \cup {NoHWID}, Hello(c, g) PROVE Waiting
  <2>1. CASE dev[c].who = h
    <3>1. holds[h] # NoID /\ holds[h] \in DeviceID
      BY <1>0, <1>10, <2>1 DEF Hello
    <3>2. byDeviceID[holds[h]] = NoHWID
      BY <1>0, <3>1 DEF HoldsOwn
    <3>3. Drop(c)
      BY <1>10, <2>1, <3>2 DEF Hello
    <3>4. QED BY <1>2, <3>3
  <2>2. CASE dev[c].who # h /\ dev' = [dev EXCEPT ![c].pc = "alloc", ![c].hwid = g]
    <3>1. /\ dev'[c] = [dev[c] EXCEPT !.pc = "alloc", !.hwid = g]
          /\ dev[c] \in Device /\ \A d \in Conn : d # c => dev'[d] = dev[d]
      BY <1>0, <2>2
    <3>2. dev'[c].who = dev[c].who
      BY <3>1 DEF Device
    <3>3. QED BY <1>1, <2>2, <3>1, <3>2
  <2>3. Drop(c) \/ dev' = [dev EXCEPT ![c].pc = "alloc", ![c].hwid = g]
    BY <1>10 DEF Hello
  <2>4. QED BY <1>2, <2>1, <2>2, <2>3
<1>11. ASSUME NEW c \in Conn, AllocVIP(c) PROVE Waiting
  <2>1. /\ dev[c].who # h
        /\ Drop(c) \/ \E a : dev' = [dev EXCEPT ![c].pc = "join", ![c].addr = a]
    BY <1>0, <1>11 DEF AllocVIP, At
  <2>2. ASSUME NEW a, dev' = [dev EXCEPT ![c].pc = "join", ![c].addr = a] PROVE Waiting
    <3>1. /\ dev'[c] = [dev[c] EXCEPT !.pc = "join", !.addr = a]
          /\ dev[c] \in Device /\ \A d \in Conn : d # c => dev'[d] = dev[d]
      BY <1>0, <2>2
    <3>2. dev'[c].who = dev[c].who
      BY <3>1 DEF Device
    <3>3. QED BY <1>1, <2>1, <3>1, <3>2
  <2>3. QED BY <1>2, <2>1, <2>2
<1>12. ASSUME NEW c \in Conn, Join(c) PROVE Waiting
  <2>1. /\ dev[c].who # h
        /\ dev'[c].who = dev[c].who
        /\ \A d \in Conn \ {c} : dev'[d].who = dev[d].who /\ dev'[d].pc = dev[d].pc
    BY <1>0, <1>12, JoinChanges DEF Join, At, AdmissionType
  <2>2. QED BY <1>0, <2>1
<1>13. ASSUME NEW c \in Conn, dev' = [dev EXCEPT ![c].open = FALSE] PROVE Waiting
  <2>1. /\ dev'[c] = [dev[c] EXCEPT !.open = FALSE]
        /\ dev[c] \in Device /\ \A d \in Conn : d # c => dev'[d] = dev[d]
    BY <1>0, <1>13
  <2>2. dev'[c].pc = dev[c].pc /\ dev'[c].who = dev[c].who
    BY <2>1 DEF Device
  <2>3. \A d \in Conn : dev'[d].pc = dev[d].pc /\ dev'[d].who = dev[d].who
    BY <2>1, <2>2
  <2>4. \A d \in Conn : dev[d].who = h => dev[d].pc = "first"
    BY <1>0
  <2>5. QED BY <2>3, <2>4
<1>14. ASSUME NEW c \in Conn, Break(c) PROVE Waiting
  <2>1. dev' = [dev EXCEPT ![c].open = FALSE]
    BY <1>14 DEF Break
  <2>2. QED BY <1>13, <2>1
<1>15. ASSUME NEW c \in Conn, Remove(c) PROVE Waiting
  <2>1. dev[c].who # h /\ (Goto(c, "release") \/ Drop(c))
    BY <1>0, <1>15 DEF Remove, At
  <2>2. QED BY <1>2, <1>3, <2>1
<1>16. ASSUME UNCHANGED dev PROVE Waiting
  BY <1>0, <1>16
<1>17. ASSUME NEW g \in HWID, CloseDevice(g) PROVE Waiting
  <2>1. UNCHANGED dev \/ \E c \in Conn : dev' = [dev EXCEPT ![c].open = FALSE]
    BY <1>17 DEF CloseDevice, FindByHWID
  <2>2. QED BY <1>13, <1>16, <2>1
<1>18. Waiting
  BY <1>4, <1>6, <1>7, <1>8, <1>9, <1>10, <1>11, <1>12, <1>14, <1>15, <1>16, <1>17
     DEF ANext, RevokeDeviceCredential, UnblockDevice, SetDeviceIP, Sweep, Advance, all
<1>19. deviceID'[h] = NoID
  <2>1. ASSUME UNCHANGED table PROVE deviceID'[h] = NoID
    BY <1>0, <2>1 DEF table, vars, record
  <2>2. ASSUME NEW c \in Conn, NEW id \in DeviceID, IssueCredential(c, id) PROVE deviceID'[h] = NoID
    <3>1. CASE SetCredential(dev[c].who, id)
      BY <1>0, <1>9, <2>2, <3>1 DEF SetCredential
    <3>2. CASE UNCHANGED table
      BY <2>1, <3>2
    <3>3. QED BY <2>2, <3>1, <3>2 DEF IssueCredential, table
  <2>3. ASSUME NEW c \in Conn, AllocVIP(c) PROVE deviceID'[h] = NoID
    <3>1. AssignFull(dev[c].hwid) \/ Granted(dev[c].hwid) \/ AllocAnonymous \/ UNCHANGED table
      BY <2>3 DEF AllocVIP
    <3>2. deviceID' = deviceID
      BY <3>1 DEF AssignFull, Granted, AssignNew, AssignRenew, AssignReclaim, Lease,
                  AllocAnonymous, table, vars, record
    <3>3. QED BY <1>0, <3>2
  <2>4. ASSUME NEW g \in HWID, RevokeDeviceCredential(g) PROVE deviceID'[h] = NoID
    <3>1. deviceID' = [deviceID EXCEPT ![g] = NoID]
      BY <2>4 DEF RevokeDeviceCredential, Block
    <3>2. QED BY <1>0, <3>1
  <2>5. deviceID' = deviceID \/ (\E c \in Conn, id \in DeviceID : IssueCredential(c, id))
        \/ (\E c \in Conn : AllocVIP(c)) \/ (\E g \in HWID : RevokeDeviceCredential(g))
    BY DEF ANext, Accept, GiveUp, Register, LookUpCredential, Hello, Join, Break, Remove, Release,
           ReleaseAnonymous, UnblockDevice, Unblock, SetDeviceIP, SetIP, CloseDevice, Sweep, Prune,
           Advance, Tick, all, table, vars, record
  <2>6. QED BY <1>0, <2>2, <2>3, <2>4, <2>5
<1>20. QED BY <1>18, <1>19 DEF Quiet, At

(***************************************************************************)
(* RevokeDeviceCredential takes effect for good: once a blocked device has *)
(* no credential and no connection past the checks of registration and     *)
(* Hello, nothing but UnblockDevice lets it in again, however many         *)
(* connections it opens and whatever credential it still keeps.            *)
(***************************************************************************)
THEOREM BlockingLasts == ASpec => BlockHolds
<1> DEFINE Inv == AdmissionType /\ CredentialInv /\ HoldsOwn
<1>1. AInit => Inv
  BY AdmissionTypeInit, CredentialInit DEF AInit, AdmissionType, HoldsOwn
<1>2. Inv /\ [ANext]_all => Inv'
  <2> SUFFICES ASSUME Inv, [ANext]_all PROVE Inv'
    OBVIOUS
  <2>1. AdmissionType' /\ [Next]_vars
    BY AdmissionStep
  <2>2. [MaintainedNext]_vars
    BY <2>1 DEF MaintainedNext, RestartNext
  <2>3. CredentialInv'
    BY <2>2, CredentialStep
  <2>4. HoldsOwn'
    BY HoldsOwnStep DEF CredentialInv
  <2>5. QED BY <2>1, <2>3, <2>4
<1>3. Inv /\ [ANext]_all => [\A h \in HWID : Quiet(h) /\ blocked'[h] => Quiet(h)']_all
  BY QuietStep DEF CredentialInv
<1>4. QED BY <1>1, <1>2, <1>3, PTL DEF ASpec, BlockHolds
=============================================================================
