--------------------------- MODULE NpsBridgeProofs --------------------------
(***************************************************************************)
(* Proofs about the session of an NPS client with the bridge, for any      *)
(* number of runs, faults and ticks: the counter of a half-filled entry    *)
(* stops at its bound; and about the queues of the mux that is its tunnel, *)
(* for any number of producers: nothing is lost, doubled or overtaken.     *)
(***************************************************************************)
EXTENDS NpsBridge, FiniteSetTheorems, SequenceTheorems, WellFoundedInduction, TLAPS

-----------------------------------------------------------------------------
(* The inductive invariant.                                                *)

(* Registrations that have found or made an entry.                         *)
Past == {r \in Run \X Kind : deal[r[1]][r[2]].pc \in {"swap", "done"}}

(* Objects somebody refers to.                                             *)
Objects == Held(current, deal, del) \ {0}

(* There are no more objects than registrations that made them, ...        *)
Enough == Cardinality(Objects) <= Cardinality(Past)

(* ... and the others are blank.                                           *)
Clean == \A o \in Obj \ Objects : entry[o] = NoEntry

(* What a run has not got to yet has left no trace; the reader of its      *)
(* signals, alone in calling DelClient for it, calls it once.              *)
Trace(g) ==
    /\ npc[g].pc = "idle" => deal[g]["main"].pc = "no" /\ npc[g].chan = "no"
    /\ npc[g].chan \in {"no", "dial"} => deal[g]["chan"].pc = "no"
    /\ \A k \in Kind : deal[g][k].pc = "swap" <=> deal[g][k].obj # 0
    /\ health[g] \/ deal[g]["main"].pc # "done" => del[g] = Idle
    /\ deal[g]["main"].pc # "done" => ~health[g]

Begun == \A g \in Run : Trace(g)

(* An entry at the bound of its ticks is on its way out.                   *)
GivenUp == current # 0 /\ entry[current].retry >= MaxRetry => del[Pinger] # Idle

(* Who is about to take the signal connection out of an entry has one.      *)
Taking == \A p \in Deleter : del[p].pc = "take" <=> del[p].obj # 0

BridgeInv == TypeOK /\ Enough /\ Clean /\ Begun /\ GivenUp /\ Taking

-----------------------------------------------------------------------------
(* A set of naturals that is not empty has a smallest element.             *)
Below == {ss \in Nat \X Nat : ss[1] < ss[2]}

LEMMA BelowWellFounded == IsWellFoundedOn(Below, Nat)
BY NatLessThanWellFounded DEF OpToRel, Below

LEMMA Smallest ==
    ASSUME NEW T \in SUBSET Nat, T # {}
    PROVE  \E n \in T : \A m \in T : ~ m < n
<1>1. PICK n \in T : \A m \in T : <<m, n>> \notin Below
  BY BelowWellFounded, WFMin, Zenon
<1>2. \A m \in T : m < n => <<m, n>> \in Below
  BY DEF Below
<1>3. QED BY <1>1, <1>2

(* What an object is referred to by.                                       *)
LEMMA HeldBy ==
    ASSUME NEW cur, NEW ds, NEW dl, NEW o
    PROVE  o \in Held(cur, ds, dl) <=>
              \/ o = cur
              \/ \E g \in Run, k \in Kind : o = ds[g][k].obj
              \/ \E p \in Deleter : o = dl[p].obj
BY DEF Held

LEMMA ObjectsFinite ==
    ASSUME TypeOK
    PROVE  Objects \in SUBSET Obj /\ IsFiniteSet(Objects)
           /\ IsFiniteSet(Obj) /\ Cardinality(Obj) = 2 * Runs
<1>1. IsFiniteSet(Obj) /\ Cardinality(Obj) = 2 * Runs
  <2>1. 2 * Runs \in Nat /\ Runs # 0
    BY BoundAssumption
  <2>2. IsFiniteSet(1 .. 2 * Runs) /\ Cardinality(1 .. 2 * Runs) = 2 * Runs
    BY <2>1, BoundAssumption, FS_Interval
  <2>3. QED BY <2>2 DEF Obj
<1>2. \A o \in Objects : o \in Obj
  <2>1. SUFFICES ASSUME NEW o \in Objects PROVE o \in {0} \cup Obj
    BY DEF Objects
  <2>2. \/ o = current
        \/ \E g \in Run, k \in Kind : o = deal[g][k].obj
        \/ \E p \in Deleter : o = del[p].obj
    BY HeldBy DEF Objects
  <2>3. QED BY <2>2 DEF TypeOK
<1>3. QED BY <1>1, <1>2, FS_Subset

LEMMA PastFinite ==
    /\ IsFiniteSet(Run \X Kind)
    /\ Cardinality(Run \X Kind) = 2 * Runs
    /\ \A S \in SUBSET (Run \X Kind) : IsFiniteSet(S) /\ Cardinality(S) \in Nat
<1>1. IsFiniteSet(Run) /\ Cardinality(Run) = Runs
  <2>1. IsFiniteSet(1 .. Runs) /\ Cardinality(1 .. Runs) = Runs
    BY BoundAssumption, FS_Interval
  <2>2. QED BY <2>1 DEF Run
<1>2. IsFiniteSet(Kind) /\ Cardinality(Kind) = 2
  <2>1. IsFiniteSet({"main"}) /\ Cardinality({"main"}) = 1
    BY FS_Singleton
  <2>2. Kind = {"main"} \cup {"chan"} /\ "chan" \notin {"main"}
    BY DEF Kind
  <2>3. /\ IsFiniteSet({"main"} \cup {"chan"})
        /\ Cardinality({"main"} \cup {"chan"}) =
           IF "chan" \in {"main"} THEN Cardinality({"main"}) ELSE Cardinality({"main"}) + 1
    BY <2>1, FS_AddElement, Zenon
  <2>4. QED BY <2>1, <2>2, <2>3
<1>3. IsFiniteSet(Run \X Kind) /\ Cardinality(Run \X Kind) = Runs * 2
  BY <1>1, <1>2, FS_Product
<1>4. ASSUME NEW S \in SUBSET (Run \X Kind) PROVE IsFiniteSet(S) /\ Cardinality(S) \in Nat
  BY <1>3, FS_Subset, FS_CardinalityType
<1>5. QED BY <1>3, <1>4, BoundAssumption

(* A registration that has yet to look for the entry can always make one.  *)
LEMMA FreshFree ==
    ASSUME BridgeInv, NEW g \in Run, NEW k \in Kind, deal[g][k].pc \notin {"swap", "done"}
    PROVE  Fresh \in Obj /\ Fresh \notin Held(current, deal, del)
<1>1. Past \in SUBSET (Run \X Kind)
  BY DEF Past
<1>2. <<g, k>> \in Run \X Kind /\ <<g, k>> \notin Past
  BY DEF Past
<1>3. Cardinality(Past) <= 2 * Runs /\ Cardinality(Past) # 2 * Runs /\ Cardinality(Past) \in Nat
  BY <1>1, <1>2, BoundAssumption, PastFinite, FS_Subset
<1>4. /\ Objects \in SUBSET Obj /\ IsFiniteSet(Objects) /\ Cardinality(Objects) \in Nat
      /\ Cardinality(Obj) = 2 * Runs
  BY ObjectsFinite, FS_CardinalityType DEF BridgeInv
<1>5. Objects # Obj
  BY BoundAssumption, <1>3, <1>4 DEF BridgeInv, Enough
<1> DEFINE T == {o \in Obj : o \notin Held(current, deal, del)}
<1>6. T # {}
  BY <1>4, <1>5 DEF Objects, Obj
<1>7. T \in SUBSET Nat
  BY DEF Obj
<1>8. PICK n \in T : \A m \in T : ~ m < n
  BY <1>6, <1>7, Smallest
<1>9. \E o \in Obj : o \notin Held(current, deal, del) /\ \A q \in Obj : q < o => q \in Held(current, deal, del)
  BY <1>8
<1>10. QED BY <1>9 DEF Fresh

LEMMA EnoughStays ==
    ASSUME TypeOK, Enough, Objects' \in SUBSET Objects, Past \in SUBSET Past'
    PROVE  Enough'
<1>1. Past' \in SUBSET (Run \X Kind) /\ Past \in SUBSET (Run \X Kind)
  BY DEF Past
<1>2. IsFiniteSet(Objects) /\ Cardinality(Objects) \in Nat
  BY ObjectsFinite, FS_CardinalityType
<1>3. Cardinality(Objects') <= Cardinality(Objects) /\ Cardinality(Objects') \in Nat
  BY <1>2, FS_Subset, FS_CardinalityType
<1>4. IsFiniteSet(Past') /\ Cardinality(Past') \in Nat /\ Cardinality(Past) \in Nat
  BY <1>1, PastFinite
<1>5. Cardinality(Past) <= Cardinality(Past')
  BY <1>4, FS_Subset
<1>6. QED BY <1>2, <1>3, <1>4, <1>5 DEF Enough

LEMMA EnoughGrows ==
    ASSUME TypeOK, Enough, NEW x, NEW r \in Run \X Kind, r \notin Past,
           Objects' \in SUBSET (Objects \cup {x}), Past \cup {r} \in SUBSET Past'
    PROVE  Enough'
<1>1. Past' \in SUBSET (Run \X Kind) /\ Past \in SUBSET (Run \X Kind)
  BY DEF Past
<1>2. IsFiniteSet(Objects) /\ Cardinality(Objects) \in Nat
  BY ObjectsFinite, FS_CardinalityType
<1>3. /\ IsFiniteSet(Objects \cup {x}) /\ Cardinality(Objects \cup {x}) \in Nat
      /\ Cardinality(Objects \cup {x}) <= Cardinality(Objects) + 1
  <2>1. /\ IsFiniteSet(Objects \cup {x})
        /\ Cardinality(Objects \cup {x}) =
           IF x \in Objects THEN Cardinality(Objects) ELSE Cardinality(Objects) + 1
    BY <1>2, FS_AddElement, Zenon
  <2>2. QED BY <1>2, <2>1
<1>4. Cardinality(Objects') <= Cardinality(Objects \cup {x}) /\ Cardinality(Objects') \in Nat
  BY <1>3, FS_Subset, FS_CardinalityType
<1>5. IsFiniteSet(Past') /\ Cardinality(Past') \in Nat /\ IsFiniteSet(Past) /\ Cardinality(Past) \in Nat
  BY <1>1, PastFinite
<1>6. Cardinality(Past \cup {r}) = Cardinality(Past) + 1
  BY <1>5, FS_AddElement
<1>7. Cardinality(Past \cup {r}) <= Cardinality(Past')
  BY <1>5, FS_Subset
<1>8. QED BY <1>2, <1>3, <1>4, <1>5, <1>6, <1>7 DEF Enough

-----------------------------------------------------------------------------
(* What is kept by run and kind: a change in one place keeps the type.     *)

States == {"none", "open", "closed"}
End    == [c : States, s : States]
Place  == [pc : {"no", "load", "swap", "done"}, obj : {0} \cup Obj]

Table(S) == [Run -> [Kind -> S]]

Put(n, f, S, g, k, e) ==
    /\ n \in Table(S) /\ n[g][k] = e
    /\ \A h \in Run, j \in Kind : h # g \/ j # k => n[h][j] = f[h][j]

LEMMA OnePlace ==
    ASSUME NEW S, NEW f \in Table(S), NEW g \in Run, NEW k \in Kind, NEW e \in S
    PROVE  Put([f EXCEPT ![g][k] = e], f, S, g, k, e)
<1>1. f[g] \in [Kind -> S]
  BY DEF Table
<1> DEFINE r == [f[g] EXCEPT ![k] = e]
           n == [f EXCEPT ![g] = r]
<1>2. r \in [Kind -> S] /\ r[k] = e /\ \A j \in Kind : j # k => r[j] = f[g][j]
  BY <1>1
<1> HIDE DEF r
<1>3. n \in Table(S) /\ n[g] = r /\ \A h \in Run : h # g => n[h] = f[h]
  BY <1>2 DEF Table
<1> HIDE DEF n
<1>4. Put(n, f, S, g, k, e)
  BY <1>2, <1>3 DEF Put
<1>5. [f EXCEPT ![g][k] = e] = n
  BY Zenon DEF n, r
<1>6. QED BY <1>4, <1>5, Zenon

LEMMA OneEnd ==
    ASSUME NEW f \in Table(End), NEW g \in Run, NEW k \in Kind, NEW x \in States
    PROVE  /\ [f EXCEPT ![g][k].c = x] \in Table(End)
           /\ [f EXCEPT ![g][k].s = x] \in Table(End)
<1>1. [f[g][k] EXCEPT !.c = x] \in End /\ [f[g][k] EXCEPT !.s = x] \in End
  <2>1. f[g][k] \in End
    BY DEF Table
  <2>2. QED BY <2>1 DEF End
<1>2. /\ [f EXCEPT ![g][k].c = x] = [f EXCEPT ![g][k] = [f[g][k] EXCEPT !.c = x]]
      /\ [f EXCEPT ![g][k].s = x] = [f EXCEPT ![g][k] = [f[g][k] EXCEPT !.s = x]]
  BY Zenon
<1>3. ASSUME NEW e \in End PROVE [f EXCEPT ![g][k] = e] \in Table(End)
  BY OnePlace, Zenon DEF Put
<1>4. QED BY <1>1, <1>2, <1>3, Zenon

LEMMA TwoEnds ==
    ASSUME NEW f \in Table(End), NEW g \in Run, NEW x \in States, NEW y \in States
    PROVE  /\ [f EXCEPT ![g]["main"].c = x, ![g]["chan"].c = y] \in Table(End)
           /\ [f EXCEPT ![g]["chan"].c = x, ![g]["main"].c = y] \in Table(End)
<1>1. /\ [f EXCEPT ![g]["main"].c = x, ![g]["chan"].c = y]
           = [[f EXCEPT ![g]["main"].c = x] EXCEPT ![g]["chan"].c = y]
      /\ [f EXCEPT ![g]["chan"].c = x, ![g]["main"].c = y]
           = [[f EXCEPT ![g]["chan"].c = x] EXCEPT ![g]["main"].c = y]
  BY Zenon
<1>2. [f EXCEPT ![g]["main"].c = x] \in Table(End) /\ [f EXCEPT ![g]["chan"].c = x] \in Table(End)
  BY OneEnd DEF Kind
<1>3. QED BY <1>1, <1>2, OneEnd DEF Kind

(* A goroutine of the server that moves on and keeps its object.           *)
LEMMA NextPc ==
    ASSUME NEW f \in Table(Place), NEW g \in Run, NEW k \in Kind,
           NEW pc \in {"no", "load", "swap", "done"}
    PROVE  Put([f EXCEPT ![g][k].pc = pc], f, Place, g, k, [pc |-> pc, obj |-> f[g][k].obj])
<1>1. f[g][k] \in Place
  BY DEF Table
<1> DEFINE e == [pc |-> pc, obj |-> f[g][k].obj]
<1>2. [f[g][k] EXCEPT !.pc = pc] = e /\ e \in Place
  BY <1>1 DEF Place
<1>3. [f EXCEPT ![g][k].pc = pc] = [f EXCEPT ![g][k] = [f[g][k] EXCEPT !.pc = pc]]
  BY Zenon
<1> HIDE DEF e
<1>4. Put([f EXCEPT ![g][k] = e], f, Place, g, k, e)
  BY <1>2, OnePlace, Zenon
<1>5. Put([f EXCEPT ![g][k].pc = pc], f, Place, g, k, e)
  BY <1>2, <1>3, <1>4, Zenon
<1>6. QED BY <1>5 DEF e

(* The state of a run of the client: a step changes two parts of it.       *)
RunState == [pc : {"idle", "up", "ended"}, chan : {"no", "dial", "accept", "ended"},
             closed : BOOLEAN, tunnel : BOOLEAN]

LEMMA OneRun ==
    ASSUME NEW f \in [Run -> RunState], NEW g \in Run, NEW r \in RunState,
           NEW n, n = [f EXCEPT ![g] = r]
    PROVE  n \in [Run -> RunState] /\ n[g] = r /\ \A h \in Run : h # g => n[h] = f[h]
OBVIOUS

LEMMA OneField ==
    ASSUME NEW r \in RunState
    PROVE  /\ \A x \in {"idle", "up", "ended"} :
                 /\ [r EXCEPT !.pc = x] \in RunState
                 /\ [r EXCEPT !.pc = x].pc = x /\ [r EXCEPT !.pc = x].chan = r.chan
           /\ \A x \in {"no", "dial", "accept", "ended"} :
                 /\ [r EXCEPT !.chan = x] \in RunState
                 /\ [r EXCEPT !.chan = x].pc = r.pc /\ [r EXCEPT !.chan = x].chan = x
           /\ \A x \in BOOLEAN :
                 /\ [r EXCEPT !.closed = x] \in RunState
                 /\ [r EXCEPT !.closed = x].pc = r.pc /\ [r EXCEPT !.closed = x].chan = r.chan
                 /\ [r EXCEPT !.tunnel = x] \in RunState
                 /\ [r EXCEPT !.tunnel = x].pc = r.pc /\ [r EXCEPT !.tunnel = x].chan = r.chan
<1>1. ASSUME NEW x \in {"idle", "up", "ended"} PROVE [r EXCEPT !.pc = x] \in RunState
  BY Zenon DEF RunState
<1>2. ASSUME NEW x \in {"no", "dial", "accept", "ended"} PROVE [r EXCEPT !.chan = x] \in RunState
  BY Zenon DEF RunState
<1>3. ASSUME NEW x \in BOOLEAN
      PROVE  [r EXCEPT !.closed = x] \in RunState /\ [r EXCEPT !.tunnel = x] \in RunState
  BY Zenon DEF RunState
<1>4. ASSUME NEW x
      PROVE  /\ [r EXCEPT !.pc = x].pc = x /\ [r EXCEPT !.pc = x].chan = r.chan
             /\ [r EXCEPT !.chan = x].pc = r.pc /\ [r EXCEPT !.chan = x].chan = x
             /\ [r EXCEPT !.closed = x].pc = r.pc /\ [r EXCEPT !.closed = x].chan = r.chan
             /\ [r EXCEPT !.tunnel = x].pc = r.pc /\ [r EXCEPT !.tunnel = x].chan = r.chan
  BY DEF RunState
<1>5. QED BY <1>1, <1>2, <1>3, <1>4

LEMMA TwoFields ==
    ASSUME NEW f, NEW g, NEW x, NEW y
    PROVE  /\ [f EXCEPT ![g].pc = x, ![g].chan = y]
                = [f EXCEPT ![g] = [[f[g] EXCEPT !.pc = x] EXCEPT !.chan = y]]
           /\ [f EXCEPT ![g].chan = x, ![g].tunnel = y]
                = [f EXCEPT ![g] = [[f[g] EXCEPT !.chan = x] EXCEPT !.tunnel = y]]
           /\ [f EXCEPT ![g].chan = x, ![g].closed = y]
                = [f EXCEPT ![g] = [[f[g] EXCEPT !.chan = x] EXCEPT !.closed = y]]
OBVIOUS

(* What a run of the client becomes by a step.                             *)
Dialled(q)   == [[q EXCEPT !.pc = "up"] EXCEPT !.chan = "dial"]
Tunnelled(q) == [[q EXCEPT !.chan = "accept"] EXCEPT !.tunnel = TRUE]
ChanEnded(q) == [[q EXCEPT !.chan = "ended"] EXCEPT !.closed = TRUE]
MainEnded(q) == [[q EXCEPT !.pc = "ended"] EXCEPT !.closed = TRUE]

LEMMA Become ==
    ASSUME NEW q \in RunState
    PROVE  /\ Dialled(q) \in RunState /\ Dialled(q).pc = "up" /\ Dialled(q).chan = "dial"
           /\ Tunnelled(q) \in RunState /\ Tunnelled(q).pc = q.pc /\ Tunnelled(q).chan = "accept"
           /\ ChanEnded(q) \in RunState /\ ChanEnded(q).pc = q.pc /\ ChanEnded(q).chan = "ended"
           /\ MainEnded(q) \in RunState /\ MainEnded(q).pc = "ended" /\ MainEnded(q).chan = q.chan
<1>1. Dialled(q) \in RunState /\ Dialled(q).pc = "up" /\ Dialled(q).chan = "dial"
  <2> DEFINE r == [q EXCEPT !.pc = "up"]
  <2>1. r \in RunState /\ r.pc = "up" /\ r.chan = q.chan
    BY OneField, Zenon
  <2> HIDE DEF r
  <2>2. [r EXCEPT !.chan = "dial"] \in RunState /\ [r EXCEPT !.chan = "dial"].pc = "up" /\ [r EXCEPT !.chan = "dial"].chan = "dial"
    BY <2>1, OneField, Zenon
  <2>3. QED BY <2>2 DEF Dialled, r
<1>2. Tunnelled(q) \in RunState /\ Tunnelled(q).pc = q.pc /\ Tunnelled(q).chan = "accept"
  <2> DEFINE r == [q EXCEPT !.chan = "accept"]
  <2>1. r \in RunState /\ r.pc = q.pc /\ r.chan = "accept"
    BY OneField, Zenon
  <2> HIDE DEF r
  <2>2. [r EXCEPT !.tunnel = TRUE] \in RunState /\ [r EXCEPT !.tunnel = TRUE].pc = q.pc /\ [r EXCEPT !.tunnel = TRUE].chan = "accept"
    BY <2>1, OneField, Zenon
  <2>3. QED BY <2>2 DEF Tunnelled, r
<1>3. ChanEnded(q) \in RunState /\ ChanEnded(q).pc = q.pc /\ ChanEnded(q).chan = "ended"
  <2> DEFINE r == [q EXCEPT !.chan = "ended"]
  <2>1. r \in RunState /\ r.pc = q.pc /\ r.chan = "ended"
    BY OneField, Zenon
  <2> HIDE DEF r
  <2>2. [r EXCEPT !.closed = TRUE] \in RunState /\ [r EXCEPT !.closed = TRUE].pc = q.pc /\ [r EXCEPT !.closed = TRUE].chan = "ended"
    BY <2>1, OneField, Zenon
  <2>3. QED BY <2>2 DEF ChanEnded, r
<1>4. MainEnded(q) \in RunState /\ MainEnded(q).pc = "ended" /\ MainEnded(q).chan = q.chan
  <2> DEFINE r == [q EXCEPT !.pc = "ended"]
  <2>1. r \in RunState /\ r.pc = "ended" /\ r.chan = q.chan
    BY OneField, Zenon
  <2> HIDE DEF r
  <2>2. [r EXCEPT !.closed = TRUE] \in RunState /\ [r EXCEPT !.closed = TRUE].pc = "ended" /\ [r EXCEPT !.closed = TRUE].chan = q.chan
    BY <2>1, OneField, Zenon
  <2>3. QED BY <2>2 DEF MainEnded, r
<1>5. QED BY <1>1, <1>2, <1>3, <1>4

LEMMA Becomes ==
    ASSUME NEW f, NEW g
    PROVE  /\ [f EXCEPT ![g].pc = "up", ![g].chan = "dial"] = [f EXCEPT ![g] = Dialled(f[g])]
           /\ [f EXCEPT ![g].chan = "accept", ![g].tunnel = TRUE] = [f EXCEPT ![g] = Tunnelled(f[g])]
           /\ [f EXCEPT ![g].chan = "ended", ![g].closed = TRUE] = [f EXCEPT ![g] = ChanEnded(f[g])]
           /\ [f EXCEPT ![g] = [[f[g] EXCEPT !.pc = "ended"] EXCEPT !.closed = TRUE]]
                = [f EXCEPT ![g] = MainEnded(f[g])]
           /\ [f EXCEPT ![g] = [[f[g] EXCEPT !.chan = "ended"] EXCEPT !.closed = TRUE]]
                = [f EXCEPT ![g] = ChanEnded(f[g])]
<1>1. [f EXCEPT ![g].pc = "up", ![g].chan = "dial"] = [f EXCEPT ![g] = Dialled(f[g])]
  BY TwoFields, Zenon DEF Dialled
<1>2. [f EXCEPT ![g].chan = "accept", ![g].tunnel = TRUE] = [f EXCEPT ![g] = Tunnelled(f[g])]
  BY TwoFields, Zenon DEF Tunnelled
<1>3. [f EXCEPT ![g].chan = "ended", ![g].closed = TRUE] = [f EXCEPT ![g] = ChanEnded(f[g])]
  BY TwoFields, Zenon DEF ChanEnded
<1>4. [f EXCEPT ![g] = [[f[g] EXCEPT !.pc = "ended"] EXCEPT !.closed = TRUE]]
        = [f EXCEPT ![g] = MainEnded(f[g])]
  BY Zenon DEF MainEnded
<1>5. [f EXCEPT ![g] = [[f[g] EXCEPT !.chan = "ended"] EXCEPT !.closed = TRUE]]
        = [f EXCEPT ![g] = ChanEnded(f[g])]
  BY Zenon DEF ChanEnded
<1>6. QED BY <1>1, <1>2, <1>3, <1>4, <1>5, Zenon

LEMMA Tables ==
    ASSUME TypeOK
    PROVE  npc \in [Run -> RunState] /\ conn \in Table(End) /\ deal \in Table(Place)
BY DEF TypeOK, Table, End, States, Place, RunState

-----------------------------------------------------------------------------
(* The steps of the client, and of the network.                            *)

(* Who refers to what does not change, nor what the entries hold.          *)
LEMMA EntriesStay ==
    ASSUME BridgeInv, UNCHANGED <<entry, current, del>>,
           \A h \in Run, k \in Kind : deal'[h][k].obj = deal[h][k].obj,
           \A h \in Run, k \in Kind : deal[h][k].pc \in {"swap", "done"} => deal'[h][k].pc = deal[h][k].pc
    PROVE  Enough' /\ Clean' /\ GivenUp' /\ Taking'
<1>1. Objects' = Objects
  BY DEF Objects, Held
<1>2. Past \in SUBSET Past'
  BY DEF Past
<1>3. Enough'
  BY <1>1, <1>2, EnoughStays DEF BridgeInv
<1>4. Clean' /\ GivenUp' /\ Taking'
  BY <1>1 DEF BridgeInv, Clean, GivenUp, Taking
<1>5. QED BY <1>3, <1>4

LEMMA DialStep ==
    ASSUME BridgeInv, NEW g \in Run, Dial(g)
    PROVE  BridgeInv'
<1>1. Trace(g) /\ npc[g].pc = "idle" /\ conn \in Table(End) /\ deal \in Table(Place)
  BY Tables DEF Dial, BridgeInv, Begun
<1>2. deal[g]["main"].pc = "no" /\ npc[g].chan = "no" /\ deal[g]["chan"].pc = "no"
      /\ deal[g]["main"].obj = 0 /\ deal[g]["chan"].obj = 0
  BY <1>1 DEF Trace, Kind
<1>3. /\ npc' \in [Run -> RunState] /\ npc'[g].pc = "up" /\ npc'[g].chan = "dial"
      /\ \A h \in Run : h # g => npc'[h] = npc[h]
  <2>1. npc' = [npc EXCEPT ![g] = Dialled(npc[g])]
    BY Becomes, Zenon DEF Dial
  <2>2. npc \in [Run -> RunState] /\ npc[g] \in RunState
    BY Tables DEF BridgeInv
  <2>3. QED BY <2>1, <2>2, Become, OneRun
<1>4. conn' \in Table(End)
  <2>1. [c |-> "open", s |-> "open"] \in End /\ "main" \in Kind
    BY DEF End, States, Kind
  <2>2. Put([conn EXCEPT ![g]["main"] = [c |-> "open", s |-> "open"]], conn, End, g, "main", [c |-> "open", s |-> "open"])
    BY <1>1, <2>1, OnePlace, Zenon
  <2>3. QED BY <2>2 DEF Dial, Put
<1>5. Put(deal', deal, Place, g, "main", [pc |-> "load", obj |-> 0])
  <2>1. "main" \in Kind /\ "load" \in {"no", "load", "swap", "done"}
    BY DEF Kind
  <2>2. Put([deal EXCEPT ![g]["main"].pc = "load"], deal, Place, g, "main", [pc |-> "load", obj |-> deal[g]["main"].obj])
    BY <1>1, <2>1, NextPc, Zenon
  <2>3. QED BY <1>2, <2>2 DEF Dial
<1>6. TypeOK'
  BY <1>3, <1>4, <1>5 DEF Dial, BridgeInv, TypeOK, Table, End, States, Place, RunState, Put
<1>7. Enough' /\ Clean' /\ GivenUp' /\ Taking'
  BY <1>2, <1>5, EntriesStay DEF Dial, Put
<1>8. ASSUME NEW h \in Run PROVE Trace(h)'
  <2>1. Trace(h)
    BY DEF BridgeInv, Begun
  <2>2. CASE h = g
    BY <1>1, <1>2, <1>3, <1>5, <2>1, <2>2 DEF Dial, Trace, Kind, Put
  <2>3. CASE h # g
    BY <1>3, <1>5, <2>1, <2>3 DEF Dial, Trace, Kind, Put
  <2>4. QED BY <2>2, <2>3
<1>9. QED BY <1>6, <1>7, <1>8 DEF BridgeInv, Begun

LEMMA DialChanStep ==
    ASSUME BridgeInv, NEW g \in Run, DialChan(g)
    PROVE  BridgeInv'
<1>1. Trace(g) /\ npc[g].chan = "dial" /\ conn \in Table(End) /\ deal \in Table(Place)
  BY Tables DEF DialChan, BridgeInv, Begun
<1>2. deal[g]["chan"].pc = "no" /\ npc[g].pc # "idle" /\ deal[g]["chan"].obj = 0
  BY <1>1 DEF Trace, Kind
<1>3. /\ npc' \in [Run -> RunState] /\ npc'[g].pc = npc[g].pc /\ npc'[g].chan = "accept"
      /\ \A h \in Run : h # g => npc'[h] = npc[h]
  <2>1. npc' = [npc EXCEPT ![g] = Tunnelled(npc[g])]
    BY Becomes, Zenon DEF DialChan
  <2>2. npc \in [Run -> RunState] /\ npc[g] \in RunState
    BY Tables DEF BridgeInv
  <2>3. QED BY <2>1, <2>2, Become, OneRun
<1>4. conn' \in Table(End)
  <2>1. [c |-> "open", s |-> "open"] \in End /\ "chan" \in Kind
    BY DEF End, States, Kind
  <2>2. Put([conn EXCEPT ![g]["chan"] = [c |-> "open", s |-> "open"]], conn, End, g, "chan", [c |-> "open", s |-> "open"])
    BY <1>1, <2>1, OnePlace, Zenon
  <2>3. QED BY <2>2 DEF DialChan, Put
<1>5. Put(deal', deal, Place, g, "chan", [pc |-> "load", obj |-> 0])
  <2>1. "chan" \in Kind /\ "load" \in {"no", "load", "swap", "done"}
    BY DEF Kind
  <2>2. Put([deal EXCEPT ![g]["chan"].pc = "load"], deal, Place, g, "chan", [pc |-> "load", obj |-> deal[g]["chan"].obj])
    BY <1>1, <2>1, NextPc, Zenon
  <2>3. QED BY <1>2, <2>2 DEF DialChan
<1>6. TypeOK'
  BY <1>3, <1>4, <1>5 DEF DialChan, BridgeInv, TypeOK, Table, End, States, Place, RunState, Put
<1>7. Enough' /\ Clean' /\ GivenUp' /\ Taking'
  BY <1>2, <1>5, EntriesStay DEF DialChan, Put
<1>8. ASSUME NEW h \in Run PROVE Trace(h)'
  <2>1. Trace(h)
    BY DEF BridgeInv, Begun
  <2>2. CASE h = g
    BY <1>1, <1>2, <1>3, <1>5, <2>1, <2>2 DEF DialChan, Trace, Kind, Put
  <2>3. CASE h # g
    BY <1>3, <1>5, <2>1, <2>3 DEF DialChan, Trace, Kind, Put
  <2>4. QED BY <2>2, <2>3
<1>9. QED BY <1>6, <1>7, <1>8 DEF BridgeInv, Begun

(* Steps that leave the server alone.                                      *)
LEMMA ServerStays ==
    ASSUME BridgeInv, TypeOK', UNCHANGED server,
           \A h \in Run : npc'[h].pc = "idle" => npc[h].pc = "idle",
           \A h \in Run : npc'[h].chan \in {"no", "dial"} => npc[h].chan \in {"no", "dial"},
           \A h \in Run : npc[h].chan = "no" => npc'[h].chan = "no"
    PROVE  BridgeInv'
<1>1. Enough' /\ Clean' /\ GivenUp' /\ Taking'
  BY EntriesStay DEF server
<1>2. ASSUME NEW h \in Run PROVE Trace(h)'
  BY DEF BridgeInv, Begun, Trace, server
<1>3. QED BY <1>1, <1>2 DEF BridgeInv, Begun

(* Close closes what is set.                                               *)
LEMMA CloseType ==
    ASSUME TypeOK, NEW g \in Run, NEW to, Close(g, to)
    PROVE  conn' \in Table(End)
<1>1. conn \in Table(End)
  BY Tables
<1>2. conn[g]["chan"].c \in States
  BY <1>1 DEF Table, End, Kind
<1>3. (IF npc[g].tunnel THEN "closed" ELSE conn[g]["chan"].c) \in States /\ "closed" \in States
  BY <1>2 DEF States
<1>4. [conn EXCEPT ![g]["main"].c = "closed",
                   ![g]["chan"].c = IF npc[g].tunnel THEN "closed" ELSE conn[g]["chan"].c] \in Table(End)
  BY <1>1, <1>3, TwoEnds
<1>5. QED BY <1>1, <1>4 DEF Close

LEMMA ClosingStep ==
    ASSUME BridgeInv, NEW g \in Run, MainEnds(g) \/ TunnelEnds(g) \/ DialFails(g)
    PROVE  BridgeInv'
<1>0. npc \in [Run -> RunState] /\ npc[g] \in RunState
  BY Tables DEF BridgeInv
<1>1. CASE MainEnds(g)
  <2>1. npc' = [npc EXCEPT ![g] = MainEnded(npc[g])]
    BY <1>1, Becomes, Zenon DEF MainEnds, Close
  <2>2. conn' \in Table(End)
    BY <1>1, CloseType DEF MainEnds, BridgeInv
  <2>3. /\ npc' \in [Run -> RunState] /\ npc'[g].pc = "ended" /\ npc'[g].chan = npc[g].chan
        /\ \A h \in Run : h # g => npc'[h] = npc[h]
    BY <1>0, <2>1, Become, OneRun
  <2>5. TypeOK'
    BY <1>1, <2>2, <2>3 DEF MainEnds, BridgeInv, TypeOK, Table, End, States, RunState, server
  <2>6. UNCHANGED server
    BY <1>1 DEF MainEnds
  <2>7. QED BY <2>3, <2>5, <2>6, ServerStays
<1>2. CASE TunnelEnds(g)
  <2>1. conn' \in Table(End)
    <3>1. conn \in Table(End) /\ conn[g]["main"].c \in States
      BY Tables DEF BridgeInv, Table, End, Kind
    <3>2. (IF npc[g].closed THEN conn[g]["main"].c ELSE "closed") \in States /\ "closed" \in States
      BY <3>1 DEF States
    <3>3. [conn EXCEPT ![g]["chan"].c = "closed",
                       ![g]["main"].c = IF npc[g].closed THEN conn[g]["main"].c ELSE "closed"] \in Table(End)
      BY <3>1, <3>2, TwoEnds
    <3>4. QED BY <1>2, <3>3 DEF TunnelEnds
  <2>2. npc' = [npc EXCEPT ![g] = ChanEnded(npc[g])] /\ npc[g].chan = "accept"
    BY <1>2, Becomes, Zenon DEF TunnelEnds
  <2>3. /\ npc' \in [Run -> RunState] /\ npc'[g].pc = npc[g].pc /\ npc'[g].chan = "ended"
        /\ \A h \in Run : h # g => npc'[h] = npc[h]
    BY <1>0, <2>2, Become, OneRun
  <2>5. TypeOK'
    BY <1>2, <2>1, <2>3 DEF TunnelEnds, BridgeInv, TypeOK, Table, End, States, RunState, server
  <2>6. UNCHANGED server
    BY <1>2 DEF TunnelEnds
  <2>7. QED BY <2>2, <2>3, <2>5, <2>6, ServerStays
<1>3. CASE DialFails(g)
  <2>1. npc' = [npc EXCEPT ![g] = ChanEnded(npc[g])]
    BY <1>3, Becomes, Zenon DEF DialFails, Close
  <2>2. conn' \in Table(End)
    BY <1>3, CloseType DEF DialFails, BridgeInv
  <2>3. /\ npc' \in [Run -> RunState] /\ npc'[g].pc = npc[g].pc /\ npc'[g].chan = "ended"
        /\ \A h \in Run : h # g => npc'[h] = npc[h]
    BY <1>0, <2>1, Become, OneRun
  <2>4. faults' \in 0 .. Faults /\ npc[g].chan = "dial"
    BY <1>3, BoundAssumption DEF DialFails, BridgeInv, TypeOK
  <2>5. TypeOK'
    BY <1>3, <2>2, <2>3, <2>4 DEF DialFails, BridgeInv, TypeOK, Table, End, States, RunState, server
  <2>6. UNCHANGED server
    BY <1>3 DEF DialFails
  <2>7. QED BY <2>3, <2>4, <2>5, <2>6, ServerStays
<1>4. QED BY <1>1, <1>2, <1>3

LEMMA CutStep ==
    ASSUME BridgeInv, NEW g \in Run, NEW k \in Kind, Cut(g, k)
    PROVE  BridgeInv'
<1>1. TypeOK'
  BY BoundAssumption DEF Cut, BridgeInv, TypeOK, client, server
<1>2. QED BY <1>1, ServerStays DEF Cut, client

-----------------------------------------------------------------------------
(* The steps of the server.                                                *)

EntryState == [signal : 0 .. Runs, tunnel : 0 .. Runs, retry : 0 .. MaxRetry]
DelState   == [pc : {"no", "take", "delete"}, obj : {0} \cup Obj]

(* What is collected is blank, the rest as it was.                         *)
LEMMA Collected ==
    ASSUME NEW e \in [Obj -> EntryState], Collect(e)
    PROVE  /\ entry' \in [Obj -> EntryState]
           /\ Clean'
           /\ \A o \in Obj : entry'[o] = e[o] \/ entry'[o] = NoEntry
<1>1. NoEntry \in EntryState
  BY BoundAssumption DEF NoEntry, EntryState
<1>2. entry' \in [Obj -> EntryState] /\ \A o \in Obj : entry'[o] = e[o] \/ entry'[o] = NoEntry
  BY <1>1 DEF Collect
<1>3. Clean'
  <2>1. \A o \in Obj : o # 0
    BY DEF Obj
  <2>2. QED BY <2>1 DEF Collect, Clean, Objects
<1>4. QED BY <1>2, <1>3

(* A change of one part of an entry.                                       *)
Kept(e, f, o) ==
    /\ e \in [Obj -> EntryState]
    /\ \A q \in Obj : e[q].retry = f[q].retry /\ (q # o => e[q] = f[q])

LEMMA EntryChange ==
    ASSUME NEW f \in [Obj -> EntryState], NEW o \in {0} \cup Obj, NEW g \in 0 .. Runs
    PROVE  /\ Kept([f EXCEPT ![o].signal = g], f, o)
           /\ Kept([f EXCEPT ![o].tunnel = g], f, o)
           /\ [f EXCEPT ![o].signal = g, ![o].retry = 0] \in [Obj -> EntryState]
           /\ \A q \in Obj : [f EXCEPT ![o].signal = g, ![o].retry = 0][q].retry \in {0, f[q].retry}
<1>1. CASE o \in Obj
  <2>1. f[o] \in EntryState
    BY <1>1
  <2> DEFINE a == [f[o] EXCEPT !.signal = g]
             b == [f[o] EXCEPT !.tunnel = g]
             c == [a EXCEPT !.retry = 0]
  <2>2. /\ a \in EntryState /\ a.retry = f[o].retry
        /\ b \in EntryState /\ b.retry = f[o].retry
    BY <2>1 DEF EntryState
  <2>3. [f EXCEPT ![o].signal = g] = [f EXCEPT ![o] = a] /\ [f EXCEPT ![o].tunnel = g] = [f EXCEPT ![o] = b]
    BY Zenon
  <2>4. [f EXCEPT ![o].signal = g, ![o].retry = 0] = [f EXCEPT ![o] = c]
    BY <1>1
  <2> HIDE DEF a, b
  <2>5. c \in EntryState /\ c.retry = 0
    BY <2>2, BoundAssumption DEF EntryState
  <2> HIDE DEF c
  <2>6. ASSUME NEW r \in EntryState
        PROVE  /\ [f EXCEPT ![o] = r] \in [Obj -> EntryState]
               /\ [f EXCEPT ![o] = r][o] = r
               /\ \A q \in Obj : q # o => [f EXCEPT ![o] = r][q] = f[q]
    BY <1>1
  <2>7. Kept([f EXCEPT ![o] = a], f, o) /\ Kept([f EXCEPT ![o] = b], f, o)
    BY <2>2, <2>6 DEF Kept
  <2>8. QED BY <2>3, <2>4, <2>5, <2>6, <2>7
<1>2. CASE o = 0 /\ o \notin Obj
  BY <1>2, BoundAssumption DEF EntryState, Kept
<1>3. QED BY <1>1, <1>2

(* Nobody's object is new.                                                 *)
LEMMA Fewer ==
    ASSUME BridgeInv, NEW g \in Run, NEW k \in Kind, NEW e \in Place,
           Put(deal', deal, Place, g, k, e), e.obj \in {0, current}, UNCHANGED <<current, del>>,
           deal[g][k].pc \in {"swap", "done"} => e.pc \in {"swap", "done"}
    PROVE  Objects' \in SUBSET Objects /\ Enough'
<1>1. ASSUME NEW o \in Objects' PROVE o \in Objects
  <2>1. o # 0 /\ o \in Held(current', deal', del')
    BY DEF Objects
  <2>2. \/ o = current
        \/ \E h \in Run, j \in Kind : o = deal'[h][j].obj
        \/ \E p \in Deleter : o = del[p].obj
    BY <2>1 DEF Held
  <2>3. CASE \E h \in Run, j \in Kind : o = deal'[h][j].obj
    <3>1. PICK h \in Run, j \in Kind : o = deal'[h][j].obj
      BY <2>3
    <3>2. o = deal[h][j].obj \/ o = current
      BY <2>1, <3>1 DEF Put
    <3>3. QED BY <2>1, <3>2 DEF Objects, Held
  <2>4. QED BY <2>1, <2>2, <2>3 DEF Objects, Held
<1>2. ASSUME NEW r \in Past PROVE r \in Past'
  <2>1. r \in Run \X Kind /\ deal[r[1]][r[2]].pc \in {"swap", "done"}
    BY DEF Past
  <2>2. PICK h \in Run, j \in Kind : r = <<h, j>>
    BY <2>1
  <2>3. deal'[h][j].pc \in {"swap", "done"}
    BY <2>1, <2>2 DEF Put
  <2>4. QED BY <2>2, <2>3 DEF Past
<1>3. Objects' \in SUBSET Objects /\ Past \in SUBSET Past'
  BY <1>1, <1>2
<1>4. QED BY <1>3, EnoughStays DEF BridgeInv

LEMMA Made ==
    ASSUME BridgeInv, NEW g \in Run, NEW k \in Kind, deal[g][k].pc = "load",
           Put(deal', deal, Place, g, k, [pc |-> "done", obj |-> 0]),
           current = 0, current' = Fresh, del' = del
    PROVE  /\ Fresh \in Obj \ Objects /\ Enough'
           /\ Objects \in SUBSET Objects' /\ Fresh \in Objects'
<1>1. PICK n : n = Fresh
  OBVIOUS
<1>2. n \in Obj /\ n \notin Held(current, deal, del) /\ n # 0
  <2>1. deal[g][k].pc \notin {"swap", "done"}
    OBVIOUS
  <2>2. QED BY <1>1, <2>1, FreshFree DEF Obj
<1>3. deal[g][k].obj = 0
  BY DEF BridgeInv, Begun, Trace
<1>4. ASSUME NEW o \in Objects' PROVE o \in Objects \cup {n}
  <2>1. o # 0 /\ o \in Held(current', deal', del')
    BY DEF Objects
  <2>2. \/ o = n
        \/ \E h \in Run, j \in Kind : o = deal'[h][j].obj
        \/ \E p \in Deleter : o = del[p].obj
    BY <1>1, <2>1 DEF Held
  <2>3. CASE \E h \in Run, j \in Kind : o = deal'[h][j].obj
    <3>1. PICK h \in Run, j \in Kind : o = deal'[h][j].obj
      BY <2>3
    <3>2. o = deal[h][j].obj
      BY <2>1, <3>1 DEF Put
    <3>3. QED BY <2>1, <3>2 DEF Objects, Held
  <2>4. QED BY <2>1, <2>2, <2>3 DEF Objects, Held
<1>5. ASSUME NEW o \in Objects PROVE o \in Objects'
  <2>1. o # 0 /\ o \in Held(current, deal, del)
    BY DEF Objects
  <2>2. \/ \E h \in Run, j \in Kind : o = deal[h][j].obj
        \/ \E p \in Deleter : o = del[p].obj
    BY <2>1 DEF Held
  <2>3. CASE \E h \in Run, j \in Kind : o = deal[h][j].obj
    <3>1. PICK h \in Run, j \in Kind : o = deal[h][j].obj
      BY <2>3
    <3>2. o = deal'[h][j].obj
      BY <1>3, <2>1, <3>1 DEF Put
    <3>3. QED BY <2>1, <3>2 DEF Objects, Held
  <2>4. QED BY <2>1, <2>2, <2>3 DEF Objects, Held
<1>6. n \in Objects'
  BY <1>1, <1>2 DEF Objects, Held
<1>7. <<g, k>> \in Run \X Kind /\ <<g, k>> \notin Past
  BY DEF Past
<1>8. ASSUME NEW r \in Past \cup {<<g, k>>} PROVE r \in Past'
  <2>1. CASE r = <<g, k>>
    BY <2>1 DEF Past, Put
  <2>2. CASE r \in Past /\ r # <<g, k>>
    <3>1. r \in Run \X Kind /\ deal[r[1]][r[2]].pc \in {"swap", "done"}
      BY <2>2 DEF Past
    <3>2. PICK h \in Run, j \in Kind : r = <<h, j>>
      BY <3>1
    <3>3. deal'[h][j] = deal[h][j]
      BY <2>2, <3>2 DEF Put
    <3>4. QED BY <3>1, <3>2, <3>3 DEF Past
  <2>3. QED BY <2>1, <2>2
<1>9. Objects' \in SUBSET (Objects \cup {n}) /\ Past \cup {<<g, k>>} \in SUBSET Past'
  BY <1>4, <1>8
<1>10. Enough'
  BY <1>7, <1>9, EnoughGrows DEF BridgeInv
<1>11. QED BY <1>1, <1>2, <1>5, <1>6, <1>10 DEF Objects

(* What the parts of the state must be for the types to hold.              *)
LEMMA ServerTypes ==
    ASSUME TypeOK
    PROVE  /\ deal \in Table(Place) /\ conn \in Table(End)
           /\ health \in [Run -> BOOLEAN]
           /\ entry \in [Obj -> EntryState]
           /\ current \in {0} \cup Obj
           /\ del \in [Deleter -> DelState]
           /\ faults \in 0 .. Faults
BY Tables DEF TypeOK, EntryState, DelState

LEMMA TypesFrom ==
    ASSUME TypeOK, npc' = npc, cut' = cut,
           deal' \in Table(Place), conn' \in Table(End),
           health' \in [Run -> BOOLEAN],
           entry' \in [Obj -> EntryState],
           current' \in {0} \cup Obj,
           del' \in [Deleter -> DelState],
           faults' \in 0 .. Faults
    PROVE  TypeOK'
BY DEF TypeOK, Table, Place, End, States, EntryState, DelState

(* A registration found the entry it goes on with.                         *)
LEMMA Found ==
    ASSUME BridgeInv, NEW g \in Run, NEW k \in Kind, deal[g][k].pc = "load", current # 0,
           deal' = [deal EXCEPT ![g][k] = [pc |-> "swap", obj |-> current]],
           UNCHANGED <<client, wire, health, entry, current, del>>
    PROVE  BridgeInv'
<1>1. deal \in Table(Place) /\ [pc |-> "swap", obj |-> current] \in Place
  BY ServerTypes DEF BridgeInv, Place
<1>2. Put([deal EXCEPT ![g][k] = [pc |-> "swap", obj |-> current]], deal, Place, g, k, [pc |-> "swap", obj |-> current])
  BY <1>1, OnePlace, Zenon
<1>3. Put(deal', deal, Place, g, k, [pc |-> "swap", obj |-> current])
  BY <1>2
<1>4. TypeOK'
  BY <1>3, ServerTypes, TypesFrom DEF BridgeInv, client, wire, Put
<1>5. Enough'
  BY <1>1, <1>3, Fewer
<1>6. deal[g][k].obj = 0
  BY DEF BridgeInv, Begun, Trace
<1>7. ASSUME NEW o \in Objects PROVE o \in Objects'
  <2>1. o # 0 /\ o \in Held(current, deal, del)
    BY DEF Objects
  <2>2. \/ o = current
        \/ \E h \in Run, j \in Kind : o = deal[h][j].obj
        \/ \E p \in Deleter : o = del[p].obj
    BY <2>1 DEF Held
  <2>3. CASE \E h \in Run, j \in Kind : o = deal[h][j].obj
    <3>1. PICK h \in Run, j \in Kind : o = deal[h][j].obj
      BY <2>3
    <3>2. o = deal'[h][j].obj
      BY <1>3, <1>6, <2>1, <3>1 DEF Put
    <3>3. QED BY <2>1, <3>2 DEF Objects, Held
  <2>4. QED BY <2>1, <2>2, <2>3 DEF Objects, Held
<1>8. Clean' /\ GivenUp' /\ Taking'
  BY <1>7 DEF BridgeInv, Clean, GivenUp, Taking
<1>9. ASSUME NEW h \in Run PROVE Trace(h)'
  <2>1. Trace(h)
    BY DEF BridgeInv, Begun
  <2>2. CASE h = g
    BY <1>3, <2>1, <2>2 DEF Trace, Kind, Put, client
  <2>3. CASE h # g
    BY <1>3, <2>1, <2>3 DEF Trace, Kind, Put, client
  <2>4. QED BY <2>2, <2>3
<1>10. QED BY <1>4, <1>5, <1>8, <1>9 DEF BridgeInv, Begun

LEMMA StoreMainStep ==
    ASSUME BridgeInv, NEW g \in Run, StoreMain(g)
    PROVE  BridgeInv'
<1>0. deal[g]["main"].pc = "load" /\ "main" \in Kind /\ g \in 0 .. Runs
  BY DEF StoreMain, Kind, Run
<1>1. CASE current # 0
  BY <1>0, <1>1, Found DEF StoreMain
<1>2. CASE current = 0
  <2>1. PICK n : n = Fresh
    OBVIOUS
  <2>2. /\ entry' = [entry EXCEPT ![n].signal = g]
        /\ current' = n
        /\ deal' = [deal EXCEPT ![g]["main"].pc = "done"]
        /\ UNCHANGED <<npc, conn, cut, faults, del>>
    BY <1>2, <2>1 DEF StoreMain, client, wire
  <2>3. health' = [health EXCEPT ![g] = TRUE]
    BY <1>2 DEF StoreMain
  <2>4. Trace(g) /\ deal[g]["main"].obj = 0 /\ deal \in Table(Place) /\ "done" \in {"no", "load", "swap", "done"}
    BY <1>0, ServerTypes DEF BridgeInv, Begun, Trace
  <2>5. Put([deal EXCEPT ![g]["main"].pc = "done"], deal, Place, g, "main", [pc |-> "done", obj |-> deal[g]["main"].obj])
    BY <1>0, <2>4, NextPc, Zenon
  <2>6. Put(deal', deal, Place, g, "main", [pc |-> "done", obj |-> 0])
    BY <2>2, <2>4, <2>5
  <2>7. n \in Obj \ Objects /\ Enough' /\ Objects \in SUBSET Objects' /\ n \in Objects'
    BY <1>0, <1>2, <2>1, <2>2, <2>6, Made
  <2>8. /\ entry' \in [Obj -> EntryState] /\ entry'[n].retry = entry[n].retry
        /\ \A q \in Obj : q # n => entry'[q] = entry[q]
    <3>1. entry \in [Obj -> EntryState]
      BY ServerTypes DEF BridgeInv
    <3>2. n \in {0} \cup Obj
      BY <2>7
    <3>3. Kept([entry EXCEPT ![n].signal = g], entry, n)
      BY <1>0, <3>1, <3>2, EntryChange, Zenon
    <3>4. QED BY <2>2, <2>7, <3>3 DEF Kept
  <2>9. TypeOK'
    <3>1. health' \in [Run -> BOOLEAN]
      BY <2>3, ServerTypes DEF BridgeInv
    <3>2. QED BY <2>2, <2>6, <2>7, <2>8, <3>1, ServerTypes, TypesFrom DEF BridgeInv, Put
  <2>10. Clean'
    BY <2>7, <2>8 DEF BridgeInv, Clean
  <2>11. GivenUp' /\ Taking'
    <3>1. entry[n].retry = 0
      BY <2>7 DEF BridgeInv, Clean, NoEntry
    <3>2. ~ entry'[current'].retry >= MaxRetry
      BY <2>2, <2>8, <3>1, BoundAssumption
    <3>3. QED BY <2>2, <3>2 DEF GivenUp, BridgeInv, Taking
  <2>12. ASSUME NEW h \in Run PROVE Trace(h)'
    <3>1. Trace(h) /\ health \in [Run -> BOOLEAN]
      BY ServerTypes DEF BridgeInv, Begun
    <3>2. CASE h = g
      BY <1>0, <2>2, <2>3, <2>6, <3>1, <3>2 DEF Trace, Kind, Put
    <3>3. CASE h # g
      BY <2>2, <2>3, <2>6, <3>1, <3>3 DEF Trace, Kind, Put
    <3>4. QED BY <3>2, <3>3
  <2>13. QED BY <2>7, <2>9, <2>10, <2>11, <2>12 DEF BridgeInv, Begun
<1>3. QED BY <1>1, <1>2

LEMMA StoreChanStep ==
    ASSUME BridgeInv, NEW g \in Run, StoreChan(g)
    PROVE  BridgeInv'
<1>0. deal[g]["chan"].pc = "load" /\ "chan" \in Kind /\ g \in 0 .. Runs
  BY DEF StoreChan, Kind, Run
<1>1. CASE current # 0
  BY <1>0, <1>1, Found DEF StoreChan
<1>2. CASE current = 0
  <2>1. PICK n : n = Fresh
    OBVIOUS
  <2>2. /\ entry' = [entry EXCEPT ![n].tunnel = g]
        /\ current' = n
        /\ deal' = [deal EXCEPT ![g]["chan"].pc = "done"]
        /\ UNCHANGED <<npc, conn, cut, faults, del>>
    BY <1>2, <2>1 DEF StoreChan, client, wire
  <2>3. health' = health
    BY <1>2 DEF StoreChan
  <2>4. Trace(g) /\ deal[g]["chan"].obj = 0 /\ deal \in Table(Place) /\ "done" \in {"no", "load", "swap", "done"}
    BY <1>0, ServerTypes DEF BridgeInv, Begun, Trace
  <2>5. Put([deal EXCEPT ![g]["chan"].pc = "done"], deal, Place, g, "chan", [pc |-> "done", obj |-> deal[g]["chan"].obj])
    BY <1>0, <2>4, NextPc, Zenon
  <2>6. Put(deal', deal, Place, g, "chan", [pc |-> "done", obj |-> 0])
    BY <2>2, <2>4, <2>5
  <2>7. n \in Obj \ Objects /\ Enough' /\ Objects \in SUBSET Objects' /\ n \in Objects'
    BY <1>0, <1>2, <2>1, <2>2, <2>6, Made
  <2>8. /\ entry' \in [Obj -> EntryState] /\ entry'[n].retry = entry[n].retry
        /\ \A q \in Obj : q # n => entry'[q] = entry[q]
    <3>1. entry \in [Obj -> EntryState]
      BY ServerTypes DEF BridgeInv
    <3>2. n \in {0} \cup Obj
      BY <2>7
    <3>3. Kept([entry EXCEPT ![n].tunnel = g], entry, n)
      BY <1>0, <3>1, <3>2, EntryChange, Zenon
    <3>4. QED BY <2>2, <2>7, <3>3 DEF Kept
  <2>9. TypeOK'
    <3>1. health' \in [Run -> BOOLEAN]
      BY <2>3, ServerTypes DEF BridgeInv
    <3>2. QED BY <2>2, <2>6, <2>7, <2>8, <3>1, ServerTypes, TypesFrom DEF BridgeInv, Put
  <2>10. Clean'
    BY <2>7, <2>8 DEF BridgeInv, Clean
  <2>11. GivenUp' /\ Taking'
    <3>1. entry[n].retry = 0
      BY <2>7 DEF BridgeInv, Clean, NoEntry
    <3>2. ~ entry'[current'].retry >= MaxRetry
      BY <2>2, <2>8, <3>1, BoundAssumption
    <3>3. QED BY <2>2, <3>2 DEF GivenUp, BridgeInv, Taking
  <2>12. ASSUME NEW h \in Run PROVE Trace(h)'
    <3>1. Trace(h) /\ health \in [Run -> BOOLEAN]
      BY ServerTypes DEF BridgeInv, Begun
    <3>2. CASE h = g
      BY <1>0, <2>2, <2>3, <2>6, <3>1, <3>2 DEF Trace, Kind, Put
    <3>3. CASE h # g
      BY <2>2, <2>3, <2>6, <3>1, <3>3 DEF Trace, Kind, Put
    <3>4. QED BY <3>2, <3>3
  <2>13. QED BY <2>7, <2>9, <2>10, <2>11, <2>12 DEF BridgeInv, Begun
<1>3. QED BY <1>1, <1>2

LEMMA SwapMainStep ==
    ASSUME BridgeInv, NEW g \in Run, SwapMain(g)
    PROVE  BridgeInv'
<1>1. PICK o : o = deal[g]["main"].obj
  OBVIOUS
<1> DEFINE e == [entry EXCEPT ![o].signal = g, ![o].retry = 0]
<1>2. /\ deal[g]["main"].pc = "swap"
      /\ deal' = [deal EXCEPT ![g]["main"] = [pc |-> "done", obj |-> 0]]
      /\ health' = [health EXCEPT ![g] = TRUE]
      /\ UNCHANGED <<npc, conn, cut, faults, current, del>>
      /\ Collect(e)
  BY <1>1 DEF SwapMain, client, wire
<1>3. /\ "main" \in Kind /\ g \in 0 .. Runs /\ deal \in Table(Place)
      /\ [pc |-> "done", obj |-> 0] \in Place /\ entry \in [Obj -> EntryState] /\ o \in {0} \cup Obj
  BY <1>1, ServerTypes DEF BridgeInv, Table, Place, Kind, Run
<1>4. Put([deal EXCEPT ![g]["main"] = [pc |-> "done", obj |-> 0]], deal, Place, g, "main", [pc |-> "done", obj |-> 0])
  BY <1>3, OnePlace, Zenon
<1>5. Put(deal', deal, Place, g, "main", [pc |-> "done", obj |-> 0])
  BY <1>2, <1>4
<1>6. e \in [Obj -> EntryState] /\ \A q \in Obj : e[q].retry \in {0, entry[q].retry}
  BY <1>3, EntryChange
<1> HIDE DEF e
<1>7. entry' \in [Obj -> EntryState] /\ Clean' /\ \A q \in Obj : entry'[q] = e[q] \/ entry'[q] = NoEntry
  BY <1>2, <1>6, Collected
<1>8. Enough'
  BY <1>2, <1>3, <1>5, Fewer
<1>9. TypeOK'
  <2>1. health' \in [Run -> BOOLEAN]
    BY <1>2, ServerTypes DEF BridgeInv
  <2>2. QED BY <1>2, <1>5, <1>7, <2>1, ServerTypes, TypesFrom DEF BridgeInv, Put
<1>10. GivenUp' /\ Taking'
  <2>1. ASSUME current' # 0, entry'[current'].retry >= MaxRetry PROVE del'[Pinger] # Idle
    <3>1. current \in Obj /\ current' = current
      BY <1>2, <2>1, ServerTypes DEF BridgeInv
    <3>2. entry'[current].retry \in {0, entry[current].retry}
      BY <1>6, <1>7, <3>1 DEF NoEntry
    <3>3. entry[current].retry >= MaxRetry
      BY <2>1, <3>1, <3>2, BoundAssumption
    <3>4. QED BY <1>2, <2>1, <3>1, <3>3 DEF BridgeInv, GivenUp
  <2>2. QED BY <1>2, <2>1 DEF GivenUp, BridgeInv, Taking
<1>11. ASSUME NEW h \in Run PROVE Trace(h)'
  <2>1. Trace(h) /\ health \in [Run -> BOOLEAN]
    BY ServerTypes DEF BridgeInv, Begun
  <2>2. CASE h = g
    BY <1>2, <1>3, <1>5, <2>1, <2>2 DEF Trace, Kind, Put
  <2>3. CASE h # g
    BY <1>2, <1>5, <2>1, <2>3 DEF Trace, Kind, Put
  <2>4. QED BY <2>2, <2>3
<1>12. QED BY <1>7, <1>8, <1>9, <1>10, <1>11 DEF BridgeInv, Begun

(* The server closes its end of a connection.                              *)
LEMMA ServerCloses ==
    ASSUME NEW c \in Table(End), NEW h \in 0 .. Runs, NEW k \in Kind
    PROVE  (IF h = 0 THEN c ELSE [c EXCEPT ![h][k].s = "closed"]) \in Table(End)
<1>1. CASE h = 0
  BY <1>1
<1>2. CASE h # 0
  <2>1. h \in Run /\ "closed" \in States
    BY <1>2, BoundAssumption DEF Run, States
  <2>2. QED BY <1>2, <2>1, OneEnd
<1>3. QED BY <1>1, <1>2

LEMMA SwapChanStep ==
    ASSUME BridgeInv, NEW g \in Run, SwapChan(g)
    PROVE  BridgeInv'
<1>1. PICK o : o = deal[g]["chan"].obj
  OBVIOUS
<1> DEFINE e == [entry EXCEPT ![o].tunnel = g]
<1>2. /\ deal[g]["chan"].pc = "swap"
      /\ deal' = [deal EXCEPT ![g]["chan"] = [pc |-> "done", obj |-> 0]]
      /\ conn' = IF entry[o].tunnel = 0 THEN conn ELSE [conn EXCEPT ![entry[o].tunnel]["chan"].s = "closed"]
      /\ UNCHANGED <<npc, cut, faults, current, health, del>>
      /\ Collect(e)
  BY <1>1 DEF SwapChan, client
<1>3. /\ "chan" \in Kind /\ g \in 0 .. Runs /\ deal \in Table(Place)
      /\ [pc |-> "done", obj |-> 0] \in Place /\ entry \in [Obj -> EntryState] /\ o \in {0} \cup Obj
  BY <1>1, ServerTypes DEF BridgeInv, Table, Place, Kind, Run
<1>4. Put([deal EXCEPT ![g]["chan"] = [pc |-> "done", obj |-> 0]], deal, Place, g, "chan", [pc |-> "done", obj |-> 0])
  BY <1>3, OnePlace, Zenon
<1>5. Put(deal', deal, Place, g, "chan", [pc |-> "done", obj |-> 0])
  BY <1>2, <1>4
<1>6. e \in [Obj -> EntryState] /\ \A q \in Obj : e[q].retry = entry[q].retry
  <2>1. Kept(e, entry, o)
    BY <1>3, EntryChange, Zenon
  <2>2. QED BY <2>1 DEF Kept
<1> HIDE DEF e
<1>7. entry' \in [Obj -> EntryState] /\ Clean' /\ \A q \in Obj : entry'[q] = e[q] \/ entry'[q] = NoEntry
  BY <1>2, <1>6, Collected
<1>8. Enough'
  BY <1>2, <1>3, <1>5, Fewer
<1>9. TypeOK'
  <2>1. conn' \in Table(End)
    <3>1. o \in Obj
      BY <1>1, <1>2, <1>3 DEF BridgeInv, Begun, Trace
    <3>2. entry[o].tunnel \in 0 .. Runs
      BY <1>3, <3>1 DEF EntryState
    <3>3. QED BY <1>2, <3>2, ServerCloses, ServerTypes DEF BridgeInv, Kind
  <2>2. QED BY <1>2, <1>5, <1>7, <2>1, ServerTypes, TypesFrom DEF BridgeInv, Put
<1>10. GivenUp' /\ Taking'
  <2>1. ASSUME current' # 0, entry'[current'].retry >= MaxRetry PROVE del'[Pinger] # Idle
    <3>1. current \in Obj /\ current' = current
      BY <1>2, <2>1, ServerTypes DEF BridgeInv
    <3>2. entry'[current].retry \in {0, entry[current].retry}
      BY <1>6, <1>7, <3>1 DEF NoEntry
    <3>3. entry[current].retry >= MaxRetry
      BY <2>1, <3>1, <3>2, BoundAssumption
    <3>4. QED BY <1>2, <2>1, <3>1, <3>3 DEF BridgeInv, GivenUp
  <2>2. QED BY <1>2, <2>1 DEF GivenUp, BridgeInv, Taking
<1>11. ASSUME NEW h \in Run PROVE Trace(h)'
  <2>1. Trace(h) /\ health \in [Run -> BOOLEAN]
    BY ServerTypes DEF BridgeInv, Begun
  <2>2. CASE h = g
    BY <1>2, <1>3, <1>5, <2>1, <2>2 DEF Trace, Kind, Put
  <2>3. CASE h # g
    BY <1>2, <1>5, <2>1, <2>3 DEF Trace, Kind, Put
  <2>4. QED BY <2>2, <2>3
<1>12. QED BY <1>7, <1>8, <1>9, <1>10, <1>11 DEF BridgeInv, Begun

-----------------------------------------------------------------------------
(* DelClient and who calls it.                                             *)

(* A call begins: it loads the entry, if there is one.                     *)
LEMMA Begins ==
    ASSUME BridgeInv, NEW p \in Deleter, BeginDel(p), del[p] = Idle,
           UNCHANGED <<deal, current>>
    PROVE  /\ del' \in [Deleter -> DelState] /\ Objects' = Objects /\ Taking' /\ Enough'
           /\ \A q \in Deleter : q # p => del'[q] = del[q]
           /\ current # 0 => del'[p] # Idle
<1>1. PICK i : i = IF current = 0 THEN Idle ELSE [pc |-> "take", obj |-> current]
  OBVIOUS
<1>2. del' = [del EXCEPT ![p] = i] /\ del \in [Deleter -> DelState] /\ current \in {0} \cup Obj
  BY <1>1, ServerTypes DEF BeginDel, BridgeInv
<1>3. i \in DelState /\ i.obj = current /\ (i.pc = "take" <=> i.obj # 0)
  BY <1>1, <1>2 DEF DelState, Idle
<1>4. /\ del' \in [Deleter -> DelState] /\ del'[p] = i
      /\ \A q \in Deleter : q # p => del'[q] = del[q]
  BY <1>2, <1>3
<1>5. Taking'
  BY <1>3, <1>4 DEF BridgeInv, Taking
<1>6. ASSUME NEW o PROVE o \in Objects' <=> o \in Objects
  <2>1. o \in Objects <=> o # 0 /\ (\/ o = current
                                    \/ \E g \in Run, k \in Kind : o = deal[g][k].obj
                                    \/ \E q \in Deleter : o = del[q].obj)
    BY HeldBy DEF Objects
  <2>2. o \in Objects' <=> o # 0 /\ (\/ o = current
                                     \/ \E g \in Run, k \in Kind : o = deal[g][k].obj
                                     \/ \E q \in Deleter : o = del'[q].obj)
    BY DEF Objects, Held
  <2>3. del[p].obj = 0 /\ del'[p].obj = current
    BY <1>3, <1>4 DEF Idle
  <2>4. QED BY <1>4, <2>1, <2>2, <2>3
<1>7. Objects' = Objects
  BY <1>6
<1>8. Past' = Past
  BY DEF Past
<1>9. Enough'
  BY <1>7, <1>8, EnoughStays DEF BridgeInv
<1>10. current # 0 => i # Idle
  BY <1>1 DEF Idle
<1>11. QED BY <1>4, <1>5, <1>7, <1>9, <1>10

LEMMA HealthEndsStep ==
    ASSUME BridgeInv, NEW g \in Run, HealthEnds(g)
    PROVE  BridgeInv'
<1>1. /\ health[g] /\ health' = [health EXCEPT ![g] = FALSE] /\ BeginDel(g)
      /\ UNCHANGED <<npc, conn, cut, faults, deal, entry, current>>
  BY DEF HealthEnds, client, wire
<1>2. g \in Deleter /\ g # Pinger /\ Pinger \in Deleter
  BY BoundAssumption DEF Run, Deleter, Pinger
<1>3. Trace(g) /\ del[g] = Idle /\ health \in [Run -> BOOLEAN]
  BY <1>1, ServerTypes DEF BridgeInv, Begun, Trace
<1>4. /\ del' \in [Deleter -> DelState] /\ Objects' = Objects /\ Taking' /\ Enough'
      /\ \A q \in Deleter : q # g => del'[q] = del[q]
  BY <1>1, <1>2, <1>3, Begins
<1>5. TypeOK'
  <2>1. health' \in [Run -> BOOLEAN]
    BY <1>1, <1>3
  <2>2. QED BY <1>1, <1>4, <2>1, ServerTypes, TypesFrom DEF BridgeInv
<1>6. Clean' /\ GivenUp'
  BY <1>1, <1>2, <1>4 DEF BridgeInv, Clean, GivenUp
<1>7. ASSUME NEW h \in Run PROVE Trace(h)'
  <2>1. Trace(h) /\ h \in Deleter
    BY BoundAssumption DEF BridgeInv, Begun, Run, Deleter
  <2>2. CASE h = g
    <3>1. ~health'[g] /\ deal[g]["main"].pc = "done"
      BY <1>1, <1>3 DEF Trace
    <3>2. QED BY <1>1, <2>1, <2>2, <3>1 DEF Trace
  <2>3. CASE h # g
    BY <1>1, <1>3, <1>4, <2>1, <2>3 DEF Trace
  <2>4. QED BY <2>2, <2>3
<1>8. QED BY <1>4, <1>5, <1>6, <1>7 DEF BridgeInv, Begun

LEMMA TickStep ==
    ASSUME BridgeInv, Tick
    PROVE  BridgeInv'
<1>1. /\ del[Pinger] = Idle /\ current # 0
      /\ UNCHANGED <<npc, conn, cut, faults, deal, health, current>>
  BY DEF Tick, client, wire
<1>2. Pinger \in Deleter /\ \A h \in Run : h \in Deleter /\ h # Pinger
  BY BoundAssumption DEF Run, Deleter, Pinger
<1>3. entry \in [Obj -> EntryState] /\ del \in [Deleter -> DelState] /\ current \in Obj
  BY <1>1, ServerTypes DEF BridgeInv
<1>4. \/ /\ entry' = [entry EXCEPT ![current].retry = entry[current].retry + 1]
         /\ IF entry[current].retry + 1 >= MaxRetry THEN BeginDel(Pinger) ELSE UNCHANGED del
      \/ BeginDel(Pinger) /\ UNCHANGED entry
  BY DEF Tick
<1>5. BeginDel(Pinger) \/ (UNCHANGED del /\ entry[current].retry + 1 < MaxRetry
                             /\ entry' = [entry EXCEPT ![current].retry = entry[current].retry + 1])
  <2>1. entry[current].retry \in Nat
    BY <1>3 DEF EntryState
  <2>2. QED BY <1>4, <2>1, BoundAssumption
<1>6. /\ del' \in [Deleter -> DelState] /\ Objects' = Objects /\ Taking' /\ Enough'
      /\ \A q \in Deleter : q # Pinger => del'[q] = del[q]
      /\ del'[Pinger] # Idle \/ UNCHANGED del
  <2>1. CASE BeginDel(Pinger)
    BY <1>1, <1>2, <2>1, Begins
  <2>2. CASE UNCHANGED del
    <3>1. Objects' = Objects /\ Past' = Past
      BY <1>1, <2>2 DEF Objects, Held, Past
    <3>2. Enough'
      BY <3>1, EnoughStays DEF BridgeInv
    <3>3. QED BY <1>3, <2>2, <3>1, <3>2 DEF BridgeInv, Taking
  <2>3. QED BY <1>5, <2>1, <2>2
<1>7. /\ entry' \in [Obj -> EntryState]
      /\ \A o \in Obj : o # current => entry'[o] = entry[o]
      /\ UNCHANGED del => entry'[current].retry < MaxRetry
  <2>1. PICK n : n = entry[current].retry + 1
    OBVIOUS
  <2>2. n \in 0 .. MaxRetry
    <3>1. ~ entry[current].retry >= MaxRetry /\ entry[current].retry \in Nat
      BY <1>1, <1>3 DEF BridgeInv, GivenUp, EntryState
    <3>2. QED BY <2>1, <3>1, BoundAssumption
  <2>3. PICK r : r = [entry[current] EXCEPT !.retry = n]
    OBVIOUS
  <2>4. r \in EntryState /\ r.retry = n
    <3>1. entry[current] \in EntryState
      BY <1>3
    <3>2. QED BY <2>2, <2>3, <3>1 DEF EntryState
  <2>5. CASE entry' = [entry EXCEPT ![current].retry = entry[current].retry + 1]
    <3>1. entry' = [entry EXCEPT ![current] = r]
      BY <2>1, <2>3, <2>5
    <3>2. entry'[current] = r /\ entry' \in [Obj -> EntryState]
          /\ \A o \in Obj : o # current => entry'[o] = entry[o]
      BY <1>3, <2>4, <3>1
    <3>3. UNCHANGED del => n < MaxRetry
      <4>1. BeginDel(Pinger) => del' # del
        <5>1. ASSUME BeginDel(Pinger), del' = del PROVE FALSE
          BY <1>1, <1>2, <5>1, Begins
        <5>2. QED BY <5>1
      <4>2. QED BY <1>5, <2>1, <4>1
    <3>4. QED BY <2>4, <3>2, <3>3
  <2>6. CASE BeginDel(Pinger) /\ UNCHANGED entry
    <3>1. del' # del
      BY <1>1, <1>2, <2>6, Begins
    <3>2. QED BY <1>3, <2>6, <3>1
  <2>7. QED BY <1>4, <2>5, <2>6
<1>8. TypeOK'
  BY <1>1, <1>6, <1>7, ServerTypes, TypesFrom DEF BridgeInv
<1>9. Clean'
  <2>1. current \in Objects
    BY <1>1 DEF Objects, Held
  <2>2. QED BY <1>6, <1>7, <2>1 DEF BridgeInv, Clean
<1>10. GivenUp'
  <2>1. CASE UNCHANGED del
    <3>1. entry'[current].retry < MaxRetry /\ entry'[current].retry \in Nat
      BY <1>3, <1>7, <2>1 DEF EntryState
    <3>2. QED BY <1>1, <3>1, BoundAssumption DEF GivenUp
  <2>2. CASE del'[Pinger] # Idle
    BY <2>2 DEF GivenUp
  <2>3. QED BY <1>6, <2>1, <2>2
<1>11. ASSUME NEW h \in Run PROVE Trace(h)'
  <2>1. Trace(h) /\ del'[h] = del[h]
    BY <1>2, <1>6 DEF BridgeInv, Begun
  <2>2. QED BY <1>1, <2>1 DEF Trace
<1>12. QED BY <1>6, <1>8, <1>9, <1>10, <1>11 DEF BridgeInv, Begun

LEMMA DelClientConnectStep ==
    ASSUME BridgeInv, DelClientConnect
    PROVE  BridgeInv'
<1>1. /\ del[Admin] = Idle /\ BeginDel(Admin) /\ faults < Faults /\ faults' = faults + 1
      /\ UNCHANGED <<npc, conn, cut, deal, health, entry, current>>
  BY DEF DelClientConnect, client
<1>2. Admin \in Deleter /\ Pinger \in Deleter /\ Admin # Pinger /\ \A h \in Run : h \in Deleter /\ h # Admin
  BY BoundAssumption DEF Run, Deleter, Pinger, Admin
<1>3. /\ del' \in [Deleter -> DelState] /\ Objects' = Objects /\ Taking' /\ Enough'
      /\ \A q \in Deleter : q # Admin => del'[q] = del[q]
  BY <1>1, <1>2, Begins
<1>4. TypeOK'
  <2>1. faults' \in 0 .. Faults
    BY <1>1, BoundAssumption, ServerTypes DEF BridgeInv
  <2>2. QED BY <1>1, <1>3, <2>1, ServerTypes, TypesFrom DEF BridgeInv
<1>5. Clean' /\ GivenUp'
  BY <1>1, <1>2, <1>3 DEF BridgeInv, Clean, GivenUp
<1>6. ASSUME NEW h \in Run PROVE Trace(h)'
  <2>1. Trace(h) /\ del'[h] = del[h]
    BY <1>2, <1>3 DEF BridgeInv, Begun
  <2>2. QED BY <1>1, <2>1 DEF Trace
<1>7. QED BY <1>3, <1>4, <1>5, <1>6 DEF BridgeInv, Begun

(* A call goes on and refers to nothing any more.                          *)
LEMMA LetsGo ==
    ASSUME BridgeInv, NEW p \in Deleter, NEW i \in DelState, i.obj = 0, i.pc # "take",
           del' = [del EXCEPT ![p] = i], deal' = deal, current' \in {0, current}
    PROVE  /\ del' \in [Deleter -> DelState] /\ Taking' /\ Enough' /\ del'[p] = i
           /\ \A q \in Deleter : q # p => del'[q] = del[q]
<1>1. /\ del' \in [Deleter -> DelState] /\ del'[p] = i
      /\ \A q \in Deleter : q # p => del'[q] = del[q]
  BY ServerTypes DEF BridgeInv
<1>2. Taking'
  BY <1>1 DEF BridgeInv, Taking
<1>3. ASSUME NEW o \in Objects' PROVE o \in Objects
  <2>1. o # 0 /\ (\/ o = current'
                  \/ \E g \in Run, k \in Kind : o = deal[g][k].obj
                  \/ \E q \in Deleter : o = del'[q].obj)
    BY DEF Objects, Held
  <2>2. CASE \E q \in Deleter : o = del'[q].obj
    <3>1. \E q \in Deleter : o = del[q].obj
      BY <1>1, <2>1, <2>2
    <3>2. QED BY <2>1, <3>1 DEF Objects, Held
  <2>3. QED BY <2>1, <2>2 DEF Objects, Held
<1>4. Past' = Past
  BY DEF Past
<1>5. Objects' \in SUBSET Objects /\ Past \in SUBSET Past'
  BY <1>3, <1>4
<1>6. Enough'
  BY <1>5, EnoughStays DEF BridgeInv
<1>7. QED BY <1>1, <1>2, <1>6

LEMMA CloseSignalStep ==
    ASSUME BridgeInv, NEW p \in Deleter, CloseSignal(p)
    PROVE  BridgeInv'
<1>1. PICK o : o = del[p].obj
  OBVIOUS
<1> DEFINE e == [entry EXCEPT ![o].signal = 0]
           i == [pc |-> "delete", obj |-> 0]
<1>2. /\ del[p].pc = "take"
      /\ del' = [del EXCEPT ![p].pc = "delete", ![p].obj = 0]
      /\ conn' = IF entry[o].signal = 0 THEN conn ELSE [conn EXCEPT ![entry[o].signal]["main"].s = "closed"]
      /\ UNCHANGED <<npc, cut, faults, deal, health, current>>
      /\ Collect(e)
  BY <1>1 DEF CloseSignal, client
<1>3. /\ del \in [Deleter -> DelState] /\ o \in Obj
      /\ entry \in [Obj -> EntryState] /\ entry[o].signal \in 0 .. Runs /\ 0 \in 0 .. Runs
  <2>1. del \in [Deleter -> DelState] /\ o \in {0} \cup Obj /\ o # 0 /\ entry \in [Obj -> EntryState]
    BY <1>1, <1>2, ServerTypes DEF BridgeInv, DelState, Taking
  <2>2. QED BY <2>1, BoundAssumption DEF EntryState
<1>4. i \in DelState /\ i.obj = 0 /\ i.pc # "take" /\ i # Idle
  BY DEF DelState, Idle
<1>5. del' = [del EXCEPT ![p] = i]
  <2>1. del' = [del EXCEPT ![p] = [[del[p] EXCEPT !.pc = "delete"] EXCEPT !.obj = 0]]
    BY <1>2, <1>3
  <2>2. del[p] \in DelState
    BY <1>3
  <2>3. [[del[p] EXCEPT !.pc = "delete"] EXCEPT !.obj = 0] = i
    <3>1. PICK r : r = [del[p] EXCEPT !.pc = "delete"]
      OBVIOUS
    <3>2. r = [pc |-> "delete", obj |-> del[p].obj]
      BY <2>2, <3>1 DEF DelState
    <3>3. [r EXCEPT !.obj = 0] = i
      BY <3>2
    <3>4. QED BY <3>1, <3>3
  <2>4. QED BY <2>1, <2>3
<1>6. \A q \in Obj : e[q].retry = entry[q].retry
      /\ e \in [Obj -> EntryState]
  <2>1. Kept(e, entry, o)
    BY <1>3, EntryChange, Zenon
  <2>2. QED BY <2>1 DEF Kept
<1> HIDE DEF e, i
<1>7. /\ del' \in [Deleter -> DelState] /\ Taking' /\ Enough' /\ del'[p] = i
      /\ \A q \in Deleter : q # p => del'[q] = del[q]
  BY <1>2, <1>4, <1>5, LetsGo
<1>8. entry' \in [Obj -> EntryState] /\ Clean' /\ \A q \in Obj : entry'[q] = e[q] \/ entry'[q] = NoEntry
  BY <1>2, <1>3, <1>6, Collected
<1>9. TypeOK'
  <2>1. conn' \in Table(End)
    BY <1>2, <1>3, ServerCloses, ServerTypes DEF BridgeInv, Kind
  <2>2. QED BY <1>2, <1>7, <1>8, <2>1, ServerTypes, TypesFrom DEF BridgeInv
<1>10. GivenUp'
  <2>1. ASSUME current' # 0, entry'[current'].retry >= MaxRetry PROVE del'[Pinger] # Idle
    <3>1. current \in Obj /\ current' = current /\ Pinger \in Deleter
      BY <1>2, <2>1, ServerTypes, BoundAssumption DEF BridgeInv, Pinger, Deleter
    <3>2. entry'[current].retry \in {0, entry[current].retry}
      BY <1>6, <1>8, <3>1 DEF NoEntry
    <3>3. entry[current].retry >= MaxRetry
      BY <2>1, <3>1, <3>2, BoundAssumption
    <3>4. del[Pinger] # Idle
      BY <2>1, <3>1, <3>3 DEF BridgeInv, GivenUp
    <3>5. QED BY <1>4, <1>7, <3>1, <3>4
  <2>2. QED BY <2>1 DEF GivenUp
<1>11. ASSUME NEW h \in Run PROVE Trace(h)'
  <2>1. Trace(h) /\ h \in Deleter
    BY BoundAssumption DEF BridgeInv, Begun, Run, Deleter
  <2>2. CASE h = p
    <3>1. del[h] # Idle
      BY <1>2, <2>2 DEF Idle
    <3>2. QED BY <1>2, <2>1, <3>1 DEF Trace
  <2>3. CASE h # p
    BY <1>2, <1>7, <2>1, <2>3 DEF Trace
  <2>4. QED BY <2>2, <2>3
<1>12. QED BY <1>7, <1>8, <1>9, <1>10, <1>11 DEF BridgeInv, Begun

LEMMA DeleteStep ==
    ASSUME BridgeInv, NEW p \in Deleter, Delete(p)
    PROVE  BridgeInv'
<1>1. /\ del[p].pc = "delete" /\ del' = [del EXCEPT ![p] = Idle] /\ current' = 0
      /\ UNCHANGED <<npc, conn, cut, faults, deal, health>> /\ Collect(entry)
  BY DEF Delete, client, wire
<1>2. Idle \in DelState /\ Idle.obj = 0 /\ Idle.pc # "take"
  BY DEF DelState, Idle
<1>3. /\ del' \in [Deleter -> DelState] /\ Taking' /\ Enough' /\ del'[p] = Idle
      /\ \A q \in Deleter : q # p => del'[q] = del[q]
  BY <1>1, <1>2, LetsGo
<1>4. entry' \in [Obj -> EntryState] /\ Clean'
  BY <1>1, Collected, ServerTypes DEF BridgeInv
<1>5. TypeOK'
  BY <1>1, <1>3, <1>4, ServerTypes, TypesFrom DEF BridgeInv
<1>6. GivenUp'
  BY <1>1 DEF GivenUp
<1>7. ASSUME NEW h \in Run PROVE Trace(h)'
  <2>1. Trace(h) /\ h \in Deleter
    BY BoundAssumption DEF BridgeInv, Begun, Run, Deleter
  <2>2. del'[h] = Idle \/ del'[h] = del[h]
    BY <1>3, <2>1
  <2>3. QED BY <1>1, <2>1, <2>2 DEF Trace
<1>8. QED BY <1>3, <1>4, <1>5, <1>6, <1>7 DEF BridgeInv, Begun

-----------------------------------------------------------------------------
LEMMA BridgeInit == Init => BridgeInv
<1> SUFFICES ASSUME Init PROVE BridgeInv
  OBVIOUS
<1>1. TypeOK
  BY BoundAssumption DEF Init, TypeOK, NoEntry, Idle, Kind
<1>2. Objects = {} /\ Past = {}
  BY DEF Init, Objects, Held, Past, Idle
<1>3. Enough
  BY <1>2, FS_EmptySet DEF Enough
<1>4. Clean /\ GivenUp /\ Taking
  BY DEF Init, Clean, GivenUp, Taking, Idle
<1>5. ASSUME NEW h \in Run PROVE Trace(h)
  <2>1. h \in Deleter
    BY BoundAssumption DEF Run, Deleter
  <2>2. QED BY <2>1 DEF Init, Trace, Idle, Kind
<1>6. QED BY <1>1, <1>3, <1>4, <1>5 DEF BridgeInv, Begun

LEMMA BridgeStep == BridgeInv /\ [Next]_vars => BridgeInv'
<1> SUFFICES ASSUME BridgeInv, [Next]_vars PROVE BridgeInv'
  OBVIOUS
<1>1. ASSUME NEW g \in Run, Client(g) PROVE BridgeInv'
  BY <1>1, DialStep, DialChanStep, ClosingStep DEF Client
<1>2. ASSUME NEW g \in Run, Dealing(g) PROVE BridgeInv'
  BY <1>2, StoreMainStep, StoreChanStep, SwapMainStep, SwapChanStep, HealthEndsStep DEF Dealing
<1>3. ASSUME NEW p \in Deleter, DelClient(p) PROVE BridgeInv'
  BY <1>3, CloseSignalStep, DeleteStep DEF DelClient
<1>4. CASE Tick \/ DelClientConnect
  BY <1>4, TickStep, DelClientConnectStep
<1>5. ASSUME NEW g \in Run, DialFails(g) \/ \E k \in Kind : Cut(g, k) PROVE BridgeInv'
  BY <1>5, ClosingStep, CutStep
<1>6. CASE UNCHANGED vars
  <2>1. TypeOK'
    BY <1>6 DEF vars, client, wire, server, BridgeInv, TypeOK
  <2>2. QED BY <1>6, <2>1, ServerStays DEF vars, client
<1>7. QED BY <1>1, <1>2, <1>3, <1>4, <1>5, <1>6 DEF Next, System

(* Both programs keep the types of a session, and ping's counter of the    *)
(* ticks an entry lacks a connection never passes its bound: at the bound  *)
(* the entry is on its way out, and ping, which calls DelClient itself,    *)
(* does not tick meanwhile (bridge.go:475).                                *)
THEOREM SessionTypes == Spec => []TypeOK
<1>1. BridgeInv => TypeOK
  BY DEF BridgeInv
<1>2. QED BY BridgeInit, BridgeStep, <1>1, PTL DEF Spec

-----------------------------------------------------------------------------
(* The queues of the mux that is the tunnel of such a session.             *)

CONSTANTS Producer, Items, FirstSize
VARIABLES rings, head, tail, newChain, push, pop, popped, raced

Queue == INSTANCE MuxQueue

(* What the code makes a queue with.                                       *)
QueueSizes == FirstSize \in Nat \ {0} /\ Items \in Nat \ {0}

Ring == [size : Nat, tail : Nat, slots : Seq(Queue!Element \cup {Queue!Nil}), next : Nat]

(* What the goroutines of the queue refer to exists.                       *)
QueueRefs ==
    /\ \A p \in Producer :
          /\ push[p].pc \in {"reserve", "store", "grow", "newhead", "newnext"} => push[p].ring \in DOMAIN rings
          /\ push[p].pc \in {"newhead", "newnext"} => push[p].slot \in DOMAIN rings
          /\ push[p].pc # "start" => push[p].done < Items
    /\ pop.pc \in {"next", "ring", "taken"} => pop.ring \in DOMAIN rings
    /\ pop.pc = "ring" => pop.next <= Len(rings)
    /\ \A d \in DOMAIN rings : rings[d].next <= Len(rings) /\ rings[d].size > 0

(* One producer at most allocates a ring, while newChain is set.           *)
Growing == {p \in Producer : push[p].pc \in {"newhead", "newnext", "grown"}}
QueueLock ==
    /\ newChain <=> Growing # {}
    /\ \A p, q \in Growing : p = q

(* A reserved slot is empty and of one producer; one that is taken is full.*)
Reserved ==
    /\ \A p \in Producer :
          LET r == rings[push[p].ring]
          IN  push[p].pc = "store" =>
                 /\ push[p].slot \in r.tail + 1 .. r.tail + Len(r.slots)
                 /\ r.slots[push[p].slot - r.tail] = Queue!Nil
    /\ \A p, q \in Producer :
          push[p].pc = "store" /\ push[q].pc = "store" /\ push[p].ring = push[q].ring
             /\ push[p].slot = push[q].slot => p = q
    /\ pop.pc = "taken" =>
          rings[pop.ring].slots # <<>> /\ rings[pop.ring].slots[1] # Queue!Nil

QueueTypes == QueueSizes /\ Queue!TypeOK /\ QueueRefs /\ QueueLock /\ Reserved

(* A queue begins with one ring, which nobody refers to.                   *)
LEMMA QueueInitTypes == QueueSizes /\ Queue!Init => QueueTypes
<1> SUFFICES ASSUME QueueSizes, Queue!Init PROVE QueueTypes
  OBVIOUS
<1>1. Queue!NewRing(FirstSize, <<>>) \in Ring /\ rings = <<Queue!NewRing(FirstSize, <<>>)>>
  BY DEF QueueSizes, Queue!NewRing, Ring, Queue!Init
<1>2. Len(rings) = 1 /\ DOMAIN rings = {1} /\ rings \in Seq(Ring)
  BY <1>1
<1>3. rings[1].size > 0 /\ rings[1].size \in Nat /\ rings[1].slots = <<>> /\ rings[1].next = 0
  BY <1>1 DEF QueueSizes, Queue!NewRing
<1>4. Queue!TypeOK
  <2>1. push \in [Producer -> [pc : Queue!PushPC, ring : Nat, slot : Nat, done : 0 .. Items]]
    BY DEF QueueSizes, Queue!Init, Queue!PushPC
  <2>2. pop \in [pc : {"start", "next", "ring", "taken", "sleep"}, ring : Nat, next : Nat, again : BOOLEAN]
    BY DEF Queue!Init
  <2>3. head \in DOMAIN rings /\ tail \in DOMAIN rings /\ newChain \in BOOLEAN /\ raced \in BOOLEAN
    BY <1>2 DEF Queue!Init
  <2>4. \A i \in DOMAIN rings : Len(rings[i].slots) <= rings[i].size
    BY <1>2, <1>3
  <2>5. popped \in Seq(Queue!Element)
    BY EmptySeq DEF Queue!Init
  <2>6. QED BY <1>2, <2>1, <2>2, <2>3, <2>4, <2>5 DEF Queue!TypeOK, Ring
<1>5. QueueRefs
  BY <1>2, <1>3 DEF QueueRefs, Queue!Init
<1>6. QueueLock
  BY DEF QueueLock, Growing, Queue!Init
<1>7. Reserved
  BY DEF Reserved, Queue!Init
<1>8. QED BY <1>4, <1>5, <1>6, <1>7 DEF QueueTypes

(* An empty slot is no element.                                            *)
LEMMA NilIsNone == \A p, i : Queue!Nil # <<p, i>>
  BY DEF Queue!Nil

(* One ring of the list is replaced, or one is added.                      *)
LEMMA OneRing ==
    ASSUME NEW S, NEW s \in Seq(S), NEW d \in DOMAIN s, NEW r \in S
    PROVE  /\ [s EXCEPT ![d] = r] \in Seq(S)
           /\ Len([s EXCEPT ![d] = r]) = Len(s)
           /\ DOMAIN [s EXCEPT ![d] = r] = DOMAIN s
           /\ [s EXCEPT ![d] = r][d] = r
           /\ \A e \in DOMAIN s : e # d => [s EXCEPT ![d] = r][e] = s[e]
<1>1. DOMAIN s = 1 .. Len(s)
  BY LenProperties
<1>2. QED BY <1>1, ExceptSeq

(* A sequence one element longer.                                          *)
LEMMA Appended ==
    ASSUME NEW S, NEW s \in Seq(S), NEW x \in S
    PROVE  /\ Append(s, x) \in Seq(S)
           /\ Len(Append(s, x)) = Len(s) + 1
           /\ DOMAIN Append(s, x) = DOMAIN s \cup {Len(s) + 1}
           /\ DOMAIN s = 1 .. Len(s)
           /\ Append(s, x)[Len(s) + 1] = x
           /\ \A i \in 1 .. Len(s) : Append(s, x)[i] = s[i]
  OBVIOUS

(* Changing a field of a ring is replacing the ring.                       *)
LEMMA RingForms ==
    ASSUME NEW d, NEW X, NEW Y
    PROVE  /\ [rings EXCEPT ![d].slots = X] = [rings EXCEPT ![d] = [rings[d] EXCEPT !.slots = X]]
           /\ [rings EXCEPT ![d].next = X] = [rings EXCEPT ![d] = [rings[d] EXCEPT !.next = X]]
           /\ [rings EXCEPT ![d].tail = Y, ![d].slots = X] = [rings EXCEPT ![d] = [rings[d] EXCEPT !.tail = Y, !.slots = X]]
  OBVIOUS

(* The types, as the provers need them.                                    *)
LEMMA TypesAre ==
    QueueTypes =>
      /\ rings \in Seq(Ring) /\ Len(rings) \in Nat /\ DOMAIN rings = 1 .. Len(rings)
      /\ \A d \in DOMAIN rings : rings[d] \in Ring
      /\ push \in [Producer -> [pc : Queue!PushPC, ring : Nat, slot : Nat, done : 0 .. Items]]
      /\ pop \in [pc : {"start", "next", "ring", "taken", "sleep"}, ring : Nat, next : Nat, again : BOOLEAN]
      /\ Items \in Nat /\ head \in 1 .. Len(rings) /\ tail \in 1 .. Len(rings)
<1>1. QueueTypes => rings \in Seq(Ring)
  BY DEF QueueTypes, Queue!TypeOK, Ring
<1>2. QueueTypes => Len(rings) \in Nat /\ DOMAIN rings = 1 .. Len(rings) /\ \A d \in 1 .. Len(rings) : rings[d] \in Ring
  BY <1>1, LenProperties, ElementOfSeq
<1>3. QueueTypes => head \in DOMAIN rings /\ tail \in DOMAIN rings
  BY DEF QueueTypes, Queue!TypeOK
<1>4. QED BY <1>1, <1>2, <1>3 DEF QueueTypes, QueueSizes, Queue!TypeOK

(* A step of a producer that changes no ring.                              *)
LEMMA ProducerTypes ==
    ASSUME QueueTypes, NEW p \in Producer,
           Queue!SeeNoNewChain(p) \/ Queue!LoadHead(p) \/ Queue!StoreHead(p) \/ Queue!Grown(p) \/ Queue!EndPush(p)
    PROVE  QueueTypes'
<1>1. rings' = rings /\ tail' = tail /\ popped' = popped /\ raced' = raced
  BY DEF Queue!SeeNoNewChain, Queue!LoadHead, Queue!StoreHead, Queue!Grown, Queue!EndPush, Queue!Chain
<1>2. pop' = pop \/ (pop.pc = "sleep" /\ pop' = [pop EXCEPT !.pc = "start"])
  BY DEF Queue!SeeNoNewChain, Queue!LoadHead, Queue!StoreHead, Queue!Grown, Queue!EndPush, Queue!Broadcast, Queue!Chain
<1>3. /\ push'[p] \in [pc : Queue!PushPC, ring : Nat, slot : Nat, done : 0 .. Items]
      /\ push' = [push EXCEPT ![p] = push'[p]]
      /\ push'[p].pc # "store"
      /\ push'[p].pc \in {"reserve", "grow", "newhead", "newnext"} => push'[p].ring \in DOMAIN rings
      /\ push'[p].pc \in {"newhead", "newnext"} => push'[p].slot \in DOMAIN rings
      /\ push'[p].pc # "start" => push'[p].done < Items
  <2>1. CASE Queue!SeeNoNewChain(p)
    BY <2>1, TypesAre DEF Queue!SeeNoNewChain, Queue!Goes, Queue!PushPC
  <2>2. CASE Queue!LoadHead(p)
    <3>1. push' = [push EXCEPT ![p] = [push[p] EXCEPT !.pc = "reserve", !.ring = head]]
      BY <2>2 DEF Queue!LoadHead
    <3>2. push[p].done < Items /\ head \in Nat /\ push[p] \in [pc : Queue!PushPC, ring : Nat, slot : Nat, done : 0 .. Items]
      BY <2>2, TypesAre DEF Queue!LoadHead, QueueTypes, QueueRefs
    <3>3. [push[p] EXCEPT !.pc = "reserve", !.ring = head] \in [pc : Queue!PushPC, ring : Nat, slot : Nat, done : 0 .. Items]
      BY <3>2 DEF Queue!PushPC
    <3>4. QED BY <3>1, <3>2, <3>3, TypesAre
  <2>3. CASE Queue!StoreHead(p)
    BY <2>3, TypesAre DEF Queue!StoreHead, Queue!Goes, Queue!PushPC, QueueTypes, QueueRefs
  <2>4. CASE Queue!Grown(p)
    BY <2>4, TypesAre DEF Queue!Grown, Queue!Goes, Queue!PushPC, QueueTypes, QueueRefs
  <2>5. CASE Queue!EndPush(p)
    <3>1. push' = [push EXCEPT ![p] = [pc |-> "start", ring |-> 0, slot |-> 0, done |-> push[p].done + 1]]
      BY <2>5 DEF Queue!EndPush, Queue!Pushed
    <3>2. push[p].done + 1 \in 0 .. Items
      BY <2>5, TypesAre DEF Queue!EndPush, QueueTypes, QueueRefs
    <3>3. QED BY <3>1, <3>2, TypesAre DEF Queue!PushPC
  <2>6. QED BY <2>1, <2>2, <2>3, <2>4, <2>5
<1>4. head' \in DOMAIN rings /\ newChain' \in BOOLEAN
  BY DEF Queue!SeeNoNewChain, Queue!LoadHead, Queue!StoreHead, Queue!Grown, Queue!EndPush, QueueTypes, Queue!TypeOK,
     QueueRefs
<1>5. Queue!TypeOK'
  BY <1>1, <1>2, <1>3, <1>4, TypesAre DEF QueueTypes, Queue!TypeOK
<1>6. QueueRefs'
  BY <1>1, <1>2, <1>3, TypesAre DEF QueueTypes, QueueRefs
<1>7. QueueLock'
  <2>1. CASE Queue!Grown(p)
    <3>1. Growing = {p} /\ push'[p].pc = "broadcast"
      BY <2>1, TypesAre DEF Growing, Queue!Grown, QueueTypes, QueueLock, Queue!Goes
    <3>2. Growing' = {}
      BY <1>3, <3>1, TypesAre DEF Growing
    <3>3. QED BY <2>1, <3>2 DEF QueueLock, Queue!Grown
  <2>2. CASE ~Queue!Grown(p)
    <3>1. (push[p].pc \in {"newhead", "newnext", "grown"} <=> push'[p].pc \in {"newhead", "newnext", "grown"}) /\ newChain' = newChain
      BY <2>2, TypesAre DEF Queue!SeeNoNewChain, Queue!LoadHead, Queue!StoreHead, Queue!EndPush, Queue!Goes,
         Queue!Pushed
    <3>2. Growing' = Growing
      BY <1>3, <3>1, TypesAre DEF Growing
    <3>3. QED BY <3>1, <3>2 DEF QueueLock, QueueTypes
  <2>3. QED BY <2>1, <2>2
<1>8. Reserved'
  <2>1. \A q \in Producer : push'[q].pc = "store" => push'[q] = push[q]
    BY <1>3, TypesAre
  <2>2. pop'.pc = "taken" => pop' = pop
    BY <1>2, TypesAre
  <2>3. QED BY <1>1, <2>1, <2>2 DEF QueueTypes, Reserved
<1>9. QED BY <1>5, <1>6, <1>7, <1>8 DEF QueueTypes

(* A step of the consumer that changes no ring.                            *)
LEMMA ConsumerTypes ==
    ASSUME QueueTypes, Queue!LoadTail \/ Queue!LoadNext \/ Queue!PopSlot \/ Queue!DropRing \/ Queue!Empty
    PROVE  QueueTypes'
<1>1. rings' = rings /\ head' = head /\ newChain' = newChain /\ push' = push /\ raced' = raced
  BY DEF Queue!LoadTail, Queue!LoadNext, Queue!PopSlot, Queue!DropRing, Queue!Empty, Queue!Same
<1>2. /\ pop' \in [pc : {"start", "next", "ring", "taken", "sleep"}, ring : Nat, next : Nat, again : BOOLEAN]
      /\ tail' \in DOMAIN rings
      /\ pop'.pc \in {"next", "ring", "taken"} => pop'.ring \in DOMAIN rings
      /\ pop'.pc = "ring" => pop'.next <= Len(rings)
      /\ pop'.pc = "taken" => rings[pop'.ring].slots # <<>> /\ rings[pop'.ring].slots[1] # Queue!Nil
  <2>1. CASE Queue!LoadNext
    <3>1. pop.ring \in DOMAIN rings /\ tail' \in DOMAIN rings
      BY <2>1 DEF Queue!LoadNext, QueueTypes, QueueRefs, Queue!TypeOK
    <3>2. rings[pop.ring].next \in Nat /\ rings[pop.ring].next <= Len(rings)
      BY <3>1, TypesAre DEF QueueTypes, QueueRefs, Ring
    <3>3. pop' = [pop EXCEPT !.pc = "ring", !.next = rings[pop.ring].next]
      BY <2>1 DEF Queue!LoadNext
    <3>4. QED BY <3>1, <3>2, <3>3, TypesAre
  <2>2. CASE Queue!LoadTail
    <3>1. tail \in DOMAIN rings /\ tail \in Nat /\ tail' = tail
      BY <2>2, TypesAre DEF Queue!LoadTail
    <3>2. pop' = [pop EXCEPT !.pc = "next", !.ring = tail]
      BY <2>2 DEF Queue!LoadTail
    <3>3. QED BY <3>1, <3>2, TypesAre
  <2>3. CASE Queue!PopSlot
    BY <2>3, TypesAre DEF Queue!PopSlot, QueueTypes, Queue!TypeOK, QueueRefs
  <2>4. CASE Queue!DropRing
    <3>1. pop.next \in DOMAIN rings /\ tail' = pop.next
      BY <2>4, TypesAre DEF Queue!DropRing, QueueTypes, QueueRefs
    <3>2. pop' = [pop EXCEPT !.pc = "next", !.ring = pop.next]
      BY <2>4 DEF Queue!DropRing
    <3>3. QED BY <3>1, <3>2, TypesAre
  <2>5. CASE Queue!Empty
    BY <2>5, TypesAre DEF Queue!Empty, QueueTypes, Queue!TypeOK, QueueRefs
  <2>6. QED BY <2>1, <2>2, <2>3, <2>4, <2>5
<1>3. popped' \in Seq(Queue!Element)
  <2>1. CASE Queue!PopSlot
    <3>1. rings[pop.ring] \in Ring
      BY <2>1, TypesAre DEF Queue!PopSlot, QueueTypes, QueueRefs
    <3>2. rings[pop.ring].slots \in Seq(Queue!Element \cup {Queue!Nil}) /\ rings[pop.ring].slots # <<>>
      BY <2>1, <3>1 DEF Queue!PopSlot, Ring
    <3>3. 1 \in 1 .. Len(rings[pop.ring].slots)
      BY <3>2, EmptySeq, LenProperties
    <3>4. rings[pop.ring].slots[1] \in Queue!Element
      BY <2>1, <3>2, <3>3, ElementOfSeq DEF Queue!PopSlot
    <3>5. QED BY <2>1, <3>4 DEF Queue!PopSlot, QueueTypes, Queue!TypeOK
  <2>2. QED BY <2>1 DEF Queue!LoadTail, Queue!LoadNext, Queue!DropRing, Queue!Empty, QueueTypes, Queue!TypeOK
<1>4. Queue!TypeOK'
  BY <1>1, <1>2, <1>3 DEF QueueTypes, Queue!TypeOK
<1>5. QueueRefs' /\ Reserved'
  BY <1>1, <1>2 DEF QueueTypes, QueueRefs, Reserved
<1>6. QueueLock'
  BY <1>1 DEF QueueTypes, QueueLock, Growing
<1>7. QED BY <1>4, <1>5, <1>6 DEF QueueTypes

(* A step of producer p that replaces ring d by r.                         *)
Replaces(d, r) ==
    /\ d \in 1 .. Len(rings) /\ r \in Ring
    /\ Len(r.slots) <= r.size /\ r.size = rings[d].size /\ r.next <= Len(rings)
    /\ rings' = [rings EXCEPT ![d] = r]

(* What replacing a ring leaves alone.                                     *)
LEMMA ReplacedIs ==
    ASSUME QueueTypes, NEW d, NEW r, Replaces(d, r)
    PROVE  /\ rings' \in Seq(Ring) /\ Len(rings') = Len(rings) /\ DOMAIN rings' = 1 .. Len(rings)
           /\ rings'[d] = r
           /\ \A e \in 1 .. Len(rings) : e # d => rings'[e] = rings[e]
           /\ \A e \in 1 .. Len(rings) :
                 /\ Len(rings'[e].slots) <= rings'[e].size
                 /\ rings'[e].next <= Len(rings) /\ rings'[e].size > 0
<1>1. /\ rings' \in Seq(Ring) /\ Len(rings') = Len(rings) /\ DOMAIN rings' = 1 .. Len(rings)
      /\ rings'[d] = r
      /\ \A e \in 1 .. Len(rings) : e # d => rings'[e] = rings[e]
  <2>1. rings \in Seq(Ring) /\ DOMAIN rings = 1 .. Len(rings)
    BY TypesAre
  <2>2. QED BY <2>1, OneRing DEF Replaces
<1>2. \A e \in 1 .. Len(rings) : Len(rings[e].slots) <= rings[e].size /\ rings[e].next <= Len(rings) /\ rings[e].size > 0
  BY TypesAre DEF QueueTypes, Queue!TypeOK, QueueRefs
<1>3. QED BY <1>1, <1>2 DEF Replaces

(* The types after such a step of a producer.                              *)
LEMMA ReplacingTypes ==
    ASSUME QueueTypes, NEW d, NEW r, Replaces(d, r), NEW p \in Producer, NEW x,
           push' = [push EXCEPT ![p] = x],
           x \in [pc : Queue!PushPC, ring : Nat, slot : Nat, done : 0 .. Items],
           x.pc \in {"store", "broadcast", "grown"}, x.ring = push[p].ring, x.done < Items,
           push[p].pc \in {"reserve", "store", "newnext"},
           x.pc = "grown" <=> push[p].pc = "newnext",
           raced' \in BOOLEAN, UNCHANGED <<head, newChain, tail, pop, popped>>
    PROVE  Queue!TypeOK' /\ QueueRefs' /\ QueueLock'
<1>1. Queue!TypeOK'
  <2>1. head' \in DOMAIN rings' /\ tail' \in DOMAIN rings'
    BY ReplacedIs, TypesAre
  <2>2. push' \in [Producer -> [pc : Queue!PushPC, ring : Nat, slot : Nat, done : 0 .. Items]]
    BY TypesAre
  <2>3. \A e \in DOMAIN rings' : Len(rings'[e].slots) <= rings'[e].size
    BY ReplacedIs
  <2>4. newChain' \in BOOLEAN /\ raced' \in BOOLEAN /\ popped' \in Seq(Queue!Element)
    BY DEF QueueTypes, Queue!TypeOK
  <2>5. QED BY <2>1, <2>2, <2>3, <2>4, ReplacedIs, TypesAre DEF Queue!TypeOK, Ring
<1>2. QueueRefs'
  <2>1. DOMAIN rings' = DOMAIN rings /\ Len(rings') = Len(rings)
    BY ReplacedIs, TypesAre
  <2>2. \A e \in DOMAIN rings' : rings'[e].next <= Len(rings') /\ rings'[e].size > 0
    BY ReplacedIs
  <2>3. \A q \in Producer : push'[q] = IF q = p THEN x ELSE push[q]
    BY TypesAre
  <2>4. push[p].ring \in DOMAIN rings
    BY DEF QueueTypes, QueueRefs
  <2>5. QED BY <2>1, <2>2, <2>3, <2>4 DEF QueueTypes, QueueRefs
<1>3. QueueLock'
  <2>1. Growing' = Growing
    BY TypesAre DEF Growing
  <2>2. QED BY <2>1 DEF QueueTypes, QueueLock
<1>4. QED BY <1>1, <1>2, <1>3

(* What Reserve, ...                                                       *)
LEMMA ReserveIs ==
    ASSUME QueueTypes, NEW p \in Producer, Queue!Reserve(p)
    PROVE  \/ rings' = rings /\ raced' = raced /\ push' = [push EXCEPT ![p].pc = "grow"]
           \/ /\ Replaces(push[p].ring, [rings[push[p].ring] EXCEPT !.slots = Append(rings[push[p].ring].slots, Queue!Nil)])
              /\ push' = [push EXCEPT ![p] = [push[p] EXCEPT !.pc = "store", !.slot = rings[push[p].ring].tail + Len(rings[push[p].ring].slots) + 1]]
              /\ raced' = (raced \/ push[p].ring # head)
<1> DEFINE d == push[p].ring
           t == rings[d].slots
<1>1. d \in 1 .. Len(rings) /\ rings[d] \in Ring /\ t \in Seq(Queue!Element \cup {Queue!Nil}) /\ Len(t) <= rings[d].size
  BY TypesAre DEF Queue!Reserve, QueueTypes, QueueRefs, Queue!TypeOK, Ring
<1>2. CASE Len(t) = rings[d].size
  BY <1>2 DEF Queue!Reserve, Queue!Goes
<1>3. CASE Len(t) # rings[d].size
  <2>1. Append(t, Queue!Nil) \in Seq(Queue!Element \cup {Queue!Nil}) /\ Len(Append(t, Queue!Nil)) = Len(t) + 1
        /\ Len(t) \in Nat
    BY <1>1, Appended, LenProperties
  <2>2. [rings[d] EXCEPT !.slots = Append(t, Queue!Nil)] \in Ring
    BY <1>1, <2>1 DEF Ring
  <2>3. rings' = [rings EXCEPT ![d].slots = Append(t, Queue!Nil)]
    BY <1>3 DEF Queue!Reserve
  <2>4. rings' = [rings EXCEPT ![d] = [rings[d] EXCEPT !.slots = Append(t, Queue!Nil)]]
    BY <2>3, RingForms
  <2>5. rings[d].next <= Len(rings)
    BY <1>1, TypesAre DEF QueueTypes, QueueRefs
  <2>6. Replaces(d, [rings[d] EXCEPT !.slots = Append(t, Queue!Nil)])
    <3>1. PICK r : r = [rings[d] EXCEPT !.slots = Append(t, Queue!Nil)]
      OBVIOUS
    <3>2. r.size = rings[d].size /\ r.slots = Append(t, Queue!Nil) /\ r.next = rings[d].next /\ rings[d].size \in Nat
      BY <1>1, <3>1 DEF Ring
    <3>3. Len(r.slots) <= r.size
      BY <1>1, <1>3, <2>1, <3>2
    <3>4. QED BY <1>1, <2>2, <2>4, <2>5, <3>1, <3>2, <3>3 DEF Replaces
  <2>7. push' = [push EXCEPT ![p].pc = "store", ![p].slot = rings[d].tail + Len(t) + 1]
    BY <1>3 DEF Queue!Reserve
  <2>8. push' = [push EXCEPT ![p] = [push[p] EXCEPT !.pc = "store", !.slot = rings[d].tail + Len(t) + 1]]
    BY <2>7
  <2>9. raced' = (raced \/ d # head)
    BY <1>3 DEF Queue!Reserve
  <2>10. QED BY <2>6, <2>8, <2>9
<1>4. QED BY <1>2, <1>3

(* One ring of the list and its slots.                                     *)
LEMMA Slots ==
    ASSUME QueueTypes, NEW d \in 1 .. Len(rings)
    PROVE  /\ rings[d] \in Ring
           /\ rings[d].slots \in Seq(Queue!Element \cup {Queue!Nil})
           /\ Len(rings[d].slots) \in Nat /\ rings[d].tail \in Nat
           /\ DOMAIN rings[d].slots = 1 .. Len(rings[d].slots)
           /\ Len(rings[d].slots) <= rings[d].size
           /\ rings[d].next <= Len(rings)
<1>1. rings[d] \in Ring /\ Len(rings[d].slots) <= rings[d].size /\ rings[d].next <= Len(rings)
  BY TypesAre DEF QueueTypes, QueueRefs, Queue!TypeOK
<1>2. rings[d].slots \in Seq(Queue!Element \cup {Queue!Nil}) /\ rings[d].tail \in Nat
  BY <1>1 DEF Ring
<1>3. QED BY <1>1, <1>2, LenProperties

(* The element a producer is pushing is one.                               *)
LEMMA CurrentIs ==
    ASSUME QueueTypes, NEW p \in Producer, push[p].pc # "start"
    PROVE  Queue!Current(p) \in Queue!Element /\ Queue!Current(p) # Queue!Nil /\ Queue!Current(p) = <<p, push[p].done + 1>>
           /\ push[p].done + 1 \in 1 .. Items /\ push[p].done \in Nat
<1>1. push[p].done + 1 \in 1 .. Items /\ push[p].done \in Nat
  BY TypesAre DEF QueueTypes, QueueRefs
<1>2. QED BY <1>1, NilIsNone DEF Queue!Current, Queue!Element

(* ... Store, ...                                                          *)
LEMMA StoreIs ==
    ASSUME QueueTypes, NEW p \in Producer, Queue!Store(p)
    PROVE  LET d == push[p].ring
               k == push[p].slot - rings[d].tail
           IN  /\ d \in 1 .. Len(rings) /\ k \in 1 .. Len(rings[d].slots) /\ rings[d].slots[k] = Queue!Nil
               /\ push[p].slot = rings[d].tail + k
               /\ Replaces(d, [rings[d] EXCEPT !.slots = [rings[d].slots EXCEPT ![k] = Queue!Current(p)]])
               /\ push' = [push EXCEPT ![p] = [push[p] EXCEPT !.pc = "broadcast"]]
<1> DEFINE d == push[p].ring
           k == push[p].slot - rings[d].tail
           t == rings[d].slots
           u == [t EXCEPT ![k] = Queue!Current(p)]
<1>1. d \in 1 .. Len(rings) /\ push[p].pc = "store"
  BY TypesAre DEF Queue!Store, QueueTypes, QueueRefs
<1>2. push[p].slot \in rings[d].tail + 1 .. rings[d].tail + Len(rings[d].slots) /\ t[k] = Queue!Nil
  BY <1>1 DEF QueueTypes, Reserved
<1>3. k \in 1 .. Len(t) /\ push[p].slot = rings[d].tail + k
  <2>1. rings[d].tail \in Nat /\ Len(t) \in Nat
    BY <1>1, Slots
  <2>2. \A a, b, s : a \in Nat /\ b \in Nat /\ s \in a + 1 .. a + b => s - a \in 1 .. b /\ s = a + (s - a)
    OBVIOUS
  <2>3. QED BY <1>2, <2>1, <2>2
<1>4. u \in Seq(Queue!Element \cup {Queue!Nil}) /\ Len(u) = Len(t)
  BY <1>1, <1>3, Slots, CurrentIs, ExceptSeq
<1>5. [rings[d] EXCEPT !.slots = u] \in Ring
  BY <1>1, <1>4, Slots DEF Ring
<1>6. rings' = [rings EXCEPT ![d].slots[k] = Queue!Current(p)]
  BY DEF Queue!Store
<1>7. rings' = [rings EXCEPT ![d].slots = u]
  BY <1>6
<1>8. rings' = [rings EXCEPT ![d] = [rings[d] EXCEPT !.slots = u]]
  BY <1>7, RingForms
<1>9. Replaces(d, [rings[d] EXCEPT !.slots = u])
  BY <1>1, <1>4, <1>5, <1>8, Slots DEF Replaces, Ring
<1>10. push' = [push EXCEPT ![p] = [push[p] EXCEPT !.pc = "broadcast"]]
  BY DEF Queue!Store, Queue!Goes
<1>11. QED BY <1>1, <1>2, <1>3, <1>9, <1>10

(* ... StoreNext, ...                                                      *)
LEMMA StoreNextIs ==
    ASSUME QueueTypes, NEW p \in Producer, Queue!StoreNext(p)
    PROVE  /\ Replaces(push[p].ring, [rings[push[p].ring] EXCEPT !.next = push[p].slot])
           /\ push' = [push EXCEPT ![p] = [push[p] EXCEPT !.pc = "grown"]]
<1> DEFINE d == push[p].ring
<1>1. d \in 1 .. Len(rings) /\ push[p].slot \in 1 .. Len(rings)
  BY TypesAre DEF Queue!StoreNext, QueueTypes, QueueRefs
<1>2. [rings[d] EXCEPT !.next = push[p].slot] \in Ring
  BY <1>1, Slots, TypesAre DEF Ring
<1>3. rings' = [rings EXCEPT ![d] = [rings[d] EXCEPT !.next = push[p].slot]]
  BY RingForms DEF Queue!StoreNext
<1>4. Replaces(d, [rings[d] EXCEPT !.next = push[p].slot])
  <2>1. rings[d] \in Ring /\ Len(rings[d].slots) <= rings[d].size /\ push[p].slot <= Len(rings)
    BY <1>1, Slots, TypesAre
  <2>2. QED BY <1>1, <1>2, <1>3, <2>1 DEF Replaces, Ring
<1>5. push' = [push EXCEPT ![p] = [push[p] EXCEPT !.pc = "grown"]]
  BY DEF Queue!StoreNext, Queue!Goes
<1>6. QED BY <1>4, <1>5

(* ... MoveTail ...                                                        *)
LEMMA MoveTailIs ==
    ASSUME QueueTypes, Queue!MoveTail
    PROVE  LET d == pop.ring
               t == rings[d].slots
           IN  /\ d \in 1 .. Len(rings) /\ t # <<>> /\ t[1] # Queue!Nil
               /\ Tail(t) \in Seq(Queue!Element \cup {Queue!Nil}) /\ Len(Tail(t)) = Len(t) - 1 /\ Len(t) \in Nat \ {0}
               /\ \A i \in 1 .. Len(t) - 1 : Tail(t)[i] = t[i + 1]
               /\ Replaces(d, [rings[d] EXCEPT !.tail = rings[d].tail + 1, !.slots = Tail(t)])
<1> DEFINE d == pop.ring
           t == rings[d].slots
<1>1. d \in 1 .. Len(rings) /\ t # <<>> /\ t[1] # Queue!Nil
  BY TypesAre DEF Queue!MoveTail, QueueTypes, QueueRefs, Reserved
<1>2. Tail(t) \in Seq(Queue!Element \cup {Queue!Nil}) /\ Len(Tail(t)) = Len(t) - 1 /\ Len(t) \in Nat \ {0}
      /\ \A i \in 1 .. Len(t) - 1 : Tail(t)[i] = t[i + 1]
  BY <1>1, Slots, HeadTailProperties, EmptySeq
<1>3. [rings[d] EXCEPT !.tail = rings[d].tail + 1, !.slots = Tail(t)] \in Ring
  <2>1. rings[d] \in Ring /\ rings[d].tail + 1 \in Nat
    BY <1>1, Slots
  <2>2. QED BY <1>2, <2>1 DEF Ring
<1>4. rings' = [rings EXCEPT ![d].tail = rings[d].tail + 1, ![d].slots = Tail(t)]
  BY DEF Queue!MoveTail
<1>5. rings' = [rings EXCEPT ![d] = [rings[d] EXCEPT !.tail = rings[d].tail + 1, !.slots = Tail(t)]]
  BY <1>4, RingForms
<1>6. Replaces(d, [rings[d] EXCEPT !.tail = rings[d].tail + 1, !.slots = Tail(t)])
  BY <1>1, <1>2, <1>3, <1>5, Slots DEF Replaces, Ring
<1>7. QED BY <1>1, <1>2, <1>6

(* ... and Grow do to the rings.                                           *)
LEMMA GrowIs ==
    ASSUME QueueTypes, NEW p \in Producer, Queue!Grow(p), ~newChain
    PROVE  LET n == Len(rings)
           IN  /\ push[p].ring \in 1 .. n /\ Growing = {} /\ newChain' = TRUE
               /\ rings' \in Seq(Ring) /\ Len(rings') = n + 1 /\ DOMAIN rings' = 1 .. n + 1
               /\ \A d \in 1 .. n : rings'[d] = rings[d]
               /\ rings'[n + 1].tail = 0 /\ rings'[n + 1].next = 0
               /\ rings'[n + 1].slots = <<Queue!Current(p)>>
               /\ rings'[n + 1].size > 1
               /\ push' = [push EXCEPT ![p] = [push[p] EXCEPT !.pc = "newhead", !.slot = n + 1]]
               /\ raced' = (raced \/ push[p].ring # head)
<1> DEFINE n == Len(rings)
           d == push[p].ring
           r == Queue!NewRing(2 * rings[d].size, <<Queue!Current(p)>>)
<1>1. d \in 1 .. n /\ push[p].pc = "grow" /\ Growing = {}
  BY TypesAre DEF Queue!Grow, QueueTypes, QueueRefs, QueueLock
<1>2. rings[d].size \in Nat /\ rings[d].size > 0 /\ Queue!Current(p) \in Queue!Element
  BY <1>1, Slots, TypesAre, CurrentIs DEF QueueTypes, QueueRefs, Ring
<1>3. r \in Ring
  BY <1>2 DEF Ring, Queue!NewRing
<1>4. rings' = Append(rings, r)
  BY DEF Queue!Grow
<1>5. /\ rings' \in Seq(Ring) /\ Len(rings') = n + 1 /\ DOMAIN rings' = 1 .. n + 1
      /\ \A e \in 1 .. n : rings'[e] = rings[e]
      /\ rings'[n + 1] = r
  BY <1>3, <1>4, Appended, TypesAre
<1>6. r.tail = 0 /\ r.next = 0 /\ r.slots = <<Queue!Current(p)>> /\ r.size > 1
  BY <1>2 DEF Queue!NewRing
<1>7. push' = [push EXCEPT ![p].pc = "newhead", ![p].slot = n + 1]
  BY DEF Queue!Grow
<1>8. push' = [push EXCEPT ![p] = [push[p] EXCEPT !.pc = "newhead", !.slot = n + 1]]
  BY <1>7
<1>9. QED BY <1>1, <1>5, <1>6, <1>8 DEF Queue!Grow

(* The fields a change of a ring leaves alone.                             *)
LEMMA RingFields ==
    ASSUME NEW r \in Ring, NEW X, NEW Y
    PROVE  /\ LET u == [r EXCEPT !.slots = X]
              IN  u.slots = X /\ u.tail = r.tail /\ u.next = r.next
           /\ LET u == [r EXCEPT !.next = X]
              IN  u.next = X /\ u.tail = r.tail /\ u.slots = r.slots
           /\ LET u == [r EXCEPT !.tail = Y, !.slots = X]
              IN  u.tail = Y /\ u.slots = X /\ u.next = r.next
  BY DEF Ring

(* A slot is reserved in ring d, from slot a on, which holds t.            *)
Reserves(p, d, a, n, t, x) ==
    /\ p \in Producer /\ d \in 1 .. Len(rings) /\ a \in Nat /\ n \in Nat
    /\ t \in Seq(Queue!Element \cup {Queue!Nil})
    /\ rings[d].tail = a /\ rings[d].slots = t /\ Len(t) = n
    /\ rings'[d].tail = a /\ rings'[d].slots = Append(t, Queue!Nil)
    /\ \A e \in 1 .. Len(rings) : e # d => rings'[e] = rings[e]
    /\ \A q \in Producer : push'[q] = IF q = p THEN x ELSE push[q]
    /\ x.ring = d /\ x.slot = a + n + 1 /\ pop' = pop

(* Reserving one slot more, and filling one, keep the others reserved.     *)
LEMMA ReservedMore ==
    ASSUME QueueTypes, NEW p, NEW d, NEW a, NEW n, NEW t, NEW x, Reserves(p, d, a, n, t, x)
    PROVE  Reserved'
<1> USE DEF Reserves
<1>1. Len(rings'[d].slots) = n + 1 /\ rings'[d].slots[n + 1] = Queue!Nil /\ \A i \in 1 .. n : rings'[d].slots[i] = t[i]
  <2>1. Queue!Nil \in Queue!Element \cup {Queue!Nil}
    OBVIOUS
  <2>2. \A m \in Nat, s \in Seq(Queue!Element \cup {Queue!Nil}) : m = Len(s) =>
           /\ Len(Append(s, Queue!Nil)) = m + 1 /\ Append(s, Queue!Nil)[m + 1] = Queue!Nil
           /\ \A i \in 1 .. m : Append(s, Queue!Nil)[i] = s[i]
    BY <2>1
  <2>3. QED BY <2>2
<1>2. ASSUME NEW q \in Producer, push[q].pc = "store", push[q].ring = d
      PROVE  push[q].slot \in a + 1 .. a + n /\ t[push[q].slot - a] = Queue!Nil
  <2>1. LET r == rings[push[q].ring]
        IN  push[q].slot \in r.tail + 1 .. r.tail + Len(r.slots) /\ r.slots[push[q].slot - r.tail] = Queue!Nil
    BY <1>2 DEF QueueTypes, Reserved
  <2>2. QED BY <1>2, <2>1
<1>3. ASSUME NEW q \in Producer, push'[q].pc = "store"
      PROVE  LET r == rings'[push'[q].ring]
             IN  push'[q].slot \in r.tail + 1 .. r.tail + Len(r.slots) /\ r.slots[push'[q].slot - r.tail] = Queue!Nil
  <2>1. CASE q = p
    <3>1. push'[q].ring = d /\ push'[q].slot = a + n + 1
      BY <2>1
    <3>2. a + n + 1 \in a + 1 .. a + (n + 1) /\ (a + n + 1) - a = n + 1
      OBVIOUS
    <3>3. QED BY <1>1, <3>1, <3>2
  <2>2. CASE q # p /\ push[q].ring = d
    <3>1. push[q].slot \in a + 1 .. a + n /\ t[push[q].slot - a] = Queue!Nil /\ push'[q] = push[q]
      BY <1>2, <1>3, <2>2
    <3>2. PICK s \in a + 1 .. a + n : s = push[q].slot
      BY <3>1
    <3>3. s - a \in 1 .. n /\ s \in a + 1 .. a + (n + 1)
      OBVIOUS
    <3>4. rings'[d].slots[s - a] = Queue!Nil
      BY <1>1, <3>1, <3>2, <3>3
    <3>5. QED BY <1>1, <2>2, <3>1, <3>2, <3>3, <3>4
  <2>3. CASE q # p /\ push[q].ring # d
    <3>1. push'[q] = push[q] /\ push[q].ring \in 1 .. Len(rings)
      BY <1>3, <2>3, TypesAre DEF QueueTypes, QueueRefs
    <3>2. rings'[push[q].ring] = rings[push[q].ring]
      BY <2>3, <3>1
    <3>3. LET r == rings[push[q].ring]
          IN  push[q].slot \in r.tail + 1 .. r.tail + Len(r.slots) /\ r.slots[push[q].slot - r.tail] = Queue!Nil
      BY <1>3, <3>1 DEF QueueTypes, Reserved
    <3>4. QED BY <3>1, <3>2, <3>3
  <2>4. QED BY <2>1, <2>2, <2>3
<1>4. \A q \in Producer : push[q].pc = "store" /\ push[q].ring = d => push[q].slot # a + n + 1
  BY <1>2
<1>5. \A b, c \in Producer :
         push'[b].pc = "store" /\ push'[c].pc = "store" /\ push'[b].ring = push'[c].ring
            /\ push'[b].slot = push'[c].slot => b = c
  <2>1. \A b, c \in Producer :
           push[b].pc = "store" /\ push[c].pc = "store" /\ push[b].ring = push[c].ring
              /\ push[b].slot = push[c].slot => b = c
    BY DEF QueueTypes, Reserved
  <2>2. SUFFICES ASSUME NEW b \in Producer, NEW c \in Producer, push'[b].pc = "store", push'[c].pc = "store",
                        push'[b].ring = push'[c].ring, push'[b].slot = push'[c].slot, b # c
                 PROVE  FALSE
    OBVIOUS
  <2>3. CASE b # p /\ c # p
    <3>1. push'[b] = push[b] /\ push'[c] = push[c]
      BY <2>3
    <3>2. QED BY <2>1, <2>2, <3>1
  <2>4. CASE b = p /\ c # p
    <3>1. push'[b] = x /\ push'[c] = push[c]
      BY <2>4
    <3>2. QED BY <1>4, <2>2, <3>1
  <2>5. CASE b # p /\ c = p
    <3>1. push'[c] = x /\ push'[b] = push[b]
      BY <2>5
    <3>2. QED BY <1>4, <2>2, <3>1
  <2>6. QED BY <2>2, <2>3, <2>4, <2>5
<1>6. pop'.pc = "taken" => rings'[pop'.ring].slots # <<>> /\ rings'[pop'.ring].slots[1] # Queue!Nil
  <2>1. SUFFICES ASSUME pop.pc = "taken" PROVE rings'[pop.ring].slots # <<>> /\ rings'[pop.ring].slots[1] # Queue!Nil
    OBVIOUS
  <2>2. rings[pop.ring].slots # <<>> /\ rings[pop.ring].slots[1] # Queue!Nil /\ pop.ring \in 1 .. Len(rings)
    BY <2>1, TypesAre DEF QueueTypes, Reserved, QueueRefs
  <2>3. CASE pop.ring = d
    <3>1. t # <<>> /\ t[1] # Queue!Nil
      BY <2>2, <2>3
    <3>2. 1 \in 1 .. n
      BY <3>1, EmptySeq
    <3>3. Append(t, Queue!Nil) # <<>>
      BY Appended
    <3>4. QED BY <1>1, <2>3, <3>1, <3>2, <3>3
  <2>4. CASE pop.ring # d
    BY <2>2, <2>4
  <2>5. QED BY <2>3, <2>4
<1>7. QED BY <1>3, <1>5, <1>6 DEF Reserved

(* Slot k of ring d is filled.                                             *)
Fills(p, d, a, n, t, x, k, e) ==
    /\ p \in Producer /\ d \in 1 .. Len(rings) /\ a \in Nat /\ n \in Nat
    /\ t \in Seq(Queue!Element \cup {Queue!Nil}) /\ k \in 1 .. n /\ e \in Queue!Element /\ e # Queue!Nil
    /\ rings[d].tail = a /\ rings[d].slots = t /\ Len(t) = n
    /\ rings'[d].tail = a /\ rings'[d].slots = [t EXCEPT ![k] = e]
    /\ \A f \in 1 .. Len(rings) : f # d => rings'[f] = rings[f]
    /\ \A q \in Producer : push'[q] = IF q = p THEN x ELSE push[q]
    /\ push[p].pc = "store" /\ push[p].ring = d /\ push[p].slot = a + k
    /\ x.pc # "store" /\ pop' = pop

LEMMA ReservedLess ==
    ASSUME QueueTypes, NEW p, NEW d, NEW a, NEW n, NEW t, NEW x, NEW k, NEW e, Fills(p, d, a, n, t, x, k, e)
    PROVE  Reserved'
<1> USE DEF Fills
<1>1. Len(rings'[d].slots) = n /\ rings'[d].slots[k] = e /\ \A i \in 1 .. n : i # k => rings'[d].slots[i] = t[i]
  BY ExceptSeq
<1>2. ASSUME NEW q \in Producer, push'[q].pc = "store"
      PROVE  LET r == rings'[push'[q].ring]
             IN  push'[q].slot \in r.tail + 1 .. r.tail + Len(r.slots) /\ r.slots[push'[q].slot - r.tail] = Queue!Nil
  <2>1. q # p /\ push'[q] = push[q] /\ push[q].pc = "store"
    BY <1>2
  <2>2. push[q].ring \in 1 .. Len(rings)
    BY <2>1, TypesAre DEF QueueTypes, QueueRefs
  <2>3. LET r == rings[push[q].ring]
        IN  push[q].slot \in r.tail + 1 .. r.tail + Len(r.slots) /\ r.slots[push[q].slot - r.tail] = Queue!Nil
    BY <2>1 DEF QueueTypes, Reserved
  <2>4. CASE push[q].ring = d
    <3>1. push[q].slot # a + k
      BY <2>1, <2>4 DEF QueueTypes, Reserved
    <3>2. push[q].slot \in a + 1 .. a + n /\ t[push[q].slot - a] = Queue!Nil
      BY <2>3, <2>4
    <3>3. PICK s \in a + 1 .. a + n : s = push[q].slot
      BY <3>2
    <3>4. s - a \in 1 .. n /\ s - a # k
      <4>1. s # a + k
        BY <3>1, <3>3
      <4>2. QED BY <4>1
    <3>5. rings'[d].slots[s - a] = Queue!Nil
      BY <1>1, <3>2, <3>3, <3>4
    <3>6. QED BY <1>1, <2>1, <2>4, <3>3, <3>5
  <2>5. CASE push[q].ring # d
    <3>1. rings'[push[q].ring] = rings[push[q].ring]
      BY <2>2, <2>5
    <3>2. QED BY <2>1, <2>3, <3>1
  <2>6. QED BY <2>4, <2>5
<1>3. \A b, c \in Producer :
         push'[b].pc = "store" /\ push'[c].pc = "store" /\ push'[b].ring = push'[c].ring
            /\ push'[b].slot = push'[c].slot => b = c
  <2>1. \A b \in Producer : push'[b].pc = "store" => push'[b] = push[b]
    OBVIOUS
  <2>2. \A b, c \in Producer :
           push[b].pc = "store" /\ push[c].pc = "store" /\ push[b].ring = push[c].ring
              /\ push[b].slot = push[c].slot => b = c
    BY DEF QueueTypes, Reserved
  <2>3. SUFFICES ASSUME NEW b \in Producer, NEW c \in Producer, push'[b].pc = "store", push'[c].pc = "store",
                        push'[b].ring = push'[c].ring, push'[b].slot = push'[c].slot
                 PROVE  b = c
    OBVIOUS
  <2>4. push'[b] = push[b] /\ push'[c] = push[c]
    BY <2>1, <2>3
  <2>5. QED BY <2>2, <2>3, <2>4
<1>4. pop'.pc = "taken" => rings'[pop'.ring].slots # <<>> /\ rings'[pop'.ring].slots[1] # Queue!Nil
  <2>1. SUFFICES ASSUME pop.pc = "taken" PROVE rings'[pop.ring].slots # <<>> /\ rings'[pop.ring].slots[1] # Queue!Nil
    OBVIOUS
  <2>2. rings[pop.ring].slots # <<>> /\ rings[pop.ring].slots[1] # Queue!Nil /\ pop.ring \in 1 .. Len(rings)
    BY <2>1, TypesAre DEF QueueTypes, Reserved, QueueRefs
  <2>3. CASE pop.ring = d
    <3>1. t # <<>> /\ t[1] # Queue!Nil
      BY <2>2, <2>3
    <3>2. 1 \in 1 .. n /\ rings'[d].slots # <<>>
      BY <1>1, <3>1, EmptySeq
    <3>3. QED BY <1>1, <2>3, <3>1, <3>2
  <2>4. CASE pop.ring # d
    BY <2>2, <2>4
  <2>5. QED BY <2>3, <2>4
<1>5. QED BY <1>2, <1>3, <1>4 DEF Reserved

(* The types, step by step.                                                *)
LEMMA ReserveTypes ==
    ASSUME QueueTypes, NEW p \in Producer, Queue!Reserve(p)
    PROVE  QueueTypes'
<1>0. push[p].pc = "reserve" /\ UNCHANGED <<head, newChain, tail, pop, popped>> /\ push[p].ring \in 1 .. Len(rings)
      /\ push[p].done < Items
  BY TypesAre DEF Queue!Reserve, Queue!Chain, QueueTypes, QueueRefs
<1>1. CASE rings' = rings /\ raced' = raced /\ push' = [push EXCEPT ![p].pc = "grow"]
  <2>1. Queue!TypeOK'
    BY <1>0, <1>1, TypesAre DEF QueueTypes, Queue!TypeOK, Queue!PushPC
  <2>2. QueueRefs'
    BY <1>0, <1>1, TypesAre DEF QueueTypes, QueueRefs
  <2>3. Growing' = Growing
    BY <1>0, <1>1, TypesAre DEF Growing
  <2>4. Reserved'
    BY <1>0, <1>1, TypesAre DEF QueueTypes, Reserved
  <2>5. QED BY <1>0, <2>1, <2>2, <2>3, <2>4 DEF QueueTypes, QueueLock
<1>2. CASE /\ Replaces(push[p].ring, [rings[push[p].ring] EXCEPT !.slots = Append(rings[push[p].ring].slots, Queue!Nil)])
           /\ push' = [push EXCEPT ![p] = [push[p] EXCEPT !.pc = "store", !.slot = rings[push[p].ring].tail + Len(rings[push[p].ring].slots) + 1]]
           /\ raced' = (raced \/ push[p].ring # head)
  <2>1. PICK d \in 1 .. Len(rings) : d = push[p].ring
    BY <1>0
  <2>2. rings[d] \in Ring /\ rings[d].tail \in Nat /\ Len(rings[d].slots) \in Nat
        /\ rings[d].slots \in Seq(Queue!Element \cup {Queue!Nil})
    BY Slots
  <2>3. PICK a \in Nat, n \in Nat, t \in Seq(Queue!Element \cup {Queue!Nil}) : a = rings[d].tail /\ n = Len(t) /\ t = rings[d].slots
    BY <2>2
  <2>4. PICK r, x : /\ r = [rings[d] EXCEPT !.slots = Append(t, Queue!Nil)] /\ x = [push[p] EXCEPT !.pc = "store", !.slot = a + n + 1]
                    /\ Replaces(d, r) /\ push' = [push EXCEPT ![p] = x]
    BY <1>2, <2>1, <2>3
  <2>5. x \in [pc : Queue!PushPC, ring : Nat, slot : Nat, done : 0 .. Items] /\ x.pc = "store" /\ x.ring = d
        /\ x.slot = a + n + 1 /\ x.done = push[p].done
    <3>1. push[p] \in [pc : Queue!PushPC, ring : Nat, slot : Nat, done : 0 .. Items] /\ a + n + 1 \in Nat
      BY TypesAre
    <3>2. QED BY <2>1, <2>4, <3>1 DEF Queue!PushPC
  <2>6. raced' \in BOOLEAN
    BY <1>2 DEF QueueTypes, Queue!TypeOK
  <2>7. Queue!TypeOK' /\ QueueRefs' /\ QueueLock'
    BY <1>0, <2>1, <2>4, <2>5, <2>6, ReplacingTypes
  <2>8. r.tail = a /\ r.slots = Append(t, Queue!Nil)
    BY <2>2, <2>3, <2>4, RingFields
  <2>9. rings'[d].tail = a /\ rings'[d].slots = Append(t, Queue!Nil) /\ \A e \in 1 .. Len(rings) : e # d => rings'[e] = rings[e]
    BY <2>4, <2>8, ReplacedIs
  <2>10. \A q \in Producer : push'[q] = IF q = p THEN x ELSE push[q]
    BY <2>4, TypesAre
  <2>11. Reserved'
    <3>1. /\ rings[d].tail = a /\ rings[d].slots = t /\ Len(t) = n
          /\ rings'[d].tail = a /\ rings'[d].slots = Append(t, Queue!Nil)
          /\ x.ring = d /\ x.slot = a + n + 1 /\ pop' = pop
      BY <1>0, <2>3, <2>5, <2>9
    <3>2. Reserves(p, d, a, n, t, x)
      BY <2>9, <2>10, <3>1 DEF Reserves
    <3>3. QED BY <3>2, ReservedMore
  <2>12. QED BY <2>7, <2>11 DEF QueueTypes
<1>3. QED BY <1>1, <1>2, ReserveIs

LEMMA StoreTypes ==
    ASSUME QueueTypes, NEW p \in Producer, Queue!Store(p)
    PROVE  QueueTypes'
<1>0. push[p].pc = "store" /\ UNCHANGED <<head, newChain, tail, pop, popped, raced>> /\ push[p].done < Items
      /\ push[p].ring \in 1 .. Len(rings)
  BY TypesAre DEF Queue!Store, Queue!Chain, QueueTypes, QueueRefs
<1>1. PICK d \in 1 .. Len(rings) : d = push[p].ring
  BY <1>0
<1>2. rings[d] \in Ring /\ rings[d].tail \in Nat /\ Len(rings[d].slots) \in Nat
      /\ rings[d].slots \in Seq(Queue!Element \cup {Queue!Nil})
  BY Slots
<1>3. PICK a \in Nat, n \in Nat, t \in Seq(Queue!Element \cup {Queue!Nil}) : a = rings[d].tail /\ n = Len(t) /\ t = rings[d].slots
  BY <1>2
<1>4. PICK k : k = push[p].slot - a
  OBVIOUS
<1>5. PICK r, x : /\ r = [rings[d] EXCEPT !.slots = [t EXCEPT ![k] = Queue!Current(p)]] /\ x = [push[p] EXCEPT !.pc = "broadcast"]
                  /\ Replaces(d, r) /\ push' = [push EXCEPT ![p] = x]
                  /\ k \in 1 .. n /\ push[p].slot = a + k
  BY <1>1, <1>3, <1>4, StoreIs
<1>6. x \in [pc : Queue!PushPC, ring : Nat, slot : Nat, done : 0 .. Items] /\ x.pc = "broadcast" /\ x.ring = d
      /\ x.done = push[p].done
  BY <1>0, <1>1, <1>5, TypesAre DEF Queue!PushPC
<1>7. raced' \in BOOLEAN
  BY <1>0 DEF QueueTypes, Queue!TypeOK
<1>8. Queue!TypeOK' /\ QueueRefs' /\ QueueLock'
  BY <1>0, <1>1, <1>5, <1>6, <1>7, ReplacingTypes
<1>9. r.tail = a /\ r.slots = [t EXCEPT ![k] = Queue!Current(p)]
  BY <1>2, <1>3, <1>5, RingFields
<1>10. rings'[d].tail = a /\ rings'[d].slots = [t EXCEPT ![k] = Queue!Current(p)] /\ \A e \in 1 .. Len(rings) : e # d => rings'[e] = rings[e]
  BY <1>5, <1>9, ReplacedIs
<1>11. \A q \in Producer : push'[q] = IF q = p THEN x ELSE push[q]
  BY <1>5, TypesAre
<1>12. Queue!Current(p) \in Queue!Element /\ Queue!Current(p) # Queue!Nil
  BY <1>0, CurrentIs
<1>13. Reserved'
  <2>1. PICK e \in Queue!Element : e = Queue!Current(p) /\ e # Queue!Nil
    BY <1>12
  <2>2. /\ rings[d].tail = a /\ rings[d].slots = t /\ Len(t) = n
        /\ rings'[d].tail = a /\ rings'[d].slots = [t EXCEPT ![k] = e]
        /\ push[p].pc = "store" /\ push[p].ring = d /\ push[p].slot = a + k
        /\ x.pc # "store" /\ pop' = pop /\ k \in 1 .. n
    BY <1>0, <1>1, <1>3, <1>5, <1>6, <1>10, <2>1
  <2>3. Fills(p, d, a, n, t, x, k, e)
    BY <1>10, <1>11, <2>1, <2>2 DEF Fills
  <2>4. QED BY <2>3, ReservedLess
<1>14. QED BY <1>8, <1>13 DEF QueueTypes

LEMMA StoreNextTypes ==
    ASSUME QueueTypes, NEW p \in Producer, Queue!StoreNext(p)
    PROVE  QueueTypes'
<1>0. push[p].pc = "newnext" /\ UNCHANGED <<head, newChain, tail, pop, popped, raced>> /\ push[p].done < Items
      /\ push[p].ring \in 1 .. Len(rings)
  BY TypesAre DEF Queue!StoreNext, Queue!Chain, QueueTypes, QueueRefs
<1>1. PICK d, r, x : /\ d \in 1 .. Len(rings)
                     /\ d = push[p].ring /\ r = [rings[d] EXCEPT !.next = push[p].slot]
                     /\ x = [push[p] EXCEPT !.pc = "grown"]
                     /\ Replaces(d, r) /\ push' = [push EXCEPT ![p] = x]
  <2>1. PICK d : d = push[p].ring
    OBVIOUS
  <2>2. PICK r, x : r = [rings[d] EXCEPT !.next = push[p].slot] /\ x = [push[p] EXCEPT !.pc = "grown"]
    OBVIOUS
  <2>3. Replaces(d, r) /\ push' = [push EXCEPT ![p] = x]
    BY <2>1, <2>2, StoreNextIs, Zenon
  <2>4. QED BY <1>0, <2>1, <2>2, <2>3, Zenon
<1>2. x \in [pc : Queue!PushPC, ring : Nat, slot : Nat, done : 0 .. Items] /\ x.pc = "grown" /\ x.ring = d
      /\ x.done = push[p].done
  BY <1>0, <1>1, TypesAre DEF Queue!PushPC
<1>3. raced' \in BOOLEAN
  BY <1>0 DEF QueueTypes, Queue!TypeOK
<1>4. Queue!TypeOK' /\ QueueRefs' /\ QueueLock'
  BY <1>0, <1>1, <1>2, <1>3, ReplacingTypes
<1>5. rings[d] \in Ring
  BY <1>1, Slots
<1>6. \A e \in 1 .. Len(rings) : rings'[e].slots = rings[e].slots /\ rings'[e].tail = rings[e].tail
  <2>1. rings'[d] = r /\ \A e \in 1 .. Len(rings) : e # d => rings'[e] = rings[e]
    BY <1>1, ReplacedIs
  <2>2. r.slots = rings[d].slots /\ r.tail = rings[d].tail
    BY <1>1, <1>5, RingFields
  <2>3. QED BY <2>1, <2>2
<1>7. \A q \in Producer : push'[q].pc = "store" => push'[q] = push[q] /\ push[q].ring \in 1 .. Len(rings)
  BY <1>1, <1>2, TypesAre DEF QueueTypes, QueueRefs
<1>8. pop.pc = "taken" => pop.ring \in 1 .. Len(rings)
  BY TypesAre DEF QueueTypes, QueueRefs
<1>9. Reserved'
  <2>1. ASSUME NEW q \in Producer, push'[q].pc = "store"
        PROVE  LET s == rings'[push'[q].ring]
               IN  push'[q].slot \in s.tail + 1 .. s.tail + Len(s.slots) /\ s.slots[push'[q].slot - s.tail] = Queue!Nil
    <3>1. push'[q] = push[q] /\ push[q].ring \in 1 .. Len(rings)
      BY <1>7, <2>1
    <3>2. LET s == rings[push[q].ring]
          IN  push[q].slot \in s.tail + 1 .. s.tail + Len(s.slots) /\ s.slots[push[q].slot - s.tail] = Queue!Nil
      BY <2>1, <3>1 DEF QueueTypes, Reserved
    <3>3. QED BY <1>6, <3>1, <3>2
  <2>2. \A a, b \in Producer :
          push'[a].pc = "store" /\ push'[b].pc = "store" /\ push'[a].ring = push'[b].ring
             /\ push'[a].slot = push'[b].slot => a = b
    BY <1>7 DEF QueueTypes, Reserved
  <2>3. pop'.pc = "taken" => rings'[pop'.ring].slots # <<>> /\ rings'[pop'.ring].slots[1] # Queue!Nil
    BY <1>0, <1>6, <1>8 DEF QueueTypes, Reserved
  <2>4. QED BY <2>1, <2>2, <2>3 DEF Reserved
<1>10. QED BY <1>4, <1>9 DEF QueueTypes

LEMMA GrowTypes ==
    ASSUME QueueTypes, NEW p \in Producer, Queue!Grow(p)
    PROVE  QueueTypes'
<1>0. push[p].pc = "grow" /\ UNCHANGED <<head, tail, pop, popped>> /\ push[p].done < Items
  BY DEF Queue!Grow, Queue!Chain, QueueTypes, QueueRefs
<1>1. CASE newChain
  <2>1. push' = [push EXCEPT ![p].pc = "start"] /\ UNCHANGED <<rings, newChain, raced>>
    BY <1>1 DEF Queue!Grow, Queue!Goes
  <2>2. Queue!TypeOK'
    BY <1>0, <2>1, TypesAre DEF QueueTypes, Queue!TypeOK, Queue!PushPC
  <2>3. QueueRefs'
    BY <1>0, <2>1, TypesAre DEF QueueTypes, QueueRefs
  <2>4. Growing' = Growing
    BY <1>0, <2>1, TypesAre DEF Growing
  <2>5. Reserved'
    BY <1>0, <2>1, TypesAre DEF QueueTypes, Reserved
  <2>6. QED BY <2>1, <2>2, <2>3, <2>4, <2>5 DEF QueueTypes, QueueLock
<1>2. CASE ~newChain
  <2>1. PICK n \in Nat : n = Len(rings)
    BY TypesAre
  <2>2. PICK x : x = [push[p] EXCEPT !.pc = "newhead", !.slot = n + 1]
    OBVIOUS
  <2>3. /\ Growing = {} /\ newChain' = TRUE /\ push[p].ring \in 1 .. n
        /\ rings' \in Seq(Ring) /\ Len(rings') = n + 1 /\ DOMAIN rings' = 1 .. n + 1
        /\ \A d \in 1 .. n : rings'[d] = rings[d]
        /\ rings'[n + 1].next = 0
        /\ rings'[n + 1].slots = <<Queue!Current(p)>>
        /\ rings'[n + 1].size > 1
        /\ push' = [push EXCEPT ![p] = x]
        /\ raced' = (raced \/ push[p].ring # head)
    BY <1>2, <2>1, <2>2, GrowIs
  <2>4. x \in [pc : Queue!PushPC, ring : Nat, slot : Nat, done : 0 .. Items] /\ x.pc = "newhead" /\ x.slot = n + 1
        /\ x.done = push[p].done /\ x.ring = push[p].ring
    <3>1. push[p] \in [pc : Queue!PushPC, ring : Nat, slot : Nat, done : 0 .. Items] /\ n + 1 \in Nat
      BY TypesAre
    <3>2. QED BY <2>2, <3>1 DEF Queue!PushPC
  <2>5. \A q \in Producer : push'[q] = IF q = p THEN x ELSE push[q]
    BY <2>3, TypesAre
  <2>6. DOMAIN rings = 1 .. n /\ head \in 1 .. n /\ tail \in 1 .. n /\ DOMAIN rings \subseteq DOMAIN rings'
    BY <2>1, <2>3, TypesAre
  <2>7. Queue!TypeOK'
    <3>1. push' \in [Producer -> [pc : Queue!PushPC, ring : Nat, slot : Nat, done : 0 .. Items]]
      BY <2>3, <2>4, TypesAre
    <3>2. head' \in DOMAIN rings' /\ tail' \in DOMAIN rings'
      BY <1>0, <2>6
    <3>3. Len(<<Queue!Current(p)>>) = 1 /\ rings'[n + 1].size \in Nat
      <4>1. rings'[n + 1] \in Ring
        BY <2>3, ElementOfSeq
      <4>2. QED BY <4>1 DEF Ring
    <3>4. \A d \in DOMAIN rings' : Len(rings'[d].slots) <= rings'[d].size
      <4>1. \A d \in 1 .. n : Len(rings'[d].slots) <= rings'[d].size
        BY <2>1, <2>3, Slots
      <4>2. Len(rings'[n + 1].slots) <= rings'[n + 1].size
        BY <2>3, <3>3
      <4>3. \A d \in 1 .. n + 1 : d \in 1 .. n \/ d = n + 1
        OBVIOUS
      <4>4. QED BY <2>3, <4>1, <4>2, <4>3
    <3>5. newChain' \in BOOLEAN /\ raced' \in BOOLEAN
      BY <2>3 DEF QueueTypes, Queue!TypeOK
    <3>6. pop' \in [pc : {"start", "next", "ring", "taken", "sleep"}, ring : Nat, next : Nat, again : BOOLEAN]
          /\ popped' \in Seq(Queue!Element)
      BY <1>0, TypesAre DEF QueueTypes, Queue!TypeOK
    <3>7. QED BY <2>3, <3>1, <3>2, <3>4, <3>5, <3>6 DEF Queue!TypeOK, Ring
  <2>8. QueueRefs'
    <3>1. \A q \in Producer :
             /\ push'[q].pc \in {"reserve", "store", "grow", "newhead", "newnext"} => push'[q].ring \in DOMAIN rings'
             /\ push'[q].pc \in {"newhead", "newnext"} => push'[q].slot \in DOMAIN rings'
             /\ push'[q].pc # "start" => push'[q].done < Items
      <4> SUFFICES ASSUME NEW q \in Producer
                   PROVE  /\ push'[q].pc \in {"reserve", "store", "grow", "newhead", "newnext"} => push'[q].ring \in DOMAIN rings'
                          /\ push'[q].pc \in {"newhead", "newnext"} => push'[q].slot \in DOMAIN rings'
                          /\ push'[q].pc # "start" => push'[q].done < Items
        OBVIOUS
      <4>1. CASE q = p
        BY <1>0, <2>3, <2>4, <2>5, <4>1
      <4>2. CASE q # p
        BY <2>5, <2>6, <4>2 DEF QueueTypes, QueueRefs
      <4>3. QED BY <4>1, <4>2
    <3>2. /\ pop'.pc \in {"next", "ring", "taken"} => pop'.ring \in DOMAIN rings'
          /\ pop'.pc = "ring" => pop'.next <= Len(rings')
      <4>1. pop.pc = "ring" => pop.next <= n /\ pop.next \in Nat
        BY <2>1, TypesAre DEF QueueTypes, QueueRefs
      <4>2. pop.pc \in {"next", "ring", "taken"} => pop.ring \in DOMAIN rings
        BY DEF QueueTypes, QueueRefs
      <4>3. QED BY <1>0, <2>3, <2>6, <4>1, <4>2
    <3>3. \A d \in DOMAIN rings' : rings'[d].next <= Len(rings') /\ rings'[d].size > 0
      <4>1. ASSUME NEW d \in 1 .. n PROVE rings'[d].next <= n + 1 /\ rings'[d].size > 0
        <5>1. rings[d] \in Ring /\ rings[d].next <= n /\ rings[d].size > 0
          BY <2>1, <2>6, Slots DEF QueueTypes, QueueRefs
        <5>2. rings[d].next \in Nat
          BY <5>1 DEF Ring
        <5>3. QED BY <2>3, <5>1, <5>2
      <4>2. rings'[n + 1].next <= n + 1 /\ rings'[n + 1].size > 0
        <5>1. rings'[n + 1] \in Ring
          BY <2>3, ElementOfSeq
        <5>2. QED BY <2>3, <5>1 DEF Ring
      <4>3. \A d \in 1 .. n + 1 : d \in 1 .. n \/ d = n + 1
        OBVIOUS
      <4>4. QED BY <2>3, <4>1, <4>2, <4>3
    <3>4. QED BY <3>1, <3>2, <3>3 DEF QueueRefs
  <2>9. QueueLock'
    <3>1. Growing' = {p}
      BY <2>3, <2>4, <2>5 DEF Growing
    <3>2. QED BY <2>3, <3>1 DEF QueueLock
  <2>10. Reserved'
    <3>1. \A q \in Producer : push'[q].pc = "store" => push'[q] = push[q] /\ push[q].ring \in 1 .. n
      BY <2>4, <2>5, <2>6 DEF QueueTypes, QueueRefs
    <3>2. ASSUME NEW q \in Producer, push'[q].pc = "store"
          PROVE  LET s == rings'[push'[q].ring]
                 IN  push'[q].slot \in s.tail + 1 .. s.tail + Len(s.slots) /\ s.slots[push'[q].slot - s.tail] = Queue!Nil
      <4>1. push'[q] = push[q] /\ rings'[push[q].ring] = rings[push[q].ring]
        BY <2>3, <3>1, <3>2
      <4>2. LET s == rings[push[q].ring]
            IN  push[q].slot \in s.tail + 1 .. s.tail + Len(s.slots) /\ s.slots[push[q].slot - s.tail] = Queue!Nil
        BY <3>2, <4>1 DEF QueueTypes, Reserved
      <4>3. QED BY <4>1, <4>2
    <3>3. \A a, b \in Producer :
            push'[a].pc = "store" /\ push'[b].pc = "store" /\ push'[a].ring = push'[b].ring
               /\ push'[a].slot = push'[b].slot => a = b
      BY <3>1 DEF QueueTypes, Reserved
    <3>4. pop'.pc = "taken" => rings'[pop'.ring].slots # <<>> /\ rings'[pop'.ring].slots[1] # Queue!Nil
      BY <1>0, <2>3, <2>6 DEF QueueTypes, QueueRefs, Reserved
    <3>5. QED BY <3>2, <3>3, <3>4 DEF Reserved
  <2>11. QED BY <2>7, <2>8, <2>9, <2>10 DEF QueueTypes
<1>3. QED BY <1>1, <1>2

LEMMA MoveTailTypes ==
    ASSUME QueueTypes, Queue!MoveTail
    PROVE  QueueTypes'
<1>0. /\ pop.pc = "taken" /\ UNCHANGED <<head, newChain, tail, popped, push, raced>>
      /\ pop' = [pop EXCEPT !.pc = "start"]
  BY DEF Queue!MoveTail, Queue!Same
<1>1. PICK d, t : d = pop.ring /\ t = rings[d].slots
  OBVIOUS
<1>2. PICK r : r = [rings[d] EXCEPT !.tail = rings[d].tail + 1, !.slots = Tail(t)]
  OBVIOUS
<1>3. /\ d \in 1 .. Len(rings) /\ t # <<>> /\ t[1] # Queue!Nil
      /\ Len(Tail(t)) = Len(t) - 1 /\ Len(t) \in Nat \ {0}
      /\ \A i \in 1 .. Len(t) - 1 : Tail(t)[i] = t[i + 1]
      /\ Replaces(d, r)
  BY <1>1, <1>2, MoveTailIs
<1>4. PICK n \in Nat \ {0}, a \in Nat : n = Len(t) /\ a = rings[d].tail
  BY <1>3, Slots
<1>5. r.tail = a + 1 /\ r.slots = Tail(t)
  <2>1. rings[d] \in Ring
    BY <1>3, Slots
  <2>2. QED BY <1>2, <1>4, <2>1, RingFields
<1>6. rings'[d] = r /\ \A e \in 1 .. Len(rings) : e # d => rings'[e] = rings[e]
  BY <1>3, ReplacedIs
<1>7. Queue!TypeOK'
  <2>1. pop' \in [pc : {"start", "next", "ring", "taken", "sleep"}, ring : Nat, next : Nat, again : BOOLEAN]
    BY <1>0, TypesAre
  <2>2. head' \in DOMAIN rings' /\ tail' \in DOMAIN rings' /\ rings' \in Seq(Ring)
    BY <1>0, <1>3, ReplacedIs, TypesAre
  <2>3. \A e \in DOMAIN rings' : Len(rings'[e].slots) <= rings'[e].size
    BY <1>3, ReplacedIs
  <2>4. newChain' \in BOOLEAN /\ raced' \in BOOLEAN /\ popped' \in Seq(Queue!Element)
    BY <1>0 DEF QueueTypes, Queue!TypeOK
  <2>5. push' \in [Producer -> [pc : Queue!PushPC, ring : Nat, slot : Nat, done : 0 .. Items]]
    BY <1>0, TypesAre
  <2>6. QED BY <2>1, <2>2, <2>3, <2>4, <2>5 DEF Queue!TypeOK, Ring
<1>8. QueueRefs'
  <2>1. DOMAIN rings' = DOMAIN rings /\ Len(rings') = Len(rings)
    BY <1>3, ReplacedIs, TypesAre
  <2>2. \A e \in DOMAIN rings' : rings'[e].next <= Len(rings') /\ rings'[e].size > 0
    BY <1>3, ReplacedIs
  <2>3. pop'.pc = "start"
    BY <1>0, TypesAre
  <2>4. QED BY <1>0, <2>1, <2>2, <2>3 DEF QueueTypes, QueueRefs
<1>9. QueueLock'
  BY <1>0 DEF QueueTypes, QueueLock, Growing
<1>10. Reserved'
  <2>1. ASSUME NEW q \in Producer, push[q].pc = "store"
        PROVE  LET s == rings'[push[q].ring]
               IN  push[q].slot \in s.tail + 1 .. s.tail + Len(s.slots) /\ s.slots[push[q].slot - s.tail] = Queue!Nil
    <3>1. LET s == rings[push[q].ring]
          IN  push[q].slot \in s.tail + 1 .. s.tail + Len(s.slots) /\ s.slots[push[q].slot - s.tail] = Queue!Nil
      BY <2>1 DEF QueueTypes, Reserved
    <3>2. push[q].ring \in 1 .. Len(rings)
      BY <2>1, TypesAre DEF QueueTypes, QueueRefs
    <3>3. CASE push[q].ring = d
      <4>1. push[q].slot \in a + 1 .. a + n /\ t[push[q].slot - a] = Queue!Nil
        BY <1>1, <1>4, <3>1, <3>3
      <4>2. PICK s \in a + 1 .. a + n : s = push[q].slot
        BY <4>1
      <4>3. s # a + 1
        BY <1>3, <4>1, <4>2
      <4>4. s \in (a + 1) + 1 .. (a + 1) + (n - 1) /\ s - (a + 1) \in 1 .. n - 1 /\ (s - (a + 1)) + 1 = s - a
        BY <4>3
      <4>5. Tail(t)[s - (a + 1)] = Queue!Nil
        BY <1>3, <1>4, <4>1, <4>2, <4>4
      <4>6. QED BY <1>3, <1>4, <1>5, <1>6, <3>3, <4>2, <4>4, <4>5
    <3>4. CASE push[q].ring # d
      BY <1>6, <3>1, <3>2, <3>4
    <3>5. QED BY <3>3, <3>4
  <2>2. pop'.pc # "taken"
    BY <1>0, TypesAre
  <2>3. QED BY <1>0, <2>1, <2>2 DEF QueueTypes, Reserved
<1>11. QED BY <1>7, <1>8, <1>9, <1>10 DEF QueueTypes

(* Every step keeps the types.                                             *)
LEMMA QueueStepTypes == QueueTypes /\ [Queue!Next]_(Queue!vars) => QueueTypes'
<1> SUFFICES ASSUME QueueTypes, [Queue!Next]_(Queue!vars) PROVE QueueTypes'
  OBVIOUS
<1>1. CASE UNCHANGED Queue!vars
  BY <1>1 DEF Queue!vars, QueueTypes, Queue!TypeOK, QueueRefs, QueueLock, Growing, Reserved
<1>2. CASE Queue!PopStep
  BY <1>2, ConsumerTypes, MoveTailTypes DEF Queue!PopStep
<1>3. ASSUME NEW p \in Producer, Queue!PushStep(p) PROVE QueueTypes'
  BY <1>3, ProducerTypes, ReserveTypes, StoreTypes, GrowTypes, StoreNextTypes DEF Queue!PushStep
<1>4. QED BY <1>1, <1>2, <1>3 DEF Queue!Next

(* As long as no producer goes on with a ring that another has replaced:   *)
(* the rings are linked as they were made, but for the one that is being   *)
(* linked; the rings before the tail are empty and the consumer reads the  *)
(* one at the tail; a ring that is not the head yet holds what it was made *)
(* for.                                                                    *)
Making  == {p \in Producer : push[p].pc = "newhead"}
Joining == {p \in Producer : push[p].pc \in {"newhead", "newnext"}}
QueueLinked ==
    /\ tail <= head
    /\ Making = {} => head = Len(rings)
    /\ \A p \in Making : head = Len(rings) - 1 /\ rings[Len(rings)].slots = <<Queue!Current(p)>>
    /\ \A p \in Joining : push[p].ring = Len(rings) - 1 /\ push[p].slot = Len(rings)
                            /\ rings[Len(rings) - 1].next = 0
    /\ rings[Len(rings)].next = 0
    /\ \A d \in 1 .. Len(rings) - 1 : d < Len(rings) - 1 \/ Joining = {} => rings[d].next = d + 1
    /\ \A p \in Producer : push[p].pc \in {"reserve", "store", "grow"} => push[p].ring <= head
QueueRead ==
    /\ \A d \in 1 .. tail - 1 : rings[d].slots = <<>>
    /\ pop.pc \in {"next", "ring", "taken"} => pop.ring = tail
    /\ pop.pc = "ring" /\ pop.next # 0 => pop.next = rings[tail].next

(* The links stay when neither a ring is made nor a producer gets one, ... *)
LEMMA LinkedSame ==
    ASSUME QueueTypes, QueueTypes', QueueLinked,
           Len(rings') = Len(rings), UNCHANGED <<head, tail>>,
           \A d \in 1 .. Len(rings) : rings'[d].next = rings[d].next,
           Making # {} => rings'[Len(rings)].slots = rings[Len(rings)].slots,
           Making' = Making, Joining' = Joining, \A p \in Joining : push'[p] = push[p],
           \A p \in Producer : push'[p].pc \in {"reserve", "store", "grow"} => push'[p].ring <= head
    PROVE  QueueLinked'
<1>1. PICK n \in Nat : n = Len(rings) /\ n >= 1
  BY TypesAre
<1>2. Making \subseteq Joining
  BY DEF Making, Joining
<1>3. \A p \in Making : Queue!Current(p)' = Queue!Current(p)
  BY <1>2 DEF Queue!Current
<1>4. \A p \in Making' : head' = n - 1 /\ rings'[n].slots = <<Queue!Current(p)'>>
  BY <1>1, <1>3 DEF QueueLinked
<1>5. \A p \in Joining' : push'[p].ring = n - 1 /\ push'[p].slot = n /\ rings'[n - 1].next = 0
  <2>1. SUFFICES ASSUME NEW p \in Joining PROVE push'[p].ring = n - 1 /\ push'[p].slot = n /\ rings'[n - 1].next = 0
    OBVIOUS
  <2>2. push[p].ring = n - 1 /\ push[p].slot = n /\ rings[n - 1].next = 0
    BY <1>1 DEF QueueLinked
  <2>3. push[p].ring \in 1 .. n
    BY <1>1, TypesAre DEF QueueTypes, QueueRefs, Joining
  <2>4. QED BY <1>1, <2>2, <2>3
<1>6. rings'[n].next = 0 /\ \A d \in 1 .. n - 1 : d < n - 1 \/ Joining' = {} => rings'[d].next = d + 1
  BY <1>1 DEF QueueLinked
<1>7. tail' <= head' /\ (Making' = {} => head' = n)
  BY <1>1 DEF QueueLinked
<1>8. QED BY <1>1, <1>4, <1>5, <1>6, <1>7 DEF QueueLinked

(* ... the rings that were read stay when none of them changes.            *)
LEMMA ReadSame ==
    ASSUME QueueTypes, QueueTypes', QueueRead, tail' = tail,
           pop'.pc \in {"next", "ring", "taken"} => pop' = pop,
           \A d \in 1 .. tail - 1 : rings'[d].slots = rings[d].slots,
           rings'[tail].next = rings[tail].next \/ rings[tail].next = 0
    PROVE  QueueRead'
<1>1. \A d \in 1 .. tail' - 1 : rings'[d].slots = <<>>
  BY DEF QueueRead
<1>2. pop.next \in Nat /\ tail \in 1 .. Len(rings)
  BY TypesAre
<1>3. pop'.pc = "ring" /\ pop'.next # 0 => pop'.next = rings'[tail'].next
  BY <1>2 DEF QueueRead
<1>4. QED BY <1>1, <1>3 DEF QueueRead

(* Reserve changes no ring only if the ring is full.                       *)
LEMMA NoRoom ==
    ASSUME QueueTypes, NEW p \in Producer, Queue!Reserve(p), rings' = rings
    PROVE  push' = [push EXCEPT ![p].pc = "grow"]
<1>1. CASE Replaces(push[p].ring, [rings[push[p].ring] EXCEPT !.slots = Append(rings[push[p].ring].slots, Queue!Nil)])
  <2>1. PICK d, t, r :
           /\ d \in 1 .. Len(rings) /\ t \in Seq(Queue!Element \cup {Queue!Nil})
           /\ d = push[p].ring /\ t = rings[d].slots /\ rings[d] \in Ring
           /\ r = [rings[d] EXCEPT !.slots = Append(t, Queue!Nil)] /\ Replaces(d, r)
    BY <1>1, Slots DEF Replaces
  <2>2. r.slots = Append(t, Queue!Nil)
    BY <2>1 DEF Ring
  <2>3. rings'[d] = r
    BY <2>1, ReplacedIs
  <2>4. Append(t, Queue!Nil) = t
    BY <2>1, <2>2, <2>3
  <2>5. Len(Append(t, Queue!Nil)) = Len(t) + 1 /\ Len(t) \in Nat
    OBVIOUS
  <2>6. QED BY <2>4, <2>5
<1>2. \/ push' = [push EXCEPT ![p].pc = "grow"]
      \/ Replaces(push[p].ring, [rings[push[p].ring] EXCEPT !.slots = Append(rings[push[p].ring].slots, Queue!Nil)])
  BY ReserveIs, Zenon
<1>3. QED BY <1>1, <1>2, Zenon

(* A producer that replaces no ring.                                       *)
LEMMA ProducerLinked ==
    ASSUME QueueTypes, QueueTypes', QueueLinked, QueueRead, NEW p \in Producer,
           \/ Queue!SeeNoNewChain(p) \/ Queue!LoadHead(p) \/ Queue!Grown(p) \/ Queue!EndPush(p)
           \/ Queue!Reserve(p) /\ rings' = rings
           \/ Queue!Grow(p) /\ newChain
    PROVE  QueueLinked' /\ QueueRead'
<1>1. UNCHANGED <<rings, head, tail>>
  BY DEF Queue!SeeNoNewChain, Queue!LoadHead, Queue!Grown, Queue!EndPush, Queue!Reserve, Queue!Grow, Queue!Chain
<1>2. pop' = pop \/ (pop.pc = "sleep" /\ pop' = [pop EXCEPT !.pc = "start"])
  BY DEF Queue!SeeNoNewChain, Queue!LoadHead, Queue!Grown, Queue!EndPush, Queue!Reserve, Queue!Grow,
     Queue!Broadcast, Queue!Chain
<1>3. /\ push' = [push EXCEPT ![p] = push'[p]] /\ push[p].pc \notin {"newhead", "newnext"}
      /\ push'[p].pc \notin {"newhead", "newnext"}
      /\ push'[p].pc \in {"reserve", "store", "grow"} => push'[p].ring <= head
  <2>1. CASE Queue!SeeNoNewChain(p) \/ Queue!Grown(p) \/ (Queue!Grow(p) /\ newChain)
    BY <2>1, TypesAre DEF Queue!SeeNoNewChain, Queue!Grown, Queue!Grow, Queue!Goes
  <2>2. CASE Queue!LoadHead(p)
    <3>1. push' = [push EXCEPT ![p] = [push[p] EXCEPT !.pc = "reserve", !.ring = head]] /\ push[p].pc = "head"
      BY <2>2 DEF Queue!LoadHead
    <3>2. push[p] \in [pc : Queue!PushPC, ring : Nat, slot : Nat, done : 0 .. Items] /\ head <= head
      BY TypesAre
    <3>3. QED BY <3>1, <3>2, TypesAre
  <2>3. CASE Queue!EndPush(p)
    BY <2>3, TypesAre DEF Queue!EndPush, Queue!Pushed
  <2>4. CASE Queue!Reserve(p) /\ rings' = rings
    <3>1. push' = [push EXCEPT ![p].pc = "grow"]
      BY <2>4, NoRoom, Zenon
    <3>2. push[p].pc = "reserve" /\ push[p].ring <= head
      BY <2>4 DEF Queue!Reserve, QueueLinked
    <3>3. QED BY <3>1, <3>2, TypesAre
  <2>5. QED BY <2>1, <2>2, <2>3, <2>4
<1>4. Making' = Making /\ Joining' = Joining /\ \A q \in Joining : push'[q] = push[q]
  BY <1>3, TypesAre DEF Making, Joining
<1>5. \A q \in Producer : push'[q].pc \in {"reserve", "store", "grow"} => push'[q].ring <= head
  BY <1>3, TypesAre DEF QueueLinked
<1>6. QueueLinked'
  BY <1>1, <1>4, <1>5, LinkedSame
<1>7. pop'.pc \in {"next", "ring", "taken"} => pop' = pop
  BY <1>2, TypesAre
<1>8. QED BY <1>1, <1>6, <1>7, ReadSame

(* A producer that reserves or fills a slot.                               *)
LEMMA FillLinked ==
    ASSUME QueueTypes, QueueTypes', QueueLinked, QueueRead, NEW p \in Producer,
           NEW d, NEW r, NEW x, Replaces(d, r), r.next = rings[d].next, push' = [push EXCEPT ![p] = x],
           d = push[p].ring, push[p].pc \in {"reserve", "store"}, x.pc \in {"store", "broadcast"}, x.ring = d,
           push[p].pc = "store" => rings[d].slots # <<>>,
           push[p].pc = "reserve" => d = head,
           UNCHANGED <<head, tail, pop>>
    PROVE  QueueLinked' /\ QueueRead'
<1>1. PICK n \in Nat : n = Len(rings) /\ n >= 1 /\ head \in 1 .. n /\ tail \in 1 .. n /\ d \in 1 .. n
  <2>1. d \in 1 .. Len(rings)
    BY DEF Replaces
  <2>2. Len(rings) \in Nat /\ head \in 1 .. Len(rings) /\ tail \in 1 .. Len(rings)
    BY TypesAre
  <2>3. Len(rings) >= 1
    BY <2>2
  <2>4. QED BY <2>1, <2>2, <2>3
<1>2. Making' = Making /\ Joining' = Joining /\ \A q \in Joining : push'[q] = push[q]
  BY TypesAre DEF Making, Joining
<1>3. d <= head
  BY DEF QueueLinked
<1>4. \A q \in Producer : push'[q].pc \in {"reserve", "store", "grow"} => push'[q].ring <= head
  <2>1. \A q \in Producer : push'[q] = IF q = p THEN x ELSE push[q]
    BY TypesAre
  <2>2. QED BY <1>3, <2>1 DEF QueueLinked
<1>5. Len(rings') = n /\ rings'[d] = r /\ \A e \in 1 .. n : e # d => rings'[e] = rings[e]
  BY <1>1, ReplacedIs
<1>6. \A e \in 1 .. n : rings'[e].next = rings[e].next
  BY <1>5
<1>7. Making # {} => rings'[n].slots = rings[n].slots
  <2>1. Making # {} => head = n - 1
    BY <1>1 DEF QueueLinked
  <2>2. QED BY <1>1, <1>3, <1>5, <2>1
<1>8. QueueLinked'
  BY <1>1, <1>2, <1>4, <1>5, <1>6, <1>7, LinkedSame
<1>9. d >= tail
  BY <1>1 DEF QueueRead, QueueLinked
<1>10. \A e \in 1 .. tail - 1 : rings'[e].slots = rings[e].slots
  BY <1>1, <1>5, <1>9
<1>11. QED BY <1>1, <1>6, <1>8, <1>10, ReadSame

(* There is a ring.                                                        *)
LEMMA SomeRing ==
    QueueTypes => \E n \in Nat \ {0} : n = Len(rings) /\ tail \in 1 .. n /\ head \in 1 .. n
<1>1. QueueTypes => Len(rings) \in Nat /\ tail \in 1 .. Len(rings) /\ head \in 1 .. Len(rings)
  BY TypesAre
<1>2. QueueTypes => Len(rings) # 0
  BY <1>1
<1>3. QED BY <1>1, <1>2

(* One producer links a ring at a time.                                    *)
LEMMA OneGrows ==
    ASSUME QueueTypes, NEW p \in Joining
    PROVE  Joining = {p}
  BY DEF QueueTypes, QueueLock, Growing, Joining

(* The steps by which a full ring is replaced.                             *)
LEMMA GrowLinked ==
    ASSUME QueueTypes, QueueTypes', QueueLinked, QueueRead, NEW p \in Producer, Queue!Grow(p), ~newChain, ~raced'
    PROVE  QueueLinked' /\ QueueRead' /\ push[p].ring = Len(rings) /\ head = Len(rings) /\ Making = {}
<1>1. PICK n \in Nat \ {0} : n = Len(rings) /\ tail \in 1 .. n
  BY SomeRing
<1>2. PICK x : x = [push[p] EXCEPT !.pc = "newhead", !.slot = n + 1]
  OBVIOUS
<1>3. /\ Growing = {}
      /\ Len(rings') = n + 1
      /\ \A d \in 1 .. n : rings'[d] = rings[d]
      /\ rings'[n + 1].next = 0
      /\ rings'[n + 1].slots = <<Queue!Current(p)>>
      /\ push' = [push EXCEPT ![p] = x]
      /\ push[p].ring = head
  BY <1>1, <1>2, GrowIs
<1>4. x.pc = "newhead" /\ x.slot = n + 1 /\ x.ring = push[p].ring /\ x.done = push[p].done
  <2>1. push[p] \in [pc : Queue!PushPC, ring : Nat, slot : Nat, done : 0 .. Items]
    BY TypesAre
  <2>2. QED BY <1>2, <2>1
<1>5. \A q \in Producer : push'[q] = IF q = p THEN x ELSE push[q]
  BY <1>3, TypesAre
<1>6. Making = {} /\ Joining = {}
  BY <1>3 DEF Growing, Making, Joining
<1>7. head = n
  BY <1>1, <1>6 DEF QueueLinked
<1>8. Making' = {p} /\ Joining' = {p}
  BY <1>4, <1>5, <1>6 DEF Making, Joining
<1>9. UNCHANGED <<head, tail, pop>>
  BY DEF Queue!Grow, Queue!Chain
<1>10. QueueLinked'
  <2>1. Queue!Current(p)' = Queue!Current(p)
    BY <1>4, <1>5 DEF Queue!Current
  <2>2. \A q \in Making' : head' = (n + 1) - 1 /\ rings'[n + 1].slots = <<Queue!Current(q)'>>
    BY <1>3, <1>7, <1>8, <1>9, <2>1
  <2>3. rings[n].next = 0 /\ rings'[n].next = 0
    BY <1>1, <1>3 DEF QueueLinked
  <2>4. \A q \in Joining' : push'[q].ring = (n + 1) - 1 /\ push'[q].slot = n + 1 /\ rings'[(n + 1) - 1].next = 0
    BY <1>3, <1>4, <1>5, <1>7, <1>8, <2>3
  <2>5. \A d \in 1 .. (n + 1) - 1 : d < (n + 1) - 1 \/ Joining' = {} => rings'[d].next = d + 1
    <3>1. \A d \in 1 .. n - 1 : rings[d].next = d + 1
      BY <1>1, <1>6 DEF QueueLinked
    <3>2. SUFFICES ASSUME NEW d \in 1 .. n - 1 PROVE rings'[d].next = d + 1
      BY <1>8
    <3>3. QED BY <1>3, <3>1
  <2>6. \A q \in Producer : push'[q].pc \in {"reserve", "store", "grow"} => push'[q].ring <= head'
    BY <1>4, <1>5, <1>9 DEF QueueLinked
  <2>7. tail' <= head' /\ Making' # {}
    BY <1>8, <1>9 DEF QueueLinked
  <2>8. QED BY <1>3, <2>2, <2>4, <2>5, <2>6, <2>7 DEF QueueLinked
<1>11. QueueRead'
  BY <1>1, <1>3, <1>9, ReadSame
<1>12. QED BY <1>1, <1>3, <1>6, <1>7, <1>10, <1>11

LEMMA StoreHeadLinked ==
    ASSUME QueueTypes, QueueTypes', QueueLinked, QueueRead, NEW p \in Producer, Queue!StoreHead(p)
    PROVE  QueueLinked' /\ QueueRead'
<1>1. PICK n \in Nat \ {0} : n = Len(rings) /\ tail \in 1 .. n
  BY SomeRing
<1>2. push[p].pc = "newhead" /\ p \in Making /\ p \in Joining
  BY DEF Queue!StoreHead, Making, Joining
<1>3. /\ UNCHANGED <<rings, tail, pop>> /\ head' = push[p].slot
      /\ \A q \in Producer : push'[q] = IF q = p THEN [push[q] EXCEPT !.pc = "newnext"] ELSE push[q]
  BY TypesAre DEF Queue!StoreHead, Queue!Goes, Queue!Chain
<1>4. push'[p].pc = "newnext" /\ push'[p].ring = push[p].ring /\ push'[p].slot = push[p].slot
  BY <1>3, TypesAre
<1>5. Joining = {p} /\ Joining' = {p} /\ Making' = {}
  <2>1. Joining = {p}
    BY <1>2, OneGrows
  <2>2. \A q \in Producer : q # p => push[q].pc \notin {"newhead", "newnext"} /\ push'[q] = push[q]
    BY <1>3, <2>1 DEF Joining
  <2>3. QED BY <1>4, <2>1, <2>2 DEF Making, Joining
<1>6. head = n - 1 /\ push[p].slot = n /\ push[p].ring = n - 1 /\ rings[n - 1].next = 0 /\ head' = n
  BY <1>1, <1>2, <1>3 DEF QueueLinked
<1>7. QueueLinked'
  <2>1. \A q \in Joining' : push'[q].ring = n - 1 /\ push'[q].slot = n /\ rings'[n - 1].next = 0
    BY <1>3, <1>4, <1>5, <1>6
  <2>2. rings'[n].next = 0 /\ \A d \in 1 .. n - 1 : d < n - 1 \/ Joining' = {} => rings'[d].next = d + 1
    BY <1>1, <1>3, <1>5 DEF QueueLinked
  <2>3. \A q \in Producer : push'[q].pc \in {"reserve", "store", "grow"} => push'[q].ring <= head'
    <3>1. SUFFICES ASSUME NEW q \in Producer, push'[q].pc \in {"reserve", "store", "grow"} PROVE push'[q].ring <= n
      BY <1>6
    <3>2. push'[q] = push[q]
      BY <1>3, <1>4, <3>1
    <3>3. push[q].ring \in Nat /\ push[q].ring <= n - 1
      BY <1>6, <3>1, <3>2, TypesAre DEF QueueLinked
    <3>4. QED BY <3>2, <3>3
  <2>4. tail' <= head' /\ head' = n
    BY <1>1, <1>3, <1>6
  <2>5. QED BY <1>1, <1>3, <1>5, <2>1, <2>2, <2>3, <2>4 DEF QueueLinked
<1>8. QueueRead'
  BY <1>3, ReadSame
<1>9. QED BY <1>7, <1>8

LEMMA StoreNextLinked ==
    ASSUME QueueTypes, QueueTypes', QueueLinked, QueueRead, NEW p \in Producer, Queue!StoreNext(p)
    PROVE  QueueLinked' /\ QueueRead'
<1>1. PICK n \in Nat \ {0} : n = Len(rings) /\ tail \in 1 .. n
  BY SomeRing
<1>2. push[p].pc = "newnext" /\ p \in Joining /\ UNCHANGED <<head, tail, pop>>
  BY DEF Queue!StoreNext, Joining, Queue!Chain
<1>3. PICK r, x : /\ r = [rings[push[p].ring] EXCEPT !.next = push[p].slot] /\ x = [push[p] EXCEPT !.pc = "grown"]
                  /\ Replaces(push[p].ring, r) /\ push' = [push EXCEPT ![p] = x]
  BY StoreNextIs
<1>4. push[p].ring = n - 1 /\ push[p].slot = n /\ rings[n - 1].next = 0 /\ Joining = {p}
  BY <1>1, <1>2, OneGrows DEF QueueLinked
<1>5. n - 1 \in 1 .. n /\ Len(rings') = n /\ rings'[n - 1] = r /\ \A e \in 1 .. n : e # n - 1 => rings'[e] = rings[e]
  BY <1>1, <1>3, <1>4, ReplacedIs DEF Replaces
<1>6. r.next = n /\ r.slots = rings[n - 1].slots
  <2>1. rings[n - 1] \in Ring
    BY <1>1, <1>5, Slots
  <2>2. QED BY <1>3, <1>4, <2>1, RingFields
<1>7. x.pc = "grown"
  BY <1>3, TypesAre
<1>8. \A q \in Producer : push'[q] = IF q = p THEN x ELSE push[q]
  BY <1>3, TypesAre
<1>9. Joining' = {} /\ Making' = {} /\ Making = {}
  BY <1>2, <1>4, <1>7, <1>8 DEF Making, Joining
<1>10. QueueLinked'
  <2>1. \A d \in 1 .. n - 1 : rings'[d].next = d + 1
    <3>1. \A d \in 1 .. n - 1 : d < n - 1 => rings[d].next = d + 1
      BY <1>1 DEF QueueLinked
    <3>2. SUFFICES ASSUME NEW d \in 1 .. n - 1 PROVE rings'[d].next = d + 1
      OBVIOUS
    <3>3. CASE d = n - 1
      BY <1>5, <1>6, <3>3
    <3>4. CASE d < n - 1
      BY <1>5, <3>1, <3>4
    <3>5. QED BY <3>3, <3>4
  <2>2. rings'[n].next = 0
    BY <1>1, <1>5 DEF QueueLinked
  <2>3. \A q \in Producer : push'[q].pc \in {"reserve", "store", "grow"} => push'[q].ring <= head'
    BY <1>2, <1>7, <1>8 DEF QueueLinked
  <2>4. tail' <= head' /\ head' = n
    BY <1>1, <1>2, <1>9 DEF QueueLinked
  <2>5. QED BY <1>5, <1>9, <2>1, <2>2, <2>3, <2>4 DEF QueueLinked
<1>11. \A d \in 1 .. tail - 1 : rings'[d].slots = rings[d].slots
  BY <1>1, <1>5, <1>6
<1>12. rings'[tail].next = rings[tail].next \/ rings[tail].next = 0
  BY <1>1, <1>4, <1>5
<1>13. QED BY <1>2, <1>10, <1>11, <1>12, ReadSame

(* The consumer.                                                           *)
LEMMA ConsumerLinked ==
    ASSUME QueueTypes, QueueTypes', QueueLinked, QueueRead, Queue!LoadTail \/ Queue!LoadNext \/ Queue!PopSlot \/ Queue!Empty
    PROVE  QueueLinked' /\ QueueRead'
<1>1. UNCHANGED <<rings, head, tail, push>>
  BY DEF Queue!LoadTail, Queue!LoadNext, Queue!PopSlot, Queue!Empty, Queue!Same
<1>2. QueueLinked'
  BY <1>1 DEF QueueLinked, Making, Joining, Queue!Current
<1>3. /\ pop'.pc \in {"next", "ring", "taken"} => pop'.ring = tail
      /\ pop'.pc = "ring" /\ pop'.next # 0 => pop'.next = rings[tail].next
  <2>1. CASE Queue!LoadTail
    <3>1. pop' = [pop EXCEPT !.pc = "next", !.ring = tail]
      BY <2>1 DEF Queue!LoadTail
    <3>2. QED BY <3>1, TypesAre
  <2>2. CASE Queue!LoadNext
    <3>1. pop' = [pop EXCEPT !.pc = "ring", !.next = rings[pop.ring].next] /\ pop.pc = "next"
      BY <2>2 DEF Queue!LoadNext
    <3>2. pop'.ring = pop.ring /\ pop'.next = rings[pop.ring].next /\ pop.ring = tail
      BY <3>1, TypesAre DEF QueueRead
    <3>3. QED BY <3>2
  <2>3. CASE Queue!PopSlot
    BY <2>3, TypesAre DEF Queue!PopSlot, QueueRead
  <2>4. CASE Queue!Empty
    BY <2>4, TypesAre DEF Queue!Empty
  <2>5. QED BY <2>1, <2>2, <2>3, <2>4
<1>4. QueueRead'
  BY <1>1, <1>3 DEF QueueRead
<1>5. QED BY <1>2, <1>4

(* The steps by which a ring is emptied and dropped.                       *)
LEMMA MoveTailLinked ==
    ASSUME QueueTypes, QueueTypes', QueueLinked, QueueRead, Queue!MoveTail
    PROVE  QueueLinked' /\ QueueRead' /\ pop.ring = tail
<1>1. PICK n \in Nat \ {0} : n = Len(rings) /\ tail \in 1 .. n
  BY SomeRing
<1>2. /\ UNCHANGED <<head, tail, push>> /\ pop' = [pop EXCEPT !.pc = "start"] /\ pop.ring = tail
  BY DEF Queue!MoveTail, Queue!Same, QueueRead
<1>3. PICK r : Replaces(tail, r) /\ r = [rings[tail] EXCEPT !.tail = rings[tail].tail + 1, !.slots = Tail(rings[tail].slots)]
  BY <1>2, MoveTailIs
<1>4. r.next = rings[tail].next
  <2>1. rings[tail] \in Ring
    BY <1>1, Slots
  <2>2. QED BY <1>3, <2>1, RingFields
<1>5. Len(rings') = n /\ rings'[tail] = r /\ \A e \in 1 .. n : e # tail => rings'[e] = rings[e]
  BY <1>1, <1>3, ReplacedIs
<1>6. \A e \in 1 .. n : rings'[e].next = rings[e].next
  BY <1>4, <1>5
<1>7. Making # {} => rings'[n].slots = rings[n].slots
  <2>1. Making # {} => tail <= n - 1
    BY <1>1 DEF QueueLinked
  <2>2. QED BY <1>1, <1>5, <2>1
<1>8. Making' = Making /\ Joining' = Joining /\ \A q \in Producer : push'[q] = push[q]
  BY <1>2 DEF Making, Joining
<1>9. \A q \in Producer : push'[q].pc \in {"reserve", "store", "grow"} => push'[q].ring <= head
  BY <1>8 DEF QueueLinked
<1>10. QueueLinked'
  <2>1. \A q \in Joining : push'[q] = push[q]
    BY <1>8 DEF Joining
  <2>2. QED BY <1>1, <1>2, <1>5, <1>6, <1>7, <1>8, <1>9, <2>1, LinkedSame
<1>11. \A d \in 1 .. tail - 1 : rings'[d].slots = rings[d].slots
  BY <1>1, <1>5
<1>12. pop'.pc = "start"
  BY <1>2, TypesAre
<1>13. QED BY <1>1, <1>2, <1>6, <1>10, <1>11, <1>12, ReadSame

LEMMA DropRingLinked ==
    ASSUME QueueTypes, QueueTypes', QueueLinked, QueueRead, Queue!DropRing
    PROVE  QueueLinked' /\ QueueRead' /\ tail' = tail + 1 /\ rings[tail].slots = <<>>
<1>1. PICK n \in Nat \ {0} : n = Len(rings) /\ tail \in 1 .. n /\ head \in 1 .. n
  BY SomeRing
<1>2. /\ UNCHANGED <<rings, head, push>> /\ tail' = pop.next /\ pop.next # 0 /\ pop.ring = tail
      /\ pop.next = rings[tail].next /\ rings[tail].slots = <<>>
      /\ pop' = [pop EXCEPT !.pc = "next", !.ring = tail']
  BY DEF Queue!DropRing, Queue!Same, QueueRead
<1>3. tail < n
  BY <1>1, <1>2 DEF QueueLinked
<1>4. tail < n - 1 \/ Joining = {}
  BY <1>1, <1>2, <1>3 DEF QueueLinked
<1>5. rings[tail].next = tail + 1
  <2>1. tail \in 1 .. n - 1
    BY <1>1, <1>3
  <2>2. QED BY <1>1, <1>4, <2>1 DEF QueueLinked
<1>6. tail + 1 <= head
  <2>1. Making \subseteq Joining
    BY DEF Making, Joining
  <2>2. Making = {} => head = n
    BY <1>1 DEF QueueLinked
  <2>3. Making # {} => head = n - 1 /\ tail < n - 1
    BY <1>1, <1>4, <2>1 DEF QueueLinked
  <2>4. QED BY <1>1, <1>3, <2>2, <2>3
<1>7. QueueLinked'
  BY <1>2, <1>5, <1>6 DEF QueueLinked, Making, Joining, Queue!Current
<1>8. QueueRead'
  <2>1. \A d \in 1 .. tail' - 1 : rings'[d].slots = <<>>
    BY <1>1, <1>2, <1>5 DEF QueueRead
  <2>2. pop'.pc = "next" /\ pop'.ring = tail'
    BY <1>2, TypesAre
  <2>3. QED BY <2>1, <2>2 DEF QueueRead
<1>9. QED BY <1>2, <1>5, <1>7, <1>8

(* What was popped and what is in the chain: <<ring, slot, producer,       *)
(* number>>, ring 0 for what was popped, slots numbered since the ring was *)
(* made.                                                                   *)
Entry == Nat \X Nat \X Producer \X (1 .. Items)
Inside(k, a, t, f, v) == k \in a + f .. a + Len(t) /\ t[k - a] = v
Log ==
    {x \in Entry :
        \/ x[1] = 0 /\ x[2] \in 1 .. Len(popped) /\ popped[x[2]] = <<x[3], x[4]>>
        \/ /\ x[1] \in tail .. Len(rings)
           /\ Inside(x[2], rings[x[1]].tail, rings[x[1]].slots,
                     IF pop.pc = "taken" /\ pop.ring = x[1] THEN 2 ELSE 1, <<x[3], x[4]>>)}
Counts == [p \in Producer |-> Queue!Stored(p)]

(* Each producer's elements are there up to the last it stored, each once  *)
(* and in order.                                                           *)
Complete(L, c) == \A p \in Producer, i \in 1 .. Items : (\E x \in L : x[3] = p /\ x[4] = i) <=> i <= c[p]
Ordered(L)     == \A x, y \in L : x[3] = y[3] => (Queue!Before(x, y) <=> x[4] < y[4])
Ahead(L, p, y) == \A x \in L : x[3] = p => Queue!Before(x, y)

(* The parts of an entry.                                                  *)
LEMMA EntryIs ==
    ASSUME NEW x \in Entry
    PROVE  x[1] \in Nat /\ x[2] \in Nat /\ x[3] \in Producer /\ x[4] \in 1 .. Items /\ x[4] \in Nat
           /\ x = <<x[1], x[2], x[3], x[4]>>
  BY DEF Entry

(* An element is stored behind those of its producer.                      *)
LEMMA Adding ==
    ASSUME NEW L \in SUBSET Entry, NEW c \in [Producer -> Nat], Complete(L, c), Ordered(L),
           NEW y \in Entry, y[4] = c[y[3]] + 1, Ahead(L, y[3], y)
    PROVE  Complete(L \cup {y}, [c EXCEPT ![y[3]] = c[y[3]] + 1]) /\ Ordered(L \cup {y})
<1>1. PICK p \in Producer, m \in Nat : p = y[3] /\ m = c[p] /\ y[4] = m + 1 /\ m + 1 \in 1 .. Items
  BY EntryIs
<1>2. Complete(L \cup {y}, [c EXCEPT ![y[3]] = c[y[3]] + 1])
  <2>1. PICK f : f = [c EXCEPT ![p] = m + 1] /\ f = [c EXCEPT ![y[3]] = c[y[3]] + 1]
    BY <1>1
  <2>2. \A q \in Producer : f[q] = IF q = p THEN m + 1 ELSE c[q]
    BY <2>1
  <2>3. SUFFICES ASSUME NEW q \in Producer, NEW i \in 1 .. Items
                 PROVE  (\E x \in L \cup {y} : x[3] = q /\ x[4] = i) <=> i <= f[q]
    BY <2>1 DEF Complete
  <2>4. (\E x \in L : x[3] = q /\ x[4] = i) <=> i <= c[q]
    BY DEF Complete
  <2>5. CASE q = p
    <3>1. i <= m + 1 <=> i <= m \/ i = m + 1
      OBVIOUS
    <3>2. QED BY <1>1, <2>2, <2>4, <2>5, <3>1
  <2>6. CASE q # p
    BY <1>1, <2>2, <2>4, <2>6
  <2>7. QED BY <2>5, <2>6
<1>3. Ordered(L \cup {y})
  <2>1. \A x \in L : x[3] = y[3] => x[4] <= m /\ Queue!Before(x, y)
    <3>1. SUFFICES ASSUME NEW x \in L, x[3] = y[3] PROVE x[4] <= m /\ Queue!Before(x, y)
      OBVIOUS
    <3>2. x[4] \in 1 .. Items /\ x[3] = p
      BY <1>1, <3>1, EntryIs
    <3>3. x[4] <= c[p]
      BY <3>2 DEF Complete
    <3>4. QED BY <1>1, <3>1, <3>3 DEF Ahead
  <2>2. \A x \in L : x[3] = y[3] => x[4] < y[4] /\ ~(y[4] < x[4])
    <3>1. \A x \in L : x[4] \in Nat
      BY EntryIs
    <3>2. QED BY <1>1, <2>1, <3>1
  <2>3. \A x \in L : Queue!Before(x, y) => ~Queue!Before(y, x)
    BY EntryIs DEF Queue!Before
  <2>4. ~Queue!Before(y, y) /\ ~(y[4] < y[4])
    BY EntryIs DEF Queue!Before
  <2>5. SUFFICES ASSUME NEW a \in L \cup {y}, NEW b \in L \cup {y}, a[3] = b[3]
                 PROVE  Queue!Before(a, b) <=> a[4] < b[4]
    BY DEF Ordered
  <2>6. CASE a \in L /\ b \in L
    BY <2>5, <2>6 DEF Ordered
  <2>7. CASE a \in L /\ b = y
    BY <2>1, <2>2, <2>5, <2>7
  <2>8. CASE a = y /\ b \in L
    BY <2>1, <2>2, <2>3, <2>5, <2>8
  <2>9. CASE a = y /\ b = y
    BY <2>4, <2>9
  <2>10. QED BY <2>6, <2>7, <2>8, <2>9
<1>4. QED BY <1>2, <1>3

(* An element moves without passing another.                               *)
LEMMA Moving ==
    ASSUME NEW L \in SUBSET Entry, NEW c, Complete(L, c), Ordered(L),
           NEW x \in L, NEW y \in Entry, x[3] = y[3], x[4] = y[4],
           \A z \in L \ {x} : (Queue!Before(z, y) <=> Queue!Before(z, x)) /\ (Queue!Before(y, z) <=> Queue!Before(x, z))
    PROVE  Complete((L \ {x}) \cup {y}, c) /\ Ordered((L \ {x}) \cup {y})
<1>1. Complete((L \ {x}) \cup {y}, c)
  <2>1. ASSUME NEW q, NEW i
        PROVE  (\E z \in L : z[3] = q /\ z[4] = i) <=> (\E z \in (L \ {x}) \cup {y} : z[3] = q /\ z[4] = i)
    OBVIOUS
  <2>2. QED BY <2>1 DEF Complete
<1>2. Ordered((L \ {x}) \cup {y})
  <2>1. ~Queue!Before(y, y) /\ ~(y[4] < y[4])
    BY EntryIs DEF Queue!Before
  <2>2. SUFFICES ASSUME NEW a \in (L \ {x}) \cup {y}, NEW b \in (L \ {x}) \cup {y}, a[3] = b[3]
                 PROVE  Queue!Before(a, b) <=> a[4] < b[4]
    BY DEF Ordered
  <2>3. CASE a \in L \ {x} /\ b \in L \ {x}
    BY <2>2, <2>3 DEF Ordered
  <2>4. CASE a \in L \ {x} /\ b = y
    <3>1. Queue!Before(a, x) <=> a[4] < x[4]
      BY <2>2, <2>4 DEF Ordered
    <3>2. QED BY <2>4, <3>1
  <2>5. CASE a = y /\ b \in L \ {x}
    <3>1. Queue!Before(x, b) <=> x[4] < b[4]
      BY <2>2, <2>5 DEF Ordered
    <3>2. QED BY <2>5, <3>1
  <2>6. CASE a = y /\ b = y
    BY <2>1, <2>6
  <2>7. QED BY <2>3, <2>4, <2>5, <2>6
<1>3. QED BY <1>1, <1>2

(* What a ring holds from its f-th slot on, when it changes.               *)
LEMMA InsideMore ==
    ASSUME NEW S, NEW t \in Seq(S), NEW e \in S, NEW a \in Nat, NEW f \in {1, 2}, NEW k \in Nat, NEW v, v # e,
           Len(t) + 1 >= f
    PROVE  Inside(k, a, Append(t, e), f, v) <=> Inside(k, a, t, f, v)
<1>1. PICK n \in Nat : n = Len(t)
  OBVIOUS
<1>2. PICK u : u = Append(t, e)
  OBVIOUS
<1>3. Len(u) = n + 1 /\ u[n + 1] = e /\ \A i \in 1 .. n : u[i] = t[i]
  BY <1>1, <1>2
<1>4. k \in a + f .. a + (n + 1) <=> k \in a + f .. a + n \/ (k = a + n + 1)
  BY <1>1
<1>5. k = a + n + 1 => u[k - a] = e
  BY <1>3
<1>6. k \in a + f .. a + n => k - a \in 1 .. n
  OBVIOUS
<1>7. QED BY <1>1, <1>2, <1>3, <1>4, <1>5, <1>6 DEF Inside

Fillable(t, e, a, f, k, v, j) ==
    /\ t \in Seq(Queue!Element \cup {Queue!Nil}) /\ e \in Queue!Element \cup {Queue!Nil} /\ a \in Nat /\ f \in {1, 2} /\ k \in Nat
    /\ j \in 1 .. Len(t) /\ j >= f /\ t[j] # v

(* What the slots of a ring hold when one is filled, ...                   *)
LEMMA InsideFilled ==
    ASSUME NEW t, NEW e, NEW a, NEW f, NEW k, NEW v, NEW j, Fillable(t, e, a, f, k, v, j)
    PROVE  Inside(k, a, [t EXCEPT ![j] = e], f, v) <=> Inside(k, a, t, f, v) \/ (k = a + j /\ v = e)
<1>0. /\ t \in Seq(Queue!Element \cup {Queue!Nil}) /\ e \in Queue!Element \cup {Queue!Nil} /\ a \in Nat /\ f \in {1, 2} /\ k \in Nat
      /\ j \in 1 .. Len(t) /\ j >= f /\ t[j] # v
  BY DEF Fillable
<1>1. PICK n \in Nat : n = Len(t)
  BY <1>0, LenProperties
<1>2. PICK u : u = [t EXCEPT ![j] = e]
  OBVIOUS
<1>3. Len(u) = n /\ u[j] = e /\ \A i \in 1 .. n : i # j => u[i] = t[i]
  BY <1>0, <1>1, <1>2, ExceptSeq
<1>4. k \in a + f .. a + n => k - a \in 1 .. n
  BY <1>0, <1>1
<1>5. k = a + j => k \in a + f .. a + n /\ k - a = j
  BY <1>0, <1>1
<1>6. k - a = j => k = a + j
  BY <1>0
<1>7. QED BY <1>0, <1>1, <1>2, <1>3, <1>4, <1>5, <1>6 DEF Inside

(* ... when one that was taken is given back, ...                          *)
LEMMA InsideMoved ==
    ASSUME NEW S, NEW t \in Seq(S), t # <<>>, NEW a \in Nat, NEW k \in Nat, NEW v
    PROVE  Inside(k, a + 1, Tail(t), 1, v) <=> Inside(k, a, t, 2, v)
<1>1. PICK n \in Nat \ {0} : n = Len(t)
  BY EmptySeq
<1>2. PICK u : u = Tail(t)
  OBVIOUS
<1>3. Len(u) = n - 1 /\ \A i \in 1 .. n - 1 : u[i] = t[i + 1]
  BY <1>1, <1>2, HeadTailProperties
<1>4. k \in (a + 1) + 1 .. (a + 1) + (n - 1) <=> k \in a + 2 .. a + n
  BY <1>1
<1>5. k \in a + 2 .. a + n => k - (a + 1) \in 1 .. n - 1 /\ (k - (a + 1)) + 1 = k - a
  BY <1>1
<1>6. QED BY <1>1, <1>2, <1>3, <1>4, <1>5 DEF Inside

(* ... when one is taken, ...                                              *)
LEMMA InsideTaken ==
    ASSUME NEW S, NEW t \in Seq(S), t # <<>>, NEW a \in Nat, NEW k \in Nat, NEW v
    PROVE  Inside(k, a, t, 1, v) <=> Inside(k, a, t, 2, v) \/ (k = a + 1 /\ v = t[1])
<1>1. PICK n \in Nat \ {0} : n = Len(t)
  BY EmptySeq
<1>2. k \in a + 1 .. a + n <=> k \in a + 2 .. a + n \/ k = a + 1
  BY <1>1
<1>3. k = a + 1 => k - a = 1
  OBVIOUS
<1>4. QED BY <1>1, <1>2, <1>3 DEF Inside

(* ... when there are none, ...                                            *)
LEMMA InsideNone ==
    ASSUME NEW a \in Nat, NEW f \in {1, 2}, NEW k, NEW v
    PROVE  ~Inside(k, a, <<>>, f, v)
  BY DEF Inside

(* ... and when there is one.                                              *)
LEMMA InsideOne ==
    ASSUME NEW e, NEW k \in Nat, NEW v
    PROVE  Inside(k, 0, <<e>>, 1, v) <=> k = 1 /\ v = e
<1>1. PICK u : u = <<e>>
  OBVIOUS
<1>2. Len(u) = 1 /\ u[1] = e
  BY <1>1
<1>3. k \in 0 + 1 .. 0 + 1 <=> k = 1
  OBVIOUS
<1>4. QED BY <1>1, <1>2, <1>3 DEF Inside

(* What is in the log before and after a step.                             *)
LEMMA LogIs ==
    ASSUME NEW x \in Entry
    PROVE  /\ x \in Log <=>
                 \/ x[1] = 0 /\ x[2] \in 1 .. Len(popped) /\ popped[x[2]] = <<x[3], x[4]>>
                 \/ /\ x[1] \in tail .. Len(rings)
                    /\ Inside(x[2], rings[x[1]].tail, rings[x[1]].slots,
                              IF pop.pc = "taken" /\ pop.ring = x[1] THEN 2 ELSE 1, <<x[3], x[4]>>)
           /\ x \in Log' <=>
                 \/ x[1] = 0 /\ x[2] \in 1 .. Len(popped') /\ popped'[x[2]] = <<x[3], x[4]>>
                 \/ /\ x[1] \in tail' .. Len(rings')
                    /\ Inside(x[2], rings'[x[1]].tail, rings'[x[1]].slots,
                              IF pop'.pc = "taken" /\ pop'.ring = x[1] THEN 2 ELSE 1, <<x[3], x[4]>>)
  BY Zenon DEF Log

(* A step after which every ring holds the same.                           *)
LEMMA LogStill ==
    ASSUME QueueTypes, popped' = popped, tail' = tail, Len(rings') = Len(rings),
           \A d \in tail .. Len(rings) : rings'[d].slots = rings[d].slots /\ rings'[d].tail = rings[d].tail,
           pop'.pc = "taken" <=> pop.pc = "taken", pop.pc = "taken" => pop'.ring = pop.ring
    PROVE  Log' = Log
<1>1. SUFFICES ASSUME NEW x \in Entry PROVE x \in Log' <=> x \in Log
  BY DEF Log
<1>2. CASE x[1] \in tail .. Len(rings)
  BY <1>2, LogIs
<1>3. CASE x[1] \notin tail .. Len(rings)
  BY <1>3, LogIs
<1>4. QED BY <1>2, <1>3

(* What each step does to the log.                                         *)
LEMMA ReserveLog ==
    ASSUME QueueTypes, NEW p \in Producer, Queue!Reserve(p), rings' # rings
    PROVE  Log' = Log
<1>1. PICK d, a, t, r :
         /\ d \in 1 .. Len(rings) /\ a \in Nat /\ t \in Seq(Queue!Element \cup {Queue!Nil})
         /\ d = push[p].ring /\ a = rings[d].tail /\ t = rings[d].slots /\ rings[d] \in Ring
         /\ r = [rings[d] EXCEPT !.slots = Append(t, Queue!Nil)] /\ Replaces(d, r)
  <2>1. push[p].ring \in 1 .. Len(rings)
    BY TypesAre DEF Queue!Reserve, QueueTypes, QueueRefs
  <2>2. Replaces(push[p].ring, [rings[push[p].ring] EXCEPT !.slots = Append(rings[push[p].ring].slots, Queue!Nil)])
    BY ReserveIs
  <2>3. QED BY <2>1, <2>2, Slots
<1>2. r.slots = Append(t, Queue!Nil) /\ r.tail = a
  BY <1>1 DEF Ring
<1>3. Len(rings') = Len(rings) /\ rings'[d] = r /\ \A e \in 1 .. Len(rings) : e # d => rings'[e] = rings[e]
  BY <1>1, ReplacedIs
<1>4. UNCHANGED <<tail, pop, popped>> /\ tail \in 1 .. Len(rings)
  BY TypesAre DEF Queue!Reserve, Queue!Chain
<1>5. SUFFICES ASSUME NEW x \in Entry PROVE x \in Log' <=> x \in Log
  BY DEF Log
<1>6. CASE x[1] = d
  <2>1. PICK f \in {1, 2} : f = IF pop.pc = "taken" /\ pop.ring = x[1] THEN 2 ELSE 1
    OBVIOUS
  <2>2. Len(t) + 1 >= f
    <3>1. pop.pc = "taken" /\ pop.ring = d => t # <<>>
      BY <1>1 DEF QueueTypes, Reserved
    <3>2. Len(t) \in Nat /\ (t # <<>> => Len(t) >= 1)
      BY EmptySeq
    <3>3. QED BY <1>6, <2>1, <3>1, <3>2
  <2>3. PICK v : v = <<x[3], x[4]>> /\ v # Queue!Nil
    <3>1. <<x[3], x[4]>> # Queue!Nil
      BY NilIsNone
    <3>2. QED BY <3>1
  <2>4. x[2] \in Nat /\ Queue!Nil \in Queue!Element \cup {Queue!Nil}
    BY EntryIs
  <2>5. Inside(x[2], a, Append(t, Queue!Nil), f, v) <=> Inside(x[2], a, t, f, v)
    BY <1>1, <2>2, <2>3, <2>4, InsideMore
  <2>6. x \in Log' <=> (x[1] = 0 /\ x[2] \in 1 .. Len(popped) /\ popped[x[2]] = v)
                         \/ (x[1] \in tail .. Len(rings) /\ Inside(x[2], a, Append(t, Queue!Nil), f, v))
    BY <1>2, <1>3, <1>4, <1>6, <2>1, <2>3, LogIs
  <2>7. x \in Log <=> (x[1] = 0 /\ x[2] \in 1 .. Len(popped) /\ popped[x[2]] = v)
                         \/ (x[1] \in tail .. Len(rings) /\ Inside(x[2], a, t, f, v))
    BY <1>1, <1>6, <2>1, <2>3, LogIs
  <2>8. QED BY <2>5, <2>6, <2>7
<1>7. CASE x[1] # d
  <2>1. x[1] \in tail .. Len(rings) => rings'[x[1]] = rings[x[1]]
    BY <1>3, <1>4, <1>7
  <2>2. QED BY <1>3, <1>4, <2>1, LogIs
<1>8. QED BY <1>6, <1>7

(* Store adds an entry, ...                                                *)
LEMMA StoreLog ==
    ASSUME QueueTypes, QueueRead, NEW p \in Producer, Queue!Store(p)
    PROVE  /\ <<push[p].ring, push[p].slot, p, push[p].done + 1>> \in Entry
           /\ Log' = Log \cup {<<push[p].ring, push[p].slot, p, push[p].done + 1>>}
<1>0. push[p].pc = "store" /\ UNCHANGED <<tail, pop, popped>> /\ tail \in 1 .. Len(rings)
      /\ push[p].ring \in 1 .. Len(rings)
  BY TypesAre DEF Queue!Store, Queue!Chain, QueueTypes, QueueRefs
<1>1. PICK d, a, t, k :
         /\ d \in 1 .. Len(rings) /\ a \in Nat /\ t \in Seq(Queue!Element \cup {Queue!Nil})
         /\ d = push[p].ring /\ a = rings[d].tail /\ t = rings[d].slots /\ rings[d] \in Ring
         /\ k = push[p].slot - a
  BY <1>0, Slots
<1>2. PICK e \in Queue!Element : e = Queue!Current(p) /\ e = <<p, push[p].done + 1>> /\ e # Queue!Nil /\ push[p].done + 1 \in 1 .. Items
  BY <1>0, CurrentIs
<1>3. PICK r : /\ r = [rings[d] EXCEPT !.slots = [t EXCEPT ![k] = e]] /\ Replaces(d, r)
               /\ k \in 1 .. Len(t) /\ t[k] = Queue!Nil /\ push[p].slot = a + k
  BY <1>1, <1>2, StoreIs
<1>4. r.slots = [t EXCEPT ![k] = e] /\ r.tail = a
  BY <1>1, <1>3, RingFields
<1>5. Len(rings') = Len(rings) /\ rings'[d] = r /\ \A g \in 1 .. Len(rings) : g # d => rings'[g] = rings[g]
  BY <1>3, ReplacedIs
<1>6. PICK y : y = <<d, a + k, p, push[p].done + 1>> /\ y \in Entry
  <2>1. d \in Nat /\ a + k \in Nat /\ push[p].done + 1 \in 1 .. Items
    <3>1. k \in Nat
      BY <1>3
    <3>2. d \in Nat /\ a + k \in Nat
      BY <1>1, <3>1
    <3>3. QED BY <1>2, <3>2
  <2>2. <<d, a + k, p, push[p].done + 1>> \in Entry
    BY <2>1 DEF Entry
  <2>3. QED BY <2>2
<1>7. d \in tail .. Len(rings)
  <2>1. t # <<>>
    BY <1>3
  <2>2. QED BY <1>0, <1>1, <2>1 DEF QueueRead
<1>8. ASSUME NEW x \in Entry PROVE x \in Log' <=> x \in Log \/ x = y
  <2>1. CASE x[1] = d
    <3>1. PICK f \in {1, 2} : f = IF pop.pc = "taken" /\ pop.ring = x[1] THEN 2 ELSE 1
      OBVIOUS
    <3>2. k >= f
      <4>1. pop.pc = "taken" /\ pop.ring = d => t[1] # Queue!Nil
        BY <1>1 DEF QueueTypes, Reserved
      <4>2. f = 2 => k # 1
        BY <1>3, <2>1, <3>1, <4>1
      <4>3. QED BY <1>3, <4>2
    <3>3. PICK v : v = <<x[3], x[4]>> /\ v # Queue!Nil
      <4>1. <<x[3], x[4]>> # Queue!Nil
        BY NilIsNone
      <4>2. QED BY <4>1
    <3>4. x[2] \in Nat /\ e \in Queue!Element \cup {Queue!Nil} /\ t[k] # v
      BY <1>3, <3>3, EntryIs
    <3>5. Inside(x[2], a, [t EXCEPT ![k] = e], f, v) <=> Inside(x[2], a, t, f, v) \/ (x[2] = a + k /\ v = e)
      <4>1. k \in 1 .. Len(t) /\ k >= f /\ t[k] # v /\ x[2] \in Nat /\ e \in Queue!Element \cup {Queue!Nil}
        BY <1>3, <3>2, <3>4
      <4>2. Fillable(t, e, a, f, x[2], v, k)
        BY <1>1, <4>1 DEF Fillable
      <4>3. QED BY <4>2, InsideFilled
    <3>6. x \in Log' <=> (x[1] = 0 /\ x[2] \in 1 .. Len(popped) /\ popped[x[2]] = v)
                           \/ (x[1] \in tail .. Len(rings) /\ Inside(x[2], a, [t EXCEPT ![k] = e], f, v))
      BY <1>0, <1>4, <1>5, <2>1, <3>1, <3>3, LogIs
    <3>7. x \in Log <=> (x[1] = 0 /\ x[2] \in 1 .. Len(popped) /\ popped[x[2]] = v)
                           \/ (x[1] \in tail .. Len(rings) /\ Inside(x[2], a, t, f, v))
      BY <1>1, <2>1, <3>1, <3>3, LogIs
    <3>8. x = y <=> x[2] = a + k /\ v = e
      <4>1. x = <<x[1], x[2], x[3], x[4]>>
        BY EntryIs
      <4>2. v = e <=> x[3] = p /\ x[4] = push[p].done + 1
        BY <1>2, <3>3
      <4>3. QED BY <1>6, <2>1, <4>1, <4>2
    <3>9. QED BY <1>7, <2>1, <3>5, <3>6, <3>7, <3>8
  <2>2. CASE x[1] # d
    <3>1. x[1] \in tail .. Len(rings) => rings'[x[1]] = rings[x[1]]
      BY <1>0, <1>5, <2>2
    <3>2. x # y
      BY <1>6, <2>2
    <3>3. QED BY <1>0, <1>5, <3>1, <3>2, LogIs
  <2>3. QED BY <2>1, <2>2
<1>9. Log' = Log \cup {y}
  <2>1. Log \subseteq Entry /\ Log' \subseteq Entry
    BY DEF Log
  <2>2. QED BY <1>6, <1>8, <2>1
<1>10. y = <<push[p].ring, push[p].slot, p, push[p].done + 1>>
  BY <1>1, <1>3, <1>6
<1>11. QED BY <1>6, <1>9, <1>10

(* ... and so does Grow, in the ring it makes.                             *)
LEMMA GrowLog ==
    ASSUME QueueTypes, NEW p \in Producer, Queue!Grow(p), ~newChain
    PROVE  /\ <<Len(rings) + 1, 1, p, push[p].done + 1>> \in Entry
           /\ Log' = Log \cup {<<Len(rings) + 1, 1, p, push[p].done + 1>>}
<1>1. PICK n \in Nat \ {0} : n = Len(rings) /\ tail \in 1 .. n
  BY SomeRing
<1>2. push[p].pc = "grow" /\ UNCHANGED <<tail, pop, popped>>
  BY DEF Queue!Grow, Queue!Chain
<1>3. PICK e \in Queue!Element : e = Queue!Current(p) /\ e = <<p, push[p].done + 1>> /\ push[p].done + 1 \in 1 .. Items
  BY <1>2, CurrentIs
<1>4. Len(rings') = n + 1 /\ (\A d \in 1 .. n : rings'[d] = rings[d]) /\ rings'[n + 1].tail = 0 /\ rings'[n + 1].slots = <<e>>
  BY <1>1, <1>3, GrowIs
<1>5. PICK y : y = <<n + 1, 1, p, push[p].done + 1>> /\ y \in Entry
  <2>1. n + 1 \in Nat /\ 1 \in Nat /\ push[p].done + 1 \in 1 .. Items
    BY <1>3
  <2>2. <<n + 1, 1, p, push[p].done + 1>> \in Entry
    BY <2>1 DEF Entry
  <2>3. QED BY <2>2
<1>6. ASSUME NEW x \in Entry PROVE x \in Log' <=> x \in Log \/ x = y
  <2>0. x[1] \in Nat /\ x[2] \in Nat
    BY EntryIs
  <2>1. CASE x[1] = n + 1
    <3>1. ~(pop.pc = "taken" /\ pop.ring = n + 1)
      BY <1>1, TypesAre DEF QueueTypes, QueueRefs
    <3>2. PICK v : v = <<x[3], x[4]>>
      OBVIOUS
    <3>3. x \in Log' <=> Inside(x[2], 0, <<e>>, 1, v)
      <4>1. n + 1 # 0 /\ n + 1 \in tail .. n + 1
        BY <1>1
      <4>2. QED BY <1>2, <1>4, <2>1, <3>1, <3>2, <4>1, LogIs
    <3>4. x \notin Log
      <4>1. n + 1 # 0 /\ n + 1 \notin tail .. n
        BY <1>1
      <4>2. QED BY <1>1, <2>1, <4>1, LogIs
    <3>5. Inside(x[2], 0, <<e>>, 1, v) <=> x[2] = 1 /\ v = e
      BY <2>0, InsideOne
    <3>6. x = y <=> x[2] = 1 /\ v = e
      <4>1. x = <<x[1], x[2], x[3], x[4]>>
        BY EntryIs
      <4>2. v = e <=> x[3] = p /\ x[4] = push[p].done + 1
        BY <1>3, <3>2
      <4>3. QED BY <1>5, <2>1, <4>1, <4>2
    <3>7. QED BY <3>3, <3>4, <3>5, <3>6
  <2>2. CASE x[1] # n + 1
    <3>1. x[1] \in tail .. n + 1 <=> x[1] \in tail .. n
      BY <1>1, <2>0, <2>2
    <3>2. x[1] \in tail .. n => rings'[x[1]] = rings[x[1]]
      BY <1>1, <1>4
    <3>3. x # y
      BY <1>5, <2>2
    <3>4. QED BY <1>1, <1>2, <1>4, <3>1, <3>2, <3>3, LogIs
  <2>3. QED BY <2>1, <2>2
<1>7. Log' = Log \cup {y}
  <2>1. Log \subseteq Entry /\ Log' \subseteq Entry
    BY DEF Log
  <2>2. QED BY <1>5, <1>6, <2>1
<1>8. QED BY <1>1, <1>5, <1>7

(* Giving back a slot and dropping an empty ring leave the log alone.      *)
LEMMA MoveTailLog ==
    ASSUME QueueTypes, Queue!MoveTail
    PROVE  Log' = Log
<1>1. PICK d, a, t, r :
         /\ d \in 1 .. Len(rings) /\ a \in Nat /\ t \in Seq(Queue!Element \cup {Queue!Nil})
         /\ d = pop.ring /\ a = rings[d].tail /\ t = rings[d].slots /\ rings[d] \in Ring /\ t # <<>>
         /\ r = [rings[d] EXCEPT !.tail = a + 1, !.slots = Tail(t)] /\ Replaces(d, r)
  <2>1. pop.ring \in 1 .. Len(rings)
    BY TypesAre DEF Queue!MoveTail, QueueTypes, QueueRefs
  <2>2. QED BY <2>1, MoveTailIs, Slots
<1>2. r.slots = Tail(t) /\ r.tail = a + 1
  BY <1>1, RingFields
<1>3. Len(rings') = Len(rings) /\ rings'[d] = r /\ \A e \in 1 .. Len(rings) : e # d => rings'[e] = rings[e]
  BY <1>1, ReplacedIs
<1>4. UNCHANGED <<tail, popped>> /\ pop.pc = "taken" /\ pop'.pc = "start" /\ tail \in 1 .. Len(rings)
  BY TypesAre DEF Queue!MoveTail
<1>5. SUFFICES ASSUME NEW x \in Entry PROVE x \in Log' <=> x \in Log
  BY DEF Log
<1>6. CASE x[1] = d
  <2>1. PICK v : v = <<x[3], x[4]>>
    OBVIOUS
  <2>2. Inside(x[2], a + 1, Tail(t), 1, v) <=> Inside(x[2], a, t, 2, v)
    BY <1>1, EntryIs, InsideMoved
  <2>3. x \in Log' <=> (x[1] = 0 /\ x[2] \in 1 .. Len(popped) /\ popped[x[2]] = v)
                         \/ (x[1] \in tail .. Len(rings) /\ Inside(x[2], a + 1, Tail(t), 1, v))
    BY <1>2, <1>3, <1>4, <1>6, <2>1, LogIs
  <2>4. x \in Log <=> (x[1] = 0 /\ x[2] \in 1 .. Len(popped) /\ popped[x[2]] = v)
                         \/ (x[1] \in tail .. Len(rings) /\ Inside(x[2], a, t, 2, v))
    BY <1>1, <1>4, <1>6, <2>1, LogIs
  <2>5. QED BY <2>2, <2>3, <2>4
<1>7. CASE x[1] # d
  <2>1. x[1] \in tail .. Len(rings) => rings'[x[1]] = rings[x[1]]
    BY <1>3, <1>4, <1>7
  <2>2. QED BY <1>1, <1>3, <1>4, <1>7, <2>1, LogIs
<1>8. QED BY <1>6, <1>7

LEMMA DropRingLog ==
    ASSUME QueueTypes, Queue!DropRing, tail' = tail + 1, rings[tail].slots = <<>>
    PROVE  Log' = Log
<1>1. PICK n \in Nat \ {0} : n = Len(rings) /\ tail \in 1 .. n
  BY SomeRing
<1>2. UNCHANGED <<rings, popped>> /\ pop.pc # "taken" /\ pop'.pc # "taken"
  BY TypesAre DEF Queue!DropRing, Queue!Same
<1>3. SUFFICES ASSUME NEW x \in Entry PROVE x \in Log' <=> x \in Log
  BY DEF Log
<1>4. CASE x[1] = tail
  <2>1. rings[tail].tail \in Nat /\ tail # 0 /\ tail \notin tail + 1 .. n
    BY <1>1, Slots
  <2>2. \A v : ~Inside(x[2], rings[tail].tail, <<>>, 1, v)
    BY <2>1, InsideNone
  <2>3. x \notin Log
    BY <1>2, <1>4, <2>1, <2>2, LogIs
  <2>4. x \notin Log'
    BY <1>1, <1>2, <1>4, <2>1, LogIs
  <2>5. QED BY <2>3, <2>4
<1>5. CASE x[1] # tail
  <2>1. x[1] \in tail + 1 .. n <=> x[1] \in tail .. n
    BY <1>1, <1>5, EntryIs
  <2>2. QED BY <1>1, <1>2, <2>1, LogIs
<1>6. QED BY <1>4, <1>5

(* Where the entries of the log are.                                       *)
LEMMA LogPlace ==
    ASSUME QueueTypes, NEW z \in Log
    PROVE  /\ z \in Entry
           /\ \/ z[1] = 0 /\ z[2] \in 1 .. Len(popped)
              \/ z[1] \in tail .. Len(rings) /\ z[2] > rings[z[1]].tail
                    /\ z[2] <= rings[z[1]].tail + Len(rings[z[1]].slots)
                    /\ rings[z[1]].slots[z[2] - rings[z[1]].tail] = <<z[3], z[4]>>
<1>1. z \in Entry
  BY DEF Log
<1>2. CASE z[1] = 0 /\ z[2] \in 1 .. Len(popped)
  BY <1>1, <1>2
<1>3. CASE /\ z[1] \in tail .. Len(rings)
           /\ Inside(z[2], rings[z[1]].tail, rings[z[1]].slots,
                     IF pop.pc = "taken" /\ pop.ring = z[1] THEN 2 ELSE 1, <<z[3], z[4]>>)
  <2>1. PICK d \in 1 .. Len(rings) : d = z[1]
    BY <1>3, TypesAre
  <2>2. PICK a \in Nat, t \in Seq(Queue!Element \cup {Queue!Nil}), n \in Nat : a = rings[d].tail /\ t = rings[d].slots /\ n = Len(t)
    BY Slots
  <2>3. PICK f \in {1, 2} : f = IF pop.pc = "taken" /\ pop.ring = z[1] THEN 2 ELSE 1
    OBVIOUS
  <2>4. Inside(z[2], a, t, f, <<z[3], z[4]>>)
    BY <1>3, <2>1, <2>2, <2>3
  <2>5. z[2] \in a + f .. a + n /\ t[z[2] - a] = <<z[3], z[4]>>
    BY <2>2, <2>4 DEF Inside
  <2>6. z[2] > a /\ z[2] <= a + n
    BY <2>5
  <2>7. QED BY <1>1, <1>3, <2>1, <2>2, <2>5, <2>6
<1>4. QED BY <1>1, <1>2, <1>3, LogIs

(* Popping moves an entry from the front of the chain to what was popped.  *)
LEMMA PopSlotLog ==
    ASSUME QueueTypes, QueueRead, Queue!PopSlot
    PROVE  \E x \in Log, y \in Entry :
              /\ x[1] > 0 /\ y[1] = 0 /\ x[3] = y[3] /\ x[4] = y[4]
              /\ Log' = (Log \ {x}) \cup {y}
              /\ \A z \in Log \ {x} : (Queue!Before(z, y) <=> Queue!Before(z, x)) /\ (Queue!Before(y, z) <=> Queue!Before(x, z))
<1>1. PICK n \in Nat \ {0} : n = Len(rings) /\ tail \in 1 .. n
  BY SomeRing
<1>2. /\ pop.pc = "ring" /\ pop.ring = tail /\ UNCHANGED <<rings, tail>>
      /\ pop'.pc = "taken" /\ pop'.ring = tail
      /\ rings[tail].slots # <<>> /\ rings[tail].slots[1] # Queue!Nil
      /\ popped' = Append(popped, rings[tail].slots[1])
  BY TypesAre DEF Queue!PopSlot, QueueRead
<1>3. PICK a \in Nat, t \in Seq(Queue!Element \cup {Queue!Nil}) : a = rings[tail].tail /\ t = rings[tail].slots
  BY <1>1, Slots
<1>4. t # <<>> /\ t[1] # Queue!Nil
  BY <1>2, <1>3
<1>5. t[1] \in Queue!Element
  <2>1. 1 \in 1 .. Len(t)
    BY <1>4, EmptySeq
  <2>2. QED BY <1>4, <2>1, ElementOfSeq
<1>6. PICK p \in Producer, i \in 1 .. Items : t[1] = <<p, i>>
  BY <1>5 DEF Queue!Element
<1>7. PICK m \in Nat : m = Len(popped) /\ popped \in Seq(Queue!Element)
  BY LenProperties DEF QueueTypes, Queue!TypeOK
<1>8. /\ Len(popped') = m + 1 /\ popped'[m + 1] = <<p, i>>
      /\ \A k \in 1 .. m : popped'[k] = popped[k]
  BY <1>2, <1>3, <1>5, <1>6, <1>7, Appended
<1>9. <<tail, a + 1, p, i>> \in Entry /\ <<0, m + 1, p, i>> \in Entry
  <2>1. tail \in Nat /\ a + 1 \in Nat /\ 0 \in Nat /\ m + 1 \in Nat
    BY <1>1
  <2>2. QED BY <2>1 DEF Entry
<1>10. PICK x \in Entry, y \in Entry : x = <<tail, a + 1, p, i>> /\ y = <<0, m + 1, p, i>>
  BY <1>9
<1>11. ASSUME NEW z \in Entry PROVE /\ z = x <=> z[1] = tail /\ z[2] = a + 1 /\ <<z[3], z[4]>> = <<p, i>>
                                    /\ z = y <=> z[1] = 0 /\ z[2] = m + 1 /\ <<z[3], z[4]>> = <<p, i>>
  <2>1. z = <<z[1], z[2], z[3], z[4]>>
    BY EntryIs
  <2>2. <<z[3], z[4]>> = <<p, i>> <=> z[3] = p /\ z[4] = i
    OBVIOUS
  <2>3. QED BY <1>10, <2>1, <2>2
<1>12. ASSUME NEW z \in Entry PROVE z \in Log' <=> z \in Log \ {x} \/ z = y
  <2>0. PICK v : v = <<z[3], z[4]>>
    OBVIOUS
  <2>1. CASE z[1] = 0
    <3>1. 0 \notin tail .. n
      BY <1>1
    <3>2. z \in Log <=> z[2] \in 1 .. m /\ popped[z[2]] = v
      BY <1>1, <1>7, <2>0, <2>1, <3>1, LogIs
    <3>3. z \in Log' <=> z[2] \in 1 .. m + 1 /\ popped'[z[2]] = v
      BY <1>1, <1>2, <1>8, <2>0, <2>1, <3>1, LogIs
    <3>4. z[2] \in 1 .. m + 1 <=> z[2] \in 1 .. m \/ z[2] = m + 1
      <4>1. z[2] \in Nat
        BY EntryIs
      <4>2. QED BY <4>1
    <3>5. z # x
      BY <1>1, <1>11, <2>1
    <3>6. QED BY <1>7, <1>8, <1>11, <2>0, <2>1, <3>2, <3>3, <3>4, <3>5
  <2>2. CASE z[1] = tail
    <3>1. tail # 0 /\ tail \in tail .. n /\ z[2] \in Nat
      BY <1>1, EntryIs
    <3>2. z \in Log <=> Inside(z[2], a, t, 1, v)
      BY <1>1, <1>2, <1>3, <2>0, <2>2, <3>1, LogIs
    <3>3. z \in Log' <=> Inside(z[2], a, t, 2, v)
      BY <1>1, <1>2, <1>3, <2>0, <2>2, <3>1, LogIs
    <3>4. Inside(z[2], a, t, 1, v) <=> Inside(z[2], a, t, 2, v) \/ (z[2] = a + 1 /\ v = t[1])
      BY <1>4, <3>1, InsideTaken
    <3>5. z = x <=> z[2] = a + 1 /\ v = t[1]
      BY <1>6, <1>11, <2>0, <2>2
    <3>6. z[2] = a + 1 => ~Inside(z[2], a, t, 2, v)
      <4>1. \A c \in Int : a + 1 \notin a + 2 .. a + c
        OBVIOUS
      <4>2. Len(t) \in Int
        BY LenProperties
      <4>3. QED BY <4>1, <4>2 DEF Inside
    <3>7. z # y
      BY <1>11, <2>2, <3>1
    <3>8. QED BY <3>2, <3>3, <3>4, <3>5, <3>6, <3>7
  <2>3. CASE z[1] # 0 /\ z[1] # tail
    <3>1. z # x /\ z # y
      BY <1>11, <2>3
    <3>2. QED BY <1>2, <2>3, <3>1, LogIs
  <2>4. QED BY <2>1, <2>2, <2>3
<1>13. x \in Log
  <2>1. Inside(a + 1, a, t, 1, t[1])
    <3>1. Len(t) \in Nat \ {0}
      BY <1>4, EmptySeq
    <3>2. a + 1 \in a + 1 .. a + Len(t) /\ (a + 1) - a = 1
      BY <3>1
    <3>3. QED BY <3>2 DEF Inside
  <2>2. x[1] = tail /\ x[2] = a + 1 /\ <<x[3], x[4]>> = t[1] /\ tail \in tail .. n
    BY <1>1, <1>6, <1>10
  <2>3. QED BY <1>1, <1>2, <1>3, <2>1, <2>2, LogIs
<1>14. Log' = (Log \ {x}) \cup {y}
  <2>1. Log \subseteq Entry /\ Log' \subseteq Entry
    BY DEF Log
  <2>2. QED BY <1>10, <1>12, <2>1
<1>15. ASSUME NEW z \in Log \ {x}
       PROVE  (Queue!Before(z, y) <=> Queue!Before(z, x)) /\ (Queue!Before(y, z) <=> Queue!Before(x, z))
  <2>1. x[1] = tail /\ x[2] = a + 1 /\ y[1] = 0 /\ y[2] = m + 1 /\ tail \in Nat \ {0}
    BY <1>1, <1>10
  <2>2. z \in Entry /\ z[1] \in Nat /\ z[2] \in Nat
    BY EntryIs DEF Log
  <2>3. CASE z[1] = 0 /\ z[2] \in 1 .. Len(popped)
    BY <1>7, <2>1, <2>2, <2>3 DEF Queue!Before
  <2>4. CASE z[1] \in tail .. Len(rings) /\ z[2] > rings[z[1]].tail
             /\ rings[z[1]].slots[z[2] - rings[z[1]].tail] = <<z[3], z[4]>>
    <3>1. z[1] = tail => z[2] > a + 1
      <4>1. SUFFICES ASSUME z[1] = tail PROVE z[2] > a + 1
        OBVIOUS
      <4>2. z[2] > a /\ t[z[2] - a] = <<z[3], z[4]>>
        BY <1>3, <2>4, <4>1
      <4>3. z[2] # a + 1
        <5>1. SUFFICES ASSUME z[2] = a + 1 PROVE FALSE
          OBVIOUS
        <5>2. z[2] - a = 1
          BY <5>1
        <5>3. QED BY <1>6, <1>11, <2>2, <4>1, <4>2, <5>1, <5>2
      <4>4. QED BY <2>2, <4>2, <4>3
    <3>2. z[1] >= tail
      BY <1>1, <2>4
    <3>3. QED BY <2>1, <2>2, <3>1, <3>2 DEF Queue!Before
  <2>5. QED BY <2>3, <2>4, LogPlace
<1>16. x[1] > 0 /\ y[1] = 0 /\ x[3] = y[3] /\ x[4] = y[4]
  BY <1>1, <1>10
<1>17. QED BY <1>10, <1>13, <1>14, <1>15, <1>16

(* What a producer stores goes behind what it stored before.               *)
QueueOrder ==
    /\ Complete(Log, Counts) /\ Ordered(Log)
    /\ \A p \in Producer : push[p].pc = "store" => Ahead(Log, p, <<push[p].ring, push[p].slot>>)
QueueInv == QueueTypes /\ (~raced => QueueLinked /\ QueueRead /\ QueueOrder)

StoredIn(r) == IF r.pc \in {"newhead", "newnext", "grown", "broadcast"} THEN r.done + 1 ELSE r.done

(* How many elements each producer has stored, before and after a step.    *)
LEMMA CountsAre ==
    QueueTypes =>
       Counts \in [Producer -> Nat] /\ \A p \in Producer : Counts[p] = StoredIn(push[p])
<1>1. QueueTypes => \A p \in Producer : Queue!Stored(p) = StoredIn(push[p]) /\ Queue!Stored(p) \in Nat
  BY TypesAre DEF Queue!Stored, StoredIn
<1>2. QED BY <1>1 DEF Counts

LEMMA CountsThen ==
    ASSUME QueueTypes, QueueTypes'
    PROVE  Counts' \in [Producer -> Nat] /\ \A p \in Producer : Counts'[p] = StoredIn(push'[p])
<1>1. \A p \in Producer : Queue!Stored(p)' = StoredIn(push'[p]) /\ Queue!Stored(p)' \in Nat
  <2>1. push' \in [Producer -> [pc : Queue!PushPC, ring : Nat, slot : Nat, done : 0 .. Items]] /\ Items \in Nat
    BY DEF QueueTypes, QueueSizes, Queue!TypeOK
  <2>2. QED BY <2>1 DEF Queue!Stored, StoredIn
<1>2. Counts' = [p \in Producer |-> StoredIn(push'[p])]
  BY <1>1 DEF Counts
<1>3. QED BY <1>1, <1>2

(* The order stays when the log and the counts do.                         *)
LEMMA OrderSame ==
    ASSUME QueueTypes, QueueTypes', QueueOrder, Log' = Log,
           \A p \in Producer : StoredIn(push'[p]) = StoredIn(push[p]),
           \A p \in Producer : push'[p].pc = "store" => push'[p] = push[p]
    PROVE  QueueOrder'
<1>1. Counts' = Counts
  BY CountsAre, CountsThen
<1>2. \A p \in Producer : push'[p].pc = "store" => Ahead(Log, p, <<push'[p].ring, push'[p].slot>>)
  BY DEF QueueOrder
<1>3. QED BY <1>1, <1>2 DEF QueueOrder

(* The steps of a producer that store nothing, ...                         *)
LEMMA ProducerOrder ==
    ASSUME QueueTypes, QueueTypes', QueueOrder, NEW p \in Producer,
           \/ Queue!SeeNoNewChain(p) \/ Queue!LoadHead(p) \/ Queue!StoreHead(p) \/ Queue!StoreNext(p) \/ Queue!Grown(p) \/ Queue!EndPush(p)
           \/ Queue!Reserve(p) /\ rings' = rings
           \/ Queue!Grow(p) /\ newChain
    PROVE  QueueOrder'
<1>1. push' = [push EXCEPT ![p] = push'[p]] /\ push'[p].pc # "store" /\ StoredIn(push'[p]) = StoredIn(push[p])
  <2>1. CASE Queue!SeeNoNewChain(p) \/ Queue!Grown(p) \/ (Queue!Grow(p) /\ newChain) \/ Queue!StoreHead(p)
    BY <2>1, TypesAre DEF Queue!SeeNoNewChain, Queue!Grown, Queue!Grow, Queue!StoreHead, Queue!Goes, StoredIn
  <2>2. CASE Queue!LoadHead(p)
    <3>1. push' = [push EXCEPT ![p] = [push[p] EXCEPT !.pc = "reserve", !.ring = head]] /\ push[p].pc = "head"
      BY <2>2 DEF Queue!LoadHead
    <3>2. push[p] \in [pc : Queue!PushPC, ring : Nat, slot : Nat, done : 0 .. Items]
      BY TypesAre
    <3>3. QED BY <3>1, <3>2, TypesAre DEF StoredIn
  <2>3. CASE Queue!EndPush(p)
    BY <2>3, TypesAre DEF Queue!EndPush, Queue!Pushed, StoredIn
  <2>4. CASE Queue!Reserve(p) /\ rings' = rings
    <3>0. push' = [push EXCEPT ![p].pc = "grow"]
      BY <2>4, NoRoom, Zenon
    <3>1. push' = [push EXCEPT ![p].pc = "grow"] /\ push[p].pc = "reserve"
      BY <2>4, <3>0 DEF Queue!Reserve
    <3>2. QED BY <3>1, TypesAre DEF StoredIn
  <2>5. CASE Queue!StoreNext(p)
    BY <2>5, TypesAre DEF Queue!StoreNext, Queue!Goes, StoredIn
  <2>6. QED BY <2>1, <2>2, <2>3, <2>4, <2>5
<1>2. /\ \A q \in Producer : StoredIn(push'[q]) = StoredIn(push[q])
      /\ \A q \in Producer : push'[q].pc = "store" => push'[q] = push[q]
  BY <1>1, TypesAre
<1>3. pop' = pop \/ (pop.pc = "sleep" /\ pop' = [pop EXCEPT !.pc = "start"])
  BY DEF Queue!SeeNoNewChain, Queue!LoadHead, Queue!StoreHead, Queue!StoreNext, Queue!Grown, Queue!EndPush,
     Queue!Reserve, Queue!Grow, Queue!Broadcast, Queue!Chain
<1>4. UNCHANGED <<tail, popped>>
  BY DEF Queue!SeeNoNewChain, Queue!LoadHead, Queue!StoreHead, Queue!StoreNext, Queue!Grown, Queue!EndPush,
     Queue!Reserve, Queue!Grow, Queue!Chain
<1>5. /\ Len(rings') = Len(rings)
      /\ \A d \in tail .. Len(rings) : rings'[d].slots = rings[d].slots /\ rings'[d].tail = rings[d].tail
  <2>1. CASE Queue!StoreNext(p)
    <3>1. PICK d, r : /\ d \in 1 .. Len(rings) /\ r = [rings[d] EXCEPT !.next = push[p].slot] /\ Replaces(d, r)
      <4>1. Replaces(push[p].ring, [rings[push[p].ring] EXCEPT !.next = push[p].slot])
        BY <2>1, StoreNextIs
      <4>2. push[p].ring \in 1 .. Len(rings)
        BY <4>1 DEF Replaces
      <4>3. QED BY <4>1, <4>2
    <3>2. rings[d] \in Ring
      BY <3>1, Slots
    <3>3. r.slots = rings[d].slots /\ r.tail = rings[d].tail
      BY <3>1, <3>2 DEF Ring
    <3>4. Len(rings') = Len(rings) /\ rings'[d] = r /\ \A e \in 1 .. Len(rings) : e # d => rings'[e] = rings[e]
      BY <3>1, ReplacedIs
    <3>5. \A e \in tail .. Len(rings) : e \in 1 .. Len(rings)
      BY TypesAre
    <3>6. QED BY <3>3, <3>4, <3>5
  <2>2. CASE ~Queue!StoreNext(p)
    <3>1. rings' = rings
      BY <2>2 DEF Queue!SeeNoNewChain, Queue!LoadHead, Queue!StoreHead, Queue!Grown, Queue!EndPush, Queue!Grow
    <3>2. QED BY <3>1
  <2>3. QED BY <2>1, <2>2
<1>6. (pop'.pc = "taken" <=> pop.pc = "taken") /\ (pop.pc = "taken" => pop'.ring = pop.ring)
  BY <1>3, TypesAre
<1>7. Log' = Log
  BY <1>4, <1>5, <1>6, LogStill
<1>8. QED BY <1>2, <1>7, OrderSame

(* ... that reserve a slot behind all its elements, ...                    *)
LEMMA ReserveOrder ==
    ASSUME QueueTypes, QueueTypes', QueueLinked, QueueOrder, NEW p \in Producer, Queue!Reserve(p), rings' # rings, ~raced'
    PROVE  QueueOrder'
<1>1. PICK d, a, n, t, x :
         /\ d \in 1 .. Len(rings) /\ a \in Nat /\ n \in Nat /\ t \in Seq(Queue!Element \cup {Queue!Nil})
         /\ d = push[p].ring /\ a = rings[d].tail /\ t = rings[d].slots /\ n = Len(t)
         /\ x = [push[p] EXCEPT !.pc = "store", !.slot = a + n + 1] /\ push' = [push EXCEPT ![p] = x]
         /\ push[p].pc = "reserve" /\ d = head
  <2>1. push[p].ring \in 1 .. Len(rings) /\ push[p].pc = "reserve"
    BY TypesAre DEF Queue!Reserve, QueueTypes, QueueRefs
  <2>2. /\ push' = [push EXCEPT ![p] = [push[p] EXCEPT !.pc = "store", !.slot = rings[push[p].ring].tail + Len(rings[push[p].ring].slots) + 1]]
        /\ push[p].ring = head
    BY ReserveIs
  <2>3. QED BY <2>1, <2>2, Slots
<1>2. x.pc = "store" /\ x.ring = d /\ x.slot = a + n + 1 /\ StoredIn(x) = StoredIn(push[p])
  <2>1. push[p] \in [pc : Queue!PushPC, ring : Nat, slot : Nat, done : 0 .. Items]
    BY TypesAre
  <2>2. QED BY <1>1, <2>1 DEF StoredIn
<1>3. \A q \in Producer : push'[q] = IF q = p THEN x ELSE push[q]
  BY <1>1, TypesAre
<1>4. Log' = Log
  BY ReserveLog
<1>5. Counts' = Counts
  <2>1. \A q \in Producer : StoredIn(push'[q]) = StoredIn(push[q])
    BY <1>2, <1>3
  <2>2. QED BY <2>1, CountsAre, CountsThen
<1>6. Ahead(Log, p, <<d, a + n + 1>>)
  <2>1. SUFFICES ASSUME NEW z \in Log, z[3] = p PROVE Queue!Before(z, <<d, a + n + 1>>)
    BY DEF Ahead
  <2>2. z \in Entry /\ z[1] \in Nat /\ z[2] \in Nat
    BY EntryIs DEF Log
  <2>3. CASE z[1] = 0
    BY <1>1, <2>2, <2>3 DEF Queue!Before
  <2>4. CASE z[1] # 0 /\ z[1] < d
    BY <2>2, <2>4 DEF Queue!Before
  <2>5. CASE z[1] # 0 /\ z[1] = d
    <3>1. z[2] <= a + n
      BY <1>1, <2>5, LogPlace
    <3>2. QED BY <1>1, <2>2, <2>5, <3>1 DEF Queue!Before
  <2>6. CASE z[1] # 0 /\ z[1] > d
    <3>1. PICK k \in Nat \ {0} : k = Len(rings) /\ tail \in 1 .. k /\ head \in 1 .. k
      BY SomeRing
    <3>2. /\ z[1] \in tail .. k
          /\ z[2] > rings[z[1]].tail /\ z[2] <= rings[z[1]].tail + Len(rings[z[1]].slots)
          /\ rings[z[1]].slots[z[2] - rings[z[1]].tail] = <<z[3], z[4]>>
      BY <2>6, <3>1, LogPlace
    <3>3. PICK q \in Making : head = k - 1 /\ rings[k].slots = <<Queue!Current(q)>>
      BY <1>1, <2>6, <3>1, <3>2 DEF QueueLinked
    <3>4. z[1] = k
      BY <1>1, <2>2, <2>6, <3>1, <3>2, <3>3
    <3>5. PICK b, u : b \in Nat /\ b = rings[k].tail /\ u = <<Queue!Current(q)>> /\ rings[k].slots = u
      <4>1. rings[k].tail \in Nat
        BY <3>1, Slots
      <4>2. QED BY <3>3, <4>1
    <3>6. Len(u) = 1 /\ u[1] = Queue!Current(q)
      BY <3>5
    <3>7. z[2] - b = 1
      <4>1. z[2] > b /\ z[2] <= b + Len(u)
        BY <3>2, <3>4, <3>5
      <4>2. QED BY <2>2, <3>5, <3>6, <4>1
    <3>8. <<z[3], z[4]>> = Queue!Current(q)
      BY <3>2, <3>4, <3>5, <3>6, <3>7
    <3>9. z[3] = q
      BY <3>8 DEF Queue!Current
    <3>10. QED BY <1>1, <2>1, <3>9 DEF Making
  <2>7. QED BY <1>1, <2>2, <2>3, <2>4, <2>5, <2>6
<1>7. \A q \in Producer : push'[q].pc = "store" => Ahead(Log, q, <<push'[q].ring, push'[q].slot>>)
  BY <1>2, <1>3, <1>6 DEF QueueOrder
<1>8. QED BY <1>4, <1>5, <1>7 DEF QueueOrder

(* A producer stores an element.                                           *)
LEMMA AddedOrder ==
    ASSUME QueueTypes, QueueTypes', QueueOrder, NEW p \in Producer, NEW x, NEW y \in Entry,
           y[3] = p, y[4] = push[p].done + 1, Log' = Log \cup {y}, Ahead(Log, p, y),
           push' = [push EXCEPT ![p] = x], x.pc \in {"broadcast", "newhead"}, x.done = push[p].done,
           push[p].pc \in {"store", "grow"}
    PROVE  QueueOrder'
<1>1. \A q \in Producer : push'[q] = IF q = p THEN x ELSE push[q]
  BY TypesAre
<1>2. Counts \in [Producer -> Nat] /\ Counts[p] = push[p].done
  BY CountsAre DEF StoredIn
<1>3. Counts' = [Counts EXCEPT ![p] = Counts[p] + 1]
  <2>1. Counts'[p] = Counts[p] + 1
    BY <1>1, <1>2, CountsThen DEF StoredIn
  <2>2. \A q \in Producer : q # p => Counts'[q] = Counts[q]
    BY <1>1, CountsAre, CountsThen
  <2>3. Counts' \in [Producer -> Nat]
    BY CountsThen
  <2>4. QED BY <1>2, <2>1, <2>2, <2>3
<1>4. Log \in SUBSET Entry
  BY DEF Log
<1>5. Complete(Log', Counts') /\ Ordered(Log')
  BY <1>2, <1>3, <1>4, Adding DEF QueueOrder
<1>6. ASSUME NEW q \in Producer, push'[q].pc = "store"
      PROVE  Ahead(Log', q, <<push'[q].ring, push'[q].slot>>)
  <2>1. q # p /\ push'[q] = push[q]
    BY <1>1, <1>6
  <2>2. Ahead(Log, q, <<push[q].ring, push[q].slot>>)
    BY <1>6, <2>1 DEF QueueOrder
  <2>3. QED BY <2>1, <2>2 DEF Ahead
<1>7. QED BY <1>5, <1>6 DEF QueueOrder

(* ... that fill it, ...                                                   *)
LEMMA StoreOrder ==
    ASSUME QueueTypes, QueueTypes', QueueRead, QueueOrder, NEW p \in Producer, Queue!Store(p)
    PROVE  QueueOrder'
<1>1. PICK x, y : /\ y \in Entry /\ x = [push[p] EXCEPT !.pc = "broadcast"] /\ push' = [push EXCEPT ![p] = x]
                            /\ y = <<push[p].ring, push[p].slot, p, push[p].done + 1>> /\ Log' = Log \cup {y}
  <2>1. PICK y \in Entry : y = <<push[p].ring, push[p].slot, p, push[p].done + 1>> /\ Log' = Log \cup {y}
    BY StoreLog
  <2>2. PICK x : x = [push[p] EXCEPT !.pc = "broadcast"] /\ push' = [push EXCEPT ![p] = x]
    BY DEF Queue!Store, Queue!Goes
  <2>3. QED BY <2>1, <2>2
<1>2. push[p].pc = "store"
  BY DEF Queue!Store
<1>3. x.pc = "broadcast" /\ x.done = push[p].done
  BY <1>1, TypesAre
<1>4. y[1] = push[p].ring /\ y[2] = push[p].slot /\ y[3] = p /\ y[4] = push[p].done + 1
  BY <1>1
<1>5. Ahead(Log, p, y)
  <2>1. Ahead(Log, p, <<push[p].ring, push[p].slot>>)
    BY <1>2 DEF QueueOrder
  <2>2. QED BY <1>4, <2>1 DEF Ahead, Queue!Before
<1>6. QED BY <1>1, <1>2, <1>3, <1>4, <1>5, AddedOrder

(* ... or put the element in a new ring, keep the order.                   *)
LEMMA GrowOrder ==
    ASSUME QueueTypes, QueueTypes', QueueOrder, NEW p \in Producer, Queue!Grow(p), ~newChain
    PROVE  QueueOrder'
<1>1. PICK n \in Nat \ {0} : n = Len(rings) /\ tail \in 1 .. n
  BY SomeRing
<1>2. PICK x, y : /\ y \in Entry /\ x = [push[p] EXCEPT !.pc = "newhead", !.slot = n + 1] /\ push' = [push EXCEPT ![p] = x]
                            /\ y = <<n + 1, 1, p, push[p].done + 1>> /\ Log' = Log \cup {y}
  <2>1. PICK y : y \in Entry /\ y = <<n + 1, 1, p, push[p].done + 1>> /\ Log' = Log \cup {y}
    BY <1>1, GrowLog
  <2>2. PICK x : x = [push[p] EXCEPT !.pc = "newhead", !.slot = n + 1] /\ push' = [push EXCEPT ![p] = x]
    BY <1>1 DEF Queue!Grow
  <2>3. QED BY <2>1, <2>2
<1>3. push[p].pc = "grow"
  BY DEF Queue!Grow
<1>4. x.pc = "newhead" /\ x.done = push[p].done
  <2>1. push[p] \in [pc : Queue!PushPC, ring : Nat, slot : Nat, done : 0 .. Items]
    BY TypesAre
  <2>2. QED BY <1>2, <2>1
<1>5. y[1] = n + 1 /\ y[2] = 1 /\ y[3] = p /\ y[4] = push[p].done + 1
  BY <1>2
<1>6. Ahead(Log, p, y)
  <2>1. SUFFICES ASSUME NEW z \in Log PROVE Queue!Before(z, y)
    BY DEF Ahead
  <2>2. z[1] \in Nat
    BY EntryIs DEF Log
  <2>3. z[1] = 0 \/ z[1] \in tail .. n
    BY <1>1, LogPlace
  <2>4. z[1] < n + 1
    BY <1>1, <2>2, <2>3
  <2>5. QED BY <1>5, <2>4 DEF Queue!Before
<1>7. QED BY <1>2, <1>3, <1>4, <1>5, <1>6, AddedOrder

(* The steps of the consumer keep the order.                               *)
LEMMA ConsumerOrder ==
    ASSUME QueueTypes, QueueTypes', QueueLinked, QueueRead, QueueOrder, Queue!PopStep
    PROVE  QueueOrder'
<1>1. push' = push
  BY DEF Queue!PopStep, Queue!LoadTail, Queue!LoadNext, Queue!PopSlot, Queue!MoveTail, Queue!DropRing, Queue!Empty,
     Queue!Same
<1>2. CASE ~Queue!PopSlot
  <2>1. CASE Queue!LoadTail \/ Queue!LoadNext \/ Queue!Empty
    <3>1. UNCHANGED <<rings, tail, popped>> /\ pop.pc # "taken" /\ pop'.pc # "taken"
      BY <2>1, TypesAre DEF Queue!LoadTail, Queue!LoadNext, Queue!Empty
    <3>2. Log' = Log
      BY <3>1, LogStill
    <3>3. QED BY <1>1, <3>2, OrderSame
  <2>2. CASE Queue!MoveTail
    BY <1>1, <2>2, MoveTailLog, OrderSame
  <2>3. CASE Queue!DropRing
    <3>1. tail' = tail + 1 /\ rings[tail].slots = <<>>
      BY <2>3, DropRingLinked
    <3>2. QED BY <1>1, <2>3, <3>1, DropRingLog, OrderSame
  <2>4. QED BY <1>2, <2>1, <2>2, <2>3 DEF Queue!PopStep
<1>3. CASE Queue!PopSlot
  <2>1. PICK x \in Log, y \in Entry :
              /\ x[1] > 0 /\ y[1] = 0 /\ x[3] = y[3] /\ x[4] = y[4]
              /\ Log' = (Log \ {x}) \cup {y}
              /\ \A z \in Log \ {x} : (Queue!Before(z, y) <=> Queue!Before(z, x)) /\ (Queue!Before(y, z) <=> Queue!Before(x, z))
    BY <1>3, PopSlotLog
  <2>2. Counts' = Counts
    <3>1. \A q \in Producer : StoredIn(push'[q]) = StoredIn(push[q])
      BY <1>1
    <3>2. QED BY <3>1, CountsAre, CountsThen
  <2>3. Log \in SUBSET Entry
    BY DEF Log
  <2>4. Complete(Log', Counts') /\ Ordered(Log')
    BY <2>1, <2>2, <2>3, Moving DEF QueueOrder
  <2>5. ASSUME NEW p \in Producer, push'[p].pc = "store"
        PROVE  Ahead(Log', p, <<push'[p].ring, push'[p].slot>>)
    <3>1. Ahead(Log, p, <<push[p].ring, push[p].slot>>)
      BY <1>1, <2>5 DEF QueueOrder
    <3>2. push[p].ring > 0
      <4>1. push[p].ring \in DOMAIN rings
        BY <1>1, <2>5 DEF QueueTypes, QueueRefs
      <4>2. QED BY <4>1, TypesAre
    <3>3. Queue!Before(y, <<push[p].ring, push[p].slot>>)
      BY <2>1, <3>2 DEF Queue!Before
    <3>4. QED BY <1>1, <2>1, <3>1, <3>3 DEF Ahead
  <2>6. QED BY <2>4, <2>5 DEF QueueOrder
<1>4. QED BY <1>2, <1>3

(* The invariant of the queue holds initially, ...                         *)
LEMMA QueueInitInv == QueueSizes /\ Queue!Init => QueueInv
<1> SUFFICES ASSUME QueueSizes, Queue!Init PROVE QueueInv
  OBVIOUS
<1>1. QueueTypes
  BY QueueInitTypes
<1>2. rings = <<Queue!NewRing(FirstSize, <<>>)>> /\ head = 1 /\ tail = 1 /\ popped = <<>> /\ pop.pc = "start"
      /\ \A p \in Producer : push[p].pc = "start" /\ push[p].done = 0
  BY DEF Queue!Init
<1>3. Len(rings) = 1 /\ rings[1].tail = 0 /\ rings[1].next = 0 /\ rings[1].slots = <<>>
  BY <1>2 DEF Queue!NewRing
<1>4. Making = {} /\ Joining = {}
  BY <1>2 DEF Making, Joining
<1>5. QueueLinked
  BY <1>2, <1>3, <1>4 DEF QueueLinked
<1>6. QueueRead
  BY <1>2, <1>3 DEF QueueRead
<1>7. Log = {}
  <2>1. SUFFICES ASSUME NEW z \in Log PROVE FALSE
    OBVIOUS
  <2>2. \/ z[1] = 0 /\ z[2] \in 1 .. Len(popped)
        \/ z[1] = 1 /\ z[2] > 0 /\ z[2] <= 0 + Len(<<>>)
    BY <1>1, <1>2, <1>3, LogPlace
  <2>3. z[2] \in Nat
    BY EntryIs DEF Log
  <2>4. QED BY <1>2, <2>2, <2>3
<1>8. QueueOrder
  <2>1. \A p \in Producer : Counts[p] = 0
    BY <1>1, <1>2, CountsAre DEF StoredIn
  <2>2. \A i \in 1 .. Items : ~(i <= 0)
    OBVIOUS
  <2>3. QED BY <1>2, <1>7, <2>1, <2>2 DEF QueueOrder, Complete, Ordered, Ahead
<1>9. QED BY <1>1, <1>5, <1>6, <1>8 DEF QueueInv

(* ... and every step of a producer that does not race keeps it.           *)
LEMMA ProducerStep ==
    ASSUME QueueTypes, QueueTypes', QueueLinked, QueueRead, QueueOrder, ~raced', NEW p \in Producer, Queue!PushStep(p)
    PROVE  QueueLinked' /\ QueueRead' /\ QueueOrder'
<1>1. CASE Queue!SeeNoNewChain(p) \/ Queue!LoadHead(p) \/ Queue!Grown(p) \/ Queue!EndPush(p)
  BY <1>1, ProducerLinked, ProducerOrder
<1>2. CASE Queue!StoreHead(p)
  BY <1>2, StoreHeadLinked, ProducerOrder
<1>3. CASE Queue!StoreNext(p)
  BY <1>3, StoreNextLinked, ProducerOrder
<1>4. CASE Queue!Reserve(p) /\ rings' = rings
  BY <1>4, ProducerLinked, ProducerOrder, Zenon
<1>5. CASE Queue!Reserve(p) /\ rings' # rings
  <2>1. PICK d, r, x : /\ d = push[p].ring /\ r = [rings[d] EXCEPT !.slots = Append(rings[d].slots, Queue!Nil)] /\ Replaces(d, r)
                       /\ push' = [push EXCEPT ![p] = x]
                       /\ x = [push[p] EXCEPT !.pc = "store", !.slot = rings[d].tail + Len(rings[d].slots) + 1]
                       /\ d = head
    BY <1>5, ReserveIs
  <2>2. d \in 1 .. Len(rings) /\ rings[d] \in Ring
    BY <2>1, Slots DEF Replaces
  <2>3. r.next = rings[d].next
    BY <2>1, <2>2 DEF Ring
  <2>4. push[p].pc = "reserve" /\ UNCHANGED <<head, tail, pop>>
    BY <1>5 DEF Queue!Reserve, Queue!Chain
  <2>5. x.pc = "store" /\ x.ring = d
    <3>1. push[p] \in [pc : Queue!PushPC, ring : Nat, slot : Nat, done : 0 .. Items]
      BY TypesAre
    <3>2. QED BY <2>1, <3>1
  <2>6. QueueLinked' /\ QueueRead'
    BY <2>1, <2>3, <2>4, <2>5, FillLinked
  <2>7. QueueOrder'
    BY <1>5, ReserveOrder
  <2>8. QED BY <2>6, <2>7
<1>6. CASE Queue!Store(p)
  <2>1. PICK d, r, x : /\ d = push[p].ring /\ Replaces(d, r)
                       /\ r = [rings[d] EXCEPT !.slots = [rings[d].slots EXCEPT ![push[p].slot - rings[d].tail] = Queue!Current(p)]]
                       /\ push' = [push EXCEPT ![p] = x] /\ x = [push[p] EXCEPT !.pc = "broadcast"]
                       /\ push[p].slot - rings[d].tail \in 1 .. Len(rings[d].slots)
    BY <1>6, StoreIs
  <2>2. d \in 1 .. Len(rings) /\ rings[d] \in Ring
    BY <2>1, Slots DEF Replaces
  <2>3. r.next = rings[d].next /\ rings[d].slots # <<>>
    BY <2>1, <2>2 DEF Ring
  <2>4. push[p].pc = "store" /\ UNCHANGED <<head, tail, pop>>
    BY <1>6 DEF Queue!Store, Queue!Chain
  <2>5. x.pc = "broadcast" /\ x.ring = d
    BY <2>1, TypesAre
  <2>6. QueueLinked' /\ QueueRead'
    BY <2>1, <2>3, <2>4, <2>5, FillLinked
  <2>7. QED BY <1>6, <2>6, StoreOrder
<1>7. CASE Queue!Grow(p) /\ newChain
  BY <1>7, ProducerLinked, ProducerOrder
<1>8. CASE Queue!Grow(p) /\ ~newChain
  BY <1>8, GrowLinked, GrowOrder
<1>9. QED BY <1>1, <1>2, <1>3, <1>4, <1>5, <1>6, <1>7, <1>8 DEF Queue!PushStep

(* So does every step.                                                     *)
LEMMA QueueStep == QueueInv /\ [Queue!Next]_(Queue!vars) => QueueInv'
<1> SUFFICES ASSUME QueueInv, [Queue!Next]_(Queue!vars) PROVE QueueInv'
  OBVIOUS
<1>1. QueueTypes /\ QueueTypes'
  BY QueueStepTypes DEF QueueInv
<1>2. SUFFICES ASSUME ~raced' PROVE QueueLinked' /\ QueueRead' /\ QueueOrder'
  BY <1>1 DEF QueueInv
<1>3. CASE UNCHANGED Queue!vars
  <2>1. ~raced
    BY <1>2, <1>3 DEF Queue!vars
  <2>2. QueueLinked /\ QueueRead /\ QueueOrder
    BY <2>1 DEF QueueInv
  <2>3. UNCHANGED <<rings, head, tail, push, pop, popped>>
    BY <1>3 DEF Queue!vars
  <2>4. QueueLinked'
    BY <2>2, <2>3 DEF QueueLinked, Making, Joining, Queue!Current
  <2>5. QueueRead'
    BY <2>2, <2>3 DEF QueueRead
  <2>6. Log' = Log
    BY <1>1, <2>3, LogStill
  <2>7. QueueOrder'
    BY <1>1, <2>2, <2>3, <2>6, OrderSame
  <2>8. QED BY <2>4, <2>5, <2>7
<1>4. CASE Queue!Next
  <2>1. ~raced
    <3>1. CASE Queue!PopStep
      BY <1>2, <3>1 DEF Queue!PopStep, Queue!LoadTail, Queue!LoadNext, Queue!PopSlot, Queue!MoveTail,
         Queue!DropRing, Queue!Empty, Queue!Same
    <3>2. ASSUME NEW p \in Producer, Queue!PushStep(p) PROVE ~raced
      BY <1>2, <3>2 DEF Queue!PushStep, Queue!SeeNoNewChain, Queue!LoadHead, Queue!Reserve, Queue!Store, Queue!Grow,
         Queue!StoreHead, Queue!StoreNext, Queue!Grown, Queue!EndPush
    <3>3. QED BY <1>4, <3>1, <3>2 DEF Queue!Next
  <2>2. QueueLinked /\ QueueRead /\ QueueOrder
    BY <2>1 DEF QueueInv
  <2>3. CASE Queue!PopStep
    <3>1. QueueLinked' /\ QueueRead'
      BY <1>1, <2>2, <2>3, ConsumerLinked, MoveTailLinked, DropRingLinked DEF Queue!PopStep
    <3>2. QED BY <1>1, <2>2, <2>3, <3>1, ConsumerOrder
  <2>4. ASSUME NEW p \in Producer, Queue!PushStep(p) PROVE QueueLinked' /\ QueueRead' /\ QueueOrder'
    BY <1>1, <1>2, <2>2, <2>4, ProducerStep
  <2>5. QED BY <1>4, <2>3, <2>4 DEF Queue!Next
<1>5. QED BY <1>3, <1>4

(* Where an element is and the log agree.                                  *)
LEMMA PlaceIs ==
    ASSUME NEW x
    PROVE  x \in Queue!Place <=> \/ \E a \in DOMAIN popped : x = <<0, a>>
                           \/ \E d \in tail .. Len(rings) : \E a \in Queue!First(d) .. Queue!Last(d) : x = <<d, a>>
  BY DEF Queue!Place

(* Each entry of the log is at its place, ...                              *)
LEMMA LogHolds ==
    ASSUME QueueTypes, NEW z \in Log
    PROVE  <<z[1], z[2]>> \in Queue!Place /\ Queue!Holds(<<z[1], z[2]>>) = <<z[3], z[4]>>
<1>1. PICK n \in Nat \ {0} : n = Len(rings) /\ tail \in 1 .. n
  BY SomeRing
<1>2. z \in Entry
  BY DEF Log
<1>3. DOMAIN popped = 1 .. Len(popped)
  BY LenProperties DEF QueueTypes, Queue!TypeOK
<1>4. CASE z[1] = 0 /\ z[2] \in 1 .. Len(popped) /\ popped[z[2]] = <<z[3], z[4]>>
  <2>1. <<z[1], z[2]>> \in Queue!Place
    BY <1>3, <1>4, PlaceIs
  <2>2. QED BY <1>4, <2>1 DEF Queue!Holds
<1>5. CASE /\ z[1] \in tail .. Len(rings)
           /\ Inside(z[2], rings[z[1]].tail, rings[z[1]].slots,
                     IF pop.pc = "taken" /\ pop.ring = z[1] THEN 2 ELSE 1, <<z[3], z[4]>>)
  <2>1. PICK d \in tail .. Len(rings), a \in Int : d = z[1] /\ a = z[2] /\ d # 0
    BY <1>1, <1>2, <1>5, EntryIs
  <2>2. a \in Queue!First(d) .. Queue!Last(d) /\ rings[d].slots[a - rings[d].tail] = <<z[3], z[4]>>
    BY <1>5, <2>1 DEF Inside, Queue!First, Queue!Last
  <2>3. <<d, a>> \in Queue!Place
    BY <2>2, PlaceIs
  <2>4. Queue!Holds(<<d, a>>) = <<z[3], z[4]>>
    BY <2>1, <2>2 DEF Queue!Holds
  <2>5. QED BY <2>1, <2>3, <2>4
<1>6. QED BY <1>2, <1>4, <1>5, LogIs

(* ... and each place that is not empty has its entry.                     *)
LEMMA HoldsLog ==
    ASSUME QueueTypes, NEW x \in Queue!Place, Queue!Holds(x) # Queue!Nil
    PROVE  /\ Queue!Holds(x) \in Queue!Element
           /\ <<x[1], x[2], Queue!Holds(x)[1], Queue!Holds(x)[2]>> \in Log
<1>1. PICK n \in Nat \ {0} : n = Len(rings) /\ tail \in 1 .. n
  BY SomeRing
<1>2. popped \in Seq(Queue!Element) /\ DOMAIN popped = 1 .. Len(popped) /\ Len(popped) \in Nat
  BY LenProperties DEF QueueTypes, Queue!TypeOK
<1>3. CASE \E a \in DOMAIN popped : x = <<0, a>>
  <2>1. PICK a \in 1 .. Len(popped) : x = <<0, a>>
    BY <1>2, <1>3
  <2>2. x[1] = 0 /\ x[2] = a /\ Queue!Holds(x) = popped[a] /\ Queue!Holds(x) \in Queue!Element
    BY <1>2, <2>1, ElementOfSeq DEF Queue!Holds
  <2>3. PICK p \in Producer, i \in 1 .. Items : Queue!Holds(x) = <<p, i>>
    BY <2>2 DEF Queue!Element
  <2>4. PICK z : z = <<0, a, p, i>> /\ z \in Entry
    <3>1. <<0, a, p, i>> \in Entry
      BY DEF Entry
    <3>2. QED BY <3>1
  <2>5. z[1] = 0 /\ z[2] = a /\ z[3] = p /\ z[4] = i
    BY <2>4
  <2>6. z \in Log
    BY <2>2, <2>3, <2>4, <2>5, LogIs
  <2>7. QED BY <2>2, <2>3, <2>4, <2>6
<1>4. CASE \E d \in tail .. Len(rings) : \E a \in Queue!First(d) .. Queue!Last(d) : x = <<d, a>>
  <2>0. PICK d \in tail .. Len(rings) : \E a \in Queue!First(d) .. Queue!Last(d) : x = <<d, a>>
    BY <1>4
  <2>1. PICK a \in Queue!First(d) .. Queue!Last(d) : x = <<d, a>>
    BY <2>0
  <2>2. d \in 1 .. Len(rings) /\ d # 0 /\ d \in Nat
    BY <1>1
  <2>3. PICK b \in Nat, t \in Seq(Queue!Element \cup {Queue!Nil}) : b = rings[d].tail /\ t = rings[d].slots
    BY <2>2, Slots
  <2>4. PICK f \in {1, 2} : f = IF pop.pc = "taken" /\ pop.ring = d THEN 2 ELSE 1
    OBVIOUS
  <2>5. a \in b + f .. b + Len(t)
    BY <2>1, <2>3, <2>4 DEF Queue!First, Queue!Last
  <2>6. a \in Nat /\ a - b \in 1 .. Len(t)
    <3>1. Len(t) \in Nat
      OBVIOUS
    <3>2. QED BY <2>5, <3>1
  <2>7. x[1] = d /\ x[2] = a /\ Queue!Holds(x) = t[a - b]
    BY <2>1, <2>2, <2>3 DEF Queue!Holds
  <2>8. Queue!Holds(x) \in Queue!Element
    BY <2>6, <2>7, ElementOfSeq
  <2>9. PICK p \in Producer, i \in 1 .. Items : Queue!Holds(x) = <<p, i>>
    BY <2>8 DEF Queue!Element
  <2>10. PICK z : z = <<d, a, p, i>> /\ z \in Entry
    <3>1. <<d, a, p, i>> \in Entry
      BY <2>2, <2>6 DEF Entry
    <3>2. QED BY <3>1
  <2>11. z[1] = d /\ z[2] = a /\ z[3] = p /\ z[4] = i
    BY <2>10
  <2>12. Inside(a, b, t, f, <<p, i>>)
    BY <2>5, <2>7, <2>9 DEF Inside
  <2>13. z \in Log
    BY <2>3, <2>4, <2>10, <2>11, <2>12, LogIs
  <2>14. QED BY <2>7, <2>8, <2>9, <2>10, <2>13
<1>5. QED BY <1>3, <1>4, PlaceIs

(* The invariant implies what the queue promises.                          *)
LEMMA QueueHolds == QueueInv => Queue!TypeOK /\ Queue!IsQueue
<1> SUFFICES ASSUME QueueInv PROVE Queue!TypeOK /\ Queue!IsQueue
  OBVIOUS
<1>1. QueueTypes /\ Queue!TypeOK
  BY DEF QueueInv, QueueTypes
<1>2. SUFFICES ASSUME ~raced
               PROVE  /\ \A d \in tail .. Len(rings) : Queue!Follower(d) = IF d = Len(rings) THEN 0 ELSE d + 1
                      /\ \A p \in Producer, i \in 1 .. Items :
                            (\E x \in Queue!Place : Queue!Holds(x) = <<p, i>>) <=> i <= Queue!Stored(p)
                      /\ \A x, y \in Queue!Place :
                            Queue!Nil \notin {Queue!Holds(x), Queue!Holds(y)} /\ Queue!Holds(x)[1] = Queue!Holds(y)[1] =>
                               (Queue!Before(x, y) <=> Queue!Holds(x)[2] < Queue!Holds(y)[2])
  BY <1>1 DEF Queue!IsQueue
<1>3. QueueLinked /\ QueueOrder
  BY <1>2 DEF QueueInv
<1>4. PICK n \in Nat \ {0} : n = Len(rings) /\ tail \in 1 .. n
  BY <1>1, SomeRing
<1>5. ASSUME NEW d \in tail .. Len(rings) PROVE Queue!Follower(d) = IF d = Len(rings) THEN 0 ELSE d + 1
  <2>1. \A p : p \in Queue!Linking(d) <=> p \in Joining /\ push[p].ring = d
    BY DEF Queue!Linking, Joining
  <2>2. CASE Queue!Linking(d) = {}
    <3>1. Queue!Follower(d) = rings[d].next
      BY <2>2 DEF Queue!Follower
    <3>2. d = n => rings[d].next = 0
      BY <1>3, <1>4 DEF QueueLinked
    <3>3. d # n => d \in 1 .. n - 1 /\ (d < n - 1 \/ d = n - 1)
      BY <1>4, <1>5
    <3>4. d = n - 1 => Joining = {}
      BY <1>3, <1>4, <2>1, <2>2 DEF QueueLinked
    <3>5. d # n => rings[d].next = d + 1
      BY <1>3, <1>4, <3>3, <3>4 DEF QueueLinked
    <3>6. QED BY <1>4, <3>1, <3>2, <3>5
  <2>3. CASE Queue!Linking(d) # {}
    <3>1. PICK p \in Queue!Linking(d) : Queue!Follower(d) = push[p].slot
      BY <2>3 DEF Queue!Follower
    <3>2. d = n - 1 /\ push[p].slot = n
      BY <1>3, <1>4, <2>1, <3>1 DEF QueueLinked
    <3>3. QED BY <1>4, <3>1, <3>2
  <2>4. QED BY <2>2, <2>3
<1>6. ASSUME NEW p \in Producer, NEW i \in 1 .. Items
      PROVE  (\E x \in Queue!Place : Queue!Holds(x) = <<p, i>>) <=> i <= Queue!Stored(p)
  <2>1. (\E z \in Log : z[3] = p /\ z[4] = i) <=> i <= Queue!Stored(p)
    <3>1. Counts[p] = Queue!Stored(p)
      BY DEF Counts
    <3>2. QED BY <1>3, <3>1 DEF QueueOrder, Complete
  <2>2. ASSUME NEW x \in Queue!Place, Queue!Holds(x) = <<p, i>> PROVE \E z \in Log : z[3] = p /\ z[4] = i
    <3>1. Queue!Holds(x) # Queue!Nil
      BY <2>2, NilIsNone
    <3>2. <<x[1], x[2], Queue!Holds(x)[1], Queue!Holds(x)[2]>> \in Log
      BY <1>1, <3>1, HoldsLog
    <3>3. PICK z \in Log : z = <<x[1], x[2], p, i>>
      BY <2>2, <3>2
    <3>4. QED BY <3>3
  <2>3. ASSUME NEW z \in Log, z[3] = p, z[4] = i PROVE \E x \in Queue!Place : Queue!Holds(x) = <<p, i>>
    BY <1>1, <2>3, LogHolds
  <2>4. QED BY <2>1, <2>2, <2>3
<1>7. ASSUME NEW x \in Queue!Place, NEW y \in Queue!Place, Queue!Nil \notin {Queue!Holds(x), Queue!Holds(y)}, Queue!Holds(x)[1] = Queue!Holds(y)[1]
      PROVE  Queue!Before(x, y) <=> Queue!Holds(x)[2] < Queue!Holds(y)[2]
  <2>1. PICK u \in Log, v \in Log : u = <<x[1], x[2], Queue!Holds(x)[1], Queue!Holds(x)[2]>> /\ v = <<y[1], y[2], Queue!Holds(y)[1], Queue!Holds(y)[2]>>
    BY <1>1, <1>7, HoldsLog
  <2>2. u[3] = v[3] /\ u[4] = Queue!Holds(x)[2] /\ v[4] = Queue!Holds(y)[2]
        /\ u[1] = x[1] /\ u[2] = x[2] /\ v[1] = y[1] /\ v[2] = y[2]
    BY <1>7, <2>1
  <2>3. Queue!Before(u, v) <=> u[4] < v[4]
    BY <1>3, <2>2 DEF QueueOrder, Ordered
  <2>4. Queue!Before(u, v) <=> Queue!Before(x, y)
    BY <2>2 DEF Queue!Before
  <2>5. QED BY <2>2, <2>3, <2>4
<1>8. QED BY <1>5, <1>6, <1>7

(* A queue of nps_mux, with any number of producers and one consumer: what *)
(* pushHead has stored is there once and in order, while slots are reserved*)
(* before they are filled, full rings are replaced and empty ones dropped  *)
(* (queue.go:397, 431, 563), unless a producer went on with a ring that    *)
(* had been replaced.                                                      *)
THEOREM NothingLost ==
    ASSUME QueueSizes
    PROVE  Queue!Spec => [](Queue!TypeOK /\ Queue!IsQueue)
<1>1. QueueInv /\ [Queue!Next]_(Queue!vars) => QueueInv'
  BY QueueStep
<1>2. Queue!Init => QueueInv
  BY QueueInitInv
<1>3. QED BY <1>1, <1>2, QueueHolds, PTL DEF Queue!Spec
=============================================================================
