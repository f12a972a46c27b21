----------------------------- MODULE MuxQueue -------------------------------
(***************************************************************************)
(* The lock-free queue of nps_mux (lib/nps_mux/queue.go): bufDequeue, a     *)
(* ring of slots, bufChain, a list of rings each twice as large as the one *)
(* before, and the waiting of Pop (priorityQueue, connQueue).  Any number  *)
(* of goroutines push; one pops.  Each atomic operation is a step.         *)
(*                                                                         *)
(* A ring is its slots from tail to head: a slot that pushHead has         *)
(* reserved and not yet filled is Nil.  Rings are numbered as allocated.   *)
(***************************************************************************)
EXTENDS Naturals, Sequences

CONSTANTS
    Producer,
    Items,     \* bound: elements each producer pushes
    FirstSize  \* slots of the first ring

VARIABLES
    rings,    \* the rings allocated: [size, tail, slots, next]
    head,     \* bufChain.head, the ring to push to
    tail,     \* bufChain.tail, the ring to pop from
    newChain, \* bufChain.newChain: a producer is allocating
    push,     \* each producer: [pc, ring, slot, done]
    pop,      \* the consumer: [pc, ring, next]
    popped,   \* history: what was popped, in order
    raced     \* history: a producer used a ring that was not the head any more

vars == <<rings, head, tail, newChain, push, pop, popped, raced>>

Nil     == <<>>
Element == Producer \X (1 .. Items)
NewRing(size, slots) == [size |-> size, tail |-> 0, slots |-> slots, next |-> 0]
Current(p) == <<p, push[p].done + 1>>

Init ==
    /\ rings = <<NewRing(FirstSize, <<>>)>>
    /\ head = 1
    /\ tail = 1
    /\ newChain = FALSE
    /\ push = [p \in Producer |-> [pc |-> "start", ring |-> 0, slot |-> 0, done |-> 0]]
    /\ pop = [pc |-> "start", ring |-> 0, next |-> 0, again |-> TRUE]
    /\ popped = <<>>
    /\ raced = FALSE

-----------------------------------------------------------------------------
(* A producer.                                                             *)

Goes(p, pc) == push' = [push EXCEPT ![p].pc = pc]
Chain == <<tail, pop, popped>>

(* bufChain.pushHead waits while a ring is being allocated, ...            *)
SeeNoNewChain(p) ==
    /\ push[p].pc = "start"
    /\ push[p].done < Items
    /\ ~newChain
    /\ Goes(p, "head")
    /\ UNCHANGED <<rings, head, newChain, raced, Chain>>

(* ... then loads the head of the chain.                                   *)
LoadHead(p) ==
    /\ push[p].pc = "head"
    /\ push' = [push EXCEPT ![p].pc = "reserve", ![p].ring = head]
    /\ UNCHANGED <<rings, head, newChain, raced, Chain>>

(* Mutant of Reserve: takes a slot that is still in use.                   *)
ReserveFull(p) ==
    LET d == push[p].ring
        r == rings[d]
    IN  /\ push[p].pc = "reserve"
        /\ IF Len(r.slots) > r.size
           THEN Goes(p, "grow") /\ UNCHANGED <<rings, raced>>
           ELSE /\ rings' = [rings EXCEPT ![d].slots = Append(@, Nil)]
                /\ push' = [push EXCEPT ![p].pc = "store", ![p].slot = r.tail + Len(r.slots) + 1]
                /\ raced' = (raced \/ d # head)
        /\ UNCHANGED <<head, newChain, Chain>>

(* bufDequeue.pushHead reserves a slot unless the ring is full.            *)
Reserve(p) ==
    LET d == push[p].ring
        r == rings[d]
    IN  /\ push[p].pc = "reserve"
        /\ IF Len(r.slots) = r.size
           THEN Goes(p, "grow") /\ UNCHANGED <<rings, raced>>
           ELSE /\ rings' = [rings EXCEPT ![d].slots = Append(@, Nil)]
                /\ push' = [push EXCEPT ![p].pc = "store", ![p].slot = r.tail + Len(r.slots) + 1]
                /\ raced' = (raced \/ d # head)
        /\ UNCHANGED <<head, newChain, Chain>>

Broadcast == pop' = IF pop.pc = "sleep" THEN [pop EXCEPT !.pc = "start"] ELSE pop
Pushed(p) == push' = [push EXCEPT ![p] = [pc |-> "start", ring |-> 0, slot |-> 0, done |-> @.done + 1]]

Store(p) ==
    LET d == push[p].ring
    IN  /\ push[p].pc = "store"
        /\ rings' = [rings EXCEPT ![d].slots[push[p].slot - rings[d].tail] = Current(p)]
        /\ Goes(p, "broadcast")
        /\ UNCHANGED <<head, newChain, raced, Chain>>

(* The ring was full: the producer that swaps newChain allocates another.  *)
Grow(p) ==
    /\ push[p].pc = "grow"
    /\ IF newChain
       THEN Goes(p, "start") /\ UNCHANGED <<rings, newChain, raced>>
       ELSE /\ newChain' = TRUE
            /\ rings' = Append(rings, NewRing(2 * rings[push[p].ring].size, <<Current(p)>>))
            /\ push' = [push EXCEPT ![p].pc = "newhead", ![p].slot = Len(rings) + 1]
            /\ raced' = (raced \/ push[p].ring # head)
    /\ UNCHANGED <<head, Chain>>

StoreHead(p) ==
    /\ push[p].pc = "newhead"
    /\ head' = push[p].slot
    /\ Goes(p, "newnext")
    /\ UNCHANGED <<rings, newChain, raced, Chain>>

StoreNext(p) ==
    /\ push[p].pc = "newnext"
    /\ rings' = [rings EXCEPT ![push[p].ring].next = push[p].slot]
    /\ Goes(p, "grown")
    /\ UNCHANGED <<head, newChain, raced, Chain>>

Grown(p) ==
    /\ push[p].pc = "grown"
    /\ newChain' = FALSE
    /\ Goes(p, "broadcast")
    /\ UNCHANGED <<rings, head, raced, Chain>>

(* Push ends with a broadcast, without the lock.                           *)
EndPush(p) ==
    /\ push[p].pc = "broadcast"
    /\ Broadcast
    /\ Pushed(p)
    /\ UNCHANGED <<rings, head, tail, newChain, popped, raced>>

-----------------------------------------------------------------------------
(* The consumer.                                                           *)

Same == UNCHANGED <<head, newChain, push, raced>>

LoadTail ==
    /\ pop.pc = "start"
    /\ pop' = [pop EXCEPT !.pc = "next", !.ring = tail]
    /\ UNCHANGED <<rings, tail, popped>> /\ Same

(* bufChain.popTail loads next before it tries the ring, ...               *)
LoadNext ==
    /\ pop.pc = "next"
    /\ pop' = [pop EXCEPT !.pc = "ring", !.next = rings[pop.ring].next]
    /\ UNCHANGED <<rings, tail, popped>> /\ Same

(* bufDequeue.popTail spins on a slot that is reserved and not filled.     *)
PopSlot ==
    LET r == rings[pop.ring]
    IN  /\ pop.pc = "ring"
        /\ r.slots # <<>> /\ r.slots[1] # Nil
        /\ popped' = Append(popped, r.slots[1])
        /\ pop' = [pop EXCEPT !.pc = "taken", !.again = TRUE]
        /\ UNCHANGED <<rings, tail>> /\ Same

MoveTail ==
    /\ pop.pc = "taken"
    /\ rings' = [rings EXCEPT ![pop.ring].tail = @ + 1, ![pop.ring].slots = Tail(@)]
    /\ pop' = [pop EXCEPT !.pc = "start"]
    /\ UNCHANGED <<tail, popped>> /\ Same

(* Mutant of DropRing: does not try the ring once there is a next one.     *)
DropRingUntried ==
    /\ pop.pc = "ring"
    /\ pop.next # 0
    /\ tail' = pop.next
    /\ pop' = [pop EXCEPT !.pc = "next", !.ring = pop.next]
    /\ UNCHANGED <<rings, popped>> /\ Same

(* ... and drops it when it is empty and there was a next one; ...         *)
DropRing ==
    /\ pop.pc = "ring"
    /\ rings[pop.ring].slots = <<>>
    /\ pop.next # 0
    /\ tail' = pop.next
    /\ pop' = [pop EXCEPT !.pc = "next", !.ring = pop.next]
    /\ UNCHANGED <<rings, popped>> /\ Same

(* ... otherwise the queue is empty.  Pop tries once more with the lock,   *)
(* then waits for a broadcast.                                             *)
Empty ==
    /\ pop.pc = "ring"
    /\ rings[pop.ring].slots = <<>>
    /\ pop.next = 0
    /\ pop' = [pop EXCEPT !.pc = IF pop.again THEN "start" ELSE "sleep", !.again = FALSE]
    /\ UNCHANGED <<rings, tail, popped>> /\ Same

PushStep(p) ==
    \/ SeeNoNewChain(p) \/ LoadHead(p) \/ Reserve(p) \/ Store(p)
    \/ Grow(p) \/ StoreHead(p) \/ StoreNext(p) \/ Grown(p) \/ EndPush(p)

PopStep == LoadTail \/ LoadNext \/ PopSlot \/ MoveTail \/ DropRing \/ Empty

Next == PopStep \/ \E p \in Producer : PushStep(p)

Spec == Init /\ [][Next]_vars

-----------------------------------------------------------------------------
PushPC == {"start", "head", "reserve", "store", "grow", "newhead", "newnext", "grown", "broadcast"}

(* Every part of the state has the type of its counterpart in the code.    *)
TypeOK ==
    /\ rings \in Seq([size : Nat, tail : Nat, slots : Seq(Element \cup {Nil}), next : Nat])
    /\ head \in DOMAIN rings /\ tail \in DOMAIN rings
    /\ newChain \in BOOLEAN /\ raced \in BOOLEAN
    /\ push \in [Producer -> [pc : PushPC, ring : Nat, slot : Nat, done : 0 .. Items]]
    /\ pop \in [pc : {"start", "next", "ring", "taken", "sleep"}, ring : Nat, next : Nat, again : BOOLEAN]
    /\ popped \in Seq(Element)
    /\ \A i \in DOMAIN rings : Len(rings[i].slots) <= rings[i].size

(* Where an element may be: in what was popped, place 0, or in the slots   *)
(* of a ring of the chain, by the number the slot has since the ring was   *)
(* made, without one that has just been taken.                             *)
First(d) == rings[d].tail + (IF pop.pc = "taken" /\ pop.ring = d THEN 2 ELSE 1)
Last(d)  == rings[d].tail + Len(rings[d].slots)
Place    == {<<0, a>> : a \in DOMAIN popped}
              \cup UNION {{<<d, a>> : a \in First(d) .. Last(d)} : d \in tail .. Len(rings)}
Holds(x) == IF x[1] = 0 THEN popped[x[2]] ELSE rings[x[1]].slots[x[2] - rings[x[1]].tail]
Before(x, y) == x[1] < y[1] \/ (x[1] = y[1] /\ x[2] < y[2])

(* The ring that follows one, or is about to.                              *)
Linking(d)  == {p \in Producer : push[p].pc \in {"newhead", "newnext"} /\ push[p].ring = d}
Follower(d) == IF Linking(d) = {} THEN rings[d].next
               ELSE push[CHOOSE p \in Linking(d) : TRUE].slot

Stored(p) == IF push[p].pc \in {"newhead", "newnext", "grown", "broadcast"}
             THEN push[p].done + 1 ELSE push[p].done

(***************************************************************************)
(* As long as no producer goes on with a ring that another has replaced,   *)
(* the queue is a queue: what a producer has pushed is there, each element *)
(* once and in order, in what was popped and in the chain, whose rings     *)
(* follow each other as they were made (queue.go:397, 431).                *)
(***************************************************************************)
IsQueue ==
    ~raced =>
        /\ \A d \in tail .. Len(rings) : Follower(d) = IF d = Len(rings) THEN 0 ELSE d + 1
        /\ \A p \in Producer, i \in 1 .. Items :
              (\E x \in Place : Holds(x) = <<p, i>>) <=> i <= Stored(p)
        /\ \A x, y \in Place :
              Nil \notin {Holds(x), Holds(y)} /\ Holds(x)[1] = Holds(y)[1] =>
                 (Before(x, y) <=> Holds(x)[2] < Holds(y)[2])

(***************************************************************************)
(* "if next is non-nil before the TryPop and the TryPop fails, then d is   *)
(* permanently empty" (queue.go:563): nothing is in a ring that was        *)
(* dropped from the chain.                                                 *)
(***************************************************************************)
DroppedIsEmpty == \A i \in DOMAIN rings : i < tail => rings[i].slots = <<>>
=============================================================================
