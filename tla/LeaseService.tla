---------------------------- MODULE LeaseService -----------------------------
(***************************************************************************)
(* What the device table promises about addresses, without indexes, pool   *)
(* bookkeeping or files: a device that connects before its lease has run   *)
(* out gets the address it had; an address is taken from a device only     *)
(* when the lease has run out or an administrator moves the device; a      *)
(* device is turned away only when no address is free.                     *)
(***************************************************************************)
EXTENDS Integers

CONSTANTS
    Device,     \* devices with a stable identity
    Address,    \* addresses the service owns
    Duration    \* length of a lease

VARIABLES
    lease,      \* the address of each device, 0 for none
    until,      \* when the lease runs out, 0 for never
    guests,     \* addresses lent to connections without an identity
    now

vars == <<lease, until, guests, now>>

Init ==
    /\ lease = [d \in Device |-> 0]
    /\ until = [d \in Device |-> 0]
    /\ guests = {}
    /\ now \in Nat

Lapsed == {d \in Device : lease[d] # 0 /\ until[d] # 0 /\ until[d] <= now}
Kept   == [d \in Device |-> IF d \in Lapsed THEN 0 ELSE lease[d]]
KeptUntil == [d \in Device |-> IF d \in Lapsed THEN 0 ELSE until[d]]
Free(l) == {a \in Address : a \notin guests /\ \A d \in Device : l[d] # a}

(* A device connects: lapsed leases go back first; then it keeps what it   *)
(* has or is given a free address, for a full lease period.                *)
Connect(d) ==
    /\ \E a \in IF Kept[d] # 0 THEN {Kept[d]} ELSE Free(Kept) :
          lease' = [Kept EXCEPT ![d] = a]
    /\ until' = [KeptUntil EXCEPT ![d] = now + Duration]
    /\ UNCHANGED <<guests, now>>

Reclaim ==
    /\ Lapsed # {}
    /\ lease' = Kept
    /\ until' = KeptUntil
    /\ UNCHANGED <<guests, now>>

Move(d, a) ==
    /\ a \in Free(lease)
    /\ lease' = [lease EXCEPT ![d] = a]
    /\ UNCHANGED <<until, guests, now>>

GuestIn(a) ==
    /\ a \in Free(lease)
    /\ guests' = guests \cup {a}
    /\ UNCHANGED <<lease, until, now>>

GuestOut(a) ==
    /\ a \in guests
    /\ guests' = guests \ {a}
    /\ UNCHANGED <<lease, until, now>>

Pass ==
    /\ now' = now + 1
    /\ UNCHANGED <<lease, until, guests>>

Next ==
    \/ \E d \in Device : Connect(d)
    \/ Reclaim
    \/ \E d \in Device, a \in Address : Move(d, a)
    \/ \E a \in Address : GuestIn(a) \/ GuestOut(a)
    \/ Pass

Spec == Init /\ [][Next]_vars
=============================================================================
