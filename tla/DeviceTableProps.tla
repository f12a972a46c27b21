-------------------------- MODULE DeviceTableProps ---------------------------
(***************************************************************************)
(* Correctness properties of the device table.                             *)
(***************************************************************************)
EXTENDS DeviceTable

(* Addresses that some record holds.                                       *)
Leased == {vip[h] : h \in HWID} \ {0}

(***************************************************************************)
(* No two devices are recorded with the same address, the reverse index    *)
(* byVIP names exactly the holder of each address, and every address comes *)
(* from the pool.  Assign, SetIP and pruneLocked each update the record    *)
(* and the index separately.                                               *)
(***************************************************************************)
UniqueLease ==
    /\ \A g, h \in HWID : vip[g] # 0 /\ vip[g] = vip[h] => g = h
    /\ \A a \in IP, h \in HWID : byVIP[a] = h <=> vip[h] = a
    /\ \A h \in HWID : vip[h] \in Pool \cup {0}

(***************************************************************************)
(* The pool's used set is exactly the leased addresses plus those lent to  *)
(* connections without a hardware id, and no address is both: nothing      *)
(* leaks out of the pool and nothing in use is free to be handed out.      *)
(***************************************************************************)
PoolExact ==
    /\ used = Leased \cup anon
    /\ Leased \cap anon = {}

(***************************************************************************)
(* DeviceKeyByID finds a device by a credential exactly when that is the   *)
(* credential its record holds: a cleared or blocked credential is not     *)
(* found, and no credential leads to two devices.                          *)
(***************************************************************************)
CredentialIndex ==
    \A id \in DeviceID, h \in HWID : byDeviceID[id] = h <=> deviceID[h] = id

(***************************************************************************)
(* Unless the latest write failed, a crash now would lose nothing but      *)
(* leases that have run out: Assign's error return skips saveLocked after  *)
(* it has pruned the table and created a record.                           *)
(***************************************************************************)
Durable ==
    ~stale => \A h \in HWID :
        /\ file.deviceID[h] = deviceID[h]
        /\ file.blocked[h] = blocked[h]
        /\ file.forward[h] = forward[h]
        /\ \/ file.vip[h] = vip[h] /\ (vip[h] # 0 => file.expireAt[h] = expireAt[h])
           \/ vip[h] = 0 /\ file.expireAt[h] # 0 /\ file.expireAt[h] <= clock

(***************************************************************************)
(* The address that Assign returns is one the pool knows to be taken, also *)
(* when the record named an address outside the pool (an edited file, a    *)
(* migrated server) or one the restarted pool had forgotten.               *)
(***************************************************************************)
GrantIsHeld ==
    [][\A h \in HWID : Granted(h) => vip'[h] \in used' \cap Pool]_vars

(***************************************************************************)
(* An entry of the reverse index never outlives the record's address: an   *)
(* address that was released, moved away from or replaced is not reported  *)
(* by SetIP as taken by its former holder.                                 *)
(***************************************************************************)
NoDanglingIndex ==
    \A a \in IP, h \in HWID : byVIP[a] = h => vip[h] = a

(***************************************************************************)
(* The table keeps the promise about addresses that LeaseService states.   *)
(***************************************************************************)
Promise == INSTANCE LeaseService WITH
               Device <- HWID, Address <- Pool, Duration <- LeaseDuration,
               lease <- vip, until <- expireAt, guests <- anon, now <- clock

LeasePromise == Promise!Spec
=============================================================================
