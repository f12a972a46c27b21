----------------------------- MODULE DeviceTable -----------------------------
(***************************************************************************)
(* The server's persistent device table (internal/server/devices.go) over *)
(* the virtual address pool (internal/server/ipalloc.go).                  *)
(*                                                                         *)
(* Every method of DeviceTable holds t.mu from its first read to its last  *)
(* write, saveLocked included, so each one is a single action here.  The   *)
(* map byHWID is a set of known hardware ids and one function per record   *)
(* field; a record that does not exist has blank fields.  The display name *)
(* is left out, and DeviceKey stands and falls with DeviceID.  A call that *)
(* returns early without a change is a stuttering step.                    *)
(***************************************************************************)
EXTENDS Integers

CONSTANTS
    HWID,           \* hardware ids of devices (never the empty string)
    NoHWID,         \* "not in the index"
    DeviceID,       \* credential ids that registration can generate
    NoID,           \* the empty DeviceID: not registered
    RuleSet,        \* forwarding rule sets an administrator may submit
    ValidRules,     \* those that forward.ParseSet accepts
    NoRules,        \* the empty rule set
    StartIP, EndIP, \* first and last address of the pool
    ForeignIP,      \* other addresses an edited or migrated file may hold
    LeaseDuration,  \* length of a lease in clock ticks (31 days)
    MaxClock,       \* bound: the clock stops here
    SaveMayFail     \* whether writing the device file can fail

VARIABLES
    known,      \* DOMAIN byHWID
    vip,        \* record.VIP, 0 when the record has no address
    expireAt,   \* record.ExpireAt, 0 for the zero time
    forward,    \* record.Forward
    deviceID,   \* record.DeviceID (and DeviceKey)
    blocked,    \* record.Blocked
    byVIP,      \* reverse index address -> hardware id
    byDeviceID, \* reverse index credential -> hardware id
    used,       \* IPPool.used
    anon,       \* addresses given to connections without a hardware id
    file,       \* contents of the device file
    stale,      \* the latest attempt to write the file failed
    clock       \* time.Now(); positive, so it is never the zero time

record == <<known, vip, expireAt, forward, deviceID, blocked>>
index  == <<byVIP, byDeviceID>>
disk   == <<file, stale>>
vars   == <<record, index, used, anon, disk, clock>>

Pool == StartIP .. EndIP
IP   == Pool \cup ForeignIP

ASSUME PoolAssumption == /\ StartIP \in Nat \ {0}
                         /\ EndIP \in Nat
                         /\ ForeignIP \subseteq Nat \ ({0} \cup Pool)
ASSUME TimeAssumption == LeaseDuration \in Nat \ {0} /\ MaxClock \in Nat
ASSUME NullAssumption == NoHWID \notin HWID /\ NoID \notin DeviceID
ASSUME RuleAssumption == /\ ValidRules \subseteq RuleSet
                         /\ NoRules \in ValidRules
ASSUME SaveAssumption == SaveMayFail \in BOOLEAN

-----------------------------------------------------------------------------
(* What the device file holds: one entry per record.                       *)
DeviceFile ==
    [known    : SUBSET HWID,
     vip      : [HWID -> IP \cup {0}],
     expireAt : [HWID -> Nat],
     forward  : [HWID -> RuleSet],
     deviceID : [HWID -> DeviceID \cup {NoID}],
     blocked  : [HWID -> BOOLEAN]]

EmptyFile ==
    [known    |-> {},
     vip      |-> [h \in HWID |-> 0],
     expireAt |-> [h \in HWID |-> 0],
     forward  |-> [h \in HWID |-> NoRules],
     deviceID |-> [h \in HWID |-> NoID],
     blocked  |-> [h \in HWID |-> FALSE]]

(* Each component of the state has the type of the Go field it stands for. *)
TypeOK ==
    /\ known \subseteq HWID
    /\ vip \in [HWID -> IP \cup {0}]
    /\ expireAt \in [HWID -> Nat]
    /\ forward \in [HWID -> RuleSet]
    /\ deviceID \in [HWID -> DeviceID \cup {NoID}]
    /\ blocked \in [HWID -> BOOLEAN]
    /\ byVIP \in [IP -> HWID \cup {NoHWID}]
    /\ byDeviceID \in [DeviceID -> HWID \cup {NoHWID}]
    /\ used \subseteq Pool
    /\ anon \subseteq Pool
    /\ file \in DeviceFile
    /\ stale \in BOOLEAN
    /\ clock \in Nat \ {0}

(* First start of the server: no device file yet, an empty address pool.   *)
Init ==
    /\ known = {}
    /\ vip = [h \in HWID |-> 0]
    /\ expireAt = [h \in HWID |-> 0]
    /\ forward = [h \in HWID |-> NoRules]
    /\ deviceID = [h \in HWID |-> NoID]
    /\ blocked = [h \in HWID |-> FALSE]
    /\ byVIP = [a \in IP |-> NoHWID]
    /\ byDeviceID = [id \in DeviceID |-> NoHWID]
    /\ used = {}
    /\ anon = {}
    /\ file = EmptyFile
    /\ stale = FALSE
    /\ clock = 1

-----------------------------------------------------------------------------
(* saveLocked: the whole table replaces the file, by way of a temporary    *)
(* file and a rename.  ExpireAt is written only next to an address.  When  *)
(* the write fails the old file stays and the error is only logged.        *)
saveLocked ==
    \/ /\ file' = [known    |-> known',
                   vip      |-> vip',
                   expireAt |-> [h \in HWID |-> IF vip'[h] = 0 THEN 0 ELSE expireAt'[h]],
                   forward  |-> forward',
                   deviceID |-> deviceID',
                   blocked  |-> blocked']
       /\ stale' = FALSE
    \/ /\ SaveMayFail
       /\ file' = file
       /\ stale' = TRUE

(* Mutant of Alloc: does not look at what is used.                         *)
AllocFirst(u, a) == a = StartIP /\ u \subseteq Pool

(* IPPool.Alloc hands out the lowest address of the pool not in u.         *)
Alloc(u, a) == /\ a \in Pool \ u
               /\ \A b \in Pool \ u : a <= b

(* Mutants of pruneLocked: an expiry compared off by one, an index entry   *)
(* not deleted, an address not released.                                   *)
ExpiredEarly     == {h \in known : vip[h] # 0 /\ expireAt[h] # 0 /\ expireAt[h] <= clock + 1}
PrunedIndexKept  == byVIP
PrunedUsedKept   == used

(* pruneLocked: the records whose lease has run out, and the table and the *)
(* pool once their addresses have been taken back.                         *)
Expired == {h \in known : vip[h] # 0 /\ expireAt[h] # 0 /\ expireAt[h] <= clock}
PrunedVIP    == [h \in HWID |-> IF h \in Expired THEN 0 ELSE vip[h]]
PrunedExpiry == [h \in HWID |-> IF h \in Expired THEN 0 ELSE expireAt[h]]
PrunedIndex  == [a \in IP |-> IF \E h \in Expired : vip[h] = a THEN NoHWID ELSE byVIP[a]]
PrunedUsed   == {a \in used : \A h \in Expired : vip[h] # a}

-----------------------------------------------------------------------------
(* Registration issues a credential; only the first one is accepted.       *)
SetCredential(h, id) ==
    /\ byDeviceID[id] \in {NoHWID, h}
    /\ deviceID[h] = NoID
    /\ known' = known \cup {h}
    /\ deviceID' = [deviceID EXCEPT ![h] = id]
    /\ byDeviceID' = [byDeviceID EXCEPT ![id] = h]
    /\ UNCHANGED <<vip, expireAt, forward, blocked, byVIP, used, anon, clock>>
    /\ saveLocked

(* Mutant of ClearCredential: does not save.                               *)
ClearUnsaved(h) ==
    /\ deviceID[h] # NoID
    /\ byDeviceID' = [byDeviceID EXCEPT ![deviceID[h]] = NoHWID]
    /\ deviceID' = [deviceID EXCEPT ![h] = NoID]
    /\ UNCHANGED <<known, vip, expireAt, forward, blocked, byVIP, used, anon, clock, disk>>

ClearCredential(h) ==
    /\ deviceID[h] # NoID
    /\ byDeviceID' = [byDeviceID EXCEPT ![deviceID[h]] = NoHWID]
    /\ deviceID' = [deviceID EXCEPT ![h] = NoID]
    /\ UNCHANGED <<known, vip, expireAt, forward, blocked, byVIP, used, anon, clock>>
    /\ saveLocked

(* Mutant of Block: leaves the credential in the index.                    *)
BlockIndexed(h) ==
    /\ ~(blocked[h] /\ deviceID[h] = NoID)
    /\ known' = known \cup {h}
    /\ blocked' = [blocked EXCEPT ![h] = TRUE]
    /\ deviceID' = [deviceID EXCEPT ![h] = NoID]
    /\ UNCHANGED <<vip, expireAt, forward, index, used, anon, clock>>
    /\ saveLocked

(* Block creates the record of a device that was never seen.               *)
Block(h) ==
    /\ ~(blocked[h] /\ deviceID[h] = NoID)
    /\ known' = known \cup {h}
    /\ blocked' = [blocked EXCEPT ![h] = TRUE]
    /\ deviceID' = [deviceID EXCEPT ![h] = NoID]
    /\ byDeviceID' = [id \in DeviceID |-> IF id = deviceID[h] THEN NoHWID ELSE byDeviceID[id]]
    /\ UNCHANGED <<vip, expireAt, forward, byVIP, used, anon, clock>>
    /\ saveLocked

Unblock(h) ==
    /\ blocked[h]
    /\ blocked' = [blocked EXCEPT ![h] = FALSE]
    /\ UNCHANGED <<known, vip, expireAt, forward, deviceID, index, used, anon, clock>>
    /\ saveLocked

(* Assign, after pruning: the record gets address a, the pool becomes u,   *)
(* the lease is extended and the table saved.                              *)
Lease(h, a, u, idx) ==
    /\ known' = known \cup {h}
    /\ vip' = [PrunedVIP EXCEPT ![h] = a]
    /\ expireAt' = [PrunedExpiry EXCEPT ![h] = clock + LeaseDuration]
    /\ byVIP' = idx
    /\ used' = u
    /\ UNCHANGED <<forward, deviceID, blocked, byDeviceID, anon, clock>>
    /\ saveLocked

(* The record has no address, or one that cannot be had back.              *)
NeedsNew(h) ==
    \/ PrunedVIP[h] = 0
    \/ PrunedVIP[h] \notin PrunedUsed /\ PrunedVIP[h] \notin Pool

AssignNew(h) ==
    /\ NeedsNew(h)
    /\ \E a \in Pool :
          /\ Alloc(PrunedUsed, a)
          /\ Lease(h, a, PrunedUsed \cup {a},
                   [x \in IP |-> CASE x = a -> h
                                   [] x # a /\ x = PrunedVIP[h] -> NoHWID
                                   [] OTHER -> PrunedIndex[x]])

(* Mutant of AssignRenew: does not ask the pool.                           *)
AssignRenewAnyway(h) ==
    /\ PrunedVIP[h] # 0
    /\ Lease(h, PrunedVIP[h], PrunedUsed, PrunedIndex)

(* pool.Held(rec.VIP): "still in its own name", extend the lease.          *)
AssignRenew(h) ==
    /\ PrunedVIP[h] # 0
    /\ PrunedVIP[h] \in PrunedUsed
    /\ Lease(h, PrunedVIP[h], PrunedUsed, PrunedIndex)

(* The record remembers an address the pool does not: take it back.        *)
AssignReclaim(h) ==
    /\ PrunedVIP[h] \in Pool
    /\ PrunedVIP[h] \notin PrunedUsed
    /\ Lease(h, PrunedVIP[h], PrunedUsed \cup {PrunedVIP[h]}, PrunedIndex)

(* No address left: the error return leaves the pruning and the fresh      *)
(* record in memory and does not save.                                     *)
AssignFull(h) ==
    /\ NeedsNew(h)
    /\ Pool \subseteq PrunedUsed
    /\ known' = known \cup {h}
    /\ vip' = PrunedVIP
    /\ expireAt' = PrunedExpiry
    /\ byVIP' = PrunedIndex
    /\ used' = PrunedUsed
    /\ UNCHANGED <<forward, deviceID, blocked, byDeviceID, anon, disk, clock>>

Granted(h) == AssignNew(h) \/ AssignRenew(h) \/ AssignReclaim(h)
Assign(h)  == Granted(h) \/ AssignFull(h)

SetForward(h, rules) ==
    /\ rules \in ValidRules
    /\ known' = known \cup {h}
    /\ forward' = [forward EXCEPT ![h] = rules]
    /\ UNCHANGED <<vip, expireAt, deviceID, blocked, index, used, anon, clock>>
    /\ saveLocked

(* Mutant of SetIP: leaves the old address in the index.                   *)
SetIPIndexed(h, a) ==
    /\ h \in known
    /\ byVIP[a] \in {NoHWID, h}
    /\ vip[h] # a
    /\ a \notin used
    /\ used' = (used \cup {a}) \ {vip[h]}
    /\ vip' = [vip EXCEPT ![h] = a]
    /\ byVIP' = [byVIP EXCEPT ![a] = h]
    /\ UNCHANGED <<known, expireAt, forward, deviceID, blocked, byDeviceID, anon, clock>>
    /\ saveLocked

(* An administrator moves a device to address a: the new address is taken  *)
(* before the old one is given back.                                       *)
SetIP(h, a) ==
    /\ h \in known
    /\ a \in Pool
    /\ byVIP[a] \in {NoHWID, h}
    /\ vip[h] # a
    /\ a \notin used
    /\ used' = (used \cup {a}) \ {vip[h]}
    /\ vip' = [vip EXCEPT ![h] = a]
    /\ byVIP' = [x \in IP |-> CASE x = a -> h
                                [] x # a /\ x = vip[h] -> NoHWID
                                [] OTHER -> byVIP[x]]
    /\ UNCHANGED <<known, expireAt, forward, deviceID, blocked, byDeviceID, anon, clock>>
    /\ saveLocked

(* The lease sweeper's call.                                               *)
Prune ==
    /\ Expired # {}
    /\ vip' = PrunedVIP
    /\ expireAt' = PrunedExpiry
    /\ byVIP' = PrunedIndex
    /\ used' = PrunedUsed
    /\ UNCHANGED <<known, forward, deviceID, blocked, byDeviceID, anon, clock>>
    /\ saveLocked

(* Mutant of AllocAnonymous: the search runs one address past the pool.    *)
AllocPastEnd ==
    /\ \E a \in (StartIP .. EndIP + 1) \ used :
          /\ \A b \in (StartIP .. EndIP + 1) \ used : a <= b
          /\ used' = used \cup {a}
          /\ anon' = anon \cup {a}
    /\ UNCHANGED <<record, index, disk, clock>>

(* Server.allocVIP for a connection without a hardware id, and the release *)
(* of that address when the connection is removed.                         *)
AllocAnonymous ==
    /\ \E a \in Pool : /\ Alloc(used, a)
                       /\ used' = used \cup {a}
                       /\ anon' = anon \cup {a}
    /\ UNCHANGED <<record, index, disk, clock>>

ReleaseAnonymous(a) ==
    /\ a \in anon
    /\ used' = used \ {a}
    /\ anon' = anon \ {a}
    /\ UNCHANGED <<record, index, disk, clock>>

Tick ==
    /\ clock < MaxClock
    /\ clock' = clock + 1
    /\ UNCHANGED <<record, index, used, anon, disk>>

Next ==
    \/ \E h \in HWID, id \in DeviceID : SetCredential(h, id)
    \/ \E h \in HWID : ClearCredential(h)
    \/ \E h \in HWID : Block(h)
    \/ \E h \in HWID : Unblock(h)
    \/ \E h \in HWID : Assign(h)
    \/ \E h \in HWID, rules \in RuleSet : SetForward(h, rules)
    \/ \E h \in HWID, a \in Pool : SetIP(h, a)
    \/ Prune
    \/ AllocAnonymous
    \/ \E a \in Pool : ReleaseAnonymous(a)
    \/ Tick

(* One lifetime of the server process, from the first start on.            *)
Spec == Init /\ [][Next]_vars

-----------------------------------------------------------------------------
(* NewDeviceTable and NewIPPool on file contents f.  The pool starts empty *)
(* whatever the file says.  Entries that share an address are indexed in   *)
(* file order: the last one gets byVIP, the first one byDeviceID; hardware *)
(* ids are not ordered here, so any of them may be that one.               *)
Load(f) ==
    /\ known' = f.known
    /\ vip' = f.vip
    /\ expireAt' = f.expireAt
    /\ forward' = f.forward
    /\ deviceID' = f.deviceID
    /\ blocked' = f.blocked
    /\ byVIP' \in [IP -> HWID \cup {NoHWID}]
    /\ \A a \in IP : LET named == {h \in f.known : f.vip[h] = a}
                     IN  IF named = {} THEN byVIP'[a] = NoHWID ELSE byVIP'[a] \in named
    /\ byDeviceID' \in [DeviceID -> HWID \cup {NoHWID}]
    /\ \A id \in DeviceID :
          LET named == {h \in f.known : f.deviceID[h] = id}
          IN  IF named = {} THEN byDeviceID'[id] = NoHWID ELSE byDeviceID'[id] \in named
    /\ used' = {}
    /\ anon' = {}
    /\ file' = f
    /\ stale' = FALSE
    /\ UNCHANGED clock

(* The server stops or crashes and starts again.  A crash between a change *)
(* in memory and its save is a failed save followed by this step.          *)
Restart == Load(file)

(* While the server is down an administrator changes the address of one    *)
(* entry; 0 stands for text that does not parse as an address.             *)
RestartEdited(h, a) ==
    /\ h \in file.known
    /\ Load([file EXCEPT !.vip[h] = a])

(* The file is unreadable or damaged: it is set aside, the table is empty. *)
RestartFileLost == Load(EmptyFile)

RestartNext == Next \/ Restart
RestartSpec == Init /\ [][RestartNext]_vars

MaintainedNext ==
    \/ RestartNext
    \/ \E h \in HWID, a \in ForeignIP \cup Pool \cup {0} : RestartEdited(h, a)
    \/ RestartFileLost

(* Any number of lifetimes, with a file that may be edited or lost.        *)
MaintainedSpec == Init /\ [][MaintainedNext]_vars
=============================================================================
