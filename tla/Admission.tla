------------------------------ MODULE Admission ------------------------------
(***************************************************************************)
(* How the server lets devices in and out: handleConn, handleRegister,     *)
(* register and removeDevice (internal/server/server.go) together with the *)
(* administrator's operations on devices (internal/server/control.go),     *)
(* over the device table.                                                  *)
(*                                                                         *)
(* Each connection has a goroutine of its own.  It takes the table's lock  *)
(* and the server's lock s.mu one after the other, so a step here is one   *)
(* critical section and everything may happen in between.  What a device   *)
(* is told about other devices once it is online is left out.              *)
(***************************************************************************)
EXTENDS DeviceTable

CONSTANTS
    Conn,       \* connections open at a time; the goroutine of each is reused
    NoConn,
    BaseName,   \* the display name each device reports
    MaxSuffix   \* bound: connections joined under one display name

VARIABLES
    dev,        \* the Device and the goroutine behind each connection
    devices,    \* Server.devices
    byID,       \* Server.byID
    holds,      \* the credential each device keeps on its own disk
    closing     \* devices whose connection an administrator is about to close

table  == vars
server == <<devices, byID>>
all    == <<table, dev, server, holds, closing>>

ASSUME ConnAssumption == NoConn \notin Conn /\ DOMAIN BaseName = HWID
ASSUME SuffixAssumption == MaxSuffix \in Nat \ {0}

Suffix == 1 .. MaxSuffix
Name   == {BaseName[h] : h \in HWID} \X Suffix
NoName == <<"", 0>>

PC == {"idle",      \* no connection
       "first",     \* challenge sent, first message awaited
       "credential",\* handleRegister, past IsBlocked
       "issue",     \* handleRegister, no credential found
       "recheck",   \* handleRegister, SetCredential refused
       "alloc",     \* Hello verified, before allocVIP
       "join",      \* register, before taking s.mu
       "online",    \* in the signalling loop
       "release"}   \* removeDevice, the address is to be released

Device ==
    [pc   : PC,
     who  : HWID \cup {NoHWID},     \* the device at the other end
     hwid : HWID \cup {NoHWID},     \* Device.HWID, NoHWID for ""
     addr : IP \cup {0},            \* Device.VIP; before join the local vip
     name : Name \cup {NoName},     \* base and suffix, suffix 1 for none
     open : BOOLEAN]                \* neither side has closed it

Idle == [pc |-> "idle", who |-> NoHWID, hwid |-> NoHWID, addr |-> 0,
         name |-> NoName, open |-> FALSE]

-----------------------------------------------------------------------------
AInit ==
    /\ Init
    /\ dev = [c \in Conn |-> Idle]
    /\ devices = [a \in IP |-> NoConn]
    /\ byID = [n \in Name |-> NoConn]
    /\ holds = [h \in HWID |-> NoID]
    /\ closing = {}

At(c, l)   == dev[c].pc = l
Goto(c, l) == dev' = [dev EXCEPT ![c].pc = l]

(* The goroutine of a connection that never joined ends: removeDevice finds*)
(* its VIP and name empty and changes nothing.                             *)
Drop(c) == dev' = [dev EXCEPT ![c] = Idle]

Accept(c, h) ==
    /\ At(c, "idle")
    /\ dev' = [dev EXCEPT ![c].pc = "first", ![c].who = h, ![c].open = TRUE]
    /\ UNCHANGED <<table, server, holds, closing>>

(* The read deadline passes, the peer hangs up, or the first message is    *)
(* malformed or fails verification.                                        *)
GiveUp(c) ==
    /\ At(c, "first")
    /\ Drop(c)
    /\ UNCHANGED <<table, server, holds, closing>>

-----------------------------------------------------------------------------
(* Mutant of Register: does not ask IsBlocked.                             *)
RegisterUnchecked(c) ==
    /\ At(c, "first")
    /\ holds[dev[c].who] = NoID
    /\ Goto(c, "credential")
    /\ UNCHANGED <<table, server, holds, closing>>

(* Registration, sent by a device that keeps no credential.                *)
Register(c) ==
    /\ At(c, "first")
    /\ holds[dev[c].who] = NoID
    /\ IF blocked[dev[c].who] THEN Drop(c) ELSE Goto(c, "credential")
    /\ UNCHANGED <<table, server, holds, closing>>

(* RegisterOK; the device stores the credential unless the reply is lost.  *)
Reply(c, id) ==
    /\ \/ holds' = [holds EXCEPT ![dev[c].who] = id]
       \/ UNCHANGED holds
    /\ Drop(c)

LookUpCredential(c) ==
    /\ dev[c].pc \in {"credential", "recheck"}
    /\ IF deviceID[dev[c].who] # NoID
       THEN Reply(c, deviceID[dev[c].who])
       ELSE /\ IF At(c, "recheck") THEN Drop(c) ELSE Goto(c, "issue")
            /\ UNCHANGED holds
    /\ UNCHANGED <<table, server, closing>>

(* GenerateDeviceID is random: no device keeps the id from earlier times.  *)
IssueCredential(c, id) ==
    /\ At(c, "issue")
    /\ \A h \in HWID : holds[h] # id
    /\ \/ SetCredential(dev[c].who, id) /\ Reply(c, id)
       \/ /\ byDeviceID[id] \notin {NoHWID, dev[c].who} \/ deviceID[dev[c].who] # NoID
          /\ Goto(c, "recheck")
          /\ UNCHANGED <<table, holds>>
    /\ UNCHANGED <<server, closing>>

-----------------------------------------------------------------------------
(* Hello with the stored credential; a device that cannot determine its    *)
(* hardware id sends none.  A refused device drops its credential.         *)
Hello(c, h) ==
    /\ At(c, "first")
    /\ holds[dev[c].who] # NoID
    /\ h \in {dev[c].who, NoHWID}
    /\ IF byDeviceID[holds[dev[c].who]] = NoHWID
       THEN /\ Drop(c)
            /\ holds' = [holds EXCEPT ![dev[c].who] = NoID]
       ELSE /\ dev' = [dev EXCEPT ![c].pc = "alloc", ![c].hwid = h]
            /\ UNCHANGED holds
    /\ UNCHANGED <<table, server, closing>>

(* register, first half: allocVIP, outside s.mu.                           *)
AllocVIP(c) ==
    /\ At(c, "alloc")
    /\ IF dev[c].hwid # NoHWID
       THEN \/ /\ Granted(dev[c].hwid)
               /\ dev' = [dev EXCEPT ![c].pc = "join", ![c].addr = vip'[dev[c].hwid]]
            \/ AssignFull(dev[c].hwid) /\ Drop(c)
       ELSE \/ /\ AllocAnonymous
               /\ \E a \in anon' \ anon :
                     dev' = [dev EXCEPT ![c].pc = "join", ![c].addr = a]
            \/ Pool \subseteq used /\ Drop(c) /\ UNCHANGED table
    /\ UNCHANGED <<server, holds, closing>>

(* Mutant of FreeName: counts suffixes from zero.                          *)
FreeNameFromZero(b, taken) ==
    {<<b, i - 1>> : i \in {j \in Suffix : /\ taken[<<b, j>>] = NoConn
                                         /\ \A k \in 1 .. j - 1 : taken[<<b, k>>] # NoConn}}

(* register, second half: the name gets the first free suffix, a connection*)
(* that has the address is closed, and the new one takes its place.        *)
FreeName(b, taken) ==
    {<<b, i>> : i \in {j \in Suffix : /\ taken[<<b, j>>] = NoConn
                                     /\ \A k \in 1 .. j - 1 : taken[<<b, k>>] # NoConn}}

(* Mutant of Join: does not close the connection it replaces.              *)
JoinBeside(c) ==
    /\ At(c, "join")
    /\ \E n \in FreeName(BaseName[dev[c].who], byID) :
          /\ dev' = [dev EXCEPT ![c].pc = "online", ![c].name = n]
          /\ byID' = [byID EXCEPT ![n] = c]
    /\ devices' = [devices EXCEPT ![dev[c].addr] = c]
    /\ UNCHANGED <<table, holds, closing>>

Join(c) ==
    LET old == devices[dev[c].addr]
    IN  /\ At(c, "join")
        /\ \E n \in FreeName(BaseName[dev[c].who], byID) :
              /\ dev' = [d \in Conn |->
                           CASE d = c -> [dev[d] EXCEPT !.pc = "online", !.name = n]
                             [] d # c /\ d = old -> [dev[d] EXCEPT !.open = FALSE]
                             [] OTHER -> dev[d]]
              /\ byID' = [byID EXCEPT ![n] = c]
        /\ devices' = [devices EXCEPT ![dev[c].addr] = c]
        /\ UNCHANGED <<table, holds, closing>>

(* The peer hangs up, or nothing is read for 60 seconds.                   *)
Break(c) ==
    /\ At(c, "online")
    /\ dev[c].open
    /\ dev' = [dev EXCEPT ![c].open = FALSE]
    /\ UNCHANGED <<table, server, holds, closing>>

(* Mutant of Remove: returns early when the address has been taken over.   *)
RemoveOwn(c) ==
    LET a == dev[c].addr
        n == dev[c].name
    IN  /\ At(c, "online")
        /\ ~dev[c].open
        /\ devices' = [devices EXCEPT ![a] = IF @ = c THEN NoConn ELSE @]
        /\ byID' = [byID EXCEPT ![n] = IF devices[a] = c THEN NoConn ELSE @]
        /\ IF dev[c].hwid = NoHWID /\ devices[a] = c THEN Goto(c, "release") ELSE Drop(c)
        /\ UNCHANGED <<table, holds, closing>>

(* removeDevice, under s.mu: an entry is deleted only if it is this        *)
(* connection's.  A connection without a hardware id whose address nobody  *)
(* took over gives the address back, in a step of its own.                 *)
Remove(c) ==
    LET a == dev[c].addr
        n == dev[c].name
    IN  /\ At(c, "online")
        /\ ~dev[c].open
        /\ devices' = [devices EXCEPT ![a] = IF @ = c THEN NoConn ELSE @]
        /\ byID' = [byID EXCEPT ![n] = IF @ = c THEN NoConn ELSE @]
        /\ IF dev[c].hwid = NoHWID /\ devices'[a] = NoConn THEN Goto(c, "release") ELSE Drop(c)
        /\ UNCHANGED <<table, holds, closing>>

Release(c) ==
    /\ At(c, "release")
    /\ ReleaseAnonymous(dev[c].addr)
    /\ Drop(c)
    /\ UNCHANGED <<server, holds, closing>>

-----------------------------------------------------------------------------
(* Operations of the administration page.  Each first changes the table    *)
(* and then looks the device up among those online and closes it.          *)
RevokeDeviceCredential(h) ==
    /\ Block(h)
    /\ closing' = closing \cup {h}
    /\ UNCHANGED <<dev, server, holds>>

UnblockDevice(h) ==
    /\ Unblock(h)
    /\ UNCHANGED <<dev, server, holds, closing>>

(* Setting the address a device already has disconnects it all the same.   *)
SetDeviceIP(h, a) ==
    /\ \/ SetIP(h, a)
       \/ a \in Pool /\ vip[h] = a /\ UNCHANGED table
    /\ closing' = closing \cup {h}
    /\ UNCHANGED <<dev, server, holds>>

(* findByHWID returns any online connection of the device, or none.        *)
FindByHWID(h) == {c \in Conn : dev[c].hwid = h /\ \E a \in IP : devices[a] = c}

CloseDevice(h) ==
    /\ h \in closing
    /\ closing' = closing \ {h}
    /\ \/ \E c \in FindByHWID(h) : dev' = [dev EXCEPT ![c].open = FALSE]
       \/ FindByHWID(h) = {} /\ UNCHANGED dev
    /\ UNCHANGED <<table, server, holds>>

(* The lease sweeper, and time.                                            *)
Sweep   == Prune /\ UNCHANGED <<dev, server, holds, closing>>
Advance == Tick /\ UNCHANGED <<dev, server, holds, closing>>

ANext ==
    \/ \E c \in Conn, h \in HWID : Accept(c, h)
    \/ \E c \in Conn : GiveUp(c)
    \/ \E c \in Conn : Register(c)
    \/ \E c \in Conn : LookUpCredential(c)
    \/ \E c \in Conn, id \in DeviceID : IssueCredential(c, id)
    \/ \E c \in Conn, h \in HWID \cup {NoHWID} : Hello(c, h)
    \/ \E c \in Conn : AllocVIP(c)
    \/ \E c \in Conn : Join(c)
    \/ \E c \in Conn : Break(c)
    \/ \E c \in Conn : Remove(c)
    \/ \E c \in Conn : Release(c)
    \/ \E h \in HWID : RevokeDeviceCredential(h)
    \/ \E h \in HWID : UnblockDevice(h)
    \/ \E h \in HWID, a \in Pool : SetDeviceIP(h, a)
    \/ \E h \in HWID : CloseDevice(h)
    \/ Sweep
    \/ Advance

ASpec == AInit /\ [][ANext]_all

-----------------------------------------------------------------------------
(* The connections and the server's two indexes are well typed.            *)
ATypeOK ==
    /\ TypeOK
    /\ dev \in [Conn -> Device]
    /\ devices \in [IP -> Conn \cup {NoConn}]
    /\ byID \in [Name -> Conn \cup {NoConn}]
    /\ holds \in [HWID -> DeviceID \cup {NoID}]
    /\ closing \subseteq HWID

Online(c) == At(c, "online") /\ dev[c].open

(***************************************************************************)
(* A connection that is online and has not been closed is the one the relay*)
(* finds at its address, so no two share one: a takeover, a lapsed lease   *)
(* and an administrator's move all pass through register and removeDevice, *)
(* and a late removeDevice must not take away the entry of a successor.    *)
(***************************************************************************)
OneConnPerAddress == \A c \in Conn : Online(c) => devices[dev[c].addr] = c

(***************************************************************************)
(* devices and byID only lead to connections whose goroutine has not yet   *)
(* removed them, under the address and name they have; and every joined    *)
(* connection is found under its name, so names online are distinct, also  *)
(* while the goroutine of a connection that was replaced is still to end.  *)
(***************************************************************************)
NoGhost ==
    /\ \A a \in IP : LET c == devices[a] IN
          c # NoConn => At(c, "online") /\ dev[c].addr = a
    /\ \A n \in Name : LET c == byID[n] IN
          c # NoConn => At(c, "online") /\ dev[c].name = n
    /\ \A c \in Conn : At(c, "online") => byID[dev[c].name] = c

(* A connection without a hardware id that has been given an address.      *)
Guest(c) == dev[c].hwid = NoHWID /\ dev[c].pc \in {"join", "online", "release"}

(***************************************************************************)
(* A connection without a hardware id has its address to itself until it   *)
(* gives it back: removeDevice decides under s.mu whether to release it and*)
(* releases it outside, and must never release one still in use.           *)
(***************************************************************************)
GuestKeepsAddress ==
    /\ \A c \in Conn : Guest(c) => dev[c].addr \in anon
    /\ \A c, d \in Conn : Guest(c) /\ Guest(d) /\ dev[c].addr = dev[d].addr => c = d
    /\ anon \cap {vip[h] : h \in HWID} = {}

(* Blocked, without a credential, and with no connection past the checks.  *)
Quiet(h) ==
    /\ blocked[h] /\ deviceID[h] = NoID
    /\ \A c \in Conn : dev[c].who = h => At(c, "first")

(***************************************************************************)
(* Blocking lasts: from a state in which a blocked device has no credential*)
(* and no connection that has passed the checks of registration or Hello,  *)
(* no step but UnblockDevice lets it get either.                           *)
(***************************************************************************)
BlockHolds == [][\A h \in HWID : Quiet(h) /\ blocked'[h] => Quiet(h)']_all

(***************************************************************************)
(* What the comment on deviceRecord.Blocked says (devices.go:50): while a  *)
(* device is blocked, registration and credentials are refused and it      *)
(* cannot be on the network, once the administrator's call has returned.   *)
(***************************************************************************)
BlockedStaysOut ==
    \A c \in Conn : Online(c) /\ dev[c].hwid \in HWID \ closing => ~blocked[dev[c].hwid]
=============================================================================
