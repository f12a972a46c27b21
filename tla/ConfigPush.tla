----------------------------- MODULE ConfigPush -----------------------------
(***************************************************************************)
(* The configuration that the administrator pushes to every device: the    *)
(* server's copy (Push and broadcast in internal/server/control.go), its   *)
(* file (settings.go, writeJSON and readJSON in store.go), the catch-up of *)
(* a device that connects (handleConn in server.go) and the copy each      *)
(* client keeps (internal/client/push.go).                                 *)
(*                                                                         *)
(* Push holds pushMu only while it merges and copies.  It then writes the  *)
(* file and sends to the devices with no lock, so each system call and     *)
(* each send is a step of its own and requests of the administration page  *)
(* may overlap.                                                            *)
(***************************************************************************)
EXTENDS Sequences, Integers

CONSTANTS
    Request,        \* requests of the administration page under way at a time
    Device,
    Key, Value,     \* configuration items and their values
    NoValue,        \* an item that is absent, or empty in a request
    NoFile, Empty, Garbled,  \* a missing file, a truncated one, a mixture
    QueueCap,       \* length of Device.msgCh
    MaxPush,        \* bound: calls of Push
    MayRestart      \* whether the server process may end and start again

VARIABLES
    pushed,     \* Server.pushed
    file, tmp,  \* what the settings file and its temporary file hold
    req,        \* the goroutine of each request
    link,       \* how far handleConn has got with each device
    queue,      \* Device.msgCh
    view,       \* Client.pushed
    unsaved,    \* the latest attempt to write the file failed
    lagging,    \* devices sent an outdated configuration, or none, last
    pushes      \* calls of Push so far

files   == <<file, tmp, unsaved>>
devices == <<link, queue, view, lagging>>
vars    == <<pushed, files, req, devices, pushes>>

ASSUME NoValueAssumption == NoValue \notin Value
ASSUME RestartAssumption == MayRestart \in BOOLEAN
ASSUME QueueAssumption   == QueueCap \in Nat \ {0} /\ MaxPush \in Nat

Config  == [Key -> Value \cup {NoValue}]
Nothing == [k \in Key |-> NoValue]
Content == Config \cup {Empty, Garbled}

ASSUME FileAssumption == {NoFile, Empty, Garbled} \cap Config = {} /\ NoFile \notin {Empty, Garbled}

(* merged is the copy made under pushMu; fd tells which name the request's *)
(* open file has by now; targets are the devices still to be sent to.      *)
Req  == [pc : {"idle", "create", "write", "rename", "remove", "snapshot", "send"},
         merged : Config, fd : {"none", "tmp", "file"}, targets : SUBSET Device]
Rest == [pc |-> "idle", merged |-> Nothing, fd |-> "none", targets |-> {}]

Link == [pc : {"off", "joined", "copied", "on"}, copy : Config]
Off  == [pc |-> "off", copy |-> Nothing]

(* A first start, with no file.                                            *)
Init ==
    /\ pushed = Nothing
    /\ file = NoFile
    /\ tmp = NoFile
    /\ req = [r \in Request |-> Rest]
    /\ link = [d \in Device |-> Off]
    /\ queue = [d \in Device |-> <<>>]
    /\ view = [d \in Device |-> Nothing]
    /\ unsaved = FALSE
    /\ lagging = {}
    /\ pushes = 0

Goto(r, l) == req' = [req EXCEPT ![r].pc = l]

-----------------------------------------------------------------------------
(* Mutant of Merge: does not save.                                         *)
MergeUnsaved(r, k, v) ==
    /\ req[r].pc = "idle"
    /\ pushes < MaxPush
    /\ pushes' = pushes + 1
    /\ pushed' = [pushed EXCEPT ![k] = v]
    /\ req' = [req EXCEPT ![r].pc = "snapshot", ![r].merged = pushed']
    /\ UNCHANGED <<files, devices>>

(* Push, under pushMu: an empty value removes the item.                    *)
Merge(r, k, v) ==
    /\ req[r].pc = "idle"
    /\ pushes < MaxPush
    /\ pushes' = pushes + 1
    /\ pushed' = [pushed EXCEPT ![k] = v]
    /\ req' = [req EXCEPT ![r].pc = "create", ![r].merged = pushed']
    /\ UNCHANGED <<files, devices>>

(* Mutant of Create: writes to the settings file itself.                   *)
CreateInPlace(r) ==
    /\ req[r].pc = "create"
    /\ file' = Empty
    /\ req' = [req EXCEPT ![r].pc = "write", ![r].fd = "file"]
    /\ UNCHANGED <<pushed, tmp, unsaved, devices, pushes>>

(* writeJSON.  os.WriteFile opens with O_CREATE and O_TRUNC ...            *)
Create(r) ==
    /\ req[r].pc = "create"
    /\ tmp' = Empty
    /\ req' = [req EXCEPT ![r].pc = "write", ![r].fd = "tmp"]
    /\ UNCHANGED <<pushed, file, unsaved, devices, pushes>>

(* ... and writes from the start.  Over what another request has written   *)
(* the result is a mixture if that was longer.                             *)
Written(old, c) == IF old \in {Empty, c} THEN {c} ELSE {c, Garbled}

Write(r) ==
    /\ req[r].pc = "write"
    /\ \/ /\ req[r].fd = "tmp"
          /\ tmp' \in Written(tmp, req[r].merged)
          /\ UNCHANGED file
       \/ /\ req[r].fd = "file"
          /\ file' \in Written(file, req[r].merged)
          /\ UNCHANGED tmp
       \/ req[r].fd = "none" /\ UNCHANGED <<file, tmp>>
    /\ req' = [req EXCEPT ![r].pc = "rename", ![r].fd = "none"]
    /\ UNCHANGED <<pushed, unsaved, devices, pushes>>

(* What other requests have open keeps its contents under its new name, or *)
(* under none.                                                             *)
Renamed(r, q, l) ==
    [req[q] EXCEPT !.pc = IF q = r THEN l ELSE @,
                   !.fd = IF @ = "tmp" THEN "file" ELSE "none"]

Rename(r) ==
    /\ req[r].pc = "rename"
    /\ tmp # NoFile
    /\ file' = tmp
    /\ tmp' = NoFile
    /\ unsaved' = FALSE
    /\ req' = [q \in Request |-> Renamed(r, q, "snapshot")]
    /\ UNCHANGED <<pushed, devices, pushes>>

(* Renaming fails, also because another request has renamed the file: the  *)
(* temporary file is removed, whoever's it is by now.                      *)
RenameFails(r) ==
    /\ req[r].pc = "rename"
    /\ Goto(r, "remove")
    /\ unsaved' = TRUE
    /\ UNCHANGED <<pushed, file, tmp, devices, pushes>>

Remove(r) ==
    /\ req[r].pc = "remove"
    /\ tmp' = NoFile
    /\ req' = [q \in Request |->
                 [req[q] EXCEPT !.pc = IF q = r THEN "snapshot" ELSE @,
                                !.fd = IF @ = "tmp" THEN "none" ELSE @]]
    /\ UNCHANGED <<pushed, file, unsaved, devices, pushes>>

(* The disk is full or read-only: logged, and the push goes on.            *)
WriteFails(r) ==
    /\ req[r].pc \in {"create", "write"}
    /\ unsaved' = TRUE
    /\ req' = [req EXCEPT ![r].pc = "snapshot", ![r].fd = "none"]
    /\ UNCHANGED <<pushed, file, tmp, devices, pushes>>

(* Mutant of Snapshot: leaves out devices that are still catching up.      *)
SnapshotSettled(r) ==
    /\ req[r].pc = "snapshot"
    /\ req' = [req EXCEPT ![r].pc = "send",
                          ![r].targets = {d \in Device : link[d].pc = "on"}]
    /\ UNCHANGED <<pushed, files, devices, pushes>>

(* broadcast: a snapshot of the devices online, then a send to each.       *)
Snapshot(r) ==
    /\ req[r].pc = "snapshot"
    /\ req' = [req EXCEPT ![r].pc = "send",
                          ![r].targets = {d \in Device : link[d].pc # "off"}]
    /\ UNCHANGED <<pushed, files, devices, pushes>>

(* Mutant of sendMsg: the queue grows without limit.                       *)
SendUnbounded(d, c) ==
    /\ queue' = [queue EXCEPT ![d] = Append(@, c)]
    /\ lagging' = IF c = pushed THEN lagging \ {d} ELSE lagging \cup {d}

(* sendMsg: a message for a full queue is dropped.                         *)
sendMsg(d, c) ==
    LET fits == Len(queue[d]) < QueueCap
    IN  /\ queue' = [queue EXCEPT ![d] = IF fits THEN Append(@, c) ELSE @]
        /\ lagging' = IF fits /\ c = pushed THEN lagging \ {d} ELSE lagging \cup {d}

SendTo(r, d) ==
    /\ req[r].pc = "send"
    /\ d \in req[r].targets
    /\ req' = [req EXCEPT ![r].targets = @ \ {d}]
    /\ IF link[d].pc # "off" THEN sendMsg(d, req[r].merged) ELSE UNCHANGED <<queue, lagging>>
    /\ UNCHANGED <<pushed, files, link, view, pushes>>

PushDone(r) ==
    /\ req[r].pc = "send"
    /\ req[r].targets = {}
    /\ req' = [req EXCEPT ![r] = Rest]
    /\ UNCHANGED <<pushed, files, devices, pushes>>

-----------------------------------------------------------------------------
(* A device joins; its client keeps the view of earlier sessions.          *)
Join(d) ==
    /\ link[d].pc = "off"
    /\ link' = [link EXCEPT ![d].pc = "joined"]
    /\ UNCHANGED <<pushed, files, req, queue, view, lagging, pushes>>

(* Catch-up: a copy of the configuration, sent unless it is empty.         *)
CatchUpCopy(d) ==
    /\ link[d].pc = "joined"
    /\ link' = [link EXCEPT ![d] = [pc |-> "copied", copy |-> pushed]]
    /\ UNCHANGED <<pushed, files, req, queue, view, lagging, pushes>>

CatchUpSend(d) ==
    /\ link[d].pc = "copied"
    /\ link' = [link EXCEPT ![d] = [Off EXCEPT !.pc = "on"]]
    /\ IF link[d].copy # Nothing
       THEN sendMsg(d, link[d].copy)
       ELSE UNCHANGED <<queue, lagging>>
    /\ UNCHANGED <<pushed, files, req, view, pushes>>

(* applyPushedConfig replaces everything the client has.                   *)
Receive(d) ==
    /\ queue[d] # <<>>
    /\ view' = [view EXCEPT ![d] = Head(queue[d])]
    /\ queue' = [queue EXCEPT ![d] = Tail(@)]
    /\ UNCHANGED <<pushed, files, req, link, lagging, pushes>>

(* The connection ends, and what is still queued is lost.                  *)
Leave(d) ==
    /\ link[d].pc # "off"
    /\ link' = [link EXCEPT ![d] = Off]
    /\ queue' = [queue EXCEPT ![d] = <<>>]
    /\ lagging' = lagging \ {d}
    /\ UNCHANGED <<pushed, files, req, view, pushes>>

(* The client process starts anew.                                         *)
ClientRestart(d) ==
    /\ link[d].pc = "off"
    /\ view[d] # Nothing
    /\ view' = [view EXCEPT ![d] = Nothing]
    /\ UNCHANGED <<pushed, files, req, link, queue, lagging, pushes>>

(* The server stops or crashes, and loadSettings reads the file.  One that *)
(* does not parse is set aside.                                            *)
Restart ==
    /\ MayRestart
    /\ pushed' = IF file \in Config THEN file ELSE Nothing
    /\ file' = IF file \in {Empty, Garbled} THEN NoFile ELSE file
    /\ unsaved' = FALSE
    /\ req' = [r \in Request |-> Rest]
    /\ link' = [d \in Device |-> Off]
    /\ queue' = [d \in Device |-> <<>>]
    /\ lagging' = {}
    /\ UNCHANGED <<tmp, view, pushes>>

RequestStep(r) ==
    \/ \E k \in Key, v \in Value \cup {NoValue} : Merge(r, k, v)
    \/ Create(r) \/ Write(r) \/ Rename(r) \/ RenameFails(r) \/ Remove(r)
    \/ WriteFails(r)
    \/ Snapshot(r) \/ PushDone(r)
    \/ \E d \in Device : SendTo(r, d)

DeviceStep(d) ==
    \/ Join(d) \/ CatchUpCopy(d) \/ CatchUpSend(d)
    \/ Receive(d) \/ Leave(d) \/ ClientRestart(d)

Next ==
    \/ \E r \in Request : RequestStep(r)
    \/ \E d \in Device : DeviceStep(d)
    \/ Restart

Spec == Init /\ [][Next]_vars

-----------------------------------------------------------------------------
(* Every part of the state has the type of its counterpart in the code.    *)
TypeOK ==
    /\ pushed \in Config
    /\ file \in Content \cup {NoFile}
    /\ tmp \in Content \cup {NoFile}
    /\ req \in [Request -> Req]
    /\ link \in [Device -> Link]
    /\ queue \in [Device -> Seq(Config)] /\ \A d \in Device : Len(queue[d]) <= QueueCap
    /\ view \in [Device -> Config]
    /\ unsaved \in BOOLEAN
    /\ lagging \subseteq Device
    /\ pushes \in 0 .. MaxPush

AllIdle    == \A r \in Request : req[r].pc = "idle"
Settled(d) == link[d].pc = "on" /\ queue[d] = <<>>

(***************************************************************************)
(* When requests come one at a time, the settings file is readable at every*)
(* moment, so that a crash between any two system calls of writeJSON finds *)
(* the old contents or the new ("不会出现「半个文件」", store.go:47-49).           *)
(***************************************************************************)
FileWhole == file \notin {Empty, Garbled}

(***************************************************************************)
(* A push whose call has returned without a logged error survives a restart*)
(* of the server, the removal of an item included.                         *)
(***************************************************************************)
PushSurvives ==
    AllIdle /\ ~unsaved /\ pushes > 0 => (IF file = NoFile THEN Nothing ELSE file) = pushed

(***************************************************************************)
(* No device misses a push: once no request is under way, a device that has*)
(* caught up and whose queue is empty has the server's configuration, be it*)
(* that it was online, joining, or between its join and its catch-up when  *)
(* Push merged.  Excepted are an empty configuration, which the catch-up   *)
(* does not send, and a device whose catch-up was overtaken by a broadcast *)
(* or whose message found the queue full.                                  *)
(***************************************************************************)
NobodyMissesPush ==
    AllIdle /\ pushed # Nothing =>
        \A d \in Device \ lagging : Settled(d) => view[d] = pushed

(***************************************************************************)
(* What the comments on the catch-up (server.go:500) and on                *)
(* applyPushedConfig (push.go:13-15) promise together: a device that comes *)
(* online later has the policy in force too, and an announcement that was  *)
(* cleared does not stay on a client.                                      *)
(***************************************************************************)
ViewsAgree ==
    AllIdle => \A d \in Device \ lagging : Settled(d) => view[d] = pushed
=============================================================================
