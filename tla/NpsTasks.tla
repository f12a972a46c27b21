----------------------------- MODULE NpsTasks -------------------------------
(***************************************************************************)
(* The tunnels ("tasks") the NPS server runs for its clients: the tables   *)
(* of clients and tasks in memory and in their two files, RunList with the *)
(* servers that listen, and who works on them: requests of the management  *)
(* page, configuration connections of clients, DealBridgeTask, the expiry  *)
(* of clients, the goroutine of each server, a crash and a restart         *)
(* (server/server.go, lib/file, web/controllers, bridge/bridge.go).        *)
(*                                                                         *)
(* A goroutine is the sequence of the steps it still has to take; a step   *)
(* that fails drops as many of those after it as the code returns past.    *)
(***************************************************************************)
EXTENDS Naturals, FiniteSets, Sequences, SequencesExt

CONSTANTS
    Client,     \* ids of clients
    MaxTask,    \* bound: ids given to tasks
    MaxServer,  \* bound: servers that are not yet closed
    Admin,      \* requests of the management page at one time
    Requests,   \* bound: requests and configuration connections
    Crashes     \* bound: crashes

Task   == 1 .. MaxTask
Server == 1 .. MaxServer
Proc   == Admin \cup {"boot", "config", "dealer", "expire"}
File   == {"tasks", "clients"}
None   == "none"

VARIABLES
    clients,   \* JsonDb.Clients: each client there, and its Status
    tasks,     \* JsonDb.Tasks: ids
    task,      \* the objects: [owner, status, noStore, born]
    lastId,    \* TaskIncreaseId
    runList,   \* RunList: the server of a task, or 0
    server,    \* servers: [task, state]
    disk,      \* the two files
    saving,    \* what the holder of a file's lock is about to rename into it
    todo,      \* the steps each goroutine still has to take
    online,    \* clients with an entry in Bridge.Client
    verified,  \* clients past the check of their key, not yet in Bridge.Client
    raced,     \* history: two goroutines have worked on tasks at once since the start
    requests,
    crashes

memory == <<clients, tasks, task, lastId>>
run    == <<runList, server>>
files  == <<disk, saving>>
bridge == <<online, verified>>
bounds == <<requests, crashes, raced>>
vars   == <<memory, run, files, bridge, bounds, todo>>

NoTask == [owner |-> None, status |-> FALSE, noStore |-> FALSE, born |-> 0]
Gone   == [task |-> 0, state |-> "none"]

Init ==
    /\ clients = [c \in Client |-> TRUE]
    /\ tasks = {}
    /\ task = [t \in Task |-> NoTask]
    /\ lastId = 0
    /\ runList = [t \in Task |-> 0]
    /\ server = [s \in Server |-> Gone]
    /\ disk = [tasks |-> {}, clients |-> {<<c, TRUE>> : c \in Client}]
    /\ saving = [f \in File |-> <<>>]
    /\ todo = [p \in Proc |-> <<>>]
    /\ online = {}
    /\ verified = {}
    /\ raced = FALSE
    /\ requests = 0
    /\ crashes = 0

-----------------------------------------------------------------------------
(* What a goroutine does, as the steps it takes.                           *)

Step(do, x)       == [do |-> do, arg |-> x, skip |-> 0]
Each(do, list)    == [i \in 1 .. Len(list) |-> Step(do, list[i])]
Save(f)           == <<Step("snapshot", f), Step("rename", f)>>

(* Mutant of UpdateTask: in memory only.                                   *)
UpdateTaskUnsaved(t) == <<Step("store", t)>>

UpdateTask(t)     == <<Step("store", t)>> \o Save("tasks")
AddTask(t)        == <<Step("test", t), Step("run", t)>>
StartTask(t)      == <<Step("get", t)>> \o AddTask(t) \o <<Step("enable", t)>> \o UpdateTask(t)

(* An error of StopServer is returned by DelTask and ignored by Edit.      *)
StopServer(t, skip) ==
    <<[do |-> "close", arg |-> t, skip |-> 4 + skip], Step("unrun", t)>> \o UpdateTask(t)
DelTask(t)        == <<Step("del", t)>>
DropTask(t)       == <<Step("drop", t)>> \o Save("tasks")
Edit(t)           == UpdateTask(t) \o StopServer(t, 0) \o StartTask(t)
NewTask(t)        == <<Step("create", t)>> \o Save("tasks")
DelClient(c)      == <<Step("delclient", c)>> \o Save("clients") \o <<Step("sweep", c), Step("kick", c)>>
OwnAddTask(t)     == <<Step("testOwn", t), Step("run", t)>>
OwnDelClient(c)   == <<Step("delclient", c)>> \o Save("clients")
ChangeStatus(c)   == <<Step("pause", c), Step("kick", c)>>
CloseClient(c)    == <<Step("sweepNoStore", c)>>
Expire(c)         == <<Step("pause", c), Step("kick", c)>> \o Save("clients")

Idle(p)    == todo[p] = <<>>
Head1(p)   == todo[p][1]
At(p, do)  == ~Idle(p) /\ Head1(p).do = do
Arg(p)     == Head1(p).arg
Rest(p)    == Tail(todo[p])
Go(p, s)   == todo' = [todo EXCEPT ![p] = s]
Skip(p)    == Go(p, SubSeq(Rest(p), 1 + Head1(p).skip, Len(Rest(p))))
Abort(p)   == Go(p, <<>>)

Starting(t)  == \E s \in Server : server[s] = [task |-> t, state |-> "starting"]
Busy(p)      == (\E q \in Proc \ {p} : ~Idle(q)) \/ \E t \in Task : Starting(t)
Listening(t) == \E s \in Server : server[s] = [task |-> t, state |-> "listening"]

-----------------------------------------------------------------------------
(* Requests of the management page.                                        *)

Request(a, steps) ==
    /\ Idle(a) /\ Idle("boot")
    /\ requests < Requests
    /\ requests' = requests + 1
    /\ raced' = (raced \/ Busy(a))
    /\ Go(a, steps)
    /\ UNCHANGED <<run, files, bridge, crashes>>

(* Add looks the client up, takes an id and goes on.                       *)
Add(a, c) ==
    LET t == lastId + 1
    IN  /\ c \in DOMAIN clients
        /\ t \in Task
        /\ lastId' = t
        /\ task' = [task EXCEPT ![t] = IF t \in tasks THEN @ ELSE [NoTask EXCEPT !.owner = c]]
        /\ Request(a, <<Step("test", t)>> \o NewTask(t) \o AddTask(t))
        /\ UNCHANGED <<clients, tasks>>

(* Sulink's own page (internal/admin/nps.go): a tunnel in one mode or, for *)
(* "all", two one after the other; and a client that is deleted, without   *)
(* its tunnels and its connection.                                         *)
OwnAdd(a, c) ==
    /\ c \in DOMAIN clients
    /\ \E n \in {1, 2} : Request(a, [i \in 1 .. n |-> Step("own", c)])
    /\ UNCHANGED memory

Command(a) ==
    /\ \/ \E t \in tasks : \/ Request(a, StartTask(t)) \/ Request(a, StopServer(t, 0))
                           \/ Request(a, DelTask(t)) \/ Request(a, Edit(t))
       \/ \E c \in DOMAIN clients : \/ Request(a, ChangeStatus(c)) \/ Request(a, DelClient(c))
                                    \/ Request(a, OwnDelClient(c))
    /\ UNCHANGED memory

(* A configuration connection of a client that may send one (NEW_TASK):    *)
(* tasks that are not stored; OpenTask hands them to DealBridgeTask.       *)
Config(c) ==
    LET t == lastId + 1
    IN  /\ Idle("config") /\ Idle("boot")
        /\ c \in DOMAIN clients /\ clients[c]
        /\ requests < Requests
        /\ t \in Task
        /\ requests' = requests + 1
        /\ raced' = (raced \/ Busy("config"))
        /\ lastId' = t
        /\ task' = [task EXCEPT ![t] = IF t \in tasks THEN @ ELSE [NoTask EXCEPT !.owner = c, !.noStore = TRUE]]
        /\ Go("config", NewTask(t) \o <<Step("test", t), Step("open", t)>>)
        /\ UNCHANGED <<clients, tasks, run, files, bridge, crashes>>

-----------------------------------------------------------------------------
(* The steps.                                                              *)

(* NewTask.                                                                *)
Create(p) ==
    /\ At(p, "create")
    /\ tasks' = tasks \cup {Arg(p)}
    /\ task' = [task EXCEPT ![Arg(p)].status = TRUE, ![Arg(p)].born = requests]
    /\ Go(p, Rest(p))
    /\ UNCHANGED <<clients, lastId, run, files, bridge, bounds>>

(* GetTask.                                                                *)
Get(p) ==
    /\ At(p, "get")
    /\ IF Arg(p) \in tasks THEN Go(p, Rest(p)) ELSE Abort(p)
    /\ UNCHANGED <<memory, run, files, bridge, bounds>>

(* Own: the next id, and the task under it.                                *)
Own(p) ==
    LET t == lastId + 1
    IN  /\ At(p, "own") /\ t \in Task
        /\ lastId' = t
        /\ task' = [task EXCEPT ![t] = IF t \in tasks THEN @ ELSE [NoTask EXCEPT !.owner = Arg(p)]]
        /\ Go(p, NewTask(t) \o OwnAddTask(t) \o Rest(p))
        /\ UNCHANGED <<clients, tasks, run, files, bridge, bounds>>

(* TestServerPort: the port can be bound at the moment, or something else  *)
(* has it.  Sulink's page then deletes the task it has added.              *)
Test(p) ==
    /\ \/ At(p, "test") /\ Abort(p)
       \/ At(p, "testOwn") /\ Go(p, DropTask(Arg(p)))
       \/ /\ At(p, "test") \/ At(p, "testOwn")
          /\ ~Listening(Arg(p))
          /\ Go(p, Rest(p))
    /\ UNCHANGED <<memory, run, files, bridge, bounds>>

(* InitFromCsv: an error of AddTask is passed over.                        *)
Load(p) ==
    /\ At(p, "load")
    /\ \/ Go(p, Rest(p))
       \/ ~Listening(Arg(p)) /\ Go(p, <<Step("run", Arg(p))>> \o Rest(p))
    /\ UNCHANGED <<memory, run, files, bridge, bounds>>

(* NewMode, RunList.Store and the goroutine of the server.                 *)
Run(p) ==
    LET t == Arg(p)
        free == {x \in Server : server[x] = Gone /\ \A u \in Task : runList[u] # x}
        s == CHOOSE x \in free : TRUE
    IN  /\ At(p, "run")
        /\ free # {}
        /\ runList' = [runList EXCEPT ![t] = s]
        /\ server' = [server EXCEPT ![s] = [task |-> t, state |-> "starting"]]
        /\ Go(p, Rest(p))
        /\ UNCHANGED <<memory, files, bridge, bounds>>

(* svr.Start: net.Listen; when that fails the task leaves RunList.         *)
Listen(s) ==
    LET t == server[s].task
    IN  /\ server[s].state = "starting"
        /\ IF Listening(t)
           THEN /\ server' = [server EXCEPT ![s] = Gone]
                /\ runList' = [runList EXCEPT ![t] = 0]
           ELSE /\ server' = [server EXCEPT ![s].state = "listening"]
                /\ UNCHANGED runList
        /\ UNCHANGED <<memory, files, bridge, bounds, todo>>

(* StopServer: Close of a server that has no listener yet panics; the page *)
(* recovers and forgets the request, for DealBridgeTask see Panic.         *)
CloseServer(p) ==
    LET s == runList[Arg(p)]
    IN  /\ At(p, "close")
        /\ (p = "dealer" /\ s # 0) => server[s].state # "starting"
        /\ server' = IF s # 0 /\ server[s].state = "listening" THEN [server EXCEPT ![s] = Gone] ELSE server
        /\ CASE s = 0 -> Skip(p)
             [] s # 0 /\ server[s].state = "starting" -> Abort(p)
             [] OTHER -> Go(p, Rest(p))
        /\ UNCHANGED <<memory, runList, files, bridge, bounds>>

(* RunList.Delete, GetTask and Status = false.                             *)
Unrun(p) ==
    LET t == Arg(p)
    IN  /\ At(p, "unrun")
        /\ runList' = [runList EXCEPT ![t] = 0]
        /\ IF t \in tasks
           THEN /\ task' = [task EXCEPT ![t].status = FALSE]
                /\ Go(p, Rest(p))
           ELSE /\ Go(p, SubSeq(Rest(p), 4, Len(Rest(p))))
                /\ UNCHANGED task
        /\ UNCHANGED <<clients, tasks, lastId, server, files, bridge, bounds>>

Enable(p) ==
    /\ At(p, "enable")
    /\ task' = [task EXCEPT ![Arg(p)].status = TRUE]
    /\ Go(p, Rest(p))
    /\ UNCHANGED <<clients, tasks, lastId, run, files, bridge, bounds>>

(* UpdateTask stores the object again, whoever has deleted it meanwhile.   *)
Store(p) ==
    /\ At(p, "store")
    /\ tasks' = tasks \cup {Arg(p)}
    /\ Go(p, Rest(p))
    /\ UNCHANGED <<clients, task, lastId, run, files, bridge, bounds>>

(* Mutant of Del: what runs goes on.                                       *)
DelRunning(p) ==
    /\ At(p, "del")
    /\ Go(p, DropTask(Arg(p)) \o Rest(p))
    /\ UNCHANGED <<memory, run, files, bridge, bounds>>

(* DelTask stops what runs first.                                          *)
Del(p) ==
    /\ At(p, "del")
    /\ Go(p, (IF runList[Arg(p)] = 0 THEN <<>> ELSE StopServer(Arg(p), 3)) \o DropTask(Arg(p)) \o Rest(p))
    /\ UNCHANGED <<memory, run, files, bridge, bounds>>

Drop(p) ==
    /\ At(p, "drop")
    /\ tasks' = tasks \ {Arg(p)}
    /\ Go(p, Rest(p))
    /\ UNCHANGED <<clients, task, lastId, run, files, bridge, bounds>>

(* storeSyncMapToFile under the lock of its file: a temporary file with    *)
(* what is to be stored, and the rename.                                   *)
Content(f) ==
    IF f = "tasks"
    THEN {<<t, task[t].owner, task[t].status>> : t \in {x \in tasks : ~task[x].noStore}}
    ELSE {<<c, clients[c]>> : c \in DOMAIN clients}

(* Mutant of Snapshot: without the lock.                                   *)
SnapshotUnlocked(p) ==
    /\ At(p, "snapshot")
    /\ saving' = [saving EXCEPT ![Arg(p)] = <<Content(Arg(p))>>]
    /\ Go(p, Rest(p))
    /\ UNCHANGED <<memory, run, disk, bridge, bounds>>

Snapshot(p) ==
    /\ At(p, "snapshot")
    /\ saving[Arg(p)] = <<>>
    /\ saving' = [saving EXCEPT ![Arg(p)] = <<Content(Arg(p))>>]
    /\ Go(p, Rest(p))
    /\ UNCHANGED <<memory, run, disk, bridge, bounds>>

Rename(p) ==
    /\ At(p, "rename")
    /\ disk' = [disk EXCEPT ![Arg(p)] = saving[Arg(p)][1]]
    /\ saving' = [saving EXCEPT ![Arg(p)] = <<>>]
    /\ Go(p, Rest(p))
    /\ UNCHANGED <<memory, run, bridge, bounds>>

RemoveClient(p) ==
    /\ At(p, "delclient")
    /\ clients' = [c \in DOMAIN clients \ {Arg(p)} |-> clients[c]]
    /\ Go(p, Rest(p))
    /\ UNCHANGED <<tasks, task, lastId, run, files, bridge, bounds>>

Pause(p) ==
    /\ At(p, "pause")
    /\ clients' = [c \in DOMAIN clients |-> IF c = Arg(p) THEN FALSE ELSE clients[c]]
    /\ Go(p, Rest(p))
    /\ UNCHANGED <<tasks, task, lastId, run, files, bridge, bounds>>

(* DelTunnelAndHostByClientId: the tasks there are now, in any order.      *)
Sweep(p) ==
    LET mine == {t \in tasks : task[t].owner = Arg(p) /\ (At(p, "sweepNoStore") => task[t].noStore)}
    IN  /\ At(p, "sweep") \/ At(p, "sweepNoStore")
        /\ \E list \in SetToSeqs(mine) : Go(p, Each("del", list) \o Rest(p))
        /\ UNCHANGED <<memory, run, files, bridge, bounds>>

(* Bridge.DelClient: the entry goes, and DealBridgeTask hears of it if the *)
(* client is still in the table.                                           *)
Kick(p) ==
    /\ At(p, "kick")
    /\ online' = online \ {Arg(p)}
    /\ Go(p, IF Arg(p) \in online /\ Arg(p) \in DOMAIN clients
             THEN <<Step("closeClient", Arg(p))>> \o Rest(p) ELSE Rest(p))
    /\ UNCHANGED <<memory, run, files, verified, bounds>>

(* DealBridgeTask takes what another goroutine holds out to it: OpenTask   *)
(* and CloseClient are not buffered.                                       *)
Deal(p) ==
    /\ Idle("dealer")
    /\ At(p, "open") \/ At(p, "closeClient")
    /\ todo' = [todo EXCEPT ![p] = Rest(p),
                            !["dealer"] = IF At(p, "open") THEN StartTask(Arg(p)) ELSE CloseClient(Arg(p))]
    /\ raced' = (raced \/ Busy(p))
    /\ UNCHANGED <<memory, run, files, bridge, requests, crashes>>

-----------------------------------------------------------------------------
(* The clients' connections and time.                                      *)

(* GetIdByVerifyKey; then the client names its purpose, and typeDeal.      *)
Verify(c) ==
    /\ c \in DOMAIN clients /\ clients[c]
    /\ c \notin online \cup verified
    /\ verified' = verified \cup {c}
    /\ UNCHANGED <<memory, run, files, online, bounds, todo>>

Register(c) ==
    /\ c \in verified
    /\ verified' = verified \ {c}
    /\ online' = online \cup {c}
    /\ UNCHANGED <<memory, run, files, bounds, todo>>

(* checkClientExpire, and the bridge's ping, which disconnects only.       *)
CheckExpire(c) ==
    /\ Idle("expire")
    /\ requests < Requests
    /\ requests' = requests + 1
    /\ raced' = (raced \/ Busy("expire"))
    /\ c \in DOMAIN clients /\ clients[c]
    /\ Go("expire", Expire(c))
    /\ UNCHANGED <<memory, run, files, bridge, crashes>>

-----------------------------------------------------------------------------
(* One after the other.                                                    *)
(* The process ends; a new one loads the files: first the clients, then    *)
(* the tasks whose client is there, and starts those that are enabled, in  *)
(* any order.                                                              *)

(* Mutant of Restart: ids are given from one again.                        *)
RestartFromOne ==
    LET loaded == {e \in disk.tasks : \E d \in disk.clients : d[1] = e[2]}
        ids    == {e[1] : e \in loaded}
        Of(t)  == CHOOSE e \in loaded : e[1] = t
    IN  /\ clients' = [c \in {d[1] : d \in disk.clients} |-> <<c, TRUE>> \in disk.clients]
        /\ tasks' = ids
        /\ task' = [t \in Task |-> IF t \in ids THEN [task[t] EXCEPT !.owner = Of(t)[2], !.status = Of(t)[3]] ELSE NoTask]
        /\ lastId' = 0
        /\ runList' = [t \in Task |-> 0]
        /\ server' = [s \in Server |-> Gone]
        /\ saving' = [f \in File |-> <<>>]
        /\ \E list \in SetToSeqs({x \in ids : Of(x)[3]}) :
              todo' = [p \in Proc |-> IF p = "boot" THEN Each("load", list) ELSE <<>>]
        /\ online' = {} /\ verified' = {}
        /\ raced' = FALSE
        /\ UNCHANGED <<disk, requests>>

Restart ==
    LET loaded == {e \in disk.tasks : \E d \in disk.clients : d[1] = e[2]}
        ids    == {e[1] : e \in loaded}
        Of(t)  == CHOOSE e \in loaded : e[1] = t
    IN  /\ clients' = [c \in {d[1] : d \in disk.clients} |-> <<c, TRUE>> \in disk.clients]
        /\ tasks' = ids
        /\ task' = [t \in Task |-> IF t \in ids THEN [task[t] EXCEPT !.owner = Of(t)[2], !.status = Of(t)[3]] ELSE NoTask]
        /\ lastId' = CHOOSE n \in 0 .. MaxTask : n \in ids \cup {0} /\ \A t \in ids : t <= n
        /\ runList' = [t \in Task |-> 0]
        /\ server' = [s \in Server |-> Gone]
        /\ saving' = [f \in File |-> <<>>]
        /\ \E list \in SetToSeqs({x \in ids : Of(x)[3]}) :
              todo' = [p \in Proc |-> IF p = "boot" THEN Each("load", list) ELSE <<>>]
        /\ online' = {} /\ verified' = {}
        /\ raced' = FALSE
        /\ UNCHANGED <<disk, requests>>

Crash == /\ crashes < Crashes
         /\ crashes' = crashes + 1
         /\ Restart

(* DealBridgeTask does not recover.                                        *)
Panic == /\ At("dealer", "close")
         /\ runList[Arg("dealer")] # 0
         /\ server[runList[Arg("dealer")]].state = "starting"
         /\ Restart
         /\ UNCHANGED crashes

StepOf(p) ==
    \/ Own(p) \/ Create(p) \/ Get(p) \/ Test(p) \/ Load(p) \/ Run(p) \/ CloseServer(p) \/ Unrun(p) \/ Enable(p) \/ Store(p)
    \/ Del(p) \/ Drop(p) \/ Snapshot(p) \/ Rename(p) \/ RemoveClient(p) \/ Pause(p) \/ Sweep(p)
    \/ Kick(p) \/ Deal(p)

Next ==
    \/ \E p \in Proc : StepOf(p)
    \/ \E a \in Admin : Command(a) \/ \E c \in Client : Add(a, c) \/ OwnAdd(a, c)
    \/ \E c \in Client : Config(c) \/ Verify(c) \/ Register(c) \/ CheckExpire(c)
    \/ \E s \in Server : Listen(s)
    \/ Crash \/ Panic

Spec == Init /\ [][Next]_vars

-----------------------------------------------------------------------------
(* Types (file.go:26, server.go:27).  A server in RunList is that of its   *)
(* task; a file has one writer at a time, who holds what it will rename.   *)
Entry == [tasks |-> Task \X (Client \cup {None}) \X BOOLEAN, clients |-> Client \X BOOLEAN]

TypeOK ==
    /\ clients \in UNION {[C -> BOOLEAN] : C \in SUBSET Client}
    /\ tasks \subseteq Task
    /\ task \in [Task -> [owner : Client \cup {None}, status : BOOLEAN, noStore : BOOLEAN, born : 0 .. Requests]]
    /\ lastId \in 0 .. MaxTask
    /\ runList \in [Task -> 0 .. MaxServer]
    /\ server \in [Server -> {Gone} \cup [task : Task, state : {"starting", "listening"}]]
    /\ \A t \in Task : runList[t] # 0 => server[runList[t]].task \in {0, t}
    /\ DOMAIN disk = File /\ DOMAIN saving = File
    /\ \A f \in File : /\ disk[f] \subseteq Entry[f]
                       /\ saving[f] = <<>> \/ (Len(saving[f]) = 1 /\ saving[f][1] \subseteq Entry[f])
                       /\ {p \in Proc : At(p, "rename") /\ Arg(p) = f} \in
                             IF saving[f] = <<>> THEN {{}} ELSE {{p} : p \in Proc}
    /\ online \cup verified \subseteq Client
    /\ raced \in BOOLEAN /\ requests \in 0 .. Requests /\ crashes \in 0 .. Crashes

Quiet == (\A p \in Proc : Idle(p)) /\ \A t \in Task : ~Starting(t)

(* Once nobody works on them, the file of tasks holds the tasks that are   *)
(* to be stored as they are in memory, and no other whose client is there. *)
Saved ==
    Quiet => /\ Content("tasks") \subseteq disk.tasks
             /\ \A e \in disk.tasks \ Content("tasks") : e[2] \notin DOMAIN clients

(* A task keeps its id to itself: no other is created under it.            *)
IdsStay == [][\A t \in tasks : t \in tasks' => task'[t].born = task[t].born]_vars

(* A server listens for a task in the table that is enabled, and StopServer*)
(* finds it (change log of NPS, #159: a closed tunnel's port stayed        *)
(* usable).                                                                *)
NoStrayServer ==
    Quiet /\ ~raced => \A s \in Server : server[s] # Gone =>
                 LET t == server[s].task IN t \in tasks /\ task[t].status /\ runList[t] = s

(* A client that is paused is not connected (server.go:138).               *)
PausedIsOut == Quiet => \A c \in online : c \in DOMAIN clients /\ clients[c]

(* A tunnel of a client that was deleted is gone (admin/nps.go:69).        *)
OwnerThere ==
    Quiet /\ ~raced => \A s \in Server : server[s] # Gone => task[server[s].task].owner \in DOMAIN clients
=============================================================================
