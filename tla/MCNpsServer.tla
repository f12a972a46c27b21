----------------------------- MODULE MCNpsServer ----------------------------
(***************************************************************************)
(* The parts of the embedded NPS that share no state in the model, in one  *)
(* run of TLC: a behaviour is one of the part that Init chooses; the others*)
(* stay in their initial states.                                           *)
(***************************************************************************)
EXTENDS Integers, Sequences, FiniteSets, TLC

CONSTANTS
    Client, MaxTask, MaxServer, Admin, Requests, Crashes,         \* NpsTasks
    Visitor, Kinds, MaxConn, FlowLimit,                           \* NpsRelay
    Guest, Host, Owner, MaxStream,                                \* NpsHttp
    Packet, MaxSession,                                           \* NpsUdp
    Caller, Site, Cert, BadCert, MaxChange,                       \* NpsHttps
    Producer, Items, FirstSize,                                   \* MuxQueue
    Targets, MaxFail, Checker, MaxWire, MaxRemoved, Losses,       \* NpsHealth
    Ports, MaxTry                                                 \* NpsPunch

ASSUME SizeAssumption  == FirstSize \in Nat \ {0} /\ Items \in Nat \ {0}
ASSUME BoundAssumption == {MaxSession, MaxStream, MaxChange, MaxTry} \subseteq Nat /\ IsFiniteSet(Visitor)

VARIABLES
    part,
    clients, tasks, task, lastId, runList, server, disk, saving, todo, online, verified, raced,
    requests, crashes,
    conn, nowConn, exceeded, crashed,
    page, held,
    packet, session, made, addrMap, removers, shut, udpConns,
    siteCert, hostIdCertMap, httpsListenerMap, listeners, hello, changes, panicked,
    rings, head, tail, newChain, push, pop, popped, queueRaced,
    healthSession, healthMap, check, signal, TargetArr, RemoveArr, nowIndex, taking, out, edited,
    losses, healthPanicked,
    tries, pc, got, told, reports, p2p, entry, polling, answers, tests, heard, result

tasksVars  == <<clients, tasks, task, lastId, runList, server, disk, saving, todo, online, verified, raced,
                requests, crashes>>
relayVars  == <<conn, nowConn, exceeded, crashed>>
httpVars   == <<page, held>>
udpVars    == <<packet, session, made, addrMap, removers, shut, udpConns>>
httpsVars  == <<siteCert, hostIdCertMap, httpsListenerMap, listeners, hello, changes, panicked>>
queueVars  == <<rings, head, tail, newChain, push, pop, popped, queueRaced>>
healthVars == <<healthSession, healthMap, check, signal, TargetArr, RemoveArr, nowIndex, taking, out, edited,
                losses, healthPanicked>>
punchVars  == <<tries, pc, got, told, reports, p2p, entry, polling, answers, tests, heard, result>>

Tasks  == INSTANCE NpsTasks
Relay  == INSTANCE NpsRelay
Http   == INSTANCE NpsHttp
Udp    == INSTANCE NpsUdp
Https  == INSTANCE NpsHttps
Queue  == INSTANCE MuxQueue WITH raced <- queueRaced
Health == INSTANCE NpsHealth WITH session <- healthSession, panicked <- healthPanicked
Punch  == INSTANCE NpsPunch

ASSUME KindsAssumption == Kinds \in [Visitor -> SUBSET Relay!Kind]

Part == {"tasks", "relay", "http", "udp", "https", "queue", "health", "punch"}

ServerInit ==
    /\ part \in Part
    /\ Tasks!Init /\ Relay!Init /\ Http!HttpInit /\ Udp!UdpInit /\ Https!HttpsInit
    /\ Queue!Init /\ Health!HealthInit /\ Punch!PunchInit
    /\ part = "https" \/ siteCert = CHOOSE f \in [Site -> Cert] : TRUE

OthersStill ==
    /\ UNCHANGED part
    /\ IF part = "tasks" THEN TRUE ELSE UNCHANGED tasksVars
    /\ IF part = "relay" THEN TRUE ELSE UNCHANGED relayVars
    /\ IF part = "http" THEN TRUE ELSE UNCHANGED httpVars
    /\ IF part = "udp" THEN TRUE ELSE UNCHANGED udpVars
    /\ IF part = "https" THEN TRUE ELSE UNCHANGED httpsVars
    /\ IF part = "queue" THEN TRUE ELSE UNCHANGED queueVars
    /\ IF part = "health" THEN TRUE ELSE UNCHANGED healthVars
    /\ IF part = "punch" THEN TRUE ELSE UNCHANGED punchVars

ServerNext ==
    /\ OthersStill
    /\ \/ part = "tasks" /\ Tasks!Next
       \/ part = "relay" /\ Relay!Next
       \/ part = "http" /\ Http!HttpNext
       \/ part = "udp" /\ Udp!UdpNext
       \/ part = "https" /\ Https!HttpsNext
       \/ part = "queue" /\ Queue!Next
       \/ part = "health" /\ Health!HealthNext
       \/ part = "punch" /\ Punch!PunchNext

serverVars == <<part, tasksVars, relayVars, httpVars, udpVars, httpsVars, queueVars, healthVars,
                punchVars>>

ServerSpec == ServerInit /\ [][ServerNext]_serverVars

(* One visitor of any kind beside one of a tunnel; two targets; two sites  *)
(* of different owners.                                                    *)
MCKinds   == "v" :> {"tcp", "proxy", "assoc", "ws", "secret"} @@ "w" :> {"tcp"}
MCTargets == <<"s", "t">>
MCOwner   == "a" :> "c1" @@ "b" :> "c2"

-----------------------------------------------------------------------------
(* The types of the parts.                                                 *)
ServerTypes ==
    /\ part = "tasks" => Tasks!TypeOK
    /\ part = "relay" => Relay!TypeOK
    /\ part = "http" => Http!HttpTypeOK
    /\ part = "udp" => Udp!UdpTypeOK
    /\ part = "https" => Https!HttpsTypeOK
    /\ part = "queue" => Queue!TypeOK
    /\ part = "health" => Health!HealthTypeOK
    /\ part = "punch" => Punch!PunchTypeOK

(* What the server keeps a record of agrees with what is the case: the     *)
(* files with the tasks in memory and the listening servers with both,     *)
(* over requests of two pages, connections that are paused and restarts    *)
(* (file.go:186, server.go:210); the certificate a connection is served    *)
(* under (https.go:180); the targets in use (bridge.go:188).               *)
RecordsTrue ==
    /\ part = "tasks" => Tasks!Saved /\ Tasks!NoStrayServer
    /\ part = "https" => Https!RightCert
    /\ part = "health" => Health!UsedIfWell

(* What carries traffic ends as it should: connections are counted exactly *)
(* and closed at every end (obj.go:84, conn.go:378), streams and UDP       *)
(* sessions do not outlive their visitor nor the other way round           *)
(* (http.go:157, udp.go:129), nothing is lost or doubled in the queues of  *)
(* the multiplexer (queue.go:397), and a punched path works in both        *)
(* directions (control.go:470).                                            *)
TrafficSafe ==
    /\ part = "relay" => Relay!QuotaExact /\ Relay!AllClose
    /\ part = "http" => Http!StreamsClosed
    /\ part = "udp" => Udp!SessionAlive
    /\ part = "queue" => Queue!IsQueue
    /\ part = "punch" => Punch!Mutual

(* A tunnel keeps its id for itself, over deletions and restarts           *)
(* (file.go:54, 152).                                                      *)
IdsStay == [][\A t \in tasks : t \in tasks' => task'[t].born = task[t].born]_serverVars
=============================================================================
