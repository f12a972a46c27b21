------------------------------ MODULE PeerView ------------------------------
(***************************************************************************)
(* What devices are told of each other: the server's list of peers and its *)
(* broadcasts of arrivals and departures (handleConn, removeDevice,        *)
(* peerList, notifyOnline and notifyOffline in server.go), and the peers   *)
(* each client knows (signalingLoop in client.go).                         *)
(*                                                                         *)
(* A device keeps its virtual address, so a peer is identified with its    *)
(* client; the n-th connection of a client is its session n.  The server   *)
(* looks up who is online under s.mu and sends after it has unlocked, so   *)
(* that each look-up and each send is a step of its own.                   *)
(***************************************************************************)
EXTENDS Naturals, Sequences, FiniteSets
LOCAL INSTANCE Functions

CONSTANTS
    Client,
    MaxJoin        \* bound: connections of all clients

VARIABLES
    online,    \* Server.devices: the session that has the client's address
    conn,      \* the goroutine of each session, and what it is about to send
    session,   \* each client's latest session
    state,     \* connectOnce: off, waiting for Welcome, or up
    queue,     \* messages on their way to the client
    known,     \* Client.peers
    overtaken, \* history: <<v, w>> if v was told last that w, online, left
    witness    \* history: <<v, w>> if v had its list when w joined

server  == <<online, conn>>
client  == <<session, state, queue, known>>
history == <<overtaken, witness>>
vars    == <<server, client, history>>

ASSUME JoinAssumption   == MaxJoin \in Nat \ {0}
ASSUME ClientAssumption == IsFiniteSet(Client)

None    == 0
Session == 1 .. MaxJoin
Conn    == Client \X Session

Message   == [type : {"Welcome", "PeerList", "PeerOnline", "PeerOffline"},
              peers : SUBSET Client]
Msg(t, S) == [type |-> t, peers |-> S]

(* A goroutine's place is named for what it does next.                     *)
PC   == {"none", "list", "announce", "read", "farewell", "gone"}
Idle == [pc |-> "none", out |-> <<>>]

Init ==
    /\ online = [v \in Client |-> None]
    /\ conn = [c \in Conn |-> Idle]
    /\ session = [v \in Client |-> None]
    /\ state = [v \in Client |-> "off"]
    /\ queue = [v \in Client |-> <<>>]
    /\ known = [v \in Client |-> {}]
    /\ overtaken = {}
    /\ witness = {}

-----------------------------------------------------------------------------
(* The server.                                                             *)

Devices  == {v \in Client : online[v] # None}
At(c, l) == conn[c].pc = l /\ conn[c].out = <<>>

(* The orders in which Go may visit a map with keys S, each key once.      *)
Orders(S) == {s \in [1 .. Cardinality(S) -> S] : \A v \in S : \E i \in DOMAIN s : s[i] = v}

(* Mutant of ToAll: does not look who is online.                           *)
ToClients(S, m) ==
    {[i \in DOMAIN s |-> [to |-> <<s[i], online[s[i]]>>, msg |-> m]] : s \in Orders(Client)}

(* A message for each of S.                                                *)
ToAll(S, m) ==
    {[i \in DOMAIN s |-> [to |-> <<s[i], online[s[i]]>>, msg |-> m]] : s \in Orders(S)}

HasList(v) == state[v] # "off" /\ online[v] = session[v]
              /\ conn[v, online[v]].pc \notin {"list", "announce"}

(* The bound on connections, of each client and of all.                    *)
Room(v) == session[v] < MaxJoin /\ FoldFunction(+, 0, session) < MaxJoin

(* A client connects and is authenticated.  register enters the connection *)
(* (and closes one that was there); Welcome is the first thing to send.    *)
Join(v) ==
    LET c == <<v, session[v] + 1>>
    IN  /\ state[v] = "off"
        /\ Room(v)
        /\ session' = [session EXCEPT ![v] = c[2]]
        /\ state' = [state EXCEPT ![v] = "wait"]
        /\ online' = [online EXCEPT ![v] = c[2]]
        /\ conn' = [conn EXCEPT ![c] =
                      [pc |-> "list", out |-> <<[to |-> c, msg |-> Msg("Welcome", {})]>>]]
        /\ witness' = {p \in witness : v \notin {p[1], p[2]}}
                        \cup {w \in Client \ {v} : HasList(w)} \X {v}
        /\ UNCHANGED <<queue, known, overtaken>>

(* peerList.                                                               *)
PeerList(c) ==
    /\ At(c, "list")
    /\ conn' = [conn EXCEPT ![c] =
                  [pc |-> "announce",
                   out |-> <<[to |-> c, msg |-> Msg("PeerList", Devices \ {c[1]})]>>]]
    /\ UNCHANGED <<online, client, history>>

(* Mutant of NotifyOnline: leaves out devices that are still joining.      *)
NotifySettled(c) ==
    /\ At(c, "announce")
    /\ LET settled == {v \in Devices \ {c[1]} : conn[v, online[v]].pc = "read"}
       IN  \E o \in ToAll(settled, Msg("PeerOnline", {c[1]})) :
              conn' = [conn EXCEPT ![c] = [pc |-> "read", out |-> o]]
    /\ UNCHANGED <<online, client, history>>

(* notifyOnline: every connection in s.devices but this one.               *)
NotifyOnline(c) ==
    /\ At(c, "announce")
    /\ LET others == {v \in Devices : <<v, online[v]>> # c}
       IN  \E o \in ToAll(others, Msg("PeerOnline", {c[1]})) :
              conn' = [conn EXCEPT ![c] = [pc |-> "read", out |-> o]]
    /\ UNCHANGED <<online, client, history>>

(* What is sent to a connection that has ended, at either end, is lost.    *)
Reaches(c) ==
    /\ session[c[1]] = c[2]
    /\ state[c[1]] # "off"
    /\ conn[c].pc \notin {"farewell", "gone"}

(* sendMsg.                                                                *)
Send(c) ==
    /\ conn[c].out # <<>>
    /\ conn' = [conn EXCEPT ![c].out = Tail(@)]
    /\ LET s == Head(conn[c].out)
           v == s.to[1]
           told == {v} \X s.msg.peers
       IN  IF Reaches(s.to)
           THEN /\ queue' = [queue EXCEPT ![v] = Append(@, s.msg)]
                /\ overtaken' = IF s.msg.type = "PeerOffline"
                                THEN overtaken \cup {p \in told : online[p[2]] # None}
                                ELSE overtaken \ told
           ELSE UNCHANGED <<queue, overtaken>>
    /\ UNCHANGED <<online, session, state, known, witness>>

(* The connection fails, is replaced, or is silent for 60 s: it is closed, *)
(* and removeDevice deletes its entry in s.devices if that is still its own*)
RemoveDevice(c) ==
    /\ At(c, "read")
    /\ online' = [online EXCEPT ![c[1]] = IF @ = c[2] THEN None ELSE @]
    /\ conn' = [conn EXCEPT ![c].pc = "farewell"]
    /\ witness' = {p \in witness : online'[p[1]] # None}
    /\ UNCHANGED <<client, overtaken>>

(* notifyOffline tells everybody, also when the device is there again.     *)
NotifyOffline(c) ==
    /\ At(c, "farewell")
    /\ \E o \in ToAll(Devices, Msg("PeerOffline", {c[1]})) :
          conn' = [conn EXCEPT ![c] = [pc |-> "gone", out |-> o]]
    /\ UNCHANGED <<online, client, history>>

(* The server process ends and starts again; the clients find out later.   *)
Restart ==
    /\ online' = [v \in Client |-> None]
    /\ conn' = [c \in Conn |-> IF conn[c].pc = "none" THEN Idle ELSE [Idle EXCEPT !.pc = "gone"]]
    /\ witness' = {}
    /\ UNCHANGED <<client, overtaken>>

-----------------------------------------------------------------------------
(* The client.                                                             *)

Ended(v) ==
    /\ state' = [state EXCEPT ![v] = "off"]
    /\ queue' = [queue EXCEPT ![v] = <<>>]
    /\ witness' = {p \in witness : p[1] # v}

(* The session ends and is torn down; what was on its way is lost, but the *)
(* table of peers stays.                                                   *)
Drop(v) ==
    /\ state[v] # "off"
    /\ Ended(v)
    /\ UNCHANGED <<server, session, known, overtaken>>

(* connectOnce gives up unless the first message is Welcome.               *)
Welcomed(v) ==
    /\ state[v] = "wait"
    /\ queue[v] # <<>>
    /\ IF Head(queue[v]).type = "Welcome"
       THEN /\ state' = [state EXCEPT ![v] = "up"]
            /\ queue' = [queue EXCEPT ![v] = Tail(@)]
            /\ UNCHANGED witness
       ELSE Ended(v)
    /\ UNCHANGED <<server, session, known, overtaken>>

(* signalingLoop takes the next message.                                   *)
Reads(v, types) ==
    /\ state[v] = "up"
    /\ queue[v] # <<>>
    /\ Head(queue[v]).type \in types
    /\ queue' = [queue EXCEPT ![v] = Tail(@)]
    /\ UNCHANGED <<server, session, state, history>>

(* ensurePeer.                                                             *)
Arrival(v) ==
    /\ Reads(v, {"PeerList", "PeerOnline"})
    /\ known' = [known EXCEPT ![v] = @ \cup Head(queue[v]).peers]

(* Mutant of Departure: keeps what it knows of the peer.                   *)
DepartureIgnored(v) ==
    /\ Reads(v, {"PeerOffline"})
    /\ UNCHANGED known

Departure(v) ==
    /\ Reads(v, {"PeerOffline"})
    /\ known' = [known EXCEPT ![v] = @ \ Head(queue[v]).peers]

ConnStep(c) ==
    \/ PeerList(c) \/ NotifyOnline(c) \/ Send(c)
    \/ RemoveDevice(c) \/ NotifyOffline(c)

ClientStep(v) ==
    \/ Join(v) \/ Drop(v) \/ Welcomed(v) \/ Arrival(v) \/ Departure(v)

Next ==
    \/ \E c \in Conn : ConnStep(c)
    \/ \E v \in Client : ClientStep(v)
    \/ Restart

Spec == Init /\ [][Next]_vars

-----------------------------------------------------------------------------
(* Every part of the state has the type of its counterpart in the code.    *)
TypeOK ==
    /\ online \in [Client -> Session \cup {None}]
    /\ conn \in [Conn -> [pc : PC, out : Seq([to : Conn, msg : Message])]]
    /\ session \in [Client -> Session \cup {None}]
    /\ state \in [Client -> {"off", "wait", "up"}]
    /\ queue \in [Client -> Seq(Message)]
    /\ known \in [Client -> SUBSET Client]
    /\ overtaken \in SUBSET (Client \X Client)
    /\ witness \in SUBSET (Client \X Client)

Connected(v) == state[v] = "up" /\ online[v] = session[v] /\ At(<<v, session[v]>>, "read")
Over(w)      == \A c \in {w} \X Session : conn[c].pc \in {"none", "gone"}
Quiet ==
    /\ \A c \in Conn : conn[c].pc \in {"none", "read", "gone"} /\ conn[c].out = <<>>
    /\ \A v \in Client : queue[v] = <<>>

(***************************************************************************)
(* Between peerList, the list's way to the client, and notifyOnline no      *)
(* device slips through: once nothing is on its way, every device connected *)
(* knows every other.  Excepted are those that removeDevice reported gone   *)
(* when they were already back (server.go:623).                             *)
(***************************************************************************)
EveryoneKnown ==
    Quiet => \A v, w \in Client :
                v # w /\ Connected(v) /\ Connected(w) /\ <<v, w>> \notin overtaken
                    => w \in known[v]

(***************************************************************************)
(* A device that had its list when another joined, and has been connected  *)
(* since, does not go on knowing the other when it has left: arrivals and  *)
(* departures are never seen in the wrong order.                           *)
(***************************************************************************)
GoneForgotten ==
    Quiet => \A p \in witness :
                Connected(p[1]) /\ Over(p[2]) => p[2] \notin known[p[1]]
=============================================================================
