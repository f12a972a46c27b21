----------------------------- MODULE HolePunch ------------------------------
(***************************************************************************)
(* Direct paths between devices: the addresses the relay records and the   *)
(* server's answer to a hole request (relayLoop and handleHoleRequest in   *)
(* server.go), and on each client the peers' candidate addresses, the      *)
(* goroutines that punch, and the paths found (client.go).                 *)
(*                                                                         *)
(* PeerView has the steps by which devices are told of each other; here an *)
(* arrival and a departure are announced in one step each.  The n-th       *)
(* session of a client is also the address of its n-th UDP socket.  A UDP  *)
(* packet arrives while both ends have the sockets it was sent between, or *)
(* not at all.                                                             *)
(***************************************************************************)
EXTENDS Naturals, Sequences
LOCAL INSTANCE Functions

CONSTANTS
    Client,
    Punching,      \* clients configured to punch (not Config.NoPunch)
    MaxJoin,       \* bound: connections of all clients
    MayTimeOut     \* whether the server may end a connection first

VARIABLES
    online,    \* Server.devices: the session that has the client's address
    udpAddr,   \* Device.UDPAddr of that connection
    serving,   \* connections whose goroutine goes on
    out,       \* what each goroutine is about to send
    session,   \* each client's latest session, and UDP socket
    up,        \* clients whose session goes on
    queue,     \* messages on their way to the client
    requests,  \* hole requests on their way to the server
    retry,     \* timers that will repeat a hole request
    peers,     \* Client.peers
    punching,  \* Client.punching
    punchers,  \* goroutines of startPunch
    overtaken  \* history: <<v, w>> if v was told last that w, online, left

server  == <<online, udpAddr, serving, out>>
link    == <<session, up>>
signals == <<queue, requests, retry>>
table   == <<peers, punching, punchers>>
vars    == <<server, link, signals, table, overtaken>>

ASSUME PunchAssumption == Punching \subseteq Client
ASSUME BoundAssumption == MaxJoin \in Nat \ {0} /\ MayTimeOut \in BOOLEAN

None    == 0                    \* no session, no address (nil)
Session == 1 .. MaxJoin
Addr    == Session \cup {None}
Conn    == Client \X Session

Message == [type : {"PeerList", "PeerOnline", "PeerOffline", "HoleNotify", "Error"},
            peers : SUBSET Client, addr : Addr]
Msg(t, S)     == [type |-> t, peers |-> S, addr |-> None]
Candidate(w, a) == [type |-> "HoleNotify", peers |-> {w}, addr |-> a]

Peer     == [known : BOOLEAN, cand : Addr, addr : Addr]  \* addr if p2p
Stranger == [known |-> FALSE, cand |-> None, addr |-> None]

Init ==
    /\ online = [v \in Client |-> None]
    /\ udpAddr = [v \in Client |-> None]
    /\ serving = {}
    /\ out = [c \in Conn |-> <<>>]
    /\ session = [v \in Client |-> None]
    /\ up = {}
    /\ queue = [v \in Client |-> <<>>]
    /\ requests = [v \in Client |-> {}]
    /\ retry = [v \in Client |-> {}]
    /\ peers = [v \in Client |-> [w \in Client |-> Stranger]]
    /\ punching = [v \in Client |-> {}]
    /\ punchers = [v \in Client |-> [w \in Client |-> 0]]
    /\ overtaken = {}

-----------------------------------------------------------------------------
(* The server.                                                             *)

Devices == {v \in Client : online[v] # None}

(* What is sent to a connection that has ended, at either end, is lost.    *)
Reaches(c) == c[1] \in up /\ c[2] = session[c[1]] /\ c \in serving

(* The bound on connections, of each client and of all.                    *)
Room(v) == session[v] < MaxJoin /\ FoldFunction(+, 0, session) < MaxJoin

(* register, the list, and notifyOnline.  The client opens its socket and  *)
(* starts its loops.                                                       *)
Join(v) ==
    LET k == session[v] + 1
        others == {w \in Devices \ {v} : Reaches(<<w, online[w]>>)}
    IN  /\ v \notin up
        /\ Room(v)
        /\ session' = [session EXCEPT ![v] = k]
        /\ up' = up \cup {v}
        /\ online' = [online EXCEPT ![v] = k]
        /\ udpAddr' = [udpAddr EXCEPT ![v] = None]
        /\ serving' = serving \cup {<<v, k>>}
        /\ queue' = [w \in Client |->
                       IF w = v THEN <<Msg("PeerList", Devices \ {v})>>
                       ELSE IF w \in others THEN Append(queue[w], Msg("PeerOnline", {v}))
                       ELSE queue[w]]
        /\ overtaken' = overtaken \ (others \X {v} \cup {v} \X Devices)
        /\ UNCHANGED <<out, requests, retry, table>>

(* The client is gone, or silent for 60 s.  removeDevice deletes the entry *)
(* if it is still this connection's; everybody is told in either case.     *)
Leave(c) ==
    LET v == c[1]
        left == IF online[v] = c[2] THEN Devices \ {v} ELSE Devices
        told == {w \in left : Reaches(<<w, online[w]>>)}
    IN  /\ c \in serving
        /\ out[c] = <<>>
        /\ MayTimeOut \/ v \notin up \/ c[2] # session[v]
        /\ serving' = serving \ {c}
        /\ IF online[v] = c[2]
           THEN /\ online' = [online EXCEPT ![v] = None]
                /\ udpAddr' = [udpAddr EXCEPT ![v] = None]
                /\ UNCHANGED overtaken
           ELSE /\ overtaken' = overtaken \cup told \X {v}
                /\ UNCHANGED <<online, udpAddr>>
        /\ queue' = [w \in Client |->
                       IF w \in told THEN Append(queue[w], Msg("PeerOffline", {v})) ELSE queue[w]]
        /\ UNCHANGED <<out, link, requests, retry, table>>

(* relayLoop: any packet from a device online tells its address.           *)
Record(v) ==
    /\ v \in up
    /\ online[v] # None
    /\ udpAddr' = [udpAddr EXCEPT ![v] = session[v]]
    /\ UNCHANGED <<online, serving, out, link, signals, table, overtaken>>

(* Mutant of HoleRequest: does not test whether the peer is there.         *)
HoleRequestUnchecked(c, w) ==
    LET v == c[1]
    IN  /\ c \in serving
        /\ out[c] = <<>>
        /\ c[2] = session[v]
        /\ w \in requests[v]
        /\ requests' = [requests EXCEPT ![v] = @ \ {w}]
        /\ out' = [out EXCEPT ![c] = <<[to |-> c, msg |-> Candidate(w, udpAddr[w])],
                                      [to |-> <<w, online[w]>>, msg |-> Candidate(v, udpAddr[v])]>>]
        /\ UNCHANGED <<online, udpAddr, serving, link, queue, retry, table, overtaken>>

(* handleHoleRequest looks both addresses up.  A peer that is not online or*)
(* has no address recorded is "not ready".                                 *)
HoleRequest(c, w) ==
    LET v == c[1]
        toFrom == [to |-> c, msg |-> Candidate(w, udpAddr[w])]
        toPeer == [to |-> <<w, online[w]>>, msg |-> Candidate(v, udpAddr[v])]
    IN  /\ c \in serving
        /\ out[c] = <<>>
        /\ c[2] = session[v]
        /\ w \in requests[v]
        /\ requests' = [requests EXCEPT ![v] = @ \ {w}]
        /\ out' = [out EXCEPT ![c] =
                     IF udpAddr[w] = None THEN <<[to |-> c, msg |-> Msg("Error", {w})]>>
                     ELSE IF udpAddr[v] = None THEN <<toFrom>>
                     ELSE <<toFrom, toPeer>>]
        /\ UNCHANGED <<online, udpAddr, serving, link, queue, retry, table, overtaken>>

(* ... and sends after s.mu is unlocked.                                   *)
Send(c) ==
    LET s == Head(out[c])
        v == s.to[1]
    IN  /\ out[c] # <<>>
        /\ out' = [out EXCEPT ![c] = Tail(@)]
        /\ IF Reaches(s.to)
           THEN /\ queue' = [queue EXCEPT ![v] = Append(@, s.msg)]
                /\ overtaken' = IF s.msg.type = "HoleNotify" /\ v \in Punching
                                THEN overtaken \ ({v} \X s.msg.peers) ELSE overtaken
           ELSE UNCHANGED <<queue, overtaken>>
        /\ UNCHANGED <<online, udpAddr, serving, link, requests, retry, table>>

(* The server process ends and starts again; the clients find out later.   *)
Restart ==
    /\ online' = [v \in Client |-> None]
    /\ udpAddr' = [v \in Client |-> None]
    /\ serving' = {}
    /\ out' = [c \in Conn |-> <<>>]
    /\ UNCHANGED <<link, signals, table, overtaken>>

-----------------------------------------------------------------------------
(* The client.                                                             *)

(* The session ends and is torn down: messages are lost, and a timer will  *)
(* find its connection closed.  Peers, marks and goroutines stay.          *)
Drop(v) ==
    /\ v \in up
    /\ up' = up \ {v}
    /\ queue' = [queue EXCEPT ![v] = <<>>]
    /\ requests' = [requests EXCEPT ![v] = {}]
    /\ retry' = [retry EXCEPT ![v] = {}]
    /\ UNCHANGED <<server, session, table, overtaken>>

(* signalingLoop takes the next message.                                   *)
Reads(v, types) ==
    /\ queue[v] # <<>>
    /\ Head(queue[v]).type \in types
    /\ queue' = [queue EXCEPT ![v] = Tail(@)]
    /\ UNCHANGED <<server, link, overtaken>>
About(v) == Head(queue[v]).peers

(* ensurePeer, and holeRequest unless punching is off.                     *)
Arrival(v) ==
    /\ Reads(v, {"PeerList", "PeerOnline"})
    /\ peers' = [peers EXCEPT ![v] = [w \in Client |->
                    IF w \in About(v) THEN [@[w] EXCEPT !.known = TRUE] ELSE @[w]]]
    /\ requests' = [requests EXCEPT ![v] = IF v \in Punching THEN @ \cup About(v) ELSE @]
    /\ UNCHANGED <<retry, punching, punchers>>

(* The peer and its mark are deleted; a goroutine goes on.                 *)
Departure(v) ==
    /\ Reads(v, {"PeerOffline"})
    /\ peers' = [peers EXCEPT ![v] = [w \in Client |->
                    IF w \in About(v) THEN Stranger ELSE @[w]]]
    /\ punching' = [punching EXCEPT ![v] = @ \ About(v)]
    /\ UNCHANGED <<requests, retry, punchers>>

(* setCandidate, and startPunch unless the peer is marked.                 *)
HoleNotify(v, w) ==
    /\ Reads(v, {"HoleNotify"})
    /\ w \in About(v)
    /\ IF v \in Punching
       THEN /\ peers' = [peers EXCEPT ![v][w] =
                          [@ EXCEPT !.known = TRUE, !.cand = Head(queue[v]).addr]]
            /\ punching' = [punching EXCEPT ![v] = @ \cup {w}]
            /\ punchers' = [punchers EXCEPT ![v][w] = IF w \in punching[v] THEN @ ELSE @ + 1]
       ELSE UNCHANGED table
    /\ UNCHANGED <<requests, retry>>

(* Mutant of NotReady: gives up.                                           *)
NotReadyIgnored(v) ==
    /\ Reads(v, {"Error"})
    /\ UNCHANGED <<requests, retry, table>>

(* "not ready" starts a timer of 500 ms ...                                *)
NotReady(v) ==
    /\ Reads(v, {"Error"})
    /\ retry' = [retry EXCEPT ![v] = IF v \in Punching THEN @ \cup About(v) ELSE @]
    /\ UNCHANGED <<requests, table>>

(* ... which asks again if the peer is still known.                        *)
Retry(v, w) ==
    /\ w \in retry[v]
    /\ retry' = [retry EXCEPT ![v] = @ \ {w}]
    /\ requests' = [requests EXCEPT ![v] = IF peers[v][w].known THEN @ \cup {w} ELSE @]
    /\ UNCHANGED <<server, link, queue, table, overtaken>>

(* A packet sent by v to the address a of w arrives, unless that socket is *)
(* closed; what arrives directly proves a path (setP2P).                   *)
Arrives(v, w, a) == v \in up /\ w \in up \ {v} /\ a = session[w]
Proves(t, v, w)  == [t EXCEPT ![w][v] = [@ EXCEPT !.known = TRUE, !.addr = session[v]]]

(* A goroutine of startPunch probes the candidate unless there is a path;  *)
(* the answer may be lost.                                                 *)
Probe(v, w) ==
    /\ punchers[v][w] > 0
    /\ peers[v][w].addr = None
    /\ Arrives(v, w, peers[v][w].cand)
    /\ \/ peers' = Proves(peers, v, w)
       \/ peers' = Proves(Proves(peers, v, w), w, v)
    /\ UNCHANGED <<server, link, signals, punching, punchers, overtaken>>

(* It ends when there is a path or no candidate, or after 20 rounds, and   *)
(* takes back the mark, whoever set it.                                    *)
PunchEnds(v, w) ==
    /\ punchers[v][w] > 0
    /\ punchers' = [punchers EXCEPT ![v][w] = @ - 1]
    /\ punching' = [punching EXCEPT ![v] = @ \ {w}]
    /\ UNCHANGED <<server, link, signals, peers, overtaken>>

(* sendEnc sends data on the direct path if there is one; what goes to the *)
(* relay has no effect but that of Record.                                 *)
SendData(v, w) ==
    /\ Arrives(v, w, peers[v][w].addr)
    /\ peers' = Proves(peers, v, w)
    /\ UNCHANGED <<server, link, signals, punching, punchers, overtaken>>

ConnStep(c) == Leave(c) \/ Send(c) \/ \E w \in Client : HoleRequest(c, w)

ClientStep(v) ==
    \/ Join(v) \/ Drop(v) \/ Record(v) \/ Arrival(v) \/ Departure(v) \/ NotReady(v)
    \/ \E w \in Client : \/ HoleNotify(v, w) \/ Retry(v, w)
                         \/ Probe(v, w) \/ PunchEnds(v, w) \/ SendData(v, w)

Next ==
    \/ \E c \in Conn : ConnStep(c)
    \/ \E v \in Client : ClientStep(v)
    \/ Restart

Spec == Init /\ [][Next]_vars

-----------------------------------------------------------------------------
(* Every part of the state has the type of its counterpart in the code.    *)
TypeOK ==
    /\ online \in [Client -> Addr]
    /\ udpAddr \in [Client -> Addr]
    /\ serving \in SUBSET Conn
    /\ out \in [Conn -> Seq([to : Conn, msg : Message])]
    /\ session \in [Client -> Addr]
    /\ up \in SUBSET Client
    /\ queue \in [Client -> Seq(Message)]
    /\ requests \in [Client -> SUBSET Client]
    /\ retry \in [Client -> SUBSET Client]
    /\ peers \in [Client -> [Client -> Peer]]
    /\ punching \in [Client -> SUBSET Client]
    /\ punchers \in [Client -> [Client -> Nat]]
    /\ overtaken \in SUBSET (Client \X Client)

Connected(v) == v \in up /\ online[v] = session[v]
Quiet ==
    /\ \A c \in Conn : out[c] = <<>>
    /\ \A v \in Client : queue[v] = <<>>

(***************************************************************************)
(* No hole request is lost, whether the peer was away, not yet recorded,   *)
(* forgotten meanwhile or about to reconnect: once nothing is on its way, a*)
(* device that punches has a candidate address of every device connected,  *)
(* or is going to ask again.  Excepted are those that it was told had left *)
(* when they were already back.                                            *)
(***************************************************************************)
CandidateFound ==
    Quiet => \A v \in Punching : \A w \in Client \ {v} :
        Connected(v) /\ Connected(w) /\ <<v, w>> \notin overtaken
            => peers[v][w].cand # None \/ w \in requests[v] \cup retry[v]

Stale(v, w) == peers[v][w].addr \notin {None, session[w]}

(***************************************************************************)
(* "P2P 直连优先，否则走服务器中继" (client.go:785), "失败自动走中继"      *)
(* (README.md:8): two connected devices do not go on sending each other    *)
(* packets to sockets that are closed.  Nothing can put an end to that when*)
(* no PeerOffline is on its way or to come from an old connection: with a  *)
(* path marked as found neither probes, and only a direct packet changes it*)
(***************************************************************************)
FallsBack ==
    Quiet /\ (\A c \in serving : c[2] = session[c[1]]) =>
        \A v, w \in Client :
            v # w /\ Connected(v) /\ Connected(w) => ~(Stale(v, w) /\ Stale(w, v))
=============================================================================
