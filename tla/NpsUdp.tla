------------------------------ MODULE NpsUdp ------------------------------
(***************************************************************************)
(* UDP through the NPS server (server/proxy/udp.go), for one address of a  *)
(* visitor.  A goroutine per packet looks the address up: the first claims *)
(* it, builds the session and reads it until it ends; the others wait until*)
(* it is ready and write to its stream.  A failed write, a sweeper, Close  *)
(* and the builder itself each take the session out of the map, by a       *)
(* comparison and then a deletion.                                         *)
(***************************************************************************)
EXTENDS Integers, FiniteSets

CONSTANTS
    Packet,    \* bound: the packets that arrive
    MaxSession \* bound: the sessions

Session == 1 .. MaxSession
None    == 0

VARIABLES
    packet,   \* [Packet -> [pc, s: the session it found]]
    session,  \* [Session -> [pc, target, ready, idle]]
    made,     \* sessions so far
    addrMap,  \* the session of the address, or None
    removers, \* removeSession between its comparison and its deletion: {<<who, s>>}
    shut,     \* how far Close has come
    udpConns  \* what this server has taken of Client.NowConn

udpVars == <<packet, session, made, addrMap, removers, shut, udpConns>>

UdpInit ==
    /\ packet = [p \in Packet |-> [pc |-> "idle", s |-> None]]
    /\ session = [s \in Session |-> [pc |-> "none", target |-> "none", ready |-> "no", idle |-> FALSE]]
    /\ made = 0
    /\ addrMap = None
    /\ removers = {}
    /\ shut = "no"
    /\ udpConns = 0

Pack(p, pc, s) == packet' = [packet EXCEPT ![p] = [pc |-> pc, s |-> s]]
Sess(s, r)     == session' = [session EXCEPT ![s] = r]
Ready(s)       == session[s].ready # "no"

-----------------------------------------------------------------------------
(* A packet: Start and process.                                            *)

Arrive(p) ==
    /\ packet[p].pc = "idle" /\ shut # "done"
    /\ Pack(p, "load", None)
    /\ UNCHANGED <<session, made, addrMap, removers, shut, udpConns>>

Load(p) ==
    /\ packet[p].pc = "load"
    /\ IF addrMap = None THEN Pack(p, "claim", None) ELSE Pack(p, "dispatch", addrMap)
    /\ UNCHANGED <<session, made, addrMap, removers, shut, udpConns>>

(* The loser of the race for the place sends through the winner's session. *)
LoadOrStore(p) ==
    /\ packet[p].pc = "claim"
    /\ \/ /\ addrMap = None /\ made < MaxSession
          /\ Pack(p, "done", None)
          /\ made' = made + 1
          /\ addrMap' = made'
          /\ Sess(made', [session[made'] EXCEPT !.pc = "check"])
          /\ UNCHANGED <<removers, shut, udpConns>>
       \/ /\ addrMap # None
          /\ Pack(p, "dispatch", addrMap)
          /\ UNCHANGED <<session, made, addrMap, removers, shut, udpConns>>

(* dispatch: a session that was not built, 5 s without one, or a server    *)
(* that closes, and the packet is dropped.                                 *)
Drop(p) ==
    /\ packet[p].pc = "dispatch"
    /\ session[packet[p].s].ready # "ok" \/ shut # "no"
    /\ Pack(p, "done", None)
    /\ UNCHANGED <<session, made, addrMap, removers, shut, udpConns>>

Woken(p) ==
    /\ packet[p].pc = "dispatch"
    /\ session[packet[p].s].ready = "ok"
    /\ Pack(p, "write", packet[p].s)
    /\ UNCHANGED <<session, made, addrMap, removers, shut, udpConns>>

(* The write to the stream, which touches the session.                     *)
Write(p) ==
    LET s == packet[p].s IN
    /\ packet[p].pc = "write" /\ session[s].target = "open"
    /\ Pack(p, "done", None)
    /\ Sess(s, [session[s] EXCEPT !.idle = FALSE])
    /\ UNCHANGED <<made, addrMap, removers, shut, udpConns>>

-----------------------------------------------------------------------------
(* removeSession.                                                          *)

Close(s) == IF session[s].target = "open" THEN [session[s] EXCEPT !.target = "closed"] ELSE session[s]

(* Load and the comparison; a session that is not there is closed at once. *)
Compare(who, s) ==
    /\ removers' = IF addrMap = s THEN removers \cup {<<who, s>>} ELSE removers
    /\ Sess(s, IF addrMap = s THEN session[s] ELSE Close(s))

(* Delete takes out whatever is there by now.                              *)
Delete(who, s) ==
    /\ <<who, s>> \in removers
    /\ removers' = removers \ {<<who, s>>}
    /\ addrMap' = None
    /\ Sess(s, Close(s))
    /\ UNCHANGED <<packet, made, shut, udpConns>>

WriteFails(p) ==
    /\ packet[p].pc = "write" /\ session[packet[p].s].target = "closed"
    /\ Pack(p, "done", None)
    /\ Compare(p, packet[p].s)
    /\ UNCHANGED <<made, addrMap, shut, udpConns>>

(* Nothing for two minutes.                                                *)
Idle(s) ==
    /\ session[s].pc = "loop" /\ ~session[s].idle
    /\ Sess(s, [session[s] EXCEPT !.idle = TRUE])
    /\ UNCHANGED <<packet, made, addrMap, removers, shut, udpConns>>

(* The sweeper passes over sessions that are not built.                    *)
Sweep ==
    /\ addrMap # None /\ shut = "no"
    /\ session[addrMap].target # "none" /\ session[addrMap].idle
    /\ \A r \in removers : r[1] # "sweeper"
    /\ Compare("sweeper", addrMap)
    /\ UNCHANGED <<packet, made, addrMap, shut, udpConns>>

(* Close: closeCh, then what is in the map, then the listener.             *)
CloseServer ==
    /\ \/ /\ shut = "no" /\ shut' = "range"
          /\ UNCHANGED <<removers, session>>
       \/ /\ shut = "range" /\ shut' = "listener"
          /\ addrMap # None
          /\ Compare("close", addrMap)
       \/ /\ \/ shut = "listener"
             \/ shut = "range" /\ addrMap = None
          /\ \A r \in removers : r[1] # "close"
          /\ shut' = "done"
          /\ UNCHANGED <<removers, session>>
    /\ UNCHANGED <<packet, made, addrMap, udpConns>>

-----------------------------------------------------------------------------
(* runSession.                                                             *)

CheckConns(s) ==
    /\ session[s].pc = "check"
    /\ Sess(s, [session[s] EXCEPT !.pc = "link"])
    /\ udpConns' = udpConns + 1
    /\ UNCHANGED <<packet, made, addrMap, removers, shut>>

(* Mutant of FailBuild: wakes nobody.                                      *)
FailBuildSilent(s) ==
    /\ session[s].pc \in {"check", "link"}
    /\ Sess(s, [session[s] EXCEPT !.pc = IF @ = "check" THEN "gone" ELSE "release"])
    /\ addrMap' = None
    /\ UNCHANGED <<packet, made, removers, shut, udpConns>>

(* failBuild: the limits of the client, or no stream.  It wakes those that *)
(* wait and deletes the address.                                           *)
FailBuild(s) ==
    /\ session[s].pc \in {"check", "link"}
    /\ Sess(s, [session[s] EXCEPT !.pc = IF @ = "check" THEN "gone" ELSE "release", !.ready = "err"])
    /\ addrMap' = None
    /\ UNCHANGED <<packet, made, removers, shut, udpConns>>

Build(s) ==
    /\ session[s].pc = "link"
    /\ Sess(s, [session[s] EXCEPT !.pc = "loop", !.target = "open", !.ready = "ok"])
    /\ UNCHANGED <<packet, made, addrMap, removers, shut, udpConns>>

(* An answer goes to the visitor and touches the session.                  *)
Answer(s) ==
    /\ session[s].pc = "loop" /\ session[s].target = "open" /\ shut # "done"
    /\ session[s].idle
    /\ Sess(s, [session[s] EXCEPT !.idle = FALSE])
    /\ UNCHANGED <<packet, made, addrMap, removers, shut, udpConns>>

(* The first write or a read fails - the stream is closed from either end, *)
(* or nothing came for 60 s: the deferred removeSession ...                *)
LoopEnds(s) ==
    /\ session[s].pc = "loop"
    /\ removers' = IF addrMap = s THEN removers \cup {<<"run", s>>} ELSE removers
    /\ Sess(s, [(IF addrMap = s THEN session[s] ELSE Close(s)) EXCEPT !.pc = "release"])
    /\ UNCHANGED <<packet, made, addrMap, shut, udpConns>>

(* ... and then the deferred AddConn.                                      *)
Release(s) ==
    /\ session[s].pc = "release" /\ <<"run", s>> \notin removers
    /\ Sess(s, [session[s] EXCEPT !.pc = "gone"])
    /\ udpConns' = udpConns - 1
    /\ UNCHANGED <<packet, made, addrMap, removers, shut>>

UdpNext ==
    \/ \E p \in Packet : Arrive(p) \/ Load(p) \/ LoadOrStore(p) \/ Drop(p) \/ Woken(p) \/ Write(p) \/ WriteFails(p)
    \/ \E r \in removers : Delete(r[1], r[2])
    \/ Sweep \/ CloseServer
    \/ \E s \in Session : \/ Idle(s) \/ CheckConns(s) \/ FailBuild(s) \/ Build(s)
                          \/ Answer(s) \/ LoopEnds(s) \/ Release(s)

UdpSpec == UdpInit /\ [][UdpNext]_udpVars

-----------------------------------------------------------------------------
(* Types (udp.go:31).                                                      *)
UdpTypeOK ==
    /\ packet \in [Packet -> [pc : {"idle", "load", "claim", "dispatch", "write", "done"}, s : Session \cup {None}]]
    /\ session \in [Session ->
          [pc : {"none", "check", "link", "loop", "release", "gone"}, target : {"none", "open", "closed"},
           ready : {"no", "ok", "err"}, idle : BOOLEAN]]
    /\ made \in Session \cup {None} /\ addrMap \in Session \cup {None}
    /\ \A r \in removers : r[1] \in Packet \cup {"sweeper", "close", "run"} /\ r[2] \in Session
    /\ shut \in {"no", "range", "listener", "done"}
    /\ udpConns \in Nat

(* No packet is lost in a dead session: the session in the map has its     *)
(* builder, who takes it out before he leaves, and whoever waits for one   *)
(* whose builder has left has been woken (udp.go:129).                     *)
SessionAlive ==
    /\ addrMap # None => session[addrMap].pc # "gone"
    /\ \A p \in Packet : packet[p].pc = "dispatch" /\ session[packet[p].s].pc \in {"release", "gone"}
                         => Ready(packet[p].s)

(* A visitor's address has one stream to npc at a time: "the same src addr *)
(* always has only one mux stream to npc" (udp.go:29).                     *)
OneStream ==
    Cardinality({s \in Session : session[s].pc \in {"link", "loop"} /\ \A r \in removers : r[2] # s}) <= 1
=============================================================================
