---------------------------- MODULE Forwarding -----------------------------
(***************************************************************************)
(* The client's NAT (internal/client/nat.go): packets for a virtual port   *)
(* of this device go on to a target of its LAN, the answers go back under  *)
(* that port.  The kernel and the target see one flow per target and       *)
(* visitor, whatever port the visitor called.  The clock counts minutes.   *)
(***************************************************************************)
EXTENDS Naturals

CONSTANTS
    Origin,  \* protocol, address and port a visitor sends from
    VPort,   \* virtual ports
    Target,  \* addresses and ports of the LAN
    MaxNow   \* bound: minutes

VARIABLES
    now,
    rules,    \* rules: partial function VPort -> Target
    fwd,      \* fwd: <<origin, vport>> -> [target, lastSeen], written and swept, never read
    rev,      \* rev: <<target, origin>> -> vport
    revSeen,  \* revSeen: <<target, origin>> -> minute
    used,     \* what the target sees: <<target, origin>> -> minute of the last packet
    called    \* the ports the visitor has called in a flow: <<target, origin>> -> set of VPort

natVars == <<now, rules, fwd, rev, revSeen, used, called>>

NoFlows == [x \in {} |-> x]

(* Map f with k mapped to v.                                               *)
Put(f, k, v) == [x \in DOMAIN f \cup {k} |-> IF x = k THEN v ELSE f[x]]

(* Map f without the keys of K.                                            *)
Without(f, K) == [x \in DOMAIN f \ K |-> f[x]]

NatInit ==
    /\ now = 0
    /\ rules = NoFlows /\ fwd = NoFlows /\ rev = NoFlows /\ revSeen = NoFlows
    /\ used = NoFlows /\ called = NoFlows

(* setRules: the whole set at once, as the server sends it; no two rules   *)
(* have one port (ParseSet).  Flows under way are left alone.              *)
SetRules ==
    /\ \E P \in SUBSET VPort : \E r \in [P -> Target] : r # rules /\ rules' = r
    /\ UNCHANGED <<now, fwd, rev, revSeen, used, called>>

(* DNAT of a whole packet that meets a rule.  Any other is delivered to    *)
(* this device as it is.                                                   *)
DNAT(o, v) ==
    /\ v \in DOMAIN rules
    /\ LET f == <<rules[v], o>> IN
       /\ fwd' = Put(fwd, <<o, v>>, [target |-> rules[v], lastSeen |-> now])
       /\ rev' = Put(rev, f, v)
       /\ revSeen' = Put(revSeen, f, now)
       /\ used' = Put(used, f, now)
       /\ called' = Put(called, f, {v} \cup (IF f \in DOMAIN called THEN called[f] ELSE {}))
    /\ UNCHANGED <<now, rules>>

(* The target answers and SNAT looks its flow up; an answer it does not    *)
(* know leaves under the target's own address.                             *)
SNAT(f) ==
    /\ f \in DOMAIN used
    /\ used' = Put(used, f, now)
    /\ revSeen' = IF f \in DOMAIN rev THEN Put(revSeen, f, now) ELSE revSeen
    /\ UNCHANGED <<now, rules, fwd, rev, called>>

Old(t, seen) == t - seen > 2

(* Mutant of Expired: an answer lives as long as the requests.             *)
ExpiredByRequests ==
    {f \in DOMAIN rev : \A k \in DOMAIN fwd : k[1] = f[2] => Old(now + 1, fwd[k].lastSeen)}

(* The answers that the next sweep deletes.                                *)
Expired == {f \in DOMAIN revSeen : Old(now + 1, revSeen[f])}

(* A minute passes and cleanLoop sweeps; a flow that has been silent for   *)
(* two minutes is over.                                                    *)
Tick ==
    /\ now < MaxNow /\ now' = now + 1
    /\ fwd' = Without(fwd, {k \in DOMAIN fwd : Old(now', fwd[k].lastSeen)})
    /\ rev' = Without(rev, Expired) /\ revSeen' = Without(revSeen, Expired)
    /\ used' = Without(used, {f \in DOMAIN used : Old(now', used[f])})
    /\ called' = Without(called, DOMAIN called \ DOMAIN used')
    /\ UNCHANGED rules

(* A new session has a new NAT, without rules until the server answers.    *)
NewNat ==
    /\ DOMAIN rules # {} \/ DOMAIN rev # {}
    /\ rules' = NoFlows /\ fwd' = NoFlows /\ rev' = NoFlows /\ revSeen' = NoFlows
    /\ used' = NoFlows /\ called' = NoFlows
    /\ UNCHANGED now

NatNext ==
    \/ SetRules \/ Tick \/ NewNat
    \/ \E o \in Origin, v \in VPort : DNAT(o, v)
    \/ \E f \in Target \X Origin : SNAT(f)

NatSpec == NatInit /\ [][NatNext]_natVars

-----------------------------------------------------------------------------
(* Types; the two tables of the answers have the same keys (nat.go:29).    *)
NatTypeOK ==
    /\ now \in 0 .. MaxNow
    /\ DOMAIN rules \subseteq VPort /\ \A v \in DOMAIN rules : rules[v] \in Target
    /\ DOMAIN fwd \subseteq Origin \X VPort
    /\ DOMAIN rev \subseteq Target \X Origin /\ \A f \in DOMAIN rev : rev[f] \in VPort
    /\ DOMAIN revSeen = DOMAIN rev /\ \A f \in DOMAIN rev : revSeen[f] \in 0 .. now

(* A flow is known as long as either side has sent within two minutes,     *)
(* across a change of the rules and without requests, and no longer; its   *)
(* answers leave under a port the visitor has called in it (nat.go:161).   *)
FlowsKept ==
    /\ DOMAIN rev = DOMAIN used
    /\ \A f \in DOMAIN rev : rev[f] \in called[f] /\ ~Old(now, revSeen[f])

(* "A session under way should not be cut by a change of the rules"        *)
(* (nat.go:120): its next request meets a rule as well.                    *)
SessionKept == \A k \in DOMAIN fwd : k[2] \in DOMAIN rules

(* The answers to a port leave under that port (nat.go:153): two ports     *)
(* with one target share a flow, and the last one called takes it.         *)
OwnPort == \A k \in DOMAIN fwd : <<fwd[k].target, k[1]>> \in DOMAIN rev => rev[<<fwd[k].target, k[1]>>] = k[2]
=============================================================================
