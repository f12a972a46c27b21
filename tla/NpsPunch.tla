----------------------------- MODULE NpsPunch -----------------------------
(***************************************************************************)
(* The direct path of the embedded NPS: a visitor's program asks the       *)
(* server (client/local.go, bridge/bridge.go), the server tells the        *)
(* provider (client/client.go), both report to three rendezvous ports      *)
(* (server/proxy/p2p.go) and test the address they get back                *)
(* (client/control.go).  One password, one visitor, whose attempts all use *)
(* one local address; the provider takes a new one for every attempt.  A   *)
(* datagram that is lost is one that stays where it is for ever.           *)
(***************************************************************************)
EXTENDS Integers, Sequences, FiniteSets

CONSTANTS
    Ports,  \* the rendezvous ports: three in the code
    MaxTry  \* bound: the attempts on one local address (ten in the code)

Asking   == 0                 \* the visitor's address
Provider == 1 .. MaxTry       \* the provider's, one for every attempt
End      == {Asking} \cup Provider
None     == -1

VARIABLES
    tries,   \* attempts so far
    pc,      \* [End -> "no", "hung", "wait", "test", "closed"]
    got,     \* [End -> [Ports -> the address the server sent, or None]]
    told,    \* NEW_UDP_CONN on its way: attempts
    reports, \* reports on their way: {<<server, end, attempt>>}
    p2p,     \* [Ports -> the entry of the password, 0: none]
    entry,   \* [Ports -> Seq(providerAddr): every entry ever made]
    polling, \* [Ports -> {<<attempt, entry>>}: the goroutines that wait]
    answers, \* on their way: {<<server, end, address>>}
    tests,   \* test packets, sent again and again: {<<from, to, what>>}
    heard,   \* history: {<<a, b>>}: a received a test packet of b
    result   \* [End -> the address its test ended with, or None]

punchVars == <<tries, pc, got, told, reports, p2p, entry, polling,
               answers, tests, heard, result>>
rendezvous == <<p2p, entry, polling>>
history    == <<heard, result>>

Nothing == [s \in Ports |-> None]

PunchInit ==
    /\ tries = 0 /\ told = {} /\ reports = {} /\ answers = {} /\ tests = {}
    /\ heard = {}
    /\ pc = [e \in End |-> "no"]
    /\ got = [e \in End |-> Nothing]
    /\ result = [e \in End |-> None]
    /\ p2p = [s \in Ports |-> 0]
    /\ entry = [s \in Ports |-> << >>]
    /\ polling = [s \in Ports |-> {}]

-----------------------------------------------------------------------------
(* The beginning of an attempt.                                            *)

(* handleP2PUdp opens the local address and reports to every port.         *)
Report(e, n) ==
    /\ pc' = [pc EXCEPT ![e] = "wait"]
    /\ got' = [got EXCEPT ![e] = Nothing]
    /\ reports' = reports \cup {<<s, e, n>> : s \in Ports}

(* The bridge writes to the provider's signal, where the message may be    *)
(* lost, and answers the visitor; with no provider it answers nothing, and *)
(* the visitor waits with its lock held.                                   *)
Answer ==
    /\ told' = told \cup {tries'}
    /\ Report(Asking, tries')

NoAnswer ==
    /\ pc' = [pc EXCEPT ![Asking] = "hung"]
    /\ UNCHANGED <<told, got, reports>>

(* The monitor tries again while it has no tunnel.                         *)
Ask ==
    /\ pc[Asking] \in {"no", "closed"} /\ tries < MaxTry
    /\ tries' = tries + 1
    /\ result' = [result EXCEPT ![Asking] = None]
    /\ Answer \/ NoAnswer
    /\ UNCHANGED <<rendezvous, answers, tests, heard>>

(* The provider's client: a goroutine and a local address per message.     *)
Told(n) ==
    /\ n \in told
    /\ told' = told \ {n}
    /\ Report(n, n)
    /\ UNCHANGED <<tries, rendezvous, answers, tests, history>>

-----------------------------------------------------------------------------
(* The rendezvous ports.                                                   *)

(* handleP2P finds the entry of the password or makes one.                 *)
Found(s) == IF p2p[s] # 0 THEN p2p[s] ELSE Len(entry[s]) + 1
Table(s) == IF p2p[s] # 0 THEN entry[s] ELSE Append(entry[s], None)

Visits(s, n) ==
    /\ <<s, Asking, n>> \in reports
    /\ reports' = reports \ {<<s, Asking, n>>}
    /\ p2p' = [p2p EXCEPT ![s] = Found(s)]
    /\ entry' = [entry EXCEPT ![s] = Table(s)]
    /\ polling' = [polling EXCEPT ![s] = @ \cup {<<n, Found(s)>>}]
    /\ UNCHANGED <<tries, pc, got, told, answers, tests, history>>

Provides(s, n) ==
    /\ <<s, n, n>> \in reports
    /\ reports' = reports \ {<<s, n, n>>}
    /\ p2p' = [p2p EXCEPT ![s] = Found(s)]
    /\ entry' = [entry EXCEPT ![s] = [Table(s) EXCEPT ![Found(s)] = n]]
    /\ UNCHANGED <<tries, pc, got, told, polling, answers, tests, history>>

(* The visitor's goroutine ends: with the provider's address in its entry  *)
(* it answers both, after twenty looks it answers nobody.  It deletes the  *)
(* entry of the password, whichever that is by now.                        *)
EndPolling(s, g) ==
    /\ polling' = [polling EXCEPT ![s] = @ \ {g}]
    /\ p2p' = [p2p EXCEPT ![s] = 0]
    /\ UNCHANGED <<tries, pc, got, told, reports, entry, tests, history>>

Pair(s, g) ==
    /\ g \in polling[s] /\ entry[s][g[2]] # None
    /\ answers' = answers \cup {<<s, Asking, entry[s][g[2]]>>, <<s, entry[s][g[2]], Asking>>}
    /\ EndPolling(s, g)

GiveUp(s, g) ==
    /\ g \in polling[s] /\ entry[s][g[2]] = None
    /\ UNCHANGED answers
    /\ EndPolling(s, g)

-----------------------------------------------------------------------------
(* handleP2PUdp and sendP2PTestMsg at one end.                             *)

Closed(e) ==
    /\ pc' = [pc EXCEPT ![e] = "closed"]
    /\ got' = [got EXCEPT ![e] = Nothing]

(* An answer of a port; with three of them the test begins.                *)
Answered(s, e, a) ==
    /\ <<s, e, a>> \in answers /\ pc[e] = "wait"
    /\ answers' = answers \ {<<s, e, a>>}
    /\ got' = [got EXCEPT ![e][s] = a]
    /\ pc' = [pc EXCEPT ![e] = IF \A t \in Ports : got'[e][t] # None THEN "test" ELSE "wait"]
    /\ UNCHANGED <<tries, told, reports, rendezvous, tests, history>>

(* Thirty seconds without the answers, ten without a test packet.          *)
TimeOut(e) ==
    /\ pc[e] \in {"wait", "test"}
    /\ Closed(e)
    /\ UNCHANGED <<tries, told, reports, rendezvous, answers, tests, history>>

(* Where the connect packets go: to the address the ports agree on, or,    *)
(* when they differ, to a guess and to fifty random ports.                 *)
Agreed(e) == \E a \in End : \A s \in Ports : got[e][s] = a
Guess(e)  == IF e = Asking THEN Provider ELSE {Asking}
Aims(e)   == IF Agreed(e) THEN {got[e][s] : s \in Ports} ELSE Guess(e)

Connect(e) ==
    /\ pc[e] = "test"
    /\ \E a \in Aims(e) : tests' = tests \cup {<<e, a, "connect">>}
    /\ UNCHANGED <<tries, pc, got, told, reports, rendezvous, answers, history>>

Receives(e, a, what) ==
    /\ pc[e] = "test" /\ <<a, e, what>> \in tests
    /\ heard' = heard \cup {<<e, a>>}

(* The test ends.  The local address is bound again while the first socket *)
(* on it is still open (its Close is deferred), which fails: both sockets  *)
(* are gone and there is no tunnel, whatever the test said.                *)
EndTest(e, a) ==
    /\ result' = [result EXCEPT ![e] = a]
    /\ Closed(e)
    /\ UNCHANGED <<tries, told, reports, rendezvous, answers>>

(* A plausible fault: the first connect packet ends the test.              *)
TakeConnectSure(e, a) ==
    /\ Receives(e, a, "connect")
    /\ tests' = tests \cup {<<e, a, "success">>}
    /\ EndTest(e, a)

TakeConnect(e, a) ==
    /\ Receives(e, a, "connect")
    /\ tests' = tests \cup {<<e, a, "success">>}
    /\ UNCHANGED <<tries, pc, got, told, reports, rendezvous, answers, result>>

TakeSuccess(e, a) ==
    /\ Receives(e, a, "success")
    /\ tests' = tests \cup {<<e, a, "end">>}
    /\ EndTest(e, a)

TakeEnd(e, a) ==
    /\ Receives(e, a, "end")
    /\ UNCHANGED tests
    /\ EndTest(e, a)

-----------------------------------------------------------------------------
AtServer(s) ==
    \/ \E n \in Provider : Visits(s, n) \/ Provides(s, n)
    \/ \E g \in polling[s] : Pair(s, g) \/ GiveUp(s, g)

AtEnd(e) ==
    \/ TimeOut(e) \/ Connect(e)
    \/ \E s \in Ports, a \in End : Answered(s, e, a)
    \/ \E a \in End : TakeConnect(e, a) \/ TakeSuccess(e, a) \/ TakeEnd(e, a)

PunchNext ==
    \/ Ask
    \/ \E n \in Provider : Told(n)
    \/ \E s \in Ports : AtServer(s)
    \/ \E e \in End : AtEnd(e)

PunchSpec == PunchInit /\ [][PunchNext]_punchVars

-----------------------------------------------------------------------------
(* The types; an entry of a table is one that was made.                    *)
PunchTypeOK ==
    /\ tries \in 0 .. MaxTry
    /\ pc \in [End -> {"no", "hung", "wait", "test", "closed"}]
    /\ got \in [End -> [Ports -> End \cup {None}]]
    /\ told \subseteq Provider
    /\ reports \subseteq Ports \X End \X Provider
    /\ \A s \in Ports : /\ p2p[s] \in 0 .. Len(entry[s])
                         /\ \A g \in polling[s] : g[2] \in 1 .. Len(entry[s])
    /\ result \in [End -> End \cup {None}]

(* An end whose test ended with an address has heard that address and was  *)
(* heard by it: the path works in both directions (control.go:470-487),    *)
(* also when the ports paired it with the socket of another attempt.       *)
Mutual ==
    \A e \in End : result[e] # None => {<<e, result[e]>>, <<result[e], e>>} \subseteq heard

(* What docs/changelog/index.md:29 says of the path, and the code does not *)
(* do: a visitor whose test succeeded is connected with the provider's     *)
(* socket of the same attempt (a late report leaves an entry behind).      *)
OwnAttempt == result[Asking] \in {None, tries}
=============================================================================
