----------------------------- MODULE NpsHealth -----------------------------
(***************************************************************************)
(* Health checks of the NPS: npc tries the targets of a tunnel every now   *)
(* and then (client/health.go) and tells the server which have failed and  *)
(* which have come back; the server takes them out of TargetArr and puts   *)
(* them back (bridge/bridge.go, GetHealthFromClient), while visitors take  *)
(* a target each in turn (lib/file/obj.go, GetRandomTarget) under another  *)
(* lock.  One tunnel; for hosts the code is the same once more.            *)
(***************************************************************************)
EXTENDS Integers, Sequences, SequencesExt

CONSTANTS
    Targets,   \* TargetStr: the targets of the tunnel, in order
    MaxFail,   \* HealthMaxFail
    Checker,   \* bound: goroutines of check at a time
    MaxWire,   \* bound: messages on their way
    MaxRemoved,\* bound: entries of HealthRemoveArr
    Losses     \* bound: connections lost

T == Range(Targets)

VARIABLES
    session,    \* the loop that starts the checks: "waits", or "ended"
    healthMap,  \* HealthMap: failures of each target, see Fails
    check,      \* [Checker -> [rest: targets to try, err: what the first gave]]
    signal,     \* messages to the server: <<target, ok>>
    TargetArr,  \* of the tunnel; "nil" until it is needed
    RemoveArr,  \* HealthRemoveArr
    nowIndex,   \* the last target taken
    taking,     \* GetRandomTarget has chosen an index and not read it yet
    out,        \* history: targets whose removal the client has forgotten
    edited,     \* history: the tunnel was edited; once
    losses,
    panicked

healthVars == <<session, healthMap, check, signal, TargetArr, RemoveArr, nowIndex, taking, out, edited, losses, panicked>>
client     == <<session, healthMap, check, out, losses>>
server     == <<TargetArr, RemoveArr, nowIndex, taking, edited, panicked>>

Nil  == "nil"
Idle == [rest |-> <<>>, err |-> "not tried"]

HealthInit ==
    /\ session = "waits"
    /\ healthMap = [t \in T |-> 0]
    /\ check = [c \in Checker |-> Idle]
    /\ signal = <<>>
    /\ TargetArr = Nil /\ RemoveArr = <<>>
    /\ nowIndex = 1 /\ taking = FALSE
    /\ out = {} /\ edited = FALSE /\ losses = 0
    /\ panicked = FALSE

-----------------------------------------------------------------------------
(* The client.                                                             *)

(* The timer: the time of the next check has come, and it is set again.    *)
Tick(c) ==
    /\ session = "waits" /\ check[c] = Idle
    /\ check' = [check EXCEPT ![c].rest = Targets]
    /\ UNCHANGED <<session, healthMap, out, losses, signal, server>>

(* HealthNextTime counts nanoseconds and the heap whole seconds: a second  *)
(* that begins between the two readings of the clock makes the timer early,*)
(* nothing is due, nothing goes back into the heap, and the loop ends.     *)
TickEarly ==
    /\ session = "waits"
    /\ session' = "ended"
    /\ UNCHANGED <<healthMap, check, out, losses, signal, server>>

Try(c) ==
    /\ check[c].rest # <<>> /\ check[c].err = "not tried"
    /\ \E e \in {"failed", "fine"} : check' = [check EXCEPT ![c].err = e]
    /\ UNCHANGED <<session, healthMap, out, losses, signal, server>>

(* Failures are counted for ever; only whether there are MaxFail, and      *)
(* whether MaxFail divides them, is of interest.                           *)
Fails(n) == IF n + 1 = 2 * MaxFail THEN MaxFail ELSE n + 1

Next1(c) == check' = [check EXCEPT ![c] = [rest |-> Tail(@.rest), err |-> "not tried"]]
Tried(c) == check[c].rest[1]

(* Under the lock.  A success takes nothing back before MaxFail failures.  *)
CountFailure(c) ==
    LET t == Tried(c)
        n == Fails(healthMap[t])
    IN  /\ check[c].err = "failed"
        /\ Len(signal) < MaxWire
        /\ healthMap' = [healthMap EXCEPT ![t] = n]
        /\ signal' = IF n % MaxFail = 0 THEN Append(signal, <<t, FALSE>>) ELSE signal
        /\ Next1(c)
        /\ UNCHANGED <<session, out, losses, server>>

(* Mutant of CountSuccess: takes the failures back and does not report it. *)
CountSuccessSilent(c) ==
    /\ check[c].err = "fine"
    /\ healthMap' = [healthMap EXCEPT ![Tried(c)] = 0]
    /\ Next1(c)
    /\ UNCHANGED <<session, signal, out, losses, server>>

CountSuccess(c) ==
    LET t == Tried(c)
    IN  /\ check[c].err = "fine"
        /\ Len(signal) < MaxWire
        /\ IF healthMap[t] >= MaxFail
           THEN /\ signal' = Append(signal, <<t, TRUE>>)
                /\ healthMap' = [healthMap EXCEPT ![t] = 0]
           ELSE UNCHANGED <<signal, healthMap>>
        /\ Next1(c)
        /\ UNCHANGED <<session, out, losses, server>>

InUse(t) == TargetArr = Nil \/ t \in Range(TargetArr)

(* The connection is lost with what was on its way; the next one starts    *)
(* with an empty HealthMap, and the server with what it had.               *)
HeathCheck ==
    /\ losses < Losses
    /\ losses' = losses + 1
    /\ healthMap' = [t \in T |-> 0]
    /\ signal' = <<>>
    /\ out' = {t \in T : ~InUse(t)}
    /\ UNCHANGED <<session, check, server>>

-----------------------------------------------------------------------------
(* The server.                                                             *)

Without(s, t) == RemoveFirst(s, t)                  \* RemoveArrVal

TakeOut ==
    LET t   == Head(signal)[1]
        arr == IF TargetArr = Nil \/ (TargetArr = <<>> /\ RemoveArr = <<>>) THEN Targets ELSE TargetArr
    IN  /\ ~panicked /\ signal # <<>> /\ ~Head(signal)[2]
        /\ Len(RemoveArr) < MaxRemoved
        /\ signal' = Tail(signal)
        /\ TargetArr' = Without(arr, t)
        /\ RemoveArr' = Append(RemoveArr, t)
        /\ UNCHANGED <<client, nowIndex, taking, edited, panicked>>

PutBack ==
    LET t == Head(signal)[1]
    IN  /\ ~panicked /\ signal # <<>> /\ Head(signal)[2]
        /\ signal' = Tail(signal)
        /\ IF t \in Range(RemoveArr) /\ (TargetArr = Nil \/ t \notin Range(TargetArr))
           THEN /\ TargetArr' = Append(IF TargetArr = Nil THEN <<>> ELSE TargetArr, t)
                /\ RemoveArr' = Without(RemoveArr, t)
                /\ out' = out \ {t}
           ELSE UNCHANGED <<TargetArr, RemoveArr, out>>
        /\ UNCHANGED <<session, healthMap, check, losses, nowIndex, taking, edited, panicked>>

(* GetRandomTarget: the next index of those there are, or the first ...    *)
GetRandomTarget ==
    LET arr == IF TargetArr = Nil THEN Targets ELSE TargetArr
    IN  /\ ~panicked /\ ~taking
        /\ TargetArr' = arr
        /\ arr # <<>>
        /\ nowIndex' = IF nowIndex >= Len(arr) THEN 1 ELSE nowIndex + 1
        /\ taking' = TRUE
        /\ UNCHANGED <<client, signal, RemoveArr, edited, panicked>>

(* ... and the element, which the other lock does not protect.             *)
ReadTarget ==
    /\ ~panicked /\ taking
    /\ taking' = FALSE
    /\ panicked' = (nowIndex > Len(TargetArr))
    /\ UNCHANGED <<client, signal, TargetArr, RemoveArr, nowIndex, edited>>

(* The management page gives the tunnel a new Target; HealthRemoveArr is   *)
(* the tunnel's and stays.                                                 *)
Edit ==
    /\ ~edited /\ ~panicked /\ ~taking
    /\ edited' = TRUE
    /\ TargetArr' = Nil /\ nowIndex' = 1
    /\ UNCHANGED <<client, signal, RemoveArr, taking, panicked>>

HealthNext ==
    \/ \E c \in Checker : Tick(c) \/ Try(c) \/ CountFailure(c) \/ CountSuccess(c)
    \/ TickEarly \/ HeathCheck
    \/ TakeOut \/ PutBack \/ GetRandomTarget \/ ReadTarget \/ Edit

HealthSpec == HealthInit /\ [][HealthNext]_healthVars

-----------------------------------------------------------------------------
(* Types (obj.go:167, 200): a check has a rest of the targets to try.      *)
Rests == {SubSeq(Targets, i, Len(Targets)) : i \in 1 .. Len(Targets) + 1}

HealthTypeOK ==
    /\ session \in {"waits", "ended"} /\ losses \in 0 .. Losses
    /\ healthMap \in [T -> 0 .. 2 * MaxFail - 1]
    /\ check \in [Checker -> [rest : Rests, err : {"not tried", "failed", "fine"}]]
    /\ \A c \in Checker : check[c].err # "not tried" => check[c].rest # <<>>
    /\ signal \in Seq(T \X BOOLEAN) /\ Len(signal) <= MaxWire
    /\ TargetArr # Nil => TargetArr \in Seq(T) /\ IsInjective(TargetArr)
    /\ RemoveArr \in Seq(T) /\ Len(RemoveArr) <= MaxRemoved
    /\ nowIndex \in 1 .. Len(Targets) /\ {taking, edited, panicked} \subseteq BOOLEAN
    /\ out \subseteq T

(* When every report has arrived the targets in use are those that are not *)
(* known to be bad - whatever the order of checks that overlap -, and one  *)
(* that is not in use can be put back (health.go:91, bridge.go:158, 190).  *)
(* Excepted is a tunnel that was edited: TargetArr starts anew, what comes *)
(* back is then the only target, and nothing returns the others.  And what *)
(* was out of use when the connection was lost: the client begins with a   *)
(* clean HealthMap and never says that it is well.                         *)
UsedIfWell ==
    ~edited => /\ signal = <<>> => \A t \in T \ out : InUse(t) <=> healthMap[t] < MaxFail
               /\ \A t \in T : ~InUse(t) => t \in Range(RemoveArr)

(* A target that is well comes back (health.go:91, "send recovery add").   *)
OutIsBad == signal = <<>> => \A t \in T : ~InUse(t) => healthMap[t] > 0

(* A visitor gets a target of those in use (obj.go:212).                   *)
IndexInRange == ~panicked
=============================================================================
