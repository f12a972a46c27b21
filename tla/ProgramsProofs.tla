--------------------------- MODULE ProgramsProofs ---------------------------
(***************************************************************************)
(* Proofs about the repository's own programs, part by part and then for   *)
(* all of them: the pushed configuration, the settings file of the desktop *)
(* program, its runs, the NPC window and the client's NAT, each for any    *)
(* values of the constants.                                                *)
(***************************************************************************)
EXTENDS MCPrograms, SequenceTheorems, TLAPS

-----------------------------------------------------------------------------
(* The pushed configuration.                                               *)

(* What a device will have once it has received what is queued for it.     *)
Latest(d) == IF queue[d] = <<>> THEN view[d] ELSE queue[d][Len(queue[d])]

(* A request that holds the configuration in force and has still to send   *)
(* it to d, if d is online.                                                *)
Pending(r, d) ==
    /\ req[r].merged = pushed
    /\ \/ req[r].pc \in {"create", "write", "rename", "remove", "snapshot"}
       \/ req[r].pc = "send" /\ d \in req[r].targets

(* Catching up is over, or will send nothing.                              *)
CaughtUp(d) ==
    \/ link[d].pc = "on"
    \/ link[d].pc = "copied" /\ link[d].copy = Nothing

(* Whoever has caught up has the configuration in force, or will get it, or*)
(* was sent another one last.                                              *)
OnItsWay ==
    \A d \in Device : CaughtUp(d) =>
        \/ d \in lagging
        \/ pushed = Nothing
        \/ Latest(d) = pushed
        \/ \E r \in Request : Pending(r, d)

PushInv == TypeOK /\ OnItsWay

(* A send keeps the queues within their capacity (device.go, msgCh).       *)
LEMMA SendType ==
    ASSUME TypeOK, NEW d \in Device, NEW c \in Config, sendMsg(d, c)
    PROVE  /\ queue' \in [Device -> Seq(Config)]
           /\ \A e \in Device : Len(queue'[e]) <= QueueCap
           /\ lagging' \subseteq Device
<1>1. queue[d] \in Seq(Config) /\ Len(queue[d]) \in Nat /\ QueueCap \in Nat
  BY QueueAssumption DEF TypeOK
<1>2. /\ Append(queue[d], c) \in Seq(Config)
      /\ Len(Append(queue[d], c)) = Len(queue[d]) + 1
  BY <1>1
<1>3. QED BY <1>1, <1>2 DEF TypeOK, sendMsg

(* What a request's step leaves of the record.                             *)
LEMMA RequestTypes ==
    ASSUME TypeOK, NEW r \in Request, RequestStep(r)
    PROVE  req' \in [Request -> Req] /\ pushed' \in Config
<1> USE DEF Req
<1>1. /\ req \in [Request -> Req] /\ req[r] \in Req /\ pushed \in Config
  BY DEF TypeOK
<1>2. ASSUME NEW k \in Key, NEW v \in Value \cup {NoValue}, Merge(r, k, v)
      PROVE  req' \in [Request -> Req] /\ pushed' \in Config
  <2>1. pushed' \in Config
    BY <1>1, <1>2 DEF Merge, Config
  <2>2. req' = [req EXCEPT ![r].pc = "create", ![r].merged = pushed']
    BY <1>2 DEF Merge
  <2>3. QED BY <1>1, <2>1, <2>2
<1>3. ASSUME Create(r) \/ Snapshot(r) \/ RenameFails(r) \/ WriteFails(r) \/ Write(r)
      PROVE  req' \in [Request -> Req]
  BY <1>1, <1>3 DEF Create, Snapshot, RenameFails, WriteFails, Write, Goto
<1>4. ASSUME Rename(r) \/ Remove(r)
      PROVE  req' \in [Request -> Req]
  <2>1. /\ req' = [q \in Request |-> req'[q]]
        /\ \A q \in Request : \E l \in {"snapshot", req[q].pc}, n \in {"tmp", "file", "none"} :
              req'[q] = [req[q] EXCEPT !.pc = l, !.fd = n]
    <3>1. CASE Rename(r)
      BY <1>1, <3>1 DEF Rename, Renamed
    <3>2. CASE Remove(r)
      BY <1>1, <3>2 DEF Remove
    <3>3. QED BY <1>4, <3>1, <3>2
  <2>2. ASSUME NEW q \in Request PROVE req'[q] \in Req
    <3>1. PICK l \in {"snapshot", req[q].pc}, n \in {"tmp", "file", "none"} :
              req'[q] = [req[q] EXCEPT !.pc = l, !.fd = n]
      BY <2>1
    <3>2. req[q] \in Req
      BY <1>1
    <3>3. QED BY <3>1, <3>2
  <2>3. QED BY <2>1, <2>2
<1>5. ASSUME PushDone(r) PROVE req' \in [Request -> Req]
  BY <1>1, <1>5 DEF PushDone, Rest, Config, Nothing
<1>6. ASSUME NEW d \in Device, SendTo(r, d) PROVE req' \in [Request -> Req]
  BY <1>1, <1>6 DEF SendTo
<1>7. QED
  BY <1>1, <1>2, <1>3, <1>4, <1>5, <1>6
     DEF RequestStep, Create, Write, Rename, RenameFails, Remove, WriteFails, Snapshot,
         PushDone, SendTo

(* Every step of the server and of its devices keeps the types             *)
(* (server.go:30, push.go:13).                                             *)
LEMMA PushTypes == TypeOK /\ [Next]_vars => TypeOK'
<1> SUFFICES ASSUME TypeOK, [Next]_vars PROVE TypeOK'
  OBVIOUS
<1> USE DEF files, devices
<1>1. ASSUME NEW r \in Request, RequestStep(r) PROVE TypeOK'
  <2>1. req' \in [Request -> Req] /\ pushed' \in Config
    BY <1>1, RequestTypes
  <2>2. ASSUME NEW k \in Key, NEW v \in Value \cup {NoValue}, Merge(r, k, v) PROVE TypeOK'
    BY <2>1, <2>2, QueueAssumption DEF Merge, TypeOK
  <2>3. req[r].merged \in Config
    BY DEF TypeOK, Req
  <2>4. ASSUME Create(r) \/ Write(r) \/ Rename(r) \/ RenameFails(r) \/ Remove(r) \/ WriteFails(r)
        PROVE  TypeOK'
    <3>1. file' \in Content \cup {NoFile} /\ tmp' \in Content \cup {NoFile} /\ unsaved' \in BOOLEAN
      BY <2>3, <2>4
         DEF Create, Write, Written, Rename, RenameFails, Remove, WriteFails, TypeOK, Content
    <3>2. UNCHANGED <<pushed, devices, pushes>>
      BY <2>4 DEF Create, Write, Rename, RenameFails, Remove, WriteFails
    <3>3. QED BY <2>1, <3>1, <3>2 DEF TypeOK
  <2>5. ASSUME Snapshot(r) \/ PushDone(r) PROVE TypeOK'
    BY <2>1, <2>5 DEF Snapshot, PushDone, TypeOK
  <2>6. ASSUME NEW d \in Device, SendTo(r, d) PROVE TypeOK'
    BY <2>1, <2>3, <2>6, SendType DEF SendTo, TypeOK
  <2>7. QED BY <1>1, <2>2, <2>4, <2>5, <2>6 DEF RequestStep
<1>2. ASSUME NEW d \in Device, DeviceStep(d) PROVE TypeOK'
  <2>1. link \in [Device -> Link] /\ link[d] \in Link /\ Nothing \in Config /\ pushed \in Config
    BY DEF TypeOK, Config, Nothing
  <2>2. ASSUME Join(d) \/ CatchUpCopy(d) PROVE TypeOK'
    <3>1. link' \in [Device -> Link]
      BY <2>1, <2>2 DEF Join, CatchUpCopy, Link
    <3>2. QED BY <2>2, <3>1 DEF Join, CatchUpCopy, TypeOK
  <2>3. ASSUME CatchUpSend(d) PROVE TypeOK'
    <3>1. link' \in [Device -> Link] /\ link[d].copy \in Config
      BY <2>1, <2>3 DEF CatchUpSend, Off, Link
    <3>2. QED BY <2>3, <3>1, SendType DEF CatchUpSend, TypeOK
  <2>4. ASSUME Receive(d) PROVE TypeOK'
    <3>1. queue[d] \in Seq(Config) /\ queue[d] # <<>>
      BY <2>4 DEF Receive, TypeOK
    <3>2. /\ Head(queue[d]) \in Config /\ Tail(queue[d]) \in Seq(Config)
          /\ Len(Tail(queue[d])) = Len(queue[d]) - 1 /\ Len(queue[d]) \in Nat
      BY <3>1
    <3>3. Len(Tail(queue[d])) <= QueueCap
      BY <3>2, QueueAssumption DEF TypeOK
    <3>4. /\ queue' \in [Device -> Seq(Config)]
          /\ \A e \in Device : Len(queue'[e]) <= QueueCap
          /\ view' \in [Device -> Config]
      BY <2>4, <3>2, <3>3 DEF Receive, TypeOK
    <3>5. QED BY <2>4, <3>4 DEF Receive, TypeOK
  <2>5. ASSUME Leave(d) PROVE TypeOK'
    <3>1. Off \in Link /\ <<>> \in Seq(Config) /\ Len(<<>>) <= QueueCap
      BY <2>1, QueueAssumption DEF Off, Link
    <3>2. /\ link' \in [Device -> Link] /\ queue' \in [Device -> Seq(Config)]
          /\ \A e \in Device : Len(queue'[e]) <= QueueCap
      BY <2>5, <3>1 DEF Leave, TypeOK
    <3>3. QED BY <2>5, <3>2 DEF Leave, TypeOK
  <2>6. ASSUME ClientRestart(d) PROVE TypeOK'
    BY <2>1, <2>6 DEF ClientRestart, TypeOK
  <2>7. QED BY <1>2, <2>2, <2>3, <2>4, <2>5, <2>6 DEF DeviceStep
<1>3. ASSUME Restart PROVE TypeOK'
  <2>1. Nothing \in Config /\ Rest \in Req /\ Off \in Link
    BY DEF Nothing, Config, Rest, Req, Off, Link
  <2>2. pushed' \in Config /\ file' \in Content \cup {NoFile}
    BY <1>3, <2>1 DEF Restart, TypeOK
  <2>3. /\ queue' \in [Device -> Seq(Config)]
        /\ \A e \in Device : Len(queue'[e]) <= QueueCap
    BY <1>3, QueueAssumption DEF Restart
  <2>4. req' \in [Request -> Req] /\ link' \in [Device -> Link]
    BY <1>3, <2>1 DEF Restart
  <2>5. QED BY <1>3, <2>2, <2>3, <2>4 DEF Restart, TypeOK
<1>4. CASE UNCHANGED vars
  BY <1>4 DEF vars, TypeOK
<1>5. QED BY <1>1, <1>2, <1>3, <1>4 DEF Next

(* A message that fits is the last one its device will receive.            *)
LEMMA SendLatest ==
    ASSUME TypeOK, NEW d \in Device, NEW c \in Config, sendMsg(d, c), UNCHANGED <<view, pushed>>
    PROVE  /\ d \in lagging' \/ (c = pushed /\ Latest(d)' = pushed')
           /\ \A e \in Device \ {d} : /\ Latest(e)' = Latest(e)
                                      /\ e \in lagging' <=> e \in lagging
<1>1. queue \in [Device -> Seq(Config)] /\ queue[d] \in Seq(Config) /\ Len(queue[d]) \in Nat
  BY DEF TypeOK
<1>2. CASE Len(queue[d]) < QueueCap /\ c = pushed
  <2>1. queue'[d] = Append(queue[d], c)
    BY <1>1, <1>2 DEF sendMsg
  <2>2. queue'[d] # <<>> /\ queue'[d][Len(queue'[d])] = c
    BY <1>1, <2>1
  <2>3. QED BY <1>1, <1>2, <2>2 DEF sendMsg, Latest
<1>3. CASE ~(Len(queue[d]) < QueueCap /\ c = pushed)
  BY <1>1, <1>3 DEF sendMsg, Latest
<1>4. QED BY <1>2, <1>3

(* What is taken from a queue is the last of it or leaves its last.        *)
LEMMA LastOfTail ==
    ASSUME NEW S, NEW s \in Seq(S), s # <<>>
    PROVE  IF Tail(s) = <<>> THEN Head(s) = s[Len(s)]
           ELSE Tail(s)[Len(Tail(s))] = s[Len(s)]
<1>1. Len(s) \in Nat /\ Len(s) # 0
  BY EmptySeq
<1>2. /\ Tail(s) \in Seq(S) /\ Len(Tail(s)) = Len(s) - 1
      /\ \A i \in 1 .. Len(Tail(s)) : Tail(s)[i] = s[i + 1]
  BY HeadTailProperties
<1>3. CASE Len(s) = 1
  <2>1. Len(Tail(s)) \notin Nat \ {0}
    BY <1>2, <1>3
  <2>2. Tail(s) = <<>>
    BY <1>2, <2>1, EmptySeq, Zenon
  <2>3. QED BY <1>3, <2>2
<1>4. CASE Len(s) > 1
  <2>0. Len(Tail(s)) # 0
    BY <1>1, <1>2, <1>4
  <2>1. Tail(s) # <<>>
    BY <2>0, EmptySeq, Zenon
  <2>2. Len(s) - 1 \in 1 .. Len(Tail(s))
    BY <1>1, <1>2, <1>4
  <2>3. Tail(s)[Len(s) - 1] = s[Len(s) - 1 + 1]
    BY <1>2, <2>2
  <2>4. QED BY <1>1, <1>2, <2>1, <2>3
<1>5. QED BY <1>1, <1>3, <1>4

(* What a device receives does not change what it will have in the end.    *)
LEMMA ReceiveLatest ==
    ASSUME TypeOK, NEW d \in Device, Receive(d)
    PROVE  \A e \in Device : Latest(e)' = Latest(e)
<1>1. queue[d] \in Seq(Config) /\ queue[d] # <<>>
  BY DEF Receive, TypeOK
<1>2. /\ queue'[d] = Tail(queue[d]) /\ view'[d] = Head(queue[d])
      /\ \A e \in Device \ {d} : queue'[e] = queue[e] /\ view'[e] = view[e]
  BY DEF Receive, TypeOK
<1>3. Latest(d)' = Latest(d)
  BY <1>1, <1>2, LastOfTail DEF Latest
<1>4. QED BY <1>2, <1>3 DEF Latest

(* A device that joins, or whose request for the copy is answered, gets    *)
(* what is in force; every later push finds it among the devices online.   *)
LEMMA OnItsWayStep == TypeOK /\ TypeOK' /\ OnItsWay /\ [Next]_vars => OnItsWay'
<1> SUFFICES ASSUME TypeOK, TypeOK', OnItsWay, [Next]_vars,
                    NEW d \in Device, CaughtUp(d)',
                    d \notin lagging', pushed' # Nothing
             PROVE  Latest(d)' = pushed' \/ \E r \in Request : Pending(r, d)'
  BY DEF OnItsWay
<1> DEFINE Good == Latest(d)' = pushed' \/ \E r \in Request : Pending(r, d)'
<1> USE DEF files, devices
<1>1. /\ req \in [Request -> Req] /\ req' \in [Request -> Req]
      /\ queue \in [Device -> Seq(Config)] /\ link \in [Device -> Link]
  BY DEF TypeOK
<1>2. ASSUME UNCHANGED <<pushed, devices>>,
             \A r \in Request : Pending(r, d) => Pending(r, d)'
      PROVE  Good
  BY <1>2 DEF OnItsWay, CaughtUp, Latest
<1>3. ASSUME NEW r \in Request, RequestStep(r) PROVE Good
  <2>1. ASSUME NEW k \in Key, NEW v \in Value \cup {NoValue}, Merge(r, k, v) PROVE Good
    <3>1. req'[r].pc = "create" /\ req'[r].merged = pushed'
      BY <1>1, <2>1 DEF Merge, Req
    <3>2. QED BY <3>1 DEF Pending
  <2>2. ASSUME Create(r) \/ Write(r) \/ Rename(r) \/ RenameFails(r) \/ Remove(r) \/ WriteFails(r)
        PROVE  Good
    <3>1. UNCHANGED <<pushed, devices>>
      BY <2>2 DEF Create, Write, Rename, RenameFails, Remove, WriteFails
    <3>2. ASSUME NEW q \in Request
          PROVE  /\ req'[q].merged = req[q].merged /\ req'[q].targets = req[q].targets
                 /\ \/ req'[q].pc = req[q].pc
                    \/ /\ req[q].pc \in {"create", "write", "rename", "remove"}
                       /\ req'[q].pc \in {"write", "rename", "remove", "snapshot"}
      <4>1. req[q] \in Req
        BY <1>1
      <4>2. CASE Rename(r)
        BY <1>1, <4>1, <4>2 DEF Rename, Renamed, Req
      <4>3. CASE Remove(r)
        BY <1>1, <4>1, <4>3 DEF Remove, Req
      <4>4. CASE Create(r)
        BY <1>1, <4>1, <4>4 DEF Create, Req
      <4>5. CASE Write(r)
        BY <1>1, <4>1, <4>5 DEF Write, Req
      <4>6. CASE RenameFails(r)
        BY <1>1, <4>1, <4>6 DEF RenameFails, Goto, Req
      <4>7. CASE WriteFails(r)
        BY <1>1, <4>1, <4>7 DEF WriteFails, Req
      <4>8. QED BY <2>2, <4>2, <4>3, <4>4, <4>5, <4>6, <4>7
    <3>3. \A q \in Request : Pending(q, d) => Pending(q, d)'
      BY <3>1, <3>2 DEF Pending
    <3>4. QED BY <1>2, <3>1, <3>3
  <2>3. ASSUME Snapshot(r) PROVE Good
    <3>1. UNCHANGED <<pushed, devices>>
      BY <2>3 DEF Snapshot
    <3>2. d \in {e \in Device : link[e].pc # "off"}
      BY <3>1 DEF CaughtUp
    <3>3. \A q \in Request : /\ req'[q].merged = req[q].merged
                             /\ IF q = r
                                THEN req'[q].pc = "send" /\ d \in req'[q].targets
                                ELSE req'[q] = req[q]
      BY <1>1, <2>3, <3>2 DEF Snapshot, Req
    <3>4. \A q \in Request : Pending(q, d) => Pending(q, d)'
      BY <3>1, <3>3 DEF Pending
    <3>5. QED BY <1>2, <3>1, <3>4
  <2>4. ASSUME PushDone(r) PROVE Good
    <3>1. UNCHANGED <<pushed, devices>>
      BY <2>4 DEF PushDone
    <3>2. /\ req[r].pc = "send" /\ req[r].targets = {}
          /\ \A q \in Request \ {r} : req'[q] = req[q]
      BY <1>1, <2>4 DEF PushDone
    <3>3. \A q \in Request : Pending(q, d) => Pending(q, d)'
      BY <3>1, <3>2 DEF Pending
    <3>4. QED BY <1>2, <3>1, <3>3
  <2>5. ASSUME NEW e \in Device, SendTo(r, e) PROVE Good
    <3>1. UNCHANGED <<pushed, link, view>> /\ req[r].merged \in Config
      BY <1>1, <2>5 DEF SendTo, Req
    <3>2. \A q \in Request : /\ req'[q].merged = req[q].merged /\ req'[q].pc = req[q].pc
                             /\ req'[q].targets = IF q = r THEN req[q].targets \ {e}
                                                  ELSE req[q].targets
      BY <1>1, <2>5 DEF SendTo, Req
    <3>3. CASE e = d
      <4>1. link[d].pc # "off"
        BY <3>1 DEF CaughtUp
      <4>2. sendMsg(d, req[r].merged)
        BY <2>5, <3>3, <4>1 DEF SendTo
      <4>3. QED BY <3>1, <4>2, SendLatest
    <3>4. CASE e # d
      <4>1. Latest(d)' = Latest(d) /\ (d \in lagging' <=> d \in lagging)
        <5>1. CASE link[e].pc = "off"
          BY <2>5, <3>1, <5>1 DEF SendTo, Latest
        <5>2. CASE link[e].pc # "off"
          BY <2>5, <3>1, <3>4, <5>2, SendLatest DEF SendTo
        <5>3. QED BY <5>1, <5>2
      <4>2. \A q \in Request : Pending(q, d) => Pending(q, d)'
        BY <3>1, <3>2, <3>4 DEF Pending
      <4>3. QED BY <3>1, <4>1, <4>2 DEF OnItsWay, CaughtUp
    <3>5. QED BY <3>3, <3>4
  <2>6. QED BY <1>3, <2>1, <2>2, <2>3, <2>4, <2>5 DEF RequestStep
<1>4. ASSUME NEW e \in Device, DeviceStep(e) PROVE Good
  <2>1. UNCHANGED <<pushed, req>>
    BY <1>4 DEF DeviceStep, Join, CatchUpCopy, CatchUpSend, Receive, Leave, ClientRestart
  <2>2. ASSUME CaughtUp(d), Latest(d)' = Latest(d), d \in lagging => d \in lagging' PROVE Good
    BY <2>1, <2>2 DEF OnItsWay, Pending
  <2>3. ASSUME Join(e) \/ CatchUpCopy(e) PROVE Good
    <3>1. UNCHANGED <<queue, view, lagging>> /\ Latest(d)' = Latest(d)
      BY <2>3 DEF Join, CatchUpCopy, Latest
    <3>2. CASE e = d
      <4>1. CASE Join(d)
        BY <1>1, <4>1 DEF Join, CaughtUp, Link
      <4>2. CASE CatchUpCopy(d)
        BY <1>1, <2>1, <4>2 DEF CatchUpCopy, CaughtUp
      <4>3. QED BY <2>3, <3>2, <4>1, <4>2
    <3>3. CASE e # d
      <4>1. link'[d] = link[d]
        BY <1>1, <2>3, <3>3 DEF Join, CatchUpCopy
      <4>2. QED BY <2>2, <3>1, <4>1 DEF CaughtUp
    <3>4. QED BY <3>2, <3>3
  <2>4. ASSUME CatchUpSend(e) PROVE Good
    <3>1. link[e].copy \in Config /\ UNCHANGED view
      BY <1>1, <2>4 DEF CatchUpSend, Link
    <3>2. CASE e = d
      <4>1. CASE link[d].copy = Nothing
        <5>1. CaughtUp(d)
          BY <2>4, <3>2, <4>1 DEF CatchUpSend, CaughtUp
        <5>2. QED BY <2>2, <2>4, <3>1, <3>2, <4>1, <5>1 DEF CatchUpSend, Latest
      <4>2. CASE link[d].copy # Nothing
        <5>1. sendMsg(d, link[d].copy)
          BY <2>4, <3>2, <4>2 DEF CatchUpSend
        <5>2. QED BY <2>1, <3>1, <3>2, <5>1, SendLatest
      <4>3. QED BY <4>1, <4>2
    <3>3. CASE e # d
      <4>1. link'[d] = link[d]
        BY <1>1, <2>4, <3>3 DEF CatchUpSend
      <4>2. Latest(d)' = Latest(d) /\ (d \in lagging' <=> d \in lagging)
        <5>1. CASE link[e].copy = Nothing
          BY <2>4, <3>1, <5>1 DEF CatchUpSend, Latest
        <5>2. CASE link[e].copy # Nothing
          BY <2>1, <2>4, <3>1, <3>3, <5>2, SendLatest DEF CatchUpSend
        <5>3. QED BY <5>1, <5>2
      <4>3. QED BY <2>2, <4>1, <4>2 DEF CaughtUp
    <3>4. QED BY <3>2, <3>3
  <2>5. ASSUME Receive(e) PROVE Good
    <3>1. Latest(d)' = Latest(d)
      BY <2>5, ReceiveLatest
    <3>2. UNCHANGED <<link, lagging>>
      BY <2>5 DEF Receive
    <3>3. QED BY <2>2, <3>1, <3>2 DEF CaughtUp
  <2>6. ASSUME Leave(e) PROVE Good
    <3>1. e # d
      BY <1>1, <2>6 DEF Leave, Off, CaughtUp
    <3>2. link'[d] = link[d] /\ queue'[d] = queue[d] /\ view' = view /\ lagging' = lagging \ {e}
      BY <1>1, <2>6, <3>1 DEF Leave
    <3>3. QED BY <2>2, <3>1, <3>2 DEF CaughtUp, Latest
  <2>7. ASSUME ClientRestart(e) PROVE Good
    <3>1. e # d /\ UNCHANGED <<link, queue, lagging>>
      BY <2>7 DEF ClientRestart, CaughtUp
    <3>2. view'[d] = view[d]
      BY <2>7, <3>1 DEF ClientRestart, TypeOK
    <3>3. QED BY <2>2, <3>1, <3>2 DEF CaughtUp, Latest
  <2>8. QED BY <1>4, <2>3, <2>4, <2>5, <2>6, <2>7 DEF DeviceStep
<1>5. ASSUME Restart PROVE FALSE
  BY <1>5 DEF Restart, CaughtUp, Off
<1>6. ASSUME UNCHANGED vars PROVE Good
  BY <1>2, <1>6 DEF vars, Pending
<1>7. QED BY <1>3, <1>4, <1>5, <1>6 DEF Next

-----------------------------------------------------------------------------
(* The settings file of the server, when requests come one at a time.      *)

OneRequest == \A r, q \in Request : r = q

OnFile == IF file = NoFile THEN Nothing ELSE file

(* A request that writes has the temporary file for itself and its copy is *)
(* the configuration in force; any other leaves it on file, or the failure *)
(* is on record.                                                           *)
FileInv ==
    /\ file \notin {Empty, Garbled}
    /\ \A r \in Request :
          /\ req[r].pc \in {"create", "write", "rename"} => req[r].merged = pushed
          /\ req[r].pc = "write" => tmp = Empty /\ req[r].fd = "tmp"
          /\ req[r].pc # "write" => req[r].fd = "none"
          /\ req[r].pc = "rename" => tmp = req[r].merged
          /\ req[r].pc = "remove" => unsaved
    /\ (\A r \in Request : req[r].pc \in {"idle", "snapshot", "send"}) /\ ~unsaved
          => OnFile = pushed

LEMMA FileStep == OneRequest /\ TypeOK /\ FileInv /\ [Next]_vars => FileInv'
<1> SUFFICES ASSUME OneRequest, TypeOK, FileInv, [Next]_vars PROVE FileInv'
  OBVIOUS
<1> USE DEF files, devices, OneRequest, OnFile
<1>1. ASSUME UNCHANGED <<pushed, files, req>> PROVE FileInv'
  BY <1>1 DEF FileInv
<1>2. ASSUME NEW r \in Request, RequestStep(r) PROVE FileInv'
  <2>1. /\ \A q \in Request : q = r
        /\ req \in [Request -> Req] /\ req[r] \in Req
    BY <1>2 DEF TypeOK
  <2>2. ASSUME NEW k \in Key, NEW v \in Value \cup {NoValue}, Merge(r, k, v) PROVE FileInv'
    <3>1. /\ req'[r].pc = "create" /\ req'[r].merged = pushed' /\ req'[r].fd = req[r].fd
          /\ req[r].pc = "idle" /\ UNCHANGED files
      BY <2>1, <2>2 DEF Merge, Req
    <3>2. QED BY <2>1, <3>1 DEF FileInv
  <2>3. ASSUME Create(r) PROVE FileInv'
    <3>1. /\ req'[r].pc = "write" /\ req'[r].merged = req[r].merged /\ req'[r].fd = "tmp"
          /\ req[r].pc = "create" /\ UNCHANGED <<pushed, file, unsaved>> /\ tmp' = Empty
      BY <2>1, <2>3 DEF Create, Req
    <3>2. QED BY <2>1, <3>1 DEF FileInv
  <2>4. ASSUME Write(r) PROVE FileInv'
    <3>1. /\ req[r].pc = "write" /\ UNCHANGED <<pushed, unsaved>>
          /\ req'[r].pc = "rename" /\ req'[r].merged = req[r].merged /\ req'[r].fd = "none"
      BY <2>1, <2>4 DEF Write, Req
    <3>2. tmp = Empty /\ req[r].fd = "tmp"
      BY <3>1 DEF FileInv
    <3>3. file' = file /\ tmp' = req[r].merged
      BY <2>4, <3>2 DEF Write, Written
    <3>4. QED BY <2>1, <3>1, <3>3 DEF FileInv
  <2>5. ASSUME Rename(r) PROVE FileInv'
    <3>1. /\ req[r].pc = "rename" /\ file' = tmp /\ pushed' = pushed
          /\ req'[r] = Renamed(r, r, "snapshot")
      BY <2>5 DEF Rename
    <3>2. tmp = req[r].merged /\ req[r].merged = pushed /\ req[r].fd = "none" /\ pushed \in Config
      BY <3>1 DEF FileInv, TypeOK
    <3>3. req'[r].pc = "snapshot" /\ req'[r].fd = "none"
      BY <2>1, <3>1, <3>2 DEF Renamed, Req
    <3>4. file' = pushed' /\ file' \notin {NoFile, Empty, Garbled}
      BY <3>1, <3>2, FileAssumption
    <3>5. QED BY <2>1, <3>3, <3>4 DEF FileInv
  <2>6. ASSUME RenameFails(r) \/ WriteFails(r) PROVE FileInv'
    <3>1. /\ req[r].pc \in {"create", "write", "rename"}
          /\ UNCHANGED <<pushed, file, tmp>> /\ unsaved'
          /\ req'[r].pc \in {"remove", "snapshot"}
      BY <2>1, <2>6 DEF RenameFails, WriteFails, Goto, Req
    <3>2. req'[r].fd = "none"
      <4>1. CASE RenameFails(r)
        BY <2>1, <4>1 DEF RenameFails, Goto, Req, FileInv
      <4>2. CASE WriteFails(r)
        BY <2>1, <4>2 DEF WriteFails, Req
      <4>3. QED BY <2>6, <4>1, <4>2
    <3>3. QED BY <2>1, <3>1, <3>2 DEF FileInv
  <2>7. ASSUME Remove(r) PROVE FileInv'
    <3>1. /\ req[r].pc = "remove" /\ UNCHANGED <<pushed, file, unsaved>>
          /\ req'[r] = [req[r] EXCEPT !.pc = "snapshot", !.fd = IF @ = "tmp" THEN "none" ELSE @]
      BY <2>7 DEF Remove
    <3>2. unsaved /\ req[r].fd = "none"
      BY <3>1 DEF FileInv
    <3>3. req'[r].pc = "snapshot" /\ req'[r].fd = "none"
      BY <2>1, <3>1, <3>2 DEF Req
    <3>4. QED BY <2>1, <3>1, <3>2, <3>3 DEF FileInv
  <2>8. ASSUME Snapshot(r) \/ PushDone(r) \/ \E d \in Device : SendTo(r, d) PROVE FileInv'
    <3>1. /\ req[r].pc \in {"snapshot", "send"} /\ UNCHANGED <<pushed, files>>
          /\ req'[r].pc \in {"idle", "send"} /\ req'[r].fd \in {"none", req[r].fd}
      BY <2>1, <2>8 DEF Snapshot, PushDone, Rest, SendTo, Req
    <3>2. QED BY <2>1, <3>1 DEF FileInv
  <2>9. QED BY <1>2, <2>2, <2>3, <2>4, <2>5, <2>6, <2>7, <2>8 DEF RequestStep
<1>3. ASSUME NEW d \in Device, DeviceStep(d) PROVE FileInv'
  BY <1>1, <1>3
     DEF DeviceStep, Join, CatchUpCopy, CatchUpSend, Receive, Leave, ClientRestart
<1>4. ASSUME Restart PROVE FileInv'
  <2>1. /\ \A r \in Request : req'[r].pc = "idle" /\ req'[r].fd = "none"
        /\ file' = file /\ pushed' = IF file \in Config THEN file ELSE Nothing
    BY <1>4 DEF Restart, Rest, FileInv
  <2>2. file = NoFile \/ file \in Config
    BY DEF TypeOK, Content, FileInv
  <2>3. QED BY <2>1, <2>2, FileAssumption DEF FileInv
<1>5. ASSUME UNCHANGED vars PROVE FileInv'
  BY <1>1, <1>5 DEF vars
<1>6. QED BY <1>2, <1>3, <1>4, <1>5 DEF Next

LEMMA FileInvKeeps == FileInv => FileWhole /\ PushSurvives
BY DEF FileInv, OnFile, FileWhole, PushSurvives, AllIdle

LEMMA PushInit == Init => PushInv /\ FileInv
<1> SUFFICES ASSUME Init PROVE PushInv /\ FileInv
  OBVIOUS
<1>1. Nothing \in Config /\ Rest \in Req /\ Off \in Link /\ 0 \in 0 .. MaxPush
  BY QueueAssumption DEF Nothing, Config, Rest, Req, Off, Link
<1>2. /\ queue \in [Device -> Seq(Config)]
      /\ \A d \in Device : Len(queue[d]) <= QueueCap
  BY QueueAssumption DEF Init
<1>3. TypeOK
  BY <1>1, <1>2 DEF Init, TypeOK
<1>4. OnItsWay
  BY DEF Init, OnItsWay
<1>5. FileInv
  BY FileAssumption DEF Init, FileInv, OnFile, Rest
<1>6. QED BY <1>3, <1>4, <1>5 DEF PushInv

LEMMA PushInvMisses == PushInv => NobodyMissesPush
<1> SUFFICES ASSUME PushInv, AllIdle, pushed # Nothing, NEW d \in Device \ lagging, Settled(d)
             PROVE  view[d] = pushed
  BY DEF NobodyMissesPush
<1>1. \A r \in Request : ~Pending(r, d)
  BY DEF AllIdle, Pending
<1>2. Latest(d) = pushed
  BY <1>1 DEF PushInv, OnItsWay, CaughtUp, Settled
<1>3. QED BY <1>2 DEF Latest, Settled

-----------------------------------------------------------------------------
(* The settings and the credential of the desktop program.                 *)

(* While nobody has raced, one writer at a time is between opening and     *)
(* renaming, and what it has written is what it was given.                 *)
OneWriter ==
    ~raced =>
        /\ configFile # Saved!Torn
        /\ \A w \in Saved!Writer :
              /\ save[w].pc = "write" => configTmp.data = Saved!Torn
              /\ save[w].pc = "rename" => configTmp.data = save[w].data
              /\ save[w].pc \in {"write", "rename"} =>
                    \A v \in Saved!Writer \ {w} : save[v].pc \in {"idle", "open"}

(* The server never goes back to a credential; what it has refused is an   *)
(* earlier one, or the present one of a device that is blocked.            *)
RefusedIsPast ==
    /\ net.cred \notin refused
    /\ \A c \in refused : c < issued \/ (c = issued /\ blocked)

(* Every copy of the credential, in memory, on its way and on file, came   *)
(* from the server.                                                        *)
CredentialsIssued ==
    /\ {net.cred, cfg.cred, configFile.cred, configTmp.data.cred} \subseteq 0 .. issued
    /\ \A w \in Saved!Writer : save[w].data.cred \in 0 .. issued

SettingsInv == Saved!SettingsTypeOK /\ OneWriter /\ RefusedIsPast /\ CredentialsIssued

LEMMA SettingsInitInv == Saved!SettingsInit => SettingsInv
<1> SUFFICES ASSUME Saved!SettingsInit PROVE SettingsInv
  OBVIOUS
<1>1. 1 \in Saved!Cred
  BY CountAssumption DEF Saved!Cred
<1>2. /\ Saved!Default \in Saved!Config /\ Saved!Default.cred = 0
      /\ Saved!Missing.cred = 0 /\ Saved!Missing # Saved!Torn
  BY DEF Saved!Default, Saved!Config, Saved!Missing, Saved!Torn, Saved!None
<1>3. /\ cfg = Saved!Default /\ configFile = Saved!Missing
      /\ configTmp = [data |-> Saved!Missing, open |-> {}]
      /\ save = [w \in Saved!Writer |-> [pc |-> "idle", data |-> Saved!Default]]
      /\ net = [pc |-> "off", cred |-> 0]
      /\ issued = 1 /\ refused = {} /\ kept = Saved!None
      /\ held = FALSE /\ blocked = FALSE /\ raced = FALSE
  BY DEF Saved!SettingsInit, Saved!Idle, Saved!Off, Saved!None
<1>4. Saved!SettingsTypeOK
  <2>1. net \in [pc : {"off", "hello", "save", "online", "error"}, cred : Saved!Cred \cup {Saved!None}]
    BY <1>3 DEF Saved!None
  <2>2. save \in [Saved!Writer -> [pc : {"idle", "open", "write", "rename"}, data : Saved!Config]]
    BY <1>2, <1>3
  <2>3. configTmp \in [data : Saved!Config \cup {Saved!Missing, Saved!Torn}, open : SUBSET Saved!Writer]
    BY <1>3
  <2>4. {held, blocked, raced} \subseteq BOOLEAN
    BY <1>3
  <2>5. QED BY <1>1, <1>2, <1>3, <2>1, <2>2, <2>3, <2>4 DEF Saved!SettingsTypeOK
<1>5. OneWriter
  BY <1>2, <1>3 DEF OneWriter
<1>6. RefusedIsPast
  BY <1>3 DEF RefusedIsPast
<1>7. CredentialsIssued
  <2>1. /\ net.cred = 0 /\ cfg.cred = 0 /\ configFile.cred = 0 /\ configTmp.data.cred = 0
        /\ \A w \in Saved!Writer : save[w].data.cred = 0
    BY <1>2, <1>3
  <2>2. QED BY <1>3, <2>1 DEF CredentialsIssued
<1>8. QED BY <1>4, <1>5, <1>6, <1>7 DEF SettingsInv

LEMMA SettingsTypes == Saved!SettingsTypeOK /\ Saved!SettingsNext => Saved!SettingsTypeOK'
<1> SUFFICES ASSUME Saved!SettingsTypeOK, Saved!SettingsNext PROVE Saved!SettingsTypeOK'
  OBVIOUS
<1> DEFINE SaveRec == [pc : {"idle", "open", "write", "rename"}, data : Saved!Config]
           NetRec  == [pc : {"off", "hello", "save", "online", "error"},
                       cred : Saved!Cred \cup {Saved!None}]
           Data    == Saved!Config \cup {Saved!Missing, Saved!Torn}
           TmpRec  == [data : Data, open : SUBSET Saved!Writer]
<1> USE DEF Saved!client, Saved!files
<1>1. /\ save \in [Saved!Writer -> SaveRec] /\ net \in NetRec /\ configTmp \in TmpRec
      /\ configFile \in Data /\ cfg \in Saved!Config /\ issued \in Saved!Cred
      /\ refused \subseteq Saved!Cred /\ kept \in Saved!Cred \cup {Saved!None}
      /\ {held, blocked, raced} \subseteq BOOLEAN
  BY DEF Saved!SettingsTypeOK
<1>2. /\ Saved!Default \in Saved!Config /\ Saved!Idle \in SaveRec /\ Saved!Off \in NetRec
      /\ \A f \in Form : Saved!Submitted(f) \in Saved!Config
      /\ Saved!Torn \in Data /\ Saved!Missing \in Data
  BY DEF Saved!Default, Saved!Config, Saved!Idle, Saved!Off, Saved!Submitted
<1>3. ASSUME NEW w \in Saved!Writer, Saved!Open(w) PROVE Saved!SettingsTypeOK'
  <2>1. save' \in [Saved!Writer -> SaveRec]
    BY <1>1, <1>3 DEF Saved!Open
  <2>2. configTmp' \in TmpRec /\ raced' \in BOOLEAN
    BY <1>1, <1>2, <1>3 DEF Saved!Open
  <2>3. QED BY <1>1, <1>3, <2>1, <2>2 DEF Saved!Open, Saved!SettingsTypeOK
<1>4. ASSUME NEW w \in Saved!Writer, Saved!Write(w) PROVE Saved!SettingsTypeOK'
  <2>1. save' \in [Saved!Writer -> SaveRec]
    BY <1>1, <1>4 DEF Saved!Write
  <2>2. save[w].data \in Data
    BY <1>1
  <2>3. configTmp' \in TmpRec
    BY <1>1, <1>2, <1>4, <2>2 DEF Saved!Write
  <2>4. QED BY <1>1, <1>4, <2>1, <2>3 DEF Saved!Write, Saved!SettingsTypeOK
<1>5. ASSUME NEW w \in Saved!Writer, Saved!Rename(w) PROVE Saved!SettingsTypeOK'
  <2>1. save' \in [Saved!Writer -> SaveRec]
    BY <1>1, <1>2, <1>5 DEF Saved!Rename
  <2>2. configTmp' \in TmpRec /\ configFile' \in Data
    BY <1>1, <1>2, <1>5 DEF Saved!Rename
  <2>3. net' \in NetRec /\ held' \in BOOLEAN /\ kept' \in Saved!Cred \cup {Saved!None}
    BY <1>1, <1>5 DEF Saved!Rename
  <2>4. QED BY <1>1, <1>5, <2>1, <2>2, <2>3 DEF Saved!Rename, Saved!SettingsTypeOK
<1>6. ASSUME Saved!SaveConfig \/ Saved!SetAutoStart PROVE Saved!SettingsTypeOK'
  <2>1. cfg' \in Saved!Config
    BY <1>1, <1>2, <1>6 DEF Saved!SaveConfig, Saved!SetAutoStart, Saved!Config
  <2>2. save' \in [Saved!Writer -> SaveRec]
    BY <1>1, <1>6, <2>1 DEF Saved!SaveConfig, Saved!SetAutoStart, Saved!Writer
  <2>3. QED BY <1>1, <1>6, <2>1, <2>2 DEF Saved!SaveConfig, Saved!SetAutoStart, Saved!SettingsTypeOK
<1>7. ASSUME Saved!Register PROVE Saved!SettingsTypeOK'
  <2>1. cfg' \in Saved!Config
    BY <1>1, <1>7 DEF Saved!Register, Saved!Config
  <2>2. save' \in [Saved!Writer -> SaveRec]
    BY <1>1, <1>7, <2>1 DEF Saved!Register, Saved!Writer
  <2>3. net' \in NetRec /\ held' \in BOOLEAN
    BY <1>1, <1>7 DEF Saved!Register
  <2>4. QED BY <1>1, <1>7, <2>1, <2>2, <2>3 DEF Saved!Register, Saved!SettingsTypeOK
<1>8. ASSUME \/ Saved!Connect \/ Saved!Disconnect \/ Saved!RegisterRefused \/ Saved!Welcome
             \/ Saved!Refused \/ Saved!Lost
      PROVE  Saved!SettingsTypeOK'
  <2>1. cfg.cred \in Saved!Cred \cup {Saved!None}
    BY <1>1 DEF Saved!Config
  <2>2. net' \in NetRec
    BY <1>1, <1>2, <1>8, <2>1
       DEF Saved!Connect, Saved!Disconnect, Saved!RegisterRefused, Saved!Welcome,
           Saved!Refused, Saved!Lost
  <2>3. refused' \subseteq Saved!Cred
    BY <1>1, <1>8
       DEF Saved!Connect, Saved!Disconnect, Saved!RegisterRefused, Saved!Welcome,
           Saved!Refused, Saved!Lost
  <2>4. UNCHANGED <<cfg, configFile, configTmp, save, raced, held, issued, blocked, kept>>
    BY <1>8
       DEF Saved!Connect, Saved!Disconnect, Saved!RegisterRefused, Saved!Welcome,
           Saved!Refused, Saved!Lost
  <2>5. QED BY <1>1, <2>2, <2>3, <2>4 DEF Saved!SettingsTypeOK
<1>9. ASSUME Saved!Block \/ Saved!Unblock PROVE Saved!SettingsTypeOK'
  <2>1. issued' \in Saved!Cred
    BY <1>1, <1>9, CountAssumption DEF Saved!Block, Saved!Unblock, Saved!Cred
  <2>2. blocked' \in BOOLEAN
    BY <1>9 DEF Saved!Block, Saved!Unblock
  <2>3. QED BY <1>1, <1>9, <2>1, <2>2 DEF Saved!Block, Saved!Unblock, Saved!SettingsTypeOK
<1>10. ASSUME Saved!Restart PROVE Saved!SettingsTypeOK'
  <2>1. cfg' \in Saved!Config /\ save' \in [Saved!Writer -> SaveRec]
    BY <1>1, <1>2, <1>10 DEF Saved!Restart
  <2>2. configTmp' \in TmpRec /\ net' \in NetRec
    BY <1>1, <1>2, <1>10 DEF Saved!Restart
  <2>3. QED BY <1>1, <1>10, <2>1, <2>2 DEF Saved!Restart, Saved!SettingsTypeOK
<1>11. QED
  BY <1>3, <1>4, <1>5, <1>6, <1>7, <1>8, <1>9, <1>10 DEF Saved!SettingsNext

(* Writers that do not meet leave whole files.                             *)
LEMMA OneWriterStep ==
    Saved!SettingsTypeOK /\ OneWriter /\ Saved!SettingsNext => OneWriter'
<1> SUFFICES ASSUME Saved!SettingsTypeOK, OneWriter, Saved!SettingsNext, ~raced'
             PROVE  /\ configFile' # Saved!Torn
                    /\ \A w \in Saved!Writer :
                          /\ save'[w].pc = "write" => configTmp'.data = Saved!Torn
                          /\ save'[w].pc = "rename" => configTmp'.data = save'[w].data
                          /\ save'[w].pc \in {"write", "rename"} =>
                                \A v \in Saved!Writer \ {w} : save'[v].pc \in {"idle", "open"}
  BY DEF OneWriter
<1> DEFINE Good == /\ configFile' # Saved!Torn
                   /\ \A w \in Saved!Writer :
                         /\ save'[w].pc = "write" => configTmp'.data = Saved!Torn
                         /\ save'[w].pc = "rename" => configTmp'.data = save'[w].data
                         /\ save'[w].pc \in {"write", "rename"} =>
                               \A v \in Saved!Writer \ {w} : save'[v].pc \in {"idle", "open"}
           SaveRec == [pc : {"idle", "open", "write", "rename"}, data : Saved!Config]
<1> USE DEF Saved!client, Saved!files
<1>1. save \in [Saved!Writer -> SaveRec]
  BY DEF Saved!SettingsTypeOK
<1>2. Saved!Torn \notin Saved!Config /\ Saved!Default # Saved!Torn
  BY FormAssumption DEF Saved!Torn, Saved!Config, Saved!Default
<1>3. ASSUME UNCHANGED <<configFile, configTmp, raced>>, NEW w \in Saved!Writer,
             save'[w].pc = "open", \A v \in Saved!Writer \ {w} : save'[v] = save[v]
      PROVE  Good
  BY <1>3 DEF OneWriter
<1>4. ASSUME UNCHANGED <<configFile, configTmp, raced, save>> PROVE Good
  BY <1>4 DEF OneWriter
<1>5. ASSUME NEW w \in Saved!Writer, Saved!Open(w) PROVE Good
  <2>1. /\ ~raced /\ \A v \in Saved!Writer \ {w} : save[v].pc \in {"idle", "open"}
    BY <1>1, <1>5 DEF Saved!Open, Saved!At
  <2>2. /\ save'[w].pc = "write" /\ configTmp'.data = Saved!Torn /\ configFile' = configFile
        /\ \A v \in Saved!Writer \ {w} : save'[v] = save[v]
    BY <1>1, <1>5 DEF Saved!Open
  <2>3. QED BY <2>1, <2>2 DEF OneWriter
<1>6. ASSUME NEW w \in Saved!Writer, Saved!Write(w) PROVE Good
  <2>1. ~raced /\ save[w].pc = "write"
    BY <1>6 DEF Saved!Write, Saved!At
  <2>2. /\ configTmp.data = Saved!Torn
        /\ \A v \in Saved!Writer \ {w} : save[v].pc \in {"idle", "open"}
    BY <2>1 DEF OneWriter
  <2>3. configTmp'.data = save[w].data /\ configFile' = configFile
    BY <1>6, <2>2 DEF Saved!Write
  <2>4. /\ save'[w].pc = "rename" /\ save'[w].data = save[w].data
        /\ \A v \in Saved!Writer \ {w} : save'[v] = save[v]
    BY <1>1, <1>6 DEF Saved!Write
  <2>5. QED BY <2>1, <2>2, <2>3, <2>4 DEF OneWriter
<1>7. ASSUME NEW w \in Saved!Writer, Saved!Rename(w) PROVE Good
  <2>1. ~raced /\ save[w].pc = "rename"
    BY <1>7 DEF Saved!Rename, Saved!At
  <2>2. /\ configTmp.data = save[w].data /\ save[w].data \in Saved!Config
        /\ \A v \in Saved!Writer \ {w} : save[v].pc \in {"idle", "open"}
    BY <1>1, <2>1 DEF OneWriter
  <2>3. configFile' # Saved!Torn
    BY <1>2, <1>7, <2>1, <2>2 DEF Saved!Rename, OneWriter
  <2>4. save'[w].pc = "idle" /\ \A v \in Saved!Writer \ {w} : save'[v] = save[v]
    BY <1>1, <1>7 DEF Saved!Rename, Saved!Idle
  <2>5. QED BY <2>2, <2>3, <2>4
<1>8. ASSUME Saved!SaveConfig \/ Saved!SetAutoStart PROVE Good
  <2>1. /\ "window" \in Saved!Writer /\ save'["window"].pc = "open"
        /\ \A v \in Saved!Writer \ {"window"} : save'[v] = save[v]
        /\ UNCHANGED <<configFile, configTmp, raced>>
    BY <1>1, <1>8 DEF Saved!SaveConfig, Saved!SetAutoStart, Saved!Writer
  <2>2. QED BY <1>3, <2>1
<1>9. ASSUME Saved!Register PROVE Good
  <2>1. /\ "client" \in Saved!Writer /\ save'["client"].pc = "open"
        /\ \A v \in Saved!Writer \ {"client"} : save'[v] = save[v]
        /\ UNCHANGED <<configFile, configTmp, raced>>
    BY <1>1, <1>9 DEF Saved!Register, Saved!Writer
  <2>2. QED BY <1>3, <2>1
<1>10. ASSUME \/ Saved!Connect \/ Saved!Disconnect \/ Saved!RegisterRefused \/ Saved!Welcome
              \/ Saved!Refused \/ Saved!Lost \/ Saved!Block \/ Saved!Unblock
       PROVE  Good
  BY <1>4, <1>10
     DEF Saved!Connect, Saved!Disconnect, Saved!RegisterRefused, Saved!Welcome,
         Saved!Refused, Saved!Lost, Saved!Block, Saved!Unblock
<1>11. ASSUME Saved!Restart PROVE Good
  <2>1. \A w \in Saved!Writer : save'[w].pc = "idle"
    BY <1>11 DEF Saved!Restart, Saved!Idle
  <2>2. configFile' # Saved!Torn
    BY <1>11 DEF Saved!Restart, OneWriter
  <2>3. QED BY <2>1, <2>2
<1>12. QED
  BY <1>5, <1>6, <1>7, <1>8, <1>9, <1>10, <1>11 DEF Saved!SettingsNext

(* What was refused stays refused, and the client asks with something else.*)
LEMMA CredentialStep ==
    Saved!SettingsTypeOK /\ RefusedIsPast /\ CredentialsIssued /\ Saved!SettingsNext
        => RefusedIsPast' /\ CredentialsIssued'
<1> SUFFICES ASSUME Saved!SettingsTypeOK, RefusedIsPast, CredentialsIssued, Saved!SettingsNext
             PROVE  RefusedIsPast' /\ CredentialsIssued'
  OBVIOUS
<1> DEFINE SaveRec == [pc : {"idle", "open", "write", "rename"}, data : Saved!Config]
           NetRec  == [pc : {"off", "hello", "save", "online", "error"},
                       cred : Saved!Cred \cup {Saved!None}]
           TmpRec  == [data : Saved!Config \cup {Saved!Missing, Saved!Torn}, open : SUBSET Saved!Writer]
           Good    == RefusedIsPast' /\ CredentialsIssued'
<1> USE DEF Saved!client, Saved!files
<1>1. /\ save \in [Saved!Writer -> SaveRec] /\ net \in NetRec /\ configTmp \in TmpRec
      /\ cfg \in Saved!Config /\ issued \in Nat /\ issued > 0
      /\ \A c \in refused : c \in Nat /\ c > 0
  BY CountAssumption DEF Saved!SettingsTypeOK, Saved!Cred
<1>2. /\ Saved!Missing.cred = 0 /\ Saved!Torn.cred = 0 /\ Saved!Default.cred = 0
      /\ Saved!None = 0 /\ Saved!Off.cred = 0 /\ Saved!Idle.data = Saved!Default
      /\ \A f \in Form : Saved!Submitted(f).cred = 0
  BY DEF Saved!Missing, Saved!Torn, Saved!Default, Saved!None, Saved!Off, Saved!Idle, Saved!Submitted
<1>3. /\ net.cred \in 0 .. issued /\ cfg.cred \in 0 .. issued /\ configFile.cred \in 0 .. issued
      /\ configTmp.data.cred \in 0 .. issued
      /\ \A w \in Saved!Writer : save[w].data.cred \in 0 .. issued
  BY DEF CredentialsIssued
<1>4. ASSUME UNCHANGED <<net, refused, issued, blocked>> PROVE RefusedIsPast'
  BY <1>4 DEF RefusedIsPast
<1>5. ASSUME NEW w \in Saved!Writer, Saved!Open(w) PROVE Good
  <2>1. /\ configTmp'.data.cred = 0
        /\ \A v \in Saved!Writer : save'[v].data = save[v].data
    BY <1>1, <1>2, <1>5 DEF Saved!Open
  <2>2. UNCHANGED <<net, cfg, configFile, issued>>
    BY <1>5 DEF Saved!Open
  <2>3. CredentialsIssued'
    BY <1>1, <1>3, <2>1, <2>2 DEF CredentialsIssued
  <2>4. QED BY <1>4, <1>5, <2>3 DEF Saved!Open
<1>6. ASSUME NEW w \in Saved!Writer, Saved!Write(w) PROVE Good
  <2>1. /\ configTmp'.data \in {save[w].data, Saved!Torn}
        /\ \A v \in Saved!Writer : save'[v].data = save[v].data
    BY <1>1, <1>6 DEF Saved!Write
  <2>2. UNCHANGED <<net, cfg, configFile, issued>>
    BY <1>6 DEF Saved!Write
  <2>3. CredentialsIssued'
    BY <1>1, <1>2, <1>3, <2>1, <2>2 DEF CredentialsIssued
  <2>4. QED BY <1>4, <1>6, <2>3 DEF Saved!Write
<1>7. ASSUME NEW w \in Saved!Writer, Saved!Rename(w) PROVE Good
  <2>1. /\ configFile' \in {configFile, configTmp.data}
        /\ configTmp'.data \in {configTmp.data, Saved!Missing}
    BY <1>1, <1>7 DEF Saved!Rename
  <2>2. \A v \in Saved!Writer : save'[v].data \in {save[v].data, Saved!Default}
    BY <1>1, <1>2, <1>7 DEF Saved!Rename
  <2>3. net'.cred = net.cred /\ UNCHANGED <<cfg, issued, blocked, refused>>
    BY <1>1, <1>7 DEF Saved!Rename
  <2>4. CredentialsIssued'
    BY <1>1, <1>2, <1>3, <2>1, <2>2, <2>3 DEF CredentialsIssued
  <2>5. QED BY <2>3, <2>4 DEF RefusedIsPast
<1>8. ASSUME Saved!SaveConfig \/ Saved!SetAutoStart PROVE Good
  <2>1. cfg'.cred \in {cfg.cred, 0}
    BY <1>1, <1>2, <1>8 DEF Saved!SaveConfig, Saved!SetAutoStart, Saved!Config
  <2>2. \A v \in Saved!Writer : save'[v].data \in {save[v].data, cfg'}
    BY <1>1, <1>8 DEF Saved!SaveConfig, Saved!SetAutoStart
  <2>3. UNCHANGED <<net, configFile, configTmp, issued, refused, blocked>>
    BY <1>8 DEF Saved!SaveConfig, Saved!SetAutoStart
  <2>4. CredentialsIssued'
    BY <1>1, <1>3, <2>1, <2>2, <2>3 DEF CredentialsIssued
  <2>5. QED BY <1>4, <2>3, <2>4
<1>9. ASSUME Saved!Register PROVE Good
  <2>1. cfg'.cred = issued /\ net'.cred = issued
    BY <1>1, <1>9 DEF Saved!Register, Saved!Config
  <2>2. \A v \in Saved!Writer : save'[v].data \in {save[v].data, cfg'}
    BY <1>1, <1>9 DEF Saved!Register
  <2>3. UNCHANGED <<configFile, configTmp, issued, refused, blocked>> /\ ~blocked
    BY <1>9 DEF Saved!Register
  <2>4. CredentialsIssued'
    BY <1>1, <1>3, <2>1, <2>2, <2>3 DEF CredentialsIssued
  <2>5. RefusedIsPast'
    BY <1>1, <2>1, <2>3 DEF RefusedIsPast
  <2>6. QED BY <2>4, <2>5
<1>10. ASSUME Saved!Refused PROVE Good
  <2>1. /\ net'.cred = 0 /\ refused' = refused \cup {net.cred} /\ net.cred # 0
        /\ net.cred # issued \/ blocked
        /\ blocked => blocked'
        /\ UNCHANGED <<cfg, configFile, configTmp, save, issued>>
    BY <1>1, <1>2, <1>10 DEF Saved!Refused
  <2>2. net.cred \in Nat /\ (net.cred < issued \/ net.cred = issued)
    BY <1>1, <1>3
  <2>3. RefusedIsPast'
    BY <1>1, <2>1, <2>2 DEF RefusedIsPast
  <2>4. CredentialsIssued'
    BY <1>1, <1>3, <2>1 DEF CredentialsIssued
  <2>5. QED BY <2>3, <2>4
<1>11. ASSUME \/ Saved!Connect \/ Saved!Disconnect \/ Saved!RegisterRefused \/ Saved!Welcome \/ Saved!Lost
       PROVE  Good
  <2>1. /\ \/ net'.cred = net.cred /\ refused' = refused
           \/ net'.cred = 0 /\ refused' = refused
           \/ net'.cred = cfg.cred /\ refused' = {}
        /\ UNCHANGED <<cfg, configFile, configTmp, save, issued, blocked>>
    BY <1>1, <1>2, <1>11
       DEF Saved!Connect, Saved!Disconnect, Saved!RegisterRefused, Saved!Welcome, Saved!Lost
  <2>2. RefusedIsPast'
    BY <1>1, <2>1 DEF RefusedIsPast
  <2>3. CredentialsIssued'
    BY <1>1, <1>3, <2>1 DEF CredentialsIssued
  <2>4. QED BY <2>2, <2>3
<1>12. ASSUME Saved!Block \/ Saved!Unblock PROVE Good
  <2>1. /\ UNCHANGED <<net, refused, cfg, configFile, configTmp, save>>
        /\ \/ issued' = issued /\ blocked'
           \/ issued' = issued + 1
    BY <1>12 DEF Saved!Block, Saved!Unblock
  <2>2. RefusedIsPast'
    <3>1. \A c \in refused : c < issued \/ c = issued
      BY DEF RefusedIsPast
    <3>2. \A c \in refused : c < issued' \/ (c = issued' /\ blocked')
      BY <1>1, <2>1, <3>1
    <3>3. QED BY <2>1, <3>2 DEF RefusedIsPast
  <2>3. CredentialsIssued'
    BY <1>1, <1>3, <2>1 DEF CredentialsIssued
  <2>4. QED BY <2>2, <2>3
<1>13. ASSUME Saved!Restart PROVE Good
  <2>1. /\ cfg' \in {configFile, Saved!Default} /\ net'.cred = 0 /\ refused' = {}
        /\ \A v \in Saved!Writer : save'[v].data = Saved!Default
        /\ configTmp'.data = configTmp.data
        /\ UNCHANGED <<configFile, issued, blocked>>
    BY <1>1, <1>2, <1>13 DEF Saved!Restart
  <2>2. RefusedIsPast'
    BY <2>1 DEF RefusedIsPast
  <2>3. CredentialsIssued'
    BY <1>1, <1>2, <1>3, <2>1 DEF CredentialsIssued
  <2>4. QED BY <2>2, <2>3
<1>14. QED
  BY <1>5, <1>6, <1>7, <1>8, <1>9, <1>10, <1>11, <1>12, <1>13 DEF Saved!SettingsNext

LEMMA SettingsStep == SettingsInv /\ Saved!SettingsNext => SettingsInv'
BY SettingsTypes, OneWriterStep, CredentialStep DEF SettingsInv

LEMMA SettingsInvKeeps == SettingsInv => Saved!FileWhole /\ Saved!RefusedOnce
BY DEF SettingsInv, OneWriter, RefusedIsPast, Saved!FileWhole, Saved!RefusedOnce

-----------------------------------------------------------------------------
(* The client's NAT.                                                       *)

(* The tables that the code keeps are those of the flows that the target   *)
(* sees, and a flow was last seen when it was last used.                   *)
SameFlows ==
    /\ DOMAIN rev = DOMAIN used /\ DOMAIN revSeen = DOMAIN used /\ DOMAIN called = DOMAIN used
    /\ \A f \in DOMAIN used :
          /\ revSeen[f] = used[f] /\ used[f] \in 0 .. now
          /\ rev[f] \in called[f]
          /\ ~Flow!Old(now, used[f])

NatInv == Flow!NatTypeOK /\ SameFlows

LEMMA NatInitInv == Flow!NatInit => NatInv
BY CountAssumption DEF Flow!NatInit, Flow!NoFlows, NatInv, Flow!NatTypeOK, SameFlows

LEMMA NatStep == NatInv /\ Flow!NatNext => NatInv'
<1> SUFFICES ASSUME NatInv, Flow!NatNext PROVE NatInv'
  OBVIOUS
<1>1. now \in Nat /\ now \in 0 .. MaxNow /\ MaxNow \in Nat
  BY CountAssumption DEF NatInv, Flow!NatTypeOK
<1>2. ASSUME Flow!SetRules PROVE NatInv'
  BY <1>2 DEF Flow!SetRules, NatInv, Flow!NatTypeOK, SameFlows, Flow!Old
<1>3. ASSUME NEW o \in Origin, NEW v \in VPort, Flow!DNAT(o, v) PROVE NatInv'
  <2> DEFINE f == <<rules[v], o>>
  <2>1. f \in Target \X Origin
    BY <1>3 DEF Flow!DNAT, NatInv, Flow!NatTypeOK
  <2>2. /\ DOMAIN rev' = DOMAIN rev \cup {f} /\ DOMAIN revSeen' = DOMAIN revSeen \cup {f}
        /\ DOMAIN used' = DOMAIN used \cup {f} /\ DOMAIN called' = DOMAIN called \cup {f}
        /\ rev'[f] = v /\ revSeen'[f] = now /\ used'[f] = now /\ v \in called'[f]
        /\ now' = now /\ rules' = rules
    BY <1>3 DEF Flow!DNAT, Flow!Put
  <2>3. \A g \in DOMAIN used \ {f} :
            rev'[g] = rev[g] /\ revSeen'[g] = revSeen[g] /\ used'[g] = used[g] /\ called'[g] = called[g]
    BY <1>3 DEF Flow!DNAT, Flow!Put, NatInv, SameFlows
  <2>4. DOMAIN fwd' = DOMAIN fwd \cup {<<o, v>>}
    BY <1>3 DEF Flow!DNAT, Flow!Put
  <2>5. SameFlows'
    BY <1>1, <2>2, <2>3 DEF NatInv, SameFlows, Flow!Old
  <2>6. Flow!NatTypeOK'
    BY <1>1, <2>1, <2>2, <2>3, <2>4 DEF NatInv, SameFlows, Flow!NatTypeOK
  <2>7. QED BY <2>5, <2>6 DEF NatInv
<1>4. ASSUME NEW f \in Target \X Origin, Flow!SNAT(f) PROVE NatInv'
  <2>1. f \in DOMAIN used /\ f \in DOMAIN rev
    BY <1>4 DEF Flow!SNAT, NatInv, SameFlows
  <2>2. /\ DOMAIN used' = DOMAIN used /\ DOMAIN revSeen' = DOMAIN revSeen
        /\ revSeen'[f] = now /\ used'[f] = now
        /\ \A g \in DOMAIN used \ {f} : revSeen'[g] = revSeen[g] /\ used'[g] = used[g]
        /\ UNCHANGED <<now, rules, fwd, rev, called>>
    BY <1>4, <2>1 DEF Flow!SNAT, Flow!Put, NatInv, SameFlows
  <2>3. SameFlows'
    BY <1>1, <2>2 DEF NatInv, SameFlows, Flow!Old
  <2>4. Flow!NatTypeOK'
    BY <1>1, <2>2 DEF NatInv, SameFlows, Flow!NatTypeOK
  <2>5. QED BY <2>3, <2>4 DEF NatInv
<1>5. ASSUME Flow!Tick PROVE NatInv'
  <2> DEFINE Kept == {f \in DOMAIN used : ~Flow!Old(now + 1, used[f])}
  <2>1. /\ now' = now + 1 /\ now' \in 0 .. MaxNow /\ rules' = rules
        /\ DOMAIN fwd' \subseteq DOMAIN fwd
    BY <1>1, <1>5 DEF Flow!Tick, Flow!Without
  <2>2. /\ DOMAIN used' = Kept /\ \A f \in Kept : used'[f] = used[f]
    BY <1>5, <2>1 DEF Flow!Tick, Flow!Without
  <2>3. DOMAIN revSeen \ Flow!Expired = Kept
    BY DEF Flow!Expired, NatInv, SameFlows
  <2>4. /\ DOMAIN rev' = Kept /\ DOMAIN revSeen' = Kept
        /\ \A f \in Kept : rev'[f] = rev[f] /\ revSeen'[f] = revSeen[f]
    BY <1>5, <2>3 DEF Flow!Tick, Flow!Without, NatInv, SameFlows
  <2>5. DOMAIN called' = Kept /\ \A f \in Kept : called'[f] = called[f]
    BY <1>5, <2>2 DEF Flow!Tick, Flow!Without, NatInv, SameFlows
  <2>6. SameFlows'
    BY <1>1, <2>1, <2>2, <2>4, <2>5 DEF NatInv, SameFlows
  <2>7. Flow!NatTypeOK'
    BY <1>1, <2>1, <2>2, <2>4 DEF NatInv, SameFlows, Flow!NatTypeOK
  <2>8. QED BY <2>6, <2>7 DEF NatInv
<1>6. ASSUME Flow!NewNat PROVE NatInv'
  BY <1>6 DEF Flow!NewNat, Flow!NoFlows, NatInv, Flow!NatTypeOK, SameFlows
<1>7. QED BY <1>2, <1>3, <1>4, <1>5, <1>6 DEF Flow!NatNext

LEMMA NatInvKeeps == NatInv => Flow!FlowsKept
BY DEF NatInv, SameFlows, Flow!FlowsKept

-----------------------------------------------------------------------------
(* The NPC window.                                                         *)

(* A loop number that was not used yet was not cancelled.                  *)
GuiInv ==
    /\ Gui!GuiTypeOK
    /\ Gui!OneLoop
    /\ Gui!MemoryIsFile
    /\ \A l \in Gui!Loop : loop[l].pc = "none" => ~loop[l].cancelled
    /\ \A l \in Gui!Loop : loop[l].pc \in {"leave", "gone"} => loop[l].cancelled

LEMMA GuiInitInv == Gui!GuiInit => GuiInv
<1> SUFFICES ASSUME Gui!GuiInit PROVE GuiInv
  OBVIOUS
<1>1. Gui!GuiTypeOK
  BY DEF Gui!GuiInit, Gui!GuiTypeOK
<1>2. Gui!OneLoop /\ Gui!MemoryIsFile
  BY DEF Gui!GuiInit, Gui!OneLoop, Gui!MemoryIsFile
<1>3. QED BY <1>1, <1>2 DEF Gui!GuiInit, GuiInv

LoopPC  == {"none", "top", "make", "run", "after", "leave", "gone"}
MadePC  == {"none", "start", "retry", "dial", "main", "zombie", "gone"}
LoopRec == [pc : LoopPC, cancelled : BOOLEAN, of : Gui!Made \cup {Gui!None}]
MadeRec == [pc : MadePC, once : BOOLEAN, ofLoop : Gui!Loop \cup {Gui!None}, seen : BOOLEAN]

(* The updates of a loop and of a client that the NPC window makes.        *)
LEMMA LoopUpdate ==
    ASSUME NEW f \in [Gui!Loop -> LoopRec], NEW l \in Gui!Loop, NEW p \in LoopPC,
           NEW m \in Gui!Made \cup {Gui!None}
    PROVE  /\ [f EXCEPT ![l].pc = p] \in [Gui!Loop -> LoopRec]
           /\ [f EXCEPT ![l].pc = p, ![l].of = m] \in [Gui!Loop -> LoopRec]
           /\ [f EXCEPT ![l].cancelled = TRUE] \in [Gui!Loop -> LoopRec]
<1>0. f[l] \in LoopRec
  OBVIOUS
<1>1. [f EXCEPT ![l].pc = p] \in [Gui!Loop -> LoopRec]
  BY <1>0 DEF LoopRec
<1>2. [f EXCEPT ![l].pc = p, ![l].of = m] \in [Gui!Loop -> LoopRec]
  BY <1>0 DEF LoopRec
<1>3. [f EXCEPT ![l].cancelled = TRUE] \in [Gui!Loop -> LoopRec]
  BY <1>0 DEF LoopRec
<1>4. QED BY <1>1, <1>2, <1>3

LEMMA MadeUpdate ==
    ASSUME NEW f \in [Gui!Made -> MadeRec], NEW m \in Gui!Made, NEW p \in MadePC, NEW l \in Gui!Loop
    PROVE  [f EXCEPT ![m].pc = p, ![m].ofLoop = l] \in [Gui!Made -> MadeRec]
<1>1. f[m] \in MadeRec
  OBVIOUS
<1>2. QED BY <1>1 DEF MadeRec

LEMMA GuiTypes == Gui!GuiTypeOK /\ Gui!GuiNext => Gui!GuiTypeOK'
<1> SUFFICES ASSUME Gui!GuiTypeOK, Gui!GuiNext PROVE Gui!GuiTypeOK'
  OBVIOUS
<1> DEFINE CallRec == [pc : {"idle", "save", "done"}, sc : SUBSET Shortcut]
           StoreRec == [shortcuts : SUBSET Shortcut, settings : {0, 1}]
<1>1. /\ loop \in [Gui!Loop -> LoopRec] /\ made \in [Gui!Made -> MadeRec]
      /\ call \in [Call -> CallRec] /\ store \in StoreRec
      /\ running \in Gui!Loop \cup {Gui!None} /\ clients \in Gui!Made \cup {Gui!None}
      /\ shortcuts \subseteq Shortcut
  BY DEF Gui!GuiTypeOK, LoopRec, LoopPC, MadeRec, MadePC
<1>2. ASSUME UNCHANGED Gui!fileVars,
             loop' \in [Gui!Loop -> LoopRec], made' \in [Gui!Made -> MadeRec],
             running' \in Gui!Loop \cup {Gui!None}, clients' \in Gui!Made \cup {Gui!None},
             connected' \in {"no entry", "false", "true"}, guiCloseClient' \in BOOLEAN
      PROVE  Gui!GuiTypeOK'
  BY <1>2 DEF Gui!fileVars, Gui!GuiTypeOK, LoopRec, LoopPC, MadeRec, MadePC
<1>3. ASSUME UNCHANGED Gui!clientVars,
             call' \in [Call -> CallRec], store' \in StoreRec,
             shortcuts' \subseteq Shortcut, settings' \in {0, 1}
      PROVE  Gui!GuiTypeOK'
  BY <1>3 DEF Gui!clientVars, Gui!GuiTypeOK
<1>4. ASSUME NEW m \in Gui!Made \cup {Gui!None}
      PROVE  Gui!Shut(m) \in [Gui!Made -> MadeRec] /\ Gui!ShutFlag(m) \in BOOLEAN
  <2>1. CASE m \in Gui!Made
    <3>1. [made EXCEPT ![m].once = TRUE] \in [Gui!Made -> MadeRec]
      <4>1. made[m] \in MadeRec
        BY <1>1, <2>1
      <4>2. QED BY <1>1, <2>1, <4>1 DEF MadeRec
    <3>2. QED BY <1>1, <3>1 DEF Gui!Shut, Gui!ShutFlag, Gui!GuiTypeOK
  <2>2. CASE m = Gui!None
    BY <1>1, <2>2 DEF Gui!Shut, Gui!ShutFlag, Gui!GuiTypeOK
  <2>3. QED BY <2>1, <2>2
<1>5. connected \in {"no entry", "false", "true"} /\ guiCloseClient \in BOOLEAN
  BY DEF Gui!GuiTypeOK
<1>6. ASSUME Gui!ToggleOn PROVE Gui!GuiTypeOK'
  <2>1. loop' \in [Gui!Loop -> LoopRec]
    <3>1. PICK l \in Gui!Loop : loop' = [loop EXCEPT ![l].pc = "top"]
      BY <1>6 DEF Gui!ToggleOn
    <3>2. QED BY <1>1, <3>1, LoopUpdate DEF LoopPC
  <2>2. QED BY <1>1, <1>2, <1>5, <1>6, <2>1 DEF Gui!ToggleOn
<1>7. ASSUME Gui!ToggleOff PROVE Gui!GuiTypeOK'
  <2>1. loop' \in [Gui!Loop -> LoopRec]
    <3>1. running \in Gui!Loop /\ loop' = [loop EXCEPT ![running].cancelled = TRUE]
      BY <1>1, <1>7 DEF Gui!ToggleOff
    <3>2. QED BY <1>1, <3>1, LoopUpdate DEF LoopPC
  <2>2. made' \in [Gui!Made -> MadeRec] /\ guiCloseClient' \in BOOLEAN
    BY <1>1, <1>4, <1>7 DEF Gui!ToggleOff
  <2>3. QED BY <1>1, <1>2, <1>5, <1>7, <2>1, <2>2 DEF Gui!ToggleOff
<1>8. ASSUME NEW l \in Gui!Loop, Gui!Cancelled(l) \/ Gui!Again(l) \/ Gui!Returned(l)
      PROVE  Gui!GuiTypeOK'
  <2>1. loop' \in [Gui!Loop -> LoopRec]
    <3>1. PICK p \in LoopPC : loop' = [loop EXCEPT ![l].pc = p]
      BY <1>8 DEF Gui!Cancelled, Gui!Again, Gui!Returned, LoopPC
    <3>2. QED BY <1>1, <3>1, LoopUpdate
  <2>2. QED BY <1>1, <1>2, <1>5, <1>8, <2>1 DEF Gui!Cancelled, Gui!Again, Gui!Returned
<1>9. ASSUME NEW l \in Gui!Loop, Gui!Leave(l) PROVE Gui!GuiTypeOK'
  <2>1. loop' \in [Gui!Loop -> LoopRec]
    BY <1>1, <1>9, LoopUpdate DEF Gui!Leave, LoopPC
  <2>2. made' \in [Gui!Made -> MadeRec] /\ guiCloseClient' \in BOOLEAN
    BY <1>1, <1>4, <1>9 DEF Gui!Leave
  <2>3. QED BY <1>1, <1>2, <1>5, <1>9, <2>1, <2>2 DEF Gui!Leave
<1>10. ASSUME NEW l \in Gui!Loop, Gui!Make(l) PROVE Gui!GuiTypeOK'
  <2>1. PICK m \in Gui!Made :
          /\ made' = [made EXCEPT ![m].pc = "start", ![m].ofLoop = l]
          /\ clients' = m
          /\ loop' = [loop EXCEPT ![l].pc = "run", ![l].of = m]
    BY <1>10 DEF Gui!Make
  <2>2. loop' \in [Gui!Loop -> LoopRec]
    BY <1>1, <2>1, LoopUpdate DEF LoopPC
  <2>3. made' \in [Gui!Made -> MadeRec]
    BY <1>1, <2>1, MadeUpdate DEF MadePC
  <2>4. QED BY <1>1, <1>2, <1>5, <1>10, <2>1, <2>2, <2>3 DEF Gui!Make
<1>11. ASSUME NEW l \in Gui!Loop, Gui!Watch(l) PROVE Gui!GuiTypeOK'
  <2>1. loop[l].of \in Gui!Made \cup {Gui!None}
    BY <1>1 DEF LoopRec
  <2>2. made' \in [Gui!Made -> MadeRec] /\ guiCloseClient' \in BOOLEAN
    BY <1>4, <1>11, <2>1 DEF Gui!Watch
  <2>3. QED BY <1>1, <1>2, <1>5, <1>11, <2>2 DEF Gui!Watch
<1>12. ASSUME NEW m \in Gui!Made,
              Gui!Start(m) \/ Gui!Retry(m) \/ Gui!Dial(m) \/ Gui!Monitor(m) \/ Gui!MonitorTimeout(m)
       PROVE  Gui!GuiTypeOK'
  <2>1. made' \in [Gui!Made -> MadeRec]
    <3>1. \/ \E p \in MadePC : made' = [made EXCEPT ![m].pc = p]
          \/ made' = [made EXCEPT ![m].seen = TRUE]
          \/ made' = made
      BY <1>12 DEF Gui!Start, Gui!Retry, Gui!Dial, Gui!Monitor, Gui!MonitorTimeout, MadePC
    <3>2. ASSUME NEW p \in MadePC, made' = [made EXCEPT ![m].pc = p]
          PROVE  made' \in [Gui!Made -> MadeRec]
      <4>1. made[m] \in MadeRec
        BY <1>1
      <4>2. QED BY <1>1, <3>2, <4>1 DEF MadeRec
    <3>3. ASSUME made' = [made EXCEPT ![m].seen = TRUE]
          PROVE  made' \in [Gui!Made -> MadeRec]
      <4>1. made[m] \in MadeRec
        BY <1>1
      <4>2. QED BY <1>1, <3>3, <4>1 DEF MadeRec
    <3>4. QED BY <1>1, <3>1, <3>2, <3>3
  <2>2. QED BY <1>1, <1>2, <1>5, <1>12, <2>1
            DEF Gui!Start, Gui!Retry, Gui!Dial, Gui!Monitor, Gui!MonitorTimeout
<1>13. ASSUME NEW m \in Gui!Made, Gui!MainEnds(m) PROVE Gui!GuiTypeOK'
  <2>1. made' \in [Gui!Made -> MadeRec]
    <3>1. [made EXCEPT ![m].pc = "gone", ![m].once = TRUE] \in [Gui!Made -> MadeRec]
      <4>1. made[m] \in MadeRec
        BY <1>1
      <4>2. QED BY <1>1, <4>1 DEF MadeRec, MadePC
    <3>2. QED BY <1>13, <3>1 DEF Gui!MainEnds
  <2>2. guiCloseClient' \in BOOLEAN
    BY <1>13 DEF Gui!MainEnds
  <2>3. QED BY <1>1, <1>2, <1>5, <1>13, <2>1, <2>2 DEF Gui!MainEnds
<1>14. ASSUME NEW c \in Call, NEW s \in Shortcut, Gui!AddShortcut(c, s) PROVE Gui!GuiTypeOK'
  <2>1. call' \in [Call -> CallRec] /\ shortcuts' \subseteq Shortcut
    BY <1>1, <1>14 DEF Gui!AddShortcut
  <2>2. QED BY <1>1, <1>3, <1>14, <2>1 DEF Gui!AddShortcut, Gui!GuiTypeOK
<1>15. ASSUME NEW c \in Call, Gui!SaveShortcuts(c) PROVE Gui!GuiTypeOK'
  <2>1. call' \in [Call -> CallRec] /\ store' \in StoreRec
    BY <1>1, <1>15 DEF Gui!SaveShortcuts
  <2>2. QED BY <1>1, <1>3, <1>15, <2>1 DEF Gui!SaveShortcuts, Gui!GuiTypeOK
<1>16. ASSUME Gui!LoadShortcuts \/ (\E s \in Shortcut : Gui!RemoveShortcut(s))
              \/ (\E n \in {0, 1} : Gui!SaveGuiSettings(n))
       PROVE  Gui!GuiTypeOK'
  <2>1. store' \in StoreRec /\ shortcuts' \subseteq Shortcut
    BY <1>1, <1>16 DEF Gui!LoadShortcuts, Gui!RemoveShortcut, Gui!SaveGuiSettings
  <2>2. settings' \in {0, 1} /\ call' = call /\ UNCHANGED Gui!clientVars
    BY <1>16 DEF Gui!LoadShortcuts, Gui!RemoveShortcut, Gui!SaveGuiSettings, Gui!GuiTypeOK
  <2>3. QED BY <1>1, <1>3, <2>1, <2>2
<1>17. QED
  BY <1>6, <1>7, <1>8, <1>9, <1>10, <1>11, <1>12, <1>13, <1>14, <1>15, <1>16 DEF Gui!GuiNext

(* What the loops do and what the calls about the file do are apart.       *)
LEMMA GuiStep == GuiInv /\ Gui!GuiNext => GuiInv'
<1> SUFFICES ASSUME GuiInv, Gui!GuiNext PROVE GuiInv'
  OBVIOUS
<1> DEFINE Fresh  == \A l \in Gui!Loop : loop[l].pc = "none" => ~loop[l].cancelled
           Over   == \A l \in Gui!Loop : loop[l].pc \in {"leave", "gone"} => loop[l].cancelled
           Loops  == Gui!OneLoop /\ Fresh /\ Over
           Works(l) == loop[l].pc \notin {"none", "gone", "leave"} /\ ~loop[l].cancelled
<1>1. Gui!GuiTypeOK'
  BY GuiTypes DEF GuiInv
<1>2. Loops /\ Gui!MemoryIsFile
  BY DEF GuiInv
<1>3. /\ loop \in [Gui!Loop -> LoopRec]
      /\ running \in Gui!Loop \cup {Gui!None} /\ Gui!None \notin Gui!Loop
  <2>1. Gui!None \notin Gui!Loop
    BY CountAssumption DEF Gui!Loop, Gui!None
  <2>2. QED BY <2>1 DEF GuiInv, Gui!GuiTypeOK, LoopRec, LoopPC
<1>4. ASSUME UNCHANGED <<loop, running>> PROVE Loops'
  BY <1>2, <1>4 DEF Gui!OneLoop
<1>5. ASSUME UNCHANGED Gui!fileVars PROVE Gui!MemoryIsFile'
  BY <1>2, <1>5 DEF Gui!fileVars, Gui!MemoryIsFile
<1>6. \A l \in Gui!Loop : Works(l) <=> l = running
  BY <1>2, <1>3 DEF Gui!OneLoop
<1>7. ASSUME (\A l \in Gui!Loop : Works(l)' <=> l = running'),
             running' \in Gui!Loop \cup {Gui!None}
      PROVE  Gui!OneLoop'
  BY <1>3, <1>7 DEF Gui!OneLoop
<1>8. ASSUME Gui!ToggleOn PROVE Loops'
  <2>1. PICK l \in Gui!Loop : /\ loop[l].pc = "none" /\ running' = l
                              /\ loop' = [loop EXCEPT ![l].pc = "top"]
    BY <1>8 DEF Gui!ToggleOn
  <2>2. /\ loop'[l].pc = "top" /\ loop'[l].cancelled = loop[l].cancelled /\ ~loop[l].cancelled
        /\ \A k \in Gui!Loop \ {l} : loop'[k] = loop[k]
    BY <1>2, <1>3, <2>1 DEF LoopRec
  <2>3. running = Gui!None
    BY <1>8 DEF Gui!ToggleOn
  <2>4. \A k \in Gui!Loop : Works(k)' <=> k = running'
    BY <1>3, <1>6, <2>1, <2>2, <2>3
  <2>5. Fresh' /\ Over'
    BY <1>2, <2>2
  <2>6. QED BY <1>7, <2>1, <2>4, <2>5
<1>9. ASSUME Gui!ToggleOff PROVE Loops'
  <2>1. /\ running \in Gui!Loop /\ running' = Gui!None
        /\ loop' = [loop EXCEPT ![running].cancelled = TRUE]
    BY <1>3, <1>9 DEF Gui!ToggleOff
  <2>2. /\ loop'[running].pc = loop[running].pc /\ loop'[running].cancelled
        /\ \A k \in Gui!Loop \ {running} : loop'[k] = loop[k]
    BY <1>3, <2>1 DEF LoopRec
  <2>3. loop[running].pc # "none"
    BY <1>6, <2>1
  <2>4. \A k \in Gui!Loop : Works(k)' <=> k = running'
    BY <1>3, <1>6, <2>1, <2>2
  <2>5. Fresh' /\ Over'
    BY <1>2, <2>2, <2>3
  <2>6. QED BY <1>7, <2>1, <2>4, <2>5
<1>10. ASSUME NEW l \in Gui!Loop,
              Gui!Cancelled(l) \/ Gui!Leave(l) \/ Gui!Again(l) \/ Gui!Make(l) \/ Gui!Returned(l)
       PROVE  Loops'
  <2>1. /\ loop'[l].cancelled = loop[l].cancelled /\ running' = running
        /\ \A k \in Gui!Loop \ {l} : loop'[k] = loop[k]
    <3>1. /\ running' = running
          /\ \/ \E p \in LoopPC : loop' = [loop EXCEPT ![l].pc = p]
             \/ \E p \in LoopPC, m \in Gui!Made : loop' = [loop EXCEPT ![l].pc = p, ![l].of = m]
      BY <1>10 DEF Gui!Cancelled, Gui!Leave, Gui!Again, Gui!Make, Gui!Returned, LoopPC
    <3>2. loop[l] \in LoopRec
      BY <1>3
    <3>3. ASSUME NEW p \in LoopPC, loop' = [loop EXCEPT ![l].pc = p]
          PROVE  /\ loop'[l].cancelled = loop[l].cancelled
                 /\ \A k \in Gui!Loop \ {l} : loop'[k] = loop[k]
      BY <1>3, <3>2, <3>3 DEF LoopRec
    <3>4. ASSUME NEW p \in LoopPC, NEW m \in Gui!Made, loop' = [loop EXCEPT ![l].pc = p, ![l].of = m]
          PROVE  /\ loop'[l].cancelled = loop[l].cancelled
                 /\ \A k \in Gui!Loop \ {l} : loop'[k] = loop[k]
      BY <1>3, <3>2, <3>4 DEF LoopRec
    <3>5. QED BY <3>1, <3>3, <3>4
  <2>2. \/ /\ loop[l].pc \in {"top", "after", "make", "run"}
           /\ loop'[l].pc \in {"make", "run", "after"}
        \/ /\ loop[l].pc \in {"top", "after", "leave"} /\ loop[l].cancelled
           /\ loop'[l].pc \in {"leave", "gone"}
    <3>1. CASE Gui!Cancelled(l)
      BY <1>3, <3>1 DEF Gui!Cancelled, LoopRec
    <3>6. CASE Gui!Leave(l)
      <4>1. loop[l].pc = "leave" /\ loop' = [loop EXCEPT ![l].pc = "gone"]
        BY <3>6 DEF Gui!Leave, Gui!Goes
      <4>2. loop[l].cancelled /\ loop'[l].pc = "gone"
        BY <1>2, <1>3, <4>1 DEF LoopRec
      <4>3. QED BY <4>1, <4>2
    <3>2. CASE Gui!Again(l)
      BY <1>3, <3>2 DEF Gui!Again, LoopRec
    <3>3. CASE Gui!Make(l)
      BY <1>3, <3>3 DEF Gui!Make, Gui!Goes, LoopRec
    <3>4. CASE Gui!Returned(l)
      BY <1>3, <3>4 DEF Gui!Returned, Gui!Goes, LoopRec
    <3>5. QED BY <1>10, <3>1, <3>2, <3>3, <3>4, <3>6
  <2>3. \A k \in Gui!Loop : Works(k)' <=> k = running'
    BY <1>6, <2>1, <2>2
  <2>4. Fresh' /\ Over'
    BY <1>2, <2>1, <2>2
  <2>5. QED BY <1>3, <1>7, <2>1, <2>3, <2>4
<1>11. ASSUME \/ Gui!ToggleOn \/ Gui!ToggleOff
              \/ \E l \in Gui!Loop : \/ Gui!Cancelled(l) \/ Gui!Leave(l) \/ Gui!Again(l)
                                     \/ Gui!Make(l) \/ Gui!Returned(l)
       PROVE  GuiInv'
  <2>1. UNCHANGED Gui!fileVars
    BY <1>11 DEF Gui!ToggleOn, Gui!ToggleOff, Gui!Cancelled, Gui!Leave, Gui!Again, Gui!Make,
                 Gui!Returned
  <2>2. QED BY <1>1, <1>5, <1>8, <1>9, <1>10, <1>11, <2>1 DEF GuiInv
<1>12. ASSUME \/ \E l \in Gui!Loop : Gui!Watch(l)
              \/ \E m \in Gui!Made : \/ Gui!Start(m) \/ Gui!Retry(m) \/ Gui!Dial(m)
                                     \/ Gui!MainEnds(m) \/ Gui!Monitor(m) \/ Gui!MonitorTimeout(m)
       PROVE  GuiInv'
  <2>1. UNCHANGED <<loop, running>> /\ UNCHANGED Gui!fileVars
    BY <1>12 DEF Gui!Watch, Gui!Start, Gui!Retry, Gui!Dial, Gui!MainEnds, Gui!Monitor,
                 Gui!MonitorTimeout
  <2>2. QED BY <1>1, <1>4, <1>5, <2>1 DEF GuiInv
<1>13. ASSUME UNCHANGED Gui!clientVars, Gui!MemoryIsFile' PROVE GuiInv'
  BY <1>1, <1>4, <1>13 DEF Gui!clientVars, GuiInv
<1>14. ASSUME NEW c \in Call, NEW s \in Shortcut, Gui!AddShortcut(c, s) PROVE GuiInv'
  <2>1. call'[c].pc = "save" /\ UNCHANGED <<store, settings>> /\ UNCHANGED Gui!clientVars
    BY <1>14 DEF Gui!AddShortcut, GuiInv, Gui!GuiTypeOK
  <2>2. Gui!MemoryIsFile'
    BY <1>2, <2>1 DEF Gui!MemoryIsFile
  <2>3. QED BY <1>13, <2>1, <2>2
<1>15. ASSUME NEW c \in Call, Gui!SaveShortcuts(c) PROVE GuiInv'
  <2>1. /\ store'.shortcuts = shortcuts' /\ store'.settings = store.settings /\ settings' = settings
        /\ UNCHANGED Gui!clientVars
    BY <1>15 DEF Gui!SaveShortcuts, GuiInv, Gui!GuiTypeOK
  <2>2. Gui!MemoryIsFile'
    BY <1>2, <2>1 DEF Gui!MemoryIsFile
  <2>3. QED BY <1>13, <2>1, <2>2
<1>16. ASSUME Gui!LoadShortcuts \/ \E s \in Shortcut : Gui!RemoveShortcut(s) PROVE GuiInv'
  <2>1. /\ store'.shortcuts = shortcuts' /\ store'.settings = store.settings /\ settings' = settings
        /\ UNCHANGED Gui!clientVars
    BY <1>16 DEF Gui!LoadShortcuts, Gui!RemoveShortcut, GuiInv, Gui!GuiTypeOK
  <2>2. Gui!MemoryIsFile'
    BY <1>2, <2>1 DEF Gui!MemoryIsFile
  <2>3. QED BY <1>13, <2>1, <2>2
<1>17. ASSUME NEW n \in {0, 1}, Gui!SaveGuiSettings(n) PROVE GuiInv'
  <2>1. /\ store'.settings = n /\ settings' = n /\ store'.shortcuts = store.shortcuts
        /\ UNCHANGED <<shortcuts, call>> /\ UNCHANGED Gui!clientVars
    BY <1>17 DEF Gui!SaveGuiSettings, GuiInv, Gui!GuiTypeOK
  <2>2. Gui!MemoryIsFile'
    BY <1>2, <2>1 DEF Gui!MemoryIsFile
  <2>3. QED BY <1>13, <2>1, <2>2
<1>18. QED
  BY <1>11, <1>12, <1>14, <1>15, <1>16, <1>17 DEF Gui!GuiNext

-----------------------------------------------------------------------------
(* The runs of the desktop program.                                        *)

RunPC  == {"none", "loop", "synced", "stop", "wait", "show", "clear", "look", "gone"}
NetPC  == {"none", "new", "runs", "failed", "closed", "done"}
TrpPC  == {"none", "start", "retry", "dial", "main", "gone"}
RunRec == [pc : RunPC, net : NetPC, vip : BOOLEAN, stopped : BOOLEAN]
TrpRec == [pc : TrpPC, once : BOOLEAN, signal : {"nil", "open", "closed"}]

(* A network works only for a runClient that follows it, that one is the   *)
(* run in progress, and the NPS client is gone before it stops following.  *)
RunFollowed ==
    /\ \A r \in Main!Run :
          /\ run[r].net \notin {"none", "done"} => run[r].pc \in {"loop", "synced", "stop", "wait"}
          /\ run[r].pc \in {"loop", "synced", "stop", "wait", "clear"} => cli = r
    /\ npc # Main!None => cli # Main!None /\ run[cli].pc \in {"loop", "synced", "stop"}

DesktopInv == Main!DesktopTypeOK /\ RunFollowed

LEMMA DesktopInitInv == Main!DesktopInit => DesktopInv
<1> SUFFICES ASSUME Main!DesktopInit PROVE DesktopInv
  OBVIOUS
<1>1. Main!DesktopTypeOK
  BY DEF Main!DesktopInit, Main!DesktopTypeOK
<1>2. RunFollowed
  BY DEF Main!DesktopInit, RunFollowed
<1>3. QED BY <1>1, <1>2 DEF DesktopInv

(* What a step may do to a run.                                            *)
LEMMA RunUpdate ==
    ASSUME run \in [Main!Run -> RunRec], NEW r \in Main!Run, NEW p \in RunPC, NEW n \in NetPC
    PROVE  /\ [run EXCEPT ![r].pc = p] \in [Main!Run -> RunRec]
           /\ [run EXCEPT ![r].net = n] \in [Main!Run -> RunRec]
           /\ [run EXCEPT ![r].pc = p, ![r].net = n] \in [Main!Run -> RunRec]
           /\ [run EXCEPT ![r].vip = TRUE] \in [Main!Run -> RunRec]
           /\ [run EXCEPT ![r].stopped = TRUE] \in [Main!Run -> RunRec]
<1>1. run[r] \in RunRec
  OBVIOUS
<1>2. [run EXCEPT ![r].pc = p] \in [Main!Run -> RunRec]
  BY <1>1 DEF RunRec
<1>3. [run EXCEPT ![r].net = n] \in [Main!Run -> RunRec]
  BY <1>1 DEF RunRec
<1>4. [run EXCEPT ![r].pc = p, ![r].net = n] \in [Main!Run -> RunRec]
  BY <1>1 DEF RunRec
<1>5. [run EXCEPT ![r].vip = TRUE] \in [Main!Run -> RunRec]
  BY <1>1 DEF RunRec
<1>6. [run EXCEPT ![r].stopped = TRUE] \in [Main!Run -> RunRec]
  BY <1>1 DEF RunRec
<1>7. QED BY <1>2, <1>3, <1>4, <1>5, <1>6

LEMMA TrpClosed ==
    ASSUME trp \in [Main!Trp -> TrpRec], NEW t \in Main!Trp
    PROVE  Main!Closed(t) \in TrpRec
<1>1. trp[t] \in TrpRec
  OBVIOUS
<1>2. QED BY <1>1 DEF Main!Closed, TrpRec

(* Stopping and starting the NPS client.                                   *)
LEMMA NpcTypes ==
    ASSUME Main!DesktopTypeOK
    PROVE  /\ Main!StopNpc => /\ trp' \in [Main!Trp -> TrpRec]
                              /\ npc' = Main!None /\ CloseClient' \in BOOLEAN
           /\ \A t \in Main!Trp : Main!StartNpc(t) =>
                 /\ trp' \in [Main!Trp -> TrpRec] /\ npc' = t /\ CloseClient' \in BOOLEAN
<1>1. trp \in [Main!Trp -> TrpRec] /\ npc \in Main!Trp \cup {Main!None}
  BY DEF Main!DesktopTypeOK, TrpRec, TrpPC
<1>2. ASSUME Main!StopNpc
      PROVE  trp' \in [Main!Trp -> TrpRec] /\ npc' = Main!None /\ CloseClient' \in BOOLEAN
  <2>1. trp' \in [Main!Trp -> TrpRec]
    BY <1>1, <1>2, TrpClosed DEF Main!StopNpc
  <2>2. CloseClient' \in BOOLEAN
    BY <1>2 DEF Main!StopNpc
  <2>3. QED BY <1>2, <2>1, <2>2 DEF Main!StopNpc
<1>3. ASSUME NEW t \in Main!Trp, Main!StartNpc(t)
      PROVE  trp' \in [Main!Trp -> TrpRec] /\ npc' = t /\ CloseClient' \in BOOLEAN
  <2>1. [trp[t] EXCEPT !.pc = "start"] \in TrpRec
    <3>1. trp[t] \in TrpRec
      BY <1>1
    <3>2. QED BY <3>1 DEF TrpRec, TrpPC
  <2>2. trp' \in [Main!Trp -> TrpRec]
    BY <1>1, <1>3, <2>1, TrpClosed DEF Main!StartNpc
  <2>3. CloseClient' \in BOOLEAN
    BY <1>3 DEF Main!StartNpc
  <2>4. QED BY <1>3, <2>2, <2>3 DEF Main!StartNpc
<1>4. QED BY <1>2, <1>3

(* A step of an NPS client.                                                *)
LEMMA TrpStep ==
    ASSUME Main!DesktopTypeOK, NEW t \in Main!Trp,
           Main!Start(t) \/ Main!Retry(t) \/ Main!Dial(t) \/ Main!MainEnds(t)
    PROVE  Main!DesktopTypeOK' /\ UNCHANGED <<cli, npc, run>>
<1>1. /\ trp \in [Main!Trp -> TrpRec] /\ trp[t] \in TrpRec
  BY DEF Main!DesktopTypeOK, TrpRec, TrpPC
<1>2. trp' \in [Main!Trp -> TrpRec]
  <2>1. CASE Main!Start(t)
    BY <1>1, <2>1 DEF Main!Start, TrpRec, TrpPC
  <2>2. CASE Main!Retry(t)
    <3>1. PICK p \in TrpPC : trp' = [trp EXCEPT ![t].pc = p]
      BY <2>2 DEF Main!Retry, TrpPC
    <3>2. QED BY <1>1, <3>1 DEF TrpRec
  <2>3. CASE Main!Dial(t)
    BY <1>1, <2>3 DEF Main!Dial, TrpRec, TrpPC
  <2>4. CASE Main!MainEnds(t)
    BY <1>1, <2>4 DEF Main!MainEnds, TrpRec, TrpPC
  <2>5. QED BY <2>1, <2>2, <2>3, <2>4
<1>3. CloseClient' \in BOOLEAN
  BY DEF Main!Start, Main!Retry, Main!Dial, Main!MainEnds, Main!DesktopTypeOK
<1>4. UNCHANGED <<cli, stop, status, run, npc, panicked>>
  BY DEF Main!Start, Main!Retry, Main!Dial, Main!MainEnds
<1>5. QED BY <1>2, <1>3, <1>4 DEF Main!DesktopTypeOK, TrpRec, TrpPC

LEMMA DesktopTypes == Main!DesktopTypeOK /\ Main!DesktopNext => Main!DesktopTypeOK'
<1> SUFFICES ASSUME Main!DesktopTypeOK, Main!DesktopNext PROVE Main!DesktopTypeOK'
  OBVIOUS
<1>1. /\ run \in [Main!Run -> RunRec] /\ trp \in [Main!Trp -> TrpRec]
      /\ cli \in Main!Run \cup {Main!None} /\ stop \in Main!Run \cup {Main!None}
      /\ npc \in Main!Trp \cup {Main!None}
      /\ status \in {"disconnected", "connecting", "connected", "error"}
  BY DEF Main!DesktopTypeOK, RunRec, RunPC, NetPC, TrpRec, TrpPC
<1>2. CloseClient \in BOOLEAN /\ panicked \in BOOLEAN
  BY DEF Main!DesktopTypeOK
<1>3. ASSUME run' \in [Main!Run -> RunRec], trp' \in [Main!Trp -> TrpRec],
             cli' \in Main!Run \cup {Main!None}, stop' \in Main!Run \cup {Main!None},
             npc' \in Main!Trp \cup {Main!None},
             status' \in {"disconnected", "connecting", "connected", "error"},
             CloseClient' \in BOOLEAN, panicked' \in BOOLEAN
      PROVE  Main!DesktopTypeOK'
  BY <1>3 DEF Main!DesktopTypeOK, RunRec, RunPC, NetPC, TrpRec, TrpPC
<1>4. ASSUME Main!Connect PROVE Main!DesktopTypeOK'
  <2>1. PICK r \in Main!Run :
          /\ cli' = r /\ stop' = r
          /\ run' = [run EXCEPT ![r] = [pc |-> "loop", net |-> "new", vip |-> FALSE, stopped |-> FALSE]]
    BY <1>4 DEF Main!Connect
  <2>2. run' \in [Main!Run -> RunRec]
    BY <1>1, <2>1 DEF RunRec, RunPC, NetPC
  <2>3. QED BY <1>1, <1>2, <1>3, <1>4, <2>1, <2>2 DEF Main!Connect
<1>5. ASSUME Main!Disconnect PROVE Main!DesktopTypeOK'
  <2>1. stop \in Main!Run /\ run' = [run EXCEPT ![stop].stopped = TRUE]
    BY <1>1, <1>5 DEF Main!Disconnect
  <2>2. run' \in [Main!Run -> RunRec]
    BY <1>1, <2>1, RunUpdate DEF RunPC, NetPC
  <2>3. QED BY <1>1, <1>2, <1>3, <1>5, <2>2 DEF Main!Disconnect
<1>6. ASSUME NEW r \in Main!Run,
             Main!RunBegins(r) \/ Main!Online(r) \/ Main!RunFails(r) \/ Main!RunReturns(r)
      PROVE  Main!DesktopTypeOK'
  <2>1. \/ \E n \in NetPC : run' = [run EXCEPT ![r].net = n]
        \/ run' = [run EXCEPT ![r].vip = TRUE]
    BY <1>6 DEF Main!RunBegins, Main!Online, Main!RunFails, Main!RunReturns, NetPC
  <2>2. ASSUME NEW n \in NetPC, run' = [run EXCEPT ![r].net = n] PROVE run' \in [Main!Run -> RunRec]
    BY <1>1, <2>2, RunUpdate DEF RunPC
  <2>3. ASSUME run' = [run EXCEPT ![r].vip = TRUE] PROVE run' \in [Main!Run -> RunRec]
    BY <1>1, <2>3, RunUpdate DEF RunPC, NetPC
  <2>4. run' \in [Main!Run -> RunRec]
    BY <2>1, <2>2, <2>3
  <2>5. QED BY <1>1, <1>2, <1>3, <1>6, <2>4
            DEF Main!RunBegins, Main!Online, Main!RunFails, Main!RunReturns
<1>7. ASSUME NEW r \in Main!Run, NEW p \in RunPC, Main!Step(r, p) PROVE run' \in [Main!Run -> RunRec]
  BY <1>1, <1>7, RunUpdate DEF Main!Step, NetPC
<1>8. ASSUME NEW r \in Main!Run,
             \/ Main!SyncFromClient(r) \/ Main!WaitDone(r) \/ Main!Show(r)
             \/ Main!DoneClears(r) \/ Main!DoneLooks(r)
      PROVE  Main!DesktopTypeOK'
  <2>1. \E p \in RunPC : Main!Step(r, p)
    BY <1>8 DEF Main!SyncFromClient, Main!WaitDone, Main!Show, Main!DoneClears, Main!DoneLooks, RunPC
  <2>2. run' \in [Main!Run -> RunRec]
    BY <1>7, <2>1
  <2>3. cli' \in Main!Run \cup {Main!None}
    BY <1>1, <1>8
       DEF Main!SyncFromClient, Main!WaitDone, Main!Show, Main!DoneClears, Main!DoneLooks
  <2>4. QED BY <1>1, <1>2, <1>3, <1>8, <2>2, <2>3
            DEF Main!SyncFromClient, Main!WaitDone, Main!Show, Main!DoneClears, Main!DoneLooks
<1>9. ASSUME NEW r \in Main!Run, Main!SyncStarts(r) \/ Main!StopStopsNpc(r) \/ Main!DoneStopsNpc(r)
      PROVE  Main!DesktopTypeOK'
  <2>1. \E p \in RunPC : Main!Step(r, p)
    BY <1>9 DEF Main!SyncStarts, Main!StopStopsNpc, Main!DoneStopsNpc, RunPC
  <2>2. run' \in [Main!Run -> RunRec]
    BY <1>7, <2>1
  <2>3. Main!StopNpc \/ \E t \in Main!Trp : Main!StartNpc(t)
    BY <1>9 DEF Main!SyncStarts, Main!StopStopsNpc, Main!DoneStopsNpc
  <2>4. /\ trp' \in [Main!Trp -> TrpRec] /\ CloseClient' \in BOOLEAN
        /\ npc' \in Main!Trp \cup {Main!None}
    BY <2>3, NpcTypes
  <2>5. QED BY <1>1, <1>2, <1>3, <1>9, <2>2, <2>4
            DEF Main!SyncStarts, Main!StopStopsNpc, Main!DoneStopsNpc
<1>10. ASSUME NEW r \in Main!Run, Main!StopClient(r) PROVE Main!DesktopTypeOK'
  <2>1. run[r] \in RunRec
    BY <1>1
  <2>2. PICK n \in NetPC : run' = [run EXCEPT ![r].pc = "stop", ![r].net = n]
    BY <1>10, <2>1 DEF Main!StopClient, RunRec, NetPC
  <2>3. run' \in [Main!Run -> RunRec]
    BY <1>1, <2>2, RunUpdate DEF RunPC
  <2>4. panicked' \in BOOLEAN
    BY <1>10 DEF Main!StopClient
  <2>5. QED BY <1>1, <1>2, <1>3, <1>10, <2>3, <2>4 DEF Main!StopClient
<1>11. QED
  BY <1>4, <1>5, <1>6, <1>8, <1>9, <1>10, TrpStep DEF Main!DesktopNext

(* Every step of a run keeps it followed.                                  *)
LEMMA RunFollowedStep == DesktopInv /\ Main!DesktopNext => RunFollowed'
<1> SUFFICES ASSUME DesktopInv, Main!DesktopNext PROVE RunFollowed'
  OBVIOUS
<1>1. /\ run \in [Main!Run -> RunRec] /\ cli \in Main!Run \cup {Main!None}
      /\ npc \in Main!Trp \cup {Main!None} /\ Main!None \notin Main!Run /\ Main!None \notin Main!Trp
  <2>1. Main!None \notin Main!Run /\ Main!None \notin Main!Trp
    BY CountAssumption DEF Main!None, Main!Run, Main!Trp
  <2>2. QED BY <2>1 DEF DesktopInv, Main!DesktopTypeOK, RunRec, RunPC, NetPC
<1>2. RunFollowed
  BY DEF DesktopInv
<1>3. ASSUME NEW r \in Main!Run, cli = r, UNCHANGED <<cli, npc>>,
             \A q \in Main!Run \ {r} : run'[q] = run[q],
             run'[r].net \notin {"none", "done"} => run[r].net \notin {"none", "done"},
             run[r].pc \in {"loop", "synced", "stop"}, run'[r].pc \in {"loop", "synced", "stop"}
      PROVE  RunFollowed'
  BY <1>2, <1>3 DEF RunFollowed
<1>4. ASSUME NEW r \in Main!Run, UNCHANGED <<cli, npc>>,
             \A q \in Main!Run \ {r} : run'[q] = run[q],
             run'[r].pc = run[r].pc,
             run'[r].net \notin {"none", "done"} => run[r].net \notin {"none", "done"}
      PROVE  RunFollowed'
  BY <1>1, <1>2, <1>4 DEF RunFollowed
<1>5. ASSUME NEW r \in Main!Run, NEW p \in RunPC, Main!Step(r, p)
      PROVE  /\ run'[r].pc = p /\ run'[r].net = run[r].net
             /\ \A q \in Main!Run \ {r} : run'[q] = run[q]
  <2>1. run[r] \in RunRec
    BY <1>1
  <2>2. QED BY <1>1, <1>5, <2>1 DEF Main!Step, RunRec
<1>6. ASSUME Main!Connect PROVE RunFollowed'
  <2>1. PICK r \in Main!Run :
          /\ cli = Main!None /\ cli' = r /\ npc' = npc
          /\ run' = [run EXCEPT ![r] = [pc |-> "loop", net |-> "new", vip |-> FALSE, stopped |-> FALSE]]
    BY <1>6 DEF Main!Connect
  <2>2. run'[r].pc = "loop" /\ \A q \in Main!Run \ {r} : run'[q] = run[q]
    BY <1>1, <2>1
  <2>3. npc = Main!None
    BY <1>2, <2>1 DEF RunFollowed
  <2>4. QED BY <1>1, <1>2, <2>1, <2>2, <2>3 DEF RunFollowed
<1>7. ASSUME Main!Disconnect PROVE RunFollowed'
  <2>1. /\ stop \in Main!Run /\ run' = [run EXCEPT ![stop].stopped = TRUE] /\ UNCHANGED <<cli, npc>>
    BY <1>7 DEF Main!Disconnect, DesktopInv, Main!DesktopTypeOK
  <2>2. run[stop] \in RunRec
    BY <1>1, <2>1
  <2>3. /\ run'[stop].pc = run[stop].pc /\ run'[stop].net = run[stop].net
        /\ \A q \in Main!Run \ {stop} : run'[q] = run[q]
    BY <1>1, <2>1, <2>2 DEF RunRec
  <2>4. QED BY <1>4, <2>1, <2>3
<1>8. ASSUME NEW r \in Main!Run,
             Main!RunBegins(r) \/ Main!Online(r) \/ Main!RunFails(r) \/ Main!RunReturns(r)
      PROVE  RunFollowed'
  <2>1. run[r] \in RunRec
    BY <1>1
  <2>2. /\ run'[r].pc = run[r].pc
        /\ \A q \in Main!Run \ {r} : run'[q] = run[q]
        /\ run'[r].net \notin {"none", "done"} => run[r].net \notin {"none", "done"}
    <3>1. CASE Main!RunBegins(r)
      BY <1>1, <2>1, <3>1 DEF Main!RunBegins, RunRec
    <3>2. CASE Main!Online(r)
      BY <1>1, <2>1, <3>2 DEF Main!Online, RunRec
    <3>3. CASE Main!RunFails(r)
      BY <1>1, <2>1, <3>3 DEF Main!RunFails, RunRec
    <3>4. CASE Main!RunReturns(r)
      BY <1>1, <2>1, <3>4 DEF Main!RunReturns, RunRec
    <3>5. QED BY <1>8, <3>1, <3>2, <3>3, <3>4
  <2>3. UNCHANGED <<cli, npc>>
    BY <1>8 DEF Main!RunBegins, Main!Online, Main!RunFails, Main!RunReturns
  <2>4. QED BY <1>4, <2>2, <2>3
<1>9. ASSUME NEW r \in Main!Run, Main!SyncFromClient(r) PROVE RunFollowed'
  <2>1. run[r].pc = "loop" /\ Main!Step(r, "synced") /\ UNCHANGED <<cli, npc>>
    BY <1>9 DEF Main!SyncFromClient, Main!Sits
  <2>2. cli = r
    BY <1>2, <2>1 DEF RunFollowed
  <2>3. run'[r].pc = "synced" /\ run'[r].net = run[r].net /\ \A q \in Main!Run \ {r} : run'[q] = run[q]
    BY <1>5, <2>1 DEF RunPC
  <2>4. QED BY <1>3, <2>1, <2>2, <2>3
<1>10. ASSUME NEW r \in Main!Run, Main!SyncStarts(r) PROVE RunFollowed'
  <2>1. run[r].pc = "synced" /\ Main!Step(r, "loop") /\ cli' = cli
    BY <1>10 DEF Main!SyncStarts, Main!Sits
  <2>2. cli = r
    BY <1>2, <2>1 DEF RunFollowed
  <2>3. run'[r].pc = "loop" /\ run'[r].net = run[r].net /\ \A q \in Main!Run \ {r} : run'[q] = run[q]
    BY <1>5, <2>1 DEF RunPC
  <2>4. QED BY <1>1, <1>2, <2>1, <2>2, <2>3 DEF RunFollowed
<1>11. ASSUME NEW r \in Main!Run, Main!StopClient(r) PROVE RunFollowed'
  <2>1. run[r].pc = "loop" /\ UNCHANGED <<cli, npc>>
    BY <1>11 DEF Main!StopClient, Main!Sits
  <2>2. cli = r
    BY <1>2, <2>1 DEF RunFollowed
  <2>3. run[r] \in RunRec
    BY <1>1
  <2>4. /\ run'[r].pc = "stop" /\ \A q \in Main!Run \ {r} : run'[q] = run[q]
        /\ run'[r].net \notin {"none", "done"} => run[r].net \notin {"none", "done"}
    BY <1>1, <1>11, <2>3 DEF Main!StopClient, RunRec
  <2>5. QED BY <1>3, <2>1, <2>2, <2>4
<1>12. ASSUME NEW r \in Main!Run, Main!StopStopsNpc(r) \/ Main!DoneStopsNpc(r) PROVE RunFollowed'
  <2>1. /\ run[r].pc \in {"stop", "loop"} /\ npc' = Main!None /\ cli' = cli
        /\ \/ Main!Step(r, "wait")
           \/ Main!Step(r, "clear") /\ run[r].net = "done"
    BY <1>12 DEF Main!StopStopsNpc, Main!DoneStopsNpc, Main!StopNpc, Main!Sits
  <2>2. cli = r
    BY <1>2, <2>1 DEF RunFollowed
  <2>3. /\ run'[r].net = run[r].net /\ \A q \in Main!Run \ {r} : run'[q] = run[q]
        /\ run'[r].pc = "wait" \/ (run'[r].pc = "clear" /\ run[r].net = "done")
    BY <1>5, <2>1 DEF RunPC
  <2>4. QED BY <1>1, <1>2, <2>1, <2>2, <2>3 DEF RunFollowed
<1>13. ASSUME NEW r \in Main!Run, Main!WaitDone(r) \/ Main!DoneClears(r) PROVE RunFollowed'
  <2>1. run[r].pc \in {"wait", "clear"} /\ npc' = npc
    BY <1>13 DEF Main!WaitDone, Main!DoneClears, Main!Sits
  <2>2. cli = r /\ npc = Main!None
    BY <1>2, <2>1 DEF RunFollowed
  <2>3. cli' = Main!None /\ \E p \in {"show", "look"} : Main!Step(r, p)
    BY <1>13, <2>2 DEF Main!WaitDone, Main!DoneClears
  <2>4. run[r].net \in {"none", "done"}
    BY <1>2, <1>13 DEF RunFollowed, Main!WaitDone, Main!DoneClears, Main!Sits
  <2>5. /\ run'[r].net = run[r].net /\ run'[r].pc \in {"show", "look"}
        /\ \A q \in Main!Run \ {r} : run'[q] = run[q]
    BY <1>5, <2>3 DEF RunPC
  <2>6. \A q \in Main!Run \ {r} : run[q].pc \notin {"loop", "synced", "stop", "wait", "clear"}
    BY <1>2, <2>2 DEF RunFollowed
  <2>7. QED BY <1>1, <1>2, <2>1, <2>2, <2>3, <2>4, <2>5, <2>6 DEF RunFollowed
<1>14. ASSUME NEW r \in Main!Run, Main!Show(r) \/ Main!DoneLooks(r) PROVE RunFollowed'
  <2>1. /\ run[r].pc \in {"show", "look"} /\ UNCHANGED <<cli, npc>>
        /\ \E p \in {"show", "gone"} : Main!Step(r, p)
    BY <1>14 DEF Main!Show, Main!DoneLooks, Main!Sits
  <2>2. /\ run'[r].net = run[r].net /\ run'[r].pc \in {"show", "gone"}
        /\ \A q \in Main!Run \ {r} : run'[q] = run[q]
    BY <1>5, <2>1 DEF RunPC
  <2>3. npc # Main!None => cli \in Main!Run \ {r}
    BY <1>1, <1>2, <2>1 DEF RunFollowed
  <2>4. QED BY <1>1, <1>2, <2>1, <2>2, <2>3 DEF RunFollowed
<1>15. ASSUME NEW t \in Main!Trp,
              Main!Start(t) \/ Main!Retry(t) \/ Main!Dial(t) \/ Main!MainEnds(t)
       PROVE  RunFollowed'
  BY <1>2, <1>15, TrpStep DEF RunFollowed, DesktopInv
<1>16. QED
  BY <1>6, <1>7, <1>8, <1>9, <1>10, <1>11, <1>12, <1>13, <1>14, <1>15 DEF Main!DesktopNext

LEMMA DesktopStep == DesktopInv /\ Main!DesktopNext => DesktopInv'
BY DesktopTypes, RunFollowedStep DEF DesktopInv

LEMMA DesktopInvKeeps == DesktopInv => Main!OneNetwork
BY DEF DesktopInv, RunFollowed, Main!OneNetwork

-----------------------------------------------------------------------------
(* All of them.  The parts that do not take part keep what they have.      *)

LEMMA SettingsStill == SettingsInv /\ UNCHANGED settingsVars => SettingsInv'
BY DEF settingsVars, SettingsInv, Saved!SettingsTypeOK, OneWriter, RefusedIsPast, CredentialsIssued,
       Saved!At

LEMMA NatStill == NatInv /\ UNCHANGED natVars => NatInv'
BY DEF natVars, NatInv, Flow!NatTypeOK, SameFlows, Flow!Old

LEMMA GuiStill == GuiInv /\ UNCHANGED guiVars => GuiInv'
BY DEF guiVars, GuiInv, Gui!GuiTypeOK, Gui!OneLoop, Gui!MemoryIsFile

LEMMA DesktopStill == DesktopInv /\ UNCHANGED desktopVars => DesktopInv'
BY DEF desktopVars, DesktopInv, Main!DesktopTypeOK, RunFollowed

Inv == PushInv /\ SettingsInv /\ DesktopInv /\ GuiInv /\ NatInv

LEMMA InvInit == ProgramsInit => Inv
BY PushInit, SettingsInitInv, DesktopInitInv, GuiInitInv, NatInitInv DEF ProgramsInit, Inv

LEMMA PushStep == PushInv /\ [Next]_vars => PushInv'
BY PushTypes, OnItsWayStep DEF PushInv

(* What a step of the composition is for each part.                        *)
LEMMA EachPart ==
    ASSUME [ProgramsNext]_programsVars
    PROVE  /\ [Next]_vars
           /\ Saved!SettingsNext \/ UNCHANGED settingsVars
           /\ Main!DesktopNext \/ UNCHANGED desktopVars
           /\ Gui!GuiNext \/ UNCHANGED guiVars
           /\ Flow!NatNext \/ UNCHANGED natVars
<1>1. CASE ProgramsNext
  BY <1>1 DEF ProgramsNext, OthersStill
<1>2. CASE UNCHANGED programsVars
  BY <1>2 DEF programsVars
<1>3. QED BY <1>1, <1>2

LEMMA InvStep == Inv /\ [ProgramsNext]_programsVars => Inv'
BY EachPart, PushStep, SettingsStep, SettingsStill, DesktopStep, DesktopStill, GuiStep, GuiStill,
   NatStep, NatStill
   DEF Inv

(* The inductive invariant of the five parts that are proved about.        *)
THEOREM Invariant == ProgramsSpec => []Inv
BY InvInit, InvStep, PTL DEF ProgramsSpec

(* Every part's state has the type of its counterpart in the code; of the  *)
(* queues of the devices (Device.msgCh in internal/server/server.go) this  *)
(* includes that none grows beyond its capacity.  The checksums of packets *)
(* are sums over a sequence, which the runs check.                         *)
THEOREM TypesCorrect == ProgramsSpec => [](part # "packets" => ProgramTypes)
<1>1. Inv => (part # "packets" => ProgramTypes)
  BY DEF Inv, PushInv, SettingsInv, DesktopInv, GuiInv, NatInv, ProgramTypes
<1>2. QED BY Invariant, <1>1, PTL

(* No device misses a push (Push and broadcast in                          *)
(* internal/server/control.go, the catch-up in server.go:500): for any     *)
(* number of requests of the administration page that overlap, of devices  *)
(* that join, leave and start anew, of crashes of the server and of        *)
(* failures of its disk.                                                   *)
THEOREM PushReachesAll == ProgramsSpec => []NobodyMissesPush
<1>1. Inv => NobodyMissesPush
  BY PushInvMisses DEF Inv
<1>2. QED BY Invariant, <1>1, PTL

(* When the administration page sends one request at a time, the server's  *)
(* settings file is whole at every moment and has every push that returned *)
(* without an error (writeJSON, store.go:47-49); and the file of the       *)
(* desktop program is whole unless two of its writers have raced           *)
(* (internal/config/config.go:115).                                        *)
THEOREM FilesSafe == ASSUME OneRequest PROVE ProgramsSpec => []FilesKept
<1>1. ProgramsInit => Inv /\ FileInv
  BY InvInit, PushInit DEF ProgramsInit
<1>2. Inv /\ FileInv /\ [ProgramsNext]_programsVars => (Inv /\ FileInv)'
  BY OneRequest, InvStep, EachPart, FileStep DEF Inv, PushInv
<1>3. Inv /\ FileInv => FilesKept
  BY FileInvKeeps, SettingsInvKeeps DEF Inv, FilesKept
<1>4. QED BY <1>1, <1>2, <1>3, PTL DEF ProgramsSpec

(* The NPC window's file holds what its memory holds, but for a call that  *)
(* is about to save (app_bindings.go:199); and a client that was refused   *)
(* does not present that credential again (client.go:386), whatever races, *)
(* crashes and failures of its file there were.                            *)
THEOREM SettingsHold == ProgramsSpec => []SettingsTrue
<1>1. Inv => SettingsTrue
  BY SettingsInvKeeps DEF Inv, GuiInv, SettingsTrue
<1>2. QED BY Invariant, <1>1, PTL

(* The desktop program has one network at a time and an NPS client only    *)
(* beside it (bridge.go:72, 147); a client that is switched on in the NPC  *)
(* window has one loop, and one that is off has none                       *)
(* (app_bindings.go:515), however the calls of the window interleave with  *)
(* the goroutines they have started.                                       *)
THEOREM OneAtATime == ProgramsSpec => []SingleNetwork
<1>1. Inv => SingleNetwork
  BY DesktopInvKeeps DEF Inv, GuiInv, SingleNetwork
<1>2. QED BY Invariant, <1>1, PTL

(* A flow of the client's NAT that is in use is known, under a port the    *)
(* visitor has called (nat.go:161), whatever sets of rules the server      *)
(* sends meanwhile.                                                        *)
THEOREM FlowsAreKept == ProgramsSpec => [](part # "packets" => FlowsSafe)
<1>1. Inv => (part # "packets" => FlowsSafe)
  BY NatInvKeeps DEF Inv, FlowsSafe
<1>2. QED BY Invariant, <1>1, PTL
=============================================================================
