------------------------------- MODULE NpcGui -------------------------------
(***************************************************************************)
(* The npc desktop program (nps-master/cmd/npc/npc-gui/app_bindings.go).   *)
(* Every call of the page runs in a goroutine of its own.  ToggleClient    *)
(* starts a loop that makes an NPS client, runs it and makes the next, or  *)
(* cancels the loop; a monitor per client keeps what the page shows; the   *)
(* shortcuts, the settings and the last states share one file.             *)
(*                                                                         *)
(* One id.  Clients of the package client as in Desktop: a common variable *)
(* CloseClient and a Close that a connection in the making does not see.   *)
(***************************************************************************)
EXTENDS Integers, FiniteSets

CONSTANTS
    MaxLoop,  \* bound: the times a client is switched on
    MaxMade,  \* bound: the clients made
    Call,     \* bound: concurrent calls about the file
    Shortcut  \* what they add

None == 0
Loop == 1 .. MaxLoop
Made == 1 .. MaxMade

VARIABLES
    running,     \* running[id]: the loop whose cancel it is, or None
    clients,     \* clients[id], or None
    connected,   \* clientConnected[id]: "no entry", "false", "true"
    loop,        \* [Loop -> [pc, cancelled, of: the client it made]]
    made,        \* [Made -> [pc, once, ofLoop, seen: what its monitor knows]]
    CloseClient,
    shortcuts,   \* in memory
    store,       \* the file: [shortcuts, settings]
    settings,    \* the last settings that were saved
    call         \* [Call -> [pc, sc]]

guiVars == <<running, clients, connected, loop, made, CloseClient, shortcuts, store, settings, call>>
clientVars == <<running, clients, connected, loop, made, CloseClient>>
fileVars   == <<shortcuts, store, settings, call>>

GuiInit ==
    /\ running = None /\ clients = None /\ connected = "no entry"
    /\ loop = [l \in Loop |-> [pc |-> "none", cancelled |-> FALSE, of |-> None]]
    /\ made = [m \in Made |-> [pc |-> "none", once |-> FALSE, ofLoop |-> None, seen |-> FALSE]]
    /\ CloseClient = FALSE
    /\ shortcuts = {} /\ store = [shortcuts |-> {}, settings |-> 0] /\ settings = 0
    /\ call = [c \in Call |-> [pc |-> "idle", sc |-> {}]]

-----------------------------------------------------------------------------
(* ToggleClient and RemoveShortcut, under runningMu.                       *)

Shut(m)   == IF m = None THEN made ELSE [made EXCEPT ![m].once = TRUE]
ShutFlag(m) == CloseClient \/ (m # None /\ ~made[m].once)

(* Mutant of ToggleOn: does not look whether the client runs.              *)
ToggleOnTwice ==
    /\ \E l \in Loop :
          /\ loop[l].pc = "none" /\ \A k \in 1 .. l - 1 : loop[k].pc # "none"
          /\ running' = l
          /\ loop' = [loop EXCEPT ![l].pc = "top"]
    /\ connected' = "false"
    /\ UNCHANGED <<clients, made, CloseClient, fileVars>>

ToggleOn ==
    /\ running = None
    /\ \E l \in Loop :
          /\ loop[l].pc = "none" /\ \A k \in 1 .. l - 1 : loop[k].pc # "none"
          /\ running' = l
          /\ loop' = [loop EXCEPT ![l].pc = "top"]
    /\ connected' = "false"
    /\ UNCHANGED <<clients, made, CloseClient, fileVars>>

ToggleOff ==
    /\ running # None
    /\ loop' = [loop EXCEPT ![running].cancelled = TRUE]
    /\ running' = None /\ clients' = None /\ connected' = "no entry"
    /\ made' = Shut(clients) /\ CloseClient' = ShutFlag(clients)
    /\ UNCHANGED fileVars

-----------------------------------------------------------------------------
(* startNpcClientWithContext.                                              *)

Goes(l, pc) == loop[l].pc = pc

(* ctx.Done at the top or after Start: the status, which is the id's, ...  *)
Cancelled(l) ==
    /\ loop[l].pc \in {"top", "after"} /\ loop[l].cancelled
    /\ connected' = "no entry"
    /\ loop' = [loop EXCEPT ![l].pc = "leave"]
    /\ UNCHANGED <<running, clients, made, CloseClient, fileVars>>

(* ... and the client in the map, which may be a later loop's.             *)
Leave(l) ==
    /\ Goes(l, "leave")
    /\ clients' = None
    /\ made' = Shut(clients) /\ CloseClient' = ShutFlag(clients)
    /\ loop' = [loop EXCEPT ![l].pc = "gone"]
    /\ UNCHANGED <<running, connected, fileVars>>

(* After five seconds, or at first: the status, a new client, ...          *)
Again(l) ==
    /\ loop[l].pc \in {"top", "after"} /\ ~loop[l].cancelled
    /\ connected' = "false"
    /\ loop' = [loop EXCEPT ![l].pc = "make"]
    /\ UNCHANGED <<running, clients, made, CloseClient, fileVars>>

(* ... which goes into the map, with its monitor.                          *)
Make(l) ==
    /\ Goes(l, "make")
    /\ \E m \in Made :
          /\ made[m].pc = "none" /\ \A k \in 1 .. m - 1 : made[k].pc # "none"
          /\ made' = [made EXCEPT ![m].pc = "start", ![m].ofLoop = l]
          /\ clients' = m
          /\ loop' = [loop EXCEPT ![l].pc = "run", ![l].of = m]
    /\ UNCHANGED <<running, connected, CloseClient, fileVars>>

(* The goroutine that waits for ctx.Done.                                  *)
Watch(l) ==
    /\ Goes(l, "run") /\ loop[l].cancelled /\ ~made[loop[l].of].once
    /\ made' = Shut(loop[l].of) /\ CloseClient' = ShutFlag(loop[l].of)
    /\ UNCHANGED <<running, clients, connected, loop, fileVars>>

(* TRPClient.Start.                                                        *)
Start(m) ==
    /\ made[m].pc = "start"
    /\ made' = [made EXCEPT ![m].pc = "retry"]
    /\ CloseClient' = FALSE
    /\ UNCHANGED <<running, clients, connected, loop, fileVars>>

Retry(m) ==
    /\ made[m].pc = "retry"
    /\ made' = [made EXCEPT ![m].pc = IF CloseClient THEN "gone" ELSE "dial"]
    /\ UNCHANGED <<running, clients, connected, loop, CloseClient, fileVars>>

(* "zombie": connected after it was closed, when nothing will close it.    *)
Dial(m) ==
    /\ made[m].pc = "dial"
    /\ \/ made' = [made EXCEPT ![m].pc = "retry"]
       \/ made' = [made EXCEPT ![m].pc = IF made[m].once THEN "zombie" ELSE "main"]
    /\ UNCHANGED <<running, clients, connected, loop, CloseClient, fileVars>>

(* Closed, or the server is gone.                                          *)
MainEnds(m) ==
    /\ made[m].pc \in {"main", "zombie"}
    /\ made' = [made EXCEPT ![m].pc = "gone", ![m].once = TRUE]
    /\ CloseClient' = (CloseClient \/ ~made[m].once)
    /\ UNCHANGED <<running, clients, connected, loop, fileVars>>

Returned(l) ==
    /\ Goes(l, "run") /\ made[loop[l].of].pc = "gone"
    /\ loop' = [loop EXCEPT ![l].pc = "after"]
    /\ UNCHANGED <<running, clients, connected, made, CloseClient, fileVars>>

(* monitorFirstConnection: IsConnected, once true, stays true, for nothing *)
(* takes the signal back.                                                  *)
Monitor(m) ==
    /\ made[m].pc \in {"main", "zombie"} /\ ~loop[made[m].ofLoop].cancelled
    /\ ~made[m].seen
    /\ connected' = "true"
    /\ made' = [made EXCEPT ![m].seen = TRUE]
    /\ UNCHANGED <<running, clients, loop, CloseClient, fileVars>>

(* Five seconds without a connection.                                      *)
MonitorTimeout(m) ==
    /\ made[m].pc \in {"start", "retry", "dial"} /\ ~loop[made[m].ofLoop].cancelled
    /\ connected' = "false"
    /\ UNCHANGED <<running, clients, loop, made, CloseClient, fileVars>>

-----------------------------------------------------------------------------
(* The file, under shortcutsMu.                                            *)

(* addShortcut appends, unlocks ...                                        *)
AddShortcut(c, s) ==
    /\ call[c].pc = "idle" /\ s \notin shortcuts
    /\ shortcuts' = shortcuts \cup {s}
    /\ call' = [call EXCEPT ![c] = [pc |-> "save", sc |-> {s}]]
    /\ UNCHANGED <<store, settings, clientVars>>

(* ... and saves.                                                          *)
SaveShortcuts(c) ==
    /\ call[c].pc = "save"
    /\ store' = [store EXCEPT !.shortcuts = shortcuts]
    /\ call' = [call EXCEPT ![c].pc = "done"]
    /\ UNCHANGED <<shortcuts, settings, clientVars>>

(* GetShortcuts reads the file again.                                      *)
LoadShortcuts ==
    /\ shortcuts # store.shortcuts
    /\ shortcuts' = store.shortcuts
    /\ UNCHANGED <<store, settings, call, clientVars>>

(* RemoveShortcut, of one that the page shows.                             *)
RemoveShortcut(s) ==
    /\ s \in shortcuts \cap store.shortcuts
    /\ shortcuts' = shortcuts \ {s}
    /\ store' = [store EXCEPT !.shortcuts = shortcuts']
    /\ UNCHANGED <<settings, call, clientVars>>

(* Mutant of SaveGuiSettings: writes what it read before it had the lock - *)
(* here, nothing.                                                          *)
SaveGuiSettingsOnly(n) ==
    /\ n # settings
    /\ store' = [shortcuts |-> {}, settings |-> n]
    /\ settings' = n
    /\ UNCHANGED <<shortcuts, call, clientVars>>

SaveGuiSettings(n) ==
    /\ n # settings
    /\ store' = [store EXCEPT !.settings = n]
    /\ settings' = n
    /\ UNCHANGED <<shortcuts, call, clientVars>>

GuiNext ==
    \/ ToggleOn \/ ToggleOff
    \/ \E l \in Loop : Cancelled(l) \/ Leave(l) \/ Again(l) \/ Make(l) \/ Watch(l) \/ Returned(l)
    \/ \E m \in Made : Start(m) \/ Retry(m) \/ Dial(m) \/ MainEnds(m) \/ Monitor(m) \/ MonitorTimeout(m)
    \/ \E c \in Call : (\E s \in Shortcut : AddShortcut(c, s)) \/ SaveShortcuts(c)
    \/ LoadShortcuts
    \/ \E s \in Shortcut : RemoveShortcut(s)
    \/ \E n \in {0, 1} : SaveGuiSettings(n)

GuiSpec == GuiInit /\ [][GuiNext]_guiVars

-----------------------------------------------------------------------------
(* Types (app_bindings.go:45).                                             *)
GuiTypeOK ==
    /\ running \in Loop \cup {None} /\ clients \in Made \cup {None}
    /\ connected \in {"no entry", "false", "true"}
    /\ loop \in [Loop -> [pc : {"none", "top", "make", "run", "after", "leave", "gone"},
                          cancelled : BOOLEAN, of : Made \cup {None}]]
    /\ made \in [Made -> [pc : {"none", "start", "retry", "dial", "main", "zombie", "gone"}, once : BOOLEAN,
                          ofLoop : Loop \cup {None}, seen : BOOLEAN]]
    /\ CloseClient \in BOOLEAN
    /\ shortcuts \subseteq Shortcut /\ store \in [shortcuts : SUBSET Shortcut, settings : {0, 1}]
    /\ settings \in {0, 1}
    /\ call \in [Call -> [pc : {"idle", "save", "done"}, sc : SUBSET Shortcut]]

(* A client that is switched on has one loop that works for it, and only   *)
(* while it is switched on (app_bindings.go:515): whatever the loops that  *)
(* were cancelled still do, they leave that loop alone.                    *)
OneLoop ==
    {l \in Loop : loop[l].pc \notin {"none", "gone", "leave"} /\ ~loop[l].cancelled}
        = IF running = None THEN {} ELSE {running}

(* The file holds what the program knows, but for what a call is about to  *)
(* save: no save of one part loses another (app_bindings.go:199, "keeps    *)
(* settings and clientStates").                                            *)
MemoryIsFile ==
    /\ store.settings = settings
    /\ shortcuts # store.shortcuts => \E c \in Call : call[c].pc = "save"

(* What a call adds is in the file when the call is done.                  *)
AddedIsSaved ==
    [][\A c \in Call : SaveShortcuts(c) => call[c].sc \subseteq store'.shortcuts]_guiVars

(* The page says of a client that is switched off that it has stopped, and *)
(* nothing it made is connected for long (app_bindings.go:535).            *)
NoZombie == \A m \in Made : made[m].pc # "zombie"
=============================================================================
