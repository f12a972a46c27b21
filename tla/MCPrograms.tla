----------------------------- MODULE MCPrograms ----------------------------
(***************************************************************************)
(* The parts of this repository's own programs that share no state in the  *)
(* model, in one run of TLC: a behaviour is one of the part that Init      *)
(* chooses; the others stay in their initial states.                       *)
(***************************************************************************)
EXTENDS ConfigPush, TLC

CONSTANTS
    Form, MaxCred, MaxSave, MaxCrash,                             \* Settings
    MaxRun, MaxTrp,                                               \* Desktop
    MaxLoop, MaxMade, Call, Shortcut,                             \* NpcGui
    Origin, VPort, Target, MaxNow,                                \* Forwarding
    B, MaxData, self, broadcast, target, other, vPort, tPort      \* Packets

ASSUME FormAssumption  == {"torn", "no file"} \cap Form = {}
ASSUME CountAssumption ==
    /\ MaxCred \in Nat \ {0} /\ {MaxSave, MaxCrash} \subseteq Nat
    /\ {MaxRun, MaxTrp, MaxLoop, MaxMade, MaxNow} \subseteq Nat

VARIABLES
    part,
    cfg, configFile, configTmp, save, held, net, issued, blocked, refused, raced, kept, saves, crashes,
    cli, stop, status, run, npc, trp, CloseClient, panicked,
    running, clients, connected, loop, made, guiCloseClient, shortcuts, store, settings, call,
    now, rules, fwd, rev, revSeen, used, called,
    packet, place, sent

settingsVars == <<cfg, configFile, configTmp, save, held, net, issued, blocked, refused, raced, kept, saves,
                  crashes>>
desktopVars  == <<cli, stop, status, run, npc, trp, CloseClient, panicked>>
guiVars      == <<running, clients, connected, loop, made, guiCloseClient, shortcuts, store, settings, call>>
natVars      == <<now, rules, fwd, rev, revSeen, used, called>>
packetVars   == <<packet, place, sent>>

Saved == INSTANCE Settings WITH file <- configFile, tmp <- configTmp
Main  == INSTANCE Desktop
Gui   == INSTANCE NpcGui WITH CloseClient <- guiCloseClient
Flow  == INSTANCE Forwarding
Pack  == INSTANCE Packets

Part == {"push", "settings", "desktop", "gui", "nat", "packets"}

ProgramsInit ==
    /\ part \in Part
    /\ Init /\ Saved!SettingsInit /\ Main!DesktopInit /\ Gui!GuiInit /\ Flow!NatInit /\ Pack!PacketInit

OthersStill ==
    /\ UNCHANGED part
    /\ IF part = "push" THEN TRUE ELSE UNCHANGED vars
    /\ IF part = "settings" THEN TRUE ELSE UNCHANGED settingsVars
    /\ IF part = "desktop" THEN TRUE ELSE UNCHANGED desktopVars
    /\ IF part = "gui" THEN TRUE ELSE UNCHANGED guiVars
    /\ IF part = "nat" THEN TRUE ELSE UNCHANGED natVars
    /\ IF part = "packets" THEN TRUE ELSE UNCHANGED packetVars

ProgramsNext ==
    /\ OthersStill
    /\ \/ part = "push" /\ Next
       \/ part = "settings" /\ Saved!SettingsNext
       \/ part = "desktop" /\ Main!DesktopNext
       \/ part = "gui" /\ Gui!GuiNext
       \/ part = "nat" /\ Flow!NatNext
       \/ part = "packets" /\ Pack!PacketNext

programsVars == <<part, vars, settingsVars, desktopVars, guiVars, natVars, packetVars>>

ProgramsSpec == ProgramsInit /\ [][ProgramsNext]_programsVars

-----------------------------------------------------------------------------
(* The types of the part that takes part.                                  *)
ProgramTypes ==
    /\ part = "push" => TypeOK
    /\ part = "settings" => Saved!SettingsTypeOK
    /\ part = "desktop" => Main!DesktopTypeOK
    /\ part = "gui" => Gui!GuiTypeOK
    /\ part = "nat" => Flow!NatTypeOK
    /\ part = "packets" => Pack!PacketTypeOK

(* A program that is killed at any moment finds a file it can read: the    *)
(* server its settings (store.go:47-49), the desktop program its own       *)
(* (config.go:115), but for the two writers that config.Save lets overlap.  *)
(* And a push that was saved is there after a restart (store.go:15).       *)
FilesKept ==
    /\ part = "push" => FileWhole /\ PushSurvives
    /\ part = "settings" => Saved!FileWhole

(* What a program goes by is what it has been told: the NPC window's file  *)
(* holds what its memory holds, but for a call that is about to save       *)
(* (app_bindings.go:199), and a client that was refused does not present   *)
(* the credential again that it has also on file (client.go:386).          *)
SettingsTrue ==
    /\ part = "gui" => Gui!MemoryIsFile
    /\ part = "settings" => Saved!RefusedOnce

(* The desktop program has one network at a time, and an NPS client only   *)
(* beside it (bridge.go:72, 147); the NPC window has one loop for a client *)
(* that is switched on and none for one that is off (app_bindings.go:515). *)
SingleNetwork ==
    /\ part = "desktop" => Main!OneNetwork
    /\ part = "gui" => Gui!OneLoop

(* A forwarded flow is known as long as it is used, under a port the       *)
(* visitor has called (nat.go:161), and every packet rewritten on the way  *)
(* is one its receiver accepts, with the data it was sent with             *)
(* (nat.go:286, icmp.go:34).                                               *)
FlowsSafe ==
    /\ part = "nat" => Flow!FlowsKept
    /\ part = "packets" => Pack!PacketAccepted
=============================================================================
