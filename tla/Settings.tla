------------------------------ MODULE Settings ------------------------------
(***************************************************************************)
(* The settings of the desktop program and the credential of its device:   *)
(* App.cfg and config.json (internal/gui/bridge.go, app.go and             *)
(* internal/config/config.go), and how a client gets, uses and loses the   *)
(* credential (connectOnce in internal/client/client.go).                  *)
(*                                                                         *)
(* The window's calls, one at a time, save a copy of the settings after    *)
(* they have released App.mu; the client's goroutine saves the credential  *)
(* holding it.  Both write the one temporary file and rename it.  On       *)
(* Windows a file that somebody has open can be opened again but not       *)
(* renamed.                                                                *)
(***************************************************************************)
EXTENDS Integers

CONSTANTS
    Form,     \* what the page may submit
    MaxCred,  \* bound: credentials the server issues to this device
    MaxSave,  \* bound: calls that save
    MaxCrash  \* bound: times the program is killed

None == 0
Cred == 1 .. MaxCred
Default == [form |-> "default", cred |-> None]
Missing == [form |-> "no file", cred |-> None]
Torn    == [form |-> "torn", cred |-> None]     \* not JSON

Config == [form : Form \cup {"default"}, cred : Cred \cup {None}]
Writer == {"window", "client"}

VARIABLES
    cfg,      \* App.cfg
    file,     \* config.json
    tmp,      \* [data, open: the writers that have it open]
    save,     \* [Writer -> [pc: of Config.Save, data: the copy to write]]
    held,     \* the client's goroutine holds App.mu, over system calls
    net,      \* the client: [pc: of connectOnce, cred: c.cfg.DeviceKey]
    issued,   \* the credential the server has for the device
    blocked,  \* the server refuses to register it
    refused,  \* history: the credentials this client was refused with
    raced,    \* history: two writers had the temporary file at once
    kept,     \* history: the credential OnCredential saved, None before
    saves, crashes

settingsVars == <<cfg, file, tmp, save, held, net, issued, blocked, refused, raced, kept, saves, crashes>>
client == <<net, refused, kept>>
files  == <<file, tmp, save, raced>>

Idle    == [pc |-> "idle", data |-> Default]
Off     == [pc |-> "off", cred |-> None]

SettingsInit ==
    /\ cfg = Default /\ file = Missing /\ tmp = [data |-> Missing, open |-> {}]
    /\ save = [w \in Writer |-> Idle] /\ held = FALSE
    /\ net = Off /\ issued = 1 /\ blocked = FALSE
    /\ refused = {} /\ raced = FALSE /\ kept = None
    /\ saves = 0 /\ crashes = 0

-----------------------------------------------------------------------------
(* Config.Save: WriteFile opens and empties the file, writes, closes; then *)
(* Rename.  The writer whose data is shorter leaves the tail of the other. *)

At(w, pc) == save[w].pc = pc

(* Mutant of Open: there is no temporary file.                             *)
OpenInPlace(w) ==
    /\ At(w, "open")
    /\ file' = Torn
    /\ save' = [save EXCEPT ![w].pc = "write"]
    /\ tmp' = [data |-> Torn, open |-> tmp.open \cup {w}]
    /\ raced' = (raced \/ \E v \in Writer \ {w} : ~At(v, "idle") /\ ~At(v, "open"))
    /\ UNCHANGED <<cfg, held, client, issued, blocked, saves, crashes>>

Open(w) ==
    /\ At(w, "open")
    /\ tmp' = [data |-> Torn, open |-> tmp.open \cup {w}]
    /\ save' = [save EXCEPT ![w].pc = "write"]
    /\ raced' = (raced \/ \E v \in Writer \ {w} : ~At(v, "idle") /\ ~At(v, "open"))
    /\ UNCHANGED <<cfg, file, held, client, issued, blocked, saves, crashes>>

Write(w) ==
    /\ At(w, "write")
    /\ \E d \in {save[w].data} \cup (IF tmp.data = Torn THEN {} ELSE {Torn}) :
          tmp' = [data |-> d, open |-> tmp.open \ {w}]
    /\ save' = [save EXCEPT ![w].pc = "rename"]
    /\ UNCHANGED <<cfg, file, held, client, issued, blocked, raced, saves, crashes>>

(* It fails if the other has the file open or has renamed it; what follows *)
(* is the same: the window shows the error, the client logs it.            *)
Rename(w) ==
    /\ At(w, "rename")
    /\ IF tmp.open = {} /\ tmp.data # Missing
         THEN file' = tmp.data /\ tmp' = [tmp EXCEPT !.data = Missing]
         ELSE UNCHANGED <<file, tmp>>
    /\ save' = [save EXCEPT ![w] = Idle]
    /\ IF w = "client"
         THEN /\ held' = FALSE
              /\ net' = [net EXCEPT !.pc = "hello"]
              /\ kept' = IF file' = save[w].data THEN net.cred ELSE kept
         ELSE UNCHANGED <<held, net, kept>>
    /\ UNCHANGED <<cfg, issued, blocked, refused, raced, saves, crashes>>

-----------------------------------------------------------------------------
(* The window.                                                             *)

Free == ~held /\ At("window", "idle")

(* The page submits its own five fields.                                   *)
Submitted(f) == [form |-> f, cred |-> None]

(* SaveConfig: App.cfg becomes what the page submits.  (A form that is     *)
(* refused changes nothing.)                                               *)
SaveConfig ==
    /\ Free /\ saves < MaxSave
    /\ \E f \in Form :
          /\ cfg' = Submitted(f)
          /\ save' = [save EXCEPT !["window"] = [pc |-> "open", data |-> cfg']]
    /\ saves' = saves + 1
    /\ UNCHANGED <<file, tmp, held, client, issued, blocked, raced, crashes>>

(* SetAutoStart saves what there is, in a copy.                            *)
SetAutoStart ==
    /\ Free /\ saves < MaxSave
    /\ \E f \in Form :
          /\ cfg' = [cfg EXCEPT !.form = f]
          /\ save' = [save EXCEPT !["window"] = [pc |-> "open", data |-> cfg']]
    /\ saves' = saves + 1
    /\ UNCHANGED <<file, tmp, held, client, issued, blocked, raced, crashes>>

(* Connect: a new client with a copy of the credential.                    *)
Connect ==
    /\ Free /\ net.pc = "off"
    /\ net' = [pc |-> "hello", cred |-> cfg.cred]
    /\ refused' = {}
    /\ UNCHANGED <<cfg, files, held, issued, blocked, kept, saves, crashes>>

Disconnect ==
    /\ Free /\ net.pc \in {"hello", "online", "error"}
    /\ net' = Off
    /\ UNCHANGED <<cfg, files, held, issued, blocked, refused, kept, saves, crashes>>

-----------------------------------------------------------------------------
(* connectOnce.                                                            *)

(* Register: the server answers with the device's credential, by its HWID; *)
(* OnCredential takes App.mu to store and save it.                         *)
Register ==
    /\ net = [pc |-> "hello", cred |-> None] /\ ~blocked /\ ~held
    /\ cfg' = [cfg EXCEPT !.cred = issued]
    /\ save' = [save EXCEPT !["client"] = [pc |-> "open", data |-> cfg']]
    /\ held' = TRUE
    /\ net' = [pc |-> "save", cred |-> issued]
    /\ UNCHANGED <<file, tmp, raced, issued, blocked, refused, kept, saves, crashes>>

(* Registration refused is fatal: Run returns.                             *)
RegisterRefused ==
    /\ net = [pc |-> "hello", cred |-> None] /\ blocked
    /\ net' = [net EXCEPT !.pc = "error"]
    /\ UNCHANGED <<cfg, files, held, issued, blocked, refused, kept, saves, crashes>>

Welcome ==
    /\ net = [pc |-> "hello", cred |-> issued] /\ ~blocked
    /\ net' = [net EXCEPT !.pc = "online"]
    /\ UNCHANGED <<cfg, files, held, issued, blocked, refused, kept, saves, crashes>>

(* Mutant of Refused: the client keeps what it was refused with.           *)
RefusedKeeps ==
    /\ net.pc = "hello" /\ net.cred # None /\ (net.cred # issued \/ blocked)
    /\ refused' = refused \cup {net.cred}
    /\ UNCHANGED <<cfg, files, held, net, issued, blocked, kept, saves, crashes>>

(* The client forgets the credential, to register at its next attempt; the *)
(* program's settings keep it.                                             *)
Refused ==
    /\ net.pc = "hello" /\ net.cred # None /\ (net.cred # issued \/ blocked)
    /\ refused' = refused \cup {net.cred}
    /\ net' = [net EXCEPT !.cred = None]
    /\ UNCHANGED <<cfg, files, held, issued, blocked, kept, saves, crashes>>

(* The session is lost, and the next attempt begins.                       *)
Lost ==
    /\ net.pc = "online"
    /\ net' = [net EXCEPT !.pc = "hello"]
    /\ UNCHANGED <<cfg, files, held, issued, blocked, refused, kept, saves, crashes>>

-----------------------------------------------------------------------------
(* The server: it blocks the device and takes the credential back, or lets *)
(* it in again, under a new one (DeviceTable has the steps).               *)

Block ==
    /\ ~blocked
    /\ blocked' = TRUE
    /\ UNCHANGED <<cfg, files, held, client, issued, saves, crashes>>

Unblock ==
    /\ blocked /\ issued < MaxCred
    /\ blocked' = FALSE /\ issued' = issued + 1
    /\ UNCHANGED <<cfg, files, held, client, saves, crashes>>

-----------------------------------------------------------------------------
(* The program is killed and started again: New loads the file, or takes   *)
(* the defaults if there is none that can be read.                         *)
Restart ==
    /\ crashes < MaxCrash
    /\ crashes' = crashes + 1
    /\ cfg' = IF file \in {Missing, Torn} THEN Default ELSE file
    /\ save' = [w \in Writer |-> Idle] /\ held' = FALSE
    /\ tmp' = [tmp EXCEPT !.open = {}]
    /\ net' = Off /\ refused' = {}
    /\ UNCHANGED <<file, issued, blocked, raced, kept, saves>>

SettingsNext ==
    \/ \E w \in Writer : Open(w) \/ Write(w) \/ Rename(w)
    \/ SaveConfig \/ SetAutoStart \/ Connect \/ Disconnect
    \/ Register \/ RegisterRefused \/ Welcome \/ Refused \/ Lost
    \/ Block \/ Unblock \/ Restart

SettingsSpec == SettingsInit /\ [][SettingsNext]_settingsVars

-----------------------------------------------------------------------------
(* Types (config.go:30, app.go:19).                                        *)
SettingsTypeOK ==
    /\ cfg \in Config /\ file \in Config \cup {Missing, Torn}
    /\ tmp \in [data : Config \cup {Missing, Torn}, open : SUBSET Writer]
    /\ save \in [Writer -> [pc : {"idle", "open", "write", "rename"}, data : Config]]
    /\ issued \in Cred
    /\ net \in [pc : {"off", "hello", "save", "online", "error"}, cred : Cred \cup {None}]
    /\ refused \subseteq Cred /\ kept \in Cred \cup {None} /\ {held, blocked, raced} \subseteq BOOLEAN

(* A program that is killed while it saves finds the old settings or the   *)
(* new ones (config.go:115), unless the window and the client saved at the *)
(* same time: then the file can be one with the tail of the other, and the *)
(* settings are lost.                                                      *)
FileWhole == raced \/ file # Torn

(* A credential that was refused is not presented again: the client        *)
(* registers and gets the one that counts (client.go:386).                 *)
RefusedOnce == net.pc = "hello" => net.cred \notin refused

(* The credential that was saved when the device registered is there for   *)
(* the next start (bridge.go:99).                                          *)
CredentialKept == kept # None => cfg.cred # None
=============================================================================
