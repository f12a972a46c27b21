----------------------------- MODULE MCAdmission -----------------------------
(***************************************************************************)
(* Instances of Admission for TLC: every device reports the same name.     *)
(***************************************************************************)
EXTENDS Admission, TLC

SameName  == [h \in HWID |-> "box"]
Symmetric == Permutations(HWID) \cup Permutations(Conn) \cup Permutations(DeviceID)
=============================================================================
