---------------------------- MODULE MCDeviceTable ----------------------------
(***************************************************************************)
(* Instances of the device table for TLC.                                  *)
(***************************************************************************)
EXTENDS DeviceTableProps, TLC

Symmetric == Permutations(HWID) \cup Permutations(DeviceID)
=============================================================================
