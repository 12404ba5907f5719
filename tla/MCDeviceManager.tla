-------------------------- MODULE MCDeviceManager ---------------------------
(* Small instances of the device manager: 3 device indices, and 2 or 3 of them  *)
(* in use at a time.                                                          *)
EXTENDS DeviceManager, TLC

\* Uids are only compared, so permuting them changes nothing.
UidSymmetry == Permutations(Uids)
=============================================================================
