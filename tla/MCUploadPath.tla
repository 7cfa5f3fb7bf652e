---------------------------- MODULE MCUploadPath ----------------------------
(***************************************************************************)
(* UploadPath for TLC.  The modes are interchangeable: the driver only     *)
(* compares and copies active_mode.                                        *)
(***************************************************************************)
EXTENDS UploadPathInv, TLC

ModeSymmetry == Permutations(Modes)
=============================================================================
