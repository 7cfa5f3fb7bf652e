---------------------------- MODULE MCDrmDevice -----------------------------
(***************************************************************************)
(* DrmDevice for TLC: two probes of one function, the second possible      *)
(* while a file still holds the first, two modes, a failing call.          *)
(***************************************************************************)
EXTENDS DrmDevice

CONSTANTS x1, x2, v1, v2
MCDevs == {x1, x2}
MCModes == {v1, v2}
MCSetups == {<<TRUE, "msix">>}
=============================================================================
