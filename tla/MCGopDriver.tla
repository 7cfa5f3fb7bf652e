---------------------------- MODULE MCGopDriver ----------------------------
(***************************************************************************)
(* GopDriver for TLC: two modes, calls that fail at up to three places,    *)
(* and enough calls to start again after a failed stop.                    *)
(***************************************************************************)
EXTENDS GopDriver

CONSTANTS m1, m2
MCModes == {m1, m2}
=============================================================================
