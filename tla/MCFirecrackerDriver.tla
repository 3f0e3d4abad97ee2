------------------------- MODULE MCFirecrackerDriver -------------------------
(***************************************************************************)
(* Small instances of FirecrackerDriver for TLC.                            *)
(***************************************************************************)
EXTENDS FirecrackerDriver, TLC

AllModes == {"plain", "jailed", "daemonized"}
=============================================================================
