---------------------------- MODULE MCInputLanes ----------------------------
(* Two clients and two tabs, two fingers and one mouse button. *)
EXTENDS InputLanes, TLC
=============================================================================
