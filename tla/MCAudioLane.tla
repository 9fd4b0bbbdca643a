----------------------------- MODULE MCAudioLane ----------------------------
(***************************************************************************)
(* TLC instance of AudioLane.                                              *)
(***************************************************************************)
EXTENDS AudioLane

CONSTANTS c1, c2
MCClients == {c1, c2}
=============================================================================
