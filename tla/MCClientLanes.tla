--------------------------- MODULE MCClientLanes ---------------------------
(***************************************************************************)
(* TLC instance of ClientLanes: lanes of capacity one or two, enough       *)
(* messages to overflow each, one pause and one resume.                    *)
(***************************************************************************)
EXTENDS ClientLanes
=============================================================================
