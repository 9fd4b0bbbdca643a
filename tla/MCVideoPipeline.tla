-------------------------- MODULE MCVideoPipeline --------------------------
(***************************************************************************)
(* TLC instance of VideoPipeline.                                          *)
(***************************************************************************)
EXTENDS VideoPipeline
=============================================================================
