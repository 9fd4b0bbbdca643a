---------------------------- MODULE MCTabCapture ----------------------------
(***************************************************************************)
(* TLC instance of TabCapture: two starts, so that the second meets what   *)
(* the first left in the sockets and in Capture.                           *)
(***************************************************************************)
EXTENDS TabCapture
=============================================================================
