------------------------- MODULE MCBrowserManager -------------------------
(***************************************************************************)
(* TLC instance of BrowserManager.                                         *)
(***************************************************************************)
EXTENDS BrowserManager

CONSTANT c1
OneClient == {c1}
=============================================================================
