------------------------- MODULE MCBrowserConnection ------------------------
(***************************************************************************)
(* TLC instance of BrowserConnection: one caller and the event handler.     *)
(***************************************************************************)
EXTENDS BrowserConnection
=============================================================================
