--------------------------- MODULE MCServerProcess --------------------------
(***************************************************************************)
(* TLC instance of ServerProcess.                                          *)
(***************************************************************************)
EXTENDS ServerProcess

CONSTANTS s1, s2
MCServers == {s1, s2}
MCProfiles == {"profile", "other"}
=============================================================================
