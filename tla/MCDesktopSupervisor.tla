------------------------- MODULE MCDesktopSupervisor ------------------------
(***************************************************************************)
(* TLC instance of DesktopSupervisor.                                      *)
(***************************************************************************)
EXTENDS DesktopSupervisor

CONSTANTS s1, s2, t1
MCServers == {s1, s2}
MCTimers == {t1}
=============================================================================
