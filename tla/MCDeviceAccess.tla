--------------------------- MODULE MCDeviceAccess ---------------------------
(***************************************************************************)
(* TLC instance of DeviceAccess.  Four identifiers let one device log in   *)
(* and open two sockets, or be revoked and paired again with a ticket of   *)
(* its former life still around; two requests let a candidate of an        *)
(* earlier invitation meet the present one.                                *)
(***************************************************************************)
EXTENDS DeviceAccess
=============================================================================
