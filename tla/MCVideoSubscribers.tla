------------------------- MODULE MCVideoSubscribers -------------------------
(***************************************************************************)
(* TLC instance of VideoSubscribers: two clients, so that frames flow      *)
(* while one of them leaves.                                               *)
(***************************************************************************)
EXTENDS VideoSubscribers, TLC

CONSTANTS c1, c2
MCClients == {c1, c2}
Symmetry == Permutations(MCClients)
=============================================================================
