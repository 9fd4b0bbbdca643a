----------------------------- MODULE MCTabSession ----------------------------
(***************************************************************************)
(* TLC instance of TabSession.                                             *)
(***************************************************************************)
EXTENDS TabSession, TLC

CONSTANTS t1, t2, t3
MCTargets == {t1, t2, t3}
MCUrls == {"blank", "internal", "a"}
Blank == [t \in MCTargets |-> "blank"]
Session(urls, n) == [tabs |-> urls, active |-> n, fromSetup |-> FALSE]
FromSetup(urls, n) == [tabs |-> urls, active |-> n, fromSetup |-> TRUE]
MCSetupSessions == {"changed"}
MCBeginnings ==
    {[native |-> {t1}, page |-> Blank, file |-> Session(<<"a">>, 1)],
     [native |-> {}, page |-> Blank, file |-> FromSetup(<<"blank">>, 1)],
     [native |-> {t1, t2}, page |-> t1 :> "a" @@ t2 :> "internal" @@ Blank, file |-> Session(<<"a">>, 1)],
     [native |-> {t1, t2}, page |-> t1 :> "a" @@ t2 :> "a" @@ Blank, file |-> Session(<<"a", "a">>, 2)]}
=============================================================================
