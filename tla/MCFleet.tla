------------------------------ MODULE MCFleet -------------------------------
(* Small instances of Fleet for TLC.                                       *)
EXTENDS Fleet, TLC

CONSTANTS d1, t1, n1, n2

(* One worker with a good token, which names itself otherwise.             *)
OneToken == (d1 :> t1)
OneName == (d1 :> n2)
OneSubject == (t1 :> n1)

FivePipes == 1 .. 5
=============================================================================
