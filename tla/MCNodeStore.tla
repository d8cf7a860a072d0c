---------------------------- MODULE MCNodeStore -----------------------------
(* Small instances of NodeStore for TLC.                                   *)
EXTENDS NodeStore

(* An engine that is down, one with one or two models in either order, and *)
(* one that lists a model twice.                                           *)
Catalogs == {<< >>, <<"m1">>, <<"m1", "m2">>, <<"m2", "m1">>, <<"m1", "m1">>}
=============================================================================
