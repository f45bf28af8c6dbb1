----------------------------- MODULE MCPlayground ---------------------------
(***************************************************************************)
(* Playground on small instances: two addresses, two engines.              *)
(***************************************************************************)
EXTENDS Playground, TLC

CONSTANTS t1, t2, laya, kev

TwoThreads == {t1, t2}
OneThread == {t1}
Engines == {laya, kev}
OneEach == <<laya, kev>>
AnyThread == Permutations(Threads)
=============================================================================
