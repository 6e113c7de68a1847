------------------------------- MODULE MCLLSC -------------------------------
(* Instances of LLSC for TLC.                                              *)
EXTENDS LLSC, TLC

CONSTANTS c1, c2, t1, t2

OneCore == t1 :> c1 @@ t2 :> c1
TwoCores == t1 :> c1 @@ t2 :> c2
=============================================================================
