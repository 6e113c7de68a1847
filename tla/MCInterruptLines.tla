------------------------- MODULE MCInterruptLines -------------------------
(* Instances of InterruptLines for TLC.                                    *)
EXTENDS InterruptLines, TLC

SourceSymmetry == Permutations(Sources)
=============================================================================
