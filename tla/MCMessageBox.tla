--------------------------- MODULE MCMessageBox ---------------------------
(* Instances of MessageBox for TLC.                                        *)
EXTENDS MessageBox, TLC

CoreSymmetry == Permutations(Cores)
=============================================================================
