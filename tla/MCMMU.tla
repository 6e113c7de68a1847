------------------------------- MODULE MCMMU -------------------------------
(* Small instances of MMU for TLC. *)
EXTENDS MMU

U(n) == [seg |-> "useg", n |-> n]
K(n) == [seg |-> "kseg", n |-> n]

MCPages == {U(3), K(2), [seg |-> "hole", n |-> 2], [seg |-> "cvmseg", n |-> 2]}
MCVectorPage == [seg |-> "unmapped", n |-> 1]

\* An invalid and a writable page; two larger read-only pages shared by all
\* address spaces.
ReadOnly(f) == [pfn |-> f, v |-> TRUE, d |-> FALSE, g |-> TRUE]
MCMaps == {InitMap, [size |-> 2, lo |-> [h \in {0, 1} |-> ReadOnly(9 - 3 * h)]]}

MCStatuses == {[ksu |-> k, exl |-> FALSE, erl |-> FALSE] : k \in {"kernel", "user"}}
=============================================================================
