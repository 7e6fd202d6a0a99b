---------------------------- MODULE MCWriteCache ----------------------------
(* Instances of WriteCache for TLC: one record and two fixed-size variables.*)
EXTENDS WriteCache

CONSTANTS v1, v2, v3, d1, d2

MCVars == {v1, v2, v3}
MCRecordVars == {v1}
MCFrames == {0, 1}
MCDecomps == {d1, d2}

\* Each variable is written with one decomposition, shared or its own.
SharedDecomp == [v \in MCVars |-> {d1}]
SharedDecompOfTwo == [v \in MCVars |-> IF v = v3 THEN {} ELSE {d1}]
OwnDecomp == [v \in MCVars |-> IF v = v1 THEN {d2} ELSE {d1}]

\* Each variable is written with both decompositions.
TwoDecomps == [v \in MCVars |-> MCDecomps]
TwoDecompsOfTwo == [v \in MCVars |-> IF v = v3 THEN {} ELSE MCDecomps]
=============================================================================
