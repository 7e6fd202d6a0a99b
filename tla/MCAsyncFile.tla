----------------------------- MODULE MCAsyncFile -----------------------------
(* Instances of AsyncFile for TLC.                                         *)
EXTENDS AsyncFile

CONSTANTS v1, v2, d1, d2, w1, w2

MCVars == {v1, v2}
MCRecordVar == {v1}
MCFrame == {1}
MCFrames == {0, 1}
MCDecomps == {d1, d2}
OneDecomp == {d1}

\* The variables share a decomposition, or have one each.
SharedDecomp == [v \in MCVars |-> d1]
OwnDecomp == [v \in MCVars |-> IF v = v1 THEN d1 ELSE d2]

OneWorker == {w1}
TwoWorkers == {w1, w2}
=============================================================================
