----------------------------- MODULE MCAsyncPool -----------------------------
(* Instances of AsyncPool for TLC.                                         *)
EXTENDS AsyncPool

CONSTANTS o1, o2, o3, w1

MCOps == {o1, o2, o3}
OneWorker == {w1}
=============================================================================
