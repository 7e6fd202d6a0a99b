----------------------------- MODULE MCReqBlocks -----------------------------
(* An instance of ReqBlocks for TLC: with a limit of 4, two requests may just *)
(* reach it, and one may exceed it alone.                                    *)
EXTENDS ReqBlocks

CONSTANTS p1, p2

MCProcs == {p1, p2}
MCReqSizes == {0, 2, 5}
=============================================================================
