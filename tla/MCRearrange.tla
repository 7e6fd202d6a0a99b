---------------------------- MODULE MCRearrange -----------------------------
(***************************************************************************)
(* Four processes, two or three of which are I/O processes, and arrays of  *)
(* three by three cells, with each rearranger: maps that cover the array,     *)
(* leave holes, have elements without a cell or none at all, in and out of *)
(* order; blocks given by the caller, in one case too small ones; a        *)
(* dimension of length one more than the variables have.                   *)
(***************************************************************************)
EXTENDS Rearrange

System == INSTANCE IoSystem

MCVDims == <<3, 3>>
MCVars == {1, 2, 3}
MCRecVars == {1, 2}
MCWriteCalls == {<< <<1, 0>>, <<2, 1>> >>, << <<3, 0>> >>}

\* The I/O processes of PIOc_Init_Intracomm: every other process from the third on, three
\* in a row from the last on, and one.
Chosen(num, stride, base) ==
  LET ranks == System!Init_Intracomm(4, num, stride, base)[0].ioranks
  IN [i \in 0..(num - 1) |-> ranks[i + 1]]
TwoIo == Chosen(2, 2, 2)
ThreeIo == Chosen(3, 1, 3)
OneIo == Chosen(1, 3, 1)

ASSUME /\ System!ValidIntracomm(4, 2, 2, 2) /\ System!ValidIntracomm(4, 3, 1, 3)
       /\ System!ValidIntracomm(4, 1, 3, 1) /\ ~System!ValidIntracomm(4, 3, 2, 0)

Map(a, b, c, e) == 0 :> a @@ 1 :> b @@ 2 :> c @@ 3 :> e
Full == Map(<<1, 2>>, <<7, 8>>, <<3, 5>>, <<9, 4, 6>>)
Sparse == Map(<<5, 0, 2>>, <<4, 1>>, <<>>, <<6>>)
One == Map(<<0>>, <<>>, <<9>>, <<>>)
Rows == Map(<<1, 2, 3, 4>>, <<>>, <<0, 7, 8>>, <<6>>)

D(rearr, ioranks, map, gdims, box) ==
  [rearr |-> rearr, ioranks |-> ioranks, map |-> map, gdims |-> gdims, box |-> box,
   typesize |-> 4, blocksize |-> 8]
Block(s1, s2, c1, c2) == [start |-> <<s1, s2>>, count |-> <<c1, c2>>]

MCDecomps ==
  {D(rearr, TwoIo, map, MCVDims, <<>>) :
     rearr \in {"box", "subset", "contig"}, map \in {Full, Sparse, One}}
  \union
  {D(rearr, ThreeIo, Rows, MCVDims, <<>>) : rearr \in {"box", "subset", "contig"}}
  \union
  {D("box", TwoIo, Sparse, MCVDims, <<Block(0, 0, 3, 1), Block(0, 1, 3, 2)>>),
   D("box", TwoIo, Full, MCVDims, <<Block(0, 0, 3, 1), Block(0, 1, 3, 1)>>),
   D("contig", ThreeIo, Sparse, <<1, 3, 3>>, <<>>),
   D("subset", OneIo, Sparse, <<1, 3, 3>>, <<>>)}
=============================================================================
