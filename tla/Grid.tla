-------------------------------- MODULE Grid --------------------------------
(***************************************************************************)
(* Arrays, blocks of arrays, and how an array is split among the I/O       *)
(* processes (pioc_sc.cpp, and the helpers of rearr/pio_rearrange.cpp).    *)
(*                                                                         *)
(* An array is given by the sequence of its dimension lengths, outermost   *)
(* first.  Its cells, processes and buffer positions are numbered from 0.  *)
(* A region is a block [start, count] of an array together with loffset,   *)
(* the place of its data in the buffer of the I/O process.                 *)
(***************************************************************************)
EXTENDS Integers, FiniteSets, SequencesExt

Least(a, b) == IF a < b THEN a ELSE b
Greatest(a, b) == IF a > b THEN a ELSE b

\* The k-th smallest of a set of numbers, and the members of a list at places in S.
Nth(S, k) == CHOOSE i \in S : Cardinality({j \in S : j <= i}) = k
Selected(list, S) == [k \in 1..Cardinality(S) |-> list[Nth(S, k)]]

\* The number of cells between neighbours in each dimension.
ChunkSizes(dims) ==
  LET chunk[i \in DOMAIN dims] ==
        IF i = Len(dims) THEN 1 ELSE chunk[i + 1] * dims[i + 1]
  IN  chunk

GridSize(dims) == dims[1] * ChunkSizes(dims)[1]

\* The coordinates of cell idx.
DimList(dims, idx) ==
  [i \in DOMAIN dims |-> (idx \div ChunkSizes(dims)[i]) % dims[i]]

\* The cell with the given coordinates.
LIndex(coord, dims) ==
  LET upto[i \in 0..Len(dims)] ==
        IF i = 0 THEN 0 ELSE upto[i - 1] + coord[i] * ChunkSizes(dims)[i]
  IN  upto[Len(dims)]

\* The cells of a block in the order in which the I/O libraries take its data.
BlockCells(dims, start, count) ==
  [k \in 1..GridSize(count) |->
     LIndex([i \in DOMAIN dims |-> start[i] + DimList(count, k - 1)[i]], dims)]

\* Slip: the process whose share the remainder just reaches gets no extra one.
OneDimShort(gdim, ioprocs, rank) ==
  LET irank == rank % ioprocs
      lcount == gdim \div ioprocs
      remainder == gdim - lcount * ioprocs
      adds == irank + remainder - ioprocs
  IN  [start |-> lcount * irank + Greatest(adds, 0),
       count |-> IF adds > 0 THEN lcount + 1 ELSE lcount]

\* The share of one dimension of length gdim that process rank of ioprocs gets.
OneDim(gdim, ioprocs, rank) ==
  LET irank == rank % ioprocs
      lcount == gdim \div ioprocs
      remainder == gdim - lcount * ioprocs
      adds == irank + remainder - ioprocs
  IN  [start |-> lcount * irank + Greatest(adds, 0),
       count |-> IF adds >= 0 THEN lcount + 1 ELSE lcount]

(***************************************************************************)
(* The I/O processes CalcStartandCount puts to use: so many that each has  *)
(* a block of blocksize bytes, and a multiple of the product of the outer  *)
(* dimensions that are split into single layers.                           *)
(***************************************************************************)
UseIOProcs(dims, nio, typesize, blocksize) ==
  LET wanted == Greatest(1, Least((typesize * GridSize(dims)) \div blocksize, nio))
      product[i \in 0..Len(dims)] == IF i = 0 THEN 1 ELSE product[i - 1] * dims[i]
      layered == Max({i \in 0..Len(dims) : \A j \in 1..i : product[j] < wanted})
  IN  wanted - (wanted % product[layered])

(***************************************************************************)
(* The block of I/O process rank.  From the outermost dimension on, the    *)
(* processes that share a layer are split again among its parts, until a   *)
(* dimension is long enough for the processes that are left.               *)
(***************************************************************************)
CalcStartandCount(dims, nio, rank, typesize, blocksize) ==
  LET use == UseIOProcs(dims, nio, typesize, blocksize)
      \* ioprocs[i], tiorank[i]: the processes left at dimension i, and the rank among them
      ioprocs[i \in 1..Len(dims)] ==
        IF i = 1 THEN use
        ELSE IF dims[i - 1] < ioprocs[i - 1] THEN ioprocs[i - 1] \div dims[i - 1]
        ELSE ioprocs[i - 1]
      tiorank[i \in 1..Len(dims)] ==
        IF i = 1 THEN rank
        ELSE IF dims[i - 1] > 1 THEN rank % ioprocs[i]
        ELSE tiorank[i - 1]
      last == Min({i \in DOMAIN dims : dims[i] >= ioprocs[i]} \union {Len(dims) + 1})
      part == [i \in DOMAIN dims |->
                 IF i = last THEN OneDim(dims[i], ioprocs[i], tiorank[i])
                 ELSE IF i < last /\ dims[i] > 1
                        THEN OneDim(dims[i], dims[i], (rank * dims[i]) \div ioprocs[i])
                 ELSE [start |-> 0, count |-> dims[i]]]
  IN  IF rank < use
        THEN [start |-> [i \in DOMAIN dims |-> part[i].start],
              count |-> [i \in DOMAIN dims |-> part[i].count], loffset |-> 0]
        ELSE [start |-> [i \in DOMAIN dims |-> 0],
              count |-> [i \in DOMAIN dims |-> 0], loffset |-> 0]

\* The greatest common divisor of a set of positive numbers.
Gcd(S) == Max({x \in 1..Min(S) : \A n \in S : n % x = 0})

\* The lengths of the runs of consecutive numbers in a list.
RunLengths(list) ==
  LET cuts == {0, Len(list)} \union {i \in 1..Len(list) - 1 : list[i + 1] # list[i] + 1}
  IN  {Min({j \in cuts : j > i}) - i : i \in cuts \ {Len(list)}}

\* Slip: the length is that of the first message.
DataTypesOfFirst(msgs) ==
  LET runs == UNION {RunLengths(msgs[i]) : i \in {j \in DOMAIN msgs : msgs[j] # <<>>}}
      first == CHOOSE i \in DOMAIN msgs : msgs[i] # <<>>
      blocksize == IF runs = {} THEN 1 ELSE Gcd(RunLengths(msgs[first]))
  IN  [i \in DOMAIN msgs |->
         [k \in DOMAIN msgs[i] |->
            msgs[i][k - ((k - 1) % blocksize)] + ((k - 1) % blocksize)]]

(***************************************************************************)
(* The MPI data types for a family of messages, each a list of positions   *)
(* in one buffer: blocks of one length for all messages, the greatest      *)
(* common divisor of all runs, one at every blocksize-th position of the   *)
(* list.  Given as the lists of positions that the types describe.         *)
(***************************************************************************)
DataTypes(msgs) ==
  LET runs == UNION {RunLengths(msgs[i]) : i \in {j \in DOMAIN msgs : msgs[j] # <<>>}}
      blocksize == IF runs = {} THEN 1 ELSE Gcd(runs)
  IN  [i \in DOMAIN msgs |->
         [k \in DOMAIN msgs[i] |->
            msgs[i][k - ((k - 1) % blocksize)] + ((k - 1) % blocksize)]]
=============================================================================
