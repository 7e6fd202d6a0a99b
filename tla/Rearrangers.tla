----------------------------- MODULE Rearrangers -----------------------------
(***************************************************************************)
(* The three rearrangers (rearr/pio_rearrange.cpp, rearr/pio_rearr_contig):*)
(* what PIOc_InitDecomp computes for a decomposition.                      *)
(*                                                                         *)
(* A decomposition d has the fields                                        *)
(*   rearr            "box", "subset" or "contig"                          *)
(*   ioranks          I/O process (0..nio-1) -> its process (0..np-1)      *)
(*   map              process -> its elements: the number of the cell of   *)
(*                    each, counted from 1, 0 for an element without cell  *)
(*   gdims            the lengths of the dimensions of the array           *)
(*   box              the block of each I/O process, <<>> if not given     *)
(*   typesize, blocksize  bytes of a cell, and PIOc_set_blocksize's value  *)
(*                                                                         *)
(* The result is what the I/O descriptor holds:                            *)
(*   llen, regions    per I/O process: the length of its buffer and the    *)
(*                    blocks of the array that are in it                   *)
(*   maxiobuflen, maxregions  how far the loops over them go, which is the *)
(*                    same on all I/O processes                            *)
(*   needsfill, fill, maxfill  whether cells are left without data, and    *)
(*                    (SUBSET) the blocks of these per I/O process         *)
(*   hops             the exchanges that take the elements to the I/O      *)
(*                    processes: snd[s][t], rcv[t][s] are the positions    *)
(*                    that s sends to t, and that t stores them in; slen,  *)
(*                    rlen the distance of two variables in either buffer  *)
(***************************************************************************)
EXTENDS Grid, TLC

Procs(d) == DOMAIN d.map
IoProcs(d) == DOMAIN d.ioranks
NIo(d) == Cardinality(IoProcs(d))
IsIo(d, p) == \E r \in IoProcs(d) : d.ioranks[r] = p
IoRank(d, p) == CHOOSE r \in IoProcs(d) : d.ioranks[r] = p
Ndof(d) == [p \in Procs(d) |-> Len(d.map[p])]

\* The elements of process p that have a cell.
Elements(d, p) ==
  Selected([k \in DOMAIN d.map[p] |-> [from |-> p, pos |-> k - 1, cell |-> d.map[p][k] - 1]],
           {k \in DOMAIN d.map[p] : d.map[p][k] > 0})

\* Their positions in the buffer of the process, and those of the ones that stay in a list.
Positions(list) == [k \in DOMAIN list |-> list[k].pos]

MaxOf(f) == Max({0} \union {f[r] : r \in DOMAIN f})
Mapped(d) ==
  {x \in Procs(d) \X (1..MaxOf(Ndof(d))) : x[2] <= Len(d.map[x[1]]) /\ d.map[x[1]][x[2]] > 0}
NoRegion(d) == [start |-> [i \in DOMAIN d.gdims |-> 0], count |-> [i \in DOMAIN d.gdims |-> 0], loffset |-> 0]

\* No message between a pair of processes.
Nothing(d) == [s \in Procs(d) |-> [t \in Procs(d) |-> <<>>]]

(***************************************************************************)
(* BOX: every I/O process has one block of the array, computed or given by *)
(* the caller.                                                             *)
(***************************************************************************)
Boxes(d) ==
  [r \in IoProcs(d) |->
     IF d.box # <<>> THEN [start |-> d.box[r + 1].start, count |-> d.box[r + 1].count, loffset |-> 0]
     ELSE CalcStartandCount(d.gdims, NIo(d), r, d.typesize, d.blocksize)]

Holds(d, region, cell) ==
  \A i \in DOMAIN d.gdims :
    DimList(d.gdims, cell)[i] \in region.start[i]..region.start[i] + region.count[i] - 1

\* Every cell that is mapped is in a block; if not, the call fails.
Located(d) ==
  d.rearr = "box" =>
    \A e \in Mapped(d) : \E r \in IoProcs(d) : Holds(d, Boxes(d)[r], d.map[e[1]][e[2]] - 1)

\* The elements that p sends to I/O process r: those in no block before its own.
BoxSent(d) ==
  LET region == Boxes(d)
  IN  [p \in Procs(d) |-> [r \in IoProcs(d) |->
         Selected(Elements(d, p),
                  {k \in DOMAIN Elements(d, p) :
                     r = Min({q \in IoProcs(d) : Holds(d, region[q], Elements(d, p)[k].cell)})})]]

\* Where r stores them: their places in its block, which the processes tell it.
BoxStored(d, r) ==
  LET region == Boxes(d)[r]
      Place(cell) == LIndex([i \in DOMAIN d.gdims |-> DimList(d.gdims, cell)[i] - region.start[i]],
                            region.count)
      sent == BoxSent(d)
  IN  [p \in Procs(d) |-> [k \in DOMAIN sent[p][r] |-> Place(sent[p][r][k].cell)]]

\* The types of both sides.
BoxHop(d, llen) ==
  LET sent == BoxSent(d)
      stype == [p \in Procs(d) |-> DataTypes([r \in IoProcs(d) |-> Positions(sent[p][r])])]
      rtype == [r \in IoProcs(d) |-> DataTypes(BoxStored(d, r))]
  IN  [snd |-> [s \in Procs(d) |-> [t \in Procs(d) |->
                  IF IsIo(d, t) THEN stype[s][IoRank(d, t)] ELSE <<>>]],
       rcv |-> [t \in Procs(d) |-> IF IsIo(d, t) THEN rtype[IoRank(d, t)] ELSE Nothing(d)[t]],
       slen |-> Ndof(d),
       rlen |-> [t \in Procs(d) |-> IF IsIo(d, t) THEN llen[IoRank(d, t)] ELSE 0]]

\* Whether there are cells that no element is mapped to.
NeedsFill(d) == Cardinality(Mapped(d)) < GridSize(d.gdims)

BoxRearr(d) ==
  LET region == Boxes(d)
      llen == [r \in IoProcs(d) |-> GridSize(region[r].count)]
  IN  [llen |-> llen, regions |-> [r \in IoProcs(d) |-> <<region[r]>>],
       maxregions |-> 1, maxiobuflen |-> MaxOf(llen), needsfill |-> NeedsFill(d),
       fill |-> [r \in IoProcs(d) |-> <<>>], maxfill |-> 0,
       hops |-> <<BoxHop(d, llen)>>]

(***************************************************************************)
(* SUBSET and CONTIG: the processes are divided into one group for each    *)
(* I/O process.  The elements of a group, no two of which have the same    *)
(* cell, are sorted by their cells.                                        *)
(***************************************************************************)
Members(d, color) == [r \in IoProcs(d) |-> {p \in Procs(d) : color[p] = r}]

Sorted(d, members) ==
  LET elements == UNION {Range(Elements(d, p)) : p \in members}
      cells == {e.cell : e \in elements}
  IN  [k \in 1..Cardinality(cells) |-> CHOOSE e \in elements : e.cell = Nth(cells, k)]

\* The elements of each group, sorted.
Groups(d, color) == [r \in IoProcs(d) |-> Sorted(d, Members(d, color)[r])]

\* The places in a list of the elements that come from process p.
Places(list, p) ==
  Selected([k \in DOMAIN list |-> k], {k \in DOMAIN list : list[k].from = p})

(***************************************************************************)
(* SUBSET: the processes that are not I/O processes are divided evenly in  *)
(* the order of their ranks, the first groups getting the extra ones.      *)
(***************************************************************************)
SubsetColor(d) ==
  LET np == Cardinality(Procs(d))
      each == np \div NIo(d)
      extra == np % NIo(d)
      larger == (each + 1) * extra
  IN  [p \in Procs(d) |->
         IF IsIo(d, p) THEN IoRank(d, p)
         ELSE IF p < larger THEN p \div (each + 1)
         ELSE (p - larger) \div each + extra]

(***************************************************************************)
(* The block that the first elements of a list of cells form: from the     *)
(* innermost dimension on, as many copies of what there is already as      *)
(* follow in the list and fit into the array.                              *)
(***************************************************************************)
FindRegion(dims, cells) ==
  LET start == DimList(dims, cells[1])
      Fits(i, size, stride) ==
        \A j \in 1..size : /\ i * size + j <= Len(cells)
                           /\ cells[i * size + j] = cells[j] + i * stride
      grown[i \in DOMAIN dims] ==
        LET size == IF i = Len(dims) THEN 1 ELSE grown[i + 1].size * grown[i + 1].count
            room == dims[i] - start[i]
        IN  [size |-> size,
             count |-> Min({room} \union {n \in 1..room : ~Fits(n, size, ChunkSizes(dims)[i])})]
  IN  [start |-> start, count |-> [i \in DOMAIN dims |-> grown[i].count]]

\* A list of cells divided into blocks.
GetRegions(dims, cells) ==
  LET after[n \in 0..Len(cells)] ==
        IF n = Len(cells) THEN <<>>
        ELSE LET region == FindRegion(dims, SubSeq(cells, n + 1, Len(cells)))
             IN  <<[start |-> region.start, count |-> region.count, loffset |-> n]>>
                   \o after[n + GridSize(region.count)]
  IN  after[0]

\* The cells that no element is mapped to are divided in slices of the array.
Holes(d, r) ==
  LET slice == OneDim(GridSize(d.gdims), NIo(d), r)
      mapped == {d.map[e[1]][e[2]] - 1 : e \in Mapped(d)}
  IN  Selected([k \in 1..slice.count |-> slice.start + k - 1],
               {k \in 1..slice.count : slice.start + k - 1 \notin mapped})

\* A process sends its elements to the first process of its group in the order of the
\* list, and tells nobody about those without a cell.
SubsetHop(d, sorted) ==
  LET color == SubsetColor(d)
      places == [p \in Procs(d) |-> Places(sorted[color[p]], p)]
  IN  [snd |-> [s \in Procs(d) |-> [t \in Procs(d) |->
                  IF t = d.ioranks[color[s]]
                    THEN DataTypes(<<[k \in DOMAIN places[s] |->
                                        sorted[color[s]][places[s][k]].pos]>>)[1]
                    ELSE <<>>]],
       rcv |-> [t \in Procs(d) |-> [s \in Procs(d) |->
                  IF t = d.ioranks[color[s]]
                    THEN [k \in DOMAIN places[s] |-> places[s][k] - 1]
                    ELSE <<>>]],
       slen |-> Ndof(d),
       rlen |-> [t \in Procs(d) |-> IF IsIo(d, t) THEN Len(sorted[IoRank(d, t)]) ELSE 0]]

\* The blocks that fill values are written to.
FillRegions(d) ==
  [r \in IoProcs(d) |-> IF NeedsFill(d) THEN GetRegions(d.gdims, Holes(d, r)) ELSE <<>>]

SubsetRearr(d) ==
  LET sorted == Groups(d, SubsetColor(d))
      llen == [r \in IoProcs(d) |-> Len(sorted[r])]
      cells(r) == [k \in DOMAIN sorted[r] |-> sorted[r][k].cell]
      regions == [r \in IoProcs(d) |->
                    IF llen[r] = 0 THEN <<NoRegion(d)>> ELSE GetRegions(d.gdims, cells(r))]
      fill == FillRegions(d)
  IN  [llen |-> llen, regions |-> regions,
       maxregions |-> MaxOf([r \in IoProcs(d) |-> Len(regions[r])]),
       maxiobuflen |-> MaxOf(llen), needsfill |-> NeedsFill(d),
       fill |-> fill, maxfill |-> MaxOf([r \in IoProcs(d) |-> Len(fill[r])]),
       hops |-> <<SubsetHop(d, sorted)>>]

(***************************************************************************)
(* CONTIG: each I/O process has a contiguous piece of the array, of equal  *)
(* lengths but for the last, which takes what is left.                     *)
(***************************************************************************)
ContigColor(d) ==
  [p \in Procs(d) |->
     IF IsIo(d, p) THEN IoRank(d, p)
     ELSE Least(p \div (Cardinality(Procs(d)) \div NIo(d)), NIo(d) - 1)]

IoChunk(d) == GridSize(d.gdims) \div NIo(d)

\* Slip: the cells left over have no I/O process.
ToProcUnbounded(d, cell) == cell \div IoChunk(d)

ToProc(d, cell) == Least(cell \div IoChunk(d), NIo(d) - 1)

DecompStart(d, r) == r * IoChunk(d)
DecompEnd(d, r) ==
  IF r = NIo(d) - 1 THEN GridSize(d.gdims) ELSE DecompStart(d, r) + IoChunk(d)

(***************************************************************************)
(* A piece of the array divided into blocks: from a cell on, as much of    *)
(* the last dimension in which its coordinate is not 0 (the first one if   *)
(* all are), or if not even one layer of that, of the next inner one that  *)
(* has one.                                                                *)
(***************************************************************************)
ContigRangeSize(dims, off, left) ==
  LET chunk == ChunkSizes(dims)
      last == Max({1} \union {i \in DOMAIN dims : DimList(dims, off)[i] # 0})
      inner == Min({i \in last..Len(dims) : left >= chunk[i]})
      room == IF inner = last THEN dims[last] - DimList(dims, off)[last] ELSE dims[inner]
  IN  Least(left \div chunk[inner], room) * chunk[inner]

\* The lengths of a block of len cells: those of its leading dimensions that are 0 become 1.
OffCount(dims, len) ==
  LET chunk == ChunkSizes(dims)
      digit == [i \in DOMAIN dims |->
                  IF i = 1 THEN len \div chunk[1] ELSE (len \div chunk[i]) % dims[i]]
      first == Min({i \in DOMAIN dims : digit[i] # 0})
      last == Min({i \in DOMAIN dims : len % chunk[i] = 0})
  IN  [i \in DOMAIN dims |->
         IF i < first THEN 1 ELSE IF i <= last THEN digit[i] ELSE dims[i]]

ContigRegions(d, r) ==
  LET begin == DecompStart(d, r)
      end == DecompEnd(d, r)
      from[off \in begin..end] ==
        IF off = end THEN <<>>
        ELSE LET size == ContigRangeSize(d.gdims, off, end - off)
             IN  <<[start |-> DimList(d.gdims, off), count |-> OffCount(d.gdims, size),
                    loffset |-> off - begin]>> \o from[off + size]
  IN  from[begin]

\* The place of element e in the buffer of the root of its group.
AggPlace(list, e) == (CHOOSE k \in DOMAIN list : list[k] = e) - 1

\* From a process to the root of its group, which sorts what arrives.
AggregateHop(d, agg) ==
  LET color == ContigColor(d)
  IN  [snd |-> [s \in Procs(d) |-> [t \in Procs(d) |->
                  IF t = d.ioranks[color[s]] THEN Positions(Elements(d, s)) ELSE <<>>]],
       rcv |-> [t \in Procs(d) |-> [s \in Procs(d) |->
                  IF t = d.ioranks[color[s]]
                    THEN [k \in DOMAIN Elements(d, s) |-> AggPlace(agg[color[s]], Elements(d, s)[k])]
                    ELSE <<>>]],
       slen |-> Ndof(d),
       rlen |-> [p \in Procs(d) |-> IF IsIo(d, p) THEN Len(agg[IoRank(d, p)]) ELSE 0]]

\* The places in the buffer of a root of the elements whose cells I/O process q has,
\* and where q stores them.
PassedOn(d, list, q) ==
  Selected([k \in DOMAIN list |-> k - 1], {k \in DOMAIN list : ToProc(d, list[k].cell) = q})

StoredAt(d, list, q) ==
  LET passed == PassedOn(d, list, q)
  IN  [k \in DOMAIN passed |-> list[passed[k] + 1].cell - DecompStart(d, q)]

\* From the root to the I/O processes that have the cells.
ToIoHop(d, agg) ==
  [snd |-> [s \in Procs(d) |-> [t \in Procs(d) |->
              IF IsIo(d, s) /\ IsIo(d, t) THEN PassedOn(d, agg[IoRank(d, s)], IoRank(d, t)) ELSE <<>>]],
   rcv |-> [t \in Procs(d) |-> [s \in Procs(d) |->
              IF IsIo(d, s) /\ IsIo(d, t) THEN StoredAt(d, agg[IoRank(d, s)], IoRank(d, t)) ELSE <<>>]],
   slen |-> [p \in Procs(d) |-> IF IsIo(d, p) THEN Len(agg[IoRank(d, p)]) ELSE 0],
   rlen |-> [t \in Procs(d) |->
               IF IsIo(d, t) THEN DecompEnd(d, IoRank(d, t)) - DecompStart(d, IoRank(d, t)) ELSE 0]]

ContigRearr(d) ==
  LET agg == Groups(d, ContigColor(d))
      regions == [r \in IoProcs(d) |-> ContigRegions(d, r)]
  IN  [llen |-> [r \in IoProcs(d) |-> DecompEnd(d, r) - DecompStart(d, r)], regions |-> regions,
       maxregions |-> MaxOf([r \in IoProcs(d) |-> Len(regions[r])]),
       maxiobuflen |-> GridSize(d.gdims), needsfill |-> TRUE,
       fill |-> [r \in IoProcs(d) |-> <<>>], maxfill |-> 0,
       hops |-> <<AggregateHop(d, agg), ToIoHop(d, agg)>>]

Rearranged(d) ==
  CASE d.rearr = "box" -> BoxRearr(d)
    [] d.rearr = "subset" -> SubsetRearr(d)
    [] d.rearr = "contig" -> ContigRearr(d)
=============================================================================
