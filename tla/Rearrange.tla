------------------------------ MODULE Rearrange ------------------------------
(***************************************************************************)
(* Writing and reading distributed arrays: from the arrays of the          *)
(* processes through the rearranger into the buffers of the I/O processes  *)
(* and from there block by block into the file, and back.  Models          *)
(* PIOc_write_darray_multi and PIOc_read_darray (pio_darray.cpp) with the  *)
(* functions of pio_darray_int.cpp that put and get the blocks.            *)
(*                                                                         *)
(* A call is collective.  The exchange of the elements is one step: that   *)
(* pio_swapm delivers what the two sides describe, whatever the order of   *)
(* the messages, is the subject of Swapm.  The I/O processes then put      *)
(* their data one by one, in every order that the I/O type allows.         *)
(***************************************************************************)
EXTENDS Rearrangers

CONSTANTS
  Decomps,      \* the decompositions that PIOc_InitDecomp is called with
  VDims,        \* the dimensions of the variables, but for the record dimension
  Vars,         \* the variables of the file
  RecVars,      \* those that have a record dimension
  NFrames,      \* bound on the records of a variable
  MaxWrites,    \* bound on the number of writes
  WriteCalls,   \* the sequences of <<variable, frame>> that are written together
  SerialFills   \* whether serial writes of several variables with unequal buffers are made

\* The processes of a decomposition, the maps of their elements, and the blocks.
WellFormed(d) ==
  /\ d.rearr \in {"box", "subset", "contig"}
  /\ d.typesize \in Nat \ {0} /\ d.blocksize \in Nat \ {0}
  /\ d.gdims \in Seq(Nat \ {0}) \ {<<>>}
  /\ NIo(d) \in Nat \ {0} /\ IoProcs(d) = 0..NIo(d) - 1
  /\ Cardinality(Procs(d)) \in Nat /\ Procs(d) = 0..Cardinality(Procs(d)) - 1
  /\ NIo(d) <= Cardinality(Procs(d))
  /\ \A q \in IoProcs(d) : d.ioranks[q] \in Procs(d)
  /\ \A q, r \in IoProcs(d) : d.ioranks[q] = d.ioranks[r] => q = r
  /\ \A p \in Procs(d) : d.map[p] \in Seq(0..GridSize(d.gdims))
  /\ d.box # <<>> =>
       \A r \in IoProcs(d) :
         /\ d.box[r + 1].start \in Seq(Nat) /\ Len(d.box[r + 1].start) = Len(d.gdims)
         /\ d.box[r + 1].count \in Seq(Nat) /\ Len(d.box[r + 1].count) = Len(d.gdims)

\* The decompositions are those that the code provides for: no cell is mapped twice
\* and some cell is, CONTIG has a cell for each I/O process, and the dimensions that
\* the variables lack come first and have length one.
ASSUME DecompsAssumption ==
  \A d \in Decomps :
    /\ WellFormed(d)
    /\ Mapped(d) # {}
    /\ \A x, y \in Mapped(d) : d.map[x[1]][x[2]] = d.map[y[1]][y[2]] => x = y
    /\ d.rearr = "contig" => GridSize(d.gdims) >= NIo(d)
    /\ \E n \in 0..Len(d.gdims) : d.gdims = [i \in 1..n |-> 1] \o VDims

NCells == GridSize(VDims)

INSTANCE DistValues

VARIABLES
  dist,         \* the decomposition in use
  desc,         \* its I/O descriptor
  file,         \* variable -> its cells, one record after the other
  op,           \* the write in progress
  got,          \* what the last call read, per process
  writes        \* the number of writes begun

vars == <<dist, desc, file, op, got, writes>>

IOTypes == {"netcdf", "netcdf4p", "pnetcdf", "hdf5"}
Idle == [targets |-> <<>>, todo |-> {}]

\* The decompositions that are initialised without an error, and their descriptors.
Valid == {d \in Decomps : Located(d)}
Descriptor == [d \in Valid |-> Rearranged(d)]
NoDescriptor == <<>>

(***************************************************************************)
(* The exchange of nvars variables: process t stores at rcv[t][s] what s   *)
(* has at snd[s][t], for one variable after the other.                     *)
(***************************************************************************)
Move(hop, nvars, src, dst) ==
  [t \in DOMAIN dst |->
     LET arrivals == UNION {{[at |-> hop.rcv[t][s][k], from |-> s, pos |-> hop.snd[s][t][k]] :
                               k \in DOMAIN hop.rcv[t][s]} : s \in DOMAIN src}
     IN  [j \in DOMAIN dst[t] |->
            LET hits == {h \in (0..nvars - 1) \X arrivals : j = h[1] * hop.rlen[t] + h[2].at + 1}
                hit == CHOOSE h \in hits : TRUE
            IN  IF hits = {} THEN dst[t][j]
                ELSE src[hit[2].from][hit[1] * hop.slen[hit[2].from] + hit[2].pos + 1]]]

Reversed(hop) == [snd |-> hop.rcv, rcv |-> hop.snd, slen |-> hop.rlen, rlen |-> hop.slen]

Blank(len, value) == [p \in DOMAIN len |-> [j \in 1..len[p] |-> value]]

\* From the processes to the I/O processes, and back.
CompToIo(nvars, array, iobuf) ==
  IF Len(desc.hops) = 1 THEN Move(desc.hops[1], nvars, array, iobuf)
  ELSE Move(desc.hops[2], nvars,
            Move(desc.hops[1], nvars, array,
                 Blank([p \in DOMAIN array |-> nvars * desc.hops[1].rlen[p]], Undefined)),
            iobuf)

IoToComp(iobuf, array) ==
  IF Len(desc.hops) = 1 THEN Move(Reversed(desc.hops[1]), 1, iobuf, array)
  ELSE Move(Reversed(desc.hops[1]), 1,
            Move(Reversed(desc.hops[2]), 1, iobuf, Blank(desc.hops[1].rlen, Undefined)),
            array)

(***************************************************************************)
(* The buffers                                                             *)
(***************************************************************************)
\* What the caller passes: one array after the other.
Array(targets, w) ==
  [p \in Procs(dist) |->
     [j \in 1..Len(targets) * Ndof(dist)[p] |->
        LET v == targets[(j - 1) \div Ndof(dist)[p] + 1][1]
            c == dist.map[p][((j - 1) % Ndof(dist)[p]) + 1] - 1
        IN  IF c >= 0 THEN Data(w, v, c) ELSE Junk]]

\* The length of the buffer for one variable.  The I/O process that does the
\* serial I/O for all has room for the longest.
BufLen(iotype, p) ==
  IF ~IsIo(dist, p) THEN 0
  ELSE IF iotype = "netcdf" /\ IoRank(dist, p) = 0 THEN desc.maxiobuflen
  ELSE desc.llen[IoRank(dist, p)]

\* The buffers before the exchange: with BOX and CONTIG full of fill values if some are needed.
FillBuf(targets, iotype) ==
  [p \in Procs(dist) |->
     LET len == BufLen(iotype, p)
     IN  [j \in 1..Len(targets) * len |->
            IF desc.needsfill /\ dist.rearr # "subset"
              THEN Fill(targets[(j - 1) \div len + 1][1])
              ELSE Undefined]]

(***************************************************************************)
(* The blocks                                                              *)
(***************************************************************************)
FramesOf(v) == IF v \in RecVars THEN 0..NFrames - 1 ELSE {0}
VarDims(v) == IF v \in RecVars THEN <<NFrames>> \o VDims ELSE VDims

\* spio_find_start_count: the block of the variable for a block of the
\* decomposition, whose first dimensions may be ones that the variable lacks.
StartCount(v, frame, region) ==
  LET n == Len(region.start)
      extra == n - Len(VDims)
      start == SubSeq(region.start, extra + 1, n)
      count == SubSeq(region.count, extra + 1, n)
  IN  IF v \in RecVars
        THEN [start |-> <<frame>> \o start, count |-> <<IF count[1] > 0 THEN 1 ELSE 0>> \o count]
        ELSE [start |-> start, count |-> count]

\* The cells of the blocks of an I/O process that the loop over them reaches.
Blocks(v, frame, regions, maxregions) ==
  [i \in 1..Least(Len(regions), maxregions) |->
     LET b == StartCount(v, frame, regions[i])
     IN  IF GridSize(b.count) = 0 THEN <<>> ELSE BlockCells(VarDims(v), b.start, b.count)]

(***************************************************************************)
(* Which place of the buffer belongs to which cell of the blocks that are  *)
(* written from it.                                                        *)
(***************************************************************************)
CellsOf(blocks) == UNION {Range(blocks[i]) : i \in DOMAIN blocks}

\* NetCDF-4 is given the place of every block in the buffer.
PlacesByOffset(blocks, offset) ==
  [c \in CellsOf(blocks) |->
     LET i == CHOOSE n \in DOMAIN blocks : c \in Range(blocks[n])
     IN  offset[i] + (CHOOSE k \in DOMAIN blocks[i] : blocks[i][k] = c) - 1]

\* PnetCDF is given a list of the blocks that are not empty, and takes their
\* cells from the buffer one after the other.
PlacesInSequence(blocks) ==
  LET list == FlattenSeq(blocks)
  IN  [c \in CellsOf(blocks) |-> (CHOOSE k \in DOMAIN list : list[k] = c) - 1]

\* HDF5 is given the union of the blocks, and takes their cells in the order
\* they have in the variable.
PlacesInFile(blocks) ==
  LET cells == CellsOf(blocks)
  IN  [c \in cells |-> Cardinality({x \in cells : x < c})]

\* Serial I/O writes block after block, each from where the one before it ended.
PlacesInSerial(blocks) ==
  LET ends[i \in 0..Len(blocks)] == IF i = 0 THEN 0 ELSE ends[i - 1] + Len(blocks[i])
  IN  PlacesByOffset(blocks, [i \in DOMAIN blocks |-> ends[i - 1]])

Regions(pass, r) == IF pass = "data" THEN desc.regions[r] ELSE desc.fill[r]
MaxRegions(pass) == IF pass = "data" THEN desc.maxregions ELSE desc.maxfill
BlocksOf(pass, r, v, frame) == Blocks(v, frame, Regions(pass, r), MaxRegions(pass))

\* SUBSET writes the cells without an element in a pass of its own.
HoleLen(r) == IF desc.needsfill THEN Len(Holes(dist, r)) ELSE 0
Passes == IF dist.rearr = "subset" /\ desc.needsfill THEN {"data", "fill"} ELSE {"data"}
PassLen(pass, r) == IF pass = "data" THEN desc.llen[r] ELSE HoleLen(r)

\* In serial I/O the blocks are sent to I/O process 0, but none if there is no data.
SentBlocks(pass, r, v, frame) ==
  IF PassLen(pass, r) > 0 THEN BlocksOf(pass, r, v, frame) ELSE <<>>

BufferPlaces(pass, r, v, frame, iotype) ==
  LET blocks == BlocksOf(pass, r, v, frame)
  IN  CASE iotype = "netcdf" -> PlacesInSerial(SentBlocks(pass, r, v, frame))
        [] iotype = "netcdf4p" ->
             PlacesByOffset(blocks, [i \in DOMAIN blocks |-> Regions(pass, r)[i].loffset])
        [] iotype = "pnetcdf" -> PlacesInSequence(blocks)
        [] iotype = "hdf5" -> PlacesInFile(blocks)

PassBuf(pass, r) ==
  IF pass = "data" THEN op.iobuf[dist.ioranks[r]]
  ELSE [j \in 1..Len(op.targets) * HoleLen(r) |-> Fill(op.targets[(j - 1) \div HoleLen(r) + 1][1])]

(***************************************************************************)
(* The calls                                                               *)
(***************************************************************************)
Init ==
  /\ dist = NoDecomp
  /\ desc = NoDescriptor
  /\ file = [v \in Vars |-> [a \in 0..GridSize(VarDims(v)) - 1 |-> Unwritten]]
  /\ op = Idle
  /\ got = <<>>
  /\ writes = 0

\* Without a block for every cell that is mapped the call fails and leaves nothing.
InitDecomp(d) ==
  /\ dist = NoDecomp
  /\ Located(d)
  /\ dist' = d
  /\ desc' = Descriptor[d]
  /\ got' = <<>>
  /\ UNCHANGED <<file, op, writes>>

FreeDecomp ==
  /\ dist # NoDecomp /\ op = Idle
  /\ dist' = NoDecomp
  /\ desc' = NoDescriptor
  /\ got' = <<>>
  /\ UNCHANGED <<file, op, writes>>

\* Serial I/O of several variables through a buffer longer than the data of
\* each, with fill values in it.
UnequalBuffers(iotype, targets) ==
  /\ iotype = "netcdf" /\ Len(targets) > 1
  /\ desc.needsfill /\ dist.rearr # "subset"
  /\ desc.llen[0] < desc.maxiobuflen

BeginWrite(iotype, targets) ==
  /\ dist # NoDecomp /\ op = Idle
  /\ writes < MaxWrites
  /\ UnequalBuffers(iotype, targets) => SerialFills
  /\ writes' = writes + 1
  /\ op' = [targets |-> targets, iotype |-> iotype,
            iobuf |-> CompToIo(Len(targets), Array(targets, writes'), FillBuf(targets, iotype)),
            todo |-> Passes \X IoProcs(dist)]
  /\ got' = <<>>
  /\ UNCHANGED <<dist, desc, file>>

(***************************************************************************)
(* The order of the puts: in serial I/O process 0 writes for one I/O       *)
(* process after the other, the data first; NetCDF-4 and HDF5 writes are   *)
(* collective, so that the fill values come after all data; PnetCDF's are  *)
(* requests that are carried out in any order.                             *)
(***************************************************************************)
MayPut(pass, r) ==
  CASE op.iotype = "netcdf" ->
         \A x \in op.todo : x = <<pass, r>> \/ (pass = "data" /\ x[1] = "fill") \/ (x[1] = pass /\ r < x[2])
    [] op.iotype = "pnetcdf" -> TRUE
    [] OTHER -> pass = "fill" => \A x \in op.todo : x[1] = "fill"

Put(pass, r) ==
  /\ <<pass, r>> \in op.todo
  /\ MayPut(pass, r)
  /\ LET places == [i \in DOMAIN op.targets |->
                      BufferPlaces(pass, r, op.targets[i][1], op.targets[i][2], op.iotype)]
         Hits(v, c) == {i \in DOMAIN op.targets : op.targets[i][1] = v /\ c \in DOMAIN places[i]}
     IN  file' = [v \in Vars |-> [c \in DOMAIN file[v] |->
                    IF Hits(v, c) = {} THEN file[v][c]
                    ELSE LET i == Max(Hits(v, c))
                         IN  PassBuf(pass, r)[(i - 1) * PassLen(pass, r) + places[i][c] + 1]]]
  /\ op' = [op EXCEPT !.todo = @ \ {<<pass, r>>}]
  /\ UNCHANGED <<dist, desc, got, writes>>

EndWrite ==
  /\ op # Idle /\ op.todo = {}
  /\ op' = Idle
  /\ UNCHANGED <<dist, desc, file, got, writes>>

\* The blocks of a variable that are read, and the buffer they are read into.
ReadInto(buf, v, places) ==
  [j \in DOMAIN buf |->
     LET c == {x \in DOMAIN places : places[x] = j - 1}
     IN  IF c = {} THEN buf[j] ELSE file[v][Max(c)]]

\* NetCDF-4 reads the first block to the beginning of the buffer.
ReadByOffset(v, frame, r, buf) ==
  LET blocks == BlocksOf("data", r, v, frame)
      offset == [i \in DOMAIN blocks |-> IF i = 1 THEN 0 ELSE desc.regions[r][i].loffset]
  IN  ReadInto(buf, v, PlacesByOffset(blocks, offset))

ReadInSequence(v, frame, r, buf) ==
  ReadInto(buf, v, PlacesInSequence(BlocksOf("data", r, v, frame)))

\* In serial I/O process 0 reads for the others and then for itself, all into its
\* own buffer.  (For a process without data it reads the blocks before once more.)
ReadForOthers(v, frame, buf) ==
  LET n == NIo(dist)
      after[i \in 0..n] ==
        IF i = 0 THEN buf
        ELSE ReadInto(after[i - 1], v, PlacesInSerial(SentBlocks("data", i % n, v, frame)))
  IN  after

\* What an I/O process receives from process 0, which keeps what it read last.
ReadSerial(r, after) ==
  IF r = 0 THEN after[NIo(dist)] ELSE SubSeq(after[r], 1, desc.llen[r])

ReadIoBuf(v, frame, iotype) ==
  LET empty == Blank([p \in Procs(dist) |-> BufLen(iotype, p)], Undefined)
      after == ReadForOthers(v, frame, empty[dist.ioranks[0]])
  IN  [p \in Procs(dist) |->
         LET r == IoRank(dist, p)
         IN  CASE ~IsIo(dist, p) -> empty[p]
               [] iotype = "netcdf" -> ReadSerial(r, after)
               [] iotype = "netcdf4p" -> ReadByOffset(v, frame, r, empty[p])
               [] iotype = "pnetcdf" -> ReadInSequence(v, frame, r, empty[p])]

Read(v, frame, iotype) ==
  /\ dist # NoDecomp /\ op = Idle
  /\ got' = IoToComp(ReadIoBuf(v, frame, iotype), Blank(Ndof(dist), Untouched))
  /\ UNCHANGED <<dist, desc, file, op, writes>>

Next ==
  \/ \E d \in Decomps : InitDecomp(d)
  \/ FreeDecomp
  \/ \E iotype \in IOTypes, targets \in WriteCalls : BeginWrite(iotype, targets)
  \/ \E x \in op.todo : Put(x[1], x[2])
  \/ EndWrite
  \/ \E v \in Vars, iotype \in IOTypes \ {"hdf5"} :
       \E frame \in FramesOf(v) : Read(v, frame, iotype)

Spec == Init /\ [][Next]_vars

-----------------------------------------------------------------------------
(***************************************************************************)
(* Properties                                                              *)
(***************************************************************************)

(***************************************************************************)
(* Both sides of every message describe the same number of cells, all of   *)
(* them inside the buffers, and no two elements arrive at one place:       *)
(* create_mpi_datatypes builds the types of the two sides from different   *)
(* lists and with different block lengths, and MPI checks none of this.    *)
(***************************************************************************)
HopFits(hop) ==
  /\ \A s, t \in DOMAIN hop.slen :
       /\ Len(hop.snd[s][t]) = Len(hop.rcv[t][s])
       /\ \A k \in DOMAIN hop.snd[s][t] : hop.snd[s][t][k] \in 0..hop.slen[s] - 1
       /\ \A k \in DOMAIN hop.rcv[t][s] : hop.rcv[t][s][k] \in 0..hop.rlen[t] - 1
  /\ \A t \in DOMAIN hop.rlen :
       \A x, y \in {z \in (DOMAIN hop.slen) \X (1..hop.rlen[t]) : z[2] <= Len(hop.rcv[t][z[1]])} :
         hop.rcv[t][x[1]][x[2]] = hop.rcv[t][y[1]][y[2]] => x = y
ExchangeFits == dist = NoDecomp \/ \A i \in DOMAIN desc.hops : HopFits(desc.hops[i])

(***************************************************************************)
(* The blocks of all I/O processes, those for fill values included, cover  *)
(* every cell of the array exactly once; the blocks of an I/O process lie  *)
(* in its buffer one after the other; and the loops over the blocks, which *)
(* go equally far on all I/O processes, reach all of them.                 *)
(***************************************************************************)
InTiles(d) ==
  LET Size(region) == GridSize(region.count)
      cells(region) == IF Size(region) = 0 THEN <<>> ELSE BlockCells(d.gdims, region.start, region.count)
      blocks == {b \in IoProcs(d) \X {"regions", "fill"} \X (1..GridSize(d.gdims)) :
                   b[3] <= Len(desc[b[2]][b[1]])}
      Covers(b, c) == c \in Range(cells(desc[b[2]][b[1]][b[3]]))
  IN  /\ \A c \in 0..GridSize(d.gdims) - 1 : Cardinality({b \in blocks : Covers(b, c)}) = 1
      /\ \A r \in IoProcs(d) :
           /\ Len(desc.regions[r]) <= desc.maxregions /\ Len(desc.fill[r]) <= desc.maxfill
           /\ \A i \in DOMAIN desc.regions[r] :
                desc.regions[r][i].loffset + Size(desc.regions[r][i])
                  = IF i = Len(desc.regions[r]) THEN desc.llen[r] ELSE desc.regions[r][i + 1].loffset
RegionsTile == dist = NoDecomp \/ InTiles(dist)

(***************************************************************************)
(* Whatever the rearranger, the I/O type and the order of the puts, every  *)
(* write and every read does what a caller of distributed arrays expects.  *)
(***************************************************************************)
Abs == INSTANCE DistArray WITH
  pending <- IF op = Idle THEN <<>> ELSE Promised(dist, op.targets, writes)
WritesAndReads == Abs!Spec

\* The fill values in a variable are its own.
FillsOwn == \A v, u \in Vars : \A c \in DOMAIN file[v] : file[v][c] = Fill(u) => u = v
=============================================================================
