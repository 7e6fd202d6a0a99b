---------------------------- MODULE AdiosConvert ----------------------------
(***************************************************************************)
(* The tool adios2pio-nm (tools/adios2pio-nm/adios2pio-nm-lib.cxx): it     *)
(* makes a NetCDF file of an ADIOS file by replaying the writes, with the  *)
(* library, on processes of its own.  Each of them takes some of the I/O   *)
(* groups of the writers, and their maps and arrays for its own.           *)
(***************************************************************************)
EXTENDS AdiosReader

CONSTANTS
  ConvNodes,  \* the numbers of processes on the nodes of the tool, {<<n1, n2, ...>>}
  FillSize    \* the bytes of a fill value

VARIABLES
  nc,         \* the cells of the converted file
  ncDefs      \* its dimensions, variables and attributes

cvars == <<nc, ncDefs>>

InitConvert == nc = NoCells /\ ncDefs = [dims |-> <<>>, vars |-> <<>>, atts |-> <<>>]

(***************************************************************************)
(* The processes of the tool                                               *)
(***************************************************************************)
\* CreateIOProcessGroup: the blocks are dealt out to the nodes, one process for each
\* as long as there are any.
IOProcs(nodes, nblocks) ==
  LET Dealt(n) == Cardinality({b \in 0..nblocks - 1 : b % Len(nodes) = n - 1})
  IN  FoldLeftDomain(LAMBDA sum, n : sum + Least(nodes[n], Dealt(n)), 0, nodes)

\* Slip: the processes behind the remainder do not skip its blocks.
BlocksOfShort(nblocks, nproc, rank) ==
  LET each == nblocks \div nproc
      n == IF rank < nblocks % nproc THEN each + 1 ELSE each
  IN  [i \in 1..n |-> rank * n + i]

\* FindProcessBlockGroupAssignments: the blocks of process rank, of nproc.
BlocksOf(nblocks, nproc, rank) ==
  LET each == nblocks \div nproc
      n == IF rank < nblocks % nproc THEN each + 1 ELSE each
      first == IF rank < nblocks % nproc THEN rank * n ELSE (rank * n) + (nblocks % nproc)
  IN  [i \in 1..n |-> first + i]

(***************************************************************************)
(* Finding blocks.  lists are the processes of each I/O group; the counts  *)
(* of writers tell which of them wrote a block at each time.               *)
(***************************************************************************)
Lists == Blocks(bp.steps[1], <<"info", "block_list">>)

\* The <<process, time>> that wrote a block; counts[i] are the counts of group i.
Wrote(counts) ==
  UNION {UNION {{<<Lists[i][k], t>> : k \in 1..counts[i][t]} : t \in DOMAIN counts[i]} :
           i \in DOMAIN Lists}

\* The blocks are numbered by process and then by time.
BlockId(wrote, x) ==
  Cardinality({y \in wrote : y[1] < x[1] \/ (y[1] = x[1] /\ y[2] <= x[2])})

\* What process rank takes of the data of one time: the blocks of its groups.
TakeLocal(data, wrote, t, nproc, rank) ==
  FlattenSeq([i \in DOMAIN BlocksOf(Len(Lists), nproc, rank) |->
    LET list == Lists[BlocksOf(Len(Lists), nproc, rank)[i]]
    IN  FlattenSeq([j \in DOMAIN list |->
          IF <<list[j], t>> \in wrote THEN data[BlockId(wrote, <<list[j], t>>)] ELSE <<>>])])

\* The counts of each group, of which every one put its blocks after another.
GroupCounts(all) ==
  LET each == Len(all) \div Len(Lists)
  IN  [i \in DOMAIN Lists |-> FlattenSeq(SubSeq(all, (i - 1) * each + 1, i * each))]

(***************************************************************************)
(* Distributed arrays                                                      *)
(***************************************************************************)
\* The maps of decomposition d in a step.
ProcessOneDecomposition(step, d, nproc) ==
  LET counts == Blocks(step, <<"decomp_writers", d>>)
      wrote == Wrote([i \in DOMAIN Lists |-> <<counts[i]>>])
  IN  [rank \in 0..nproc - 1 |-> TakeLocal(Blocks(step, <<"decomp", d>>), wrote, 1, nproc, rank)]

\* The first step that has the decomposition is searched for.
LoadDecomposition(d, nproc) == ProcessOneDecomposition(bp.steps[DecompStep(d) + 1], d, nproc)

\* The tracking data of v in a step.
Tracking(step, v) ==
  [frames |-> Elements(step, <<"frame", v>>), decomps |-> Elements(step, <<"decomp_id", v>>),
   fills |-> Elements(step, <<"fillval", v>>), writers |-> Blocks(step, <<"writers", v>>)]

\* The next fill value is one byte, not one value, on.
FillAt(fills, i) == IF i % FillSize = 0 THEN fills[i \div FillSize + 1] ELSE Junk

\* Write number t of a step again, with its frame, decomposition and fill value.
ReplayWrite(c, v, track, t, array, nproc) ==
  LET filled == track.decomps[t] > 0
      id == IF filled THEN track.decomps[t] ELSE -track.decomps[t]
      fillIdx == Cardinality({u \in 1..t - 1 : track.decomps[u] > 0})
  IN  WriteArrays(c, v, Greatest(track.frames[t], 0), NCells(v), LoadDecomposition(id, nproc), array,
                  IF filled THEN FillAt(track.fills, fillIdx) ELSE DefaultFill)

ConvertVariableDarray(c, step, v, nproc) ==
  LET track == Tracking(step, v)
      wrote == Wrote(GroupCounts(track.writers))
      data == Blocks(step, <<"data", v>>)
      LocalArray(t) == [rank \in 0..nproc - 1 |-> TakeLocal(data, wrote, t, nproc, rank)]
  IN  IF track.frames = <<>> \/ track.decomps = <<>> \/ Len(track.writers) % Len(Lists) # 0 THEN c
      ELSE FoldLeftDomain(LAMBDA state, t : ReplayWrite(state, v, track, t, LocalArray(t), nproc),
                          c, track.frames)

(***************************************************************************)
(* ConvertVariablePutVar and ConvertVariableTimedPutVar: every block where *)
(* its start and count say.                                                *)
(***************************************************************************)
ConvertVariablePutVar(c, step, v) ==
  LET put == Blocks(step, <<"data", v>>)
  IN  IF bp.atts[<<v, "def/ndims">>] = 0
        THEN PutBlock(c, v, <<1>>, <<0>>, <<1>>, ScalarValue(step, <<"data", v>>))
        ELSE FoldLeft(LAMBDA cells, b : PutBlock(cells, v, DimLens(v), b.start, b.count, b.data), c, put)

ConvertVariableTimedPutVar(c, step, v) ==
  FoldLeft(LAMBDA cells, b : PutBlock(cells, v, DimLens(v), b.start, b.count, b.data),
           c, Blocks(step, <<"data", v>>))

\* Distributed arrays are left out if the decompositions were not stored.
ConvertVariable(c, step, v, nproc) ==
  IF ~Available(step, <<"data", v>>) THEN c
  ELSE IF NcOp(v) = "put_var"
    THEN IF IsTimed(v) THEN ConvertVariableTimedPutVar(c, step, v) ELSE ConvertVariablePutVar(c, step, v)
  ELSE IF NcOp(v) = "darray" /\ Blocks(bp.steps[1], <<"info", "decomp_stored">>)[1]
    THEN ConvertVariableDarray(c, step, v, nproc)
  ELSE c

ConvertStep(c, step, nproc) == FoldLeft(LAMBDA cells, v : ConvertVariable(cells, step, v, nproc), c, Sorted)

\* The dimensions, each in the step in which it was defined.
ProcessDimensions == FoldLeft(LAMBDA dims, step : dims @@ DimsOf(step), <<>>, bp.steps)

\* The variables and their dimensions, written or not.
ProcessVariableDefinitions ==
  LET Length(name) == IF name \in DOMAIN ProcessDimensions THEN ProcessDimensions[name] ELSE -1
  IN  [v \in {w \in Vars : <<w, "def/ndims">> \in DOMAIN bp.atts} |->
         IF bp.atts[<<v, "def/ndims">>] = 0 THEN <<>>
         ELSE [i \in DOMAIN bp.atts[<<v, "def/dims">>] |-> Length(bp.atts[<<v, "def/dims">>][i])]]

\* The attributes of the file that are not the library's own.
DefAtts == {"def/ndims", "def/nctype", "def/dims", "def/ncop", "def/decomp", "def/adiostype", "fillmode"}
ConvertAtts == [att \in {a \in DOMAIN bp.atts : a[2] \notin DefAtts} |-> bp.atts[att]]

\* ConvertBPFile
Convert(nodes) ==
  /\ phase = "closed"
  /\ phase' = "converted"
  /\ nc' = FoldLeft(LAMBDA c, step : ConvertStep(c, step, IOProcs(nodes, Len(Lists))), NoCells, bp.steps)
  /\ ncDefs' = [dims |-> ProcessDimensions, vars |-> ProcessVariableDefinitions, atts |-> ConvertAtts]
  /\ UNCHANGED <<groups, stored, existed, bp, cur, begun, ndefs, natts, record, tracked, stepCalls, current,
                 written, calls, setFrames, direct, directAtts, rvars>>

NextConvert == \E nodes \in ConvNodes : Convert(nodes)
=============================================================================
