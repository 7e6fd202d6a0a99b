------------------------------ MODULE AdiosFile ------------------------------
(***************************************************************************)
(* Writing a file with the ADIOS I/O type: the _ADIOS2 parts of            *)
(* pio_darray.cpp, pioc_support.cpp, pio_nc.cpp, pio_getput_int.cpp,       *)
(* pioc.cpp and pio_file.cpp.                                              *)
(*                                                                         *)
(* The processes form I/O groups within their nodes.  The first of a group *)
(* is its ADIOS process, and what a group writes becomes one block.  Which *)
(* write a block belongs to is told by tracking arrays, buffered by        *)
(* different ADIOS processes and put when they are full or the step ends.  *)
(* The calls are collective and every process takes the same branches, so  *)
(* a call is one action; what a process does as member of its group or as  *)
(* ADIOS process is a function of its rank.                                *)
(***************************************************************************)
EXTENDS BpFile, NcFile

CONSTANTS
  Layouts,        \* placements [nodes, iotasks, stored]: the ranks 1..N on each node,
                  \* num_iotasks, and whether decompositions are written to the file
  DimDefs,        \* the dimensions that are defined, <<[name, len]>>; len 0 is unlimited
  VarDefs,        \* the variables that are defined, <<[name, dims, op]>>; a name is a
                  \* sequence of letters, given as numbers
  AttArgs,        \* the attributes that are put, {<<variable or Global, name>>}
  PutArgs,        \* the arguments of put_vara, {[v, start, count]}
  Decomps,        \* ioid -> [map, contig], map[p] the 1-based offsets of process p
  FrameVars,      \* the variables whose frame is set
  MaxFrame,       \* bound on the frames
  MaxSetFrames,   \* bound on the calls of PIOc_setframe
  MaxCalls,       \* bound on the other calls once the file is defined
  StepsPerFlush,  \* PIO_MAX_CACHED_STEPS_FOR_ADIOS
  MaxBuffer,      \* MAX_ADIOS_BUFFER_COUNT
  MaxDecomps      \* PIO_MAX_ADIOS_DECOMPS

VARIABLES
  phase,      \* "none", "write", "closed", and what the readers make of it
  groups,     \* the I/O groups in the order of their ADIOS processes
  stored,     \* store_adios_decomp
  existed,    \* whether the .bp directory is there before
  bp,         \* the file: the steps that have ended, and the attributes
  cur,        \* what has been put in the step in progress
  begun,      \* begin_step_called
  ndefs,      \* dimensions and variables defined: num_dim_vars + num_vars
  natts,     \* num_attrs
  record,     \* varlist[v].record
  tracked,    \* the tracking buffers of adios_vars[v]
  stepCalls,  \* num_step_calls
  current,    \* current_frame
  written,    \* written_ioids
  calls, setFrames,   \* the calls so far
  direct,     \* history: the cells that the same calls write to a NetCDF file
  directAtts  \* history: the first value that each attribute was given

wvars == <<phase, groups, stored, existed, bp, cur, begun, ndefs, natts, record, tracked, stepCalls,
           current, written, calls, setFrames, direct, directAtts>>

Vars == DOMAIN VarDefs
Global == 0
Procs == DOMAIN Decomps[CHOOSE d \in DOMAIN Decomps : TRUE].map
NProcs == Cardinality(Procs)

DimLen(name) == DimDefs[CHOOSE i \in DOMAIN DimDefs : DimDefs[i].name = name].len
DimLens(v) == [i \in DOMAIN VarDefs[v].dims |-> DimLen(VarDefs[v].dims[i])]
IsTimed(v) == \E i \in DOMAIN DimLens(v) : DimLens(v)[i] = 0
\* A scalar has one cell.
CellDims(v) == IF DimLens(v) = <<>> THEN <<1>> ELSE DimLens(v)
NCells(v) == GridSize(IF IsTimed(v) THEN Tail(DimLens(v)) ELSE CellDims(v))

ASSUME AdiosFileAssumption ==
  /\ StepsPerFlush > 0 /\ MaxBuffer > 0
  /\ NProcs \in Nat \ {0}
  /\ \A layout \in Layouts :
       layout.nodes \in Seq(Seq(Procs) \ {<<>>}) \ {<<>>} /\ layout.iotasks \in Int
  /\ VarDefs \in Seq(Range(VarDefs))
  /\ \A d \in DOMAIN Decomps : d \in Nat \ {0} /\ DOMAIN Decomps[d].map = Procs
  /\ \A v \in Vars : \A i \in DOMAIN DimLens(v) : DimLens(v)[i] = 0 => i = 1 /\ Len(DimLens(v)) > 1

(***************************************************************************)
(* I/O groups                                                              *)
(***************************************************************************)
GroupSize(node, iotasks) ==
  IF iotasks <= 0 \/ iotasks > NProcs THEN Len(node)
  ELSE Least((NProcs + iotasks - 1) \div iotasks, Len(node))

NodeGroups(node, iotasks) ==
  LET size == GroupSize(node, iotasks)
  IN  [k \in 1..(Len(node) + size - 1) \div size |->
         SubSeq(node, (k - 1) * size + 1, Least(k * size, Len(node)))]

\* The groups of all nodes in the order of their first processes.
InitAdiosComm(layout) ==
  LET all == FlattenSeq([n \in DOMAIN layout.nodes |-> NodeGroups(layout.nodes[n], layout.iotasks)])
      Place(i) == Cardinality({j \in DOMAIN all : all[j][1] <= all[i][1]})
  IN  [k \in DOMAIN all |-> all[CHOOSE i \in DOMAIN all : Place(i) = k]]

Writers == DOMAIN groups
DecompWriter == Len(groups)
FrameWriter == ((Len(groups) - 1) * 2) \div 3 + 1
FillWriter == (Len(groups) - 1) \div 3 + 1

\* The block that a group makes of what each of its processes has.
Merged(g, have) == FlattenSeq([i \in DOMAIN groups[g] |-> have[groups[g][i]]])
MergedBlocks(have) == [g \in Writers |-> Merged(g, have)]

(***************************************************************************)
(* Steps and tracking buffers                                              *)
(***************************************************************************)
NoTracking == [frames |-> <<>>, decomps |-> <<>>, fills |-> <<>>, writers |-> <<>>]

\* The step after the buffers of v with at least so many entries are put.
PutBuffers(step, v, t, least) ==
  LET Full(buffer) == Len(buffer) >= least
      s1 == IF Full(t.writers) THEN PutEach(step, <<"writers", v>>, [g \in Writers |-> t.writers])
            ELSE step
      s2 == IF Full(t.fills) THEN Put(s1, <<"fillval", v>>, FillWriter, t.fills) ELSE s1
      s3 == IF Full(t.decomps) THEN Put(s2, <<"decomp_id", v>>, DecompWriter, t.decomps) ELSE s2
  IN  IF Full(t.frames) THEN Put(s3, <<"frame", v>>, FrameWriter, t.frames) ELSE s3

\* The buffers that are left: those with fewer entries.
Kept(t, least) == [b \in DOMAIN t |-> IF Len(t[b]) >= least THEN <<>> ELSE t[b]]

\* flush_adios2_tracking_data: the buffers of all variables that have entries.
FlushTracking(step) ==
  LET after[v \in 0..Len(VarDefs)] ==
        IF v = 0 THEN step ELSE PutBuffers(after[v - 1], v, tracked[v], 1)
  IN  after[Len(VarDefs)]

\* Slip: the step ends with entries in the buffers.
EndStepUnflushed(step) ==
  /\ bp' = [bp EXCEPT !.steps = Append(@, step)]
  /\ tracked' = tracked
  /\ cur' = EmptyStep /\ begun' = FALSE /\ stepCalls' = 0

\* end_adios2_step
EndStep(step) ==
  /\ bp' = [bp EXCEPT !.steps = Append(@, FlushTracking(step))]
  /\ tracked' = [v \in Vars |-> Kept(tracked[v], 1)]
  /\ cur' = EmptyStep /\ begun' = FALSE /\ stepCalls' = 0

Writing == phase = "write"
Defined == ndefs = Len(DimDefs) + Len(VarDefs)

\* A call that needs an open step begins one (begin_adios2_step).
Call == begun' = TRUE

(***************************************************************************)
(* Creating, defining                                                      *)
(***************************************************************************)
InitWriter ==
  /\ phase = "none"
  /\ \E layout \in Layouts : groups = InitAdiosComm(layout) /\ stored = layout.stored
  /\ existed \in BOOLEAN
  /\ bp = [steps |-> <<>>, atts |-> <<>>]
  /\ cur = EmptyStep /\ begun = FALSE
  /\ ndefs = 0 /\ natts = 0
  /\ record = [v \in Vars |-> -1]
  /\ tracked = [v \in Vars |-> NoTracking]
  /\ stepCalls = 0 /\ current = -1
  /\ written = {}
  /\ calls = 0 /\ setFrames = 0
  /\ direct = NoCells /\ directAtts = <<>>

\* The ranks of each group, written by its ADIOS process.
BlockList == [g \in Writers |-> groups[g]]

\* The variables that tell how the file was written.
Info ==
  LET s1 == Put(EmptyStep, <<"info", "nproc">>, 1, NProcs)
      s2 == Put(s1, <<"info", "decomp_stored">>, 1, stored)
      s3 == PutEach(s2, <<"info", "block_nprocs">>, [g \in Writers |-> Len(groups[g])])
  IN  PutEach(s3, <<"info", "block_list">>, BlockList)

\* With PIO_NOCLOBBER an existing directory is an error, without it is overwritten.
Create(noclobber) ==
  /\ phase = "none"
  /\ IF noclobber /\ existed
       THEN phase' = "refused" /\ UNCHANGED <<cur, begun>>
       ELSE phase' = "write" /\ cur' = Info /\ Call
  /\ existed' = FALSE
  /\ UNCHANGED <<groups, stored, bp, ndefs, natts, record, tracked, stepCalls, current, written, calls,
                 setFrames, direct, directAtts>>

DefDim ==
  /\ Writing /\ ndefs < Len(DimDefs)
  /\ Call
  /\ ndefs' = ndefs + 1
  /\ cur' = PutEach(cur, <<"dim", DimDefs[ndefs'].name>>, [g \in Writers |-> DimDefs[ndefs'].len])
  /\ UNCHANGED <<phase, groups, stored, existed, bp, natts, record, tracked, stepCalls, current, written,
                 calls, setFrames, direct, directAtts>>

\* Attributes that are there already are not defined again.
DefineAtts(atts) == bp' = [bp EXCEPT !.atts = @ @@ atts]

DefVar ==
  /\ Writing /\ ndefs >= Len(DimDefs) /\ ~Defined
  /\ Call
  /\ ndefs' = ndefs + 1
  /\ LET v == ndefs' - Len(DimDefs)
         def == (<<v, "def/ndims">> :> Len(VarDefs[v].dims)) @@ (<<v, "def/nctype">> :> "nctype")
     IN  DefineAtts(IF VarDefs[v].dims = <<>> THEN def
                    ELSE def @@ (<<v, "def/dims">> :> VarDefs[v].dims))
  /\ UNCHANGED <<phase, groups, stored, existed, cur, natts, record, tracked, stepCalls, current, written,
                 calls, setFrames, direct, directAtts>>

NextCall == Writing /\ Defined /\ calls < MaxCalls /\ calls' = calls + 1 /\ Call

\* An attribute that exists keeps its value, with a warning, and is counted again.
PutAtt(att) ==
  /\ NextCall
  /\ natts' = natts + 1
  /\ DefineAtts(att :> calls')
  /\ directAtts' = directAtts @@ (att :> calls')
  /\ UNCHANGED <<phase, groups, stored, existed, cur, ndefs, record, tracked, stepCalls, current, written,
                 setFrames, direct>>

(***************************************************************************)
(* Frames                                                                  *)
(***************************************************************************)
\* PIOc_setframe: after some changes of the frame, whatever the variable, the step ends.
SetFrame(v, frame) ==
  /\ Writing /\ Defined
  /\ setFrames < MaxSetFrames
  /\ setFrames' = setFrames + 1
  /\ IsTimed(v)
  /\ record' = [record EXCEPT ![v] = frame]
  /\ current' = frame
  /\ LET changed == current >= 0 /\ current # frame
     IN  IF changed /\ stepCalls + 1 >= StepsPerFlush /\ begun THEN EndStep(cur)
         ELSE /\ stepCalls' = IF ~changed THEN stepCalls
                              ELSE IF stepCalls + 1 >= StepsPerFlush THEN 0 ELSE stepCalls + 1
              /\ UNCHANGED <<bp, cur, begun, tracked>>
  /\ UNCHANGED <<phase, groups, stored, existed, ndefs, natts, written, calls, direct, directAtts>>

(***************************************************************************)
(* Distributed arrays                                                      *)
(***************************************************************************)
\* A block needs two elements: with one, something follows it, without, there are two zeros.
Padded(seq, pad) ==
  IF Len(seq) = 0 THEN <<Zero, Zero>> ELSE IF Len(seq) = 1 THEN Append(seq, pad) ELSE seq

\* iodesc->map, which counts from 0 with the CONTIG rearranger.
IodescMap(d) ==
  [p \in Procs |-> [k \in DOMAIN d.map[p] |-> IF d.contig THEN d.map[p][k] - 1 ELSE d.map[p][k]]]

PaddedMap(map) == IF Len(map) = 0 THEN <<0, 0>> ELSE IF Len(map) = 1 THEN <<map[1], 0>> ELSE map

\* Slip: the maps of CONTIG are written as they are.
StoredMapAsIs(d) == [p \in Procs |-> PaddedMap(IodescMap(d)[p])]

\* The maps as PIOc_write_decomp_adios writes them, counting from 1 and padded.
StoredMap(d) ==
  [p \in Procs |->
     PaddedMap([k \in DOMAIN d.map[p] |-> IF d.contig THEN IodescMap(d)[p][k] + 1 ELSE d.map[p][k]])]

NeedsToWriteDecomp(d) == stored /\ d \notin written

\* register_decomp: the list of written decompositions has a fixed length.
CanRegister == Cardinality(written) + 1 <= MaxDecomps

\* PIOc_write_decomp_adios: one merged block of each group.
WriteDecomp(step, d) ==
  PutEach(PutEach(step, <<"decomp", d>>, MergedBlocks(StoredMap(Decomps[d]))),
          <<"decomp_writers", d>>, [g \in Writers |-> 1])

\* The array that process p writes with call w, padded.
Array(d, w, p) ==
  LET map == Decomps[d].map[p]
  IN  Padded([k \in DOMAIN map |-> IF map[k] > 0 THEN Value(w, map[k]) ELSE Junk], Junk)

\* define_adios_darray: the decomposition of the first write names that of the variable.
DarrayAtts(v, d) == (<<v, "def/decomp">> :> d) @@ (<<v, "def/ncop">> :> "darray")

\* The entries that tell a write of v apart: its frame, its decomposition (negative
\* without a fill value), its fill value, and that the block is one writer's.
Track(v, d, filled, w) ==
  [frames |-> Append(tracked[v].frames, record[v]),
   decomps |-> Append(tracked[v].decomps, IF filled THEN d ELSE -d),
   fills |-> IF filled THEN Append(tracked[v].fills, FillOf(w)) ELSE tracked[v].fills,
   writers |-> Append(tracked[v].writers, 1)]

\* PIOc_write_darray_adios.  The caller has set the frame of a variable with a record dimension.
WriteDarray(v, d, filled) ==
  /\ NextCall
  /\ VarDefs[v].op = "darray"
  /\ IsTimed(v) => record[v] >= 0
  /\ LET needs == NeedsToWriteDecomp(d)
         step == IF needs THEN WriteDecomp(cur, d) ELSE cur
         merged == MergedBlocks([p \in Procs |-> Array(d, calls', p)])
         t == Track(v, d, filled, calls')
     IN  IF needs /\ ~CanRegister
           THEN \* the decomposition cannot be registered: PIO_EINVAL
                /\ cur' = step
                /\ UNCHANGED <<bp, written, tracked, direct>>
           ELSE /\ written' = IF needs THEN written \union {d} ELSE written
                /\ DefineAtts(DarrayAtts(v, d))
                /\ cur' = PutBuffers(PutEach(step, <<"data", v>>, merged), v, t, MaxBuffer)
                /\ tracked' = [tracked EXCEPT ![v] = Kept(t, MaxBuffer)]
                /\ direct' = WriteArrays(direct, v, Greatest(record[v], 0), NCells(v), Decomps[d].map,
                                         [p \in Procs |-> Array(d, calls', p)],
                                         IF filled THEN FillOf(calls') ELSE DefaultFill)
  /\ UNCHANGED <<phase, groups, stored, existed, ndefs, natts, record, stepCalls, current, setFrames, directAtts>>

(***************************************************************************)
(* PIOc_put_vars_tc.  The first ADIOS process puts a block with start,     *)
(* count and the data, of a scalar the data alone.  The lengths of         *)
(* unlimited dimensions do not count for the size of the data.             *)
(***************************************************************************)
PutSize(v, count) ==
  GridSize([i \in DOMAIN CellDims(v) |-> IF CellDims(v)[i] = 0 THEN 1 ELSE count[i]])

PutAtts(v) ==
  (<<v, "def/adiostype">> :> "nctype") @@ (<<v, "def/ncop">> :> "put_var")

\* The block: start and count in front of the data.
PutData(arg, data) ==
  IF DimLens(arg.v) = <<>> THEN data ELSE [start |-> arg.start, count |-> arg.count, data |-> data]

PutVar(arg) ==
  /\ NextCall
  /\ VarDefs[arg.v].op = "put_var"
  /\ LET data == [k \in 1..PutSize(arg.v, arg.count) |-> Value(calls', k)]
     IN  /\ cur' = Put(cur, <<"data", arg.v>>, 1, PutData(arg, data))
         /\ direct' = PutBlock(direct, arg.v, CellDims(arg.v), arg.start, arg.count, data)
  /\ DefineAtts(PutAtts(arg.v))
  /\ UNCHANGED <<phase, groups, stored, existed, ndefs, natts, record, tracked, stepCalls, current, written,
                 setFrames, directAtts>>

(***************************************************************************)
(* PIOc_closefile: a last step, with something put by every process so     *)
(* that the fill mode is written too.                                      *)
(***************************************************************************)
CloseWriter ==
  /\ Writing /\ Defined
  /\ phase' = "closed"
  /\ LET step == FlushTracking(PutEach(cur, <<"info", "testing">>, [g \in Writers |-> NProcs]))
     IN  bp' = [steps |-> Append(bp.steps, step), atts |-> bp.atts @@ (<<Global, "fillmode">> :> "NOFILL")]
  /\ cur' = EmptyStep /\ begun' = FALSE
  /\ tracked' = [v \in Vars |-> NoTracking]
  /\ stepCalls' = 0
  /\ ndefs' = 0 /\ natts' = 0
  /\ UNCHANGED <<groups, stored, existed, record, current, written, calls, setFrames, direct, directAtts>>

NextWriter ==
  \/ \E noclobber \in BOOLEAN : Create(noclobber)
  \/ DefDim
  \/ DefVar
  \/ \E att \in AttArgs : PutAtt(att)
  \/ \E v \in FrameVars, frame \in 0..MaxFrame : SetFrame(v, frame)
  \/ \E v \in Vars, d \in DOMAIN Decomps, filled \in BOOLEAN : WriteDarray(v, d, filled)
  \/ \E arg \in PutArgs : PutVar(arg)
  \/ CloseWriter
=============================================================================
