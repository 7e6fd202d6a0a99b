----------------------------- MODULE AdiosReader -----------------------------
(***************************************************************************)
(* Opening and reading a file with the ADIOS I/O type: the _ADIOS2 parts   *)
(* of PIOc_openfile_retry, PIOc_read_darray_adios, PIOc_get_vars_tc, the   *)
(* inquiry functions and PIOc_closefile.                                   *)
(*                                                                         *)
(* Every process reads for itself.  A read first moves the engine to the   *)
(* step that has the frame.  The array of a process is a piece of a block: *)
(* the block and the piece are found by looking for the map of the process *)
(* in the stored decomposition, or guessed if that was not stored.  A      *)
(* failed call ends the program (the default error handler), and so does a *)
(* failed assertion.                                                       *)
(***************************************************************************)
EXTENDS AdiosFile

CONSTANTS
  GetArgs,   \* the arguments of get_vara, {[v, start, count]}
  Asserts,   \* whether the program is built with assertions (without NDEBUG)
  MaxReads   \* bound on the calls that read

VARIABLES
  reader,    \* what is known of the file: dims, vars, interval, nblocks, stored, atts
  engine,    \* the step the engine is at, and begin_step_called
  pos,       \* cache_darray_info: where the pieces of a decomposition are
  blocks,    \* cache_data_blocks: the blocks of put_var variables that have been read
  reply,     \* what the last call returned
  reads      \* the reads since the file was opened

rvars == <<reader, engine, pos, blocks, reply, reads>>

NotOpen == [dims |-> <<>>, vars |-> <<>>, interval |-> <<>>, nblocks |-> 0, stored |-> TRUE, atts |-> {}]
NoReply == [kind |-> "none"]
NoBlocks == <<>>

InitReader ==
  /\ reader = NotOpen
  /\ engine = [step |-> 0, begun |-> FALSE]
  /\ pos = NoBlocks /\ blocks = NoBlocks
  /\ reply = NoReply /\ reads = <<>>

(***************************************************************************)
(* Opening                                                                 *)
(***************************************************************************)
Name(v) == VarDefs[v].name

\* The variables in the order in which ADIOS lists them, that of their names.
Sorted ==
  LET Before(v, w) == \E i \in 0..Len(Name(v)) :
                         /\ SubSeq(Name(v), 1, i) = SubSeq(Name(w), 1, i)
                         /\ IF i = Len(Name(v)) THEN Len(Name(w)) > i
                            ELSE Len(Name(w)) > i /\ Name(v)[i + 1] < Name(w)[i + 1]
  IN  SetToSortSeq(Vars, Before)

\* A name is compared over its own length with the names that are known.
AddVar(vars, v) ==
  IF \E i \in DOMAIN vars : IsPrefix(Name(v), Name(vars[i])) THEN vars ELSE Append(vars, v)

\* Slip: only the variables that have data are found.
VarsWithData(step, known) == FoldLeft(AddVar, known, SelectSeq(Sorted, LAMBDA v : Available(step, <<"data", v>>)))

\* The variables of a step, then those that are only defined.
VarsOf(step, known) ==
  FoldLeft(AddVar, known, SelectSeq(Sorted, LAMBDA v : Available(step, <<"data", v>>))
                          \o SelectSeq(Sorted, LAMBDA v : <<v, "def/ndims">> \in DOMAIN bp.atts))

DimsOf(step) ==
  LET names == {DimDefs[i].name : i \in DOMAIN DimDefs}
  IN  [name \in {n \in names : Available(step, <<"dim", n>>)} |-> Blocks(step, <<"dim", name>>)[1]]

\* The frames of v in a step, from the first block of its tracking data; -1 is none.
FrameInterval(step, v) ==
  LET frames == Blocks(step, <<"frame", v>>)
  IN  IF frames # <<>>
        THEN IF frames[1] = <<-1>> THEN <<0, 0>> ELSE <<frames[1][1], Last(frames[1])>>
      ELSE IF Available(step, <<"data", v>>) THEN <<0, 0>>
      ELSE <<-1, -1>>

\* adios_get_step_info starts the map of a variable anew in every step, with an
\* assertion that there is none: what is left is the entry of the last step.
IntervalMap(v) ==
  [s \in DOMAIN bp.steps |-> IF s = Len(bp.steps) THEN FrameInterval(bp.steps[s], v) ELSE <<-1, -1>>]

\* How the file was written, from its first step.
HowWritten ==
  [nblocks |-> Len(Blocks(bp.steps[1], <<"info", "block_list">>)),
   stored |-> Blocks(bp.steps[1], <<"info", "decomp_stored">>)[1]]

\* The attributes of the file and of the variables that were found.
AttsOf(vars) == {att \in DOMAIN bp.atts : att \in AttArgs /\ att[1] \in Range(vars) \union {Global}}

Open ==
  /\ phase = "closed"
  /\ LET vars == FoldLeft(LAMBDA known, step : VarsOf(step, known), <<>>, bp.steps)
     IN  IF Asserts /\ Len(bp.steps) > 1 /\ vars # <<>>
           THEN phase' = "aborted" /\ UNCHANGED <<reader, engine>>
           ELSE /\ phase' = "read"
                /\ reader' =
                     [dims |-> FoldLeft(LAMBDA dims, step : dims @@ DimsOf(step), <<>>, bp.steps),
                      vars |-> vars,
                      interval |-> [v \in Range(vars) |-> IntervalMap(v)],
                      nblocks |-> HowWritten.nblocks,
                      stored |-> HowWritten.stored,
                      atts |-> AttsOf(vars)]
                /\ engine' = [step |-> Len(bp.steps) - 1, begun |-> FALSE]
  /\ record' = [v \in Vars |-> -1]
  /\ UNCHANGED <<groups, stored, existed, bp, cur, begun, ndefs, natts, tracked, stepCalls, current, written,
                 calls, setFrames, direct, directAtts, pos, blocks, reply, reads>>

(***************************************************************************)
(* Inquiries                                                               *)
(***************************************************************************)
\* The number of a variable, 0 if there is none of the name.
InqVarid(v) == IF v \in Range(reader.vars) THEN CHOOSE i \in DOMAIN reader.vars : reader.vars[i] = v ELSE 0
InqDimLen(name) == IF name \in DOMAIN reader.dims THEN reader.dims[name] ELSE -1
InqVarDims(v) == IF bp.atts[<<v, "def/ndims">>] = 0 THEN <<>>
                 ELSE [i \in DOMAIN bp.atts[<<v, "def/dims">>] |-> InqDimLen(bp.atts[<<v, "def/dims">>][i])]
InqAtt(att) == att \in reader.atts
NcOp(v) == IF <<v, "def/ncop">> \in DOMAIN bp.atts THEN bp.atts[<<v, "def/ncop">>] ELSE "none"

NextRead(what) == phase = "read" /\ Len(reads) < MaxReads /\ reads' = Append(reads, what)

Fail(what) == phase' = "failed" /\ reply' = [kind |-> what]

\* An attribute the file does not have leaves the caller's memory alone.
GetAtt(att) ==
  /\ NextRead([kind |-> "att"])
  /\ att[1] # Global => InqVarid(att[1]) # 0
  /\ reply' = [kind |-> "att", att |-> att, found |-> InqAtt(att),
               value |-> IF att \in DOMAIN bp.atts THEN bp.atts[att] ELSE Junk]
  /\ UNCHANGED <<wvars, reader, engine, pos, blocks>>

\* PIOc_setframe of a file opened for reading.
SetReadFrame(v, frame) ==
  /\ phase = "read" /\ Len(reads) < MaxReads
  /\ InqVarid(v) # 0
  /\ IsTimed(v) /\ record[v] # frame
  /\ record' = [record EXCEPT ![v] = frame]
  /\ UNCHANGED <<phase, groups, stored, existed, bp, cur, begun, ndefs, natts, tracked, stepCalls, current,
                 written, calls, setFrames, direct, directAtts, rvars>>

(***************************************************************************)
(* Steps                                                                   *)
(***************************************************************************)
\* The first step that has a frame, -1 if none has; without a frame that of frame 0.
GetStep(v, frame) ==
  LET search == IF frame = -1 THEN 0 ELSE frame
      steps == {s \in DOMAIN reader.interval[v] :
                  search >= reader.interval[v][s][1] /\ search <= reader.interval[v][s][2]}
  IN  IF steps = {} THEN -1 ELSE Min(steps) - 1

\* The engine after it has been moved to a step, if need be from the first one on.
GoTo(e, step) == IF e.step = step THEN e ELSE [step |-> step, begun |-> TRUE]

StepAt(e) == bp.steps[e.step + 1]

(***************************************************************************)
(* Distributed arrays                                                      *)
(***************************************************************************)
\* Where map is found in a block, counting from 0; an empty one at the start.
Matches(block, map) ==
  {at \in 0..Len(block) - Len(map) : \A k \in DOMAIN map : block[at + k] = map[k]}

\* The block where the data of process p is most likely to be.
GuessBlock(p, nblocks) == (p - 1) \div ((NProcs + nblocks - 1) \div nblocks)

NowhereAt == [block |-> -1, first |-> -1, len |-> 0]

\* Slip: only the block that is guessed is searched.
PositionInGuess(p, found, map) ==
  LET guess == GuessBlock(p, Len(found))
      at == Matches(found[guess + 1], map)
  IN  IF at = {} THEN NowhereAt ELSE [block |-> guess, first |-> Min(at), len |-> Len(map)]

\* The blocks are searched from the guess on, and then the ones before it.
Position(p, found, map) ==
  LET n == Len(found)
      Distance(b) == (b + n - GuessBlock(p, n)) % n
      having == {b \in 0..n - 1 : Matches(found[b + 1], map) # {}}
      block == CHOOSE b \in having : \A other \in having : Distance(b) <= Distance(other)
  IN  IF having = {} THEN NowhereAt
      ELSE [block |-> block, first |-> Min(Matches(found[block + 1], map)), len |-> Len(map)]

\* Without a stored decomposition: behind the arrays of lower ranks, none shorter than two.
GuessPosition(p, maps) ==
  LET block == GuessBlock(p, reader.nblocks)
      lower == {q \in 1..p - 1 : GuessBlock(q, reader.nblocks) = block}
  IN  [block |-> block, len |-> Len(maps[p]),
       first |-> MapThenSumSet(LAMBDA q : Greatest(Len(maps[q]), 2), lower)]

\* The first step with the decomposition; the file is reopened to search for it.
DecompStep(s) == Min({i \in DOMAIN bp.steps : Available(bp.steps[i], <<"decomp", s>>)}) - 1

\* The positions of the arrays of all processes in blocks with decomposition s.
FindPositions(s, maps) ==
  IF s \in DOMAIN pos THEN pos[s]
  ELSE IF reader.stored
    THEN LET found == Blocks(bp.steps[DecompStep(s) + 1], <<"decomp", s>>)
         IN  [p \in Procs |-> Position(p, found, maps[p])]
  ELSE [p \in Procs |-> GuessPosition(p, maps)]

\* Of the frames of a step, which block of a writer is that of a frame.
BlockOf(step, v, frame, at) ==
  LET frames == Blocks(step, <<"frame", v>>)
  IN  IF frames # <<>> /\ frames[1][1] >= 0 /\ frame >= 0
        THEN at.block * Len(frames[1]) + frame - frames[1][1]
        ELSE at.block

Piece(block, at) ==
  [k \in 1..at.len |-> IF at.first + k \in DOMAIN block THEN block[at.first + k] ELSE Junk]

\* PIOc_read_darray_adios.  That no step is known to have the frame is asserted not to
\* happen; without assertions what follows is up to ADIOS2, and the model stops.
ReadDarray(v, d) ==
  /\ NextRead([kind |-> "array", v |-> v, d |-> d])
  /\ InqVarid(v) # 0
  /\ LET frame == IF IsTimed(v) THEN Greatest(record[v], 0) ELSE record[v]
         required == GetStep(v, frame)
         s == bp.atts[<<v, "def/decomp">>]
         maps == IodescMap(Decomps[d])
         at == FindPositions(s, maps)
         searched == IF s \in DOMAIN pos \/ ~reader.stored THEN engine
                     ELSE [step |-> DecompStep(s), begun |-> TRUE]
         e == GoTo(searched, required)
         data == Blocks(StepAt(e), <<"data", v>>)
         block == [p \in Procs |-> BlockOf(StepAt(e), v, frame, at[p])]
     IN  /\ record' = [record EXCEPT ![v] = frame]
         /\ IF NcOp(v) # "darray" THEN Fail("error") /\ UNCHANGED <<engine, pos>>
            ELSE IF required < 0 THEN Fail("assertion") /\ UNCHANGED <<engine, pos>>
            ELSE IF \E p \in Procs : at[p] = NowhereAt THEN Fail("error") /\ UNCHANGED <<engine, pos>>
            ELSE /\ pos' = pos @@ (s :> at)
                 /\ engine' = e
                 /\ IF data = <<>> THEN Fail("error")
                    ELSE IF \E p \in Procs : block[p] \notin 0..Len(data) - 1 THEN Fail("assertion")
                    ELSE /\ phase' = phase
                         /\ reply' = [kind |-> "array", v |-> v, frame |-> Greatest(frame, 0), d |-> d,
                                      data |-> [p \in Procs |-> Piece(data[block[p] + 1], at[p])]]
  /\ UNCHANGED <<groups, stored, existed, bp, cur, begun, ndefs, natts, tracked, stepCalls, current, written,
                 calls, setFrames, direct, directAtts, reader, blocks>>

(***************************************************************************)
(* PIOc_get_vars_tc, of variables with at most two dimensions.             *)
(* The first process goes through the blocks that were put, each a part of *)
(* the variable, and copies what they have of the part that is asked for.  *)
(***************************************************************************)
\* The indices of a block, along one dimension, that lie in the request.
Overlap(start, count, bstart, bcount) ==
  LET from == IF start >= bstart /\ start < bstart + bcount THEN start - bstart
              ELSE IF start < bstart THEN 0 ELSE -1
      to == IF start + count >= bstart /\ start + count < bstart + bcount THEN start + count - bstart
            ELSE IF bstart + bcount <= start + count THEN bcount ELSE -1
  IN  IF from = -1 \/ to = -1 THEN {} ELSE from..to - 1

\* The indices of a block that lie in the request.
Common(arg, block) ==
  LET along == [i \in DOMAIN arg.start |-> Overlap(arg.start[i], arg.count[i], block.start[i], block.count[i])]
  IN  {idx \in [DOMAIN arg.start -> UNION Range(along)] : \A i \in DOMAIN idx : idx[i] \in along[i]}

\* Both the block and the buffer are taken to have rows as long as the dimension.
CopyBlock(buf, dims, arg, block) ==
  LET To(idx) == LIndex([i \in DOMAIN idx |-> idx[i] + block.start[i] - arg.start[i]], dims) + 1
      cells == {<<To(idx), LIndex(idx, dims) + 1>> : idx \in Common(arg, block)}
      At(k) == (CHOOSE c \in cells : c[1] = k)[2]
  IN  [k \in {c[1] : c \in cells} |->
         IF At(k) \in DOMAIN block.data THEN block.data[At(k)] ELSE Junk] @@ buf

\* A block of the variable with number id that was read before is not read again.
CachedBlock(id, i, block) == IF <<id, i>> \in DOMAIN blocks THEN blocks[<<id, i>>] ELSE block

\* A scalar is kept as block 0.
ReadScalar(id, step, v) == CachedBlock(id, 0, ScalarValue(step, <<"data", v>>)[1])

GetVar(arg) ==
  /\ NextRead([kind |-> "block"])
  /\ InqVarid(arg.v) # 0
  /\ LET v == arg.v
         required == GetStep(v, record[v])
         e == GoTo(engine, required)
         id == InqVarid(v)
         put == Blocks(StepAt(e), <<"data", v>>)
         dims == InqVarDims(v)
         scalar == ReadScalar(id, StepAt(e), v)
         got == [i \in DOMAIN put |-> CachedBlock(id, i, put[i])]
     IN  IF NcOp(v) # "put_var" THEN Fail("error") /\ UNCHANGED <<engine, blocks>>
         ELSE IF required < 0 THEN Fail("assertion") /\ UNCHANGED <<engine, blocks>>
         ELSE /\ phase' = phase
              /\ engine' = e
              /\ IF dims = <<>>
                   THEN /\ blocks' = blocks @@ (<<id, 0>> :> scalar)
                        /\ reply' = [kind |-> "block", arg |-> arg, data |-> (1 :> scalar)]
                   ELSE /\ blocks' = blocks @@ [key \in {<<id, i>> : i \in DOMAIN put} |-> got[key[2]]]
                        /\ reply' = [kind |-> "block", arg |-> arg,
                                     data |-> FoldLeft(LAMBDA buf, b : CopyBlock(buf, dims, arg, b), <<>>, got)]
  /\ UNCHANGED <<groups, stored, existed, bp, cur, begun, ndefs, natts, record, tracked, stepCalls, current,
                 written, calls, setFrames, direct, directAtts, reader, pos>>

\* PIOc_closefile; the file can be opened again.
CloseReader ==
  /\ phase = "read"
  /\ phase' = "closed"
  /\ reader' = NotOpen
  /\ engine' = [step |-> 0, begun |-> FALSE]
  /\ pos' = NoBlocks /\ blocks' = NoBlocks
  /\ reply' = NoReply /\ reads' = <<>>
  /\ UNCHANGED <<groups, stored, existed, bp, cur, begun, ndefs, natts, record, tracked, stepCalls, current,
                 written, calls, setFrames, direct, directAtts>>

NextReader ==
  \/ Open
  \/ \E att \in AttArgs : GetAtt(att)
  \/ \E v \in FrameVars, frame \in 0..MaxFrame : SetReadFrame(v, frame)
  \/ \E v \in Vars, d \in DOMAIN Decomps : ReadDarray(v, d)
  \/ \E arg \in GetArgs : GetVar(arg)
  \/ CloseReader
=============================================================================
