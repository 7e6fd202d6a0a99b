-------------------------------- MODULE Adios --------------------------------
(***************************************************************************)
(* A file of the ADIOS I/O type: written, then read back through the       *)
(* library or converted by the tool, and what a caller may expect of it.   *)
(***************************************************************************)
EXTENDS AdiosConvert

vars == <<wvars, rvars, cvars>>

Init == InitWriter /\ InitReader /\ InitConvert

Next ==
  \/ NextWriter /\ UNCHANGED <<rvars, cvars>>
  \/ NextReader /\ UNCHANGED cvars
  \/ NextConvert

Spec == Init /\ [][Next]_vars

(***************************************************************************)
(* Properties                                                              *)
(***************************************************************************)
\* How many of a sequence are positive.
Positives(seq) == Cardinality({i \in DOMAIN seq : seq[i] > 0})

(***************************************************************************)
(* In every step of the file, each block that an I/O group has of a        *)
(* variable has its frame, its decomposition and its count of writers, and *)
(* a fill value if one was given (pio_darray.cpp:1289-1464, 1845-1873).    *)
(* They are buffered apart, by different processes, and put when full, at  *)
(* a change of frame of any variable or when the file is closed.           *)
(***************************************************************************)
TrackingAligned ==
  phase \in {"write", "closed"} =>
    \A s \in DOMAIN bp.steps, v \in {w \in Vars : VarDefs[w].op = "darray"} :
      LET step == bp.steps[s]
          frames == Elements(step, <<"frame", v>>)
          decomps == Elements(step, <<"decomp_id", v>>)
      IN  /\ Len(decomps) = Len(frames)
          /\ Positives(decomps) = Len(Elements(step, <<"fillval", v>>))
          /\ \A g \in Writers :
               /\ Len(BlocksBy(step, <<"data", v>>, g)) = Len(frames)
               /\ Len(FlattenSeq(BlocksBy(step, <<"writers", v>>, g))) = Len(frames)

\* No step has more than one fill value of a variable, or they have one byte each.
FillsApart ==
  FillSize = 1 \/ \A s \in DOMAIN bp.steps, v \in Vars : Len(Elements(bp.steps[s], <<"fillval", v>>)) <= 1

(***************************************************************************)
(* The converted file is what the same calls make of a NetCDF file: the    *)
(* dimensions and variables, written or not, and every cell of every array,*)
(* block and scalar, whatever I/O groups wrote it, in whatever steps, and  *)
(* whatever processes convert it (the distributed arrays only if their     *)
(* decompositions are stored).  Attributes have the first value they were  *)
(* given (adios2pio-nm-lib.cxx:1766-2217).                                 *)
(***************************************************************************)
ConvertedSame ==
  phase = "converted" /\ FillsApart =>
    /\ nc = [key \in {k \in DOMAIN direct : VarDefs[k[1]].op = "put_var" \/ stored} |-> direct[key]]
    /\ ncDefs = [dims |-> [name \in {DimDefs[i].name : i \in DOMAIN DimDefs} |-> DimLen(name)],
                  vars |-> [v \in Vars |-> DimLens(v)], atts |-> directAtts]

\* Variable v was written with decomposition d, and is read with it as all that share its blocks.
SameDecomp(v, d) ==
  /\ ~Decomps[d].contig
  /\ \A s \in DOMAIN bp.steps : \A i \in DOMAIN Elements(bp.steps[s], <<"decomp_id", v>>) :
       Elements(bp.steps[s], <<"decomp_id", v>>)[i] \in {d, -d}
  /\ \A i \in DOMAIN reads :
       reads[i].kind = "array" /\ bp.atts[<<reads[i].v, "def/decomp">>] = d => reads[i].d = d
  /\ stored \/ \A p \in Procs : p \in Range(groups[GuessBlock(p, Len(groups)) + 1])

\* The frames of v in the step at which the engine is follow one another, and were
\* put at once; no other step has one.
FramesInOrder(v) ==
  LET frames == Blocks(StepAt(engine), <<"frame", v>>)
  IN  /\ Len(frames) = 1
      /\ \A i \in 1..Len(frames[1]) - 1 : frames[1][i + 1] = frames[1][i] + 1

\* A part of a variable that has whole rows or a single one.
WholeRows(v, part) ==
  Len(part.count) > 1 => part.count[1] = 1 \/ part.count[2] = DimLens(v)[2]

ArrayReadBack(r) ==
  SameDecomp(r.v, r.d) /\ FramesInOrder(r.v) =>
    \A p \in Procs : \A k \in DOMAIN Decomps[r.d].map[p] :
      LET cell == Decomps[r.d].map[p][k]
      IN  cell > 0 => r.data[p][k] = direct[<<r.v, r.frame, cell - 1>>]

BlockReadBack(r) ==
  LET v == r.arg.v
      all == {i \in DOMAIN bp.steps : Available(bp.steps[i], <<"data", v>>)}
      put == Blocks(StepAt(engine), <<"data", v>>)
      Frame(k) == IF IsTimed(v) THEN r.arg.start[1] + (k - 1) \div GridSize(Tail(r.arg.count)) ELSE 0
      inner == IF IsTimed(v) THEN BlockCells(Tail(DimLens(v)), Tail(r.arg.start), Tail(r.arg.count))
               ELSE BlockCells(CellDims(v), r.arg.start, r.arg.count)
      Key(k) == <<v, Frame(k), inner[((k - 1) % Len(inner)) + 1]>>
  IN  /\ Cardinality(all) = 1
      /\ WholeRows(v, r.arg)
      /\ DimLens(v) # <<>> => \A i \in DOMAIN put : WholeRows(v, put[i])
      => \A k \in 1..GridSize(r.arg.count) : Key(k) \in DOMAIN direct => r.data[k] = direct[Key(k)]

\* The variable was written with the decomposition with which it is read.
Findable(r) ==
  /\ VarDefs[r.v].op = "darray"
  /\ \E s \in DOMAIN bp.steps : Available(bp.steps[s], <<"data", r.v>>)
  /\ SameDecomp(r.v, r.d)

(***************************************************************************)
(* What is read is what was written: a distributed array if it is read     *)
(* with the decomposition with which it was written, a block of whole      *)
(* rows, an attribute (its first value).  Without a stored decomposition   *)
(* the I/O groups have to be those that the reader guesses.  Every process *)
(* finds its piece of such an array, in whatever block it is               *)
(* (pio_darray.cpp:2782-2830, 2934-2978; pio_getput_int.cpp:1834-2050).    *)
(***************************************************************************)
ReadBack ==
  /\ phase = "failed" /\ reply.kind = "error" /\ Last(reads).kind = "array" =>
       ~Findable(Last(reads))
  /\ phase = "read" =>
    CASE reply.kind = "array" -> ArrayReadBack(reply)
      [] reply.kind = "block" -> BlockReadBack(reply)
      [] reply.kind = "att" -> /\ reply.found <=> reply.att \in DOMAIN directAtts
                               /\ reply.found => reply.value = directAtts[reply.att]
      [] OTHER -> TRUE

(***************************************************************************)
(* A file that was opened has every dimension and variable that was        *)
(* defined, written or not, with its dimensions: unless a variable's name  *)
(* is the beginning of another's (pioc_support.cpp:4395-4514).             *)
(***************************************************************************)
OpenedComplete ==
  phase = "read" =>
    \A v \in Vars :
      \/ \E w \in Vars \ {v} : IsPrefix(Name(v), Name(w))
      \/ InqVarid(v) # 0 /\ InqVarDims(v) = DimLens(v)

\* A file that was written and closed can be opened: no assertion of
\* PIOc_openfile fails (pioc_support.cpp:4265).
NotAborted == phase # "aborted"
=============================================================================
