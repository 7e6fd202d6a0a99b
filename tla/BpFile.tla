------------------------------- MODULE BpFile -------------------------------
(***************************************************************************)
(* ADIOS BP files as far as the library uses them (external: ADIOS2).      *)
(*                                                                         *)
(* A file has attributes, known to every step, and a sequence of steps.  A *)
(* step is what the writers put between begin_step and end_step: each put  *)
(* is a block of a variable.  A reader sees one step at a time, and of a   *)
(* variable the blocks of the first writer, then those of the second, ...  *)
(* A step is given by the blocks of each variable and writer, in the order *)
(* in which that writer put them.                                          *)
(***************************************************************************)
EXTENDS Integers, SequencesExt

EmptyStep == <<>>

BlocksBy(step, name, g) == IF <<name, g>> \in DOMAIN step THEN step[<<name, g>>] ELSE <<>>

\* adios2_put by one writer, and by each of them.
Put(step, name, by, data) ==
  [key \in DOMAIN step \union {<<name, by>>} |->
     IF key = <<name, by>> THEN Append(BlocksBy(step, name, by), data) ELSE step[key]]
PutEach(step, name, data) ==
  [key \in DOMAIN step \union {<<name, g>> : g \in DOMAIN data} |->
     IF key[1] = name /\ key[2] \in DOMAIN data
       THEN Append(BlocksBy(step, name, key[2]), data[key[2]]) ELSE step[key]]

\* The writers that have a block of a variable in the step; adios2_inquire_variable
\* finds the variables that have one.
WritersOf(step, name) == {key[2] : key \in {k \in DOMAIN step : k[1] = name}}
Available(step, name) == WritersOf(step, name) # {}

\* The blocks that adios2_varinfo lists.
Blocks(step, name) ==
  IF Available(step, name)
    THEN FlattenSeq([g \in 1..Max(WritersOf(step, name)) |-> BlocksBy(step, name, g)])
  ELSE <<>>

\* The value of a variable without dimensions: that of the last put.
ScalarValue(step, name) == Last(Blocks(step, name))

\* All elements of a variable with one-dimensional blocks.
Elements(step, name) == FlattenSeq(Blocks(step, name))
=============================================================================
