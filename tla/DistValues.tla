------------------------------ MODULE DistValues -----------------------------
(***************************************************************************)
(* The cells of a distributed array and what can be in them.               *)
(***************************************************************************)
EXTENDS Integers, Sequences

CONSTANT NCells   \* the cells of an array (of one record of it)

\* No decomposition in use.
NoDecomp == [map |-> <<>>]

\* What write w of variable v puts into a cell, v's fill value (given by the caller
\* or the default of its type, kept with the cached array), and what is
\* in a cell never written, a buffer never filled, an element without a cell
\* and an element that was not read.
Data(w, v, c) == <<w, v, c>>
Fill(v) == <<-1, v, 0>>
Unwritten == <<0, 0, 0>>
Undefined == <<-2, 0, 0>>
Junk == <<-3, 0, 0>>
Untouched == <<-4, 0, 0>>

\* The place of a cell of a record in the variable.
Cell(frame, c) == frame * NCells + c

IsMapped(d, c) == \E p \in DOMAIN d.map : \E k \in DOMAIN d.map[p] : d.map[p][k] = c + 1

(***************************************************************************)
(* The values that write w of targets, a sequence of variables with a      *)
(* record each, gives: every element to its cell, and the variable's own   *)
(* fill value to the cells without an element.                             *)
(***************************************************************************)
Promised(d, targets, w) ==
  [slot \in {<<targets[i][1], Cell(targets[i][2], c)>> :
               i \in DOMAIN targets, c \in 0..NCells - 1} |->
     LET c == slot[2] % NCells
     IN  IF IsMapped(d, c) THEN Data(w, slot[1], c) ELSE Fill(slot[1])]
=============================================================================
