------------------------------ MODULE DistArray ------------------------------
(***************************************************************************)
(* What a caller may expect of distributed arrays, whatever rearranger and *)
(* I/O library are used: a write puts every element into its cell and the  *)
(* variable's own fill value into the cells without an element, a read     *)
(* gives every process the cells that its elements are mapped to.  A write *)
(* happens cell by cell, in no order that the caller can know.             *)
(***************************************************************************)
EXTENDS DistValues

CONSTANTS
  Decomps,     \* decompositions; map is the only field used here
  Vars,        \* variables
  RecVars,     \* those with several records
  NFrames,     \* their records
  MaxWrites    \* bound on the number of writes

VARIABLES
  dist,        \* the decomposition in use, NoDecomp if none
  file,        \* variable -> its cells, one record after the other
  pending,     \* <<variable, cell>> -> the value a write in progress gives it
  got,         \* what the last call read, per process
  writes       \* the number of writes begun

vars == <<dist, file, pending, got, writes>>

FramesOf(v) == IF v \in RecVars THEN 0..NFrames - 1 ELSE {0}

Init ==
  /\ dist = NoDecomp
  /\ file = [v \in Vars |-> [a \in {Cell(f, c) : f \in FramesOf(v), c \in 0..NCells - 1} |-> Unwritten]]
  /\ pending = <<>>
  /\ got = <<>>
  /\ writes = 0

InitDecomp ==
  /\ dist = NoDecomp
  /\ dist' \in Decomps
  /\ got' = <<>>
  /\ UNCHANGED <<file, pending, writes>>

FreeDecomp ==
  /\ dist # NoDecomp /\ pending = <<>>
  /\ dist' = NoDecomp
  /\ got' = <<>>
  /\ UNCHANGED <<file, pending, writes>>

BeginWrite(targets) ==
  /\ dist # NoDecomp /\ pending = <<>>
  /\ writes < MaxWrites
  /\ writes' = writes + 1
  /\ pending' = Promised(dist, targets, writes')
  /\ got' = <<>>
  /\ UNCHANGED <<dist, file>>

\* Some of the promised cells get their values, no other cell changes.
Land ==
  /\ pending # <<>>
  /\ \A v \in Vars : \A a \in DOMAIN file[v] :
       \/ file'[v][a] = file[v][a]
       \/ <<v, a>> \in DOMAIN pending /\ file'[v][a] = pending[<<v, a>>]
  /\ DOMAIN file' = Vars /\ \A v \in Vars : DOMAIN file'[v] = DOMAIN file[v]
  /\ UNCHANGED <<dist, pending, got, writes>>

\* A write ends when all of them have.
EndWrite ==
  /\ pending # <<>>
  /\ \A slot \in DOMAIN pending : file[slot[1]][slot[2]] = pending[slot]
  /\ pending' = <<>>
  /\ UNCHANGED <<dist, file, got, writes>>

Read(v, frame) ==
  /\ dist # NoDecomp /\ pending = <<>>
  /\ got' = [p \in DOMAIN dist.map |-> [k \in DOMAIN dist.map[p] |->
               IF dist.map[p][k] > 0 THEN file[v][Cell(frame, dist.map[p][k] - 1)]
               ELSE Untouched]]
  /\ UNCHANGED <<dist, file, pending, writes>>

Targets == UNION {[1..n -> Vars \X (0..NFrames - 1)] : n \in 1..2}

Next ==
  \/ InitDecomp
  \/ FreeDecomp
  \/ \E targets \in Targets : BeginWrite(targets)
  \/ Land
  \/ EndWrite
  \/ \E v \in Vars : \E frame \in FramesOf(v) : Read(v, frame)

Spec == Init /\ [][Next]_vars
=============================================================================
