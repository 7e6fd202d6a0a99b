------------------------------ MODULE IoSystem ------------------------------
(***************************************************************************)
(* The descriptor of an I/O system (iosystem_desc_t) as the three ways of  *)
(* making one leave it on each process (pioc.cpp).                         *)
(*                                                                         *)
(* A process is its rank in the communicator that the call is given (the   *)
(* computation processes, the world, or the common peer); a communicator   *)
(* is the sequence of its processes.  comp and io are the communicators of *)
(* the computation and of the I/O processes, on each side of the           *)
(* intercommunicator the local and the remote group.                       *)
(***************************************************************************)
EXTENDS Integers, Sequences, SequencesExt, FiniteSetsExt

MPI_ROOT == -3
MPI_PROC_NULL == -1
MPI_COMM_NULL == <<>>

Member(comm, p) == p \in ToSet(comm)
RankIn(comm, p) == (CHOOSE i \in DOMAIN comm : comm[i] = p) - 1
ProcessAt(comm, rank) == comm[rank + 1]
Ranks(n) == [i \in 1..n |-> i - 1]

\* compmaster and iomaster are the root argument of broadcasts over the intercommunicator.
MasterIf(rank) == IF rank = 0 THEN MPI_ROOT ELSE MPI_PROC_NULL

\* A descriptor from calloc.
Cleared ==
  [union |-> MPI_COMM_NULL, comp |-> MPI_COMM_NULL, io |-> MPI_COMM_NULL,
   comproot |-> 0, ioroot |-> 0, compranks |-> <<>>, ioranks |-> <<>>,
   comp_rank |-> 0, io_rank |-> 0, compmaster |-> 0, iomaster |-> 0,
   compproc |-> FALSE, ioproc |-> FALSE]

-----------------------------------------------------------------------------
\* PIOc_Init_Intracomm: num of the n processes are I/O processes as well.

\* What the check of the arguments accepts.
ValidIntracomm(n, num, stride, base) ==
  /\ num \in 1..n /\ stride >= 1 /\ base \in 0..(n - 1)
  /\ stride * (num - 1) < n

IoRanks(n, num, stride, base) == [i \in 1..num |-> (base + (i - 1) * stride) % n]

Intracomm(n, ioranks, p) ==
  [Cleared EXCEPT
     !.union = Ranks(n), !.comp = Ranks(n), !.compranks = Ranks(n),
     !.compproc = TRUE, !.comp_rank = p,
     !.compmaster = IF p = 0 THEN MPI_ROOT ELSE @,
     !.ioproc = Member(ioranks, p), !.ioranks = ioranks, !.ioroot = ioranks[1],
     !.iomaster = IF p = ioranks[1] THEN MPI_ROOT ELSE @]

\* MPI_Comm_create makes the communicator of the I/O processes in the order of ioranks.
IoCommunicator(d, p) ==
  [d EXCEPT !.io = d.ioranks, !.io_rank = IF d.ioproc THEN RankIn(d.ioranks, p) ELSE -1]

Init_Intracomm(n, num, stride, base) ==
  [p \in 0..(n - 1) |-> IoCommunicator(Intracomm(n, IoRanks(n, num, stride, base), p), p)]

-----------------------------------------------------------------------------
\* PIOc_init_async: the I/O processes and those of one component are different
\* processes of a world, given by lists; none given, they are the first ones.

ValidAsync(num_io_procs, component_count) == num_io_procs >= 1 /\ component_count = 1

io_proc_list(given, num_io_procs) ==
  IF given = <<>> THEN [i \in 1..num_io_procs |-> i - 1] ELSE given
proc_list(given, num_io_procs, num_procs) ==
  IF given = <<>> THEN [i \in 1..num_procs |-> num_io_procs + i - 1] ELSE given

AsyncComp(d, comp, p) ==
  IF ~Member(comp, p) THEN d
  ELSE [d EXCEPT !.comp_rank = RankIn(comp, p), !.compmaster = MasterIf(RankIn(comp, p))]

AsyncIo(d, io, p) ==
  IF ~Member(io, p) THEN d
  ELSE [d EXCEPT !.io_rank = RankIn(io, p), !.iomaster = MasterIf(RankIn(io, p))]

init_async(world, io, comp) ==
  [p \in 0..(world - 1) |->
     LET d == [Cleared EXCEPT
                 !.comproot = Len(io), !.ioroot = io[1], !.ioranks = io, !.compranks = comp,
                 !.ioproc = Member(io, p), !.compproc = ~Member(io, p)]
     IN IF ~Member(io \o comp, p) THEN d
        ELSE [AsyncIo(AsyncComp(d, comp, p), io, p) EXCEPT
                !.union = io \o comp, !.comp = comp, !.io = io]]

\* The intercommunicator is made with the first processes of the lists as the
\* leaders of the two sides, by their ranks in the union communicator.
AsyncConnects(io, comp) ==
  /\ comp[1] < Len(io \o comp) /\ ProcessAt(io \o comp, comp[1]) = comp[1]
  /\ io[1] < Len(io \o comp) /\ ProcessAt(io \o comp, io[1]) = io[1]

-----------------------------------------------------------------------------
\* PIOc_init_intercomm: several components, each with a communicator, and the I/O
\* processes with theirs; all are in one peer communicator of n processes.

\* MPI_Allreduce, MPI_MAX: the process of rank 0 gives its rank, the others -1.
LeaderOf(n, comm) ==
  Max({IF Member(comm, p) /\ RankIn(comm, p) = 0 THEN p ELSE -1 : p \in 0..(n - 1)})

\* MPI_Intercomm_create: the remote group is the one that has the remote leader.
RemoteGroup(groups, leader) == CHOOSE g \in groups : ProcessAt(g, 0) = leader

\* MPI_Intercomm_merge: the processes of the I/O communicator are the high group.
Merged(low, high) == low \o high

\* The ranks in the union communicator, the same on both sides.
UnionRanks(d, num_comptasks, num_iotasks) ==
  [d EXCEPT !.comproot = 0, !.ioroot = num_comptasks, !.compranks = Ranks(num_comptasks),
            !.ioranks = [j \in 1..num_iotasks |-> num_comptasks + j - 1]]

IntercommIo(n, comps, i, io, p) ==
  LET comp == RemoteGroup(ToSet(comps), LeaderOf(n, comps[i]))
      union == Merged(comp, io)
  IN UnionRanks([Cleared EXCEPT
                   !.ioproc = TRUE, !.comp_rank = -1, !.io_rank = RankIn(io, p),
                   !.iomaster = MasterIf(RankIn(io, p)), !.compmaster = 0,
                   !.union = union, !.comp = comp, !.io = io],
                Len(union) - Len(io), Len(io))

IntercommComp(n, comps, i, uio, p) ==
  LET io == RemoteGroup({uio}, LeaderOf(n, uio))
      union == Merged(comps[i], io)
  IN UnionRanks([Cleared EXCEPT
                   !.compproc = TRUE, !.comp_rank = RankIn(comps[i], p), !.io_rank = -1,
                   !.compmaster = MasterIf(RankIn(comps[i], p)), !.iomaster = 0,
                   !.union = union, !.comp = comps[i], !.io = io],
                Len(comps[i]), Len(union) - Len(comps[i]))

\* A process of neither has an I/O system without communicators.
Outside ==
  [Cleared EXCEPT !.comp_rank = -1, !.io_rank = -1,
                  !.compmaster = MPI_PROC_NULL, !.iomaster = MPI_PROC_NULL]

init_intercomm(n, comps, io) ==
  [i \in DOMAIN comps |->
     [p \in 0..(n - 1) |->
        CASE Member(io, p) -> IntercommIo(n, comps, i, io, p)
          [] Member(comps[i], p) -> IntercommComp(n, comps, i, io, p)
          [] OTHER -> Outside]]
=============================================================================
