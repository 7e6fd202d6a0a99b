------------------------------ MODULE ReqBlocks ------------------------------
(***************************************************************************)
(* Waiting for the pending PnetCDF requests of a file, in blocks           *)
(* (get_file_req_blocks and flush_output_buffer in pio_darray_int.cpp).    *)
(*                                                                         *)
(* ncmpi_wait_all is collective and must not be given more than a limited  *)
(* amount of data by any I/O process.  The root I/O process gathers the    *)
(* sizes of all requests, cuts the list of requests, which is as long on   *)
(* every process, into blocks, and broadcasts them: a buffer of ranges     *)
(* with the starts of the blocks in its first half and the ends in the     *)
(* second, which is then compacted in place.  Every process waits for the  *)
(* blocks one after the other.                                             *)
(*                                                                         *)
(* A request is known by its variable and its place in vdesc->request; the *)
(* processes take the same steps, so one copy of their lists is enough.    *)
(* Indices are those of the code: blocks and ranges start at 0.            *)
(***************************************************************************)
EXTENDS Integers, Sequences, FiniteSets

CONSTANTS
  Procs,    \* the I/O processes
  NumVars,  \* PIO_MAX_VARS: variable ids are 0..NumVars-1
  ReqSizes, \* the sizes a request may have on a process
  Limit,    \* file_req_block_sz_limit
  MaxReqs   \* bound: requests pending at one time

ASSUME ReqBlocksAssumption ==
  /\ NumVars \in Nat
  /\ ReqSizes \subseteq Nat
  /\ Limit \in Nat \ {0}
  /\ MaxReqs \in Nat

VARIABLES
  pend,    \* pend[v]: vdesc->request_sz of each request, per process
  pc,      \* where flush_output_buffer is
  var,     \* the variable whose requests are collected next
  reqs,    \* *preqs: the requests of the file, in order
  ranges,  \* *preq_block_ranges
  i,       \* the request looked at next
  k,       \* the block being built, copied or waited for
  cur,     \* file_cur_block_grequest_sz, per process
  nblocks, \* *nreq_blocks
  at,      \* the pointer "request", as an index into reqs
  waited   \* history: first and last index of each ncmpi_wait_all so far

vars == <<pend, pc, var, reqs, ranges, i, k, cur, nblocks, at, waited>>

-----------------------------------------------------------------------------
VarIds == 0..NumVars - 1
SizeOnProcs == [Procs -> ReqSizes]
RequestIds == VarIds \X (Nat \ {0})

Pending == UNION {{v} \X DOMAIN pend[v] : v \in VarIds}

\* file_nreqs
N == Len(reqs)

\* The size of the request at index n of *preqs on each process (file_grequest_sz).
SizeAt(n) == pend[reqs[n + 1][1]][reqs[n + 1][2]]

\* The two halves of the buffer while the blocks are found.
Starts(b) == ranges[b]
Ends(b) == ranges[N + b]

-----------------------------------------------------------------------------
\* Outside flush_output_buffer its variables do not exist.
Init ==
  /\ pend = [v \in VarIds |-> <<>>]
  /\ pc = "user"
  /\ var = 0
  /\ reqs = <<>>
  /\ ranges = <<>>
  /\ i = 0 /\ k = 0
  /\ cur = [p \in Procs |-> 0]
  /\ nblocks = 0
  /\ at = 0
  /\ waited = <<>>

\* write_darray_multi_par queues a request; every process counts one, also if
\* it has no data for it.
Queue(v, size) ==
  /\ pc = "user"
  /\ Cardinality(Pending) < MaxReqs
  /\ pend' = [pend EXCEPT ![v] = Append(@, size)]
  /\ UNCHANGED <<pc, var, reqs, ranges, i, k, cur, nblocks, at, waited>>

\* flush_output_buffer is forced, or the PnetCDF buffer is full.
Flush ==
  /\ pc = "user"
  /\ pc' = "collect"
  /\ UNCHANGED <<pend, var, reqs, ranges, i, k, cur, nblocks, at, waited>>

\* The requests of one variable are appended to *preqs.
Collect ==
  /\ pc = "collect" /\ var < NumVars
  /\ var' = var + 1
  /\ reqs' = reqs \o [n \in DOMAIN pend[var] |-> <<var, n>>]
  /\ UNCHANGED <<pend, pc, ranges, i, k, cur, nblocks, at, waited>>

\* The buffer is allocated, and zero.  No request, or one, needs no search;
\* otherwise the first block starts with the first request.
Collected ==
  /\ pc = "collect" /\ var = NumVars
  /\ ranges' = [n \in 0..2 * N - 1 |-> 0]
  /\ \/ N <= 1 /\ pc' = "wait" /\ nblocks' = N /\ UNCHANGED <<i, cur>>
     \/ N > 1 /\ pc' = "scan" /\ i' = 1 /\ cur' = SizeAt(0) /\ UNCHANGED nblocks
  /\ UNCHANGED <<pend, var, reqs, k, at, waited>>

\* Slip: only the root's own sizes are compared with the limit.
TooMuchForRoot(n) ==
  LET root == CHOOSE p \in Procs : TRUE IN cur[root] + SizeAt(n)[root] > Limit

\* Some process would have more than Limit in the block with request n.
TooMuch(n) == \E p \in Procs : cur[p] + SizeAt(n)[p] > Limit

\* The warning of a request above the limit is printed if the block that would
\* end with request i has no other request.
Warns == i - Starts(k) + 1 = 1

Extend ==
  /\ pc = "scan" /\ i < N /\ ~TooMuch(i)
  /\ ranges' = [ranges EXCEPT ![N + k] = i]
  /\ cur' = [p \in Procs |-> cur[p] + SizeAt(i)[p]]
  /\ i' = i + 1
  /\ UNCHANGED <<pend, pc, var, reqs, k, nblocks, at, waited>>

\* Slip: the block before keeps the request that is too much for it.
NewBlockOverlaps ==
  /\ pc = "scan" /\ i < N /\ TooMuch(i)
  /\ ranges' = [ranges EXCEPT ![N + k] = i, ![k + 1] = i, ![N + k + 1] = i]
  /\ k' = k + 1
  /\ cur' = SizeAt(i)
  /\ i' = i + 1
  /\ UNCHANGED <<pend, pc, var, reqs, nblocks, at, waited>>

\* The block ends before request i, which starts the next one.
NewBlock ==
  /\ pc = "scan" /\ i < N /\ TooMuch(i)
  /\ ranges' = [ranges EXCEPT ![N + k] = i - 1, ![k + 1] = i, ![N + k + 1] = i]
  /\ k' = k + 1
  /\ cur' = SizeAt(i)
  /\ i' = i + 1
  /\ UNCHANGED <<pend, pc, var, reqs, nblocks, at, waited>>

\* Slip: the index of the last block is counted up once more.
ScannedOneMore ==
  /\ pc = "scan" /\ i = N
  /\ nblocks' = k + 2
  /\ pc' = IF nblocks' = N THEN "wait" ELSE "copy"
  /\ k' = 0
  /\ UNCHANGED <<pend, var, reqs, ranges, i, cur, at, waited>>

\* With as many blocks as requests the two halves are in place already.
Scanned ==
  /\ pc = "scan" /\ i = N
  /\ nblocks' = k + 1
  /\ pc' = IF nblocks' = N THEN "wait" ELSE "copy"
  /\ k' = 0
  /\ UNCHANGED <<pend, var, reqs, ranges, i, cur, at, waited>>

\* Slip: the ends are copied one place too far.
CopyTooFar ==
  /\ pc = "copy" /\ k < nblocks
  /\ ranges' = [ranges EXCEPT ![nblocks + k + 1] = ranges[N + k]]
  /\ k' = k + 1
  /\ UNCHANGED <<pend, pc, var, reqs, i, cur, nblocks, at, waited>>

\* The ends are moved next to the starts, over what is left of the first half.
Copy ==
  /\ pc = "copy" /\ k < nblocks
  /\ ranges' = [ranges EXCEPT ![nblocks + k] = ranges[N + k]]
  /\ k' = k + 1
  /\ UNCHANGED <<pend, pc, var, reqs, i, cur, nblocks, at, waited>>

\* MPI_Bcast: from here all processes have the same blocks.
Copied ==
  /\ pc = "copy" /\ k = nblocks
  /\ pc' = "wait"
  /\ k' = 0
  /\ UNCHANGED <<pend, var, reqs, ranges, i, cur, nblocks, at, waited>>

\* ncmpi_wait_all on the next rcnt requests.
Wait ==
  /\ pc = "wait" /\ k < nblocks
  /\ LET rcnt == ranges[nblocks + k] - ranges[k] + 1
     IN  /\ waited' = Append(waited, <<at, at + rcnt - 1>>)
         /\ at' = at + rcnt
  /\ k' = k + 1
  /\ UNCHANGED <<pend, pc, var, reqs, ranges, i, cur, nblocks>>

\* All requests, of every variable, are taken to be complete.
Release ==
  /\ pc = "wait" /\ k = nblocks
  /\ pc' = "user"
  /\ pend' = [v \in VarIds |-> <<>>]
  /\ reqs' = <<>> /\ ranges' = <<>> /\ waited' = <<>>
  /\ cur' = [p \in Procs |-> 0]
  /\ var' = 0 /\ i' = 0 /\ k' = 0 /\ nblocks' = 0 /\ at' = 0

Next ==
  \/ \E v \in VarIds, size \in SizeOnProcs : Queue(v, size)
  \/ Flush \/ Collect \/ Collected
  \/ Extend \/ NewBlock \/ Scanned
  \/ Copy \/ Copied
  \/ Wait \/ Release

Spec == Init /\ [][Next]_vars

-----------------------------------------------------------------------------
(* Properties                                                              *)

\* The buffer of ranges holds indices of requests, and k and i stay within the
\* halves that the code uses them on.
TypeOK ==
  /\ pend \in [VarIds -> Seq(SizeOnProcs)]
  /\ pc \in {"user", "collect", "scan", "copy", "wait"}
  /\ var \in 0..NumVars
  /\ reqs \in Seq(RequestIds)
  /\ pc \in {"scan", "copy", "wait"} => ranges \in [0..2 * N - 1 -> 0..N - 1]
  /\ i \in Nat /\ k \in Nat /\ nblocks \in Nat /\ at \in Nat
  /\ pc = "scan" => i \in 1..N /\ k < i
  /\ pc \in {"copy", "wait"} => k <= nblocks /\ nblocks <= N
  /\ cur \in [Procs -> Nat]
  /\ waited \in Seq(Nat \X Nat)

\* The requests of one block, the last wait included.
Block(b) == waited[b][1]..waited[b][2]

\* When the requests are released, every one of them has been waited for, once
\* and in order: the waits cover the list without a gap or an overlap.
EveryRequestOnce ==
  /\ \A b \in DOMAIN waited :
       /\ waited[b][1] <= waited[b][2] /\ waited[b][2] < N
       /\ waited[b][1] = IF b = 1 THEN 0 ELSE waited[b - 1][2] + 1
  /\ pc = "wait" /\ k = nblocks =>
       IF N = 0 THEN waited = <<>>
       ELSE waited # <<>> /\ waited[Len(waited)][2] = N - 1

\* PartialSums(f, m)[n]: the sum of the first n of the m values of f.
PartialSums(f, m) ==
  LET s[n \in 0..m] == IF n = 0 THEN 0 ELSE s[n - 1] + f[n - 1] IN s

\* Totals[p][n]: what process p has in the first n requests.
Totals == [p \in Procs |-> PartialSums([n \in 0..N - 1 |-> SizeAt(n)[p]], N)]

\* What process p has in the requests from index a to index b.
Amount(p, a, b) == Totals[p][b + 1] - Totals[p][a]

\* "each block size <= file_req_block_sz_limit": no process is made to wait for more than
\* the limit at once, but for a single request that exceeds it alone; and no wait is wasted:
\* a block ends only where the next request would be too much for some process.
BlocksFit ==
  pc = "wait" => \A b \in DOMAIN waited :
    /\ \A p \in Procs :
         waited[b][1] = waited[b][2] \/ Amount(p, waited[b][1], waited[b][2]) <= Limit
    /\ b > 1 => \E p \in Procs : Amount(p, waited[b - 1][1], waited[b][1]) > Limit

\* get_file_req_blocks promises a warning if "any single request is >
\* file_req_block_sz_limit" (line 1775).  The block before has a request, so the one
\* that would end with i has two at least, and the warning is never printed.
NeverWarns == pc = "scan" /\ i < N => ~Warns
=============================================================================
