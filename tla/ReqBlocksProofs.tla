--------------------------- MODULE ReqBlocksProofs ---------------------------
(***************************************************************************)
(* For any number of processes, variables and requests of any size, the    *)
(* blocks that get_file_req_blocks finds, and compacts in place, are waited *)
(* for so that every request is completed exactly once and in order, keep  *)
(* to the limit, and are never shorter than it makes them.                 *)
(***************************************************************************)
EXTENDS ReqBlocks, SequenceTheorems, WellFoundedInduction, TLAPS

-----------------------------------------------------------------------------
(* The inductive invariant                                                 *)

\* The requests collected are requests of the file.
ReqsPending ==
  \A n \in DOMAIN reqs : reqs[n][2] \in DOMAIN pend[reqs[n][1]]

\* Outside the waiting loop nothing has been waited for.
NotWaiting ==
  /\ pc = "user" => reqs = <<>> /\ var = 0
  /\ pc # "wait" => waited = <<>> /\ at = 0
  /\ pc \in {"user", "collect"} => k = 0

\* Blocks 0..last of buffer r, their ends from index e on, cover the requests
\* up to index n: each begins where the one before ends.
Covers(r, e, last, n) ==
  /\ r[0] = 0
  /\ \A b \in 0..last : r[b] <= r[e + b]
  /\ \A b \in 0..last - 1 : r[b + 1] = r[e + b] + 1
  /\ r[e + last] = n

\* The block being built is the last of those that cover what is before request i.
ScanInv == pc = "scan" => N > 1 /\ Covers(ranges, N, k, i - 1)

\* Where the end of block b is while the ends are copied.
EndOf(b) == IF b < k THEN ranges[nblocks + b] ELSE ranges[N + b]

\* Copying keeps every start and every end: what it writes over is neither.
CopyInv ==
  pc = "copy" =>
    /\ 0 < nblocks /\ nblocks < N
    /\ ranges[0] = 0
    /\ \A b \in 0..nblocks - 1 : ranges[b] <= EndOf(b)
    /\ \A b \in 0..nblocks - 2 : ranges[b + 1] = EndOf(b) + 1
    /\ EndOf(nblocks - 1) = N - 1

\* The blocks before k have been waited for, and the pointer into the requests
\* is where block k starts.
WaitInv ==
  pc = "wait" =>
    /\ N = 0 => nblocks = 0
    /\ N > 0 => 0 < nblocks /\ Covers(ranges, nblocks, nblocks - 1, N - 1)
    /\ at = IF k < nblocks THEN ranges[k] ELSE N
    /\ Len(waited) = k
    /\ \A b \in 0..k - 1 : waited[b + 1] = <<ranges[b], ranges[nblocks + b]>>

ReqInv == TypeOK /\ ReqsPending /\ NotWaiting /\ ScanInv /\ CopyInv /\ WaitInv

\* With totals t a block from request a to request e keeps to the limit, or is a single
\* request; and with request e it would be too much for some process.
Fits(t, a, e) == a = e \/ \A p \in Procs : t[p][e + 1] - t[p][a] <= Limit
Overflows(t, a, e) == \E p \in Procs : t[p][e + 1] - t[p][a] > Limit

\* Blocks 0..last of buffer r, their ends from index e on, fit, and none of them could
\* have been longer.
FitIn(t, r, e, last) ==
  /\ \A b \in 0..last : Fits(t, r[b], r[e + b])
  /\ \A b \in 0..last - 1 : Overflows(t, r[b], r[b + 1])

\* What is counted in cur is what the block being built has so far.
ScanFit ==
  pc = "scan" => /\ FitIn(Totals, ranges, N, k)
                 /\ \A p \in Procs : cur[p] = Totals[p][i] - Totals[p][ranges[k]]

CopyFit ==
  pc = "copy" => /\ \A b \in 0..nblocks - 1 : Fits(Totals, ranges[b], EndOf(b))
                 /\ \A b \in 0..nblocks - 2 : Overflows(Totals, ranges[b], ranges[b + 1])

WaitFit == pc = "wait" => FitIn(Totals, ranges, nblocks, nblocks - 1)

FitInv == ScanFit /\ CopyFit /\ WaitFit

-----------------------------------------------------------------------------
LEMMA NType == ASSUME TypeOK PROVE N \in Nat
  BY DEF TypeOK, N

LEMMA SizeAtType ==
  ASSUME TypeOK, ReqsPending, NEW n \in 0..N - 1
  PROVE  SizeAt(n) \in SizeOnProcs
<1>1. n + 1 \in DOMAIN reqs
  BY DEF TypeOK, N
<1>2. reqs[n + 1] \in RequestIds
  BY <1>1 DEF TypeOK
<1> QED
  BY <1>1, <1>2 DEF TypeOK, ReqsPending, SizeAt, RequestIds

\* What a process has in a request is a number.
LEMMA SizeAtNat ==
  ASSUME TypeOK, ReqsPending, NEW n \in 0..N - 1
  PROVE  SizeAt(n) \in [Procs -> Nat]
  BY SizeAtType, ReqBlocksAssumption DEF SizeOnProcs

LEMMA InitReqInv == Init => ReqInv
<1> SUFFICES ASSUME Init PROVE ReqInv
  OBVIOUS
<1> USE ReqBlocksAssumption DEF Init
<1>1. TypeOK
  BY DEF TypeOK, VarIds, SizeOnProcs, RequestIds
<1> QED
  BY <1>1 DEF ReqInv, ReqsPending, NotWaiting, ScanInv, CopyInv, WaitInv

-----------------------------------------------------------------------------
(* The steps                                                               *)

LEMMA UserKeeps ==
  ASSUME ReqInv, (\E v \in VarIds, size \in SizeOnProcs : Queue(v, size)) \/ Flush
  PROVE  ReqInv'
<1> USE DEF ReqInv
<1>1. ASSUME NEW v \in VarIds, NEW size \in SizeOnProcs, Queue(v, size)
      PROVE  ReqInv'
  <2> USE <1>1 DEF Queue
  <2>1. TypeOK'
    BY DEF TypeOK, N
  <2>2. ReqsPending'
    BY DEF NotWaiting, ReqsPending
  <2> QED
    BY <2>1, <2>2 DEF NotWaiting, ScanInv, CopyInv, WaitInv
<1>2. ASSUME Flush PROVE ReqInv'
  BY <1>2 DEF Flush, TypeOK, N, ReqsPending, NotWaiting, ScanInv, CopyInv, WaitInv
<1> QED
  BY <1>1, <1>2

LEMMA CollectKeeps ==
  ASSUME ReqInv, Collect
  PROVE  ReqInv'
<1> USE DEF ReqInv
<1> DEFINE new == [n \in DOMAIN pend[var] |-> <<var, n>>]
<1>1. var \in VarIds /\ pend[var] \in Seq(SizeOnProcs)
  BY ReqBlocksAssumption DEF Collect, TypeOK, VarIds
<1>2. new \in Seq(RequestIds) /\ Len(new) = Len(pend[var])
  BY <1>1 DEF RequestIds
<1>3. reqs' = reqs \o new /\ pend' = pend /\ reqs \in Seq(RequestIds)
  BY DEF Collect, TypeOK
<1>4. /\ reqs' \in Seq(RequestIds)
      /\ Len(reqs') = Len(reqs) + Len(new)
      /\ \A n \in 1..Len(reqs) + Len(new) :
           reqs'[n] = IF n <= Len(reqs) THEN reqs[n] ELSE new[n - Len(reqs)]
  <2> HIDE DEF new
  <2> QED
    BY <1>2, <1>3, ConcatProperties, ZenonT(60)
<1>5. TypeOK'
  <2> HIDE DEF new
  <2>1. var' \in 0..NumVars
    BY <1>1, ReqBlocksAssumption DEF Collect, TypeOK, VarIds
  <2> QED
    BY <1>3, <1>4, <2>1 DEF Collect, TypeOK
<1>6. ReqsPending'
  <2> SUFFICES ASSUME NEW n \in DOMAIN reqs'
               PROVE  reqs'[n][2] \in DOMAIN pend[reqs'[n][1]]
    BY <1>3 DEF ReqsPending
  <2>1. n \in 1..Len(reqs) + Len(pend[var])
    BY <1>2, <1>4
  <2>2. CASE n <= Len(reqs)
    <3>1. n \in DOMAIN reqs /\ reqs'[n] = reqs[n]
      BY <1>2, <1>3, <1>4, <2>1, <2>2
    <3> QED
      BY <3>1 DEF ReqsPending
  <2>3. CASE n > Len(reqs)
    <3>1. n - Len(reqs) \in DOMAIN pend[var]
      BY <1>1, <1>3, <2>1, <2>3
    <3>2. reqs'[n] = new[n - Len(reqs)]
      <4> HIDE DEF new
      <4> QED
        BY <1>2, <1>3, <1>4, <2>1, <2>3
    <3> QED
      BY <3>1, <3>2
  <2> QED
    BY <1>1, <1>3, <2>1, <2>2, <2>3
<1> QED
  BY <1>5, <1>6 DEF Collect, NotWaiting, ScanInv, CopyInv, WaitInv

LEMMA CollectedKeeps ==
  ASSUME ReqInv, Collected
  PROVE  ReqInv'
<1> USE DEF ReqInv
<1>1. N \in Nat /\ pc = "collect" /\ k = 0 /\ at = 0 /\ waited = <<>>
  BY NType DEF Collected, NotWaiting
<1>2. /\ pend' = pend /\ reqs' = reqs /\ k' = k /\ at' = at /\ waited' = waited
      /\ var' = var /\ ranges' = [n \in 0..2 * N - 1 |-> 0]
  BY DEF Collected
<1>3. N' = N
  BY <1>2 DEF N
<1>4. ReqsPending'
  BY <1>2 DEF ReqsPending
<1>5. N > 0 => ranges' \in [0..2 * N - 1 -> 0..N - 1]
  BY <1>1, <1>2
<1>6. /\ pend' \in [VarIds -> Seq(SizeOnProcs)] /\ var' \in 0..NumVars
      /\ reqs' \in Seq(RequestIds) /\ waited' \in Seq(Nat \X Nat)
      /\ k' \in Nat /\ at' \in Nat
  BY <1>2 DEF TypeOK
<1>7. CASE N <= 1
  <2>1. pc' = "wait" /\ nblocks' = N /\ i' = i /\ cur' = cur
    BY <1>1, <1>7 DEF Collected
  <2>2. i' \in Nat /\ cur' \in [Procs -> Nat] /\ k' <= nblocks' /\ nblocks' <= N'
    BY <1>1, <1>2, <1>3, <2>1 DEF TypeOK
  <2>3. ranges' \in [0..2 * N - 1 -> 0..N - 1]
    <3>1. CASE N = 0
      BY <1>2, <3>1
    <3> QED
      BY <1>1, <1>5, <3>1
  <2>4. TypeOK'
    BY <1>1, <1>3, <1>6, <2>1, <2>2, <2>3 DEF TypeOK
  <2>5. N = 1 => ranges'[0] = 0 /\ ranges'[1] = 0
    BY <1>2
  <2>6. N > 0 => Covers(ranges', N, N - 1, N - 1)
    BY <1>1, <1>7, <2>5 DEF Covers
  <2>7. WaitInv'
    BY <1>1, <1>2, <1>3, <1>7, <2>1, <2>5, <2>6 DEF WaitInv
  <2> QED
    BY <1>1, <1>2, <1>4, <2>1, <2>4, <2>7 DEF NotWaiting, ScanInv, CopyInv
<1>8. CASE N > 1
  <2>1. pc' = "scan" /\ nblocks' = nblocks /\ i' = 1 /\ cur' = SizeAt(0)
    BY <1>1, <1>8 DEF Collected
  <2>2. cur' \in [Procs -> Nat]
    BY <1>1, <1>8, <2>1, SizeAtNat
  <2>3. nblocks' \in Nat
    BY <2>1 DEF TypeOK
  <2>4. TypeOK'
    BY <1>1, <1>2, <1>3, <1>5, <1>6, <1>8, <2>1, <2>2, <2>3 DEF TypeOK
  <2>5. ranges'[0] = 0 /\ ranges'[N] = 0
    BY <1>1, <1>2, <1>8
  <2>6. ScanInv'
    BY <1>1, <1>2, <1>3, <1>8, <2>1, <2>5 DEF ScanInv, Covers
  <2> QED
    BY <1>1, <1>2, <1>4, <2>1, <2>4, <2>6 DEF NotWaiting, CopyInv, WaitInv
<1> QED
  BY <1>1, <1>7, <1>8

(* Building the blocks in the two halves of an array r *)

\* The last block takes one request more.
LEMMA CoversExtend ==
  ASSUME NEW n \in Nat, NEW j \in 1..n - 1, NEW b \in 0..j - 1,
         NEW r \in [0..2 * n - 1 -> 0..n - 1], Covers(r, n, b, j - 1),
         NEW s, s = [r EXCEPT ![n + b] = j]
  PROVE  s \in [0..2 * n - 1 -> 0..n - 1] /\ Covers(s, n, b, j)
<1>1. s \in [0..2 * n - 1 -> 0..n - 1]
  OBVIOUS
<1>2. s[n + b] = j /\ \A c \in 0..2 * n - 1 : c # n + b => s[c] = r[c]
  OBVIOUS
<1>3. s[0] = 0
  BY <1>2 DEF Covers
<1>4. ASSUME NEW c \in 0..b PROVE s[c] <= s[n + c]
  <2>1. s[c] = r[c] /\ r[c] \in 0..n - 1 /\ r[c] <= r[n + c]
    BY <1>2, SMTT(30) DEF Covers
  <2>2. CASE c = b
    BY <1>2, <2>1, <2>2 DEF Covers
  <2>3. CASE c # b
    <3>1. s[n + c] = r[n + c]
      BY <1>2, <2>3
    <3> QED
      BY <2>1, <3>1
  <2> QED
    BY <2>2, <2>3
<1>5. ASSUME NEW c \in 0..b - 1 PROVE s[c + 1] = s[n + c] + 1
  <2>1. s[c + 1] = r[c + 1] /\ s[n + c] = r[n + c]
    BY <1>2, SMTT(30)
  <2> QED
    BY <2>1 DEF Covers
<1> QED
  BY <1>1, <1>2, <1>3, <1>4, <1>5 DEF Covers

AddBlock(r, n, b, j) == [r EXCEPT ![n + b] = j - 1, ![b + 1] = j, ![n + b + 1] = j]

Added(s, r, n, b, j) ==
  /\ s[b + 1] = j /\ s[n + (b + 1)] = j
  /\ \A c \in 0..b : s[c] = r[c] /\ s[n + c] = r[n + c]

\* The last block is closed before request j, which starts another.
LEMMA CoversNew ==
  ASSUME NEW n \in Nat, NEW j \in 1..n - 1, NEW b \in 0..j - 1,
         NEW r \in [0..2 * n - 1 -> 0..n - 1], Covers(r, n, b, j - 1),
         NEW s, s = AddBlock(r, n, b, j)
  PROVE  /\ s \in [0..2 * n - 1 -> 0..n - 1] /\ Covers(s, n, b + 1, j)
         /\ Added(s, r, n, b, j)
<1> DEFINE s1 == [r EXCEPT ![n + b] = j - 1]
           s2 == [s1 EXCEPT ![b + 1] = j]
<1>1. s1 \in [0..2 * n - 1 -> 0..n - 1] /\ s1 = r
  <2>1. n + b \in 0..2 * n - 1 /\ r[n + b] = j - 1
    BY DEF Covers
  <2> QED
    BY <2>1
<1>2. s2 \in [0..2 * n - 1 -> 0..n - 1]
  <2> HIDE DEF s1
  <2>1. b + 1 \in 0..2 * n - 1 /\ j \in 0..n - 1
    OBVIOUS
  <2> QED
    BY ONLY <1>1, <2>1
<1>3. s = [s2 EXCEPT ![n + b + 1] = j]
  BY DEF AddBlock
<1>4. /\ s \in [0..2 * n - 1 -> 0..n - 1] /\ s[n + b + 1] = j
      /\ \A c \in 0..2 * n - 1 : c # n + b + 1 => s[c] = s2[c]
  <2> DEFINE D == 0..2 * n - 1
             R == 0..n - 1
             x == n + b + 1
  <2>1. x \in D /\ j \in R
    OBVIOUS
  <2>2. s2 \in [D -> R] /\ s = [s2 EXCEPT ![x] = j]
    BY <1>2, <1>3
  <2> HIDE DEF s2, D, R, x
  <2>3. s \in [D -> R] /\ s[x] = j /\ \A c \in D : c # x => s[c] = s2[c]
    BY <2>1, <2>2
  <2> QED
    BY <2>3 DEF D, R, x
<1>5. s2 = [r EXCEPT ![b + 1] = j]
  BY <1>1
<1>6. s[b + 1] = j
      /\ \A c \in 0..2 * n - 1 : c \notin {b + 1, n + b + 1} => s[c] = r[c]
  <2> HIDE DEF s2
  <2>1. s2[b + 1] = j /\ \A c \in 0..2 * n - 1 : c # b + 1 => s2[c] = r[c]
    BY <1>5
  <2>2. b + 1 \in 0..2 * n - 1 /\ b + 1 # n + b + 1
    <3>1. n \in Nat /\ n > 0 /\ b \in Nat /\ b < n
      OBVIOUS
    <3> QED
      BY ONLY <3>1
  <2> QED
    BY <1>4, <2>1, <2>2
<1> HIDE DEF s1, s2
<1>7. ASSUME NEW c \in 0..b
      PROVE  s[c] = r[c] /\ s[n + c] = r[n + c]
  <2>1. c \in 0..2 * n - 1 /\ c \notin {b + 1, n + b + 1}
    OBVIOUS
  <2>2. n + c \in 0..2 * n - 1 /\ n + c \notin {b + 1, n + b + 1}
    OBVIOUS
  <2> QED
    BY <1>6, <2>1, <2>2
<1>8. s[b + 1] = j /\ s[n + (b + 1)] = j
  <2>1. n + (b + 1) = n + b + 1
    OBVIOUS
  <2> QED
    BY <1>4, <1>6, <2>1
<1>9. s[0] = 0
  BY <1>7, SMTT(30) DEF Covers
<1>10. \A c \in 0..b + 1 - 1 : s[c + 1] = s[n + c] + 1
  <2>1. ASSUME NEW c \in 0..b PROVE s[c + 1] = s[n + c] + 1
    <3>1. CASE c = b
      BY <1>7, <1>8, <3>1, SMTT(30) DEF Covers
    <3>2. CASE c # b
      <4>1. c + 1 \in 0..b /\ c \in 0..b - 1
        BY <3>2
      <4> QED
        BY <1>7, <4>1 DEF Covers
    <3> QED
      BY <3>1, <3>2
  <2>2. b + 1 - 1 = b
    OBVIOUS
  <2> QED
    BY <2>1, <2>2
<1>11. ASSUME NEW c \in 0..b + 1 PROVE s[c] <= s[n + c]
  <2>1. CASE c = b + 1
    BY <1>8, <2>1
  <2>2. CASE c # b + 1
    <3>1. c \in 0..b
      BY <2>2
    <3> QED
      BY <1>7, <3>1 DEF Covers
  <2> QED
    BY <2>1, <2>2
<1>12. Covers(s, n, b + 1, j)
  <2>1. s[n + (b + 1)] = j /\ \A c \in 0..b + 1 : s[c] <= s[n + c]
    BY <1>8, <1>11
  <2> QED
    BY ONLY <1>9, <1>10, <2>1 DEF Covers
<1> QED
  BY <1>4, <1>7, <1>8, <1>12 DEF Added

LEMMA ExtendKeeps ==
  ASSUME ReqInv, Extend
  PROVE  ReqInv'
<1> USE DEF ReqInv
<1>1. /\ pc = "scan" /\ i < N /\ pc' = pc /\ i' = i + 1 /\ k' = k
      /\ pend' = pend /\ reqs' = reqs /\ at' = at /\ waited' = waited
      /\ nblocks' = nblocks /\ var' = var
      /\ cur' = [p \in Procs |-> cur[p] + SizeAt(i)[p]]
  BY DEF Extend
<1>2. N' = N
  BY <1>1 DEF N
<1>3. /\ N \in Nat /\ i \in 1..N - 1 /\ k \in 0..i - 1
      /\ ranges \in [0..2 * N - 1 -> 0..N - 1]
  BY <1>1, NType DEF TypeOK
<1>4. Covers(ranges, N, k, i - 1)
  BY <1>1 DEF ScanInv
<1>5. ranges' = [ranges EXCEPT ![N + k] = i]
  BY DEF Extend
<1>6. ranges' \in [0..2 * N - 1 -> 0..N - 1] /\ Covers(ranges', N, k, i)
  BY <1>3, <1>4, <1>5, CoversExtend
<1>7. cur' \in [Procs -> Nat]
  <2>1. SizeAt(i) \in [Procs -> Nat]
    BY <1>3, SizeAtNat
  <2> HIDE DEF ReqInv
  <2> QED
    BY <1>1, <2>1 DEF ReqInv, TypeOK
<1>8. i' \in 1..N /\ k' < i' /\ k' \in Nat /\ i' \in Nat /\ i' - 1 = i
  BY <1>1, <1>3
<1>9. TypeOK'
  BY <1>1, <1>2, <1>6, <1>7, <1>8 DEF TypeOK
<1>10. ScanInv'
  BY <1>1, <1>2, <1>6, <1>8 DEF ScanInv
<1> QED
  BY <1>1, <1>9, <1>10 DEF ReqsPending, NotWaiting, CopyInv, WaitInv

LEMMA NewBlockKeeps ==
  ASSUME ReqInv, NewBlock
  PROVE  ReqInv'
<1> USE DEF ReqInv
<1>1. /\ pc = "scan" /\ i < N /\ pc' = pc /\ i' = i + 1 /\ k' = k + 1
      /\ pend' = pend /\ reqs' = reqs /\ at' = at /\ waited' = waited
      /\ nblocks' = nblocks /\ var' = var /\ cur' = SizeAt(i)
  BY DEF NewBlock
<1>2. N' = N
  BY <1>1 DEF N
<1>3. /\ N \in Nat /\ i \in 1..N - 1 /\ k \in 0..i - 1
      /\ ranges \in [0..2 * N - 1 -> 0..N - 1]
  BY <1>1, NType DEF TypeOK
<1>4. Covers(ranges, N, k, i - 1)
  BY <1>1 DEF ScanInv
<1>5. ranges' = AddBlock(ranges, N, k, i)
  BY DEF NewBlock, AddBlock
<1>6. ranges' \in [0..2 * N - 1 -> 0..N - 1] /\ Covers(ranges', N, k + 1, i)
  BY <1>3, <1>4, <1>5, CoversNew
<1>7. cur' \in [Procs -> Nat]
  BY <1>1, <1>3, SizeAtNat
<1>8. i' \in 1..N /\ k' < i' /\ k' \in Nat /\ i' \in Nat /\ i' - 1 = i
  BY <1>1, <1>3
<1>9. TypeOK'
  BY <1>1, <1>2, <1>6, <1>7, <1>8 DEF TypeOK
<1>10. ScanInv'
  BY <1>1, <1>2, <1>6, <1>8 DEF ScanInv
<1> QED
  BY <1>1, <1>9, <1>10 DEF ReqsPending, NotWaiting, CopyInv, WaitInv

LEMMA ScannedKeeps ==
  ASSUME ReqInv, Scanned
  PROVE  ReqInv'
<1> USE DEF ReqInv
<1>1. /\ pc = "scan" /\ i = N /\ nblocks' = k + 1 /\ k' = 0
      /\ pc' = IF nblocks' = N THEN "wait" ELSE "copy"
      /\ pend' = pend /\ var' = var /\ reqs' = reqs /\ ranges' = ranges
      /\ i' = i /\ cur' = cur /\ at' = at /\ waited' = waited
  BY DEF Scanned
<1>2. N' = N
  BY <1>1 DEF N
<1>3. /\ N \in Nat /\ k \in 0..N - 1 /\ N > 1
      /\ ranges \in [0..2 * N - 1 -> 0..N - 1]
      /\ at = 0 /\ waited = <<>>
  BY <1>1, NType DEF TypeOK, ScanInv, NotWaiting
<1>4. Covers(ranges, N, k, N - 1)
  BY <1>1 DEF ScanInv
<1>5. TypeOK'
  BY <1>1, <1>2, <1>3 DEF TypeOK
<1>6. ReqsPending'
  BY <1>1 DEF ReqsPending
<1>7. CASE k + 1 = N
  <2>1. pc' = "wait" /\ nblocks' = N /\ k = nblocks' - 1
    BY <1>1, <1>3, <1>7
  <2>2. Covers(ranges', nblocks', nblocks' - 1, N' - 1)
    BY <1>1, <1>2, <1>4, <2>1
  <2>3. ranges[0] = 0
    BY <1>4 DEF Covers
  <2>4. WaitInv'
    BY <1>1, <1>2, <1>3, <2>1, <2>2, <2>3 DEF WaitInv
  <2> QED
    BY <1>5, <1>6, <2>1, <2>4 DEF NotWaiting, ScanInv, CopyInv
<1>8. CASE k + 1 # N
  <2>1. pc' = "copy" /\ 0 < nblocks' /\ nblocks' < N' /\ nblocks' - 1 = k
        /\ nblocks' - 2 = k - 1
    BY <1>1, <1>2, <1>3, <1>8
  <2>2. ASSUME NEW b \in 0..k PROVE EndOf(b)' = ranges[N + b]
    BY <1>1, <1>2 DEF EndOf
  <2>3. CopyInv'
    <3> HIDE DEF ReqInv
    <3>1. ranges'[0] = 0
      BY <1>1, <1>4 DEF Covers
    <3>2. ASSUME NEW b \in 0..nblocks' - 1 PROVE ranges'[b] <= EndOf(b)'
      <4>1. b \in 0..k
        BY <2>1
      <4> QED
        BY <1>1, <1>4, <2>2, <4>1 DEF Covers
    <3>3. ASSUME NEW b \in 0..nblocks' - 2 PROVE ranges'[b + 1] = EndOf(b)' + 1
      <4>1. b \in 0..k - 1 /\ b \in 0..k
        BY <1>3, <2>1
      <4> QED
        BY <1>1, <1>4, <2>2, <4>1 DEF Covers
    <3>4. (IF k < k' THEN ranges[nblocks' + k] ELSE ranges[N + k]) = N - 1
      BY <1>1, <1>3, <1>4 DEF Covers
    <3>5. EndOf(nblocks - 1)' = N - 1
      BY <1>1, <1>2, <2>1, <3>4 DEF EndOf
    <3> QED
      BY <1>2, <2>1, <3>1, <3>2, <3>3, <3>5 DEF CopyInv, EndOf
  <2> QED
    BY <1>1, <1>3, <1>5, <1>6, <2>1, <2>3 DEF NotWaiting, ScanInv, WaitInv
<1> QED
  BY <1>7, <1>8

\* Copying one end leaves the starts alone, and each end can still be found.
LEMMA EndsStay ==
  ASSUME N \in Nat, nblocks \in 1..N - 1, k \in 0..nblocks - 1,
         ranges \in [0..2 * N - 1 -> 0..N - 1],
         ranges' = [ranges EXCEPT ![nblocks + k] = ranges[N + k]],
         k' = k + 1, nblocks' = nblocks, N' = N
  PROVE  \A b \in 0..nblocks - 1 : ranges'[b] = ranges[b] /\ EndOf(b)' = EndOf(b)
<1> SUFFICES ASSUME NEW b \in 0..nblocks - 1
             PROVE  ranges'[b] = ranges[b] /\ EndOf(b)' = EndOf(b)
  OBVIOUS
<1>1. /\ ranges'[nblocks + k] = ranges[N + k]
      /\ \A c \in 0..2 * N - 1 : c # nblocks + k => ranges'[c] = ranges[c]
  OBVIOUS
<1>2. ranges'[b] = ranges[b]
  BY <1>1
<1>3. EndOf(b)' = IF b < k + 1 THEN ranges'[nblocks + b] ELSE ranges'[N + b]
  BY DEF EndOf
<1>4. CASE b = k
  BY <1>1, <1>2, <1>3, <1>4 DEF EndOf
<1>5. CASE b < k
  <2>1. ranges'[nblocks + b] = ranges[nblocks + b]
    BY <1>1, <1>5
  <2> QED
    BY <1>2, <1>3, <1>5, <2>1 DEF EndOf
<1>6. CASE b > k
  <2>1. ranges'[N + b] = ranges[N + b]
    BY <1>1, <1>6
  <2> QED
    BY <1>2, <1>3, <1>6, <2>1 DEF EndOf
<1> QED
  BY <1>4, <1>5, <1>6

LEMMA CopyKeeps ==
  ASSUME ReqInv, Copy
  PROVE  ReqInv'
<1> USE DEF ReqInv
<1>1. /\ pc = "copy" /\ pc' = pc /\ k < nblocks /\ k' = k + 1
      /\ pend' = pend /\ var' = var /\ reqs' = reqs /\ nblocks' = nblocks
      /\ i' = i /\ cur' = cur /\ at' = at /\ waited' = waited
  BY DEF Copy
<1>2. N' = N
  BY <1>1 DEF N
<1>3. /\ N \in Nat /\ nblocks \in 1..N - 1 /\ k \in 0..nblocks - 1
      /\ ranges \in [0..2 * N - 1 -> 0..N - 1]
  BY <1>1, NType DEF TypeOK, CopyInv
<1>4. ranges' = [ranges EXCEPT ![nblocks + k] = ranges[N + k]]
  BY DEF Copy
<1>5. /\ ranges' \in [0..2 * N - 1 -> 0..N - 1]
      /\ ranges'[nblocks + k] = ranges[N + k]
      /\ \A b \in 0..2 * N - 1 : b # nblocks + k => ranges'[b] = ranges[b]
  BY <1>3, <1>4
<1>6. TypeOK'
  BY <1>1, <1>2, <1>3, <1>5 DEF TypeOK
<1>7. \A b \in 0..nblocks - 1 : ranges'[b] = ranges[b]
  BY <1>3, <1>5
<1>8. ASSUME NEW b \in 0..nblocks - 1
      PROVE  EndOf(b) = IF b < k + 1 THEN ranges'[nblocks + b] ELSE ranges'[N + b]
  <2>2. CASE b = k
    BY <1>3, <1>5, <2>2 DEF EndOf
  <2>3. CASE b < k
    <3>1. ranges'[nblocks + b] = ranges[nblocks + b]
      BY <1>3, <1>5, <2>3
    <3> QED
      BY <1>3, <2>3, <3>1 DEF EndOf
  <2>4. CASE b > k
    <3>1. ranges'[N + b] = ranges[N + b]
      BY <1>3, <1>5, <2>4
    <3> QED
      BY <1>3, <2>4, <3>1 DEF EndOf
  <2> QED
    BY <1>3, <2>2, <2>3, <2>4
<1>9. CopyInv'
  <2> HIDE DEF ReqInv
  <2>1. /\ 0 < nblocks /\ nblocks < N /\ ranges[0] = 0
        /\ \A b \in 0..nblocks - 1 : ranges[b] <= EndOf(b)
        /\ \A b \in 0..nblocks - 2 : ranges[b + 1] = EndOf(b) + 1
        /\ EndOf(nblocks - 1) = N - 1
    BY <1>1 DEF ReqInv, CopyInv
  <2>2. ranges'[0] = 0 /\ EndOf(nblocks - 1)' = N - 1
    <3>1. 0 \in 0..nblocks - 1 /\ nblocks - 1 \in 0..nblocks - 1
      BY <1>3
    <3>2. EndOf(nblocks - 1) =
            IF nblocks - 1 < k + 1 THEN ranges'[nblocks + (nblocks - 1)]
                                   ELSE ranges'[N + (nblocks - 1)]
      BY <1>8, <3>1
    <3> QED
      BY <1>1, <1>2, <1>7, <2>1, <3>1, <3>2 DEF EndOf
  <2>3. \A b \in 0..nblocks - 1 : ranges'[b] <= EndOf(b)'
    BY <1>1, <1>2, <1>7, <1>8, <2>1 DEF EndOf
  <2>4. ASSUME NEW b \in 0..nblocks - 2
        PROVE  ranges'[b + 1] = EndOf(b)' + 1
    <3>1. b \in 0..nblocks - 1 /\ b + 1 \in 0..nblocks - 1
      BY <1>3
    <3> QED
      BY <1>1, <1>2, <1>7, <1>8, <2>1, <3>1 DEF EndOf
  <2> QED
    BY <1>1, <1>2, <2>1, <2>2, <2>3, <2>4 DEF CopyInv, EndOf
<1> QED
  BY <1>1, <1>6, <1>9 DEF ReqsPending, NotWaiting, ScanInv, WaitInv

LEMMA CopiedKeeps ==
  ASSUME ReqInv, Copied
  PROVE  ReqInv'
<1> USE DEF ReqInv
<1>1. /\ pc = "copy" /\ pc' = "wait" /\ k = nblocks /\ k' = 0
      /\ pend' = pend /\ var' = var /\ reqs' = reqs /\ nblocks' = nblocks
      /\ ranges' = ranges /\ i' = i /\ cur' = cur /\ at' = at /\ waited' = waited
  BY DEF Copied
<1>2. N' = N
  BY <1>1 DEF N
<1>3. N \in Nat /\ nblocks \in 1..N - 1 /\ at = 0 /\ waited = <<>>
  BY <1>1, NType DEF TypeOK, CopyInv, NotWaiting
<1>4. \A b \in 0..nblocks - 1 : EndOf(b) = ranges[nblocks + b]
  BY <1>1, <1>3 DEF EndOf
<1>5. Covers(ranges, nblocks, nblocks - 1, N - 1)
  <2>1. ranges[0] = 0 /\ ranges[nblocks + (nblocks - 1)] = N - 1
    BY <1>1, <1>3, <1>4 DEF CopyInv
  <2>2. \A b \in 0..nblocks - 1 : ranges[b] <= ranges[nblocks + b]
    BY <1>1, <1>4 DEF CopyInv
  <2>3. ASSUME NEW b \in 0..nblocks - 1 - 1
        PROVE  ranges[b + 1] = ranges[nblocks + b] + 1
    <3>1. b \in 0..nblocks - 2 /\ b \in 0..nblocks - 1
      BY <1>3
    <3>2. ranges[b + 1] = EndOf(b) + 1
      BY <1>1, <3>1 DEF CopyInv
    <3> QED
      BY <1>4, <3>1, <3>2
  <2> QED
    BY <2>1, <2>2, <2>3 DEF Covers
<1>6. TypeOK'
  BY <1>1, <1>2, <1>3 DEF TypeOK
<1>7. WaitInv'
  <2>1. ranges[0] = 0
    BY <1>5 DEF Covers
  <2> QED
    BY <1>1, <1>2, <1>3, <1>5, <2>1 DEF WaitInv
<1> QED
  BY <1>1, <1>6, <1>7 DEF ReqsPending, NotWaiting, ScanInv, CopyInv

LEMMA WaitKeeps ==
  ASSUME ReqInv, Wait
  PROVE  ReqInv'
<1> USE DEF ReqInv
<1>1. /\ pc = "wait" /\ pc' = pc /\ k < nblocks /\ k' = k + 1
      /\ pend' = pend /\ var' = var /\ reqs' = reqs /\ nblocks' = nblocks
      /\ ranges' = ranges /\ i' = i /\ cur' = cur
  BY DEF Wait
<1>2. N' = N
  BY <1>1 DEF N
<1>3. /\ N \in Nat /\ nblocks \in 1..N /\ k \in 0..nblocks - 1
      /\ ranges \in [0..2 * N - 1 -> 0..N - 1]
      /\ Covers(ranges, nblocks, nblocks - 1, N - 1)
      /\ at = ranges[k] /\ Len(waited) = k /\ waited \in Seq(Nat \X Nat)
  BY <1>1, NType DEF TypeOK, WaitInv
<1> DEFINE last == ranges[nblocks + k]
<1>4. last \in 0..N - 1 /\ at \in 0..N - 1
  BY <1>3
<1>5. at' = last + 1 /\ waited' = Append(waited, <<at, last>>)
  <2>1. at \in Nat /\ last \in Nat /\ ranges[k] = at
    BY <1>3, <1>4
  <2>2. at + (last - ranges[k] + 1) = last + 1
        /\ at + (last - ranges[k] + 1) - 1 = last
    <3> HIDE DEF last
    <3> QED
      BY ONLY <2>1
  <2> QED
    BY <2>2 DEF Wait
<1>6. at' = IF k' < nblocks THEN ranges[k'] ELSE N
  <2>1. CASE k + 1 < nblocks
    <3>1. k \in 0..nblocks - 1 - 1
      BY <1>3, <2>1
    <3>2. ranges[k + 1] = ranges[nblocks + k] + 1
      BY <1>3, <3>1 DEF Covers
    <3> QED
      BY <1>1, <1>5, <2>1, <3>2
  <2>2. CASE k + 1 = nblocks
    <3>1. nblocks + (nblocks - 1) = nblocks + k
      BY <1>3, <2>2
    <3>2. last = N - 1
      BY <1>3, <3>1 DEF Covers
    <3> QED
      BY <1>1, <1>3, <1>5, <2>2, <3>2
  <2> QED
    BY <1>3, <2>1, <2>2
<1>7. /\ waited' \in Seq(Nat \X Nat) /\ Len(waited') = k + 1
      /\ \A b \in 1..k : waited'[b] = waited[b]
      /\ waited'[k + 1] = <<at, last>>
  <2>1. <<at, last>> \in Nat \X Nat
    BY <1>4
  <2> DEFINE S == Nat \X Nat
             e == <<at, last>>
  <2>2. waited \in Seq(S) /\ e \in S /\ waited' = Append(waited, e)
    BY <1>3, <1>5, <2>1
  <2> HIDE DEF last, S, e, ReqInv
  <2>3. /\ waited' \in Seq(S) /\ Len(waited') = Len(waited) + 1
        /\ \A b \in 1..Len(waited) : waited'[b] = waited[b]
        /\ waited'[Len(waited) + 1] = e
    BY <2>2, AppendProperties
  <2>4. Len(waited) = k
    BY <1>3
  <2> QED
    BY <2>3, <2>4 DEF S, e
<1>8. TypeOK'
  <2>1. at' \in Nat /\ k' \in Nat /\ k' <= nblocks /\ nblocks \in Nat
    BY <1>1, <1>3, <1>4, <1>5, SMTT(30)
  <2> HIDE DEF last
  <2> QED
    BY <1>1, <1>2, <1>7, <2>1 DEF TypeOK
<1>9. ASSUME NEW b \in 0..k
      PROVE  waited'[b + 1] = <<ranges[b], ranges[nblocks + b]>>
  <2>1. CASE b = k
    BY <1>3, <1>7, <2>1
  <2>2. CASE b # k
    <3>1. b \in 0..k - 1 /\ b + 1 \in 1..k
      BY <1>3, <2>2
    <3>2. waited[b + 1] = <<ranges[b], ranges[nblocks + b]>>
      BY <1>1, <3>1 DEF WaitInv
    <3> QED
      BY <1>7, <3>1, <3>2
  <2> QED
    BY <2>1, <2>2
<1>10. WaitInv'
  <2> HIDE DEF last
  <2>1. \A b \in 0..k' - 1 : waited'[b + 1] = <<ranges[b], ranges[nblocks + b]>>
    <3>1. k' - 1 = k
      BY <1>1, <1>3
    <3> QED
      BY <1>9, <3>1
  <2> QED
    BY <1>1, <1>2, <1>3, <1>6, <1>7, <2>1 DEF WaitInv
<1> QED
  BY <1>1, <1>8, <1>10 DEF ReqsPending, NotWaiting, ScanInv, CopyInv

LEMMA ReleaseKeeps ==
  ASSUME ReqInv, Release
  PROVE  ReqInv'
<1>1. TypeOK'
  BY ReqBlocksAssumption DEF Release, TypeOK, SizeOnProcs
<1> QED
  BY <1>1 DEF ReqInv, Release, ReqsPending, NotWaiting, ScanInv, CopyInv, WaitInv

-----------------------------------------------------------------------------
LEMMA ReqInvInductive == Spec => []ReqInv
<1>1. ReqInv /\ [Next]_vars => ReqInv'
  <2> SUFFICES ASSUME ReqInv, [Next]_vars PROVE ReqInv'
    OBVIOUS
  <2>1. CASE Next
    BY <2>1, UserKeeps, CollectKeeps, CollectedKeeps, ExtendKeeps, NewBlockKeeps,
       ScannedKeeps, CopyKeeps, CopiedKeeps, WaitKeeps, ReleaseKeeps DEF Next
  <2>2. CASE UNCHANGED vars
    BY <2>2 DEF vars, ReqInv, TypeOK, N, ReqsPending, NotWaiting, ScanInv,
                CopyInv, EndOf, WaitInv
  <2> QED
    BY <2>1, <2>2
<1> QED
  BY InitReqInv, <1>1, PTL DEF Spec

\* The buffer of ranges, and the indices into it, stay within bounds, whatever
\* the number of requests and their sizes.
THEOREM ReqBlocksTypeCorrect == Spec => []TypeOK
  BY ReqInvInductive, PTL DEF ReqInv

\* Every pending request of the file is waited for once and in order, whatever
\* the limit and the sizes, and however many blocks that takes.
THEOREM RequestsWaitedOnce == Spec => []EveryRequestOnce
<1>1. ReqInv => EveryRequestOnce
  <2> SUFFICES ASSUME ReqInv PROVE EveryRequestOnce
    OBVIOUS
  <2> USE DEF ReqInv
  <2>1. CASE pc # "wait"
    BY <2>1 DEF NotWaiting, EveryRequestOnce
  <2>2. CASE pc = "wait"
    <3>1. /\ N \in Nat /\ nblocks \in 0..N /\ k \in 0..nblocks
          /\ ranges \in [0..2 * N - 1 -> 0..N - 1]
          /\ waited \in Seq(Nat \X Nat) /\ Len(waited) = k
          /\ N = 0 => nblocks = 0
          /\ N > 0 => nblocks > 0 /\ Covers(ranges, nblocks, nblocks - 1, N - 1)
      BY <2>2, NType DEF TypeOK, WaitInv
    <3>2. \A b \in 0..k - 1 : waited[b + 1] = <<ranges[b], ranges[nblocks + b]>>
      BY <2>2 DEF WaitInv
    <3>3. ASSUME NEW b \in DOMAIN waited
          PROVE  /\ waited[b][1] <= waited[b][2] /\ waited[b][2] < N
                 /\ waited[b][1] = IF b = 1 THEN 0 ELSE waited[b - 1][2] + 1
      <4>1. /\ b \in 1..k /\ b - 1 \in 0..k - 1 /\ N > 0
            /\ b - 1 \in 0..nblocks - 1 /\ b - 1 + 1 = b
        <5>1. b \in 1..k
          BY <3>1
        <5>2. k \in Nat /\ nblocks \in Nat /\ N \in Nat /\ k <= nblocks /\ nblocks <= N
          BY <3>1
        <5> QED
          BY ONLY <5>1, <5>2
      <4>2. waited[b] = <<ranges[b - 1], ranges[nblocks + (b - 1)]>>
        <5> QED
          BY <3>2, <4>1
      <4>3. ranges[b - 1] <= ranges[nblocks + (b - 1)]
        BY <3>1, <4>1 DEF Covers
      <4>4. ranges[nblocks + (b - 1)] \in 0..N - 1 /\ ranges[b - 1] \in 0..N - 1
        <5>1. nblocks + (b - 1) \in 0..2 * N - 1 /\ b - 1 \in 0..2 * N - 1
          <6>1. N \in Nat /\ nblocks \in 0..N
            BY <3>1
          <6> QED
            BY ONLY <4>1, <6>1
        <5> QED
          BY <3>1, <5>1
      <4>5. CASE b = 1
        BY <3>1, <4>1, <4>2, <4>3, <4>4, <4>5, SMTT(30) DEF Covers
      <4>6. CASE b # 1
        <5>1. b - 2 \in 0..k - 1 /\ b - 2 \in 0..nblocks - 1 - 1
              /\ b - 2 + 1 = b - 1
          <6>1. b \in 2..k /\ k \in 0..nblocks /\ nblocks \in Nat
            BY <3>1, <4>1, <4>6, SMTT(30)
          <6> QED
            BY <6>1
        <5>2. waited[b - 1] = <<ranges[b - 2], ranges[nblocks + (b - 2)]>>
          BY <3>2, <5>1
        <5>3. ranges[b - 1] = ranges[nblocks + (b - 2)] + 1
          BY <3>1, <4>1, <5>1 DEF Covers
        <5> QED
          <6>1. waited[b][1] = ranges[b - 1] /\ waited[b - 1][2] + 1 = ranges[b - 1]
            BY <4>2, <5>2, <5>3
          <6>2. waited[b][1] <= waited[b][2] /\ waited[b][2] < N
            <7>1. waited[b][1] <= waited[b][2]
              BY <4>2, <4>3
            <7>2. waited[b][2] \in 0..N - 1
              BY <4>2, <4>4
            <7>3. N \in Nat
              BY <3>1
            <7> QED
              BY <7>1, <7>2, <7>3
          <6> QED
            BY <4>6, <6>1, <6>2
      <4> QED
        BY <4>5, <4>6
    <3>4. ASSUME k = nblocks
          PROVE  IF N = 0 THEN waited = <<>>
                 ELSE waited # <<>> /\ waited[Len(waited)][2] = N - 1
      <4>1. CASE N = 0
        BY <3>1, <3>4, <4>1
      <4>2. CASE N # 0
        <5>1. k - 1 \in 0..k - 1 /\ k - 1 + 1 = k
          BY <3>1, <3>4, <4>2
        <5>2. waited[k] = <<ranges[k - 1], ranges[nblocks + (k - 1)]>>
          BY <3>2, <5>1
        <5>3. ranges[nblocks + (k - 1)] = N - 1
          BY <3>1, <3>4, <4>2 DEF Covers
        <5> QED
          BY <3>1, <4>2, <5>1, <5>2, <5>3
      <4> QED
        BY <4>1, <4>2
    <3> QED
      BY <3>3, <3>4 DEF EveryRequestOnce
  <2> QED
    BY <2>1, <2>2
<1> QED
  BY ReqInvInductive, <1>1, PTL

\* The warning of a request above the limit is never printed: the test for it
\* counts the request into the block before, which has one already.
THEOREM WarningUnreachable == Spec => []NeverWarns
<1>1. ReqInv => NeverWarns
  <2> SUFFICES ASSUME ReqInv, pc = "scan", i < N PROVE ~Warns
    BY DEF NeverWarns
  <2>1. /\ N \in Nat /\ i \in 1..N - 1 /\ k \in 0..i - 1
        /\ ranges \in [0..2 * N - 1 -> 0..N - 1]
        /\ Covers(ranges, N, k, i - 1)
    BY NType DEF ReqInv, TypeOK, ScanInv
  <2>2. ranges[k] <= i - 1 /\ ranges[k] \in Nat
    BY <2>1 DEF Covers
  <2> QED
    BY <2>1, <2>2 DEF Warns, Starts
<1> QED
  BY ReqInvInductive, <1>1, PTL

-----------------------------------------------------------------------------
(* Sums                                                                    *)

\* Induction on the natural numbers, with a set in place of a predicate: the order is
\* well founded, ...
LEMMA LessThanWF ==
  \E R : IsWellFoundedOn(R, Nat) /\ \A x, y \in Nat : x < y => <<x, y>> \in R
<1> DEFINE L == OpToRel(<, Nat)
<1>1. IsWellFoundedOn(L, Nat)
  BY NatLessThanWellFounded
<1>2. \A x, y \in Nat : x < y => <<x, y>> \in L
  BY DEF OpToRel
<1>3. QED
  <2> HIDE DEF L
  <2> QED
    BY <1>1, <1>2, Zenon

\* ... so that a set of numbers that is not empty has a least one, ...
LEMMA LeastOf ==
  ASSUME NEW T \in SUBSET Nat, T # {}
  PROVE  \E x \in T : \A y \in T : x <= y
<1>1. PICK R : IsWellFoundedOn(R, Nat) /\ \A x, y \in Nat : x < y => <<x, y>> \in R
  BY LessThanWF
<1>2. IsWellFoundedOn(R, Nat) /\ T \subseteq Nat
  BY <1>1
<1>3. PICK x \in T : \A y \in T : ~ (<<y, x>> \in R)
  BY <1>2, WFMin
<1>5. \A y \in T : ~ (y < x)
  BY <1>1, <1>3
<1>4. QED
  BY <1>3, <1>5

\* ... and a set with 0 and the successor of each of its members has them all.
LEMMA Induct ==
  ASSUME NEW S \in SUBSET Nat, 0 \in S, \A n \in S : n + 1 \in S
  PROVE  S = Nat
<1>1. SUFFICES ASSUME Nat \ S # {} PROVE FALSE
  OBVIOUS
<1>2. PICK x \in Nat \ S : \A y \in Nat \ S : x <= y
  BY <1>1, LeastOf
<1>3. x # 0 /\ x - 1 \in Nat /\ x - 1 \in S
  BY <1>2
<1>4. QED
  BY <1>2, <1>3

\* There is a function that the recursive definition of PartialSums describes.
LEMMA PartialSumsExist ==
  ASSUME NEW m \in Nat, NEW f
  PROVE  \E s : s = [n \in 0..m |-> IF n = 0 THEN 0 ELSE s[n - 1] + f[n - 1]]
<1> DEFINE S == {j \in Nat : \E s : s = [n \in 0..j |-> IF n = 0 THEN 0 ELSE s[n - 1] + f[n - 1]]}
<1>1. 0 \in S
  <2> DEFINE s == [n \in 0..0 |-> 0]
  <2>1. s = [n \in 0..0 |-> IF n = 0 THEN 0 ELSE s[n - 1] + f[n - 1]]
    OBVIOUS
  <2>2. QED
    BY <2>1
<1>2. ASSUME NEW j \in S PROVE j + 1 \in S
  <2>1. PICK s : s = [n \in 0..j |-> IF n = 0 THEN 0 ELSE s[n - 1] + f[n - 1]]
    OBVIOUS
  <2> DEFINE t == [n \in 0..(j + 1) |-> IF n <= j THEN s[n] ELSE s[j] + f[j]]
  <2>2. \A n \in 0..j : s[n] = IF n = 0 THEN 0 ELSE s[n - 1] + f[n - 1]
    BY <2>1
  <2>3. \A n \in 0..(j + 1) : t[n] = IF n = 0 THEN 0 ELSE t[n - 1] + f[n - 1]
    BY <2>2
  <2>4. t = [n \in 0..(j + 1) |-> IF n = 0 THEN 0 ELSE t[n - 1] + f[n - 1]]
    BY <2>3
  <2>5. \E u : u = [n \in 0..(j + 1) |-> IF n = 0 THEN 0 ELSE u[n - 1] + f[n - 1]]
    <3> HIDE DEF t
    <3>1. QED
      BY <2>4
  <2>6. QED
    BY <2>5
<1>3. S = Nat
  <2> HIDE DEF S
  <2>1. S \in SUBSET Nat
    BY DEF S
  <2>2. QED
    BY <1>1, <1>2, <2>1, Induct
<1>4. m \in S
  BY <1>3
<1>5. QED
  BY <1>4

LEMMA PartialSumsProperties ==
  ASSUME NEW m \in Nat, NEW f, \A n \in 0..m - 1 : f[n] \in Nat
  PROVE  /\ PartialSums(f, m)[0] = 0
         /\ \A n \in 0..m - 1 : PartialSums(f, m)[n + 1] = PartialSums(f, m)[n] + f[n]
         /\ \A n \in 0..m : PartialSums(f, m)[n] \in Nat
<1> DEFINE s == PartialSums(f, m)
<1>1. s = [n \in 0..m |-> IF n = 0 THEN 0 ELSE s[n - 1] + f[n - 1]]
  BY PartialSumsExist DEF PartialSums
<1> HIDE DEF s
<1>2. \A n \in 0..m : s[n] = IF n = 0 THEN 0 ELSE s[n - 1] + f[n - 1]
  BY <1>1
<1>3. s[0] = 0 /\ \A n \in 0..m - 1 : s[n + 1] = s[n] + f[n]
  BY <1>2
<1> DEFINE S == {n \in Nat : n <= m => s[n] \in Nat}
<1>4. 0 \in S
  BY <1>3
<1>5. ASSUME NEW n \in S PROVE n + 1 \in S
  BY <1>3
<1>6. S = Nat
  <2> HIDE DEF S
  <2>1. S \in SUBSET Nat
    BY DEF S
  <2>2. QED
    BY <1>4, <1>5, <2>1, Induct
<1>7. \A n \in 0..m : n \in S
  BY <1>6
<1>8. QED
  BY <1>3, <1>7 DEF s

\* What a process has in the first n + 1 requests.
LEMMA TotalsProperties ==
  ASSUME TypeOK, ReqsPending, NEW p \in Procs
  PROVE  /\ \A n \in 0..N : Totals[p][n] \in Nat
         /\ \A n \in 0..N - 1 : Totals[p][n + 1] = Totals[p][n] + SizeAt(n)[p]
<1> DEFINE f == [n \in 0..N - 1 |-> SizeAt(n)[p]]
<1>1. N \in Nat
  BY NType
<1>2. \A n \in 0..N - 1 : f[n] = SizeAt(n)[p] /\ f[n] \in Nat
  BY SizeAtNat
<1>3. Totals[p] = PartialSums(f, N)
  BY DEF Totals
<1> HIDE DEF f
<1> QED
  BY <1>1, <1>2, <1>3, PartialSumsProperties

LEMMA TotalsSame ==
  ASSUME UNCHANGED <<pend, reqs>>
  PROVE  Totals' = Totals
<1>1. N' = N /\ \A n : SizeAt(n)' = SizeAt(n)
  BY DEF N, SizeAt
<1>2. ASSUME NEW p \in Procs
      PROVE  [n \in 0..N - 1 |-> SizeAt(n)[p]]' = [n \in 0..N - 1 |-> SizeAt(n)[p]]
  BY <1>1
<1> QED
  BY <1>1, <1>2, Zenon DEF Totals

-----------------------------------------------------------------------------
(* The blocks fit                                                          *)

LEMMA FitExtend ==
  ASSUME NEW n \in Nat, NEW j \in 1..n - 1, NEW b \in 0..j - 1,
         NEW r \in [0..2 * n - 1 -> 0..n - 1], NEW t, FitIn(t, r, n, b), Fits(t, r[b], j),
         NEW s, s = [r EXCEPT ![n + b] = j]
  PROVE  FitIn(t, s, n, b) /\ s[b] = r[b]
<1>1. s[n + b] = j /\ \A c \in 0..2 * n - 1 : c # n + b => s[c] = r[c]
  OBVIOUS
<1>2. \A c \in 0..b : s[c] = r[c]
  BY <1>1
<1>3. ASSUME NEW c \in 0..b PROVE Fits(t, s[c], s[n + c])
  <2>1. CASE c = b
    BY <1>1, <1>2, <2>1
  <2>2. CASE c # b
    <3>1. s[n + c] = r[n + c]
      BY <1>1, <2>2
    <3> QED
      BY <1>2, <3>1 DEF FitIn
  <2> QED
    BY <2>1, <2>2
<1>4. ASSUME NEW c \in 0..b - 1 PROVE Overflows(t, s[c], s[c + 1])
  <2>1. c \in 0..b /\ c + 1 \in 0..b
    OBVIOUS
  <2> QED
    BY <1>2, <2>1 DEF FitIn
<1> QED
  BY <1>2, <1>3, <1>4 DEF FitIn

LEMMA FitNew ==
  ASSUME NEW n \in Nat, NEW b \in Nat, NEW j, NEW r, NEW t, FitIn(t, r, n, b),
         Overflows(t, r[b], j), NEW s, s[b + 1] = j, s[n + (b + 1)] = j,
         \A c \in 0..b : s[c] = r[c] /\ s[n + c] = r[n + c]
  PROVE  FitIn(t, s, n, b + 1)
<1>1. ASSUME NEW c \in 0..b + 1 PROVE Fits(t, s[c], s[n + c])
  <2>1. CASE c = b + 1
    BY <2>1 DEF Fits
  <2>2. CASE c # b + 1
    <3>1. c \in 0..b
      BY <2>2
    <3> QED
      BY <3>1 DEF FitIn
  <2> QED
    BY <2>1, <2>2
<1>2. ASSUME NEW c \in 0..b PROVE Overflows(t, s[c], s[c + 1])
  <2>1. CASE c = b
    BY <2>1
  <2>2. CASE c # b
    <3>1. c \in 0..b - 1 /\ c + 1 \in 0..b
      BY <2>2
    <3> QED
      BY <3>1 DEF FitIn
  <2> QED
    BY <2>1, <2>2
<1>3. b + 1 - 1 = b
  OBVIOUS
<1> QED
  BY <1>1, <1>2, <1>3 DEF FitIn

LEMMA CollectedFits ==
  ASSUME ReqInv, FitInv, Collected
  PROVE  FitInv'
<1> USE DEF ReqInv
<1>1. N \in Nat /\ pc = "collect" /\ k = 0
  BY NType DEF Collected, NotWaiting
<1>2. UNCHANGED <<pend, reqs>> /\ k' = 0 /\ ranges' = [n \in 0..2 * N - 1 |-> 0] /\ N' = N
  BY <1>1 DEF Collected, N
<1>3. Totals' = Totals
  BY <1>2, TotalsSame
<1>4. CASE N <= 1
  <2>1. pc' = "wait" /\ nblocks' = N
    BY <1>1, <1>4 DEF Collected
  <2>2. N = 1 => ranges'[0] = 0 /\ ranges'[1] = 0
    BY <1>2
  <2>3. FitIn(Totals, ranges', N, N - 1)
    BY <1>1, <1>4, <2>2 DEF FitIn, Fits
  <2> QED
    BY <1>3, <2>1, <2>3 DEF FitInv, ScanFit, CopyFit, WaitFit
<1>5. CASE N > 1
  <2>1. pc' = "scan" /\ i' = 1 /\ cur' = SizeAt(0)
    BY <1>1, <1>5 DEF Collected
  <2>2. ranges'[0] = 0 /\ ranges'[N] = 0
    BY <1>1, <1>2, <1>5
  <2>3. FitIn(Totals, ranges', N, 0)
    BY <1>1, <1>5, <2>2 DEF FitIn, Fits
  <2>4. ASSUME NEW p \in Procs PROVE cur'[p] = Totals[p][1] - Totals[p][0]
    <3>1. 0 \in 0..N - 1 /\ 0 \in 0..N
      BY <1>1, <1>5
    <3>2. Totals[p][0 + 1] = Totals[p][0] + SizeAt(0)[p] /\ Totals[p][0] \in Nat
      BY <3>1, TotalsProperties
    <3>3. SizeAt(0)[p] \in Nat
      BY <3>1, SizeAtNat
    <3> QED
      BY <2>1, <3>2, <3>3
  <2> QED
    BY <1>2, <1>3, <2>1, <2>2, <2>3, <2>4 DEF FitInv, ScanFit, CopyFit, WaitFit
<1> QED
  BY <1>1, <1>4, <1>5

\* The totals of the block being built, with request i.
LEMMA WithNext ==
  ASSUME ReqInv, FitInv, pc = "scan", i < N, NEW p \in Procs
  PROVE  /\ Totals[p][i] \in Nat /\ Totals[p][ranges[k]] \in Nat /\ SizeAt(i)[p] \in Nat
         /\ Totals[p][i + 1] = Totals[p][i] + SizeAt(i)[p]
         /\ cur[p] = Totals[p][i] - Totals[p][ranges[k]]
         /\ Totals[p][i + 1] - Totals[p][ranges[k]] = cur[p] + SizeAt(i)[p]
<1>1. /\ N \in Nat /\ i \in 1..N - 1 /\ k \in 0..i - 1
      /\ ranges \in [0..2 * N - 1 -> 0..N - 1]
  BY NType DEF ReqInv, TypeOK
<1>2. ranges[k] \in 0..N /\ i \in 0..N /\ i \in 0..N - 1
  BY <1>1
<1>3. /\ Totals[p][i] \in Nat /\ Totals[p][ranges[k]] \in Nat
      /\ Totals[p][i + 1] = Totals[p][i] + SizeAt(i)[p]
  BY <1>2, TotalsProperties DEF ReqInv
<1>4. SizeAt(i)[p] \in Nat
  BY <1>2, SizeAtNat DEF ReqInv
<1>5. cur[p] = Totals[p][i] - Totals[p][ranges[k]]
  BY DEF FitInv, ScanFit
<1> QED
  BY <1>3, <1>4, <1>5

LEMMA ExtendFits ==
  ASSUME ReqInv, FitInv, Extend
  PROVE  FitInv'
<1>1. /\ pc = "scan" /\ i < N /\ pc' = pc /\ i' = i + 1 /\ k' = k /\ ~TooMuch(i)
      /\ UNCHANGED <<pend, reqs>> /\ ranges' = [ranges EXCEPT ![N + k] = i]
      /\ cur' = [p \in Procs |-> cur[p] + SizeAt(i)[p]]
  BY DEF Extend
<1>2. N' = N /\ Totals' = Totals
  BY <1>1, TotalsSame DEF N
<1>3. /\ N \in Nat /\ i \in 1..N - 1 /\ k \in 0..i - 1
      /\ ranges \in [0..2 * N - 1 -> 0..N - 1]
  BY <1>1, NType, SMTT(30) DEF ReqInv, TypeOK
<1>4. Fits(Totals, ranges[k], i)
  <2>1. \A p \in Procs : cur[p] + SizeAt(i)[p] <= Limit
    <3>1. \A p \in Procs : cur[p] + SizeAt(i)[p] \in Int /\ Limit \in Int
      BY <1>1, WithNext, ReqBlocksAssumption
    <3> QED
      BY <1>1, <3>1 DEF TooMuch
  <2> QED
    BY <1>1, <2>1, WithNext DEF Fits
<1>5. FitIn(Totals, ranges, N, k)
  BY <1>1 DEF FitInv, ScanFit
<1>6. FitIn(Totals, ranges', N, k) /\ ranges'[k] = ranges[k]
  <2>1. FitIn(Totals, ranges', N, k)
    BY <1>1, <1>3, <1>4, <1>5, FitExtend, Zenon
  <2>2. ranges'[k] = ranges[k]
    BY <1>1, <1>3
  <2> QED
    BY <2>1, <2>2
<1>7. \A p \in Procs : cur'[p] = Totals[p][i + 1] - Totals[p][ranges[k]]
  BY <1>1, WithNext
<1> QED
  BY <1>1, <1>2, <1>6, <1>7 DEF FitInv, ScanFit, CopyFit, WaitFit

LEMMA NewBlockFits ==
  ASSUME ReqInv, FitInv, NewBlock
  PROVE  FitInv'
<1>1. /\ pc = "scan" /\ i < N /\ pc' = pc /\ i' = i + 1 /\ k' = k + 1 /\ TooMuch(i)
      /\ UNCHANGED <<pend, reqs>> /\ cur' = SizeAt(i)
  BY DEF NewBlock
<1>2. N' = N /\ Totals' = Totals
  BY <1>1, TotalsSame DEF N
<1>3. /\ N \in Nat /\ i \in 1..N - 1 /\ k \in 0..i - 1
      /\ ranges \in [0..2 * N - 1 -> 0..N - 1] /\ Covers(ranges, N, k, i - 1)
  BY <1>1, NType DEF ReqInv, TypeOK, ScanInv
<1>4. ranges' = AddBlock(ranges, N, k, i)
  BY DEF NewBlock, AddBlock
<1>5. /\ ranges'[k + 1] = i /\ ranges'[N + (k + 1)] = i
      /\ \A c \in 0..k : ranges'[c] = ranges[c] /\ ranges'[N + c] = ranges[N + c]
  <2>1. Added(ranges', ranges, N, k, i)
    BY <1>3, <1>4, CoversNew
  <2> QED
    BY <2>1 DEF Added
<1>6. Overflows(Totals, ranges[k], i)
  BY <1>1, WithNext DEF TooMuch, Overflows
<1>7. FitIn(Totals, ranges, N, k) /\ k \in Nat
  BY <1>1, <1>3 DEF FitInv, ScanFit
<1>8. FitIn(Totals, ranges', N, k + 1)
  BY <1>3, <1>5, <1>6, <1>7, FitNew
<1>9. \A p \in Procs : cur'[p] = Totals[p][i + 1] - Totals[p][i]
  BY <1>1, WithNext
<1> QED
  BY <1>1, <1>2, <1>5, <1>8, <1>9 DEF FitInv, ScanFit, CopyFit, WaitFit

LEMMA ScannedFits ==
  ASSUME ReqInv, FitInv, Scanned
  PROVE  FitInv'
<1>1. /\ pc = "scan" /\ nblocks' = k + 1 /\ k' = 0
      /\ pc' = IF nblocks' = N THEN "wait" ELSE "copy"
      /\ UNCHANGED <<pend, reqs, ranges>>
  BY DEF Scanned
<1>2. N' = N /\ Totals' = Totals
  BY <1>1, TotalsSame DEF N
<1>3. k \in Nat /\ nblocks' - 1 = k /\ nblocks' - 2 = k - 1
  BY <1>1 DEF ReqInv, TypeOK
<1>4. FitIn(Totals, ranges, N, k)
  BY <1>1 DEF FitInv, ScanFit
<1>5. CASE nblocks' = N
  BY <1>1, <1>2, <1>3, <1>4, <1>5 DEF FitInv, ScanFit, CopyFit, WaitFit
<1>6. CASE nblocks' # N
  <2>1. \A b \in 0..k : EndOf(b)' = ranges[N + b]
    BY <1>1, <1>2 DEF EndOf
  <2>2. \A b \in 0..nblocks' - 1 : Fits(Totals, ranges[b], EndOf(b)')
    BY <1>3, <1>4, <2>1 DEF FitIn
  <2>3. \A b \in 0..nblocks' - 2 : Overflows(Totals, ranges[b], ranges[b + 1])
    BY <1>3, <1>4 DEF FitIn
  <2> QED
    BY <1>1, <1>2, <1>6, <2>2, <2>3 DEF FitInv, ScanFit, CopyFit, WaitFit, EndOf
<1> QED
  BY <1>5, <1>6

LEMMA CopyFits ==
  ASSUME ReqInv, FitInv, Copy
  PROVE  FitInv'
<1>1. /\ pc = "copy" /\ pc' = pc /\ k < nblocks /\ k' = k + 1 /\ nblocks' = nblocks
      /\ UNCHANGED <<pend, reqs>> /\ ranges' = [ranges EXCEPT ![nblocks + k] = ranges[N + k]]
  BY DEF Copy
<1>2. N' = N /\ Totals' = Totals
  BY <1>1, TotalsSame DEF N
<1>3. /\ N \in Nat /\ nblocks \in 1..N - 1 /\ k \in 0..nblocks - 1
      /\ ranges \in [0..2 * N - 1 -> 0..N - 1]
  <2>1. N \in Nat
    BY NType DEF ReqInv
  <2>2. /\ k \in Nat /\ nblocks \in Nat /\ ranges \in [0..2 * N - 1 -> 0..N - 1]
    BY <1>1 DEF ReqInv, TypeOK
  <2>3. 0 < nblocks /\ nblocks < N
    BY <1>1 DEF ReqInv, CopyInv
  <2> QED
    BY ONLY <1>1, <2>1, <2>2, <2>3
<1>4. \A b \in 0..nblocks - 1 : ranges'[b] = ranges[b] /\ EndOf(b)' = EndOf(b)
  BY <1>1, <1>2, <1>3, EndsStay
<1>5. \A b \in 0..nblocks - 1 : Fits(Totals, ranges'[b], EndOf(b)')
  BY <1>1, <1>4 DEF FitInv, CopyFit
<1>6. ASSUME NEW b \in 0..nblocks - 2 PROVE Overflows(Totals, ranges'[b], ranges'[b + 1])
  <2>1. b \in 0..nblocks - 1 /\ b + 1 \in 0..nblocks - 1
    BY <1>3
  <2> QED
    BY <1>1, <1>4, <2>1 DEF FitInv, CopyFit
<1> QED
  BY <1>1, <1>2, <1>5, <1>6 DEF FitInv, ScanFit, CopyFit, WaitFit, EndOf

LEMMA CopiedFits ==
  ASSUME ReqInv, FitInv, Copied
  PROVE  FitInv'
<1>1. /\ pc = "copy" /\ pc' = "wait" /\ k = nblocks
      /\ UNCHANGED <<pend, reqs, ranges, nblocks>>
  BY DEF Copied
<1>2. N' = N /\ Totals' = Totals /\ nblocks \in Nat
  BY <1>1, TotalsSame DEF N, ReqInv, TypeOK
<1>3. \A b \in 0..nblocks - 1 : EndOf(b) = ranges[nblocks + b]
  BY <1>1, <1>2 DEF EndOf
<1>4. nblocks - 1 - 1 = nblocks - 2
  BY <1>2
<1>5. FitIn(Totals, ranges, nblocks, nblocks - 1)
  BY <1>1, <1>3, <1>4 DEF FitInv, CopyFit, FitIn
<1> QED
  BY <1>1, <1>2, <1>5 DEF FitInv, ScanFit, CopyFit, WaitFit

LEMMA NextFits == ReqInv /\ FitInv /\ [Next]_vars => FitInv'
<1> SUFFICES ASSUME ReqInv, FitInv, [Next]_vars PROVE FitInv'
  OBVIOUS
<1>1. CASE (\E v \in VarIds, size \in SizeOnProcs : Queue(v, size)) \/ Flush \/ Collect \/ Release
  BY <1>1 DEF Queue, Flush, Collect, Release, FitInv, ScanFit, CopyFit, WaitFit
<1>2. CASE Wait \/ UNCHANGED vars
  <2>1. UNCHANGED <<pend, reqs, ranges, nblocks, pc>> /\ (pc # "wait" => UNCHANGED <<i, k, cur>>)
    BY <1>2 DEF Wait, vars
  <2>2. Totals' = Totals /\ N' = N
    BY <2>1, TotalsSame DEF N
  <2> QED
    BY <2>1, <2>2 DEF FitInv, ScanFit, CopyFit, WaitFit, EndOf
<1> QED
  BY <1>1, <1>2, CollectedFits, ExtendFits, NewBlockFits, ScannedFits, CopyFits, CopiedFits
     DEF Next

\* No process is made to wait for more than the limit at once, but for a single request
\* that exceeds it alone; and a block ends only where the next request would be too much
\* for some process: whatever the sizes, the limit and the number of processes.
THEOREM EveryBlockFits == Spec => []BlocksFit
<1>1. Init => FitInv
  BY DEF Init, FitInv, ScanFit, CopyFit, WaitFit
<1>2. ReqInv /\ FitInv => BlocksFit
  <2> SUFFICES ASSUME ReqInv, FitInv, pc = "wait", NEW b \in DOMAIN waited
               PROVE  /\ \A p \in Procs :
                            \/ waited[b][1] = waited[b][2]
                            \/ Amount(p, waited[b][1], waited[b][2]) <= Limit
                      /\ b > 1 => \E p \in Procs :
                                     Amount(p, waited[b - 1][1], waited[b][1]) > Limit
    BY DEF BlocksFit
  <2>1. /\ nblocks \in Nat /\ k \in 0..nblocks /\ b \in 1..k
        /\ \A c \in 0..k - 1 : waited[c + 1] = <<ranges[c], ranges[nblocks + c]>>
    <3>1. nblocks \in Nat /\ k \in Nat /\ k <= nblocks /\ waited \in Seq(Nat \X Nat)
      BY DEF ReqInv, TypeOK
    <3>2. /\ Len(waited) = k
          /\ \A c \in 0..k - 1 : waited[c + 1] = <<ranges[c], ranges[nblocks + c]>>
      BY DEF ReqInv, WaitInv
    <3>3. DOMAIN waited = 1..Len(waited)
      BY ONLY <3>1, LenProperties
    <3> QED
      BY ONLY <3>1, <3>2, <3>3, b \in DOMAIN waited, SMTT(30)
  <2>2. /\ b - 1 \in 0..k - 1 /\ b - 1 \in 0..nblocks - 1 /\ b - 1 + 1 = b
        /\ b > 1 => b - 2 \in 0..k - 1 /\ b - 2 \in 0..nblocks - 1 - 1 /\ b - 2 + 1 = b - 1
    BY <2>1
  <2>3. waited[b] = <<ranges[b - 1], ranges[nblocks + (b - 1)]>>
    BY <2>1, <2>2
  <2>4. b > 1 => waited[b - 1] = <<ranges[b - 2], ranges[nblocks + (b - 2)]>>
    BY <2>1, <2>2
  <2>5. FitIn(Totals, ranges, nblocks, nblocks - 1)
    BY DEF FitInv, WaitFit
  <2>6. Fits(Totals, waited[b][1], waited[b][2])
    BY <2>2, <2>3, <2>5 DEF FitIn
  <2>7. b > 1 => Overflows(Totals, waited[b - 1][1], waited[b][1])
    BY <2>2, <2>3, <2>4, <2>5 DEF FitIn
  <2> QED
    BY <2>6, <2>7 DEF Fits, Overflows, Amount
<1> QED
  BY <1>1, <1>2, NextFits, ReqInvInductive, PTL DEF Spec
=============================================================================
