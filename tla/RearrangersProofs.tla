-------------------------- MODULE RearrangersProofs ---------------------------
(***************************************************************************)
(* The rearrangers, for arrays of any size and any number of processes.    *)
(*                                                                         *)
(* First the partitions that they rest on: the split of a dimension (BOX,  *)
(* and the slices of SUBSET's fill values), the pieces of the array        *)
(* (CONTIG), the groups of processes (SUBSET and CONTIG), and the blocks   *)
(* that a list of cells is divided into (SUBSET, and its fill values).     *)
(* The blocks are an induction over the list and over the dimensions of    *)
(* the array, whose recursive functions are shown to exist first.  Since   *)
(* no induction rule can be applied to an operator, the lemmas Induct and  *)
(* InductDown state induction for sets of numbers.                         *)
(*                                                                         *)
(* Then the exchanges: the MPI types that are built of blocks and strides  *)
(* describe the lists they are built from; a message has the cells that    *)
(* both its ends count on; places in a buffer are within it, and apart.    *)
(* The argument goes from a list of chosen elements (Nth, Selected) over the   *)
(* elements of a process and the groups to one lemma for each hop: BOX,    *)
(* SUBSET, and the two of CONTIG.  The descriptor of the decomposition in  *)
(* use is the one that these lemmas are about (InUse), which makes         *)
(* ExchangesFit a theorem about every state.                               *)
(*                                                                         *)
(* Last the blocks of BOX: the I/O processes in use are seen as the cells  *)
(* of an array of their own (ProcDims), so that the facts on coordinates   *)
(* say which block a rank has, and which rank has the block of a cell.     *)
(***************************************************************************)
EXTENDS Rearrange, SequenceTheorems, FiniteSetTheorems, NaturalsInduction, WellFoundedInduction,
        TLAPS

-----------------------------------------------------------------------------
(***************************************************************************)
(* Division                                                                *)
(***************************************************************************)
LEMMA Division ==
  ASSUME NEW a \in Nat, NEW n \in Nat \ {0}
  PROVE  /\ a \div n \in Nat /\ a % n \in 0..n - 1
         /\ a = n * (a \div n) + (a % n)
  BY SMT

\* The quotient is the only number with that property.
LEMMA Quotient ==
  ASSUME NEW a \in Nat, NEW n \in Nat \ {0}, NEW q \in Nat,
         n * q <= a, a < n * q + n
  PROVE  a \div n = q
<1>1. PICK x \in Nat : x = a \div n BY Division
<1>2. n * x <= a /\ a < n * x + n BY <1>1, Division
<1>3. x <= q \/ x >= q + 1 OBVIOUS
<1>4. q <= x \/ q >= x + 1 OBVIOUS
<1>5. CASE x >= q + 1
  <2>1. PICK k \in Nat : x = q + 1 + k BY <1>5
  <2>2. n * x = n * q + n + n * k BY <2>1
  <2>3. n * k >= 0 OBVIOUS
  <2> QED BY <2>2, <2>3, <1>2
<1>6. CASE q >= x + 1
  <2>1. PICK k \in Nat : q = x + 1 + k BY <1>6
  <2>2. n * q = n * x + n + n * k BY <2>1
  <2>3. n * k >= 0 OBVIOUS
  <2> QED BY <2>2, <2>3, <1>2
<1> QED BY <1>1, <1>3, <1>4, <1>5, <1>6

LEMMA SmallRemainder ==
  ASSUME NEW r \in Nat, NEW n \in Nat \ {0}, r < n
  PROVE  r % n = r
  BY SMT

-----------------------------------------------------------------------------
(***************************************************************************)
(* compute_one_dim                                                         *)
(***************************************************************************)
\* What a process is given: its share grows by one for the last processes.
LEMMA OneDimShare ==
  ASSUME NEW gdim \in Nat, NEW n \in Nat \ {0}, NEW r \in 0..n - 1
  PROVE  /\ OneDim(gdim, n, r).start =
              (gdim \div n) * r + (IF r + (gdim % n) > n THEN r + (gdim % n) - n ELSE 0)
         /\ OneDim(gdim, n, r).count =
              IF r + (gdim % n) >= n THEN (gdim \div n) + 1 ELSE gdim \div n
<1>1. PICK q \in Nat, rest \in 0..n - 1 :
        q = gdim \div n /\ rest = gdim % n /\ gdim = n * q + rest
  BY Division
<1>2. r % n = r BY SmallRemainder
<1>3. gdim - q * n = rest BY <1>1
<1>4. OneDim(gdim, n, r) = [start |-> q * r + Greatest(r + rest - n, 0),
                            count |-> IF r + rest - n >= 0 THEN q + 1 ELSE q]
  BY ONLY <1>1, <1>2, <1>3, Zenon DEF OneDim
<1>5. Greatest(r + rest - n, 0) = IF r + rest > n THEN r + rest - n ELSE 0
  BY DEF Greatest
<1>6. r + rest - n >= 0 <=> r + rest >= n OBVIOUS
<1>7. /\ OneDim(gdim, n, r).start = q * r + (IF r + rest > n THEN r + rest - n ELSE 0)
      /\ OneDim(gdim, n, r).count = IF r + rest >= n THEN q + 1 ELSE q
  <2>1. /\ OneDim(gdim, n, r).start = q * r + Greatest(r + rest - n, 0)
        /\ OneDim(gdim, n, r).count = IF r + rest - n >= 0 THEN q + 1 ELSE q
    BY ONLY <1>4, SMT
  <2>2. (IF r + rest - n >= 0 THEN q + 1 ELSE q) = IF r + rest >= n THEN q + 1 ELSE q
    BY <1>6
  <2> QED BY ONLY <1>5, <2>1, <2>2, SMT
<1> QED BY ONLY <1>1, <1>7, Zenon

(***************************************************************************)
(* A dimension is split without gaps and overlaps: the first share starts  *)
(* at 0, each of the others where the one before ends, the last one ends   *)
(* with the dimension, and no two differ by more than one.                 *)
(***************************************************************************)
THEOREM OneDimTiles ==
  ASSUME NEW gdim \in Nat, NEW n \in Nat \ {0}
  PROVE  /\ OneDim(gdim, n, 0).start = 0
         /\ \A r \in 0..n - 2 :
              OneDim(gdim, n, r + 1).start = OneDim(gdim, n, r).start + OneDim(gdim, n, r).count
         /\ OneDim(gdim, n, n - 1).start + OneDim(gdim, n, n - 1).count = gdim
         /\ \A r \in 0..n - 1 : OneDim(gdim, n, r).count \in {gdim \div n, (gdim \div n) + 1}
<1>1. PICK q \in Nat, rest \in 0..n - 1 :
        q = gdim \div n /\ rest = gdim % n /\ gdim = n * q + rest
  BY Division
<1>2. \A r \in 0..n - 1 :
        /\ OneDim(gdim, n, r).start = q * r + (IF r + rest > n THEN r + rest - n ELSE 0)
        /\ OneDim(gdim, n, r).count = IF r + rest >= n THEN q + 1 ELSE q
  BY <1>1, OneDimShare, Zenon
<1>3. OneDim(gdim, n, 0).start = 0
  <2>1. q * 0 = 0 OBVIOUS
  <2> QED BY <1>2, <2>1
<1>4. ASSUME NEW r \in 0..n - 2
      PROVE  OneDim(gdim, n, r + 1).start = OneDim(gdim, n, r).start + OneDim(gdim, n, r).count
  <2>1. r \in 0..n - 1 /\ r + 1 \in 0..n - 1 OBVIOUS
  <2>2. PICK before \in Nat : before = q * r /\ q * (r + 1) = before + q OBVIOUS
  <2>3. /\ OneDim(gdim, n, r).start = before + (IF r + rest > n THEN r + rest - n ELSE 0)
        /\ OneDim(gdim, n, r).count = IF r + rest >= n THEN q + 1 ELSE q
    BY ONLY <1>2, <2>1, <2>2, Zenon
  <2>4. OneDim(gdim, n, r + 1).start =
          before + q + (IF r + 1 + rest > n THEN r + 1 + rest - n ELSE 0)
    BY ONLY <1>2, <2>1, <2>2, Zenon
  <2>5. (IF r + 1 + rest > n THEN r + 1 + rest - n ELSE 0) =
          (IF r + rest > n THEN r + rest - n ELSE 0) + (IF r + rest >= n THEN 1 ELSE 0)
    OBVIOUS
  <2> QED BY <2>3, <2>4, <2>5
<1>5. OneDim(gdim, n, n - 1).start + OneDim(gdim, n, n - 1).count = gdim
  <2>1. PICK whole \in Nat : whole = n * q /\ q * (n - 1) = whole - q OBVIOUS
  <2>2. n - 1 \in 0..n - 1 OBVIOUS
  <2>3. /\ OneDim(gdim, n, n - 1).start =
             whole - q + (IF n - 1 + rest > n THEN n - 1 + rest - n ELSE 0)
        /\ OneDim(gdim, n, n - 1).count = IF n - 1 + rest >= n THEN q + 1 ELSE q
    BY ONLY <1>2, <2>1, <2>2, Zenon
  <2> QED BY <1>1, <2>1, <2>3
<1>6. \A r \in 0..n - 1 : OneDim(gdim, n, r).count \in {gdim \div n, (gdim \div n) + 1}
  BY <1>1, <1>2
<1> QED BY <1>3, <1>4, <1>5, <1>6

-----------------------------------------------------------------------------
(***************************************************************************)
(* CONTIG                                                                  *)
(***************************************************************************)
\* A decomposition with n I/O processes of an array with at least as many cells.
Divisible(d, n) ==
  /\ n \in Nat \ {0} /\ NIo(d) = n
  /\ GridSize(d.gdims) \in Nat /\ GridSize(d.gdims) >= n

(***************************************************************************)
(* The I/O process that an element is sent to is one, and has the cell:    *)
(* the place where it is stored lies in its buffer.  This is why           *)
(* get_rearr_toproc_map gives the leftover cells to the last process.      *)
(***************************************************************************)
THEOREM CellsFindTheirIoProcess ==
  ASSUME NEW d, NEW n, Divisible(d, n), NEW cell \in 0..GridSize(d.gdims) - 1
  PROVE  /\ ToProc(d, cell) \in 0..n - 1
         /\ DecompStart(d, ToProc(d, cell)) <= cell
         /\ cell < DecompEnd(d, ToProc(d, cell))
<1>1. PICK N \in Nat : n \in Nat \ {0} /\ NIo(d) = n /\ N = GridSize(d.gdims) /\ N >= n
  BY DEF Divisible
<1>2. PICK chunk \in Nat \ {0} : chunk = IoChunk(d) /\ n * chunk <= N
  <2>1. PICK c \in Nat, rest \in 0..n - 1 : c = N \div n /\ N = n * c + rest
    <3>1. PICK c \in Nat : c = N \div n BY <1>1, Division
    <3>2. PICK rest \in 0..n - 1 : rest = N % n BY <1>1, Division
    <3> QED BY ONLY <1>1, N \in Nat, <3>1, <3>2, Division, Zenon
  <2>2. c # 0
    <3> SUFFICES ASSUME c = 0 PROVE FALSE OBVIOUS
    <3>1. n * c = 0 BY <1>1
    <3> QED BY <2>1, <3>1, <1>1
  <2>3. n * c \in Nat BY <1>1
  <2>4. c = IoChunk(d) BY <2>1, <1>1, Zenon DEF IoChunk
  <2> QED BY <2>1, <2>2, <2>3, <2>4
<1>3. PICK q \in Nat, rest \in 0..chunk - 1 : q = cell \div chunk /\ cell = chunk * q + rest
  <2>1. cell \in Nat BY <1>1
  <2>2. PICK q \in Nat : q = cell \div chunk BY <2>1, Division, Zenon
  <2>3. PICK rest \in 0..chunk - 1 : rest = cell % chunk BY <2>1, Division, Zenon
  <2> QED BY ONLY <2>1, <2>2, <2>3, Division, Zenon
<1>4. chunk * q \in Nat OBVIOUS
<1>5. CASE q <= n - 1
  <2>1. ToProc(d, cell) = q BY <1>1, <1>2, <1>3, <1>5 DEF ToProc, Least
  <2>2. DecompStart(d, q) = chunk * q BY <1>2 DEF DecompStart
  <2>3. DecompEnd(d, q) = IF q = n - 1 THEN N ELSE chunk * q + chunk
    BY <1>1, <1>2, <2>2 DEF DecompEnd
  <2>4. PICK first \in Nat : first = chunk * q BY <1>4
  <2>5. first <= cell /\ cell < first + chunk
    BY ONLY <1>3, <2>4, chunk \in Nat \ {0}, q \in Nat, rest \in 0..chunk - 1
  <2>6. cell < N BY <1>1
  <2>7. cell < DecompEnd(d, q) BY <2>3, <2>4, <2>5, <2>6
  <2>8. DecompStart(d, q) <= cell BY <2>2, <2>4, <2>5
  <2>9. q \in 0..n - 1 BY <1>1, <1>5
  <2> QED BY ONLY <2>1, <2>7, <2>8, <2>9, Zenon
<1>6. CASE q > n - 1
  <2>1. ToProc(d, cell) = n - 1 BY <1>1, <1>2, <1>3, <1>6 DEF ToProc, Least
  <2>2. DecompStart(d, n - 1) = chunk * (n - 1) BY <1>1, <1>2 DEF DecompStart
  <2>3. DecompEnd(d, n - 1) = N BY <1>1 DEF DecompEnd
  <2>4. PICK k \in Nat : q = n - 1 + k BY <1>1, <1>6
  <2>5. chunk * q = chunk * (n - 1) + chunk * k BY <2>4, <1>1
  <2>6. chunk * k >= 0 /\ chunk * (n - 1) \in Nat BY <1>1
  <2> QED BY <2>1, <2>2, <2>3, <2>5, <2>6, <1>1, <1>3
<1> QED BY <1>1, <1>3, <1>5, <1>6

-----------------------------------------------------------------------------
(***************************************************************************)
(* The groups of SUBSET and CONTIG                                         *)
(***************************************************************************)
LEMMA QuotientBelow ==
  ASSUME NEW a \in Nat, NEW n \in Nat \ {0}, NEW m \in Nat, a < n * m
  PROVE  a \div n \in 0..m - 1
<1>1. PICK q \in Nat : q = a \div n /\ n * q <= a BY Division
<1>2. CASE q >= m
  <2>1. PICK k \in Nat : q = m + k BY <1>2
  <2>2. n * q = n * m + n * k /\ n * k >= 0 BY <2>1
  <2> QED BY <1>1, <2>2
<1>3. CASE q < m BY <1>1, <1>3
<1> QED BY <1>1, <1>2, <1>3

\* np processes, n of which are I/O processes.
Partitioned(d, np, n) ==
  /\ np \in Nat /\ n \in Nat \ {0} /\ n <= np
  /\ Procs(d) = 0..np - 1 /\ Cardinality(Procs(d)) = np
  /\ IoProcs(d) = 0..n - 1 /\ NIo(d) = n

LEMMA IoRankIsIo ==
  ASSUME NEW d, NEW p, IsIo(d, p)
  PROVE  IoRank(d, p) \in IoProcs(d) /\ d.ioranks[IoRank(d, p)] = p
  BY DEF IsIo, IoRank

(***************************************************************************)
(* Every process gets a group that has an I/O process, whatever the        *)
(* numbers of processes and wherever the I/O processes are: the assertion  *)
(* on the color at the end of default_subset_partition.                    *)
(***************************************************************************)
THEOREM SubsetGroupsExist ==
  ASSUME NEW d, NEW np, NEW n, Partitioned(d, np, n)
  PROVE  \A p \in Procs(d) : SubsetColor(d)[p] \in IoProcs(d)
<1> DEFINE each == np \div n
           extra == np % n
           larger == (each + 1) * extra
<1>1. np \in Nat /\ n \in Nat \ {0} /\ n <= np BY DEF Partitioned
<1>2. each \in Nat /\ extra \in 0..n - 1 /\ np = n * each + extra BY <1>1, Division
<1>3. each # 0
  <2> SUFFICES ASSUME each = 0 PROVE FALSE OBVIOUS
  <2>1. n * each = 0 BY <1>1
  <2> QED BY <1>1, <1>2, <2>1
<1>4. larger = each * extra + extra /\ larger \in Nat BY <1>2
<1> SUFFICES ASSUME NEW p \in Procs(d) PROVE SubsetColor(d)[p] \in IoProcs(d)
  OBVIOUS
<1>5. p \in 0..np - 1 BY DEF Partitioned
<1>6. SubsetColor(d)[p] =
        IF IsIo(d, p) THEN IoRank(d, p)
        ELSE IF p < larger THEN p \div (each + 1) ELSE ((p - larger) \div each) + extra
  BY Zenon DEF SubsetColor, Partitioned
<1>7. CASE IsIo(d, p) BY <1>6, <1>7, IoRankIsIo, Zenon
<1>8. CASE ~IsIo(d, p) /\ p < larger
  <2>1. p \div (each + 1) \in 0..extra - 1
    <3>1. p \in Nat /\ each + 1 \in Nat \ {0} /\ extra \in Nat BY <1>2, <1>5
    <3>2. p < (each + 1) * extra BY <1>8
    <3> HIDE DEF each, extra
    <3> QED BY ONLY <3>1, <3>2, QuotientBelow
  <2>2. 0..extra - 1 \subseteq 0..n - 1 BY <1>1, <1>2
  <2>3. SubsetColor(d)[p] = p \div (each + 1) BY ONLY <1>6, <1>8, Zenon
  <2> QED BY ONLY <2>1, <2>2, <2>3, Partitioned(d, np, n), Zenon DEF Partitioned
<1>9. CASE ~IsIo(d, p) /\ ~(p < larger)
  <2>1. (p - larger) \div each \in 0..(n - extra) - 1
    <3>1. p - larger \in Nat BY <1>4, <1>5, <1>9
    <3>2. each * (n - extra) = n * each - each * extra BY <1>1, <1>2
    <3>3. p - larger < each * (n - extra)
      <4>1. p < np BY <1>1, <1>5
      <4>2. n * each \in Nat /\ each * extra \in Nat BY <1>1, <1>2
      <4> HIDE DEF each, extra, larger
      <4> QED BY <4>1, <4>2, <3>1, <3>2, <1>1, <1>2, <1>4, <1>5
    <3>4. n - extra \in Nat /\ each \in Nat \ {0} BY <1>1, <1>2, <1>3
    <3> HIDE DEF each, extra, larger
    <3> QED BY ONLY <3>1, <3>3, <3>4, QuotientBelow
  <2>2. ((p - larger) \div each) + extra \in 0..n - 1
    <3> HIDE DEF each, extra, larger
    <3> QED BY <2>1, <1>1, <1>2
  <2>3. SubsetColor(d)[p] = ((p - larger) \div each) + extra BY ONLY <1>6, <1>9, Zenon
  <2> QED BY ONLY <2>2, <2>3, Partitioned(d, np, n), Zenon DEF Partitioned
<1> QED BY <1>7, <1>8, <1>9

(***************************************************************************)
(* The same for create_agg_comm, which sends those that are left over to   *)
(* the last group.                                                         *)
(***************************************************************************)
THEOREM ContigGroupsExist ==
  ASSUME NEW d, NEW np, NEW n, Partitioned(d, np, n)
  PROVE  \A p \in Procs(d) : ContigColor(d)[p] \in IoProcs(d)
<1> DEFINE each == np \div n
<1>1. np \in Nat /\ n \in Nat \ {0} /\ n <= np BY DEF Partitioned
<1>2. each \in Nat \ {0}
  <2>1. each \in Nat /\ np % n \in 0..n - 1 /\ np = n * each + (np % n) BY <1>1, Division
  <2>2. each # 0
    <3> SUFFICES ASSUME each = 0 PROVE FALSE OBVIOUS
    <3>1. n * each = 0 BY <1>1
    <3> QED BY <1>1, <2>1, <3>1
  <2> QED BY <2>1, <2>2
<1> SUFFICES ASSUME NEW p \in Procs(d) PROVE ContigColor(d)[p] \in IoProcs(d)
  OBVIOUS
<1>3. p \in Nat BY DEF Partitioned
<1>4. ContigColor(d)[p] = IF IsIo(d, p) THEN IoRank(d, p) ELSE Least(p \div each, n - 1)
  BY Zenon DEF ContigColor, Partitioned
<1>5. CASE IsIo(d, p) BY <1>4, <1>5, IoRankIsIo, Zenon
<1>6. CASE ~IsIo(d, p)
  <2>1. p \div each \in Nat BY <1>2, <1>3, Division
  <2>2. Least(p \div each, n - 1) \in 0..n - 1
    <3> HIDE DEF each
    <3> QED BY <1>1, <2>1 DEF Least
  <2>3. ContigColor(d)[p] = Least(p \div each, n - 1) BY ONLY <1>4, <1>6, Zenon
  <2> QED BY ONLY <2>2, <2>3, Partitioned(d, np, n), Zenon DEF Partitioned
<1> QED BY <1>5, <1>6

-----------------------------------------------------------------------------
(***************************************************************************)
(* Numbers: least elements, and induction as a property of sets of them.   *)
(***************************************************************************)
\* The order of the numbers as a relation, in the form WFMin takes.
LEMMA LessThanWF ==
  \E R : IsWellFoundedOn(R, Nat) /\ \A x, y \in Nat : x < y => <<x, y>> \in R
<1> DEFINE L == OpToRel(<, Nat)
<1>1. IsWellFoundedOn(L, Nat)
  BY NatLessThanWellFounded, Zenon
<1>2. \A x, y \in Nat : x < y => <<x, y>> \in L
  BY DEF OpToRel
<1>3. QED
  <2> HIDE DEF L
  <2> QED
    BY <1>1, <1>2, Zenon

\* Every set of numbers that is not empty has a least one.
LEMMA LeastOf ==
  ASSUME NEW T \in SUBSET Nat, T # {}
  PROVE  \E x \in T : \A y \in T : x <= y
<1>1. PICK R : IsWellFoundedOn(R, Nat) /\ \A x, y \in Nat : x < y => <<x, y>> \in R
  BY LessThanWF
<1>2. IsWellFoundedOn(R, Nat) /\ T \subseteq Nat
  BY <1>1
<1>3. PICK x \in T : \A y \in T : ~ (<<y, x>> \in R)
  BY <1>2, WFMin, Zenon
<1>5. \A y \in T : ~ (y < x)
  BY <1>1, <1>3, Zenon
<1>4. QED
  BY <1>3, <1>5

\* Min is that one.
LEMMA MinOf ==
  ASSUME NEW T \in SUBSET Nat, T # {}
  PROVE  Min(T) \in T /\ \A y \in T : Min(T) <= y
BY LeastOf, Zenon DEF Min

\* A set with 0 and the successor of each of its numbers has all numbers.
LEMMA Induct ==
  ASSUME NEW S \in SUBSET Nat, 0 \in S, \A n \in S : n + 1 \in S
  PROVE  S = Nat
<1>1. SUFFICES ASSUME Nat \ S # {} PROVE FALSE
  OBVIOUS
<1>2. PICK x \in Nat \ S : \A y \in Nat \ S : x <= y
  BY <1>1, LeastOf, Zenon
<1>3. x # 0 /\ x - 1 \in Nat /\ x - 1 \in S
  BY <1>2
<1>4. QED
  BY <1>2, <1>3

\* What holds at n and, with each number, at the one before, holds from 1 to n.
LEMMA InductDown ==
  ASSUME NEW n \in Nat \ {0}, NEW S \in SUBSET (1..n), n \in S,
         \A i \in 1..n - 1 : i + 1 \in S => i \in S
  PROVE  S = 1..n
<1> DEFINE T == {j \in Nat : j < n => n - j \in S}
<1>1. 0 \in T
  OBVIOUS
<1>2. ASSUME NEW j \in T PROVE j + 1 \in T
  <2>1. CASE j + 1 < n
    <3>1. n - (j + 1) \in 1..n - 1 /\ (n - (j + 1)) + 1 = n - j /\ n - j \in S
      BY <1>2, <2>1
    <3>2. n - (j + 1) \in S
      BY <3>1
    <3>3. QED
      BY <1>2, <3>2
  <2>2. QED
    BY <1>2, <2>1
<1>3. T = Nat
  <2> HIDE DEF T
  <2>1. T \in SUBSET Nat
    BY DEF T
  <2>2. QED
    BY <1>1, <1>2, <2>1, Induct
<1>4. ASSUME NEW i \in 1..n PROVE i \in S
  <2> DEFINE j == n - i
  <2>1. j \in Nat /\ j < n /\ n - j = i
    OBVIOUS
  <2>2. j \in T
    BY <1>3, <2>1, Zenon
  <2>3. QED
    BY <2>1, <2>2
<1>5. QED
  BY <1>4, Zenon

-----------------------------------------------------------------------------
(***************************************************************************)
(* Chunks: for each dimension of an array, how many cells one step in it   *)
(* skips.                                                                  *)
(***************************************************************************)

\* The lengths of the dimensions of an array or a block.
Lengths == Seq(Nat \ {0}) \ {<<>>}

\* A list of lengths as a function.
LEMMA LengthsType ==
  ASSUME NEW dims \in Lengths
  PROVE  /\ Len(dims) \in Nat \ {0} /\ DOMAIN dims = 1..Len(dims)
         /\ \A i \in 1..Len(dims) : dims[i] \in Nat \ {0}
<1>1. dims \in Seq(Nat \ {0}) /\ dims # <<>>
  BY DEF Lengths
<1>2. QED
  BY <1>1, LenProperties, EmptySeq

\* The products of the values after each place, which is what ChunkSizes computes.
LEMMA ProductsExist ==
  ASSUME NEW n \in Nat \ {0}, NEW f
  PROVE  \E c : c = [i \in 1..n |-> IF i = n THEN 1 ELSE c[i + 1] * f[i + 1]]
<1> DEFINE S == {m \in 1..n : \E c : c = [i \in m..n |-> IF i = n THEN 1 ELSE c[i + 1] * f[i + 1]]}
<1>1. n \in S
  <2> DEFINE c == [i \in n..n |-> 1]
  <2>1. c = [i \in n..n |-> IF i = n THEN 1 ELSE c[i + 1] * f[i + 1]]
    OBVIOUS
  <2>2. \E d : d = [i \in n..n |-> IF i = n THEN 1 ELSE d[i + 1] * f[i + 1]]
    <3> HIDE DEF c
    <3> QED BY <2>1
  <2>3. QED
    BY <2>2
<1>2. ASSUME NEW m \in 1..n - 1, m + 1 \in S PROVE m \in S
  <2>1. PICK c : c = [i \in m + 1..n |-> IF i = n THEN 1 ELSE c[i + 1] * f[i + 1]]
    BY <1>2
  <2> DEFINE d == [i \in m..n |-> IF i = m THEN c[m + 1] * f[m + 1] ELSE c[i]]
  <2>2. \A i \in m + 1..n : c[i] = IF i = n THEN 1 ELSE c[i + 1] * f[i + 1]
    BY <2>1
  <2>3. \A i \in m..n : d[i] = IF i = n THEN 1 ELSE d[i + 1] * f[i + 1]
    BY <2>2
  <2>4. d = [i \in m..n |-> IF i = n THEN 1 ELSE d[i + 1] * f[i + 1]]
    BY <2>3
  <2>5. \E e : e = [i \in m..n |-> IF i = n THEN 1 ELSE e[i + 1] * f[i + 1]]
    <3> HIDE DEF d
    <3> QED BY <2>4
  <2>6. QED
    BY <2>5
<1>3. S = 1..n
  <2> HIDE DEF S
  <2>1. S \in SUBSET (1..n)
    BY DEF S
  <2>2. QED
    BY <1>1, <1>2, <2>1, InductDown
<1>4. 1 \in S
  <2>1. 1 \in 1..n
    BY ONLY n \in Nat \ {0}
  <2>2. QED
    BY ONLY <1>3, <2>1, Zenon
<1>5. QED
  BY <1>4

\* What the chunks of an array are: 1 in the last dimension, and in each other one the
\* chunk times the length of the next.
LEMMA ChunkSizesAre ==
  ASSUME NEW dims \in Lengths
  PROVE  /\ DOMAIN ChunkSizes(dims) = 1..Len(dims)
         /\ \A i \in 1..Len(dims) : ChunkSizes(dims)[i] \in Nat \ {0}
         /\ ChunkSizes(dims)[Len(dims)] = 1
         /\ \A i \in 1..Len(dims) - 1 :
              ChunkSizes(dims)[i] = ChunkSizes(dims)[i + 1] * dims[i + 1]
<1> DEFINE n == Len(dims)
           c == ChunkSizes(dims)
<1>1. n \in Nat \ {0} /\ DOMAIN dims = 1..n /\ \A i \in 1..n : dims[i] \in Nat \ {0}
  BY LengthsType
<1>2. c = [i \in 1..n |-> IF i = n THEN 1 ELSE c[i + 1] * dims[i + 1]]
  <2>1. \E d : d = [i \in 1..n |-> IF i = n THEN 1 ELSE d[i + 1] * dims[i + 1]]
    BY <1>1, ProductsExist, ZenonT(60)
  <2>2. \E d : d = [i \in DOMAIN dims |-> IF i = Len(dims) THEN 1 ELSE d[i + 1] * dims[i + 1]]
    BY <1>1, <2>1, Zenon
  <2>3. c = [i \in DOMAIN dims |-> IF i = Len(dims) THEN 1 ELSE c[i + 1] * dims[i + 1]]
    BY ONLY <2>2, Zenon DEF ChunkSizes
  <2>4. QED
    BY <1>1, <2>3, Zenon
<1> HIDE DEF n, c
<1>3. \A i \in 1..n : c[i] = IF i = n THEN 1 ELSE c[i + 1] * dims[i + 1]
  BY <1>2, Zenon
<1>4. DOMAIN c = 1..n
  BY <1>2
<1> DEFINE S == {i \in 1..n : c[i] \in Nat \ {0}}
<1>5. n \in S
  BY <1>1, <1>3
<1>6. ASSUME NEW i \in 1..n - 1, i + 1 \in S PROVE i \in S
  <2>1. PICK a \in Nat \ {0}, b \in Nat \ {0} : a = c[i + 1] /\ b = dims[i + 1]
    BY <1>1, <1>6
  <2>2. c[i] = a * b
    BY <1>1, <1>3, <2>1
  <2>3. a * b \in Nat \ {0}
    OBVIOUS
  <2>4. QED
    BY <2>2, <2>3, <1>1
<1>7. S = 1..n
  <2> HIDE DEF S
  <2>1. S \in SUBSET (1..n)
    BY DEF S
  <2>2. QED
    BY <1>1, <1>5, <1>6, <2>1, InductDown
<1>8. /\ \A i \in 1..n : c[i] \in Nat \ {0}
      /\ c[n] = 1
      /\ \A i \in 1..n - 1 : c[i] = c[i + 1] * dims[i + 1]
  <2>1. \A i \in 1..n - 1 : i \in 1..n /\ i # n
    BY <1>1
  <2>2. n \in 1..n
    BY <1>1
  <2>3. \A i \in 1..n : c[i] \in Nat \ {0}
    BY <1>7
  <2>4. QED
    BY ONLY <1>3, <2>1, <2>2, <2>3, Zenon
<1>9. QED
  BY ONLY <1>4, <1>8, Zenon DEF n, c

\* An array has cells.
LEMMA GridSizeIs ==
  ASSUME NEW dims \in Lengths
  PROVE  GridSize(dims) \in Nat \ {0} /\ GridSize(dims) = dims[1] * ChunkSizes(dims)[1]
<1>1. PICK a \in Nat \ {0}, b \in Nat \ {0} : a = dims[1] /\ b = ChunkSizes(dims)[1]
  BY LengthsType, ChunkSizesAre, SMTT(30)
<1>2. a * b \in Nat \ {0}
  OBVIOUS
<1>3. QED
  BY <1>1, <1>2 DEF GridSize

-----------------------------------------------------------------------------
(***************************************************************************)
(* find_region: how far the first cells of a list repeat themselves in each*)
(* dimension, and the block that makes.                                    *)
(***************************************************************************)

\* The first elements of a list are n more copies of its first size ones, at distance stride.
Repeats(cells, n, size, stride) ==
  \A j \in 1..size : /\ n * size + j <= Len(cells)
                     /\ cells[n * size + j] = cells[j] + n * stride

\* How many layers there are, of room that there is place for.
Longest(cells, size, stride, room) ==
  Min({room} \union {n \in 1..room : ~Repeats(cells, n, size, stride)})

\* As many layers as Longest says repeat the first one.
LEMMA LongestIs ==
  ASSUME NEW cells, NEW size, NEW stride, NEW room \in Nat \ {0}
  PROVE  /\ Longest(cells, size, stride, room) \in 1..room
         /\ \A n \in 1..Longest(cells, size, stride, room) - 1 : Repeats(cells, n, size, stride)
<1> DEFINE T == {room} \union {n \in 1..room : ~Repeats(cells, n, size, stride)}
<1>1. T \in SUBSET Nat /\ T # {} /\ T \subseteq 1..room
  OBVIOUS
<1>2. Min(T) \in T /\ \A y \in T : Min(T) <= y
  <2> HIDE DEF T
  <2> QED BY <1>1, MinOf
<1>3. Min(T) \in 1..room
  BY <1>1, <1>2
<1>4. ASSUME NEW n \in 1..Min(T) - 1 PROVE Repeats(cells, n, size, stride)
  <2>1. n \in 1..room /\ n \notin T
    BY <1>2, <1>3, <1>4
  <2>2. QED
    BY <2>1
<1>5. Longest(cells, size, stride, room) = Min(T)
  BY DEF Longest
<1>6. QED
  BY <1>3, <1>4, <1>5

\* What FindRegion finds out dimension by dimension.
Grows(g, dims, cells, start) ==
  g = [i \in DOMAIN dims |->
         LET size == IF i = Len(dims) THEN 1 ELSE g[i + 1].size * g[i + 1].count
         IN  [size |-> size,
              count |-> Longest(cells, size, ChunkSizes(dims)[i], dims[i] - start[i])]]

\* The recursion of FindRegion has a solution.
LEMMA GrowsExists ==
  ASSUME NEW dims \in Lengths, NEW cells, NEW start
  PROVE  \E g : Grows(g, dims, cells, start)
<1> DEFINE n == Len(dims)
           R(i, size) ==
             [size |-> size,
              count |-> Longest(cells, size, ChunkSizes(dims)[i], dims[i] - start[i])]
           Up(g, i) == IF i = n THEN R(i, 1) ELSE R(i, g[i + 1].size * g[i + 1].count)
           S == {m \in 1..n : \E g : g = [i \in m..n |-> Up(g, i)]}
<1>1. n \in Nat \ {0} /\ DOMAIN dims = 1..n
  BY LengthsType
<1> HIDE DEF n
<1> HIDE DEF R
<1>2. n \in S
  <2> DEFINE g == [i \in n..n |-> R(i, 1)]
  <2>1. g = [i \in n..n |-> Up(g, i)]
    BY <1>1
  <2>2. \E h : h = [i \in n..n |-> Up(h, i)]
    <3> HIDE DEF g
    <3> QED BY <2>1
  <2>3. QED
    BY <1>1, <2>2
<1>3. ASSUME NEW m \in 1..n - 1, m + 1 \in S PROVE m \in S
  <2>1. PICK g : g = [i \in m + 1..n |-> Up(g, i)]
    BY <1>3
  <2> DEFINE h == [i \in m..n |-> IF i = m THEN R(i, g[m + 1].size * g[m + 1].count) ELSE g[i]]
  <2>2. \A i \in m + 1..n : g[i] = Up(g, i)
    BY <2>1, Zenon
  <2>3. ASSUME NEW i \in m..n PROVE h[i] = Up(h, i)
    <3>1. CASE i = m
      <4>1. i # n /\ h[i + 1] = g[m + 1] /\ h[i] = R(i, g[m + 1].size * g[m + 1].count)
        BY <1>1, <3>1
      <4>2. QED
        BY <4>1
    <3>2. CASE i # m
      <4>1. i \in m + 1..n /\ h[i] = g[i] /\ (i # n => h[i + 1] = g[i + 1])
        BY <1>1, <3>2
      <4>2. QED
        BY <2>2, <4>1
    <3>3. QED
      BY <3>1, <3>2
  <2>4. h = [i \in m..n |-> Up(h, i)]
    BY <2>3
  <2>5. \E e : e = [i \in m..n |-> Up(e, i)]
    <3> HIDE DEF h
    <3> QED BY <2>4, Zenon
  <2>6. QED
    BY <1>1, <2>5
<1>4. S = 1..n
  <2> HIDE DEF S
  <2>1. S \in SUBSET (1..n)
    BY DEF S
  <2>2. QED
    BY <1>1, <1>2, <1>3, <2>1, InductDown
<1>5. 1 \in S
  BY <1>1, <1>4
<1>6. PICK g : g = [i \in 1..n |-> Up(g, i)]
  BY <1>5
<1>7. \A i \in 1..n :
        Up(g, i) = LET size == IF i = n THEN 1 ELSE g[i + 1].size * g[i + 1].count IN R(i, size)
  OBVIOUS
<1>8. g = [i \in 1..n |->
        LET size == IF i = n THEN 1 ELSE g[i + 1].size * g[i + 1].count IN R(i, size)]
  BY <1>6, <1>7, Zenon
<1>9. QED
  BY <1>1, <1>8, ZenonT(60) DEF Grows, R, n

\* The block found has the lengths that the solution gives.
LEMMA FindRegionIs ==
  ASSUME NEW dims \in Lengths, NEW cells
  PROVE  \E g : /\ Grows(g, dims, cells, DimList(dims, cells[1]))
                /\ FindRegion(dims, cells) =
                     [start |-> DimList(dims, cells[1]), count |-> [i \in DOMAIN dims |-> g[i].count]]
<1> DEFINE start == DimList(dims, cells[1])
           g == CHOOSE g : Grows(g, dims, cells, start)
<1>1. Grows(g, dims, cells, start)
  BY GrowsExists
<1>2. FindRegion(dims, cells) = [start |-> start, count |-> [i \in DOMAIN dims |-> g[i].count]]
  BY Zenon DEF FindRegion, Grows, Longest, Repeats
<1>3. QED
  <2> HIDE DEF g
  <2> QED BY <1>1, <1>2, Zenon

\* A coordinate is within its dimension.
LEMMA DimListType ==
  ASSUME NEW dims \in Lengths, NEW x \in Nat, NEW i \in 1..Len(dims)
  PROVE  /\ DimList(dims, x)[i] = (x \div ChunkSizes(dims)[i]) % dims[i]
         /\ DimList(dims, x)[i] \in 0..dims[i] - 1
<1>1. /\ DOMAIN dims = 1..Len(dims) /\ dims[i] \in Nat \ {0}
      /\ ChunkSizes(dims)[i] \in Nat \ {0}
  BY LengthsType, ChunkSizesAre
<1>2. DimList(dims, x)[i] = (x \div ChunkSizes(dims)[i]) % dims[i]
  BY <1>1 DEF DimList
<1>3. x \div ChunkSizes(dims)[i] \in Nat
  BY <1>1, Division, Zenon
<1>4. QED
  BY <1>1, <1>2, <1>3, Division, Zenon

\* There is place in the array for the cell that a block starts with.
HasRoom(dims, start) == \A i \in 1..Len(dims) : dims[i] - start[i] \in Nat \ {0}

\* The sizes and lengths that are found are positive, and fit into the array.
Grown(g, dims, cells, start) ==
  /\ g[Len(dims)].size = 1
  /\ \A i \in 1..Len(dims) - 1 : g[i].size = g[i + 1].size * g[i + 1].count
  /\ \A i \in 1..Len(dims) :
       /\ g[i].count = Longest(cells, g[i].size, ChunkSizes(dims)[i], dims[i] - start[i])
       /\ g[i].count \in 1..dims[i] - start[i]
       /\ g[i].size \in Nat \ {0}

LEMMA GrownTypes ==
  ASSUME NEW dims \in Lengths, NEW cells, NEW start, NEW g, Grows(g, dims, cells, start),
         HasRoom(dims, start)
  PROVE  Grown(g, dims, cells, start)
<1> DEFINE n == Len(dims)
           c == ChunkSizes(dims)
           Size(i) == IF i = n THEN 1 ELSE g[i + 1].size * g[i + 1].count
<1>1. n \in Nat \ {0} /\ DOMAIN dims = 1..n
  BY LengthsType
<1>2. ASSUME NEW i \in 1..n
      PROVE  g[i] = [size |-> Size(i), count |-> Longest(cells, Size(i), c[i], dims[i] - start[i])]
  BY <1>1, ZenonT(60) DEF Grows
<1>3. ASSUME NEW i \in 1..n
      PROVE  g[i].size = Size(i) /\ g[i].count = Longest(cells, g[i].size, c[i], dims[i] - start[i])
  <2> DEFINE len == Longest(cells, Size(i), c[i], dims[i] - start[i])
  <2>1. g[i] = [size |-> Size(i), count |-> len]
    BY <1>2
  <2>2. g[i].size = Size(i) /\ g[i].count = len
    <3> HIDE DEF Size, len
    <3> QED BY ONLY <2>1
  <2>3. QED
    BY <2>2
<1>4. ASSUME NEW i \in 1..n
      PROVE  g[i].count \in 1..dims[i] - start[i]
  <2>1. dims[i] - start[i] \in Nat \ {0}
    BY DEF HasRoom
  <2> HIDE DEF c
  <2>2. QED
    BY <1>3, <2>1, LongestIs
<1> HIDE DEF n, c
<1>5. g[n].size = 1
  <2>1. n \in 1..n
    BY <1>1
  <2>2. QED
    BY <1>3, <2>1
<1>6. \A i \in 1..n - 1 : g[i].size = g[i + 1].size * g[i + 1].count
  <2> TAKE i \in 1..n - 1
  <2>1. i \in 1..n /\ i # n
    BY <1>1
  <2>2. QED
    BY <1>3, <2>1
<1> DEFINE S == {i \in 1..n : g[i].size \in Nat \ {0}}
<1>7. n \in S
  BY <1>1, <1>5
<1>8. ASSUME NEW i \in 1..n - 1, i + 1 \in S PROVE i \in S
  <2>1. dims[i + 1] - start[i + 1] \in Nat \ {0} /\ i + 1 \in 1..n
    BY <1>1, <1>8 DEF HasRoom, n
  <2>2. PICK a \in Nat \ {0}, b \in Nat \ {0} : a = g[i + 1].size /\ b = g[i + 1].count
    BY <1>4, <1>8, <2>1
  <2>3. g[i].size = a * b
    BY <1>6, <2>2
  <2>4. a * b \in Nat \ {0}
    OBVIOUS
  <2>5. QED
    BY <1>1, <2>3, <2>4
<1>9. S = 1..n
  <2> HIDE DEF S
  <2>1. S \in SUBSET (1..n)
    BY DEF S
  <2>2. QED
    BY <1>1, <1>7, <1>8, <2>1, InductDown
<1>10. \A i \in 1..n : g[i].size \in Nat \ {0}
  BY <1>9
<1>11. QED
  <2> HIDE DEF S, Size
  <2> QED
    BY ONLY <1>3, <1>4, <1>5, <1>6, <1>10, Zenon DEF n, c, Grown

\* The lengths of a block multiply to the sizes that were looked for.
Counts(dims, g) == [i \in DOMAIN dims |-> g[i].count]
Sized(dims, g, count) ==
  /\ count \in Lengths /\ Len(count) = Len(dims)
  /\ \A i \in 1..Len(dims) : count[i] = g[i].count /\ ChunkSizes(count)[i] = g[i].size

LEMMA GrownSizes ==
  ASSUME NEW dims \in Lengths, NEW cells, NEW start, NEW g, Grows(g, dims, cells, start),
         HasRoom(dims, start), NEW count, count = Counts(dims, g)
  PROVE  Sized(dims, g, count)
<1>0. /\ \A i \in 1..Len(dims) : dims[i] - start[i] \in Nat \ {0}
      /\ count = [i \in DOMAIN dims |-> g[i].count]
  BY DEF HasRoom, Counts
<1> DEFINE n == Len(dims)
           c == ChunkSizes(count)
<1>1. n \in Nat \ {0} /\ DOMAIN dims = 1..n
  BY LengthsType
<1>2. /\ g[n].size = 1
      /\ \A i \in 1..n - 1 : g[i].size = g[i + 1].size * g[i + 1].count
      /\ \A i \in 1..n : g[i].count \in 1..dims[i] - start[i]
  <2>1. Grown(g, dims, cells, start)
    BY GrownTypes
  <2>2. QED
    BY ONLY <2>1, Zenon DEF Grown
<1>3. \A i \in 1..n : count[i] = g[i].count /\ g[i].count \in Nat \ {0}
  <2> TAKE i \in 1..n
  <2>1. count[i] = g[i].count
    BY <1>0, <1>1
  <2>2. dims[i] - start[i] \in Nat \ {0} /\ g[i].count \in 1..dims[i] - start[i]
    BY <1>0, <1>2
  <2>3. QED
    BY <2>1, <2>2
<1>4. count \in Lengths /\ Len(count) = n
  <2>1. count \in [1..n -> Nat \ {0}]
    BY <1>0, <1>1, <1>3
  <2>2. count \in Seq(Nat \ {0}) /\ Len(count) = n
    BY <1>1, <2>1, SeqDef, LenProperties
  <2>3. QED
    BY <1>1, <2>2, EmptySeq DEF Lengths
<1>5. c[n] = 1 /\ \A i \in 1..n - 1 : c[i] = c[i + 1] * count[i + 1]
  BY <1>4, ChunkSizesAre
<1> HIDE DEF c
<1> DEFINE S == {i \in 1..n : c[i] = g[i].size}
<1>6. n \in S
  BY <1>1, <1>2, <1>5
<1>7. ASSUME NEW i \in 1..n - 1, i + 1 \in S PROVE i \in S
  <2>1. i + 1 \in 1..n /\ i \in 1..n
    BY <1>1
  <2>2. c[i] = g[i + 1].size * g[i + 1].count
    BY <1>3, <1>5, <1>7, <2>1
  <2>3. QED
    BY <1>2, <2>1, <2>2
<1>8. S = 1..n
  <2> HIDE DEF S
  <2>1. S \in SUBSET (1..n)
    BY DEF S
  <2>2. QED
    BY <1>1, <1>6, <1>7, <2>1, InductDown
<1>9. QED
  BY <1>3, <1>4, <1>8 DEF c, Sized

\* What a block found in a list of cells is: it lies in the array, has at most as many
\* cells as the list, and in each dimension its parts repeat one another.
LEMMA RegionFound ==
  ASSUME NEW dims \in Lengths, NEW cells \in Seq(Nat), cells # <<>>,
         NEW r, r = FindRegion(dims, cells)
  PROVE  /\ r.start = DimList(dims, cells[1])
         /\ r.count \in Lengths /\ Len(r.count) = Len(dims)
         /\ \A i \in 1..Len(dims) :
              /\ r.start[i] \in Nat /\ r.start[i] + r.count[i] <= dims[i]
              /\ \A k \in 1..r.count[i] - 1 :
                   Repeats(cells, k, ChunkSizes(r.count)[i], ChunkSizes(dims)[i])
              /\ ChunkSizes(r.count)[i] * r.count[i] <= Len(cells)
<1> DEFINE n == Len(dims)
           start == DimList(dims, cells[1])
<1>1. PICK g : /\ Grows(g, dims, cells, start)
               /\ r = [start |-> start, count |-> [i \in DOMAIN dims |-> g[i].count]]
  BY FindRegionIs, Zenon
<1>2. r.start = start /\ r.count = [i \in DOMAIN dims |-> g[i].count]
  <2> HIDE DEF start
  <2> QED BY ONLY <1>1
<1>3. n \in Nat \ {0} /\ \A i \in 1..n : dims[i] \in Nat \ {0}
  BY LengthsType
<1>4. cells[1] \in Nat /\ Len(cells) \in Nat \ {0}
  BY LenProperties, EmptySeq
<1>5. \A i \in 1..n : start[i] \in Nat /\ dims[i] - start[i] \in Nat \ {0}
  <2> TAKE i \in 1..n
  <2>1. start[i] \in 0..dims[i] - 1 /\ dims[i] \in Nat \ {0}
    BY <1>3, <1>4, DimListType
  <2> HIDE DEF start
  <2>2. QED
    BY <2>1, SMTT(30)
<1> HIDE DEF start
<1> DEFINE c == ChunkSizes(r.count)
<1>6. /\ r.count \in Lengths /\ Len(r.count) = n
      /\ \A i \in 1..n : r.count[i] = g[i].count /\ c[i] = g[i].size
  <2>1. Grows(g, dims, cells, start)
    BY <1>1
  <2>2. HasRoom(dims, start)
    BY <1>5 DEF HasRoom
  <2>3. r.count = Counts(dims, g)
    BY ONLY <1>2, Zenon DEF Counts
  <2>4. Sized(dims, g, r.count)
    BY ONLY <2>1, <2>2, <2>3, dims \in Lengths, GrownSizes
  <2>5. QED
    BY ONLY <2>4, Zenon DEF Sized
<1>7. /\ g[n].size = 1
      /\ \A i \in 1..n - 1 : g[i].size = g[i + 1].size * g[i + 1].count
      /\ \A i \in 1..n :
           /\ g[i].count = Longest(cells, g[i].size, ChunkSizes(dims)[i], dims[i] - start[i])
           /\ g[i].count \in 1..dims[i] - start[i]
           /\ g[i].size \in Nat \ {0}
  <2>1. HasRoom(dims, start) /\ Grows(g, dims, cells, start)
    BY <1>1, <1>5 DEF HasRoom
  <2>2. Grown(g, dims, cells, start)
    BY ONLY <2>1, dims \in Lengths, GrownTypes
  <2>3. QED
    BY ONLY <2>2, Zenon DEF Grown
<1> HIDE DEF c, n
<1>8. \A i \in 1..n : \A k \in 1..r.count[i] - 1 : Repeats(cells, k, c[i], ChunkSizes(dims)[i])
  <2> TAKE i \in 1..n
  <2>1. dims[i] - start[i] \in Nat \ {0}
    BY <1>5
  <2>2. QED
    BY <1>6, <1>7, <2>1, LongestIs
<1> DEFINE S == {i \in 1..n : c[i] * r.count[i] <= Len(cells)}
<1>9. ASSUME NEW i \in 1..n, c[i] <= Len(cells) PROVE i \in S
  <2>1. PICK a \in Nat \ {0}, b \in Nat \ {0} : a = c[i] /\ b = r.count[i]
    <3>1. dims[i] - start[i] \in Nat \ {0}
      BY <1>5
    <3>2. c[i] \in Nat \ {0}
      BY <1>6, <1>7, Zenon
    <3>3. r.count[i] \in 1..dims[i] - start[i]
      BY <1>6, <1>7, Zenon
    <3>4. r.count[i] \in Nat \ {0}
      BY <3>1, <3>3
    <3>5. QED
      BY <3>2, <3>4
  <2>2. CASE b = 1
    <3>1. a * b = a
      BY <2>2
    <3>2. QED
      BY <1>9, <2>1, <3>1
  <2>3. CASE b # 1
    <3>1. b - 1 \in 1..b - 1 /\ a \in 1..a
      BY <2>3
    <3>2. Repeats(cells, b - 1, a, ChunkSizes(dims)[i])
      BY <1>8, <2>1, <3>1, Zenon
    <3>3. (b - 1) * a + a <= Len(cells)
      BY <3>1, <3>2, Zenon DEF Repeats
    <3>4. (b - 1) * a + a = a * b
      OBVIOUS
    <3>5. a * b <= Len(cells)
      BY ONLY <3>3, <3>4
    <3>6. QED
      BY ONLY <2>1, <3>5, i \in 1..n
  <2>4. QED
    BY <2>2, <2>3
<1>10. n \in S
  <2>1. n \in 1..n
    BY ONLY <1>3
  <2>2. c[n] = 1
    BY ONLY <1>6, <1>7, <2>1
  <2>3. QED
    BY <1>4, <1>9, <2>1, <2>2
<1>11. ASSUME NEW i \in 1..n - 1, i + 1 \in S PROVE i \in S
  <2>1. i \in 1..n /\ i + 1 \in 1..n
    BY <1>3
  <2>2. c[i] = c[i + 1] * r.count[i + 1]
    BY <1>6, <1>7, <2>1
  <2>3. c[i] <= Len(cells)
    BY <1>11, <2>2
  <2>4. QED
    BY <1>9, <2>1, <2>3
<1>12. S = 1..n
  <2> HIDE DEF S
  <2>1. S \in SUBSET (1..n)
    BY DEF S
  <2>2. QED
    BY <1>3, <1>10, <1>11, <2>1, InductDown
<1>13. \A i \in 1..n : r.start[i] \in Nat /\ r.start[i] + r.count[i] <= dims[i]
  <2> TAKE i \in 1..n
  <2>1. /\ start[i] \in Nat /\ dims[i] - start[i] \in Nat \ {0} /\ dims[i] \in Nat
        /\ r.count[i] \in 1..dims[i] - start[i]
    BY <1>3, <1>5, <1>6, <1>7, Zenon
  <2>2. QED
    BY <1>2, <2>1
<1>14. r.start = DimList(dims, cells[1])
  BY <1>2 DEF start
<1>15. \A i \in 1..n : c[i] * r.count[i] <= Len(cells)
  BY <1>12
<1>16. QED
  <2> HIDE DEF S
  <2> QED BY ONLY <1>6, <1>8, <1>13, <1>14, <1>15, Zenon DEF n, c

-----------------------------------------------------------------------------
(***************************************************************************)
(* Coordinates: idx_to_dim_list and coord_to_lindex are inverse, and the   *)
(* chunks of the inner dimensions divide those of the outer ones.          *)
(***************************************************************************)

\* The sums of the values up to each place, which is what LIndex computes.
LEMMA WeightedSums ==
  ASSUME NEW m \in Nat, NEW f
  PROVE  \E s : s = [n \in 0..m |-> IF n = 0 THEN 0 ELSE s[n - 1] + f[n]]
<1> DEFINE S == {j \in Nat : \E s : s = [n \in 0..j |-> IF n = 0 THEN 0 ELSE s[n - 1] + f[n]]}
<1>1. 0 \in S
  <2> DEFINE s == [n \in 0..0 |-> 0]
  <2>1. s = [n \in 0..0 |-> IF n = 0 THEN 0 ELSE s[n - 1] + f[n]]
    OBVIOUS
  <2>2. QED
    BY <2>1, Zenon
<1>2. ASSUME NEW j \in S PROVE j + 1 \in S
  <2>1. PICK s : s = [n \in 0..j |-> IF n = 0 THEN 0 ELSE s[n - 1] + f[n]]
    OBVIOUS
  <2> DEFINE t == [n \in 0..(j + 1) |-> IF n <= j THEN s[n] ELSE s[j] + f[j + 1]]
  <2>2. \A n \in 0..j : s[n] = IF n = 0 THEN 0 ELSE s[n - 1] + f[n]
    BY <2>1
  <2>3. \A n \in 0..(j + 1) : t[n] = IF n = 0 THEN 0 ELSE t[n - 1] + f[n]
    BY <2>2
  <2>4. t = [n \in 0..(j + 1) |-> IF n = 0 THEN 0 ELSE t[n - 1] + f[n]]
    BY <2>3
  <2>5. \E u : u = [n \in 0..(j + 1) |-> IF n = 0 THEN 0 ELSE u[n - 1] + f[n]]
    <3> HIDE DEF t
    <3>1. QED
      BY <2>4
  <2>6. QED
    BY <2>5
<1>3. S = Nat
  <2> HIDE DEF S
  <2>1. S \in SUBSET Nat
    BY DEF S
  <2>2. QED
    BY <1>1, <1>2, <2>1, Induct
<1>4. m \in S
  BY <1>3, Zenon
<1>5. QED
  BY <1>4

\* LIndex is the last of sums over the dimensions.
LEMMA LIndexIs ==
  ASSUME NEW dims \in Lengths, NEW coord
  PROVE  \E s : /\ s[0] = 0
                /\ \A n \in 1..Len(dims) : s[n] = s[n - 1] + coord[n] * ChunkSizes(dims)[n]
                /\ LIndex(coord, dims) = s[Len(dims)]
<1> DEFINE m == Len(dims)
           f == [n \in 1..m |-> coord[n] * ChunkSizes(dims)[n]]
           s == CHOOSE s : s = [n \in 0..m |->
                  IF n = 0 THEN 0 ELSE s[n - 1] + coord[n] * ChunkSizes(dims)[n]]
<1>1. m \in Nat \ {0}
  BY LengthsType
<1>2. \E t : t = [n \in 0..m |-> IF n = 0 THEN 0 ELSE t[n - 1] + f[n]]
  <2> HIDE DEF f
  <2> QED BY <1>1, WeightedSums, Zenon
<1>3. PICK t : t = [n \in 0..m |-> IF n = 0 THEN 0 ELSE t[n - 1] + f[n]]
  <2> HIDE DEF f
  <2> QED BY <1>2
<1>4. \A n \in 0..m : n # 0 => f[n] = coord[n] * ChunkSizes(dims)[n]
  BY <1>1
<1>5. t = [n \in 0..m |-> IF n = 0 THEN 0 ELSE t[n - 1] + coord[n] * ChunkSizes(dims)[n]]
  <2> HIDE DEF f, m
  <2> QED BY <1>3, <1>4, Zenon
<1>6. s = [n \in 0..m |-> IF n = 0 THEN 0 ELSE s[n - 1] + coord[n] * ChunkSizes(dims)[n]]
  <2>1. \E u : u = [n \in 0..m |-> IF n = 0 THEN 0 ELSE u[n - 1] + coord[n] * ChunkSizes(dims)[n]]
    BY <1>5
  <2> HIDE DEF m
  <2>2. QED
    BY <2>1, Zenon
<1>7. LIndex(coord, dims) = s[m]
  BY Zenon DEF LIndex
<1>8. s[0] = 0 /\ \A n \in 1..m : s[n] = s[n - 1] + coord[n] * ChunkSizes(dims)[n]
  <2> HIDE DEF s, m
  <2> QED BY <1>1, <1>6
<1>9. QED
  <2> HIDE DEF s
  <2> QED BY <1>7, <1>8

\* With q more in one coordinate a cell is q chunks further.
LEMMA LIndexAdds ==
  ASSUME NEW dims \in Lengths, NEW a, NEW b, NEW i \in 1..Len(dims), NEW q \in Nat,
         \A j \in 1..Len(dims) : a[j] \in Nat /\ b[j] = IF j = i THEN a[j] + q ELSE a[j]
  PROVE  /\ LIndex(a, dims) \in Nat
         /\ LIndex(b, dims) = LIndex(a, dims) + q * ChunkSizes(dims)[i]
<1> DEFINE m == Len(dims)
           c == ChunkSizes(dims)
<1>1. m \in Nat \ {0} /\ \A j \in 1..m : c[j] \in Nat \ {0}
  BY LengthsType, ChunkSizesAre
<1>2. PICK s : /\ s[0] = 0 /\ \A n \in 1..m : s[n] = s[n - 1] + a[n] * c[n]
               /\ LIndex(a, dims) = s[m]
  BY LIndexIs
<1>3. PICK t : /\ t[0] = 0 /\ \A n \in 1..m : t[n] = t[n - 1] + b[n] * c[n]
               /\ LIndex(b, dims) = t[m]
  BY LIndexIs
<1> HIDE DEF c, m
<1> DEFINE more == q * c[i]
           S == {n \in Nat : n <= m => s[n] \in Nat /\ t[n] = IF n < i THEN s[n] ELSE s[n] + more}
<1>4. i \in 1..m /\ more \in Nat
  <2>1. i \in 1..m
    BY DEF m
  <2>2. PICK d \in Nat : d = c[i]
    BY <1>1, <2>1
  <2>3. q * d \in Nat
    OBVIOUS
  <2>4. QED
    BY <2>1, <2>2, <2>3
<1>5. 0 \in S
  BY <1>2, <1>3, <1>4
<1>6. ASSUME NEW n \in S PROVE n + 1 \in S
  <2>1. CASE n + 1 <= m
    <3>1. n + 1 \in 1..m /\ (n + 1) - 1 = n /\ n \in Nat
      BY <1>1, <2>1
    <3>2. a[n + 1] \in Nat /\ b[n + 1] = IF n + 1 = i THEN a[n + 1] + q ELSE a[n + 1]
      BY <3>1 DEF m
    <3>3. PICK x \in Nat, d \in Nat : x = a[n + 1] /\ d = c[n + 1]
      BY <1>1, <3>1, <3>2
    <3>4. s[n + 1] = s[n] + x * d /\ t[n + 1] = t[n] + b[n + 1] * d
      <4>1. s[n + 1] = s[(n + 1) - 1] + a[n + 1] * c[n + 1]
        BY ONLY <1>2, <3>1
      <4>2. t[n + 1] = t[(n + 1) - 1] + b[n + 1] * c[n + 1]
        BY ONLY <1>3, <3>1
      <4>3. QED
        BY ONLY <3>1, <3>3, <4>1, <4>2, Zenon
    <3>5. x * d \in Nat /\ (x + q) * d = x * d + q * d
      OBVIOUS
    <3>6. s[n] \in Nat /\ t[n] = IF n < i THEN s[n] ELSE s[n] + more
      BY <1>6, <2>1, <3>1, <1>1
    <3>7. s[n + 1] \in Nat
      BY <3>4, <3>5, <3>6, SMTT(30)
    <3>8. CASE n + 1 = i
      <4>4. b[n + 1] = x + q
        BY <3>2, <3>3, <3>8
      <4>5. t[n] = s[n]
        BY <1>4, <3>1, <3>6, <3>8
      <4>6. more = q * d
        BY <3>3, <3>8
      <4>1. t[n + 1] = s[n] + (x + q) * d /\ more = q * d
        BY ONLY <3>4, <4>4, <4>5, <4>6, Zenon
      <4>2. t[n + 1] = s[n + 1] + more
        BY <3>4, <3>5, <3>6, <4>1, <1>4
      <4> HIDE DEF more
      <4>3. QED
        BY <3>1, <3>7, <3>8, <4>2
    <3>9. CASE n + 1 # i
      <4>1. t[n + 1] = t[n] + x * d
        BY <3>2, <3>3, <3>4, <3>9
      <4> HIDE DEF more
      <4>2. t[n + 1] = IF n + 1 < i THEN s[n + 1] ELSE s[n + 1] + more
        BY <1>4, <3>1, <3>4, <3>5, <3>6, <3>9, <4>1
      <4>3. QED
        BY <3>1, <3>7, <4>2
    <3>10. QED
      BY <3>8, <3>9
  <2>2. QED
    BY <2>1
<1>7. S = Nat
  <2> HIDE DEF S
  <2>1. S \in SUBSET Nat
    BY DEF S
  <2>2. QED
    BY <1>5, <1>6, <2>1, Induct, Zenon
<1>8. m \in S
  BY <1>1, <1>7
<1>9. s[m] \in Nat /\ t[m] = s[m] + more
  <2> HIDE DEF more
  <2> QED BY <1>1, <1>4, <1>8
<1>10. QED
  BY <1>2, <1>3, <1>9 DEF c

\* Dividing by a product is dividing twice.
LEMMA DivideTwice ==
  ASSUME NEW x \in Nat, NEW a \in Nat \ {0}, NEW b \in Nat \ {0}
  PROVE  x \div (a * b) = (x \div a) \div b
<1>1. PICK p \in Nat, r \in 0..a - 1 : p = x \div a /\ r = x % a /\ x = a * p + r
  BY Division
<1>2. PICK q \in Nat, t \in 0..b - 1 : q = p \div b /\ t = p % b /\ p = b * q + t
  BY Division
<1>3. a * b \in Nat \ {0}
  OBVIOUS
<1>4. x = (a * b) * q + (a * t + r)
  <2>1. a * p = (a * b) * q + a * t
    <3>1. a * (b * q + t) = (a * b) * q + a * t
      OBVIOUS
    <3>2. QED
      BY <1>2, <3>1, Zenon
  <2>2. QED
    BY <1>1, <2>1
<1>5. a * t + r \in Nat /\ a * t + r < a * b
  <2>1. PICK u \in Nat : b = t + 1 + u
    BY <1>2
  <2>2. a * b = a * t + a + a * u /\ a * u \in Nat /\ a * t \in Nat
    BY <2>1
  <2>3. QED
    BY <1>1, <2>2
<1>6. (a * b) * q \in Nat
  OBVIOUS
<1>7. (a * b) * q <= x /\ x < (a * b) * q + a * b
  BY <1>3, <1>4, <1>5, <1>6
<1>8. x \div (a * b) = q
  BY <1>3, <1>7, Quotient
<1>9. QED
  BY <1>1, <1>2, <1>8

\* The coordinates of a cell (idx_to_dim_list) lead back to it (coord_to_lindex), whatever
\* the dimensions are: each coordinate takes what the chunk of its dimension leaves over.
THEOREM CellOfCoordinates ==
  ASSUME NEW dims \in Lengths, NEW x \in 0..GridSize(dims) - 1
  PROVE  LIndex(DimList(dims, x), dims) = x
<1> DEFINE m == Len(dims)
           c == ChunkSizes(dims)
           e == DimList(dims, x)
<1>1. /\ m \in Nat \ {0} /\ \A j \in 1..m : c[j] \in Nat \ {0} /\ dims[j] \in Nat \ {0}
      /\ c[m] = 1 /\ \A j \in 1..m - 1 : c[j] = c[j + 1] * dims[j + 1]
  BY LengthsType, ChunkSizesAre
<1>2. x \in Nat /\ x < dims[1] * c[1]
  BY GridSizeIs
<1>3. \A j \in 1..m : e[j] = (x \div c[j]) % dims[j]
  BY <1>2, DimListType
<1>4. PICK s : /\ s[0] = 0 /\ \A n \in 1..m : s[n] = s[n - 1] + e[n] * c[n]
               /\ LIndex(e, dims) = s[m]
  BY LIndexIs
<1> HIDE DEF c, m, e
<1> DEFINE S == {n \in Nat : n + 1 <= m => s[n + 1] = (x \div c[n + 1]) * c[n + 1]}
<1>5. 0 \in S
  <2>1. 1 \in 1..m
    BY <1>1
  <2>2. PICK a \in Nat \ {0}, d \in Nat \ {0} : a = c[1] /\ d = dims[1]
    BY <1>1, <2>1
  <2>3. PICK q \in Nat : q = x \div a /\ a * q <= x
    <3>0. /\ x \div a \in Nat /\ x % a \in 0..a - 1
          /\ x = a * (x \div a) + (x % a)
      BY ONLY <1>2, Division, a \in Nat \ {0}, Zenon
    <3>1. PICK q \in Nat, r \in 0..a - 1 : q = x \div a /\ x = a * q + r
      BY ONLY <3>0, Zenon
    <3>2. a * q <= x
      BY <3>1
    <3>3. QED
      BY <3>1, <3>2
  <2>4. q < d
    <3>1. SUFFICES ASSUME q >= d PROVE FALSE
      BY <2>2, <2>3
    <3>2. PICK u \in Nat : q = d + u
      BY <3>1
    <3>3. a * q = d * a + a * u /\ a * u \in Nat
      BY <3>2
    <3>4. QED
      BY <1>2, <2>2, <2>3, <3>3
  <2>5. q % d = q
    BY <2>4, SmallRemainder
  <2>6. s[1] = s[0] + e[1] * c[1] /\ e[1] = q % d
    BY <1>3, <1>4, <2>1, <2>2, <2>3
  <2>7. s[1] = q * a
    BY <1>4, <2>2, <2>3, <2>5, <2>6
  <2>8. QED
    BY <2>2, <2>3, <2>7
<1>6. ASSUME NEW n \in S PROVE n + 1 \in S
  <2>1. CASE (n + 1) + 1 <= m
    <3>1. n \in Nat /\ n + 1 \in 1..m - 1 /\ n + 1 \in 1..m /\ n + 2 \in 1..m
      BY <1>1, <2>1
    <3>2. PICK a \in Nat \ {0}, d \in Nat \ {0} : a = c[n + 2] /\ d = dims[n + 2]
      BY <1>1, <3>1
    <3>3. c[n + 1] = a * d
      <4>1. c[n + 1] = c[(n + 1) + 1] * dims[(n + 1) + 1] /\ (n + 1) + 1 = n + 2
        BY <1>1, <3>1
      <4>2. QED
        BY <3>2, <4>1
    <3>4. PICK q \in Nat : q = x \div a
      <4>1. x \div a \in Nat
        BY ONLY <1>2, a \in Nat \ {0}, Division, Zenon
      <4>2. QED
        BY ONLY <4>1, Zenon
    <3>5. PICK p \in Nat, r \in 0..d - 1 : p = q \div d /\ r = q % d /\ q = d * p + r
      <4>1. q \div d \in Nat /\ q % d \in 0..d - 1 /\ q = d * (q \div d) + (q % d)
        BY ONLY q \in Nat, d \in Nat \ {0}, Division, Zenon
      <4>2. QED
        BY ONLY <4>1, Zenon
    <3>6. x \div (a * d) = p
      BY <1>2, <3>4, <3>5, DivideTwice, ZenonT(60)
    <3>7. s[n + 1] = p * (a * d)
      BY <1>1, <1>6, <3>1, <3>3, <3>6
    <3>8. s[n + 2] = s[n + 1] + e[n + 2] * c[n + 2]
      <4>1. s[n + 2] = s[(n + 2) - 1] + e[n + 2] * c[n + 2] /\ (n + 2) - 1 = n + 1
        BY <1>4, <3>1
      <4>2. QED
        BY <4>1
    <3>9. e[n + 2] = r
      BY <1>3, <3>1, <3>2, <3>4, <3>5
    <3>10. s[n + 2] = p * (a * d) + r * a
      BY <3>2, <3>7, <3>8, <3>9
    <3>11. p * (a * d) + r * a = q * a
      BY <3>5
    <3>12. s[(n + 1) + 1] = (x \div c[(n + 1) + 1]) * c[(n + 1) + 1]
      BY <3>1, <3>2, <3>4, <3>10, <3>11
    <3>13. QED
      BY <3>1, <3>12
  <2>2. QED
    BY <2>1
<1>7. S = Nat
  <2> HIDE DEF S
  <2>1. S \in SUBSET Nat
    BY DEF S
  <2>2. QED
    BY <1>5, <1>6, <2>1, Induct
<1>8. s[m] = (x \div c[m]) * c[m]
  <2>1. m - 1 \in Nat /\ (m - 1) + 1 = m
    BY <1>1
  <2>2. m - 1 \in S
    BY <1>7, <2>1
  <2>3. QED
    BY <1>1, <2>1, <2>2
<1>9. (x \div 1) * 1 = x
  BY <1>2
<1>10. QED
  BY <1>1, <1>4, <1>8, <1>9 DEF e

\* A chunk is a multiple of the layers of every inner dimension.
LEMMA ChunksNest ==
  ASSUME NEW dims \in Lengths, NEW j \in 1..Len(dims)
  PROVE  \A i \in 1..j - 1 : \E m \in Nat \ {0} :
           ChunkSizes(dims)[i] = (ChunkSizes(dims)[j] * dims[j]) * m
<1> DEFINE c == ChunkSizes(dims)
           unit == c[j] * dims[j]
           S == {i \in 1..j - 1 : \E m \in Nat \ {0} : c[i] = unit * m}
<1>1. /\ Len(dims) \in Nat \ {0} /\ \A i \in 1..Len(dims) : c[i] \in Nat \ {0} /\ dims[i] \in Nat \ {0}
      /\ \A i \in 1..Len(dims) - 1 : c[i] = c[i + 1] * dims[i + 1]
  BY LengthsType, ChunkSizesAre
<1>2. unit \in Nat \ {0}
  <2>1. PICK a \in Nat \ {0}, b \in Nat \ {0} : a = c[j] /\ b = dims[j]
    BY <1>1
  <2>2. a * b \in Nat \ {0}
    OBVIOUS
  <2> HIDE DEF c
  <2>3. QED
    BY <2>1, <2>2
<1> HIDE DEF c
<1>3. CASE j = 1
  BY <1>3
<1>4. CASE j # 1
  <2>1. j - 1 \in Nat \ {0} /\ j - 1 \in 1..Len(dims) - 1 /\ (j - 1) + 1 = j
    BY <1>1, <1>4
  <2>2. j - 1 \in S
    <3>1. c[j - 1] = unit
      <4>1. c[j - 1] = c[(j - 1) + 1] * dims[(j - 1) + 1]
        BY <1>1, <2>1
      <4>2. QED
        BY <2>1, <4>1
    <3> HIDE DEF unit
    <3>2. c[j - 1] = unit * 1
      BY <1>2, <3>1
    <3>3. QED
      BY <2>1, <3>2
  <2>3. ASSUME NEW i \in 1..(j - 1) - 1, i + 1 \in S PROVE i \in S
    <3>1. PICK m \in Nat \ {0} : c[i + 1] = unit * m
      BY <2>3
    <3>2. i \in 1..Len(dims) - 1 /\ i + 1 \in 1..Len(dims) /\ i \in 1..j - 1
      BY <1>1, <2>1
    <3>3. PICK b \in Nat \ {0} : b = dims[i + 1]
      BY <1>1, <3>2
    <3>4. c[i] = c[i + 1] * b
      BY <1>1, <3>2, <3>3
    <3> HIDE DEF unit
    <3>5. c[i] = unit * (m * b) /\ m * b \in Nat \ {0}
      BY <1>2, <3>1, <3>4
    <3>6. QED
      BY <3>2, <3>5
  <2>4. S = 1..j - 1
    <3> HIDE DEF S
    <3>1. S \in SUBSET (1..j - 1)
      BY DEF S
    <3>2. QED
      BY <2>1, <2>2, <2>3, <3>1, InductDown
  <2>5. QED
    BY <2>4 DEF c
<1>5. QED
  BY <1>3, <1>4

-----------------------------------------------------------------------------
(***************************************************************************)
(* A block has the cells of the list, place by place.                      *)
(***************************************************************************)

\* The quotient and the remainder of a number given by them.
LEMMA DivideExactly ==
  ASSUME NEW a \in Nat \ {0}, NEW q \in Nat, NEW y \in 0..a - 1
  PROVE  (q * a + y) \div a = q /\ (q * a + y) % a = y
<1>1. q * a \in Nat /\ a * q = q * a
  OBVIOUS
<1>2. PICK x \in Nat : x = q * a + y
  BY <1>1
<1>3. x \div a = q
  BY <1>1, <1>2, Quotient
<1>4. PICK p \in Nat, r \in 0..a - 1 : p = x \div a /\ r = x % a /\ x = a * p + r
  BY Division
<1>5. QED
  BY <1>1, <1>2, <1>3, <1>4

\* The coordinates in a block of a place in layer q of dimension i are those of its place
\* in the first layer, but for q itself.
LEMMA CoordinatesInLayer ==
  ASSUME NEW count \in Lengths, NEW i \in 1..Len(count),
         NEW q \in 0..count[i] - 1, NEW y \in 0..ChunkSizes(count)[i] - 1
  PROVE  \A j \in 1..Len(count) :
           /\ DimList(count, y)[j] \in Nat
           /\ DimList(count, q * ChunkSizes(count)[i] + y)[j] =
                IF j = i THEN DimList(count, y)[j] + q ELSE DimList(count, y)[j]
<1> DEFINE c == ChunkSizes(count)
<1>1. \A j \in 1..Len(count) : c[j] \in Nat \ {0} /\ count[j] \in Nat \ {0}
  BY LengthsType, ChunkSizesAre
<1>2. PICK a \in Nat \ {0} : a = c[i]
  BY <1>1
<1>3. q \in Nat /\ y \in Nat /\ y < a /\ count[i] \in Nat \ {0} /\ q < count[i]
  BY <1>1, <1>2
<1>4. PICK x \in Nat : x = q * a + y
  BY <1>3
<1>5. \A j \in 1..Len(count) :
        /\ DimList(count, y)[j] = (y \div c[j]) % count[j]
        /\ DimList(count, x)[j] = (x \div c[j]) % count[j]
        /\ DimList(count, y)[j] \in Nat
  <2> TAKE j \in 1..Len(count)
  <2>1. DimList(count, y)[j] \in 0..count[j] - 1
    BY <1>3, DimListType
  <2>2. QED
    BY <1>1, <1>3, <1>4, <2>1, DimListType
<1> HIDE DEF c
<1>6. SUFFICES ASSUME NEW j \in 1..Len(count)
               PROVE  (x \div c[j]) % count[j] =
                        IF j = i THEN ((y \div c[j]) % count[j]) + q ELSE (y \div c[j]) % count[j]
  BY <1>2, <1>4, <1>5, Zenon DEF c
<1>7. PICK d \in Nat \ {0}, b \in Nat \ {0} : d = c[j] /\ b = count[j]
  BY <1>1, Zenon
<1>8. CASE j = i
  <2>0. y \in 0..a - 1
    BY <1>3
  <2>1. x \div a = q
    <3>1. (q * a + y) \div a = q
      BY ONLY <1>3, <2>0, a \in Nat \ {0}, DivideExactly, Zenon
    <3>2. QED
      BY <1>4, <3>1
  <2>2. 0 \div a = 0 /\ y \div a = 0
    <3>1. y = 0 * a + y /\ 0 = 0 * a + 0 /\ 0 \in Nat /\ 0 \in 0..a - 1
      BY <1>3
    <3>2. (0 * a + y) \div a = 0 /\ (0 * a + 0) \div a = 0
      BY ONLY <3>1, <2>0, a \in Nat \ {0}, DivideExactly, Zenon
    <3>3. QED
      BY ONLY <3>1, <3>2
  <2>3. q % b = q /\ 0 % b = 0
    <3>1. \A z \in Nat : z < b => z % b = z
      BY SmallRemainder
    <3>2. q < b /\ q \in Nat /\ 0 < b
      BY <1>3, <1>7, <1>8
    <3>3. QED
      BY <3>1, <3>2
  <2>4. ((y \div d) % b) + q = q /\ (x \div d) % b = q
    <3>1. d = a
      BY <1>2, <1>7, <1>8
    <3>2. (y \div d) % b = 0 /\ (x \div d) % b = q
      BY ONLY <2>1, <2>2, <2>3, <3>1
    <3>3. QED
      BY <1>3, <3>2
  <2>5. QED
    BY <1>7, <1>8, <2>4
<1>9. CASE j > i
  <2>1. PICK m \in Nat \ {0} : c[i] = (c[j] * count[j]) * m
    <3>1. i \in 1..j - 1
      BY <1>9
    <3>2. QED
      BY <3>1, ChunksNest DEF c
  <2>2. a = d * (b * m)
    <3>1. (d * b) * m = d * (b * m)
      OBVIOUS
    <3>2. QED
      BY <1>2, <1>7, <2>1, <3>1
  <2>3. PICK p \in Nat, r \in 0..d - 1 : p = y \div d /\ y = d * p + r
    <3>0. y \div d \in Nat /\ y % d \in 0..d - 1 /\ y = d * (y \div d) + (y % d)
      BY ONLY <1>3, d \in Nat \ {0}, Division, Zenon
    <3>1. QED
      BY ONLY <3>0, Zenon
  <2>4. x = ((q * m) * b + p) * d + r
    <3>1. q * (d * (b * m)) + (d * p + r) = ((q * m) * b + p) * d + r
      BY <1>3
    <3>2. QED
      BY <1>4, <2>2, <2>3, <3>1
  <2>5. q * m \in Nat /\ (q * m) * b \in Nat
    BY <1>3
  <2>6. x \div d = (q * m) * b + p
    <3>1. PICK w \in Nat : w = (q * m) * b + p
      BY <2>5
    <3>2. (w * d + r) \div d = w
      BY ONLY w \in Nat, d \in Nat \ {0}, r \in 0..d - 1, DivideExactly, Zenon
    <3>3. QED
      BY <2>4, <3>1, <3>2
  <2>7. ((q * m) * b + p) % b = p % b
    <3>1. p \div b \in Nat /\ p % b \in 0..b - 1 /\ p = b * (p \div b) + (p % b)
      BY Division, Zenon
    <3>2. PICK u \in Nat, t \in 0..b - 1 : u = p \div b /\ t = p % b /\ p = b * u + t
      BY ONLY <3>1, Zenon
    <3>3. PICK w \in Nat : w = q * m
      BY <2>5
    <3>4. w * b + p = (w + u) * b + t
      BY <3>2
    <3>5. ((w + u) * b + t) % b = t
      <4>1. PICK z \in Nat : z = w + u
        OBVIOUS
      <4>2. (z * b + t) % b = t
        BY ONLY z \in Nat, b \in Nat \ {0}, t \in 0..b - 1, DivideExactly, Zenon
      <4>3. QED
        BY <4>1, <4>2
    <3>6. QED
      BY <3>2, <3>3, <3>4, <3>5, Zenon
  <2>8. QED
    BY <1>7, <1>9, <2>3, <2>6, <2>7
<1>10. CASE j < i
  <2>1. PICK m \in Nat \ {0} : c[j] = (c[i] * count[i]) * m
    <3>1. j \in 1..i - 1
      BY <1>10
    <3>2. QED
      BY <3>1, ChunksNest DEF c
  <2>2. x < d
    <3>1. PICK e \in Nat \ {0} : e = count[i]
      BY <1>3
    <3>2. d = (a * e) * m
      BY <1>2, <1>7, <2>1, <3>1
    <3>30. e - q - 1 \in Nat /\ m - 1 \in Nat /\ e = q + 1 + (e - q - 1) /\ m = 1 + (m - 1)
      BY <1>3, <3>1, SMTT(30)
    <3>3. PICK u \in Nat, v \in Nat : e = q + 1 + u /\ m = 1 + v
      BY ONLY <3>30, Zenon
    <3>4. (a * (q + 1 + u)) * (1 + v) = (q * a + a) + (a * u + (a * (q + 1 + u)) * v)
      BY <1>3
    <3>5. a * u + (a * (q + 1 + u)) * v \in Nat
      BY <1>3
    <3>6. d = (q * a + a) + (a * u + (a * (q + 1 + u)) * v)
      BY <3>2, <3>3, <3>4
    <3>7. q * a \in Nat
      BY <1>3
    <3>8. QED
      BY <1>3, <1>4, <3>5, <3>6, <3>7
  <2>3. y < d
    <3>1. q * a \in Nat
      BY <1>3
    <3>2. QED
      BY <1>3, <1>4, <2>2, <3>1
  <2>4. x \div d = 0 /\ y \div d = 0
    <3>1. ASSUME NEW z \in 0..d - 1 PROVE z \div d = 0
      <4>1. (0 * d + z) \div d = 0
        BY ONLY 0 \in Nat, z \in 0..d - 1, d \in Nat \ {0}, DivideExactly
      <4>2. 0 * d + z = z
        OBVIOUS
      <4>3. QED
        BY ONLY <4>1, <4>2
    <3>2. x \in 0..d - 1 /\ y \in 0..d - 1
      BY <1>3, <1>4, <2>2, <2>3
    <3>3. QED
      BY ONLY <3>1, <3>2, Zenon
  <2>5. QED
    BY <1>7, <1>10, <2>4
<1>11. QED
  BY <1>8, <1>9, <1>10

\* The k-th cell of a block found in a list is the k-th one of the list.
LEMMA RegionCells ==
  ASSUME NEW dims \in Lengths, NEW cells \in Seq(0..GridSize(dims) - 1), cells # <<>>,
         NEW r, r = FindRegion(dims, cells)
  PROVE  /\ GridSize(r.count) \in 1..Len(cells)
         /\ \A k \in 1..GridSize(r.count) : BlockCells(dims, r.start, r.count)[k] = cells[k]
<1> DEFINE n == Len(dims)
           c == ChunkSizes(r.count)
           At(x) == [j \in DOMAIN dims |-> r.start[j] + DimList(r.count, x)[j]]
           CellAt(x) == LIndex(At(x), dims)
           Further(x, y, q, i) ==
             \A j \in 1..n : /\ DimList(r.count, y)[j] \in Nat
                             /\ DimList(r.count, x)[j] = IF j = i THEN DimList(r.count, y)[j] + q
                                                         ELSE DimList(r.count, y)[j]
<1>0. /\ n \in Nat \ {0} /\ DOMAIN dims = 1..n
      /\ cells \in Seq(Nat) /\ Len(cells) \in Nat \ {0} /\ cells[1] \in 0..GridSize(dims) - 1
  <2>1. cells \in Seq(Nat)
    BY GridSizeIs
  <2>2. Len(cells) \in Nat \ {0} /\ cells[1] \in 0..GridSize(dims) - 1
    <3>1. PICK T : T = 0..GridSize(dims) - 1 /\ cells \in Seq(T)
      OBVIOUS
    <3>2. Len(cells) \in Nat /\ cells \in [1..Len(cells) -> T] /\ Len(cells) # 0
      BY ONLY <3>1, cells # <<>>, LenProperties, EmptySeq, Zenon
    <3>3. Len(cells) \in Nat \ {0} /\ 1 \in 1..Len(cells)
      BY <3>2
    <3>4. QED
      BY <3>1, <3>2, <3>3
  <2>3. QED
    BY <2>1, <2>2, LengthsType
<1>1. /\ r.start = DimList(dims, cells[1])
      /\ r.count \in Lengths /\ Len(r.count) = n
      /\ \A i \in 1..n :
           /\ r.start[i] \in Nat
           /\ \A k \in 1..r.count[i] - 1 : Repeats(cells, k, c[i], ChunkSizes(dims)[i])
           /\ c[i] * r.count[i] <= Len(cells)
  BY <1>0, RegionFound
<1>2. /\ \A i \in 1..n : c[i] \in Nat \ {0} /\ r.count[i] \in Nat \ {0}
      /\ c[n] = 1
      /\ \A i \in 1..n - 1 : c[i] = c[i + 1] * r.count[i + 1]
  BY <1>1, LengthsType, ChunkSizesAre, Zenon
<1>3. \A i \in 1..n : ChunkSizes(dims)[i] \in Nat \ {0}
  BY ChunkSizesAre
<1>4. \A x, y, q \in Nat : \A i \in 1..n :
        Further(x, y, q, i) => CellAt(x) = CellAt(y) + q * ChunkSizes(dims)[i] /\ CellAt(y) \in Nat
  <2> SUFFICES ASSUME NEW x \in Nat, NEW y \in Nat, NEW q \in Nat, NEW i \in 1..n,
                 Further(x, y, q, i)
               PROVE  CellAt(x) = CellAt(y) + q * ChunkSizes(dims)[i] /\ CellAt(y) \in Nat
    BY Zenon
  <2>1. \A j \in 1..n : At(y)[j] \in Nat /\ At(x)[j] = IF j = i THEN At(y)[j] + q ELSE At(y)[j]
    <3> TAKE j \in 1..n
    <3>1. PICK u \in Nat, v \in Nat : u = r.start[j] /\ v = DimList(r.count, y)[j]
      BY <1>1
    <3>2. DimList(r.count, x)[j] = IF j = i THEN v + q ELSE v
      BY <3>1
    <3>3. At(y)[j] = u + v /\ At(x)[j] = u + DimList(r.count, x)[j]
      BY <1>0, <3>1
    <3> HIDE DEF At
    <3>4. QED
      BY <3>2, <3>3
  <2>2. LIndex(At(y), dims) \in Nat
        /\ LIndex(At(x), dims) = LIndex(At(y), dims) + q * ChunkSizes(dims)[i]
    <3>1. PICK a, b : a = At(y) /\ b = At(x)
      OBVIOUS
    <3> HIDE DEF At
    <3>2. \A j \in 1..Len(dims) : a[j] \in Nat /\ b[j] = IF j = i THEN a[j] + q ELSE a[j]
      BY <2>1, <3>1
    <3>3. LIndex(a, dims) \in Nat /\ LIndex(b, dims) = LIndex(a, dims) + q * ChunkSizes(dims)[i]
      BY ONLY <3>2, q \in Nat, i \in 1..n, dims \in Lengths, LIndexAdds
    <3>4. QED
      BY ONLY <3>1, <3>3
  <2>3. QED
    BY <2>2
<1>5. CellAt(0) = cells[1]
  <2>1. \A j \in 1..n : r.start[j] \in Nat /\ At(0)[j] = r.start[j]
    <3> TAKE j \in 1..n
    <3>1. PICK a \in Nat \ {0}, b \in Nat \ {0} : a = c[j] /\ b = r.count[j]
      BY <1>2
    <3>2. (0 \div a) % b = 0
      <4>1. 0 \div a = 0
        BY Quotient
      <4>2. 0 % b = 0
        BY SmallRemainder
      <4>3. QED
        BY <4>1, <4>2
    <3>3. DimList(r.count, 0)[j] = (0 \div c[j]) % r.count[j]
      <4>1. r.count \in Lengths /\ 0 \in Nat /\ j \in 1..Len(r.count)
        BY <1>1
      <4>2. DimList(r.count, 0)[j] = (0 \div ChunkSizes(r.count)[j]) % r.count[j]
        BY ONLY <4>1, DimListType, Zenon
      <4>3. QED
        BY ONLY <1>1, <4>2
    <3>4. DimList(r.count, 0)[j] = 0
      BY <3>1, <3>2, <3>3
    <3>5. QED
      BY <1>0, <1>1, <3>4
  <2>2. LIndex(At(0), dims) = LIndex(r.start, dims) + 0 * ChunkSizes(dims)[1]
    <3> HIDE DEF At
    <3>1. \A j \in 1..n : r.start[j] \in Nat /\ At(0)[j] = IF j = 1 THEN r.start[j] + 0 ELSE r.start[j]
      BY <2>1
    <3>2. 0 \in Nat /\ 1 \in 1..n
      BY <1>0
    <3>3. PICK a, b : a = r.start /\ b = At(0)
      OBVIOUS
    <3>4. \A j \in 1..Len(dims) : a[j] \in Nat /\ b[j] = IF j = 1 THEN a[j] + 0 ELSE a[j]
      BY <3>1, <3>3
    <3>5. LIndex(b, dims) = LIndex(a, dims) + 0 * ChunkSizes(dims)[1]
      BY ONLY <3>2, <3>4, dims \in Lengths, LIndexAdds
    <3>6. QED
      BY ONLY <3>3, <3>5
  <2>3. LIndex(r.start, dims) = cells[1]
    BY <1>0, <1>1, CellOfCoordinates
  <2>4. QED
    <3> HIDE DEF At
    <3>1. 1 \in 1..n
      BY <1>0
    <3>2. QED
      BY <1>0, <1>3, <2>2, <2>3, <3>1
<1> HIDE DEF CellAt, At, Further, c
<1> DEFINE S == {i \in 1..n : \A x \in Nat : x < c[i] * r.count[i] => CellAt(x) = cells[x + 1]}
<1>6. ASSUME NEW i \in 1..n, \A y \in Nat : y < c[i] => CellAt(y) = cells[y + 1]
      PROVE  i \in S
  <2> SUFFICES ASSUME NEW x \in Nat, x < c[i] * r.count[i] PROVE CellAt(x) = cells[x + 1]
    OBVIOUS
  <2>1. PICK a \in Nat \ {0}, b \in Nat \ {0} : a = c[i] /\ b = r.count[i]
    BY <1>2, Zenon
  <2>2. PICK q \in Nat, y \in 0..a - 1 : q = x \div a /\ x = a * q + y
    <3>0. x \div a \in Nat /\ x % a \in 0..a - 1 /\ x = a * (x \div a) + (x % a)
      BY Division, Zenon
    <3>1. QED
      BY ONLY <3>0, Zenon
  <2>3. q \in 0..b - 1
    <3>1. x \div a \in 0..b - 1
      BY <2>1, QuotientBelow, Zenon
    <3>2. QED
      BY <2>2, <3>1
  <2>4. CellAt(y) = cells[y + 1] /\ y \in Nat
    BY <1>6, <2>1
  <2>5. CellAt(x) = CellAt(y) + q * ChunkSizes(dims)[i] /\ CellAt(y) \in Nat
    <3>1. \A j \in 1..Len(r.count) :
            /\ DimList(r.count, y)[j] \in Nat
            /\ DimList(r.count, q * c[i] + y)[j] =
                 IF j = i THEN DimList(r.count, y)[j] + q ELSE DimList(r.count, y)[j]
      <4>1. r.count \in Lengths /\ i \in 1..Len(r.count) /\ q \in 0..r.count[i] - 1
        BY <1>1, <2>1, <2>3
      <4>2. y \in 0..ChunkSizes(r.count)[i] - 1
        BY <2>1 DEF c
      <4>3. QED
        BY ONLY <4>1, <4>2, CoordinatesInLayer, SMTT(30) DEF c
    <3>2. x = q * c[i] + y
      <4>1. a * q = q * a
        OBVIOUS
      <4>2. QED
        BY <2>1, <2>2, <4>1
    <3>3. Further(x, y, q, i)
      BY <1>1, <3>1, <3>2, Zenon DEF Further
    <3>4. QED
      BY ONLY <1>4, <2>4, <3>3, x \in Nat, q \in Nat, i \in 1..n, Zenon
  <2>6. CASE q = 0
    <3>1. x = y
      BY <2>2, <2>6
    <3>2. QED
      BY <2>4, <3>1
  <2>7. CASE q # 0
    <3>1. q \in 1..r.count[i] - 1
      BY <2>1, <2>3, <2>7
    <3>2. Repeats(cells, q, a, ChunkSizes(dims)[i])
      BY <1>1, <2>1, <3>1, Zenon
    <3>3. y + 1 \in 1..a
      OBVIOUS
    <3>4. cells[q * a + (y + 1)] = cells[y + 1] + q * ChunkSizes(dims)[i]
      BY <3>2, <3>3, Zenon DEF Repeats
    <3>5. q * a + (y + 1) = x + 1
      BY <2>2, SMTT(30)
    <3>6. QED
      BY <2>4, <2>5, <3>4, <3>5
  <2>8. QED
    BY <2>6, <2>7
<1>7. n \in S
  <2>1. n \in 1..n /\ \A y \in Nat : y < 1 => y = 0
    BY <1>0
  <2>2. \A y \in Nat : y < c[n] => CellAt(y) = cells[y + 1]
    BY <1>2, <1>5, <2>1
  <2>3. QED
    BY <1>6, <2>1, <2>2
<1>8. ASSUME NEW i \in 1..n - 1, i + 1 \in S PROVE i \in S
  <2>1. i \in 1..n /\ c[i] = c[i + 1] * r.count[i + 1]
    BY <1>0, <1>2
  <2>2. \A y \in Nat : y < c[i] => CellAt(y) = cells[y + 1]
    BY <1>8, <2>1
  <2>3. QED
    BY <1>6, <2>1, <2>2
<1>9. S = 1..n
  <2> HIDE DEF S
  <2>1. S \in SUBSET (1..n)
    BY DEF S
  <2>2. QED
    BY <1>0, <1>7, <1>8, <2>1, InductDown
<1>10. 1 \in 1..n /\ 1 \in S
  BY <1>0, <1>9
<1>11. PICK size \in Nat \ {0} : size = GridSize(r.count) /\ size = c[1] * r.count[1]
  <2>1. PICK a \in Nat \ {0}, b \in Nat \ {0} : a = c[1] /\ b = r.count[1]
    BY <1>2, <1>10, Zenon
  <2>2. GridSize(r.count) \in Nat \ {0} /\ GridSize(r.count) = b * a
    BY <1>1, <2>1, GridSizeIs DEF c
  <2>3. a * b = b * a
    OBVIOUS
  <2>4. QED
    BY <2>1, <2>2, <2>3
<1>12. size <= Len(cells)
  BY <1>1, <1>10, <1>11
<1>13. ASSUME NEW k \in 1..size PROVE BlockCells(dims, r.start, r.count)[k] = cells[k]
  <2>1. BlockCells(dims, r.start, r.count)[k] = CellAt(k - 1)
    BY <1>11 DEF BlockCells, CellAt, At
  <2>2. k - 1 \in Nat /\ k - 1 < c[1] * r.count[1] /\ (k - 1) + 1 = k
    BY <1>11
  <2>3. CellAt(k - 1) = cells[(k - 1) + 1]
    BY <1>10, <2>2
  <2>4. QED
    BY <2>1, <2>2, <2>3
<1>14. QED
  BY <1>0, <1>11, <1>12, <1>13

-----------------------------------------------------------------------------
(***************************************************************************)
(* get_regions: the blocks of the whole list, one after the other.         *)
(***************************************************************************)

\* The blocks that lie in the array.
BlocksIn(dims) ==
  {b \in [start : [1..Len(dims) -> Nat], count : Lengths, loffset : Nat] :
     /\ Len(b.count) = Len(dims)
     /\ \A i \in 1..Len(dims) : b.start[i] + b.count[i] <= dims[i]}

\* The cells of block b are those of its part of the list.
Matches(dims, cells, b) ==
  \A k \in 1..GridSize(b.count) : BlockCells(dims, b.start, b.count)[k] = cells[b.loffset + k]

\* The blocks rs follow a list of cells from place n to its end.
Follow(dims, cells, n, rs) ==
  /\ (rs = <<>>) <=> (n = Len(cells))
  /\ rs # <<>> => rs[1].loffset = n
  /\ \A i \in 1..Len(rs) :
       /\ rs[i].loffset + GridSize(rs[i].count) =
            IF i = Len(rs) THEN Len(cells) ELSE rs[i + 1].loffset
       /\ Matches(dims, cells, rs[i])

\* f[n] is the list of h[n], h[n + z[n]] and so on up to place L.
Joins(f, L, h, z) == f = [n \in 0..L |-> IF n = L THEN <<>> ELSE <<h[n]>> \o f[n + z[n]]]

\* The recursion of GetRegions has a solution.
LEMMA JoinsExist ==
  ASSUME NEW L \in Nat, NEW h, NEW z, \A n \in 0..L - 1 : z[n] \in 1..L - n
  PROVE  \E f : Joins(f, L, h, z)
<1> DEFINE Up(f, n) == IF n = L THEN <<>> ELSE <<h[n]>> \o f[n + z[n]]
           Has(k) == \E f : f = [n \in L - k..L |-> Up(f, n)]
           S == {k \in Nat : k <= L => Has(k)}
<1>1. 0 \in S
  <2> DEFINE f == [n \in L - 0..L |-> <<>>]
  <2>1. f = [n \in L - 0..L |-> Up(f, n)]
    OBVIOUS
  <2>2. Has(0)
    <3> HIDE DEF f
    <3> QED BY <2>1
  <2> HIDE DEF Has
  <2>3. QED
    BY <2>2
<1>2. ASSUME NEW k \in S PROVE k + 1 \in S
  <2>0. SUFFICES ASSUME k + 1 <= L PROVE Has(k + 1)
    <3> HIDE DEF Has
    <3> QED OBVIOUS
  <2>1. PICK f : f = [n \in L - k..L |-> Up(f, n)]
    <3>1. Has(k)
      <4> HIDE DEF Has
      <4> QED BY <2>0
    <3> HIDE DEF Up
    <3>2. QED
      BY <3>1
  <2> DEFINE m == L - (k + 1)
             g == [n \in m..L |-> IF n = m THEN <<h[m]>> \o f[m + z[m]] ELSE f[n]]
  <2>2. m \in 0..L - 1 /\ L - k = m + 1
    BY <2>0
  <2> HIDE DEF m
  <2>3. \A n \in m + 1..L : f[n] = Up(f, n)
    BY <2>1, <2>2, Zenon
  <2>4. ASSUME NEW n \in m..L PROVE g[n] = Up(g, n)
    <3>1. CASE n = m
      <4>1. m + z[m] \in m + 1..L /\ n # L
        BY <2>2, <3>1
      <4>2. g[m + z[m]] = f[m + z[m]]
        BY <2>2, <4>1
      <4>3. g[n] = <<h[m]>> \o f[m + z[m]]
        BY <3>1
      <4> HIDE DEF g
      <4>4. QED
        BY <3>1, <4>1, <4>2, <4>3, Zenon
    <3>2. CASE n # m
      <4>1. n \in m + 1..L
        BY <2>2, <3>2
      <4>2. g[n] = Up(f, n)
        BY <2>3, <3>2, <4>1
      <4>3. CASE n = L
        <5> HIDE DEF g
        <5> QED BY <4>2, <4>3
      <4>4. CASE n # L
        <5>1. n \in 0..L - 1
          BY <2>2, <4>1, <4>4
        <5>2. n + z[n] \in m + 1..L
          BY <2>2, <4>1, <5>1
        <5>3. g[n + z[n]] = f[n + z[n]]
          BY <2>2, <5>2
        <5> HIDE DEF g
        <5>4. QED
          BY <4>2, <4>4, <5>3
      <4>5. QED
        BY <4>3, <4>4
    <3>3. QED
      BY <3>1, <3>2
  <2>5. g = [n \in m..L |-> Up(g, n)]
    <3>1. \E w : g = [n \in m..L |-> w[n]]
      <4>1. PICK w : w = g
        OBVIOUS
      <4>2. g = [n \in m..L |-> w[n]]
        BY <4>1
      <4> HIDE DEF g
      <4>3. QED
        BY <4>2
    <3> HIDE DEF g, Up
    <3>2. QED
      BY <2>4, <3>1
  <2>6. \E e : e = [n \in m..L |-> Up(e, n)]
    <3> HIDE DEF g
    <3> QED BY <2>5, Zenon
  <2>7. QED
    BY <2>6, Zenon DEF m
<1>3. S = Nat
  <2> HIDE DEF S
  <2>1. S \in SUBSET Nat
    BY DEF S
  <2>2. QED
    BY <1>1, <1>2, <2>1, Induct
<1>4. Has(L) /\ L - L = 0
  <2> HIDE DEF Has
  <2>1. L \in S
    BY <1>3
  <2>2. QED
    BY <2>1
<1>5. \E f : f = [n \in 0..L |-> Up(f, n)]
  <2> HIDE DEF Up
  <2>1. QED
    BY <1>4
<1>6. QED
  BY <1>5, Zenon DEF Joins

\* A block in front of the blocks that follow the rest of the list.
LEMMA FollowFrom ==
  ASSUME NEW dims, NEW cells, NEW n \in Nat, Len(cells) \in Nat,
         NEW B, NEW b \in B, NEW rest \in Seq(B),
         b.loffset = n, GridSize(b.count) \in 1..Len(cells) - n, Matches(dims, cells, b),
         Follow(dims, cells, n + GridSize(b.count), rest)
  PROVE  <<b>> \o rest \in Seq(B) /\ Follow(dims, cells, n, <<b>> \o rest)
<1> DEFINE rs == <<b>> \o rest
<1>1. <<b>> \in Seq(B) /\ Len(<<b>>) = 1 /\ <<b>>[1] = b
  OBVIOUS
<1>2. /\ rs \in Seq(B) /\ Len(rs) = 1 + Len(rest) /\ Len(rest) \in Nat
      /\ \A i \in 1..1 + Len(rest) : rs[i] = IF i <= 1 THEN <<b>>[i] ELSE rest[i - 1]
  <2>1. /\ rs \in Seq(B) /\ Len(rs) = Len(<<b>>) + Len(rest)
        /\ \A i \in 1..Len(<<b>>) + Len(rest) :
             rs[i] = IF i <= Len(<<b>>) THEN <<b>>[i] ELSE rest[i - Len(<<b>>)]
    BY <1>1, ConcatProperties
  <2>2. Len(rest) \in Nat
    BY LenProperties
  <2> HIDE DEF rs
  <2>3. QED
    BY <1>1, <2>1, <2>2
<1> HIDE DEF rs
<1>3. rs[1] = b /\ \A i \in 2..Len(rs) : rs[i] = rest[i - 1] /\ i - 1 \in 1..Len(rest)
  BY <1>1, <1>2
<1>4. rs # <<>>
  BY <1>2, EmptySeq
<1>5. n # Len(cells)
  OBVIOUS
<1>6. /\ (rest = <<>>) <=> (n + GridSize(b.count) = Len(cells))
      /\ rest # <<>> => rest[1].loffset = n + GridSize(b.count)
      /\ \A i \in 1..Len(rest) :
           /\ rest[i].loffset + GridSize(rest[i].count) =
                IF i = Len(rest) THEN Len(cells) ELSE rest[i + 1].loffset
           /\ Matches(dims, cells, rest[i])
  BY DEF Follow
<1>7. ASSUME NEW i \in 1..Len(rs)
      PROVE  /\ rs[i].loffset + GridSize(rs[i].count) =
                  IF i = Len(rs) THEN Len(cells) ELSE rs[i + 1].loffset
             /\ Matches(dims, cells, rs[i])
  <2>1. CASE i = 1
    <3>1. CASE rest = <<>>
      <4>1. Len(rest) = 0
        BY <3>1, EmptySeq
      <4>2. QED
        BY <1>2, <1>3, <1>6, <2>1, <3>1, <4>1
    <3>2. CASE rest # <<>>
      <4>1. Len(rest) # 0
        BY <3>2, EmptySeq
      <4>2. rs[2] = rest[1] /\ Len(rs) # 1
        BY <1>2, <1>3, <4>1
      <4>3. QED
        BY <1>2, <1>3, <1>6, <2>1, <3>2, <4>2
    <3>3. QED
      BY <3>1, <3>2
  <2>2. CASE i # 1
    <3>0. Len(rest) \in Nat /\ Len(rs) = 1 + Len(rest) /\ i \in 1..Len(rs)
      BY <1>2
    <3>a. i \in 2..Len(rs) /\ i - 1 \in 1..Len(rest) /\ (i - 1) + 1 = i
      BY ONLY <3>0, <2>2
    <3>b. i # Len(rs) => i + 1 \in 2..Len(rs) /\ (i + 1) - 1 = (i - 1) + 1 /\ i - 1 # Len(rest)
      BY ONLY <3>0, <2>2
    <3>1. i \in 2..Len(rs) /\ i - 1 \in 1..Len(rest) /\ rs[i] = rest[i - 1] /\ (i - 1) + 1 = i
      BY ONLY <1>3, <3>a
    <3>2. i # Len(rs) => i + 1 \in 2..Len(rs) /\ rs[i + 1] = rest[(i - 1) + 1] /\ i - 1 # Len(rest)
      <4> SUFFICES ASSUME i # Len(rs)
                   PROVE  i + 1 \in 2..Len(rs) /\ rs[i + 1] = rest[(i - 1) + 1] /\ i - 1 # Len(rest)
        OBVIOUS
      <4>1. i + 1 \in 2..Len(rs) /\ (i + 1) - 1 = (i - 1) + 1 /\ i - 1 # Len(rest)
        BY <3>b
      <4>2. rs[i + 1] = rest[(i + 1) - 1]
        BY ONLY <1>3, <4>1, Zenon
      <4>3. QED
        BY ONLY <4>1, <4>2, Zenon
    <3>3. i = Len(rs) => i - 1 = Len(rest)
      BY ONLY <3>0
    <3>4. QED
      BY <1>6, <3>1, <3>2, <3>3, Zenon
  <2>3. QED
    BY <2>1, <2>2
<1>8. QED
  BY <1>2, <1>3, <1>4, <1>5, <1>7 DEF Follow, rs

\* The blocks that GetRegions divides a list of cells into (get_regions): they lie in the
\* array, each begins in the buffer where the one before it ends, from 0 to the length of
\* the list, and the cells of each, in the order in which its data is taken, are those of
\* its part of the list.
THEOREM RegionsFollowCells ==
  ASSUME NEW dims \in Lengths, NEW cells \in Seq(0..GridSize(dims) - 1)
  PROVE  /\ GetRegions(dims, cells) \in Seq(BlocksIn(dims))
         /\ Follow(dims, cells, 0, GetRegions(dims, cells))
<1> DEFINE L == Len(cells)
           Rest(n) == SubSeq(cells, n + 1, Len(cells))
           Found(n) == FindRegion(dims, Rest(n))
           B == BlocksIn(dims)
           h == [n \in 0..L - 1 |->
                   [start |-> Found(n).start, count |-> Found(n).count, loffset |-> n]]
           z == [n \in 0..L - 1 |-> GridSize(Found(n).count)]
<1>1. L \in Nat /\ \A k \in 1..L : cells[k] \in 0..GridSize(dims) - 1
  <2>1. PICK T : T = 0..GridSize(dims) - 1 /\ cells \in Seq(T)
    OBVIOUS
  <2>2. Len(cells) \in Nat /\ cells \in [1..Len(cells) -> T]
    BY ONLY <2>1, LenProperties, Zenon
  <2>3. QED
    BY <2>1, <2>2
<1>2. ASSUME NEW n \in 0..L - 1
      PROVE  /\ h[n] \in B /\ h[n].loffset = n /\ h[n].count = Found(n).count
             /\ z[n] = GridSize(Found(n).count) /\ z[n] \in 1..L - n
             /\ Matches(dims, cells, h[n])
  <2>1. /\ Rest(n) \in Seq(0..GridSize(dims) - 1) /\ Len(Rest(n)) = L - n
        /\ \A k \in 1..L - n : Rest(n)[k] = cells[n + k]
    <3>1. /\ n + 1 \in Int /\ L \in Int /\ n + 1 <= L
          /\ \A k \in n + 1..L : cells[k] \in 0..GridSize(dims) - 1
      BY <1>1
    <3>2. /\ Rest(n) \in Seq(0..GridSize(dims) - 1)
          /\ Len(Rest(n)) = IF n + 1 <= L THEN L - (n + 1) + 1 ELSE 0
          /\ \A k \in 1..L - (n + 1) + 1 : Rest(n)[k] = cells[(n + 1) + k - 1]
      BY ONLY <3>1, SubSeqProperties
    <3> HIDE DEF Rest
    <3>3. Len(Rest(n)) = L - n
      BY <1>1, <3>1, <3>2
    <3>4. ASSUME NEW k \in 1..L - n PROVE Rest(n)[k] = cells[n + k]
      <4>1. k \in 1..L - (n + 1) + 1 /\ (n + 1) + k - 1 = n + k
        BY <1>1
      <4>2. QED
        BY <3>2, <4>1
    <3>5. QED
      BY <3>2, <3>3, <3>4
  <2> HIDE DEF Rest
  <2>2. Rest(n) # <<>>
    <3>1. Len(Rest(n)) # 0
      BY <1>1, <2>1
    <3>2. QED
      BY <3>1, EmptySeq
  <2>3. PICK r : r = Found(n)
    OBVIOUS
  <2>4. PICK size : size = GridSize(r.count)
    OBVIOUS
  <2>5. /\ size \in 1..L - n
        /\ \A k \in 1..size : BlockCells(dims, r.start, r.count)[k] = Rest(n)[k]
    <3>1. r = FindRegion(dims, Rest(n))
      BY <2>3
    <3>2. /\ GridSize(r.count) \in 1..Len(Rest(n))
          /\ \A k \in 1..GridSize(r.count) : BlockCells(dims, r.start, r.count)[k] = Rest(n)[k]
      BY ONLY <2>1, <2>2, <3>1, dims \in Lengths, RegionCells
    <3>3. QED
      BY <2>1, <2>4, <3>2
  <2>6. /\ r.start \in [1..Len(dims) -> Nat]
        /\ r.count \in Lengths /\ Len(r.count) = Len(dims)
        /\ \A i \in 1..Len(dims) : r.start[i] + r.count[i] <= dims[i]
    <3>1. Rest(n) \in Seq(Nat)
      BY <2>1, GridSizeIs
    <3>2. /\ r.start = DimList(dims, Rest(n)[1])
          /\ r.count \in Lengths /\ Len(r.count) = Len(dims)
          /\ \A i \in 1..Len(dims) : r.start[i] \in Nat /\ r.start[i] + r.count[i] <= dims[i]
      BY <2>2, <2>3, <3>1, RegionFound, Zenon
    <3>3. r.start \in [1..Len(dims) -> Nat]
      <4>1. DOMAIN dims = 1..Len(dims)
        BY LengthsType
      <4>2. PICK s : s = r.start
        OBVIOUS
      <4>3. \E w : s = [i \in 1..Len(dims) |-> w[i]]
        <5>1. PICK w : w = DimList(dims, Rest(n)[1])
          OBVIOUS
        <5>2. w = [i \in 1..Len(dims) |-> w[i]]
          BY <4>1, <5>1 DEF DimList
        <5>3. QED
          BY <3>2, <4>2, <5>1, <5>2
      <4>4. s \in [1..Len(dims) -> Nat]
        BY <3>2, <4>2, <4>3
      <4>5. QED
        BY <4>2, <4>4
    <3>4. QED
      BY <3>2, <3>3
  <2> HIDE DEF Found
  <2>7. h[n] = [start |-> r.start, count |-> r.count, loffset |-> n] /\ z[n] = size
    BY <2>3, <2>4
  <2>8. PICK b : b = [start |-> r.start, count |-> r.count, loffset |-> n]
    OBVIOUS
  <2>9. b.start = r.start /\ b.count = r.count /\ b.loffset = n
    BY <2>8
  <2>10. b \in B
    BY <1>1, <2>6, <2>8 DEF BlocksIn
  <2>11. Matches(dims, cells, b)
    <3> SUFFICES ASSUME NEW k \in 1..size
                 PROVE  BlockCells(dims, r.start, r.count)[k] = cells[n + k]
      BY <2>4, <2>9 DEF Matches
    <3>1. k \in 1..L - n
      BY <1>1, <2>5
    <3>2. QED
      BY <2>1, <2>5, <3>1, Zenon
  <2> HIDE DEF B, h, z
  <2>12. h[n] = b
    BY <2>7, <2>8
  <2>13. QED
    BY <2>3, <2>4, <2>5, <2>7, <2>9, <2>10, <2>11, <2>12
<1> DEFINE Step(f, n) == IF n = Len(cells) THEN <<>>
                         ELSE LET region == FindRegion(dims, SubSeq(cells, n + 1, Len(cells)))
                              IN  <<[start |-> region.start, count |-> region.count, loffset |-> n]>>
                                    \o f[n + GridSize(region.count)]
<1>3. \E f : f = [n \in 0..L |-> Step(f, n)]
  <2>1. PICK f : f = [n \in 0..L |-> IF n = L THEN <<>> ELSE <<h[n]>> \o f[n + z[n]]]
    <3> HIDE DEF h, z
    <3>1. \A n \in 0..L - 1 : z[n] \in 1..L - n
      BY <1>2
    <3>2. PICK m \in Nat : m = L
      BY <1>1
    <3>3. \A n \in 0..m - 1 : z[n] \in 1..m - n
      BY <3>1, <3>2
    <3>4. PICK f : Joins(f, m, h, z)
      BY ONLY <3>3, m \in Nat, JoinsExist, Zenon
    <3>5. QED
      BY ONLY <3>2, <3>4, Zenon DEF Joins
  <2>2. ASSUME NEW n \in 0..L, n # L PROVE <<h[n]>> \o f[n + z[n]] = Step(f, n)
    <3>1. n \in 0..L - 1 /\ n # Len(cells)
      BY <1>1, <2>2
    <3>2. /\ h[n] = [start |-> Found(n).start, count |-> Found(n).count, loffset |-> n]
          /\ z[n] = GridSize(Found(n).count)
      BY <3>1
    <3> HIDE DEF h, z
    <3>3. Step(f, n) = <<[start |-> Found(n).start, count |-> Found(n).count, loffset |-> n]>>
                         \o f[n + GridSize(Found(n).count)]
      BY <3>1
    <3> HIDE DEF Step, Found
    <3>4. QED
      BY ONLY <3>2, <3>3
  <2>3. \A n \in 0..L : (IF n = L THEN <<>> ELSE <<h[n]>> \o f[n + z[n]]) = Step(f, n)
    <3> HIDE DEF h, z, Found
    <3>1. Step(f, L) = <<>>
      OBVIOUS
    <3> HIDE DEF Step
    <3>2. QED
      BY <2>2, <3>1, Zenon
  <2> HIDE DEF h, z, Step
  <2>4. f = [n \in 0..L |-> Step(f, n)]
    BY <2>1, <2>3, Zenon
  <2>5. QED
    BY <2>4
<1> DEFINE after == CHOOSE f : f = [n \in 0..L |-> Step(f, n)]
<1>4. GetRegions(dims, cells) = after[0]
  BY Zenon DEF GetRegions
<1>5. after = [n \in 0..L |-> Step(after, n)]
  <2> HIDE DEF Step, L
  <2> QED BY <1>3, Zenon
<1>6. /\ after[L] = <<>>
      /\ \A n \in 0..L - 1 : after[n] = <<h[n]>> \o after[n + z[n]]
  <2> HIDE DEF after
  <2>1. \A n \in 0..L : after[n] = Step(after, n)
    <3> HIDE DEF Step
    <3> QED BY <1>5
  <2>2. after[L] = <<>>
    <3>1. L \in 0..L /\ Step(after, L) = <<>>
      BY <1>1
    <3> HIDE DEF Step
    <3>2. QED
      BY <2>1, <3>1
  <2>3. ASSUME NEW n \in 0..L - 1 PROVE after[n] = <<h[n]>> \o after[n + z[n]]
    <3>1. n \in 0..L /\ n # Len(cells)
      BY <1>1
    <3>2. /\ h[n] = [start |-> Found(n).start, count |-> Found(n).count, loffset |-> n]
          /\ z[n] = GridSize(Found(n).count)
      OBVIOUS
    <3> HIDE DEF h, z
    <3>3. Step(after, n) = <<[start |-> Found(n).start, count |-> Found(n).count, loffset |-> n]>>
                             \o after[n + GridSize(Found(n).count)]
      BY <3>1, Zenon
    <3> HIDE DEF Step, Found
    <3>4. QED
      BY ONLY <2>1, <3>1, <3>2, <3>3, Zenon
  <2>4. QED
    BY <2>2, <2>3, Zenon
<1> HIDE DEF after, h, z, Found, B
<1> DEFINE Good(n) == after[n] \in Seq(B) /\ Follow(dims, cells, n, after[n])
           Bad == {k \in 0..L : ~ Good(L - k)}
<1>7. Good(L)
  <2>1. <<>> \in Seq(B) /\ Len(<<>>) = 0
    OBVIOUS
  <2>2. QED
    BY <1>6, <2>1 DEF Follow
<1>8. ASSUME NEW n \in 0..L - 1, Good(n + z[n]) PROVE Good(n)
  <2>1. /\ h[n] \in B /\ h[n].loffset = n /\ GridSize(h[n].count) = z[n]
        /\ z[n] \in 1..L - n /\ Matches(dims, cells, h[n])
    BY <1>2
  <2>2. after[n + z[n]] \in Seq(B) /\ Follow(dims, cells, n + z[n], after[n + z[n]])
    BY <1>8
  <2>3. n \in Nat /\ Len(cells) \in Nat
    BY <1>1
  <2>4. PICK b, rest : b = h[n] /\ rest = after[n + z[n]]
    OBVIOUS
  <2>5. /\ b \in B /\ rest \in Seq(B) /\ b.loffset = n /\ GridSize(b.count) \in 1..Len(cells) - n
        /\ Matches(dims, cells, b) /\ Follow(dims, cells, n + GridSize(b.count), rest)
    BY <2>1, <2>2, <2>4
  <2>6. <<b>> \o rest \in Seq(B) /\ Follow(dims, cells, n, <<b>> \o rest)
    BY ONLY <2>3, <2>5, FollowFrom
  <2>7. QED
    BY <1>6, <2>4, <2>6, Zenon
<1> HIDE DEF Good
<1>9. Bad = {}
  <2> SUFFICES ASSUME Bad # {} PROVE FALSE
    OBVIOUS
  <2>1. Bad \in SUBSET Nat
    BY <1>1
  <2>2. PICK k \in Bad : \A j \in Bad : k <= j
    <3> HIDE DEF Bad
    <3> QED BY <2>1, LeastOf
  <2>3. k \in 0..L /\ ~ Good(L - k) /\ L - 0 = L
    BY <1>1
  <2>4. k # 0
    BY <1>7, <2>3
  <2> DEFINE n == L - k
  <2>5. n \in 0..L - 1
    BY <1>1, <2>3, <2>4
  <2>6. z[n] \in 1..L - n
    BY <1>2, <2>5
  <2>7. L - (n + z[n]) \in 0..L /\ L - (n + z[n]) < k
    BY <1>1, <2>3, <2>6, SMTT(30)
  <2>8. Good(L - (L - (n + z[n])))
    BY <2>2, <2>3, <2>7
  <2>9. L - (L - (n + z[n])) = n + z[n]
    BY <1>1, <2>6
  <2> HIDE DEF n
  <2>10. Good(n)
    BY <1>8, <2>5, <2>8, <2>9
  <2>11. QED
    BY <2>3, <2>10 DEF n
<1>10. Good(0)
  <2>1. L \in 0..L /\ L - L = 0
    BY <1>1
  <2>2. QED
    BY <1>9, <2>1
<1>11. QED
  BY <1>4, <1>10 DEF Good, B

-----------------------------------------------------------------------------
(***************************************************************************)
(* The numbers of a set in order, and what is kept of a list               *)
(***************************************************************************)
\* How many numbers of a set there are up to i.
Rank(S, i) == Cardinality({j \in S : j <= i})

\* The ranks of the members of a set go from 1 to its size.
LEMMA RankIs ==
  ASSUME NEW S \in SUBSET Nat, IsFiniteSet(S), NEW i \in S
  PROVE  /\ Rank(S, i) \in 1..Cardinality(S)
         /\ \A h \in S : h < i => Rank(S, h) < Rank(S, i)
<1> DEFINE U(h) == {j \in S : j <= h}
<1>1. \A h : U(h) \subseteq S
  OBVIOUS
<1>2. \A h : IsFiniteSet(U(h)) /\ Cardinality(U(h)) \in Nat /\ Cardinality(U(h)) <= Cardinality(S)
  <2> HIDE DEF U
  <2> QED BY <1>1, FS_Subset, FS_CardinalityType
<1>3. i \in U(i)
  OBVIOUS
<1>4. Cardinality(U(i)) # 0
  <2> HIDE DEF U
  <2> QED BY <1>2, <1>3, FS_EmptySet
<1>5. ASSUME NEW h \in S, h < i PROVE Cardinality(U(h)) < Cardinality(U(i))
  <2>1. U(h) \subseteq U(i) /\ i \notin U(h)
    <3>1. \A j \in S : j \in Nat
      OBVIOUS
    <3>2. \A j \in S : j <= h => j <= i
      BY <1>5, <3>1
    <3>3. ~(i <= h)
      BY <1>5, <3>1
    <3>4. QED
      BY <3>2, <3>3, Zenon
  <2> HIDE DEF U
  <2>2. U(h) # U(i)
    BY <1>3, <2>1
  <2>3. Cardinality(U(h)) <= Cardinality(U(i))
    BY <1>2, <2>1, FS_Subset
  <2>4. Cardinality(U(h)) # Cardinality(U(i))
    BY <1>2, <2>1, <2>2, FS_Subset
  <2>5. QED
    BY <1>2, <2>3, <2>4
<1>6. Cardinality(S) \in Nat
  BY FS_CardinalityType
<1>7. QED
  <2>1. \A h : Rank(S, h) = Cardinality(U(h))
    BY DEF Rank
  <2> HIDE DEF U
  <2>2. QED
    BY <1>2, <1>4, <1>5, <1>6, <2>1

\* Every number up to the size of the set is the rank of a member.
LEMMA RanksExist ==
  ASSUME NEW S \in SUBSET Nat, IsFiniteSet(S), NEW k \in 1..Cardinality(S)
  PROVE  \E i \in S : Rank(S, i) = k
<1> DEFINE Full(T) == \A m \in 1..Cardinality(T) : \E i \in T : Rank(T, i) = m
           N == {n \in Nat : \A T \in SUBSET Nat :
                   IsFiniteSet(T) /\ Cardinality(T) = n => Full(T)}
<1>1. 0 \in N
  OBVIOUS
<1>2. ASSUME NEW n \in N PROVE n + 1 \in N
  <2> SUFFICES ASSUME NEW T \in SUBSET Nat, IsFiniteSet(T), Cardinality(T) = n + 1 PROVE Full(T)
    BY n \in Nat
  <2>1. n \in Nat
    OBVIOUS
  <2>2. T # {}
    BY <2>1, FS_EmptySet
  <2>3. PICK x \in T : \A y \in T : x <= y
    BY <2>2, LeastOf
  <2> DEFINE R == T \ {x}
  <2>4. IsFiniteSet(R) /\ Cardinality(R) = n /\ R \in SUBSET Nat
    BY <2>1, <2>3, FS_RemoveElement
  <2>5. \A m \in 1..n : \E i \in R : Rank(R, i) = m
    BY <2>1, <2>4
  <2>6. ASSUME NEW i \in R PROVE Rank(T, i) = Rank(R, i) + 1
    <3> DEFINE A == {j \in R : j <= i}
    <3>1. {j \in T : j <= i} = A \union {x} /\ x \notin A /\ A \subseteq R
      BY <2>3, <2>6
    <3> HIDE DEF A
    <3>2. IsFiniteSet(A)
      BY <2>4, <3>1, FS_Subset
    <3>3. Cardinality(A \union {x}) = Cardinality(A) + 1
      BY <3>1, <3>2, FS_AddElement, Zenon
    <3>4. QED
      BY <3>1, <3>3 DEF Rank, A
  <2>7. Rank(T, x) = 1
    <3>0. x <= x /\ \A y \in T : y <= x => y = x
      BY <2>3
    <3>1. {j \in T : j <= x} = {x}
      BY <3>0, Zenon
    <3>2. QED
      BY <3>1, FS_Singleton, Zenon DEF Rank
  <2>8. ASSUME NEW m \in 1..Cardinality(T) PROVE \E i \in T : Rank(T, i) = m
    <3>1. CASE m = 1
      BY <2>3, <2>7, <3>1
    <3>2. CASE m # 1
      <4>1. m - 1 \in 1..n
        BY <2>1, <3>2, <2>8
      <4>2. PICK i \in R : Rank(R, i) = m - 1
        BY <2>5, <4>1
      <4>3. Rank(T, i) = m /\ i \in T
        BY <2>6, <4>2, <2>8
      <4>4. QED
        BY <4>3
    <3>3. QED
      BY <3>1, <3>2
  <2>9. QED
    BY <2>8
<1>3. N = Nat
  <2> HIDE DEF N
  <2>1. N \in SUBSET Nat
    BY DEF N
  <2>2. QED
    BY <1>1, <1>2, <2>1, Induct
<1>4. Cardinality(S) \in N
  BY <1>3, FS_CardinalityType
<1>5. Full(S)
  BY <1>4
<1>6. QED
  BY <1>5

\* Nth takes each member of a set once.
LEMMA NthIs ==
  ASSUME NEW S \in SUBSET Nat, IsFiniteSet(S)
  PROVE  /\ Cardinality(S) \in Nat
         /\ \A k \in 1..Cardinality(S) : Nth(S, k) \in S
         /\ \A k, l \in 1..Cardinality(S) : Nth(S, k) = Nth(S, l) => k = l
         /\ \A i \in S : \E k \in 1..Cardinality(S) : Nth(S, k) = i
<1>1. ASSUME NEW k \in 1..Cardinality(S) PROVE Nth(S, k) \in S /\ Rank(S, Nth(S, k)) = k
  <2>1. \E i \in S : Rank(S, i) = k
    BY RanksExist
  <2>2. Nth(S, k) = CHOOSE i \in S : Rank(S, i) = k
    BY DEF Nth, Rank
  <2>3. QED
    BY <2>1, <2>2
<1>2. ASSUME NEW i \in S PROVE \E k \in 1..Cardinality(S) : Nth(S, k) = i
  <2>1. Rank(S, i) \in 1..Cardinality(S)
    BY RankIs
  <2>2. PICK h \in S : h = Nth(S, Rank(S, i)) /\ Rank(S, h) = Rank(S, i)
    BY <1>1, <2>1, Zenon
  <2>3. ~(h < i) /\ ~(i < h)
    <3>1. Rank(S, h) \in Nat /\ Rank(S, i) \in Nat
      BY RankIs
    <3>2. QED
      BY <2>2, <3>1, RankIs
  <2>4. h = i
    BY <2>3
  <2>5. QED
    BY <2>1, <2>2, <2>4, Zenon
<1>3. Cardinality(S) \in Nat
  BY FS_CardinalityType
<1>4. QED
  BY <1>1, <1>2, <1>3, Zenon

\* What is kept of a list are its members at the places, each once.
LEMMA SelectedAre ==
  ASSUME NEW list, NEW n \in Nat, NEW S \in SUBSET (1..n)
  PROVE  /\ Len(Selected(list, S)) \in Nat /\ DOMAIN Selected(list, S) = 1..Len(Selected(list, S))
         /\ \A k \in 1..Len(Selected(list, S)) : Nth(S, k) \in S /\ Selected(list, S)[k] = list[Nth(S, k)]
         /\ \A k, l \in 1..Len(Selected(list, S)) : Nth(S, k) = Nth(S, l) => k = l
         /\ \A i \in S : \E k \in 1..Len(Selected(list, S)) : Nth(S, k) = i
<1>1. S \in SUBSET Nat /\ IsFiniteSet(S)
  <2>1. IsFiniteSet(1..n)
    BY FS_Interval
  <2>2. IsFiniteSet(S)
    BY <2>1, FS_Subset, Zenon
  <2>3. S \in SUBSET Nat
    OBVIOUS
  <2>4. QED
    BY <2>2, <2>3, Zenon
<1> DEFINE c == Cardinality(S)
           at(k) == Nth(S, k)
<1>2. /\ c \in Nat /\ \A k \in 1..c : at(k) \in S
      /\ \A k, l \in 1..c : at(k) = at(l) => k = l
      /\ \A i \in S : \E k \in 1..c : at(k) = i
  BY <1>1, NthIs
<1>3. Selected(list, S) = [k \in 1..c |-> list[at(k)]]
  BY DEF Selected
<1> HIDE DEF c, at
<1>4. Len(Selected(list, S)) = c /\ DOMAIN Selected(list, S) = 1..c
  BY <1>2, <1>3
<1>5. \A k \in 1..c : Selected(list, S)[k] = list[at(k)]
  BY <1>3
<1>6. QED
  BY <1>2, <1>4, <1>5, Zenon DEF at

\* A finite set of numbers has a greatest one, which Max gives.
LEMMA MaxOfSet ==
  ASSUME NEW S \in SUBSET Nat, IsFiniteSet(S), S # {}
  PROVE  Max(S) \in S /\ \A y \in S : y <= Max(S)
<1>1. Cardinality(S) \in Nat /\ Cardinality(S) # 0
  BY FS_CardinalityType, FS_EmptySet
<1>2. PICK x \in S : Rank(S, x) = Cardinality(S)
  <2>1. Cardinality(S) \in 1..Cardinality(S)
    BY <1>1
  <2>2. QED
    BY <2>1, RanksExist
<1>3. ASSUME NEW y \in S PROVE y <= x
  <2>1. SUFFICES ASSUME x < y PROVE FALSE
    <3>1. x \in Nat /\ y \in Nat
      OBVIOUS
    <3>2. QED
      BY <2>1, <3>1
  <2>2. Rank(S, x) < Rank(S, y) /\ Rank(S, y) \in 1..Cardinality(S)
    BY <2>1, RankIs
  <2>3. QED
    BY <1>1, <1>2, <2>2
<1>4. \E m \in S : \A y \in S : m >= y
  <2>1. \A y \in S : y \in Nat
    OBVIOUS
  <2>2. QED
    BY <1>3, <2>1
<1>5. Max(S) \in S /\ \A y \in S : Max(S) >= y
  BY <1>4, Zenon DEF Max
<1>6. QED
  <2>1. \A y \in S : y \in Nat
    OBVIOUS
  <2>2. QED
    BY <1>5, <2>1

-----------------------------------------------------------------------------
(***************************************************************************)
(* create_mpi_datatypes: the blocks of the types                           *)
(***************************************************************************)
\* A number is a multiple if nothing is left over.
LEMMA Multiples ==
  ASSUME NEW n \in Nat \ {0}, NEW a \in Nat
  PROVE  a % n = 0 <=> \E q \in Nat : a = n * q
<1>1. ASSUME a % n = 0 PROVE \E q \in Nat : a = n * q
  <2>1. PICK q \in Nat : q = a \div n /\ a = n * q + (a % n)
    BY Division, Zenon
  <2>2. n * q \in Nat
    OBVIOUS
  <2>3. a = n * q
    BY <1>1, <2>1, <2>2
  <2>4. QED
    BY <2>3
<1>2. ASSUME NEW q \in Nat, a = n * q PROVE a % n = 0
  <2>1. n * q <= a /\ a < n * q + n
    BY <1>2
  <2>2. a \div n = q
    BY <2>1, Quotient
  <2>3. a = n * q + (a % n) /\ a % n \in 0..n - 1
    BY <2>2, Division, Zenon
  <2>4. PICK r \in 0..n - 1 : r = a % n
    BY <2>3
  <2>5. a = a + r
    BY <1>2, <2>3, <2>4
  <2>6. QED
    BY <2>4, <2>5
<1>3. QED
  BY <1>1, <1>2, Zenon

\* Gcd divides all of the numbers.
LEMMA GcdDivides ==
  ASSUME NEW S \in SUBSET (Nat \ {0}), S # {}
  PROVE  Gcd(S) \in Nat \ {0} /\ \A n \in S : n % Gcd(S) = 0
<1> DEFINE D == {x \in 1..Min(S) : \A n \in S : n % x = 0}
<1>1. S \in SUBSET Nat /\ \A n \in S : n \in Nat
  OBVIOUS
<1>2. Min(S) \in S /\ Min(S) \in Nat \ {0}
  <2>1. Min(S) \in S
    BY <1>1, MinOf
  <2>2. QED
    BY <2>1, Zenon
<1>3. 1 \in D
  <2>1. \A n \in Nat : n % 1 = 0
    OBVIOUS
  <2>2. QED
    BY <1>1, <1>2, <2>1
<1>4. IsFiniteSet(D) /\ D \in SUBSET Nat
  <2>1. IsFiniteSet(1..Min(S)) /\ D \subseteq 1..Min(S)
    BY <1>2, FS_Interval
  <2>2. 1..Min(S) \subseteq Nat
    OBVIOUS
  <2> HIDE DEF D
  <2>3. QED
    BY <2>1, <2>2, FS_Subset, Zenon
<1>5. Max(D) \in D
  <2> HIDE DEF D
  <2> QED BY <1>3, <1>4, MaxOfSet
<1>6. Gcd(S) = Max(D)
  BY DEF Gcd
<1>7. QED
  BY <1>5, <1>6

\* The places between which the runs of a list are.
Cuts(list) == {0, Len(list)} \union {i \in 1..Len(list) - 1 : list[i + 1] # list[i] + 1}

\* From a place to the next one a list has a run.
LEMMA NextCut ==
  ASSUME NEW list, Len(list) \in Nat, NEW i \in Cuts(list), i # Len(list)
  PROVE  /\ Cuts(list) \subseteq 0..Len(list)
         /\ Min({j \in Cuts(list) : j > i}) \in Cuts(list)
         /\ Min({j \in Cuts(list) : j > i}) > i
         /\ \A j \in Cuts(list) : j > i => Min({h \in Cuts(list) : h > i}) <= j
         /\ Min({j \in Cuts(list) : j > i}) - i \in RunLengths(list)
<1> DEFINE T == {j \in Cuts(list) : j > i}
<1>1. Cuts(list) \subseteq 0..Len(list) /\ Len(list) \in Cuts(list)
  BY DEF Cuts
<1>2. T \in SUBSET Nat /\ Len(list) \in T
  BY <1>1
<1>3. Min(T) \in T /\ \A j \in T : Min(T) <= j
  <2> HIDE DEF T
  <2> QED BY <1>2, MinOf
<1>4. Min(T) - i \in RunLengths(list)
  BY Zenon DEF RunLengths, Cuts
<1>5. QED
  BY <1>1, <1>3, <1>4

\* Blocks that divide all runs begin and end where runs do.
LEMMA CutsAreMultiples ==
  ASSUME NEW list, Len(list) \in Nat, NEW b \in Nat \ {0},
         \A r \in RunLengths(list) : r % b = 0
  PROVE  \A c \in Cuts(list) : c % b = 0
<1> DEFINE T == {c \in Cuts(list) : c % b # 0}
<1>1. SUFFICES ASSUME T # {} PROVE FALSE
  OBVIOUS
<1>2. Cuts(list) \subseteq 0..Len(list) /\ 0 \in Cuts(list) /\ Cuts(list) \in SUBSET Nat
  BY DEF Cuts
<1>3. PICK c \in T : \A y \in T : c <= y
  <2>1. T \in SUBSET Nat
    BY <1>2
  <2> HIDE DEF T
  <2>2. QED
    BY <1>1, <2>1, LeastOf
<1>4. c \in Nat /\ c # 0 /\ c <= Len(list) /\ c \in Cuts(list) /\ c % b # 0
  <2>1. 0 % b = 0
    BY SmallRemainder
  <2>2. QED
    BY <1>2, <2>1
<1> DEFINE P == {j \in Cuts(list) : j < c}
<1>5. PICK p \in P : \A j \in P : j <= p
  <2>1. 0 \in P /\ P \subseteq 0..Len(list) /\ P \in SUBSET Nat
    BY <1>2, <1>4
  <2> HIDE DEF P
  <2>2. IsFiniteSet(P)
    <3>1. IsFiniteSet(0..Len(list))
      BY FS_Interval
    <3>2. QED
      BY <2>1, <3>1, FS_Subset, Zenon
  <2>3. QED
    BY <2>1, <2>2, MaxOfSet, Zenon
<1>6. p \in Nat /\ p < c /\ p \in Cuts(list) /\ p # Len(list) /\ p % b = 0
  <2>1. p \in Nat /\ p < c /\ p \in Cuts(list)
    BY <1>2
  <2>2. ~(c <= p)
    BY <1>4, <2>1
  <2>3. p % b = 0
    BY <1>3, <2>1, <2>2
  <2>4. QED
    BY <1>4, <2>1, <2>3
<1> DEFINE next == Min({j \in Cuts(list) : j > p})
<1>7. /\ next \in Cuts(list) /\ next > p /\ next - p \in RunLengths(list)
      /\ \A j \in Cuts(list) : j > p => next <= j
  BY <1>6, NextCut
<1>8. next = c
  <2> HIDE DEF next
  <2>1. next <= c /\ next \in Nat
    BY <1>2, <1>4, <1>6, <1>7
  <2>2. ~(next < c)
    <3>1. SUFFICES ASSUME next < c PROVE FALSE
      OBVIOUS
    <3>2. next \in P
      BY <1>7, <3>1
    <3>3. next <= p
      BY <1>5, <3>2
    <3>4. QED
      BY <1>6, <1>7, <2>1, <3>3
  <2>3. QED
    BY <1>4, <2>1, <2>2
<1>9. (c - p) % b = 0 /\ c - p \in Nat
  <2>1. c - p \in RunLengths(list)
    BY <1>7, <1>8
  <2>2. (c - p) % b = 0
    BY <2>1
  <2>3. QED
    BY <1>4, <1>6, <2>2
<1>10. PICK u \in Nat, v \in Nat : p = b * u /\ c - p = b * v
  BY <1>6, <1>9, Multiples, Zenon
<1>11. c = b * (u + v)
  <2>1. b * (u + v) = b * u + b * v
    OBVIOUS
  <2>2. QED
    BY <1>4, <1>6, <1>10, <2>1
<1>12. c % b = 0
  <2>1. u + v \in Nat
    OBVIOUS
  <2>2. QED
    BY <1>4, <1>11, <2>1, Multiples
<1>13. QED
  BY <1>4, <1>12

\* The places that blocks of such a length describe are those of the list.
LEMMA BlocksDescribe ==
  ASSUME NEW list \in Seq(Int), NEW b \in Nat \ {0}, \A r \in RunLengths(list) : r % b = 0,
         NEW k \in 1..Len(list)
  PROVE  list[k - ((k - 1) % b)] + ((k - 1) % b) = list[k]
<1>1. Len(list) \in Nat /\ \A i \in 1..Len(list) : list[i] \in Int
  BY LenProperties
<1>2. PICK q \in Nat, rest \in 0..b - 1 : rest = (k - 1) % b /\ k - 1 = b * q + rest
  <2>1. k - 1 \in Nat
    OBVIOUS
  <2>2. (k - 1) \div b \in Nat /\ (k - 1) % b \in 0..b - 1
        /\ k - 1 = b * ((k - 1) \div b) + ((k - 1) % b)
    BY <2>1, Division, Zenon
  <2>3. QED
    BY ONLY <2>2, Zenon
<1>3. PICK m \in Nat : m = b * q /\ k - 1 = m + rest
  BY <1>2
<1>4. ASSUME NEW i \in m + 1..k - 1 PROVE list[i + 1] = list[i] + 1
  <2>1. i \in 1..Len(list) - 1
    BY <1>1, <1>3
  <2>2. i % b # 0
    <3>1. SUFFICES ASSUME i % b = 0 PROVE FALSE
      OBVIOUS
    <3>0. i \in Nat /\ m < i /\ i < m + b
      BY <1>3, <2>1
    <3>2. PICK h \in Nat : i = b * h
      BY ONLY <3>0, <3>1, Multiples, b \in Nat \ {0}, Zenon
    <3>3. b * q < b * h /\ b * h < b * q + b
      BY ONLY <1>3, <3>0, <3>2
    <3>4. CASE h <= q
      <4>1. PICK z \in Nat : q = h + z
        BY <3>4
      <4>2. b * q = b * h + b * z /\ b * z \in Nat /\ b * h \in Nat
        BY <4>1
      <4>3. QED
        BY <3>3, <4>2
    <3>5. CASE h > q
      <4>1. PICK z \in Nat : h = q + 1 + z
        BY <3>5
      <4>2. b * h = b * q + b + b * z /\ b * z \in Nat /\ b * q \in Nat
        BY <4>1
      <4>3. QED
        BY <3>3, <4>2
    <3>6. QED
      BY <3>4, <3>5
  <2>3. i \notin Cuts(list)
    BY <1>1, <2>2, CutsAreMultiples
  <2>4. QED
    BY <2>1, <2>3 DEF Cuts
<1> DEFINE S == {j \in Nat : j <= rest => list[m + 1 + j] = list[m + 1] + j}
<1>5. 0 \in S
  <2>1. m + 1 \in 1..Len(list)
    BY <1>1, <1>3
  <2>2. list[m + 1] \in Int
    BY <1>1, <2>1
  <2>3. m + 1 + 0 = m + 1
    OBVIOUS
  <2>4. QED
    BY <2>2, <2>3
<1>6. ASSUME NEW j \in S PROVE j + 1 \in S
  <2>1. CASE j + 1 <= rest
    <3>1. j \in Nat /\ m + 1 + j \in m + 1..k - 1 /\ m + 1 + (j + 1) = (m + 1 + j) + 1
      BY <1>3, <2>1
    <3>2. list[(m + 1 + j) + 1] = list[m + 1 + j] + 1
      BY <1>4, <3>1
    <3>3. list[m + 1 + j] = list[m + 1] + j
      BY <2>1, <3>1
    <3>4. list[m + 1] \in Int
      BY <1>1, <1>3
    <3>5. list[m + 1 + (j + 1)] = list[m + 1] + (j + 1)
      <4>1. PICK x \in Int : x = list[m + 1]
        BY ONLY <3>4
      <4>2. (x + j) + 1 = x + (j + 1)
        BY ONLY <3>1, x \in Int
      <4>3. QED
        BY ONLY <3>1, <3>2, <3>3, <4>1, <4>2
    <3>6. QED
      BY <3>1, <3>5
  <2>2. CASE ~(j + 1 <= rest)
    BY <2>2
  <2>3. QED
    BY <2>1, <2>2
<1>7. S = Nat
  <2> HIDE DEF S
  <2>1. S \in SUBSET Nat
    BY DEF S
  <2>2. QED
    BY <1>5, <1>6, <2>1, Induct, Zenon
<1>8. list[m + 1 + rest] = list[m + 1] + rest
  <2>1. rest \in Nat /\ rest <= rest
    OBVIOUS
  <2>2. rest \in S
    BY <1>7, <2>1, Zenon
  <2>3. QED
    BY <2>1, <2>2
<1>9. m + 1 + rest = k /\ k - rest = m + 1
  BY <1>3
<1>10. QED
  BY ONLY <1>2, <1>8, <1>9, Zenon

\* The runs of a list have a length.
LEMMA RunsAre ==
  ASSUME NEW list, Len(list) \in Nat \ {0}
  PROVE  RunLengths(list) \in SUBSET (Nat \ {0}) /\ RunLengths(list) # {}
<1>1. RunLengths(list) = {Min({j \in Cuts(list) : j > i}) - i : i \in Cuts(list) \ {Len(list)}}
  BY DEF RunLengths, Cuts
<1>2. ASSUME NEW i \in Cuts(list) \ {Len(list)}
      PROVE  Min({j \in Cuts(list) : j > i}) - i \in Nat \ {0}
  <2>1. /\ Cuts(list) \subseteq 0..Len(list)
        /\ Min({j \in Cuts(list) : j > i}) \in Cuts(list)
        /\ Min({j \in Cuts(list) : j > i}) > i
    BY NextCut, Zenon
  <2>2. PICK m \in 0..Len(list), h \in 0..Len(list) : m = Min({j \in Cuts(list) : j > i}) /\ h = i
    BY <2>1, Zenon
  <2>3. QED
    BY <2>1, <2>2
<1>3. 0 \in Cuts(list) \ {Len(list)}
  BY DEF Cuts
<1>4. QED
  BY <1>1, <1>2, <1>3, Zenon

(***************************************************************************)
(* The MPI data types that create_mpi_datatypes builds describe the lists  *)
(* of positions they are built from, whatever these lists are: the length  *)
(* of their blocks, the greatest common divisor of the runs of all the     *)
(* lists of a buffer, divides every run of each of them.                   *)
(***************************************************************************)
THEOREM TypesDescribeMessages ==
  ASSUME NEW msgs, \A i \in DOMAIN msgs : msgs[i] \in Seq(Int)
  PROVE  DOMAIN DataTypes(msgs) = DOMAIN msgs /\ \A i \in DOMAIN msgs : DataTypes(msgs)[i] = msgs[i]
<1> DEFINE runs == UNION {RunLengths(msgs[i]) : i \in {j \in DOMAIN msgs : msgs[j] # <<>>}}
           b == IF runs = {} THEN 1 ELSE Gcd(runs)
<1>1. ASSUME NEW i \in DOMAIN msgs, msgs[i] # <<>>
      PROVE  /\ RunLengths(msgs[i]) \in SUBSET (Nat \ {0}) /\ RunLengths(msgs[i]) # {}
             /\ RunLengths(msgs[i]) \subseteq runs
  <2>1. Len(msgs[i]) \in Nat \ {0}
    BY <1>1, LenProperties, EmptySeq
  <2>2. QED
    BY <1>1, <2>1, RunsAre
<1>2. runs \in SUBSET (Nat \ {0})
  BY <1>1
<1>3. b \in Nat \ {0} /\ \A r \in runs : r % b = 0
  <2> HIDE DEF runs
  <2>1. CASE runs = {}
    BY <2>1
  <2>2. CASE runs # {}
    BY <1>2, <2>2, GcdDivides
  <2>3. QED
    BY <2>1, <2>2
<1>4. DataTypes(msgs) = [i \in DOMAIN msgs |->
        [k \in DOMAIN msgs[i] |-> msgs[i][k - ((k - 1) % b)] + ((k - 1) % b)]]
  BY DEF DataTypes
<1>5. ASSUME NEW i \in DOMAIN msgs
      PROVE  [k \in DOMAIN msgs[i] |-> msgs[i][k - ((k - 1) % b)] + ((k - 1) % b)] = msgs[i]
  <2> DEFINE list == msgs[i]
  <2>1. list \in Seq(Int) /\ DOMAIN list = 1..Len(list) /\ list = [k \in 1..Len(list) |-> list[k]]
    BY <1>5, LenProperties
  <2>2. ASSUME NEW k \in 1..Len(list) PROVE list[k - ((k - 1) % b)] + ((k - 1) % b) = list[k]
    <3>1. list # <<>>
      BY <2>1, <2>2, EmptySeq, LenProperties
    <3>2. \A r \in RunLengths(list) : r % b = 0
      BY <1>1, <1>3, <3>1, Zenon
    <3> HIDE DEF list, b
    <3>3. QED
      BY <1>3, <2>1, <3>2, BlocksDescribe, Zenon
  <2> HIDE DEF b, list
  <2>3. [k \in DOMAIN list |-> list[k - ((k - 1) % b)] + ((k - 1) % b)] = list
    BY <2>1, <2>2, Zenon
  <2>4. QED
    BY <2>3 DEF list
<1> HIDE DEF b
<1>6. QED
  BY <1>4, <1>5

\* Of d layers the k-th ends within them.
LEMMA LayerEnds ==
  ASSUME NEW k \in Nat, NEW d \in Nat, NEW a \in Nat, k < d
  PROVE  k * a \in Nat /\ d * a \in Nat /\ a * d = d * a /\ k * a + a <= d * a
<1>1. d - (k + 1) \in Nat /\ d = k + 1 + (d - (k + 1))
  OBVIOUS
<1>2. PICK z \in Nat : d = k + 1 + z
  BY <1>1
<1>3. d * a = k * a + a + z * a /\ z * a \in Nat /\ k * a \in Nat
  BY <1>2
<1>4. QED
  BY <1>3

(***************************************************************************)
(* The place that coord_to_lindex gives to coordinates within an array     *)
(* lies in it, and idx_to_dim_list gives the coordinates back: no two      *)
(* cells of a block are stored at the same place.                          *)
(***************************************************************************)
THEOREM CoordinatesOfCell ==
  ASSUME NEW dims \in Lengths, NEW coord,
         \A i \in 1..Len(dims) : coord[i] \in 0..dims[i] - 1
  PROVE  /\ LIndex(coord, dims) \in 0..GridSize(dims) - 1
         /\ \A i \in 1..Len(dims) : DimList(dims, LIndex(coord, dims))[i] = coord[i]
<1> DEFINE m == Len(dims)
           c == ChunkSizes(dims)
           x == LIndex(coord, dims)
<1>1. /\ m \in Nat \ {0} /\ \A j \in 1..m : c[j] \in Nat \ {0} /\ dims[j] \in Nat \ {0}
      /\ c[m] = 1 /\ \A j \in 1..m - 1 : c[j] = c[j + 1] * dims[j + 1]
  BY LengthsType, ChunkSizesAre
<1>2. PICK s : /\ s[0] = 0 /\ \A n \in 1..m : s[n] = s[n - 1] + coord[n] * c[n]
               /\ x = s[m]
  BY LIndexIs
<1>3. \A j \in 1..m : coord[j] \in Nat /\ coord[j] < dims[j]
  <2>1. \A j \in 1..m : coord[j] \in 0..dims[j] - 1
    OBVIOUS
  <2> HIDE DEF m
  <2>2. QED
    BY <1>1, <2>1
<1>4. GridSize(dims) = dims[1] * c[1] /\ GridSize(dims) \in Nat \ {0}
  BY GridSizeIs
<1>5. \A y \in Nat, j \in 1..m : DimList(dims, y)[j] = (y \div c[j]) % dims[j]
  BY DimListType
<1> HIDE DEF c, m, x
\* A partial sum counts layers.
<1> DEFINE S == {n \in Nat : n + 1 <= m => \E u \in Nat : /\ s[n + 1] = (u * dims[n + 1] + coord[n + 1]) * c[n + 1]
                                                          /\ n = 0 => u = 0}
<1>6. 0 \in S
  <2>1. 1 \in 1..m
    BY <1>1
  <2>2. PICK k \in Nat, a \in Nat \ {0}, d \in Nat \ {0} : k = coord[1] /\ a = c[1] /\ d = dims[1]
    BY <1>1, <1>3, <2>1, Zenon
  <2>3. s[1] = s[1 - 1] + coord[1] * c[1]
    BY <1>2, <2>1
  <2>4. s[1] = 0 + k * a
    BY <1>2, <2>2, <2>3
  <2>5. s[0 + 1] = (0 * dims[0 + 1] + coord[0 + 1]) * c[0 + 1]
    <3>1. 0 + k * a = (0 * d + k) * a
      OBVIOUS
    <3>2. QED
      BY <2>2, <2>4, <3>1
  <2>6. QED
    BY <2>5
<1>7. ASSUME NEW n \in S PROVE n + 1 \in S
  <2>1. CASE (n + 1) + 1 <= m
    <3>1. n \in Nat /\ n + 1 \in 1..m - 1 /\ n + 1 \in 1..m /\ n + 2 \in 1..m /\ (n + 1) + 1 = n + 2
      BY <1>1, <2>1
    <3>2. PICK u \in Nat : s[n + 1] = (u * dims[n + 1] + coord[n + 1]) * c[n + 1]
      BY <1>1, <3>1
    <3>3. PICK k \in Nat, a \in Nat \ {0}, d \in Nat \ {0} : k = coord[n + 2] /\ a = c[n + 2] /\ d = dims[n + 2]
      BY <1>1, <1>3, <3>1, Zenon
    <3>4. PICK h \in Nat : h = u * dims[n + 1] + coord[n + 1]
      <4>1. PICK e \in Nat, f \in Nat : e = dims[n + 1] /\ f = coord[n + 1]
        BY <1>1, <1>3, <3>1
      <4>2. u * e + f \in Nat
        OBVIOUS
      <4>3. QED
        BY <4>1, <4>2
    <3>5. c[n + 1] = a * d
      BY <1>1, <3>1, <3>3
    <3>6. s[n + 2] = s[n + 1] + k * a
      <4>1. s[n + 2] = s[(n + 2) - 1] + coord[n + 2] * c[n + 2] /\ (n + 2) - 1 = n + 1
        BY <1>2, <3>1
      <4>2. QED
        BY <3>3, <4>1
    <3>7. s[n + 2] = h * (a * d) + k * a
      BY <3>2, <3>4, <3>5, <3>6
    <3>8. h * (a * d) + k * a = (h * d + k) * a
      OBVIOUS
    <3>9. s[(n + 1) + 1] = (h * dims[(n + 1) + 1] + coord[(n + 1) + 1]) * c[(n + 1) + 1]
      BY <3>1, <3>3, <3>7, <3>8
    <3>10. QED
      BY <3>1, <3>9
  <2>2. QED
    BY <2>1
<1>8. S = Nat
  <2> HIDE DEF S
  <2>1. S \in SUBSET Nat
    BY DEF S
  <2>2. QED
    BY <1>6, <1>7, <2>1, Induct
<1>9. ASSUME NEW i \in 1..m
      PROVE  \E u \in Nat : s[i] = (u * dims[i] + coord[i]) * c[i] /\ (i = 1 => u = 0)
  <2>1. i - 1 \in Nat /\ (i - 1) + 1 = i /\ i <= m
    BY <1>1
  <2>2. i - 1 \in S
    BY <1>8, <2>1, Zenon
  <2>3. QED
    BY <2>1, <2>2
<1>10. \A i \in 1..m : s[i] \in Nat
  <2> SUFFICES ASSUME NEW i \in 1..m PROVE s[i] \in Nat
    OBVIOUS
  <2>1. PICK u \in Nat : s[i] = (u * dims[i] + coord[i]) * c[i]
    BY <1>9
  <2>2. PICK k \in Nat, a \in Nat, d \in Nat : k = coord[i] /\ a = c[i] /\ d = dims[i]
    BY <1>1, <1>3, Zenon
  <2>3. (u * d + k) * a \in Nat
    OBVIOUS
  <2>4. QED
    BY <2>1, <2>2, <2>3
\* What the inner dimensions add is less than a chunk.
<1> DEFINE T == {i \in 1..m : s[i] <= s[m] /\ s[m] + 1 <= s[i] + c[i]}
<1>11. T = 1..m
  <2>1. m \in T
    BY <1>1, <1>10
  <2>2. ASSUME NEW i \in 1..m - 1, i + 1 \in T PROVE i \in T
    <3>1. i \in 1..m /\ i + 1 \in 1..m /\ (i + 1) - 1 = i
      BY <1>1
    <3>2. PICK k \in Nat, a \in Nat \ {0}, d \in Nat \ {0} : k = coord[i + 1] /\ a = c[i + 1] /\ d = dims[i + 1] /\ k < d
      BY <1>1, <1>3, <3>1, Zenon
    <3>3. s[i + 1] = s[i] + k * a /\ c[i] = a * d
      <4>1. s[i + 1] = s[(i + 1) - 1] + coord[i + 1] * c[i + 1]
        BY <1>2, <3>1
      <4>2. c[i] = c[i + 1] * dims[i + 1]
        BY <1>1
      <4>3. QED
        BY <3>1, <3>2, <4>1, <4>2
    <3>4. k * a \in Nat /\ k * a + a <= a * d
      <4>1. k * a \in Nat /\ d * a \in Nat /\ a * d = d * a /\ k * a + a <= d * a
        BY ONLY <3>2, LayerEnds, k \in Nat, a \in Nat \ {0}, d \in Nat \ {0}
      <4>2. QED
        BY ONLY <4>1, Zenon
    <3>5. s[i + 1] <= s[m] /\ s[m] + 1 <= s[i + 1] + a
      BY <2>2, <3>2
    <3>6. PICK p \in Nat, q \in Nat, w \in Nat, ka \in Nat, ad \in Nat :
            p = s[i] /\ q = s[i + 1] /\ w = s[m] /\ ka = k * a /\ ad = a * d
      <4>1. m \in 1..m
        BY <1>1
      <4>2. a * d \in Nat
        OBVIOUS
      <4>3. QED
        BY <1>10, <3>1, <3>4, <4>1, <4>2
    <3>7. p <= w /\ w + 1 <= p + ad
      <4>1. q = p + ka /\ ka + a <= ad /\ q <= w /\ w + 1 <= q + a
        BY ONLY <3>3, <3>4, <3>5, <3>6
      <4>2. QED
        BY ONLY <4>1, p \in Nat, q \in Nat, w \in Nat, ka \in Nat, ad \in Nat, a \in Nat \ {0}
    <3>8. QED
      BY <3>1, <3>3, <3>6, <3>7
  <2> HIDE DEF T
  <2>3. T \in SUBSET (1..m)
    BY DEF T
  <2>4. QED
    BY <1>1, <2>1, <2>2, <2>3, InductDown, Zenon
<1>12. x \in 0..GridSize(dims) - 1
  <2>1. 1 \in 1..m /\ m \in 1..m
    BY <1>1
  <2>2. 1 \in T
    BY <1>11, <2>1
  <2>3. PICK u \in Nat : s[1] = (u * dims[1] + coord[1]) * c[1] /\ u = 0
    BY <1>9, <2>1
  <2>4. PICK k \in Nat, a \in Nat \ {0}, d \in Nat \ {0} : k = coord[1] /\ a = c[1] /\ d = dims[1] /\ k < d
    BY <1>1, <1>3, <2>1, Zenon
  <2>5. s[1] = k * a
    <3>1. (0 * d + k) * a = k * a
      OBVIOUS
    <3>2. QED
      BY <2>3, <2>4, <3>1
  <2>6. k * a + a <= d * a /\ k * a \in Nat
    BY ONLY <2>4, LayerEnds, k \in Nat, a \in Nat \ {0}, d \in Nat \ {0}
  <2>7. s[m] + 1 <= k * a + a
    BY <2>2, <2>4, <2>5
  <2>8. s[m] \in Nat /\ GridSize(dims) = d * a
    BY <1>4, <1>10, <2>1, <2>4
  <2>9. PICK ka \in Nat, da \in Nat, w \in Nat : ka = k * a /\ da = d * a /\ w = s[m] /\ da = GridSize(dims)
    BY <1>4, <2>6, <2>8, Zenon
  <2>10. w + 1 <= da
    <3>1. ka + a <= da /\ w + 1 <= ka + a
      BY ONLY <2>6, <2>7, <2>9
    <3>2. QED
      BY ONLY <3>1, w \in Nat, ka \in Nat, da \in Nat, a \in Nat \ {0}
  <2>11. QED
    BY <1>2, <2>9, <2>10
<1>13. ASSUME NEW i \in 1..m PROVE DimList(dims, x)[i] = coord[i]
  <2>1. PICK u \in Nat : s[i] = (u * dims[i] + coord[i]) * c[i]
    BY <1>9
  <2>2. PICK k \in Nat, a \in Nat \ {0}, d \in Nat \ {0} : k = coord[i] /\ a = c[i] /\ d = dims[i] /\ k < d
    BY <1>1, <1>3, Zenon
  <2>3. PICK h \in Nat : h = u * d + k
    <3>1. u * d + k \in Nat
      OBVIOUS
    <3>2. QED
      BY <3>1
  <2>4. i \in T
    BY <1>11
  <2>5. PICK w \in Nat, p \in Nat : w = s[m] /\ p = s[i]
    <3>1. m \in 1..m
      BY <1>1
    <3>2. QED
      BY <1>10, <3>1
  <2>6. p = a * h
    BY <2>1, <2>2, <2>3, <2>5
  <2>7. a * h <= w /\ w < a * h + a
    <3>1. p <= w /\ w + 1 <= p + a
      BY <2>2, <2>4, <2>5
    <3>2. w < p + a
      BY ONLY <3>1, p \in Nat, w \in Nat, a \in Nat \ {0}
    <3>3. QED
      BY ONLY <2>6, <3>1, <3>2
  <2>8. w \div a = h
    BY ONLY <2>7, Quotient, w \in Nat, h \in Nat, a \in Nat \ {0}
  <2>9. h % d = k
    <3>1. h \div d = u
      <4>1. d * u <= h /\ h < d * u + d
        <5>1. PICK du \in Nat : du = u * d
          OBVIOUS
        <5>2. du = d * u
          BY <5>1
        <5>3. h = du + k /\ k < d
          BY ONLY <2>2, <2>3, <5>1
        <5>4. du <= h /\ h < du + d
          BY ONLY <5>3, du \in Nat, k \in Nat, d \in Nat, h \in Nat
        <5>5. QED
          BY ONLY <5>2, <5>4
      <4>2. QED
        BY <4>1, Quotient, Zenon
    <3>2. h = d * (h \div d) + (h % d) /\ h % d \in 0..d - 1
      BY Division
    <3>3. PICK r \in Nat : r = h % d
      BY <3>2
    <3>4. h = d * u + r /\ u * d = d * u /\ d * u \in Nat
      <4>1. h = d * u + r
        BY ONLY <3>1, <3>2, <3>3
      <4>2. u * d = d * u /\ d * u \in Nat
        BY ONLY d \in Nat, u \in Nat
      <4>3. QED
        BY ONLY <4>1, <4>2
    <3>5. QED
      BY <2>3, <3>3, <3>4
  <2>10. DimList(dims, x)[i] = (w \div a) % d
    BY <1>2, <1>5, <2>2, <2>5
  <2>11. QED
    BY <2>2, <2>8, <2>9, <2>10
<1>14. QED
  BY <1>12, <1>13 DEF x, m

-----------------------------------------------------------------------------
(***************************************************************************)
(* The elements of the processes, and the lists they are sorted into       *)
(***************************************************************************)
\* The k-th element of process p, and the places of those that have a cell.
ElementAt(d, p, k) == [from |-> p, pos |-> k - 1, cell |-> d.map[p][k] - 1]
PlacesIn(d, p) == {k \in DOMAIN d.map[p] : d.map[p][k] > 0}

\* The elements that have a cell.
IsElement(d, e) == \E p \in Procs(d) : \E k \in PlacesIn(d, p) : e = ElementAt(d, p, k)

\* No cell has two elements.
CellsApart(d) ==
  \A p, q \in Procs(d) : \A k \in PlacesIn(d, p) : \A l \in PlacesIn(d, q) :
    d.map[p][k] = d.map[q][l] => p = q /\ k = l

\* What the assumption on the decompositions says of one.
LEMMA DecompIs ==
  ASSUME NEW d, WellFormed(d)
  PROVE  /\ Partitioned(d, Cardinality(Procs(d)), NIo(d))
         /\ d.gdims \in Lengths /\ GridSize(d.gdims) \in Nat \ {0}
         /\ \A p \in Procs(d) : /\ d.map[p] \in Seq(0..GridSize(d.gdims))
                                /\ Len(d.map[p]) \in Nat /\ DOMAIN d.map[p] = 1..Len(d.map[p])
                                /\ PlacesIn(d, p) \in SUBSET (1..Len(d.map[p]))
         /\ \A r \in IoProcs(d) : d.ioranks[r] \in Procs(d) /\ IsIo(d, d.ioranks[r])
                                  /\ IoRank(d, d.ioranks[r]) = r
<1>1. Partitioned(d, Cardinality(Procs(d)), NIo(d))
  BY DEF WellFormed, Partitioned
<1>2. d.gdims \in Lengths /\ GridSize(d.gdims) \in Nat \ {0}
  <2>1. d.gdims \in Lengths
    BY DEF WellFormed, Lengths
  <2>2. QED
    BY <2>1, GridSizeIs
<1>3. ASSUME NEW p \in Procs(d)
      PROVE  /\ d.map[p] \in Seq(0..GridSize(d.gdims))
             /\ Len(d.map[p]) \in Nat /\ DOMAIN d.map[p] = 1..Len(d.map[p])
             /\ PlacesIn(d, p) \in SUBSET (1..Len(d.map[p]))
  <2>1. d.map[p] \in Seq(0..GridSize(d.gdims))
    BY Zenon DEF WellFormed
  <2>2. Len(d.map[p]) \in Nat /\ DOMAIN d.map[p] = 1..Len(d.map[p])
    BY <2>1, LenProperties
  <2>3. QED
    BY <2>1, <2>2, Zenon DEF PlacesIn
<1>4. ASSUME NEW r \in IoProcs(d)
      PROVE  d.ioranks[r] \in Procs(d) /\ IsIo(d, d.ioranks[r]) /\ IoRank(d, d.ioranks[r]) = r
  <2>1. d.ioranks[r] \in Procs(d) /\ \A q \in IoProcs(d) : d.ioranks[q] = d.ioranks[r] => q = r
    BY Zenon DEF WellFormed
  <2>2. IsIo(d, d.ioranks[r])
    BY DEF IsIo
  <2>3. QED
    BY <2>1, <2>2, IoRankIsIo, Zenon
<1>5. QED
  BY <1>1, <1>2, <1>3, <1>4

\* The fields of an element.
LEMMA ElementFields ==
  ASSUME NEW d, WellFormed(d), NEW p \in Procs(d), NEW k \in PlacesIn(d, p)
  PROVE  /\ ElementAt(d, p, k).from = p /\ ElementAt(d, p, k).pos = k - 1
         /\ ElementAt(d, p, k).cell = d.map[p][k] - 1
         /\ k \in 1..Len(d.map[p]) /\ ElementAt(d, p, k).pos \in 0..Ndof(d)[p] - 1
         /\ ElementAt(d, p, k).cell \in 0..GridSize(d.gdims) - 1
         /\ d.map[p][k] \in Nat
<1>1. /\ Len(d.map[p]) \in Nat /\ k \in 1..Len(d.map[p]) /\ d.map[p] \in Seq(0..GridSize(d.gdims))
      /\ GridSize(d.gdims) \in Nat \ {0}
  BY DecompIs
<1>2. d.map[p][k] \in 0..GridSize(d.gdims) /\ d.map[p][k] > 0
  <2>1. d.map[p][k] > 0
    BY DEF PlacesIn
  <2>2. d.map[p][k] \in 0..GridSize(d.gdims)
    BY ONLY <1>1, LenProperties
  <2>3. QED
    BY <2>1, <2>2
<1>3. Ndof(d)[p] = Len(d.map[p])
  BY DEF Ndof
<1>4. /\ ElementAt(d, p, k).from = p /\ ElementAt(d, p, k).pos = k - 1
      /\ ElementAt(d, p, k).cell = d.map[p][k] - 1
  BY DEF ElementAt
<1>5. k - 1 \in 0..Len(d.map[p]) - 1
  BY <1>1
<1>6. d.map[p][k] - 1 \in 0..GridSize(d.gdims) - 1 /\ d.map[p][k] \in Nat
  BY <1>1, <1>2
<1>7. QED
  BY ONLY <1>1, <1>3, <1>4, <1>5, <1>6, Zenon

\* An element is known by its cell, and by its process and position.
LEMMA ElementsApart ==
  ASSUME NEW d, WellFormed(d), CellsApart(d), NEW e, NEW f, IsElement(d, e), IsElement(d, f)
  PROVE  /\ e.cell = f.cell => e = f
         /\ e.from = f.from /\ e.pos = f.pos => e = f
         /\ e.from \in Procs(d) /\ e.cell \in 0..GridSize(d.gdims) - 1
         /\ e.pos \in 0..Ndof(d)[e.from] - 1
<1>a. PICK p \in Procs(d) : \E k \in PlacesIn(d, p) : e = ElementAt(d, p, k)
  BY DEF IsElement
<1>b. PICK q \in Procs(d) : \E l \in PlacesIn(d, q) : f = ElementAt(d, q, l)
  BY DEF IsElement
<1>1. PICK k \in PlacesIn(d, p) : e = ElementAt(d, p, k)
  BY <1>a
<1>2. PICK l \in PlacesIn(d, q) : f = ElementAt(d, q, l)
  BY <1>b
<1>3. /\ e.from = p /\ e.pos = k - 1 /\ e.cell = d.map[p][k] - 1 /\ k \in 1..Len(d.map[p])
      /\ e.pos \in 0..Ndof(d)[p] - 1 /\ e.cell \in 0..GridSize(d.gdims) - 1 /\ d.map[p][k] \in Nat
  BY <1>1, ElementFields
<1>4. /\ f.from = q /\ f.pos = l - 1 /\ f.cell = d.map[q][l] - 1 /\ l \in 1..Len(d.map[q])
      /\ d.map[q][l] \in Nat
  BY <1>2, ElementFields
<1>5. ASSUME e.cell = f.cell PROVE e = f
  <2>1. d.map[p][k] = d.map[q][l]
    <3>1. PICK x \in Nat, y \in Nat : x = d.map[p][k] /\ y = d.map[q][l]
      BY <1>3, <1>4, Zenon
    <3>2. x - 1 = y - 1
      BY ONLY <3>1, <1>3, <1>4, <1>5, Zenon
    <3>3. x = y
      BY ONLY <3>2, x \in Nat, y \in Nat
    <3>4. QED
      BY ONLY <3>1, <3>3
  <2>2. p = q /\ k = l
    BY <2>1, Zenon DEF CellsApart
  <2>3. QED
    BY <1>1, <1>2, <2>2
<1>6. ASSUME e.from = f.from, e.pos = f.pos PROVE e = f
  <2>1. p = q /\ k - 1 = l - 1
    BY <1>3, <1>4, <1>6
  <2>2. k \in Nat /\ l \in Nat
    BY <1>3, <1>4, DecompIs
  <2>3. k = l
    BY <2>1, <2>2
  <2>4. QED
    BY <1>1, <1>2, <2>1, <2>3
<1>7. QED
  BY <1>3, <1>5, <1>6

\* The list of the elements of a process.
LEMMA ElementsAre ==
  ASSUME NEW d, WellFormed(d), NEW p \in Procs(d)
  PROVE  LET list == Elements(d, p)
             at(k) == Nth(PlacesIn(d, p), k)
         IN  /\ Len(list) \in Nat /\ DOMAIN list = 1..Len(list)
             /\ \A k \in 1..Len(list) : at(k) \in PlacesIn(d, p) /\ list[k] = ElementAt(d, p, at(k))
             /\ \A k, l \in 1..Len(list) : at(k) = at(l) => k = l
             /\ \A i \in PlacesIn(d, p) : \E k \in 1..Len(list) : at(k) = i
<1> DEFINE whole == [k \in DOMAIN d.map[p] |-> ElementAt(d, p, k)]
           S == PlacesIn(d, p)
           L == Elements(d, p)
<1>1. Len(d.map[p]) \in Nat /\ S \in SUBSET (1..Len(d.map[p])) /\ DOMAIN d.map[p] = 1..Len(d.map[p])
  BY DecompIs
<1>2. L = Selected(whole, S)
  BY DEF Elements, ElementAt, PlacesIn
<1>3. \A i \in S : whole[i] = ElementAt(d, p, i)
  BY <1>1
<1> HIDE DEF whole, S, L
<1>4. /\ Len(L) \in Nat /\ DOMAIN L = 1..Len(L)
      /\ \A k \in 1..Len(L) : Nth(S, k) \in S /\ L[k] = whole[Nth(S, k)]
      /\ \A k, l \in 1..Len(L) : Nth(S, k) = Nth(S, l) => k = l
      /\ \A i \in S : \E k \in 1..Len(L) : Nth(S, k) = i
  <2>1. PICK n \in Nat : n = Len(d.map[p])
    BY <1>1
  <2>2. S \in SUBSET (1..n)
    BY <1>1, <2>1
  <2>3. QED
    BY ONLY <1>2, <2>2, SelectedAre, ZenonT(60)
<1>5. \A k \in 1..Len(L) : L[k] = ElementAt(d, p, Nth(S, k))
  BY <1>3, <1>4
<1>6. QED
  BY <1>4, <1>5, Zenon DEF L, S

\* The same in terms of elements.
LEMMA ElementsOf ==
  ASSUME NEW d, WellFormed(d), NEW p \in Procs(d)
  PROVE  LET list == Elements(d, p)
         IN  /\ Len(list) \in Nat /\ DOMAIN list = 1..Len(list)
             /\ \A k \in 1..Len(list) : IsElement(d, list[k]) /\ list[k].from = p
             /\ \A k, l \in 1..Len(list) : list[k] = list[l] => k = l
             /\ \A e : IsElement(d, e) /\ e.from = p => \E k \in 1..Len(list) : list[k] = e
<1> DEFINE L == Elements(d, p)
           at(k) == Nth(PlacesIn(d, p), k)
<1>1. /\ Len(L) \in Nat /\ DOMAIN L = 1..Len(L)
      /\ \A k \in 1..Len(L) : at(k) \in PlacesIn(d, p) /\ L[k] = ElementAt(d, p, at(k))
      /\ \A k, l \in 1..Len(L) : at(k) = at(l) => k = l
      /\ \A i \in PlacesIn(d, p) : \E k \in 1..Len(L) : at(k) = i
  BY ElementsAre
<1> HIDE DEF L, at
<1>3. ASSUME NEW k \in 1..Len(L) PROVE IsElement(d, L[k]) /\ L[k].from = p /\ L[k].pos = at(k) - 1 /\ at(k) \in Nat
  <2>1. at(k) \in PlacesIn(d, p) /\ L[k] = ElementAt(d, p, at(k))
    BY <1>1
  <2>2. L[k].from = p /\ L[k].pos = at(k) - 1 /\ at(k) \in 1..Len(d.map[p]) /\ Len(d.map[p]) \in Nat
    BY <2>1, ElementFields, DecompIs
  <2>3. IsElement(d, L[k])
    BY <2>1 DEF IsElement
  <2>4. QED
    BY <2>2, <2>3
<1>4. ASSUME NEW k \in 1..Len(L), NEW l \in 1..Len(L), L[k] = L[l] PROVE k = l
  <2>1. at(k) - 1 = at(l) - 1 /\ at(k) \in Nat /\ at(l) \in Nat
    BY <1>3, <1>4
  <2>2. at(k) = at(l)
    BY <2>1
  <2>3. QED
    BY <1>1, <2>2
<1>5. ASSUME NEW e, IsElement(d, e), e.from = p PROVE \E k \in 1..Len(L) : L[k] = e
  <2>a. PICK q \in Procs(d) : \E i \in PlacesIn(d, q) : e = ElementAt(d, q, i)
    BY <1>5 DEF IsElement
  <2>1. PICK i \in PlacesIn(d, q) : e = ElementAt(d, q, i)
    BY <2>a
  <2>2. q = p
    BY <1>5, <2>1, ElementFields
  <2>3. PICK k \in 1..Len(L) : at(k) = i
    BY <1>1, <2>1, <2>2
  <2>4. QED
    BY <1>1, <2>1, <2>2, <2>3
<1>6. QED
  BY <1>1, <1>3, <1>4, <1>5 DEF L

\* The sorted list of some processes has each of their elements once.
LEMMA SortedAre ==
  ASSUME NEW d, WellFormed(d), CellsApart(d), NEW members \in SUBSET Procs(d)
  PROVE  LET list == Sorted(d, members)
         IN  /\ Len(list) \in Nat /\ DOMAIN list = 1..Len(list)
             /\ \A k \in 1..Len(list) : IsElement(d, list[k]) /\ list[k].from \in members
             /\ \A k, l \in 1..Len(list) : list[k] = list[l] => k = l
             /\ \A e : IsElement(d, e) /\ e.from \in members => \E k \in 1..Len(list) : list[k] = e
<1> DEFINE E == UNION {Range(Elements(d, p)) : p \in members}
           C == {e.cell : e \in E}
           n == Cardinality(C)
           list == [k \in 1..n |-> CHOOSE e \in E : e.cell = Nth(C, k)]
<1>1. \A e \in E : IsElement(d, e) /\ e.from \in members
  <2> SUFFICES ASSUME NEW p \in members, NEW e \in Range(Elements(d, p))
               PROVE  IsElement(d, e) /\ e.from \in members
    OBVIOUS
  <2>1. PICK k \in DOMAIN Elements(d, p) : e = Elements(d, p)[k]
    BY DEF Range
  <2>2. QED
    BY <2>1, ElementsOf
<1>2. ASSUME NEW e, IsElement(d, e), e.from \in members PROVE e \in E
  <2>1. PICK k \in 1..Len(Elements(d, e.from)) : Elements(d, e.from)[k] = e
    BY <1>2, ElementsOf
  <2>2. DOMAIN Elements(d, e.from) = 1..Len(Elements(d, e.from))
    BY <1>2, ElementsOf
  <2>3. e \in Range(Elements(d, e.from))
    BY <2>1, <2>2 DEF Range
  <2>4. QED
    BY <1>2, <2>3
<1>3. Sorted(d, members) = list
  BY DEF Sorted
<1> HIDE DEF E
<1>4. C \in SUBSET Nat /\ IsFiniteSet(C)
  <2>1. \A e \in E : e.cell \in 0..GridSize(d.gdims) - 1
    BY <1>1, ElementsApart
  <2>2. C \subseteq 0..GridSize(d.gdims) - 1
    BY <2>1
  <2>3. GridSize(d.gdims) \in Nat
    BY DecompIs
  <2>4. IsFiniteSet(0..GridSize(d.gdims) - 1) /\ 0..GridSize(d.gdims) - 1 \subseteq Nat
    BY <2>3, FS_Interval
  <2> HIDE DEF C
  <2>5. QED
    BY <2>2, <2>4, FS_Subset, Zenon
<1>5. /\ n \in Nat /\ \A k \in 1..n : Nth(C, k) \in C
      /\ \A k, l \in 1..n : Nth(C, k) = Nth(C, l) => k = l
      /\ \A i \in C : \E k \in 1..n : Nth(C, k) = i
  <2> HIDE DEF C
  <2> QED BY <1>4, NthIs
<1>6. ASSUME NEW k \in 1..n PROVE list[k] \in E /\ list[k].cell = Nth(C, k)
  <2>1. Nth(C, k) \in C
    BY <1>5, Zenon
  <2>2. \E e \in E : e.cell = Nth(C, k)
    BY <2>1, Zenon
  <2>3. QED
    BY <2>2, Zenon
<1> DEFINE L == list
<1>7. DOMAIN L = 1..n /\ Len(L) = n
  <2> HIDE DEF n
  <2> QED BY <1>5
<1> HIDE DEF list, n
<1>8. ASSUME NEW k \in 1..n, NEW l \in 1..n, L[k] = L[l] PROVE k = l
  <2>1. Nth(C, k) = Nth(C, l)
    BY ONLY <1>6, <1>8, k \in 1..n, l \in 1..n, Zenon DEF L
  <2>2. QED
    BY ONLY <1>5, <2>1, k \in 1..n, l \in 1..n, Zenon
<1>9. ASSUME NEW e, IsElement(d, e), e.from \in members PROVE \E k \in 1..n : L[k] = e
  <2>1. e \in E /\ e.cell \in C
    BY <1>2, <1>9
  <2>2. PICK k \in 1..n : Nth(C, k) = e.cell
    BY <1>5, <2>1, Zenon
  <2>3. L[k] \in E /\ L[k].cell = e.cell
    BY <1>6, <2>2
  <2>4. L[k] = e
    BY <1>1, <1>9, <2>3, ElementsApart
  <2>5. QED
    BY <2>4
<1>10. \A k \in 1..n : IsElement(d, L[k]) /\ L[k].from \in members
  BY <1>1, <1>6, Zenon
<1>11. Sorted(d, members) = L
  BY <1>3
<1> HIDE DEF L
<1>12. QED
  BY <1>5, <1>7, <1>8, <1>9, <1>10, <1>11

-----------------------------------------------------------------------------
(***************************************************************************)
(* The exchanges                                                           *)
(***************************************************************************)
\* The two sides of the messages between processes P, and that an exchange is given by them.
Messages(hop, P) ==
  /\ DOMAIN hop.slen = P /\ DOMAIN hop.rlen = P
  /\ \A s, t \in P :
       /\ Len(hop.snd[s][t]) \in Nat /\ Len(hop.rcv[t][s]) = Len(hop.snd[s][t])
       /\ DOMAIN hop.snd[s][t] = 1..Len(hop.snd[s][t])
       /\ DOMAIN hop.rcv[t][s] = 1..Len(hop.snd[s][t])
       /\ \A k \in 1..Len(hop.snd[s][t]) : /\ hop.snd[s][t][k] \in 0..hop.slen[s] - 1
                                           /\ hop.rcv[t][s][k] \in 0..hop.rlen[t] - 1

\* Nothing arrives where something else does.
NoneMeet(hop, P) ==
  \A t, s, u \in P : \A k \in 1..Len(hop.snd[s][t]) : \A l \in 1..Len(hop.snd[u][t]) :
    hop.rcv[t][s][k] = hop.rcv[t][u][l] => s = u /\ k = l

LEMMA HopFitsIf ==
  ASSUME NEW hop, NEW P, Messages(hop, P), NoneMeet(hop, P)
  PROVE  HopFits(hop)
<1>1. ASSUME NEW s \in P, NEW t \in P
      PROVE  /\ Len(hop.snd[s][t]) = Len(hop.rcv[t][s])
             /\ \A k \in DOMAIN hop.snd[s][t] : hop.snd[s][t][k] \in 0..hop.slen[s] - 1
             /\ \A k \in DOMAIN hop.rcv[t][s] : hop.rcv[t][s][k] \in 0..hop.rlen[t] - 1
  BY Zenon DEF Messages
<1>2. ASSUME NEW t \in P,
             NEW x \in {z \in P \X (1..hop.rlen[t]) : z[2] <= Len(hop.rcv[t][z[1]])},
             NEW y \in {z \in P \X (1..hop.rlen[t]) : z[2] <= Len(hop.rcv[t][z[1]])},
             hop.rcv[t][x[1]][x[2]] = hop.rcv[t][y[1]][y[2]]
      PROVE  x = y
  <2>1. PICK s \in P, k \in 1..hop.rlen[t] : x = <<s, k>>
    BY <1>2
  <2>2. PICK u \in P, l \in 1..hop.rlen[t] : y = <<u, l>>
    BY <1>2
  <2>3. k <= Len(hop.rcv[t][s]) /\ l <= Len(hop.rcv[t][u]) /\ hop.rcv[t][s][k] = hop.rcv[t][u][l]
    BY <1>2, <2>1, <2>2
  <2>4. /\ Len(hop.snd[s][t]) \in Nat /\ Len(hop.rcv[t][s]) = Len(hop.snd[s][t])
        /\ Len(hop.snd[u][t]) \in Nat /\ Len(hop.rcv[t][u]) = Len(hop.snd[u][t])
    BY Zenon DEF Messages
  <2>5. k \in 1..Len(hop.snd[s][t]) /\ l \in 1..Len(hop.snd[u][t])
    BY ONLY <2>3, <2>4, k \in 1..hop.rlen[t], l \in 1..hop.rlen[t]
  <2>6. hop.rcv[t][s][k] = hop.rcv[t][u][l] => s = u /\ k = l
    <3>1. \A i \in 1..Len(hop.snd[s][t]) : \A j \in 1..Len(hop.snd[u][t]) :
            hop.rcv[t][s][i] = hop.rcv[t][u][j] => s = u /\ i = j
      BY Zenon DEF NoneMeet
    <3>2. QED
      BY ONLY <2>5, <3>1, Zenon
  <2>7. QED
    BY <2>1, <2>2, <2>3, <2>6
<1>3. DOMAIN hop.slen = P /\ DOMAIN hop.rlen = P
  BY DEF Messages
<1>4. QED
  BY ONLY <1>1, <1>2, <1>3, ZenonT(60) DEF HopFits

\* The places in a list of what comes from a process.
LEMMA PlacesAre ==
  ASSUME NEW list, NEW n \in Nat, DOMAIN list = 1..n, NEW p
  PROVE  LET places == Places(list, p)
         IN  /\ Len(places) \in Nat /\ DOMAIN places = 1..Len(places)
             /\ \A k \in 1..Len(places) : places[k] \in 1..n /\ list[places[k]].from = p
             /\ \A k, l \in 1..Len(places) : places[k] = places[l] => k = l
<1> DEFINE S == {k \in 1..n : list[k].from = p}
           all == [k \in 1..n |-> k]
           L == Places(list, p)
<1>1. L = Selected(all, S) /\ S \in SUBSET (1..n) /\ \A i \in S : list[i].from = p /\ all[i] = i
  BY DEF Places
<1> HIDE DEF S, all, L
<1>2. /\ Len(L) \in Nat /\ DOMAIN L = 1..Len(L)
      /\ \A k \in 1..Len(L) : Nth(S, k) \in S /\ L[k] = all[Nth(S, k)]
      /\ \A k, l \in 1..Len(L) : Nth(S, k) = Nth(S, l) => k = l
  BY ONLY <1>1, SelectedAre, n \in Nat, ZenonT(60)
<1>3. ASSUME NEW k \in 1..Len(L) PROVE L[k] = Nth(S, k) /\ L[k] \in S
  <2>1. Nth(S, k) \in S /\ L[k] = all[Nth(S, k)]
    BY <1>2, Zenon
  <2>2. all[Nth(S, k)] = Nth(S, k)
    BY <1>1, <2>1, Zenon
  <2>3. QED
    BY <2>1, <2>2, Zenon
<1>4. \A k \in 1..Len(L) : L[k] \in 1..n /\ list[L[k]].from = p
  BY <1>1, <1>3, Zenon
<1>5. \A k, l \in 1..Len(L) : L[k] = L[l] => k = l
  BY <1>2, <1>3
<1>6. QED
  BY <1>2, <1>4, <1>5, Zenon DEF L

\* The sorted list of a group.
LEMMA GroupIs ==
  ASSUME NEW d, WellFormed(d), CellsApart(d), NEW color, NEW r \in IoProcs(d)
  PROVE  LET list == Groups(d, color)[r]
         IN  /\ Len(list) \in Nat /\ DOMAIN list = 1..Len(list)
             /\ \A k \in 1..Len(list) : /\ IsElement(d, list[k]) /\ list[k].from \in Procs(d)
                                        /\ color[list[k].from] = r
             /\ \A k, l \in 1..Len(list) : list[k] = list[l] => k = l
             /\ \A e : IsElement(d, e) /\ e.from \in Procs(d) /\ color[e.from] = r =>
                         \E k \in 1..Len(list) : list[k] = e
<1> DEFINE members == {p \in Procs(d) : color[p] = r}
           list == Sorted(d, members)
<1>1. Groups(d, color)[r] = list
  BY DEF Groups, Members
<1>2. members \in SUBSET Procs(d) /\ \A p : p \in members <=> p \in Procs(d) /\ color[p] = r
  OBVIOUS
<1> HIDE DEF members
<1>3. /\ Len(list) \in Nat /\ DOMAIN list = 1..Len(list)
      /\ \A k \in 1..Len(list) : IsElement(d, list[k]) /\ list[k].from \in members
      /\ \A k, l \in 1..Len(list) : list[k] = list[l] => k = l
      /\ \A e : IsElement(d, e) /\ e.from \in members => \E k \in 1..Len(list) : list[k] = e
  BY <1>2, SortedAre
<1> HIDE DEF list
<1>4. QED
  BY <1>1, <1>2, <1>3, Zenon

\* SUBSET: the process of each group that has its I/O process sends and stores nothing twice.
LEMMA SubsetHopFits ==
  ASSUME NEW d, WellFormed(d), CellsApart(d)
  PROVE  HopFits(SubsetHop(d, Groups(d, SubsetColor(d))))
<1> DEFINE color == SubsetColor(d)
           sorted == Groups(d, color)
           hop == SubsetHop(d, sorted)
           P == Procs(d)
           list(s) == sorted[color[s]]
           places(s) == Places(list(s), s)
           sent(s) == [k \in DOMAIN places(s) |-> list(s)[places(s)[k]].pos]
<1>1. ASSUME NEW s \in P
      PROVE  /\ color[s] \in IoProcs(d) /\ d.ioranks[color[s]] \in P /\ IsIo(d, d.ioranks[color[s]])
             /\ IoRank(d, d.ioranks[color[s]]) = color[s]
  BY DecompIs, SubsetGroupsExist
<1>2. ASSUME NEW s \in P
      PROVE  /\ Len(list(s)) \in Nat /\ DOMAIN list(s) = 1..Len(list(s))
             /\ \A k \in 1..Len(list(s)) : IsElement(d, list(s)[k])
             /\ \A k, l \in 1..Len(list(s)) : list(s)[k] = list(s)[l] => k = l
  BY <1>1, GroupIs
<1> HIDE DEF color, sorted
<1>3. ASSUME NEW s \in P
      PROVE  /\ Len(places(s)) \in Nat /\ DOMAIN places(s) = 1..Len(places(s))
             /\ \A k \in 1..Len(places(s)) : /\ places(s)[k] \in 1..Len(list(s))
                                             /\ list(s)[places(s)[k]].from = s
             /\ \A k, l \in 1..Len(places(s)) : places(s)[k] = places(s)[l] => k = l
  BY <1>2, PlacesAre
<1> HIDE DEF list, places
<1>4. ASSUME NEW s \in P
      PROVE  /\ Len(sent(s)) = Len(places(s)) /\ DOMAIN sent(s) = 1..Len(places(s))
             /\ DataTypes(<<sent(s)>>)[1] = sent(s)
             /\ \A k \in 1..Len(places(s)) : sent(s)[k] \in 0..Ndof(d)[s] - 1
  <2>1. ASSUME NEW k \in 1..Len(places(s)) PROVE list(s)[places(s)[k]].pos \in 0..Ndof(d)[s] - 1
    <3> DEFINE e == list(s)[places(s)[k]]
    <3>1. IsElement(d, e) /\ e.from = s
      BY <1>2, <1>3
    <3> HIDE DEF e
    <3>2. e.pos \in 0..Ndof(d)[e.from] - 1
      BY <3>1, ElementsApart
    <3>3. QED
      BY <3>1, <3>2 DEF e
  <2>2. \A k \in 1..Len(places(s)) : list(s)[places(s)[k]].pos \in Int
    BY <2>1
  <2>3. sent(s) \in Seq(Int) /\ Len(sent(s)) = Len(places(s)) /\ DOMAIN sent(s) = 1..Len(places(s))
    BY <1>3, <2>2, SMTT(30)
  <2>4. \A k \in 1..Len(places(s)) : sent(s)[k] \in 0..Ndof(d)[s] - 1
    BY <1>3, <2>1
  <2> DEFINE msgs == <<sent(s)>>
  <2> HIDE DEF sent
  <2>5. DOMAIN msgs = {1} /\ msgs[1] = sent(s) /\ 1 \in DOMAIN msgs
    OBVIOUS
  <2>6. \A i \in DOMAIN msgs : msgs[i] \in Seq(Int)
    BY <2>3, <2>5
  <2> HIDE DEF msgs
  <2>7. DataTypes(msgs)[1] = msgs[1]
    BY ONLY <2>5, <2>6, TypesDescribeMessages, ZenonT(60)
  <2>8. QED
    BY <2>3, <2>4, <2>5, <2>7 DEF msgs
<1>5. ASSUME NEW s \in P, NEW t \in P
      PROVE  /\ hop.snd[s][t] = IF t = d.ioranks[color[s]] THEN sent(s) ELSE <<>>
             /\ hop.rcv[t][s] = IF t = d.ioranks[color[s]]
                                  THEN [k \in DOMAIN places(s) |-> places(s)[k] - 1] ELSE <<>>
             /\ hop.slen[s] = Ndof(d)[s]
             /\ hop.rlen[t] = IF IsIo(d, t) THEN Len(sorted[IoRank(d, t)]) ELSE 0
  <2>1. DataTypes(<<[k \in DOMAIN places(s) |-> sorted[color[s]][places(s)[k]].pos]>>)[1] = sent(s)
    BY <1>4 DEF list
  <2>2. QED
    BY <2>1 DEF SubsetHop, color, places, list
<1>6. DOMAIN hop.slen = P /\ DOMAIN hop.rlen = P
  BY DEF SubsetHop, Ndof
<1> HIDE DEF hop, P, sent
<1>7. ASSUME NEW s \in P, NEW t \in P
      PROVE  /\ Len(hop.snd[s][t]) \in Nat /\ Len(hop.rcv[t][s]) = Len(hop.snd[s][t])
             /\ DOMAIN hop.snd[s][t] = 1..Len(hop.snd[s][t])
             /\ DOMAIN hop.rcv[t][s] = 1..Len(hop.snd[s][t])
             /\ \A k \in 1..Len(hop.snd[s][t]) :
                  /\ hop.snd[s][t][k] \in 0..hop.slen[s] - 1 /\ hop.rcv[t][s][k] \in 0..hop.rlen[t] - 1
                  /\ t = d.ioranks[color[s]] /\ k \in 1..Len(places(s))
                  /\ hop.rcv[t][s][k] = places(s)[k] - 1 /\ places(s)[k] \in 1..Len(list(s))
  <2>1. CASE t # d.ioranks[color[s]]
    <3>1. hop.snd[s][t] = <<>> /\ hop.rcv[t][s] = <<>>
      BY <1>5, <2>1, ZenonT(60)
    <3>2. QED
      BY <3>1
  <2>2. CASE t = d.ioranks[color[s]]
    <3>1. /\ hop.snd[s][t] = sent(s) /\ hop.rcv[t][s] = [k \in DOMAIN places(s) |-> places(s)[k] - 1]
          /\ hop.slen[s] = Ndof(d)[s] /\ hop.rlen[t] = Len(list(s))
      BY <1>1, <1>5, <2>2 DEF list
    <3>2. /\ Len(hop.snd[s][t]) = Len(places(s)) /\ DOMAIN hop.snd[s][t] = 1..Len(places(s))
          /\ Len(places(s)) \in Nat
      BY <1>3, <1>4, <3>1, Zenon
    <3>3. /\ Len(hop.rcv[t][s]) = Len(places(s)) /\ DOMAIN hop.rcv[t][s] = 1..Len(places(s))
          /\ \A k \in 1..Len(places(s)) : hop.rcv[t][s][k] = places(s)[k] - 1
      BY <1>3, <3>1
    <3>4. ASSUME NEW k \in 1..Len(places(s))
          PROVE  /\ hop.snd[s][t][k] \in 0..hop.slen[s] - 1 /\ hop.rcv[t][s][k] \in 0..hop.rlen[t] - 1
                 /\ hop.rcv[t][s][k] = places(s)[k] - 1 /\ places(s)[k] \in 1..Len(list(s))
      <4>1. hop.snd[s][t][k] \in 0..hop.slen[s] - 1
        BY <1>4, <3>1, Zenon
      <4>2. places(s)[k] \in 1..Len(list(s)) /\ Len(list(s)) \in Nat
        BY <1>2, <1>3
      <4>3. hop.rcv[t][s][k] = places(s)[k] - 1
        BY <3>3
      <4>4. hop.rcv[t][s][k] \in 0..hop.rlen[t] - 1
        BY <3>1, <4>2, <4>3
      <4>5. QED
        BY <4>1, <4>2, <4>3, <4>4
    <3>5. QED
      BY <2>2, <3>2, <3>3, <3>4, Zenon
  <2>3. QED
    BY <2>1, <2>2
<1>8. Messages(hop, P)
  BY <1>6, <1>7, ZenonT(60) DEF Messages
<1>9. ASSUME NEW t \in P, NEW s \in P, NEW u \in P,
             NEW k \in 1..Len(hop.snd[s][t]), NEW l \in 1..Len(hop.snd[u][t]),
             hop.rcv[t][s][k] = hop.rcv[t][u][l]
      PROVE  s = u /\ k = l
  <2>1. /\ t = d.ioranks[color[s]] /\ k \in 1..Len(places(s)) /\ hop.rcv[t][s][k] = places(s)[k] - 1
        /\ places(s)[k] \in 1..Len(list(s))
    BY ONLY <1>7, s \in P, t \in P, k \in 1..Len(hop.snd[s][t]), SMTT(30)
  <2>2. /\ t = d.ioranks[color[u]] /\ l \in 1..Len(places(u)) /\ hop.rcv[t][u][l] = places(u)[l] - 1
        /\ places(u)[l] \in 1..Len(list(u))
    BY <1>7
  <2>3. places(s)[k] = places(u)[l]
    BY ONLY <1>9, <2>1, <2>2
  <2>4. list(s) = list(u)
    <3>1. color[s] = IoRank(d, t) /\ color[u] = IoRank(d, t)
      BY ONLY <1>1, <2>1, <2>2, s \in P, u \in P, Zenon
    <3>2. QED
      BY ONLY <3>1, Zenon DEF list
  <2>5. s = u
    <3>1. list(s)[places(s)[k]].from = s
      BY <1>3, <2>1, Zenon
    <3>2. list(u)[places(u)[l]].from = u
      BY <1>3, <2>2, Zenon
    <3>3. QED
      BY ONLY <2>3, <2>4, <3>1, <3>2, Zenon
  <2>6. QED
    BY <1>3, <2>1, <2>2, <2>3, <2>5
<1>10. NoneMeet(hop, P)
  BY <1>9, Zenon DEF NoneMeet
<1>11. HopFits(hop)
  BY <1>8, <1>10, HopFitsIf
<1>12. QED
  BY <1>11 DEF hop, sorted, color

\* CONTIG, to the root of a group: elements have places of their own in its buffer.
LEMMA AggregateHopFits ==
  ASSUME NEW d, WellFormed(d), CellsApart(d)
  PROVE  HopFits(AggregateHop(d, Groups(d, ContigColor(d))))
<1> DEFINE color == ContigColor(d)
           agg == Groups(d, color)
           hop == AggregateHop(d, agg)
           P == Procs(d)
           list(s) == agg[color[s]]
           own(s) == Elements(d, s)
           place(s, k) == AggPlace(list(s), own(s)[k])
<1>1. ASSUME NEW s \in P
      PROVE  /\ color[s] \in IoProcs(d) /\ d.ioranks[color[s]] \in P /\ IsIo(d, d.ioranks[color[s]])
             /\ IoRank(d, d.ioranks[color[s]]) = color[s]
  BY DecompIs, ContigGroupsExist
<1>2. ASSUME NEW s \in P
      PROVE  /\ Len(list(s)) \in Nat /\ DOMAIN list(s) = 1..Len(list(s))
             /\ \A e : IsElement(d, e) /\ e.from \in P /\ color[e.from] = color[s] =>
                         \E k \in 1..Len(list(s)) : list(s)[k] = e
  BY <1>1, GroupIs
<1> HIDE DEF color, agg
<1>3. ASSUME NEW s \in P
      PROVE  /\ Len(own(s)) \in Nat /\ DOMAIN own(s) = 1..Len(own(s))
             /\ \A k \in 1..Len(own(s)) : IsElement(d, own(s)[k]) /\ own(s)[k].from = s
             /\ \A k, l \in 1..Len(own(s)) : own(s)[k] = own(s)[l] => k = l
  BY ElementsOf
<1> HIDE DEF list, own
<1>4. ASSUME NEW s \in P, NEW k \in 1..Len(own(s))
      PROVE  place(s, k) + 1 \in 1..Len(list(s)) /\ list(s)[place(s, k) + 1] = own(s)[k]
  <2> DEFINE at == CHOOSE i \in DOMAIN list(s) : list(s)[i] = own(s)[k]
  <2>1. \E i \in DOMAIN list(s) : list(s)[i] = own(s)[k]
    BY <1>2, <1>3
  <2>2. at \in DOMAIN list(s) /\ list(s)[at] = own(s)[k]
    BY <2>1
  <2>3. place(s, k) = at - 1
    BY DEF AggPlace
  <2> HIDE DEF at, place
  <2>4. at \in 1..Len(list(s)) /\ Len(list(s)) \in Nat
    BY <1>2, <2>2
  <2>5. place(s, k) + 1 = at
    BY ONLY <2>3, <2>4
  <2>6. QED
    BY <2>2, <2>4, <2>5
<1>5. ASSUME NEW s \in P, NEW t \in P
      PROVE  /\ hop.snd[s][t] = IF t = d.ioranks[color[s]] THEN Positions(own(s)) ELSE <<>>
             /\ hop.rcv[t][s] = IF t = d.ioranks[color[s]]
                                  THEN [k \in DOMAIN own(s) |-> place(s, k)] ELSE <<>>
             /\ hop.slen[s] = Ndof(d)[s]
             /\ hop.rlen[t] = IF IsIo(d, t) THEN Len(agg[IoRank(d, t)]) ELSE 0
  BY DEF AggregateHop, color, own, list
<1>6. DOMAIN hop.slen = P /\ DOMAIN hop.rlen = P
  BY DEF AggregateHop, Ndof
<1> HIDE DEF hop, P, place
<1>7. ASSUME NEW s \in P, NEW t \in P
      PROVE  /\ Len(hop.snd[s][t]) \in Nat /\ Len(hop.rcv[t][s]) = Len(hop.snd[s][t])
             /\ DOMAIN hop.snd[s][t] = 1..Len(hop.snd[s][t])
             /\ DOMAIN hop.rcv[t][s] = 1..Len(hop.snd[s][t])
             /\ \A k \in 1..Len(hop.snd[s][t]) :
                  /\ hop.snd[s][t][k] \in 0..hop.slen[s] - 1 /\ hop.rcv[t][s][k] \in 0..hop.rlen[t] - 1
                  /\ t = d.ioranks[color[s]] /\ k \in 1..Len(own(s)) /\ hop.rcv[t][s][k] = place(s, k)
  <2>1. CASE t # d.ioranks[color[s]]
    <3>1. hop.snd[s][t] = <<>> /\ hop.rcv[t][s] = <<>>
      BY <1>5, <2>1, ZenonT(60)
    <3>2. QED
      BY <3>1
  <2>2. CASE t = d.ioranks[color[s]]
    <3>1. /\ hop.snd[s][t] = [k \in DOMAIN own(s) |-> own(s)[k].pos]
          /\ hop.rcv[t][s] = [k \in DOMAIN own(s) |-> place(s, k)]
          /\ hop.slen[s] = Ndof(d)[s] /\ hop.rlen[t] = Len(list(s))
      BY <1>1, <1>5, <2>2 DEF list, Positions
    <3>2. /\ Len(hop.snd[s][t]) = Len(own(s)) /\ DOMAIN hop.snd[s][t] = 1..Len(own(s))
          /\ Len(own(s)) \in Nat /\ \A k \in 1..Len(own(s)) : hop.snd[s][t][k] = own(s)[k].pos
      BY <1>3, <3>1
    <3>3. /\ Len(hop.rcv[t][s]) = Len(own(s)) /\ DOMAIN hop.rcv[t][s] = 1..Len(own(s))
          /\ \A k \in 1..Len(own(s)) : hop.rcv[t][s][k] = place(s, k)
      BY <1>3, <3>1
    <3>4. ASSUME NEW k \in 1..Len(own(s))
          PROVE  /\ hop.snd[s][t][k] \in 0..hop.slen[s] - 1 /\ hop.rcv[t][s][k] \in 0..hop.rlen[t] - 1
                 /\ hop.rcv[t][s][k] = place(s, k)
      <4> DEFINE e == own(s)[k]
      <4>1. IsElement(d, e) /\ e.from = s
        BY <1>3
      <4>2. hop.snd[s][t][k] = e.pos
        BY <3>2
      <4> HIDE DEF e
      <4>3. e.pos \in 0..Ndof(d)[e.from] - 1
        BY <4>1, ElementsApart
      <4>4. hop.snd[s][t][k] \in 0..hop.slen[s] - 1
        BY <3>1, <4>1, <4>2, <4>3
      <4>5. place(s, k) + 1 \in 1..Len(list(s)) /\ Len(list(s)) \in Nat /\ place(s, k) \in Int
        <5> DEFINE at == CHOOSE i \in DOMAIN list(s) : list(s)[i] = own(s)[k]
        <5>1. \E i \in DOMAIN list(s) : list(s)[i] = own(s)[k]
          BY <1>2, <1>4
        <5>2. at \in 1..Len(list(s))
          BY <1>2, <5>1
        <5>3. place(s, k) = at - 1
          BY DEF place, AggPlace
        <5> HIDE DEF at
        <5>4. QED
          BY <1>2, <1>4, <5>2, <5>3
      <4>6. hop.rcv[t][s][k] = place(s, k)
        BY <3>3
      <4>7. hop.rcv[t][s][k] \in 0..hop.rlen[t] - 1
        BY <3>1, <4>5, <4>6
      <4>8. QED
        BY <4>4, <4>6, <4>7
    <3>5. QED
      BY <2>2, <3>2, <3>3, <3>4, Zenon
  <2>3. QED
    BY <2>1, <2>2
<1>8. Messages(hop, P)
  BY <1>6, <1>7, ZenonT(60) DEF Messages
<1>9. ASSUME NEW t \in P, NEW s \in P, NEW u \in P,
             NEW k \in 1..Len(hop.snd[s][t]), NEW l \in 1..Len(hop.snd[u][t]),
             hop.rcv[t][s][k] = hop.rcv[t][u][l]
      PROVE  s = u /\ k = l
  <2>1. t = d.ioranks[color[s]] /\ k \in 1..Len(own(s)) /\ hop.rcv[t][s][k] = place(s, k)
    BY <1>7
  <2>2. t = d.ioranks[color[u]] /\ l \in 1..Len(own(u)) /\ hop.rcv[t][u][l] = place(u, l)
    BY <1>7
  <2>3. place(s, k) = place(u, l)
    BY <1>9, <2>1, <2>2
  <2>4. list(s) = list(u)
    <3>1. color[s] = IoRank(d, t) /\ color[u] = IoRank(d, t)
      BY ONLY <1>1, <2>1, <2>2, s \in P, u \in P, Zenon
    <3>2. QED
      BY ONLY <3>1, Zenon DEF list
  <2>5. own(s)[k] = own(u)[l]
    <3>1. list(s)[place(s, k) + 1] = own(s)[k]
      BY <1>4, <2>1, Zenon
    <3>2. list(u)[place(u, l) + 1] = own(u)[l]
      BY <1>4, <2>2, Zenon
    <3>3. QED
      BY ONLY <2>3, <2>4, <3>1, <3>2, Zenon
  <2>6. s = u
    BY <1>3, <2>1, <2>2, <2>5
  <2>7. QED
    BY <1>3, <2>1, <2>2, <2>5, <2>6
<1>10. NoneMeet(hop, P)
  BY <1>9, Zenon DEF NoneMeet
<1>11. HopFits(hop)
  BY <1>8, <1>10, HopFitsIf
<1>12. QED
  BY <1>11 DEF hop, agg, color

\* What a root passes on to an I/O process.
LEMMA PassedOnAre ==
  ASSUME NEW d, NEW list, NEW n \in Nat, DOMAIN list = 1..n, NEW q
  PROVE  LET passed == PassedOn(d, list, q)
         IN  /\ Len(passed) \in Nat /\ DOMAIN passed = 1..Len(passed)
             /\ \A k \in 1..Len(passed) : /\ passed[k] + 1 \in 1..n /\ passed[k] \in 0..n - 1
                                          /\ ToProc(d, list[passed[k] + 1].cell) = q
             /\ \A k, l \in 1..Len(passed) : passed[k] = passed[l] => k = l
<1> DEFINE S == {k \in 1..n : ToProc(d, list[k].cell) = q}
           all == [k \in 1..n |-> k - 1]
           L == PassedOn(d, list, q)
<1>1. /\ L = Selected(all, S) /\ S \in SUBSET (1..n)
      /\ \A i \in S : ToProc(d, list[i].cell) = q /\ all[i] = i - 1 /\ i \in 1..n
  BY DEF PassedOn
<1> HIDE DEF S, all, L
<1>2. /\ Len(L) \in Nat /\ DOMAIN L = 1..Len(L)
      /\ \A k \in 1..Len(L) : Nth(S, k) \in S /\ L[k] = all[Nth(S, k)]
      /\ \A k, l \in 1..Len(L) : Nth(S, k) = Nth(S, l) => k = l
  BY ONLY <1>1, SelectedAre, n \in Nat, ZenonT(60)
<1>3. ASSUME NEW k \in 1..Len(L)
      PROVE  /\ L[k] = Nth(S, k) - 1 /\ Nth(S, k) \in 1..n /\ L[k] + 1 = Nth(S, k) /\ L[k] \in 0..n - 1
             /\ ToProc(d, list[Nth(S, k)].cell) = q
  <2>1. Nth(S, k) \in S /\ L[k] = all[Nth(S, k)]
    BY <1>2, Zenon
  <2>2. all[Nth(S, k)] = Nth(S, k) - 1 /\ Nth(S, k) \in 1..n /\ ToProc(d, list[Nth(S, k)].cell) = q
    BY <1>1, <2>1, Zenon
  <2>3. L[k] + 1 = Nth(S, k) /\ L[k] \in 0..n - 1
    BY <2>1, <2>2
  <2>4. QED
    BY <2>1, <2>2, <2>3, Zenon
<1>4. ASSUME NEW k \in 1..Len(L), NEW l \in 1..Len(L), L[k] = L[l] PROVE k = l
  <2>1. Nth(S, k) = Nth(S, l)
    BY <1>3, <1>4, Zenon
  <2>2. QED
    BY <1>2, <2>1, Zenon
<1>5. \A k \in 1..Len(L) : L[k] + 1 \in 1..n /\ L[k] \in 0..n - 1 /\ ToProc(d, list[L[k] + 1].cell) = q
  BY <1>3, Zenon
<1>6. QED
  BY <1>2, <1>4, <1>5, Zenon DEF L

\* CONTIG, to the I/O processes: cells have places of their own in their pieces.
LEMMA ToIoHopFits ==
  ASSUME NEW d, WellFormed(d), CellsApart(d), GridSize(d.gdims) >= NIo(d)
  PROVE  HopFits(ToIoHop(d, Groups(d, ContigColor(d))))
<1> DEFINE color == ContigColor(d)
           agg == Groups(d, color)
           hop == ToIoHop(d, agg)
           P == Procs(d)
           list(s) == agg[IoRank(d, s)]
           passed(s, t) == PassedOn(d, list(s), IoRank(d, t))
           moved(s, t, k) == list(s)[passed(s, t)[k] + 1].cell
           begin(t) == DecompStart(d, IoRank(d, t))
           end(t) == DecompEnd(d, IoRank(d, t))
           both(s, t) == IsIo(d, s) /\ IsIo(d, t)
<1>1. ASSUME NEW s \in P, IsIo(d, s) PROVE IoRank(d, s) \in IoProcs(d) /\ d.ioranks[IoRank(d, s)] = s
  BY <1>1, IoRankIsIo
<1>2. ASSUME NEW s \in P, IsIo(d, s)
      PROVE  /\ Len(list(s)) \in Nat /\ DOMAIN list(s) = 1..Len(list(s))
             /\ \A k \in 1..Len(list(s)) : /\ IsElement(d, list(s)[k])
                                           /\ color[list(s)[k].from] = IoRank(d, s)
             /\ \A k, l \in 1..Len(list(s)) : list(s)[k] = list(s)[l] => k = l
  BY <1>1, <1>2, GroupIs
<1> HIDE DEF color, agg
<1>3. ASSUME NEW s \in P, NEW t \in P, both(s, t)
      PROVE  /\ Len(passed(s, t)) \in Nat /\ DOMAIN passed(s, t) = 1..Len(passed(s, t))
             /\ \A k \in 1..Len(passed(s, t)) :
                  /\ passed(s, t)[k] + 1 \in 1..Len(list(s)) /\ passed(s, t)[k] \in 0..Len(list(s)) - 1
                  /\ ToProc(d, moved(s, t, k)) = IoRank(d, t)
             /\ \A k, l \in 1..Len(passed(s, t)) : passed(s, t)[k] = passed(s, t)[l] => k = l
  BY <1>2, <1>3, PassedOnAre, ZenonT(60)
<1> HIDE DEF list, passed
<1>4. PICK n \in Nat \ {0}, N \in Nat \ {0} : n = NIo(d) /\ N = GridSize(d.gdims) /\ Divisible(d, n)
  BY DecompIs DEF Divisible, Partitioned
<1>5. ASSUME NEW s \in P, NEW t \in P, both(s, t), NEW k \in 1..Len(passed(s, t))
      PROVE  /\ moved(s, t, k) \in Int /\ begin(t) \in Int /\ end(t) \in Int
             /\ begin(t) <= moved(s, t, k) /\ moved(s, t, k) < end(t)
  <2> DEFINE x == moved(s, t, k)
  <2>1. passed(s, t)[k] + 1 \in 1..Len(list(s)) /\ ToProc(d, x) = IoRank(d, t)
    BY <1>3, <1>5
  <2>2. x \in 0..GridSize(d.gdims) - 1
    <3> DEFINE e == list(s)[passed(s, t)[k] + 1]
    <3>1. IsElement(d, e)
      BY <1>2, <1>5, <2>1
    <3> HIDE DEF e
    <3>2. e.cell \in 0..GridSize(d.gdims) - 1
      BY <3>1, ElementsApart
    <3>3. QED
      BY <3>2 DEF e
  <2> HIDE DEF x
  <2>3. /\ ToProc(d, x) \in 0..n - 1 /\ DecompStart(d, ToProc(d, x)) <= x
        /\ x < DecompEnd(d, ToProc(d, x))
    BY <1>4, <2>2, CellsFindTheirIoProcess
  <2>4. begin(t) \in Int /\ end(t) \in Int
    <3>1. PICK c \in Nat : c = IoChunk(d)
      BY <1>4, Division, Zenon DEF IoChunk
    <3>2. PICK r \in Nat : r = IoRank(d, t)
      BY <2>1, <2>3
    <3>3. PICK m \in Nat : m = r * c
      OBVIOUS
    <3>4. begin(t) = m /\ end(t) = IF r = NIo(d) - 1 THEN N ELSE m + c
      BY <1>4, <3>1, <3>2, <3>3 DEF DecompStart, DecompEnd
    <3>5. QED
      BY ONLY <3>4, m \in Nat, c \in Nat, N \in Nat \ {0}
  <2>5. x \in Int
    BY <1>4, <2>2
  <2>6. QED
    BY <2>1, <2>3, <2>4, <2>5 DEF x
<1>6. ASSUME NEW s \in P, NEW t \in P
      PROVE  /\ hop.snd[s][t] = IF both(s, t) THEN passed(s, t) ELSE <<>>
             /\ hop.rcv[t][s] = IF both(s, t) THEN [k \in DOMAIN passed(s, t) |-> moved(s, t, k) - begin(t)]
                                ELSE <<>>
             /\ IsIo(d, s) => hop.slen[s] = Len(list(s))
             /\ IsIo(d, t) => hop.rlen[t] = end(t) - begin(t)
  BY DEF ToIoHop, StoredAt, passed, list
<1>7. DOMAIN hop.slen = P /\ DOMAIN hop.rlen = P
  BY DEF ToIoHop
<1> HIDE DEF hop, P, moved, begin, end
<1>8. ASSUME NEW s \in P, NEW t \in P
      PROVE  /\ Len(hop.snd[s][t]) \in Nat /\ Len(hop.rcv[t][s]) = Len(hop.snd[s][t])
             /\ DOMAIN hop.snd[s][t] = 1..Len(hop.snd[s][t])
             /\ DOMAIN hop.rcv[t][s] = 1..Len(hop.snd[s][t])
             /\ \A k \in 1..Len(hop.snd[s][t]) :
                  /\ hop.snd[s][t][k] \in 0..hop.slen[s] - 1 /\ hop.rcv[t][s][k] \in 0..hop.rlen[t] - 1
                  /\ both(s, t) /\ k \in 1..Len(passed(s, t))
                  /\ hop.rcv[t][s][k] = moved(s, t, k) - begin(t)
  <2>1. CASE ~both(s, t)
    <3>1. hop.snd[s][t] = <<>> /\ hop.rcv[t][s] = <<>>
      BY <1>6, <2>1, Zenon
    <3>2. QED
      BY <3>1
  <2>2. CASE both(s, t)
    <3>1. /\ hop.snd[s][t] = passed(s, t)
          /\ hop.rcv[t][s] = [k \in DOMAIN passed(s, t) |-> moved(s, t, k) - begin(t)]
          /\ hop.slen[s] = Len(list(s)) /\ hop.rlen[t] = end(t) - begin(t)
      BY <1>6, <2>2
    <3>2. Len(passed(s, t)) \in Nat /\ DOMAIN passed(s, t) = 1..Len(passed(s, t))
      BY <1>3, <2>2
    <3>3. /\ Len(hop.rcv[t][s]) = Len(passed(s, t)) /\ DOMAIN hop.rcv[t][s] = 1..Len(passed(s, t))
          /\ \A k \in 1..Len(passed(s, t)) : hop.rcv[t][s][k] = moved(s, t, k) - begin(t)
      BY <3>1, <3>2
    <3>4. ASSUME NEW k \in 1..Len(passed(s, t))
          PROVE  /\ hop.snd[s][t][k] \in 0..hop.slen[s] - 1 /\ hop.rcv[t][s][k] \in 0..hop.rlen[t] - 1
      <4>1. hop.snd[s][t][k] \in 0..hop.slen[s] - 1
        BY <1>3, <2>2, <3>1
      <4>2. /\ moved(s, t, k) \in Int /\ begin(t) \in Int /\ end(t) \in Int
            /\ begin(t) <= moved(s, t, k) /\ moved(s, t, k) < end(t)
        BY <1>5, <2>2
      <4>3. moved(s, t, k) - begin(t) \in 0..end(t) - begin(t) - 1
        BY ONLY <4>2
      <4>4. QED
        BY <3>1, <3>3, <4>1, <4>3
    <3>5. QED
      BY <2>2, <3>1, <3>2, <3>3, <3>4
  <2>3. QED
    BY <2>1, <2>2
<1>9. Messages(hop, P)
  BY <1>7, <1>8, ZenonT(60) DEF Messages
<1>10. ASSUME NEW t \in P, NEW s \in P, NEW u \in P,
              NEW k \in 1..Len(hop.snd[s][t]), NEW l \in 1..Len(hop.snd[u][t]),
              hop.rcv[t][s][k] = hop.rcv[t][u][l]
       PROVE  s = u /\ k = l
  <2>1. both(s, t) /\ k \in 1..Len(passed(s, t)) /\ hop.rcv[t][s][k] = moved(s, t, k) - begin(t)
    BY <1>8
  <2>2. both(u, t) /\ l \in 1..Len(passed(u, t)) /\ hop.rcv[t][u][l] = moved(u, t, l) - begin(t)
    BY <1>8
  <2>3. moved(s, t, k) = moved(u, t, l)
    <3>1. moved(s, t, k) \in Int /\ begin(t) \in Int /\ moved(u, t, l) \in Int
      BY <1>5, <2>1, <2>2
    <3>2. PICK x \in Int, y \in Int, b \in Int :
            x = moved(s, t, k) /\ y = moved(u, t, l) /\ b = begin(t)
      BY <3>1
    <3>3. x - b = y - b
      BY <1>10, <2>1, <2>2, <3>2, Zenon
    <3>4. x = y
      BY ONLY <3>3, x \in Int, y \in Int, b \in Int
    <3>5. QED
      BY <3>2, <3>4, Zenon
  <2> DEFINE i == passed(s, t)[k]
             j == passed(u, t)[l]
             e == list(s)[i + 1]
             f == list(u)[j + 1]
  <2>4. /\ i \in 0..Len(list(s)) - 1 /\ i + 1 \in 1..Len(list(s)) /\ j \in 0..Len(list(u)) - 1
        /\ j + 1 \in 1..Len(list(u)) /\ Len(list(s)) \in Nat /\ Len(list(u)) \in Nat
    BY <1>2, <1>3, <2>1, <2>2, Zenon
  <2>5. /\ IsElement(d, e) /\ color[e.from] = IoRank(d, s)
        /\ IsElement(d, f) /\ color[f.from] = IoRank(d, u)
    BY <1>2, <2>1, <2>2, <2>4, Zenon
  <2>6. e.cell = f.cell
    BY <2>3 DEF moved
  <2>7. e = f
    <3> HIDE DEF e, f
    <3> QED BY <2>5, <2>6, ElementsApart
  <2>8. s = u
    BY <1>1, <2>1, <2>2, <2>5, <2>7
  <2>9. i + 1 = j + 1
    BY <1>2, <2>1, <2>4, <2>7, <2>8, Zenon
  <2>10. i = j
    <3> HIDE DEF i, j
    <3> QED BY <2>4, <2>9
  <2>11. QED
    BY <1>3, <2>1, <2>2, <2>8, <2>10
<1>11. NoneMeet(hop, P)
  BY <1>10, Zenon DEF NoneMeet
<1>12. HopFits(hop)
  BY <1>9, <1>11, HopFitsIf
<1>13. QED
  BY <1>12 DEF hop, agg, color

-----------------------------------------------------------------------------
(***************************************************************************)
(* The blocks of BOX                                                       *)
(***************************************************************************)
\* Values of T that begin with a and of which each is what a step makes of the one before.
Stepped(f, n, T, a, step) ==
  /\ f = [i \in 0..n |-> IF i = 0 THEN a ELSE step[i][f[i - 1]]]
  /\ \A i \in 0..n : f[i] \in T
SteppedFromOne(g, n, T, a, step) ==
  /\ g = [i \in 1..n |-> IF i = 1 THEN a ELSE step[i - 1][g[i - 1]]]
  /\ \A i \in 1..n : g[i] \in T

LEMMA StepsExist ==
  ASSUME NEW n \in Nat, NEW T, NEW a \in T, NEW step,
         \A i \in 1..n : \A x \in T : step[i][x] \in T
  PROVE  \E f : Stepped(f, n, T, a, step)
<1> DEFINE S == {m \in Nat : m <= n =>
                   \E f : /\ f = [i \in 0..m |-> IF i = 0 THEN a ELSE step[i][f[i - 1]]]
                          /\ \A i \in 0..m : f[i] \in T}
<1>1. 0 \in S
  <2> DEFINE f == [i \in 0..0 |-> a]
  <2>1. f = [i \in 0..0 |-> IF i = 0 THEN a ELSE step[i][f[i - 1]]] /\ \A i \in 0..0 : f[i] \in T
    OBVIOUS
  <2> HIDE DEF f
  <2>2. QED
    BY <2>1
<1>2. ASSUME NEW m \in S PROVE m + 1 \in S
  <2>1. SUFFICES ASSUME m + 1 <= n
                 PROVE  \E g : /\ g = [i \in 0..(m + 1) |-> IF i = 0 THEN a ELSE step[i][g[i - 1]]]
                               /\ \A i \in 0..(m + 1) : g[i] \in T
    OBVIOUS
  <2>2. m \in Nat /\ m <= n
    BY <2>1
  <2>3. PICK f : /\ f = [i \in 0..m |-> IF i = 0 THEN a ELSE step[i][f[i - 1]]]
                 /\ \A i \in 0..m : f[i] \in T
    BY <2>2
  <2> DEFINE g == [i \in 0..(m + 1) |-> IF i <= m THEN f[i] ELSE step[i][f[m]]]
  <2>4. \A i \in 0..m : f[i] = IF i = 0 THEN a ELSE step[i][f[i - 1]]
    BY <2>3
  <2>5. \A i \in 0..(m + 1) : g[i] = IF i = 0 THEN a ELSE step[i][g[i - 1]]
    BY <2>2, <2>4
  <2>6. g = [i \in 0..(m + 1) |-> IF i = 0 THEN a ELSE step[i][g[i - 1]]]
    BY <2>5, Zenon
  <2>7. \A i \in 0..(m + 1) : g[i] \in T
    <3>1. step[m + 1][f[m]] \in T
      BY <2>1, <2>2, <2>3
    <3>2. QED
      BY <2>2, <2>3, <3>1
  <2> HIDE DEF g
  <2>8. QED
    BY <2>6, <2>7
<1>3. S = Nat
  <2> HIDE DEF S
  <2>1. S \in SUBSET Nat
    BY DEF S
  <2>2. QED
    BY <1>1, <1>2, <2>1, Induct
<1>4. n \in S
  BY <1>3
<1>5. PICK f : /\ f = [i \in 0..n |-> IF i = 0 THEN a ELSE step[i][f[i - 1]]]
               /\ \A i \in 0..n : f[i] \in T
  BY <1>4
<1>6. QED
  BY <1>5, Zenon DEF Stepped

\* The same from 1 on.
LEMMA StepsFromOne ==
  ASSUME NEW n \in Nat \ {0}, NEW T, NEW a \in T, NEW step,
         \A i \in 1..n - 1 : \A x \in T : step[i][x] \in T
  PROVE  \E g : SteppedFromOne(g, n, T, a, step)
<1>1. PICK m \in Nat : m = n - 1
  OBVIOUS
<1>2. PICK f : /\ f = [i \in 0..m |-> IF i = 0 THEN a ELSE step[i][f[i - 1]]]
               /\ \A i \in 0..m : f[i] \in T
  <2>1. \A i \in 1..m : \A x \in T : step[i][x] \in T
    BY <1>1, Zenon
  <2>2. \E f : Stepped(f, m, T, a, step)
    BY <2>1, StepsExist, Zenon
  <2>3. QED
    BY <2>2, Zenon DEF Stepped
<1> DEFINE g == [i \in 1..n |-> f[i - 1]]
<1>3. \A i \in 0..m : f[i] = IF i = 0 THEN a ELSE step[i][f[i - 1]]
  BY <1>2
<1>4. ASSUME NEW i \in 1..n PROVE g[i] = IF i = 1 THEN a ELSE step[i - 1][g[i - 1]]
  <2>1. CASE i = 1
    BY <1>1, <1>3, <2>1
  <2>2. CASE i # 1
    <3>1. i - 1 \in 1..n /\ i - 1 \in 0..m /\ i - 1 # 0 /\ g[i - 1] = f[(i - 1) - 1]
      BY <1>1, <2>2
    <3>2. g[i] = f[i - 1] /\ f[i - 1] = step[i - 1][f[(i - 1) - 1]]
      BY <1>3, <3>1
    <3>3. QED
      BY <2>2, <3>1, <3>2
  <2>3. QED
    BY <2>1, <2>2
<1>5. g = [i \in 1..n |-> IF i = 1 THEN a ELSE step[i - 1][g[i - 1]]]
  BY <1>4, Zenon
<1>6. \A i \in 1..n : g[i] \in T
  BY <1>1, <1>2
<1> HIDE DEF g
<1>7. QED
  BY <1>5, <1>6, Zenon DEF SteppedFromOne

\* A quotient of a number by one that is not greater.
LEMMA QuotientPositive ==
  ASSUME NEW a \in Nat \ {0}, NEW b \in Nat \ {0}, b <= a
  PROVE  a \div b \in Nat \ {0}
<1>1. PICK q \in Nat, r \in 0..b - 1 : q = a \div b /\ a = b * q + r
  <2>1. a \div b \in Nat /\ a % b \in 0..b - 1 /\ a = b * (a \div b) + (a % b)
    BY Division, Zenon
  <2>2. QED
    BY <2>1, Zenon
<1>2. q # 0
  <2>1. SUFFICES ASSUME q = 0 PROVE FALSE
    OBVIOUS
  <2>2. b * q = 0
    BY <2>1
  <2>3. QED
    BY <1>1, <2>2
<1>3. QED
  BY <1>1, <1>2

\* The share of a dimension is a number of cells from a cell on.
LEMMA OneDimType ==
  ASSUME NEW gdim \in Nat, NEW n \in Nat \ {0}, NEW rank \in Nat
  PROVE  OneDim(gdim, n, rank).start \in Nat /\ OneDim(gdim, n, rank).count \in Nat
<1>1. PICK q \in Nat, rest \in 0..n - 1 : q = gdim \div n /\ gdim = n * q + rest
  <2>1. gdim \div n \in Nat /\ gdim % n \in 0..n - 1 /\ gdim = n * (gdim \div n) + (gdim % n)
    BY Division, Zenon
  <2>2. QED
    BY <2>1, Zenon
<1>2. PICK r \in 0..n - 1 : r = rank % n
  BY Division
<1>3. gdim - q * n = rest
  BY <1>1
<1>4. OneDim(gdim, n, rank) = [start |-> q * r + Greatest(r + rest - n, 0),
                               count |-> IF r + rest - n >= 0 THEN q + 1 ELSE q]
  BY ONLY <1>1, <1>2, <1>3, Zenon DEF OneDim
<1>5. Greatest(r + rest - n, 0) \in Nat
  BY DEF Greatest
<1>6. q * r \in Nat
  OBVIOUS
<1>7. q * r + Greatest(r + rest - n, 0) \in Nat
  <2>1. PICK x \in Nat, y \in Nat : x = q * r /\ y = Greatest(r + rest - n, 0)
    BY <1>5, <1>6
  <2>2. QED
    BY <2>1
<1>8. (IF r + rest - n >= 0 THEN q + 1 ELSE q) \in Nat
  OBVIOUS
<1>9. QED
  BY ONLY <1>4, <1>7, <1>8

\* The numbers of layers that the outer dimensions make, which UseIOProcs compares with the
\* number of I/O processes wanted.
LayersOf(dims) ==
  CHOOSE f : f = [i \in 0..Len(dims) |-> IF i = 0 THEN 1 ELSE f[i - 1] * dims[i]]

LEMMA LayersAre ==
  ASSUME NEW dims \in Lengths
  PROVE  /\ \A i \in 0..Len(dims) : LayersOf(dims)[i] \in Nat \ {0}
         /\ LayersOf(dims)[0] = 1
         /\ \A i \in 1..Len(dims) : LayersOf(dims)[i] = LayersOf(dims)[i - 1] * dims[i]
<1> DEFINE n == Len(dims)
           product == LayersOf(dims)
<1>0. n \in Nat \ {0} /\ \A i \in 1..n : dims[i] \in Nat \ {0}
  BY LengthsType
<1> DEFINE T == Nat \ {0}
           step == [i \in 1..n |-> [x \in T |-> x * dims[i]]]
<1>1. \A i \in 1..n : \A x \in T : step[i][x] = x * dims[i] /\ x * dims[i] \in T
  BY <1>0
<1>2. \A i \in 1..n : \A x \in T : step[i][x] \in T
  BY <1>1, Zenon
<1>3. 1 \in T
  OBVIOUS
<1> HIDE DEF step, n, T
<1>4. PICK f : /\ f = [i \in 0..n |-> IF i = 0 THEN 1 ELSE step[i][f[i - 1]]]
               /\ \A i \in 0..n : f[i] \in T
  <2>1. n \in Nat
    BY <1>0
  <2>2. \E f : Stepped(f, n, T, 1, step)
    BY <1>2, <1>3, <2>1, StepsExist, Zenon
  <2>3. QED
    BY <2>2, Zenon DEF Stepped
<1>5. ASSUME NEW i \in 0..n PROVE f[i] = IF i = 0 THEN 1 ELSE f[i - 1] * dims[i]
  <2>1. f[i] = IF i = 0 THEN 1 ELSE step[i][f[i - 1]]
    BY <1>4, Zenon
  <2>2. i # 0 => i \in 1..n /\ f[i - 1] \in T
    BY <1>0, <1>4
  <2>3. QED
    BY <1>1, <2>1, <2>2
<1>6. f = [i \in 0..n |-> IF i = 0 THEN 1 ELSE f[i - 1] * dims[i]]
  BY <1>4, <1>5
<1>7. product = [i \in 0..n |-> IF i = 0 THEN 1 ELSE product[i - 1] * dims[i]]
  <2>1. \E u : u = [i \in 0..n |-> IF i = 0 THEN 1 ELSE u[i - 1] * dims[i]]
    BY <1>6, Zenon
  <2>2. QED
    BY <2>1, Zenon DEF LayersOf, n
<1> HIDE DEF product
<1> DEFINE P == {i \in Nat : i <= n => product[i] \in Nat \ {0}}
<1>8. 0 \in P
  BY <1>0, <1>7
<1>9. ASSUME NEW i \in P PROVE i + 1 \in P
  <2>1. SUFFICES ASSUME i + 1 <= n PROVE product[i + 1] \in Nat \ {0}
    OBVIOUS
  <2>2. PICK a \in Nat \ {0}, b \in Nat \ {0} : a = product[i] /\ b = dims[i + 1]
    BY <1>0, <2>1
  <2>3. product[i + 1] = a * b
    BY <1>0, <1>7, <2>1, <2>2
  <2>4. QED
    BY <2>3
<1>10. P = Nat
  <2> HIDE DEF P
  <2>1. P \in SUBSET Nat
    BY DEF P
  <2>2. QED
    BY <1>8, <1>9, <2>1, Induct
<1>11. product[0] = 1 /\ \A i \in 1..n : product[i] = product[i - 1] * dims[i]
  BY <1>0, <1>7
<1>12. \A i \in 0..n : product[i] \in Nat \ {0}
  BY <1>0, <1>10
<1>13. QED
  BY <1>11, <1>12 DEF n, product

\* The I/O processes that are left for each dimension.
ProcsLeft(dims, use) ==
  CHOOSE f : f = [i \in 1..Len(dims) |->
    IF i = 1 THEN use
    ELSE IF dims[i - 1] < f[i - 1] THEN f[i - 1] \div dims[i - 1]
    ELSE f[i - 1]]

LEMMA ProcsLeftAre ==
  ASSUME NEW dims \in Lengths, NEW use \in Nat \ {0}
  PROVE  /\ \A i \in 1..Len(dims) : ProcsLeft(dims, use)[i] \in Nat \ {0}
         /\ ProcsLeft(dims, use)[1] = use
         /\ \A i \in 1..Len(dims) - 1 :
              ProcsLeft(dims, use)[i + 1] =
                IF dims[i] < ProcsLeft(dims, use)[i] THEN ProcsLeft(dims, use)[i] \div dims[i]
                ELSE ProcsLeft(dims, use)[i]
<1> DEFINE n == Len(dims)
           ioprocs == ProcsLeft(dims, use)
<1>0. n \in Nat \ {0} /\ DOMAIN dims = 1..n /\ \A i \in 1..n : dims[i] \in Nat \ {0}
  BY LengthsType
<1> DEFINE T == Nat \ {0}
           step == [i \in 1..n |-> [x \in T |-> IF dims[i] < x THEN x \div dims[i] ELSE x]]
<1>1. ASSUME NEW i \in 1..n - 1, NEW x \in T
      PROVE  step[i][x] = (IF dims[i] < x THEN x \div dims[i] ELSE x) /\ step[i][x] \in T
  <2>1. i \in 1..n /\ dims[i] \in Nat \ {0}
    BY <1>0
  <2>2. step[i][x] = IF dims[i] < x THEN x \div dims[i] ELSE x
    BY <2>1
  <2>3. dims[i] < x => x \div dims[i] \in T
    BY <2>1, QuotientPositive
  <2> HIDE DEF step
  <2>4. QED
    BY <2>2, <2>3
<1> HIDE DEF step, T
<1>2. \E g : SteppedFromOne(g, n, T, use, step)
  <2>1. use \in T
    BY use \in Nat \ {0} DEF T
  <2>2. \A i \in 1..n - 1 : \A x \in T : step[i][x] \in T
    BY <1>1
  <2>3. QED
    BY <1>0, <2>1, <2>2, StepsFromOne, Zenon
<1>3. PICK g : /\ g = [i \in 1..n |-> IF i = 1 THEN use ELSE step[i - 1][g[i - 1]]]
               /\ \A i \in 1..n : g[i] \in T
  BY <1>2, Zenon DEF SteppedFromOne
<1>4. ASSUME NEW i \in 1..n
      PROVE  g[i] = IF i = 1 THEN use
                    ELSE IF dims[i - 1] < g[i - 1] THEN g[i - 1] \div dims[i - 1]
                    ELSE g[i - 1]
  <2>1. g[i] = IF i = 1 THEN use ELSE step[i - 1][g[i - 1]]
    BY <1>3
  <2>2. ASSUME i # 1 PROVE i - 1 \in 1..n - 1 /\ g[i - 1] \in T
    BY <1>0, <1>3, <2>2
  <2>3. QED
    BY <1>1, <2>1, <2>2
<1>5. g = [i \in 1..n |-> IF i = 1 THEN use
                          ELSE IF dims[i - 1] < g[i - 1] THEN g[i - 1] \div dims[i - 1]
                          ELSE g[i - 1]]
  BY <1>3, <1>4, Zenon
<1>6. ioprocs = [i \in 1..n |-> IF i = 1 THEN use
                          ELSE IF dims[i - 1] < ioprocs[i - 1] THEN ioprocs[i - 1] \div dims[i - 1]
                          ELSE ioprocs[i - 1]]
  <2>1. \E u : u = [i \in 1..n |-> IF i = 1 THEN use
                          ELSE IF dims[i - 1] < u[i - 1] THEN u[i - 1] \div dims[i - 1]
                          ELSE u[i - 1]]
    BY <1>5
  <2>2. QED
    BY <2>1, Zenon DEF ProcsLeft, n
<1> HIDE DEF ioprocs, n
<1> DEFINE P == {i \in Nat : i + 1 <= n => ioprocs[i + 1] \in Nat \ {0}}
<1>7. 0 \in P
  BY <1>0, use \in Nat \ {0}, <1>6
<1>8. ASSUME NEW i \in P PROVE i + 1 \in P
  <2>1. SUFFICES ASSUME i + 2 <= n PROVE ioprocs[i + 2] \in Nat \ {0}
    OBVIOUS
  <2>2. PICK a \in Nat \ {0}, b \in Nat \ {0} : a = ioprocs[i + 1] /\ b = dims[i + 1]
    BY <1>0, <2>1
  <2>3. ioprocs[i + 2] = IF b < a THEN a \div b ELSE a
    <3>1. i + 2 \in 1..n /\ i + 2 # 1 /\ (i + 2) - 1 = i + 1
      BY <1>0, <2>1
    <3>2. ioprocs[i + 2] = IF i + 2 = 1 THEN use
                           ELSE IF dims[(i + 2) - 1] < ioprocs[(i + 2) - 1]
                                  THEN ioprocs[(i + 2) - 1] \div dims[(i + 2) - 1]
                           ELSE ioprocs[(i + 2) - 1]
      BY <1>6, <3>1, Zenon
    <3>3. QED
      BY ONLY <2>2, <3>1, <3>2, i \in Nat
  <2>4. b < a => a \div b \in Nat \ {0}
    BY QuotientPositive
  <2>5. QED
    BY <2>3, <2>4
<1>9. P = Nat
  <2> HIDE DEF P
  <2>1. P \in SUBSET Nat
    BY DEF P
  <2>2. QED
    BY <1>7, <1>8, <2>1, Induct
<1>10. ASSUME NEW i \in 1..n PROVE ioprocs[i] \in Nat \ {0}
  <2>1. PICK j \in Nat : i = j + 1 /\ j + 1 <= n
    <3>1. i - 1 \in Nat /\ i = (i - 1) + 1 /\ (i - 1) + 1 <= n
      BY <1>0
    <3>2. QED
      BY ONLY <3>1
  <2>2. j \in P
    <3> HIDE DEF P
    <3> QED BY <1>9
  <2>3. QED
    BY <2>1, <2>2
<1>11. /\ ioprocs[1] = use
       /\ \A i \in 1..n - 1 : ioprocs[i + 1] = IF dims[i] < ioprocs[i]
                                              THEN ioprocs[i] \div dims[i] ELSE ioprocs[i]
  <2>1. ioprocs[1] = use
    BY <1>0, <1>6
  <2>2. ASSUME NEW i \in 1..n - 1
        PROVE  ioprocs[i + 1] = IF dims[i] < ioprocs[i] THEN ioprocs[i] \div dims[i] ELSE ioprocs[i]
    <3>1. i + 1 \in 1..n /\ i + 1 # 1 /\ (i + 1) - 1 = i
      BY <1>0
    <3>2. ioprocs[i + 1] = IF i + 1 = 1 THEN use
                           ELSE IF dims[(i + 1) - 1] < ioprocs[(i + 1) - 1]
                                  THEN ioprocs[(i + 1) - 1] \div dims[(i + 1) - 1]
                           ELSE ioprocs[(i + 1) - 1]
      BY <1>6, <3>1, Zenon
    <3>3. QED
      BY ONLY <3>1, <3>2
  <2>3. QED
    BY <2>1, <2>2
<1>12. QED
  BY <1>10, <1>11 DEF n, ioprocs

\* The rank of a process among those that are left.
RankLeft(dims, use, rank) ==
  CHOOSE f : f = [i \in 1..Len(dims) |->
    IF i = 1 THEN rank
    ELSE IF dims[i - 1] > 1 THEN rank % ProcsLeft(dims, use)[i]
    ELSE f[i - 1]]

LEMMA RankLeftIs ==
  ASSUME NEW dims \in Lengths, NEW use \in Nat \ {0}, NEW rank \in Nat
  PROVE  /\ \A i \in 1..Len(dims) : RankLeft(dims, use, rank)[i] \in Nat
         /\ RankLeft(dims, use, rank)[1] = rank
         /\ \A i \in 1..Len(dims) - 1 :
              RankLeft(dims, use, rank)[i + 1] =
                IF dims[i] > 1 THEN rank % ProcsLeft(dims, use)[i + 1] ELSE RankLeft(dims, use, rank)[i]
<1> DEFINE n == Len(dims)
           ioprocs == ProcsLeft(dims, use)
           tiorank == RankLeft(dims, use, rank)
<1>0. n \in Nat \ {0} /\ DOMAIN dims = 1..n /\ \A i \in 1..n : dims[i] \in Nat \ {0}
  BY LengthsType
<1>a. \A i \in 1..n : ioprocs[i] \in Nat \ {0}
  BY ProcsLeftAre
<1> HIDE DEF ioprocs
<1> DEFINE step == [i \in 1..n |-> [x \in Nat |-> IF dims[i] > 1 THEN rank % ioprocs[i + 1] ELSE x]]
<1>1. ASSUME NEW i \in 1..n - 1, NEW x \in Nat
      PROVE  step[i][x] = (IF dims[i] > 1 THEN rank % ioprocs[i + 1] ELSE x) /\ step[i][x] \in Nat
  <2>1. i \in 1..n /\ i + 1 \in 1..n
    BY <1>0
  <2>2. step[i][x] = IF dims[i] > 1 THEN rank % ioprocs[i + 1] ELSE x
    BY <2>1
  <2>3. PICK a \in Nat \ {0} : a = ioprocs[i + 1]
    BY <1>a, <2>1
  <2>4. rank % a \in Nat
    BY Division
  <2> HIDE DEF step
  <2>5. QED
    BY <2>2, <2>3, <2>4
<1> HIDE DEF step
<1>2. \E g : SteppedFromOne(g, n, Nat, rank, step)
  <2>1. \A i \in 1..n - 1 : \A x \in Nat : step[i][x] \in Nat
    BY <1>1
  <2>2. QED
    BY <1>0, <2>1, StepsFromOne, Zenon
<1>3. PICK g : /\ g = [i \in 1..n |-> IF i = 1 THEN rank ELSE step[i - 1][g[i - 1]]]
               /\ \A i \in 1..n : g[i] \in Nat
  BY <1>2, Zenon DEF SteppedFromOne
<1>4. ASSUME NEW i \in 1..n
      PROVE  g[i] = IF i = 1 THEN rank
                    ELSE IF dims[i - 1] > 1 THEN rank % ioprocs[i]
                    ELSE g[i - 1]
  <2>1. g[i] = IF i = 1 THEN rank ELSE step[i - 1][g[i - 1]]
    BY <1>3, Zenon
  <2>2. ASSUME i # 1 PROVE i - 1 \in 1..n - 1 /\ g[i - 1] \in Nat /\ (i - 1) + 1 = i
    BY <1>0, <1>3, <2>2
  <2>3. QED
    BY <1>1, <2>1, <2>2
<1>5. g = [i \in 1..n |-> IF i = 1 THEN rank
                          ELSE IF dims[i - 1] > 1 THEN rank % ioprocs[i]
                          ELSE g[i - 1]]
  BY <1>3, <1>4, Zenon
<1>6. tiorank = [i \in 1..n |-> IF i = 1 THEN rank
                          ELSE IF dims[i - 1] > 1 THEN rank % ioprocs[i]
                          ELSE tiorank[i - 1]]
  <2>1. \E u : u = [i \in 1..n |-> IF i = 1 THEN rank
                          ELSE IF dims[i - 1] > 1 THEN rank % ioprocs[i]
                          ELSE u[i - 1]]
    BY <1>5
  <2>2. QED
    BY <2>1, Zenon DEF RankLeft, n, ioprocs
<1> HIDE DEF tiorank, n
<1> DEFINE P == {i \in Nat : i + 1 <= n => tiorank[i + 1] \in Nat}
<1>7. 0 \in P
  BY <1>0, <1>6
<1>8. ASSUME NEW i \in P PROVE i + 1 \in P
  <2>1. SUFFICES ASSUME i + 2 <= n PROVE tiorank[i + 2] \in Nat
    OBVIOUS
  <2>2. PICK a \in Nat, b \in Nat \ {0} : a = tiorank[i + 1] /\ b = ioprocs[i + 2]
    <3>1. i + 1 <= n /\ i + 2 \in 1..n
      BY ONLY <1>0, <2>1, i \in Nat
    <3>2. tiorank[i + 1] \in Nat
      BY <3>1
    <3>3. ioprocs[i + 2] \in Nat \ {0}
      BY <1>a, <3>1
    <3>4. QED
      BY ONLY <3>2, <3>3, Zenon
  <2>3. tiorank[i + 2] = IF dims[i + 1] > 1 THEN rank % b ELSE a
    <3>1. i + 2 \in 1..n /\ i + 2 # 1 /\ (i + 2) - 1 = i + 1
      BY <1>0, <2>1
    <3>2. tiorank[i + 2] = IF i + 2 = 1 THEN rank
                           ELSE IF dims[(i + 2) - 1] > 1 THEN rank % ioprocs[i + 2]
                           ELSE tiorank[(i + 2) - 1]
      BY <1>6, <3>1, Zenon
    <3>3. QED
      BY ONLY <2>2, <3>1, <3>2, i \in Nat
  <2>4. rank % b \in Nat
    BY Division
  <2>5. QED
    BY <2>3, <2>4
<1>9. P = Nat
  <2> HIDE DEF P
  <2>1. P \in SUBSET Nat
    BY DEF P
  <2>2. QED
    BY <1>7, <1>8, <2>1, Induct
<1>10. ASSUME NEW i \in 1..n PROVE tiorank[i] \in Nat
  <2>1. PICK j \in Nat : i = j + 1 /\ j + 1 <= n
    <3>1. i - 1 \in Nat /\ i = (i - 1) + 1 /\ (i - 1) + 1 <= n
      BY <1>0
    <3>2. QED
      BY ONLY <3>1
  <2>2. j \in P
    <3> HIDE DEF P
    <3> QED BY <1>9
  <2>3. QED
    BY <2>1, <2>2
<1>11. /\ tiorank[1] = rank
       /\ \A i \in 1..n - 1 : tiorank[i + 1] = IF dims[i] > 1 THEN rank % ioprocs[i + 1] ELSE tiorank[i]
  <2>1. tiorank[1] = rank
    BY <1>0, <1>6
  <2>2. ASSUME NEW i \in 1..n - 1
        PROVE  tiorank[i + 1] = IF dims[i] > 1 THEN rank % ioprocs[i + 1] ELSE tiorank[i]
    <3>1. i + 1 \in 1..n /\ i + 1 # 1 /\ (i + 1) - 1 = i
      BY <1>0
    <3>2. tiorank[i + 1] = IF i + 1 = 1 THEN rank
                           ELSE IF dims[(i + 1) - 1] > 1 THEN rank % ioprocs[i + 1]
                           ELSE tiorank[(i + 1) - 1]
      BY <1>6, <3>1, Zenon
    <3>3. QED
      BY ONLY <3>1, <3>2
  <2>3. QED
    BY <2>1, <2>2
<1>12. QED
  BY <1>10, <1>11 DEF n, ioprocs, tiorank

\* The number of I/O processes wanted: as many as there are blocks of blocksize bytes.
Wanted(dims, nio, typesize, blocksize) ==
  Greatest(1, Least((typesize * GridSize(dims)) \div blocksize, nio))

LEMMA WantedIs ==
  ASSUME NEW dims \in Lengths, NEW nio \in Nat \ {0}, NEW typesize \in Nat \ {0},
         NEW blocksize \in Nat \ {0}
  PROVE  /\ Wanted(dims, nio, typesize, blocksize) \in 1..nio
         /\ typesize <= blocksize => Wanted(dims, nio, typesize, blocksize) <= GridSize(dims)
<1>1. PICK g \in Nat \ {0} : g = GridSize(dims)
  BY GridSizeIs
<1>2. PICK x \in Nat : x = typesize * g
  OBVIOUS
<1>3. PICK y \in Nat : y = x \div blocksize
  BY Division
<1>4. Wanted(dims, nio, typesize, blocksize) = IF 1 > (IF y < nio THEN y ELSE nio) THEN 1
                                               ELSE IF y < nio THEN y ELSE nio
  BY ONLY <1>1, <1>2, <1>3, Zenon DEF Wanted, Greatest, Least
<1>5. ASSUME typesize <= blocksize PROVE y <= g
  <2>1. PICK k \in Nat : blocksize = typesize + k
    BY <1>5
  <2>2. PICK z \in Nat : z = k * g
    OBVIOUS
  <2>3. blocksize * g = x + z
    BY ONLY <1>2, <2>1, <2>2, typesize \in Nat, g \in Nat
  <2>4. x < blocksize * (g + 1)
    <3>1. blocksize * (g + 1) = blocksize * g + blocksize
      OBVIOUS
    <3>2. x < x + z + blocksize
      OBVIOUS
    <3>3. QED
      BY ONLY <2>3, <3>1, <3>2
  <2>5. x \div blocksize \in 0..(g + 1) - 1
    BY <2>4, QuotientBelow
  <2>6. QED
    BY <1>3, <2>5
<1>6. QED
  BY ONLY <1>1, <1>4, <1>5, y \in Nat, nio \in Nat \ {0}

\* The I/O processes in use are no more than wanted, and a multiple of the layers that the
\* outer dimensions make, up to the first dimension that has enough for the wanted ones.
LEMMA UseIOProcsAre ==
  ASSUME NEW dims \in Lengths, NEW nio \in Nat \ {0}, NEW typesize \in Nat \ {0},
         NEW blocksize \in Nat \ {0}
  PROVE  LET use == UseIOProcs(dims, nio, typesize, blocksize)
             wanted == Wanted(dims, nio, typesize, blocksize)
             f == LayersOf(dims)
         IN  /\ use \in Nat \ {0} /\ use <= wanted
             /\ \E m \in 0..Len(dims) : /\ \E q \in Nat \ {0} : use = f[m] * q
                                        /\ m < Len(dims) => wanted <= f[m + 1]
<1> DEFINE n == Len(dims)
           wanted == Wanted(dims, nio, typesize, blocksize)
           f == LayersOf(dims)
           fewer == {i \in 0..n : \A j \in 1..i : f[j] < wanted}
           m == Max(fewer)
           use == UseIOProcs(dims, nio, typesize, blocksize)
<1>1. use = wanted - (wanted % f[m])
  BY Zenon DEF UseIOProcs, Wanted, LayersOf
<1>2. n \in Nat \ {0}
  BY LengthsType
<1>3. wanted \in Nat \ {0}
  <2> HIDE DEF wanted
  <2>1. wanted \in 1..nio
    BY WantedIs DEF wanted
  <2>2. QED
    BY <2>1
<1>4. f[0] = 1 /\ \A i \in 0..n : f[i] \in Nat \ {0}
  BY LayersAre
<1> HIDE DEF use, wanted, f
<1>5. m \in fewer /\ \A i \in fewer : i <= m
  <2>1. fewer \subseteq 0..n /\ 0 \in fewer
    BY <1>2
  <2>2. IsFiniteSet(0..n) /\ 0..n \subseteq Nat
    BY <1>2, FS_Interval
  <2> HIDE DEF fewer, n
  <2>3. IsFiniteSet(fewer)
    BY <2>1, <2>2, FS_Subset, Zenon
  <2>4. fewer \in SUBSET Nat /\ fewer # {}
    BY <2>1, <2>2
  <2>5. QED
    BY <2>3, <2>4, MaxOfSet
<1> HIDE DEF m
<1>6. m \in 0..n /\ \A j \in 1..m : f[j] < wanted
  BY <1>5
<1>7. PICK w \in Nat \ {0}, a \in Nat \ {0} : w = wanted /\ a = f[m]
  BY <1>3, <1>4, <1>6
<1>8. a <= w
  BY <1>2, <1>4, <1>6, <1>7
<1>9. PICK q \in Nat \ {0}, r \in 0..a - 1 : q = w \div a /\ r = w % a /\ w = a * q + r
  <2>1. w \div a \in Nat \ {0}
    BY <1>8, QuotientPositive
  <2>2. w % a \in 0..a - 1 /\ w = a * (w \div a) + (w % a)
    BY Division
  <2>3. QED
    BY <2>1, <2>2, Zenon
<1>10. use = a * q
  <2>1. PICK x \in Nat : x = a * q
    OBVIOUS
  <2>2. use = w - r
    BY <1>1, <1>7, <1>9
  <2>3. QED
    BY ONLY <1>9, <2>1, <2>2, r \in 0..a - 1, w \in Nat, a \in Nat
<1>11. use \in Nat \ {0} /\ use <= wanted
  <2>1. PICK x \in Nat \ {0} : x = a * q
    OBVIOUS
  <2>2. QED
    BY <1>7, <1>9, <1>10, <2>1
<1>12. ASSUME m < n PROVE wanted <= f[m + 1]
  <2>1. m + 1 \in 0..n /\ ~(m + 1 <= m)
    BY <1>2, <1>6, <1>12
  <2>2. PICK b \in Nat \ {0} : b = f[m + 1]
    BY <1>4, <2>1
  <2>3. SUFFICES ASSUME b < wanted PROVE FALSE
    BY <1>7, <2>2
  <2>4. \A j \in 1..m + 1 : f[j] < wanted
    BY <1>6, <2>2, <2>3
  <2>5. m + 1 \in fewer
    BY <2>1, <2>4
  <2>6. QED
    BY <1>5, <2>1, <2>5
<1>13. \E k \in 0..n : (\E z \in Nat \ {0} : use = f[k] * z) /\ (k < n => wanted <= f[k + 1])
  BY <1>6, <1>7, <1>10, <1>12
<1>14. QED
  BY <1>11, <1>13 DEF use, wanted, f

\* The layers of the outer dimensions have as many cells as the array.
LEMMA LayersAndChunks ==
  ASSUME NEW dims \in Lengths
  PROVE  LayersOf(dims)[Len(dims)] = GridSize(dims)
<1> DEFINE n == Len(dims)
           f == LayersOf(dims)
           c == ChunkSizes(dims)
           S == {i \in Nat : i + 1 <= n => f[i + 1] * c[i + 1] = GridSize(dims)}
<1>1. /\ n \in Nat \ {0} /\ \A i \in 1..n : c[i] \in Nat \ {0} /\ dims[i] \in Nat \ {0}
      /\ c[n] = 1 /\ \A i \in 1..n - 1 : c[i] = c[i + 1] * dims[i + 1]
  BY LengthsType, ChunkSizesAre
<1>2. f[0] = 1 /\ \A i \in 0..n : f[i] \in Nat \ {0}
  BY LayersAre
<1>3. \A i \in 1..n : f[i] = f[i - 1] * dims[i]
  BY LayersAre
<1>4. GridSize(dims) = dims[1] * c[1]
  BY GridSizeIs
<1> HIDE DEF f, c, n
<1>5. 0 \in S
  <2>1. PICK a \in Nat \ {0} : a = dims[1]
    BY <1>1
  <2>2. f[1] = 1 * a
    BY <1>1, <1>2, <1>3, <2>1
  <2>3. QED
    BY <1>4, <2>1, <2>2
<1>6. ASSUME NEW i \in S PROVE i + 1 \in S
  <2>1. SUFFICES ASSUME i + 2 <= n PROVE f[i + 2] * c[i + 2] = GridSize(dims)
    OBVIOUS
  <2>2. i \in Nat /\ i + 1 \in 1..n - 1 /\ i + 1 \in 0..n /\ i + 2 \in 1..n /\ (i + 2) - 1 = i + 1
        /\ (i + 1) + 1 = i + 2
    BY <1>1, <2>1
  <2>3. PICK a \in Nat, b \in Nat, d \in Nat : a = f[i + 1] /\ b = c[i + 2] /\ d = dims[i + 2]
    BY <1>1, <1>2, <2>2
  <2>4. f[i + 2] = a * d
    BY ONLY <1>3, <2>2, <2>3
  <2>5. c[i + 1] = b * d
    BY ONLY <1>1, <2>2, <2>3
  <2>6. a * (b * d) = GridSize(dims)
    BY <2>1, <2>2, <2>3, <2>5
  <2>7. (a * d) * b = a * (b * d)
    BY ONLY a \in Nat, b \in Nat, d \in Nat
  <2>8. QED
    BY ONLY <2>3, <2>4, <2>6, <2>7
<1>7. S = Nat
  <2> HIDE DEF S
  <2>1. S \in SUBSET Nat
    BY DEF S
  <2>2. QED
    BY <1>5, <1>6, <2>1, Induct
<1>8. f[n] * c[n] = GridSize(dims)
  <2>1. n - 1 \in Nat /\ (n - 1) + 1 = n
    BY <1>1
  <2>2. n - 1 \in S
    BY <1>7, <2>1
  <2>3. QED
    BY <2>1, <2>2
<1>9. QED
  <2>1. PICK a \in Nat : a = f[n]
    BY <1>1, <1>2
  <2>2. QED
    BY <1>1, <1>8, <2>1 DEF f, n

\* The dimension that the processes that are left are given shares of.
SplitAt(dims, use) ==
  Min({i \in DOMAIN dims : dims[i] >= ProcsLeft(dims, use)[i]} \union {Len(dims) + 1})

LEMMA SplitAtIs ==
  ASSUME NEW dims \in Lengths, NEW use \in Nat \ {0}
  PROVE  /\ SplitAt(dims, use) \in 1..Len(dims) + 1
         /\ SplitAt(dims, use) <= Len(dims) =>
              ProcsLeft(dims, use)[SplitAt(dims, use)] <= dims[SplitAt(dims, use)]
         /\ \A i \in 1..Len(dims) : i < SplitAt(dims, use) => dims[i] < ProcsLeft(dims, use)[i]
<1> DEFINE n == Len(dims)
           p == ProcsLeft(dims, use)
           T == {i \in 1..n : dims[i] >= p[i]} \union {n + 1}
<1>1. /\ n \in Nat \ {0} /\ DOMAIN dims = 1..n
      /\ \A i \in 1..n : dims[i] \in Nat \ {0} /\ p[i] \in Nat \ {0}
  BY LengthsType, ProcsLeftAre
<1> HIDE DEF p
<1>2. SplitAt(dims, use) = Min(T)
  BY <1>1, Zenon DEF SplitAt, p
<1>3. T \in SUBSET Nat /\ T # {}
  BY <1>1
<1> HIDE DEF T
<1>4. Min(T) \in T /\ \A i \in T : Min(T) <= i
  BY <1>3, MinOf
<1>5. PICK k : k = Min(T)
  OBVIOUS
<1>6. k \in 1..n + 1 /\ (k <= n => p[k] <= dims[k])
  BY <1>1, <1>4, <1>5 DEF T
<1>7. ASSUME NEW i \in 1..n, i < k PROVE dims[i] < p[i]
  <2>1. PICK a \in Nat, b \in Nat : a = dims[i] /\ b = p[i]
    BY <1>1
  <2>2. SUFFICES ASSUME a >= b PROVE FALSE
    BY <2>1
  <2>3. i \in T
    BY <2>1, <2>2 DEF T
  <2>4. k <= i
    BY <1>4, <1>5, <2>3
  <2>5. QED
    BY <1>1, <1>6, <1>7, <2>4
<1>8. QED
  BY <1>2, <1>5, <1>6, <1>7 DEF p, n

\* CalcStartandCount gives a block: a first cell and a number of them in each dimension.
LEMMA BlockIs ==
  ASSUME NEW dims \in Lengths, NEW nio \in Nat \ {0}, NEW rank \in Nat,
         NEW typesize \in Nat \ {0}, NEW blocksize \in Nat \ {0}
  PROVE  /\ CalcStartandCount(dims, nio, rank, typesize, blocksize).start \in [1..Len(dims) -> Nat]
         /\ CalcStartandCount(dims, nio, rank, typesize, blocksize).count \in [1..Len(dims) -> Nat]
<1> DEFINE n == Len(dims)
           use == UseIOProcs(dims, nio, typesize, blocksize)
           ioprocs == ProcsLeft(dims, use)
           tiorank == RankLeft(dims, use, rank)
           last == SplitAt(dims, use)
           part == [i \in DOMAIN dims |->
             IF i = last THEN OneDim(dims[i], ioprocs[i], tiorank[i])
             ELSE IF i < last /\ dims[i] > 1
                    THEN OneDim(dims[i], dims[i], (rank * dims[i]) \div ioprocs[i])
             ELSE [start |-> 0, count |-> dims[i]]]
           block == CalcStartandCount(dims, nio, rank, typesize, blocksize)
<1>1. block = IF rank < use
                THEN [start |-> [i \in DOMAIN dims |-> part[i].start],
                      count |-> [i \in DOMAIN dims |-> part[i].count], loffset |-> 0]
                ELSE [start |-> [i \in DOMAIN dims |-> 0],
                      count |-> [i \in DOMAIN dims |-> 0], loffset |-> 0]
  BY Zenon DEF CalcStartandCount, SplitAt, ProcsLeft, RankLeft
<1>2. n \in Nat \ {0} /\ DOMAIN dims = 1..n /\ \A i \in 1..n : dims[i] \in Nat \ {0}
  BY LengthsType
<1>3. use \in Nat \ {0}
  BY UseIOProcsAre
<1> HIDE DEF use, block
<1>4. CASE ~(rank < use)
  <2>1. /\ block.start = [i \in DOMAIN dims |-> 0]
        /\ block.count = [i \in DOMAIN dims |-> 0]
    <3> HIDE DEF part
    <3> QED BY <1>1, <1>4
  <2>2. QED
    BY <1>2, <2>1 DEF block
<1>5. CASE rank < use
  <2>2. \A i \in 1..n : ioprocs[i] \in Nat \ {0}
    BY <1>3, ProcsLeftAre
  <2>3. \A i \in 1..n : tiorank[i] \in Nat
    BY <1>3, RankLeftIs
  <2> HIDE DEF ioprocs
  <2> HIDE DEF tiorank, last
  <2>4. ASSUME NEW i \in 1..n PROVE part[i].start \in Nat /\ part[i].count \in Nat
    <3>1. PICK g \in Nat \ {0}, m \in Nat \ {0}, t \in Nat :
            g = dims[i] /\ m = ioprocs[i] /\ t = tiorank[i]
      BY <1>2, <2>2, <2>3, Zenon
    <3>2. PICK q \in Nat : q = (rank * g) \div m
      <4>1. PICK x \in Nat : x = rank * g
        OBVIOUS
      <4>2. x \div m \in Nat
        BY Division, Zenon
      <4>3. QED
        BY <4>1, <4>2
    <3>3. /\ OneDim(g, m, t).start \in Nat /\ OneDim(g, m, t).count \in Nat
          /\ OneDim(g, g, q).start \in Nat /\ OneDim(g, g, q).count \in Nat
      BY OneDimType
    <3>4. part[i] = IF i = last THEN OneDim(g, m, t)
                    ELSE IF i < last /\ dims[i] > 1 THEN OneDim(g, g, q)
                    ELSE [start |-> 0, count |-> g]
      BY <1>2, <3>1, <3>2
    <3> HIDE DEF part
    <3>5. QED
      BY <3>3, <3>4
  <2> HIDE DEF part
  <2>5. /\ block.start = [i \in 1..n |-> part[i].start]
        /\ block.count = [i \in 1..n |-> part[i].count]
    BY <1>1, <1>2, <1>5
  <2>6. block.start \in [1..n -> Nat] /\ block.count \in [1..n -> Nat]
    BY <2>4, <2>5
  <2>7. QED
    BY <2>6 DEF block
<1>6. QED
  BY <1>4, <1>5

\* The blocks of the I/O processes have a number of cells from a cell on in each dimension.
LEMMA BoxesAre ==
  ASSUME NEW d, WellFormed(d), NEW r \in IoProcs(d)
  PROVE  Boxes(d)[r].start \in [1..Len(d.gdims) -> Nat] /\ Boxes(d)[r].count \in [1..Len(d.gdims) -> Nat]
<1>1. Boxes(d)[r] = IF d.box # <<>>
                      THEN [start |-> d.box[r + 1].start, count |-> d.box[r + 1].count, loffset |-> 0]
                      ELSE CalcStartandCount(d.gdims, NIo(d), r, d.typesize, d.blocksize)
  BY DEF Boxes
<1>2. CASE d.box # <<>>
  <2>1. /\ d.box[r + 1].start \in Seq(Nat) /\ Len(d.box[r + 1].start) = Len(d.gdims)
        /\ d.box[r + 1].count \in Seq(Nat) /\ Len(d.box[r + 1].count) = Len(d.gdims)
    BY <1>2, Zenon DEF WellFormed
  <2>2. /\ d.box[r + 1].start \in [1..Len(d.gdims) -> Nat]
        /\ d.box[r + 1].count \in [1..Len(d.gdims) -> Nat]
    <3>1. \A s \in Seq(Nat) : s \in [1..Len(s) -> Nat]
      OBVIOUS
    <3>2. QED
      BY ONLY <2>1, <3>1, Zenon
  <2>3. Boxes(d)[r].start = d.box[r + 1].start /\ Boxes(d)[r].count = d.box[r + 1].count
    BY <1>1, <1>2
  <2>4. QED
    BY <2>2, <2>3
<1>3. CASE d.box = <<>>
  <2>1. d.gdims \in Lengths /\ NIo(d) \in Nat \ {0}
    BY DecompIs, Zenon DEF WellFormed
  <2>2. d.typesize \in Nat \ {0} /\ d.blocksize \in Nat \ {0} /\ IoProcs(d) = 0..NIo(d) - 1
    BY DEF WellFormed
  <2>3. r \in Nat
    BY <2>1, <2>2
  <2> DEFINE b == CalcStartandCount(d.gdims, NIo(d), r, d.typesize, d.blocksize)
  <2>4. b.start \in [1..Len(d.gdims) -> Nat] /\ b.count \in [1..Len(d.gdims) -> Nat]
    BY <2>1, <2>2, <2>3, BlockIs, Zenon
  <2> HIDE DEF b
  <2>5. Boxes(d)[r] = b
    BY <1>1, <1>3 DEF b
  <2>6. QED
    BY <2>4, <2>5
<1>4. QED
  BY <1>2, <1>3

\* The place in a block of a cell that it has.
PlaceIn(d, region, cell) ==
  LIndex([i \in DOMAIN d.gdims |-> DimList(d.gdims, cell)[i] - region.start[i]], region.count)

\* Cells that a block has get places in its buffer, no two the same.
LEMMA PlaceInIs ==
  ASSUME NEW d, WellFormed(d), NEW region,
         region.start \in [1..Len(d.gdims) -> Nat], region.count \in [1..Len(d.gdims) -> Nat],
         NEW x \in 0..GridSize(d.gdims) - 1, Holds(d, region, x),
         NEW y \in 0..GridSize(d.gdims) - 1, Holds(d, region, y)
  PROVE  /\ PlaceIn(d, region, x) \in 0..GridSize(region.count) - 1
         /\ PlaceIn(d, region, x) = PlaceIn(d, region, y) => x = y
<1> DEFINE n == Len(d.gdims)
           At(z) == DimList(d.gdims, z)
           off(z) == [i \in 1..n |-> At(z)[i] - region.start[i]]
<1>1. n \in Nat \ {0} /\ DOMAIN d.gdims = 1..n /\ d.gdims \in Lengths
  BY DecompIs, LengthsType
<1>2. \A z : PlaceIn(d, region, z) = LIndex(off(z), region.count)
  BY <1>1 DEF PlaceIn
<1>3. \A z : At(z) = [i \in 1..n |-> At(z)[i]]
  BY <1>1 DEF DimList
<1>4. ASSUME NEW z \in 0..GridSize(d.gdims) - 1, Holds(d, region, z), NEW i \in 1..n
      PROVE  At(z)[i] \in region.start[i]..region.start[i] + region.count[i] - 1
  BY <1>1, <1>4 DEF Holds
<1> HIDE DEF At, n
<1>5. ASSUME NEW i \in 1..n
      PROVE  /\ region.count[i] \in Nat \ {0} /\ region.start[i] \in Nat
             /\ off(x)[i] \in 0..region.count[i] - 1 /\ off(y)[i] \in 0..region.count[i] - 1
             /\ off(x)[i] = At(x)[i] - region.start[i] /\ off(y)[i] = At(y)[i] - region.start[i]
             /\ At(x)[i] \in Int /\ At(y)[i] \in Int
  <2>1. PICK s \in Nat, c \in Nat : s = region.start[i] /\ c = region.count[i]
    BY DEF n
  <2>2. At(x)[i] \in s..s + c - 1 /\ At(y)[i] \in s..s + c - 1
    BY <1>4, <2>1, Zenon
  <2>3. PICK a \in Int, b \in Int : a = At(x)[i] /\ b = At(y)[i]
    BY <2>2
  <2>4. c # 0 /\ a - s \in 0..c - 1 /\ b - s \in 0..c - 1
    <3>1. a \in s..s + c - 1 /\ b \in s..s + c - 1
      BY ONLY <2>2, <2>3
    <3>2. QED
      BY ONLY <3>1, a \in Int, b \in Int, s \in Nat, c \in Nat
  <2>5. QED
    BY <2>1, <2>3, <2>4
<1>6. region.count \in Lengths /\ Len(region.count) = n
  <2>1. region.count \in [1..n -> Nat]
    BY DEF n
  <2>2. region.count \in [1..n -> Nat \ {0}]
    BY <1>5, <2>1, Zenon
  <2>3. region.count \in Seq(Nat \ {0}) /\ Len(region.count) = n
    BY <1>1, <2>2
  <2>4. region.count # <<>>
    BY <1>1, <2>3
  <2>5. QED
    BY <2>3, <2>4 DEF Lengths
<1> HIDE DEF off
<1>a. /\ \A i \in 1..n : off(x)[i] \in 0..region.count[i] - 1
      /\ \A i \in 1..n : off(y)[i] \in 0..region.count[i] - 1
  BY <1>5, Zenon
<1>b. ASSUME NEW coord, \A i \in 1..n : coord[i] \in 0..region.count[i] - 1
      PROVE  /\ LIndex(coord, region.count) \in 0..GridSize(region.count) - 1
             /\ \A i \in 1..n : DimList(region.count, LIndex(coord, region.count))[i] = coord[i]
  <2>1. PICK count : count = region.count
    OBVIOUS
  <2>2. /\ LIndex(coord, count) \in 0..GridSize(count) - 1
        /\ \A i \in 1..n : DimList(count, LIndex(coord, count))[i] = coord[i]
    BY ONLY <1>6, <1>b, <2>1, CoordinatesOfCell
  <2>3. QED
    BY ONLY <2>1, <2>2, Zenon
<1>7. LIndex(off(x), region.count) \in 0..GridSize(region.count) - 1
  BY ONLY <1>a, <1>b, Zenon
<1>8. ASSUME PlaceIn(d, region, x) = PlaceIn(d, region, y) PROVE x = y
  <2>1. ASSUME NEW i \in 1..n PROVE off(x)[i] = off(y)[i]
    <3>1. /\ DimList(region.count, LIndex(off(x), region.count))[i] = off(x)[i]
          /\ DimList(region.count, LIndex(off(y), region.count))[i] = off(y)[i]
      BY ONLY <1>a, <1>b, i \in 1..n, Zenon
    <3>2. QED
      BY <1>2, <1>8, <3>1
  <2>2. ASSUME NEW i \in 1..n PROVE At(x)[i] = At(y)[i]
    <3>1. PICK a \in Int, b \in Int, s \in Nat : a = At(x)[i] /\ b = At(y)[i] /\ s = region.start[i]
      BY <1>5, Zenon
    <3>2. a - s = b - s
      BY <1>5, <2>1, <3>1, Zenon
    <3>3. a = b
      BY ONLY <3>2, a \in Int, b \in Int, s \in Nat
    <3>4. QED
      BY <3>1, <3>3
  <2>3. At(x) = At(y)
    BY <1>3, <2>2, Zenon
  <2>4. LIndex(At(x), d.gdims) = x /\ LIndex(At(y), d.gdims) = y
    BY <1>1, CellOfCoordinates DEF At
  <2>5. QED
    BY <2>3, <2>4
<1>9. QED
  BY <1>2, <1>7, <1>8

\* What a process sends to an I/O process.
LEMMA BoxSentIs ==
  ASSUME NEW d, WellFormed(d), CellsApart(d),
         \A e : IsElement(d, e) => \E q \in IoProcs(d) : Holds(d, Boxes(d)[q], e.cell),
         NEW p \in Procs(d), NEW r \in IoProcs(d)
  PROVE  LET list == BoxSent(d)[p][r]
         IN  /\ Len(list) \in Nat /\ DOMAIN list = 1..Len(list)
             /\ \A k \in 1..Len(list) : /\ IsElement(d, list[k]) /\ list[k].from = p
                                        /\ Holds(d, Boxes(d)[r], list[k].cell)
             /\ \A k, l \in 1..Len(list) : list[k] = list[l] => k = l
<1> DEFINE own == Elements(d, p)
           S == {k \in 1..Len(own) : r = Min({q \in IoProcs(d) : Holds(d, Boxes(d)[q], own[k].cell)})}
           L == BoxSent(d)[p][r]
<1>1. /\ Len(own) \in Nat /\ DOMAIN own = 1..Len(own)
      /\ \A k \in 1..Len(own) : IsElement(d, own[k]) /\ own[k].from = p
      /\ \A k, l \in 1..Len(own) : own[k] = own[l] => k = l
  BY ElementsOf, Zenon
<1>2. L = Selected(own, S)
  BY <1>1 DEF BoxSent
<1> HIDE DEF own, L
<1>3. ASSUME NEW k \in S PROVE k \in 1..Len(own) /\ Holds(d, Boxes(d)[r], own[k].cell)
  <2> DEFINE Q == {q \in IoProcs(d) : Holds(d, Boxes(d)[q], own[k].cell)}
  <2>1. k \in 1..Len(own) /\ r = Min(Q)
    OBVIOUS
  <2>2. Q # {}
    BY <1>1, <2>1
  <2>3. IoProcs(d) = 0..NIo(d) - 1 /\ NIo(d) \in Nat
    BY DEF WellFormed
  <2>4. Q \in SUBSET Nat
    BY <2>3, SMTT(30)
  <2>5. Min(Q) \in Q
    <3> HIDE DEF Q
    <3> QED BY <2>2, <2>4, MinOf, SMTT(30)
  <2>6. QED
    BY <2>1, <2>5
<1>4. S \in SUBSET (1..Len(own))
  BY SMTT(30)
<1> HIDE DEF S
<1>5. PICK n \in Nat : n = Len(own)
  BY <1>1, Zenon
<1>6. /\ Len(L) \in Nat /\ DOMAIN L = 1..Len(L)
      /\ \A k \in 1..Len(L) : Nth(S, k) \in S /\ L[k] = own[Nth(S, k)]
      /\ \A k, l \in 1..Len(L) : Nth(S, k) = Nth(S, l) => k = l
  <2>1. S \in SUBSET (1..n)
    BY <1>4, <1>5
  <2>2. QED
    BY ONLY <1>2, <2>1, SelectedAre, n \in Nat, Zenon
<1>7. ASSUME NEW k \in 1..Len(L)
      PROVE  /\ IsElement(d, L[k]) /\ L[k].from = p /\ Holds(d, Boxes(d)[r], L[k].cell)
             /\ L[k] = own[Nth(S, k)] /\ Nth(S, k) \in 1..Len(own)
  <2>1. Nth(S, k) \in S /\ L[k] = own[Nth(S, k)]
    BY <1>6, Zenon
  <2>2. QED
    BY <1>1, <1>3, <2>1, Zenon
<1>8. ASSUME NEW k \in 1..Len(L), NEW l \in 1..Len(L), L[k] = L[l] PROVE k = l
  <2>1. Nth(S, k) = Nth(S, l)
    BY <1>1, <1>7, <1>8, Zenon
  <2>2. QED
    BY <1>6, <2>1, Zenon
<1>9. QED
  BY <1>6, <1>7, <1>8, Zenon DEF L

\* BOX: every process sends each element to one block, where it has a place of its own.
LEMMA BoxHopFits ==
  ASSUME NEW d, WellFormed(d), CellsApart(d),
         \A e : IsElement(d, e) => \E q \in IoProcs(d) : Holds(d, Boxes(d)[q], e.cell)
  PROVE  HopFits(BoxHop(d, [r \in IoProcs(d) |-> GridSize(Boxes(d)[r].count)]))
<1> DEFINE llen == [r \in IoProcs(d) |-> GridSize(Boxes(d)[r].count)]
           hop == BoxHop(d, llen)
           P == Procs(d)
           sent(s, r) == BoxSent(d)[s][r]
           pos(s) == [r \in IoProcs(d) |-> Positions(sent(s, r))]
           place(s, r, k) == PlaceIn(d, Boxes(d)[r], sent(s, r)[k].cell)
           stored(r) == [s \in P |-> [k \in DOMAIN sent(s, r) |-> place(s, r, k)]]
<1>1. ASSUME NEW s \in P, NEW r \in IoProcs(d)
      PROVE  /\ Len(sent(s, r)) \in Nat /\ DOMAIN sent(s, r) = 1..Len(sent(s, r))
             /\ \A k \in 1..Len(sent(s, r)) : /\ IsElement(d, sent(s, r)[k]) /\ sent(s, r)[k].from = s
                                              /\ Holds(d, Boxes(d)[r], sent(s, r)[k].cell)
             /\ \A k, l \in 1..Len(sent(s, r)) : sent(s, r)[k] = sent(s, r)[l] => k = l
  BY BoxSentIs
<1>2. ASSUME NEW t \in P, IsIo(d, t) PROVE IoRank(d, t) \in IoProcs(d)
  BY <1>2, IoRankIsIo
<1>3. ASSUME NEW s \in P, NEW t \in P
      PROVE  /\ hop.snd[s][t] = IF IsIo(d, t) THEN DataTypes(pos(s))[IoRank(d, t)] ELSE <<>>
             /\ IsIo(d, t) => hop.rcv[t][s] = DataTypes(stored(IoRank(d, t)))[s]
             /\ ~IsIo(d, t) => hop.rcv[t][s] = <<>>
             /\ hop.slen[s] = Ndof(d)[s]
             /\ IsIo(d, t) => hop.rlen[t] = GridSize(Boxes(d)[IoRank(d, t)].count)
  <2>1. ASSUME NEW r \in IoProcs(d) PROVE BoxStored(d, r) = stored(r)
    BY DEF BoxStored, PlaceIn
  <2> HIDE DEF stored
  <2>2. hop.snd[s][t] = IF IsIo(d, t) THEN DataTypes(pos(s))[IoRank(d, t)] ELSE <<>>
    BY <1>2 DEF BoxHop
  <2>3. ASSUME IsIo(d, t) PROVE hop.rcv[t][s] = DataTypes(stored(IoRank(d, t)))[s]
    BY <1>2, <2>1, <2>3 DEF BoxHop
  <2>4. ASSUME ~IsIo(d, t) PROVE hop.rcv[t][s] = <<>>
    BY <2>4 DEF BoxHop, Nothing
  <2>5. hop.slen[s] = Ndof(d)[s] /\ (IsIo(d, t) => hop.rlen[t] = GridSize(Boxes(d)[IoRank(d, t)].count))
    BY <1>2 DEF BoxHop
  <2>6. QED
    BY <2>2, <2>3, <2>4, <2>5
<1>4. DOMAIN hop.slen = P /\ DOMAIN hop.rlen = P
  BY DEF BoxHop, Ndof
<1> HIDE DEF hop, sent
<1>5. ASSUME NEW s \in P, NEW r \in IoProcs(d), NEW k \in 1..Len(sent(s, r))
      PROVE  /\ sent(s, r)[k].pos \in 0..Ndof(d)[s] - 1
             /\ sent(s, r)[k].cell \in 0..GridSize(d.gdims) - 1
             /\ place(s, r, k) \in 0..GridSize(Boxes(d)[r].count) - 1
  <2> DEFINE e == sent(s, r)[k]
  <2>1. IsElement(d, e) /\ e.from = s /\ Holds(d, Boxes(d)[r], e.cell)
    BY <1>1
  <2> HIDE DEF e
  <2>2. e.pos \in 0..Ndof(d)[e.from] - 1 /\ e.cell \in 0..GridSize(d.gdims) - 1
    BY <2>1, ElementsApart
  <2>3. /\ Boxes(d)[r].start \in [1..Len(d.gdims) -> Nat]
        /\ Boxes(d)[r].count \in [1..Len(d.gdims) -> Nat]
    BY BoxesAre
  <2>4. PlaceIn(d, Boxes(d)[r], e.cell) \in 0..GridSize(Boxes(d)[r].count) - 1
    BY <2>1, <2>2, <2>3, PlaceInIs, Zenon
  <2>5. QED
    BY <2>1, <2>2, <2>4 DEF e
<1> HIDE DEF P, place
<1>6. ASSUME NEW s \in P, NEW r \in IoProcs(d)
      PROVE  /\ DataTypes(pos(s))[r] = [k \in 1..Len(sent(s, r)) |-> sent(s, r)[k].pos]
             /\ DataTypes(stored(r))[s] = [k \in 1..Len(sent(s, r)) |-> place(s, r, k)]
  <2>1. ASSUME NEW u \in P, NEW q \in IoProcs(d)
        PROVE  /\ pos(u)[q] = [k \in 1..Len(sent(u, q)) |-> sent(u, q)[k].pos]
               /\ stored(q)[u] = [k \in 1..Len(sent(u, q)) |-> place(u, q, k)]
               /\ pos(u)[q] \in Seq(Int) /\ stored(q)[u] \in Seq(Int)
    <3>1. /\ pos(u)[q] = [k \in 1..Len(sent(u, q)) |-> sent(u, q)[k].pos]
          /\ stored(q)[u] = [k \in 1..Len(sent(u, q)) |-> place(u, q, k)]
      BY <1>1 DEF Positions
    <3>2. \A k \in 1..Len(sent(u, q)) : sent(u, q)[k].pos \in Int /\ place(u, q, k) \in Int
      BY <1>5
    <3>3. Len(sent(u, q)) \in Nat
      BY <1>1
    <3> HIDE DEF pos, stored
    <3>4. /\ [k \in 1..Len(sent(u, q)) |-> sent(u, q)[k].pos] \in Seq(Int)
          /\ [k \in 1..Len(sent(u, q)) |-> place(u, q, k)] \in Seq(Int)
      BY <3>2, <3>3
    <3>5. QED
      BY <3>1, <3>4
  <2>2. DOMAIN pos(s) = IoProcs(d) /\ DOMAIN stored(r) = P
    OBVIOUS
  <2> HIDE DEF pos, stored
  <2>3. DataTypes(pos(s))[r] = pos(s)[r]
    BY <2>1, <2>2, TypesDescribeMessages, Zenon
  <2>4. DataTypes(stored(r))[s] = stored(r)[s]
    BY <2>1, <2>2, TypesDescribeMessages, Zenon
  <2>5. QED
    BY <2>1, <2>3, <2>4
<1> HIDE DEF pos, stored
<1>7. ASSUME NEW s \in P, NEW t \in P
      PROVE  /\ Len(hop.snd[s][t]) \in Nat /\ Len(hop.rcv[t][s]) = Len(hop.snd[s][t])
             /\ DOMAIN hop.snd[s][t] = 1..Len(hop.snd[s][t])
             /\ DOMAIN hop.rcv[t][s] = 1..Len(hop.snd[s][t])
             /\ \A k \in 1..Len(hop.snd[s][t]) :
                  /\ hop.snd[s][t][k] \in 0..hop.slen[s] - 1 /\ hop.rcv[t][s][k] \in 0..hop.rlen[t] - 1
                  /\ IsIo(d, t) /\ k \in 1..Len(sent(s, IoRank(d, t)))
                  /\ hop.rcv[t][s][k] = place(s, IoRank(d, t), k)
  <2>1. CASE ~IsIo(d, t)
    <3>1. hop.snd[s][t] = <<>> /\ hop.rcv[t][s] = <<>>
      BY <1>3, <2>1
    <3>2. QED
      BY <3>1
  <2>2. CASE IsIo(d, t)
    <3>1. PICK r \in IoProcs(d) : r = IoRank(d, t)
      BY <1>2, <2>2
    <3>2. /\ hop.snd[s][t] = [k \in 1..Len(sent(s, r)) |-> sent(s, r)[k].pos]
          /\ hop.rcv[t][s] = [k \in 1..Len(sent(s, r)) |-> place(s, r, k)]
          /\ hop.slen[s] = Ndof(d)[s] /\ hop.rlen[t] = GridSize(Boxes(d)[r].count)
      BY <1>3, <1>6, <2>2, <3>1, SMTT(30)
    <3>3. Len(sent(s, r)) \in Nat
      BY <1>1
    <3>4. /\ Len(hop.snd[s][t]) = Len(sent(s, r)) /\ DOMAIN hop.snd[s][t] = 1..Len(sent(s, r))
          /\ Len(hop.rcv[t][s]) = Len(sent(s, r)) /\ DOMAIN hop.rcv[t][s] = 1..Len(sent(s, r))
          /\ \A k \in 1..Len(sent(s, r)) : /\ hop.snd[s][t][k] = sent(s, r)[k].pos
                                           /\ hop.rcv[t][s][k] = place(s, r, k)
      BY <3>2, <3>3
    <3>5. \A k \in 1..Len(sent(s, r)) : /\ hop.snd[s][t][k] \in 0..hop.slen[s] - 1
                                        /\ hop.rcv[t][s][k] \in 0..hop.rlen[t] - 1
      BY <1>5, <3>2, <3>4
    <3>6. QED
      BY <2>2, <3>1, <3>3, <3>4, <3>5
  <2>3. QED
    BY <2>1, <2>2
<1>8. Messages(hop, P)
  BY <1>4, <1>7, Zenon DEF Messages
<1>9. ASSUME NEW t \in P, NEW s \in P, NEW u \in P,
             NEW k \in 1..Len(hop.snd[s][t]), NEW l \in 1..Len(hop.snd[u][t]),
             hop.rcv[t][s][k] = hop.rcv[t][u][l]
      PROVE  s = u /\ k = l
  <2>1. PICK r \in IoProcs(d) : r = IoRank(d, t)
    BY <1>2, <1>7
  <2>2. /\ k \in 1..Len(sent(s, r)) /\ l \in 1..Len(sent(u, r))
        /\ hop.rcv[t][s][k] = place(s, r, k) /\ hop.rcv[t][u][l] = place(u, r, l)
    BY <1>7, <2>1, Zenon
  <2> DEFINE e == sent(s, r)[k]
             f == sent(u, r)[l]
  <2>3. /\ IsElement(d, e) /\ e.from = s /\ Holds(d, Boxes(d)[r], e.cell)
        /\ IsElement(d, f) /\ f.from = u /\ Holds(d, Boxes(d)[r], f.cell)
        /\ e.cell \in 0..GridSize(d.gdims) - 1 /\ f.cell \in 0..GridSize(d.gdims) - 1
    BY <1>1, <1>5, <2>2, Zenon
  <2>4. PlaceIn(d, Boxes(d)[r], e.cell) = PlaceIn(d, Boxes(d)[r], f.cell)
    BY <1>9, <2>2, Zenon DEF place
  <2>5. /\ Boxes(d)[r].start \in [1..Len(d.gdims) -> Nat]
        /\ Boxes(d)[r].count \in [1..Len(d.gdims) -> Nat]
    BY BoxesAre, Zenon
  <2> HIDE DEF e, f
  <2>6. e.cell = f.cell
    BY <2>3, <2>4, <2>5, PlaceInIs
  <2>7. e = f
    BY <2>3, <2>6, ElementsApart
  <2>8. s = u
    BY <2>3, <2>7
  <2>9. k = l
    BY <1>1, <2>2, <2>7, <2>8 DEF e, f
  <2>10. QED
    BY <2>8, <2>9
<1>10. NoneMeet(hop, P)
  BY <1>9, Zenon DEF NoneMeet
<1>11. HopFits(hop)
  BY <1>8, <1>10, HopFitsIf
<1>12. QED
  BY <1>11 DEF hop

-----------------------------------------------------------------------------
(***************************************************************************)
(* CalcStartandCount: the blocks tile the array.  The processes are seen   *)
(* as the cells of an array of their own, and the coordinates of a process *)
(* in it give its layer in each outer dimension and its share of the one   *)
(* that is split.                                                          *)
(***************************************************************************)
\* The layers of some outer dimensions are a multiple of those of fewer.
LEMMA LayersNest ==
  ASSUME NEW dims \in Lengths, NEW m \in 1..Len(dims)
  PROVE  \A i \in 1..m : \E x \in Nat \ {0} : LayersOf(dims)[m] = LayersOf(dims)[i] * x
<1> DEFINE f == LayersOf(dims)
           S == {i \in 1..m : \E x \in Nat \ {0} : f[m] = f[i] * x}
<1>1. /\ \A i \in 0..Len(dims) : f[i] \in Nat \ {0}
      /\ \A i \in 1..Len(dims) : f[i] = f[i - 1] * dims[i]
  BY LayersAre
<1>2. Len(dims) \in Nat \ {0} /\ \A i \in 1..Len(dims) : dims[i] \in Nat \ {0}
  BY LengthsType
<1>3. m \in Nat \ {0} /\ m <= Len(dims)
  BY <1>2
<1> HIDE DEF f
<1>4. m \in S
  <2>1. PICK a \in Nat : a = f[m]
    BY <1>1, <1>2, <1>3
  <2>2. a = a * 1
    OBVIOUS
  <2>3. QED
    BY <1>3, <2>1, <2>2
<1>5. ASSUME NEW i \in 1..m - 1, i + 1 \in S PROVE i \in S
  <2>1. PICK x \in Nat \ {0} : f[m] = f[i + 1] * x
    BY <1>5
  <2>2. i \in 0..Len(dims) /\ i + 1 \in 1..Len(dims) /\ (i + 1) - 1 = i /\ i \in 1..m
    BY <1>2, <1>3
  <2>3. PICK a \in Nat \ {0}, b \in Nat \ {0} : a = f[i] /\ b = dims[i + 1]
    BY <1>1, <1>2, <2>2, Zenon
  <2>4. f[i + 1] = a * b
    BY ONLY <1>1, <2>2, <2>3
  <2>5. f[m] = a * (b * x) /\ b * x \in Nat \ {0}
    <3>1. (a * b) * x = a * (b * x) /\ b * x \in Nat \ {0}
      BY ONLY a \in Nat \ {0}, b \in Nat \ {0}, x \in Nat \ {0}
    <3>2. QED
      BY ONLY <2>1, <2>4, <3>1
  <2>6. QED
    BY <2>2, <2>3, <2>5
<1>6. S = 1..m
  <2> HIDE DEF S
  <2>1. S \in SUBSET (1..m)
    BY DEF S
  <2>2. QED
    BY <1>3, <1>4, <1>5, <2>1, InductDown
<1>7. QED
  BY <1>6 DEF f

\* A factor of two equal products can be left out.
LEMMA Cancel ==
  ASSUME NEW a \in Nat \ {0}, NEW x \in Nat, NEW y \in Nat, a * x = a * y
  PROVE  x = y
<1>1. PICK u \in Nat : u = a * x
  OBVIOUS
<1>2. a * x <= u /\ u < a * x + a
  BY <1>1
<1>3. a * y <= u /\ u < a * y + a
  BY <1>1
<1>4. u \div a = x
  BY ONLY <1>2, Quotient, a \in Nat \ {0}, x \in Nat, u \in Nat
<1>5. u \div a = y
  BY ONLY <1>3, Quotient, a \in Nat \ {0}, y \in Nat, u \in Nat
<1>6. QED
  BY <1>4, <1>5

\* The processes are divided into as many equal groups as each outer dimension has layers,
\* until a dimension has a layer for each of them.
LEMMA Splits ==
  ASSUME NEW dims \in Lengths, NEW nio \in Nat \ {0}, NEW typesize \in Nat \ {0},
         NEW blocksize \in Nat \ {0}, typesize <= blocksize
  PROVE  LET use == UseIOProcs(dims, nio, typesize, blocksize)
             last == SplitAt(dims, use)
             p == ProcsLeft(dims, use)
         IN  /\ last \in 1..Len(dims) /\ p[last] <= dims[last]
             /\ \A i \in 1..last - 1 : p[i] = p[i + 1] * dims[i]
<1> DEFINE n == Len(dims)
           use == UseIOProcs(dims, nio, typesize, blocksize)
           wanted == Wanted(dims, nio, typesize, blocksize)
           f == LayersOf(dims)
           p == ProcsLeft(dims, use)
           last == SplitAt(dims, use)
<1>1. n \in Nat \ {0} /\ \A i \in 1..n : dims[i] \in Nat \ {0}
  BY LengthsType
<1>2. /\ f[0] = 1 /\ \A i \in 0..n : f[i] \in Nat \ {0}
      /\ \A i \in 1..n : f[i] = f[i - 1] * dims[i]
  BY LayersAre
<1>3. /\ use \in Nat \ {0} /\ use <= wanted
      /\ \E m \in 0..n : /\ \E q \in Nat \ {0} : use = f[m] * q
                         /\ m < n => wanted <= f[m + 1]
  BY UseIOProcsAre, Zenon
<1>4. wanted \in Nat /\ wanted <= f[n]
  <2>1. wanted \in 1..nio /\ wanted <= GridSize(dims)
    BY WantedIs
  <2>2. QED
    BY <2>1, LayersAndChunks
<1>5. \A i \in 1..n : \A m \in 1..n : i <= m => \E x \in Nat \ {0} : f[m] = f[i] * x
  <2>1. ASSUME NEW i \in 1..n, NEW m \in 1..n, i <= m PROVE \E x \in Nat \ {0} : f[m] = f[i] * x
    <3>1. i \in 1..m
      BY <1>1, <2>1
    <3>2. QED
      BY <3>1, LayersNest
  <2>2. QED
    BY <2>1
<1> HIDE DEF use, f, n, wanted
<1>6. /\ \A i \in 1..n : p[i] \in Nat \ {0}
      /\ p[1] = use
      /\ \A i \in 1..n - 1 : p[i + 1] = IF dims[i] < p[i] THEN p[i] \div dims[i] ELSE p[i]
  BY <1>3, ProcsLeftAre DEF n
<1>7. /\ last \in 1..n + 1 /\ (last <= n => p[last] <= dims[last])
      /\ \A i \in 1..n : i < last => dims[i] < p[i]
  BY <1>3, SplitAtIs, Zenon DEF n
<1> HIDE DEF p, last
<1>8. PICK m \in 0..n : /\ \E q \in Nat \ {0} : use = f[m] * q
                        /\ m < n => wanted <= f[m + 1]
  BY <1>3
<1>9. PICK q \in Nat \ {0} : use = f[m] * q
  BY <1>8
<1> DEFINE S == {i \in Nat : i + 1 <= last /\ i + 1 <= n =>
                   /\ i <= m /\ p[i + 1] * f[i] = use
                   /\ i >= 1 => p[i] = p[i + 1] * dims[i]}
<1>10. 0 \in S
  <2>1. use * 1 = use
    BY <1>3
  <2>2. QED
    BY <1>1, <1>2, <1>6, <2>1
<1>11. ASSUME NEW i \in S PROVE i + 1 \in S
  <2>1. SUFFICES ASSUME i + 2 <= last, i + 2 <= n
                 PROVE  /\ i + 1 <= m /\ p[i + 2] * f[i + 1] = use
                        /\ p[i + 1] = p[i + 2] * dims[i + 1]
    OBVIOUS
  <2>2. /\ i \in Nat /\ i + 1 \in 1..n - 1 /\ i + 1 \in 1..n /\ i + 2 \in 1..n /\ (i + 1) + 1 = i + 2
        /\ (i + 1) - 1 = i /\ i \in 0..n /\ i + 1 \in 0..n /\ i + 1 < last
        /\ i + 1 <= last /\ i + 1 <= n /\ i < n
    BY <1>1, <1>7, <2>1
  <2>3. i <= m /\ p[i + 1] * f[i] = use
    BY <2>1, <2>2
  <2>4. PICK a \in Nat \ {0}, b \in Nat \ {0}, g \in Nat \ {0} :
          a = f[i] /\ b = p[i + 1] /\ g = dims[i + 1]
    BY <1>1, <1>2, <1>6, <2>2, Zenon
  <2>5. g < b /\ p[i + 2] = b \div g /\ f[i + 1] = a * g /\ b * a = use
    <3>1. dims[i + 1] < p[i + 1]
      BY ONLY <1>7, <2>2
    <3>2. p[i + 2] = p[i + 1] \div dims[i + 1]
      BY ONLY <1>6, <2>2, <3>1
    <3>3. f[i + 1] = f[i] * dims[i + 1]
      BY ONLY <1>2, <2>2
    <3>4. QED
      BY ONLY <2>3, <2>4, <3>1, <3>2, <3>3
  <2>6. f[i + 1] < use
    <3>1. PICK k \in Nat \ {0} : b = g + k
      BY <2>5
    <3>2. b * a = a * g + a * k /\ a * k \in Nat \ {0} /\ a * g \in Nat
      BY <3>1
    <3>3. QED
      BY <2>5, <3>2
  <2>7. i + 1 <= m
    <3>1. SUFFICES ASSUME i = m PROVE FALSE
      BY <2>2, <2>3
    <3>2. wanted <= f[i + 1]
      BY <1>8, <2>2, <3>1
    <3>3. PICK x \in Nat : x = f[i + 1]
      BY <1>2, <2>2
    <3>4. QED
      BY <1>3, <1>4, <2>6, <3>2, <3>3
  <2>8. PICK x \in Nat \ {0} : f[m] = f[i + 1] * x
    <3>1. m \in 1..n
      BY <2>2, <2>7
    <3>2. QED
      BY <1>5, <2>2, <2>7, <3>1
  <2>9. PICK y \in Nat \ {0} : y = x * q
    OBVIOUS
  <2>10. b = g * y
    <3>1. a * b = a * (g * y)
      <4>1. ((a * g) * x) * q = a * (g * (x * q)) /\ a * b = b * a
        BY ONLY a \in Nat, g \in Nat, x \in Nat, q \in Nat, b \in Nat
      <4>2. QED
        BY ONLY <1>9, <2>5, <2>8, <2>9, <4>1
    <3>2. g * y \in Nat
      OBVIOUS
    <3>3. QED
      BY ONLY <3>1, <3>2, Cancel, a \in Nat \ {0}, b \in Nat
  <2>11. b \div g = y
    <3>1. g * y <= b /\ b < g * y + g
      BY <2>10
    <3>2. QED
      BY <3>1, Quotient
  <2>12. p[i + 2] = y
    BY <2>5, <2>11
  <2>13. y * (a * g) = b * a /\ b = y * g
    <3>1. y * (a * g) = (g * y) * a /\ y * g = g * y
      BY ONLY a \in Nat, g \in Nat, y \in Nat
    <3>2. QED
      BY ONLY <2>10, <3>1
  <2>14. QED
    BY ONLY <2>4, <2>5, <2>7, <2>12, <2>13
<1>12. S = Nat
  <2> HIDE DEF S
  <2>1. S \in SUBSET Nat
    BY DEF S
  <2>2. QED
    BY <1>10, <1>11, <2>1, Induct
<1>13. last <= n
  <2>1. SUFFICES ASSUME last = n + 1 PROVE FALSE
    BY <1>1, <1>7
  <2>2. n - 1 \in Nat /\ (n - 1) + 1 = n /\ n \in 1..n /\ n \in 0..n /\ n - 1 \in 0..n
    BY <1>1
  <2>3. n - 1 \in S
    BY <1>12, <2>2
  <2>4. n - 1 <= m /\ p[n] * f[n - 1] = use
    BY <2>1, <2>2, <2>3
  <2>5. PICK a \in Nat \ {0}, b \in Nat \ {0}, g \in Nat \ {0} :
          a = f[n - 1] /\ b = p[n] /\ g = dims[n]
    BY <1>1, <1>2, <1>6, <2>2, Zenon
  <2>6. g < b /\ f[n] = a * g /\ b * a = use
    <3>1. dims[n] < p[n]
      BY <1>7, <2>1, <2>2
    <3>2. f[n] = f[n - 1] * dims[n]
      BY ONLY <1>2, <2>2
    <3>3. QED
      BY ONLY <2>4, <2>5, <3>1, <3>2
  <2>7. PICK k \in Nat \ {0} : b = g + k
    BY <2>6
  <2>8. b * a = a * g + a * k /\ a * k \in Nat \ {0} /\ a * g \in Nat
    BY <2>7
  <2>9. QED
    BY <1>3, <1>4, <2>6, <2>8
<1>14. ASSUME NEW i \in 1..last - 1 PROVE p[i] = p[i + 1] * dims[i]
  <2>1. i \in Nat /\ i >= 1 /\ i + 1 <= last /\ i + 1 <= n
    BY <1>1, <1>7, <1>13
  <2>2. i \in S
    BY <1>12, <2>1, Zenon
  <2>3. QED
    BY <2>1, <2>2
<1>15. last \in 1..n /\ p[last] <= dims[last]
  BY <1>1, <1>7, <1>13
<1>16. QED
  BY <1>14, <1>15, Zenon DEF last, p, n, use

\* Only the rest of the rank counts.
LEMMA OneDimRest ==
  ASSUME NEW gdim \in Nat, NEW n \in Nat \ {0}, NEW rank \in Nat
  PROVE  OneDim(gdim, n, rank) = OneDim(gdim, n, rank % n)
<1>1. PICK r \in 0..n - 1 : r = rank % n
  BY Division
<1>2. r % n = r
  BY SmallRemainder
<1>3. QED
  BY ONLY <1>1, <1>2, Zenon DEF OneDim

\* With a process for each layer of a dimension everybody gets one.
LEMMA OneDimEach ==
  ASSUME NEW g \in Nat \ {0}, NEW rank \in Nat
  PROVE  OneDim(g, g, rank).start = rank % g /\ OneDim(g, g, rank).count = 1
<1>1. PICK r \in 0..g - 1 : r = rank % g
  BY Division
<1>2. g \div g = 1 /\ g % g = 0
  <2>1. g * 1 = g
    OBVIOUS
  <2>2. g \div g = 1
    BY <2>1, Quotient
  <2>3. g % g \in 0..g - 1 /\ g = g * (g \div g) + (g % g)
    BY Division
  <2>4. PICK x \in 0..g - 1 : x = g % g
    BY <2>3
  <2>5. g = g + x
    BY <2>1, <2>2, <2>3, <2>4
  <2>6. QED
    BY <2>2, <2>4, <2>5
<1>3. /\ OneDim(g, g, r).start = (g \div g) * r + (IF r + (g % g) > g THEN r + (g % g) - g ELSE 0)
      /\ OneDim(g, g, r).count = IF r + (g % g) >= g THEN (g \div g) + 1 ELSE g \div g
  BY OneDimShare
<1>4. OneDim(g, g, r).start = r /\ OneDim(g, g, r).count = 1
  <2>1. 1 * r + (IF r + 0 > g THEN r + 0 - g ELSE 0) = r
    OBVIOUS
  <2>2. ~(r + 0 >= g)
    OBVIOUS
  <2>3. QED
    BY ONLY <1>2, <1>3, <2>1, <2>2
<1>5. OneDim(g, g, rank) = OneDim(g, g, r)
  BY <1>1, OneDimRest
<1>6. QED
  BY ONLY <1>1, <1>4, <1>5

\* Every layer of a dimension is in exactly one of its shares, and the shares lie in it.
InShare(c, gdim, n, r) ==
  c \in OneDim(gdim, n, r).start..OneDim(gdim, n, r).start + OneDim(gdim, n, r).count - 1

LEMMA SharesTile ==
  ASSUME NEW gdim \in Nat, NEW n \in Nat \ {0}
  PROVE  /\ \A c \in 0..gdim - 1 : \E r \in 0..n - 1 : InShare(c, gdim, n, r)
         /\ \A c \in Int : \A r, s \in 0..n - 1 :
              InShare(c, gdim, n, r) /\ InShare(c, gdim, n, s) => r = s
         /\ \A r \in 0..n - 1 : OneDim(gdim, n, r).start + OneDim(gdim, n, r).count <= gdim
<1> DEFINE from(r) == OneDim(gdim, n, r).start
           to(r) == OneDim(gdim, n, r).start + OneDim(gdim, n, r).count
<1>1. /\ from(0) = 0 /\ to(n - 1) = gdim
      /\ \A r \in 0..n - 2 : from(r + 1) = to(r)
  BY OneDimTiles
<1>2. \A r \in 0..n - 1 : from(r) \in Nat /\ OneDim(gdim, n, r).count \in Nat
  BY OneDimType
<1>3. \A r \in 0..n - 1 : to(r) \in Nat /\ from(r) <= to(r)
  <2> SUFFICES ASSUME NEW r \in 0..n - 1 PROVE to(r) \in Nat /\ from(r) <= to(r)
    OBVIOUS
  <2>1. PICK a \in Nat, b \in Nat : a = from(r) /\ b = OneDim(gdim, n, r).count
    BY <1>2
  <2>2. to(r) = a + b
    BY <2>1
  <2> HIDE DEF from, to
  <2>3. QED
    BY ONLY <2>1, <2>2
<1>4. \A r \in 0..n - 1 : from(r) \in Nat
  BY <1>2
<1>a. ASSUME NEW c, NEW r \in 0..n - 1 PROVE InShare(c, gdim, n, r) <=> c \in from(r)..to(r) - 1
  <2>1. PICK a \in Nat, b \in Nat : a = from(r) /\ b = OneDim(gdim, n, r).count
    BY <1>2
  <2>2. InShare(c, gdim, n, r) <=> c \in a..a + b - 1
    BY <2>1 DEF InShare
  <2>3. to(r) - 1 = a + b - 1
    BY <2>1
  <2>4. QED
    BY <2>1, <2>2, <2>3
<1>b. \A r : to(r) = OneDim(gdim, n, r).start + OneDim(gdim, n, r).count
  OBVIOUS
<1> HIDE DEF from, to
<1>5. ASSUME NEW r \in 0..n - 1, NEW s \in 0..n - 1, r < s PROVE to(r) <= from(s)
  <2> DEFINE S == {k \in Nat : r + 1 + k <= n - 1 => to(r) <= from(r + 1 + k)}
  <2>1. 0 \in S
    <3>1. r \in 0..n - 2 /\ r + 1 + 0 = r + 1
      BY <1>5
    <3>2. from(r + 1 + 0) = to(r)
      BY <1>1, <3>1
    <3>3. to(r) \in Nat
      BY <1>3
    <3>4. QED
      BY <3>2, <3>3
  <2>2. ASSUME NEW k \in S PROVE k + 1 \in S
    <3>1. SUFFICES ASSUME r + 1 + (k + 1) <= n - 1 PROVE to(r) <= from(r + 1 + (k + 1))
      OBVIOUS
    <3>2. PICK h \in 0..n - 2 : h = r + 1 + k /\ h + 1 = r + 1 + (k + 1) /\ h \in 0..n - 1 /\ k \in Nat
                                /\ r + 1 + k <= n - 1
      BY <3>1
    <3>3. to(r) <= from(h)
      BY <3>2
    <3>4. from(h + 1) = to(h) /\ from(h) <= to(h)
      BY <1>1, <1>3, <3>2
    <3>5. to(r) \in Nat /\ from(h) \in Nat /\ to(h) \in Nat
      BY <1>3, <1>4, <3>2
    <3>6. to(r) <= from(h + 1)
      BY ONLY <3>3, <3>4, <3>5
    <3>7. QED
      BY ONLY <3>2, <3>6
  <2>3. S = Nat
    <3> HIDE DEF S
    <3>1. S \in SUBSET Nat
      BY DEF S
    <3>2. QED
      BY <2>1, <2>2, <3>1, Induct
  <2>4. PICK k \in Nat : s = r + 1 + k /\ r + 1 + k <= n - 1
    <3>1. s - (r + 1) \in Nat /\ s = r + 1 + (s - (r + 1))
      BY <1>5
    <3>2. QED
      BY <3>1
  <2>5. k \in S
    <3> HIDE DEF S
    <3> QED BY <2>3
  <2>6. QED
    BY <2>4, <2>5
<1>6. ASSUME NEW c \in 0..gdim - 1 PROVE \E r \in 0..n - 1 : c \in from(r)..to(r) - 1
  <2> DEFINE T == {r \in 0..n - 1 : c < to(r)}
  <2>1. n - 1 \in T
    BY <1>1
  <2>2. T \in SUBSET Nat /\ T # {}
    BY <2>1
  <2> HIDE DEF T
  <2>3. PICK r \in T : \A s \in T : r <= s
    BY <2>2, LeastOf
  <2>4. r \in 0..n - 1 /\ c < to(r)
    BY <2>3 DEF T
  <2>5. from(r) <= c
    <3>1. CASE r = 0
      BY <1>1, <3>1
    <3>2. CASE r # 0
      <4>1. PICK h \in 0..n - 2 : r = h + 1 /\ h \in 0..n - 1 /\ ~(r <= h)
        <5>1. r - 1 \in 0..n - 2 /\ r = (r - 1) + 1 /\ r - 1 \in 0..n - 1 /\ ~(r <= r - 1)
          BY <2>4, <3>2
        <5>2. QED
          BY <5>1
      <4>2. ~(c < to(h))
        BY <2>3, <4>1 DEF T
      <4>3. from(r) = to(h) /\ to(h) \in Nat
        BY <1>1, <1>3, <4>1
      <4>4. QED
        BY <4>2, <4>3
    <3>3. QED
      BY <3>1, <3>2
  <2>6. c \in from(r)..to(r) - 1
    <3>1. PICK a \in Nat, b \in Nat : a = from(r) /\ b = to(r)
      BY <1>3, <1>4, <2>4
    <3>2. QED
      BY <2>4, <2>5, <3>1
  <2>7. QED
    BY <2>4, <2>6
<1>7. ASSUME NEW c \in Int, NEW r \in 0..n - 1, NEW s \in 0..n - 1,
             c \in from(r)..to(r) - 1, c \in from(s)..to(s) - 1
      PROVE  r = s
  <2>1. PICK a \in Nat, b \in Nat, x \in Nat, y \in Nat :
          a = from(r) /\ b = to(r) /\ x = from(s) /\ y = to(s)
    BY <1>3, <1>4
  <2>2. a <= c /\ c < b /\ x <= c /\ c < y
    BY <1>7, <2>1
  <2>3. ~(r < s)
    <3>1. r < s => b <= x
      BY <1>5, <2>1
    <3>2. QED
      BY ONLY <2>2, <3>1, a \in Nat, b \in Nat, x \in Nat, y \in Nat, c \in Int
  <2>4. ~(s < r)
    <3>1. s < r => y <= a
      BY <1>5, <2>1
    <3>2. QED
      BY ONLY <2>2, <3>1, a \in Nat, b \in Nat, x \in Nat, y \in Nat, c \in Int
  <2>5. QED
    BY <2>3, <2>4
<1>8. ASSUME NEW r \in 0..n - 1 PROVE to(r) <= gdim
  <2>1. CASE r = n - 1
    BY <1>1, <2>1
  <2>2. CASE r # n - 1
    <3>1. n - 1 \in 0..n - 1 /\ r < n - 1
      BY <2>2
    <3>2. to(r) <= from(n - 1) /\ from(n - 1) <= to(n - 1)
      BY <1>3, <1>5, <3>1
    <3>3. to(r) \in Nat /\ from(n - 1) \in Nat
      BY <1>3, <1>4, <3>1
    <3>4. QED
      BY <1>1, <3>2, <3>3
  <2>3. QED
    BY <2>1, <2>2
<1>9. QED
  BY ONLY <1>6, <1>7, <1>8, <1>a, <1>b, Zenon

\* The processes as the cells of an array of their own: a layer for each layer of the outer
\* dimensions, and in the one they share a place for each share.
SplitsEvenly(dims, use) ==
  /\ use \in Nat \ {0}
  /\ SplitAt(dims, use) \in 1..Len(dims)
  /\ ProcsLeft(dims, use)[SplitAt(dims, use)] <= dims[SplitAt(dims, use)]
  /\ \A i \in 1..SplitAt(dims, use) - 1 :
       ProcsLeft(dims, use)[i] = ProcsLeft(dims, use)[i + 1] * dims[i]

ProcDims(dims, use) ==
  [i \in 1..SplitAt(dims, use) |->
     IF i = SplitAt(dims, use) THEN ProcsLeft(dims, use)[i] ELSE dims[i]]

LEMMA ProcDimsAre ==
  ASSUME NEW dims \in Lengths, NEW use, SplitsEvenly(dims, use)
  PROVE  LET last == SplitAt(dims, use)
             chunk == ChunkSizes(ProcDims(dims, use))
         IN  /\ ProcDims(dims, use) \in Lengths /\ Len(ProcDims(dims, use)) = last
             /\ \A i \in 1..last - 1 : chunk[i] = ProcsLeft(dims, use)[i + 1]
             /\ chunk[last] = 1
             /\ GridSize(ProcDims(dims, use)) = use
<1> DEFINE n == Len(dims)
           last == SplitAt(dims, use)
           p == ProcsLeft(dims, use)
           pd == ProcDims(dims, use)
           c == ChunkSizes(pd)
<1>1. n \in Nat \ {0} /\ \A i \in 1..n : dims[i] \in Nat \ {0}
  BY LengthsType
<1>2. /\ use \in Nat \ {0} /\ last \in 1..n
      /\ \A i \in 1..last - 1 : p[i] = p[i + 1] * dims[i]
  BY DEF SplitsEvenly
<1>3. (\A i \in 1..n : p[i] \in Nat \ {0}) /\ p[1] = use
  BY <1>2, ProcsLeftAre
<1>4. pd = [i \in 1..last |-> IF i = last THEN p[i] ELSE dims[i]]
  BY DEF ProcDims
<1> HIDE DEF n, last, p, pd, c
<1>5. last \in Nat \ {0} /\ \A i \in 1..last : i \in 1..n
  BY <1>1, <1>2
<1>6. \A i \in 1..last : pd[i] = (IF i = last THEN p[i] ELSE dims[i]) /\ pd[i] \in Nat \ {0}
  BY <1>1, <1>3, <1>4, <1>5
<1>7. pd \in Lengths /\ Len(pd) = last
  <2>1. pd = [i \in 1..last |-> pd[i]]
    BY <1>4
  <2>2. pd \in Seq(Nat \ {0}) /\ Len(pd) = last
    <3>1. pd \in [1..last -> Nat \ {0}]
      BY <1>6, <2>1
    <3>2. QED
      BY <1>5, <3>1
  <2>3. pd # <<>>
    BY <1>5, <2>2
  <2>4. QED
    BY <2>2, <2>3 DEF Lengths
<1>8. /\ c[last] = 1 /\ \A i \in 1..last : c[i] \in Nat \ {0}
      /\ \A i \in 1..last - 1 : c[i] = c[i + 1] * pd[i + 1]
  BY <1>7, ChunkSizesAre DEF c
<1> DEFINE S == {i \in 1..last : c[i] = IF i = last THEN 1 ELSE p[i + 1]}
<1>9. last \in S
  BY <1>5, <1>8
<1>10. ASSUME NEW i \in 1..last - 1, i + 1 \in S PROVE i \in S
  <2>1. i \in 1..last /\ i # last /\ i + 1 \in 1..last /\ i + 1 \in 1..n
    BY <1>5
  <2>2. c[i] = c[i + 1] * pd[i + 1]
    BY <1>8
  <2>3. PICK a \in Nat \ {0} : a = p[i + 1]
    BY <1>3, <2>1
  <2>4. CASE i + 1 = last
    <3>1. c[i + 1] = 1 /\ pd[i + 1] = a
      BY <1>6, <1>8, <2>1, <2>3, <2>4
    <3>2. 1 * a = a
      OBVIOUS
    <3>3. QED
      BY ONLY <2>1, <2>2, <2>3, <3>1, <3>2
  <2>5. CASE i + 1 # last
    <3>1. c[i + 1] = p[(i + 1) + 1] /\ pd[i + 1] = dims[i + 1] /\ i + 1 \in 1..last - 1
      BY <1>5, <1>6, <1>10, <2>1, <2>5
    <3>2. p[i + 1] = p[(i + 1) + 1] * dims[i + 1]
      BY <1>2, <3>1
    <3>3. c[i] = p[i + 1]
      BY ONLY <2>2, <3>1, <3>2
    <3>4. QED
      BY ONLY <2>1, <3>3
  <2>6. QED
    BY <2>4, <2>5
<1>11. S = 1..last
  <2> HIDE DEF S
  <2>1. S \in SUBSET (1..last)
    BY DEF S
  <2>2. QED
    BY <1>5, <1>9, <1>10, <2>1, InductDown
<1>12. \A i \in 1..last - 1 : c[i] = p[i + 1]
  <2>1. ASSUME NEW i \in 1..last - 1 PROVE c[i] = p[i + 1]
    <3>1. i \in S /\ i # last
      BY <1>5, <1>11
    <3>2. QED
      BY <3>1
  <2>2. QED
    BY <2>1
<1>13. GridSize(pd) = use
  <2>1. GridSize(pd) = pd[1] * c[1]
    BY <1>7, GridSizeIs DEF c
  <2>2. CASE last = 1
    <3>1. pd[1] = use /\ c[1] = 1
      BY <1>3, <1>6, <1>8, <2>2
    <3>2. use * 1 = use
      BY <1>2
    <3>3. QED
      BY <2>1, <3>1, <3>2
  <2>3. CASE last # 1
    <3>1. 1 \in 1..last - 1 /\ 1 \in 1..last /\ 2 \in 1..n /\ 1 \in 1..n /\ 1 + 1 = 2
      BY <1>5, <2>3
    <3>2. pd[1] = dims[1] /\ c[1] = p[2] /\ p[1] = p[2] * dims[1]
      BY <1>2, <1>6, <1>12, <2>3, <3>1
    <3>3. PICK a \in Nat, b \in Nat : a = p[2] /\ b = dims[1]
      BY <1>1, <1>3, <3>1
    <3>4. b * a = a * b
      OBVIOUS
    <3>5. QED
      BY ONLY <1>3, <2>1, <3>2, <3>3, <3>4
  <2>4. QED
    BY <2>2, <2>3
<1>14. QED
  BY <1>7, <1>8, <1>12, <1>13 DEF last, p, pd, c

\* The rank among the processes left differs from that among all by a multiple of their number.
LEMMA RankLeftRest ==
  ASSUME NEW dims \in Lengths, NEW use, SplitsEvenly(dims, use), NEW rank \in Nat
  PROVE  \A i \in 1..SplitAt(dims, use) :
           RankLeft(dims, use, rank)[i] % ProcsLeft(dims, use)[i] = rank % ProcsLeft(dims, use)[i]
<1> DEFINE n == Len(dims)
           last == SplitAt(dims, use)
           p == ProcsLeft(dims, use)
           t == RankLeft(dims, use, rank)
<1>1. n \in Nat \ {0} /\ \A i \in 1..n : dims[i] \in Nat \ {0}
  BY LengthsType
<1>2. /\ use \in Nat \ {0} /\ last \in 1..n
      /\ \A i \in 1..last - 1 : p[i] = p[i + 1] * dims[i]
  BY DEF SplitsEvenly
<1>3. \A i \in 1..n : p[i] \in Nat \ {0}
  BY <1>2, ProcsLeftAre
<1>4. /\ \A i \in 1..n : t[i] \in Nat
      /\ t[1] = rank
      /\ \A i \in 1..n - 1 : t[i + 1] = IF dims[i] > 1 THEN rank % p[i + 1] ELSE t[i]
  BY <1>2, RankLeftIs
<1> HIDE DEF n, last, p, t
<1> DEFINE S == {i \in Nat : i + 1 <= last => t[i + 1] % p[i + 1] = rank % p[i + 1]}
<1>5. 0 \in S
  BY <1>4
<1>6. ASSUME NEW i \in S PROVE i + 1 \in S
  <2>1. SUFFICES ASSUME i + 2 <= last PROVE t[i + 2] % p[i + 2] = rank % p[i + 2]
    OBVIOUS
  <2>2. /\ i \in Nat /\ i + 1 <= last /\ i + 1 \in 1..last - 1 /\ i + 1 \in 1..n - 1 /\ i + 1 \in 1..n
        /\ i + 2 \in 1..n /\ (i + 1) + 1 = i + 2
    BY <1>1, <1>2, <2>1
  <2>3. t[i + 1] % p[i + 1] = rank % p[i + 1]
    BY <2>2
  <2>4. PICK a \in Nat \ {0}, g \in Nat \ {0} : a = p[i + 2] /\ g = dims[i + 1]
    BY <1>1, <1>3, <2>2
  <2>5. t[i + 2] = IF g > 1 THEN rank % a ELSE t[i + 1]
    BY ONLY <1>4, <2>2, <2>4
  <2>6. p[i + 1] = a * g
    BY ONLY <1>2, <2>2, <2>4
  <2>7. CASE g > 1
    <3>1. PICK r \in 0..a - 1 : r = rank % a
      BY Division, Zenon
    <3>2. r % a = r
      BY SmallRemainder
    <3>3. QED
      BY ONLY <2>4, <2>5, <2>7, <3>1, <3>2
  <2>8. CASE g = 1
    <3>1. a * 1 = a
      OBVIOUS
    <3>2. ~(1 > 1)
      OBVIOUS
    <3>3. QED
      BY ONLY <2>3, <2>4, <2>5, <2>6, <2>8, <3>1, <3>2
  <2>9. QED
    BY <2>4, <2>7, <2>8
<1>7. S = Nat
  <2> HIDE DEF S
  <2>1. S \in SUBSET Nat
    BY DEF S
  <2>2. QED
    BY <1>5, <1>6, <2>1, Induct
<1>8. ASSUME NEW i \in 1..last PROVE t[i] % p[i] = rank % p[i]
  <2>1. PICK j \in Nat : i = j + 1 /\ j + 1 <= last
    <3>1. i - 1 \in Nat /\ i = (i - 1) + 1 /\ (i - 1) + 1 <= last
      BY <1>1, <1>2
    <3>2. QED
      BY ONLY <3>1
  <2>2. j \in S
    <3> HIDE DEF S
    <3> QED BY <1>7
  <2>3. QED
    BY <2>1, <2>2
<1>9. QED
  BY <1>8 DEF last, p, t

\* A process that shares a layer: rank * g divided by the processes of all layers gives its number
\* among the groups.
LEMMA GroupOfRank ==
  ASSUME NEW rank \in Nat, NEW g \in Nat \ {0}, NEW m \in Nat \ {0}
  PROVE  (rank * g) \div (m * g) = rank \div m
<1>1. PICK y \in Nat, r \in 0..m - 1 : y = rank \div m /\ rank = m * y + r
  <2>1. rank \div m \in Nat /\ rank % m \in 0..m - 1 /\ rank = m * (rank \div m) + (rank % m)
    BY Division, Zenon
  <2>2. QED
    BY ONLY <2>1, Zenon
<1>2. PICK a \in Nat \ {0}, b \in Nat : a = m * g /\ b = rank * g
  OBVIOUS
<1>3. PICK k \in Nat \ {0} : m = r + k
  <2>1. m - r \in Nat \ {0} /\ m = r + (m - r)
    OBVIOUS
  <2>2. QED
    BY <2>1
<1>4. b = a * y + r * g
  <2>1. (m * y + r) * g = (m * g) * y + r * g
    BY ONLY m \in Nat, y \in Nat, r \in Nat, g \in Nat
  <2>2. QED
    BY ONLY <1>1, <1>2, <2>1, Zenon
<1>5. a = r * g + k * g /\ k * g \in Nat \ {0} /\ r * g \in Nat
  <2>1. (r + k) * g = r * g + k * g /\ k * g \in Nat \ {0} /\ r * g \in Nat
    BY ONLY r \in Nat, k \in Nat \ {0}, g \in Nat \ {0}
  <2>2. QED
    BY ONLY <1>2, <1>3, <2>1
<1>6. PICK u \in Nat, v \in Nat \ {0}, w \in Nat : u = r * g /\ v = k * g /\ w = a * y
  BY <1>5
<1>7. w <= b /\ b < w + a
  BY ONLY <1>4, <1>5, <1>6
<1>8. b \div a = y
  BY ONLY <1>6, <1>7, Quotient, a \in Nat \ {0}, b \in Nat, y \in Nat
<1>9. QED
  BY ONLY <1>1, <1>2, <1>8

\* The block of a process that is in use: one layer of each outer dimension, the one that its
\* coordinate among the processes gives, a share of the dimension that is split, and all of the
\* inner ones.
HasParts(block, dims, use, rank) ==
  LET last == SplitAt(dims, use)
      at == DimList(ProcDims(dims, use), rank)
      share == OneDim(dims[last], ProcsLeft(dims, use)[last], at[last])
  IN  /\ \A i \in 1..last - 1 : block.start[i] = at[i] /\ block.count[i] = 1
      /\ block.start[last] = share.start /\ block.count[last] = share.count
      /\ \A i \in last + 1..Len(dims) : block.start[i] = 0 /\ block.count[i] = dims[i]

LEMMA BlockParts ==
  ASSUME NEW dims \in Lengths, NEW nio, NEW rank \in Nat, NEW typesize, NEW blocksize,
         SplitsEvenly(dims, UseIOProcs(dims, nio, typesize, blocksize)),
         rank < UseIOProcs(dims, nio, typesize, blocksize)
  PROVE  HasParts(CalcStartandCount(dims, nio, rank, typesize, blocksize), dims,
                  UseIOProcs(dims, nio, typesize, blocksize), rank)
<1> DEFINE n == Len(dims)
           use == UseIOProcs(dims, nio, typesize, blocksize)
           last == SplitAt(dims, use)
           p == ProcsLeft(dims, use)
           t == RankLeft(dims, use, rank)
           pd == ProcDims(dims, use)
           c == ChunkSizes(pd)
           at == DimList(pd, rank)
           block == CalcStartandCount(dims, nio, rank, typesize, blocksize)
           part == [i \in DOMAIN dims |->
             IF i = last THEN OneDim(dims[i], p[i], t[i])
             ELSE IF i < last /\ dims[i] > 1
                    THEN OneDim(dims[i], dims[i], (rank * dims[i]) \div p[i])
             ELSE [start |-> 0, count |-> dims[i]]]
<1>1. block = IF rank < use
                THEN [start |-> [i \in DOMAIN dims |-> part[i].start],
                      count |-> [i \in DOMAIN dims |-> part[i].count], loffset |-> 0]
                ELSE [start |-> [i \in DOMAIN dims |-> 0],
                      count |-> [i \in DOMAIN dims |-> 0], loffset |-> 0]
  BY Zenon DEF CalcStartandCount, SplitAt, ProcsLeft, RankLeft
<1>a. rank < use
  OBVIOUS
<1>2. n \in Nat \ {0} /\ DOMAIN dims = 1..n /\ \A i \in 1..n : dims[i] \in Nat \ {0}
  BY LengthsType
<1>3. /\ use \in Nat \ {0} /\ last \in 1..n /\ p[last] <= dims[last]
      /\ \A i \in 1..last - 1 : p[i] = p[i + 1] * dims[i]
  BY DEF SplitsEvenly
<1>4. \A i \in 1..n : p[i] \in Nat \ {0}
  BY <1>3, ProcsLeftAre
<1>5. \A i \in 1..n : t[i] \in Nat
  BY <1>3, RankLeftIs
<1>6. \A i \in 1..last : t[i] % p[i] = rank % p[i]
  BY RankLeftRest
<1>7. /\ pd \in Lengths /\ Len(pd) = last /\ c[last] = 1
      /\ \A i \in 1..last - 1 : c[i] = p[i + 1]
  BY ProcDimsAre
<1>8. \A i \in 1..last : pd[i] = IF i = last THEN p[i] ELSE dims[i]
  BY DEF ProcDims
<1>9. \A i \in 1..last : at[i] = (rank \div c[i]) % pd[i] /\ at[i] \in 0..pd[i] - 1
  BY <1>7, DimListType
<1>10. \A i \in 1..n : block.start[i] = part[i].start /\ block.count[i] = part[i].count
  <2>1. /\ block.start = [i \in DOMAIN dims |-> part[i].start]
        /\ block.count = [i \in DOMAIN dims |-> part[i].count]
    <3> HIDE DEF part, block, use
    <3> QED BY <1>1, <1>a
  <2> HIDE DEF part, block
  <2>2. QED
    BY <1>2, <2>1
<1>11. \A i \in 1..n :
         part[i] = IF i = last THEN OneDim(dims[i], p[i], t[i])
                   ELSE IF i < last /\ dims[i] > 1
                          THEN OneDim(dims[i], dims[i], (rank * dims[i]) \div p[i])
                   ELSE [start |-> 0, count |-> dims[i]]
  BY <1>2
<1> HIDE DEF n, use, last, p, t, pd, c, at, block, part
<1>12. ASSUME NEW i \in 1..last - 1 PROVE part[i].start = at[i] /\ part[i].count = 1
  <2>1. i \in 1..n /\ i \in 1..last /\ i + 1 \in 1..n /\ i # last /\ i < last
    BY <1>2, <1>3
  <2>2. PICK g \in Nat \ {0}, m \in Nat \ {0} : g = dims[i] /\ m = p[i + 1]
    BY <1>2, <1>4, <2>1, Zenon
  <2>3. p[i] = m * g
    BY ONLY <1>3, <2>2, i \in 1..last - 1
  <2>4. at[i] = (rank \div m) % g /\ at[i] \in 0..g - 1
    BY <1>7, <1>8, <1>9, <2>1, <2>2
  <2>5. CASE g > 1
    <3>1. part[i] = OneDim(g, g, (rank * g) \div (m * g))
      BY <1>11, <2>1, <2>2, <2>3, <2>5, Zenon
    <3>2. (rank * g) \div (m * g) = rank \div m
      BY GroupOfRank
    <3>3. PICK y \in Nat : y = rank \div m
      BY Division, Zenon
    <3>4. OneDim(g, g, y).start = y % g /\ OneDim(g, g, y).count = 1
      BY OneDimEach, Zenon
    <3>5. QED
      BY ONLY <2>4, <3>1, <3>2, <3>3, <3>4
  <2>6. CASE g = 1
    <3>1. part[i] = [start |-> 0, count |-> 1]
      <4>1. ~(dims[i] > 1) /\ dims[i] = 1
        BY <2>2, <2>6
      <4>2. QED
        BY ONLY <1>11, <2>1, <4>1
    <3>2. at[i] = 0
      BY <2>4, <2>6
    <3>3. QED
      BY <3>1, <3>2
  <2>7. QED
    BY <2>2, <2>5, <2>6
<1>13. part[last] = OneDim(dims[last], p[last], at[last])
  <2>1. last \in 1..last /\ last \in 1..n
    BY <1>2, <1>3
  <2>2. PICK g \in Nat, a \in Nat \ {0}, u \in Nat : g = dims[last] /\ a = p[last] /\ u = t[last]
    BY <1>2, <1>4, <1>5, <2>1, Zenon
  <2>3. part[last] = OneDim(g, a, u)
    BY <1>11, <2>1, <2>2, Zenon
  <2>4. OneDim(g, a, u) = OneDim(g, a, u % a) /\ OneDim(g, a, rank) = OneDim(g, a, rank % a)
    BY OneDimRest
  <2>5. u % a = rank % a
    BY <1>6, <2>1, <2>2
  <2>6. at[last] = rank % a
    <3>1. rank \div 1 = rank
      OBVIOUS
    <3>2. at[last] = (rank \div c[last]) % pd[last] /\ pd[last] = a
      BY <1>8, <1>9, <2>1, <2>2
    <3>3. QED
      BY ONLY <1>7, <3>1, <3>2
  <2>7. QED
    BY ONLY <2>2, <2>3, <2>4, <2>5, <2>6
<1>14. ASSUME NEW i \in last + 1..n PROVE part[i].start = 0 /\ part[i].count = dims[i]
  <2>1. i \in 1..n /\ i # last /\ ~(i < last)
    BY <1>2, <1>3
  <2>2. part[i] = [start |-> 0, count |-> dims[i]]
    BY <1>11, <2>1
  <2>3. QED
    BY <2>2
<1>15. \A i \in 1..last - 1 : i \in 1..n
  BY <1>2, <1>3
<1>16. \A i \in last + 1..n : i \in 1..n
  BY <1>2, <1>3
<1>17. QED
  <2>1. \A i \in 1..last - 1 : block.start[i] = at[i] /\ block.count[i] = 1
    BY <1>10, <1>12, <1>15
  <2>2. /\ block.start[last] = OneDim(dims[last], p[last], at[last]).start
        /\ block.count[last] = OneDim(dims[last], p[last], at[last]).count
    BY <1>3, <1>10, <1>13
  <2>3. \A i \in last + 1..n : block.start[i] = 0 /\ block.count[i] = dims[i]
    BY <1>10, <1>14, <1>16
  <2>4. QED
    BY ONLY <2>1, <2>2, <2>3, Zenon DEF HasParts, n, use, last, p, pd, at, block

\* Whether a cell is in a block of an array, which is what Holds says of a decomposition.
InBlock(dims, region, x) ==
  \A i \in DOMAIN dims :
    DimList(dims, x)[i] \in region.start[i]..region.start[i] + region.count[i] - 1

\* The cells in the block of a process that is in use are those whose coordinates in the outer
\* dimensions are those of the process, and that are in its share of the one that is split.
LEMMA CellsOfBlock ==
  ASSUME NEW dims \in Lengths, NEW nio, NEW r \in Nat, NEW typesize, NEW blocksize,
         SplitsEvenly(dims, UseIOProcs(dims, nio, typesize, blocksize)),
         r < UseIOProcs(dims, nio, typesize, blocksize), NEW x \in Nat
  PROVE  LET use == UseIOProcs(dims, nio, typesize, blocksize)
             last == SplitAt(dims, use)
             at == DimList(ProcDims(dims, use), r)
             cell == DimList(dims, x)
         IN  InBlock(dims, CalcStartandCount(dims, nio, r, typesize, blocksize), x) <=>
               /\ \A i \in 1..last - 1 : cell[i] = at[i]
               /\ InShare(cell[last], dims[last], ProcsLeft(dims, use)[last], at[last])
<1> DEFINE n == Len(dims)
           use == UseIOProcs(dims, nio, typesize, blocksize)
           last == SplitAt(dims, use)
           at == DimList(ProcDims(dims, use), r)
           cell == DimList(dims, x)
           a == ProcsLeft(dims, use)[last]
           block == CalcStartandCount(dims, nio, r, typesize, blocksize)
<1>2. n \in Nat \ {0} /\ DOMAIN dims = 1..n /\ last \in 1..n
  BY LengthsType DEF SplitsEvenly
<1>3. /\ \A i \in 1..last - 1 : block.start[i] = at[i] /\ block.count[i] = 1
      /\ block.start[last] = OneDim(dims[last], a, at[last]).start
      /\ block.count[last] = OneDim(dims[last], a, at[last]).count
      /\ \A i \in last + 1..n : block.start[i] = 0 /\ block.count[i] = dims[i]
  <2>1. HasParts(block, dims, use, r)
    BY BlockParts
  <2>2. QED
    BY ONLY <2>1, Zenon DEF HasParts
<1>4. \A i \in 1..n : cell[i] \in 0..dims[i] - 1
  BY DimListType
<1>5. \A i \in 1..last - 1 : at[i] \in Nat
  <2>1. ProcDims(dims, use) \in Lengths /\ Len(ProcDims(dims, use)) = last
    BY ProcDimsAre
  <2>2. \A i \in 1..last : at[i] \in 0..ProcDims(dims, use)[i] - 1
    BY <2>1, DimListType, Zenon
  <2> HIDE DEF at, last, use
  <2>3. \A i \in 1..last - 1 : i \in 1..last
    BY <1>2
  <2>4. QED
    BY <2>2, <2>3
<1>6. \A i \in 1..n : dims[i] \in Nat \ {0}
  BY LengthsType
<1>7. InBlock(dims, block, x) <=>
        \A i \in 1..n : cell[i] \in block.start[i]..block.start[i] + block.count[i] - 1
  BY ONLY <1>2, Zenon DEF InBlock
<1>8. InShare(cell[last], dims[last], a, at[last])
        <=> cell[last] \in block.start[last]..block.start[last] + block.count[last] - 1
  BY ONLY <1>3, Zenon DEF InShare
<1> HIDE DEF n, use, last, at, cell, a, block
<1>9. ASSUME NEW i \in 1..last - 1
      PROVE  cell[i] \in block.start[i]..block.start[i] + block.count[i] - 1 <=> cell[i] = at[i]
  <2>1. PICK y \in Nat : y = at[i]
    BY <1>5
  <2>2. i \in 1..n
    BY <1>2
  <2>3. PICK z \in Nat : z = cell[i]
    BY <1>4, <2>2
  <2>4. block.start[i] = y /\ block.count[i] = 1
    BY <1>3, <2>1
  <2>5. z \in y..y + 1 - 1 <=> z = y
    OBVIOUS
  <2>6. QED
    BY ONLY <2>1, <2>3, <2>4, <2>5
<1>10. ASSUME NEW i \in last + 1..n
       PROVE  cell[i] \in block.start[i]..block.start[i] + block.count[i] - 1
  <2>1. i \in 1..n
    BY <1>2
  <2>2. PICK g \in Nat \ {0} : g = dims[i]
    BY <1>6, <2>1
  <2>3. block.start[i] = 0 /\ block.count[i] = g
    BY <1>3, <2>2
  <2>4. cell[i] \in 0..g - 1
    BY <1>4, <2>1, <2>2
  <2>5. QED
    BY <2>3, <2>4
<1>11. ASSUME NEW i \in 1..n, ~(i \in 1..last - 1), i # last PROVE i \in last + 1..n
  BY <1>2, <1>11
<1>12. (\A i \in 1..last - 1 : i \in 1..n) /\ last \in 1..n
  BY <1>2
<1>13. QED
  <2>1. InBlock(dims, block, x) <=>
          /\ \A i \in 1..last - 1 : cell[i] = at[i]
          /\ InShare(cell[last], dims[last], a, at[last])
    BY ONLY <1>7, <1>8, <1>9, <1>10, <1>11, <1>12, Zenon
  <2>2. QED
    BY ONLY <2>1, Zenon DEF use, last, at, cell, a, block

\* The blocks of the other processes hold no cell.
LEMMA UnusedBlock ==
  ASSUME NEW dims \in Lengths, NEW nio, NEW r, NEW typesize, NEW blocksize,
         ~(r < UseIOProcs(dims, nio, typesize, blocksize)), NEW x \in Nat
  PROVE  LET block == CalcStartandCount(dims, nio, r, typesize, blocksize)
         IN  /\ ~InBlock(dims, block, x)
             /\ \A i \in 1..Len(dims) : block.start[i] = 0 /\ block.count[i] = 0
<1> DEFINE n == Len(dims)
           block == CalcStartandCount(dims, nio, r, typesize, blocksize)
<1>1. n \in Nat \ {0} /\ DOMAIN dims = 1..n
  BY LengthsType
<1>2. block = [start |-> [i \in DOMAIN dims |-> 0], count |-> [i \in DOMAIN dims |-> 0], loffset |-> 0]
  BY Zenon DEF CalcStartandCount
<1> HIDE DEF block, n
<1>3. \A i \in 1..n : block.start[i] = 0 /\ block.count[i] = 0
  BY ONLY <1>1, <1>2
<1>4. ~InBlock(dims, block, x)
  <2>1. SUFFICES ASSUME InBlock(dims, block, x) PROVE FALSE
    OBVIOUS
  <2>2. 1 \in DOMAIN dims
    BY <1>1
  <2>3. DimList(dims, x)[1] \in block.start[1]..block.start[1] + block.count[1] - 1
    BY ONLY <2>1, <2>2, Zenon DEF InBlock
  <2>4. DimList(dims, x)[1] \in 0..0 + 0 - 1
    BY <1>1, <1>3, <2>2, <2>3
  <2>5. QED
    BY <2>4
<1>5. QED
  BY ONLY <1>3, <1>4, Zenon DEF block, n

\* Every cell of an array is in exactly one of the blocks, and these lie in it.
LEMMA BlocksTile ==
  ASSUME NEW dims \in Lengths, NEW nio \in Nat \ {0}, NEW typesize \in Nat \ {0},
         NEW blocksize \in Nat \ {0}, typesize <= blocksize
  PROVE  LET block(r) == CalcStartandCount(dims, nio, r, typesize, blocksize)
         IN  /\ \A x \in 0..GridSize(dims) - 1 :
                  \E r \in 0..nio - 1 : /\ InBlock(dims, block(r), x)
                                        /\ \A s \in 0..nio - 1 : InBlock(dims, block(s), x) => s = r
             /\ \A r \in 0..nio - 1 : \A i \in 1..Len(dims) :
                  block(r).start[i] + block(r).count[i] <= dims[i]
<1> DEFINE n == Len(dims)
           use == UseIOProcs(dims, nio, typesize, blocksize)
           last == SplitAt(dims, use)
           pd == ProcDims(dims, use)
           a == ProcsLeft(dims, use)[last]
           g == dims[last]
           at(r) == DimList(pd, r)
           cell(x) == DimList(dims, x)
           block(r) == CalcStartandCount(dims, nio, r, typesize, blocksize)
<1>2. n \in Nat \ {0} /\ \A i \in 1..n : dims[i] \in Nat \ {0}
  BY LengthsType
<1>3. use \in Nat \ {0} /\ use <= nio
  <2>1. use \in Nat \ {0} /\ use <= Wanted(dims, nio, typesize, blocksize)
    BY UseIOProcsAre
  <2>2. Wanted(dims, nio, typesize, blocksize) \in 1..nio
    BY WantedIs
  <2> HIDE DEF use
  <2>3. QED
    BY <2>1, <2>2
<1>4. SplitsEvenly(dims, use)
  <2>1. /\ last \in 1..n /\ a <= dims[last]
        /\ \A i \in 1..last - 1 : ProcsLeft(dims, use)[i] = ProcsLeft(dims, use)[i + 1] * dims[i]
    BY Splits
  <2>2. QED
    BY ONLY <1>3, <2>1, Zenon DEF SplitsEvenly
<1>5. last \in 1..n /\ a \in Nat \ {0} /\ g \in Nat \ {0}
  <2>1. last \in 1..n
    BY <1>4 DEF SplitsEvenly
  <2>2. \A i \in 1..n : ProcsLeft(dims, use)[i] \in Nat \ {0}
    BY <1>3, ProcsLeftAre
  <2>3. QED
    BY <1>2, <2>1, <2>2
<1> HIDE DEF g, a
<1>6. pd \in Lengths /\ Len(pd) = last /\ GridSize(pd) = use
  BY <1>4, ProcDimsAre
<1>7. \A i \in 1..last : pd[i] = IF i = last THEN a ELSE dims[i]
  BY DEF ProcDims, a
<1>8. \A r \in Nat : \A i \in 1..last : at(r)[i] \in 0..pd[i] - 1
  BY <1>6, DimListType
<1>9. \A x \in Nat : \A i \in 1..n : cell(x)[i] \in 0..dims[i] - 1
  BY DimListType
<1>10. ASSUME NEW r \in 0..nio - 1, r < use, NEW x \in Nat
       PROVE  InBlock(dims, block(r), x) <=>
                /\ \A i \in 1..last - 1 : cell(x)[i] = at(r)[i]
                /\ InShare(cell(x)[last], g, a, at(r)[last])
  <2>1. r \in Nat
    OBVIOUS
  <2>2. QED
    BY <1>4, <1>10, <2>1, CellsOfBlock DEF g, a
<1>11. ASSUME NEW r \in 0..nio - 1, NEW x \in Nat, InBlock(dims, block(r), x) PROVE r < use
  BY <1>11, UnusedBlock
<1>12. /\ \A h \in 0..g - 1 : \E q \in 0..a - 1 : InShare(h, g, a, q)
       /\ \A h \in Int : \A q, s \in 0..a - 1 : InShare(h, g, a, q) /\ InShare(h, g, a, s) => q = s
       /\ \A q \in 0..a - 1 : OneDim(g, a, q).start + OneDim(g, a, q).count <= g
  BY <1>5, SharesTile, Zenon
<1>13. last \in 1..last /\ \A i \in 1..last : i \in 1..n /\ (i # last => i \in 1..last - 1)
  BY <1>2, <1>5
<1>14. \A i \in 1..last - 1 : i \in 1..last /\ i # last
  BY <1>2, <1>5
<1>15. ASSUME NEW x \in 0..GridSize(dims) - 1
       PROVE  \E r \in 0..nio - 1 : /\ InBlock(dims, block(r), x)
                                    /\ \A s \in 0..nio - 1 : InBlock(dims, block(s), x) => s = r
  <2>1. x \in Nat
    BY GridSizeIs
  <2> HIDE DEF n, use, last, pd, a, g, at, cell
  <2>2. cell(x)[last] \in 0..g - 1
    BY <1>5, <1>9, <2>1 DEF g
  <2>3. PICK q \in 0..a - 1 : InShare(cell(x)[last], g, a, q)
    BY <1>12, <2>2
  <2> DEFINE coord == [i \in 1..last |-> IF i = last THEN q ELSE cell(x)[i]]
             r == LIndex(coord, pd)
  <2>4. \A i \in 1..last : coord[i] \in 0..pd[i] - 1
    <3>1. ASSUME NEW i \in 1..last PROVE coord[i] \in 0..pd[i] - 1
      <4>1. CASE i = last
        BY <1>7, <1>13, <4>1
      <4>2. CASE i # last
        BY <1>7, <1>9, <1>13, <2>1, <4>2
      <4>3. QED
        BY <4>1, <4>2
    <3>2. QED
      BY <3>1
  <2>5. coord[last] = q /\ \A i \in 1..last - 1 : coord[i] = cell(x)[i]
    BY <1>13, <1>14
  <2> HIDE DEF coord
  <2>6. r \in 0..use - 1 /\ \A i \in 1..last : at(r)[i] = coord[i]
    BY <1>6, <2>4, CoordinatesOfCell DEF at
  <2> HIDE DEF r
  <2>7. r \in 0..nio - 1 /\ r < use
    BY <1>3, <2>6
  <2>8. \A i \in 1..last - 1 : cell(x)[i] = at(r)[i]
    BY <1>14, <2>5, <2>6
  <2>9. at(r)[last] = q
    BY <1>13, <2>5, <2>6
  <2>10. InBlock(dims, block(r), x)
    BY <1>10, <2>1, <2>3, <2>7, <2>8, <2>9
  <2>11. ASSUME NEW s \in 0..nio - 1, InBlock(dims, block(s), x) PROVE s = r
    <3>1. s < use /\ s \in Nat /\ s \in 0..GridSize(pd) - 1
      <4>1. s < use
        BY <1>11, <2>1, <2>11
      <4>2. s \in Nat
        OBVIOUS
      <4>3. QED
        BY <1>3, <1>6, <4>1, <4>2
    <3>2. /\ \A i \in 1..last - 1 : cell(x)[i] = at(s)[i]
          /\ InShare(cell(x)[last], g, a, at(s)[last])
      BY <1>10, <2>1, <2>11, <3>1
    <3>3. at(s)[last] \in 0..a - 1
      BY <1>7, <1>8, <1>13, <3>1
    <3>4. at(s)[last] = q
      BY <1>12, <2>2, <2>3, <3>2, <3>3
    <3>5. \A i \in 1..last : at(s)[i] = at(r)[i]
      BY <1>13, <2>8, <2>9, <3>2, <3>4
    <3>6. at(s) = at(r)
      <4>1. DOMAIN pd = 1..last
        BY <1>6, LengthsType
      <4>2. \A k : at(k) = [i \in 1..last |-> at(k)[i]]
        BY <4>1 DEF at, DimList
      <4>3. QED
        BY <3>5, <4>2, Zenon
    <3>7. LIndex(at(s), pd) = s /\ LIndex(at(r), pd) = r
      BY <1>6, <2>6, <3>1, CellOfCoordinates DEF at
    <3>8. QED
      BY ONLY <3>6, <3>7
  <2>12. QED
    BY <2>7, <2>10, <2>11
<1>16. ASSUME NEW r \in 0..nio - 1, NEW i \in 1..n
       PROVE  block(r).start[i] + block(r).count[i] <= dims[i]
  <2>1. r \in Nat
    OBVIOUS
  <2>2. CASE ~(r < use)
    <3>1. block(r).start[i] = 0 /\ block(r).count[i] = 0
      BY <2>2, 0 \in Nat, UnusedBlock
    <3>2. QED
      BY <1>2, <3>1
  <2>3. CASE r < use
    <3>2. /\ \A j \in 1..last - 1 : block(r).start[j] = at(r)[j] /\ block(r).count[j] = 1
          /\ block(r).start[last] = OneDim(g, a, at(r)[last]).start
          /\ block(r).count[last] = OneDim(g, a, at(r)[last]).count
          /\ \A j \in last + 1..n : block(r).start[j] = 0 /\ block(r).count[j] = dims[j]
      <4>1. HasParts(block(r), dims, use, r)
        BY <1>4, <2>1, <2>3, BlockParts
      <4>2. QED
        BY ONLY <4>1, Zenon DEF HasParts, g, a
    <3> HIDE DEF n, use, last, pd, a, g, at, cell, block
    <3>3. CASE i \in 1..last - 1
      <4>1. at(r)[i] \in 0..dims[i] - 1
        BY <1>7, <1>8, <1>14, <2>1, <3>3
      <4>2. PICK y \in Nat, z \in Nat : y = at(r)[i] /\ z = dims[i] /\ y < z
        BY <1>2, <4>1
      <4>3. block(r).start[i] = y /\ block(r).count[i] = 1
        BY <3>2, <3>3, <4>2
      <4>4. QED
        BY ONLY <4>2, <4>3
    <3>4. CASE i = last
      <4>1. at(r)[last] \in 0..a - 1
        BY <1>7, <1>8, <1>13, <2>1
      <4>2. block(r).start[last] + block(r).count[last] <= g
        BY <1>12, <3>2, <4>1
      <4>3. QED
        BY ONLY <3>4, <4>2 DEF g
    <3>5. CASE ~(i \in 1..last - 1) /\ i # last
      <4>1. i \in last + 1..n
        BY <1>2, <1>5, <3>5
      <4>2. block(r).start[i] = 0 /\ block(r).count[i] = dims[i]
        BY <3>2, <4>1
      <4>3. PICK z \in Nat : z = dims[i]
        BY <1>2
      <4>4. 0 + z <= z
        OBVIOUS
      <4>5. QED
        BY ONLY <4>2, <4>3, <4>4
    <3>6. QED
      BY <3>3, <3>4, <3>5
  <2>4. QED
    BY <2>2, <2>3
<1>17. QED
  BY <1>15, <1>16, Zenon

(***************************************************************************)
(* The blocks that CalcStartandCount computes lie in the array, and every  *)
(* cell of it is in exactly one of them: BOX loses no element of an array  *)
(* and gives none to two I/O processes, whatever the numbers of dimensions *)
(* and processes, if a cell is no larger than the smallest block wanted.   *)
(***************************************************************************)
THEOREM BoxesTile ==
  ASSUME NEW d, WellFormed(d), d.box = <<>>, d.typesize <= d.blocksize
  PROVE  /\ \A x \in 0..GridSize(d.gdims) - 1 :
              \E r \in IoProcs(d) : /\ Holds(d, Boxes(d)[r], x)
                                    /\ \A s \in IoProcs(d) : Holds(d, Boxes(d)[s], x) => s = r
         /\ \A r \in IoProcs(d) : \A i \in 1..Len(d.gdims) :
              Boxes(d)[r].start[i] + Boxes(d)[r].count[i] <= d.gdims[i]
<1>1. /\ NIo(d) \in Nat \ {0} /\ IoProcs(d) = 0..NIo(d) - 1
      /\ d.typesize \in Nat \ {0} /\ d.blocksize \in Nat \ {0} /\ d.gdims \in Lengths
  BY DEF WellFormed, Lengths
<1> DEFINE block(r) == CalcStartandCount(d.gdims, NIo(d), r, d.typesize, d.blocksize)
<1>2. /\ \A x \in 0..GridSize(d.gdims) - 1 :
           \E r \in 0..NIo(d) - 1 :
             /\ InBlock(d.gdims, block(r), x)
             /\ \A s \in 0..NIo(d) - 1 : InBlock(d.gdims, block(s), x) => s = r
      /\ \A r \in 0..NIo(d) - 1 : \A i \in 1..Len(d.gdims) :
           block(r).start[i] + block(r).count[i] <= d.gdims[i]
  BY <1>1, BlocksTile, Zenon
<1>3. \A r \in IoProcs(d) : Boxes(d)[r] = block(r)
  BY DEF Boxes
<1>4. \A r \in IoProcs(d) : \A x : Holds(d, Boxes(d)[r], x) <=> InBlock(d.gdims, block(r), x)
  BY <1>3, Zenon DEF Holds, InBlock
<1> HIDE DEF block
<1>5. QED
  BY ONLY <1>1, <1>2, <1>3, <1>4, Zenon

(***************************************************************************)
(* With computed blocks BOX finds an I/O process for every element: the    *)
(* error that box_rearrange_create returns for an element in no block is   *)
(* left to the blocks that a caller passes.                                *)
(***************************************************************************)
THEOREM ComputedBlocksLocate ==
  ASSUME NEW d, WellFormed(d), d.box = <<>>, d.typesize <= d.blocksize
  PROVE  Located(d)
<1>1. ASSUME NEW e \in Mapped(d)
      PROVE  \E r \in IoProcs(d) : Holds(d, Boxes(d)[r], d.map[e[1]][e[2]] - 1)
  <2>1. /\ e[1] \in Procs(d) /\ e[2] \in Nat \ {0} /\ e[2] <= Len(d.map[e[1]])
        /\ d.map[e[1]][e[2]] > 0
    <3>1. e \in Procs(d) \X (1..MaxOf(Ndof(d)))
      BY DEF Mapped
    <3>2. e[2] <= Len(d.map[e[1]]) /\ d.map[e[1]][e[2]] > 0
      BY DEF Mapped
    <3>3. \A i, n : i \in 1..n => i \in Int /\ i >= 1
      OBVIOUS
    <3> HIDE DEF Procs
    <3>4. e[1] \in Procs(d) /\ e[2] \in 1..MaxOf(Ndof(d))
      BY <3>1
    <3>5. QED
      BY <3>2, <3>3, <3>4
  <2>2. /\ d.map[e[1]] \in Seq(0..GridSize(d.gdims)) /\ Len(d.map[e[1]]) \in Nat
        /\ DOMAIN d.map[e[1]] = 1..Len(d.map[e[1]]) /\ GridSize(d.gdims) \in Nat \ {0}
    BY <2>1, DecompIs
  <2>3. PICK c \in 0..GridSize(d.gdims) : c = d.map[e[1]][e[2]]
    <3>1. e[2] \in 1..Len(d.map[e[1]])
      BY <2>1, <2>2
    <3>2. \A T : \A list \in Seq(T) : \A i \in 1..Len(list) : list[i] \in T
      BY LenProperties
    <3>3. d.map[e[1]][e[2]] \in 0..GridSize(d.gdims)
      BY ONLY <2>2, <3>1, <3>2, Zenon
    <3>4. QED
      BY <3>3, Zenon
  <2>4. c - 1 \in 0..GridSize(d.gdims) - 1
    <3>1. PICK g \in Nat \ {0} : g = GridSize(d.gdims)
      BY <2>2
    <3>2. c \in 0..g /\ c > 0
      BY ONLY <2>1, <2>3, <3>1, c \in 0..GridSize(d.gdims)
    <3>3. c - 1 \in 0..g - 1
      BY ONLY <3>2, g \in Nat \ {0}
    <3>4. QED
      BY ONLY <3>1, <3>3
  <2>5. \E r \in IoProcs(d) : Holds(d, Boxes(d)[r], c - 1)
    BY <2>4, BoxesTile
  <2>6. QED
    BY <2>3, <2>5
<1>2. QED
  BY <1>1, Zenon DEF Located

\* The elements with a cell are what the assumption on the decompositions calls mapped.
LEMMA MappedAre ==
  ASSUME NEW d, WellFormed(d), NEW p \in Procs(d), NEW k \in PlacesIn(d, p)
  PROVE  <<p, k>> \in Mapped(d)
<1> DEFINE P == Procs(d)
           f == Ndof(d)
           V == {f[q] : q \in P}
<1>1. /\ P = 0..Cardinality(P) - 1 /\ Cardinality(P) \in Nat
  BY DEF WellFormed
<1>2. \A q \in P : f[q] \in Nat /\ f[q] = Len(d.map[q])
  BY DecompIs DEF Ndof
<1>3. DOMAIN f = P
  BY DEF Ndof
<1> HIDE DEF P, f
<1>4. IsFiniteSet(V)
  <2> DEFINE g == [q \in P |-> f[q]]
  <2>1. g \in Surjection(P, V)
    BY DEF Surjection
  <2>2. IsFiniteSet(P)
    BY <1>1, FS_Interval
  <2> HIDE DEF g, V
  <2>3. QED
    BY <2>1, <2>2, FS_Surjection
<1>5. V \in SUBSET Nat
  BY <1>2
<1>6. MaxOf(f) = Max({0} \union V)
  BY <1>3 DEF MaxOf
<1>7. f[p] \in V
  BY DEF P
<1> HIDE DEF V
<1> DEFINE W == {0} \union V
<1>8. IsFiniteSet(W) /\ W \in SUBSET Nat /\ W # {} /\ f[p] \in W
  <2>1. IsFiniteSet(V \union {0})
    BY <1>4, FS_AddElement
  <2>2. W = V \union {0}
    OBVIOUS
  <2>3. IsFiniteSet(W)
    BY <2>1, <2>2
  <2>4. W \in SUBSET Nat /\ W # {} /\ f[p] \in W
    BY <1>5, <1>7
  <2>5. QED
    BY <2>3, <2>4
<1>9. Max(W) \in Nat /\ f[p] <= Max(W)
  <2> HIDE DEF W
  <2>1. Max(W) \in W /\ \A y \in W : y <= Max(W)
    BY <1>8, MaxOfSet
  <2>2. QED
    BY <1>8, <2>1, Zenon
<1>10. k \in 1..Len(d.map[p]) /\ Len(d.map[p]) \in Nat /\ d.map[p][k] > 0
  BY DecompIs DEF PlacesIn
<1>11. k \in 1..MaxOf(f)
  <2>1. PICK m \in Nat, n \in Nat : m = MaxOf(f) /\ n = f[p] /\ n <= m /\ n = Len(d.map[p])
    BY <1>2, <1>6, <1>9 DEF P
  <2>2. QED
    BY ONLY <1>10, <2>1
<1>12. QED
  BY <1>10, <1>11 DEF Mapped, f, P

\* The decompositions in use.
LEMMA ValidAre ==
  ASSUME NEW d \in Valid
  PROVE  /\ WellFormed(d) /\ CellsApart(d)
         /\ d.rearr = "contig" => GridSize(d.gdims) >= NIo(d)
         /\ d.rearr = "box" =>
              \A e : IsElement(d, e) => \E q \in IoProcs(d) : Holds(d, Boxes(d)[q], e.cell)
<1>1. d \in Decomps /\ Located(d)
  BY DEF Valid
<1>2. /\ WellFormed(d)
      /\ \A x, y \in Mapped(d) : d.map[x[1]][x[2]] = d.map[y[1]][y[2]] => x = y
      /\ d.rearr = "contig" => GridSize(d.gdims) >= NIo(d)
  BY <1>1, DecompsAssumption
<1>3. ASSUME NEW p \in Procs(d), NEW q \in Procs(d), NEW k \in PlacesIn(d, p), NEW l \in PlacesIn(d, q),
             d.map[p][k] = d.map[q][l]
      PROVE  p = q /\ k = l
  <2>1. <<p, k>> \in Mapped(d) /\ <<q, l>> \in Mapped(d)
    BY <1>2, MappedAre
  <2> DEFINE x == <<p, k>>
             y == <<q, l>>
  <2>2. x[1] = p /\ x[2] = k /\ y[1] = q /\ y[2] = l
    OBVIOUS
  <2> HIDE DEF x, y
  <2>3. x = y
    BY <1>2, <1>3, <2>1, <2>2, Zenon DEF x, y
  <2>4. QED
    BY <2>2, <2>3
<1>4. CellsApart(d)
  BY <1>3, Zenon DEF CellsApart
<1>5. ASSUME d.rearr = "box", NEW e, IsElement(d, e)
      PROVE  \E q \in IoProcs(d) : Holds(d, Boxes(d)[q], e.cell)
  <2>1. PICK p \in Procs(d) : \E k \in PlacesIn(d, p) : e = ElementAt(d, p, k)
    BY <1>5 DEF IsElement
  <2>2. PICK k \in PlacesIn(d, p) : e = ElementAt(d, p, k)
    BY <2>1
  <2>3. e.cell = d.map[p][k] - 1
    BY <1>2, <2>2, ElementFields
  <2>4. <<p, k>> \in Mapped(d)
    BY <1>2, MappedAre
  <2>5. \A x \in Mapped(d) : \E r \in IoProcs(d) : Holds(d, Boxes(d)[r], d.map[x[1]][x[2]] - 1)
    BY <1>1, <1>5, Zenon DEF Located
  <2>6. \E r \in IoProcs(d) : Holds(d, Boxes(d)[r], d.map[p][k] - 1)
    BY <2>4, <2>5
  <2>7. QED
    BY <2>3, <2>6
<1>6. QED
  BY <1>2, <1>4, <1>5

(***************************************************************************)
(* Whatever the rearranger computes for a decomposition that the code      *)
(* accepts, the two sides of every message of its exchanges fit: the       *)
(* sender and the receiver describe equally many cells, all of them inside *)
(* their buffers, and no two elements arrive at one place.                 *)
(***************************************************************************)
THEOREM DescriptorsFit ==
  ASSUME NEW d \in Valid
  PROVE  \A i \in DOMAIN Descriptor[d].hops : HopFits(Descriptor[d].hops[i])
<1>1. /\ WellFormed(d) /\ CellsApart(d)
      /\ d.rearr = "contig" => GridSize(d.gdims) >= NIo(d)
      /\ d.rearr = "box" =>
           \A e : IsElement(d, e) => \E q \in IoProcs(d) : Holds(d, Boxes(d)[q], e.cell)
  BY ValidAre
<1>2. Descriptor[d] = Rearranged(d)
  BY DEF Descriptor
<1>3. CASE d.rearr = "box"
  <2> DEFINE hop == BoxHop(d, [r \in IoProcs(d) |-> GridSize(Boxes(d)[r].count)])
  <2>1. HopFits(hop)
    BY <1>1, <1>3, BoxHopFits
  <2>2. Rearranged(d).hops = <<hop>>
    BY <1>3 DEF Rearranged, BoxRearr
  <2> HIDE DEF hop
  <2>3. QED
    BY <1>2, <2>1, <2>2
<1>4. CASE d.rearr = "subset"
  <2> DEFINE hop == SubsetHop(d, Groups(d, SubsetColor(d)))
  <2>1. HopFits(hop)
    BY <1>1, SubsetHopFits
  <2>2. Rearranged(d).hops = <<hop>>
    BY <1>4 DEF Rearranged, SubsetRearr
  <2> HIDE DEF hop
  <2>3. QED
    BY <1>2, <2>1, <2>2
<1>5. CASE d.rearr = "contig"
  <2> DEFINE first == AggregateHop(d, Groups(d, ContigColor(d)))
             second == ToIoHop(d, Groups(d, ContigColor(d)))
  <2>1. HopFits(first) /\ HopFits(second)
    BY <1>1, <1>5, AggregateHopFits, ToIoHopFits
  <2>2. Rearranged(d).hops = <<first, second>>
    BY <1>5 DEF Rearranged, ContigRearr
  <2> HIDE DEF first, second
  <2>3. QED
    BY <1>2, <2>1, <2>2
<1>6. QED
  BY <1>1, <1>3, <1>4, <1>5 DEF WellFormed

\* The descriptor is that of the decomposition in use.
InUse == dist = NoDecomp \/ (dist \in Valid /\ desc = Descriptor[dist])

LEMMA InUseInvariant == Spec => []InUse
<1>1. Init => InUse
  BY DEF Init, InUse
<1>2. InUse /\ [Next]_vars => InUse'
  <2> SUFFICES ASSUME InUse, [Next]_vars PROVE InUse'
    OBVIOUS
  <2>1. ASSUME NEW d \in Decomps, InitDecomp(d) PROVE InUse'
    BY <2>1 DEF InitDecomp, InUse, Valid
  <2>2. CASE FreeDecomp
    BY <2>2 DEF FreeDecomp, InUse
  <2>3. ASSUME NEW iotype, NEW targets, BeginWrite(iotype, targets) PROVE InUse'
    <3>1. UNCHANGED <<dist, desc>>
      BY <2>3, Zenon DEF BeginWrite
    <3>2. QED
      BY <3>1, Zenon DEF InUse
  <2>4. ASSUME NEW pass, NEW r, Put(pass, r) PROVE InUse'
    <3>1. UNCHANGED <<dist, desc>>
      BY <2>4, Zenon DEF Put
    <3>2. QED
      BY <3>1, Zenon DEF InUse
  <2>5. CASE EndWrite
    BY <2>5 DEF EndWrite, InUse
  <2>6. ASSUME NEW v, NEW frame, NEW iotype, Read(v, frame, iotype) PROVE InUse'
    BY <2>6 DEF Read, InUse
  <2>7. CASE UNCHANGED vars
    BY <2>7 DEF vars, InUse
  <2>8. QED
    BY <2>1, <2>2, <2>3, <2>4, <2>5, <2>6, <2>7 DEF Next
<1>3. QED
  BY <1>1, <1>2, PTL DEF Spec

(***************************************************************************)
(* The exchanges of the decomposition in use fit, in every state: a write  *)
(* or a read never moves a cell from or to a place outside of a buffer,    *)
(* and never one onto another, with any number of processes, any array and *)
(* any map, whichever of the three rearrangers built the MPI types.        *)
(***************************************************************************)
THEOREM ExchangesFit == Spec => []ExchangeFits
<1>1. InUse => ExchangeFits
  BY DescriptorsFit DEF InUse, ExchangeFits
<1>2. QED
  BY <1>1, InUseInvariant, PTL
=============================================================================
