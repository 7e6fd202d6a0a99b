--------------------------- MODULE IoSystemProofs ---------------------------
(***************************************************************************)
(* What the calls that make an I/O system promise the rest of the library, *)
(* for any number of processes: the I/O processes of PIOc_Init_Intracomm   *)
(* are different ones, and with PIOc_init_intercomm all processes mean the *)
(* same ones by their ranks.                                               *)
(***************************************************************************)
EXTENDS IoSystem, TLAPS

-----------------------------------------------------------------------------
(***************************************************************************)
(* PIOc_Init_Intracomm                                                     *)
(***************************************************************************)
LEMMA DivMod ==
  ASSUME NEW a \in Nat, NEW n \in Nat \ {0}
  PROVE  a \div n \in Nat /\ a % n \in 0..(n - 1) /\ a = n * (a \div n) + (a % n)
  BY SMT

\* Two numbers less than n apart have different remainders.
LEMMA NearDistinct ==
  ASSUME NEW a \in Nat, NEW b \in Nat, NEW n \in Nat \ {0}, a < b, b < a + n
  PROVE  a % n # b % n
<1> SUFFICES ASSUME a % n = b % n PROVE FALSE OBVIOUS
<1>1. PICK x \in Nat, r \in 0..(n - 1) : x = a \div n /\ r = a % n /\ a = n * x + r
  BY DivMod
<1>2. PICK y \in Nat : b = n * y + r
  <2>1. b \div n \in Nat /\ b = n * (b \div n) + (b % n) BY DivMod
  <2>2. b % n = r BY <1>1
  <2> QED BY ONLY <2>1, <2>2, Zenon
<1>3. n * x < n * y /\ n * y < n * x + n
  BY <1>1, <1>2
<1>4. CASE y >= x + 1
  <2>1. PICK k \in Nat : y = x + 1 + k BY <1>4
  <2>2. n * y = n * x + n + n * k /\ n * k >= 0 BY <2>1
  <2> QED BY <2>2, <1>3
<1>5. CASE y <= x
  <2>1. PICK k \in Nat : x = y + k BY <1>5
  <2>2. n * x = n * y + n * k /\ n * k >= 0 BY <2>1
  <2> QED BY <2>2, <1>3
<1> QED BY <1>4, <1>5

\* The check of the arguments is enough for the I/O processes to be different
\* processes of the communicator (pioc.cpp, lines 1247-1251 and 1460-1467).
THEOREM IoRanksDistinct ==
  ASSUME NEW n \in Nat, NEW num \in Int, NEW stride \in Int, NEW base \in Int,
         ValidIntracomm(n, num, stride, base)
  PROVE  /\ IoRanks(n, num, stride, base) \in [1..num -> 0..(n - 1)]
         /\ \A i, j \in 1..num :
              i # j => IoRanks(n, num, stride, base)[i] # IoRanks(n, num, stride, base)[j]
<1>1. /\ n \in Nat \ {0} /\ num \in 1..n /\ stride \in Nat /\ stride >= 1 /\ base \in 0..(n - 1)
      /\ stride * (num - 1) < n
  BY DEF ValidIntracomm
<1>2. ASSUME NEW i \in 1..num
      PROVE  base + (i - 1) * stride \in Nat
  <2>1. PICK k \in Nat : k = i - 1 BY <1>1
  <2>2. k * stride \in Nat BY <1>1, SMT
  <2> QED BY <2>1, <2>2, <1>1
<1>3. IoRanks(n, num, stride, base) \in [1..num -> 0..(n - 1)]
  BY <1>1, <1>2, DivMod DEF IoRanks
<1>4. ASSUME NEW i \in 1..num, NEW j \in 1..num, i < j
      PROVE  (base + (i - 1) * stride) % n # (base + (j - 1) * stride) % n
  <2>1. PICK k \in Nat, l \in Nat, u \in Nat :
          k = i - 1 /\ j - 1 = k + 1 + l /\ num - 1 = k + 1 + l + u
    <3>1. i - 1 \in Nat /\ j - i - 1 \in Nat /\ num - j \in Nat BY <1>1, <1>4
    <3>2. num - 1 = (i - 1) + 1 + (j - i - 1) + (num - j) /\ j - 1 = (i - 1) + 1 + (j - i - 1)
      BY <1>1
    <3> QED BY <3>1, <3>2
  <2>2. (k + 1 + l) * stride = k * stride + stride + l * stride
    BY <1>1, SMT
  <2>3. stride * (num - 1) = k * stride + stride + l * stride + u * stride
    BY <1>1, <2>1, SMT
  <2>4. k * stride \in Nat /\ l * stride \in Nat /\ u * stride \in Nat
    BY <1>1, SMT
  <2>5. /\ base + (i - 1) * stride < base + (j - 1) * stride
        /\ base + (j - 1) * stride < base + (i - 1) * stride + n
    BY <1>1, <2>1, <2>2, <2>3, <2>4
  <2> QED BY <2>5, <1>1, <1>2, NearDistinct
<1>5. ASSUME NEW i \in 1..num, NEW j \in 1..num, i # j
      PROVE  IoRanks(n, num, stride, base)[i] # IoRanks(n, num, stride, base)[j]
  <2>1. i < j \/ j < i BY <1>1, <1>5
  <2> QED BY <2>1, <1>4 DEF IoRanks
<1> QED BY <1>3, <1>5

-----------------------------------------------------------------------------
(***************************************************************************)
(* PIOc_init_intercomm                                                     *)
(***************************************************************************)
\* A communicator of processes of a peer communicator of n.
Communicator(n, comm) ==
  /\ comm \in Seq(0..(n - 1)) /\ Len(comm) > 0
  /\ \A i, j \in 1..Len(comm) : comm[i] = comm[j] => i = j

LEMMA FirstMember ==
  ASSUME NEW n \in Nat, NEW comm, Communicator(n, comm)
  PROVE  1 \in 1..Len(comm) /\ comm[1] \in 0..(n - 1)
BY DEF Communicator

LEMMA RankOfMember ==
  ASSUME NEW n \in Nat, NEW comm, Communicator(n, comm), NEW i \in 1..Len(comm)
  PROVE  Member(comm, comm[i]) /\ RankIn(comm, comm[i]) = i - 1
<1>1. DOMAIN comm = 1..Len(comm) BY DEF Communicator
<1>2. (CHOOSE j \in DOMAIN comm : comm[j] = comm[i]) = i
  BY <1>1 DEF Communicator
<1> QED BY <1>1, <1>2 DEF Member, RankIn, ToSet

LEMMA MemberHasRank ==
  ASSUME NEW n \in Nat, NEW comm, Communicator(n, comm), NEW p, Member(comm, p)
  PROVE  RankIn(comm, p) \in 0..(Len(comm) - 1) /\ comm[RankIn(comm, p) + 1] = p
<1>0. DOMAIN comm = 1..Len(comm) BY DEF Communicator
<1>1. PICK i \in 1..Len(comm) : p = comm[i] BY <1>0 DEF Member, ToSet
<1>2. RankIn(comm, p) = i - 1 BY <1>1, RankOfMember
<1> QED BY <1>1, <1>2

\* The reduction finds the first process of a communicator.
LEMMA LeaderIsFirst ==
  ASSUME NEW n \in Nat, NEW comm, Communicator(n, comm)
  PROVE  LeaderOf(n, comm) = comm[1]
<1> DEFINE told == {IF Member(comm, p) /\ RankIn(comm, p) = 0 THEN p ELSE -1 : p \in 0..(n - 1)}
<1>1. comm[1] \in 0..(n - 1) /\ 1 \in 1..Len(comm) BY DEF Communicator
<1>2. Member(comm, comm[1]) /\ RankIn(comm, comm[1]) = 0 BY <1>1, RankOfMember
<1>3. comm[1] \in told BY <1>1, <1>2
<1>4. ASSUME NEW q \in told PROVE q = comm[1] \/ q = -1
  <2>1. PICK p \in 0..(n - 1) :
          q = IF Member(comm, p) /\ RankIn(comm, p) = 0 THEN p ELSE -1
    BY <1>4
  <2>2. CASE Member(comm, p) /\ RankIn(comm, p) = 0
    <3>1. comm[0 + 1] = p BY <2>2, MemberHasRank
    <3> QED BY <2>1, <2>2, <3>1
  <2> QED BY <2>1, <2>2
<1>5. \A q \in told : comm[1] >= q BY <1>1, <1>4
<1>6. ASSUME NEW x \in told, \A y \in told : x >= y
      PROVE  x = comm[1]
  <2> HIDE DEF told
  <2>1. x >= comm[1] BY <1>3, <1>6
  <2>2. x = comm[1] \/ x = -1 BY <1>4
  <2> QED BY <1>1, <2>1, <2>2
<1>7. Max(told) = comm[1] BY <1>3, <1>5, <1>6 DEF Max
<1> QED BY <1>7 DEF LeaderOf

\* What the caller gives: communicators without a common process.
Separate(n, comps, io) ==
  /\ Communicator(n, io)
  /\ comps \in Seq(Seq(0..(n - 1)))
  /\ \A i \in 1..Len(comps) :
       /\ Communicator(n, comps[i])
       /\ \A p \in 0..(n - 1) : ~(Member(comps[i], p) /\ Member(io, p))
       /\ \A j \in 1..Len(comps), p \in 0..(n - 1) :
            i # j => ~(Member(comps[i], p) /\ Member(comps[j], p))

LEMMA RightGroups ==
  ASSUME NEW n \in Nat, NEW comps, NEW io, Separate(n, comps, io), NEW i \in 1..Len(comps)
  PROVE  /\ RemoteGroup(ToSet(comps), LeaderOf(n, comps[i])) = comps[i]
         /\ RemoteGroup({io}, LeaderOf(n, io)) = io
<1>1. DOMAIN comps = 1..Len(comps)
  <2>1. comps \in Seq(Seq(0..(n - 1))) BY DEF Separate
  <2> QED BY <2>1
<1>2. Communicator(n, comps[i]) /\ Communicator(n, io) BY DEF Separate
<1>3. ProcessAt(comps[i], 0) = LeaderOf(n, comps[i]) /\ ProcessAt(io, 0) = LeaderOf(n, io)
  BY <1>2, LeaderIsFirst DEF ProcessAt
<1>4. comps[i] \in ToSet(comps) BY <1>1 DEF ToSet
<1>5. ASSUME NEW g \in ToSet(comps), ProcessAt(g, 0) = LeaderOf(n, comps[i])
      PROVE  g = comps[i]
  <2>1. PICK j \in 1..Len(comps) : g = comps[j] BY <1>1 DEF ToSet
  <2>2. Communicator(n, comps[j]) BY DEF Separate
  <2>3. comps[j][1] = comps[i][1]
    BY <2>1, <1>2, <1>5, LeaderIsFirst DEF ProcessAt
  <2>4. 1 \in 1..Len(comps[j]) /\ 1 \in 1..Len(comps[i]) /\ comps[i][1] \in 0..(n - 1)
    BY <2>2, <1>2, FirstMember
  <2>5. Member(comps[j], comps[i][1]) /\ Member(comps[i], comps[i][1])
    BY <2>2, <2>3, <2>4, <1>2, RankOfMember
  <2>6. i = j BY <2>4, <2>5 DEF Separate
  <2> QED BY <2>1, <2>6
<1>6. RemoteGroup(ToSet(comps), LeaderOf(n, comps[i])) = comps[i]
  BY <1>3, <1>4, <1>5 DEF RemoteGroup
<1>7. RemoteGroup({io}, LeaderOf(n, io)) = io
  BY <1>3 DEF RemoteGroup
<1> QED BY <1>6, <1>7

\* All processes of a component and all I/O processes mean the same ones by comproot,
\* ioroot, compranks and ioranks, and exactly one on each side takes itself for the master.
THEOREM IntercommAgrees ==
  ASSUME NEW n \in Nat, NEW comps, NEW io, Separate(n, comps, io), NEW i \in 1..Len(comps),
         NEW p \in 0..(n - 1), Member(comps[i], p) \/ Member(io, p)
  PROVE  LET d == init_intercomm(n, comps, io)[i][p]
         IN /\ ProcessAt(d.union, d.comproot) = comps[i][1]
            /\ ProcessAt(d.union, d.ioroot) = io[1]
            /\ \A j \in 1..Len(comps[i]) : ProcessAt(d.union, d.compranks[j]) = comps[i][j]
            /\ \A j \in 1..Len(io) : ProcessAt(d.union, d.ioranks[j]) = io[j]
            /\ d.compmaster = MPI_ROOT <=> p = comps[i][1]
            /\ d.iomaster = MPI_ROOT <=> p = io[1]
<1> DEFINE comp == comps[i]
           d == init_intercomm(n, comps, io)[i][p]
<1>1. DOMAIN comps = 1..Len(comps)
  <2>1. comps \in Seq(Seq(0..(n - 1))) BY DEF Separate
  <2> QED BY <2>1
<1>2. Communicator(n, comp) /\ Communicator(n, io) BY DEF Separate
<1>3. comp \in Seq(0..(n - 1)) /\ io \in Seq(0..(n - 1)) /\ Len(comp) \in Nat /\ Len(io) \in Nat
      /\ Len(comp) > 0 /\ Len(io) > 0
  BY <1>2 DEF Communicator
<1>4. /\ Len(comp \o io) = Len(comp) + Len(io)
      /\ \A j \in 1..Len(comp) : (comp \o io)[j] = comp[j]
      /\ \A j \in 1..Len(io) : (comp \o io)[Len(comp) + j] = io[j]
  BY <1>3, SMTT(30)
<1>5. /\ comp[1] \in 0..(n - 1) /\ io[1] \in 0..(n - 1) /\ 1 \in 1..Len(comp) /\ 1 \in 1..Len(io)
      /\ Member(comp, comp[1]) /\ Member(io, io[1])
      /\ RankIn(comp, comp[1]) = 0 /\ RankIn(io, io[1]) = 0
  <2>1. 1 \in 1..Len(comp) /\ 1 \in 1..Len(io) BY <1>3
  <2>2. Member(comp, comp[1]) /\ RankIn(comp, comp[1]) = 1 - 1
    BY <1>2, <2>1, RankOfMember
  <2>3. Member(io, io[1]) /\ RankIn(io, io[1]) = 1 - 1
    BY <1>2, <2>1, RankOfMember
  <2> QED BY <2>1, <2>2, <2>3, <1>3, SMTT(30)
<1>6. d = IF Member(io, p) THEN IntercommIo(n, comps, i, io, p)
          ELSE IntercommComp(n, comps, i, io, p)
  <2>1. d = CASE Member(io, p) -> IntercommIo(n, comps, i, io, p)
              [] Member(comps[i], p) -> IntercommComp(n, comps, i, io, p)
              [] OTHER -> Outside
    BY <1>1 DEF init_intercomm
  <2>2. ~(Member(io, p) /\ Member(comps[i], p)) BY DEF Separate
  <2>3. CASE Member(io, p) BY <2>1, <2>2, <2>3
  <2>4. CASE ~Member(io, p) BY <2>1, <2>2, <2>4
  <2> QED BY <2>3, <2>4
<1>7. /\ d.union = comp \o io /\ d.comproot = 0 /\ d.ioroot = Len(comp)
      /\ d.compranks = Ranks(Len(comp))
      /\ d.ioranks = [j \in 1..Len(io) |-> Len(comp) + j - 1]
      /\ d.compmaster = IF Member(io, p) THEN 0 ELSE MasterIf(RankIn(comp, p))
      /\ d.iomaster = IF Member(io, p) THEN MasterIf(RankIn(io, p)) ELSE 0
  <2>1. CASE Member(io, p)
    <3>1. Len(comp \o io) - Len(io) = Len(comp) BY <1>3, <1>4
    <3>2. d = IntercommIo(n, comps, i, io, p) BY <1>6, <2>1
    <3>3. RemoteGroup(ToSet(comps), LeaderOf(n, comps[i])) = comp BY RightGroups, ZenonT(60)
    <3>4. d = UnionRanks([Cleared EXCEPT
                !.ioproc = TRUE, !.comp_rank = -1, !.io_rank = RankIn(io, p),
                !.iomaster = MasterIf(RankIn(io, p)), !.compmaster = 0,
                !.union = comp \o io, !.comp = comp, !.io = io], Len(comp), Len(io))
      BY <3>1, <3>2, <3>3, Zenon DEF IntercommIo, Merged
    <3> QED BY <2>1, <3>4 DEF UnionRanks, Cleared
  <2>2. CASE ~Member(io, p)
    <3>1. Len(comp \o io) - Len(comp) = Len(io) BY <1>3, <1>4
    <3>2. d = IntercommComp(n, comps, i, io, p) BY <1>6, <2>2
    <3>3. RemoteGroup({io}, LeaderOf(n, io)) = io BY RightGroups
    <3>4. d = UnionRanks([Cleared EXCEPT
                !.compproc = TRUE, !.comp_rank = RankIn(comp, p), !.io_rank = -1,
                !.compmaster = MasterIf(RankIn(comp, p)), !.iomaster = 0,
                !.union = comp \o io, !.comp = comp, !.io = io], Len(comp), Len(io))
      BY <3>1, <3>2, <3>3, Zenon DEF IntercommComp, Merged
    <3> QED BY <2>2, <3>4 DEF UnionRanks, Cleared
  <2> QED BY <2>1, <2>2
<1>8. ProcessAt(d.union, d.comproot) = comp[1] /\ ProcessAt(d.union, d.ioroot) = io[1]
  BY <1>4, <1>5, <1>7 DEF ProcessAt
<1>9. \A j \in 1..Len(comp) : ProcessAt(d.union, d.compranks[j]) = comp[j]
  <2> TAKE j \in 1..Len(comp)
  <2>1. d.compranks[j] = j - 1 /\ (j - 1) + 1 = j BY <1>3, <1>7 DEF Ranks
  <2>2. (comp \o io)[j] = comp[j] BY <1>3, <1>4
  <2> QED BY ONLY <2>1, <2>2, <1>7 DEF ProcessAt
<1>10. \A j \in 1..Len(io) : ProcessAt(d.union, d.ioranks[j]) = io[j]
  <2> TAKE j \in 1..Len(io)
  <2>1. d.ioranks[j] = Len(comp) + j - 1 /\ (Len(comp) + j - 1) + 1 = Len(comp) + j BY <1>3, <1>7
  <2>2. (comp \o io)[Len(comp) + j] = io[j] BY <1>3, <1>4
  <2> QED BY ONLY <2>1, <2>2, <1>7 DEF ProcessAt
<1>11. d.compmaster = MPI_ROOT <=> p = comp[1]
  <2>1. CASE Member(io, p)
    <3>1. p # comp[1] BY <1>5, <2>1 DEF Separate
    <3> QED BY <2>1, <3>1, <1>7 DEF MPI_ROOT
  <2>2. CASE ~Member(io, p)
    <3>1. Member(comp, p) BY <2>2
    <3>2. comp[RankIn(comp, p) + 1] = p
      BY ONLY <3>1, <1>2, n \in Nat, MemberHasRank
    <3>3. RankIn(comp, p) = 0 <=> p = comp[1]
      BY ONLY <3>2, <1>5
    <3> QED BY <2>2, <3>3, <1>7 DEF MasterIf, MPI_ROOT, MPI_PROC_NULL
  <2> QED BY <2>1, <2>2
<1>12. d.iomaster = MPI_ROOT <=> p = io[1]
  <2>1. CASE Member(io, p)
    <3>1. io[RankIn(io, p) + 1] = p
      BY ONLY <2>1, <1>2, n \in Nat, MemberHasRank
    <3>2. RankIn(io, p) = 0 <=> p = io[1]
      BY ONLY <3>1, <1>5
    <3> QED BY <2>1, <3>2, <1>7 DEF MasterIf, MPI_ROOT, MPI_PROC_NULL
  <2>2. CASE ~Member(io, p)
    <3>1. p # io[1] BY <1>5, <2>2
    <3> QED BY <2>2, <3>1, <1>7 DEF MPI_ROOT
  <2> QED BY <2>1, <2>2
<1> QED BY <1>8, <1>9, <1>10, <1>11, <1>12
=============================================================================
