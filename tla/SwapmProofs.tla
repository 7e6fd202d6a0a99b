----------------------------- MODULE SwapmProofs -----------------------------
(***************************************************************************)
(* For any number of processes, traffic, window and kind of send, the      *)
(* exchange never gets stuck, and with handshakes no data is sent before   *)
(* its receive is posted.                                                  *)
(***************************************************************************)
EXTENDS Swapm, FiniteSetTheorems, WellFoundedInduction, TLAPS

-----------------------------------------------------------------------------
(* The inductive invariant                                                 *)

Linked(p, q) == <<p, q>> \in traffic \/ <<q, p>> \in traffic

Steps(p) == 0..steps[p] - 1

\* The partners of a process that has begun: each of them once, by increasing
\* exclusive or, none left out.
Ordered(p) ==
  /\ steps[p] \in Nat
  /\ swapids[p] \in [Steps(p) -> Procs \ {p}]
  /\ \A i, j \in Steps(p) : i < j => Xor(p, swapids[p][i]) < Xor(p, swapids[p][j])
  /\ \A q \in Procs \ {p} : Linked(p, q) => \E i \in Steps(p) : swapids[p][i] = q

\* The window: the receives of the steps below rstep are posted.
Window(p) ==
  LET n == steps[p] IN
  /\ istep[p] \in 0..n
  /\ rstep[p] \in MaxReq(n)..n
  /\ rstep[p] = n \/ rstep[p] >= MaxReq(n) + istep[p] - MaxReqH(n)
  /\ rstep[p] <= MaxReq(n) \/ rstep[p] <= MaxReq(n) + istep[p] - MaxReqH(n)
  /\ pc[p] \in {"sending", "recv"} => istep[p] < n
  /\ pc[p] = "done" => istep[p] = n

\* The receives of p, of data and of handshakes, and the handshakes p has sent.
Receives(p) ==
  \A i \in Steps(p) :
    LET q == swapids[p][i] IN
    /\ <<q, p>> \in posted <=> <<q, p>> \in traffic /\ i < rstep[p]
    /\ <<q, p>> \in waited <=>
         <<q, p>> \in traffic /\ (pc[p] = "done" \/ i + MaxReqH(steps[p]) < istep[p])
    /\ fc.hs => (<<q, p>> \in hssent <=> <<q, p>> \in posted)
    /\ fc.hs => (<<p, q>> \in hsrcvs <=> <<p, q>> \in traffic /\ i < rstep[p])

\* The data p has sent.
Sends(p) ==
  \A i \in Steps(p) :
    LET c == <<p, swapids[p][i]>> IN
    /\ c \in sent <=>
         c \in traffic /\ (i < istep[p] \/ (i = istep[p] /\ pc[p] \in {"sending", "recv"}))
    /\ i = istep[p] /\ pc[p] = "sending" => c \in traffic
    /\ c \in sent /\ ~(i = istep[p] /\ pc[p] = "sending") /\ (~fc.isend \/ pc[p] = "done")
         => Completes(c)

\* A process that has not begun has done nothing.
NotBegun(p) ==
  /\ steps[p] = 0 /\ istep[p] = 0 /\ rstep[p] = 0
  /\ \A q \in Procs :
       <<q, p>> \notin posted \union waited \union hssent /\ <<p, q>> \notin sent \union hsrcvs

ProcInv(p) ==
  IF pc[p] = "start" THEN NotBegun(p)
  ELSE /\ Ordered(p) /\ Window(p) /\ Receives(p) /\ Sends(p)
       /\ <<p, p>> \in traffic => <<p, p>> \in posted \intersect sent \intersect waited

Types ==
  /\ traffic \in Patterns
  /\ fc \in FlowControls
  /\ eager \in BOOLEAN
  /\ pc \in [Procs -> {"start", "send", "sending", "recv", "done"}]
  /\ steps \in [Procs -> Nat]
  /\ istep \in [Procs -> Nat]
  /\ rstep \in [Procs -> Nat]
  /\ DOMAIN swapids = Procs
  /\ hsrcvs \subseteq traffic
  /\ hssent \subseteq posted
  /\ posted \subseteq traffic
  /\ sent \subseteq traffic
  /\ waited \subseteq posted \intersect sent

\* Without flow control nothing has happened, or everything.
AtOnce ==
  /\ \A p \in Procs : steps[p] = 0 /\ istep[p] = 0 /\ rstep[p] = 0
  /\ \/ (\A p \in Procs : pc[p] = "start") /\ posted = {} /\ sent = {}
     \/ (\A p \in Procs : pc[p] = "done") /\ posted = traffic /\ sent = traffic /\ waited = traffic

SwapInv ==
  /\ Types
  /\ ReadyBeforeSend
  /\ fc.max_pend_req = 0 => AtOnce
  /\ fc.max_pend_req # 0 => \A p \in Procs : ProcInv(p)

-----------------------------------------------------------------------------
(* The order of the partners                                               *)

LEMMA NatMin ==
  ASSUME NEW T, T \subseteq Nat, T # {}
  PROVE  \E m \in T : \A k \in T : m <= k
<1> DEFINE R == OpToRel(<, Nat)
<1>1. IsWellFoundedOn(R, Nat)
  BY NatLessThanWellFounded
<1>2. PICK m \in T : \A k \in T : ~(<<k, m>> \in R)
  <2> HIDE DEF R
  <2> QED BY <1>1, WFMin, Zenon
<1>3. \A k \in T : k < m => <<k, m>> \in R
  BY DEF OpToRel
<1> HIDE DEF R
<1>4. \A k \in T : m \in Nat /\ k \in Nat /\ ~(k < m)
  BY <1>2, <1>3
<1> QED BY <1>4

\* Each element of a finite set of numbers has its place in the order, and there is
\* one for each place.
LEMMA Places ==
  ASSUME NEW S, S \subseteq Nat, IsFiniteSet(S)
  PROVE  /\ \A s \in S : Cardinality({t \in S : t < s}) \in 0..Cardinality(S) - 1
         /\ \A s, u \in S : s < u => Cardinality({t \in S : t < s}) < Cardinality({t \in S : t < u})
         /\ \A i \in 0..Cardinality(S) - 1 : \E s \in S : Cardinality({t \in S : t < s}) = i
<1> DEFINE Below(s) == {t \in S : t < s}
           n == Cardinality(S)
           f == [s \in S |-> Cardinality(Below(s))]
<1>1. n \in Nat
  BY FS_CardinalityType
<1>2. \A s \in S : IsFiniteSet(Below(s)) /\ Cardinality(Below(s)) \in Nat
  <2> SUFFICES ASSUME NEW s \in S PROVE IsFiniteSet(Below(s)) /\ Cardinality(Below(s)) \in Nat
    OBVIOUS
  <2>1. Below(s) \in SUBSET S
    OBVIOUS
  <2> QED BY <2>1, FS_Subset, FS_CardinalityType
<1>3. \A s \in S : Cardinality(Below(s)) \in 0..n - 1
  <2> SUFFICES ASSUME NEW s \in S PROVE Cardinality(Below(s)) \in 0..n - 1
    OBVIOUS
  <2>1. IsFiniteSet(S \ {s}) /\ Cardinality(S \ {s}) = n - 1
    BY FS_RemoveElement
  <2>2. Below(s) \in SUBSET (S \ {s})
    OBVIOUS
  <2>3. Cardinality(Below(s)) <= n - 1
    BY <2>1, <2>2, FS_Subset
  <2> QED BY <1>1, <1>2, <2>3
<1>4. \A s, u \in S : s < u => Cardinality(Below(s)) < Cardinality(Below(u))
  <2> SUFFICES ASSUME NEW s \in S, NEW u \in S, s < u
               PROVE  Cardinality(Below(s)) < Cardinality(Below(u))
    OBVIOUS
  <2>1. IsFiniteSet(Below(s) \union {s}) /\ Cardinality(Below(s) \union {s}) = Cardinality(Below(s)) + 1
    <3>1. s \notin Below(s)
      OBVIOUS
    <3> HIDE DEF Below
    <3> QED BY <1>2, <3>1, FS_AddElement
  <2>2. Below(s) \union {s} \in SUBSET Below(u)
    <3>1. \A t \in S : t < s => t < u
      <4> SUFFICES ASSUME NEW t \in S, t < s PROVE t < u
        OBVIOUS
      <4>1. t \in Nat /\ s \in Nat /\ u \in Nat
        OBVIOUS
      <4> QED BY <4>1
    <3> QED BY <3>1
  <2>3. Cardinality(Below(s) \union {s}) <= Cardinality(Below(u))
    <3> HIDE DEF Below
    <3> QED BY <1>2, <2>2, FS_Subset
  <2> QED BY <1>2, <2>1, <2>3
<1>5. \A i \in 0..n - 1 : \E s \in S : Cardinality(Below(s)) = i
  <2>1. f \in Injection(S, 0..n - 1)
    <3>1. f \in [S -> 0..n - 1]
      BY <1>3
    <3>2. ASSUME NEW s \in S, NEW u \in S, f[s] = f[u] PROVE s = u
      <4>1. f[s] = Cardinality(Below(s)) /\ f[u] = Cardinality(Below(u))
        OBVIOUS
      <4>2. Cardinality(Below(s)) = Cardinality(Below(u))
        BY <3>2, <4>1
      <4> HIDE DEF f, Below
      <4>3. ~(s < u) /\ ~(u < s)
        BY <1>2, <1>4, <4>2
      <4>4. s \in Nat /\ u \in Nat
        OBVIOUS
      <4> QED BY ONLY <4>3, <4>4
    <3> HIDE DEF f
    <3> QED BY <3>1, <3>2 DEF Injection, IsInjective
  <2>2. IsFiniteSet(0..n - 1) /\ Cardinality(0..n - 1) = n
    <3> HIDE DEF n
    <3>1. 0 \in Int /\ n - 1 \in Int
      BY <1>1
    <3>2. Cardinality(0..n - 1) = IF 0 > n - 1 THEN 0 ELSE (n - 1) - 0 + 1
      BY <3>1, FS_Interval
    <3> QED BY <1>1, <3>1, <3>2, FS_Interval
  <2>3. f \in Surjection(S, 0..n - 1)
    <3> HIDE DEF f, n
    <3> QED BY <2>1, <2>2, FS_Injection DEF n
  <2>4. \A i \in 0..n - 1 : \E s \in S : f[s] = i
    <3> HIDE DEF f
    <3> QED BY <2>3 DEF Surjection
  <2> QED BY <2>4
<1> QED BY <1>3, <1>4, <1>5

\* The partner of p at the step given by their exclusive or, and no other step.
LEMMA PairFacts ==
  ASSUME NEW p \in Procs
  PROVE  /\ \A s \in 0..Ceil2 - 2 : Pair(s, p) >= 0 =>
              Pair(s, p) \in Procs \ {p} /\ Xor(p, Pair(s, p)) = s + 1
         /\ \A q \in Procs \ {p} : Xor(p, q) - 1 \in 0..Ceil2 - 2 /\ Pair(Xor(p, q) - 1, p) = q
<1>0. p \in Ranks /\ Procs \subseteq Ranks /\ Ranks \subseteq Nat
  BY SwapmAssumption DEF Procs, Ranks
<1>1. ASSUME NEW s \in 0..Ceil2 - 2, Pair(s, p) >= 0
      PROVE  Pair(s, p) \in Procs \ {p} /\ Xor(p, Pair(s, p)) = s + 1
  <2>1. s + 1 \in Ranks /\ s + 1 # 0
    BY SwapmAssumption DEF Ranks
  <2>2. Xor(s + 1, p) \in Ranks /\ Xor(s + 1, p) = Xor(p, s + 1)
    BY <1>0, <2>1, XorAssumption
  <2>3. Pair(s, p) = Xor(p, s + 1) /\ Pair(s, p) \in Procs
    BY <1>1, <2>2, SwapmAssumption DEF Pair, Procs, Ranks
  <2>4. Xor(p, Xor(p, s + 1)) = s + 1
    BY <1>0, <2>1, XorAssumption
  <2>5. Xor(p, p) = 0
    BY <1>0, XorAssumption
  <2> QED BY <2>1, <2>3, <2>4, <2>5
<1>2. ASSUME NEW q \in Procs \ {p}
      PROVE  Xor(p, q) - 1 \in 0..Ceil2 - 2 /\ Pair(Xor(p, q) - 1, p) = q
  <2>1. Xor(p, q) \in Ranks /\ Xor(p, q) # 0
    BY <1>0, XorAssumption
  <2>2. Xor(p, q) - 1 \in 0..Ceil2 - 2 /\ (Xor(p, q) - 1) + 1 = Xor(p, q)
    BY <2>1, SwapmAssumption DEF Ranks
  <2>3. Xor(Xor(p, q), p) = q
    <3>1. Xor(Xor(p, q), p) = Xor(p, Xor(p, q))
      BY <1>0, <2>1, XorAssumption
    <3> QED BY <1>0, <3>1, XorAssumption
  <2>4. q \in 0..NProcs - 1 /\ NProcs \in Nat
    BY SwapmAssumption DEF Procs
  <2> QED BY <2>2, <2>3, <2>4 DEF Pair
<1> QED BY <1>1, <1>2

\* What SwapOrder builds is in order, and leaves no partner out.
LEMMA SwapOrderFacts ==
  ASSUME NEW p \in Procs
  PROVE  LET n == Cardinality(PairSteps(p))
             o == SwapOrder(p)
         IN  /\ n \in Nat
             /\ o \in [0..n - 1 -> Procs \ {p}]
             /\ \A i, j \in 0..n - 1 : i < j => Xor(p, o[i]) < Xor(p, o[j])
             /\ \A q \in Procs \ {p} : Linked(p, q) => \E i \in 0..n - 1 : o[i] = q
             /\ \A i, j \in 0..n - 1 : i # j => o[i] # o[j]
<1> DEFINE S == PairSteps(p)
           n == Cardinality(S)
           o == SwapOrder(p)
           place(s) == Cardinality({t \in S : t < s})
           at(i) == CHOOSE s \in S : place(s) = i
<1>1. S \subseteq 0..Ceil2 - 2 /\ S \subseteq Nat /\ IsFiniteSet(S)
  <2>1. S \subseteq 0..Ceil2 - 2
    BY DEF PairSteps
  <2>2. IsFiniteSet(0..Ceil2 - 2)
    BY SwapmAssumption, FS_Interval
  <2>3. 0..Ceil2 - 2 \subseteq Nat
    BY SwapmAssumption
  <2> HIDE DEF S
  <2> QED BY <2>1, <2>2, <2>3, FS_Subset
<1>2. n \in Nat
  BY <1>1, FS_CardinalityType
<1>3. /\ \A s \in S : place(s) \in 0..n - 1
      /\ \A s, u \in S : s < u => place(s) < place(u)
      /\ \A i \in 0..n - 1 : \E s \in S : place(s) = i
  <2> HIDE DEF S
  <2> QED BY <1>1, Places
<1>4. \A i \in 0..n - 1 : at(i) \in S /\ place(at(i)) = i
  <2> HIDE DEF S, n, place
  <2> QED BY <1>3
<1>5. o = [i \in 0..n - 1 |-> Pair(at(i), p)]
  BY DEF SwapOrder
<1>6. \A s \in S : Pair(s, p) >= 0
  BY DEF PairSteps
<1>7. \A i \in 0..n - 1 : o[i] \in Procs \ {p} /\ Xor(p, o[i]) = at(i) + 1
  <2> HIDE DEF S, n, o, at
  <2> QED BY <1>1, <1>4, <1>5, <1>6, PairFacts
<1>8. o \in [0..n - 1 -> Procs \ {p}]
  <2> HIDE DEF n, o, at
  <2> QED BY <1>5, <1>7
<1>9. ASSUME NEW i \in 0..n - 1, NEW j \in 0..n - 1, i < j
      PROVE  Xor(p, o[i]) < Xor(p, o[j])
  <2>1. at(i) \in Nat /\ at(j) \in Nat /\ at(i) \in S /\ at(j) \in S
    BY <1>1, <1>4
  <2>2. ~(at(j) < at(i)) /\ at(i) # at(j)
    <3>1. place(at(i)) = i /\ place(at(j)) = j
      BY <1>4
    <3> HIDE DEF S, at, place, n
    <3> QED BY <1>2, <1>3, <1>9, <2>1, <3>1
  <2>3. at(i) < at(j)
    <3> HIDE DEF at
    <3> QED BY <2>1, <2>2
  <2> HIDE DEF at, o
  <2> QED BY <1>7, <2>1, <2>3
<1>10. ASSUME NEW q \in Procs \ {p}, Linked(p, q)
       PROVE  \E i \in 0..n - 1 : o[i] = q
  <2> DEFINE s == Xor(p, q) - 1
  <2>1. s \in 0..Ceil2 - 2 /\ Pair(s, p) = q
    BY PairFacts
  <2>2. s \in S
    <3>1. q >= 0
      BY SwapmAssumption DEF Procs
    <3> QED BY <1>10, <2>1, <3>1 DEF PairSteps, Linked
  <2>3. place(s) \in 0..n - 1
    BY <1>3, <2>2
  <2>4. at(place(s)) = s
    <3>1. at(place(s)) \in S /\ place(at(place(s))) = place(s)
      BY <1>4, <2>3
    <3>2. at(place(s)) \in Nat /\ s \in Nat
      BY <1>1, <2>2, <3>1
    <3> DEFINE u == at(place(s))
    <3>3. u \in S /\ u \in Nat /\ place(u) = place(s)
      BY <3>1, <3>2
    <3>4. ~(u < s) /\ ~(s < u)
      <4> HIDE DEF u, s, S, n, place, at
      <4> QED BY <1>2, <1>3, <2>2, <2>3, <3>3
    <3> HIDE DEF u, s, S, n, place, at
    <3> QED BY <3>2, <3>4 DEF u
  <2>5. o[place(s)] = q
    <3> HIDE DEF n, o, s, place, at
    <3> QED BY <1>5, <2>1, <2>3, <2>4
  <2> HIDE DEF n, o, place
  <2> QED BY <2>3, <2>5
<1>11. ASSUME NEW i \in 0..n - 1, NEW j \in 0..n - 1, i # j
       PROVE  o[i] # o[j]
  <2>1. Xor(p, o[i]) \in Nat /\ Xor(p, o[j]) \in Nat
    <3>1. at(i) \in Nat /\ at(j) \in Nat
      BY <1>1, <1>4
    <3> HIDE DEF S, n, o, at
    <3> QED BY <1>7, <3>1
  <2>2. i < j \/ j < i
    <3> HIDE DEF n
    <3> QED BY <1>2, <1>11
  <2> HIDE DEF n, o
  <2> QED BY <1>9, <2>1, <2>2
<1> QED BY <1>2, <1>8, <1>9, <1>10, <1>11

-----------------------------------------------------------------------------
(* The window                                                              *)

LEMMA MaxReqFacts ==
  ASSUME fc \in FlowControls, fc.max_pend_req # 0, NEW n \in Nat
  PROVE  /\ MaxReq(n) \in 0..n /\ MaxReqH(n) \in 0..n
         /\ n > 0 => MaxReq(n) > 0 /\ MaxReqH(n) > 0
         /\ MaxReqH(n) < MaxReq(n) \/ MaxReq(n) = n
         /\ MaxReqH(n) <= MaxReq(n)
<1> DEFINE m == fc.max_pend_req
<1>1. m \in Nat \/ m = -1
  BY SwapmAssumption DEF UnlimitedPendReq
<1>2. CASE n <= 1
  BY <1>2 DEF MaxReq, MaxReqH
<1>3. CASE n > 1 /\ m = 1
  BY <1>3 DEF MaxReq, MaxReqH
<1>4. CASE n > 1 /\ m > 1 /\ m < n
  <2>1. MaxReq(n) = m /\ MaxReqH(n) = m \div 2
    BY <1>1, <1>4 DEF MaxReq, MaxReqH
  <2>2. m \div 2 \in Int /\ 0 < m \div 2 /\ m \div 2 < m
    <3> HIDE DEF m
    <3> QED BY <1>1, <1>4
  <2> HIDE DEF m
  <2> QED BY <1>1, <1>4, <2>1, <2>2
<1>5. CASE n > 1 /\ m # 1 /\ ~(m > 1 /\ m < n)
  <2>1. MaxReq(n) = n /\ MaxReqH(n) = n
    BY <1>5 DEF MaxReq, MaxReqH
  <2> QED BY <2>1, <1>5
<1> HIDE DEF m
<1> QED BY <1>1, <1>2, <1>3, <1>4, <1>5

\* A process at a step has posted the receives of all steps up to it.
LEMMA PostedAhead ==
  ASSUME Types, fc.max_pend_req # 0, NEW p \in Procs, Ordered(p), Window(p),
         NEW i \in Steps(p), i <= istep[p]
  PROVE  i < rstep[p]
<1> DEFINE n == steps[p]
<1>1. n \in Nat /\ i \in 0..n - 1 /\ istep[p] \in 0..n /\ rstep[p] \in MaxReq(n)..n
  BY DEF Ordered, Window, Steps
<1>2. rstep[p] = n \/ rstep[p] >= MaxReq(n) + istep[p] - MaxReqH(n)
  BY DEF Window
<1>3. /\ MaxReq(n) \in 0..n /\ MaxReqH(n) \in 0..n
      /\ MaxReqH(n) < MaxReq(n) \/ MaxReq(n) = n
  BY <1>1, MaxReqFacts DEF Types
<1> HIDE DEF n
<1> QED BY <1>1, <1>2, <1>3

-----------------------------------------------------------------------------
(* One step                                                                *)

\* What a step of process p leaves as it is for the others.
OthersKept(p) ==
  /\ UNCHANGED inputs
  /\ \A r \in Procs \ {p} :
       /\ UNCHANGED <<pc[r], steps[r], swapids[r], istep[r], rstep[r]>>
       /\ \A q \in Procs :
            /\ <<q, r>> \in posted' <=> <<q, r>> \in posted
            /\ <<q, r>> \in waited' <=> <<q, r>> \in waited
            /\ <<q, r>> \in hssent' <=> <<q, r>> \in hssent
            /\ <<r, q>> \in sent' <=> <<r, q>> \in sent
            /\ <<r, q>> \in hsrcvs' <=> <<r, q>> \in hsrcvs
  /\ posted \subseteq posted'

LEMMA OtherKeeps ==
  ASSUME NEW p \in Procs, OthersKept(p), NEW r \in Procs, r # p, ProcInv(r)
  PROVE  ProcInv(r)'
<1>0. /\ UNCHANGED inputs
      /\ UNCHANGED <<pc[r], steps[r], swapids[r], istep[r], rstep[r]>>
      /\ \A q \in Procs :
            /\ <<q, r>> \in posted' <=> <<q, r>> \in posted
            /\ <<q, r>> \in waited' <=> <<q, r>> \in waited
            /\ <<q, r>> \in hssent' <=> <<q, r>> \in hssent
            /\ <<r, q>> \in sent' <=> <<r, q>> \in sent
            /\ <<r, q>> \in hsrcvs' <=> <<r, q>> \in hsrcvs
      /\ posted \subseteq posted'
  BY DEF OthersKept
<1>1. CASE pc[r] = "start"
  <2>1. NotBegun(r)
    BY <1>1 DEF ProcInv
  <2>2. NotBegun(r)'
    BY <1>0, <2>1 DEF NotBegun
  <2> QED BY <1>0, <1>1, <2>2 DEF ProcInv
<1>2. CASE pc[r] # "start"
  <2>0. /\ Ordered(r) /\ Window(r) /\ Receives(r) /\ Sends(r)
        /\ <<r, r>> \in traffic => <<r, r>> \in posted \intersect sent \intersect waited
    BY <1>2 DEF ProcInv
  <2>a. Steps(r)' = Steps(r) /\ \A i \in Steps(r) : swapids[r][i] \in Procs
    BY <1>0, <2>0 DEF Steps, Ordered
  <2>b. \A n : MaxReq(n)' = MaxReq(n) /\ MaxReqH(n)' = MaxReqH(n)
    BY <1>0 DEF MaxReq, MaxReqH, inputs
  <2>1. Ordered(r)'
    BY <1>0, <2>0, <2>a DEF Ordered, Linked, inputs
  <2>2. Window(r)'
    BY <1>0, <2>0, <2>b DEF Window
  <2>3. Receives(r)'
    BY ONLY <1>0, <2>0, <2>a, <2>b DEF Receives, inputs
  <2>4. Sends(r)'
    BY ONLY <1>0, <2>0, <2>a DEF Sends, inputs, Completes
  <2>5. (<<r, r>> \in traffic => <<r, r>> \in posted \intersect sent \intersect waited)'
    BY <1>0, <2>0 DEF inputs
  <2> QED BY <1>0, <1>2, <2>1, <2>2, <2>3, <2>4, <2>5 DEF ProcInv
<1> QED BY <1>1, <1>2

\* A step that keeps the types, the readiness and the invariant of its process keeps all.
LEMMA StepKeeps ==
  ASSUME SwapInv, fc.max_pend_req # 0, NEW p \in Procs,
         Types', ReadyBeforeSend', ProcInv(p)', OthersKept(p)
  PROVE  SwapInv'
<1>1. \A r \in Procs : ProcInv(r)'
  <2> SUFFICES ASSUME NEW r \in Procs PROVE ProcInv(r)'
    OBVIOUS
  <2>1. CASE r = p
    BY <2>1
  <2>2. CASE r # p
    <3>1. ProcInv(r)
      BY DEF SwapInv
    <3> QED BY <2>2, <3>1, OtherKeeps
  <2> QED BY <2>1, <2>2
<1>2. fc' = fc
  BY DEF OthersKept, inputs
<1> QED BY <1>1, <1>2 DEF SwapInv

LEMMA InvOf ==
  ASSUME SwapInv, fc.max_pend_req # 0, NEW p \in Procs, pc[p] # "start"
  PROVE  /\ Types /\ Ordered(p) /\ Window(p) /\ Receives(p) /\ Sends(p)
         /\ <<p, p>> \in traffic => <<p, p>> \in posted \intersect sent \intersect waited
         /\ ReadyBeforeSend
         /\ steps[p] \in Nat /\ istep[p] \in 0..steps[p] /\ rstep[p] \in 0..steps[p]
         /\ \A i \in Steps(p) : swapids[p][i] \in Procs \ {p}
         /\ \A i, j \in Steps(p) : i # j => swapids[p][i] # swapids[p][j]
<1>1. /\ Types /\ Ordered(p) /\ Window(p) /\ Receives(p) /\ Sends(p)
      /\ <<p, p>> \in traffic => <<p, p>> \in posted \intersect sent \intersect waited
      /\ ReadyBeforeSend
  BY DEF SwapInv, ProcInv
<1>2. steps[p] \in Nat /\ istep[p] \in 0..steps[p] /\ rstep[p] \in 0..steps[p]
  <2>1. steps[p] \in Nat /\ istep[p] \in 0..steps[p] /\ rstep[p] \in MaxReq(steps[p])..steps[p]
    BY <1>1 DEF Ordered, Window
  <2>2. MaxReq(steps[p]) \in 0..steps[p]
    BY <1>1, <2>1, MaxReqFacts DEF Types
  <2> QED BY <2>1, <2>2
<1>3. \A i \in Steps(p) : swapids[p][i] \in Procs \ {p}
  BY <1>1 DEF Ordered
<1>4. ASSUME NEW i \in Steps(p), NEW j \in Steps(p), i # j
      PROVE  swapids[p][i] # swapids[p][j]
  <2>1. i \in Int /\ j \in Int
    BY DEF Steps
  <2>2. p \in Ranks /\ swapids[p][i] \in Ranks /\ Xor(p, swapids[p][i]) \in Int
    <3>1. p \in Ranks /\ swapids[p][i] \in Ranks
      BY <1>3, SwapmAssumption DEF Procs, Ranks
    <3> QED BY <3>1, XorAssumption DEF Ranks
  <2>3. CASE i < j
    BY <1>1, <2>2, <2>3 DEF Ordered
  <2>4. CASE j < i
    BY <1>1, <2>2, <2>4 DEF Ordered
  <2> QED BY <1>4, <2>1, <2>3, <2>4
<1> QED BY <1>1, <1>2, <1>3, <1>4

LEMMA TrafficType ==
  ASSUME Types
  PROVE  traffic \subseteq Procs \X Procs
  BY SwapmAssumption DEF Types

LEMMA InitSwapInv == Init => SwapInv
<1> SUFFICES ASSUME Init PROVE SwapInv
  OBVIOUS
<1>1. Types
  BY DEF Init, Types
<1>2. ReadyBeforeSend
  BY DEF Init, ReadyBeforeSend
<1>3. AtOnce
  BY DEF Init, AtOnce
<1>4. ASSUME NEW p \in Procs PROVE ProcInv(p)
  BY DEF Init, ProcInv, NotBegun
<1> QED BY <1>1, <1>2, <1>3, <1>4 DEF SwapInv

LEMMA AlltoallwKeeps == SwapInv /\ Alltoallw => SwapInv'
<1> SUFFICES ASSUME SwapInv, Alltoallw PROVE SwapInv'
  OBVIOUS
<1>1. Types /\ AtOnce
  BY DEF SwapInv, Alltoallw
<1>2. Types'
  <2>1. hssent' \subseteq posted'
    BY <1>1 DEF Types, Alltoallw
  <2>2. pc' \in [Procs -> {"start", "send", "sending", "recv", "done"}]
    BY DEF Alltoallw
  <2> QED BY <1>1, <2>1, <2>2 DEF Types, Alltoallw, inputs
<1>3. ReadyBeforeSend'
  BY DEF Alltoallw, ReadyBeforeSend
<1>4. AtOnce'
  BY <1>1 DEF AtOnce, Alltoallw, inputs
<1> QED BY <1>2, <1>3, <1>4 DEF SwapInv, Alltoallw, inputs

LEMMA BeginKeeps ==
  ASSUME SwapInv, NEW p \in Procs, Begin(p)
  PROVE  SwapInv'
<1> DEFINE n == Cardinality(PairSteps(p))
           o == SwapOrder(p)
           M == MaxReq(n)
           self == {<<p, p>>} \intersect traffic
           first == {o[i] : i \in 0..M - 1}
           data == {<<q, p>> : q \in first} \intersect traffic
<1>0. /\ pc[p] = "start" /\ fc.max_pend_req # 0
      /\ steps' = [steps EXCEPT ![p] = n]
      /\ swapids' = [swapids EXCEPT ![p] = o]
      /\ pc' = [pc EXCEPT ![p] = IF n = 0 THEN "done" ELSE "send"]
      /\ hsrcvs' = IF fc.hs THEN hsrcvs \union (({p} \X first) \intersect traffic) ELSE hsrcvs
      /\ posted' = posted \union data \union self
      /\ hssent' = IF fc.hs THEN hssent \union data ELSE hssent
      /\ sent' = sent \union self
      /\ waited' = waited \union self
      /\ rstep' = [rstep EXCEPT ![p] = M]
      /\ UNCHANGED <<inputs, istep>>
  BY DEF Begin, PostReceives
<1>1. Types /\ ReadyBeforeSend /\ NotBegun(p)
  BY <1>0 DEF SwapInv, ProcInv
<1>2. /\ n \in Nat
      /\ o \in [0..n - 1 -> Procs \ {p}]
      /\ \A i, j \in 0..n - 1 : i < j => Xor(p, o[i]) < Xor(p, o[j])
      /\ \A q \in Procs \ {p} : Linked(p, q) => \E i \in 0..n - 1 : o[i] = q
      /\ \A i, j \in 0..n - 1 : i # j => o[i] # o[j]
  BY SwapOrderFacts
<1> HIDE DEF n, o
<1>3. /\ M \in 0..n /\ MaxReqH(n) \in 0..n
      /\ MaxReqH(n) <= M /\ (n > 0 => M > 0)
  BY <1>0, <1>1, <1>2, MaxReqFacts DEF Types
<1>4. \A k : MaxReq(k)' = MaxReq(k) /\ MaxReqH(k)' = MaxReqH(k)
  BY <1>0 DEF MaxReq, MaxReqH, inputs
<1>5. /\ steps'[p] = n /\ swapids'[p] = o /\ istep'[p] = 0 /\ rstep'[p] = M
      /\ pc'[p] = IF n = 0 THEN "done" ELSE "send"
  BY <1>0, <1>1 DEF Types, NotBegun
<1>6. Steps(p)' = 0..n - 1 /\ traffic' = traffic /\ fc' = fc
  BY <1>0, <1>5 DEF Steps, inputs
<1>7. traffic \subseteq Procs \X Procs
  BY <1>1, TrafficType
<1>8. \A i \in 0..n - 1 : o[i] \in Procs /\ o[i] # p
  BY <1>2
<1>9. Types'
  <2>1. pc' \in [Procs -> {"start", "send", "sending", "recv", "done"}]
    BY <1>0, <1>1 DEF Types
  <2>2. steps' \in [Procs -> Nat] /\ rstep' \in [Procs -> Nat] /\ istep' \in [Procs -> Nat]
    BY <1>0, <1>1, <1>2, <1>3 DEF Types
  <2>3. DOMAIN swapids' = Procs
    BY <1>0, <1>1 DEF Types
  <2>4. hsrcvs' \subseteq traffic /\ posted' \subseteq traffic /\ sent' \subseteq traffic
    BY <1>0, <1>1 DEF Types
  <2>5. hssent' \subseteq posted' /\ waited' \subseteq posted' \intersect sent'
    BY <1>0, <1>1 DEF Types
  <2> QED BY <1>0, <1>1, <2>1, <2>2, <2>3, <2>4, <2>5 DEF Types, inputs
<1>10. ReadyBeforeSend'
  BY <1>0, <1>1, <1>6 DEF ReadyBeforeSend
<1>11. OthersKept(p)
  <2>1. \A r \in Procs \ {p} : UNCHANGED <<pc[r], steps[r], swapids[r], istep[r], rstep[r]>>
    BY <1>0, <1>1 DEF Types
  <2>2. \A c \in data \union self : c[2] = p
    OBVIOUS
  <2>3. \A c \in self \union (({p} \X first) \intersect traffic) : c[1] = p
    OBVIOUS
  <2> HIDE DEF data, self, first
  <2> QED BY <1>0, <2>1, <2>2, <2>3 DEF OthersKept
<1>12. Ordered(p)'
  BY <1>2, <1>5, <1>6, SMTT(30) DEF Ordered, Linked
<1>13. Window(p)'
  <2>1. MaxReq(steps[p])' = M /\ MaxReqH(steps[p])' = MaxReqH(n)
    BY <1>5, <1>6 DEF MaxReq, MaxReqH
  <2> HIDE DEF M
  <2> QED BY <1>2, <1>3, <1>5, <2>1 DEF Window
<1>14. Receives(p)'
  <2> SUFFICES ASSUME NEW i \in 0..n - 1
               PROVE  /\ <<o[i], p>> \in posted' <=> <<o[i], p>> \in traffic /\ i < M
                      /\ <<o[i], p>> \notin waited' /\ pc'[p] # "done" /\ ~(i + MaxReqH(n) < 0)
                      /\ fc.hs => (<<o[i], p>> \in hssent' <=> <<o[i], p>> \in posted')
                      /\ fc.hs => (<<p, o[i]>> \in hsrcvs' <=> <<p, o[i]>> \in traffic /\ i < M)
    <3>1. MaxReqH(steps[p])' = MaxReqH(n)
      BY <1>5, <1>6 DEF MaxReqH
    <3> HIDE DEF data, first, self, M
    <3> QED BY <1>5, <1>6, <3>1 DEF Receives
  <2>1. o[i] \in Procs /\ o[i] # p /\ i \in Nat /\ n > 0
    BY <1>2, <1>8
  <2>2. /\ <<o[i], p>> \notin posted /\ <<o[i], p>> \notin waited /\ <<o[i], p>> \notin hssent
        /\ <<p, o[i]>> \notin hsrcvs
    BY <1>1, <2>1 DEF NotBegun
  <2>3. o[i] \in first <=> i < M
    <3>1. i \in 0..M - 1 => o[i] \in first
      OBVIOUS
    <3>2. \A j \in 0..M - 1 : o[j] = o[i] => j = i
      BY <1>2, <1>3
    <3>3. i \in 0..M - 1 <=> i < M
      BY <1>2, <1>3, <2>1
    <3> QED BY <3>1, <3>2, <3>3
  <2>4. <<o[i], p>> \notin self /\ (<<o[i], p>> \in data <=> <<o[i], p>> \in traffic /\ o[i] \in first)
    BY <2>1
  <2>5. <<p, o[i]>> \in ({p} \X first) \intersect traffic <=> <<p, o[i]>> \in traffic /\ o[i] \in first
    OBVIOUS
  <2> HIDE DEF data, first, self, M
  <2>6. ~(i + MaxReqH(n) < 0) /\ pc'[p] # "done"
    BY <1>2, <1>3, <1>5, <2>1
  <2> QED BY <1>0, <2>2, <2>3, <2>4, <2>5, <2>6
<1>15. Sends(p)'
  <2> SUFFICES ASSUME NEW i \in 0..n - 1 PROVE <<p, o[i]>> \notin sent' /\ ~(i < 0) /\ pc'[p] = "send"
    BY <1>5, <1>6 DEF Sends
  <2>1. o[i] \in Procs /\ o[i] # p /\ i \in Nat /\ n # 0
    BY <1>2, <1>8
  <2>2. <<p, o[i]>> \notin sent
    BY <1>1, <2>1 DEF NotBegun
  <2> QED BY <1>0, <1>5, <2>1, <2>2
<1>16. (<<p, p>> \in traffic => <<p, p>> \in posted \intersect sent \intersect waited)'
  BY <1>0, <1>6
<1>17. ProcInv(p)'
  BY <1>5, <1>12, <1>13, <1>14, <1>15, <1>16 DEF ProcInv
<1> QED BY <1>0, <1>9, <1>10, <1>11, <1>17, StepKeeps

\* What a process at a step knows of the channel to its current partner.
LEMMA CurrentPartner ==
  ASSUME SwapInv, fc.max_pend_req # 0, NEW p \in Procs, pc[p] # "start", istep[p] < steps[p]
  PROVE  LET q == swapids[p][istep[p]]
         IN  /\ istep[p] \in Steps(p) /\ istep[p] < rstep[p] /\ q \in Procs /\ q # p
             /\ fc.hs => (<<p, q>> \in hsrcvs <=> <<p, q>> \in traffic)
<1>1. /\ Types /\ Ordered(p) /\ Window(p) /\ Receives(p)
      /\ steps[p] \in Nat /\ istep[p] \in 0..steps[p]
      /\ \A i \in Steps(p) : swapids[p][i] \in Procs \ {p}
  BY InvOf
<1>2. istep[p] \in Steps(p) /\ istep[p] <= istep[p]
  BY <1>1 DEF Steps
<1>3. istep[p] < rstep[p]
  BY <1>1, <1>2, PostedAhead
<1> QED BY <1>1, <1>2, <1>3 DEF Receives

LEMMA SendKeeps ==
  ASSUME SwapInv, fc.max_pend_req # 0, NEW p \in Procs, Send(p)
  PROVE  SwapInv'
<1> DEFINE n == steps[p]
           i0 == istep[p]
           q0 == swapids[p][i0]
           c0 == <<p, q0>>
<1>0. /\ pc[p] = "send" /\ i0 < n
      /\ UNCHANGED <<inputs, steps, swapids, istep, rstep, hsrcvs, hssent, posted, waited>>
  BY DEF Send
<1>1. \/ /\ c0 \in traffic /\ HandshakeDone(p)
         /\ sent' = sent \union {c0}
         /\ pc' = [pc EXCEPT ![p] = IF fc.isend \/ eager THEN "recv" ELSE "sending"]
      \/ c0 \notin traffic /\ sent' = sent /\ pc' = [pc EXCEPT ![p] = "recv"]
  BY DEF Send
<1>2. /\ Types /\ Ordered(p) /\ Window(p) /\ Receives(p) /\ Sends(p) /\ ReadyBeforeSend
      /\ <<p, p>> \in traffic => <<p, p>> \in posted \intersect sent \intersect waited
      /\ n \in Nat /\ i0 \in 0..n
      /\ \A i \in Steps(p) : swapids[p][i] \in Procs \ {p}
      /\ \A i, j \in Steps(p) : i # j => swapids[p][i] # swapids[p][j]
  BY <1>0, InvOf
<1>3. /\ i0 \in Steps(p) /\ q0 \in Procs /\ q0 # p
      /\ fc.hs => (c0 \in hsrcvs <=> c0 \in traffic)
  BY <1>0, CurrentPartner
<1>4. pc'[p] \in {"sending", "recv"} /\ pc' \in [Procs -> {"start", "send", "sending", "recv", "done"}]
  BY <1>1, <1>2 DEF Types
<1>5. \A c \in sent' : c \in sent \/ (c = c0 /\ c0 \in traffic)
  BY <1>1
<1>6. Types'
  BY <1>0, <1>2, <1>4, <1>1 DEF Types, inputs
<1>7. ReadyBeforeSend'
  <2>1. ASSUME fc.hs, c0 \in traffic PROVE c0 \in posted
    BY <1>1, <1>2, <1>3, <2>1 DEF HandshakeDone, Types
  <2> QED BY <1>0, <1>2, <1>5, <2>1 DEF ReadyBeforeSend, inputs
<1>8. OthersKept(p)
  <2>1. \A r \in Procs \ {p} : pc'[r] = pc[r]
    BY <1>1, <1>2 DEF Types
  <2>2. \A r \in Procs \ {p}, q \in Procs : <<r, q>> \in sent' <=> <<r, q>> \in sent
    BY <1>1
  <2> QED BY <1>0, <2>1, <2>2 DEF OthersKept
<1>9. Steps(p)' = Steps(p) /\ traffic' = traffic /\ fc' = fc /\ eager' = eager
      /\ \A k : MaxReq(k)' = MaxReq(k) /\ MaxReqH(k)' = MaxReqH(k)
  BY <1>0 DEF Steps, inputs, MaxReq, MaxReqH
<1>10. Ordered(p)'
  BY <1>0, <1>2, <1>9 DEF Ordered, Linked
<1>11. Window(p)'
  BY <1>0, <1>2, <1>4, <1>9 DEF Window
<1>12. Receives(p)'
  BY ONLY <1>0, <1>2, <1>4, <1>9 DEF Receives
<1>13. Sends(p)'
  <2> SUFFICES ASSUME NEW i \in Steps(p)
               PROVE  /\ i = i0 /\ pc'[p] = "sending" => <<p, swapids[p][i]>> \in traffic
                      /\ <<p, swapids[p][i]>> \in sent' <=> <<p, swapids[p][i]>> \in traffic /\ i <= i0
                      /\ <<p, swapids[p][i]>> \in sent' /\ ~(i = i0 /\ pc'[p] = "sending") /\ ~fc.isend
                           => Completes(<<p, swapids[p][i]>>)
    <3>1. \A i \in Steps(p) : i <= i0 <=> (i < i0 \/ (i = i0 /\ pc'[p] \in {"sending", "recv"}))
      BY <1>2, <1>4 DEF Steps
    <3> QED BY <1>0, <1>4, <1>9, <3>1 DEF Sends, Completes
  <2> DEFINE c == <<p, swapids[p][i]>>
  <2>1. /\ c \in sent <=> c \in traffic /\ i < i0
        /\ c \in sent /\ ~fc.isend => Completes(c)
    BY <1>0, <1>2 DEF Sends
  <2>2. c = c0 <=> i = i0
    BY <1>2, <1>3
  <2>3. i \in Int /\ i0 \in Int
    BY <1>2 DEF Steps
  <2>4. CASE i # i0
    <3>1. c \in sent' <=> c \in sent
      BY <1>1, <2>2, <2>4
    <3> QED BY <2>1, <2>3, <2>4, <3>1
  <2>5. CASE i = i0
    <3>1. c \in sent' <=> c \in traffic
      BY <1>1, <1>2, <2>2, <2>5 DEF Types
    <3>2. ASSUME c \in sent', pc'[p] # "sending", ~fc.isend PROVE Completes(c)
      <4>1. c0 \in traffic
        BY <2>2, <2>5, <3>1, <3>2
      <4>2. eager
        BY <1>1, <1>2, <3>2, <4>1 DEF Types
      <4> QED BY <4>2 DEF Completes
    <3>3. pc'[p] = "sending" => c0 \in traffic
      BY <1>1, <1>2 DEF Types
    <3> QED BY <2>3, <2>5, <3>1, <3>2, <3>3
  <2> QED BY <2>4, <2>5
<1>14. (<<p, p>> \in traffic => <<p, p>> \in posted \intersect sent \intersect waited)'
  BY <1>0, <1>1, <1>2, <1>9
<1>15. ProcInv(p)'
  BY <1>4, <1>10, <1>11, <1>12, <1>13, <1>14 DEF ProcInv
<1> QED BY <1>6, <1>7, <1>8, <1>15, StepKeeps

LEMMA SendReturnsKeeps ==
  ASSUME SwapInv, fc.max_pend_req # 0, NEW p \in Procs, SendReturns(p)
  PROVE  SwapInv'
<1> DEFINE i0 == istep[p]
           c0 == <<p, swapids[p][i0]>>
<1>0. /\ pc[p] = "sending" /\ Completes(c0) /\ pc' = [pc EXCEPT ![p] = "recv"]
      /\ UNCHANGED <<inputs, steps, swapids, istep, rstep, hsrcvs, hssent, posted, sent, waited>>
  BY DEF SendReturns
<1>1. /\ Types /\ Ordered(p) /\ Window(p) /\ Receives(p) /\ Sends(p) /\ ReadyBeforeSend
      /\ <<p, p>> \in traffic => <<p, p>> \in posted \intersect sent \intersect waited
  BY <1>0, InvOf
<1>2. pc'[p] = "recv" /\ pc' \in [Procs -> {"start", "send", "sending", "recv", "done"}]
  BY <1>0, <1>1 DEF Types
<1>3. Types'
  BY <1>0, <1>1, <1>2 DEF Types, inputs
<1>4. ReadyBeforeSend'
  BY <1>0, <1>1 DEF ReadyBeforeSend, inputs
<1>5. OthersKept(p)
  <2>1. \A r \in Procs \ {p} : pc'[r] = pc[r]
    BY <1>0, <1>1 DEF Types
  <2> QED BY <1>0, <2>1 DEF OthersKept
<1>6. Steps(p)' = Steps(p) /\ traffic' = traffic /\ fc' = fc /\ eager' = eager
      /\ \A k : MaxReq(k)' = MaxReq(k) /\ MaxReqH(k)' = MaxReqH(k)
  BY <1>0 DEF Steps, inputs, MaxReq, MaxReqH
<1>7. Ordered(p)' /\ Window(p)'
  BY <1>0, <1>1, <1>2, <1>6 DEF Ordered, Linked, Window
<1>8. Receives(p)'
  BY ONLY <1>0, <1>1, <1>2, <1>6 DEF Receives
<1>9. Sends(p)'
  BY ONLY <1>0, <1>1, <1>2, <1>6 DEF Sends, Completes
<1>10. ProcInv(p)'
  BY <1>0, <1>1, <1>2, <1>6, <1>7, <1>8, <1>9 DEF ProcInv
<1> QED BY <1>3, <1>4, <1>5, <1>10, StepKeeps

LEMMA RecvKeeps ==
  ASSUME SwapInv, fc.max_pend_req # 0, NEW p \in Procs, Recv(p)
  PROVE  SwapInv'
<1> DEFINE n == steps[p]
           i0 == istep[p]
           r0 == rstep[p]
           M == MaxReq(n)
           H == MaxReqH(n)
           old == Oldest(p)
           refill == i0 >= H /\ r0 < n
           new == IF refill THEN {<<swapids[p][r0], p>>} \intersect traffic ELSE {}
           hs == IF refill /\ fc.hs THEN {<<p, swapids[p][r0]>>} \intersect traffic ELSE {}
<1>0. /\ pc[p] = "recv" /\ old \subseteq sent /\ waited' = waited \union old
      /\ istep' = [istep EXCEPT ![p] = @ + 1] /\ pc' = [pc EXCEPT ![p] = "send"]
      /\ UNCHANGED <<inputs, steps, swapids, sent>>
  BY DEF Recv
<1>1. /\ posted' = posted \union new
      /\ hssent' = IF fc.hs THEN hssent \union new ELSE hssent
      /\ hsrcvs' = hsrcvs \union hs
      /\ rstep' = [rstep EXCEPT ![p] = IF refill THEN r0 + 1 ELSE r0]
  <2>0. rstep \in [Procs -> Nat]
    BY DEF SwapInv, Types
  <2>1. CASE refill
    <3>1. /\ posted' = posted \union new
          /\ hssent' = IF fc.hs THEN hssent \union new ELSE hssent
      BY <2>1 DEF Recv, PostReceives
    <3>2. hsrcvs' = hsrcvs \union hs
      BY <2>1 DEF Recv
    <3>3. rstep' = [rstep EXCEPT ![p] = r0 + 1]
      BY <2>1 DEF Recv
    <3> HIDE DEF new, hs
    <3> QED BY <2>1, <3>1, <3>2, <3>3
  <2>2. CASE ~refill
    <3>1. UNCHANGED <<hsrcvs, posted, hssent, rstep>>
      BY <2>2 DEF Recv
    <3> QED BY <2>0, <2>2, <3>1
  <2> QED BY <2>1, <2>2
<1>2. /\ Types /\ Ordered(p) /\ Window(p) /\ Receives(p) /\ Sends(p) /\ ReadyBeforeSend
      /\ <<p, p>> \in traffic => <<p, p>> \in posted \intersect sent \intersect waited
      /\ n \in Nat /\ i0 \in 0..n /\ r0 \in 0..n /\ i0 < n
      /\ \A i \in Steps(p) : swapids[p][i] \in Procs \ {p}
      /\ \A i, j \in Steps(p) : i # j => swapids[p][i] # swapids[p][j]
  BY <1>0, InvOf DEF Window
<1>3. /\ M \in 0..n /\ H \in 0..n /\ H <= M
      /\ r0 \in M..n
      /\ r0 = n \/ r0 >= M + i0 - H
      /\ r0 <= M \/ r0 <= M + i0 - H
  BY <1>2, MaxReqFacts DEF Window, Types
<1>4. pc'[p] = "send" /\ pc' \in [Procs -> {"start", "send", "sending", "recv", "done"}]
      /\ istep'[p] = i0 + 1 /\ rstep'[p] = IF refill THEN r0 + 1 ELSE r0
  BY <1>0, <1>1, <1>2 DEF Types
<1>5. /\ new \subseteq traffic /\ hs \subseteq traffic
      /\ \A c \in new \union old : c[2] = p
      /\ \A c \in hs : c[1] = p
      /\ old \subseteq posted
  BY DEF Oldest, Pending
<1>6. \A i \in Steps(p) : <<swapids[p][i], p>> \in old <=> i = i0 - H /\ <<swapids[p][i], p>> \in Pending(p)
  <2> SUFFICES ASSUME NEW i \in Steps(p)
               PROVE  <<swapids[p][i], p>> \in old <=> i = i0 - H /\ <<swapids[p][i], p>> \in Pending(p)
    OBVIOUS
  <2>1. old = Pending(p) \intersect {<<swapids[p][j], p>> : j \in {i0 - H} \intersect Nat}
    BY DEF Oldest
  <2>2. i \in Nat
    BY <1>2 DEF Steps
  <2>3. \A j \in {i0 - H} \intersect Nat : j \in Steps(p)
    BY <1>2, <1>3 DEF Steps
  <2> HIDE DEF old, H, i0
  <2> QED BY <1>2, <2>1, <2>2, <2>3
<1>7. \A i \in Steps(p) : <<swapids[p][i], p>> \in new <=> <<swapids[p][i], p>> \in traffic /\ refill /\ i = r0
  <2>1. refill => r0 \in Steps(p)
    BY <1>2 DEF Steps
  <2> HIDE DEF refill, r0
  <2> QED BY <1>2, <2>1
<1>8. \A i \in Steps(p) : <<p, swapids[p][i]>> \in hs <=> <<p, swapids[p][i]>> \in traffic /\ refill /\ fc.hs /\ i = r0
  <2>1. refill => r0 \in Steps(p)
    BY <1>2 DEF Steps
  <2> HIDE DEF refill, r0
  <2> QED BY <1>2, <2>1
<1> HIDE DEF old, new, hs
<1>9. Types'
  <2>1. istep' \in [Procs -> Nat] /\ rstep' \in [Procs -> Nat]
    BY <1>0, <1>1, <1>2 DEF Types
  <2>2. posted' \subseteq traffic /\ hsrcvs' \subseteq traffic /\ hssent' \subseteq posted'
    BY <1>1, <1>2, <1>5 DEF Types
  <2>3. waited' \subseteq posted' \intersect sent
    BY <1>0, <1>1, <1>2, <1>5 DEF Types
  <2> QED BY <1>0, <1>2, <1>4, <2>1, <2>2, <2>3 DEF Types, inputs
<1>10. ReadyBeforeSend'
  BY <1>0, <1>1, <1>2 DEF ReadyBeforeSend, inputs
<1>11. OthersKept(p)
  <2>1. \A r \in Procs \ {p} : UNCHANGED <<pc[r], istep[r], rstep[r]>>
    BY <1>0, <1>1, <1>2 DEF Types
  <2>2. \A r \in Procs \ {p}, q \in Procs :
          /\ <<q, r>> \in posted' <=> <<q, r>> \in posted
          /\ <<q, r>> \in waited' <=> <<q, r>> \in waited
          /\ <<q, r>> \in hssent' <=> <<q, r>> \in hssent
          /\ <<r, q>> \in hsrcvs' <=> <<r, q>> \in hsrcvs
    BY <1>0, <1>1, <1>5
  <2> QED BY <1>0, <1>1, <2>1, <2>2 DEF OthersKept
<1>12. Steps(p)' = Steps(p) /\ traffic' = traffic /\ fc' = fc /\ eager' = eager
       /\ MaxReq(steps[p])' = M /\ MaxReqH(steps[p])' = H /\ swapids'[p] = swapids[p] /\ steps'[p] = n
  BY <1>0 DEF Steps, inputs, MaxReq, MaxReqH
<1>13. Ordered(p)'
  BY <1>0, <1>2, <1>12 DEF Ordered, Linked
<1> HIDE DEF M, H, n, i0, r0
<1>14. Window(p)'
  <2>1. CASE refill
    BY <1>2, <1>3, <1>4, <1>12, <2>1 DEF Window
  <2>2. CASE ~refill
    <3>1. i0 < H \/ r0 = n
      BY <1>2, <1>3, <2>2
    <3> HIDE DEF refill
    <3> QED BY <1>2, <1>3, <1>4, <1>12, <2>2, <3>1 DEF Window
  <2> QED BY <2>1, <2>2
<1>15. ASSUME NEW i \in Steps(p)
       PROVE  LET q == swapids[p][i] IN
              /\ <<q, p>> \in posted' <=> <<q, p>> \in traffic /\ i < rstep'[p]
              /\ <<q, p>> \in waited' <=> <<q, p>> \in traffic /\ i + H < i0 + 1
              /\ fc.hs => (<<q, p>> \in hssent' <=> <<q, p>> \in posted')
              /\ fc.hs => (<<p, q>> \in hsrcvs' <=> <<p, q>> \in traffic /\ i < rstep'[p])
  <2> DEFINE q == swapids[p][i]
  <2>1. /\ <<q, p>> \in posted <=> <<q, p>> \in traffic /\ i < r0
        /\ <<q, p>> \in waited <=> <<q, p>> \in traffic /\ i + H < i0
        /\ fc.hs => (<<q, p>> \in hssent <=> <<q, p>> \in posted)
        /\ fc.hs => (<<p, q>> \in hsrcvs <=> <<p, q>> \in traffic /\ i < r0)
    BY <1>0, <1>2 DEF Receives, r0, H, n, i0
  <2>2. i \in 0..n - 1
    BY DEF Steps, n
  <2>3. i < rstep'[p] <=> i < r0 \/ (refill /\ i = r0)
    BY <1>2, <1>4, <2>2
  <2>4. i = i0 - H => i < r0
    <3>1. ASSUME i = i0 - H PROVE i <= i0
      BY <1>2, <1>3, <3>1
    <3> QED BY <1>2, <3>1, PostedAhead DEF r0, i0
  <2>5. i + H < i0 + 1 <=> i + H < i0 \/ i = i0 - H
    BY <1>2, <1>3, <2>2
  <2>6. i = i0 - H => ~(i + H < i0)
    BY <1>2, <1>3, <2>2
  <2>7. <<q, p>> \in old <=> <<q, p>> \in traffic /\ i = i0 - H
    BY <1>6, <2>1, <2>4, <2>6 DEF Pending
  <2> HIDE DEF refill
  <2> QED BY <1>0, <1>1, <1>7, <1>8, <2>1, <2>3, <2>5, <2>7
<1>16. Receives(p)'
  BY <1>4, <1>12, <1>15 DEF Receives
<1>17. ASSUME NEW i \in Steps(p)
       PROVE  LET c == <<p, swapids[p][i]>> IN
              /\ c \in sent <=> c \in traffic /\ i < i0 + 1
              /\ c \in sent /\ ~fc.isend => Completes(c)'
  <2>1. i \in Int /\ i0 \in Int
    BY <1>2 DEF Steps, n
  <2>2. i < i0 + 1 <=> i < i0 \/ i = i0
    BY <2>1
  <2>3. \A c : Completes(c) => Completes(c)'
    BY <1>0, <1>1 DEF Completes, inputs
  <2> QED BY <1>0, <1>2, <2>2, <2>3 DEF Sends, i0
<1>18. Sends(p)'
  <2>1. \A i \in Steps(p) : ~(i = istep'[p] /\ pc'[p] \in {"sending", "recv"}) /\ pc'[p] # "done"
    BY <1>4
  <2> QED BY <1>0, <1>4, <1>12, <1>17, <2>1 DEF Sends
<1>19. (<<p, p>> \in traffic => <<p, p>> \in posted \intersect sent \intersect waited)'
  BY <1>0, <1>1, <1>2, <1>12
<1>20. ProcInv(p)'
  BY <1>4, <1>13, <1>14, <1>16, <1>18, <1>19 DEF ProcInv
<1> QED BY <1>9, <1>10, <1>11, <1>20, StepKeeps

LEMMA FinishKeeps ==
  ASSUME SwapInv, fc.max_pend_req # 0, NEW p \in Procs, Finish(p)
  PROVE  SwapInv'
<1>0. /\ pc[p] = "send" /\ istep[p] = steps[p] /\ Pending(p) \subseteq sent
      /\ fc.isend => \A c \in sent : c[1] = p => Completes(c)
      /\ waited' = waited \union Pending(p)
      /\ pc' = [pc EXCEPT ![p] = "done"]
      /\ UNCHANGED <<inputs, steps, swapids, istep, rstep, hsrcvs, hssent, posted, sent>>
  BY DEF Finish
<1>1. /\ Types /\ Ordered(p) /\ Window(p) /\ Receives(p) /\ Sends(p) /\ ReadyBeforeSend
      /\ <<p, p>> \in traffic => <<p, p>> \in posted \intersect sent \intersect waited
      /\ steps[p] \in Nat
      /\ \A i \in Steps(p) : swapids[p][i] \in Procs \ {p}
  BY <1>0, InvOf
<1>2. pc'[p] = "done" /\ pc' \in [Procs -> {"start", "send", "sending", "recv", "done"}]
  BY <1>0, <1>1 DEF Types
<1>3. Pending(p) \subseteq posted /\ \A c \in Pending(p) : c[2] = p
  BY DEF Pending
<1>4. Types'
  BY <1>0, <1>1, <1>2, <1>3 DEF Types, inputs
<1>5. ReadyBeforeSend'
  BY <1>0, <1>1 DEF ReadyBeforeSend, inputs
<1>6. OthersKept(p)
  <2>1. \A r \in Procs \ {p} : pc'[r] = pc[r]
    BY <1>0, <1>1 DEF Types
  <2>2. \A r \in Procs \ {p}, q \in Procs : <<q, r>> \in waited' <=> <<q, r>> \in waited
    BY <1>0, <1>3
  <2> QED BY <1>0, <2>1, <2>2 DEF OthersKept
<1>7. Steps(p)' = Steps(p) /\ traffic' = traffic /\ fc' = fc /\ eager' = eager
      /\ MaxReq(steps[p])' = MaxReq(steps[p]) /\ MaxReqH(steps[p])' = MaxReqH(steps[p])
  BY <1>0 DEF Steps, inputs, MaxReq, MaxReqH
<1>8. Ordered(p)' /\ Window(p)'
  BY <1>0, <1>1, <1>2, <1>7 DEF Ordered, Linked, Window
<1>9. ASSUME NEW i \in Steps(p)
      PROVE  <<swapids[p][i], p>> \in waited' <=> <<swapids[p][i], p>> \in traffic
  <2>1. i <= istep[p]
    BY <1>0, <1>1 DEF Steps
  <2>2. i < rstep[p]
    BY <1>0, <1>1, <2>1, PostedAhead
  <2> QED BY <1>0, <1>1, <2>2 DEF Receives, Pending, Types
<1>10. Receives(p)'
  BY <1>0, <1>1, <1>2, <1>7, <1>9 DEF Receives
<1>11. ASSUME NEW i \in Steps(p), <<p, swapids[p][i]>> \in sent
       PROVE  Completes(<<p, swapids[p][i]>>)
  BY <1>0, <1>1, <1>11 DEF Sends
<1>12. Sends(p)'
  <2>1. \A i \in Steps(p) : i # istep[p]
    BY <1>0, <1>1 DEF Steps
  <2> QED BY <1>0, <1>1, <1>2, <1>7, <1>11, <2>1 DEF Sends, Completes
<1>13. (<<p, p>> \in traffic => <<p, p>> \in posted \intersect sent \intersect waited)'
  BY <1>0, <1>1, <1>7
<1>14. ProcInv(p)'
  BY <1>2, <1>8, <1>10, <1>12, <1>13 DEF ProcInv
<1> QED BY <1>4, <1>5, <1>6, <1>14, StepKeeps

LEMMA NextKeeps == SwapInv /\ [Next]_vars => SwapInv'
<1> SUFFICES ASSUME SwapInv, [Next]_vars PROVE SwapInv'
  OBVIOUS
<1>1. CASE Alltoallw
  BY <1>1, AlltoallwKeeps
<1>2. CASE UNCHANGED vars
  <2>1. Types' /\ ReadyBeforeSend' /\ (fc.max_pend_req = 0 => AtOnce)'
    BY <1>2 DEF SwapInv, Types, ReadyBeforeSend, AtOnce, vars
  <2>2. (fc.max_pend_req # 0 => \A p \in Procs : ProcInv(p))'
    <3>1. \A p : Steps(p)' = Steps(p) /\ \A n : MaxReq(n)' = MaxReq(n) /\ MaxReqH(n)' = MaxReqH(n)
      BY <1>2 DEF vars, Steps, MaxReq, MaxReqH
    <3>2. ASSUME NEW p \in Procs, ProcInv(p) PROVE ProcInv(p)'
      <4>0. UNCHANGED <<inputs, pc, steps, swapids, istep, rstep, hsrcvs, hssent, posted, sent, waited>>
        BY <1>2 DEF vars, inputs
      <4> QED BY ONLY <3>1, <3>2, <4>0 DEF ProcInv, NotBegun, Ordered, Linked, Window, Receives, Sends, Completes, inputs
    <3> QED BY <1>2, <3>2 DEF SwapInv, vars
  <2> QED BY <2>1, <2>2 DEF SwapInv
<1>3. CASE \E p \in Procs : Step(p)
  <2> PICK p \in Procs : Step(p)
    BY <1>3
  <2>1. fc.max_pend_req # 0
    <3>1. CASE fc.max_pend_req = 0
      <4>1. AtOnce /\ ~Begin(p)
        BY <3>1 DEF SwapInv, Begin
      <4>2. pc[p] # "done"
        BY DEF Step, Begin, Send, SendReturns, Recv, Finish
      <4>3. pc[p] = "start"
        BY <4>1, <4>2 DEF AtOnce
      <4> QED BY <4>1, <4>3 DEF Step, Send, SendReturns, Recv, Finish
    <3> QED BY <3>1
  <2> QED BY <2>1, BeginKeeps, SendKeeps, SendReturnsKeeps, RecvKeeps, FinishKeeps DEF Step
<1> QED BY <1>1, <1>2, <1>3 DEF Next, Returned

\* The invariant holds for any number of processes, traffic, flow control and kind of
\* send (pio_swapm, pio_spmd.cpp).
THEOREM SwapInvariant == Spec => []SwapInv
  BY InitSwapInv, NextKeeps, PTL DEF Spec

-----------------------------------------------------------------------------
(* The properties                                                          *)

LEMMA TypeOKHolds == SwapInv => TypeOK
<1> SUFFICES ASSUME SwapInv PROVE TypeOK
  OBVIOUS
<1>1. Types
  BY DEF SwapInv
<1>2. ASSUME NEW p \in Procs
      PROVE  /\ steps[p] \in Nat
             /\ istep[p] \in 0..steps[p]
             /\ rstep[p] \in 0..steps[p]
             /\ pc[p] \in {"send", "sending", "recv"} => swapids[p] \in [0..steps[p] - 1 -> Procs]
             /\ pc[p] \in {"sending", "recv"} => istep[p] < steps[p]
  <2>1. CASE fc.max_pend_req = 0
    BY <2>1 DEF SwapInv, AtOnce
  <2>2. CASE fc.max_pend_req # 0 /\ pc[p] = "start"
    <3>1. NotBegun(p)
      BY <2>2 DEF SwapInv, ProcInv
    <3> QED BY <2>2, <3>1 DEF NotBegun
  <2>3. CASE fc.max_pend_req # 0 /\ pc[p] # "start"
    <3>1. /\ Ordered(p) /\ Window(p)
          /\ steps[p] \in Nat /\ istep[p] \in 0..steps[p] /\ rstep[p] \in 0..steps[p]
      BY <2>3, InvOf
    <3> QED BY <3>1 DEF Ordered, Window, Steps
  <2> QED BY <2>1, <2>2, <2>3
<1> QED BY <1>1, <1>2 DEF TypeOK, Types

\* The types of the state (pio_swapm, pio_spmd.cpp).
THEOREM TypeCorrect == Spec => []TypeOK
  BY SwapInvariant, TypeOKHolds, PTL

\* With handshakes no data is sent before its receive is posted (pio_spmd.cpp:340).
THEOREM SendsFindReceives == Spec => []ReadyBeforeSend
<1>1. SwapInv => ReadyBeforeSend
  BY DEF SwapInv
<1> QED BY <1>1, SwapInvariant, PTL

\* The two sides of a channel know each other by their places in the order, and a side
\* that is past the other's exclusive or is past its place.
LEMMA Meeting ==
  ASSUME SwapInv, fc.max_pend_req # 0, NEW p \in Procs, NEW q \in Procs, p # q, Linked(p, q),
         pc[q] # "start"
  PROVE  \E j \in Steps(q) :
           /\ swapids[q][j] = p
           /\ istep[q] < steps[q] /\ Xor(p, q) <= Xor(q, swapids[q][istep[q]]) => j <= istep[q]
           /\ istep[q] < steps[q] /\ Xor(p, q) < Xor(q, swapids[q][istep[q]]) => j < istep[q]
           /\ istep[q] = steps[q] => j < istep[q]
<1>1. /\ Ordered(q) /\ steps[q] \in Nat /\ istep[q] \in 0..steps[q]
      /\ \A i \in Steps(q) : swapids[q][i] \in Procs \ {q}
  BY InvOf
<1>2. PICK j \in Steps(q) : swapids[q][j] = p
  BY <1>1 DEF Ordered, Linked
<1>3. p \in Ranks /\ q \in Ranks /\ \A i \in Steps(q) : swapids[q][i] \in Ranks
  BY <1>1, SwapmAssumption DEF Procs, Ranks
<1>4. Xor(p, q) = Xor(q, p) /\ Xor(q, p) \in Int /\ \A i \in Steps(q) : Xor(q, swapids[q][i]) \in Int
  BY <1>3, XorAssumption DEF Ranks
<1>5. j \in Int /\ istep[q] \in Int /\ j < steps[q]
  BY <1>1 DEF Steps
<1>6. istep[q] < steps[q] => istep[q] \in Steps(q)
  BY <1>1 DEF Steps
<1>7. ASSUME istep[q] < steps[q], istep[q] < j PROVE Xor(q, swapids[q][istep[q]]) < Xor(p, q)
  BY <1>1, <1>2, <1>4, <1>6, <1>7 DEF Ordered
<1>8. istep[q] < steps[q] /\ j = istep[q] => Xor(q, swapids[q][istep[q]]) = Xor(p, q)
  BY <1>2, <1>4
<1>9. istep[q] < steps[q] => Xor(q, swapids[q][istep[q]]) \in Int
  BY <1>4, <1>6
<1> QED
  <2>1. istep[q] < steps[q] /\ Xor(p, q) <= Xor(q, swapids[q][istep[q]]) => j <= istep[q]
    BY <1>4, <1>5, <1>7, <1>9
  <2>2. istep[q] < steps[q] /\ Xor(p, q) < Xor(q, swapids[q][istep[q]]) => j < istep[q]
    BY <1>4, <1>5, <1>7, <1>8, <1>9
  <2> QED BY <1>2, <1>5, <2>1, <2>2

\* How far a process is: the exclusive or of its current step, or Ceil2 past the last.
Level(p) ==
  IF pc[p] # "done" /\ istep[p] < steps[p] THEN Xor(p, swapids[p][istep[p]]) ELSE Ceil2

\* A process that is not behind another has posted what the other may wait for.
LEMMA NotBehindPosted ==
  ASSUME SwapInv, fc.max_pend_req # 0, NEW p \in Procs, NEW q \in Procs, p # q,
         <<p, q>> \in traffic, pc[q] # "start", Xor(p, q) <= Level(q)
  PROVE  <<p, q>> \in posted /\ (fc.hs => <<p, q>> \in hssent)
<1>1. /\ Types /\ Ordered(q) /\ Window(q) /\ Receives(q)
      /\ steps[q] \in Nat /\ istep[q] \in 0..steps[q]
  BY InvOf
<1>2. PICK j \in Steps(q) :
           /\ swapids[q][j] = p
           /\ istep[q] < steps[q] /\ Xor(p, q) <= Xor(q, swapids[q][istep[q]]) => j <= istep[q]
           /\ istep[q] = steps[q] => j < istep[q]
  BY Meeting DEF Linked
<1>3. j \in Int /\ istep[q] \in Int /\ (istep[q] < steps[q] \/ istep[q] = steps[q])
  BY <1>1 DEF Steps
<1>4. pc[q] = "done" => istep[q] = steps[q]
  BY <1>1 DEF Window
<1>5. j <= istep[q]
  BY <1>1, <1>2, <1>3, <1>4 DEF Level
<1>6. j < rstep[q]
  BY <1>1, <1>5, PostedAhead
<1> QED BY <1>1, <1>2, <1>6 DEF Receives

\* A process that is ahead of another has sent what the other may wait for.
LEMMA AheadSent ==
  ASSUME SwapInv, fc.max_pend_req # 0, NEW p \in Procs, NEW q \in Procs, p # q,
         <<q, p>> \in traffic, pc[q] # "start", Xor(p, q) < Level(q)
  PROVE  <<q, p>> \in sent
<1>1. /\ Types /\ Ordered(q) /\ Window(q) /\ Sends(q)
      /\ steps[q] \in Nat /\ istep[q] \in 0..steps[q]
  BY InvOf
<1>2. PICK j \in Steps(q) :
           /\ swapids[q][j] = p
           /\ istep[q] < steps[q] /\ Xor(p, q) < Xor(q, swapids[q][istep[q]]) => j < istep[q]
           /\ istep[q] = steps[q] => j < istep[q]
  BY Meeting DEF Linked
<1>3. istep[q] < steps[q] \/ istep[q] = steps[q]
  BY <1>1
<1>4. pc[q] = "done" => istep[q] = steps[q]
  BY <1>1 DEF Window
<1>5. j < istep[q]
  BY <1>1, <1>2, <1>3, <1>4 DEF Level
<1> QED BY <1>1, <1>2, <1>5 DEF Sends

LEMMA LevelType ==
  ASSUME SwapInv, fc.max_pend_req # 0, NEW p \in Procs, pc[p] # "start"
  PROVE  Level(p) \in Nat /\ Level(p) <= Ceil2
<1>1. CASE pc[p] # "done" /\ istep[p] < steps[p]
  <2>1. p \in Ranks /\ swapids[p][istep[p]] \in Ranks
    <3>1. swapids[p][istep[p]] \in Procs
      BY <1>1, CurrentPartner
    <3> QED BY <3>1, SwapmAssumption DEF Procs, Ranks
  <2>2. Xor(p, swapids[p][istep[p]]) \in Ranks
    BY <2>1, XorAssumption
  <2> QED BY <1>1, <2>2, SwapmAssumption DEF Level, Ranks
<1>2. CASE ~(pc[p] # "done" /\ istep[p] < steps[p])
  BY <1>2, SwapmAssumption DEF Level
<1> QED BY <1>1, <1>2

LEMMA NotStuckHolds == SwapInv => NotStuck
<1> SUFFICES ASSUME SwapInv, \E p \in Procs : pc[p] # "done", \A p \in Procs : ~CanStep(p) PROVE FALSE
  BY DEF NotStuck
<1>1. \A p \in Procs : pc[p] # "start"
  BY DEF CanStep
<1>2. fc.max_pend_req # 0
  <2>1. CASE fc.max_pend_req = 0
    BY <1>1, <2>1 DEF SwapInv, AtOnce
  <2> QED BY <2>1
<1>3. PICK p \in Procs : pc[p] # "done" /\ \A q \in Procs : Level(p) <= Level(q)
  <2> DEFINE B == {q \in Procs : pc[q] # "done"}
             T == {Level(q) : q \in B}
  <2>1. \A q \in Procs : Level(q) \in Nat /\ Level(q) <= Ceil2
    BY <1>1, <1>2, LevelType
  <2>2. T \subseteq Nat /\ T # {}
    BY <2>1
  <2>3. PICK m \in T : \A k \in T : m <= k
    <3> HIDE DEF T
    <3> QED BY <2>2, NatMin
  <2>4. PICK p \in B : m = Level(p)
    OBVIOUS
  <2>5. ASSUME NEW q \in Procs PROVE Level(p) <= Level(q)
    <3>1. CASE pc[q] = "done"
      <4>1. Level(q) = Ceil2
        BY <3>1 DEF Level
      <4> QED BY <2>1, <4>1
    <3>2. CASE pc[q] # "done"
      BY <2>3, <2>4, <3>2
    <3> QED BY <3>1, <3>2
  <2> QED BY <2>4, <2>5
<1>4. /\ Types /\ Ordered(p) /\ Window(p) /\ Sends(p)
      /\ <<p, p>> \in traffic => <<p, p>> \in posted \intersect sent \intersect waited
      /\ steps[p] \in Nat /\ istep[p] \in 0..steps[p]
      /\ \A i \in Steps(p) : swapids[p][i] \in Procs \ {p}
  BY <1>1, <1>2, InvOf
<1>5. traffic \subseteq Procs \X Procs
  BY <1>4, TrafficType
<1>6. \A q \in Procs : Level(q) \in Nat /\ Level(q) <= Ceil2
  BY <1>1, <1>2, LevelType
<1>7. \A q \in Procs : Xor(p, q) \in Nat /\ Xor(p, q) < Ceil2
  <2> SUFFICES ASSUME NEW q \in Procs PROVE Xor(p, q) \in Nat /\ Xor(p, q) < Ceil2
    OBVIOUS
  <2>1. p \in Ranks /\ q \in Ranks
    BY SwapmAssumption DEF Procs, Ranks
  <2>2. Xor(p, q) \in Ranks
    BY <2>1, XorAssumption
  <2> QED BY <2>2, SwapmAssumption DEF Ranks
\* What a process ahead of p, or level with it, has done for p.
<1>8. ASSUME NEW q \in Procs, <<p, q>> \in traffic, q # p => Xor(p, q) <= Level(p)
      PROVE  <<p, q>> \in posted /\ (q # p /\ fc.hs => <<p, q>> \in hssent)
  <2>1. CASE q = p
    BY <1>4, <1>8, <2>1
  <2>2. CASE q # p
    <3>1. Xor(p, q) <= Level(q)
      BY <1>3, <1>6, <1>7, <1>8, <2>2
    <3> QED BY <1>1, <1>2, <1>8, <2>2, <3>1, NotBehindPosted
  <2> QED BY <2>1, <2>2
<1>9. ASSUME NEW q \in Procs, <<q, p>> \in traffic, q # p => Xor(p, q) < Level(p)
      PROVE  <<q, p>> \in sent
  <2>1. CASE q = p
    BY <1>4, <1>9, <2>1
  <2>2. CASE q # p
    <3>1. Xor(p, q) < Level(q)
      BY <1>3, <1>6, <1>7, <1>9, <2>2
    <3> QED BY <1>1, <1>2, <1>9, <2>2, <3>1, AheadSent
  <2> QED BY <2>1, <2>2
<1> DEFINE q0 == swapids[p][istep[p]]
<1>10. CASE istep[p] < steps[p]
  <2>1. Level(p) = Xor(p, q0) /\ q0 \in Procs /\ q0 # p /\ istep[p] \in Steps(p)
    BY <1>1, <1>2, <1>3, <1>10, CurrentPartner DEF Level
  <2>2. <<p, q0>> \in traffic => <<p, q0>> \in posted /\ (fc.hs => <<p, q0>> \in hssent)
    BY <1>6, <1>7, <1>8, <2>1
  <2>3. CASE pc[p] = "send"
    BY <1>10, <2>2, <2>3 DEF CanStep, HandshakeDone
  <2>4. CASE pc[p] = "sending"
    <3>1. <<p, q0>> \in traffic
      BY <1>4, <2>1, <2>4 DEF Sends
    <3> QED BY <2>2, <2>4, <3>1 DEF CanStep, Completes
  <2>5. CASE pc[p] = "recv"
    <3>1. PICK c \in Oldest(p) : c \notin sent
      BY <2>5 DEF CanStep
    <3> DEFINE H == MaxReqH(steps[p])
    <3>2. H \in Nat /\ H > 0 /\ H <= steps[p]
      BY <1>2, <1>4, <1>10, MaxReqFacts DEF Types
    <3>3. PICK i \in {istep[p] - H} \intersect Nat : c = <<swapids[p][i], p>>
      BY <3>1 DEF Oldest
    <3>4. i \in Steps(p) /\ i < istep[p]
      BY <1>4, <1>10, <3>2 DEF Steps
    <3>5. Xor(p, swapids[p][i]) < Xor(p, q0)
      BY <1>4, <2>1, <3>4 DEF Ordered
    <3>6. c \in traffic
      BY <1>4, <3>1 DEF Oldest, Pending, Types
    <3> QED BY <1>4, <1>9, <2>1, <3>1, <3>3, <3>4, <3>5, <3>6
  <2> QED BY <1>1, <1>3, <1>4, <2>3, <2>4, <2>5 DEF Types
<1>11. CASE istep[p] = steps[p]
  <2>1. Level(p) = Ceil2
    BY <1>4, <1>11 DEF Level
  <2>2. pc[p] = "send"
    BY <1>1, <1>3, <1>4, <1>11 DEF Types, Window
  <2>3. ASSUME NEW c \in Pending(p) PROVE c \in sent
    <3>1. c \in traffic /\ c[2] = p
      BY <1>4 DEF Pending, Types
    <3>2. PICK q \in Procs : c = <<q, p>>
      BY <1>5, <3>1
    <3> QED BY <1>7, <1>9, <2>1, <3>1, <3>2
  <2>4. ASSUME NEW d \in sent, d[1] = p PROVE Completes(d)
    <3>1. d \in traffic
      BY <1>4 DEF Types
    <3>2. PICK q \in Procs : d = <<p, q>>
      BY <1>5, <2>4, <3>1
    <3>3. d \in posted
      BY <1>7, <1>8, <2>1, <3>1, <3>2, SwapmAssumption
    <3> QED BY <3>3 DEF Completes
  <2> QED BY <1>11, <2>2, <2>3, <2>4 DEF CanStep
<1> QED BY <1>4, <1>10, <1>11

\* The processes never all wait for one another: whatever the traffic, the window, the
\* handshakes and the kind of send, some process can go on until all have returned.
THEOREM NeverStuck == Spec => []NotStuck
  BY SwapInvariant, NotStuckHolds, PTL

LEMMA ReturnedHolds == SwapInv => ReturnedMeansExchanged
<1> SUFFICES ASSUME SwapInv, NEW p \in Procs, pc[p] = "done"
             PROVE  /\ {c \in traffic : c[2] = p} \subseteq waited
                    /\ {c \in traffic : c[1] = p} \subseteq (IF eager THEN sent ELSE sent \intersect posted)
  BY DEF ReturnedMeansExchanged
<1>1. CASE fc.max_pend_req = 0
  BY <1>1 DEF SwapInv, AtOnce
<1>2. CASE fc.max_pend_req # 0
  <2>1. /\ Types /\ Ordered(p) /\ Window(p) /\ Receives(p) /\ Sends(p)
        /\ <<p, p>> \in traffic => <<p, p>> \in posted \intersect sent \intersect waited
    BY <1>2, InvOf
  <2>2. traffic \subseteq Procs \X Procs
    BY <2>1, TrafficType
  <2>3. istep[p] = steps[p] /\ \A i \in Steps(p) : i < istep[p]
    BY <2>1 DEF Window, Steps
  <2>4. ASSUME NEW q \in Procs, <<q, p>> \in traffic PROVE <<q, p>> \in waited
    <3>1. CASE q = p
      BY <2>1, <2>4, <3>1
    <3>2. CASE q # p
      <4>1. PICK i \in Steps(p) : swapids[p][i] = q
        BY <2>1, <2>4, <3>2 DEF Ordered, Linked
      <4> QED BY <2>1, <2>4, <4>1 DEF Receives
    <3> QED BY <3>1, <3>2
  <2>5. ASSUME NEW q \in Procs, <<p, q>> \in traffic
        PROVE  <<p, q>> \in sent /\ (eager \/ <<p, q>> \in posted)
    <3>1. CASE q = p
      BY <2>1, <2>5, <3>1
    <3>2. CASE q # p
      <4>1. PICK i \in Steps(p) : swapids[p][i] = q
        BY <2>1, <2>5, <3>2 DEF Ordered, Linked
      <4> QED BY <2>1, <2>3, <2>5, <4>1 DEF Sends, Completes
    <3> QED BY <3>1, <3>2
  <2> QED BY <2>1, <2>2, <2>4, <2>5 DEF Types
<1> QED BY <1>1, <1>2

\* A process that has returned has received all its data, and its sends are complete.
THEOREM ExchangeComplete == Spec => []ReturnedMeansExchanged
  BY SwapInvariant, ReturnedHolds, PTL

LEMMA WindowHolds == SwapInv => WindowKept
<1> SUFFICES ASSUME SwapInv, NEW p \in Procs, pc[p] \in {"send", "sending", "recv"}
             PROVE  Cardinality(Pending(p)) <= MaxReq(steps[p])
  BY DEF WindowKept
<1>1. fc.max_pend_req # 0
  BY DEF SwapInv, AtOnce
<1> DEFINE M == MaxReq(steps[p])
           H == MaxReqH(steps[p])
           lo == IF istep[p] > H THEN istep[p] - H ELSE 0
           hi == rstep[p] - 1
           f == [i \in lo..hi |-> <<swapids[p][i], p>>]
           image == {f[i] : i \in lo..hi}
<1>2. /\ Types /\ Ordered(p) /\ Window(p) /\ Receives(p)
      /\ <<p, p>> \in traffic => <<p, p>> \in posted \intersect sent \intersect waited
      /\ steps[p] \in Nat /\ istep[p] \in 0..steps[p] /\ rstep[p] \in 0..steps[p]
  BY <1>1, InvOf
<1>3. M \in 0..steps[p] /\ H \in 0..steps[p] /\ (rstep[p] <= M \/ rstep[p] <= M + istep[p] - H)
  BY <1>1, <1>2, MaxReqFacts DEF Types, Window
<1>4. lo \in Nat /\ hi \in Int /\ hi - lo + 1 <= M
  <2> HIDE DEF M, H
  <2> QED BY <1>2, <1>3
<1>5. IsFiniteSet(lo..hi) /\ Cardinality(lo..hi) <= M
  <2> HIDE DEF lo, hi, M, H
  <2>1. lo \in Int /\ hi \in Int
    BY <1>4
  <2>2. /\ IsFiniteSet(lo..hi)
        /\ Cardinality(lo..hi) = IF lo > hi THEN 0 ELSE hi - lo + 1
    BY <2>1, FS_Interval
  <2> QED BY <1>3, <1>4, <2>2
<1>6. IsFiniteSet(image) /\ Cardinality(image) <= Cardinality(lo..hi)
  <2>1. f \in Surjection(lo..hi, image)
    <3> HIDE DEF lo, hi
    <3> QED BY DEF Surjection
  <2> HIDE DEF f, image, lo, hi
  <2> QED BY <1>5, <2>1, FS_Surjection
<1>7. Pending(p) \in SUBSET image
  <2> SUFFICES ASSUME NEW c \in Pending(p) PROVE c \in image
    OBVIOUS
  <2>1. c \in traffic /\ c \in posted /\ c \notin waited /\ c[2] = p
    BY <1>2 DEF Pending, Types
  <2>2. PICK q \in Procs : c = <<q, p>>
    BY <1>2, <2>1, TrafficType
  <2>3. q # p
    BY <1>2, <2>1, <2>2
  <2>4. PICK i \in Steps(p) : swapids[p][i] = q
    BY <1>2, <2>1, <2>2, <2>3 DEF Ordered, Linked
  <2>5. i < rstep[p] /\ ~(i + H < istep[p]) /\ i \in Nat
    <3>1. i \in Nat
      BY <1>2, <2>4 DEF Steps
    <3>2. /\ c \in posted <=> c \in traffic /\ i < rstep[p]
          /\ c \in waited <=> c \in traffic /\ (pc[p] = "done" \/ i + H < istep[p])
      <4> HIDE DEF f, image, lo, hi
      <4> QED BY <1>2, <2>2, <2>4 DEF Receives
    <3> QED BY <2>1, <3>1, <3>2
  <2>6. i \in lo..hi
    <3> HIDE DEF H
    <3> QED BY <1>2, <1>3, <2>5
  <2>7. f[i] = c
    <3> HIDE DEF lo, hi
    <3> QED BY <2>2, <2>4, <2>6
  <2> HIDE DEF f, lo, hi
  <2> QED BY <2>6, <2>7
<1>8. Cardinality(Pending(p)) <= Cardinality(image)
  <2> HIDE DEF image
  <2> QED BY <1>6, <1>7, FS_Subset
<1>9. /\ Cardinality(Pending(p)) \in Nat /\ Cardinality(image) \in Nat
      /\ Cardinality(lo..hi) \in Nat
  <2> HIDE DEF image, lo, hi
  <2> QED BY <1>5, <1>6, <1>7, FS_Subset, FS_CardinalityType
<1> HIDE DEF image, lo, hi, M
<1> QED BY <1>3, <1>5, <1>6, <1>8, <1>9 DEF M

\* No process has more receives pending than its window.
THEOREM WindowNeverExceeded == Spec => []WindowKept
  BY SwapInvariant, WindowHolds, PTL
=============================================================================
