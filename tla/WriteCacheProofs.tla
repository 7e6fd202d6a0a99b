-------------------------- MODULE WriteCacheProofs --------------------------
(***************************************************************************)
(* The safety of the write cache for every file, decomposition, bound and  *)
(* I/O library: TypeOK, CachedDecompReachable, RequestBufferLive and       *)
(* ClosedHoldsOnlyFailedFills follow from the inductive invariant          *)
(* CacheInv.                                                               *)
(*                                                                         *)
(* The second half is about the data.  DataInv follows the newest version  *)
(* of a slot from the wmb to the request to the file: AcceptedNotLost, and *)
(* with PromiseInv the refinement of BufferedFile.  NoBufferOverwrite      *)
(* follows from AssertInv, which accounts for every buffer in use.         *)
(***************************************************************************)
EXTENDS WriteCache, SequenceTheorems, TLAPS

-----------------------------------------------------------------------------
(* The inductive invariant                                                 *)

\* PIOc_setframe only ever touches variables with an unlimited dimension.
FixedVarsHaveNoFrame == \A v \in Vars \ RecordVars : frame[v] = NoFrame

\* The arrays of a variable go to the record wmbs or to the others, for good:
\* two wmbs of one decomposition never hold arrays of one variable.
ArraysOfOneKind ==
  \A k \in Wmbs : \A i \in DOMAIN arrays[k] :
    k.rec <=> arrays[k][i].slot.var \in RecordVars

\* sync_file finds every wmb that holds arrays, and finds it once.
CachedIsListed ==
  \A k \in Wmbs : arrays[k] # <<>> => \E i \in DOMAIN wmbs : wmbs[i] = k
ListedOnce == \A i, j \in DOMAIN wmbs : wmbs[i] = wmbs[j] => i = j

\* What every flush keeps true of the I/O state S: requests point to buffers in
\* use, and a library that blocks leaves no requests, and a fill buffer only
\* where it failed.
IoOK(S) ==
  /\ S \in IoState
  /\ \A r \in S.reqs : r.ioid \in S.mv
  /\ ~Pnetcdf => S.reqs = {} /\ S.fillbuf \subseteq S.leftFill

\* sync_file only runs on an open file.
SyncingIsOpen == phase \in {"sync", "close"} => open

CacheInv ==
  /\ TypeOK
  /\ IoOK(io)
  /\ FixedVarsHaveNoFrame
  /\ ArraysOfOneKind
  /\ CachedDecompReachable
  /\ CachedIsListed
  /\ ListedOnce
  /\ SyncingIsOpen
  /\ ClosedHoldsOnlyFailedFills

-----------------------------------------------------------------------------
(* Flushes                                                                 *)

\* The entries of a wmb.
LEMMA ArrayFields ==
  ASSUME NEW s \in Seq(CachedArray)
  PROVE  /\ DOMAIN s = 1..Len(s) /\ Len(s) \in Nat
         /\ s # <<>> => 1 \in DOMAIN s
         /\ \A i \in DOMAIN s : /\ s[i] \in CachedArray
                               /\ s[i].ver \in Versions
                               /\ s[i].slot \in Slots
                               /\ s[i].slot.var \in Vars
<1>1. DOMAIN s = 1..Len(s) /\ Len(s) \in Nat /\ \A i \in DOMAIN s : s[i] \in CachedArray
  BY LenProperties
<1>2. s # <<>> => 1 \in DOMAIN s
  BY <1>1, EmptySeq
<1>3. QED
  BY <1>1, <1>2 DEF CachedArray, Slots

\* The states of the I/O side a flush goes through are well-formed: waiting.
LEMMA WaitAllOK ==
  ASSUME NEW S, IoOK(S)
  PROVE  /\ IoOK(WaitAll(S))
         /\ WaitAll(S).mv = {} /\ WaitAll(S).reqs = {} /\ WaitAll(S).fillbuf = {}
<1>1. \A x \in Slots : Requested(S, x) \subseteq Versions
  BY DEF IoOK, IoState, Requested, Request
<1> DEFINE D == [x \in Slots |-> IF Requested(S, x) = {} THEN S.disk[x]
                                ELSE Requested(S, x)]
<1>2. D \in [Slots -> SUBSET Versions]
  BY <1>1 DEF IoOK, IoState
<1>3. WaitAll(S) = [S EXCEPT !.mv = {}, !.reqs = {}, !.fillbuf = {}, !.disk = D]
  BY DEF WaitAll
<1> HIDE DEF D
<1>4. QED
  BY <1>2, <1>3 DEF IoOK, IoState

\* Queueing the arrays of a flush on a buffer in use.
LEMMA PutQueuedOK ==
  ASSUME NEW S, IoOK(S), Pnetcdf,
         NEW s \in Seq(CachedArray), NEW d \in S.mv
  PROVE  IoOK(PutQueued(S, s, d))
<1> DEFINE R == {[slot |-> s[i].slot, ver |-> s[i].ver, ioid |-> d] : i \in DOMAIN s}
<1>1. \A i \in DOMAIN s : s[i] \in CachedArray
  BY ArrayFields
<1>2. R \subseteq Request /\ \A r \in R : r.ioid = d
  BY <1>1 DEF IoOK, IoState, CachedArray, Request
<1>3. PutQueued(S, s, d) = [S EXCEPT !.reqs = S.reqs \cup R]
  BY DEF PutQueued
<1> HIDE DEF R
<1>4. QED
  BY <1>2, <1>3 DEF IoOK, IoState

\* A blocking write only changes the file.
LEMMA PutBlockingOK ==
  ASSUME NEW S, IoOK(S), NEW s \in Seq(CachedArray)
  PROVE  IoOK(PutBlocking(S, s))
<1>1. \A i \in DOMAIN s : s[i].ver \in Versions
  BY ArrayFields
<1>2. PutBlocking(S, s).disk \in [Slots -> SUBSET Versions]
  BY <1>1 DEF PutBlocking, IoOK, IoState
<1>3. /\ PutBlocking(S, s).mv = S.mv /\ PutBlocking(S, s).reqs = S.reqs
      /\ PutBlocking(S, s).fillbuf = S.fillbuf
      /\ PutBlocking(S, s).leftFill = S.leftFill
  BY DEF PutBlocking, IoOK, IoState
<1>4. PutBlocking(S, s) \in IoState
  BY <1>2 DEF PutBlocking, IoOK, IoState
<1>5. QED
  BY <1>3, <1>4 DEF IoOK

\* A failed write: some of the arrays are queued, or may be in the file.
LEMMA PutFailedOK ==
  ASSUME NEW S, IoOK(S), NEW s \in Seq(CachedArray), NEW d \in S.mv,
         NEW done \in Nat, Pnetcdf => done <= Len(s)
  PROVE  IoOK(PutFailed(S, s, d, done))
<1>1. CASE Pnetcdf
  <2>1. SubSeq(s, 1, done) \in Seq(CachedArray)
    BY <1>1, SubSeqProperties, LenProperties, ElementOfSeq
  <2>2. QED
    BY <1>1, <2>1, PutQueuedOK DEF PutFailed
<1>2. CASE ~Pnetcdf
  <2> DEFINE D == [x \in Slots |-> S.disk[x] \cup
                     {s[i].ver : i \in {j \in DOMAIN s : s[j].slot = x}}]
  <2>1. \A i \in DOMAIN s : s[i].ver \in Versions
    BY ArrayFields
  <2>2. D \in [Slots -> SUBSET Versions]
    BY <2>1 DEF IoOK, IoState
  <2>3. PutFailed(S, s, d, done) = [S EXCEPT !.disk = D, !.leftMv = @ \cup {d}]
    BY <1>2 DEF PutFailed
  <2> HIDE DEF D
  <2>4. QED
    BY <2>2, <2>3 DEF IoOK, IoState
<1>3. QED
  BY <1>1, <1>2

\* The buffer of a flush is released where the library has finished with it.
LEMMA ReleaseFields ==
  ASSUME NEW S \in IoState, NEW d
  PROVE  /\ Release(S, d) \in IoState
         /\ Release(S, d).reqs = S.reqs /\ Release(S, d).disk = S.disk
         /\ Release(S, d).fillbuf = S.fillbuf
         /\ Release(S, d).leftMv = S.leftMv /\ Release(S, d).leftFill = S.leftFill
         /\ Release(S, d).mv = IF Pnetcdf THEN S.mv ELSE S.mv \ {d}
BY DEF Release, IoState

\* The data of a flush are written or queued.
LEMMA WrittenOK ==
  ASSUME NEW S, IoOK(S), NEW s \in Seq(CachedArray), NEW d \in S.mv
  PROVE  IoOK(Release(IF Pnetcdf THEN PutQueued(S, s, d) ELSE PutBlocking(S, s), d))
<1>1. CASE Pnetcdf
  BY <1>1, PutQueuedOK DEF Release
<1>2. CASE ~Pnetcdf
  <2> DEFINE P == PutBlocking(S, s)
  <2>1. IoOK(P)
    BY PutBlockingOK
  <2> HIDE DEF P
  <2>2. IoOK(Release(P, d))
    BY <1>2, <2>1, ReleaseFields DEF IoOK
  <2>3. QED
    BY <1>2, <2>2 DEF P
<1>3. QED
  BY <1>1, <1>2

\* The hole grid is written from the fill buffer of the first variable.
LEMMA TakeFillFields ==
  ASSUME NEW S \in IoState, NEW s \in Seq(CachedArray), s # <<>>, NEW d
  PROVE  /\ TakeFill(S, s, d) \in IoState
         /\ TakeFill(S, s, d).reqs = S.reqs /\ TakeFill(S, s, d).disk = S.disk
         /\ TakeFill(S, s, d).mv = S.mv
         /\ TakeFill(S, s, d).fillbuf
              = IF d \in HoleFill THEN S.fillbuf \cup {s[1].slot.var} ELSE S.fillbuf
         /\ TakeFill(S, s, d).leftMv = S.leftMv
         /\ TakeFill(S, s, d).leftFill = S.leftFill
<1>1. s[1].slot.var \in Vars
  BY ArrayFields
<1>2. QED
  BY <1>1 DEF TakeFill, IoState

\* It is released with the next wait, at once, or never if a blocking library fails.
LEMMA FillOK ==
  ASSUME NEW S, IoOK(S), NEW s \in Seq(CachedArray), s # <<>>, NEW d,
         NEW toDisk \in BOOLEAN
  PROVE  IoOK(FillFailed(S, s, d)) /\ IoOK(Finish(S, s, d, toDisk))
<1> DEFINE F == TakeFill(S, s, d)
           v == s[1].slot.var
<1>1. /\ F \in IoState /\ F.reqs = S.reqs /\ F.mv = S.mv
      /\ F.fillbuf \subseteq S.fillbuf \cup {v} /\ F.leftFill = S.leftFill
  <2>1. S \in IoState
    BY DEF IoOK
  <2>2. QED
    BY ONLY <2>1, s \in Seq(CachedArray), s # <<>>, TakeFillFields
<1>2. v \in Vars
  BY ArrayFields
<1>3. CASE Pnetcdf
  <2>1. FillFailed(S, s, d) = F /\ Finish(S, s, d, toDisk) = IF toDisk THEN WaitAll(F) ELSE F
    BY <1>3 DEF FillFailed, Finish
  <2> HIDE DEF F, v
  <2>2. IoOK(F)
    BY <1>1, <1>3 DEF IoOK
  <2>3. QED
    BY <2>1, <2>2, WaitAllOK
<1>4. CASE ~Pnetcdf
  <2>1. FillFailed(S, s, d) = [F EXCEPT !.leftFill = @ \cup {v}] /\ Finish(S, s, d, toDisk) = S
    BY <1>4 DEF FillFailed, Finish
  <2> HIDE DEF F, v
  <2>2. IoOK([F EXCEPT !.leftFill = @ \cup {v}])
    BY <1>1, <1>2, <1>4 DEF IoOK, IoState
  <2>3. QED
    BY <2>1, <2>2
<1>5. QED
  BY <1>3, <1>4

\* PIOc_write_darray_multi, whatever the library answers.
LEMMA WriteMultiOK ==
  ASSUME NEW S, IoOK(S),
         NEW s \in Seq(CachedArray), s # <<>>, NEW d \in Decomps,
         NEW toDisk \in BOOLEAN, NEW fail \in Failures,
         NEW done \in Nat, Pnetcdf => done <= Len(s)
  PROVE  /\ IoOK(WriteMulti(S, s, d, toDisk, fail, done).st)
         /\ WriteMulti(S, s, d, toDisk, fail, done).res \in {"ok", "err", "abort"}
<1> DEFINE A == Acquire(S, d)
           B == [A EXCEPT !.mv = @ \cup {d}]
           P == Release(IF Pnetcdf THEN PutQueued(B, s, d) ELSE PutBlocking(B, s), d)
<1>1. IoOK(A)
  BY WaitAllOK DEF Acquire
<1>2. IoOK(B) /\ d \in B.mv
  <2> HIDE DEF A
  <2>1. QED
    BY <1>1 DEF IoOK, IoState
<1>3. IoOK(P)
  <2> HIDE DEF B
  <2>1. QED
    BY <1>2, WrittenOK
<1>4. IoOK(PutFailed(B, s, d, done))
  <2> HIDE DEF B
  <2>1. QED
    BY <1>2, PutFailedOK
<1>5. IoOK(FillFailed(P, s, d)) /\ IoOK(Finish(P, s, d, toDisk))
  <2> HIDE DEF P
  <2>1. QED
    BY <1>3, FillOK
<1>6. WriteMulti(S, s, d, toDisk, fail, done) \in
        {[st |-> A, res |-> "abort"],
         [st |-> PutFailed(B, s, d, done), res |-> "err"],
         [st |-> P, res |-> "abort"],
         [st |-> FillFailed(P, s, d), res |-> "err"],
         [st |-> Finish(P, s, d, toDisk), res |-> "ok"]}
  BY DEF WriteMulti
<1> HIDE DEF A, B, P
<1>7. QED
  BY <1>1, <1>3, <1>4, <1>5, <1>6

\* References are only taken from the variables and decomposition flushed.
LEMMA RefsTakenOK ==
  ASSUME refs \in [Vars -> SUBSET Decomps],
         NEW s \in Seq(CachedArray), s # <<>>, NEW d \in Decomps
  PROVE  /\ RefsTaken(s, d) \in [Vars -> SUBSET Decomps]
         /\ \A v \in Vars, e \in Decomps :
              e \in refs[v] /\ e \notin RefsTaken(s, d)[v] => e = d /\ v \in VarsIn(s)
<1>1. s[1].slot.var \in Vars /\ s[1].slot.var \in VarsIn(s)
  BY ArrayFields DEF VarsIn
<1>2. QED
  BY <1>1 DEF RefsTaken

\* flush_buffer, whatever the library answers.
LEMMA FlushBufferOK ==
  ASSUME TypeOK, IoOK(io),
         NEW k \in Wmbs, NEW toDisk \in BOOLEAN, NEW fail \in Failures,
         NEW done \in Nat, Pnetcdf => done <= Len(arrays[k]),
         NEW f, f = FlushBuffer(k, toDisk, fail, done)
  PROVE  /\ IoOK(f.st)
         /\ f.res \in {"ok", "err", "abort"}
         /\ f.refs \in [Vars -> SUBSET Decomps]
         /\ \A v \in Vars, e \in Decomps :
              e \in refs[v] /\ e \notin f.refs[v]
                => e = k.ioid /\ v \in VarsIn(arrays[k])
<1> DEFINE w == WriteMulti(io, arrays[k], k.ioid, toDisk, fail, done)
<1>1. arrays[k] \in Seq(CachedArray) /\ k.ioid \in Decomps
      /\ refs \in [Vars -> SUBSET Decomps]
  BY DEF TypeOK, Wmbs
<1>2. CASE arrays[k] = <<>>
  BY <1>1, <1>2 DEF FlushBuffer
<1>3. CASE arrays[k] # <<>>
  <2>1. IoOK(w.st) /\ w.res \in {"ok", "err", "abort"}
    BY <1>1, <1>3, WriteMultiOK
  <2>2. f \in {[st |-> io, res |-> "err", refs |-> RefsTaken(arrays[k], k.ioid)],
               [st |-> w.st, res |-> w.res, refs |-> RefsTaken(arrays[k], k.ioid)]}
    BY <1>3 DEF FlushBuffer
  <2> HIDE DEF w
  <2>3. /\ IoOK(f.st) /\ f.res \in {"ok", "err", "abort"}
        /\ f.refs = RefsTaken(arrays[k], k.ioid)
    BY <2>1, <2>2
  <2>4. QED
    BY <1>1, <1>3, <2>3, RefsTakenOK
<1>4. QED
  BY <1>2, <1>3

-----------------------------------------------------------------------------
(* Every step keeps the invariant                                          *)

LEMMA InitCacheInv == Init => CacheInv
<1> SUFFICES ASSUME Init PROVE CacheInv
  OBVIOUS
<1>1. \A k \in Wmbs : arrays[k] = <<>>
  BY DEF Init
<1>2. TypeOK /\ IoOK(io)
  BY EmptySeq DEF Init, TypeOK, IoOK, IoState, NoFrame
<1>3. ArraysOfOneKind /\ CachedDecompReachable /\ CachedIsListed
  BY <1>1 DEF ArraysOfOneKind, CachedDecompReachable, CachedIsListed
<1>4. FixedVarsHaveNoFrame /\ ListedOnce /\ SyncingIsOpen /\ ClosedHoldsOnlyFailedFills
  BY DEF Init, FixedVarsHaveNoFrame, ListedOnce, SyncingIsOpen, ClosedHoldsOnlyFailedFills
<1>5. QED
  BY <1>2, <1>3, <1>4 DEF CacheInv

\* The list of wmbs after PIOc_write_darray looked for k in it.
HasListed(l, k) ==
  /\ l \in Seq(Wmbs)
  /\ \E i \in DOMAIN l : l[i] = k
  /\ \A i \in DOMAIN wmbs : i \in DOMAIN l /\ l[i] = wmbs[i]
  /\ \A i, j \in DOMAIN l : l[i] = l[j] => i = j

LEMMA FindWmbOK ==
  ASSUME wmbs \in Seq(Wmbs), ListedOnce, NEW k \in Wmbs,
         NEW l, l = FindWmb(k)
  PROVE  HasListed(l, k)
<1>1. DOMAIN wmbs = 1..Len(wmbs) /\ Len(wmbs) \in Nat
  BY LenProperties
<1>2. CASE \E i \in DOMAIN wmbs : wmbs[i] = k
  BY <1>2 DEF FindWmb, ListedOnce, HasListed
<1>3. CASE ~ \E i \in DOMAIN wmbs : wmbs[i] = k
  <2>1. l = Append(wmbs, k)
    BY <1>3 DEF FindWmb
  <2>2. /\ l \in Seq(Wmbs) /\ DOMAIN l = 1..(Len(wmbs) + 1)
        /\ \A i \in 1..Len(wmbs) : l[i] = wmbs[i]
        /\ l[Len(wmbs) + 1] = k
    BY <2>1, <1>1
  <2>3. \A i, j \in DOMAIN l : l[i] = l[j] => i = j
    BY <2>2, <1>1, <1>3 DEF ListedOnce
  <2>4. QED
    BY <2>2, <2>3, <1>1 DEF HasListed
<1>4. QED
  BY <1>2, <1>3

\* PIOc_write_darray.
LEMMA WriteDarrayKeeps ==
  ASSUME CacheInv, NEW v \in Vars, NEW d \in Decomps, NEW need \in 0..2,
         NEW full \in BOOLEAN, NEW fail \in Failures, NEW done \in 0..MaxWrites,
         WriteDarray(v, d, need, full, fail, done)
  PROVE  CacheInv'
<1>0. (frame[v] >= 0) <=> v \in RecordVars
  <2>1. v \in RecordVars => frame[v] # -1
    BY DEF WriteDarray, MayWrite, NoFrame
  <2>2. v \notin RecordVars => frame[v] = -1
    BY DEF CacheInv, FixedVarsHaveNoFrame, NoFrame
  <2>3. frame[v] \in Nat \/ frame[v] = -1
    BY WriteCacheAssumption DEF CacheInv, TypeOK, NoFrame
  <2>4. CASE v \in RecordVars
    BY <2>1, <2>3, <2>4
  <2>5. CASE v \notin RecordVars
    BY <2>2, <2>5
  <2>6. QED
    BY <2>4, <2>5
<1> DEFINE k == WmbOf(v, d)
           toDisk == need = 2 \/ full
           f == IF need > 0 THEN FlushBuffer(k, toDisk, fail, done)
                ELSE [st |-> io, res |-> "ok", refs |-> refs]
           kept == IF need > 0 THEN <<>> ELSE arrays[k]
           a == [slot |-> SlotOf(v), ver |-> nwrites + 1]
<1>1. k \in Wmbs /\ k.ioid = d /\ a \in CachedArray /\ a.slot.var = v
  BY DEF CacheInv, TypeOK, Wmbs, WmbOf, SlotOf, CachedArray, Slots, Versions
<1>2. /\ arrays[k] \in Seq(CachedArray) /\ refs \in [Vars -> SUBSET Decomps]
      /\ IoOK(io) /\ TypeOK
  BY <1>1 DEF CacheInv, TypeOK
<1>3. k.rec <=> v \in RecordVars
  BY <1>0, Zenon DEF WmbOf
<1>4. need > 0 /\ Pnetcdf => done <= Len(arrays[k])
  <2>1. Len(arrays[k]) \in Nat
    BY <1>2, LenProperties
  <2>2. QED
    BY <2>1, WriteCacheAssumption DEF WriteDarray, Library
<1>5. /\ IoOK(f.st) /\ f.res \in {"ok", "err", "abort"}
      /\ f.refs \in [Vars -> SUBSET Decomps]
      /\ \A w \in Vars, e \in Decomps :
           e \in refs[w] /\ e \notin f.refs[w]
             => need > 0 /\ e = d /\ w \in VarsIn(arrays[k])
  <2>1. CASE need > 0
    <3>1. Pnetcdf => done <= Len(arrays[k])
      BY <1>4, <2>1
    <3>2. toDisk \in BOOLEAN /\ done \in Nat
      OBVIOUS
    <3>3. f = FlushBuffer(k, toDisk, fail, done)
      BY <2>1
    <3> HIDE DEF k, toDisk, f
    <3>4. QED
      BY <1>1, <1>2, <2>1, <3>1, <3>2, <3>3, FlushBufferOK
  <2>2. CASE ~ (need > 0)
    BY <1>2, <2>2
  <2>3. QED
    BY <2>1, <2>2
<1>6. /\ wmbs' = FindWmb(k)
      /\ open /\ open' = open /\ phase = "user"
      /\ ret' = <<"write", f.res>>
      /\ decomps' = decomps /\ frame' = frame
      /\ nfailures' = (IF fail = "none" THEN nfailures ELSE nfailures + 1)
      /\ \/ /\ f.res = "ok"
            /\ arrays' = [arrays EXCEPT ![k] = Append(kept, a)]
            /\ refs' = [f.refs EXCEPT ![v] = @ \cup {d}]
            /\ nwrites' = nwrites + 1
            /\ latest' = [latest EXCEPT ![a.slot] = a.ver]
            /\ phase' = phase
         \/ /\ f.res # "ok"
            /\ arrays' = [arrays EXCEPT ![k] = kept]
            /\ refs' = f.refs
            /\ phase' = (IF f.res = "abort" THEN "aborted" ELSE phase)
            /\ nwrites' = nwrites /\ latest' = latest
      /\ io' = f.st
  BY DEF WriteDarray, MayWrite
<1>7. kept \in Seq(CachedArray) /\ kept \in {<<>>, arrays[k]} /\ (need > 0 => kept = <<>>)
  BY <1>2, EmptySeq
<1>8. /\ wmbs' \in Seq(Wmbs)
      /\ \E i \in DOMAIN wmbs' : wmbs'[i] = k
      /\ \A i \in DOMAIN wmbs : i \in DOMAIN wmbs' /\ wmbs'[i] = wmbs[i]
      /\ ListedOnce'
  <2> HIDE DEF k
  <2>1. wmbs \in Seq(Wmbs) /\ ListedOnce
    BY DEF CacheInv, TypeOK
  <2>2. wmbs' = FindWmb(k)
    BY <1>6
  <2>3. k \in Wmbs
    BY <1>1
  <2>4. /\ wmbs' \in Seq(Wmbs)
        /\ \E i \in DOMAIN wmbs' : wmbs'[i] = k
        /\ \A i \in DOMAIN wmbs : i \in DOMAIN wmbs' /\ wmbs'[i] = wmbs[i]
        /\ \A i, j \in DOMAIN wmbs' : wmbs'[i] = wmbs'[j] => i = j
    <3>1. HasListed(FindWmb(k), k)
      BY ONLY <2>1, <2>3, FindWmbOK
    <3>2. QED
      BY ONLY <2>2, <3>1, Zenon DEF HasListed
  <2>5. QED
    BY <2>4 DEF ListedOnce
<1> HIDE DEF k, f, kept, a, toDisk
\* What is cached for k afterwards, in either outcome.
<1>9. PICK new \in {Append(kept, a), kept} :
        /\ arrays' = [arrays EXCEPT ![k] = new]
        /\ new = Append(kept, a) => d \in refs'[v]
  BY <1>5, <1>6
<1>10. /\ new \in Seq(CachedArray)
       /\ \A i \in DOMAIN new : \/ new[i] = a /\ new = Append(kept, a)
                                \/ need = 0 /\ i \in DOMAIN arrays[k]
                                            /\ new[i] = arrays[k][i]
  <2>1. CASE new = Append(kept, a)
    <3>1. DOMAIN kept = 1..Len(kept) /\ Len(kept) \in Nat
      BY <1>7, LenProperties
    <3>2. /\ new \in Seq(CachedArray) /\ DOMAIN new = 1..(Len(kept) + 1)
          /\ \A i \in DOMAIN kept : new[i] = kept[i]
          /\ new[Len(kept) + 1] = a
      BY <1>1, <1>7, <2>1, <3>1
    <3>3. kept # <<>> => need = 0 /\ kept = arrays[k]
      BY <1>7
    <3>4. \A i \in DOMAIN kept : kept # <<>>
      BY <3>1
    <3>5. QED
      BY <2>1, <3>1, <3>2, <3>3, <3>4
  <2>2. CASE new = kept
    <3>1. kept # <<>> => need = 0 /\ kept = arrays[k]
      BY <1>7
    <3>2. \A i \in DOMAIN kept : kept # <<>>
      BY <1>7, LenProperties
    <3>3. QED
      BY <1>7, <2>2, <3>1, <3>2
  <2>3. QED
    BY <1>9, <2>1, <2>2
<1>11. \A w \in Vars, e \in Decomps :
         e \in refs[w] /\ e \notin refs'[w]
           => need > 0 /\ e = d /\ w \in VarsIn(arrays[k])
  BY <1>5, <1>6
<1>12. IoOK(io')
  BY <1>5, <1>6
<1>13. TypeOK'
  <2>1. arrays' \in [Wmbs -> Seq(CachedArray)]
    BY <1>1, <1>2, <1>9, <1>10 DEF TypeOK
  <2>2. refs' \in [Vars -> SUBSET Decomps] /\ io' \in IoState
    BY <1>5, <1>6, <1>12 DEF IoOK
  <2>3. nwrites' \in Nat /\ nfailures' \in Nat /\ latest' \in [Slots -> Nat]
    <3>1. nwrites \in Nat /\ nfailures \in Nat /\ latest \in [Slots -> Nat]
      BY <1>2 DEF TypeOK
    <3>2. a.slot \in Slots /\ a.ver \in Nat
      BY <1>1 DEF CachedArray, Versions
    <3>3. nwrites' \in {nwrites, nwrites + 1} /\ nfailures' \in {nfailures, nfailures + 1}
      BY <1>6
    <3>4. latest' \in {latest, [latest EXCEPT ![a.slot] = a.ver]}
      BY <1>6
    <3>5. QED
      BY <3>1, <3>2, <3>3, <3>4
  <2>4. QED
    BY <1>2, <1>5, <1>6, <1>8, <2>1, <2>2, <2>3 DEF TypeOK
<1>14. FixedVarsHaveNoFrame'
  BY <1>6 DEF CacheInv, FixedVarsHaveNoFrame
<1>15. ArraysOfOneKind'
  BY <1>1, <1>2, <1>3, <1>9, <1>10, SMTT(30) DEF CacheInv, ArraysOfOneKind, TypeOK
<1>16. CachedDecompReachable'
  <2> SUFFICES ASSUME NEW q \in Wmbs, NEW i \in DOMAIN arrays'[q]
               PROVE  q.ioid \in refs'[arrays'[q][i].slot.var]
    BY DEF CachedDecompReachable
  <2>1. CASE q = k
    <3>1. arrays'[k] = new
      BY <1>1, <1>2, <1>9 DEF TypeOK
    <3>2. CASE new[i] = a /\ new = Append(kept, a)
      BY <1>1, <1>9, <2>1, <3>1, <3>2
    <3>3. CASE need = 0 /\ i \in DOMAIN arrays[k] /\ new[i] = arrays[k][i]
      <4>1. d \in refs[new[i].slot.var] /\ new[i].slot.var \in Vars
        BY <1>1, <1>2, <3>3, ArrayFields DEF CacheInv, CachedDecompReachable
      <4>2. QED
        BY <1>1, <1>11, <2>1, <3>1, <3>3, <4>1
    <3>4. QED
      BY <1>10, <2>1, <3>1, <3>2, <3>3
  <2>2. CASE q # k
    <3> DEFINE w == arrays[q][i].slot.var
    <3>1. arrays'[q] = arrays[q] /\ arrays[q] \in Seq(CachedArray)
      BY <1>1, <1>2, <1>9, <2>2 DEF TypeOK
    <3>2. w \in Vars /\ q.ioid \in refs[w] /\ q.ioid \in Decomps
      BY <3>1, ArrayFields DEF CacheInv, CachedDecompReachable, Wmbs
    <3>3. q.ioid = d => (q.rec <=> ~k.rec)
      BY <1>1, <2>2 DEF Wmbs
    <3>4. q.ioid = d => w \notin VarsIn(arrays[k])
      <4>1. q.rec <=> w \in RecordVars
        BY <3>1 DEF CacheInv, ArraysOfOneKind
      <4>2. \A j \in DOMAIN arrays[k] : k.rec <=> arrays[k][j].slot.var \in RecordVars
        BY <1>1 DEF CacheInv, ArraysOfOneKind
      <4> HIDE DEF w
      <4>3. QED
        BY <3>3, <4>1, <4>2 DEF VarsIn
    <3>5. QED
      BY <1>11, <3>1, <3>2, <3>4
  <2>3. QED
    BY <2>1, <2>2
<1>17. CachedIsListed'
  <2> SUFFICES ASSUME NEW q \in Wmbs, arrays'[q] # <<>>
               PROVE  \E i \in DOMAIN wmbs' : wmbs'[i] = q
    BY DEF CachedIsListed
  <2>1. q = k \/ arrays'[q] = arrays[q]
    BY <1>1, <1>2, <1>9 DEF TypeOK
  <2>2. QED
    BY <1>8, <2>1 DEF CacheInv, CachedIsListed
<1>18. SyncingIsOpen' /\ ClosedHoldsOnlyFailedFills'
  BY <1>6 DEF SyncingIsOpen, ClosedHoldsOnlyFailedFills
<1>19. QED
  BY <1>8, <1>12, <1>13, <1>14, <1>15, <1>16, <1>17, <1>18 DEF CacheInv

\* One turn of the loop of sync_file.
LEMMA SyncWmbKeeps ==
  ASSUME CacheInv, NEW full \in BOOLEAN, NEW fail \in Failures,
         NEW done \in 0..MaxWrites,
         SyncWmb(full, fail, done)
  PROVE  CacheInv'
<1> DEFINE k == Head(wmbs)
           f == FlushBuffer(k, full, fail, done)
<1>1. wmbs \in Seq(Wmbs) /\ wmbs # <<>>
  BY DEF SyncWmb, CacheInv, TypeOK
<1>2. /\ k \in Wmbs /\ k = wmbs[1] /\ Len(wmbs) \in Nat \ {0}
      /\ DOMAIN wmbs = 1..Len(wmbs)
      /\ Tail(wmbs) \in Seq(Wmbs) /\ DOMAIN Tail(wmbs) = 1..(Len(wmbs) - 1)
      /\ \A i \in DOMAIN Tail(wmbs) : Tail(wmbs)[i] = wmbs[i + 1]
  BY <1>1, LenProperties
<1>3. /\ TypeOK /\ IoOK(io)
      /\ arrays \in [Wmbs -> Seq(CachedArray)] /\ arrays[k] \in Seq(CachedArray)
      /\ refs \in [Vars -> SUBSET Decomps]
  BY <1>2 DEF CacheInv, TypeOK
<1>4. Pnetcdf => done <= Len(arrays[k])
  <2>1. Len(arrays[k]) \in Nat
    BY <1>3, LenProperties
  <2>2. QED
    BY <2>1, WriteCacheAssumption DEF SyncWmb, Library
<1>5. /\ arrays' = [arrays EXCEPT ![k] = <<>>]
      /\ refs' = f.refs /\ io' = f.st
      /\ phase' = (IF f.res = "abort" THEN "aborted" ELSE phase)
      /\ wmbs' = Tail(wmbs)
      /\ nfailures' = (IF fail = "none" THEN nfailures ELSE nfailures + 1)
      /\ open' = open /\ ret' = ret /\ decomps' = decomps /\ frame' = frame
      /\ nwrites' = nwrites /\ latest' = latest
      /\ phase \in {"sync", "close"}
  BY DEF SyncWmb
<1> HIDE DEF k
<1>6. /\ IoOK(f.st) /\ f.res \in {"ok", "err", "abort"}
      /\ f.refs \in [Vars -> SUBSET Decomps]
      /\ \A w \in Vars, e \in Decomps :
           e \in refs[w] /\ e \notin f.refs[w] => e = k.ioid /\ w \in VarsIn(arrays[k])
  <2>1. done \in Nat
    OBVIOUS
  <2> HIDE DEF f
  <2>2. f = FlushBuffer(k, full, fail, done)
    BY DEF f
  <2>3. QED
    BY <1>2, <1>3, <1>4, <2>1, <2>2, FlushBufferOK
<1> HIDE DEF f
<1>7. arrays'[k] = <<>> /\ \A q \in Wmbs : q # k => arrays'[q] = arrays[q]
  BY <1>2, <1>3, <1>5
<1>8. TypeOK'
  <2>1. arrays' \in [Wmbs -> Seq(CachedArray)]
    BY <1>2, <1>3, <1>5, EmptySeq
  <2>2. io' \in IoState
    BY <1>5, <1>6 DEF IoOK
  <2>3. QED
    BY <1>2, <1>3, <1>5, <1>6, <2>1, <2>2 DEF TypeOK
<1>9. FixedVarsHaveNoFrame' /\ ArraysOfOneKind'
  <2>1. FixedVarsHaveNoFrame'
    BY <1>5 DEF CacheInv, FixedVarsHaveNoFrame
  <2>2. \A q \in Wmbs : DOMAIN arrays'[q] # {} => arrays'[q] = arrays[q]
    BY <1>7
  <2>3. QED
    BY <2>1, <2>2 DEF CacheInv, ArraysOfOneKind
<1>10. CachedDecompReachable'
  <2> SUFFICES ASSUME NEW q \in Wmbs, NEW i \in DOMAIN arrays'[q]
               PROVE  q.ioid \in refs'[arrays'[q][i].slot.var]
    BY DEF CachedDecompReachable
  <2> DEFINE w == arrays[q][i].slot.var
  <2>1. q # k /\ arrays'[q] = arrays[q]
    BY <1>7
  <2>2. w \in Vars /\ q.ioid \in refs[w] /\ q.ioid \in Decomps
    <3>1. arrays[q] \in Seq(CachedArray)
      BY <1>3
    <3>2. QED
      BY <2>1, <3>1, ArrayFields DEF CacheInv, CachedDecompReachable, Wmbs
  <2>3. q.ioid = k.ioid => (q.rec <=> ~k.rec)
    BY <1>2, <2>1 DEF Wmbs
  <2>4. q.rec <=> w \in RecordVars
    BY <2>1 DEF CacheInv, ArraysOfOneKind
  <2>5. \A j \in DOMAIN arrays[k] : k.rec <=> arrays[k][j].slot.var \in RecordVars
    BY <1>2 DEF CacheInv, ArraysOfOneKind
  <2> HIDE DEF w
  <2>6. q.ioid = k.ioid => w \notin VarsIn(arrays[k])
    BY <2>3, <2>4, <2>5 DEF VarsIn
  <2>7. q.ioid \in refs'[w]
    BY <1>5, <1>6, <2>2, <2>6
  <2>8. QED
    BY <2>1, <2>7 DEF w
<1>11. ListedOnce' /\ CachedIsListed'
  <2>1. ListedOnce'
    BY <1>2, <1>5 DEF CacheInv, ListedOnce
  <2>2. ASSUME NEW q \in Wmbs, arrays'[q] # <<>>
        PROVE  \E i \in DOMAIN wmbs' : wmbs'[i] = q
    <3>1. q # k /\ arrays[q] # <<>>
      BY <1>7, <2>2
    <3>2. PICK i \in DOMAIN wmbs : wmbs[i] = q
      BY <3>1 DEF CacheInv, CachedIsListed
    <3>3. i - 1 \in DOMAIN Tail(wmbs) /\ Tail(wmbs)[i - 1] = q
      BY <1>2, <3>1, <3>2
    <3>4. QED
      BY <1>5, <3>3
  <2>3. QED
    BY <2>1, <2>2 DEF CachedIsListed
<1>12. SyncingIsOpen' /\ ClosedHoldsOnlyFailedFills'
  BY <1>5, <1>6 DEF CacheInv, SyncingIsOpen, ClosedHoldsOnlyFailedFills
<1>13. IoOK(io')
  BY <1>5, <1>6
<1>14. QED
  BY <1>8, <1>9, <1>10, <1>11, <1>12, <1>13 DEF CacheInv

\* The end of sync_file has every request waited for.
LEMMA SyncedOK ==
  ASSUME IoOK(io)
  PROVE  /\ IoOK(Synced)
         /\ Synced.reqs = {} /\ Synced.fillbuf \subseteq Synced.leftFill
<1>1. CASE Pnetcdf
  BY <1>1, WaitAllOK DEF Synced
<1>2. CASE ~Pnetcdf
  BY <1>2 DEF Synced, IoOK
<1>3. QED
  BY <1>1, <1>2

\* Without wmbs in the list nothing is cached.
LEMMA NothingListedNothingCached ==
  ASSUME CacheInv, wmbs = <<>>
  PROVE  \A k \in Wmbs : arrays[k] = <<>>
BY DEF CacheInv, CachedIsListed

\* PIOc_sync returns.
LEMMA SyncReturnsKeeps ==
  ASSUME CacheInv, SyncReturns
  PROVE  CacheInv'
<1>1. IoOK(io') /\ io' \in IoState
  BY SyncedOK DEF CacheInv, SyncReturns, IoOK
<1>2. /\ phase' = "user" /\ ret' = <<"sync", "ok">>
      /\ UNCHANGED <<open, decomps, frame, wmbs, arrays, refs, nwrites,
                     nfailures, latest>>
  BY DEF SyncReturns
<1>3. TypeOK'
  BY <1>1, <1>2 DEF CacheInv, TypeOK, Wmbs, CachedArray, Slots
<1>4. SyncingIsOpen' /\ ClosedHoldsOnlyFailedFills'
  <2>1. open
    BY DEF CacheInv, SyncReturns, SyncingIsOpen
  <2>2. QED
    BY <1>2, <2>1 DEF SyncingIsOpen, ClosedHoldsOnlyFailedFills
<1>5. QED
  BY <1>1, <1>2, <1>3, <1>4
  DEF CacheInv, FixedVarsHaveNoFrame, ArraysOfOneKind, CachedDecompReachable,
      CachedIsListed, ListedOnce

\* PIOc_closefile returns.
LEMMA CloseReturnsKeeps ==
  ASSUME CacheInv, CloseReturns
  PROVE  CacheInv'
<1>1. IoOK(Synced) /\ Synced.reqs = {} /\ Synced.fillbuf \subseteq Synced.leftFill
  BY SyncedOK DEF CacheInv
<1> DEFINE S == Synced
<1>2. /\ phase' = (IF S.mv = {} THEN "user" ELSE "aborted")
      /\ ret' = <<"close", IF S.mv = {} THEN "ok" ELSE "abort">>
      /\ io' = S
      /\ refs' = [v \in Vars |-> {}]
      /\ open' = FALSE /\ wmbs = <<>>
      /\ UNCHANGED <<decomps, frame, wmbs, arrays, nwrites, nfailures, latest>>
  BY DEF CloseReturns
<1> HIDE DEF S
<1>3. IoOK(S) /\ S.reqs = {} /\ S.fillbuf \subseteq S.leftFill
  BY <1>1 DEF S
<1>5. IoOK(io') /\ io'.mv = S.mv /\ io'.reqs = {} /\ io'.fillbuf \subseteq io'.leftFill
  BY <1>2, <1>3
<1>6. \A k \in Wmbs : arrays'[k] = <<>>
  BY <1>2, NothingListedNothingCached
<1>7. TypeOK'
  BY <1>2, <1>5 DEF CacheInv, TypeOK, IoOK
<1>8. ArraysOfOneKind' /\ CachedDecompReachable' /\ CachedIsListed'
  BY <1>6 DEF ArraysOfOneKind, CachedDecompReachable, CachedIsListed
<1>9. ClosedHoldsOnlyFailedFills' /\ SyncingIsOpen'
  BY <1>2, <1>5, <1>6 DEF ClosedHoldsOnlyFailedFills, SyncingIsOpen
<1>10. FixedVarsHaveNoFrame' /\ ListedOnce'
  BY <1>2 DEF CacheInv, FixedVarsHaveNoFrame, ListedOnce
<1>11. QED
  BY <1>5, <1>7, <1>8, <1>9, <1>10 DEF CacheInv

\* A new file structure has no fill buffers; the I/O side is else the same.
LEMMA ReopenIo ==
  ASSUME IoOK(io), Reopen
  PROVE  /\ IoOK(io')
         /\ io'.mv = io.mv /\ io'.reqs = io.reqs /\ io'.disk = io.disk
         /\ io'.fillbuf = {} /\ io'.leftMv = io.leftMv
<1>1. io' = [io EXCEPT !.fillbuf = {}, !.leftFill = {}] /\ io \in IoState
  BY DEF Reopen, IoOK
<1>2. QED
  BY <1>1 DEF IoOK, IoState

\* PIOc_openfile.
LEMMA ReopenKeeps ==
  ASSUME CacheInv, Reopen
  PROVE  CacheInv'
<1>1. /\ open' = TRUE /\ frame' = [v \in Vars |-> NoFrame]
      /\ ret' = <<"open", "ok">>
      /\ UNCHANGED <<phase, decomps, wmbs, arrays, refs, nwrites, nfailures, latest>>
  BY DEF Reopen
<1>4. IoOK(io') /\ io' \in IoState
  BY ReopenIo DEF CacheInv, IoOK
<1>2. TypeOK'
  BY <1>1, <1>4 DEF CacheInv, TypeOK
<1>3. FixedVarsHaveNoFrame' /\ SyncingIsOpen' /\ ClosedHoldsOnlyFailedFills'
  BY <1>1, WriteCacheAssumption
  DEF FixedVarsHaveNoFrame, SyncingIsOpen, ClosedHoldsOnlyFailedFills
<1>5. QED
  BY <1>1, <1>2, <1>3, <1>4
  DEF CacheInv, ArraysOfOneKind, CachedDecompReachable, CachedIsListed, ListedOnce

\* The calls that leave the cache alone.
LEMMA QuietKeeps ==
  ASSUME CacheInv,
         \/ \E v \in Vars, f \in Frames : SetFrame(v, f)
         \/ \E d \in Decomps : FreeDecomp(d)
         \/ \E call \in {"sync", "close"} : CallSync(call)
         \/ UNCHANGED vars
  PROVE  CacheInv'
<1>1. UNCHANGED <<wmbs, arrays, refs, io, nwrites, nfailures, latest, open>>
  BY DEF SetFrame, FreeDecomp, CallSync, vars
<1>2. TypeOK'
  <2>1. CASE \E v \in Vars, f \in Frames : SetFrame(v, f)
    BY <2>1 DEF CacheInv, TypeOK, SetFrame
  <2>2. CASE \E d \in Decomps : FreeDecomp(d)
    BY <2>2 DEF CacheInv, TypeOK, FreeDecomp
  <2>3. CASE \E call \in {"sync", "close"} : CallSync(call)
    BY <2>3 DEF CacheInv, TypeOK, CallSync
  <2>4. CASE UNCHANGED vars
    BY <2>4 DEF CacheInv, TypeOK, vars
  <2>5. QED
    BY <2>1, <2>2, <2>3, <2>4
<1>3. FixedVarsHaveNoFrame'
  BY WriteCacheAssumption
  DEF CacheInv, TypeOK, FixedVarsHaveNoFrame, SetFrame, FreeDecomp, CallSync, vars
<1>4. SyncingIsOpen' /\ ClosedHoldsOnlyFailedFills'
  BY DEF CacheInv, SyncingIsOpen, ClosedHoldsOnlyFailedFills, SetFrame, FreeDecomp, CallSync, vars
<1>5. IoOK(io')
  BY <1>1 DEF CacheInv
<1>6. QED
  BY <1>1, <1>2, <1>3, <1>4, <1>5
  DEF CacheInv, ArraysOfOneKind, CachedDecompReachable, CachedIsListed, ListedOnce

LEMMA NextKeepsCacheInv == CacheInv /\ [Next]_vars => CacheInv'
<1> SUFFICES ASSUME CacheInv, [Next]_vars PROVE CacheInv'
  OBVIOUS
<1>1. ASSUME NEW v \in Vars, NEW d \in Decomps, NEW need \in 0..2,
             NEW full \in BOOLEAN, NEW fail \in Failures, NEW done \in 0..MaxWrites,
             WriteDarray(v, d, need, full, fail, done)
      PROVE  CacheInv'
  BY <1>1, WriteDarrayKeeps
<1>2. ASSUME NEW full \in BOOLEAN, NEW fail \in Failures, NEW done \in 0..MaxWrites,
             SyncWmb(full, fail, done)
      PROVE  CacheInv'
  BY <1>2, SyncWmbKeeps
<1>3. CASE SyncReturns
  BY <1>3, SyncReturnsKeeps
<1>4. CASE CloseReturns
  BY <1>4, CloseReturnsKeeps
<1>5. CASE Reopen
  BY <1>5, ReopenKeeps
<1>6. CASE \/ \E v \in Vars, f \in Frames : SetFrame(v, f)
           \/ \E d \in Decomps : FreeDecomp(d)
           \/ \E call \in {"sync", "close"} : CallSync(call)
           \/ UNCHANGED vars
  BY <1>6, QuietKeeps
<1>7. QED
  BY <1>1, <1>2, <1>3, <1>4, <1>5, <1>6 DEF Next

\* The invariant of all calls of the write path, syncs and closes, for all constants.
THEOREM CacheInvariant == Spec => []CacheInv
<1>1. QED
  BY InitCacheInv, NextKeepsCacheInv, PTL DEF Spec

-----------------------------------------------------------------------------
(* The properties                                                          *)

\* The variables keep their types through every call of the write path.
THEOREM TypeCorrect == Spec => []TypeOK
<1>1. CacheInv => TypeOK
  BY DEF CacheInv
<1>2. QED
  BY <1>1, CacheInvariant, PTL

\* A flush always finds the decomposition of what it flushes, freed or not.
THEOREM DecompositionsSurvive == Spec => []CachedDecompReachable
<1>1. CacheInv => CachedDecompReachable
  BY DEF CacheInv
<1>2. QED
  BY <1>1, CacheInvariant, PTL

\* PnetCDF never reads a buffer the mvcache has released.
THEOREM RequestBuffersSurvive == Spec => []RequestBufferLive
<1>1. CacheInv => RequestBufferLive
  BY DEF CacheInv, IoOK, RequestBufferLive
<1>2. QED
  BY <1>1, CacheInvariant, PTL

\* PIOc_closefile leaves nothing of the file behind, whatever has failed, but
\* for the fill buffers of hole grids that a blocking library failed to write.
THEOREM CloseReleasesAllButFailedFills == Spec => []ClosedHoldsOnlyFailedFills
<1>1. CacheInv => ClosedHoldsOnlyFailedFills
  BY DEF CacheInv
<1>2. QED
  BY <1>1, CacheInvariant, PTL

-----------------------------------------------------------------------------
(* The newest version of a slot                                            *)

\* The arrays s of a wmb hold one for slot x.
HeldIn(s, x) == \E i \in DOMAIN s : s[i].slot = x

\* The last of them is version n.
NewestLast(s, x, n) ==
  \E i \in DOMAIN s : /\ s[i].slot = x /\ s[i].ver = n
                      /\ \A j \in DOMAIN s : s[j].slot = x => j <= i

\* They are all version n.
AllAre(s, x, n) == \A i \in DOMAIN s : s[i].slot = x => s[i].ver = n

\* Version n of x has left the wmbs and no older one can still replace it.
Carries(S, x, n) ==
  IF Requested(S, x) # {} THEN n \in Requested(S, x) ELSE n \in S.disk[x]

\* From S to T slot x of the file is left alone or given version n alone, and no
\* other version is on its way.
Moves(S, T, x, n) ==
  T.disk[x] \in {S.disk[x], {n}} /\ Requested(T, x) \subseteq {n}

\* A flush of s took the I/O side from S to T: the newest version n of x went
\* along, and if it was the only one waiting no other reached the file.
Delivers(S, T, s, x, n) ==
  /\ HeldIn(s, x) \/ Carries(S, x, n) => Carries(T, x, n)
  /\ Requested(S, x) \subseteq {n} /\ (Pnetcdf => AllAre(s, x, n)) => Moves(S, T, x, n)

\* Both only look at the requests and the file.
LEMMA SameData ==
  ASSUME NEW S, NEW T, NEW x, NEW n, T.reqs = S.reqs, T.disk = S.disk
  PROVE  /\ Carries(S, x, n) <=> Carries(T, x, n)
         /\ Requested(T, x) = Requested(S, x)
BY DEF Carries, Requested

LEMMA WaitAllData ==
  ASSUME NEW S, IoOK(S), NEW x \in Slots, NEW n
  PROVE  /\ Carries(S, x, n) => Carries(WaitAll(S), x, n)
         /\ Requested(S, x) \subseteq {n} => Moves(S, WaitAll(S), x, n)
<1>1. /\ WaitAll(S).reqs = {}
      /\ WaitAll(S).disk[x] = IF Requested(S, x) = {} THEN S.disk[x]
                              ELSE Requested(S, x)
  BY DEF WaitAll, IoOK, IoState
<1>2. Requested(WaitAll(S), x) = {}
  BY <1>1 DEF Requested
<1>3. Requested(S, x) \subseteq {n} => Requested(S, x) \in {{}, {n}}
  OBVIOUS
<1>4. QED
  BY <1>1, <1>2, <1>3 DEF Carries, Moves

\* Queueing: every version of x in s becomes a request.
LEMMA PutQueuedData ==
  ASSUME NEW S, IoOK(S), NEW s \in Seq(CachedArray), NEW d,
         NEW x \in Slots, NEW n,
         HeldIn(s, x) => NewestLast(s, x, n)
  PROVE  /\ HeldIn(s, x) \/ Carries(S, x, n) => Carries(PutQueued(S, s, d), x, n)
         /\ Requested(S, x) \subseteq {n} /\ AllAre(s, x, n)
              => Moves(S, PutQueued(S, s, d), x, n)
<1> DEFINE P == PutQueued(S, s, d)
           R == {[slot |-> s[i].slot, ver |-> s[i].ver, ioid |-> d] : i \in DOMAIN s}
           V == {s[i].ver : i \in {j \in DOMAIN s : s[j].slot = x}}
<1>1. P.reqs = S.reqs \cup R /\ P.disk = S.disk
  BY DEF PutQueued, IoOK, IoState
<1>2. Requested(P, x) = Requested(S, x) \cup V
  <2>1. ASSUME NEW r \in R, r.slot = x PROVE r.ver \in V
    BY <2>1
  <2>2. ASSUME NEW i \in DOMAIN s, s[i].slot = x
        PROVE  \E r \in R : r.slot = x /\ r.ver = s[i].ver
    <3>1. [slot |-> s[i].slot, ver |-> s[i].ver, ioid |-> d] \in R
      OBVIOUS
    <3> HIDE DEF R
    <3>2. QED
      BY <2>2, <3>1
  <2> HIDE DEF R, P
  <2>3. Requested(P, x) = Requested(S, x) \cup {r.ver : r \in {q \in R : q.slot = x}}
    BY <1>1 DEF Requested
  <2>4. {r.ver : r \in {q \in R : q.slot = x}} = V
    BY <2>1, <2>2
  <2>5. QED
    BY <2>3, <2>4
<1>3. HeldIn(s, x) => n \in V
  BY DEF NewestLast
<1>4. ~HeldIn(s, x) => V = {}
  BY DEF HeldIn
<1>5. AllAre(s, x, n) => V \subseteq {n}
  BY DEF AllAre
<1> HIDE DEF P, R, V
<1>6. HeldIn(s, x) \/ Carries(S, x, n) => Carries(P, x, n)
  BY <1>1, <1>2, <1>3, <1>4 DEF Carries
<1>7. Requested(S, x) \subseteq {n} /\ V \subseteq {n} => Moves(S, P, x, n)
  BY <1>1, <1>2 DEF Moves
<1>8. QED
  BY <1>5, <1>6, <1>7 DEF P

\* A blocking library: the last array written to x stays.
LEMMA PutBlockingData ==
  ASSUME NEW S, IoOK(S), S.reqs = {}, NEW s \in Seq(CachedArray),
         NEW x \in Slots, NEW n,
         HeldIn(s, x) => NewestLast(s, x, n)
  PROVE  /\ HeldIn(s, x) \/ Carries(S, x, n) => Carries(PutBlocking(S, s), x, n)
         /\ Moves(S, PutBlocking(S, s), x, n)
<1> DEFINE P == PutBlocking(S, s)
           hits == {i \in DOMAIN s : s[i].slot = x}
           last == {j \in hits : \A h \in hits : h <= j}
<1>1. P.reqs = {} /\ P.disk[x] = IF hits = {} THEN S.disk[x] ELSE {s[i].ver : i \in last}
  BY DEF PutBlocking, IoOK, IoState
<1>2. Requested(P, x) = {} /\ Requested(S, x) = {}
  BY <1>1 DEF Requested
<1>3. ~HeldIn(s, x) <=> hits = {}
  BY DEF HeldIn
<1>4. ASSUME HeldIn(s, x) PROVE {s[i].ver : i \in last} = {n}
  <2>1. PICK i \in hits : s[i].ver = n /\ \A j \in hits : j <= i
    BY <1>4 DEF NewestLast
  <2>2. hits \subseteq Int
    BY LenProperties
  <2>3. last = {i}
    BY <2>1, <2>2
  <2> HIDE DEF last
  <2>4. QED
    BY <2>1, <2>3
<1> HIDE DEF P, hits, last
<1>5. QED
  BY <1>1, <1>2, <1>3, <1>4 DEF Carries, Moves, P

\* PIOc_write_darray_multi when the library does not fail.
LEMMA WriteMultiData ==
  ASSUME NEW S, IoOK(S), ~Pnetcdf => S.mv = {},
         NEW s \in Seq(CachedArray), s # <<>>, NEW d \in Decomps,
         NEW toDisk \in BOOLEAN, NEW done, NEW w,
         w = WriteMulti(S, s, d, toDisk, "none", done),
         NEW x \in Slots, NEW n,
         HeldIn(s, x) => NewestLast(s, x, n)
  PROVE  /\ w.res \in {"ok", "abort"}
         /\ w.res = "ok" /\ ~Pnetcdf => w.st.mv = {}
         /\ Delivers(S, w.st, s, x, n)
<1> DEFINE A == Acquire(S, d)
           B == [A EXCEPT !.mv = @ \cup {d}]
           P == Release(IF Pnetcdf THEN PutQueued(B, s, d) ELSE PutBlocking(B, s), d)
           F == TakeFill(P, s, d)
           Z == Finish(P, s, d, toDisk)
           ins == AllAre(s, x, n)
<1>0. Pnetcdf \in BOOLEAN
  BY WriteCacheAssumption
<1>1. /\ IoOK(A) /\ d \notin A.mv /\ (~Pnetcdf => A = S /\ A.mv = {})
      /\ Carries(S, x, n) => Carries(A, x, n)
      /\ Requested(S, x) \subseteq {n} => Moves(S, A, x, n)
  <2>1. A = S \/ (Pnetcdf /\ A = WaitAll(S))
    BY DEF Acquire
  <2>2. d \notin A.mv /\ (~Pnetcdf => A = S /\ A.mv = {})
    BY WaitAllOK DEF Acquire
  <2>3. Requested(S, x) \subseteq {n} => Moves(S, S, x, n)
    BY DEF Moves
  <2> HIDE DEF A
  <2>4. QED
    BY <2>1, <2>2, <2>3, WaitAllOK, WaitAllData
<1>2. /\ IoOK(B) /\ B.reqs = A.reqs /\ B.disk = A.disk /\ B.mv = A.mv \cup {d} /\ d \in B.mv
  <2> HIDE DEF A
  <2>1. QED
    BY <1>1 DEF IoOK, IoState
<1>3. /\ IoOK(P)
      /\ HeldIn(s, x) \/ Carries(B, x, n) => Carries(P, x, n)
      /\ Requested(B, x) \subseteq {n} /\ (Pnetcdf => ins) => Moves(B, P, x, n)
      /\ ~Pnetcdf => P.mv = B.mv \ {d}
  <2> HIDE DEF B
  <2>1. CASE Pnetcdf
    <3>1. IoOK(PutQueued(B, s, d))
      BY <1>2, <2>1, PutQueuedOK
    <3>2. /\ HeldIn(s, x) \/ Carries(B, x, n) => Carries(PutQueued(B, s, d), x, n)
          /\ Requested(B, x) \subseteq {n} /\ ins => Moves(B, PutQueued(B, s, d), x, n)
      BY <1>2, PutQueuedData
    <3>3. P = PutQueued(B, s, d)
      BY <2>1 DEF Release
    <3>4. QED
      BY <2>1, <3>1, <3>2, <3>3
  <2>2. CASE ~Pnetcdf
    <3> DEFINE Q == PutBlocking(B, s)
    <3>1. IoOK(Q) /\ IoOK(P)
      BY <1>2, <2>2, PutBlockingOK, WrittenOK
    <3>2. B.reqs = {}
      BY <1>2, <2>2 DEF IoOK
    <3>3. /\ HeldIn(s, x) \/ Carries(B, x, n) => Carries(Q, x, n)
          /\ Moves(B, Q, x, n)
      BY <1>2, <3>2, PutBlockingData
    <3>4. Q.mv = B.mv
      BY <1>2 DEF PutBlocking, IoOK, IoState
    <3>5. P = Release(Q, d)
      BY <2>2
    <3> HIDE DEF Q, P
    <3>6. P.reqs = Q.reqs /\ P.disk = Q.disk /\ P.mv = Q.mv \ {d}
      BY <2>2, <3>1, <3>5, ReleaseFields DEF IoOK
    <3>7. QED
      BY <2>2, <3>1, <3>3, <3>4, <3>6, SameData DEF Moves
  <2>3. QED
    BY <1>0, <2>1, <2>2
<1>4. HeldIn(s, x) \/ Carries(S, x, n) => Carries(P, x, n)
  <2> HIDE DEF A, B, P
  <2>1. QED
    BY <1>1, <1>2, <1>3, SameData
<1>5. Requested(S, x) \subseteq {n} /\ (Pnetcdf => ins) => Moves(S, P, x, n)
  <2> HIDE DEF A, B, P, ins
  <2>1. Requested(B, x) = Requested(A, x)
    BY <1>2, SameData
  <2>2. QED
    BY <1>1, <1>2, <1>3, <2>1 DEF Moves
<1>6. /\ Carries(P, x, n) => Carries(Z, x, n)
      /\ Moves(S, P, x, n) => Moves(S, Z, x, n)
      /\ ~Pnetcdf => Z.mv = B.mv \ {d}
  <2> HIDE DEF P, B
  <2>1. IoOK(P)
    BY <1>3
  <2>3. CASE ~Pnetcdf
    <3>1. Z = P
      BY <2>3 DEF Finish
    <3>2. QED
      BY <1>3, <2>3, <3>1
  <2>4. CASE Pnetcdf
    <3>1. Z = IF toDisk THEN WaitAll(F) ELSE F
      BY <2>4 DEF Finish
    <3>2. /\ IoOK(F)
          /\ Carries(P, x, n) => Carries(F, x, n)
          /\ Moves(S, P, x, n) => Moves(S, F, x, n)
      <4>1. P \in IoState
        BY <2>1 DEF IoOK
      <4>2. F \in IoState /\ F.reqs = P.reqs /\ F.disk = P.disk /\ F.mv = P.mv
        BY ONLY <4>1, s \in Seq(CachedArray), s # <<>>, TakeFillFields
      <4> HIDE DEF F
      <4>3. IoOK(F)
        BY <2>1, <2>4, <4>2 DEF IoOK
      <4>4. QED
        BY <4>2, <4>3, SameData DEF Moves
    <3> HIDE DEF F, Z
    <3>3. /\ Carries(F, x, n) => Carries(WaitAll(F), x, n)
          /\ Moves(S, F, x, n) => Moves(S, WaitAll(F), x, n)
      BY <3>2, WaitAllData DEF Moves
    <3>4. QED
      BY <2>4, <3>1, <3>2, <3>3
  <2>5. QED
    BY <1>0, <2>3, <2>4
<1>7. (w.st = P /\ w.res = "abort") \/ (w.st = Z /\ w.res = "ok")
  <2>1. w = IF d \in A.mv THEN [st |-> A, res |-> "abort"]
            ELSE IF d \in HoleFill /\ s[1].slot.var \in P.fillbuf
                 THEN [st |-> P, res |-> "abort"]
            ELSE [st |-> Z, res |-> "ok"]
    BY DEF WriteMulti
  <2>2. d \notin A.mv
    BY <1>1
  <2> HIDE DEF A, B, P, F, Z
  <2>3. w = [st |-> P, res |-> "abort"] \/ w = [st |-> Z, res |-> "ok"]
    BY ONLY <2>1, <2>2
  <2>4. QED
    BY ONLY <2>3
<1>8. ~Pnetcdf => B.mv \ {d} = {}
  <2> HIDE DEF A, B
  <2>1. QED
    BY <1>1, <1>2
<1> HIDE DEF A, B, P, F, Z, ins
<1>9. w.res \in {"ok", "abort"} /\ (w.res = "ok" /\ ~Pnetcdf => w.st.mv = {})
  BY <1>6, <1>7, <1>8
<1>10. HeldIn(s, x) \/ Carries(S, x, n) => Carries(w.st, x, n)
  BY <1>4, <1>6, <1>7
<1>11. Requested(S, x) \subseteq {n} /\ (Pnetcdf => ins) => Moves(S, w.st, x, n)
  BY <1>5, <1>6, <1>7
<1>12. QED
  BY <1>9, <1>10, <1>11 DEF ins, Delivers

\* Appending array a to the arrays s of a wmb.
LEMMA AppendData ==
  ASSUME NEW s \in Seq(CachedArray), NEW a \in CachedArray
  PROVE  /\ \A x : HeldIn(Append(s, a), x) => HeldIn(s, x) \/ a.slot = x
         /\ \A x : HeldIn(s, x) => HeldIn(Append(s, a), x)
         /\ \A x, n : NewestLast(s, x, n) /\ a.slot # x => NewestLast(Append(s, a), x, n)
         /\ NewestLast(Append(s, a), a.slot, a.ver)
         /\ \A i \in DOMAIN Append(s, a) :
              Append(s, a)[i] = a \/ \E j \in DOMAIN s : Append(s, a)[i] = s[j]
<1> DEFINE t == Append(s, a)
           m == Len(s)
<1>1. DOMAIN s = 1..m /\ m \in Nat
  BY LenProperties
<1>2. /\ DOMAIN t = 1..(m + 1)
      /\ \A i \in 1..m : t[i] = s[i]
      /\ t[m + 1] = a
  BY <1>1
<1> HIDE DEF t, m
<1>3. \A i \in DOMAIN t : i = m + 1 \/ i \in DOMAIN s
  BY <1>1, <1>2
<1>4. \A i \in DOMAIN s : i \in DOMAIN t /\ t[i] = s[i] /\ i <= m + 1
  BY <1>1, <1>2
<1>5. m + 1 \in DOMAIN t /\ t[m + 1] = a
  BY <1>1, <1>2
<1>6. \A x : HeldIn(t, x) => HeldIn(s, x) \/ a.slot = x
  BY <1>3, <1>4, <1>5 DEF HeldIn
<1>7. \A x : HeldIn(s, x) => HeldIn(t, x)
  BY <1>4 DEF HeldIn
<1>8. ASSUME NEW x, NEW n, NewestLast(s, x, n), a.slot # x PROVE NewestLast(t, x, n)
  <2>1. PICK i \in DOMAIN s : /\ s[i].slot = x /\ s[i].ver = n
                              /\ \A j \in DOMAIN s : s[j].slot = x => j <= i
    BY <1>8 DEF NewestLast
  <2>2. \A j \in DOMAIN t : t[j].slot = x => j \in DOMAIN s /\ s[j].slot = x
    BY <1>3, <1>4, <1>5, <1>8
  <2>3. QED
    BY <1>4, <2>1, <2>2 DEF NewestLast
<1>9. NewestLast(t, a.slot, a.ver)
  <2>1. \A j \in DOMAIN t : j <= m + 1
    BY <1>1, <1>3, <1>4
  <2>2. QED
    BY <1>5, <2>1 DEF NewestLast
<1>10. \A i \in DOMAIN t : t[i] = a \/ \E j \in DOMAIN s : t[i] = s[j]
  BY <1>3, <1>4, <1>5
<1>11. QED
  BY <1>6, <1>7, <1>8, <1>9, <1>10 DEF t

-----------------------------------------------------------------------------
(* The newest version of every slot is kept                                *)

\* What keeps the versions of a slot in order: the user does not write a slot
\* again before it is on disk, or always writes a variable with one decomposition.
OneQueuePerSlot ==
  RewritePending => \A v \in Vars : \A d, e \in DecompsOf[v] : d = e

\* Arrays are cached under a decomposition the user writes the variable with.
CachedAllowed ==
  \A k \in Wmbs : \A i \in DOMAIN arrays[k] :
    k.ioid \in DecompsOf[arrays[k][i].slot.var]

\* The arrays of one slot wait in one wmb ...
HeldOnce ==
  \A k, q \in Wmbs : \A x \in Slots :
    HeldIn(arrays[k], x) /\ HeldIn(arrays[q], x) => k = q

\* ... the newest as the last ...
NewestCached ==
  \A k \in Wmbs : \A x \in Slots :
    HeldIn(arrays[k], x) => NewestLast(arrays[k], x, latest[x])

\* ... and once no wmb holds any the newest is requested, or in the file with
\* no request left that could replace it.
NewestCarried ==
  nfailures = 0 =>
    \A x \in Slots :
      latest[x] # 0 /\ (\A k \in Wmbs : ~HeldIn(arrays[k], x)) => Carries(io, x, latest[x])

\* Between calls a blocking library that does not fail uses no mvcache buffer.
BlockingIdle == nfailures = 0 /\ ~Pnetcdf /\ phase # "aborted" => io.mv = {}

DataInv ==
  /\ CachedAllowed
  /\ HeldOnce
  /\ NewestCached
  /\ NewestCarried
  /\ BlockingIdle

\* flush_buffer on wmb k when the library does not fail.
LEMMA FlushData ==
  ASSUME CacheInv, DataInv, nfailures = 0, phase # "aborted",
         NEW k \in Wmbs, NEW toDisk \in BOOLEAN, NEW done, NEW f,
         f = FlushBuffer(k, toDisk, "none", done)
  PROVE  /\ f.res \in {"ok", "abort"}
         /\ f.res = "ok" /\ ~Pnetcdf => f.st.mv = {}
         /\ \A x \in Slots :
              latest[x] # 0 /\ (\A q \in Wmbs : q # k => ~HeldIn(arrays[q], x))
                => Carries(f.st, x, latest[x])
         /\ \A x \in Slots : \A n :
              (HeldIn(arrays[k], x) => NewestLast(arrays[k], x, n))
                => Delivers(io, f.st, arrays[k], x, n)
<1> DEFINE s == arrays[k]
           w == WriteMulti(io, s, k.ioid, toDisk, "none", done)
<1>1. s \in Seq(CachedArray) /\ k.ioid \in Decomps /\ IoOK(io)
  BY DEF CacheInv, TypeOK, Wmbs
<1>2. ~Pnetcdf => io.mv = {}
  BY DEF DataInv, BlockingIdle
<1>3. /\ f.res \in {"ok", "abort"}
      /\ f.res = "ok" /\ ~Pnetcdf => f.st.mv = {}
      /\ \A x \in Slots : \A n :
           (HeldIn(s, x) => NewestLast(s, x, n)) => Delivers(io, f.st, s, x, n)
  <2>1. CASE s = <<>>
    <3>1. f = [st |-> io, res |-> "ok", refs |-> refs]
      BY <2>1 DEF FlushBuffer
    <3>2. \A x : ~HeldIn(s, x)
      BY <2>1 DEF HeldIn
    <3> HIDE DEF s, w
    <3>3. f.st = io /\ f.res = "ok"
      BY ONLY <3>1
    <3>4. \A x \in Slots : \A n : Delivers(io, io, s, x, n)
      BY <3>2 DEF Delivers, Moves
    <3>5. QED
      BY <1>2, <3>3, <3>4
  <2>2. CASE s # <<>>
    <3>1. k.ioid \in refs[s[1].slot.var]
      BY <1>1, <2>2, ArrayFields DEF CacheInv, CachedDecompReachable
    <3>2. f.st = w.st /\ f.res = w.res
      BY <2>2, <3>1 DEF FlushBuffer
    <3>3. PICK ww : ww = w
      OBVIOUS
    <3>4. ASSUME NEW x \in Slots, NEW n, HeldIn(s, x) => NewestLast(s, x, n)
          PROVE  /\ ww.res \in {"ok", "abort"}
                 /\ ww.res = "ok" /\ ~Pnetcdf => ww.st.mv = {}
                 /\ Delivers(io, ww.st, s, x, n)
      <4> HIDE DEF s
      <4>1. ww = WriteMulti(io, s, k.ioid, toDisk, "none", done)
        BY <3>3
      <4> HIDE DEF w
      <4>2. QED
        BY ONLY <1>1, <1>2, <2>2, <3>4, <4>1, toDisk \in BOOLEAN, x \in Slots,
           WriteMultiData
    <3>5. s[1].slot \in Slots /\ \E n : HeldIn(s, s[1].slot) => NewestLast(s, s[1].slot, n)
      BY <1>1, <2>2, ArrayFields DEF DataInv, NewestCached
    <3> HIDE DEF s, w
    <3>6. ww.res \in {"ok", "abort"} /\ (ww.res = "ok" /\ ~Pnetcdf => ww.st.mv = {})
      BY <3>4, <3>5
    <3>7. f.st = ww.st /\ f.res = ww.res
      BY <3>2, <3>3
    <3>8. ASSUME NEW x \in Slots, NEW n, HeldIn(s, x) => NewestLast(s, x, n)
          PROVE  Delivers(io, f.st, s, x, n)
      BY <3>4, <3>7, <3>8
    <3>9. QED
      BY <3>6, <3>7, <3>8
  <2>3. QED
    BY <2>1, <2>2
<1>4. ASSUME NEW x \in Slots, latest[x] # 0,
             \A q \in Wmbs : q # k => ~HeldIn(arrays[q], x)
      PROVE  Carries(f.st, x, latest[x])
  <2>1. HeldIn(s, x) => NewestLast(s, x, latest[x])
    BY DEF DataInv, NewestCached
  <2>2. ~HeldIn(s, x) => Carries(io, x, latest[x])
    BY <1>4 DEF DataInv, NewestCarried
  <2>3. QED
    BY <1>3, <2>1, <2>2 DEF Delivers
<1>5. QED
  BY <1>3, <1>4

\* What PIOc_write_darray does to the data: it flushes (or not) wmb k of the
\* variable with outcome f and, if that went well, caches an array of slot y.
WriteOutcome(v, d, need, fail, k, y, f) ==
  /\ k \in Wmbs /\ k.ioid = d /\ (k.rec <=> v \in RecordVars)
  /\ y \in Slots /\ y.var = v
  /\ d \in DecompsOf[v]
  /\ phase = "user" /\ phase' = IF f.res = "abort" THEN "aborted" ELSE phase
  /\ ret' = <<"write", f.res>>
  /\ io' = f.st
  /\ nfailures' = IF fail = "none" THEN nfailures ELSE nfailures + 1
  /\ fail # "none" => nfailures < MaxFailures
  /\ nwrites' = IF f.res = "ok" THEN nwrites + 1 ELSE nwrites
  /\ latest' = IF f.res = "ok" THEN [latest EXCEPT ![y] = nwrites + 1] ELSE latest
  /\ ~RewritePending => /\ \A q \in Wmbs : ~HeldIn(arrays[q], y)
                        /\ Requested(io, y) = {}
  /\ \A q \in Wmbs : q # k => arrays'[q] = arrays[q]
  /\ \A x \in Slots : HeldIn(arrays'[k], x) =>
       HeldIn(arrays[k], x) \/ (x = y /\ f.res = "ok")
  /\ f.res = "ok" => NewestLast(arrays'[k], y, nwrites + 1)
  /\ \A x \in Slots : HeldIn(arrays'[k], x) /\ (x # y \/ f.res # "ok") =>
       \A n : NewestLast(arrays[k], x, n) => NewestLast(arrays'[k], x, n)
  /\ need = 0 => \A x \in Slots : HeldIn(arrays[k], x) => HeldIn(arrays'[k], x)
  /\ \A i \in DOMAIN arrays'[k] :
       \/ /\ f.res = "ok"
          /\ arrays'[k][i].slot = y /\ arrays'[k][i].ver = nwrites + 1
       \/ \E j \in DOMAIN arrays[k] : arrays'[k][i] = arrays[k][j]

\* PIOc_write_darray does so.
LEMMA WriteEffect ==
  ASSUME CacheInv, NEW v \in Vars, NEW d \in Decomps, NEW need \in 0..2,
         NEW full \in BOOLEAN, NEW fail \in Failures, NEW done \in 0..MaxWrites,
         WriteDarray(v, d, need, full, fail, done),
         NEW k, k = WmbOf(v, d), NEW y, y = SlotOf(v),
         NEW f, f = IF need > 0 THEN FlushBuffer(k, need = 2 \/ full, fail, done)
                    ELSE [st |-> io, res |-> "ok", refs |-> refs]
  PROVE  WriteOutcome(v, d, need, fail, k, y, f)
<1> DEFINE kept == IF need > 0 THEN <<>> ELSE arrays[k]
           a == [slot |-> y, ver |-> nwrites + 1]
<1>1. (frame[v] >= 0) <=> v \in RecordVars
  <2>1. v \in RecordVars => frame[v] # -1
    BY DEF WriteDarray, MayWrite, NoFrame
  <2>2. v \notin RecordVars => frame[v] = -1
    BY DEF CacheInv, FixedVarsHaveNoFrame, NoFrame
  <2>3. frame[v] \in Nat \/ frame[v] = -1
    BY WriteCacheAssumption DEF CacheInv, TypeOK, NoFrame
  <2>4. CASE v \in RecordVars
    BY <2>1, <2>3, <2>4
  <2>5. CASE v \notin RecordVars
    BY <2>2, <2>5
  <2>6. QED
    BY <2>4, <2>5
<1>2. /\ k \in Wmbs /\ k.ioid = d /\ (k.rec <=> v \in RecordVars)
      /\ y \in Slots /\ y.var = v /\ a \in CachedArray
  <2>1. k \in Wmbs /\ k.ioid = d /\ (k.rec <=> v \in RecordVars)
    <3>1. k = [ioid |-> d, rec |-> frame[v] >= 0]
      BY DEF WmbOf
    <3>2. k \in Wmbs
      BY <3>1 DEF Wmbs
    <3>3. k.ioid = d
      BY <3>1
    <3>4. WmbOf(v, d).rec <=> v \in RecordVars
      BY <1>1, Zenon DEF WmbOf
    <3>5. QED
      BY <3>2, <3>3, <3>4
  <2>2. frame[v] \in Frames \cup {NoFrame} /\ nwrites + 1 \in Versions
    BY DEF CacheInv, TypeOK, Versions
  <2>3. y \in Slots /\ y.var = v
    BY <2>2 DEF SlotOf, Slots
  <2>4. QED
    BY <2>1, <2>2, <2>3 DEF CachedArray
<1>3. arrays \in [Wmbs -> Seq(CachedArray)] /\ arrays[k] \in Seq(CachedArray)
  BY <1>2 DEF CacheInv, TypeOK
<1>4. /\ d \in DecompsOf[v]
      /\ RewritePending \/ Buffered(y) \cup Requested(io, y) = {}
      /\ phase = "user"
      /\ Library(full, fail, done, IF need > 0 THEN arrays[k] ELSE <<>>, d)
  BY DEF WriteDarray, MayWrite
<1>5. /\ nfailures' = (IF fail = "none" THEN nfailures ELSE nfailures + 1)
      /\ ret' = <<"write", f.res>>
      /\ \/ /\ f.res = "ok"
            /\ arrays' = [arrays EXCEPT ![k] = Append(kept, a)]
            /\ nwrites' = nwrites + 1
            /\ latest' = [latest EXCEPT ![y] = nwrites + 1]
            /\ phase' = phase
         \/ /\ f.res # "ok"
            /\ arrays' = [arrays EXCEPT ![k] = kept]
            /\ phase' = (IF f.res = "abort" THEN "aborted" ELSE phase)
            /\ nwrites' = nwrites /\ latest' = latest
      /\ io' = f.st
  BY DEF WriteDarray
<1>6. fail # "none" => nfailures < MaxFailures
  BY <1>4 DEF Library
<1>7. ~RewritePending => (\A q \in Wmbs : ~HeldIn(arrays[q], y)) /\ Requested(io, y) = {}
  <2> SUFFICES ASSUME ~RewritePending, NEW q \in Wmbs, HeldIn(arrays[q], y) PROVE FALSE
    BY <1>4
  <2>1. PICK i \in DOMAIN arrays[q] : arrays[q][i].slot = y
    BY DEF HeldIn
  <2>2. arrays[q][i].ver \in Buffered(y)
    BY <2>1 DEF Buffered
  <2>3. QED
    BY <1>4, <2>2
<1>8. kept \in Seq(CachedArray) /\ kept \in {<<>>, arrays[k]} /\ (need = 0 => kept = arrays[k])
  BY <1>3, EmptySeq
<1>9. \A x : ~HeldIn(<<>>, x)
  BY DEF HeldIn
<1>10. a.slot = y /\ a.ver = nwrites + 1
  OBVIOUS
<1> HIDE DEF kept, a
<1>11. PICK new : /\ arrays' = [arrays EXCEPT ![k] = new]
                  /\ new = IF f.res = "ok" THEN Append(kept, a) ELSE kept
  BY <1>5
<1>12. arrays'[k] = new /\ \A q \in Wmbs : q # k => arrays'[q] = arrays[q]
  BY <1>2, <1>3, <1>11
<1>13. \A i \in DOMAIN kept : \E j \in DOMAIN arrays[k] : kept[i] = arrays[k][j]
  BY <1>8, EmptySeq
<1>14. \A x : HeldIn(kept, x) => kept = arrays[k]
  BY <1>8, <1>9
<1>15. /\ \A x : HeldIn(new, x) => HeldIn(arrays[k], x) \/ (x = y /\ f.res = "ok")
       /\ f.res = "ok" => NewestLast(new, y, nwrites + 1)
       /\ \A x : HeldIn(new, x) /\ (x # y \/ f.res # "ok") =>
            \A n : NewestLast(arrays[k], x, n) => NewestLast(new, x, n)
       /\ need = 0 => \A x : HeldIn(arrays[k], x) => HeldIn(new, x)
       /\ \A i \in DOMAIN new :
            \/ f.res = "ok" /\ new[i].slot = y /\ new[i].ver = nwrites + 1
            \/ \E j \in DOMAIN arrays[k] : new[i] = arrays[k][j]
  <2>1. CASE f.res = "ok"
    <3>1. new = Append(kept, a)
      BY <1>11, <2>1
    <3>2. /\ \A x : HeldIn(new, x) => HeldIn(kept, x) \/ y = x
          /\ \A x : HeldIn(kept, x) => HeldIn(new, x)
          /\ \A x, n : NewestLast(kept, x, n) /\ y # x => NewestLast(new, x, n)
          /\ NewestLast(new, y, nwrites + 1)
          /\ \A i \in DOMAIN new : new[i] = a \/ \E j \in DOMAIN kept : new[i] = kept[j]
      BY <1>2, <1>8, <1>10, <3>1, AppendData
    <3>3. \A i \in DOMAIN new :
            \/ new[i].slot = y /\ new[i].ver = nwrites + 1
            \/ \E j \in DOMAIN arrays[k] : new[i] = arrays[k][j]
      BY <1>10, <1>13, <3>2
    <3>4. \A x : HeldIn(new, x) /\ x # y =>
            \A n : NewestLast(arrays[k], x, n) => NewestLast(new, x, n)
      BY <1>14, <3>2
    <3>5. \A x : HeldIn(new, x) => HeldIn(arrays[k], x) \/ x = y
      BY <1>14, <3>2
    <3>6. need = 0 => \A x : HeldIn(arrays[k], x) => HeldIn(new, x)
      BY <1>8, <3>2
    <3>7. QED
      BY <2>1, <3>2, <3>3, <3>4, <3>5, <3>6
  <2>2. CASE f.res # "ok"
    <3>1. new = kept
      BY <1>11, <2>2
    <3>2. QED
      BY <1>8, <1>13, <1>14, <2>2, <3>1
  <2>3. QED
    BY <2>1, <2>2
<1>16. /\ phase' = IF f.res = "abort" THEN "aborted" ELSE phase
       /\ nwrites' = IF f.res = "ok" THEN nwrites + 1 ELSE nwrites
       /\ latest' = IF f.res = "ok" THEN [latest EXCEPT ![y] = nwrites + 1] ELSE latest
  BY <1>5
<1>17. QED
  BY <1>2, <1>4, <1>5, <1>6, <1>7, <1>12, <1>15, <1>16 DEF WriteOutcome

LEMMA InitDataInv == Init => DataInv
<1> SUFFICES ASSUME Init PROVE DataInv
  OBVIOUS
<1>1. \A k \in Wmbs : arrays[k] = <<>>
  BY DEF Init
<1>2. \A k \in Wmbs : \A x : ~HeldIn(arrays[k], x)
  BY <1>1 DEF HeldIn
<1>3. (\A x \in Slots : latest[x] = 0) /\ io.mv = {}
  BY DEF Init
<1>4. CachedAllowed
  BY <1>1 DEF CachedAllowed
<1>5. HeldOnce /\ NewestCached
  BY <1>2 DEF HeldOnce, NewestCached
<1>6. NewestCarried /\ BlockingIdle
  BY <1>3 DEF NewestCarried, BlockingIdle
<1>7. QED
  BY <1>4, <1>5, <1>6 DEF DataInv

\* PIOc_write_darray caches an array under the decomposition of the call.
LEMMA WriteDarrayKeepsAllowed ==
  ASSUME CacheInv, CachedAllowed,
         NEW v \in Vars, NEW d \in Decomps, NEW need \in 0..2,
         NEW full \in BOOLEAN, NEW fail \in Failures, NEW done \in 0..MaxWrites,
         WriteDarray(v, d, need, full, fail, done)
  PROVE  CachedAllowed'
<1>1. PICK k, y, f :
        /\ k = WmbOf(v, d) /\ y = SlotOf(v)
        /\ f = IF need > 0 THEN FlushBuffer(k, need = 2 \/ full, fail, done)
               ELSE [st |-> io, res |-> "ok", refs |-> refs]
  OBVIOUS
<1>2. WriteOutcome(v, d, need, fail, k, y, f)
  BY <1>1, WriteEffect
<1>3. /\ k \in Wmbs /\ k.ioid = d /\ y.var = v /\ d \in DecompsOf[v]
      /\ \A q \in Wmbs : q # k => arrays'[q] = arrays[q]
      /\ \A i \in DOMAIN arrays'[k] :
           arrays'[k][i].slot = y \/ \E j \in DOMAIN arrays[k] : arrays'[k][i] = arrays[k][j]
  BY <1>2 DEF WriteOutcome
<1>4. ASSUME NEW q \in Wmbs, NEW i \in DOMAIN arrays'[q]
      PROVE  q.ioid \in DecompsOf[arrays'[q][i].slot.var]
  <2>1. CASE q = k
    BY <1>3, <2>1 DEF CachedAllowed
  <2>2. CASE q # k
    BY <1>3, <2>2 DEF CachedAllowed
  <2>3. QED
    BY <2>1, <2>2
<1>5. QED
  BY <1>4 DEF CachedAllowed

\* PIOc_write_darray.
LEMMA WriteDarrayKeepsData ==
  ASSUME OneQueuePerSlot, CacheInv, DataInv,
         NEW v \in Vars, NEW d \in Decomps, NEW need \in 0..2,
         NEW full \in BOOLEAN, NEW fail \in Failures, NEW done \in 0..MaxWrites,
         WriteDarray(v, d, need, full, fail, done)
  PROVE  DataInv'
<1> DEFINE k == WmbOf(v, d)
           y == SlotOf(v)
           toDisk == need = 2 \/ full
           f == IF need > 0 THEN FlushBuffer(k, toDisk, fail, done)
                ELSE [st |-> io, res |-> "ok", refs |-> refs]
<1>1. PICK kk, yy, ff : kk = k /\ yy = y /\ ff = f
  OBVIOUS
<1> HIDE DEF k, y, f
<1>0. WriteOutcome(v, d, need, fail, kk, yy, ff)
  <2>1. kk = WmbOf(v, d) /\ yy = SlotOf(v)
    BY <1>1 DEF k, y
  <2>2. ff = IF need > 0 THEN FlushBuffer(kk, need = 2 \/ full, fail, done)
             ELSE [st |-> io, res |-> "ok", refs |-> refs]
    BY <1>1 DEF f, k
  <2>3. QED
    BY <2>1, <2>2, WriteEffect
<1>2. /\ kk \in Wmbs /\ kk.ioid = d /\ (kk.rec <=> v \in RecordVars)
      /\ yy \in Slots /\ yy.var = v
      /\ d \in DecompsOf[v]
      /\ phase = "user" /\ phase' = IF ff.res = "abort" THEN "aborted" ELSE phase
      /\ io' = ff.st
      /\ nfailures' = IF fail = "none" THEN nfailures ELSE nfailures + 1
      /\ latest' = IF ff.res = "ok" THEN [latest EXCEPT ![yy] = nwrites + 1] ELSE latest
      /\ ~RewritePending => \A q \in Wmbs : ~HeldIn(arrays[q], yy)
      /\ \A q \in Wmbs : q # kk => arrays'[q] = arrays[q]
      /\ \A x \in Slots : HeldIn(arrays'[kk], x) =>
           HeldIn(arrays[kk], x) \/ (x = yy /\ ff.res = "ok")
      /\ ff.res = "ok" => NewestLast(arrays'[kk], yy, nwrites + 1)
      /\ \A x \in Slots : HeldIn(arrays'[kk], x) /\ (x # yy \/ ff.res # "ok") =>
           \A n : NewestLast(arrays[kk], x, n) => NewestLast(arrays'[kk], x, n)
      /\ need = 0 => \A x \in Slots : HeldIn(arrays[kk], x) => HeldIn(arrays'[kk], x)
      /\ \A i \in DOMAIN arrays'[kk] :
           \/ /\ ff.res = "ok"
              /\ arrays'[kk][i].slot = yy /\ arrays'[kk][i].ver = nwrites + 1
           \/ \E j \in DOMAIN arrays[kk] : arrays'[kk][i] = arrays[kk][j]
  BY <1>0 DEF WriteOutcome
<1>3. latest \in [Slots -> Nat] /\ nfailures \in Nat /\ nwrites \in Nat
  BY DEF CacheInv, TypeOK
<1>4. /\ \A x \in Slots : x # yy \/ ff.res # "ok" => latest'[x] = latest[x]
      /\ ff.res = "ok" => latest'[yy] = nwrites + 1
  BY <1>2, <1>3
<1>5. CachedAllowed'
  BY WriteDarrayKeepsAllowed DEF DataInv
\* The slot written waits nowhere else.
<1>6. \A q \in Wmbs : HeldIn(arrays[q], yy) => q = kk
  <2> SUFFICES ASSUME NEW q \in Wmbs, HeldIn(arrays[q], yy) PROVE q = kk
    OBVIOUS
  <2>1. PICK i \in DOMAIN arrays[q] : arrays[q][i].slot = yy
    BY DEF HeldIn
  <2>2. RewritePending
    BY <1>2
  <2>3. q.ioid \in DecompsOf[v]
    BY <1>2, <2>1 DEF DataInv, CachedAllowed
  <2>4. q.ioid = d
    BY <1>2, <2>2, <2>3 DEF OneQueuePerSlot
  <2>5. q.rec <=> v \in RecordVars
    BY <1>2, <2>1 DEF CacheInv, ArraysOfOneKind
  <2>6. QED
    BY <1>2, <2>4, <2>5 DEF Wmbs
<1>7. HeldOnce'
  <2> SUFFICES ASSUME NEW p \in Wmbs, NEW q \in Wmbs, NEW x \in Slots,
                      HeldIn(arrays'[p], x), HeldIn(arrays'[q], x)
               PROVE  p = q
    BY DEF HeldOnce
  <2>1. \A r \in Wmbs : HeldIn(arrays'[r], x) =>
          HeldIn(arrays[r], x) \/ (r = kk /\ x = yy)
    BY <1>2
  <2>2. CASE HeldIn(arrays[p], x) /\ HeldIn(arrays[q], x)
    BY <2>2 DEF DataInv, HeldOnce
  <2>3. CASE x = yy
    BY <1>6, <2>1, <2>3
  <2>4. QED
    BY <2>1, <2>2, <2>3
<1>8. NewestCached'
  <2> SUFFICES ASSUME NEW q \in Wmbs, NEW x \in Slots, HeldIn(arrays'[q], x)
               PROVE  NewestLast(arrays'[q], x, latest'[x])
    BY DEF NewestCached
  <2>1. CASE q = kk /\ x = yy /\ ff.res = "ok"
    BY <1>2, <1>4, <2>1
  <2>2. CASE q = kk /\ ~(x = yy /\ ff.res = "ok")
    <3>1. HeldIn(arrays[kk], x) /\ latest'[x] = latest[x]
      BY <1>2, <1>4, <2>2
    <3>2. NewestLast(arrays[kk], x, latest[x])
      BY <1>2, <3>1 DEF DataInv, NewestCached
    <3>3. QED
      BY <1>2, <2>2, <3>1, <3>2
  <2>3. CASE q # kk
    <3>1. arrays'[q] = arrays[q]
      BY <1>2, <2>3
    <3>2. ~(x = yy /\ ff.res = "ok") => latest'[x] = latest[x]
      BY <1>4
    <3>3. x # yy
      BY <1>6, <2>3, <3>1
    <3>4. QED
      BY <3>1, <3>2, <3>3 DEF DataInv, NewestCached
  <2>4. QED
    BY <2>1, <2>2, <2>3
\* What the flush does, if there is one and the library does not fail.
<1>9. ASSUME fail = "none", nfailures = 0
      PROVE  /\ ff.res \in {"ok", "abort"}
             /\ ff.res = "ok" /\ ~Pnetcdf => ff.st.mv = {}
             /\ \A x \in Slots :
                  latest[x] # 0 /\ (\A q \in Wmbs : q # kk => ~HeldIn(arrays[q], x))
                  /\ (need = 0 => ~HeldIn(arrays[kk], x))
                    => Carries(ff.st, x, latest[x])
  <2>1. CASE need > 0
    <3>1. ff = FlushBuffer(kk, toDisk, "none", done)
      BY <1>1, <1>9, <2>1 DEF f
    <3>2. phase # "aborted" /\ toDisk \in BOOLEAN
      BY <1>2
    <3> HIDE DEF toDisk
    <3>3. QED
      BY <1>2, <1>9, <3>1, <3>2, FlushData, ZenonT(60)
  <2>2. CASE ~ (need > 0)
    <3>1. ff.st = io /\ ff.res = "ok"
      BY <1>1, <2>2 DEF f
    <3>2. need = 0
      BY <2>2
    <3>3. \A x \in Slots :
            latest[x] # 0 /\ (\A q \in Wmbs : ~HeldIn(arrays[q], x))
              => Carries(io, x, latest[x])
      BY <1>9 DEF DataInv, NewestCarried
    <3>4. phase # "aborted" /\ (~Pnetcdf => io.mv = {})
      BY <1>2, <1>9 DEF DataInv, BlockingIdle
    <3>5. QED
      BY <3>1, <3>2, <3>3, <3>4
  <2>3. QED
    BY <2>1, <2>2
<1>10. nfailures' = 0 => fail = "none" /\ nfailures = 0
  BY <1>2, <1>3
<1>11. NewestCarried'
  <2> SUFFICES ASSUME nfailures' = 0, NEW x \in Slots, latest'[x] # 0,
                      \A q \in Wmbs : ~HeldIn(arrays'[q], x)
               PROVE  Carries(io', x, latest'[x])
    BY DEF NewestCarried
  <2>1. x # yy \/ ff.res # "ok"
    BY <1>2 DEF NewestLast, HeldIn
  <2>2. latest'[x] = latest[x]
    BY <1>4, <2>1
  <2>3. \A q \in Wmbs : q # kk => ~HeldIn(arrays[q], x)
    BY <1>2
  <2>4. need = 0 => ~HeldIn(arrays[kk], x)
    BY <1>2
  <2>5. QED
    BY <1>2, <1>9, <1>10, <2>2, <2>3, <2>4
<1>12. BlockingIdle'
  <2> SUFFICES ASSUME nfailures' = 0, ~Pnetcdf, phase' # "aborted" PROVE io'.mv = {}
    BY DEF BlockingIdle
  <2>1. ff.res # "abort"
    BY <1>2
  <2>2. QED
    BY <1>2, <1>9, <1>10, <2>1
<1>13. QED
  BY <1>5, <1>7, <1>8, <1>11, <1>12 DEF DataInv

\* One turn of the loop of sync_file empties a wmb.
LEMMA SyncWmbKeepsAllowed ==
  ASSUME CacheInv, CachedAllowed, NEW full \in BOOLEAN, NEW fail \in Failures,
         NEW done \in 0..MaxWrites,
         SyncWmb(full, fail, done)
  PROVE  CachedAllowed'
<1>1. arrays \in [Wmbs -> Seq(CachedArray)] /\ arrays' = [arrays EXCEPT ![Head(wmbs)] = <<>>]
  BY DEF CacheInv, TypeOK, SyncWmb
<1>2. \A q \in Wmbs : \A i \in DOMAIN arrays'[q] : arrays'[q] = arrays[q]
  BY <1>1
<1>3. QED
  BY <1>2 DEF CachedAllowed

\* One turn of the loop of sync_file.
LEMMA SyncWmbKeepsData ==
  ASSUME CacheInv, DataInv, NEW full \in BOOLEAN, NEW fail \in Failures,
         NEW done \in 0..MaxWrites,
         SyncWmb(full, fail, done)
  PROVE  DataInv'
<1>1. PICK k, f : k = Head(wmbs) /\ f = FlushBuffer(k, full, fail, done)
  OBVIOUS
<1>2. /\ k \in Wmbs
      /\ arrays' = [arrays EXCEPT ![k] = <<>>]
      /\ io' = f.st
      /\ phase' = IF f.res = "abort" THEN "aborted" ELSE phase
      /\ nfailures' = IF fail = "none" THEN nfailures ELSE nfailures + 1
      /\ latest' = latest
      /\ phase # "aborted"
  <2>1. k \in Wmbs
    BY <1>1 DEF SyncWmb, CacheInv, TypeOK
  <2>2. QED
    BY <1>1, <2>1 DEF SyncWmb
<1>3. arrays' = [q \in Wmbs |-> IF q = k THEN <<>> ELSE arrays[q]] /\ nfailures \in Nat
  BY <1>2 DEF CacheInv, TypeOK
<1>4. \A x : ~HeldIn(arrays'[k], x)
  BY <1>2, <1>3 DEF HeldIn
<1>5. \A q \in Wmbs : \A x : HeldIn(arrays'[q], x) => q # k /\ arrays'[q] = arrays[q]
  BY <1>3, <1>4
<1>6. CachedAllowed'
  BY SyncWmbKeepsAllowed DEF DataInv
<1>7. HeldOnce' /\ NewestCached'
  <2>1. \A q \in Wmbs : \A x : HeldIn(arrays'[q], x) => HeldIn(arrays[q], x)
    BY <1>5
  <2>2. HeldOnce'
    BY <2>1 DEF DataInv, HeldOnce
  <2>3. NewestCached'
    BY <1>2, <1>5 DEF DataInv, NewestCached
  <2>4. QED
    BY <2>2, <2>3
<1>8. nfailures' = 0 => fail = "none" /\ nfailures = 0
  BY <1>2, <1>3
<1>9. ASSUME fail = "none", nfailures = 0
      PROVE  /\ f.res \in {"ok", "abort"}
             /\ f.res = "ok" /\ ~Pnetcdf => f.st.mv = {}
             /\ \A x \in Slots :
                  latest[x] # 0 /\ (\A q \in Wmbs : q # k => ~HeldIn(arrays[q], x))
                    => Carries(f.st, x, latest[x])
  <2>1. f = FlushBuffer(k, full, "none", done)
    BY <1>1, <1>9
  <2>2. QED
    BY <1>2, <1>9, <2>1, FlushData
<1>10. NewestCarried'
  <2> SUFFICES ASSUME nfailures' = 0, NEW x \in Slots, latest'[x] # 0,
                      \A q \in Wmbs : ~HeldIn(arrays'[q], x)
               PROVE  Carries(io', x, latest'[x])
    BY DEF NewestCarried
  <2>1. \A q \in Wmbs : q # k => ~HeldIn(arrays[q], x)
    BY <1>3
  <2>2. QED
    BY <1>2, <1>8, <1>9, <2>1
<1>11. BlockingIdle'
  BY <1>2, <1>8, <1>9 DEF BlockingIdle
<1>12. QED
  BY <1>6, <1>7, <1>10, <1>11 DEF DataInv

\* The end of sync_file: what was requested is in the file.
LEMMA SyncedData ==
  ASSUME IoOK(io), NEW x \in Slots, NEW n
  PROVE  /\ Carries(io, x, n) => Carries(Synced, x, n)
         /\ Requested(io, x) \subseteq {n} => Moves(io, Synced, x, n)
         /\ Carries(io, x, n) => n \in Synced.disk[x]
<1>1. Carries(io, x, n) => Carries(Synced, x, n)
  BY WaitAllData DEF Synced
<1>2. Requested(io, x) \subseteq {n} => Moves(io, Synced, x, n)
  <2>1. Requested(io, x) \subseteq {n} => Moves(io, io, x, n)
    BY DEF Moves
  <2>2. QED
    BY <2>1, WaitAllData DEF Synced
<1>3. Requested(Synced, x) = {}
  BY SyncedOK DEF Requested
<1>4. QED
  BY <1>1, <1>2, <1>3 DEF Carries

\* The steps that leave the cached arrays and what was accepted alone.
LEMMA OthersKeepData ==
  ASSUME CacheInv, DataInv,
         \/ SyncReturns
         \/ CloseReturns
         \/ Reopen
         \/ \E v \in Vars, f \in Frames : SetFrame(v, f)
         \/ \E d \in Decomps : FreeDecomp(d)
         \/ \E call \in {"sync", "close"} : CallSync(call)
         \/ UNCHANGED vars
  PROVE  DataInv'
<1>1. /\ arrays' = arrays /\ latest' = latest /\ nfailures' = nfailures
      /\ \/ /\ io'.mv = io.mv /\ io'.reqs = io.reqs /\ io'.disk = io.disk
            /\ phase = "aborted" => phase' = "aborted"
         \/ io' = Synced /\ phase # "aborted"
  <2>1. CASE SyncReturns \/ CloseReturns
    BY <2>1 DEF SyncReturns, CloseReturns
  <2>2. CASE Reopen
    <3>1. IoOK(io)
      BY DEF CacheInv
    <3>2. io'.mv = io.mv /\ io'.reqs = io.reqs /\ io'.disk = io.disk
      BY <2>2, <3>1, ReopenIo
    <3>3. QED
      BY <2>2, <3>2 DEF Reopen
  <2>3. CASE \/ \E v \in Vars, f \in Frames : SetFrame(v, f)
             \/ \E d \in Decomps : FreeDecomp(d)
             \/ \E call \in {"sync", "close"} : CallSync(call)
    BY <2>3 DEF SetFrame, FreeDecomp, CallSync
  <2>4. CASE UNCHANGED vars
    BY <2>4 DEF vars
  <2>5. QED
    BY <2>1, <2>2, <2>3, <2>4
<1>2. CachedAllowed' /\ HeldOnce' /\ NewestCached'
  BY <1>1 DEF DataInv, CachedAllowed, HeldOnce, NewestCached
<1>3. IoOK(io)
  BY DEF CacheInv
<1>4. NewestCarried'
  BY <1>1, <1>3, SameData, SyncedData DEF DataInv, NewestCarried
<1>5. BlockingIdle'
  BY <1>1, WaitAllOK DEF DataInv, BlockingIdle, Synced
<1>6. QED
  BY <1>2, <1>4, <1>5 DEF DataInv

LEMMA NextKeepsAllowed ==
  ASSUME CacheInv, CachedAllowed, [Next]_vars
  PROVE  CachedAllowed'
<1>1. ASSUME NEW v \in Vars, NEW d \in Decomps, NEW need \in 0..2,
             NEW full \in BOOLEAN, NEW fail \in Failures, NEW done \in 0..MaxWrites,
             WriteDarray(v, d, need, full, fail, done)
      PROVE  CachedAllowed'
  BY <1>1, WriteDarrayKeepsAllowed
<1>2. ASSUME NEW full \in BOOLEAN, NEW fail \in Failures, NEW done \in 0..MaxWrites,
             SyncWmb(full, fail, done)
      PROVE  CachedAllowed'
  BY <1>2, SyncWmbKeepsAllowed
<1>3. CASE \/ SyncReturns
           \/ CloseReturns
           \/ Reopen
           \/ \E v \in Vars, f \in Frames : SetFrame(v, f)
           \/ \E d \in Decomps : FreeDecomp(d)
           \/ \E call \in {"sync", "close"} : CallSync(call)
           \/ UNCHANGED vars
  <2>1. arrays' = arrays
    BY <1>3 DEF SyncReturns, CloseReturns, Reopen, SetFrame, FreeDecomp, CallSync, vars
  <2>2. QED
    BY <2>1 DEF CachedAllowed
<1>4. QED
  BY <1>1, <1>2, <1>3 DEF Next

LEMMA NextKeepsDataInv ==
  ASSUME OneQueuePerSlot
  PROVE  CacheInv /\ DataInv /\ [Next]_vars => DataInv'
<1> SUFFICES ASSUME CacheInv, DataInv, [Next]_vars PROVE DataInv'
  OBVIOUS
<1>1. ASSUME NEW v \in Vars, NEW d \in Decomps, NEW need \in 0..2,
             NEW full \in BOOLEAN, NEW fail \in Failures, NEW done \in 0..MaxWrites,
             WriteDarray(v, d, need, full, fail, done)
      PROVE  DataInv'
  BY <1>1, WriteDarrayKeepsData
<1>2. ASSUME NEW full \in BOOLEAN, NEW fail \in Failures, NEW done \in 0..MaxWrites,
             SyncWmb(full, fail, done)
      PROVE  DataInv'
  BY <1>2, SyncWmbKeepsData
<1>3. QED
  BY <1>1, <1>2, OthersKeepData DEF Next

LEMMA DataInvariant ==
  ASSUME OneQueuePerSlot
  PROVE  Spec => []DataInv
<1>1. CacheInv /\ DataInv /\ [Next]_vars => DataInv'
  BY NextKeepsDataInv
<1>2. QED
  BY <1>1, InitDataInv, CacheInvariant, PTL DEF Spec

\* Nothing PIOc_write_darray accepted gets lost while the library does not fail.
\* Without OneQueuePerSlot it can: the arrays of one slot then wait in several
\* wmbs or requests, and sync_file flushes the wmbs in the order they were
\* created in, which may bring an older array to the file last.
THEOREM AcceptedSurvives ==
  ASSUME OneQueuePerSlot
  PROVE  Spec => []AcceptedNotLost
<1>1. CacheInv /\ DataInv => AcceptedNotLost
  <2> SUFFICES ASSUME CacheInv, DataInv, nfailures = 0,
                      NEW x \in Slots, latest[x] # 0
               PROVE  latest[x] \in io.disk[x] \cup Requested(io, x) \cup Buffered(x)
    BY DEF AcceptedNotLost
  <2>1. CASE \A k \in Wmbs : ~HeldIn(arrays[k], x)
    BY <2>1 DEF DataInv, NewestCarried, Carries
  <2>2. ASSUME NEW k \in Wmbs, HeldIn(arrays[k], x)
        PROVE  latest[x] \in Buffered(x)
    <3>1. NewestLast(arrays[k], x, latest[x])
      BY <2>2 DEF DataInv, NewestCached
    <3>2. PICK i \in DOMAIN arrays[k] : arrays[k][i].slot = x /\ arrays[k][i].ver = latest[x]
      BY <3>1 DEF NewestLast
    <3>3. QED
      BY <3>2 DEF Buffered
  <2>3. QED
    BY <2>1, <2>2
<1>2. QED
  BY <1>1, DataInvariant, CacheInvariant, PTL

-----------------------------------------------------------------------------
(* The assertions of the write path                                        *)

\* When they hold: with PnetCDF, whose fill buffers stay in use until the next
\* wait, no variable is written with two decompositions that leave holes.
Assertable ==
  Pnetcdf => \A v \in Vars : \A d, e \in DecompsOf[v] \cap HoleFill : d = e

\* Every buffer in use is accounted for.  PnetCDF uses a fill buffer along with the
\* mvcache buffer of a decomposition of that variable; a library that blocks has
\* failed on the mvcache buffers it still uses.
Accounted(S) ==
  IF Pnetcdf THEN \A v \in S.fillbuf : \E d \in DecompsOf[v] \cap HoleFill : d \in S.mv
  ELSE S.mv \subseteq S.leftMv

\* An assertion failed on a buffer that a library which blocks has failed on.
Explained(S) == ~Pnetcdf /\ (S.leftMv # {} \/ S.leftFill # {})

AssertInv == Accounted(io) /\ (phase = "aborted" => Explained(io))

\* PIOc_write_darray_multi, whatever the library answers.
LEMMA WriteMultiAsserts ==
  ASSUME Assertable, NEW S, IoOK(S), Accounted(S),
         NEW s \in Seq(CachedArray), s # <<>>, NEW d \in Decomps,
         d \in DecompsOf[s[1].slot.var],
         NEW toDisk \in BOOLEAN, NEW fail \in Failures, NEW done \in Nat,
         NEW w, w = WriteMulti(S, s, d, toDisk, fail, done)
  PROVE  /\ Accounted(w.st)
         /\ w.res = "abort" => Explained(w.st)
<1> DEFINE A == Acquire(S, d)
           B == [A EXCEPT !.mv = @ \cup {d}]
           W == IF Pnetcdf THEN PutQueued(B, s, d) ELSE PutBlocking(B, s)
           P == Release(W, d)
           Q == PutFailed(B, s, d, done)
           F == TakeFill(P, s, d)
           v == s[1].slot.var
<1>0. v \in Vars /\ Pnetcdf \in BOOLEAN
  BY ArrayFields, WriteCacheAssumption
<1>1. /\ IoOK(A) /\ Accounted(A)
      /\ IF Pnetcdf THEN d \notin A.mv ELSE A = S
  <2>1. CASE Pnetcdf /\ d \in S.mv
    <3>1. A = WaitAll(S)
      BY <2>1 DEF Acquire
    <3>2. IoOK(WaitAll(S)) /\ WaitAll(S).mv = {} /\ WaitAll(S).fillbuf = {}
      BY WaitAllOK
    <3> HIDE DEF A
    <3>3. QED
      BY <2>1, <3>1, <3>2 DEF Accounted
  <2>2. CASE ~(Pnetcdf /\ d \in S.mv)
    BY <2>2 DEF Acquire
  <2>3. QED
    BY <2>1, <2>2
<1> HIDE DEF A
<1>2. /\ IoOK(B) /\ B.mv = A.mv \cup {d} /\ d \in B.mv /\ B.fillbuf = A.fillbuf
      /\ B.leftMv = A.leftMv /\ B.leftFill = A.leftFill
  BY <1>1 DEF IoOK, IoState
<1> HIDE DEF B
<1>3. Accounted(Q)
  <2>1. CASE Pnetcdf
    <3>1. Q.mv = B.mv /\ Q.fillbuf = B.fillbuf
      BY <1>2, <2>1 DEF PutFailed, PutQueued, IoOK, IoState
    <3> HIDE DEF Q
    <3>2. QED
      BY <1>1, <1>2, <2>1, <3>1 DEF Accounted
  <2>2. CASE ~Pnetcdf
    <3>1. Q.mv = B.mv /\ Q.leftMv = B.leftMv \cup {d}
      BY <1>2, <2>2 DEF PutFailed, IoOK, IoState
    <3> HIDE DEF Q
    <3>2. QED
      BY <1>1, <1>2, <2>2, <3>1 DEF Accounted
  <2>3. QED
    BY <1>0, <2>1, <2>2
<1>4. /\ IoOK(P) /\ P.fillbuf = A.fillbuf
      /\ P.leftMv = A.leftMv /\ P.leftFill = A.leftFill
      /\ P.mv = IF Pnetcdf THEN A.mv \cup {d} ELSE (A.mv \cup {d}) \ {d}
  <2>1. /\ W \in IoState /\ W.mv = B.mv /\ W.fillbuf = B.fillbuf
        /\ W.leftMv = B.leftMv /\ W.leftFill = B.leftFill
    <3>1. CASE Pnetcdf
      <4>1. IoOK(PutQueued(B, s, d))
        BY <1>2, <3>1, PutQueuedOK
      <4>2. /\ PutQueued(B, s, d).mv = B.mv /\ PutQueued(B, s, d).fillbuf = B.fillbuf
            /\ PutQueued(B, s, d).leftMv = B.leftMv
            /\ PutQueued(B, s, d).leftFill = B.leftFill
        BY <1>2 DEF PutQueued, IoOK, IoState
      <4>3. QED
        BY <3>1, <4>1, <4>2 DEF IoOK
    <3>2. CASE ~Pnetcdf
      <4>1. IoOK(PutBlocking(B, s))
        BY <1>2, PutBlockingOK
      <4>2. /\ PutBlocking(B, s).mv = B.mv /\ PutBlocking(B, s).fillbuf = B.fillbuf
            /\ PutBlocking(B, s).leftMv = B.leftMv
            /\ PutBlocking(B, s).leftFill = B.leftFill
        BY <1>2 DEF PutBlocking, IoOK, IoState
      <4>3. QED
        BY <3>2, <4>1, <4>2 DEF IoOK
    <3>3. QED
      BY <1>0, <3>1, <3>2
  <2>2. IoOK(P)
    BY <1>2, WrittenOK
  <2> HIDE DEF W
  <2>3. /\ P.fillbuf = W.fillbuf /\ P.leftMv = W.leftMv /\ P.leftFill = W.leftFill
        /\ P.mv = IF Pnetcdf THEN W.mv ELSE W.mv \ {d}
    BY <2>1, ReleaseFields
  <2> HIDE DEF P
  <2>4. QED
    BY <1>2, <2>1, <2>2, <2>3
<1> HIDE DEF W, P
<1>5. Accounted(P)
  BY <1>1, <1>4 DEF Accounted
<1>6. d \in HoleFill /\ v \in P.fillbuf => Explained(P)
  <2>1. ASSUME Pnetcdf, d \in HoleFill, v \in P.fillbuf PROVE FALSE
    <3>1. PICK e \in DecompsOf[v] \cap HoleFill : e \in A.mv
      BY <1>1, <1>4, <2>1 DEF Accounted
    <3>2. d = e
      BY <1>0, <2>1, <3>1 DEF Assertable
    <3>3. QED
      BY <1>1, <2>1, <3>1, <3>2
  <2>2. ~Pnetcdf /\ v \in P.fillbuf => Explained(P)
    BY <1>4 DEF IoOK, Explained
  <2>3. QED
    BY <1>0, <2>1, <2>2
<1>7. d \in A.mv => Explained(A)
  BY <1>1 DEF Accounted, Explained
<1>8. Accounted(FillFailed(P, s, d)) /\ Accounted(Finish(P, s, d, toDisk))
  <2>1. /\ F \in IoState /\ F.mv = P.mv /\ F.leftMv = P.leftMv /\ F.reqs = P.reqs
        /\ F.fillbuf = IF d \in HoleFill THEN P.fillbuf \cup {v} ELSE P.fillbuf
    <3>1. P \in IoState
      BY <1>4 DEF IoOK
    <3>2. QED
      BY ONLY <3>1, s \in Seq(CachedArray), s # <<>>, TakeFillFields
  <2>2. CASE Pnetcdf
    <3>1. /\ FillFailed(P, s, d) = F
          /\ Finish(P, s, d, toDisk) = IF toDisk THEN WaitAll(F) ELSE F
      BY <2>2 DEF FillFailed, Finish
    <3> HIDE DEF F, v
    <3>2. Accounted(F)
      <4> SUFFICES ASSUME NEW u \in F.fillbuf
                   PROVE  \E e \in DecompsOf[u] \cap HoleFill : e \in F.mv
        BY <2>2 DEF Accounted
      <4>1. CASE u \in P.fillbuf
        BY <1>5, <2>1, <2>2, <4>1 DEF Accounted
      <4>2. CASE u \notin P.fillbuf
        <5>1. u = v /\ d \in HoleFill
          BY <2>1, <4>2
        <5>2. d \in F.mv /\ d \in DecompsOf[u]
          BY <1>4, <2>1, <2>2, <5>1 DEF v
        <5>3. QED
          BY <5>1, <5>2
      <4>3. QED
        BY <4>1, <4>2
    <3>3. Accounted(WaitAll(F))
      <4>1. IoOK(F)
        BY <1>4, <2>1, <2>2 DEF IoOK
      <4>2. WaitAll(F).fillbuf = {}
        BY <4>1, WaitAllOK
      <4>3. QED
        BY <2>2, <4>2 DEF Accounted
    <3>4. QED
      BY <3>1, <3>2, <3>3
  <2>3. CASE ~Pnetcdf
    <3>1. /\ FillFailed(P, s, d) = [F EXCEPT !.leftFill = @ \cup {v}]
          /\ Finish(P, s, d, toDisk) = P
      BY <2>3 DEF FillFailed, Finish
    <3> HIDE DEF F, v
    <3>2. /\ [F EXCEPT !.leftFill = @ \cup {v}].mv = F.mv
          /\ [F EXCEPT !.leftFill = @ \cup {v}].leftMv = F.leftMv
      BY <2>1 DEF IoState
    <3>3. QED
      BY <1>5, <2>1, <2>3, <3>1, <3>2 DEF Accounted
  <2>4. QED
    BY <1>0, <2>2, <2>3
<1>9. \/ w.st = A /\ d \in A.mv
      \/ w.st \in {Q, FillFailed(P, s, d)} /\ w.res = "err"
      \/ w.st = P /\ d \in HoleFill /\ v \in P.fillbuf
      \/ w.st = Finish(P, s, d, toDisk) /\ w.res = "ok"
  <2>1. w = IF d \in A.mv THEN [st |-> A, res |-> "abort"]
            ELSE IF fail = "data" THEN [st |-> Q, res |-> "err"]
            ELSE IF d \in HoleFill /\ v \in P.fillbuf
                 THEN [st |-> P, res |-> "abort"]
            ELSE IF fail = "fill" THEN [st |-> FillFailed(P, s, d), res |-> "err"]
            ELSE [st |-> Finish(P, s, d, toDisk), res |-> "ok"]
    BY DEF WriteMulti, A, B, W, P
  <2> HIDE DEF Q, F, v
  <2>2. QED
    BY ONLY <2>1
<1> HIDE DEF Q, F, v
<1>10. QED
  BY <1>1, <1>3, <1>5, <1>6, <1>7, <1>8, <1>9

\* flush_buffer, whatever the library answers.
LEMMA FlushBufferAsserts ==
  ASSUME Assertable, CacheInv, CachedAllowed, Accounted(io),
         NEW k \in Wmbs, NEW toDisk \in BOOLEAN, NEW fail \in Failures,
         NEW done \in Nat,
         NEW f, f = FlushBuffer(k, toDisk, fail, done)
  PROVE  /\ Accounted(f.st)
         /\ f.res = "abort" => Explained(f.st)
<1> DEFINE w == WriteMulti(io, arrays[k], k.ioid, toDisk, fail, done)
<1>1. arrays[k] \in Seq(CachedArray) /\ k.ioid \in Decomps /\ IoOK(io)
  BY DEF CacheInv, TypeOK, Wmbs
<1>2. CASE arrays[k] = <<>>
  BY <1>2 DEF FlushBuffer
<1>3. CASE arrays[k] # <<>>
  <2>1. k.ioid \in DecompsOf[arrays[k][1].slot.var]
    BY <1>1, <1>3, ArrayFields DEF CachedAllowed
  <2>2. Accounted(w.st) /\ (w.res = "abort" => Explained(w.st))
    BY <1>1, <1>3, <2>1, WriteMultiAsserts
  <2>3. f \in {[st |-> io, res |-> "err", refs |-> RefsTaken(arrays[k], k.ioid)],
               [st |-> w.st, res |-> w.res, refs |-> RefsTaken(arrays[k], k.ioid)]}
    BY <1>3 DEF FlushBuffer
  <2> HIDE DEF w
  <2>4. QED
    BY <2>2, <2>3
<1>4. QED
  BY <1>2, <1>3

LEMMA NextKeepsAssertInv ==
  ASSUME Assertable, CacheInv, CachedAllowed, AssertInv, [Next]_vars
  PROVE  AssertInv'
<1>0. IoOK(io) /\ Accounted(io) /\ Pnetcdf \in BOOLEAN
  BY WriteCacheAssumption DEF CacheInv, AssertInv
<1>1. ASSUME NEW v \in Vars, NEW d \in Decomps, NEW need \in 0..2,
             NEW full \in BOOLEAN, NEW fail \in Failures, NEW done \in 0..MaxWrites,
             WriteDarray(v, d, need, full, fail, done)
      PROVE  AssertInv'
  <2>1. PICK k, toDisk, f :
          /\ k = WmbOf(v, d) /\ toDisk = (need = 2 \/ full)
          /\ f = IF need > 0 THEN FlushBuffer(k, toDisk, fail, done)
                 ELSE [st |-> io, res |-> "ok", refs |-> refs]
    OBVIOUS
  <2>2. k \in Wmbs /\ toDisk \in BOOLEAN /\ done \in Nat
    BY <2>1 DEF Wmbs, WmbOf
  <2>3. phase # "aborted" /\ io' = f.st /\ (phase' = "aborted" => f.res = "abort")
    BY <1>1, <2>1 DEF WriteDarray, MayWrite
  <2>4. Accounted(f.st) /\ (f.res = "abort" => Explained(f.st))
    <3>1. CASE need > 0
      BY <1>0, <2>1, <2>2, <3>1, FlushBufferAsserts
    <3>2. CASE ~ (need > 0)
      BY <1>0, <2>1, <3>2
    <3>3. QED
      BY <3>1, <3>2
  <2>5. QED
    BY <2>3, <2>4 DEF AssertInv
<1>2. ASSUME NEW full \in BOOLEAN, NEW fail \in Failures, NEW done \in 0..MaxWrites,
             SyncWmb(full, fail, done)
      PROVE  AssertInv'
  <2>1. PICK k, f : k = Head(wmbs) /\ f = FlushBuffer(k, full, fail, done)
    OBVIOUS
  <2>2. k \in Wmbs /\ done \in Nat
    BY <1>2, <2>1 DEF SyncWmb, CacheInv, TypeOK
  <2>3. phase # "aborted" /\ io' = f.st /\ (phase' = "aborted" => f.res = "abort")
    BY <1>2, <2>1 DEF SyncWmb
  <2>4. Accounted(f.st) /\ (f.res = "abort" => Explained(f.st))
    BY <1>0, <2>1, <2>2, FlushBufferAsserts
  <2>5. QED
    BY <2>3, <2>4 DEF AssertInv
<1>3. ASSUME SyncReturns \/ CloseReturns
      PROVE  AssertInv'
  <2>1. io' = Synced /\ (phase' = "aborted" => Synced.mv # {})
    BY <1>3 DEF SyncReturns, CloseReturns
  <2>2. CASE Pnetcdf
    <3>1. Synced.mv = {} /\ Synced.fillbuf = {}
      BY <1>0, <2>2, WaitAllOK DEF Synced
    <3>2. QED
      BY <2>1, <2>2, <3>1 DEF AssertInv, Accounted
  <2>3. CASE ~Pnetcdf
    <3>1. Synced = io /\ io.mv \subseteq io.leftMv
      BY <1>0, <2>3 DEF Synced, Accounted
    <3>2. QED
      BY <2>1, <2>3, <3>1 DEF AssertInv, Accounted, Explained
  <2>4. QED
    BY <1>0, <2>2, <2>3
<1>4. CASE Reopen
  <2>1. io'.mv = io.mv /\ io'.fillbuf = {} /\ io'.leftMv = io.leftMv
    BY <1>0, <1>4, ReopenIo
  <2>2. phase' # "aborted"
    BY <1>4 DEF Reopen
  <2>3. QED
    BY <1>0, <2>1, <2>2 DEF AssertInv, Accounted
<1>5. CASE \/ \E v \in Vars, f \in Frames : SetFrame(v, f)
           \/ \E d \in Decomps : FreeDecomp(d)
           \/ \E call \in {"sync", "close"} : CallSync(call)
           \/ UNCHANGED vars
  <2>1. io' = io /\ (phase' = "aborted" => phase = "aborted")
    BY <1>5 DEF SetFrame, FreeDecomp, CallSync, vars
  <2>2. QED
    BY <2>1 DEF AssertInv
<1>6. QED
  BY <1>1, <1>2, <1>3, <1>4, <1>5 DEF Next

\* No pioassert(..., "buffer overwrite") of the write path fails, and no file is
\* closed with an mvcache buffer in use, whatever the library answers: for
\* PnetCDF never, and for the others not before a write of theirs has failed,
\* because PIOc_write_darray_multi returns then with the buffer still in use.
THEOREM AssertionsHold ==
  ASSUME Assertable
  PROVE  Spec => [](NoBufferOverwrite /\ (Pnetcdf => phase # "aborted"))
<1>1. Init => AssertInv /\ CachedAllowed
  <2> SUFFICES ASSUME Init PROVE AssertInv /\ CachedAllowed
    OBVIOUS
  <2>1. CachedAllowed
    BY DEF Init, CachedAllowed
  <2>2. phase # "aborted" /\ io.mv = {} /\ io.fillbuf = {}
    BY DEF Init
  <2>3. QED
    BY <2>1, <2>2 DEF AssertInv, Accounted
<1>2. CacheInv /\ CachedAllowed /\ [Next]_vars => CachedAllowed'
  BY NextKeepsAllowed
<1>3. CacheInv /\ CachedAllowed /\ AssertInv /\ [Next]_vars => AssertInv'
  BY NextKeepsAssertInv
<1>4. AssertInv => NoBufferOverwrite /\ (Pnetcdf => phase # "aborted")
  BY DEF AssertInv, Explained, NoBufferOverwrite
<1>5. QED
  BY <1>1, <1>2, <1>3, <1>4, CacheInvariant, PTL DEF Spec

-----------------------------------------------------------------------------
(* The cache implements BufferedFile                                       *)

\* The files BufferedFile speaks of: the library does not fail, and writes that
\* overlap reach it in order.  Two requests of PnetCDF never do, so that the
\* user must not write a slot again before it is on disk.
ReliableFile ==
  /\ MaxFailures = 0
  /\ IF Pnetcdf THEN ~RewritePending ELSE OneQueuePerSlot

\* Only the newest version of a slot is requested, a slot of the file holds one
\* version at most, and the result of the last sync is forgotten once a new one runs.
NewestRequested == \A x \in Slots : Requested(io, x) \subseteq {latest[x]}
NewestWaits == Pnetcdf => \A k \in Wmbs : \A x \in Slots : AllAre(arrays[k], x, latest[x])
OneStored ==
  \A x \in Slots : /\ io.disk[x] = {} \/ \E n \in Versions : io.disk[x] = {n}
                   /\ latest[x] = 0 => io.disk[x] = {}
Synchronized == ret \in {<<"sync", "ok">>, <<"close", "ok">>}

PromiseInv ==
  /\ nfailures = 0
  /\ NewestRequested
  /\ NewestWaits
  /\ OneStored
  /\ \A x \in Slots : latest[x] <= nwrites
  /\ phase \in {"sync", "close"} => ~Synchronized

\* What a step does to the file, with the requests it leaves.
IoMoves == \A x \in Slots : Moves(io, io', x, latest[x])

LEMMA ReliableIsOrdered == ReliableFile => OneQueuePerSlot
BY WriteCacheAssumption DEF ReliableFile, OneQueuePerSlot

LEMMA LeastOfOne ==
  ASSUME NEW n \in Versions, NEW D, D = {n}
  PROVE  (CHOOSE m \in D : \A l \in D : m <= l) = n
BY DEF Versions

LEMMA InitPromise == Init => PromiseInv
<1> SUFFICES ASSUME Init PROVE PromiseInv
  OBVIOUS
<1>1. /\ nfailures = 0 /\ phase = "user" /\ io.reqs = {} /\ nwrites = 0
      /\ \A x \in Slots : io.disk[x] = {} /\ latest[x] = 0
      /\ \A k \in Wmbs : arrays[k] = <<>>
  BY DEF Init
<1>2. NewestRequested /\ OneStored
  BY <1>1 DEF NewestRequested, OneStored, Requested
<1>3. NewestWaits
  BY <1>1 DEF NewestWaits, AllAre
<1>4. QED
  BY <1>1, <1>2, <1>3 DEF PromiseInv

\* A step that moves the newest versions is a Store of BufferedFile.
LEMMA MovesStore ==
  ASSUME CacheInv, PromiseInv, IoOK(io'), IoMoves
  PROVE  /\ File!Store
         /\ \A x \in Slots : Requested(io', x) \subseteq {latest[x]}
         /\ \A x \in Slots : /\ io'.disk[x] = {} \/ \E n \in Versions : io'.disk[x] = {n}
                             /\ latest[x] = 0 => io'.disk[x] = {}
<1>1. ASSUME NEW x \in Slots
      PROVE  /\ Requested(io', x) \subseteq {latest[x]}
             /\ io'.disk[x] = {} \/ \E n \in Versions : io'.disk[x] = {n}
             /\ latest[x] = 0 => io'.disk[x] = {}
             /\ Stored(x)' \in {Stored(x), latest[x]} /\ Stored(x)' \in Int
  <2>1. Requested(io', x) \subseteq {latest[x]} /\ io'.disk[x] \in {io.disk[x], {latest[x]}}
    BY DEF IoMoves, Moves
  <2>2. /\ io.disk[x] = {} \/ \E n \in Versions : io.disk[x] = {n}
        /\ latest[x] = 0 => io.disk[x] = {}
    BY DEF PromiseInv, OneStored
  <2>3. io'.disk[x] \subseteq Versions /\ 0 \notin Versions /\ Versions \subseteq Int
    BY DEF IoOK, IoState, Versions
  <2>4. CASE io'.disk[x] = {latest[x]}
    <3>1. latest[x] \in Versions
      BY <2>3, <2>4
    <3>2. (CHOOSE m \in io'.disk[x] : \A l \in io'.disk[x] : m <= l) = latest[x]
      BY <2>4, <3>1, LeastOfOne
    <3>3. Stored(x)' = latest[x]
      BY <2>4, <3>2 DEF Stored
    <3>4. QED
      BY <2>1, <2>3, <2>4, <3>1, <3>3
  <2>5. CASE io'.disk[x] = io.disk[x]
    <3>1. Stored(x)' = Stored(x)
      BY <2>5 DEF Stored
    <3>2. Stored(x)' \in Int
      <4>1. CASE io.disk[x] = {}
        BY <2>5, <4>1 DEF Stored
      <4>2. CASE \E n \in Versions : io.disk[x] = {n}
        BY <2>3, <2>5, <4>2, LeastOfOne DEF Stored
      <4>3. QED
        BY <2>2, <4>1, <4>2
    <3>3. QED
      BY <2>1, <2>2, <2>5, <3>1, <3>2
  <2>6. QED
    BY <2>1, <2>4, <2>5
<1>2. File!Store
  BY <1>1 DEF File!Store
<1>3. QED
  BY <1>1, <1>2

\* PIOc_write_darray is a Write of BufferedFile, or an abort in the background.
LEMMA WriteDarrayPromise ==
  ASSUME ReliableFile, CacheInv, DataInv, PromiseInv, CacheInv',
         NEW v \in Vars, NEW d \in Decomps, NEW need \in 0..2,
         NEW full \in BOOLEAN, NEW fail \in Failures, NEW done \in 0..MaxWrites,
         WriteDarray(v, d, need, full, fail, done)
  PROVE  PromiseInv' /\ File!Next
<1> DEFINE k == WmbOf(v, d)
           toDisk == need = 2 \/ full
           f == IF need > 0 THEN FlushBuffer(k, toDisk, fail, done)
                ELSE [st |-> io, res |-> "ok", refs |-> refs]
<1>1. PICK kk, y, ff : kk = k /\ y = SlotOf(v) /\ ff = f
  OBVIOUS
<1> HIDE DEF k, f
<1>0. WriteOutcome(v, d, need, fail, kk, y, ff)
  <2>1. kk = WmbOf(v, d)
    BY <1>1 DEF k
  <2>2. ff = IF need > 0 THEN FlushBuffer(kk, need = 2 \/ full, fail, done)
             ELSE [st |-> io, res |-> "ok", refs |-> refs]
    BY <1>1 DEF f, k
  <2>3. QED
    BY <1>1, <2>1, <2>2, WriteEffect
<1>2. /\ kk \in Wmbs /\ y \in Slots
      /\ phase = "user" /\ phase' = IF ff.res = "abort" THEN "aborted" ELSE phase
      /\ ret' = <<"write", ff.res>>
      /\ io' = ff.st
      /\ nfailures' = IF fail = "none" THEN nfailures ELSE nfailures + 1
      /\ fail # "none" => nfailures < MaxFailures
      /\ nwrites' = IF ff.res = "ok" THEN nwrites + 1 ELSE nwrites
      /\ latest' = IF ff.res = "ok" THEN [latest EXCEPT ![y] = nwrites + 1] ELSE latest
      /\ ~RewritePending => /\ \A q \in Wmbs : ~HeldIn(arrays[q], y)
                            /\ Requested(io, y) = {}
      /\ \A q \in Wmbs : q # kk => arrays'[q] = arrays[q]
      /\ \A i \in DOMAIN arrays'[kk] :
           \/ /\ ff.res = "ok"
              /\ arrays'[kk][i].slot = y /\ arrays'[kk][i].ver = nwrites + 1
           \/ \E j \in DOMAIN arrays[kk] : arrays'[kk][i] = arrays[kk][j]
  BY <1>0 DEF WriteOutcome
<1>3. latest \in [Slots -> Nat] /\ nfailures \in Nat /\ nwrites \in Nat /\ IoOK(io')
  BY DEF CacheInv, TypeOK
<1>4. /\ \A x \in Slots : x # y \/ ff.res # "ok" => latest'[x] = latest[x]
      /\ ff.res = "ok" => latest'[y] = nwrites + 1
  BY <1>2, <1>3
<1>5. nfailures = 0 /\ fail = "none" /\ nfailures' = 0
  BY <1>2, <1>3 DEF ReliableFile, PromiseInv
<1>6. Pnetcdf => ~RewritePending
  BY DEF ReliableFile
<1>7. Pnetcdf => \A q \in Wmbs : \A x \in Slots : AllAre(arrays[q], x, latest[x])
  BY DEF PromiseInv, NewestWaits
<1>8. \A x \in Slots : Requested(io, x) \subseteq {latest[x]}
  BY DEF PromiseInv, NewestRequested
\* What the flush, if there is one, does to a slot.
<1>9. /\ IoMoves
      /\ Pnetcdf => Requested(io', y) = {}
  <2>1. CASE need > 0
    <3>1. ff = FlushBuffer(kk, toDisk, "none", done)
      BY <1>1, <1>5, <2>1 DEF f
    <3>2. phase # "aborted" /\ toDisk \in BOOLEAN
      BY <1>2
    <3> HIDE DEF toDisk
    <3>3. \A x \in Slots : \A n :
            (HeldIn(arrays[kk], x) => NewestLast(arrays[kk], x, n))
              => Delivers(io, io', arrays[kk], x, n)
      BY <1>2, <1>5, <3>1, <3>2, FlushData
    <3>4. \A x \in Slots : HeldIn(arrays[kk], x) => NewestLast(arrays[kk], x, latest[x])
      BY <1>2 DEF DataInv, NewestCached
    <3>5. ASSUME NEW x \in Slots PROVE Moves(io, io', x, latest[x])
      <4>1. Delivers(io, io', arrays[kk], x, latest[x])
        BY <3>3, <3>4
      <4>2. QED
        BY <1>2, <1>7, <1>8, <4>1 DEF Delivers
    <3>6. ASSUME Pnetcdf PROVE Requested(io', y) = {}
      <4>1. ~HeldIn(arrays[kk], y) /\ Requested(io, y) = {}
        BY <1>2, <1>6, <3>6
      <4>2. Delivers(io, io', arrays[kk], y, 0)
        BY <1>2, <3>3, <4>1
      <4>3. AllAre(arrays[kk], y, 0)
        BY <4>1 DEF AllAre, HeldIn
      <4>4. Requested(io', y) \subseteq {0}
        BY <4>1, <4>2, <4>3 DEF Delivers, Moves
      <4>5. 0 \notin Requested(io', y)
        BY <1>3 DEF Requested, IoOK, IoState, Request, Versions
      <4>6. QED
        BY <4>4, <4>5
    <3>7. QED
      BY <3>5, <3>6 DEF IoMoves
  <2>2. CASE ~ (need > 0)
    <3>1. io' = io
      BY <1>1, <1>2, <2>2 DEF f
    <3>2. QED
      BY <1>2, <1>6, <1>8, <3>1 DEF IoMoves, Moves
  <2>3. QED
    BY <2>1, <2>2
<1>10. /\ File!Store
       /\ \A x \in Slots : Requested(io', x) \subseteq {latest[x]}
       /\ \A x \in Slots : /\ io'.disk[x] = {} \/ \E n \in Versions : io'.disk[x] = {n}
                           /\ latest[x] = 0 => io'.disk[x] = {}
  BY <1>3, <1>9, MovesStore
<1>11. Requested(io', y) \subseteq {latest'[y]} \/ ff.res # "ok"
  <2>1. ~Pnetcdf => Requested(io', y) = {}
    BY <1>3 DEF IoOK, Requested
  <2>2. QED
    BY <1>9, <2>1
<1>12. NewestRequested'
  <2>1. \A x \in Slots : Requested(io', x) \subseteq {latest'[x]}
    BY <1>4, <1>10, <1>11
  <2>2. QED
    BY <2>1 DEF NewestRequested
<1>13. OneStored'
  <2>1. \A x \in Slots : latest'[x] = 0 => latest[x] = 0
    BY <1>3, <1>4
  <2>2. QED
    BY <1>10, <2>1 DEF OneStored
<1>14. NewestWaits'
  <2> SUFFICES ASSUME Pnetcdf, NEW q \in Wmbs, NEW x \in Slots,
                      NEW i \in DOMAIN arrays'[q], arrays'[q][i].slot = x
               PROVE  arrays'[q][i].ver = latest'[x]
    BY DEF NewestWaits, AllAre
  <2>1. CASE \E j \in DOMAIN arrays[q] : arrays'[q][i] = arrays[q][j]
    <3>1. PICK j \in DOMAIN arrays[q] : arrays'[q][i] = arrays[q][j]
      BY <2>1
    <3>2. arrays'[q][i].ver = latest[x]
      BY <1>7, <3>1 DEF AllAre
    <3>3. x # y
      BY <1>2, <1>6, <3>1 DEF HeldIn
    <3>4. QED
      BY <1>4, <3>2, <3>3
  <2>2. CASE ~ \E j \in DOMAIN arrays[q] : arrays'[q][i] = arrays[q][j]
    <3>1. q = kk
      BY <1>2, <2>2
    <3>2. QED
      BY <1>2, <1>4, <2>2, <3>1
  <2>3. QED
    BY <2>1, <2>2
<1>15. \A x \in Slots : latest'[x] <= nwrites'
  <2>1. \A x \in Slots : latest[x] <= nwrites
    BY DEF PromiseInv
  <2>2. CASE ff.res = "ok"
    BY <1>2, <1>3, <1>4, <2>1, <2>2
  <2>3. CASE ff.res # "ok"
    BY <1>2, <1>4, <2>1, <2>3
  <2>4. QED
    BY <2>2, <2>3
<1>16. ~Synchronized'
  BY <1>2 DEF Synchronized
<1>17. PromiseInv'
  BY <1>5, <1>12, <1>13, <1>14, <1>15, <1>16 DEF PromiseInv
<1>18. File!Next
  <2>1. CASE ff.res = "ok"
    <3>1. latest'[y] > latest[y]
      <4>1. latest[y] <= nwrites
        BY <1>2 DEF PromiseInv
      <4>2. latest[y] \in Nat
        BY <1>2, <1>3
      <4>3. QED
        BY <1>3, <1>4, <2>1, <4>1, <4>2
    <3>2. latest' = [latest EXCEPT ![y] = latest'[y]]
      BY <1>2, <1>4, <2>1
    <3>3. File!Write(y)
      BY <1>10, <1>16, <3>1, <3>2 DEF File!Write, Synchronized
    <3>4. QED
      BY <1>2, <3>3 DEF File!Next
  <2>2. CASE ff.res # "ok"
    <3>1. latest' = latest
      BY <1>2, <2>2
    <3>2. QED
      BY <1>10, <1>16, <3>1 DEF File!Next, File!Background, Synchronized
  <2>3. QED
    BY <2>1, <2>2
<1>19. QED
  BY <1>17, <1>18

\* One turn of the loop of sync_file is in the background.
LEMMA SyncWmbPromise ==
  ASSUME ReliableFile, CacheInv, DataInv, PromiseInv, CacheInv',
         NEW full \in BOOLEAN, NEW fail \in Failures, NEW done \in 0..MaxWrites,
         SyncWmb(full, fail, done)
  PROVE  PromiseInv' /\ File!Next
<1>1. PICK k, f : k = Head(wmbs) /\ f = FlushBuffer(k, full, fail, done)
  OBVIOUS
<1>2. /\ k \in Wmbs
      /\ arrays' = [arrays EXCEPT ![k] = <<>>]
      /\ io' = f.st
      /\ phase \in {"sync", "close"}
      /\ nfailures' = IF fail = "none" THEN nfailures ELSE nfailures + 1
      /\ fail # "none" => nfailures < MaxFailures
      /\ latest' = latest /\ nwrites' = nwrites /\ ret' = ret
  <2>1. k \in Wmbs
    BY <1>1 DEF SyncWmb, CacheInv, TypeOK
  <2>2. QED
    BY <1>1, <2>1 DEF SyncWmb, Library
<1>3. nfailures \in Nat /\ IoOK(io') /\ arrays \in [Wmbs -> Seq(CachedArray)]
  BY DEF CacheInv, TypeOK
<1>4. nfailures = 0 /\ fail = "none" /\ nfailures' = 0
  BY <1>2, <1>3 DEF ReliableFile, PromiseInv
<1>5. \A x \in Slots : \A n :
        (HeldIn(arrays[k], x) => NewestLast(arrays[k], x, n))
          => Delivers(io, io', arrays[k], x, n)
  <2>1. f = FlushBuffer(k, full, "none", done) /\ phase # "aborted"
    BY <1>1, <1>2, <1>4
  <2>2. QED
    BY <1>2, <1>4, <2>1, FlushData
<1>6. IoMoves
  <2> SUFFICES ASSUME NEW x \in Slots PROVE Moves(io, io', x, latest[x])
    BY DEF IoMoves
  <2>1. Delivers(io, io', arrays[k], x, latest[x])
    BY <1>2, <1>5 DEF DataInv, NewestCached
  <2>2. Pnetcdf => AllAre(arrays[k], x, latest[x])
    BY <1>2 DEF PromiseInv, NewestWaits
  <2>3. Requested(io, x) \subseteq {latest[x]}
    BY DEF PromiseInv, NewestRequested
  <2>4. QED
    BY <2>1, <2>2, <2>3 DEF Delivers
<1>7. /\ File!Store
      /\ \A x \in Slots : Requested(io', x) \subseteq {latest[x]}
      /\ \A x \in Slots : /\ io'.disk[x] = {} \/ \E n \in Versions : io'.disk[x] = {n}
                          /\ latest[x] = 0 => io'.disk[x] = {}
  BY <1>3, <1>6, MovesStore
<1>8. NewestRequested' /\ OneStored'
  BY <1>2, <1>7 DEF NewestRequested, OneStored
<1>9. NewestWaits'
  BY <1>2, <1>3 DEF PromiseInv, NewestWaits, AllAre
<1>10. ~Synchronized'
  BY <1>2 DEF PromiseInv, Synchronized
<1>11. PromiseInv'
  BY <1>2, <1>4, <1>8, <1>9, <1>10 DEF PromiseInv
<1>12. File!Next
  BY <1>2, <1>7, <1>10 DEF File!Next, File!Background, Synchronized
<1>13. QED
  BY <1>11, <1>12

\* When PIOc_sync or PIOc_closefile returns, what was accepted is stored.
LEMMA ReturnsPromise ==
  ASSUME ReliableFile, CacheInv, DataInv, PromiseInv, CacheInv',
         SyncReturns \/ CloseReturns
  PROVE  PromiseInv' /\ File!Next
<1>1. IoOK(io) /\ IoOK(io') /\ nfailures = 0 /\ latest \in [Slots -> Nat]
  BY DEF CacheInv, PromiseInv, TypeOK
<1>2. Synced.mv = {}
  <2>1. phase # "aborted"
    BY DEF SyncReturns, CloseReturns
  <2>2. QED
    BY <1>1, <2>1, WaitAllOK DEF Synced, DataInv, BlockingIdle
<1>3. /\ io' = Synced /\ phase' = "user" /\ Synchronized' /\ wmbs = <<>>
      /\ UNCHANGED <<arrays, latest, nwrites, nfailures>>
  <2>1. CASE SyncReturns
    BY <2>1 DEF SyncReturns, Synchronized
  <2>2. CASE CloseReturns
    BY <1>2, <2>2 DEF CloseReturns, Synchronized
  <2>3. QED
    BY <2>1, <2>2
<1>4. IoMoves
  BY <1>1, <1>3, SyncedData DEF IoMoves, PromiseInv, NewestRequested
<1>5. /\ \A x \in Slots : Requested(io', x) \subseteq {latest[x]}
      /\ \A x \in Slots : /\ io'.disk[x] = {} \/ \E n \in Versions : io'.disk[x] = {n}
                          /\ latest[x] = 0 => io'.disk[x] = {}
  BY <1>1, <1>4, MovesStore
<1>6. PromiseInv'
  <2>1. NewestRequested' /\ OneStored'
    BY <1>3, <1>5 DEF NewestRequested, OneStored
  <2>2. NewestWaits'
    BY <1>3 DEF PromiseInv, NewestWaits
  <2>3. QED
    BY <1>1, <1>3, <2>1, <2>2 DEF PromiseInv
<1>7. ASSUME NEW x \in Slots PROVE Stored(x)' = latest[x]
  <2>1. \A k \in Wmbs : ~HeldIn(arrays[k], x)
    BY <1>3, NothingListedNothingCached DEF HeldIn
  <2>2. latest[x] # 0 => latest[x] \in io'.disk[x]
    BY <1>1, <1>3, <2>1, SyncedData DEF DataInv, NewestCarried
  <2>3. CASE latest[x] = 0
    BY <1>5, <2>3 DEF Stored
  <2>4. CASE latest[x] # 0
    <3>1. latest[x] \in Versions /\ io'.disk[x] = {latest[x]}
      BY <1>1, <1>5, <2>2, <2>4 DEF Versions
    <3>2. (CHOOSE m \in io'.disk[x] : \A l \in io'.disk[x] : m <= l) = latest[x]
      BY <3>1, LeastOfOne
    <3>3. QED
      BY <3>1, <3>2 DEF Stored
  <2>5. QED
    BY <2>3, <2>4
<1>8. File!Next
  <2>1. [x \in Slots |-> Stored(x)]' = latest
    BY <1>1, <1>7
  <2>2. File!Sync
    BY <1>3, <2>1 DEF File!Sync, Synchronized
  <2>3. QED
    BY <2>2 DEF File!Next
<1>9. QED
  BY <1>6, <1>8

\* The calls that leave the data alone.
LEMMA QuietPromise ==
  ASSUME CacheInv, PromiseInv, CacheInv',
         \/ Reopen
         \/ \E v \in Vars, f \in Frames : SetFrame(v, f)
         \/ \E d \in Decomps : FreeDecomp(d)
         \/ \E call \in {"sync", "close"} : CallSync(call)
  PROVE  PromiseInv' /\ File!Next
<1>1. /\ UNCHANGED <<arrays, latest, nwrites, nfailures>>
      /\ io'.reqs = io.reqs /\ io'.disk = io.disk
      /\ ~Synchronized'
  <2>1. CASE Reopen
    <3>1. io'.reqs = io.reqs /\ io'.disk = io.disk
      BY <2>1, ReopenIo DEF CacheInv
    <3>2. QED
      BY <2>1, <3>1 DEF Reopen, Synchronized
  <2>2. CASE \E v \in Vars, f \in Frames : SetFrame(v, f)
    BY <2>2 DEF SetFrame, Synchronized
  <2>3. CASE \E d \in Decomps : FreeDecomp(d)
    BY <2>3 DEF FreeDecomp, Synchronized
  <2>4. CASE \E call \in {"sync", "close"} : CallSync(call)
    BY <2>4 DEF CallSync, Synchronized
  <2>5. QED
    BY <2>1, <2>2, <2>3, <2>4
<1>2. PromiseInv'
  BY <1>1 DEF PromiseInv, NewestRequested, NewestWaits, OneStored, Requested
<1>3. IoOK(io') /\ IoMoves
  BY <1>1 DEF CacheInv, IoMoves, Moves, PromiseInv, NewestRequested, Requested
<1>4. File!Store
  BY <1>3, MovesStore
<1>5. File!Next
  BY <1>1, <1>4 DEF File!Next, File!Background, Synchronized
<1>6. QED
  BY <1>2, <1>5

LEMMA NextPromise ==
  ASSUME ReliableFile, CacheInv, DataInv, PromiseInv, CacheInv', [Next]_vars
  PROVE  PromiseInv' /\ [File!Next]_(File!fileVars)
<1>1. ASSUME NEW v \in Vars, NEW d \in Decomps, NEW need \in 0..2,
             NEW full \in BOOLEAN, NEW fail \in Failures, NEW done \in 0..MaxWrites,
             WriteDarray(v, d, need, full, fail, done)
      PROVE  PromiseInv' /\ File!Next
  BY <1>1, WriteDarrayPromise
<1>2. ASSUME NEW full \in BOOLEAN, NEW fail \in Failures, NEW done \in 0..MaxWrites,
             SyncWmb(full, fail, done)
      PROVE  PromiseInv' /\ File!Next
  BY <1>2, SyncWmbPromise
<1>3. CASE UNCHANGED vars
  <2>1. UNCHANGED <<phase, ret, arrays, io, latest, nwrites, nfailures>>
    BY <1>3 DEF vars
  <2>2. PromiseInv'
    BY <2>1 DEF PromiseInv, NewestRequested, NewestWaits, OneStored, Synchronized
  <2>3. UNCHANGED File!fileVars
    BY <2>1 DEF File!fileVars, Stored
  <2>4. QED
    BY <2>2, <2>3
<1>4. QED
  BY <1>1, <1>2, <1>3, ReturnsPromise, QuietPromise DEF Next

\* The initial states of the cache are those of BufferedFile.
LEMMA InitIsFileInit == Init => File!Init
<1> SUFFICES ASSUME Init PROVE File!Init
  OBVIOUS
<1>1. /\ latest = [x \in Slots |-> 0] /\ ret = <<"create", "ok">>
      /\ \A x \in Slots : Stored(x) = 0
  BY DEF Init, Stored
<1>2. QED
  BY <1>1 DEF File!Init

\* The cache is invisible: what PIOc_write_darray, PIOc_setframe,
\* PIOc_freedecomp, PIOc_sync, PIOc_closefile and PIOc_openfile do to a
\* ReliableFile is what they would do to a file that stores late, but loses
\* nothing, never goes back to an older version, and has stored everything when
\* sync or close returns: the write cache implements BufferedFile.
THEOREM CacheIsInvisible ==
  ASSUME ReliableFile
  PROVE  Spec => CacheImplementsFile
<1>1. OneQueuePerSlot
  BY ReliableIsOrdered
<1>2. Spec => []CacheInv /\ []DataInv
  BY <1>1, CacheInvariant, DataInvariant, PTL
<1>3. CacheInv /\ DataInv /\ PromiseInv /\ CacheInv' /\ [Next]_vars
        => PromiseInv' /\ [File!Next]_(File!fileVars)
  BY NextPromise
<1>4. Spec => File!Init /\ [][File!Next]_(File!fileVars)
  BY <1>2, <1>3, InitPromise, InitIsFileInit, PTL DEF Spec
<1>5. QED
  BY <1>4 DEF CacheImplementsFile, File!Spec

=============================================================================
