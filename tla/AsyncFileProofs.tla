--------------------------- MODULE AsyncFileProofs ---------------------------
(***************************************************************************)
(* The counters of pending HDF5 operations and what a close and a free    *)
(* rely on, for any number of files, operations, threads and failures:     *)
(* the counters are exact, no structure is freed under an operation, and   *)
(* no file is closed with data missing.                                    *)
(***************************************************************************)
EXTENDS AsyncFile, SequenceTheorems, FiniteSetTheorems, TLAPS

\* The places of a sequence that hold a member of S.
Places(q, S) == {n \in DOMAIN q : q[n] \in S}

\* The threads that process an operation of S.
Threads(S) == {w \in Workers : Busy(w) /\ worker[w].op \in S}

\* How many operations of S are queued, being processed or failed.
Count(S) ==
  Cardinality(Places(queue, S)) + Cardinality(Threads(S)) + Cardinality(Places(failed, S))

One(o, S) == IF o \in S THEN 1 ELSE 0

NonClose == {op \in Ops : op.type # "close"}
WritesWith(d) == {op \in Ops : op.type = "write" /\ op.ioid = d}

-----------------------------------------------------------------------------
(* Counting in sequences and threads                                       *)

LEMMA PlacesFinite ==
  ASSUME NEW T, NEW q \in Seq(T), NEW S
  PROVE  IsFiniteSet(Places(q, S)) /\ Cardinality(Places(q, S)) \in Nat
<1>1. Len(q) \in Nat /\ DOMAIN q = 1..Len(q)
  BY LenProperties
<1>2. IsFiniteSet(1..Len(q))
  BY <1>1, FS_Interval
<1>3. Places(q, S) \in SUBSET (1..Len(q))
  BY <1>1 DEF Places
<1>4. IsFiniteSet(Places(q, S))
  BY <1>2, <1>3, FS_Subset
<1>5. QED
  BY <1>4, FS_CardinalityType

LEMMA PlacesAppend ==
  ASSUME NEW T, NEW q \in Seq(T), NEW o \in T, NEW S
  PROVE  Cardinality(Places(Append(q, o), S)) = Cardinality(Places(q, S)) + One(o, S)
<1>1. /\ Len(q) \in Nat /\ DOMAIN q = 1..Len(q)
      /\ DOMAIN Append(q, o) = 1..(Len(q) + 1)
      /\ \A n \in DOMAIN q : Append(q, o)[n] = q[n]
      /\ Append(q, o)[Len(q) + 1] = o
  BY LenProperties
<1>2. Len(q) + 1 \notin Places(q, S)
  BY <1>1 DEF Places
<1>3. IsFiniteSet(Places(q, S)) /\ Cardinality(Places(q, S)) \in Nat
  BY PlacesFinite
<1>4. CASE o \in S
  <2>1. Places(Append(q, o), S) = Places(q, S) \cup {Len(q) + 1}
    BY <1>1, <1>4 DEF Places
  <2>2. QED
    BY <1>2, <1>3, <1>4, <2>1, FS_AddElement DEF One
<1>5. CASE o \notin S
  <2>1. Places(Append(q, o), S) = Places(q, S)
    BY <1>1, <1>5 DEF Places
  <2>2. QED
    BY <1>3, <1>5, <2>1 DEF One
<1>6. QED
  BY <1>4, <1>5

LEMMA PlacesTail ==
  ASSUME NEW T, NEW q \in Seq(T), q # <<>>, NEW S
  PROVE  Cardinality(Places(q, S)) = Cardinality(Places(Tail(q), S)) + One(Head(q), S)
<1>1. /\ Len(q) \in Nat /\ DOMAIN q = 1..Len(q) /\ 1 \in DOMAIN q /\ Head(q) = q[1]
      /\ Tail(q) \in Seq(T) /\ DOMAIN Tail(q) = 1..(Len(q) - 1)
      /\ \A n \in DOMAIN Tail(q) : Tail(q)[n] = q[n + 1]
  BY LenProperties, HeadTailProperties
<1> DEFINE P == Places(q, S)
           R == Places(Tail(q), S)
           f == [n \in R |-> n + 1]
<1>2. IsFiniteSet(P) /\ IsFiniteSet(R) /\ Cardinality(P) \in Nat /\ Cardinality(R) \in Nat
  BY <1>1, PlacesFinite
<1>3. R \subseteq Int /\ P \subseteq Int
  BY <1>1 DEF Places
<1>4. \A n \in R : n + 1 \in P \ {1}
  BY <1>1 DEF Places
<1>5. \A n \in P \ {1} : n - 1 \in R /\ n = (n - 1) + 1
  BY <1>1 DEF Places
<1>6. f \in [R -> P \ {1}]
  BY <1>4
<1>7. \A m, n \in R : f[m] = f[n] => m = n
  BY <1>3
<1>8. \A n \in P \ {1} : \E m \in R : f[m] = n
  BY <1>5
<1>9. f \in Bijection(R, P \ {1})
  BY <1>6, <1>7, <1>8 DEF Bijection, Injection, Surjection, IsInjective
<1>10. Cardinality(P \ {1}) = Cardinality(R)
  BY <1>2, <1>9, FS_Bijection DEF ExistsBijection
<1>11. Cardinality(P \ {1}) = IF 1 \in P THEN Cardinality(P) - 1 ELSE Cardinality(P)
  BY <1>2, FS_RemoveElement
<1>12. 1 \in P <=> Head(q) \in S
  BY <1>1 DEF Places
<1>13. QED
  BY <1>2, <1>10, <1>11, <1>12 DEF One

LEMMA ThreadsFinite ==
  ASSUME NEW S
  PROVE  IsFiniteSet(Threads(S)) /\ Cardinality(Threads(S)) \in Nat
<1>1. Threads(S) \in SUBSET Workers
  BY DEF Threads
<1>2. IsFiniteSet(Threads(S))
  BY <1>1, AsyncFileAssumption, FS_Subset
<1>3. QED
  BY <1>2, FS_CardinalityType

\* A thread that does nothing starts an operation.
LEMMA ThreadStarts ==
  ASSUME TypeOK, NEW w \in Workers, ~Busy(w), NEW t \in Tasks,
         worker' = [worker EXCEPT ![w] = t], NEW S
  PROVE  Cardinality(Threads(S)') = Cardinality(Threads(S)) + One(t.op, S)
<1>1. t \notin {Idle, Dead}
  BY ThreadStatesAssumption
<1>2. worker'[w] = t /\ \A u \in Workers : u # w => worker'[u] = worker[u]
  BY DEF TypeOK
<1>3. w \notin Threads(S) /\ IsFiniteSet(Threads(S)) /\ Cardinality(Threads(S)) \in Nat
  BY ThreadsFinite DEF Threads
<1>4. CASE t.op \in S
  <2>1. Threads(S)' = Threads(S) \cup {w}
    BY <1>1, <1>2, <1>4 DEF Threads, Busy
  <2>2. QED
    BY <1>3, <1>4, <2>1, FS_AddElement DEF One
<1>5. CASE t.op \notin S
  <2>1. Threads(S)' = Threads(S)
    BY <1>1, <1>2, <1>3, <1>5 DEF Threads, Busy
  <2>2. QED
    BY <1>3, <1>5, <2>1 DEF One
<1>6. QED
  BY <1>4, <1>5

\* A thread ends the operation it processes.
LEMMA ThreadEnds ==
  ASSUME TypeOK, NEW w \in Workers, Busy(w), NEW next \in {Idle, Dead},
         worker' = [worker EXCEPT ![w] = next], NEW S
  PROVE  /\ Cardinality(Threads(S)) = Cardinality(Threads(S)') + One(worker[w].op, S)
         /\ Cardinality(Threads(S)') \in Nat
<1>1. worker'[w] = next /\ \A u \in Workers : u # w => worker'[u] = worker[u]
  BY DEF TypeOK
<1>2. IsFiniteSet(Threads(S)) /\ Cardinality(Threads(S)) \in Nat
  BY ThreadsFinite
<1>3. Threads(S)' = Threads(S) \ {w}
  BY <1>1 DEF Threads, Busy
<1>4. w \in Threads(S) <=> worker[w].op \in S
  BY DEF Threads
<1>5. Cardinality(Threads(S) \ {w})
        = IF w \in Threads(S) THEN Cardinality(Threads(S)) - 1 ELSE Cardinality(Threads(S))
  BY <1>2, FS_RemoveElement
<1>6. IsFiniteSet(Threads(S) \ {w}) /\ Cardinality(Threads(S) \ {w}) \in Nat
  BY <1>2, FS_RemoveElement, FS_CardinalityType
<1>7. QED
  BY <1>2, <1>3, <1>4, <1>5, <1>6 DEF One

\* A thread goes on with its operation.
LEMMA ThreadGoesOn ==
  ASSUME TypeOK, NEW w \in Workers, Busy(w), NEW t \in Tasks, t.op = worker[w].op,
         worker' = [worker EXCEPT ![w] = t], NEW S
  PROVE  Threads(S)' = Threads(S)
<1>1. t \notin {Idle, Dead}
  BY ThreadStatesAssumption
<1>2. worker'[w] = t /\ \A u \in Workers : u # w => worker'[u] = worker[u]
  BY DEF TypeOK
<1>3. QED
  BY <1>1, <1>2 DEF Threads, Busy

-----------------------------------------------------------------------------
(* What a step does to the number of operations of any kind                *)

LEMMA CountType ==
  ASSUME TypeOK, NEW S
  PROVE  Count(S) \in Nat
<1>1. queue \in Seq(Ops) /\ failed \in Seq(Ops)
  BY DEF TypeOK
<1>2. QED
  BY <1>1, PlacesFinite, ThreadsFinite DEF Count

LEMMA CountUnchanged ==
  ASSUME UNCHANGED <<queue, worker, failed>>, NEW S
  PROVE  Count(S)' = Count(S)
BY DEF Count, Threads, Busy

\* An operation is queued.
LEMMA CountQueued ==
  ASSUME TypeOK, NEW o \in Ops, queue' = Append(queue, o), UNCHANGED <<worker, failed>>, NEW S
  PROVE  Count(S)' = Count(S) + One(o, S)
<1>1. queue \in Seq(Ops) /\ failed \in Seq(Ops)
  BY DEF TypeOK
<1>2. Cardinality(Places(queue', S)) = Cardinality(Places(queue, S)) + One(o, S)
  BY <1>1, PlacesAppend
<1>3. Threads(S)' = Threads(S) /\ One(o, S) \in Nat
  BY DEF Threads, Busy, One
<1>4. QED
  BY <1>1, <1>2, <1>3, PlacesFinite, ThreadsFinite DEF Count

\* A thread takes the first of the queue.
LEMMA CountTaken ==
  ASSUME TypeOK, NEW w \in Workers, ~Busy(w), queue # <<>>, queue' = Tail(queue),
         NEW t \in Tasks, t.op = Head(queue), worker' = [worker EXCEPT ![w] = t],
         UNCHANGED failed, NEW S
  PROVE  Count(S)' = Count(S)
<1>1. queue \in Seq(Ops) /\ failed \in Seq(Ops) /\ Tail(queue) \in Seq(Ops)
  BY HeadTailProperties DEF TypeOK
<1>2. Cardinality(Places(queue, S)) = Cardinality(Places(queue', S)) + One(Head(queue), S)
  BY <1>1, PlacesTail
<1>3. Cardinality(Threads(S)') = Cardinality(Threads(S)) + One(Head(queue), S)
  <2>1. Cardinality(Threads(S)') = Cardinality(Threads(S)) + One(t.op, S)
    BY ThreadStarts
  <2>2. QED
    BY <2>1
<1>4. One(Head(queue), S) \in Nat
  BY DEF One
<1>5. /\ Cardinality(Places(Tail(queue), S)) \in Nat /\ Cardinality(Places(failed, S)) \in Nat
      /\ Cardinality(Threads(S)) \in Nat
  BY <1>1, PlacesFinite, ThreadsFinite
<1>6. Count(S)' = Cardinality(Places(Tail(queue), S)) + Cardinality(Threads(S)')
                    + Cardinality(Places(failed, S))
  BY DEF Count
<1>7. QED
  BY <1>2, <1>3, <1>4, <1>5, <1>6 DEF Count

\* An operation is done.
LEMMA CountDone ==
  ASSUME TypeOK, NEW w \in Workers, Busy(w), worker' = [worker EXCEPT ![w] = Idle],
         UNCHANGED <<queue, failed>>, NEW S
  PROVE  Count(S) = Count(S)' + One(worker[w].op, S) /\ Count(S)' \in Nat
<1>1. queue \in Seq(Ops) /\ failed \in Seq(Ops)
  BY DEF TypeOK
<1>2. /\ Cardinality(Threads(S)) = Cardinality(Threads(S)') + One(worker[w].op, S)
      /\ Cardinality(Threads(S)') \in Nat
  BY ThreadEnds
<1>3. One(worker[w].op, S) \in Nat
  BY DEF One
<1>5. QED
  BY <1>1, <1>2, <1>3, PlacesFinite, ThreadsFinite DEF Count

\* An operation fails and ends its thread: it stays counted.
LEMMA CountFailed ==
  ASSUME TypeOK, NEW w \in Workers, Busy(w), worker' = [worker EXCEPT ![w] = Dead],
         failed' = Append(failed, worker[w].op), worker[w].op \in Ops, UNCHANGED queue, NEW S
  PROVE  Count(S)' = Count(S)
<1>1. queue \in Seq(Ops) /\ failed \in Seq(Ops)
  BY DEF TypeOK
<1>2. /\ Cardinality(Threads(S)) = Cardinality(Threads(S)') + One(worker[w].op, S)
      /\ Cardinality(Threads(S)') \in Nat
  BY ThreadEnds
<1>3. Cardinality(Places(failed', S)) = Cardinality(Places(failed, S)) + One(worker[w].op, S)
  BY <1>1, PlacesAppend
<1>4. /\ Cardinality(Places(queue, S)) \in Nat /\ Cardinality(Places(failed, S)) \in Nat
      /\ One(worker[w].op, S) \in Nat
  BY <1>1, PlacesFinite DEF One
<1>5. QED
  BY <1>2, <1>3, <1>4 DEF Count

\* A thread goes on with its operation.
LEMMA CountGoesOn ==
  ASSUME TypeOK, NEW w \in Workers, Busy(w), NEW t \in Tasks, t.op = worker[w].op,
         worker' = [worker EXCEPT ![w] = t], UNCHANGED <<queue, failed>>, NEW S
  PROVE  Count(S)' = Count(S)
<1>1. Threads(S)' = Threads(S)
  BY ThreadGoesOn
<1>2. QED
  BY <1>1 DEF Count

\* An operation puts itself back in the queue.
LEMMA CountPutBack ==
  ASSUME TypeOK, NEW w \in Workers, Busy(w), worker' = [worker EXCEPT ![w] = Idle],
         queue' = Append(queue, worker[w].op), worker[w].op \in Ops, UNCHANGED failed, NEW S
  PROVE  Count(S)' = Count(S)
<1>1. queue \in Seq(Ops) /\ failed \in Seq(Ops)
  BY DEF TypeOK
<1>2. /\ Cardinality(Threads(S)) = Cardinality(Threads(S)') + One(worker[w].op, S)
      /\ Cardinality(Threads(S)') \in Nat
  BY ThreadEnds
<1>3. Cardinality(Places(queue', S)) = Cardinality(Places(queue, S)) + One(worker[w].op, S)
  BY <1>1, PlacesAppend
<1>4. /\ Cardinality(Places(queue, S)) \in Nat /\ Cardinality(Places(failed, S)) \in Nat
      /\ One(worker[w].op, S) \in Nat
  BY <1>1, PlacesFinite DEF One
<1>5. QED
  BY <1>2, <1>3, <1>4 DEF Count

\* Nothing is left of any kind only if the queue is empty, no thread is busy with an
\* operation and none has failed.
LEMMA CountZero ==
  ASSUME TypeOK, NEW S
  PROVE  Count(S) = 0 <=> Places(queue, S) = {} /\ Threads(S) = {} /\ Places(failed, S) = {}
<1>1. queue \in Seq(Ops) /\ failed \in Seq(Ops)
  BY DEF TypeOK
<1>2. /\ Cardinality(Places(queue, S)) \in Nat /\ IsFiniteSet(Places(queue, S))
      /\ Cardinality(Places(failed, S)) \in Nat /\ IsFiniteSet(Places(failed, S))
      /\ Cardinality(Threads(S)) \in Nat /\ IsFiniteSet(Threads(S))
  BY <1>1, PlacesFinite, ThreadsFinite
<1>3. \A P : IsFiniteSet(P) => (Cardinality(P) = 0 <=> P = {})
  BY FS_EmptySet
<1>4. Count(S) = 0 <=> /\ Cardinality(Places(queue, S)) = 0 /\ Cardinality(Threads(S)) = 0
                       /\ Cardinality(Places(failed, S)) = 0
  <2>1. \A a, b, c \in Nat : a + b + c = 0 <=> a = 0 /\ b = 0 /\ c = 0
    OBVIOUS
  <2>2. QED
    BY <1>2, <2>1 DEF Count
<1>5. QED
  BY <1>2, <1>3, <1>4

LEMMA CountSubset ==
  ASSUME TypeOK, NEW R, NEW S, R \subseteq S, Count(S) = 0
  PROVE  Count(R) = 0
<1>1. Places(queue, S) = {} /\ Threads(S) = {} /\ Places(failed, S) = {}
  BY CountZero
<1>2. Places(queue, R) = {} /\ Threads(R) = {} /\ Places(failed, R) = {}
  BY <1>1 DEF Places, Threads
<1>3. QED
  BY <1>2, CountZero

\* What a thread does is counted.
LEMMA CountBusy ==
  ASSUME TypeOK, NEW w \in Workers, Busy(w), NEW S, worker[w].op \in S
  PROVE  Count(S) # 0
<1>1. w \in Threads(S)
  BY DEF Threads
<1>2. QED
  BY <1>1, CountZero

\* The operations that Pending selects are those of a set.
LEMMA PendingIsCount ==
  ASSUME TypeOK
  PROVE  /\ Pending(LAMBDA op : TRUE) = Count(Ops)
         /\ Pending(LAMBDA op : op.type # "close") = Count(NonClose)
         /\ \A d \in Decomps :
              Pending(LAMBDA op : op.type = "write" /\ op.ioid = d) = Count(WritesWith(d))
<1>1. /\ \A n \in DOMAIN queue : queue[n] \in Ops
      /\ \A n \in DOMAIN failed : failed[n] \in Ops
      /\ \A w \in Workers : Busy(w) => worker[w].op \in Ops
  <2>1. \A t \in Tasks : t.op \in Ops
    BY DEF Tasks
  <2>2. /\ queue \in Seq(Ops) /\ failed \in Seq(Ops)
        /\ \A w \in Workers : Busy(w) => worker[w] \in Tasks
    BY DEF TypeOK, Busy
  <2>3. QED
    BY <2>1, <2>2
<1>2. Pending(LAMBDA op : TRUE) = Count(Ops)
  <2>1. /\ Places(queue, Ops) = {i \in DOMAIN queue : TRUE}
        /\ Threads(Ops) = {w \in Workers : Busy(w) /\ TRUE}
        /\ Places(failed, Ops) = {n \in DOMAIN failed : TRUE}
    BY <1>1 DEF Places, Threads
  <2>2. QED
    BY <2>1 DEF Pending, Count
<1>3. Pending(LAMBDA op : op.type # "close") = Count(NonClose)
  <2>1. /\ Places(queue, NonClose) = {i \in DOMAIN queue : queue[i].type # "close"}
        /\ Threads(NonClose) = {w \in Workers : Busy(w) /\ worker[w].op.type # "close"}
        /\ Places(failed, NonClose) = {n \in DOMAIN failed : failed[n].type # "close"}
    BY <1>1 DEF Places, Threads, NonClose
  <2>2. QED
    BY <2>1 DEF Pending, Count
<1>4. ASSUME NEW d \in Decomps
      PROVE  Pending(LAMBDA op : op.type = "write" /\ op.ioid = d) = Count(WritesWith(d))
  <2>1. /\ Places(queue, WritesWith(d))
             = {i \in DOMAIN queue : queue[i].type = "write" /\ queue[i].ioid = d}
        /\ Threads(WritesWith(d))
             = {w \in Workers : Busy(w) /\ (worker[w].op.type = "write" /\ worker[w].op.ioid = d)}
        /\ Places(failed, WritesWith(d))
             = {n \in DOMAIN failed : failed[n].type = "write" /\ failed[n].ioid = d}
    BY <1>1 DEF Places, Threads, WritesWith
  <2>2. QED
    BY <2>1 DEF Pending, Count
<1>5. QED
  BY <1>2, <1>3, <1>4
-----------------------------------------------------------------------------
(* The kinds of operations                                                 *)

LEMMA OpKinds ==
  ASSUME NEW op \in Ops
  PROVE  /\ op.type \in {"meta", "close", "frame", "write"}
         /\ op.type = "close" => op = CloseOp
         /\ op.type = "frame" => op.var \in Vars /\ op.frame \in Frames
         /\ op.type = "write" => op.ioid \in Decomps /\ op.arrays \in Seq(Arrays)
<1>1. CASE op \in {MetaOp, CloseOp}
  BY <1>1 DEF MetaOp, CloseOp
<1>2. CASE op \in {FrameOp(v, f) : v \in Vars, f \in Frames}
  BY <1>2 DEF FrameOp
<1>3. CASE op \in [type: {"write"}, ioid: Decomps, arrays: Seq(Arrays)]
  BY <1>3
<1>4. QED
  BY <1>1, <1>2, <1>3 DEF Ops

LEMMA KindsOfOps ==
  /\ MetaOp \in Ops /\ MetaOp.type = "meta"
  /\ CloseOp \in Ops /\ CloseOp.type = "close"
  /\ \A v \in Vars, f \in Frames : FrameOp(v, f) \in Ops /\ FrameOp(v, f).type = "frame"
  /\ \A d \in Decomps, s \in Seq(Arrays) :
       /\ WriteOp(d, s) \in Ops /\ WriteOp(d, s).type = "write"
       /\ WriteOp(d, s).ioid = d /\ WriteOp(d, s).arrays = s
<1>1. MetaOp.type = "meta" /\ CloseOp.type = "close"
  BY DEF MetaOp, CloseOp
<1>2. \A v \in Vars, f \in Frames : FrameOp(v, f) \in Ops /\ FrameOp(v, f).type = "frame"
  <2>1. \A v \in Vars, f \in Frames : FrameOp(v, f).type = "frame"
    BY DEF FrameOp
  <2>2. QED
    BY <2>1 DEF Ops
<1>3. \A d \in Decomps, s \in Seq(Arrays) :
        /\ WriteOp(d, s) \in [type: {"write"}, ioid: Decomps, arrays: Seq(Arrays)]
        /\ WriteOp(d, s).type = "write"
        /\ WriteOp(d, s).ioid = d /\ WriteOp(d, s).arrays = s
  BY DEF WriteOp
<1>4. MetaOp \in Ops /\ CloseOp \in Ops
  BY DEF Ops
<1>5. QED
  BY <1>1, <1>2, <1>3, <1>4 DEF Ops

LEMMA OneOf ==
  ASSUME NEW op \in Ops
  PROVE  /\ One(op, Ops) = 1
         /\ One(op, NonClose) = IF op.type = "close" THEN 0 ELSE 1
         /\ One(op, {CloseOp}) = IF op.type = "close" THEN 1 ELSE 0
         /\ \A d \in Decomps :
              One(op, WritesWith(d)) = IF op.type = "write" /\ op.ioid = d THEN 1 ELSE 0
<1>1. op \in {CloseOp} <=> op.type = "close"
  BY OpKinds, KindsOfOps
<1>2. QED
  BY <1>1 DEF One, NonClose, WritesWith

LEMMA TaskOp ==
  ASSUME TypeOK, NEW w \in Workers, Busy(w)
  PROVE  /\ worker[w] \in Tasks /\ worker[w].op \in Ops
         /\ worker[w].todo \in Seq(Arrays) /\ worker[w].start \in AnyFrame \cup {0}
<1>1. worker[w] \in Tasks
  BY DEF TypeOK, Busy
<1>2. QED
  BY <1>1 DEF Tasks

-----------------------------------------------------------------------------
(* The invariant                                                           *)

\* The counters of the code count the operations.
Exact ==
  /\ nglobal = Count(Ops)
  /\ npend = Count(NonClose)
  /\ \A d \in Decomps : nasync[d] = Count(WritesWith(d))

\* The life of the file structure: there is a close operation just while the file is soft
\* closed; nothing is left when the file is hard closed or its structure freed; a file
\* that is not open has nothing cached.
Lifecycle ==
  /\ Count({CloseOp}) = IF file = "closing" /\ ~hard THEN 1 ELSE 0
  /\ file = "none" \/ hard => Count(Ops) = 0
  /\ hard => file # "open"
  /\ file # "open" => \A k \in Wmbs : cache[k] = <<>>
  /\ main \in {"sync", "close"} => file = "open"
  /\ main \in {"creating", "opening", "deleting", "files"} => file # "open"

FileInv == TypeOK /\ Exact /\ Lifecycle

\* An operation is queued and counted.
LEMMA ExactQueued ==
  ASSUME TypeOK, Exact, NEW o \in Ops, queue' = Append(queue, o), UNCHANGED <<worker, failed>>,
         nglobal' = nglobal + 1, npend' = npend + One(o, NonClose),
         \A d \in Decomps : nasync'[d] = nasync[d] + One(o, WritesWith(d))
  PROVE  Exact'
<1>1. One(o, Ops) = 1
  BY OneOf
<1>2. /\ Count(Ops)' = Count(Ops) + 1
      /\ Count(NonClose)' = Count(NonClose) + One(o, NonClose)
      /\ \A d \in Decomps : Count(WritesWith(d))' = Count(WritesWith(d)) + One(o, WritesWith(d))
  BY <1>1, CountQueued
<1>3. QED
  BY <1>2 DEF Exact

\* An operation is done and discounted.
LEMMA ExactDone ==
  ASSUME TypeOK, Exact, NEW w \in Workers, Busy(w), worker' = [worker EXCEPT ![w] = Idle],
         UNCHANGED <<queue, failed>>,
         nglobal' = nglobal - 1, npend' = npend - One(worker[w].op, NonClose),
         \A d \in Decomps : nasync'[d] = nasync[d] - One(worker[w].op, WritesWith(d))
  PROVE  Exact'
<1>1. worker[w].op \in Ops
  BY TaskOp
<1>2. One(worker[w].op, Ops) = 1
  BY <1>1, OneOf
<1>3. /\ Count(Ops) = Count(Ops)' + One(worker[w].op, Ops)
      /\ Count(NonClose) = Count(NonClose)' + One(worker[w].op, NonClose)
      /\ \A d \in Decomps :
           Count(WritesWith(d)) = Count(WritesWith(d))' + One(worker[w].op, WritesWith(d))
  BY CountDone
<1>4. \A S : One(worker[w].op, S) \in Nat
  BY DEF One
<1>5. \A S : Count(S) \in Nat /\ Count(S)' \in Nat
  BY CountType, CountDone
<1>6. QED
  BY <1>2, <1>3, <1>4, <1>5 DEF Exact

\* The operations stay the same in number, and so do the counters.
LEMMA ExactSame ==
  ASSUME Exact, \A S : Count(S)' = Count(S), UNCHANGED <<nglobal, npend, nasync>>
  PROVE  Exact'
BY DEF Exact
-----------------------------------------------------------------------------
(* The counters stay exact                                                 *)

\* The flush of a wmb queues one write and counts it everywhere.
LEMMA ExactFlush ==
  ASSUME TypeOK, Exact, NEW k \in Wmbs, Flush(k), UNCHANGED <<worker, failed>>
  PROVE  Exact'
<1>1. k.ioid \in Decomps /\ cache[k] \in Seq(Arrays)
  BY DEF Wmbs, TypeOK
<1> DEFINE o == WriteOp(k.ioid, cache[k])
<1>2. o \in Ops /\ o.type = "write" /\ o.ioid = k.ioid
  BY <1>1, KindsOfOps
<1>3. /\ One(o, NonClose) = 1
      /\ \A d \in Decomps : One(o, WritesWith(d)) = IF k.ioid = d THEN 1 ELSE 0
  BY <1>2, OneOf
<1>4. /\ queue' = Append(queue, o) /\ npend' = npend + 1 /\ nglobal' = nglobal + 1
      /\ nasync' = [nasync EXCEPT ![k.ioid] = @ + 1]
  BY DEF Flush
<1>5. \A d \in Decomps : nasync'[d] = nasync[d] + One(o, WritesWith(d))
  <2> HIDE DEF o
  <2>1. nasync \in [Decomps -> Nat]
    BY DEF TypeOK
  <2>2. \A d \in Decomps : nasync'[d] = IF k.ioid = d THEN nasync[d] + 1 ELSE nasync[d]
    BY <1>1, <1>4, <2>1
  <2>3. QED
    BY <1>3, <2>1, <2>2
<1>6. QED
  BY <1>2, <1>3, <1>4, <1>5, ExactQueued

\* Every call on an open file queues an operation that is not a close.
LEMMA ExactMeta ==
  ASSUME TypeOK, Exact, NEW o \in Ops, o.type \in {"meta", "frame"}, queue' = Append(queue, o),
         nglobal' = nglobal + 1, npend' = npend + 1, UNCHANGED <<worker, failed, nasync>>
  PROVE  Exact'
<1>1. /\ One(o, NonClose) = 1
      /\ \A d \in Decomps : One(o, WritesWith(d)) = 0
  BY OneOf
<1>2. \A d \in Decomps : nasync'[d] = nasync[d] + One(o, WritesWith(d))
  <2>1. nasync \in [Decomps -> Nat]
    BY DEF TypeOK
  <2>2. QED
    BY <1>1, <2>1
<1>3. QED
  BY <1>1, <1>2, ExactQueued

LEMMA CallExact ==
  ASSUME FileInv, User \/ Call \/ GiveUp
  PROVE  Exact'
<1> USE DEF FileInv
<1>1. ASSUME UNCHANGED <<queue, worker, failed, nglobal, npend, nasync>> PROVE Exact'
  BY <1>1, CountUnchanged DEF Exact
<1>2. CASE CreateReturns
  <2>1. Count(Ops) = 0
    BY <1>2 DEF CreateReturns, Closed, Lifecycle
  <2>2. npend = 0
    <3>1. NonClose \subseteq Ops
      BY DEF NonClose
    <3>2. QED
      BY <2>1, <3>1, CountSubset DEF Exact
  <2>3. /\ queue' = Append(queue, MetaOp) /\ npend' = npend + 1 /\ nglobal' = nglobal + 1
        /\ UNCHANGED <<worker, failed, nasync>>
    BY <1>2, <2>2 DEF CreateReturns, NewFile
  <2>4. QED
    BY <2>3, KindsOfOps, ExactMeta
<1>3. CASE Meta
  BY <1>3, KindsOfOps, ExactMeta DEF Meta
<1>4. ASSUME NEW v \in Vars, NEW f \in Frames, SetFrame(v, f) PROVE Exact'
  BY <1>4, KindsOfOps, ExactMeta DEF SetFrame
<1>5. ASSUME NEW v \in Vars, NEW full \in BOOLEAN, WriteDarray(v, full) PROVE Exact'
  <2> DEFINE k == [ioid |-> DecompOf[v], rec |-> record[v] >= 0]
  <2>1. UNCHANGED <<worker, failed>>
    BY <1>5 DEF WriteDarray
  <2>2. CASE full
    <3>1. Flush(k)
      BY <1>5, <2>2 DEF WriteDarray
    <3>2. k \in Wmbs
      BY AsyncFileAssumption DEF Wmbs
    <3>3. QED
      BY <2>1, <3>1, <3>2, ExactFlush
  <2>3. CASE ~full
    <3>1. UNCHANGED <<npend, nglobal, nasync, queue>>
      BY <1>5, <2>3 DEF WriteDarray
    <3>2. QED
      BY <1>1, <2>1, <3>1
  <2>4. QED
    BY <2>2, <2>3
<1>6. ASSUME NEW k \in Wmbs, SyncWmb(k) PROVE Exact'
  BY <1>6, ExactFlush DEF SyncWmb
<1>7. CASE SyncReturns
  <2>1. CASE main = "sync"
    BY <1>1, <1>7, <2>1 DEF SyncReturns
  <2>2. CASE main = "close"
    <3>1. /\ queue' = Append(queue, CloseOp) /\ nglobal' = nglobal + 1
          /\ UNCHANGED <<worker, failed, npend, nasync>>
      BY <1>7, <2>2 DEF SyncReturns
    <3>2. /\ One(CloseOp, NonClose) = 0 /\ \A d \in Decomps : One(CloseOp, WritesWith(d)) = 0
      BY KindsOfOps, OneOf
    <3>3. /\ npend' = npend + One(CloseOp, NonClose)
          /\ \A d \in Decomps : nasync'[d] = nasync[d] + One(CloseOp, WritesWith(d))
      <4>1. nasync \in [Decomps -> Nat] /\ npend \in Nat
        BY DEF TypeOK
      <4>2. QED
        BY <3>1, <3>2, <4>1
    <3>4. QED
      BY <3>1, <3>3, KindsOfOps, ExactQueued
  <2>3. QED
    BY <1>7, <2>1, <2>2 DEF SyncReturns
<1>8. CASE \/ CreateFile \/ GiveUp \/ OtherFile \/ Finalize \/ RevisitReturns \/ Drained
           \/ FilesClosed \/ FinalizeReturns
  BY <1>1, <1>8
     DEF CreateFile, GiveUp, OtherFile, Finalize, RevisitReturns, Drained, FilesClosed,
         FinalizeReturns
<1>9. ASSUME NEW call, CallSync(call) \/ Revisit(call) PROVE Exact'
  BY <1>1, <1>9 DEF CallSync, Revisit
<1>10. ASSUME NEW d \in Decomps, FreeDecomp(d) \/ DeleteDecomp(d) PROVE Exact'
  BY <1>1, <1>10 DEF FreeDecomp, DeleteDecomp
<1>11. QED
  BY <1>2, <1>3, <1>4, <1>5, <1>6, <1>7, <1>8, <1>9, <1>10 DEF User, Call

\* The task that a thread starts with.
LEMMA TakeTask ==
  ASSUME TypeOK, NEW w \in Workers, Take(w)
  PROVE  /\ ~Busy(w) /\ queue # <<>> /\ queue' = Tail(queue) /\ Head(queue) \in Ops
         /\ \E t \in Tasks :
              /\ worker' = [worker EXCEPT ![w] = t]
              /\ t.op = Head(queue)
              /\ t.todo = IF Head(queue).type = "write" THEN Head(queue).arrays ELSE <<>>
<1>1. /\ worker[w] = Idle /\ queue # <<>> /\ queue' = Tail(queue) /\ queue \in Seq(Ops)
  BY DEF Take, TypeOK
<1>2. Head(queue) \in Ops
  BY <1>1, HeadTailProperties
<1> DEFINE op == Head(queue)
           todo == IF op.type = "write" THEN op.arrays ELSE <<>>
           start == IF op.type = "write" /\ record[op.arrays[1].var] >= 0 THEN 0 ELSE NoFrame
           t == [op |-> op, todo |-> todo, start |-> start]
<1>3. todo \in Seq(Arrays)
  BY <1>2, OpKinds, EmptySeq
<1>4. start \in AnyFrame \cup {0}
  BY DEF AnyFrame
<1>5. worker' = [worker EXCEPT ![w] = t]
  BY DEF Take
<1>6. t \in Tasks
  <2> HIDE DEF op, todo, start
  <2>1. op \in Ops
    BY <1>2 DEF op
  <2>2. QED
    BY <1>3, <1>4, <2>1 DEF Tasks
<1>7. QED
  BY <1>1, <1>2, <1>5, <1>6 DEF Busy

\* The task of a thread that has written one array.
LEMMA WriteTask ==
  ASSUME TypeOK, NEW w \in Workers, WriteArray(w)
  PROVE  /\ Busy(w) /\ Head(worker[w].todo) \in Arrays
         /\ \E t \in Tasks : /\ worker' = [worker EXCEPT ![w] = t]
                             /\ t.op = worker[w].op /\ t.todo = Tail(worker[w].todo)
         /\ \E s \in AnyFrame \cup {0} :
              landed' = landed \cup {[array |-> Head(worker[w].todo), at |-> s]}
<1>1. Busy(w) /\ worker[w].todo # <<>>
  BY DEF WriteArray, Doing
<1>2. /\ worker[w] \in Tasks /\ worker[w].op \in Ops
      /\ worker[w].todo \in Seq(Arrays) /\ worker[w].start \in AnyFrame \cup {0}
  BY <1>1, TaskOp
<1>3. Head(worker[w].todo) \in Arrays /\ Tail(worker[w].todo) \in Seq(Arrays)
  BY <1>1, <1>2, HeadTailProperties
<1> DEFINE a == Head(worker[w].todo)
           start == IF record[a.var] > 0 THEN a.frame ELSE worker[w].start
           t == [worker[w] EXCEPT !.todo = Tail(worker[w].todo), !.start = start]
<1>4. start \in AnyFrame \cup {0}
  <2>1. a.frame \in AnyFrame
    BY <1>3 DEF Arrays
  <2>2. QED
    BY <1>2, <2>1
<1>5. t \in Tasks /\ t.op = worker[w].op /\ t.todo = Tail(worker[w].todo)
  <2> HIDE DEF start
  <2>1. worker[w] \in [op: Ops, todo: Seq(Arrays), start: AnyFrame \cup {0}]
    BY <1>2 DEF Tasks
  <2>2. t \in [op: Ops, todo: Seq(Arrays), start: AnyFrame \cup {0}]
    BY <1>3, <1>4, <2>1
  <2>3. t.op = worker[w].op /\ t.todo = Tail(worker[w].todo)
    BY <2>1
  <2>4. QED
    BY <2>2, <2>3 DEF Tasks
<1>6. /\ worker' = [worker EXCEPT ![w] = t]
      /\ landed' = landed \cup {[array |-> a, at |-> start]}
  BY Zenon DEF WriteArray
<1>7. QED
  <2> HIDE DEF start, t
  <2>1. QED
    BY <1>1, <1>3, <1>4, <1>5, <1>6

LEMMA WorkerExact ==
  ASSUME FileInv, NEW w \in Workers, Worker(w)
  PROVE  Exact'
<1> USE DEF FileInv
<1>1. nasync \in [Decomps -> Nat] /\ npend \in Nat /\ nglobal \in Nat
  BY DEF TypeOK
<1>2. Busy(w) => /\ worker[w].op \in Ops
                 /\ worker[w].op.type = "close" => worker[w].op = CloseOp
                 /\ worker[w].op.type = "write" => worker[w].op.ioid \in Decomps
                 /\ One(worker[w].op, NonClose) = IF worker[w].op.type = "close" THEN 0 ELSE 1
                 /\ \A d \in Decomps : One(worker[w].op, WritesWith(d))
                      = IF worker[w].op.type = "write" /\ worker[w].op.ioid = d THEN 1 ELSE 0
  BY TaskOp, OpKinds, OneOf
<1>3. CASE Take(w)
  <2>1. PICK t \in Tasks : worker' = [worker EXCEPT ![w] = t] /\ t.op = Head(queue)
    BY <1>3, TakeTask
  <2>2. ~Busy(w) /\ queue # <<>> /\ queue' = Tail(queue) /\ UNCHANGED failed
    BY <1>3, TakeTask DEF Take
  <2>3. \A S : Count(S)' = Count(S)
    BY <2>1, <2>2, CountTaken
  <2>4. QED
    BY <1>3, <2>3, ExactSame DEF Take
<1>4. CASE WriteArray(w)
  <2>1. PICK t \in Tasks : worker' = [worker EXCEPT ![w] = t] /\ t.op = worker[w].op
    BY <1>4, WriteTask
  <2>2. Busy(w) /\ UNCHANGED <<queue, failed>>
    BY <1>4, WriteTask DEF WriteArray
  <2>3. \A S : Count(S)' = Count(S)
    BY <2>1, <2>2, CountGoesOn
  <2>4. QED
    BY <1>4, <2>3, ExactSame DEF WriteArray
<1>5. CASE WriteDone(w)
  <2>1. /\ Busy(w) /\ worker[w].op.type = "write" /\ worker' = [worker EXCEPT ![w] = Idle]
        /\ UNCHANGED <<queue, failed>> /\ nglobal' = nglobal - 1 /\ npend' = npend - 1
        /\ nasync' = [nasync EXCEPT ![worker[w].op.ioid] = @ - 1]
    BY <1>5 DEF WriteDone, Doing
  <2>2. \A d \in Decomps :
          nasync'[d] = IF worker[w].op.ioid = d THEN nasync[d] - 1 ELSE nasync[d]
    BY <1>1, <1>2, <2>1
  <2>3. \A d \in Decomps : nasync'[d] = nasync[d] - One(worker[w].op, WritesWith(d))
    BY <1>1, <1>2, <2>1, <2>2
  <2>4. QED
    BY <1>2, <2>1, <2>3, ExactDone
<1>6. CASE WriteFails(w)
  <2>1. /\ Busy(w) /\ worker' = [worker EXCEPT ![w] = Dead]
        /\ failed' = Append(failed, worker[w].op) /\ UNCHANGED queue
    BY <1>6 DEF WriteFails, Doing
  <2>2. \A S : Count(S)' = Count(S)
    BY <1>2, <2>1, CountFailed
  <2>3. QED
    BY <1>6, <2>2, ExactSame DEF WriteFails
<1>7. CASE RunSetFrame(w) \/ RunMeta(w)
  <2>1. /\ Busy(w) /\ worker[w].op.type \in {"frame", "meta"}
        /\ worker' = [worker EXCEPT ![w] = Idle]
        /\ UNCHANGED <<queue, failed, nasync>> /\ nglobal' = nglobal - 1 /\ npend' = npend - 1
    BY <1>7 DEF RunSetFrame, RunMeta, Doing
  <2>2. \A d \in Decomps : nasync'[d] = nasync[d] - One(worker[w].op, WritesWith(d))
    BY <1>1, <1>2, <2>1
  <2>3. QED
    BY <1>2, <2>1, <2>2, ExactDone
<1>8. CASE Close(w) /\ npend = 0
  <2>1. /\ Busy(w) /\ worker[w].op.type = "close" /\ worker' = [worker EXCEPT ![w] = Idle]
        /\ UNCHANGED <<queue, failed, nasync, npend>> /\ nglobal' = nglobal - 1
    BY <1>8 DEF Close, Doing
  <2>2. \A d \in Decomps : nasync'[d] = nasync[d] - One(worker[w].op, WritesWith(d))
    BY <1>1, <1>2, <2>1
  <2>3. npend' = npend - One(worker[w].op, NonClose)
    BY <1>1, <1>2, <2>1
  <2>4. QED
    BY <2>1, <2>2, <2>3, ExactDone
<1>9. CASE Close(w) /\ npend # 0
  <2>1. /\ Busy(w) /\ worker[w].op.type = "close" /\ worker' = [worker EXCEPT ![w] = Idle]
        /\ queue' = Append(queue, CloseOp) /\ UNCHANGED <<failed, nasync, npend>>
    BY <1>9 DEF Close, Doing
  <2>2. UNCHANGED nglobal
    BY <1>1, <1>9 DEF Close
  <2>3. \A S : Count(S)' = Count(S)
    BY <1>2, <2>1, CountPutBack
  <2>4. QED
    BY <2>1, <2>2, <2>3, ExactSame
<1>10. QED
  BY <1>3, <1>4, <1>5, <1>6, <1>7, <1>8, <1>9 DEF Worker

LEMMA NextExact ==
  ASSUME FileInv, [Next]_vars
  PROVE  Exact'
<1>1. CASE UNCHANGED vars
  BY <1>1, CountUnchanged DEF FileInv, Exact, vars
<1>2. QED
  BY <1>1, CallExact, WorkerExact DEF Next

-----------------------------------------------------------------------------
(* The types                                                               *)

LEMMA InitInv == Init => FileInv
<1> SUFFICES ASSUME Init PROVE FileInv
  OBVIOUS
<1>1. <<>> \in Seq(Ops) /\ <<>> \in Seq(Arrays)
  BY EmptySeq
<1>2. TypeOK
  <2>1. NoFrame \in AnyFrame /\ {MaxFiles, MaxWrites, MaxMeta} \subseteq Nat
    BY AsyncFileAssumption DEF AnyFrame
  <2>2. record \in [Vars -> AnyFrame] /\ want \in [Vars -> AnyFrame]
    BY <2>1 DEF Init
  <2>3. cache \in [Wmbs -> Seq(Arrays)] /\ queue \in Seq(Ops) /\ failed \in Seq(Ops)
    BY <1>1 DEF Init
  <2>4. nasync \in [Decomps -> Nat] /\ worker \in [Workers -> Tasks \cup {Idle, Dead}]
    BY DEF Init
  <2>5. nfiles \in 0..MaxFiles /\ nwrites \in 0..MaxWrites /\ nmeta \in 0..MaxMeta
    BY <2>1 DEF Init
  <2>6. QED
    BY <2>2, <2>3, <2>4, <2>5 DEF Init, TypeOK
<1>3. ASSUME NEW S PROVE Count(S) = 0
  <2>1. Places(queue, S) = {} /\ Places(failed, S) = {} /\ Threads(S) = {}
    BY DEF Init, Places, Threads, Busy
  <2>2. QED
    BY <1>2, <2>1, CountZero
<1>4. Exact
  BY <1>3 DEF Init, Exact
<1>5. Lifecycle
  BY <1>3 DEF Init, Lifecycle
<1>6. QED
  BY <1>2, <1>4, <1>5 DEF FileInv

LEMMA FlushTypes ==
  ASSUME TypeOK, NEW k \in Wmbs, Flush(k)
  PROVE  /\ npend' \in Nat /\ nglobal' \in Nat /\ nasync' \in [Decomps -> Nat]
         /\ queue' \in Seq(Ops)
<1>1. /\ npend \in Nat /\ nglobal \in Nat /\ nasync \in [Decomps -> Nat] /\ queue \in Seq(Ops)
      /\ k.ioid \in Decomps /\ cache[k] \in Seq(Arrays)
  BY DEF TypeOK, Wmbs
<1>2. WriteOp(k.ioid, cache[k]) \in Ops
  BY <1>1, KindsOfOps
<1>3. /\ npend' = npend + 1 /\ nglobal' = nglobal + 1
      /\ nasync' = [nasync EXCEPT ![k.ioid] = @ + 1]
      /\ queue' = Append(queue, WriteOp(k.ioid, cache[k]))
  BY DEF Flush
<1>4. nasync' \in [Decomps -> Nat]
  BY <1>1, <1>3
<1>5. QED
  BY <1>1, <1>2, <1>3, <1>4, AppendProperties

LEMMA WriteDarrayTypes ==
  ASSUME TypeOK, NEW v \in Vars, NEW full \in BOOLEAN, WriteDarray(v, full)
  PROVE  TypeOK'
<1> DEFINE k == [ioid |-> DecompOf[v], rec |-> record[v] >= 0]
           a == [var |-> v, frame |-> record[v], want |-> want[v], ver |-> nwrites + 1]
<1>1. record[v] \in AnyFrame /\ want[v] \in AnyFrame /\ nwrites \in Nat
  <2>1. record \in [Vars -> AnyFrame] /\ want \in [Vars -> AnyFrame] /\ nwrites \in 0..MaxWrites
    BY DEF TypeOK
  <2>2. QED
    BY <2>1, AsyncFileAssumption
<1>2. a \in Arrays
  BY <1>1 DEF Arrays
<1>3. k \in Wmbs
  BY AsyncFileAssumption DEF Wmbs
<1>4. /\ accepted' = accepted \cup {a} /\ nwrites' = nwrites + 1 /\ nwrites < MaxWrites
      /\ \/ Flush(k) /\ cache' = [cache EXCEPT ![k] = <<a>>]
         \/ /\ cache' = [cache EXCEPT ![k] = Append(@, a)]
            /\ UNCHANGED <<npend, nglobal, nasync, queue>>
      /\ UNCHANGED <<main, file, hard, record, listed, worker, failed, want, nfiles,
                     nmeta, landed>>
  BY DEF WriteDarray
<1> HIDE DEF k, a
<1>5. cache \in [Wmbs -> Seq(Arrays)] /\ accepted \subseteq Arrays
  BY DEF TypeOK
<1>6. /\ npend' \in Nat /\ nglobal' \in Nat /\ nasync' \in [Decomps -> Nat]
      /\ queue' \in Seq(Ops)
  <2>1. CASE Flush(k)
    BY <1>3, <2>1, FlushTypes
  <2>2. CASE UNCHANGED <<npend, nglobal, nasync, queue>>
    BY <2>2 DEF TypeOK
  <2>3. QED
    BY <1>4, <2>1, <2>2
<1>7. cache' \in [Wmbs -> Seq(Arrays)]
  <2>1. <<a>> \in Seq(Arrays) /\ Append(cache[k], a) \in Seq(Arrays)
    BY <1>2, <1>3, <1>5, AppendProperties
  <2>2. QED
    BY <1>3, <1>4, <1>5, <2>1
<1>8. accepted' \subseteq Arrays
  BY <1>2, <1>4, <1>5
<1>9. nwrites' \in 0..MaxWrites
  BY <1>1, <1>4, AsyncFileAssumption
<1>10. QED
  BY <1>4, <1>6, <1>7, <1>8, <1>9 DEF TypeOK

LEMMA CallTypeOK ==
  ASSUME TypeOK, User \/ Call \/ GiveUp
  PROVE  TypeOK'
<1>0. queue \in Seq(Ops) /\ nglobal \in Nat
  BY DEF TypeOK
<1>1. CASE CreateReturns
  <2>1. Append(queue, MetaOp) \in Seq(Ops) /\ nglobal + 1 \in Nat
    BY <1>0, KindsOfOps, AppendProperties
  <2>2. [v \in Vars |-> NoFrame] \in [Vars -> AnyFrame]
    BY DEF AnyFrame
  <2>3. QED
    BY <1>1, <2>1, <2>2 DEF CreateReturns, NewFile, TypeOK, bounded
<1>2. CASE Meta
  <2>1. /\ Append(queue, MetaOp) \in Seq(Ops) /\ npend + 1 \in Nat /\ nglobal + 1 \in Nat
        /\ nmeta + 1 \in 0..MaxMeta
    BY <1>2, KindsOfOps, AppendProperties, AsyncFileAssumption DEF TypeOK, Meta
  <2>2. QED
    BY <1>2, <2>1 DEF Meta, TypeOK
<1>3. ASSUME NEW v \in Vars, NEW f \in Frames, SetFrame(v, f) PROVE TypeOK'
  <2>1. /\ Append(queue, FrameOp(v, f)) \in Seq(Ops) /\ npend + 1 \in Nat /\ nglobal + 1 \in Nat
        /\ nmeta + 1 \in 0..MaxMeta
    BY <1>3, KindsOfOps, AppendProperties, AsyncFileAssumption DEF TypeOK, SetFrame
  <2>2. [record EXCEPT ![v] = f] \in [Vars -> AnyFrame]
        /\ [want EXCEPT ![v] = f] \in [Vars -> AnyFrame]
    BY DEF TypeOK, AnyFrame
  <2>3. QED
    BY <1>3, <2>1, <2>2 DEF SetFrame, TypeOK
<1>4. ASSUME NEW v \in Vars, NEW full \in BOOLEAN, WriteDarray(v, full) PROVE TypeOK'
  BY <1>4, WriteDarrayTypes
<1>5. ASSUME NEW k \in Wmbs, SyncWmb(k) PROVE TypeOK'
  <2>1. /\ npend' \in Nat /\ nglobal' \in Nat /\ nasync' \in [Decomps -> Nat]
        /\ queue' \in Seq(Ops)
    BY <1>5, FlushTypes DEF SyncWmb
  <2>2. cache' \in [Wmbs -> Seq(Arrays)]
    <3>1. <<>> \in Seq(Arrays) /\ cache \in [Wmbs -> Seq(Arrays)]
      BY EmptySeq DEF TypeOK
    <3>2. QED
      BY <1>5, <3>1 DEF SyncWmb
  <2>3. QED
    BY <1>5, <2>1, <2>2 DEF SyncWmb, TypeOK, bounded
<1>6. CASE SyncReturns
  <2>1. Append(queue, CloseOp) \in Seq(Ops) /\ nglobal + 1 \in Nat
    BY <1>0, KindsOfOps, AppendProperties
  <2>2. QED
    BY <1>6, <2>1 DEF SyncReturns, TypeOK, bounded
<1>7. CASE CreateFile
  <2>1. nfiles + 1 \in 0..MaxFiles
    BY <1>7, AsyncFileAssumption DEF CreateFile, TypeOK
  <2>2. QED
    BY <1>7, <2>1 DEF CreateFile, TypeOK
<1>8. CASE GiveUp \/ OtherFile \/ Finalize \/ Drained \/ FinalizeReturns
  BY <1>8 DEF GiveUp, OtherFile, Finalize, Drained, FinalizeReturns, TypeOK, bounded
<1>9. CASE RevisitReturns \/ FilesClosed
  BY <1>9 DEF RevisitReturns, FilesClosed, TypeOK, bounded
<1>10. ASSUME NEW call \in {"sync", "close"}, CallSync(call) PROVE TypeOK'
  BY <1>10 DEF CallSync, TypeOK, bounded
<1>11. ASSUME NEW call \in {"opening", "deleting"}, Revisit(call) PROVE TypeOK'
  BY <1>11 DEF Revisit, TypeOK, bounded
<1>12. ASSUME NEW d \in Decomps, FreeDecomp(d) \/ DeleteDecomp(d) PROVE TypeOK'
  BY <1>12 DEF FreeDecomp, DeleteDecomp, TypeOK, bounded
<1>13. QED
  BY <1>1, <1>2, <1>3, <1>4, <1>5, <1>6, <1>7, <1>8, <1>9, <1>10, <1>11, <1>12 DEF User, Call

\* An operation that is done was counted: no counter falls below 0.
LEMMA CountsPositive ==
  ASSUME FileInv, NEW w \in Workers, Busy(w)
  PROVE  /\ nglobal - 1 \in Nat
         /\ worker[w].op.type # "close" => npend - 1 \in Nat
         /\ worker[w].op.type = "write" =>
              nasync[worker[w].op.ioid] - 1 \in Nat
<1> USE DEF FileInv
<1>1. worker[w].op \in Ops /\ (worker[w].op.type = "write" => worker[w].op.ioid \in Decomps)
  BY TaskOp, OpKinds
<1>2. /\ npend \in Nat /\ nglobal \in Nat
      /\ \A d \in Decomps : nasync[d] \in Nat
  BY DEF TypeOK
<1>3. nglobal # 0
  BY <1>1, CountBusy DEF Exact
<1>4. worker[w].op.type # "close" => npend # 0
  <2>1. worker[w].op.type # "close" => worker[w].op \in NonClose
    BY <1>1 DEF NonClose
  <2>2. QED
    BY <2>1, CountBusy DEF Exact
<1>5. worker[w].op.type = "write" => nasync[worker[w].op.ioid] # 0
  <2>1. worker[w].op.type = "write" => worker[w].op \in WritesWith(worker[w].op.ioid)
    BY <1>1 DEF WritesWith
  <2>2. QED
    BY <1>1, <2>1, CountBusy DEF Exact
<1>6. QED
  BY <1>1, <1>2, <1>3, <1>4, <1>5

LEMMA WorkerTypeOK ==
  ASSUME FileInv, NEW w \in Workers, Worker(w)
  PROVE  TypeOK'
<1>1. TypeOK
  BY DEF FileInv
<1>2. worker \in [Workers -> Tasks \cup {Idle, Dead}] /\ npend \in Nat /\ nglobal \in Nat
      /\ nasync \in [Decomps -> Nat] /\ queue \in Seq(Ops) /\ failed \in Seq(Ops)
  BY <1>1 DEF TypeOK
<1>3. /\ [worker EXCEPT ![w] = Idle] \in [Workers -> Tasks \cup {Idle, Dead}]
      /\ [worker EXCEPT ![w] = Dead] \in [Workers -> Tasks \cup {Idle, Dead}]
      /\ \A t \in Tasks : [worker EXCEPT ![w] = t] \in [Workers -> Tasks \cup {Idle, Dead}]
  BY <1>2
<1>4. CASE Take(w)
  <2>1. queue' \in Seq(Ops)
    <3>1. queue # <<>> /\ queue' = Tail(queue)
      BY <1>1, <1>4, TakeTask
    <3>2. QED
      BY <1>2, <3>1, HeadTailProperties
  <2>2. worker' \in [Workers -> Tasks \cup {Idle, Dead}]
    BY <1>1, <1>3, <1>4, TakeTask
  <2>3. UNCHANGED <<main, file, hard, npend, nglobal, record, cache, listed, nasync, failed,
                    want, bounded, accepted, landed>>
    BY <1>4 DEF Take
  <2>4. QED
    BY <1>1, <2>1, <2>2, <2>3 DEF TypeOK, bounded
<1>5. CASE WriteArray(w)
  <2>1. worker' \in [Workers -> Tasks \cup {Idle, Dead}]
    BY <1>1, <1>3, <1>5, WriteTask
  <2>2. landed' \subseteq [array: Arrays, at: AnyFrame \cup {0}]
    <3>1. PICK s \in AnyFrame \cup {0} :
            landed' = landed \cup {[array |-> Head(worker[w].todo), at |-> s]}
      BY <1>1, <1>5, WriteTask
    <3>2. Head(worker[w].todo) \in Arrays
      BY <1>1, <1>5, WriteTask
    <3>3. landed \subseteq [array: Arrays, at: AnyFrame \cup {0}]
      BY <1>1 DEF TypeOK
    <3>4. QED
      BY <3>1, <3>2, <3>3
  <2>3. UNCHANGED <<main, file, hard, npend, nglobal, record, cache, listed, nasync, queue,
                    failed, want, bounded, accepted>>
    BY <1>5 DEF WriteArray
  <2>4. QED
    BY <1>1, <2>1, <2>2, <2>3 DEF TypeOK, bounded
<1>6. CASE WriteDone(w)
  <2>1. /\ Busy(w) /\ worker[w].op.type = "write" /\ worker' = [worker EXCEPT ![w] = Idle]
        /\ nglobal' = nglobal - 1 /\ npend' = npend - 1
        /\ nasync' = [nasync EXCEPT ![worker[w].op.ioid] = @ - 1]
        /\ UNCHANGED <<main, file, hard, record, cache, listed, queue, failed, want,
                       bounded, accepted, landed>>
    BY <1>6 DEF WriteDone, Doing
  <2>2. nglobal - 1 \in Nat /\ npend - 1 \in Nat /\ nasync[worker[w].op.ioid] - 1 \in Nat
    BY <2>1, CountsPositive
  <2>3. nasync' \in [Decomps -> Nat]
    BY <1>2, <2>1, <2>2
  <2>4. QED
    BY <1>1, <1>3, <2>1, <2>2, <2>3 DEF TypeOK, bounded
<1>7. CASE WriteFails(w)
  <2>1. /\ Busy(w) /\ worker' = [worker EXCEPT ![w] = Dead]
        /\ failed' = Append(failed, worker[w].op)
        /\ UNCHANGED <<main, file, hard, npend, nglobal, record, cache, listed, nasync, queue,
                       want, bounded, accepted, landed>>
    BY <1>7 DEF WriteFails, Doing
  <2>2. failed' \in Seq(Ops)
    BY <1>1, <1>2, <2>1, TaskOp, AppendProperties
  <2>3. QED
    BY <1>1, <1>3, <2>1, <2>2 DEF TypeOK, bounded
<1>8. CASE RunSetFrame(w)
  <2>1. /\ Busy(w) /\ worker[w].op.type = "frame" /\ worker' = [worker EXCEPT ![w] = Idle]
        /\ nglobal' = nglobal - 1 /\ npend' = npend - 1
        /\ record' = [record EXCEPT ![worker[w].op.var] = worker[w].op.frame]
        /\ UNCHANGED <<main, file, hard, cache, listed, nasync, queue, failed, want,
                       bounded, accepted, landed>>
    BY <1>8 DEF RunSetFrame, Doing
  <2>2. nglobal - 1 \in Nat /\ npend - 1 \in Nat
    BY <2>1, CountsPositive
  <2>3. worker[w].op.var \in Vars /\ worker[w].op.frame \in Frames
    BY <1>1, <2>1, TaskOp, OpKinds
  <2>4. record' \in [Vars -> AnyFrame]
    BY <1>1, <2>1, <2>3 DEF TypeOK, AnyFrame
  <2>5. QED
    BY <1>1, <1>3, <2>1, <2>2, <2>4 DEF TypeOK, bounded
<1>9. CASE RunMeta(w)
  <2>1. /\ Busy(w) /\ worker[w].op.type = "meta" /\ worker' = [worker EXCEPT ![w] = Idle]
        /\ nglobal' = nglobal - 1 /\ npend' = npend - 1
        /\ UNCHANGED <<main, file, hard, record, cache, listed, nasync, queue, failed,
                       want, bounded, accepted, landed>>
    BY <1>9 DEF RunMeta, Doing
  <2>2. nglobal - 1 \in Nat /\ npend - 1 \in Nat
    BY <2>1, CountsPositive
  <2>3. QED
    BY <1>1, <1>3, <2>1, <2>2 DEF TypeOK, bounded
<1>10. CASE Close(w)
  <2>1. Busy(w) /\ worker' = [worker EXCEPT ![w] = Idle]
        /\ UNCHANGED <<main, file, npend, record, cache, listed, nasync, failed, want,
                       bounded, accepted, landed>>
    BY <1>10 DEF Close, Doing
  <2>2. hard' \in BOOLEAN
    BY <1>1, <1>10 DEF Close, TypeOK
  <2>3. nglobal' \in Nat
    <3>1. nglobal - 1 \in Nat /\ (nglobal + 1) - 1 \in Nat
      BY <1>2, <2>1, CountsPositive
    <3>2. QED
      BY <1>10, <3>1 DEF Close
  <2>4. queue' \in Seq(Ops)
    <3>1. Append(queue, CloseOp) \in Seq(Ops)
      BY <1>2, KindsOfOps, AppendProperties
    <3>2. QED
      BY <1>2, <1>10, <3>1 DEF Close
  <2>5. QED
    BY <1>1, <1>3, <2>1, <2>2, <2>3, <2>4 DEF TypeOK, bounded
<1>11. QED
  BY <1>4, <1>5, <1>6, <1>7, <1>8, <1>9, <1>10 DEF Worker

LEMMA NextTypeOK ==
  ASSUME FileInv, [Next]_vars
  PROVE  TypeOK'
<1>1. CASE UNCHANGED vars
  BY <1>1 DEF FileInv, TypeOK, vars, bounded
<1>2. QED
  BY <1>1, CallTypeOK, WorkerTypeOK DEF Next, FileInv

-----------------------------------------------------------------------------
(* The life of the file structure                                          *)

LEMMA DisjointUnion ==
  ASSUME NEW A, NEW B, IsFiniteSet(A), IsFiniteSet(B), A \cap B = {}
  PROVE  Cardinality(A \cup B) = Cardinality(A) + Cardinality(B)
<1>1. Cardinality(A \cup B) = Cardinality(A) + Cardinality(B) - Cardinality(A \cap B)
  BY FS_Union
<1>2. Cardinality(A \cap B) = 0
  BY FS_EmptySet, Zenon
<1>3. Cardinality(A) \in Nat /\ Cardinality(B) \in Nat
  BY FS_CardinalityType
<1>4. QED
  BY <1>1, <1>2, <1>3

LEMMA PlacesSplit ==
  ASSUME NEW q \in Seq(Ops)
  PROVE  Cardinality(Places(q, Ops))
           = Cardinality(Places(q, NonClose)) + Cardinality(Places(q, {CloseOp}))
<1>1. \A n \in DOMAIN q : q[n] \in Ops
  BY LenProperties
<1>2. \A n \in DOMAIN q : q[n] \in NonClose <=> q[n] \notin {CloseOp}
  BY <1>1, OpKinds, KindsOfOps DEF NonClose
<1>3. /\ Places(q, Ops) = Places(q, NonClose) \cup Places(q, {CloseOp})
      /\ Places(q, NonClose) \cap Places(q, {CloseOp}) = {}
  BY <1>1, <1>2 DEF Places
<1>4. QED
  BY <1>3, PlacesFinite, DisjointUnion

LEMMA ThreadsSplit ==
  ASSUME TypeOK
  PROVE  Cardinality(Threads(Ops)) = Cardinality(Threads(NonClose)) + Cardinality(Threads({CloseOp}))
<1>1. \A w \in Workers : Busy(w) => worker[w].op \in Ops
  BY TaskOp
<1>2. \A w \in Workers : Busy(w) => (worker[w].op \in NonClose <=> worker[w].op \notin {CloseOp})
  BY <1>1, OpKinds, KindsOfOps DEF NonClose
<1>3. /\ Threads(Ops) = Threads(NonClose) \cup Threads({CloseOp})
      /\ Threads(NonClose) \cap Threads({CloseOp}) = {}
  BY <1>1, <1>2 DEF Threads
<1>4. QED
  BY <1>3, ThreadsFinite, DisjointUnion

\* An operation is a close or it is not.
LEMMA CountSplit ==
  ASSUME TypeOK
  PROVE  Count(Ops) = Count(NonClose) + Count({CloseOp})
<1>1. queue \in Seq(Ops) /\ failed \in Seq(Ops)
  BY DEF TypeOK
<1>2. \A S : /\ Cardinality(Places(queue, S)) \in Nat /\ Cardinality(Places(failed, S)) \in Nat
             /\ Cardinality(Threads(S)) \in Nat
  BY <1>1, PlacesFinite, ThreadsFinite
<1>3. \A a, b, c, d, e, f \in Nat : (a + b) + (c + d) + (e + f) = (a + c + e) + (b + d + f)
  OBVIOUS
<1>4. /\ Cardinality(Places(queue, Ops))
           = Cardinality(Places(queue, NonClose)) + Cardinality(Places(queue, {CloseOp}))
      /\ Cardinality(Places(failed, Ops))
           = Cardinality(Places(failed, NonClose)) + Cardinality(Places(failed, {CloseOp}))
      /\ Cardinality(Threads(Ops))
           = Cardinality(Threads(NonClose)) + Cardinality(Threads({CloseOp}))
  BY <1>1, PlacesSplit, ThreadsSplit
<1>5. QED
  BY <1>2, <1>3, <1>4 DEF Count

\* A step that changes neither the structure nor the number of operations of any kind.
LEMMA LifecycleSame ==
  ASSUME Lifecycle, \A S : Count(S)' = Count(S), UNCHANGED <<file, hard, cache>>,
         main' \in {"sync", "close"} => file = "open",
         main' \in {"creating", "opening", "deleting", "files"} => file # "open"
  PROVE  Lifecycle'
<1>1. /\ Count({CloseOp})' = Count({CloseOp}) /\ Count(Ops)' = Count(Ops)
  OBVIOUS
<1>2. QED
  BY <1>1 DEF Lifecycle

\* An open file gets an operation that is not a close.
LEMMA LifecycleQueued ==
  ASSUME TypeOK, Lifecycle, file = "open", NEW o \in Ops, o.type # "close",
         queue' = Append(queue, o), UNCHANGED <<main, file, hard, worker, failed>>
  PROVE  Lifecycle'
<1>1. One(o, {CloseOp}) = 0
  BY OneOf
<1>2. Count({CloseOp})' = Count({CloseOp}) + 0
  BY <1>1, CountQueued
<1>3. Count({CloseOp}) = 0 /\ ~hard
  BY DEF Lifecycle
<1>4. QED
  BY <1>2, <1>3 DEF Lifecycle

LEMMA CallLifecycle ==
  ASSUME FileInv, User \/ Call \/ GiveUp
  PROVE  Lifecycle'
<1> USE DEF FileInv
<1>1. ASSUME NEW k \in Wmbs, Flush(k)
      PROVE  WriteOp(k.ioid, cache[k]) \in Ops /\ WriteOp(k.ioid, cache[k]).type # "close"
             /\ queue' = Append(queue, WriteOp(k.ioid, cache[k]))
  <2>1. k.ioid \in Decomps /\ cache[k] \in Seq(Arrays)
    BY DEF Wmbs, TypeOK
  <2>2. QED
    BY <1>1, <2>1, KindsOfOps DEF Flush
<1>2. CASE CreateReturns
  <2>1. Count(Ops) = 0
    BY <1>2 DEF CreateReturns, Closed, Lifecycle
  <2>2. Count({CloseOp}) = 0
    BY <2>1, KindsOfOps, CountSubset
  <2>3. One(MetaOp, {CloseOp}) = 0
    BY KindsOfOps, OneOf
  <2>4. queue' = Append(queue, MetaOp) /\ UNCHANGED <<worker, failed>>
    BY <1>2 DEF CreateReturns, NewFile
  <2>5. Count({CloseOp})' = Count({CloseOp}) + One(MetaOp, {CloseOp})
    BY <2>4, KindsOfOps, CountQueued
  <2>6. Count({CloseOp})' = 0
    BY <2>2, <2>3, <2>5
  <2>7. main' = "user" /\ file' = "open" /\ hard' = FALSE
    BY <1>2 DEF CreateReturns, NewFile
  <2>8. QED
    BY <2>6, <2>7 DEF Lifecycle
<1>3. CASE Meta
  BY <1>3, KindsOfOps, LifecycleQueued DEF Meta
<1>4. ASSUME NEW v \in Vars, NEW f \in Frames, SetFrame(v, f) PROVE Lifecycle'
  BY <1>4, KindsOfOps, LifecycleQueued DEF SetFrame
<1>5. ASSUME NEW v \in Vars, NEW full \in BOOLEAN, WriteDarray(v, full) PROVE Lifecycle'
  <2> DEFINE k == [ioid |-> DecompOf[v], rec |-> record[v] >= 0]
  <2>1. file = "open" /\ UNCHANGED <<main, file, hard, worker, failed>>
    BY <1>5 DEF WriteDarray
  <2>2. Flush(k) \/ UNCHANGED queue
    BY <1>5 DEF WriteDarray
  <2>3. k \in Wmbs
    BY AsyncFileAssumption DEF Wmbs
  <2>4. CASE Flush(k)
    <3> HIDE DEF k
    <3>1. QED
      BY <1>1, <2>1, <2>3, <2>4, LifecycleQueued
  <2>5. CASE UNCHANGED queue
    <3>1. \A S : Count(S)' = Count(S)
      BY <2>1, <2>5, CountUnchanged
    <3>2. QED
      BY <2>1, <3>1 DEF Lifecycle
  <2>6. QED
    BY <2>2, <2>4, <2>5
<1>6. ASSUME NEW k \in Wmbs, SyncWmb(k) PROVE Lifecycle'
  <2>1. file = "open" /\ Flush(k) /\ UNCHANGED <<main, file, hard, worker, failed>>
    BY <1>6 DEF SyncWmb, Lifecycle
  <2>2. QED
    BY <1>1, <2>1, LifecycleQueued
<1>7. CASE SyncReturns /\ main = "sync"
  <2>1. /\ main' = "user" /\ UNCHANGED <<file, queue, hard, cache, worker, failed>>
    BY <1>7 DEF SyncReturns
  <2>2. \A S : Count(S)' = Count(S)
    BY <2>1, CountUnchanged
  <2>3. QED
    BY <2>1, <2>2, LifecycleSame
<1>8. CASE SyncReturns /\ main = "close"
  <2>1. /\ main' = "user" /\ file' = "closing" /\ queue' = Append(queue, CloseOp)
        /\ UNCHANGED <<hard, cache, worker, failed>> /\ \A k \in Wmbs : cache[k] = <<>>
    BY <1>8 DEF SyncReturns
  <2>2. Count({CloseOp}) = 0 /\ ~hard
    BY <1>8 DEF Lifecycle
  <2>3. One(CloseOp, {CloseOp}) = 1
    BY KindsOfOps, OneOf
  <2>4. Count({CloseOp})' = Count({CloseOp}) + One(CloseOp, {CloseOp})
    BY <2>1, KindsOfOps, CountQueued
  <2>5. Count({CloseOp})' = 1
    BY <2>2, <2>3, <2>4
  <2>6. QED
    BY <2>1, <2>2, <2>5 DEF Lifecycle
<1>9. CASE RevisitReturns \/ FilesClosed
  <2>1. /\ Closed /\ main \in {"opening", "deleting", "files"}
        /\ main' \in {"draining", "user", "decomps"} /\ file' = "none"
        /\ UNCHANGED <<hard, cache, queue, worker, failed>>
    BY <1>9 DEF RevisitReturns, FilesClosed
  <2>2. Count(Ops) = 0
    BY <2>1 DEF Closed, Lifecycle
  <2>3. Count({CloseOp}) = 0
    BY <2>2, KindsOfOps, CountSubset
  <2>4. Count({CloseOp})' = 0 /\ Count(Ops)' = 0
    BY <2>1, <2>2, <2>3, CountUnchanged
  <2>5. \A k \in Wmbs : cache[k] = <<>>
    BY <2>1 DEF Lifecycle
  <2>6. QED
    BY <2>1, <2>4, <2>5 DEF Lifecycle
<1>10. CASE CreateFile \/ GiveUp \/ OtherFile \/ Finalize \/ Drained \/ FinalizeReturns
  <2>1. /\ UNCHANGED <<file, hard, cache, queue, worker, failed>>
        /\ main' \in {"creating", "gave up", "draining", "files", "user", "done"}
        /\ main' \in {"creating", "files"} => file # "open"
    BY <1>10 DEF CreateFile, GiveUp, OtherFile, Finalize, Drained, FinalizeReturns
  <2>2. \A S : Count(S)' = Count(S)
    BY <2>1, CountUnchanged
  <2>3. QED
    BY <2>1, <2>2, LifecycleSame
<1>11. ASSUME NEW call \in {"sync", "close"}, CallSync(call) PROVE Lifecycle'
  <2>1. UNCHANGED <<file, hard, cache, queue, worker, failed>> /\ main' = call /\ file = "open"
    BY <1>11 DEF CallSync
  <2>2. \A S : Count(S)' = Count(S)
    BY <2>1, CountUnchanged
  <2>3. QED
    BY <2>1, <2>2, LifecycleSame
<1>12. ASSUME NEW call \in {"opening", "deleting"}, Revisit(call) PROVE Lifecycle'
  <2>1. UNCHANGED <<file, hard, cache, queue, worker, failed>> /\ main' = call /\ file # "open"
    BY <1>12 DEF Revisit
  <2>2. \A S : Count(S)' = Count(S)
    BY <2>1, CountUnchanged
  <2>3. QED
    BY <2>1, <2>2, LifecycleSame
<1>13. ASSUME NEW d \in Decomps, FreeDecomp(d) \/ DeleteDecomp(d) PROVE Lifecycle'
  <2>1. UNCHANGED <<main, file, hard, cache, queue, worker, failed>>
    BY <1>13 DEF FreeDecomp, DeleteDecomp
  <2>2. \A S : Count(S)' = Count(S)
    BY <2>1, CountUnchanged
  <2>3. QED
    BY <2>1, <2>2, LifecycleSame DEF Lifecycle
<1>14. SyncReturns => main = "sync" \/ main = "close"
  BY DEF SyncReturns
<1>15. QED
  BY <1>2, <1>3, <1>4, <1>5, <1>6, <1>7, <1>8, <1>9, <1>10, <1>11, <1>12, <1>13, <1>14
     DEF User, Call

LEMMA WorkerLifecycle ==
  ASSUME FileInv, NEW w \in Workers, Worker(w)
  PROVE  Lifecycle'
<1> USE DEF FileInv
<1>1. UNCHANGED <<main, file, cache>>
  BY DEF Worker, Take, WriteArray, WriteDone, WriteFails, RunSetFrame, RunMeta, Close
<1>2. ASSUME \A S : Count(S)' = Count(S), UNCHANGED hard PROVE Lifecycle'
  BY <1>1, <1>2, LifecycleSame DEF Lifecycle
<1>3. CASE Take(w)
  <2>1. PICK t \in Tasks : worker' = [worker EXCEPT ![w] = t] /\ t.op = Head(queue)
    BY <1>3, TakeTask
  <2>2. ~Busy(w) /\ queue # <<>> /\ queue' = Tail(queue) /\ UNCHANGED <<hard, failed>>
    BY <1>3, TakeTask DEF Take
  <2>3. \A S : Count(S)' = Count(S)
    BY <2>1, <2>2, CountTaken
  <2>4. QED
    BY <1>2, <2>2, <2>3
<1>4. CASE WriteArray(w)
  <2>1. PICK t \in Tasks : worker' = [worker EXCEPT ![w] = t] /\ t.op = worker[w].op
    BY <1>4, WriteTask
  <2>2. Busy(w) /\ UNCHANGED <<hard, queue, failed>>
    BY <1>4, WriteTask DEF WriteArray
  <2>3. \A S : Count(S)' = Count(S)
    BY <2>1, <2>2, CountGoesOn
  <2>4. QED
    BY <1>2, <2>2, <2>3
<1>5. CASE WriteFails(w)
  <2>1. /\ Busy(w) /\ worker' = [worker EXCEPT ![w] = Dead]
        /\ failed' = Append(failed, worker[w].op) /\ UNCHANGED <<hard, queue>>
    BY <1>5 DEF WriteFails, Doing
  <2>2. \A S : Count(S)' = Count(S)
    BY <2>1, TaskOp, CountFailed
  <2>3. QED
    BY <1>2, <2>1, <2>2
<1>6. CASE WriteDone(w) \/ RunSetFrame(w) \/ RunMeta(w)
  <2>1. /\ Busy(w) /\ worker[w].op.type # "close" /\ worker' = [worker EXCEPT ![w] = Idle]
        /\ UNCHANGED <<hard, queue, failed>>
    BY <1>6 DEF WriteDone, RunSetFrame, RunMeta, Doing
  <2>2. worker[w].op \in Ops
    BY <2>1, TaskOp
  <2>3. file # "none" /\ ~hard
    BY <2>1, <2>2, CountBusy DEF Lifecycle
  <2>4. One(worker[w].op, {CloseOp}) = 0
    BY <2>1, <2>2, OneOf
  <2>5. /\ Count({CloseOp}) = Count({CloseOp})' + One(worker[w].op, {CloseOp})
        /\ Count({CloseOp})' \in Nat
    BY <2>1, CountDone
  <2>6. Count({CloseOp})' = Count({CloseOp})
    BY <2>4, <2>5
  <2>7. QED
    BY <1>1, <2>1, <2>3, <2>6 DEF Lifecycle
<1>7. CASE Close(w)
  <2>1. Busy(w) /\ worker[w].op.type = "close" /\ worker' = [worker EXCEPT ![w] = Idle]
        /\ UNCHANGED failed
    BY <1>7 DEF Close, Doing
  <2>2. worker[w].op \in Ops /\ worker[w].op = CloseOp
    BY <2>1, TaskOp, OpKinds
  <2>3. CASE npend # 0
    <3>1. queue' = Append(queue, CloseOp) /\ UNCHANGED hard
      BY <1>7, <2>3 DEF Close
    <3>2. \A S : Count(S)' = Count(S)
      BY <2>1, <2>2, <3>1, CountPutBack
    <3>3. QED
      BY <1>2, <3>1, <3>2
  <2>4. CASE npend = 0
    <3>1. UNCHANGED queue /\ hard' = TRUE
      BY <1>7, <2>4 DEF Close
    <3>2. Count({CloseOp}) # 0
      BY <2>1, <2>2, CountBusy
    <3>3. Count({CloseOp}) = 1 /\ file = "closing"
      BY <3>2 DEF Lifecycle
    <3>4. Count(NonClose) = 0
      BY <2>4 DEF Exact
    <3>5. Count(Ops) = 1
      BY <3>3, <3>4, CountSplit
    <3>6. One(worker[w].op, Ops) = 1 /\ One(worker[w].op, {CloseOp}) = 1
      BY <2>1, <2>2, OneOf
    <3>7. /\ Count(Ops) = Count(Ops)' + One(worker[w].op, Ops) /\ Count(Ops)' \in Nat
          /\ Count({CloseOp}) = Count({CloseOp})' + One(worker[w].op, {CloseOp})
          /\ Count({CloseOp})' \in Nat
      BY <2>1, <3>1, CountDone
    <3>8. Count(Ops)' = 0 /\ Count({CloseOp})' = 0
      BY <3>3, <3>5, <3>6, <3>7
    <3>9. QED
      BY <1>1, <3>1, <3>3, <3>8 DEF Lifecycle
  <2>5. QED
    BY <2>3, <2>4
<1>8. QED
  BY <1>3, <1>4, <1>5, <1>6, <1>7 DEF Worker

LEMMA NextFileInv == FileInv /\ [Next]_vars => FileInv'
<1> SUFFICES ASSUME FileInv, [Next]_vars PROVE FileInv'
  OBVIOUS
<1>1. Lifecycle'
  <2>1. CASE UNCHANGED vars
    <3>1. UNCHANGED <<main, file, hard, cache, queue, worker, failed>>
      BY <2>1 DEF vars
    <3>2. \A S : Count(S)' = Count(S)
      BY <3>1, CountUnchanged
    <3>3. QED
      BY <3>1, <3>2, LifecycleSame DEF FileInv, Lifecycle
  <2>2. QED
    BY <2>1, CallLifecycle, WorkerLifecycle DEF Next
<1>2. QED
  BY <1>1, NextTypeOK, NextExact DEF FileInv

-----------------------------------------------------------------------------
(* The theorems                                                            *)

LEMMA SpecFileInv == Spec => []FileInv
<1>1. QED
  BY InitInv, NextFileInv, PTL DEF Spec

\* Every variable of an HDF5 file with the asynchronous write thread keeps its type, for
\* any number of threads, files, calls and failures; the counters of pending operations,
\* which every operation decrements, never become negative.
THEOREM FileTypeCorrect == Spec => []TypeOK
<1>1. FileInv => TypeOK
  BY DEF FileInv
<1>2. QED
  BY <1>1, SpecFileInv, PTL

\* npend_ops, nasync_pend_ops and npend_hdf5_async_ops are exact in every state: what a
\* hard close, a wait on a decomposition and spio_wait_all_hdf5_async_ops go by counts the
\* operations that are queued, in a thread or given up by one.
THEOREM CountersExact == Spec => []PendingExact
<1>1. FileInv => PendingExact
  BY PendingIsCount DEF FileInv, Exact, PendingExact
<1>2. QED
  BY <1>1, SpecFileInv, PTL

\* A file is hard closed, and its structure freed, only when no operation that points to
\* it is left anywhere.
THEOREM StructureOutlives == Spec => []StructOutlivesOps
<1>1. FileInv => StructOutlivesOps
  BY PendingIsCount DEF FileInv, Lifecycle, StructOutlivesOps
<1>2. QED
  BY <1>1, SpecFileInv, PTL

-----------------------------------------------------------------------------
(* Where an accepted array is                                              *)

Holds(s, a) == \E n \in DOMAIN s : s[n] = a

Cached(a) == \E k \in Wmbs : Holds(cache[k], a)
Queued(a) == \E n \in DOMAIN queue : queue[n].type = "write" /\ Holds(queue[n].arrays, a)
InThread(a) == \E w \in Workers : Busy(w) /\ worker[w].op.type = "write" /\ Holds(worker[w].todo, a)
Landed(a) == \E l \in landed : l.array = a

InTransit(a) == Cached(a) \/ Queued(a) \/ InThread(a) \/ Landed(a)

\* As long as no write has failed, an accepted array is cached, on its way or written.
Arriving == failed = <<>> => \A a \in accepted : InTransit(a)

LEMMA HoldsAppend ==
  ASSUME NEW T, NEW s \in Seq(T), NEW b \in T, NEW a
  PROVE  Holds(Append(s, b), a) <=> Holds(s, a) \/ a = b
<1>1. /\ Len(s) \in Nat /\ DOMAIN s = 1..Len(s) /\ DOMAIN Append(s, b) = 1..(Len(s) + 1)
      /\ \A n \in DOMAIN s : Append(s, b)[n] = s[n]
      /\ Append(s, b)[Len(s) + 1] = b
  BY LenProperties
<1>2. QED
  BY <1>1 DEF Holds

LEMMA HoldsTail ==
  ASSUME NEW T, NEW s \in Seq(T), s # <<>>, NEW a, Holds(s, a)
  PROVE  a = Head(s) \/ Holds(Tail(s), a)
<1>1. /\ Len(s) \in Nat /\ DOMAIN s = 1..Len(s) /\ Head(s) = s[1]
      /\ Tail(s) \in Seq(T) /\ DOMAIN Tail(s) = 1..(Len(s) - 1)
      /\ \A n \in DOMAIN Tail(s) : Tail(s)[n] = s[n + 1]
  BY LenProperties, HeadTailProperties
<1>2. PICK n \in DOMAIN s : s[n] = a
  BY DEF Holds
<1>3. CASE n # 1
  <2>1. n - 1 \in DOMAIN Tail(s) /\ Tail(s)[n - 1] = a
    BY <1>1, <1>2, <1>3
  <2>2. QED
    BY <2>1 DEF Holds
<1>4. QED
  BY <1>1, <1>2, <1>3

\* A queued operation takes its arrays along and leaves the others in the queue.
LEMMA QueuedAppend ==
  ASSUME TypeOK, NEW o \in Ops, queue' = Append(queue, o), NEW a
  PROVE  /\ Queued(a) => Queued(a)'
         /\ o.type = "write" /\ Holds(o.arrays, a) => Queued(a)'
<1>1. queue \in Seq(Ops)
  BY DEF TypeOK
<1>2. /\ Len(queue) \in Nat /\ DOMAIN queue = 1..Len(queue)
      /\ DOMAIN queue' = 1..(Len(queue) + 1)
      /\ \A n \in DOMAIN queue : queue'[n] = queue[n]
      /\ queue'[Len(queue) + 1] = o
  BY <1>1, LenProperties
<1>3. QED
  BY <1>2 DEF Queued

LEMMA QueuedTail ==
  ASSUME TypeOK, queue # <<>>, queue' = Tail(queue), NEW a, Queued(a)
  PROVE  Queued(a)' \/ (Head(queue).type = "write" /\ Holds(Head(queue).arrays, a))
<1>1. queue \in Seq(Ops)
  BY DEF TypeOK
<1>2. /\ Len(queue) \in Nat /\ DOMAIN queue = 1..Len(queue) /\ Head(queue) = queue[1]
      /\ DOMAIN queue' = 1..(Len(queue) - 1)
      /\ \A n \in DOMAIN queue' : queue'[n] = queue[n + 1]
  BY <1>1, LenProperties, HeadTailProperties
<1>3. PICK n \in DOMAIN queue : queue[n].type = "write" /\ Holds(queue[n].arrays, a)
  BY DEF Queued
<1>4. CASE n # 1
  <2>1. n - 1 \in DOMAIN queue' /\ queue'[n - 1] = queue[n]
    BY <1>2, <1>4
  <2>2. QED
    BY <1>3, <2>1 DEF Queued
<1>5. QED
  BY <1>2, <1>3, <1>4

\* The flush of a wmb moves its arrays to the queue.
LEMMA FlushMoves ==
  ASSUME TypeOK, NEW k \in Wmbs, Flush(k), NEW s, cache' = [cache EXCEPT ![k] = s], NEW a
  PROVE  /\ Cached(a) => Cached(a)' \/ Queued(a)'
         /\ Queued(a) => Queued(a)'
<1>1. /\ cache \in [Wmbs -> Seq(Arrays)] /\ k.ioid \in Decomps
  BY DEF TypeOK, Wmbs
<1> DEFINE o == WriteOp(k.ioid, cache[k])
<1>2. o \in Ops /\ o.type = "write" /\ o.arrays = cache[k]
  BY <1>1, KindsOfOps
<1>3. queue' = Append(queue, o)
  BY DEF Flush
<1> HIDE DEF o
<1>4. Holds(cache[k], a) => Queued(a)'
  BY <1>2, <1>3, QueuedAppend
<1>5. \A j \in Wmbs : j # k => cache'[j] = cache[j]
  BY <1>1
<1>6. Cached(a) => Cached(a)' \/ Queued(a)'
  BY <1>4, <1>5 DEF Cached
<1>7. QED
  BY <1>2, <1>3, <1>6, QueuedAppend

LEMMA WriteDarrayArrives ==
  ASSUME TypeOK, NEW v \in Vars, NEW full \in BOOLEAN, WriteDarray(v, full), NEW b \in accepted',
         \A a \in accepted : InTransit(a)
  PROVE  InTransit(b)'
<1> DEFINE k == [ioid |-> DecompOf[v], rec |-> record[v] >= 0]
           a == [var |-> v, frame |-> record[v], want |-> want[v], ver |-> nwrites + 1]
<1>1. k \in Wmbs
  BY AsyncFileAssumption DEF Wmbs
<1>2. a \in Arrays
  <2>1. record \in [Vars -> AnyFrame] /\ want \in [Vars -> AnyFrame] /\ nwrites \in 0..MaxWrites
    BY DEF TypeOK
  <2>2. record[v] \in AnyFrame /\ want[v] \in AnyFrame /\ nwrites + 1 \in Nat
    BY <2>1, AsyncFileAssumption
  <2>3. QED
    BY <2>2 DEF Arrays
<1>3. /\ accepted' = accepted \cup {a}
      /\ \/ Flush(k) /\ cache' = [cache EXCEPT ![k] = <<a>>]
         \/ cache' = [cache EXCEPT ![k] = Append(@, a)] /\ UNCHANGED queue
      /\ UNCHANGED <<worker, landed>>
  BY DEF WriteDarray
<1> HIDE DEF k, a
<1>4. cache \in [Wmbs -> Seq(Arrays)]
  BY DEF TypeOK
<1>5. Landed(b)' <=> Landed(b)
  BY <1>3 DEF Landed
<1>6. InThread(b)' <=> InThread(b)
  BY <1>3 DEF InThread, Busy
<1>7. CASE Flush(k) /\ cache' = [cache EXCEPT ![k] = <<a>>]
  <2>1. b = a => Cached(b)'
    <3>1. Holds(<<a>>, a)
      BY DEF Holds
    <3>2. QED
      BY <1>1, <1>4, <1>7, <3>1 DEF Cached
  <2>2. b \in accepted => InTransit(b)'
    BY <1>1, <1>5, <1>6, <1>7, FlushMoves DEF InTransit
  <2>3. QED
    BY <1>3, <2>1, <2>2 DEF InTransit
<1>8. CASE cache' = [cache EXCEPT ![k] = Append(@, a)] /\ UNCHANGED queue
  <2>1. Holds(Append(cache[k], a), a) /\ (Holds(cache[k], b) => Holds(Append(cache[k], a), b))
    BY <1>1, <1>2, <1>4, HoldsAppend
  <2>2. cache'[k] = Append(cache[k], a) /\ \A j \in Wmbs : j # k => cache'[j] = cache[j]
    BY <1>1, <1>4, <1>8
  <2>3. (Cached(b) => Cached(b)') /\ (b = a => Cached(b)')
    BY <1>1, <2>1, <2>2 DEF Cached
  <2>4. Queued(b)' <=> Queued(b)
    BY <1>8 DEF Queued
  <2>5. QED
    BY <1>3, <1>5, <1>6, <2>3, <2>4 DEF InTransit
<1>9. QED
  BY <1>3, <1>7, <1>8

LEMMA CallArrives ==
  ASSUME TypeOK, User \/ Call \/ GiveUp, NEW b \in accepted', \A a \in accepted : InTransit(a)
  PROVE  InTransit(b)'
<1>1. ASSUME UNCHANGED <<cache, worker, landed, accepted>>,
             queue' = queue \/ \E o \in Ops : queue' = Append(queue, o)
      PROVE  InTransit(b)'
  <2>1. Queued(b) => Queued(b)'
    BY <1>1, QueuedAppend DEF Queued
  <2>2. (Cached(b) => Cached(b)') /\ (InThread(b) => InThread(b)') /\ (Landed(b) => Landed(b)')
    BY <1>1 DEF Cached, InThread, Landed, Busy
  <2>3. QED
    BY <1>1, <2>1, <2>2 DEF InTransit
<1>2. CASE CreateReturns
  BY <1>2 DEF CreateReturns, NewFile
<1>3. CASE Meta
  BY <1>1, <1>3, KindsOfOps DEF Meta
<1>4. ASSUME NEW v \in Vars, NEW f \in Frames, SetFrame(v, f) PROVE InTransit(b)'
  BY <1>1, <1>4, KindsOfOps DEF SetFrame
<1>5. ASSUME NEW v \in Vars, NEW full \in BOOLEAN, WriteDarray(v, full) PROVE InTransit(b)'
  BY <1>5, WriteDarrayArrives
<1>6. ASSUME NEW k \in Wmbs, SyncWmb(k) PROVE InTransit(b)'
  <2>1. /\ Flush(k) /\ cache' = [cache EXCEPT ![k] = <<>>]
        /\ UNCHANGED <<worker, landed, accepted>>
    BY <1>6 DEF SyncWmb
  <2>2. (Cached(b) => Cached(b)' \/ Queued(b)') /\ (Queued(b) => Queued(b)')
    BY <2>1, FlushMoves
  <2>3. (InThread(b) => InThread(b)') /\ (Landed(b) => Landed(b)')
    BY <2>1 DEF InThread, Landed, Busy
  <2>4. QED
    BY <2>1, <2>2, <2>3 DEF InTransit
<1>7. CASE SyncReturns
  BY <1>1, <1>7, KindsOfOps DEF SyncReturns
<1>8. CASE \/ CreateFile \/ GiveUp \/ OtherFile \/ Finalize \/ RevisitReturns \/ Drained
           \/ FilesClosed \/ FinalizeReturns
  BY <1>1, <1>8
     DEF CreateFile, GiveUp, OtherFile, Finalize, RevisitReturns, Drained, FilesClosed,
         FinalizeReturns
<1>9. ASSUME NEW call, CallSync(call) \/ Revisit(call) PROVE InTransit(b)'
  BY <1>1, <1>9 DEF CallSync, Revisit
<1>10. ASSUME NEW d \in Decomps, FreeDecomp(d) \/ DeleteDecomp(d) PROVE InTransit(b)'
  BY <1>1, <1>10 DEF FreeDecomp, DeleteDecomp
<1>11. QED
  BY <1>2, <1>3, <1>4, <1>5, <1>6, <1>7, <1>8, <1>9, <1>10 DEF User, Call

LEMMA WorkerArrives ==
  ASSUME TypeOK, NEW w \in Workers, Worker(w), ~WriteFails(w), NEW b, InTransit(b)
  PROVE  InTransit(b)'
<1>1. UNCHANGED cache /\ landed \subseteq landed'
  BY DEF Worker, Take, WriteArray, WriteDone, WriteFails, RunSetFrame, RunMeta, Close
<1>2. (Cached(b) => Cached(b)') /\ (Landed(b) => Landed(b)')
  BY <1>1 DEF Cached, Landed
<1>3. worker \in [Workers -> Tasks \cup {Idle, Dead}]
  BY DEF TypeOK
<1>4. CASE Take(w)
  <2>1. PICK t \in Tasks : /\ worker' = [worker EXCEPT ![w] = t] /\ t.op = Head(queue)
                           /\ t.todo = IF Head(queue).type = "write" THEN Head(queue).arrays ELSE <<>>
    BY <1>4, TakeTask
  <2>2. ~Busy(w) /\ queue # <<>> /\ queue' = Tail(queue)
    BY <1>4, TakeTask
  <2>3. worker'[w] = t /\ t \notin {Idle, Dead} /\ \A u \in Workers : u # w => worker'[u] = worker[u]
    BY <1>3, <2>1, ThreadStatesAssumption
  <2>4. InThread(b) => InThread(b)'
    BY <2>2, <2>3 DEF InThread, Busy
  <2>5. Head(queue).type = "write" /\ Holds(Head(queue).arrays, b) => InThread(b)'
    BY <2>1, <2>3 DEF InThread, Busy
  <2>6. Queued(b) => Queued(b)' \/ InThread(b)'
    BY <2>2, <2>5, QueuedTail
  <2>7. QED
    BY <1>2, <2>4, <2>6 DEF InTransit
<1>5. CASE WriteArray(w)
  <2>1. PICK t \in Tasks : /\ worker' = [worker EXCEPT ![w] = t] /\ t.op = worker[w].op
                           /\ t.todo = Tail(worker[w].todo)
    BY <1>5, WriteTask
  <2>2. worker'[w] = t /\ t \notin {Idle, Dead} /\ \A u \in Workers : u # w => worker'[u] = worker[u]
    BY <1>3, <2>1, ThreadStatesAssumption
  <2>3. /\ Busy(w) /\ worker[w].op.type = "write" /\ worker[w].todo # <<>> /\ UNCHANGED queue
        /\ worker[w].todo \in Seq(Arrays)
    BY <1>5, TaskOp DEF WriteArray, Doing
  <2>4. b = Head(worker[w].todo) => Landed(b)'
    <3>1. PICK s : landed' = landed \cup {[array |-> Head(worker[w].todo), at |-> s]}
      BY <1>5, WriteTask
    <3>2. [array |-> Head(worker[w].todo), at |-> s].array = Head(worker[w].todo)
      OBVIOUS
    <3>3. QED
      BY <3>1, <3>2 DEF Landed
  <2>5. Holds(worker[w].todo, b) => Landed(b)' \/ InThread(b)'
    <3>1. Holds(worker[w].todo, b) => b = Head(worker[w].todo) \/ Holds(t.todo, b)
      BY <2>1, <2>3, HoldsTail
    <3>2. Holds(t.todo, b) => InThread(b)'
      BY <2>1, <2>2, <2>3 DEF InThread, Busy
    <3>3. QED
      BY <2>4, <3>1, <3>2
  <2>6. InThread(b) => InThread(b)' \/ Landed(b)'
    BY <2>2, <2>5 DEF InThread, Busy
  <2>7. Queued(b) => Queued(b)'
    BY <2>3 DEF Queued
  <2>8. QED
    BY <1>2, <2>6, <2>7 DEF InTransit
<1>6. CASE WriteDone(w) \/ RunSetFrame(w) \/ RunMeta(w) \/ Close(w)
  <2>1. /\ worker' = [worker EXCEPT ![w] = Idle]
        /\ worker[w].op.type # "write" \/ worker[w].todo = <<>>
        /\ queue' = queue \/ queue' = Append(queue, CloseOp)
    BY <1>6 DEF WriteDone, RunSetFrame, RunMeta, Close, Doing
  <2>2. ~(worker[w].op.type = "write" /\ Holds(worker[w].todo, b))
    BY <2>1 DEF Holds
  <2>3. \A u \in Workers : u # w => worker'[u] = worker[u]
    BY <1>3, <2>1
  <2>4. InThread(b) => InThread(b)'
    BY <2>2, <2>3 DEF InThread, Busy
  <2>5. Queued(b) => Queued(b)'
    BY <2>1, KindsOfOps, QueuedAppend DEF Queued
  <2>6. QED
    BY <1>2, <2>4, <2>5 DEF InTransit
<1>7. QED
  BY <1>4, <1>5, <1>6 DEF Worker

LEMMA NextArriving == FileInv /\ Arriving /\ [Next]_vars => Arriving'
<1> SUFFICES ASSUME FileInv, Arriving, [Next]_vars, failed' = <<>>, NEW b \in accepted'
             PROVE  InTransit(b)'
  BY DEF Arriving
<1>1. TypeOK
  BY DEF FileInv
<1>2. CASE UNCHANGED vars
  <2>1. UNCHANGED <<cache, queue, worker, landed, accepted, failed>>
    BY <1>2 DEF vars
  <2>2. InTransit(b)
    BY <2>1 DEF Arriving
  <2>3. QED
    BY <2>1, <2>2 DEF InTransit, Cached, Queued, InThread, Landed, Busy
<1>3. CASE User \/ Call \/ GiveUp
  <2>1. UNCHANGED failed
    BY <1>3
       DEF User, Call, CreateReturns, NewFile, Meta, SetFrame, WriteDarray, SyncWmb, SyncReturns,
           CreateFile, GiveUp, OtherFile, Finalize, RevisitReturns, Drained, FilesClosed,
           FinalizeReturns, CallSync, Revisit, FreeDecomp, DeleteDecomp
  <2>2. QED
    BY <1>1, <1>3, <2>1, CallArrives DEF Arriving
<1>4. ASSUME NEW w \in Workers, Worker(w) PROVE InTransit(b)'
  <2>1. ~WriteFails(w)
    <3>1. SUFFICES ASSUME WriteFails(w) PROVE FALSE
      OBVIOUS
    <3>2. failed \in Seq(Ops) /\ worker[w].op \in Ops /\ failed' = Append(failed, worker[w].op)
      BY <1>1, <3>1, TaskOp DEF WriteFails, Doing, TypeOK
    <3>3. Append(failed, worker[w].op) # <<>>
      BY <3>2, AppendProperties
    <3>4. QED
      BY <3>2, <3>3
  <2>2. UNCHANGED <<failed, accepted>>
    BY <1>4, <2>1 DEF Worker, Take, WriteArray, WriteDone, RunSetFrame, RunMeta, Close
  <2>3. InTransit(b)
    BY <2>2 DEF Arriving
  <2>4. QED
    BY <1>1, <1>4, <2>1, <2>3, WorkerArrives
<1>5. QED
  BY <1>2, <1>3, <1>4 DEF Next

\* A file is never hard closed with data missing: every array that PIOc_write_darray has
\* accepted for it has been written.  A write that fails stays counted, and so keeps the
\* file from being closed.
THEOREM NothingIsLeftOut == Spec => []NothingLeftOut
<1>1. Init => Arriving
  BY DEF Init, Arriving
<1>2. FileInv /\ Arriving => NothingLeftOut
  <2> SUFFICES ASSUME FileInv, Arriving, hard, NEW a \in accepted
               PROVE  \E l \in landed : l.array = a
    BY DEF NothingLeftOut
  <2>1. /\ TypeOK /\ Count(Ops) = 0 /\ \A k \in Wmbs : cache[k] = <<>>
        /\ queue \in Seq(Ops) /\ failed \in Seq(Ops)
    BY DEF FileInv, Lifecycle, TypeOK
  <2>2. Places(queue, Ops) = {} /\ Threads(Ops) = {} /\ Places(failed, Ops) = {}
    BY <2>1, CountZero
  <2>3. DOMAIN queue = {} /\ DOMAIN failed = {}
    BY <2>1, <2>2, LenProperties DEF Places
  <2>4. failed = <<>>
    BY <2>1, <2>3, EmptySeq, LenProperties
  <2>5. \A w \in Workers : ~Busy(w)
    BY <2>1, <2>2, TaskOp DEF Threads
  <2>6. ~Cached(a) /\ ~Queued(a) /\ ~InThread(a)
    BY <2>1, <2>3, <2>5 DEF Cached, Queued, InThread, Holds
  <2>7. QED
    BY <2>4, <2>6 DEF Arriving, InTransit, Landed
<1>3. QED
  BY <1>1, <1>2, SpecFileInv, NextArriving, PTL DEF Spec
=============================================================================
