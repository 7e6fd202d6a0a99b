--------------------------- MODULE AsyncPoolProofs ---------------------------
(***************************************************************************)
(* The queue of the thread pool and its COMPLETE and STOP signals, for any *)
(* number of operations, I/O systems, repetitions and failures.  That no   *)
(* operation is lost or processed twice needs nothing; that COMPLETE is    *)
(* acknowledged only when all operations are done, that STOP loses none    *)
(* and that operations are processed in order needs the pool to have one   *)
(* thread, the default of SPIO_ASYNC_NTHREADS.                             *)
(***************************************************************************)
EXTENDS AsyncPool, SequenceTheorems, FiniteSetTheorems, TLAPS

\* SPIO_ASYNC_NTHREADS = 1
OneThread == \A u, w \in Workers : u = w

\* Where an operation is until it is processed or fails.
Queued == {queue[i] : i \in DOMAIN queue}
InHand == {worker[w] : w \in Workers} \cap Ops

\* Every operation added is somewhere.
NothingLost == AddedOps \subseteq done \cup failed \cup Queued \cup InHand

\* From the STOP signal on there is nothing left to lose, and nothing is added.
StopFindsNothing ==
  sig = "STOP" =>
    /\ queue = <<>> /\ \A w \in Workers : ~Busy(w)
    /\ main \in {"joining", "gone"}

PoolInv ==
  /\ TypeOK
  /\ NothingLost
  /\ CompleteMeansComplete
  /\ StopFindsNothing

-----------------------------------------------------------------------------

LEMMA InitTypeOK == Init => TypeOK
<1> SUFFICES ASSUME Init PROVE TypeOK
  OBVIOUS
<1>1. 0 \in 0..MaxInit /\ 0 \in 0..MaxAgain
  BY AsyncPoolAssumption
<1>2. <<>> \in Seq(Ops)
  BY EmptySeq
<1>3. QED
  BY <1>1, <1>2 DEF Init, TypeOK

LEMMA NextTypeOK == TypeOK /\ [Next]_vars => TypeOK'
<1> SUFFICES ASSUME TypeOK, [Next]_vars PROVE TypeOK'
  OBVIOUS
<1> USE AsyncPoolAssumption DEF TypeOK, history
<1>1. CASE Create
  <2>1. initCnt' \in 0..MaxInit
    BY <1>1 DEF Create
  <2>2. UNCHANGED <<pool, queue, sig, worker, main, history>>
    BY <1>1 DEF Create
  <2>3. QED
    BY <2>1, <2>2
<1>2. ASSUME NEW o \in Ops, OpAdd(o) PROVE TypeOK'
  BY <1>2 DEF OpAdd
<1>3. CASE Finalize
  <2>1. initCnt' \in 0..MaxInit
    BY <1>3 DEF Finalize
  <2>2. /\ pool' \in BOOLEAN /\ sig' \in {sig, "COMPLETE"}
        /\ main' \in {"user", "finalizing"}
    BY <1>3 DEF Finalize, SignalComplete
  <2>3. UNCHANGED <<queue, worker, history>>
    BY <1>3 DEF Finalize
  <2>4. QED
    BY <2>1, <2>2, <2>3
<1>4. CASE FinalizeReturns
  BY <1>4 DEF FinalizeReturns
<1>5. CASE Leave
  BY <1>5 DEF Leave, SignalComplete
<1>6. CASE Stop
  BY <1>6 DEF Stop
<1>7. CASE Joined
  BY <1>7 DEF Joined
<1>8. ASSUME NEW w \in Workers, Worker(w) PROVE TypeOK'
  <2>1. CASE Take(w)
    <3>1. Head(queue) \in Ops /\ Tail(queue) \in Seq(Ops)
      BY <2>1 DEF Take
    <3>2. QED
      BY <2>1, <3>1 DEF Take
  <2>2. CASE Complete(w)
    BY <2>2 DEF Complete
  <2>3. CASE Quit(w)
    BY <2>3 DEF Quit
  <2>4. CASE Process(w)
    BY <2>4 DEF Process, Busy
  <2>5. CASE ProcessAgain(w)
    BY <2>5 DEF ProcessAgain, Busy
  <2>6. CASE ProcessFails(w)
    BY <2>6 DEF ProcessFails, Busy
  <2>7. QED
    BY <1>8, <2>1, <2>2, <2>3, <2>4, <2>5, <2>6 DEF Worker
<1>9. CASE UNCHANGED vars
  BY <1>9 DEF vars
<1>10. QED
  BY <1>1, <1>2, <1>3, <1>4, <1>5, <1>6, <1>7, <1>8, <1>9 DEF Next, Main

\* The variables of the pool keep their types, with any number of threads.
THEOREM PoolTypeCorrect == Spec => []TypeOK
<1>1. QED
  BY InitTypeOK, NextTypeOK, PTL DEF Spec

-----------------------------------------------------------------------------
(* With one thread                                                         *)

\* What a step of the queue does to the operations in it.
LEMMA TakeMoves ==
  ASSUME TypeOK, NEW w \in Workers, Take(w)
  PROVE  Queued \cup InHand \subseteq Queued' \cup InHand'
<1>1. /\ queue \in Seq(Ops) /\ queue # <<>> /\ worker[w] = Idle
      /\ queue' = Tail(queue) /\ worker' = [worker EXCEPT ![w] = Head(queue)]
      /\ worker \in [Workers -> Ops \cup {Idle, Exited, Dead}]
  BY DEF Take, TypeOK
<1>2. /\ Len(queue) \in Nat /\ DOMAIN queue = 1..Len(queue)
      /\ Head(queue) = queue[1] /\ Head(queue) \in Ops
      /\ DOMAIN queue' = 1..(Len(queue) - 1)
      /\ \A i \in DOMAIN queue' : queue'[i] = queue[i + 1]
  BY <1>1, LenProperties, HeadTailProperties
<1>3. ASSUME NEW i \in DOMAIN queue
      PROVE  queue[i] \in Queued' \cup InHand'
  <2>1. CASE i = 1
    <3>1. worker'[w] = queue[1] /\ queue[1] \in Ops
      BY <1>1, <1>2
    <3>2. QED
      BY <2>1, <3>1 DEF InHand
  <2>2. CASE i # 1
    <3>1. i - 1 \in DOMAIN queue' /\ queue'[i - 1] = queue[i]
      BY <1>2, <2>2
    <3>2. QED
      BY <3>1 DEF Queued
  <2>3. QED
    BY <2>1, <2>2
<1>4. InHand \subseteq InHand'
  <2>1. Idle \notin Ops
    BY AsyncPoolAssumption
  <2>2. \A u \in Workers : worker[u] \in Ops => worker'[u] = worker[u]
    BY <1>1, <2>1
  <2>3. QED
    BY <2>2 DEF InHand
<1>5. QED
  BY <1>3, <1>4 DEF Queued

\* Adding o at the end of the queue.
LEMMA AppendQueued ==
  ASSUME queue \in Seq(Ops), NEW o \in Ops, queue' = Append(queue, o)
  PROVE  Queued' = Queued \cup {o}
<1>1. /\ Len(queue) \in Nat /\ DOMAIN queue = 1..Len(queue)
      /\ DOMAIN queue' = 1..(Len(queue) + 1)
      /\ \A i \in DOMAIN queue : queue'[i] = queue[i]
      /\ queue'[Len(queue) + 1] = o
  BY LenProperties
<1>2. Queued' \subseteq Queued \cup {o}
  <2> SUFFICES ASSUME NEW i \in DOMAIN queue' PROVE queue'[i] \in Queued \cup {o}
    BY DEF Queued
  <2>1. i \in DOMAIN queue \/ i = Len(queue) + 1
    BY <1>1
  <2>2. QED
    BY <1>1, <2>1 DEF Queued
<1>3. Queued \subseteq Queued'
  BY <1>1 DEF Queued
<1>4. o \in Queued'
  <2>1. Len(queue) + 1 \in DOMAIN queue'
    BY <1>1
  <2>2. QED
    BY <1>1, <2>1 DEF Queued
<1>5. QED
  BY <1>2, <1>3, <1>4

\* Adding o to the history of the operations added.
LEMMA AppendAdded ==
  ASSUME added \in Seq(Ops), NEW o \in Ops, added' = Append(added, o)
  PROVE  /\ AddedOps' = AddedOps \cup {o}
         /\ DOMAIN added = 1..Len(added) /\ DOMAIN added' = 1..(Len(added) + 1)
         /\ Len(added) \in Nat
         /\ \A i \in DOMAIN added : added'[i] = added[i]
         /\ added'[Len(added) + 1] = o
<1>1. /\ Len(added) \in Nat /\ DOMAIN added = 1..Len(added)
      /\ DOMAIN added' = 1..(Len(added) + 1)
      /\ \A i \in DOMAIN added : added'[i] = added[i]
      /\ added'[Len(added) + 1] = o
  BY LenProperties
<1>2. \A i \in DOMAIN added' : i \in DOMAIN added \/ i = Len(added) + 1
  BY <1>1
<1>3. AddedOps' \subseteq AddedOps \cup {o}
  BY <1>1, <1>2 DEF AddedOps
<1>4. AddedOps \cup {o} \subseteq AddedOps'
  <2>1. DOMAIN added \subseteq DOMAIN added' /\ Len(added) + 1 \in DOMAIN added'
    BY <1>1
  <2>2. QED
    BY <1>1, <2>1 DEF AddedOps
<1>5. QED
  BY <1>1, <1>3, <1>4

\* A step never loses an operation, with any number of threads.
LEMMA NextLosesNothing ==
  ASSUME TypeOK, NothingLost, [Next]_vars
  PROVE  NothingLost'
<1>0. queue \in Seq(Ops) /\ worker \in [Workers -> Ops \cup {Idle, Exited, Dead}]
  BY DEF TypeOK
<1>1. ASSUME NEW o \in Ops, OpAdd(o) PROVE NothingLost'
  <2>1. /\ queue' = Append(queue, o) /\ added' = Append(added, o)
        /\ UNCHANGED <<worker, done, failed>>
    BY <1>1 DEF OpAdd
  <2>2. Queued' = Queued \cup {o} /\ InHand' = InHand
    BY <1>0, <2>1, AppendQueued DEF InHand
  <2>3. AddedOps' \subseteq AddedOps \cup {o}
    BY <2>1, AppendAdded DEF TypeOK
  <2>4. QED
    BY <2>1, <2>2, <2>3 DEF NothingLost
<1>2. ASSUME UNCHANGED <<queue, worker, added, done, failed>> PROVE NothingLost'
  BY <1>2 DEF NothingLost, AddedOps, Queued, InHand
<1>3. CASE Create \/ Finalize \/ FinalizeReturns \/ Leave \/ Stop \/ Joined
  BY <1>2, <1>3 DEF Create, Finalize, FinalizeReturns, Leave, Stop, Joined, history
<1>4. ASSUME NEW w \in Workers, Worker(w) PROVE NothingLost'
  <2>1. CASE Take(w)
    <3>1. UNCHANGED <<added, done, failed>>
      BY <2>1 DEF Take, history
    <3>2. QED
      BY <2>1, <3>1, TakeMoves DEF NothingLost, AddedOps
  <2>2. CASE Complete(w)
    BY <1>2, <2>2 DEF Complete, history
  <2>3. CASE Quit(w)
    <3>1. /\ worker[w] = Idle /\ worker' = [worker EXCEPT ![w] = Exited]
          /\ UNCHANGED <<queue, added, done, failed>>
      BY <2>3 DEF Quit, history
    <3>2. InHand \subseteq InHand'
      BY <1>0, <3>1, AsyncPoolAssumption DEF InHand
    <3>3. QED
      BY <3>1, <3>2 DEF NothingLost, AddedOps, Queued
  <2>4. ASSUME NEW next, worker' = [worker EXCEPT ![w] = next]
        PROVE  InHand \subseteq InHand' \cup {worker[w]}
    BY <1>0, <2>4 DEF InHand
  <2>5. CASE Process(w)
    <3>1. /\ done' = done \cup {worker[w]} /\ worker' = [worker EXCEPT ![w] = Idle]
          /\ UNCHANGED <<queue, added, failed>>
      BY <2>5 DEF Process
    <3>2. QED
      BY <2>4, <3>1, ZenonT(60) DEF NothingLost, AddedOps, Queued
  <2>6. CASE ProcessAgain(w)
    <3>1. /\ queue' = Append(queue, worker[w]) /\ worker[w] \in Ops
          /\ worker' = [worker EXCEPT ![w] = Idle]
          /\ UNCHANGED <<added, done, failed>>
      BY <2>6 DEF ProcessAgain, Busy
    <3>2. Queued' = Queued \cup {worker[w]}
      BY <1>0, <3>1, AppendQueued
    <3>3. QED
      BY <2>4, <3>1, <3>2 DEF NothingLost, AddedOps
  <2>7. CASE ProcessFails(w)
    <3>1. /\ failed' = failed \cup {worker[w]} /\ worker' = [worker EXCEPT ![w] = Dead]
          /\ UNCHANGED <<queue, added, done>>
      BY <2>7 DEF ProcessFails
    <3>2. QED
      BY <2>4, <3>1, ZenonT(60) DEF NothingLost, AddedOps, Queued
  <2>8. QED
    BY <1>4, <2>1, <2>2, <2>3, <2>5, <2>6, <2>7 DEF Worker
<1>5. CASE UNCHANGED vars
  BY <1>2, <1>5 DEF vars, history
<1>6. QED
  BY <1>1, <1>3, <1>4, <1>5 DEF Next, Main

\* The signals, with one thread.
LEMMA NextKeepsSignals ==
  ASSUME OneThread, TypeOK, CompleteMeansComplete, StopFindsNothing, [Next]_vars
  PROVE  CompleteMeansComplete' /\ StopFindsNothing'
<1>0. worker \in [Workers -> Ops \cup {Idle, Exited, Dead}] /\ Idle \notin Ops
      /\ Exited \notin Ops /\ Dead \notin Ops
  BY AsyncPoolAssumption DEF TypeOK
<1> USE DEF CompleteMeansComplete, StopFindsNothing, Busy
<1>1. CASE Create
  BY <1>1 DEF Create
<1>2. ASSUME NEW o \in Ops, OpAdd(o)
      PROVE  CompleteMeansComplete' /\ StopFindsNothing'
  BY <1>2 DEF OpAdd
<1>3. CASE Finalize
  BY <1>3 DEF Finalize, SignalComplete
<1>4. CASE FinalizeReturns
  BY <1>4 DEF FinalizeReturns
<1>5. CASE Leave
  BY <1>5 DEF Leave, SignalComplete
<1>6. CASE Stop
  BY <1>6 DEF Stop, Acknowledged
<1>7. CASE Joined
  BY <1>7 DEF Joined
<1>8. ASSUME NEW w \in Workers, Worker(w)
      PROVE  CompleteMeansComplete' /\ StopFindsNothing'
  <2>1. CASE Take(w)
    BY <2>1 DEF Take
  <2>2. CASE Complete(w)
    <3>1. \A u \in Workers : worker[u] = Idle
      BY <2>2 DEF Complete, OneThread
    <3>2. QED
      BY <1>0, <2>2, <3>1 DEF Complete
  <2>3. CASE Quit(w)
    BY <1>0, <2>3 DEF Quit
  <2>4. CASE Process(w)
    BY <2>4 DEF Process
  <2>5. CASE ProcessAgain(w)
    BY <2>5 DEF ProcessAgain
  <2>6. CASE ProcessFails(w)
    BY <2>6 DEF ProcessFails
  <2>7. QED
    BY <1>8, <2>1, <2>2, <2>3, <2>4, <2>5, <2>6 DEF Worker
<1>9. CASE UNCHANGED vars
  BY <1>9 DEF vars
<1>10. QED
  BY <1>1, <1>2, <1>3, <1>4, <1>5, <1>6, <1>7, <1>8, <1>9 DEF Next, Main

LEMMA PoolInvariant ==
  ASSUME OneThread
  PROVE  Spec => []PoolInv
<1>1. Init => PoolInv
  <2> SUFFICES ASSUME Init PROVE PoolInv
    OBVIOUS
  <2>1. NothingLost
    BY DEF Init, NothingLost, AddedOps
  <2>2. CompleteMeansComplete /\ StopFindsNothing
    BY DEF Init, CompleteMeansComplete, StopFindsNothing
  <2>3. QED
    BY <2>1, <2>2, InitTypeOK DEF PoolInv
<1>2. PoolInv /\ [Next]_vars => PoolInv'
  BY NextTypeOK, NextLosesNothing, NextKeepsSignals DEF PoolInv
<1>3. QED
  BY <1>1, <1>2, PTL DEF Spec

\* "Notify threads that all async ops are complete" is true of a pool with one
\* thread: nothing is queued or being processed when COMPLETE is acknowledged.
THEOREM CompleteIsComplete ==
  ASSUME OneThread
  PROVE  Spec => []CompleteMeansComplete
<1>1. PoolInv => CompleteMeansComplete
  BY DEF PoolInv
<1>2. QED
  BY <1>1, PoolInvariant, PTL

\* The destructor of a pool with one thread loses no operation.
THEOREM StopIsSafe ==
  ASSUME OneThread
  PROVE  Spec => []StopLosesNothing
<1>1. PoolInv => StopLosesNothing
  <2> SUFFICES ASSUME PoolInv, sig = "STOP"
               PROVE  queue = <<>> /\ AddedOps \subseteq done \cup failed
    BY DEF StopLosesNothing
  <2>1. queue = <<>> /\ \A w \in Workers : worker[w] \notin Ops
    BY DEF PoolInv, StopFindsNothing, Busy
  <2>2. Queued = {} /\ InHand = {}
    BY <2>1 DEF Queued, InHand
  <2>3. QED
    BY <2>1, <2>2 DEF PoolInv, NothingLost
<1>2. QED
  BY <1>1, PoolInvariant, PTL

-----------------------------------------------------------------------------
(* With any number of threads: an operation is in one place                *)

\* The places are apart, an operation is once in the queue and in the hands of one
\* thread, and only operations that were added are anywhere.
Apart ==
  /\ \A i, j \in DOMAIN queue : queue[i] = queue[j] => i = j
  /\ \A u, w \in Workers : Busy(u) /\ worker[u] = worker[w] => u = w
  /\ Queued \cap (InHand \cup done \cup failed) = {}
  /\ InHand \cap (done \cup failed) = {}
  /\ done \cap failed = {}
  /\ Queued \cup InHand \cup done \cup failed \subseteq AddedOps

PlaceInv == TypeOK /\ NothingLost /\ Apart

\* Taking the front of the queue.
LEMMA TakeApart ==
  ASSUME TypeOK, Apart, NEW w \in Workers, Take(w)
  PROVE  /\ Head(queue) \in Queued /\ Head(queue) \notin Queued'
         /\ Queued' \subseteq Queued
         /\ \A i, j \in DOMAIN queue' : queue'[i] = queue'[j] => i = j
<1>1. /\ queue \in Seq(Ops) /\ queue # <<>> /\ queue' = Tail(queue)
  BY DEF Take, TypeOK
<1>2. /\ Len(queue) \in Nat /\ DOMAIN queue = 1..Len(queue) /\ 1 \in DOMAIN queue
      /\ Head(queue) = queue[1]
      /\ DOMAIN queue' = 1..(Len(queue) - 1)
      /\ \A i \in DOMAIN queue' : queue'[i] = queue[i + 1] /\ i + 1 \in DOMAIN queue
  BY <1>1, LenProperties, HeadTailProperties
<1>3. \A i, j \in DOMAIN queue : queue[i] = queue[j] => i = j
  BY DEF Apart
<1>4. \A i \in DOMAIN queue' : queue'[i] # Head(queue)
  BY <1>2, <1>3
<1>5. \A i, j \in DOMAIN queue' : queue'[i] = queue'[j] => i = j
  <2> SUFFICES ASSUME NEW i \in DOMAIN queue', NEW j \in DOMAIN queue', queue'[i] = queue'[j]
               PROVE  i = j
    OBVIOUS
  <2>1. i + 1 = j + 1
    BY <1>2, <1>3
  <2>2. QED
    BY <1>2, <2>1
<1>6. QED
  BY <1>2, <1>4, <1>5 DEF Queued

\* Adding an operation that is not in the queue.
LEMMA AppendApart ==
  ASSUME queue \in Seq(Ops), NEW o \in Ops \ Queued, queue' = Append(queue, o),
         \A i, j \in DOMAIN queue : queue[i] = queue[j] => i = j
  PROVE  \A i, j \in DOMAIN queue' : queue'[i] = queue'[j] => i = j
<1>1. /\ Len(queue) \in Nat /\ DOMAIN queue = 1..Len(queue)
      /\ DOMAIN queue' = 1..(Len(queue) + 1)
      /\ \A i \in DOMAIN queue : queue'[i] = queue[i]
      /\ queue'[Len(queue) + 1] = o
  BY LenProperties
<1>2. \A i \in DOMAIN queue : queue[i] # o
  BY DEF Queued
<1>3. \A i \in DOMAIN queue' : i \in DOMAIN queue \/ i = Len(queue) + 1
  BY <1>1
<1>4. QED
  BY <1>1, <1>2, <1>3

\* What becomes of the operations in the threads' hands when one of them changes.
LEMMA HandChanges ==
  ASSUME TypeOK, Apart, NEW w \in Workers,
         NEW next \in Ops \cup {Idle, Exited, Dead}, next \notin InHand,
         worker' = [worker EXCEPT ![w] = next]
  PROVE  /\ InHand' = (InHand \ {worker[w]}) \cup ({next} \cap Ops)
         /\ \A u, v \in Workers : Busy(u)' /\ worker'[u] = worker'[v] => u = v
<1>1. /\ worker \in [Workers -> Ops \cup {Idle, Exited, Dead}]
      /\ \A u, v \in Workers : worker[u] \in Ops /\ worker[u] = worker[v] => u = v
  BY DEF TypeOK, Apart, Busy
<1>2. worker'[w] = next /\ \A u \in Workers : u # w => worker'[u] = worker[u]
  BY <1>1
<1>3. \A u \in Workers : u # w => worker[u] # next \/ next \notin Ops
  BY DEF InHand
<1>4. \A u, v \in Workers : worker'[u] \in Ops /\ worker'[u] = worker'[v] => u = v
  BY <1>1, <1>2, <1>3
<1>5. InHand' \subseteq (InHand \ {worker[w]}) \cup ({next} \cap Ops)
  BY <1>1, <1>2 DEF InHand
<1>6. (InHand \ {worker[w]}) \cup ({next} \cap Ops) \subseteq InHand'
  BY <1>1, <1>2 DEF InHand
<1>7. QED
  BY <1>4, <1>5, <1>6 DEF Busy

LEMMA NextApart ==
  ASSUME TypeOK, Apart, [Next]_vars
  PROVE  Apart'
<1>0. /\ queue \in Seq(Ops) /\ worker \in [Workers -> Ops \cup {Idle, Exited, Dead}]
      /\ Idle \notin Ops /\ Exited \notin Ops /\ Dead \notin Ops
      /\ \A i, j \in DOMAIN queue : queue[i] = queue[j] => i = j
  BY AsyncPoolAssumption DEF TypeOK, Apart
<1>1. ASSUME UNCHANGED <<queue, worker, added, done, failed>> PROVE Apart'
  BY <1>1 DEF Apart, AddedOps, Queued, InHand, Busy
<1>2. ASSUME NEW o \in Ops, OpAdd(o) PROVE Apart'
  <2>1. /\ queue' = Append(queue, o) /\ added' = Append(added, o) /\ o \notin AddedOps
        /\ UNCHANGED <<worker, done, failed>>
    BY <1>2 DEF OpAdd
  <2>2. Queued' = Queued \cup {o} /\ InHand' = InHand
    BY <1>0, <2>1, AppendQueued DEF InHand
  <2>3. AddedOps' = AddedOps \cup {o}
    BY <2>1, AppendAdded DEF TypeOK
  <2>4. o \notin Queued \cup InHand \cup done \cup failed
    BY <2>1 DEF Apart
  <2>5. \A i, j \in DOMAIN queue' : queue'[i] = queue'[j] => i = j
    BY <1>0, <2>1, <2>4, AppendApart
  <2>6. \A u, w \in Workers : Busy(u)' /\ worker'[u] = worker'[w] => u = w
    BY <2>1 DEF Apart, Busy
  <2>7. QED
    BY <2>1, <2>2, <2>3, <2>4, <2>5, <2>6 DEF Apart
<1>3. CASE Create \/ Finalize \/ FinalizeReturns \/ Leave \/ Stop \/ Joined
  BY <1>1, <1>3 DEF Create, Finalize, FinalizeReturns, Leave, Stop, Joined, history
<1>4. ASSUME NEW w \in Workers, Worker(w) PROVE Apart'
  <2>1. CASE Take(w)
    <3>1. /\ worker[w] = Idle /\ worker' = [worker EXCEPT ![w] = Head(queue)]
          /\ UNCHANGED <<added, done, failed>>
      BY <2>1 DEF Take, history
    <3>2. /\ Head(queue) \in Queued /\ Head(queue) \notin Queued' /\ Queued' \subseteq Queued
          /\ \A i, j \in DOMAIN queue' : queue'[i] = queue'[j] => i = j
      BY <2>1, TakeApart
    <3>3. Head(queue) \in Ops /\ Head(queue) \notin InHand
      <4>1. Queued \subseteq Ops
        BY <1>0 DEF Queued
      <4>2. QED
        BY <3>2, <4>1 DEF Apart
    <3>4. /\ InHand' = (InHand \ {worker[w]}) \cup ({Head(queue)} \cap Ops)
          /\ \A u, v \in Workers : Busy(u)' /\ worker'[u] = worker'[v] => u = v
      BY <3>1, <3>3, HandChanges
    <3>5. AddedOps' = AddedOps
      BY <3>1 DEF AddedOps
    <3>6. QED
      BY <3>1, <3>2, <3>3, <3>4, <3>5 DEF Apart
  <2>2. CASE Complete(w)
    BY <1>1, <2>2 DEF Complete, history
  <2>3. ASSUME NEW next \in {Idle, Exited, Dead}, worker' = [worker EXCEPT ![w] = next]
        PROVE  /\ InHand' = InHand \ {worker[w]}
               /\ \A u, v \in Workers : Busy(u)' /\ worker'[u] = worker'[v] => u = v
    <3>1. next \notin Ops /\ next \notin InHand
      BY <1>0 DEF InHand
    <3>2. /\ InHand' = (InHand \ {worker[w]}) \cup ({next} \cap Ops)
          /\ \A u, v \in Workers : Busy(u)' /\ worker'[u] = worker'[v] => u = v
      BY <2>3, <3>1, HandChanges
    <3>3. QED
      BY <3>1, <3>2
  <2>4. worker[w] \in Ops => worker[w] \in InHand
    BY <1>0 DEF InHand
  <2>5. CASE Quit(w)
    <3>1. worker[w] = Idle /\ worker' = [worker EXCEPT ![w] = Exited]
          /\ UNCHANGED <<queue, added, done, failed>>
      BY <2>5 DEF Quit, history
    <3>2. /\ InHand' = InHand \ {worker[w]}
          /\ \A u, v \in Workers : Busy(u)' /\ worker'[u] = worker'[v] => u = v
      BY <2>3, <3>1
    <3>3. Queued' = Queued /\ AddedOps' = AddedOps
      BY <3>1 DEF Queued, AddedOps
    <3>4. QED
      BY <1>0, <3>1, <3>2, <3>3 DEF Apart
  <2>6. CASE Process(w)
    <3>1. /\ worker[w] \in Ops /\ worker' = [worker EXCEPT ![w] = Idle]
          /\ done' = done \cup {worker[w]} /\ UNCHANGED <<queue, added, failed>>
      BY <2>6 DEF Process, Busy
    <3>2. /\ InHand' = InHand \ {worker[w]}
          /\ \A u, v \in Workers : Busy(u)' /\ worker'[u] = worker'[v] => u = v
      BY <2>3, <3>1
    <3>3. Queued' = Queued /\ AddedOps' = AddedOps
      BY <3>1 DEF Queued, AddedOps
    <3>4. QED
      BY <1>0, <2>4, <3>1, <3>2, <3>3 DEF Apart
  <2>7. CASE ProcessAgain(w)
    <3>1. /\ worker[w] \in Ops /\ worker' = [worker EXCEPT ![w] = Idle]
          /\ queue' = Append(queue, worker[w]) /\ UNCHANGED <<added, done, failed>>
      BY <2>7 DEF ProcessAgain, Busy
    <3>2. /\ InHand' = InHand \ {worker[w]}
          /\ \A u, v \in Workers : Busy(u)' /\ worker'[u] = worker'[v] => u = v
      BY <2>3, <3>1
    <3>3. worker[w] \notin Queued
      BY <2>4, <3>1 DEF Apart
    <3>4. Queued' = Queued \cup {worker[w]} /\ AddedOps' = AddedOps
      BY <1>0, <3>1, AppendQueued DEF AddedOps
    <3>5. \A i, j \in DOMAIN queue' : queue'[i] = queue'[j] => i = j
      BY <1>0, <3>1, <3>3, AppendApart
    <3>6. QED
      BY <2>4, <3>1, <3>2, <3>4, <3>5 DEF Apart
  <2>8. CASE ProcessFails(w)
    <3>1. /\ worker[w] \in Ops /\ worker' = [worker EXCEPT ![w] = Dead]
          /\ failed' = failed \cup {worker[w]} /\ UNCHANGED <<queue, added, done>>
      BY <2>8 DEF ProcessFails, Busy
    <3>2. /\ InHand' = InHand \ {worker[w]}
          /\ \A u, v \in Workers : Busy(u)' /\ worker'[u] = worker'[v] => u = v
      BY <2>3, <3>1
    <3>3. Queued' = Queued /\ AddedOps' = AddedOps
      BY <3>1 DEF Queued, AddedOps
    <3>4. QED
      BY <1>0, <2>4, <3>1, <3>2, <3>3 DEF Apart
  <2>9. QED
    BY <1>4, <2>1, <2>2, <2>5, <2>6, <2>7, <2>8 DEF Worker
<1>5. CASE UNCHANGED vars
  BY <1>1, <1>5 DEF vars, history
<1>6. QED
  BY <1>2, <1>3, <1>4, <1>5 DEF Next, Main

LEMMA PlaceInvariant == Spec => []PlaceInv
<1>1. Init => PlaceInv
  <2> SUFFICES ASSUME Init PROVE PlaceInv
    OBVIOUS
  <2>1. NothingLost
    BY DEF Init, NothingLost, AddedOps
  <2>2. \A w \in Workers : worker[w] = Idle /\ Idle \notin Ops
    BY AsyncPoolAssumption DEF Init
  <2>3. InHand = {} /\ Queued = {} /\ DOMAIN queue = {}
    BY <2>2 DEF Init, InHand, Queued
  <2>4. Apart
    BY <2>2, <2>3 DEF Init, Apart, Busy
  <2>5. QED
    BY <2>1, <2>4, InitTypeOK DEF PlaceInv
<1>2. PlaceInv /\ [Next]_vars => PlaceInv'
  BY NextTypeOK, NextLosesNothing, NextApart DEF PlaceInv
<1>3. QED
  BY <1>1, <1>2, PTL DEF Spec

\* How often an operation is in each place.
LEMMA CountsOfPlaces ==
  ASSUME PlaceInv, NEW o \in Ops
  PROVE  /\ Cardinality({i \in DOMAIN queue : queue[i] = o}) = IF o \in Queued THEN 1 ELSE 0
         /\ Cardinality({w \in Workers : worker[w] = o}) = IF o \in InHand THEN 1 ELSE 0
         /\ Cardinality({S \in {done, failed} : o \in S})
              = IF o \in done \cup failed THEN 1 ELSE 0
<1>1. Cardinality({i \in DOMAIN queue : queue[i] = o}) = IF o \in Queued THEN 1 ELSE 0
  <2>1. CASE o \in Queued
    <3>1. PICK k \in DOMAIN queue : queue[k] = o
      BY <2>1 DEF Queued
    <3>2. {i \in DOMAIN queue : queue[i] = o} = {k}
      BY <3>1 DEF PlaceInv, Apart
    <3>3. QED
      BY <2>1, <3>2, FS_Singleton
  <2>2. CASE o \notin Queued
    <3>1. {i \in DOMAIN queue : queue[i] = o} = {}
      BY <2>2 DEF Queued
    <3>2. QED
      BY <2>2, <3>1, FS_EmptySet
  <2>3. QED
    BY <2>1, <2>2
<1>2. Cardinality({w \in Workers : worker[w] = o}) = IF o \in InHand THEN 1 ELSE 0
  <2>1. CASE o \in InHand
    <3>1. PICK v \in Workers : worker[v] = o
      BY <2>1 DEF InHand
    <3>2. {w \in Workers : worker[w] = o} = {v}
      BY <3>1 DEF PlaceInv, Apart, Busy
    <3>3. QED
      BY <2>1, <3>2, FS_Singleton
  <2>2. CASE o \notin InHand
    <3>1. {w \in Workers : worker[w] = o} = {}
      BY <2>2 DEF InHand
    <3>2. QED
      BY <2>2, <3>1, FS_EmptySet
  <2>3. QED
    BY <2>1, <2>2
<1>3. Cardinality({S \in {done, failed} : o \in S}) = IF o \in done \cup failed THEN 1 ELSE 0
  <2>1. o \notin done \/ o \notin failed
    BY DEF PlaceInv, Apart
  <2>2. CASE o \in done
    <3>1. {S \in {done, failed} : o \in S} = {done}
      BY <2>1, <2>2
    <3>2. QED
      BY <2>2, <3>1, FS_Singleton
  <2>3. CASE o \in failed
    <3>1. {S \in {done, failed} : o \in S} = {failed}
      BY <2>1, <2>3
    <3>2. QED
      BY <2>3, <3>1, FS_Singleton
  <2>4. CASE o \notin done \cup failed
    <3>1. {S \in {done, failed} : o \in S} = {}
      BY <2>4
    <3>2. QED
      BY <2>4, <3>1, FS_EmptySet
  <2>5. QED
    BY <2>2, <2>3, <2>4
<1>4. QED
  BY <1>1, <1>2, <1>3

\* No operation is lost, queued twice, processed by two threads or freed twice, with any
\* number of threads (spio_async_mtq.hpp, dequeue_and_process).
THEOREM EveryOpInOnePlace == Spec => []OnePlace
<1>1. PlaceInv => OnePlace
  <2> SUFFICES ASSUME PlaceInv, NEW o \in AddedOps
               PROVE  Cardinality({i \in DOMAIN queue : queue[i] = o})
                        + Cardinality({w \in Workers : worker[w] = o})
                        + Cardinality({S \in {done, failed} : o \in S}) = 1
    BY DEF OnePlace
  <2>1. o \in Ops
    BY DEF AddedOps, PlaceInv, TypeOK
  <2>2. o \in Queued \cup InHand \cup done \cup failed
    BY DEF PlaceInv, NothingLost
  <2>3. /\ o \in Queued => o \notin InHand /\ o \notin done \cup failed
        /\ o \in InHand => o \notin done \cup failed
    BY DEF PlaceInv, Apart
  <2>4. QED
    BY <2>1, <2>2, <2>3, CountsOfPlaces
<1>2. QED
  BY <1>1, PlaceInvariant, PTL

-----------------------------------------------------------------------------
(* With one thread: operations are processed in the order they were added  *)

\* What was added later than an operation that is not processed yet, and was not put
\* back, is still in the queue, behind it.
Behind ==
  \A i, j \in DOMAIN added : i < j /\ added[i] \notin again \cup done =>
    \E q \in DOMAIN queue :
      queue[q] = added[j] /\ \A p \in DOMAIN queue : queue[p] = added[i] => p < q

\* A failure ends the thread, and nothing is processed after it.
DeadAfterFailure == failed # {} => \A w \in Workers : worker[w] = Dead

OrderInv == PlaceInv /\ Behind /\ DeadAfterFailure

LEMMA TakeKeepsBehind ==
  ASSUME OneThread, OrderInv, NEW w \in Workers, Take(w)
  PROVE  Behind'
<1>1. /\ queue \in Seq(Ops) /\ queue # <<>> /\ worker[w] = Idle /\ queue' = Tail(queue)
      /\ UNCHANGED <<added, done, again>>
  BY DEF Take, OrderInv, PlaceInv, TypeOK, history
<1>2. /\ Len(queue) \in Nat /\ DOMAIN queue = 1..Len(queue)
      /\ DOMAIN queue' = 1..(Len(queue) - 1)
      /\ \A i \in DOMAIN queue' : queue'[i] = queue[i + 1]
  BY <1>1, LenProperties, HeadTailProperties
<1>3. InHand = {} /\ failed = {}
  <2>1. \A u \in Workers : worker[u] = Idle
    BY <1>1 DEF OneThread
  <2>2. Idle \notin Ops /\ Idle # Dead
    BY AsyncPoolAssumption
  <2>3. QED
    BY <2>1, <2>2 DEF OrderInv, DeadAfterFailure, InHand
<1>4. SUFFICES ASSUME NEW i \in DOMAIN added, NEW j \in DOMAIN added, i < j,
                      added[i] \notin again \cup done
               PROVE  \E q \in DOMAIN queue' : queue'[q] = added[j]
                        /\ \A p \in DOMAIN queue' : queue'[p] = added[i] => p < q
  BY <1>1 DEF Behind
<1>5. PICK q \in DOMAIN queue :
        queue[q] = added[j] /\ \A p \in DOMAIN queue : queue[p] = added[i] => p < q
  BY <1>4 DEF OrderInv, Behind
<1>6. \E p \in DOMAIN queue : queue[p] = added[i]
  <2>1. added[i] \in done \cup failed \cup Queued \cup InHand
    BY DEF OrderInv, PlaceInv, NothingLost, AddedOps
  <2>2. QED
    BY <1>3, <1>4, <2>1 DEF Queued
<1>7. q - 1 \in DOMAIN queue' /\ queue'[q - 1] = added[j]
  BY <1>2, <1>5, <1>6
<1>8. \A p \in DOMAIN queue' : queue'[p] = added[i] => p < q - 1
  BY <1>2, <1>5
<1>9. QED
  BY <1>7, <1>8

LEMMA NextBehind ==
  ASSUME OneThread, OrderInv, [Next]_vars
  PROVE  Behind'
<1>0. /\ queue \in Seq(Ops) /\ added \in Seq(Ops)
      /\ Len(queue) \in Nat /\ DOMAIN queue = 1..Len(queue)
  BY LenProperties DEF OrderInv, PlaceInv, TypeOK
<1>1. ASSUME UNCHANGED <<queue, added>>, done \subseteq done', again \subseteq again'
      PROVE  Behind'
  BY <1>1 DEF OrderInv, Behind
<1>2. ASSUME NEW o \in Ops, queue' = Append(queue, o)
      PROVE  /\ DOMAIN queue' = 1..(Len(queue) + 1) /\ queue'[Len(queue) + 1] = o
             /\ \A i \in DOMAIN queue : queue'[i] = queue[i]
  BY <1>0, <1>2
<1>3. ASSUME NEW o \in Ops, OpAdd(o) PROVE Behind'
  <2>1. /\ queue' = Append(queue, o) /\ added' = Append(added, o) /\ o \notin AddedOps
        /\ UNCHANGED <<again, done>>
    BY <1>3 DEF OpAdd
  <2>2. /\ DOMAIN queue' = 1..(Len(queue) + 1) /\ queue'[Len(queue) + 1] = o
        /\ \A i \in DOMAIN queue : queue'[i] = queue[i]
    BY <1>2, <2>1
  <2>3. /\ DOMAIN added = 1..Len(added) /\ DOMAIN added' = 1..(Len(added) + 1)
        /\ Len(added) \in Nat /\ added'[Len(added) + 1] = o
        /\ \A i \in DOMAIN added : added'[i] = added[i]
    BY <1>0, <2>1, AppendAdded
  <2>4. SUFFICES ASSUME NEW i \in DOMAIN added', NEW j \in DOMAIN added', i < j,
                        added'[i] \notin again \cup done
                 PROVE  \E q \in DOMAIN queue' : queue'[q] = added'[j]
                          /\ \A p \in DOMAIN queue' : queue'[p] = added'[i] => p < q
    BY <2>1 DEF Behind
  <2>5. i \in DOMAIN added /\ added'[i] = added[i] /\ added[i] # o
    <3>1. i \in DOMAIN added
      BY <2>3, <2>4
    <3>2. QED
      BY <2>1, <2>3, <3>1 DEF AddedOps
  <2>6. CASE j \in DOMAIN added
    <3>1. PICK q \in DOMAIN queue :
            queue[q] = added[j] /\ \A p \in DOMAIN queue : queue[p] = added[i] => p < q
      BY <2>4, <2>5, <2>6 DEF OrderInv, Behind
    <3>2. q \in DOMAIN queue' /\ queue'[q] = added'[j]
      BY <1>0, <2>2, <2>3, <2>6, <3>1
    <3>3. \A p \in DOMAIN queue' : queue'[p] = added'[i] => p < q
      BY <1>0, <2>2, <2>5, <3>1
    <3>4. QED
      BY <3>2, <3>3
  <2>7. CASE j = Len(added) + 1
    <3>1. Len(queue) + 1 \in DOMAIN queue' /\ queue'[Len(queue) + 1] = added'[j]
      BY <1>0, <2>2, <2>3, <2>7
    <3>2. \A p \in DOMAIN queue' : queue'[p] = added'[i] => p < Len(queue) + 1
      BY <1>0, <2>2, <2>5
    <3>3. QED
      BY <3>1, <3>2
  <2>8. QED
    BY <2>3, <2>6, <2>7
<1>4. CASE Create \/ Finalize \/ FinalizeReturns \/ Leave \/ Stop \/ Joined
  BY <1>1, <1>4 DEF Create, Finalize, FinalizeReturns, Leave, Stop, Joined, history
<1>5. ASSUME NEW w \in Workers, Worker(w) PROVE Behind'
  <2>1. CASE Take(w)
    BY <2>1, TakeKeepsBehind
  <2>2. CASE Complete(w) \/ Quit(w)
    BY <1>1, <2>2 DEF Complete, Quit, history
  <2>3. CASE Process(w)
    BY <1>1, <2>3 DEF Process
  <2>4. CASE ProcessFails(w)
    BY <1>1, <2>4 DEF ProcessFails
  <2>5. CASE ProcessAgain(w)
    <3>1. /\ worker[w] \in Ops /\ queue' = Append(queue, worker[w])
          /\ again' = again \cup {worker[w]} /\ UNCHANGED <<added, done>>
      BY <2>5 DEF ProcessAgain, Busy
    <3>2. /\ DOMAIN queue' = 1..(Len(queue) + 1) /\ queue'[Len(queue) + 1] = worker[w]
          /\ \A i \in DOMAIN queue : queue'[i] = queue[i]
      BY <1>2, <3>1
    <3>3. SUFFICES ASSUME NEW i \in DOMAIN added, NEW j \in DOMAIN added, i < j,
                          added[i] \notin again' \cup done
                   PROVE  \E q \in DOMAIN queue' : queue'[q] = added[j]
                            /\ \A p \in DOMAIN queue' : queue'[p] = added[i] => p < q
      BY <3>1 DEF Behind
    <3>4. added[i] \notin again \cup done /\ added[i] # worker[w]
      BY <3>1, <3>3
    <3>5. PICK q \in DOMAIN queue :
            queue[q] = added[j] /\ \A p \in DOMAIN queue : queue[p] = added[i] => p < q
      BY <3>3, <3>4 DEF OrderInv, Behind
    <3>6. q \in DOMAIN queue' /\ queue'[q] = added[j]
      BY <1>0, <3>2, <3>5
    <3>7. \A p \in DOMAIN queue' : queue'[p] = added[i] => p < q
      BY <1>0, <3>2, <3>4, <3>5
    <3>8. QED
      BY <3>6, <3>7
  <2>6. QED
    BY <1>5, <2>1, <2>2, <2>3, <2>4, <2>5 DEF Worker
<1>6. CASE UNCHANGED vars
  BY <1>1, <1>6 DEF vars, history
<1>7. QED
  BY <1>3, <1>4, <1>5, <1>6 DEF Next, Main

LEMMA NextDeadAfterFailure ==
  ASSUME OneThread, TypeOK, DeadAfterFailure, [Next]_vars
  PROVE  DeadAfterFailure'
<1>0. /\ worker \in [Workers -> Ops \cup {Idle, Exited, Dead}] /\ Idle # Dead /\ Dead \notin Ops
      /\ \A u, w \in Workers : u = w
  BY AsyncPoolAssumption DEF TypeOK, OneThread
<1>1. ASSUME UNCHANGED <<worker, failed>> PROVE DeadAfterFailure'
  BY <1>1 DEF DeadAfterFailure
<1>2. ASSUME NEW o \in Ops, OpAdd(o) PROVE DeadAfterFailure'
  BY <1>1, <1>2 DEF OpAdd
<1>3. CASE Create \/ Finalize \/ FinalizeReturns \/ Leave \/ Stop \/ Joined
  BY <1>1, <1>3 DEF Create, Finalize, FinalizeReturns, Leave, Stop, Joined, history
<1>4. ASSUME NEW w \in Workers, Worker(w) PROVE DeadAfterFailure'
  <2>1. ASSUME worker[w] # Dead, UNCHANGED failed PROVE DeadAfterFailure'
    BY <2>1 DEF DeadAfterFailure
  <2>2. CASE Take(w) \/ Complete(w) \/ Quit(w)
    BY <1>0, <2>1, <2>2 DEF Take, Complete, Quit, history
  <2>3. CASE Process(w) \/ ProcessAgain(w)
    BY <1>0, <2>1, <2>3 DEF Process, ProcessAgain, Busy
  <2>4. CASE ProcessFails(w)
    <3>1. worker' = [worker EXCEPT ![w] = Dead]
      BY <2>4 DEF ProcessFails
    <3>2. \A u \in Workers : worker'[u] = Dead
      BY <1>0, <3>1
    <3>3. QED
      BY <3>2 DEF DeadAfterFailure
  <2>5. QED
    BY <1>4, <2>2, <2>3, <2>4 DEF Worker
<1>5. CASE UNCHANGED vars
  BY <1>1, <1>5 DEF vars, history
<1>6. QED
  BY <1>2, <1>3, <1>4, <1>5 DEF Next, Main

\* create, define, write and close of a file happen in this order when the pool has one
\* thread: an operation is processed after those added before it, but for the ones that
\* put themselves back (spio_async_tpool.cpp, the default of SPIO_ASYNC_NTHREADS).
THEOREM OneThreadKeepsOrder ==
  ASSUME OneThread
  PROVE  Spec => []InOrder
<1>1. Init => Behind /\ DeadAfterFailure
  BY DEF Init, Behind, DeadAfterFailure
<1>2. OrderInv /\ [Next]_vars => Behind' /\ DeadAfterFailure'
  BY NextBehind, NextDeadAfterFailure DEF OrderInv, PlaceInv
<1>3. OrderInv => InOrder
  <2> SUFFICES ASSUME OrderInv, NEW i \in DOMAIN added, NEW j \in DOMAIN added,
                      i < j, added[j] \in done, added[i] \notin again, added[i] \notin done
               PROVE  FALSE
    BY DEF InOrder
  <2>1. added[j] \in Queued
    BY DEF OrderInv, Behind, Queued
  <2>2. QED
    BY <2>1 DEF OrderInv, PlaceInv, Apart
<1>4. QED
  <2>1. PlaceInv /\ Behind /\ DeadAfterFailure <=> OrderInv
    BY DEF OrderInv
  <2>2. QED
    BY <1>1, <1>2, <1>3, <2>1, PlaceInvariant, PTL DEF Spec
=============================================================================
