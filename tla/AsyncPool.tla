------------------------------ MODULE AsyncPool ------------------------------
(***************************************************************************)
(* The thread pool of the progress engine and its multi-threaded queue     *)
(* (spio_async_tpool.cpp, spio_async_mtq.hpp): the application's thread    *)
(* adds asynchronous operations, the pool's threads take them off the      *)
(* queue and process them, and finalize sends the COMPLETE signal and      *)
(* waits for a thread to acknowledge it.  The static manager sends         *)
(* COMPLETE again, then STOP, and joins the threads when the process exits.*)
(*                                                                         *)
(* Each action is one critical section of the queue's mutex, or the end of *)
(* the processing of an operation.  The waits on the condition variables   *)
(* are not modelled as blocking: their predicates are the condition to     *)
(* wait on, not the one to wait for, so they return at once and the loops  *)
(* poll (thread_yield gives the mutex away between two turns).             *)
(***************************************************************************)
EXTENDS Integers, Sequences, FiniteSets

CONSTANTS
  Ops,        \* asynchronous operations the application may add
  Workers,    \* the pool's threads: SPIO_ASYNC_NTHREADS of them
  MaxInit,    \* bound: I/O systems initialized at one time
  MaxAgain,   \* bound: how often operations add themselves again
  MaxDeaths   \* bound: operations that fail and end their thread

CONSTANTS Idle, Exited, Dead  \* states of a thread that processes nothing

ASSUME AsyncPoolAssumption ==
  /\ Workers # {}
  /\ MaxInit \in Nat \ {0} /\ MaxAgain \in Nat /\ MaxDeaths \in Nat
  /\ {Idle, Exited, Dead} \cap Ops = {}
  /\ Idle # Exited /\ Idle # Dead /\ Exited # Dead

VARIABLES
  initCnt,  \* pio_async_init_cnt: users of the pool (I/O systems)
  pool,     \* the pool has been created
  queue,    \* mtq_.queue_
  sig,      \* mtq_.sig_
  worker,   \* worker[w]: the operation w processes, or Idle, Exited, Dead
  main,     \* where the application's thread is in this code
  added,    \* history: the operations added, in order
  done,     \* history: operations processed and freed
  failed,   \* history: operations that ended their thread
  again,    \* history: operations that added themselves again
  nagain    \* history: how many times that happened

history == <<added, done, failed, again, nagain>>
vars == <<initCnt, pool, queue, sig, worker, main, history>>

Alive(w) == worker[w] \notin {Exited, Dead}
Busy(w) == worker[w] \in Ops
AddedOps == {added[i] : i \in DOMAIN added}

-----------------------------------------------------------------------------
(* The application's thread                                                *)

Init ==
  /\ initCnt = 0
  /\ pool = FALSE
  /\ queue = <<>>
  /\ sig = "INVALID"
  /\ worker = [w \in Workers |-> Idle]
  /\ main = "user"
  /\ added = <<>>
  /\ done = {}
  /\ failed = {}
  /\ again = {}
  /\ nagain = 0

\* pio_async_tpool_create: one more user of the pool (an I/O system).
Create ==
  /\ main = "user" /\ initCnt < MaxInit
  /\ initCnt' = initCnt + 1
  /\ UNCHANGED <<pool, queue, sig, worker, main, history>>

\* Slip: every operation takes a reference to the pool.
OpAddCounts(o) ==
  /\ main = "user"
  /\ o \in Ops \ AddedOps
  /\ initCnt' = initCnt + 1
  /\ pool' = TRUE
  /\ queue' = Append(queue, o)
  /\ added' = Append(added, o)
  /\ UNCHANGED <<sig, worker, main, done, failed, again, nagain>>

\* pio_async_tpool_op_add: the first call starts the threads; initCnt is not
\* looked at.
OpAdd(o) ==
  /\ main = "user"
  /\ o \in Ops \ AddedOps
  /\ pool' = TRUE
  /\ queue' = Append(queue, o)
  /\ added' = Append(added, o)
  /\ UNCHANGED <<initCnt, sig, worker, main, done, failed, again, nagain>>

\* signal(COMPLETE), up to the first test of its waiting loop.
SignalComplete(next) ==
  /\ pool' = TRUE
  /\ sig' = "COMPLETE"
  /\ main' = next

\* pio_async_tpool_finalize, once for each create: the last completes the queue.
Finalize ==
  /\ main = "user" /\ initCnt > 0
  /\ initCnt' = initCnt - 1
  /\ \/ initCnt = 1 /\ SignalComplete("finalizing")
     \/ initCnt > 1 /\ UNCHANGED <<pool, sig, main>>
  /\ UNCHANGED <<queue, worker, history>>

\* Slip: signal() does not wait.
AcknowledgedAtOnce == TRUE

\* The waiting loop of signal(COMPLETE) ends.
Acknowledged == sig # "COMPLETE"

FinalizeReturns ==
  /\ main = "finalizing" /\ Acknowledged
  /\ main' = "user"
  /\ UNCHANGED <<initCnt, pool, queue, sig, worker, history>>

\* The process exits: ~PIO_async_tpool_manager runs.
Leave ==
  /\ main = "user"
  /\ \/ pool /\ SignalComplete("leaving")
     \/ ~pool /\ main' = "gone" /\ UNCHANGED <<pool, sig>>
  /\ UNCHANGED <<initCnt, queue, worker, history>>

\* ~PIO_async_tpool: signal(STOP), then the threads are joined.
Stop ==
  /\ main = "leaving" /\ Acknowledged
  /\ sig' = "STOP"
  /\ main' = "joining"
  /\ UNCHANGED <<initCnt, pool, queue, worker, history>>

Joined ==
  /\ main = "joining"
  /\ \A w \in Workers : ~Alive(w)
  /\ main' = "gone"
  /\ UNCHANGED <<initCnt, pool, queue, sig, worker, history>>

-----------------------------------------------------------------------------
(* The threads of the pool: dequeue_and_process                            *)

\* Slip: the newest operation is taken first.
TakeLast(w) ==
  /\ pool /\ worker[w] = Idle
  /\ sig # "STOP" /\ queue # <<>>
  /\ worker' = [worker EXCEPT ![w] = queue[Len(queue)]]
  /\ queue' = SubSeq(queue, 1, Len(queue) - 1)
  /\ UNCHANGED <<initCnt, pool, sig, main, history>>

\* dequeue() returns the front of the queue: there is one, and no STOP.
Take(w) ==
  /\ pool /\ worker[w] = Idle
  /\ sig # "STOP" /\ queue # <<>>
  /\ worker' = [worker EXCEPT ![w] = Head(queue)]
  /\ queue' = Tail(queue)
  /\ UNCHANGED <<initCnt, pool, sig, main, history>>

\* Slip: COMPLETE ends the thread instead of being reset.
CompleteAndExit(w) ==
  /\ pool /\ worker[w] = Idle
  /\ sig = "COMPLETE" /\ queue = <<>>
  /\ worker' = [worker EXCEPT ![w] = Exited]
  /\ UNCHANGED <<initCnt, pool, queue, sig, main, history>>

\* Slip: COMPLETE is acknowledged with operations still in the queue.
CompleteEarly(w) ==
  /\ pool /\ worker[w] = Idle
  /\ sig = "COMPLETE"
  /\ sig' = "INVALID"
  /\ UNCHANGED <<initCnt, pool, queue, worker, main, history>>

\* dequeue() sees COMPLETE and an empty queue: it resets the signal.
Complete(w) ==
  /\ pool /\ worker[w] = Idle
  /\ sig = "COMPLETE" /\ queue = <<>>
  /\ sig' = "INVALID"
  /\ UNCHANGED <<initCnt, pool, queue, worker, main, history>>

\* Slip: a thread waits for an operation before it looks at the signal.
QuitIfQueued(w) ==
  /\ pool /\ worker[w] = Idle
  /\ sig = "STOP" /\ queue # <<>>
  /\ worker' = [worker EXCEPT ![w] = Exited]
  /\ UNCHANGED <<initCnt, pool, queue, sig, main, history>>

\* dequeue() sees STOP, whatever is in the queue: the thread ends.
Quit(w) ==
  /\ pool /\ worker[w] = Idle
  /\ sig = "STOP"
  /\ worker' = [worker EXCEPT ![w] = Exited]
  /\ UNCHANGED <<initCnt, pool, queue, sig, main, history>>

\* The operation's wait function succeeds and the operation is freed.
Process(w) ==
  /\ Busy(w)
  /\ done' = done \cup {worker[w]}
  /\ worker' = [worker EXCEPT ![w] = Idle]
  /\ UNCHANGED <<initCnt, pool, queue, sig, main, added, failed, again, nagain>>

\* Slip: an operation that is not ready is dropped.
ProcessAgainDropped(w) ==
  /\ Busy(w) /\ nagain < MaxAgain
  /\ worker' = [worker EXCEPT ![w] = Idle]
  /\ again' = again \cup {worker[w]}
  /\ nagain' = nagain + 1
  /\ UNCHANGED <<initCnt, pool, queue, sig, main, added, done, failed>>

\* The operation adds itself again (pio_iosys_async_file_close_op_wait of a
\* file with pending operations) and its first turn ends.
ProcessAgain(w) ==
  /\ Busy(w) /\ nagain < MaxAgain
  /\ queue' = Append(queue, worker[w])
  /\ worker' = [worker EXCEPT ![w] = Idle]
  /\ again' = again \cup {worker[w]}
  /\ nagain' = nagain + 1
  /\ UNCHANGED <<initCnt, pool, sig, main, added, done, failed>>

\* The operation fails: with an error handler that returns, the thread leaves
\* dequeue_and_process with the error and the operation is not freed.
ProcessFails(w) ==
  /\ Busy(w) /\ Cardinality(failed) < MaxDeaths
  /\ failed' = failed \cup {worker[w]}
  /\ worker' = [worker EXCEPT ![w] = Dead]
  /\ UNCHANGED <<initCnt, pool, queue, sig, main, added, done, again, nagain>>

Worker(w) ==
  \/ Take(w) \/ Complete(w) \/ Quit(w)
  \/ Process(w) \/ ProcessAgain(w) \/ ProcessFails(w)

Main ==
  \/ Create
  \/ \E o \in Ops : OpAdd(o)
  \/ Finalize
  \/ FinalizeReturns
  \/ Leave
  \/ Stop
  \/ Joined

Next == Main \/ \E w \in Workers : Worker(w)

\* The operating system runs every thread, and a thread that polls gets the
\* mutex in the end; the application need not call anything.
Fairness ==
  /\ \A w \in Workers : WF_vars(Worker(w))
  /\ WF_vars(FinalizeReturns) /\ WF_vars(Stop) /\ WF_vars(Joined)

Spec == Init /\ [][Next]_vars /\ Fairness

-----------------------------------------------------------------------------
(* Properties                                                              *)

TypeOK ==
  /\ initCnt \in 0..MaxInit
  /\ pool \in BOOLEAN
  /\ queue \in Seq(Ops)
  /\ sig \in {"INVALID", "STOP", "COMPLETE"}
  /\ worker \in [Workers -> Ops \cup {Idle, Exited, Dead}]
  /\ main \in {"user", "finalizing", "leaving", "joining", "gone"}
  /\ added \in Seq(Ops)
  /\ done \in SUBSET Ops
  /\ failed \in SUBSET Ops
  /\ again \in SUBSET Ops
  /\ nagain \in 0..MaxAgain

\* "Notify threads that all async ops are complete": once the COMPLETE signal
\* is acknowledged, and until the application's thread acts on it, nothing is
\* queued and no thread is processing an operation.
CompleteMeansComplete ==
  main \in {"finalizing", "leaving"} /\ sig # "COMPLETE" =>
    queue = <<>> /\ \A w \in Workers : ~Busy(w)

\* The STOP signal of the destructor, which threads obey without looking at the
\* queue, is only ever sent when there is nothing left that it could lose:
\* every operation added was processed or has failed.
StopLosesNothing ==
  sig = "STOP" => queue = <<>> /\ AddedOps \subseteq done \cup failed

\* An operation is in one place: queued once, or in the hands of one thread, or
\* processed, or failed; none is lost and none is processed twice (its free
\* function would free its data twice).
OnePlace ==
  \A o \in AddedOps :
    Cardinality({i \in DOMAIN queue : queue[i] = o})
      + Cardinality({w \in Workers : worker[w] = o})
      + Cardinality({S \in {done, failed} : o \in S}) = 1

\* Operations are processed in the order they were added (create, define,
\* write, close of one HDF5 file), but for those that add themselves again.
InOrder ==
  \A i, j \in DOMAIN added :
    i < j /\ added[j] \in done /\ added[i] \notin again => added[i] \in done

\* pio_async_tpool_finalize of the last user returns: a thread always
\* acknowledges COMPLETE, unless a failed operation has ended one.
FinalizeEnds ==
  main = "finalizing" ~> (main # "finalizing" \/ failed # {})

\* The destructor joins every thread, none misses the STOP signal.
ExitEnds == main = "leaving" ~> (main = "gone" \/ failed # {})
=============================================================================
