------------------------------ MODULE AsyncFile ------------------------------
(***************************************************************************)
(* One HDF5 file with the asynchronous write thread (configured with       *)
(* PIO_USE_ASYNC_WR_THREAD): spio_async_hdf5_utils.cpp, the close operation *)
(* of spio_async_utils.cpp, and the waits of pio_lists.cpp, pio_file.cpp   *)
(* and pioc.cpp on what the pool's threads have left to do.                *)
(*                                                                         *)
(* Every call on the file queues an operation that points to the file      *)
(* structure.  Closing is soft: an operation too, which closes the HDF5    *)
(* file when no other is pending and puts itself back in the queue         *)
(* otherwise.  The structure is freed by the application's thread, when    *)
(* the same file name is created again or in PIOc_finalize.                *)
(*                                                                         *)
(* The queue is the one of AsyncPool, without its signals.  The steps of   *)
(* the threads are the accesses to the file structure they share.          *)
(***************************************************************************)
EXTENDS Integers, Sequences, FiniteSets

CONSTANTS
  Vars,        \* variable ids of the file
  RecordVars,  \* those with an unlimited dimension
  Frames,      \* the frames (records) PIOc_setframe may choose
  Decomps,     \* I/O decomposition ids
  DecompOf,    \* DecompOf[v]: the decomposition v is written with
  Workers,     \* the pool's threads
  MaxFiles,    \* bound: files created
  MaxWrites,   \* bound: calls to PIOc_write_darray
  MaxMeta,     \* bound: calls to PIOc_setframe and to the metadata functions
  MaxFailures  \* bound: write operations that fail

CONSTANTS Idle, Dead  \* threads that process nothing, or have ended

NoFrame == -1

ASSUME AsyncFileAssumption ==
  /\ RecordVars \subseteq Vars
  /\ Frames \subseteq Nat
  /\ DecompOf \in [Vars -> Decomps]
  /\ {MaxFiles, MaxWrites, MaxMeta, MaxFailures} \subseteq Nat
  /\ IsFiniteSet(Workers)
  /\ Idle # Dead

VARIABLES
  main,      \* where the application's thread is
  file,      \* the file structure: "none", "open", "closing" (soft closed)
  hard,      \* file->is_hard_closed
  npend,     \* file->npend_ops
  nglobal,   \* npend_hdf5_async_ops: the operations of all HDF5 files
  record,    \* file->varlist[v].record, shared by the threads
  cache,     \* the arrays in the write cache of the file, per wmb
  listed,    \* the global list of decompositions
  nasync,    \* iodesc->nasync_pend_ops of each decomposition
  queue,     \* operations in the queue of the pool
  worker,    \* worker[w]: the operation w processes and how far it is
  failed,    \* history: the operations that failed
  want,      \* history: the frame the user set last
  nfiles, nwrites, nmeta,  \* history: calls so far
  accepted,  \* history: arrays accepted for this file
  landed     \* history: arrays written to this file, and at which frame

bounded == <<nfiles, nwrites, nmeta>>
vars == <<main, file, hard, npend, nglobal, record, cache, listed, nasync, queue,
          worker, failed, want, bounded, accepted, landed>>

-----------------------------------------------------------------------------
(* Data                                                                    *)

AnyFrame == Frames \cup {NoFrame}

\* An array and the frame cached with it; want is the one the user had set.
Arrays == [var: Vars, frame: AnyFrame, want: AnyFrame, ver: Nat]

Wmbs == [ioid: Decomps, rec: BOOLEAN]

\* "meta": file creation, definitions, attributes, put_var; all alike here.
MetaOp == [type |-> "meta"]
CloseOp == [type |-> "close"]
FrameOp(v, f) == [type |-> "frame", var |-> v, frame |-> f]
WriteOp(d, s) == [type |-> "write", ioid |-> d, arrays |-> s]

Ops == {MetaOp, CloseOp} \cup {FrameOp(v, f) : v \in Vars, f \in Frames}
         \cup [type: {"write"}, ioid: Decomps, arrays: Seq(Arrays)]

\* What a thread is doing: op, the arrays still to write, and the start of
\* the record dimension left in vreg_infos by the array before.
Tasks == [op: Ops, todo: Seq(Arrays), start: AnyFrame \cup {0}]

\* What a thread is doing is none of these states.
ASSUME ThreadStatesAssumption == {Idle, Dead} \cap Tasks = {}

Busy(w) == worker[w] \notin {Idle, Dead}

\* How many operations that satisfy P are queued, being processed or failed.
Pending(P(_)) ==
  Cardinality({i \in DOMAIN queue : P(queue[i])})
    + Cardinality({w \in Workers : Busy(w) /\ P(worker[w].op)})
    + Cardinality({n \in DOMAIN failed : P(failed[n])})

-----------------------------------------------------------------------------
(* The application's thread                                                *)

Init ==
  /\ main = "user"
  /\ file = "none"
  /\ hard = FALSE
  /\ npend = 0
  /\ nglobal = 0
  /\ record = [v \in Vars |-> NoFrame]
  /\ cache = [k \in Wmbs |-> <<>>]
  /\ listed = Decomps
  /\ nasync = [d \in Decomps |-> 0]
  /\ queue = <<>>
  /\ worker = [w \in Workers |-> Idle]
  /\ failed = <<>>
  /\ want = [v \in Vars |-> NoFrame]
  /\ nfiles = 0 /\ nwrites = 0 /\ nmeta = 0
  /\ accepted = {}
  /\ landed = {}

\* A new file structure, and the operation that creates the HDF5 file.
NewFile ==
  /\ main' = "user"
  /\ file' = "open"
  /\ hard' = FALSE
  /\ npend' = 1
  /\ nglobal' = nglobal + 1
  /\ record' = [v \in Vars |-> NoFrame]
  /\ want' = [v \in Vars |-> NoFrame]
  /\ queue' = Append(queue, MetaOp)
  /\ accepted' = {}
  /\ landed' = {}
  /\ UNCHANGED <<cache, listed, nasync, worker, failed, bounded>>

\* PIOc_createfile; a file of that name may still be in the list, soft closed.
CreateFile ==
  /\ main = "user" /\ file # "open" /\ nfiles < MaxFiles
  /\ nfiles' = nfiles + 1
  /\ main' = "creating"
  /\ UNCHANGED <<file, hard, npend, nglobal, record, cache, listed, nasync, queue,
                 worker, failed, want, nwrites, nmeta, accepted, landed>>

\* The end of spio_wait_on_hard_close: the old structure is freed.
Closed == file = "none" \/ hard

CreateReturns == main = "creating" /\ Closed /\ NewFile

\* spio_wait_on_hard_close gives up after SPIO_ASYNC_OP_WAIT_TIMEOUT and the
\* structure is freed under the pending operations: undefined from there on.
GiveUp ==
  /\ main \in {"creating", "opening", "deleting", "files"} /\ ~Closed
  /\ main' = "gave up"
  /\ UNCHANGED <<file, hard, npend, nglobal, record, cache, listed, nasync, queue,
                 worker, failed, want, bounded, accepted, landed>>

\* PIOc_def_var, PIOc_put_att, PIOc_enddef, PIOc_put_var.
Meta ==
  /\ main = "user" /\ file = "open" /\ nmeta < MaxMeta
  /\ nmeta' = nmeta + 1
  /\ npend' = npend + 1
  /\ nglobal' = nglobal + 1
  /\ queue' = Append(queue, MetaOp)
  /\ UNCHANGED <<main, file, hard, record, cache, listed, nasync, worker,
                 failed, want, nfiles, nwrites, accepted, landed>>

\* PIOc_setframe sets the record and queues an operation that sets it again.
SetFrame(v, f) ==
  /\ main = "user" /\ file = "open" /\ nmeta < MaxMeta
  /\ v \in RecordVars
  /\ nmeta' = nmeta + 1
  /\ record' = [record EXCEPT ![v] = f]
  /\ want' = [want EXCEPT ![v] = f]
  /\ npend' = npend + 1
  /\ nglobal' = nglobal + 1
  /\ queue' = Append(queue, FrameOp(v, f))
  /\ UNCHANGED <<main, file, hard, cache, listed, nasync, worker, failed,
                 nfiles, nwrites, accepted, landed>>

\* Slip: the file does not count its write operations.
FlushUncounted(k) ==
  /\ npend' = npend
  /\ nglobal' = nglobal + 1
  /\ nasync' = [nasync EXCEPT ![k.ioid] = @ + 1]
  /\ queue' = Append(queue, WriteOp(k.ioid, cache[k]))

\* flush_buffer down to pio_iosys_async_hdf5_write_op_add: data is copied.
Flush(k) ==
  /\ npend' = npend + 1
  /\ nglobal' = nglobal + 1
  /\ nasync' = [nasync EXCEPT ![k.ioid] = @ + 1]
  /\ queue' = Append(queue, WriteOp(k.ioid, cache[k]))

\* PIOc_write_darray: the wmb is flushed first if it is full.
WriteDarray(v, full) ==
  LET k == [ioid |-> DecompOf[v], rec |-> record[v] >= 0]
      a == [var |-> v, frame |-> record[v], want |-> want[v], ver |-> nwrites + 1]
  IN
  /\ main = "user" /\ file = "open" /\ nwrites < MaxWrites
  /\ k.ioid \in listed
  /\ v \in RecordVars => record[v] # NoFrame
  /\ nwrites' = nwrites + 1
  /\ accepted' = accepted \cup {a}
  /\ \/ /\ full /\ cache[k] # <<>>
        /\ Flush(k)
        /\ cache' = [cache EXCEPT ![k] = <<a>>]
     \/ /\ ~full
        /\ cache' = [cache EXCEPT ![k] = Append(@, a)]
        /\ UNCHANGED <<npend, nglobal, nasync, queue>>
  /\ UNCHANGED <<main, file, hard, record, listed, worker, failed, want, nfiles,
                 nmeta, landed>>

\* PIOc_sync and PIOc_closefile flush every wmb of the file.
CallSync(call) ==
  /\ main = "user" /\ file = "open"
  /\ main' = call
  /\ UNCHANGED <<file, hard, npend, nglobal, record, cache, listed, nasync, queue,
                 worker, failed, want, bounded, accepted, landed>>

SyncWmb(k) ==
  /\ main \in {"sync", "close"}
  /\ cache[k] # <<>>
  /\ Flush(k)
  /\ cache' = [cache EXCEPT ![k] = <<>>]
  /\ UNCHANGED <<main, file, hard, record, listed, worker, failed, want,
                 bounded, accepted, landed>>

\* For HDF5 sync_file does nothing more; spio_soft_closefile queues the close.
SyncReturns ==
  /\ main \in {"sync", "close"} /\ \A k \in Wmbs : cache[k] = <<>>
  /\ main' = "user"
  /\ \/ main = "sync" /\ UNCHANGED <<file, nglobal, queue>>
     \/ /\ main = "close"
        /\ file' = "closing"
        /\ nglobal' = nglobal + 1
        /\ queue' = Append(queue, CloseOp)
  /\ UNCHANGED <<hard, npend, record, cache, listed, nasync, worker, failed,
                 want, bounded, accepted, landed>>

\* PIOc_freedecomp: a decomposition with pending operations stays in the list.
FreeDecomp(d) ==
  /\ main = "user" /\ d \in listed
  /\ nasync[d] = 0
  /\ listed' = listed \ {d}
  /\ UNCHANGED <<main, file, hard, npend, nglobal, record, cache, nasync, queue, worker,
                 failed, want, bounded, accepted, landed>>

\* PIOc_openfile and PIOc_deletefile of the same name: the file in the list is
\* waited for and its structure freed.
Revisit(call) ==
  /\ main = "user" /\ file # "open"
  /\ main' = call
  /\ UNCHANGED <<file, hard, npend, nglobal, record, cache, listed, nasync,
                 queue, worker, failed, want, bounded, accepted, landed>>

\* PIOc_openfile goes on to wait for the operations of all HDF5 files, and
\* leaves the file to NetCDF-4.
RevisitReturns ==
  /\ main \in {"opening", "deleting"} /\ Closed
  /\ main' = IF main = "opening" THEN "draining" ELSE "user"
  /\ file' = "none"
  /\ UNCHANGED <<hard, npend, nglobal, record, cache, listed, nasync, queue,
                 worker, failed, want, bounded, accepted, landed>>

\* PIOc_openfile of another HDF5 file, PIOc_closefile of one that is not HDF5.
OtherFile ==
  /\ main = "user"
  /\ main' = "draining"
  /\ UNCHANGED <<file, hard, npend, nglobal, record, cache, listed, nasync,
                 queue, worker, failed, want, bounded, accepted, landed>>

\* spio_wait_all_hdf5_async_ops, without a time limit.
Drained ==
  /\ main = "draining" /\ nglobal = 0
  /\ main' = "user"
  /\ UNCHANGED <<file, hard, npend, nglobal, record, cache, listed, nasync,
                 queue, worker, failed, want, bounded, accepted, landed>>

\* PIOc_finalize: first wait for the files, ...
Finalize ==
  /\ main = "user" /\ file # "open"
  /\ main' = "files"
  /\ UNCHANGED <<file, hard, npend, nglobal, record, cache, listed, nasync, queue,
                 worker, failed, want, bounded, accepted, landed>>

FilesClosed ==
  /\ main = "files" /\ Closed
  /\ main' = "decomps"
  /\ file' = "none"
  /\ UNCHANGED <<hard, npend, nglobal, record, cache, listed, nasync, queue, worker,
                 failed, want, bounded, accepted, landed>>

\* ... then for the operations of each decomposition left, and free it.
DeleteDecomp(d) ==
  /\ main = "decomps" /\ d \in listed
  /\ nasync[d] = 0
  /\ listed' = listed \ {d}
  /\ UNCHANGED <<main, file, hard, npend, nglobal, record, cache, nasync, queue, worker,
                 failed, want, bounded, accepted, landed>>

FinalizeReturns ==
  /\ main = "decomps" /\ listed = {}
  /\ main' = "done"
  /\ UNCHANGED <<file, hard, npend, nglobal, record, cache, listed, nasync, queue,
                 worker, failed, want, bounded, accepted, landed>>

-----------------------------------------------------------------------------
(* The threads of the pool                                                 *)

\* dequeue().  The start of the record dimension comes from the first variable.
Take(w) ==
  LET op == Head(queue)
      isWrite == op.type = "write"
  IN
  /\ main # "gave up"
  /\ worker[w] = Idle /\ queue # <<>>
  /\ queue' = Tail(queue)
  /\ worker' = [worker EXCEPT ![w] =
       [op |-> op,
        todo |-> IF isWrite THEN op.arrays ELSE <<>>,
        start |-> IF isWrite /\ record[op.arrays[1].var] >= 0 THEN 0 ELSE NoFrame]]
  /\ UNCHANGED <<main, file, hard, npend, nglobal, record, cache, listed, nasync, failed,
                 want, bounded, accepted, landed>>

Doing(w, type) == main # "gave up" /\ Busy(w) /\ worker[w].op.type = type

\* One array of pio_iosys_async_op_hdf5_write.  The cached frame is used if the
\* record of the variable, now, is greater than 0; else the last start stays.
WriteArray(w) ==
  LET t == worker[w]
      a == Head(t.todo)
      start == IF record[a.var] > 0 THEN a.frame ELSE t.start
  IN
  /\ Doing(w, "write") /\ t.todo # <<>>
  /\ landed' = landed \cup {[array |-> a, at |-> start]}
  /\ worker' = [worker EXCEPT ![w] = [t EXCEPT !.todo = Tail(@), !.start = start]]
  /\ UNCHANGED <<main, file, hard, npend, nglobal, record, cache, listed, nasync, queue,
                 failed, want, bounded, accepted>>

\* Slip: the decomposition stays in use.
WriteDoneKeepsDecomp(w) ==
  /\ Doing(w, "write") /\ worker[w].todo = <<>>
  /\ npend' = npend - 1
  /\ nglobal' = nglobal - 1
  /\ worker' = [worker EXCEPT ![w] = Idle]
  /\ UNCHANGED <<main, file, hard, record, cache, listed, nasync, queue, failed,
                 want, bounded, accepted, landed>>

\* The end of pio_iosys_async_op_hdf5_write.
WriteDone(w) ==
  /\ Doing(w, "write") /\ worker[w].todo = <<>>
  /\ nasync' = [nasync EXCEPT ![worker[w].op.ioid] = @ - 1]
  /\ npend' = npend - 1
  /\ nglobal' = nglobal - 1
  /\ worker' = [worker EXCEPT ![w] = Idle]
  /\ UNCHANGED <<main, file, hard, record, cache, listed, queue, failed, want,
                 bounded, accepted, landed>>

\* Slip: the counters are decremented on the error path too.
WriteFailsCounted(w) ==
  /\ Doing(w, "write") /\ worker[w].todo # <<>> /\ Len(failed) < MaxFailures
  /\ failed' = Append(failed, worker[w].op)
  /\ nasync' = [nasync EXCEPT ![worker[w].op.ioid] = @ - 1]
  /\ npend' = npend - 1
  /\ nglobal' = nglobal - 1
  /\ worker' = [worker EXCEPT ![w] = Dead]
  /\ UNCHANGED <<main, file, hard, record, cache, listed, queue, want, bounded,
                 accepted, landed>>

\* HDF5 reports an error: the operation returns without decrementing anything,
\* and dequeue_and_process ends the thread.
WriteFails(w) ==
  /\ Doing(w, "write") /\ worker[w].todo # <<>> /\ Len(failed) < MaxFailures
  /\ failed' = Append(failed, worker[w].op)
  /\ worker' = [worker EXCEPT ![w] = Dead]
  /\ UNCHANGED <<main, file, hard, npend, nglobal, record, cache, listed, nasync, queue,
                 want, bounded, accepted, landed>>

\* spio_iosys_async_op_hdf5_set_frame: spio_hdf5_set_frame sets the record.
RunSetFrame(w) ==
  /\ Doing(w, "frame")
  /\ record' = [record EXCEPT ![worker[w].op.var] = worker[w].op.frame]
  /\ npend' = npend - 1
  /\ nglobal' = nglobal - 1
  /\ worker' = [worker EXCEPT ![w] = Idle]
  /\ UNCHANGED <<main, file, hard, cache, listed, nasync, queue, failed, want,
                 bounded, accepted, landed>>

\* Slip: the operation forgets to say it is done.
RunMetaUncounted(w) ==
  /\ Doing(w, "meta")
  /\ worker' = [worker EXCEPT ![w] = Idle]
  /\ UNCHANGED <<main, file, hard, npend, nglobal, record, cache, listed, nasync, queue,
                 failed, want, bounded, accepted, landed>>

RunMeta(w) ==
  /\ Doing(w, "meta")
  /\ npend' = npend - 1
  /\ nglobal' = nglobal - 1
  /\ worker' = [worker EXCEPT ![w] = Idle]
  /\ UNCHANGED <<main, file, hard, record, cache, listed, nasync, queue, failed,
                 want, bounded, accepted, landed>>

\* Slip: the file is closed whatever is pending.
CloseAtOnce(w) ==
  /\ Doing(w, "close")
  /\ hard' = TRUE
  /\ nglobal' = nglobal - 1
  /\ worker' = [worker EXCEPT ![w] = Idle]
  /\ UNCHANGED <<main, file, npend, record, cache, listed, nasync, queue, failed,
                 want, bounded, accepted, landed>>

\* Slip: a close that is too early is not queued again.
CloseOnce(w) ==
  /\ Doing(w, "close")
  /\ hard' = (npend = 0)
  /\ nglobal' = nglobal - 1
  /\ worker' = [worker EXCEPT ![w] = Idle]
  /\ UNCHANGED <<main, file, npend, record, cache, listed, nasync, queue, failed,
                 want, bounded, accepted, landed>>

\* pio_iosys_async_file_close_op_wait.  Queued again, the operation is counted
\* for its next turn before it is discounted for this one.
Close(w) ==
  /\ Doing(w, "close")
  /\ \/ /\ npend = 0
        /\ hard' = TRUE
        /\ nglobal' = nglobal - 1
        /\ UNCHANGED queue
     \/ /\ npend # 0
        /\ queue' = Append(queue, CloseOp)
        /\ nglobal' = (nglobal + 1) - 1
        /\ UNCHANGED hard
  /\ worker' = [worker EXCEPT ![w] = Idle]
  /\ UNCHANGED <<main, file, npend, record, cache, listed, nasync, failed, want,
                 bounded, accepted, landed>>

-----------------------------------------------------------------------------
Worker(w) ==
  \/ Take(w) \/ WriteArray(w) \/ WriteDone(w) \/ WriteFails(w)
  \/ RunSetFrame(w) \/ RunMeta(w) \/ Close(w)

\* The calls the user makes, and what runs inside a call.
User ==
  \/ CreateFile
  \/ Meta
  \/ \E v \in Vars, f \in Frames : SetFrame(v, f)
  \/ \E v \in Vars, full \in BOOLEAN : WriteDarray(v, full)
  \/ \E call \in {"sync", "close"} : CallSync(call)
  \/ \E d \in Decomps : FreeDecomp(d)
  \/ \E call \in {"opening", "deleting"} : Revisit(call)
  \/ OtherFile
  \/ Finalize

Call ==
  \/ CreateReturns
  \/ \E k \in Wmbs : SyncWmb(k)
  \/ SyncReturns
  \/ RevisitReturns
  \/ Drained
  \/ FilesClosed
  \/ \E d \in Decomps : DeleteDecomp(d)
  \/ FinalizeReturns

Next == User \/ Call \/ GiveUp \/ \E w \in Workers : Worker(w)

\* The threads run and a call that can go on does; the user need not call
\* anything, a wait need not give up, HDF5 need not fail.
Fairness ==
  /\ WF_vars(Call)
  /\ \A w \in Workers : WF_vars(Worker(w))

Spec == Init /\ [][Next]_vars /\ Fairness

-----------------------------------------------------------------------------
(* Properties                                                              *)

TypeOK ==
  /\ main \in {"user", "creating", "sync", "close", "opening", "deleting",
               "draining", "files", "decomps", "done", "gave up"}
  /\ file \in {"none", "open", "closing"}
  /\ hard \in BOOLEAN
  /\ npend \in Nat
  /\ nglobal \in Nat
  /\ record \in [Vars -> AnyFrame] /\ want \in [Vars -> AnyFrame]
  /\ cache \in [Wmbs -> Seq(Arrays)]
  /\ listed \subseteq Decomps
  /\ nasync \in [Decomps -> Nat]
  /\ queue \in Seq(Ops)
  /\ worker \in [Workers -> Tasks \cup {Idle, Dead}]
  /\ failed \in Seq(Ops)
  /\ nfiles \in 0..MaxFiles /\ nwrites \in 0..MaxWrites /\ nmeta \in 0..MaxMeta
  /\ accepted \subseteq Arrays
  /\ landed \subseteq [array: Arrays, at: AnyFrame \cup {0}]

\* The counters that a close, a free and a wait go by are exact: npend_ops
\* counts the operations of the file but the close, nasync_pend_ops the writes
\* with a decomposition, npend_hdf5_async_ops all of them, in the queue, in a
\* thread or given up by one.
PendingExact ==
  /\ nglobal = Pending(LAMBDA op : TRUE)
  /\ npend = Pending(LAMBDA op : op.type # "close")
  /\ \A d \in Decomps :
       nasync[d] = Pending(LAMBDA op : op.type = "write" /\ op.ioid = d)

\* A file that is closed, and the structure that is then freed, has no
\* operation left anywhere that points to it.
StructOutlivesOps ==
  file = "none" \/ hard => Pending(LAMBDA op : TRUE) = 0

\* A file is never closed with data missing: whatever the user was told is
\* accepted has been written to it, even if a write has failed.
NothingLeftOut ==
  hard => \A a \in accepted : \E l \in landed : l.array = a

\* A soft close ends in a hard close, unless HDF5 fails or a wait has given up.
SoftCloseEnds ==
  file = "closing" ~> (hard \/ failed # <<>> \/ main = "gave up")

\* No wait lasts for ever.  PIOc_finalize ends: neither its wait for the files nor the
\* one for the decompositions' operations, which never gives up.  Nor does
\* spio_wait_all_hdf5_async_ops, so that PIOc_openfile and PIOc_closefile of another
\* file return.
WaitsEnd ==
  /\ main = "files" ~> (main = "done" \/ failed # <<>> \/ main = "gave up")
  /\ main = "draining" ~> (main = "user" \/ failed # <<>>)

\* "Set the record dimension value for this variable. This will be used by the
\* write_darray functions.": an array is cached with the frame the user set.
WritesTheFrameSet == \A a \in accepted : a.frame = a.want
=============================================================================
