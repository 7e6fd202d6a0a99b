----------------------------- MODULE WriteCache -----------------------------
(***************************************************************************)
(* The write cache of one open file (pio_darray.cpp, pio_darray_int.cpp,   *)
(* sync_file and PIOc_closefile in pio_file.cpp).                          *)
(*                                                                         *)
(* PIOc_write_darray does not write.  It copies the user's array into the  *)
(* write multi-buffer (wmb) of the pair (I/O decomposition, record or not) *)
(* and a later call flushes the whole wmb: the arrays are rearranged into  *)
(* one buffer of the file's multi-variable cache (mvcache) and handed to   *)
(* the I/O library.  Every library but PnetCDF has written the data when   *)
(* the flush returns; PnetCDF has only queued requests that keep pointing  *)
(* into the mvcache buffer until flush_output_buffer waits for them.       *)
(*                                                                         *)
(* The module follows a process that both computes and does I/O (no async  *)
(* I/O service, no write thread).  Data is a version number: the n-th call *)
(* to PIOc_write_darray writes version n.  The I/O decompositions are      *)
(* taken to cover the variable they are used for.                          *)
(***************************************************************************)
EXTENDS Integers, Sequences, FiniteSets

CONSTANTS
  Vars,           \* variable ids of the file
  RecordVars,     \* those with an unlimited dimension
  Frames,         \* the frames (records) PIOc_setframe may choose
  Decomps,        \* I/O decomposition ids (ioids); never reused
  DecompsOf,      \* DecompsOf[v]: the decompositions v is written with
  HoleFill,       \* SUBSET decompositions with needsfill (hole grid writes)
  Pnetcdf,        \* TRUE for PIO_IOTYPE_PNETCDF, FALSE for NetCDF iotypes
  RewritePending, \* may the user write a slot again before it is on disk?
  MaxWrites,      \* bound: calls to PIOc_write_darray
  MaxFailures     \* bound: library writes that return an error

NoFrame == -1

ASSUME WriteCacheAssumption ==
  /\ RecordVars \subseteq Vars
  /\ Frames \subseteq Nat
  /\ DecompsOf \in [Vars -> SUBSET Decomps]
  /\ HoleFill \subseteq Decomps
  /\ Pnetcdf \in BOOLEAN
  /\ RewritePending \in BOOLEAN
  /\ MaxWrites \in Nat
  /\ MaxFailures \in Nat

VARIABLES
  open,      \* the file is open for writing
  phase,     \* "user", or the loop of sync_file: "sync", "close"; "aborted"
  ret,       \* what the last completed call returned
  decomps,   \* the global list of decompositions
  frame,     \* vdesc->record of each variable
  wmbs,      \* the linked list behind file->buffer, in order of creation
  arrays,    \* arrays[k]: the arrays cached in wmb k, oldest first
  refs,      \* file->io_desc_refs: refs[v], decompositions kept alive for v
  io,        \* what the flushes act on: see IoState
  nwrites,   \* history: number of PIOc_write_darray calls accepted
  nfailures, \* history: number of library errors so far
  latest     \* history: last version accepted for each slot, 0 if none

vars == <<open, phase, ret, decomps, frame, wmbs, arrays, refs, io,
          nwrites, nfailures, latest>>

-----------------------------------------------------------------------------
(* Data                                                                    *)

\* A wmb serves one decomposition, for record or for non-record variables.
Wmbs == [ioid: Decomps, rec: BOOLEAN]

\* The place in the file an array goes to.
Slots == [var: Vars, frame: Frames \cup {NoFrame}]

Versions == Nat \ {0}

\* An entry of a wmb: vid[i], frame[i] and data of wmulti_buffer.
CachedArray == [slot: Slots, ver: Versions]

\* A pending ncmpi_iput_varn: it reads the mvcache buffer of ioid when waited for.
Request == [slot: Slots, ver: Versions, ioid: Decomps]

\* mv: ioids whose mvcache buffer is in use; reqs: pending PnetCDF requests;
\* fillbuf: variables whose fillbuf is in use; disk: the versions a slot of the
\* file may hold (a set, because PnetCDF does not order overlapping requests
\* of one wait).  leftMv, leftFill: history, the buffers that were in use when a
\* blocking library failed on them; no code releases these.
IoState == [mv: SUBSET Decomps, reqs: SUBSET Request, fillbuf: SUBSET Vars,
            disk: [Slots -> SUBSET Versions],
            leftMv: SUBSET Decomps, leftFill: SUBSET Vars]

\* The library calls of a flush that fail: those that write the data, those
\* that write the fill values of the hole grid, or none.
Failures == {"none", "data", "fill"}

WmbOf(v, d) == [ioid |-> d, rec |-> frame[v] >= 0]

\* Slip: frames taken as 1-based.
SlotOfOneBased(v) == [var |-> v, frame |-> frame[v] - 1]

SlotOf(v) == [var |-> v, frame |-> frame[v]]

VarsIn(s) == {s[i].slot.var : i \in DOMAIN s}

\* The versions of slot x that are cached in a wmb or in a pending request.
Buffered(x) ==
  UNION {{arrays[k][i].ver : i \in {j \in DOMAIN arrays[k] : arrays[k][j].slot = x}}
         : k \in Wmbs}

Requested(S, x) == {r.ver : r \in {q \in S.reqs : q.slot = x}}

-----------------------------------------------------------------------------
(* The I/O side of a flush, as functions on IoState                        *)

\* flush_output_buffer when it does flush: wait for all requests, then release
\* every mvcache buffer and fill buffer.
WaitAll(S) ==
  [S EXCEPT !.mv = {}, !.reqs = {}, !.fillbuf = {},
            !.disk = [x \in Slots |-> IF Requested(S, x) = {} THEN S.disk[x]
                                      ELSE Requested(S, x)]]

\* Slip: the loop over the arrays stops one short.
PutBlockingStopsShort(S, s) ==
  [S EXCEPT !.disk = [x \in Slots |->
     LET hits == {i \in 1..Len(s) - 1 : s[i].slot = x}
     IN  IF hits = {} THEN S.disk[x]
         ELSE {s[i].ver : i \in {j \in hits : \A h \in hits : h <= j}}]]

\* A blocking library writes the arrays in order: the last one to a slot stays.
PutBlocking(S, s) ==
  [S EXCEPT !.disk = [x \in Slots |->
     LET hits == {i \in DOMAIN s : s[i].slot = x}
     IN  IF hits = {} THEN S.disk[x]
         ELSE {s[i].ver : i \in {j \in hits : \A h \in hits : h <= j}}]]

\* PnetCDF queues one request per array, on the buffer of decomposition d.
PutQueued(S, s, d) ==
  [S EXCEPT !.reqs = @ \cup
     {[slot |-> s[i].slot, ver |-> s[i].ver, ioid |-> d] : i \in DOMAIN s}]

\* Slip: the buffer is freed on the error path, under the queued requests.
PutFailedFreesBuffer(S, s, d, done) ==
  [PutQueued(S, SubSeq(s, 1, done), d) EXCEPT !.mv = @ \ {d}]

\* The library failed on some array: those before it were queued, or each
\* array of the flush may or may not have reached the file.  The mvcache buffer
\* stays in use; PnetCDF releases it with the next wait.
PutFailed(S, s, d, done) ==
  IF Pnetcdf THEN PutQueued(S, SubSeq(s, 1, done), d)
  ELSE [S EXCEPT !.disk = [x \in Slots |->
          S.disk[x] \cup {s[i].ver : i \in {j \in DOMAIN s : s[j].slot = x}}],
                !.leftMv = @ \cup {d}]

\* The data are written, and a blocking library needs its buffer no more.
Release(S, d) == IF Pnetcdf THEN S ELSE [S EXCEPT !.mv = @ \ {d}]

\* Slip: the buffer is reused without waiting for the requests on it.
AcquireInUse(S, d) == S

\* Slip: the requests on the buffer are dropped instead of waited for.
AcquireDropsRequests(S, d) ==
  IF Pnetcdf /\ d \in S.mv THEN [WaitAll(S) EXCEPT !.disk = S.disk] ELSE S

\* The mvcache buffer of d must be free; PnetCDF flushes first to make it so.
Acquire(S, d) == IF Pnetcdf /\ d \in S.mv THEN WaitAll(S) ELSE S

\* The hole grid is written from the fillbuf of the first variable.
TakeFill(S, s, d) ==
  IF d \in HoleFill THEN [S EXCEPT !.fillbuf = @ \cup {s[1].slot.var}] ELSE S

\* The library failed on the hole grid: the function returns without releasing
\* the fillbuf; PnetCDF releases it with the next wait.
FillFailed(S, s, d) ==
  IF Pnetcdf THEN TakeFill(S, s, d)
  ELSE [TakeFill(S, s, d) EXCEPT !.leftFill = @ \cup {s[1].slot.var}]

\* Slip: the fillbuf is kept as if PnetCDF still had to write from it.
FinishKeepsFill(S, s, d, toDisk) ==
  IF Pnetcdf /\ toDisk THEN WaitAll(TakeFill(S, s, d)) ELSE TakeFill(S, s, d)

\* The end of PIOc_write_darray_multi.  A blocking library has written the hole
\* grid, and the fillbuf it was written from is released again.
Finish(S, s, d, toDisk) ==
  IF ~Pnetcdf THEN S
  ELSE IF toDisk THEN WaitAll(TakeFill(S, s, d)) ELSE TakeFill(S, s, d)

\* PIOc_write_darray_multi on arrays s of decomposition d.  toDisk: the flush
\* goes to disk, because the caller asks or the library's buffer is full.
\* fail: the calls in which the library reports an error, after "done" arrays.
\* The two aborts are the pioassert(..., "buffer overwrite").
WriteMulti(S, s, d, toDisk, fail, done) ==
  LET A == Acquire(S, d)
      B == [A EXCEPT !.mv = @ \cup {d}]
      P == Release(IF Pnetcdf THEN PutQueued(B, s, d) ELSE PutBlocking(B, s), d)
  IN  IF d \in A.mv THEN [st |-> A, res |-> "abort"]
      ELSE IF fail = "data" THEN [st |-> PutFailed(B, s, d, done), res |-> "err"]
      ELSE IF d \in HoleFill /\ s[1].slot.var \in P.fillbuf
           THEN [st |-> P, res |-> "abort"]
      ELSE IF fail = "fill" THEN [st |-> FillFailed(P, s, d), res |-> "err"]
      ELSE [st |-> Finish(P, s, d, toDisk), res |-> "ok"]

\* Slip: every variable of the file gives up its reference.
RefsTakenFromAll(s, d) == [v \in Vars |-> refs[v] \ {d}]

\* spio_get_iodesc_ref_from_file: a hit gives up the reference of the first
\* variable only; a miss gives up those of all the variables.
RefsTaken(s, d) ==
  LET v0 == s[1].slot.var
  IN  IF d \in refs[v0] THEN [refs EXCEPT ![v0] = @ \ {d}]
      ELSE [v \in Vars |-> IF v \in VarsIn(s) THEN refs[v] \ {d} ELSE refs[v]]

\* flush_buffer on wmb k, with the decomposition looked up in the references
\* and then in the global list.  An empty wmb is left alone.
FlushBuffer(k, toDisk, fail, done) ==
  LET s == arrays[k] IN
  IF s = <<>> THEN [st |-> io, res |-> "ok", refs |-> refs]
  ELSE IF k.ioid \notin refs[s[1].slot.var] /\ k.ioid \notin decomps
  THEN [st |-> io, res |-> "err", refs |-> RefsTaken(s, k.ioid)]
  ELSE LET w == WriteMulti(io, s, k.ioid, toDisk, fail, done)
       IN  [st |-> w.st, res |-> w.res, refs |-> RefsTaken(s, k.ioid)]

\* The outcomes the environment picks for the library calls of one flush of
\* arrays s of decomposition d.
Library(full, fail, done, s, d) ==
  /\ full => Pnetcdf /\ s # <<>>
  /\ fail # "none" => nfailures < MaxFailures /\ s # <<>>
  /\ fail = "fill" => d \in HoleFill
  /\ done <= IF fail = "data" /\ Pnetcdf THEN Len(s) - 1 ELSE 0

-----------------------------------------------------------------------------
(* Actions                                                                 *)

Init ==
  /\ open = TRUE
  /\ phase = "user"
  /\ ret = <<"create", "ok">>
  /\ decomps = Decomps
  /\ frame = [v \in Vars |-> NoFrame]
  /\ wmbs = <<>>
  /\ arrays = [k \in Wmbs |-> <<>>]
  /\ refs = [v \in Vars |-> {}]
  /\ io = [mv |-> {}, reqs |-> {}, fillbuf |-> {}, disk |-> [x \in Slots |-> {}],
           leftMv |-> {}, leftFill |-> {}]
  /\ nwrites = 0
  /\ nfailures = 0
  /\ latest = [x \in Slots |-> 0]

\* PIOc_setframe: the user sets the record of a record variable.
SetFrame(v, f) ==
  /\ open /\ phase = "user"
  /\ v \in RecordVars
  /\ frame' = [frame EXCEPT ![v] = f]
  /\ ret' = <<"setframe", "ok">>
  /\ UNCHANGED <<open, phase, decomps, wmbs, arrays, refs, io, nwrites,
                 nfailures, latest>>

\* PIOc_freedecomp: cached arrays may still need the decomposition.
FreeDecomp(d) ==
  /\ phase = "user"
  /\ d \in decomps
  /\ decomps' = decomps \ {d}
  /\ ret' = <<"freedecomp", "ok">>
  /\ UNCHANGED <<open, phase, frame, wmbs, arrays, refs, io, nwrites,
                 nfailures, latest>>

\* What the user must respect to call PIOc_write_darray on v with d.
MayWrite(v, d) ==
  /\ open /\ phase = "user"
  /\ d \in decomps \cap DecompsOf[v]
  /\ v \in RecordVars => frame[v] # NoFrame
  /\ RewritePending \/ Buffered(SlotOf(v)) \cup Requested(io, SlotOf(v)) = {}
  /\ nwrites < MaxWrites

\* PIOc_write_darray finds or appends the wmb of (d, record or not).
FindWmb(k) == IF \E i \in DOMAIN wmbs : wmbs[i] = k THEN wmbs ELSE Append(wmbs, k)

\* PIOc_write_darray.  need is the maximum over all processes of
\* PIO_wmb_needs_flush: 0 no flush, 1 flush to the I/O processes, 2 to disk.
\* full: the PnetCDF buffer is over its limit.  If the flush fails the array
\* of this call is not cached.
WriteDarray(v, d, need, full, fail, done) ==
  LET k == WmbOf(v, d)
      s == IF need > 0 THEN arrays[k] ELSE <<>>
      f == IF need > 0 THEN FlushBuffer(k, need = 2 \/ full, fail, done)
           ELSE [st |-> io, res |-> "ok", refs |-> refs]
      kept == IF need > 0 THEN <<>> ELSE arrays[k]
      a == [slot |-> SlotOf(v), ver |-> nwrites + 1]
  IN
  /\ MayWrite(v, d)
  /\ Library(full, fail, done, s, d)
  /\ wmbs' = FindWmb(k)
  /\ nfailures' = IF fail = "none" THEN nfailures ELSE nfailures + 1
  /\ ret' = <<"write", f.res>>
  /\ \/ /\ f.res = "ok"
        /\ arrays' = [arrays EXCEPT ![k] = Append(kept, a)]
        /\ refs' = [f.refs EXCEPT ![v] = @ \cup {d}]
        /\ nwrites' = nwrites + 1
        /\ latest' = [latest EXCEPT ![a.slot] = a.ver]
        /\ UNCHANGED phase
     \/ /\ f.res # "ok"
        /\ arrays' = [arrays EXCEPT ![k] = kept]
        /\ refs' = f.refs
        /\ phase' = IF f.res = "abort" THEN "aborted" ELSE phase
        /\ UNCHANGED <<nwrites, latest>>
  /\ io' = f.st
  /\ UNCHANGED <<open, decomps, frame>>

\* PIOc_sync and PIOc_closefile both start with sync_file.
CallSync(call) ==
  /\ open /\ phase = "user"
  /\ phase' = call
  /\ ret' = <<call, "running">>
  /\ UNCHANGED <<open, decomps, frame, wmbs, arrays, refs, io, nwrites,
                 nfailures, latest>>

\* One turn of the loop of sync_file: flush_buffer on the first wmb of the
\* list, its result ignored, and the wmb is unlinked and freed.
SyncWmb(full, fail, done) ==
  /\ phase \in {"sync", "close"}
  /\ wmbs # <<>>
  /\ LET k == Head(wmbs)
         f == FlushBuffer(k, full, fail, done)
     IN  /\ Library(full, fail, done, arrays[k], k.ioid)
         /\ arrays' = [arrays EXCEPT ![k] = <<>>]
         /\ refs' = f.refs
         /\ io' = f.st
         /\ phase' = IF f.res = "abort" THEN "aborted" ELSE phase
  /\ wmbs' = Tail(wmbs)
  /\ nfailures' = IF fail = "none" THEN nfailures ELSE nfailures + 1
  /\ UNCHANGED <<open, ret, decomps, frame, nwrites, latest>>

\* The end of sync_file: PnetCDF waits for all requests.
Synced == IF Pnetcdf THEN WaitAll(io) ELSE io

SyncReturns ==
  /\ phase = "sync" /\ wmbs = <<>>
  /\ io' = Synced
  /\ phase' = "user"
  /\ ret' = <<"sync", "ok">>
  /\ UNCHANGED <<open, decomps, frame, wmbs, arrays, refs, nwrites, nfailures,
                 latest>>

\* PIOc_closefile: hard close, and the file structure is freed;
\* spio_file_mvcache_finalize asserts that no mvcache buffer is left.
CloseReturns ==
  /\ phase = "close" /\ wmbs = <<>>
  /\ open' = FALSE
  /\ phase' = IF Synced.mv = {} THEN "user" ELSE "aborted"
  /\ ret' = <<"close", IF Synced.mv = {} THEN "ok" ELSE "abort">>
  /\ io' = Synced
  /\ refs' = [v \in Vars |-> {}]
  /\ UNCHANGED <<decomps, frame, wmbs, arrays, nwrites, nfailures, latest>>

\* PIOc_openfile of the same file for writing, with a new file structure: a
\* fillbuf that the old one has left behind is in use for ever, but not by it.
Reopen ==
  /\ ~open /\ phase = "user"
  /\ open' = TRUE
  /\ frame' = [v \in Vars |-> NoFrame]
  /\ ret' = <<"open", "ok">>
  /\ io' = [io EXCEPT !.fillbuf = {}, !.leftFill = {}]
  /\ UNCHANGED <<phase, decomps, wmbs, arrays, refs, nwrites, nfailures, latest>>

Next ==
  \/ \E v \in Vars, f \in Frames : SetFrame(v, f)
  \/ \E d \in Decomps : FreeDecomp(d)
  \/ \E v \in Vars, d \in Decomps, need \in 0..2, full \in BOOLEAN,
        fail \in Failures, done \in 0..MaxWrites :
       WriteDarray(v, d, need, full, fail, done)
  \/ \E call \in {"sync", "close"} : CallSync(call)
  \/ \E full \in BOOLEAN, fail \in Failures, done \in 0..MaxWrites :
       SyncWmb(full, fail, done)
  \/ SyncReturns
  \/ CloseReturns
  \/ Reopen

Spec == Init /\ [][Next]_vars

-----------------------------------------------------------------------------
(* Properties                                                              *)

TypeOK ==
  /\ open \in BOOLEAN
  /\ phase \in {"user", "sync", "close", "aborted"}
  /\ ret \in {"create", "open", "setframe", "freedecomp", "write", "sync", "close"}
             \X {"ok", "err", "abort", "running"}
  /\ decomps \subseteq Decomps
  /\ frame \in [Vars -> Frames \cup {NoFrame}]
  /\ wmbs \in Seq(Wmbs)
  /\ arrays \in [Wmbs -> Seq(CachedArray)]
  /\ refs \in [Vars -> SUBSET Decomps]
  /\ io \in IoState
  /\ nwrites \in Nat
  /\ nfailures \in Nat
  /\ latest \in [Slots -> Nat]

\* A flush can always find the decomposition of the arrays it flushes, even if
\* the user freed it after writing: every cached array holds a reference
\* (spio_add_iodesc_ref_to_file, spio_get_iodesc_ref_from_file).
CachedDecompReachable ==
  \A k \in Wmbs : \A i \in DOMAIN arrays[k] :
    k.ioid \in refs[arrays[k][i].slot.var]

\* A pending PnetCDF request never points into a released mvcache buffer
\* (ncmpi_iput_varn does not copy; flush_output_buffer releases after the wait).
RequestBufferLive == \A r \in io.reqs : r.ioid \in io.mv

\* pioassert(..., "buffer overwrite") and the assertion that a closed file has
\* no mvcache buffer hold, so no call aborts, unless a blocking library has
\* failed before: the buffers it was writing from stay in use then.
NoBufferOverwrite == phase = "aborted" => io.leftMv # {} \/ io.leftFill # {}

\* As long as the library has not failed, every accepted write is in the file,
\* queued in PnetCDF or still cached; none is dropped on the way from the wmb
\* to the mvcache buffer to the request.
AcceptedNotLost ==
  nfailures = 0 =>
    \A x \in Slots : latest[x] # 0 =>
      latest[x] \in io.disk[x] \cup Requested(io, x) \cup Buffered(x)

\* A closed file keeps nothing: no wmb, cached array, reference, mvcache
\* buffer, fill buffer or pending request is left behind by PIOc_closefile,
\* whatever has failed, but for the fill buffer of a hole grid that a blocking
\* library failed to write: that one nothing releases.
ClosedHoldsOnlyFailedFills ==
  ~open /\ phase = "user" =>
    /\ wmbs = <<>>
    /\ \A k \in Wmbs : arrays[k] = <<>>
    /\ \A v \in Vars : refs[v] = {}
    /\ io.mv = {} /\ io.reqs = {} /\ io.fillbuf \subseteq io.leftFill

-----------------------------------------------------------------------------
(* Refinement                                                              *)

\* The version in a slot: the oldest it may hold.
Stored(x) ==
  IF io.disk[x] = {} THEN 0
  ELSE CHOOSE n \in io.disk[x] : \A m \in io.disk[x] : n <= m

File == INSTANCE BufferedFile WITH
  accepted <- latest,
  stored <- [x \in Slots |-> Stored(x)],
  synced <- ret \in {<<"sync", "ok">>, <<"close", "ok">>}

\* The cache is invisible: without library errors PIOc_write_darray,
\* PIOc_setframe, PIOc_freedecomp, PIOc_sync, PIOc_closefile and PIOc_openfile
\* behave as on a file whose writes are stored late, but never lost, never
\* overtaken by an older one, and all stored when sync or close returns.
CacheImplementsFile == File!Spec
=============================================================================
