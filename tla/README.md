# SCORPIO (PIO): TLA+ models, checks and proofs

SCORPIO is the parallel I/O library of E3SM.  An application's processes hand it
distributed arrays; it moves them to a subset of *I/O processes*, caches them, and
writes them through NetCDF, PnetCDF, HDF5 or ADIOS.  This directory holds TLA+ models
of the parts of the library (`src/clib` in the repository) in which state lives longer than one call
or several processes have to agree: the write cache, the asynchronous operations, the lifetime of
the files and decompositions they use, the rearrangement of distributed arrays and the exchange of data
between processes, the I/O service, and the files of the ADIOS I/O type with the tool that converts them.

- [Files](#files)
- [1. Inventory](#1-inventory)
- [2. The models and how they correspond to the code](#2-the-models-and-how-they-correspond-to-the-code)
- [3. What the runs check](#3-what-the-runs-check)
- [4. What is proved](#4-what-is-proved)
- [5. Disagreements between the code and its documentation](#5-disagreements-between-the-code-and-its-documentation)
- [6. What is not modelled](#6-what-is-not-modelled)
- [7. Plan](#7-plan)

## Files

| file | what it is |
|---|---|
| `WriteCache.tla` | the write cache of one open file, NetCDF and PnetCDF |
| `BufferedFile.tla` | what the write cache promises the user; `WriteCache` implements it |
| `WriteCacheProofs.tla` | theorems about `WriteCache`, checked by TLAPS |
| `AsyncPool.tla` | the multi-threaded queue and the thread pool |
| `AsyncPoolProofs.tla` | theorems about `AsyncPool` |
| `AsyncFile.tla` | one HDF5 file whose operations run in the pool |
| `AsyncFileProofs.tla` | theorems about `AsyncFile` |
| `ReqBlocks.tla` | the pending PnetCDF requests of a file, waited for in blocks |
| `ReqBlocksProofs.tla` | theorems about `ReqBlocks` |
| `Swapm.tla` | the all-to-all exchange with flow control, N processes |
| `SwapmProofs.tla` | theorems about `Swapm` |
| `IoSystem.tla` | the descriptor of an I/O system, as each way of making one leaves it on each process |
| `IoSystemProofs.tla` | theorems about `IoSystem` |
| `ServiceCalls.tla` | what every call of the library does on the communicators of the I/O service |
| `AsyncService.tla` | the I/O service: computation components, the I/O processes' loop, the two runs of every call |
| `Grid.tla` | arrays, blocks, the split of an array among I/O processes, the MPI data types of an exchange |
| `Rearrangers.tla` | what the three rearrangers compute for a decomposition |
| `RearrangersProofs.tla` | theorems about `Grid`, `Rearrangers` and `Rearrange` |
| `Rearrange.tla` | writing and reading distributed arrays through a rearranger |
| `DistArray.tla`, `DistValues.tla` | what a caller may expect of distributed arrays; `Rearrange` implements it |
| `BpFile.tla`, `NcFile.tla` | what an ADIOS file holds, and the NetCDF file that the same calls would make |
| `AdiosFile.tla` | writing a file with the ADIOS I/O type |
| `AdiosReader.tla` | opening such a file and reading from it |
| `AdiosConvert.tla` | the tool that makes a NetCDF file of it |
| `Adios.tla` | the three together, and their properties |
| `AdiosProofs.tla` | theorem about `Adios` |
| `MC*.tla`, `*.cfg` | instances for TLC |
| `PROJECT.json` | components, runs, hazards, findings, and the source lines of every definition |

`tlc -config X.cfg MCModule` checks a model; `tlapm WriteCacheProofs.tla` the proofs.

## 1. Inventory

Paths are relative to `src/clib/core` in the repository.

### Darray write cache — `pio_darray.cpp`, `pio_darray_int.cpp`, `pio_file.cpp`

- *State*: per file, a list of write multi-buffers (`wmulti_buffer`, one per pair of
  decomposition and record/non-record); per variable the current record
  (`vdesc->record`), a fill buffer and the pending PnetCDF requests; per file and
  decomposition a rearranged buffer (*mvcache*, `util/spio_file_mvcache.cpp`);
  references that keep a decomposition alive (`file->io_desc_refs`).
- *Operations*: `PIOc_write_darray`, `PIOc_write_darray_multi`, `flush_buffer`,
  `flush_output_buffer`, `PIOc_setframe`, `PIOc_sync`, `PIOc_closefile`,
  `PIOc_freedecomp`.
- *Hard*: data passes through three places (wmb, mvcache buffer plus request, file)
  in calls the user does not see; PnetCDF requests point into buffers that another
  decomposition's flush may want; library errors half way; the decomposition may be
  freed while arrays wait.
- *Correct when*: nothing accepted is lost, the last write to a slot stays, buffers
  and decompositions outlive what points to them, no assertion fails, a closed file
  holds nothing.

### Queue and thread pool — `progress_engine/spio_async_mtq.hpp`, `spio_async_tpool.cpp`

- *State*: the queue, one signal (none, `COMPLETE`, `STOP`), the threads, a count of
  the I/O systems that use the pool.
- *Operations*: create and finalize (counted), `op_add`, `dequeue`, `signal`, the
  destructor that stops and joins the threads.
- *Hard*: one signal variable used in both directions, threads that poll, an operation
  that queues itself again, a thread that ends on error, exit.
- *Correct when*: an acknowledged `COMPLETE` means complete, `STOP` loses nothing, every
  operation is processed once and in order, finalize and exit end.

### HDF5 asynchronous operations — `iolib/hdf5/spio_async_hdf5_utils.cpp`, `progress_engine/spio_async_utils.cpp`

- *State*: `file->npend_ops`, `iodesc->nasync_pend_ops`, `npend_hdf5_async_ops`, `is_hard_closed`, and
  `vdesc->record`, all shared by the application's thread and the write threads.
- *Operations*: queue and run create, define, attribute, put_var, set_frame, write and
  close operations; wait for them (`spio_wait_on_hard_close`,
  `spio_wait_async_iodesc_ops`, `spio_wait_all_hdf5_async_ops`).
- *Hard*: every interleaving of the two sides; a close that is taken too early; a write
  that fails; a wait that gives up.
- *Correct when*: the counters are exact, nothing is freed under an operation, a file is
  closed complete, every close and finalize ends, each array lands in its frame.

### Files, decompositions, I/O systems — `pio_file.cpp`, `pioc_support.cpp`, `util/pio_lists.cpp`, `spio_iodesc_utils.cpp`, `pioc.cpp`

Global lists keyed by id; create, open, soft and hard close, delete; free a
decomposition or postpone that while it is in use.  The lifetimes interact with the
two components above and are modelled there; the ids of files and their lookup belong to the I/O
service below, where processes with different histories have to give the same ids.

The descriptor of an I/O system (`iosystem_desc_t`) is made by one of three calls and does not change:

- *State*: per process the communicators of the computation processes, the I/O processes and both, the ranks
  and roots of the two sides in the last one, the root argument of broadcasts between the sides.
- *Operations*: `PIOc_Init_Intracomm` (some computation processes do I/O as well), `PIOc_init_async` (separate
  processes of a world), `PIOc_init_intercomm` (components and I/O processes with communicators of their own).
- *Hard*: each process works out ranks and roots for itself, from lists, strides or the sizes of
  merged communicators, the two sides in different branches of the code.
- *Correct when*: all processes mean the same processes by their ranks and roots, and no process is taken twice.

### Request blocks — `get_file_req_blocks` and `flush_output_buffer` in `pio_darray_int.cpp`

- *State*: per variable the pending requests and their sizes; while they are waited for, the
  list of all requests and a buffer with the ranges of the blocks.
- *Operations*: queue a request; collect them; cut the list into blocks at the root, from the
  sizes on all I/O processes; broadcast; wait block by block; release.
- *Hard*: the limit holds for every process at once; the buffer of ranges is compacted in
  place; the waiting loop keeps a pointer of its own into the list and takes from the ranges
  only their lengths.
- *Correct when*: every request is waited for once and in order, no block exceeds the limit
  but one with a single request, and no block is cut short.

### Start/count calculation and rearrangers — `pioc_sc.cpp`, `rearr/`

- *State*: the I/O descriptor of a decomposition: on each I/O process the length of its buffer and
  the blocks (*regions*) of the array in it, how far the loops over the blocks go, whether cells
  are left without data, and the MPI data types of the exchanges.  It does not change until it is freed.
- *Operations*: `PIOc_InitDecomp` with one of three rearrangers (BOX: one block per I/O process,
  computed by `CalcStartandCount` or given; SUBSET: a group of processes per I/O process, the
  elements sorted and cut into blocks; CONTIG: elements aggregated in groups and passed on to the I/O
  process that has their part of the array); `rearrange_comp2io`, `rearrange_io2comp`; the
  loops of `write_darray_multi_par`, `write_darray_multi_serial` and `pio_read_darray_*` over the blocks.
- *Hard*: the two sides of an exchange build their MPI types from different lists; the buffer is
  filled by the exchange in one order and written block by block in another; lengths, remainders and
  leftover cells; several variables in one buffer, whose distance is worked out in several
  places; cells without data get fill values before or in a pass after the data.
- *Correct when*: an element ends up in the cell it is mapped to, in every other cell is what was
  there or the variable's own fill value, and reading is the inverse.

### Swapm — `pio_spmd.cpp`

- *State*: per call and process, the order of its partners, the sends and receives pending, the
  go-aheads received and sent.
- *Operations*: `pair` (the partner in a step), `pio_swapm`: the message to itself, the first
  window of receives and go-aheads, one send per step, waiting for an old receive and posting
  a new one, the final waits.
- *Hard*: each process works out the order and the window by itself; a sender waits for a
  go-ahead that its partner gives only after finishing other messages; sends may or may not
  block; the window may be odd, one, or larger than the number of messages.
- *Correct when*: it ends and every message arrives, for any speed of the processes; data finds
  its receive posted; no more receives are pending than allowed.

### I/O service — `pio_msg.cpp`, and the `async` branches of nearly every call

- *State*: the open components and the message being handled, on each I/O process; per process
  the list of files, the counter of ids, and the error handler.
- *Operations*: every call, on the computation side (send the message, broadcast the arguments) and
  in the handler on the I/O side; the loop of `pio_msg_handler2`.
- *Hard*: the two sides run the same call by different paths and meet in broadcasts and
  reductions that MPI matches by their order alone; an output not asked for, an error, an
  early return or a handler setting seen on one side only pulls them apart; several
  components share the I/O processes and their file ids.
- *Correct when*: both sides make the same collective operations, an id names the same file on
  both, and the service ends after the last `PIOc_finalize`.

### ADIOS files and their converter — `_ADIOS2` in nearly every file, `tools/adios2pio-nm`

- *State*: per file the I/O groups (processes of a node whose data becomes one block), the step in
  progress, the tracking buffers of each variable (frames, decompositions, fill values, counts of writers),
  the decompositions that are in the file; for a file that is read the tables collected from its steps, the step
  the engine is at, and what has been cached.
- *Operations*: create, define, put attributes and variables, `PIOc_setframe` (which may end a
  step), `PIOc_write_darray_adios`, close; open, inquire, `PIOc_read_darray_adios`, `PIOc_get_vars_tc`; the
  conversion `ConvertBPFile`.
- *Hard*: what belongs together is put apart, by different processes and at different times, and found again
  by its place in the list of blocks alone; readers and the tool have other processes than the writers; steps
  end as a side effect of `PIOc_setframe` on any variable.
- *Correct when*: the file reads back, and converts into, what the same calls would have made of a NetCDF file.

### The rest

Define mode and metadata calls, get and put calls and reading are modelled as far as the processes
communicate in them (with the service).  The HDF5
layer, the C and Fortran interfaces, the memory pool, logging, timers, tools are listed
in `PROJECT.json` with the reason why they are not modelled.

### How the components interact

A call to `PIOc_write_darray` runs the write cache in the caller's thread.  For NetCDF and
PnetCDF a flush ends in library calls in the same thread.  For HDF5 with
`PIO_USE_ASYNC_WR_THREAD` a flush *queues* an operation in the thread pool and returns;
the operation holds a copy of the data and pointers to the file and the decomposition.
Closing such a file queues a close operation; the structure is freed later, when the same
name is created again or in `PIOc_finalize`, after waiting for `is_hard_closed`.
A flush first rearranges its arrays from the computing to the I/O processes, by one or two
exchanges with `pio_swapm`, and then writes the blocks of each I/O process.  With the I/O service every call runs on both sides, so what the other
components do in one process happens on the I/O processes, after the message.

The hazards these interactions bring, each at its line and with the properties that would
catch it, are the list `hazards` of `PROJECT.json`.

## 2. The models and how they correspond to the code

`PROJECT.json` (`map`) names the lines behind every definition.

### WriteCache

One process that both computes and does I/O; one file, opened, closed and reopened any
number of times.  The *n*-th accepted call of `PIOc_write_darray` writes version *n*, so
"which data is where" is "which version is where".  A *slot* is a variable and a frame.

| variable | in the code |
|---|---|
| `open`, `phase`, `ret` | the file, the loop of `sync_file` the thread is in, the value the last call returned |
| `decomps` | the global list of decompositions |
| `frame[v]` | `file->varlist[v].record` |
| `wmbs`, `arrays[k]` | the list behind `file->buffer`; vid, frame and data of each wmb |
| `refs[v]` | `file->io_desc_refs` |
| `io.mv`, `io.reqs`, `io.fillbuf` | mvcache buffers in use, pending requests, `vdesc->fillbuf` |
| `io.disk[x]` | the versions a slot of the file may hold |
| `io.leftMv`, `io.leftFill` | history: the mvcache buffers and `vdesc->fillbuf`s that were in use when a blocking library failed on them |
| `nwrites`, `nfailures`, `latest` | history only |

`io.disk[x]` is a set because PnetCDF does not order overlapping requests of one wait, and
because a failed blocking write may or may not have reached the file.

| action | in the code |
|---|---|
| `SetFrame`, `FreeDecomp` | `PIOc_setframe`, `PIOc_freedecomp` |
| `WriteDarray` | the whole of `PIOc_write_darray`: find or append the wmb, decide about a flush, `flush_buffer` (`FlushBuffer`, `WriteMulti`), take a reference, copy the array |
| `CallSync`, `SyncWmb`, `SyncReturns` | `PIOc_sync`; one turn of the loop of `sync_file` per step |
| `CloseReturns` | the end of `PIOc_closefile`: hard close and release |
| `Reopen` | `PIOc_openfile` for writing |

`WriteMulti` follows `PIOc_write_darray_multi`: get the mvcache buffer (flushing first if
PnetCDF requests still use it), write or queue the arrays, the hole grid through the fill
buffer of the first variable, then either release (blocking iotypes) or wait if the
PnetCDF buffer is over its limit.  The environment chooses: whether another process or
the memory limit demands a flush (`need`, the result of the `MPI_Allreduce`), whether the
PnetCDF buffer is full, and where the library fails: on the data, or on the hole grid (`Failures`).
Either way the function returns at once, without releasing the buffer it was writing from.  For PnetCDF
the next wait does (`WaitAll`); nothing ever releases it for a blocking iotype, whose next flush from that buffer
then fails an assertion.  A close asserts that no mvcache buffer is left, but not that no fill
buffer is, and frees the file structure with the pointer to it; so a reopened file starts without one (`Reopen`).
The two `pioassert`s of `PIOc_write_darray_multi` and that of the close end in `phase = "aborted"`.

`MayWrite` holds the documented obligations of the caller: a decomposition that exists,
and `PIOc_setframe` before a record variable is written.

### BufferedFile

The abstract specification: slots with an accepted and a stored version.  Any slot may be
brought up to date at any moment; a write adds a version; after sync or close everything is
stored.  `WriteCache` maps `accepted` to `latest`, `stored` to the oldest version a slot
may hold, and `synced` to "the last call was a successful sync or close".

### AsyncPool

The steps are the critical sections of the queue's mutex and the ends of operations.
`worker[w]` is the operation a thread processes.  The waits on condition variables do not
block in the code: their predicates state the condition to wait *on*, not the one to wait
*for*, so they return at once and the loops poll; so the model has no blocking, and its
fairness is that of polling threads.  `Acknowledged` is the end of the loop in
`signal(COMPLETE)`.  An operation that fails ends its thread, as
`dequeue_and_process` does with an error handler that returns.

### AsyncFile

The application's thread (`main`) and the pool's threads, and the file structure they
share.  The queue is that of `AsyncPool` without its signals, so the module can keep the
content of operations.  A thread's step is an access to shared state: taking an operation, one array of
`pio_iosys_async_op_hdf5_write`, its end, a failure, a set_frame, another metadata
operation, the close.  `GiveUp` is the time limit of `spio_wait_on_hard_close`; the model
stops there, as the structure is then freed under running operations.

`Revisit` is opening or deleting a file of the same name, which waits for the hard close;
opening any file then waits until `npend_hdf5_async_ops` (`nglobal`), the count of the
operations of all HDF5 files, is zero (`Drained`).  `OtherFile` is a call on another file that
waits for the same.

The operations for create, def_var, put_att, enddef and put_var differ only in the HDF5
calls they make; they are one action (`Meta`, `RunMeta`).

### ReqBlocks

One turn of each loop is a step.  A request is its variable and its place in
`vdesc->request`; what matters of it is its size on each I/O process.  The processes have
lists of the same length and take the same steps, so one copy of the lists stands for all;
the root's decisions depend on all sizes, and the broadcast makes them everybody's.

| variable | in the code |
|---|---|
| `pend[v]` | `vdesc->request_sz` of each process, one entry for each of `vdesc->nreqs` |
| `reqs` | `*preqs` |
| `ranges` | `*preq_block_ranges`: starts in the first half, ends in the second, then compacted |
| `i`, `k`, `cur`, `nblocks` | the locals of `get_file_req_blocks`; `k` is also the counter of the copying and the waiting loop |
| `at` | the pointer `request` of `flush_output_buffer` |
| `waited` | history: the requests of each `ncmpi_wait_all` |

`Queue` is `ncmpi_iput_varn` in `write_darray_multi_par`; `Flush` the decision to flush;
`Collect` and `Collected` gather the list; `Extend` and `NewBlock` look at one request;
`Scanned`, `Copy`, `Copied` finish and broadcast; `Wait` and `Release` complete the
requests.

### Swapm

One exchange of N processes.  A step of the model is one MPI call that matters, or the local work
between two of them.  What a process owns is its program counter and its place in the loops; what the
processes share is which messages and go-aheads are on their way or have arrived.  Sends are
`MPI_Isend` or `MPI_Send`, and a blocking send may be eager (it returns at once) or wait
for its receive: both are taken.  The blocking send of a go-ahead, an empty message, is taken to
be eager.  `MPI_Alltoallw`, the way without flow control, is one step of all processes.

`Ceil2` and `Pair` are the functions of the same names: in a round of the next power of two
every step pairs processes by exclusive or, and steps without a partner are dropped.
`swapm` of `rearr/pio_rearr_utils.cpp` repeats this algorithm.

### Grid, Rearrangers and Rearrange

`Grid` and `Rearrangers` are functions: `Rearranged(d)` is the I/O descriptor that `PIOc_InitDecomp` computes for the
decomposition `d`, for all processes at once.  A decomposition is the map (which cell each
element of each process belongs to, 0 for none), the lengths of the dimensions, the rearranger and
the I/O processes.  An MPI data type is the list of the buffer positions it describes, so
`hops[i].snd[s][t]` and `hops[i].rcv[t][s]` are the two sides of the message from `s` to `t` in the i-th exchange
(CONTIG has two: to the first process of a group, and from there to the I/O processes).
`DataTypes` builds the two sides the way `create_mpi_datatypes` does, in blocks whose length is
the greatest common divisor of the runs on that side.

| in the code | in the model |
|---|---|
| `CalcStartandCount`, `compute_one_dim` | `CalcStartandCount`, `OneDim` |
| `box_rearrange_create`, `compute_counts`, `define_iodesc_datatypes` | `BoxSent`, `BoxStored`, `BoxHop`, `BoxRearr` |
| `default_subset_partition`, `subset_rearrange_create`, `get_regions`, `find_region` | `SubsetColor`, `SubsetHop`, `Holes`, `FillRegions`, `SubsetRearr`, `GetRegions`, `FindRegion` |
| `Contig_rearr` | `ContigColor`, `AggPlace`, `AggregateHop`, `ToProc`, `PassedOn`, `StoredAt`, `ToIoHop`, `ContigRegions`, `ContigRearr` |

`Rearrange` uses them.  Its state is the decomposition in use (`dist`), its I/O descriptor (`desc`), the cells of each variable in the file, the write in
progress and what the last read returned.  `BeginWrite` is the first half of
`PIOc_write_darray_multi`: the buffers are allocated and filled, and the arrays of all variables
exchanged.  Every `Put` is what one I/O process hands to the library, in the order the I/O type
leaves open (`MayPut`).  `BufferPlaces` says which place of the buffer the I/O type takes for a cell: NetCDF-4 by the
offset of each block (`PlacesByOffset`), PnetCDF block after block (`PlacesInSequence`), HDF5 in the order of
the selected cells in the variable (`PlacesInFile`), and serial I/O block after block as they arrive at I/O process
0, to which a process without data sends none (`SentBlocks`, `PlacesInSerial`).
`Read` reads the blocks into the buffers and exchanges them back; in serial I/O, process 0 reads for the others through its
own buffer and then for itself (`ReadForOthers`).

`DistArray` is the caller's view: a write in progress promises a value for some cells, any number of
which arrive in a step; it ends when all have; a read returns the cells that the elements are
mapped to.  A value is the number of the write, the variable and the cell, so any mix-up shows.

### IoSystem

`IoSystem` is functions as well: `Init_Intracomm`, `init_async` and `init_intercomm` give the descriptor
of every process, with the field names of `iosystem_desc_t`.  A communicator is the sequence of its processes, so the
ranks and roots in a descriptor can be looked up (`ProcessAt`).  `ValidIntracomm` and `ValidAsync` are what the argument
checks accept.
What MPI does is taken from how the code uses it: `MPI_Intercomm_create` finds the group that has the remote leader, and
`MPI_Intercomm_merge` puts the I/O processes second.

The instances of `Rearrange` take their I/O processes from `Init_Intracomm`; `AsyncService` takes from the descriptors which process sends a
message and to whom, and, for every meeting, whom a process takes for the root or the participants.  `SystemOf` collects
what follows from the descriptors, and the variable `system`, set in `Init` and kept, is that of the program.

### ServiceCalls and AsyncService

`ServiceCalls` has one operator per call, named as in the code: the *script* of the call, the
sequence of its meetings with the other processes, for either side and for an outcome of the call
(does the library fail, which outputs were asked for, which nested inquiry fails, how many dimensions
there are).  The `_handler` operators say which call an I/O process makes for a message.
The typed calls (`PIOc_get_vara_int` and the like) are the call they forward to with the type in memory that they
pass (`MemTypes`); the type of the C `long` is the one for which the size of an element is not asked of the library.

| step of a script | in the code |
|---|---|
| `Message` | `send_async_msg`: the master sends the number, all computation processes broadcast the arguments |
| `Cast("comp", x)`, `Cast("io", x)` | `MPI_Bcast` over `my_comm` from `comproot` or `ioroot` |
| `Reduced(x)` | a reduction among the computation processes, over `comp_comm` |
| `Joint(x)` | `MPI_Allreduce`, `MPI_Barrier` or an exchange, which nobody leaves before all are there |
| `HandleErr` | `check_netcdf`: a broadcast, a reduction or nothing, by the error handler set on *that* process |
| `Local(x)` | the file leaves the list, or the handler is set |

`AsyncService` runs the scripts.  `StartCall` makes the next call of a program; `SendAsyncMsg`,
`Waitany`, `Follow` and `EndHandler` are the service; `Bcast`, `Meet` and `MeetPeers` the meetings.  The root of a
broadcast goes on without the others; `window` keeps the broadcasts that some processes have
not come to, and a process takes the *first* it has not passed, as MPI does.  If that is not the
one its script says, it cannot go on and `CollectivesMatch` is violated.  `seq` numbers the
messages, so two meetings are the same only if they are in the same call; `peers` in `Head1` is whom the
process takes for the root or the participants by its own descriptor, so they are the same only if all agree on that too.
`PIOc_write_darray` is called on the computation side alone: it may inquire about the variable, agree with its peers
on a flush, and make the call `PIOc_write_darray_multi`, which does run on both sides.

`files`, `next_id` and `AddToFileList` are the list of files: the new id is the maximum of the
counters of the processes that create the file, of which an I/O process may have seen other
components' files.

### BpFile, NcFile, AdiosFile, AdiosReader, AdiosConvert and Adios

`BpFile` is the part of ADIOS2 that the library relies on: a file is a sequence of steps, a step gives
the blocks of each variable and process in the order of that process's puts, and a reader sees those of a variable in
the order of the processes; attributes belong to the file and keep their first value.  `NcFile` is the file that the same calls would make
through NetCDF (`direct`), with the loops over cells that the tool uses to write it.  A value is
the number of the call and the place in its array.

The calls are collective and take the same branches everywhere, so a call is one action for all
processes; what a process does as a member of its group, as the group's ADIOS process, or as the one that keeps the
decompositions, frames or fill values is a function of its rank.

| in the code | in the model |
|---|---|
| `init_adios_comm` | `InitAdiosComm`, `GroupSize` |
| `spio_createfile_int`, `PIOc_def_dim`, `PIOc_def_var`, `PIOc_put_att_tc` | `Create`, `DefDim`, `DefVar`, `PutAtt` |
| `PIOc_setframe`, `end_adios2_step`, `flush_adios2_tracking_data` | `SetFrame`, `EndStep`, `FlushTracking` |
| `PIOc_write_decomp_adios`, `register_decomp` | `StoredMap`, `WriteDecomp`, `CanRegister` |
| `PIOc_write_darray_adios`, `define_adios_darray`, the tracking arrays | `WriteDarray`, `Track`, `PutBuffers` |
| `PIOc_put_vars_tc` | `PutVar` |
| `PIOc_openfile_retry`, `adios_get_step_info` and the tables it fills | `Open`, `VarsOf`, `IntervalMap`, `DimsOf` |
| `PIOc_read_darray_adios` | `ReadDarray`, `GetStep`, `FindPositions`, `BlockOf` |
| `PIOc_get_vars_tc` | `GetVar`, `Common`, `CopyBlock` |
| `ConvertBPFile` and what it calls | `Convert`, `IOProcs`, `BlocksOf`, `ReplayWrite`, `ConvertVariable` |

A read that fails ends the program (the default error handler aborts), so a failed read is the last step.
`Asserts` says whether the build has assertions.  Without them what follows a read of a frame
that no step has is up to ADIOS2; the model stops there.  That the variables of the last step can be
inquired after `end_step`, and that every attribute is known in every step, is taken from how
the code uses ADIOS2.  Opening a file does not set `adios_io_process`, so `PIOc_setframe` ends no step of a file that is read.

## 3. What the runs check

Every property of a passing run has a mutant in `PROJECT.json`: a plausible slip in one
definition (marked "Slip" in the modules) with which TLC finds the property violated under
the same configuration.

| run | configuration | question |
|---|---|---|
| `write_cache` | 3 variables, 2 frames, 2 decompositions with holes, in four configurations: a blocking library with rewrites and PnetCDF without, each without errors (4 writes); a blocking library with 1 error (2 variables, both with both decompositions, 3 writes) and PnetCDF with 2 (2 variables, one decomposition, 3 writes), in any flush, on the data or on the hole grid | is the cache invisible, and do buffers, references and the closed file stay sound? |
| `pool` | 3 operations, 1 thread, 2 I/O systems, 2 requeues, 1 failure | the pool's signals, order and ends |
| `hdf5_async` | 2 files in turn, 2 threads, 2 writes, 2 metadata calls, 1 failure | counters, lifetimes, complete closes, ends |
| `req_blocks` | 2 processes, 3 variables, 4 requests of size 0, 2 or 5, limit 4 | are the requests waited for once, in blocks of the right size? |
| `swapm` | 5 processes, 2 patterns of traffic, 5 kinds of flow control, eager sends or not | does the exchange end with everything delivered, within its window? |
| `service` | every call with its outcomes and error handlers; sequences of calls; two components; I/O systems made by both calls, with 2 I/O processes and 1 or 2 processes in a component, communicators from anywhere among 5 processes | do the two sides of every call meet, and name the same files? |
| `rearrange` | 4 processes, 1 to 3 of them I/O processes, 3 by 3 cells, 3 variables, 2 records, 16 decompositions, 4 I/O types, 2 writes | does every element reach its cell, and come back? |
| `adios` | 4 processes in 2 or 3 I/O groups, decompositions stored or not; 4 variables, 3 calls, 2 changes of frame, then 2 reads or the conversion with 2 processes | does a file of the ADIOS type come back as it was written? |
| `hole_overwrite`, `hdf5_set_frame`, `rearrange_fill`, `adios_open` | | one violated statement each, see section 5 |

The properties, in words:

- `CachesImplementFile` (`CacheImplementsFile` of `WriteCache` where no call fails): the user of
  the cache sees a file whose writes are stored late but
  never lost, never overtaken by an older one, and all stored when sync or close returns.
  `AcceptedNotLost` says in which of the three places a write is.
- `NoBufferOverwrite`: the three assertions on buffers hold, unless a blocking library has failed before on
  a buffer that is still in use.
- `CachedDecompReachable`, `RequestBufferLive`: what a cached array or a pending request points to exists.
- `ClosedHoldsOnlyFailedFills`: close releases all of it, whatever failed before, but for the fill buffer of a
  hole grid that a blocking library failed to write.
- `CompleteMeansComplete`, `StopLosesNothing`, `OnePlace`, `InOrder`, `FinalizeEnds`,
  `ExitEnds`: the pool.
- `PendingExact`, `StructOutlivesOps`, `NothingLeftOut`, `SoftCloseEnds`, `WaitsEnd` (every wait for
  a hard close, for the operations of a decomposition or of all files ends): the asynchronous file.
- `EveryRequestOnce`: the waits cover the list of requests without gap or overlap, whatever
  the search, the compaction and the pointer of the waiting loop do.  `BlocksFit`: no
  process waits for more than the limit at once, but for a request above it alone, and
  a block ends only where the next request is too much for some process, so
  no split needs fewer waits.
- `ReadyBeforeSend`: with handshakes no data is sent before the receive is posted.  `NotStuck`:
  somebody can go on until all have returned.  `WindowKept`: never more receives
  pending than allowed.  `ReturnedMeansExchanged`: who has returned has all its data, and its
  send buffers are free.  `ExchangeEnds`: all return.
- `CollectivesMatch`: two processes that come to the same place in the order of the collective
  operations are there for the same step of the same call, and take the same processes for its root or participants.  `RightFile`: the id in a message
  means, on the I/O process about to receive it, the file that the sender means.
  `ServiceEnds`: all calls return and the loop ends.
- `ExchangeFits`: the two sides of each message describe equally many elements, inside their
  buffers, and no two elements arrive at one place.  `RegionsTile`: the blocks of all I/O
  processes, with those for fill values, cover each cell once, lie in the buffers one after the
  other, and are all reached by the loops.  `WritesAndReads`: `Rearrange` implements `DistArray`.
- `TrackingAligned`: in every step each block of each group has its frame, decomposition, count of
  writers, and fill value if one was given.  `ConvertedSame`: the tool makes the file that NetCDF would have made
  of the calls.  `ReadBack`: what is read is what was written, and an array that is there is found.
  `OpenedComplete`: an opened file has every dimension and variable that was defined, written or not.

**Bounds.**  A wmb has to be filled, flushed, filled again and flushed again to meet its
own leftovers: that takes two decompositions and four writes, and three variables let a wmb
hold arrays of more than one variable.  Two frames are needed for an array in the wrong
frame.  Calls of sync, close, open, setframe are not bounded.  With PnetCDF errors two of them make a second
failure meet the state a first one left.  A failure of a blocking library leaves a buffer in use for good, so one of them is
enough for a later flush with the same variable, through the same decomposition or the other, and a close to meet
it.  In the pool two operations suffice for order and
a third for an operation queued behind one that is requeued; two I/O systems exercise the
count.  In `hdf5_async` the second file exercises waiting for the close of the first, two
threads let a close overtake a write, and one failed write leaves counters that never reach
zero.  In `req_blocks` three variables let one without requests lie between two with some,
sizes 2 and 5 with a limit of 4 make blocks that just reach the limit and requests above it
alone, two processes let each be the one that is full, and four requests give every
number of blocks between one and as many as requests, so the compaction runs with and
without an overlap of the halves.  With two files `TypeOK` and the counters also see the fields reset by a new
structure.

In `swapm` five processes in rounds of eight steps leave steps without partner in the middle of
the order, which is where the partners' counts of steps differ.  The traffic is everything to two I/O
processes, and an irregular pattern in which only one of a pair sends and one process has no partner.  The
flow controls are windows of 2, 1 (made 2), 3 and no limit, with and without handshakes and nonblocking sends, and
`MPI_Alltoallw`; a window smaller than the number of partners makes the refilling happen.

In `service` two I/O processes show what the root knows before the others, and two
computation processes what the master knows.  The many calls are made by a component of
one process (a program is one call and `PIOc_finalize`, since what a call leaves behind is only the list of
files and the handler), the calls that change these in sequences by one of two processes.  Two components
create files at the same time and use them, in all orders in which the I/O root may hear of
them.  Short calls are also made under `PIO_REDUCE_ERROR`, which differs from
`PIO_BCAST_ERROR` in one step only.  Of the types in memory `long` and `unsigned long long` are used, the
ones for which the calls differ.  Under `PIO_INTERNAL_ERROR` an error aborts the program, so
only successful calls are made under it.

`PIOc_init_async` makes the I/O systems of the single calls and of some sequences, with the default lists of processes;
`PIOc_init_intercomm` the others, with I/O processes in descending order and components that lie between them.

In `rearrange` the decompositions are maps that cover the array, that leave holes, that have
elements without a cell or processes without elements, in and out of order; I/O processes that
are not the first ones (by a base and a stride of `PIOc_Init_Intracomm`, wrapping around at the last process); blocks given by the caller (in one case too small, which is refused); and a dimension of length one
that the variables do not have.  Three by three cells over two or three I/O processes give
leftover cells to each of the rearrangers, and blocks of one and of two dimensions.  One call writes two variables with records, so
that the second is at a distance in each buffer; the second write goes over the first.

In `adios` three groups of one or two processes, spread over nodes so that the reader's guess (even
groups) is wrong, make the search for an array's place go through several blocks; the two even groups are the ones that
can be read without stored decompositions.  The map has a hole, an empty process and processes with one
element (the code pads both); a second decomposition counts from 0 (CONTIG).  Three calls and two changes of
frame fill a tracking buffer of two and leave another half full at the end of a step, with each change
ending a step.  `PIO_MAX_ADIOS_DECOMPS` of 1 makes the list of decompositions full.  The variables are a distributed array with
records, a block with records, a scalar that is put, and a matrix of which parts are put.  The frame is set for one
variable, since a step ends whatever variable it is set for.

**Rewrites.**  `RewritePending = FALSE` (`PnetCDF` in `MCWriteCaches`) keeps the user from writing a slot
again before the previous write is in the file: PnetCDF leaves the result of two
overlapping requests open.

**Fairness.**  `WriteCache` is sequential; its properties are safety, and no fairness is
assumed.  In `AsyncPool` and `AsyncFile` each thread is weakly fair: it runs, and as it polls
(it never waits for an event that another must signal while it holds the mutex), it is enabled continuously whenever there
is something for it to do.  A call in progress of the application's thread goes on when
it can.  Nothing is assumed of the user (no call need be made), of the time limit
(`GiveUp` need not happen) or of HDF5 (no write need fail).

The runs of `Swapm` and `AsyncService` are finite: no loop waits by polling, and every step
leaves less to do.  Their fairness is that of the whole next-state relation: something that can
happen does.

**Deadlock** is checked in `req_blocks`, where a flush always comes back to the user, and in `swapm` and
`service`, where only the end may stop.  It is not
checked in the others: a run of calls ends when the bounds are reached, when the user
makes no further call, after an abort, after exit, and after a failed operation, where the
code does wait for ever.

## 4. What is proved

TLAPS checks the following for all values of the constants.

`WriteCacheProofs` (any variables, decompositions, frames, iotype, number of writes and errors):

- `CacheInvariant`: `CacheInv` is an invariant.
- `TypeCorrect`, `DecompositionsSurvive`, `RequestBuffersSurvive`, `CloseReleasesAllButFailedFills`: the
  properties `TypeOK`, `CachedDecompReachable`, `RequestBufferLive`, `ClosedHoldsOnlyFailedFills`.
- `AcceptedSurvives`: `AcceptedNotLost`, under `OneQueuePerSlot`: where a variable may be written again
  before the last write is in the file, it is always written with the same decomposition.
- `CacheIsInvisible`: the refinement `CacheImplementsFile`, under `ReliableFile`: no library errors, and
  `OneQueuePerSlot` for a blocking iotype, no rewrites of what is pending for PnetCDF.
- `AssertionsHold`: `NoBufferOverwrite`, and that a file written with PnetCDF never aborts, whatever fails,
  under `Assertable`: with PnetCDF no variable is written with two decompositions that leave
  holes.  The assumption is needed: `hole_overwrite` violates the property without it.

*The inductive invariant.*  `CachedDecompReachable` is not inductive.  A flush gives up
the reference of the *first* variable only, or of all of them; that no array of *another* wmb
then loses its reference needs: a wmb of record variables never holds an array of a fixed-size
one (`ArraysOfOneKind`, which rests on `FixedVarsHaveNoFrame`: no frame is ever set for those),
so that two wmbs that share a decomposition share no variable.  `ClosedHoldsOnlyFailedFills` needs that whatever is cached is in a wmb that is on the
list (`CachedIsListed`), which sync empties one by one, and that a wmb is there once
(`ListedOnce`), or a second flush would find another's leftovers; `SyncingIsOpen` ties the loops
to an open file.  `IoOK` says that a request points to a buffer in use, that only PnetCDF has
requests, that a blocking library has a fill buffer in use only where it failed, and is kept by each of the
functions on the I/O state, one lemma each.

A step is then split into the two that flush (`WriteDarrayKeeps`, `SyncWmbKeeps`, both from
`FlushBufferOK`), the ends of sync and close, reopening, and the steps that only set a field.

*The data.*  `AcceptedNotLost` names three places and is not inductive: from "the newest version is
somewhere" nothing follows about what a flush brings to the file last.  `DataInv` says where it is: the
arrays of a slot wait in one wmb only (`HeldOnce`), the newest behind the others (`NewestCached`), and
when none waits the newest is requested, or in the file with no request left that could replace it
(`NewestCarried`).  `CachedAllowed` ties the wmb of an array to the decompositions of its variable,
from which `HeldOnce` follows; `BlockingIdle` says that a blocking library without errors gives each
mvcache buffer back.  `FlushData` states what one `flush_buffer` does to each slot, and everything
else is built on it.

`OneQueuePerSlot` is needed: with two decompositions for one variable and rewrites TLC violates
`AcceptedNotLost`, for a blocking library and for PnetCDF.  The two arrays wait in different wmbs,
`sync_file` flushes those in the order in which they were created, and the older array reaches the
file last.  Without rewrites TLC finds both properties to hold with two decompositions too.

*The assertions.*  `AssertInv` accounts for every buffer in use (`Accounted`): with PnetCDF a fill buffer of a
variable is only in use along with the mvcache buffer of a decomposition that leaves holes and that the
variable is written with, so a flush through the same decomposition waits first and finds both free, and
under `Assertable` there is no other; a blocking library has failed on every mvcache buffer it has in use
between two flushes.  The wmb that is flushed holds variables of its decomposition only
(`CachedAllowed`, an invariant without assumptions).

*The refinement.*  `CacheIsInvisible` maps each step of `WriteCache` to one of `BufferedFile`, or to a
stutter.  `PromiseInv` adds what the abstract file says of itself and the data invariant does not: only
the newest version of a slot is requested, the file has one version of a slot at most, and the result of the
last sync is forgotten once the next one runs.  Each flush is a `Store` of the slots it moves (`IoMoves`); the end of sync or close
finds, by `DataInv` with no wmb left, that all of them are stored.

`AsyncPoolProofs` (any operations; any number of threads for the first two, one for the others):

- `PoolTypeCorrect`: `TypeOK`.
- `EveryOpInOnePlace`: `OnePlace`.
- `OneThreadKeepsOrder`: `InOrder`, for a single thread.
- `CompleteIsComplete`: `CompleteMeansComplete`, for a single thread.
- `StopIsSafe`: `StopLosesNothing`, for a single thread.

`PoolInv` adds to the type invariant that every added operation is queued, processed, done or
failed (`NothingLost`), that an acknowledged `COMPLETE` means complete, and that `STOP` is sent
when nothing is left (`StopFindsNothing`).  The assumption `OneThread` (the default,
`SPIO_ASYNC_NTHREADS` 1) is what makes the thread that acknowledges the only one that could
still be busy.  It is needed: with two threads, `Workers` of two elements in `AsyncPool.cfg`, TLC finds one
acknowledging `COMPLETE` while the other processes an operation.

`OnePlace` counts; the invariant under it (`PlaceInv`) says that the places are apart, that no
operation is in the queue twice or in the hands of two threads (`Apart`), and that none is lost; `CountsOfPlaces` turns that
into cardinalities.  `InOrder` speaks of what is done.  That it stays true when the next operation is done needs `Behind`: of two
operations the later one is still in the queue, behind the earlier, as long as the earlier one is neither
done nor put back; and `DeadAfterFailure`: nobody goes on after a failure.

`AsyncFileProofs` (any number of threads, operations, files, decompositions and failures):

- `FileTypeCorrect`: `TypeOK`.  The counters are natural numbers: no decrement comes too often.
- `CountersExact`: `PendingExact`, the three counters that the waits go by.
- `StructureOutlives`: `StructOutlivesOps`.
- `NothingIsLeftOut`: `NothingLeftOut`.

None of the first three is inductive alone.  `Exact` says that each counter is the number of operations of its kind that are
queued, in a thread or failed (`Count`, with a lemma for each way an operation moves); `Lifecycle`
that there is one close operation while the file is soft closed and none otherwise, that a file hard closed or freed has no
operations, and that one that is not open has an empty cache.  The step of the close operation
needs both: it closes the file hard when it finds the count of the other operations zero.  `FileInv` is
these two with the types.  `Arriving` follows the data: while no write has
failed every accepted array is cached, in a queued operation, in the thread that writes it, or in the file.  A failed
one stays counted, so that the file is never closed hard.  The assumption
`ThreadStatesAssumption` only says that the two marks for a thread without an operation are no operations.

`ReqBlocksProofs` (any number of processes, variables and requests, any sizes and limit):

- `ReqBlocksTypeCorrect`: `TypeOK`, by which no index leaves the buffer of ranges.
- `RequestsWaitedOnce`: `EveryRequestOnce`.
- `WarningUnreachable`: `NeverWarns`, see item 6 of section 5.
- `EveryBlockFits`: `BlocksFit`.

`ReqInv` says, phase by phase, that the blocks in the buffer cover the requests looked at:
each begins where the one before ends (`Covers`).  While the ends are copied (`CopyInv`), those
before `k` are read at their new place and the others at their old one (`EndOf`); as there
are fewer blocks than requests, what is written over is neither a start nor an end still to
be copied.  While the blocks are waited for (`WaitInv`), the pointer is at the start of block
`k`.  `CoversExtend` and `CoversNew` are the two ways an element of the list enters a block,
stated for any array.

`FitInv` carries the sizes along: while the blocks are found, `cur` is what the block being built has so
far (`ScanFit`); each finished block fits, or is one request, and the next request would not have fitted; `CopyFit`
and `WaitFit` say the same of the compacted buffer.  Sizes are differences of running totals
(`Totals`), a recursive function; that this function exists and satisfies its equations is proved by induction (`Induct`,
from the well-foundedness of the natural numbers and with a set in place of a predicate).

`SwapmProofs` (any number of processes, traffic, window, handshakes and kind of send):

- `TypeCorrect`, `SendsFindReceives`, `NeverStuck`, `WindowNeverExceeded`, `ExchangeComplete`: all
  the safety properties of `Swapm`.

`SwapInv` says where a process is from its place in the order alone: which receives are posted and
waited for (`Window`, `Receives`), which sends are made and complete (`Sends`), and that all
partners are in the order once, by increasing exclusive or (`Ordered`).  `NeverStuck` then takes a process with
the least exclusive or of a current step among those that have not returned: its partner
is not before that step, so it has posted the receive and sent the go-ahead.  `Places` is the fact on
cardinalities that makes the order of steps well defined.

`RearrangersProofs` (any number of processes, any lengths):

- `OneDimTiles`: the shares of a dimension follow one another without gap or overlap, and differ by
  one at most.
- `CellsFindTheirIoProcess`: with CONTIG the process that an element is sent to exists, and the cell lies in
  its part.  This is where an array needs at least as many cells as there are I/O processes.
- `SubsetGroupsExist`, `ContigGroupsExist`: every process is put in the group of an I/O process that exists, an
  I/O process in its own.

- `RegionsFollowCells`: whatever list of cells `get_regions` is given, sorted or not, with repetitions or without,
  the blocks it finds lie in the array, the first begins at 0 and each other one where the one before it ends,
  the last ends with the list, and the k-th cell of a block (`BlockCells`, the order in which the I/O
  libraries take its data) is the k-th cell of its part of the list.  So data in the order of the list is written
  to the cells it belongs to.
- `BoxesTile`: the blocks that `CalcStartandCount` computes for BOX lie in the array, and every cell is in exactly
  one of them, for any number of dimensions, lengths and I/O processes.  The hypothesis is that a cell is no larger
  than the wanted block size, which the code itself states as an assumption (pioc_sc.cpp:358).
- `ComputedBlocksLocate`: with these blocks BOX finds the I/O process of every element, so the error for an element that
  is in no block is only met with blocks that a caller passes.
- `CellOfCoordinates`, `CoordinatesOfCell`: `coord_to_lindex` undoes `idx_to_dim_list`, and the other way round.
- `TypesDescribeMessages`: the MPI types, in blocks of the greatest common divisor of all runs, describe the lists of
  positions they are built from.
- `DescriptorsFit`, `ExchangesFit`: the exchanges that `PIOc_InitDecomp` sets up fit, with BOX, SUBSET and CONTIG, for any map
  that has no cell twice; so `ExchangeFits` holds in every state.

They rest on `Division`, which characterizes quotient and remainder, and facts on products that the provers
need one by one.  `RegionsFollowCells` is an induction over data, which the library's induction theorems cannot be
used for (they take an operator as a parameter): `LeastOf`, from the well-foundedness of `<`, gives `Induct` and
`InductDown` for sets of numbers, and each recursive function (`ChunkSizes`, `LIndex`, `FindRegion`,
`GetRegions`) is first shown to exist (`ProductsExist`, `WeightedSums`, `GrowsExists`, `JoinsExist`).  In `RegionCells` the
induction is over the dimensions from the innermost one: a place of the block is in some layer `q` of dimension
`i`; its coordinates are those of its place in the first layer but for `q` more in dimension `i`
(`CoordinatesInLayer`), so its cell is `q` chunks further (`LIndexAdds`), and so is the cell in the
list, because `find_region` has seen that the list repeats itself (`Repeats`).

`ExchangesFit` is about lists that are chosen from others.  `Rearrangers` takes the k-th smallest member of a set
(`Nth`) for that, and the members of a list at the places in a set (`Selected`); `NthIs` and `SelectedAre` say that each is taken
once, and all are.  From these come, step by step, the elements of a process (`ElementsAre`), the
sorted list of a group (`GroupIs`), the places in it of what one process sent (`PlacesAre`), what CONTIG passes on
(`PassedOnAre`) and what a block of BOX gets (`BoxSentIs`).  Each hop has a lemma (`BoxHopFits`, `SubsetHopFits`,
`AggregateHopFits`, `ToIoHopFits`).  `HopFitsIf` splits them into `Messages`, where each message has two sides of the same
length inside the buffers, and `NoneMeet`, where no two elements arrive at one place.  The latter rests on the arithmetic:
cells of a block have different places in it (`PlaceInIs`, from `CoordinatesOfCell`), and so do those in
the range of a CONTIG process.  Three
assumptions on a map are needed: no cell occurs twice, with CONTIG there is a cell for each I/O process, and with BOX
each element is in the block of some I/O process, without which `PIOc_InitDecomp` returns an error (`Located`; computed blocks
of cells no larger than the block size satisfy it, by `ComputedBlocksLocate`).  The I/O
descriptor changes only with the decomposition (`InUse`), which carries the result to every state.

`BoxesTile` needs to know what the loop of `CalcStartandCount` does with the processes.  `UseIOProcsAre`: the
processes in use are a multiple of the layers of the outer dimensions, which get a process each.  `Splits`: going
inward, the processes that are left are divided by the length of each dimension without a remainder, until
one is long enough to be split among all that are left.  So the processes in use are the cells of an array of their own
(`ProcDimsAre`), a rank has coordinates there, and `BlockParts` says that its block is, in each dimension,
the share of its coordinate.  `SharesTile` gives one dimension and `BlocksTile` all: a cell's process exists by
`CoordinatesOfCell`, and is the only one by `CellOfCoordinates`.

`IoSystemProofs` (any number of processes, any lists without repetitions):

- `IoRanksDistinct`: whatever number, stride and base `PIOc_Init_Intracomm` accepts, the I/O processes are
  as many different processes.
- `IntercommAgrees`: after `PIOc_init_intercomm` every process of a component and of the I/O side
  finds, by the roots and ranks in its descriptor, the first process and all processes of the two sides as
  they were given, and exactly the first process of each side is the root of broadcasts to the other.

The first follows from `NearDistinct`: numbers less than n apart have different remainders.  In the second,
`LeaderIsFirst` shows that the maximum over all processes is the first process of the communicator, `RightGroups`
that communicators without common processes are told apart by it, so each side merges with the right one.

`AdiosProofs` (any layouts of processes and I/O groups, variables, decompositions, lengths of the buffers and steps
between flushes):

- `AdiosTrackingAligned`: `TrackingAligned`.

What a step tells of a variable is not aligned while the step is written: the data are put at once, the frames,
decompositions, fill values and counts of writers stay in the buffers `tracked` until those are full, the
frame of some variable changes or the step ends, and they are put by different processes of the group.
`TrackingInv` therefore counts what is put in the step in progress (`cur`) and what is still buffered
together: `Balanced` says that the two have as many entries of each kind as there are blocks of data, with
fill values for the positive decompositions only, and `Neat` that each kind is put by the process it belongs
to.  For the steps already in the file the same holds with empty buffers (`StepsOK`), because `FlushTracking` empties
every buffer before a step ends (`FlushTold`).  One lemma per action keeps the invariant; `PutBuffersTold` is the
heart of them: putting the buffers moves entries from one side of the sum to the other.  That
the joins of sequences (`FlattenSeq`) and the loop over the variables (`FlushTracking`), recursive functions both, exist is
proved by induction (`InductTo`) first.  `AdiosFileAssumption` asks for what the code has anyway: a process at least, none of
the nodes without processes, and positive numbers of decompositions.

*Only model-checked*:

- The liveness properties `FinalizeEnds`, `ExitEnds`, `SoftCloseEnds`, `WaitsEnd`, `ExchangeEnds` and `ServiceEnds`:
  fairness and `ENABLED` are out of the prover's reach.
- The properties of `AsyncService`.  They do not hold for all constants: a constant is the list of
  calls that each component makes, and calls that do not match, or a list of processes with repetitions,
  break them as they break the library.  `CollectivesMatch` is about the scripts of `ServiceCalls`,
  which TLC evaluates one by one.
- `RegionsTile` and `WritesAndReads` of `Rearrange`.  They do not hold for all constants: the blocks that a
  caller gives to BOX may overlap or leave cells out, which the code does not check.  What is proved of them is in
  `RearrangersProofs`: the blocks that BOX computes tile the array, the exchanges fit, and the regions of a sorted list
  of cells have the cells of the list.  That the lists of SUBSET and the ranges of CONTIG tile the array as a whole, and the
  sequence of writes and reads, are left to TLC.
- The other properties of `Adios` (`ConvertedSame`, `ReadBack`, `OpenedComplete`), which compare what three programs make of one list of calls: positions in
  flattened and filtered lists, by folds over the whole file.
- `CachesImplementFile` of the run `write_cache` is `CacheImplementsFile` for each configuration in which no call fails, so
  `CacheIsInvisible` proves it for the constants of `ReliableFile`.

## 5. Disagreements between the code and its documentation

Each is the counterexample of a run; `PROJECT.json` quotes the lines.

1. `hole_overwrite`: with PnetCDF, two flushes that write hole grids and start with the same
   variable, through different decompositions or through the record and the fixed wmb, fail
   `pioassert(!vdesc0->fillbuf, "buffer overwrite")`: the fill buffer of the first is still
   queued, and only the mvcache buffer of the *second* decomposition is looked at.
2. `hdf5_set_frame`: a queued set_frame sets `vdesc->record` when it runs, undoing a newer
   `PIOc_setframe`; the next array is cached with the old frame.
3. `rearrange_fill`: in a serial write of several variables the fill values are inserted with the distance
   `maxiobuflen` between two variables, the data with the distance `llen`.  If the serial I/O process has less
   data than another, cells of the second variable that nothing is mapped to get the fill value of the first.
4. `adios_open`: `adios_get_step_info` asserts that a variable has no map of frames yet and makes one in
   every step, so a file of two steps cannot be opened by a build with assertions; without them the map of the
   last step is left.

Others were met while modelling and have no run of their own:

5. `sync_file` ignores the result of `flush_buffer`, which has emptied the wmb: `PIOc_sync` and
   `PIOc_closefile` return success with data in neither file nor cache.
6. The warning that a single PnetCDF request exceeds the limit is never printed:
   the test counts request `i` into the block before, which has a request already, and
   compares with 1.  `WarningUnreachable` proves it for every input.
7. `pio.h` describes `max_pend_req` as the number of messages in flight at one time; `pio_swapm`
   makes 1 into a window of two (`WindowKept` is stated with the window as computed).
8. Four handlers of the I/O service (`inq_dimid`, `inq_var_deflate`, `get_chunk_cache`,
   `get_var_chunk_cache`) pass uninitialized pointers for outputs that were not asked for, and the
   pointers decide whether a broadcast is made.  The run asks for all of these outputs.
   Two typed calls pass a signed type for `unsigned long long`: `PIOc_get_vars_ulonglong` (`pio_get_nc.cpp` 299)
   the type of the C `long`, `PIOc_get_var1_ulonglong` (1007) `NC_INT64`.
9. `PIOc_read_darray` checks the library's result on the I/O processes only; with `PIO_BCAST_ERROR` or
   `PIO_REDUCE_ERROR` the check is a collective operation that the computation side does not make.
   The run reads under `PIO_INTERNAL_ERROR` only.
10. When opening a file succeeds but the inquiry of its unlimited dimensions fails, the
    file leaves the list on the computation side only.  The id stays taken on the I/O
    processes; as the counters have moved on, no later file is given it (`RightFile` holds).
11. The queued HDF5 write sets the start in the record dimension only if the variable's record is greater
    than 0 when it runs; an array for frame 0 keeps the start of the array before it.
12. With the asynchronous service `PIOc_InitDecomp` returns `PIO_ENOMEM` if `iostart` or `iocount` is given: the
    array that takes its place in the message is allocated only if it is not (`pioc.cpp`, lines 786-797).
13. CONTIG divides by the number of cells per I/O process, 0 if there are fewer cells than I/O
    processes; a decomposition without any cell fails an assertion.
14. Two elements with the same cell are counted twice in `determine_fill`, so a map with duplicates and
    holes may be taken to need no fill values.

15. `PIOc_init_async` uses ranks of the world as ranks of the union communicator: the I/O ranks, `ioroot`, and the leaders
    of the two sides (`pioc.cpp`, lines 2391-2393, 2423-2435).  They agree when the I/O processes are the first of
    the world and the component follows (`AsyncConnects`), as in the lists it makes itself; and `MPI_Comm_create` over the
    world is called by the members only (2397-2402).  Nothing says which lists may be given.
16. `TComm_info` is told that a process is the I/O or computation master if `iomaster` or `compmaster` is not 0
    (`pioc.cpp`, lines 1527, 2457, 3063), but `MPI_PROC_NULL` is not 0 either.
17. In `PIOc_get_vars_tc` with PnetCDF "non-root reads nothing" by a count of zeros, but for five of the types
    the count of the caller is passed (`pio_getput_int.cpp`, lines 1313-1325).
18. In `PIOc_put_vars_tc` with PnetCDF a process calls `flush_output_buffer`, which is collective, only if its own
    call of the library succeeded (3186-3188, 3278-3280); only the I/O root makes that call.
19. If a blocking library fails in `PIOc_write_darray_multi`, the function returns with the buffer it wrote from still
    in use (`pio_darray.cpp`, lines 423-453 for the data, 512-542 for the hole grid), and nothing releases it
    later: `flush_output_buffer`, which does for PnetCDF, is not called.  The next flush that needs the mvcache buffer,
    or the close, fails an assertion; so does the next flush with a hole grid that starts with the same variable.  A
    close loses the fill buffer: `pio_free_file` does not free it.

In the ADIOS parts and the tool (line numbers of `pioc_support.cpp` if no other file is named):

20. The tool takes the fill values of one step byte by byte (`fillval_idx++`, `adios2pio-nm-lib.cxx` 2085-2089), so
    the second write of a variable with a fill value in a step converts with another one; `FillsApart` leaves
    these out of `ConvertedSame`.
21. Creating with `PIO_CLOBBER` never deletes an old `.bp` directory: the test `S_ISDIR` (2978-3010) is made through
    the link, which the library lets point to a file inside the directory; ADIOS2 overwrites what is there.
22. A variable whose name is the beginning of another's that is known is not found when a file is opened: names are
    compared over the length of the new one (4423, 4484).  `OpenedComplete` excludes it.
23. A frame that is written twice in a step reads back as the first; the positions of an
    array are cached by the stored decomposition, so reading with another one finds the pieces of the first (`pio_darray.cpp` 2637,
    2996); blocks that `PIOc_get_vars_tc` has read are cached without their step.
24. The map of a CONTIG decomposition counts from 0 in memory and from 1 in the file, so arrays written with one are not found
    (`pio_darray.cpp` 868-890, 2576, 2901).
25. `PIOc_get_vars_tc` takes the full length of a dimension as the row length of the part asked for
    (`pio_getput_int.cpp` 2043-2045) and in three dimensions does not look at the end of the last one (2132);
    `PIOc_put_vars_tc` stores the data of the first record only (2797-2816); `ADIOS_READ_CONVERT_FROM` tests
    for `uint16_t` twice and never for `uint64_t`.
26. `PIOc_inq_attname` takes the number of an attribute as its place in the whole file, and a variable of a
    reopened file has no attributes by `PIOc_inq_varnatts`.

## 6. What is not modelled

- *Several processes* in `WriteCache`, `AsyncFile` and `ReqBlocks`: the models follow one; what the processes agree on with `MPI_Allreduce`
  is an input.  `AsyncService` has several, and shows that the two sides of a call
  meet; it is the user's duty that the processes of a component make the same calls.
- *A failing `ncmpi_wait_all`* and errors of closing: the state the library leaves is not defined
  by this code.
- In `Rearrange`: maps with one cell for several elements, CONTIG with fewer cells than I/O
  processes, failing calls, reading through HDF5, the variants `box_rearrange_create_with_holes` and
  `performance_tune_rearranger`, and numbers that do not fit their types (the total size in `CalcStartandCount`, the
  index in `compute_counts`).  An exchange is one step: `Swapm` shows that it can be taken
  as one.  Serial writes of several variables through unequal buffers are only in `rearrange_fill`
  (`SerialFills`).
- A read does not look at the write cache (no document promises that it does), so `Rearrange` reads only when
  no write is in progress.
- *Buffer contents and sizes* in `WriteCache`: which elements are in an array is the
  business of `Rearrange`.  `WriteCache` waits for all requests at once; `ReqBlocks` shows that the blocks do.
- In `ReqBlocks`: processes that disagree on the number of requests after one of them failed to
  queue one, and the builds with `FLUSH_EVERY_VAR` or `MPIO_ONESIDED`.
- *`pio_err`* may abort or return; the models take it to return, which makes the error paths
  reachable.  `wb_pend` is only logged.
- In `AsyncFile`: what is done with a file opened for reading (it is left to NetCDF-4),
  `PIOc_setframe` with a negative frame, metadata operations that fail, and the steps of
  `spio_hard_closefile` one by one.
- In `Swapm`: failing MPI calls, and processes that return from one exchange and start the
  next (messages of one call are told from those of another by the order of MPI only).
- In `AsyncService`: the packing of arguments, calls refused by an argument check (before
  the message), the failure of the message itself, `PIO_RETURN_ERROR` (only the I/O side sees the
  error and leaves the call early, so no program can rely on it), `PIOc_Set_File_Error_Handling`
  (which sets the handler of one side, without a message), and inquiries that fail under
  `PIO_INTERNAL_ERROR`.  Several components exist only with `PIOc_init_intercomm`;
  `PIOc_init_async` accepts one.
- In the ADIOS modules: strides, parts of variables with three or more dimensions, type conversions, the arguments that
  are refused, decompositions that the tool caches (its cache of limited size changes no result), the second
  variable name under which the tool writes the frames of `PIOc_put_vars_tc`, and memory limits.
- HDF5 library layer, wrappers, Fortran, timing and summaries: see the component list.

## 7. Plan

The modules were written in the order of what can go wrong with the user's data: the write cache first,
the asynchronous operations and the pool they run in, the request blocks, then what
several processes do together: the exchange, the I/O service, and the rearrangers with the
writing and reading of arrays, and the ADIOS I/O type with its converter.  What is left, in the order of what it would add:

1. Failing waits in `WriteCache`, with a model of the state in which PnetCDF leaves its requests.
2. Several processes in `WriteCache`: the agreement on flushes (`pio_darray.cpp`, line 2218), with one process that
   has no data of a decomposition.
3. The order in which several write threads of several processes take the HDF5 operations, which end in a barrier.
