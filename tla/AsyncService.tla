---------------------------- MODULE AsyncService ----------------------------
(***************************************************************************)
(* The asynchronous I/O service (pio_msg.cpp): the loop of the I/O         *)
(* processes, which serve the calls of several computation components, and *)
(* the computation processes that make the calls of ServiceCalls.          *)
(*                                                                         *)
(* The master of a component sends the number of the message to the I/O    *)
(* root and broadcasts the arguments over the intercommunicator.  The I/O  *)
(* root picks a component that has sent something, tells the other I/O     *)
(* processes, and all of them receive the arguments and run the handler.   *)
(*                                                                         *)
(* MPI matches the collective operations of a communicator by their order  *)
(* and not by what they are for.  The window of a component holds the      *)
(* broadcasts of its union communicator that some processes have passed    *)
(* and others not; the root of a broadcast need not wait for the others.   *)
(***************************************************************************)
EXTENDS ServiceCalls, IoSystem, TLC

CONSTANTS
  Components,   \* the computation components
  Procs,        \* the processes, by their ranks in the world or peer communicator
  Systems,      \* the I/O systems there may be, a sequence: each is SystemOf what one of
                \* the init calls leaves, see below
  Programs      \* what the components may do, a sequence of programs, see below

\* A program: the calls of each component (<<>> if there is no such component,
\* otherwise the last call is PIOc_finalize), each with its script and which of
\* the files created or opened so far it works on (0 if none); whether a file is
\* open at the start, the error handler set at the start, and which of Systems it has.
\*   [calls |-> [Components -> Seq([script, slot])], open, handler, system]

\* What follows from the descriptors d: component -> process -> its descriptor
\* (IoSystem).  Functions are Tabulated, as they are looked up in every step.
Tabulated(f) == FoldSet(LAMBDA x, g : (x :> f[x]) @@ g, <<>>, DOMAIN f)

In(d, c, p) == d[c][p].union # MPI_COMM_NULL
CompProcsOf(d, c) == {p : p \in {q \in Procs : In(d, c, q) /\ d[c][q].compproc}}
IoProcsOf(d) == {p : p \in {q \in Procs : \E c \in Components : In(d, c, q) /\ d[c][q].ioproc}}

\* Those that a process takes, by its ranks, for the roots of the two sides and for
\* the processes that take part in a reduction or an exchange.
PeersOf(d) ==
  IF d.union = MPI_COMM_NULL THEN [all |-> {}]
  ELSE [sends |-> d.compmaster = MPI_ROOT,
        master |-> IF d.compmaster >= 0 THEN ProcessAt(d.comp, d.compmaster) ELSE -1,
        comp |-> {ProcessAt(d.union, d.comproot)}, io |-> {ProcessAt(d.union, d.ioroot)},
        all |-> {ProcessAt(d.union, r) : r \in ToSet(d.compranks \o d.ioranks)}]

\* The I/O process of rank 0 runs the loop.
IoRootOf(d) ==
  CHOOSE p \in IoProcsOf(d) : \A c \in Components : In(d, c, p) => d[c][p].io_rank = 0

SystemOf(d) ==
  [comp |-> Tabulated([c \in Components |-> CompProcsOf(d, c)]), io |-> IoProcsOf(d),
   root |-> IoRootOf(d),
   component |-> Tabulated([p \in UNION {CompProcsOf(d, c) : c \in Components} |->
                              CHOOSE c \in Components : p \in CompProcsOf(d, c)]),
   peers |-> Tabulated([c \in Components |-> Tabulated([p \in Procs |-> PeersOf(d[c][p])])])]

None == "none"
StartId == 16           \* PIO_FILE_START_ID
NoFunction == [x \in {} |-> x]

ASSUME ServiceAssumption ==
  \A s \in DOMAIN Systems, c, d \in Components :
    /\ c # d => Systems[s].comp[c] \cap Systems[s].comp[d] = {}
    /\ Systems[s].comp[c] \cap Systems[s].io = {}

VARIABLES
  program,   \* which program the computation processes run
  system,    \* the I/O systems they have
  next,      \* how many calls a computation process has made
  script,    \* what a process still has to do in the call or handler it is in
  ncid,      \* the file id that call was given
  sent,      \* the messages of each component not yet received everywhere
  seq,       \* async_ios_msg_info.seq_num of a process for a component
  window,    \* the broadcasts of each union communicator not passed by everybody
  loop,      \* the choices of the I/O root not yet heard by every I/O process
  serving,   \* the component whose message an I/O process handles, or None
  msg,       \* the message it handles, or None
  open,      \* the open components of an I/O process
  files,     \* pio_file_list of a process: which file an id stands for
  next_id,   \* pio_file_next_id of a process
  ids,       \* the file ids returned to a computation process so far
  handler    \* ios->error_handler of a process for a component

setup == <<program, system>>
ioVars == <<loop, serving, msg, open>>
fileVars == <<files, next_id, ids>>
vars == <<setup, next, script, ncid, sent, seq, window, ioVars, fileVars, handler>>

Calls(c) == Programs[program].calls[c]
Active == {c \in Components : Calls(c) # <<>>}

CompProcs(c) == system.comp[c]
IoProcs == system.io
Members(c) == CompProcs(c) \cup IoProcs
AllCompProcs == DOMAIN system.component
PeersFor(c, p) == system.peers[c][p]
CompOf(p) == system.component[p]
IoRoot == system.root

\* The component on whose behalf a process works.
On(p) == IF p \in IoProcs THEN serving[p] ELSE CompOf(p)

\* What one process sends or broadcasts to others is kept in the order of the sends
\* until all of them have got it.
Behind(q, p) == {i \in DOMAIN q : p \notin q[i].got}
Place(q, p) ==
  IF Behind(q, p) = {} THEN Len(q) + 1
  ELSE CHOOSE i \in Behind(q, p) : \A j \in Behind(q, p) : i <= j
Waiting(q, p) == Behind(q, p) # {}
FirstFor(q, p) == q[Place(q, p)]
Got(q, p, all) ==
  SelectSeq([q EXCEPT ![Place(q, p)].got = @ \cup {p}], LAMBDA e : e.got # all)

Init ==
  /\ program \in DOMAIN Programs
  /\ system = Systems[Programs[program].system]
  /\ next = [p \in Procs |-> 0]
  /\ script = [p \in Procs |-> <<>>]
  /\ ncid = [p \in Procs |-> 0]
  /\ sent = [c \in Components |-> <<>>]
  /\ seq = [p \in Procs |-> [c \in Components |-> 0]]
  /\ window = [c \in Components |-> <<>>]
  /\ loop = <<>>
  /\ serving = [p \in Procs |-> None]
  /\ msg = [p \in Procs |-> None]
  /\ open = [p \in Procs |-> IF p \in IoProcs THEN Active ELSE {}]
  /\ files = [p \in Procs |-> IF Programs[program].open THEN StartId :> "at_start" ELSE NoFunction]
  /\ next_id = [p \in Procs |-> IF Programs[program].open THEN StartId + 1 ELSE StartId]
  /\ ids = [p \in Procs |-> IF Programs[program].open THEN <<StartId>> ELSE <<>>]
  /\ handler = [p \in Procs |-> [c \in Components |-> Programs[program].handler]]

-----------------------------------------------------------------------------
\* spio_handle_err: what the error handler does when there is no error, or one
\* that does not abort.  A broadcast comes from the I/O root; a reduction waits
\* for all; PIO_INTERNAL_ERROR communicates nothing.
Handled(h, step) ==
  CASE step.root # "handler" -> <<step>>
    [] h = "bcast" -> <<Cast("io", step.what)>>
    [] h = "reduce" -> <<Joint(step.what)>>
    [] OTHER -> <<>>

Resolve(steps, h) == FlattenSeq([i \in DOMAIN steps |-> Handled(h, steps[i])])

\* The next step of a process, the message it is for, and with whom it is made.
Head1(p) ==
  [step |-> Head(script[p]), seq |-> seq[p][On(p)],
   peers |-> PeersFor(On(p), p)[Head(script[p]).root]]
Collective(p) == script[p] # <<>> /\ Head(script[p]).root \in {"comp", "io", "all"}
Rest(p) == [script EXCEPT ![p] = Tail(@)]

\* MPI_Bcast over the union communicator: the root goes ahead, the others follow.
Bcast(c, p) ==
  /\ Collective(p) /\ Head(script[p]).root # "all" /\ On(p) = c
  /\ IF Waiting(window[c], p)
     THEN /\ FirstFor(window[c], p).op = Head1(p)
          /\ window' = [window EXCEPT ![c] = Got(@, p, Members(c))]
     ELSE /\ Head1(p).peers = {p}
          /\ window' = [window EXCEPT ![c] = Append(@, [op |-> Head1(p), got |-> {p}])]
  /\ script' = Rest(p)
  /\ UNCHANGED <<setup, next, ncid, sent, seq, ioVars, fileVars, handler>>

\* Slip: The counter of the computation process is used everywhere.
NewIdOfMaster(c) == next_id[CHOOSE p \in CompProcs(c) : PeersFor(c, p).sends]

\* pio_add_to_file_list: the id is the maximum of the counters (MPI_Allreduce).
NewId(c) ==
  LET members == Members(c)
      all == {next_id[p] : p \in members}
  IN CHOOSE i \in all : \A j \in all : j <= i

\* Slip: The counter is not advanced.
AddToFileListSameNext(c, id) ==
  /\ files' = [p \in Procs |->
       IF p \in Members(c) /\ id \notin DOMAIN files[p]
       THEN (id :> <<c, seq[p][c]>>) @@ files[p] ELSE files[p]]
  /\ next_id' = [p \in Procs |-> IF p \in Members(c) THEN id ELSE next_id[p]]
  /\ ids' = [p \in Procs |-> IF p \in CompProcs(c) THEN Append(ids[p], id) ELSE ids[p]]
  /\ ncid' = [p \in Procs |-> IF p \in CompProcs(c) THEN id ELSE ncid[p]]

\* An id that is in the list already keeps its file (std::map::insert).
AddToFileList(c, id) ==
  /\ files' = [p \in Procs |->
       IF p \in Members(c) /\ id \notin DOMAIN files[p]
       THEN (id :> <<c, seq[p][c]>>) @@ files[p] ELSE files[p]]
  /\ next_id' = [p \in Procs |-> IF p \in Members(c) THEN id + 1 ELSE next_id[p]]
  /\ ids' = [p \in Procs |-> IF p \in CompProcs(c) THEN Append(ids[p], id) ELSE ids[p]]
  /\ ncid' = [p \in Procs |-> IF p \in CompProcs(c) THEN id ELSE ncid[p]]

\* An operation in which everybody waits for everybody.
Meet(c) ==
  /\ window[c] = <<>>
  /\ \A p \in Members(c) : Collective(p) /\ On(p) = c /\ Head(script[p]).root = "all"
  /\ \A p \in Members(c) : Head1(p) = Head1(IoRoot)
  /\ IF Head1(IoRoot).step.what = "file_id"
     THEN AddToFileList(c, NewId(c))
     ELSE UNCHANGED <<fileVars, ncid>>
  /\ script' = [p \in Procs |-> IF p \in Members(c) THEN Tail(script[p]) ELSE script[p]]
  /\ UNCHANGED <<setup, next, sent, seq, window, ioVars, handler>>

\* A reduction over comp_comm: the I/O processes have no part in it.
MeetPeers(c) ==
  /\ c \in Active
  /\ \A p \in CompProcs(c) : script[p] # <<>> /\ Head(script[p]).root = "peers"
  /\ script' = [p \in Procs |-> IF p \in CompProcs(c) THEN Tail(script[p]) ELSE script[p]]
  /\ UNCHANGED <<setup, next, ncid, sent, seq, window, ioVars, fileVars, handler>>

\* A step without communication: the file is deleted from the list, or the error
\* handler of the I/O system is set.
LocalStep(p) ==
  /\ script[p] # <<>> /\ Head(script[p]).root = "local"
  /\ LET what == Head(script[p]).what
     IN \/ /\ what = "forget_file"
           /\ files' = [files EXCEPT ![p] = [i \in DOMAIN @ \ {ncid[p]} |-> @[i]]]
           /\ UNCHANGED handler
        \/ /\ what \in Handlers
           /\ handler' = [handler EXCEPT ![p][On(p)] = what]
           /\ UNCHANGED files
  /\ script' = Rest(p)
  /\ UNCHANGED <<setup, next, ncid, sent, seq, window, ioVars, next_id, ids>>

-----------------------------------------------------------------------------
\* The computation processes.

Known(p, id) == id = 0 \/ id \in DOMAIN files[p]

\* A process makes its next call; pio_get_file fails when the id is not known,
\* and the call returns before it sends a message.
StartCall(p) ==
  LET calls == Calls(CompOf(p))
      call == calls[next[p] + 1]
      id == IF call.slot \in DOMAIN ids[p] THEN ids[p][call.slot] ELSE 0
  IN /\ script[p] = <<>> /\ next[p] < Len(calls)
     /\ next' = [next EXCEPT ![p] = @ + 1]
     /\ ncid' = [ncid EXCEPT ![p] = id]
     /\ script' = [script EXCEPT ![p] =
          IF (call.slot > 0 /\ id = 0) \/ ~Known(p, id)
          THEN <<>> ELSE Resolve(call.script, handler[p][CompOf(p)])]
     /\ UNCHANGED <<setup, sent, seq, window, ioVars, fileVars, handler>>

\* send_async_msg: every computation process counts the message, the master sends
\* its number and broadcasts the arguments.
SendAsyncMsg(p) ==
  LET c == CompOf(p)
      step == Head(script[p])
      id == IF step.what \in NoFile THEN 0 ELSE ncid[p]
  IN /\ script[p] # <<>> /\ step.root = "message"
     /\ seq' = [seq EXCEPT ![p][c] = @ + 1]
     /\ sent' = IF ~PeersFor(c, p).sends THEN sent
                ELSE [sent EXCEPT ![c] = Append(@,
                       [msg |-> step.what, o |-> step.o, ncid |-> id, got |-> {},
                        from |-> p, to |-> PeersFor(c, p).io,
                        file |-> IF id = 0 THEN "no_file" ELSE files[p][id]])]
     /\ script' = Rest(p)
     /\ UNCHANGED <<setup, next, ncid, window, ioVars, fileVars, handler>>

-----------------------------------------------------------------------------
\* The I/O processes (pio_msg_handler2).

\* recv_async_msg: an I/O process receives the arguments of the next message of a
\* component, from the rank in the other group that it takes for the master's, and
\* starts its handler, which returns at once if the file is not known.
RecvAsyncMsg(p, c) ==
  LET m == FirstFor(sent[c], p)
  IN /\ PeersFor(c, p).master = m.from
     /\ serving' = [serving EXCEPT ![p] = c]
     /\ msg' = [msg EXCEPT ![p] = m.msg]
     /\ sent' = [sent EXCEPT ![c] = Got(@, p, IoProcs)]
     /\ seq' = [seq EXCEPT ![p][c] = @ + 1]
     /\ ncid' = [ncid EXCEPT ![p] = m.ncid]
     /\ \E steps \in IF Known(p, m.ncid) THEN Handle(m.msg, m.o) ELSE {<<>>} :
          script' = [script EXCEPT ![p] = Resolve(steps, handler[p][c])]
     /\ UNCHANGED <<setup, next, window, open, fileVars, handler>>

\* MPI_Waitany: the root takes any component whose comproot has sent it a message,
\* and broadcasts which one.
Waitany(c) ==
  /\ serving[IoRoot] = None /\ c \in open[IoRoot] /\ Waiting(sent[c], IoRoot)
  /\ PeersFor(c, IoRoot).comp = {FirstFor(sent[c], IoRoot).from}
  /\ FirstFor(sent[c], IoRoot).to = {IoRoot}
  /\ loop' = Append(loop, [component |-> c, got |-> {IoRoot}])
  /\ RecvAsyncMsg(IoRoot, c)

\* The other I/O processes learn of the choice.
Follow(p) ==
  /\ p # IoRoot /\ serving[p] = None /\ Waiting(loop, p)
  /\ loop' = Got(loop, p, IoProcs)
  /\ RecvAsyncMsg(p, FirstFor(loop, p).component)

\* The handler returns; after PIO_MSG_FINALIZE the component is not listened to.
EndHandler(p) ==
  /\ serving[p] # None /\ script[p] = <<>>
  /\ serving' = [serving EXCEPT ![p] = None]
  /\ msg' = [msg EXCEPT ![p] = None]
  /\ open' = [open EXCEPT ![p] = IF msg[p] = "FINALIZE" THEN @ \ {serving[p]} ELSE @]
  /\ UNCHANGED <<setup, next, script, ncid, sent, seq, window, loop, fileVars, handler>>

-----------------------------------------------------------------------------
AllDone ==
  /\ \A p \in AllCompProcs : script[p] = <<>> /\ next[p] = Len(Calls(CompOf(p)))
  /\ \A p \in IoProcs : serving[p] = None /\ open[p] = {}

\* The I/O processes leave the loop when every component has finalized.
Terminated == AllDone /\ UNCHANGED vars

Next ==
  \/ \E p \in AllCompProcs : StartCall(p) \/ SendAsyncMsg(p)
  \/ \E p \in IoProcs : Follow(p) \/ EndHandler(p)
  \/ \E p \in Procs : LocalStep(p)
  \/ \E c \in Components :
       \/ Meet(c)
       \/ MeetPeers(c)
       \/ Waitany(c)
       \/ \E p \in Members(c) : Bcast(c, p)
  \/ Terminated

Spec == Init /\ [][Next]_vars /\ WF_vars(Next)

-----------------------------------------------------------------------------
TypeOK ==
  /\ next \in [Procs -> Nat]
  /\ ncid \in [Procs -> {0} \cup Nat]
  /\ seq \in [Procs -> [Components -> Nat]]
  /\ serving \in [Procs -> Components \cup {None}]
  /\ open \in [Procs -> SUBSET Components]
  /\ next_id \in [Procs -> Nat]
  /\ handler \in [Procs -> [Components -> Handlers]]
  /\ \A p \in Procs : \A id \in DOMAIN files[p] : id < next_id[p]
  /\ \A p \in Procs : serving[p] = None <=> msg[p] = None /\ (p \in IoProcs \/ msg[p] = None)
  /\ \A c \in Components, i \in 1..3 :
       i \in DOMAIN window[c] => window[c][i].got \in SUBSET Members(c) \ {{}, Members(c)}

\* The collective operations that meet are the same one: a process never comes to
\* a broadcast or reduction in the place of one that others make for another step
\* or another message (the two runs of every call, send_async_msg and the handlers).
CollectivesMatch ==
  \A c \in Components :
    LET here == {p \in Members(c) : Collective(p) /\ On(p) = c}
    IN \A p \in here :
         /\ Waiting(window[c], p) => FirstFor(window[c], p).op = Head1(p)
         /\ \A q \in here : Place(window[c], p) = Place(window[c], q) => Head1(p) = Head1(q)

\* The I/O process that is about to receive a message finds under its id the file
\* that the computation side means (pio_add_to_file_list, close_file_handler).
RightFile ==
  \A p \in IoProcs, c \in Components :
    serving[p] = None /\ c \in open[p] /\ Waiting(sent[c], p) =>
      LET m == FirstFor(sent[c], p)
      IN m.ncid # 0 => m.ncid \in DOMAIN files[p] /\ files[p][m.ncid] = m.file

\* Every call returns and the service ends after the last PIOc_finalize.
ServiceEnds == <>AllDone
=============================================================================
