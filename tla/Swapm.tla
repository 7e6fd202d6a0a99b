-------------------------------- MODULE Swapm --------------------------------
(***************************************************************************)
(* The all-to-all exchange of the rearrangers (pio_swapm in pio_spmd.cpp;  *)
(* the swapm of rearr/pio_rearr_utils.cpp takes the same steps).           *)
(*                                                                         *)
(* Every process exchanges data with its partners in the order of the      *)
(* exclusive or of their ranks.  It posts at most a window of receives     *)
(* ahead, and with handshakes a process sends data only after the receiver *)
(* has told it that the receive is posted.                                 *)
(*                                                                         *)
(* The data process p sends to process q is the channel <<p, q>>.  A       *)
(* handshake is one integer and its MPI_Send is taken to return at once    *)
(* (eager protocol); the MPI_Send of data may be eager, or wait until the  *)
(* receive is posted (rendezvous protocol): both are legal for MPI.        *)
(***************************************************************************)
EXTENDS Integers, FiniteSets

CONSTANTS
  NProcs,       \* ntasks, the size of the communicator
  Ceil2,        \* ceil2(ntasks), the next power of two
  Xor(_, _),    \* the operator ^ of C
  Patterns,     \* the sets of channels that may carry data in one call
  FlowControls  \* rearr_comm_fc_opt_t: [hs, isend, max_pend_req]

Procs == 0..NProcs - 1
Ranks == 0..Ceil2 - 1
UnlimitedPendReq == -1

ASSUME SwapmAssumption ==
  /\ NProcs \in Nat \ {0}
  /\ Ceil2 \in Nat
  /\ NProcs <= Ceil2
  /\ Patterns \subseteq SUBSET (Procs \X Procs)
  /\ FlowControls \subseteq [hs : BOOLEAN, isend : BOOLEAN, max_pend_req : Nat \union {UnlimitedPendReq}]

\* What the algorithm needs of ^ on numbers of as many bits as Ceil2 - 1 has.
ASSUME XorAssumption ==
  \A a, b \in Ranks :
    /\ Xor(a, b) \in Ranks
    /\ Xor(a, b) = Xor(b, a)
    /\ Xor(a, Xor(a, b)) = b
    /\ Xor(a, b) = 0 <=> a = b

VARIABLES
  traffic, \* the channels with sendcounts > 0 (and recvcounts > 0 at the receiver)
  fc,      \* the flow control options of the call
  eager,   \* whether MPI_Send of data returns before the receive is posted
  pc,      \* where each process is
  steps,   \* the number of partners of each process
  swapids, \* swapids[p]: the partners of p, in the order of the exchange
  istep,   \* the step each process is at
  rstep,   \* the next step to post a receive for
  hsrcvs,  \* channels whose sender has posted the receive of the handshake
  hssent,  \* channels whose receiver has sent the handshake
  posted,  \* channels whose receiver has posted the receive of the data
  sent,    \* channels whose sender has called MPI_Send or MPI_Isend
  waited   \* channels whose receiver has waited for the receive

inputs == <<traffic, fc, eager>>
vars == <<traffic, fc, eager, pc, steps, swapids, istep, rstep, hsrcvs, hssent, posted, sent, waited>>

-----------------------------------------------------------------------------
\* Slip: A rotation of the ranks: the two sides of a pair meet at different steps.
PairRotated(s, p) == IF s > NProcs - 2 THEN -1 ELSE (p + s + 1) % NProcs

\* The partner of process p at step s, -1 if there is none.
Pair(s, p) == LET q == Xor(s + 1, p) IN IF q > NProcs - 1 THEN -1 ELSE q

\* The steps that pair p with a process it sends data to or receives data from.
PairSteps(p) ==
  {s \in 0..Ceil2 - 2 :
     LET q == Pair(s, p) IN q >= 0 /\ (<<p, q>> \in traffic \/ <<q, p>> \in traffic)}

\* swapids: the partners in the order of their steps.
SwapOrder(p) ==
  [i \in 0..Cardinality(PairSteps(p)) - 1 |->
     Pair(CHOOSE s \in PairSteps(p) : Cardinality({t \in PairSteps(p) : t < s}) = i, p)]

\* The number of receives posted at first, and how many steps later each is waited for.
MaxReq(n) ==
  CASE n <= 1 -> n
    [] n > 1 /\ fc.max_pend_req = 1 -> 2
    [] n > 1 /\ fc.max_pend_req > 1 /\ fc.max_pend_req < n -> fc.max_pend_req
    [] OTHER -> n

\* Slip: Nothing is waited for before the whole window is used up.
MaxReqHWindow(n) == MaxReq(n)

MaxReqH(n) ==
  CASE n <= 1 -> n
    [] n > 1 /\ fc.max_pend_req = 1 -> 1
    [] n > 1 /\ fc.max_pend_req > 1 /\ fc.max_pend_req < n -> fc.max_pend_req \div 2
    [] OTHER -> n

-----------------------------------------------------------------------------
Init ==
  /\ traffic \in Patterns
  /\ fc \in FlowControls
  /\ eager \in BOOLEAN
  /\ pc = [p \in Procs |-> "start"]
  /\ steps = [p \in Procs |-> 0]
  /\ swapids = [p \in Procs |-> <<>>]
  /\ istep = [p \in Procs |-> 0]
  /\ rstep = [p \in Procs |-> 0]
  /\ hsrcvs = {}
  /\ hssent = {}
  /\ posted = {}
  /\ sent = {}
  /\ waited = {}

\* Without flow control the library's MPI_Alltoallw does it all.
Alltoallw ==
  /\ fc.max_pend_req = 0
  /\ \A p \in Procs : pc[p] = "start"
  /\ pc' = [p \in Procs |-> "done"]
  /\ posted' = traffic
  /\ sent' = traffic
  /\ waited' = traffic
  /\ UNCHANGED <<inputs, steps, swapids, istep, rstep, hsrcvs, hssent>>

\* The receives of the data of the partners in Q, each followed by a handshake.
PostReceives(p, Q, done) ==
  LET data == {<<q, p>> : q \in Q} \intersect traffic IN
  /\ posted' = posted \union data \union done
  /\ hssent' = IF fc.hs THEN hssent \union data ELSE hssent

\* The calls that cannot block: the exchange of the process with itself (receive
\* posted before the send), the order of the partners, and the receives of the first
\* maxreq handshakes and of the data.
Begin(p) ==
  LET self == {<<p, p>>} \intersect traffic
      order == SwapOrder(p)
      n == Cardinality(PairSteps(p))
      first == {order[i] : i \in 0..MaxReq(n) - 1}
  IN
  /\ pc[p] = "start"
  /\ fc.max_pend_req # 0
  /\ steps' = [steps EXCEPT ![p] = n]
  /\ swapids' = [swapids EXCEPT ![p] = order]
  /\ pc' = [pc EXCEPT ![p] = IF n = 0 THEN "done" ELSE "send"]
  /\ hsrcvs' = IF fc.hs THEN hsrcvs \union (({p} \X first) \intersect traffic) ELSE hsrcvs
  /\ PostReceives(p, first, self)
  /\ sent' = sent \union self
  /\ waited' = waited \union self
  /\ rstep' = [rstep EXCEPT ![p] = MaxReq(n)]
  /\ UNCHANGED <<inputs, istep>>

\* MPI_Wait for the handshake of the current partner: it returns at once if no
\* receive was posted (MPI_REQUEST_NULL).
HandshakeDone(p) ==
  LET c == <<p, swapids[p][istep[p]]>> IN fc.hs /\ c \in hsrcvs => c \in hssent

\* The data for the partner of this step is sent, if there is any; MPI_Isend and an
\* eager MPI_Send return at once.
Send(p) ==
  LET c == <<p, swapids[p][istep[p]]>> IN
  /\ pc[p] = "send"
  /\ istep[p] < steps[p]
  /\ IF c \in traffic
     THEN /\ HandshakeDone(p)
          /\ sent' = sent \union {c}
          /\ pc' = [pc EXCEPT ![p] = IF fc.isend \/ eager THEN "recv" ELSE "sending"]
     ELSE pc' = [pc EXCEPT ![p] = "recv"] /\ UNCHANGED sent
  /\ UNCHANGED <<inputs, steps, swapids, istep, rstep, hsrcvs, hssent, posted, waited>>

\* A send of data can complete.
Completes(c) == eager \/ c \in posted

\* The blocking MPI_Send returns.
SendReturns(p) ==
  /\ pc[p] = "sending"
  /\ Completes(<<p, swapids[p][istep[p]]>>)
  /\ pc' = [pc EXCEPT ![p] = "recv"]
  /\ UNCHANGED <<inputs, steps, swapids, istep, rstep, hsrcvs, hssent, posted, sent, waited>>

\* The receives of p that are posted and not waited for: the requests in rcvids.
Pending(p) == {c \in posted \ waited : c[2] = p}

\* The receive waited for at the end of this step, if its request is not null.
Oldest(p) ==
  Pending(p) \intersect {<<swapids[p][i], p>> : i \in {istep[p] - MaxReqH(steps[p])} \intersect Nat}

\* Slip: The receives posted later have no handshake receive with them.
RecvNoHandshake(p) ==
  /\ pc[p] = "recv"
  /\ Oldest(p) \subseteq sent
  /\ waited' = waited \union Oldest(p)
  /\ IF istep[p] >= MaxReqH(steps[p]) /\ rstep[p] < steps[p]
     THEN /\ PostReceives(p, {swapids[p][rstep[p]]}, {})
          /\ rstep' = [rstep EXCEPT ![p] = @ + 1]
     ELSE UNCHANGED <<posted, hssent, rstep>>
  /\ istep' = [istep EXCEPT ![p] = @ + 1]
  /\ pc' = [pc EXCEPT ![p] = "send"]
  /\ UNCHANGED <<inputs, steps, swapids, sent, hsrcvs>>

\* Slip: A receive is posted at every step, not only once an older one is complete.
RecvRefillsEarly(p) ==
  /\ pc[p] = "recv"
  /\ Oldest(p) \subseteq sent
  /\ waited' = waited \union Oldest(p)
  /\ IF rstep[p] < steps[p]
     THEN LET q == swapids[p][rstep[p]] IN
          /\ hsrcvs' = hsrcvs \union (IF fc.hs THEN {<<p, q>>} \intersect traffic ELSE {})
          /\ PostReceives(p, {q}, {})
          /\ rstep' = [rstep EXCEPT ![p] = @ + 1]
     ELSE UNCHANGED <<hsrcvs, posted, hssent, rstep>>
  /\ istep' = [istep EXCEPT ![p] = @ + 1]
  /\ pc' = [pc EXCEPT ![p] = "send"]
  /\ UNCHANGED <<inputs, steps, swapids, sent>>

\* Slip: The receive is only tested for, not waited for.
RecvTests(p) ==
  /\ pc[p] = "recv"
  /\ waited' = waited \union Oldest(p)
  /\ IF istep[p] >= MaxReqH(steps[p]) /\ rstep[p] < steps[p]
     THEN LET q == swapids[p][rstep[p]] IN
          /\ hsrcvs' = hsrcvs \union (IF fc.hs THEN {<<p, q>>} \intersect traffic ELSE {})
          /\ PostReceives(p, {q}, {})
          /\ rstep' = [rstep EXCEPT ![p] = @ + 1]
     ELSE UNCHANGED <<hsrcvs, posted, hssent, rstep>>
  /\ istep' = [istep EXCEPT ![p] = @ + 1]
  /\ pc' = [pc EXCEPT ![p] = "send"]
  /\ UNCHANGED <<inputs, steps, swapids, sent>>

\* The end of a step: wait for an old receive and post a new one.
Recv(p) ==
  /\ pc[p] = "recv"
  /\ Oldest(p) \subseteq sent
  /\ waited' = waited \union Oldest(p)
  /\ IF istep[p] >= MaxReqH(steps[p]) /\ rstep[p] < steps[p]
     THEN LET q == swapids[p][rstep[p]] IN
          /\ hsrcvs' = hsrcvs \union (IF fc.hs THEN {<<p, q>>} \intersect traffic ELSE {})
          /\ PostReceives(p, {q}, {})
          /\ rstep' = [rstep EXCEPT ![p] = @ + 1]
     ELSE UNCHANGED <<hsrcvs, posted, hssent, rstep>>
  /\ istep' = [istep EXCEPT ![p] = @ + 1]
  /\ pc' = [pc EXCEPT ![p] = "send"]
  /\ UNCHANGED <<inputs, steps, swapids, sent>>

\* Slip: The nonblocking sends are not waited for.
FinishForgetsSends(p) ==
  /\ pc[p] = "send"
  /\ istep[p] = steps[p]
  /\ Pending(p) \subseteq sent
  /\ waited' = waited \union Pending(p)
  /\ pc' = [pc EXCEPT ![p] = "done"]
  /\ UNCHANGED <<inputs, steps, swapids, istep, rstep, hsrcvs, hssent, posted, sent>>

\* MPI_Waitall for the receives, and for the sends if they are nonblocking.
Finish(p) ==
  /\ pc[p] = "send"
  /\ istep[p] = steps[p]
  /\ Pending(p) \subseteq sent
  /\ fc.isend => \A c \in sent : c[1] = p => Completes(c)
  /\ waited' = waited \union Pending(p)
  /\ pc' = [pc EXCEPT ![p] = "done"]
  /\ UNCHANGED <<inputs, steps, swapids, istep, rstep, hsrcvs, hssent, posted, sent>>

\* Every process has returned.
Returned ==
  /\ \A p \in Procs : pc[p] = "done"
  /\ UNCHANGED vars

Step(p) == Begin(p) \/ Send(p) \/ SendReturns(p) \/ Recv(p) \/ Finish(p)

Next == Alltoallw \/ (\E p \in Procs : Step(p)) \/ Returned

\* Some process that can go on does: every run is finite, so nothing more is needed.
Fairness == WF_vars(Next)

Spec == Init /\ [][Next]_vars /\ Fairness

-----------------------------------------------------------------------------
TypeOK ==
  /\ traffic \in Patterns
  /\ fc \in FlowControls
  /\ eager \in BOOLEAN
  /\ pc \in [Procs -> {"start", "send", "sending", "recv", "done"}]
  /\ \A p \in Procs :
       /\ steps[p] \in Nat
       /\ istep[p] \in 0..steps[p]
       /\ rstep[p] \in 0..steps[p]
       /\ pc[p] \in {"send", "sending", "recv"} => swapids[p] \in [0..steps[p] - 1 -> Procs]
       /\ pc[p] \in {"sending", "recv"} => istep[p] < steps[p]
  /\ hsrcvs \subseteq traffic
  /\ hssent \subseteq posted
  /\ posted \subseteq traffic
  /\ sent \subseteq traffic
  /\ waited \subseteq posted \intersect sent

\* With handshakes no data is sent before its receive is posted, whatever the
\* window: no unexpected messages pile up at a receiver, and MPI_Irsend may be used
\* (_USE_MPI_RSEND).  Each side works out the order and the window by itself.
ReadyBeforeSend == fc.hs => sent \subseteq posted

\* A process that can take its next step.
CanStep(p) ==
  LET c == <<p, swapids[p][istep[p]]>> IN
  \/ pc[p] = "start"
  \/ pc[p] = "send" /\ istep[p] < steps[p] /\ (c \in traffic => HandshakeDone(p))
  \/ pc[p] = "send" /\ istep[p] = steps[p] /\ Pending(p) \subseteq sent
       /\ (fc.isend => \A d \in sent : d[1] = p => Completes(d))
  \/ pc[p] = "sending" /\ Completes(c)
  \/ pc[p] = "recv" /\ Oldest(p) \subseteq sent

\* The processes never all wait for one another: for go-aheads, for receives to be
\* posted, for data, whatever the traffic, the window and the kind of send.
NotStuck == (\E p \in Procs : pc[p] # "done") => \E p \in Procs : CanStep(p)

\* A process never has more receives pending than maxreq: the window holds although
\* it is refilled at the end of steps that waited for nothing.
WindowKept ==
  \A p \in Procs :
    pc[p] \in {"send", "sending", "recv"} => Cardinality(Pending(p)) <= MaxReq(steps[p])

\* A process that has returned has received everything meant for it, and its send
\* buffers are its own again.
ReturnedMeansExchanged ==
  \A p \in Procs : pc[p] = "done" =>
    /\ {c \in traffic : c[2] = p} \subseteq waited
    /\ {c \in traffic : c[1] = p} \subseteq (IF eager THEN sent ELSE sent \intersect posted)

\* The exchange ends on every process.
ExchangeEnds == <>(\A p \in Procs : pc[p] = "done")
=============================================================================
