---------------------------- MODULE BufferedFile ----------------------------
(***************************************************************************)
(* What PIOc_write_darray, PIOc_sync and PIOc_closefile promise the user   *)
(* of one file, without the write cache: a write is accepted at once and   *)
(* stored at some later moment chosen by the library, a slot of the file   *)
(* only ever takes the newest version accepted for it, and when sync or    *)
(* close has returned everything accepted is stored.  Nothing is lost.     *)
(***************************************************************************)
EXTENDS Integers

CONSTANT Slots       \* the places in the file a write may go to

VARIABLES accepted,  \* the newest version accepted for each slot, 0 if none
          stored,    \* the version in the file, 0 if none
          synced     \* the last call was a sync or close that succeeded

fileVars == <<accepted, stored, synced>>

Init ==
  /\ accepted = [x \in Slots |-> 0]
  /\ stored = [x \in Slots |-> 0]
  /\ synced = FALSE

\* Any of the slots may be brought up to date at any moment.
Store ==
  /\ stored' \in [Slots -> Int]
  /\ \A x \in Slots : stored'[x] \in {stored[x], accepted[x]}

\* A write is accepted; the library may store older writes on the way.
Write(x) ==
  /\ accepted'[x] > accepted[x]
  /\ accepted' = [accepted EXCEPT ![x] = accepted'[x]]
  /\ Store
  /\ synced' = FALSE

\* A step of the library or a call that does not touch the data.
Background == UNCHANGED accepted /\ synced' = FALSE /\ Store

\* PIOc_sync or PIOc_closefile returns.
Sync == UNCHANGED accepted /\ synced' = TRUE /\ stored' = accepted

Next ==
  \/ \E x \in Slots : Write(x)
  \/ Background
  \/ Sync

Spec == Init /\ [][Next]_fileVars
=============================================================================
