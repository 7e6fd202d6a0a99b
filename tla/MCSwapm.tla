------------------------------- MODULE MCSwapm -------------------------------
(* An instance of Swapm for TLC: five processes, so that some steps pair with *)
(* no process.  The traffic is what the rearrangers produce: everything to    *)
(* two I/O processes, and an irregular pattern in which one process of a pair *)
(* may send and the other not, and one process has no partner.                *)
EXTENDS Swapm

MCNProcs == 5
MCCeil2 == 8

\* Bitwise exclusive or of two numbers of three bits.
Bit(a, k) == (a \div 2^k) % 2
XorTable ==
  [a, b \in 0..MCCeil2 - 1 |->
     LET x(k) == (Bit(a, k) + Bit(b, k)) % 2 IN x(0) + 2 * x(1) + 4 * x(2)]
MCXor(a, b) == XorTable[a, b]

MCPatterns ==
  {(0..4) \X {1, 4}, {<<0, 0>>, <<0, 3>>, <<3, 0>>, <<2, 0>>, <<1, 2>>, <<3, 1>>}}

\* Windows smaller than, as large as and larger than the number of partners.
FC(hs, isend, max) == [hs |-> hs, isend |-> isend, max_pend_req |-> max]
MCFlowControls ==
  {FC(TRUE, FALSE, 2), FC(TRUE, TRUE, 1), FC(FALSE, FALSE, 3),
   FC(FALSE, TRUE, UnlimitedPendReq), FC(TRUE, FALSE, 0)}
=============================================================================
