---------------------------- MODULE MCEnclaveHeap ----------------------------
(***************************************************************************)
(* Small areas for TLC.  A program that fills what it was given leaves no  *)
(* zero word behind (Filled); one that does not leaves zeroes (Any).       *)
(***************************************************************************)
EXTENDS EnclaveHeap

Filled == {[type |-> 0, size |-> 3], [type |-> 1, size |-> 1]}
Any == Filled \cup {Zero}
=============================================================================
