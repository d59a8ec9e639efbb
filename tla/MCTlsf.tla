------------------------------- MODULE MCTlsf -------------------------------
(* Two pools that touch.  The first holds three blocks of the least size,  *)
(* the second one block of 8 words, in a list that also holds 9.           *)
EXTENDS Tlsf

TwoPools == {[start |-> 1, words |-> 15], [start |-> 16, words |-> 10]}
=============================================================================
