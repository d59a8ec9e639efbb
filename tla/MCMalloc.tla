------------------------------ MODULE MCMalloc ------------------------------
(* The areas of app.lds.  The requests: a chunk of the least size, one of  *)
(* the coarse bins, one of which two fill the break's area, and one that   *)
(* is mapped; with an alignment of twice SIZE_ALIGN, a small one and one   *)
(* that is larger than an object may be.                                   *)
EXTENDS Malloc

Aligned64 == {[align |-> 64, bytes |-> n] : n \in {100, PTRDIFF_MAX}}
=============================================================================
