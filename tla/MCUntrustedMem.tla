--------------------------- MODULE MCUntrustedMem ---------------------------
(***************************************************************************)
(* Pages of four granules.  The sizes are nothing, less than a page, one   *)
(* page, and one whose sum with the reserved part wraps the word; the      *)
(* address space has room for some of the calls only.                      *)
(***************************************************************************)
EXTENDS UntrustedMem

MCSizes == {0, 3, 4, 59}
MCOtherMaps == {24}
=============================================================================
