--------------------------- MODULE MCEnclavePage ---------------------------
(***************************************************************************)
(* Tables of two entries.  The virtual pages share a last-level table, a   *)
(* middle table, or the root only; the pool is too small to map them all,  *)
(* so each walk also meets the empty list.                                 *)
(***************************************************************************)
EXTENDS EnclavePage

MCVas == {<<0, 0, 0>>, <<0, 0, 1>>, <<0, 1, 0>>, <<1, 0, 0>>}
=============================================================================
