--------------------------- MODULE MCEnclaveImage ---------------------------
(***************************************************************************)
(* Pages of two bytes, tables of three entries.  Code starts on page 1,    *)
(* the stack ends at page 12, untrusted memory is on page 18 and 19, the   *)
(* kernel buffer on page 21.                                               *)
(***************************************************************************)
EXTENDS EnclaveImage

Seg(addr, size, offset) == [addr |-> addr, size |-> size, offset |-> offset]
Bss(addr, size) == [addr |-> addr, size |-> size, nobits |-> TRUE]
Text(addr, size) == [addr |-> addr, size |-> size, nobits |-> FALSE]

\* One header; two with a hole between; two on adjacent pages and an empty
\* one at address 0; one that is not aligned; two that share a page; two
\* small ones.
MCSegments ==
  {<<Seg(4, 7, 10)>>, <<Seg(2, 4, 10), Seg(10, 3, 20)>>,
   <<Seg(2, 3, 10), Seg(6, 2, 20), Seg(0, 0, 30)>>,
   <<Seg(3, 4, 10)>>, <<Seg(2, 4, 10), Seg(5, 1, 20)>>, <<Seg(2, 1, 10), Seg(4, 1, 20)>>}

\* None; one after the data on its last page; a page and a half; one that
\* crosses a page; several small ones, in one table and in three.
MCSections ==
  {<<Text(2, 2)>>, <<Bss(11, 1)>>, <<Bss(0, 2), Text(2, 3), Bss(14, 3)>>, <<Bss(15, 2)>>,
   <<Bss(14, 1), Bss(16, 1), Bss(18, 1)>>,
   <<Bss(26, 1), Bss(8, 1), Bss(14, 1), Bss(16, 1)>>}

MCElfs ==
  {[entry |-> 2, sections |-> sections, segments |-> segments, stack_size |-> stack, umem |-> umem] :
     sections \in MCSections, segments \in MCSegments, stack \in {2, 3}, umem \in {2, 3}}

MCVas == Index \X Index \X Index
=============================================================================
