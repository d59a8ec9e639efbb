----------------------------- MODULE EnclaveHeap -----------------------------
(***************************************************************************)
(* Memory inside an enclave: the brk, mmap and munmap that the musl port   *)
(* answers itself (arch/riscv64/syscall_arch.h, the build without TLSF),   *)
(* and __expand_heap (malloc/expand_heap.c), which takes memory from brk   *)
(* while it lasts and from mmap afterwards.                                *)
(*                                                                         *)
(* The unit is 16 bytes, the size of a struct mmap_metadata: a cell is     *)
(* what one unit holds when it is read as such a struct, be it a header or *)
(* data.  The callers in malloc ask for whole pages, so every header lies  *)
(* on a cell.                                                              *)
(***************************************************************************)
EXTENDS Integers

CONSTANTS MmapSize,   \* mmap_size
          BrkSize,    \* brk_size
          BrkArea,    \* __brk_end - __brk_start0, from app.lds
          BrkStart,   \* the initial brk_offset
          Page,       \* PAGE_SIZE
          Word,       \* 2^64: sizes wrap
          Sizes,      \* what the program asks mmap for
          HeapSizes,  \* what malloc asks __expand_heap for, in whole pages
          Contents,   \* what the program stores in a cell
          LeftBehind, \* what it may leave in a cell it unmaps
          MaxStep     \* bound: mmap_step

VARIABLES mem,        \* the mmap area
          call,       \* the mmap that is walking the headers
          live,       \* the blocks the program holds
          heads,      \* history: where headers have been laid out
          brk, mmap_step

vars == <<mem, call, live, heads, brk, mmap_step>>

Cells == 0 .. MmapSize - 1
Cell == [type : Nat, size : Nat]
Zero == [type |-> 0, size |-> 0]

ASSUME EnclaveHeapAssumption ==
  /\ MmapSize \in Nat \ {0} /\ Page \in Nat \ {0}
  /\ BrkSize \in Nat /\ BrkArea \in Nat /\ BrkStart \in Nat
  /\ Word \in Nat /\ MmapSize < Word
  /\ Sizes \subseteq Nat \ {0} /\ HeapSizes \subseteq Nat \ {0}
  /\ LeftBehind \subseteq Contents /\ Contents \subseteq Cell
  /\ MaxStep \in Nat
  /\ \A s \in 0 .. MaxStep : Page * 2 ^ (s \div 2) \in Nat

Block(at, len, by) == [at |-> at, len |-> len, by |-> by]
Data(b) == b.at .. b.at + b.len - 1

Idle == [n |-> 0, at |-> 0, by |-> "none"]
Call(n, by) == [n |-> n, at |-> 0, by |-> by]

-----------------------------------------------------------------------------
(* mmap: the walk from header to header, one iteration of the loop a step. *)

Mmap(n) == /\ call = Idle
           /\ call' = Call(n, "program")
           /\ UNCHANGED <<mem, live, heads, brk, mmap_step>>

Walking == call # Idle /\ call.at < MmapSize
Head == mem[call.at]
Splits == Head.type = 0 \/ (Head.type = 1 /\ Head.size >= call.n + 1)
(* Mutant of Fits: an exact fit is passed over.                            *)
FitsOnlyLarger == Head.type = 1 /\ Head.size > call.n
Fits == Head.type = 1 /\ Head.size >= call.n
Rest == call.at + 1 + call.n
RestInside == Rest < MmapSize

Return(b) == /\ call' = Idle
             /\ live' = live \cup {b}
             /\ mmap_step' = IF call.by = "heap" THEN mmap_step + 1 ELSE mmap_step

(* Mutant of RestSize: the new header is not taken off the size.           *)
RestSizeWithHeader == IF mem[Rest].size = 0 THEN 0 ELSE (Head.size - call.n) % Word
RestSize == IF mem[Rest].size = 0 THEN 0 ELSE (Head.size - call.n - 1) % Word

MmapSplit ==
  /\ Walking /\ Splits /\ RestInside
  /\ mem' = [mem EXCEPT ![call.at] = [type |-> 2, size |-> call.n],
                        ![Rest] = [type |-> Head.type, size |-> RestSize]]
  /\ heads' = heads \cup {Rest}
  /\ Return(Block(call.at + 1, call.n, call.by))
  /\ UNCHANGED brk

MmapReuse ==
  /\ Walking /\ ~Splits /\ Fits
  /\ mem' = [mem EXCEPT ![call.at].type = 2]
  /\ Return(Block(call.at + 1, call.n, call.by))
  /\ UNCHANGED <<heads, brk>>

(* Mutant of NextHead: the header itself is not stepped over.              *)
NextWithoutHeader == (call.at + Head.size) % Word
NextHead == (call.at + 1 + Head.size) % Word

MmapSkip ==
  /\ Walking /\ ~Splits /\ ~Fits
  /\ call' = [call EXCEPT !.at = NextHead]
  /\ UNCHANGED <<mem, live, heads, brk, mmap_step>>

MmapFails ==
  /\ call # Idle
  /\ call.at >= MmapSize \/ (Splits /\ ~RestInside)
  /\ call' = Idle
  /\ UNCHANGED <<mem, live, heads, brk, mmap_step>>

Munmap(b) ==
  /\ call = Idle
  /\ b.by = "program" /\ \A i \in Data(b) : mem[i] \in LeftBehind
  /\ mem' = [mem EXCEPT ![b.at - 1].type = 1]
  /\ live' = live \ {b}
  /\ UNCHANGED <<call, heads, brk, mmap_step>>

-----------------------------------------------------------------------------
(* __expand_heap: the break is moved as long as it stays below twice       *)
(* brk_size.  brk_offset is read only by the first call, which brk stands  *)
(* for, so a refused break leaves nothing behind.                          *)

BrkGranted(n) == brk + n < 2 * BrkSize

ExpandHeap(n) ==
  /\ call = Idle
  /\ IF BrkGranted(n)
       THEN brk' = brk + n /\ UNCHANGED call
       ELSE /\ mmap_step < MaxStep
            /\ LET min == Page * 2 ^ (mmap_step \div 2)
               IN call' = Call(IF n < min THEN min ELSE n, "heap")
            /\ UNCHANGED brk
  /\ UNCHANGED <<mem, live, heads, mmap_step>>

(* The program stores into what it holds. *)
Store(b, i, c) == /\ call = Idle
                  /\ mem' = [mem EXCEPT ![i] = c]
                  /\ UNCHANGED <<call, live, heads, brk, mmap_step>>

Init == /\ mem = [i \in Cells |-> Zero]
        /\ call = Idle /\ live = {} /\ heads = {0}
        /\ brk = BrkStart /\ mmap_step = 0

Walk == MmapSplit \/ MmapReuse \/ MmapSkip \/ MmapFails

Next == \/ \E n \in Sizes : Mmap(n)
        \/ Walk
        \/ \E b \in live : Munmap(b)
        \/ \E n \in HeapSizes : ExpandHeap(n)
        \/ \E b \in live : \E i \in Data(b), c \in Contents : Store(b, i, c)

Spec == Init /\ [][Next]_vars

FairSpec == Spec /\ WF_vars(Walk)

-----------------------------------------------------------------------------
(* The state of the two allocators has its types: the walk of mmap writes  *)
(* nothing but cells, in the area, and every block starts there.           *)
TypeOK == /\ mem \in [Cells -> Cell]
          /\ call \in [n : Nat, at : Nat, by : {"none", "program", "heap"}]
          /\ live \subseteq [at : Cells, len : Nat, by : {"program", "heap"}]
          /\ heads \subseteq Cells
          /\ brk \in Nat /\ mmap_step \in 0 .. MaxStep

(* The program leaves no cell in what it unmaps whose second word is zero. *)
LeavesNoZero == \A c \in LeftBehind : c.size # 0

(* Two blocks that mmap handed out and that are both still held share no   *)
(* cell, their headers included, and lie in the mmap area, after any       *)
(* sequence of mmap, munmap, heap growth and stores.                       *)
LiveDisjoint ==
  \A b \in live :
    /\ b.at + b.len <= MmapSize
    /\ \A c \in live \ {b} : b.at + b.len < c.at \/ c.at + c.len < b.at

(* The header in front of a held block still says so, with its size: the   *)
(* walk steps over it and munmap frees exactly it.                         *)
HeadersIntact == \A b \in live : mem[b.at - 1] = [type |-> 2, size |-> b.len]

(* mmap gives up only when no unmapped block is large enough: memory that  *)
(* was given back is never lost to the walk.                               *)
FailsOnlyWhenFull ==
  [][(call # Idle /\ call' = Idle /\ live' = live)
       => ~ \E h \in heads : mem[h].type = 1 /\ mem[h].size >= call.n]_vars

(* What brk_size and the linker script have to agree on. *)
AreaHoldsBreak == BrkStart <= BrkArea /\ 2 * BrkSize <= BrkArea

(* The break stays inside the area the linker script reserves for it, and  *)
(* so clear of the mmap area that follows.                                 *)
HeapInBrkArea == brk <= BrkArea

(* mmap returns: the walk over the headers cannot go round for ever.       *)
MmapReturns == (call # Idle) ~> (call = Idle)
=============================================================================
