----------------------------- MODULE EnclavePage -----------------------------
(***************************************************************************)
(* The page allocator and the page tables of an enclave image, as the sign *)
(* tool builds them to measure it (sign_tool/penglai-enclave-page.c).      *)
(*                                                                         *)
(* The image's memory is a pool of pages.  A list holds the free ones;     *)
(* enclave_alloc_page takes a page for a virtual address and walks three   *)
(* levels of page tables to the entry it writes, taking more pages for the *)
(* tables that are missing.  map_va2pa does the same for a page outside    *)
(* the pool (untrusted memory, the kernel buffer).  The step of the walk   *)
(* is the action here, so that a pool that runs out is met at each of the  *)
(* places where the code meets it.                                         *)
(*                                                                         *)
(* A page of the pool is a number, NULL (0) is the address 0 that          *)
(* get_free_mem returns when the list is empty.  A virtual page is the     *)
(* triple of the indices get_pt_index takes from it.  The pool is zero     *)
(* when it is handed over (a fresh mapping: the first load of a run).      *)
(***************************************************************************)
EXTENDS Naturals, Sequences

CONSTANTS
  NumPages,      \* pages of the pool
  Index,         \* indices of a page table
  Vas,           \* virtual pages that are mapped
  Outside,       \* pages outside the pool
  Flags          \* permission bits of a leaf entry

NULL == 0
Pages == 1 .. NumPages

ASSUME EnclavePageAssumption ==
  /\ NumPages \in Nat
  /\ NumPages >= 2
  /\ Vas \subseteq Index \X Index \X Index
  /\ Outside \cap (0 .. NumPages) = {}

VARIABLES
  free_mem,   \* the list of free pages, head first
  root,       \* enclave_root_pt, or NULL
  pt,         \* the entries of each page of the pool, seen as a page table
  walk        \* the call in progress

vars == <<free_mem, root, pt, walk>>

\* An entry without PTE_V, one made by ptd_create alone, one with flags.
NoEntry == [kind |-> "none", to |-> NULL]
Table(p) == [kind |-> "table", to |-> p]
Leaf(p, fl) == [kind |-> "leaf", to |-> p, flags |-> fl]

Targets == Pages \cup Outside \cup {NULL}
Entries ==
  {NoEntry} \cup {Table(p) : p \in Pages} \cup {Leaf(p, fl) : p \in Targets, fl \in Flags}

Idle == [op |-> "idle"]
Crashed == [op |-> "crashed"]
Start == [op |-> "start"]
Destroyed == [op |-> "destroyed"]

\* get_free_mem: the head of the list, NULL when the list is empty.
FreePage == IF free_mem = <<>> THEN NULL ELSE Head(free_mem)

\* Mutant of RestOfFree: the head stays on the list.
RestWithHead == free_mem

RestOfFree == IF free_mem = <<>> THEN <<>> ELSE Tail(free_mem)

Walking(va, page, fl) ==
  [op |-> "walk", va |-> va, page |-> page, flags |-> fl, level |-> 1, pgdir |-> root]

-----------------------------------------------------------------------------
MemInt(taken, count) ==
  /\ walk = Start
  /\ root' = 1
  /\ free_mem' = [n \in 1 .. count - taken |-> n + taken]
  /\ walk' = Idle
  /\ UNCHANGED pt

\* enclave_mem_int: every page goes on the list, the first becomes the root
\* table and the second is taken and never used.
EnclaveMemInt == MemInt(2, NumPages)

\* enclave_alloc_page: the page for the data is taken before the walk.
AllocPage(va, fl) ==
  /\ walk = Idle
  /\ walk' = Walking(va, FreePage, fl)
  /\ free_mem' = RestOfFree
  /\ UNCHANGED <<root, pt>>

MapVa2pa(va, pa, fl) ==
  /\ walk = Idle
  /\ walk' = Walking(va, pa, fl)
  /\ UNCHANGED <<free_mem, root, pt>>

Entry == pt[walk.pgdir][walk.va[walk.level]]

SetEntry(e) == pt' = [pt EXCEPT ![walk.pgdir][walk.va[walk.level]] = e]

Descend(table) == walk' = [walk EXCEPT !.level = @ + 1, !.pgdir = table]

\* A level of walk_enclave_pt at which the table is there ...
WalkFound ==
  /\ walk.op = "walk"
  /\ walk.level < 3
  /\ Entry.kind # "none"
  /\ Descend(Entry.to)
  /\ UNCHANGED <<free_mem, root, pt>>

\* ... at which create_ptd_page makes it ...
WalkCreate ==
  /\ walk.op = "walk"
  /\ walk.level < 3
  /\ Entry.kind = "none"
  /\ free_mem # <<>>
  /\ SetEntry(Table(FreePage))
  /\ Descend(FreePage)
  /\ free_mem' = RestOfFree
  /\ UNCHANGED root

\* ... and at which the list is empty: the walk returns NULL and its caller
\* stores through it.
WalkFails ==
  /\ walk.op = "walk"
  /\ walk.level < 3
  /\ Entry.kind = "none"
  /\ free_mem = <<>>
  /\ walk' = Crashed
  /\ UNCHANGED <<free_mem, root, pt>>

\* Mutant of SetPte: the index of the level above.
SetPteLevelAbove ==
  /\ walk.op = "walk"
  /\ walk.level = 3
  /\ pt' = [pt EXCEPT ![walk.pgdir][walk.va[2]] = Leaf(walk.page, walk.flags)]
  /\ walk' = Idle
  /\ UNCHANGED <<free_mem, root>>

\* *pte = ptd_create(page) | flags | PTE_V, whatever the entry held.
SetPte ==
  /\ walk.op = "walk"
  /\ walk.level = 3
  /\ SetEntry(Leaf(walk.page, walk.flags))
  /\ walk' = Idle
  /\ UNCHANGED <<free_mem, root>>

\* enclave_mem_destroy: the list is emptied, the tables stay.
EnclaveMemDestroy ==
  /\ walk = Idle
  /\ free_mem' = <<>>
  /\ walk' = Destroyed
  /\ UNCHANGED <<root, pt>>

-----------------------------------------------------------------------------
Init ==
  /\ free_mem = <<>>
  /\ root = NULL
  /\ pt = [p \in Pages |-> [i \in Index |-> NoEntry]]
  /\ walk = Start

Next ==
  \/ EnclaveMemInt
  \/ \E va \in Vas, fl \in Flags :
       \/ AllocPage(va, fl)
       \/ \E pa \in Outside : MapVa2pa(va, pa, fl)
  \/ WalkFound \/ WalkCreate \/ WalkFails \/ SetPte
  \/ EnclaveMemDestroy

Spec == Init /\ [][Next]_vars

-----------------------------------------------------------------------------
Walks ==
  [op : {"walk"}, va : Vas, page : Targets, flags : Flags, level : 1 .. 3, pgdir : Pages]

FreeSet == {free_mem[n] : n \in DOMAIN free_mem}

\* The free list, the tables and the walk have their types: a table entry points
\* to a page of the pool or outside it, and the walk is at a table.
TypeOK ==
  /\ free_mem \in Seq(Pages)
  /\ root \in Pages \cup {NULL}
  /\ pt \in [Pages -> [Index -> Entries]]
  /\ walk \in Walks \cup {Idle, Crashed, Start, Destroyed}

\* No page of the pool has two uses: it is named by at most one entry of all
\* the tables, and a page on the free list or the root table by none.
OneUse ==
  \A p, q \in Pages : \A i, j \in Index :
    LET e == pt[p][i]
        f == pt[q][j]
    IN  e.kind # "none" /\ e.to \in Pages =>
          /\ e.to # root
          /\ e.to \notin FreeSet
          /\ f.kind # "none" /\ f.to = e.to => p = q /\ i = j

\* No page table can be written by the enclave: a page that a leaf entry
\* maps holds no entry.
TablesNotMapped ==
  \A p, q \in Pages : \A i, j \in Index :
    pt[p][i].kind = "leaf" /\ pt[p][i].to = q => pt[q][j].kind = "none"

\* The entry the hardware finds for a virtual page, or NoEntry.
Translate(va) ==
  LET first == pt[root][va[1]]
      second == pt[first.to][va[2]]
  IN  IF root = NULL \/ first.kind # "table" THEN NoEntry
      ELSE IF second.kind # "table" THEN NoEntry
      ELSE pt[second.to][va[3]]

\* The page tables behave as one map from virtual pages to leaf entries: a
\* call changes the entry of its own virtual page only, once, and never maps a
\* page of the pool that is mapped already.
A == INSTANCE AddressSpace WITH
       Va <- Index \X Index \X Index, Pool <- Pages,
       map <- [va \in Index \X Index \X Index |-> Translate(va)],
       request <- IF walk.op = "walk" THEN <<walk.va, walk.flags>> ELSE <<>>

ImplementsAddressSpace == A!Spec
=============================================================================
