-------------------------- MODULE EnclavePageProofs --------------------------
(***************************************************************************)
(* Proofs about the page tables of sign_tool/penglai-enclave-page.c for a  *)
(* pool, tables and a set of virtual pages of any size.                    *)
(***************************************************************************)
EXTENDS EnclavePage, TLAPS

(***************************************************************************)
(* The inductive invariant.  OneUse alone is not inductive: a new entry    *)
(* must name a page that no entry names, so the pages of the free list are *)
(* distinct (FreeDistinct) and the page a call has taken is unused until   *)
(* its entry is written (WalkOk).  That the walk stays in the tables of    *)
(* its level (WalkOk) and that each level holds entries of its kind only   *)
(* (Levels) separates the tables from the pages they map.                  *)
(***************************************************************************)
FreeDistinct ==
  /\ \A m, n \in DOMAIN free_mem : free_mem[m] = free_mem[n] => m = n
  /\ root \notin FreeSet

\* Tables below the root and below those.
Middle == {p \in Pages : root # NULL /\ \E i \in Index : pt[root][i] = Table(p)}
Last == {p \in Pages : \E q \in Middle : \E i \in Index : pt[q][i] = Table(p)}

Levels ==
  \A p \in Pages : \A i \in Index :
    /\ p = root \/ p \in Middle => pt[p][i].kind # "leaf"
    /\ p \in Last => pt[p][i].kind # "table"
    /\ p # root /\ p \notin Middle /\ p \notin Last => pt[p][i] = NoEntry

Unused(p) ==
  /\ p # root
  /\ p \notin FreeSet
  /\ \A q \in Pages : \A i \in Index : pt[q][i].kind # "none" => pt[q][i].to # p

AtLevel(va, level, p) ==
  /\ level = 1 => p = root
  /\ level = 2 => pt[root][va[1]] = Table(p)
  /\ level = 3 => \E q \in Pages : pt[root][va[1]] = Table(q) /\ pt[q][va[2]] = Table(p)

WalkOk ==
  /\ walk = Start <=> root = NULL
  /\ walk = Start => free_mem = <<>>
  /\ walk.op = "walk" =>
       /\ AtLevel(walk.va, walk.level, walk.pgdir)
       /\ walk.page \in Pages => Unused(walk.page)

IInv == TypeOK /\ FreeDistinct /\ OneUse /\ Levels /\ WalkOk

-----------------------------------------------------------------------------
\* An entry is one of the three kinds, and determined by its fields.
LEMMA EntryShape ==
  ASSUME NEW e \in Entries
  PROVE  \/ e = NoEntry /\ e.kind = "none"
         \/ e.kind = "table" /\ e.to \in Pages /\ e = Table(e.to)
         \/ e.kind = "leaf" /\ e.to \in Targets /\ e.flags \in Flags /\ e = Leaf(e.to, e.flags)
  BY DEF Entries, NoEntry, Table, Leaf

\* What ptd_create encodes is a table entry, and decodes to its page.
LEMMA TableEntry ==
  ASSUME NEW p \in Pages
  PROVE  Table(p) \in Entries /\ Table(p).kind = "table" /\ Table(p).to = p
  BY DEF Entries, Table

\* What a mapping call writes is a leaf, and decodes to its page and flags.
LEMMA LeafEntry ==
  ASSUME NEW p \in Targets, NEW fl \in Flags
  PROVE  /\ Leaf(p, fl) \in Entries /\ Leaf(p, fl).kind = "leaf"
         /\ Leaf(p, fl).to = p /\ Leaf(p, fl).flags = fl
  BY DEF Entries, Leaf

\* Pages are not NULL and not pages outside the pool.
LEMMA PagesApart == NULL \notin Pages /\ Pages \cap Outside = {} /\ 1 \in Pages
  BY EnclavePageAssumption DEF NULL, Pages

\* get_free_mem takes exactly the head off the list.
LEMMA TakeFree ==
  ASSUME TypeOK, FreeDistinct, free_mem # <<>>
  PROVE  /\ FreePage \in Pages
         /\ FreePage \in FreeSet
         /\ RestOfFree \in Seq(Pages)
         /\ \A m, n \in DOMAIN RestOfFree : RestOfFree[m] = RestOfFree[n] => m = n
         /\ {RestOfFree[n] : n \in DOMAIN RestOfFree} = FreeSet \ {FreePage}
  <1>1. /\ free_mem \in Seq(Pages) /\ Len(free_mem) \in Nat /\ Len(free_mem) > 0
        /\ DOMAIN free_mem = 1 .. Len(free_mem)
    BY DEF TypeOK
  <1>2. FreePage = free_mem[1] /\ RestOfFree = Tail(free_mem)
    BY <1>1 DEF FreePage, RestOfFree
  <1>3. /\ RestOfFree \in Seq(Pages)
        /\ DOMAIN RestOfFree = 1 .. Len(free_mem) - 1
        /\ \A n \in 1 .. Len(free_mem) - 1 : RestOfFree[n] = free_mem[n + 1]
    BY <1>1, <1>2
  <1>4. FreePage \in Pages /\ FreePage \in FreeSet
    BY <1>1, <1>2 DEF FreeSet
  <1>5. \A m, n \in DOMAIN RestOfFree : RestOfFree[m] = RestOfFree[n] => m = n
    BY <1>1, <1>3 DEF FreeDistinct
  <1>6. {RestOfFree[n] : n \in DOMAIN RestOfFree} \subseteq FreeSet \ {FreePage}
    BY <1>1, <1>2, <1>3 DEF FreeDistinct, FreeSet
  <1>7. FreeSet \ {FreePage} \subseteq {RestOfFree[n] : n \in DOMAIN RestOfFree}
    <2>1. SUFFICES ASSUME NEW n \in 1 .. Len(free_mem), free_mem[n] # FreePage
                   PROVE  \E m \in DOMAIN RestOfFree : RestOfFree[m] = free_mem[n]
      BY <1>1 DEF FreeSet
    <2>2. n - 1 \in 1 .. Len(free_mem) - 1 /\ RestOfFree[n - 1] = free_mem[n]
      BY <1>1, <1>2, <1>3, <2>1
    <2> QED BY <1>3, <2>2
  <1> QED BY <1>3, <1>4, <1>5, <1>6, <1>7

\* The invariant holds before enclave_mem_int.
LEMMA InitIInv == Init => IInv
  <1> SUFFICES ASSUME Init PROVE IInv
    OBVIOUS
  <1>1. \A p \in Pages : \A i \in Index : pt[p][i] = NoEntry /\ pt[p][i].kind = "none"
    BY DEF Init, NoEntry
  <1>2. TypeOK
    BY DEF Init, TypeOK, Entries
  <1>3. FreeDistinct /\ OneUse
    BY <1>1, PagesApart DEF Init, FreeDistinct, FreeSet, OneUse
  <1>4. Levels
    BY <1>1 DEF Levels
  <1>5. WalkOk
    BY DEF Init, WalkOk, Start
  <1> QED BY <1>2, <1>3, <1>4, <1>5 DEF IInv

\* The three levels of tables share no page, and entries that name the same
\* table are the same entry.
LEMMA LevelsApart ==
  ASSUME IInv
  PROVE  /\ root \notin Middle /\ root \notin Last /\ Middle \cap Last = {}
         /\ \A p, q, r \in Pages : \A i, j \in Index :
              pt[p][i] = Table(r) /\ pt[q][j] = Table(r) => p = q /\ i = j
  <1>1. ASSUME NEW p \in Pages, NEW r \in Pages, NEW i \in Index, pt[p][i] = Table(r)
        PROVE  pt[p][i].kind # "none" /\ pt[p][i].to = r
    BY <1>1, TableEntry
  <1>2. \A p, q, r \in Pages : \A i, j \in Index :
          pt[p][i] = Table(r) /\ pt[q][j] = Table(r) => p = q /\ i = j
    BY <1>1 DEF IInv, OneUse
  <1>3. \A p, r \in Pages : \A i \in Index : pt[p][i] = Table(r) => r # root
    BY <1>1 DEF IInv, OneUse
  <1>4. root # NULL => root \in Pages
    BY DEF IInv, TypeOK
  <1>5. root \notin Middle /\ root \notin Last
    BY <1>3, <1>4 DEF Middle, Last
  <1>6. ASSUME NEW p \in Middle, p \in Last
        PROVE  FALSE
    <2>1. PICK i \in Index : root \in Pages /\ pt[root][i] = Table(p)
      BY <1>4, <1>6 DEF Middle
    <2>2. PICK q \in Middle, j \in Index : pt[q][j] = Table(p)
      BY <1>6 DEF Last
    <2> QED BY <1>2, <1>5, <2>1, <2>2 DEF Middle
  <1> QED BY <1>2, <1>5, <1>6

\* Where a walk is.
LEMMA WalkFacts ==
  ASSUME IInv, walk.op = "walk"
  PROVE  /\ walk \in Walks
         /\ root \in Pages
         /\ walk.level \in 1 .. 3
         /\ walk.va \in Index \X Index \X Index
         /\ walk.va[walk.level] \in Index
         /\ walk.pgdir \in Pages
         /\ Entry \in Entries
         /\ walk.level = 1 => walk.pgdir = root
         /\ walk.level = 2 => walk.pgdir \in Middle
         /\ walk.level = 3 => walk.pgdir \in Last
  <1>1. walk \in Walks
    BY DEF IInv, TypeOK, Idle, Crashed, Start, Destroyed
  <1>2. root \in Pages
    BY DEF IInv, TypeOK, WalkOk, Start
  <1>3. walk.level \in 1 .. 3 /\ walk.va \in Index \X Index \X Index /\ walk.pgdir \in Pages
    BY <1>1, EnclavePageAssumption DEF Walks
  <1>4. walk.va[1] \in Index /\ walk.va[2] \in Index /\ walk.va[3] \in Index
    BY <1>3
  <1>5. walk.level = 1 \/ walk.level = 2 \/ walk.level = 3
    BY <1>3
  <1>6. walk.va[walk.level] \in Index
    BY <1>4, <1>5
  <1>7. Entry \in Entries
    BY <1>3, <1>6 DEF Entry, IInv, TypeOK
  <1>8. AtLevel(walk.va, walk.level, walk.pgdir)
    BY DEF IInv, WalkOk
  <1>9. root # NULL
    BY <1>2, PagesApart
  <1>10. /\ walk.level = 1 => walk.pgdir = root
         /\ walk.level = 2 => walk.pgdir \in Middle
    BY <1>3, <1>4, <1>8, <1>9 DEF AtLevel, Middle
  <1>11. walk.level = 3 => walk.pgdir \in Last
    BY <1>3, <1>4, <1>8, <1>9 DEF AtLevel, Middle, Last
  <1> QED BY <1>1, <1>2, <1>3, <1>6, <1>7, <1>10, <1>11

\* The next level of a walk.
LEMMA DescendFacts ==
  ASSUME walk \in Walks, walk.level \in 1 .. 2, NEW q \in Pages, Descend(q)
  PROVE  /\ walk' \in Walks /\ walk'.page = walk.page /\ walk'.va = walk.va
         /\ walk'.flags = walk.flags /\ walk'.op = "walk"
         /\ walk'.level = walk.level + 1 /\ walk'.pgdir = q
  <1>1. walk' = [walk EXCEPT !.level = walk.level + 1, !.pgdir = q]
    BY DEF Descend
  <1>2. PICK va \in Vas, page \in Targets, fl \in Flags, level \in 1 .. 3, p \in Pages :
          walk = [op |-> "walk", va |-> va, page |-> page, flags |-> fl,
                  level |-> level, pgdir |-> p]
    BY DEF Walks
  <1>3. walk' = [op |-> "walk", va |-> va, page |-> page, flags |-> fl,
                 level |-> level + 1, pgdir |-> q]
    BY <1>1, <1>2
  <1>4. level + 1 \in 1 .. 3
    BY <1>2
  <1> QED BY <1>2, <1>3, <1>4 DEF Walks

-----------------------------------------------------------------------------
\* Steps that leave the tables and the list alone.
LEMMA QuietIInv ==
  ASSUME IInv, UNCHANGED <<free_mem, root, pt>>,
         walk' \in Walks \cup {Idle, Crashed, Destroyed}, walk # Start,
         walk'.op = "walk" =>
           /\ AtLevel(walk'.va, walk'.level, walk'.pgdir)
           /\ walk'.page \in Pages => Unused(walk'.page)
  PROVE  IInv'
  <1>1. TypeOK' /\ FreeDistinct' /\ OneUse'
    BY DEF IInv, TypeOK, FreeDistinct, OneUse, FreeSet
  <1>2. Middle' = Middle /\ Last' = Last
    BY DEF Middle, Last
  <1>3. Levels'
    BY <1>2 DEF IInv, Levels
  <1>4. walk' # Start
    BY DEF Walks, Idle, Crashed, Destroyed, Start
  <1>5. WalkOk'
    BY <1>4 DEF IInv, WalkOk, AtLevel, Unused, FreeSet
  <1> QED BY <1>1, <1>3, <1>5 DEF IInv

\* enclave_mem_int: the first page becomes the root, the rest is free.
LEMMA MemIntIInv ==
  ASSUME IInv, EnclaveMemInt
  PROVE  IInv'
  <1> USE EnclavePageAssumption DEF EnclaveMemInt, MemInt
  <1>1. root = NULL /\ root' = 1 /\ root' \in Pages /\ root' # NULL
    BY PagesApart DEF IInv, WalkOk, NULL
  <1>2. /\ free_mem' \in Seq(Pages)
        /\ DOMAIN free_mem' = 1 .. NumPages - 2
        /\ \A n \in 1 .. NumPages - 2 : free_mem'[n] = n + 2
    BY DEF Pages
  <1>3. \A p \in Pages : \A i \in Index : pt[p][i] = NoEntry
    BY <1>1 DEF IInv, Levels, Middle, Last, NULL, Pages
  <1>4. TypeOK'
    BY <1>1, <1>2 DEF IInv, TypeOK
  <1>5. FreeDistinct'
    BY <1>1, <1>2 DEF FreeDistinct, FreeSet
  <1>6. OneUse'
    BY <1>3 DEF OneUse, NoEntry
  <1>7. Levels'
    BY <1>3 DEF Levels, NoEntry
  <1>8. WalkOk'
    BY <1>1 DEF WalkOk, Idle, Start
  <1> QED BY <1>4, <1>5, <1>6, <1>7, <1>8 DEF IInv

\* enclave_alloc_page takes its page from the list before it walks.
LEMMA AllocIInv ==
  ASSUME IInv, NEW va \in Vas, NEW fl \in Flags, AllocPage(va, fl)
  PROVE  IInv'
  <1>1. root \in Pages /\ walk = Idle /\ walk # Start
    BY DEF AllocPage, IInv, TypeOK, WalkOk, Idle, Start
  <1>2. CASE free_mem = <<>>
    <2>1. FreePage = NULL /\ RestOfFree = free_mem
      BY <1>2 DEF FreePage, RestOfFree
    <2>2. walk' = Walking(va, NULL, fl) /\ UNCHANGED <<free_mem, root, pt>>
      BY <2>1 DEF AllocPage
    <2>3. walk' \in Walks /\ walk'.page = NULL /\ AtLevel(walk'.va, walk'.level, walk'.pgdir)
      BY <1>1, <2>2 DEF Walking, Walks, Targets, AtLevel
    <2> QED BY <1>1, <2>2, <2>3, QuietIInv, PagesApart
  <1>3. CASE free_mem # <<>>
    <2>1. /\ FreePage \in Pages /\ FreePage \in FreeSet
          /\ RestOfFree \in Seq(Pages)
          /\ \A m, n \in DOMAIN RestOfFree : RestOfFree[m] = RestOfFree[n] => m = n
          /\ {RestOfFree[n] : n \in DOMAIN RestOfFree} = FreeSet \ {FreePage}
      BY <1>3, TakeFree DEF IInv
    <2>2. FreeSet' = FreeSet \ {FreePage} /\ root' = root /\ pt' = pt
      BY <2>1 DEF AllocPage, FreeSet
    <2>3. walk' \in Walks /\ walk'.page = FreePage /\ AtLevel(walk.va, walk.level, walk.pgdir)'
      BY <1>1, <2>1 DEF AllocPage, Walking, Walks, Targets, AtLevel
    <2> PICK f \in Pages : f = FreePage
      BY <2>1
    <2>4. TypeOK'
      BY <2>1, <2>2, <2>3 DEF IInv, TypeOK, AllocPage
    <2>5. FreeDistinct'
      BY <2>1, <2>2 DEF IInv, FreeDistinct, AllocPage
    <2>6. OneUse'
      BY <2>2 DEF IInv, OneUse
    <2>7. Middle' = Middle /\ Last' = Last
      BY <2>2 DEF Middle, Last
    <2>8. Levels'
      BY <2>2, <2>7 DEF IInv, Levels
    <2>9. Unused(f)'
      BY <2>1, <2>2, <1>1 DEF IInv, OneUse, FreeDistinct, Unused
    <2>10. WalkOk'
      <3>1. walk' # Start /\ root' # NULL
        BY <1>1, <2>2, <2>3, PagesApart DEF Walks, Start
      <3>2. Unused(walk.page)'
        BY <2>3, <2>9
      <3> QED BY <2>3, <3>1, <3>2 DEF WalkOk
    <2> QED BY <2>4, <2>5, <2>6, <2>8, <2>10 DEF IInv
  <1> QED BY <1>2, <1>3

\* map_va2pa starts a walk for a page outside the pool.
LEMMA MapIInv ==
  ASSUME IInv, NEW va \in Vas, NEW fl \in Flags, NEW pa \in Outside, MapVa2pa(va, pa, fl)
  PROVE  IInv'
  <1>1. root \in Pages /\ walk # Start
    BY DEF MapVa2pa, IInv, TypeOK, WalkOk, Idle, Start
  <1>2. /\ walk' \in Walks /\ walk'.page \notin Pages
        /\ AtLevel(walk'.va, walk'.level, walk'.pgdir)
    BY <1>1, PagesApart DEF MapVa2pa, Walking, Walks, Targets, AtLevel
  <1> QED BY <1>1, <1>2, QuietIInv DEF MapVa2pa

\* A step of the walk down an existing table.
LEMMA FoundIInv ==
  ASSUME IInv, WalkFound
  PROVE  IInv'
  <1>1. walk \in Walks /\ walk.level \in 1 .. 2 /\ walk.op = "walk"
    BY WalkFacts DEF WalkFound
  <1>2. PICK q \in Pages : Entry = Table(q) /\ Entry.to = q
    <2>1. Entry.kind # "leaf" /\ Entry \in Entries
      BY <1>1, WalkFacts DEF IInv, Levels, Entry
    <2> QED BY <2>1, EntryShape DEF WalkFound
  <1>3. /\ walk' \in Walks /\ walk'.page = walk.page /\ walk'.va = walk.va
        /\ walk'.level = walk.level + 1 /\ walk'.pgdir = q
    BY <1>1, <1>2, DescendFacts DEF WalkFound
  <1>4. AtLevel(walk'.va, walk'.level, walk'.pgdir)
    <2>1. CASE walk.level = 1
      BY <1>1, <1>2, <1>3, <2>1, WalkFacts DEF AtLevel, Entry
    <2>2. CASE walk.level = 2
      <3>1. pt[root][walk.va[1]] = Table(walk.pgdir)
        BY <2>2, <1>1 DEF IInv, WalkOk, AtLevel
      <3>2. pt[walk.pgdir][walk.va[2]] = Table(q)
        BY <2>2, <1>2 DEF Entry
      <3> QED BY <1>1, <1>3, <2>2, <3>1, <3>2, WalkFacts DEF AtLevel
    <2> QED BY <1>1, <2>1, <2>2
  <1>5. walk'.page \in Pages => Unused(walk'.page)
    BY <1>1, <1>3 DEF IInv, WalkOk
  <1>6. walk # Start
    BY <1>1 DEF Start
  <1> QED BY <1>3, <1>4, <1>5, <1>6, QuietIInv DEF WalkFound

\* What a new table entry does to the tables.
LEMMA CreateFacts ==
  ASSUME IInv, WalkCreate
  PROVE  \E f \in Pages : \E k \in Index :
           /\ f = FreePage /\ k = walk.va[walk.level]
           /\ f \in FreeSet
           /\ f # root /\ f \notin Middle /\ f \notin Last /\ f # walk.pgdir
           /\ \A i \in Index : pt[f][i] = NoEntry
           /\ FreeSet' = FreeSet \ {f}
           /\ pt' \in [Pages -> [Index -> Entries]]
           /\ pt[walk.pgdir][k] = NoEntry
           /\ \A p \in Pages : \A i \in Index :
                pt'[p][i] = IF p = walk.pgdir /\ i = k THEN Table(f) ELSE pt[p][i]
  <1>1. /\ walk.op = "walk" /\ free_mem # <<>> /\ walk.level \in 1 .. 2
        /\ walk.pgdir \in Pages /\ walk.va[walk.level] \in Index
    BY WalkFacts DEF WalkCreate
  <1>2. FreePage \in Pages /\ FreePage \in FreeSet
        /\ {RestOfFree[n] : n \in DOMAIN RestOfFree} = FreeSet \ {FreePage}
    BY <1>1, TakeFree DEF IInv
  <1>3. PICK f \in Pages, k \in Index : f = FreePage /\ k = walk.va[walk.level]
    BY <1>1, <1>2
  <1>4. FreeSet' = FreeSet \ {f}
    BY <1>2, <1>3 DEF WalkCreate, FreeSet
  <1>5. f # root
    BY <1>2, <1>3 DEF IInv, FreeDistinct
  <1>6. \A p, q \in Pages : \A i \in Index : pt[p][i] = Table(q) => q # f
    <2>1. SUFFICES ASSUME NEW p \in Pages, NEW i \in Index, pt[p][i] = Table(f) PROVE FALSE
      OBVIOUS
    <2>2. pt[p][i].kind # "none" /\ pt[p][i].to = f
      BY <2>1, TableEntry
    <2> QED BY <1>2, <1>3, <2>2 DEF IInv, OneUse
  <1>7. f \notin Middle /\ f \notin Last
    BY <1>6 DEF Middle, Last, IInv, TypeOK
  <1>8. \A i \in Index : pt[f][i] = NoEntry
    BY <1>5, <1>7 DEF IInv, Levels
  <1>9. f # walk.pgdir
    BY <1>1, <1>5, <1>7, WalkFacts
  <1>10. pt[walk.pgdir][k] = NoEntry
    <2>1. Entry \in Entries /\ Entry.kind = "none"
      BY <1>1, WalkFacts DEF WalkCreate
    <2> QED BY <1>3, <2>1, EntryShape DEF Entry
  <1>11. /\ pt \in [Pages -> [Index -> Entries]]
         /\ pt' = [pt EXCEPT ![walk.pgdir][k] = Table(f)]
    BY <1>3 DEF IInv, TypeOK, WalkCreate, SetEntry
  <1>12. /\ pt' \in [Pages -> [Index -> Entries]]
         /\ \A p \in Pages : \A i \in Index :
              pt'[p][i] = IF p = walk.pgdir /\ i = k THEN Table(f) ELSE pt[p][i]
    BY <1>1, <1>11, TableEntry
  <1>13. f \in FreeSet
    BY <1>2, <1>3
  <1> QED BY <1>3, <1>4, <1>5, <1>7, <1>8, <1>9, <1>10, <1>12, <1>13

\* The page a call has taken for its data stays unused when a table is made.
LEMMA CreateWalkOk ==
  ASSUME IInv, walk.op = "walk", root' # NULL, root' = root,
         NEW f \in Pages, NEW k \in Index, f \in FreeSet,
         FreeSet' = FreeSet \ {f},
         \A p \in Pages : \A i \in Index :
           pt'[p][i] = IF p = walk.pgdir /\ i = k THEN Table(f) ELSE pt[p][i],
         walk' \in Walks, walk'.page = walk.page,
         AtLevel(walk.va, walk.level, walk.pgdir)',
         TypeOK', FreeDistinct', OneUse', Levels'
  PROVE  IInv'
  <1>1. walk' # Start /\ walk'.op = "walk"
    BY DEF Walks, Start
  <1>2. walk.page \in Pages => Unused(walk.page)
    BY DEF IInv, WalkOk
  <1>3. walk.page \in Pages => walk.page # f /\ Unused(walk.page)'
    BY <1>2, TableEntry DEF Unused
  <1>4. WalkOk'
    BY <1>1, <1>3 DEF WalkOk
  <1> QED BY <1>4 DEF IInv

\* A step of the walk that creates the table it goes down.
LEMMA CreateIInv ==
  ASSUME IInv, WalkCreate
  PROVE  IInv'
  <1>1. PICK f \in Pages, k \in Index :
          /\ f = FreePage /\ k = walk.va[walk.level]
          /\ f \in FreeSet
          /\ f # root /\ f \notin Middle /\ f \notin Last /\ f # walk.pgdir
          /\ \A i \in Index : pt[f][i] = NoEntry
          /\ FreeSet' = FreeSet \ {f}
          /\ pt' \in [Pages -> [Index -> Entries]]
          /\ pt[walk.pgdir][k] = NoEntry
          /\ \A p \in Pages : \A i \in Index :
               pt'[p][i] = IF p = walk.pgdir /\ i = k THEN Table(f) ELSE pt[p][i]
    BY CreateFacts
  <1>2. /\ walk \in Walks /\ walk.op = "walk" /\ walk.level \in 1 .. 2 /\ root \in Pages
        /\ walk.pgdir \in Pages /\ root' = root /\ free_mem # <<>> /\ Descend(f)
        /\ walk.va \in Index \X Index \X Index
    BY <1>1, WalkFacts DEF WalkCreate
  <1>3. /\ walk' \in Walks /\ walk'.page = walk.page /\ walk'.va = walk.va
        /\ walk'.level = walk.level + 1 /\ walk'.pgdir = f
    BY <1>2, DescendFacts
  <1>4. TypeOK'
    BY <1>1, <1>2, <1>3, TakeFree DEF IInv, TypeOK, WalkCreate
  <1>5. FreeDistinct'
    BY <1>1, <1>2, TakeFree DEF IInv, FreeDistinct, WalkCreate
  <1>6. NoEntry.kind = "none" /\ Table(f).kind = "table" /\ Table(f).to = f
    BY TableEntry DEF NoEntry
  <1>7. \A p \in Pages : \A i \in Index : pt[p][i].kind # "none" => pt[p][i].to # f
    BY <1>1 DEF IInv, OneUse
  <1>8. OneUse'
    <2>1. SUFFICES ASSUME NEW p \in Pages, NEW i \in Index,
                          pt'[p][i].kind # "none", pt'[p][i].to \in Pages
                   PROVE  /\ pt'[p][i].to # root
                          /\ pt'[p][i].to \notin FreeSet \ {f}
                          /\ \A q \in Pages : \A j \in Index :
                               pt'[q][j].kind # "none" /\ pt'[q][j].to = pt'[p][i].to
                                 => p = q /\ i = j
      BY <1>1, <1>2 DEF OneUse
    <2>2. CASE p = walk.pgdir /\ i = k
      <3>1. pt'[p][i] = Table(f)
        BY <1>1, <2>2
      <3> QED BY <1>1, <1>6, <1>7, <2>2, <3>1
    <2>3. CASE ~ (p = walk.pgdir /\ i = k)
      <3>1. pt'[p][i] = pt[p][i]
        BY <1>1, <2>3
      <3> QED BY <1>1, <1>6, <1>7, <2>1, <2>3, <3>1 DEF IInv, OneUse
    <2> QED BY <2>2, <2>3
  <1>9. root # NULL /\ root' # NULL
    BY <1>2, PagesApart
  <1>10. \A p, q \in Pages : \A i \in Index :
           pt'[p][i] = Table(q) <=> \/ p = walk.pgdir /\ i = k /\ q = f
                                  \/ pt[p][i] = Table(q)
    BY <1>1, <1>6, TableEntry
  <1>11. CASE walk.level = 1
    <2>1. walk.pgdir = root /\ k = walk.va[1]
      BY <1>1, <1>2, <1>11, WalkFacts
    <2>2. Middle' = Middle \cup {f}
      BY <1>2, <1>9, <1>10, <2>1 DEF Middle
    <2>3. \A i \in Index : \A q \in Pages : pt[f][i] # Table(q)
      BY <1>1, <1>6, TableEntry
    <2>4. Last' = Last
      <3>1. root \notin Middle
        BY LevelsApart
      <3>2. \A q \in Middle' : \A i \in Index : \A p \in Pages :
              pt'[q][i] = Table(p) <=> q \in Middle /\ pt[q][i] = Table(p)
        BY <1>1, <1>10, <2>1, <2>2, <2>3, <3>1 DEF Middle
      <3> QED BY <2>2, <3>2 DEF Last
    <2>5. Levels'
      <3>1. SUFFICES ASSUME NEW p \in Pages, NEW i \in Index
                     PROVE  /\ p = root \/ p \in Middle \cup {f} => pt'[p][i].kind # "leaf"
                            /\ p \in Last => pt'[p][i].kind # "table"
                            /\ p # root /\ p \notin Middle \cup {f} /\ p \notin Last
                                 => pt'[p][i] = NoEntry
        BY <1>2, <2>2, <2>4 DEF Levels
      <3>2. root \notin Last
        BY LevelsApart
      <3> QED BY <1>1, <1>6, <2>1, <3>2 DEF IInv, Levels
    <2>6. AtLevel(walk.va, walk.level, walk.pgdir)'
      BY <1>1, <1>2, <1>3, <1>11, <2>1 DEF AtLevel
    <2> QED BY <2>5, <2>6, <1>1, <1>2, <1>3, <1>4, <1>5, <1>8, <1>9, CreateWalkOk
  <1>12. CASE walk.level = 2
    <2>1. walk.pgdir \in Middle /\ k = walk.va[2] /\ walk.pgdir # root
      BY <1>1, <1>2, <1>12, WalkFacts, LevelsApart
    <2>2. Middle' = Middle
      BY <1>1, <1>2, <1>9, <2>1 DEF Middle
    <2>3. Last' = Last \cup {f}
      BY <1>10, <2>1, <2>2 DEF Last, Middle
    <2>4. Levels'
      <3>1. SUFFICES ASSUME NEW p \in Pages, NEW i \in Index
                     PROVE  /\ p = root \/ p \in Middle => pt'[p][i].kind # "leaf"
                            /\ p \in Last \cup {f} => pt'[p][i].kind # "table"
                            /\ p # root /\ p \notin Middle /\ p \notin Last \cup {f}
                                 => pt'[p][i] = NoEntry
        BY <1>2, <2>2, <2>3 DEF Levels
      <3>2. walk.pgdir \notin Last
        BY <2>1, LevelsApart
      <3> QED BY <1>1, <1>6, <2>1, <3>2 DEF IInv, Levels
    <2>5. AtLevel(walk.va, walk.level, walk.pgdir)'
      <3>1. pt[root][walk.va[1]] = Table(walk.pgdir)
        BY <1>2, <1>12 DEF IInv, WalkOk, AtLevel
      <3>2. pt'[root][walk.va[1]] = Table(walk.pgdir) /\ pt'[walk.pgdir][walk.va[2]] = Table(f)
        BY <1>1, <1>2, <2>1, <3>1
      <3> QED BY <1>2, <1>3, <1>12, <3>2 DEF AtLevel
    <2> QED BY <2>4, <2>5, <1>1, <1>2, <1>3, <1>4, <1>5, <1>8, <1>9, CreateWalkOk
  <1> QED BY <1>2, <1>11, <1>12

\* What the leaf entry written at the end of a walk does to the tables.
LEMMA SetPteFacts ==
  ASSUME IInv, SetPte
  PROVE  \E k \in Index : \E e \in Entries :
           /\ k = walk.va[3] /\ e = Leaf(walk.page, walk.flags)
           /\ e.kind = "leaf" /\ e.to = walk.page
           /\ walk.pgdir \in Last /\ walk.pgdir # root /\ walk.pgdir \notin Middle
           /\ pt' \in [Pages -> [Index -> Entries]]
           /\ \A p \in Pages : \A i \in Index :
                pt'[p][i] = IF p = walk.pgdir /\ i = k THEN e ELSE pt[p][i]
  <1>1. /\ walk.op = "walk" /\ walk.level = 3 /\ walk \in Walks
        /\ walk.pgdir \in Pages /\ walk.pgdir \in Last /\ walk.va[3] \in Index
    BY WalkFacts DEF SetPte
  <1>2. walk.page \in Targets /\ walk.flags \in Flags
    BY <1>1 DEF Walks
  <1>3. PICK k \in Index, e \in Entries :
          /\ k = walk.va[3] /\ e = Leaf(walk.page, walk.flags)
          /\ e.kind = "leaf" /\ e.to = walk.page
    BY <1>1, <1>2, LeafEntry
  <1>4. /\ pt \in [Pages -> [Index -> Entries]]
        /\ pt' = [pt EXCEPT ![walk.pgdir][k] = e]
    BY <1>1, <1>3 DEF IInv, TypeOK, SetPte, SetEntry
  <1>5. /\ pt' \in [Pages -> [Index -> Entries]]
        /\ \A p \in Pages : \A i \in Index :
             pt'[p][i] = IF p = walk.pgdir /\ i = k THEN e ELSE pt[p][i]
    BY <1>1, <1>4
  <1>6. walk.pgdir # root /\ walk.pgdir \notin Middle
    BY <1>1, LevelsApart
  <1> QED BY <1>1, <1>3, <1>5, <1>6

\* The end of the walk writes the one entry.
LEMMA SetPteIInv ==
  ASSUME IInv, SetPte
  PROVE  IInv'
  <1>1. PICK k \in Index, e \in Entries :
          /\ k = walk.va[3] /\ e = Leaf(walk.page, walk.flags)
          /\ e.kind = "leaf" /\ e.to = walk.page
          /\ walk.pgdir \in Last /\ walk.pgdir # root /\ walk.pgdir \notin Middle
          /\ pt' \in [Pages -> [Index -> Entries]]
          /\ \A p \in Pages : \A i \in Index :
               pt'[p][i] = IF p = walk.pgdir /\ i = k THEN e ELSE pt[p][i]
    BY SetPteFacts
  <1>2. /\ free_mem' = free_mem /\ root' = root /\ walk' = Idle /\ walk.op = "walk"
        /\ root \in Pages /\ FreeSet' = FreeSet
    BY WalkFacts DEF SetPte, FreeSet
  <1>3. TypeOK'
    BY <1>1, <1>2 DEF IInv, TypeOK
  <1>4. FreeDistinct'
    BY <1>2 DEF IInv, FreeDistinct
  <1>5. walk.page \in Pages => Unused(walk.page)
    BY <1>2 DEF IInv, WalkOk
  <1>6. OneUse'
    <2>1. SUFFICES ASSUME NEW p \in Pages, NEW i \in Index,
                          pt'[p][i].kind # "none", pt'[p][i].to \in Pages
                   PROVE  /\ pt'[p][i].to # root
                          /\ pt'[p][i].to \notin FreeSet
                          /\ \A q \in Pages : \A j \in Index :
                               pt'[q][j].kind # "none" /\ pt'[q][j].to = pt'[p][i].to
                                 => p = q /\ i = j
      BY <1>2 DEF OneUse
    <2>2. CASE p = walk.pgdir /\ i = k
      BY <1>1, <1>5, <2>1, <2>2 DEF Unused
    <2>3. CASE ~ (p = walk.pgdir /\ i = k)
      <3>1. pt'[p][i] = pt[p][i]
        BY <1>1, <2>3
      <3> QED BY <1>1, <1>5, <2>1, <2>3, <3>1 DEF IInv, OneUse, Unused
    <2> QED BY <2>2, <2>3
  <1>7. Middle' = Middle
    BY <1>1, <1>2 DEF Middle
  <1>8. Last' = Last
    BY <1>1, <1>7 DEF Last, Middle
  <1>9. Levels'
    <2>1. SUFFICES ASSUME NEW p \in Pages, NEW i \in Index
                   PROVE  /\ p = root \/ p \in Middle => pt'[p][i].kind # "leaf"
                          /\ p \in Last => pt'[p][i].kind # "table"
                          /\ p # root /\ p \notin Middle /\ p \notin Last
                               => pt'[p][i] = NoEntry
      BY <1>2, <1>7, <1>8 DEF Levels
    <2> QED BY <1>1 DEF IInv, Levels
  <1>10. WalkOk'
    BY <1>2, PagesApart DEF WalkOk, Idle, Start
  <1> QED BY <1>3, <1>4, <1>6, <1>9, <1>10 DEF IInv

\* enclave_mem_destroy empties the list and leaves the tables.
LEMMA DestroyIInv ==
  ASSUME IInv, EnclaveMemDestroy
  PROVE  IInv'
  <1>1. /\ free_mem' = <<>> /\ FreeSet' = {} /\ root' = root /\ pt' = pt
        /\ walk' = Destroyed /\ root \in Pages
    BY DEF EnclaveMemDestroy, FreeSet, IInv, TypeOK, WalkOk, Idle, Start
  <1>2. TypeOK' /\ FreeDistinct' /\ OneUse'
    BY <1>1 DEF IInv, TypeOK, FreeDistinct, OneUse
  <1>3. Middle' = Middle /\ Last' = Last
    BY <1>1 DEF Middle, Last
  <1>4. Levels'
    BY <1>1, <1>3 DEF IInv, Levels
  <1>5. WalkOk'
    BY <1>1, PagesApart DEF WalkOk, Destroyed, Start
  <1> QED BY <1>2, <1>4, <1>5 DEF IInv

\* No step leaves the invariant.
LEMMA NextIInv == IInv /\ [Next]_vars => IInv'
  <1> SUFFICES ASSUME IInv, [Next]_vars PROVE IInv'
    OBVIOUS
  <1>1. CASE EnclaveMemInt
    BY <1>1, MemIntIInv
  <1>2. CASE \E va \in Vas, fl \in Flags :
               AllocPage(va, fl) \/ \E pa \in Outside : MapVa2pa(va, pa, fl)
    BY <1>2, AllocIInv, MapIInv
  <1>3. CASE WalkFound
    BY <1>3, FoundIInv
  <1>4. CASE WalkCreate
    BY <1>4, CreateIInv
  <1>5. CASE WalkFails
    BY <1>5, QuietIInv DEF WalkFails, Crashed, Start
  <1>6. CASE SetPte
    BY <1>6, SetPteIInv
  <1>7. CASE EnclaveMemDestroy
    BY <1>7, DestroyIInv
  <1>8. CASE UNCHANGED vars
    BY <1>8 DEF vars, IInv, TypeOK, FreeDistinct, OneUse, Levels, WalkOk, Middle, Last,
                FreeSet, Unused, AtLevel
  <1> QED BY <1>1, <1>2, <1>3, <1>4, <1>5, <1>6, <1>7, <1>8 DEF Next

\* Every reachable state satisfies the inductive invariant.
THEOREM Invariance == Spec => []IInv
  BY InitIInv, NextIInv, PTL DEF Spec

\* Type correctness of the free list, the tables and the walk.
THEOREM TypeCorrect == Spec => []TypeOK
  <1>1. IInv => TypeOK
    BY DEF IInv
  <1> QED BY <1>1, Invariance, PTL

\* However enclave_alloc_page and map_va2pa are called, no page of the pool
\* is used twice, also when the pool runs out in the middle of a walk.
THEOREM SingleUse == Spec => []OneUse
  <1>1. IInv => OneUse
    BY DEF IInv
  <1> QED BY <1>1, Invariance, PTL

\* No page table is mapped into the enclave.
THEOREM TablesProtected == Spec => []TablesNotMapped
  <1>1. IInv => TablesNotMapped
    <2> SUFFICES ASSUME IInv, NEW p \in Pages, NEW q \in Pages, NEW i \in Index, NEW j \in Index,
                        pt[p][i].kind = "leaf", pt[p][i].to = q
                 PROVE  pt[q][j].kind = "none"
      BY DEF TablesNotMapped
    <2>1. q # root
      BY DEF IInv, OneUse
    <2>2. \A r \in Pages : \A n \in Index : pt[r][n] # Table(q)
      BY TableEntry DEF IInv, OneUse
    <2>3. q \notin Middle /\ q \notin Last
      BY <2>2 DEF Middle, Last, IInv, TypeOK
    <2> QED BY <2>1, <2>3 DEF IInv, Levels, NoEntry
  <1> QED BY <1>1, Invariance, PTL

-----------------------------------------------------------------------------
(***************************************************************************)
(* The page tables implement AddressSpace.  The step that matters is       *)
(* SetPte: the entry it writes is reached from no virtual page but the one *)
(* of the call, because every table is named by one entry only.            *)
(***************************************************************************)
VA == Index \X Index \X Index
AMap == [va \in VA |-> Translate(va)]
ARequest == IF walk.op = "walk" THEN <<walk.va, walk.flags>> ELSE <<>>

\* The three ways the walk of the hardware can end.
LEMMA TranslateCases ==
  ASSUME IInv, root \in Pages, NEW va \in VA
  PROVE  \/ /\ pt[root][va[1]] = NoEntry
            /\ Translate(va) = NoEntry
         \/ \E q \in Middle : /\ pt[root][va[1]] = Table(q)
                              /\ pt[q][va[2]] = NoEntry
                              /\ Translate(va) = NoEntry
         \/ \E q \in Middle : \E r \in Last :
              /\ pt[root][va[1]] = Table(q)
              /\ pt[q][va[2]] = Table(r)
              /\ Translate(va) = pt[r][va[3]]
  <1>1. va[1] \in Index /\ va[2] \in Index /\ va[3] \in Index /\ root # NULL
    BY PagesApart DEF VA
  <1>2. pt[root][va[1]] \in Entries /\ pt[root][va[1]].kind # "leaf"
    BY <1>1 DEF IInv, TypeOK, Levels
  <1>3. CASE pt[root][va[1]] = NoEntry
    BY <1>3 DEF Translate, NoEntry
  <1>4. CASE pt[root][va[1]] # NoEntry
    <2>1. PICK q \in Pages : /\ pt[root][va[1]] = Table(q)
                             /\ pt[root][va[1]].kind = "table" /\ pt[root][va[1]].to = q
      BY <1>2, <1>4, EntryShape
    <2>2. q \in Middle
      BY <1>1, <2>1 DEF Middle
    <2>3. pt[q][va[2]] \in Entries /\ pt[q][va[2]].kind # "leaf"
      BY <1>1, <2>2 DEF IInv, TypeOK, Levels
    <2>4. CASE pt[q][va[2]] = NoEntry
      <3>1. Translate(va) = NoEntry
        BY <1>1, <2>1, <2>4 DEF Translate, NoEntry
      <3> QED BY <2>1, <2>2, <2>4, <3>1
    <2>5. CASE pt[q][va[2]] # NoEntry
      <3>1. PICK r \in Pages : /\ pt[q][va[2]] = Table(r)
                               /\ pt[q][va[2]].kind = "table" /\ pt[q][va[2]].to = r
        BY <2>3, <2>5, EntryShape
      <3>2. r \in Last
        BY <1>1, <2>2, <3>1 DEF Last
      <3>3. Translate(va) = pt[r][va[3]]
        BY <1>1, <2>1, <3>1 DEF Translate
      <3> QED BY <2>1, <2>2, <3>1, <3>2, <3>3
    <2> QED BY <2>4, <2>5
  <1> QED BY <1>3, <1>4

\* Steps that leave the tables alone leave every translation alone.
LEMMA SameTables ==
  ASSUME UNCHANGED <<root, pt>>
  PROVE  AMap' = AMap
  BY DEF AMap, Translate

\* A new, empty table changes no translation.
LEMMA CreateTranslates ==
  ASSUME IInv, WalkCreate, NEW va \in VA
  PROVE  Translate(va)' = Translate(va)
  <1>1. PICK f \in Pages, k \in Index :
          /\ f = FreePage /\ k = walk.va[walk.level]
          /\ f \in FreeSet
          /\ f # root /\ f \notin Middle /\ f \notin Last /\ f # walk.pgdir
          /\ \A i \in Index : pt[f][i] = NoEntry
          /\ FreeSet' = FreeSet \ {f}
          /\ pt' \in [Pages -> [Index -> Entries]]
          /\ pt[walk.pgdir][k] = NoEntry
          /\ \A p \in Pages : \A i \in Index :
               pt'[p][i] = IF p = walk.pgdir /\ i = k THEN Table(f) ELSE pt[p][i]
    BY CreateFacts
  <1>2. /\ root \in Pages /\ root' = root /\ root # NULL
        /\ walk.pgdir \in Pages /\ walk.pgdir \notin Last
        /\ va[1] \in Index /\ va[2] \in Index /\ va[3] \in Index
    BY WalkFacts, LevelsApart, PagesApart DEF WalkCreate, VA
  <1>3. \A i \in Index : pt'[f][i] = NoEntry
    BY <1>1
  <1>4. Middle \subseteq Pages /\ Last \subseteq Pages
    BY DEF Middle, Last
  <1>5. /\ NoEntry.kind # "table"
        /\ \A p \in Pages : Table(p).kind = "table" /\ Table(p).to = p /\ Table(p) # NoEntry
    BY TableEntry DEF NoEntry
  <1>6. CASE pt[root][va[1]] = NoEntry /\ Translate(va) = NoEntry
    <2>1. CASE pt'[root][va[1]] = NoEntry
      BY <1>2, <1>5, <1>6, <2>1 DEF Translate
    <2>2. CASE pt'[root][va[1]] = Table(f)
      BY <1>2, <1>3, <1>5, <1>6, <2>2 DEF Translate
    <2> QED BY <1>1, <1>2, <1>6, <2>1, <2>2
  <1>7. ASSUME NEW q \in Middle, pt[root][va[1]] = Table(q), pt[q][va[2]] = NoEntry,
               Translate(va) = NoEntry
        PROVE  Translate(va)' = Translate(va)
    <2>1. pt'[root][va[1]] = Table(q)
      BY <1>1, <1>2, <1>4, <1>5, <1>7
    <2>2. CASE pt'[q][va[2]] = NoEntry
      BY <1>2, <1>4, <1>5, <1>7, <2>1, <2>2 DEF Translate
    <2>3. CASE pt'[q][va[2]] = Table(f)
      BY <1>2, <1>3, <1>4, <1>5, <1>7, <2>1, <2>3 DEF Translate
    <2> QED BY <1>1, <1>2, <1>4, <1>7, <2>2, <2>3
  <1>8. ASSUME NEW q \in Middle, NEW r \in Last, pt[root][va[1]] = Table(q),
               pt[q][va[2]] = Table(r), Translate(va) = pt[r][va[3]]
        PROVE  Translate(va)' = Translate(va)
    <2>1. pt'[root][va[1]] = Table(q) /\ pt'[q][va[2]] = Table(r)
      BY <1>1, <1>2, <1>4, <1>5, <1>8
    <2>2. pt'[r][va[3]] = pt[r][va[3]]
      BY <1>1, <1>2, <1>4
    <2>3. Translate(va)' = pt'[r][va[3]]
      BY <1>2, <1>4, <1>5, <2>1 DEF Translate
    <2> QED BY <1>8, <2>2, <2>3
  <1> QED BY <1>2, <1>6, <1>7, <1>8, TranslateCases

\* The end of a call sets the translation of its own virtual page only.
LEMMA SetPteTranslates ==
  ASSUME IInv, SetPte, NEW va \in VA
  PROVE  Translate(va)' = IF va = walk.va THEN Leaf(walk.page, walk.flags) ELSE Translate(va)
  <1>1. PICK k \in Index, e \in Entries :
          /\ k = walk.va[3] /\ e = Leaf(walk.page, walk.flags)
          /\ e.kind = "leaf" /\ e.to = walk.page
          /\ walk.pgdir \in Last /\ walk.pgdir # root /\ walk.pgdir \notin Middle
          /\ pt' \in [Pages -> [Index -> Entries]]
          /\ \A p \in Pages : \A i \in Index :
               pt'[p][i] = IF p = walk.pgdir /\ i = k THEN e ELSE pt[p][i]
    BY SetPteFacts
  <1>2. /\ root \in Pages /\ root' = root /\ root # NULL
        /\ walk.pgdir \in Pages /\ walk.va \in VA
        /\ va[1] \in Index /\ va[2] \in Index /\ va[3] \in Index
        /\ walk.va[1] \in Index /\ walk.va[2] \in Index
    BY WalkFacts, PagesApart DEF SetPte, VA
  <1>3. PICK s \in Pages : pt[root][walk.va[1]] = Table(s) /\ pt[s][walk.va[2]] = Table(walk.pgdir)
    BY DEF SetPte, IInv, WalkOk, AtLevel
  <1>4. Middle \subseteq Pages /\ Last \subseteq Pages
    BY DEF Middle, Last
  <1>5. /\ NoEntry.kind # "table"
        /\ \A p \in Pages : Table(p).kind = "table" /\ Table(p).to = p /\ Table(p) # NoEntry
    BY TableEntry DEF NoEntry
  <1>6. \A p \in Pages : \A i \in Index : p # walk.pgdir => pt'[p][i] = pt[p][i]
    BY <1>1
  <1>7. CASE pt[root][va[1]] = NoEntry /\ Translate(va) = NoEntry
    <2>1. va # walk.va
      BY <1>3, <1>5, <1>7
    <2>2. Translate(va)' = NoEntry
      BY <1>1, <1>2, <1>5, <1>6, <1>7 DEF Translate
    <2> QED BY <1>7, <2>1, <2>2
  <1>8. ASSUME NEW q \in Middle, pt[root][va[1]] = Table(q), pt[q][va[2]] = NoEntry,
               Translate(va) = NoEntry
        PROVE  Translate(va)' = NoEntry /\ va # walk.va
    <2>1. pt'[root][va[1]] = Table(q) /\ pt'[q][va[2]] = NoEntry
      BY <1>1, <1>2, <1>4, <1>6, <1>8
    <2>2. Translate(va)' = NoEntry
      BY <1>2, <1>4, <1>5, <2>1 DEF Translate
    <2>3. ASSUME va = walk.va PROVE FALSE
      <3>1. q = s
        BY <1>3, <1>4, <1>5, <1>8, <2>3
      <3> QED BY <1>2, <1>3, <1>5, <1>8, <2>3, <3>1
    <2> QED BY <2>2, <2>3
  <1>9. ASSUME NEW q \in Middle, NEW r \in Last, pt[root][va[1]] = Table(q),
               pt[q][va[2]] = Table(r), Translate(va) = pt[r][va[3]]
        PROVE  Translate(va)' = IF va = walk.va THEN e ELSE Translate(va)
    <2>1. pt'[root][va[1]] = Table(q) /\ pt'[q][va[2]] = Table(r)
      BY <1>1, <1>2, <1>4, <1>6, <1>9
    <2>2. Translate(va)' = pt'[r][va[3]]
      BY <1>2, <1>4, <1>5, <2>1 DEF Translate
    <2>3. CASE r = walk.pgdir /\ va[3] = k
      <3>1. q = s /\ va[2] = walk.va[2]
        BY <1>2, <1>3, <1>4, <1>9, <2>3, LevelsApart
      <3>2. va[1] = walk.va[1]
        BY <1>2, <1>3, <1>4, <1>9, <3>1, LevelsApart
      <3>3. va = walk.va
        BY <1>1, <1>2, <2>3, <3>1, <3>2 DEF VA
      <3> QED BY <1>1, <1>2, <2>2, <2>3, <3>3
    <2>4. CASE ~ (r = walk.pgdir /\ va[3] = k)
      <3>1. ASSUME va = walk.va PROVE FALSE
        <4>1. q = s
          BY <1>3, <1>4, <1>5, <1>9, <3>1
        <4>2. r = walk.pgdir
          BY <1>2, <1>3, <1>4, <1>5, <1>9, <3>1, <4>1
        <4> QED BY <1>1, <2>4, <3>1, <4>2
      <3> QED BY <1>1, <1>2, <1>4, <1>9, <2>2, <2>4, <3>1
    <2> QED BY <2>3, <2>4
  <1> QED BY <1>1, <1>2, <1>7, <1>8, <1>9, TranslateCases

\* Tables without entries are the empty map.
LEMMA InitRefines == Init => A!Init
  <1> SUFFICES ASSUME Init PROVE A!Init
    OBVIOUS
  <1>1. \A va \in VA : Translate(va) = NoEntry
    BY DEF Init, Translate
  <1> QED BY <1>1 DEF Init, A!Init, A!Unmapped, A!NoRequest, NoEntry, NULL, VA, Start

\* Only the last step of a walk changes the map, and as requested.
LEMMA NextRefines == IInv /\ [Next]_vars => [A!Next]_<<AMap, ARequest>>
  <1> SUFFICES ASSUME IInv, [Next]_vars PROVE [A!Next]_<<AMap, ARequest>>
    OBVIOUS
  <1>a. \A va, fl : <<va, fl>> # <<>>
    OBVIOUS
  <1>1. CASE EnclaveMemInt
    <2>1. \A p \in Pages : \A i \in Index : pt[p][i] = NoEntry
      BY <1>1, PagesApart DEF EnclaveMemInt, MemInt, IInv, WalkOk, Levels, Middle, Last
    <2>2. root = NULL /\ root' \in Pages /\ pt' = pt
      BY <1>1, PagesApart DEF EnclaveMemInt, MemInt, IInv, WalkOk
    <2>3. \A va \in VA : Translate(va) = NoEntry
      BY <2>2 DEF Translate
    <2>4. \A va \in VA : va[1] \in Index
      BY DEF VA
    <2>5. ASSUME NEW va \in VA PROVE Translate(va)' = NoEntry
      <3>1. pt'[root'][va[1]] = NoEntry
        BY <2>1, <2>2, <2>4
      <3> QED BY <3>1 DEF Translate, NoEntry
    <2>6. AMap' = AMap
      BY <2>3, <2>5 DEF AMap
    <2>7. ARequest' = ARequest
      BY <1>1 DEF ARequest, EnclaveMemInt, MemInt, Start, Idle
    <2> QED BY <2>6, <2>7
  <1>2. ASSUME NEW va \in Vas, NEW fl \in Flags,
               AllocPage(va, fl) \/ \E pa \in Outside : MapVa2pa(va, pa, fl)
        PROVE  A!Next
    <2>1. AMap' = AMap
      BY <1>2, SameTables DEF AllocPage, MapVa2pa
    <2>2. ARequest = <<>> /\ ARequest' = <<va, fl>>
      BY <1>2 DEF ARequest, AllocPage, MapVa2pa, Idle, Walking
    <2>3. va \in VA
      BY EnclavePageAssumption DEF VA
    <2>4. A!Ask(va, fl)
      BY <2>1, <2>2 DEF A!Ask, A!NoRequest, AMap, ARequest, VA
    <2> QED BY <2>3, <2>4 DEF A!Next, VA
  <1>3. CASE WalkFound
    <2>1. walk.op = "walk" /\ walk'.va = walk.va /\ walk'.flags = walk.flags /\ walk'.op = "walk"
      BY <1>3, WalkFacts DEF WalkFound, Descend, Walks
    <2> QED BY <1>3, <2>1, SameTables DEF ARequest, WalkFound
  <1>4. CASE WalkCreate
    <2>1. walk.op = "walk" /\ walk'.va = walk.va /\ walk'.flags = walk.flags /\ walk'.op = "walk"
      BY <1>4, WalkFacts DEF WalkCreate, Descend, Walks
    <2>2. AMap' = AMap
      BY <1>4, CreateTranslates DEF AMap
    <2> QED BY <2>1, <2>2 DEF ARequest
  <1>5. CASE WalkFails
    <2>1. AMap' = AMap
      BY <1>5, SameTables DEF WalkFails
    <2>2. ARequest # <<>> /\ ARequest' = <<>>
      BY <1>5, <1>a DEF ARequest, WalkFails, Crashed
    <2>3. A!Fail
      BY <2>1, <2>2 DEF A!Fail, A!NoRequest, AMap, ARequest, VA
    <2> QED BY <2>3 DEF A!Next
  <1>6. CASE SetPte
    <2>1. /\ walk.op = "walk" /\ walk \in Walks /\ walk' = Idle /\ root \in Pages
          /\ walk.va \in VA
      BY <1>6, WalkFacts DEF SetPte, VA
    <2>2. AMap' = [AMap EXCEPT ![walk.va] = Leaf(walk.page, walk.flags)]
      BY <1>6, <2>1, SetPteTranslates DEF AMap
    <2>3. ARequest = <<walk.va, walk.flags>> /\ ARequest' = <<>>
      BY <2>1 DEF ARequest, Idle
    <2>4. ASSUME walk.page \in Pages, NEW w \in VA
          PROVE  AMap[w].kind = "none" \/ AMap[w].to # walk.page
      <3>1. Unused(walk.page)
        BY <2>1, <2>4 DEF IInv, WalkOk
      <3>2. AMap[w] = NoEntry \/ \E r \in Pages : \E i \in Index : AMap[w] = pt[r][i]
        BY <2>1, TranslateCases DEF AMap, VA, Last
      <3> QED BY <3>1, <3>2 DEF Unused, NoEntry
    <2>5. A!Map(walk.page)
      BY <1>a, <2>2, <2>3, <2>4 DEF A!Map, A!NoRequest, AMap, ARequest, VA, Leaf
    <2>6. walk.page \in Pages \cup Outside \cup {0}
      BY <2>1 DEF Walks, Targets, NULL
    <2> QED BY <2>5, <2>6 DEF A!Next
  <1>7. CASE EnclaveMemDestroy
    BY <1>7, SameTables DEF EnclaveMemDestroy, ARequest, Idle, Destroyed
  <1>8. CASE UNCHANGED vars
    BY <1>8, SameTables DEF vars, ARequest
  <1> QED BY <1>1, <1>2, <1>3, <1>4, <1>5, <1>6, <1>7, <1>8 DEF Next

\* The tables built by walk_enclave_pt, enclave_alloc_page and map_va2pa are
\* an implementation of one map from virtual pages to pages.
THEOREM Refinement == Spec => ImplementsAddressSpace
  <1>1. IInv /\ [Next]_vars => [A!Next]_<<AMap, ARequest>>
    BY NextRefines
  <1> QED BY InitRefines, Invariance, <1>1, PTL
      DEF Spec, ImplementsAddressSpace, A!Spec, AMap, ARequest, VA
=============================================================================
