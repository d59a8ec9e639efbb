---------------------------- MODULE EnclaveImage ----------------------------
(***************************************************************************)
(* How the sign tool turns an ELF file into an enclave image and measures  *)
(* it: penglai_enclave_create of sign_tool.c, the loader                   *)
(* (penglai-enclave-elfloader.c) and hash_enclave (attest.c), over the     *)
(* page allocator and the page tables of EnclavePage.                      *)
(*                                                                         *)
(* The loader asks for one page after the other: stack, NOBITS sections,   *)
(* program headers, then the untrusted memory and the kernel buffer, which *)
(* lie outside the pool.  The byte at offset f of the file is the number   *)
(* f > 0, a zero byte is 0.  The pool is zero when it is handed over.  The *)
(* measurement is the sequence of what SM3_process is given.               *)
(***************************************************************************)
EXTENDS EnclavePage, FiniteSets, SequencesExt

CONSTANTS
  PtePerPage,      \* entries of a page table
  RISCV_PGSIZE,    \* bytes of a page
  Extra,           \* pages total_enclave_page adds (15)
  MAX_ELF_SIZE, MAX_STACK_SIZE, MAX_UNTRUSTED_MEM_SIZE,
  STACK_POINT, DEFAULT_UNTRUSTED_PTR, ENCLAVE_DEFAULT_KBUFFER,
  Elfs             \* the files: entry, sections, segments, stack and umem sizes

ASSUME EnclaveImageAssumption ==
  /\ Index = 0 .. PtePerPage - 1
  /\ Vas = Index \X Index \X Index
  /\ Flags = {"user", "stack", "outside"}
  /\ RISCV_PGSIZE \in Nat \ {0}

VARIABLES
  elf,     \* the file
  phase,   \* how far penglai_enclave_create has come
  todo,    \* the pages still to be mapped
  mem,     \* what the pages of the pool hold
  hash     \* what was measured

own == <<elf, phase, todo, mem, hash>>

NoHash == <<>>
ZeroPage == [k \in 0 .. RISCV_PGSIZE - 1 |-> 0]

PagesFor(bytes) == (bytes + RISCV_PGSIZE - 1) \div RISCV_PGSIZE

\* get_pt_index of the three levels.
Va(addr) ==
  LET page == addr \div RISCV_PGSIZE
  IN  <<(page \div (PtePerPage * PtePerPage)) % PtePerPage,
        (page \div PtePerPage) % PtePerPage, page % PtePerPage>>

-----------------------------------------------------------------------------
(* The size of the pool. *)

Sum(sizes) == FoldLeft(LAMBDA a, b : a + b, 0, sizes)

\* The sections the loader looks at: SHT_NOBITS with an address.
Nobits(e) == SelectSeq(e.sections, LAMBDA s : s.nobits /\ s.addr # 0)

Sizes(parts) == [n \in DOMAIN parts |-> parts[n].size]

penglai_enclave_elfmemsize(e) == Sum(Sizes(Nobits(e))) + Sum(Sizes(e.segments))

total_enclave_page(elf_size, stack_size) ==
  PagesFor(elf_size) + PagesFor(stack_size) + Extra

\* 1 << (ilog2(n - 1) + 1)
PowerOfTwo(n) == CHOOSE p \in {2 ^ k : k \in 1 .. n} : p >= n /\ (p = 2 \/ p \div 2 < n)

TotalPages(e) ==
  PowerOfTwo(total_enclave_page(penglai_enclave_elfmemsize(e), e.stack_size))

-----------------------------------------------------------------------------
(* The requests of the loader, in order. *)

Inside(addr, flags, bytes) == [addr |-> addr, flags |-> flags, bytes |-> bytes, to |-> NULL]

\* One request for each page of a range, with the bytes to be copied to the
\* start of the page: those of content, as many as the last page has left.
Chunks(addr, size, content) ==
  [n \in 1 .. PagesFor(size) |->
     LET done == (n - 1) * RISCV_PGSIZE
         now == IF done + RISCV_PGSIZE > size THEN size % RISCV_PGSIZE ELSE RISCV_PGSIZE
     IN  Inside(addr + done, "user", [k \in 0 .. now - 1 |-> content[done + k]])]

\* The stack has pages and no bytes.
Stack(e) ==
  [n \in 1 .. PagesFor(e.stack_size) |->
     Inside(STACK_POINT - e.stack_size + (n - 1) * RISCV_PGSIZE, "stack", <<>>)]

load_NOBITS_section(s) == Chunks(s.addr, s.size, [k \in 0 .. s.size - 1 |-> 0])
load_program(s) ==
  Chunks(s.addr, s.size, [k \in 0 .. s.size - 1 |-> s.offset + k])

Each(parts, Load(_)) == FlattenSeq([n \in DOMAIN parts |-> Load(parts[n])])

\* Mutant of penglai_enclave_loadelf: the program headers come first.
load_segments_first(e) == Each(e.segments, load_program) \o Each(Nobits(e), load_NOBITS_section)

penglai_enclave_loadelf(e) == Each(Nobits(e), load_NOBITS_section) \o Each(e.segments, load_program)

\* map_untrusted_mem and map_kbuffer: zeroed pages outside the pool.
MapOutside(addr, size, first) ==
  [n \in 1 .. PagesFor(size) |->
     [addr |-> addr + (n - 1) * RISCV_PGSIZE, flags |-> "outside", bytes |-> <<>>,
      to |-> NumPages + first + n]]

untrusted_mem_size(e) == PowerOfTwo(e.umem)

Requests(e) ==
  Stack(e) \o penglai_enclave_loadelf(e)
    \o MapOutside(DEFAULT_UNTRUSTED_PTR, untrusted_mem_size(e), 0)
    \o MapOutside(ENCLAVE_DEFAULT_KBUFFER, RISCV_PGSIZE, PagesFor(untrusted_mem_size(e)))

-----------------------------------------------------------------------------
(* hash_enclave: a walk of the tables in the order of the addresses.  A    *)
(* page is hashed with its address and attributes in front when the one    *)
(* before it is not mapped; hash_curr_va carries that through the tables.  *)
(* No table of this allocator has a leaf above the last level.             *)

Head_(va, flags) == [is |-> "head", va |-> va, flags |-> flags]
Page_(bytes) == [is |-> "page", bytes |-> bytes]

Content(p) == IF p \in Outside THEN ZeroPage ELSE mem[p]

\* Mutant of AfterInvalid: a hole in a table is passed over.
AfterInvalidKept == FALSE

\* hash_curr_va after an entry without PTE_V, and after any entry: that of
\* the recursive call for a table, which is that of the table's last entry.
AfterInvalid == TRUE

RECURSIVE hash_curr_va(_, _)
hash_curr_va(table, i) ==
  LET e == pt[table][i]
  IN  CASE e.kind = "none"  -> AfterInvalid
        [] e.kind = "leaf"  -> FALSE
        [] e.kind = "table" -> hash_curr_va(e.to, PtePerPage - 1)

RECURSIVE hash_enclave_mem(_, _, _, _)
hash_enclave_mem(table, level, va, hash_va) ==
  LET Entry_(i) ==
        LET e == pt[table][i]
            curr_va == va * PtePerPage + i
            flag == IF i = 0 THEN hash_va ELSE hash_curr_va(table, i - 1)
        IN  CASE e.kind = "none"  -> <<>>
              [] e.kind = "leaf"  -> (IF flag THEN <<Head_(curr_va, e.flags)>> ELSE <<>>)
                                       \o <<Page_(Content(e.to))>>
              [] e.kind = "table" -> hash_enclave_mem(e.to, level - 1, curr_va, flag)
  IN  IF level <= 0 THEN <<>> ELSE FlattenSeq([n \in 1 .. PtePerPage |-> Entry_(n - 1)])

hash_enclave ==
  <<elf.entry, untrusted_mem_size(elf)>> \o hash_enclave_mem(root, 3, 0, TRUE)

-----------------------------------------------------------------------------
OutOfBound ==
  \/ penglai_enclave_elfmemsize(elf) > MAX_ELF_SIZE
  \/ elf.stack_size > MAX_STACK_SIZE
  \/ elf.umem > MAX_UNTRUSTED_MEM_SIZE

Refuse ==
  /\ phase = "create"
  /\ OutOfBound
  /\ phase' = "refused"
  /\ UNCHANGED <<vars, elf, todo, mem, hash>>

Create ==
  /\ phase = "create"
  /\ ~ OutOfBound
  /\ MemInt(2, TotalPages(elf))
  /\ phase' = "load"
  /\ todo' = Requests(elf)
  /\ UNCHANGED <<elf, mem, hash>>

Ask ==
  /\ phase = "load"
  /\ todo # <<>>
  /\ LET r == Head(todo)
     IN  IF r.to = NULL THEN AllocPage(Va(r.addr), r.flags)
         ELSE MapVa2pa(Va(r.addr), r.to, r.flags)
  /\ UNCHANGED own

Walk ==
  /\ WalkFound \/ WalkCreate \/ WalkFails
  /\ UNCHANGED own

\* memcpy or memset to the start of the page; through NULL it faults.
Overwrite(page, bytes) ==
  [k \in DOMAIN page |-> IF k \in DOMAIN bytes THEN bytes[k] ELSE page[k]]

Fill ==
  /\ SetPte
  /\ LET bytes == Head(todo).bytes
         to == walk.page
     IN  IF DOMAIN bytes = {} THEN UNCHANGED <<phase, mem>>
         ELSE IF to = NULL THEN phase' = "crashed" /\ UNCHANGED mem
         ELSE mem' = [mem EXCEPT ![to] = Overwrite(@, bytes)] /\ UNCHANGED phase
  /\ todo' = Tail(todo)
  /\ UNCHANGED <<elf, hash>>

\* hash_enclave reads every page that is mapped.  None of them is NULL: a
\* page the pool could not give faults when it is filled, and the stack,
\* which is not filled, comes first.
Measure ==
  /\ phase = "load"
  /\ todo = <<>>
  /\ walk = Idle
  /\ phase' = "measured"
  /\ hash' = hash_enclave
  /\ UNCHANGED <<vars, elf, todo, mem>>

ImageInit ==
  /\ Init
  /\ elf \in Elfs
  /\ phase = "create"
  /\ todo = <<>>
  /\ mem = [p \in Pages |-> ZeroPage]
  /\ hash = NoHash

ImageNext == Refuse \/ Create \/ Ask \/ Walk \/ Fill \/ Measure

ImageSpec == ImageInit /\ [][ImageNext]_<<vars, own>>

-----------------------------------------------------------------------------
Bytes(part) == part.addr .. part.addr + part.size - 1
PagesOf(bytes) == {b \div RISCV_PGSIZE : b \in bytes}
Parts(seq) == {seq[n] : n \in DOMAIN seq}
StackOf(e) == [addr |-> STACK_POINT - e.stack_size, size |-> e.stack_size]

\* What the linker script app.lds and the linker produce: program headers
\* start on a page and share none, and uninitialised data that does not
\* start on a page ends on the same page.
WellFormed(e) ==
  /\ \A s \in Parts(e.segments) : s.addr % RISCV_PGSIZE = 0
  /\ \A m, n \in DOMAIN e.segments :
       m # n => PagesOf(Bytes(e.segments[m])) \cap PagesOf(Bytes(e.segments[n])) = {}
  /\ \A s \in Parts(Nobits(e)) :
       /\ s.addr % RISCV_PGSIZE = 0 \/ Cardinality(PagesOf(Bytes(s))) <= 1
       /\ \A t \in Parts(e.segments) : Bytes(s) \cap Bytes(t) = {}
  /\ \A s \in Parts(Nobits(e)) \cup Parts(e.segments) :
       PagesOf(Bytes(s)) \cap PagesOf(Bytes(StackOf(e))) = {}

\* The byte the enclave reads at an address, or -1 when it is not mapped.
At(addr) ==
  LET e == Translate(Va(addr))
  IN  IF e.kind = "leaf" THEN Content(e.to)[addr % RISCV_PGSIZE] ELSE -1

\* The pages a measurement tells of: those after a head follow each other.
Decoded(out) ==
  FoldLeft(LAMBDA d, t :
             IF t.is = "head" THEN [d EXCEPT !.next = t.va, !.heads = @ \cup {<<t.va, t.flags>>}]
             ELSE [d EXCEPT !.next = @ + 1, !.pages = @ \cup {<<d.next, t.bytes>>}],
           [next |-> -1, pages |-> {}, heads |-> {}], out)

Mapped == {page \in 0 .. PtePerPage ^ 3 - 1 : Translate(Va(page * RISCV_PGSIZE)).kind = "leaf"}

\* The measurement determines the image: from it one reads back which
\* virtual pages are mapped and what each holds, and the attributes of
\* every page that follows a hole.
MeasurementDecodes ==
  phase = "measured" =>
    LET d == Decoded(SubSeq(hash, 3, Len(hash)))
        Leaf_(page) == Translate(Va(page * RISCV_PGSIZE))
    IN  /\ d.pages = {<<page, Content(Leaf_(page).to)>> : page \in Mapped}
        /\ d.heads = {<<page, Leaf_(page).flags>> : page \in {q \in Mapped : q - 1 \notin Mapped}}

\* The tables a file's pages need, without the root.
Tables(e) ==
  LET vas == {Va(Requests(e)[n].addr) : n \in DOMAIN Requests(e)}
  IN  Cardinality({<<va[1]>> : va \in vas}) + Cardinality({<<va[1], va[2]>> : va \in vas})

NonEmpty(parts) == Cardinality({n \in DOMAIN parts : parts[n].size > 0})

\* The extra pages of total_enclave_page cover the root, the page
\* enclave_mem_int gives away, the tables, and one partial page for each part
\* of the file but one.
ExtraCovers ==
  1 + Tables(elf) + NonEmpty(Nobits(elf)) + NonEmpty(elf.segments) <= Extra

\* What is measured is the program: every byte of a program header's file
\* part is at its address, uninitialised data reads as zero also where it
\* shares a page with data that is loaded later, and so does the stack.
\* And it gets that far: the pool does not run out while its extra pages
\* cover what is not counted in them.
ImageIsElf ==
  /\ ExtraCovers => walk # Crashed /\ phase # "crashed"
  /\ (phase = "measured" /\ WellFormed(elf)) =>
       /\ \A s \in Parts(elf.segments) : \A k \in 0 .. s.size - 1 : At(s.addr + k) = s.offset + k
       /\ \A s \in Parts(Nobits(elf)) \cup {StackOf(elf)} : \A a \in Bytes(s) : At(a) = 0
=============================================================================
