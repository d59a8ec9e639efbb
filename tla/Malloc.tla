------------------------------- MODULE Malloc -------------------------------
(***************************************************************************)
(* The C library's allocator inside an enclave: malloc, realloc, free and  *)
(* memalign (musl/src/malloc/malloc.c, memalign.c) over the port's brk and *)
(* mmap.                                                                   *)
(*                                                                         *)
(* heap.mem holds only the words the allocator wrote: a unit of 16 bytes   *)
(* at address a is the pair mem[a].  A chunk c keeps <<psize, csize>> at c *)
(* and, when free, <<next, prev>> at c + 16; the head of bin i is the      *)
(* chunk BIN_TO_CHUNK(i); mmap keeps <<type, size>> before each block.     *)
(* When a block is handed out the words in it are the program's, and leave *)
(* mem.  Addresses and sizes are in bytes, with the code's own constants.  *)
(* An enclave has one thread, so the locks are free and each call is one   *)
(* step.                                                                   *)
(***************************************************************************)
EXTENDS Integers, FiniteSets, Bitwise, TLC

CONSTANTS BrkLimit,     \* bytes from brk_start0 that brk grants
          MmapSize,     \* bytes of the mmap area
          PTRDIFF_MAX,
          Requests,     \* sizes the program asks for
          Aligned,      \* [align, bytes] it asks memalign for
          MaxHeld,      \* bound: blocks held at one time
          MaxCalls      \* bound: calls the program makes

VARIABLES heap,     \* the words and the allocator's static data
          held,     \* history: [ptr, bytes, align, whole] of the blocks in use
          calls     \* calls made so far

vars == <<heap, held, calls>>

-----------------------------------------------------------------------------
PAGE_SIZE == 4096
SIZE_ALIGN == 32
OVERHEAD == 16
DONTCARE == 16
MMAP_THRESHOLD == 7168 * SIZE_ALIGN
RECLAIM == 163840
SIZE_MAX == 2 * PTRDIFF_MAX + 1
NULL == 0

brk_start0 == PAGE_SIZE
brk_offset == 8 * PAGE_SIZE
mmap_start0 == brk_start0 + 64 * PAGE_SIZE
mmap_metadata == 16

round_up(n, align) == ((n + align - 1) \div align) * align

-----------------------------------------------------------------------------
(* Words. *)

BIN_TO_CHUNK(i) == 0 - (i + 1)

Within(a, p, n) == p <= a /\ a < p + n

put(h, a, unit) == [h EXCEPT !.mem = (a :> unit) @@ @]

unit(h, a) == IF a \in DOMAIN h.mem THEN h.mem[a] ELSE <<0, 0>>

psize(h, c) == h.mem[c][1]
csize(h, c) == h.mem[c][2]
set_psize(h, c, v) == put(h, c, <<v, unit(h, c)[2]>>)
set_csize(h, c, v) == put(h, c, <<unit(h, c)[1], v>>)

(* lock_bin makes a bin that was never used an empty list. *)
links_at(c) == IF c < 0 THEN c ELSE c + 16
links(h, c) == IF c < 0 /\ c \notin DOMAIN h.mem THEN <<c, c>> ELSE h.mem[links_at(c)]
next(h, c) == links(h, c)[1]
prev(h, c) == links(h, c)[2]
set_next(h, c, v) == put(h, links_at(c), <<v, links(h, c)[2]>>)
set_prev(h, c, v) == put(h, links_at(c), <<links(h, c)[1], v>>)

C_INUSE == 1
inuse(word) == word % 2 = C_INUSE
or_inuse(word) == 2 * (word \div 2) + C_INUSE
CHUNK_SIZE(h, c) == 2 * (csize(h, c) \div 2)
PREV_CHUNK(h, c) == c - 2 * (psize(h, c) \div 2)
NEXT_CHUNK(h, c) == c + CHUNK_SIZE(h, c)
MEM_TO_CHUNK(p) == p - OVERHEAD
CHUNK_TO_MEM(c) == c + OVERHEAD
IS_MMAPPED(h, c) == ~ inuse(csize(h, c))

a_crash(h) == [h EXCEPT !.crashed = TRUE]

-----------------------------------------------------------------------------
(* Bins: 33 of one size each, then four to every doubling. *)

bin_tab(x) ==
  CASE x < 4  -> 32 + x
    [] x \in 4 .. 11 -> 36 + (x - 4) \div 2
    [] x \in 12 .. 27 -> 40 + (x - 12) \div 4
    [] OTHER -> 44 + (x - 28) \div 8

(* The chunk number of a size; below one chunk it wraps to a huge one. *)
bin_index(size) ==
  LET x == size \div SIZE_ALIGN - 1
  IN CASE x < 0 -> 63
       [] x \in 0 .. 32 -> x
       [] x \in 33 .. 511 -> bin_tab(x \div 8 - 4)
       [] x > 7168 -> 63
       [] OTHER -> bin_tab(x \div 128 - 4) + 16

(* Mutant of bin_index_up: the coarse bins are left out.                   *)
bin_index_last(size) == IF size > 33 * SIZE_ALIGN THEN 63 ELSE bin_index(size)

bin_index_up(size) ==
  LET x == size \div SIZE_ALIGN - 1
  IN CASE x <= 32 -> x
       [] x - 1 \in 32 .. 511 -> bin_tab((x - 1) \div 8 - 4) + 1
       [] OTHER -> bin_tab((x - 1) \div 128 - 4) + 17

(* Mutant of clear_bit: the bit of a bin that is now empty stays.          *)
keep_bit(h, c, i) == h.binmap

clear_bit(h, c, i) == IF prev(h, c) = next(h, c) THEN h.binmap \ {i} ELSE h.binmap

mark_used(h, c, after) ==
  put(set_csize(h, c, or_inuse(csize(h, c))), after, <<or_inuse(psize(h, after)), csize(h, after)>>)

unbin(h, c, i) ==
  LET cleared == [h EXCEPT !.binmap = clear_bit(h, c, i)]
      unlinked == set_prev(set_next(cleared, prev(h, c), next(h, c)), next(h, c), prev(h, c))
  IN mark_used(unlinked, c, NEXT_CHUNK(h, c))

(* Take a free neighbour out of its bin.  A used one is left alone. *)
alloc_fwd(h, c) == IF inuse(csize(h, c)) THEN h ELSE unbin(h, c, bin_index(csize(h, c)))
alloc_rev(h, c) ==
  IF inuse(psize(h, c)) THEN h ELSE unbin(h, PREV_CHUNK(h, c), bin_index(psize(h, c)))

append_to_bin(h, c, i) ==
  LET tail == prev(h, BIN_TO_CHUNK(i))
      linked == put([h EXCEPT !.binmap = @ \cup {i}], links_at(c), <<BIN_TO_CHUNK(i), tail>>)
  IN set_next(set_prev(linked, BIN_TO_CHUNK(i), c), tail, c)

-----------------------------------------------------------------------------
(* Freeing: merge with the free neighbours, then append to the bin.        *)

reclaims(new_size, size) ==
  new_size + size > RECLAIM /\ ((new_size + size) ^^ size) > size

RECURSIVE merge(_, _)
merge(h, m) ==
  LET back == ~ inuse(psize(h, m.self))
      self == IF back THEN PREV_CHUNK(h, m.self) ELSE m.self
      forward(h1) ==
        LET before == IF back THEN CHUNK_SIZE(h1, self) ELSE 0
            fwd == ~ inuse(csize(h1, m.next))
            behind == IF fwd THEN CHUNK_SIZE(h1, m.next) ELSE 0
        IN merge(alloc_fwd(h1, m.next),
                 [m EXCEPT !.self = self, !.next = @ + behind,
                           !.final_size = @ + before + behind,
                           !.reclaim = \/ @
                                       \/ back /\ reclaims(m.new_size, before)
                                       \/ fwd /\ reclaims(m.new_size, behind)])
  IN IF ~ back /\ inuse(csize(h, m.next)) THEN [m EXCEPT !.h = h]
     ELSE forward(alloc_rev(h, m.self))

(* Words inside a free chunk are not read again. *)
Without(h, from, to) ==
  [h EXCEPT !.mem = [a \in {b \in DOMAIN @ : ~ Within(b, from, to - from)} |-> @[a]]]

(* Pages are given back with madvise, which the port answers by leaving    *)
(* the enclave.                                                            *)
bin_merged(m) ==
  LET sized == set_psize(set_csize(m.h, m.self, m.final_size), m.next, m.final_size)
      binned == append_to_bin(Without(sized, m.self + 32, m.next), m.self, bin_index(m.final_size))
  IN [binned EXCEPT !.left = IF m.reclaim THEN "madvise" ELSE @]

bin_chunk(h, c) ==
  LET size == CHUNK_SIZE(h, c)
  IN IF psize(h, c + size) # csize(h, c) THEN a_crash(h)
     ELSE bin_merged(merge(h, [h |-> h, self |-> c, next |-> c + size, new_size |-> size,
                               final_size |-> size, reclaim |-> FALSE]))

-----------------------------------------------------------------------------
(* Memory from the port. *)

(* The first block of the mmap area that fits.  What a program leaves in a *)
(* block it unmaps holds no zero word, the case EnclaveHeap looks at.      *)
RECURSIVE mmap_from(_, _, _)
mmap_from(h, a, n) ==
  LET type == h.mem[a][1]
      size == h.mem[a][2]
      rest == a + mmap_metadata + n
      rest_size == IF type = 0 THEN 0 ELSE size - n - mmap_metadata
  IN CASE a >= mmap_start0 + MmapSize -> [h |-> h, p |-> NULL]
       [] OTHER ->
          IF type = 0 \/ (type = 1 /\ size >= n + mmap_metadata)
            THEN IF rest >= mmap_start0 + MmapSize THEN [h |-> h, p |-> NULL]
                 ELSE [h |-> put(put(h, a, <<2, n>>), rest, <<type, rest_size>>),
                       p |-> a + mmap_metadata]
            ELSE IF type = 1 /\ size >= n
                   THEN [h |-> put(h, a, <<2, size>>), p |-> a + mmap_metadata]
                   ELSE mmap_from(h, a + mmap_metadata + size, n)

mmap(h, n) == mmap_from(h, mmap_start0, n)

munmap(h, p) ==
  LET a == p - mmap_metadata
  IN put(h, a, <<1, unit(h, a)[2]>>)

(* The break while it lasts, and a mapping after that. *)
heap_area(h, n) ==
  LET pages == round_up(n, PAGE_SIZE)
      min == PAGE_SIZE * 2 ^ (h.mmap_step \div 2)
      size == IF pages < min THEN min ELSE pages
      area == mmap(h, size)
  IN CASE h.brk + pages - brk_start0 < BrkLimit ->
            [h |-> [h EXCEPT !.brk = @ + pages], p |-> h.brk, n |-> pages]
       [] OTHER ->
          IF area.p = NULL THEN [h |-> h, p |-> NULL, n |-> n]
          ELSE [h |-> [area.h EXCEPT !.mmap_step = @ + 1], p |-> area.p, n |-> size]

(* The area e as one chunk, which continues the last one or starts anew.   *)
chunk_of(h, e) ==
  LET new == e.p # h.end
      p == IF new THEN e.p + SIZE_ALIGN ELSE e.p
      size == IF new THEN e.n - SIZE_ALIGN ELSE e.n
      below == IF new THEN set_psize(e.h, MEM_TO_CHUNK(p), C_INUSE) ELSE e.h
      footed == put(below, MEM_TO_CHUNK(p + size), <<size + C_INUSE, C_INUSE>>)
      starts == IF new THEN h.starts \cup {MEM_TO_CHUNK(p)} ELSE h.starts
  IN IF e.p = NULL THEN [h |-> h, c |-> NULL]
     ELSE [h |-> [set_csize(footed, MEM_TO_CHUNK(p), size + C_INUSE)
                  EXCEPT !.end = p + size, !.starts = starts],
           c |-> MEM_TO_CHUNK(p)]

expand_heap(h, n) == chunk_of(h, heap_area(h, n + SIZE_ALIGN))

-----------------------------------------------------------------------------
(* Allocating. *)

too_large == -1
adjust_size(n) ==
  CASE n = 0 -> SIZE_ALIGN
    [] n - 1 > PTRDIFF_MAX - SIZE_ALIGN - PAGE_SIZE -> too_large
    [] OTHER -> round_up(n + OVERHEAD, SIZE_ALIGN)

can_pretrim(size, n, i, j) ==
  /\ j >= 40
  /\ j >= i + 3 \/ (j = 63 /\ size - n > MMAP_THRESHOLD)
  /\ bin_index(size - n) = j

(* The rest takes the place of the chunk in its bin. *)
pretrim(h, self, n) ==
  LET n1 == CHUNK_SIZE(h, self)
      split == self + n
      linked == set_prev(set_next(put(h, links_at(split), links(h, self)),
                                  prev(h, self), split), next(h, self), split)
      cut == put(linked, split, <<n + C_INUSE, n1 - n>>)
  IN set_csize(set_psize(cut, self + n1, n1 - n), self, n + C_INUSE)

(* Mutant of trim: the footer of the rest is not written.                  *)
trim_no_footer(h, self, n) ==
  IF n >= CHUNK_SIZE(h, self) - DONTCARE THEN h ELSE set_csize(h, self, n + C_INUSE)

trim(h, self, n) ==
  LET n1 == CHUNK_SIZE(h, self)
      split == self + n
      cut == set_psize(put(h, split, <<n + C_INUSE, n1 - n + C_INUSE>>),
                       self + n1, n1 - n + C_INUSE)
  IN IF n >= n1 - DONTCARE THEN h
     ELSE bin_chunk(set_csize(cut, self, n + C_INUSE), split)

first_set(S) == CHOOSE i \in S : \A j \in S : i <= j

(* A chunk from the first bin whose chunks are all large enough. *)
from_bin(h, n, i, j) ==
  LET c == next(h, BIN_TO_CHUNK(j))
  IN [h |-> IF can_pretrim(CHUNK_SIZE(h, c), n, i, j) THEN pretrim(h, c, n) ELSE unbin(h, c, j),
      c |-> c]

(* New memory x is joined with a free chunk c before it. *)
join(h, c, x) ==
  LET joined == csize(h, x) + CHUNK_SIZE(h, c)
  IN [h |-> set_csize(set_psize(h, NEXT_CHUNK(h, x), joined), c, joined), c |-> c]

after_expand(e) ==
  IF e.c = NULL \/ inuse(psize(e.h, e.c)) THEN e
  ELSE join(alloc_rev(e.h, e.c), PREV_CHUNK(e.h, e.c), e.c)

from_expand(h, n) == after_expand(expand_heap(h, n))

mmapped(h, n) ==
  LET len == round_up(n + OVERHEAD, PAGE_SIZE)
      area == mmap(h, len)
      c == area.p + (SIZE_ALIGN - OVERHEAD)
  IN IF area.p = NULL THEN [h |-> h, p |-> NULL]
     ELSE [h |-> put(area.h, c, <<SIZE_ALIGN - OVERHEAD, len - (SIZE_ALIGN - OVERHEAD)>>),
           p |-> CHUNK_TO_MEM(c)]

trimmed(got, n) ==
  IF got.c = NULL THEN [h |-> got.h, p |-> NULL]
  ELSE [h |-> trim(got.h, got.c, n), p |-> CHUNK_TO_MEM(got.c)]

malloc_n(h, n, i) ==
  LET mask == {j \in h.binmap : j >= i}
  IN CASE n = too_large -> [h |-> h, p |-> NULL]
       [] n >= MMAP_THRESHOLD -> mmapped(h, n)
       [] OTHER -> trimmed(IF mask = {} THEN from_expand(h, n)
                           ELSE from_bin(h, n, i, first_set(mask)), n)

malloc(h, bytes) == malloc_n(h, adjust_size(bytes), bin_index_up(adjust_size(bytes)))

unmap_chunk(h, c) == IF inuse(psize(h, c)) THEN a_crash(h) ELSE munmap(h, c - psize(h, c))

free(h, p) ==
  LET c == MEM_TO_CHUNK(p)
  IN IF IS_MMAPPED(h, c) THEN unmap_chunk(h, c) ELSE bin_chunk(h, c)

-----------------------------------------------------------------------------
(* Resizing.  A result also says how many bytes of the old block the new   *)
(* one starts with.                                                        *)

copy_free(r, p, n) ==
  IF r.p = NULL THEN [h |-> r.h, p |-> NULL, kept |-> 0]
  ELSE [h |-> free(r.h, p), p |-> r.p, kept |-> n]

(* Mutant of shrunk_copy: as much is copied as the old block held.         *)
old_copy(n, n0) == n0 - OVERHEAD

shrunk_copy(n, n0) == n - OVERHEAD

(* mremap is another call the port answers by leaving the enclave. *)
realloc_mmapped(h, p, n) ==
  LET self == MEM_TO_CHUNK(p)
      extra == psize(h, self)
      oldlen == CHUNK_SIZE(h, self) + extra
      remapped == IF round_up(n + extra, PAGE_SIZE) = oldlen
                    THEN [h |-> h, p |-> p, kept |-> oldlen]
                    ELSE [h |-> [h EXCEPT !.left = "mremap"], p |-> NULL, kept |-> 0]
      moved(small) == IF small.p = NULL THEN remapped
                      ELSE copy_free(small, p, shrunk_copy(n, CHUNK_SIZE(h, self)))
  IN IF inuse(extra) THEN [h |-> a_crash(h), p |-> NULL, kept |-> 0]
     ELSE IF n + extra < PAGE_SIZE THEN moved(malloc(h, n - OVERHEAD))
     ELSE remapped

(* The chunk after it is merged if more room is needed and it is free. *)
grown(h, self, n) ==
  LET behind == NEXT_CHUNK(h, self)
  IN IF n > CHUNK_SIZE(h, self) THEN alloc_fwd(h, behind) ELSE h

realloc_chunk(h, p, n) ==
  LET self == MEM_TO_CHUNK(p)
      n0 == CHUNK_SIZE(h, self)
      behind == self + n0
      merges == n > n0 /\ ~ inuse(csize(h, behind))
      n1 == IF merges THEN n0 + CHUNK_SIZE(h, behind) ELSE n0
      h1 == set_psize(set_csize(grown(h, self, n), self, n1 + C_INUSE), self + n1, n1 + C_INUSE)
  IN IF psize(h, behind) # csize(h, self) THEN [h |-> a_crash(h), p |-> NULL, kept |-> 0]
     ELSE IF n <= n1 THEN [h |-> trim(h1, self, n), p |-> p, kept |-> n0 - OVERHEAD]
     ELSE copy_free(malloc(h1, n - OVERHEAD), p, n0 - OVERHEAD)

realloc(h, p, bytes) ==
  LET n == adjust_size(bytes)
  IN CASE n = too_large -> [h |-> h, p |-> NULL, kept |-> 0]
       [] OTHER -> IF IS_MMAPPED(h, MEM_TO_CHUNK(p)) THEN realloc_mmapped(h, p, n)
                   ELSE realloc_chunk(h, p, n)

(* The part before the aligned address becomes a chunk of its own, or, in  *)
(* a mapping, more of the distance to the mapping's start.                 *)
split_aligned(h, mem, new) ==
  LET c == MEM_TO_CHUNK(mem)
      n == MEM_TO_CHUNK(new)
      gap == new - mem
      t == NEXT_CHUNK(h, c)
      headed == set_csize(put(h, n, <<gap + C_INUSE, psize(h, t) - gap>>), c, gap + C_INUSE)
      split == set_psize(headed, t, psize(h, t) - gap)
  IN IF IS_MMAPPED(h, c) THEN put(h, n, <<psize(h, c) + gap, csize(h, c) - gap>>)
     ELSE [bin_chunk(split, c) EXCEPT !.skewed = gap % SIZE_ALIGN # 0]

aligned(r, align) ==
  LET new == round_up(r.p, align)
  IN IF r.p = NULL \/ new = r.p THEN r
     ELSE [h |-> split_aligned(r.h, r.p, new), p |-> new]

memalign(h, align, len) ==
  IF (align & (align - 1)) # 0 \/ len > SIZE_MAX - align THEN [h |-> h, p |-> NULL]
  ELSE IF align <= SIZE_ALIGN THEN malloc(h, len)
  ELSE aligned(malloc(h, len + align - 1), align)

-----------------------------------------------------------------------------
(* A program in the enclave. *)

usable(h, p) == CHUNK_SIZE(h, MEM_TO_CHUNK(p)) - OVERHEAD

(* What the block holds now is the program's. *)
Handed(h, p) == Without(h, p, p + usable(h, p))

(* The program's calls end where it left the enclave, and where memalign   *)
(* cut off a part of 16 bytes: its list links overwrite the next chunk.    *)
Running == heap.left = "in" /\ ~ heap.skewed /\ ~ heap.crashed

Call == Running /\ calls < MaxCalls /\ calls' = calls + 1

Get(r, x, others) ==
  IF r.p = NULL \/ r.h.left # "in"
    THEN heap' = r.h /\ held' = held
    ELSE heap' = Handed(r.h, r.p) /\ held' = others \cup {[x EXCEPT !.ptr = r.p]}

Malloc(n) ==
  /\ Call /\ Cardinality(held) < MaxHeld
  /\ Get(malloc(heap, n), [ptr |-> NULL, bytes |-> n, align |-> 1, whole |-> TRUE], held)

Memalign(align, n) ==
  /\ Call /\ Cardinality(held) < MaxHeld
  /\ Get(memalign(heap, align, n), [ptr |-> NULL, bytes |-> n, align |-> align, whole |-> TRUE], held)

Least(a, b) == IF a < b THEN a ELSE b

Resized(r, x, n) ==
  LET fits == r.kept <= usable(r.h, r.p)
  IN Get(r, [ptr |-> NULL, bytes |-> n, align |-> 1,
             whole |-> x.whole /\ Least(x.bytes, n) <= r.kept /\ (r.p # x.ptr => fits)],
         held \ {x})

Realloc(x, n) == Call /\ Resized(realloc(heap, x.ptr, n), x, n)

Free(x) ==
  /\ Call
  /\ heap' = free(heap, x.ptr)
  /\ held' = held \ {x}

Init ==
  /\ heap = [mem |-> mmap_start0 :> <<0, 0>>, binmap |-> {}, end |-> NULL,
             brk |-> brk_start0 + brk_offset, mmap_step |-> 0, starts |-> {},
             left |-> "in", skewed |-> FALSE, crashed |-> FALSE]
  /\ held = {}
  /\ calls = 0

Next ==
  \/ \E n \in Requests : Malloc(n)
  \/ \E a \in Aligned : Memalign(a.align, a.bytes)
  \/ \E x \in held, n \in Requests : Realloc(x, n)
  \/ \E x \in held : Free(x)

Spec == Init /\ [][Next]_vars

-----------------------------------------------------------------------------
(* Properties. *)

(* The chunks from c up to the sentinel of its region. *)
RECURSIVE ChunksFrom(_, _)
ChunksFrom(h, c) ==
  IF c \notin DOMAIN h.mem \/ CHUNK_SIZE(h, c) = 0 THEN {}
  ELSE {c} \cup ChunksFrom(h, NEXT_CHUNK(h, c))

Chunks == UNION {ChunksFrom(heap, c) : c \in heap.starts}
FreeChunks == {c \in Chunks : ~ inuse(csize(heap, c))}

(* The list of a bin, followed over at most count chunks. *)
RECURSIVE BinFrom(_, _)
BinFrom(c, count) ==
  IF c < 0 \/ count = 0 \/ links_at(c) \notin DOMAIN heap.mem THEN {}
  ELSE {c} \cup BinFrom(next(heap, c), count - 1)

(* Blocks that malloc, memalign and realloc handed out share no byte, and  *)
(* the allocator keeps none of its words inside one of them: nothing that  *)
(* splitting, merging or growing the heap writes lands in a block in use.  *)
(* Each lies where memalign was asked to put it, and one that was resized  *)
(* starts with the bytes it had, up to the smaller of the two sizes.       *)
HeldIntact ==
  Running =>
    /\ \A x \in held : x.whole /\ x.ptr % x.align = 0
    /\ \A x, y \in held : x # y => x.ptr + x.bytes <= y.ptr \/ y.ptr + y.bytes <= x.ptr
    /\ \A x \in held, a \in DOMAIN heap.mem : ~ Within(a, x.ptr, x.bytes)
    /\ \A x \in held : x.bytes <= usable(heap, x.ptr)

(* The heap is always whole: from the start of each region chunks follow   *)
(* one another up to the sentinel, every footer repeats its header, no two *)
(* free chunks touch, and each used chunk is one the program still holds,  *)
(* so nothing freed is lost.  a_crash is never reached by a program that   *)
(* frees what it holds and stays inside it, and memalign cuts a chunk off  *)
(* the grid of SIZE_ALIGN only in a region that came from mmap.            *)
HeapWhole ==
  /\ ~ heap.crashed
  /\ heap.skewed => heap.mmap_step > 0
  /\ Running => \A c \in Chunks :
       LET behind == NEXT_CHUNK(heap, c)
       IN /\ behind \in DOMAIN heap.mem
          /\ psize(heap, behind) = csize(heap, c)
          /\ inuse(csize(heap, c)) \/ inuse(csize(heap, behind))
          /\ inuse(csize(heap, c)) => \E x \in held : x.ptr = CHUNK_TO_MEM(c)

(* Each bin lists, linked both ways, exactly the free chunks of its sizes, *)
(* and its bit in binmap is set exactly when the list is not empty; a bit  *)
(* left over would make malloc's search for a chunk loop for ever.         *)
BinsMatchHeap ==
  Running => LET unused == FreeChunks
                 count == Cardinality(unused) + 1
                 used == {bin_index(CHUNK_SIZE(heap, c)) : c \in unused}
             IN /\ heap.binmap = used
                /\ \A i \in used \cup {-(a + 1) : a \in DOMAIN heap.mem \cap -64 .. -1} :
                     LET bin == BinFrom(next(heap, BIN_TO_CHUNK(i)), count)
                     IN /\ bin = {c \in unused : bin_index(CHUNK_SIZE(heap, c)) = i}
                        /\ \A c \in bin \cup {BIN_TO_CHUNK(i)} : prev(heap, next(heap, c)) = c

(* The enclave goes on while it has memory: malloc returns NULL only when  *)
(* no free chunk is a quarter larger than the request (the bins are coarse *)
(* and nowhere coarser), and free and malloc leave the enclave, by a call  *)
(* the port does not have, only after merging more than RECLAIM bytes.     *)
FailsOnlyWhenTight ==
  /\ heap.left = "madvise" => \E c \in FreeChunks : CHUNK_SIZE(heap, c) > RECLAIM
  /\ Running => LET unused == FreeChunks
                IN \A n \in Requests :
                     LET size == adjust_size(n)
                     IN (\E c \in unused : 4 * CHUNK_SIZE(heap, c) >= 5 * size) =>
                          size = too_large \/ malloc(heap, n).p # NULL
=============================================================================
