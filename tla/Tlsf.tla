-------------------------------- MODULE Tlsf --------------------------------
(***************************************************************************)
(* The two-level segregated fit allocator behind mmap when the library is  *)
(* built with USE_TLSF (musl/src/malloc/tlsf.c).                           *)
(*                                                                         *)
(* Memory is one array of words, and the headers lie in it as in the code: *)
(* a block b keeps prev_phys_block in word b, which is the last word of    *)
(* the block before it, its size and its two flags in word b + 1, and the  *)
(* links of its free list in words b + 2 and b + 3, where the data of a    *)
(* used block begins.  So a used block's data, a stale link and a header   *)
(* are told apart by nothing but the code.  Sizes are in words; a caller's *)
(* request is in bytes.                                                    *)
(***************************************************************************)
EXTENDS Integers, FiniteSets

CONSTANTS ALIGN_SIZE,           \* bytes of a word
          SIZE_T,               \* number of values of a size_t, in bytes
          SL_INDEX_COUNT_LOG2,
          FL_INDEX_MAX,         \* block_size_max is 2 ^ FL_INDEX_MAX words
          Pools,                \* [start, words]: memory for tlsf_add_pool
          Requests,             \* sizes the program asks for, in bytes
          Aligns,               \* alignments it asks for, in words
          Values,               \* what it stores in its blocks
          MaxHeld               \* bound: blocks held at one time

VARIABLES heap,    \* the words, the control structure, the assertions
          pools,   \* the pools that were added
          held     \* history: [ptr, bytes, align, value] of the blocks in use

vars == <<heap, pools, held>>

-----------------------------------------------------------------------------
SL_INDEX_COUNT == 2 ^ SL_INDEX_COUNT_LOG2
FL_INDEX_COUNT == FL_INDEX_MAX - SL_INDEX_COUNT_LOG2 + 1
SMALL_BLOCK_SIZE == SL_INDEX_COUNT
block_header_overhead == 1
block_header_size == 4
block_size_min == 3
block_size_max == 2 ^ FL_INDEX_MAX

FLs == 0 .. FL_INDEX_COUNT - 1
SLs == 0 .. SL_INDEX_COUNT - 1
End(pool) == pool.start + pool.words
Words == UNION {pool.start - 1 .. End(pool) - 1 : pool \in Pools}

(* block_null, which ends every list.  Its fields are written and never read. *)
block_null == -1
NULL == 0

-----------------------------------------------------------------------------
(* Fields of a block. *)

word(h, a) == h.mem[a]
put(h, a, v) == IF a \in Words THEN [h EXCEPT !.mem[a] = v] ELSE h
tlsf_assert(h, p) == [h EXCEPT !.asserts = @ /\ p]

block_size(h, b) == word(h, b + 1) \div 4
block_is_free(h, b) == word(h, b + 1) % 2 = 1
block_is_prev_free(h, b) == (word(h, b + 1) \div 2) % 2 = 1
block_is_last(h, b) == block_size(h, b) = 0

header(size, free, prev_free) ==
  4 * size + (IF free THEN 1 ELSE 0) + (IF prev_free THEN 2 ELSE 0)

block_set_size(h, b, size) ==
  put(h, b + 1, header(size, block_is_free(h, b), block_is_prev_free(h, b)))
block_set_status(h, b, free) ==
  put(h, b + 1, header(block_size(h, b), free, block_is_prev_free(h, b)))
block_set_prev_status(h, b, free) ==
  put(h, b + 1, header(block_size(h, b), block_is_free(h, b), free))

block_to_ptr(b) == b + 2
block_from_ptr(p) == p - 2
offset_to_block(p, size) == p + size
block_next(h, b) == offset_to_block(block_to_ptr(b), block_size(h, b) - block_header_overhead)

prev_phys_block(h, b) == word(h, b)
next_free(h, b) == word(h, b + 2)
prev_free(h, b) == word(h, b + 3)
set_next_free(h, b, v) == IF b = block_null THEN h ELSE put(h, b + 2, v)
set_prev_free(h, b, v) == IF b = block_null THEN h ELSE put(h, b + 3, v)

block_link_next(h, b) ==
  put(tlsf_assert(h, ~ block_is_last(h, b)), block_next(h, b), b)

block_mark_as_free(h, b) ==
  block_set_status(block_set_prev_status(block_link_next(h, b), block_next(h, b), TRUE), b, TRUE)

(* Mutant of block_mark_as_used: the next block is not told.               *)
block_mark_only(h, b) == block_set_status(h, b, FALSE)

block_mark_as_used(h, b) ==
  block_set_status(block_set_prev_status(h, block_next(h, b), FALSE), b, FALSE)

-----------------------------------------------------------------------------
(* Sizes and the lists they belong to. *)

tlsf_fls(n) == CHOOSE k \in 0 .. FL_INDEX_MAX + 1 : 2 ^ k <= n /\ n < 2 ^ (k + 1)

align_up(n, align) == ((n + align - 1) \div align) * align
align_ptr(p, align) == align_up(p, align)

at_least_min(words) == IF words >= block_size_max THEN 0
                       ELSE IF words < block_size_min THEN block_size_min ELSE words

adjust_request_size(bytes) ==
  IF bytes = 0 THEN 0
  ELSE at_least_min(((bytes + ALIGN_SIZE - 1) % SIZE_T) \div ALIGN_SIZE)

mapping_insert(size) ==
  IF size < SMALL_BLOCK_SIZE
    THEN [fl |-> 0, sl |-> size]
    ELSE LET f == tlsf_fls(size)
         IN [fl |-> f - SL_INDEX_COUNT_LOG2 + 1,
             sl |-> size \div 2 ^ (f - SL_INDEX_COUNT_LOG2) - SL_INDEX_COUNT]

search_size(size) ==
  IF size < SMALL_BLOCK_SIZE THEN size
  ELSE size + 2 ^ (tlsf_fls(size) - SL_INDEX_COUNT_LOG2) - 1

(* Mutant of mapping_search: the size is not rounded up.                   *)
mapping_search_unrounded(size) == mapping_insert(size)

mapping_search(size) == mapping_insert(search_size(size))

-----------------------------------------------------------------------------
(* The free lists. *)

first(S) == CHOOSE i \in S : \A j \in S : i <= j

not_found == [fl |-> -1, sl |-> -1]

search_suitable_block(h, i) ==
  LET same == {sl \in h.sl_bitmap[i.fl] : sl >= i.sl}
      above == {fl \in h.fl_bitmap : fl > i.fl}
  IN CASE same # {}  -> [fl |-> i.fl, sl |-> first(same)]
       [] same = {} /\ above # {} -> [fl |-> first(above), sl |-> first(h.sl_bitmap[first(above)])]
       [] OTHER -> not_found

fl_bitmap_without(bitmap, fl, sl_bitmap) == IF sl_bitmap = {} THEN bitmap \ {fl} ELSE bitmap

remove_free_block(h, b, i) ==
  LET prev == prev_free(h, b)
      next == next_free(h, b)
      linked == set_next_free(set_prev_free(h, next, prev), prev, next)
      sl == IF next = block_null THEN h.sl_bitmap[i.fl] \ {i.sl} ELSE h.sl_bitmap[i.fl]
  IN IF h.blocks[i.fl][i.sl] # b THEN linked
     ELSE [linked EXCEPT !.blocks[i.fl][i.sl] = next,
                         !.sl_bitmap[i.fl] = sl,
                         !.fl_bitmap = fl_bitmap_without(@, i.fl, sl)]

insert_free_block(h, b, i) ==
  LET current == h.blocks[i.fl][i.sl]
      linked == set_prev_free(set_prev_free(set_next_free(h, b, current), b, block_null),
                              current, b)
  IN [linked EXCEPT !.blocks[i.fl][i.sl] = b,
                    !.fl_bitmap = @ \cup {i.fl},
                    !.sl_bitmap[i.fl] = @ \cup {i.sl}]

block_remove(h, b) == remove_free_block(h, b, mapping_insert(block_size(h, b)))

(* An index beyond the arrays of control_t writes over what follows them. *)
block_insert(h, b) ==
  LET i == mapping_insert(block_size(h, b))
  IN IF i.fl \in FLs THEN insert_free_block(h, b, i) ELSE [h EXCEPT !.inbounds = FALSE]

-----------------------------------------------------------------------------
(* Splitting and merging. *)

block_can_split(h, b, size) == block_size(h, b) >= block_header_size + size

remaining(b, size) == offset_to_block(block_to_ptr(b), size - block_header_overhead)

block_split(h, b, size) ==
  LET rest == remaining(b, size)
      rest_size == block_size(h, b) - (size + block_header_overhead)
      sized == block_set_size(block_set_size(h, rest, rest_size), b, size)
  IN block_mark_as_free(tlsf_assert(sized, rest_size >= block_size_min), rest)

block_absorb(h, prev, b) ==
  block_link_next(block_set_size(tlsf_assert(h, ~ block_is_last(h, prev)), prev,
                                 block_size(h, prev) + block_size(h, b) + block_header_overhead),
                  prev)

block_merge_prev(h, b) ==
  LET prev == prev_phys_block(h, b)
  IN IF ~ block_is_prev_free(h, b) THEN [h |-> h, b |-> b]
     ELSE [h |-> block_absorb(block_remove(tlsf_assert(h, block_is_free(h, prev)), prev), prev, b),
           b |-> prev]

block_merge_next(h, b) ==
  LET next == block_next(h, b)
  IN IF block_is_free(h, next) THEN block_absorb(block_remove(h, next), b, next) ELSE h

block_trim_free(h, b, size) ==
  LET rest == remaining(b, size)
  IN IF ~ block_can_split(h, b, size) THEN h
     ELSE block_insert(block_set_prev_status(block_link_next(block_split(h, b, size), b),
                                             rest, TRUE), rest)

block_trim_used(h, b, size) ==
  LET rest == remaining(b, size)
  IN IF ~ block_can_split(h, b, size) THEN h
     ELSE block_insert(block_merge_next(block_set_prev_status(block_split(h, b, size), rest, FALSE),
                                        rest), rest)

block_trim_free_leading(h, b, size) ==
  LET rest == remaining(b, size - block_header_overhead)
      split == block_set_prev_status(block_split(h, b, size - block_header_overhead), rest, TRUE)
  IN IF block_can_split(h, b, size)
       THEN [h |-> block_insert(block_link_next(split, b), b), b |-> rest]
       ELSE [h |-> h, b |-> b]

block_locate_free(h, size) ==
  LET i == mapping_search(size)
      found == search_suitable_block(h, i)
      b == h.blocks[found.fl][found.sl]
  IN IF size = 0 \/ i.fl \notin FLs \/ found = not_found
       THEN [h |-> h, b |-> block_null]
       ELSE [h |-> remove_free_block(tlsf_assert(h, block_size(h, b) >= size), b, found), b |-> b]

block_prepare_used(h, b, size) ==
  IF b = block_null THEN [h |-> h, p |-> NULL]
  ELSE [h |-> block_mark_as_used(block_trim_free(tlsf_assert(h, size # 0), b, size), b),
        p |-> block_to_ptr(b)]

-----------------------------------------------------------------------------
(* The interface. *)

tlsf_malloc(h, bytes) ==
  LET adjust == adjust_request_size(bytes)
      located == block_locate_free(h, adjust)
  IN block_prepare_used(located.h, located.b, adjust)

gap_minimum == block_header_size

gap_of(p, align) ==
  LET gap == align_ptr(p, align) - p
      offset == IF gap_minimum - gap > align THEN gap_minimum - gap ELSE align
  IN IF gap # 0 /\ gap < gap_minimum
       THEN align_ptr(align_ptr(p, align) + offset, align) - p
       ELSE gap

size_with_gap(adjust, align) == at_least_min(align_up(adjust + align + gap_minimum, align))

tlsf_memalign(h, align, bytes) ==
  LET adjust == adjust_request_size(bytes)
      located == block_locate_free(h, IF adjust # 0 /\ align > 1
                                        THEN size_with_gap(adjust, align) ELSE adjust)
      gap == gap_of(block_to_ptr(located.b), align)
      trimmed == IF located.b # block_null /\ gap # 0
                   THEN block_trim_free_leading(tlsf_assert(located.h, gap >= gap_minimum),
                                                located.b, gap)
                   ELSE located
  IN block_prepare_used(trimmed.h, trimmed.b, adjust)

tlsf_free(h, p) ==
  LET b == block_from_ptr(p)
      merged == block_merge_prev(block_mark_as_free(tlsf_assert(h, ~ block_is_free(h, b)), b), b)
  IN block_insert(block_merge_next(merged.h, merged.b), merged.b)

memcpy(h, to, from, n) ==
  [h EXCEPT !.mem = [a \in Words |-> IF a \in to .. to + n - 1 THEN h.mem[from + (a - to)]
                                     ELSE h.mem[a]]]

(* Mutant of must_move: any free neighbour is large enough.                *)
must_move_if_used(h, b, adjust) ==
  adjust > block_size(h, b) /\ ~ block_is_free(h, block_next(h, b))

must_move(h, b, adjust) ==
  LET next == block_next(h, b)
      combined == block_size(h, b) + block_size(h, next) + block_header_overhead
  IN adjust > block_size(h, b) /\ (~ block_is_free(h, next) \/ adjust > combined)

tlsf_realloc(h, p, bytes) ==
  LET b == block_from_ptr(p)
      cursize == block_size(h, b)
      adjust == adjust_request_size(bytes)
      new == tlsf_malloc(h, bytes)
      grown == IF adjust > cursize THEN block_mark_as_used(block_merge_next(h, b), b) ELSE h
  IN CASE bytes = 0 -> [h |-> tlsf_free(h, p), p |-> NULL]
       [] bytes # 0 /\ must_move(h, b, adjust) ->
            IF new.p = NULL THEN new
            ELSE [h |-> tlsf_free(memcpy(new.h, new.p, p, cursize), p), p |-> new.p]
       [] OTHER -> [h |-> block_trim_used(tlsf_assert(grown, ~ block_is_free(h, b)), b, adjust), p |-> p]

tlsf_add_pool(h, pool) ==
  LET b == offset_to_block(pool.start, - block_header_overhead)
      size == pool.words - 2 * block_header_overhead
      main == block_insert(put(h, b + 1, header(size, TRUE, FALSE)), b)
      linked == block_link_next(main, b)
  IN put(linked, block_next(linked, b) + 1, header(0, FALSE, TRUE))

tlsf_remove_pool(h, pool) == block_remove(h, offset_to_block(pool.start, - block_header_overhead))

-----------------------------------------------------------------------------
(* A program that allocates, fills what it gets, and frees. *)

WordsOf(bytes) == (bytes + ALIGN_SIZE - 1) \div ALIGN_SIZE

Data(x) == x.ptr .. x.ptr + WordsOf(x.bytes) - 1

Store(h, addresses, v) ==
  [h EXCEPT !.mem = [a \in Words |-> IF a \in addresses THEN v ELSE h.mem[a]]]

Get(r, x) == IF r.p = NULL THEN heap' = r.h /\ held' = held
             ELSE heap' = Store(r.h, Data(x), x.value) /\ held' = held \cup {x}

Malloc(bytes, v) ==
  /\ Cardinality(held) < MaxHeld
  /\ LET r == tlsf_malloc(heap, bytes)
     IN Get(r, [ptr |-> r.p, bytes |-> bytes, align |-> 1, value |-> v])
  /\ UNCHANGED pools

Memalign(align, bytes, v) ==
  /\ Cardinality(held) < MaxHeld
  /\ LET r == tlsf_memalign(heap, align, bytes)
     IN Get(r, [ptr |-> r.p, bytes |-> bytes, align |-> align, value |-> v])
  /\ UNCHANGED pools

Free(x) == heap' = tlsf_free(heap, x.ptr) /\ held' = held \ {x} /\ UNCHANGED pools

Realloc(x, bytes) ==
  /\ LET r == tlsf_realloc(heap, x.ptr, bytes)
         y == [ptr |-> r.p, bytes |-> bytes, value |-> x.value,
               align |-> IF r.p = x.ptr THEN x.align ELSE 1]
         kept == r.p .. r.p + WordsOf(x.bytes) - 1
     IN IF r.p = NULL
          THEN heap' = r.h /\ held' = (IF bytes = 0 THEN held \ {x} ELSE held)
          ELSE heap' = Store(r.h, Data(y) \ kept, x.value) /\ held' = (held \ {x}) \cup {y}
  /\ UNCHANGED pools

AddPool(pool) ==
  /\ pool \notin pools
  /\ pool.words - 2 * block_header_overhead \in block_size_min .. block_size_max
  /\ heap' = tlsf_add_pool(heap, pool) /\ pools' = pools \cup {pool}
  /\ UNCHANGED held

RemovePool(pool) ==
  LET b == offset_to_block(pool.start, - block_header_overhead)
  IN /\ pool \in pools
     /\ block_is_free(heap, b)
     /\ ~ block_is_free(heap, block_next(heap, b)) /\ block_is_last(heap, block_next(heap, b))
     /\ heap' = tlsf_remove_pool(heap, pool) /\ pools' = pools \ {pool}
     /\ UNCHANGED held

Init == /\ heap = [mem |-> [a \in Words |-> 0],
                   fl_bitmap |-> {}, sl_bitmap |-> [fl \in FLs |-> {}],
                   blocks |-> [fl \in FLs |-> [sl \in SLs |-> block_null]],
                   asserts |-> TRUE, inbounds |-> TRUE]
        /\ pools = {} /\ held = {}

Next == \/ \E bytes \in Requests, v \in Values : Malloc(bytes, v)
        \/ \E align \in Aligns, bytes \in Requests, v \in Values : Memalign(align, bytes, v)
        \/ \E x \in held : Free(x)
        \/ \E x \in held, bytes \in Requests : Realloc(x, bytes)
        \/ \E pool \in Pools : AddPool(pool) \/ RemovePool(pool)

Spec == Init /\ [][Next]_vars

-----------------------------------------------------------------------------
(* The blocks of a pool in memory order, and those of a list. *)
Blocks(pool) ==
  LET walk[n \in Nat] ==
        IF n = 0 THEN {pool.start - 1}
        ELSE LET before == walk[n - 1]
             IN before \cup {block_next(heap, b) : b \in {c \in before : ~ block_is_last(heap, c)}}
  IN walk[pool.words \div block_size_min]

FreeBlocks == {b \in UNION {Blocks(pool) : pool \in pools} : block_is_free(heap, b)}

List(fl, sl) ==
  LET walk[n \in Nat] ==
        IF n = 0 THEN {heap.blocks[fl][sl]} \ {block_null}
        ELSE LET before == walk[n - 1]
             IN before \cup ({next_free(heap, b) : b \in before} \ {block_null})
  IN walk[Cardinality(Words) \div block_header_size]

(* The assertions of tlsf.c hold in every call: what is split is large     *)
(* enough, what is marked free is free, a list hands out what it promises; *)
(* and no index leaves the arrays of lists.                                *)
AssertsHold == heap.asserts /\ heap.inbounds

(* tlsf_check and tlsf_check_pool, and what they do not look at: the free  *)
(* blocks in memory are those of the lists, each in the list of its size,  *)
(* no two of them are neighbours, every block knows whether the one before *)
(* it is free and where it starts, and the bits of the two levels of       *)
(* bitmaps say which lists are not empty.                                  *)
ListsMatchMemory ==
  /\ heap.sl_bitmap = [fl \in FLs |-> {sl \in SLs : heap.blocks[fl][sl] # block_null}]
  /\ heap.fl_bitmap = {fl \in FLs : heap.sl_bitmap[fl] # {}}
  /\ UNION {List(fl, sl) : fl \in FLs, sl \in SLs} = FreeBlocks
  /\ \A fl \in FLs, sl \in SLs : \A b \in List(fl, sl) :
       mapping_insert(block_size(heap, b)) = [fl |-> fl, sl |-> sl]
  /\ \A pool \in pools : \A b \in Blocks(pool) :
       LET next == block_next(heap, b)
       IN ~ block_is_last(heap, b) =>
            /\ block_is_prev_free(heap, next) = block_is_free(heap, b)
            /\ block_is_free(heap, b) =>
                 ~ block_is_free(heap, next) /\ prev_phys_block(heap, next) = b

(* A block in use is the caller's alone: it lies in a block of its pool    *)
(* that is not free, is as long and as aligned as was asked for, and holds *)
(* what was stored there, through every split and merge around it and      *)
(* through realloc.                                                        *)
HeldIntact ==
  \A x \in held :
    /\ x.ptr % x.align = 0
    /\ ~ block_is_free(heap, block_from_ptr(x.ptr))
    /\ WordsOf(x.bytes) <= block_size(heap, block_from_ptr(x.ptr))
    /\ \A a \in Data(x) : heap.mem[a] = x.value
    /\ \A y \in held : x # y => Data(x) \cap Data(y) = {}
    /\ \E pool \in pools : block_from_ptr(x.ptr) \in Blocks(pool)
=============================================================================
