---------------------------- MODULE UntrustedMem ----------------------------
(***************************************************************************)
(* The allocator of untrusted shared memory of the host library            *)
(* (lib/host/src/param.c).  Host threads call alloc_untrusted_mem, which   *)
(* maps the next range of addresses behind current_untrusted_ptr, hands    *)
(* the part behind the DEFAULT_UNTRUSTED_SIZE bytes reserved for system    *)
(* calls to the caller's enclave_args, and advances the pointer.           *)
(*                                                                         *)
(* Addresses are counted in granules, PageSize of them to a page; the      *)
(* machine word wraps at WordSize.  mmap is the kernel's: it is modelled   *)
(* from what the code asks of it (a hint without MAP_FIXED).               *)
(***************************************************************************)
EXTENDS Integers

CONSTANTS
  Threads,       \* host threads that share the process
  NoThread,      \* the mutex is free
  DefaultPtr,    \* DEFAULT_UNTRUSTED_PTR
  DefaultSize,   \* DEFAULT_UNTRUSTED_SIZE
  PageSize,      \* granules of a page, a power of two
  WordSize,      \* unsigned long wraps here
  AddrLimit,     \* user addresses are below this
  Sizes,         \* sizes a caller may ask for
  OtherMaps,     \* start addresses at which other code may map a page
  MaxCalls       \* bound on the calls of one thread

ASSUME UntrustedMemAssumption ==
  /\ NoThread \notin Threads
  /\ {DefaultPtr, DefaultSize, MaxCalls} \subseteq Nat
  /\ {PageSize, WordSize, AddrLimit} \subseteq Nat \ {0}
  /\ DefaultPtr <= AddrLimit
  /\ DefaultPtr % PageSize = 0
  /\ DefaultSize % PageSize = 0
  /\ AddrLimit < WordSize
  /\ Sizes \subseteq 0 .. WordSize - 1
  /\ OtherMaps \subseteq 0 .. AddrLimit

VARIABLES
  current_untrusted_ptr,  \* the global of param.c
  mutex,                  \* the thread that holds the global mutex
  pc,                     \* where each thread is in alloc_untrusted_mem
  requested,              \* the size each thread asked for
  size,                   \* its local variable size, after the rounding
  ptr,                    \* its local variable ptr, what mmap returned
  maps,                   \* every mapping of the process: who, start, end
  grants,                 \* every range handed out in an enclave_args
  calls                   \* calls each thread has made

vars == <<current_untrusted_ptr, mutex, pc, requested, size, ptr, maps,
          grants, calls>>

Word(n) == n % WordSize

\* The kernel maps whole pages.
Pages(n) == IF n % PageSize = 0 THEN n ELSE (n - (n % PageSize)) + PageSize

(***************************************************************************)
(* size = (size + 4*1024) & (~(4*1024)): clears the one bit PageSize of    *)
(* the sum.  It is not a rounding up to pages.                             *)
(***************************************************************************)
RoundSize(n) ==
  LET sum == Word(n + PageSize)
  IN  IF (sum \div PageSize) % 2 = 1 THEN sum - PageSize ELSE sum

MapLength(t) == Word(DefaultSize + size[t])

(***************************************************************************)
(* What the kernel may do with a request: [start, start + len) is usable   *)
(* when it is page aligned, inside the address space and unmapped.         *)
(***************************************************************************)
Usable(start, len) ==
  /\ start % PageSize = 0
  /\ len > 0
  /\ start + Pages(len) <= AddrLimit
  /\ \A m \in maps : start + Pages(len) <= m.start \/ m.end <= start

Mapping(t, start, len) ==
  [owner |-> t, start |-> start, end |-> start + Pages(len)]

-----------------------------------------------------------------------------
Goto(t, from, to) ==
  /\ pc[t] = from
  /\ pc' = [pc EXCEPT ![t] = to]

Call(t, n) ==
  /\ calls[t] < MaxCalls
  /\ Goto(t, "idle", "lock")
  /\ calls' = [calls EXCEPT ![t] = @ + 1]
  /\ requested' = [requested EXCEPT ![t] = n]
  /\ size' = [size EXCEPT ![t] = RoundSize(n)]
  /\ UNCHANGED <<current_untrusted_ptr, mutex, ptr, maps, grants>>

Lock(t) ==
  /\ mutex = NoThread
  /\ Goto(t, "lock", "mmap")
  /\ mutex' = t
  /\ UNCHANGED <<current_untrusted_ptr, requested, size, ptr, maps, grants, calls>>

\* pthread_mutex_lock reports an error: return NULL.
LockFails(t) ==
  /\ Goto(t, "lock", "idle")
  /\ UNCHANGED <<current_untrusted_ptr, mutex, requested, size, ptr, maps, grants, calls>>

\* Mutant of MmapAtHint: the reserved part is left out of the length.
MmapWithoutReserved(t) ==
  /\ Usable(current_untrusted_ptr, size[t])
  /\ Goto(t, "mmap", "check")
  /\ maps' = maps \cup {Mapping(t, current_untrusted_ptr, size[t])}
  /\ ptr' = [ptr EXCEPT ![t] = current_untrusted_ptr]
  /\ UNCHANGED <<current_untrusted_ptr, mutex, requested, size, grants, calls>>

\* The hint is honoured when it can be.
MmapAtHint(t) ==
  /\ Usable(current_untrusted_ptr, MapLength(t))
  /\ Goto(t, "mmap", "check")
  /\ maps' = maps \cup {Mapping(t, current_untrusted_ptr, MapLength(t))}
  /\ ptr' = [ptr EXCEPT ![t] = current_untrusted_ptr]
  /\ UNCHANGED <<current_untrusted_ptr, mutex, requested, size, grants, calls>>

MmapElsewhere(t) ==
  /\ ~ Usable(current_untrusted_ptr, MapLength(t))
  /\ Goto(t, "mmap", "check")
  /\ \E start \in {a \in 0 .. AddrLimit : Usable(a, MapLength(t))} :
       /\ maps' = maps \cup {Mapping(t, start, MapLength(t))}
       /\ ptr' = [ptr EXCEPT ![t] = start]
  /\ UNCHANGED <<current_untrusted_ptr, mutex, requested, size, grants, calls>>

MmapFailed(t) ==
  /\ Goto(t, "mmap", "fail")
  /\ UNCHANGED <<current_untrusted_ptr, mutex, requested, size, ptr, maps, grants, calls>>

\* ptr != current_untrusted_ptr: the mapping stays, the call fails.
WrongAddress(t) ==
  /\ ptr[t] # current_untrusted_ptr
  /\ Goto(t, "check", "fail")
  /\ UNCHANGED <<current_untrusted_ptr, mutex, requested, size, ptr, maps, grants, calls>>

\* enclave_args gets the range behind the reserved part; the pointer moves.
HandOut(t, start, next) ==
  /\ Goto(t, "check", "unlock")
  /\ grants' = grants \cup {[owner |-> t, call |-> calls[t],
                             requested |-> requested[t],
                             ptr |-> start + DefaultSize, size |-> size[t]]}
  /\ current_untrusted_ptr' = next
  /\ UNCHANGED <<mutex, requested, size, ptr, maps, calls>>

NextPtr(t) == Word(current_untrusted_ptr + MapLength(t))

\* Mutants of Grant: the range is recorded after the pointer has moved; the
\* address is not compared.
GrantAfterAdvance(t) ==
  /\ ptr[t] = current_untrusted_ptr
  /\ HandOut(t, NextPtr(t), NextPtr(t))

GrantAnywhere(t) ==
  HandOut(t, current_untrusted_ptr, NextPtr(t))

Grant(t) ==
  /\ ptr[t] = current_untrusted_ptr
  /\ HandOut(t, current_untrusted_ptr, NextPtr(t))

\* Mutant of UnlockFail: the error path keeps the mutex.
ReturnLocked(t) ==
  /\ Goto(t, "fail", "idle")
  /\ UNCHANGED <<current_untrusted_ptr, mutex, requested, size, ptr, maps, grants, calls>>

UnlockFail(t) ==
  /\ Goto(t, "fail", "idle")
  /\ mutex' = NoThread
  /\ UNCHANGED <<current_untrusted_ptr, requested, size, ptr, maps, grants, calls>>

Unlock(t) ==
  /\ Goto(t, "unlock", "memset")
  /\ mutex' = NoThread
  /\ UNCHANGED <<current_untrusted_ptr, requested, size, ptr, maps, grants, calls>>

\* memset of [ptr, ptr + DEFAULT_UNTRUSTED_SIZE + size) after the unlock.
Memset(t) ==
  /\ Goto(t, "memset", "idle")
  /\ UNCHANGED <<current_untrusted_ptr, mutex, requested, size, ptr, maps, grants, calls>>

\* Other code of the process (a library, the C heap) maps a page.
OtherMmap(a) ==
  /\ Usable(a, PageSize)
  /\ maps' = maps \cup {Mapping(NoThread, a, PageSize)}
  /\ UNCHANGED <<current_untrusted_ptr, mutex, pc, requested, size, ptr, grants, calls>>

-----------------------------------------------------------------------------
Init ==
  /\ current_untrusted_ptr = DefaultPtr
  /\ mutex = NoThread
  /\ pc = [t \in Threads |-> "idle"]
  /\ requested = [t \in Threads |-> 0]
  /\ size = [t \in Threads |-> 0]
  /\ ptr = [t \in Threads |-> 0]
  /\ maps = {}
  /\ grants = {}
  /\ calls = [t \in Threads |-> 0]

InMutex(t) ==
  \/ MmapAtHint(t) \/ MmapElsewhere(t) \/ MmapFailed(t)
  \/ WrongAddress(t) \/ Grant(t) \/ UnlockFail(t) \/ Unlock(t)

Next ==
  \/ \E t \in Threads :
       \/ \E n \in Sizes : Call(t, n)
       \/ Lock(t) \/ LockFails(t) \/ InMutex(t) \/ Memset(t)
  \/ \E a \in OtherMaps : OtherMmap(a)

Spec == Init /\ [][Next]_vars

(***************************************************************************)
(* A thread inside the function keeps running: nothing in it blocks but    *)
(* the mutex.  No fairness is put on callers, on errors, or on the rest    *)
(* of the process.                                                         *)
(***************************************************************************)
Fairness ==
  \A t \in Threads : WF_vars(Lock(t)) /\ WF_vars(InMutex(t)) /\ WF_vars(Memset(t))

FairSpec == Spec /\ Fairness

-----------------------------------------------------------------------------
Ranges == [owner : Threads, call : Nat, requested : Nat, ptr : Nat, size : Nat]

\* The state of alloc_untrusted_mem has its types, and the pointer never
\* leaves the address space although its sums wrap at the word.
TypeOK ==
  /\ current_untrusted_ptr \in 0 .. AddrLimit
  /\ mutex \in Threads \cup {NoThread}
  /\ pc \in [Threads -> {"idle", "lock", "mmap", "check", "fail", "unlock", "memset"}]
  /\ requested \in [Threads -> Nat]
  /\ size \in [Threads -> Nat]
  /\ ptr \in [Threads -> Nat]
  /\ maps \subseteq [owner : Threads \cup {NoThread}, start : Nat, end : Nat]
  /\ grants \subseteq Ranges
  /\ calls \in [Threads -> Nat]

\* The size computations of the request did not wrap the machine word.
Sound(g) == g.requested + PageSize + DefaultSize < WordSize

\* No two ranges handed out by alloc_untrusted_mem share an address, the
\* part reserved for system calls in front of each included.
GrantsDisjoint ==
  \A g, h \in grants :
    Sound(g) /\ Sound(h) /\ g # h =>
      \/ g.ptr + g.size <= h.ptr - DefaultSize
      \/ h.ptr + h.size <= g.ptr - DefaultSize

\* A range handed out, with its reserved part, lies in one mapping that the
\* calling thread made, and is at least as long as what was asked for.
GrantsMapped ==
  \A g \in grants :
    Sound(g) =>
      /\ g.size >= g.requested
      /\ \E m \in maps : /\ m.owner = g.owner
                         /\ m.start = g.ptr - DefaultSize
                         /\ g.ptr + g.size <= m.end

\* The memset done after the mutex is released stays inside the mapping the
\* thread made in this call, so it overwrites no memory of another caller.
MemsetInOwnMapping ==
  \A t \in Threads :
    pc[t] \in {"unlock", "memset"} =>
      \E m \in maps : /\ m.owner = t
                      /\ m.start = ptr[t]
                      /\ ptr[t] + MapLength(t) <= m.end

\* Once a request that is no multiple of a page has left
\* current_untrusted_ptr unaligned, mmap can no longer return that address:
\* the pointer never moves again and no call succeeds any more.
UnalignedPointerIsStuck ==
  [][current_untrusted_ptr % PageSize # 0 =>
       UNCHANGED <<current_untrusted_ptr, grants>>]_vars

\* Every call returns, whatever mmap answers: each path out of the critical
\* section releases the mutex.
CallsReturn ==
  \A t \in Threads : pc[t] # "idle" ~> pc[t] = "idle"

=============================================================================
