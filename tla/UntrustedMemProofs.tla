------------------------- MODULE UntrustedMemProofs -------------------------
(***************************************************************************)
(* Proofs about alloc_untrusted_mem for any number of threads, any page,   *)
(* word and address-space size and any requests.                           *)
(***************************************************************************)
EXTENDS UntrustedMem, TLAPS

\* What % gives for a positive divisor.
LEMMA ModRange ==
  ASSUME NEW n \in Nat, NEW d \in Nat \ {0}
  PROVE  n % d \in 0 .. d - 1 /\ n % d <= n
  OBVIOUS

\* A sum that stays below WordSize is not changed by the machine word.
LEMMA WordIdentity ==
  ASSUME NEW n \in Nat, n < WordSize
  PROVE  Word(n) = n
  BY UntrustedMemAssumption DEF Word

\* The kernel maps at least the length asked for.
LEMMA PagesEnough ==
  ASSUME NEW n \in Nat
  PROVE  Pages(n) \in Nat /\ n <= Pages(n)
  <1>1. n % PageSize \in 0 .. PageSize - 1 /\ n % PageSize <= n /\ PageSize \in Nat
    BY UntrustedMemAssumption, ModRange
  <1> QED BY <1>1 DEF Pages

\* A number with an odd number of whole units holds at least one unit.
LEMMA DivPositive ==
  ASSUME NEW n \in Nat, NEW d \in Nat \ {0}, (n \div d) % 2 = 1
  PROVE  d <= n
  OBVIOUS

\* The bit the code clears was set, so the result is a size again.
LEMMA RoundSizeType ==
  ASSUME NEW n \in Nat
  PROVE  RoundSize(n) \in Nat
  <1> DEFINE sum == Word(n + PageSize)
  <1>1. sum \in Nat
    BY UntrustedMemAssumption, ModRange DEF Word
  <1>2. CASE (sum \div PageSize) % 2 = 1
    BY <1>1, <1>2, DivPositive, UntrustedMemAssumption DEF RoundSize
  <1>3. CASE (sum \div PageSize) % 2 # 1
    BY <1>1, <1>3 DEF RoundSize
  <1> QED BY <1>2, <1>3

\* Without wrapping, no byte of the request is lost by the rounding, and the
\* length given to mmap is the reserved part plus the rounded size.
LEMMA RoundSizeSound ==
  ASSUME NEW n \in Nat, n + PageSize + DefaultSize < WordSize
  PROVE  /\ n <= RoundSize(n)
         /\ Word(DefaultSize + RoundSize(n)) = DefaultSize + RoundSize(n)
  <1>1. /\ PageSize \in Nat /\ DefaultSize \in Nat /\ WordSize \in Nat
        /\ Word(n + PageSize) = n + PageSize
    BY UntrustedMemAssumption, WordIdentity
  <1>2. RoundSize(n) \in {n, n + PageSize}
    BY <1>1 DEF RoundSize
  <1>3. DefaultSize + RoundSize(n) \in Nat /\ DefaultSize + RoundSize(n) < WordSize
    BY <1>1, <1>2
  <1> QED BY <1>1, <1>2, <1>3, WordIdentity

-----------------------------------------------------------------------------
(***************************************************************************)
(* The inductive invariant.  The disjointness of the grants rests on their *)
(* lying below current_untrusted_ptr, which only grows; that in turn needs *)
(* the mapping the code compared the pointer with (CheckedMapping), which  *)
(* is still the one of this call because the mutex is held (MutexHeld).    *)
(***************************************************************************)
MutexHeld ==
  \A t \in Threads : pc[t] \in {"mmap", "check", "fail", "unlock"} <=> mutex = t

RoundedSize ==
  \A t \in Threads : size[t] \in Nat /\ (pc[t] # "idle" => size[t] = RoundSize(requested[t]))

CheckedMapping ==
  \A t \in Threads :
    pc[t] = "check" =>
      \E m \in maps : /\ m.owner = t
                      /\ m.start = ptr[t]
                      /\ ptr[t] + MapLength(t) <= m.end
                      /\ m.end <= AddrLimit
                      /\ m.start % PageSize = 0

BelowCurrent ==
  \A g \in grants : /\ DefaultSize <= g.ptr
                    /\ Sound(g) => g.ptr + g.size <= current_untrusted_ptr

IInv ==
  /\ TypeOK /\ MutexHeld /\ RoundedSize /\ CheckedMapping /\ BelowCurrent
  /\ GrantsDisjoint /\ GrantsMapped /\ MemsetInOwnMapping

\* The invariant holds before the first call.
LEMMA InitIInv == Init => IInv
  BY UntrustedMemAssumption
     DEF Init, IInv, TypeOK, MutexHeld, RoundedSize, CheckedMapping, BelowCurrent,
         GrantsDisjoint, GrantsMapped, MemsetInOwnMapping

\* A call starts: nothing that is granted or mapped changes.
LEMMA CallIInv ==
  ASSUME IInv, NEW t \in Threads, NEW n \in Sizes, Call(t, n)
  PROVE  IInv'
  <1> USE DEF IInv, Call, Goto
  <1>0. n \in Nat /\ RoundSize(n) \in Nat
    BY UntrustedMemAssumption, RoundSizeType
  <1>1. TypeOK'
    BY <1>0 DEF TypeOK
  <1>2. MutexHeld'
    BY DEF MutexHeld, TypeOK
  <1>3. RoundedSize'
    BY <1>0 DEF RoundedSize, TypeOK
  <1>4. CheckedMapping' /\ MemsetInOwnMapping'
    BY DEF CheckedMapping, MemsetInOwnMapping, MapLength, TypeOK
  <1>5. (BelowCurrent /\ GrantsDisjoint /\ GrantsMapped)'
    BY DEF BelowCurrent, GrantsDisjoint, GrantsMapped, Sound
  <1> QED BY <1>1, <1>2, <1>3, <1>4, <1>5

\* The steps that change neither a mapping nor a grant: the lock, its
\* release, the failures and the memset.
Quiet(t) ==
  \/ Lock(t) \/ LockFails(t) \/ MmapFailed(t) \/ WrongAddress(t)
  \/ UnlockFail(t) \/ Unlock(t) \/ Memset(t)

\* Steps that hand nothing out and map nothing keep the invariant.
LEMMA QuietIInv ==
  ASSUME IInv, NEW t \in Threads, Quiet(t)
  PROVE  IInv'
  <1> USE DEF IInv, Quiet, Lock, LockFails, MmapFailed, WrongAddress, UnlockFail,
              Unlock, Memset, Goto
  <1>1. TypeOK'
    BY DEF TypeOK
  <1>2. MutexHeld'
    BY UntrustedMemAssumption DEF MutexHeld, TypeOK
  <1>3. RoundedSize'
    BY DEF RoundedSize, TypeOK
  <1>4. CheckedMapping' /\ MemsetInOwnMapping'
    BY DEF CheckedMapping, MemsetInOwnMapping, MapLength, TypeOK
  <1>5. (BelowCurrent /\ GrantsDisjoint /\ GrantsMapped)'
    BY DEF BelowCurrent, GrantsDisjoint, GrantsMapped, Sound
  <1> QED BY <1>1, <1>2, <1>3, <1>4, <1>5

\* A new mapping: the old ones are still there.
LEMMA MmapIInv ==
  ASSUME IInv, NEW t \in Threads, MmapAtHint(t) \/ MmapElsewhere(t)
  PROVE  IInv'
  <1> USE DEF IInv, Goto
  <1>1. PICK start \in Nat :
          /\ Usable(start, MapLength(t))
          /\ maps' = maps \cup {Mapping(t, start, MapLength(t))}
          /\ ptr' = [ptr EXCEPT ![t] = start]
    BY UntrustedMemAssumption DEF MmapAtHint, MmapElsewhere, TypeOK
  <1>2. /\ pc[t] = "mmap" /\ pc' = [pc EXCEPT ![t] = "check"]
        /\ UNCHANGED <<current_untrusted_ptr, mutex, requested, size, grants, calls>>
    BY DEF MmapAtHint, MmapElsewhere
  <1>3. MapLength(t) \in Nat /\ MapLength(t) <= Pages(MapLength(t)) /\ Pages(MapLength(t)) \in Nat
    <2>1. DefaultSize + size[t] \in Nat /\ WordSize \in Nat \ {0}
      BY UntrustedMemAssumption DEF TypeOK
    <2>2. MapLength(t) \in Nat
      BY <2>1, ModRange DEF MapLength, Word
    <2> QED BY <2>2, PagesEnough
  <1>4. TypeOK'
    BY <1>1, <1>2, <1>3 DEF TypeOK, Mapping
  <1>5. MutexHeld' /\ RoundedSize'
    BY <1>2 DEF MutexHeld, RoundedSize, TypeOK
  <1>6. CheckedMapping'
    <2> SUFFICES ASSUME NEW u \in Threads, pc'[u] = "check"
                 PROVE  \E m \in maps' : /\ m.owner = u
                                         /\ m.start = ptr'[u]
                                         /\ ptr'[u] + MapLength(u)' <= m.end
                                         /\ m.end <= AddrLimit
                                         /\ m.start % PageSize = 0
      BY DEF CheckedMapping
    <2>1. MapLength(u)' = MapLength(u)
      BY <1>2 DEF MapLength
    <2>2. CASE u = t
      <3> DEFINE m == Mapping(t, start, MapLength(t))
      <3>1. m \in maps' /\ ptr'[u] = start
        BY <1>1, <2>2 DEF TypeOK
      <3>2. m.owner = u /\ m.start = start /\ m.end = start + Pages(MapLength(t))
        BY <2>2 DEF Mapping
      <3>3. start % PageSize = 0 /\ start + Pages(MapLength(t)) <= AddrLimit
        BY <1>1 DEF Usable
      <3> QED BY <3>1, <3>2, <3>3, <2>1, <2>2, <1>3
    <2>3. CASE u # t
      BY <1>1, <1>2, <2>1, <2>3 DEF CheckedMapping, TypeOK
    <2> QED BY <2>2, <2>3
  <1>7. MemsetInOwnMapping'
    BY <1>1, <1>2 DEF MemsetInOwnMapping, MapLength, TypeOK
  <1>8. (BelowCurrent /\ GrantsDisjoint /\ GrantsMapped)'
    BY <1>1, <1>2 DEF BelowCurrent, GrantsDisjoint, GrantsMapped, Sound
  <1> QED BY <1>4, <1>5, <1>6, <1>7, <1>8

\* Another mapping of the process changes nothing the threads rely on.
LEMMA OtherMmapIInv ==
  ASSUME IInv, NEW a \in OtherMaps, OtherMmap(a)
  PROVE  IInv'
  <1> USE DEF IInv, OtherMmap
  <1>1. a \in Nat /\ Pages(PageSize) \in Nat
    BY UntrustedMemAssumption, PagesEnough
  <1>2. TypeOK'
    BY <1>1 DEF TypeOK, Mapping
  <1>3. (MutexHeld /\ RoundedSize /\ BelowCurrent /\ GrantsDisjoint)'
    BY DEF MutexHeld, RoundedSize, BelowCurrent, GrantsDisjoint, Sound
  <1>4. CheckedMapping' /\ GrantsMapped' /\ MemsetInOwnMapping'
    BY DEF CheckedMapping, GrantsMapped, MemsetInOwnMapping, MapLength, Sound
  <1> QED BY <1>2, <1>3, <1>4

\* The grant: it begins where all earlier ones have ended.
LEMMA GrantIInv ==
  ASSUME IInv, NEW t \in Threads, Grant(t)
  PROVE  IInv'
  <1> USE DEF IInv, Grant, HandOut, NextPtr, Goto
  <1> DEFINE g == [owner |-> t, call |-> calls[t], requested |-> requested[t],
                   ptr |-> current_untrusted_ptr + DefaultSize, size |-> size[t]]
             cur == current_untrusted_ptr
  <1>0. /\ DefaultSize \in Nat /\ AddrLimit \in Nat /\ WordSize \in Nat \ {0}
        /\ AddrLimit < WordSize /\ PageSize \in Nat
        /\ cur \in Nat /\ size[t] \in Nat /\ requested[t] \in Nat /\ calls[t] \in Nat
    BY UntrustedMemAssumption DEF TypeOK
  <1>1. PICK m \in maps : /\ m.owner = t /\ m.start = cur
                          /\ cur + MapLength(t) <= m.end /\ m.end <= AddrLimit
    BY DEF CheckedMapping
  <1>2. MapLength(t) \in Nat /\ m.end \in Nat
    BY <1>0, ModRange DEF MapLength, Word, TypeOK
  <1>3. cur' = cur + MapLength(t) /\ cur' <= m.end
    BY <1>0, <1>1, <1>2, WordIdentity
  <1>4. Sound(g) => size[t] >= requested[t] /\ MapLength(t) = DefaultSize + size[t]
    BY <1>0, RoundSizeSound DEF Sound, RoundedSize, MapLength
  <1>5. TypeOK'
    BY <1>0, <1>1, <1>2, <1>3 DEF TypeOK, Ranges
  <1>6. MutexHeld' /\ RoundedSize'
    BY DEF MutexHeld, RoundedSize, TypeOK
  <1>7. CheckedMapping'
    BY DEF CheckedMapping, MapLength, TypeOK
  <1>8. MemsetInOwnMapping'
    BY <1>1 DEF MemsetInOwnMapping, MapLength, TypeOK
  <1>9. grants' = grants \cup {g}
    OBVIOUS
  <1>10. BelowCurrent'
    <2>1. ASSUME NEW h \in grants
          PROVE  DefaultSize <= h.ptr /\ (Sound(h) => h.ptr + h.size <= cur')
      <3>1. h.ptr \in Nat /\ h.size \in Nat
        BY DEF TypeOK, Ranges
      <3> QED BY <1>0, <1>2, <1>3, <3>1 DEF BelowCurrent
    <2>2. DefaultSize <= g.ptr /\ (Sound(g) => g.ptr + g.size <= cur')
      BY <1>0, <1>3, <1>4
    <2> QED BY <1>9, <2>1, <2>2 DEF BelowCurrent, Sound
  <1>11. GrantsDisjoint'
    <2>1. ASSUME NEW h \in grants, Sound(h)
          PROVE  h.ptr + h.size <= g.ptr - DefaultSize
      <3>1. h.ptr \in Nat /\ h.size \in Nat
        BY DEF TypeOK, Ranges
      <3> QED BY <1>0, <2>1, <3>1 DEF BelowCurrent
    <2> QED BY <1>9, <2>1 DEF GrantsDisjoint, Sound
  <1>12. GrantsMapped'
    <2>1. Sound(g) => /\ g.size >= g.requested
                      /\ m.owner = g.owner /\ m.start = g.ptr - DefaultSize
                      /\ g.ptr + g.size <= m.end
      BY <1>0, <1>1, <1>2, <1>4
    <2> QED BY <1>9, <2>1 DEF GrantsMapped, Sound
  <1> QED BY <1>5, <1>6, <1>7, <1>8, <1>10, <1>11, <1>12

\* No step of any thread leaves the invariant.
LEMMA NextIInv == IInv /\ [Next]_vars => IInv'
  <1> SUFFICES ASSUME IInv, [Next]_vars
               PROVE  IInv'
    OBVIOUS
  <1>1. ASSUME NEW t \in Threads, NEW n \in Sizes, Call(t, n)
        PROVE  IInv'
    BY <1>1, CallIInv
  <1>2. ASSUME NEW t \in Threads, Lock(t) \/ LockFails(t) \/ InMutex(t) \/ Memset(t)
        PROVE  IInv'
    BY <1>2, QuietIInv, MmapIInv, GrantIInv DEF InMutex, Quiet
  <1>3. ASSUME NEW a \in OtherMaps, OtherMmap(a)
        PROVE  IInv'
    BY <1>3, OtherMmapIInv
  <1>4. CASE UNCHANGED vars
    BY <1>4 DEF vars, IInv, TypeOK, MutexHeld, RoundedSize, CheckedMapping, BelowCurrent,
                GrantsDisjoint, GrantsMapped, MemsetInOwnMapping, MapLength, Sound
  <1> QED BY <1>1, <1>2, <1>3, <1>4 DEF Next

\* The state of alloc_untrusted_mem keeps its types.
THEOREM TypeCorrect == Spec => []TypeOK
  BY InitIInv, NextIInv, PTL DEF Spec, IInv

\* For any number of threads and any requests: the ranges handed out by
\* alloc_untrusted_mem never overlap.
THEOREM Disjointness == Spec => []GrantsDisjoint
  BY InitIInv, NextIInv, PTL DEF Spec, IInv

\* Each range lies in a mapping made by its caller and holds the request.
THEOREM Backing == Spec => []GrantsMapped
  BY InitIInv, NextIInv, PTL DEF Spec, IInv

\* The memset after the unlock stays in the caller's own mapping.
THEOREM MemsetConfined == Spec => []MemsetInOwnMapping
  BY InitIInv, NextIInv, PTL DEF Spec, IInv

\* An unaligned current_untrusted_ptr never moves again.
THEOREM UnalignedStuck == Spec => UnalignedPointerIsStuck
  <1> DEFINE Stuck == current_untrusted_ptr % PageSize # 0 =>
                        UNCHANGED <<current_untrusted_ptr, grants>>
  <1>1. IInv /\ [Next]_vars => [Stuck]_vars
    <2> SUFFICES ASSUME IInv, Next
                 PROVE  Stuck
      BY DEF vars
    <2>1. ASSUME NEW t \in Threads, Grant(t)
          PROVE  Stuck
      BY <2>1 DEF IInv, CheckedMapping, Grant, HandOut, Goto
    <2>2. ASSUME NEW t \in Threads, NEW n \in Sizes, Call(t, n)
          PROVE  Stuck
      BY <2>2 DEF Call
    <2>3. ASSUME NEW t \in Threads, Quiet(t) \/ MmapAtHint(t) \/ MmapElsewhere(t)
          PROVE  Stuck
      BY <2>3 DEF Quiet, Lock, LockFails, MmapFailed, WrongAddress, UnlockFail, Unlock,
                  Memset, MmapAtHint, MmapElsewhere
    <2>4. ASSUME NEW a \in OtherMaps, OtherMmap(a)
          PROVE  Stuck
      BY <2>4 DEF OtherMmap
    <2> QED BY <2>1, <2>2, <2>3, <2>4 DEF Next, InMutex, Quiet
  <1> QED BY <1>1, InitIInv, NextIInv, PTL DEF Spec, UnalignedPointerIsStuck

=============================================================================
