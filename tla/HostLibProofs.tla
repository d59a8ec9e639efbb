--------------------------- MODULE HostLibProofs ---------------------------
(***************************************************************************)
(* Proofs about the host library for any number of threads, descriptors,   *)
(* enclave numbers and calls.                                              *)
(***************************************************************************)
EXTENDS HostLib, WellFoundedInduction, TLAPS

\* The kernel's rule for the next descriptor, and main's for the next thread,
\* name an element of the set they choose from.
LEMMA MinIn ==
  ASSUME NEW S, S \subseteq Nat, S # {}
  PROVE  Min(S) \in S
  <1> DEFINE R == {ss \in Nat \X Nat : ss[1] < ss[2]}
  <1>1. IsWellFoundedOn(R, Nat)
    BY NatLessThanWellFounded, Zenon DEF OpToRel
  <1>2. PICK x \in S : \A y \in S : ~ (<<y, x>> \in R)
    <2> HIDE DEF R
    <2> QED BY <1>1, WFMin
  <1>3. ASSUME NEW y \in S PROVE x =< y
    <2>1. x \in Nat /\ y \in Nat /\ <<y, x>> \notin R
      BY <1>2
    <2>2. ~ (y < x)
      <3>1. <<y, x>> \in Nat \X Nat /\ <<y, x>>[1] = y /\ <<y, x>>[2] = x
        BY <2>1
      <3> QED BY <2>1, <3>1
    <2> QED BY <2>1, <2>2
  <1> QED BY <1>3 DEF Min

-----------------------------------------------------------------------------
(* The inductive invariant. *)

Pcs == {"none", "init", "create", "failed", "use", "ended", "exited", "finalized"}

\* A thread with its struct PLenclave.
ThreadStates ==
  [pc : Pcs, fd : Fds \cup {NoFd}, eid : Eids \cup {NoEid},
   param_eid : Eids \cup {NoEid}, calls : Nat]

TypeOK ==
  /\ files \in [Fds -> Threads \cup {Free, ElfFile}]
  /\ mapped \in BOOLEAN
  /\ elf \in [fd : Fds \cup {NoFd}, size : {0, 1}, ptr : Ptrs]
  /\ main \in {"start", "opened", "joining", "out", "end"}
  /\ thr \in [Threads -> ThreadStates]
  /\ enclaves \in [Eids -> Threads \cup {None}]
  /\ call \in [by : Threads \cup {None}, on : Threads \cup {None}]

\* A descriptor belongs to the thread that opened it until that thread gives it
\* up, in PLenclave_finalize or by leaving it behind.
OwnFd ==
  \A t \in Threads :
    thr[t].pc \in {"create", "failed", "use", "ended"} /\ thr[t].fd # NoFd =>
      files[thr[t].fd] = t

\* A thread that may call has an open device, and both numbers it keeps are those
\* of an enclave the driver knows as this thread's.
OwnEnclave ==
  \A t \in Threads :
    thr[t].pc = "use" =>
      /\ thr[t].fd # NoFd
      /\ thr[t].eid = thr[t].param_eid /\ thr[t].eid \in Eids
      /\ enclaves[thr[t].eid] = t

\* From elf_args_init to elf_args_destroy the file is open and mapped as elf says.
ElfKept ==
  /\ main = "start" => elf.ptr # "file"
  /\ main \in {"opened", "joining", "out"} =>
       /\ elf.fd # NoFd => files[elf.fd] = ElfFile
       /\ elf.ptr = "file" => elf.fd # NoFd /\ mapped

\* Threads are under way only while main starts or joins them.
Phases ==
  /\ main = "start" => \A t \in Threads : thr[t].pc = "none"
  /\ main = "opened" =>
       /\ \E t \in Threads : thr[t].pc = "none"
       /\ ~ elf_valid => \A t \in Threads : thr[t].pc = "none"
  /\ main \in {"out", "end"} =>
       \A t \in Threads : thr[t].pc \in {"none", "exited", "finalized"}

IInv == TypeOK /\ OwnFd /\ OwnEnclave /\ ElfKept /\ Phases /\ CallsReachOwn

-----------------------------------------------------------------------------

LEMMA NextFdFree ==
  ASSUME FreeFds # {}
  PROVE  NextFd \in Fds /\ files[NextFd] = Free /\ NextFd \in Nat
  <1>1. FreeFds \subseteq Nat
    BY HostAssumption DEF FreeFds
  <1>2. NextFd \in FreeFds
    BY <1>1, MinIn DEF NextFd
  <1> QED BY <1>1, <1>2 DEF FreeFds

\* The numbers that stand for no descriptor, no enclave, no thread are none.
LEMMA Distinct ==
  /\ NoFd \notin Fds /\ NoEid \notin Eids
  /\ None \notin Threads /\ Free \notin Threads /\ ElfFile \notin Threads
  /\ Free # ElfFile
  BY HostAssumption DEF NoFd, NoEid, None, Free, ElfFile

LEMMA InitInv == Init => IInv
  <1> SUFFICES ASSUME Init PROVE IInv
    OBVIOUS
  <1>1. TypeOK
    BY DEF Init, TypeOK, ThreadStates, Ptrs, Pcs
  <1>2. OwnFd /\ OwnEnclave /\ ElfKept
    BY DEF Init, OwnFd, OwnEnclave, ElfKept
  <1>3. Phases
    BY DEF Init, Phases
  <1>4. CallsReachOwn
    BY DEF Init, CallsReachOwn
  <1> QED BY <1>1, <1>2, <1>3, <1>4 DEF IInv

-----------------------------------------------------------------------------
(* The steps of main. *)

\* Opening a file takes a descriptor that nobody has.
LEMMA InitKeeps == IInv /\ elf_args_init => IInv'
  <1> SUFFICES ASSUME IInv, elf_args_init PROVE IInv'
    OBVIOUS
  <1> USE Distinct DEF IInv, ThreadStates
  <1>1. FreeFds # {} => NextFd \in Fds /\ files[NextFd] = Free
    BY NextFdFree
  <1>2. TypeOK'
    <2>1. files' \in [Fds -> Threads \cup {Free, ElfFile}] /\ mapped' \in BOOLEAN
      BY <1>1 DEF elf_args_init, TypeOK
    <2>2. elf' \in [fd : Fds \cup {NoFd}, size : {0, 1}, ptr : Ptrs]
      <3> DEFINE E == [fd : Fds \cup {NoFd}, size : {0, 1}, ptr : Ptrs]
      <3>1. elf \in E
        BY DEF TypeOK
      <3>2. CASE elf' = [elf EXCEPT !.fd = NoFd]
        BY <3>1, <3>2
      <3>3. CASE FreeFds # {} /\ elf' \in {[elf EXCEPT !.fd = NextFd],
                                          [elf EXCEPT !.fd = NextFd, !.size = 0]}
        BY <1>1, <3>1, <3>3
      <3>4. CASE FreeFds # {} /\ \E p \in {"MAP_FAILED", "file"} :
                                   elf' = [fd |-> NextFd, size |-> 1, ptr |-> p]
        BY <1>1, <3>4 DEF Ptrs
      <3> QED BY <3>2, <3>3, <3>4 DEF elf_args_init
    <2> QED BY <2>1, <2>2 DEF elf_args_init, TypeOK
  <1>3. OwnFd'
    BY DEF elf_args_init, OwnFd, Phases
  <1>4. OwnEnclave'
    BY DEF elf_args_init, OwnEnclave
  <1>5. ElfKept'
    <2>1. CASE elf' = [elf EXCEPT !.fd = NoFd]
      BY <2>1 DEF elf_args_init, ElfKept, TypeOK
    <2>2. CASE elf' # [elf EXCEPT !.fd = NoFd]
      <3>1. FreeFds # {} /\ files' = [files EXCEPT ![NextFd] = ElfFile]
        BY <2>2 DEF elf_args_init
      <3>2. elf'.fd = NextFd /\ (elf'.ptr = "file" => mapped')
        <4>1. DOMAIN elf = {"fd", "size", "ptr"} /\ elf.ptr # "file"
          BY DEF elf_args_init, ElfKept, TypeOK
        <4>2. CASE elf' = [elf EXCEPT !.fd = NextFd]
          BY <4>1, <4>2
        <4>3. CASE elf' = [elf EXCEPT !.fd = NextFd, !.size = 0]
          BY <4>1, <4>3
        <4>4. CASE elf' = [fd |-> NextFd, size |-> 1, ptr |-> "MAP_FAILED"]
          BY <4>4
        <4>5. CASE elf' = [fd |-> NextFd, size |-> 1, ptr |-> "file"] /\ mapped' = TRUE
          BY <4>5
        <4> QED BY <2>2, <4>2, <4>3, <4>4, <4>5 DEF elf_args_init
      <3>3. files'[NextFd] = ElfFile
        BY <1>1, <3>1 DEF TypeOK
      <3>4. NextFd # NoFd /\ main' = "opened"
        BY <1>1, <3>1 DEF elf_args_init
      <3> QED BY <3>2, <3>3, <3>4 DEF ElfKept
    <2> QED BY <2>1, <2>2
  <1>6. Phases'
    BY HostAssumption DEF elf_args_init, Phases
  <1>7. CallsReachOwn'
    BY DEF elf_args_init, CallsReachOwn
  <1> QED BY <1>2, <1>3, <1>4, <1>5, <1>6, <1>7

\* The thread started next was not started before.
LEMMA SpawnKeeps == IInv /\ Spawn => IInv'
  <1> SUFFICES ASSUME IInv, Spawn PROVE IInv'
    OBVIOUS
  <1> USE Distinct DEF IInv, ThreadStates
  <1> DEFINE waiting == {t \in Threads : thr[t].pc = "none"}
             next == Min(waiting)
  <1>1. next \in Threads /\ thr[next].pc = "none"
    <2>1. waiting # {} /\ waiting \subseteq Nat
      BY HostAssumption DEF Phases, Spawn
    <2>2. next \in waiting
      BY <2>1, MinIn
    <2> QED BY <2>2
  <1>2. CASE ~ elf_valid
    BY <1>2 DEF Spawn, TypeOK, OwnFd, OwnEnclave, ElfKept, Phases, CallsReachOwn
  <1>3. CASE elf_valid
    <2>1. /\ thr' = [thr EXCEPT ![next].pc = "init"]
          /\ main' = IF waiting = {next} THEN "joining" ELSE "opened"
          /\ UNCHANGED <<files, mapped, elf, enclaves, call>>
      BY <1>3 DEF Spawn
    <2>2. waiting # {next} => \E t \in Threads : t # next /\ thr[t].pc = "none"
      BY <1>1
    <2> HIDE DEF next, waiting
    <2>3. /\ thr'[next].pc = "init"
          /\ \A t \in Threads : t # next => thr'[t] = thr[t]
      BY <1>1, <2>1 DEF TypeOK
    <2>4. TypeOK'
      <3>1. main' \in {"joining", "opened"}
        BY <2>1
      <3>2. thr' \in [Threads -> ThreadStates]
        BY <1>1, <2>1 DEF TypeOK, Pcs
      <3> QED BY <2>1, <3>1, <3>2 DEF TypeOK
    <2>5. OwnFd' /\ OwnEnclave'
      BY <2>1, <2>3 DEF OwnFd, OwnEnclave
    <2>6. ElfKept'
      BY <2>1 DEF Spawn, ElfKept
    <2>7. elf_valid'
      BY <1>3, <2>1 DEF elf_valid
    <2>8. Phases'
      BY <2>1, <2>2, <2>3, <2>7 DEF Phases
    <2> QED BY <2>1, <2>4, <2>5, <2>6, <2>8 DEF CallsReachOwn
  <1> QED BY <1>2, <1>3

LEMMA JoinKeeps == IInv /\ Join => IInv'
  BY DEF IInv, Join, AllEnded, TypeOK, OwnFd, OwnEnclave, ElfKept, Phases, CallsReachOwn

\* main has joined every thread, so nobody's descriptor is closed.
LEMMA DestroyKeeps == IInv /\ elf_args_destroy => IInv'
  <1> SUFFICES ASSUME IInv, elf_args_destroy PROVE IInv'
    OBVIOUS
  <1> USE DEF IInv, elf_args_destroy
  <1>1. TypeOK'
    BY DEF TypeOK, Closed
  <1>2. OwnFd' /\ OwnEnclave'
    BY DEF OwnFd, OwnEnclave, Phases
  <1>3. ElfKept' /\ Phases' /\ CallsReachOwn'
    BY DEF ElfKept, Phases, CallsReachOwn
  <1> QED BY <1>1, <1>2, <1>3

-----------------------------------------------------------------------------
(* The steps of a thread. *)

\* While a thread is under way, main is starting threads or joining them.
LEMMA UnderWay ==
  ASSUME IInv, NEW t \in Threads, thr[t].pc \notin {"none", "exited", "finalized"}
  PROVE  main \in {"opened", "joining"} /\ (main = "opened" => elf_valid)
  BY DEF IInv, Phases, TypeOK, ThreadStates

\* What a step of one thread must respect to keep Phases.
LEMMA PhasesKept ==
  ASSUME IInv, NEW t \in Threads, thr[t].pc \notin {"none", "exited", "finalized"},
         UNCHANGED <<elf, main>>, \A s \in Threads : s # t => thr'[s] = thr[s]
  PROVE  Phases'
  <1>1. main \in {"opened", "joining"} /\ (main = "opened" => elf_valid)
    BY UnderWay
  <1>2. (main = "opened" => elf_valid') /\ main' = main
    BY <1>1 DEF elf_valid
  <1>3. main = "opened" => \E s \in Threads : s # t /\ thr[s].pc = "none"
    BY DEF IInv, Phases
  <1> QED BY <1>1, <1>2, <1>3 DEF Phases

\* The descriptor is free before open takes it: it is nobody's, nor main's.
LEMMA EnclaveInitKeeps == \A t \in Threads : IInv /\ PLenclave_init(t) => IInv'
  <1> SUFFICES ASSUME NEW t \in Threads, IInv, PLenclave_init(t) PROVE IInv'
    OBVIOUS
  <1> USE Distinct DEF IInv, ThreadStates
  <1>1. FreeFds # {} => NextFd \in Fds /\ files[NextFd] = Free
    BY NextFdFree
  <1>2. /\ thr[t].pc = "init" /\ UNCHANGED <<mapped, elf, main, enclaves, call>>
        /\ \A s \in Threads : s # t => thr'[s] = thr[s]
        /\ thr'[t].pc = "create"
    BY DEF PLenclave_init, TypeOK
  <1>3. \/ thr'[t].fd = NoFd /\ files' = files
        \/ FreeFds # {} /\ thr'[t].fd = NextFd /\ files' = [files EXCEPT ![NextFd] = t]
    BY DEF PLenclave_init, TypeOK
  <1>4. TypeOK'
    BY <1>1 DEF PLenclave_init, TypeOK, Pcs
  <1>5. \A f \in Fds : files[f] # Free => files'[f] = files[f]
    BY <1>1, <1>3 DEF TypeOK
  <1>6. OwnFd'
    <2> SUFFICES ASSUME NEW s \in Threads,
                        thr'[s].pc \in {"create", "failed", "use", "ended"},
                        thr'[s].fd # NoFd
                 PROVE  files'[thr'[s].fd] = s
      BY DEF OwnFd
    <2>1. CASE s = t
      BY <2>1, <1>1, <1>3 DEF TypeOK
    <2>2. CASE s # t
      <3>1. files[thr[s].fd] = s /\ thr[s].fd \in Fds /\ thr'[s].fd = thr[s].fd
        BY <2>2, <1>2 DEF OwnFd, TypeOK
      <3> QED BY <3>1, <1>5
    <2> QED BY <2>1, <2>2
  <1>7. OwnEnclave'
    BY <1>2 DEF OwnEnclave
  <1>8. ElfKept'
    <2>1. main \in {"opened", "joining"}
      BY <1>2, UnderWay
    <2>2. elf.fd # NoFd => files'[elf.fd] = ElfFile
      BY <2>1, <1>5 DEF ElfKept, TypeOK
    <2> QED BY <1>2, <2>1, <2>2 DEF ElfKept
  <1>9. Phases' /\ CallsReachOwn'
    BY <1>2, PhasesKept DEF CallsReachOwn
  <1> QED BY <1>4, <1>6, <1>7, <1>8, <1>9

\* The driver gives out a number that no enclave has.
LEMMA CreateKeeps == \A t \in Threads : IInv /\ PLenclave_create(t) => IInv'
  <1> SUFFICES ASSUME NEW t \in Threads, IInv, PLenclave_create(t) PROVE IInv'
    OBVIOUS
  <1> USE Distinct DEF IInv, ThreadStates
  <1>1. thr[t].pc = "create" /\ UNCHANGED <<files, mapped, elf, main, call>>
    BY DEF PLenclave_create
  <1>2. CASE thr' = [thr EXCEPT ![t].pc = "failed"] /\ enclaves' = enclaves
    <2>1. /\ \A s \in Threads : s # t => thr'[s] = thr[s]
          /\ thr'[t].pc = "failed" /\ thr'[t].fd = thr[t].fd
      BY <1>2 DEF TypeOK
    <2>2. TypeOK'
      BY <1>1, <1>2 DEF TypeOK, Pcs
    <2>3. OwnFd' /\ OwnEnclave'
      BY <1>1, <1>2, <2>1 DEF OwnFd, OwnEnclave
    <2>4. Phases'
      BY <1>1, <2>1, PhasesKept
    <2> QED BY <1>1, <2>2, <2>3, <2>4 DEF ElfKept, CallsReachOwn
  <1>3. CASE /\ OnDevice(t)
             /\ \E e \in Eids : /\ enclaves[e] = None
                                /\ enclaves' = [enclaves EXCEPT ![e] = t]
                                /\ thr' = Created(t, e)
    <2>1. PICK e \in Eids : /\ enclaves[e] = None
                            /\ enclaves' = [enclaves EXCEPT ![e] = t]
                            /\ thr' = Created(t, e)
      BY <1>3
    <2>2. /\ \A s \in Threads : s # t => thr'[s] = thr[s]
          /\ thr'[t].pc = "use" /\ thr'[t].fd = thr[t].fd /\ thr[t].fd # NoFd
          /\ thr'[t].eid = e /\ thr'[t].param_eid = e
      BY <1>3, <2>1 DEF TypeOK, Created, OnDevice
    <2>3. TypeOK'
      <3>1. enclaves' \in [Eids -> Threads \cup {None}]
        BY <2>1 DEF TypeOK
      <3>2. thr' \in [Threads -> ThreadStates]
        <4> DEFINE new == [thr[t] EXCEPT !.pc = "use", !.param_eid = e, !.eid = e]
        <4>1. thr \in [Threads -> ThreadStates]
          BY DEF TypeOK
        <4>2. new \in ThreadStates
          BY <4>1 DEF Pcs
        <4>3. thr' = [thr EXCEPT ![t] = new]
          BY <2>1, <4>1 DEF Created
        <4> HIDE DEF new, ThreadStates
        <4> QED BY <4>1, <4>2, <4>3
      <3> QED BY <1>1, <3>1, <3>2 DEF TypeOK
    <2>4. OwnFd'
      BY <1>1, <2>2 DEF OwnFd
    <2>5. OwnEnclave'
      <3>1. enclaves'[e] = t /\ \A d \in Eids : enclaves[d] # None => enclaves'[d] = enclaves[d]
        BY <2>1 DEF TypeOK
      <3>2. ASSUME NEW s \in Threads, s # t, thr'[s].pc = "use"
            PROVE  /\ thr'[s].fd # NoFd /\ thr'[s].eid = thr'[s].param_eid
                   /\ thr'[s].eid \in Eids /\ enclaves'[thr'[s].eid] = s
        BY <2>2, <3>1, <3>2 DEF OwnEnclave
      <3> QED BY <2>2, <3>1, <3>2 DEF OwnEnclave
    <2>6. Phases'
      BY <1>1, <2>2, PhasesKept
    <2> QED BY <1>1, <2>3, <2>4, <2>5, <2>6 DEF ElfKept, CallsReachOwn
  <1> QED BY <1>2, <1>3 DEF PLenclave_create

\* The number a thread passes is that of its own enclave, and only that enclave
\* is forgotten when the call ends it.
LEMMA CallKeeps == \A t \in Threads, op \in Ops : IInv /\ PLenclave_call(t, op) => IInv'
  <1> SUFFICES ASSUME NEW t \in Threads, NEW op \in Ops, IInv, PLenclave_call(t, op)
               PROVE  IInv'
    OBVIOUS
  <1> USE Distinct DEF IInv, ThreadStates
  <1> DEFINE e == CalledEid(t, op)
  <1>1. thr[t].pc = "use" /\ UNCHANGED <<files, mapped, elf, main>>
    BY DEF PLenclave_call
  <1>2. e = thr[t].eid /\ e \in Eids /\ enclaves[e] = t /\ OnDevice(t)
    BY <1>1 DEF OwnEnclave, OwnFd, CalledEid, OnDevice, TypeOK
  <1>3. call' = [by |-> t, on |-> t]
    BY <1>2 DEF PLenclave_call
  <1>4. CallsReachOwn' /\ call' \in [by : Threads \cup {None}, on : Threads \cup {None}]
    BY <1>3 DEF CallsReachOwn
  <1>5. \/ thr' = [thr EXCEPT ![t].calls = @ + 1] /\ enclaves' = enclaves
        \/ /\ thr' = [thr EXCEPT ![t].calls = @ + 1, ![t].pc = "ended"]
           /\ enclaves' = [enclaves EXCEPT ![e] = None]
    BY DEF PLenclave_call
  <1> HIDE DEF e
  <1>6. /\ \A s \in Threads : s # t => thr'[s] = thr[s]
        /\ thr'[t].fd = thr[t].fd /\ thr'[t].eid = thr[t].eid
        /\ thr'[t].param_eid = thr[t].param_eid
        /\ \/ thr'[t].pc = "use" /\ enclaves' = enclaves
           \/ thr'[t].pc = "ended" /\ enclaves' = [enclaves EXCEPT ![e] = None]
    BY <1>1, <1>5 DEF TypeOK
  <1>7. TypeOK'
    <2>1. thr' \in [Threads -> ThreadStates]
      <3>1. thr \in [Threads -> ThreadStates] /\ thr[t].calls + 1 \in Nat
        BY DEF TypeOK
      <3>2. CASE thr' = [thr EXCEPT ![t].calls = @ + 1]
        BY <3>1, <3>2
      <3>3. CASE thr' = [thr EXCEPT ![t].calls = @ + 1, ![t].pc = "ended"]
        BY <3>1, <3>3 DEF Pcs
      <3> QED BY <1>5, <3>2, <3>3
    <2>2. enclaves' \in [Eids -> Threads \cup {None}]
      BY <1>5 DEF TypeOK
    <2> QED BY <1>1, <1>4, <2>1, <2>2 DEF TypeOK
  <1>8. OwnFd'
    BY <1>1, <1>6 DEF OwnFd
  <1>9. OwnEnclave'
    <2>1. \A d \in Eids : d # e => enclaves'[d] = enclaves[d]
      BY <1>6 DEF TypeOK
    <2>2. ASSUME NEW s \in Threads, s # t, thr'[s].pc = "use"
          PROVE  /\ thr'[s].fd # NoFd /\ thr'[s].eid = thr'[s].param_eid
                 /\ thr'[s].eid \in Eids /\ enclaves'[thr'[s].eid] = s
      <3>1. thr'[s] = thr[s]
        BY <1>6, <2>2
      <3>2. /\ thr[s].fd # NoFd /\ thr[s].eid = thr[s].param_eid
            /\ thr[s].eid \in Eids /\ enclaves[thr[s].eid] = s
        BY <2>2, <3>1 DEF OwnEnclave
      <3>3. thr[s].eid # e
        BY <1>2, <2>2, <3>2
      <3> QED BY <2>1, <3>1, <3>2, <3>3
    <2>3. thr'[t].pc = "use" => enclaves' = enclaves
      BY <1>6
    <2> QED BY <1>1, <1>6, <2>2, <2>3 DEF OwnEnclave
  <1>10. Phases'
    BY <1>1, <1>6, PhasesKept
  <1> QED BY <1>1, <1>4, <1>7, <1>8, <1>9, <1>10 DEF ElfKept

\* A thread closes the descriptor it opened and no other's.
LEMMA FinalizeKeeps == \A t \in Threads : IInv /\ PLenclave_finalize(t) => IInv'
  <1> SUFFICES ASSUME NEW t \in Threads, IInv, PLenclave_finalize(t) PROVE IInv'
    OBVIOUS
  <1> USE Distinct DEF IInv, ThreadStates
  <1>1. /\ thr[t].pc \in {"failed", "use", "ended"}
        /\ thr' = [thr EXCEPT ![t].pc = "finalized"]
        /\ UNCHANGED <<mapped, elf, main, enclaves, call>>
    BY DEF PLenclave_finalize
  <1>2. /\ \A s \in Threads : s # t => thr'[s] = thr[s]
        /\ thr'[t].pc = "finalized"
    BY <1>1 DEF TypeOK
  <1>3. /\ files' \in [Fds -> Threads \cup {Free, ElfFile}]
        /\ \A f \in Fds : files[f] # t => files'[f] = files[f]
    <2>1. CASE thr[t].fd = NoFd
      BY <2>1 DEF PLenclave_finalize, NoFd, TypeOK
    <2>2. CASE thr[t].fd # NoFd
      <3>1. files' = Closed(thr[t].fd) /\ files[thr[t].fd] = t
        BY <1>1, <2>2, HostAssumption DEF PLenclave_finalize, TypeOK, OwnFd
      <3> QED BY <3>1 DEF Closed, TypeOK
    <2> QED BY <2>1, <2>2
  <1>4. TypeOK'
    BY <1>1, <1>3 DEF TypeOK, Pcs
  <1>5. OwnFd'
    <2> SUFFICES ASSUME NEW s \in Threads,
                        thr'[s].pc \in {"create", "failed", "use", "ended"},
                        thr'[s].fd # NoFd
                 PROVE  files'[thr'[s].fd] = s
      BY DEF OwnFd
    <2>1. s # t /\ thr'[s] = thr[s]
      BY <1>2
    <2>2. thr[s].fd \in Fds /\ files[thr[s].fd] = s
      BY <2>1 DEF OwnFd, TypeOK
    <2> QED BY <1>3, <2>1, <2>2
  <1>6. OwnEnclave'
    BY <1>1, <1>2 DEF OwnEnclave
  <1>7. ElfKept'
    <2>1. main \in {"opened", "joining"}
      BY <1>1, UnderWay
    <2>2. elf.fd # NoFd => files'[elf.fd] = ElfFile
      BY <2>1, <1>3 DEF ElfKept, TypeOK
    <2> QED BY <1>1, <2>1, <2>2 DEF ElfKept
  <1>8. Phases' /\ CallsReachOwn'
    BY <1>1, <1>2, PhasesKept DEF CallsReachOwn
  <1> QED BY <1>4, <1>5, <1>6, <1>7, <1>8

\* A thread that leaves keeps its descriptor open, and nobody gets it.
LEMMA ExitKeeps == \A t \in Threads : IInv /\ Exit(t) => IInv'
  <1> SUFFICES ASSUME NEW t \in Threads, IInv, Exit(t) PROVE IInv'
    OBVIOUS
  <1> USE DEF IInv, ThreadStates
  <1>1. /\ thr[t].pc \in {"failed", "use", "ended"}
        /\ thr' = [thr EXCEPT ![t].pc = "exited"]
        /\ UNCHANGED <<files, mapped, elf, main, enclaves, call>>
    BY DEF Exit
  <1>2. /\ \A s \in Threads : s # t => thr'[s] = thr[s]
        /\ thr'[t].pc = "exited"
    BY <1>1 DEF TypeOK
  <1>3. TypeOK'
    BY <1>1 DEF TypeOK, Pcs
  <1>4. OwnFd' /\ OwnEnclave'
    BY <1>1, <1>2 DEF OwnFd, OwnEnclave
  <1>5. Phases'
    BY <1>1, <1>2, PhasesKept
  <1> QED BY <1>1, <1>3, <1>4, <1>5 DEF ElfKept, CallsReachOwn

-----------------------------------------------------------------------------

LEMMA StepInv == IInv /\ [Next]_vars => IInv'
  <1> SUFFICES ASSUME IInv, [Next]_vars PROVE IInv'
    OBVIOUS
  <1>1. CASE Main
    BY <1>1, InitKeeps, SpawnKeeps, JoinKeeps, DestroyKeeps DEF Main
  <1>2. CASE \E t \in Threads : Thread(t)
    BY <1>2, EnclaveInitKeeps, CreateKeeps, CallKeeps, FinalizeKeeps, ExitKeeps DEF Thread
  <1>3. CASE UNCHANGED vars
    BY <1>3 DEF vars, IInv, TypeOK, OwnFd, OwnEnclave, ElfKept, Phases, elf_valid,
                CallsReachOwn
  <1> QED BY <1>1, <1>2, <1>3 DEF Next

LEMMA Invariance == Spec => []IInv
  BY InitInv, StepInv, PTL DEF Spec

\* Every variable of the host library keeps its type; in particular a descriptor
\* or number a thread stores is one the kernel or the driver gave out, or -1.
THEOREM TypeCorrect == Spec => []TypeOK
  <1>1. IInv => TypeOK
    BY DEF IInv
  <1> QED BY <1>1, Invariance, PTL

\* However many threads open and close in one descriptor table, the mapped file
\* outlives its last reader and a thread's descriptor is the device it opened:
\* main joins before elf_args_destroy, and PLenclave_finalize closes what
\* PLenclave_init opened.
THEOREM Resources == Spec => []ResourcesStay
  <1>1. IInv => ResourcesStay
    <2> SUFFICES ASSUME IInv PROVE ElfStays /\ OwnDevice
      BY DEF ResourcesStay
    <2>1. ASSUME NEW t \in Threads, thr[t].pc \in {"init", "create"}, elf.ptr = "file"
          PROVE  mapped /\ files[elf.fd] = ElfFile
      <3>1. main \in {"opened", "joining"}
        BY <2>1, UnderWay
      <3> QED BY <2>1, <3>1 DEF IInv, ElfKept
    <2>2. OwnDevice
      BY DEF IInv, OwnFd, OwnDevice
    <2> QED BY <2>1, <2>2 DEF ElfStays
  <1> QED BY <1>1, Invariance, PTL

\* A call of PLenclave_run, stop, resume, destroy, attest or debug_print reaches
\* the enclave its thread created, however the driver reuses numbers: the caller
\* makes none after the enclave is gone.
THEOREM OwnCalls == Spec => []CallsReachOwn
  <1>1. IInv => CallsReachOwn
    BY DEF IInv
  <1> QED BY <1>1, Invariance, PTL
=============================================================================
