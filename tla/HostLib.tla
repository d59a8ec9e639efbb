------------------------------ MODULE HostLib ------------------------------
(***************************************************************************)
(* The host library (lib/host/src/penglai-enclave.c and elf.c) in a host   *)
(* program of the shape of the demos: main maps the enclave's ELF file,    *)
(* starts the threads, joins them and unmaps the file; every thread        *)
(* creates, uses and gives up one enclave.  All share one table of file    *)
(* descriptors, in which the lowest free number is the next one.           *)
(*                                                                         *)
(* The driver behind ioctl is external: it gives a new enclave a free      *)
(* number, forgets the enclave when it exits or is destroyed, and gives    *)
(* the number to the next one.  Every system call may fail.                *)
(***************************************************************************)
EXTENDS Integers, FiniteSetsExt

CONSTANTS
  Threads,    \* 1 .. thread_num
  Fds,        \* the file descriptors the process may have
  Eids,       \* the enclave numbers of the driver
  MaxCalls    \* bound: calls of a thread on its enclave

ASSUME HostAssumption ==
  /\ Threads \subseteq Nat \ {0} /\ Threads # {}
  /\ Fds \subseteq Nat /\ Eids \subseteq Nat
  /\ MaxCalls \in Nat

VARIABLES
  files,      \* what every descriptor stands for
  mapped,     \* whether the file is mapped
  elf,        \* struct elf_args
  main,       \* where main is
  thr,        \* the threads, each with its struct PLenclave
  enclaves,   \* the driver's enclaves: the thread each belongs to
  call        \* the last call that reached an enclave

vars == <<files, mapped, elf, main, thr, enclaves, call>>

Free == 0
ElfFile == -1          \* in files; t stands for the device file thread t opened
None == 0
NoFd == -1
NoEid == -1

\* Values of elf_args.ptr; "junk" is what malloc left there.
Ptrs == {"NULL", "junk", "MAP_FAILED", "file"}

FreeFds == {f \in Fds : files[f] = Free}

NextFd == Min(FreeFds)

Closed(fd) == [f \in Fds |-> IF f = fd THEN Free ELSE files[f]]

-----------------------------------------------------------------------------
(* elf.c *)

\* Each early return leaves what follows it unset.
elf_args_init ==
  /\ main = "start"
  /\ main' = "opened"
  /\ \/ elf' = [elf EXCEPT !.fd = NoFd] /\ UNCHANGED <<files, mapped>>
     \/ /\ FreeFds # {}
        /\ files' = [files EXCEPT ![NextFd] = ElfFile]
        /\ \/ /\ \/ elf' = [elf EXCEPT !.fd = NextFd]                   \* fstat fails
                 \/ elf' = [elf EXCEPT !.fd = NextFd, !.size = 0]       \* empty file
                 \/ elf' = [fd |-> NextFd, size |-> 1, ptr |-> "MAP_FAILED"]
              /\ UNCHANGED mapped
           \/ /\ elf' = [fd |-> NextFd, size |-> 1, ptr |-> "file"]
              /\ mapped' = TRUE
  /\ UNCHANGED <<thr, enclaves, call>>

elf_valid == elf.fd >= 0 /\ elf.size > 0 /\ elf.ptr # "NULL"

\* Mutant of elf_args_destroy: main does not wait for the threads.
destroyed_without_join ==
  /\ main \in {"joining", "out"}
  /\ main' = "end"
  /\ files' = Closed(elf.fd)
  /\ mapped' = (mapped /\ elf.ptr # "file")
  /\ UNCHANGED <<elf, thr, enclaves, call>>

elf_args_destroy ==
  /\ main = "out"
  /\ main' = "end"
  /\ files' = Closed(elf.fd)
  /\ mapped' = (mapped /\ elf.ptr # "file")
  /\ UNCHANGED <<elf, thr, enclaves, call>>

-----------------------------------------------------------------------------
(* The rest of main. *)

\* An invalid file skips to out; otherwise the threads are started in order.
Spawn ==
  /\ main = "opened"
  /\ IF elf_valid
     THEN LET waiting == {t \in Threads : thr[t].pc = "none"}
              next    == Min(waiting)
          IN  /\ thr' = [thr EXCEPT ![next].pc = "init"]
              /\ main' = IF waiting = {next} THEN "joining" ELSE "opened"
     ELSE main' = "out" /\ UNCHANGED thr
  /\ UNCHANGED <<files, mapped, elf, enclaves, call>>

\* Mutant of AllEnded: only a thread that finalized is joined.
waits_for_finalize == \A t \in Threads : thr[t].pc = "finalized"

\* pthread_join returns for a thread that returned or called pthread_exit.
AllEnded == \A t \in Threads : thr[t].pc \in {"exited", "finalized"}

Join ==
  /\ main = "joining" /\ AllEnded
  /\ main' = "out"
  /\ UNCHANGED <<files, mapped, elf, thr, enclaves, call>>

-----------------------------------------------------------------------------
(* penglai-enclave.c *)

PLenclave_init(t) ==
  /\ thr[t].pc = "init"
  /\ \/ /\ thr' = [thr EXCEPT ![t].pc = "create", ![t].fd = NoFd, ![t].eid = NoEid]
        /\ UNCHANGED files
     \/ /\ FreeFds # {}
        /\ files' = [files EXCEPT ![NextFd] = t]
        /\ thr' = [thr EXCEPT ![t].pc = "create", ![t].fd = NextFd, ![t].eid = NoEid]
  /\ UNCHANGED <<mapped, elf, main, enclaves, call>>

\* ioctl: only a descriptor of the device reaches the driver.
OnDevice(t) == thr[t].fd \in Fds /\ files[thr[t].fd] \in Threads

\* The driver can read size bytes at ptr.
Readable == (elf.ptr = "file" /\ mapped) \/ elf.ptr = "junk"

Created(t, e) ==
  [thr EXCEPT ![t].pc = "use", ![t].param_eid = e, ![t].eid = e]

PLenclave_create(t) ==
  /\ thr[t].pc = "create"
  /\ \/ thr' = [thr EXCEPT ![t].pc = "failed"] /\ UNCHANGED enclaves
     \/ /\ elf.ptr # "NULL" /\ elf.size > 0 /\ OnDevice(t) /\ Readable
        /\ \E e \in {e \in Eids : enclaves[e] = None} :
             enclaves' = [enclaves EXCEPT ![e] = t] /\ thr' = Created(t, e)
  /\ UNCHANGED <<files, mapped, elf, main, call>>

\* PLenclave_attest names the enclave by eid, the others by user_param.eid.
CalledEid(t, op) == IF op = "attest" THEN thr[t].eid ELSE thr[t].param_eid

Ops == {"attest", "run", "stop", "resume", "destroy", "debug_print"}

\* Mutant of PLenclave_call: the caller goes on after the enclave ended.
calls_go_on(t, op) ==
  LET e == CalledEid(t, op)
  IN  /\ thr[t].pc = "use" /\ thr[t].calls < MaxCalls
      /\ call' = [by |-> t, on |-> IF OnDevice(t) THEN enclaves[e] ELSE None]
      /\ thr' = [thr EXCEPT ![t].calls = @ + 1]
      /\ enclaves' = IF op = "destroy" THEN [enclaves EXCEPT ![e] = None] ELSE enclaves
      /\ UNCHANGED <<files, mapped, elf, main>>

\* One of the calls on an enclave.  run and resume return
\* RETURN_USER_EXIT_ENCL or RETURN_USER_FOR_OCALL, all return -1 on failure.
PLenclave_call(t, op) ==
  LET e == CalledEid(t, op)
  IN  /\ thr[t].pc = "use" /\ thr[t].calls < MaxCalls
      /\ call' = [by |-> t, on |-> IF OnDevice(t) /\ e \in Eids THEN enclaves[e] ELSE None]
      /\ \/ \* refused by the driver, or the enclave goes on
            thr' = [thr EXCEPT ![t].calls = @ + 1] /\ UNCHANGED enclaves
         \/ /\ op \in {"run", "resume", "destroy"}
            /\ OnDevice(t) /\ e \in Eids
            /\ thr' = [thr EXCEPT ![t].calls = @ + 1, ![t].pc = "ended"]
            /\ enclaves' = [enclaves EXCEPT ![e] = None]
      /\ UNCHANGED <<files, mapped, elf, main>>

PLenclave_finalize(t) ==
  /\ thr[t].pc \in {"failed", "use", "ended"}
  /\ thr' = [thr EXCEPT ![t].pc = "finalized"]
  /\ files' = IF thr[t].fd >= 0 THEN Closed(thr[t].fd) ELSE files
  /\ UNCHANGED <<mapped, elf, main, enclaves, call>>

\* Most demos call pthread_exit before they come to PLenclave_finalize.
Exit(t) ==
  /\ thr[t].pc \in {"failed", "use", "ended"}
  /\ thr' = [thr EXCEPT ![t].pc = "exited"]
  /\ UNCHANGED <<files, mapped, elf, main, enclaves, call>>

-----------------------------------------------------------------------------

Init ==
  /\ files = [f \in Fds |-> Free]
  /\ mapped = FALSE
  /\ elf \in [fd : {NoFd}, size : {0, 1}, ptr : {"NULL", "junk"}]
  /\ main = "start"
  /\ thr = [t \in Threads |->
              [pc |-> "none", fd |-> NoFd, eid |-> NoEid, param_eid |-> NoEid, calls |-> 0]]
  /\ enclaves = [e \in Eids |-> None]
  /\ call = [by |-> None, on |-> None]

Main == elf_args_init \/ Spawn \/ Join \/ elf_args_destroy

Thread(t) ==
  \/ PLenclave_init(t) \/ PLenclave_create(t)
  \/ \E op \in Ops : PLenclave_call(t, op)
  \/ PLenclave_finalize(t) \/ Exit(t)

Next == Main \/ \E t \in Threads : Thread(t)

\* main and the threads are scheduled; a system call returns.
Fairness == WF_vars(Main) /\ \A t \in Threads : WF_vars(Thread(t))

Spec == Init /\ [][Next]_vars /\ Fairness

-----------------------------------------------------------------------------
(* Properties. *)

\* A file that was mapped stays mapped, and its descriptor open, until the last
\* thread is past PLenclave_create: the driver reads it there.
ElfStays ==
  (\E t \in Threads : thr[t].pc \in {"init", "create"}) /\ elf.ptr = "file" =>
    mapped /\ files[elf.fd] = ElfFile

\* The descriptor of a thread that may still call is the device file this very
\* thread opened, although all threads open and close in one table.
OwnDevice ==
  \A t \in Threads :
    thr[t].pc \in {"create", "use"} /\ thr[t].fd # NoFd => files[thr[t].fd] = t

\* What a thread is about to use is there, whatever the others close, unmap or
\* open meanwhile: the enclave's file and the thread's own device.
ResourcesStay == ElfStays /\ OwnDevice

\* Every call reaches an enclave, and it is the one the calling thread created:
\* eid and user_param.eid agree, and no number has gone to another enclave.
CallsReachOwn == call.by # None => call.on = call.by

\* Whatever fails, main comes to its end.
HostEnds == <>(main = "end")
=============================================================================
