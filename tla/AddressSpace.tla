---------------------------- MODULE AddressSpace ----------------------------
(***************************************************************************)
(* What the page tables of an enclave image promise: a map from virtual    *)
(* pages to pages, changed by one request at a time.  A virtual page may   *)
(* be mapped again (sections and program segments of an ELF file overlap); *)
(* a page of the enclave's own memory is never mapped at two places.       *)
(***************************************************************************)
EXTENDS Naturals

CONSTANTS Va, Pool, Outside, Flags

VARIABLES
  map,      \* the leaf entry of each virtual page
  request   \* the virtual page and the flags of the call in progress

Unmapped == [kind |-> "none", to |-> 0]
NoRequest == <<>>

Init ==
  /\ map = [va \in Va |-> Unmapped]
  /\ request = NoRequest

Ask(va, fl) ==
  /\ request = NoRequest
  /\ request' = <<va, fl>>
  /\ UNCHANGED map

\* The request is met with page p.
Map(p) ==
  /\ request # NoRequest
  /\ p \in Pool => \A w \in Va : map[w].kind = "none" \/ map[w].to # p
  /\ map' = [map EXCEPT ![request[1]] = [kind |-> "leaf", to |-> p, flags |-> request[2]]]
  /\ request' = NoRequest

\* No memory is left for it.
Fail ==
  /\ request # NoRequest
  /\ request' = NoRequest
  /\ UNCHANGED map

Next ==
  \/ \E va \in Va, fl \in Flags : Ask(va, fl)
  \/ \E p \in Pool \cup Outside \cup {0} : Map(p)
  \/ Fail

Spec == Init /\ [][Next]_<<map, request>>
=============================================================================
