----------------------------- MODULE MCHostLib -----------------------------
(* Three threads, one descriptor too few for all of them, two enclaves. *)
EXTENDS HostLib

MCThreads == 1 .. 3
MCFds == 3 .. 5
MCEids == 0 .. 1
=============================================================================
