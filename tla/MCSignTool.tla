------------------------------ MODULE MCSignTool ------------------------------
(***************************************************************************)
(* Sessions over six files.  a and b are two builds with the metadata      *)
(* section at the same place, c has it elsewhere, n has none.              *)
(***************************************************************************)
EXTENDS SignTool

CONSTANTS a, b, c, n, k1, k2

MCSection == [i \in Images |-> CASE i \in {a, b} -> 10 [] i = c -> 20 [] OTHER -> NoSection]

MCPaths == {"prime", "key", "signed", "sig", "material", "info"}

Path(e, k, o, s, u, d) == [r \in Roles |->
  CASE r = "ELF" -> e [] r = "KEY" -> k [] r = "OUTPUT" -> o
    [] r = "SIG" -> s [] r = "UNSIGNED" -> u [] r = "DUMPFILE" -> d]

(* The documented uses, and the same with an output on an input's path.    *)
MCCommands ==
  {[mode |-> "SIGN", path |-> Path("prime", "key", o, NoPath, NoPath, d)] :
      o \in {"signed", "prime"}, d \in {NoPath, "info"}}
  \cup {[mode |-> "GENDATA", path |-> Path("prime", NoPath, "material", NoPath, NoPath, NoPath)]}
  \cup {[mode |-> "CATSIG", path |-> Path("prime", "key", "signed", "sig", "material", d)] :
      d \in {NoPath, "info", "material"}}
  \cup {[mode |-> "DUMP", path |-> Path("signed", NoPath, NoPath, NoPath, NoPath, "info")]}

MCInitial ==
  {[p \in Paths |-> CASE p = "prime"    -> e
                      [] p = "key"      -> k
                      [] p = "signed"   -> o
                      [] p = "sig"      -> s
                      [] p = "material" -> m
                      [] OTHER          -> Absent] :
     e \in {Elf(a, NoCss, "whole"), Elf(n, NoCss, "whole"), Absent},
     k \in {Pem(k1, "private"), Pem(k1, "public"), Absent},
     o \in {Absent, Elf(b, NoCss, "whole"), Elf(c, NoCss, "whole"), Other},
     s \in {SigFile(a, k1), SigFile(a, k2), Absent},
     m \in {Material(a), Material(b), Absent}}
=============================================================================
