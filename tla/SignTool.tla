------------------------------- MODULE SignTool -------------------------------
(***************************************************************************)
(* The commands of the sign tool (sign_tool/sign_tool.c and util.c) as    *)
(* programs over a file system.  Every step that touches a file is a step *)
(* of its own, so that a command can be killed, a write can fail, or the  *)
(* enclave can be rebuilt, between any two of them.                       *)
(*                                                                         *)
(* Data is abstract.  The measurement of an image is the image itself (no *)
(* two images collide), a signature is the pair of what was signed and by *)
(* whom, and an offset in a file is known by its value only.              *)
(***************************************************************************)
EXTENDS Naturals

CONSTANTS Images,       \* what an ELF file is compiled from
          Keys,         \* SM2 key pairs
          Junk,         \* bytes nobody chose: neither an image nor a key
          Section,      \* [Images -> offsets and NoSection]: .note.penglaimeta
          NoSection,
          Wild,         \* an offset read from beyond the section headers
          Paths,
          NoPath,       \* an option that was not given
          Commands,     \* the command lines a user types
          Compiled,     \* the paths the compiler writes
          Signatures,   \* the paths the holder of the keys writes
          Initial,      \* the file systems a session starts from
          MaxCommands,  \* bound: commands of a session
          MaxEdits      \* bound: changes made by others in a session

VARIABLES fs,       \* the content of every path
          pc,       \* the next step of the running command
          cmd,      \* its command line
          css,      \* enclave_css, on the stack of main
          hash,     \* the signing material catsig was given
          meta,     \* meta_offset
          verdict,  \* how the last command ended
          course,   \* history: smooth, or the output existed, or a write failed
                    \* or somebody changed a file
          commands, edits

vars == <<fs, pc, cmd, css, hash, meta, verdict, course, commands, edits>>

-----------------------------------------------------------------------------
(* What a file holds. *)

CSS == [hash : Images \cup {Junk}, signed : Images \cup {Junk},
        by : Keys \cup {Junk}, key : Keys \cup {Junk}]

NoCss == [hash |-> Junk, signed |-> Junk, by |-> Junk, key |-> Junk]

Absent == [kind |-> "absent"]
Other == [kind |-> "other"]
Elf(img, c, form) == [kind |-> "elf", img |-> img, css |-> c, form |-> form]
Pem(k, part) == [kind |-> part, key |-> k]
Material(h) == [kind |-> "hash", hash |-> h]
SigFile(h, k) == [kind |-> "sig", signed |-> h, by |-> k]
DumpFile(c) == [kind |-> "dump", css |-> c]

Files == {Absent, Other}
           \cup {Elf(i, c, f) : i \in Images, c \in CSS, f \in {"whole", "part", "hurt"}}
           \cup {Pem(k, p) : k \in Keys, p \in {"private", "public"}}
           \cup {Material(h) : h \in Images \cup {Junk}}
           \cup {SigFile(h, k) : h \in Images \cup {Junk}, k \in Keys}
           \cup {DumpFile(c) : c \in CSS}

VerifyEnclave(c) == c.signed = c.hash /\ c.by = c.key

Whole(c) == c.kind = "elf" /\ c.form = "whole"

(* Blank metadata, or a signature by its own key over its own hash. *)
Genuine(c) == c = NoCss \/ VerifyEnclave(c)

Modes == {"SIGN", "GENDATA", "CATSIG", "DUMP"}
Roles == {"ELF", "KEY", "OUTPUT", "SIG", "UNSIGNED", "DUMPFILE"}

ASSUME SignToolAssumption ==
  /\ Junk \notin Images \cup Keys /\ NoPath \notin Paths
  /\ Commands \subseteq [mode : Modes, path : [Roles -> Paths \cup {NoPath}]]
  /\ Compiled \cup Signatures \subseteq Paths
  /\ Initial \subseteq [Paths -> Files]
  /\ \A f \in Initial : \A p \in Paths : f[p].kind \in {"elf", "dump"} => Genuine(f[p].css)
  /\ MaxCommands \in Nat /\ MaxEdits \in Nat

-----------------------------------------------------------------------------
(* The command line: which options a command needs and which it refuses. *)

Required(mode) == CASE mode = "SIGN"    -> {"ELF", "KEY", "OUTPUT"}
                    [] mode = "GENDATA" -> {"ELF", "OUTPUT"}
                    [] mode = "CATSIG"  -> {"ELF", "KEY", "OUTPUT", "SIG", "UNSIGNED"}
                    [] mode = "DUMP"    -> {"ELF", "DUMPFILE"}

Optional(mode) == IF mode \in {"SIGN", "CATSIG"} THEN {"DUMPFILE"} ELSE {}

Given(c) == {r \in Roles : c.path[r] # NoPath}

Accepts(c) == /\ Required(c.mode) \subseteq Given(c)
              /\ Given(c) \subseteq Required(c.mode) \cup Optional(c.mode)
              /\ \A r, s \in Given(c) : c.path[r] = c.path[s] => r = s

File(role) == fs[cmd.path[role]]

-----------------------------------------------------------------------------
(* The steps of a command. *)

Finish(v) == pc' = "idle" /\ verdict' = v
Goto(l) == pc' = l /\ UNCHANGED verdict
After(failed, otherwise) == IF failed \/ course = "disturbed" THEN "disturbed" ELSE otherwise
Write(role, content) == fs' = [fs EXCEPT ![cmd.path[role]] = content]

Invoke(c) ==
  /\ pc = "idle" /\ commands < MaxCommands
  /\ commands' = commands + 1
  /\ cmd' = c /\ css' = NoCss /\ hash' = Junk /\ meta' = Wild
  /\ IF Accepts(c) THEN pc' = "load" /\ verdict' = "none" /\ course' = "smooth"
                   ELSE Finish("failed") /\ UNCHANGED course
  /\ UNCHANGED <<fs, edits>>

Loaded(h, m) == [res |-> "loaded", hash |-> h, meta |-> m]
LoadFails == [res |-> "failed", hash |-> Junk, meta |-> Wild]
LoadCrashes == [res |-> "crashed", hash |-> Junk, meta |-> Wild]

LoadEnclave(f) ==
  CASE f = Absent -> {LoadFails}
    [] Whole(f) /\ Section[f.img] # NoSection -> {Loaded(f.img, Section[f.img])}
    [] Whole(f) /\ Section[f.img] = NoSection ->
         {Loaded(f.img, Wild), LoadFails, LoadCrashes}
    [] OTHER -> {Loaded(Junk, Wild), LoadFails, LoadCrashes}

AfterLoad == CASE cmd.mode = "SIGN"    -> "sign"
               [] cmd.mode = "GENDATA" -> "generate"
               [] cmd.mode = "CATSIG"  -> "check"

Load ==
  /\ pc = "load" /\ cmd.mode # "DUMP"
  /\ \E l \in LoadEnclave(File("ELF")) :
       /\ css' = [css EXCEPT !.hash = l.hash]
       /\ meta' = l.meta
       /\ IF l.res = "crashed" \/ (l.res = "failed" /\ cmd.mode # "GENDATA")
            THEN Finish(l.res)
            ELSE Goto(AfterLoad)
  /\ UNCHANGED <<fs, cmd, hash, course, commands, edits>>

Sign ==
  /\ pc = "sign"
  /\ IF File("KEY").kind # "private"
       THEN Finish("crashed") /\ UNCHANGED css
       ELSE LET signed == [css EXCEPT !.signed = css.hash, !.by = File("KEY").key,
                                      !.key = File("KEY").key]
            IN /\ css' = signed
               /\ IF VerifyEnclave(signed) THEN Goto("copy") ELSE Finish("failed")
  /\ UNCHANGED <<fs, cmd, hash, meta, course, commands, edits>>

(* Mutant of Check: the signature is not verified.                         *)
CheckUnverified ==
  /\ pc = "check"
  /\ IF File("KEY").kind # "public" \/ File("SIG").kind # "sig"
       THEN Finish("crashed") /\ UNCHANGED <<css, hash>>
       ELSE /\ hash' = css.hash
            /\ css' = [css EXCEPT !.signed = File("SIG").signed, !.by = File("SIG").by,
                                  !.key = File("KEY").key]
            /\ Goto("copy")
  /\ UNCHANGED <<fs, cmd, meta, course, commands, edits>>

Check ==
  /\ pc = "check"
  /\ IF File("KEY").kind # "public" \/ File("SIG").kind # "sig"
       THEN Finish("crashed") /\ UNCHANGED <<css, hash>>
       ELSE /\ hash' = IF File("UNSIGNED").kind = "hash" THEN File("UNSIGNED").hash ELSE Junk
            /\ css' = [css EXCEPT !.signed = File("SIG").signed, !.by = File("SIG").by,
                                  !.key = File("KEY").key]
            /\ IF File("UNSIGNED").kind = "hash" /\ VerifyEnclave([css' EXCEPT !.hash = hash'])
                 THEN Goto("copy")
                 ELSE Finish("failed")
  /\ UNCHANGED <<fs, cmd, meta, course, commands, edits>>

CopyOf(f) == IF f.kind = "elf" THEN {[f EXCEPT !.form = "part"], f} ELSE {Other}

CopyFile(from, to) == IF from = Absent \/ to # Absent THEN {to} ELSE {to} \cup CopyOf(from)

(* Mutant of Memcmp: the two hashes are not compared.                      *)
NoMemcmp(a, b) == {TRUE}

Memcmp(a, b) == IF a = Junk /\ b = Junk THEN BOOLEAN ELSE {a = b}

Copy ==
  /\ pc = "copy"
  /\ \E out \in CopyFile(File("ELF"), File("OUTPUT")) :
       /\ Write("OUTPUT", out)
       /\ course' = IF File("OUTPUT") # Absent THEN After(FALSE, "exists")
                   ELSE After(out # File("ELF"), course)
  /\ \E same \in IF cmd.mode = "CATSIG" THEN Memcmp(css.hash, hash) ELSE {TRUE} :
       IF same THEN Goto("update") ELSE Finish("failed")
  /\ UNCHANGED <<cmd, css, hash, meta, commands, edits>>

Updated(f) == CASE f.kind = "absent" -> Absent
                [] f.kind = "elf" /\ Section[f.img] = meta -> [f EXCEPT !.css = css]
                [] f.kind = "elf" /\ Section[f.img] # meta -> [f EXCEPT !.form = "hurt"]
                [] OTHER -> Other

AfterUpdate == IF cmd.path["DUMPFILE"] = NoPath THEN Finish("succeed") ELSE Goto("dump")

UpdateMetadata ==
  /\ pc = "update"
  /\ \/ Write("OUTPUT", Updated(File("OUTPUT"))) /\ UNCHANGED course
     \/ UNCHANGED fs /\ course' = "disturbed"
  /\ AfterUpdate
  /\ UNCHANGED <<cmd, css, hash, meta, commands, edits>>

WriteOutcomes(content, old) == {content, Other, old}

Generate ==
  /\ pc = "generate"
  /\ \E out \in WriteOutcomes(Material(css.hash), File("OUTPUT")) :
       Write("OUTPUT", out) /\ course' = After(out # Material(css.hash), course)
  /\ Finish("succeed")
  /\ UNCHANGED <<cmd, css, hash, meta, commands, edits>>

DumpedRole == IF cmd.mode = "DUMP" THEN "ELF" ELSE "OUTPUT"

ReadMetadata(f, m) == IF f.kind = "elf" /\ f.form = "whole" /\ Section[f.img] = m
                        THEN f.css ELSE NoCss

DumpEnclaveMetadata ==
  /\ pc = "dump" \/ (pc = "load" /\ cmd.mode = "DUMP")
  /\ \E l \in LoadEnclave(File(DumpedRole)) :
       IF l.res # "loaded"
         THEN Finish(l.res) /\ UNCHANGED <<fs, course>>
         ELSE LET read == DumpFile(ReadMetadata(File(DumpedRole), l.meta))
              IN \E out \in WriteOutcomes(read, File("DUMPFILE")) :
                   /\ Write("DUMPFILE", out)
                   /\ course' = After(out # read, course)
                   /\ IF out = read THEN Finish("succeed") ELSE Finish("failed")
  /\ UNCHANGED <<cmd, css, hash, meta, commands, edits>>

-----------------------------------------------------------------------------
(* What else happens: the command is killed, the enclave is rebuilt, the   *)
(* signing material is signed elsewhere, an output is removed.             *)

Killed == pc # "idle" /\ Finish("crashed")
            /\ UNCHANGED <<fs, cmd, css, hash, meta, course, commands, edits>>

Edit(p, content) ==
  /\ edits < MaxEdits /\ edits' = edits + 1
  /\ fs' = [fs EXCEPT ![p] = content] /\ course' = "disturbed"
  /\ UNCHANGED <<pc, cmd, css, hash, meta, verdict, commands>>

Others == \/ \E p \in Compiled, i \in Images : Edit(p, Elf(i, NoCss, "whole"))
          \/ \E p \in Signatures, k \in Keys, q \in Paths :
               fs[q].kind = "hash" /\ Edit(p, SigFile(fs[q].hash, k))
          \/ \E p \in Paths \ Compiled : fs[p] # Absent /\ Edit(p, Absent)

Tool == Load \/ Sign \/ Check \/ Copy \/ UpdateMetadata \/ Generate \/ DumpEnclaveMetadata

Init == /\ fs \in Initial
        /\ pc = "idle" /\ verdict = "none" /\ course = "disturbed"
        /\ cmd = [mode |-> "DUMP", path |-> [r \in Roles |-> NoPath]]
        /\ css = NoCss /\ hash = Junk /\ meta = Wild
        /\ commands = 0 /\ edits = 0

Next == (\E c \in Commands : Invoke(c)) \/ Tool \/ Killed \/ Others

Spec == Init /\ [][Next]_vars
-----------------------------------------------------------------------------
Labels == {"idle", "load", "sign", "check", "copy", "update", "generate", "dump"}

(* Every variable keeps its type: a file never holds a mixture of kinds    *)
(* whatever command, failure or edit happens in between.                   *)
TypeOK == /\ fs \in [Paths -> Files]
          /\ pc \in Labels
          /\ cmd \in [mode : Modes, path : [Roles -> Paths \cup {NoPath}]]
          /\ css \in CSS /\ hash \in Images \cup {Junk}
          /\ meta \in {Section[i] : i \in Images} \cup {Wild}
          /\ verdict \in {"none", "succeed", "failed", "crashed"}
          /\ course \in {"smooth", "exists", "disturbed"}
          /\ commands \in 0 .. MaxCommands /\ edits \in 0 .. MaxEdits

(* The files a command reads are never written by it, on whichever paths   *)
(* they lie: the enclave, the key, the signature and the signing material  *)
(* survive every step of sign_tool, its outputs being other files.         *)
InputsKept ==
  [][Tool => \A r \in Given(cmd) \cap {"ELF", "KEY", "SIG", "UNSIGNED"} :
               fs'[cmd.path[r]] = fs[cmd.path[r]]]_vars

(* A signature that verifies: whatever was interrupted, repeated, edited   *)
(* or written over, the metadata in an enclave file or in a dump is blank  *)
(* or carries a signature by its own public key over its own hash, because *)
(* main verifies before update_metadata writes.                            *)
MetadataVerifies ==
  \A p \in Paths : fs[p].kind \in {"elf", "dump"} => Genuine(fs[p].css)

(* A dump that says "Succeed." holds the metadata of the signed file, not  *)
(* the one the file had before it was signed.                              *)
DumpIsOfOutput ==
  LET signed == IF cmd.mode = "DUMP" THEN File("ELF") ELSE File("OUTPUT")
  IN (verdict = "succeed" /\ course # "disturbed" /\ "DUMPFILE" \in Given(cmd)
        /\ Whole(signed) /\ Section[signed.img] # NoSection)
       => File("DUMPFILE") = DumpFile(signed.css)

(* When no file operation failed and nobody changed a file meanwhile, the  *)
(* output of a "sign" or "catsig" that says "Succeed." is the enclave that *)
(* was given, with a verified signature over its own measurement.  The     *)
(* signing material may come from an earlier build: then catsig refuses.   *)
(* A dump made on the way is of the signed file.                           *)
FreshOutputSigned ==
  /\ DumpIsOfOutput
  /\ (verdict = "succeed" /\ course = "smooth" /\ cmd.mode \in {"SIGN", "CATSIG"}
        /\ Section[File("ELF").img] # NoSection)
       => /\ Whole(File("OUTPUT"))
          /\ File("OUTPUT").img = File("ELF").img
          /\ File("OUTPUT").css.hash = File("ELF").img
          /\ VerifyEnclave(File("OUTPUT").css)
=============================================================================
