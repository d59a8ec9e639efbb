---------------------------- MODULE SignToolProofs ----------------------------
(***************************************************************************)
(* What the commands of the sign tool keep true for any number of images,  *)
(* keys, paths, commands and edits: metadata always verifies, and a file   *)
(* that a command reads is never written by it.                            *)
(*                                                                         *)
(* The strengthening follows the running command: its command line was     *)
(* accepted, each label belongs to its modes, and what enclave_css holds   *)
(* when it is about to be written has been verified.                       *)
(***************************************************************************)
EXTENDS SignTool, TLAPS

ModesAt(l) == CASE l = "sign" -> {"SIGN"}
                [] l = "generate" -> {"GENDATA"}
                [] l = "check" -> {"CATSIG"}
                [] l \in {"copy", "update", "dump"} -> {"SIGN", "CATSIG"}
                [] OTHER -> Modes

Running == pc # "idle" => /\ Accepts(cmd)
                          /\ cmd.mode \in ModesAt(pc)
                          /\ pc = "dump" => cmd.path["DUMPFILE"] # NoPath

Verified == /\ (pc = "copy" /\ cmd.mode = "SIGN") => VerifyEnclave(css)
            /\ (pc = "copy" /\ cmd.mode = "CATSIG") => css.signed = hash /\ css.by = css.key
            /\ pc = "update" => VerifyEnclave(css)

IInv == TypeOK /\ Running /\ Verified /\ MetadataVerifies

Genuine1(f) == f.kind \in {"elf", "dump"} => Genuine(f.css)

-----------------------------------------------------------------------------
(* The kinds of file, and what each of them carries. *)
LEMMA FileFacts ==
  /\ Absent \in Files /\ Other \in Files
  /\ \A i \in Images, c \in CSS, f \in {"whole", "part", "hurt"} : Elf(i, c, f) \in Files
  /\ \A h \in Images \cup {Junk} : Material(h) \in Files
  /\ \A h \in Images \cup {Junk}, k \in Keys : SigFile(h, k) \in Files
  /\ \A c \in CSS : DumpFile(c) \in Files
  BY DEF Files

(* An ELF file carries an image, metadata and the form it is in. *)
LEMMA ElfFacts ==
  ASSUME NEW f \in Files, f.kind = "elf"
  PROVE  \E i \in Images, c \in CSS, g \in {"whole", "part", "hurt"} :
            f = [kind |-> "elf", img |-> i, css |-> c, form |-> g]
  BY DEF Files, Absent, Other, Elf, Pem, Material, SigFile, DumpFile

(* A key file carries a key. *)
LEMMA KeyFacts ==
  ASSUME NEW f \in Files, f.kind \in {"private", "public"}
  PROVE  f.key \in Keys
  BY DEF Files, Absent, Other, Elf, Pem, Material, SigFile, DumpFile

(* A signature file carries a signature over a hash. *)
LEMMA SigFacts ==
  ASSUME NEW f \in Files, f.kind = "sig"
  PROVE  f.signed \in Images \cup {Junk} /\ f.by \in Keys
  BY DEF Files, Absent, Other, Elf, Pem, Material, SigFile, DumpFile

(* Signing material carries a hash. *)
LEMMA HashFacts ==
  ASSUME NEW f \in Files, f.kind = "hash"
  PROVE  f.hash \in Images \cup {Junk}
  BY DEF Files, Absent, Other, Elf, Pem, Material, SigFile, DumpFile

(* A copy, whole or not, is as genuine as the original. *)
LEMMA CopyFacts ==
  ASSUME NEW from \in Files, NEW to \in Files, Genuine1(from), Genuine1(to),
         NEW out \in CopyFile(from, to)
  PROVE  out \in Files /\ Genuine1(out)
<1>1. CASE out = to \/ out = from \/ out = Other
  BY <1>1, FileFacts DEF Genuine1, Other
<1>2. CASE from.kind = "elf" /\ out = [from EXCEPT !.form = "part"]
  <2>1. PICK i \in Images, c \in CSS, g \in {"whole", "part", "hurt"} :
           from = [kind |-> "elf", img |-> i, css |-> c, form |-> g]
    BY <1>2, ElfFacts
  <2>2. out = Elf(i, c, "part")
    BY <1>2, <2>1 DEF Elf
  <2>3. Genuine(c)
    BY <2>1 DEF Genuine1
  <2> QED
    BY <2>2, <2>3, FileFacts DEF Genuine1, Elf
<1> QED
  BY <1>1, <1>2 DEF CopyFile, CopyOf

(* update_metadata keeps a file genuine when what it writes was verified. *)
LEMMA UpdatedFacts ==
  ASSUME NEW f \in Files, Genuine1(f), css \in CSS, VerifyEnclave(css)
  PROVE  Updated(f) \in Files /\ Genuine1(Updated(f))
<1>1. CASE f.kind = "elf"
  <2>1. PICK i \in Images, c \in CSS, g \in {"whole", "part", "hurt"} :
           f = [kind |-> "elf", img |-> i, css |-> c, form |-> g]
    BY <1>1, ElfFacts
  <2>2. Updated(f) = IF Section[i] = meta THEN Elf(i, css, g) ELSE Elf(i, c, "hurt")
    BY <2>1 DEF Updated, Elf
  <2>3. Genuine(c) /\ Genuine(css)
    BY <2>1 DEF Genuine1, Genuine
  <2>4. /\ Elf(i, css, g) \in Files /\ Genuine1(Elf(i, css, g))
        /\ Elf(i, c, "hurt") \in Files /\ Genuine1(Elf(i, c, "hurt"))
    BY <2>3, FileFacts DEF Genuine1, Elf
  <2>5. Updated(f) = Elf(i, css, g) \/ Updated(f) = Elf(i, c, "hurt")
    BY <2>2
  <2> QED
    BY <2>4, <2>5
<1>2. CASE f.kind # "elf"
  <2>1. Updated(f) \in {Absent, Other}
    BY <1>2 DEF Updated
  <2> QED
    BY <2>1, FileFacts DEF Genuine1, Absent, Other
<1> QED
  BY <1>1, <1>2

(* What load_enclave can return. *)
LEMMA LoadFacts ==
  ASSUME NEW f \in Files, NEW l \in LoadEnclave(f)
  PROVE  /\ l.hash \in Images \cup {Junk}
         /\ l.meta \in {Section[i] : i \in Images} \cup {Wild}
         /\ l.res \in {"loaded", "failed", "crashed"}
<1>1. ASSUME Whole(f) PROVE f.img \in Images
  <2>1. PICK i \in Images, c \in CSS, g \in {"whole", "part", "hurt"} :
           f = [kind |-> "elf", img |-> i, css |-> c, form |-> g]
    BY <1>1, ElfFacts DEF Whole
  <2> QED
    BY <2>1
<1> QED
  BY <1>1 DEF LoadEnclave, Loaded, LoadFails, LoadCrashes

(* Reading metadata from a genuine file gives genuine metadata. *)
LEMMA ReadFacts ==
  ASSUME NEW f \in Files, Genuine1(f), NEW m
  PROVE  ReadMetadata(f, m) \in CSS /\ Genuine(ReadMetadata(f, m))
<1>1. NoCss \in CSS /\ Genuine(NoCss)
  BY DEF NoCss, CSS, Genuine
<1>2. CASE f.kind = "elf"
  <2>1. PICK i \in Images, c \in CSS, g \in {"whole", "part", "hurt"} :
           f = [kind |-> "elf", img |-> i, css |-> c, form |-> g]
    BY <1>2, ElfFacts
  <2> QED
    BY <2>1, <1>1 DEF ReadMetadata, Genuine1
<1>3. CASE f.kind # "elf"
  BY <1>1, <1>3 DEF ReadMetadata
<1> QED
  BY <1>2, <1>3

(* Writing one genuine file keeps all files genuine. *)
LEMMA WriteFacts ==
  ASSUME IInv, NEW p \in Paths, NEW c \in Files, Genuine1(c), fs' = [fs EXCEPT ![p] = c]
  PROVE  fs' \in [Paths -> Files] /\ MetadataVerifies'
<1>1. fs \in [Paths -> Files] /\ \A q \in Paths : Genuine1(fs[q])
  BY DEF IInv, TypeOK, MetadataVerifies, Genuine1
<1>2. fs' \in [Paths -> Files] /\ \A q \in Paths : fs'[q] = IF q = p THEN c ELSE fs[q]
  BY <1>1
<1>3. \A q \in Paths : Genuine1(fs'[q])
  BY <1>1, <1>2
<1> QED
  BY <1>2, <1>3 DEF MetadataVerifies, Genuine1

(* An option that was given names a file. *)
LEMMA GivenFacts ==
  ASSUME IInv, NEW r \in Roles, cmd.path[r] # NoPath
  PROVE  cmd.path[r] \in Paths /\ File(r) \in Files /\ Genuine1(File(r))
<1>1. cmd.path[r] \in Paths
  BY DEF IInv, TypeOK
<1> QED
  BY <1>1 DEF IInv, TypeOK, File, MetadataVerifies, Genuine1

(* The options a running command needs were given. *)
LEMMA RequiredFacts ==
  ASSUME IInv, pc # "idle", NEW r \in Required(cmd.mode), r \in Roles
  PROVE  cmd.path[r] \in Paths /\ File(r) \in Files /\ Genuine1(File(r))
<1>1. cmd.path[r] # NoPath
  BY DEF IInv, Running, Accepts, Given
<1> QED
  BY <1>1, GivenFacts

-----------------------------------------------------------------------------
(* The invariant holds of every file system a session starts from. *)
LEMMA InitIInv == Init => IInv
<1> SUFFICES ASSUME Init PROVE IInv
  OBVIOUS
<1>1. TypeOK
  BY SignToolAssumption DEF Init, TypeOK, Labels, Modes, CSS, NoCss
<1> QED
  BY <1>1, SignToolAssumption DEF Init, IInv, Running, Verified, MetadataVerifies

(* main parses its command line; a command starts on accepted options only. *)
LEMMA InvokeIInv == ASSUME IInv, NEW c \in Commands, Invoke(c) PROVE IInv'
<1>1. c \in [mode : Modes, path : [Roles -> Paths \cup {NoPath}]]
  BY SignToolAssumption
<1>2. NoCss \in CSS
  BY DEF NoCss, CSS
<1>3. TypeOK'
  BY <1>1, <1>2, SignToolAssumption DEF IInv, TypeOK, Invoke, Finish, Labels
<1>4. Running'
  BY <1>1 DEF Invoke, Finish, Running, ModesAt, Accepts, Given
<1>5. Verified' /\ MetadataVerifies'
  BY DEF IInv, Invoke, Finish, Verified, MetadataVerifies
<1> QED
  BY <1>3, <1>4, <1>5 DEF IInv

(* load_enclave: the measurement goes into enclave_css. *)
LEMMA LoadIInv == ASSUME IInv, Load PROVE IInv'
<1>1. cmd.mode \in {"SIGN", "GENDATA", "CATSIG"} /\ pc = "load" /\ pc # "idle"
  BY DEF IInv, TypeOK, Load, Modes
<1>2. File("ELF") \in Files
  BY <1>1, RequiredFacts DEF Required, Roles
<1>3. PICK l \in LoadEnclave(File("ELF")) :
        /\ css' = [css EXCEPT !.hash = l.hash]
        /\ meta' = l.meta
        /\ IF l.res = "crashed" \/ (l.res = "failed" /\ cmd.mode # "GENDATA")
             THEN Finish(l.res)
             ELSE Goto(AfterLoad)
  BY DEF Load
<1>4. /\ l.hash \in Images \cup {Junk}
      /\ l.meta \in {Section[i] : i \in Images} \cup {Wild}
      /\ l.res \in {"loaded", "failed", "crashed"}
  BY <1>2, LoadFacts
<1>5. css' \in CSS
  BY <1>3, <1>4 DEF IInv, TypeOK, CSS
<1>6. \/ AfterLoad = "sign" /\ cmd.mode = "SIGN"
      \/ AfterLoad = "generate" /\ cmd.mode = "GENDATA"
      \/ AfterLoad = "check" /\ cmd.mode = "CATSIG"
  BY <1>1 DEF AfterLoad
<1>7. /\ pc' \in {"idle", AfterLoad}
      /\ verdict' \in {"none", "succeed", "failed", "crashed"}
  BY <1>3, <1>4 DEF Finish, Goto, IInv, TypeOK
<1>8. UNCHANGED <<fs, cmd, hash, course, commands, edits>>
  BY DEF Load
<1>9. TypeOK'
  BY <1>3, <1>4, <1>5, <1>6, <1>7, <1>8 DEF IInv, TypeOK, Labels
<1>10. Running'
  BY <1>1, <1>6, <1>7, <1>8 DEF IInv, Running, ModesAt, Accepts, Given
<1>11. Verified' /\ MetadataVerifies'
  BY <1>6, <1>7, <1>8 DEF IInv, Verified, MetadataVerifies
<1> QED
  BY <1>9, <1>10, <1>11 DEF IInv

(* sign_enclave and verify_enclave: "sign" goes on only after verifying. *)
LEMMA SignIInv == ASSUME IInv, Sign PROVE IInv'
<1>1. pc = "sign" /\ cmd.mode = "SIGN"
  BY DEF IInv, Running, Sign, ModesAt
<1>2. File("KEY") \in Files
  BY <1>1, RequiredFacts DEF Required, Roles
<1>3. UNCHANGED <<fs, cmd, hash, meta, course, commands, edits>>
  BY DEF Sign
<1>4. /\ css' \in CSS
      /\ pc' \in {"idle", "copy"} /\ verdict' \in {"none", "succeed", "failed", "crashed"}
      /\ pc' = "copy" => VerifyEnclave(css')
  <2>1. CASE File("KEY").kind # "private"
    BY <2>1 DEF Sign, Finish, IInv, TypeOK
  <2>2. CASE File("KEY").kind = "private"
    <3> DEFINE signed == [css EXCEPT !.signed = css.hash, !.by = File("KEY").key,
                                     !.key = File("KEY").key]
    <3>1. File("KEY").key \in Keys
      BY <1>2, <2>2, KeyFacts
    <3>2. signed \in CSS
      BY <3>1 DEF IInv, TypeOK, CSS
    <3>3. css' = signed /\ IF VerifyEnclave(signed) THEN Goto("copy") ELSE Finish("failed")
      BY <2>2 DEF Sign
    <3> QED
      BY <3>2, <3>3 DEF Finish, Goto, IInv, TypeOK
  <2> QED
    BY <2>1, <2>2
<1>5. TypeOK'
  BY <1>3, <1>4 DEF IInv, TypeOK, Labels
<1>6. Running'
  BY <1>1, <1>3, <1>4 DEF IInv, Running, ModesAt, Accepts, Given
<1>7. Verified' /\ MetadataVerifies'
  BY <1>1, <1>3, <1>4 DEF IInv, Verified, MetadataVerifies, VerifyEnclave
<1> QED
  BY <1>5, <1>6, <1>7 DEF IInv

(* "catsig" goes on only with a signature over the given signing material. *)
LEMMA CheckIInv == ASSUME IInv, Check PROVE IInv'
<1>1. pc = "check" /\ cmd.mode = "CATSIG"
  BY DEF IInv, Running, Check, ModesAt
<1>2. File("KEY") \in Files /\ File("SIG") \in Files /\ File("UNSIGNED") \in Files
  BY <1>1, RequiredFacts DEF Required, Roles
<1>3. UNCHANGED <<fs, cmd, meta, course, commands, edits>>
  BY DEF Check
<1>4. /\ css' \in CSS /\ hash' \in Images \cup {Junk}
      /\ pc' \in {"idle", "copy"} /\ verdict' \in {"none", "succeed", "failed", "crashed"}
      /\ pc' = "copy" => css'.signed = hash' /\ css'.by = css'.key
  <2>1. CASE File("KEY").kind # "public" \/ File("SIG").kind # "sig"
    BY <2>1 DEF Check, Finish, IInv, TypeOK
  <2>2. CASE File("KEY").kind = "public" /\ File("SIG").kind = "sig"
    <3>1. /\ File("KEY").key \in Keys
          /\ File("SIG").signed \in Images \cup {Junk} /\ File("SIG").by \in Keys
      BY <1>2, <2>2, KeyFacts, SigFacts
    <3>2. File("UNSIGNED").kind = "hash" => File("UNSIGNED").hash \in Images \cup {Junk}
      BY <1>2, HashFacts
    <3>3. /\ hash' = IF File("UNSIGNED").kind = "hash" THEN File("UNSIGNED").hash ELSE Junk
          /\ css' = [css EXCEPT !.signed = File("SIG").signed, !.by = File("SIG").by,
                                !.key = File("KEY").key]
          /\ IF File("UNSIGNED").kind = "hash" /\ VerifyEnclave([css' EXCEPT !.hash = hash'])
               THEN Goto("copy")
               ELSE Finish("failed")
      BY <2>2 DEF Check
    <3>4. hash' \in Images \cup {Junk}
      BY <3>2, <3>3
    <3>5. css' \in CSS
      BY <3>1, <3>3 DEF IInv, TypeOK, CSS
    <3>6. pc' \in {"idle", "copy"} /\ verdict' \in {"none", "succeed", "failed", "crashed"}
      BY <3>3 DEF Finish, Goto, IInv, TypeOK
    <3>7. pc' = "copy" => VerifyEnclave([css' EXCEPT !.hash = hash'])
      BY <3>3 DEF Finish, Goto
    <3>8. pc' = "copy" => css'.signed = hash' /\ css'.by = css'.key
      BY <3>5, <3>7 DEF VerifyEnclave, CSS
    <3> QED
      BY <3>4, <3>5, <3>6, <3>8
  <2> QED
    BY <2>1, <2>2
<1>5. TypeOK'
  BY <1>3, <1>4 DEF IInv, TypeOK, Labels
<1>6. Running'
  BY <1>1, <1>3, <1>4 DEF IInv, Running, ModesAt, Accepts, Given
<1>7. Verified' /\ MetadataVerifies'
  BY <1>1, <1>3, <1>4 DEF IInv, Verified, MetadataVerifies
<1> QED
  BY <1>5, <1>6, <1>7 DEF IInv

(* copy_file, and the comparison that binds the signature to the measured *)
(* enclave: behind it enclave_css verifies as a whole.                    *)
LEMMA CopyIInv == ASSUME IInv, Copy PROVE IInv'
<1>1. pc = "copy" /\ cmd.mode \in {"SIGN", "CATSIG"}
  BY DEF IInv, Running, Copy, ModesAt
<1>2. /\ File("ELF") \in Files /\ Genuine1(File("ELF"))
      /\ File("OUTPUT") \in Files /\ Genuine1(File("OUTPUT")) /\ cmd.path["OUTPUT"] \in Paths
  BY <1>1, RequiredFacts DEF Required, Roles
<1>3. UNCHANGED <<cmd, css, hash, meta, commands, edits>>
  BY DEF Copy
<1>4. PICK out \in CopyFile(File("ELF"), File("OUTPUT")) :
         /\ fs' = [fs EXCEPT ![cmd.path["OUTPUT"]] = out]
         /\ course' = IF File("OUTPUT") # Absent THEN After(FALSE, "exists")
                      ELSE After(out # File("ELF"), course)
  BY DEF Copy, Write
<1>5. fs' \in [Paths -> Files] /\ MetadataVerifies'
  BY <1>2, <1>4, CopyFacts, WriteFacts
<1>6. course' \in {"smooth", "exists", "disturbed"}
  BY <1>4 DEF After, IInv, TypeOK
<1>7. PICK same \in (IF cmd.mode = "CATSIG" THEN Memcmp(css.hash, hash) ELSE {TRUE}) :
        IF same THEN Goto("update") ELSE Finish("failed")
  BY DEF Copy
<1>8. same \in BOOLEAN /\ (same => cmd.mode = "SIGN" \/ css.hash = hash)
  BY <1>1, <1>7 DEF Memcmp
<1>9. /\ pc' \in {"idle", "update"} /\ verdict' \in {"none", "succeed", "failed", "crashed"}
      /\ pc' = "update" => VerifyEnclave(css)
  BY <1>1, <1>7, <1>8 DEF Goto, Finish, IInv, TypeOK, Verified, VerifyEnclave
<1>10. TypeOK'
  BY <1>3, <1>5, <1>6, <1>9 DEF IInv, TypeOK, Labels
<1>11. Running'
  BY <1>1, <1>3, <1>9 DEF IInv, Running, ModesAt, Accepts, Given
<1>12. Verified'
  BY <1>3, <1>9 DEF Verified, VerifyEnclave
<1> QED
  BY <1>5, <1>10, <1>11, <1>12 DEF IInv

(* update_metadata writes verified metadata only. *)
LEMMA UpdateIInv == ASSUME IInv, UpdateMetadata PROVE IInv'
<1>1. pc = "update" /\ cmd.mode \in {"SIGN", "CATSIG"} /\ VerifyEnclave(css) /\ css \in CSS
  BY DEF IInv, TypeOK, Running, Verified, UpdateMetadata, ModesAt
<1>2. File("OUTPUT") \in Files /\ Genuine1(File("OUTPUT")) /\ cmd.path["OUTPUT"] \in Paths
  BY <1>1, RequiredFacts DEF Required, Roles
<1>3. UNCHANGED <<cmd, css, hash, meta, commands, edits>>
  BY DEF UpdateMetadata
<1>4. fs' \in [Paths -> Files] /\ MetadataVerifies'
  <2>1. CASE Write("OUTPUT", Updated(File("OUTPUT")))
    <3>1. Updated(File("OUTPUT")) \in Files /\ Genuine1(Updated(File("OUTPUT")))
      BY <1>1, <1>2, UpdatedFacts
    <3> QED
      BY <1>2, <2>1, <3>1, WriteFacts DEF Write
  <2>2. CASE UNCHANGED fs
    BY <2>2 DEF IInv, TypeOK, MetadataVerifies
  <2> QED
    BY <2>1, <2>2 DEF UpdateMetadata
<1>5. course' \in {"smooth", "exists", "disturbed"}
  BY DEF UpdateMetadata, IInv, TypeOK
<1>6. /\ pc' \in {"idle", "dump"} /\ verdict' \in {"none", "succeed", "failed", "crashed"}
      /\ pc' = "dump" => cmd.path["DUMPFILE"] # NoPath
  BY DEF UpdateMetadata, AfterUpdate, Goto, Finish, IInv, TypeOK
<1>7. TypeOK'
  BY <1>3, <1>4, <1>5, <1>6 DEF IInv, TypeOK, Labels
<1>8. Running'
  BY <1>1, <1>3, <1>6 DEF IInv, Running, ModesAt, Accepts, Given
<1>9. Verified'
  BY <1>6 DEF Verified
<1> QED
  BY <1>4, <1>7, <1>8, <1>9 DEF IInv

(* "gendata" writes the signing material and stops. *)
LEMMA GenerateIInv == ASSUME IInv, Generate PROVE IInv'
<1>1. pc = "generate" /\ cmd.mode = "GENDATA"
  BY DEF IInv, Running, Generate, ModesAt
<1>2. File("OUTPUT") \in Files /\ Genuine1(File("OUTPUT")) /\ cmd.path["OUTPUT"] \in Paths
  BY <1>1, RequiredFacts DEF Required, Roles
<1>3. UNCHANGED <<cmd, css, hash, meta, commands, edits>> /\ Finish("succeed")
  BY DEF Generate
<1>4. PICK out \in WriteOutcomes(Material(css.hash), File("OUTPUT")) :
         /\ fs' = [fs EXCEPT ![cmd.path["OUTPUT"]] = out]
         /\ course' = After(out # Material(css.hash), course)
  BY DEF Generate, Write
<1>5. Material(css.hash) \in Files /\ Genuine1(Material(css.hash)) /\ Genuine1(Other)
  BY FileFacts DEF IInv, TypeOK, CSS, Genuine1, Material, Other
<1>6. out \in Files /\ Genuine1(out)
  BY <1>2, <1>4, <1>5, FileFacts DEF WriteOutcomes
<1>7. fs' \in [Paths -> Files] /\ MetadataVerifies'
  BY <1>2, <1>4, <1>6, WriteFacts
<1>8. course' \in {"smooth", "exists", "disturbed"}
  BY <1>4 DEF After, IInv, TypeOK
<1>9. TypeOK'
  BY <1>3, <1>7, <1>8 DEF IInv, TypeOK, Labels, Finish
<1> QED
  BY <1>3, <1>7, <1>9 DEF IInv, Finish, Running, Verified

(* dump_enclave_metadata reads metadata from one file and writes another. *)
LEMMA DumpIInv == ASSUME IInv, DumpEnclaveMetadata PROVE IInv'
<1>1. pc # "idle" /\ \/ pc = "dump" /\ cmd.mode \in {"SIGN", "CATSIG"}
                     \/ pc = "load" /\ cmd.mode = "DUMP"
  BY DEF IInv, Running, DumpEnclaveMetadata, ModesAt
<1>2. cmd.path["DUMPFILE"] # NoPath
  <2>1. CASE pc = "dump"
    BY <2>1 DEF IInv, Running
  <2>2. CASE cmd.mode = "DUMP"
    <3>1. "DUMPFILE" \in Required(cmd.mode)
      BY <2>2 DEF Required
    <3> QED
      BY <1>1, <3>1 DEF IInv, Running, Accepts, Given
  <2> QED
    BY <1>1, <2>1, <2>2
<1>3. File("DUMPFILE") \in Files /\ Genuine1(File("DUMPFILE")) /\ cmd.path["DUMPFILE"] \in Paths
  BY <1>2, GivenFacts DEF Roles
<1>4. DumpedRole \in Required(cmd.mode) /\ DumpedRole \in Roles
  BY <1>1 DEF DumpedRole, Required, Roles
<1>5. File(DumpedRole) \in Files /\ Genuine1(File(DumpedRole))
  BY <1>1, <1>4, RequiredFacts
<1>6. UNCHANGED <<cmd, css, hash, meta, commands, edits>>
  BY DEF DumpEnclaveMetadata
<1>7. PICK l \in LoadEnclave(File(DumpedRole)) :
         IF l.res # "loaded"
           THEN Finish(l.res) /\ UNCHANGED <<fs, course>>
           ELSE LET read == DumpFile(ReadMetadata(File(DumpedRole), l.meta))
                IN \E out \in WriteOutcomes(read, File("DUMPFILE")) :
                     /\ Write("DUMPFILE", out)
                     /\ course' = After(out # read, course)
                     /\ IF out = read THEN Finish("succeed") ELSE Finish("failed")
  BY DEF DumpEnclaveMetadata
<1>8. /\ fs' \in [Paths -> Files] /\ MetadataVerifies'
      /\ course' \in {"smooth", "exists", "disturbed"}
      /\ pc' = "idle" /\ verdict' \in {"none", "succeed", "failed", "crashed"}
  <2>1. CASE l.res # "loaded"
    <3>1. l.res \in {"loaded", "failed", "crashed"}
      BY <1>5, LoadFacts
    <3> QED
      BY <1>7, <2>1, <3>1 DEF Finish, IInv, TypeOK, MetadataVerifies
  <2>2. CASE l.res = "loaded"
    <3> DEFINE read == DumpFile(ReadMetadata(File(DumpedRole), l.meta))
    <3>1. PICK out \in WriteOutcomes(read, File("DUMPFILE")) :
             /\ fs' = [fs EXCEPT ![cmd.path["DUMPFILE"]] = out]
             /\ course' = After(out # read, course)
             /\ IF out = read THEN Finish("succeed") ELSE Finish("failed")
      BY <1>7, <2>2 DEF Write
    <3>2. read \in Files /\ Genuine1(read)
      <4>1. ReadMetadata(File(DumpedRole), l.meta) \in CSS
            /\ Genuine(ReadMetadata(File(DumpedRole), l.meta))
        BY <1>5, ReadFacts
      <4> QED
        BY <4>1, FileFacts DEF Genuine1, DumpFile
    <3>3. Other \in Files /\ Genuine1(Other)
      BY FileFacts DEF Genuine1, Other
    <3>4. out \in Files /\ Genuine1(out)
      BY <1>3, <3>1, <3>2, <3>3 DEF WriteOutcomes
    <3>5. fs' \in [Paths -> Files] /\ MetadataVerifies'
      BY <1>3, <3>1, <3>4, WriteFacts
    <3> QED
      BY <3>1, <3>5 DEF Finish, After, IInv, TypeOK
  <2> QED
    BY <2>1, <2>2
<1>9. TypeOK'
  BY <1>6, <1>8 DEF IInv, TypeOK, Labels
<1> QED
  BY <1>8, <1>9 DEF IInv, Running, Verified

(* A killed command leaves the files as they are. *)
LEMMA KilledIInv == ASSUME IInv, Killed PROVE IInv'
<1>1. TypeOK'
  BY DEF IInv, TypeOK, Killed, Finish, Labels
<1> QED
  BY <1>1 DEF IInv, Killed, Finish, Running, Verified, MetadataVerifies

(* The compiler, the holder of the keys and rm write genuine files. *)
LEMMA EditIInv ==
  ASSUME IInv, NEW p \in Paths, NEW c \in Files, Genuine1(c), Edit(p, c)
  PROVE  IInv'
<1>1. fs' \in [Paths -> Files] /\ MetadataVerifies'
  BY WriteFacts DEF Edit
<1>2. edits' \in 0 .. MaxEdits
  BY SignToolAssumption DEF IInv, TypeOK, Edit
<1>3. UNCHANGED <<pc, cmd, css, hash, meta, verdict, commands>> /\ course' = "disturbed"
  BY DEF Edit
<1>4. TypeOK'
  BY <1>1, <1>2, <1>3 DEF IInv, TypeOK
<1> QED
  BY <1>1, <1>3, <1>4 DEF IInv, Running, Verified, Accepts, Given, VerifyEnclave

(* Whatever the others write keeps the invariant. *)
LEMMA OthersIInv == ASSUME IInv, Others PROVE IInv'
<1>1. ASSUME NEW p \in Compiled, NEW i \in Images, Edit(p, Elf(i, NoCss, "whole")) PROVE IInv'
  <2>1. NoCss \in CSS /\ Genuine(NoCss)
    BY DEF NoCss, CSS, Genuine
  <2>2. Elf(i, NoCss, "whole") \in Files /\ Genuine1(Elf(i, NoCss, "whole"))
    BY <2>1, FileFacts DEF Genuine1, Elf
  <2> QED
    BY <1>1, <2>2, EditIInv, SignToolAssumption
<1>2. ASSUME NEW p \in Signatures, NEW k \in Keys, NEW q \in Paths,
             fs[q].kind = "hash", Edit(p, SigFile(fs[q].hash, k))
      PROVE  IInv'
  <2>1. fs[q].hash \in Images \cup {Junk}
    BY <1>2, HashFacts DEF IInv, TypeOK
  <2>2. SigFile(fs[q].hash, k) \in Files /\ Genuine1(SigFile(fs[q].hash, k))
    BY <2>1, FileFacts DEF Genuine1, SigFile
  <2> QED
    BY <1>2, <2>2, EditIInv, SignToolAssumption
<1>3. ASSUME NEW p \in Paths, Edit(p, Absent) PROVE IInv'
  BY <1>3, FileFacts, EditIInv DEF Genuine1, Absent
<1> QED
  BY <1>1, <1>2, <1>3 DEF Others

(* No step leaves the invariant. *)
LEMMA NextIInv == IInv /\ [Next]_vars => IInv'
<1> SUFFICES ASSUME IInv, [Next]_vars PROVE IInv'
  OBVIOUS
<1>1. CASE UNCHANGED vars
  BY <1>1 DEF vars, IInv, TypeOK, Running, Verified, MetadataVerifies, Accepts, Given,
              VerifyEnclave
<1>2. CASE Tool
  BY <1>2, LoadIInv, SignIInv, CheckIInv, CopyIInv, UpdateIInv, GenerateIInv, DumpIInv DEF Tool
<1> QED
  BY <1>1, <1>2, InvokeIInv, KilledIInv, OthersIInv DEF Next

(* Every reachable state satisfies the strengthened invariant. *)
THEOREM Invariance == Spec => []IInv
  BY InitIInv, NextIInv, PTL DEF Spec

(* For any images, keys, paths and command lines: every file stays a file  *)
(* of one kind and every local of main keeps its type.                     *)
THEOREM TypeCorrect == Spec => []TypeOK
<1>1. IInv => TypeOK
  BY DEF IInv
<1> QED
  BY <1>1, Invariance, PTL

(* For any images, keys, paths and command lines: whatever is interrupted, *)
(* repeated or changed meanwhile, metadata on disk is blank or verifies.   *)
THEOREM Metadata == Spec => []MetadataVerifies
<1>1. IInv => MetadataVerifies
  BY DEF IInv
<1> QED
  BY <1>1, Invariance, PTL

(* For any images, keys, paths and command lines: no step of sign_tool     *)
(* writes a file it was given to read, because cmdline_parse refuses two   *)
(* options with one path.                                                  *)
THEOREM Inputs == Spec => InputsKept
<1> DEFINE Kept == \A r \in Given(cmd) \cap {"ELF", "KEY", "SIG", "UNSIGNED"} :
                     fs'[cmd.path[r]] = fs[cmd.path[r]]
<1>1. ASSUME IInv, Tool PROVE Kept
  <2>1. pc # "idle" /\ Accepts(cmd)
    BY <1>1 DEF Tool, Load, Sign, Check, Copy, UpdateMetadata, Generate, DumpEnclaveMetadata,
                IInv, Running
  <2>2. \/ UNCHANGED fs
        \/ \E w \in {"OUTPUT", "DUMPFILE"} : \E out : fs' = [fs EXCEPT ![cmd.path[w]] = out]
    BY <1>1 DEF Tool, Load, Sign, Check, Copy, UpdateMetadata, Generate, DumpEnclaveMetadata,
                Write
  <2>3. ASSUME NEW w \in {"OUTPUT", "DUMPFILE"}, NEW out,
               fs' = [fs EXCEPT ![cmd.path[w]] = out],
               NEW r \in Given(cmd) \cap {"ELF", "KEY", "SIG", "UNSIGNED"}
        PROVE  fs'[cmd.path[r]] = fs[cmd.path[r]]
    <3>1. cmd.path[r] \in Paths /\ fs \in [Paths -> Files] /\ w \in Roles /\ r \in Roles /\ r # w
      BY <1>1 DEF IInv, TypeOK, Given, Roles
    <3>2. cmd.path[w] # cmd.path[r]
      <4>1. CASE w \in Given(cmd)
        BY <2>1, <3>1, <4>1 DEF Accepts
      <4>2. CASE w \notin Given(cmd)
        BY <3>1, <4>2, SignToolAssumption DEF Given
      <4> QED
        BY <4>1, <4>2
    <3> QED
      BY <2>3, <3>1, <3>2
  <2> QED
    BY <2>2, <2>3
<1>2. IInv /\ [Next]_vars => [Tool => Kept]_vars
  BY <1>1
<1> QED
  BY <1>2, Invariance, PTL DEF Spec, InputsKept
=============================================================================
