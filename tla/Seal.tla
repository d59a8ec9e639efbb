-------------------------------- MODULE Seal --------------------------------
(***************************************************************************)
(* Sealing and unsealing data in an enclave (lib/app/src/seal.c) over      *)
(* Ocb: the enclave seals texts into buffers of its caller, the buffers    *)
(* are kept outside the enclave, where they may be damaged, and a later    *)
(* life of the same enclave unseals them.                                  *)
(*                                                                         *)
(* The monitor (external) derives one key per salt, the same in every life *)
(* of the enclave.  The salt and the nonce are the draws of                *)
(* penglai_read_rand, which starts again from seed 0 in every life: seal.c *)
(* never calls penglai_set_rand_seed.                                      *)
(*                                                                         *)
(* Chained blocks share no state with sealing: a program calls them before *)
(* it seals anything.                                                      *)
(***************************************************************************)
EXTENDS Cbc

CONSTANTS
  HEADER,      \* sizeof(penglai_sealed_data_t)
  U8,          \* values of a uint8_t (256)
  UINT32_MAX,
  TextLens,    \* lengths of the texts to encrypt
  MacLens,     \* lengths of the additional MAC texts
  Builds,      \* [enc, dec : Layouts], what the compiler may have chosen
  MaxSeals,    \* bound: sealed texts
  MaxBytes,    \* bound: bytes sealed, when there is more than one text
  MaxDraws     \* bound: draws of penglai_read_rand in one life

ASSUME SealAssumption ==
  /\ HEADER \in Nat /\ U8 \in Nat \ {0} /\ UINT32_MAX \in Nat
  /\ TextLens \subseteq Nat /\ MacLens \subseteq Nat
  /\ \A b \in Builds : b.enc \in Layouts /\ b.dec \in Layouts
  /\ MaxSeals \in Nat /\ MaxBytes \in Nat /\ MaxDraws \in Nat

VARIABLES
  build,    \* the layouts of this build
  rnd,      \* draws of penglai_read_rand in this life
  kept,     \* the sealed buffers, with what was sealed in them
  last      \* the last call and what it returned

vars == <<build, rnd, kept, last>>

SEAL_DATA_TAG_LEN == BLOCK
NULL == 0

Bytes(name, id, n) == [j \in 1 .. n |-> {<<name, id, j>>}]

Call(op, ret) ==
  [op |-> op, ret |-> ret, of |-> NULL, text |-> <<>>, mac |-> <<>>,
   textRoom |-> 0, macRoom |-> 0]

-----------------------------------------------------------------------------
(* Sizes, in 32 bits. *)

U32(n) == n % (UINT32_MAX + 1)

\* Mutant of penglai_calc_sealed_data_size: the header may wrap.
size_without_last_check(mac, text) ==
  IF \/ U32(UINT32_MAX - mac) <= text
     \/ U32(UINT32_MAX - U32(mac + text)) <= SEAL_DATA_TAG_LEN
  THEN UINT32_MAX
  ELSE U32(mac + text + SEAL_DATA_TAG_LEN + HEADER)

penglai_calc_sealed_data_size(mac, text) ==
  IF \/ U32(UINT32_MAX - mac) <= text
     \/ U32(UINT32_MAX - U32(mac + text)) <= SEAL_DATA_TAG_LEN
     \/ U32(UINT32_MAX - U32(mac + text + SEAL_DATA_TAG_LEN)) <= HEADER
  THEN UINT32_MAX
  ELSE U32(mac + text + SEAL_DATA_TAG_LEN + HEADER)

penglai_get_encrypt_txt_len(b) ==
  IF b = NULL THEN UINT32_MAX ELSE kept[b].sealed.txt_encrypt_size

penglai_get_add_mac_txt_len(b) ==
  IF b = NULL THEN UINT32_MAX ELSE kept[b].sealed.add_mac_txt_size

-----------------------------------------------------------------------------
(* Sealing. *)

\* mac_data_len is a uint8_t.
mac_data_len(n) == n % U8

\* data_copy: the MAC text follows the tag, the rest of the buffer is as it was.
data_copy(out, mac, room) ==
  LET written == out \o SubSeq(mac, 1, mac_data_len(Len(mac)))
  IN  written \o [j \in 1 .. room - Len(written) |-> {<<"junk", j>>}]

\* The buffers a caller may have: one byte short, exact, one byte more.
RoomsFor(n) == {n - 1, n, n + 1} \cap Nat

Short(n) == {n - 1, n} \cap Nat

penglai_seal_data(text, mac, size) ==
  IF penglai_calc_sealed_data_size(Len(mac), Len(text)) > size
  THEN /\ last' = Call("seal", "-1")
       /\ UNCHANGED <<rnd, kept>>
  ELSE \/ \* DeriveSealingKey fails
          /\ rnd' = rnd + 1
          /\ last' = Call("seal", "-1")
          /\ UNCHANGED kept
       \/ LET salt  == rnd
              nonce == rnd + 1
              out   == SM4_OCB_Encrypt(salt, nonce, text, mac, build.enc)
          IN  /\ rnd' = rnd + 2
              /\ kept' = Append(kept,
                   [sealed |-> [nonce |-> nonce, salt |-> salt,
                                txt_encrypt_size |-> Len(text),
                                add_mac_txt_size |-> mac_data_len(Len(mac)),
                                payload |-> data_copy(out, mac, size - HEADER)],
                    text |-> text, mac |-> mac, size |-> size, damaged |-> FALSE])
              /\ last' = Call("seal", "0")

Seal(t, m) ==
  /\ Len(kept) < MaxSeals /\ rnd + 2 <= MaxDraws
  /\ \A b \in DOMAIN kept : t + m + Len(kept[b].text) + Len(kept[b].mac) <= MaxBytes
  /\ \E size \in RoomsFor(penglai_calc_sealed_data_size(m, t)) :
       /\ size < UINT32_MAX
       /\ penglai_seal_data(Bytes("text", Len(kept), t), Bytes("mac", Len(kept), m), size)
  /\ UNCHANGED build

-----------------------------------------------------------------------------
(* Between two lives. *)

\* The enclave ends and is created again: the generator starts over.
Restart ==
  /\ rnd > 0
  /\ rnd' = 0
  /\ last' = Call("restart", "0")
  /\ UNCHANGED <<build, kept>>

\* What may happen to one buffer outside the enclave.
Damaged(b) ==
  LET s == kept[b].sealed
      n == Blocks(s.payload)
      At(i) == (i - 1) * BLOCK
  IN  {[s EXCEPT !.payload[j] = {<<"damage", j>>}] : j \in DOMAIN s.payload}
      \cup {[s EXCEPT !.payload = [k \in DOMAIN s.payload |->
               IF k \in At(i) + 1 .. At(i) + BLOCK THEN s.payload[k - At(i) + At(i + 1)]
               ELSE IF k \in At(i + 1) + 1 .. At(i + 1) + BLOCK
                    THEN s.payload[k - At(i + 1) + At(i)]
                    ELSE s.payload[k]]] : i \in 1 .. n - 1}
      \cup {[s EXCEPT !.payload = kept[c].sealed.payload] : c \in DOMAIN kept}
      \cup {[s EXCEPT !.txt_encrypt_size = k] : k \in RoomsFor(s.txt_encrypt_size)}
      \cup {[s EXCEPT !.add_mac_txt_size = k] : k \in RoomsFor(s.add_mac_txt_size)}

Damage(b) ==
  /\ ~ \E c \in DOMAIN kept : kept[c].damaged
  /\ \E s \in Damaged(b) :
       /\ s # kept[b].sealed
       /\ kept' = [kept EXCEPT ![b].sealed = s, ![b].damaged = TRUE]
  /\ last' = Call("damage", "0")
  /\ UNCHANGED <<build, rnd>>

-----------------------------------------------------------------------------
(* Unsealing. *)

\* Byte j of a payload, or whatever lies behind it.
PayloadBytes(s, from, n) ==
  [j \in 1 .. n |-> IF from + j \in DOMAIN s.payload THEN s.payload[from + j]
                    ELSE {<<"past", from + j>>}]

\* Mutant of mac_data_offset: the tag is not stepped over.
mac_offset_without_tag(s) == s.txt_encrypt_size

mac_data_offset(s) == s.txt_encrypt_size + SEAL_DATA_TAG_LEN

\* A failed authentication is reported in the result, the outputs are written
\* all the same.
Unsealed(b, textRoom, macRoom) ==
  LET s   == kept[b].sealed
      mac == PayloadBytes(s, mac_data_offset(s), s.add_mac_txt_size)
      d   == SM4_OCB_Decrypt(s.salt, s.nonce, PayloadBytes(s, 0, s.txt_encrypt_size),
               PayloadBytes(s, s.txt_encrypt_size, SEAL_DATA_TAG_LEN), mac, build.dec)
  IN  [op |-> "unseal", ret |-> IF d.diff THEN "diff" ELSE "0", of |-> b,
       text |-> d.out, mac |-> mac, textRoom |-> textRoom, macRoom |-> macRoom]

penglai_unseal_data(b, textRoom, macRoom) ==
  IF \/ penglai_get_encrypt_txt_len(b) > textRoom
     \/ penglai_get_add_mac_txt_len(b) > macRoom
  THEN last' = Call("unseal", "-1")
  ELSE \/ last' = Call("unseal", "no key")   \* the monitor's nonzero code
       \/ last' = Unsealed(b, textRoom, macRoom)

Unseal(b) ==
  /\ \E t \in Short(IF b = NULL THEN 1 ELSE penglai_get_encrypt_txt_len(b)),
        m \in Short(IF b = NULL THEN 1 ELSE penglai_get_add_mac_txt_len(b)) :
       penglai_unseal_data(b, t, m)
  /\ UNCHANGED <<build, rnd, kept>>

-----------------------------------------------------------------------------
(* Chained blocks. *)

\* A text of n bytes is encrypted, its ciphertext kept outside, where one byte
\* (hit) may be damaged or the last one cut off, and decrypted again.
Stored(cipher, hit, cut) ==
  LET damaged == IF hit = 0 THEN cipher ELSE [cipher EXCEPT ![hit] = {<<"damage", hit>>}]
  IN  IF cut THEN Front(damaged) ELSE damaged

Chained(plain, iv, cipher, hit, cut, room) ==
  [op |-> "cbc", ret |-> "0", of |-> NULL,
   text |-> SM4_CBC_Decrypt("key", iv, Stored(cipher, hit, cut), room),
   mac |-> <<>>, textRoom |-> room, macRoom |-> 0,
   plain |-> plain, cipher |-> cipher, hit |-> hit, cut |-> cut]

CbcCall(plain, iv, cipherRoom) ==
  LET cipher == SM4_CBC_Encrypt("key", iv, plain, cipherRoom)
  IN  /\ kept = <<>> /\ rnd = 0 /\ last.op = "restart"
      /\ IF Len(cipher) = 0 THEN last' = Call("cbc", "-1")
         ELSE \E hit \in 0 .. Len(cipher), cut \in BOOLEAN, room \in RoomsFor(Len(plain)) :
                last' = Chained(plain, iv, cipher, hit, cut, room)
      /\ UNCHANGED <<build, rnd, kept>>

Init ==
  /\ build \in Builds
  /\ rnd = 0
  /\ kept = <<>>
  /\ last = Call("restart", "0")

Next ==
  \/ \E t \in TextLens, m \in MacLens : Seal(t, m)
  \/ Restart
  \/ \E b \in DOMAIN kept : Damage(b)
  \/ \E b \in {NULL} \cup DOMAIN kept : Unseal(b)
  \/ \E n \in TextLens, iv \in {Zero, Bytes("iv", 0, BLOCK)} :
       \E room \in RoomsFor(CBC_CipherText_Len(n)) : CbcCall(Bytes("text", 0, n), iv, room)

Spec == Init /\ [][Next]_vars

-----------------------------------------------------------------------------
(* Properties. *)

\* A call never writes behind a buffer of its caller: the ciphertext, the tag
\* and the MAC text fit the size penglai_seal_data accepted, and what
\* penglai_unseal_data writes fits the two lengths it was given.
WritesFit ==
  /\ \A b \in DOMAIN kept :
       ~kept[b].damaged => Len(kept[b].sealed.payload) <= kept[b].size - HEADER
  /\ Len(last.text) <= last.textRoom /\ Len(last.mac) <= last.macRoom

Agree == build.enc = build.dec

\* Unsealing an undamaged buffer with the same layout of locals in both
\* functions gives back both texts and 0 exactly when the length of the MAC text
\* fits the uint8_t of data_copy; a longer one is refused as damaged. SM4_CBC_Decrypt
\* gives back as many bytes as there is room for, zeros behind the text, all right
\* but the damaged block and the byte one block behind the damaged one; a ciphertext
\* that is no whole number of blocks gives nothing.
RoundTrip ==
  /\ last.op = "unseal" /\ last.of # NULL /\ Agree /\ ~kept[last.of].damaged =>
       LET k == kept[last.of]
       IN  IF Len(k.mac) < U8
           THEN last.ret = "0" /\ last.text = k.text /\ last.mac = k.mac
           ELSE last.ret = "diff"
  /\ last.op = "cbc" /\ last.ret = "0" =>
       /\ Len(last.text) = IF last.cut THEN 0 ELSE Min({last.textRoom, Len(last.cipher)})
       /\ \A i \in DOMAIN last.text :
            last.text[i] = (IF i <= Len(last.plain) THEN last.plain[i] ELSE {})
              <=> /\ last.hit = 0 \/ (i - 1) \div BLOCK # (last.hit - 1) \div BLOCK
                  /\ last.hit = 0 \/ i # last.hit + BLOCK

\* A result of 0 means that both texts are the ones some call sealed together,
\* whatever happened to the buffer in between.
Authentic ==
  last.op = "unseal" /\ last.of # NULL /\ last.ret = "0" =>
    \E b \in DOMAIN kept : kept[b].text = last.text /\ kept[b].mac = last.mac

\* The step-by-step offsets give the ciphertext blocks of the mode's
\* definition, in every buffer that was not damaged (with no local hit).
CiphertextIsOcb ==
  \A b \in DOMAIN kept :
    LET k == kept[b]
    IN  ~k.damaged /\ build.enc = [table |-> "dead", nonce |-> "dead"] =>
          SubSeq(k.sealed.payload, 1, Blocks(k.text) * BLOCK)
            = FlattenSeq(RefBlocks(k.sealed.salt, k.sealed.nonce, k.text))
=============================================================================
