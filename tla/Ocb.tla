-------------------------------- MODULE Ocb --------------------------------
(***************************************************************************)
(* SM4 in offset codebook mode, the authenticated encryption of            *)
(* lib/gm/source/SM4_Enc.c.                                                *)
(*                                                                         *)
(* A byte is a set of atoms and exclusive or is symmetric difference, so   *)
(* the zero byte is {} and the algebra of the mode is exact: two different *)
(* sums never collide.  The cipher is an injective symbol per key that     *)
(* SM4_Decrypt removes, double_arr counts its applications in the atoms    *)
(* (it is linear and injective), and the stretched nonce is one opaque     *)
(* block per key and nonce.                                                *)
(*                                                                         *)
(* Two writes leave their array: with a nonce of BLOCK bytes               *)
(* offset[15 - nonce_length] is the byte before offset, and when neither   *)
(* text has a full block the table l has no element but l[0] is written.   *)
(* What they hit depends on how the compiler laid the frame out: layout    *)
(* names, for either write, the local that is hit ("dead": none in use).   *)
(***************************************************************************)
EXTENDS Integers, Sequences, SequencesExt, FiniteSetsExt

CONSTANT BLOCK   \* bytes of a block and of a tag (16)

ASSUME OcbAssumption == BLOCK \in Nat \ {0, 1}

Layouts ==
  [table : {"dead", "l_asterisk", "l_dollar"},
   nonce : {"dead", "l_asterisk", "l_dollar", "l"}]

-----------------------------------------------------------------------------
(* Blocks. *)

Zero == [i \in 1 .. BLOCK |-> {}]

xor_16(a, b) == [i \in 1 .. BLOCK |-> SymDiff(a[i], b[i])]

XorAll(blocks) == FoldLeft(xor_16, Zero, blocks)

\* An atom of a ciphertext block: key, plaintext block, position, doublings.
SM4_Encrypt(key, x) == [i \in 1 .. BLOCK |-> {<<"enc", key, x, i, 0>>}]

SM4_Decrypt(key, y) ==
  IF \E a \in y[1] : a[1] = "enc" /\ y = SM4_Encrypt(key, a[3])
  THEN (CHOOSE a \in y[1] : TRUE)[3]
  ELSE [i \in 1 .. BLOCK |-> {<<"dec", key, y, i, 0>>}]

double_arr(s) ==
  [i \in 1 .. BLOCK |-> {<<a[1], a[2], a[3], a[4], a[5] + 1>> : a \in s[i]}]

\* offset[-1] |= 1 hits the last byte of the block before offset.
SetLowBit(s) == [s EXCEPT ![BLOCK] = {<<"or 1", @>>}]

Blocks(text) == Len(text) \div BLOCK

Block(text, i) == SubSeq(text, (i - 1) * BLOCK + 1, i * BLOCK)

\* The bytes behind the last full block, 0x80 and zeros.
Padded(text) ==
  LET full == Blocks(text) * BLOCK
  IN  [i \in 1 .. BLOCK |->
         IF full + i <= Len(text) THEN text[full + i]
         ELSE IF full + i = Len(text) + 1 THEN {<<"0x80">>} ELSE {}]

HasPartial(text) == Len(text) % BLOCK > 0

-----------------------------------------------------------------------------
(* The table of doublings. *)

ocb_ntz(a) == CHOOSE k \in 0 .. a : a % 2^k = 0 /\ a % 2^(k + 1) # 0

\* ocb_ntz_round(a) + 1: the macro has no outer parentheses, so the 1 is only
\* added when a is not 0.
ocb_ntz_round_plus_1(a) ==
  IF a = 0 THEN 0 ELSE (CHOOSE k \in 0 .. a : 2^k <= a /\ a < 2^(k + 1)) + 1

\* Rows of l: enough for the longer of the two texts.
l_length(length, ad_length) ==
  IF length > ad_length THEN ocb_ntz_round_plus_1(length \div BLOCK)
  ELSE ocb_ntz_round_plus_1(ad_length \div BLOCK)

\* L_*, L_$ and the table, as the code finds them when it uses them.
Table(key, length, ad_length, layout) ==
  LET rows     == l_length(length, ad_length)
      asterisk == SM4_Encrypt(key, Zero)
      dollar   == double_arr(asterisk)
      row[i \in 0 .. length + ad_length] ==
        double_arr(IF i = 0 THEN dollar ELSE row[i - 1])
      Local(name, value) ==
        LET v == IF rows = 0 /\ layout.table = name THEN row[0] ELSE value
        IN  IF layout.nonce = name THEN SetLowBit(v) ELSE v
  IN  [l_asterisk |-> Local("l_asterisk", asterisk),
       l_dollar   |-> Local("l_dollar", dollar),
       l |-> [i \in 0 .. length + ad_length |->
                IF layout.nonce = "l" /\ i = rows - 1 THEN SetLowBit(row[i]) ELSE row[i]]]

-----------------------------------------------------------------------------
(* The mode. *)

\* Mutant of Step: blocks are counted from 0.
ntz_of_previous(i) == IF i = 1 THEN 0 ELSE ocb_ntz(i - 1)

\* Which doubling the i-th full block (from 1) adds to the offset.
Step(i) == ocb_ntz(i)

\* The offset after n full blocks.
OffsetAfter(start, t, n) ==
  LET offset[i \in 0 .. n] ==
        IF i = 0 THEN start ELSE xor_16(offset[i - 1], t.l[Step(i)])
  IN  offset

\* The stretched and shifted nonce.
Start(key, nonce) == [i \in 1 .. BLOCK |-> {<<"start", key, nonce, i>>}]

\* Mutant of Checksum: the partial block is left out.
checksum_of_full_blocks(text) == XorAll([i \in 1 .. Blocks(text) |-> Block(text, i)])

\* The sum of the full blocks, and of the partial one where there is one.
Checksum(text) ==
  XorAll([i \in 1 .. Blocks(text) |-> Block(text, i)]
           \o IF HasPartial(text) THEN <<Padded(text)>> ELSE <<>>)

hash(key, data, t) ==
  LET m      == Blocks(data)
      offset == OffsetAfter(Zero, t, m)
  IN  XorAll([i \in 1 .. m |-> SM4_Encrypt(key, xor_16(Block(data, i), offset[i]))]
               \o IF HasPartial(data)
                  THEN <<SM4_Encrypt(key, xor_16(Padded(data), xor_16(offset[m], t.l_asterisk)))>>
                  ELSE <<>>)

\* The offset behind the last block, the partial one included.
LastOffset(text, offset, t) ==
  IF HasPartial(text) THEN xor_16(offset[Blocks(text)], t.l_asterisk)
  ELSE offset[Blocks(text)]

Tag(key, plain, last, data, t) ==
  xor_16(SM4_Encrypt(key, xor_16(xor_16(Checksum(plain), last), t.l_dollar)),
         hash(key, data, t))

\* The partial block is added to the encrypted offset.
Pad(key, text, last) ==
  LET pad  == SM4_Encrypt(key, last)
      full == Blocks(text) * BLOCK
  IN  [i \in 1 .. Len(text) - full |-> SymDiff(pad[i], text[full + i])]

\* What is written to out: the ciphertext and the tag.
SM4_OCB_Encrypt(key, nonce, message, data, layout) ==
  LET m      == Blocks(message)
      t      == Table(key, Len(message), Len(data), layout)
      offset == OffsetAfter(Start(key, nonce), t, m)
      last   == LastOffset(message, offset, t)
  IN  FlattenSeq([i \in 1 .. m |->
         xor_16(SM4_Encrypt(key, xor_16(Block(message, i), offset[i])), offset[i])])
        \o Pad(key, message, last)
        \o Tag(key, message, last, data, t)

\* The plaintext, and whether the tag is the one that follows the ciphertext.
SM4_OCB_Decrypt(key, nonce, encrypted, tag, data, layout) ==
  LET m      == Blocks(encrypted)
      t      == Table(key, Len(encrypted), Len(data), layout)
      offset == OffsetAfter(Start(key, nonce), t, m)
      last   == LastOffset(encrypted, offset, t)
      out    == FlattenSeq([i \in 1 .. m |->
                  xor_16(SM4_Decrypt(key, xor_16(Block(encrypted, i), offset[i])), offset[i])])
                  \o Pad(key, encrypted, last)
  IN  [out |-> out, diff |-> xor_16(Tag(key, out, last, data, t), tag) # Zero]

-----------------------------------------------------------------------------
(* The reference: offsets by Gray code instead of step by step. *)

Bit(n, b) == (n \div 2^b) % 2

\* Offset_i is the start plus the doublings of the bits of i XOR i/2.
RefOffset(start, key, i) ==
  LET L0     == double_arr(double_arr(SM4_Encrypt(key, Zero)))
      L[b \in 0 .. i] == IF b = 0 THEN L0 ELSE double_arr(L[b - 1])
      bits   == {b \in 0 .. i : Bit(i, b) # Bit(i, b + 1)}
  IN  xor_16(start, FoldSet(LAMBDA b, sum : xor_16(sum, L[b]), Zero, bits))

RefBlocks(key, nonce, message) ==
  [i \in 1 .. Blocks(message) |->
     LET o == RefOffset(Start(key, nonce), key, i)
     IN  xor_16(o, SM4_Encrypt(key, xor_16(o, Block(message, i))))]
=============================================================================
