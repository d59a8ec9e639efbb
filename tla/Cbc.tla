-------------------------------- MODULE Cbc --------------------------------
(***************************************************************************)
(* SM4 with chained blocks, the other mode of lib/gm/source/SM4_Enc.c,     *)
(* over the bytes and the cipher of module Ocb. Both functions return the  *)
(* number of bytes they wrote, here the length of the result.              *)
(***************************************************************************)
EXTENDS Ocb

CBC_CipherText_Len(n) == ((n + BLOCK - 1) \div BLOCK) * BLOCK

\* Block j of a text, filled up with zeros.
ZeroPadded(text, j) ==
  [i \in 1 .. BLOCK |->
     IF (j - 1) * BLOCK + i <= Len(text) THEN text[(j - 1) * BLOCK + i] ELSE {}]

SM4_CBC_Encrypt(key, iv, text, room) ==
  LET rounds == CBC_CipherText_Len(Len(text)) \div BLOCK
      c[j \in 0 .. rounds] ==
        IF j = 0 THEN iv ELSE SM4_Encrypt(key, xor_16(ZeroPadded(text, j), c[j - 1]))
  IN  IF room < CBC_CipherText_Len(Len(text)) THEN <<>>
      ELSE FlattenSeq([j \in 1 .. rounds |-> c[j]])

SM4_CBC_Decrypt(key, iv, text, room) ==
  LET before(j) == IF j = 1 THEN iv ELSE Block(text, j - 1)
      end(j)    == IF j * BLOCK > room THEN room ELSE j * BLOCK
      out(j)    == SubSeq(xor_16(before(j), SM4_Decrypt(key, Block(text, j))),
                          1, end(j) - (j - 1) * BLOCK)
  IN  IF Len(text) % BLOCK # 0 THEN <<>>
      ELSE FlattenSeq([j \in 1 .. Blocks(text) |-> out(j)])
=============================================================================
