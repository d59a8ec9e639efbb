------------------------------ MODULE Hashing ------------------------------
(***************************************************************************)
(* A program that hashes a message in pieces of any sizes with both GM     *)
(* libraries side by side, or computes an HMAC with the monitor's. Byte i  *)
(* of the message is <<"m", i>>, byte i of the key <<"k", i>>; what the    *)
(* contexts hold before they are set up is JUNK.                           *)
(***************************************************************************)
EXTENDS Sm3

CONSTANTS Pieces,             \* sizes of the pieces
          MaxMessage,         \* bytes of the longest message
          KeyLengths

VARIABLE stream

JUNK == <<"junk">>
junk == [i \in 1 .. BLOCK |-> JUNK]
named(tag, first, last) == [i \in 1 .. last - first + 1 |-> <<tag, first + i - 1>>]
closed == [st |-> "closed"]

HashInit == stream = closed

Open ==
    /\ stream = closed
    /\ stream' = [st |-> "open", len |-> 0, key |-> <<>>, md |-> SM3_init(junk),
                  ctx |-> sm3_init([state |-> <<>>, total |-> <<0, 0>>, buffer |-> junk])]

OpenHmac(keylen) ==
    /\ stream = closed
    /\ LET key == named("k", 1, keylen)
       IN stream' = [st |-> "hmac", len |-> 0, key |-> key, md |-> SM3_init(junk),
                     ctx |-> sm3_hmac_init(key, junk)]

Update(n) ==
    /\ stream.st \in {"open", "hmac"}
    /\ stream.len + n <= MaxMessage
    /\ LET piece == named("m", stream.len + 1, stream.len + n)
       IN stream' = [stream EXCEPT
            !.len = @ + n, !.ctx = sm3_update(@, piece),
            !.md = IF stream.st = "open" THEN SM3_process(@, piece) ELSE @]

Final ==
    \/ /\ stream.st = "open"
       /\ stream' = [st |-> "digests", len |-> stream.len, lib |-> SM3_done(stream.md),
                     monitor |-> digest(sm3_final(stream.ctx).state)]
    \/ /\ stream.st = "hmac"
       /\ stream' = [st |-> "mac", len |-> stream.len, key |-> stream.key,
                     mac |-> sm3_hmac_final(stream.ctx)]

HashNext ==
    \/ Open
    \/ \E keylen \in KeyLengths : OpenHmac(keylen)
    \/ \E n \in Pieces : Update(n)
    \/ Final

-----------------------------------------------------------------------------
(* The reference: the message, the marker, zeros up to two words short of  *)
(* a block, and the length in bits in two words; the digest is that of the *)
(* message so padded, block by block.                                      *)
Padded(bytes) ==
    LET n == Len(bytes)
        zeros == (-(n + 3)) % BLOCK
        bits == BITS * n
    IN bytes \o <<ONE>> \o Zeros(zeros) \o <<word(bits \div WORD), word(bits % WORD)>>

Reference(bytes) ==
    LET all == Padded(bytes)
    IN digest([i \in 1 .. Len(all) \div BLOCK |-> SubSeq(all, (i - 1) * BLOCK + 1, i * BLOCK)])

(* Whatever the pieces were, both libraries hash the padded message: no    *)
(* byte is lost or stale where a piece meets a block boundary, the length  *)
(* words stand where they should when the marker fills the last block, and *)
(* the monitor's length carries into its second word. lib/gm stores only   *)
(* one word of the length, so it is held to it below 2^32 bits.            *)
DigestIsPadded ==
    stream.st = "digests" =>
      LET bytes == named("m", 1, stream.len)
      IN /\ stream.monitor = Reference(bytes)
         /\ BITS * stream.len < WORD => stream.lib = Reference(bytes)

(* The HMAC is H(K ^ opad, H(K ^ ipad, m)) with K the key, or its digest   *)
(* where the key is longer than a block.                                   *)
HmacIsNested ==
    stream.st = "mac" =>
      LET K == IF Len(stream.key) > BLOCK THEN Reference(stream.key) ELSE stream.key
          inner == Reference(padded_key("0x36", K) \o named("m", 1, stream.len))
      IN stream.mac = Reference(padded_key("0x5C", K) \o inner)

=============================================================================
