-------------------------------- MODULE Sm3 --------------------------------
(***************************************************************************)
(* SM3 over a message that arrives in pieces, as both GM libraries do it:  *)
(* SM3_init, SM3_process and SM3_done of lib/gm (SM3.c), and sm3_init,     *)
(* sm3_update and sm3_final of the monitor's (src/sign_tool/gm/sm3.c) with *)
(* the HMAC on top of it.                                                  *)
(*                                                                         *)
(* The compression is symbolic: a state is the sequence of blocks it was   *)
(* given, and a digest is read off the state. What is modelled is which    *)
(* bytes end up in which block. Blocks have BLOCK bytes (64 in the code),  *)
(* the message length is stored in two words at the end of the last block  *)
(* (two times four bytes in the code, two times one here), a word counts   *)
(* modulo WORD (2^32) and a byte has BITS bits (8).                        *)
(***************************************************************************)
EXTENDS Integers, Sequences

CONSTANTS BLOCK, WORD, BITS,
          HASH                \* bytes of a digest (32)

ASSUME Sm3Assumption ==
    /\ {BLOCK, WORD, BITS, HASH} \subseteq Nat \ {0}
    /\ WORD % BLOCK = 0 /\ WORD % BITS = 0 /\ HASH <= BLOCK /\ BLOCK > 2

ONE == <<"0x80">>
ZERO == <<"0">>
Zeros(n) == [i \in 1 .. n |-> ZERO]
word(n) == <<"word", n>>

(* Byte i of a digest.                                                     *)
digest(state) == [i \in 1 .. HASH |-> <<state, i>>]

put_bytes(buf, at, bytes) ==
    [i \in 1 .. BLOCK |-> IF i \in at + 1 .. at + Len(bytes) THEN bytes[i - at] ELSE buf[i]]

-----------------------------------------------------------------------------
(* lib/gm. The length is counted in bits, in one word.                     *)

SM3_init(junk) == [state |-> <<>>, curlen |-> 0, length |-> 0, buf |-> junk]

SM3_compress(md) == [md EXCEPT !.state = Append(@, md.buf), !.curlen = 0]

SM3_process_byte(md, byte) ==
    LET full == [md EXCEPT !.buf[md.curlen + 1] = byte, !.curlen = @ + 1]
    IN IF full.curlen = BLOCK
       THEN [SM3_compress(full) EXCEPT !.length = (@ + BITS * BLOCK) % WORD]
       ELSE full

RECURSIVE SM3_process(_, _)
SM3_process(md, bytes) ==
    IF bytes = <<>> THEN md ELSE SM3_process(SM3_process_byte(md, Head(bytes)), Tail(bytes))

(* Mutant: a block is full only once the marker passes the length words.   *)
room_late == BLOCK - 1

(* What a block has room for before the two words of the length.           *)
room == BLOCK - 2

SM3_done(md) ==
    LET length == (md.length + BITS * md.curlen) % WORD
        marked == [md EXCEPT !.buf[md.curlen + 1] = ONE, !.curlen = @ + 1]
        closed == IF marked.curlen > room
                  THEN SM3_compress([marked EXCEPT
                         !.buf = put_bytes(@, marked.curlen, Zeros(BLOCK - marked.curlen))])
                  ELSE marked
        padded == put_bytes(closed.buf, closed.curlen, Zeros(BLOCK - 2 - closed.curlen))
    IN digest(SM3_compress([closed EXCEPT
                !.buf = put_bytes(padded, BLOCK - 2, <<word(0), word(length)>>)]).state)

-----------------------------------------------------------------------------
(* The monitor's. The length is counted in bytes, in two words, and only   *)
(* it says how much of the buffer is in use.                               *)

sm3_init(ctx) == [ctx EXCEPT !.state = <<>>, !.total = <<0, 0>>]

RECURSIVE whole_blocks(_, _)
whole_blocks(state, bytes) ==
    IF Len(bytes) < BLOCK THEN [state |-> state, rest |-> bytes]
    ELSE whole_blocks(Append(state, SubSeq(bytes, 1, BLOCK)), SubSeq(bytes, BLOCK + 1, Len(bytes)))

sm3_update(ctx, bytes) ==
    LET ilen == Len(bytes)
        left == ctx.total[1] % BLOCK
        fill == BLOCK - left
        fits == left > 0 /\ ilen >= fill
        filled == put_bytes(ctx.buffer, left, SubSeq(bytes, 1, fill))
        done == whole_blocks(IF fits THEN Append(ctx.state, filled) ELSE ctx.state,
                             IF fits THEN SubSeq(bytes, fill + 1, ilen) ELSE bytes)
        total == (ctx.total[1] + ilen) % WORD
    IN IF ilen <= 0 THEN ctx
       ELSE [ctx EXCEPT
               !.total = <<total, IF total < ilen THEN ctx.total[2] + 1 ELSE ctx.total[2]>>,
               !.state = done.state,
               !.buffer = put_bytes(IF fits THEN filled ELSE @, IF fits THEN 0 ELSE left, done.rest)]

sm3_final(ctx) ==
    LET high == ((ctx.total[1] \div (WORD \div BITS)) + ctx.total[2] * BITS) % WORD
        low == (ctx.total[1] * BITS) % WORD
        last == ctx.total[1] % BLOCK
        padn == IF last < BLOCK - 2 THEN BLOCK - 2 - last ELSE 2 * BLOCK - 2 - last
    IN sm3_update(sm3_update(ctx, SubSeq(<<ONE>> \o Zeros(BLOCK - 1), 1, padn)),
                  <<word(high), word(low)>>)

sm3(bytes, junk) ==
    digest(sm3_final(sm3_update(sm3_init([state |-> <<>>, total |-> <<0, 0>>, buffer |-> junk]),
                                bytes)).state)

-----------------------------------------------------------------------------
(* HMAC. A padded key byte is the pair of the pad and the key's byte.      *)

padded_key(pad, key) == [i \in 1 .. BLOCK |-> <<pad, IF i <= Len(key) THEN key[i] ELSE ZERO>>]

sm3_hmac_init(key, junk) ==
    LET short == IF Len(key) > BLOCK THEN sm3(key, junk) ELSE key
        ctx == [state |-> <<>>, total |-> <<0, 0>>, buffer |-> junk,
                ipad |-> padded_key("0x36", short), opad |-> padded_key("0x5C", short)]
    IN sm3_update(sm3_init(ctx), ctx.ipad)

(* Mutant: the context is not started over for the outer hash.             *)
sm3_hmac_final_stale(ctx) ==
    LET inner == sm3_final(ctx)
    IN digest(sm3_final(sm3_update(sm3_update(inner, ctx.opad), digest(inner.state))).state)

sm3_hmac_final(ctx) ==
    LET inner == sm3_final(ctx)
    IN digest(sm3_final(sm3_update(sm3_update(sm3_init(inner), ctx.opad),
                                   digest(inner.state))).state)

=============================================================================
