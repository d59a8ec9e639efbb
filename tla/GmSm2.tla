------------------------------- MODULE GmSm2 -------------------------------
(***************************************************************************)
(* SM2 in the monitor's GM library (src/sign_tool/gm/sm2.c): keys,         *)
(* signatures, encryption, and the key exchange between an initiator and a *)
(* responder.                                                              *)
(*                                                                         *)
(* Points and scalars are the numbers of module Ecc. SM3 is symbolic: a    *)
(* hash is the tuple of what was hashed. Bytes matter only in the key      *)
(* derivation, which is where the code counts them: a digest has NUMWORD   *)
(* bytes, and a derived byte is <<seed, counter, position>>.               *)
(***************************************************************************)
EXTENDS Ecc, FiniteSets

CONSTANTS NUMWORD,            \* ECC_NUMWORD: bytes of a digest, a coordinate
          LOW, FIXED,         \* vli_get_random sets the value modulo LOW to FIXED
          Stack               \* points an uninitialised ecc_point may hold

ASSUME Sm2Assumption ==
    /\ NUMWORD \in Nat \ {0}
    /\ LOW \in 1 .. WIDTH /\ FIXED \in 0 .. LOW - 1
    /\ Stack \subseteq [x : 0 .. WIDTH - 1, y : 0 .. WIDTH - 1]

NUMBITS == 8 * NUMWORD        \* ECC_NUMBITS

(* vli_get_random stores one constant u32 and leaves the other bytes of    *)
(* the caller's uninitialised array as they are.                           *)
vli_get_random == {v \in 0 .. WIDTH - 1 : v % LOW = FIXED}

reduced(v) == IF v >= ORD THEN v - ORD ELSE v

-----------------------------------------------------------------------------
(* Keys.                                                                   *)

sm2_valid_public_key(p) ==
    /\ ~ecc_point_is_zero(p)
    /\ p.x < PR /\ p.y < PR
    /\ (p.y * p.y) % PR = mod_add(mod_mult(mod_sub((p.x * p.x) % PR, 3, PR), p.x, PR), CB, PR)

sm2_make_prikey == {reduced(v) : v \in vli_get_random} \ {0}

sm2_make_pubkey(d) == ecc_point_mult(G, d)

-----------------------------------------------------------------------------
(* Signatures over a digest e, any value of a vli. rc 1 is success for     *)
(* sm2_sign, and 0 for sm2_verify.                                         *)

sm2_sign(random, d, e) ==
    LET k == reduced(random)
        r == reduced(mod_add(ecc_point_mult(G, k).x, e, ORD))
        s == mod_mult(mod_inv(mod_add(d, 1, ORD), ORD),
                      mod_sub(k, mod_mult(r, d, ORD), ORD), ORD)
    IN IF random = 0 \/ r = 0 THEN [rc |-> 0, r |-> 0, s |-> 0]
       ELSE [rc |-> 1, r |-> r, s |-> s]

(* Mutant: x1 + e is reduced once, as if the digest were below n.          *)
sm2_verify_once(pub, e, r, s) ==
    LET t == mod_add(r, s, ORD)
    IN /\ r # 0 /\ s # 0
       /\ r < ORD /\ s < ORD
       /\ mod_add(ecc_point_mult2(pub, s, t).x, e, ORD) = r

(* The test of t compares the array with a null pointer and never fires.   *)
sm2_verify(pub, e, r, s) ==
    LET t == mod_add(r, s, ORD)
    IN /\ r # 0 /\ s # 0
       /\ r < ORD /\ s < ORD
       /\ reduced(mod_add(ecc_point_mult2(pub, s, t).x, e, ORD)) = r

-----------------------------------------------------------------------------
(* Key derivation: the bytes it stores, by position. The remainder is      *)
(* taken modulo NUMBITS where the blocks were of NUMWORD bytes, and what   *)
(* is copied past the one digest there is comes from the stack.            *)

(* Mutant: the number of whole blocks is rounded up.                       *)
sm3_kdf_rounded(Z, klen) ==
    [j \in 0 .. NUMWORD * ((klen + NUMWORD - 1) \div NUMWORD) - 1 |->
        <<Z, 1 + (j \div NUMWORD), j % NUMWORD>>]

sm3_kdf(Z, klen) ==
    LET blocks == klen \div NUMWORD
        t == klen % NUMBITS
    IN [j \in 0 .. blocks * NUMWORD + t - 1 |->
          LET i == j - blocks * NUMWORD
          IN IF i < 0 THEN <<Z, 1 + (j \div NUMWORD), j % NUMWORD>>
             ELSE IF i < NUMWORD THEN <<Z, blocks + 1, i>> ELSE <<"stack">>]

-----------------------------------------------------------------------------
(* Encryption. A message is [id, len] with len > 0; byte i of C2 pairs the *)
(* message byte with the pad byte. rc 0 is success, and also what the code *)
(* returns when it stops at a kP with a zero coordinate, C2 and C3 left    *)
(* unwritten. `pad' counts the bytes stored into the 32-byte pad buffer.   *)

sm2_encrypt(pub, M, k) ==
    LET C1 == ecc_point_mult(G, k)
        S == ecc_point_mult(pub, 1)
        nothing == [rc |-> 0, C1 |-> C1, C2 |-> <<>>, C3 |-> <<>>, pad |-> 0]
        padded(kP, pad) ==
          [rc |-> 0, C1 |-> C1,
           C2 |-> [i \in 0 .. M.len - 1 |-> <<M.id, i, pad[i]>>],
           C3 |-> <<kP.x, M, kP.y>>,
           pad |-> Cardinality(DOMAIN pad)]
        with(kP) == IF kP.x = 0 \/ kP.y = 0 THEN nothing
                    ELSE padded(kP, sm3_kdf(<<kP.x, kP.y>>, M.len))
    IN IF sm2_valid_public_key(S) THEN with(ecc_point_mult(pub, k))
       ELSE [nothing EXCEPT !.rc = -1]

sm2_decrypt(d, C1, C2, C3, len) ==
    LET S == ecc_point_mult(C1, 1)
        M == [id |-> C2[0][1], len |-> len]
        clear(pad) == \A i \in DOMAIN C2 : C2[i] = <<M.id, i, pad[i]>>
        with(dB) ==
          IF dB.x = 0 \/ dB.y = 0 THEN [rc |-> 0, M |-> 0]
          ELSE IF clear(sm3_kdf(<<dB.x, dB.y>>, len)) /\ C3 = <<dB.x, M, dB.y>>
          THEN [rc |-> 0, M |-> M]
          ELSE [rc |-> -1, M |-> 0]
    IN IF sm2_valid_public_key(C1) /\ sm2_valid_public_key(S) THEN with(ecc_point_mult(C1, d))
       ELSE [rc |-> -1, M |-> 0]

-----------------------------------------------------------------------------
(* Key exchange. sm2_w keeps the low half of x and sets one bit in it.     *)

HALFWIDTH == 2 ^ (num_bits(WIDTH - 1) \div 2)

sm2_w(x) ==
    LET low == x % HALFWIDTH IN IF (low \div 2) % 2 = 1 THEN low ELSE low + 2

(* Mutant: the other side's temporary point is used for both factors.      *)
sm2_shared_point_other(pri, tempPri, tempPub, otherPub, otherTempPub) ==
    LET t == mod_add(pri, mod_mult(tempPri, sm2_w(otherTempPub.x), ORD), ORD)
        U == ecc_point_add(otherPub, ecc_point_mult(otherTempPub, sm2_w(otherTempPub.x)))
    IN IF ~sm2_valid_public_key(otherTempPub) THEN Stack
       ELSE {ecc_point_mult(U, (t * 1) % ORD)}

(* The shared point, or any point when the code gives up with -1 and its   *)
(* callers, which do not look at the result, go on with what is there.     *)
sm2_shared_point(pri, tempPri, tempPub, otherPub, otherTempPub) ==
    LET t == mod_add(pri, mod_mult(tempPri, sm2_w(tempPub.x), ORD), ORD)
        U == ecc_point_add(otherPub, ecc_point_mult(otherTempPub, sm2_w(otherTempPub.x)))
    IN IF ~sm2_valid_public_key(otherTempPub) THEN Stack
       ELSE {ecc_point_mult(U, (t * 1) % ORD)}

(* Mutant: the temporary points are left out of the check value.           *)
ECC_Key_ex_hash1_short(x, RA, RB, ZA, ZB) == <<x, ZA, ZB>>

ECC_Key_ex_hash1(x, RA, RB, ZA, ZB) == <<x, ZA, ZB, RA, RB>>
ECC_Key_ex_hash2(tag, y, hash) == <<tag, y, hash>>

=============================================================================
