------------------------------- MODULE Sm2Sv -------------------------------
(***************************************************************************)
(* The SM2 signatures of lib/gm (SM2_sv.c), which the sign tool signs and  *)
(* the SDK's enclaves sign and verify with, over the points of module      *)
(* Miracl. What the functions return is a record; they are called with the *)
(* curve set up, and module Gm says when it is.                            *)
(*                                                                         *)
(* SM3 is a constant: the digest of a message under a public key, ZA and   *)
(* the second hash together, is some number of a digest's width.           *)
(***************************************************************************)
EXTENDS Miracl

CONSTANT SM3(_, _)            \* the digest of a message for a public key

Gpoint == epoint_set(GX, GY).p

(* SM2_Init's own checks of the curve it was compiled with.                *)
curve_rc ==
    IF ~epoint_set(GX, GY).valid THEN "ERR_ECURVE_INIT"
    ELSE IF ~point_at_infinity(ecurve_mult(ORD, Gpoint)) THEN "ERR_ORDER"
    ELSE "0"

-----------------------------------------------------------------------------
Test_Point(point) ==
    LET x3(g) == (g.x * g.x * g.x) % PR
        ax(g) == (g.x * (PR - 3)) % PR
        on_curve(g) == (x3(g) + ax(g) + CB) % PR = (g.y * g.y) % PR
    IN on_curve(epoint_get(point))

Test_PubKey(pubKey) ==
    LET element(g) == g.x < PR /\ g.y < PR
    IN IF point_at_infinity(pubKey) THEN "ERR_INFINITY_POINT"
       ELSE IF ~element(epoint_get(pubKey)) THEN "ERR_NOT_VALID_ELEMENT"
       ELSE IF ~Test_Point(pubKey) THEN "ERR_NOT_VALID_POINT"
       ELSE IF ~point_at_infinity(ecurve_mult(ORD, pubKey)) THEN "ERR_ORDER"
       ELSE "0"

(* Mutant: n itself passes for a number from 1 to n - 1.                   *)
Test_Range_n(x) == x < 1 \/ x > ORD

Test_Range(x) == x < 1 \/ x > ORD - 1

(* The numbers a rejection loop over bigrand(n) ends with.                 *)
SM2_make_prikey == 1 .. ORD - 2
SM2_gen_random == 1 .. ORD - 1

public(d) == epoint_get(ecurve_mult(d, Gpoint))
tested(PA) == [rc |-> Test_PubKey(PA), pub |-> epoint_get(PA)]
SM2_make_pubkey(d) == tested(ecurve_mult(d, Gpoint))

-----------------------------------------------------------------------------
(* The signature of the digest e with the nonce k, x1 being kG's x.        *)
signature(e, x1, d, k) ==
    LET r == (e + x1) % ORD
        s == (mod_inv(d + 1, ORD) * (k - ((r * d) % ORD) + ORD)) % ORD
    IN IF r = 0 \/ r + k = ORD THEN [rc |-> "ERR_GENERATE_R"]
       ELSE IF s = 0 THEN [rc |-> "ERR_GENERATE_S"]
       ELSE [rc |-> "0", r |-> r, s |-> s]

(* Mutant: the digest is not bound to the signer's public key.             *)
SM2_Sign_unbound(message, d, k) ==
    signature(SM3(O, message), epoint_get(ecurve_mult(k, Gpoint)).x, d, k)

SM2_Sign(message, d, k) ==
    signature(SM3(public(d), message), epoint_get(ecurve_mult(k, Gpoint)).x, d, k)

SM2_Verify(message, pub, r, s) ==
    LET PA == epoint_set(pub.x, pub.y)
        t == (r + s) % ORD
        sum == ecurve_add(ecurve_mult(s, Gpoint), ecurve_mult(t, PA.p))
    IN IF ~PA.valid THEN "ERR_PUBKEY_INIT"
       ELSE IF Test_Range(r) THEN "ERR_OUTRANGE_R"
       ELSE IF Test_Range(s) THEN "ERR_OUTRANGE_S"
       ELSE IF t = 0 THEN "ERR_GENERATE_T"
       ELSE IF (SM3(pub, message) + epoint_get(sum).x) % ORD = r THEN "0"
       ELSE "ERR_DATA_MEMCMP"

checked(message, key, sig) ==
    IF key.rc # "0" THEN key.rc
    ELSE IF sig.rc # "0" THEN sig.rc
    ELSE SM2_Verify(message, key.pub, sig.r, sig.s)

(* The result, with the key and the signature it made on the way.          *)
SM2_SelfCheck(message, d, k) ==
    LET check(key, sig) == [key |-> key, sig |-> sig, rc |-> checked(message, key, sig)]
    IN check(SM2_make_pubkey(d), SM2_Sign(message, d, k))

=============================================================================
