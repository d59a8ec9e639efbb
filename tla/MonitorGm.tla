----------------------------- MODULE MonitorGm -----------------------------
(***************************************************************************)
(* The monitor's GM library as its callers see it (src/sign_tool/gm): the  *)
(* key exchange of module KeyExchange, and calls of the functions that     *)
(* keep no state. `call' is the last such call with what it returned; it   *)
(* is made before an exchange starts, since neither touches the other.     *)
(***************************************************************************)
EXTENDS KeyExchange, Vli

CONSTANTS NDIGITS,            \* digits of a vli in the arithmetic calls
          Operands, Moduli,   \* of the arithmetic calls
          Products,           \* eight-digit products for the special primes
          Digests,            \* hashes to sign and verify
          Lengths             \* message lengths

VARIABLE call

none == [op |-> "none"]

(* 2^256 - 2^224 - 2^96 + 2^64 - 1 and 2^256 - 2^224 + 2^192 + 2^96 - 1    *)
(* with 2^32 replaced by B: the primes the two fast reductions are for.    *)
sm2_prime == B ^ 8 - B ^ 7 - B ^ 3 + B ^ 2 - 1
nist_prime == B ^ 8 - B ^ 7 + B ^ 6 + B ^ 3 - 1

Arithmetic(l, r, m) ==
    LET n == NDIGITS
        product == vli_mult(l, r, n)
    IN [op |-> "arithmetic", l |-> l, r |-> r, m |-> m,
        add |-> vli_add(l, r, n), sub |-> vli_sub(l, r, n),
        mult |-> product, plain |-> plain_vli_mult(l, r, n), square |-> vli_square(l, n),
        div |-> bn_div(product, 4 * n, m, 2 * n), plain_mod |-> plain_vli_mod(product, m, n),
        mod_add |-> vli_mod_add(l % m, r % m, m, n),
        mod_sub |-> vli_mod_sub(l % m, r % m, m, n),
        mod_mult |-> vli_mod_mult(l, r, m, n), mod_square |-> vli_mod_square(l, m, n),
        mod_exp |-> vli_mod_exp(l % m, r, m, n),
        mod_inv |-> vli_mod_inv(l % m, m, n),
        bits |-> vli_num_bits(l, n),
        bit |-> [i \in 0 .. 2 * HALF * n - 1 |-> vli_test_bit(l, i)]]

FastReduction(product) ==
    [op |-> "fast", product |-> product,
     sm2 |-> vli_mmod_fast_sm2_256(product, sm2_prime),
     nist |-> vli_mmod_fast_nist_256(product, nist_prime)]

PointMult(p, k) == [op |-> "mult", p |-> p, k |-> k, res |-> ecc_point_mult(p, k)]

Verify(d, e, r, s) ==
    [op |-> "verify", d |-> d, e |-> e, r |-> r, s |-> s,
     ok |-> sm2_verify(sm2_make_pubkey(d), e, r, s)]

Encrypt(d, M, k, C) ==
    [op |-> "encrypt", d |-> d, M |-> M, k |-> k, rc |-> C.rc, pad |-> C.pad,
     back |-> sm2_decrypt(d, C.C1, C.C2, C.C3, M.len)]

Calls ==
    \/ \E l, r \in Operands, m \in Moduli : call' = Arithmetic(l, r, m)
    \/ \E product \in Products : call' = FastReduction(product)
    \/ \E p \in OnCurve, k \in 0 .. WIDTH - 1 : call' = PointMult(p, k)
    \/ \E e \in Digests, r, s \in 0 .. ORD : call' = Verify(dA, e, r, s)
    \/ \E n \in Lengths, k \in vli_get_random :
         LET M == [id |-> "m", len |-> n]
         IN call' = Encrypt(dA, M, k, sm2_encrypt(sm2_make_pubkey(dA), M, k))

Init == KxInit /\ call = none

Next ==
    \/ a = idle /\ call = none /\ Calls /\ UNCHANGED kxvars
    \/ call = none /\ KxNext /\ UNCHANGED call

-----------------------------------------------------------------------------
(* The digit loops compute the numbers they are named after, for all       *)
(* operands and for every modulus with its top bit set, as p and n have:   *)
(* sums and differences with their carries, the two ways to multiply,      *)
(* quotient and remainder, powers, inverses, and the fast reductions for   *)
(* the two primes of special form.                                         *)
ArithmeticRight ==
    /\ call.op = "arithmetic" =>
         LET l == call.l   r == call.r   m == call.m   W == D ^ NDIGITS
             power[k \in 0 .. r] ==
               LET root == power[k \div 2]
               IN IF k = 0 THEN 1 ELSE (((root * root) % m) * (IF EVEN(k) THEN 1 ELSE l)) % m
         IN /\ call.add = [v |-> (l + r) % W, carry |-> (l + r) \div W]
            /\ call.sub = [v |-> (l - r) % W, carry |-> Bit(l < r)]
            /\ call.mult = l * r /\ call.plain = l * r /\ call.square = l * l
            /\ call.div = [a |-> (l * r) \div m, b |-> (l * r) % m]
            /\ call.plain_mod = (l * r) % m
            /\ call.mod_add = (l + r) % m /\ call.mod_sub = (l - r) % m
            /\ call.mod_mult = (l * r) % m /\ call.mod_square = (l * l) % m
            /\ call.mod_exp = power[r]
            /\ l % m # 0 => (call.mod_inv * l) % m = 1
            /\ l < 2 ^ call.bits /\ (l > 0 => l >= 2 ^ (call.bits - 1))
            /\ \A i \in DOMAIN call.bit : call.bit[i] <=> (l \div 2 ^ i) % 2 = 1
    /\ call.op = "fast" => /\ call.sm2 = call.product % sm2_prime
                           /\ call.nist = call.product % nist_prime

(* ecc_point_mult(P, k) is k times P for every point and every scalar a    *)
(* vli can hold but 0, 1 and n - 1: the ladder takes the scalar's leading  *)
(* bit for granted, so 1 is read as binary 11 and gives 3P.                *)
PointMultRight ==
    call.op = "mult" =>
      /\ Ladderable(call.k) => call.res = Times(call.k, call.p)
      /\ call.k = 1 => call.res = Times(3, call.p)

(* A verification is regular when no addition of Shamir's trick meets the  *)
(* point at infinity or the same point twice.                              *)
RegularVerification(d, r, s) ==
    LET t == (r + s) % ORD
        log(i) == ((s \div 2 ^ i) + d * (t \div 2 ^ i)) % ORD
    IN /\ d \notin {1, ORD - 1}
       /\ \A i \in 0 .. num_bits(IF s > t THEN s ELSE t) - 2 :
            LET twice == (2 * log(i + 1)) % ORD
                added == (test_bit(s, i) + d * test_bit(t, i)) % ORD
            IN test_bit(s, i) + test_bit(t, i) > 0 => twice \notin {0, added}

(* sm2_verify accepts what the SM2 scheme accepts: r and s from 1 to n-1,  *)
(* t = r + s, and x1 + e = r modulo n for (x1, y1) = [s]G + [t]P. This is  *)
(* for t other than 0, which the scheme refuses and the code tests in a    *)
(* way that never fires, and for digests whose sum with x1 does not pass   *)
(* 2^256 + n, where the code drops a carry.                                *)
VerifyIsScheme ==
    (call.op = "verify" /\ (call.r + call.s) % ORD # 0) =>
      LET t == (call.r + call.s) % ORD
          x1 == GTable[(call.s + t * call.d) % ORD].x
      IN (RegularVerification(call.d, call.r, call.s) /\ x1 + call.e < WIDTH + ORD) =>
           (call.ok <=> /\ call.r \in 1 .. ORD - 1 /\ call.s \in 1 .. ORD - 1
                        /\ (x1 + call.e) % ORD = call.r)

(* sm2_decrypt gives back what sm2_encrypt was given, and for a message    *)
(* shorter than a digest the pad fits its 32-byte buffer exactly.          *)
DecryptGivesBack ==
    call.op = "encrypt" =>
      /\ call.rc = 0 /\ call.back = [rc |-> 0, M |-> call.M]
      /\ call.M.len < NUMWORD => call.pad = call.M.len

=============================================================================
