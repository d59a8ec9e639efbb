-------------------------------- MODULE Vli --------------------------------
(***************************************************************************)
(* The big numbers of the monitor's GM library (src/sign_tool/gm/big.c).   *)
(*                                                                         *)
(* A vli is an array of ndigits u64 digits, the least one first, and is    *)
(* written here as the number those digits spell; digit(v, i) is the       *)
(* code's v[i]. A u64 is two u32 halves and both widths matter: bn_div     *)
(* walks the same memory as halves. A half has HALF bits; every sum,       *)
(* difference and product of digits is taken modulo the width of the C     *)
(* type that holds it, so a carry that the code would lose is lost here.   *)
(***************************************************************************)
EXTENDS Integers, Sequences

CONSTANT HALF                 \* bits of a u32 half; a u64 digit has 2 * HALF

ASSUME HalfAssumption == HALF \in Nat \ {0}

B == 2 ^ HALF                 \* u32 values are 0 .. B-1
D == B * B                    \* u64 values are 0 .. D-1

-----------------------------------------------------------------------------
(* Digits.                                                                 *)

digit(v, i) == (v \div D ^ i) % D
half(v, i) == (v \div B ^ i) % B

(* The number that `n' digits f[0], f[1], ... of `base' spell.             *)
spell(f, n, base) ==
    LET s[i \in 0 .. n] == IF i = n THEN 0 ELSE f[i] + base * s[i + 1] IN s[0]

Bit(b) == IF b THEN 1 ELSE 0
EVEN(v) == v % 2 = 0

vli_test_bit(v, bit) == (digit(v, bit \div (2 * HALF)) \div 2 ^ (bit % (2 * HALF))) % 2 = 1

vli_num_digits(v, n) ==
    CHOOSE k \in 0 .. n : /\ k > 0 => digit(v, k - 1) # 0
                          /\ \A i \in k .. n - 1 : digit(v, i) = 0

bits_of(d) == CHOOSE k \in 0 .. 2 * HALF : d < 2 ^ k /\ (k > 0 => d >= 2 ^ (k - 1))

vli_num_bits(v, n) ==
    LET k == vli_num_digits(v, n)
    IN IF k = 0 THEN 0 ELSE (k - 1) * 2 * HALF + bits_of(digit(v, k - 1))

vli_cmp(l, r, n) ==
    LET differ == {i \in 0 .. n - 1 : digit(l, i) # digit(r, i)}
        top == CHOOSE i \in differ : \A j \in differ : j <= i
    IN IF differ = {} THEN 0 ELSE IF digit(l, top) > digit(r, top) THEN 1 ELSE -1

-----------------------------------------------------------------------------
(* Shifts, sums and differences: the vector and the carry out of it.       *)

vli_lshift(v, shift, n) ==
    LET over(i) == IF i = 0 \/ shift = 0 THEN 0
                   ELSE digit(v, i - 1) \div 2 ^ (2 * HALF - shift)
    IN [v |-> spell([i \in 0 .. n - 1 |-> ((digit(v, i) * 2 ^ shift) % D) + over(i)], n, D),
        carry |-> over(n)]

vli_rshift(v, shift, n) ==
    LET under(i) == IF i = n - 1 \/ shift = 0 THEN 0
                    ELSE (digit(v, i + 1) * 2 ^ (2 * HALF - shift)) % D
    IN spell([i \in 0 .. n - 1 |-> (digit(v, i) \div 2 ^ shift) + under(i)], n, D)

(* Mutant: the carry that came in is forgotten when the sum equals the left digit. *)
vli_add_forgets(l, r, n) ==
    LET sum(i, c) == (digit(l, i) + digit(r, i) + c) % D
        carry[i \in 0 .. n] ==
          IF i = 0 THEN 0 ELSE Bit(sum(i - 1, carry[i - 1]) < digit(l, i - 1))
    IN [v |-> spell([i \in 0 .. n - 1 |-> sum(i, carry[i])], n, D), carry |-> carry[n]]

(* The carry is found by comparing the sum with the left digit; a sum      *)
(* equal to it keeps the carry that came in.                               *)
vli_add(l, r, n) ==
    LET sum(i, c) == (digit(l, i) + digit(r, i) + c) % D
        carry[i \in 0 .. n] ==
          IF i = 0 THEN 0
          ELSE LET c == carry[i - 1]
                   s == sum(i - 1, c)
               IN IF s # digit(l, i - 1) THEN Bit(s < digit(l, i - 1)) ELSE c
    IN [v |-> spell([i \in 0 .. n - 1 |-> sum(i, carry[i])], n, D), carry |-> carry[n]]

vli_sub(l, r, n) ==
    LET diff(i, c) == (digit(l, i) - digit(r, i) - c) % D
        borrow[i \in 0 .. n] ==
          IF i = 0 THEN 0
          ELSE LET c == borrow[i - 1]
                   d == diff(i - 1, c)
               IN IF d # digit(l, i - 1) THEN Bit(d > digit(l, i - 1)) ELSE c
    IN [v |-> spell([i \in 0 .. n - 1 |-> diff(i, borrow[i])], n, D), carry |-> borrow[n]]

(* v / 2 modulo an odd m: m is added to an odd v, and the carry put back   *)
(* as the top bit.                                                         *)
halve(v, m, n) ==
    LET back(s) == vli_rshift(s.v, 1, n) + s.carry * (D ^ n \div 2)
    IN IF EVEN(v) THEN vli_rshift(v, 1, n) ELSE back(vli_add(v, m, n))

-----------------------------------------------------------------------------
(* Products.                                                               *)

mul_64_64(l, r) ==
    LET m0 == (l % B) * (r % B)
        m1 == (l % B) * (r \div B)
        m2 == ((l \div B) * (r % B) + (m0 \div B) + m1) % D
        m3 == ((l \div B) * (r \div B) + IF m2 < m1 THEN B ELSE 0) % D
    IN [low |-> (m0 % B) + ((m2 * B) % D), high |-> (m3 + (m2 \div B)) % D]

(* b + c * d over `digits' digits, and the digit that carries out.         *)
vli_add_digit_mul(b, c, d, digits) ==
    LET sum(r1, r2, mul, in) ==
          [digit |-> r2, carry |-> (Bit(r1 < in) + Bit(r2 < mul.low) + mul.high) % D]
        added(r1, mul, in) == sum(r1, (r1 + mul.low) % D, mul, in)
        step(i, in) == added((digit(b, i) + in) % D, mul_64_64(c, digit(d, i)), in)
        carry[i \in 0 .. digits] ==
          IF i = 0 THEN 0 ELSE step(i - 1, carry[i - 1]).carry
    IN IF c = 0 THEN [v |-> b, carry |-> 0]
       ELSE [v |-> spell([i \in 0 .. digits - 1 |-> step(i, carry[i]).digit], digits, D),
             carry |-> carry[digits]]

(* Row by row: row i replaces the digits i .. i + cdigits - 1 of t and     *)
(* adds its carry to the digit above them.                                 *)
rows_added(l, r, rows, cdigits) ==
    LET stored(old, row, i) == (old % D ^ i) + row.v * D ^ i
                                 + ((digit(old, i + cdigits) + row.carry) % D) * D ^ (i + cdigits)
        next(old, i) ==
          stored(old, vli_add_digit_mul((old \div D ^ i) % D ^ cdigits, digit(l, i), r, cdigits), i)
        t[i \in 0 .. rows] == IF i = 0 THEN 0 ELSE next(t[i - 1], i - 1)
    IN t[rows]

bn_mult(l, r, n) == rows_added(l, r, vli_num_digits(l, n), vli_num_digits(r, n))

add_128_128(a, b) ==
    LET low == (a.low + b.low) % D
    IN [low |-> low, high |-> (a.high + b.high + Bit(low < a.low)) % D]

(* One term into the three-digit accumulator (r2, r01), doubled if asked.  *)
accumulate(acc, term, twice) ==
    LET product == IF twice
                   THEN [low |-> (2 * term.low) % D,
                         high |-> ((2 * term.high) % D) + (term.low \div (D \div 2))]
                   ELSE term
        r01 == add_128_128(acc.r01, product)
    IN [r01 |-> r01,
        r2 |-> acc.r2 + (IF twice THEN term.high \div (D \div 2) ELSE 0)
                 + Bit(r01.high < product.high)]

RECURSIVE column(_, _, _, _, _, _, _)
column(l, r, k, i, last, squaring, acc) ==
    IF i > last THEN acc
    ELSE column(l, r, k, i + 1, last, squaring,
                accumulate(acc, mul_64_64(digit(l, i), digit(r, k - i)),
                           squaring /\ i < k - i))

(* Column by column; a square takes half of each column and doubles it.    *)
columns(l, r, n, squaring) ==
    LET last(k) == IF squaring THEN k \div 2 ELSE IF k < n THEN k ELSE n - 1
        acc[k \in 0 .. 2 * n - 2] ==
          LET old == IF k = 0 THEN [r01 |-> [low |-> 0, high |-> 0], r2 |-> 0]
                     ELSE acc[k - 1]
          IN column(l, r, k, IF k < n THEN 0 ELSE k + 1 - n, last(k), squaring,
                    [r01 |-> [low |-> old.r01.high, high |-> old.r2], r2 |-> 0])
    IN spell([k \in 0 .. 2 * n - 1 |->
                IF k < 2 * n - 1 THEN acc[k].r01.low ELSE acc[k - 1].r01.high], 2 * n, D)

plain_vli_mult(l, r, n) == columns(l, r, n, FALSE)
vli_square(l, n) == columns(l, l, n, TRUE)

-----------------------------------------------------------------------------
(* Division with remainder, on halves.                                     *)

(* b - c * d over `digits' halves, and the half to take from the next one. *)
vli_sub_digit_mult(b, c, d, digits) ==
    LET step(i, in) ==
          LET product == c * half(d, i)
              a1 == (half(b, i) - in) % B
              a2 == (a1 - product) % B
          IN [half |-> a2,
              borrow |-> (Bit(a1 > B - 1 - in) + Bit(a2 > B - 1 - (product % B))
                            + (product \div B)) % B]
        borrow[i \in 0 .. digits] ==
          IF i = 0 THEN 0 ELSE step(i - 1, borrow[i - 1]).borrow
    IN IF c = 0 THEN [v |-> b, borrow |-> 0]
       ELSE [v |-> spell([i \in 0 .. digits - 1 |-> step(i, borrow[i]).half], digits, B),
             borrow |-> borrow[digits]]

(* A quotient half estimated from the two leading halves, never too large: *)
(* the divisor's leading half t is rounded up.                             *)
quotient_guess(hi, lo, t) ==
    IF t = B - 1 THEN hi ELSE ((lo + B * hi) \div (t + 1)) % B

(* The while loop that raises a low estimate.                              *)
RECURSIVE corrected(_, _, _, _, _)
corrected(ai, low, top, dd, n) ==
    IF top = 0 /\ vli_cmp(low, dd, n) < 0 THEN [ai |-> ai, low |-> low]
    ELSE LET s == vli_sub(low, dd, n)
         IN corrected((ai + 1) % B, s.v, (top - s.carry) % B, dd, n)

(* cc holds cdigits + 1 halves; quotient half i comes from the halves i to *)
(* i + dddigits of cc, which the remainder so far replaces. The leading    *)
(* one of them is 0 when the while loop ends.                              *)
RECURSIVE div_loop(_, _, _, _, _)
div_loop(i, cc, a, dd, dddigits) ==
    IF i < 0 THEN [cc |-> cc, a |-> a]
    ELSE LET next(r) ==
               div_loop(i - 1, (cc % B ^ i) + r.low * B ^ i, a + r.ai * B ^ i, dd, dddigits)
             raised(ai, less) ==
               corrected(ai, less.v, (half(cc, i + dddigits) - less.borrow) % B,
                         dd, dddigits \div 2)
             with(ai) ==
               raised(ai, vli_sub_digit_mult((cc \div B ^ i) % B ^ dddigits, ai, dd, dddigits))
         IN next(with(quotient_guess(half(cc, i + dddigits), half(cc, i + dddigits - 1),
                                     half(dd, dddigits - 1))))

bn_div(c, cdigits, d, dddigits) ==
    LET divided(cl, dl) ==
          div_loop(cdigits - dddigits, cl.v + (cl.carry % B) * B ^ cdigits, 0, dl.v, dddigits)
        back(r, shift) == [a |-> r.a, b |-> vli_rshift(r.cc, shift, dddigits \div 2)]
        shifted(shift) == back(divided(vli_lshift(c, shift, cdigits \div 2),
                                       vli_lshift(d, shift, dddigits \div 2)), shift)
    IN shifted(HALF - bits_of(half(d, dddigits - 1)))

vli_mult(l, r, n) == bn_mult(l, r, n)
vli_mod(product, mod, n) == bn_div(product, 4 * n, mod, 2 * n).b

-----------------------------------------------------------------------------
(* Arithmetic modulo a vli. vli_mod_add and vli_mod_sub correct once: the  *)
(* code's comments ask for operands below the modulus.                     *)

vli_mod_add(l, r, mod, n) ==
    LET fix(s) == IF s.carry = 1 \/ vli_cmp(s.v, mod, n) >= 0 THEN vli_sub(s.v, mod, n).v
                  ELSE s.v
    IN fix(vli_add(l, r, n))

vli_mod_sub(l, r, mod, n) ==
    LET fix(s) == IF s.carry = 1 THEN vli_add(s.v, mod, n).v ELSE s.v
    IN fix(vli_sub(l, r, n))

vli_mod_mult(l, r, mod, n) == vli_mod(vli_mult(l, r, n), mod, n)
vli_mod_square(l, mod, n) == vli_mod(vli_square(l, n), mod, n)

(* left ^ e by pairs of bits from the top, the leading zero pairs skipped. *)
(* times is vli_mod_mult, by the number it computes.                       *)
vli_mod_exp(left, e, mod, n) ==
    LET times(x, y) == (x * y) % mod
        bpower == <<left, times(left, left), times(times(left, left), left)>>
        pair(j) == (e \div 4 ^ j) % 4
        t[j \in 0 .. n * HALF] ==
          IF \A k \in j .. n * HALF - 1 : pair(k) = 0 THEN 1
          ELSE LET t2 == times(t[j + 1], t[j + 1])
               IN IF pair(j) = 0 THEN times(t2, t2) ELSE times(times(t2, t2), bpower[pair(j)])
    IN t[0]

(* The binary extended Euclid of vli_mod_inv.                              *)
RECURSIVE inv_loop(_, _, _, _, _, _)
inv_loop(a, b, u, v, mod, n) ==
    LET less(x, y) ==
          halve(vli_sub(IF vli_cmp(x, y, n) < 0 THEN vli_add(x, mod, n).v ELSE x, y, n).v,
                mod, n)
        order == vli_cmp(a, b, n)
    IN IF order = 0 THEN u
       ELSE IF EVEN(a) THEN inv_loop(vli_rshift(a, 1, n), b, halve(u, mod, n), v, mod, n)
       ELSE IF EVEN(b) THEN inv_loop(a, vli_rshift(b, 1, n), u, halve(v, mod, n), mod, n)
       ELSE IF order > 0
            THEN inv_loop(vli_rshift(vli_sub(a, b, n).v, 1, n), b, less(u, v), v, mod, n)
       ELSE inv_loop(a, vli_rshift(vli_sub(b, a, n).v, 1, n), u, less(v, u), mod, n)

vli_mod_inv(input, mod, n) ==
    IF input = 0 THEN 0 ELSE inv_loop(input, mod, 1, 0, mod, n)

-----------------------------------------------------------------------------
(* The reductions the build leaves out (#if 0): by shifted multiples of    *)
(* the modulus, and by the special forms of the two primes.                *)

RECURSIVE subtract_multiples(_, _, _, _, _)
subtract_multiples(product, multiple, bits, mod, n) ==
    IF bits <= n * 2 * HALF /\ vli_cmp(multiple, mod, n) < 0 THEN product % D ^ n
    ELSE subtract_multiples(IF vli_cmp(multiple, product, 2 * n) <= 0
                            THEN vli_sub(product, multiple, 2 * n).v ELSE product,
                            vli_rshift(multiple, 1, 2 * n), bits - 1, mod, n)

plain_vli_mod(product, mod, n) ==
    LET bits == vli_num_bits(product, 2 * n)
        modBits == vli_num_bits(mod, n)
    IN IF bits < modBits THEN product % D ^ n
       ELSE subtract_multiples(product, mod * 2 ^ (bits - modBits), bits, mod, n)

(* A row puts halves of the product at the eight half positions of a vli   *)
(* (0: none). The code keeps the running sum as a vli and a signed carry,  *)
(* the number v + carry * D^4, and at the end adds or subtracts the prime  *)
(* until the carry is 0 and v is below it.                                 *)
row_of(product, at) ==
    spell([i \in 0 .. 7 |-> IF at[i + 1] = 0 THEN 0 ELSE half(product, at[i + 1])], 8, B)

mmod_rows(product, mod, rows) ==
    LET times == [add |-> 1, twice |-> 2, sub |-> -1]
        sum[k \in 0 .. Len(rows)] ==
          IF k = 0 THEN product % D ^ 4
          ELSE sum[k - 1] + times[rows[k][1]] * row_of(product, rows[k][2])
    IN sum[Len(rows)] % mod

vli_mmod_fast_sm2_256(product, mod) ==
    mmod_rows(product, mod,
      << <<"add", <<8, 0, 0, 8, 0, 0, 0, 8>> >>,      <<"sub", <<0, 0, 8, 0, 0, 0, 0, 0>> >>,
         <<"add", <<9, 9, 0, 0, 9, 0, 0, 9>> >>,      <<"sub", <<0, 0, 9, 0, 0, 0, 0, 0>> >>,
         <<"add", <<10, 10, 0, 0, 0, 10, 0, 10>> >>,
         <<"add", <<11, 11, 0, 11, 0, 0, 11, 11>> >>,
         <<"add", <<12, 12, 0, 12, 12, 0, 0, 12>> >>, <<"add", <<0, 0, 0, 0, 0, 0, 0, 12>> >>,
         <<"add", <<13, 13, 0, 13, 13, 13, 0, 13>> >>, <<"add", <<13, 0, 0, 13, 0, 0, 0, 13>> >>,
         <<"sub", <<0, 0, 13, 0, 0, 0, 0, 0>> >>,
         <<"add", <<14, 14, 0, 14, 14, 14, 14, 14>> >>, <<"add", <<14, 14, 0, 0, 14, 0, 0, 14>> >>,
         <<"sub", <<0, 0, 14, 0, 0, 0, 0, 0>> >>,
         <<"add", <<15, 15, 0, 15, 15, 15, 15, 15>> >>, <<"add", <<15, 15, 0, 0, 0, 15, 0, 0>> >>,
         <<"twice", <<0, 0, 0, 0, 0, 0, 0, 15>> >> >>)

vli_mmod_fast_nist_256(product, mod) ==
    mmod_rows(product, mod,
      << <<"twice", <<0, 0, 0, 11, 12, 13, 14, 15>> >>, <<"twice", <<0, 0, 0, 12, 13, 14, 15, 0>> >>,
         <<"add", <<8, 9, 10, 0, 0, 0, 14, 15>> >>,     <<"add", <<9, 10, 11, 13, 14, 15, 13, 8>> >>,
         <<"sub", <<11, 12, 13, 0, 0, 0, 8, 10>> >>,    <<"sub", <<12, 13, 14, 15, 0, 0, 9, 11>> >>,
         <<"sub", <<13, 14, 15, 8, 9, 10, 0, 12>> >>,   <<"sub", <<14, 15, 0, 9, 10, 11, 0, 13>> >> >>)

=============================================================================
