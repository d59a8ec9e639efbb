-------------------------------- MODULE Ecc --------------------------------
(***************************************************************************)
(* The elliptic-curve layer of the monitor's GM library                    *)
(* (src/sign_tool/gm/ecc.c) on the curve y^2 = x^3 - 3x + CB over the      *)
(* field of PR elements, whose group has prime order ORD.                  *)
(*                                                                         *)
(* Numbers are vlis of WIDTH = 2^bits values; what the digit loops of      *)
(* big.c compute is stated by the mod_ operators (module Vli has the loops *)
(* and MonitorGm compares the two). There is no point at infinity in this  *)
(* code: (0, 0) stands for it, and the co-Z formulas below have no case    *)
(* for equal or opposite points.                                           *)
(***************************************************************************)
EXTENDS Integers

CONSTANTS PR,                 \* the field prime, sm2_curve.p
          CB,                 \* sm2_curve.b
          ORD,                \* the group order, sm2_curve.n, a prime
          GX, GY,             \* the base point
          WIDTH               \* a vli holds 0 .. WIDTH-1

ASSUME CurveAssumption ==
    /\ {PR, CB, ORD, GX, GY, WIDTH} \subseteq Nat
    /\ ORD < PR /\ PR < WIDTH /\ WIDTH < 2 * ORD
    /\ (GY * GY - (GX * GX * GX - 3 * GX + CB)) % PR = 0

G == [x |-> GX, y |-> GY]

-----------------------------------------------------------------------------
(* Arithmetic modulo m as big.c does it. mod_add and mod_sub correct once, *)
(* and drop what does not fit in a vli.                                    *)

mod_add(l, r, m) == IF l + r >= m THEN (l + r - m) % WIDTH ELSE l + r
mod_sub(l, r, m) == IF l < r THEN (l - r + m) % WIDTH ELSE l - r
mod_mult(l, r, m) == (l * r) % m
mod_inv(v, m) == IF v % m = 0 THEN 0 ELSE CHOOSE i \in 1 .. m - 1 : (i * v) % m = 1
inv == [v \in 0 .. PR - 1 |-> mod_inv(v, PR)]

test_bit(v, i) == (v \div 2 ^ i) % 2
num_bits(v) == CHOOSE k \in 0 .. 31 : v < 2 ^ k /\ (k > 0 => v >= 2 ^ (k - 1))

-----------------------------------------------------------------------------
(* Jacobian doubling and the co-Z additions, in terms of field values.     *)

ecc_point_is_zero(p) == p.x = 0 /\ p.y = 0

ecc_point_double_jacobian(j) ==
    LET a == (j.x * j.y * j.y) % PR
        y4 == (((j.y * j.y) % PR) ^ 2) % PR
        t == (3 * (j.x + j.z * j.z) * (j.x - j.z * j.z)) % PR
        b == IF t % 2 = 1 THEN (t + PR) \div 2 ELSE t \div 2
        x3 == (b * b - 2 * a) % PR
    IN IF j.z = 0 THEN j
       ELSE [x |-> x3, y |-> (b * (a - x3) - y4) % PR, z |-> (j.y * j.z) % PR]

apply_z(p, z) ==
    LET zz == (z * z) % PR
    IN [x |-> (p.x * zz) % PR, y |-> (p.y * ((zz * z) % PR)) % PR]

(* P => P', Q => P + Q, all with the same new Z.                           *)
XYcZ_add(p, q) ==
    LET a == ((q.x - p.x) * (q.x - p.x)) % PR
        b == (p.x * a) % PR
        c == (q.x * a) % PR
        d == (q.y - p.y) % PR
        x3 == (d * d - b - c) % PR
        y1 == (p.y * ((c - b) % PR)) % PR
    IN [p |-> [x |-> b, y |-> y1], q |-> [x |-> x3, y |-> (d * ((b - x3) % PR) - y1) % PR]]

(* P => P - Q, Q => P + Q, all with the same new Z.                        *)
XYcZ_addC(p, q) ==
    LET a == ((q.x - p.x) * (q.x - p.x)) % PR
        b == (p.x * a) % PR
        c == (q.x * a) % PR
        sum == (q.y + p.y) % PR
        dif == (q.y - p.y) % PR
        y1 == (p.y * ((c - b) % PR)) % PR
        x3 == (dif * dif - b - c) % PR
        x3m == (sum * sum - b - c) % PR
    IN [p |-> [x |-> x3m, y |-> (sum * ((x3m - b) % PR) - y1) % PR],
        q |-> [x |-> x3, y |-> (dif * ((b - x3) % PR) - y1) % PR]]

-----------------------------------------------------------------------------
(* Scalar multiplication: a co-Z Montgomery ladder. r[0] and r[1] differ   *)
(* by the point throughout; nb is the index the bit selects.               *)

XYcZ_initial_double(pt) ==
    LET pair(two) ==
          [n \in 0 .. 1 |-> IF n = 0 THEN apply_z(pt, two.z) ELSE [x |-> two.x, y |-> two.y]]
    IN pair(ecc_point_double_jacobian([x |-> pt.x, y |-> pt.y, z |-> 1]))

ladder_addC(r, nb) ==
    LET s == XYcZ_addC(r[1 - nb], r[nb]) IN [n \in 0 .. 1 |-> IF n = nb THEN s.q ELSE s.p]

(* Mutant: the sum goes to the other register.                             *)
ladder_add_swapped(r, nb) ==
    LET s == XYcZ_add(r[nb], r[1 - nb]) IN [n \in 0 .. 1 |-> IF n = nb THEN s.q ELSE s.p]

ladder_add(r, nb) ==
    LET s == XYcZ_add(r[nb], r[1 - nb]) IN [n \in 0 .. 1 |-> IF n = nb THEN s.p ELSE s.q]

(* The bits num_bits - 2 down to 1 of the scalar.                          *)
RECURSIVE ladder(_, _, _)
ladder(r, k, i) ==
    IF i <= 0 THEN r
    ELSE LET nb == 1 - test_bit(k, i)
         IN ladder(ladder_add(ladder_addC(r, nb), nb), k, i - 1)

(* The last bit is set apart: between its two additions 1/Z is recovered   *)
(* from the point itself.                                                  *)
last_bit(pt, r, nb) ==
    LET z == ((((r[1].x - r[0].x) * r[1 - nb].y) % PR) * pt.x) % PR
    IN apply_z(ladder_add(r, nb)[0], (((inv[z] * pt.y) % PR) * r[1 - nb].x) % PR)

ecc_point_mult(pt, k) ==
    LET nb == 1 - test_bit(k, 0)
    IN last_bit(pt, ladder_addC(ladder(XYcZ_initial_double(pt), k, num_bits(k) - 2), nb), nb)

ecc_point_add(left, right) ==
    apply_z(XYcZ_add(left, right).q, inv[(right.x - left.x) % PR])

(* [s]g + [t]q by Shamir's trick: one doubling per bit and an addition of  *)
(* g, q or g + q.                                                          *)
RECURSIVE shamir(_, _, _, _, _)
shamir(j, points, s, t, i) ==
    IF i < 0 THEN j
    ELSE LET index == test_bit(s, i) + 2 * test_bit(t, i)
             plus(d, p, sum) == [x |-> sum.x, y |-> sum.y, z |-> (d.z * ((d.x - p.x) % PR)) % PR]
             added(d, p) == plus(d, p, XYcZ_add(p, [x |-> d.x, y |-> d.y]).q)
             after(d) == IF index = 0 THEN d ELSE added(d, apply_z(points[index], d.z))
         IN shamir(after(ecc_point_double_jacobian(j)), points, s, t, i - 1)

ecc_point_mult2(q, s, t) ==
    LET points == <<G, q, ecc_point_add(G, q)>>
        top == num_bits(IF s > t THEN s ELSE t) - 1
        from(first) == shamir([x |-> first.x, y |-> first.y, z |-> 1], points, s, t, top - 1)
        affine(j) == apply_z([x |-> j.x, y |-> j.y], inv[j.z])
    IN affine(from(points[test_bit(s, top) + 2 * test_bit(t, top)]))

-----------------------------------------------------------------------------
(* The group, for reference: the affine law, with O for the point at       *)
(* infinity, and the multiples of a point one addition at a time.          *)

O == [x |-> 0, y |-> 0]

OnCurve == {p \in [x : 0 .. PR - 1, y : 0 .. PR - 1] :
              (p.y * p.y - (p.x * p.x * p.x - 3 * p.x + CB)) % PR = 0}

Plus(p, q) ==
    LET slope == IF p = q THEN ((3 * p.x * p.x - 3) * inv[(2 * p.y) % PR]) % PR
                 ELSE ((q.y - p.y) * inv[(q.x - p.x) % PR]) % PR
        x3 == (slope * slope - p.x - q.x) % PR
    IN CASE p = O -> q
         [] p # O /\ q = O -> p
         [] p # O /\ q # O /\ p.x = q.x /\ (p.y + q.y) % PR = 0 -> O
         [] OTHER -> [x |-> x3, y |-> (slope * (p.x - x3) - p.y) % PR]

Multiples(p) ==
    LET m[k \in 0 .. ORD - 1] == IF k = 0 THEN O ELSE Plus(m[k - 1], p) IN m

GTable == Multiples(G)

(* The logarithm of a point to the base G, the whole group being cyclic.   *)
Log(p) == CHOOSE k \in 0 .. ORD - 1 : GTable[k] = p
Times(k, p) == GTable[(k * Log(p)) % ORD]

=============================================================================
