------------------------------- MODULE Miracl -------------------------------
(***************************************************************************)
(* The curve layer of MIRACL that lib/gm builds its SM2 on (mrcurve.c,     *)
(* mrmonty.c and mr_naf_window of mrcore.c), on the curve of module Ecc.   *)
(*                                                                         *)
(* Field elements are kept in Montgomery form, x R mod p, and are reduced  *)
(* the way redc does it with a modulus of one digit. Points are projective *)
(* records whose marker says which of their coordinates mean something:    *)
(* Z only counts for a "GENERAL" point and is stale otherwise.             *)
(***************************************************************************)
EXTENDS Ecc, Sequences

CONSTANTS MR_ECC_STORE_N,     \* entries of the table of odd multiples
          ndash               \* -1 / p modulo the width of a digit

ASSUME MiraclAssumption ==
    /\ MR_ECC_STORE_N \in Nat \ {0, 1}
    /\ ndash \in 1 .. WIDTH - 1 /\ (ndash * PR) % WIDTH = WIDTH - 1

-----------------------------------------------------------------------------
(* Montgomery arithmetic.                                                  *)

MR_R == WIDTH

once_less(t) == IF t >= PR THEN t - PR ELSE t
redc(x) == once_less((x + ((x * ndash) % MR_R) * PR) \div MR_R)

nres(x) == ((x % PR) * MR_R) % PR
one == nres(1)

nres_modadd(x, y) == once_less(x + y)
nres_modsub(x, y) == IF x >= y THEN x - y ELSE PR - (y - x)
nres_modmult(x, y) == redc(x * y)
squared(x) == nres_modmult(x, x)
twice(x) == nres_modadd(x, x)
thrice(x) == nres_modadd(nres_modadd(x, x), x)
nres_negate(x) == IF x = 0 THEN 0 ELSE PR - x
nres_div2(x) == IF x % 2 = 1 THEN (x + PR) \div 2 ELSE x \div 2
nres_premult(x, k) ==
    LET times == (x * (IF k < 0 THEN -k ELSE k)) % PR
    IN IF k < 0 THEN nres_negate(times) ELSE times
nres_moddiv(x, y) ==
    IF redc(y) = 0 THEN 0 ELSE nres_modmult(x, nres(inv[redc(y)]))

(* All inverses of the elements of xs with one inversion: the products of  *)
(* what comes before and after each element, times 1 / (their product).    *)
RECURSIVE product(_, _, _)
product(xs, i, j) ==
    IF i = j THEN xs[i] ELSE nres_modmult(product(xs, i, j - 1), xs[j])

nres_multi_inverse(xs) ==
    LET m == Len(xs)
        y == inv[redc(redc(product(xs, 1, m)))]
    IN [i \in 1 .. m |->
          IF i = 1 THEN nres_modmult(product(xs, 2, m), y)
          ELSE IF i = m THEN nres_modmult(product(xs, 1, m - 1), y)
          ELSE nres_modmult(nres_modmult(product(xs, 1, i - 1), product(xs, i + 1, m)), y)]

-----------------------------------------------------------------------------
(* Points. Asize is -3, since a = p - 3, and b is not small.               *)

Asize == -3
Bmont == nres(CB)             \* mr_mip->B

blank == [X |-> 0, Y |-> 0, Z |-> 0, marker |-> "INFINITY"]
infinite(p) == [p EXCEPT !.X = one, !.Y = one, !.marker = "INFINITY"]
point_at_infinity(p) == p.marker = "INFINITY"

epoint_getrhs(x) ==
    nres_modadd(nres_modadd(nres_modmult(nres_modmult(x, x), x), nres_premult(x, Asize)), Bmont)

epoint_set(x, y) ==
    LET X == nres(x)   Y == nres(y)
    IN [valid |-> nres_modmult(Y, Y) = epoint_getrhs(X),
        p |-> [blank EXCEPT !.X = X, !.Y = Y, !.marker = "NORMALIZED"]]

scaled(p, w) ==
    LET ww == squared(w)
    IN [X |-> nres_modmult(p.X, ww), Y |-> nres_modmult(p.Y, nres_modmult(ww, w)),
        Z |-> one, marker |-> "NORMALIZED"]

epoint_norm(p) == IF p.marker # "GENERAL" THEN p ELSE scaled(p, nres_moddiv(one, p.Z))

epoint_multi_norm(ps) ==
    LET w == nres_multi_inverse([i \in DOMAIN ps |->
                 IF ps[i].marker = "NORMALIZED" THEN one ELSE ps[i].Z])
    IN IF \E i \in DOMAIN ps : point_at_infinity(ps[i])
       THEN [i \in DOMAIN ps |-> epoint_norm(ps[i])]
       ELSE [i \in DOMAIN ps |-> scaled(ps[i], w[i])]

epoint_get(p) ==
    LET affine(q) == [x |-> redc(q.X), y |-> redc(q.Y)]
    IN IF point_at_infinity(p) THEN [x |-> 0, y |-> 0] ELSE affine(epoint_norm(p))

(* The copy keeps the Z of its target unless the source is general.        *)
epoint_copy(a, b) == [a EXCEPT !.Z = IF a.marker = "GENERAL" THEN a.Z ELSE b.Z]

-----------------------------------------------------------------------------
(* The group operations.                                                   *)

(* The second half of ecurve_double.                                       *)
tangent(w8, w3, w2, z) ==
    LET X == nres_modsub(nres_modsub(squared(w8), w3), w3)
    IN [X |-> X, Y |-> nres_modsub(nres_modmult(w8, nres_modsub(w3, X)), w2),
        Z |-> twice(z), marker |-> "GENERAL"]

ecurve_double(p) ==
    LET w6 == IF p.marker = "NORMALIZED" THEN nres(1) ELSE squared(p.Z)
        w8 == thrice(nres_modmult(nres_modsub(p.X, w6), nres_modadd(p.X, w6)))
        yy == squared(p.Y)
        w3 == twice(twice(nres_modmult(p.X, yy)))
        z == IF p.marker = "NORMALIZED" THEN p.Y ELSE nres_modmult(p.Z, p.Y)
        w2 == twice(squared(twice(yy)))
    IN IF point_at_infinity(p) THEN p
       ELSE IF p.Y = 0 THEN infinite(p)
       ELSE tangent(w8, w3, w2, z)

(* The second half of ecurve_padd: both points are over the same z, p is   *)
(* (x2, y2), and w1 and w8 are the differences of pa's coordinates from    *)
(* it. ok is FALSE where the two are the same point.                       *)
chord(pa, x2, y2, w1, w8, z) ==
    LET w4 == nres_modadd(w1, twice(x2))
        w5 == nres_modadd(w8, twice(y2))
        ww == squared(w1)
        Y(w6, X) == nres_modsub(nres_modmult(w8, nres_modsub(nres_modsub(w6, X), X)),
                                nres_modmult(nres_modmult(w1, ww), w5))
        sum(w6, X) == [X |-> X, Y |-> nres_div2(Y(w6, X)), Z |-> nres_modmult(z, w1),
                       marker |-> "GENERAL"]
        over(w6) == sum(w6, nres_modsub(squared(w8), w6))
    IN IF w1 = 0 THEN [ok |-> w8 # 0, pa |-> infinite(pa)]
       ELSE [ok |-> TRUE, pa |-> over(nres_modmult(ww, w4))]

(* pa + p.                                                                 *)
ecurve_padd(p, pa) ==
    LET general == p.marker # "NORMALIZED"
        pageneral == pa.marker # "NORMALIZED"
        zz == squared(p.Z)
        pazz == IF pageneral THEN squared(pa.Z) ELSE one
        pazzz == IF pageneral THEN nres_modmult(pazz, pa.Z) ELSE pazz
        x1 == IF general THEN nres_modmult(pa.X, zz) ELSE pa.X
        y1 == IF general THEN nres_modmult(pa.Y, nres_modmult(zz, p.Z)) ELSE pa.Y
        z == IF general
             THEN IF pageneral THEN nres_modmult(pa.Z, p.Z) ELSE p.Z
             ELSE IF pageneral THEN pa.Z ELSE one
        over(X, Y) == chord(pa, X, Y, nres_modsub(x1, X), nres_modsub(y1, Y), z)
    IN over(nres_modmult(p.X, pazz), nres_modmult(p.Y, pazzz))

ecurve_add(p, pa) ==
    LET or_double(sum) == IF sum.ok THEN sum.pa ELSE ecurve_double(pa)
    IN IF point_at_infinity(pa) THEN epoint_copy(p, pa)
       ELSE IF point_at_infinity(p) THEN pa
       ELSE or_double(ecurve_padd(p, pa))

epoint_negate(p) ==
    IF point_at_infinity(p) \/ p.Y = 0 THEN p ELSE [p EXCEPT !.Y = PR - p.Y]

ecurve_sub(p, pa) == IF point_at_infinity(p) THEN pa ELSE ecurve_add(epoint_negate(p), pa)

-----------------------------------------------------------------------------
(* Multiplication by signed windows. With h = 3e, digit i of e in          *)
(* non-adjacent form is bit i of h minus bit i of e; a window reads digits *)
(* from i down until its value would pass the largest odd multiple kept.   *)

naf(x, x3, i) == test_bit(x3, i) - test_bit(x, i)
biggest == 2 * MR_ECC_STORE_N - 1
magnitude(r) == IF r < 0 THEN -r ELSE r

RECURSIVE window(_, _, _, _, _)
window(x, x3, j, r, nbs) ==
    LET nb == naf(x, x3, j)
        next == 2 * r + nb
    IN IF j <= 0 THEN [r |-> r, nbs |-> nbs, j |-> j, nb |-> 0]
       ELSE IF magnitude(next) > biggest
       THEN [r |-> next, nbs |-> nbs + 1, j |-> j, nb |-> nb]
       ELSE window(x, x3, j - 1, next, nbs + 1)

RECURSIVE no_zeros(_)
no_zeros(w) ==
    IF w.n % 2 # 0 THEN w
    ELSE no_zeros([n |-> w.n \div 2, nbs |-> w.nbs - 1, nzs |-> w.nzs + 1])

(* Mutant of backtrack: a window that went too far keeps its length.                *)
backtrack_no_digit_back(w) == [n |-> (w.r - w.nb) \div 2, nbs |-> w.nbs, nzs |-> 0]

backtrack(w) == [n |-> (w.r - w.nb) \div 2, nbs |-> w.nbs - 1, nzs |-> 0]

mr_naf_window(x, x3, i) ==
    LET ended(w) == IF w.r % 2 # 0 /\ w.j # 0 THEN backtrack(w)
                    ELSE [n |-> w.r, nbs |-> w.nbs, nzs |-> 0]
    IN IF naf(x, x3, i) = 0 THEN [n |-> 0, nbs |-> 1, nzs |-> 0]
       ELSE no_zeros(ended(window(x, x3, i - 1, naf(x, x3, i), 1)))

(* Odd multiples P, 3P, 5P ... ; the last entry holds 2P until it is used. *)
RECURSIVE odd_multiples(_, _)
odd_multiples(table, two) ==
    LET top == table[Len(table)]
        last == Len(table) = MR_ECC_STORE_N - 1
        longer == Append(table, ecurve_add(IF last THEN top ELSE two, IF last THEN two ELSE top))
    IN IF Len(table) = MR_ECC_STORE_N THEN table ELSE odd_multiples(longer, two)

RECURSIVE doubled(_, _)
doubled(p, times) == IF times = 0 THEN p ELSE doubled(ecurve_double(p), times - 1)

RECURSIVE windows(_, _, _, _, _)
windows(e, h, table, i, pt) ==
    LET added(n, up) == IF n > 0 THEN ecurve_add(table[1 + (n \div 2)], up)
                        ELSE IF n < 0 THEN ecurve_sub(table[1 + ((-n) \div 2)], up)
                        ELSE up
        after(w) == windows(e, h, table, i - w.nbs - w.nzs,
                            doubled(added(w.n, doubled(pt, w.nbs)), w.nzs))
    IN IF i < 1 THEN pt ELSE after(mr_naf_window(e, h, i))

ecurve_mult(e, pa) ==
    LET pt == epoint_copy(pa, blank)
        table == epoint_multi_norm(odd_multiples(<<pt>>, ecurve_double(pt)))
    IN IF e = 0 THEN infinite(blank)
       ELSE IF e = 1 THEN pt
       ELSE windows(e, 3 * e, table, num_bits(3 * e) - 1, infinite(pt))

=============================================================================
