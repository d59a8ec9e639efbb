-------------------------------- MODULE MCGm --------------------------------
EXTENDS Gm

(* An uninitialised point: zero, or bytes that are no point of the curve. *)
MCStack == {[x |-> 0, y |-> 0], [x |-> 7, y |-> 7]}

(* Damage in transit: a point off the curve, and another one on it.       *)
MCDamaged == {[x |-> 2, y |-> 2], GTable[20]}

(* Digits 0, 1 and the largest, and a few between, in both positions.     *)
MCOperands == {0, 1, 2, 3, 4, 14, 15, 16, 17, 31, 32, 63, 64, 65, 85, 127, 128, 129, 170,
               192, 193, 238, 239, 240, 241, 250, 251, 252, 254, 255}

MCProducts == {10473 * i * i + 977 * i : i \in 0 .. 400}

(* A digest that depends on the message and on both coordinates.          *)
MCSM3(pub, m) == (m + 3 * pub.x + 7 * pub.y) % WIDTH
=============================================================================
