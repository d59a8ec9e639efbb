---------------------------- MODULE KeyExchange ----------------------------
(***************************************************************************)
(* The SM2 key exchange of the monitor's GM library                        *)
(* (src/sign_tool/gm/sm2.c, the ECC_KeyEx calls) between an initiator A    *)
(* and a responder B, one action for each call:                            *)
(*                                                                         *)
(*     A: Init_I    RA                                                     *)
(*     B: Re_I      RB, the key and the check value SB                     *)
(*     A: Init_II   the key, SB compared, the check value SA               *)
(*     B: Re_II     SA compared                                            *)
(*                                                                         *)
(* The callers carry the messages. `net' holds everything ever sent, so a  *)
(* message may be lost, late, repeated or overtaken by one of a later      *)
(* attempt, and a point may arrive damaged. Each side may start over.      *)
(***************************************************************************)
EXTENDS GmSm2

CONSTANTS PriKeys,            \* long-term private keys
          Temps,              \* temporary private keys ra, rb
          Damaged,            \* what a damaged point may turn into
          MaxTries,           \* attempts of each side
          KLEN                \* bytes of key asked for

VARIABLES dA, dB,             \* the long-term private keys
          a,                  \* A's attempt: [st, ra, RA, K, SA, ...]
          b,                  \* B's attempt
          made,               \* the keys each end has made, for reference
          net, tries

kxvars == <<dA, dB, a, b, made, net, tries>>

PA == sm2_make_pubkey(dA)
PB == sm2_make_pubkey(dB)
ZA == "ZA"
ZB == "ZB"

KeyOf(point) == sm3_kdf(<<point.x, point.y, ZA, ZB>>, KLEN)

check(tag, point, RA, RB) ==
    ECC_Key_ex_hash2(tag, point.y, ECC_Key_ex_hash1(point.x, RA, RB, ZA, ZB))

idle == [st |-> "idle"]

KxInit ==
    /\ dA \in PriKeys /\ dB \in PriKeys
    /\ a = idle /\ b = idle
    /\ made = [A |-> {}, B |-> {}] /\ net = {}
    /\ tries = [A |-> 0, B |-> 0]

ECC_KeyEx_Init_I(ra) ==
    /\ tries.A < MaxTries
    /\ tries' = [tries EXCEPT !.A = @ + 1]
    /\ LET RA == sm2_make_pubkey(ra)
       IN /\ a' = [st |-> "sent", ra |-> ra, RA |-> RA]
          /\ net' = net \cup {[type |-> "RA", R |-> RA]}
    /\ UNCHANGED <<dA, dB, b, made>>

ECC_KeyEx_Re_I(rb, RA) ==
    /\ tries.B < MaxTries
    /\ tries' = [tries EXCEPT !.B = @ + 1]
    /\ LET RB == sm2_make_pubkey(rb)
       IN \E V \in sm2_shared_point(dB, rb, RB, PA, RA) :
            /\ b' = [st |-> "answered", RA |-> RA, RB |-> RB, V |-> V, K |-> KeyOf(V)]
            /\ made' = [made EXCEPT !.B = @ \cup {[RA |-> RA, RB |-> RB, K |-> KeyOf(V)]}]
            /\ net' = net \cup {[type |-> "RB", R |-> RB, S |-> check(2, V, RA, RB)]}
    /\ UNCHANGED <<dA, dB, a>>

(* The key is stored before the check value is compared.                   *)
ECC_KeyEx_Init_II(RB, SB) ==
    /\ a.st = "sent"
    /\ \E U \in sm2_shared_point(dA, a.ra, a.RA, PB, RB) :
         LET good == check(2, U, a.RA, RB) = SB
         IN /\ a' = [st |-> IF good THEN "confirmed" ELSE "refused",
                     ra |-> a.ra, RA |-> a.RA, RB |-> RB, K |-> KeyOf(U)]
            /\ IF good
               THEN /\ net' = net \cup {[type |-> "SA", S |-> check(3, U, a.RA, RB)]}
                    /\ made' = [made EXCEPT !.A = @ \cup {[RA |-> a.RA, RB |-> RB, K |-> KeyOf(U)]}]
               ELSE UNCHANGED <<net, made>>
    /\ UNCHANGED <<dA, dB, b, tries>>

ECC_KeyEx_Re_II(SA) ==
    /\ b.st = "answered"
    /\ b' = [b EXCEPT !.st = IF check(3, b.V, b.RA, b.RB) = SA THEN "confirmed" ELSE "refused"]
    /\ UNCHANGED <<dA, dB, a, made, net, tries>>

(* A point as it arrives: as sent, or damaged.                             *)
Arrives(R) == {R} \cup Damaged

KxNext ==
    \/ \E ra \in Temps : ECC_KeyEx_Init_I(ra)
    \/ \E rb \in Temps, m \in net :
         m.type = "RA" /\ \E R \in Arrives(m.R) : ECC_KeyEx_Re_I(rb, R)
    \/ \E m \in net : m.type = "RB" /\ \E R \in Arrives(m.R) : ECC_KeyEx_Init_II(R, m.S)
    \/ \E m \in net : m.type = "SA" /\ ECC_KeyEx_Re_II(m.S)

-----------------------------------------------------------------------------
(* Where the curve code is exact: the scalars the ladder gets right, and   *)
(* an addition of two points with different x.                             *)

Ladderable(k) == k \notin {0, 1, ORD - 1}

Regular(pri, tempPri, tempPub, otherPub, otherTempPub) ==
    LET W == ecc_point_mult(otherTempPub, sm2_w(otherTempPub.x))
    IN /\ Ladderable(sm2_w(otherTempPub.x))
       /\ W.x # otherPub.x
       /\ Ladderable((pri + tempPri * sm2_w(tempPub.x)) % ORD)

(* A confirmed exchange is one exchange: when A accepts SB, B has answered *)
(* that RA with that RB and made the same key, and when B accepts SA, A    *)
(* has accepted B's answer with the same key, whatever was lost, late,     *)
(* repeated or damaged on the way.                                         *)
ConfirmedKeysAgree ==
    /\ a.st = "confirmed" => [RA |-> a.RA, RB |-> a.RB, K |-> a.K] \in made.B
    /\ b.st = "confirmed" => [RA |-> b.RA, RB |-> b.RB, K |-> b.K] \in made.A

(* The two ends compute the same point: A's key for RA and RB is the key B *)
(* made for them, unless an end ran into a scalar or an addition the curve *)
(* code has no case for.                                                   *)
SamePointBothEnds ==
    a.st \in {"confirmed", "refused"} =>
      \A s \in made.B :
        (/\ s.RA = a.RA /\ s.RB = a.RB
         /\ Regular(dA, a.ra, a.RA, PB, a.RB)
         /\ \E rb \in Temps : sm2_make_pubkey(rb) = s.RB /\ Regular(dB, rb, s.RB, PA, s.RA))
        => s.K = a.K

=============================================================================
