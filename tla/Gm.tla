--------------------------------- MODULE Gm ---------------------------------
(***************************************************************************)
(* The two GM libraries together. lib/gm (Random.c and SM2_sv.c on         *)
(* MIRACL) is a state machine of its own: MIRACL keeps one global context, *)
(* mip, with the random generator and the curve in it, and mirsys starts   *)
(* all of it over. Beside it run the monitor's library (module MonitorGm)  *)
(* and the hashing of module Hashing, which share nothing with it but the  *)
(* signatures: what one library signs, the other verifies.                 *)
(*                                                                         *)
(* A program uses one of these parts at a time: each starts where the      *)
(* others have not.                                                        *)
(***************************************************************************)
EXTENDS MonitorGm, Sm2Sv, Hashing

CONSTANTS Seeds,              \* arguments of penglai_set_rand_seed
          Messages,           \* messages to sign
          Keys, Nonces,       \* numbers drawn, in a program of several calls
          MaxCalls            \* calls of such a program

VARIABLES mip,                \* MIRACL's context: [origin, drawn, curve]
          set_seed, success_excuted,
          outcome,            \* "running", or "fault" once it touched a null big
          held,               \* a key and a signature the program holds
          history             \* [calls, seeded, late, drawn] for the properties

libvars == <<mip, set_seed, success_excuted, outcome, held, history>>

-----------------------------------------------------------------------------
(* The generator. Where it was started from is a root, a seed or MIRACL's  *)
(* built-in constants, and the path of positions whose numbers seeded it   *)
(* again; its numbers are determined by that and by how many were drawn.   *)

constants == [root |-> [from |-> "constants", seed |-> 0], path |-> <<>>]
seeded_with(seed) == [root |-> [from |-> "seed", seed |-> seed], path |-> <<>>]
position(m) == [origin |-> m.origin, drawn |-> m.drawn]

mirsys == [origin |-> constants, drawn |-> 0, curve |-> FALSE]
irand(m, origin) == [m EXCEPT !.origin = origin, !.drawn = 0]
draw(m) == [m EXCEPT !.drawn = @ + 1]

(* Mutant: set_seed is left as it was.                                     *)
penglai_set_rand_seed_unset(l, seed) ==
    [l EXCEPT !.mip = irand(mirsys, seeded_with(seed))]

penglai_set_rand_seed(l, seed) ==
    [l EXCEPT !.mip = irand(mirsys, seeded_with(seed)), !.set_seed = TRUE]

penglai_read_rand(l) ==
    LET seeded == IF l.set_seed THEN l ELSE penglai_set_rand_seed(l, 0)
    IN [seeded EXCEPT !.mip = draw(@)]

(* The number read before becomes the seed.                                *)
MIRACL_Init(l) ==
    LET read == penglai_read_rand([l EXCEPT !.mip = mirsys])
        at == read.mip
    IN [read EXCEPT !.mip = irand(@, [at.origin EXCEPT !.path = Append(@, at.drawn)])]

(* Mutant: every call sets the curve up again.                             *)
SM2_Init_always(l) == [MIRACL_Init(l) EXCEPT !.mip.curve = (curve_rc = "0")]

SM2_Init(l) ==
    LET with_curve(good) == [MIRACL_Init(l) EXCEPT !.mip.curve = good, !.success = good]
    IN IF l.success THEN l ELSE with_curve(curve_rc = "0")

lib == [mip |-> mip, set_seed |-> set_seed, success |-> success_excuted]

-----------------------------------------------------------------------------
(* Calls. Without a modulus MIRACL's first multiplication sets ERNUM, and  *)
(* the next variable the code allocates is a null pointer that it reads.   *)

Enter == /\ outcome = "running" /\ history.calls < MaxCalls
         /\ a = idle /\ call = none /\ stream = closed
         /\ UNCHANGED <<kxvars, call, stream>>

Leave(l) == mip' = l.mip /\ set_seed' = l.set_seed /\ success_excuted' = l.success

Past(more) == history' = [history EXCEPT !.calls = @ + 1, !.drawn = @ \o more]

(* The SM2 calls, from the context l that SM2_Init leaves: what they draw, *)
(* and what they hand back.                                                *)
Sm2Call(l, draws, result) ==
    /\ Leave([l EXCEPT !.mip.drawn = @ + draws])
    /\ Past([i \in 1 .. draws |-> [position(l.mip) EXCEPT !.drawn = @ + i]])
    /\ IF l.mip.curve
       THEN outcome' = outcome /\ held' = result
       ELSE outcome' = "fault" /\ held' = held

SetSeed(seed) ==
    /\ Enter
    /\ Leave(penglai_set_rand_seed(lib, seed))
    /\ history' = [history EXCEPT !.calls = @ + 1, !.seeded = Append(@, seed),
                                  !.late = @ \/ success_excuted]
    /\ UNCHANGED <<outcome, held>>

ReadRand ==
    /\ Enter
    /\ Leave(penglai_read_rand(lib))
    /\ Past(<<>>)
    /\ UNCHANGED <<outcome, held>>

keyed(d) == [d |-> d, key |-> SM2_make_pubkey(d), m |-> 0, sig |-> none, verdict |-> "none"]

SM2KeyGeneration(l, d) == Sm2Call(l, 1, keyed(d))

SM2MakePubkey(l, d) == Sm2Call(l, 0, keyed(d))

SM2Sign(l, m, k) ==
    /\ held # none
    /\ Sm2Call(l, 1, [held EXCEPT !.m = m, !.sig = SM2_Sign(m, held.d, k), !.verdict = "none"])

SM2Verify(l) ==
    /\ held # none /\ held.sig # none /\ held.sig.rc = "0"
    /\ Sm2Call(l, 0, [held EXCEPT !.verdict =
                        SM2_Verify(held.m, held.key.pub, held.sig.r, held.sig.s)])

SM2SelfCheck(l, m, d, k) ==
    LET done(c) == [d |-> d, key |-> c.key, m |-> m, sig |-> c.sig, verdict |-> c.rc]
    IN Sm2Call(l, 2, done(SM2_SelfCheck(m, d, k)))

Sm2Calls(l) ==
    \/ \E d \in Keys \cap SM2_make_prikey : SM2KeyGeneration(l, d)
    \/ \E d \in Keys : SM2MakePubkey(l, d)
    \/ \E m \in Messages, k \in Nonces \cap SM2_gen_random : SM2Sign(l, m, k)
    \/ SM2Verify(l)
    \/ \E m \in Messages, d \in Keys, k \in Nonces : SM2SelfCheck(l, m, d, k)

LibNext ==
    \/ \E seed \in Seeds : SetSeed(seed)
    \/ ReadRand
    \/ Enter /\ Sm2Calls(SM2_Init(lib))

-----------------------------------------------------------------------------
(* Single calls with the curve set up, over all their arguments.           *)

EcurveMult(p, k) ==
    LET P == epoint_set(p.x, p.y)
    IN [op |-> "ecurve_mult", p |-> p, k |-> k, valid |-> P.valid,
        res |-> epoint_get(ecurve_mult(k, P.p))]

LibVerify(d, pub, m, r, s) ==
    [op |-> "SM2_Verify", d |-> d, e |-> SM3(pub, m), r |-> r, s |-> s,
     rc |-> SM2_Verify(m, pub, r, s)]

(* A message signed by each library with the same nonce, and both          *)
(* signatures verified by the other one.                                   *)
Verified(d, m, k, key, e, lsig, msig) ==
    [op |-> "cross", d |-> d, k |-> k, e |-> e, key |-> key, mkey |-> sm2_make_pubkey(d),
     lib |-> lsig, monitor |-> msig,
     by_monitor |-> lsig.rc = "0" /\ sm2_verify(key.pub, e, lsig.r, lsig.s),
     by_lib |-> IF msig.rc = 1 THEN SM2_Verify(m, key.pub, msig.r, msig.s) ELSE "none"]

Signed(d, m, k, key, e) == Verified(d, m, k, key, e, SM2_Sign(m, d, k), sm2_sign(k, d, e))

Cross(d, m, k, key) == Signed(d, m, k, key, SM3(key.pub, m))

LibCalls ==
    \/ \E p \in OnCurve, k \in 0 .. WIDTH - 1 : call' = EcurveMult(p, k)
    \/ \E m \in Messages, r, s \in 0 .. ORD : call' = LibVerify(dA, public(dA), m, r, s)
    \/ \E m \in Digests, k \in SM2_gen_random : call' = Cross(dA, m, k, SM2_make_pubkey(dA))

-----------------------------------------------------------------------------
LibInit ==
    /\ mip = mirsys   \* all zero, but nothing draws before a mirsys
    /\ set_seed = FALSE /\ success_excuted = FALSE
    /\ outcome = "running" /\ held = none
    /\ history = [calls |-> 0, seeded |-> <<>>, late |-> FALSE, drawn |-> <<>>]

GmInit == Init /\ HashInit /\ LibInit

(* The peer's long-term key plays no part but in the exchange.             *)
GmNext ==
    \/ stream = closed /\ history.calls = 0 /\ Next /\ UNCHANGED <<stream, libvars>>
    \/ /\ a = idle /\ call = none /\ stream = closed /\ history.calls = 0 /\ dA = dB
       /\ LibCalls /\ UNCHANGED <<kxvars, stream, libvars>>
    \/ /\ a = idle /\ b = idle /\ call = none /\ history.calls = 0 /\ dA = dB
       /\ HashNext /\ UNCHANGED <<kxvars, call, libvars>>
    \/ b = idle /\ dA = dB /\ LibNext

gmvars == <<kxvars, call, stream, libvars>>

GmSpec == GmInit /\ [][GmNext]_gmvars

-----------------------------------------------------------------------------
(* ecurve_mult is multiplication: the signed windows, the table of odd     *)
(* multiples and the projective additions give k times P for every point   *)
(* and every k, 0 and multiples of the order included.                     *)
EcurveMultRight ==
    call.op = "ecurve_mult" => call.valid /\ call.res = Times(call.k, call.p)

(* SM2_Verify returns 0 exactly for the signatures of the SM2 scheme, and  *)
(* the error of the first test that fails for all others.                  *)
SM2VerifyRight ==
    call.op = "SM2_Verify" =>
      LET t == (call.r + call.s) % ORD
          x1 == GTable[(call.s + t * call.d) % ORD].x
      IN call.rc = IF call.r \notin 1 .. ORD - 1 THEN "ERR_OUTRANGE_R"
                   ELSE IF call.s \notin 1 .. ORD - 1 THEN "ERR_OUTRANGE_S"
                   ELSE IF t = 0 THEN "ERR_GENERATE_T"
                   ELSE IF (call.e + x1) % ORD = call.r THEN "0"
                   ELSE "ERR_DATA_MEMCMP"

(* The two libraries agree on keys, and each accepts what the other signs, *)
(* for every key and nonce that keeps clear of the monitor's ladder's      *)
(* exceptions (Ladderable, RegularVerification) and of the carry it drops; *)
(* sm2_sign's signature must also be one the scheme allows, which it does  *)
(* not test itself.                                                        *)
SignaturesCross ==
    call.op = "cross" =>
      LET x1 == GTable[call.k].x
          r == (call.e + x1) % ORD
          fits == x1 + call.e < WIDTH + ORD
      IN /\ call.key = [rc |-> "0", pub |-> GTable[call.d]]
         /\ Ladderable(call.d) => call.mkey = call.key.pub
         /\ (call.lib.rc = "0" /\ fits /\ RegularVerification(call.d, call.lib.r, call.lib.s)) =>
               call.by_monitor
         /\ (Ladderable(call.k) /\ fits /\ r # 0 /\ r + call.k # ORD) =>
               /\ call.monitor.rc = 1
               /\ call.lib.rc = "0" => /\ call.by_lib = "0"
                                       /\ call.monitor.r = call.lib.r
                                       /\ call.monitor.s = call.lib.s

(* Once SM2 has set the curve up it stays: penglai_read_rand, which seeds  *)
(* the generator and wipes mip when it finds it unseeded, never does so    *)
(* after that. Only the program's own late penglai_set_rand_seed can make  *)
(* SM2 run into a null pointer, and otherwise what it signed verifies.     *)
CurveStands ==
    /\ ~history.late => outcome = "running" /\ (success_excuted => mip.curve)
    /\ held # none => held.verdict \in {"none", "0"} \cup
                        (IF held.sig = none THEN {} ELSE {held.sig.rc})

(* No two private keys or nonces of a program come from the same position  *)
(* of the generator: SM2 restarts it only once, before the first of them.  *)
NoncesFresh ==
    \A i, j \in DOMAIN history.drawn : i # j => history.drawn[i] # history.drawn[j]

(* What the comment on penglai_set_rand_seed in MIRACL_Init promises: a    *)
(* program that seeds the generator first has SM2's keys and nonces drawn  *)
(* from that seed.                                                         *)
SeedReachesSM2 ==
    (history.seeded # <<>> /\ ~history.late) =>
      \A i \in DOMAIN history.drawn :
        history.drawn[i].origin.root = seeded_with(history.seeded[Len(history.seeded)]).root

=============================================================================
