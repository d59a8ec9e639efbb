-------------------------- MODULE EnclaveHeapProofs --------------------------
(***************************************************************************)
(* The list of headers in the mmap area, for every size of the area and    *)
(* every program that leaves no zero word in what it unmaps.               *)
(*                                                                         *)
(* The inductive invariant says that the headers tile the area: from each  *)
(* header that is not virgin the next one is exactly one header and one    *)
(* block further, none lies in between, and everything from the virgin     *)
(* header on is still zero.                                                *)
(***************************************************************************)
EXTENDS EnclaveHeap, TLAPS

End(h) == h + 1 + mem[h].size

HeadTypes == \A h \in heads : mem[h].type \in {0, 1, 2}

(* From a used or an unmapped header the next one is End(h). *)
Chain == \A h \in heads : mem[h].type # 0 =>
            /\ End(h) \in heads
            /\ \A g \in heads : g <= h \/ g >= End(h)

(* The virgin header is the last, and all cells from it on are zero. *)
Virgin == \A h \in heads : mem[h].type = 0 =>
            /\ \A g \in heads : g <= h
            /\ \A i \in Cells : i >= h => mem[i] = Zero

(* Unmapped blocks hold no zero word. *)
Freed == \A h \in heads : mem[h].type = 1 =>
            \A i \in Cells : (i > h /\ i < End(h)) => mem[i].size # 0

(* Every held block has its own header. *)
Held == \A b \in live :
          /\ b.at - 1 \in heads
          /\ mem[b.at - 1] = [type |-> 2, size |-> b.len]
          /\ \A c \in live : c.at = b.at => c = b

(* The walk stands on a header and has passed none that would have done. *)
WalkOK == /\ call.at \in heads
          /\ call # Idle => /\ call.n > 0 /\ call.by # "none"
                            /\ call.by = "heap" => mmap_step < MaxStep
                            /\ \A h \in heads : h < call.at =>
                                 ~(mem[h].type = 1 /\ mem[h].size >= call.n)

IInv == /\ TypeOK /\ 0 \in heads
        /\ HeadTypes /\ Chain /\ Virgin /\ Freed /\ Held /\ WalkOK
-----------------------------------------------------------------------------
(* The first header covers the whole area. *)
LEMMA InitIInv == Init => IInv
<1> SUFFICES ASSUME Init PROVE IInv
  OBVIOUS
<1> USE EnclaveHeapAssumption DEF Init
<1>1. 0 \in Cells
  BY DEF Cells
<1>2. mem \in [Cells -> Cell] /\ \A i \in Cells : mem[i] = Zero
  BY DEF Zero, Cell
<1>3. mem[0].type = 0 /\ mem[0].size = 0
  BY <1>1, <1>2 DEF Zero
<1>4. TypeOK
  BY <1>1, <1>2 DEF TypeOK, Idle
<1>5. HeadTypes /\ Chain /\ Virgin /\ Freed /\ Held
  BY <1>2, <1>3 DEF HeadTypes, Chain, Virgin, Freed, Held
<1>6. WalkOK
  BY DEF WalkOK, Idle
<1> QED
  BY <1>3, <1>4, <1>5, <1>6 DEF IInv

(* A new call starts at the first header, which every walk may stand on. *)
LEMMA CallIInv ==
  ASSUME IInv, NEW n \in Nat, n > 0, NEW by \in {"program", "heap"},
         by = "heap" => mmap_step < MaxStep, call' = Call(n, by), brk' \in Nat,
         UNCHANGED <<mem, live, heads, mmap_step>>
  PROVE  IInv'
<1> USE EnclaveHeapAssumption
<1>1. call' = [n |-> n, at |-> 0, by |-> by]
  BY DEF Call
<1>2. TypeOK'
  BY <1>1 DEF IInv, TypeOK, Cell, Cells
<1>3. (HeadTypes /\ Chain /\ Virgin /\ Freed /\ Held)'
  BY DEF IInv, HeadTypes, Chain, Virgin, Freed, Held, End
<1>4. WalkOK'
  BY <1>1 DEF IInv, WalkOK, TypeOK, Cells
<1> QED
  BY <1>2, <1>3, <1>4 DEF IInv

(* A header the walk splits: the remainder becomes a header of the same    *)
(* type, of size 0 if the header was virgin and of what is left otherwise. *)
LEMMA SplitRest ==
  ASSUME IInv, Walking, Splits, RestInside
  PROVE  /\ Rest \in Cells /\ Rest > call.at /\ Rest \notin heads
         /\ Head.type \in {0, 1}
         /\ Head.type = 0 => RestSize = 0
         /\ Head.type = 1 => RestSize \in Nat /\ Rest + 1 + RestSize = End(call.at)
<1> USE EnclaveHeapAssumption
<1>1. call.at \in heads /\ call.at \in Cells /\ call.n \in Nat /\ call.n > 0
  BY DEF IInv, WalkOK, TypeOK, Walking, Cells
<1>2. Rest \in Cells /\ Rest > call.at
  BY <1>1 DEF Rest, RestInside, Cells
<1>3. mem[call.at] \in Cell /\ mem[Rest] \in Cell
  BY <1>1, <1>2 DEF IInv, TypeOK
<1>4. Head.type \in {0, 1} /\ Head.size \in Nat
  BY <1>3 DEF Head, Splits, Cell
<1>5. CASE Head.type = 0
  <2>1. mem[Rest] = Zero /\ \A g \in heads : g <= call.at
    BY <1>1, <1>2, <1>5 DEF IInv, Virgin, Head, Cells
  <2>2. RestSize = 0 /\ Rest \notin heads
    BY <2>1, <1>1, <1>2 DEF RestSize, Zero, Cells
  <2> QED
    BY <1>2, <1>5, <2>2
<1>6. CASE Head.type = 1
  <2>1. Head.size >= call.n + 1
    BY <1>6 DEF Splits
  <2>2. End(call.at) \in heads /\ End(call.at) = call.at + 1 + Head.size
        /\ \A g \in heads : g <= call.at \/ g >= End(call.at)
    BY <1>1, <1>6 DEF IInv, Chain, Head, End
  <2>3. End(call.at) \in Cells
    BY <2>2 DEF IInv, TypeOK
  <2>4. Rest < End(call.at)
    BY <2>1, <2>2, <1>1, <1>4 DEF Rest, Cells
  <2>5. mem[Rest].size # 0
    BY <2>4, <1>1, <1>2, <1>6 DEF IInv, Freed, Head
  <2>6. RestSize = (Head.size - call.n - 1) % Word
    BY <2>5 DEF RestSize
  <2>7. Head.size - call.n - 1 \in 0 .. Word - 1
    BY <2>1, <2>2, <2>3, <1>1, <1>4 DEF Cells
  <2>8. RestSize = Head.size - call.n - 1
    BY <2>6, <2>7
  <2>9. Rest \notin heads
    BY <2>2, <2>3, <2>4, <1>1, <1>2 DEF Cells
  <2> QED
    BY <1>2, <1>6, <2>2, <2>7, <2>8, <2>9, <1>1, <1>4 DEF Rest, Cells
<1> QED
  BY <1>4, <1>5, <1>6

(* A block that is handed out behind a header that was not in use. *)
LEMMA NewBlockHeld ==
  ASSUME IInv, NEW a \in Cells, NEW n \in Nat, NEW by,
         a \in heads, mem[a].type # 2, mem'[a] = [type |-> 2, size |-> n],
         heads \subseteq heads', \A h \in heads : h # a => mem'[h] = mem[h],
         live' = live \cup {Block(a + 1, n, by)}
  PROVE  Held'
<1>1. \A b \in live : /\ b.at - 1 \in heads /\ b.at - 1 # a
                      /\ mem'[b.at - 1] = [type |-> 2, size |-> b.len]
  <2> SUFFICES ASSUME NEW b \in live
               PROVE  /\ b.at - 1 \in heads /\ b.at - 1 # a
                      /\ mem'[b.at - 1] = [type |-> 2, size |-> b.len]
    OBVIOUS
  <2>1. b.at - 1 \in heads /\ mem[b.at - 1] = [type |-> 2, size |-> b.len]
    BY DEF IInv, Held
  <2> QED
    BY <2>1
<1>2. \A b, c \in live : c.at = b.at => c = b
  BY DEF IInv, Held
<1>4. \A b \in live : b.at # a + 1
  <2> SUFFICES ASSUME NEW b \in live, b.at = a + 1 PROVE FALSE
    OBVIOUS
  <2>1. b.at - 1 = a
    BY DEF Cells
  <2> QED
    BY <2>1, <1>1
<1>5. live' = live \cup {[at |-> a + 1, len |-> n, by |-> by]}
  BY DEF Block
<1> SUFFICES ASSUME NEW b \in live'
             PROVE  /\ b.at - 1 \in heads'
                    /\ mem'[b.at - 1] = [type |-> 2, size |-> b.len]
                    /\ \A c \in live' : c.at = b.at => c = b
  BY DEF Held
<1>7. CASE b \in live
  BY <1>7, <1>1, <1>2, <1>4, <1>5
<1>8. CASE b = [at |-> a + 1, len |-> n, by |-> by]
  <2>1. b.at = a + 1 /\ b.len = n
    BY <1>8
  <2>2. b.at - 1 = a
    BY <2>1 DEF Cells
  <2> QED
    BY <2>1, <2>2, <1>8, <1>4, <1>5
<1> QED
  BY <1>5, <1>7, <1>8

(* Splitting a header keeps the area tiled. *)
LEMMA SplitIInv == IInv /\ MmapSplit => IInv'
<1> SUFFICES ASSUME IInv, MmapSplit PROVE IInv'
  OBVIOUS
<1> USE EnclaveHeapAssumption
<1>1. PICK a \in Cells : a = call.at
  BY DEF IInv, WalkOK, TypeOK, Walking, MmapSplit
<1>2. PICK n \in Nat : n = call.n /\ n > 0
  BY DEF IInv, WalkOK, TypeOK, Walking, MmapSplit
<1>3. PICK r \in Cells : r = Rest /\ r > a /\ r \notin heads
  BY <1>1, SplitRest DEF MmapSplit
<1>4. PICK t \in {0, 1} : t = mem[a].type
  BY <1>1, SplitRest DEF MmapSplit, Head
<1>5. PICK z \in Nat : z = RestSize /\ (t = 0 => z = 0) /\ (t = 1 => r + 1 + z = End(a))
  BY <1>1, <1>3, <1>4, SplitRest DEF MmapSplit, Head
<1>6. r = a + 1 + n /\ a \in heads
  BY <1>1, <1>2, <1>3 DEF Rest, IInv, WalkOK
<1>7. /\ mem \in [Cells -> Cell] /\ mem' \in [Cells -> Cell]
      /\ mem'[a] = [type |-> 2, size |-> n]
      /\ mem'[r] = [type |-> t, size |-> z]
      /\ \A i \in Cells \ {a, r} : mem'[i] = mem[i]
  <2>1. mem \in [Cells -> Cell]
    BY DEF IInv, TypeOK
  <2>2. mem' = [mem EXCEPT ![a] = [type |-> 2, size |-> n], ![r] = [type |-> t, size |-> z]]
    BY <1>1, <1>2, <1>3, <1>4, <1>5 DEF MmapSplit, Head
  <2>3. [type |-> 2, size |-> n] \in Cell /\ [type |-> t, size |-> z] \in Cell
    BY DEF Cell
  <2>4. a # r
    BY <1>3 DEF Cells
  <2> QED
    BY <2>1, <2>2, <2>3, <2>4
<1>8. heads' = heads \cup {r} /\ heads \subseteq Cells
  BY <1>3 DEF MmapSplit, IInv, TypeOK
<1>9. /\ call' = Idle /\ live' = live \cup {Block(a + 1, n, call.by)} /\ brk' = brk
      /\ call.by \in {"program", "heap"}
      /\ mmap_step' = IF call.by = "heap" THEN mmap_step + 1 ELSE mmap_step
      /\ call.by = "heap" => mmap_step < MaxStep
  BY <1>1, <1>2 DEF MmapSplit, Return, IInv, WalkOK, TypeOK, Walking
<1>10. \A h \in heads : mem[h] \in Cell /\ h \in Nat /\ (h # a => mem'[h] = mem[h])
  BY <1>7, <1>8, <1>3 DEF Cells
<1>11. \A g \in heads : g <= a \/ (t = 1 /\ g >= r + 1 + z)
  BY <1>4, <1>5, <1>6 DEF IInv, Chain, Virgin
<1>12. TypeOK'
  <2>1. a + 1 \in Cells
    BY <1>2, <1>6, <1>1, <1>3 DEF Cells
  <2>2. live' \subseteq [at : Cells, len : Nat, by : {"program", "heap"}]
    BY <2>1, <1>9 DEF Block, IInv, TypeOK
  <2>3. mmap_step' \in 0 .. MaxStep
    BY <1>9 DEF IInv, TypeOK
  <2> QED
    BY <2>2, <2>3, <1>7, <1>8, <1>9 DEF IInv, TypeOK, Idle
<1>13. HeadTypes'
  BY <1>7, <1>8, <1>10 DEF IInv, HeadTypes
<1>14. Chain'
  <2> SUFFICES ASSUME NEW h \in heads', mem'[h].type # 0
               PROVE  /\ h + 1 + mem'[h].size \in heads'
                      /\ \A g \in heads' : g <= h \/ g >= h + 1 + mem'[h].size
    BY DEF Chain, End
  <2>1. CASE h = a
    BY <2>1, <1>6, <1>7, <1>8, <1>11, <1>5, <1>10
  <2>2. CASE h = r
    <3>1. t = 1 /\ mem'[h].size = z /\ r + 1 + z = End(a)
      BY <2>2, <1>4, <1>5, <1>7
    <3>2. End(a) \in heads
      BY <3>1, <1>4, <1>6 DEF IInv, Chain
    <3>3. r + 1 + mem'[h].size \in heads'
      BY <3>1, <3>2, <1>8
    <3>4. \A g \in heads : g <= r \/ g >= r + 1 + z
      BY <1>11, <1>3, <1>10 DEF Cells
    <3>5. r <= r
      BY DEF Cells
    <3> QED
      BY <3>1, <3>3, <3>4, <3>5, <2>2, <1>8
  <2>3. CASE h \in heads /\ h # a
    <3>1. mem'[h] = mem[h] /\ End(h) = h + 1 + mem'[h].size
      BY <2>3, <1>10 DEF End
    <3>2. End(h) \in heads /\ \A g \in heads : g <= h \/ g >= End(h)
      BY <2>3, <3>1 DEF IInv, Chain
    <3>3. a <= h \/ a >= End(h)
      BY <3>2, <1>6
    <3>4. End(h) \in Nat /\ h \in Nat
      BY <3>2, <2>3, <1>10
    <3>5. r <= h \/ r >= End(h)
      <4>1. CASE a >= End(h)
        BY <4>1, <3>4, <1>3 DEF Cells
      <4>2. CASE a <= h
        BY <4>2, <2>3, <1>11, <3>4, <1>3, <1>5 DEF Cells
      <4> QED
        BY <3>3, <4>1, <4>2
    <3> QED
      BY <3>1, <3>2, <3>5, <1>8
  <2> QED
    BY <2>1, <2>2, <2>3, <1>8
<1>15. Virgin'
  <2> SUFFICES ASSUME NEW h \in heads', mem'[h].type = 0
               PROVE  /\ \A g \in heads' : g <= h
                      /\ \A i \in Cells : i >= h => mem'[i] = Zero
    BY DEF Virgin
  <2>1. h # a
    BY <1>7
  <2>2. CASE h = r
    <3>1. t = 0 /\ z = 0
      BY <2>2, <1>7, <1>5
    <3>2. \A i \in Cells : i >= a => mem[i] = Zero
      BY <3>1, <1>4, <1>6 DEF IInv, Virgin
    <3>3. \A i \in Cells : i >= r => mem'[i] = Zero
      BY <3>1, <3>2, <1>7, <1>3 DEF Zero, Cells
    <3> QED
      BY <3>1, <3>3, <2>2, <1>8, <1>11, <1>3, <1>10 DEF Cells
  <2>3. CASE h \in heads /\ h # a
    <3>1. mem[h].type = 0
      BY <2>3, <1>10
    <3>2. (\A g \in heads : g <= h) /\ (\A i \in Cells : i >= h => mem[i] = Zero)
      BY <3>1, <2>3 DEF IInv, Virgin
    <3>3. h > r
      BY <3>2, <2>3, <1>6, <1>11, <1>10, <1>3, <1>5 DEF Cells
    <3>4. \A i \in Cells : i >= h => mem'[i] = mem[i]
      BY <3>3, <1>7, <1>3, <1>10, <2>3 DEF Cells
    <3> QED
      BY <3>2, <3>3, <3>4, <1>8, <1>10, <2>3, <1>3 DEF Cells
  <2> QED
    BY <2>1, <2>2, <2>3, <1>8
<1>16. Freed'
  <2> SUFFICES ASSUME NEW h \in heads', mem'[h].type = 1, NEW i \in Cells,
                      i > h, i < h + 1 + mem'[h].size
               PROVE  mem'[i].size # 0
    BY DEF Freed, End
  <2>1. h # a
    BY <1>7
  <2>2. CASE h = r
    <3>1. t = 1 /\ r + 1 + z = End(a) /\ mem'[h].size = z
      BY <2>2, <1>7, <1>5
    <3>2. mem[i].size # 0
      BY <3>1, <2>2, <1>4, <1>6, <1>3 DEF IInv, Freed, Cells
    <3> QED
      BY <3>2, <2>2, <1>7, <1>3 DEF Cells
  <2>3. CASE h \in heads /\ h # a
    <3>1. mem'[h] = mem[h] /\ mem[h].size \in Nat /\ h \in Nat
      BY <2>3, <1>10 DEF Cell
    <3>2. i < End(h)
      BY <3>1 DEF End
    <3>3. mem[i].size # 0
      BY <3>1, <3>2, <2>3 DEF IInv, Freed
    <3>4. a <= h \/ a >= End(h)
      BY <2>3, <3>1, <1>6 DEF IInv, Chain
    <3>5. r \notin h + 1 .. i
      BY <3>1, <3>2, <3>4, <2>3, <1>11, <1>3, <1>5 DEF End, Cells
    <3>6. i # a /\ i # r
      BY <3>1, <3>2, <3>4, <3>5 DEF End, Cells
    <3> QED
      BY <3>3, <3>6, <1>7
  <2> QED
    BY <2>1, <2>2, <2>3, <1>8
<1>17. Held'
  BY <1>4, <1>6, <1>7, <1>8, <1>9, <1>10, NewBlockHeld
<1>18. WalkOK' /\ (0 \in heads)'
  BY <1>8, <1>9 DEF IInv, WalkOK, Idle
<1> QED
  BY <1>12, <1>13, <1>14, <1>15, <1>16, <1>17, <1>18 DEF IInv

(* An unmapped block of the very size asked for changes its type only. *)
LEMMA ReuseIInv == IInv /\ MmapReuse => IInv'
<1> SUFFICES ASSUME IInv, MmapReuse PROVE IInv'
  OBVIOUS
<1> USE EnclaveHeapAssumption
<1>1. PICK a \in Cells : a = call.at /\ a \in heads
  BY DEF IInv, WalkOK, TypeOK, Walking, MmapReuse
<1>2. PICK n \in Nat : n = call.n /\ n > 0
  BY DEF IInv, WalkOK, TypeOK, Walking, MmapReuse
<1>3. mem \in [Cells -> Cell]
  BY DEF IInv, TypeOK
<1>4. mem[a] \in Cell /\ mem[a].type = 1 /\ mem[a].size = n
  <2>1. mem[a].size \in Nat /\ mem[a].type = 1 /\ mem[a].size >= n /\ ~(mem[a].size >= n + 1)
    BY <1>1, <1>2, <1>3 DEF MmapReuse, Fits, Splits, Head, Cell
  <2> QED
    BY <2>1, <1>3
<1>5. /\ mem' \in [Cells -> Cell]
      /\ mem'[a] = [type |-> 2, size |-> n]
      /\ \A i \in Cells \ {a} : mem'[i] = mem[i]
  <2>1. mem' = [mem EXCEPT ![a].type = 2]
    BY <1>1 DEF MmapReuse
  <2>2. mem[a] = [type |-> 1, size |-> n]
    BY <1>4 DEF Cell
  <2>3. [mem[a] EXCEPT !.type = 2] = [type |-> 2, size |-> n]
    BY <2>2
  <2>4. mem' = [mem EXCEPT ![a] = [type |-> 2, size |-> n]]
    BY <2>1, <2>3
  <2> QED
    BY <2>4, <1>3 DEF Cell
<1>6. heads' = heads /\ heads \subseteq Cells
  BY DEF MmapReuse, IInv, TypeOK
<1>7. /\ call' = Idle /\ live' = live \cup {Block(a + 1, n, call.by)} /\ brk' = brk
      /\ call.by \in {"program", "heap"}
      /\ mmap_step' = IF call.by = "heap" THEN mmap_step + 1 ELSE mmap_step
      /\ call.by = "heap" => mmap_step < MaxStep
  BY <1>1, <1>2 DEF MmapReuse, Return, IInv, WalkOK, TypeOK, Walking
<1>8. \A h \in heads : mem'[h].size = mem[h].size /\ (h # a => mem'[h] = mem[h])
  BY <1>4, <1>5, <1>6
<1>9. End(a) \in heads /\ End(a) = a + 1 + n
  BY <1>1, <1>4 DEF IInv, Chain, End
<1>10. TypeOK'
  <2>1. a + 1 \in Cells
    BY <1>2, <1>9, <1>1, <1>6 DEF Cells
  <2>2. live' \subseteq [at : Cells, len : Nat, by : {"program", "heap"}]
    BY <2>1, <1>7 DEF Block, IInv, TypeOK
  <2>3. mmap_step' \in 0 .. MaxStep
    BY <1>7 DEF IInv, TypeOK
  <2> QED
    BY <2>2, <2>3, <1>5, <1>6, <1>7 DEF IInv, TypeOK, Idle
<1>11. HeadTypes'
  BY <1>5, <1>6, <1>8 DEF IInv, HeadTypes
<1>12. Chain'
  <2>1. \A h \in heads : mem'[h].type # 0 => mem[h].type # 0
    BY <1>4, <1>8
  <2>2. \A h \in heads : End(h)' = End(h)
    BY <1>8 DEF End
  <2> QED
    BY <2>1, <2>2, <1>6 DEF IInv, Chain
<1>13. Virgin'
  <2> SUFFICES ASSUME NEW h \in heads, mem'[h].type = 0
               PROVE  /\ \A g \in heads : g <= h
                      /\ \A i \in Cells : i >= h => mem'[i] = Zero
    BY <1>6 DEF Virgin
  <2>1. mem[h].type = 0
    BY <1>5, <1>8
  <2>2. (\A g \in heads : g <= h) /\ (\A i \in Cells : i >= h => mem[i] = Zero)
    BY <2>1 DEF IInv, Virgin
  <2>3. ~(a >= h)
    BY <2>2, <1>4, <1>1 DEF Zero
  <2> QED
    BY <2>2, <2>3, <1>5
<1>14. Freed'
  <2> SUFFICES ASSUME NEW h \in heads, mem'[h].type = 1, NEW i \in Cells,
                      i > h, i < h + 1 + mem'[h].size
               PROVE  mem'[i].size # 0
    BY <1>6 DEF Freed, End
  <2>1. mem[h].type = 1 /\ i < End(h)
    BY <1>5, <1>8 DEF End
  <2>2. mem[i].size # 0
    BY <2>1 DEF IInv, Freed
  <2> QED
    BY <2>2, <1>4, <1>5
<1>15. Held'
  <2>1. a \in heads /\ heads \subseteq heads' /\ mem[a].type # 2
    BY <1>1, <1>4, <1>6
  <2>2. \A h \in heads : h # a => mem'[h] = mem[h]
    BY <1>8
  <2>3. mem'[a] = [type |-> 2, size |-> n] /\ live' = live \cup {Block(a + 1, n, call.by)}
    BY <1>5, <1>7
  <2> QED
    BY <2>1, <2>2, <2>3, NewBlockHeld
<1>16. WalkOK' /\ (0 \in heads)'
  BY <1>6, <1>7 DEF IInv, WalkOK, Idle
<1> QED
  BY <1>10, <1>11, <1>12, <1>13, <1>14, <1>15, <1>16 DEF IInv

(* The walk goes from a header to the next one. *)
LEMMA SkipIInv == IInv /\ MmapSkip => IInv'
<1> SUFFICES ASSUME IInv, MmapSkip PROVE IInv'
  OBVIOUS
<1> USE EnclaveHeapAssumption
<1>1. PICK a \in Cells : a = call.at /\ a \in heads
  BY DEF IInv, WalkOK, TypeOK, Walking, MmapSkip
<1>2. mem[a] \in Cell /\ mem[a].type # 0 /\ mem[a].size \in Nat
      /\ ~(mem[a].type = 1 /\ mem[a].size >= call.n)
  BY <1>1 DEF IInv, TypeOK, MmapSkip, Splits, Fits, Head, Cell
<1>3. End(a) \in heads /\ (\A g \in heads : g <= a \/ g >= End(a)) /\ heads \subseteq Cells
  BY <1>1, <1>2 DEF IInv, Chain, TypeOK
<1> End(a) \in Nat /\ \A h \in heads : h \in Nat
  <2>1. End(a) \in Cells
    BY <1>3
  <2>2. Cells \subseteq Nat
    BY DEF Cells
  <2> QED
    BY <2>1, <2>2, <1>3
<1>4. NextHead = End(a)
  <2>1. End(a) \in 0 .. Word - 1 /\ End(a) = call.at + 1 + Head.size
    BY <1>1, <1>2, <1>3 DEF Cells, End, Head
  <2> QED
    BY <2>1 DEF NextHead
<1>5. PICK n \in Nat, by \in {"program", "heap"} :
         call = [n |-> n, at |-> a, by |-> by] /\ n > 0
  BY <1>1 DEF IInv, TypeOK, WalkOK, MmapSkip, Walking
<1>6. call' = [n |-> n, at |-> End(a), by |-> by]
  BY <1>4, <1>5 DEF MmapSkip
<1>7. UNCHANGED <<mem, live, heads, brk, mmap_step>>
  BY DEF MmapSkip
<1>8. TypeOK'
  BY <1>6, <1>7 DEF IInv, TypeOK
<1>9. (HeadTypes /\ Chain /\ Virgin /\ Freed /\ Held)'
  BY <1>7 DEF IInv, HeadTypes, Chain, Virgin, Freed, Held, End
<1>10. \A h \in heads : h < End(a) => ~(mem[h].type = 1 /\ mem[h].size >= n)
  <2> SUFFICES ASSUME NEW h \in heads, h < End(a)
               PROVE  ~(mem[h].type = 1 /\ mem[h].size >= n)
    OBVIOUS
  <2>1. h <= a
    BY <1>3 DEF Cells
  <2>2. CASE h = a
    BY <2>2, <1>2, <1>5
  <2>3. CASE h < a
    BY <2>3, <1>5 DEF IInv, WalkOK, MmapSkip, Walking
  <2> QED
    BY <2>1, <2>2, <2>3, <1>3 DEF Cells
<1>11. WalkOK'
  <2>1. by = "heap" => mmap_step < MaxStep
    BY <1>5 DEF IInv, WalkOK, MmapSkip, Walking
  <2> QED
    BY <2>1, <1>3, <1>5, <1>6, <1>7, <1>10 DEF WalkOK
<1> QED
  BY <1>7, <1>8, <1>9, <1>11 DEF IInv

(* A call that fails leaves everything as it was. *)
LEMMA FailsIInv == IInv /\ MmapFails => IInv'
  BY DEF IInv, TypeOK, HeadTypes, Chain, Virgin, Freed, Held, End, WalkOK, MmapFails, Idle

(* What is unmapped keeps its size, and holds no zero word. *)
LEMMA MunmapIInv ==
  ASSUME IInv, LeavesNoZero, NEW b \in live, Munmap(b)
  PROVE  IInv'
<1> USE EnclaveHeapAssumption
<1>1. PICK a \in Cells : a = b.at - 1 /\ a \in heads
  BY DEF IInv, Held, TypeOK
<1>2. PICK n \in Nat : n = b.len
  BY DEF IInv, TypeOK
<1>3. mem \in [Cells -> Cell] /\ mem[a] = [type |-> 2, size |-> n]
  BY <1>1, <1>2 DEF IInv, TypeOK, Held
<1>4. /\ mem' \in [Cells -> Cell]
      /\ mem'[a] = [type |-> 1, size |-> n]
      /\ \A i \in Cells \ {a} : mem'[i] = mem[i]
  <2>1. mem' = [mem EXCEPT ![a].type = 1]
    BY <1>1 DEF Munmap
  <2>2. [mem[a] EXCEPT !.type = 1] = [type |-> 1, size |-> n]
    BY <1>3
  <2>3. mem' = [mem EXCEPT ![a] = [type |-> 1, size |-> n]]
    BY <2>1, <2>2
  <2> QED
    BY <2>3, <1>3 DEF Cell
<1>5. /\ heads' = heads /\ call = Idle /\ call' = call /\ live' = live \ {b}
      /\ brk' = brk /\ mmap_step' = mmap_step /\ heads \subseteq Cells
  BY DEF Munmap, IInv, TypeOK
<1>6. \A h \in heads : mem'[h].size = mem[h].size /\ (h # a => mem'[h] = mem[h])
  BY <1>3, <1>4, <1>5
<1>7. TypeOK'
  BY <1>4, <1>5 DEF IInv, TypeOK
<1>8. HeadTypes'
  BY <1>4, <1>5, <1>6 DEF IInv, HeadTypes
<1>9. Chain'
  <2>1. \A h \in heads : mem'[h].type # 0 => mem[h].type # 0
    BY <1>3, <1>6
  <2>2. \A h \in heads : End(h)' = End(h)
    BY <1>6 DEF End
  <2> QED
    BY <2>1, <2>2, <1>5 DEF IInv, Chain
<1>10. Virgin'
  <2> SUFFICES ASSUME NEW h \in heads, mem'[h].type = 0
               PROVE  /\ \A g \in heads : g <= h
                      /\ \A i \in Cells : i >= h => mem'[i] = Zero
    BY <1>5 DEF Virgin
  <2>1. mem[h].type = 0
    BY <1>4, <1>6
  <2>2. (\A g \in heads : g <= h) /\ (\A i \in Cells : i >= h => mem[i] = Zero)
    BY <2>1 DEF IInv, Virgin
  <2>3. ~(a >= h)
    BY <2>2, <1>3, <1>1 DEF Zero
  <2> QED
    BY <2>2, <2>3, <1>4
<1>11. Freed'
  <2> SUFFICES ASSUME NEW h \in heads, mem'[h].type = 1, NEW i \in Cells,
                      i > h, i < h + 1 + mem'[h].size
               PROVE  mem'[i].size # 0
    BY <1>5 DEF Freed, End
  <2>1. CASE h = a
    <3>1. i \in Data(b)
      BY <2>1, <1>1, <1>2, <1>3, <1>6 DEF Data, Cells, IInv, TypeOK
    <3>2. mem[i] \in LeftBehind
      BY <3>1 DEF Munmap
    <3>3. i # a
      BY <2>1, <1>1 DEF Cells
    <3> QED
      BY <3>2, <3>3, <1>4 DEF LeavesNoZero
  <2>2. CASE h # a
    <3>1. mem[h].type = 1 /\ i < End(h)
      BY <2>2, <1>6 DEF End
    <3>2. mem[i].size # 0
      BY <3>1 DEF IInv, Freed
    <3>3. a <= h \/ a >= End(h)
      BY <3>1, <1>1 DEF IInv, Chain
    <3>4. i # a
      BY <3>1, <3>3, <1>5, <1>3 DEF Cells, End, Cell
    <3> QED
      BY <3>2, <3>4, <1>4
  <2> QED
    BY <2>1, <2>2
<1>12. Held'
  <2> SUFFICES ASSUME NEW c \in live, c # b
               PROVE  /\ c.at - 1 \in heads
                      /\ mem'[c.at - 1] = [type |-> 2, size |-> c.len]
                      /\ \A d \in live : d.at = c.at => d = c
    BY <1>5 DEF Held
  <2>1. /\ c.at - 1 \in heads /\ mem[c.at - 1] = [type |-> 2, size |-> c.len]
        /\ \A d \in live : d.at = c.at => d = c
    BY DEF IInv, Held
  <2>2. c.at - 1 # a
    <3>1. c.at # b.at /\ c.at \in Cells /\ b.at \in Cells
      BY <2>1 DEF IInv, TypeOK
    <3> QED
      BY <3>1, <1>1 DEF Cells
  <2> QED
    BY <2>1, <2>2, <1>6
<1>13. WalkOK' /\ (0 \in heads)'
  BY <1>5 DEF IInv, WalkOK
<1> QED
  BY <1>7, <1>8, <1>9, <1>10, <1>11, <1>12, <1>13 DEF IInv

(* The program stores into blocks it holds, where no header lies. *)
LEMMA StoreIInv ==
  ASSUME IInv, NEW b \in live, NEW i \in Data(b), NEW c \in Contents, Store(b, i, c)
  PROVE  IInv'
<1> USE EnclaveHeapAssumption
<1>1. PICK a \in Cells : a = b.at - 1 /\ a \in heads
  BY DEF IInv, Held, TypeOK
<1>2. mem \in [Cells -> Cell] /\ heads \subseteq Cells /\ \A h \in heads : h \in Nat
  BY DEF IInv, TypeOK, Cells
<1>3. mem[a] = [type |-> 2, size |-> b.len] /\ b.len \in Nat /\ b.at \in Nat /\ a \in Nat
  BY <1>1 DEF IInv, Held, TypeOK, Cells
<1>4. End(a) \in heads /\ (\A g \in heads : g <= a \/ g >= End(a)) /\ End(a) = b.at + b.len
  <2>1. End(a) \in heads /\ (\A g \in heads : g <= a \/ g >= End(a))
    BY <1>1, <1>3 DEF IInv, Chain
  <2>2. End(a) = a + 1 + b.len
    BY <1>3 DEF End
  <2>3. a + 1 = b.at
    BY <1>1, <1>3
  <2> QED
    BY <2>1, <2>2, <2>3
<1>5. i \in Nat /\ i > a /\ i < End(a)
  BY <1>1, <1>2, <1>3, <1>4 DEF Data
<1>6. i \in Cells /\ i \notin heads
  <2>1. End(a) \in Cells /\ \A g \in heads : g <= a \/ g >= End(a)
    BY <1>2, <1>4
  <2> QED
    BY <2>1, <1>2, <1>5, <1>3 DEF Cells
<1>7. /\ mem' \in [Cells -> Cell] /\ mem'[i] = c
      /\ \A j \in Cells \ {i} : mem'[j] = mem[j]
  BY <1>2, <1>6 DEF Store
<1>8. UNCHANGED <<call, live, heads, brk, mmap_step>>
  BY DEF Store
<1>9. \A h \in heads : mem'[h] = mem[h] /\ End(h)' = End(h)
  BY <1>2, <1>6, <1>7 DEF End
<1>10. TypeOK' /\ HeadTypes'
  BY <1>7, <1>8, <1>9 DEF IInv, TypeOK, HeadTypes
<1>11. Chain'
  BY <1>8, <1>9 DEF IInv, Chain
<1>12. Virgin'
  <2> SUFFICES ASSUME NEW h \in heads, mem[h].type = 0
               PROVE  /\ \A g \in heads : g <= h
                      /\ \A j \in Cells : j >= h => mem'[j] = Zero
    BY <1>8, <1>9 DEF Virgin
  <2>1. (\A g \in heads : g <= h) /\ (\A j \in Cells : j >= h => mem[j] = Zero)
    BY DEF IInv, Virgin
  <2>2. End(a) <= h /\ End(a) \in Nat /\ h \in Nat
    BY <2>1, <1>2, <1>4
  <2>3. ~(i >= h)
    BY <2>2, <1>5
  <2> QED
    BY <2>1, <2>3, <1>7
<1>13. Freed'
  <2> SUFFICES ASSUME NEW h \in heads, mem[h].type = 1, NEW j \in Cells, j > h, j < End(h)
               PROVE  mem'[j].size # 0
    BY <1>8, <1>9 DEF Freed
  <2>1. mem[j].size # 0 /\ h # a
    BY <1>3 DEF IInv, Freed
  <2>2. (a <= h \/ a >= End(h)) /\ End(h) \in heads
    BY <1>1 DEF IInv, Chain
  <2>3. h <= a \/ h >= End(a)
    BY <1>4
  <2>4. h \in Nat /\ End(h) \in Nat /\ End(a) \in Nat /\ a \in Nat /\ j \in Nat
    <3>1. j \in Nat
      BY DEF Cells
    <3> QED
      BY <3>1, <2>2, <1>2, <1>3, <1>4
  <2>5. h < a \/ h > a
    BY <2>1, <2>4
  <2>6. j # i
    BY <2>2, <2>3, <2>4, <2>5, <1>5
  <2> QED
    BY <2>1, <2>6, <1>7
<1>14. Held'
  BY <1>8, <1>9 DEF IInv, Held
<1>15. WalkOK' /\ (0 \in heads)'
  BY <1>8, <1>9 DEF IInv, WalkOK
<1> QED
  BY <1>10, <1>11, <1>12, <1>13, <1>14, <1>15 DEF IInv

(* Growing the heap moves the break or starts a walk. *)
LEMMA ExpandIInv ==
  ASSUME IInv, NEW n \in HeapSizes, ExpandHeap(n)
  PROVE  IInv'
<1> USE EnclaveHeapAssumption
<1>1. n \in Nat /\ n > 0 /\ UNCHANGED <<mem, live, heads, mmap_step>> /\ brk \in Nat
  BY DEF ExpandHeap, IInv, TypeOK
<1>2. CASE BrkGranted(n)
  <2>1. brk' = brk + n /\ UNCHANGED call
    BY <1>2 DEF ExpandHeap
  <2> QED
    BY <1>1, <2>1 DEF IInv, TypeOK, HeadTypes, Chain, Virgin, Freed, Held, End, WalkOK
<1>3. CASE ~BrkGranted(n)
  <2> DEFINE min == Page * 2 ^ (mmap_step \div 2)
             m == IF n < min THEN min ELSE n
  <2>1. mmap_step < MaxStep /\ call' = Call(m, "heap") /\ brk' = brk
    BY <1>3 DEF ExpandHeap
  <2>2. min \in Nat
    BY DEF IInv, TypeOK
  <2>3. m \in Nat /\ m > 0
    BY <1>1, <2>2
  <2> HIDE DEF m
  <2> QED
    BY <1>1, <2>1, <2>3, CallIInv
<1> QED
  BY <1>2, <1>3

(* Every step keeps the area tiled. *)
LEMMA NextIInv == LeavesNoZero /\ IInv /\ [Next]_vars => IInv'
<1> SUFFICES ASSUME LeavesNoZero, IInv, [Next]_vars PROVE IInv'
  OBVIOUS
<1>1. ASSUME NEW n \in Sizes, Mmap(n) PROVE IInv'
  <2>1. n \in Nat /\ n > 0 /\ brk' \in Nat /\ call' = Call(n, "program")
        /\ UNCHANGED <<mem, live, heads, mmap_step>>
    BY <1>1, EnclaveHeapAssumption DEF Mmap, IInv, TypeOK
  <2> QED
    BY <2>1, CallIInv
<1>2. CASE UNCHANGED vars
  BY <1>2 DEF vars, IInv, TypeOK, HeadTypes, Chain, Virgin, Freed, Held, End, WalkOK
<1> QED
  BY <1>1, <1>2, SplitIInv, ReuseIInv, SkipIInv, FailsIInv, MunmapIInv, ExpandIInv, StoreIInv
     DEF Next, Walk

-----------------------------------------------------------------------------
(* The inductive invariant holds in every state of a program that leaves   *)
(* no zero word in what it unmaps.                                         *)
THEOREM Invariance == LeavesNoZero /\ Spec => []IInv
<1> SUFFICES ASSUME LeavesNoZero PROVE Spec => []IInv
  OBVIOUS
<1>1. IInv /\ [Next]_vars => IInv'
  BY NextIInv
<1> QED
  BY <1>1, InitIInv, PTL DEF Spec

(* The mmap area, the walk and the blocks keep their types. *)
THEOREM TypeCorrect == LeavesNoZero /\ Spec => []TypeOK
<1>1. IInv => TypeOK
  BY DEF IInv
<1> QED
  BY <1>1, Invariance, PTL

(* Blocks that are held at the same time share no memory: mmap of          *)
(* syscall_arch.h is correct for programs that leave no zero word behind.  *)
THEOREM Disjointness == LeavesNoZero /\ Spec => []LiveDisjoint
<1>1. IInv => LiveDisjoint
  <2> SUFFICES ASSUME IInv, NEW b \in live
               PROVE  /\ b.at + b.len <= MmapSize
                      /\ \A c \in live \ {b} : b.at + b.len < c.at \/ c.at + c.len < b.at
    BY DEF LiveDisjoint
  <2>1. \A c \in live : c.at \in Nat /\ c.len \in Nat /\ c.at - 1 \in heads
    <3>1. \A c \in live : c.at - 1 \in heads
      BY DEF IInv, Held
    <3>2. \A c \in live : c.at \in Nat /\ c.len \in Nat
      BY EnclaveHeapAssumption DEF IInv, TypeOK, Cells
    <3> QED
      BY <3>1, <3>2
  <2>2. heads \subseteq Cells
    BY DEF IInv, TypeOK
  <2>3. \A c \in live : /\ c.at + c.len \in heads
                        /\ \A g \in heads : g <= c.at - 1 \/ g >= c.at + c.len
    <3> SUFFICES ASSUME NEW c \in live
                 PROVE  /\ c.at + c.len \in heads
                        /\ \A g \in heads : g <= c.at - 1 \/ g >= c.at + c.len
      OBVIOUS
    <3>1. PICK p \in heads : p = c.at - 1
      BY <2>1
    <3>2. mem[p] = [type |-> 2, size |-> c.len]
      BY <3>1 DEF IInv, Held
    <3>3. End(p) \in heads /\ \A g \in heads : g <= p \/ g >= End(p)
      BY <3>2 DEF IInv, Chain
    <3>4. End(p) = p + 1 + c.len
      BY <3>2 DEF End
    <3>5. End(p) = c.at + c.len
      BY <3>1, <3>4, <2>1
    <3> QED
      BY <3>1, <3>3, <3>5
  <2>4. b.at + b.len <= MmapSize
    <3>1. b.at + b.len \in Cells
      BY <2>2, <2>3
    <3> QED
      BY <3>1, EnclaveHeapAssumption DEF Cells
  <2>5. ASSUME NEW c \in live \ {b} PROVE b.at + b.len < c.at \/ c.at + c.len < b.at
    <3>1. c.at # b.at
      BY DEF IInv, Held
    <3>2. c.at - 1 <= b.at - 1 \/ c.at - 1 >= b.at + b.len
      BY <2>1, <2>3
    <3>3. b.at - 1 <= c.at - 1 \/ b.at - 1 >= c.at + c.len
      BY <2>1, <2>3
    <3>4. b.at \in Nat /\ b.len \in Nat /\ c.at \in Nat /\ c.len \in Nat
      BY <2>1
    <3> QED
      BY <3>1, <3>2, <3>3, <3>4
  <2> QED
    BY <2>4, <2>5
<1> QED
  BY <1>1, Invariance, PTL

(* The header of a held block is never overwritten: munmap, which finds it *)
(* in front of the block, frees exactly that block.                        *)
THEOREM Headers == LeavesNoZero /\ Spec => []HeadersIntact
<1>1. IInv => HeadersIntact
  BY DEF IInv, Held, HeadersIntact
<1> QED
  BY <1>1, Invariance, PTL

(* mmap fails only when no unmapped block is large enough. *)
THEOREM NothingLost == LeavesNoZero /\ Spec => FailsOnlyWhenFull
<1> DEFINE A == (call # Idle /\ call' = Idle /\ live' = live)
                   => ~ \E h \in heads : mem[h].type = 1 /\ mem[h].size >= call.n
<1>1. IInv /\ [Next]_vars => [A]_vars
  <2> SUFFICES ASSUME IInv, Next, call # Idle, call' = Idle, live' = live,
                      NEW h \in heads, mem[h].type = 1, mem[h].size >= call.n
               PROVE  FALSE
    OBVIOUS
  <2> USE EnclaveHeapAssumption
  <2>1. call.at \in heads /\ call.at \in Cells /\ call.at \in Nat /\ h \in Nat
        /\ heads \subseteq Cells /\ call.n \in Nat /\ mem \in [Cells -> Cell]
    BY DEF IInv, WalkOK, TypeOK, Cells
  <2>2. h >= call.at
    BY <2>1 DEF IInv, WalkOK
  <2>3. ~MmapSkip
    <3>1. PICK n \in Nat, at \in Nat, by \in {"program", "heap"} :
             call = [n |-> n, at |-> at, by |-> by]
      BY DEF IInv, WalkOK, TypeOK
    <3> QED
      BY <3>1 DEF MmapSkip, Idle
  <2>4. ~MmapSplit /\ ~MmapReuse
    <3>1. Block(call.at + 1, call.n, call.by) \notin live \/ ~(MmapSplit \/ MmapReuse)
      <4> SUFFICES ASSUME Block(call.at + 1, call.n, call.by) \in live, MmapSplit \/ MmapReuse
                   PROVE  FALSE
        OBVIOUS
      <4>1. PICK b \in live : b.at = call.at + 1
        BY DEF Block
      <4>2. mem[b.at - 1].type = 2
        <5>1. mem[b.at - 1] = [type |-> 2, size |-> b.len]
          BY <4>1 DEF IInv, Held
        <5> QED
          BY <5>1
      <4>3. b.at - 1 = call.at
        BY <4>1, <2>1
      <4>4. Head.type = 2
        BY <4>2, <4>3 DEF Head
      <4> QED
        BY <4>4 DEF MmapSplit, MmapReuse, Splits, Fits
    <3> QED
      BY <3>1 DEF MmapSplit, MmapReuse, Return
  <2>5. MmapFails
    BY <2>3, <2>4 DEF Next, Walk, Mmap, Munmap, ExpandHeap, Store
  <2>6. Splits /\ ~(Rest < MmapSize)
    BY <2>1, <2>5 DEF MmapFails, RestInside, Cells
  <2>7. CASE Head.type = 0
    <3>1. h <= call.at
      BY <2>1, <2>7 DEF Head, IInv, Virgin
    <3>2. h = call.at
      BY <3>1, <2>1, <2>2
    <3> QED
      BY <3>2, <2>7 DEF Head
  <2>8. CASE Head.type # 0
    <3>1. End(call.at) \in heads /\ Head.size >= call.n + 1 /\ Head.size \in Nat
      BY <2>1, <2>6, <2>8 DEF Head, IInv, Chain, Splits, Cell
    <3>2. End(call.at) = call.at + 1 + Head.size
      BY DEF End, Head
    <3>3. call.at + 1 + Head.size < MmapSize
      BY <3>1, <3>2, <2>1 DEF Cells
    <3> QED
      BY <3>1, <3>3, <2>1, <2>6 DEF Rest
  <2> QED
    BY <2>7, <2>8
<1> QED
  BY <1>1, Invariance, PTL DEF Spec, FailsOnlyWhenFull

(* The break never leaves the linker's area, whatever the program leaves   *)
(* behind, when the area holds twice brk_size.                             *)
THEOREM BreakInArea == AreaHoldsBreak /\ Spec => []HeapInBrkArea
<1> SUFFICES ASSUME AreaHoldsBreak PROVE Spec => []HeapInBrkArea
  OBVIOUS
<1> USE EnclaveHeapAssumption DEF AreaHoldsBreak
<1> DEFINE J == brk \in Nat /\ HeapInBrkArea
<1>1. Init => J
  BY DEF Init, HeapInBrkArea
<1>2. J /\ [Next]_vars => J'
  <2> SUFFICES ASSUME J, [Next]_vars PROVE J'
    OBVIOUS
  <2>1. ASSUME NEW n \in HeapSizes, ExpandHeap(n) PROVE J'
    BY <2>1 DEF ExpandHeap, BrkGranted, HeapInBrkArea
  <2>2. CASE brk' = brk
    BY <2>2 DEF HeapInBrkArea
  <2> QED
    BY <2>1, <2>2 DEF Next, Mmap, Walk, MmapSplit, MmapReuse, MmapSkip, MmapFails, Munmap,
                      Store, vars
<1> QED
  BY <1>1, <1>2, PTL DEF Spec
=============================================================================
