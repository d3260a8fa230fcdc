-------------------------- MODULE Sha256RoundsProofs --------------------------
(***************************************************************************)
(* Proofs about Sha256Rounds, for any messages: the rounds work on words,  *)
(* and each of them can be undone.                                         *)
(*                                                                         *)
(* That Minus takes away again what Plus has added is the two's complement *)
(* on 32 bits, and not obvious of a sum that is given by where its carries *)
(* go (MinusUndoesPlus).  Adding y, the ones of Not(y) and 1 makes three   *)
(* carries into each position; one of them is there, never two, and that   *)
(* is an induction over the positions.                                     *)
(***************************************************************************)
EXTENDS Sha256Rounds, SequenceTheorems, WellFoundedInduction, TLAPS

-----------------------------------------------------------------------------
(***************************************************************************)
(* Words                                                                   *)
(***************************************************************************)

\* Induction over the numbers, by the least counterexample.
LEMMA Induction ==
  ASSUME NEW S \in SUBSET Nat, 0 \in S, \A n \in S : n + 1 \in S
  PROVE  S = Nat
<1>. DEFINE less == {p \in Nat \X Nat : p[1] < p[2]}
            T == Nat \ S
<1>1. IsWellFoundedOn(less, Nat)
  <2>1. less = OpToRel(<, Nat)
    BY DEF OpToRel
  <2>. QED
    BY <2>1, NatLessThanWellFounded
<1>. SUFFICES ASSUME T # {} PROVE FALSE
  OBVIOUS
<1>2. PICK x \in T : \A y \in T : <<y, x>> \notin less
  <2>1. T \subseteq Nat
    OBVIOUS
  <2>. HIDE DEF less, T
  <2>. QED
    BY <1>1, <2>1, WFMin, Zenon
<1>3. x # 0 /\ x - 1 \in T
  OBVIOUS
<1>4. <<x - 1, x>> \in Nat \X Nat /\ <<x - 1, x>>[1] < <<x - 1, x>>[2]
  BY <1>3
<1>5. <<x - 1, x>> \in less
  BY <1>4
<1>. QED
  BY <1>2, <1>3, <1>5

\* A word put together from two halves is one, whatever they are.
LEMMA WIs == ASSUME NEW hi, NEW lo PROVE W(hi, lo) \in Word
  BY DEF W, OnesOf, Word, Bits

\* The 64 constants are words.
LEMMA KIs == \A n \in 1..64 : k[n] \in Word
  BY WIs DEF k

\* Words are closed under the operations on bits ...
LEMMA XorIs == ASSUME NEW x \in Word, NEW y \in Word PROVE Xor(x, y) \in Word
  BY DEF Xor, Word

LEMMA NotIs == ASSUME NEW x PROVE Not(x) \in Word
  BY DEF Not, Word

\* ... and under the rotations and shifts of sha256.c.
LEMMA RotateIs ==
  ASSUME NEW x \in Word, NEW n \in 0..31
  PROVE  rotate_r(x, n) \in Word /\ shift_r(x, n) \in Word
  BY DEF rotate_r, shift_r, Word, Bits

-----------------------------------------------------------------------------
(***************************************************************************)
(* Sums                                                                    *)
(***************************************************************************)

\* The bits of a sum.
LEMMA PlusIs ==
  ASSUME NEW x \in Word, NEW y \in Word
  PROVE  /\ Plus(x, y) \in Word
         /\ \A b \in Bits : b \in Plus(x, y) <=> ((b \in x <=> b \in y) <=> b \in Carry(x, y))
<1>1. Plus(x, y) = Xor(Xor(x, y), Carry(x, y))
  BY DEF Plus, WordSum
<1>2. x \subseteq Bits /\ y \subseteq Bits /\ Carry(x, y) \subseteq Bits
  BY DEF Word, Carry
<1>. QED
  BY <1>1, <1>2 DEF Xor, Word

\* A carry into a position comes from the position below.
LEMMA CarryIs ==
  ASSUME NEW x \in Word, NEW y \in Word
  PROVE  /\ 0 \notin Carry(x, y)
         /\ \A b \in Bits : b + 1 \in Bits =>
              (b + 1 \in Carry(x, y) <=>
                 \/ b \in x /\ b \in y
                 \/ (b \in x \/ b \in y) /\ b \in Carry(x, y))
<1>0. x \subseteq Bits /\ y \subseteq Bits
  BY DEF Word
<1>1. 0 \notin Carry(x, y)
  BY <1>0 DEF Carry, Bits
<1>2. ASSUME NEW b \in Bits, b + 1 \in Bits
      PROVE  b + 1 \in Carry(x, y) <=>
                 \/ b \in x /\ b \in y
                 \/ (b \in x \/ b \in y) /\ b \in Carry(x, y)
  <2>1. ASSUME b \in x, b \in y PROVE b + 1 \in Carry(x, y)
    <3>1. b < b + 1 /\ (b + 1)..((b + 1) - 1) = {}
      BY DEF Bits
    <3>. QED
      BY <1>2, <2>1, <3>1 DEF Carry
  <2>2. ASSUME b \in x \/ b \in y, b \in Carry(x, y) PROVE b + 1 \in Carry(x, y)
    <3>1. PICK g \in x \cap y : g < b /\ (g + 1)..(b - 1) \subseteq x \cup y
      BY <2>2 DEF Carry
    <3>2. g < b + 1 /\ (g + 1)..((b + 1) - 1) \subseteq x \cup y
      BY <1>0, <2>2, <3>1 DEF Bits
    <3>. QED
      BY <1>2, <3>2 DEF Carry
  <2>3. ASSUME b + 1 \in Carry(x, y), ~(b \in x /\ b \in y)
        PROVE (b \in x \/ b \in y) /\ b \in Carry(x, y)
    <3>1. PICK g \in x \cap y : g < b + 1 /\ (g + 1)..((b + 1) - 1) \subseteq x \cup y
      BY <2>3 DEF Carry
    <3>2. g # b /\ g \in Int
      BY <1>0, <2>3 DEF Bits
    <3>3. g < b /\ b \in (g + 1)..((b + 1) - 1) /\ (g + 1)..(b - 1) \subseteq x \cup y
      BY <1>0, <3>1, <3>2 DEF Bits
    <3>. QED
      BY <3>1, <3>3 DEF Carry
  <2>. QED
    BY <2>1, <2>2, <2>3
<1>. QED
  BY <1>1, <1>2

\* What is added can be taken away again: of the carries of x + y, of the
\* negation of y and of their sum there is exactly one into each position.
LEMMA MinusUndoesPlus ==
  ASSUME NEW x \in Word, NEW y \in Word
  PROVE  Minus(Plus(x, y), y) = x
<1>1. PICK z, n, u, m, r : /\ z = Plus(x, y) /\ n = Not(y) /\ u = {0} /\ m = Plus(n, u)
                           /\ r = Plus(z, m)
  OBVIOUS
<1>2. PICK c, d, e : c = Carry(x, y) /\ d = Carry(n, u) /\ e = Carry(z, m)
  OBVIOUS
<1>3. z \in Word /\ n \in Word /\ u \in Word /\ m \in Word /\ r \in Word
  <2>1. z \in Word /\ n \in Word /\ u \in Word
    BY <1>1, PlusIs, NotIs DEF Word, Bits
  <2>2. m \in Word
    BY <1>1, <2>1, PlusIs
  <2>. QED
    BY <1>1, <2>1, <2>2, PlusIs
<1>4. ASSUME NEW b \in Bits
      PROVE  /\ b \in z <=> ((b \in x <=> b \in y) <=> b \in c)
             /\ b \in n <=> b \notin y
             /\ b \in u <=> b = 0
             /\ b \in m <=> ((b \in n <=> b \in u) <=> b \in d)
             /\ b \in r <=> ((b \in z <=> b \in m) <=> b \in e)
  BY <1>1, <1>2, <1>3, PlusIs DEF Not
<1>5. 0 \notin c /\ 0 \notin d /\ 0 \notin e
  BY <1>1, <1>2, <1>3, CarryIs
<1>6. ASSUME NEW b \in Bits, b + 1 \in Bits
      PROVE  /\ b + 1 \in c <=> (b \in x /\ b \in y) \/ ((b \in x \/ b \in y) /\ b \in c)
             /\ b + 1 \in d <=> (b \in n /\ b \in u) \/ ((b \in n \/ b \in u) /\ b \in d)
             /\ b + 1 \in e <=> (b \in z /\ b \in m) \/ ((b \in z \/ b \in m) /\ b \in e)
  BY <1>2, <1>3, <1>6, CarryIs
<1>. DEFINE D(b) == b \in d \/ b = 0
            One(b) == /\ b \in c \/ D(b) \/ b \in e
                      /\ ~(b \in c /\ D(b)) /\ ~(b \in c /\ b \in e) /\ ~(D(b) /\ b \in e)
            S == {b \in Nat : b \in Bits => One(b)}
<1>7. 0 \in S
  BY <1>5
<1>8. ASSUME NEW b \in S PROVE b + 1 \in S
  <2>1. b \in Nat /\ (b \in Bits => One(b)) /\ b + 1 \in Nat /\ b + 1 # 0
    OBVIOUS
  <2>2. ASSUME b + 1 \in Bits PROVE One(b + 1)
    <3>1. b \in Bits /\ One(b)
      BY <2>1, <2>2 DEF Bits
    <3>2. /\ b \in z <=> ((b \in x <=> b \in y) <=> b \in c)
          /\ b \in n <=> b \notin y
          /\ b \in m <=> ((b \in n <=> b \in u) <=> b \in d)
      BY <1>4, <3>1
    <3>3. /\ b + 1 \in c <=> (b \in x /\ b \in y) \/ ((b \in x \/ b \in y) /\ b \in c)
          /\ b + 1 \in d <=> (b \in n /\ b \in u) \/ ((b \in n \/ b \in u) /\ b \in d)
          /\ b + 1 \in e <=> (b \in z /\ b \in m) \/ ((b \in z \/ b \in m) /\ b \in e)
      BY <1>6, <2>2, <3>1
    <3>4. D(b + 1) <=> b + 1 \in d
      BY <2>1
    <3>5. (D(b) <=> b \in d \/ b \in u) /\ ~(b \in d /\ b \in u)
      BY <1>4, <1>5, <3>1
    <3>. HIDE DEF D
    <3>. QED
      BY <3>1, <3>2, <3>3, <3>4, <3>5
  <2>. QED
    BY <2>1, <2>2
<1>9. S = Nat
  <2>. HIDE DEF S
  <2>1. S \subseteq Nat
    BY DEF S
  <2>. QED
    BY <1>7, <1>8, <2>1, Induction
<1>10. ASSUME NEW b \in Bits PROVE b \in r <=> b \in x
  <2>1. One(b)
    <3>1. b \in Nat
      BY DEF Bits
    <3>2. b \in S
      <4>. HIDE DEF S
      <4>. QED
        BY <1>9, <3>1
    <3>. QED
      BY <3>2
  <2>2. /\ b \in z <=> ((b \in x <=> b \in y) <=> b \in c)
        /\ b \in n <=> b \notin y
        /\ b \in m <=> ((b \in n <=> b \in u) <=> b \in d)
        /\ b \in r <=> ((b \in z <=> b \in m) <=> b \in e)
    BY <1>4
  <2>3. (D(b) <=> b \in d \/ b \in u) /\ ~(b \in d /\ b \in u)
    BY <1>4, <1>5
  <2>. HIDE DEF D
  <2>. QED
    BY <2>1, <2>2, <2>3
<1>11. r = x
  <2>1. r \subseteq Bits /\ x \subseteq Bits
    BY <1>3 DEF Word
  <2>. QED
    BY <1>10, <2>1
<1>. QED
  BY <1>1, <1>11 DEF Minus

-----------------------------------------------------------------------------
(***************************************************************************)
(* The invariant, and a round taken back                                   *)
(***************************************************************************)

\* What the rounds work on: words, as many as the counter says.
RoundsInv ==
  /\ pc \in {"load", "extend", "rounds"}
  /\ hcomps \in [1..8 -> Word]
  /\ pc = "extend" => i \in 16..64 /\ w \in [1..i -> Word]
  /\ pc = "rounds" => i \in 0..64 /\ w \in [1..64 -> Word] /\ tv \in [1..8 -> Word]

\* Eight words.
LEMMA EightWords ==
  ASSUME NEW a \in Word, NEW b \in Word, NEW c \in Word, NEW d \in Word,
         NEW e \in Word, NEW f \in Word, NEW g \in Word, NEW h \in Word
  PROVE  <<a, b, c, d, e, f, g, h>> \in [1..8 -> Word]
  OBVIOUS

\* Eight words are the tuple of them.
LEMMA EightOf ==
  ASSUME NEW t \in [1..8 -> Word]
  PROVE  t = <<t[1], t[2], t[3], t[4], t[5], t[6], t[7], t[8]>>
  OBVIOUS

\* What a round computes are words.
LEMMA MixIs ==
  ASSUME NEW a \in Word, NEW b \in Word, NEW c \in Word
  PROVE  S1(a) \in Word /\ S0(a) \in Word /\ ch(a, b, c) \in Word /\ maj(a, b, c) \in Word
<1>1. S1(a) \in Word
  BY RotateIs, XorIs DEF S1
<1>2. S0(a) \in Word
  BY RotateIs, XorIs DEF S0
<1>3. ch(a, b, c) \in Word
  <2>1. a \cap b \in Word /\ Not(a) \cap c \in Word
    BY DEF Word
  <2>. QED
    BY <2>1, XorIs DEF ch
<1>4. maj(a, b, c) \in Word
  <2>1. a \cap b \in Word /\ a \cap c \in Word /\ b \cap c \in Word
    BY DEF Word
  <2>. QED
    BY <2>1, XorIs DEF maj
<1>. QED
  BY <1>1, <1>2, <1>3, <1>4

\* So is what it takes from the schedule and the constants.
LEMMA MixedIs ==
  ASSUME w \in [1..64 -> Word], NEW n \in 0..63,
         NEW e \in Word, NEW f \in Word, NEW g \in Word
  PROVE  Mixed(e, f, g, n) \in Word
<1>1. k[n + 1] \in Word /\ w[n + 1] \in Word
  BY KIs
<1>2. Plus(S1(e), ch(e, f, g)) \in Word /\ Plus(k[n + 1], w[n + 1]) \in Word
  BY <1>1, MixIs, PlusIs
<1>. QED
  BY <1>2, PlusIs DEF Mixed

\* A round has words for its operands and its results.
LEMMA RoundIs ==
  ASSUME RoundsInv, Round
  PROVE  \E t1, t2, m \in Word :
           /\ i \in 0..63 /\ tv \in [1..8 -> Word] /\ w \in [1..64 -> Word]
           /\ m = Mixed(tv[5], tv[6], tv[7], i) /\ t1 = Plus(tv[8], m)
           /\ t2 = Plus(S0(tv[1]), maj(tv[1], tv[2], tv[3]))
           /\ tv' = <<Plus(t1, t2), tv[1], tv[2], tv[3], Plus(tv[4], t1), tv[5], tv[6], tv[7]>>
<1>1. i \in 0..63 /\ tv \in [1..8 -> Word] /\ w \in [1..64 -> Word]
  BY DEF RoundsInv, Round
<1>2. \A j \in 1..8 : tv[j] \in Word
  BY <1>1
<1>3. PICK m : m = Mixed(tv[5], tv[6], tv[7], i)
  OBVIOUS
<1>4. m \in Word
  <2>1. PICK e, f, g \in Word : e = tv[5] /\ f = tv[6] /\ g = tv[7]
    BY <1>2
  <2>2. Mixed(e, f, g, i) \in Word
    BY <1>1, MixedIs
  <2>. QED
    BY <1>3, <2>1, <2>2
<1>5. PICK t1, t2 : t1 = Plus(tv[8], m) /\ t2 = Plus(S0(tv[1]), maj(tv[1], tv[2], tv[3]))
  OBVIOUS
<1>6. t1 \in Word /\ t2 \in Word
  BY <1>2, <1>4, <1>5, MixIs, PlusIs
<1>7. tv' = <<Plus(t1, t2), tv[1], tv[2], tv[3], Plus(tv[4], t1), tv[5], tv[6], tv[7]>>
  BY <1>3, <1>5 DEF Round
<1>. QED
  BY <1>1, <1>3, <1>4, <1>5, <1>6, <1>7

\* A round can be undone: temp2 is computed from the variables that it only
\* moves, so temp1 and with it the two that it overwrites can be won back.
LEMMA RoundReversed ==
  ASSUME RoundsInv, Round
  PROVE  RoundUndone
<1>1. PICK t1, t2, m \in Word :
           /\ i \in 0..63 /\ tv \in [1..8 -> Word] /\ w \in [1..64 -> Word]
           /\ m = Mixed(tv[5], tv[6], tv[7], i) /\ t1 = Plus(tv[8], m)
           /\ t2 = Plus(S0(tv[1]), maj(tv[1], tv[2], tv[3]))
           /\ tv' = <<Plus(t1, t2), tv[1], tv[2], tv[3], Plus(tv[4], t1), tv[5], tv[6], tv[7]>>
  BY RoundIs
<1>2. \A j \in 1..8 : tv[j] \in Word
  BY <1>1
<1>3. /\ tv'[1] = Plus(t1, t2) /\ tv'[2] = tv[1] /\ tv'[3] = tv[2] /\ tv'[4] = tv[3]
      /\ tv'[5] = Plus(tv[4], t1) /\ tv'[6] = tv[5] /\ tv'[7] = tv[6] /\ tv'[8] = tv[7]
  BY <1>1
<1>4. /\ Minus(Plus(t1, t2), t2) = t1
      /\ Minus(Plus(tv[4], t1), t1) = tv[4]
      /\ Minus(t1, m) = tv[8]
  BY <1>1, <1>2, MinusUndoesPlus
<1>5. Minus(tv'[1], Plus(S0(tv'[2]), maj(tv'[2], tv'[3], tv'[4]))) = t1
  BY <1>1, <1>3, <1>4
<1>6. Minus(tv'[5], t1) = tv[4] /\ Minus(t1, Mixed(tv'[6], tv'[7], tv'[8], i)) = tv[8]
  BY <1>1, <1>3, <1>4
<1>7. tv = <<tv[1], tv[2], tv[3], tv[4], tv[5], tv[6], tv[7], tv[8]>>
  BY <1>1, EightOf
<1>. QED
  BY <1>3, <1>5, <1>6, <1>7 DEF RoundUndone

\* One word more.
LEMMA AppendIs ==
  ASSUME NEW n \in Nat, NEW f \in [1..n -> Word], NEW x \in Word
  PROVE  Append(f, x) \in [1..(n + 1) -> Word]
<1>1. f \in Seq(Word) /\ Len(f) = n
  OBVIOUS
<1>2. Append(f, x) \in Seq(Word) /\ Len(Append(f, x)) = n + 1
  BY <1>1, AppendProperties
<1>. QED
  BY <1>2, LenProperties

\* The message schedule grows by a word.
LEMMA ExtendKeeps ==
  ASSUME RoundsInv, Extend
  PROVE  RoundsInv'
<1>1. /\ i \in 16..63 /\ w \in [1..i -> Word] /\ pc = "extend"
      /\ i' = i + 1 /\ pc' = pc /\ hcomps' = hcomps
  BY DEF RoundsInv, Extend
<1>2. \A d \in 1..16 : w[i + 1 - d] \in Word
  BY <1>1
<1>3. PICK x \in Word : w' = Append(w, x)
  <2>1. PICK a, b, c, d \in Word : /\ a = w[i + 1 - 15] /\ b = w[i + 1 - 2]
                                   /\ c = w[i + 1 - 16] /\ d = w[i + 1 - 7]
    BY <1>2
  <2>2. PICK s0, s1 : /\ s0 = Xor(Xor(rotate_r(a, 7), rotate_r(a, 18)), shift_r(a, 3))
                      /\ s1 = Xor(Xor(rotate_r(b, 17), rotate_r(b, 19)), shift_r(b, 10))
    OBVIOUS
  <2>3. s0 \in Word /\ s1 \in Word
    BY <2>2, RotateIs, XorIs
  <2>4. w' = Append(w, Plus(Plus(c, s0), Plus(d, s1)))
    BY <2>1, <2>2 DEF Extend
  <2>5. Plus(Plus(c, s0), Plus(d, s1)) \in Word
    BY <2>3, PlusIs
  <2>. QED
    BY <2>4, <2>5
<1>4. w' \in [1..(i + 1) -> Word]
  BY <1>1, <1>3, AppendIs
<1>. QED
  BY <1>1, <1>4 DEF RoundsInv

\* Every step keeps the invariant.
LEMMA NextKeeps ==
  ASSUME RoundsInv, [RoundsNext \/ RoundsDone]_roundVars
  PROVE  RoundsInv'
<1>1. CASE LoadWords
  <2>1. \A j \in 1..16 : w'[j] \in Word /\ w' = [n \in 1..16 |-> w'[n]]
    BY <1>1, WIs DEF LoadWords
  <2>2. w' \in [1..16 -> Word]
    BY <2>1
  <2>. QED
    BY <1>1, <2>2 DEF LoadWords, RoundsInv
<1>2. CASE Extend
  BY <1>2, ExtendKeeps
<1>3. CASE LoadState
  BY <1>3 DEF LoadState, RoundsInv
<1>4. CASE Round
  <2>1. PICK t1, t2, m \in Word :
           /\ i \in 0..63 /\ tv \in [1..8 -> Word] /\ w \in [1..64 -> Word]
           /\ tv' = <<Plus(t1, t2), tv[1], tv[2], tv[3], Plus(tv[4], t1), tv[5], tv[6], tv[7]>>
    BY <1>4, RoundIs
  <2>2. \A j \in 1..8 : tv[j] \in Word
    BY <2>1
  <2>3. Plus(t1, t2) \in Word /\ Plus(tv[4], t1) \in Word
    BY <2>1, <2>2, PlusIs
  <2>4. tv' \in [1..8 -> Word]
    BY <2>1, <2>2, <2>3, EightWords
  <2>. QED
    BY <1>4, <2>1, <2>4 DEF Round, RoundsInv
<1>5. CASE AddState
  <2>1. \A j \in 1..8 : Plus(hcomps[j], tv[j]) \in Word
    BY <1>5, PlusIs DEF AddState, RoundsInv
  <2>. QED
    BY <1>5, <2>1 DEF AddState, RoundsInv
<1>6. CASE UNCHANGED roundVars
  BY <1>6 DEF roundVars, RoundsInv
<1>. QED
  BY <1>1, <1>2, <1>3, <1>4, <1>5, <1>6 DEF RoundsNext, RoundsDone

\* The invariant of the rounds: sha256_calculate_chunk extends the schedule
\* to 64 words and reads no word, variable or constant outside its arrays.
THEOREM Invariance == RoundsSpec => []RoundsInv
<1>1. RoundsInit => RoundsInv
  <2>. SUFFICES ASSUME RoundsInit PROVE RoundsInv
    OBVIOUS
  <2>1. hcomps \in [1..8 -> Word]
    BY WIs, EightWords DEF RoundsInit
  <2>. QED
    BY <2>1 DEF RoundsInit, RoundsInv
<1>2. RoundsInv /\ [RoundsNext \/ RoundsDone]_roundVars => RoundsInv'
  BY NextKeeps
<1>. QED
  BY <1>1, <1>2, PTL DEF RoundsSpec

\* RoundsReversible of Sha256Rounds: no round of the loop loses anything of
\* the eight variables, so a variable overwritten before it is moved on, as in
\* a wrong order of the assignments, is excluded for every message.
THEOREM RoundsReversibleCorrect == RoundsSpec => RoundsReversible
<1>1. RoundsInv /\ [RoundsNext \/ RoundsDone]_roundVars => [pc = "rounds" /\ pc' = "rounds" => RoundUndone]_roundVars
  <2>. SUFFICES ASSUME RoundsInv, RoundsNext \/ RoundsDone, pc = "rounds", pc' = "rounds", ~UNCHANGED roundVars
                PROVE  RoundUndone
    OBVIOUS
  <2>1. Round
    BY DEF RoundsNext, RoundsDone, LoadWords, Extend, LoadState, AddState
  <2>. QED
    BY <2>1, RoundReversed
<1>. QED
  BY <1>1, Invariance, PTL DEF RoundsSpec, RoundsReversible
=============================================================================
