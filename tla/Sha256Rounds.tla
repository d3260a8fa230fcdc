---------------------------- MODULE Sha256Rounds ----------------------------
(***************************************************************************)
(* The compression function of sha256.c, sha256_calculate_chunk, and the   *)
(* hex output of the digest.  A word of 32 bits is the set of the          *)
(* positions of its ones, 0 the least significant.  One step is one round  *)
(* of a loop; the blocks compressed are those of a padded message, which   *)
(* module Sha256 is about.                                                 *)
(***************************************************************************)
EXTENDS Integers, Sequences

CONSTANTS
  Vectors,    \* the padded messages that are hashed, as sequences of blocks
  Known       \* the 64 hex digits known for each of them

ASSUME VectorsAssumption ==
  \A m \in Vectors : m \in Seq([1..64 -> 0..255]) /\ Known[m] \in [1..64 -> 0..15]

VARIABLES
  message,    \* the padded message
  block,      \* the number of blocks compressed
  hcomps,     \* the state of the hash, eight words
  w,          \* the message schedule
  tv,         \* the working variables
  i,          \* the loop counter
  pc

roundVars == <<message, block, hcomps, w, tv, i, pc>>

-----------------------------------------------------------------------------
(***************************************************************************)
(* Words                                                                   *)
(***************************************************************************)

Bits == 0..31
Word == SUBSET Bits

Xor(x, y) == (x \ y) \cup (y \ x)
Not(x) == Bits \ x

rotate_r(val, bits) == {(b + 32 - bits) % 32 : b \in val}
shift_r(val, bits) == {b - bits : b \in {c \in val : c >= bits}}

\* x + y modulo 2^32: a carry comes into position b from a position below
\* where both have a one, over positions where one of them has.  (Sum is a
\* function, so that TLC evaluates the arguments once.)
Carry(x, y) ==
  {b \in Bits : \E g \in x \cap y : g < b /\ (g + 1)..(b - 1) \subseteq x \cup y}
WordSum == [p \in Word \X Word |-> Xor(Xor(p[1], p[2]), Carry(p[1], p[2]))]
Plus(x, y) == WordSum[<<x, y>>]

Minus(x, y) == Plus(x, Plus(Not(y), {0}))

\* The word with the two halves hi and lo.
Pow2 == [b \in 0..15 |-> 2^b]
OnesOf(n) == {b \in 0..15 : (n \div Pow2[b]) % 2 = 1}
W(hi, lo) == OnesOf(lo) \cup {b + 16 : b \in OnesOf(hi)}

k == <<
  W(\h428a, \h2f98), W(\h7137, \h4491), W(\hb5c0, \hfbcf), W(\he9b5, \hdba5),
  W(\h3956, \hc25b), W(\h59f1, \h11f1), W(\h923f, \h82a4), W(\hab1c, \h5ed5),
  W(\hd807, \haa98), W(\h1283, \h5b01), W(\h2431, \h85be), W(\h550c, \h7dc3),
  W(\h72be, \h5d74), W(\h80de, \hb1fe), W(\h9bdc, \h06a7), W(\hc19b, \hf174),
  W(\he49b, \h69c1), W(\hefbe, \h4786), W(\h0fc1, \h9dc6), W(\h240c, \ha1cc),
  W(\h2de9, \h2c6f), W(\h4a74, \h84aa), W(\h5cb0, \ha9dc), W(\h76f9, \h88da),
  W(\h983e, \h5152), W(\ha831, \hc66d), W(\hb003, \h27c8), W(\hbf59, \h7fc7),
  W(\hc6e0, \h0bf3), W(\hd5a7, \h9147), W(\h06ca, \h6351), W(\h1429, \h2967),
  W(\h27b7, \h0a85), W(\h2e1b, \h2138), W(\h4d2c, \h6dfc), W(\h5338, \h0d13),
  W(\h650a, \h7354), W(\h766a, \h0abb), W(\h81c2, \hc92e), W(\h9272, \h2c85),
  W(\ha2bf, \he8a1), W(\ha81a, \h664b), W(\hc24b, \h8b70), W(\hc76c, \h51a3),
  W(\hd192, \he819), W(\hd699, \h0624), W(\hf40e, \h3585), W(\h106a, \ha070),
  W(\h19a4, \hc116), W(\h1e37, \h6c08), W(\h2748, \h774c), W(\h34b0, \hbcb5),
  W(\h391c, \h0cb3), W(\h4ed8, \haa4a), W(\h5b9c, \hca4f), W(\h682e, \h6ff3),
  W(\h748f, \h82ee), W(\h78a5, \h636f), W(\h84c8, \h7814), W(\h8cc7, \h0208),
  W(\h90be, \hfffa), W(\ha450, \h6ceb), W(\hbef9, \ha3f7), W(\hc671, \h78f2)>>

-----------------------------------------------------------------------------
(***************************************************************************)
(* sha256_calculate_chunk                                                  *)
(***************************************************************************)

\* sha256_compute_data_init; the local arrays of sha256_calculate_chunk are
\* written before they are read.
RoundsInit ==
  /\ message \in Vectors
  /\ block = 0
  /\ hcomps = <<W(\h6a09, \he667), W(\hbb67, \hae85), W(\h3c6e, \hf372), W(\ha54f, \hf53a),
                W(\h510e, \h527f), W(\h9b05, \h688c), W(\h1f83, \hd9ab), W(\h5be0, \hcd19)>>
  /\ w = <<>>
  /\ tv = <<>>
  /\ i = 0
  /\ pc = "load"

chunk == message[block + 1]

\* The first sixteen words are the bytes of the chunk, big-endian.
LoadWords ==
  /\ pc = "load"
  /\ block < Len(message)
  /\ w' = [j \in 1..16 |-> W(256 * chunk[4 * j - 3] + chunk[4 * j - 2],
                             256 * chunk[4 * j - 1] + chunk[4 * j])]
  /\ i' = 16
  /\ pc' = "extend"
  /\ UNCHANGED <<message, block, hcomps, tv>>

\* w[i] for 16 <= i < 64.
Extend ==
  /\ pc = "extend"
  /\ i < 64
  /\ LET W1(d) == w[i + 1 - d]
         s0 == Xor(Xor(rotate_r(W1(15), 7), rotate_r(W1(15), 18)), shift_r(W1(15), 3))
         s1 == Xor(Xor(rotate_r(W1(2), 17), rotate_r(W1(2), 19)), shift_r(W1(2), 10))
     IN w' = Append(w, Plus(Plus(W1(16), s0), Plus(W1(7), s1)))
  /\ i' = i + 1
  /\ UNCHANGED <<message, block, hcomps, tv, pc>>

\* tv is loaded from the state of the hash.
LoadState ==
  /\ pc = "extend"
  /\ i = 64
  /\ tv' = hcomps
  /\ i' = 0
  /\ pc' = "rounds"
  /\ UNCHANGED <<message, block, hcomps, w>>

S1(e) == Xor(Xor(rotate_r(e, 6), rotate_r(e, 11)), rotate_r(e, 25))
ch(e, f, g) == Xor(e \cap f, Not(e) \cap g)
S0(a) == Xor(Xor(rotate_r(a, 2), rotate_r(a, 13)), rotate_r(a, 22))
maj(a, b, c) == Xor(Xor(a \cap b, a \cap c), b \cap c)

\* What both new words of a round have in common, but for tv[7].
Mixed(e, f, g, n) == Plus(Plus(S1(e), ch(e, f, g)), Plus(k[n + 1], w[n + 1]))

\* Mutant: tv[7] = tv[6] is assigned after tv[6] = tv[5].
RoundOverwrites ==
  /\ pc = "rounds"
  /\ i < 64
  /\ LET temp1 == Plus(tv[8], Mixed(tv[5], tv[6], tv[7], i))
         temp2 == Plus(S0(tv[1]), maj(tv[1], tv[2], tv[3]))
     IN tv' = <<Plus(temp1, temp2), tv[1], tv[2], tv[3],
                Plus(tv[4], temp1), tv[5], tv[6], tv[6]>>
  /\ i' = i + 1
  /\ UNCHANGED <<message, block, hcomps, w, pc>>

Round ==
  /\ pc = "rounds"
  /\ i < 64
  /\ LET temp1 == Plus(tv[8], Mixed(tv[5], tv[6], tv[7], i))
         temp2 == Plus(S0(tv[1]), maj(tv[1], tv[2], tv[3]))
     IN tv' = <<Plus(temp1, temp2), tv[1], tv[2], tv[3],
                Plus(tv[4], temp1), tv[5], tv[6], tv[7]>>
  /\ i' = i + 1
  /\ UNCHANGED <<message, block, hcomps, w, pc>>

\* Mutant: the state of the hash is replaced, not added to.
AddStateReplaces ==
  /\ pc = "rounds"
  /\ i = 64
  /\ hcomps' = tv
  /\ block' = block + 1
  /\ pc' = "load"
  /\ UNCHANGED <<message, w, tv, i>>

AddState ==
  /\ pc = "rounds"
  /\ i = 64
  /\ hcomps' = [j \in 1..8 |-> Plus(hcomps[j], tv[j])]
  /\ block' = block + 1
  /\ pc' = "load"
  /\ UNCHANGED <<message, w, tv, i>>

-----------------------------------------------------------------------------

\* sha256_output and bin_to_hex: eight hex digits a word, the highest first.
Digit(x, d) == LET One(b) == IF 4 * d + b \in x THEN 2^b ELSE 0
               IN One(0) + One(1) + One(2) + One(3)
sha256_output_hex == [j \in 1..64 |-> Digit(hcomps[(j + 7) \div 8], 7 - ((j - 1) % 8))]

Hashed == pc = "load" /\ block = Len(message)

RoundsNext == LoadWords \/ Extend \/ LoadState \/ Round \/ AddState

RoundsDone == Hashed /\ UNCHANGED roundVars

RoundsSpec == RoundsInit /\ [][RoundsNext \/ RoundsDone]_roundVars

-----------------------------------------------------------------------------
(***************************************************************************)
(* Properties                                                              *)
(***************************************************************************)

\* The digests are those that a package of the repository names for the
\* messages: the constants, the schedule, the rounds and the output are right
\* together, over one block and over several.
DigestExpected == Hashed => sha256_output_hex = Known[message]

\* A round can be undone: it loses no bit of the state, so two states that
\* differ before a block still differ after its rounds.
RoundUndone ==
  LET a == tv'[1]  b == tv'[2]  c == tv'[3]  d == tv'[4]
      e == tv'[5]  f == tv'[6]  g == tv'[7]  h == tv'[8]
      temp1 == Minus(a, Plus(S0(b), maj(b, c, d)))
  IN tv = <<b, c, d, Minus(e, temp1), f, g, h, Minus(temp1, Mixed(f, g, h, i))>>

RoundsReversible == [][pc = "rounds" /\ pc' = "rounds" => RoundUndone]_roundVars
=============================================================================
