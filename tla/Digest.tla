------------------------------- MODULE Digest -------------------------------
(***************************************************************************)
(* What hashing promises: the digest is that of the bytes given, one after *)
(* the other, however they were cut into updates.  The digest of a message *)
(* is its padded form: the compression function, which turns it into       *)
(* 256 bits block by block, is taken for free of collisions.               *)
(***************************************************************************)
EXTENDS Integers, Sequences

CONSTANTS
  Block,      \* the bytes of a block (64)
  LenBytes,   \* the bytes of the length field (8)
  Base,       \* the values of a byte (256)
  Byte        \* the bytes a message is made of

VARIABLES
  message,    \* the bytes given so far
  digest      \* <<>> until the hash is finalized

DigestInit == message = <<>> /\ digest = <<>>

\* What a digit in base Base is worth that has k digits behind it.
Weight[k \in 0..LenBytes] == IF k = 0 THEN 1 ELSE Base * Weight[k - 1]

\* The length in bits, in base Base, most significant digit first.
LengthField(n) == [i \in 1..LenBytes |-> ((8 * n) \div Weight[LenBytes - i]) % Base]

\* The bytes that fill the last block after the mark: the fewest zeros that
\* leave room for the length.
Zeros(n) == CHOOSE k \in 0..(Block - 1) : (n + 1 + k + LenBytes) % Block = 0

Padded(m) == m \o <<128>> \o [i \in 1..Zeros(Len(m)) |-> 0] \o LengthField(Len(m))

Give ==
  /\ digest = <<>>
  /\ message' \in Seq(Byte)
  /\ SubSeq(message', 1, Len(message)) = message
  /\ UNCHANGED digest

Finish ==
  /\ digest = <<>>
  /\ digest' = Padded(message)
  /\ UNCHANGED message

DigestNext == Give \/ Finish

DigestSpec == DigestInit /\ [][DigestNext]_<<message, digest>>
=============================================================================
