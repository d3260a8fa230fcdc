------------------------------- MODULE Sha256 -------------------------------
(***************************************************************************)
(* The buffering and padding of sha256.c: sha256_update keeps what does    *)
(* not fill a block in last_chunk, sha256_finalize appends the mark, the   *)
(* zeros and the length.  One step is one branch or one round of a loop.   *)
(*                                                                         *)
(* sha256_calculate_chunk hashes the block it is given into hcomps.        *)
(* compressed stands for hcomps: the sequence of all bytes hashed so far,  *)
(* so two hashes are equal exactly when the same bytes were compressed     *)
(* (module Sha256Rounds has the function itself).  Sizes are those of the  *)
(* constants: Block is 64, LenBytes 8 and Base 256 in the code.  The       *)
(* counters of the code cannot wrap: the size of a chunk is an int.        *)
(***************************************************************************)
EXTENDS Integers, Sequences

CONSTANTS Block, LenBytes, Base, Byte, MaxMessage

ASSUME BlockAssumption == LenBytes \in Nat /\ Block \in Nat /\ LenBytes < Block
ASSUME ByteAssumption == Byte \subseteq Int /\ Base \in Nat \ {0} /\ MaxMessage \in Nat

VARIABLES
  compressed,  \* the bytes compressed so far
  data_size,   \* the bytes given so far
  last_chunk,  \* the partial block, an array of Block bytes
  chunk_size,  \* how many of its bytes are in use
  bytes,       \* the rest of the argument of sha256_update, from ptr on
  step         \* where the caller, sha256_update or sha256_finalize is

buffer == <<last_chunk, chunk_size>>
shaVars == <<compressed, data_size, buffer, bytes, step>>

Unset == -1            \* what the stack leaves in last_chunk
Mark == 128            \* 0x80
LenAt == Block - LenBytes   \* 56

ShaInit ==
  /\ compressed = <<>>
  /\ data_size = 0
  /\ last_chunk = [i \in 1..Block |-> Unset]
  /\ chunk_size = 0
  /\ bytes = <<>>
  /\ step = "idle"

\* sha256_calculate_chunk(data, chunk)
Compress(chunk) == compressed' = compressed \o chunk

\* The first n bytes of the argument, and what is left of it.
Taken(n) == SubSeq(bytes, 1, n)
Left(n) == SubSeq(bytes, n + 1, Len(bytes))

Partial == SubSeq(last_chunk, 1, chunk_size)

-----------------------------------------------------------------------------
(***************************************************************************)
(* sha256_update                                                           *)
(***************************************************************************)

UpdateStart(arg) ==
  /\ step = "idle"
  /\ data_size + Len(arg) <= MaxMessage
  /\ data_size' = data_size + Len(arg)
  /\ bytes' = arg
  /\ step' = "fill"
  /\ UNCHANGED <<compressed, buffer>>

\* Mutant: the partial block is not emptied.
UpdateFillKeeps ==
  /\ step = "fill"
  /\ IF Len(bytes) + chunk_size >= Block
       THEN /\ Compress(Partial \o Taken(Block - chunk_size))
            /\ bytes' = Left(Block - chunk_size)
       ELSE UNCHANGED <<compressed, bytes>>
  /\ step' = "blocks"
  /\ UNCHANGED <<data_size, buffer>>

\* When the partial block and the argument make up a block it is compressed.
UpdateFill ==
  /\ step = "fill"
  /\ IF Len(bytes) + chunk_size >= Block
       THEN /\ Compress(Partial \o Taken(Block - chunk_size))
            /\ bytes' = Left(Block - chunk_size)
            /\ chunk_size' = 0
       ELSE UNCHANGED <<compressed, bytes, chunk_size>>
  /\ step' = "blocks"
  /\ UNCHANGED <<data_size, last_chunk>>

\* while (size >= 64)
UpdateBlock ==
  /\ step = "blocks" /\ Len(bytes) >= Block
  /\ Compress(Taken(Block))
  /\ bytes' = Left(Block)
  /\ UNCHANGED <<data_size, buffer, step>>

\* What is left goes behind the partial block.
UpdateRest ==
  /\ step = "blocks" /\ Len(bytes) < Block
  /\ last_chunk' = [i \in 1..Block |->
                     IF i > chunk_size /\ i <= chunk_size + Len(bytes)
                       THEN bytes[i - chunk_size] ELSE last_chunk[i]]
  /\ chunk_size' = chunk_size + Len(bytes)
  /\ bytes' = <<>>
  /\ step' = "idle"
  /\ UNCHANGED <<compressed, data_size>>

-----------------------------------------------------------------------------
(***************************************************************************)
(* sha256_finalize                                                         *)
(***************************************************************************)

\* The mark, and zeros to the end of the block.
FinalizeMark ==
  /\ step = "idle"
  /\ last_chunk' = [i \in 1..Block |->
                     IF i <= chunk_size THEN last_chunk[i]
                     ELSE IF i = chunk_size + 1 THEN Mark ELSE 0]
  /\ chunk_size' = chunk_size + 1
  /\ step' = "mark"
  /\ UNCHANGED <<compressed, data_size, bytes>>

\* Mutant: a mark in the last place before the length asks for a block too.
FinalizeOverflowEarly ==
  /\ step = "mark"
  /\ IF chunk_size >= LenAt
       THEN Compress(last_chunk) /\ last_chunk' = [i \in 1..Block |-> 0]
       ELSE UNCHANGED <<compressed, last_chunk>>
  /\ step' = "length"
  /\ UNCHANGED <<data_size, chunk_size, bytes>>

\* Without room for the length the block is compressed and a second one
\* follows.
FinalizeOverflow ==
  /\ step = "mark"
  /\ IF chunk_size > LenAt
       THEN Compress(last_chunk) /\ last_chunk' = [i \in 1..Block |-> 0]
       ELSE UNCHANGED <<compressed, last_chunk>>
  /\ step' = "length"
  /\ UNCHANGED <<data_size, chunk_size, bytes>>

\* The length in bits, shifted right by one byte k times.
shifted[k \in 0..LenBytes] == IF k = 0 THEN 8 * data_size ELSE shifted[k - 1] \div Base

\* The block with the length in its last bytes, the last digit in the last one.
WithLength ==
  [i \in 1..Block |-> IF i > LenAt THEN shifted[Block - i] % Base ELSE last_chunk[i]]

FinalizeLength ==
  /\ step = "length"
  /\ last_chunk' = WithLength
  /\ Compress(WithLength)
  /\ step' = "final"
  /\ UNCHANGED <<data_size, chunk_size, bytes>>

-----------------------------------------------------------------------------

Update == UpdateFill \/ UpdateBlock \/ UpdateRest
Finalize == FinalizeMark \/ FinalizeOverflow \/ FinalizeLength

\* The arguments of one call: no message is longer than MaxMessage.
Arguments == UNION {[1..n -> Byte] : n \in 0..(MaxMessage - data_size)}

ShaNext == (\E arg \in Arguments : UpdateStart(arg)) \/ Update \/ Finalize

ShaDone == step = "final" /\ UNCHANGED shaVars

ShaSpec == ShaInit /\ [][ShaNext \/ ShaDone]_shaVars

-----------------------------------------------------------------------------
(***************************************************************************)
(* Properties                                                              *)
(***************************************************************************)

ShaTypeOK ==
  /\ compressed \in Seq(Int)
  /\ data_size \in 0..MaxMessage
  /\ last_chunk \in [1..Block -> Int]
  /\ chunk_size \in 0..Block
  /\ bytes \in Seq(Byte)
  /\ step \in {"idle", "fill", "blocks", "mark", "length", "final"}

\* Between two calls the partial block has room: the store of the mark by
\* sha256_finalize, which does not look, stays inside last_chunk.
RoomForMark == step = "idle" => chunk_size < Block

\* The bytes compressed, those in the partial block and those still to be
\* read are all the bytes given: none is lost or compressed twice, wherever
\* the updates cut the message and wherever an update is.
AllBytes ==
  step \in {"idle", "fill", "blocks"} =>
    Len(compressed) + chunk_size + Len(bytes) = data_size

\* The partial block never overflows, and never misses a byte.
BufferOK == RoomForMark /\ AllBytes

\* The message so far, and the digest, as module Digest has them.
given == SubSeq(compressed \o Partial \o bytes, 1, data_size)
digest == IF step = "final" THEN compressed ELSE <<>>

D == INSTANCE Digest WITH message <- given

\* However a message is cut into updates, and wherever it ends in a block, the
\* bytes compressed are the message, padded.
ImplementsDigest == D!DigestSpec
=============================================================================
