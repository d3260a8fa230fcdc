----------------------------- MODULE Sha256Proofs -----------------------------
(***************************************************************************)
(* Proofs about Sha256, for any size of a block and of the length field,   *)
(* any bytes and any cut of a message of any length into updates.          *)
(***************************************************************************)
EXTENDS Sha256, SequenceTheorems, WellFoundedInduction, TLAPS

-----------------------------------------------------------------------------
(***************************************************************************)
(* The inductive invariant                                                 *)
(***************************************************************************)

\* sha256_update has not been overtaken by sha256_finalize.
Updating == step \in {"idle", "fill", "blocks"}

\* How full the partial block is at each place.
FillInv ==
  /\ step \in {"idle", "fill"} => chunk_size < Block
  /\ step = "idle" => bytes = <<>>
  /\ step = "blocks" => chunk_size = 0 \/ chunk_size + Len(bytes) < Block
  /\ step \in {"mark", "length"} => chunk_size > 0 /\ bytes = <<>>
  /\ step = "mark" => Len(compressed) + chunk_size = data_size + 1
  /\ step = "length" => /\ data_size < Len(compressed) + chunk_size
                      /\ data_size <= Len(compressed) + LenAt

\* What has been read of the message is made of its bytes.
ByteInv == Updating =>
  /\ compressed \in Seq(Byte)
  /\ \A i \in 1..chunk_size : last_chunk[i] \in Byte

\* The buffer, up to the moment the length is stored; TailInv and TypeOK below
\* go on from there.
BufferInv == step # "final" => ShaTypeOK /\ FillInv /\ AllBytes /\ ByteInv

-----------------------------------------------------------------------------
(***************************************************************************)
(* Sequences of bytes                                                      *)
(***************************************************************************)

\* The argument is the n bytes taken from it and what is left.
LEMMA Cut ==
  ASSUME NEW S, bytes \in Seq(S), NEW n \in 0..Len(bytes)
  PROVE  /\ Taken(n) \in Seq(S) /\ Len(Taken(n)) = n
         /\ Left(n) \in Seq(S) /\ Len(Left(n)) = Len(bytes) - n
<1>1. Len(bytes) \in Nat /\ \A i \in 1..Len(bytes) : bytes[i] \in S
  BY LenProperties, ElementOfSeq
<1>2. \A i \in 1..n : bytes[i] \in S
  BY <1>1
<1>3. \A i \in n + 1 .. Len(bytes) : bytes[i] \in S
  BY <1>1
<1>4. Taken(n) \in Seq(S) /\ Len(Taken(n)) = IF 1 <= n THEN n - 1 + 1 ELSE 0
  BY <1>1, <1>2, SubSeqProperties DEF Taken
<1>5. /\ Left(n) \in Seq(S)
      /\ Len(Left(n)) = IF n + 1 <= Len(bytes) THEN Len(bytes) - (n + 1) + 1 ELSE 0
  BY <1>1, <1>3, SubSeqProperties DEF Left
<1>. QED
  BY <1>1, <1>4, <1>5

\* The bytes of the partial block that are in use.
LEMMA PartialSeq ==
  ASSUME NEW S, chunk_size \in 0..Block, \A i \in 1..chunk_size : last_chunk[i] \in S
  PROVE  Partial \in Seq(S) /\ Len(Partial) = chunk_size
<1>1. chunk_size \in Int
  BY BlockAssumption
<1>2. Partial \in Seq(S) /\ Len(Partial) = IF 1 <= chunk_size THEN chunk_size - 1 + 1 ELSE 0
  BY <1>1, SubSeqProperties DEF Partial
<1>. QED
  BY <1>1, <1>2, BlockAssumption

\* An array of n entries is a sequence of length n.
LEMMA ArraySeq ==
  ASSUME NEW S, NEW n \in Nat, NEW a \in [1..n -> S]
  PROVE  a \in Seq(S) /\ Len(a) = n
  OBVIOUS

\* What joining does to the length.
LEMMA Joined ==
  ASSUME NEW S, NEW s \in Seq(S), NEW t \in Seq(S)
  PROVE  s \o t \in Seq(S) /\ Len(s \o t) = Len(s) + Len(t)
  BY ConcatProperties

\* Lengths are numbers.
LEMMA Length == ASSUME NEW S, NEW s \in Seq(S) PROVE Len(s) \in Nat
  BY LenProperties

\* Bytes are numbers.
LEMMA ByteSeqInt == ASSUME NEW s \in Seq(Byte) PROVE s \in Seq(Int)
  BY SeqMonotonic, ByteAssumption

-----------------------------------------------------------------------------
(***************************************************************************)
(* Every step                                                              *)
(***************************************************************************)

\* The buffer starts empty.
LEMMA BufferInit == ShaInit => BufferInv
<1>. SUFFICES ASSUME ShaInit PROVE BufferInv
  OBVIOUS
<1>1. <<>> \in Seq(Int) /\ <<>> \in Seq(Byte) /\ Len(<<>>) = 0
  BY EmptySeq
<1>. QED
  BY <1>1, BlockAssumption, ByteAssumption
  DEF ShaInit, BufferInv, ShaTypeOK, FillInv, AllBytes, ByteInv, Unset

\* No step breaks the buffer invariant.
LEMMA BufferStep == BufferInv /\ [ShaNext \/ ShaDone]_shaVars => BufferInv'
<1>. SUFFICES ASSUME step # "final", ShaTypeOK, FillInv, AllBytes, ByteInv,
                     [ShaNext \/ ShaDone]_shaVars, step' # "final"
              PROVE  (ShaTypeOK /\ FillInv /\ AllBytes /\ ByteInv)'
  <2>1. [ShaNext \/ ShaDone]_shaVars /\ step = "final" => step' = "final"
    BY DEF ShaNext, ShaDone, Update, Finalize, UpdateStart, UpdateFill, UpdateBlock, UpdateRest,
       FinalizeMark, FinalizeOverflow, FinalizeLength, shaVars, buffer
  <2>. QED
    BY <2>1 DEF BufferInv
<1>. USE BlockAssumption, ByteAssumption
     DEF ShaTypeOK, FillInv, AllBytes, ByteInv, Updating, buffer, Compress, Mark, LenAt
<1>0. Len(bytes) \in Nat /\ Len(compressed) \in Nat
  BY Length
<1>1. ASSUME NEW arg \in Arguments, UpdateStart(arg)
      PROVE  (ShaTypeOK /\ FillInv /\ AllBytes /\ ByteInv)'
  <2>1. PICK n \in 0..(MaxMessage - data_size) : arg \in [1..n -> Byte]
    BY <1>1 DEF Arguments
  <2>2. arg \in Seq(Byte) /\ Len(arg) = n
    BY <2>1, ArraySeq
  <2>3. Len(bytes) = 0
    BY <1>1, EmptySeq DEF UpdateStart
  <2>. QED
    BY <1>0, <1>1, <2>2, <2>3 DEF UpdateStart
<1>2. CASE UpdateFill
  <2>1. CASE Len(bytes) + chunk_size >= Block
    <3>. DEFINE n == Block - chunk_size
    <3>1. n \in 0..Len(bytes) /\ n > 0
      BY <1>2, <2>1, <1>0 DEF UpdateFill
    <3>2. /\ Taken(n) \in Seq(Byte) /\ Len(Taken(n)) = n
          /\ Left(n) \in Seq(Byte) /\ Len(Left(n)) = Len(bytes) - n
      BY <3>1, Cut
    <3>3. Partial \in Seq(Byte) /\ Len(Partial) = chunk_size
      <4>1. \A i \in 1..chunk_size : last_chunk[i] \in Byte
        BY <1>2 DEF UpdateFill
      <4>. QED
        BY <4>1, PartialSeq
    <3>4. Partial \o Taken(n) \in Seq(Byte) /\ Len(Partial \o Taken(n)) = chunk_size + n
      <4>1. Partial \in Seq(Byte) /\ Taken(n) \in Seq(Byte)
        BY <3>2, <3>3
      <4>2. Partial \o Taken(n) \in Seq(Byte)
            /\ Len(Partial \o Taken(n)) = Len(Partial) + Len(Taken(n))
        BY ONLY <4>1, Joined
      <4>. QED
        BY <3>2, <3>3, <4>2
    <3>5. compressed \in Seq(Byte)
      BY <1>2 DEF UpdateFill
    <3>6. /\ compressed \o (Partial \o Taken(n)) \in Seq(Byte)
          /\ Len(compressed \o (Partial \o Taken(n))) = Len(compressed) + (chunk_size + n)
      BY ONLY <3>4, <3>5, Joined
    <3>7. /\ compressed' = compressed \o (Partial \o Taken(n)) /\ bytes' = Left(n) /\ chunk_size' = 0
          /\ data_size' = data_size /\ last_chunk' = last_chunk /\ step' = "blocks"
      BY <1>2, <2>1 DEF UpdateFill
    <3>8. Len(compressed) + chunk_size + Len(bytes) = data_size
      BY <1>2 DEF UpdateFill
    <3>9. compressed' \in Seq(Byte) /\ compressed' \in Seq(Int) /\ Len(compressed') = Len(compressed) + Block
      BY <3>6, <3>7, ByteSeqInt
    <3>10. bytes' \in Seq(Byte) /\ Len(bytes') = Len(bytes) + chunk_size - Block
      BY <1>0, <3>2, <3>7
    <3>11. ShaTypeOK'
      BY <3>7, <3>9, <3>10
    <3>12. FillInv'
      BY <1>0, <3>7, <3>8, <3>10
    <3>13. AllBytes'
      <4>1. chunk_size \in Int /\ Block \in Int
        OBVIOUS
      <4>2. chunk_size' = 0 /\ data_size' = data_size
        BY <3>7
      <4>3. Len(compressed') + chunk_size' + Len(bytes') = data_size'
        BY ONLY <1>0, <3>8, <3>9, <3>10, <4>1, <4>2
      <4>. QED
        BY <4>3
    <3>14. ByteInv'
      BY <3>7, <3>9
    <3>. QED
      BY <3>11, <3>12, <3>13, <3>14
  <2>2. CASE ~(Len(bytes) + chunk_size >= Block)
    BY <1>0, <1>2, <2>2 DEF UpdateFill
  <2>. QED
    BY <2>1, <2>2
<1>3. CASE UpdateBlock
  <2>1. Block \in 0..Len(bytes)
    BY <1>0, <1>3 DEF UpdateBlock
  <2>2. /\ Taken(Block) \in Seq(Byte) /\ Len(Taken(Block)) = Block
        /\ Left(Block) \in Seq(Byte) /\ Len(Left(Block)) = Len(bytes) - Block
    BY <2>1, Cut
  <2>3. compressed \in Seq(Byte)
    BY <1>3 DEF UpdateBlock
  <2>4. /\ compressed \o Taken(Block) \in Seq(Byte)
        /\ Len(compressed \o Taken(Block)) = Len(compressed) + Block
    BY ONLY <2>2, <2>3, Joined
  <2>5. /\ compressed' = compressed \o Taken(Block) /\ bytes' = Left(Block)
        /\ UNCHANGED <<data_size, last_chunk, chunk_size, step>> /\ step = "blocks"
    BY <1>3 DEF UpdateBlock
  <2>6. compressed' \in Seq(Byte) /\ compressed' \in Seq(Int) /\ Len(compressed') = Len(compressed) + Block
    BY <2>4, <2>5, ByteSeqInt
  <2>7. bytes' \in Seq(Byte) /\ Len(bytes') = Len(bytes) - Block
    BY <2>2, <2>5
  <2>8. chunk_size = 0
    BY <1>0, <2>1, <2>5
  <2>9. ShaTypeOK'
    BY <2>5, <2>6, <2>7
  <2>10. FillInv'
    BY <1>0, <2>5, <2>7, <2>8
  <2>11. AllBytes'
    <3>1. Block \in Int /\ Len(compressed) + chunk_size + Len(bytes) = data_size
      BY <2>5
    <3>2. Len(compressed') + chunk_size' + Len(bytes') = data_size'
      BY ONLY <1>0, <2>5, <2>6, <2>7, <2>8, <3>1
    <3>. QED
      BY <3>2
  <2>12. ByteInv'
    BY <2>5, <2>6, <2>8
  <2>. QED
    BY <2>9, <2>10, <2>11, <2>12
<1>4. CASE UpdateRest
  <2>1. <<>> \in Seq(Byte) /\ Len(<<>>) = 0
    BY EmptySeq
  <2>2. \A i \in 1..Block : i > chunk_size /\ i <= chunk_size + Len(bytes) =>
          bytes[i - chunk_size] \in Byte
    <3>. SUFFICES ASSUME NEW i \in 1..Block, i > chunk_size, i <= chunk_size + Len(bytes)
                  PROVE  bytes[i - chunk_size] \in Byte
      OBVIOUS
    <3>1. i - chunk_size \in 1..Len(bytes)
      BY <1>0
    <3>. QED
      BY <3>1, ElementOfSeq
  <2>3. last_chunk' = [i \in 1..Block |->
                        IF i > chunk_size /\ i <= chunk_size + Len(bytes)
                          THEN bytes[i - chunk_size] ELSE last_chunk[i]]
    BY <1>4 DEF UpdateRest
  <2>4. last_chunk' \in [1..Block -> Int]
    BY <2>2, <2>3
  <2>5. chunk_size + Len(bytes) < Block /\ chunk_size' = chunk_size + Len(bytes)
    BY <1>0, <1>4 DEF UpdateRest
  <2>6. \A i \in 1..chunk_size' : last_chunk'[i] \in Byte
    BY <1>0, <1>4, <2>2, <2>3, <2>5 DEF UpdateRest
  <2>. QED
    BY <1>0, <1>4, <2>1, <2>4, <2>5, <2>6 DEF UpdateRest
<1>5. CASE FinalizeMark
  <2>1. Len(bytes) = 0
    BY <1>5, EmptySeq DEF FinalizeMark
  <2>. QED
    BY <1>0, <1>5, <2>1 DEF FinalizeMark
<1>6. CASE FinalizeOverflow
  <2>1. CASE chunk_size > LenAt
    <3>1. last_chunk \in Seq(Int) /\ Len(last_chunk) = Block
      BY ArraySeq
    <3>2. compressed \in Seq(Int) /\ compressed' = compressed \o last_chunk
      BY <1>6, <2>1 DEF FinalizeOverflow
    <3>5. compressed' \in Seq(Int) /\ Len(compressed') = Len(compressed) + Block
      BY ONLY <3>1, <3>2, Joined
    <3>3. last_chunk' \in [1..Block -> Int]
      BY <1>6, <2>1 DEF FinalizeOverflow
    <3>4. step = "mark" /\ step' = "length" /\ UNCHANGED <<data_size, chunk_size, bytes>>
      BY <1>6 DEF FinalizeOverflow
    <3>6. Len(compressed) + chunk_size = data_size + 1 /\ chunk_size > 0 /\ bytes = <<>>
      BY <3>4
    <3>7. ShaTypeOK' /\ AllBytes' /\ ByteInv'
      BY <3>3, <3>4, <3>5
    <3>8. FillInv'
      <4>1. PICK m \in Nat : m = Len(compressed) /\ Len(compressed') = m + Block
        BY <1>0, <3>5
      <4>2. data_size < (m + Block) + chunk_size /\ data_size <= (m + Block) + LenAt
        <5>1. m + chunk_size = data_size + 1 /\ chunk_size > 0
          BY <3>6, <4>1
        <5>. QED
          BY <5>1
      <4>. QED
        BY ONLY <3>4, <3>6, <4>1, <4>2 DEF FillInv
    <3>. QED
      BY <3>7, <3>8
  <2>2. CASE ~(chunk_size > LenAt)
    BY <1>0, <1>6, <2>2 DEF FinalizeOverflow
  <2>. QED
    BY <2>1, <2>2
<1>7. ~FinalizeLength /\ ~ShaDone
  BY DEF FinalizeLength, ShaDone
<1>8. CASE UNCHANGED shaVars
  BY <1>8 DEF shaVars
<1>. QED
  BY <1>1, <1>2, <1>3, <1>4, <1>5, <1>6, <1>7, <1>8 DEF ShaNext, Update, Finalize

-----------------------------------------------------------------------------
(***************************************************************************)
(* The message                                                             *)
(***************************************************************************)

\* A message only grows, by the argument of an update: whatever else a step
\* does to the buffer, the bytes given stay what they are.
MessageStep ==
  \/ \E arg \in Arguments : UpdateStart(arg) /\ given' = given \o arg
  \/ given' = given

\* The first n entries of a sequence or array.
LEMMA Prefix ==
  ASSUME NEW S, NEW s, NEW n \in Nat, \A i \in 1..n : s[i] \in S
  PROVE  /\ SubSeq(s, 1, n) \in Seq(S) /\ Len(SubSeq(s, 1, n)) = n
         /\ \A i \in 1..n : SubSeq(s, 1, n)[i] = s[i]
<1>1. 1 \in Int /\ n \in Int /\ n - 1 + 1 = n
  OBVIOUS
<1>2. /\ SubSeq(s, 1, n) \in Seq(S) /\ Len(SubSeq(s, 1, n)) = IF 1 <= n THEN n - 1 + 1 ELSE 0
      /\ \A i \in 1..n - 1 + 1 : SubSeq(s, 1, n)[i] = s[1 + i - 1]
  BY <1>1, SubSeqProperties
<1>. QED
  BY <1>2

\* Sequences that agree up to n have the same prefix.
LEMMA PrefixEqual ==
  ASSUME NEW S, NEW s \in Seq(S), NEW t \in Seq(S), NEW n \in Nat,
         n <= Len(s), n <= Len(t), \A i \in 1..n : s[i] = t[i]
  PROVE  SubSeq(s, 1, n) = SubSeq(t, 1, n)
<1>1. Len(s) \in Nat /\ Len(t) \in Nat
  BY Length
<1>2. (\A i \in 1..n : s[i] \in S) /\ (\A i \in 1..n : t[i] \in S)
  BY <1>1, ElementOfSeq
<1>3. /\ SubSeq(s, 1, n) \in Seq(S) /\ Len(SubSeq(s, 1, n)) = n
      /\ \A i \in 1..n : SubSeq(s, 1, n)[i] = s[i]
  BY <1>2, Prefix
<1>4. /\ SubSeq(t, 1, n) \in Seq(S) /\ Len(SubSeq(t, 1, n)) = n
      /\ \A i \in 1..n : SubSeq(t, 1, n)[i] = t[i]
  BY <1>2, Prefix
<1>. QED
  BY <1>3, <1>4, SeqEqual

\* While the message is being read it is what was compressed, the partial
\* block and the rest of the argument.
LEMMA MessageIs ==
  BufferInv /\ Updating =>
    /\ compressed \in Seq(Byte) /\ Partial \in Seq(Byte) /\ bytes \in Seq(Byte)
    /\ given = (compressed \o Partial) \o bytes
<1>. SUFFICES ASSUME BufferInv, Updating
              PROVE  /\ compressed \in Seq(Byte) /\ Partial \in Seq(Byte) /\ bytes \in Seq(Byte)
                     /\ given = (compressed \o Partial) \o bytes
  OBVIOUS
<1>1. ShaTypeOK /\ AllBytes /\ ByteInv
  BY DEF BufferInv, Updating
<1>2. compressed \in Seq(Byte) /\ bytes \in Seq(Byte)
  BY <1>1 DEF ByteInv, ShaTypeOK
<1>3. Partial \in Seq(Byte) /\ Len(Partial) = chunk_size
  BY <1>1, PartialSeq DEF ByteInv, ShaTypeOK
<1>4. compressed \o Partial \in Seq(Byte) /\ Len(compressed \o Partial) = Len(compressed) + Len(Partial)
  BY ONLY <1>2, <1>3, Joined
<1>5. /\ (compressed \o Partial) \o bytes \in Seq(Byte)
      /\ Len((compressed \o Partial) \o bytes) = Len(compressed \o Partial) + Len(bytes)
  BY ONLY <1>2, <1>4, Joined
<1>6. Len((compressed \o Partial) \o bytes) = data_size
  BY <1>1, <1>3, <1>4, <1>5 DEF AllBytes, Updating
<1>7. given = SubSeq((compressed \o Partial) \o bytes, 1, Len((compressed \o Partial) \o bytes))
  BY <1>6 DEF given
<1>. QED
  BY ONLY <1>2, <1>3, <1>5, <1>7, SubSeqFull

\* The same in the next state.
LEMMA MessageIsNext ==
  (BufferInv /\ Updating =>
     /\ compressed \in Seq(Byte) /\ Partial \in Seq(Byte) /\ bytes \in Seq(Byte)
     /\ given = (compressed \o Partial) \o bytes)'
  BY MessageIs, PTL

\* The update functions only move bytes from the argument to the partial
\* block and from both to what is compressed.
LEMMA StartMessage ==
  ASSUME BufferInv, BufferInv', NEW arg \in Arguments, UpdateStart(arg)
  PROVE  given' = given \o arg
<1>1. Updating /\ Updating' /\ bytes = <<>> /\ bytes' = arg /\ compressed' = compressed
  BY DEF BufferInv, FillInv, Updating, UpdateStart
<1>2. Partial' = Partial
  BY DEF UpdateStart, Partial, buffer
<1>3. given = (compressed \o Partial) \o bytes /\ compressed \in Seq(Byte) /\ Partial \in Seq(Byte)
  BY <1>1, MessageIs
<1>4. given' = (compressed' \o Partial') \o bytes'
  BY <1>1, MessageIsNext
<1>5. compressed \o Partial \in Seq(Byte)
  BY ONLY <1>3, Joined
<1>6. given = compressed \o Partial
  BY ONLY <1>1, <1>3, <1>5, ConcatEmptySeq
<1>. QED
  BY ONLY <1>1, <1>2, <1>4, <1>6

\* What is taken and what is left make up the argument.
LEMMA TakenLeft ==
  ASSUME bytes \in Seq(Byte), NEW n \in 0..Len(bytes)
  PROVE  Taken(n) \o Left(n) = bytes
<1>1. Len(bytes) \in Nat
  BY Length
<1>2. SubSeq(bytes, 1, n) \o SubSeq(bytes, n + 1, Len(bytes)) = SubSeq(bytes, 1, Len(bytes))
  <2>1. 1 \in 1..Len(bytes) + 1 /\ n \in 1 - 1 .. Len(bytes) /\ Len(bytes) \in n .. Len(bytes)
    BY <1>1
  <2>. QED
    BY <2>1, ConcatAdjacentSubSeq
<1>. QED
  BY <1>2, SubSeqFull DEF Taken, Left

\* Three sequences joined in either order.
Grouped(a, b, c) == (a \o b) \o c = a \o (b \o c)

\* Joining is associative.
LEMMA Regroup ==
  ASSUME NEW a \in Seq(Byte), NEW b \in Seq(Byte), NEW c \in Seq(Byte)
  PROVE  Grouped(a, b, c)
  BY ConcatAssociative DEF Grouped

\* UpdateFill: the partial block and what fills it are compressed.
LEMMA FillMessage ==
  ASSUME BufferInv, BufferInv', UpdateFill
  PROVE  given' = given
<1>1. Updating /\ Updating' /\ last_chunk' = last_chunk
  BY DEF Updating, UpdateFill
<1>2. /\ given = (compressed \o Partial) \o bytes
      /\ compressed \in Seq(Byte) /\ Partial \in Seq(Byte) /\ bytes \in Seq(Byte)
  BY <1>1, MessageIs
<1>3. given' = (compressed' \o Partial') \o bytes'
  BY <1>1, MessageIsNext
<1>4. CASE Len(bytes) + chunk_size >= Block
  <2>. DEFINE n == Block - chunk_size
  <2>1. n \in 0..Len(bytes)
    BY <1>2, <1>4, BlockAssumption, Length DEF BufferInv, UpdateFill, ShaTypeOK
  <2>2. PICK first \in Seq(Byte), rest \in Seq(Byte) : first = Taken(n) /\ rest = Left(n)
    BY <1>2, <2>1, Cut
  <2>3. first \o rest = bytes
    BY <1>2, <2>1, <2>2, TakenLeft
  <2>4. compressed' = compressed \o (Partial \o first) /\ bytes' = rest /\ chunk_size' = 0
    BY <1>4, <2>2 DEF UpdateFill, Compress
  <2>5. Partial' = <<>>
    BY <2>4, SubSeqEmpty DEF Partial
  <2>6. Partial \o first \in Seq(Byte)
    BY ONLY <1>2, <2>2, Joined
  <2>7. compressed \o (Partial \o first) \in Seq(Byte)
    BY ONLY <1>2, <2>6, Joined
  <2>8. (compressed \o (Partial \o first)) \o <<>> = compressed \o (Partial \o first)
    BY ONLY <2>7, ConcatEmptySeq
  <2>9. compressed \in Seq(Byte) /\ Partial \in Seq(Byte) /\ first \in Seq(Byte) /\ rest \in Seq(Byte)
    BY <1>2, <2>2
  <2>10. Partial \o first \in Seq(Byte) /\ first \o rest \in Seq(Byte)
    BY ONLY <2>9, Joined
  <2>11. PICK p \in Seq(Byte), q \in Seq(Byte) : p = Partial \o first /\ q = first \o rest
    BY <2>10
  <2>12. Grouped(compressed, p, rest) /\ Grouped(compressed, Partial, q) /\ Grouped(Partial, first, rest)
    BY ONLY <2>9, Regroup
  <2>13. (compressed \o (Partial \o first)) \o rest = (compressed \o Partial) \o (first \o rest)
    BY ONLY <2>11, <2>12 DEF Grouped
  <2>. QED
    BY ONLY <1>2, <1>3, <2>3, <2>4, <2>5, <2>8, <2>13
<1>5. CASE ~(Len(bytes) + chunk_size >= Block)
  BY <1>1, <1>2, <1>3, <1>5 DEF UpdateFill, Partial
<1>. QED
  BY <1>4, <1>5

\* UpdateBlock: a block of the argument is compressed.
LEMMA BlockMessage ==
  ASSUME BufferInv, BufferInv', UpdateBlock
  PROVE  given' = given
<1>1. Updating /\ Updating'
  BY DEF Updating, UpdateBlock
<1>2. /\ given = (compressed \o Partial) \o bytes
      /\ compressed \in Seq(Byte) /\ Partial \in Seq(Byte) /\ bytes \in Seq(Byte)
  BY <1>1, MessageIs
<1>3. given' = (compressed' \o Partial') \o bytes'
  BY <1>1, MessageIsNext
<1>4. Block \in 0..Len(bytes) /\ chunk_size = 0
  BY <1>2, BlockAssumption, Length DEF BufferInv, UpdateBlock, ShaTypeOK, FillInv
<1>5. PICK first \in Seq(Byte), rest \in Seq(Byte) : first = Taken(Block) /\ rest = Left(Block)
  BY <1>2, <1>4, Cut
<1>6. first \o rest = bytes
  BY <1>2, <1>4, <1>5, TakenLeft
<1>7. compressed' = compressed \o first /\ bytes' = rest /\ chunk_size' = chunk_size
  BY <1>5 DEF UpdateBlock, Compress, buffer
<1>8. Partial = <<>> /\ Partial' = <<>>
  BY <1>4, <1>7, SubSeqEmpty DEF Partial
<1>9. compressed \o first \in Seq(Byte)
  BY ONLY <1>2, <1>5, Joined
<1>10. (compressed \o first) \o <<>> = compressed \o first /\ compressed \o <<>> = compressed
  BY ONLY <1>2, <1>9, ConcatEmptySeq
<1>11. compressed \in Seq(Byte) /\ Partial \in Seq(Byte) /\ first \in Seq(Byte) /\ rest \in Seq(Byte)
  BY <1>2, <1>5
<1>12. (compressed \o first) \o rest = compressed \o (first \o rest)
  BY ONLY <1>11, ConcatAssociative
<1>. QED
  BY ONLY <1>2, <1>3, <1>7, <1>8, <1>10, <1>12, <1>6

\* UpdateRest: the rest of the argument joins the partial block.
LEMMA RestMessage ==
  ASSUME BufferInv, BufferInv', UpdateRest
  PROVE  given' = given
<1>1. Updating /\ Updating' /\ compressed' = compressed /\ bytes' = <<>>
  BY DEF Updating, UpdateRest
<1>2. /\ given = (compressed \o Partial) \o bytes
      /\ compressed \in Seq(Byte) /\ Partial \in Seq(Byte) /\ bytes \in Seq(Byte)
  BY <1>1, MessageIs
<1>3. given' = (compressed' \o Partial') \o bytes' /\ Partial' \in Seq(Byte)
  BY <1>1, MessageIsNext
<1>4. ShaTypeOK /\ FillInv /\ chunk_size + Len(bytes) < Block /\ Len(bytes) \in Nat
  BY <1>2, Length, BlockAssumption DEF BufferInv, UpdateRest, ShaTypeOK, FillInv
<1>5. Len(Partial) = chunk_size /\ Len(Partial') = chunk_size + Len(bytes)
      /\ (\A i \in 1..chunk_size : Partial[i] = last_chunk[i])
      /\ (\A i \in 1..chunk_size + Len(bytes) : Partial'[i] = last_chunk'[i])
  <2>1. chunk_size' = chunk_size + Len(bytes)
    BY DEF UpdateRest
  <2>2. (\A i \in 1..chunk_size : last_chunk[i] \in Int)
        /\ (\A i \in 1..chunk_size' : last_chunk'[i] \in Int)
    BY <1>1, <1>4, <2>1, BlockAssumption DEF BufferInv, ShaTypeOK, Updating
  <2>3. chunk_size \in Nat /\ chunk_size' \in Nat
    BY <1>4, <2>1, BlockAssumption DEF ShaTypeOK
  <2>6. \A a, n : n \in Nat /\ (\A i \in 1..n : a[i] \in Int) =>
          Len(SubSeq(a, 1, n)) = n /\ \A i \in 1..n : SubSeq(a, 1, n)[i] = a[i]
    BY ONLY Prefix
  <2>4. /\ Len(SubSeq(last_chunk, 1, chunk_size)) = chunk_size
        /\ \A i \in 1..chunk_size : SubSeq(last_chunk, 1, chunk_size)[i] = last_chunk[i]
    BY ONLY <2>2, <2>3, <2>6, Zenon
  <2>5. /\ Len(SubSeq(last_chunk', 1, chunk_size')) = chunk_size'
        /\ \A i \in 1..chunk_size' : SubSeq(last_chunk', 1, chunk_size')[i] = last_chunk'[i]
    BY ONLY <2>2, <2>3, <2>6, Zenon
  <2>. QED
    BY <2>1, <2>4, <2>5 DEF Partial
<1>6. /\ Partial \o bytes \in Seq(Byte) /\ Len(Partial \o bytes) = Len(Partial) + Len(bytes)
      /\ \A i \in 1..Len(Partial) + Len(bytes) :
           (Partial \o bytes)[i] = IF i <= Len(Partial) THEN Partial[i] ELSE bytes[i - Len(Partial)]
  BY ONLY <1>2, ConcatProperties
<1>7. \A i \in 1..chunk_size + Len(bytes) : Partial'[i] = (Partial \o bytes)[i]
  <2>. SUFFICES ASSUME NEW i \in 1..chunk_size + Len(bytes)
                PROVE  last_chunk'[i] = IF i <= chunk_size THEN Partial[i] ELSE bytes[i - chunk_size]
    BY <1>5, <1>6
  <2>1. i \in 1..Block
    BY <1>4, BlockAssumption DEF ShaTypeOK
  <2>2. last_chunk'[i] = IF i > chunk_size /\ i <= chunk_size + Len(bytes)
                           THEN bytes[i - chunk_size] ELSE last_chunk[i]
    BY <2>1 DEF UpdateRest
  <2>. QED
    BY <1>4, <1>5, <2>2, BlockAssumption DEF ShaTypeOK
<1>8. Partial' = Partial \o bytes
  <2>1. Len(Partial') = Len(Partial \o bytes)
        /\ \A i \in 1..Len(Partial') : Partial'[i] = (Partial \o bytes)[i]
    BY <1>5, <1>6, <1>7
  <2>. QED
    BY ONLY <1>3, <1>6, <2>1, SeqEqual
<1>9. compressed \o (Partial \o bytes) \in Seq(Byte)
  BY ONLY <1>2, <1>6, Joined
<1>10. (compressed \o (Partial \o bytes)) \o <<>> = compressed \o (Partial \o bytes)
  BY ONLY <1>9, ConcatEmptySeq
<1>11. (compressed \o Partial) \o bytes = compressed \o (Partial \o bytes)
  BY ONLY <1>2, ConcatAssociative
<1>. QED
  BY ONLY <1>1, <1>2, <1>3, <1>8, <1>10, <1>11

-----------------------------------------------------------------------------
(***************************************************************************)
(* What sha256_finalize adds stays behind the message                      *)
(***************************************************************************)

\* The byte at place i of h followed by the first k entries of the array a.
At(h, a, i) == IF i <= Len(h) THEN h[i] ELSE a[i - Len(h)]

\* h, the first k entries of a, and b, one after the other.
Laid(h, a, k, b) == (h \o SubSeq(a, 1, k)) \o b

\* What is known of such a sequence.
LaidOut(S, h, a, k, b) ==
  \E s \in Seq(S) :
    /\ s = Laid(h, a, k, b)
    /\ Len(s) = Len(h) + k + Len(b)
    /\ \A i \in 1..(Len(h) + k) : s[i] = At(h, a, i)

\* Where each byte of h, a and b is when they are laid out.
LEMMA Layout ==
  ASSUME NEW S, NEW h \in Seq(S), NEW a, NEW k \in Nat, \A i \in 1..k : a[i] \in S,
         NEW b \in Seq(S)
  PROVE  LaidOut(S, h, a, k, b)
<1>1. PICK p \in Seq(S) : p = SubSeq(a, 1, k)
  BY Prefix
<1>2. Len(p) = k /\ \A i \in 1..k : p[i] = a[i]
  BY <1>1, Prefix
<1>3. Len(h) \in Nat /\ Len(b) \in Nat
  BY Length
<1>4. /\ h \o p \in Seq(S) /\ Len(h \o p) = Len(h) + Len(p)
      /\ \A i \in 1..Len(h) + Len(p) : (h \o p)[i] = IF i <= Len(h) THEN h[i] ELSE p[i - Len(h)]
  BY ONLY <1>1, ConcatProperties
<1>5. PICK q \in Seq(S) : q = h \o p
  BY <1>4
<1>6. /\ q \o b \in Seq(S) /\ Len(q \o b) = Len(q) + Len(b)
      /\ \A i \in 1..Len(q) + Len(b) : (q \o b)[i] = IF i <= Len(q) THEN q[i] ELSE b[i - Len(q)]
  BY ONLY <1>5, ConcatProperties
<1>7. Len(q) = Len(h) + k /\ \A i \in 1..Len(h) + k : q[i] = At(h, a, i)
  <2>1. Len(q) = Len(h) + k
    BY <1>2, <1>4, <1>5
  <2>. SUFFICES ASSUME NEW i \in 1..Len(h) + k PROVE q[i] = At(h, a, i)
    BY <2>1
  <2>2. q[i] = IF i <= Len(h) THEN h[i] ELSE p[i - Len(h)]
    BY <1>2, <1>4, <1>5
  <2>3. ~(i <= Len(h)) => i - Len(h) \in 1..k
    BY <1>3
  <2>. QED
    BY <1>2, <2>2, <2>3 DEF At
<1>8. (h \o SubSeq(a, 1, k)) \o b = q \o b
  BY <1>1, <1>5
<1>9. Len(q \o b) = Len(h) + k + Len(b) /\ \A i \in 1..(Len(h) + k) : (q \o b)[i] = At(h, a, i)
  BY <1>3, <1>6, <1>7
<1>. QED
  BY ONLY <1>6, <1>8, <1>9 DEF LaidOut, Laid

\* FinalizeMark stores nothing inside the message.
LEMMA MarkMessage ==
  ASSUME BufferInv, FinalizeMark
  PROVE  given' = given
<1>. USE BlockAssumption, ByteAssumption DEF ShaTypeOK, FinalizeMark
<1>1. ShaTypeOK /\ FillInv /\ AllBytes
  BY DEF BufferInv
<1>2. /\ compressed \in Seq(Int) /\ bytes \in Seq(Int) /\ Len(bytes) = 0 /\ Len(compressed) \in Nat
      /\ Len(compressed) + chunk_size = data_size
  <2>1. bytes = <<>> /\ Len(bytes) = 0
    BY <1>1, EmptySeq DEF FillInv
  <2>. QED
    BY <1>1, <2>1, ByteSeqInt, Length DEF AllBytes
<1>3. chunk_size \in Nat /\ chunk_size + 1 \in Nat /\ data_size \in Nat /\ chunk_size + 1 <= Block
  BY <1>1 DEF FillInv
<1>4. (\A i \in 1..chunk_size : last_chunk[i] \in Int)
      /\ (\A i \in 1..chunk_size + 1 : last_chunk'[i] \in Int)
  BY <1>1, <1>3 DEF Mark
<1>5. PICK s \in Seq(Int) :
        /\ s = Laid(compressed, last_chunk, chunk_size, bytes)
        /\ Len(s) = Len(compressed) + chunk_size + Len(bytes)
        /\ \A i \in 1..(Len(compressed) + chunk_size) : s[i] = At(compressed, last_chunk, i)
  <2>1. LaidOut(Int, compressed, last_chunk, chunk_size, bytes)
    BY <1>2, <1>3, <1>4, Layout
  <2>. QED
    BY ONLY <2>1 DEF LaidOut
<1>6. PICK t \in Seq(Int) :
        /\ t = Laid(compressed, last_chunk', chunk_size + 1, bytes)
        /\ Len(t) = Len(compressed) + (chunk_size + 1) + Len(bytes)
        /\ \A i \in 1..(Len(compressed) + (chunk_size + 1)) : t[i] = At(compressed, last_chunk', i)
  <2>1. LaidOut(Int, compressed, last_chunk', chunk_size + 1, bytes)
    BY <1>2, <1>3, <1>4, Layout
  <2>. QED
    BY ONLY <2>1 DEF LaidOut
<1>7. Len(s) = data_size /\ \A i \in 1..data_size : s[i] = At(compressed, last_chunk, i)
  BY <1>2, <1>3, <1>5
<1>8. Len(t) = data_size + 1 /\ \A i \in 1..data_size : t[i] = At(compressed, last_chunk', i)
  <2>1. PICK m \in Nat : m = Len(compressed) /\ m + chunk_size = data_size
    BY <1>2
  <2>2. /\ m + (chunk_size + 1) + 0 = data_size + 1
        /\ \A i \in 1..data_size : i \in 1..(m + (chunk_size + 1))
    BY ONLY <1>3, <2>1
  <2>. QED
    BY ONLY <1>2, <1>6, <2>1, <2>2
<1>9. \A i \in 1..data_size : s[i] = t[i]
  <2>. SUFFICES ASSUME NEW i \in 1..data_size, ~(i <= Len(compressed))
                PROVE  last_chunk[i - Len(compressed)] = last_chunk'[i - Len(compressed)]
    BY <1>7, <1>8 DEF At
  <2>1. i - Len(compressed) \in 1..chunk_size
    BY <1>2, <1>3
  <2>. QED
    BY <1>3, <2>1
<1>10. SubSeq(s, 1, data_size) = SubSeq(t, 1, data_size)
  <2>1. data_size <= Len(s) /\ data_size <= Len(t)
    BY <1>3, <1>7, <1>8
  <2>. QED
    BY <1>3, <1>9, <2>1, PrefixEqual
<1>. QED
  BY <1>5, <1>6, <1>10 DEF given, Partial, Laid

\* FinalizeOverflow compresses the end of the message.
LEMMA OverflowMessage ==
  ASSUME BufferInv, BufferInv', FinalizeOverflow
  PROVE  given' = given
<1>. USE BlockAssumption, ByteAssumption DEF ShaTypeOK, FinalizeOverflow
<1>1. ShaTypeOK /\ FillInv /\ UNCHANGED <<data_size, chunk_size, bytes>>
  BY DEF BufferInv
<1>2. CASE ~(chunk_size > LenAt)
  BY <1>1, <1>2 DEF given, Partial
<1>3. CASE chunk_size > LenAt
  <2>1. compressed' = compressed \o last_chunk /\ last_chunk' = [i \in 1..Block |-> 0]
    BY <1>3 DEF Compress
  <2>2. /\ compressed \in Seq(Int) /\ bytes \in Seq(Int) /\ Len(bytes) \in Nat /\ Len(compressed) \in Nat
        /\ last_chunk \in Seq(Int) /\ Len(last_chunk) = Block
        /\ data_size < Len(compressed) + chunk_size
    BY <1>1, ByteSeqInt, Length, ArraySeq DEF FillInv
  <2>3. chunk_size \in Nat /\ data_size \in Nat /\ chunk_size <= Block
    BY <1>1
  <2>4. (\A i \in 1..chunk_size : last_chunk[i] \in Int)
        /\ (\A i \in 1..chunk_size : last_chunk'[i] \in Int)
    BY <1>1, <2>1, <2>3
  <2>5. /\ compressed' \in Seq(Int) /\ Len(compressed') = Len(compressed) + Block
        /\ \A i \in 1..(Len(compressed) + Block) : compressed'[i] = At(compressed, last_chunk, i)
    <3>1. /\ compressed \o last_chunk \in Seq(Int)
          /\ Len(compressed \o last_chunk) = Len(compressed) + Len(last_chunk)
          /\ \A i \in 1..Len(compressed) + Len(last_chunk) :
               (compressed \o last_chunk)[i]
                 = IF i <= Len(compressed) THEN compressed[i] ELSE last_chunk[i - Len(compressed)]
      BY ONLY <2>2, ConcatProperties
    <3>. QED
      BY <2>1, <2>2, <3>1 DEF At
  <2>6. PICK h \in Seq(Int) : h = compressed'
    BY <2>5
  <2>7. /\ Len(h) = Len(compressed) + Block
         /\ \A i \in 1..(Len(compressed) + Block) : h[i] = At(compressed, last_chunk, i)
    BY <2>5, <2>6
  <2>8. PICK s \in Seq(Int) :
          /\ s = Laid(compressed, last_chunk, chunk_size, bytes)
          /\ Len(s) = Len(compressed) + chunk_size + Len(bytes)
          /\ \A i \in 1..(Len(compressed) + chunk_size) : s[i] = At(compressed, last_chunk, i)
    <3>1. LaidOut(Int, compressed, last_chunk, chunk_size, bytes)
      BY <2>2, <2>3, <2>4, Layout
    <3>. QED
      BY ONLY <3>1 DEF LaidOut
  <2>9. PICK t \in Seq(Int) :
          /\ t = Laid(h, last_chunk', chunk_size, bytes)
          /\ Len(t) = Len(h) + chunk_size + Len(bytes)
          /\ \A i \in 1..(Len(h) + chunk_size) : t[i] = At(h, last_chunk', i)
    <3>1. LaidOut(Int, h, last_chunk', chunk_size, bytes)
      BY <2>2, <2>3, <2>4, <2>6, Layout
    <3>. QED
      BY ONLY <3>1 DEF LaidOut
  <2>10. /\ Block \in Nat /\ Len(h) = Len(compressed) + Block
        /\ Len(s) = Len(compressed) + chunk_size + Len(bytes)
        /\ Len(t) = Len(h) + chunk_size + Len(bytes)
    BY <2>7, <2>8, <2>9
  <2>11. /\ Len(compressed) \in Nat /\ Len(bytes) \in Nat /\ chunk_size \in Nat /\ data_size \in Nat
        /\ Block \in Nat /\ chunk_size <= Block /\ data_size < Len(compressed) + chunk_size
    BY <2>2, <2>3
  <2>12. /\ data_size <= Len(s) /\ data_size <= Len(t)
         /\ \A i \in 1..data_size :
              /\ i \in 1..(Len(compressed) + chunk_size) /\ i \in 1..(Len(compressed) + Block)
              /\ i \in 1..(Len(h) + chunk_size) /\ i <= Len(h)
    <3>1. Len(h) \in Nat
      BY ONLY <2>10, <2>11
    <3>2. \A i \in 1..data_size :
              /\ i \in 1..(Len(compressed) + chunk_size) /\ i \in 1..(Len(compressed) + Block)
              /\ i \in 1..(Len(h) + chunk_size) /\ i <= Len(h)
      <4>1. PICK m \in Nat, l \in Nat : m = Len(compressed) /\ l = Len(h)
        BY ONLY <2>11, <3>1
      <4>2. l = m + Block /\ data_size < m + chunk_size
        BY ONLY <2>10, <2>11, <4>1
      <4>3. chunk_size \in Nat /\ data_size \in Nat /\ Block \in Nat /\ chunk_size <= Block
        BY ONLY <2>11
      <4>4. \A i \in 1..data_size :
              /\ i \in 1..(m + chunk_size) /\ i \in 1..(m + Block)
              /\ i \in 1..(l + chunk_size) /\ i <= l
        BY ONLY <4>2, <4>3
      <4>. QED
        BY ONLY <4>1, <4>4
    <3>3. data_size <= Len(s)
      BY ONLY <2>10, <2>11
    <3>4. data_size <= Len(t)
      BY ONLY <2>10, <2>11, <3>1
    <3>. QED
      BY <3>2, <3>3, <3>4
  <2>13. \A i \in 1..data_size : s[i] = t[i]
    <3>. SUFFICES ASSUME NEW i \in 1..data_size PROVE s[i] = t[i]
      OBVIOUS
    <3>1. i \in 1..(Len(compressed) + chunk_size) /\ i \in 1..(Len(compressed) + Block)
          /\ i \in 1..(Len(h) + chunk_size) /\ i <= Len(h)
      BY <2>12
    <3>2. t[i] = h[i]
      BY <2>9, <3>1 DEF At
    <3>. QED
      BY <2>7, <2>8, <3>1, <3>2
  <2>14. SubSeq(s, 1, data_size) = SubSeq(t, 1, data_size)
    <3>1. data_size <= Len(s) /\ data_size <= Len(t)
      BY <2>12
    <3>. QED
      BY <2>3, <2>13, <3>1, PrefixEqual
  <2>. QED
    BY <1>1, <2>6, <2>8, <2>9, <2>14 DEF given, Partial, Laid
<1>. QED
  BY <1>2, <1>3

\* The entries of the last block, digits of the length included.
Entries == Int \cup {WithLength[i] : i \in 1..Block}

\* FinalizeLength stores the length behind the message.
LEMMA LengthMessage ==
  ASSUME BufferInv, FinalizeLength
  PROVE  given' = given
<1>. USE BlockAssumption, ByteAssumption DEF ShaTypeOK
<1>1. ShaTypeOK /\ FillInv
  BY DEF BufferInv, FinalizeLength
<1>2. PICK w : w = WithLength
  OBVIOUS
<1>3. /\ UNCHANGED <<data_size, chunk_size, bytes>> /\ last_chunk' = w
      /\ compressed' = compressed \o w
  BY <1>2 DEF FinalizeLength, Compress
<1>4. /\ w \in [1..Block -> Entries]
      /\ \A i \in 1..LenAt : w[i] = last_chunk[i]
  <2>1. w = [i \in 1..Block |-> w[i]]
    BY <1>2 DEF WithLength
  <2>2. \A i \in 1..Block : w[i] \in Entries
    BY <1>2 DEF Entries
  <2>3. w \in [1..Block -> Entries]
    BY ONLY <2>1, <2>2
  <2>4. \A i \in 1..Block : ~(i > LenAt) => w[i] = last_chunk[i]
    BY <1>2 DEF WithLength
  <2>. QED
    BY <2>3, <2>4 DEF LenAt
<1>5. Int \subseteq Entries
  BY DEF Entries
<1>6. /\ compressed \in Seq(Entries) /\ bytes \in Seq(Entries)
      /\ Len(bytes) \in Nat /\ Len(compressed) \in Nat
      /\ data_size < Len(compressed) + chunk_size /\ data_size <= Len(compressed) + LenAt
  <2>1. bytes \in Seq(Int)
    BY <1>1, ByteSeqInt
  <2>2. compressed \in Seq(Int)
    BY <1>1
  <2>3. compressed \in Seq(Entries) /\ bytes \in Seq(Entries)
    BY <1>5, <2>1, <2>2, SeqMonotonic
  <2>. QED
    BY <1>1, <2>3, Length DEF FillInv, FinalizeLength
<1>7. w \in Seq(Entries) /\ Len(w) = Block
  BY <1>4, ArraySeq
<1>8. chunk_size \in Nat /\ data_size \in Nat /\ chunk_size <= Block
  BY <1>1
<1>9. (\A i \in 1..chunk_size : last_chunk[i] \in Entries)
      /\ (\A i \in 1..chunk_size : w[i] \in Entries)
  BY <1>1, <1>4, <1>5, <1>8
<1>10. /\ compressed \o w \in Seq(Entries) /\ Len(compressed \o w) = Len(compressed) + Len(w)
      /\ \A i \in 1..Len(compressed) + Len(w) :
           (compressed \o w)[i] = IF i <= Len(compressed) THEN compressed[i] ELSE w[i - Len(compressed)]
  BY ONLY <1>6, <1>7, ConcatProperties
<1>11. PICK h \in Seq(Entries) : h = compressed \o w
  BY <1>10
<1>12. Len(h) = Len(compressed) + Block /\ \A i \in 1..(Len(compressed) + Block) : h[i] = At(compressed, w, i)
  BY <1>7, <1>10, <1>11 DEF At
<1>13. PICK s \in Seq(Entries) :
         /\ s = Laid(compressed, last_chunk, chunk_size, bytes)
         /\ Len(s) = Len(compressed) + chunk_size + Len(bytes)
         /\ \A i \in 1..(Len(compressed) + chunk_size) : s[i] = At(compressed, last_chunk, i)
  <2>1. LaidOut(Entries, compressed, last_chunk, chunk_size, bytes)
    BY <1>6, <1>8, <1>9, Layout
  <2>. QED
    BY ONLY <2>1 DEF LaidOut
<1>14. PICK t \in Seq(Entries) :
         /\ t = Laid(h, w, chunk_size, bytes)
         /\ Len(t) = Len(h) + chunk_size + Len(bytes)
         /\ \A i \in 1..(Len(h) + chunk_size) : t[i] = At(h, w, i)
  <2>1. LaidOut(Entries, h, w, chunk_size, bytes)
    BY <1>6, <1>8, <1>9, <1>11, Layout
  <2>. QED
    BY ONLY <2>1 DEF LaidOut
<1>15. \A i \in 1..data_size : s[i] = t[i]
  <2>. SUFFICES ASSUME NEW i \in 1..data_size PROVE s[i] = t[i]
    OBVIOUS
  <2>1. i \in 1..(Len(compressed) + chunk_size) /\ i \in 1..(Len(compressed) + Block)
        /\ i \in 1..(Len(h) + chunk_size) /\ i <= Len(h)
    BY <1>6, <1>8, <1>12
  <2>2. s[i] = At(compressed, last_chunk, i) /\ t[i] = At(compressed, w, i)
    BY <1>12, <1>13, <1>14, <2>1 DEF At
  <2>3. ~(i <= Len(compressed)) => w[i - Len(compressed)] = last_chunk[i - Len(compressed)]
    <3>1. ~(i <= Len(compressed)) => i - Len(compressed) \in 1..LenAt
      BY <1>6, <1>8 DEF LenAt
    <3>. QED
      BY <1>4, <3>1
  <2>. QED
    BY <2>2, <2>3 DEF At
<1>16. SubSeq(s, 1, data_size) = SubSeq(t, 1, data_size)
  <2>1. data_size <= Len(s) /\ data_size <= Len(t)
    BY <1>6, <1>8, <1>12, <1>13, <1>14
  <2>. QED
    BY <1>8, <1>15, <2>1, PrefixEqual
<1>. QED
  BY <1>3, <1>11, <1>13, <1>14, <1>16 DEF given, Partial, Laid

-----------------------------------------------------------------------------
(***************************************************************************)
(* The digits of the length                                                *)
(*                                                                         *)
(* Both the code and the abstract digest compute them recursively; the two *)
(* recursions are shown to agree by induction on the number of digits.     *)
(***************************************************************************)

\* Induction on a set of numbers: a least number outside would have a
\* predecessor inside.
LEMMA Induction ==
  ASSUME NEW S \in SUBSET Nat, 0 \in S, \A n \in S : n + 1 \in S
  PROVE  S = Nat
<1>. DEFINE less == {p \in Nat \X Nat : p[1] < p[2]}
            T == Nat \ S
<1>1. IsWellFoundedOn(less, Nat)
  <2>1. less = OpToRel(<, Nat)
    BY DEF OpToRel
  <2>. QED
    BY <2>1, NatLessThanWellFounded
<1>. SUFFICES ASSUME T # {} PROVE FALSE
  OBVIOUS
<1>2. PICK x \in T : \A y \in T : <<y, x>> \notin less
  <2>1. T \subseteq Nat
    OBVIOUS
  <2>. HIDE DEF less, T
  <2>. QED
    BY <1>1, <2>1, WFMin, Zenon
<1>3. x # 0 /\ x - 1 \in T
  OBVIOUS
<1>4. <<x - 1, x>> \in Nat \X Nat /\ <<x - 1, x>>[1] < <<x - 1, x>>[2]
  BY <1>3
<1>5. <<x - 1, x>> \in less
  BY <1>4
<1>. QED
  BY <1>2, <1>3, <1>5

\* A table of the weights of n + 1 digits.
WeightOf(f, k) == IF k = 0 THEN 1 ELSE Base * f[k - 1]
Weights(n, f) == f = [k \in 0..n |-> WeightOf(f, k)]

\* A table of any length exists, ...
LEMMA WeightsExist == \A n \in Nat : \E f : Weights(n, f)
<1>. DEFINE S == {n \in Nat : \E f : Weights(n, f)}
<1>1. 0 \in S
  <2>1. Weights(0, [k \in 0..0 |-> 1])
    BY DEF Weights, WeightOf
  <2>. QED
    BY <2>1
<1>2. ASSUME NEW n \in S PROVE n + 1 \in S
  <2>1. n \in Nat /\ \E f : Weights(n, f)
    OBVIOUS
  <2>2. PICK f : Weights(n, f)
    BY <2>1
  <2>. DEFINE g == [k \in 0..(n + 1) |-> IF k = n + 1 THEN Base * f[n] ELSE f[k]]
  <2>3. (\A k \in 0..n : g[k] = f[k]) /\ g[n + 1] = Base * f[n]
    BY <2>1
  <2>4. \A k \in 0..n : f[k] = WeightOf(f, k)
    BY <2>2, Zenon DEF Weights
  <2>6. ASSUME NEW k \in 0..(n + 1) PROVE g[k] = WeightOf(g, k)
    <3>1. CASE k = n + 1
      <4>1. k - 1 = n /\ k # 0 /\ n \in 0..n
        BY <2>1, <3>1
      <4>. HIDE DEF g
      <4>. QED
        BY <2>3, <3>1, <4>1 DEF WeightOf
    <3>2. CASE k \in 0..n
      <4>1. k = 0 \/ k - 1 \in 0..n
        BY <2>1
      <4>. HIDE DEF g
      <4>. QED
        BY <2>3, <2>4, <3>2, <4>1 DEF WeightOf
    <3>. QED
      BY <2>1, <3>1, <3>2
  <2>5. Weights(n + 1, g)
    <3>1. g = [k \in 0..(n + 1) |-> g[k]]
      OBVIOUS
    <3>. HIDE DEF g
    <3>. QED
      BY <2>6, <3>1 DEF Weights
  <2>. QED
    BY <2>1, <2>5
<1>3. S = Nat
  <2>. HIDE DEF S
  <2>1. S \subseteq Nat
    BY DEF S
  <2>. QED
    BY <1>1, <1>2, <2>1, Induction
<1>. QED
  BY <1>3

\* ... so the recursive function of Digest is the one its equation describes.
LEMMA WeightIs ==
  /\ D!Weight = [k \in 0..LenBytes |-> IF k = 0 THEN 1 ELSE Base * D!Weight[k - 1]]
  /\ \A k \in 0..LenBytes : D!Weight[k] \in Nat \ {0}
<1>1. Weights(LenBytes, D!Weight)
  <2>1. \E f : Weights(LenBytes, f)
    BY WeightsExist, BlockAssumption
  <2>2. D!Weight = CHOOSE f : Weights(LenBytes, f)
    BY DEF D!Weight, Weights, WeightOf
  <2>. QED
    BY <2>1, <2>2, Zenon
<1>2. D!Weight = [k \in 0..LenBytes |-> IF k = 0 THEN 1 ELSE Base * D!Weight[k - 1]]
  BY <1>1, Zenon DEF Weights, WeightOf
<1>. DEFINE S == {k \in Nat : k <= LenBytes => D!Weight[k] \in Nat \ {0}}
<1>3. 0 \in S
  BY <1>2, BlockAssumption
<1>4. ASSUME NEW k \in S PROVE k + 1 \in S
  <2>. SUFFICES ASSUME k + 1 <= LenBytes PROVE D!Weight[k + 1] \in Nat \ {0}
    OBVIOUS
  <2>1. k \in Nat /\ D!Weight[k] \in Nat \ {0}
    BY BlockAssumption
  <2>2. D!Weight[k + 1] = Base * D!Weight[k]
    BY <1>2, <2>1, BlockAssumption
  <2>. QED
    BY <2>1, <2>2, ByteAssumption
<1>5. S = Nat
  <2>. HIDE DEF S
  <2>1. S \subseteq Nat
    BY DEF S
  <2>. QED
    BY <1>3, <1>4, <2>1, Induction
<1>6. ASSUME NEW k \in 0..LenBytes PROVE D!Weight[k] \in Nat \ {0}
  <2>1. k \in S /\ k <= LenBytes
    BY <1>5, BlockAssumption
  <2>. QED
    BY <2>1
<1>. QED
  BY <1>2, <1>6

\* Shifting twice is dividing by the product.
LEMMA Quotient ==
  ASSUME NEW a \in Nat, NEW m \in Nat \ {0}, NEW b \in Nat \ {0}
  PROVE  (a \div m) \div b = a \div (b * m)
  OBVIOUS

\* Shifting the length right by one byte k times, as sha256_finalize does, is
\* dividing it by the weight of the digit.
LEMMA ShiftedIs ==
  ASSUME data_size \in Nat
  PROVE  \A k \in 0..LenBytes : shifted[k] = (8 * data_size) \div D!Weight[k]
<1>. DEFINE Shifted(f) ==
              f = [k \in 0..LenBytes |-> IF k = 0 THEN 8 * data_size ELSE f[k - 1] \div Base]
            g == [k \in 0..LenBytes |-> (8 * data_size) \div D!Weight[k]]
<1>1. PICK n \in Nat : n = 8 * data_size
  OBVIOUS
<1>2. \A k \in 0..LenBytes : g[k] = IF k = 0 THEN 8 * data_size ELSE g[k - 1] \div Base
  <2>. SUFFICES ASSUME NEW k \in 0..LenBytes
       PROVE  n \div D!Weight[k] = IF k = 0 THEN n ELSE g[k - 1] \div Base
    BY <1>1
  <2>1. CASE k = 0
    BY <2>1, WeightIs
  <2>2. CASE k # 0
    <3>1. k - 1 \in 0..LenBytes /\ k \in 0..LenBytes
      BY <2>2, BlockAssumption
    <3>2. PICK w \in Nat \ {0} : w = D!Weight[k - 1] /\ D!Weight[k] = Base * w
      BY <2>2, <3>1, WeightIs
    <3>3. (n \div w) \div Base = n \div (Base * w)
      BY <3>2, Quotient, ByteAssumption
    <3>. QED
      BY <1>1, <2>2, <3>1, <3>2, <3>3
  <2>. QED
    BY <2>1, <2>2
<1>3. Shifted(g)
  <2>1. g = [k \in 0..LenBytes |-> g[k]]
    OBVIOUS
  <2>. HIDE DEF g
  <2>. QED
    BY <1>2, <2>1
<1>4. shifted = CHOOSE f : Shifted(f)
  BY DEF shifted
<1>5. Shifted(shifted)
  <2>. HIDE DEF Shifted, g
  <2>. QED
    BY <1>3, <1>4, Zenon
<1>. DEFINE S == {k \in Nat : k <= LenBytes => shifted[k] = g[k]}
<1>6. \A k \in 0..LenBytes :
        shifted[k] = IF k = 0 THEN 8 * data_size ELSE shifted[k - 1] \div Base
  BY <1>5
<1>7. 0 \in S
  <2>1. 0 \in 0..LenBytes
    BY BlockAssumption
  <2>. HIDE DEF g
  <2>. QED
    BY <1>2, <1>6, <2>1
<1>8. ASSUME NEW k \in S PROVE k + 1 \in S
  <2>. SUFFICES ASSUME k + 1 <= LenBytes PROVE shifted[k + 1] = g[k + 1]
    OBVIOUS
  <2>1. k \in Nat /\ shifted[k] = g[k] /\ k + 1 \in 0..LenBytes /\ (k + 1) - 1 = k /\ k + 1 # 0
    BY BlockAssumption
  <2>. HIDE DEF g
  <2>. QED
    BY <1>2, <1>6, <2>1
<1>9. S = Nat
  <2>. HIDE DEF S
  <2>1. S \subseteq Nat
    BY DEF S
  <2>. QED
    BY <1>7, <1>8, <2>1, Induction
<1>10. ASSUME NEW k \in 0..LenBytes PROVE shifted[k] = g[k]
  <2>1. k \in Nat /\ k <= LenBytes
    BY BlockAssumption
  <2>2. k \in S
    <3>. HIDE DEF S
    <3>. QED
      BY <1>9, <2>1
  <2>. HIDE DEF g
  <2>. QED
    BY <2>1, <2>2
<1>. QED
  BY <1>10

-----------------------------------------------------------------------------
(***************************************************************************)
(* The padding                                                             *)
(***************************************************************************)

\* Facts about remainders, for any block.
LEMMA Remainder ==
  ASSUME NEW a \in Nat, NEW m \in Nat \ {0}, NEW q \in Nat, NEW r \in 0..(m - 1), a = m * q + r
  PROVE  a % m = r
  OBVIOUS

\* One more block.
LEMMA MoreBlocks ==
  ASSUME NEW a \in Nat, NEW m \in Nat \ {0}, a % m = 0
  PROVE  (a + m) % m = 0
<1>1. PICK q \in Nat : a = m * q
  OBVIOUS
<1>2. a + m = m * (q + 1) + 0 /\ a + m \in Nat /\ q + 1 \in Nat /\ 0 \in 0..(m - 1)
  BY <1>1
<1>. QED
  BY ONLY <1>2, Remainder

\* Between two multiples of m there is no other.
LEMMA NextMultiple ==
  ASSUME NEW m \in Nat \ {0}, NEW a \in Nat, NEW b \in Nat,
         a % m = 0, b % m = 0, a <= b, b < a + m
  PROVE  a = b
<1>1. PICK q \in Nat : a = m * q
  OBVIOUS
<1>2. PICK p \in Nat : b = m * p
  OBVIOUS
<1>. QED
  BY <1>1, <1>2

\* The number of zeros in the padding is the only one that fills the block.
LEMMA ZerosAre ==
  ASSUME NEW n \in Nat, NEW k \in 0..(Block - 1), (n + 1 + k + LenBytes) % Block = 0
  PROVE  D!Zeros(n) = k
<1>. USE BlockAssumption
<1>. DEFINE P(j) == (n + 1 + j + LenBytes) % Block = 0
<1>1. ASSUME NEW j \in 0..(Block - 1), P(j) PROVE j = k
  <2>1. PICK a \in Nat, b \in Nat : a = n + 1 + j + LenBytes /\ b = n + 1 + k + LenBytes
    OBVIOUS
  <2>2. Block \in Nat \ {0} /\ a % Block = 0 /\ b % Block = 0
    BY <1>1, <2>1
  <2>3. a < b + Block /\ b < a + Block
    BY <2>1
  <2>4. a = b
    <3>1. CASE a <= b
      BY ONLY <2>2, <2>3, <3>1, NextMultiple
    <3>2. CASE b <= a
      BY ONLY <2>2, <2>3, <3>2, NextMultiple
    <3>. QED
      BY <3>1, <3>2
  <2>. QED
    BY <2>1, <2>4
<1>2. D!Zeros(n) = CHOOSE j \in 0..(Block - 1) : P(j)
  BY DEF D!Zeros
<1>3. P(k)
  OBVIOUS
<1>. HIDE DEF P
<1>. QED
  BY <1>1, <1>2, <1>3

\* The byte that would be compressed i-th if last_chunk were next.
TailAt(i) == At(compressed, last_chunk, i)

\* Whole blocks are compressed; and once sha256_finalize has stored the mark,
\* the message is followed by the mark and then by zeros, to the end of
\* last_chunk.  When the length is due it has room, and in less than a block.
TailInv ==
  /\ Len(compressed) % Block = 0
  /\ step \in {"mark", "length"} =>
       /\ data_size < Len(compressed) + Block
       /\ TailAt(data_size + 1) = Mark
       /\ \A i \in data_size + 2 .. Len(compressed) + Block : TailAt(i) = 0
  /\ step = "length" => /\ data_size < Len(compressed) + LenAt
                      /\ Len(compressed) + LenAt <= data_size + Block

\* Nothing is compressed at the start.
LEMMA TailInit == ShaInit => TailInv
  BY EmptySeq, BlockAssumption DEF ShaInit, TailInv

\* FinalizeMark: the mark and the zeros go behind the message.
LEMMA MarkTail ==
  ASSUME BufferInv, TailInv, FinalizeMark
  PROVE  TailInv'
<1>. USE BlockAssumption DEF TailInv
<1>1. PICK n \in Nat : n = Len(compressed)
  BY Length DEF BufferInv, ShaTypeOK, FinalizeMark
<1>2. /\ chunk_size \in Nat /\ chunk_size < Block /\ data_size = n + chunk_size
      /\ UNCHANGED <<compressed, data_size>> /\ step' = "mark"
  BY <1>1, EmptySeq DEF BufferInv, ShaTypeOK, FillInv, AllBytes, FinalizeMark
<1>3. \A i \in 1..Block : last_chunk'[i] = IF i <= chunk_size THEN last_chunk[i]
                                          ELSE IF i = chunk_size + 1 THEN Mark ELSE 0
  BY DEF FinalizeMark
<1>4. ASSUME NEW i \in data_size + 1 .. n + Block
      PROVE  TailAt(i)' = IF i = data_size + 1 THEN Mark ELSE 0
  <2>1. i - n \in 1..Block /\ ~(i <= n) /\ ~(i - n <= chunk_size)
        /\ (i - n = chunk_size + 1 <=> i = data_size + 1)
    BY <1>2
  <2>2. TailAt(i)' = last_chunk'[i - n]
    BY <1>1, <1>2, <2>1 DEF TailAt, At
  <2>. QED
    BY <1>3, <2>1, <2>2
<1>. QED
  BY <1>1, <1>2, <1>4

\* FinalizeOverflow: the block with the mark is compressed, one of zeros follows.
LEMMA OverflowTail ==
  ASSUME BufferInv, BufferInv', TailInv, FinalizeOverflow
  PROVE  TailInv'
<1>. USE BlockAssumption DEF TailInv, LenAt
<1>1. PICK n \in Nat : n = Len(compressed)
  BY Length DEF BufferInv, ShaTypeOK, FinalizeOverflow
<1>2. /\ chunk_size \in 1..Block /\ data_size + 1 = n + chunk_size /\ data_size \in Nat
      /\ UNCHANGED <<data_size, chunk_size>> /\ step = "mark" /\ step' = "length"
  BY <1>1 DEF BufferInv, ShaTypeOK, FillInv, FinalizeOverflow
<1>3. CASE ~(chunk_size > LenAt)
  <2>1. UNCHANGED <<compressed, last_chunk>>
    BY <1>3 DEF FinalizeOverflow
  <2>. QED
    BY <1>1, <1>2, <1>3, <2>1 DEF TailAt
<1>4. CASE chunk_size > LenAt
  <2>1. compressed' = compressed \o last_chunk /\ last_chunk' = [i \in 1..Block |-> 0]
    BY <1>4 DEF FinalizeOverflow, Compress
  <2>2. compressed \in Seq(Int) /\ last_chunk \in Seq(Int) /\ Len(last_chunk) = Block
    BY <1>2, ArraySeq DEF BufferInv, ShaTypeOK
  <2>3. /\ Len(compressed') = n + Block
        /\ \A i \in 1..(n + Block) : compressed'[i] = TailAt(i)
    <3>1. /\ Len(compressed \o last_chunk) = Len(compressed) + Len(last_chunk)
          /\ \A i \in 1..Len(compressed) + Len(last_chunk) :
               (compressed \o last_chunk)[i]
                 = IF i <= Len(compressed) THEN compressed[i] ELSE last_chunk[i - Len(compressed)]
      BY ONLY <2>2, ConcatProperties
    <3>. QED
      BY <1>1, <2>1, <2>2, <3>1 DEF TailAt, At
  <2>4. ASSUME NEW i \in data_size + 1 .. n + Block + Block
        PROVE  TailAt(i)' = IF i = data_size + 1 THEN Mark ELSE 0
    <3>1. CASE i <= n + Block
      <4>1. TailAt(i)' = TailAt(i)
        BY <1>2, <2>3, <3>1 DEF TailAt, At
      <4>. QED
        BY <1>1, <1>2, <3>1, <4>1
    <3>2. CASE ~(i <= n + Block)
      <4>1. i - (n + Block) \in 1..Block /\ i # data_size + 1
        BY <1>2, <3>2
      <4>2. TailAt(i)' = last_chunk'[i - (n + Block)]
        BY <2>3, <3>2 DEF TailAt, At
      <4>. QED
        BY <2>1, <4>1, <4>2
    <3>. QED
      BY <3>1, <3>2
  <2>5. Len(compressed') % Block = 0
    <3>1. n % Block = 0 /\ Block \in Nat \ {0}
      BY <1>1
    <3>2. (n + Block) % Block = 0
      BY ONLY <3>1, MoreBlocks
    <3>. QED
      BY <2>3, <3>2
  <2>. QED
    BY <1>2, <1>4, <2>3, <2>4, <2>5
<1>. QED
  BY <1>3, <1>4

\* A digit of the length is a number.
LEMMA Digit ==
  ASSUME NEW n \in Nat, NEW w \in Nat \ {0}
  PROVE  ((8 * n) \div w) % Base \in Int
<1>1. PICK a \in Nat : a = 8 * n
  OBVIOUS
<1>2. PICK q \in Int : q = a \div w
  OBVIOUS
<1>. QED
  BY <1>1, <1>2, ByteAssumption

\* What sha256_finalize compresses last.
LEMMA LastBlock ==
  ASSUME BufferInv, FinalizeLength
  PROVE  /\ \E w \in Seq(Int) : w = WithLength
         /\ WithLength \in [1..Block -> Int] /\ Len(WithLength) = Block
         /\ \A i \in 1..LenAt : WithLength[i] = last_chunk[i]
         /\ \A i \in 1..LenBytes :
              WithLength[LenAt + i] = ((8 * data_size) \div D!Weight[LenBytes - i]) % Base
<1>. USE BlockAssumption, ByteAssumption DEF LenAt
<1>1. data_size \in Nat /\ last_chunk \in [1..Block -> Int]
  BY DEF BufferInv, FinalizeLength, ShaTypeOK
<1>2. ASSUME NEW i \in 1..LenBytes
      PROVE  WithLength[LenAt + i] = ((8 * data_size) \div D!Weight[LenBytes - i]) % Base
  <2>1. LenAt + i \in 1..Block /\ LenAt + i > LenAt /\ Block - (LenAt + i) = LenBytes - i
        /\ LenBytes - i \in 0..LenBytes
    OBVIOUS
  <2>2. WithLength[LenAt + i] = shifted[LenBytes - i] % Base
    BY <2>1 DEF WithLength
  <2>. QED
    BY <1>1, <2>1, <2>2, ShiftedIs
<1>3. \A i \in 1..LenAt : WithLength[i] = last_chunk[i]
  BY <1>1 DEF WithLength
<1>4. ASSUME NEW i \in 1..Block PROVE WithLength[i] \in Int
  <2>1. CASE i \in 1..LenAt
    BY <1>1, <1>3, <2>1
  <2>2. CASE ~(i \in 1..LenAt)
    <3>1. i - LenAt \in 1..LenBytes /\ LenAt + (i - LenAt) = i
      BY <2>2
    <3>2. PICK w \in Nat \ {0} : w = D!Weight[LenBytes - (i - LenAt)]
      <4>1. LenBytes - (i - LenAt) \in 0..LenBytes
        BY <3>1
      <4>. QED
        BY <4>1, WeightIs
    <3>3. ((8 * data_size) \div w) % Base \in Int
      BY <1>1, <3>2, Digit
    <3>. QED
      BY <1>2, <3>1, <3>2, <3>3
  <2>. QED
    BY <2>1, <2>2
<1>5. WithLength \in [1..Block -> Int]
  <2>1. WithLength = [i \in 1..Block |-> WithLength[i]]
    BY DEF WithLength
  <2>. QED
    BY ONLY <1>4, <2>1
<1>6. WithLength \in Seq(Int) /\ Len(WithLength) = Block
  BY <1>5, ArraySeq
<1>. QED
  BY <1>2, <1>3, <1>5, <1>6

\* The two generated parts of a padded message.
LEMMA ZeroSeq ==
  ASSUME NEW n \in Nat
  PROVE  [i \in 1..n |-> 0] \in Seq(Int) /\ Len([i \in 1..n |-> 0]) = n
<1>1. [i \in 1..n |-> 0] \in [1..n -> Int]
  OBVIOUS
<1>. QED
  BY <1>1, ArraySeq

\* The length field is a sequence of LenBytes numbers.
LEMMA FieldSeq ==
  ASSUME NEW n \in Nat
  PROVE  D!LengthField(n) \in Seq(Int) /\ Len(D!LengthField(n)) = LenBytes
<1>1. ASSUME NEW i \in 1..LenBytes PROVE ((8 * n) \div D!Weight[LenBytes - i]) % Base \in Int
  <2>1. LenBytes - i \in 0..LenBytes
    BY BlockAssumption
  <2>2. PICK w \in Nat \ {0} : w = D!Weight[LenBytes - i]
    BY <2>1, WeightIs
  <2>. QED
    BY <2>2, Digit
<1>2. D!LengthField(n) \in [1..LenBytes -> Int]
  BY <1>1 DEF D!LengthField
<1>. QED
  BY <1>2, ArraySeq, BlockAssumption

\* r is s, of length a, and then t, of length b.
Splits(r, s, t, a, b) ==
  /\ Len(r) = a + b
  /\ \A i \in 1..a : r[i] = s[i]
  /\ \A i \in 1..b : r[a + i] = t[i]

\* What \o does, at each place.
LEMMA TwoParts ==
  ASSUME NEW s \in Seq(Int), NEW t \in Seq(Int), NEW a \in Nat, NEW b \in Nat,
         Len(s) = a, Len(t) = b
  PROVE  s \o t \in Seq(Int) /\ Splits(s \o t, s, t, a, b)
<1>1. /\ s \o t \in Seq(Int) /\ Len(s \o t) = Len(s) + Len(t)
      /\ \A i \in 1..Len(s) + Len(t) : (s \o t)[i] = IF i <= Len(s) THEN s[i] ELSE t[i - Len(s)]
  BY ONLY ConcatProperties, s \in Seq(Int), t \in Seq(Int)
<1>2. PICK r \in Seq(Int) : r = s \o t
  BY ONLY <1>1
<1>3. Len(r) = a + b /\ \A i \in 1..a + b : r[i] = IF i <= a THEN s[i] ELSE t[i - a]
  BY ONLY <1>1, <1>2, Len(s) = a, Len(t) = b
<1>4. ASSUME NEW i \in 1..a PROVE r[i] = s[i]
  BY <1>3
<1>5. ASSUME NEW i \in 1..b PROVE r[a + i] = t[i]
  <2>1. a + i \in 1..a + b /\ ~(a + i <= a) /\ (a + i) - a = i
    OBVIOUS
  <2>. QED
    BY ONLY <1>3, <2>1
<1>. QED
  BY ONLY <1>2, <1>3, <1>4, <1>5 DEF Splits

\* Four sequences joined, as Padded joins them.
Chain(m, k, o, f) == ((m \o k) \o o) \o f

\* h is made of four parts, one after the other.
Splits4(h, m, k, o, f, a, b, c, d) ==
  /\ Len(h) = a + b + c + d
  /\ \A i \in 1..a : h[i] = m[i]
  /\ \A i \in 1..b : h[a + i] = k[i]
  /\ \A i \in 1..c : h[a + b + i] = o[i]
  /\ \A i \in 1..d : h[a + b + c + i] = f[i]

\* A sequence made of four parts is the four joined.
LEMMA FourParts ==
  ASSUME NEW m \in Seq(Int), NEW k \in Seq(Int), NEW o \in Seq(Int), NEW f \in Seq(Int),
         NEW h \in Seq(Int), NEW a \in Nat, NEW b \in Nat, NEW c \in Nat, NEW d \in Nat,
         Len(m) = a, Len(k) = b, Len(o) = c, Len(f) = d, Splits4(h, m, k, o, f, a, b, c, d)
  PROVE  h = Chain(m, k, o, f)
<1>0. /\ Len(h) = a + b + c + d
      /\ \A i \in 1..a : h[i] = m[i]
      /\ \A i \in 1..b : h[a + i] = k[i]
      /\ \A i \in 1..c : h[a + b + i] = o[i]
      /\ \A i \in 1..d : h[a + b + c + i] = f[i]
  BY DEF Splits4
<1>1. PICK p \in Seq(Int) : p = m \o k /\ Splits(p, m, k, a, b)
  BY ONLY TwoParts, Len(m) = a, Len(k) = b
<1>2. PICK q \in Seq(Int) : q = p \o o /\ Splits(q, p, o, a + b, c)
  <2>1. a + b \in Nat /\ Len(p) = a + b
    BY <1>1 DEF Splits
  <2>. QED
    BY ONLY TwoParts, <2>1, Len(o) = c
<1>3. PICK r \in Seq(Int) : r = q \o f /\ Splits(r, q, f, a + b + c, d)
  <2>1. a + b + c \in Nat /\ Len(q) = a + b + c
    BY <1>2 DEF Splits
  <2>. QED
    BY ONLY TwoParts, <2>1, Len(f) = d
<1>. USE DEF Splits
<1>4. ASSUME NEW i \in 1..(a + b + c + d) PROVE h[i] = r[i]
  <2>1. CASE i <= a
    <3>1. i \in 1..a /\ i \in 1..(a + b) /\ i \in 1..(a + b + c)
      BY <2>1
    <3>. QED
      BY <1>0, <1>1, <1>2, <1>3, <3>1
  <2>2. CASE a < i /\ i <= a + b
    <3>1. PICK j \in 1..b : i = a + j
      <4>1. i - a \in 1..b /\ i = a + (i - a)
        BY <2>2
      <4>. QED
        BY <4>1
    <3>2. i \in 1..(a + b) /\ i \in 1..(a + b + c)
      BY <2>2
    <3>. QED
      <4>1. r[i] = q[i] /\ q[i] = p[i]
        BY ONLY <1>2, <1>3, <3>2 DEF Splits
      <4>2. p[i] = k[j]
        BY ONLY <1>1, <3>1 DEF Splits
      <4>. QED
        BY <1>0, <3>1, <4>1, <4>2
  <2>3. CASE a + b < i /\ i <= a + b + c
    <3>1. PICK j \in 1..c : i = a + b + j
      <4>1. i - (a + b) \in 1..c /\ i = a + b + (i - (a + b))
        BY <2>3
      <4>. QED
        BY <4>1
    <3>2. i \in 1..(a + b + c)
      BY <2>3
    <3>. QED
      <4>1. r[i] = q[i]
        BY ONLY <1>3, <3>2 DEF Splits
      <4>2. q[i] = o[j]
        BY ONLY <1>2, <3>1 DEF Splits
      <4>. QED
        BY <1>0, <3>1, <4>1, <4>2
  <2>4. CASE a + b + c < i
    <3>1. i - (a + b + c) \in 1..d
      BY ONLY <2>4, i \in 1..(a + b + c + d), a \in Nat, b \in Nat, c \in Nat, d \in Nat
    <3>2. i = a + b + c + (i - (a + b + c))
      OBVIOUS
    <3>3. PICK j \in 1..d : i = a + b + c + j
      BY <3>1, <3>2
    <3>4. r[i] = f[j]
      BY ONLY <1>3, <3>3 DEF Splits
    <3>. QED
      BY <1>0, <3>3, <3>4
  <2>. QED
    BY <2>1, <2>2, <2>3, <2>4
<1>5. h = r
  <2>1. Len(h) = a + b + c + d /\ Len(r) = a + b + c + d
    BY <1>0, <1>3
  <2>. QED
    BY ONLY <1>4, <2>1, SeqEqual
<1>. QED
  BY <1>1, <1>2, <1>3, <1>5 DEF Chain

\* The blocks compressed in the end are the message, padded.
LEMMA LengthDigest ==
  ASSUME BufferInv, TailInv, FinalizeLength
  PROVE  /\ compressed' \in Seq(Int) /\ Len(compressed') = Len(compressed) + Block
         /\ compressed' = D!Padded(given)
<1>. USE BlockAssumption, ByteAssumption DEF TailInv
<1>1. PICK n \in Nat : n = Len(compressed)
  BY Length DEF BufferInv, ShaTypeOK, FinalizeLength
<1>2. /\ compressed \in Seq(Int) /\ bytes \in Seq(Int)
      /\ chunk_size \in Nat /\ chunk_size <= Block /\ data_size \in Nat
      /\ last_chunk \in [1..Block -> Int] /\ data_size < n + chunk_size
      /\ data_size < n + LenAt /\ n + LenAt <= data_size + Block
  BY <1>1, ByteSeqInt DEF BufferInv, ShaTypeOK, FillInv, FinalizeLength
<1>3. PICK w \in Seq(Int) : w = WithLength
  BY LastBlock
<1>4. compressed' = compressed \o w
  BY <1>3 DEF FinalizeLength, Compress
<1>5. compressed' \in Seq(Int) /\ Len(compressed') = n + Block
      /\ \A i \in 1..(n + Block) : compressed'[i] = IF i <= n THEN compressed[i] ELSE w[i - n]
  <2>1. /\ compressed \o w \in Seq(Int) /\ Len(compressed \o w) = Len(compressed) + Len(w)
        /\ \A i \in 1..Len(compressed) + Len(w) :
             (compressed \o w)[i] = IF i <= Len(compressed) THEN compressed[i] ELSE w[i - Len(compressed)]
    BY ONLY <1>2, <1>3, ConcatProperties
  <2>2. Len(w) = Block
    BY <1>3, LastBlock
  <2>. QED
    BY <1>1, <1>4, <2>1, <2>2
<1>6. ASSUME NEW i \in 1..(n + LenAt) PROVE compressed'[i] = TailAt(i)
  <2>1. i \in 1..(n + Block) /\ (~(i <= n) => i - n \in 1..LenAt)
    BY DEF LenAt
  <2>. QED
    BY <1>1, <1>3, <1>5, <2>1, LastBlock DEF TailAt, At
<1>7. /\ given \in Seq(Int) /\ Len(given) = data_size
      /\ \A i \in 1..data_size : given[i] = TailAt(i)
  <2>1. \A i \in 1..chunk_size : last_chunk[i] \in Int
    BY <1>2
  <2>2. LaidOut(Int, compressed, last_chunk, chunk_size, bytes)
    BY <1>2, <2>1, Layout
  <2>3. PICK s \in Seq(Int) :
          /\ s = Laid(compressed, last_chunk, chunk_size, bytes)
          /\ Len(s) = Len(compressed) + chunk_size + Len(bytes)
          /\ \A i \in 1..(Len(compressed) + chunk_size) : s[i] = At(compressed, last_chunk, i)
    BY ONLY <2>2 DEF LaidOut
  <2>4. given = SubSeq(s, 1, data_size)
    BY <2>3 DEF given, Partial, Laid
  <2>5. \A i \in 1..data_size : i \in 1..(n + chunk_size)
    BY <1>2
  <2>6. \A i \in 1..data_size : s[i] = TailAt(i)
    BY <1>1, <2>3, <2>5 DEF TailAt
  <2>7. \A i \in 1..data_size : s[i] \in Int
    <3>1. Len(bytes) \in Nat
      BY <1>2, Length
    <3>2. \A i \in 1..data_size : i \in 1..Len(s)
      BY <1>1, <1>2, <2>3, <3>1
    <3>. QED
      BY <2>3, <3>2, ElementOfSeq
  <2>8. /\ SubSeq(s, 1, data_size) \in Seq(Int) /\ Len(SubSeq(s, 1, data_size)) = data_size
        /\ \A i \in 1..data_size : SubSeq(s, 1, data_size)[i] = s[i]
    BY <1>2, <2>7, Prefix
  <2>. QED
    BY <2>4, <2>6, <2>8
<1>. DEFINE z == n + LenAt - (data_size + 1)
<1>8. /\ z \in 0..(Block - 1) /\ data_size + 1 + z = n + LenAt
      /\ data_size + 1 + z + LenBytes = n + Block
  BY <1>2 DEF LenAt
<1>9. D!Zeros(data_size) = z
  <2>1. n % Block = 0 /\ Block \in Nat \ {0}
    BY <1>1
  <2>2. (n + Block) % Block = 0
    BY ONLY <2>1, MoreBlocks
  <2>3. (data_size + 1 + z + LenBytes) % Block = 0
    BY <1>8, <2>2
  <2>. HIDE DEF z
  <2>. QED
    BY <1>2, <1>8, <2>3, ZerosAre
<1>. HIDE DEF z
<1>10. PICK m \in Seq(Int) : m = given
  BY <1>7
<1>11. PICK k \in Seq(Int) : k = <<128>>
  <2>1. <<128>> \in Seq(Int)
    OBVIOUS
  <2>. QED
    BY <2>1
<1>12. PICK o \in Seq(Int) : o = [i \in 1..z |-> 0]
  <2>1. z \in Nat
    BY <1>8
  <2>. QED
    BY <2>1, ZeroSeq
<1>13. PICK f \in Seq(Int) : f = D!LengthField(data_size)
  BY <1>2, FieldSeq
<1>14. Len(m) = data_size /\ Len(k) = 1 /\ Len(o) = z /\ Len(f) = LenBytes
  <2>1. Len(f) = LenBytes
    BY <1>13, FieldSeq, <1>2
  <2>2. Len(o) = z
    BY <1>8, <1>12, ZeroSeq
  <2>3. Len(k) = 1
    BY <1>11
  <2>. QED
    BY <1>7, <1>10, <2>1, <2>2, <2>3
<1>15. D!Padded(given) = Chain(m, k, o, f)
  BY <1>7, <1>9, <1>10, <1>11, <1>12, <1>13 DEF D!Padded, Chain
<1>16. PICK h \in Seq(Int) : h = compressed'
  BY <1>5
<1>17. PICK d \in Nat : d = data_size
  BY <1>2
<1>18. z \in Nat /\ d + 1 + z = n + LenAt /\ d + 1 + z + LenBytes = n + Block
       /\ LenAt + LenBytes = Block /\ LenAt \in Nat
  BY <1>8, <1>17 DEF LenAt
<1>19. \A i \in 1..d : h[i] = m[i]
  <2>1. \A i \in 1..d : i \in 1..(n + LenAt)
    BY <1>18
  <2>. QED
    BY <1>6, <1>7, <1>10, <1>16, <1>17, <2>1
<1>20. h[d + 1] = Mark
  <2>1. d + 1 \in 1..(n + LenAt)
    BY <1>18
  <2>. QED
    BY <1>6, <1>16, <1>17, <2>1 DEF FinalizeLength
<1>21. ASSUME NEW i \in 1..z PROVE h[d + 1 + i] = 0
  <2>1. d + 1 + i \in 1..(n + LenAt) /\ d + 1 + i \in d + 2 .. n + Block
    BY <1>18
  <2>2. TailAt(d + 1 + i) = 0
    BY <1>1, <1>17, <2>1 DEF FinalizeLength
  <2>. QED
    BY <1>6, <1>16, <2>1, <2>2
<1>22. ASSUME NEW i \in 1..LenBytes PROVE h[d + 1 + z + i] = f[i]
  <2>1. d + 1 + z + i \in 1..(n + Block) /\ ~(d + 1 + z + i <= n)
        /\ (d + 1 + z + i) - n = LenAt + i
    BY <1>18
  <2>2. h[d + 1 + z + i] = w[LenAt + i]
    BY <1>5, <1>16, <2>1
  <2>3. w[LenAt + i] = ((8 * data_size) \div D!Weight[LenBytes - i]) % Base
    BY <1>3, LastBlock
  <2>4. f[i] = ((8 * data_size) \div D!Weight[LenBytes - i]) % Base
    BY <1>13 DEF D!LengthField
  <2>. QED
    BY ONLY <2>2, <2>3, <2>4
<1>23. h = Chain(m, k, o, f)
  <2>1. Len(h) = d + 1 + z + LenBytes
    BY <1>5, <1>16, <1>18
  <2>2. \A i \in 1..1 : h[d + i] = k[i]
    BY <1>11, <1>20 DEF Mark
  <2>3. \A i \in 1..z : h[d + 1 + i] = o[i]
    BY <1>12, <1>21
  <2>4. LenBytes \in Nat /\ 1 \in Nat /\ z \in Nat
    BY <1>18
  <2>5. PICK b \in Nat, c \in Nat, e \in Nat : b = 1 /\ c = z /\ e = LenBytes
    BY <2>4
  <2>6. Splits4(h, m, k, o, f, d, b, c, e)
    BY ONLY <1>19, <1>22, <2>1, <2>2, <2>3, <2>5 DEF Splits4
  <2>7. Len(m) = d /\ Len(k) = b /\ Len(o) = c /\ Len(f) = e
    BY <1>14, <1>17, <2>5
  <2>. QED
    BY ONLY <2>6, <2>7, FourParts
<1>. QED
  BY <1>1, <1>5, <1>15, <1>16, <1>23

\* Every step keeps the shape of the padding.
LEMMA TailStep ==
  ASSUME BufferInv, BufferInv', TailInv, ShaNext
  PROVE  TailInv'
<1>. USE BlockAssumption
<1>1. ASSUME UNCHANGED compressed, step' \notin {"mark", "length"} PROVE TailInv'
  BY <1>1 DEF TailInv
<1>2. ASSUME compressed' \in Seq(Int), Len(compressed') = Len(compressed) + Block, step # "final",
             step' \notin {"mark", "length"}
      PROVE  TailInv'
  <2>1. PICK n \in Nat : n = Len(compressed)
    BY <1>2, Length DEF BufferInv, ShaTypeOK
  <2>2. n % Block = 0 /\ Block \in Nat \ {0}
    BY <2>1 DEF TailInv
  <2>3. (n + Block) % Block = 0
    BY ONLY <2>2, <2>1, MoreBlocks
  <2>. QED
    BY <1>2, <2>1, <2>3 DEF TailInv
<1>3. ASSUME NEW arg \in Arguments, UpdateStart(arg) PROVE TailInv'
  BY <1>1, <1>3 DEF UpdateStart
<1>4. CASE UpdateFill
  <2>1. CASE ~(Len(bytes) + chunk_size >= Block)
    BY <1>1, <1>4, <2>1 DEF UpdateFill
  <2>2. CASE Len(bytes) + chunk_size >= Block
    <3>1. /\ bytes \in Seq(Byte) /\ Len(bytes) \in Nat /\ chunk_size \in Nat /\ chunk_size < Block
          /\ Len(compressed) + chunk_size + Len(bytes) = data_size
          /\ Len(compressed') + chunk_size' + Len(bytes') = data_size'
          /\ Len(compressed) \in Nat /\ Len(compressed') \in Nat /\ compressed' \in Seq(Int)
      BY <1>4, Length DEF BufferInv, ShaTypeOK, FillInv, AllBytes, UpdateFill
    <3>2. /\ chunk_size' = 0 /\ data_size' = data_size /\ bytes' = Left(Block - chunk_size)
          /\ step # "final" /\ step' = "blocks"
      BY <1>4, <2>2 DEF UpdateFill
    <3>3. Block - chunk_size \in 0..Len(bytes)
      BY <2>2, <3>1
    <3>4. Len(bytes') = Len(bytes) - (Block - chunk_size)
      BY <3>1, <3>2, <3>3, Cut
    <3>5. Len(compressed') = Len(compressed) + Block
      BY <3>1, <3>2, <3>4
    <3>. QED
      BY <1>2, <3>1, <3>2, <3>5
  <2>. QED
    BY <2>1, <2>2
<1>5. CASE UpdateBlock
  <2>1. /\ bytes \in Seq(Byte) /\ Len(bytes) \in Nat /\ chunk_size \in Nat
        /\ Len(compressed) + chunk_size + Len(bytes) = data_size
        /\ Len(compressed') + chunk_size' + Len(bytes') = data_size'
        /\ Len(compressed) \in Nat /\ Len(compressed') \in Nat /\ compressed' \in Seq(Int)
    BY <1>5, Length DEF BufferInv, ShaTypeOK, AllBytes, UpdateBlock
  <2>2. /\ chunk_size' = chunk_size /\ data_size' = data_size /\ bytes' = Left(Block)
        /\ step = "blocks" /\ step' = "blocks" /\ Len(bytes) >= Block
    BY <1>5 DEF UpdateBlock, buffer
  <2>3. Block \in 0..Len(bytes)
    BY <2>1, <2>2
  <2>4. Len(bytes') = Len(bytes) - Block
    BY <2>1, <2>2, <2>3, Cut
  <2>5. Len(compressed') = Len(compressed) + Block
    BY <2>1, <2>2, <2>4
  <2>. QED
    BY <1>2, <2>1, <2>2, <2>5
<1>6. CASE UpdateRest
  BY <1>1, <1>6 DEF UpdateRest
<1>7. CASE FinalizeMark
  BY <1>7, MarkTail
<1>8. CASE FinalizeOverflow
  BY <1>8, OverflowTail
<1>9. CASE FinalizeLength
  <2>1. compressed' \in Seq(Int) /\ Len(compressed') = Len(compressed) + Block
    BY <1>9, LengthDigest
  <2>. QED
    BY <1>2, <1>9, <2>1 DEF FinalizeLength
<1>. QED
  BY <1>3, <1>4, <1>5, <1>6, <1>7, <1>8, <1>9 DEF ShaNext, Update, Finalize

\* Every step stays in the types, the last one included.
LEMMA TypeStep ==
  ASSUME BufferInv, BufferInv', TailInv, ShaTypeOK, ShaNext
  PROVE  ShaTypeOK'
<1>1. CASE step' # "final"
  BY <1>1 DEF BufferInv
<1>2. CASE step' = "final"
  <2>1. FinalizeLength
    BY <1>2 DEF ShaNext, Update, Finalize, UpdateStart, UpdateFill, UpdateBlock, UpdateRest,
       FinalizeMark, FinalizeOverflow
  <2>2. compressed' \in Seq(Int)
    BY <2>1, LengthDigest
  <2>3. last_chunk' \in [1..Block -> Int]
    BY <2>1, LastBlock DEF FinalizeLength
  <2>. QED
    BY <2>1, <2>2, <2>3 DEF FinalizeLength, ShaTypeOK
<1>. QED
  BY <1>1, <1>2

\* The whole inductive invariant.
Sha256Inv == BufferInv /\ TailInv /\ ShaTypeOK

\* An update gives bytes: the message is extended.
LEMMA GiveStep ==
  ASSUME BufferInv, BufferInv', NEW arg \in Arguments, UpdateStart(arg)
  PROVE  D!Give
<1>1. given' = given \o arg
  BY StartMessage
<1>2. PICK m \in Seq(Byte) : m = given
  <2>1. compressed \in Seq(Byte) /\ Partial \in Seq(Byte) /\ bytes \in Seq(Byte)
        /\ given = (compressed \o Partial) \o bytes
    BY MessageIs DEF UpdateStart, Updating
  <2>2. compressed \o Partial \in Seq(Byte)
    BY ONLY <2>1, Joined
  <2>3. (compressed \o Partial) \o bytes \in Seq(Byte)
    BY ONLY <2>1, <2>2, Joined
  <2>. QED
    BY <2>1, <2>3
<1>3. arg \in Seq(Byte)
  <2>1. PICK n \in 0..(MaxMessage - data_size) : arg \in [1..n -> Byte]
    BY DEF Arguments
  <2>. QED
    BY <2>1, ArraySeq
<1>4. m \o arg \in Seq(Byte) /\ SubSeq(m \o arg, 1, Len(m)) = m
  <2>1. /\ m \o arg \in Seq(Byte) /\ Len(m \o arg) = Len(m) + Len(arg)
        /\ \A i \in 1..Len(m) + Len(arg) :
             (m \o arg)[i] = IF i <= Len(m) THEN m[i] ELSE arg[i - Len(m)]
    BY ONLY <1>2, <1>3, ConcatProperties
  <2>2. PICK r \in Seq(Byte) : r = m \o arg
    BY <2>1
  <2>3. Len(m) \in Nat /\ Len(arg) \in Nat
    BY <1>3, Length
  <2>4. \A i \in 1..Len(m) : r[i] = m[i] /\ m[i] \in Byte
    <3>. SUFFICES ASSUME NEW i \in 1..Len(m) PROVE r[i] = m[i] /\ m[i] \in Byte
      OBVIOUS
    <3>1. i \in 1..Len(m) + Len(arg) /\ i <= Len(m)
      BY <2>3
    <3>. QED
      BY <2>1, <2>2, <3>1, ElementOfSeq
  <2>5. /\ SubSeq(r, 1, Len(m)) \in Seq(Byte) /\ Len(SubSeq(r, 1, Len(m))) = Len(m)
        /\ \A i \in 1..Len(m) : SubSeq(r, 1, Len(m))[i] = r[i]
    BY <2>3, <2>4, Prefix
  <2>6. SubSeq(r, 1, Len(m)) = m
    BY <2>4, <2>5, SeqEqual
  <2>. QED
    BY <2>1, <2>2, <2>6
<1>5. digest = <<>> /\ UNCHANGED digest
  BY DEF UpdateStart, digest
<1>6. given' \in Seq(Byte) /\ SubSeq(given', 1, Len(given)) = given
  BY ONLY <1>1, <1>2, <1>4
<1>. QED
  BY <1>5, <1>6 DEF D!Give

\* Storing and compressing the length finishes the digest.
LEMMA FinishStep ==
  ASSUME Sha256Inv, FinalizeLength
  PROVE  D!Finish
<1>1. compressed' = D!Padded(given)
  BY LengthDigest DEF Sha256Inv
<1>2. digest = <<>> /\ digest' = compressed'
  BY DEF FinalizeLength, digest
<1>3. given' = given
  BY LengthMessage DEF Sha256Inv
<1>. QED
  BY <1>1, <1>2, <1>3 DEF D!Finish

\* Every other step only moves bytes about.
LEMMA MoveStep ==
  ASSUME Sha256Inv, Sha256Inv',
         UpdateFill \/ UpdateBlock \/ UpdateRest \/ FinalizeMark \/ FinalizeOverflow
  PROVE  UNCHANGED <<given, digest>>
<1>1. given' = given
  BY FillMessage, BlockMessage, RestMessage, MarkMessage, OverflowMessage DEF Sha256Inv
<1>2. step # "final" /\ step' # "final"
  BY DEF UpdateFill, UpdateBlock, UpdateRest, FinalizeMark, FinalizeOverflow
<1>. QED
  BY <1>1, <1>2 DEF digest

-----------------------------------------------------------------------------
(***************************************************************************)
(* Theorems                                                                *)
(***************************************************************************)

\* Before the digest is there, the buffer invariant holds of every block
\* size, whatever sha256_update and sha256_finalize are given.
THEOREM BufferInvariant == ShaSpec => []BufferInv
<1>. QED
  BY BufferInit, BufferStep, PTL DEF ShaSpec

\* sha256_finalize stores the mark inside last_chunk.
THEOREM RoomForMarkCorrect == ShaSpec => []RoomForMark
<1>1. BufferInv => RoomForMark
  BY DEF BufferInv, FillInv, RoomForMark
<1>. QED
  BY <1>1, BufferInvariant, PTL

\* sha256_update neither loses a byte nor compresses one twice.
THEOREM AllBytesCorrect == ShaSpec => []AllBytes
<1>1. BufferInv => AllBytes
  BY DEF BufferInv, AllBytes
<1>. QED
  BY <1>1, BufferInvariant, PTL

\* Every call of sha256_update appends its argument to the message, in place
\* and in order, and nothing sha256_finalize stores overwrites any of it.
THEOREM MessageKept == ShaSpec => [][MessageStep]_shaVars
<1>1. BufferInv /\ BufferInv' /\ [ShaNext \/ ShaDone]_shaVars => [MessageStep]_shaVars
  <2>. SUFFICES ASSUME BufferInv, BufferInv', ShaNext PROVE MessageStep
    BY DEF ShaDone
  <2>1. ASSUME NEW arg \in Arguments, UpdateStart(arg) PROVE MessageStep
    BY <2>1, StartMessage DEF MessageStep
  <2>2. CASE UpdateFill
    BY <2>2, FillMessage DEF MessageStep
  <2>3. CASE UpdateBlock
    BY <2>3, BlockMessage DEF MessageStep
  <2>4. CASE UpdateRest
    BY <2>4, RestMessage DEF MessageStep
  <2>5. CASE FinalizeMark
    BY <2>5, MarkMessage DEF MessageStep
  <2>6. CASE FinalizeOverflow
    BY <2>6, OverflowMessage DEF MessageStep
  <2>7. CASE FinalizeLength
    BY <2>7, LengthMessage DEF MessageStep
  <2>. QED
    BY <2>1, <2>2, <2>3, <2>4, <2>5, <2>6, <2>7 DEF ShaNext, Update, Finalize
<1>. QED
  BY <1>1, BufferInvariant, PTL DEF ShaSpec

\* For any size of a block and any updates the partial block has room for the
\* mark and misses no byte.
THEOREM BufferOKCorrect == ShaSpec => []BufferOK
<1>. QED
  BY RoomForMarkCorrect, AllBytesCorrect, PTL DEF BufferOK

\* The buffer, the padding and the types, in every reachable state.
THEOREM Sha256Invariant == ShaSpec => []Sha256Inv
<1>1. ShaInit => Sha256Inv
  BY BufferInit, TailInit DEF Sha256Inv, BufferInv, ShaInit
<1>2. Sha256Inv /\ [ShaNext \/ ShaDone]_shaVars => Sha256Inv'
  <2>. SUFFICES ASSUME Sha256Inv, [ShaNext \/ ShaDone]_shaVars PROVE Sha256Inv'
    OBVIOUS
  <2>1. BufferInv'
    BY BufferStep DEF Sha256Inv
  <2>2. CASE ShaNext
    BY <2>1, <2>2, TailStep, TypeStep DEF Sha256Inv
  <2>3. CASE UNCHANGED shaVars
    <3>1. UNCHANGED <<compressed, data_size, last_chunk, chunk_size, bytes, step>>
      BY <2>3 DEF shaVars, buffer
    <3>2. TailInv'
      BY <3>1 DEF Sha256Inv, TailInv, TailAt, At, LenAt, Mark
    <3>3. ShaTypeOK'
      BY <3>1 DEF Sha256Inv, ShaTypeOK
    <3>. QED
      BY <2>1, <3>2, <3>3 DEF Sha256Inv
  <2>. QED
    BY <2>2, <2>3 DEF ShaDone
<1>. QED
  BY <1>1, <1>2, PTL DEF ShaSpec

\* TypeOK, the digest included: whatever is compressed is a sequence of
\* numbers and last_chunk stays an array of Block of them.
THEOREM TypeCorrect == ShaSpec => []ShaTypeOK
<1>. QED
  BY Sha256Invariant, PTL DEF Sha256Inv

\* However a message is cut into updates, and wherever it ends in a block,
\* what is compressed is the message, padded with the mark, the fewest zeros
\* and the length: sha256.c hashes what it was given.
THEOREM Implements == ShaSpec => ImplementsDigest
<1>1. ShaInit => D!DigestInit
  <2>. SUFFICES ASSUME ShaInit PROVE given = <<>> /\ digest = <<>>
    BY DEF D!DigestInit
  <2>1. digest = <<>>
    BY DEF ShaInit, digest
  <2>2. given = <<>>
    <3>1. data_size = 0
      BY DEF ShaInit
    <3>2. SubSeq((compressed \o Partial) \o bytes, 1, 0) = <<>>
      BY SubSeqEmpty
    <3>. QED
      BY <3>1, <3>2 DEF given
  <2>. QED
    BY <2>1, <2>2
<1>2. Sha256Inv /\ Sha256Inv' /\ [ShaNext \/ ShaDone]_shaVars => [D!DigestNext]_<<given, digest>>
  <2>. SUFFICES ASSUME Sha256Inv, Sha256Inv', [ShaNext \/ ShaDone]_shaVars
                PROVE  D!DigestNext \/ UNCHANGED <<given, digest>>
    OBVIOUS
  <2>1. ASSUME NEW arg \in Arguments, UpdateStart(arg) PROVE D!DigestNext
    BY <2>1, GiveStep DEF Sha256Inv, D!DigestNext
  <2>2. CASE FinalizeLength
    BY <2>2, FinishStep DEF D!DigestNext
  <2>3. CASE UpdateFill \/ UpdateBlock \/ UpdateRest \/ FinalizeMark \/ FinalizeOverflow
    BY <2>3, MoveStep
  <2>4. CASE UNCHANGED shaVars
    BY <2>4 DEF shaVars, buffer, given, digest, Partial
  <2>. QED
    BY <2>1, <2>2, <2>3, <2>4 DEF ShaNext, Update, Finalize, ShaDone
<1>. QED
  BY <1>1, <1>2, Sha256Invariant, PTL DEF ShaSpec, ImplementsDigest, D!DigestSpec
=============================================================================
