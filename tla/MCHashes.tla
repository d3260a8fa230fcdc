------------------------------ MODULE MCHashes ------------------------------
(***************************************************************************)
(* From the bytes of a chunk to the answer of a query: instances of        *)
(* MerkleTree with TreeQuery, of Sha256 and of Sha256Rounds for TLC.  The  *)
(* three share no variable.  A behaviour is of one part of them; the       *)
(* others rest in one initial state.                                       *)
(*                                                                         *)
(* The tree: one chunk (no inner node), perfect trees of two and three     *)
(* levels, and a number of chunks that is not a power of two.              *)
(*                                                                         *)
(* The buffer: blocks of four bytes, two of them for the length, digits in *)
(* base 16; the bytes of the messages are those the padding is made of.    *)
(*                                                                         *)
(* The rounds: the hashes of the repository's test package                 *)
(* tests/binary2.bpkg, four chunks of the eight characters of              *)
(* tests/binary2.dat each, one block padded, and the three inner nodes,    *)
(* hashes of two hashes in hex, three blocks padded.                       *)
(***************************************************************************)
EXTENDS TreeQuery, Sha256, Sha256Rounds

VARIABLE part

ChunkCounts == {1, 2, 3, 4}
Contents == {"x", "y"}

Bytes == {0, Mark}

root ==
  <<10, 5, 13, 15, 15, 7, 11, 12, 12, 11, 14, 1, 9, 8, 0, 4,
    1, 5, 4, 15, 7, 7, 0, 9, 2, 14, 10, 14, 10, 15, 2, 8,
    2, 7, 8, 7, 0, 14, 10, 15, 15, 7, 15, 3, 9, 7, 9, 2,
    7, 14, 9, 12, 7, 11, 2, 10, 10, 4, 5, 11, 5, 0, 1, 5>>
upper ==
  <<2, 8, 2, 3, 3, 0, 7, 3, 6, 12, 13, 7, 1, 4, 2, 11,
    7, 1, 15, 9, 4, 8, 13, 4, 5, 9, 8, 4, 8, 11, 9, 14,
    5, 0, 14, 9, 5, 3, 13, 7, 0, 8, 7, 4, 1, 10, 9, 3,
    10, 5, 13, 10, 14, 13, 2, 5, 10, 2, 0, 8, 10, 5, 4, 3>>
lower ==
  <<5, 2, 9, 14, 10, 4, 0, 9, 1, 9, 7, 5, 0, 10, 13, 5,
    7, 5, 9, 11, 8, 0, 1, 4, 13, 6, 8, 9, 4, 12, 0, 1,
    12, 3, 8, 2, 0, 7, 6, 13, 11, 12, 4, 0, 15, 15, 1, 5,
    10, 15, 9, 9, 2, 8, 6, 4, 3, 6, 12, 6, 10, 12, 14, 4>>
c1 ==
  <<4, 6, 11, 2, 4, 13, 14, 11, 0, 13, 7, 1, 14, 12, 12, 0,
    9, 1, 7, 11, 7, 1, 5, 6, 6, 5, 12, 1, 0, 15, 3, 4,
    5, 11, 1, 13, 7, 13, 4, 15, 9, 3, 13, 3, 1, 1, 12, 14,
    3, 2, 4, 12, 8, 10, 0, 9, 11, 12, 3, 13, 12, 5, 9, 1>>
c2 ==
  <<14, 3, 4, 0, 12, 1, 7, 4, 4, 11, 3, 5, 7, 0, 10, 10,
    5, 8, 12, 6, 1, 1, 2, 13, 6, 4, 7, 4, 8, 1, 11, 15,
    14, 5, 0, 1, 11, 10, 4, 12, 5, 12, 15, 10, 14, 5, 3, 10,
    8, 13, 9, 0, 9, 6, 11, 12, 3, 4, 15, 10, 0, 0, 7, 3>>
c3 ==
  <<0, 10, 9, 5, 2, 15, 15, 4, 5, 15, 12, 13, 14, 9, 3, 9,
    12, 12, 15, 10, 7, 15, 5, 12, 2, 12, 12, 0, 4, 5, 7, 12,
    3, 9, 10, 9, 1, 10, 1, 12, 10, 14, 1, 3, 2, 5, 8, 7,
    9, 1, 11, 6, 10, 13, 11, 11, 9, 6, 10, 12, 8, 2, 10, 5>>
c4 ==
  <<1, 11, 1, 0, 3, 10, 1, 15, 14, 1, 4, 8, 3, 10, 15, 14,
    4, 4, 3, 7, 7, 13, 14, 10, 4, 0, 9, 5, 7, 3, 4, 8,
    11, 10, 3, 2, 6, 2, 2, 11, 7, 1, 1, 12, 12, 10, 8, 11,
    3, 4, 9, 4, 4, 8, 3, 14, 9, 3, 6, 13, 15, 15, 12, 14>>

\* The characters 0 and 1 of the chunks in tests/binary2.dat.
data1 == <<48, 49, 48, 49, 48, 49, 49, 49>>
data2 == <<49, 49, 49, 49, 48, 49, 49, 48>>
data3 == <<48, 48, 48, 49, 48, 49, 48, 48>>
data4 == <<48, 49, 48, 49, 48, 49, 48, 48>>

\* The characters of a hash in hex.
Chars(h) == [j \in 1..64 |-> IF h[j] < 10 THEN 48 + h[j] ELSE 87 + h[j]]

\* A message that is shorter than 8191 bytes, padded.
Fill(n) == CHOOSE z \in 0..63 : (n + 9 + z) % 64 = 0
PaddedText(m) == m \o <<128>> \o [j \in 1..(Fill(Len(m)) + 6) |-> 0]
                   \o <<(8 * Len(m)) \div 256, (8 * Len(m)) % 256>>
Blocks(m) == [j \in 1..(Len(m) \div 64) |-> SubSeq(m, 64 * j - 63, 64 * j)]

Vector == <<
  <<data1, c1>>, <<data2, c2>>, <<data3, c3>>, <<data4, c4>>,
  <<Chars(c1) \o Chars(c2), upper>>, <<Chars(c3) \o Chars(c4), lower>>,
  <<Chars(upper) \o Chars(lower), root>>>>

Message(n) == Blocks(PaddedText(Vector[n][1]))
MCVectors == {Message(n) : n \in 1..7}
MCKnown == [m \in MCVectors |-> Vector[CHOOSE n \in 1..7 : Message(n) = m][2]]

-----------------------------------------------------------------------------

\* The states in which the tree and the rounds rest.
TreeRests == chunks = <<HashOf("x")>> /\ hashes = <<>> /\ data = <<"x">>
RoundsRest == message = Message(1)

MCInit ==
  /\ part \in {"tree", "buffer", "rounds"}
  /\ QueryInit /\ (part = "tree" \/ TreeRests)
  /\ ShaInit
  /\ RoundsInit /\ (part = "rounds" \/ RoundsRest)

MCNext ==
  /\ UNCHANGED part
  /\ \/ part = "tree" /\ QueryNext /\ UNCHANGED <<shaVars, roundVars>>
     \/ part = "buffer" /\ (ShaNext \/ ShaDone) /\ UNCHANGED <<allVars, roundVars>>
     \/ part = "rounds" /\ (RoundsNext \/ RoundsDone) /\ UNCHANGED <<allVars, shaVars>>

MCSpec == MCInit /\ [][MCNext]_<<part, allVars, shaVars, roundVars>>
=============================================================================
