--------------------------- MODULE PkgMainProofs ---------------------------
(***************************************************************************)
(* Proofs about PkgMain and the PkgLoad in it, for any set of well-formed  *)
(* packages, of any number of hashes and chunks, and every file that can   *)
(* be made of one of them by adding a line, cutting it off or taking one   *)
(* line out.                                                               *)
(*                                                                         *)
(* What is read is always a suffix of the file; LoadInv says of each field *)
(* what it holds before and after its line.  WrittenInv and LostInv add,   *)
(* for a file as it was written and for one that lost a line, at which     *)
(* place the suffix begins: the lines read so far are the rounds of the    *)
(* outer loop, the hashes and the chunks.  MainInv is what main has done   *)
(* with the object since.                                                  *)
(***************************************************************************)
EXTENDS PkgMain, SequenceTheorems, TLAPS

-----------------------------------------------------------------------------
(***************************************************************************)
(* The inductive invariants                                                *)
(***************************************************************************)

\* The first k lines have been read.
Read(k) == rest = SubSeq(file, k + 1, Len(file))

\* The lines that a package is written as.
LinesOf(p) ==
  {Line("ident", p.identifier), Line("filename", p.filename), Line("size", p.size),
   Line("nhashes", p.nhashes), Line("hashes", ""), Line("nchunks", p.nchunks),
   Line("chunks", "")}
  \cup {Line("hash", p.hashes[j]) : j \in 1..p.nhashes}
  \cup {Line("chunk", p.chunks[j]) : j \in 1..p.nchunks}

AnyLine == {NoLine} \cup UNION {LinesOf(p) : p \in Packages}

\* STRING, and the literals of PkgLoad, which are members of it that the
\* provers do not know to be.
Texts == STRING \cup {"", "0xbe", "unallocated", "ident", "filename", "size",
                      "nhashes", "hashes", "nchunks", "chunks"}

Unset == NoHashes[1]

ChunkType == [hash : Texts, offset : Int, size : Int]

Pcs == {"open", "lines", "hashes", "chunks", "returned", "exited", "aborted"}

\* An object, a pointer that was never stored being marked by Unset.
ObjType == [identifier : Texts, filename : Texts, size : Int, nhashes : Int,
            hashes : Seq(Texts), nchunks : Int,
            chunks : Seq(ChunkType)]

\* The object before a field is stored and once it is.
ObjInv ==
  /\ obj \in ObjType
  /\ obj.size \in {p.size : p \in Packages} \cup {NoInt}
  /\ obj.nhashes \in Nat \cup {NoInt}
  /\ counter <= 4 => obj.hashes = NoHashes
  /\ counter <= 5 => obj.nchunks = NoInt
  /\ counter <= 6 => obj.chunks = NoChunks
  /\ pc = "open" => counter = 0
  /\ pc = "hashes" => counter = 5
  /\ pc = "chunks" => counter = 7
  /\ pc = "aborted" => obj.hashes = NoHashes /\ obj.chunks = NoChunks
  /\ counter >= 5 /\ pc # "aborted" =>
       /\ obj.nhashes \in Nat /\ Len(obj.hashes) <= obj.nhashes
       /\ \A j \in 1..Len(obj.hashes) : obj.hashes[j] # Unset
       /\ pc # "hashes" => Len(obj.hashes) = obj.nhashes
  /\ counter >= 6 /\ pc # "exited" => obj.nchunks = obj.nhashes + 1
  /\ counter >= 7 =>
       /\ pc \in {"lines", "chunks", "returned"}
       /\ Len(obj.chunks) <= obj.nchunks
       /\ \A j \in 1..Len(obj.chunks) : obj.chunks[j].hash # Unset
       /\ pc # "chunks" => Len(obj.chunks) = obj.nchunks

\* What is left is a suffix of the file, and every line read by the outer loop is
\* before it.
LoadInv ==
  /\ file \in Files
  /\ counter \in Nat
  /\ buffer \in AnyLine
  /\ \E k \in counter..Len(file) : Read(k)
  /\ ObjInv
  /\ pc \in Pcs

\* The place in the file of a load that has missed no line.
hashesRead == IF counter >= 5 THEN Len(obj.hashes) ELSE 0
chunksRead == IF counter >= 7 THEN Len(obj.chunks) ELSE 0
Place == counter + hashesRead + chunksRead

\* The fields of a file that is as it was written, once their lines are read.
WrittenFields(p) ==
  /\ counter >= 1 => obj.identifier = p.identifier /\ p.identifier \in Hex
  /\ counter >= 2 => obj.filename = p.filename
  /\ counter >= 3 => obj.size = p.size
  /\ counter >= 4 => obj.nhashes = p.nhashes
  /\ counter >= 5 => \A j \in 1..Len(obj.hashes) : obj.hashes[j] = p.hashes[j]
  /\ counter >= 6 => obj.nchunks = p.nchunks
  /\ counter >= 7 => \A j \in 1..Len(obj.chunks) : obj.chunks[j] = p.chunks[j]

WrittenInv(p) ==
  file \in {Written(p), Trailing(p)} =>
    /\ pc # "aborted"
    /\ pc = "exited" => rest = file \/ p.identifier \notin Hex \/ p.nchunks # p.nhashes + 1
    /\ pc # "exited" => Read(Place) /\ Place \in 0..Len(file) /\ WrittenFields(p)
    /\ pc = "returned" => counter >= 7

\* A file without its n-th line: the field of that line holds what malloc left
\* there, and the next rounds of the loop are one line ahead.
LostInv(p, n) ==
  file = RemoveAt(Written(p), n) =>
    /\ pc \notin {"returned", "chunks"}
    /\ pc \notin {"exited", "aborted"} =>
         /\ Read(Place) /\ Place \in 0..Len(file) /\ counter <= 5
         /\ counter = 0 => obj.identifier = NoString
         /\ counter >= 1 => n # 1
         /\ counter <= 3 => obj.nhashes = NoInt
         /\ counter >= 4 => obj.nhashes = IF n <= 4 THEN NoInt ELSE p.nhashes
         /\ counter = 5 => n >= 5

AllWritten == \A p \in Packages : WrittenInv(p)
AllLost == \A p \in Packages : \A n \in 1..(p.nhashes + 6) : LostInv(p, n)

\* The way of main: what it has looked at before it comes to a place.
MainInv ==
  /\ asel \in {0, Selected(flag)}
  /\ disk \in DiskSizes
  /\ found \in BOOLEAN
  /\ status \in {Running, 0, 1, Abort}
  /\ mpc \in {"args", "load", "check", "open", "truncate", "destroy", "tree", "stat",
              "mmap", "hash", "query", "end"}
  /\ mpc = "end" <=> status # Running
  /\ mpc \in {"check", "open", "truncate", "destroy", "tree", "stat", "mmap", "hash", "query"}
       => pc = "returned"
  /\ mpc \in {"check", "open", "truncate", "destroy"} => asel = 5
  /\ mpc \in {"tree", "stat", "mmap", "hash", "query"} => asel # 5
  /\ mpc \in {"open", "truncate"} => ~found

\* hashChunk: a file or a mapping that is shorter than the package has been
\* met as that.
HashInv ==
  /\ fd \in DiskSizes /\ mapped \in DiskSizes
  /\ same \in BOOLEAN /\ hashed \in Nat /\ trouble \subseteq Troubles
  /\ mpc \in {"stat", "mmap", "hash"} /\ fd < obj.size => "short" \in trouble
  /\ mpc \in {"mmap", "hash"} /\ mapped < obj.size => "short" \in trouble

-----------------------------------------------------------------------------
(***************************************************************************)
(* Sequences                                                               *)
(***************************************************************************)

\* The suffix of a sequence after its first k elements.
LEMMA SuffixOf ==
  ASSUME NEW S, NEW s \in Seq(S), NEW k \in 0..Len(s)
  PROVE  /\ SubSeq(s, k + 1, Len(s)) \in Seq(S)
         /\ Len(SubSeq(s, k + 1, Len(s))) = Len(s) - k
         /\ \A i \in 1..(Len(s) - k) : SubSeq(s, k + 1, Len(s))[i] = s[k + i]
<1>1. PICK l \in Nat : l = Len(s)
  BY LenProperties
<1>2. k \in Nat /\ k <= l
  BY <1>1
<1>3. \A i \in k + 1 .. l : s[i] \in S
  BY <1>1, <1>2, ElementOfSeq
<1>4. /\ SubSeq(s, k + 1, l) \in Seq(S)
      /\ Len(SubSeq(s, k + 1, l)) = IF k + 1 <= l THEN l - (k + 1) + 1 ELSE 0
      /\ \A i \in 1 .. l - (k + 1) + 1 : SubSeq(s, k + 1, l)[i] = s[(k + 1) + i - 1]
  <2>1. k + 1 \in Int /\ l \in Int
    BY <1>2
  <2>. QED
    BY ONLY <1>3, <2>1, SubSeqProperties
<1>5. \A i \in 1..(l - k) : SubSeq(s, k + 1, l)[i] = s[k + i]
  <2>. SUFFICES ASSUME NEW i \in 1..(l - k) PROVE SubSeq(s, k + 1, l)[i] = s[k + i]
    OBVIOUS
  <2>1. i \in 1 .. l - (k + 1) + 1 /\ (k + 1) + i - 1 = k + i
    BY <1>2
  <2>. QED
    BY <1>4, <2>1
<1>. QED
  BY <1>1, <1>2, <1>4, <1>5

\* The head and the tail of a suffix.
LEMMA NextLine ==
  ASSUME NEW S, NEW s \in Seq(S), NEW k \in 0..Len(s), NEW r, r = SubSeq(s, k + 1, Len(s))
  PROVE  /\ r = <<>> <=> k = Len(s)
         /\ k < Len(s) => Head(r) = s[k + 1] /\ Tail(r) = SubSeq(s, k + 2, Len(s))
<1>1. PICK l \in Nat : l = Len(s)
  BY LenProperties
<1>2. k \in Nat /\ k <= l
  BY <1>1
<1>3. r \in Seq(S) /\ Len(r) = l - k
  BY <1>1, SuffixOf
<1>4. r = <<>> <=> k = Len(s)
  <2>1. CASE r = <<>>
    <3>1. Len(r) = 0
      BY <2>1, EmptySeq
    <3>. QED
      BY <1>1, <1>2, <1>3, <2>1, <3>1
  <2>2. CASE r # <<>>
    BY <1>1, <1>2, <1>3, <2>2, EmptySeq
  <2>. QED
    BY <2>1, <2>2
<1>5. ASSUME k < Len(s) PROVE Head(r) = s[k + 1] /\ Tail(r) = SubSeq(s, k + 2, Len(s))
  <2>1. k + 1 \in 1..Len(s) /\ Len(s) \in k + 1 .. Len(s) /\ (k + 1) + 1 = k + 2
    BY <1>1, <1>2, <1>5
  <2>2. Head(SubSeq(s, k + 1, Len(s))) = s[k + 1]
        /\ Tail(SubSeq(s, k + 1, Len(s))) = SubSeq(s, (k + 1) + 1, Len(s))
    BY ONLY <2>1, HeadTailOfSubSeq, s \in Seq(S)
  <2>. QED
    BY <2>1, <2>2
<1>. QED
  BY <1>4, <1>5

\* Such a suffix is one by the definition of SequencesExt.
LEMMA SuffixIsSuffix ==
  ASSUME NEW S, NEW s \in Seq(S), NEW k \in 0..Len(s)
  PROVE  IsSuffix(SubSeq(s, k + 1, Len(s)), s)
<1>1. PICK l \in Nat : l = Len(s)
  BY LenProperties
<1>2. k \in Nat /\ k <= l
  BY <1>1
<1>3. PICK r \in Seq(S) : r = SubSeq(s, k + 1, Len(s))
  BY SuffixOf
<1>4. Len(r) = l - k /\ \A i \in 1..(l - k) : r[i] = s[k + i]
  BY <1>1, <1>3, SuffixOf
<1>. DEFINE a == [i \in 1..(l - k) |-> r[((l - k) - i) + 1]]
            b == [i \in 1..l |-> s[(l - i) + 1]]
<1>5. Reverse(r) = a /\ Reverse(s) = b
  BY <1>1, <1>4 DEF Reverse
<1>6. a \in Seq(S) /\ Len(a) = l - k /\ b \in Seq(S) /\ Len(b) = l
  <2>1. \A i \in 1..(l - k) : ((l - k) - i) + 1 \in 1..Len(r)
    BY <1>2, <1>4
  <2>2. \A i \in 1..l : (l - i) + 1 \in 1..Len(s)
    BY <1>1
  <2>3. a \in [1..(l - k) -> S]
    BY <2>1, ElementOfSeq
  <2>4. b \in [1..l -> S]
    BY <2>2, ElementOfSeq
  <2>5. l - k \in Nat
    BY <1>2
  <2>. HIDE DEF a, b
  <2>. QED
    BY <2>3, <2>4, <2>5
<1>7. \A i \in 1..(l - k) : a[i] = b[i]
  <2>. SUFFICES ASSUME NEW i \in 1..(l - k)
                PROVE  r[((l - k) - i) + 1] = s[(l - i) + 1] /\ i \in 1..l
    OBVIOUS
  <2>1. ((l - k) - i) + 1 \in 1..(l - k) /\ k + (((l - k) - i) + 1) = (l - i) + 1 /\ i \in 1..l
    BY <1>2
  <2>. QED
    BY <1>4, <2>1
<1>. HIDE DEF a, b
<1>8. SubSeq(a, 1, Len(a)) = SubSeq(b, 1, Len(a))
  <2>1. l - k \in Nat /\ l - k <= l
    BY <1>2
  <2>2. PICK n \in Nat : n = l - k /\ n <= l
    BY <2>1
  <2>3. (\A i \in 1..n : a[i] \in S) /\ (\A i \in 1..n : b[i] \in S)
    <3>1. \A i \in 1..n : i \in 1..Len(a) /\ i \in 1..Len(b)
      BY <1>6, <2>2
    <3>. QED
      BY <1>6, <3>1, ElementOfSeq
  <2>4. 1 \in Int /\ n \in Int
    BY <2>2
  <2>5. /\ SubSeq(a, 1, n) \in Seq(S) /\ Len(SubSeq(a, 1, n)) = IF 1 <= n THEN n - 1 + 1 ELSE 0
        /\ \A i \in 1..n - 1 + 1 : SubSeq(a, 1, n)[i] = a[1 + i - 1]
    BY ONLY <2>3, <2>4, SubSeqProperties
  <2>6. /\ SubSeq(b, 1, n) \in Seq(S) /\ Len(SubSeq(b, 1, n)) = IF 1 <= n THEN n - 1 + 1 ELSE 0
        /\ \A i \in 1..n - 1 + 1 : SubSeq(b, 1, n)[i] = b[1 + i - 1]
    BY ONLY <2>3, <2>4, SubSeqProperties
  <2>7. \A i \in 1..Len(SubSeq(a, 1, n)) : SubSeq(a, 1, n)[i] = SubSeq(b, 1, n)[i]
    <3>. SUFFICES ASSUME NEW i \in 1..n PROVE SubSeq(a, 1, n)[i] = SubSeq(b, 1, n)[i]
      BY <2>2, <2>5
    <3>1. i \in 1..n - 1 + 1 /\ 1 + i - 1 = i
      BY <2>2
    <3>. QED
      BY <1>7, <2>2, <2>5, <2>6, <3>1
  <2>8. SubSeq(a, 1, n) = SubSeq(b, 1, n)
    <3>1. Len(SubSeq(a, 1, n)) = Len(SubSeq(b, 1, n))
      BY ONLY <2>5, <2>6
    <3>. QED
      BY ONLY <2>5, <2>6, <2>7, <3>1, SeqEqual
  <2>. QED
    BY <1>6, <2>2, <2>8
<1>. QED
  BY <1>2, <1>3, <1>5, <1>6, <1>8 DEF IsSuffix, IsPrefix

\* r is s, of length a, and then t, of length b.
Splits(r, s, t, a, b) ==
  /\ Len(r) = a + b
  /\ \A i \in 1..a : r[i] = s[i]
  /\ \A i \in 1..b : r[a + i] = t[i]

\* A concatenation, place by place.
LEMMA TwoParts ==
  ASSUME NEW S, NEW s \in Seq(S), NEW t \in Seq(S), NEW a \in Nat, NEW b \in Nat,
         Len(s) = a, Len(t) = b
  PROVE  s \o t \in Seq(S) /\ Splits(s \o t, s, t, a, b)
<1>1. /\ s \o t \in Seq(S) /\ Len(s \o t) = Len(s) + Len(t)
      /\ \A i \in 1..Len(s) + Len(t) : (s \o t)[i] = IF i <= Len(s) THEN s[i] ELSE t[i - Len(s)]
  BY ONLY ConcatProperties, s \in Seq(S), t \in Seq(S)
<1>2. PICK r \in Seq(S) : r = s \o t
  BY ONLY <1>1
<1>3. Len(r) = a + b /\ \A i \in 1..a + b : r[i] = IF i <= a THEN s[i] ELSE t[i - a]
  BY ONLY <1>1, <1>2, Len(s) = a, Len(t) = b
<1>4. ASSUME NEW i \in 1..a PROVE r[i] = s[i]
  BY <1>3
<1>5. ASSUME NEW i \in 1..b PROVE r[a + i] = t[i]
  <2>1. a + i \in 1..a + b /\ ~(a + i <= a) /\ (a + i) - a = i
    OBVIOUS
  <2>. QED
    BY ONLY <1>3, <2>1
<1>. QED
  BY ONLY <1>2, <1>3, <1>4, <1>5 DEF Splits

-----------------------------------------------------------------------------
(***************************************************************************)
(* What the files hold                                                     *)
(***************************************************************************)

\* What the lines of Written(p) are, place by place.
IsWritten(w, p) ==
  /\ w \in Seq(AnyLine)
  /\ Len(w) = 7 + p.nhashes + p.nchunks
  /\ w[1] = Line("ident", p.identifier) /\ w[2] = Line("filename", p.filename)
  /\ w[3] = Line("size", p.size) /\ w[4] = Line("nhashes", p.nhashes)
  /\ w[5] = Line("hashes", "")
  /\ \A j \in 1..p.nhashes : w[5 + j] = Line("hash", p.hashes[j])
  /\ w[6 + p.nhashes] = Line("nchunks", p.nchunks)
  /\ w[7 + p.nhashes] = Line("chunks", "")
  /\ \A j \in 1..p.nchunks : w[7 + p.nhashes + j] = Line("chunk", p.chunks[j])

\* Every line a package file can hold is in AnyLine.
LEMMA LinesAreLines ==
  NoLine \in AnyLine /\ \A p \in Packages : LinesOf(p) \subseteq AnyLine
<1>1. NoLine \in AnyLine
  BY DEF AnyLine
<1>2. \A p \in Packages : LinesOf(p) \subseteq AnyLine
  BY DEF AnyLine
<1>. QED
  BY <1>1, <1>2

\* A function on 1..n is a sequence of length n.
LEMMA FunctionIsSequence ==
  ASSUME NEW S, NEW n \in Nat, NEW f \in [1..n -> S]
  PROVE  f \in Seq(S) /\ Len(f) = n
  OBVIOUS

\* The headings of Written are sequences.
LEMMA FiveLines ==
  ASSUME NEW S, NEW a \in S, NEW b \in S, NEW c \in S, NEW d \in S, NEW e \in S
  PROVE  /\ <<a, b, c, d, e>> \in Seq(S) /\ Len(<<a, b, c, d, e>>) = 5
         /\ <<a, b>> \in Seq(S) /\ Len(<<a, b>>) = 2
  OBVIOUS

\* PackagesAssumption for one package.
LEMMA PackageTypes ==
  ASSUME NEW p \in Packages
  PROVE  /\ p \in [identifier : STRING, filename : STRING, size : Nat,
                   nhashes : Nat, hashes : Seq(STRING), nchunks : Nat,
                   chunks : Seq([hash : STRING, offset : Nat, size : Nat])]
         /\ DOMAIN p.hashes = 1..p.nhashes /\ DOMAIN p.chunks = 1..p.nchunks
         /\ WellFormed(p)
  BY PackagesAssumption, LenProperties DEF WellFormed

\* Written(p), place by place: the four parts, one after the other.
LEMMA WrittenIs ==
  ASSUME NEW p \in Packages
  PROVE  IsWritten(Written(p), p)
<1>. DEFINE A == <<Line("ident", p.identifier), Line("filename", p.filename),
                   Line("size", p.size), Line("nhashes", p.nhashes), Line("hashes", "")>>
            B == [j \in DOMAIN p.hashes |-> Line("hash", p.hashes[j])]
            C == <<Line("nchunks", p.nchunks), Line("chunks", "")>>
            D == [j \in DOMAIN p.chunks |-> Line("chunk", p.chunks[j])]
<1>1. PICK h \in Nat : h = p.nhashes
  BY PackageTypes
<1>2. PICK c \in Nat : c = p.nchunks
  BY PackageTypes
<1>3. DOMAIN p.hashes = 1..h /\ DOMAIN p.chunks = 1..c
  BY <1>1, <1>2, PackageTypes
<1>4. LinesOf(p) \subseteq AnyLine
  BY LinesAreLines
<1>5. A \in Seq(AnyLine) /\ Len(A) = 5
  <2>1. /\ Line("ident", p.identifier) \in AnyLine /\ Line("filename", p.filename) \in AnyLine
        /\ Line("size", p.size) \in AnyLine /\ Line("nhashes", p.nhashes) \in AnyLine
        /\ Line("hashes", "") \in AnyLine
    BY <1>4 DEF LinesOf
  <2>. QED
    BY ONLY <2>1, FiveLines
<1>6. B \in Seq(AnyLine) /\ Len(B) = h
  <2>1. \A j \in 1..h : Line("hash", p.hashes[j]) \in AnyLine
    BY <1>1, <1>4 DEF LinesOf
  <2>2. B \in [1..h -> AnyLine]
    <3>1. B = [j \in 1..h |-> Line("hash", p.hashes[j])]
      BY <1>3, Zenon
    <3>. QED
      BY ONLY <2>1, <3>1
  <2>3. PICK f \in [1..h -> AnyLine] : f = B
    BY ONLY <2>2
  <2>4. f \in Seq(AnyLine) /\ Len(f) = h
    BY ONLY FunctionIsSequence, f \in [1..h -> AnyLine], h \in Nat
  <2>. QED
    BY ONLY <2>3, <2>4
<1>7. C \in Seq(AnyLine) /\ Len(C) = 2
  <2>1. Line("nchunks", p.nchunks) \in AnyLine /\ Line("chunks", "") \in AnyLine
    BY <1>4 DEF LinesOf
  <2>. QED
    BY ONLY <2>1, FiveLines
<1>8. D \in Seq(AnyLine) /\ Len(D) = c
  <2>1. \A j \in 1..c : Line("chunk", p.chunks[j]) \in AnyLine
    BY <1>2, <1>4 DEF LinesOf
  <2>2. D \in [1..c -> AnyLine]
    <3>1. D = [j \in 1..c |-> Line("chunk", p.chunks[j])]
      BY <1>3, Zenon
    <3>. QED
      BY ONLY <2>1, <3>1
  <2>3. PICK f \in [1..c -> AnyLine] : f = D
    BY ONLY <2>2
  <2>4. f \in Seq(AnyLine) /\ Len(f) = c
    BY ONLY FunctionIsSequence, f \in [1..c -> AnyLine], c \in Nat
  <2>. QED
    BY ONLY <2>3, <2>4
<1>9. /\ A[1] = Line("ident", p.identifier) /\ A[2] = Line("filename", p.filename)
      /\ A[3] = Line("size", p.size) /\ A[4] = Line("nhashes", p.nhashes)
      /\ A[5] = Line("hashes", "")
      /\ C[1] = Line("nchunks", p.nchunks) /\ C[2] = Line("chunks", "")
  OBVIOUS
<1>10. \A j \in 1..h : B[j] = Line("hash", p.hashes[j])
  BY <1>3
<1>11. \A j \in 1..c : D[j] = Line("chunk", p.chunks[j])
  BY <1>3
<1>12. Written(p) = ((A \o B) \o C) \o D
  BY DEF Written
<1>. HIDE DEF A, B, C, D
<1>13. PICK x \in Seq(AnyLine) : x = A \o B /\ Splits(x, A, B, 5, h)
  BY <1>5, <1>6, TwoParts
<1>14. Len(x) = 5 + h
  BY <1>13 DEF Splits
<1>15. PICK y \in Seq(AnyLine) : y = x \o C /\ Splits(y, x, C, 5 + h, 2)
  <2>1. PICK g \in Nat : g = 5 + h
    OBVIOUS
  <2>2. x \o C \in Seq(AnyLine) /\ Splits(x \o C, x, C, g, 2)
    BY ONLY <1>7, <1>14, <2>1, TwoParts, x \in Seq(AnyLine), g \in Nat, 2 \in Nat
  <2>. QED
    BY ONLY <2>1, <2>2
<1>16. Len(y) = (5 + h) + 2 /\ (5 + h) + 2 = 7 + h
  BY <1>15 DEF Splits
<1>17. PICK z \in Seq(AnyLine) : z = y \o D /\ Splits(z, y, D, 7 + h, c)
  BY ONLY <1>8, <1>16, TwoParts, y \in Seq(AnyLine), 7 + h \in Nat, c \in Nat
<1>18. z = Written(p)
  BY ONLY <1>12, <1>13, <1>15, <1>17
<1>19. Len(z) = 7 + h + c
  BY <1>17 DEF Splits
<1>20. ASSUME NEW i \in 1..(5 + h) PROVE z[i] = x[i]
  <2>1. i \in 1..(7 + h)
    OBVIOUS
  <2>. QED
    BY <1>15, <1>17, <2>1 DEF Splits
<1>21. \A i \in 1..5 : z[i] = A[i]
  <2>1. \A i \in 1..5 : i \in 1..(5 + h)
    OBVIOUS
  <2>. QED
    BY <1>13, <1>20, <2>1 DEF Splits
<1>22. \A j \in 1..h : z[5 + j] = B[j]
  <2>1. \A j \in 1..h : 5 + j \in 1..(5 + h)
    OBVIOUS
  <2>. QED
    BY <1>13, <1>20, <2>1 DEF Splits
<1>23. z[6 + h] = C[1] /\ z[7 + h] = C[2]
  <2>1. (5 + h) + 1 = 6 + h /\ (5 + h) + 2 = 7 + h /\ 6 + h \in 1..(7 + h) /\ 7 + h \in 1..(7 + h)
    OBVIOUS
  <2>2. y[(5 + h) + 1] = C[1] /\ y[(5 + h) + 2] = C[2]
    BY <1>15 DEF Splits
  <2>. QED
    BY <1>17, <2>1, <2>2 DEF Splits
<1>24. \A j \in 1..c : z[7 + h + j] = D[j]
  BY <1>17 DEF Splits
<1>25. z[1] = A[1] /\ z[2] = A[2] /\ z[3] = A[3] /\ z[4] = A[4] /\ z[5] = A[5]
  BY <1>21
<1>. QED
  BY ONLY <1>1, <1>2, <1>9, <1>10, <1>11, <1>18, <1>19, <1>22, <1>23, <1>24, <1>25,
     z \in Seq(AnyLine) DEF IsWritten

\* A file with an empty line at its end begins as Written(p).
LEMMA TrailingIs ==
  ASSUME NEW p \in Packages
  PROVE  /\ Trailing(p) \in Seq(AnyLine) /\ Len(Trailing(p)) = 8 + p.nhashes + p.nchunks
         /\ \A i \in 1..(7 + p.nhashes + p.nchunks) : Trailing(p)[i] = Written(p)[i]
<1>1. PICK w \in Seq(AnyLine) : w = Written(p) /\ Len(w) = 7 + p.nhashes + p.nchunks
  BY WrittenIs DEF IsWritten
<1>2. PICK l \in Nat : l = 7 + p.nhashes + p.nchunks
  BY PackageTypes
<1>3. NoLine \in AnyLine
  BY LinesAreLines
<1>4. /\ Append(w, NoLine) \in Seq(AnyLine) /\ Len(Append(w, NoLine)) = Len(w) + 1
      /\ \A i \in 1..Len(w) : Append(w, NoLine)[i] = w[i]
  BY ONLY <1>3, AppendProperties, w \in Seq(AnyLine)
<1>5. l + 1 = 8 + p.nhashes + p.nchunks
  BY <1>2, PackageTypes
<1>. QED
  BY ONLY <1>1, <1>2, <1>4, <1>5 DEF Trailing

\* s without its n-th line.
Without(s, n, r) ==
  /\ Len(r) = Len(s) - 1
  /\ \A i \in 1..(n - 1) : r[i] = s[i]
  /\ \A i \in n..(Len(s) - 1) : r[i] = s[i + 1]

\* RemoveAt, place by place.
LEMMA RemoveAtIs ==
  ASSUME NEW S, NEW s \in Seq(S), NEW n \in 1..Len(s)
  PROVE  RemoveAt(s, n) \in Seq(S) /\ Without(s, n, RemoveAt(s, n))
<1>1. PICK l \in Nat : l = Len(s)
  BY LenProperties
<1>2. n \in Nat /\ 1 <= n /\ n <= l
  BY <1>1
<1>3. \A i \in 1..l : s[i] \in S
  BY <1>1, ElementOfSeq
<1>4. PICK a \in Seq(S) : a = SubSeq(s, 1, n - 1) /\ Len(a) = n - 1 /\ \A i \in 1..(n - 1) : a[i] = s[i]
  <2>1. \A i \in 1..(n - 1) : s[i] \in S
    BY <1>2, <1>3
  <2>2. 1 \in Int /\ n - 1 \in Int
    BY <1>2
  <2>3. /\ SubSeq(s, 1, n - 1) \in Seq(S)
        /\ Len(SubSeq(s, 1, n - 1)) = IF 1 <= n - 1 THEN (n - 1) - 1 + 1 ELSE 0
        /\ \A i \in 1..(n - 1) - 1 + 1 : SubSeq(s, 1, n - 1)[i] = s[1 + i - 1]
    BY ONLY <2>1, <2>2, SubSeqProperties
  <2>4. Len(SubSeq(s, 1, n - 1)) = n - 1
    BY <1>2, <2>3
  <2>5. \A i \in 1..(n - 1) : i \in 1..(n - 1) - 1 + 1 /\ 1 + i - 1 = i
    BY <1>2
  <2>. QED
    BY <2>3, <2>4, <2>5
<1>5. PICK b \in Seq(S) : b = SubSeq(s, n + 1, Len(s)) /\ Len(b) = l - n /\ \A i \in 1..(l - n) : b[i] = s[n + i]
  <2>1. n \in 0..Len(s)
    BY <1>1, <1>2
  <2>2. /\ SubSeq(s, n + 1, Len(s)) \in Seq(S)
        /\ Len(SubSeq(s, n + 1, Len(s))) = Len(s) - n
        /\ \A i \in 1..(Len(s) - n) : SubSeq(s, n + 1, Len(s))[i] = s[n + i]
    BY ONLY <2>1, SuffixOf, s \in Seq(S)
  <2>. QED
    BY ONLY <1>1, <2>2
<1>6. PICK r \in Seq(S) : r = a \o b /\ Splits(r, a, b, n - 1, l - n)
  <2>1. n - 1 \in Nat /\ l - n \in Nat
    BY <1>2
  <2>. QED
    BY ONLY <1>4, <1>5, <2>1, TwoParts
<1>7. Len(r) = l - 1
  BY <1>2, <1>6 DEF Splits
<1>8. \A i \in 1..(n - 1) : r[i] = s[i]
  BY <1>4, <1>6 DEF Splits
<1>9. ASSUME NEW i \in n..(l - 1) PROVE r[i] = s[i + 1]
  <2>1. PICK j \in 1..(l - n) : i = (n - 1) + j
    <3>1. i - (n - 1) \in 1..(l - n) /\ i = (n - 1) + (i - (n - 1))
      BY <1>2
    <3>. QED
      BY <3>1
  <2>2. n + j = i + 1
    BY <1>2, <2>1
  <2>3. r[(n - 1) + j] = b[j] /\ b[j] = s[n + j]
    BY <1>5, <1>6 DEF Splits
  <2>. QED
    BY ONLY <2>1, <2>2, <2>3
<1>10. RemoveAt(s, n) = r
  BY <1>4, <1>5, <1>6 DEF RemoveAt
<1>. QED
  BY ONLY <1>1, <1>7, <1>8, <1>9, <1>10, r \in Seq(S) DEF Without

\* Every file, cut off or not, is a sequence of lines.
LEMMA FilesAreLines == Files \subseteq Seq(AnyLine)
<1>. SUFFICES ASSUME NEW p \in Packages,
                     NEW f \in {Written(p), Trailing(p)} \cup Truncated(p) \cup LineLost(p)
              PROVE  f \in Seq(AnyLine)
  BY DEF Files
<1>1. Written(p) \in Seq(AnyLine) /\ Trailing(p) \in Seq(AnyLine)
  BY WrittenIs, TrailingIs DEF IsWritten
<1>2. PICK w \in Seq(AnyLine) : w = Written(p)
  BY <1>1
<1>3. ASSUME f \in Truncated(p) PROVE f \in Seq(AnyLine)
  <2>1. PICK n \in 0..(Len(w) - 1) : f = SubSeq(w, 1, n)
    BY <1>2, <1>3 DEF Truncated
  <2>2. \A i \in 1..n : w[i] \in AnyLine
    BY ElementOfSeq, LenProperties
  <2>. QED
    BY <2>1, <2>2, SubSeqProperties
<1>4. ASSUME f \in LineLost(p) PROVE f \in Seq(AnyLine)
  BY <1>2, <1>4, RemoveAtIs, LenProperties DEF LineLost
<1>. QED
  BY <1>1, <1>3, <1>4

-----------------------------------------------------------------------------
(***************************************************************************)
(* One line                                                                *)
(***************************************************************************)

\* The parts of a line.
LEMMA LineParts == \A k, v : Line(k, v).key = k /\ Line(k, v).value = v
  BY DEF Line

\* Every string is in Texts.
LEMMA StringsAreTexts == STRING \subseteq Texts
  BY DEF Texts

\* And the literals of PkgLoad are.
LEMMA TextsAre ==
  /\ "" \in Texts /\ "ident" \in Texts /\ "filename" \in Texts /\ "size" \in Texts
  /\ "nhashes" \in Texts /\ "hashes" \in Texts /\ "nchunks" \in Texts /\ "chunks" \in Texts
  /\ "0xbe" \in Texts /\ "unallocated" \in Texts
  BY DEF Texts

\* A chunk whose fields were never stored.
LEMMA NoChunkIs == NoChunk \in ChunkType /\ NoChunk.hash = "0xbe"
<1>1. "0xbe" \in Texts
  BY TextsAre
<1>2. -1 \in Int
  OBVIOUS
<1>. QED
  BY <1>1, <1>2 DEF NoChunk, NoString, NoInt, ChunkType

\* What marks a pointer that was never stored.
LEMMA UnsetIs == Unset = "unallocated"
  BY DEF Unset, NoHashes

\* The chunks of a package are chunks.
LEMMA ChunkIsChunk ==
  ASSUME NEW c \in [hash : STRING, offset : Nat, size : Nat]
  PROVE  c \in ChunkType
<1>1. c.hash \in Texts
  BY StringsAreTexts
<1>3. c.offset \in Int /\ c.size \in Int
  OBVIOUS
<1>2. c = [hash |-> c.hash, offset |-> c.offset, size |-> c.size]
  OBVIOUS
<1>. QED
  BY <1>1, <1>2, <1>3 DEF ChunkType

\* What sscanf can find in a line.
LEMMA LineFacts ==
  ASSUME NEW l \in AnyLine
  PROVE  /\ l.key = "size" => l.value \in {p.size : p \in Packages}
         /\ l.key \in {"nhashes", "nchunks"} => l.value \in Nat
         /\ l.key \in {"ident", "filename"} => l.value \in Texts
         /\ Word(l) \in Texts /\ Word(l) # Unset
         /\ ChunkOf(l) \in ChunkType /\ ChunkOf(l).hash # Unset
<1>0. ASSUME l.key \in {"", "ident", "filename", "size", "nhashes", "hashes", "nchunks", "chunks"}
      PROVE  /\ Word(l) \in Texts /\ Word(l) # Unset
             /\ ChunkOf(l) \in ChunkType /\ ChunkOf(l).hash # Unset
  <2>1. Word(l) = l.key
    BY <1>0 DEF Word
  <2>2. ChunkOf(l) = NoChunk
    BY <1>0 DEF ChunkOf
  <2>3. l.key \in Texts /\ l.key # "unallocated"
    BY <1>0, TextsAre
  <2>. QED
    BY <2>1, <2>2, <2>3, NoChunkIs, UnsetIs
<1>1. CASE l = NoLine
  <2>1. l.key = ""
    BY <1>1 DEF NoLine, Line
  <2>. QED
    BY <1>0, <2>1
<1>2. CASE l # NoLine
  <2>1. PICK p \in Packages : l \in LinesOf(p)
    BY <1>2 DEF AnyLine
  <2>2. /\ p.identifier \in STRING /\ p.filename \in STRING /\ p.size \in Nat
        /\ p.nhashes \in Nat /\ p.nchunks \in Nat
        /\ p.size \in {q.size : q \in Packages}
    BY PackageTypes
  <2>3. CASE l \in {Line("ident", p.identifier), Line("filename", p.filename), Line("size", p.size),
                    Line("nhashes", p.nhashes), Line("hashes", ""), Line("nchunks", p.nchunks),
                    Line("chunks", "")}
    <3>0. \/ l = Line("ident", p.identifier) \/ l = Line("filename", p.filename)
          \/ l = Line("size", p.size) \/ l = Line("nhashes", p.nhashes)
          \/ l = Line("hashes", "") \/ l = Line("nchunks", p.nchunks) \/ l = Line("chunks", "")
      BY <2>3
    <3>1. \/ l.key = "ident" /\ l.value = p.identifier
          \/ l.key = "filename" /\ l.value = p.filename
          \/ l.key = "size" /\ l.value = p.size
          \/ l.key = "nhashes" /\ l.value = p.nhashes
          \/ l.key = "nchunks" /\ l.value = p.nchunks
          \/ l.key = "hashes"
          \/ l.key = "chunks"
      <4>1. l = Line("ident", p.identifier) => l.key = "ident" /\ l.value = p.identifier
        BY LineParts
      <4>2. l = Line("filename", p.filename) => l.key = "filename" /\ l.value = p.filename
        BY LineParts
      <4>3. l = Line("size", p.size) => l.key = "size" /\ l.value = p.size
        BY LineParts
      <4>4. l = Line("nhashes", p.nhashes) => l.key = "nhashes" /\ l.value = p.nhashes
        BY LineParts
      <4>5. l = Line("hashes", "") => l.key = "hashes" /\ l.value = ""
        BY LineParts
      <4>6. l = Line("nchunks", p.nchunks) => l.key = "nchunks" /\ l.value = p.nchunks
        BY LineParts
      <4>7. l = Line("chunks", "") => l.key = "chunks" /\ l.value = ""
        BY LineParts
      <4>. QED
        BY ONLY <3>0, <4>1, <4>2, <4>3, <4>4, <4>5, <4>6, <4>7
    <3>2. l.key \in {"", "ident", "filename", "size", "nhashes", "hashes", "nchunks", "chunks"}
      BY <3>1
    <3>3. l.key = "size" => l.value \in {q.size : q \in Packages}
      BY <2>2, <3>1
    <3>4. l.key \in {"nhashes", "nchunks"} => l.value \in Nat
      BY <2>2, <3>1
    <3>5. l.key \in {"ident", "filename"} => l.value \in Texts
      BY <2>2, <3>1, StringsAreTexts
    <3>. QED
      BY <1>0, <3>2, <3>3, <3>4, <3>5
  <2>4. ASSUME NEW j \in 1..p.nhashes, l = Line("hash", p.hashes[j])
        PROVE  /\ l.key = "hash" /\ l.value \in Texts /\ l.value # Unset
    <3>1. p.hashes \in Seq(STRING) /\ Len(p.hashes) = p.nhashes /\ p.hashes[j] # Unset
      BY PackageTypes DEF WellFormed, Unset
    <3>2. p.hashes[j] \in STRING
      BY ONLY <3>1, ElementOfSeq, j \in 1..p.nhashes
    <3>. QED
      BY ZenonT(60), <2>4, <3>1, <3>2, LineParts, StringsAreTexts
  <2>5. ASSUME NEW j \in 1..p.nchunks, l = Line("chunk", p.chunks[j])
        PROVE  /\ l.key = "chunk" /\ l.value \in ChunkType /\ l.value.hash # Unset
    <3>1. /\ p.chunks \in Seq([hash : STRING, offset : Nat, size : Nat])
          /\ Len(p.chunks) = p.nchunks /\ p.chunks[j].hash # Unset
      BY PackageTypes DEF WellFormed, Unset
    <3>2. p.chunks[j] \in [hash : STRING, offset : Nat, size : Nat]
      BY ONLY <3>1, ElementOfSeq, j \in 1..p.nchunks
    <3>. QED
      BY <2>5, <3>1, <3>2, LineParts, ChunkIsChunk
  <2>6. CASE l.key = "hash" /\ l.value \in Texts /\ l.value # Unset
    BY <2>6 DEF Word, ChunkOf, NoChunk, NoInt, ChunkType
  <2>7. CASE l.key = "chunk" /\ l.value \in ChunkType /\ l.value.hash # Unset
    BY <2>7 DEF Word, ChunkOf, ChunkType
  <2>. QED
    BY <2>1, <2>3, <2>4, <2>5, <2>6, <2>7 DEF LinesOf
<1>. QED
  BY <1>1, <1>2

\* fgets takes the line after the k that have been read, and none at the end.
LEMMA FgetsReads ==
  ASSUME file \in Files, NEW k \in 0..Len(file), Read(k), Fgets, file' = file
  PROVE  /\ rest = <<>> <=> k = Len(file)
         /\ k < Len(file) => buffer' = file[k + 1] /\ Read(k + 1)' /\ file[k + 1] \in AnyLine
         /\ k = Len(file) => buffer' = buffer /\ Read(k)'
<1>1. PICK s \in Seq(AnyLine) : s = file
  BY FilesAreLines
<1>2. PICK r : r = rest
  OBVIOUS
<1>3. k \in 0..Len(s) /\ r = SubSeq(s, k + 1, Len(s))
  BY <1>1, <1>2 DEF Read
<1>4. /\ r = <<>> <=> k = Len(s)
      /\ k < Len(s) => Head(r) = s[k + 1] /\ Tail(r) = SubSeq(s, k + 2, Len(s))
  BY ONLY <1>3, NextLine, s \in Seq(AnyLine)
<1>5. k < Len(s) => s[k + 1] \in AnyLine
  <2>1. k \in Nat /\ Len(s) \in Nat
    BY <1>3, LenProperties
  <2>2. k < Len(s) => k + 1 \in 1..Len(s)
    BY <2>1
  <2>. QED
    BY ONLY <2>2, ElementOfSeq, s \in Seq(AnyLine)
<1>6. (k + 1) + 1 = k + 2 /\ k \in Nat /\ Len(s) \in Nat
  BY <1>3, LenProperties
<1>7. CASE k = Len(s)
  BY <1>1, <1>2, <1>3, <1>4, <1>6, <1>7 DEF Fgets, Read
<1>8. CASE k # Len(s)
  <2>1. k < Len(s) /\ rest # <<>>
    BY <1>2, <1>3, <1>4, <1>6, <1>8
  <2>2. buffer' = Head(rest) /\ rest' = Tail(rest)
    BY <2>1 DEF Fgets
  <2>3. buffer' = s[k + 1] /\ rest' = SubSeq(s, (k + 1) + 1, Len(s))
    BY ONLY <1>2, <1>4, <1>6, <2>1, <2>2
  <2>. QED
    BY <1>1, <1>2, <1>4, <1>5, <1>6, <1>8, <2>1, <2>3 DEF Read
<1>. QED
  BY <1>7, <1>8

-----------------------------------------------------------------------------
(***************************************************************************)
(* The object                                                              *)
(***************************************************************************)

\* Every step of bpkg_load keeps ObjInv.
LEMMA ObjStep ==
  ASSUME ObjInv, counter \in Nat, pc \in Pcs, Load, buffer \in AnyLine, buffer' \in AnyLine
  PROVE  ObjInv'
<1>. USE DEF ObjInv, Pcs
<1>l. PICK l \in AnyLine : l = buffer'
  OBVIOUS
<1>1. CASE Open
  BY <1>1 DEF Open
<1>2. CASE Ident
  BY <1>2, LineFacts DEF Ident, Round, Scan, ObjType
<1>3. CASE Filename
  BY <1>3, LineFacts DEF Filename, Round, Scan, ObjType
<1>4. CASE Size
  <2>1. Scan(buffer', "size", obj.size) \in {p.size : p \in Packages} \cup {NoInt}
    BY LineFacts DEF Scan
  <2>2. ASSUME NEW z \in {p.size : p \in Packages} \cup {NoInt} PROVE z \in Int
    <3>1. CASE z = NoInt
      BY <3>1 DEF NoInt
    <3>2. CASE z # NoInt
      <4>1. PICK p \in Packages : z = p.size
        BY <3>2
      <4>. QED
        BY <4>1, PackageTypes
    <3>. QED
      BY <3>1, <3>2
  <2>3. PICK z \in Int : z = Scan(buffer', "size", obj.size)
    <3>1. Scan(buffer', "size", obj.size) \in Int
      BY ONLY <2>1, <2>2
    <3>. QED
      BY ONLY <3>1
  <2>4. obj' = [obj EXCEPT !.size = z] /\ UNCHANGED pc /\ counter = 2 /\ counter' = 3 /\ pc = "lines"
    BY <1>4, <2>3 DEF Size, Round
  <2>5. z \in {p.size : p \in Packages} \cup {NoInt}
    BY <2>1, <2>3
  <2>6. obj' \in ObjType
    BY <2>4 DEF ObjType
  <2>7. obj'.size = z
    BY <2>4 DEF ObjType
  <2>8. /\ obj'.nhashes = obj.nhashes /\ obj'.hashes = obj.hashes
        /\ obj'.nchunks = obj.nchunks /\ obj'.chunks = obj.chunks
    BY <2>4 DEF ObjType
  <2>9. obj'.size \in {p.size : p \in Packages} \cup {NoInt}
    BY <2>5, <2>7
  <2>. QED
    BY <2>4, <2>6, <2>8, <2>9
<1>5. CASE Nhashes
  BY <1>5, LineFacts DEF Nhashes, Round, Scan, ObjType
<1>6. CASE Hashes
  <2>1. CASE obj.nhashes = NoInt
    BY <1>6, <2>1 DEF Hashes, Round
  <2>2. CASE obj.nhashes # NoInt
    <3>1. /\ obj' = [obj EXCEPT !.hashes = <<>>] /\ pc' = "hashes" /\ counter = 4 /\ counter' = 5
          /\ obj.nhashes \in Nat /\ pc = "lines"
      BY <1>6, <2>2 DEF Hashes, Round
    <3>2. <<>> \in Seq(Texts) /\ Len(<<>>) = 0
      OBVIOUS
    <3>3. obj' \in ObjType /\ obj'.hashes = <<>>
      BY <3>1, <3>2 DEF ObjType
    <3>4. /\ obj'.nhashes = obj.nhashes /\ obj'.size = obj.size
          /\ obj'.nchunks = obj.nchunks /\ obj'.chunks = obj.chunks
      BY <3>1 DEF ObjType
    <3>5. Len(obj'.hashes) = 0 /\ 1..0 = {}
      BY <3>2, <3>3
    <3>. QED
      BY <3>1, <3>3, <3>4, <3>5
  <2>. QED
    BY <2>1, <2>2
<1>7. CASE Hash
  <2>1. PICK t \in Texts : t = Word(buffer') /\ t # Unset
    BY LineFacts
  <2>2. PICK h \in Seq(Texts) : h = obj.hashes
    BY DEF ObjType
  <2>3. /\ obj' = [obj EXCEPT !.hashes = Append(h, t)] /\ pc = "hashes" /\ UNCHANGED <<counter, pc>>
        /\ Len(h) < obj.nhashes /\ obj.nhashes \in Nat /\ counter = 5
    BY <1>7, <2>1, <2>2 DEF Hash
  <2>4. /\ Append(h, t) \in Seq(Texts) /\ Len(Append(h, t)) = Len(h) + 1
        /\ \A j \in 1..Len(h) : Append(h, t)[j] = h[j]
        /\ Append(h, t)[Len(h) + 1] = t
    BY ONLY AppendProperties, h \in Seq(Texts), t \in Texts
  <2>5. obj' \in ObjType /\ obj'.hashes = Append(h, t)
    BY <2>3, <2>4 DEF ObjType
  <2>6. /\ obj'.nhashes = obj.nhashes /\ obj'.size = obj.size
        /\ obj'.nchunks = obj.nchunks /\ obj'.chunks = obj.chunks
    BY <2>3 DEF ObjType
  <2>7. \A j \in 1..Len(h) : h[j] # Unset
    BY <2>2, <2>3
  <2>8. Len(h) \in Nat
    BY LenProperties
  <2>9. Len(obj'.hashes) <= obj.nhashes /\ \A j \in 1..Len(obj'.hashes) : obj'.hashes[j] # Unset
    BY <2>1, <2>3, <2>4, <2>5, <2>7, <2>8
  <2>. QED
    BY <2>3, <2>5, <2>6, <2>9
<1>8. CASE HashesEnd
  BY <1>8 DEF HashesEnd
<1>9. CASE Nchunks
  BY <1>9, LineFacts DEF Nchunks, Round, Scan, ObjType
<1>10. CASE Chunks
  <2>1. /\ obj' = [obj EXCEPT !.chunks = <<>>] /\ pc' = "chunks" /\ counter = 6 /\ counter' = 7
        /\ pc = "lines"
    BY <1>10 DEF Chunks, Round
  <2>2. <<>> \in Seq(ChunkType) /\ Len(<<>>) = 0
    OBVIOUS
  <2>3. obj' \in ObjType /\ obj'.chunks = <<>>
    BY <2>1, <2>2 DEF ObjType
  <2>4. /\ obj'.nhashes = obj.nhashes /\ obj'.size = obj.size
        /\ obj'.nchunks = obj.nchunks /\ obj'.hashes = obj.hashes
    BY <2>1 DEF ObjType
  <2>5. Len(obj'.chunks) = 0 /\ 1..0 = {}
    BY <2>2, <2>3
  <2>. QED
    BY <2>1, <2>3, <2>4, <2>5
<1>11. CASE Chunk
  <2>1. PICK t \in ChunkType : t = ChunkOf(buffer') /\ t.hash # Unset
    BY LineFacts
  <2>2. PICK h \in Seq(ChunkType) : h = obj.chunks
    BY DEF ObjType
  <2>3. /\ obj' = [obj EXCEPT !.chunks = Append(h, t)] /\ pc = "chunks" /\ UNCHANGED <<counter, pc>>
        /\ Len(h) < obj.nchunks /\ obj.nhashes \in Nat /\ obj.nchunks = obj.nhashes + 1 /\ counter = 7
    BY <1>11, <2>1, <2>2 DEF Chunk
  <2>4. /\ Append(h, t) \in Seq(ChunkType) /\ Len(Append(h, t)) = Len(h) + 1
        /\ \A j \in 1..Len(h) : Append(h, t)[j] = h[j]
        /\ Append(h, t)[Len(h) + 1] = t
    BY ONLY AppendProperties, h \in Seq(ChunkType), t \in ChunkType
  <2>5. obj' \in ObjType /\ obj'.chunks = Append(h, t)
    BY <2>3, <2>4 DEF ObjType
  <2>6. /\ obj'.nhashes = obj.nhashes /\ obj'.size = obj.size
        /\ obj'.nchunks = obj.nchunks /\ obj'.hashes = obj.hashes
    BY <2>3 DEF ObjType
  <2>7. \A j \in 1..Len(h) : h[j].hash # Unset
    BY <2>2, <2>3
  <2>8. Len(h) \in Nat
    BY LenProperties
  <2>9. Len(obj'.chunks) <= obj.nchunks /\ \A j \in 1..Len(obj'.chunks) : obj'.chunks[j].hash # Unset
    BY <2>1, <2>3, <2>4, <2>5, <2>7, <2>8
  <2>. QED
    BY <2>3, <2>5, <2>6, <2>9
<1>12. CASE ChunksEnd
  BY <1>12 DEF ChunksEnd
<1>13. CASE Ignored
  BY <1>13 DEF Ignored, Round
<1>14. CASE EndOfFile
  BY <1>14 DEF EndOfFile
<1>. QED
  BY <1>1, <1>2, <1>3, <1>4, <1>5, <1>6, <1>7, <1>8, <1>9, <1>10, <1>11, <1>12, <1>13, <1>14
     DEF Load, Header, HashLines, ChunkLines

-----------------------------------------------------------------------------
(***************************************************************************)
(* LoadInv: the suffix and the fields                                      *)
(***************************************************************************)

\* A file has a length.
LEMMA FilesLength == \A f \in Files : Len(f) \in Nat
  BY FilesAreLines, LenProperties

\* Nothing has been read and nothing stored.
LEMMA LoadInitially == LoadInit => LoadInv
<1>. SUFFICES ASSUME LoadInit PROVE LoadInv
  OBVIOUS
<1>1. file \in Files /\ rest = file /\ buffer \in AnyLine /\ counter = 0 /\ pc = "open"
  BY LinesAreLines DEF LoadInit
<1>2. PICK s \in Seq(AnyLine) : s = file
  BY <1>1, FilesAreLines
<1>3. SubSeq(s, 0 + 1, Len(s)) = s
  BY SubSeqFull
<1>4. \E k \in counter..Len(file) : Read(k)
  BY <1>1, <1>2, <1>3, LenProperties DEF Read
<1>5. ObjInv
  <2>1. NoHashes \in Seq(Texts) /\ NoChunks \in Seq(ChunkType)
    <3>0. PICK t \in Texts : t = "unallocated"
      BY TextsAre
    <3>7. <<t>> \in Seq(Texts) /\ NoHashes = <<t>>
      BY <3>0 DEF NoHashes
    <3>1. NoHashes \in Seq(Texts)
      BY ONLY <3>7
    <3>2. t = NoHashes[1]
      BY <3>7
    <3>3. -1 \in Int
      OBVIOUS
    <3>4. [NoChunk EXCEPT !.hash = t] \in ChunkType
      BY <3>3, TextsAre DEF ChunkType, NoChunk, NoInt
    <3>5. PICK c \in ChunkType : c = [NoChunk EXCEPT !.hash = NoHashes[1]]
      BY <3>2, <3>4
    <3>6. <<c>> \in Seq(ChunkType)
      OBVIOUS
    <3>. QED
      BY <3>1, <3>5, <3>6 DEF NoChunks
  <2>2. NoString \in Texts /\ NoInt \in Int
    <3>1. NoString \in Texts
      BY TextsAre DEF NoString
    <3>2. NoInt \in Int
      BY DEF NoInt
    <3>. QED
      BY <3>1, <3>2
  <2>3. obj = NoObject /\ counter = 0 /\ pc = "open"
    BY DEF LoadInit
  <2>4. obj \in ObjType
    BY <2>1, <2>2, <2>3 DEF NoObject, ObjType
  <2>5. /\ obj.size = NoInt /\ obj.nhashes = NoInt /\ obj.nchunks = NoInt
        /\ obj.hashes = NoHashes /\ obj.chunks = NoChunks
    BY <2>3 DEF NoObject
  <2>. QED
    BY <2>3, <2>4, <2>5 DEF ObjInv
<1>. QED
  BY <1>1, <1>4, <1>5 DEF LoadInv, Pcs

\* Where fgets leaves the file.
LEMMA FgetsPlace ==
  ASSUME file \in Files, counter \in Nat, NEW k \in counter..Len(file), Read(k), Fgets, file' = file,
         buffer \in AnyLine
  PROVE  /\ buffer' \in AnyLine
         /\ \E m \in k..Len(file) : Read(m)'
         /\ rest # <<>> => k < Len(file) /\ k + 1 \in 1..Len(file) /\ Read(k + 1)'
<1>1. Len(file) \in Nat /\ k \in 0..Len(file) /\ k \in Nat /\ k <= Len(file)
  BY FilesLength
<1>2. /\ rest = <<>> <=> k = Len(file)
      /\ k < Len(file) => buffer' = file[k + 1] /\ Read(k + 1)' /\ file[k + 1] \in AnyLine
      /\ k = Len(file) => buffer' = buffer /\ Read(k)'
  BY <1>1, FgetsReads
<1>3. CASE k = Len(file)
  BY <1>1, <1>2, <1>3
<1>4. CASE k < Len(file)
  <2>1. k + 1 \in k..Len(file) /\ k + 1 \in 1..Len(file)
    BY <1>1, <1>4
  <2>. QED
    BY <1>2, <1>4, <2>1
<1>. QED
  BY <1>1, <1>3, <1>4

\* A step that reads nothing leaves the suffix.
LEMMA ReadKept == \A k : Read(k) /\ UNCHANGED <<file, rest>> => Read(k)'
  BY DEF Read

\* Every step of bpkg_load keeps LoadInv.
LEMMA LoadStep == LoadInv /\ Load => LoadInv'
<1>. SUFFICES ASSUME LoadInv, Load PROVE LoadInv'
  OBVIOUS
<1>1. file \in Files /\ counter \in Nat /\ buffer \in AnyLine /\ pc \in Pcs /\ ObjInv
  BY DEF LoadInv, Pcs
<1>2. PICK k \in counter..Len(file) : Read(k)
  BY DEF LoadInv
<1>3. Len(file) \in Nat
  BY <1>1, FilesLength
<1>4. file' = file
  BY DEF Load, Header, HashLines, ChunkLines, Open, Ident, Filename, Size, Nhashes, Hashes, Hash,
     HashesEnd, Nchunks, Chunks, Chunk, ChunksEnd, Ignored, EndOfFile, Round
<1>5. pc' \in Pcs
  BY <1>1 DEF Pcs, Load, Header, HashLines, ChunkLines, Open, Ident, Filename, Size, Nhashes, Hashes,
     Hash, HashesEnd, Nchunks, Chunks, Chunk, ChunksEnd, Ignored, EndOfFile
<1>6. \/ rest # <<>> /\ Fgets /\ counter' = counter + 1
      \/ Fgets /\ counter' = counter
      \/ UNCHANGED <<rest, buffer, counter>>
  BY DEF Load, Header, HashLines, ChunkLines, Open, Ident, Filename, Size, Nhashes, Hashes, Hash,
     HashesEnd, Nchunks, Chunks, Chunk, ChunksEnd, Ignored, EndOfFile, Round
<1>7. counter' \in Nat /\ buffer' \in AnyLine /\ \E m \in counter'..Len(file) : Read(m)'
  <2>1. CASE rest # <<>> /\ Fgets /\ counter' = counter + 1
    <3>1. buffer' \in AnyLine /\ k < Len(file) /\ Read(k + 1)'
      BY <1>1, <1>2, <1>4, <2>1, FgetsPlace
    <3>2. counter' \in Nat /\ k + 1 \in counter'..Len(file)
      BY <1>1, <1>2, <1>3, <2>1, <3>1
    <3>. QED
      BY <3>1, <3>2
  <2>2. CASE Fgets /\ counter' = counter
    <3>1. buffer' \in AnyLine /\ \E m \in k..Len(file) : Read(m)'
      BY <1>1, <1>2, <1>4, <2>2, FgetsPlace
    <3>2. PICK m \in k..Len(file) : Read(m)'
      BY <3>1
    <3>3. m \in counter'..Len(file)
      BY <1>1, <1>2, <1>3, <2>2, <3>2
    <3>. QED
      BY <1>1, <2>2, <3>1, <3>2, <3>3
  <2>3. CASE UNCHANGED <<rest, buffer, counter>>
    BY <1>1, <1>2, <1>4, <2>3, ReadKept
  <2>. QED
    BY <1>6, <2>1, <2>2, <2>3
<1>8. ObjInv'
  BY <1>1, <1>7, ObjStep
<1>. QED
  BY <1>1, <1>4, <1>5, <1>7, <1>8 DEF LoadInv, Pcs

\* And so does every step of the rest of the program.
LEMMA LoadStutters == LoadInv /\ UNCHANGED vars => LoadInv'
  BY DEF LoadInv, ObjInv, Read, vars, loader

\* What LoadInv says of the object and of the counts.
LEMMA LoadInvMeans == LoadInv => LoadTypeOK /\ CountsAgree
<1>. SUFFICES ASSUME LoadInv PROVE LoadTypeOK /\ CountsAgree
  OBVIOUS
<1>1. file \in Files /\ counter \in Nat /\ buffer \in AnyLine /\ pc \in Pcs /\ ObjInv
  BY DEF LoadInv, Pcs
<1>2. PICK k \in counter..Len(file) : Read(k)
  BY DEF LoadInv
<1>3. Len(file) \in Nat
  BY <1>1, FilesLength
<1>4. IsSuffix(rest, file)
  <2>1. PICK s \in Seq(AnyLine) : s = file
    BY <1>1, FilesAreLines
  <2>2. k \in 0..Len(s)
    BY <1>1, <1>2, <1>3, <2>1
  <2>3. IsSuffix(SubSeq(s, k + 1, Len(s)), s)
    BY ONLY <2>2, SuffixIsSuffix, s \in Seq(AnyLine)
  <2>. QED
    BY <1>2, <2>1, <2>3 DEF Read
<1>5. counter \in 0..Len(file)
  BY <1>1, <1>2, <1>3
<1>6. ObjectOK
  BY <1>1 DEF ObjInv, ObjectOK, Pcs
<1>7. CountsAgree
  <2>. SUFFICES ASSUME pc = "returned", obj.nchunks # NoInt
                PROVE  /\ obj.nchunks = obj.nhashes + 1
                       /\ obj.hashes # NoHashes /\ Len(obj.hashes) = obj.nhashes
                       /\ obj.chunks # NoChunks => Len(obj.chunks) = obj.nchunks
    BY DEF CountsAgree
  <2>1. counter >= 6
    BY <1>1 DEF ObjInv
  <2>2. /\ obj.nchunks = obj.nhashes + 1 /\ Len(obj.hashes) = obj.nhashes
        /\ \A j \in 1..Len(obj.hashes) : obj.hashes[j] # Unset
    BY <1>1, <2>1 DEF ObjInv
  <2>3. obj.hashes # NoHashes
    <3>1. Len(NoHashes) = 1 /\ 1 \in 1..1
      BY DEF NoHashes
    <3>. QED
      BY <2>2, <3>1 DEF Unset
  <2>4. obj.chunks # NoChunks => Len(obj.chunks) = obj.nchunks
    BY <1>1, <2>1 DEF ObjInv
  <2>. QED
    BY <2>2, <2>3, <2>4
<1>. QED
  BY <1>1, <1>4, <1>5, <1>6, <1>7 DEF LoadTypeOK, Pcs

-----------------------------------------------------------------------------
(***************************************************************************)
(* WrittenInv: a file as it was written                                    *)
(***************************************************************************)

\* A file that begins as Written(p) does.
LEMMA WrittenLines ==
  ASSUME NEW p \in Packages, file \in {Written(p), Trailing(p)}
  PROVE  /\ p.nhashes \in Nat /\ p.nchunks \in Nat /\ Len(file) \in Nat
         /\ Len(file) >= 7 + p.nhashes + p.nchunks
         /\ file[1] = Line("ident", p.identifier) /\ file[2] = Line("filename", p.filename)
         /\ file[3] = Line("size", p.size) /\ file[4] = Line("nhashes", p.nhashes)
         /\ file[5] = Line("hashes", "")
         /\ \A j \in 1..p.nhashes : file[5 + j] = Line("hash", p.hashes[j])
         /\ file[6 + p.nhashes] = Line("nchunks", p.nchunks)
         /\ file[7 + p.nhashes] = Line("chunks", "")
         /\ \A j \in 1..p.nchunks : file[7 + p.nhashes + j] = Line("chunk", p.chunks[j])
<1>1. PICK h \in Nat : h = p.nhashes
  BY PackageTypes
<1>2. PICK c \in Nat : c = p.nchunks
  BY PackageTypes
<1>3. PICK w : w = Written(p)
  OBVIOUS
<1>4. PICK f : f = file
  OBVIOUS
<1>5. IsWritten(w, p)
  BY <1>3, WrittenIs
<1>6. Len(f) \in Nat /\ Len(f) >= 7 + h + c /\ \A i \in 1..(7 + h + c) : f[i] = w[i]
  <2>1. CASE file = Written(p)
    <3>1. f = w /\ Len(w) = 7 + h + c
      BY <1>1, <1>2, <1>3, <1>4, <1>5, <2>1 DEF IsWritten
    <3>. QED
      BY <3>1
  <2>2. CASE file = Trailing(p)
    BY SMTT(30), <1>1, <1>2, <1>3, <1>4, <2>2, TrailingIs
  <2>. QED
    BY <2>1, <2>2
<1>7. /\ f[1] = w[1] /\ f[2] = w[2] /\ f[3] = w[3] /\ f[4] = w[4] /\ f[5] = w[5]
      /\ f[6 + h] = w[6 + h] /\ f[7 + h] = w[7 + h]
  <2>1. {1, 2, 3, 4, 5, 6 + h, 7 + h} \subseteq 1..(7 + h + c)
    OBVIOUS
  <2>. QED
    BY <1>6, <2>1
<1>8. \A j \in 1..h : f[5 + j] = w[5 + j]
  <2>1. \A j \in 1..h : 5 + j \in 1..(7 + h + c)
    OBVIOUS
  <2>. QED
    BY <1>6, <2>1
<1>9. \A j \in 1..c : f[7 + h + j] = w[7 + h + j]
  <2>1. \A j \in 1..c : 7 + h + j \in 1..(7 + h + c)
    OBVIOUS
  <2>. QED
    BY <1>6, <2>1
<1>. QED
  BY ONLY <1>1, <1>2, <1>4, <1>5, <1>6, <1>7, <1>8, <1>9, h \in Nat, c \in Nat DEF IsWritten

\* One call of fgets in the midst of a file.
LEMMA FgetsAt ==
  ASSUME file \in Files, NEW k \in 0..Len(file), k = Place, Read(Place), Fgets, file' = file,
         rest # <<>> \/ Place < Len(file)
  PROVE  k < Len(file) /\ k + 1 \in 1..Len(file) /\ buffer' = file[k + 1] /\ Read(k + 1)'
<1>1. Read(k)
  BY DEF Read
<1>2. k \in Nat /\ Len(file) \in Nat /\ k <= Len(file)
  BY FilesLength
<1>3. /\ rest = <<>> <=> k = Len(file)
      /\ k < Len(file) => buffer' = file[k + 1] /\ Read(k + 1)'
  BY <1>1, FgetsReads
<1>. QED
  BY <1>2, <1>3

\* After a line has been read the place is the next one.
LEMMA PlaceAt ==
  ASSUME NEW k \in 0..Len(file), Len(file) \in Nat, file' = file,
         k < Len(file), Read(k + 1)', Place' = k + 1
  PROVE  Read(Place)' /\ (Place \in 0..Len(file))'
<1>1. k + 1 \in 0..Len(file)
  OBVIOUS
<1>2. Read(Place)'
  BY DEF Read
<1>. QED
  BY <1>1, <1>2

\* An array that has just been allocated is not filled yet.
LEMMA EmptyHasLengthZero == Len(<<>>) = 0 /\ 1..0 = {}
  OBVIOUS

\* A file of which nothing has been read.
LEMMA Unread ==
  ASSUME file \in Files, Read(0)
  PROVE  rest = file
<1>1. PICK s \in Seq(AnyLine) : s = file
  BY FilesAreLines
<1>2. SubSeq(s, 0 + 1, Len(s)) = s
  BY SubSeqFull
<1>. QED
  BY <1>1, <1>2 DEF Read

\* The first four lines of a written file are stored in their fields.
LEMMA WrittenHeader ==
  ASSUME NEW p \in Packages, LoadInv, WrittenFields(p), pc \notin {"exited", "aborted"},
         file \in {Written(p), Trailing(p)}, Place \in 0..Len(file), Read(Place), Header
  PROVE  /\ \/ pc' = "exited" /\ p.identifier \notin Hex
            \/ pc' = "lines" /\ Place' = Place + 1 /\ Place < Len(file) /\ WrittenFields(p)'
         /\ \A k \in 0..Len(file) : k = Place => Read(k + 1)'
<1>1. /\ file \in Files /\ counter \in Nat /\ obj \in ObjType
  BY DEF LoadInv, ObjInv
<1>2. PICK k \in 0..Len(file) : k = Place
  OBVIOUS
<1>3. ASSUME Fgets, rest # <<>>, file' = file
      PROVE  k < Len(file) /\ k + 1 \in 1..Len(file) /\ buffer' = file[k + 1] /\ Read(k + 1)'
  BY <1>1, <1>2, <1>3, FgetsAt
<1>4. PICK n \in 0..3 : Round(n)
  BY DEF Header, Ident, Filename, Size, Nhashes
<1>5. /\ rest # <<>> /\ Fgets /\ counter = n /\ counter' = n + 1 /\ pc = "lines" /\ file' = file
  BY <1>4 DEF Round
<1>6. k = n /\ Place' = n + 1
  <2>1. hashesRead = 0 /\ chunksRead = 0
    BY <1>5 DEF hashesRead, chunksRead
  <2>2. hashesRead' = 0 /\ chunksRead' = 0
    BY <1>5 DEF hashesRead, chunksRead
  <2>. QED
    BY <1>2, <1>5, <2>1, <2>2 DEF Place
<1>7. k < Len(file) /\ buffer' = file[n + 1] /\ Read(k + 1)'
  BY <1>3, <1>5, <1>6
<1>8. /\ file[1] = Line("ident", p.identifier) /\ file[2] = Line("filename", p.filename)
      /\ file[3] = Line("size", p.size) /\ file[4] = Line("nhashes", p.nhashes)
  BY WrittenLines
<1>9. CASE Ident
  <2>1. n = 0 /\ obj' = [obj EXCEPT !.identifier = Scan(buffer', "ident", @)]
        /\ pc' = IF obj'.identifier \in Hex THEN "lines" ELSE "exited"
    BY <1>5, <1>9 DEF Ident, Round
  <2>2. buffer' = Line("ident", p.identifier)
    BY <1>7, <1>8, <2>1
  <2>3. obj'.identifier = p.identifier
    BY <1>1, <2>1, <2>2, LineParts DEF Scan, ObjType
  <2>4. pc' = "lines" => WrittenFields(p)'
    BY <1>5, <2>1, <2>3 DEF WrittenFields
  <2>. QED
    BY <1>2, <1>6, <1>7, <2>1, <2>3, <2>4
<1>10. CASE Filename
  <2>1. n = 1 /\ obj' = [obj EXCEPT !.filename = Scan(buffer', "filename", @)] /\ pc' = pc
    BY <1>5, <1>10 DEF Filename, Round
  <2>2. buffer' = Line("filename", p.filename)
    BY <1>7, <1>8, <2>1
  <2>3. obj'.filename = p.filename /\ obj'.identifier = obj.identifier
    BY <1>1, <2>1, <2>2, LineParts DEF Scan, ObjType
  <2>4. WrittenFields(p)'
    BY <1>5, <2>1, <2>3 DEF WrittenFields
  <2>. QED
    BY <1>2, <1>5, <1>6, <1>7, <2>1, <2>4
<1>11. CASE Size
  <2>1. n = 2 /\ obj' = [obj EXCEPT !.size = Scan(buffer', "size", @)] /\ pc' = pc
    BY <1>5, <1>11 DEF Size, Round
  <2>2. buffer' = Line("size", p.size)
    BY <1>7, <1>8, <2>1
  <2>3. obj'.size = p.size /\ obj'.identifier = obj.identifier /\ obj'.filename = obj.filename
    BY <1>1, <2>1, <2>2, LineParts DEF Scan, ObjType
  <2>4. WrittenFields(p)'
    BY <1>5, <2>1, <2>3 DEF WrittenFields
  <2>. QED
    BY <1>2, <1>5, <1>6, <1>7, <2>1, <2>4
<1>12. CASE Nhashes
  <2>1. n = 3 /\ obj' = [obj EXCEPT !.nhashes = Scan(buffer', "nhashes", @)] /\ pc' = pc
    BY <1>5, <1>12 DEF Nhashes, Round
  <2>2. buffer' = Line("nhashes", p.nhashes)
    BY <1>7, <1>8, <2>1
  <2>3. obj'.nhashes = p.nhashes /\ obj'.identifier = obj.identifier
        /\ obj'.filename = obj.filename /\ obj'.size = obj.size
    BY <1>1, <2>1, <2>2, LineParts DEF Scan, ObjType
  <2>4. WrittenFields(p)'
    BY <1>5, <2>1, <2>3 DEF WrittenFields
  <2>. QED
    BY <1>2, <1>5, <1>6, <1>7, <2>1, <2>4
<1>. QED
  BY <1>9, <1>10, <1>11, <1>12 DEF Header

\* Then its hashes.
LEMMA WrittenHashes ==
  ASSUME NEW p \in Packages, LoadInv, WrittenFields(p), pc \notin {"exited", "aborted"},
         file \in {Written(p), Trailing(p)}, Place \in 0..Len(file), Read(Place), Hashes \/ Hash
  PROVE  /\ pc' # "aborted" /\ pc' # "exited" /\ pc' # "returned"
         /\ Place' = Place + 1 /\ Place < Len(file) /\ WrittenFields(p)'
         /\ \A k \in 0..Len(file) : k = Place => Read(k + 1)'
<1>1. /\ file \in Files /\ counter \in Nat /\ obj \in ObjType /\ ObjInv
  BY DEF LoadInv, ObjInv
<1>2. PICK k \in 0..Len(file) : k = Place
  OBVIOUS
<1>3. ASSUME Fgets, rest # <<>> \/ k < Len(file), file' = file
      PROVE  k < Len(file) /\ k + 1 \in 1..Len(file) /\ buffer' = file[k + 1] /\ Read(k + 1)'
  BY <1>1, <1>2, <1>3, FgetsAt
<1>4. PICK h \in Nat : h = p.nhashes /\ \A j \in 1..h : file[5 + j] = Line("hash", p.hashes[j])
  BY WrittenLines
<1>5. Len(file) \in Nat /\ Len(file) >= 7 + h
  <2>1. PICK c \in Nat : c = p.nchunks
    BY PackageTypes
  <2>2. Len(file) \in Nat /\ Len(file) >= 7 + h + c
    BY <1>4, <2>1, WrittenLines
  <2>. QED
    BY <2>2
<1>6. CASE Hashes
  <2>1. /\ rest # <<>> /\ Fgets /\ counter = 4 /\ counter' = 5 /\ pc = "lines" /\ file' = file
    BY <1>6 DEF Hashes, Round
  <2>2. obj.nhashes = h
    BY <1>4, <2>1 DEF WrittenFields
  <2>3. pc' = "hashes" /\ obj' = [obj EXCEPT !.hashes = <<>>]
    BY <1>4, <1>6, <2>2 DEF Hashes, NoInt
  <2>4. /\ Len(obj'.hashes) = 0 /\ obj'.identifier = obj.identifier /\ obj'.filename = obj.filename
        /\ obj'.size = obj.size /\ obj'.nhashes = obj.nhashes
    BY <1>1, <2>3, EmptyHasLengthZero DEF ObjType
  <2>5. hashesRead = 0 /\ chunksRead = 0 /\ hashesRead' = 0 /\ chunksRead' = 0
    BY <2>1, <2>4 DEF hashesRead, chunksRead
  <2>6. k = 4 /\ Place' = k + 1
    BY <1>2, <2>1, <2>5 DEF Place
  <2>7. k < Len(file) /\ Read(k + 1)'
    BY <1>3, <2>1
  <2>8. WrittenFields(p)'
    BY <2>1, <2>4, EmptyHasLengthZero DEF WrittenFields
  <2>. QED
    BY <1>2, <2>3, <2>6, <2>7, <2>8
<1>7. CASE Hash
  <2>1. PICK s \in Seq(Texts) : s = obj.hashes
    BY <1>1 DEF ObjType
  <2>2. PICK l \in Nat : l = Len(s)
    BY LenProperties
  <2>3. /\ Fgets /\ counter = 5 /\ UNCHANGED <<counter, pc>> /\ pc = "hashes" /\ file' = file
        /\ obj' = [obj EXCEPT !.hashes = Append(s, Word(buffer'))]
        /\ l < obj.nhashes
    BY <1>1, <1>7, <2>1, <2>2 DEF Hash, ObjInv
  <2>4. obj.nhashes = h
    BY <1>4, <2>3 DEF WrittenFields
  <2>5. hashesRead = l /\ chunksRead = 0
    BY <2>1, <2>2, <2>3 DEF hashesRead, chunksRead
  <2>6. k = 5 + l
    BY <1>2, <2>3, <2>5 DEF Place
  <2>7. k < Len(file) /\ buffer' = file[k + 1] /\ Read(k + 1)'
    BY <1>3, <1>5, <2>3, <2>4, <2>6
  <2>8. k + 1 = 5 + (l + 1) /\ l + 1 \in 1..h
    BY <1>4, <2>3, <2>4, <2>6
  <2>9. buffer' = Line("hash", p.hashes[l + 1])
    BY <1>4, <2>7, <2>8
  <2>10. Word(buffer') = p.hashes[l + 1]
    BY <2>9, LineParts DEF Word
  <2>11. LoadInv'
    BY LoadStep, <1>7 DEF Load, HashLines
  <2>12. PICK t \in Texts : t = Word(buffer')
    BY <2>11, LineFacts DEF LoadInv
  <2>13. /\ Len(Append(s, t)) = Len(s) + 1
         /\ \A j \in 1..Len(s) : Append(s, t)[j] = s[j]
         /\ Append(s, t)[Len(s) + 1] = t
    BY ONLY AppendProperties, s \in Seq(Texts), t \in Texts
  <2>14. /\ obj'.hashes = Append(s, t) /\ obj'.identifier = obj.identifier
         /\ obj'.filename = obj.filename /\ obj'.size = obj.size /\ obj'.nhashes = obj.nhashes
    BY <1>1, <2>3, <2>12 DEF ObjType
  <2>15. \A j \in 1..l : s[j] = p.hashes[j]
    BY <2>1, <2>2, <2>3 DEF WrittenFields
  <2>16. \A j \in 1..(l + 1) : Append(s, t)[j] = p.hashes[j]
    <3>. SUFFICES ASSUME NEW j \in 1..(l + 1) PROVE Append(s, t)[j] = p.hashes[j]
      OBVIOUS
    <3>1. CASE j = l + 1
      BY <2>2, <2>10, <2>12, <2>13, <3>1
    <3>2. CASE j # l + 1
      <4>1. j \in 1..l
        BY <3>2
      <4>. QED
        BY <2>2, <2>13, <2>15, <4>1
    <3>. QED
      BY <3>1, <3>2
  <2>17. Len(obj'.hashes) = l + 1 /\ \A j \in 1..Len(obj'.hashes) : obj'.hashes[j] = p.hashes[j]
    BY <2>2, <2>13, <2>14, <2>16
  <2>18. hashesRead' = l + 1 /\ chunksRead' = 0
    BY <2>3, <2>17 DEF hashesRead, chunksRead
  <2>19. Place' = k + 1
    BY <2>3, <2>6, <2>18 DEF Place
  <2>20. WrittenFields(p)'
    BY <2>3, <2>14, <2>17 DEF WrittenFields
  <2>. QED
    BY <1>2, <2>3, <2>7, <2>19, <2>20
<1>. QED
  BY <1>6, <1>7

\* Then the number of its chunks, or the load ends.
LEMMA WrittenNchunks ==
  ASSUME NEW p \in Packages, LoadInv, WrittenFields(p), pc \notin {"exited", "aborted"},
         file \in {Written(p), Trailing(p)}, Place \in 0..Len(file), Read(Place), Nchunks
  PROVE  /\ \/ pc' = "exited" /\ p.nchunks # p.nhashes + 1
            \/ pc' = "lines" /\ Place' = Place + 1 /\ Place < Len(file) /\ WrittenFields(p)'
         /\ \A k \in 0..Len(file) : k = Place => Read(k + 1)'
<1>1. /\ file \in Files /\ counter \in Nat /\ obj \in ObjType /\ ObjInv
  BY DEF LoadInv, ObjInv
<1>2. PICK k \in 0..Len(file) : k = Place
  OBVIOUS
<1>3. ASSUME Fgets, rest # <<>> \/ k < Len(file), file' = file
      PROVE  k < Len(file) /\ k + 1 \in 1..Len(file) /\ buffer' = file[k + 1] /\ Read(k + 1)'
  BY <1>1, <1>2, <1>3, FgetsAt
<1>4. PICK h \in Nat : h = p.nhashes /\ file[6 + h] = Line("nchunks", p.nchunks)
  BY WrittenLines
<1>5. /\ rest # <<>> /\ Fgets /\ counter = 5 /\ counter' = 6 /\ pc = "lines" /\ file' = file
      /\ obj' = [obj EXCEPT !.nchunks = Scan(buffer', "nchunks", @)]
      /\ pc' = IF obj'.nchunks = obj.nhashes + 1 THEN "lines" ELSE "exited"
  BY DEF Nchunks, Round
<1>6. obj.nhashes = h /\ Len(obj.hashes) = h
  BY <1>1, <1>4, <1>5 DEF WrittenFields, ObjInv
<1>7. hashesRead = h /\ chunksRead = 0
  BY <1>5, <1>6 DEF hashesRead, chunksRead
<1>8. k = 5 + h /\ k + 1 = 6 + h
  BY <1>2, <1>5, <1>7 DEF Place
<1>9. k < Len(file) /\ buffer' = Line("nchunks", p.nchunks) /\ Read(k + 1)'
  BY <1>3, <1>4, <1>5, <1>8
<1>10. /\ obj'.nchunks = p.nchunks /\ obj'.identifier = obj.identifier /\ obj'.filename = obj.filename
       /\ obj'.size = obj.size /\ obj'.nhashes = obj.nhashes /\ obj'.hashes = obj.hashes
  BY <1>1, <1>5, <1>9, LineParts DEF Scan, ObjType
<1>11. hashesRead' = h /\ chunksRead' = 0
  BY <1>5, <1>6, <1>10 DEF hashesRead, chunksRead
<1>12. Place' = k + 1
  BY <1>5, <1>8, <1>11 DEF Place
<1>13. WrittenFields(p)'
  BY <1>5, <1>10 DEF WrittenFields
<1>. QED
  BY <1>2, <1>4, <1>5, <1>6, <1>9, <1>10, <1>12, <1>13

\* Then its chunks.
LEMMA WrittenChunks ==
  ASSUME NEW p \in Packages, LoadInv, WrittenFields(p), pc \notin {"exited", "aborted"},
         file \in {Written(p), Trailing(p)}, Place \in 0..Len(file), Read(Place), Chunks \/ Chunk
  PROVE  /\ pc' # "aborted" /\ pc' # "exited" /\ pc' # "returned"
         /\ Place' = Place + 1 /\ Place < Len(file) /\ WrittenFields(p)'
         /\ \A k \in 0..Len(file) : k = Place => Read(k + 1)'
<1>1. /\ file \in Files /\ counter \in Nat /\ obj \in ObjType /\ ObjInv
  BY DEF LoadInv, ObjInv
<1>2. PICK k \in 0..Len(file) : k = Place
  OBVIOUS
<1>3. ASSUME Fgets, rest # <<>> \/ k < Len(file), file' = file
      PROVE  k < Len(file) /\ k + 1 \in 1..Len(file) /\ buffer' = file[k + 1] /\ Read(k + 1)'
  BY <1>1, <1>2, <1>3, FgetsAt
<1>4. PICK h \in Nat, c \in Nat :
        /\ h = p.nhashes /\ c = p.nchunks
        /\ \A j \in 1..c : file[7 + h + j] = Line("chunk", p.chunks[j])
        /\ Len(file) \in Nat /\ Len(file) >= 7 + h + c
  BY WrittenLines
<1>6. CASE Chunks
  <2>1. /\ rest # <<>> /\ Fgets /\ counter = 6 /\ counter' = 7 /\ pc = "lines" /\ file' = file
        /\ pc' = "chunks" /\ obj' = [obj EXCEPT !.chunks = <<>>]
    BY <1>6 DEF Chunks, Round
  <2>2. obj.nhashes = h /\ Len(obj.hashes) = h
    BY <1>1, <1>4, <2>1 DEF WrittenFields, ObjInv
  <2>4. /\ Len(obj'.chunks) = 0 /\ obj'.identifier = obj.identifier /\ obj'.filename = obj.filename
        /\ obj'.size = obj.size /\ obj'.nhashes = obj.nhashes /\ obj'.hashes = obj.hashes
        /\ obj'.nchunks = obj.nchunks
    BY <1>1, <2>1, EmptyHasLengthZero DEF ObjType
  <2>5. hashesRead = h /\ chunksRead = 0 /\ hashesRead' = h /\ chunksRead' = 0
    BY <2>1, <2>2, <2>4 DEF hashesRead, chunksRead
  <2>6. k = 6 + h /\ Place' = k + 1
    BY <1>2, <2>1, <2>5 DEF Place
  <2>7. k < Len(file) /\ Read(k + 1)'
    BY <1>3, <2>1
  <2>8. WrittenFields(p)'
    BY <2>1, <2>4, EmptyHasLengthZero DEF WrittenFields
  <2>. QED
    BY <1>2, <2>1, <2>6, <2>7, <2>8
<1>7. CASE Chunk
  <2>1. PICK s \in Seq(ChunkType) : s = obj.chunks
    BY <1>1 DEF ObjType
  <2>2. PICK l \in Nat : l = Len(s)
    BY LenProperties
  <2>3. /\ Fgets /\ counter = 7 /\ UNCHANGED <<counter, pc>> /\ pc = "chunks" /\ file' = file
        /\ obj' = [obj EXCEPT !.chunks = Append(s, ChunkOf(buffer'))]
        /\ l < obj.nchunks
    BY <1>1, <1>7, <2>1, <2>2 DEF Chunk, ObjInv
  <2>4. obj.nchunks = c /\ obj.nhashes = h /\ Len(obj.hashes) = h
    BY <1>1, <1>4, <2>3 DEF WrittenFields, ObjInv
  <2>5. hashesRead = h /\ chunksRead = l
    BY <2>1, <2>2, <2>3, <2>4 DEF hashesRead, chunksRead
  <2>6. k = 7 + h + l
    BY <1>2, <2>3, <2>5 DEF Place
  <2>7. k < Len(file) /\ buffer' = file[k + 1] /\ Read(k + 1)'
    BY <1>3, <1>4, <2>3, <2>4, <2>6
  <2>8. k + 1 = 7 + h + (l + 1) /\ l + 1 \in 1..c
    <3>1. l < c
      BY <2>3, <2>4
    <3>. QED
      BY <2>6, <3>1
  <2>9. buffer' = Line("chunk", p.chunks[l + 1])
    BY <1>4, <2>7, <2>8
  <2>10. ChunkOf(buffer') = p.chunks[l + 1]
    BY <2>9, LineParts DEF ChunkOf
  <2>11. LoadInv'
    BY LoadStep, <1>7 DEF Load, ChunkLines
  <2>12. PICK t \in ChunkType : t = ChunkOf(buffer')
    BY <2>11, LineFacts DEF LoadInv
  <2>13. /\ Len(Append(s, t)) = Len(s) + 1
         /\ \A j \in 1..Len(s) : Append(s, t)[j] = s[j]
         /\ Append(s, t)[Len(s) + 1] = t
    BY ONLY AppendProperties, s \in Seq(ChunkType), t \in ChunkType
  <2>14. /\ obj'.chunks = Append(s, t) /\ obj'.identifier = obj.identifier
         /\ obj'.filename = obj.filename /\ obj'.size = obj.size /\ obj'.nhashes = obj.nhashes
         /\ obj'.hashes = obj.hashes /\ obj'.nchunks = obj.nchunks
    BY <1>1, <2>3, <2>12 DEF ObjType
  <2>15. \A j \in 1..l : s[j] = p.chunks[j]
    BY <2>1, <2>2, <2>3 DEF WrittenFields
  <2>16. \A j \in 1..(l + 1) : Append(s, t)[j] = p.chunks[j]
    <3>. SUFFICES ASSUME NEW j \in 1..(l + 1) PROVE Append(s, t)[j] = p.chunks[j]
      OBVIOUS
    <3>1. CASE j = l + 1
      BY <2>2, <2>10, <2>12, <2>13, <3>1
    <3>2. CASE j # l + 1
      <4>1. j \in 1..l
        BY <3>2
      <4>. QED
        BY <2>2, <2>13, <2>15, <4>1
    <3>. QED
      BY <3>1, <3>2
  <2>17. Len(obj'.chunks) = l + 1 /\ \A j \in 1..Len(obj'.chunks) : obj'.chunks[j] = p.chunks[j]
    BY <2>2, <2>13, <2>14, <2>16
  <2>18. hashesRead' = h /\ chunksRead' = l + 1
    BY <2>3, <2>4, <2>14, <2>17 DEF hashesRead, chunksRead
  <2>19. Place' = k + 1
    BY <2>3, <2>6, <2>18 DEF Place
  <2>20. WrittenFields(p)'
    BY <2>3, <2>14, <2>17 DEF WrittenFields
  <2>. QED
    BY <1>2, <2>3, <2>7, <2>19, <2>20
<1>. QED
  BY <1>6, <1>7

\* Then an empty line, which changes nothing.
LEMMA WrittenIgnored ==
  ASSUME NEW p \in Packages, LoadInv, WrittenFields(p),
         Place \in 0..Len(file), Read(Place), Ignored
  PROVE  /\ pc' = "lines" /\ file' = file
         /\ Place' = Place + 1 /\ Place < Len(file) /\ WrittenFields(p)'
         /\ \A k \in 0..Len(file) : k = Place => Read(k + 1)'
<1>1. /\ file \in Files /\ counter \in Nat /\ obj \in ObjType
  BY DEF LoadInv, ObjInv
<1>2. PICK k \in 0..Len(file) : k = Place
  OBVIOUS
<1>3. /\ rest # <<>> /\ Fgets /\ counter' = counter + 1 /\ pc' = "lines" /\ file' = file
      /\ counter > 6 /\ obj' = obj
  BY DEF Ignored, Round
<1>4. k < Len(file) /\ Read(k + 1)'
  BY <1>1, <1>2, <1>3, FgetsAt
<1>5. hashesRead' = hashesRead /\ chunksRead' = chunksRead
  BY <1>1, <1>3 DEF hashesRead, chunksRead
<1>6. hashesRead \in Nat /\ chunksRead \in Nat
  BY <1>1, LenProperties DEF hashesRead, chunksRead, ObjType
<1>7. Place' = k + 1
  BY <1>1, <1>2, <1>3, <1>5, <1>6 DEF Place
<1>8. WrittenFields(p)'
  BY <1>1, <1>3 DEF WrittenFields
<1>. QED
  BY <1>2, <1>3, <1>4, <1>7, <1>8

\* At the end of a file that is as it was written every field is filled.
LEMMA WrittenEnd ==
  ASSUME NEW p \in Packages, LoadInv, WrittenFields(p), file \in {Written(p), Trailing(p)},
         Place \in 0..Len(file), Read(Place), EndOfFile
  PROVE  counter >= 7
<1>1. /\ file \in Files /\ counter \in Nat /\ obj \in ObjType /\ ObjInv
  BY DEF LoadInv, ObjInv
<1>2. PICK h \in Nat, c \in Nat :
        h = p.nhashes /\ c = p.nchunks /\ Len(file) \in Nat /\ Len(file) >= 7 + h + c
  BY WrittenLines
<1>3. pc = "lines" /\ rest = <<>>
  BY DEF EndOfFile
<1>4. Place = Len(file)
  <2>1. PICK k \in 0..Len(file) : k = Place
    OBVIOUS
  <2>2. PICK s \in Seq(AnyLine) : s = file
    BY <1>1, FilesAreLines
  <2>3. PICK r : r = rest
    OBVIOUS
  <2>4. r = SubSeq(s, k + 1, Len(s)) /\ k \in 0..Len(s)
    BY <2>1, <2>2, <2>3 DEF Read
  <2>5. r = <<>> <=> k = Len(s)
    BY ONLY <2>4, NextLine, s \in Seq(AnyLine)
  <2>. QED
    BY <1>3, <2>1, <2>2, <2>3, <2>5
<1>5. ASSUME counter < 7 PROVE FALSE
  <2>1. chunksRead = 0
    BY <1>1, <1>5 DEF chunksRead
  <2>2. counter < 5 => hashesRead = 0
    BY <1>1 DEF hashesRead
  <2>3. counter >= 5 => hashesRead = h
    BY <1>1, <1>2, <1>3 DEF hashesRead, ObjInv, WrittenFields
  <2>. QED
    BY <1>1, <1>2, <1>4, <1>5, <2>1, <2>2, <2>3 DEF Place
<1>. QED
  BY <1>1, <1>5

\* Every step of bpkg_load keeps WrittenInv.
LEMMA WrittenStep == \A p \in Packages : LoadInv /\ WrittenInv(p) /\ Load => WrittenInv(p)'
<1>. SUFFICES ASSUME NEW p \in Packages, LoadInv, WrittenInv(p), Load PROVE WrittenInv(p)'
  OBVIOUS
<1>1. file' = file /\ pc \notin {"exited", "aborted"}
  BY DEF Load, Header, HashLines, ChunkLines, Open, Ident, Filename, Size, Nhashes, Hashes, Hash,
     HashesEnd, Nchunks, Chunks, Chunk, ChunksEnd, Ignored, EndOfFile, Round
<1>2. CASE file \notin {Written(p), Trailing(p)}
  BY <1>1, <1>2 DEF WrittenInv
<1>3. CASE file \in {Written(p), Trailing(p)}
  <2>1. Read(Place) /\ Place \in 0..Len(file) /\ WrittenFields(p)
    BY <1>1, <1>3 DEF WrittenInv
  <2>2. /\ file \in Files /\ counter \in Nat /\ obj \in ObjType /\ ObjInv /\ pc \in Pcs
    BY DEF LoadInv, ObjInv, Pcs
  <2>3. PICK k \in 0..Len(file) : k = Place
    BY <2>1
  <2>4. ASSUME k < Len(file), Place' = k + 1, Read(k + 1)', WrittenFields(p)',
               pc' \notin {"exited", "aborted", "returned"}
        PROVE  WrittenInv(p)'
    <3>1. Read(Place)' /\ (Place \in 0..Len(file))'
      BY <1>1, <2>2, <2>4, FilesLength, PlaceAt
    <3>. QED
      BY <2>4, <3>1 DEF WrittenInv
  <2>5. ASSUME pc' = "exited", p.identifier \notin Hex \/ p.nchunks # p.nhashes + 1
        PROVE  WrittenInv(p)'
    BY <2>5 DEF WrittenInv
  <2>6. ASSUME UNCHANGED <<rest, counter, obj>>, pc' \notin {"exited", "aborted"},
               pc' = "returned" => counter >= 7
        PROVE  WrittenInv(p)'
    <3>1. Place' = Place /\ (WrittenFields(p) => WrittenFields(p)')
      BY <2>6 DEF Place, hashesRead, chunksRead, WrittenFields
    <3>2. Read(k)' /\ Len(file') = Len(file)
      BY <1>1, <2>1, <2>3, <2>6 DEF Read
    <3>3. Read(Place)' /\ (Place \in 0..Len(file))'
      BY <2>3, <3>1, <3>2 DEF Read
    <3>. QED
      BY <2>1, <2>6, <3>1, <3>3 DEF WrittenInv
  <2>7. CASE Open
    <3>1. pc = "open" /\ UNCHANGED <<rest, counter, obj>> /\ pc' \in {"lines", "exited"}
      BY <2>7 DEF Open
    <3>2. CASE pc' = "lines"
      BY <2>6, <3>1, <3>2
    <3>3. CASE pc' = "exited"
      <4>1. counter = 0
        BY <2>2, <3>1 DEF ObjInv
      <4>2. Place = 0
        BY <4>1 DEF Place, hashesRead, chunksRead
      <4>3. rest = file
        BY <2>1, <2>2, <4>2, Unread
      <4>. QED
        BY <1>1, <3>1, <3>3, <4>3 DEF WrittenInv
    <3>. QED
      BY <3>1, <3>2, <3>3
  <2>8. CASE Header
    BY <1>1, <1>3, <2>1, <2>3, <2>4, <2>5, <2>8, WrittenHeader
  <2>9. CASE Hashes \/ Hash
    BY <1>1, <1>3, <2>1, <2>3, <2>4, <2>9, WrittenHashes
  <2>10. CASE Nchunks
    BY <1>1, <1>3, <2>1, <2>3, <2>4, <2>5, <2>10, WrittenNchunks
  <2>11. CASE Chunks \/ Chunk
    BY <1>1, <1>3, <2>1, <2>3, <2>4, <2>11, WrittenChunks
  <2>12. CASE Ignored
    BY <1>1, <1>3, <2>1, <2>3, <2>4, <2>12, WrittenIgnored
  <2>13. CASE HashesEnd \/ ChunksEnd
    BY <2>6, <2>13 DEF HashesEnd, ChunksEnd
  <2>14. CASE EndOfFile
    <3>1. counter >= 7
      BY <1>3, <2>1, <2>14, WrittenEnd
    <3>. QED
      BY <2>6, <2>14, <3>1 DEF EndOfFile
  <2>. QED
    BY <2>7, <2>8, <2>9, <2>10, <2>11, <2>12, <2>13, <2>14 DEF Load, HashLines, ChunkLines
<1>. QED
  BY <1>2, <1>3

\* WrittenInv holds before the first line.
LEMMA WrittenInitially == \A p \in Packages : LoadInit => WrittenInv(p)
<1>. SUFFICES ASSUME NEW p \in Packages, LoadInit PROVE WrittenInv(p)
  OBVIOUS
<1>1. file \in Files /\ rest = file /\ counter = 0 /\ pc = "open" /\ obj = NoObject
  BY DEF LoadInit
<1>2. PICK s \in Seq(AnyLine) : s = file
  BY <1>1, FilesAreLines
<1>3. SubSeq(s, 0 + 1, Len(s)) = s
  BY SubSeqFull
<1>4. Place = 0
  BY <1>1 DEF Place, hashesRead, chunksRead
<1>5. Read(0) /\ 0 \in 0..Len(file)
  BY <1>1, <1>2, <1>3, LenProperties DEF Read
<1>6. WrittenFields(p)
  BY <1>1 DEF WrittenFields
<1>. QED
  BY <1>1, <1>4, <1>5, <1>6 DEF WrittenInv

\* And after every step of the rest of the program.
LEMMA WrittenStutters == \A p \in Packages : WrittenInv(p) /\ UNCHANGED vars => WrittenInv(p)'
<1>. SUFFICES ASSUME NEW p \in Packages, WrittenInv(p), UNCHANGED vars PROVE WrittenInv(p)'
  OBVIOUS
<1>1. UNCHANGED <<file, rest, buffer, counter, obj, pc>>
  BY DEF vars, loader
<1>2. Place' = Place
  BY <1>1 DEF Place, hashesRead, chunksRead
<1>3. Read(Place)' = Read(Place)
  BY <1>1, <1>2 DEF Read
<1>4. WrittenFields(p)' = WrittenFields(p)
  BY <1>1, Zenon DEF WrittenFields
<1>. QED
  BY <1>1, <1>2, <1>3, <1>4 DEF WrittenInv

\* A sequence over a set is one over a larger set.
LEMMA SeqWider ==
  ASSUME NEW S, NEW T, NEW s \in Seq(S), \A x \in S : x \in T
  PROVE  s \in Seq(T)
<1>1. PICK l \in Nat : l = Len(s)
  BY LenProperties
<1>2. s \in [1..l -> S]
  BY <1>1, LenProperties
<1>3. s \in [1..l -> T]
  BY <1>2
<1>. QED
  BY ONLY <1>3, FunctionIsSequence, l \in Nat

\* An object whose fields are all those of p is p.
LEMMA WrittenMeans == LoadInv /\ AllWritten => LoadedAsWritten
<1>. SUFFICES ASSUME LoadInv, NEW p \in Packages, WrittenInv(p), file \in {Written(p), Trailing(p)}
              PROVE  /\ pc = "returned" =>
                          obj = p /\ p.identifier \in Hex /\ p.nchunks = p.nhashes + 1
                     /\ pc = "exited" =>
                          \/ rest = file
                          \/ p.identifier \notin Hex
                          \/ p.nchunks # p.nhashes + 1
                     /\ pc # "aborted"
  BY DEF AllWritten, LoadedAsWritten
<1>1. pc # "aborted" /\ (pc = "exited" => rest = file \/ p.identifier \notin Hex \/ p.nchunks # p.nhashes + 1)
  BY DEF WrittenInv
<1>2. ASSUME pc = "returned" PROVE obj = p /\ p.identifier \in Hex /\ p.nchunks = p.nhashes + 1
  <2>1. counter >= 7 /\ WrittenFields(p) /\ ObjInv /\ counter \in Nat
    BY <1>2 DEF WrittenInv, LoadInv
  <2>2. /\ obj.identifier = p.identifier /\ p.identifier \in Hex /\ obj.filename = p.filename
        /\ obj.size = p.size /\ obj.nhashes = p.nhashes /\ obj.nchunks = p.nchunks
        /\ \A j \in 1..Len(obj.hashes) : obj.hashes[j] = p.hashes[j]
        /\ \A j \in 1..Len(obj.chunks) : obj.chunks[j] = p.chunks[j]
    BY <2>1 DEF WrittenFields
  <2>3. /\ Len(obj.hashes) = obj.nhashes /\ Len(obj.chunks) = obj.nchunks
        /\ obj.nchunks = obj.nhashes + 1
    BY <1>2, <2>1 DEF ObjInv
  <2>4. obj \in ObjType
    BY <2>1 DEF ObjInv
  <2>5. obj.hashes \in Seq(Texts) /\ obj.chunks \in Seq(ChunkType)
    BY <2>4 DEF ObjType
  <2>6. /\ p.hashes \in Seq(STRING) /\ p.chunks \in Seq([hash : STRING, offset : Nat, size : Nat])
        /\ Len(p.hashes) = p.nhashes /\ Len(p.chunks) = p.nchunks
    BY PackageTypes DEF WellFormed
  <2>7. obj.hashes = p.hashes
    <3>0. p.hashes \in Seq(Texts)
      BY <2>6, StringsAreTexts, SeqWider
    <3>1. Len(obj.hashes) = Len(p.hashes)
      BY <2>2, <2>3, <2>6
    <3>. QED
      BY ONLY <2>2, <2>5, <3>0, <3>1, SeqEqual
  <2>8. obj.chunks = p.chunks
    <3>0. p.chunks \in Seq(ChunkType)
      BY <2>6, ChunkIsChunk, SeqWider
    <3>1. Len(obj.chunks) = Len(p.chunks)
      BY <2>2, <2>3, <2>6
    <3>. QED
      BY ONLY <2>2, <2>5, <3>0, <3>1, SeqEqual
  <2>9. obj = p
    BY SMTT(30), <2>2, <2>4, <2>7, <2>8, PackageTypes DEF ObjType
  <2>. QED
    BY <2>2, <2>3, <2>9
<1>. QED
  BY <1>1, <1>2

-----------------------------------------------------------------------------
(***************************************************************************)
(* LostInv: a file that lost a line                                        *)
(***************************************************************************)

\* A file that lost its n-th line, at the places where it is noticed.
LEMMA LostLines ==
  ASSUME NEW p \in Packages, NEW n \in 1..(p.nhashes + 6), file = RemoveAt(Written(p), n)
  PROVE  /\ p.nhashes \in Nat /\ Len(file) \in Nat /\ Len(file) >= 6 + p.nhashes
         /\ n # 1 => file[1] = Line("ident", p.identifier)
         /\ n = 1 => file[1] = Line("filename", p.filename)
         /\ n <= 4 => file[4] = Line("hashes", "")
         /\ n > 4 => file[4] = Line("nhashes", p.nhashes)
         /\ file[6 + p.nhashes] = Line("chunks", "")
<1>1. PICK h \in Nat : h = p.nhashes
  BY PackageTypes
<1>2. PICK c \in Nat : c = p.nchunks
  BY PackageTypes
<1>3. PICK w \in Seq(AnyLine) : w = Written(p) /\ IsWritten(w, p)
  BY WrittenIs DEF IsWritten
<1>0. Len(w) = 7 + h + c
  BY <1>1, <1>2, <1>3 DEF IsWritten
<1>4. w[1] = Line("ident", p.identifier) /\ w[2] = Line("filename", p.filename)
      /\ w[4] = Line("nhashes", p.nhashes) /\ w[5] = Line("hashes", "") /\ w[7 + h] = Line("chunks", "")
  BY <1>1, <1>2, <1>3 DEF IsWritten
<1>5. PICK f : f = file
  OBVIOUS
<1>6. n \in 1..(h + 6)
  BY <1>1
<1>7. n \in 1..Len(w)
  BY <1>0, <1>6
<1>8. Without(w, n, f)
  BY <1>3, <1>5, <1>7, RemoveAtIs
<1>9. /\ Len(f) = 6 + h + c
      /\ \A i \in 1..(n - 1) : f[i] = w[i]
      /\ \A i \in n..(6 + h + c) : f[i] = w[i + 1]
  <2>1. Len(w) - 1 = 6 + h + c
    BY <1>0
  <2>. QED
    BY ONLY <1>8, <2>1 DEF Without
<1>10. n # 1 => f[1] = w[1]
  <2>1. n # 1 => 1 \in 1..(n - 1)
    BY <1>6
  <2>. QED
    BY <1>9, <2>1
<1>11. n = 1 => f[1] = w[2]
  <2>1. n = 1 => 1 \in n..(6 + h + c) /\ 1 + 1 = 2
    BY <1>6
  <2>. QED
    BY <1>9, <2>1
<1>12. n <= 4 => f[4] = w[5]
  <2>1. n <= 4 => 4 \in n..(6 + h + c) /\ 4 + 1 = 5
    BY <1>6
  <2>. QED
    BY <1>9, <2>1
<1>13. n > 4 => f[4] = w[4]
  <2>1. n > 4 => 4 \in 1..(n - 1)
    BY <1>6
  <2>. QED
    BY <1>9, <2>1
<1>14. f[6 + h] = w[7 + h]
  <2>1. 6 + h \in n..(6 + h + c) /\ (6 + h) + 1 = 7 + h
    BY <1>6
  <2>. QED
    BY <1>9, <2>1
<1>15. Len(f) \in Nat /\ Len(f) >= 6 + h
  BY <1>9
<1>. QED
  BY ONLY <1>1, <1>4, <1>5, <1>10, <1>11, <1>12, <1>13, <1>14, <1>15

\* Every step of bpkg_load keeps LostInv: the identifier is missed at once, the
\* number of hashes by malloc, and the number of chunks by the comparison.
LEMMA LostStep ==
  \A p \in Packages : \A n \in 1..(p.nhashes + 6) :
    LoadInv /\ LostInv(p, n) /\ Load => LostInv(p, n)'
<1>. SUFFICES ASSUME NEW p \in Packages, NEW n \in 1..(p.nhashes + 6),
                     LoadInv, LostInv(p, n), Load
              PROVE  LostInv(p, n)'
  OBVIOUS
<1>1. file' = file /\ pc \in {"open", "lines", "hashes", "chunks"}
  BY DEF Load, Header, HashLines, ChunkLines, Open, Ident, Filename, Size, Nhashes, Hashes, Hash,
     HashesEnd, Nchunks, Chunks, Chunk, ChunksEnd, Ignored, EndOfFile, Round
<1>2. CASE file # RemoveAt(Written(p), n)
  BY <1>1, <1>2 DEF LostInv
<1>3. CASE file = RemoveAt(Written(p), n)
  <2>1. /\ Read(Place) /\ Place \in 0..Len(file) /\ counter <= 5 /\ pc # "chunks"
        /\ counter = 0 => obj.identifier = NoString
        /\ counter >= 1 => n # 1
        /\ counter <= 3 => obj.nhashes = NoInt
        /\ counter >= 4 => obj.nhashes = IF n <= 4 THEN NoInt ELSE p.nhashes
        /\ counter = 5 => n >= 5
    BY <1>1, <1>3 DEF LostInv
  <2>2. /\ file \in Files /\ counter \in Nat /\ obj \in ObjType /\ ObjInv
    BY DEF LoadInv, ObjInv
  <2>3. PICK k \in 0..Len(file) : k = Place
    BY <2>1
  <2>20. PICK h \in Nat : h = p.nhashes
    BY PackageTypes
  <2>21. Len(file) \in Nat /\ Len(file) >= 6 + h
    BY <1>3, <2>20, LostLines
  <2>22. n \in 1..(h + 6)
    BY <2>20
  <2>4. /\ Len(file) \in Nat /\ Len(file) >= 6 + h /\ n \in Nat /\ (n <= 4 \/ n > 4)
        /\ counter >= 4 => obj.nhashes = IF n <= 4 THEN NoInt ELSE h
    BY <2>1, <2>20, <2>21, <2>22
  <2>23. /\ n # 1 => file[1].key = "ident"
         /\ n = 1 => file[1].key = "filename"
         /\ n <= 4 => file[4].key = "hashes"
         /\ n > 4 => file[4].key = "nhashes" /\ file[4].value = h
         /\ file[6 + h].key = "chunks"
    <3>1. /\ n # 1 => file[1] = Line("ident", p.identifier)
          /\ n = 1 => file[1] = Line("filename", p.filename)
          /\ n <= 4 => file[4] = Line("hashes", "")
          /\ n > 4 => file[4] = Line("nhashes", p.nhashes)
          /\ file[6 + h] = Line("chunks", "")
      BY <1>3, <2>20, LostLines
    <3>2. n # 1 => file[1].key = "ident"
      BY ZenonT(60), <3>1, LineParts
    <3>3. n = 1 => file[1].key = "filename"
      BY ZenonT(60), <3>1, LineParts
    <3>4. n <= 4 => file[4].key = "hashes"
      BY ZenonT(60), <3>1, LineParts
    <3>5. n > 4 => file[4].key = "nhashes" /\ file[4].value = h
      <4>1. ASSUME n > 4 PROVE file[4] = Line("nhashes", p.nhashes)
        BY <3>1, <4>1
      <4>2. n > 4 => file[4].key = "nhashes"
        BY <4>1, LineParts
      <4>3. n > 4 => file[4].value = p.nhashes
        BY <4>1, LineParts
      <4>. QED
        BY <2>20, <4>2, <4>3
    <3>6. file[6 + h].key = "chunks"
      BY ZenonT(60), <3>1, LineParts
    <3>. QED
      BY <3>2, <3>3, <3>4, <3>5, <3>6
  <2>5. ASSUME Fgets, rest # <<>> \/ k < Len(file)
        PROVE  k < Len(file) /\ buffer' = file[k + 1] /\ Read(k + 1)'
    BY <1>1, <2>1, <2>2, <2>3, <2>5, FgetsAt
  <2>6. ASSUME pc' = "exited" \/ pc' = "aborted" PROVE LostInv(p, n)'
    BY <2>6 DEF LostInv
  <2>7. ASSUME k < Len(file), Place' = k + 1, Read(k + 1)', pc' \in {"lines", "hashes"},
               /\ counter' <= 5
               /\ counter' = 0 => obj'.identifier = NoString
               /\ counter' >= 1 => n # 1
               /\ counter' <= 3 => obj'.nhashes = NoInt
               /\ counter' >= 4 => obj'.nhashes = IF n <= 4 THEN NoInt ELSE h
               /\ counter' = 5 => n >= 5
        PROVE  LostInv(p, n)'
    <3>1. Read(Place)' /\ (Place \in 0..Len(file))'
      BY <1>1, <2>4, <2>7, PlaceAt
    <3>. QED
      BY <2>7, <2>20, <3>1 DEF LostInv
  <2>8. ASSUME UNCHANGED <<rest, counter, obj>>, pc' \notin {"returned", "chunks"}
        PROVE  LostInv(p, n)'
    <3>1. Place' = Place
      BY <2>8 DEF Place, hashesRead, chunksRead
    <3>2. Read(k)' /\ Len(file') = Len(file)
      BY <1>1, <2>1, <2>3, <2>8 DEF Read
    <3>3. Read(Place)' /\ (Place \in 0..Len(file))'
      BY <2>3, <3>1, <3>2 DEF Read
    <3>. QED
      BY <2>1, <2>8, <3>3 DEF LostInv
  <2>9. CASE Open
    BY <2>6, <2>8, <2>9 DEF Open
  <2>10. CASE Header
    <3>1. PICK m \in 0..3 : Round(m)
      BY <2>10 DEF Header, Ident, Filename, Size, Nhashes
    <3>2. /\ rest # <<>> /\ Fgets /\ counter = m /\ counter' = m + 1
      BY <3>1 DEF Round
    <3>3. hashesRead = 0 /\ chunksRead = 0
      BY <3>2 DEF hashesRead, chunksRead
    <3>4. hashesRead' = 0 /\ chunksRead' = 0
      BY <3>2 DEF hashesRead, chunksRead
    <3>5. k = m /\ Place' = k + 1
      BY <2>3, <3>2, <3>3, <3>4 DEF Place
    <3>6. k < Len(file) /\ buffer' = file[m + 1] /\ Read(k + 1)'
      BY <2>5, <3>2, <3>5
    <3>7. CASE Ident
      <4>1. m = 0 /\ obj' = [obj EXCEPT !.identifier = Scan(buffer', "ident", @)]
            /\ pc' = IF obj'.identifier \in Hex THEN "lines" ELSE "exited"
        BY <3>2, <3>7 DEF Ident, Round
      <4>2. CASE n = 1
        <5>1. buffer'.key = "filename"
          BY <2>23, <3>6, <4>1, <4>2
        <5>2. obj'.identifier = NoString
          BY <2>1, <2>2, <3>2, <4>1, <5>1 DEF Scan, ObjType
        <5>. QED
          BY <2>6, <4>1, <5>2, PackagesAssumption
      <4>3. CASE n # 1
        <5>1. obj'.nhashes = obj.nhashes /\ obj.nhashes = NoInt
          BY <2>1, <2>2, <3>2, <4>1 DEF ObjType
        <5>. QED
          BY <2>6, <2>7, <3>2, <3>5, <3>6, <4>1, <4>3, <5>1
      <4>. QED
        BY <4>2, <4>3
    <3>8. CASE Filename \/ Size
      <4>1. m \in 1..2 /\ pc' = "lines" /\ obj'.nhashes = obj.nhashes
        BY <2>2, <3>2, <3>8 DEF Filename, Size, Round, ObjType
      <4>. QED
        BY <2>1, <2>7, <3>2, <3>5, <3>6, <4>1
    <3>9. CASE Nhashes
      <4>1. m = 3 /\ pc' = "lines" /\ obj' = [obj EXCEPT !.nhashes = Scan(buffer', "nhashes", @)]
        BY <3>2, <3>9 DEF Nhashes, Round
      <4>2. CASE n <= 4
        <5>1. buffer'.key = "hashes"
          BY <2>23, <3>6, <4>1, <4>2
        <5>2. obj'.nhashes = NoInt
          BY <2>1, <2>2, <3>2, <4>1, <5>1 DEF Scan, ObjType
        <5>. QED
          BY <2>1, <2>7, <3>2, <3>5, <3>6, <4>1, <4>2, <5>2
      <4>3. CASE n > 4
        <5>1. buffer'.key = "nhashes" /\ buffer'.value = h
          BY <2>23, <3>6, <4>1, <4>3
        <5>2. obj'.nhashes = h
          BY <2>2, <4>1, <5>1 DEF Scan, ObjType
        <5>. QED
          BY <2>1, <2>4, <2>7, <3>2, <3>5, <3>6, <4>1, <4>3, <5>2
      <4>. QED
        BY <2>4, <4>2, <4>3
    <3>. QED
      BY <2>10, <3>7, <3>8, <3>9 DEF Header
  <2>11. CASE Hashes
    <3>1. /\ rest # <<>> /\ Fgets /\ counter = 4 /\ counter' = 5
      BY <2>11 DEF Hashes, Round
    <3>2. CASE n <= 4
      BY <2>1, <2>6, <2>11, <3>1, <3>2 DEF Hashes
    <3>3. CASE n > 4
      <4>1. obj.nhashes = h /\ h # NoInt
        BY <2>1, <2>4, <3>1, <3>3 DEF NoInt
      <4>2. pc' = "hashes" /\ obj' = [obj EXCEPT !.hashes = <<>>]
        BY <2>11, <4>1 DEF Hashes
      <4>3. Len(obj'.hashes) = 0 /\ obj'.nhashes = obj.nhashes
        BY <2>2, <4>2, EmptyHasLengthZero DEF ObjType
      <4>4. hashesRead = 0 /\ chunksRead = 0 /\ hashesRead' = 0 /\ chunksRead' = 0
        BY <3>1, <4>3 DEF hashesRead, chunksRead
      <4>5. k = 4 /\ Place' = k + 1
        BY <2>3, <3>1, <4>4 DEF Place
      <4>6. k < Len(file) /\ Read(k + 1)'
        BY <2>5, <3>1
      <4>. QED
        BY <2>1, <2>4, <2>7, <3>1, <3>3, <4>1, <4>2, <4>3, <4>5, <4>6
    <3>. QED
      BY <2>4, <3>2, <3>3
  <2>12. CASE Hash
    <3>1. PICK s \in Seq(Texts) : s = obj.hashes
      BY <2>2 DEF ObjType
    <3>2. PICK l \in Nat : l = Len(s)
      BY LenProperties
    <3>3. /\ Fgets /\ counter = 5 /\ UNCHANGED <<counter, pc>> /\ pc = "hashes"
          /\ obj' = [obj EXCEPT !.hashes = Append(s, Word(buffer'))]
          /\ l < obj.nhashes
      BY <2>2, <2>12, <3>1, <3>2 DEF Hash, ObjInv
    <3>4. obj.nhashes = h /\ n >= 5
      BY <2>1, <2>4, <3>3
    <3>5. hashesRead = l /\ chunksRead = 0
      BY <3>1, <3>2, <3>3 DEF hashesRead, chunksRead
    <3>6. k = 5 + l
      BY <2>3, <3>3, <3>5 DEF Place
    <3>7. k < Len(file)
      BY <2>4, <3>3, <3>4, <3>6
    <3>8. Read(k + 1)'
      BY <2>5, <3>3, <3>7
    <3>9. LoadInv'
      BY LoadStep
    <3>10. PICK t \in Texts : t = Word(buffer')
      BY <3>9, LineFacts DEF LoadInv
    <3>11. Len(Append(s, t)) = Len(s) + 1
      BY ONLY AppendProperties, s \in Seq(Texts), t \in Texts
    <3>12. Len(obj'.hashes) = l + 1 /\ obj'.nhashes = obj.nhashes
      BY <2>2, <3>2, <3>3, <3>10, <3>11 DEF ObjType
    <3>13. hashesRead' = l + 1 /\ chunksRead' = 0
      BY <3>3, <3>12 DEF hashesRead, chunksRead
    <3>14. Place' = k + 1
      BY <3>3, <3>6, <3>13 DEF Place
    <3>. QED
      BY <2>1, <2>7, <3>3, <3>4, <3>7, <3>8, <3>12, <3>14
  <2>13. CASE Nchunks
    <3>1. /\ rest # <<>> /\ Fgets /\ counter = 5 /\ pc = "lines"
          /\ obj' = [obj EXCEPT !.nchunks = Scan(buffer', "nchunks", @)]
          /\ pc' = IF obj'.nchunks = obj.nhashes + 1 THEN "lines" ELSE "exited"
      BY <2>13 DEF Nchunks, Round
    <3>2. n >= 5 /\ obj.nhashes = h /\ Len(obj.hashes) = h /\ obj.nchunks = NoInt
      BY <2>1, <2>2, <2>4, <3>1 DEF ObjInv
    <3>3. hashesRead = h /\ chunksRead = 0
      BY <3>1, <3>2 DEF hashesRead, chunksRead
    <3>4. k + 1 = 6 + h
      BY <2>3, <3>1, <3>3 DEF Place
    <3>5. buffer'.key = "chunks"
      BY <2>5, <2>23, <3>1, <3>4
    <3>6. obj'.nchunks = NoInt
      BY <2>2, <3>1, <3>2, <3>5 DEF Scan, ObjType
    <3>7. NoInt # h + 1
      BY DEF NoInt
    <3>. QED
      BY <2>6, <3>1, <3>2, <3>6, <3>7
  <2>14. CASE HashesEnd
    BY <2>8, <2>14 DEF HashesEnd
  <2>15. CASE Chunks \/ Chunk \/ ChunksEnd \/ Ignored
    <3>1. ~(counter = 6) /\ ~(counter > 6)
      BY <2>1, <2>2
    <3>. QED
      BY <2>1, <2>15, <3>1 DEF Chunks, Chunk, ChunksEnd, Ignored, Round
  <2>16. CASE EndOfFile
    <3>1. pc = "lines" /\ rest = <<>>
      BY <2>16 DEF EndOfFile
    <3>2. k = Len(file)
      <4>1. PICK s \in Seq(AnyLine) : s = file
        BY <2>2, FilesAreLines
      <4>2. PICK r : r = rest
        OBVIOUS
      <4>3. r = SubSeq(s, k + 1, Len(s)) /\ k \in 0..Len(s)
        BY <2>1, <2>3, <4>1, <4>2 DEF Read
      <4>4. r = <<>> <=> k = Len(s)
        BY ONLY <4>3, NextLine, s \in Seq(AnyLine)
      <4>. QED
        BY <3>1, <4>1, <4>2, <4>4
    <3>3. chunksRead = 0 /\ (counter < 5 => hashesRead = 0)
      BY <2>1, <2>2 DEF chunksRead, hashesRead
    <3>4. counter = 5 => hashesRead = h
      BY <2>1, <2>2, <2>4, <3>1 DEF hashesRead, ObjInv
    <3>5. FALSE
      BY <2>1, <2>2, <2>3, <2>4, <3>2, <3>3, <3>4 DEF Place
    <3>. QED
      BY <3>5
  <2>. QED
    BY <2>9, <2>10, <2>11, <2>12, <2>13, <2>14, <2>15, <2>16 DEF Load, HashLines, ChunkLines
<1>. QED
  BY <1>2, <1>3

\* LostInv holds before the first line.
LEMMA LostInitially ==
  \A p \in Packages : \A n \in 1..(p.nhashes + 6) : LoadInit => LostInv(p, n)
<1>. SUFFICES ASSUME NEW p \in Packages, NEW n \in 1..(p.nhashes + 6), LoadInit PROVE LostInv(p, n)
  OBVIOUS
<1>1. file \in Files /\ rest = file /\ counter = 0 /\ pc = "open" /\ obj = NoObject
  BY DEF LoadInit
<1>2. PICK s \in Seq(AnyLine) : s = file
  BY <1>1, FilesAreLines
<1>3. SubSeq(s, 0 + 1, Len(s)) = s
  BY SubSeqFull
<1>4. Place = 0
  BY <1>1 DEF Place, hashesRead, chunksRead
<1>5. Read(0) /\ 0 \in 0..Len(file)
  BY <1>1, <1>2, <1>3, LenProperties DEF Read
<1>6. obj.identifier = NoString /\ obj.nhashes = NoInt
  BY <1>1 DEF NoObject
<1>. QED
  BY <1>1, <1>4, <1>5, <1>6 DEF LostInv

\* And after every step of the rest of the program.
LEMMA LostStutters ==
  \A p \in Packages : \A n \in 1..(p.nhashes + 6) :
    LostInv(p, n) /\ UNCHANGED vars => LostInv(p, n)'
  BY DEF LostInv, Place, hashesRead, chunksRead, Read, vars, loader

\* What LostInv says: such a file is not loaded.
LEMMA LostMeans == AllLost => LossNoticed
<1>. SUFFICES ASSUME AllLost, NEW p \in Packages, NEW n \in 1..(Len(p.hashes) + 6),
                     file = RemoveAt(Written(p), n)
              PROVE  pc # "returned"
  BY DEF LossNoticed
<1>1. n \in 1..(p.nhashes + 6)
  BY PackageTypes DEF WellFormed
<1>. QED
  BY <1>1 DEF AllLost, LostInv

-----------------------------------------------------------------------------
(***************************************************************************)
(* pkgmain                                                                 *)
(***************************************************************************)

MainNext == Main \/ OtherProgram \/ MainDone

Inv == LoadInv /\ AllWritten /\ AllLost /\ MainInv /\ HashInv /\ FaultExplained

\* The load takes its steps in BpkgLoad only.
LEMMA LoadsOrNot == MainNext => (Load /\ UNCHANGED mainvars) \/ UNCHANGED vars
<1>. SUFFICES ASSUME MainNext PROVE (Load /\ UNCHANGED mainvars) \/ UNCHANGED vars
  OBVIOUS
<1>1. CASE BpkgLoad
  BY <1>1 DEF BpkgLoad
<1>2. CASE ArgSelectUsage \/ ArgSelect \/ BpkgLoadEnds \/ FileCheck \/ MakeFile
             \/ FileCheckReturns \/ HashChunk \/ Tree \/ Query
  BY <1>2 DEF ArgSelectUsage, ArgSelect, BpkgLoadEnds, FileCheck, MakeFile, MakeFileOpen,
     MakeFileTruncate, FileCheckReturns, HashChunk, HashChunkOpen, HashChunkStat, HashChunkMap,
     HashChunkFails, HashChunkRead, Tree, Query
<1>3. CASE OtherProgram \/ MainDone
  BY <1>3 DEF OtherProgram, MainDone, allvars
<1>. QED
  BY <1>1, <1>2, <1>3 DEF MainNext, Main

\* The three invariants of the load, over any step of the program.
LEMMA LoadInvs ==
  ASSUME LoadInv, AllWritten, AllLost, MainNext \/ UNCHANGED allvars
  PROVE  LoadInv' /\ AllWritten' /\ AllLost'
<1>1. Load \/ UNCHANGED vars
  BY LoadsOrNot DEF allvars
<1>2. LoadInv'
  BY <1>1, LoadStep, LoadStutters
<1>3. AllWritten'
  <2>1. \A p \in Packages : WrittenInv(p)'
    BY <1>1, WrittenStep, WrittenStutters DEF AllWritten
  <2>. QED
    BY <2>1 DEF AllWritten
<1>4. AllLost'
  <2>1. \A p \in Packages : \A n \in 1..(p.nhashes + 6) : LostInv(p, n)'
    BY <1>1, LostStep, LostStutters DEF AllLost
  <2>. QED
    BY <2>1 DEF AllLost
<1>. QED
  BY <1>2, <1>3, <1>4

\* Every step of the program keeps MainInv.
LEMMA MainStep ==
  ASSUME LoadInv, MainInv, HashInv, MainNext
  PROVE  MainInv'
<1>. USE DEF MainInv, Exit, files
<1>0. Running \notin {0, 1, Abort} /\ Abort \notin {0, 1}
  BY DEF Running, Abort
<1>1. CASE ArgSelectUsage
  BY <1>0, <1>1 DEF ArgSelectUsage, vars, loader
<1>2. CASE ArgSelect
  BY <1>0, <1>2 DEF ArgSelect, vars, loader
<1>3. CASE BpkgLoad
  BY <1>3 DEF BpkgLoad, mainvars
<1>4. CASE BpkgLoadEnds
  BY <1>0, <1>4 DEF BpkgLoadEnds, vars, loader
<1>5. CASE FileCheck
  BY <1>0, <1>5 DEF FileCheck, vars, loader
<1>6. CASE MakeFileOpen
  <2>1. disk' \in DiskSizes
    BY <1>6 DEF MakeFileOpen, DiskSizes
  <2>. QED
    BY <1>0, <1>6, <2>1 DEF MakeFileOpen, vars, loader
<1>7. CASE MakeFileTruncate
  <2>1. disk' \in DiskSizes
    BY <1>7 DEF MakeFileTruncate, LoadInv, ObjInv, DiskSizes
  <2>. QED
    BY <1>0, <1>7, <2>1 DEF MakeFileTruncate, vars, loader
<1>8. CASE FileCheckReturns
  BY <1>0, <1>8 DEF FileCheckReturns, vars, loader
<1>9. CASE HashChunkOpen \/ HashChunkStat \/ HashChunkMap \/ HashChunkFails
  BY <1>0, <1>9 DEF HashChunkOpen, HashChunkStat, HashChunkMap, HashChunkFails, vars, loader
<1>10. CASE HashChunkRead \/ Tree
  BY <1>0, <1>10 DEF HashChunkRead, Tree, vars, loader
<1>11. CASE Query
  BY <1>0, <1>11 DEF Query, vars, loader
<1>12. CASE OtherProgram
  <2>1. disk' \in DiskSizes
    BY <1>12 DEF OtherProgram, OtherProgramResizes, OtherProgramRemoves, OtherProgramMakes, DiskSizes
  <2>. QED
    BY <1>12, <2>1 DEF OtherProgram, vars, loader
<1>13. CASE MainDone
  BY <1>13 DEF MainDone, allvars, mainvars, vars, loader
<1>. QED
  BY <1>1, <1>2, <1>3, <1>4, <1>5, <1>6, <1>7, <1>8, <1>9, <1>10, <1>11, <1>12, <1>13
     DEF MainNext, Main, MakeFile, HashChunk

\* What has been met is not forgotten.
LEMMA TroubleStays ==
  ASSUME MainNext, HashInv
  PROVE  trouble \subseteq trouble' /\ trouble' \subseteq Troubles
<1>1. Met(disk) \subseteq trouble \cup {"short"} /\ trouble \subseteq Met(disk)
  BY DEF Met
<1>2. Met(disk') \subseteq trouble \cup {"short"} /\ trouble \subseteq Met(disk')
  BY DEF Met
<1>3. trouble' \in {trouble, Met(disk), Met(disk'), trouble \cup {"call"}}
  BY DEF MainNext, Main, MakeFile, HashChunk, ArgSelectUsage, ArgSelect, BpkgLoad, BpkgLoadEnds,
     FileCheck, MakeFileOpen, MakeFileTruncate, FileCheckReturns, HashChunkOpen, HashChunkStat,
     HashChunkMap, HashChunkFails, HashChunkRead, Tree, Query, OtherProgram, OtherProgramResizes,
     OtherProgramRemoves, OtherProgramMakes, MainDone, allvars, mainvars, hashing
<1>. QED
  BY <1>1, <1>2, <1>3 DEF HashInv, Troubles

\* The object does not change once it is there.
LEMMA ObjectStays ==
  ASSUME MainNext, MainInv, mpc # "load"
  PROVE  UNCHANGED vars
<1>1. ~BpkgLoad
  BY DEF BpkgLoad
<1>. QED
  BY <1>1, LoadsOrNot DEF MainNext, Main, MakeFile, HashChunk, ArgSelectUsage, ArgSelect,
     BpkgLoadEnds, FileCheck, MakeFileOpen, MakeFileTruncate, FileCheckReturns, HashChunkOpen,
     HashChunkStat, HashChunkMap, HashChunkFails, HashChunkRead, Tree, Query, OtherProgram,
     MainDone, allvars

\* Every step of the program keeps HashInv.
LEMMA HashStep ==
  ASSUME LoadInv, MainInv, HashInv, MainNext
  PROVE  HashInv'
<1>. USE DEF HashInv, files, hashing
<1>0. trouble \subseteq trouble' /\ trouble' \subseteq Troubles
  BY TroubleStays
<1>1. CASE UNCHANGED <<fd, same, hashing>> /\ mpc' \notin {"stat", "mmap", "hash"}
  BY <1>1
<1>2. CASE UNCHANGED <<fd, same, hashing, vars>> /\ mpc' = mpc
  BY <1>2 DEF vars, loader
<1>3. CASE MakeFileOpen
  <2>1. fd' \in DiskSizes
    BY <1>3 DEF MakeFileOpen, MainInv, DiskSizes
  <2>. QED
    BY <1>3, <2>1 DEF MakeFileOpen
<1>4. CASE MakeFileTruncate \/ Tree
  <2>1. fd' \in DiskSizes /\ mpc' \notin {"stat", "mmap", "hash"}
    BY <1>4 DEF MakeFileTruncate, Tree, Exit, DiskSizes
  <2>. QED
    BY <1>4, <2>1 DEF MakeFileTruncate, Tree
<1>5. CASE HashChunkOpen
  <2>1. obj' = obj /\ trouble' = Met(disk) /\ UNCHANGED <<mapped, hashed>>
    BY <1>5 DEF HashChunkOpen, vars, loader
  <2>2. CASE mpc' = "end" /\ UNCHANGED <<fd, same>>
    BY <1>0, <2>1, <2>2
  <2>3. CASE fd' = disk /\ same' = TRUE /\ mpc' = "stat"
    BY <1>0, <2>1, <2>3 DEF Met, MainInv
  <2>. QED
    BY <1>5, <2>2, <2>3 DEF HashChunkOpen, Exit
<1>6. CASE HashChunkStat
  BY <1>0, <1>6 DEF HashChunkStat, vars, loader
<1>7. CASE HashChunkMap
  BY <1>0, <1>7 DEF HashChunkMap, vars, loader, Exit
<1>8. CASE HashChunkFails
  BY <1>0, <1>8 DEF HashChunkFails, Exit
<1>9. CASE HashChunkRead
  BY <1>0, <1>9 DEF HashChunkRead, vars, loader, Exit
<1>10. CASE OtherProgram
  <2>1. UNCHANGED <<vars, mapped, hashed, mpc>> /\ obj' = obj
    BY <1>10 DEF OtherProgram, vars, loader
  <2>2. CASE OtherProgramResizes
    <3>1. disk' \in DiskSizes
      BY <2>2 DEF OtherProgramResizes, DiskSizes
    <3>2. CASE fd' = disk' /\ trouble' = Met(disk') /\ same' = same
      BY <1>0, <2>1, <3>1, <3>2 DEF Met
    <3>3. CASE UNCHANGED <<fd, trouble, same>>
      BY <2>1, <3>3
    <3>. QED
      BY <2>2, <3>2, <3>3 DEF OtherProgramResizes
  <2>3. CASE OtherProgramRemoves \/ OtherProgramMakes
    <3>1. UNCHANGED <<fd, trouble>> /\ same' \in BOOLEAN
      BY <2>3 DEF OtherProgramRemoves, OtherProgramMakes
    <3>. QED
      BY <2>1, <3>1
  <2>. QED
    BY <1>10, <2>2, <2>3 DEF OtherProgram
<1>11. CASE ArgSelectUsage \/ ArgSelect \/ BpkgLoadEnds \/ FileCheck \/ FileCheckReturns \/ Query
  BY <1>1, <1>11 DEF ArgSelectUsage, ArgSelect, BpkgLoadEnds, FileCheck, FileCheckReturns, Query, Exit
<1>12. CASE BpkgLoad
  BY <1>1, <1>12 DEF BpkgLoad, mainvars
<1>13. CASE MainDone
  BY <1>2, <1>13 DEF MainDone, allvars, mainvars
<1>. QED
  BY <1>3, <1>4, <1>5, <1>6, <1>7, <1>8, <1>9, <1>10, <1>11, <1>12, <1>13
     DEF MainNext, Main, MakeFile, HashChunk

\* The object of a file as it was written has everything main asks of it.
LEMMA GoodObject ==
  ASSUME NEW p \in Packages, LoadInv, AllWritten, file = Written(p), pc = "returned"
  PROVE  /\ obj.filename # NoString /\ obj.chunks # NoChunks /\ obj.hashes # NoHashes
         /\ obj.nchunks # NoInt /\ obj.nchunks = p.nchunks
         /\ obj.size = p.size /\ DOMAIN obj.chunks = 1..p.nchunks
         /\ \A j \in DOMAIN obj.chunks :
              /\ obj.chunks[j].size # NoInt
              /\ obj.chunks[j].offset + obj.chunks[j].size \in Int
              /\ obj.chunks[j].offset + obj.chunks[j].size <= p.size
<1>1. obj = p
  BY WrittenMeans DEF LoadedAsWritten
<1>2. WellFormed(p) /\ DOMAIN p.chunks = 1..p.nchunks
  BY PackageTypes
<1>3. obj.filename # NoString /\ obj.nchunks = p.nchunks
  BY <1>1, <1>2 DEF WellFormed
<1>4. obj.nchunks # NoInt
  BY <1>1, PackageTypes DEF NoInt
<1>5. obj.chunks # NoChunks
  <2>1. ASSUME p.chunks = NoChunks PROVE FALSE
    <3>1. Len(NoChunks) = 1 /\ NoChunks[1].hash = Unset /\ 1 \in 1..1
      BY DEF NoChunks, Unset, NoChunk
    <3>2. p.nchunks = 1
      BY <1>2, <2>1, <3>1 DEF WellFormed
    <3>. QED
      BY <1>2, <2>1, <3>1, <3>2 DEF WellFormed, Unset
  <2>. QED
    BY <1>1, <2>1
<1>6. obj.hashes # NoHashes
  <2>1. ASSUME p.hashes = NoHashes PROVE FALSE
    <3>1. Len(NoHashes) = 1 /\ 1 \in 1..1
      BY DEF NoHashes
    <3>2. p.nhashes = 1
      BY <1>2, <2>1, <3>1 DEF WellFormed
    <3>. QED
      BY <1>2, <2>1, <3>1, <3>2 DEF WellFormed
  <2>. QED
    BY <1>1, <2>1
<1>7. ASSUME NEW j \in DOMAIN obj.chunks
      PROVE  /\ obj.chunks[j].size # NoInt
             /\ obj.chunks[j].offset + obj.chunks[j].size \in Int
             /\ obj.chunks[j].offset + obj.chunks[j].size <= p.size
  <2>1. j \in 1..p.nchunks
    BY <1>1, <1>2, <1>7
  <2>2. /\ p.chunks \in Seq([hash : STRING, offset : Nat, size : Nat]) /\ Len(p.chunks) = p.nchunks
        /\ p.chunks[j].offset + p.chunks[j].size <= p.size
    BY <1>2, <2>1, PackageTypes DEF WellFormed
  <2>3. p.chunks[j] \in [hash : STRING, offset : Nat, size : Nat]
    BY ONLY <2>1, <2>2, ElementOfSeq
  <2>4. p.chunks[j].offset \in Nat /\ p.chunks[j].size \in Nat
    BY <2>3
  <2>5. PICK o \in Nat, z \in Nat : o = p.chunks[j].offset /\ z = p.chunks[j].size
    BY <2>4
  <2>6. z # NoInt /\ o + z \in Int
    BY DEF NoInt
  <2>7. o + z <= p.size
    BY <2>2, <2>5
  <2>. QED
    BY ONLY <1>1, <2>5, <2>6, <2>7
<1>. QED
  BY <1>1, <1>2, <1>3, <1>4, <1>5, <1>6, <1>7

\* The size of the data file is a number.
LEMMA SizesAreNumbers == DiskSizes \subseteq Int
<1>1. ASSUME NEW p \in Packages PROVE p.size \in Int
  BY PackageTypes
<1>2. {p.size : p \in Packages} \subseteq Int
  BY <1>1
<1>3. Sizes \subseteq Int /\ NoFile \in Int
  BY SizesAssumption DEF NoFile
<1>4. 0 \in Int
  OBVIOUS
<1>. QED
  BY <1>2, <1>3, <1>4, Zenon DEF DiskSizes

\* Every step of the program keeps FaultExplained.
LEMMA FaultStep ==
  ASSUME LoadInv, AllWritten, MainInv, HashInv, FaultExplained, MainNext
  PROVE  FaultExplained'
<1>. SUFFICES ASSUME NEW p \in Packages, status' = Abort, file' = Written(p)
              PROVE  asel' # 5 /\ (p.nchunks = 1 \/ trouble' # {})
  BY DEF FaultExplained
<1>0. file' = file
  BY LoadsOrNot DEF vars, Load, Header, HashLines, ChunkLines, Open, Ident, Filename, Size, Nhashes,
     Hashes, Hash, HashesEnd, Nchunks, Chunks, Chunk, ChunksEnd, Ignored, EndOfFile, Round
<1>1. CASE status = Abort
  <2>1. mpc = "end"
    BY <1>1 DEF MainInv, Abort, Running
  <2>2. UNCHANGED <<asel, trouble>>
    BY <2>1 DEF MainNext, Main, MakeFile, HashChunk, ArgSelectUsage, ArgSelect, BpkgLoad,
       BpkgLoadEnds, FileCheck, MakeFileOpen, MakeFileTruncate, FileCheckReturns, HashChunkOpen,
       HashChunkStat, HashChunkMap, HashChunkFails, HashChunkRead, Tree, Query, OtherProgram,
       MainDone, allvars, mainvars, hashing
  <2>. QED
    BY <1>0, <1>1, <2>2 DEF FaultExplained
<1>2. CASE status # Abort
  <2>1. file = Written(p) /\ pc # "aborted"
    BY <1>0 DEF AllWritten, WrittenInv
  <2>2. ASSUME pc = "returned"
        PROVE  /\ obj.filename # NoString /\ obj.chunks # NoChunks /\ obj.hashes # NoHashes
               /\ obj.nchunks # NoInt /\ obj.nchunks = p.nchunks
               /\ obj.size = p.size /\ DOMAIN obj.chunks = 1..p.nchunks
               /\ \A j \in DOMAIN obj.chunks :
                    /\ obj.chunks[j].size # NoInt
                    /\ obj.chunks[j].offset + obj.chunks[j].size \in Int
                    /\ obj.chunks[j].offset + obj.chunks[j].size <= p.size
    BY <2>1, <2>2, GoodObject
  <2>3. Abort \notin {0, 1, Running}
    BY DEF Abort, Running
  <2>4. p.size \in Nat /\ p.size > 0 /\ p.nchunks \in Nat
    BY PackageTypes DEF WellFormed
  <2>5. CASE BpkgLoadEnds
    BY <1>2, <2>1, <2>3, <2>5 DEF BpkgLoadEnds, Exit
  <2>6. CASE FileCheck
    BY <1>2, <2>2, <2>6 DEF FileCheck, MainInv
  <2>7. CASE FileCheckReturns
    BY <1>2, <2>2, <2>3, <2>7 DEF FileCheckReturns, MainInv, Exit
  <2>8. ASSUME mpc \in {"tree", "stat", "mmap", "hash"}
        PROVE  asel # 5 /\ pc = "returned"
    BY <2>8 DEF MainInv
  <2>9. CASE HashChunkOpen
    <3>1. asel' = asel /\ mpc = "tree" /\ trouble' = Met(disk)
      BY <2>9 DEF HashChunkOpen
    <3>2. disk = NoFile
      BY <1>2, <2>2, <2>8, <2>9, <3>1 DEF HashChunkOpen
    <3>3. disk < obj.size
      BY <2>2, <2>4, <2>8, <3>1, <3>2 DEF NoFile
    <3>. QED
      BY <2>8, <3>1, <3>3 DEF Met
  <2>10. CASE HashChunkMap
    <3>1. asel' = asel /\ mpc = "mmap" /\ trouble' = trouble /\ mapped = 0
      BY <1>2, <2>10 DEF HashChunkMap, hashing
    <3>2. mapped < obj.size
      BY <2>2, <2>4, <2>8, <3>1
    <3>. QED
      BY <2>8, <3>1, <3>2 DEF HashInv
  <2>11. CASE HashChunkFails
    BY <2>8, <2>11 DEF HashChunkFails
  <2>12. CASE HashChunkRead
    <3>1. asel' = asel /\ mpc = "hash" /\ trouble' = trouble /\ hashed < obj.nchunks
      BY <2>12 DEF HashChunkRead
    <3>2. asel # 5 /\ pc = "returned"
      BY <2>8, <3>1
    <3>3. Outside(obj.chunks[hashed + 1])
      BY <1>2, <2>2, <2>12, <3>2 DEF HashChunkRead
    <3>4. hashed + 1 \in DOMAIN obj.chunks
      BY <2>2, <2>4, <3>1, <3>2 DEF HashInv
    <3>5. PICK e \in Int : /\ e = obj.chunks[hashed + 1].offset + obj.chunks[hashed + 1].size
                           /\ e <= p.size
      BY <2>2, <3>2, <3>4
    <3>6. e > mapped \/ e > fd
      BY <2>2, <3>2, <3>3, <3>4, <3>5 DEF Outside
    <3>7. mapped \in Int /\ fd \in Int /\ obj.size = p.size
      BY <2>2, <3>2, SizesAreNumbers DEF HashInv
    <3>8. mapped < obj.size \/ fd < obj.size
      BY <2>4, <3>5, <3>6, <3>7
    <3>. QED
      BY <3>1, <3>2, <3>8 DEF HashInv
  <2>13. CASE Tree
    BY <1>2, <2>2, <2>8, <2>13 DEF Tree
  <2>14. CASE \/ ArgSelectUsage \/ ArgSelect \/ BpkgLoad \/ MakeFile \/ HashChunkStat \/ Query
             \/ OtherProgram \/ MainDone
    BY <1>2, <2>3, <2>14 DEF ArgSelectUsage, ArgSelect, BpkgLoad, MakeFile, MakeFileOpen,
       MakeFileTruncate, HashChunkStat, Query, OtherProgram, MainDone, Exit, allvars, mainvars
  <2>. QED
    BY <2>5, <2>6, <2>7, <2>9, <2>10, <2>11, <2>12, <2>13, <2>14 DEF MainNext, Main, HashChunk
<1>. QED
  BY <1>1, <1>2

\* The two steps of make_file are all that touch the data file.
LEMMA KeptStep ==
  ASSUME MainInv, MainNext, mpc' # mpc, disk' # disk
  PROVE  asel = 5 /\ ~found /\ (disk' = obj.size \/ disk = NoFile)
<1>1. MakeFileOpen \/ MakeFileTruncate
  BY DEF MainNext, Main, MakeFile, HashChunk, ArgSelectUsage, ArgSelect, BpkgLoad, BpkgLoadEnds,
     FileCheck, FileCheckReturns, HashChunkOpen, HashChunkStat, HashChunkMap, HashChunkFails,
     HashChunkRead, Tree, Query, OtherProgram, MainDone, allvars, mainvars, files
<1>. QED
  BY <1>1 DEF MainInv, MakeFileOpen, MakeFileTruncate

\* Inv, the conjunction of the invariants, holds in every state of pkgmain.
THEOREM Invariance == MainSpec => []Inv
<1>1. MainInit => Inv
  <2>. SUFFICES ASSUME MainInit PROVE Inv
    OBVIOUS
  <2>1. LoadInv /\ AllWritten /\ AllLost
    BY LoadInitially, WrittenInitially, LostInitially DEF MainInit, AllWritten, AllLost
  <2>2. MainInv
    BY DEF MainInit, MainInv, Running, Abort, DiskSizes
  <2>4. HashInv
    BY DEF MainInit, HashInv, Troubles, DiskSizes
  <2>3. FaultExplained
    <3>1. status # Abort
      <4>1. status = Running
        BY DEF MainInit
      <4>. QED
        BY <4>1 DEF Running, Abort
    <3>. QED
      BY <3>1 DEF FaultExplained
  <2>. QED
    BY <2>1, <2>2, <2>3, <2>4 DEF Inv
<1>2. Inv /\ [MainNext]_allvars => Inv'
  <2>. SUFFICES ASSUME Inv, [MainNext]_allvars PROVE Inv'
    OBVIOUS
  <2>1. LoadInv' /\ AllWritten' /\ AllLost'
    BY LoadInvs DEF Inv
  <2>2. CASE MainNext
    BY <2>1, <2>2, MainStep, HashStep, FaultStep DEF Inv
  <2>3. CASE UNCHANGED allvars
    BY <2>1, <2>3 DEF Inv, MainInv, HashInv, FaultExplained, allvars, mainvars, files, hashing,
       vars, loader
  <2>. QED
    BY <2>2, <2>3
<1>. QED
  BY <1>1, <1>2, PTL DEF MainSpec, MainNext

\* bpkg_load never writes past an array it has allocated, whatever the file
\* says, and the object it returns has the counts the tree relies on.
THEOREM LoadedSafeCorrect == MainSpec => []LoadedSafe
<1>1. Inv => LoadedSafe
  BY LoadInvMeans DEF Inv, LoadedSafe, MainTypeOK, MainInv, HashInv
<1>. QED
  BY <1>1, Invariance, PTL

\* A package file as it was written, of any length, is loaded as it was written
\* or refused for its identifier or its counts.
THEOREM LoadedAsWrittenCorrect == MainSpec => []LoadedAsWritten
<1>1. Inv => LoadedAsWritten
  BY WrittenMeans DEF Inv
<1>. QED
  BY <1>1, Invariance, PTL

\* A file that lost any one line before the heading of the chunks is never loaded.
THEOREM LossNoticedCorrect == MainSpec => []LossNoticed
<1>1. Inv => LossNoticed
  BY LostMeans DEF Inv
<1>. QED
  BY <1>1, Invariance, PTL

\* With a package file as it was written pkgmain faults only for a package of a
\* single chunk, after a call of hashChunk that failed, or when the data file
\* was shorter than the package while it was hashed, however others change it.
THEOREM FaultExplainedCorrect == MainSpec => []FaultExplained
<1>1. Inv => FaultExplained
  BY DEF Inv
<1>. QED
  BY <1>1, Invariance, PTL

\* Only -file_check touches the data file, and only as make_file does.
THEOREM DataKeptCorrect == MainSpec => DataKept
<1>1. Inv /\ [MainNext]_allvars =>
        [mpc' # mpc /\ disk' # disk =>
           /\ asel = 5 /\ ~found
           /\ disk' = obj.size \/ disk = NoFile]_<<disk, mpc>>
  BY KeptStep DEF Inv, allvars, mainvars, files
<1>. QED
  BY <1>1, Invariance, PTL DEF MainSpec, MainNext, DataKept
=============================================================================
