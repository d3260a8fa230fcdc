------------------------------ MODULE PkgLoad ------------------------------
(***************************************************************************)
(* bpkg_load of pkgchk.c: a package file is read line by line, one call of *)
(* fgets a step, and the n-th line fills the n-th field of the object      *)
(* whatever it says.  The two inner loops, over the hashes and over the    *)
(* chunks, do not look at what fgets returns: at the end of the file they  *)
(* parse the line that is still in the buffer once more.                   *)
(*                                                                         *)
(* A line is a key and a value: sscanf stores the value when the key is    *)
(* the one it expects and leaves the field as it was otherwise.  A field   *)
(* that was never stored holds what malloc left there; in the build of the *)
(* Makefile, with AddressSanitizer, that is the byte 0xbe: no hexadecimal  *)
(* digit, and a negative number, of which malloc aborts.  Lines longer     *)
(* than the buffer are left out.                                           *)
(***************************************************************************)
EXTENDS Integers, Sequences, SequencesExt

CONSTANTS
  Packages,   \* what the packages say: objects as bpkg_load returns them
  Hex         \* the identifiers that are hexadecimal

VARIABLES
  file,       \* the lines of the package file
  rest,       \* those not read yet
  buffer,     \* the line read last
  counter,    \* the lines read by the outer loop
  obj,        \* the object
  pc          \* where bpkg_load is, or how it ended

loader == <<rest, buffer, counter, obj, pc>>
vars == <<file, loader>>

-----------------------------------------------------------------------------
(***************************************************************************)
(* Package files                                                           *)
(***************************************************************************)

NoString == "0xbe"
NoInt == -1
NoChunk == [hash |-> NoString, offset |-> NoInt, size |-> NoInt]

\* Pointers that were never stored.
NoHashes == <<"unallocated">>
NoChunks == <<[NoChunk EXCEPT !.hash = NoHashes[1]]>>

NoObject == [identifier |-> NoString, filename |-> NoString, size |-> NoInt,
             nhashes |-> NoInt, hashes |-> NoHashes,
             nchunks |-> NoInt, chunks |-> NoChunks]

Line(key, value) == [key |-> key, value |-> value]
NoLine == Line("", NoString)

\* A package as the tool that makes packages writes it.
Written(p) ==
  <<Line("ident", p.identifier), Line("filename", p.filename), Line("size", p.size),
    Line("nhashes", p.nhashes), Line("hashes", "")>>
  \o [j \in DOMAIN p.hashes |-> Line("hash", p.hashes[j])]
  \o <<Line("nchunks", p.nchunks), Line("chunks", "")>>
  \o [j \in DOMAIN p.chunks |-> Line("chunk", p.chunks[j])]

\* The same with an empty line at the end, cut off after any line, or without
\* one of its lines.
Trailing(p) == Append(Written(p), NoLine)
Truncated(p) == {SubSeq(Written(p), 1, n) : n \in 0..(Len(Written(p)) - 1)}
LineLost(p) == {RemoveAt(Written(p), n) : n \in DOMAIN Written(p)}

Files == UNION {{Written(p), Trailing(p)} \cup Truncated(p) \cup LineLost(p) : p \in Packages}

\* What a package says is what it has: the counts are those of the lists, and
\* the chunks lie inside the data file.  None of it is what malloc leaves.
WellFormed(p) ==
  /\ Len(p.hashes) = p.nhashes /\ Len(p.chunks) = p.nchunks
  /\ p.filename # NoString /\ p.size > 0
  /\ \A j \in 1..p.nhashes : p.hashes[j] # NoHashes[1]
  /\ \A j \in 1..p.nchunks :
       p.chunks[j].hash # NoHashes[1] /\ p.chunks[j].offset + p.chunks[j].size <= p.size

ASSUME PackagesAssumption ==
  /\ Packages \subseteq [identifier : STRING, filename : STRING, size : Nat,
                        nhashes : Nat, hashes : Seq(STRING), nchunks : Nat,
                        chunks : Seq([hash : STRING, offset : Nat, size : Nat])]
  /\ \A p \in Packages : WellFormed(p)
  /\ NoString \notin Hex

-----------------------------------------------------------------------------
(***************************************************************************)
(* sscanf                                                                  *)
(***************************************************************************)

\* "key: %s" and "key: %d"
Scan(line, key, old) == IF line.key = key THEN line.value ELSE old

\* "%64s": the first word of the line, of a chunk the 64 digits of its hash.
Word(line) ==
  CASE line.key = "hash" -> line.value
    [] line.key = "chunk" -> line.value.hash
    [] OTHER -> line.key

\* "%*[, \t]%65[^,], %d, %d": a line that is indented, up to a comma.
ChunkOf(line) ==
  CASE line.key = "chunk" -> line.value
    [] line.key = "hash" -> [NoChunk EXCEPT !.hash = line.value]
    [] OTHER -> NoChunk

\* fgets: at the end of the file the buffer is left alone.
Fgets ==
  IF rest = <<>> THEN UNCHANGED <<rest, buffer>>
  ELSE buffer' = Head(rest) /\ rest' = Tail(rest)

-----------------------------------------------------------------------------
(***************************************************************************)
(* bpkg_load                                                               *)
(***************************************************************************)

LoadInit ==
  /\ file \in Files
  /\ rest = file
  /\ buffer = NoLine
  /\ counter = 0
  /\ obj = NoObject
  /\ pc = "open"

Open ==
  /\ pc = "open"
  /\ pc' \in {"lines", "exited"}     \* fopen may fail
  /\ UNCHANGED <<file, rest, buffer, counter, obj>>

\* The n-th round of the outer loop.
Round(n) ==
  /\ pc = "lines" /\ counter = n
  /\ rest # <<>>
  /\ Fgets
  /\ counter' = counter + 1
  /\ UNCHANGED file

Ident ==
  /\ Round(0)
  /\ obj' = [obj EXCEPT !.identifier = Scan(buffer', "ident", @)]
  /\ pc' = IF obj'.identifier \in Hex THEN "lines" ELSE "exited"

Filename ==
  /\ Round(1)
  /\ obj' = [obj EXCEPT !.filename = Scan(buffer', "filename", @)]
  /\ UNCHANGED pc

Size ==
  /\ Round(2)
  /\ obj' = [obj EXCEPT !.size = Scan(buffer', "size", @)]
  /\ UNCHANGED pc

Nhashes ==
  /\ Round(3)
  /\ obj' = [obj EXCEPT !.nhashes = Scan(buffer', "nhashes", @)]
  /\ UNCHANGED pc

\* malloc of a negative size ends the process.
Hashes ==
  /\ Round(4)
  /\ IF obj.nhashes = NoInt
       THEN pc' = "aborted" /\ UNCHANGED obj
       ELSE pc' = "hashes" /\ obj' = [obj EXCEPT !.hashes = <<>>]

Hash ==
  /\ pc = "hashes"
  /\ Len(obj.hashes) < obj.nhashes
  /\ Fgets
  /\ obj' = [obj EXCEPT !.hashes = Append(@, Word(buffer'))]
  /\ UNCHANGED <<file, counter, pc>>

HashesEnd ==
  /\ pc = "hashes"
  /\ Len(obj.hashes) >= obj.nhashes
  /\ pc' = "lines"
  /\ UNCHANGED <<file, rest, buffer, counter, obj>>

\* Mutant: the two counts are not compared.
NchunksUnchecked ==
  /\ Round(5)
  /\ obj' = [obj EXCEPT !.nchunks = Scan(buffer', "nchunks", @)]
  /\ UNCHANGED pc

Nchunks ==
  /\ Round(5)
  /\ obj' = [obj EXCEPT !.nchunks = Scan(buffer', "nchunks", @)]
  /\ pc' = IF obj'.nchunks = obj.nhashes + 1 THEN "lines" ELSE "exited"

Chunks ==
  /\ Round(6)
  /\ obj' = [obj EXCEPT !.chunks = <<>>]
  /\ pc' = "chunks"

\* Mutant: the first chunk is parsed from the heading before it.
ChunkFromHeading ==
  /\ pc = "chunks"
  /\ Len(obj.chunks) < obj.nchunks
  /\ Fgets
  /\ obj' = [obj EXCEPT !.chunks = Append(@, ChunkOf(buffer))]
  /\ UNCHANGED <<file, counter, pc>>

Chunk ==
  /\ pc = "chunks"
  /\ Len(obj.chunks) < obj.nchunks
  /\ Fgets
  /\ obj' = [obj EXCEPT !.chunks = Append(@, ChunkOf(buffer'))]
  /\ UNCHANGED <<file, counter, pc>>

\* Mutant: the loop counts the hashes, of which there is one less.
ChunksEndEarly ==
  /\ pc = "chunks"
  /\ Len(obj.chunks) >= obj.nhashes
  /\ pc' = "lines"
  /\ UNCHANGED <<file, rest, buffer, counter, obj>>

ChunksEnd ==
  /\ pc = "chunks"
  /\ Len(obj.chunks) >= obj.nchunks
  /\ pc' = "lines"
  /\ UNCHANGED <<file, rest, buffer, counter, obj>>

\* Lines after the last chunk are read and not looked at.
Ignored ==
  /\ counter > 6
  /\ Round(counter)
  /\ UNCHANGED <<obj, pc>>

\* fgets returns NULL: whatever has been read is returned.
EndOfFile ==
  /\ pc = "lines"
  /\ rest = <<>>
  /\ pc' = "returned"
  /\ UNCHANGED <<file, rest, buffer, counter, obj>>

Header == Ident \/ Filename \/ Size \/ Nhashes
HashLines == Hashes \/ Hash \/ HashesEnd
ChunkLines == Nchunks \/ Chunks \/ Chunk \/ ChunksEnd
Load == Open \/ Header \/ HashLines \/ ChunkLines \/ Ignored \/ EndOfFile

Ended == pc \in {"returned", "exited", "aborted"}

-----------------------------------------------------------------------------
(***************************************************************************)
(* Properties                                                              *)
(***************************************************************************)

\* The arrays that have been allocated are never written past their end.
ObjectOK ==
  /\ obj.hashes = NoHashes \/ Len(obj.hashes) <= obj.nhashes
  /\ obj.chunks = NoChunks \/ Len(obj.chunks) <= obj.nchunks

LoadTypeOK ==
  /\ file \in Files
  /\ IsSuffix(rest, file)
  /\ counter \in 0..Len(file)
  /\ ObjectOK
  /\ pc \in {"open", "lines", "hashes", "chunks", "returned", "exited", "aborted"}

\* A package file that is as the tool wrote it is loaded as it was written,
\* and refused exactly when its identifier is not hexadecimal or it does not
\* have one chunk more than hashes (or it cannot be opened).  That does not
\* make it a perfect tree: three chunks over two hashes are accepted.
LoadedAsWritten ==
  \A p \in Packages :
    file \in {Written(p), Trailing(p)} =>
      /\ pc = "returned" =>
           obj = p /\ p.identifier \in Hex /\ p.nchunks = p.nhashes + 1
      /\ pc = "exited" =>
           \/ rest = file
           \/ p.identifier \notin Hex
           \/ p.nchunks # p.nhashes + 1
      /\ pc # "aborted"

\* Whatever the file says, an object that is returned with a number of chunks
\* has an array of one hash less, and its array of chunks, if there is one,
\* is filled: what the Merkle tree and the queries take for granted.
CountsAgree ==
  pc = "returned" /\ obj.nchunks # NoInt =>
    /\ obj.nchunks = obj.nhashes + 1
    /\ obj.hashes # NoHashes /\ Len(obj.hashes) = obj.nhashes
    /\ obj.chunks # NoChunks => Len(obj.chunks) = obj.nchunks

\* A file that has lost one line before the heading of the chunks is never
\* loaded, although no line is checked against what is expected there: every
\* later field misses its line.
LossNoticed ==
  \A p \in Packages : \A n \in 1..(Len(p.hashes) + 6) :
    file = RemoveAt(Written(p), n) => pc # "returned"
=============================================================================
