---------------------------- MODULE DataFileProofs ----------------------------
(***************************************************************************)
(* Proofs about DataFile, for any number of processes, any size of the     *)
(* package and any file that was there before.                             *)
(*                                                                         *)
(* make_file is called by whoever could not open the file, and sizes a     *)
(* file that may have been filled meanwhile.  It loses nothing because the *)
(* size it gives is that of the package, whatever the file was before: the *)
(* file changes its length to Size only (FileResized).  A mapping is then  *)
(* within the file as far as the package goes, and has its size unless the *)
(* file had been left at another, or was being made, when fstat was asked  *)
(* (Mapping); no file at all is found only after a failed call (Opening).  *)
(***************************************************************************)
EXTENDS DataFile, SequenceTheorems, TLAPS

-----------------------------------------------------------------------------
(***************************************************************************)
(* The inductive invariant                                                 *)
(***************************************************************************)

\* From ftruncate to the last chunk the file is there, and hashChunk misses it
\* only after a call that failed.
Opening == \A p \in Procs :
  /\ pc[p] \in {"truncate", "stat", "mmap", "hash"} => Exists
  /\ pc[p] = "hash_open" => Exists \/ trouble[p] # {}

\* As far as the package goes a mapping lies within the file; it has the size
\* of the package unless the file has been left at another, or somebody was
\* making it when it was asked for its size.
Mapping == \A p \in Procs : pc[p] \in {"mmap", "hash"} =>
  /\ mapped[p] <= Len(file) \/ Size <= Len(file)
  /\ mapped[p] = Size \/ left \/ trouble[p] # {}

FileInv == TypeOK /\ SizedOrMaking /\ Opening /\ Mapping /\ GoodComputed /\ FaultExplained

\* How any step changes the file: to the size of the package if at all, and no
\* chunk of the package that has arrived goes.
FileResized ==
  /\ file' \in {NoFile} \cup Seq(Content)
  /\ Exists => Exists' /\ Len(file') \in {Len(file), Size}
  /\ \A c \in 1..Size :
       c \in DOMAIN file /\ file[c] = "good" => c \in DOMAIN file' /\ file'[c] = "good"

-----------------------------------------------------------------------------
(***************************************************************************)
(* Sequences of chunks                                                     *)
(***************************************************************************)

LEMMA NoFileIs == DOMAIN NoFile = {1} /\ NoFile[1] = "no file"
<1>1. ASSUME NEW x PROVE DOMAIN <<x>> = 1..1 /\ <<x>>[1] = x
  OBVIOUS
<1>2. 1..1 = {1}
  OBVIOUS
<1>. QED
  BY <1>1, <1>2, Zenon DEF NoFile

LEMMA NoFileApart == NoFile \notin Seq(Content)
<1>. SUFFICES ASSUME NoFile \in Seq(Content) PROVE FALSE
  OBVIOUS
<1>2. NoFile \in [1..Len(NoFile) -> Content]
  BY LenProperties
<1>3. \A c \in DOMAIN NoFile : NoFile[c] \in Content
  BY <1>2
<1>4. "no file" \in Content
  BY <1>3, NoFileIs, Zenon
<1>. QED
  BY <1>4 DEF Content

\* A chunk number is one of the numbers from 1 to the length.
LEMMA Chunks ==
  ASSUME NEW s \in Seq(Content)
  PROVE  /\ Len(s) \in Nat /\ DOMAIN s = 1..Len(s)
         /\ \A c \in 1..Len(s) : s[c] \in Content
  BY LenProperties, ElementOfSeq

LEMMA FunctionIsSeq ==
  ASSUME NEW n \in Nat, NEW s \in [1..n -> Content]
  PROVE  s \in Seq(Content) /\ Len(s) = n
  OBVIOUS

\* ftruncate to the size of the package.
LEMMA ResizedSeq ==
  ASSUME file \in Seq(Content)
  PROVE  /\ Resized(Size) \in Seq(Content)
         /\ Len(Resized(Size)) = Size
         /\ \A c \in 1..Size :
              Resized(Size)[c] = IF c <= Len(file) THEN file[c] ELSE "zero"
<1>1. \A c \in 1..Size : (IF c <= Len(file) THEN file[c] ELSE "zero") \in Content
  BY Chunks, SizeAssumption DEF Content
<1>2. Resized(Size) \in [1..Size -> Content]
  BY <1>1 DEF Resized
<1>3. Size \in Nat
  BY SizeAssumption
<1>. QED
  BY <1>2, <1>3, FunctionIsSeq DEF Resized

-----------------------------------------------------------------------------
(***************************************************************************)
(* Every step                                                              *)
(***************************************************************************)

LEMMA MeetType ==
  ASSUME NEW p \in Procs, NEW t \in Troubles, Meet(p, t), trouble \in [Procs -> SUBSET Troubles]
  PROVE  trouble' \in [Procs -> SUBSET Troubles]
<1>1. trouble[p] \cup {t} \in SUBSET Troubles
  OBVIOUS
<1>. QED
  BY <1>1 DEF Meet

LEMMA FileInvInit == Init => FileInv
<1>. SUFFICES ASSUME Init PROVE FileInv
  OBVIOUS
<1>1. file \in {NoFile} \cup Seq(Content)
  <2>1. \A n \in 0..MaxSize : [1..n -> Content] \subseteq Seq(Content)
    BY FunctionIsSeq, SizeAssumption
  <2>. QED
    BY <2>1 DEF Init, FilesThere
<1>2. <<>> \in Seq(Content) /\ Len(<<>>) = 0
  BY EmptySeq
<1>3. TypeOK
  BY <1>1, <1>2, SizeAssumption DEF Init, TypeOK, Places
<1>4. SizedOrMaking
  BY Zenon DEF Init, SizedOrMaking
<1>5. Opening /\ Mapping /\ FaultExplained
  BY DEF Init, Opening, Mapping, FaultExplained
<1>6. GoodComputed
  BY DEF Init, GoodComputed
<1>. QED
  BY <1>3, <1>4, <1>5, <1>6 DEF FileInv

LEMMA FileResizedStep == FileInv /\ [Next]_vars => FileResized
<1>. SUFFICES ASSUME FileInv, [Next]_vars PROVE FileResized
  OBVIOUS
<1>. USE DEF FileInv, TypeOK, Exists
<1>1. CASE UNCHANGED file
  <2>1. ASSUME Exists PROVE Len(file) \in Nat
    BY <2>1, Chunks
  <2>. QED
    BY <1>1, <2>1 DEF FileResized
<1>2. CASE WriteChunk
  <2>1. PICK k \in DOMAIN file : file' = [file EXCEPT ![k] = "good"]
    BY <1>2 DEF WriteChunk
  <2>2. Exists /\ file \in Seq(Content)
    BY <1>2 DEF WriteChunk
  <2>3. k \in 1..Len(file)
    BY <2>1, <2>2, Chunks
  <2>4. file' \in Seq(Content) /\ Len(file') = Len(file)
    BY <2>1, <2>2, <2>3, ExceptSeq DEF Content
  <2>5. \A c \in DOMAIN file : file'[c] = IF c = k THEN "good" ELSE file[c]
    BY <2>1
  <2>6. DOMAIN file' = DOMAIN file /\ Len(file) \in Nat
    BY <2>2, <2>4, Chunks
  <2>7. Exists'
    BY <2>4, NoFileApart
  <2>. QED
    BY <2>4, <2>5, <2>6, <2>7 DEF FileResized
<1>3. ASSUME NEW p \in Procs, MakeFileOpen(p) PROVE FileResized
  <2>1. CASE Exists
    BY <1>1, <1>3, <2>1 DEF MakeFileOpen
  <2>2. CASE ~Exists
    <3>1. file' \in Seq(Content)
      BY <1>3, <2>2, EmptySeq DEF MakeFileOpen
    <3>2. file = NoFile
      BY <2>2
    <3>3. DOMAIN file = {1} /\ file[1] = "no file"
      BY <3>2, NoFileIs
    <3>4. \A c \in DOMAIN file : file[c] # "good"
      BY <3>3, Zenon
    <3>. QED
      BY <2>2, <3>1, <3>4 DEF FileResized
  <2>. QED
    BY <2>1, <2>2
<1>4. ASSUME NEW p \in Procs, MakeFileTruncate(p) PROVE FileResized
  <2>1. Exists /\ file \in Seq(Content)
    BY <1>4 DEF MakeFileTruncate, Opening
  <2>2. file' = Resized(Size)
    BY <1>4 DEF MakeFileTruncate
  <2>3. /\ file' \in Seq(Content)
        /\ Len(file') = Size
        /\ \A c \in 1..Size : file'[c] = IF c <= Len(file) THEN file[c] ELSE "zero"
    BY <2>1, <2>2, ResizedSeq
  <2>4. DOMAIN file = 1..Len(file) /\ DOMAIN file' = 1..Size
    BY <2>1, <2>3, Chunks
  <2>5. Exists'
    BY <2>3, NoFileApart
  <2>6. ASSUME NEW c \in 1..Size, c \in DOMAIN file PROVE c \in DOMAIN file' /\ file'[c] = file[c]
    <3>1. c <= Len(file)
      BY <2>4, <2>6
    <3>. QED
      BY <2>3, <2>4, <3>1
  <2>. QED
    BY <2>3, <2>5, <2>6 DEF FileResized
<1>5. CASE UNCHANGED vars
  BY <1>1, <1>5 DEF vars
<1>. QED
  BY <1>1, <1>2, <1>3, <1>4, <1>5
  DEF Next, AddPackage, FileStep, HashStep, Failure, Outside, Fopen, FopenFails,
      MakeFileOpenFails, MakeFileTruncateFails, HashChunkOpen, HashChunkStat, HashChunkMap,
      HashChunkFails, HashChunkRead, HashChunkBeyond, HashChunkEnd, AddAgain, Kill

LEMMA TypeStep == FileInv /\ FileResized /\ [Next]_vars => TypeOK'
<1>. SUFFICES ASSUME FileInv, FileResized, [Next]_vars PROVE TypeOK'
  OBVIOUS
<1>. USE SizeAssumption DEF FileInv, TypeOK, Places, Goto
<1>0. "call" \in Troubles /\ "race" \in Troubles
  BY DEF Troubles
<1>1. file' \in {NoFile} \cup Seq(Content)
  BY DEF FileResized
<1>2. <<>> \in Seq(Content) /\ Len(<<>>) = 0
  BY EmptySeq
<1>3. ASSUME NEW p \in Procs, HashChunkStat(p) PROVE TypeOK'
  <2>1. Len(file) \in Nat
    BY <1>3, Chunks DEF Exists, Opening, HashChunkStat
  <2>2. mapped' \in [Procs -> Nat] /\ pc' \in [Procs -> Places]
    BY <1>3, <2>1 DEF HashChunkStat
  <2>3. trouble' \in [Procs -> SUBSET Troubles]
    BY <1>0, <1>3, MeetType DEF HashChunkStat
  <2>. QED
    BY <1>1, <1>3, <2>2, <2>3 DEF HashChunkStat
<1>4. ASSUME NEW p \in Procs, HashChunkMap(p) PROVE TypeOK'
  <2>1. pc' \in [Procs -> Places] /\ UNCHANGED <<left, mapped, trouble>>
    BY <1>4 DEF HashChunkMap
  <2>2. computed' = [computed EXCEPT ![p] = <<>>] \/ computed' = computed
    BY <1>4 DEF HashChunkMap
  <2>3. \A q \in Procs : computed'[q] = <<>> \/ computed'[q] = computed[q]
    BY <2>2
  <2>4. DOMAIN computed' = Procs /\ computed' = [q \in Procs |-> computed'[q]]
    BY <2>2
  <2>5. \A q \in Procs : computed'[q] \in Seq(Content) /\ Len(computed'[q]) <= Size
    <3>. TAKE q \in Procs
    <3>1. CASE computed'[q] = <<>>
      BY <1>2, <3>1
    <3>2. CASE computed'[q] = computed[q]
      BY <3>2
    <3>. QED
      BY <2>3, <3>1, <3>2
  <2>. QED
    BY <1>1, <2>1, <2>4, <2>5
<1>5. ASSUME NEW p \in Procs, NEW e \in Content, Len(computed[p]) < Size,
             computed' = [computed EXCEPT ![p] = Append(@, e)],
             UNCHANGED <<left, pc, mapped, trouble>>
      PROVE  TypeOK'
  <2>1. Append(computed[p], e) \in Seq(Content) /\ Len(Append(computed[p], e)) = Len(computed[p]) + 1
    BY AppendProperties
  <2>2. Len(computed[p]) \in Nat
    BY Chunks
  <2>. QED
    BY <1>1, <1>5, <2>1, <2>2
<1>6. ASSUME NEW p \in Procs, HashChunkRead(p) PROVE TypeOK'
  <2>1. /\ Exists /\ Len(computed[p]) < mapped[p] /\ Len(computed[p]) < Size
        /\ mapped[p] <= Len(file) \/ Size <= Len(file)
    BY <1>6 DEF HashChunkRead, Mapping, Opening
  <2>2. Len(computed[p]) \in Nat /\ Len(file) \in Nat
    BY <2>1, Chunks DEF Exists
  <2>3. Len(computed[p]) + 1 \in 1..Len(file)
    BY <2>1, <2>2
  <2>4. file[Len(computed[p]) + 1] \in Content
    BY <2>1, <2>3, Chunks DEF Exists
  <2>. QED
    BY <1>5, <1>6, <2>4 DEF HashChunkRead
<1>7. ASSUME NEW p \in Procs, HashChunkBeyond(p) PROVE TypeOK'
  <2>1. PICK e : e = IF Len(computed[p]) < Len(file) THEN file[Len(computed[p]) + 1] ELSE "zero"
    OBVIOUS
  <2>2. e \in Content
    <3>1. Exists
      BY <1>7 DEF HashChunkBeyond, Opening
    <3>2. Len(computed[p]) \in Nat /\ Len(file) \in Nat
      BY <3>1, Chunks DEF Exists
    <3>3. CASE Len(computed[p]) < Len(file)
      <4>1. Len(computed[p]) + 1 \in 1..Len(file)
        BY <3>2, <3>3
      <4>. QED
        BY <2>1, <3>1, <3>3, <4>1, Chunks DEF Exists
    <3>4. CASE ~(Len(computed[p]) < Len(file))
      BY <2>1, <3>4 DEF Content
    <3>. QED
      BY <3>3, <3>4
  <2>3. CASE pc' = pc /\ computed' = [computed EXCEPT ![p] = Append(@, e)]
    BY <1>5, <1>7, <2>2, <2>3 DEF HashChunkBeyond
  <2>4. CASE Goto(p, "fault") /\ computed' = computed
    BY <1>1, <1>7, <2>4 DEF HashChunkBeyond
  <2>. QED
    BY <1>7, <2>1, <2>3, <2>4 DEF HashChunkBeyond
<1>8. ASSUME NEW p \in Procs,
             FileStep(p) \/ Failure(p) \/ HashChunkOpen(p) \/ HashChunkEnd(p) \/ Outside(p)
      PROVE  TypeOK'
  <2>1. UNCHANGED computed /\ mapped' \in [Procs -> Nat]
    <3>1. CASE AddAgain(p)
      BY <3>1 DEF AddAgain
    <3>2. CASE ~AddAgain(p)
      BY <1>8, <3>2 DEF FileStep, Failure, Outside, Fopen, FopenFails, MakeFileOpen,
         MakeFileTruncate, MakeFileOpenFails, MakeFileTruncateFails, HashChunkOpen,
         HashChunkFails, HashChunkEnd, Kill
    <3>. QED
      BY <3>1, <3>2
  <2>2. left' \in BOOLEAN
    BY <1>8, Zenon DEF FileStep, Failure, Outside, Fopen, FopenFails, MakeFileOpen,
       MakeFileTruncate, MakeFileOpenFails, MakeFileTruncateFails, HashChunkOpen,
       HashChunkFails, HashChunkEnd, AddAgain, Kill
  <2>3. pc' \in [Procs -> Places]
    BY <1>8 DEF FileStep, Failure, Outside, Fopen, FopenFails, MakeFileOpen, MakeFileTruncate,
       MakeFileOpenFails, MakeFileTruncateFails, HashChunkOpen, HashChunkFails, HashChunkEnd,
       AddAgain, Kill
  <2>4. trouble' \in [Procs -> SUBSET Troubles]
    <3>1. UNCHANGED trouble \/ Meet(p, "call") \/ trouble' = [trouble EXCEPT ![p] = {}]
      BY <1>8 DEF FileStep, Failure, Outside, Fopen, FopenFails, MakeFileOpen, MakeFileTruncate,
         MakeFileOpenFails, MakeFileTruncateFails, HashChunkOpen, HashChunkFails, HashChunkEnd,
         AddAgain, Kill
    <3>2. CASE Meet(p, "call")
      BY <1>0, <3>2, MeetType
    <3>3. CASE trouble' = [trouble EXCEPT ![p] = {}]
      BY <3>3
    <3>. QED
      BY <3>1, <3>2, <3>3
  <2>. QED
    BY <1>1, <2>1, <2>2, <2>3, <2>4
<1>9. CASE WriteChunk \/ UNCHANGED vars
  BY <1>1, <1>9 DEF WriteChunk, vars
<1>. QED
  BY <1>3, <1>4, <1>6, <1>7, <1>8, <1>9 DEF Next, AddPackage, HashStep

\* The file stays at the size of the package once it has it.
LEMMA SizedStep == FileInv /\ FileResized /\ [Next]_vars => SizedOrMaking'
<1>. SUFFICES ASSUME FileInv, FileResized, [Next]_vars, Exists', ~left', ~Sized'
              PROVE  file' = <<>> /\ \E p \in Procs : pc'[p] = "truncate"
  BY DEF SizedOrMaking
<1>. USE DEF FileInv, TypeOK, Goto
<1>1. ~left
  BY DEF Next, AddPackage, FileStep, HashStep, Failure, Outside, Fopen, FopenFails, MakeFileOpen,
     MakeFileTruncate, MakeFileOpenFails, MakeFileTruncateFails, HashChunkOpen, HashChunkStat,
     HashChunkMap, HashChunkFails, HashChunkRead, HashChunkBeyond, HashChunkEnd, AddAgain, Kill,
     WriteChunk, vars
<1>2. ~Sized
  BY DEF Sized, FileResized
<1>3. CASE ~Exists
  <2>1. PICK p \in Procs : MakeFileOpen(p)
    BY <1>3 DEF Exists, Next, AddPackage, FileStep, HashStep, Failure, Outside, Fopen,
       FopenFails, MakeFileTruncate, MakeFileOpenFails, MakeFileTruncateFails, HashChunkOpen,
       HashChunkStat, HashChunkMap, HashChunkFails, HashChunkRead, HashChunkBeyond,
       HashChunkEnd, AddAgain, Kill, WriteChunk, vars, Opening
  <2>. QED
    BY <1>3, <2>1 DEF MakeFileOpen
<1>4. CASE Exists
  <2>1. PICK q \in Procs : file = <<>> /\ pc[q] = "truncate"
    BY <1>1, <1>2, <1>4 DEF SizedOrMaking
  <2>2. \A p \in Procs : ~MakeFileTruncate(p)
    BY <1>4, ResizedSeq DEF MakeFileTruncate, Exists, Sized
  <2>3. ~WriteChunk
    <3>1. DOMAIN file = {}
      BY <2>1
    <3>. QED
      BY <3>1 DEF WriteChunk
  <2>4. file' = file
    BY <1>4, <2>2, <2>3 DEF Next, AddPackage, FileStep, HashStep, Failure, Outside, Fopen,
       FopenFails, MakeFileOpen, MakeFileOpenFails, MakeFileTruncateFails, HashChunkOpen,
       HashChunkStat, HashChunkMap, HashChunkFails, HashChunkRead, HashChunkBeyond,
       HashChunkEnd, AddAgain, Kill, vars
  <2>5. ~MakeFileTruncateFails(q) /\ ~Kill(q)
    BY <1>2, <2>1 DEF MakeFileTruncateFails, Kill
  <2>6. pc'[q] = "truncate"
    BY <2>1, <2>2, <2>3, <2>5 DEF Next, AddPackage, FileStep, HashStep, Failure, Outside, Fopen,
       FopenFails, MakeFileOpen, MakeFileOpenFails, MakeFileTruncateFails, HashChunkOpen,
       HashChunkStat, HashChunkMap, HashChunkFails, HashChunkRead, HashChunkBeyond,
       HashChunkEnd, AddAgain, Kill, vars
  <2>. QED
    BY <2>1, <2>4, <2>6
<1>. QED
  BY <1>3, <1>4

\* What happened is not forgotten before the next ADDPACKAGE.
LEMMA TroubleStep ==
  ASSUME FileInv, [Next]_vars, NEW q \in Procs
  PROVE  /\ left => left'
         /\ trouble[q] # {} => trouble'[q] # {} \/ AddAgain(q)
<1>. USE DEF FileInv, TypeOK
<1>1. left => left'
  BY DEF Next, AddPackage, FileStep, HashStep, Failure, Outside, Fopen, FopenFails,
     MakeFileTruncate, MakeFileOpen, MakeFileOpenFails, MakeFileTruncateFails, HashChunkOpen,
     HashChunkStat, HashChunkMap, HashChunkFails, HashChunkRead, HashChunkBeyond, HashChunkEnd,
     AddAgain, Kill, WriteChunk, vars
<1>2. ASSUME NEW p \in Procs, NEW t, Meet(p, t) PROVE trouble[q] # {} => trouble'[q] # {}
  BY <1>2 DEF Meet
<1>3. ASSUME NEW p \in Procs, AddAgain(p), p # q PROVE trouble'[q] = trouble[q]
  BY <1>3 DEF AddAgain
<1>4. \/ UNCHANGED trouble
      \/ \E p \in Procs : Meet(p, "call") \/ Meet(p, "race") \/ AddAgain(p)
  BY DEF Next, AddPackage, FileStep, HashStep, Failure, Outside, Fopen, FopenFails,
     MakeFileTruncate, MakeFileOpen, MakeFileOpenFails, MakeFileTruncateFails, HashChunkOpen,
     HashChunkStat, HashChunkMap, HashChunkFails, HashChunkRead, HashChunkBeyond, HashChunkEnd,
     Kill, WriteChunk, vars
<1>5. CASE UNCHANGED trouble
  BY <1>1, <1>5
<1>6. CASE \E p \in Procs : Meet(p, "call") \/ Meet(p, "race") \/ AddAgain(p)
  BY <1>1, <1>2, <1>3, <1>6
<1>. QED
  BY <1>4, <1>5, <1>6

\* How a process gets past its fopen.
LEMMA OpeningStep == FileInv /\ FileResized /\ [Next]_vars => Opening'
<1>. SUFFICES ASSUME FileInv, FileResized, [Next]_vars, NEW q \in Procs
              PROVE  /\ pc'[q] \in {"truncate", "stat", "mmap", "hash"} => Exists'
                     /\ pc'[q] = "hash_open" => Exists' \/ trouble'[q] # {}
  BY DEF Opening
<1>. USE DEF FileInv, TypeOK, Goto
<1>1. pc'[q] = pc[q] \/ (q \in Procs /\ (AddPackage(q) \/ Outside(q)))
  BY DEF Next, AddPackage, FileStep, HashStep, Failure, Outside, Fopen, FopenFails,
     MakeFileTruncate, MakeFileOpen, MakeFileOpenFails, MakeFileTruncateFails, HashChunkOpen,
     HashChunkStat, HashChunkMap, HashChunkFails, HashChunkRead, HashChunkBeyond, HashChunkEnd,
     AddAgain, Kill, WriteChunk, vars
<1>2. Exists => Exists'
  BY DEF FileResized
<1>3. CASE pc'[q] = pc[q]
  <2>1. ~AddAgain(q)
    BY <1>3 DEF AddAgain
  <2>. QED
    BY <1>2, <1>3, <2>1, TroubleStep DEF Opening
<1>4. CASE FopenFails(q) \/ Outside(q)
  BY <1>4 DEF FopenFails, Outside, AddAgain, Kill
<1>5. CASE Fopen(q)
  BY <1>2, <1>5 DEF Fopen
<1>6. CASE MakeFileOpen(q)
  <2>1. <<>> # NoFile
    BY EmptySeq, NoFileApart
  <2>. QED
    BY <1>6, <2>1 DEF MakeFileOpen, Exists
<1>7. CASE MakeFileOpenFails(q)
  BY <1>7 DEF MakeFileOpenFails, Meet
<1>8. CASE MakeFileTruncate(q) \/ MakeFileTruncateFails(q) \/ HashStep(q)
  BY <1>2, <1>8
  DEF Opening, MakeFileTruncate, MakeFileTruncateFails, HashStep, HashChunkOpen, HashChunkStat,
      HashChunkMap, HashChunkRead, HashChunkBeyond, HashChunkEnd
<1>9. CASE HashChunkFails(q)
  BY <1>9 DEF HashChunkFails
<1>. QED
  BY <1>1, <1>3, <1>4, <1>5, <1>6, <1>7, <1>8, <1>9 DEF AddPackage, FileStep, Failure

LEMMA MappingStep == FileInv /\ FileResized /\ [Next]_vars => Mapping'
<1>. SUFFICES ASSUME FileInv, FileResized, [Next]_vars, NEW q \in Procs, pc'[q] \in {"mmap", "hash"}
              PROVE  /\ mapped'[q] <= Len(file') \/ Size <= Len(file')
                     /\ mapped'[q] = Size \/ left' \/ trouble'[q] # {}
  BY DEF Mapping
<1>. USE DEF FileInv, TypeOK, Goto
<1>1. CASE HashChunkStat(q)
  <2>1. Exists /\ mapped'[q] = Len(file) /\ file' = file /\ left' = left
    BY <1>1 DEF HashChunkStat, Opening
  <2>2. Len(file) \in Nat
    BY <2>1, Chunks DEF Exists
  <2>3. CASE Sized \/ left
    BY <2>1, <2>2, <2>3 DEF Sized
  <2>4. CASE ~Sized /\ ~left
    <3>1. \E r \in Procs : pc[r] = "truncate"
      BY <2>1, <2>4 DEF SizedOrMaking
    <3>2. \E r \in Procs \ {q} : pc[r] = "truncate"
      BY <1>1, <3>1 DEF HashChunkStat
    <3>3. trouble'[q] # {}
      BY <1>1, <3>2 DEF HashChunkStat, Meet
    <3>. QED
      BY <2>1, <2>2, <3>3
  <2>. QED
    BY <2>3, <2>4
<1>2. CASE pc[q] \in {"mmap", "hash"} /\ mapped'[q] = mapped[q]
  <2>1. /\ Exists
        /\ mapped[q] <= Len(file) \/ Size <= Len(file)
        /\ mapped[q] = Size \/ left \/ trouble[q] # {}
    BY <1>2 DEF Mapping, Opening
  <2>2. Len(file) \in Nat /\ Size \in Nat /\ Len(file') \in {Len(file), Size}
    BY <2>1, Chunks, SizeAssumption DEF Exists, FileResized
  <2>3. ~AddAgain(q)
    BY <1>2 DEF AddAgain
  <2>. QED
    <3>1. mapped'[q] <= Len(file') \/ Size <= Len(file')
      BY <1>2, <2>1, <2>2
    <3>2. mapped[q] = Size \/ left' \/ trouble'[q] # {}
      BY <2>1, <2>3, TroubleStep
    <3>. QED
      BY <1>2, <3>1, <3>2
<1>3. HashChunkStat(q) \/ (pc[q] \in {"mmap", "hash"} /\ mapped'[q] = mapped[q])
  BY DEF Next, AddPackage, FileStep, HashStep, Failure, Outside, Fopen, FopenFails,
     MakeFileTruncate, MakeFileOpen, MakeFileOpenFails, MakeFileTruncateFails, HashChunkOpen,
     HashChunkStat, HashChunkMap, HashChunkFails, HashChunkRead, HashChunkBeyond, HashChunkEnd,
     AddAgain, Kill, WriteChunk, vars
<1>. QED
  BY <1>1, <1>2, <1>3

\* A process faults at a mapping that is too short, without a file, or where a
\* call fails.
LEMMA FaultStep == FileInv /\ FileResized /\ [Next]_vars => FaultExplained'
<1>. SUFFICES ASSUME FileInv, FileResized, [Next]_vars, NEW q \in Procs, pc'[q] = "fault"
              PROVE  left' \/ trouble'[q] # {}
  BY DEF FaultExplained
<1>. USE DEF FileInv, TypeOK, Goto
<1>1. ~AddAgain(q)
  BY DEF AddAgain
<1>2. SUFFICES left \/ trouble[q] # {} \/ trouble'[q] # {}
  BY <1>1, TroubleStep
<1>3. \/ pc[q] = "fault" \/ HashChunkOpen(q) \/ HashChunkMap(q) \/ HashChunkFails(q)
      \/ HashChunkBeyond(q)
  BY DEF Next, AddPackage, FileStep, HashStep, Failure, Outside, Fopen, FopenFails,
     MakeFileTruncate, MakeFileOpen, MakeFileOpenFails, MakeFileTruncateFails, HashChunkStat,
     HashChunkOpen, HashChunkMap, HashChunkFails, HashChunkRead, HashChunkBeyond, HashChunkEnd,
     AddAgain, Kill, WriteChunk, vars
<1>4. CASE pc[q] = "fault"
  BY <1>4 DEF FaultExplained
<1>5. CASE HashChunkOpen(q)
  BY <1>5 DEF HashChunkOpen, Opening
<1>6. CASE HashChunkMap(q)
  <2>1. mapped[q] = 0 /\ pc[q] = "mmap"
    BY <1>6 DEF HashChunkMap
  <2>. QED
    BY <2>1, SizeAssumption DEF Mapping
<1>7. CASE HashChunkFails(q)
  BY <1>7 DEF HashChunkFails, Meet
<1>8. CASE HashChunkBeyond(q)
  <2>1. /\ pc[q] = "hash"
        /\ Len(computed[q]) < Size /\ Len(computed[q]) >= mapped[q]
    BY <1>8 DEF HashChunkBeyond
  <2>2. Len(computed[q]) \in Nat /\ mapped[q] \in Nat
    BY Chunks
  <2>3. mapped[q] # Size
    BY <2>1, <2>2, SizeAssumption
  <2>. QED
    BY <2>1, <2>3 DEF Mapping
<1>. QED
  BY <1>3, <1>4, <1>5, <1>6, <1>7, <1>8

\* What has been hashed as good is still there.
LEMMA GoodComputedStep == FileInv /\ FileResized /\ [Next]_vars => GoodComputed'
<1>. SUFFICES ASSUME FileInv, FileResized, [Next]_vars, NEW q \in Procs,
                     NEW c \in DOMAIN computed'[q], computed'[q][c] = "good"
              PROVE  c \in DOMAIN file' /\ file'[c] = "good"
  BY DEF GoodComputed
<1>. USE DEF FileInv, TypeOK, Goto
<1>0. computed'[q] \in Seq(Content) /\ Len(computed'[q]) <= Size /\ c \in 1..Size
  <2>1. TypeOK'
    BY TypeStep
  <2>. QED
    BY <2>1, Chunks, SizeAssumption
<1>1. SUFFICES c \in DOMAIN file /\ file[c] = "good"
  BY <1>0 DEF FileResized
<1>2. CASE computed'[q] = computed[q]
  BY <1>2 DEF GoodComputed
<1>3. CASE computed'[q] = <<>>
  <2>1. DOMAIN <<>> = {}
    OBVIOUS
  <2>. QED
    BY <1>3, <2>1
<1>4. ASSUME NEW e \in Content, computed'[q] = Append(computed[q], e),
             e = "good" => /\ Len(computed[q]) + 1 \in DOMAIN file
                           /\ file[Len(computed[q]) + 1] = "good"
      PROVE  c \in DOMAIN file /\ file[c] = "good"
  <2>1. /\ Append(computed[q], e) \in Seq(Content)
        /\ Len(Append(computed[q], e)) = Len(computed[q]) + 1
        /\ \A i \in 1..Len(computed[q]) : Append(computed[q], e)[i] = computed[q][i]
        /\ Append(computed[q], e)[Len(computed[q]) + 1] = e
    BY AppendProperties
  <2>2. Len(computed[q]) \in Nat /\ DOMAIN computed[q] = 1..Len(computed[q])
    BY Chunks
  <2>3. c \in 1..(Len(computed[q]) + 1)
    BY <1>4, <2>1, Chunks
  <2>4. CASE c = Len(computed[q]) + 1
    BY <1>4, <2>1, <2>4
  <2>5. CASE c \in 1..Len(computed[q])
    BY <1>4, <2>1, <2>2, <2>5 DEF GoodComputed
  <2>. QED
    BY <2>2, <2>3, <2>4, <2>5
<1>5. CASE HashChunkRead(q)
  <2>1. /\ Exists /\ Len(computed[q]) < mapped[q] /\ Len(computed[q]) < Size
        /\ mapped[q] <= Len(file) \/ Size <= Len(file)
        /\ computed'[q] = Append(computed[q], file[Len(computed[q]) + 1])
    BY <1>5 DEF HashChunkRead, Mapping, Opening
  <2>2. Len(file) \in Nat /\ DOMAIN file = 1..Len(file) /\ Len(computed[q]) \in Nat
    BY <2>1, Chunks DEF Exists
  <2>3. Len(computed[q]) + 1 \in DOMAIN file
    BY <2>1, <2>2, SizeAssumption
  <2>4. file[Len(computed[q]) + 1] \in Content
    BY <2>1, <2>2, <2>3, Chunks DEF Exists
  <2>. QED
    BY <1>4, <2>1, <2>3, <2>4
<1>6. CASE HashChunkBeyond(q) /\ computed'[q] # computed[q]
  <2>1. PICK e : e = IF Len(computed[q]) < Len(file) THEN file[Len(computed[q]) + 1] ELSE "zero"
    OBVIOUS
  <2>2. Exists /\ computed'[q] = Append(computed[q], e)
    BY <1>6, <2>1 DEF HashChunkBeyond, Opening
  <2>3. Len(file) \in Nat /\ DOMAIN file = 1..Len(file) /\ Len(computed[q]) \in Nat
    BY <2>2, Chunks DEF Exists
  <2>4. CASE Len(computed[q]) < Len(file)
    <3>1. Len(computed[q]) + 1 \in 1..Len(file) /\ e = file[Len(computed[q]) + 1]
      BY <2>1, <2>3, <2>4
    <3>2. e \in Content
      BY <2>2, <3>1, Chunks DEF Exists
    <3>. QED
      BY <1>4, <2>2, <2>3, <3>1, <3>2
  <2>5. CASE ~(Len(computed[q]) < Len(file))
    <3>1. e = "zero" /\ e \in Content /\ e # "good"
      BY <2>1, <2>5 DEF Content
    <3>. QED
      BY <1>4, <2>2, <3>1
  <2>. QED
    BY <2>4, <2>5
<1>7. \/ computed'[q] = computed[q] \/ computed'[q] = <<>>
      \/ HashChunkRead(q) \/ HashChunkBeyond(q)
  BY DEF Next, AddPackage, FileStep, HashStep, Failure, Outside, Fopen, FopenFails,
     MakeFileTruncate, MakeFileOpen, MakeFileOpenFails, MakeFileTruncateFails, HashChunkOpen,
     HashChunkStat, HashChunkMap, HashChunkFails, HashChunkRead, HashChunkBeyond, HashChunkEnd,
     AddAgain, Kill, WriteChunk, vars
<1>. QED
  BY <1>2, <1>3, <1>5, <1>6, <1>7

LEMMA FileInvStep == FileInv /\ [Next]_vars => FileInv'
  BY FileResizedStep, TypeStep, SizedStep, OpeningStep, MappingStep, GoodComputedStep, FaultStep
  DEF FileInv

-----------------------------------------------------------------------------
(***************************************************************************)
(* The theorems                                                            *)
(***************************************************************************)

\* The invariant of the proofs: the size and the presence of the file, at every
\* call of make_file and hashChunk, and what has gone wrong where they are not
\* those of the package.
THEOREM FileInvariant == Spec => []FileInv
<1>. QED
  BY FileInvInit, FileInvStep, PTL DEF Spec

\* Every variable keeps to its type, and no more chunks are hashed than the
\* package has.
THEOREM TypeCorrect == Spec => []TypeOK
<1>1. FileInv => TypeOK
  BY DEF FileInv
<1>. QED
  BY <1>1, FileInvariant, PTL

\* The file has the size of the package, or is about to get it, unless it has
\* been left at another by a failure or a kill, or was there before.
THEOREM SizedCorrect == Spec => []SizedOrMaking
<1>1. FileInv => SizedOrMaking
  BY DEF FileInv
<1>. QED
  BY <1>1, FileInvariant, PTL

\* A chunk that any process found good is good for ever.
THEOREM GoodComputedCorrect == Spec => []GoodComputed
<1>1. FileInv => GoodComputed
  BY DEF FileInv
<1>. QED
  BY <1>1, FileInvariant, PTL

\* However many processes find no file, or cannot open it, and make one, and
\* however their steps interleave with the arrival of chunks, no chunk of the
\* package that arrived is lost.
THEOREM NothingLost == Spec => GoodKept
<1>. DEFINE A == \A c \in 1..Size :
                   c \in DOMAIN file /\ file[c] = "good" => c \in DOMAIN file' /\ file'[c] = "good"
<1>1. FileInv /\ [Next]_vars => [A]_file
  BY FileResizedStep DEF FileResized
<1>2. Spec => [][A]_file
  BY <1>1, FileInvariant, PTL DEF Spec
<1>. QED
  BY <1>2 DEF GoodKept

\* ADDPACKAGE ends the process by a fault only after a failed call, on a file
\* left at another size, or in the race with a process that makes the file.
THEOREM FaultsExplained == Spec => []FaultExplained
<1>1. FileInv => FaultExplained
  BY DEF FileInv
<1>. QED
  BY <1>1, FileInvariant, PTL
=============================================================================
