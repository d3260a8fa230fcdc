------------------------------ MODULE DataFile ------------------------------
(***************************************************************************)
(* The data file of a package, as the processes that share its directory   *)
(* create and read it: add_package of btide (and -file_check of pkgmain)   *)
(* look for it with fopen, make_file creates and sizes it, hashChunk maps  *)
(* it and hashes its chunks.  Each system call is a step, and every one of *)
(* them may fail, also on a file that is there: make_file gives the file   *)
(* mode 0600, so a process of another user may not open it, and a process  *)
(* can be short of descriptors or memory.  The process may be killed       *)
(* between any two calls, and asked for the package again.  Something      *)
(* outside the program fills in the chunks; the file is never removed.     *)
(*                                                                         *)
(* The file is the sequence of its chunks; all packages that name it agree *)
(* on Size, the number of chunks.                                          *)
(***************************************************************************)
EXTENDS Integers, Sequences

CONSTANTS
  Procs,      \* the processes
  Size,       \* obj->size, in chunks
  MaxSize     \* bound on the size of a file that was there before

ASSUME SizeAssumption == Size \in Nat \ {0} /\ MaxSize \in Nat

VARIABLES
  file,       \* NoFile or the chunks
  left,       \* the file has been left at a size that is not the package's
  pc,
  mapped,     \* st_size, the length of the mapping
  computed,   \* the chunks hashed so far
  trouble     \* what this ADDPACKAGE has met, a history for the properties

vars == <<file, left, pc, mapped, computed, trouble>>

\* What a chunk holds: the data the package promises, other data, or the
\* zeros of ftruncate.
Content == {"good", "other", "zero"}
NoFile == <<"no file">>

Exists == file # NoFile
Sized == Exists /\ Len(file) = Size

\* A system call failed; the file was asked for its size while another
\* process was between its open and its ftruncate.
Troubles == {"call", "race"}
Meet(p, t) == trouble' = [trouble EXCEPT ![p] = @ \cup {t}]

FilesThere == UNION {[1..n -> Content] : n \in 0..MaxSize}

Init ==
  /\ file \in {NoFile} \cup FilesThere
  /\ left = (Exists /\ ~Sized)
  /\ pc = [p \in Procs |-> "idle"]      \* asked for the package
  /\ mapped = [p \in Procs |-> 0]
  /\ computed = [p \in Procs |-> <<>>]
  /\ trouble = [p \in Procs |-> {}]

Goto(p, l) == pc' = [pc EXCEPT ![p] = l]

-----------------------------------------------------------------------------
(***************************************************************************)
(* add_package: fopen, and make_file when it fails                         *)
(***************************************************************************)

Fopen(p) ==
  /\ pc[p] = "idle"
  /\ Goto(p, IF Exists THEN "hash_open" ELSE "open")
  /\ UNCHANGED <<file, left, mapped, computed, trouble>>

\* fopen fails on a file that is there, which is taken for a missing one.
FopenFails(p) ==
  /\ pc[p] = "idle"
  /\ Exists
  /\ Goto(p, "open")
  /\ Meet(p, "call")
  /\ UNCHANGED <<file, left, mapped, computed>>

\* Mutant: make_file empties a file that has come into being meanwhile.
MakeFileOpenTruncates(p) ==
  /\ pc[p] = "open"
  /\ file' = <<>>
  /\ Goto(p, "truncate")
  /\ UNCHANGED <<left, mapped, computed, trouble>>

\* open(filename, O_RDWR | O_CREAT), without O_EXCL.
MakeFileOpen(p) ==
  /\ pc[p] = "open"
  /\ file' = IF Exists THEN file ELSE <<>>
  /\ Goto(p, "truncate")
  /\ UNCHANGED <<left, mapped, computed, trouble>>

\* A failure is not looked at, and ftruncate and close of -1 fail as well.
MakeFileOpenFails(p) ==
  /\ pc[p] = "open"
  /\ Goto(p, "hash_open")
  /\ Meet(p, "call")
  /\ UNCHANGED <<file, left, mapped, computed>>

\* The first n chunks of the file, or the file followed by zeros.
Resized(n) == [c \in 1..n |-> IF c <= Len(file) THEN file[c] ELSE "zero"]

\* Mutant: ftruncate is given the index of the last chunk.
MakeFileTruncateShort(p) ==
  /\ pc[p] = "truncate"
  /\ file' = Resized(Size - 1)
  /\ Goto(p, "hash_open")
  /\ UNCHANGED <<left, mapped, computed, trouble>>

MakeFileTruncate(p) ==
  /\ pc[p] = "truncate"
  /\ file' = Resized(Size)
  /\ Goto(p, "hash_open")
  /\ UNCHANGED <<left, mapped, computed, trouble>>

\* No space: not looked at either.
MakeFileTruncateFails(p) ==
  /\ pc[p] = "truncate"
  /\ left' = (left \/ ~Sized)
  /\ Goto(p, "hash_open")
  /\ Meet(p, "call")
  /\ UNCHANGED <<file, mapped, computed>>

-----------------------------------------------------------------------------
(***************************************************************************)
(* hashChunk: when it returns NULL, recursiveTree faults at the first leaf *)
(***************************************************************************)

\* open(filename, O_RDONLY); there is no file after a make_file that failed.
HashChunkOpen(p) ==
  /\ pc[p] = "hash_open"
  /\ Goto(p, IF Exists THEN "stat" ELSE "fault")
  /\ UNCHANGED <<file, left, mapped, computed, trouble>>

\* fstat: the size of the mapping.
HashChunkStat(p) ==
  /\ pc[p] = "stat"
  /\ mapped' = [mapped EXCEPT ![p] = Len(file)]
  /\ Goto(p, "mmap")
  /\ IF \E q \in Procs \ {p} : pc[q] = "truncate" THEN Meet(p, "race") ELSE UNCHANGED trouble
  /\ UNCHANGED <<file, left, computed>>

\* mmap, which refuses a length of zero.
HashChunkMap(p) ==
  /\ pc[p] = "mmap"
  /\ IF mapped[p] # 0
       THEN Goto(p, "hash") /\ computed' = [computed EXCEPT ![p] = <<>>]
       ELSE Goto(p, "fault") /\ UNCHANGED computed
  /\ UNCHANGED <<file, left, mapped, trouble>>

\* open, fstat or mmap fails on the file that is there.
HashChunkFails(p) ==
  /\ pc[p] \in {"hash_open", "stat", "mmap"}
  /\ Goto(p, "fault")
  /\ Meet(p, "call")
  /\ UNCHANGED <<file, left, mapped, computed>>

\* Mutant: the hash of the chunk is computed from the chunk before.
HashChunkReadPrevious(p) ==
  /\ pc[p] = "hash"
  /\ LET c == Len(computed[p]) IN
       /\ c < Size /\ c < mapped[p]
       /\ computed' = [computed EXCEPT ![p] = Append(@, file[IF c = 0 THEN 1 ELSE c])]
  /\ UNCHANGED <<file, left, pc, mapped, trouble>>

\* A chunk of the file: the mapping is shared.
HashChunkRead(p) ==
  /\ pc[p] = "hash"
  /\ LET c == Len(computed[p]) IN
       /\ c < Size /\ c < mapped[p]
       /\ computed' = [computed EXCEPT ![p] = Append(@, file[c + 1])]
  /\ UNCHANGED <<file, left, pc, mapped, trouble>>

\* A chunk behind the end of the mapping: its last page goes on with what the
\* file has there by now, or with zeros, behind it there is nothing.
HashChunkBeyond(p) ==
  /\ pc[p] = "hash"
  /\ LET c == Len(computed[p]) IN
       /\ c < Size /\ c >= mapped[p]
       /\ \/ /\ computed' = [computed EXCEPT ![p] =
                               Append(@, IF c < Len(file) THEN file[c + 1] ELSE "zero")]
             /\ UNCHANGED pc
          \/ Goto(p, "fault") /\ UNCHANGED computed
  /\ UNCHANGED <<file, left, mapped, trouble>>

\* munmap and close
HashChunkEnd(p) ==
  /\ pc[p] = "hash"
  /\ Len(computed[p]) >= Size
  /\ Goto(p, "added")
  /\ UNCHANGED <<file, left, mapped, computed, trouble>>

-----------------------------------------------------------------------------

\* The user asks again, here or in a new process.
AddAgain(p) ==
  /\ pc[p] \in {"added", "fault", "killed"}
  /\ Goto(p, "idle")
  /\ mapped' = [mapped EXCEPT ![p] = 0]
  /\ trouble' = [trouble EXCEPT ![p] = {}]
  /\ UNCHANGED <<file, left, computed>>

\* The process is killed, or ended by one of its other threads.
Kill(p) ==
  /\ pc[p] \in {"open", "truncate", "hash_open", "stat", "mmap", "hash"}
  /\ left' = (left \/ (pc[p] = "truncate" /\ ~Sized))
  /\ Goto(p, "killed")
  /\ UNCHANGED <<file, mapped, computed, trouble>>

\* A chunk arrives.
WriteChunk ==
  /\ Exists
  /\ \E c \in DOMAIN file : file' = [file EXCEPT ![c] = "good"]
  /\ UNCHANGED <<left, pc, mapped, computed, trouble>>

FileStep(p) == Fopen(p) \/ MakeFileOpen(p) \/ MakeFileTruncate(p)
HashStep(p) ==
  \/ HashChunkOpen(p) \/ HashChunkStat(p) \/ HashChunkMap(p)
  \/ HashChunkRead(p) \/ HashChunkBeyond(p) \/ HashChunkEnd(p)
Failure(p) ==
  FopenFails(p) \/ MakeFileOpenFails(p) \/ MakeFileTruncateFails(p) \/ HashChunkFails(p)
AddPackage(p) == FileStep(p) \/ HashStep(p) \/ Failure(p)
Outside(p) == AddAgain(p) \/ Kill(p)

Next == WriteChunk \/ \E p \in Procs : AddPackage(p) \/ Outside(p)

Spec == Init /\ [][Next]_vars

-----------------------------------------------------------------------------
(***************************************************************************)
(* Properties                                                              *)
(***************************************************************************)

Places == {"idle", "open", "truncate", "hash_open", "stat", "mmap", "hash", "added", "fault",
           "killed"}

TypeOK ==
  /\ file \in {NoFile} \cup Seq(Content)
  /\ left \in BOOLEAN
  /\ pc \in [Procs -> Places]
  /\ mapped \in [Procs -> Nat]
  /\ computed \in [Procs -> Seq(Content)]
  /\ trouble \in [Procs -> SUBSET Troubles]
  /\ \A p \in Procs : Len(computed[p]) <= Size

\* The file has the size of the package unless somebody is about to give it
\* that size, or did not live to, or could not, or it was there before.
SizedOrMaking ==
  Exists => Sized \/ left \/ (file = <<>> /\ \E p \in Procs : pc[p] = "truncate")

\* No chunk of the package that has arrived is lost again, although make_file
\* sizes a file that may have come into being, and been filled, since fopen
\* did not find it, or that fopen could not open.
GoodKept ==
  [][\A c \in 1..Size :
       c \in DOMAIN file /\ file[c] = "good" => c \in DOMAIN file' /\ file'[c] = "good"]_file

\* The package that has been found complete stays complete: a chunk whose
\* hash was that of its data still holds it, whenever it is asked.
GoodComputed ==
  \A p \in Procs : \A c \in DOMAIN computed[p] :
    computed[p][c] = "good" => c \in DOMAIN file /\ file[c] = "good"

\* ADDPACKAGE ends the process by a fault only when a file of another size has
\* been left behind, when it asked for the size while another process was
\* between its open and its ftruncate, or when one of its own system calls has
\* failed: as long as they all succeed, a process that is alone with a missing
\* file or one of the right size adds its package.
FaultExplained == \A p \in Procs : pc[p] = "fault" => left \/ trouble[p] # {}
=============================================================================
