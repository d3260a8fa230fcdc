------------------------------ MODULE PkgMain ------------------------------
(***************************************************************************)
(* The program pkgmain: the selection of the flag, the load (PkgLoad), the *)
(* check for the data file with make_file, and the way of main through     *)
(* hashChunk, the tree and one query to its exit.  The tree and the        *)
(* queries are those of MerkleTree and TreeQuery; here they end the        *)
(* process where they fault.                                               *)
(*                                                                         *)
(* Other programs create, resize and remove the data file between any two  *)
(* system calls and reads, and any of the calls on it may fail.            *)
(***************************************************************************)
EXTENDS PkgLoad

CONSTANTS
  Flags,      \* the third argument, given with a fourth one or not
  Sizes       \* the sizes other programs give to the data file

ASSUME SizesAssumption == Sizes \subseteq Nat

VARIABLES
  flag,       \* argv[2], "" when there is none
  harg,       \* argv[3] is there
  asel,       \* what arg_select returns
  disk,       \* the size of the data file, NoFile when there is none
  found,      \* the result of fopen in bpkg_file_check
  fd,         \* the size of the file that is open, NoFile when none is
  same,       \* it still is the one that has the name
  mapped,     \* st_size, the length of the mapping
  hashed,     \* the chunks hashed so far
  trouble,    \* what hashChunk has met, a history for the properties
  out,        \* what has been printed
  status,     \* the exit status, Running before
  mpc

files == <<disk, fd, same>>
hashing == <<mapped, hashed, trouble>>
mainvars == <<flag, harg, asel, files, found, hashing, out, status, mpc>>
allvars == <<vars, mainvars>>

NoFile == -1
Running == -1
Abort == -2             \* AddressSanitizer reports an error and ends the process

\* A system call on the data file failed; the file that is open, or the one to
\* be opened, did not have the size of the package.
Troubles == {"call", "short"}
Met(size) == IF size < obj.size THEN trouble \cup {"short"} ELSE trouble

Selected(f) ==
  CASE f = "-all_hashes" -> 1
    [] f = "-chunk_check" -> 2
    [] f = "-min_hashes" -> 3
    [] f = "-hashes_of" -> 4
    [] f = "-file_check" -> 5
    [] f = "-get_root" -> 6
    [] OTHER -> 0

MainInit ==
  /\ LoadInit
  /\ flag \in Flags \cup {""}
  /\ harg \in BOOLEAN
  /\ asel = 0
  /\ disk \in Sizes \cup {NoFile}
  /\ found = FALSE
  /\ fd = NoFile
  /\ same = TRUE
  /\ mapped = 0
  /\ hashed = 0
  /\ trouble = {}
  /\ out = ""
  /\ status = Running
  /\ mpc = "args"

Exit(code) == status' = code /\ mpc' = "end"

ArgSelectUsage ==
  /\ mpc = "args"
  /\ flag = "" \/ (flag = "-hashes_of" /\ ~harg)
  /\ Exit(1)
  /\ out' = "not provided"
  /\ UNCHANGED <<vars, flag, harg, asel, files, found, hashing>>

ArgSelect ==
  /\ mpc = "args"
  /\ flag # "" /\ (flag = "-hashes_of" => harg)
  /\ asel' = Selected(flag)
  /\ IF asel' = 0 THEN Exit(0) ELSE mpc' = "load" /\ UNCHANGED status
  /\ UNCHANGED <<vars, flag, harg, files, found, hashing, out>>

BpkgLoad ==
  /\ mpc = "load"
  /\ Load
  /\ UNCHANGED mainvars

BpkgLoadEnds ==
  /\ mpc = "load"
  /\ CASE pc = "exited" -> Exit(1)
       [] pc = "aborted" -> Exit(Abort)
       [] pc = "returned" -> mpc' = (IF asel = 5 THEN "check" ELSE "tree") /\ UNCHANGED status
       [] OTHER -> FALSE
  /\ out' = IF pc = "exited" THEN "Unable to load" ELSE out
  /\ UNCHANGED <<vars, flag, harg, asel, files, found, hashing>>

-----------------------------------------------------------------------------
(***************************************************************************)
(* bpkg_file_check and make_file                                           *)
(***************************************************************************)

\* fopen(filename, "r"); a file that is there may be unreadable.  The name of
\* an object that has none is not a string: fopen runs off the object.
FileCheck ==
  /\ mpc = "check"
  /\ IF obj.filename = NoString
       THEN Exit(Abort) /\ UNCHANGED <<found, out>>
       ELSE /\ found' \in (IF disk = NoFile THEN {FALSE} ELSE BOOLEAN)
            /\ out' = IF found' THEN "File Exists" ELSE out
            /\ mpc' = IF found' THEN "destroy" ELSE "open"
            /\ UNCHANGED status
  /\ UNCHANGED <<vars, flag, harg, asel, files, hashing>>

\* Mutant: O_TRUNC, as fopen(filename, "w") has it.
MakeFileOpenTruncates ==
  /\ mpc = "open"
  /\ \/ disk' = 0 /\ fd' = disk'
     \/ UNCHANGED <<disk, fd>>
  /\ same' = TRUE
  /\ mpc' = "truncate"
  /\ UNCHANGED <<vars, flag, harg, asel, found, hashing, out, status>>

\* open(filename, O_RDWR | O_CREAT), whose failure is not looked at: without
\* O_EXCL a file that has come into being meanwhile is opened.
MakeFileOpen ==
  /\ mpc = "open"
  /\ \/ disk' = (IF disk = NoFile THEN 0 ELSE disk) /\ fd' = disk'
     \/ UNCHANGED <<disk, fd>>
  /\ same' = TRUE
  /\ mpc' = "truncate"
  /\ UNCHANGED <<vars, flag, harg, asel, found, hashing, out, status>>

\* ftruncate, whose failure is not looked at either: no descriptor, a size
\* that is not one, or no space; and close.
MakeFileTruncate ==
  /\ mpc = "truncate"
  /\ disk' \in (IF fd # NoFile /\ same /\ obj.size # NoInt THEN {disk, obj.size} ELSE {disk})
  /\ fd' = NoFile
  /\ out' = "File created"
  /\ mpc' = "destroy"
  /\ UNCHANGED <<vars, flag, harg, asel, found, same, hashing, status>>

\* Mutant: the tree, which a file check does not build, is freed as well.
FileCheckReturnsTree ==
  /\ mpc = "destroy"
  /\ Exit(Abort)
  /\ UNCHANGED <<vars, flag, harg, asel, files, found, hashing, out>>

\* bpkg_obj_destroy: frees both arrays, stored or not; then return 1.
FileCheckReturns ==
  /\ mpc = "destroy"
  /\ Exit(IF obj.chunks = NoChunks \/ obj.hashes = NoHashes THEN Abort ELSE 1)
  /\ UNCHANGED <<vars, flag, harg, asel, files, found, hashing, out>>

-----------------------------------------------------------------------------
(***************************************************************************)
(* hashChunk, the tree, one query, and the end of main                     *)
(***************************************************************************)

\* open(filename, O_RDONLY).  When hashChunk returns NULL recursiveTree faults
\* at the first leaf; a number of chunks that was never read is no number to
\* allocate.
HashChunkOpen ==
  /\ mpc = "tree"
  /\ trouble' = Met(disk)
  /\ IF disk = NoFile \/ obj.nchunks = NoInt
       THEN Exit(Abort) /\ UNCHANGED <<fd, same>>
       ELSE fd' = disk /\ same' = TRUE /\ mpc' = "stat" /\ UNCHANGED status
  /\ UNCHANGED <<vars, flag, harg, asel, disk, found, mapped, hashed, out>>

\* fstat: the size of the mapping.
HashChunkStat ==
  /\ mpc = "stat"
  /\ mapped' = fd
  /\ mpc' = "mmap"
  /\ UNCHANGED <<vars, flag, harg, asel, files, found, hashed, trouble, out, status>>

\* mmap, which refuses a length of zero.
HashChunkMap ==
  /\ mpc = "mmap"
  /\ IF mapped = 0 THEN Exit(Abort) ELSE mpc' = "hash" /\ UNCHANGED status
  /\ UNCHANGED <<vars, flag, harg, asel, files, found, hashing, out>>

\* open, fstat or mmap fails on the file that is there.
HashChunkFails ==
  /\ mpc \in {"tree", "stat", "mmap"}
  /\ Exit(Abort)
  /\ trouble' = trouble \cup {"call"}
  /\ UNCHANGED <<vars, flag, harg, asel, files, found, mapped, hashed, out>>

\* A chunk that is not all in the mapping and in the file that is mapped.
Outside(c) ==
  c.size = NoInt \/ (c.size > 0 /\ (c.offset + c.size > mapped \/ c.offset + c.size > fd))

\* The chunks are read one after the other.  What is behind the end of the file
\* is zeros as far as its last page goes, and then faults.
HashChunkRead ==
  /\ mpc = "hash" /\ hashed < obj.nchunks
  /\ \/ /\ obj.chunks = NoChunks \/ Outside(obj.chunks[hashed + 1])
        /\ Exit(Abort)
        /\ UNCHANGED hashed
     \/ /\ obj.chunks # NoChunks
        /\ fd # 0 \/ obj.chunks[hashed + 1].size <= 0
        /\ hashed' = hashed + 1
        /\ UNCHANGED <<status, mpc>>
  /\ UNCHANGED <<vars, flag, harg, asel, files, found, mapped, trouble, out>>

\* munmap and close, and recursiveTree: the leaf of a tree of one node has no
\* parent.
Tree ==
  /\ mpc = "hash" /\ hashed = obj.nchunks
  /\ fd' = NoFile
  /\ IF obj.nchunks = 1 THEN Exit(Abort) ELSE mpc' = "query" /\ UNCHANGED status
  /\ UNCHANGED <<vars, flag, harg, asel, disk, same, found, hashing, out>>

\* The query is printed and destroyed, then the object and the tree.
Query ==
  /\ mpc = "query"
  /\ out' = flag
  /\ Exit(0)
  /\ UNCHANGED <<vars, flag, harg, asel, files, found, hashing>>

\* Another program gives the data file another size, removes it, or makes one.
\* Who has it open keeps the file that was removed.
OtherProgramResizes ==
  /\ disk # NoFile
  /\ disk' \in Sizes \ {disk}
  /\ IF fd # NoFile /\ same
       THEN fd' = disk' /\ trouble' = Met(disk')
       ELSE UNCHANGED <<fd, trouble>>
  /\ UNCHANGED same

OtherProgramRemoves ==
  /\ disk # NoFile /\ disk' = NoFile
  /\ same' = (fd = NoFile)
  /\ UNCHANGED <<fd, trouble>>

OtherProgramMakes ==
  /\ disk = NoFile /\ disk' \in Sizes
  /\ UNCHANGED <<fd, same, trouble>>

OtherProgram ==
  /\ mpc \notin {"args", "load", "end"}
  /\ OtherProgramResizes \/ OtherProgramRemoves \/ OtherProgramMakes
  /\ UNCHANGED <<vars, flag, harg, asel, found, mapped, hashed, out, status, mpc>>

MakeFile == MakeFileOpen \/ MakeFileTruncate
HashChunk ==
  HashChunkOpen \/ HashChunkStat \/ HashChunkMap \/ HashChunkFails \/ HashChunkRead
Main == ArgSelectUsage \/ ArgSelect \/ BpkgLoad \/ BpkgLoadEnds \/ FileCheck \/ MakeFile
          \/ FileCheckReturns \/ HashChunk \/ Tree \/ Query

MainDone == mpc = "end" /\ UNCHANGED allvars

MainSpec == MainInit /\ [][Main \/ OtherProgram \/ MainDone]_allvars

-----------------------------------------------------------------------------
(***************************************************************************)
(* Properties                                                              *)
(***************************************************************************)

DiskSizes == Sizes \cup {NoFile, 0} \cup {p.size : p \in Packages}

MainTypeOK ==
  /\ LoadTypeOK
  /\ asel \in {0, Selected(flag)}
  /\ disk \in DiskSizes /\ fd \in DiskSizes /\ mapped \in DiskSizes
  /\ found \in BOOLEAN /\ same \in BOOLEAN
  /\ hashed \in Nat /\ trouble \subseteq Troubles
  /\ status \in {Running, 0, 1, Abort}
  /\ mpc \in {"args", "load", "check", "open", "truncate", "destroy", "tree", "stat",
              "mmap", "hash", "query", "end"}
  /\ (mpc = "end") = (status # Running)

\* What the rest of pkgmain takes for granted once bpkg_load has returned: an
\* object whose arrays, once stored, have as many entries as its counts say.
LoadedSafe == MainTypeOK /\ CountsAgree

\* With a package file as it was written pkgmain dies of a fault only when the
\* package has a single chunk, when a system call of hashChunk failed, or when
\* the data file was missing, or shorter than the package, when it was opened
\* or at some moment since: whatever other programs do to a file that stays
\* long enough, also between fstat and the reads, the tree is built.  A file
\* check never faults.
FaultExplained ==
  \A p \in Packages :
    (status = Abort /\ file = Written(p)) => asel # 5 /\ (p.nchunks = 1 \/ trouble # {})

\* Of all the flags only -file_check touches the data file, and only one that
\* it could not open: it makes a missing one, and one that another program has
\* put there meanwhile (or that was unreadable) it leaves as it is or gives
\* the size of the package.
DataKept ==
  [][mpc' # mpc /\ disk' # disk =>
       /\ asel = 5 /\ ~found
       /\ disk' = obj.size \/ disk = NoFile]_<<disk, mpc>>
=============================================================================
