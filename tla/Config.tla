------------------------------- MODULE Config -------------------------------
(***************************************************************************)
(* The start of btide: config_load reads the three lines of the            *)
(* configuration, verifyConfigContents makes the directory and checks the  *)
(* limits, in this order, and main goes on or ends.  Other instances that  *)
(* share the directory may make it at any time.                            *)
(*                                                                         *)
(* As in PkgLoad a line is a key and a value, and a field that was never   *)
(* stored holds the bytes 0xbe of the malloc of the Makefile's build: a    *)
(* negative number, or a name too long for mkdir.                          *)
(***************************************************************************)
EXTENDS Integers, Sequences

CONSTANTS
  Files,        \* the configuration files, sequences of lines
  Directories   \* the paths they name

\* What sscanf stores for the keys: a path for %s, a number for %d.
ASSUME FilesAssumption ==
  \A f \in Files :
    /\ Len(f) \in Nat /\ f = [n \in 1..Len(f) |-> f[n]]
    /\ \A n \in 1..Len(f) :
         /\ f[n].key = "directory" => f[n].value \in Directories
         /\ f[n].key \in {"max_peers", "port"} => f[n].value \in Int

VARIABLES
  file,       \* the configuration file
  rest,       \* the lines not read yet
  counter,    \* the lines read
  obj,        \* the object
  disk,       \* what is at each path
  start,      \* where the start of btide is
  status      \* the exit status, Running before

configVars == <<file, rest, counter, obj, disk, start, status>>

NoString == "0xbe"
NoInt == -1
Running == -1
Fault == -2             \* AddressSanitizer reports an error and ends the process

Line(key, value) == [key |-> key, value |-> value]

\* What can be at a path; where there is no parent, or none that may be
\* written, mkdir fails.
Paths == {"nothing", "directory", "regular_file", "no_parent"}

ConfigInit ==
  /\ file \in Files
  /\ rest = file
  /\ counter = 0
  /\ obj = [directory |-> NoString, max_peers |-> NoInt, port |-> NoInt]
  /\ disk \in [Directories -> Paths]
  /\ start = "open"
  /\ status = Running

-----------------------------------------------------------------------------
(***************************************************************************)
(* config_load                                                             *)
(***************************************************************************)

\* fopen; without a file NULL is returned.
Open ==
  /\ start = "open"
  /\ start' \in {"lines", "null"}
  /\ UNCHANGED <<file, rest, counter, obj, disk, status>>

\* main reads config->directory of the NULL that it has just tested for.
NullConfig ==
  /\ start = "null"
  /\ start' = "end"
  /\ status' = Fault
  /\ UNCHANGED <<file, rest, counter, obj, disk>>

\* sscanf of the first three lines, each for its own key.
Keys == <<"directory", "max_peers", "port">>

\* Mutant: the key decides, not the number of the line.
ReadLineAnyKey ==
  /\ start = "lines" /\ rest # <<>>
  /\ counter' = counter + 1
  /\ rest' = Tail(rest)
  /\ obj' = [obj EXCEPT ![Head(rest).key] = Head(rest).value]
  /\ UNCHANGED <<file, disk, start, status>>

ReadLine ==
  /\ start = "lines" /\ rest # <<>>
  /\ counter' = counter + 1
  /\ rest' = Tail(rest)
  /\ obj' = IF counter < 3 /\ Head(rest).key = Keys[counter + 1]
               THEN [obj EXCEPT ![Head(rest).key] = Head(rest).value] ELSE obj
  /\ UNCHANGED <<file, disk, start, status>>

EndOfFile ==
  /\ start = "lines" /\ rest = <<>>
  /\ start' = "mkdir"
  /\ UNCHANGED <<file, rest, counter, obj, disk, status>>

-----------------------------------------------------------------------------
(***************************************************************************)
(* verifyConfigContents                                                    *)
(***************************************************************************)

Exit(code) == status' = code /\ start' = "end"

\* mkdir makes the directory or fails, with EEXIST when anything is there.
Mkdir ==
  /\ start = "mkdir"
  /\ LET d == obj.directory IN
       IF d = NoString \/ disk[d] = "no_parent"
         THEN Exit(3) /\ UNCHANGED disk
         ELSE /\ disk' = [disk EXCEPT ![d] = IF @ = "nothing" THEN "directory" ELSE @]
              /\ start' = "verify"
              /\ UNCHANGED status
  /\ UNCHANGED <<file, rest, counter, obj>>

ValidPeers == obj.max_peers > 0 /\ obj.max_peers < 2049
ValidPort == obj.port > 1023 /\ obj.port < 65536

\* The limits; then config_load returns and main goes on to its threads.
Verify ==
  /\ start = "verify"
  /\ IF ~ValidPeers THEN Exit(4)
     ELSE IF ~ValidPort THEN Exit(5)
     ELSE start' = "started" /\ UNCHANGED status
  /\ UNCHANGED <<file, rest, counter, obj, disk>>

\* Another instance makes the directory.
OtherMkdir ==
  /\ start # "end"
  /\ \E d \in Directories :
       disk[d] = "nothing" /\ disk' = [disk EXCEPT ![d] = "directory"]
  /\ UNCHANGED <<file, rest, counter, obj, start, status>>

Load == Open \/ ReadLine \/ EndOfFile
Start == Load \/ NullConfig \/ Mkdir \/ Verify

StartEnded == start \in {"started", "end"}
StartDone == StartEnded /\ UNCHANGED configVars

ConfigSpec == ConfigInit /\ [][Start \/ OtherMkdir \/ StartDone]_configVars

-----------------------------------------------------------------------------
(***************************************************************************)
(* Properties                                                              *)
(***************************************************************************)

ConfigTypeOK ==
  /\ file \in Files
  /\ counter + Len(rest) = Len(file)
  /\ DOMAIN obj = {"directory", "max_peers", "port"}
  /\ disk \in [Directories -> Paths]
  /\ start \in {"open", "null", "lines", "mkdir", "verify", "started", "end"}
  /\ status \in {Running, 3, 4, 5, Fault}

\* The limits as config.h names them.
MIN_PEERS == 1
MAX_PEERS == 2048
MIN_PAYLOAD == 1024
MAX_PAYLOAD == 65535

\* btide starts exactly with the files whose first three lines give, in this
\* order, a path, a number of peers and a port within the limits, and
\* with those values; a line that is missing, misplaced or out of the limits
\* is not survived.
StartedAsWritten ==
  LET Says(n) == Len(file) >= n /\ file[n].key = Keys[n]
      Good == /\ \A n \in 1..3 : Says(n)
              /\ file[2].value \in MIN_PEERS..MAX_PEERS
              /\ file[3].value \in MIN_PAYLOAD..MAX_PAYLOAD
  IN /\ start = "started" => Good /\ \A n \in 1..3 : obj[Keys[n]] = file[n].value
     /\ status \in {4, 5} => ~Good

\* The exit status names the first check that fails: it is 5 only when
\* something is at the path and the number of peers is within its limits, 4
\* only when something is at the path, and 3 only when mkdir cannot make
\* anything there.  A regular file at the path is no failure to the code.
FirstFailureNamed ==
  /\ status \in {4, 5} => disk[obj.directory] \in {"directory", "regular_file"}
  /\ status = 5 => obj.max_peers \in MIN_PEERS..MAX_PEERS
  /\ status = 3 => obj.directory = NoString \/ disk[obj.directory] = "no_parent"

\* Whether btide starts, and how it ends if not, is what the file says.
StartExact == ConfigTypeOK /\ StartedAsWritten /\ FirstFailureNamed

\* What the comments of verifyConfigContents say of the path ("check the
\* config directory status", "If directory exists, pass"): btide starts only
\* when a directory is there.  The code does not keep it: mkdir fails with
\* EEXIST for a regular file as well.
DirectoryIsDirectory == start = "started" => disk[obj.directory] = "directory"
=============================================================================
