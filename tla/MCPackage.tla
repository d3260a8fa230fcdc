----------------------------- MODULE MCPackage -----------------------------
(***************************************************************************)
(* main() of btide in one thread, for TLC: the start, which Config has,    *)
(* and behind it the package commands, which Package has.                  *)
(*                                                                         *)
(* Configuration files: every sequence of up to three lines over two       *)
(* directories and the values at both ends of both limits, and some with a *)
(* fourth line.  Packages: two of two chunks whose identifiers begin       *)
(* alike, a third that is malformed, a fourth of one chunk, and up to      *)
(* three ADDPACKAGEs.                                                      *)
(***************************************************************************)
EXTENDS Package, Config

Dirs == {"d1", "d2"}

Lines ==
  {Line("directory", d) : d \in Dirs}
    \cup {Line("max_peers", n) : n \in {0, 1, 2048, 2049}}
    \cup {Line("port", n) : n \in {1023, 1024, 65535, 65536}}

Wanted == <<Line("directory", "d1"), Line("max_peers", 1), Line("port", 1024)>>

MCFiles ==
  UNION {[1..n -> Lines] : n \in 0..3}
    \cup {<<Line("directory", d), Line("max_peers", 128), Line("port", 8080), l>> :
           d \in Dirs, l \in Lines}

MCNames == {"a", "b", "bad", "one"}
MCIdent(p) == CASE p = "a" -> <<1, 1>> [] p = "b" -> <<1, 2>> [] OTHER -> <<3>>

-----------------------------------------------------------------------------

\* No data file is complete at first; DataChanges completes them.
MCInit == ConfigInit /\ Init /\ data = [p \in Usable |-> [c \in Chunks |-> FALSE]]

\* Bound: the commands do not depend on how the start went, as long as it
\* went well, and follow after one configuration, on one disk.
Commanded == start = "started" /\ file = Wanted /\ \A d \in Dirs : disk[d] = "directory"

MCNext ==
  \/ (Start \/ OtherMkdir \/ (StartDone /\ ~Commanded)) /\ UNCHANGED vars
  \/ Commanded /\ Next /\ UNCHANGED configVars

MCSpec == MCInit /\ [][MCNext]_<<configVars, vars>>
=============================================================================
