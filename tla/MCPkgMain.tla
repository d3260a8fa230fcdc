----------------------------- MODULE MCPkgMain -----------------------------
(***************************************************************************)
(* pkgmain on packages of one and two chunks of eight bytes, one whose     *)
(* counts do not agree and one whose identifier is not hexadecimal, with   *)
(* every flag and one that is none, next to other programs that remove the *)
(* data file or keep it at nothing, part of it, all of it, or more.        *)
(***************************************************************************)
EXTENDS PkgMain, TLC

HexIds == {"f3ee"}

Object(id, nh, nc) ==
  [identifier |-> id, filename |-> "data", size |-> 8 * nc,
   nhashes |-> nh, hashes |-> [j \in 1..nh |-> ToString(100 + j)],
   nchunks |-> nc,
   chunks |-> [j \in 1..nc |-> [hash |-> ToString(j), offset |-> 8 * (j - 1), size |-> 8]]]

MCPackages == {Object("f3ee", 0, 1), Object("f3ee", 1, 2), Object("f3ee", 1, 3),
               Object("g3ee", 1, 2)}

MCFlags == {"-all_hashes", "-chunk_check", "-min_hashes", "-hashes_of", "-file_check",
            "-get_root", "-nothing"}
MCSizes == {0, 4, 16, 24}
=============================================================================
