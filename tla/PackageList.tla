---------------------------- MODULE PackageList ----------------------------
(***************************************************************************)
(* What the three package commands promise: a sequence of packages in the  *)
(* order in which they were added, each with the chunks that were found    *)
(* complete then.  A package may be listed twice.                          *)
(***************************************************************************)
EXTENDS Integers, Sequences

CONSTANTS
  Names,      \* the package files
  Ident(_),   \* the identifier of each, a sequence of characters
  Status      \* what the hashes of a data file may say, chunk by chunk

VARIABLE list

Starts(arg, id) == Len(arg) <= Len(id) /\ SubSeq(id, 1, Len(arg)) = arg

ListInit == list = <<>>

Add(p, found) == list' = Append(list, [pkg |-> p, computed |-> found])

\* Removes the first package whose identifier begins with arg.
Remove(arg) ==
  \E j \in 1..Len(list) :
    /\ Starts(arg, Ident(list[j].pkg))
    /\ \A h \in 1..(j - 1) : ~Starts(arg, Ident(list[h].pkg))
    /\ list' = SubSeq(list, 1, j - 1) \o SubSeq(list, j + 1, Len(list))

\* QUIT
Clear == list' = <<>>

ListNext ==
  \/ \E p \in Names, found \in Status : Add(p, found)
  \/ \E p \in Names : \E n \in 1..Len(Ident(p)) : Remove(SubSeq(Ident(p), 1, n))
  \/ Clear

ListSpec == ListInit /\ [][ListNext]_list
=============================================================================
