------------------------------ MODULE Package ------------------------------
(***************************************************************************)
(* The package list of btide: package.c, called by process_command for     *)
(* ADDPACKAGE, PACKAGES, REMPACKAGE and QUIT.  Only the main thread uses   *)
(* it; a step is one round of a walk over the linked list.                 *)
(*                                                                         *)
(* The tree of a package is represented by the chunks whose computed hash  *)
(* was the expected one when it was built.  How the data file comes about  *)
(* is module DataFile, how the tree is built and queried MerkleTree and    *)
(* TreeQuery, how the package file is read PkgLoad.  Data files change at  *)
(* any time.                                                               *)
(***************************************************************************)
EXTENDS Integers, Sequences, FiniteSets

CONSTANTS
  Names,      \* the package files
  Ident(_),   \* the identifier of each, a sequence of characters
  Malformed,  \* those that bpkg_load refuses
  Single,     \* those of a single chunk
  NChunks,    \* the chunks of the others, a power of two
  MaxAdds     \* bound on the nodes that are allocated

ASSUME PackageAssumption ==
  /\ Malformed \subseteq Names /\ Single \subseteq Names
  /\ \A p \in Names : Ident(p) \in Seq(Nat)
  /\ NChunks \in Nat \ {0} /\ MaxAdds \in Nat

VARIABLES
  head,       \* bpkg_list
  node,       \* the nodes allocated so far
  data,       \* the chunks that the data file of each package holds now
  arg,        \* the argument of REMPACKAGE
  current,
  prev,
  out,        \* what PACKAGES has printed
  pc

list_ == <<head, node>>
locals == <<arg, current, prev, out>>
vars == <<list_, data, locals, pc>>

NULL == 0
Usable == Names \ (Malformed \cup Single)
Chunks == 1..NChunks
Status == [Chunks -> BOOLEAN]

Init ==
  /\ head = NULL
  /\ node = <<>>
  /\ data \in [Usable -> Status]
  /\ arg = <<>>
  /\ current = NULL
  /\ prev = NULL
  /\ out = <<>>
  /\ pc = "prompt"

\* A node that has been freed; what it held is gone.
Freed == [pkg |-> CHOOSE p \in Names : TRUE, computed |-> [c \in Chunks |-> FALSE],
          next |-> NULL, live |-> FALSE]

\* Back to the prompt, where the local variables are gone.
Return == pc' = "prompt" /\ arg' = <<>> /\ current' = NULL /\ prev' = NULL

-----------------------------------------------------------------------------
(***************************************************************************)
(* add_package                                                             *)
(***************************************************************************)

\* The data file is hashed and a node allocated.  A package file that cannot
\* be opened changes nothing.
AddPackage(p) ==
  /\ pc = "prompt"
  /\ p \in Usable
  /\ Len(node) < MaxAdds
  /\ node' = Append(node, [pkg |-> p, computed |-> data[p], next |-> NULL, live |-> TRUE])
  /\ pc' = "link"
  /\ UNCHANGED <<head, data, locals>>

\* bpkg_load calls exit.
AddMalformed(p) ==
  /\ pc = "prompt"
  /\ p \in Malformed
  /\ pc' = "exited"
  /\ UNCHANGED <<list_, data, locals>>

\* The tree of a single chunk is its leaf, whose parent is dereferenced.
AddSingle(p) ==
  /\ pc = "prompt"
  /\ p \in Single \ Malformed
  /\ pc' = "fault"
  /\ UNCHANGED <<list_, data, locals>>

new == Len(node)

AddFirst ==
  /\ pc = "link" /\ head = NULL
  /\ head' = new
  /\ Return
  /\ UNCHANGED <<node, data, out>>

AddWalk ==
  /\ pc = "link" /\ head # NULL
  /\ current' = head
  /\ pc' = "walk"
  /\ UNCHANGED <<list_, data, arg, prev, out>>

AddStep ==
  /\ pc = "walk" /\ node[current].next # NULL
  /\ current' = node[current].next
  /\ UNCHANGED <<list_, data, arg, prev, out, pc>>

\* Mutant: the new node goes behind the first one.
AddLinkFirst ==
  /\ pc = "walk"
  /\ node' = [node EXCEPT ![head].next = new]
  /\ Return
  /\ UNCHANGED <<head, data, out>>

AddLink ==
  /\ pc = "walk" /\ node[current].next = NULL
  /\ node' = [node EXCEPT ![current].next = new]
  /\ Return
  /\ UNCHANGED <<head, data, out>>

-----------------------------------------------------------------------------
(***************************************************************************)
(* print_package                                                           *)
(***************************************************************************)

\* bpkg_get_min_completed_hashes returns one hash for each of the largest
\* subtrees all of whose chunks are complete.
Spans == {s \in SUBSET Chunks :
            \E e \in 0..NChunks, k \in 0..NChunks : s = (k * 2^e + 1)..((k + 1) * 2^e) /\ s # {}}
Complete(found) == {s \in Spans : \A c \in s : found[c]}
MinHashes(found) == {s \in Complete(found) : \A t \in Complete(found) : ~(s \subseteq t /\ s # t)}
isComplete(found) == Cardinality(MinHashes(found)) = 1

Packages ==
  /\ pc = "prompt"
  /\ current' = head
  /\ out' = <<>>
  /\ pc' = "print"
  /\ UNCHANGED <<list_, data, arg, prev>>

\* Mutant: the loop looks ahead and leaves out the last package.
PrintStepAhead ==
  /\ pc = "print" /\ current # NULL
  /\ out' = IF node[current].next = NULL THEN out
            ELSE Append(out, [pkg |-> node[current].pkg,
                              completed |-> isComplete(node[current].computed)])
  /\ current' = node[current].next
  /\ UNCHANGED <<list_, data, arg, prev, pc>>

PrintStep ==
  /\ pc = "print" /\ current # NULL
  /\ out' = Append(out, [pkg |-> node[current].pkg,
                         completed |-> isComplete(node[current].computed)])
  /\ current' = node[current].next
  /\ UNCHANGED <<list_, data, arg, prev, pc>>

PrintEnd ==
  /\ pc = "print" /\ current = NULL
  /\ pc' = "printed"
  /\ UNCHANGED <<list_, data, locals>>

Printed ==
  /\ pc = "printed"
  /\ out' = <<>>
  /\ Return
  /\ UNCHANGED <<list_, data>>

-----------------------------------------------------------------------------
(***************************************************************************)
(* remove_package                                                          *)
(***************************************************************************)

\* strncmp(identifier of the package, argument, strlen(argument)) = 0
Starts(a, id) == Len(a) <= Len(id) /\ SubSeq(id, 1, Len(a)) = a
Arguments == UNION {{SubSeq(Ident(p), 1, n) : n \in 1..Len(Ident(p))} : p \in Names}

RemPackage ==
  /\ pc = "prompt"
  /\ arg' \in Arguments
  /\ current' = head
  /\ prev' = NULL
  /\ pc' = "search"
  /\ UNCHANGED <<list_, data, out>>

matches == Starts(arg, Ident(node[current].pkg))

SearchStep ==
  /\ pc = "search" /\ current # NULL /\ ~matches
  /\ prev' = current
  /\ current' = node[current].next
  /\ UNCHANGED <<list_, data, arg, out, pc>>

\* Mutant: the head is not moved when the first package is removed.
RemoveKeepsHead ==
  /\ pc = "search" /\ current # NULL /\ matches
  /\ IF prev = NULL
       THEN node' = [node EXCEPT ![current] = Freed]
       ELSE node' = [node EXCEPT ![current] = Freed, ![prev].next = node[current].next]
  /\ Return
  /\ UNCHANGED <<head, data, out>>

\* The tree, the object and the node are freed.
Remove ==
  /\ pc = "search" /\ current # NULL /\ matches
  /\ IF prev = NULL
       THEN /\ head' = node[current].next
            /\ node' = [node EXCEPT ![current] = Freed]
       ELSE /\ node' = [node EXCEPT ![current] = Freed, ![prev].next = node[current].next]
            /\ UNCHANGED head
  /\ Return
  /\ UNCHANGED <<data, out>>

RemoveNone ==
  /\ pc = "search" /\ current = NULL
  /\ Return
  /\ UNCHANGED <<list_, data, out>>

-----------------------------------------------------------------------------
(***************************************************************************)
(* free_package                                                            *)
(***************************************************************************)

Quit ==
  /\ pc = "prompt"
  /\ current' = head
  /\ pc' = "free"
  /\ UNCHANGED <<list_, data, arg, prev, out>>

\* Mutant: the node that follows is loaded once more after the step to it.
FreeStepSkips ==
  /\ pc = "free" /\ current # NULL
  /\ node' = [node EXCEPT ![current] = Freed]
  /\ current' = IF node[current].next = NULL THEN NULL ELSE node[node[current].next].next
  /\ UNCHANGED <<head, data, arg, prev, out, pc>>

FreeStep ==
  /\ pc = "free" /\ current # NULL
  /\ node' = [node EXCEPT ![current] = Freed]
  /\ current' = node[current].next
  /\ UNCHANGED <<head, data, arg, prev, out, pc>>

FreeEnd ==
  /\ pc = "free" /\ current = NULL
  /\ pc' = "quit"
  /\ UNCHANGED <<list_, data, locals>>

-----------------------------------------------------------------------------

\* A chunk of a data file is filled in or spoilt by another program.  (During
\* a command it would make no difference to what the command does.)
DataChanges ==
  /\ pc = "prompt"
  /\ \E p \in DOMAIN data, c \in Chunks : data' = [data EXCEPT ![p][c] = ~@]
  /\ UNCHANGED <<list_, locals, pc>>

Adding == \E p \in Names : AddPackage(p) \/ AddMalformed(p) \/ AddSingle(p)
Command == Adding \/ Packages \/ RemPackage \/ Quit
Step == \/ AddFirst \/ AddWalk \/ AddStep \/ AddLink
        \/ PrintStep \/ PrintEnd \/ Printed
        \/ SearchStep \/ Remove \/ RemoveNone
        \/ FreeStep \/ FreeEnd

Ended == pc \in {"quit", "exited", "fault"}
Done == Ended /\ UNCHANGED vars

Next == Command \/ Step \/ DataChanges \/ Done

Spec == Init /\ [][Next]_vars

-----------------------------------------------------------------------------
(***************************************************************************)
(* Properties                                                              *)
(***************************************************************************)

Pointer == {NULL} \cup DOMAIN node

TypeOK ==
  /\ node \in Seq([pkg : Names, computed : Status, next : 0..MaxAdds, live : BOOLEAN])
  /\ Len(node) <= MaxAdds
  /\ head \in Pointer /\ current \in Pointer /\ prev \in Pointer
  /\ data \in [Usable -> Status]
  /\ pc \in {"prompt", "link", "walk", "print", "printed", "search", "free", "quit",
             "exited", "fault"}

\* The list, followed from its head.
after[k \in 0..MaxAdds] ==
  IF k = 0 THEN head
  ELSE IF after[k - 1] = NULL THEN NULL ELSE node[after[k - 1]].next
Length == Cardinality({k \in 0..(MaxAdds - 1) : after[k] # NULL})
Listed(k) == [pkg |-> node[after[k - 1]].pkg, computed |-> node[after[k - 1]].computed]
list == IF pc \in {"free", "quit"} THEN <<>> ELSE [k \in 1..Length |-> Listed(k)]

L == INSTANCE PackageList

\* The linked list is a sequence to which ADDPACKAGE appends, from which
\* REMPACKAGE removes the first match, and nothing else changes it.
ImplementsList == L!ListSpec

\* A walk never reads a node that has been freed, and a node that is listed
\* has not been.
NodesLive ==
  /\ TypeOK
  /\ current # NULL /\ pc \in {"walk", "print", "search", "free"} => node[current].live
  /\ pc \notin {"free", "quit"} => \A k \in 0..(MaxAdds - 1) : after[k] # NULL => node[after[k]].live

\* PACKAGES prints every package once, in the order of the list, with what
\* isComplete says of the hashes it was added with.  Whether isComplete says
\* what it should is another question: see CompletedMeansRoot.
PrintedExact ==
  pc = "printed" =>
    out = [k \in 1..Length |-> [pkg |-> list[k].pkg, completed |-> isComplete(list[k].computed)]]

\* What src/README.md and the comments of isComplete and print_package say of
\* the status: the root's expected hash is the computed one, so every chunk
\* was complete.  The code does not keep it: isComplete counts the hashes
\* that the query returns, and a single complete branch, of which the root
\* need not be the one, makes one hash too.
CompletedMeansRoot ==
  pc = "printed" =>
    \A n \in 1..Length : out[n].completed => \A c \in Chunks : list[n].computed[c]

\* QUIT frees every package that has not been removed before.
AllFreed == pc = "quit" => \A n \in DOMAIN node : ~node[n].live
=============================================================================
