---------------------------- MODULE PackageProofs ----------------------------
(***************************************************************************)
(* Proofs about Package, for any package files, any identifiers and any    *)
(* bound on the nodes.                                                     *)
(*                                                                         *)
(* The argument is about a sequence s, the list as it should be: the links *)
(* of the nodes lead through s, s has every node that is not freed, once,  *)
(* and the cursors of a walk are at a place of s.  A step extends s,       *)
(* removes an element or keeps it.  What the properties say of the list is *)
(* said with the recursive function after, which the first part shows to   *)
(* be s, by an induction over its length.                                  *)
(***************************************************************************)
EXTENDS Package, SequenceTheorems, FiniteSetTheorems, WellFoundedInduction, TLAPS

-----------------------------------------------------------------------------
(***************************************************************************)
(* Walks over a linked list                                                *)
(***************************************************************************)

\* Induction over the natural numbers, from the well-foundedness of <.
LEMMA Induction ==
  ASSUME NEW S \in SUBSET Nat, 0 \in S, \A n \in S : n + 1 \in S
  PROVE  S = Nat
<1>. DEFINE less == {p \in Nat \X Nat : p[1] < p[2]}
            T == Nat \ S
<1>1. IsWellFoundedOn(less, Nat)
  <2>1. less = OpToRel(<, Nat)
    BY DEF OpToRel
  <2>. QED
    BY <2>1, NatLessThanWellFounded
<1>. SUFFICES ASSUME T # {} PROVE FALSE
  OBVIOUS
<1>2. PICK x \in T : \A y \in T : <<y, x>> \notin less
  <2>1. T \subseteq Nat
    OBVIOUS
  <2>. HIDE DEF less, T
  <2>. QED
    BY <1>1, <2>1, WFMin, Zenon
<1>3. x # 0 /\ x - 1 \in T
  OBVIOUS
<1>4. <<x - 1, x>> \in Nat \X Nat /\ <<x - 1, x>>[1] < <<x - 1, x>>[2]
  BY <1>3
<1>5. <<x - 1, x>> \in less
  BY <1>4
<1>. QED
  BY <1>2, <1>3, <1>5

\* What Package calls after, of any head and any nodes: the recursive function
\* as the prover reads it.
Walk(h, nd) ==
  CHOOSE f : f = [k \in 0..MaxAdds |->
    IF k = 0 THEN h ELSE IF f[k - 1] = NULL THEN NULL ELSE nd[f[k - 1]].next]

\* The nodes that a walk over the list meets are a function of head and node.
LEMMA AfterIsWalk == after = Walk(head, node) /\ after' = Walk(head', node')
  BY DEF after, Walk

\* What a walk does after k steps, from what it did before.
StepOf(h, nd, f, k) == IF k = 0 THEN h ELSE IF f[k - 1] = NULL THEN NULL ELSE nd[f[k - 1]].next

\* f is the walk of n steps.
WalkOf(h, nd, n, f) == f = [k \in 0..n |-> StepOf(h, nd, f, k)]

\* A walk of any length exists, so that what CHOOSE picks is one.
LEMMA WalkExists ==
  ASSUME NEW h, NEW nd
  PROVE  \A n \in Nat : \E f : WalkOf(h, nd, n, f)
<1>. DEFINE S == {n \in Nat : \E f : WalkOf(h, nd, n, f)}
<1>1. 0 \in S
  <2>. DEFINE f == [k \in 0..0 |-> h]
  <2>1. \A k \in 0..0 : StepOf(h, nd, f, k) = h
    BY DEF StepOf
  <2>2. WalkOf(h, nd, 0, f)
    BY <2>1 DEF WalkOf
  <2>. QED
    BY <2>2
<1>2. ASSUME NEW n \in S PROVE n + 1 \in S
  <2>1. n \in Nat /\ \E f : WalkOf(h, nd, n, f)
    OBVIOUS
  <2>2. PICK f : WalkOf(h, nd, n, f)
    BY <2>1
  <2>3. \A k \in 0..n : f[k] = StepOf(h, nd, f, k)
    BY <2>2, Zenon DEF WalkOf
  <2>. DEFINE g == [k \in 0..(n + 1) |-> IF k = n + 1 THEN StepOf(h, nd, f, n + 1) ELSE f[k]]
  <2>4. \A k \in 0..n : g[k] = f[k]
    BY <2>1
  <2>5. ASSUME NEW k \in 0..(n + 1) PROVE g[k] = StepOf(h, nd, g, k)
    <3>1. StepOf(h, nd, g, k) = StepOf(h, nd, f, k)
      <4>1. k = 0 \/ k - 1 \in 0..n
        BY <2>1
      <4>. QED
        BY <2>4, <4>1 DEF StepOf
    <3>2. CASE k = n + 1
      BY <3>1, <3>2
    <3>3. CASE k \in 0..n
      BY <2>3, <2>4, <3>1, <3>3
    <3>. QED
      BY <2>1, <3>2, <3>3
  <2>6. g = [k \in 0..(n + 1) |-> g[k]]
    OBVIOUS
  <2>7. WalkOf(h, nd, n + 1, g)
    <3>. HIDE DEF g
    <3>. QED
      BY <2>5, <2>6 DEF WalkOf
  <2>8. \E ff : WalkOf(h, nd, n + 1, ff)
    BY <2>7
  <2>. QED
    BY <2>1, <2>8
<1>3. S = Nat
  <2>. HIDE DEF S
  <2>1. S \subseteq Nat
    BY DEF S
  <2>. QED
   BY <1>1, <1>2, <2>1, Induction
<1>. QED
  BY <1>3

\* The nodes that a walk from h visits: s[1] to s[n], the last without a next.
Chain(h, nd, n, s) ==
  /\ h = IF n = 0 THEN NULL ELSE s[1]
  /\ \A i \in 1..n : s[i] # NULL /\ nd[s[i]].next = IF i = n THEN NULL ELSE s[i + 1]

\* The equation that the recursive definition of a walk stands for.
LEMMA WalkStep ==
  ASSUME NEW h, NEW nd, NEW k \in 0..MaxAdds
  PROVE  Walk(h, nd)[k] = StepOf(h, nd, Walk(h, nd), k)
<1>. DEFINE W == Walk(h, nd)
<1>1. \E f : WalkOf(h, nd, MaxAdds, f)
  BY WalkExists, PackageAssumption
<1>2. W = CHOOSE f : WalkOf(h, nd, MaxAdds, f)
  BY DEF Walk, WalkOf, StepOf
<1>3. WalkOf(h, nd, MaxAdds, W)
  BY <1>1, <1>2, Zenon
<1>. QED
  BY <1>3, Zenon DEF WalkOf

\* A walk meets the nodes of the list in order and then NULL only.
LEMMA WalkOfChain ==
  ASSUME NEW h, NEW nd, NEW n \in 0..MaxAdds, NEW s, Chain(h, nd, n, s)
  PROVE  \A k \in 0..MaxAdds : Walk(h, nd)[k] = IF k < n THEN s[k + 1] ELSE NULL
<1>. DEFINE W == Walk(h, nd)
            At(k) == IF k < n THEN s[k + 1] ELSE NULL
            S == {k \in Nat : k <= MaxAdds => W[k] = At(k)}
<1>1. \A k \in 0..MaxAdds : W[k] = StepOf(h, nd, W, k)
  BY WalkStep
<1>2. 0 \in S
  <2>1. W[0] = h
    BY <1>1, PackageAssumption DEF StepOf
  <2>. HIDE DEF W
  <2>. QED
    BY <2>1 DEF Chain
<1>3. ASSUME NEW k \in S PROVE k + 1 \in S
  <2>. SUFFICES ASSUME k + 1 <= MaxAdds PROVE W[k + 1] = At(k + 1)
    OBVIOUS
  <2>1. k \in Nat /\ W[k] = At(k)
    BY PackageAssumption
  <2>2. W[k + 1] = IF W[k] = NULL THEN NULL ELSE nd[W[k]].next
    <3>1. k + 1 \in 0..MaxAdds /\ k + 1 # 0 /\ (k + 1) - 1 = k
      BY <2>1, PackageAssumption
    <3>. HIDE DEF W
    <3>. QED
      BY <1>1, <3>1 DEF StepOf
  <2>. HIDE DEF W
  <2>3. CASE k < n
    <3>1. k + 1 \in 1..n
      BY <2>1, <2>3
    <3>. QED
      BY <2>1, <2>2, <2>3, <3>1 DEF Chain
  <2>4. CASE k >= n
    BY <2>1, <2>2, <2>4
  <2>. QED
    BY <2>1, <2>3, <2>4
<1>4. S = Nat
  <2>. HIDE DEF S
  <2>1. S \subseteq Nat
    BY DEF S
  <2>. QED
    BY <1>2, <1>3, <2>1, Induction
<1>. QED
  BY <1>4, PackageAssumption

\* What a listing says of a node, and the listing of a list.
Entry(nd, m) == [pkg |-> nd[m].pkg, computed |-> nd[m].computed]
LengthOf(h, nd) == Cardinality({k \in 0..(MaxAdds - 1) : Walk(h, nd)[k] # NULL})
Entries(h, nd) == [k \in 1..LengthOf(h, nd) |-> Entry(nd, Walk(h, nd)[k - 1])]

\* The listing has an entry for each node of the list, in order.
LEMMA EntriesOfChain ==
  ASSUME NEW h, NEW nd, NEW n \in 0..MaxAdds, NEW s, Chain(h, nd, n, s)
  PROVE  /\ LengthOf(h, nd) = n
         /\ Entries(h, nd) = [k \in 1..n |-> Entry(nd, s[k])]
<1>. DEFINE W == Walk(h, nd)
<1>1. \A k \in 0..MaxAdds : W[k] = IF k < n THEN s[k + 1] ELSE NULL
  BY WalkOfChain
<1>. HIDE DEF W
<1>2. {k \in 0..(MaxAdds - 1) : W[k] # NULL} = 0..(n - 1)
  BY <1>1, PackageAssumption DEF Chain
<1>3. Cardinality(0..(n - 1)) = n
  BY FS_Interval
<1>4. LengthOf(h, nd) = n
  BY <1>2, <1>3 DEF LengthOf, W
<1>5. \A k \in 1..n : W[k - 1] = s[k]
  BY <1>1, PackageAssumption
<1>. QED
  BY <1>4, <1>5 DEF Entries, W

\* The list that stands for the abstract one is the listing, before and after a
\* step.
LEMMA ListIsEntries ==
  /\ Length = LengthOf(head, node) /\ Length' = LengthOf(head', node')
  /\ list = IF pc \in {"free", "quit"} THEN <<>> ELSE Entries(head, node)
  /\ list' = IF pc' \in {"free", "quit"} THEN <<>> ELSE Entries(head', node')
<1>1. Length = LengthOf(head, node) /\ Length' = LengthOf(head', node')
  BY AfterIsWalk, Zenon DEF Length, LengthOf
<1>2. /\ \A k : Listed(k) = Entry(node, Walk(head, node)[k - 1])
      /\ \A k : Listed(k)' = Entry(node', Walk(head', node')[k - 1])
  BY AfterIsWalk, Zenon DEF Listed, Entry
<1>3. /\ [k \in 1..Length |-> Listed(k)] = Entries(head, node)
      /\ [k \in 1..Length |-> Listed(k)]' = Entries(head', node')
  BY <1>1, <1>2, Zenon DEF Entries
<1>. QED
  BY <1>1, <1>3, Zenon DEF list

-----------------------------------------------------------------------------
(***************************************************************************)
(* The inductive invariant                                                 *)
(***************************************************************************)

\* Where the walk over what is left of the list starts.
Start == IF pc \in {"free", "quit"} THEN current ELSE head

\* Between its allocation and its link the new node is on no list.
Linking == pc \in {"link", "walk"}

\* What PACKAGES prints of a node.
PrintedEntry(m) == [pkg |-> node[m].pkg, completed |-> isComplete(node[m].computed)]

\* s is the list: it leads to each node that has not been freed, once.
Linked(n, s) ==
  /\ n \in 0..Len(node) /\ s \in [1..n -> DOMAIN node]
  /\ Chain(Start, node, n, s)
  /\ \A i, j \in 1..n : s[i] = s[j] => i = j
  /\ \A m \in DOMAIN node :
       node[m].live <=> (Linking /\ m = new) \/ \E i \in 1..n : s[i] = m
  /\ Linking => n < new /\ node[new].next = NULL /\ \A i \in 1..n : s[i] # new

\* The place of the cursors of a walk in the list.
Cursors(n, s) ==
  /\ pc = "walk" => \E i \in 1..n : current = s[i]
  /\ pc \in {"print", "printed"} =>
       /\ Len(out) \in 0..n
       /\ current = IF Len(out) = n THEN NULL ELSE s[Len(out) + 1]
       /\ \A i \in 1..Len(out) : out[i] = PrintedEntry(s[i])
  /\ pc = "printed" => Len(out) = n
  /\ pc = "search" =>
       \E j \in 1..(n + 1) :
         /\ current = IF j = n + 1 THEN NULL ELSE s[j]
         /\ prev = IF j = 1 THEN NULL ELSE s[j - 1]
         /\ \A i \in 1..(j - 1) : ~Starts(arg, Ident(node[s[i]].pkg))
  /\ pc = "quit" => current = NULL

\* The type of what the main thread holds.
NodeType == [pkg : Names, computed : Status, next : 0..MaxAdds, live : BOOLEAN]

NodesOK(nd) ==
  /\ nd \in Seq(NodeType) /\ Len(nd) <= MaxAdds
  /\ \A m \in 1..Len(nd) : nd[m].next \in 0..Len(nd)

PCs == {"prompt", "link", "walk", "print", "printed", "search", "free", "quit", "exited", "fault"}

\* Every variable has its type and every link leads to an allocated node or to NULL.
Types ==
  /\ NodesOK(node)
  /\ head \in 0..Len(node) /\ current \in 0..Len(node) /\ prev \in 0..Len(node)
  /\ data \in [Usable -> Status]
  /\ pc \in PCs
  /\ out \in Seq([pkg : Names, completed : BOOLEAN])
  /\ pc = "search" => arg \in Arguments
  /\ Linking => Len(node) # 0
  /\ pc = "walk" => current # NULL

\* The inductive invariant: the nodes that are not freed are a list s of n nodes,
\* and each walk is at a known place of it.
Shape(n, s) == Linked(n, s) /\ Cursors(n, s)

IInv == Types /\ \E n \in 0..Len(node) : \E s \in [1..n -> DOMAIN node] : Shape(n, s)

-----------------------------------------------------------------------------
(***************************************************************************)
(* What a step makes of the nodes                                          *)
(***************************************************************************)

\* Sequences of nodes, as functions.
LEMMA NodesFacts ==
  ASSUME NEW nd, NodesOK(nd)
  PROVE  /\ Len(nd) \in Nat /\ DOMAIN nd = 1..Len(nd) /\ nd \in [1..Len(nd) -> NodeType]
         /\ \A m \in 1..Len(nd) : nd[m] \in NodeType /\ nd[m].next \in 0..Len(nd)
  BY LenProperties DEF NodesOK

\* A node is allocated.
LEMMA NodesAppended ==
  ASSUME NEW nd, NodesOK(nd), Len(nd) < MaxAdds, NEW m \in NodeType, m.next = NULL
  PROVE  /\ NodesOK(Append(nd, m)) /\ Len(Append(nd, m)) = Len(nd) + 1
         /\ \A k \in 1..Len(nd) : Append(nd, m)[k] = nd[k]
         /\ Append(nd, m)[Len(nd) + 1] = m
<1>1. Len(nd) \in Nat
  BY NodesFacts
<1>2. /\ Append(nd, m) \in Seq(NodeType) /\ Len(Append(nd, m)) = Len(nd) + 1
      /\ \A k \in 1..Len(nd) : Append(nd, m)[k] = nd[k]
      /\ Append(nd, m)[Len(nd) + 1] = m
  BY AppendProperties DEF NodesOK
<1>. HIDE DEF NodeType
<1>3. \A k \in 1..Len(Append(nd, m)) : Append(nd, m)[k].next \in 0..Len(Append(nd, m))
  BY <1>1, <1>2 DEF NodesOK, NULL
<1>. QED
  BY <1>1, <1>2, <1>3, PackageAssumption DEF NodesOK

\* A node is written.
LEMMA NodesChanged ==
  ASSUME NEW nd, NodesOK(nd), NEW i \in 1..Len(nd), NEW e \in NodeType, e.next \in 0..Len(nd)
  PROVE  /\ NodesOK([nd EXCEPT ![i] = e]) /\ Len([nd EXCEPT ![i] = e]) = Len(nd)
         /\ \A k \in 1..Len(nd) : [nd EXCEPT ![i] = e][k] = IF k = i THEN e ELSE nd[k]
<1>1. /\ [nd EXCEPT ![i] = e] \in Seq(NodeType) /\ Len([nd EXCEPT ![i] = e]) = Len(nd)
      /\ \A k \in 1..Len(nd) : [nd EXCEPT ![i] = e][k] = IF k = i THEN e ELSE nd[k]
  BY ExceptSeq DEF NodesOK
<1>. QED
  BY <1>1 DEF NodesOK

\* What AddPackage makes of the nodes.
LEMMA Appended ==
  ASSUME Types, NEW p \in Names, AddPackage(p)
  PROVE  /\ NodesOK(node') /\ Len(node') = Len(node) + 1
         /\ \A k \in 1..Len(node) : node'[k] = node[k]
         /\ node'[Len(node')].next = NULL /\ node'[Len(node')].live
<1>. DEFINE m == [pkg |-> p, computed |-> data[p], next |-> NULL, live |-> TRUE]
<1>1. m \in NodeType
  BY PackageAssumption DEF Types, AddPackage, NULL, NodeType
<1>2. m.next = NULL /\ m.live
  OBVIOUS
<1>3. node' = Append(node, m) /\ Len(node) < MaxAdds /\ NodesOK(node)
  BY DEF AddPackage, Types
<1>. HIDE DEF m
<1>. QED
  BY <1>1, <1>2, <1>3, NodesAppended

\* An assignment to nd[i].next.
SetNext(nd, i, x) == [nd EXCEPT ![i].next = x]

\* Writing a link changes nothing else of a node.
LEMMA LinkChanged ==
  ASSUME NEW nd, NodesOK(nd), NEW i \in 1..Len(nd), NEW x \in 0..Len(nd)
  PROVE  /\ NodesOK(SetNext(nd, i, x)) /\ Len(SetNext(nd, i, x)) = Len(nd)
         /\ \A k \in 1..Len(nd) :
              LET m == SetNext(nd, i, x)[k]
              IN  /\ m.next = IF k = i THEN x ELSE nd[k].next
                  /\ m.live = nd[k].live /\ m.pkg = nd[k].pkg /\ m.computed = nd[k].computed
<1>. DEFINE e == [nd[i] EXCEPT !.next = x]
<1>1. nd[i] \in NodeType /\ Len(nd) <= MaxAdds /\ Len(nd) \in Nat
  BY NodesFacts DEF NodesOK
<1>2. /\ [nd EXCEPT ![i].next = x] = [nd EXCEPT ![i] = e]
      /\ e \in NodeType /\ e.next = x /\ e.pkg = nd[i].pkg /\ e.computed = nd[i].computed
      /\ e.live = nd[i].live
  BY SMTT(30), <1>1, PackageAssumption DEF NodeType
<1>. HIDE DEF e
<1>3. /\ NodesOK([nd EXCEPT ![i] = e]) /\ Len([nd EXCEPT ![i] = e]) = Len(nd)
      /\ \A k \in 1..Len(nd) : [nd EXCEPT ![i] = e][k] = IF k = i THEN e ELSE nd[k]
  BY <1>2, NodesChanged
<1>. QED
  BY <1>2, <1>3 DEF SetNext

\* What AddLink makes of the nodes.
LEMMA LinkSet ==
  ASSUME Types, AddLink
  PROVE  /\ NodesOK(node') /\ Len(node') = Len(node)
         /\ \A k \in 1..Len(node) :
              /\ node'[k].next = IF k = current THEN new ELSE node[k].next
              /\ node'[k].live = node[k].live
              /\ node'[k].pkg = node[k].pkg /\ node'[k].computed = node[k].computed
<1>1. NodesOK(node) /\ current \in 1..Len(node) /\ new \in 0..Len(node)
  BY NodesFacts DEF Types, AddLink, NULL, new
<1>2. node' = SetNext(node, current, new)
  BY DEF AddLink, SetNext
<1>. QED
  BY <1>1, <1>2, LinkChanged

\* What a freed node holds has the type of a node.
LEMMA FreedType == Names # {} => Freed \in NodeType /\ Freed.next = NULL /\ ~Freed.live
  BY PackageAssumption DEF Freed, NodeType, Status, NULL

\* free of a node.
FreeAt(nd, i) == [nd EXCEPT ![i] = Freed]

\* Freeing a node changes no other.
LEMMA NodeFreed ==
  ASSUME NEW nd, NodesOK(nd), NEW i \in 1..Len(nd)
  PROVE  /\ NodesOK(FreeAt(nd, i)) /\ Len(FreeAt(nd, i)) = Len(nd)
         /\ \A k \in 1..Len(nd) : FreeAt(nd, i)[k] = IF k = i THEN Freed ELSE nd[k]
         /\ Freed.next = NULL /\ ~Freed.live
<1>1. nd[i] \in NodeType /\ Len(nd) \in Nat
  BY NodesFacts
<1>2. Freed \in NodeType /\ Freed.next = NULL /\ ~Freed.live
  BY <1>1, FreedType DEF NodeType
<1>. QED
  BY <1>1, <1>2, NodesChanged DEF NULL, FreeAt

\* What REMPACKAGE makes of the nodes.
LEMMA Removed ==
  ASSUME Types, Remove, prev # current
  PROVE  /\ NodesOK(node') /\ Len(node') = Len(node)
         /\ current \in 1..Len(node)
         /\ node'[current].next = NULL /\ ~node'[current].live
         /\ \A k \in 1..Len(node) : k # current =>
              /\ node'[k].next = IF k = prev THEN node[current].next ELSE node[k].next
              /\ node'[k].live = node[k].live
              /\ node'[k].pkg = node[k].pkg /\ node'[k].computed = node[k].computed
<1>. DEFINE mid == FreeAt(node, current)
<1>1. /\ NodesOK(node) /\ current \in 1..Len(node) /\ Len(node) \in Nat
      /\ node[current].next \in 0..Len(node)
  BY NodesFacts DEF Types, Remove, NULL
<1>2. /\ NodesOK(mid) /\ Len(mid) = Len(node)
      /\ \A k \in 1..Len(node) : mid[k] = IF k = current THEN Freed ELSE node[k]
      /\ Freed.next = NULL /\ ~Freed.live
  BY <1>1, NodeFreed
<1>3. CASE prev = NULL
  <2>1. node' = mid /\ prev \notin 1..Len(node)
    BY <1>1, <1>3 DEF Remove, NULL, FreeAt
  <2>. QED
    BY <1>1, <1>2, <2>1
<1>4. CASE prev # NULL
  <2>1. prev \in 1..Len(node)
    BY <1>1, <1>4 DEF Types, NULL
  <2>2. node' = SetNext(mid, prev, node[current].next)
    BY <1>4 DEF Remove, SetNext, FreeAt
  <2>. HIDE DEF mid
  <2>3. /\ prev \in 1..Len(mid) /\ node[current].next \in 0..Len(mid)
        /\ NodesOK(mid)
    BY <1>1, <1>2, <2>1
  <2>4. /\ NodesOK(node') /\ Len(node') = Len(node)
        /\ \A k \in 1..Len(node) :
             /\ node'[k].next = IF k = prev THEN node[current].next ELSE mid[k].next
             /\ node'[k].live = mid[k].live
             /\ node'[k].pkg = mid[k].pkg /\ node'[k].computed = mid[k].computed
    BY <1>2, <2>2, <2>3, LinkChanged
  <2>. QED
    BY <1>1, <1>2, <2>4
<1>. QED
  BY <1>3, <1>4

\* Each step keeps the types.  That REMPACKAGE frees another node than the one it
\* writes to takes the place of its cursors in the list.
LEMMA TypeStep == IInv /\ [Next]_vars => Types'
<1>. SUFFICES ASSUME Types, NEW n, NEW s, Shape(n, s), [Next]_vars PROVE Types'
  BY DEF IInv
<1>0. NodesOK(node) /\ Len(node) \in Nat /\ Len(node) <= MaxAdds
      /\ \A m \in 1..Len(node) : node[m] \in NodeType /\ node[m].next \in 0..Len(node)
  BY NodesFacts DEF Types, NodesOK
<1>. USE <1>0, PackageAssumption DEF Types, PCs, NULL, list_, locals, Return, Linking, new
<1>1. ASSUME NEW p \in Names, AddPackage(p) PROVE Types'
  <2>1. NodesOK(node') /\ Len(node') = Len(node) + 1
    BY <1>1, Appended, Zenon
  <2>. QED
    BY <1>1, <2>1 DEF AddPackage
<1>2. ASSUME NEW p \in Names, AddMalformed(p) PROVE Types'
  BY <1>2 DEF AddMalformed
<1>3. ASSUME NEW p \in Names, AddSingle(p) PROVE Types'
  BY <1>3 DEF AddSingle
<1>4. CASE Packages
  <2>1. <<>> \in Seq([pkg : Names, completed : BOOLEAN])
    OBVIOUS
  <2>. QED
    BY <1>4, <2>1 DEF Packages
<1>5. CASE RemPackage
  BY <1>5 DEF RemPackage
<1>6. CASE Quit
  BY <1>6 DEF Quit
<1>7. CASE AddFirst
  BY <1>7 DEF AddFirst
<1>8. CASE AddWalk
  BY <1>8 DEF AddWalk
<1>9. CASE AddStep
  BY <1>9 DEF AddStep
<1>10. CASE AddLink
  BY <1>10, LinkSet DEF AddLink
<1>11. CASE PrintStep
  <2>1. current \in 1..Len(node) /\ node[current].pkg \in Names
    BY <1>11 DEF PrintStep, NodeType
  <2>2. out' \in Seq([pkg : Names, completed : BOOLEAN])
    BY <1>11, <2>1 DEF PrintStep, isComplete
  <2>. QED
    BY <1>11, <2>1, <2>2 DEF PrintStep
<1>12. CASE PrintEnd
  BY <1>12 DEF PrintEnd
<1>13. CASE Printed
  <2>1. <<>> \in Seq([pkg : Names, completed : BOOLEAN])
    OBVIOUS
  <2>. QED
    BY <1>13, <2>1 DEF Printed
<1>14. CASE SearchStep
  BY <1>14 DEF SearchStep
<1>15. CASE Remove
  <2>1. prev # current
    BY <1>15 DEF Remove, Shape, Cursors, Linked, Chain
  <2>. QED
    BY <1>15, <2>1, Removed DEF Remove
<1>16. CASE RemoveNone
  BY <1>16 DEF RemoveNone
<1>17. CASE FreeStep
  <2>1. current \in 1..Len(node) /\ node' = FreeAt(node, current)
    BY <1>17 DEF FreeStep, FreeAt
  <2>2. NodesOK(node') /\ Len(node') = Len(node)
    BY <2>1, NodeFreed
  <2>. QED
    BY <1>17, <2>1, <2>2 DEF FreeStep
<1>18. CASE FreeEnd
  BY <1>18 DEF FreeEnd
<1>19. CASE DataChanges
  BY <1>19 DEF DataChanges, Status
<1>20. CASE Done
  BY <1>20 DEF Done, vars
<1>21. CASE UNCHANGED vars
  BY <1>21 DEF vars
<1>. QED
  BY <1>1, <1>2, <1>3, <1>4, <1>5, <1>6, <1>7, <1>8, <1>9, <1>10, <1>11, <1>12,
     <1>13, <1>14, <1>15, <1>16, <1>17, <1>18, <1>19, <1>20, <1>21
  DEF Next, Command, Adding, Step

-----------------------------------------------------------------------------
(***************************************************************************)
(* What a step makes of the list                                           *)
(***************************************************************************)

\* The steps that change neither the list nor its nodes: reading, allocating.
KeepsList ==
  \/ Adding \/ Packages \/ RemPackage \/ Quit \/ AddWalk \/ AddStep
  \/ PrintStep \/ PrintEnd \/ Printed \/ SearchStep \/ RemoveNone \/ FreeEnd
  \/ DataChanges \/ Done \/ UNCHANGED vars

\* They keep the list and advance the cursors along it.
LEMMA ShapeKept ==
  ASSUME Types, NEW n, NEW s, Shape(n, s), KeepsList
  PROVE  Shape(n, s)'
<1>0. /\ NodesOK(node) /\ Len(node) \in Nat /\ DOMAIN node = 1..Len(node)
      /\ \A m \in 1..Len(node) : node[m] \in NodeType /\ node[m].next \in 0..Len(node)
  BY NodesFacts DEF Types
<1>. USE <1>0 DEF Types, PCs, NULL, list_, locals, Return, Linking, Start, new
<1>. USE DEF Shape, Linked, Cursors, Chain
<1>1. ASSUME NEW p \in Names, AddPackage(p) PROVE Shape(n, s)'
  <2>1. /\ NodesOK(node') /\ Len(node') = Len(node) + 1
        /\ \A k \in 1..Len(node) : node'[k] = node[k]
        /\ node'[Len(node')].next = NULL /\ node'[Len(node')].live
        /\ DOMAIN node' = 1..Len(node')
    BY <1>1, Appended, NodesFacts
  <2>2. /\ n \in 0..Len(node) /\ s \in [1..n -> 1..Len(node)] /\ Chain(head, node, n, s)
        /\ \A m \in 1..Len(node) : node[m].live <=> \E i \in 1..n : s[i] = m
        /\ pc' = "link" /\ head' = head
    BY <1>1 DEF AddPackage
  <2>3. /\ n \in 0..Len(node') /\ s \in [1..n -> DOMAIN node'] /\ n < new'
        /\ \A i \in 1..n : s[i] # new'
    BY SMTT(30), <2>1, <2>2
  <2>4. Chain(Start, node, n, s)'
    BY SMTT(30), <2>1, <2>2
  <2>5. \A m \in DOMAIN node' : node'[m].live <=> m = new' \/ \E i \in 1..n : s[i] = m
    BY <2>1, <2>2, <2>3
  <2>6. Linked(n, s)'
    BY <2>1, <2>2, <2>3, <2>4, <2>5
  <2>7. Cursors(n, s)'
    BY <1>1, <2>1 DEF AddPackage
  <2>. QED
    BY <2>6, <2>7
<1>2. ASSUME NEW p \in Names, AddMalformed(p) PROVE Shape(n, s)'
  BY <1>2 DEF AddMalformed
<1>3. ASSUME NEW p \in Names, AddSingle(p) PROVE Shape(n, s)'
  BY <1>3 DEF AddSingle
<1>4. CASE Packages
  BY <1>4, EmptySeq DEF Packages
<1>5. CASE RemPackage
  BY <1>5 DEF RemPackage
<1>6. CASE Quit
  BY <1>6 DEF Quit
<1>7. CASE AddWalk
  BY <1>7 DEF AddWalk
<1>8. CASE AddStep
  BY <1>8 DEF AddStep
<1>9. CASE PrintStep
  <2>. DEFINE l == Len(out)
              e == PrintedEntry(current)
  <2>1. /\ l \in 0..n /\ l < n /\ current = s[l + 1] /\ current' = node[current].next
        /\ node' = node /\ head' = head /\ pc' = pc
        /\ \A i \in 1..l : out[i] = PrintedEntry(s[i])
    BY <1>9 DEF PrintStep
  <2>2. out' = Append(out, e)
    BY <1>9 DEF PrintStep, PrintedEntry
  <2>3. Len(out') = l + 1 /\ \A i \in 1..(l + 1) : out'[i] = IF i = l + 1 THEN e ELSE out[i]
    <3>. HIDE DEF e
    <3>. QED
      BY <2>2
  <2>4. \A i \in 1..(l + 1) : out'[i] = PrintedEntry(s[i])
    <3>1. e = PrintedEntry(s[l + 1])
      BY <2>1, Zenon
    <3>2. l \in Nat
      BY <2>1
    <3>. HIDE DEF e, l
    <3>3. ASSUME NEW i \in 1..(l + 1) PROVE out'[i] = PrintedEntry(s[i])
      <4>1. i = l + 1 \/ i \in 1..l
        BY <3>2
      <4>2. out'[i] = IF i = l + 1 THEN e ELSE out[i]
        BY <2>3
      <4>. QED
        BY <2>1, <3>1, <4>1, <4>2, Zenon
    <3>. QED
      BY <3>3
  <2>5. \A i \in 1..(l + 1) : PrintedEntry(s[i])' = PrintedEntry(s[i])
    BY <2>1, Zenon DEF PrintedEntry
  <2>6. Linked(n, s)'
    BY <1>9 DEF PrintStep
  <2>7. current' = IF l + 1 = n THEN NULL ELSE s[l + 2]
    BY SMTT(30), <2>1
  <2>. HIDE DEF e, l
  <2>8. Cursors(n, s)'
    <3>1. pc = "print" /\ pc' = "print"
      BY <1>9 DEF PrintStep
    <3>2. l \in Nat /\ Len(out') \in 0..n
      BY <2>1, <2>3 DEF l
    <3>. QED
      BY <2>3, <2>4, <2>5, <2>7, <3>1, <3>2
  <2>. QED
    BY <2>6, <2>8
<1>10. CASE PrintEnd
  BY <1>10 DEF PrintEnd, PrintedEntry
<1>11. CASE Printed
  BY <1>11 DEF Printed
<1>12. CASE SearchStep
  <2>1. PICK j \in 1..(n + 1) :
          /\ current = IF j = n + 1 THEN NULL ELSE s[j]
          /\ prev = IF j = 1 THEN NULL ELSE s[j - 1]
          /\ \A i \in 1..(j - 1) : ~Starts(arg, Ident(node[s[i]].pkg))
    BY <1>12 DEF SearchStep
  <2>2. /\ j \in 1..n /\ current = s[j] /\ ~Starts(arg, Ident(node[s[j]].pkg))
        /\ current' = node[s[j]].next /\ prev' = s[j]
        /\ UNCHANGED <<node, head, arg, pc>> /\ pc = "search"
    BY <1>12, <2>1 DEF SearchStep, matches
  <2>3. Linked(n, s)'
    BY <2>2
  <2>4. /\ current' = IF j + 1 = n + 1 THEN NULL ELSE s[j + 1]
        /\ prev' = IF j + 1 = 1 THEN NULL ELSE s[(j + 1) - 1]
    BY <2>2
  <2>5. ASSUME NEW i \in 1..((j + 1) - 1) PROVE ~Starts(arg', Ident(node'[s[i]].pkg))
    <3>1. i = j \/ i \in 1..(j - 1)
      BY <2>2
    <3>2. ~Starts(arg, Ident(node[s[i]].pkg))
      BY <2>1, <2>2, <3>1, Zenon
    <3>. QED
      BY <2>2, <3>2, Zenon
  <2>6. Cursors(n, s)'
    <3>1. j + 1 \in 1..(n + 1) /\ pc' = "search"
      BY <2>2
    <3>. QED
      BY <2>4, <2>5, <3>1
  <2>. QED
    BY <2>3, <2>6
<1>13. CASE RemoveNone
  BY <1>13 DEF RemoveNone
<1>14. CASE FreeEnd
  BY <1>14 DEF FreeEnd
<1>15. CASE DataChanges
  BY <1>15 DEF DataChanges
<1>16. CASE Done
  BY <1>16 DEF Done, vars, PrintedEntry
<1>17. CASE UNCHANGED vars
  BY <1>17 DEF vars, PrintedEntry
<1>. QED
  BY <1>1, <1>2, <1>3, <1>4, <1>5, <1>6, <1>7, <1>8, <1>9, <1>10, <1>11, <1>12,
     <1>13, <1>14, <1>15, <1>16, <1>17 DEF KeepsList, Adding

\* The list with a node behind the last, and without its j-th.
Extended(n, s, m) == [i \in 1..(n + 1) |-> IF i = n + 1 THEN m ELSE s[i]]
Without(n, s, j) == [i \in 1..(n - 1) |-> IF i < j THEN s[i] ELSE s[i + 1]]

\* ADDPACKAGE puts its node behind the last.
LEMMA ShapeExtended ==
  ASSUME Types, NEW n, NEW s, Shape(n, s), AddFirst \/ AddLink, NEW l, l = new
  PROVE  Shape(n + 1, Extended(n, s, l))'
<1>. DEFINE t == Extended(n, s, l)
<1>0. /\ NodesOK(node) /\ Len(node) \in Nat /\ DOMAIN node = 1..Len(node)
      /\ n \in Nat /\ n < l /\ l = Len(node)
      /\ s \in [1..n -> 1..Len(node)] /\ Chain(head, node, n, s)
      /\ \A i, j \in 1..n : s[i] = s[j] => i = j
      /\ \A i \in 1..n : s[i] # l
      /\ node[l].next = NULL
      /\ \A m \in 1..Len(node) : node[m].live <=> m = l \/ \E i \in 1..n : s[i] = m
  BY NodesFacts DEF Types, Shape, Linked, Linking, AddFirst, AddLink, Start, new
<1>1. /\ DOMAIN node' = 1..Len(node) /\ Len(node') = Len(node) /\ pc' = "prompt"
      /\ Start' = head'
      /\ \A k \in 1..Len(node) : node'[k].live = node[k].live
  BY <1>0, LinkSet, NodesFacts DEF AddFirst, AddLink, Return, Start
<1>2. \A k \in 1..Len(node) : node'[k].next = IF n > 0 /\ k = s[n] THEN l ELSE node[k].next
  <2>1. CASE AddFirst
    BY <1>0, <2>1 DEF AddFirst, Chain, NULL
  <2>2. CASE AddLink
    <3>1. n > 0 /\ current = s[n]
      BY SMTT(30), <1>0, <2>2 DEF AddLink, Shape, Cursors, Chain, NULL
    <3>. QED
      BY <1>0, <2>2, <3>1, LinkSet
  <2>. QED
    BY <2>1, <2>2
<1>3. head' = IF n = 0 THEN l ELSE s[1]
  BY <1>0 DEF AddFirst, AddLink, Chain, Shape, Cursors, NULL
<1>4. t \in [1..(n + 1) -> 1..Len(node)] /\ t[n + 1] = l /\ \A i \in 1..n : t[i] = s[i]
  BY <1>0 DEF Extended
<1>. HIDE DEF t
<1>5. Chain(head', node', n + 1, t)
  <2>1. head' = t[1]
    BY <1>0, <1>3, <1>4
  <2>2. ASSUME NEW i \in 1..(n + 1)
        PROVE  t[i] # NULL /\ node'[t[i]].next = IF i = n + 1 THEN NULL ELSE t[i + 1]
    <3>1. CASE i = n + 1
      <4>1. t[i] = l /\ l \in 1..Len(node) /\ ~(n > 0 /\ l = s[n])
        BY <1>0, <1>4, <3>1
      <4>. QED
        BY <1>0, <1>2, <3>1, <4>1 DEF NULL
    <3>2. CASE i = n
      <4>1. t[i] = s[n] /\ n > 0 /\ s[n] \in 1..Len(node) /\ t[i + 1] = l
        BY <1>0, <1>4, <3>2
      <4>. QED
        BY <1>0, <1>2, <3>2, <4>1 DEF NULL
    <3>3. CASE i < n
      <4>1. t[i] = s[i] /\ s[i] \in 1..Len(node) /\ s[i] # s[n] /\ t[i + 1] = s[i + 1] /\ i \in 1..n
        BY <1>0, <1>4, <3>3
      <4>2. node[s[i]].next = s[i + 1]
        BY <1>0, <3>3, <4>1 DEF Chain
      <4>. QED
        BY <1>0, <1>2, <3>3, <4>1, <4>2 DEF NULL
    <3>. QED
      BY <1>0, <3>1, <3>2, <3>3
  <2>. QED
    BY <1>0, <2>1, <2>2 DEF Chain
<1>6. \A i, j \in 1..(n + 1) : t[i] = t[j] => i = j
  BY <1>0, <1>4
<1>7. \A m \in 1..Len(node) : node'[m].live <=> \E i \in 1..(n + 1) : t[i] = m
  BY <1>0, <1>1, <1>4
<1>8. Linked(n + 1, t)'
  BY <1>0, <1>1, <1>4, <1>5, <1>6, <1>7 DEF Linked, Linking
<1>9. Cursors(n + 1, t)'
  BY <1>1 DEF Cursors
<1>. QED
  BY <1>8, <1>9 DEF Shape, t

\* What the current node of the search is.
LEMMA SearchPlace ==
  ASSUME Types, NEW n, NEW s, Shape(n, s), Remove
  PROVE  \E j \in 1..n :
           /\ current = s[j] /\ prev = IF j = 1 THEN NULL ELSE s[j - 1]
           /\ Starts(arg, Ident(node[s[j]].pkg))
           /\ \A i \in 1..(j - 1) : ~Starts(arg, Ident(node[s[i]].pkg))
<1>1. PICK j \in 1..(n + 1) :
        /\ current = IF j = n + 1 THEN NULL ELSE s[j]
        /\ prev = IF j = 1 THEN NULL ELSE s[j - 1]
        /\ \A i \in 1..(j - 1) : ~Starts(arg, Ident(node[s[i]].pkg))
  BY DEF Remove, Shape, Cursors
<1>2. j \in 1..n /\ current = s[j]
  BY <1>1 DEF Remove, Shape, Linked
<1>. QED
  BY <1>1, <1>2 DEF Remove, matches

\* REMPACKAGE unlinks the node that it frees.
LEMMA ShapeRemoved ==
  ASSUME Types, NEW n, NEW s, Shape(n, s), Remove, NEW j \in 1..n,
         current = s[j], prev = IF j = 1 THEN NULL ELSE s[j - 1]
  PROVE  Shape(n - 1, Without(n, s, j))'
<1>. DEFINE t == Without(n, s, j)
<1>0. /\ NodesOK(node) /\ Len(node) \in Nat /\ DOMAIN node = 1..Len(node)
      /\ n \in 0..Len(node)
      /\ s \in [1..n -> 1..Len(node)] /\ Chain(head, node, n, s)
      /\ \A i, k \in 1..n : s[i] = s[k] => i = k
      /\ \A m \in 1..Len(node) : node[m].live <=> \E i \in 1..n : s[i] = m
  BY NodesFacts DEF Types, Shape, Linked, Linking, Remove, Start
<1>1. prev # current
  BY <1>0 DEF NULL
<1>2. /\ NodesOK(node') /\ Len(node') = Len(node) /\ DOMAIN node' = 1..Len(node)
      /\ ~node'[current].live
      /\ \A k \in 1..Len(node) : k # current =>
           /\ node'[k].next = IF k = prev THEN node[current].next ELSE node[k].next
           /\ node'[k].live = node[k].live
      /\ pc' = "prompt" /\ Start' = head'
  BY <1>0, <1>1, Removed, NodesFacts DEF Remove, Return, Start
<1>3. head' = IF j = 1 THEN node[s[1]].next ELSE head
  BY <1>0 DEF Remove, NULL
<1>4. /\ n - 1 \in 0..Len(node) /\ t \in [1..(n - 1) -> 1..Len(node)]
      /\ \A i \in 1..(n - 1) : t[i] = IF i < j THEN s[i] ELSE s[i + 1]
  BY <1>0 DEF Without
<1>. HIDE DEF t
<1>5. Chain(head', node', n - 1, t)
  <2>1. head' = IF n - 1 = 0 THEN NULL ELSE t[1]
    BY <1>0, <1>3, <1>4 DEF Chain
  <2>2. ASSUME NEW i \in 1..(n - 1)
        PROVE  t[i] # NULL /\ node'[t[i]].next = IF i = n - 1 THEN NULL ELSE t[i + 1]
    <3>1. CASE i < j - 1
      <4>1. /\ t[i] = s[i] /\ t[i + 1] = s[i + 1] /\ i \in 1..n /\ i # n /\ i # n - 1
            /\ s[i] \in 1..Len(node)
        BY <1>0, <1>4, <3>1
      <4>2. s[i] # current /\ s[i] # prev
        BY <1>0, <3>1, <4>1 DEF NULL
      <4>3. node[s[i]].next = s[i + 1]
        BY <1>0, <4>1 DEF Chain
      <4>. QED
        BY <1>2, <4>1, <4>2, <4>3 DEF NULL
    <3>2. CASE i = j - 1
      <4>1. t[i] = prev /\ prev # NULL /\ prev \in 1..Len(node) /\ i \in 1..n
        BY <1>0, <1>4, <3>2 DEF NULL
      <4>2. node'[t[i]].next = node[s[j]].next
        BY <1>1, <1>2, <4>1
      <4>3. node[s[j]].next = IF j = n THEN NULL ELSE s[j + 1]
        BY <1>0 DEF Chain
      <4>4. i # n - 1 => t[i + 1] = s[j + 1]
        BY <1>0, <1>4, <3>2
      <4>. QED
        BY <1>0, <3>2, <4>1, <4>2, <4>3, <4>4
    <3>3. CASE i > j - 1
      <4>1. t[i] = s[i + 1] /\ i + 1 \in 1..n /\ i + 1 # j
        BY <1>0, <1>4, <3>3
      <4>2. t[i] # current /\ t[i] # prev /\ t[i] \in 1..Len(node)
        BY <1>0, <3>3, <4>1 DEF NULL
      <4>3. node'[t[i]].next = node[s[i + 1]].next
        BY <1>2, <4>1, <4>2
      <4>4. node[s[i + 1]].next = IF i + 1 = n THEN NULL ELSE s[(i + 1) + 1]
        BY <1>0, <4>1 DEF Chain
      <4>5. i # n - 1 => t[i + 1] = s[(i + 1) + 1]
        BY <1>0, <1>4, <3>3
      <4>. QED
        BY <1>0, <4>2, <4>3, <4>4, <4>5 DEF NULL
    <3>. QED
      BY <1>0, <3>1, <3>2, <3>3
  <2>. QED
    BY <2>1, <2>2 DEF Chain
<1>6. \A i, k \in 1..(n - 1) : t[i] = t[k] => i = k
  <2>. DEFINE at(i) == IF i < j THEN i ELSE i + 1
  <2>1. \A i \in 1..(n - 1) : at(i) \in 1..n /\ t[i] = s[at(i)]
    BY <1>0, <1>4
  <2>2. \A i, k \in 1..(n - 1) : at(i) = at(k) => i = k
    OBVIOUS
  <2>. HIDE DEF at
  <2>. QED
    BY <1>0, <2>1, <2>2
<1>7. ASSUME NEW m \in 1..Len(node)
      PROVE  node'[m].live <=> \E i \in 1..(n - 1) : t[i] = m
  <2>1. CASE m = current
    BY SMTT(30), <1>0, <1>2, <1>4, <2>1
  <2>2. ASSUME m # current, NEW i \in 1..n, s[i] = m PROVE \E k \in 1..(n - 1) : t[k] = m
    <3>1. CASE i < j
      BY <1>0, <1>4, <2>2, <3>1
    <3>2. CASE i > j
      <4>1. i - 1 \in 1..(n - 1) /\ t[i - 1] = s[i]
        BY <1>0, <1>4, <3>2
      <4>. QED
        BY <2>2, <4>1
    <3>. QED
      BY <1>0, <2>2, <3>1, <3>2
  <2>3. ASSUME NEW i \in 1..(n - 1), t[i] = m PROVE \E k \in 1..n : s[k] = m
    BY <1>0, <1>4, <2>3
  <2>. QED
    BY <1>0, <1>2, <2>1, <2>2, <2>3
<1>8. Linked(n - 1, t)'
  BY <1>2, <1>4, <1>5, <1>6, <1>7 DEF Linked, Linking
<1>9. Cursors(n - 1, t)'
  BY <1>2 DEF Cursors
<1>. QED
  BY <1>8, <1>9 DEF Shape, t

\* QUIT frees the first node of what is left and goes on with the next.
LEMMA ShapeFreed ==
  ASSUME Types, NEW n, NEW s, Shape(n, s), FreeStep
  PROVE  n > 0 /\ current = s[1] /\ Shape(n - 1, Without(n, s, 1))'
<1>. DEFINE t == Without(n, s, 1)
<1>0. /\ NodesOK(node) /\ Len(node) \in Nat /\ DOMAIN node = 1..Len(node)
      /\ n \in 0..Len(node)
      /\ s \in [1..n -> 1..Len(node)] /\ Chain(current, node, n, s)
      /\ \A i, k \in 1..n : s[i] = s[k] => i = k
      /\ \A m \in 1..Len(node) : node[m].live <=> \E i \in 1..n : s[i] = m
  BY NodesFacts DEF Types, Shape, Linked, Linking, FreeStep, Start
<1>1. n > 0 /\ current = s[1]
  BY <1>0 DEF FreeStep, Chain
<1>2. /\ NodesOK(node') /\ Len(node') = Len(node) /\ DOMAIN node' = 1..Len(node)
      /\ ~node'[current].live
      /\ \A k \in 1..Len(node) : k # current =>
           node'[k].next = node[k].next /\ node'[k].live = node[k].live
      /\ pc' = "free" /\ Start' = node[current].next
  <2>1. current \in 1..Len(node) /\ node' = FreeAt(node, current)
    BY <1>0, <1>1 DEF FreeStep, FreeAt
  <2>2. /\ NodesOK(node') /\ Len(node') = Len(node) /\ Freed.next = NULL /\ ~Freed.live
        /\ \A k \in 1..Len(node) : node'[k] = IF k = current THEN Freed ELSE node[k]
    BY <1>0, <2>1, NodeFreed
  <2>3. DOMAIN node' = 1..Len(node)
    BY <2>2, NodesFacts
  <2>4. pc' = "free" /\ Start' = node[current].next
    BY DEF FreeStep, Start
  <2>. QED
    BY <2>1, <2>2, <2>3, <2>4
<1>3. /\ n - 1 \in 0..Len(node) /\ t \in [1..(n - 1) -> 1..Len(node)]
      /\ \A i \in 1..(n - 1) : t[i] = s[i + 1]
  BY <1>0, <1>1 DEF Without
<1>. HIDE DEF t
<1>4. Chain(Start', node', n - 1, t)
  <2>1. Start' = IF n - 1 = 0 THEN NULL ELSE t[1]
    BY <1>0, <1>1, <1>2, <1>3 DEF Chain
  <2>2. ASSUME NEW i \in 1..(n - 1)
        PROVE  t[i] # NULL /\ node'[t[i]].next = IF i = n - 1 THEN NULL ELSE t[i + 1]
    <3>1. t[i] = s[i + 1] /\ i + 1 \in 1..n /\ t[i] # current /\ t[i] \in 1..Len(node)
      BY <1>0, <1>1, <1>3
    <3>2. node[s[i + 1]].next = IF i + 1 = n THEN NULL ELSE s[(i + 1) + 1]
      BY <1>0, <3>1 DEF Chain
    <3>3. i # n - 1 => t[i + 1] = s[(i + 1) + 1]
      BY <1>0, <1>3
    <3>. QED
      BY <1>0, <1>2, <3>1, <3>2, <3>3 DEF NULL
  <2>. QED
    BY <2>1, <2>2 DEF Chain
<1>5. \A i, k \in 1..(n - 1) : t[i] = t[k] => i = k
  BY <1>0, <1>3
<1>6. ASSUME NEW m \in 1..Len(node)
      PROVE  node'[m].live <=> \E i \in 1..(n - 1) : t[i] = m
  <2>1. CASE m = current
    BY <1>0, <1>1, <1>2, <1>3, <2>1
  <2>2. ASSUME m # current, NEW i \in 1..n, s[i] = m PROVE \E k \in 1..(n - 1) : t[k] = m
    <3>1. i - 1 \in 1..(n - 1) /\ t[i - 1] = s[i]
      BY <1>0, <1>1, <1>3, <2>2
    <3>. QED
      BY <2>2, <3>1
  <2>3. ASSUME NEW i \in 1..(n - 1), t[i] = m PROVE \E k \in 1..n : s[k] = m
    BY <1>0, <1>3, <2>3
  <2>. QED
    BY <1>0, <1>2, <2>1, <2>2, <2>3
<1>7. Linked(n - 1, t)'
  BY <1>2, <1>3, <1>4, <1>5, <1>6 DEF Linked, Linking
<1>8. Cursors(n - 1, t)'
  BY <1>2 DEF Cursors
<1>. QED
  BY <1>1, <1>7, <1>8 DEF Shape, t

\* The list is empty at first.
LEMMA InitInv == Init => IInv
<1>. SUFFICES ASSUME Init PROVE IInv
  OBVIOUS
<1>. DEFINE s == [i \in 1..0 |-> 1]
<1>1. /\ node = <<>> /\ Len(node) = 0 /\ DOMAIN node = 1..0 /\ NodesOK(node)
  BY PackageAssumption DEF Init, NodesOK
<1>2. Types
  <2>1. <<>> \in Seq([pkg : Names, completed : BOOLEAN])
    OBVIOUS
  <2>. QED
    BY <1>1, <2>1 DEF Types, Init, PCs, NULL, Linking
<1>3. s \in [1..0 -> DOMAIN node]
  OBVIOUS
<1>4. Shape(0, s)
  BY <1>1, <1>3 DEF Shape, Linked, Cursors, Chain, Init, NULL, Start, Linking
<1>5. 0 \in 0..Len(node)
  BY <1>1
<1>. HIDE DEF s
<1>. QED
  BY <1>2, <1>3, <1>4, <1>5 DEF IInv

\* Each step keeps the inductive invariant.
LEMMA InvStep == IInv /\ [Next]_vars => IInv'
<1>. SUFFICES ASSUME IInv, [Next]_vars PROVE IInv'
  OBVIOUS
<1>1. Types /\ Types'
  BY TypeStep DEF IInv
<1>2. PICK n : \E s : Shape(n, s)
  BY DEF IInv
<1>. PICK s : Shape(n, s)
  BY <1>2
<1>3. ASSUME NEW m, NEW t, Shape(m, t)' PROVE IInv'
  <2>1. m \in 0..Len(node') /\ t \in [1..m -> DOMAIN node']
    BY <1>3 DEF Shape, Linked
  <2>. QED
    BY <1>1, <1>3, <2>1 DEF IInv
<1>4. CASE KeepsList
  BY <1>1, <1>2, <1>4, ShapeKept, <1>3
<1>5. CASE AddFirst \/ AddLink
  <2>. DEFINE l == new
  <2>1. \E x : x = new
    OBVIOUS
  <2>2. PICK x : x = new
    BY <2>1
  <2>3. Shape(n + 1, Extended(n, s, x))'
    BY <1>1, <1>2, <1>5, <2>2, ShapeExtended
  <2>. QED
    BY <2>3, <1>3
<1>6. CASE Remove
  <2>1. PICK j \in 1..n : current = s[j] /\ prev = IF j = 1 THEN NULL ELSE s[j - 1]
    BY <1>1, <1>2, <1>6, SearchPlace
  <2>2. Shape(n - 1, Without(n, s, j))'
    BY <1>1, <1>2, <1>6, <2>1, ShapeRemoved
  <2>. QED
    BY <2>2, <1>3
<1>7. CASE FreeStep
  <2>1. Shape(n - 1, Without(n, s, 1))'
    BY <1>1, <1>2, <1>7, ShapeFreed
  <2>. QED
    BY <2>1, <1>3
<1>. QED
  BY <1>4, <1>5, <1>6, <1>7 DEF Next, Command, Step, KeepsList

\* The nodes that are not freed form a list at each place of the code, for any
\* package files and any bound on the nodes.
THEOREM Invariance == Spec => []IInv
<1>. QED
  BY InitInv, InvStep, PTL DEF Spec

-----------------------------------------------------------------------------
(***************************************************************************)
(* The properties                                                          *)
(***************************************************************************)

\* The inductive invariant implies the type invariant of Package.
LEMMA InvTypes == Types => TypeOK
<1>. SUFFICES ASSUME Types PROVE TypeOK
  OBVIOUS
<1>1. /\ node \in Seq(NodeType) /\ Len(node) <= MaxAdds /\ DOMAIN node = 1..Len(node)
      /\ Len(node) \in Nat
  BY NodesFacts DEF Types, NodesOK
<1>2. Pointer = 0..Len(node)
  BY <1>1 DEF Pointer, NULL
<1>. QED
  BY <1>1, <1>2 DEF Types, TypeOK, NodeType, PCs

\* A cursor is in the list, and a node of the list has not been freed.
LEMMA InvLive == IInv => NodesLive
<1>. SUFFICES ASSUME Types, NEW n, NEW s, Shape(n, s) PROVE NodesLive
  BY DEF IInv
<1>1. TypeOK
  BY InvTypes
<1>2. /\ n \in 0..Len(node) /\ s \in [1..n -> 1..Len(node)] /\ Chain(Start, node, n, s)
      /\ \A i \in 1..n : node[s[i]].live
      /\ Len(node) \in Nat /\ Len(node) <= MaxAdds
  <2>1. Len(node) \in Nat /\ Len(node) <= MaxAdds /\ DOMAIN node = 1..Len(node)
    BY NodesFacts DEF Types, NodesOK
  <2>. QED
    BY <2>1 DEF Shape, Linked
<1>3. n \in 0..MaxAdds
  BY <1>2, PackageAssumption
<1>4. ASSUME current # NULL, pc \in {"walk", "print", "search", "free"} PROVE node[current].live
  <2>1. CASE pc = "walk"
    BY <1>2, <2>1 DEF Shape, Cursors
  <2>2. CASE pc = "print"
    <3>1. Len(out) + 1 \in 1..n /\ current = s[Len(out) + 1]
      BY <1>2, <1>4, <2>2 DEF Shape, Cursors
    <3>. QED
      BY <1>2, <3>1
  <2>3. CASE pc = "search"
    <3>1. \E j \in 1..n : current = s[j]
      BY <1>2, <1>4, <2>3 DEF Shape, Cursors
    <3>. QED
      BY <1>2, <3>1
  <2>4. CASE pc = "free"
    <3>1. n > 0 /\ current = s[1]
      BY <1>2, <1>4, <2>4 DEF Chain, Start
    <3>. QED
      BY <1>2, <3>1
  <2>. QED
    BY <1>4, <2>1, <2>2, <2>3, <2>4
<1>5. ASSUME pc \notin {"free", "quit"}, NEW k \in 0..(MaxAdds - 1), after[k] # NULL
      PROVE  node[after[k]].live
  <2>1. Chain(head, node, n, s)
    BY <1>2, <1>5 DEF Start
  <2>2. k \in 0..MaxAdds
    BY PackageAssumption
  <2>3. after[k] = IF k < n THEN s[k + 1] ELSE NULL
    BY <1>3, <2>1, <2>2, WalkOfChain, AfterIsWalk
  <2>4. k + 1 \in 1..n /\ after[k] = s[k + 1]
    BY <1>2, <1>5, <2>3
  <2>. QED
    BY <1>2, <2>4
<1>. QED
  BY <1>1, <1>4, <1>5 DEF NodesLive

\* The list that stands for the abstract one.
LEMMA ListIsChain ==
  ASSUME Types, NEW n, NEW s, Shape(n, s), pc \notin {"free", "quit"}
  PROVE  /\ n \in 0..MaxAdds /\ Length = n
         /\ list = [k \in 1..n |-> Entry(node, s[k])]
<1>1. n \in 0..MaxAdds
  BY PackageAssumption, NodesFacts DEF Types, NodesOK, Shape, Linked
<1>2. Chain(head, node, n, s)
  BY DEF Shape, Linked, Start
<1>3. LengthOf(head, node) = n /\ Entries(head, node) = [k \in 1..n |-> Entry(node, s[k])]
  BY <1>1, <1>2, EntriesOfChain
<1>. QED
  BY <1>1, <1>3, ListIsEntries, Zenon

\* The same of the list after a step.
LEMMA ListIsChainNext ==
  ASSUME Types', NEW n, NEW s, Shape(n, s)', pc' \notin {"free", "quit"}
  PROVE  /\ n \in 0..MaxAdds /\ Length' = n
         /\ list' = [k \in 1..n |-> Entry(node', s[k])]
<1>1. n \in 0..MaxAdds
  <2>1. Len(node') \in Nat /\ Len(node') <= MaxAdds /\ n \in 0..Len(node')
    BY NodesFacts DEF Types, NodesOK, Shape, Linked
  <2>. QED
    BY <2>1, PackageAssumption
<1>2. Chain(head', node', n, s)
  BY DEF Shape, Linked, Start
<1>3. LengthOf(head', node') = n /\ Entries(head', node') = [k \in 1..n |-> Entry(node', s[k])]
  BY <1>1, <1>2, EntriesOfChain
<1>. QED
  BY <1>1, <1>3, ListIsEntries, Zenon

\* What has been printed when a walk is at its end is the whole list.
LEMMA InvPrinted == IInv => PrintedExact
<1>. SUFFICES ASSUME Types, NEW n, NEW s, Shape(n, s), pc = "printed" PROVE PrintedExact
  BY DEF IInv, PrintedExact
<1>1. Length = n /\ list = [k \in 1..n |-> Entry(node, s[k])] /\ n \in Nat
  BY ListIsChain
<1>2. out \in Seq([pkg : Names, completed : BOOLEAN]) /\ Len(out) = n
      /\ \A i \in 1..n : out[i] = PrintedEntry(s[i])
  BY DEF Types, Shape, Cursors
<1>3. \A k \in 1..n : [pkg |-> list[k].pkg, completed |-> isComplete(list[k].computed)] = out[k]
  <2>1. \A k \in 1..n : list[k].pkg = node[s[k]].pkg /\ list[k].computed = node[s[k]].computed
    BY <1>1 DEF Entry
  <2>. QED
    BY <1>2, <2>1, Zenon DEF PrintedEntry
<1>4. out = [k \in 1..n |-> out[k]]
  BY <1>2
<1>. QED
  BY <1>1, <1>3, <1>4, Zenon DEF PrintedExact

\* When the walk of QUIT is at its end nothing is left of the list.
LEMMA InvFreed == IInv => AllFreed
<1>. SUFFICES ASSUME Types, NEW n, NEW s, Shape(n, s), pc = "quit" PROVE AllFreed
  BY DEF IInv, AllFreed
<1>1. /\ n \in Nat /\ Chain(NULL, node, n, s)
      /\ \A m \in DOMAIN node : node[m].live <=> \E i \in 1..n : s[i] = m
  BY NodesFacts DEF Types, Shape, Linked, Cursors, Start, Linking
<1>2. n = 0
  BY <1>1 DEF Chain
<1>. QED
  BY <1>1, <1>2 DEF AllFreed

\* Every variable of Package keeps its type.
THEOREM TypeCorrect == Spec => []TypeOK
<1>1. IInv => TypeOK
  BY InvTypes DEF IInv
<1>. QED
  BY <1>1, Invariance, PTL

\* No command of the package list reads or frees a node that was freed before.
THEOREM Live == Spec => []NodesLive
<1>. QED
  BY InvLive, Invariance, PTL

\* PACKAGES prints every package once, in order, with what isComplete says of the
\* hashes it was added with (which need not be what the documentation says).
THEOREM Exact == Spec => []PrintedExact
<1>. QED
  BY InvPrinted, Invariance, PTL

\* Nothing is left allocated by QUIT.
THEOREM NoLeak == Spec => []AllFreed
<1>. QED
  BY InvFreed, Invariance, PTL

-----------------------------------------------------------------------------
(***************************************************************************)
(* The refinement of PackageList                                           *)
(***************************************************************************)

\* The refinement of PackageList: the empty list stands for the empty sequence.
LEMMA ListStarts == Init => L!ListInit
<1>. SUFFICES ASSUME Init PROVE list = <<>>
  BY DEF L!ListInit
<1>1. IInv
  BY InitInv
<1>2. PICK n : \E s : Shape(n, s)
  BY <1>1 DEF IInv
<1>. PICK s : Shape(n, s)
  BY <1>2
<1>3. pc = "prompt" /\ n = 0
  BY DEF Init, Shape, Linked
<1>4. list = [k \in 1..0 |-> Entry(node, s[k])]
  BY <1>1, <1>3, ListIsChain DEF IInv
<1>. QED
  BY <1>4

\* A step that keeps the nodes of the list, and what they hold, keeps the list.
LEMMA ListKept ==
  ASSUME Types, Types', NEW n, NEW s, Shape(n, s), KeepsList, ~Quit
  PROVE  UNCHANGED list
<1>1. Shape(n, s)'
  BY ShapeKept
<1>2. CASE pc \in {"free", "quit"}
  <2>1. pc' \in {"free", "quit"}
    BY <1>2 DEF KeepsList, Adding, AddPackage, AddMalformed, AddSingle, Packages, RemPackage,
      AddWalk, AddStep, PrintStep, PrintEnd, Printed, SearchStep, RemoveNone, FreeEnd,
      DataChanges, Done, vars
  <2>. QED
    BY <1>2, <2>1 DEF list
<1>3. CASE pc \notin {"free", "quit"}
  <2>1. pc' \notin {"free", "quit"} /\ (UNCHANGED node \/ \E p \in Names : AddPackage(p))
    BY <1>3 DEF KeepsList, Adding, AddPackage, AddMalformed, AddSingle, Packages, RemPackage,
      AddWalk, AddStep, PrintStep, PrintEnd, Printed, SearchStep, RemoveNone, FreeEnd, Return,
      DataChanges, Done, vars, list_
  <2>2. \A k \in 1..Len(node) : node'[k] = node[k]
    BY <2>1, Appended
  <2>3. /\ list = [k \in 1..n |-> Entry(node, s[k])]
        /\ list' = [k \in 1..n |-> Entry(node', s[k])]
    BY <1>1, <1>3, <2>1, ListIsChain, ListIsChainNext
  <2>4. \A k \in 1..n : s[k] \in 1..Len(node)
    BY NodesFacts DEF Shape, Linked, Types
  <2>5. \A k \in 1..n : Entry(node', s[k]) = Entry(node, s[k])
    BY <2>2, <2>4 DEF Entry
  <2>. QED
    BY <2>3, <2>5
<1>. QED
  BY <1>2, <1>3

\* Linking a node appends an entry.
LEMMA ListAdds ==
  ASSUME Types, Types', NEW n, NEW s, Shape(n, s), AddFirst \/ AddLink
  PROVE  \E p \in Names, found \in Status : L!Add(p, found)
<1>1. PICK l : l = new
  OBVIOUS
<1>. DEFINE t == Extended(n, s, l)
            e == Entry(node, l)
<1>2. Shape(n + 1, t)'
  BY <1>1, ShapeExtended
<1>3. pc \notin {"free", "quit"} /\ pc' \notin {"free", "quit"}
  BY DEF AddFirst, AddLink, Return
<1>4. /\ n \in Nat /\ list = [k \in 1..n |-> Entry(node, s[k])]
      /\ list' = [k \in 1..(n + 1) |-> Entry(node', t[k])]
  BY <1>2, <1>3, ListIsChain, ListIsChainNext
<1>5. \A k \in 1..Len(node) : node'[k].pkg = node[k].pkg /\ node'[k].computed = node[k].computed
  BY LinkSet DEF AddFirst
<1>6. s \in [1..n -> 1..Len(node)] /\ l \in 1..Len(node)
  BY <1>1, NodesFacts DEF Types, Shape, Linked, Linking, AddFirst, AddLink, new
<1>7. \A k \in 1..(n + 1) : Entry(node', t[k]) = IF k = n + 1 THEN e ELSE Entry(node, s[k])
  <2>1. \A k \in 1..Len(node) : Entry(node', k) = Entry(node, k)
    BY <1>5 DEF Entry
  <2>2. \A k \in 1..(n + 1) : t[k] = IF k = n + 1 THEN l ELSE s[k]
    BY DEF Extended
  <2>. QED
    BY <1>4, <1>6, <2>1, <2>2
<1>8. e.pkg \in Names /\ e.computed \in Status /\ e = [pkg |-> e.pkg, computed |-> e.computed]
  BY <1>6, NodesFacts DEF Entry, NodeType, Types
<1>. HIDE DEF e, t
<1>9. list' = Append(list, e)
  BY <1>4, <1>7
<1>. QED
  BY <1>8, <1>9 DEF L!Add

\* A sequence without its j-th element.
LEMMA SeqWithout ==
  ASSUME NEW E, NEW l \in Seq(E), NEW j \in 1..Len(l), NEW r,
         r = [k \in 1..(Len(l) - 1) |-> r[k]],
         \A k \in 1..(Len(l) - 1) : r[k] = IF k < j THEN l[k] ELSE l[k + 1]
  PROVE  r = SubSeq(l, 1, j - 1) \o SubSeq(l, j + 1, Len(l))
<1>. DEFINE a == SubSeq(l, 1, j - 1)
            b == SubSeq(l, j + 1, Len(l))
            n == Len(l)
<1>0. n \in Nat /\ j \in 1..n /\ \A k \in 1..n : l[k] \in E
  OBVIOUS
<1>1. a \in Seq(E) /\ Len(a) = j - 1 /\ \A k \in 1..(j - 1) : a[k] = l[k]
  BY <1>0, SubSeqProperties
<1>2. b \in Seq(E) /\ Len(b) = n - j /\ \A k \in 1..(n - j) : b[k] = l[k + j]
  <2>1. \A k \in (j + 1)..n : l[k] \in E
    BY <1>0
  <2>2. /\ b \in Seq(E) /\ Len(b) = IF j + 1 <= n THEN n - (j + 1) + 1 ELSE 0
        /\ \A k \in 1..(n - (j + 1) + 1) : b[k] = l[(j + 1) + k - 1]
    BY <1>0, <2>1, SubSeqProperties
  <2>. HIDE DEF b
  <2>. QED
    BY <1>0, <2>2
<1>. HIDE DEF a, b, n
<1>3. /\ a \o b \in Seq(E) /\ Len(a \o b) = n - 1
      /\ \A k \in 1..(n - 1) : (a \o b)[k] = IF k <= j - 1 THEN a[k] ELSE b[k - (j - 1)]
  <2>1. /\ a \o b \in Seq(E) /\ Len(a \o b) = Len(a) + Len(b)
        /\ \A k \in 1..(Len(a) + Len(b)) :
             (a \o b)[k] = IF k <= Len(a) THEN a[k] ELSE b[k - Len(a)]
    BY <1>1, <1>2, ConcatProperties
  <2>2. Len(a) + Len(b) = n - 1 /\ Len(a) = j - 1
    BY <1>0, <1>1, <1>2
  <2>. QED
    BY <2>1, <2>2
<1>4. ASSUME NEW k \in 1..(n - 1) PROVE (a \o b)[k] = IF k < j THEN l[k] ELSE l[k + 1]
  <2>1. CASE k < j
    BY <1>0, <1>1, <1>3, <2>1
  <2>2. CASE ~(k < j)
    <3>1. k - (j - 1) \in 1..(n - j) /\ (k - (j - 1)) + j = k + 1
      BY <1>0, <2>2
    <3>. QED
      BY SMTT(30), <1>0, <1>2, <1>3, <2>2, <3>1
  <2>. QED
    BY <2>1, <2>2
<1>5. /\ r = [k \in 1..(n - 1) |-> IF k < j THEN l[k] ELSE l[k + 1]]
      /\ n - 1 \in Nat
  <2>1. /\ r = [k \in 1..(n - 1) |-> r[k]]
        /\ \A k \in 1..(n - 1) : r[k] = IF k < j THEN l[k] ELSE l[k + 1]
    BY Zenon DEF n
  <2>2. r = [k \in 1..(n - 1) |-> IF k < j THEN l[k] ELSE l[k + 1]]
    BY <2>1, Zenon
  <2>. QED
    BY <1>0, <2>2
<1>6. r \in Seq(E)
  <2>1. \A k \in 1..(n - 1) : (IF k < j THEN l[k] ELSE l[k + 1]) \in E
    BY <1>0
  <2>. QED
    BY <1>5, <2>1
<1>7. Len(r) = n - 1 /\ \A k \in 1..(n - 1) : r[k] = IF k < j THEN l[k] ELSE l[k + 1]
  BY <1>5
<1>8. \A k \in 1..Len(r) : r[k] = (a \o b)[k]
  BY <1>4, <1>7
<1>9. r = a \o b
  BY <1>3, <1>6, <1>7, <1>8, SeqEqual
<1>. QED
  BY <1>9 DEF a, b, n

\* REMPACKAGE removes the first entry whose identifier begins with its argument.
LEMMA ListRemoves ==
  ASSUME Types, Types', NEW n, NEW s, Shape(n, s), Remove
  PROVE  \E p \in Names : \E m \in 1..Len(Ident(p)) : L!Remove(SubSeq(Ident(p), 1, m))
<1>1. PICK j \in 1..n :
        /\ current = s[j] /\ prev = IF j = 1 THEN NULL ELSE s[j - 1]
        /\ Starts(arg, Ident(node[s[j]].pkg))
        /\ \A i \in 1..(j - 1) : ~Starts(arg, Ident(node[s[i]].pkg))
  BY SearchPlace
<1>. DEFINE t == Without(n, s, j)
<1>2. Shape(n - 1, t)'
  BY <1>1, ShapeRemoved
<1>3. pc \notin {"free", "quit"} /\ pc' \notin {"free", "quit"}
  BY DEF Remove, Return
<1>4. /\ n \in Nat /\ list = [k \in 1..n |-> Entry(node, s[k])]
      /\ list' = [k \in 1..(n - 1) |-> Entry(node', t[k])]
  BY <1>2, <1>3, ListIsChain, ListIsChainNext
<1>5. /\ s \in [1..n -> 1..Len(node)] /\ \A i, k \in 1..n : s[i] = s[k] => i = k
  BY NodesFacts DEF Types, Shape, Linked
<1>6. \A k \in 1..Len(node) : k # current =>
        node'[k].pkg = node[k].pkg /\ node'[k].computed = node[k].computed
  <2>1. prev # current
    BY <1>1, <1>5 DEF NULL
  <2>. QED
    BY <2>1, Removed
<1>7. \A k \in 1..(n - 1) :
        Entry(node', t[k]) = IF k < j THEN Entry(node, s[k]) ELSE Entry(node, s[k + 1])
  <2>1. \A k \in 1..Len(node) : k # current => Entry(node', k) = Entry(node, k)
    BY <1>6 DEF Entry
  <2>2. \A k \in 1..(n - 1) : t[k] = IF k < j THEN s[k] ELSE s[k + 1]
    BY DEF Without
  <2>3. ASSUME NEW k \in 1..(n - 1), k < j
        PROVE  Entry(node', t[k]) = Entry(node, s[k])
    <3>1. t[k] = s[k] /\ k \in 1..n /\ k # j
      BY <1>4, <2>2, <2>3
    <3>2. s[k] \in 1..Len(node) /\ s[k] # current
      BY <1>1, <1>5, <3>1
    <3>. QED
      BY <2>1, <3>1, <3>2
  <2>4. ASSUME NEW k \in 1..(n - 1), ~(k < j)
        PROVE  Entry(node', t[k]) = Entry(node, s[k + 1])
    <3>1. t[k] = s[k + 1] /\ k + 1 \in 1..n /\ k + 1 # j
      BY <1>4, <2>2, <2>4
    <3>2. s[k + 1] \in 1..Len(node) /\ s[k + 1] # current
      BY <1>1, <1>5, <3>1
    <3>. QED
      BY <2>1, <3>1, <3>2
  <2>. HIDE DEF t
  <2>. QED
    BY <2>3, <2>4
<1>8. PICK p \in Names : \E m \in 1..Len(Ident(p)) : arg = SubSeq(Ident(p), 1, m)
  BY DEF Types, Remove, Arguments
<1>. HIDE DEF t
<1>9. /\ Len(list) = n /\ list \in Seq({Entry(node, i) : i \in 1..Len(node)})
      /\ \A k \in 1..n : list[k] = Entry(node, s[k])
  BY <1>4, <1>5
<1>10. list' = SubSeq(list, 1, j - 1) \o SubSeq(list, j + 1, Len(list))
  <2>1. j \in 1..Len(list) /\ DOMAIN list' = 1..(Len(list) - 1)
    BY <1>4, <1>9
  <2>2. \A k \in 1..(Len(list) - 1) : list'[k] = IF k < j THEN list[k] ELSE list[k + 1]
    BY <1>4, <1>7, <1>9
  <2>3. list' = [k \in 1..(Len(list) - 1) |-> list'[k]]
    BY <1>4, <1>9
  <2>. QED
    BY ZenonT(60), <1>9, <2>1, <2>2, <2>3, SeqWithout
<1>11. \A k \in 1..n : list[k].pkg = node[s[k]].pkg
  BY <1>9 DEF Entry
<1>12. L!Remove(arg)
  <2>1. \A x, y : L!Starts(x, y) <=> Starts(x, y)
    BY DEF L!Starts, Starts
  <2>2. Starts(arg, Ident(list[j].pkg))
    BY <1>1, <1>11, Zenon
  <2>3. ASSUME NEW i \in 1..(j - 1) PROVE ~Starts(arg, Ident(list[i].pkg))
    <3>1. i \in 1..n
      BY <1>4
    <3>. QED
      BY <1>1, <1>11, <3>1, Zenon
  <2>4. j \in 1..Len(list)
    BY <1>9
  <2>. QED
    BY <1>10, <2>1, <2>2, <2>3, <2>4, Zenon DEF L!Remove
<1>. QED
  BY <1>8, <1>12, Zenon

\* Each step is a step of PackageList or leaves its list as it is.
LEMMA ListStep == IInv /\ [Next]_vars /\ IInv' => [L!ListNext]_list
<1>. SUFFICES ASSUME IInv, [Next]_vars, IInv' PROVE [L!ListNext]_list
  OBVIOUS
<1>1. Types /\ Types'
  BY DEF IInv
<1>2. PICK n : \E s : Shape(n, s)
  BY DEF IInv
<1>. PICK s : Shape(n, s)
  BY <1>2
<1>3. CASE Quit
  <2>1. list' = <<>>
    BY <1>3 DEF Quit, list
  <2>. QED
    BY <2>1 DEF L!ListNext, L!Clear
<1>4. CASE KeepsList /\ ~Quit
  BY <1>1, <1>4, ListKept
<1>5. CASE AddFirst \/ AddLink
  BY <1>1, <1>5, ListAdds DEF L!ListNext
<1>6. CASE Remove
  BY <1>1, <1>6, ListRemoves DEF L!ListNext
<1>7. CASE FreeStep
  <2>1. list = <<>> /\ list' = <<>>
    BY <1>7 DEF FreeStep, list
  <2>. QED
    BY <2>1
<1>. QED
  BY <1>3, <1>4, <1>5, <1>6, <1>7 DEF Next, Command, Step, KeepsList

\* package.c implements the sequence of packages that PackageList describes, for
\* any package files, identifiers and bound on the nodes.
THEOREM Implements == Spec => ImplementsList
<1>. QED
  BY ListStarts, ListStep, Invariance, PTL DEF Spec, ImplementsList, L!ListSpec
====
