----------------------------- MODULE TreeProofs -----------------------------
(***************************************************************************)
(* Proofs about MerkleTree and TreeQuery, for packages of any number of    *)
(* chunks and any content, whatever the package's hashes are.              *)
(*                                                                         *)
(* BuildInv says what the tree and the stack of recursiveTree are between  *)
(* two of its steps: the nodes are linked like a tree (ShapeInv), the      *)
(* frames are a path from the root to the node at work (StackInv), a node  *)
(* has its hash once the call on its right child is back (ComputedInv),    *)
(* no node without children that is not a leaf is left behind (DoneInv),   *)
(* the nodes that the frames will still allocate fit the perfect tree      *)
(* (CountInv) and the leaves are all on its last level (LevelInv).  What   *)
(* the traversals do follows from that and from Traversal, which says      *)
(* which nodes are in the queue, which behind it and which still ahead.    *)
(*                                                                         *)
(* ExactInv adds what the nodes hold.  Every node has a place in level     *)
(* order (Placed), what is computed is the Merkle hash of its place        *)
(* (MerkleAt), and levelOrderAddHash visits the places in order (Ordered). *)
(*                                                                         *)
(* AnswerInv adds what the queries have found.  A traversal that visits a  *)
(* set of places with root m (Rooted) has in its queue, in level order,    *)
(* the places not visited yet whose parent was (Frontier, Trail), so what  *)
(* it has reported are the places it looks for up to the last one visited, *)
(* in level order (GoingOn).                                               *)
(***************************************************************************)
EXTENDS TreeQuery, SequenceTheorems, FiniteSetTheorems, WellFoundedInduction, TLAPS

-----------------------------------------------------------------------------
(***************************************************************************)
(* The inductive invariant                                                 *)
(***************************************************************************)

Phases == {"hash", "build", "expect", "built", "fault", "query", "answered", "free", "end"}

\* The symbols a computed hash is made of, and the hashes of the package.
Clean == Content \cup {"(", ")"}
PackageHashes == ToSet(hashes) \cup ToSet(chunks)

NodeType == [parent : Nat, left : Nat, right : Nat, is_leaf : BOOLEAN, position : Nat,
             computed : Seq(Clean) \cup {Garbage}, expected : PackageHashes \cup {Garbage}]

FrameType == [node : Nat, level : Nat, position : Nat, at : {"enter", "left", "right"}]

PackageInv ==
  /\ nchunks \in NChunks /\ nhashes = nchunks - 1
  /\ chunks \in Seq(PackageHashes) /\ hashes \in Seq(PackageHashes)
  /\ data \in Seq(Content) /\ Len(data) = nchunks
  /\ hash \in Seq(Seq(Clean)) /\ (hash = <<>> \/ Len(hash) = nchunks)
  /\ phase \in Phases

Left(n) == tree[n].left
Right(n) == tree[n].right

\* As createNode leaves a node.
Fresh(n) == ~tree[n].is_leaf /\ tree[n].left = NULL /\ tree[n].computed = Garbage

\* A node has two children or none, allocated one after the other and after
\* it, which point back to it; only the root has no parent.
ShapeOf(n) ==
  /\ tree[n].left = NULL <=> tree[n].right = NULL
  /\ tree[n].left # NULL =>
       /\ n < tree[n].left /\ tree[n].right = tree[n].left + 1 /\ tree[n].right <= Len(tree)
       /\ tree[tree[n].left].parent = n /\ tree[tree[n].right].parent = n
       /\ ~tree[n].is_leaf
  /\ n # 1 =>
       /\ tree[n].parent \in 1..(n - 1)
       /\ n = tree[tree[n].parent].left \/ n = tree[tree[n].parent].right

ShapeInv ==
  /\ tree \in Seq(NodeType) /\ Len(tree) >= 1
  /\ tree[1].parent = NULL
  /\ \A n \in 1..Len(tree) : ShapeOf(n)

\* The i-th frame runs on level i, on the child of the node below that the
\* frame below is waiting for; what is left of its node is computed already.
FrameOK(i) ==
  LET f == stack[i] IN
  /\ f.node \in 1..Len(tree) /\ f.level = i /\ f.position < Pow[i - 1]
  /\ f.at = "enter" => i = Len(stack) /\ Fresh(f.node)
  /\ f.at # "enter" => i < depth /\ Left(f.node) # NULL
  /\ f.at = "left" => Fresh(Right(f.node))
  /\ f.at = "right" => tree[Left(f.node)].computed # Garbage
  /\ i < Len(stack) => stack[i + 1].node = IF f.at = "left" THEN Left(f.node) ELSE Right(f.node)
  /\ i = Len(stack) /\ f.at = "left" => tree[Left(f.node)].computed # Garbage
  /\ i = Len(stack) /\ f.at = "right" => tree[Right(f.node)].computed # Garbage

StackInv ==
  /\ stack \in Seq(FrameType) /\ Len(stack) <= depth
  /\ Len(stack) > 0 => stack[1].node = 1
  /\ \A i \in 1..Len(stack) : FrameOK(i)
  /\ phase = "hash" => tree = <<NewNode(NULL)>>
  /\ phase \notin {"build", "fault"} => stack = <<>>

OnStack(n) == \E i \in 1..Len(stack) : stack[i].node = n

\* An inner node is computed exactly when its right child is and is done.
ComputedInv ==
  \A n \in 1..Len(tree) :
    /\ Left(n) # NULL =>
         (tree[n].computed # Garbage <=> tree[Right(n)].computed # Garbage /\ ~OnStack(Right(n)))
    /\ tree[n].is_leaf => tree[n].computed # Garbage
    /\ ~tree[n].is_leaf /\ Left(n) = NULL => tree[n].computed = Garbage

\* Node n is still to be built by a frame.
Waiting(n) == \E i \in 1..Len(stack) :
  \/ stack[i].at = "enter" /\ stack[i].node = n
  \/ stack[i].at = "left" /\ Right(stack[i].node) = n

DoneInv ==
  phase # "hash" => \A n \in 1..Len(tree) : tree[n].is_leaf \/ Left(n) # NULL \/ Waiting(n)

\* The nodes that a frame on level i of d is still to have allocated, not
\* counting those of the frames above it.
PendingOf(d, at, i) ==
  IF at = "enter" THEN Pow[d - i + 1] - 2 ELSE IF at = "left" THEN Pow[d - i] - 2 ELSE 0

\* t[i] is the size of the whole tree less what the first i frames miss.
Counts(t) ==
  /\ t \in [0..Len(stack) -> Int]
  /\ t[0] = Pow[depth] - 1
  /\ \A i \in 1..Len(stack) : t[i] = t[i - 1] - PendingOf(depth, stack[i].at, i)
  /\ \A i \in 0..Len(stack) : t[i] <= Pow[depth] - 1
  /\ t[Len(stack)] = Len(tree)

CountInv == phase # "hash" => \E t : Counts(t)

\* lv[n] is the level of node n.
Levels(lv) ==
  /\ lv \in [1..Len(tree) -> 1..depth]
  /\ lv[1] = 1
  /\ \A n \in 1..Len(tree) :
       /\ Left(n) # NULL => lv[Left(n)] = lv[n] + 1 /\ lv[Right(n)] = lv[n] + 1
       /\ tree[n].is_leaf => lv[n] = depth
  /\ \A i \in 1..Len(stack) : lv[stack[i].node] = i

LevelInv == \E lv : Levels(lv)

\* What holds of the tree and of recursiveTree.
BuildInv ==
  /\ PackageInv /\ ShapeInv /\ StackInv /\ ComputedInv /\ DoneInv /\ CountInv /\ LevelInv

InQueue(q, n) == \E i \in 1..Len(q) : q[i] = n

\* A level order traversal with queue q has visited the nodes of V: a node is
\* visited or queued exactly when its parent is visited, and never both.
Traversal(q, V) ==
  /\ q \in Seq(1..Len(tree)) /\ V \subseteq 1..Len(tree)
  /\ \A i, j \in 1..Len(q) : q[i] = q[j] => i = j
  /\ \A i \in 1..Len(q) : q[i] \notin V
  /\ 1 \in V \/ InQueue(q, 1)
  /\ \A n \in 2..Len(tree) : tree[n].parent \in V <=> n \in V \/ InQueue(q, n)

\* levelOrderAddHash has taken one hash of the package per node visited.
ExpectInv ==
  /\ index \in 0..nhashes /\ index2 \in 0..nchunks
  /\ phase \in {"hash", "build", "fault"} => index = 0 /\ index2 = 0
  /\ phase = "expect" =>
       /\ index < nhashes => index2 = 0
       /\ \E V : /\ Traversal(queue, V) /\ index + index2 = Cardinality(V)
                 /\ \A n \in V : tree[n].expected \in PackageHashes
  /\ phase \in {"built", "query", "answered", "free", "end"} =>
       \A n \in 1..Len(tree) : tree[n].expected \in PackageHashes

\* freeTree is a traversal too.
FreeInv ==
  /\ phase = "free" => Traversal(queue, freed)
  /\ phase = "end" => freed = 1..Len(tree)
  /\ phase \notin {"free", "end"} => freed = {}

\* s[i] is the number n of hashes found and of the leaves that full subtrees
\* below the first i nodes of the queue have: never more than all leaves.
Within(d, lv, q, n, s) ==
  /\ s \in [0..Len(q) -> Int]
  /\ s[0] = n
  /\ \A i \in 1..Len(q) : s[i] = s[i - 1] + Pow[d - lv[q[i]]]
  /\ \A i \in 0..Len(q) : s[i] <= Pow[d - 1]

Queries == {"none", "all_hashes", "chunk_check", "min_hashes", "find", "hashes_of"}

QueryInv ==
  /\ qry \in Seq(PackageHashes) /\ query \in Queries
  /\ queue \in Seq(1..Len(tree))
  /\ phase \in {"hash", "build", "fault", "built", "answered", "end"} => queue = <<>>
  /\ phase \notin {"query", "answered"} => query = "none" /\ qry = <<>>
  /\ phase = "query" => query \in {"chunk_check", "min_hashes", "find", "hashes_of"}
  /\ phase = "query" /\ query = "find" => qry = <<>>
  /\ phase = "query" /\ query # "find" =>
       \A lv : Levels(lv) => \E s : Within(depth, lv, queue, Len(qry), s)
  /\ phase = "answered" =>
       /\ query \in {"all_hashes", "chunk_check", "min_hashes", "find", "hashes_of"}
       /\ query # "all_hashes" => Len(qry) <= Pow[depth - 1]
       /\ query = "all_hashes" => Len(qry) = nhashes + nchunks

\* Everything that holds of the states of the tree and the queries.
AllInv == BuildInv /\ ExpectInv /\ FreeInv /\ QueryInv

-----------------------------------------------------------------------------
(***************************************************************************)
(* Powers of two                                                           *)
(***************************************************************************)

\* Induction over the numbers, by the least counterexample.
LEMMA Induction ==
  ASSUME NEW S \in SUBSET Nat, 0 \in S, \A n \in S : n + 1 \in S
  PROVE  S = Nat
<1>. DEFINE less == {p \in Nat \X Nat : p[1] < p[2]}
            T == Nat \ S
<1>1. IsWellFoundedOn(less, Nat)
  <2>1. less = OpToRel(<, Nat)
    BY DEF OpToRel
  <2>. QED
    BY <2>1, NatLessThanWellFounded
<1>. SUFFICES ASSUME T # {} PROVE FALSE
  OBVIOUS
<1>2. PICK x \in T : \A y \in T : <<y, x>> \notin less
  <2>1. T \subseteq Nat
    OBVIOUS
  <2>. HIDE DEF less, T
  <2>. QED
    BY <1>1, <2>1, WFMin, Zenon
<1>3. x # 0 /\ x - 1 \in T
  OBVIOUS
<1>4. <<x - 1, x>> \in Nat \X Nat /\ <<x - 1, x>>[1] < <<x - 1, x>>[2]
  BY <1>3
<1>5. <<x - 1, x>> \in less
  BY <1>4
<1>. QED
  BY <1>2, <1>3, <1>5

\* A table of 2^0 to 2^n.
Double(f, k) == IF k = 0 THEN 1 ELSE 2 * f[k - 1]
Table(n, f) == f = [k \in 0..n |-> Double(f, k)]

\* There is a table of any length.
LEMMA TableExists == \A n \in Nat : \E f : Table(n, f)
<1>. DEFINE S == {n \in Nat : \E f : Table(n, f)}
<1>1. 0 \in S
  <2>1. Table(0, [k \in 0..0 |-> 1])
    BY DEF Table, Double
  <2>. QED
    BY <2>1
<1>2. ASSUME NEW n \in S PROVE n + 1 \in S
  <2>1. n \in Nat /\ \E f : Table(n, f)
    OBVIOUS
  <2>2. PICK f : Table(n, f)
    BY <2>1
  <2>. DEFINE g == [k \in 0..(n + 1) |-> IF k = n + 1 THEN 2 * f[n] ELSE f[k]]
  <2>3. (\A k \in 0..n : g[k] = f[k]) /\ g[n + 1] = 2 * f[n]
    BY <2>1
  <2>4. \A k \in 0..n : f[k] = Double(f, k)
    BY <2>2, Zenon DEF Table
  <2>6. ASSUME NEW k \in 0..(n + 1) PROVE g[k] = Double(g, k)
    <3>1. CASE k = n + 1
      <4>1. k - 1 = n /\ k # 0 /\ n \in 0..n
        BY <2>1, <3>1
      <4>. HIDE DEF g
      <4>. QED
        BY <2>3, <3>1, <4>1 DEF Double
    <3>2. CASE k \in 0..n
      <4>1. k = 0 \/ k - 1 \in 0..n
        BY <2>1
      <4>. HIDE DEF g
      <4>. QED
        BY <2>3, <2>4, <3>2, <4>1 DEF Double
    <3>. QED
      BY <2>1, <3>1, <3>2
  <2>5. Table(n + 1, g)
    <3>1. g = [k \in 0..(n + 1) |-> g[k]]
      OBVIOUS
    <3>. HIDE DEF g
    <3>. QED
      BY <2>6, <3>1 DEF Table
  <2>. QED
    BY <2>1, <2>5
<1>3. S = Nat
  <2>. HIDE DEF S
  <2>1. S \subseteq Nat
    BY DEF S
  <2>. QED
    BY <1>1, <1>2, <2>1, Induction
<1>. QED
  BY <1>3

\* Two tables agree where both are defined.
LEMMA TableUnique ==
  ASSUME NEW m \in Nat, NEW n \in Nat, NEW f, NEW h, Table(m, f), Table(n, h)
  PROVE  \A k \in Nat : k <= m /\ k <= n => f[k] = h[k]
<1>. DEFINE S == {k \in Nat : k <= m /\ k <= n => f[k] = h[k]}
<1>0. (\A k \in 0..m : f[k] = Double(f, k)) /\ (\A k \in 0..n : h[k] = Double(h, k))
  BY Zenon DEF Table
<1>1. 0 \in S
  <2>1. 0 \in 0..m /\ 0 \in 0..n
    OBVIOUS
  <2>. QED
    BY <1>0, <2>1 DEF Double
<1>2. ASSUME NEW k \in S PROVE k + 1 \in S
  <2>. SUFFICES ASSUME k + 1 <= m, k + 1 <= n PROVE f[k + 1] = h[k + 1]
    OBVIOUS
  <2>1. k \in Nat /\ f[k] = h[k]
    OBVIOUS
  <2>2. k + 1 \in 0..m /\ k + 1 \in 0..n /\ k + 1 # 0 /\ (k + 1) - 1 = k
    BY <2>1
  <2>3. f[k + 1] = Double(f, k + 1) /\ h[k + 1] = Double(h, k + 1)
    BY <1>0, <2>2
  <2>. QED
    BY <2>1, <2>2, <2>3 DEF Double
<1>3. S = Nat
  <2>. HIDE DEF S
  <2>1. S \subseteq Nat
    BY DEF S
  <2>. QED
    BY <1>1, <1>2, <2>1, Induction
<1>. QED
  BY <1>3

\* The recursive function of MerkleTree is the power of two.
LEMMA PowEquation == Pow = [k \in Nat |-> Double(Pow, k)]
<1>. DEFINE tab(n) == CHOOSE f : Table(n, f)
            g == [k \in Nat |-> tab(k)[k]]
<1>1. \A n \in Nat : Table(n, tab(n))
  BY TableExists
<1>2. ASSUME NEW k \in Nat PROVE g[k] = Double(g, k)
  <2>1. g[k] = tab(k)[k]
    OBVIOUS
  <2>2. tab(k)[k] = Double(tab(k), k)
    <3>1. Table(k, tab(k)) /\ k \in 0..k
      BY <1>1
    <3>. HIDE DEF tab
    <3>. QED
      BY <3>1, Zenon DEF Table
  <2>3. CASE k = 0
    BY <2>1, <2>2, <2>3 DEF Double
  <2>4. CASE k # 0
    <3>1. k - 1 \in Nat /\ k - 1 <= k /\ k - 1 <= k - 1
      BY <2>4
    <3>2. Table(k, tab(k)) /\ Table(k - 1, tab(k - 1))
      BY <1>1, <3>1
    <3>3. g[k - 1] = tab(k - 1)[k - 1]
      BY <3>1
    <3>. HIDE DEF g, tab
    <3>4. tab(k)[k - 1] = tab(k - 1)[k - 1]
      BY <3>1, <3>2, TableUnique
    <3>. QED
      BY <2>1, <2>2, <2>4, <3>3, <3>4 DEF Double
  <2>. QED
    BY <2>3, <2>4
<1>3. g = [k \in Nat |-> Double(g, k)]
  <2>1. g = [k \in Nat |-> g[k]]
    OBVIOUS
  <2>. HIDE DEF g
  <2>. QED
    BY <1>2, <2>1
<1>4. Pow = CHOOSE f : f = [k \in Nat |-> Double(f, k)]
  BY DEF Pow, Double
<1>. HIDE DEF g
<1>. QED
  BY <1>3, <1>4, Zenon

\* The recursive definition of Pow is one, and its values are positive.
LEMMA PowIs ==
  /\ Pow[0] = 1
  /\ \A k \in Nat : Pow[k] \in Nat \ {0} /\ Pow[k + 1] = 2 * Pow[k]
<1>1. \A k \in Nat : Pow[k] = Double(Pow, k)
  BY PowEquation, Zenon
<1>2. Pow[0] = 1
  BY <1>1 DEF Double
<1>3. ASSUME NEW k \in Nat PROVE Pow[k + 1] = 2 * Pow[k]
  <2>1. k + 1 \in Nat /\ k + 1 # 0 /\ (k + 1) - 1 = k
    OBVIOUS
  <2>2. Pow[k + 1] = Double(Pow, k + 1)
    BY <1>1, <2>1
  <2>. QED
    BY <2>1, <2>2 DEF Double
<1>. DEFINE S == {k \in Nat : Pow[k] \in Nat \ {0}}
<1>4. 0 \in S
  BY <1>2
<1>5. ASSUME NEW k \in S PROVE k + 1 \in S
  <2>1. k \in Nat /\ Pow[k] \in Nat \ {0} /\ Pow[k + 1] = 2 * Pow[k]
    BY <1>3
  <2>. QED
    BY <2>1
<1>6. S = Nat
  <2>. HIDE DEF S
  <2>1. S \subseteq Nat
    BY DEF S
  <2>. QED
    BY <1>4, <1>5, <2>1, Induction
<1>7. \A k \in Nat : Pow[k] \in Nat \ {0}
  BY <1>6
<1>. QED
  BY <1>2, <1>3, <1>7

\* There is a logarithm.
LEMMA LogExists ==
  \A n \in Nat \ {0} : \E k \in 0..n : Pow[k] <= n /\ n < Pow[k + 1]
<1>. DEFINE Q(n) == \E k \in 0..n : Pow[k] <= n /\ n < Pow[k + 1]
            S == {n \in Nat : Q(n + 1)}
<1>1. 0 \in S
  <2>1. Pow[0] = 1 /\ Pow[0 + 1] = 2 * Pow[0]
    BY PowIs
  <2>2. 0 \in 0..(0 + 1) /\ Pow[0] <= 0 + 1 /\ 0 + 1 < Pow[0 + 1]
    BY <2>1
  <2>. QED
    BY <2>2
<1>2. ASSUME NEW n \in S PROVE n + 1 \in S
  <2>1. n \in Nat /\ Q(n + 1)
    OBVIOUS
  <2>2. PICK k \in 0..(n + 1) : Pow[k] <= n + 1 /\ n + 1 < Pow[k + 1]
    BY <2>1
  <2>3. k \in Nat /\ k + 1 \in Nat
    BY <2>1
  <2>4. /\ Pow[k] \in Nat \ {0} /\ Pow[k + 1] \in Nat \ {0}
        /\ Pow[k + 1] = 2 * Pow[k] /\ Pow[(k + 1) + 1] = 2 * Pow[k + 1]
    BY <2>3, PowIs
  <2>5. CASE n + 2 < Pow[k + 1]
    <3>1. k \in 0..((n + 1) + 1) /\ Pow[k] <= (n + 1) + 1 /\ (n + 1) + 1 < Pow[k + 1]
      BY <2>1, <2>2, <2>4, <2>5
    <3>. QED
      BY <2>1, <3>1
  <2>6. CASE n + 2 >= Pow[k + 1]
    <3>1. /\ k + 1 \in 0..((n + 1) + 1) /\ Pow[k + 1] <= (n + 1) + 1
          /\ (n + 1) + 1 < Pow[(k + 1) + 1]
      BY <2>1, <2>2, <2>4, <2>6
    <3>. QED
      BY <2>1, <3>1
  <2>. QED
    BY <2>1, <2>4, <2>5, <2>6
<1>3. S = Nat
  <2>. HIDE DEF S
  <2>1. S \subseteq Nat
    BY DEF S
  <2>. QED
    BY <1>1, <1>2, <2>1, Induction
<1>4. ASSUME NEW n \in Nat \ {0} PROVE Q(n)
  <2>1. n - 1 \in Nat /\ (n - 1) + 1 = n
    OBVIOUS
  <2>2. n - 1 \in S
    BY <1>3, <2>1
  <2>3. Q((n - 1) + 1)
    BY <2>2
  <2>. QED
    BY <2>1, <2>3
<1>. QED
  BY <1>4

\* The depth is that of the largest perfect tree with no more leaves than there
\* are chunks.
LEMMA DepthIs ==
  ASSUME nchunks \in Nat \ {0}
  PROVE  depth \in Nat \ {0} /\ Pow[depth - 1] <= nchunks /\ nchunks < Pow[depth]
<1>. DEFINE l == Log2(nchunks)
<1>1. l \in 0..nchunks /\ Pow[l] <= nchunks /\ nchunks < Pow[l + 1]
  BY LogExists DEF Log2
<1>2. depth = l + 1
  BY DEF depth
<1>. HIDE DEF l, nchunks
<1>3. l \in Nat /\ depth \in Nat \ {0} /\ depth - 1 = l
  BY <1>1, <1>2
<1>. QED
  BY <1>1, <1>2, <1>3

-----------------------------------------------------------------------------
(***************************************************************************)
(* Sequences                                                               *)
(***************************************************************************)

\* What Front and Last are.
LEMMA FrontSeq ==
  ASSUME NEW X, NEW s \in Seq(X), s # <<>>
  PROVE  /\ Len(s) \in Nat \ {0} /\ Front(s) \in Seq(X) /\ Len(Front(s)) = Len(s) - 1
         /\ \A i \in 1..(Len(s) - 1) : Front(s)[i] = s[i]
         /\ Last(s) = s[Len(s)] /\ s[Len(s)] \in X
<1>1. Len(s) \in Nat \ {0} /\ s \in [1..Len(s) -> X]
  BY EmptySeq, LenProperties
<1>. DEFINE n == Len(s) - 1
<1>2. n \in Int /\ 1 \in Int /\ \A i \in 1..n : s[i] \in X
  BY <1>1
<1>3. /\ SubSeq(s, 1, n) \in Seq(X) /\ Len(SubSeq(s, 1, n)) = (IF 1 <= n THEN n - 1 + 1 ELSE 0)
      /\ \A i \in 1..(n - 1 + 1) : SubSeq(s, 1, n)[i] = s[1 + i - 1]
  <2>. HIDE DEF n
  <2>. QED
    BY <1>2, SubSeqProperties
<1>4. Front(s) = SubSeq(s, 1, n) /\ Last(s) = s[Len(s)]
  BY DEF Front, Last
<1>5. Len(Front(s)) = Len(s) - 1
  BY <1>1, <1>3, <1>4
<1>6. ASSUME NEW i \in 1..(Len(s) - 1) PROVE Front(s)[i] = s[i]
  <2>1. i \in 1..(n - 1 + 1) /\ 1 + i - 1 = i
    BY <1>1
  <2>. QED
    BY <1>3, <1>4, <2>1
<1>. QED
  BY <1>1, <1>3, <1>4, <1>5, <1>6

\* The facts about a sequence s whose last element becomes a and that is then
\* extended with b.
Grown(X, s, a, b, t) ==
  /\ t \in Seq(X) /\ Len(t) = Len(s) + 1
  /\ \A i \in 1..(Len(s) - 1) : t[i] = s[i]
  /\ t[Len(s)] = a /\ t[Len(s) + 1] = b

\* A sequence of one element ...
LEMMA OneSeq ==
  ASSUME NEW X, NEW b \in X
  PROVE  <<b>> \in Seq(X) /\ Len(<<b>>) = 1 /\ <<b>>[1] = b
OBVIOUS

\* ... and one of two.
LEMMA TwoSeq ==
  ASSUME NEW X, NEW a \in X, NEW b \in X
  PROVE  <<a, b>> \in Seq(X) /\ Len(<<a, b>>) = 2 /\ <<a, b>>[1] = a /\ <<a, b>>[2] = b
OBVIOUS

\* DescendAgain and Descend grow the stack like that ...
LEMMA GrownSeq ==
  ASSUME NEW X, NEW s \in Seq(X), s # <<>>, NEW a \in X, NEW b \in X
  PROVE  Grown(X, s, a, b, Append(Front(s), a) \o <<b>>)
<1>. DEFINE u == Append(Front(s), a)
<1>1. /\ Len(s) \in Nat \ {0} /\ Front(s) \in Seq(X) /\ Len(Front(s)) = Len(s) - 1
      /\ \A i \in 1..(Len(s) - 1) : Front(s)[i] = s[i]
  BY FrontSeq
<1>2. /\ u \in Seq(X) /\ Len(u) = Len(Front(s)) + 1
      /\ \A i \in 1..Len(Front(s)) : u[i] = Front(s)[i]
      /\ u[Len(Front(s)) + 1] = a
  BY <1>1, AppendProperties
<1>. HIDE DEF u
<1>3. <<b>> \in Seq(X) /\ Len(<<b>>) = 1 /\ <<b>>[1] = b
  BY OneSeq
<1>4. /\ u \o <<b>> \in Seq(X) /\ Len(u \o <<b>>) = Len(u) + Len(<<b>>)
      /\ \A i \in 1..(Len(u) + Len(<<b>>)) :
           (u \o <<b>>)[i] = IF i <= Len(u) THEN u[i] ELSE <<b>>[i - Len(u)]
  BY <1>2, <1>3, ConcatProperties
<1>5. PICK n : n = Len(s)
  OBVIOUS
<1>6. n \in Nat \ {0} /\ Len(u) = n /\ Len(u) + Len(<<b>>) = n + 1
  BY <1>1, <1>2, <1>3, <1>5
<1>7. (u \o <<b>>)[n + 1] = b
  <2>1. n + 1 \in 1..(n + 1) /\ ~(n + 1 <= n) /\ (n + 1) - n = 1
    BY <1>6
  <2>. QED
    BY <1>3, <1>4, <1>6, <2>1
<1>8. \A i \in 1..n : (u \o <<b>>)[i] = u[i]
  BY <1>4, <1>6
<1>9. u[n] = a /\ \A i \in 1..(n - 1) : u[i] = s[i]
  BY <1>1, <1>2, <1>5, <1>6
<1>10. \A i \in 1..(n - 1) : (u \o <<b>>)[i] = s[i]
  BY <1>6, <1>8, <1>9
<1>11. (u \o <<b>>)[n] = a
  BY <1>6, <1>8, <1>9
<1>12. Append(Front(s), a) \o <<b>> = u \o <<b>>
  BY DEF u
<1>. QED
  BY <1>4, <1>5, <1>6, <1>7, <1>10, <1>11, <1>12 DEF Grown

\* Two more elements at the end.
Extended(X, s, a, b, t) ==
  /\ t \in Seq(X) /\ Len(t) = Len(s) + 2
  /\ \A i \in 1..Len(s) : t[i] = s[i]
  /\ t[Len(s) + 1] = a /\ t[Len(s) + 2] = b

\* ... and Descend the tree like that.
LEMMA ExtendedSeq ==
  ASSUME NEW X, NEW s \in Seq(X), NEW a \in X, NEW b \in X
  PROVE  Extended(X, s, a, b, s \o <<a, b>>)
<1>1. PICK n : n = Len(s)
  OBVIOUS
<1>2. n \in Nat
  BY <1>1, LenProperties
<1>3. <<a, b>> \in Seq(X) /\ Len(<<a, b>>) = 2 /\ <<a, b>>[1] = a /\ <<a, b>>[2] = b
  BY TwoSeq
<1>4. PICK w : w = <<a, b>>
  OBVIOUS
<1>5. w \in Seq(X) /\ Len(w) = 2 /\ w[1] = a /\ w[2] = b
  BY <1>3, <1>4
<1>6. /\ s \o w \in Seq(X) /\ Len(s \o w) = Len(s) + Len(w)
      /\ \A i \in 1..(Len(s) + Len(w)) : (s \o w)[i] = IF i <= Len(s) THEN s[i] ELSE w[i - Len(s)]
  BY <1>5, ConcatProperties
<1>7. \A i \in 1..(n + 2) : (s \o w)[i] = IF i <= n THEN s[i] ELSE w[i - n]
  BY <1>1, <1>5, <1>6
<1>8. (s \o w)[n + 1] = a
  <2>1. n + 1 \in 1..(n + 2) /\ ~(n + 1 <= n) /\ (n + 1) - n = 1
    BY <1>2
  <2>. QED
    BY <1>5, <1>7, <2>1
<1>9. (s \o w)[n + 2] = b
  <2>1. n + 2 \in 1..(n + 2) /\ ~(n + 2 <= n) /\ (n + 2) - n = 2
    BY <1>2
  <2>. QED
    BY <1>5, <1>7, <2>1
<1>10. ASSUME NEW i \in 1..n PROVE (s \o w)[i] = s[i]
  <2>1. i \in 1..(n + 2) /\ i <= n
    BY <1>2
  <2>. QED
    BY <1>7, <2>1
<1>11. Len(s \o w) = Len(s) + 2
  BY <1>5, <1>6
<1>12. s \o w = s \o <<a, b>>
  BY <1>4, Zenon
<1>. QED
  BY <1>1, <1>6, <1>8, <1>9, <1>10, <1>11, <1>12, Zenon DEF Extended

\* The queue of a traversal after a pop: without its head, with w behind.
Popped(X, s, w, t) ==
  /\ t \in Seq(X) /\ Len(t) = (Len(s) - 1) + Len(w)
  /\ \A i \in 1..(Len(s) - 1) : t[i] = s[i + 1]
  /\ \A i \in 1..Len(w) : t[(Len(s) - 1) + i] = w[i]

\* Each step of a traversal does that to its queue.
LEMMA PoppedSeq ==
  ASSUME NEW X, NEW s \in Seq(X), s # <<>>, NEW w \in Seq(X)
  PROVE  Popped(X, s, w, Tail(s) \o w) /\ Len(s) \in Nat \ {0} /\ Head(s) = s[1] /\ s[1] \in X
<1>1. PICK n : n = Len(s)
  OBVIOUS
<1>2. n \in Nat \ {0} /\ Len(w) \in Nat
  BY <1>1, EmptySeq, LenProperties
<1>3. Tail(s) \in Seq(X) /\ Len(Tail(s)) = n - 1 /\ \A i \in 1..(n - 1) : Tail(s)[i] = s[i + 1]
  BY <1>1, HeadTailProperties
<1>4. PICK u : u = Tail(s)
  OBVIOUS
<1>5. u \in Seq(X) /\ Len(u) = n - 1 /\ \A i \in 1..(n - 1) : u[i] = s[i + 1]
  BY <1>3, <1>4
<1>6. /\ u \o w \in Seq(X) /\ Len(u \o w) = Len(u) + Len(w)
      /\ \A i \in 1..(Len(u) + Len(w)) : (u \o w)[i] = IF i <= Len(u) THEN u[i] ELSE w[i - Len(u)]
  BY <1>5, ConcatProperties
<1>7. \A i \in 1..((n - 1) + Len(w)) : (u \o w)[i] = IF i <= n - 1 THEN u[i] ELSE w[i - (n - 1)]
  BY <1>5, <1>6
<1>8. \A i \in 1..(n - 1) : (u \o w)[i] = s[i + 1]
  <2>1. ASSUME NEW i \in 1..(n - 1) PROVE (u \o w)[i] = s[i + 1]
    <3>1. i \in 1..((n - 1) + Len(w)) /\ i <= n - 1
      BY <1>2
    <3>. QED
      BY <1>5, <1>7, <3>1
  <2>. QED
    BY <2>1
<1>9. \A i \in 1..Len(w) : (u \o w)[(n - 1) + i] = w[i]
  <2>1. ASSUME NEW i \in 1..Len(w) PROVE (u \o w)[(n - 1) + i] = w[i]
    <3>1. (n - 1) + i \in 1..((n - 1) + Len(w)) /\ ~((n - 1) + i <= n - 1) /\ ((n - 1) + i) - (n - 1) = i
      BY <1>2
    <3>. QED
      BY <1>7, <3>1
  <2>. QED
    BY <2>1
<1>10. Head(s) = s[1] /\ s[1] \in X
  <2>1. 1 \in 1..Len(s)
    BY <1>1, <1>2
  <2>2. s[1] \in X
    BY <2>1, ElementOfSeq
  <2>. QED
    BY <2>2
<1>. QED
  BY <1>1, <1>2, <1>4, <1>5, <1>6, <1>8, <1>9, <1>10 DEF Popped

\* A field of a node is written.
LEMMA OneWritten ==
  ASSUME NEW X, NEW s \in Seq(X), NEW i \in 1..Len(s), NEW e \in X
  PROVE  /\ [s EXCEPT ![i] = e] \in Seq(X) /\ Len([s EXCEPT ![i] = e]) = Len(s)
         /\ [s EXCEPT ![i] = e][i] = e
         /\ \A j \in 1..Len(s) : j # i => [s EXCEPT ![i] = e][j] = s[j]
  BY ExceptSeq

-----------------------------------------------------------------------------
(***************************************************************************)
(* The package, the nodes and the frames                                   *)
(***************************************************************************)

\* The numbers of a package.
LEMMA PackageIs ==
  ASSUME PackageInv
  PROVE  /\ nchunks \in Nat \ {0} /\ nhashes \in Nat /\ nhashes = nchunks - 1
         /\ depth \in Nat \ {0} /\ Pow[depth - 1] <= nchunks /\ nchunks < Pow[depth]
<1>1. nchunks \in Nat \ {0} /\ nhashes = nchunks - 1
  BY NChunksAssumption DEF PackageInv
<1>2. depth \in Nat \ {0} /\ Pow[depth - 1] <= nchunks /\ nchunks < Pow[depth]
  BY <1>1, DepthIs
<1>. HIDE DEF nchunks, nhashes, depth
<1>. QED
  BY <1>1, <1>2

\* A step that leaves the package alone leaves what is derived from it alone.
LEMMA SamePackage ==
  ASSUME UNCHANGED package
  PROVE  /\ nchunks' = nchunks /\ nhashes' = nhashes /\ depth' = depth
         /\ PackageHashes' = PackageHashes /\ NodeType' = NodeType
<1>1. chunks' = chunks /\ hashes' = hashes
  BY DEF package
<1>2. nchunks' = nchunks /\ nhashes' = nhashes
  BY <1>1 DEF nchunks, nhashes
<1>3. PackageHashes' = PackageHashes
  BY <1>1 DEF PackageHashes
<1>. QED
  BY <1>2, <1>3 DEF depth, NodeType

\* The fields of a node.
LEMMA NodeIs ==
  ASSUME ShapeInv, NEW m \in 1..Len(tree)
  PROVE  /\ tree[m] \in NodeType /\ tree[m].parent \in Nat /\ tree[m].left \in Nat
         /\ tree[m].right \in Nat /\ tree[m].is_leaf \in BOOLEAN
         /\ tree[m].position \in Nat /\ tree[m].computed \in Seq(Clean) \cup {Garbage}
         /\ tree[m].expected \in PackageHashes \cup {Garbage}
<1>1. tree[m] \in NodeType
  BY ElementOfSeq DEF ShapeInv
<1>. HIDE DEF Clean, Garbage
<1>. QED
  BY <1>1 DEF NodeType

\* createNode.
LEMMA NewNodeIs ==
  ASSUME NEW n \in Nat
  PROVE  /\ NewNode(n) \in NodeType /\ NewNode(n).parent = n /\ NewNode(n).left = NULL
         /\ NewNode(n).right = NULL /\ ~NewNode(n).is_leaf /\ NewNode(n).computed = Garbage
  BY DEF NewNode, NodeType, NULL

\* There is a root.
LEMMA TreeLen ==
  ASSUME ShapeInv
  PROVE  Len(tree) \in Nat \ {0} /\ 1 \in 1..Len(tree) /\ DOMAIN tree = 1..Len(tree)
  BY LenProperties DEF ShapeInv

\* The frame on top.
LEMMA TopIs ==
  ASSUME StackInv, stack # <<>>
  PROVE  /\ Len(stack) \in Nat \ {0} /\ top = stack[Len(stack)] /\ top \in FrameType
         /\ top = Frame(top.node, top.level, top.position, top.at)
         /\ top.node \in 1..Len(tree) /\ top.level = Len(stack) /\ top.position \in Nat
         /\ FrameOK(Len(stack)) /\ Len(stack) <= depth
<1>1. Len(stack) \in Nat \ {0} /\ top = stack[Len(stack)] /\ top \in FrameType
  BY FrontSeq DEF StackInv, top
<1>2. Len(stack) \in 1..Len(stack)
  BY <1>1
<1>3. FrameOK(Len(stack)) /\ Len(stack) <= depth
  BY <1>2, Zenon DEF StackInv
<1>. HIDE DEF top
<1>4. top.node \in 1..Len(tree) /\ top.level = Len(stack)
  BY <1>1, <1>3, Zenon DEF FrameOK
<1>5. top.position \in Nat /\ top = Frame(top.node, top.level, top.position, top.at)
  BY <1>1 DEF FrameType, Frame
<1>. QED
  BY <1>1, <1>3, <1>4, <1>5

\* The fields of a frame.
LEMMA FrameIs ==
  ASSUME NEW n, NEW l, NEW p, NEW a
  PROVE  /\ Frame(n, l, p, a).node = n /\ Frame(n, l, p, a).level = l
         /\ Frame(n, l, p, a).position = p /\ Frame(n, l, p, a).at = a
  BY DEF Frame

\* A frame that is called with a node, a level and a position.
LEMMA FrameTyped ==
  ASSUME NEW n \in Nat, NEW l \in Nat, NEW p \in Nat, NEW a \in {"enter", "left", "right"}
  PROVE  Frame(n, l, p, a) \in FrameType
  BY DEF Frame, FrameType

\* Writing two fields of a node.
LEMMA TwoFields ==
  ASSUME NEW D, NEW X, NEW f \in [D -> X], NEW n \in D, NEW a, NEW b
  PROVE  [f EXCEPT ![n].left = a, ![n].right = b]
           = [f EXCEPT ![n] = [f[n] EXCEPT !.left = a, !.right = b]]
  OBVIOUS

\* A node that is given children.
LEMMA LinkedNode ==
  ASSUME NEW m \in NodeType, NEW a \in Nat, NEW b \in Nat
  PROVE  [m EXCEPT !.left = a, !.right = b] \in NodeType
<1>. DEFINE x == Seq(Clean) \cup {Garbage}
            y == PackageHashes \cup {Garbage}
<1>1. NodeType = [parent : Nat, left : Nat, right : Nat, is_leaf : BOOLEAN, position : Nat,
                  computed : x, expected : y]
  BY DEF NodeType
<1>. HIDE DEF x, y
<1>. QED
  BY <1>1

\* Descend, node by node and frame by frame.
Descended(n, S, L, p) ==
  /\ tree' \in Seq(NodeType) /\ Len(tree') = L + 2
  /\ \A m \in 1..L : m # n => tree'[m] = tree[m]
  /\ tree'[n] = [tree[n] EXCEPT !.left = L + 1, !.right = L + 2]
  /\ tree'[L + 1] = NewNode(n) /\ tree'[L + 2] = NewNode(n)
  /\ Grown(FrameType, stack, Frame(n, S, p, "left"), Frame(L + 1, S + 1, p * 2, "enter"), stack')

\* What Descend does to the tree and to the stack.
LEMMA DescendIs ==
  ASSUME PackageInv, ShapeInv, StackInv, Descend
  PROVE  /\ Descended(top.node, Len(stack), Len(tree), top.position)
         /\ stack # <<>> /\ top.at = "enter" /\ Len(stack) < depth
<1>1. /\ stack # <<>> /\ top.at = "enter" /\ top.level # depth
      /\ tree' = [tree EXCEPT ![top.node].left = Len(tree) + 1, ![top.node].right = Len(tree) + 1 + 1]
                   \o <<NewNode(top.node), NewNode(top.node)>>
      /\ stack' = Append(Front(stack), [top EXCEPT !.at = "left"])
                   \o <<Frame(Len(tree) + 1, top.level + 1, top.position * 2, "enter")>>
  BY DEF Descend, Building, AtLeaf
<1>2. /\ Len(stack) \in Nat \ {0} /\ top = stack[Len(stack)] /\ top \in FrameType
      /\ top = Frame(top.node, top.level, top.position, top.at)
      /\ top.node \in 1..Len(tree) /\ top.level = Len(stack) /\ top.position \in Nat
      /\ Len(stack) <= depth
  BY <1>1, TopIs
<1>3. PICK n, L, S, p : n = top.node /\ L = Len(tree) /\ S = Len(stack) /\ p = top.position
  OBVIOUS
<1>4. L \in Nat \ {0} /\ n \in 1..L /\ S \in Nat \ {0} /\ p \in Nat /\ tree \in Seq(NodeType)
  BY <1>2, <1>3, TreeLen DEF ShapeInv
<1>5. depth \in Nat
  BY PackageIs
<1>6. Len(stack) < depth
  BY <1>1, <1>2, <1>5
<1>7. Grown(FrameType, stack, Frame(n, S, p, "left"), Frame(L + 1, S + 1, p * 2, "enter"), stack')
  <2>1. [top EXCEPT !.at = "left"] = Frame(n, S, p, "left")
    <3>1. top = Frame(n, S, p, top.at)
      BY <1>2, <1>3
    <3>. HIDE DEF top
    <3>. QED
      BY <3>1 DEF Frame
  <2>2. Frame(n, S, p, "left") \in FrameType /\ Frame(L + 1, S + 1, p * 2, "enter") \in FrameType
    BY <1>4, FrameTyped
  <2>3. stack' = Append(Front(stack), Frame(n, S, p, "left")) \o <<Frame(L + 1, S + 1, p * 2, "enter")>>
    BY <1>1, <1>2, <1>3, <2>1
  <2>4. stack \in Seq(FrameType)
    BY DEF StackInv
  <2>. QED
    BY ONLY <1>1, <2>2, <2>3, <2>4, GrownSeq
<1>. DEFINE e == [tree[n] EXCEPT !.left = L + 1, !.right = L + 2]
            t == [tree EXCEPT ![n] = e]
<1>8. tree[n] \in NodeType
  BY <1>3, <1>4, NodeIs
<1>9. e \in NodeType
  <2>1. L + 1 \in Nat /\ L + 2 \in Nat
    BY <1>4
  <2>. QED
    BY ONLY <1>8, <2>1, LinkedNode DEF e
<1>10. [tree EXCEPT ![n].left = L + 1, ![n].right = L + 1 + 1] = t
  <2>1. L + 1 + 1 = L + 2
    BY <1>4
  <2>2. tree \in [1..L -> NodeType]
    BY <1>3, <1>4, LenProperties
  <2>3. [tree EXCEPT ![n].left = L + 1, ![n].right = L + 2] = t
    BY ONLY <1>4, <2>2, TwoFields DEF t, e
  <2>. HIDE DEF t
  <2>. QED
    BY <2>1, <2>3
<1>. HIDE DEF e
<1>11. /\ t \in Seq(NodeType) /\ Len(t) = L /\ t[n] = e
       /\ \A m \in 1..L : m # n => t[m] = tree[m]
  BY <1>3, <1>4, <1>9, OneWritten
<1>. HIDE DEF t
<1>12. NewNode(n) \in NodeType
  BY <1>4, NewNodeIs
<1>13. tree' = t \o <<NewNode(n), NewNode(n)>>
  BY <1>1, <1>3, <1>10
<1>14. Extended(NodeType, t, NewNode(n), NewNode(n), tree')
  BY ONLY <1>11, <1>12, <1>13, ExtendedSeq
<1>15. /\ tree' \in Seq(NodeType) /\ Len(tree') = L + 2 /\ \A m \in 1..L : tree'[m] = t[m]
       /\ tree'[L + 1] = NewNode(n) /\ tree'[L + 2] = NewNode(n)
  BY <1>11, <1>14 DEF Extended
<1>16. Descended(n, S, L, p)
  <2>1. tree'[n] = [tree[n] EXCEPT !.left = L + 1, !.right = L + 2]
    BY <1>4, <1>11, <1>15 DEF e
  <2>2. \A m \in 1..L : m # n => tree'[m] = tree[m]
    BY <1>11, <1>15
  <2>. QED
    BY <1>7, <1>15, <2>1, <2>2, Zenon DEF Descended
<1>. QED
  BY <1>1, <1>3, <1>6, <1>16

-----------------------------------------------------------------------------
(***************************************************************************)
(* Hashes, and the return to a parent                                      *)
(***************************************************************************)

\* What malloc left is not made of clean symbols.
LEMMA GarbageApart == ASSUME NEW c \in Seq(Clean) PROVE c # Garbage
<1>. SUFFICES ASSUME c = Garbage PROVE FALSE
  OBVIOUS
<1>1. Len(c) = 1 /\ c[1] = "garbage"
  BY DEF Garbage
<1>2. 1 \in 1..Len(c)
  BY <1>1
<1>3. c[1] \in Clean
  BY <1>2, ElementOfSeq
<1>. QED
  BY <1>1, <1>3, ContentAssumption DEF Clean

\* Neither is the hash of two clean hashes.
LEMMA HashPairIs ==
  ASSUME NEW l \in Seq(Clean), NEW r \in Seq(Clean)
  PROVE  HashPair(l, r) \in Seq(Clean) /\ HashPair(l, r) # Garbage
<1>1. "(" \in Clean /\ ")" \in Clean
  BY DEF Clean
<1>2. <<"(">> \in Seq(Clean) /\ <<")">> \in Seq(Clean)
  BY <1>1, OneSeq
<1>3. <<"(">> \o l \in Seq(Clean)
  BY <1>2, ConcatProperties
<1>4. (<<"(">> \o l) \o r \in Seq(Clean)
  BY <1>3, ConcatProperties
<1>5. ((<<"(">> \o l) \o r) \o <<")">> \in Seq(Clean)
  BY <1>2, <1>4, ConcatProperties
<1>6. HashPair(l, r) \in Seq(Clean)
  BY <1>5 DEF HashPair
<1>. QED
  BY <1>6, GarbageApart

\* Writing the computed hash of a node.
LEMMA ComputedNode ==
  ASSUME NEW m \in NodeType, NEW c \in Seq(Clean)
  PROVE  /\ [m EXCEPT !.computed = c] \in NodeType
         /\ LET e == [m EXCEPT !.computed = c]
            IN  /\ e.parent = m.parent /\ e.left = m.left /\ e.right = m.right
                /\ e.is_leaf = m.is_leaf /\ e.expected = m.expected /\ e.computed = c
<1>. DEFINE x == Seq(Clean) \cup {Garbage}
            y == PackageHashes \cup {Garbage}
<1>1. NodeType = [parent : Nat, left : Nat, right : Nat, is_leaf : BOOLEAN, position : Nat,
                  computed : x, expected : y]
  BY DEF NodeType
<1>2. c \in x
  OBVIOUS
<1>. HIDE DEF x, y
<1>. QED
  BY <1>1, <1>2

\* The nodes of a tree with the links of tree.
SameLinks(t) ==
  /\ t \in Seq(NodeType) /\ Len(t) = Len(tree)
  /\ \A m \in 1..Len(tree) :
       /\ t[m].parent = tree[m].parent /\ t[m].left = tree[m].left /\ t[m].right = tree[m].right
       /\ t[m].expected = tree[m].expected

\* What a call does that returns from node n.
Finish(t, n) == IF IsRightChild(t, n) THEN WithParentHash(t, n) ELSE t

\* The parent of the node on top is below it on the stack.
LEMMA ParentBelow ==
  ASSUME ShapeInv, StackInv, stack # <<>>, tree[top.node].parent # NULL
  PROVE  /\ Len(stack) - 1 \in 1..Len(stack) /\ Len(stack) > 1
         /\ stack[Len(stack) - 1].node = tree[top.node].parent
         /\ FrameOK(Len(stack) - 1)
         /\ top.node = IF stack[Len(stack) - 1].at = "left"
                       THEN Left(stack[Len(stack) - 1].node) ELSE Right(stack[Len(stack) - 1].node)
         /\ stack[Len(stack) - 1].at # "enter"
<1>1. /\ Len(stack) \in Nat \ {0} /\ top = stack[Len(stack)]
      /\ top.node \in 1..Len(tree)
  BY TopIs
<1>2. Len(stack) # 1
  BY <1>1 DEF StackInv, ShapeInv
<1>3. PICK k : k = Len(stack) - 1
  OBVIOUS
<1>4. k \in 1..Len(stack) /\ Len(stack) > 1 /\ k < Len(stack) /\ k + 1 = Len(stack) /\ k # Len(stack)
  BY <1>1, <1>2, <1>3
<1>5. FrameOK(k)
  BY <1>4, Zenon DEF StackInv
<1>6. /\ stack[k].node \in 1..Len(tree) /\ stack[k].at # "enter" /\ Left(stack[k].node) # NULL
      /\ stack[k + 1].node = IF stack[k].at = "left"
                         THEN Left(stack[k].node) ELSE Right(stack[k].node)
  BY <1>4, <1>5 DEF FrameOK
<1>7. ShapeOf(stack[k].node)
  BY <1>6 DEF ShapeInv
<1>8. /\ tree[Left(stack[k].node)].parent = stack[k].node
      /\ tree[Right(stack[k].node)].parent = stack[k].node
  BY <1>6, <1>7 DEF ShapeOf, Left, Right
<1>. HIDE DEF top
<1>9. top.node = IF stack[k].at = "left" THEN Left(stack[k].node) ELSE Right(stack[k].node)
  BY <1>1, <1>4, <1>6
<1>10. stack[k].node = tree[top.node].parent
  BY <1>8, <1>9
<1>. QED
  BY <1>3, <1>4, <1>5, <1>6, <1>9, <1>10

\* Returning from the node on top: its hash is computed, and its parent's if it
\* is the right child.
LEMMA FinishIs ==
  ASSUME ShapeInv, StackInv, stack # <<>>, NEW t, SameLinks(t),
         t[top.node].computed # Garbage,
         \A m \in 1..Len(tree) : m # top.node => t[m].computed = tree[m].computed
  PROVE  LET u == Finish(t, top.node)
             n == top.node
         IN  /\ SameLinks(u)
             /\ \A m \in 1..Len(tree) : u[m].is_leaf = t[m].is_leaf
             /\ \A m \in 1..Len(tree) :
                  ~(m = tree[n].parent /\ Right(m) = n) => u[m].computed = t[m].computed
             /\ \A m \in 1..Len(tree) :
                  m = tree[n].parent /\ Right(m) = n => u[m].computed # Garbage
<1>1. PICK n, L : n = top.node /\ L = Len(tree)
  OBVIOUS
<1>2. n \in 1..L /\ L \in Nat
  BY <1>1, TopIs, TreeLen
<1>3. IsRightChild(t, n) <=> tree[n].parent # NULL /\ t[tree[n].parent].right = n
  BY <1>1, <1>2 DEF IsRightChild, SameLinks
<1>4. CASE tree[n].parent # NULL /\ Right(tree[n].parent) = n
  <2>1. PICK p : p = tree[n].parent
    OBVIOUS
  <2>2. PICK k : k = Len(stack) - 1
    OBVIOUS
  <2>3. /\ stack[k].node = p /\ FrameOK(k) /\ stack[k].at # "enter"
        /\ n = IF stack[k].at = "left" THEN Left(p) ELSE Right(p)
    <3>1. tree[top.node].parent # NULL
      BY <1>1, <1>4
    <3>. HIDE DEF top, FrameOK, Left, Right
    <3>. QED
      BY <1>1, <2>1, <2>2, <3>1, ParentBelow
  <2>4. p \in 1..L /\ Left(p) # NULL
    BY <1>1, <2>3 DEF FrameOK
  <2>5. ShapeOf(p)
    BY <1>1, <2>4 DEF ShapeInv
  <2>6. /\ Left(p) \in 1..L /\ Right(p) \in 1..L /\ Right(p) = Left(p) + 1 /\ p < Left(p)
    <3>1. Left(p) \in Nat /\ Right(p) \in Nat
      BY <1>1, <2>4, NodeIs DEF Left, Right
    <3>2. p < Left(p) /\ Right(p) = Left(p) + 1 /\ Right(p) <= L
      BY <1>1, <2>4, <2>5 DEF ShapeOf, Left, Right
    <3>. QED
      BY <1>2, <2>4, <3>1, <3>2
  <2>7. n = Right(p) /\ stack[k].at \in {"left", "right"}
    <3>1. stack[k] \in FrameType
      <4>1. k \in 1..Len(stack)
        BY <1>1, <1>4, <2>2, ParentBelow
      <4>. QED
        BY <4>1, ElementOfSeq DEF StackInv
    <3>. QED
      BY <1>4, <2>1, <2>3, <3>1 DEF FrameType
  <2>8. stack[k].at = "right"
    BY <2>3, <2>6, <2>7
  <2>9. tree[Left(p)].computed # Garbage
    BY <2>3, <2>8 DEF FrameOK
  <2>10. Left(p) # n /\ p # n /\ p \in Nat /\ p # NULL
    BY <2>4, <2>6, <2>7, <1>2 DEF NULL
  <2>11. \A m \in 1..L : t[m] \in NodeType
    BY <1>1, ElementOfSeq DEF SameLinks
  <2>12. t[Left(p)].computed # Garbage /\ t[n].computed # Garbage
    BY <1>1, <2>6, <2>9, <2>10
  <2>13. t[Left(p)].computed \in Seq(Clean) /\ t[n].computed \in Seq(Clean)
    <3>. DEFINE X == Seq(Clean)
    <3>1. \A m \in 1..L : t[m].computed \in X \cup {Garbage}
      <4>. HIDE DEF X, Garbage
      <4>1. NodeType = [parent : Nat, left : Nat, right : Nat, is_leaf : BOOLEAN, position : Nat,
                        computed : X \cup {Garbage}, expected : PackageHashes \cup {Garbage}]
        BY DEF NodeType, X
      <4>. HIDE DEF PackageHashes
      <4>. QED
        BY <2>11, <4>1
    <3>. HIDE DEF X
    <3>2. t[Left(p)].computed \in X /\ t[n].computed \in X
      BY <1>2, <2>6, <2>12, <3>1
    <3>. QED
      BY <3>2 DEF X
  <2>14. PICK c : c = HashPair(t[Left(p)].computed, t[n].computed)
    OBVIOUS
  <2>15. c \in Seq(Clean) /\ c # Garbage
    BY <2>13, <2>14, HashPairIs
  <2>16. Finish(t, n) = [t EXCEPT ![p].computed = c]
    <3>1. IsRightChild(t, n)
      BY <1>1, <1>3, <1>4, <2>1, <2>4 DEF SameLinks, Right
    <3>2. t[n].parent = p /\ t[p].left = Left(p) /\ t[p].right = n
      BY <1>1, <1>2, <2>1, <2>4, <2>7 DEF SameLinks, Left, Right
    <3>3. WithParentHash(t, n) = [t EXCEPT ![p].computed = c]
      BY <2>14, <3>2 DEF WithParentHash
    <3>. QED
      BY <3>1, <3>3 DEF Finish
  <2>17. PICK e : e = [t[p] EXCEPT !.computed = c]
    OBVIOUS
  <2>18. /\ e \in NodeType /\ e.parent = t[p].parent /\ e.left = t[p].left /\ e.right = t[p].right
         /\ e.is_leaf = t[p].is_leaf /\ e.expected = t[p].expected /\ e.computed = c
    <3>1. t[p] \in NodeType
      BY <2>4, <2>11
    <3>. QED
      BY ONLY <2>15, <2>17, <3>1, ComputedNode
  <2>19. PICK u : u = [t EXCEPT ![p] = e]
    OBVIOUS
  <2>20. u \in Seq(NodeType) /\ Len(u) = L /\ u[p] = e /\ \A m \in 1..L : m # p => u[m] = t[m]
    <3>1. t \in Seq(NodeType) /\ Len(t) = L
      BY <1>1 DEF SameLinks
    <3>. QED
      BY ONLY <2>4, <2>18, <2>19, <3>1, OneWritten
  <2>21. Finish(t, n) = u
    <3>1. [t EXCEPT ![p].computed = c] = [t EXCEPT ![p] = [t[p] EXCEPT !.computed = c]]
      OBVIOUS
    <3>. QED
      BY <2>16, <2>17, <2>19, <3>1
  <2>22. SameLinks(u)
    BY SMTT(30), <1>1, <2>4, <2>18, <2>20, Zenon DEF SameLinks
  <2>23. \A m \in 1..L : u[m].is_leaf = t[m].is_leaf
    BY <2>18, <2>20
  <2>24. \A m \in 1..L : m # p => u[m].computed = t[m].computed
    BY <2>20
  <2>25. u[p].computed # Garbage
    BY <2>15, <2>18, <2>20
  <2>26. \A m \in 1..L : m = tree[n].parent /\ Right(m) = n <=> m = p
    BY <1>4, <2>1, <2>7
  <2>. HIDE DEF top
  <2>. QED
    BY <1>1, <2>21, <2>22, <2>23, <2>24, <2>25, <2>26, Zenon
<1>5. CASE ~(tree[n].parent # NULL /\ Right(tree[n].parent) = n)
  <2>1. Finish(t, n) = t
    <3>1. CASE tree[n].parent = NULL
      BY <1>3, <3>1 DEF Finish
    <3>2. CASE tree[n].parent # NULL
      <4>1. tree[n].parent \in 1..L
        BY <1>1, <3>2, ParentBelow, Zenon DEF FrameOK
      <4>2. t[tree[n].parent].right = Right(tree[n].parent)
        BY <1>1, <4>1 DEF SameLinks, Right
      <4>. QED
        BY <1>3, <1>5, <3>2, <4>2 DEF Finish
    <3>. QED
      BY <3>1, <3>2
  <2>2. \A m \in 1..L : ~(m = tree[n].parent /\ Right(m) = n)
    BY <1>2, <1>5 DEF NULL
  <2>. HIDE DEF top
  <2>. QED
    BY <1>1, <2>1, <2>2, Zenon
<1>. QED
  BY <1>4, <1>5

\* Return and Leaf, node by node: the call on node n at the top of a stack of S
\* frames returns.
Returned(n, S, L) ==
  /\ SameLinks(tree')
  /\ \A m \in 1..L : m # n => tree'[m].is_leaf = tree[m].is_leaf
  /\ \A m \in 1..L :
       m # n /\ ~(m = tree[n].parent /\ Right(m) = n) => tree'[m].computed = tree[m].computed
  /\ \A m \in 1..L : m = tree[n].parent /\ Right(m) = n => tree'[m].computed # Garbage
  /\ tree'[n].computed # Garbage
  /\ tree'[n].is_leaf \/ Left(n) # NULL
  /\ tree'[n].is_leaf => Left(n) = NULL /\ S = depth
  /\ Left(n) # NULL => tree[Right(n)].computed # Garbage
  /\ stack' \in Seq(FrameType) /\ Len(stack') = S - 1 /\ \A i \in 1..(S - 1) : stack'[i] = stack[i]

ReturnedTop ==
  /\ stack # <<>> /\ top.at \in {"enter", "right"} /\ (top.at = "enter" => Len(stack) = depth)
  /\ Returned(top.node, Len(stack), Len(tree))

\* A node is on the stack once, at its level.
LEMMA OnceOnStack ==
  ASSUME LevelInv, NEW i \in 1..Len(stack), NEW j \in 1..Len(stack),
         stack[i].node = stack[j].node
  PROVE  i = j
  BY DEF LevelInv, Levels

\* Return is such a return ...
LEMMA ReturnIs ==
  ASSUME PackageInv, ShapeInv, StackInv, ComputedInv, LevelInv, Return
  PROVE  ReturnedTop
<1>1. /\ stack # <<>> /\ top.at = "right" /\ stack' = Front(stack)
      /\ tree' = IF IsRightChild(tree, top.node) THEN WithParentHash(tree, top.node) ELSE tree
  BY DEF Return, Building
<1>2. /\ Len(stack) \in Nat \ {0} /\ top = stack[Len(stack)]
      /\ top.node \in 1..Len(tree) /\ FrameOK(Len(stack))
  BY <1>1, TopIs
<1>3. PICK n, L, S : n = top.node /\ L = Len(tree) /\ S = Len(stack)
  OBVIOUS
<1>4. /\ Left(n) # NULL /\ tree[Right(n)].computed # Garbage /\ stack[S].at = "right"
      /\ S < depth /\ stack[S].node = n
  BY <1>1, <1>2, <1>3 DEF FrameOK
<1>5. ShapeOf(n)
  BY <1>2, <1>3 DEF ShapeInv
<1>6. Right(n) \in 1..L /\ Right(n) # n /\ tree[Right(n)].parent = n /\ ~tree[n].is_leaf
  <2>1. Left(n) \in Nat /\ Right(n) \in Nat /\ n \in 1..L /\ L \in Nat
    BY <1>2, <1>3, NodeIs, TreeLen DEF Left, Right
  <2>2. n < Left(n) /\ Right(n) = Left(n) + 1 /\ Right(n) <= L
    BY <1>3, <1>4, <1>5 DEF ShapeOf, Left, Right
  <2>3. tree[Right(n)].parent = n /\ ~tree[n].is_leaf
    BY <1>4, <1>5 DEF ShapeOf, Left, Right
  <2>. QED
    BY <2>1, <2>2, <2>3
\* Its right child is not on the stack, so its own hash is computed.
<1>7. ~OnStack(Right(n))
  <2>. SUFFICES ASSUME NEW i \in 1..Len(stack), stack[i].node = Right(n) PROVE FALSE
    BY DEF OnStack
  <2>0. PICK lv : Levels(lv)
    BY DEF LevelInv
  <2>1. lv[Right(n)] = i /\ lv[n] = S
    BY <1>2, <1>3, <1>4, <2>0 DEF Levels
  <2>2. lv[Right(n)] = lv[n] + 1
    BY <1>2, <1>3, <1>4, <2>0 DEF Levels
  <2>. QED
    BY <1>2, <1>3, <2>1, <2>2
<1>8. tree[n].computed # Garbage
  BY <1>2, <1>3, <1>4, <1>7 DEF ComputedInv
<1>9. SameLinks(tree)
  BY DEF SameLinks, ShapeInv
<1>10. tree' = Finish(tree, n)
  BY <1>1, <1>3 DEF Finish
<1>11. /\ SameLinks(tree')
       /\ \A m \in 1..L : tree'[m].is_leaf = tree[m].is_leaf
       /\ \A m \in 1..L :
            ~(m = tree[n].parent /\ Right(m) = n) => tree'[m].computed = tree[m].computed
       /\ \A m \in 1..L : m = tree[n].parent /\ Right(m) = n => tree'[m].computed # Garbage
  <2>. HIDE DEF top
  <2>. QED
    BY <1>1, <1>3, <1>8, <1>9, <1>10, FinishIs
<1>12. /\ stack' \in Seq(FrameType) /\ Len(stack') = S - 1
       /\ \A i \in 1..(S - 1) : stack'[i] = stack[i]
  BY <1>1, <1>3, FrontSeq DEF StackInv
<1>13. tree'[n].computed # Garbage
  <2>1. ~(n = tree[n].parent /\ Right(n) = n)
    BY <1>6
  <2>2. n \in 1..L
    BY <1>2, <1>3
  <2>. QED
    BY <1>8, <1>11, <2>1, <2>2
<1>14. ~tree'[n].is_leaf
  BY <1>2, <1>3, <1>6, <1>11
<1>15. Returned(n, S, L)
  BY <1>4, <1>11, <1>12, <1>13, <1>14, Zenon DEF Returned
<1>. HIDE DEF top
<1>. QED
  BY <1>1, <1>3, <1>15 DEF ReturnedTop

\* What a leaf of the tree becomes.
LeafOf(m, p, c) == [m EXCEPT !.is_leaf = TRUE, !.position = p, !.computed = c]

\* What Leaf does to its node.
LEMMA LeafNode ==
  ASSUME NEW m \in NodeType, NEW p \in Nat, NEW c \in Seq(Clean)
  PROVE  LET e == LeafOf(m, p, c)
         IN  /\ e \in NodeType
             /\ e.parent = m.parent /\ e.left = m.left /\ e.right = m.right
             /\ e.is_leaf /\ e.expected = m.expected /\ e.computed = c
<1>. DEFINE x == Seq(Clean) \cup {Garbage}
            y == PackageHashes \cup {Garbage}
<1>1. NodeType = [parent : Nat, left : Nat, right : Nat, is_leaf : BOOLEAN, position : Nat,
                  computed : x, expected : y]
  BY DEF NodeType
<1>2. c \in x
  OBVIOUS
<1>. HIDE DEF x, y
<1>. QED
  BY <1>1, <1>2 DEF LeafOf

\* Three assignments to one node are one.
LEMMA ThreeFields ==
  ASSUME NEW D, NEW X, NEW f \in [D -> X], NEW n \in D, NEW a, NEW b, NEW c
  PROVE  [f EXCEPT ![n].is_leaf = a, ![n].position = b, ![n].computed = c]
           = [f EXCEPT ![n] = [f[n] EXCEPT !.is_leaf = a, !.position = b, !.computed = c]]
  OBVIOUS

\* ... and so is Leaf.
LEMMA LeafIs ==
  ASSUME PackageInv, ShapeInv, StackInv, LevelInv, Leaf
  PROVE  ReturnedTop
<1>. DEFINE t == [tree EXCEPT ![top.node].is_leaf = TRUE, ![top.node].position = top.position,
                              ![top.node].computed = hash[top.position + 1]]
<1>1. /\ stack # <<>> /\ top.at = "enter" /\ top.level = depth /\ stack' = Front(stack)
      /\ top.position < Len(hash)
      /\ tree' = Finish(t, top.node)
  BY DEF Leaf, Building, AtLeaf, Finish
<1>. HIDE DEF t
<1>2. /\ Len(stack) \in Nat \ {0} /\ top = stack[Len(stack)] /\ top.position \in Nat
      /\ top.node \in 1..Len(tree) /\ FrameOK(Len(stack)) /\ top.level = Len(stack)
  BY <1>1, TopIs
<1>3. PICK n, L, S, p, c :
        n = top.node /\ L = Len(tree) /\ S = Len(stack) /\ p = top.position /\ c = hash[p + 1]
  OBVIOUS
<1>4. Left(n) = NULL /\ S = depth
  BY <1>1, <1>2, <1>3 DEF FrameOK, Fresh, Left
<1>5. c \in Seq(Clean)
  <2>1. hash \in Seq(Seq(Clean))
    BY DEF PackageInv
  <2>2. Len(hash) \in Nat
    BY <2>1, LenProperties
  <2>3. p + 1 \in 1..Len(hash)
    <3>1. p \in Nat /\ p < Len(hash)
      BY Zenon, <1>1, <1>2, <1>3
    <3>. QED
      BY ONLY <2>2, <3>1
  <2>. QED
    BY <1>3, <2>1, <2>3, ElementOfSeq
<1>6. PICK e : e = LeafOf(tree[n], p, c)
  OBVIOUS
<1>7. tree[n] \in NodeType /\ p \in Nat
  BY <1>2, <1>3, NodeIs
<1>8. /\ e \in NodeType
      /\ e.parent = tree[n].parent /\ e.left = tree[n].left /\ e.right = tree[n].right
      /\ e.is_leaf /\ e.expected = tree[n].expected /\ e.computed = c
  BY ONLY <1>5, <1>6, <1>7, LeafNode
<1>9. tree \in Seq(NodeType) /\ n \in 1..L
  BY <1>2, <1>3 DEF ShapeInv
<1>10. t = [tree EXCEPT ![n] = e]
  <2>1. tree \in [1..L -> NodeType]
    BY <1>3, <1>9, LenProperties
  <2>2. t = [tree EXCEPT ![n].is_leaf = TRUE, ![n].position = p, ![n].computed = c]
    BY <1>3 DEF t
  <2>. QED
    BY ONLY ZenonT(60), <1>6, <1>9, <2>1, <2>2, ThreeFields DEF LeafOf
<1>. HIDE DEF t
<1>11. t \in Seq(NodeType) /\ Len(t) = L /\ t[n] = e /\ \A m \in 1..L : m # n => t[m] = tree[m]
  BY ONLY <1>3, <1>8, <1>9, <1>10, OneWritten
<1>12. SameLinks(t)
  BY <1>3, <1>8, <1>11, Zenon DEF SameLinks
<1>13. t[n].computed # Garbage
  BY <1>5, <1>8, <1>11, GarbageApart
<1>14. /\ SameLinks(tree')
       /\ \A m \in 1..L : tree'[m].is_leaf = t[m].is_leaf
       /\ \A m \in 1..L :
            ~(m = tree[n].parent /\ Right(m) = n) => tree'[m].computed = t[m].computed
       /\ \A m \in 1..L : m = tree[n].parent /\ Right(m) = n => tree'[m].computed # Garbage
  <2>1. \A m \in 1..L : m # n => t[m].computed = tree[m].computed
    BY <1>11
  <2>. HIDE DEF top
  <2>. QED
    BY <1>1, <1>3, <1>12, <1>13, <2>1, FinishIs
<1>15. /\ stack' \in Seq(FrameType) /\ Len(stack') = S - 1
       /\ \A i \in 1..(S - 1) : stack'[i] = stack[i]
  BY <1>1, <1>3, FrontSeq DEF StackInv
<1>16. tree'[n].computed # Garbage
  BY <1>9, <1>13, <1>14
<1>17. tree'[n].is_leaf
  BY <1>8, <1>9, <1>11, <1>14
<1>18. Returned(n, S, L)
  <2>1. \A m \in 1..L : m # n => tree'[m].is_leaf = tree[m].is_leaf
    BY <1>11, <1>14
  <2>2. \A m \in 1..L :
          m # n /\ ~(m = tree[n].parent /\ Right(m) = n) => tree'[m].computed = tree[m].computed
    BY <1>11, <1>14
  <2>. QED
    BY <1>4, <1>14, <1>15, <1>16, <1>17, <2>1, <2>2, Zenon DEF Returned
<1>. HIDE DEF top
<1>. QED
  BY <1>1, <1>3, <1>4, <1>18 DEF ReturnedTop

\* DescendAgain, frame by frame.
Turned(n, S, p) ==
  /\ tree' = tree
  /\ Grown(FrameType, stack, Frame(n, S, p, "right"),
           Frame(Right(n), S + 1, p * 2 + 1, "enter"), stack')

\* What DescendAgain does to the stack.
LEMMA DescendAgainIs ==
  ASSUME PackageInv, ShapeInv, StackInv, DescendAgain
  PROVE  stack # <<>> /\ top.at = "left" /\ Turned(top.node, Len(stack), top.position)
<1>1. /\ stack # <<>> /\ top.at = "left" /\ tree' = tree
      /\ stack' = Append(Front(stack), [top EXCEPT !.at = "right"])
                   \o <<Frame(tree[top.node].right, top.level + 1, top.position * 2 + 1, "enter")>>
  BY DEF DescendAgain, Building
<1>2. /\ Len(stack) \in Nat \ {0}
      /\ top = Frame(top.node, top.level, top.position, top.at)
      /\ top.node \in 1..Len(tree) /\ top.level = Len(stack) /\ top.position \in Nat
  BY <1>1, TopIs
<1>3. PICK n, S, p : n = top.node /\ S = Len(stack) /\ p = top.position
  OBVIOUS
<1>4. Right(n) \in Nat /\ n \in Nat /\ S \in Nat /\ p \in Nat
  BY <1>2, <1>3, NodeIs DEF Right
<1>5. [top EXCEPT !.at = "right"] = Frame(n, S, p, "right")
  <2>1. top = Frame(n, S, p, top.at)
    BY <1>2, <1>3
  <2>. HIDE DEF top
  <2>. QED
    BY <2>1 DEF Frame
<1>6. /\ Frame(n, S, p, "right") \in FrameType
      /\ Frame(Right(n), S + 1, p * 2 + 1, "enter") \in FrameType
  BY <1>4, FrameTyped
<1>7. stack' = Append(Front(stack), Frame(n, S, p, "right"))
                \o <<Frame(Right(n), S + 1, p * 2 + 1, "enter")>>
  BY <1>1, <1>2, <1>3, <1>5 DEF Right
<1>8. stack \in Seq(FrameType)
  BY DEF StackInv
<1>9. Grown(FrameType, stack, Frame(n, S, p, "right"),
            Frame(Right(n), S + 1, p * 2 + 1, "enter"), stack')
  BY ONLY <1>1, <1>6, <1>7, <1>8, GrownSeq
<1>. HIDE DEF top
<1>. QED
  BY <1>1, <1>3, <1>9 DEF Turned

-----------------------------------------------------------------------------
(***************************************************************************)
(* A call returns: Return and Leaf                                         *)
(***************************************************************************)

\* A step of recursiveTree.
BuildStep == phase = "build" /\ phase' = "build" /\ UNCHANGED package

\* The call on the top of the stack returns ...
LEMMA ReturnedShape ==
  ASSUME BuildInv, BuildStep, ReturnedTop
  PROVE  ShapeInv'
<1>1. PICK n, S, L : n = top.node /\ S = Len(stack) /\ L = Len(tree)
  OBVIOUS
<1>2. Returned(n, S, L)
  BY <1>1 DEF ReturnedTop
<1>3. /\ tree' \in Seq(NodeType) /\ Len(tree') = L
      /\ \A m \in 1..L : /\ tree'[m].parent = tree[m].parent
                         /\ tree'[m].left = tree[m].left /\ tree'[m].right = tree[m].right
      /\ \A m \in 1..L : m # n => tree'[m].is_leaf = tree[m].is_leaf
      /\ tree'[n].is_leaf => tree[n].left = NULL
  BY <1>1, <1>2 DEF Returned, SameLinks, Left
<1>4. L \in Nat \ {0} /\ tree[1].parent = NULL /\ NodeType' = NodeType
  BY <1>1, TreeLen, SamePackage DEF BuildInv, BuildStep, ShapeInv
<1>5. ASSUME NEW m \in 1..L PROVE ShapeOf(m)'
  <2>1. ShapeOf(m)
    BY <1>1 DEF BuildInv, ShapeInv
  <2>2. tree[m].left # NULL => tree[m].left \in 1..L /\ tree[m].right \in 1..L
    <3>1. m \in 1..Len(tree) /\ ShapeInv
      BY <1>1 DEF BuildInv
    <3>2. tree[m].left \in Nat /\ tree[m].right \in Nat
      BY <3>1, NodeIs
    <3>. QED
      BY <1>1, <1>4, <2>1, <3>2 DEF ShapeOf
  <2>3. m # 1 => tree[m].parent \in 1..L
    BY <1>4, <2>1 DEF ShapeOf
  <2>4. tree[m].left # NULL => ~tree'[m].is_leaf
    BY <1>3, <2>1 DEF ShapeOf
  <2>5. tree'[m].left = NULL <=> tree'[m].right = NULL
    BY <1>3, <2>1 DEF ShapeOf
  <2>6. tree'[m].left # NULL =>
          /\ m < tree'[m].left /\ tree'[m].right = tree'[m].left + 1 /\ tree'[m].right <= Len(tree')
          /\ tree'[tree'[m].left].parent = m /\ tree'[tree'[m].right].parent = m
    <3>. SUFFICES ASSUME tree'[m].left # NULL
                  PROVE  /\ m < tree'[m].left /\ tree'[m].right = tree'[m].left + 1
                         /\ tree'[m].right <= Len(tree')
                         /\ tree'[tree'[m].left].parent = m /\ tree'[tree'[m].right].parent = m
      OBVIOUS
    <3>1. tree'[m].left = tree[m].left /\ tree'[m].right = tree[m].right /\ tree[m].left # NULL
      BY <1>3
    <3>2. /\ m < tree[m].left /\ tree[m].right = tree[m].left + 1 /\ tree[m].right <= L
          /\ tree[tree[m].left].parent = m /\ tree[tree[m].right].parent = m
      BY <1>1, <2>1, <3>1 DEF ShapeOf
    <3>3. tree'[tree[m].left].parent = m /\ tree'[tree[m].right].parent = m
      BY <1>3, <2>2, <3>1, <3>2
    <3>. QED
      BY <1>3, <3>1, <3>2, <3>3
  <2>7. m # 1 => /\ tree'[m].parent \in 1..(m - 1)
                 /\ m = tree'[tree'[m].parent].left \/ m = tree'[tree'[m].parent].right
    BY <1>3, <2>1, <2>3 DEF ShapeOf
  <2>8. tree'[m].left # NULL => ~tree'[m].is_leaf
    BY <1>3, <2>4
  <2>. QED
    BY <2>5, <2>6, <2>7, <2>8, Zenon DEF ShapeOf
<1>6. tree'[1].parent = NULL
  BY <1>3, <1>4
<1>. QED
  BY <1>3, <1>4, <1>5, <1>6 DEF ShapeInv

\* The levels of a node, of its children and of the nodes on the stack.
LEMMA LevelsApart ==
  ASSUME ShapeInv, StackInv, LevelInv, NEW i \in 1..Len(stack), Left(stack[i].node) # NULL,
         NEW j \in 1..Len(stack),
         stack[j].node = Left(stack[i].node) \/ stack[j].node = Right(stack[i].node)
  PROVE  j = i + 1
<1>1. PICK lv : Levels(lv)
  BY DEF LevelInv
<1>2. stack[i].node \in 1..Len(tree)
  BY DEF StackInv, FrameOK
<1>3. lv[stack[i].node] = i /\ lv[stack[j].node] = j
  BY <1>1 DEF Levels
<1>4. lv[Left(stack[i].node)] = i + 1 /\ lv[Right(stack[i].node)] = i + 1
  BY <1>1, <1>2, <1>3 DEF Levels
<1>. QED
  BY <1>3, <1>4

\* The children of a node.
LEMMA ChildrenAre ==
  ASSUME ShapeInv, NEW n \in 1..Len(tree), Left(n) # NULL
  PROVE  /\ Left(n) \in 1..Len(tree) /\ Right(n) \in 1..Len(tree) /\ Right(n) = Left(n) + 1
         /\ n < Left(n) /\ Left(n) # Right(n) /\ n # Left(n) /\ n # Right(n)
         /\ tree[Left(n)].parent = n /\ tree[Right(n)].parent = n /\ ~tree[n].is_leaf
         /\ Left(n) # 1 /\ Right(n) # 1 /\ Right(n) # NULL
<1>1. Left(n) \in Nat /\ Right(n) \in Nat /\ Len(tree) \in Nat
  BY NodeIs, TreeLen DEF Left, Right
<1>2. ShapeOf(n)
  BY DEF ShapeInv
<1>3. n < Left(n) /\ Right(n) = Left(n) + 1 /\ Right(n) <= Len(tree) /\ ~tree[n].is_leaf
  BY <1>2 DEF ShapeOf, Left, Right
<1>4. tree[Left(n)].parent = n /\ tree[Right(n)].parent = n
  BY <1>2 DEF ShapeOf, Left, Right
<1>. QED
  BY <1>1, <1>3, <1>4 DEF NULL

\* A hash that is computed stays computed.
LEMMA ReturnedKeeps ==
  ASSUME BuildInv, BuildStep, ReturnedTop
  PROVE  /\ Len(tree') = Len(tree)
         /\ \A m \in 1..Len(tree) : tree[m].computed # Garbage => tree'[m].computed # Garbage
         /\ \A m \in 1..Len(tree) :
              tree'[m].left = tree[m].left /\ tree'[m].right = tree[m].right
  BY DEF ReturnedTop, Returned, SameLinks

\* The frame below the one that returns has got what it was waiting for.
LEMMA ReturnedStack ==
  ASSUME BuildInv, BuildStep, ReturnedTop
  PROVE  StackInv'
<1>1. PICK n, S, L : n = top.node /\ S = Len(stack) /\ L = Len(tree)
  OBVIOUS
<1>2. /\ Returned(n, S, L) /\ stack # <<>>
      /\ PackageInv /\ ShapeInv /\ StackInv /\ ComputedInv /\ LevelInv
  BY <1>1 DEF ReturnedTop, BuildInv
<1>3. /\ S \in Nat \ {0} /\ n \in 1..L /\ n = stack[S].node /\ S <= depth
  BY <1>1, <1>2, TopIs
<1>4. /\ stack' \in Seq(FrameType) /\ Len(stack') = S - 1
      /\ \A i \in 1..(S - 1) : stack'[i] = stack[i]
  BY <1>2 DEF Returned
<1>5. /\ Len(tree') = L
      /\ \A m \in 1..L : tree[m].computed # Garbage => tree'[m].computed # Garbage
      /\ \A m \in 1..L : Left(m)' = Left(m) /\ Right(m)' = Right(m)
      /\ tree'[n].computed # Garbage
  BY <1>1, <1>2, ReturnedKeeps DEF Left, Right, Returned
<1>6. depth' = depth /\ phase' = "build" /\ depth \in Nat
  BY <1>2, SamePackage, PackageIs DEF BuildStep
<1>7. ASSUME NEW i \in 1..(S - 1) PROVE FrameOK(i)'
  <2>1. i \in 1..Len(stack) /\ i < S /\ i + 1 \in 1..Len(stack)
    BY <1>1, <1>3
  <2>2. FrameOK(i)
    BY <1>2, <2>1, Zenon DEF StackInv
  <2>3. PICK f : f = stack[i]
    OBVIOUS
  <2>4. stack'[i] = f
    BY <1>4, <2>3
  <2>5. /\ f.node \in 1..L /\ f.level = i /\ f.position < Pow[i - 1]
        /\ f.at # "enter" /\ i < depth /\ Left(f.node) # NULL
        /\ f.at = "left" => Fresh(Right(f.node))
        /\ f.at = "right" => tree[Left(f.node)].computed # Garbage
        /\ stack[i + 1].node = IF f.at = "left" THEN Left(f.node) ELSE Right(f.node)
    BY <1>1, <2>1, <2>2, <2>3 DEF FrameOK
  <2>6. /\ Left(f.node) \in 1..L /\ Right(f.node) \in 1..L /\ Left(f.node) # Right(f.node)
    BY <1>1, <1>2, <2>5, ChildrenAre
  <2>7. Left(f.node)' = Left(f.node) /\ Right(f.node)' = Right(f.node)
    BY <1>5, <2>5
  <2>8. f.at = "left" => Fresh(Right(f.node))'
    <3>. SUFFICES ASSUME f.at = "left" PROVE Fresh(Right(f.node))'
      OBVIOUS
    <3>1. PICK r : r = Right(f.node)
      OBVIOUS
    <3>2. r \in 1..L /\ ~tree[r].is_leaf /\ tree[r].left = NULL /\ tree[r].computed = Garbage
      BY <2>5, <2>6, <3>1 DEF Fresh
    <3>3. r # n
      <4>. SUFFICES ASSUME r = n PROVE FALSE
        OBVIOUS
      <4>1. S \in 1..Len(stack) /\ stack[S].node = Right(stack[i].node)
        BY <1>1, <1>3, <2>3, <3>1
      <4>2. S = i + 1
        BY <1>2, <2>1, <2>3, <2>5, <4>1, LevelsApart
      <4>3. n = Left(f.node)
        BY <1>3, <2>5, <4>2
      <4>. QED
        BY <2>6, <3>1, <4>3
    <3>4. Right(r) # n
      <4>1. ShapeOf(r) /\ n # NULL
        BY <1>1, <1>2, <1>3, <3>2 DEF ShapeInv, NULL
      <4>. QED
        BY <3>2, <4>1 DEF ShapeOf, Right
    <3>5. /\ tree'[r].is_leaf = tree[r].is_leaf /\ tree'[r].computed = tree[r].computed
      BY <1>2, <3>2, <3>3, <3>4 DEF Returned
    <3>6. tree'[r].left = tree[r].left
      BY <1>5, <3>2 DEF Left
    <3>7. Fresh(r)'
      BY <3>2, <3>5, <3>6 DEF Fresh
    <3>. QED
      BY <2>7, <3>1, <3>7 DEF Fresh
  <2>9. f.at = "right" => tree'[Left(f.node)'].computed # Garbage
    BY <1>5, <2>5, <2>6, <2>7
  <2>10. i < Len(stack') => stack'[i + 1].node = IF f.at = "left" THEN Left(f.node)' ELSE Right(f.node)'
    <3>. SUFFICES ASSUME i < Len(stack')
                  PROVE  stack'[i + 1].node = IF f.at = "left" THEN Left(f.node)' ELSE Right(f.node)'
      OBVIOUS
    <3>1. i + 1 \in 1..(S - 1)
      BY <1>3, <1>4
    <3>. QED
      BY <1>4, <2>5, <2>7, <3>1
  <2>11. i = Len(stack') => /\ f.at = "left" => tree'[Left(f.node)'].computed # Garbage
                            /\ f.at = "right" => tree'[Right(f.node)'].computed # Garbage
    <3>. SUFFICES ASSUME i = Len(stack')
                  PROVE  /\ f.at = "left" => tree'[Left(f.node)'].computed # Garbage
                         /\ f.at = "right" => tree'[Right(f.node)'].computed # Garbage
      OBVIOUS
    <3>1. i + 1 = S
      BY <1>3, <1>4
    <3>2. n = IF f.at = "left" THEN Left(f.node) ELSE Right(f.node)
      BY <1>3, <2>5, <3>1
    <3>. QED
      BY <1>5, <2>7, <3>2
  <2>12. /\ f.node \in 1..Len(tree') /\ f.level = i /\ f.position < Pow[i - 1]
         /\ f.at # "enter" /\ i < depth' /\ Left(f.node)' # NULL
    BY <1>5, <1>6, <2>5, <2>7
  <2>. QED
    BY <2>4, <2>8, <2>9, <2>10, <2>11, <2>12 DEF FrameOK
<1>8. Len(stack') <= depth' /\ Len(stack') = S - 1
  BY <1>3, <1>4, <1>6
<1>9. Len(stack') > 0 => stack'[1].node = 1
  BY <1>1, <1>2, <1>3, <1>4 DEF StackInv
<1>10. \A i \in 1..Len(stack') : FrameOK(i)'
  BY <1>4, <1>7
<1>. QED
  BY <1>4, <1>6, <1>8, <1>9, <1>10 DEF StackInv

\* A return computes the hash of the parent if and only if the right child returns.
LEMMA ReturnedComputed ==
  ASSUME BuildInv, BuildStep, ReturnedTop
  PROVE  ComputedInv'
<1>1. PICK n, S, L : n = top.node /\ S = Len(stack) /\ L = Len(tree)
  OBVIOUS
<1>2. /\ Returned(n, S, L) /\ stack # <<>>
      /\ PackageInv /\ ShapeInv /\ StackInv /\ ComputedInv /\ LevelInv
  BY <1>1 DEF ReturnedTop, BuildInv
<1>3. /\ S \in Nat \ {0} /\ n \in 1..L /\ n = stack[S].node /\ S \in 1..S
  BY <1>1, <1>2, TopIs
<1>4. /\ Len(stack') = S - 1 /\ \A i \in 1..(S - 1) : stack'[i] = stack[i]
  BY <1>2 DEF Returned
<1>5. /\ Len(tree') = L
      /\ \A m \in 1..L : tree[m].computed # Garbage => tree'[m].computed # Garbage
      /\ \A m \in 1..L : Left(m)' = Left(m) /\ Right(m)' = Right(m)
      /\ tree'[n].computed # Garbage
  BY <1>1, <1>2, ReturnedKeeps DEF Left, Right, Returned
\* Only the node on top leaves the stack.
<1>6. \A m \in 1..L : OnStack(m)' <=> OnStack(m) /\ m # n
  <2>1. ASSUME NEW m \in 1..L, OnStack(m)' PROVE OnStack(m) /\ m # n
    <3>1. PICK i \in 1..(S - 1) : stack'[i].node = m
      BY <1>4, <2>1 DEF OnStack
    <3>2. i \in 1..Len(stack) /\ i # S /\ S \in 1..Len(stack) /\ stack[i].node = m
      BY <1>1, <1>3, <1>4, <3>1
    <3>3. m # n
      BY <1>2, <1>3, <3>2, OnceOnStack
    <3>. QED
      BY <3>2, <3>3 DEF OnStack
  <2>2. ASSUME NEW m \in 1..L, OnStack(m), m # n PROVE OnStack(m)'
    <3>1. PICK i \in 1..S : stack[i].node = m
      BY <1>1, <2>2 DEF OnStack
    <3>2. i \in 1..(S - 1)
      BY <1>3, <2>2, <3>1
    <3>3. stack'[i].node = m /\ i \in 1..Len(stack')
      BY <1>4, <3>1, <3>2
    <3>. QED
      BY <3>3 DEF OnStack
  <2>. QED
    BY <2>1, <2>2
<1>7. ASSUME NEW m \in 1..L, Left(m) # NULL, NEW r, r = Right(m)
      PROVE  tree'[m].computed # Garbage <=> tree'[r].computed # Garbage /\ ~OnStack(r)'
  <2>1. /\ r \in 1..L /\ m # r /\ tree[r].parent = m /\ Left(m) # r
        /\ r # 1
    BY <1>1, <1>2, <1>7, ChildrenAre
  <2>2. tree[m].computed # Garbage <=> tree[r].computed # Garbage /\ ~OnStack(r)
    BY <1>1, <1>2, <1>7 DEF ComputedInv
  <2>3. CASE m = n
    <3>1. tree[Right(n)].computed # Garbage
      BY <1>2, <1>7, <2>3 DEF Returned
    <3>2. tree'[Right(n)].computed # Garbage
      BY <1>7, <1>5, <2>1, <2>3, <3>1
    <3>3. ~OnStack(Right(n))
      <4>. SUFFICES ASSUME NEW j \in 1..Len(stack), stack[j].node = Right(n) PROVE FALSE
        BY DEF OnStack
      <4>1. j = S + 1
        BY <1>1, <1>2, <1>3, <1>7, <2>3, LevelsApart
      <4>. QED
        BY <1>1, <1>3, <4>1
    <3>. QED
      BY <1>7, <1>5, <1>6, <2>1, <2>3, <3>2, <3>3
  <2>4. CASE m # n /\ r = n
    <3>1. tree'[m].computed # Garbage
      BY <1>7, <1>2, <2>1, <2>4 DEF Returned
    <3>. QED
      BY <1>7, <1>3, <1>5, <1>6, <2>4, <3>1
  <2>5. CASE m # n /\ r # n
    <3>1. tree'[m].computed = tree[m].computed
      BY <1>7, <1>2, <2>5 DEF Returned
    <3>2. OnStack(r)' <=> OnStack(r)
      BY <1>7, <1>6, <2>1, <2>5
    <3>3. CASE OnStack(r)
      BY <1>7, <2>2, <3>1, <3>2, <3>3
    <3>4. CASE ~OnStack(r)
      <4>1. ~(r = tree[n].parent /\ Right(r) = n)
        <5>. SUFFICES ASSUME r = tree[n].parent PROVE FALSE
          OBVIOUS
        <5>1. tree[top.node].parent # NULL
          <6>1. r # NULL
            BY <1>1, <1>2, <2>1, TreeLen DEF NULL
          <6>. HIDE DEF top
          <6>. QED
            BY <1>1, <6>1
        <5>2. Len(stack) - 1 \in 1..Len(stack) /\ stack[Len(stack) - 1].node = tree[top.node].parent
          <6>. HIDE DEF top
          <6>. QED
            BY <1>7, <1>2, <5>1, ParentBelow
        <5>3. stack[Len(stack) - 1].node = r
          BY <1>7, <1>1, <5>2
        <5>. QED
          BY <1>7, <3>4, <5>2, <5>3 DEF OnStack
      <4>2. tree'[r].computed = tree[r].computed
        BY <1>7, <1>2, <2>1, <2>5, <4>1 DEF Returned
      <4>. QED
        BY <1>7, <2>2, <3>1, <3>2, <4>2
    <3>. QED
      BY <1>7, <3>3, <3>4
  <2>. QED
    BY <1>7, <2>3, <2>4, <2>5
<1>8. ASSUME NEW m \in 1..L, tree'[m].is_leaf PROVE tree'[m].computed # Garbage
  <2>1. CASE m = n
    BY <1>5, <2>1
  <2>2. CASE m # n
    <3>1. tree[m].is_leaf
      BY <1>2, <1>8, <2>2 DEF Returned
    <3>2. tree[m].computed # Garbage
      BY <1>1, <1>2, <3>1 DEF ComputedInv
    <3>. QED
      BY <1>5, <3>2
  <2>. QED
    BY <2>1, <2>2
<1>9. ASSUME NEW m \in 1..L, ~tree'[m].is_leaf, Left(m) = NULL PROVE tree'[m].computed = Garbage
  <2>1. m # n
    BY <1>2, <1>9 DEF Returned
  <2>2. Right(m) # n
    <3>1. ShapeOf(m)
      BY <1>1, <1>2 DEF ShapeInv
    <3>. QED
      BY <1>3, <1>9, <3>1 DEF ShapeOf, Left, Right, NULL
  <2>3. tree'[m].computed = tree[m].computed /\ ~tree[m].is_leaf
    BY <1>2, <1>9, <2>1, <2>2 DEF Returned
  <2>. QED
    BY <1>1, <1>2, <1>9, <2>3 DEF ComputedInv
<1>10. ASSUME NEW m \in 1..L
       PROVE  /\ Left(m)' # NULL =>
                   (tree'[m].computed # Garbage
                      <=> tree'[Right(m)'].computed # Garbage /\ ~OnStack(Right(m))')
              /\ tree'[m].is_leaf => tree'[m].computed # Garbage
              /\ ~tree'[m].is_leaf /\ Left(m)' = NULL => tree'[m].computed = Garbage
  <2>1. Left(m)' = Left(m) /\ Right(m)' = Right(m)
    BY <1>5
  <2>2. PICK r : r = Right(m)
    OBVIOUS
  <2>3. OnStack(Right(m))' <=> OnStack(r)'
    BY <2>1, <2>2 DEF OnStack
  <2>4. Left(m) # NULL => (tree'[m].computed # Garbage <=> tree'[r].computed # Garbage /\ ~OnStack(r)')
    BY <1>7, <2>2
  <2>. QED
    BY <1>8, <1>9, <2>1, <2>2, <2>3, <2>4
<1>. QED
  BY <1>5, <1>10 DEF ComputedInv

\* No node is forgotten.
LEMMA ReturnedDone ==
  ASSUME BuildInv, BuildStep, ReturnedTop
  PROVE  DoneInv'
<1>1. PICK n, S, L : n = top.node /\ S = Len(stack) /\ L = Len(tree)
  OBVIOUS
<1>2. /\ Returned(n, S, L) /\ stack # <<>> /\ ShapeInv /\ StackInv /\ DoneInv
      /\ top.at \in {"enter", "right"} /\ phase # "hash"
  BY <1>1 DEF ReturnedTop, BuildInv, BuildStep
<1>3. /\ S \in Nat \ {0} /\ n \in 1..L /\ top = stack[S]
  BY <1>1, <1>2, TopIs
<1>4. /\ Len(stack') = S - 1 /\ \A i \in 1..(S - 1) : stack'[i] = stack[i]
  BY <1>2 DEF Returned
<1>5. /\ Len(tree') = L
      /\ \A m \in 1..L : tree'[m].left = tree[m].left /\ tree'[m].right = tree[m].right
  BY <1>1, <1>2, ReturnedKeeps
<1>6. ASSUME NEW m \in 1..L PROVE tree'[m].is_leaf \/ Left(m)' # NULL \/ Waiting(m)'
  <2>1. CASE m = n
    BY <1>2, <1>5, <2>1 DEF Returned, Left
  <2>2. CASE m # n
    <3>1. tree'[m].is_leaf = tree[m].is_leaf /\ Left(m)' = Left(m)
      BY <1>2, <1>5, <2>2 DEF Returned, Left
    <3>2. CASE ~Waiting(m)
      BY <1>1, <1>2, <3>1, <3>2 DEF DoneInv
    <3>3. CASE Waiting(m)
      <4>1. PICK i \in 1..Len(stack) : \/ stack[i].at = "enter" /\ stack[i].node = m
                                       \/ stack[i].at = "left" /\ Right(stack[i].node) = m
        BY <3>3 DEF Waiting
      <4>2. i # S
        <5>. SUFFICES ASSUME i = S PROVE FALSE
          OBVIOUS
        <5>1. stack[i].node = n /\ stack[i].at # "left"
          BY <1>1, <1>2, <1>3
        <5>. QED
          BY <2>2, <4>1, <5>1
      <4>3. i \in 1..Len(stack') /\ stack'[i] = stack[i]
        BY <1>1, <1>3, <1>4, <4>2
      <4>4. FrameOK(i)
        BY <1>2 DEF StackInv
      <4>6. stack[i].node \in 1..L
        BY <1>1, <4>4 DEF FrameOK
      <4>7. tree'[stack[i].node].right = tree[stack[i].node].right
        BY <1>5, <4>6
      <4>8. \/ stack'[i].at = "enter" /\ stack'[i].node = m
            \/ stack'[i].at = "left" /\ tree'[stack'[i].node].right = m
        BY <4>1, <4>3, <4>7 DEF Right
      <4>9. Waiting(m)'
        BY <4>3, <4>8 DEF Waiting, Right
      <4>. QED
        BY <4>9
    <3>. QED
      BY <3>2, <3>3
  <2>. QED
    BY <2>1, <2>2
<1>. QED
  BY <1>5, <1>6 DEF DoneInv

\* A return moves no node to another level.
LEMMA ReturnedLevels ==
  ASSUME BuildInv, BuildStep, ReturnedTop
  PROVE  LevelInv'
<1>1. PICK n, S, L : n = top.node /\ S = Len(stack) /\ L = Len(tree)
  OBVIOUS
<1>2. /\ Returned(n, S, L) /\ stack # <<>> /\ ShapeInv /\ StackInv /\ LevelInv
  BY <1>1 DEF ReturnedTop, BuildInv, BuildStep
<1>3. /\ S \in Nat \ {0} /\ n \in 1..L /\ n = stack[S].node /\ S \in 1..Len(stack)
  BY <1>1, <1>2, TopIs
<1>4. /\ Len(stack') = S - 1 /\ \A i \in 1..(S - 1) : stack'[i] = stack[i]
  BY <1>2 DEF Returned
<1>5. /\ Len(tree') = L
      /\ \A m \in 1..L : tree'[m].left = tree[m].left /\ tree'[m].right = tree[m].right
  BY <1>1, <1>2, ReturnedKeeps
<1>6. depth' = depth
  BY SamePackage DEF BuildStep
<1>7. PICK lv : Levels(lv)
  BY <1>2 DEF LevelInv
<1>8. ASSUME NEW m \in 1..L
      PROVE  /\ Left(m)' # NULL => lv[Left(m)'] = lv[m] + 1 /\ lv[Right(m)'] = lv[m] + 1
             /\ tree'[m].is_leaf => lv[m] = depth
  <2>1. Left(m)' = Left(m) /\ Right(m)' = Right(m)
    BY <1>5 DEF Left, Right
  <2>2. ASSUME tree'[m].is_leaf PROVE tree[m].is_leaf \/ (m = n /\ S = depth)
    <3>1. CASE m = n
      BY <1>2, <2>2, <3>1 DEF Returned
    <3>2. CASE m # n
      BY <1>2, <2>2, <3>2 DEF Returned
    <3>. QED
      BY <3>1, <3>2
  <2>. QED
    BY <1>1, <1>3, <1>7, <2>1, <2>2 DEF Levels
<1>9. \A i \in 1..Len(stack') : lv[stack'[i].node] = i
  <2>1. \A i \in 1..(S - 1) : i \in 1..Len(stack)
    BY <1>1, <1>3
  <2>2. \A i \in 1..Len(stack) : lv[stack[i].node] = i
    BY <1>7 DEF Levels
  <2>. QED
    BY <1>4, <2>1, <2>2
<1>10. Levels(lv)'
  BY <1>1, <1>5, <1>6, <1>7, <1>8, <1>9 DEF Levels
<1>. QED
  BY <1>10 DEF LevelInv

\* How many nodes the frames are still to have allocated.
LEMMA PendingIs ==
  ASSUME PackageInv
  PROVE  /\ \A i \in 1..depth : PendingOf(depth, "enter", i) \in Nat /\ PendingOf(depth, "right", i) = 0
         /\ PendingOf(depth, "enter", depth) = 0
         /\ \A i \in 1..depth : i < depth =>
              /\ PendingOf(depth, "left", i) \in Nat
              /\ PendingOf(depth, "left", i) = PendingOf(depth, "enter", i + 1)
              /\ PendingOf(depth, "enter", i) = 2 * PendingOf(depth, "left", i) + 2
<1>1. PICK d : d = depth
  OBVIOUS
<1>2. d \in Nat \ {0}
  BY <1>1, PackageIs
<1>3. ASSUME NEW i \in 1..d PROVE PendingOf(depth, "enter", i) \in Nat /\ PendingOf(depth, "right", i) = 0
  <2>1. d - i \in Nat
    BY <1>2
  <2>2. Pow[d - i + 1] = 2 * Pow[d - i] /\ Pow[d - i] \in Nat \ {0}
    BY <2>1, PowIs
  <2>. QED
    BY <1>1, <2>2 DEF PendingOf
<1>4. PendingOf(depth, "enter", d) = 0
  <2>1. d - d + 1 = 1 /\ 0 + 1 = 1
    BY <1>2
  <2>2. Pow[0 + 1] = 2 * Pow[0] /\ Pow[0] = 1
    BY PowIs
  <2>3. Pow[d - d + 1] = 2
    BY <2>1, <2>2
  <2>. QED
    BY <1>1, <2>3 DEF PendingOf
<1>5. ASSUME NEW i \in 1..d, i < d
      PROVE  /\ PendingOf(depth, "left", i) \in Nat
             /\ PendingOf(depth, "left", i) = PendingOf(depth, "enter", i + 1)
             /\ PendingOf(depth, "enter", i) = 2 * PendingOf(depth, "left", i) + 2
  <2>1. d - i \in Nat /\ d - i - 1 \in Nat /\ (d - i - 1) + 1 = d - i /\ d - (i + 1) + 1 = d - i
    BY <1>2, <1>5
  <2>2. /\ Pow[d - i + 1] = 2 * Pow[d - i] /\ Pow[d - i] \in Nat \ {0}
        /\ Pow[d - i] = 2 * Pow[d - i - 1] /\ Pow[d - i - 1] \in Nat \ {0}
    <3>1. Pow[d - i + 1] = 2 * Pow[d - i] /\ Pow[d - i] \in Nat \ {0}
      BY <2>1, PowIs
    <3>2. Pow[(d - i - 1) + 1] = 2 * Pow[d - i - 1] /\ Pow[d - i - 1] \in Nat \ {0}
      BY <2>1, PowIs
    <3>. QED
      BY <2>1, <3>1, <3>2
  <2>3. PendingOf(depth, "left", i) = Pow[d - i] - 2 /\ PendingOf(depth, "enter", i) = Pow[d - i + 1] - 2
    BY <1>1 DEF PendingOf
  <2>4. PendingOf(depth, "enter", i + 1) = Pow[d - i] - 2
    BY <1>1, <2>1 DEF PendingOf
  <2>. QED
    BY <2>2, <2>3, <2>4
<1>. QED
  BY <1>1, <1>3, <1>4, <1>5

\* A frame that returns has had all of them.
LEMMA ReturnedCount ==
  ASSUME BuildInv, BuildStep, ReturnedTop
  PROVE  CountInv'
<1>1. PICK n, S, L : n = top.node /\ S = Len(stack) /\ L = Len(tree)
  OBVIOUS
<1>2. /\ Returned(n, S, L) /\ stack # <<>> /\ ShapeInv /\ StackInv /\ PackageInv
      /\ top.at \in {"enter", "right"} /\ (top.at = "enter" => S = depth)
      /\ UNCHANGED package
  BY <1>1 DEF ReturnedTop, BuildInv, BuildStep
<1>3. /\ S \in Nat \ {0} /\ top = stack[S] /\ S <= depth
  BY <1>1, <1>2, TopIs
<1>4. /\ Len(stack') = S - 1 /\ \A i \in 1..(S - 1) : stack'[i] = stack[i]
  BY <1>2 DEF Returned
<1>5. Len(tree') = L /\ depth' = depth /\ L \in Nat /\ depth \in Nat
  BY <1>1, <1>2, ReturnedKeeps, SamePackage, TreeLen, PackageIs
<1>6. PICK t : Counts(t)
  BY DEF BuildInv, BuildStep, CountInv
<1>7. /\ t \in [0..S -> Int] /\ t[0] = Pow[depth] - 1
      /\ \A i \in 1..S : t[i] = t[i - 1] - PendingOf(depth, stack[i].at, i)
      /\ \A i \in 0..S : t[i] <= Pow[depth] - 1
      /\ t[S] = L
  BY <1>1, <1>6 DEF Counts
<1>8. PendingOf(depth, stack[S].at, S) = 0
  <2>1. S \in 1..depth
    BY <1>3, <1>5
  <2>. QED
    BY <1>2, <1>3, <2>1, PendingIs
<1>9. t[S - 1] = L
  <2>1. S \in 1..S /\ S - 1 \in 0..S
    BY <1>3
  <2>2. t[S] = t[S - 1] - 0 /\ t[S - 1] \in Int
    BY <1>7, <1>8, <2>1
  <2>. QED
    BY <1>7, <2>2
<1>. DEFINE u == [i \in 0..(S - 1) |-> t[i]]
<1>10. /\ u \in [0..(S - 1) -> Int] /\ \A i \in 0..(S - 1) : u[i] = t[i]
  BY <1>3, <1>7
<1>. HIDE DEF u
<1>11. ASSUME NEW i \in 1..(S - 1) PROVE u[i] = u[i - 1] - PendingOf(depth', stack'[i].at, i)
  <2>1. i \in 1..S /\ i \in 0..(S - 1) /\ i - 1 \in 0..(S - 1)
    BY <1>3
  <2>. QED
    BY <1>4, <1>5, <1>7, <1>10, <2>1
<1>12. /\ 0 \in 0..(S - 1) /\ S - 1 \in 0..(S - 1) /\ \A i \in 0..(S - 1) : i \in 0..S
  BY <1>3
<1>13. /\ u[0] = Pow[depth'] - 1 /\ u[S - 1] = L /\ \A i \in 0..(S - 1) : u[i] <= Pow[depth'] - 1
  BY <1>5, <1>7, <1>9, <1>10, <1>12
<1>14. Counts(u)'
  BY <1>4, <1>5, <1>10, <1>11, <1>13 DEF Counts
<1>. QED
  BY <1>14 DEF CountInv

-----------------------------------------------------------------------------
(***************************************************************************)
(* A call turns to its right child: DescendAgain                           *)
(***************************************************************************)

\* ... the call turns to its right child ...
TurnedTop ==
  stack # <<>> /\ top.at = "left" /\ Turned(top.node, Len(stack), top.position)

TurnedAt(n, S, L, p) ==
  /\ n = top.node /\ S = Len(stack) /\ L = Len(tree) /\ tree' = tree
  /\ S \in Nat \ {0} /\ n \in 1..L /\ L \in Nat /\ p \in Nat /\ p < Pow[S - 1]
  /\ stack[S].node = n /\ stack[S].at = "left" /\ S < depth
  /\ Left(n) # NULL /\ Fresh(Right(n)) /\ tree[Left(n)].computed # Garbage
  /\ Right(n) \in 1..L
  /\ stack' \in Seq(FrameType) /\ Len(stack') = S + 1
  /\ \A i \in 1..(S - 1) : stack'[i] = stack[i]
  /\ stack'[S] = Frame(n, S, p, "right")
  /\ stack'[S + 1] = Frame(Right(n), S + 1, p * 2 + 1, "enter")
  /\ depth' = depth /\ depth \in Nat /\ phase' = "build"

\* The facts about a turn.
LEMMA TurnedFacts ==
  ASSUME BuildInv, BuildStep, TurnedTop
  PROVE  \E n, S, L, p : TurnedAt(n, S, L, p)
<1>1. PICK n, S, L, p : n = top.node /\ S = Len(stack) /\ L = Len(tree) /\ p = top.position
  OBVIOUS
<1>2. /\ stack # <<>> /\ PackageInv /\ ShapeInv /\ StackInv /\ Turned(n, S, p) /\ top.at = "left"
      /\ UNCHANGED package /\ phase' = "build"
  BY <1>1 DEF TurnedTop, BuildInv, BuildStep
<1>3. /\ S \in Nat \ {0} /\ top = stack[S] /\ n \in 1..L /\ p \in Nat /\ FrameOK(S)
  BY <1>1, <1>2, TopIs
<1>4. /\ L \in Nat /\ depth' = depth /\ depth \in Nat
  BY <1>1, <1>2, TreeLen, SamePackage, PackageIs
<1>5. /\ stack[S].node = n /\ stack[S].at = "left" /\ S < depth /\ p < Pow[S - 1]
      /\ Left(n) # NULL /\ Fresh(Right(n)) /\ tree[Left(n)].computed # Garbage
  BY <1>1, <1>2, <1>3 DEF FrameOK
<1>6. Right(n) \in 1..L
  BY <1>1, <1>2, <1>3, <1>5, ChildrenAre
<1>7. /\ tree' = tree
      /\ stack' \in Seq(FrameType) /\ Len(stack') = S + 1
      /\ \A i \in 1..(S - 1) : stack'[i] = stack[i]
      /\ stack'[S] = Frame(n, S, p, "right")
      /\ stack'[S + 1] = Frame(Right(n), S + 1, p * 2 + 1, "enter")
  BY <1>1, <1>2 DEF Turned, Grown
<1>. HIDE DEF top, depth
<1>. QED
  BY <1>1, <1>2, <1>3, <1>4, <1>5, <1>6, <1>7, Zenon DEF TurnedAt

\* A turn leaves the tree alone ...
LEMMA TurnedShape ==
  ASSUME BuildInv, BuildStep, TurnedTop
  PROVE  ShapeInv'
<1>1. tree' = tree /\ NodeType' = NodeType /\ ShapeInv
  BY SamePackage DEF TurnedTop, Turned, BuildStep, BuildInv
<1>. QED
  BY <1>1 DEF ShapeInv, ShapeOf

\* The next level is twice as wide.
LEMMA TwiceAsWide ==
  ASSUME NEW S \in Nat \ {0}, NEW p \in Nat, p < Pow[S - 1]
  PROVE  p * 2 < Pow[S] /\ p * 2 + 1 < Pow[S]
<1>1. S - 1 \in Nat /\ (S - 1) + 1 = S
  OBVIOUS
<1>2. Pow[S] = 2 * Pow[S - 1] /\ Pow[S - 1] \in Nat
  BY <1>1, PowIs
<1>. QED
  BY <1>2

\* ... calls on the right child, which is as createNode left it ...
LEMMA TurnedStack ==
  ASSUME BuildInv, BuildStep, TurnedTop
  PROVE  StackInv'
<1>1. PICK n, S, L, p : TurnedAt(n, S, L, p)
  BY TurnedFacts
<1>. USE DEF TurnedAt
<1>2. StackInv
  BY DEF BuildInv
<1>3. \A m : Left(m)' = Left(m) /\ Right(m)' = Right(m) /\ (Fresh(m)' <=> Fresh(m))
  BY <1>1 DEF Left, Right, Fresh
<1>4. ASSUME NEW i \in 1..(S - 1) PROVE FrameOK(i)'
  <2>1. i \in 1..Len(stack) /\ i < S /\ i + 1 \in 1..S /\ i # Len(stack') /\ i < Len(stack')
    BY SMTT(30), <1>1
  <2>2. FrameOK(i)
    BY <1>2, <2>1, Zenon DEF StackInv
  <2>3. PICK f : f = stack[i]
    OBVIOUS
  <2>4. stack'[i] = f
    BY <1>1, <2>3
  <2>5. /\ f.node \in 1..L /\ f.level = i /\ f.position < Pow[i - 1]
        /\ f.at # "enter" /\ i < depth /\ Left(f.node) # NULL
        /\ f.at = "left" => Fresh(Right(f.node))
        /\ f.at = "right" => tree[Left(f.node)].computed # Garbage
        /\ stack[i + 1].node = IF f.at = "left" THEN Left(f.node) ELSE Right(f.node)
    BY <1>1, <2>1, <2>2, <2>3 DEF FrameOK
  <2>6. stack'[i + 1].node = stack[i + 1].node
    <3>1. CASE i + 1 = S
      BY <1>1, <3>1, FrameIs
    <3>2. CASE i + 1 # S
      <4>1. i + 1 \in 1..(S - 1)
        BY <1>1, <2>1, <3>2
      <4>. QED
        BY <1>1, <4>1
    <3>. QED
      BY <3>1, <3>2
  <2>. QED
    BY <1>1, <1>3, <2>1, <2>4, <2>5, <2>6 DEF FrameOK, Left, Right, Fresh
<1>5. FrameOK(S)'
  <2>1. /\ stack'[S].node = n /\ stack'[S].level = S /\ stack'[S].position = p
        /\ stack'[S].at = "right" /\ stack'[S + 1].node = Right(n)
    BY <1>1, FrameIs
  <2>2. S < Len(stack') /\ S # Len(stack')
    BY <1>1
  <2>. QED
    BY <1>1, <1>3, <2>1, <2>2 DEF FrameOK, Left, Right, Fresh
<1>6. FrameOK(S + 1)'
  <2>1. /\ stack'[S + 1].node = Right(n) /\ stack'[S + 1].level = S + 1
        /\ stack'[S + 1].position = p * 2 + 1 /\ stack'[S + 1].at = "enter"
    BY <1>1, FrameIs
  <2>2. p * 2 + 1 < Pow[S] /\ (S + 1) - 1 = S
    BY <1>1, TwiceAsWide
  <2>3. S + 1 = Len(stack') /\ ~(S + 1 < Len(stack'))
    BY <1>1
  <2>4. PICK r : r = Right(n)
    OBVIOUS
  <2>5. Fresh(r)'
    BY <1>1, <2>4 DEF Fresh
  <2>6. p * 2 + 1 < Pow[(S + 1) - 1]
    BY <2>2
  <2>. QED
    BY <1>1, <2>1, <2>3, <2>4, <2>5, <2>6 DEF FrameOK, Fresh
<1>7. \A i \in 1..Len(stack') : FrameOK(i)'
  <2>1. ASSUME NEW i \in 1..(S + 1) PROVE FrameOK(i)'
    <3>1. i \in 1..(S - 1) \/ i = S \/ i = S + 1
      BY <1>1
    <3>. QED
      BY <1>4, <1>5, <1>6, <3>1
  <2>. QED
    BY <1>1, <2>1
<1>8. Len(stack') <= depth' /\ stack' # <<>>
  <2>1. Len(stack') # 0
    BY <1>1
  <2>. QED
    BY <1>1, <2>1
<1>9. stack'[1].node = 1
  <2>1. stack[1].node = 1
    BY <1>1, <1>2 DEF StackInv
  <2>2. CASE S = 1
    BY <1>1, <2>1, <2>2, FrameIs
  <2>3. CASE S # 1
    <3>1. 1 \in 1..(S - 1)
      BY <1>1, <2>3
    <3>. QED
      BY <1>1, <2>1, <3>1
  <2>. QED
    BY <2>2, <2>3
<1>. QED
  BY <1>1, <1>7, <1>8, <1>9 DEF StackInv

\* ... leaves the node without a hash for as long as that call runs ...
LEMMA TurnedComputed ==
  ASSUME BuildInv, BuildStep, TurnedTop
  PROVE  ComputedInv'
<1>1. PICK n, S, L, p : TurnedAt(n, S, L, p)
  BY TurnedFacts
<1>. USE DEF TurnedAt
<1>2. ASSUME NEW m PROVE OnStack(m)' <=> OnStack(m) \/ m = Right(n)
  <2>1. ASSUME NEW i \in 1..S PROVE stack'[i].node = stack[i].node
    <3>1. i \in 1..(S - 1) \/ i = S
      BY <1>1
    <3>. QED
      BY <1>1, <3>1, FrameIs
  <2>2. stack'[S + 1].node = Right(n)
    BY <1>1, FrameIs
  <2>3. 1..Len(stack') = 1..S \cup {S + 1}
    BY <1>1
  <2>. QED
    BY <1>1, <2>1, <2>2, <2>3 DEF OnStack
<1>3. tree[Right(n)].computed = Garbage
  BY <1>1 DEF Fresh
<1>4. ASSUME NEW m \in 1..L
      PROVE  /\ Left(m)' # NULL =>
                  (tree'[m].computed # Garbage
                     <=> tree'[Right(m)'].computed # Garbage /\ ~OnStack(Right(m))')
             /\ tree'[m].is_leaf => tree'[m].computed # Garbage
             /\ ~tree'[m].is_leaf /\ Left(m)' = NULL => tree'[m].computed = Garbage
  <2>1. /\ Left(m) # NULL =>
             (tree[m].computed # Garbage <=> tree[Right(m)].computed # Garbage /\ ~OnStack(Right(m)))
        /\ tree[m].is_leaf => tree[m].computed # Garbage
        /\ ~tree[m].is_leaf /\ Left(m) = NULL => tree[m].computed = Garbage
    BY <1>1 DEF BuildInv, ComputedInv
  <2>2. Left(m)' = Left(m) /\ Right(m)' = Right(m)
    BY <1>1 DEF Left, Right
  <2>3. PICK r : r = Right(m)
    OBVIOUS
  <2>4. OnStack(Right(m))' <=> OnStack(r)'
    BY <2>2, <2>3 DEF OnStack
  <2>5. OnStack(Right(m)) <=> OnStack(r)
    BY <2>3
  <2>. QED
    BY <1>1, <1>2, <1>3, <2>1, <2>2, <2>3, <2>4, <2>5
<1>. QED
  BY <1>1, <1>4 DEF ComputedInv

\* ... lets a frame run on the node that was waiting ...
LEMMA TurnedDone ==
  ASSUME BuildInv, BuildStep, TurnedTop
  PROVE  DoneInv'
<1>1. PICK n, S, L, p : TurnedAt(n, S, L, p)
  BY TurnedFacts
<1>. USE DEF TurnedAt
<1>2. ASSUME NEW m \in 1..L, Waiting(m) PROVE Waiting(m)'
  <2>1. PICK i \in 1..S : \/ stack[i].at = "enter" /\ stack[i].node = m
                          \/ stack[i].at = "left" /\ Right(stack[i].node) = m
    BY <1>1, <1>2 DEF Waiting
  <2>2. CASE i = S
    <3>1. stack'[S + 1].at = "enter" /\ stack'[S + 1].node = m /\ S + 1 \in 1..Len(stack')
      BY <1>1, <2>1, <2>2, FrameIs
    <3>. QED
      BY <3>1 DEF Waiting
  <2>3. CASE i # S
    <3>1. i \in 1..(S - 1) /\ i \in 1..Len(stack')
      BY <1>1, <2>3
    <3>2. stack'[i] = stack[i]
      BY <1>1, <3>1
    <3>3. \/ stack'[i].at = "enter" /\ stack'[i].node = m
          \/ stack'[i].at = "left" /\ tree'[stack'[i].node].right = m
      BY <1>1, <2>1, <3>2 DEF Right
    <3>. QED
      BY <3>1, <3>3 DEF Waiting, Right
  <2>. QED
    BY <2>2, <2>3
<1>3. \A m \in 1..L : tree[m].is_leaf \/ Left(m) # NULL \/ Waiting(m)
  BY <1>1 DEF BuildInv, BuildStep, DoneInv
<1>. QED
  BY <1>1, <1>2, <1>3 DEF DoneInv, Left

\* ... at the level below ...
LEMMA TurnedLevels ==
  ASSUME BuildInv, BuildStep, TurnedTop
  PROVE  LevelInv'
<1>1. PICK n, S, L, p : TurnedAt(n, S, L, p)
  BY TurnedFacts
<1>. USE DEF TurnedAt
<1>2. PICK lv : Levels(lv)
  BY DEF BuildInv, LevelInv
<1>3. ASSUME NEW i \in 1..(S + 1) PROVE lv[stack'[i].node] = i
  <2>1. \A j \in 1..S : lv[stack[j].node] = j
    BY <1>1, <1>2 DEF Levels
  <2>2. lv[Right(n)] = S + 1
    <3>1. lv[n] = S
      BY <1>1, <2>1
    <3>. QED
      BY <1>1, <1>2, <3>1 DEF Levels
  <2>3. i \in 1..(S - 1) \/ i = S \/ i = S + 1
    BY <1>1
  <2>4. CASE i \in 1..(S - 1)
    <3>1. i \in 1..S
      BY <1>1, <2>4
    <3>. QED
      BY <1>1, <2>1, <2>4, <3>1
  <2>5. CASE i = S
    BY <1>1, <2>1, <2>5, FrameIs
  <2>6. CASE i = S + 1
    BY <1>1, <2>2, <2>6, FrameIs
  <2>. QED
    BY <2>3, <2>4, <2>5, <2>6
<1>4. Levels(lv)'
  BY <1>1, <1>2, <1>3 DEF Levels, Left, Right
<1>. QED
  BY <1>4 DEF LevelInv

\* ... and shares what is to be allocated between the two frames.
LEMMA TurnedCount ==
  ASSUME BuildInv, BuildStep, TurnedTop
  PROVE  CountInv'
<1>1. PICK n, S, L, p : TurnedAt(n, S, L, p)
  BY TurnedFacts
<1>. USE DEF TurnedAt
<1>2. PICK t : Counts(t)
  BY DEF BuildInv, BuildStep, CountInv
<1>3. /\ t \in [0..S -> Int] /\ t[0] = Pow[depth] - 1
      /\ \A i \in 1..S : t[i] = t[i - 1] - PendingOf(depth, stack[i].at, i)
      /\ \A i \in 0..S : t[i] <= Pow[depth] - 1
      /\ t[S] = L
  BY <1>1, <1>2 DEF Counts
<1>4. /\ PendingOf(depth, "left", S) = PendingOf(depth, "enter", S + 1)
      /\ PendingOf(depth, "right", S) = 0 /\ PendingOf(depth, "left", S) \in Nat
  <2>1. S \in 1..depth /\ PackageInv
    BY <1>1 DEF BuildInv
  <2>. QED
    BY <1>1, <2>1, PendingIs
<1>. DEFINE u == [i \in 0..(S + 1) |-> IF i = S THEN t[S - 1] ELSE IF i = S + 1 THEN L ELSE t[i]]
<1>5. /\ \A i \in 0..(S - 1) : i \in 0..S /\ i # S /\ i # S + 1 /\ i \in 0..(S + 1)
      /\ S - 1 \in 0..S /\ S \in 0..(S + 1) /\ S + 1 \in 0..(S + 1) /\ S # S + 1 /\ S \in 1..S
      /\ \A i \in 0..(S + 1) : i \in 0..(S - 1) \/ i = S \/ i = S + 1
  BY <1>1
<1>6. /\ \A i \in 0..(S - 1) : u[i] = t[i]
      /\ u[S] = t[S - 1] /\ u[S + 1] = L
  BY <1>5
<1>7. u \in [0..(S + 1) -> Int]
  <2>1. \A i \in 0..S : t[i] \in Int
    BY <1>3
  <2>2. ASSUME NEW i \in 0..(S + 1)
        PROVE  (IF i = S THEN t[S - 1] ELSE IF i = S + 1 THEN L ELSE t[i]) \in Int
    <3>1. i = S \/ i = S + 1 \/ i \in 0..S
      BY <1>5
    <3>2. L \in Int /\ t[S - 1] \in Int
      BY <1>1, <1>5, <2>1
    <3>. QED
      BY <2>1, <3>1, <3>2
  <2>. QED
    BY <2>2
<1>. HIDE DEF u
<1>8. L = t[S - 1] - PendingOf(depth, "left", S) /\ t[S - 1] \in Int
  BY <1>1, <1>3, <1>5
<1>9. ASSUME NEW i \in 1..(S + 1) PROVE u[i] = u[i - 1] - PendingOf(depth', stack'[i].at, i)
  <2>1. CASE i \in 1..(S - 1)
    <3>1. i \in 1..S /\ i \in 0..(S - 1) /\ i - 1 \in 0..(S - 1)
      BY <1>1, <2>1
    <3>2. stack'[i] = stack[i]
      BY <1>1, <2>1
    <3>. QED
      BY <1>1, <1>3, <1>6, <3>1, <3>2
  <2>2. CASE i = S
    <3>1. stack'[S].at = "right" /\ S - 1 \in 0..(S - 1)
      BY <1>1, FrameIs
    <3>. QED
      BY <1>1, <1>4, <1>6, <1>8, <2>2, <3>1
  <2>3. CASE i = S + 1
    <3>1. stack'[S + 1].at = "enter" /\ (S + 1) - 1 = S
      BY <1>1, FrameIs
    <3>. QED
      BY <1>1, <1>4, <1>6, <1>8, <2>3, <3>1
  <2>. QED
    BY <1>1, <2>1, <2>2, <2>3
<1>10. ASSUME NEW i \in 0..(S + 1) PROVE u[i] <= Pow[depth'] - 1
  <2>1. i \in 0..(S - 1) \/ i = S \/ i = S + 1
    BY <1>5
  <2>2. \A j \in 0..S : t[j] <= Pow[depth'] - 1
    BY <1>1, <1>3
  <2>3. t[S - 1] <= Pow[depth'] - 1 /\ t[S] <= Pow[depth'] - 1
    BY <1>1, <1>5, <2>2
  <2>4. L <= Pow[depth'] - 1
    BY <1>3, <2>3
  <2>5. CASE i \in 0..(S - 1)
    BY <1>5, <1>6, <2>2, <2>5
  <2>. QED
    BY <1>6, <2>1, <2>3, <2>4, <2>5
<1>11. u[0] = Pow[depth'] - 1
  <2>1. 0 \in 0..(S - 1)
    BY <1>1
  <2>. QED
    BY <1>1, <1>3, <1>6, <2>1
<1>12. Counts(u)'
  BY <1>1, <1>6, <1>7, <1>9, <1>10, <1>11 DEF Counts
<1>. QED
  BY <1>12 DEF CountInv

-----------------------------------------------------------------------------
(***************************************************************************)
(* A call descends: Descend                                                *)
(***************************************************************************)

\* ... or descends to two new nodes.
DescendedTop ==
  /\ stack # <<>> /\ top.at = "enter" /\ Len(stack) < depth
  /\ Descended(top.node, Len(stack), Len(tree), top.position)

\* The old nodes keep all but the links of n, and two nodes are new.
DescendedAt(n, S, L, p) ==
  /\ n = top.node /\ S = Len(stack) /\ L = Len(tree)
  /\ S \in Nat \ {0} /\ n \in 1..L /\ L \in Nat /\ p \in Nat /\ p < Pow[S - 1]
  /\ stack[S].node = n /\ stack[S].at = "enter" /\ S < depth
  /\ Fresh(n) /\ Right(n) = NULL
  /\ tree' \in Seq(NodeType) /\ Len(tree') = L + 2
  /\ \A m \in 1..L : m # n => tree'[m] = tree[m]
  /\ tree'[n].left = L + 1 /\ tree'[n].right = L + 2 /\ tree'[n].parent = tree[n].parent
  /\ ~tree'[n].is_leaf /\ tree'[n].computed = Garbage /\ tree'[n].expected = tree[n].expected
  /\ \A m \in {L + 1, L + 2} :
       /\ tree'[m].parent = n /\ tree'[m].left = NULL /\ tree'[m].right = NULL
       /\ ~tree'[m].is_leaf /\ tree'[m].computed = Garbage
  /\ stack' \in Seq(FrameType) /\ Len(stack') = S + 1
  /\ \A i \in 1..(S - 1) : stack'[i] = stack[i]
  /\ stack'[S] = Frame(n, S, p, "left")
  /\ stack'[S + 1] = Frame(L + 1, S + 1, p * 2, "enter")
  /\ depth' = depth /\ depth \in Nat /\ phase' = "build"

\* The facts about a descent.
LEMMA DescendedFacts ==
  ASSUME BuildInv, BuildStep, DescendedTop
  PROVE  \E n, S, L, p : DescendedAt(n, S, L, p)
<1>1. PICK n, S, L, p : n = top.node /\ S = Len(stack) /\ L = Len(tree) /\ p = top.position
  OBVIOUS
<1>2. /\ stack # <<>> /\ PackageInv /\ ShapeInv /\ StackInv /\ Descended(n, S, L, p)
      /\ top.at = "enter" /\ S < depth /\ UNCHANGED package /\ phase' = "build"
  BY <1>1 DEF DescendedTop, BuildInv, BuildStep
<1>3. /\ S \in Nat \ {0} /\ top = stack[S] /\ n \in 1..L /\ p \in Nat /\ FrameOK(S)
  BY <1>1, <1>2, TopIs
<1>4. /\ L \in Nat /\ depth' = depth /\ depth \in Nat
  BY <1>1, <1>2, TreeLen, SamePackage, PackageIs
<1>5. /\ stack[S].node = n /\ stack[S].at = "enter" /\ p < Pow[S - 1] /\ Fresh(n)
  BY <1>1, <1>2, <1>3 DEF FrameOK
<1>6. Right(n) = NULL
  <2>1. ShapeOf(n)
    BY <1>1, <1>2, <1>3 DEF ShapeInv
  <2>. QED
    BY <1>5, <2>1 DEF ShapeOf, Fresh, Right
<1>7. /\ stack' \in Seq(FrameType) /\ Len(stack') = S + 1
      /\ \A i \in 1..(S - 1) : stack'[i] = stack[i]
      /\ stack'[S] = Frame(n, S, p, "left")
      /\ stack'[S + 1] = Frame(L + 1, S + 1, p * 2, "enter")
  BY <1>1, <1>2 DEF Descended, Grown
<1>8. /\ tree' \in Seq(NodeType) /\ Len(tree') = L + 2
      /\ \A m \in 1..L : m # n => tree'[m] = tree[m]
      /\ tree'[n] = [tree[n] EXCEPT !.left = L + 1, !.right = L + 2]
      /\ tree'[L + 1] = NewNode(n) /\ tree'[L + 2] = NewNode(n)
  BY <1>2 DEF Descended
<1>9. /\ tree'[n].left = L + 1 /\ tree'[n].right = L + 2 /\ tree'[n].parent = tree[n].parent
      /\ tree'[n].is_leaf = tree[n].is_leaf /\ tree'[n].computed = tree[n].computed
      /\ tree'[n].expected = tree[n].expected
  <2>1. tree[n] \in NodeType
    BY <1>1, <1>2, <1>3, NodeIs
  <2>. QED
    BY <1>8, <2>1 DEF NodeType
<1>10. ~tree'[n].is_leaf /\ tree'[n].computed = Garbage
  BY <1>5, <1>9 DEF Fresh
<1>11. ASSUME NEW m \in {L + 1, L + 2}
       PROVE  /\ tree'[m].parent = n /\ tree'[m].left = NULL /\ tree'[m].right = NULL
              /\ ~tree'[m].is_leaf /\ tree'[m].computed = Garbage
  <2>1. n \in Nat
    BY <1>3
  <2>2. tree'[m] = NewNode(n)
    BY <1>8
  <2>. QED
    BY <2>1, <2>2, NewNodeIs
<1>. HIDE DEF top, depth
<1>. QED
  BY <1>1, <1>2, <1>3, <1>4, <1>5, <1>6, <1>7, <1>8, <1>9, <1>10, <1>11, Zenon DEF DescendedAt

\* A node is n, another old one or one of the two new ones.
LEMMA OldOrNew ==
  ASSUME NEW L \in Nat, NEW n \in 1..L
  PROVE  /\ \A m \in 1..(L + 2) : (m \in 1..L /\ m # n) \/ m = n \/ m \in {L + 1, L + 2}
         /\ L + 1 # L + 2 /\ L + 1 # n /\ L + 2 # n
  OBVIOUS

\* A descent links two new nodes below a node that had none ...
LEMMA DescendedShape ==
  ASSUME BuildInv, BuildStep, DescendedTop
  PROVE  ShapeInv'
<1>1. PICK n, S, L, p : DescendedAt(n, S, L, p)
  BY DescendedFacts
<1>. USE DEF DescendedAt
<1>20. /\ n = stack[S].node /\ S = Len(stack) /\ L = Len(tree) /\ Len(tree') = L + 2
       /\ Len(stack') = S + 1 /\ S \in Nat \ {0} /\ L \in Nat /\ n \in 1..L
       /\ depth \in Nat /\ S < depth
  BY <1>1
<1>2. ShapeInv /\ NodeType' = NodeType
  BY SamePackage DEF BuildInv, BuildStep
<1>3. \A m \in 1..L : tree'[m].parent = tree[m].parent
  BY <1>1
<1>4. ASSUME NEW m \in 1..L, m # n PROVE ShapeOf(m)'
  <2>1. ShapeOf(m) /\ tree'[m] = tree[m]
    BY <1>1, <1>2, <1>4 DEF ShapeInv
  <2>2. tree'[m].left = NULL <=> tree'[m].right = NULL
    BY <2>1 DEF ShapeOf
  <2>3. ASSUME tree'[m].left # NULL
        PROVE  /\ m < tree'[m].left /\ tree'[m].right = tree'[m].left + 1
               /\ tree'[m].right <= Len(tree')
               /\ tree'[tree'[m].left].parent = m /\ tree'[tree'[m].right].parent = m
               /\ ~tree'[m].is_leaf
    <3>1. Left(m) # NULL
      BY <2>1, <2>3 DEF Left
    <3>2. /\ Left(m) \in 1..L /\ Right(m) \in 1..L /\ Right(m) = Left(m) + 1 /\ m < Left(m)
          /\ tree[Left(m)].parent = m /\ tree[Right(m)].parent = m /\ ~tree[m].is_leaf
      BY <1>1, <1>2, <3>1, ChildrenAre
    <3>3. tree'[m].left = Left(m) /\ tree'[m].right = Right(m) /\ tree'[m].is_leaf = tree[m].is_leaf
      BY <2>1 DEF Left, Right
    <3>4. Right(m) <= L + 2
      BY <1>1, <3>2
    <3>5. ~tree'[m].is_leaf
      BY <3>2, <3>3
    <3>. QED
      BY <1>1, <1>3, <3>2, <3>3, <3>4, <3>5
  <2>4. ASSUME m # 1
        PROVE  /\ tree'[m].parent \in 1..(m - 1)
               /\ m = tree'[tree'[m].parent].left \/ m = tree'[tree'[m].parent].right
    <3>1. /\ tree[m].parent \in 1..(m - 1)
          /\ m = tree[tree[m].parent].left \/ m = tree[tree[m].parent].right
      BY <2>1, <2>4 DEF ShapeOf
    <3>2. tree[m].parent # n
      <4>1. m # NULL /\ tree[n].left = NULL /\ tree[n].right = NULL
        BY <1>1 DEF Fresh, Right, NULL
      <4>. QED
        BY <3>1, <4>1
    <3>3. tree[m].parent \in 1..L
      BY <1>1, <3>1
    <3>4. tree'[tree[m].parent] = tree[tree[m].parent]
      BY <1>1, <3>2, <3>3
    <3>. QED
      BY <2>1, <3>1, <3>4
  <2>. QED
    BY <2>2, <2>3, <2>4, Zenon DEF ShapeOf
<1>5. ShapeOf(n)'
  <2>1. /\ tree'[n].left # NULL /\ tree'[n].right # NULL /\ n < tree'[n].left
        /\ tree'[n].right = tree'[n].left + 1 /\ tree'[n].right <= Len(tree')
    BY <1>1 DEF NULL
  <2>2. tree'[tree'[n].left].parent = n /\ tree'[tree'[n].right].parent = n /\ ~tree'[n].is_leaf
    BY <1>1
  <2>3. ASSUME n # 1
        PROVE  /\ tree'[n].parent \in 1..(n - 1)
               /\ n = tree'[tree'[n].parent].left \/ n = tree'[tree'[n].parent].right
    <3>1. ShapeOf(n)
      BY <1>1, <1>2 DEF ShapeInv
    <3>2. /\ tree[n].parent \in 1..(n - 1)
          /\ n = tree[tree[n].parent].left \/ n = tree[tree[n].parent].right
      BY <2>3, <3>1 DEF ShapeOf
    <3>3. tree[n].parent \in 1..L /\ tree[n].parent # n
      BY SMTT(30), <1>1, <3>2
    <3>4. tree'[tree[n].parent] = tree[tree[n].parent] /\ tree'[n].parent = tree[n].parent
      BY <1>1, <3>3
    <3>. QED
      BY <3>2, <3>4
  <2>. QED
    BY <2>1, <2>2, <2>3, Zenon DEF ShapeOf
<1>6. ASSUME NEW m \in {L + 1, L + 2} PROVE ShapeOf(m)'
  <2>1. tree'[m].left = NULL /\ tree'[m].right = NULL /\ tree'[m].parent = n
    BY <1>1
  <2>2. n \in 1..(m - 1)
    BY <1>1
  <2>3. m = tree'[n].left \/ m = tree'[n].right
    BY <1>1
  <2>. QED
    BY <2>1, <2>2, <2>3, Zenon DEF ShapeOf
<1>7. \A m \in 1..(L + 2) : ShapeOf(m)'
  <2>1. \A m \in 1..(L + 2) : (m \in 1..L /\ m # n) \/ m = n \/ m \in {L + 1, L + 2}
    BY <1>20, OldOrNew
  <2>. QED
    BY <1>4, <1>5, <1>6, <2>1
<1>8. tree'[1].parent = NULL
  <2>1. 1 \in 1..L /\ tree[1].parent = NULL
    BY <1>1, <1>2, TreeLen DEF ShapeInv
  <2>. QED
    BY <1>3, <2>1
<1>9. Len(tree') >= 1
  BY <1>1
<1>. QED
  BY <1>1, <1>2, <1>7, <1>8, <1>9 DEF ShapeInv

\* No frame below the top is that of n, and none waits for n as a right child.
LEMMA BelowTop ==
  ASSUME BuildInv, NEW S, S = Len(stack), NEW n, n = stack[S].node, S \in Nat \ {0},
         NEW i \in 1..(S - 1)
  PROVE  /\ i \in 1..S /\ i < S /\ FrameOK(i) /\ stack[i].node # n
         /\ stack[i].node \in 1..Len(tree) /\ stack[i].at # "enter" /\ Left(stack[i].node) # NULL
         /\ stack[i].at = "left" => Right(stack[i].node) # n
<1>1. i \in 1..S /\ i < S /\ S \in 1..S /\ i # S
  OBVIOUS
<1>2. /\ ShapeInv /\ StackInv /\ LevelInv
  BY DEF BuildInv
<1>3. FrameOK(i)
  BY <1>1, <1>2, Zenon DEF StackInv
<1>4. /\ stack[i].node \in 1..Len(tree) /\ stack[i].at # "enter" /\ Left(stack[i].node) # NULL
      /\ stack[i + 1].node = IF stack[i].at = "left" THEN Left(stack[i].node) ELSE Right(stack[i].node)
  BY <1>1, <1>3 DEF FrameOK
<1>5. stack[i].node # n
  BY <1>1, <1>2, OnceOnStack
<1>6. stack[i].at = "left" => Right(stack[i].node) # n
  <2>. SUFFICES ASSUME stack[i].at = "left", Right(stack[i].node) = n PROVE FALSE
    OBVIOUS
  <2>1. S = i + 1
    BY <1>1, <1>2, <1>4, LevelsApart
  <2>2. n = Left(stack[i].node)
    BY <1>4, <2>1
  <2>. QED
    BY <1>2, <1>4, <2>2, ChildrenAre
<1>. QED
  BY <1>1, <1>3, <1>4, <1>5, <1>6

\* ... calls on the left one ...
LEMMA DescendedStack ==
  ASSUME BuildInv, BuildStep, DescendedTop
  PROVE  StackInv'
<1>1. PICK n, S, L, p : DescendedAt(n, S, L, p)
  BY DescendedFacts
<1>. USE DEF DescendedAt
<1>20. /\ n = stack[S].node /\ S = Len(stack) /\ L = Len(tree) /\ Len(tree') = L + 2
       /\ Len(stack') = S + 1 /\ S \in Nat \ {0} /\ L \in Nat /\ n \in 1..L
       /\ depth \in Nat /\ S < depth
  BY <1>1
<1>2. StackInv /\ ShapeInv
  BY DEF BuildInv
<1>4. ASSUME NEW i \in 1..(S - 1) PROVE FrameOK(i)'
  <2>1. i \in 1..Len(stack) /\ i < S /\ i + 1 \in 1..S /\ i # Len(stack') /\ i < Len(stack')
    BY <1>1
  <2>2. /\ FrameOK(i) /\ stack[i].node # n /\ stack[i].node \in 1..L
        /\ stack[i].at = "left" => Right(stack[i].node) # n
    BY <1>20, BelowTop
  <2>3. PICK f : f = stack[i]
    OBVIOUS
  <2>4. stack'[i] = f
    BY <1>1, <2>3
  <2>5. /\ f.node \in 1..L /\ f.level = i /\ f.position < Pow[i - 1]
        /\ f.at # "enter" /\ i < depth /\ Left(f.node) # NULL
        /\ f.at = "left" => Fresh(Right(f.node))
        /\ f.at = "right" => tree[Left(f.node)].computed # Garbage
        /\ stack[i + 1].node = IF f.at = "left" THEN Left(f.node) ELSE Right(f.node)
    BY <1>1, <2>1, <2>2, <2>3 DEF FrameOK
  <2>6. stack'[i + 1].node = stack[i + 1].node
    <3>1. CASE i + 1 = S
      BY SMTT(30), <1>1, <3>1, FrameIs
    <3>2. CASE i + 1 # S
      <4>1. i + 1 \in 1..(S - 1)
        BY <1>1, <2>1, <3>2
      <4>. QED
        BY <1>1, <4>1
    <3>. QED
      BY <3>1, <3>2
  <2>7. Left(f.node) \in 1..L /\ Right(f.node) \in 1..L
    BY <1>1, <1>2, <2>5, ChildrenAre
  <2>8. tree'[f.node].left = Left(f.node) /\ tree'[f.node].right = Right(f.node)
    BY <1>1, <2>2, <2>3, <2>5 DEF Left, Right
  <2>9. \A m \in 1..L : tree'[m].computed = tree[m].computed
    BY <1>1 DEF Fresh
  <2>10. f.at = "left" => tree'[Right(f.node)] = tree[Right(f.node)]
    BY <1>1, <2>2, <2>3, <2>7
  <2>11. f.at = "left" => LET r == tree'[f.node].right
                          IN ~tree'[r].is_leaf /\ tree'[r].left = NULL /\ tree'[r].computed = Garbage
    BY <2>5, <2>8, <2>10 DEF Fresh
  <2>12. f.at = "right" => tree'[tree'[f.node].left].computed # Garbage
    BY <2>5, <2>7, <2>8, <2>9
  <2>13. f.node \in 1..Len(tree')
    BY <1>1, <2>5
  <2>14. stack'[i + 1].node = IF f.at = "left" THEN tree'[f.node].left ELSE tree'[f.node].right
    BY <2>5, <2>6, <2>8
  <2>. QED
    BY <1>1, <2>1, <2>4, <2>5, <2>8, <2>11, <2>12, <2>13, <2>14 DEF FrameOK, Left, Right, Fresh
<1>5. FrameOK(S)'
  <2>1. /\ stack'[S].node = n /\ stack'[S].level = S /\ stack'[S].position = p
        /\ stack'[S].at = "left" /\ stack'[S + 1].node = L + 1
    BY <1>1, FrameIs
  <2>2. S < Len(stack') /\ S # Len(stack')
    BY <1>1
  <2>3. tree'[n].left = L + 1 /\ tree'[n].right = L + 2 /\ L + 1 # NULL
    BY <1>1 DEF NULL
  <2>4. ~tree'[L + 2].is_leaf /\ tree'[L + 2].left = NULL /\ tree'[L + 2].computed = Garbage
    BY <1>1
  <2>5. n \in 1..Len(tree') /\ p < Pow[S - 1] /\ S < depth'
    BY <1>1
  <2>. QED
    BY <2>1, <2>2, <2>3, <2>4, <2>5 DEF FrameOK, Left, Right, Fresh
<1>6. FrameOK(S + 1)'
  <2>1. /\ stack'[S + 1].node = L + 1 /\ stack'[S + 1].level = S + 1
        /\ stack'[S + 1].position = p * 2 /\ stack'[S + 1].at = "enter"
    BY <1>1, FrameIs
  <2>2. p * 2 < Pow[S] /\ (S + 1) - 1 = S
    BY <1>1, TwiceAsWide
  <2>3. S + 1 = Len(stack') /\ ~(S + 1 < Len(stack')) /\ L + 1 \in 1..Len(tree')
    BY <1>1
  <2>5. ~tree'[L + 1].is_leaf /\ tree'[L + 1].left = NULL /\ tree'[L + 1].computed = Garbage
    BY <1>1
  <2>6. p * 2 < Pow[(S + 1) - 1]
    BY <2>2
  <2>. QED
    BY <2>1, <2>3, <2>5, <2>6 DEF FrameOK, Fresh
<1>7. \A i \in 1..Len(stack') : FrameOK(i)'
  <2>1. ASSUME NEW i \in 1..(S + 1) PROVE FrameOK(i)'
    <3>1. i \in 1..(S - 1) \/ i = S \/ i = S + 1
      BY <1>1
    <3>. QED
      BY <1>4, <1>5, <1>6, <3>1
  <2>. QED
    BY <1>1, <2>1
<1>8. Len(stack') <= depth' /\ stack' # <<>>
  <2>1. Len(stack') # 0
    BY <1>1
  <2>. QED
    BY <1>1, <2>1
<1>9. stack'[1].node = 1
  <2>1. stack[1].node = 1
    BY <1>1, <1>2 DEF StackInv
  <2>2. CASE S = 1
    BY <1>1, <2>1, <2>2, FrameIs
  <2>3. CASE S # 1
    <3>1. 1 \in 1..(S - 1)
      BY <1>1, <2>3
    <3>. QED
      BY <1>1, <2>1, <3>1
  <2>. QED
    BY <2>2, <2>3
<1>. QED
  BY <1>1, <1>7, <1>8, <1>9 DEF StackInv

\* ... computes nothing ...
LEMMA DescendedComputed ==
  ASSUME BuildInv, BuildStep, DescendedTop
  PROVE  ComputedInv'
<1>1. PICK n, S, L, p : DescendedAt(n, S, L, p)
  BY DescendedFacts
<1>. USE DEF DescendedAt
<1>20. /\ n = stack[S].node /\ S = Len(stack) /\ L = Len(tree) /\ Len(tree') = L + 2
       /\ Len(stack') = S + 1 /\ S \in Nat \ {0} /\ L \in Nat /\ n \in 1..L
       /\ depth \in Nat /\ S < depth
  BY <1>1
<1>2. ShapeInv /\ ComputedInv
  BY DEF BuildInv
<1>3. ASSUME NEW m \in 1..L PROVE OnStack(m)' <=> OnStack(m)
  <2>1. ASSUME NEW i \in 1..S PROVE stack'[i].node = stack[i].node
    <3>1. i \in 1..(S - 1) \/ i = S
      BY <1>1
    <3>. QED
      BY SMTT(30), <1>1, <3>1, FrameIs
  <2>2. stack'[S + 1].node # m
    <3>1. L + 1 # m
      BY <1>1
    <3>. QED
      BY <1>1, <3>1, FrameIs
  <2>4. Len(stack) = S
    BY <1>20
  <2>3. 1..Len(stack') = 1..S \cup {S + 1}
    BY ONLY <1>20
  <2>. QED
    BY ONLY <2>1, <2>2, <2>3, <2>4 DEF OnStack
<1>4. \A m \in 1..L : tree'[m].computed = tree[m].computed
  BY <1>1 DEF Fresh
<1>5. ASSUME NEW m \in 1..L, m # n
      PROVE  /\ Left(m)' # NULL =>
                  (tree'[m].computed # Garbage
                     <=> tree'[Right(m)'].computed # Garbage /\ ~OnStack(Right(m))')
             /\ tree'[m].is_leaf => tree'[m].computed # Garbage
             /\ ~tree'[m].is_leaf /\ Left(m)' = NULL => tree'[m].computed = Garbage
  <2>1. /\ Left(m) # NULL =>
             (tree[m].computed # Garbage <=> tree[Right(m)].computed # Garbage /\ ~OnStack(Right(m)))
        /\ tree[m].is_leaf => tree[m].computed # Garbage
        /\ ~tree[m].is_leaf /\ Left(m) = NULL => tree[m].computed = Garbage
    BY <1>1, <1>2 DEF ComputedInv
  <2>2. Left(m)' = Left(m) /\ Right(m)' = Right(m) /\ tree'[m] = tree[m]
    BY <1>1, <1>5 DEF Left, Right
  <2>3. PICK r : r = Right(m)
    OBVIOUS
  <2>4. OnStack(Right(m))' <=> OnStack(r)'
    BY <2>2, <2>3 DEF OnStack
  <2>5. OnStack(Right(m)) <=> OnStack(r)
    BY <2>3
  <2>6. Left(m) # NULL => r \in 1..L
    BY <1>1, <1>2, <2>3, ChildrenAre
  <2>7. Left(m) # NULL => (OnStack(r)' <=> OnStack(r)) /\ tree'[r].computed = tree[r].computed
    BY <1>3, <1>4, <2>6
  <2>. QED
    BY <2>1, <2>2, <2>3, <2>4, <2>5, <2>7
<1>6. /\ Left(n)' # NULL =>
           (tree'[n].computed # Garbage
              <=> tree'[Right(n)'].computed # Garbage /\ ~OnStack(Right(n))')
      /\ ~tree'[n].is_leaf /\ Left(n)' # NULL
  <2>1. Left(n)' = L + 1 /\ Right(n)' = L + 2 /\ L + 1 # NULL
    BY <1>1 DEF Left, Right, NULL
  <2>2. tree'[n].computed = Garbage /\ tree'[Right(n)'].computed = Garbage
    BY <1>1, <2>1
  <2>3. ~tree'[n].is_leaf
    BY <1>1
  <2>. QED
    BY <2>1, <2>2, <2>3
<1>7. ASSUME NEW m \in {L + 1, L + 2}
      PROVE  Left(m)' = NULL /\ ~tree'[m].is_leaf /\ tree'[m].computed = Garbage
  BY <1>1 DEF Left
<1>8. \A m \in 1..Len(tree') : (m \in 1..L /\ m # n) \/ m = n \/ m \in {L + 1, L + 2}
  BY <1>20, OldOrNew
<1>. QED
  BY <1>5, <1>6, <1>7, <1>8 DEF ComputedInv

\* ... leaves both waiting for a frame ...
LEMMA DescendedDone ==
  ASSUME BuildInv, BuildStep, DescendedTop
  PROVE  DoneInv'
<1>1. PICK n, S, L, p : DescendedAt(n, S, L, p)
  BY DescendedFacts
<1>. USE DEF DescendedAt
<1>20. /\ n = stack[S].node /\ S = Len(stack) /\ L = Len(tree) /\ Len(tree') = L + 2
       /\ Len(stack') = S + 1 /\ S \in Nat \ {0} /\ L \in Nat /\ n \in 1..L
       /\ depth \in Nat /\ S < depth
  BY <1>1
<1>2. ASSUME NEW m \in 1..L, m # n, Waiting(m) PROVE Waiting(m)'
  <2>1. PICK i \in 1..S : \/ stack[i].at = "enter" /\ stack[i].node = m
                          \/ stack[i].at = "left" /\ Right(stack[i].node) = m
    BY <1>1, <1>2 DEF Waiting
  <2>2. i # S
    BY <1>1, <1>2, <2>1
  <2>3. i \in 1..(S - 1) /\ i \in 1..Len(stack')
    BY <1>1, <2>2
  <2>4. stack'[i] = stack[i]
    BY <1>1, <2>3
  <2>5. stack[i].node \in 1..L /\ stack[i].node # n
    BY <1>20, <2>3, BelowTop
  <2>6. tree'[stack[i].node] = tree[stack[i].node]
    BY <1>1, <2>5
  <2>7. \/ stack'[i].at = "enter" /\ stack'[i].node = m
        \/ stack'[i].at = "left" /\ tree'[stack'[i].node].right = m
    BY <2>1, <2>4, <2>6 DEF Right
  <2>. QED
    BY <2>3, <2>7 DEF Waiting, Right
<1>3. \A m \in 1..L : tree[m].is_leaf \/ Left(m) # NULL \/ Waiting(m)
  BY <1>1 DEF BuildInv, BuildStep, DoneInv
<1>4. ASSUME NEW m \in 1..L, m # n PROVE tree'[m].is_leaf \/ Left(m)' # NULL \/ Waiting(m)'
  BY <1>1, <1>2, <1>3, <1>4 DEF Left
<1>5. Left(n)' # NULL
  BY <1>1 DEF Left, NULL
<1>6. Waiting(L + 1)'
  <2>1. stack'[S + 1].at = "enter" /\ stack'[S + 1].node = L + 1 /\ S + 1 \in 1..Len(stack')
    BY <1>1, FrameIs
  <2>2. PICK m : m = L + 1
    OBVIOUS
  <2>3. Waiting(m)'
    BY <2>1, <2>2 DEF Waiting
  <2>. QED
    BY <1>1, <2>2, <2>3 DEF Waiting
<1>7. Waiting(L + 2)'
  <2>1. stack'[S].at = "left" /\ stack'[S].node = n /\ S \in 1..Len(stack')
    BY <1>1, FrameIs
  <2>2. tree'[stack'[S].node].right = L + 2
    BY <1>1, <2>1
  <2>. QED
    BY <2>1, <2>2 DEF Waiting, Right
<1>8. \A m \in 1..Len(tree') : (m \in 1..L /\ m # n) \/ m = n \/ m = L + 1 \/ m = L + 2
  BY <1>20, OldOrNew
<1>. QED
  BY <1>4, <1>5, <1>6, <1>7, <1>8 DEF DoneInv

\* ... puts them on the level below ...
LEMMA DescendedLevels ==
  ASSUME BuildInv, BuildStep, DescendedTop
  PROVE  LevelInv'
<1>1. PICK n, S, L, p : DescendedAt(n, S, L, p)
  BY DescendedFacts
<1>. USE DEF DescendedAt
<1>20. /\ n = stack[S].node /\ S = Len(stack) /\ L = Len(tree) /\ Len(tree') = L + 2
       /\ Len(stack') = S + 1 /\ S \in Nat \ {0} /\ L \in Nat /\ n \in 1..L
       /\ depth \in Nat /\ S < depth
  BY <1>1
<1>2. ShapeInv
  BY DEF BuildInv
<1>3. PICK lv : Levels(lv)
  BY DEF BuildInv, LevelInv
<1>4. /\ lv \in [1..L -> 1..depth] /\ lv[1] = 1
      /\ \A m \in 1..L :
           /\ Left(m) # NULL => lv[Left(m)] = lv[m] + 1 /\ lv[Right(m)] = lv[m] + 1
           /\ tree[m].is_leaf => lv[m] = depth
      /\ \A i \in 1..S : lv[stack[i].node] = i
  BY <1>1, <1>3 DEF Levels
<1>. DEFINE u == [m \in 1..(L + 2) |-> IF m \in 1..L THEN lv[m] ELSE S + 1]
<1>5. /\ \A m \in 1..L : u[m] = lv[m]
      /\ u[L + 1] = S + 1 /\ u[L + 2] = S + 1
  BY <1>1
<1>6. u \in [1..(L + 2) -> 1..depth]
  <2>1. S + 1 \in 1..depth
    BY <1>20
  <2>2. \A m \in 1..L : lv[m] \in 1..depth
    BY <1>4
  <2>. QED
    BY <2>1, <2>2
<1>. HIDE DEF u
<1>7. lv[n] = S
  <2>1. S \in 1..S
    BY <1>1
  <2>. QED
    BY <1>1, <1>4, <2>1
<1>8. ASSUME NEW m \in 1..L, m # n
      PROVE  /\ tree'[m].left # NULL => u[tree'[m].left] = u[m] + 1 /\ u[tree'[m].right] = u[m] + 1
             /\ tree'[m].is_leaf => u[m] = depth
  <2>1. tree'[m] = tree[m]
    BY <1>1, <1>8
  <2>2. Left(m) # NULL => Left(m) \in 1..L /\ Right(m) \in 1..L
    BY <1>1, <1>2, ChildrenAre
  <2>. QED
    BY <1>4, <1>5, <2>1, <2>2 DEF Left, Right
<1>9. /\ u[tree'[n].left] = u[n] + 1 /\ u[tree'[n].right] = u[n] + 1 /\ ~tree'[n].is_leaf
  BY <1>1, <1>5, <1>7
<1>10. ASSUME NEW m \in {L + 1, L + 2} PROVE tree'[m].left = NULL /\ ~tree'[m].is_leaf
  BY <1>1
<1>11. ASSUME NEW m \in 1..(L + 2)
       PROVE  /\ tree'[m].left # NULL => u[tree'[m].left] = u[m] + 1 /\ u[tree'[m].right] = u[m] + 1
              /\ tree'[m].is_leaf => u[m] = depth
  <2>1. (m \in 1..L /\ m # n) \/ m = n \/ m \in {L + 1, L + 2}
    BY <1>20, OldOrNew
  <2>. QED
    BY <1>8, <1>9, <1>10, <2>1
<1>12. ASSUME NEW i \in 1..(S + 1) PROVE u[stack'[i].node] = i
  <2>1. CASE i \in 1..(S - 1)
    <3>0. stack[i].node \in 1..L /\ i \in 1..S
      BY <1>20, <2>1, BelowTop
    <3>1. stack[i].node \in 1..L /\ i \in 1..S /\ stack'[i] = stack[i]
      BY <1>1, <2>1, <3>0
    <3>. QED
      BY <1>4, <1>5, <3>1
  <2>2. CASE i = S
    BY SMTT(30), <1>1, <1>5, <1>7, <2>2, FrameIs
  <2>3. CASE i = S + 1
    BY <1>1, <1>5, <2>3, FrameIs
  <2>. QED
    BY <1>1, <2>1, <2>2, <2>3
<1>13. u[1] = 1
  <2>1. 1 \in 1..L
    BY <1>1
  <2>. QED
    BY <1>4, <1>5, <2>1
<1>14. Levels(u)'
  BY <1>1, <1>6, <1>11, <1>12, <1>13 DEF Levels, Left, Right
<1>. QED
  BY <1>14 DEF LevelInv

\* ... and allocates two of the nodes that the frame was to have allocated.
LEMMA DescendedCount ==
  ASSUME BuildInv, BuildStep, DescendedTop
  PROVE  CountInv'
<1>1. PICK n, S, L, p : DescendedAt(n, S, L, p)
  BY DescendedFacts
<1>. USE DEF DescendedAt
<1>20. /\ n = stack[S].node /\ S = Len(stack) /\ L = Len(tree) /\ Len(tree') = L + 2
       /\ Len(stack') = S + 1 /\ S \in Nat \ {0} /\ L \in Nat /\ n \in 1..L
       /\ depth \in Nat /\ S < depth
  BY <1>1
<1>2. PICK t : Counts(t)
  BY DEF BuildInv, BuildStep, CountInv
<1>3. /\ t \in [0..S -> Int] /\ t[0] = Pow[depth] - 1
      /\ \A i \in 1..S : t[i] = t[i - 1] - PendingOf(depth, stack[i].at, i)
      /\ \A i \in 0..S : t[i] <= Pow[depth] - 1
      /\ t[S] = L
  BY <1>1, <1>2 DEF Counts
<1>4. /\ PendingOf(depth, "left", S) = PendingOf(depth, "enter", S + 1)
      /\ PendingOf(depth, "left", S) \in Nat
      /\ PendingOf(depth, "enter", S) = 2 * PendingOf(depth, "left", S) + 2
  <2>1. S \in 1..depth /\ PackageInv
    BY <1>1 DEF BuildInv
  <2>. QED
    BY <1>1, <2>1, PendingIs
<1>21. PICK half : half = PendingOf(depth, "left", S)
  OBVIOUS
<1>. DEFINE w == t[S - 1] - half
            u == [i \in 0..(S + 1) |-> IF i = S THEN w ELSE IF i = S + 1 THEN L + 2 ELSE t[i]]
<1>5. /\ \A i \in 0..(S - 1) : i \in 0..S /\ i # S /\ i # S + 1 /\ i \in 0..(S + 1)
      /\ S - 1 \in 0..S /\ S \in 0..(S + 1) /\ S + 1 \in 0..(S + 1) /\ S # S + 1 /\ S \in 1..S
      /\ \A i \in 0..(S + 1) : i \in 0..(S - 1) \/ i = S \/ i = S + 1
  BY SMTT(30), <1>1
<1>6. /\ \A i \in 0..(S - 1) : u[i] = t[i]
      /\ u[S] = w /\ u[S + 1] = L + 2
  BY <1>5
<1>8. L = t[S - 1] - PendingOf(depth, "enter", S) /\ t[S - 1] \in Int
  BY <1>1, <1>3, <1>5
<1>14. w \in Int /\ L + 2 = w - PendingOf(depth, "enter", S + 1) /\ w <= t[S - 1]
  <2>1. PICK a, b, c, x : /\ a = PendingOf(depth, "left", S) /\ b = PendingOf(depth, "enter", S + 1)
                          /\ c = PendingOf(depth, "enter", S) /\ x = t[S - 1]
    OBVIOUS
  <2>2. a = b /\ a \in Nat /\ c = 2 * a + 2 /\ L = x - c /\ x \in Int
    BY <1>4, <1>8, <2>1
  <2>4. w = x - a
    BY <1>21, <2>1
  <2>3. x - a \in Int /\ L + 2 = (x - a) - b /\ x - a <= x
    BY <2>2
  <2>. QED
    BY <2>1, <2>3, <2>4
<1>7. u \in [0..(S + 1) -> Int]
  <2>1. \A i \in 0..S : t[i] \in Int
    BY <1>3
  <2>2. ASSUME NEW i \in 0..(S + 1)
        PROVE  (IF i = S THEN w ELSE IF i = S + 1 THEN L + 2 ELSE t[i]) \in Int
    <3>1. i = S \/ i = S + 1 \/ i \in 0..S
      BY <1>5
    <3>2. L + 2 \in Int
      BY <1>1
    <3>. HIDE DEF w
    <3>. QED
      BY <1>14, <2>1, <3>1, <3>2
  <2>. QED
    BY <2>2
<1>15. w = t[S - 1] - PendingOf(depth, "left", S)
  BY <1>21
<1>. HIDE DEF u, w
<1>9. ASSUME NEW i \in 1..(S + 1) PROVE u[i] = u[i - 1] - PendingOf(depth', stack'[i].at, i)
  <2>1. CASE i \in 1..(S - 1)
    <3>1. i \in 1..S /\ i \in 0..(S - 1) /\ i - 1 \in 0..(S - 1)
      BY <1>1, <2>1
    <3>2. stack'[i] = stack[i]
      BY <1>1, <2>1
    <3>. QED
      BY <1>1, <1>3, <1>6, <3>1, <3>2
  <2>2. CASE i = S
    <3>1. stack'[S].at = "left" /\ S - 1 \in 0..(S - 1)
      BY <1>1, FrameIs
    <3>. QED
      BY <1>1, <1>6, <1>15, <2>2, <3>1
  <2>3. CASE i = S + 1
    <3>1. stack'[S + 1].at = "enter" /\ (S + 1) - 1 = S
      BY <1>1, FrameIs
    <3>. QED
      BY <1>1, <1>6, <1>14, <2>3, <3>1
  <2>. QED
    BY <1>1, <2>1, <2>2, <2>3
<1>10. ASSUME NEW i \in 0..(S + 1) PROVE u[i] <= Pow[depth'] - 1
  <2>0. PICK b : b = Pow[depth'] - 1
    OBVIOUS
  <2>1. i \in 0..(S - 1) \/ i = S \/ i = S + 1
    BY <1>5
  <2>2. (\A j \in 0..S : t[j] <= b) /\ b \in Int
    <3>1. Pow[depth] \in Nat
      BY <1>1, PowIs
    <3>. QED
      BY SMTT(30), <1>1, <1>3, <2>0, <3>1
  <2>3. t[S - 1] <= b
    BY <1>1, <1>5, <2>2
  <2>4. PendingOf(depth, "enter", S + 1) \in Nat
    BY <1>4
  <2>5. w <= b /\ L + 2 <= b
    BY <1>8, <1>14, <2>2, <2>3, <2>4
  <2>6. CASE i \in 0..(S - 1)
    BY <1>5, <1>6, <2>0, <2>2, <2>6
  <2>. QED
    BY <1>6, <2>0, <2>1, <2>5, <2>6
<1>11. u[0] = Pow[depth'] - 1
  <2>1. 0 \in 0..(S - 1)
    BY <1>1
  <2>. QED
    BY <1>1, <1>3, <1>6, <2>1
<1>12. Counts(u)'
  <2>1. u[Len(stack')] = Len(tree')
    BY <1>6, <1>20
  <2>2. Len(stack') = S + 1
    BY <1>20
  <2>3. u \in [0..Len(stack') -> Int]
    BY <1>7, <2>2
  <2>4. \A i \in 1..Len(stack') : u[i] = u[i - 1] - PendingOf(depth', stack'[i].at, i)
    BY <1>9, <2>2
  <2>5. \A i \in 0..Len(stack') : u[i] <= Pow[depth'] - 1
    BY <1>10, <2>2
  <2>. QED
    BY <1>11, <2>1, <2>3, <2>4, <2>5, Zenon DEF Counts
<1>. QED
  BY <1>12 DEF CountInv

-----------------------------------------------------------------------------
(***************************************************************************)
(* Traversals                                                              *)
(***************************************************************************)

\* Two sequences of one element.
LEMMA TwoConcat ==
  ASSUME NEW X, NEW a \in X, NEW b \in X
  PROVE  <<a>> \o <<b>> = <<a, b>>
<1>1. PICK u, v : u = <<a>> /\ v = <<b>>
  OBVIOUS
<1>2. u \in Seq(X) /\ Len(u) = 1 /\ u[1] = a /\ v \in Seq(X) /\ Len(v) = 1 /\ v[1] = b
  <2>1. <<a>> \in Seq(X) /\ Len(<<a>>) = 1 /\ <<a>>[1] = a
    BY OneSeq
  <2>2. <<b>> \in Seq(X) /\ Len(<<b>>) = 1 /\ <<b>>[1] = b
    BY OneSeq
  <2>. QED
    BY ONLY <1>1, <2>1, <2>2
<1>3. /\ u \o v \in Seq(X) /\ Len(u \o v) = 2
      /\ \A i \in 1..2 : (u \o v)[i] = IF i <= 1 THEN u[i] ELSE v[i - 1]
  <2>1. /\ u \o v \in Seq(X) /\ Len(u \o v) = Len(u) + Len(v)
        /\ \A i \in 1..(Len(u) + Len(v)) :
             (u \o v)[i] = IF i <= Len(u) THEN u[i] ELSE v[i - Len(u)]
    BY <1>2, ConcatProperties
  <2>2. Len(u) + Len(v) = 2
    BY <1>2
  <2>3. PICK z, n, m : z = u \o v /\ n = Len(u) /\ m = Len(v)
    OBVIOUS
  <2>4. /\ z \in Seq(X) /\ Len(z) = 2
        /\ \A i \in 1..2 : z[i] = IF i <= 1 THEN u[i] ELSE v[i - 1]
    BY <1>2, <2>1, <2>2, <2>3
  <2>. QED
    BY <2>3, <2>4
<1>4. (u \o v)[1] = a /\ (u \o v)[2] = b
  BY <1>2, <1>3
<1>5. <<a, b>> \in Seq(X) /\ Len(<<a, b>>) = 2 /\ <<a, b>>[1] = a /\ <<a, b>>[2] = b
  BY TwoSeq
<1>6. PICK w, z : w = <<a, b>> /\ z = u \o v
  OBVIOUS
<1>7. w \in Seq(X) /\ z \in Seq(X) /\ Len(w) = 2 /\ Len(z) = 2 /\ w[1] = z[1] /\ w[2] = z[2]
  BY <1>3, <1>4, <1>5, <1>6
<1>8. \A i \in 1..Len(w) : i = 1 \/ i = 2
  BY <1>7
<1>9. w = z
  BY <1>7, <1>8, SeqEqual
<1>. QED
  BY <1>1, <1>6, <1>9

\* The children a traversal pushes.
LEMMA ChildrenSeq ==
  ASSUME ShapeInv, NEW h \in 1..Len(tree)
  PROVE  /\ Left(h) = NULL => Children(h) = <<>>
         /\ Left(h) # NULL => Children(h) = <<Left(h), Right(h)>>
         /\ Children(h) \in Seq(1..Len(tree))
<1>1. ShapeOf(h)
  BY DEF ShapeInv
<1>2. CASE Left(h) = NULL
  <2>1. tree[h].left = NULL /\ tree[h].right = NULL
    BY <1>1, <1>2 DEF ShapeOf, Left
  <2>2. Children(h) = <<>> \o <<>>
    BY <2>1 DEF Children, Pushed
  <2>3. Children(h) = <<>>
    BY <2>2, ConcatEmptySeq, EmptySeq
  <2>. QED
    BY <1>2, <2>3, EmptySeq
<1>3. CASE Left(h) # NULL
  <2>1. Left(h) \in 1..Len(tree) /\ Right(h) \in 1..Len(tree) /\ Right(h) # NULL
    BY <1>3, ChildrenAre
  <2>2. Children(h) = <<Left(h)>> \o <<Right(h)>>
    BY <1>3, <2>1 DEF Children, Pushed, Left, Right
  <2>3. PICK a, b : a = Left(h) /\ b = Right(h)
    OBVIOUS
  <2>4. <<a>> \o <<b>> = <<a, b>>
    BY <2>1, <2>3, TwoConcat
  <2>5. <<a, b>> \in Seq(1..Len(tree))
    BY <2>1, <2>3, TwoSeq
  <2>. QED
    BY <1>3, <2>2, <2>3, <2>4, <2>5
<1>. QED
  BY <1>2, <1>3

\* What is in a queue after a pop and a push.
LEMMA QueueAfter ==
  ASSUME NEW X, NEW q \in Seq(X), q # <<>>, NEW w \in Seq(X), NEW r, Popped(X, q, w, r),
         \A i, j \in 1..Len(q) : q[i] = q[j] => i = j
  PROVE  \A m : InQueue(r, m) <=> (InQueue(q, m) /\ m # q[1]) \/ InQueue(w, m)
<1>1. PICK n, k : n = Len(q) /\ k = Len(w)
  OBVIOUS
<1>2. n \in Nat \ {0} /\ k \in Nat
  BY <1>1, EmptySeq, LenProperties
<1>3. /\ Len(r) = (n - 1) + k /\ \A i \in 1..(n - 1) : r[i] = q[i + 1]
      /\ \A i \in 1..k : r[(n - 1) + i] = w[i]
  BY <1>1 DEF Popped
<1>4. ASSUME NEW m, InQueue(r, m) PROVE (InQueue(q, m) /\ m # q[1]) \/ InQueue(w, m)
  <2>1. PICK i \in 1..((n - 1) + k) : r[i] = m
    BY <1>3, <1>4 DEF InQueue
  <2>2. CASE i <= n - 1
    <3>1. i \in 1..(n - 1) /\ i + 1 \in 1..n /\ i + 1 # 1 /\ 1 \in 1..n
      BY <1>2, <2>1, <2>2
    <3>2. q[i + 1] = m
      BY <1>3, <2>1, <3>1
    <3>3. m # q[1]
      BY <1>1, <3>1, <3>2
    <3>. QED
      BY <1>1, <3>1, <3>2, <3>3 DEF InQueue
  <2>3. CASE ~(i <= n - 1)
    <3>1. i - (n - 1) \in 1..k /\ (n - 1) + (i - (n - 1)) = i
      BY <1>2, <2>1, <2>3
    <3>2. w[i - (n - 1)] = m
      BY <1>3, <2>1, <3>1
    <3>. QED
      BY <1>1, <3>1, <3>2 DEF InQueue
  <2>. QED
    BY <2>2, <2>3
<1>5. ASSUME NEW m, InQueue(q, m), m # q[1] PROVE InQueue(r, m)
  <2>1. PICK i \in 1..n : q[i] = m
    BY <1>1, <1>5 DEF InQueue
  <2>2. i # 1
    BY <1>5, <2>1
  <2>3. i - 1 \in 1..(n - 1) /\ (i - 1) + 1 = i /\ i - 1 \in 1..Len(r)
    BY <1>2, <1>3, <2>1, <2>2
  <2>4. r[i - 1] = m
    BY <1>3, <2>1, <2>3
  <2>. QED
    BY <2>3, <2>4 DEF InQueue
<1>6. ASSUME NEW m, InQueue(w, m) PROVE InQueue(r, m)
  <2>1. PICK i \in 1..k : w[i] = m
    BY <1>1, <1>6 DEF InQueue
  <2>2. (n - 1) + i \in 1..Len(r)
    BY <1>2, <1>3, <2>1
  <2>3. r[(n - 1) + i] = m
    BY <1>3, <2>1
  <2>. QED
    BY <2>2, <2>3 DEF InQueue
<1>. QED
  BY <1>4, <1>5, <1>6

\* A queue stays without duplicates when what is pushed has none and is new.
LEMMA QueueDistinct ==
  ASSUME NEW X, NEW q \in Seq(X), q # <<>>, NEW w \in Seq(X), NEW r, Popped(X, q, w, r),
         \A i, j \in 1..Len(q) : q[i] = q[j] => i = j,
         \A i, j \in 1..Len(w) : w[i] = w[j] => i = j,
         \A i \in 1..Len(w) : ~InQueue(q, w[i])
  PROVE  \A i, j \in 1..Len(r) : r[i] = r[j] => i = j
<1>1. PICK n, k : n = Len(q) /\ k = Len(w)
  OBVIOUS
<1>2. n \in Nat \ {0} /\ k \in Nat
  BY <1>1, EmptySeq, LenProperties
<1>3. /\ Len(r) = (n - 1) + k /\ \A i \in 1..(n - 1) : r[i] = q[i + 1]
      /\ \A i \in 1..k : r[(n - 1) + i] = w[i]
  BY <1>1 DEF Popped
<1>4. ASSUME NEW i \in 1..(n - 1), NEW j \in 1..k, r[i] = r[(n - 1) + j] PROVE FALSE
  <2>1. q[i + 1] = w[j] /\ i + 1 \in 1..n
    BY <1>2, <1>3, <1>4
  <2>. QED
    BY <1>1, <2>1 DEF InQueue
<1>5. SUFFICES ASSUME NEW i \in 1..((n - 1) + k), NEW j \in 1..((n - 1) + k), r[i] = r[j]
               PROVE  i = j
  BY <1>3
<1>6. CASE i <= n - 1 /\ j <= n - 1
  <2>1. i \in 1..(n - 1) /\ j \in 1..(n - 1) /\ i + 1 \in 1..n /\ j + 1 \in 1..n
    BY <1>2, <1>6
  <2>2. q[i + 1] = q[j + 1]
    BY <1>3, <1>5, <2>1
  <2>3. i + 1 = j + 1
    BY <1>1, <2>1, <2>2
  <2>. QED
    BY <2>1, <2>3
<1>7. CASE i <= n - 1 /\ ~(j <= n - 1)
  <2>1. i \in 1..(n - 1) /\ j - (n - 1) \in 1..k /\ (n - 1) + (j - (n - 1)) = j
    BY <1>2, <1>7
  <2>. QED
    BY <1>4, <1>5, <2>1
<1>8. CASE ~(i <= n - 1) /\ j <= n - 1
  <2>1. j \in 1..(n - 1) /\ i - (n - 1) \in 1..k /\ (n - 1) + (i - (n - 1)) = i
    BY <1>2, <1>8
  <2>. QED
    BY <1>4, <1>5, <2>1
<1>9. CASE ~(i <= n - 1) /\ ~(j <= n - 1)
  <2>1. /\ i - (n - 1) \in 1..k /\ (n - 1) + (i - (n - 1)) = i
        /\ j - (n - 1) \in 1..k /\ (n - 1) + (j - (n - 1)) = j
    BY <1>2, <1>9
  <2>2. w[i - (n - 1)] = w[j - (n - 1)]
    BY <1>3, <1>5, <2>1
  <2>3. i - (n - 1) = j - (n - 1)
    BY <1>1, <2>1, <2>2
  <2>. QED
    BY <1>2, <2>3
<1>. QED
  BY <1>6, <1>7, <1>8, <1>9

\* A step of a traversal visits a new node and pushes new nodes.
LEMMA TraversalStep ==
  ASSUME ShapeInv, NEW q, NEW V, Traversal(q, V), q # <<>>
  PROVE  /\ Head(q) \in 1..Len(tree) /\ Head(q) \notin V
         /\ Traversal(Tail(q) \o Children(Head(q)), V \cup {Head(q)})
<1>1. PICK h, L, X, w : h = Head(q) /\ L = Len(tree) /\ X = 1..L /\ w = Children(h)
  OBVIOUS
<1>2. /\ q \in Seq(X) /\ V \subseteq 1..L
      /\ \A i, j \in 1..Len(q) : q[i] = q[j] => i = j
      /\ \A i \in 1..Len(q) : q[i] \notin V
      /\ 1 \in V \/ InQueue(q, 1)
      /\ \A n \in 2..L : tree[n].parent \in V <=> n \in V \/ InQueue(q, n)
  BY <1>1 DEF Traversal
<1>3. Len(q) \in Nat \ {0} /\ h = q[1] /\ h \in X
  <2>1. <<>> \in Seq(X)
    BY EmptySeq
  <2>. QED
    BY <1>1, <1>2, <2>1, PoppedSeq
<1>4. h \in 1..L /\ L \in Nat /\ 1 \in 1..Len(q)
  BY <1>1, <1>3, TreeLen
<1>5. h \notin V /\ InQueue(q, h)
  BY <1>2, <1>3, <1>4 DEF InQueue
<1>6. w \in Seq(X) /\ (Left(h) = NULL => w = <<>>) /\ (Left(h) # NULL => w = <<Left(h), Right(h)>>)
  BY <1>1, <1>4, ChildrenSeq
<1>7. Left(h) # NULL =>
        /\ Left(h) \in 2..L /\ Right(h) \in 2..L /\ Left(h) # Right(h)
        /\ tree[Left(h)].parent = h /\ tree[Right(h)].parent = h /\ h # Left(h) /\ h # Right(h)
  BY <1>1, <1>4, ChildrenAre
<1>8. PICK r : r = Tail(q) \o w
  OBVIOUS
<1>9. Popped(X, q, w, r)
  BY <1>2, <1>6, <1>8, PoppedSeq
\* What is pushed
<1>10. \A m : InQueue(w, m) <=> Left(h) # NULL /\ (m = Left(h) \/ m = Right(h))
  <2>1. CASE Left(h) = NULL
    <3>1. Len(w) = 0
      BY <1>6, <2>1, EmptySeq
    <3>. QED
      BY <2>1, <3>1 DEF InQueue
  <2>2. CASE Left(h) # NULL
    <3>1. PICK a, b : a = Left(h) /\ b = Right(h)
      OBVIOUS
    <3>2. w = <<a, b>>
      BY <1>6, <2>2, <3>1
    <3>3. Len(w) = 2 /\ w[1] = a /\ w[2] = b
      BY <3>2
    <3>4. 1..2 = {1, 2}
      OBVIOUS
    <3>. QED
      BY <2>2, <3>1, <3>3, <3>4 DEF InQueue
  <2>. QED
    BY <2>1, <2>2
<1>11. \A i, j \in 1..Len(w) : w[i] = w[j] => i = j
  <2>1. CASE Left(h) = NULL
    <3>1. Len(w) = 0
      BY <1>6, <2>1, EmptySeq
    <3>. QED
      BY <3>1
  <2>2. CASE Left(h) # NULL
    <3>1. PICK a, b : a = Left(h) /\ b = Right(h)
      OBVIOUS
    <3>2. w = <<a, b>> /\ a # b
      BY <1>6, <1>7, <2>2, <3>1
    <3>3. Len(w) = 2 /\ w[1] = a /\ w[2] = b
      BY <3>2
    <3>4. 1..2 = {1, 2}
      OBVIOUS
    <3>. QED
      BY <3>2, <3>3, <3>4
  <2>. QED
    BY <2>1, <2>2
<1>12. \A m : InQueue(w, m) => m \in 2..L /\ m \notin V /\ ~InQueue(q, m) /\ m # h
  <2>1. ASSUME NEW m, InQueue(w, m) PROVE m \in 2..L /\ m \notin V /\ ~InQueue(q, m) /\ m # h
    <3>1. m \in 2..L /\ tree[m].parent = h /\ m # h
      BY <1>7, <1>10, <2>1
    <3>. QED
      BY <1>2, <1>5, <3>1
  <2>. QED
    BY <2>1
<1>13. \A i \in 1..Len(w) : ~InQueue(q, w[i])
  BY <1>12 DEF InQueue
<1>14. \A m : InQueue(r, m) <=> (InQueue(q, m) /\ m # h) \/ InQueue(w, m)
  BY <1>2, <1>3, <1>6, <1>9, QueueAfter
<1>15. \A i, j \in 1..Len(r) : r[i] = r[j] => i = j
  BY <1>2, <1>6, <1>9, <1>11, <1>13, QueueDistinct
<1>16. r \in Seq(1..L) /\ V \cup {h} \subseteq 1..L
  BY <1>1, <1>2, <1>4, <1>9 DEF Popped
<1>17. \A i \in 1..Len(r) : r[i] \notin V \cup {h}
  <2>1. ASSUME NEW m, InQueue(r, m) PROVE m \notin V \cup {h}
    <3>1. InQueue(q, m) => m \notin V
      BY <1>2 DEF InQueue
    <3>. QED
      BY <1>12, <1>14, <2>1, <3>1
  <2>2. \A i \in 1..Len(r) : InQueue(r, r[i])
    BY DEF InQueue
  <2>. QED
    BY <2>1, <2>2
<1>18. 1 \in V \cup {h} \/ InQueue(r, 1)
  BY <1>2, <1>14
<1>19. ASSUME NEW n \in 2..L
       PROVE  tree[n].parent \in V \cup {h} <=> n \in V \cup {h} \/ InQueue(r, n)
  <2>1. ASSUME tree[n].parent = h PROVE InQueue(w, n)
    <3>1. n \in 1..L /\ n # 1 /\ n # NULL
      BY <1>4, <1>19 DEF NULL
    <3>2. ShapeOf(n) /\ ShapeOf(h)
      BY <1>1, <1>4, <3>1 DEF ShapeInv
    <3>3. n = Left(h) \/ n = Right(h)
      BY <2>1, <3>1, <3>2 DEF ShapeOf, Left, Right
    <3>4. Left(h) # NULL
      BY <3>1, <3>2, <3>3 DEF ShapeOf, Left, Right
    <3>. QED
      BY <1>10, <3>3, <3>4
  <2>2. ASSUME InQueue(w, n) PROVE tree[n].parent = h
    BY <1>7, <1>10, <2>2
  <2>3. tree[n].parent \in V <=> n \in V \/ InQueue(q, n)
    BY <1>2, <1>19
  <2>. QED
    BY <1>5, <1>14, <2>1, <2>2, <2>3
<1>20. Traversal(r, V \cup {h})
  BY <1>1, <1>15, <1>16, <1>17, <1>18, <1>19, Zenon DEF Traversal
<1>. QED
  BY <1>1, <1>4, <1>5, <1>8, <1>20

\* A traversal that has emptied its queue has visited every node.
LEMMA TraversalEnd ==
  ASSUME ShapeInv, NEW V, Traversal(<<>>, V)
  PROVE  V = 1..Len(tree)
<1>1. PICK L : L = Len(tree)
  OBVIOUS
<1>2. Len(<<>>) = 0
  OBVIOUS
<1>3. \A m : ~InQueue(<<>>, m)
  BY <1>2 DEF InQueue
<1>4. /\ V \subseteq 1..L /\ 1 \in V /\ \A n \in 2..L : tree[n].parent \in V <=> n \in V
  BY <1>1, <1>3 DEF Traversal
<1>5. L \in Nat
  BY <1>1, TreeLen
<1>. DEFINE S == {k \in Nat : \A m \in 1..L : m <= k => m \in V}
<1>6. 0 \in S
  BY <1>5
<1>7. ASSUME NEW k \in S PROVE k + 1 \in S
  <2>1. k \in Nat /\ \A m \in 1..L : m <= k => m \in V
    OBVIOUS
  <2>2. ASSUME NEW m \in 1..L, m <= k + 1 PROVE m \in V
    <3>1. CASE m = 1
      BY <1>4, <3>1
    <3>2. CASE m <= k
      BY <2>1, <3>2
    <3>3. CASE m # 1 /\ ~(m <= k)
      <4>1. m = k + 1 /\ m \in 2..L
        BY <1>5, <2>1, <2>2, <3>3
      <4>2. ShapeOf(m)
        BY <1>1 DEF ShapeInv
      <4>3. tree[m].parent \in 1..(m - 1)
        BY <3>3, <4>2 DEF ShapeOf
      <4>4. tree[m].parent \in 1..L /\ tree[m].parent <= k
        BY <1>5, <2>1, <2>2, <4>1, <4>3
      <4>. QED
        BY <1>4, <2>1, <4>1, <4>4
    <3>. QED
      BY <3>1, <3>2, <3>3
  <2>. QED
    BY <2>1, <2>2
<1>8. S = Nat
  <2>. HIDE DEF S
  <2>1. S \subseteq Nat
    BY DEF S
  <2>. QED
    BY <1>6, <1>7, <2>1, Induction
<1>9. \A m \in 1..L : m \in V
  <2>1. L \in S
    BY <1>5, <1>8
  <2>2. \A m \in 1..L : m <= L => m \in V
    BY <2>1
  <2>. QED
    BY <1>5, <2>2
<1>. QED
  BY <1>1, <1>4, <1>9

\* The links decide what a traversal is.
LEMMA TraversalKept ==
  ASSUME NEW q, NEW V, Traversal(q, V), Len(tree') = Len(tree),
         \A m \in 1..Len(tree) : tree'[m].parent = tree[m].parent
  PROVE  Traversal(q, V)'
<1>1. PICK L : L = Len(tree)
  OBVIOUS
<1>2. \A n \in 2..L : n \in 1..L
  OBVIOUS
<1>. QED
  BY <1>1, <1>2 DEF Traversal, InQueue

\* It starts at the root.
LEMMA TraversalStart ==
  ASSUME ShapeInv
  PROVE  Traversal(<< 1 >>, {})
<1>1. 1 \in 1..Len(tree)
  BY TreeLen
<1>2. << 1 >> \in Seq(1..Len(tree)) /\ Len(<< 1 >>) = 1 /\ << 1 >>[1] = 1
  BY <1>1, OneSeq
<1>3. \A i \in 1..1 : i = 1
  OBVIOUS
<1>4. \A m : InQueue(<< 1 >>, m) <=> m = 1
  BY <1>2, <1>3 DEF InQueue
<1>5. \A n \in 2..Len(tree) : n # 1
  OBVIOUS
<1>6. \A i, j \in 1..Len(<< 1 >>) : << 1 >>[i] = << 1 >>[j] => i = j
  BY <1>2, <1>3
<1>. QED
  BY <1>2, <1>4, <1>5, <1>6 DEF Traversal

\* The nodes a traversal has visited, counted.
LEMMA VisitedCount ==
  ASSUME ShapeInv, NEW V \in SUBSET (1..Len(tree))
  PROVE  /\ Cardinality(V) \in Nat /\ Cardinality(V) <= Len(tree)
         /\ \A h \in 1..Len(tree) : h \notin V =>
              Cardinality(V \cup {h}) = Cardinality(V) + 1 /\ Cardinality(V) + 1 <= Len(tree)
<1>1. PICK L : L = Len(tree)
  OBVIOUS
<1>2. L \in Nat
  BY <1>1, TreeLen
<1>3. IsFiniteSet(1..L) /\ Cardinality(1..L) = L
  BY <1>2, FS_Interval
<1>4. \A W \in SUBSET (1..L) : IsFiniteSet(W) /\ Cardinality(W) \in Nat /\ Cardinality(W) <= L
  <2>1. ASSUME NEW W \in SUBSET (1..L)
        PROVE  IsFiniteSet(W) /\ Cardinality(W) \in Nat /\ Cardinality(W) <= L
    <3>1. IsFiniteSet(W) /\ Cardinality(W) <= Cardinality(1..L)
      BY <1>3, <2>1, FS_Subset
    <3>. QED
      BY <1>3, <3>1, FS_CardinalityType
  <2>. QED
    BY <2>1
<1>5. ASSUME NEW h \in 1..L, h \notin V
      PROVE  Cardinality(V \cup {h}) = Cardinality(V) + 1 /\ Cardinality(V) + 1 <= L
  <2>1. V \cup {h} \in SUBSET (1..L) /\ V \in SUBSET (1..L)
    BY <1>1
  <2>2. Cardinality(V \cup {h}) = Cardinality(V) + 1
    BY <1>4, <1>5, <2>1, FS_AddElement
  <2>. QED
    BY <1>4, <2>1, <2>2
<1>. QED
  BY <1>1, <1>4, <1>5

-----------------------------------------------------------------------------
(***************************************************************************)
(* Steps that leave links, frames and computed hashes alone                *)
(***************************************************************************)

\* Only expected hashes change.
SameTree ==
  /\ tree' \in Seq(NodeType) /\ Len(tree') = Len(tree)
  /\ \A m \in 1..Len(tree) :
       /\ tree'[m].parent = tree[m].parent /\ tree'[m].left = tree[m].left
       /\ tree'[m].right = tree[m].right /\ tree'[m].is_leaf = tree[m].is_leaf
       /\ tree'[m].computed = tree[m].computed

\* A step after hashChunk that moves no frame.
StillStep ==
  /\ UNCHANGED package /\ hash' = hash /\ stack' = stack /\ SameTree
  /\ phase # "hash" /\ phase' # "hash" /\ phase' \in Phases
  /\ stack = <<>> \/ phase' \in {"build", "fault"}

\* Such a step keeps the shape ...
LEMMA StillShape ==
  ASSUME BuildInv, StillStep
  PROVE  ShapeInv'
<1>1. PICK L : L = Len(tree)
  OBVIOUS
<1>2. /\ tree' \in Seq(NodeType) /\ Len(tree') = L
      /\ \A m \in 1..L : /\ tree'[m].parent = tree[m].parent /\ tree'[m].left = tree[m].left
                         /\ tree'[m].right = tree[m].right /\ tree'[m].is_leaf = tree[m].is_leaf
  BY <1>1 DEF StillStep, SameTree
<1>3. L \in Nat \ {0} /\ tree[1].parent = NULL /\ NodeType' = NodeType /\ ShapeInv
  BY <1>1, TreeLen, SamePackage DEF BuildInv, StillStep, ShapeInv
<1>4. ASSUME NEW m \in 1..L PROVE ShapeOf(m)'
  <2>1. ShapeOf(m)
    BY <1>1, <1>3 DEF ShapeInv
  <2>2. tree[m].left # NULL => tree[m].left \in 1..L /\ tree[m].right \in 1..L
    BY <1>1, <1>3, ChildrenAre DEF Left, Right
  <2>3. m # 1 => tree[m].parent \in 1..L
    BY <1>3, <2>1 DEF ShapeOf
  <2>. QED
    BY <1>1, <1>2, <2>1, <2>2, <2>3 DEF ShapeOf
<1>5. 1 \in 1..L
  BY <1>3
<1>. QED
  BY <1>2, <1>3, <1>4, <1>5 DEF ShapeInv

\* What a reader of the links, the stack and the hashes sees.
LEMMA StillReads ==
  ASSUME BuildInv, StillStep
  PROVE  /\ nchunks' = nchunks /\ depth' = depth /\ stack' = stack /\ Len(tree') = Len(tree)
         /\ \A m \in 1..Len(tree) :
              /\ Left(m)' = Left(m) /\ Right(m)' = Right(m) /\ (Fresh(m)' <=> Fresh(m))
              /\ tree'[m].computed = tree[m].computed /\ tree'[m].is_leaf = tree[m].is_leaf
         /\ \A i \in 1..Len(stack) : stack[i].node \in 1..Len(tree)
         /\ \A m \in 1..Len(tree) :
              Left(m) # NULL => Left(m) \in 1..Len(tree) /\ Right(m) \in 1..Len(tree)
<1>1. stack' = stack /\ SameTree
  BY DEF StillStep
<1>2. \A i \in 1..Len(stack) : stack[i].node \in 1..Len(tree)
  BY DEF BuildInv, StackInv, FrameOK
<1>3. \A m \in 1..Len(tree) :
        Left(m) # NULL => Left(m) \in 1..Len(tree) /\ Right(m) \in 1..Len(tree)
  BY ChildrenAre DEF BuildInv
<1>4. nchunks' = nchunks /\ depth' = depth
  BY SamePackage DEF StillStep
<1>5. ASSUME NEW m \in 1..Len(tree)
      PROVE  /\ Left(m)' = Left(m) /\ Right(m)' = Right(m) /\ (Fresh(m)' <=> Fresh(m))
             /\ tree'[m].computed = tree[m].computed /\ tree'[m].is_leaf = tree[m].is_leaf
  BY <1>1 DEF SameTree, Left, Right, Fresh
<1>6. Len(tree') = Len(tree)
  BY <1>1 DEF SameTree
<1>. QED
  BY <1>1, <1>2, <1>3, <1>4, <1>5, <1>6

\* ... the frames ...
LEMMA StillStack ==
  ASSUME BuildInv, StillStep
  PROVE  StackInv'
<1>1. PICK S, L : S = Len(stack) /\ L = Len(tree)
  OBVIOUS
<1>2. /\ depth' = depth /\ stack' = stack /\ Len(tree') = L
      /\ \A m \in 1..L :
           /\ Left(m)' = Left(m) /\ Right(m)' = Right(m) /\ (Fresh(m)' <=> Fresh(m))
           /\ tree'[m].computed = tree[m].computed
      /\ \A i \in 1..S : stack[i].node \in 1..L
      /\ \A m \in 1..L : Left(m) # NULL => Left(m) \in 1..L /\ Right(m) \in 1..L
  BY <1>1, StillReads
<1>3. ASSUME NEW i \in 1..S PROVE FrameOK(i)'
  <2>1. FrameOK(i)
    BY <1>1 DEF BuildInv, StackInv
  <2>2. PICK n, l, r : n = stack[i].node /\ l = Left(n) /\ r = Right(n)
    OBVIOUS
  <2>3. n \in 1..L /\ Left(n)' = l /\ Right(n)' = r /\ (Fresh(n)' <=> Fresh(n))
    BY <1>2, <2>2
  <2>4. stack'[i].node = n /\ stack'[i] = stack[i]
    BY <1>2, <2>2
  <2>5. l # NULL => /\ (Fresh(r)' <=> Fresh(r)) /\ tree'[l].computed = tree[l].computed
                    /\ tree'[r].computed = tree[r].computed
    BY <1>2, <2>2, <2>3
  <2>6. /\ n \in 1..L /\ stack[i].level = i /\ stack[i].position < Pow[i - 1]
        /\ stack[i].at = "enter" => i = S /\ Fresh(n)
        /\ stack[i].at # "enter" => i < depth /\ l # NULL
        /\ stack[i].at = "left" => Fresh(r)
        /\ stack[i].at = "right" => tree[l].computed # Garbage
        /\ i < S => stack[i + 1].node = IF stack[i].at = "left" THEN l ELSE r
        /\ i = S /\ stack[i].at = "left" => tree[l].computed # Garbage
        /\ i = S /\ stack[i].at = "right" => tree[r].computed # Garbage
    BY <1>1, <2>1, <2>2 DEF FrameOK
  <2>7. stack[i].at = "left" \/ stack[i].at = "right" => stack[i].at # "enter"
    OBVIOUS
  <2>8. /\ n \in 1..L /\ stack[i].level = i /\ stack[i].position < Pow[i - 1]
        /\ stack[i].at = "enter" => i = S /\ Fresh(n)'
        /\ stack[i].at # "enter" => i < depth /\ l # NULL
        /\ stack[i].at = "left" => Fresh(r)'
        /\ stack[i].at = "right" => tree'[l].computed # Garbage
        /\ i < S => stack[i + 1].node = IF stack[i].at = "left" THEN l ELSE r
        /\ i = S /\ stack[i].at = "left" => tree'[l].computed # Garbage
        /\ i = S /\ stack[i].at = "right" => tree'[r].computed # Garbage
    BY <2>3, <2>5, <2>6, <2>7
  <2>9. /\ stack'[i].node = n /\ Left(n)' = l /\ Right(n)' = r
        /\ depth' = depth /\ Len(stack') = S /\ Len(tree') = L
    BY <1>1, <1>2, <2>3, <2>4
  <2>10. stack' = stack
    BY <1>2
  <2>. QED
    BY <2>8, <2>9, <2>10 DEF FrameOK
<1>4. /\ stack \in Seq(FrameType) /\ S <= depth /\ (S > 0 => stack[1].node = 1)
  BY <1>1 DEF BuildInv, StackInv
<1>5. phase' # "hash" /\ phase' \notin {"build", "fault"} => stack' = <<>>
  BY <1>2 DEF StillStep
<1>. QED
  BY <1>1, <1>2, <1>3, <1>4, <1>5, Zenon DEF StackInv, StillStep

\* ... the hashes ...
LEMMA StillComputed ==
  ASSUME BuildInv, StillStep
  PROVE  ComputedInv'
<1>1. PICK S, L : S = Len(stack) /\ L = Len(tree)
  OBVIOUS
<1>2. /\ stack' = stack /\ Len(tree') = L
      /\ \A m \in 1..L :
           /\ Left(m)' = Left(m) /\ Right(m)' = Right(m)
           /\ tree'[m].computed = tree[m].computed /\ tree'[m].is_leaf = tree[m].is_leaf
      /\ \A m \in 1..L : Left(m) # NULL => Left(m) \in 1..L /\ Right(m) \in 1..L
  BY <1>1, StillReads
<1>3. ASSUME NEW m \in 1..L
      PROVE  /\ Left(m)' # NULL =>
                 (tree'[m].computed # Garbage
                    <=> tree'[Right(m)'].computed # Garbage /\ ~OnStack(Right(m))')
             /\ tree'[m].is_leaf => tree'[m].computed # Garbage
             /\ ~tree'[m].is_leaf /\ Left(m)' = NULL => tree'[m].computed = Garbage
  <2>1. PICK r : r = Right(m)
    OBVIOUS
  <2>2. Right(m)' = r
    BY <1>2, <2>1
  <2>3. /\ Left(m) # NULL =>
             (tree[m].computed # Garbage <=> tree[r].computed # Garbage /\ ~OnStack(r))
        /\ tree[m].is_leaf => tree[m].computed # Garbage
        /\ ~tree[m].is_leaf /\ Left(m) = NULL => tree[m].computed = Garbage
    BY <1>1, <2>1 DEF BuildInv, ComputedInv
  <2>4. OnStack(Right(m))' <=> OnStack(r)
    BY <1>2, <2>2 DEF OnStack
  <2>. QED
    BY <1>2, <2>1, <2>2, <2>3, <2>4
<1>. QED
  BY <1>2, <1>3 DEF ComputedInv

\* ... that no node is left behind ...
LEMMA StillDone ==
  ASSUME BuildInv, StillStep
  PROVE  DoneInv'
<1>1. PICK S, L : S = Len(stack) /\ L = Len(tree)
  OBVIOUS
<1>2. /\ stack' = stack /\ Len(tree') = L
      /\ \A m \in 1..L :
           Left(m)' = Left(m) /\ Right(m)' = Right(m) /\ tree'[m].is_leaf = tree[m].is_leaf
      /\ \A i \in 1..S : stack[i].node \in 1..L
  BY <1>1, StillReads
<1>3. ASSUME NEW m \in 1..L PROVE tree'[m].is_leaf \/ Left(m)' # NULL \/ Waiting(m)'
  <2>1. tree[m].is_leaf \/ Left(m) # NULL \/ Waiting(m)
    BY <1>1 DEF BuildInv, DoneInv, StillStep
  <2>2. ASSUME Waiting(m) PROVE Waiting(m)'
    <3>1. PICK i \in 1..S : \/ stack[i].at = "enter" /\ stack[i].node = m
                            \/ stack[i].at = "left" /\ Right(stack[i].node) = m
      BY <1>1, <2>2 DEF Waiting
    <3>2. PICK n : n = stack[i].node
      OBVIOUS
    <3>3. Right(n)' = Right(n) /\ stack'[i] = stack[i] /\ i \in 1..Len(stack')
      BY <1>1, <1>2, <3>2
    <3>4. stack'[i].node = n
      BY <3>2, <3>3
    <3>5. Right(stack[i].node)' = Right(n)
      BY <3>3, <3>4
    <3>. QED
      BY <3>1, <3>2, <3>3, <3>4, <3>5 DEF Waiting
  <2>. QED
    BY <1>2, <2>1, <2>2
<1>. QED
  BY <1>2, <1>3 DEF DoneInv

\* ... the levels ...
LEMMA StillLevels ==
  ASSUME BuildInv, StillStep
  PROVE  LevelInv' /\ \A lv : Levels(lv)' <=> Levels(lv)
<1>1. PICK S, L : S = Len(stack) /\ L = Len(tree)
  OBVIOUS
<1>2. /\ depth' = depth /\ stack' = stack /\ Len(tree') = L
      /\ \A m \in 1..L :
           Left(m)' = Left(m) /\ Right(m)' = Right(m) /\ tree'[m].is_leaf = tree[m].is_leaf
  BY <1>1, StillReads
<1>3. ASSUME NEW lv PROVE Levels(lv)' <=> Levels(lv)
  <2>1. Levels(lv)' <=>
          /\ lv \in [1..L -> 1..depth] /\ lv[1] = 1
          /\ \A n \in 1..L :
               /\ Left(n)' # NULL => lv[Left(n)'] = lv[n] + 1 /\ lv[Right(n)'] = lv[n] + 1
               /\ tree'[n].is_leaf => lv[n] = depth
          /\ \A i \in 1..Len(stack) : lv[stack[i].node] = i
    BY <1>2, Zenon DEF Levels
  <2>2. Levels(lv)' <=>
          /\ lv \in [1..L -> 1..depth] /\ lv[1] = 1
          /\ \A n \in 1..L :
               /\ Left(n) # NULL => lv[Left(n)] = lv[n] + 1 /\ lv[Right(n)] = lv[n] + 1
               /\ tree[n].is_leaf => lv[n] = depth
          /\ \A i \in 1..Len(stack) : lv[stack[i].node] = i
    BY <1>2, <2>1
  <2>. QED
    BY <1>1, <2>2, Zenon DEF Levels
<1>4. PICK lv : Levels(lv)
  BY DEF BuildInv, LevelInv
<1>. QED
  BY <1>3, <1>4 DEF LevelInv

\* ... and all of BuildInv.
LEMMA StillKeeps ==
  ASSUME BuildInv, StillStep
  PROVE  BuildInv'
<1>1. PackageInv'
  BY SamePackage DEF BuildInv, StillStep, PackageInv, package
<1>2. CountInv'
  <2>1. PICK t : Counts(t)
    BY DEF BuildInv, CountInv, StillStep
  <2>2. depth' = depth /\ stack' = stack /\ Len(tree') = Len(tree)
    BY StillReads
  <2>3. Counts(t)'
    BY <2>1, <2>2 DEF Counts
  <2>. QED
    BY <2>3 DEF CountInv
<1>. QED
  BY <1>1, <1>2, StillShape, StillStack, StillComputed, StillDone, StillLevels DEF BuildInv

-----------------------------------------------------------------------------
(***************************************************************************)
(* The beginning                                                           *)
(***************************************************************************)

\* A function on 1..n is a sequence of length n.
LEMMA FunctionIsSequence ==
  ASSUME NEW n \in Nat, NEW X, NEW f \in [1..n -> X]
  PROVE  f \in Seq(X) /\ Len(f) = n
OBVIOUS

\* A sequence is one over its own elements.
LEMMA OwnElements ==
  ASSUME NEW n \in Nat, NEW f, f = [i \in 1..n |-> f[i]], NEW Y, ToSet(f) \subseteq Y
  PROVE  f \in Seq(Y) /\ Len(f) = n
<1>1. DOMAIN f = 1..n
  OBVIOUS
<1>2. \A i \in 1..n : f[i] \in Y
  BY <1>1 DEF ToSet
<1>3. f \in [1..n -> Y]
  BY <1>2
<1>. QED
  BY ONLY <1>3, n \in Nat, FunctionIsSequence

\* The tree before hashChunk: a root.
LEMMA RootOnly ==
  ASSUME tree = <<NewNode(NULL)>>
  PROVE  /\ Len(tree) = 1 /\ ShapeInv /\ Fresh(1) /\ Left(1) = NULL
         /\ tree[1].computed = Garbage /\ ~tree[1].is_leaf /\ 1..Len(tree) = {1}
<1>1. PICK r : r = NewNode(NULL)
  OBVIOUS
<1>2. /\ r \in NodeType /\ r.parent = NULL /\ r.left = NULL
      /\ r.right = NULL /\ ~r.is_leaf /\ r.computed = Garbage
  BY <1>1, NewNodeIs DEF NULL
<1>3. tree \in Seq(NodeType) /\ Len(tree) = 1 /\ tree[1] = r
  <2>1. tree = <<r>>
    BY <1>1
  <2>2. <<r>> \in Seq(NodeType) /\ Len(<<r>>) = 1 /\ <<r>>[1] = r
    BY <1>2, OneSeq
  <2>. QED
    BY <2>1, <2>2
<1>4. 1..Len(tree) = {1}
  BY <1>3
<1>5. ShapeOf(1)
  BY <1>2, <1>3 DEF ShapeOf
<1>6. ShapeInv
  BY <1>2, <1>3, <1>4, <1>5 DEF ShapeInv
<1>. QED
  BY <1>2, <1>3, <1>4, <1>6 DEF Fresh, Left

\* The hashes of the data are of clean symbols.
LEMMA HashOfIs ==
  ASSUME NEW c \in Content
  PROVE  HashOf(c) \in Seq(Clean)
<1>1. c \in Clean
  BY DEF Clean
<1>. QED
  BY <1>1, OneSeq DEF HashOf

\* hashChunk and the call of recursiveTree on the root.
LEMMA HashChunkKeeps ==
  ASSUME BuildInv, HashChunk
  PROVE  BuildInv'
<1>1. /\ UNCHANGED package /\ tree' = tree /\ phase = "hash" /\ phase' = "build"
      /\ hash' \in {[i \in 1..nchunks |-> HashOf(data[i])], <<>>}
      /\ stack' = <<Frame(1, 1, 0, "enter")>>
  BY DEF HashChunk
<1>2. /\ nchunks' = nchunks /\ nhashes' = nhashes /\ depth' = depth
      /\ PackageHashes' = PackageHashes /\ NodeType' = NodeType
  BY <1>1, SamePackage
<1>3. /\ Len(tree) = 1 /\ ShapeInv /\ Fresh(1) /\ Left(1) = NULL
      /\ tree[1].computed = Garbage /\ ~tree[1].is_leaf /\ 1..Len(tree) = {1}
  BY <1>1, RootOnly DEF BuildInv, StackInv
<1>4. /\ nchunks \in Nat \ {0} /\ depth \in Nat \ {0} /\ Pow[0] = 1 /\ Pow[depth] \in Nat \ {0}
  BY PackageIs, PowIs DEF BuildInv
<1>5. PackageInv'
  <2>1. hash' \in Seq(Seq(Clean)) /\ (hash' = <<>> \/ Len(hash') = nchunks)
    <3>1. CASE hash' = <<>>
      BY <3>1, EmptySeq
    <3>2. CASE hash' = [i \in 1..nchunks |-> HashOf(data[i])]
      <4>1. PICK n, X : n = nchunks /\ X = Seq(Clean)
        OBVIOUS
      <4>2. data \in [1..n -> Content] /\ n \in Nat
        BY <1>4, <4>1, LenProperties DEF BuildInv, PackageInv
      <4>3. \A i \in 1..n : HashOf(data[i]) \in X
        BY <4>1, <4>2, HashOfIs
      <4>4. hash' \in [1..n -> X]
        BY <3>2, <4>1, <4>3
      <4>5. PICK f : f = hash'
        OBVIOUS
      <4>6. f \in Seq(X) /\ Len(f) = n
        BY ONLY <4>2, <4>4, <4>5, FunctionIsSequence
      <4>. QED
        BY <4>1, <4>5, <4>6
    <3>. QED
      BY <1>1, <3>1, <3>2
  <2>. QED
    BY <1>1, <1>2, <2>1 DEF BuildInv, PackageInv, package, Phases
<1>6. ShapeInv'
  BY <1>1, <1>2, <1>3 DEF ShapeInv, ShapeOf
<1>7. PICK f : f = Frame(1, 1, 0, "enter")
  OBVIOUS
<1>8. f.node = 1 /\ f.level = 1 /\ f.position = 0 /\ f.at = "enter" /\ f \in FrameType
  BY <1>7, FrameIs, FrameTyped
<1>9. stack' \in Seq(FrameType) /\ Len(stack') = 1 /\ stack'[1] = f
  <2>1. <<f>> \in Seq(FrameType) /\ Len(<<f>>) = 1 /\ <<f>>[1] = f
    BY <1>8, OneSeq
  <2>. QED
    BY <1>1, <1>7, <2>1
<1>10. StackInv'
  <2>1. FrameOK(1)'
    <3>1. Fresh(1)'
      BY <1>1, <1>3 DEF Fresh
    <3>2. 1 \in 1..Len(tree')
      BY <1>1, <1>3
    <3>. QED
      BY <1>4, <1>8, <1>9, <3>1, <3>2 DEF FrameOK
  <2>2. \A i \in 1..Len(stack') : i = 1
    BY <1>9
  <2>3. Len(stack') <= depth' /\ stack'[1].node = 1
    BY <1>2, <1>4, <1>8, <1>9
  <2>. QED
    BY <1>1, <1>9, <2>1, <2>2, <2>3 DEF StackInv
<1>11. ComputedInv'
  BY <1>1, <1>3 DEF ComputedInv, Left
<1>12. DoneInv'
  <2>1. Waiting(1)'
    BY <1>8, <1>9 DEF Waiting
  <2>2. 1..Len(tree') = {1}
    BY <1>1, <1>3
  <2>. QED
    BY <2>1, <2>2 DEF DoneInv
<1>13. CountInv'
  <2>1. PICK p : p = Pow[depth] - 1
    OBVIOUS
  <2>. DEFINE t == [i \in 0..1 |-> IF i = 0 THEN p ELSE 1]
  <2>2. t[0] = p /\ t[1] = 1 /\ t \in [0..1 -> Int] /\ p \in Int /\ 1 <= p
    <3>1. Pow[depth] = 2 * Pow[depth - 1] /\ Pow[depth - 1] \in Nat \ {0}
      <4>1. depth - 1 \in Nat /\ (depth - 1) + 1 = depth
        BY <1>4
      <4>. QED
        BY <4>1, PowIs
    <3>. QED
      BY <1>4, <2>1, <3>1
  <2>3. PendingOf(depth', stack'[1].at, 1) = Pow[depth] - 2
    <3>1. depth - 1 + 1 = depth
      BY <1>4
    <3>. QED
      BY <1>2, <1>8, <1>9, <3>1 DEF PendingOf
  <2>. HIDE DEF t
  <2>4. t[1] = t[0] - PendingOf(depth', stack'[1].at, 1)
    BY <1>4, <2>1, <2>2, <2>3
  <2>5. \A i \in 1..Len(stack') : t[i] = t[i - 1] - PendingOf(depth', stack'[i].at, i)
    BY <1>9, <2>4
  <2>6. \A i \in 0..Len(stack') : t[i] <= Pow[depth'] - 1
    BY <1>2, <1>9, <2>1, <2>2
  <2>7. Counts(t)'
    BY <1>1, <1>2, <1>3, <1>9, <2>1, <2>2, <2>5, <2>6 DEF Counts
  <2>. QED
    BY <2>7 DEF CountInv
<1>14. LevelInv'
  <2>. DEFINE lv == [i \in {1} |-> 1]
  <2>1. 1 \in 1..depth
    BY <1>4
  <2>2. lv \in [{1} -> 1..depth] /\ lv[1] = 1
    BY <2>1
  <2>. HIDE DEF lv
  <2>3. \A i \in 1..Len(stack') : i = 1
    BY <1>9
  <2>4. 1..Len(tree') = {1} /\ Left(1)' = NULL /\ ~tree'[1].is_leaf
    BY <1>1, <1>3 DEF Left
  <2>5. Levels(lv)'
    BY <1>2, <1>8, <1>9, <2>2, <2>3, <2>4 DEF Levels
  <2>. QED
    BY <2>5 DEF LevelInv
<1>. QED
  BY <1>5, <1>6, <1>10, <1>11, <1>12, <1>13, <1>14 DEF BuildInv

\* A package is made of the hashes of some content, and some hashes are bogus.
LEMMA PackageOf ==
  ASSUME NEW n, NEW p \in Packages(n)
  PROVE  \E c \in [1..n -> Content], bogus \in SUBSET (1..(n - 1)) :
           p = [chunks |-> [i \in 1..n |-> HashOf(c[i])],
                hashes |-> [k \in 1..(n - 1) |->
                             IF k \in bogus THEN Bogus
                             ELSE HashesOver([i \in 1..n |-> HashOf(c[i])])[k]]]
<1>. DEFINE R(c, bogus) ==
       [chunks |-> [i \in 1..n |-> HashOf(c[i])],
        hashes |-> [k \in 1..(n - 1) |->
                     IF k \in bogus THEN Bogus
                     ELSE HashesOver([i \in 1..n |-> HashOf(c[i])])[k]]]
<1>1. p \in {R(c, bogus) : c \in [1..n -> Content], bogus \in SUBSET (1..(n - 1))}
  BY DEF Packages
<1>2. \E c \in [1..n -> Content], bogus \in SUBSET (1..(n - 1)) : p = R(c, bogus)
  <2>. HIDE DEF R
  <2>. QED
    BY <1>1
<1>. QED
  BY <1>2

\* The initial states.
LEMMA InitPackage ==
  ASSUME QueryInit
  PROVE  PackageInv
<1>11. PICK n \in NChunks : \E p \in Packages(n) :
         chunks = p.chunks /\ hashes = p.hashes /\ data \in [1..n -> Content]
  BY DEF QueryInit, Init
<1>1. PICK p \in Packages(n) :
        chunks = p.chunks /\ hashes = p.hashes /\ data \in [1..n -> Content]
  BY <1>11
<1>2. n \in Nat \ {0} /\ n \in Nat /\ n - 1 \in Nat
  BY NChunksAssumption, <1>1
<1>3. PICK c \in [1..n -> Content], bogus \in SUBSET (1..(n - 1)) :
        p = [chunks |-> [i \in 1..n |-> HashOf(c[i])],
             hashes |-> [k \in 1..(n - 1) |->
                          IF k \in bogus THEN Bogus
                          ELSE HashesOver([i \in 1..n |-> HashOf(c[i])])[k]]]
  BY <1>1, PackageOf
<1>4. chunks = [i \in 1..n |-> chunks[i]] /\ hashes = [k \in 1..(n - 1) |-> hashes[k]]
  <2>1. chunks = [i \in 1..n |-> HashOf(c[i])]
    BY <1>1, <1>3
  <2>2. hashes = [k \in 1..(n - 1) |->
                   IF k \in bogus THEN Bogus
                   ELSE HashesOver([i \in 1..n |-> HashOf(c[i])])[k]]
    BY <1>1, <1>3
  <2>. QED
    BY <2>1, <2>2
<1>5. PICK Y : Y = PackageHashes
  OBVIOUS
<1>6. ToSet(chunks) \subseteq Y /\ ToSet(hashes) \subseteq Y
  BY <1>5 DEF PackageHashes
<1>7. chunks \in Seq(Y) /\ Len(chunks) = n
  BY ONLY <1>2, <1>4, <1>6, OwnElements
<1>8. hashes \in Seq(Y) /\ Len(hashes) = n - 1
  BY ONLY <1>2, <1>4, <1>6, OwnElements
<1>9. data \in Seq(Content) /\ Len(data) = n
  <2>1. PICK f : f = data
    OBVIOUS
  <2>2. f \in [1..n -> Content] /\ n \in Nat
    BY <1>1, <1>2, <2>1
  <2>3. f \in Seq(Content) /\ Len(f) = n
    BY ONLY <2>2, FunctionIsSequence
  <2>. QED
    BY <2>1, <2>3
<1>10. hash = <<>> /\ hash \in Seq(Seq(Clean)) /\ phase = "hash"
  BY EmptySeq DEF QueryInit, Init
<1>. QED
  BY <1>1, <1>5, <1>7, <1>8, <1>9, <1>10 DEF PackageInv, nchunks, nhashes, Phases

\* A root without hash, no frame and no level but the first.
LEMMA InitBuild ==
  ASSUME QueryInit
  PROVE  BuildInv
<1>1. tree = <<NewNode(NULL)>> /\ stack = <<>> /\ phase = "hash"
  BY DEF QueryInit, Init
<1>2. /\ Len(tree) = 1 /\ ShapeInv /\ Left(1) = NULL
      /\ tree[1].computed = Garbage /\ ~tree[1].is_leaf /\ 1..Len(tree) = {1}
  BY <1>1, RootOnly
<1>3. PackageInv /\ depth \in Nat \ {0}
  BY InitPackage, PackageIs
<1>4. Len(stack) = 0 /\ stack \in Seq(FrameType) /\ 1..Len(stack) = {}
  <2>1. <<>> \in Seq(FrameType) /\ Len(<<>>) = 0
    BY EmptySeq
  <2>2. 1..0 = {}
    OBVIOUS
  <2>. QED
    BY <1>1, <2>1, <2>2
<1>5. StackInv
  BY <1>1, <1>3, <1>4 DEF StackInv
<1>6. ComputedInv
  BY <1>2 DEF ComputedInv
<1>7. DoneInv /\ CountInv
  BY <1>1 DEF DoneInv, CountInv
<1>8. LevelInv
  <2>. DEFINE lv == [i \in {1} |-> 1]
  <2>1. 1 \in 1..depth
    BY <1>3
  <2>2. lv \in [{1} -> 1..depth] /\ lv[1] = 1
    BY <2>1
  <2>. HIDE DEF lv
  <2>3. Levels(lv)
    BY <1>2, <1>4, <2>2 DEF Levels
  <2>. QED
    BY <2>3 DEF LevelInv
<1>. QED
  BY <1>2, <1>3, <1>5, <1>6, <1>7, <1>8 DEF BuildInv

-----------------------------------------------------------------------------
(***************************************************************************)
(* levelOrderAddHash                                                       *)
(***************************************************************************)

\* A step of recursiveTree, whichever it is.
Grows == (Descend \/ DescendAgain \/ Return \/ Leaf) /\ UNCHANGED queryVars

\* Each of them keeps BuildInv.
LEMMA GrowsKeeps ==
  ASSUME BuildInv, Grows
  PROVE  BuildInv'
<1>1. /\ BuildStep /\ hash' = hash /\ stack # <<>>
  BY DEF Grows, Descend, DescendAgain, Return, Leaf, Building, BuildStep
<1>2. PackageInv'
  BY <1>1, SamePackage DEF BuildInv, BuildStep, PackageInv, package, Phases
<1>3. CASE Descend
  <2>1. DescendedTop
    BY <1>3, DescendIs DEF BuildInv, DescendedTop
  <2>. QED
    BY <1>1, <1>2, <2>1, DescendedShape, DescendedStack, DescendedComputed, DescendedDone,
       DescendedLevels, DescendedCount DEF BuildInv
<1>4. CASE DescendAgain
  <2>1. TurnedTop
    BY <1>4, DescendAgainIs DEF BuildInv, TurnedTop
  <2>. QED
    BY <1>1, <1>2, <2>1, TurnedShape, TurnedStack, TurnedComputed, TurnedDone,
       TurnedLevels, TurnedCount DEF BuildInv
<1>5. CASE Return \/ Leaf
  <2>1. ReturnedTop
    BY <1>5, ReturnIs, LeafIs DEF BuildInv
  <2>. QED
    BY <1>1, <1>2, <2>1, ReturnedShape, ReturnedStack, ReturnedComputed, ReturnedDone,
       ReturnedLevels, ReturnedCount DEF BuildInv
<1>. QED
  BY <1>3, <1>4, <1>5 DEF Grows

\* A step that leaves the tree alone.
LEMMA TreeAlone ==
  ASSUME BuildInv, tree' = tree, UNCHANGED package, hash' = hash, stack' = stack,
         phase # "hash", phase' # "hash", phase' \in Phases,
         stack = <<>> \/ phase' \in {"build", "fault"}
  PROVE  StillStep
<1>1. tree \in Seq(NodeType)
  BY DEF BuildInv, ShapeInv
<1>. QED
  BY <1>1 DEF StillStep, SameTree

\* Nothing happens.
LEMMA StutterKeeps ==
  ASSUME AllInv, UNCHANGED allVars
  PROVE  AllInv'
<1>1. /\ UNCHANGED package /\ hash' = hash /\ tree' = tree /\ stack' = stack /\ phase' = phase
      /\ queue' = queue /\ index' = index /\ index2' = index2 /\ UNCHANGED queryVars
  BY DEF allVars, vars, build
<1>2. /\ nchunks' = nchunks /\ nhashes' = nhashes /\ depth' = depth
      /\ PackageHashes' = PackageHashes /\ NodeType' = NodeType
  BY <1>1, SamePackage
<1>8. BuildInv /\ ExpectInv
  BY DEF AllInv
<1>9. PackageInv' /\ ShapeInv'
  BY <1>1, <1>2, <1>8 DEF BuildInv, PackageInv, ShapeInv, ShapeOf, package
<1>3. LevelInv' /\ CountInv'
  <2>1. LevelInv'
    BY <1>1, <1>2, <1>8 DEF BuildInv, LevelInv, Levels, Left, Right
  <2>2. CountInv'
    BY <1>1, <1>2, <1>8 DEF BuildInv, CountInv, Counts
  <2>. QED
    BY <2>1, <2>2
<1>4. StackInv' /\ ComputedInv' /\ DoneInv'
  <2>1. StackInv'
    <3>1. \A i : FrameOK(i)' <=> FrameOK(i)
      BY <1>1, <1>2 DEF FrameOK, Fresh, Left, Right
    <3>. QED
      BY <1>1, <1>2, <1>8, <3>1 DEF BuildInv, StackInv
  <2>2. ComputedInv'
    BY <1>1, <1>2, <1>8 DEF BuildInv, ComputedInv, OnStack, Left, Right
  <2>3. DoneInv'
    BY <1>1, <1>2, <1>8 DEF BuildInv, DoneInv, Waiting, Fresh, Left, Right
  <2>. QED
    BY <2>1, <2>2, <2>3
<1>5. ExpectInv'
  <2>1. \A V : Traversal(queue, V) => Traversal(queue, V)'
    BY <1>1, <1>2 DEF Traversal, InQueue
  <2>. QED
    BY <1>1, <1>2, <1>8, <2>1 DEF ExpectInv
<1>6. FreeInv'
  BY <1>1, <1>2 DEF AllInv, FreeInv, Traversal, InQueue, queryVars
<1>7. QueryInv'
  <2>1. \A lv : Levels(lv)' <=> Levels(lv)
    BY <1>1, <1>2 DEF Levels, Left, Right
  <2>. QED
    BY <1>1, <1>2, <2>1 DEF AllInv, QueryInv, queryVars
<1>. QED
  BY <1>3, <1>4, <1>5, <1>6, <1>7, <1>9 DEF AllInv, BuildInv

\* The step of levelOrderAddHash: what it takes from the package is there.
LEMMA ExpectIs ==
  ASSUME AllInv, Expect
  PROVE  \E h, x, V :
           /\ h = Head(queue) /\ h \in 1..Len(tree) /\ x \in PackageHashes
           /\ h \notin V /\ Traversal(queue, V) /\ Traversal(Tail(queue) \o Children(h), V \cup {h})
           /\ \A n \in V : tree[n].expected \in PackageHashes
           /\ tree' = [tree EXCEPT ![h].expected = x]
           /\ index' \in 0..nhashes /\ index2' \in 0..nchunks
           /\ index' < nhashes => index2' = 0
           /\ index' + index2' = Cardinality(V \cup {h})
<1>1. PICK h : h = Head(queue)
  OBVIOUS
<1>2. /\ phase = "expect" /\ queue # <<>>
      /\ IF index < nhashes
           THEN /\ tree' = [tree EXCEPT ![h].expected = hashes[index + 1]]
                /\ index' = index + 1 /\ index2' = index2
           ELSE /\ tree' = [tree EXCEPT ![h].expected = chunks[index2 + 1]]
                /\ index2' = index2 + 1 /\ index' = index
  BY <1>1 DEF Expect
<1>3. /\ index \in 0..nhashes /\ index2 \in 0..nchunks
      /\ index < nhashes => index2 = 0
  BY <1>2 DEF AllInv, ExpectInv
<1>4. PICK V : /\ Traversal(queue, V) /\ index + index2 = Cardinality(V)
               /\ \A n \in V : tree[n].expected \in PackageHashes
  BY <1>2 DEF AllInv, ExpectInv
<1>5. ShapeInv /\ PackageInv
  BY DEF AllInv, BuildInv
<1>6. /\ h \in 1..Len(tree) /\ h \notin V
      /\ Traversal(Tail(queue) \o Children(h), V \cup {h})
  BY <1>1, <1>2, <1>4, <1>5, TraversalStep
<1>7. V \in SUBSET (1..Len(tree))
  BY <1>4 DEF Traversal
<1>8. Cardinality(V \cup {h}) = Cardinality(V) + 1 /\ Cardinality(V) + 1 <= Len(tree)
  BY <1>5, <1>6, <1>7, VisitedCount
<1>9. PICK nc, nh, d : nc = nchunks /\ nh = nhashes /\ d = depth
  OBVIOUS
<1>10. nc \in Nat \ {0} /\ nh = nc - 1 /\ d \in Nat \ {0} /\ Pow[d - 1] <= nc
  BY <1>5, <1>9, PackageIs
<1>11. Len(tree) <= 2 * nc - 1
  <2>1. Len(tree) <= Pow[d] - 1
    <3>1. PICK t : Counts(t)
      BY <1>2 DEF AllInv, BuildInv, CountInv
    <3>2. Len(stack) \in 0..Len(stack)
      <4>1. Len(stack) \in Nat
        BY LenProperties DEF AllInv, BuildInv, StackInv
      <4>. QED
        BY <4>1
    <3>. QED
      BY <1>9, <3>1, <3>2 DEF Counts
  <2>2. Pow[d] = 2 * Pow[d - 1] /\ Pow[d - 1] \in Nat /\ Pow[d] \in Nat
    <3>1. d - 1 \in Nat /\ (d - 1) + 1 = d /\ d \in Nat
      BY <1>10
    <3>. QED
      BY <3>1, PowIs
  <2>3. Len(tree) \in Nat
    BY <1>5, TreeLen
  <2>. QED
    BY <1>10, <2>1, <2>2, <2>3
<1>12. hashes \in Seq(PackageHashes) /\ chunks \in Seq(PackageHashes) /\ Len(chunks) = nc /\ Len(hashes) = nh
  BY <1>5, <1>9 DEF PackageInv, nchunks, nhashes
<1>13. index + index2 + 1 <= 2 * nc - 1
  <2>1. Len(tree) \in Nat
    BY <1>5, TreeLen
  <2>. QED
    BY <1>3, <1>4, <1>8, <1>9, <1>10, <1>11, <2>1
<1>14. CASE index < nh
  <2>1. index + 1 \in 1..nh /\ index2 = 0 /\ index + 1 \in 0..nh
    BY <1>3, <1>9, <1>10, <1>14
  <2>2. hashes[index + 1] \in PackageHashes
    BY <1>12, <2>1, ElementOfSeq
  <2>3. tree' = [tree EXCEPT ![h].expected = hashes[index + 1]] /\ index' = index + 1 /\ index2' = 0
    BY <1>2, <1>9, <1>14, <2>1
  <2>4. index' + index2' = Cardinality(V \cup {h})
    BY <1>3, <1>4, <1>8, <1>9, <1>10, <2>1, <2>3
  <2>5. index2' \in 0..nchunks
    BY <1>9, <1>10, <2>3
  <2>. QED
    BY <1>1, <1>4, <1>6, <1>9, <2>1, <2>2, <2>3, <2>4, <2>5
<1>15. CASE ~(index < nh)
  <2>1. index = nh /\ index2 + 1 \in 1..nc /\ index2 + 1 \in 0..nc
    BY <1>3, <1>9, <1>10, <1>13, <1>15
  <2>2. chunks[index2 + 1] \in PackageHashes
    BY <1>12, <2>1, ElementOfSeq
  <2>3. tree' = [tree EXCEPT ![h].expected = chunks[index2 + 1]] /\ index2' = index2 + 1 /\ index' = nh
    BY <1>2, <1>9, <1>15, <2>1
  <2>4. index' + index2' = Cardinality(V \cup {h})
    BY <1>3, <1>4, <1>8, <1>9, <1>10, <2>1, <2>3
  <2>5. ~(index' < nhashes) /\ index' \in 0..nhashes
    BY <1>3, <1>9, <1>10, <2>3
  <2>. QED
    BY <1>1, <1>4, <1>6, <1>9, <2>1, <2>2, <2>3, <2>4, <2>5
<1>. QED
  BY <1>14, <1>15

\* A node that takes an expected hash.
LEMMA ExpectedNode ==
  ASSUME NEW m \in NodeType, NEW x \in PackageHashes
  PROVE  /\ [m EXCEPT !.expected = x] \in NodeType
         /\ [m EXCEPT !.expected = x].parent = m.parent
         /\ [m EXCEPT !.expected = x].left = m.left /\ [m EXCEPT !.expected = x].right = m.right
         /\ [m EXCEPT !.expected = x].is_leaf = m.is_leaf
         /\ [m EXCEPT !.expected = x].computed = m.computed
         /\ [m EXCEPT !.expected = x].expected = x
BY DEF NodeType

\* The step changes the expected hash of the node it has popped, and no other.
LEMMA ExpectStill ==
  ASSUME AllInv, Expect, NEW h \in 1..Len(tree), NEW x \in PackageHashes,
         tree' = [tree EXCEPT ![h].expected = x]
  PROVE  /\ StillStep
         /\ \A m \in 1..Len(tree) : m # h => tree'[m].expected = tree[m].expected
         /\ tree'[h].expected = x
<1>1. ShapeInv /\ tree \in Seq(NodeType)
  BY DEF AllInv, BuildInv, ShapeInv
<1>2. PICK L, e : L = Len(tree) /\ e = [tree[h] EXCEPT !.expected = x]
  OBVIOUS
<1>3. tree[h] \in NodeType
  BY <1>1, NodeIs
<1>4. /\ e \in NodeType /\ e.parent = tree[h].parent /\ e.left = tree[h].left
      /\ e.right = tree[h].right /\ e.is_leaf = tree[h].is_leaf
      /\ e.computed = tree[h].computed /\ e.expected = x
  BY <1>2, <1>3, ExpectedNode
<1>5. tree \in [1..L -> NodeType] /\ L \in Nat
  BY <1>1, <1>2, LenProperties
<1>6. tree' = [tree EXCEPT ![h] = e]
  BY <1>2
<1>7. tree' \in [1..L -> NodeType] /\ tree'[h] = e /\ \A m \in 1..L : m # h => tree'[m] = tree[m]
  BY <1>2, <1>4, <1>5, <1>6
<1>8. tree' \in Seq(NodeType) /\ Len(tree') = L
  <2>1. PICK f : f = tree'
    OBVIOUS
  <2>2. f \in [1..L -> NodeType]
    BY <1>7, <2>1
  <2>3. f \in Seq(NodeType) /\ Len(f) = L
    BY ONLY <1>5, <2>2, FunctionIsSequence
  <2>. QED
    BY <2>1, <2>3
<1>9. SameTree
  <2>1. ASSUME NEW m \in 1..L
        PROVE  /\ tree'[m].parent = tree[m].parent /\ tree'[m].left = tree[m].left
               /\ tree'[m].right = tree[m].right /\ tree'[m].is_leaf = tree[m].is_leaf
               /\ tree'[m].computed = tree[m].computed
    BY <1>4, <1>7
  <2>. QED
    BY <1>2, <1>8, <2>1 DEF SameTree
<1>10. /\ UNCHANGED package /\ hash' = hash /\ stack' = stack /\ phase = "expect" /\ phase' = "expect"
  BY DEF Expect
<1>11. stack = <<>> /\ phase \in Phases
  BY <1>10 DEF AllInv, BuildInv, StackInv, PackageInv
<1>12. StillStep
  BY <1>9, <1>10, <1>11 DEF StillStep, Phases
<1>. QED
  BY <1>2, <1>4, <1>7, <1>12

\* Until the tree is built nothing is expected, asked or freed.
LEMMA BuildingRest ==
  ASSUME AllInv, UNCHANGED package, phase \in {"hash", "build"}, phase' \in {"build", "fault"},
         queue' = queue, index' = index, index2' = index2, UNCHANGED queryVars
  PROVE  ExpectInv' /\ FreeInv' /\ QueryInv'
<1>1. nchunks' = nchunks /\ nhashes' = nhashes /\ PackageHashes' = PackageHashes
  BY SamePackage
<1>2. index = 0 /\ index2 = 0 /\ index \in 0..nhashes /\ index2 \in 0..nchunks
  BY DEF AllInv, ExpectInv
<1>3. ExpectInv'
  BY <1>1, <1>2 DEF ExpectInv
<1>4. FreeInv'
  BY DEF AllInv, FreeInv, queryVars
<1>5. queue = <<>> /\ query = "none" /\ qry = <<>>
  BY DEF AllInv, QueryInv
<1>6. queue' \in Seq(1..Len(tree')) /\ qry' \in Seq(PackageHashes)
  BY <1>5, EmptySeq DEF queryVars
<1>7. QueryInv'
  BY <1>1, <1>5, <1>6 DEF QueryInv, Queries, queryVars
<1>. QED
  BY <1>3, <1>4, <1>7

\* The steps from hashChunk to the return of recursiveTree.
LEMMA BuildingKeeps ==
  ASSUME AllInv, ((HashChunk \/ LeafFault) /\ UNCHANGED queryVars) \/ Grows
  PROVE  AllInv'
<1>1. /\ UNCHANGED package /\ phase \in {"hash", "build"} /\ phase' \in {"build", "fault"}
      /\ queue' = queue /\ index' = index /\ index2' = index2 /\ UNCHANGED queryVars
  BY DEF HashChunk, LeafFault, Grows, Descend, DescendAgain, Return, Leaf, Building, build
<1>2. ExpectInv' /\ FreeInv' /\ QueryInv'
  BY <1>1, BuildingRest
<1>3. BuildInv
  BY DEF AllInv
<1>4. CASE HashChunk
  BY <1>2, <1>3, <1>4, HashChunkKeeps DEF AllInv
<1>5. CASE LeafFault
  <2>1. StillStep
    BY <1>1, <1>3, <1>5, TreeAlone DEF LeafFault, Building, build, Phases
  <2>. QED
    BY <1>2, <1>3, <2>1, StillKeeps DEF AllInv
<1>6. CASE Grows
  BY <1>2, <1>3, <1>6, GrowsKeeps DEF AllInv
<1>. QED
  BY <1>4, <1>5, <1>6

\* levelOrderAddHash starts its traversal at the root ...
LEMMA BuildEndKeeps ==
  ASSUME AllInv, BuildEnd, UNCHANGED queryVars
  PROVE  AllInv'
<1>1. /\ phase = "build" /\ stack = <<>> /\ phase' = "expect" /\ queue' = << 1 >>
      /\ UNCHANGED package /\ hash' = hash /\ tree' = tree /\ stack' = stack
      /\ index' = index /\ index2' = index2
  BY DEF BuildEnd, build
<1>2. BuildInv /\ ShapeInv
  BY DEF AllInv, BuildInv
<1>3. StillStep
  BY <1>1, <1>2, TreeAlone DEF Phases
<1>4. BuildInv'
  BY <1>2, <1>3, StillKeeps
<1>5. nchunks' = nchunks /\ nhashes' = nhashes /\ PackageHashes' = PackageHashes
  BY <1>1, SamePackage
<1>6. PICK q, V : q = << 1 >> /\ V = {}
  OBVIOUS
<1>7. Traversal(q, V)
  BY <1>2, <1>6, TraversalStart
<1>8. Traversal(q, V)'
  BY <1>1, <1>7, TraversalKept
<1>9. index = 0 /\ index2 = 0 /\ index \in 0..nhashes /\ index2 \in 0..nchunks
  BY <1>1 DEF AllInv, ExpectInv
<1>10. Cardinality(V) = 0
  BY <1>6, FS_EmptySet
<1>11. Traversal(queue, V)'
  BY <1>1, <1>6, <1>8 DEF Traversal, InQueue
<1>12. ExpectInv'
  BY <1>1, <1>5, <1>6, <1>9, <1>10, <1>11 DEF ExpectInv
<1>13. FreeInv'
  BY <1>1 DEF AllInv, FreeInv, queryVars
<1>14. QueryInv'
  <2>1. queue' \in Seq(1..Len(tree'))
    BY <1>11 DEF Traversal
  <2>. QED
    BY <1>1, <1>5, <2>1 DEF AllInv, QueryInv, queryVars
<1>. QED
  BY <1>4, <1>12, <1>13, <1>14 DEF AllInv

\* ... gives the node at the head of the queue a hash of the package ...
LEMMA ExpectKeeps ==
  ASSUME AllInv, Expect, UNCHANGED queryVars
  PROVE  AllInv'
<1>1. PICK h, x, V :
        /\ h = Head(queue) /\ h \in 1..Len(tree) /\ x \in PackageHashes
        /\ h \notin V /\ Traversal(queue, V) /\ Traversal(Tail(queue) \o Children(h), V \cup {h})
        /\ \A n \in V : tree[n].expected \in PackageHashes
        /\ tree' = [tree EXCEPT ![h].expected = x]
        /\ index' \in 0..nhashes /\ index2' \in 0..nchunks
        /\ index' < nhashes => index2' = 0
        /\ index' + index2' = Cardinality(V \cup {h})
  BY ExpectIs
<1>2. BuildInv /\ ShapeInv /\ phase = "expect" /\ phase' = "expect" /\ UNCHANGED package
      /\ queue' = Tail(queue) \o Children(h)
  BY <1>1 DEF AllInv, BuildInv, Expect
<1>3. /\ StillStep
      /\ \A m \in 1..Len(tree) : m # h => tree'[m].expected = tree[m].expected
      /\ tree'[h].expected = x
  BY ZenonT(60), <1>1, ExpectStill
<1>4. BuildInv'
  BY <1>2, <1>3, StillKeeps
<1>5. nchunks' = nchunks /\ nhashes' = nhashes /\ PackageHashes' = PackageHashes
  BY <1>2, SamePackage
<1>6. PICK q, W : q = queue' /\ W = V \cup {h}
  OBVIOUS
<1>7. Traversal(q, W)
  BY <1>1, <1>2, <1>6
<1>8. Traversal(q, W)'
  <2>1. Len(tree') = Len(tree) /\ \A m \in 1..Len(tree) : tree'[m].parent = tree[m].parent
    BY <1>3 DEF StillStep, SameTree
  <2>. QED
    BY <1>7, <2>1, TraversalKept
<1>9. Traversal(queue, W)'
  BY <1>6, <1>8 DEF Traversal, InQueue
<1>10. \A n \in W : tree'[n].expected \in PackageHashes
  <2>1. V \subseteq 1..Len(tree)
    BY <1>1 DEF Traversal
  <2>. QED
    BY <1>1, <1>3, <1>6, <2>1
<1>11. ExpectInv'
  BY <1>1, <1>2, <1>5, <1>6, <1>9, <1>10 DEF ExpectInv
<1>12. FreeInv'
  BY <1>2 DEF AllInv, FreeInv, queryVars
<1>13. QueryInv'
  <2>1. queue' \in Seq(1..Len(tree'))
    BY <1>9 DEF Traversal
  <2>. QED
    BY <1>2, <1>5, <2>1 DEF AllInv, QueryInv, queryVars
<1>. QED
  BY <1>4, <1>11, <1>12, <1>13 DEF AllInv

\* ... and ends when every node has one.
LEMMA ExpectEndKeeps ==
  ASSUME AllInv, ExpectEnd, UNCHANGED queryVars
  PROVE  AllInv'
<1>1. /\ phase = "expect" /\ queue = <<>> /\ phase' = "built" /\ queue' = queue
      /\ UNCHANGED package /\ hash' = hash /\ tree' = tree /\ stack' = stack
      /\ index' = index /\ index2' = index2
  BY DEF ExpectEnd, build
<1>2. BuildInv /\ ShapeInv /\ stack = <<>>
  BY <1>1 DEF AllInv, BuildInv, StackInv
<1>3. StillStep
  BY <1>1, <1>2, TreeAlone DEF Phases
<1>4. BuildInv'
  BY <1>2, <1>3, StillKeeps
<1>5. nchunks' = nchunks /\ nhashes' = nhashes /\ PackageHashes' = PackageHashes
  BY <1>1, SamePackage
<1>6. PICK V : Traversal(queue, V) /\ \A n \in V : tree[n].expected \in PackageHashes
  BY <1>1 DEF AllInv, ExpectInv
<1>7. V = 1..Len(tree)
  <2>1. Traversal(<<>>, V)
    BY <1>1, <1>6 DEF Traversal, InQueue
  <2>. QED
    BY <1>2, <2>1, TraversalEnd
<1>8. ExpectInv'
  BY <1>1, <1>5, <1>6, <1>7 DEF AllInv, ExpectInv
<1>9. FreeInv'
  BY <1>1 DEF AllInv, FreeInv, queryVars
<1>10. QueryInv'
  BY <1>1, <1>5 DEF AllInv, QueryInv, queryVars
<1>. QED
  BY <1>4, <1>8, <1>9, <1>10 DEF AllInv

\* A step of a query or of freeTree leaves the tree as it is.
LEMMA QueryRest ==
  ASSUME AllInv, UNCHANGED treeVars, phase \in {"built", "query", "answered", "free"},
         phase' \in {"built", "query", "answered", "free", "end"}
  PROVE  /\ BuildInv' /\ ExpectInv' /\ \A lv : Levels(lv)' <=> Levels(lv)
         /\ \A q, V : Traversal(q, V) => Traversal(q, V)'
         /\ tree' = tree /\ nchunks' = nchunks /\ nhashes' = nhashes /\ depth' = depth
         /\ PackageHashes' = PackageHashes
<1>1. /\ UNCHANGED package /\ hash' = hash /\ tree' = tree /\ stack' = stack
      /\ index' = index /\ index2' = index2
  BY DEF treeVars, build
<1>2. /\ nchunks' = nchunks /\ nhashes' = nhashes /\ depth' = depth
      /\ PackageHashes' = PackageHashes
  BY <1>1, SamePackage
<1>3. BuildInv /\ stack = <<>>
  BY DEF AllInv, BuildInv, StackInv
<1>4. StillStep
  BY <1>1, <1>3, TreeAlone DEF Phases
<1>5. BuildInv' /\ \A lv : Levels(lv)' <=> Levels(lv)
  BY <1>3, <1>4, StillKeeps, StillLevels
<1>6. ExpectInv'
  BY <1>1, <1>2 DEF AllInv, ExpectInv
<1>7. ASSUME NEW q, NEW V, Traversal(q, V) PROVE Traversal(q, V)'
  BY <1>1, <1>7, TraversalKept
<1>. QED
  BY <1>1, <1>2, <1>5, <1>6, <1>7

\* A traversal that the step leaves is one of the queue it leaves.
LEMMA TraversalNext ==
  ASSUME NEW q, NEW V, q = queue', V = freed', Traversal(q, V)'
  PROVE  Traversal(queue, freed)'
BY DEF Traversal, InQueue

\* freeTree
LEMMA FreeKeeps ==
  ASSUME AllInv, FreeTree \/ FreeTreeStep \/ FreeTreeEnd
  PROVE  AllInv'
<1>1. /\ UNCHANGED treeVars /\ phase \in {"built", "free"} /\ phase' \in {"free", "end"}
      /\ query' = query /\ qry' = qry
  BY DEF FreeTree, FreeTreeStep, FreeTreeEnd, Built, queryVars
<1>2. /\ BuildInv' /\ ExpectInv' /\ \A q, V : Traversal(q, V) => Traversal(q, V)'
      /\ tree' = tree /\ PackageHashes' = PackageHashes
  BY <1>1, QueryRest
<1>3. BuildInv /\ ShapeInv
  BY DEF AllInv, BuildInv
<1>4. /\ FreeInv' /\ queue' \in Seq(1..Len(tree')) /\ (phase' = "end" => queue' = <<>>)
  <2>1. CASE FreeTree
    <3>1. queue' = << 1 >> /\ freed' = freed /\ freed = {} /\ phase' = "free"
      BY <2>1 DEF AllInv, FreeInv, FreeTree, Built, Root, queryVars
    <3>2. PICK q, V : q = << 1 >> /\ V = {}
      OBVIOUS
    <3>3. Traversal(q, V)'
      BY <1>2, <1>3, <3>2, TraversalStart
    <3>4. Traversal(queue, freed)'
      BY ONLY <3>1, <3>2, <3>3, TraversalNext
    <3>. QED
      BY <3>1, <3>4 DEF FreeInv, Traversal
  <2>2. CASE FreeTreeStep
    <3>1. /\ phase = "free" /\ phase' = "free" /\ queue # <<>>
          /\ queue' = Tail(queue) \o Children(Head(queue)) /\ freed' = freed \cup {Head(queue)}
      BY <2>2 DEF FreeTreeStep
    <3>2. PICK q, V : q = Tail(queue) \o Children(Head(queue)) /\ V = freed \cup {Head(queue)}
      OBVIOUS
    <3>3. Traversal(queue, freed)
      BY <3>1 DEF AllInv, FreeInv
    <3>4. Traversal(q, V)
      BY <1>3, <3>1, <3>2, <3>3, TraversalStep
    <3>5. Traversal(q, V)'
      BY <1>2, <3>4
    <3>6. q = queue' /\ V = freed'
      BY <3>1, <3>2
    <3>7. Traversal(queue, freed)'
      BY ONLY <3>5, <3>6, TraversalNext
    <3>. QED
      BY <3>1, <3>7 DEF FreeInv, Traversal
  <2>3. CASE FreeTreeEnd
    <3>1. phase = "free" /\ queue = <<>> /\ phase' = "end" /\ queue' = queue /\ freed' = freed
      BY <2>3 DEF FreeTreeEnd, queryVars
    <3>2. Traversal(<<>>, freed)
      BY <3>1 DEF AllInv, FreeInv, Traversal, InQueue
    <3>3. freed = 1..Len(tree)
      BY <1>3, <3>2, TraversalEnd
    <3>4. queue' \in Seq(1..Len(tree'))
      BY <3>1, EmptySeq
    <3>. QED
      BY <1>2, <3>1, <3>3, <3>4 DEF FreeInv
  <2>. QED
    BY <2>1, <2>2, <2>3
<1>5. query = "none" /\ qry = <<>>
  BY <1>1 DEF AllInv, QueryInv
<1>6. QueryInv'
  BY <1>1, <1>2, <1>4, <1>5, EmptySeq DEF QueryInv, Queries
<1>. QED
  BY <1>2, <1>4, <1>6 DEF AllInv

-----------------------------------------------------------------------------
(***************************************************************************)
(* The room in a result                                                    *)
(***************************************************************************)

\* The weight of a node is the number of leaves below it.
Weighted(d, lv, X) == Pow[d - 1] \in Nat /\ \A m \in X : Pow[d - lv[m]] \in Nat \ {0}
Halves(d, lv, x, z) == 2 * Pow[d - lv[x]] = Pow[d - lv[z]]

\* The room that a query has left, after a node that pushes nothing ...
LEMMA WithinPop ==
  ASSUME NEW d, NEW lv, NEW X, NEW q \in Seq(X), q # <<>>, NEW r, Popped(X, q, <<>>, r),
         Weighted(d, lv, X), NEW n \in Nat, NEW s, Within(d, lv, q, n, s), NEW f \in 0..1
  PROVE  \E u : Within(d, lv, r, n + f, u)
<1>1. PICK k, b, g : k = Len(q) /\ b = Pow[d - 1] /\ g = [m \in X |-> Pow[d - lv[m]]]
  OBVIOUS
<1>2. k \in Nat \ {0} /\ b \in Nat /\ \A m \in X : g[m] = Pow[d - lv[m]] /\ g[m] \in Nat \ {0}
  BY <1>1, EmptySeq, LenProperties DEF Weighted
<1>3. Len(r) = k - 1 /\ (\A i \in 1..(k - 1) : r[i] = q[i + 1])
  <2>1. Len(<<>>) = 0
    OBVIOUS
  <2>. QED
    BY <1>1, <1>2, <2>1 DEF Popped
<1>4. \A i \in 1..k : q[i] \in X
  BY <1>1, ElementOfSeq
<1>5. /\ s \in [0..k -> Int] /\ s[0] = n
      /\ \A i \in 1..k : s[i] = s[i - 1] + g[q[i]]
      /\ \A i \in 0..k : s[i] <= b
  BY <1>1, <1>2, <1>4 DEF Within
<1>6. PICK w : w = g[q[1]]
  OBVIOUS
<1>7. w \in Nat \ {0} /\ s[1] = n + w
  <2>1. 1 \in 1..k /\ 1 - 1 = 0
    BY <1>2
  <2>. QED
    BY <1>2, <1>4, <1>5, <1>6, <2>1
<1>. DEFINE u == [i \in 0..(k - 1) |-> s[i + 1] - w + f]
<1>8. \A i \in 0..(k - 1) : i + 1 \in 0..k /\ i + 1 \in 1..k
  BY <1>2
<1>9. \A i \in 0..(k - 1) : s[i + 1] \in Int /\ s[i + 1] <= b
  BY <1>5, <1>8
<1>10. u \in [0..(k - 1) -> Int] /\ \A i \in 0..(k - 1) : u[i] = s[i + 1] - w + f
  BY <1>7, <1>9
<1>. HIDE DEF u
<1>11. u[0] = n + f
  <2>1. 0 \in 0..(k - 1) /\ 0 + 1 = 1
    BY <1>2
  <2>2. u[0] = s[1] - w + f
    BY <1>10, <2>1
  <2>. QED
    BY <1>7, <2>2
<1>12. ASSUME NEW i \in 1..(k - 1) PROVE u[i] = u[i - 1] + g[r[i]]
  <2>1. /\ i \in 0..(k - 1) /\ i - 1 \in 0..(k - 1) /\ (i - 1) + 1 = i /\ i + 1 \in 1..k
        /\ (i + 1) - 1 = i /\ i \in 0..k /\ i + 1 \in 0..k
    BY <1>2
  <2>2. u[i] = s[i + 1] - w + f /\ u[i - 1] = s[i] - w + f
    BY <1>10, <2>1
  <2>3. s[i + 1] = s[i] + g[q[i + 1]]
    BY <1>5, <2>1
  <2>4. s[i] \in Int /\ g[q[i + 1]] \in Nat /\ g[r[i]] = g[q[i + 1]]
    BY <1>2, <1>3, <1>4, <1>5, <2>1
  <2>. QED
    BY <1>7, <2>2, <2>3, <2>4
<1>13. ASSUME NEW i \in 0..(k - 1) PROVE u[i] <= b
  <2>1. u[i] = s[i + 1] - w + f /\ s[i + 1] \in Int /\ s[i + 1] <= b
    BY <1>9, <1>10
  <2>. QED
    BY <1>2, <1>7, <2>1
<1>14. \A i \in 1..(k - 1) : g[r[i]] = Pow[d - lv[r[i]]]
  <2>1. \A i \in 1..(k - 1) : i + 1 \in 1..k
    BY <1>2
  <2>2. \A i \in 1..(k - 1) : r[i] \in X
    BY <1>3, <1>4, <2>1
  <2>. QED
    BY <1>2, <2>2
<1>15. Within(d, lv, r, n + f, u)
  BY <1>1, <1>3, <1>10, <1>11, <1>12, <1>13, <1>14 DEF Within
<1>. QED
  BY <1>15

\* ... and after one that pushes two nodes of half its weight.
LEMMA WithinPush ==
  ASSUME NEW d, NEW lv, NEW X, NEW q \in Seq(X), q # <<>>, NEW x \in X, NEW y \in X,
         NEW r, Popped(X, q, <<x, y>>, r),
         Weighted(d, lv, X), Halves(d, lv, x, q[1]), Halves(d, lv, y, q[1]),
         NEW n \in Nat, NEW s, Within(d, lv, q, n, s)
  PROVE  \E u : Within(d, lv, r, n, u)
<1>1. PICK k, b, g : k = Len(q) /\ b = Pow[d - 1] /\ g = [m \in X |-> Pow[d - lv[m]]]
  OBVIOUS
<1>2. k \in Nat \ {0} /\ b \in Nat /\ \A m \in X : g[m] = Pow[d - lv[m]] /\ g[m] \in Nat \ {0}
  BY <1>1, EmptySeq, LenProperties DEF Weighted
<1>3. /\ Len(r) = k + 1 /\ (\A i \in 1..(k - 1) : r[i] = q[i + 1])
      /\ r[k] = x /\ r[k + 1] = y
  <2>1. Len(<<x, y>>) = 2 /\ <<x, y>>[1] = x /\ <<x, y>>[2] = y
    BY TwoSeq
  <2>2. PICK v : v = <<x, y>>
    OBVIOUS
  <2>3. Len(v) = 2 /\ v[1] = x /\ v[2] = y /\ Popped(X, q, v, r)
    BY <2>1, <2>2
  <2>4. /\ Len(r) = (k - 1) + 2 /\ (\A i \in 1..(k - 1) : r[i] = q[i + 1])
        /\ \A i \in 1..2 : r[(k - 1) + i] = v[i]
    BY <1>1, <2>3 DEF Popped
  <2>5. r[(k - 1) + 1] = x /\ r[(k - 1) + 2] = y
    BY <2>3, <2>4
  <2>6. (k - 1) + 1 = k /\ (k - 1) + 2 = k + 1
    BY <1>2
  <2>. QED
    BY <2>4, <2>5, <2>6
<1>4. \A i \in 1..k : q[i] \in X
  BY <1>1, ElementOfSeq
<1>5. /\ s \in [0..k -> Int] /\ s[0] = n
      /\ \A i \in 1..k : s[i] = s[i - 1] + g[q[i]]
      /\ \A i \in 0..k : s[i] <= b
  BY <1>1, <1>2, <1>4 DEF Within
<1>6. PICK h : h = g[x]
  OBVIOUS
<1>7. h \in Nat \ {0} /\ g[y] = h /\ g[q[1]] = 2 * h /\ s[1] = n + 2 * h
  <2>1. 1 \in 1..k /\ 1 - 1 = 0
    BY <1>2
  <2>2. 2 * g[x] = g[q[1]] /\ 2 * g[y] = g[q[1]]
    BY <1>2, <1>4, <2>1 DEF Halves
  <2>3. g[x] \in Nat \ {0} /\ g[y] \in Nat \ {0}
    BY <1>2
  <2>4. s[1] = s[0] + g[q[1]]
    BY <1>5, <2>1
  <2>. QED
    BY <1>5, <1>6, <2>2, <2>3, <2>4
<1>. DEFINE u == [i \in 0..(k + 1) |-> IF i = k THEN s[k] - h ELSE IF i = k + 1 THEN s[k]
                                        ELSE s[i + 1] - 2 * h]
<1>8. /\ \A i \in 0..(k - 1) : i + 1 \in 0..k /\ i + 1 \in 1..k /\ i # k /\ i # k + 1 /\ i \in 0..(k + 1)
      /\ k \in 0..k /\ k \in 0..(k + 1) /\ k + 1 \in 0..(k + 1) /\ k # k + 1 /\ k \in 1..k
      /\ \A i \in 0..(k + 1) : i \in 0..(k - 1) \/ i = k \/ i = k + 1
  BY <1>2
<1>9. (\A i \in 0..(k - 1) : s[i + 1] \in Int /\ s[i + 1] <= b) /\ s[k] \in Int /\ s[k] <= b
  BY <1>5, <1>8
<1>10. /\ \A i \in 0..(k - 1) : u[i] = s[i + 1] - 2 * h
       /\ u[k] = s[k] - h /\ u[k + 1] = s[k]
  BY <1>8
<1>11. u \in [0..(k + 1) -> Int]
  <2>1. ASSUME NEW i \in 0..(k + 1)
        PROVE  (IF i = k THEN s[k] - h ELSE IF i = k + 1 THEN s[k] ELSE s[i + 1] - 2 * h) \in Int
    <3>1. s[k] - h \in Int /\ s[k] \in Int
      BY <1>7, <1>9
    <3>2. ASSUME i # k, i # k + 1 PROVE s[i + 1] - 2 * h \in Int
      <4>1. i \in 0..(k - 1)
        BY <1>8, <3>2
      <4>2. s[i + 1] \in Int
        BY <1>9, <4>1
      <4>. QED
        BY <1>7, <4>2
    <3>. QED
      BY <3>1, <3>2
  <2>. QED
    BY <2>1
<1>. HIDE DEF u
<1>12. u[0] = n
  <2>1. 0 \in 0..(k - 1) /\ 0 + 1 = 1
    BY <1>2
  <2>2. u[0] = s[1] - 2 * h
    BY <1>10, <2>1
  <2>. QED
    BY <1>7, <2>2
<1>13. ASSUME NEW i \in 1..(k + 1) PROVE u[i] = u[i - 1] + g[r[i]]
  <2>1. CASE i \in 1..(k - 1)
    <3>1. /\ i \in 0..(k - 1) /\ i - 1 \in 0..(k - 1) /\ (i - 1) + 1 = i /\ i + 1 \in 1..k
          /\ (i + 1) - 1 = i /\ i \in 0..k /\ i + 1 \in 0..k
      BY SMTT(30), <1>2, <2>1
    <3>2. u[i] = s[i + 1] - 2 * h /\ u[i - 1] = s[i] - 2 * h
      BY <1>10, <3>1
    <3>3. s[i + 1] = s[i] + g[q[i + 1]]
      BY <1>5, <3>1
    <3>4. s[i] \in Int /\ g[q[i + 1]] \in Nat /\ g[r[i]] = g[q[i + 1]]
      <4>1. q[i + 1] \in X /\ r[i] = q[i + 1]
        BY <1>3, <1>4, <2>1, <3>1
      <4>. QED
        BY <1>2, <1>5, <3>1, <4>1
    <3>. QED
      BY <1>7, <3>2, <3>3, <3>4
  <2>2. CASE i = k
    <3>1. k - 1 \in 0..(k - 1) /\ (k - 1) + 1 = k
      BY <1>2
    <3>2. u[k - 1] = s[k] - 2 * h /\ u[k] = s[k] - h
      BY <1>10, <3>1
    <3>. QED
      BY <1>3, <1>6, <1>7, <1>9, <2>2, <3>2
  <2>3. CASE i = k + 1
    <3>1. (k + 1) - 1 = k
      BY <1>2
    <3>2. u[k] = s[k] - h /\ u[k + 1] = s[k]
      BY <1>10
    <3>. QED
      BY SMTT(30), <1>3, <1>7, <1>9, <2>3, <3>1, <3>2
  <2>4. i \in 1..(k - 1) \/ i = k \/ i = k + 1
    BY <1>2
  <2>. QED
    BY <2>1, <2>2, <2>3, <2>4
<1>14. ASSUME NEW i \in 0..(k + 1) PROVE u[i] <= b
  <2>1. CASE i \in 0..(k - 1)
    <3>1. s[i + 1] \in Int /\ s[i + 1] <= b /\ u[i] = s[i + 1] - 2 * h
      BY <1>9, <1>10, <2>1
    <3>. QED
      BY <1>2, <1>7, <3>1
  <2>2. CASE i = k \/ i = k + 1
    BY <1>2, <1>7, <1>9, <1>10, <2>2
  <2>. QED
    BY <1>8, <2>1, <2>2
<1>15. \A i \in 1..(k + 1) : g[r[i]] = Pow[d - lv[r[i]]]
  <2>1. ASSUME NEW i \in 1..(k + 1) PROVE r[i] \in X
    <3>1. i \in 1..(k - 1) => i + 1 \in 1..k
      BY <1>2
    <3>2. i \in 1..(k - 1) \/ i = k \/ i = k + 1
      BY <1>2
    <3>. QED
      BY <1>3, <1>4, <3>1, <3>2
  <2>. QED
    BY <1>2, <2>1
<1>16. Within(d, lv, r, n, u)
  BY <1>1, <1>3, <1>11, <1>12, <1>13, <1>14, <1>15 DEF Within
<1>. QED
  BY <1>16

\* A queue of one node.
LEMMA WithinOne ==
  ASSUME NEW d, NEW lv, NEW h, NEW q, Len(q) = 1, q[1] = h,
         Pow[d - lv[h]] \in Nat, Pow[d - 1] \in Nat, Pow[d - lv[h]] <= Pow[d - 1]
  PROVE  \E u : Within(d, lv, q, 0, u)
<1>1. PICK w, b : w = Pow[d - lv[h]] /\ b = Pow[d - 1]
  OBVIOUS
<1>. DEFINE u == [i \in 0..1 |-> IF i = 0 THEN 0 ELSE w]
<1>2. u \in [0..1 -> Int] /\ u[0] = 0 /\ u[1] = w
  BY <1>1
<1>. HIDE DEF u
<1>3. \A i \in 0..1 : i = 0 \/ i = 1
  OBVIOUS
<1>4. \A i \in 1..1 : i = 1
  OBVIOUS
<1>5. u[1] = u[0] + w
  BY <1>1, <1>2
<1>6. u[0] <= b /\ u[1] <= b
  BY <1>1, <1>2
<1>7. Within(d, lv, q, 0, u)
  BY <1>1, <1>2, <1>3, <1>4, <1>5, <1>6 DEF Within
<1>. QED
  BY <1>7

\* The powers grow.
LEMMA PowMono ==
  ASSUME NEW a \in Nat, NEW b \in Nat, a <= b
  PROVE  Pow[a] <= Pow[b]
<1>. DEFINE S == {k \in Nat : Pow[a] <= Pow[a + k]}
<1>1. 0 \in S
  BY PowIs
<1>2. ASSUME NEW k \in S PROVE k + 1 \in S
  <2>1. k \in Nat /\ a + k \in Nat /\ a + (k + 1) = (a + k) + 1 /\ Pow[a] <= Pow[a + k]
    OBVIOUS
  <2>2. Pow[(a + k) + 1] = 2 * Pow[a + k] /\ Pow[a + k] \in Nat /\ Pow[a] \in Nat
    BY <2>1, PowIs
  <2>3. Pow[a] <= Pow[a + (k + 1)]
    BY <2>1, <2>2
  <2>. QED
    BY <2>1, <2>3
<1>3. S = Nat
  <2>. HIDE DEF S
  <2>1. S \subseteq Nat
    BY DEF S
  <2>. QED
    BY <1>1, <1>2, <2>1, Induction
<1>4. b - a \in Nat /\ a + (b - a) = b
  OBVIOUS
<1>5. PICK k \in Nat : k = b - a
  BY <1>4
<1>6. Pow[a] <= Pow[a + k]
  BY <1>3
<1>. QED
  BY <1>4, <1>5, <1>6

-----------------------------------------------------------------------------
(***************************************************************************)
(* The queries                                                             *)
(***************************************************************************)

\* What a query finds at the head of its queue.
LEMMA HeadIs ==
  ASSUME AllInv, phase = "query", queue # <<>>
  PROVE  /\ Head(queue) \in 1..Len(tree) /\ node = tree[Head(queue)]
         /\ node.expected \in PackageHashes /\ node.is_leaf \in BOOLEAN
         /\ node.is_leaf <=> Left(Head(queue)) = NULL
         /\ node.left = Left(Head(queue)) /\ node.right = Right(Head(queue))
<1>1. PICK h, X : h = Head(queue) /\ X = 1..Len(tree)
  OBVIOUS
<1>2. h \in X
  <2>1. queue \in Seq(X)
    BY <1>1 DEF AllInv, QueryInv
  <2>2. <<>> \in Seq(X)
    BY EmptySeq
  <2>. QED
    BY <1>1, <2>1, <2>2, PoppedSeq
<1>3. ShapeInv /\ stack = <<>> /\ phase # "hash"
  BY DEF AllInv, BuildInv, StackInv
<1>4. ~Waiting(h)
  <2>1. Len(<<>>) = 0
    OBVIOUS
  <2>. QED
    BY <1>3, <2>1 DEF Waiting
<1>5. tree[h].is_leaf \/ Left(h) # NULL
  BY <1>1, <1>2, <1>3, <1>4 DEF AllInv, BuildInv, DoneInv
<1>6. Left(h) # NULL => ~tree[h].is_leaf
  BY <1>1, <1>2, <1>3, ChildrenAre
<1>7. tree[h].expected \in PackageHashes
  BY <1>1, <1>2 DEF AllInv, ExpectInv
<1>8. tree[h].is_leaf \in BOOLEAN
  BY <1>1, <1>2, <1>3, NodeIs
<1>9. node = tree[h]
  BY <1>1 DEF node
<1>10. tree[h].left = Left(h) /\ tree[h].right = Right(h)
  BY DEF Left, Right
<1>. QED
  BY <1>1, <1>2, <1>5, <1>6, <1>7, <1>8, <1>9, <1>10

\* The weight of a node is the number of leaves a full subtree at its level has.
LEMMA WeightIs ==
  ASSUME BuildInv, NEW lv, Levels(lv)
  PROVE  /\ \A m \in 1..Len(tree) : /\ Pow[depth - lv[m]] \in Nat \ {0}
                                    /\ Pow[depth - lv[m]] <= Pow[depth - 1]
         /\ \A m \in 1..Len(tree) : Left(m) # NULL =>
              /\ 2 * Pow[depth - lv[Left(m)]] = Pow[depth - lv[m]]
              /\ 2 * Pow[depth - lv[Right(m)]] = Pow[depth - lv[m]]
         /\ lv[1] = 1 /\ Pow[depth - 1] \in Nat /\ Pow[depth - 1] <= nchunks /\ nchunks \in Nat
<1>1. PICK d, L : d = depth /\ L = Len(tree)
  OBVIOUS
<1>2. d \in Nat \ {0} /\ Pow[d - 1] <= nchunks /\ nchunks \in Nat
  BY <1>1, PackageIs DEF BuildInv
<1>3. lv \in [1..L -> 1..d] /\ lv[1] = 1
  BY <1>1 DEF Levels
<1>4. ASSUME NEW m \in 1..L PROVE Pow[d - lv[m]] \in Nat \ {0} /\ Pow[d - lv[m]] <= Pow[d - 1]
  <2>1. d - lv[m] \in Nat /\ d - 1 \in Nat /\ d - lv[m] <= d - 1
    BY <1>2, <1>3
  <2>. QED
    BY <2>1, PowIs, PowMono
<1>5. ASSUME NEW m \in 1..L, Left(m) # NULL
      PROVE  /\ 2 * Pow[d - lv[Left(m)]] = Pow[d - lv[m]]
             /\ 2 * Pow[d - lv[Right(m)]] = Pow[d - lv[m]]
  <2>1. Left(m) \in 1..L /\ Right(m) \in 1..L
    BY <1>1, <1>5, ChildrenAre DEF BuildInv
  <2>2. lv[Left(m)] = lv[m] + 1 /\ lv[Right(m)] = lv[m] + 1
    BY <1>1, <1>5 DEF Levels
  <2>3. PICK c : c = lv[m]
    OBVIOUS
  <2>4. c \in 1..d /\ c + 1 \in 1..d
    BY <1>3, <2>1, <2>2, <2>3
  <2>5. d - (c + 1) \in Nat /\ (d - (c + 1)) + 1 = d - c
    BY <1>2, <2>4
  <2>6. Pow[d - c] = 2 * Pow[d - (c + 1)]
    BY <2>5, PowIs
  <2>. QED
    BY <2>2, <2>3, <2>6
<1>6. Pow[d - 1] \in Nat
  <2>1. d - 1 \in Nat
    BY <1>2
  <2>. QED
    BY <2>1, PowIs
<1>. QED
  BY <1>1, <1>2, <1>3, <1>4, <1>5, <1>6

\* A visit that finds at most one hash and pushes nothing, or finds none and
\* pushes both children, leaves room for what is still queued.
LEMMA VisitRoom ==
  ASSUME BuildInv, NEW q \in Seq(1..Len(tree)), q # <<>>, NEW f, NEW p, NEW n \in Nat,
         f = <<>> \/ \E x \in PackageHashes : f = <<x>>,
         p = <<>> \/ (f = <<>> /\ Left(q[1]) # NULL /\ p = <<Left(q[1]), Right(q[1])>>),
         NEW lv, Levels(lv), NEW s, Within(depth, lv, q, n, s)
  PROVE  \E u : Within(depth, lv, Tail(q) \o p, n + Len(f), u)
<1>1. PICK d, X, h, r : d = depth /\ X = 1..Len(tree) /\ h = q[1] /\ r = Tail(q) \o p
  OBVIOUS
<1>2. /\ \A m \in X : Pow[d - lv[m]] \in Nat \ {0}
      /\ \A m \in X : Left(m) # NULL => /\ 2 * Pow[d - lv[Left(m)]] = Pow[d - lv[m]]
                                        /\ 2 * Pow[d - lv[Right(m)]] = Pow[d - lv[m]]
      /\ Pow[d - 1] \in Nat
  BY <1>1, WeightIs
<1>3. h \in X
  <2>1. <<>> \in Seq(1..Len(tree))
    BY EmptySeq
  <2>. QED
    BY <1>1, <2>1, PoppedSeq
<1>4. Len(f) \in 0..1 /\ (f = <<>> => Len(f) = 0)
  <2>1. ASSUME NEW x \in PackageHashes, f = <<x>> PROVE Len(f) = 1
    BY <2>1, OneSeq
  <2>2. Len(<<>>) = 0
    OBVIOUS
  <2>. QED
    BY <2>1, <2>2
<1>5. q \in Seq(X) /\ q # <<>> /\ Within(d, lv, q, n, s) /\ n \in Nat
  BY <1>1
<1>6. CASE p = <<>>
  <2>1. Popped(X, q, <<>>, r)
    <3>1. <<>> \in Seq(X)
      BY EmptySeq
    <3>. QED
      BY <1>1, <1>5, <1>6, <3>1, PoppedSeq
  <2>2. PICK k \in 0..1 : k = Len(f)
    BY <1>4
  <2>4. Weighted(d, lv, X)
    BY <1>2 DEF Weighted
  <2>3. \E u : Within(d, lv, r, n + k, u)
    BY ONLY <1>5, <2>1, <2>2, <2>4, WithinPop
  <2>. QED
    BY <1>1, <2>2, <2>3
<1>7. CASE f = <<>> /\ Left(h) # NULL /\ p = <<Left(h), Right(h)>>
  <2>1. PICK a, b : a = Left(h) /\ b = Right(h)
    OBVIOUS
  <2>2. a \in X /\ b \in X
    BY <1>1, <1>3, <1>7, <2>1, ChildrenAre DEF BuildInv
  <2>3. Popped(X, q, <<a, b>>, r)
    <3>1. <<a, b>> \in Seq(X)
      BY <2>2, TwoSeq
    <3>. QED
      BY <1>1, <1>5, <1>7, <2>1, <3>1, PoppedSeq
  <2>4. 2 * Pow[d - lv[a]] = Pow[d - lv[h]] /\ 2 * Pow[d - lv[b]] = Pow[d - lv[h]]
    BY <1>2, <1>3, <1>7, <2>1
  <2>5. Halves(d, lv, a, q[1]) /\ Halves(d, lv, b, q[1])
    BY <1>1, <2>4 DEF Halves
  <2>8. Weighted(d, lv, X)
    BY <1>2 DEF Weighted
  <2>6. \E u : Within(d, lv, r, n, u)
    BY ONLY <1>5, <2>2, <2>3, <2>5, <2>8, WithinPush
  <2>7. n + Len(f) = n
    BY <1>4, <1>7
  <2>. QED
    BY <1>1, <2>6, <2>7
<1>. QED
  BY <1>1, <1>6, <1>7

\* A visit like that keeps the invariant.
LEMMA VisitKeeps ==
  ASSUME AllInv, NEW Q \in {"chunk_check", "min_hashes", "find", "hashes_of"}, NEW f, NEW p,
         Visit(Q, f, p), Q = "find" => f = <<>>,
         f = <<>> \/ \E x \in PackageHashes : f = <<x>>,
         p = <<>> \/ (f = <<>> /\ Left(Head(queue)) # NULL
                        /\ p = <<Left(Head(queue)), Right(Head(queue))>>)
  PROVE  AllInv'
<1>1. /\ phase = "query" /\ query = Q /\ queue # <<>> /\ qry' = qry \o f
      /\ queue' = Tail(queue) \o p /\ UNCHANGED treeVars /\ phase' = "query"
      /\ query' = Q /\ freed' = freed
  BY DEF Visit
<1>2. /\ BuildInv' /\ ExpectInv' /\ \A lv : Levels(lv)' <=> Levels(lv)
      /\ tree' = tree /\ depth' = depth /\ PackageHashes' = PackageHashes
  BY <1>1, QueryRest
<1>3. BuildInv
  BY DEF AllInv
<1>4. PICK Y, X, q : Y = PackageHashes /\ X = 1..Len(tree) /\ q = queue
  OBVIOUS
<1>5. /\ qry \in Seq(Y) /\ q \in Seq(X) /\ (Q = "find" => qry = <<>>) /\ q # <<>>
      /\ Q # "find" => \A lv : Levels(lv) => \E s : Within(depth, lv, q, Len(qry), s)
  BY <1>1, <1>4 DEF AllInv, QueryInv
<1>6. f \in Seq(Y)
  <2>1. ASSUME NEW x \in Y, f = <<x>> PROVE f \in Seq(Y)
    BY <2>1, OneSeq
  <2>. QED
    BY <1>4, <2>1, EmptySeq
<1>7. Head(q) = q[1] /\ q[1] \in X
  <2>1. <<>> \in Seq(X)
    BY EmptySeq
  <2>. QED
    BY <1>5, <2>1, PoppedSeq
<1>8. p \in Seq(X)
  <2>1. CASE p = <<>>
    BY <2>1, EmptySeq
  <2>2. CASE Left(q[1]) # NULL /\ p = <<Left(q[1]), Right(q[1])>>
    <3>1. PICK a, b : a = Left(q[1]) /\ b = Right(q[1])
      OBVIOUS
    <3>2. a \in X /\ b \in X
      BY <1>3, <1>4, <1>7, <2>2, <3>1, ChildrenAre DEF BuildInv
    <3>3. <<a, b>> \in Seq(X)
      BY <3>2, TwoSeq
    <3>. QED
      BY <2>2, <3>1, <3>3
  <2>. QED
    BY <1>4, <1>7, <2>1, <2>2
<1>9. PICK r : r = Tail(q) \o p
  OBVIOUS
<1>10. r \in Seq(X)
  BY <1>5, <1>8, <1>9, PoppedSeq DEF Popped
<1>11. PICK n, z : n = Len(qry) /\ z = qry'
  OBVIOUS
<1>12. z \in Seq(Y) /\ Len(z) = n + Len(f) /\ n \in Nat
  <2>1. PICK y : y = qry
    OBVIOUS
  <2>2. y \in Seq(Y)
    BY <1>5, <2>1
  <2>3. y \o f \in Seq(Y) /\ Len(y \o f) = Len(y) + Len(f)
    BY <1>6, <2>2, ConcatProperties
  <2>4. z = y \o f
    BY <1>1, <1>11, <2>1
  <2>. QED
    BY <1>11, <2>1, <2>2, <2>3, <2>4, LenProperties
<1>13. Q = "find" => z = <<>>
  <2>1. ASSUME Q = "find" PROVE z = <<>>
    <3>1. f = <<>> /\ qry = <<>>
      BY <1>5, <2>1
    <3>2. <<>> \o <<>> = <<>>
      <4>1. <<>> \in Seq(Y)
        BY EmptySeq
      <4>. QED
        BY <4>1, ConcatEmptySeq
    <3>. QED
      BY <1>1, <1>11, <3>1, <3>2
  <2>. QED
    BY <2>1
<1>14. ASSUME Q # "find", NEW lv, Levels(lv)'
       PROVE  \E u : Within(depth, lv, r, n + Len(f), u)
  <2>1. Levels(lv)
    BY <1>2, <1>14
  <2>2. PICK s : Within(depth, lv, q, n, s)
    BY <1>5, <1>11, <1>14, <2>1
  <2>3. p = <<>> \/ (f = <<>> /\ Left(q[1]) # NULL /\ p = <<Left(q[1]), Right(q[1])>>)
    BY <1>4, <1>7
  <2>4. q \in Seq(1..Len(tree))
    BY <1>4, <1>5
  <2>. QED
    BY <1>3, <1>5, <1>9, <1>12, <2>1, <2>2, <2>3, <2>4, VisitRoom
<1>15. queue' = r /\ qry' = z /\ Len(qry') = n + Len(f)
  BY <1>1, <1>4, <1>9, <1>11, <1>12
<1>16. FreeInv'
  BY <1>1 DEF AllInv, FreeInv
<1>17. Q # "find" => \A lv : Levels(lv)' => \E s : Within(depth', lv, queue', Len(qry'), s)
  BY <1>2, <1>14, <1>15
<1>18. QueryInv'
  <2>1. queue' \in Seq(1..Len(tree')) /\ qry' \in Seq(PackageHashes')
    BY <1>2, <1>4, <1>10, <1>12, <1>15
  <2>2. Q \in Queries
    BY DEF Queries
  <2>3. phase' = "query" /\ query' = Q /\ (Q = "find" => qry' = <<>>)
    BY <1>1, <1>11, <1>13
  <2>. QED
    BY <1>17, <2>1, <2>2, <2>3 DEF QueryInv
<1>. QED
  BY <1>2, <1>16, <1>18 DEF AllInv

\* The steps of the four traversals.
LEMMA StepsKeep ==
  ASSUME AllInv, CompletedStep \/ MinStep \/ FindStep \/ CollectStep
  PROVE  AllInv'
<1>1. phase = "query" /\ queue # <<>>
  BY DEF CompletedStep, MinStep, FindStep, CollectStep, Visit
<1>2. PICK h, e : h = Head(queue) /\ e = node.expected
  OBVIOUS
<1>3. /\ h \in 1..Len(tree) /\ e \in PackageHashes /\ node.is_leaf \in BOOLEAN
      /\ node.is_leaf <=> Left(h) = NULL
      /\ node.left = Left(h) /\ node.right = Right(h)
  BY <1>1, <1>2, HeadIs
<1>4. ShapeInv
  BY DEF AllInv, BuildInv
<1>5. CASE CompletedStep
  <2>1. PICK f, p : /\ f = IF node.is_leaf /\ matches THEN <<e>> ELSE <<>>
                    /\ p = Children(h)
    OBVIOUS
  <2>2. Visit("chunk_check", f, p)
    BY <1>2, <1>5, <2>1 DEF CompletedStep, Visit
  <2>3. f = <<>> \/ \E x \in PackageHashes : f = <<x>>
    BY <1>3, <2>1
  <2>4. p = <<>> \/ (f = <<>> /\ Left(h) # NULL /\ p = <<Left(h), Right(h)>>)
    BY <1>3, <1>4, <2>1, ChildrenSeq
  <2>. QED
    BY <1>2, <2>2, <2>3, <2>4, VisitKeeps
<1>6. CASE MinStep
  <2>1. PICK f, p : /\ f = IF matches THEN <<e>> ELSE <<>>
                    /\ p = IF matches \/ node.is_leaf THEN <<>> ELSE <<Left(h), Right(h)>>
    OBVIOUS
  <2>2. Visit("min_hashes", f, p)
    BY <1>2, <1>3, <1>6, <2>1 DEF MinStep, Visit
  <2>3. f = <<>> \/ \E x \in PackageHashes : f = <<x>>
    BY <1>3, <2>1
  <2>4. p = <<>> \/ (f = <<>> /\ Left(h) # NULL /\ p = <<Left(h), Right(h)>>)
    BY <1>3, <2>1
  <2>. QED
    BY <1>2, <2>2, <2>3, <2>4, VisitKeeps
<1>7. CASE FindStep
  <2>1. PICK f, p : /\ f = <<>>
                    /\ p = IF node.is_leaf THEN <<>> ELSE <<Left(h), Right(h)>>
    OBVIOUS
  <2>2. Visit("find", f, p)
    BY <1>2, <1>3, <1>7, <2>1 DEF FindStep, Visit
  <2>4. p = <<>> \/ (f = <<>> /\ Left(h) # NULL /\ p = <<Left(h), Right(h)>>)
    BY <1>3, <2>1
  <2>. QED
    BY <1>2, <2>1, <2>2, <2>4, VisitKeeps
<1>8. CASE CollectStep
  <2>1. PICK f, p : /\ f = IF node.is_leaf THEN <<e>> ELSE <<>>
                    /\ p = IF node.is_leaf THEN <<>> ELSE <<Left(h), Right(h)>>
    OBVIOUS
  <2>2. Visit("hashes_of", f, p)
    BY <1>2, <1>3, <1>8, <2>1 DEF CollectStep, Visit
  <2>3. f = <<>> \/ \E x \in PackageHashes : f = <<x>>
    BY <1>3, <2>1
  <2>4. p = <<>> \/ (f = <<>> /\ Left(h) # NULL /\ p = <<Left(h), Right(h)>>)
    BY <1>3, <2>1
  <2>. QED
    BY <1>2, <2>2, <2>3, <2>4, VisitKeeps
<1>. QED
  BY <1>5, <1>6, <1>7, <1>8

\* A traversal that starts anew, at the root or at the node that was named.
LEMMA StartKeeps ==
  ASSUME AllInv, UNCHANGED treeVars, phase \in {"built", "query"}, phase' = "query",
         query' \in {"chunk_check", "min_hashes", "find", "hashes_of"},
         qry' = <<>>, freed' = freed, NEW h \in 1..Len(tree), queue' = <<h>>
  PROVE  AllInv'
<1>1. /\ BuildInv' /\ ExpectInv' /\ \A lv : Levels(lv)' <=> Levels(lv)
      /\ tree' = tree /\ depth' = depth
  BY QueryRest
<1>2. FreeInv'
  BY DEF AllInv, FreeInv
<1>3. PICK q : q = queue'
  OBVIOUS
<1>4. q \in Seq(1..Len(tree)) /\ Len(q) = 1 /\ q[1] = h
  BY <1>3, OneSeq
<1>5. ASSUME NEW lv, Levels(lv)' PROVE \E s : Within(depth, lv, q, 0, s)
  <2>1. Levels(lv) /\ BuildInv
    BY <1>1, <1>5 DEF AllInv
  <2>2. /\ Pow[depth - lv[h]] \in Nat \ {0} /\ Pow[depth - lv[h]] <= Pow[depth - 1]
        /\ Pow[depth - 1] \in Nat
    BY <2>1, WeightIs
  <2>. QED
    BY <1>4, <2>2, WithinOne
<1>6. Len(qry') = 0 /\ qry' \in Seq(PackageHashes')
  <2>1. Len(<<>>) = 0 /\ <<>> \in Seq(PackageHashes')
    BY EmptySeq
  <2>. QED
    BY <2>1
<1>7. \A lv : Levels(lv)' => \E s : Within(depth', lv, queue', Len(qry'), s)
  BY <1>1, <1>3, <1>5, <1>6
<1>8. QueryInv'
  <2>1. queue' \in Seq(1..Len(tree')) /\ query' \in Queries
    BY <1>1, <1>3, <1>4 DEF Queries
  <2>. QED
    BY <1>6, <1>7, <2>1 DEF QueryInv
<1>. QED
  BY <1>1, <1>2, <1>8 DEF AllInv

\* bpkg_get_all_hashes
LEMMA AllHashesKeeps ==
  ASSUME AllInv, GetAllHashes
  PROVE  AllInv'
<1>1. /\ phase = "built" /\ query' = "all_hashes" /\ qry' = hashes \o chunks
      /\ phase' = "answered" /\ UNCHANGED treeVars /\ queue' = queue /\ freed' = freed
  BY DEF GetAllHashes, Built
<1>2. /\ BuildInv' /\ ExpectInv' /\ tree' = tree /\ PackageHashes' = PackageHashes
      /\ nhashes' = nhashes /\ nchunks' = nchunks
  BY <1>1, QueryRest
<1>3. FreeInv'
  BY <1>1 DEF AllInv, FreeInv
<1>4. qry' \in Seq(PackageHashes) /\ Len(qry') = nhashes + nchunks
  <2>1. PICK a, b : a = hashes /\ b = chunks
    OBVIOUS
  <2>2. a \in Seq(PackageHashes) /\ b \in Seq(PackageHashes)
    BY <2>1 DEF AllInv, BuildInv, PackageInv
  <2>3. a \o b \in Seq(PackageHashes) /\ Len(a \o b) = Len(a) + Len(b)
    BY <2>2, ConcatProperties
  <2>4. qry' = a \o b
    BY <1>1, <2>1
  <2>. QED
    BY <2>1, <2>3, <2>4 DEF nhashes, nchunks
<1>5. QueryInv'
  BY <1>1, <1>2, <1>4 DEF AllInv, QueryInv, Queries
<1>. QED
  BY <1>2, <1>3, <1>5 DEF AllInv

\* A traversal that is over has found no more hashes than there are leaves.
LEMMA QueryEndKeeps ==
  ASSUME AllInv, QueryEnd
  PROVE  AllInv'
<1>1. /\ phase = "query" /\ queue = <<>> /\ phase' = "answered" /\ UNCHANGED treeVars
      /\ queue' = queue /\ query' = query /\ qry' = qry /\ freed' = freed
  BY DEF QueryEnd, queryVars
<1>2. /\ BuildInv' /\ ExpectInv' /\ tree' = tree /\ PackageHashes' = PackageHashes
      /\ nhashes' = nhashes /\ nchunks' = nchunks /\ depth' = depth
  BY <1>1, QueryRest
<1>3. FreeInv'
  BY <1>1 DEF AllInv, FreeInv
<1>4. Len(qry) <= Pow[depth - 1]
  <2>1. PICK lv : Levels(lv)
    BY DEF AllInv, BuildInv, LevelInv
  <2>2. Pow[depth - 1] \in Nat
    BY <2>1, WeightIs DEF AllInv
  <2>3. CASE query = "find"
    <3>1. qry = <<>> /\ Len(<<>>) = 0
      BY <1>1, <2>3 DEF AllInv, QueryInv
    <3>. QED
      BY <2>2, <3>1
  <2>4. CASE query # "find"
    <3>1. PICK s : Within(depth, lv, queue, Len(qry), s)
      BY <1>1, <2>1, <2>4 DEF AllInv, QueryInv
    <3>2. Len(queue) = 0
      BY <1>1
    <3>3. 0 \in 0..Len(queue)
      BY <3>2
    <3>. QED
      BY <3>1, <3>3 DEF Within
  <2>. QED
    BY <2>3, <2>4
<1>5. QueryInv'
  BY <1>1, <1>2, <1>4 DEF AllInv, QueryInv, Queries
<1>. QED
  BY <1>2, <1>3, <1>5 DEF AllInv

\* bpkg_query_destroy
LEMMA DestroyKeeps ==
  ASSUME AllInv, QueryDestroy
  PROVE  AllInv'
<1>1. /\ phase = "answered" /\ phase' = "built" /\ UNCHANGED treeVars
      /\ queue' = queue /\ query' = "none" /\ qry' = <<>> /\ freed' = freed
  BY DEF QueryDestroy
<1>2. /\ BuildInv' /\ ExpectInv' /\ tree' = tree
  BY <1>1, QueryRest
<1>3. FreeInv'
  BY <1>1 DEF AllInv, FreeInv
<1>4. QueryInv'
  BY <1>1, <1>2, EmptySeq DEF AllInv, QueryInv, Queries
<1>. QED
  BY <1>2, <1>3, <1>4 DEF AllInv

\* The initial states.
LEMMA InitAll ==
  ASSUME QueryInit
  PROVE  AllInv
<1>1. BuildInv /\ PackageInv
  BY InitBuild, InitPackage
<1>2. /\ phase = "hash" /\ queue = <<>> /\ index = 0 /\ index2 = 0
      /\ query = "none" /\ qry = <<>> /\ freed = {}
  BY DEF QueryInit, Init
<1>3. nchunks \in Nat /\ nhashes \in Nat
  BY <1>1, PackageIs
<1>4. ExpectInv
  BY <1>2, <1>3 DEF ExpectInv
<1>5. FreeInv /\ QueryInv
  BY <1>2, EmptySeq DEF FreeInv, QueryInv, Queries
<1>. QED
  BY <1>1, <1>4, <1>5 DEF AllInv

\* Every step of recursiveTree, of the queries and of freeTree keeps the invariant.
LEMMA NextKeeps ==
  ASSUME AllInv, [QueryNext]_allVars
  PROVE  AllInv'
<1>1. CASE UNCHANGED allVars
  BY <1>1, StutterKeeps
<1>2. CASE Build /\ UNCHANGED queryVars
  <2>1. CASE HashChunk \/ LeafFault
    BY <1>2, <2>1, BuildingKeeps
  <2>2. CASE Descend \/ DescendAgain \/ Return \/ Leaf
    BY <1>2, <2>2, BuildingKeeps DEF Grows
  <2>3. CASE BuildEnd
    BY <1>2, <2>3, BuildEndKeeps
  <2>4. CASE Expect
    BY <1>2, <2>4, ExpectKeeps
  <2>5. CASE ExpectEnd
    BY <1>2, <2>5, ExpectEndKeeps
  <2>. QED
    BY <1>2, <2>1, <2>2, <2>3, <2>4, <2>5 DEF Build
<1>3. CASE \E q \in {"chunk_check", "min_hashes", "find"} : \E g : Ask(q, g)
  <2>3. PICK q \in {"chunk_check", "min_hashes", "find"} : \E g : Ask(q, g)
    BY <1>3
  <2>1. PICK g : Ask(q, g)
    BY <2>3
  <2>2. /\ phase = "built" /\ query' = q /\ qry' = <<>> /\ queue' = << 1 >> /\ phase' = "query"
        /\ UNCHANGED treeVars /\ freed' = freed
    BY <2>1 DEF Ask, Built, Root
  <2>4. 1 \in 1..Len(tree)
    BY TreeLen DEF AllInv, BuildInv
  <2>. QED
    BY <2>2, <2>4, StartKeeps
<1>4. CASE FindMatch
  <2>1. /\ phase = "query" /\ query = "find" /\ queue # <<>> /\ query' = "hashes_of"
        /\ queue' = <<Head(queue)>> /\ UNCHANGED treeVars /\ phase' = phase /\ qry' = qry
        /\ freed' = freed
    BY <1>4 DEF FindMatch
  <2>2. qry = <<>>
    BY <2>1 DEF AllInv, QueryInv
  <2>3. PICK h : h = Head(queue)
    OBVIOUS
  <2>4. h \in 1..Len(tree)
    BY <2>1, <2>3, HeadIs
  <2>5. queue' = <<h>>
    BY <2>1, <2>3
  <2>. QED
    BY <2>1, <2>2, <2>4, <2>5, StartKeeps
<1>5. CASE CompletedStep \/ MinStep \/ FindStep \/ CollectStep
  BY <1>5, StepsKeep
<1>6. CASE FreeTree \/ FreeTreeStep \/ FreeTreeEnd
  BY <1>6, FreeKeeps
<1>7. CASE GetAllHashes \/ QueryEnd \/ QueryDestroy
  BY <1>7, AllHashesKeeps, QueryEndKeeps, DestroyKeeps
<1>. QED
  BY <1>1, <1>2, <1>3, <1>4, <1>5, <1>6, <1>7 DEF QueryNext, AskHashesOf

\* The invariant of the tree and of the queries on it: it holds initially and
\* every step of recursiveTree, levelOrderAddHash, the queries and freeTree
\* keeps it.
THEOREM Invariance == QuerySpec => []AllInv
<1>1. QueryInit => AllInv
  BY InitAll
<1>2. AllInv /\ [QueryNext]_allVars => AllInv'
  BY NextKeeps
<1>. QED
  BY <1>1, <1>2, PTL DEF QuerySpec

-----------------------------------------------------------------------------
(***************************************************************************)
(* The properties                                                          *)
(***************************************************************************)

\* A fault means that hash is too short, or that the leaf is the root.
LEMMA FaultIs ==
  ASSUME AllInv, LeafFault
  PROVE  hash = <<>> \/ nchunks = 1
<1>1. /\ phase = "build" /\ stack # <<>> /\ top.level = depth
      /\ top.position >= Len(hash) \/ tree[top.node].parent = NULL
  BY DEF LeafFault, Building, AtLeaf
<1>2. PackageInv /\ ShapeInv /\ StackInv /\ LevelInv
  BY DEF AllInv, BuildInv
<1>3. PICK S, n, p, d, nc : S = Len(stack) /\ n = top.node /\ p = top.position /\ d = depth /\ nc = nchunks
  OBVIOUS
<1>4. /\ S \in Nat \ {0} /\ n \in 1..Len(tree) /\ p \in Nat /\ S = d /\ stack[S].node = n
      /\ FrameOK(S) /\ top = stack[S]
  BY <1>1, <1>2, <1>3, TopIs
<1>5. /\ nc \in Nat \ {0} /\ Pow[d - 1] <= nc /\ nc < Pow[d]
  BY <1>2, <1>3, PackageIs
<1>6. p < Pow[d - 1] /\ Pow[d - 1] \in Nat
  <2>1. p < Pow[S - 1]
    BY <1>3, <1>4 DEF FrameOK
  <2>2. d - 1 \in Nat
    BY <1>4
  <2>. QED
    BY <1>4, <2>1, <2>2, PowIs
<1>7. hash = <<>> \/ Len(hash) = nc
  BY <1>2, <1>3 DEF PackageInv
<1>8. CASE tree[n].parent = NULL
  <2>1. n = 1
    <3>1. ShapeOf(n)
      BY <1>2, <1>4 DEF ShapeInv
    <3>2. n # 1 => tree[n].parent \in 1..(n - 1)
      BY <3>1 DEF ShapeOf
    <3>3. 0 \notin 1..(n - 1)
      OBVIOUS
    <3>. QED
      BY <1>8, <3>2, <3>3 DEF NULL
  <2>2. stack[1].node = 1 /\ 1 \in 1..S /\ S \in 1..S
    BY <1>2, <1>3, <1>4 DEF StackInv
  <2>3. S = 1
    BY <1>2, <1>3, <1>4, <2>1, <2>2, OnceOnStack
  <2>4. Pow[1] = 2
    <3>1. Pow[0 + 1] = 2 * Pow[0] /\ Pow[0] = 1
      BY PowIs
    <3>2. 0 + 1 = 1
      OBVIOUS
    <3>. QED
      BY <3>1, <3>2
  <2>5. d = 1
    BY <1>4, <2>3
  <2>6. nc < 2
    BY <1>5, <2>4, <2>5
  <2>. QED
    BY <1>3, <1>5, <2>6
<1>9. CASE tree[n].parent # NULL
  <2>1. p >= Len(hash)
    BY <1>1, <1>3, <1>9
  <2>2. Len(hash) # nc
    BY <1>5, <1>6, <1>4, <2>1
  <2>. QED
    BY <1>7, <2>2
<1>. QED
  BY <1>8, <1>9

\* recursiveTree reads no chunk hash past the end of hash and no NULL parent,
\* except when hashChunk returned NULL and when the package has a single chunk.
THEOREM FaultSafe == QuerySpec => []FaultExplained
<1>1. QueryInit => FaultExplained
  BY DEF QueryInit, Init, FaultExplained
<1>2. AllInv /\ FaultExplained /\ [QueryNext]_allVars => FaultExplained'
  <2>. SUFFICES ASSUME AllInv, FaultExplained, [QueryNext]_allVars, phase' = "fault"
                PROVE  hash' = <<>> \/ nchunks' = 1
    BY DEF FaultExplained
  <2>1. CASE LeafFault
    <3>1. hash' = hash /\ nchunks' = nchunks
      BY <2>1, SamePackage DEF LeafFault, build
    <3>. QED
      BY <2>1, <3>1, FaultIs
  <2>2. CASE UNCHANGED allVars
    <3>1. hash' = hash /\ nchunks' = nchunks /\ phase = "fault"
      BY <2>2, SamePackage DEF allVars, vars, build
    <3>. QED
      BY <3>1 DEF FaultExplained
  <2>3. ~LeafFault => UNCHANGED allVars
    BY DEF QueryNext, Build, HashChunk, Descend, DescendAgain, Return, Leaf, Building, BuildEnd,
           Expect, ExpectEnd, GetAllHashes, Ask, AskHashesOf, CompletedStep, MinStep, FindStep,
           FindMatch, CollectStep, Visit, QueryEnd, QueryDestroy, FreeTree, FreeTreeStep, FreeTreeEnd
  <2>. QED
    BY <2>1, <2>2, <2>3
<1>. QED
  BY <1>1, <1>2, Invariance, PTL DEF QuerySpec

\* The tree is as long as its levels allow.
LEMMA PlacesIs ==
  ASSUME AllInv
  PROVE  Len(tree) \in Places
<1>1. PICK d, L : d = depth /\ L = Len(tree)
  OBVIOUS
<1>2. L \in Nat \ {0} /\ d \in Nat \ {0}
  BY <1>1, TreeLen, PackageIs DEF AllInv, BuildInv
<1>3. Pow[d] \in Nat /\ 2 <= Pow[d]
  <2>1. d - 1 \in Nat /\ (d - 1) + 1 = d
    BY <1>2
  <2>2. Pow[d] = 2 * Pow[d - 1] /\ Pow[d - 1] \in Nat \ {0}
    BY <2>1, PowIs
  <2>. QED
    BY <2>2
<1>4. CASE phase = "hash"
  <2>1. L = 1
    BY <1>1, <1>4, RootOnly DEF AllInv, BuildInv, StackInv
  <2>. QED
    BY <1>1, <1>3, <2>1 DEF Places
<1>5. CASE phase # "hash"
  <2>1. PICK t : Counts(t)
    BY <1>5 DEF AllInv, BuildInv, CountInv
  <2>2. Len(stack) \in 0..Len(stack)
    <3>1. Len(stack) \in Nat
      BY LenProperties DEF AllInv, BuildInv, StackInv
    <3>. QED
      BY <3>1
  <2>3. L <= Pow[d] - 1
    BY <1>1, <2>1, <2>2 DEF Counts
  <2>. QED
    BY <1>1, <1>2, <1>3, <2>3 DEF Places
<1>. QED
  BY <1>4, <1>5

\* The variables of MerkleTree have their types.
LEMMA TypeIs ==
  ASSUME AllInv
  PROVE  TypeOK
<1>1. /\ nchunks \in NChunks /\ nhashes = nchunks - 1 /\ Len(data) = nchunks /\ phase \in Phases
      /\ Len(stack) <= depth /\ index \in 0..nhashes /\ index2 \in 0..nchunks
  BY DEF AllInv, BuildInv, PackageInv, StackInv, ExpectInv
<1>2. Len(hash) \in {0, nchunks}
  <2>1. Len(<<>>) = 0
    OBVIOUS
  <2>. QED
    BY <2>1 DEF AllInv, BuildInv, PackageInv
<1>3. ASSUME NEW n \in DOMAIN tree
      PROVE  tree[n].left \in 0..Len(tree) /\ tree[n].right \in 0..Len(tree)
  <2>1. n \in 1..Len(tree) /\ ShapeInv /\ Len(tree) \in Nat
    BY <1>3, TreeLen DEF AllInv, BuildInv
  <2>2. Left(n) # NULL => Left(n) \in 1..Len(tree) /\ Right(n) \in 1..Len(tree)
    BY <2>1, ChildrenAre
  <2>3. Left(n) = NULL <=> Right(n) = NULL
    BY <2>1 DEF ShapeInv, ShapeOf, Left, Right
  <2>. QED
    BY <2>1, <2>2, <2>3 DEF Left, Right, NULL
<1>. QED
  BY <1>1, <1>2, <1>3, PlacesIs DEF TypeOK, Phases

\* Symbols of the package and brackets are not garbage.
LEMMA CleanIs ==
  ASSUME AllInv
  PROVE  NoGarbageHashed
<1>1. SUFFICES ASSUME NEW n \in DOMAIN tree, tree[n].computed # Garbage
               PROVE  ~Contains(tree[n].computed, "garbage")
  BY DEF NoGarbageHashed
<1>2. n \in 1..Len(tree) /\ ShapeInv
  BY <1>1, TreeLen DEF AllInv, BuildInv
<1>3. PICK c : c = tree[n].computed
  OBVIOUS
<1>4. c \in Seq(Clean)
  BY <1>1, <1>2, <1>3, NodeIs
<1>5. "garbage" \notin Clean
  BY ContentAssumption DEF Clean
<1>6. \A i \in 1..Len(c) : c[i] \in Clean
  BY <1>4, ElementOfSeq
<1>7. ~Contains(c, "garbage")
  BY <1>5, <1>6 DEF Contains
<1>. QED
  BY <1>3, <1>7

\* ComputedOnReturn is ComputedInv, read from the right child.
LEMMA ReturnedIs ==
  ASSUME AllInv
  PROVE  ComputedOnReturn
<1>1. SUFFICES ASSUME NEW n \in DOMAIN tree, ~tree[n].is_leaf, tree[n].right # NULL
               PROVE  tree[n].computed # Garbage
                        <=> tree[tree[n].right].computed # Garbage
                              /\ ~\E i \in DOMAIN stack : stack[i].node = tree[n].right
  BY DEF ComputedOnReturn
<1>2. n \in 1..Len(tree) /\ ShapeInv
  BY <1>1, TreeLen DEF AllInv, BuildInv
<1>3. PICK r : r = tree[n].right
  OBVIOUS
<1>4. Left(n) # NULL /\ Right(n) = r
  BY <1>1, <1>2, <1>3 DEF ShapeInv, ShapeOf, Left, Right
<1>5. tree[n].computed # Garbage <=> tree[r].computed # Garbage /\ ~OnStack(r)
  BY <1>2, <1>4 DEF AllInv, BuildInv, ComputedInv
<1>6. DOMAIN stack = 1..Len(stack)
  BY LenProperties DEF AllInv, BuildInv, StackInv
<1>. QED
  BY <1>3, <1>5, <1>6 DEF OnStack

\* For every package of nchunks = nhashes + 1: the tree never outgrows the
\* perfect tree of its depth, computeParentHash never hashes what malloc left
\* in a child, and an inner node has its hash exactly once its right child is
\* done.
THEOREM TreeSafe == QuerySpec => []TreeInv
<1>1. AllInv /\ FaultExplained => TreeInv
  BY TypeIs, CleanIs, ReturnedIs DEF TreeInv
<1>. QED
  BY <1>1, Invariance, FaultSafe, PTL

\* The queries write inside their arrays.
LEMMA CapacityIs ==
  ASSUME AllInv
  PROVE  WithinCapacity
<1>1. PICK lv : Levels(lv)
  BY DEF AllInv, BuildInv, LevelInv
<1>2. Pow[depth - 1] <= nchunks /\ Pow[depth - 1] \in Nat /\ nchunks \in Nat /\ nhashes \in Nat
  BY <1>1, WeightIs, PackageIs DEF AllInv, BuildInv
<1>3. Len(<<>>) = 0
  OBVIOUS
<1>4. qry = <<>> => WithinCapacity
  BY <1>2, <1>3 DEF WithinCapacity
<1>5. Len(qry) \in Nat
  BY LenProperties DEF AllInv, QueryInv
<1>6. CASE phase = "query" /\ query # "find"
  <2>1. PICK s : Within(depth, lv, queue, Len(qry), s)
    BY <1>1, <1>6 DEF AllInv, QueryInv
  <2>2. 0 \in 0..Len(queue)
    <3>1. Len(queue) \in Nat
      BY LenProperties DEF AllInv, QueryInv
    <3>. QED
      BY <3>1
  <2>3. Len(qry) <= Pow[depth - 1]
    BY <2>1, <2>2 DEF Within
  <2>4. query # "all_hashes"
    BY <1>6 DEF AllInv, QueryInv
  <2>. QED
    BY <1>2, <1>5, <2>3, <2>4 DEF WithinCapacity
<1>7. CASE phase = "answered"
  BY <1>2, <1>5, <1>7 DEF AllInv, QueryInv, WithinCapacity
<1>8. CASE phase \notin {"query", "answered"} \/ (phase = "query" /\ query = "find")
  BY <1>4, <1>8 DEF AllInv, QueryInv
<1>. QED
  BY <1>6, <1>7, <1>8

\* Those of TreeQuery have theirs.
LEMMA QueryTypeIs ==
  ASSUME AllInv
  PROVE  QueryTypeOK
<1>1. DOMAIN tree = 1..Len(tree)
  BY TreeLen DEF AllInv, BuildInv
<1>2. qry \in Seq(PackageHashes) /\ query \in Queries /\ queue \in Seq(1..Len(tree))
  BY DEF AllInv, QueryInv
<1>3. \A i \in DOMAIN qry : qry[i] \in PackageHashes
  BY <1>2
<1>4. \A i \in DOMAIN queue : queue[i] \in DOMAIN tree
  BY <1>1, <1>2
<1>5. freed \subseteq DOMAIN tree
  BY <1>1 DEF AllInv, FreeInv, Traversal
<1>. QED
  BY <1>2, <1>3, <1>4, <1>5 DEF QueryTypeOK, Queries, PackageHashes

\* No query writes past the end of its result, and what it writes are hashes of
\* the package: nchunks slots are enough for -chunk_check, -min_hashes and
\* -hashes_of although they visit more nodes than that.
THEOREM ResultSafe == QuerySpec => []ResultInBounds
<1>1. AllInv => ResultInBounds
  BY CapacityIs, QueryTypeIs DEF ResultInBounds
<1>. QED
  BY <1>1, Invariance, PTL

\* freeTree frees every node of the tree, once, and reads none that it has
\* freed.
THEOREM FreedSafe == QuerySpec => []FreedOnce
<1>1. AllInv => FreedOnce
  <2>. SUFFICES ASSUME AllInv PROVE FreedOnce
    OBVIOUS
  <2>1. DOMAIN tree = 1..Len(tree)
    BY TreeLen DEF AllInv, BuildInv
  <2>2. ASSUME phase = "free" PROVE IsInjective(queue) /\ ToSet(queue) \cap freed = {}
    <3>1. /\ queue \in Seq(1..Len(tree)) /\ \A i, j \in 1..Len(queue) : queue[i] = queue[j] => i = j
          /\ \A i \in 1..Len(queue) : queue[i] \notin freed
      BY <2>2 DEF AllInv, FreeInv, Traversal
    <3>2. DOMAIN queue = 1..Len(queue)
      BY <3>1, LenProperties
    <3>. QED
      BY <3>1, <3>2 DEF IsInjective, ToSet
  <2>3. phase = "end" => freed = DOMAIN tree
    BY <2>1 DEF AllInv, FreeInv
  <2>. QED
    BY <2>2, <2>3 DEF FreedOnce
<1>. QED
  BY <1>1, Invariance, PTL

\* hashChunk hashes the chunks of the data file; the chunk hashes of the package
\* are hashes of some content.
HashInv ==
  /\ hash # <<>> => \A i \in 1..nchunks : hash[i] = HashOf(data[i])
  /\ \A i \in 1..nchunks : \E x \in Content : chunks[i] = HashOf(x)

\* pl[n] is the place of node n in level order.
Placed(pl) ==
  /\ pl \in [1..Len(tree) -> Nat] /\ pl[1] = 1
  /\ \A n \in 1..Len(tree) :
       /\ Left(n) # NULL => pl[Left(n)] = 2 * pl[n] /\ pl[Right(n)] = 2 * pl[n] + 1
       /\ tree[n].is_leaf => pl[n] = Pow[depth - 1] + tree[n].position
  /\ \A i \in 1..Len(stack) : pl[stack[i].node] = Pow[i - 1] + stack[i].position

\* What is computed is the Merkle hash of the place.
MerkleAt(pl) ==
  \A n \in 1..Len(tree) : tree[n].computed # Garbage => tree[n].computed = MerkleHash[pl[n]]

\* The hashes of the package in level order.
ExpectedAt(k) == IF k <= nhashes THEN hashes[k] ELSE chunks[k - nhashes]

\* After c visits the queue holds the places from c + 1 on.
Queued(pl, c) ==
  /\ \A i \in 1..Len(queue) : pl[queue[i]] = c + i
  /\ Len(queue) = IF c < Pow[depth - 1] THEN c + 1 ELSE Pow[depth] - 1 - c

\* The first c places have the hash of the package that belongs there.
LabelledTo(pl, c) ==
  \A n \in 1..Len(tree) : pl[n] <= c => tree[n].expected = ExpectedAt(pl[n])

\* levelOrderAddHash goes in level order; when it is done every place is labelled.
Ordered(pl) ==
  /\ phase = "expect" => Queued(pl, index + index2) /\ LabelledTo(pl, index + index2)
  /\ phase \in {"built", "query", "answered", "free", "end"} => LabelledTo(pl, Pow[depth] - 1)

\* The places of the nodes and what they hold.
ExactInv == HashInv /\ \E pl : Placed(pl) /\ MerkleAt(pl) /\ Ordered(pl)

\* A heap over w leaves: row k of f from the rows 2 * k and 2 * k + 1.
HeapRow(f, leaf, w, k) ==
  IF k >= w THEN leaf[(k - w) + 1] ELSE HashPair(f[2 * k], f[2 * k + 1])
HeapTable(f, leaf, w, n) == f = [k \in ((2 * w) - n)..((2 * w) - 1) |-> HeapRow(f, leaf, w, k)]
Heap(f, leaf, w) == f = [k \in 1..((2 * w) - 1) |-> HeapRow(f, leaf, w, k)]

\* A table of the last rows of a heap can be extended by a row ...
LEMMA HeapTableStep ==
  ASSUME NEW w \in Nat \ {0}, NEW leaf, NEW n \in Nat, n + 1 <= (2 * w) - 1,
         NEW f, HeapTable(f, leaf, w, n)
  PROVE  \E g : HeapTable(g, leaf, w, n + 1)
<1>. DEFINE m == (2 * w) - (n + 1)
            D == ((2 * w) - (n + 1))..((2 * w) - 1)
            E == ((2 * w) - n)..((2 * w) - 1)
            g == [k \in D |-> IF k = m THEN HeapRow(f, leaf, w, m) ELSE f[k]]
<1>1. m \in Nat \ {0} /\ \A k \in D : (k = m \/ k \in E) /\ k \in Nat /\ k >= m
  OBVIOUS
<1>2. \A k \in E : k # m /\ k \in D
  OBVIOUS
<1>3. \A k \in D : k < w => 2 * k \in E /\ 2 * k + 1 \in E
  OBVIOUS
<1>4. \A k \in E : f[k] = HeapRow(f, leaf, w, k)
  BY Zenon DEF HeapTable
<1>5. \A k \in D : k >= w \/ k < w
  BY <1>1
<1>. HIDE DEF m, E
<1>6. (\A k \in E : g[k] = f[k]) /\ (m \in D => g[m] = HeapRow(f, leaf, w, m))
  BY <1>2
<1>7. g = [k \in D |-> g[k]]
  OBVIOUS
<1>. HIDE DEF g, D
<1>8. ASSUME NEW k \in D PROVE g[k] = HeapRow(g, leaf, w, k)
  <2>1. HeapRow(g, leaf, w, k) = HeapRow(f, leaf, w, k)
    BY <1>3, <1>5, <1>6 DEF HeapRow
  <2>. QED
    BY <1>1, <1>4, <1>6, <2>1
<1>9. HeapTable(g, leaf, w, n + 1)
  BY <1>7, <1>8, Zenon DEF HeapTable, D
<1>. QED
  BY <1>9

\* ... so there is a heap over any leaves ...
LEMMA HeapExists == ASSUME NEW w \in Nat \ {0}, NEW leaf PROVE \E f : Heap(f, leaf, w)
<1>. DEFINE S == {n \in Nat : n <= (2 * w) - 1 => \E f : HeapTable(f, leaf, w, n)}
<1>1. 0 \in S
  <2>1. \A f : [k \in ((2 * w) - 0)..((2 * w) - 1) |-> HeapRow(f, leaf, w, k)]
                 = [k \in {} |-> 0]
    <3>1. ((2 * w) - 0)..((2 * w) - 1) = {}
      OBVIOUS
    <3>. QED
      BY <3>1
  <2>2. HeapTable([k \in {} |-> 0], leaf, w, 0)
    BY <2>1 DEF HeapTable
  <2>. QED
    BY <2>2
<1>2. ASSUME NEW n \in S PROVE n + 1 \in S
  <2>. SUFFICES ASSUME n + 1 <= (2 * w) - 1 PROVE \E f : HeapTable(f, leaf, w, n + 1)
    OBVIOUS
  <2>1. PICK f : HeapTable(f, leaf, w, n)
    OBVIOUS
  <2>. QED
    BY <2>1, HeapTableStep
<1>3. S = Nat
  <2>. HIDE DEF S
  <2>1. S \subseteq Nat
    BY DEF S
  <2>. QED
    BY <1>1, <1>2, <2>1, Induction
<1>4. (2 * w) - 1 \in Nat /\ (2 * w) - ((2 * w) - 1) = 1
  OBVIOUS
<1>9. PICK n : n = (2 * w) - 1
  OBVIOUS
<1>10. n \in Nat /\ n <= (2 * w) - 1
  BY <1>4, <1>9
<1>11. n \in S
  <2>. HIDE DEF S
  <2>. QED
    BY <1>3, <1>10, Zenon
<1>5. PICK f : HeapTable(f, leaf, w, n)
  BY <1>10, <1>11
<1>6. Heap(f, leaf, w)
  BY <1>4, <1>5, <1>9 DEF Heap, HeapTable
<1>. QED
  BY <1>6

\* ... and its rows are what they should be.
LEMMA HeapIs ==
  ASSUME NEW w \in Nat \ {0}, NEW leaf, NEW f, Heap(f, leaf, w), NEW k \in 1..((2 * w) - 1)
  PROVE  /\ k >= w => f[k] = leaf[(k - w) + 1]
         /\ k < w => f[k] = HashPair(f[2 * k], f[2 * k + 1])
<1>1. f[k] = HeapRow(f, leaf, w, k)
  BY Zenon DEF Heap
<1>2. k < w => ~(k >= w)
  OBVIOUS
<1>. QED
  BY <1>1, <1>2 DEF HeapRow

\* HashesOver is the upper part of a heap.
LEMMA HashesOverIs ==
  ASSUME NEW c, Len(c) \in Nat \ {0}
  PROVE  \E f : Heap(f, c, Len(c)) /\ HashesOver(c) = [k \in 1..(Len(c) - 1) |-> f[k]]
<1>. DEFINE H == CHOOSE f : f = [k \in 1..((2 * Len(c)) - 1) |->
                                  IF k >= Len(c) THEN c[(k - Len(c)) + 1]
                                  ELSE HashPair(f[2 * k], f[2 * k + 1])]
<1>1. HashesOver(c) = [k \in 1..(Len(c) - 1) |-> H[k]]
  BY DEF HashesOver
<1>2. Heap(H, c, Len(c))
  <2>1. PICK f : Heap(f, c, Len(c))
    BY HeapExists
  <2>. QED
    BY <2>1 DEF Heap, HeapRow
<1>. QED
  BY <1>1, <1>2

LeafHash == [i \in 1..nchunks |-> HashOf(data[i])]

\* So is MerkleHash, over the hashes of the chunks of the data file.
LEMMA MerkleIs ==
  ASSUME PackageInv
  PROVE  Heap(MerkleHash, LeafHash, Pow[depth - 1]) /\ Pow[depth - 1] \in Nat \ {0}
         /\ Pow[depth] = 2 * Pow[depth - 1] /\ Places = 1..((2 * Pow[depth - 1]) - 1)
<1>. DEFINE w == Pow[depth - 1]
<1>1. w \in Nat \ {0} /\ Pow[depth] = 2 * w /\ w <= nchunks /\ nchunks \in Nat
  <2>1. depth \in Nat \ {0} /\ w <= nchunks /\ nchunks \in Nat
    BY PackageIs
  <2>2. depth - 1 \in Nat /\ (depth - 1) + 1 = depth
    BY <2>1
  <2>. QED
    BY <2>1, <2>2, PowIs
<1>2. Places = 1..((2 * w) - 1)
  BY <1>1 DEF Places
<1>. DEFINE M == CHOOSE f : f = [k \in Places |->
                   IF k >= Pow[depth - 1] THEN HashOf(data[(k - Pow[depth - 1]) + 1])
                   ELSE HashPair(f[2 * k], f[2 * k + 1])]
<1>3. MerkleHash = M
  BY DEF MerkleHash
<1>. HIDE DEF w
<1>4. \A f : \A k \in 1..((2 * w) - 1) :
        HeapRow(f, LeafHash, w, k)
          = IF k >= w THEN HashOf(data[(k - w) + 1]) ELSE HashPair(f[2 * k], f[2 * k + 1])
  <2>1. \A k \in 1..((2 * w) - 1) : k >= w => (k - w) + 1 \in 1..nchunks
    BY <1>1
  <2>. QED
    BY <2>1 DEF HeapRow, LeafHash
<1>5. \A f : Heap(f, LeafHash, w) <=>
        f = [k \in 1..((2 * w) - 1) |->
              IF k >= w THEN HashOf(data[(k - w) + 1]) ELSE HashPair(f[2 * k], f[2 * k + 1])]
  BY <1>4 DEF Heap
<1>6. \A f : Heap(f, LeafHash, w) <=>
        f = [k \in Places |->
              IF k >= w THEN HashOf(data[(k - w) + 1]) ELSE HashPair(f[2 * k], f[2 * k + 1])]
  BY <1>2, <1>5
<1>7. \E f : Heap(f, LeafHash, w)
  BY <1>1, HeapExists
<1>8. Heap(M, LeafHash, w)
  BY <1>6, <1>7 DEF w
<1>. QED
  BY <1>1, <1>2, <1>3, <1>8 DEF w

\* Sequences of one length that begin two equal concatenations are equal.
LEMMA FrontsEqual ==
  ASSUME NEW X, NEW l \in Seq(X), NEW r \in Seq(X), NEW u \in Seq(X), NEW v \in Seq(X),
         Len(l) = Len(u), l \o r = u \o v
  PROVE  l = u
<1>1. Len(l) \in Nat /\ Len(r) \in Nat /\ Len(v) \in Nat
  BY LenProperties
<1>2. ASSUME NEW i \in 1..Len(l) PROVE l[i] = u[i]
  <2>1. i \in 1..(Len(l) + Len(r)) /\ i \in 1..(Len(u) + Len(v)) /\ i <= Len(l) /\ i <= Len(u)
    BY <1>1
  <2>2. (l \o r)[i] = l[i]
    BY ONLY <2>1, ConcatProperties, l \in Seq(X), r \in Seq(X)
  <2>3. (u \o v)[i] = u[i]
    BY ONLY <2>1, ConcatProperties, u \in Seq(X), v \in Seq(X)
  <2>. QED
    BY <2>2, <2>3
<1>. QED
  BY ONLY <1>2, SeqEqual, l \in Seq(X), u \in Seq(X), Len(l) = Len(u)

\* Two pairs of hashes of one length have the same hash only if they are the same.
LEMMA HashPairsEqual ==
  ASSUME NEW l \in Seq(Clean), NEW r \in Seq(Clean), NEW u \in Seq(Clean), NEW v \in Seq(Clean),
         Len(l) = Len(u), HashPair(l, r) = HashPair(u, v)
  PROVE  l = u /\ r = v
<1>1. PICK a, b : a = <<"(">> /\ b = <<")">>
  OBVIOUS
<1>2. a \in Seq(Clean) /\ b \in Seq(Clean)
  <2>1. "(" \in Clean /\ ")" \in Clean
    BY DEF Clean
  <2>. QED
    BY <1>1, <2>1, OneSeq
<1>3. ((a \o l) \o r) \o b = ((a \o u) \o v) \o b
  BY <1>1 DEF HashPair
<1>4. a \o l \in Seq(Clean) /\ a \o u \in Seq(Clean)
  BY ONLY <1>2, ConcatProperties, l \in Seq(Clean), u \in Seq(Clean)
<1>5. (a \o l) \o r \in Seq(Clean) /\ (a \o u) \o v \in Seq(Clean)
  BY ONLY <1>4, ConcatProperties, r \in Seq(Clean), v \in Seq(Clean)
<1>6. (a \o l) \o r = (a \o u) \o v
  BY ONLY <1>2, <1>3, <1>5, ConcatSimplifications, Zenon
<1>7. Len(a \o l) = Len(a \o u)
  <2>1. Len(a \o l) = Len(a) + Len(l)
    BY ONLY <1>2, ConcatProperties, l \in Seq(Clean)
  <2>2. Len(a \o u) = Len(a) + Len(u)
    BY ONLY <1>2, ConcatProperties, u \in Seq(Clean)
  <2>. QED
    BY <2>1, <2>2
<1>8. a \o l = a \o u
  BY ONLY <1>4, <1>6, <1>7, FrontsEqual, r \in Seq(Clean), v \in Seq(Clean), Zenon
<1>9. l = u
  BY ONLY <1>2, <1>8, ConcatSimplifications, l \in Seq(Clean), u \in Seq(Clean), Zenon
<1>10. (a \o l) \o r = (a \o l) \o v
  BY <1>6, <1>8
<1>11. r = v
  BY ONLY <1>4, <1>10, ConcatSimplifications, r \in Seq(Clean), v \in Seq(Clean), Zenon
<1>. QED
  BY <1>9, <1>11

\* The length of the hash of two clean hashes.
LEMMA HashPairLen ==
  ASSUME NEW l \in Seq(Clean), NEW r \in Seq(Clean)
  PROVE  Len(HashPair(l, r)) = Len(l) + Len(r) + 2
<1>1. PICK a, b : a = <<"(">> /\ b = <<")">>
  OBVIOUS
<1>2. a \in Seq(Clean) /\ b \in Seq(Clean) /\ Len(a) = 1 /\ Len(b) = 1
  <2>1. "(" \in Clean /\ ")" \in Clean
    BY DEF Clean
  <2>. QED
    BY <1>1, <2>1, OneSeq
<1>3. a \o l \in Seq(Clean) /\ Len(a \o l) = Len(a) + Len(l)
  BY ONLY <1>2, ConcatProperties, l \in Seq(Clean)
<1>4. (a \o l) \o r \in Seq(Clean) /\ Len((a \o l) \o r) = Len(a \o l) + Len(r)
  BY ONLY <1>3, ConcatProperties, r \in Seq(Clean)
<1>5. Len(((a \o l) \o r) \o b) = Len((a \o l) \o r) + Len(b)
  BY ONLY <1>4, <1>2, ConcatProperties
<1>6. HashPair(l, r) = ((a \o l) \o r) \o b
  BY <1>1 DEF HashPair
<1>7. Len(l) \in Nat /\ Len(r) \in Nat
  BY LenProperties
<1>. QED
  BY ONLY <1>2, <1>3, <1>4, <1>5, <1>6, <1>7

\* The leaves of a heap: hashes of chunks.
Leaves(a, w) == \A i \in 1..w : a[i] \in Seq(Clean) /\ Len(a[i]) = 1

\* The rows of two heaps have the same length.
LEMMA HeapsSameLen ==
  ASSUME NEW w \in Nat \ {0}, NEW a, NEW b, Leaves(a, w), Leaves(b, w),
         NEW f, NEW h, Heap(f, a, w), Heap(h, b, w)
  PROVE  \A k \in 1..((2 * w) - 1) :
           f[k] \in Seq(Clean) /\ h[k] \in Seq(Clean) /\ Len(f[k]) = Len(h[k])
<1>. DEFINE D == 1..((2 * w) - 1)
            Same(k) == f[k] \in Seq(Clean) /\ h[k] \in Seq(Clean) /\ Len(f[k]) = Len(h[k])
            S == {n \in Nat : \A k \in D : k >= (2 * w) - n => Same(k)}
<1>1. 0 \in S
  OBVIOUS
<1>2. ASSUME NEW n \in S PROVE n + 1 \in S
  <2>1. n \in Nat /\ \A k \in D : k >= (2 * w) - n => Same(k)
    OBVIOUS
  <2>. HIDE DEF Same
  <2>. SUFFICES ASSUME NEW k \in D, k >= (2 * w) - (n + 1) PROVE Same(k)
    BY <2>1
  <2>2. CASE k >= w
    <3>1. (k - w) + 1 \in 1..w
      BY <2>2
    <3>2. f[k] = a[(k - w) + 1] /\ h[k] = b[(k - w) + 1]
      BY <2>2, HeapIs
    <3>. QED
      BY <3>1, <3>2 DEF Same, Leaves
  <2>3. CASE k < w
    <3>1. /\ 2 * k \in D /\ 2 * k + 1 \in D
          /\ 2 * k >= (2 * w) - n /\ 2 * k + 1 >= (2 * w) - n
      BY <2>1, <2>3
    <3>2. Same(2 * k) /\ Same(2 * k + 1)
      BY <2>1, <3>1
    <3>3. f[k] = HashPair(f[2 * k], f[2 * k + 1]) /\ h[k] = HashPair(h[2 * k], h[2 * k + 1])
      BY <2>3, HeapIs
    <3>4. PICK p, q, r, s : p = f[2 * k] /\ q = f[2 * k + 1] /\ r = h[2 * k] /\ s = h[2 * k + 1]
      OBVIOUS
    <3>5. /\ p \in Seq(Clean) /\ q \in Seq(Clean) /\ r \in Seq(Clean) /\ s \in Seq(Clean)
          /\ Len(p) = Len(r) /\ Len(q) = Len(s)
      BY <3>2, <3>4 DEF Same
    <3>6. /\ HashPair(p, q) \in Seq(Clean) /\ HashPair(r, s) \in Seq(Clean)
          /\ Len(HashPair(p, q)) = Len(HashPair(r, s))
      <4>1. HashPair(p, q) \in Seq(Clean) /\ Len(HashPair(p, q)) = Len(p) + Len(q) + 2
        BY ONLY <3>5, HashPairIs, HashPairLen, Zenon
      <4>2. HashPair(r, s) \in Seq(Clean) /\ Len(HashPair(r, s)) = Len(r) + Len(s) + 2
        BY ONLY <3>5, HashPairIs, HashPairLen, Zenon
      <4>. QED
        BY <3>5, <4>1, <4>2
    <3>. QED
      BY <3>3, <3>4, <3>6 DEF Same
  <2>. QED
    BY <2>2, <2>3
<1>3. S = Nat
  <2>. HIDE DEF S
  <2>1. S \subseteq Nat
    BY DEF S
  <2>. QED
    BY <1>1, <1>2, <2>1, Induction
<1>4. 2 * w \in Nat
  OBVIOUS
<1>5. 2 * w \in S
  <2>. HIDE DEF S
  <2>. QED
    BY <1>3, <1>4
<1>. QED
  BY <1>5

SameLeaves(a, b, w) == \A i \in 1..w : a[i] = b[i]

\* Heaps over the same leaves are the same.
LEMMA HeapUnique ==
  ASSUME NEW w \in Nat \ {0}, NEW a, NEW b, SameLeaves(a, b, w),
         NEW f, NEW h, Heap(f, a, w), Heap(h, b, w)
  PROVE  \A k \in 1..((2 * w) - 1) : f[k] = h[k]
<1>. DEFINE D == 1..((2 * w) - 1)
            S == {n \in Nat : \A k \in D : k >= (2 * w) - n => f[k] = h[k]}
<1>1. 0 \in S
  OBVIOUS
<1>2. ASSUME NEW n \in S PROVE n + 1 \in S
  <2>1. n \in Nat /\ \A k \in D : k >= (2 * w) - n => f[k] = h[k]
    OBVIOUS
  <2>. SUFFICES ASSUME NEW k \in D, k >= (2 * w) - (n + 1) PROVE f[k] = h[k]
    BY <2>1
  <2>2. CASE k >= w
    <3>1. (k - w) + 1 \in 1..w
      BY <2>2
    <3>2. f[k] = a[(k - w) + 1] /\ h[k] = b[(k - w) + 1]
      BY <2>2, HeapIs
    <3>. QED
      BY <3>1, <3>2 DEF SameLeaves
  <2>3. CASE k < w
    <3>1. /\ 2 * k \in D /\ 2 * k + 1 \in D
          /\ 2 * k >= (2 * w) - n /\ 2 * k + 1 >= (2 * w) - n
      BY <2>1, <2>3
    <3>2. f[2 * k] = h[2 * k] /\ f[2 * k + 1] = h[2 * k + 1]
      BY <2>1, <3>1
    <3>3. f[k] = HashPair(f[2 * k], f[2 * k + 1]) /\ h[k] = HashPair(h[2 * k], h[2 * k + 1])
      BY <2>3, HeapIs
    <3>. QED
      BY <3>2, <3>3
  <2>. QED
    BY <2>2, <2>3
<1>3. S = Nat
  <2>. HIDE DEF S
  <2>1. S \subseteq Nat
    BY DEF S
  <2>. QED
    BY <1>1, <1>2, <2>1, Induction
<1>4. 2 * w \in Nat
  OBVIOUS
<1>5. 2 * w \in S
  <2>. HIDE DEF S
  <2>. QED
    BY <1>3, <1>4
<1>. QED
  BY <1>5

\* A number is twice its half, or one more.
LEMMA HalfIs ==
  ASSUME NEW k \in Nat \ {0}
  PROVE  /\ k \div 2 \in Nat /\ k \div 2 < k /\ (k # 1 => k \div 2 # 0)
         /\ (k % 2 = 0 => k = 2 * (k \div 2)) /\ (k % 2 # 0 => k = 2 * (k \div 2) + 1)
  OBVIOUS

\* The top of a heap decides about its leaves.
LEMMA HeapsDecide ==
  ASSUME NEW w \in Nat \ {0}, NEW a, NEW b, Leaves(a, w), Leaves(b, w),
         NEW f, NEW h, Heap(f, a, w), Heap(h, b, w), f[1] = h[1]
  PROVE  \A i \in 1..w : a[i] = b[i]
<1>. DEFINE D == 1..((2 * w) - 1)
            S == {n \in Nat : \A k \in D : k <= n => f[k] = h[k]}
<1>1. 0 \in S
  OBVIOUS
<1>2. ASSUME NEW n \in S PROVE n + 1 \in S
  <2>1. n \in Nat /\ \A k \in D : k <= n => f[k] = h[k]
    OBVIOUS
  <2>. SUFFICES ASSUME NEW k \in D, k <= n + 1, k # 1 PROVE f[k] = h[k]
    BY <2>1
  <2>2. PICK p : p = k \div 2
    OBVIOUS
  <2>3. p \in Nat \ {0} /\ p < k /\ (k = 2 * p \/ k = 2 * p + 1)
    BY <2>2, HalfIs
  <2>4. p \in D /\ p <= n /\ p < w /\ 2 * p \in D /\ 2 * p + 1 \in D
    BY <2>1, <2>3
  <2>5. f[p] = HashPair(f[2 * p], f[2 * p + 1]) /\ h[p] = HashPair(h[2 * p], h[2 * p + 1])
    BY <2>4, HeapIs
  <2>6. f[p] = h[p]
    BY <2>1, <2>4
  <2>7. /\ f[2 * p] \in Seq(Clean) /\ h[2 * p] \in Seq(Clean) /\ Len(f[2 * p]) = Len(h[2 * p])
        /\ f[2 * p + 1] \in Seq(Clean) /\ h[2 * p + 1] \in Seq(Clean)
    BY <2>4, HeapsSameLen
  <2>8. f[2 * p] = h[2 * p] /\ f[2 * p + 1] = h[2 * p + 1]
    <3>1. PICK l, r, u, v : l = f[2 * p] /\ r = f[2 * p + 1] /\ u = h[2 * p] /\ v = h[2 * p + 1]
      OBVIOUS
    <3>2. HashPair(l, r) = HashPair(u, v)
      BY <2>5, <2>6, <3>1
    <3>3. /\ l \in Seq(Clean) /\ r \in Seq(Clean) /\ u \in Seq(Clean) /\ v \in Seq(Clean)
          /\ Len(l) = Len(u)
      BY <2>7, <3>1
    <3>4. l = u /\ r = v
      BY ONLY <3>2, <3>3, HashPairsEqual, Zenon
    <3>. QED
      BY <3>1, <3>4
  <2>. QED
    BY <2>3, <2>8
<1>3. S = Nat
  <2>. HIDE DEF S
  <2>1. S \subseteq Nat
    BY DEF S
  <2>. QED
    BY <1>1, <1>2, <2>1, Induction
<1>4. 2 * w \in Nat
  OBVIOUS
<1>5. 2 * w \in S
  <2>. HIDE DEF S
  <2>. QED
    BY <1>3, <1>4
<1>6. ASSUME NEW i \in 1..w PROVE a[i] = b[i]
  <2>1. PICK k : k = (w + i) - 1
    OBVIOUS
  <2>2. k \in D /\ k >= w /\ (k - w) + 1 = i /\ k <= 2 * w
    BY <2>1
  <2>3. f[k] = a[i] /\ h[k] = b[i]
    BY <2>2, HeapIs
  <2>4. f[k] = h[k]
    BY <1>5, <2>2
  <2>. QED
    BY <2>3, <2>4
<1>. QED
  BY <1>6

\* The node at a place, from the node at the place above it.
NodeRow(f, k) ==
  IF k = 1 THEN 1 ELSE IF k % 2 = 0 THEN Left(f[k \div 2]) ELSE Right(f[k \div 2])
NodeTable(f, n) == f = [k \in 1..n |-> NodeRow(f, k)]

\* The nodes at the first n + 1 places, from those at the first n ...
LEMMA NodeTableStep ==
  ASSUME NEW n \in Nat, NEW f, NodeTable(f, n)
  PROVE  \E g : NodeTable(g, n + 1)
<1>. DEFINE g == [k \in 1..(n + 1) |-> IF k = n + 1 THEN NodeRow(f, k) ELSE f[k]]
<1>1. \A k \in 1..n : f[k] = NodeRow(f, k)
  BY Zenon DEF NodeTable
<1>2. \A k \in 1..(n + 1) : k = n + 1 \/ k \in 1..n
  OBVIOUS
<1>3. \A k \in 1..(n + 1) : k = 1 \/ k \div 2 \in 1..n
  <2>1. ASSUME NEW k \in 1..(n + 1), k # 1 PROVE k \div 2 \in 1..n
    <3>1. k \in Nat \ {0} /\ k <= n + 1
      OBVIOUS
    <3>2. k \div 2 \in Nat /\ k \div 2 < k /\ k \div 2 # 0
      BY ONLY <2>1, <3>1, HalfIs
    <3>3. PICK p : p = k \div 2
      OBVIOUS
    <3>4. p \in 1..n
      BY <3>1, <3>2, <3>3
    <3>. QED
      BY <3>3, <3>4
  <2>. QED
    BY <2>1
<1>4. \A k \in 1..n : g[k] = f[k]
  OBVIOUS
<1>5. g[n + 1] = NodeRow(f, n + 1)
  OBVIOUS
<1>6. g = [k \in 1..(n + 1) |-> g[k]]
  OBVIOUS
<1>. HIDE DEF g
<1>7. ASSUME NEW k \in 1..(n + 1) PROVE g[k] = NodeRow(g, k)
  <2>1. NodeRow(g, k) = NodeRow(f, k)
    <3>1. CASE k = 1
      BY <3>1 DEF NodeRow
    <3>2. CASE k # 1
      <4>1. g[k \div 2] = f[k \div 2]
        BY <1>3, <1>4, <3>2
      <4>. QED
        BY <4>1 DEF NodeRow
    <3>. QED
      BY <3>1, <3>2
  <2>. QED
    BY <1>1, <1>2, <1>4, <1>5, <2>1
<1>8. NodeTable(g, n + 1)
  BY <1>6, <1>7, Zenon DEF NodeTable
<1>. QED
  BY <1>8

\* ... so there is a table of any length.
LEMMA NodeTableExists == \A n \in Nat : \E f : NodeTable(f, n)
<1>. DEFINE S == {n \in Nat : \E f : NodeTable(f, n)}
<1>1. 0 \in S
  <2>1. \A f : [k \in 1..0 |-> NodeRow(f, k)] = [k \in {} |-> 0]
    <3>1. 1..0 = {}
      OBVIOUS
    <3>. QED
      BY <3>1
  <2>2. NodeTable([k \in {} |-> 0], 0)
    BY <2>1 DEF NodeTable
  <2>. QED
    BY <2>2
<1>2. ASSUME NEW n \in S PROVE n + 1 \in S
  <2>1. PICK f : NodeTable(f, n)
    OBVIOUS
  <2>. QED
    BY <2>1, NodeTableStep
<1>3. S = Nat
  <2>. HIDE DEF S
  <2>1. S \subseteq Nat
    BY DEF S
  <2>. QED
    BY <1>1, <1>2, <2>1, Induction
<1>. QED
  BY <1>3

\* The recursive definition of NodeAt is one.
LEMMA NodeAtIs ==
  ASSUME PackageInv
  PROVE  \A k \in Places : NodeAt[k] = NodeRow(NodeAt, k)
<1>1. PICK n : n = (2 * Pow[depth - 1]) - 1
  OBVIOUS
<1>2. n \in Nat /\ Places = 1..n
  <2>1. Pow[depth - 1] \in Nat \ {0} /\ Places = 1..((2 * Pow[depth - 1]) - 1)
    BY MerkleIs
  <2>. QED
    BY <1>1, <2>1
<1>3. \A f : [k \in Places |-> NodeRow(f, k)]
               = [k \in Places |-> IF k = 1 THEN 1
                                   ELSE LET p == tree[f[k \div 2]]
                                        IN IF k % 2 = 0 THEN p.left ELSE p.right]
  BY DEF NodeRow, Left, Right
<1>4. NodeAt = CHOOSE f : f = [k \in Places |-> NodeRow(f, k)]
  BY <1>3 DEF NodeAt
<1>5. PICK f : NodeTable(f, n)
  BY <1>2, NodeTableExists
<1>6. f = [k \in Places |-> NodeRow(f, k)]
  BY <1>2, <1>5 DEF NodeTable
<1>7. NodeAt = [k \in Places |-> NodeRow(NodeAt, k)]
  BY <1>4, <1>6, Zenon
<1>. QED
  BY <1>7, Zenon

\* Every node but the root is a child of a node allocated before it.
LEMMA ParentIs ==
  ASSUME ShapeInv, NEW n \in 1..Len(tree), n # 1
  PROVE  \E p \in 1..Len(tree) :
           p < n /\ p = tree[n].parent /\ Left(p) # NULL /\ (n = Left(p) \/ n = Right(p))
<1>1. PICK p : p = tree[n].parent
  OBVIOUS
<1>2. p \in 1..(n - 1) /\ (n = tree[p].left \/ n = tree[p].right)
  BY <1>1 DEF ShapeInv, ShapeOf
<1>3. Len(tree) \in Nat
  BY TreeLen
<1>4. p \in 1..Len(tree) /\ p < n
  BY <1>2, <1>3
<1>5. ShapeOf(p)
  BY <1>4 DEF ShapeInv
<1>6. Left(p) = NULL <=> Right(p) = NULL
  BY <1>5 DEF ShapeOf, Left, Right
<1>7. n = Left(p) \/ n = Right(p)
  BY <1>2 DEF Left, Right
<1>8. n # NULL
  BY DEF NULL
<1>. QED
  BY <1>1, <1>4, <1>6, <1>7, <1>8

\* A node on level l is among the places from 2^(l-1) to 2^l - 1.
OnLevel(pl, lv, n) ==
  /\ lv[n] \in Nat \ {0} /\ lv[n] <= depth
  /\ pl[n] \in Nat /\ Pow[lv[n] - 1] <= pl[n] /\ pl[n] < 2 * Pow[lv[n] - 1]

\* Every node is on its level.
LEMMA OnLevelIs ==
  ASSUME BuildInv, NEW lv, Levels(lv), NEW pl, Placed(pl)
  PROVE  \A n \in 1..Len(tree) : OnLevel(pl, lv, n)
<1>. DEFINE S == {m \in Nat : \A n \in 1..Len(tree) : n <= m => OnLevel(pl, lv, n)}
<1>0. ShapeInv /\ Len(tree) \in Nat /\ depth \in Nat \ {0}
  BY TreeLen, PackageIs DEF BuildInv
<1>1. 0 \in S
  OBVIOUS
<1>2. ASSUME NEW m \in S PROVE m + 1 \in S
  <2>1. m \in Nat /\ \A n \in 1..Len(tree) : n <= m => OnLevel(pl, lv, n)
    OBVIOUS
  <2>. HIDE DEF S
  <2>2. ASSUME NEW n \in 1..Len(tree), n <= m + 1 PROVE OnLevel(pl, lv, n)
    <3>1. lv[n] \in 1..depth /\ pl[n] \in Nat
      BY DEF Levels, Placed
    <3>2. CASE n = 1
      <4>1. lv[n] = 1 /\ pl[n] = 1
        BY <3>2 DEF Levels, Placed
      <4>2. Pow[1 - 1] = 1
        BY PowIs
      <4>. QED
        BY <1>0, <3>1, <4>1, <4>2 DEF OnLevel
    <3>3. CASE n # 1
      <4>1. PICK p \in 1..Len(tree) :
              p < n /\ p = tree[n].parent /\ Left(p) # NULL /\ (n = Left(p) \/ n = Right(p))
        BY <1>0, <3>3, ParentIs
      <4>2. lv[n] = lv[p] + 1 /\ (pl[n] = 2 * pl[p] \/ pl[n] = 2 * pl[p] + 1)
        BY <4>1 DEF Levels, Placed
      <4>3. OnLevel(pl, lv, p)
        BY <1>0, <2>1, <2>2, <4>1
      <4>4. PICK l, w : l = lv[p] /\ w = Pow[l - 1]
        OBVIOUS
      <4>5. l \in Nat \ {0} /\ pl[p] \in Nat /\ w <= pl[p] /\ pl[p] < 2 * w
        BY <4>3, <4>4 DEF OnLevel
      <4>6. w \in Nat /\ Pow[(l + 1) - 1] = 2 * w
        <5>1. l - 1 \in Nat /\ (l - 1) + 1 = (l + 1) - 1
          BY <4>5
        <5>. QED
          BY <4>4, <5>1, PowIs
      <4>7. lv[n] = l + 1
        BY <4>2, <4>4
      <4>8. 2 * w <= pl[n] /\ pl[n] < 2 * (2 * w)
        BY <4>2, <4>5, <4>6
      <4>9. l + 1 <= depth
        BY <1>0, <3>1, <4>7
      <4>. QED
        BY <3>1, <4>5, <4>6, <4>7, <4>8, <4>9 DEF OnLevel
    <3>. QED
      BY <3>2, <3>3
  <2>3. m + 1 \in Nat
    BY <2>1
  <2>. QED
    BY <2>2, <2>3 DEF S
<1>3. S = Nat
  <2>. HIDE DEF S
  <2>1. S \subseteq Nat
    BY DEF S
  <2>. QED
    BY <1>1, <1>2, <2>1, Induction
<1>4. Len(tree) \in S
  <2>. HIDE DEF S
  <2>. QED
    BY <1>0, <1>3
<1>. QED
  BY <1>4

\* Every node has a place; an inner node is above the last level.
LEMMA PlacesOf ==
  ASSUME BuildInv, NEW pl, Placed(pl), NEW n \in 1..Len(tree)
  PROVE  pl[n] \in Places /\ (Left(n) # NULL => pl[n] < Pow[depth - 1])
<1>1. PICK lv : Levels(lv)
  BY DEF BuildInv, LevelInv
<1>2. OnLevel(pl, lv, n)
  BY <1>1, OnLevelIs
<1>3. PICK d, w, l, k : d = depth /\ w = Pow[d - 1] /\ l = lv[n] /\ k = pl[n]
  OBVIOUS
<1>4. d \in Nat \ {0} /\ w \in Nat \ {0} /\ Places = 1..((2 * w) - 1)
  BY <1>3, MerkleIs, PackageIs DEF BuildInv
<1>5. l \in Nat \ {0} /\ l <= d /\ k \in Nat /\ Pow[l - 1] <= k /\ k < 2 * Pow[l - 1]
  BY <1>2, <1>3 DEF OnLevel
<1>6. l - 1 \in Nat /\ d - 1 \in Nat /\ l - 1 <= d - 1 /\ l \in Nat /\ (l - 1) + 1 = l
  BY <1>4, <1>5
<1>7. Pow[l - 1] \in Nat \ {0} /\ Pow[l - 1] <= w /\ Pow[l] = 2 * Pow[l - 1]
  BY <1>3, <1>6, PowMono, PowIs
<1>8. k \in Places
  <2>1. k \in Nat /\ 1 <= k /\ k <= (2 * w) - 1
    BY <1>4, <1>5, <1>7
  <2>. QED
    BY <1>4, <2>1
<1>9. ASSUME Left(n) # NULL PROVE k < w
  <2>1. Left(n) \in 1..Len(tree) /\ lv[Left(n)] = l + 1
    BY <1>1, <1>3, <1>9, ChildrenAre DEF BuildInv, Levels
  <2>2. lv[Left(n)] \in 1..d
    BY <1>1, <1>3, <2>1 DEF Levels
  <2>3. l <= d - 1
    BY <1>4, <1>5, <2>1, <2>2
  <2>4. Pow[l] <= w
    BY <1>3, <1>6, <2>3, PowMono
  <2>. QED
    BY <1>5, <1>7, <2>4, <1>4
<1>. QED
  BY <1>3, <1>8, <1>9

\* Following the pointers leads to the place of a node.
LEMMA NodeAtPlace ==
  ASSUME BuildInv, NEW pl, Placed(pl)
  PROVE  \A n \in 1..Len(tree) : NodeAt[pl[n]] = n
<1>. DEFINE S == {m \in Nat : \A n \in 1..Len(tree) : n <= m => NodeAt[pl[n]] = n}
<1>0. ShapeInv /\ PackageInv /\ Len(tree) \in Nat
  BY TreeLen DEF BuildInv
<1>1. 0 \in S
  OBVIOUS
<1>2. ASSUME NEW m \in S PROVE m + 1 \in S
  <2>1. m \in Nat /\ \A n \in 1..Len(tree) : n <= m => NodeAt[pl[n]] = n
    OBVIOUS
  <2>. HIDE DEF S
  <2>2. ASSUME NEW n \in 1..Len(tree), n <= m + 1 PROVE NodeAt[pl[n]] = n
    <3>0. PICK k : k = pl[n]
      OBVIOUS
    <3>1. k \in Places /\ NodeAt[k] = NodeRow(NodeAt, k)
      <4>1. k \in Places
        BY <3>0, PlacesOf
      <4>. QED
        BY <1>0, <4>1, NodeAtIs
    <3>2. CASE n = 1
      <4>1. k = 1
        BY <3>0, <3>2 DEF Placed
      <4>. QED
        BY <3>0, <3>1, <3>2, <4>1 DEF NodeRow
    <3>3. CASE n # 1
      <4>1. PICK p \in 1..Len(tree) :
              p < n /\ p = tree[n].parent /\ Left(p) # NULL /\ (n = Left(p) \/ n = Right(p))
        BY <1>0, <3>3, ParentIs
      <4>2. (n = Left(p) => k = 2 * pl[p]) /\ (n = Right(p) => k = 2 * pl[p] + 1)
        BY <3>0, <4>1 DEF Placed
      <4>3. NodeAt[pl[p]] = p
        BY <1>0, <2>1, <2>2, <4>1
      <4>4. PICK q : q = pl[p]
        OBVIOUS
      <4>5. q \in Nat \ {0}
        <5>1. q \in Places
          BY <4>1, <4>4, PlacesOf
        <5>. QED
          BY <5>1, <1>0, MerkleIs
      <4>6. CASE n = Left(p)
        <5>1. k = 2 * q
          BY <4>2, <4>4, <4>6
        <5>2. k # 1 /\ k % 2 = 0 /\ k \div 2 = q
          BY <4>5, <5>1
        <5>. QED
          BY <3>0, <3>1, <4>3, <4>4, <4>6, <5>2 DEF NodeRow
      <4>7. CASE n = Right(p)
        <5>1. k = 2 * q + 1
          BY <4>2, <4>4, <4>7
        <5>2. k # 1 /\ k % 2 # 0 /\ k \div 2 = q
          BY <4>5, <5>1
        <5>. QED
          BY <3>0, <3>1, <4>3, <4>4, <4>7, <5>2 DEF NodeRow
      <4>. QED
        BY <4>1, <4>6, <4>7
    <3>. QED
      BY <3>2, <3>3
  <2>3. m + 1 \in Nat
    BY <2>1
  <2>. QED
    BY <2>2, <2>3 DEF S
<1>3. S = Nat
  <2>. HIDE DEF S
  <2>1. S \subseteq Nat
    BY DEF S
  <2>. QED
    BY <1>1, <1>2, <2>1, Induction
<1>4. Len(tree) \in S
  <2>. HIDE DEF S
  <2>. QED
    BY <1>0, <1>3
<1>. QED
  BY <1>4

\* When no frame is left every place has its node.
LEMMA PlaceFilled ==
  ASSUME BuildInv, phase # "hash", stack = <<>>, NEW pl, Placed(pl)
  PROVE  \A k \in Places : NodeAt[k] \in 1..Len(tree) /\ pl[NodeAt[k]] = k
<1>. DEFINE Filled(k) == NodeAt[k] \in 1..Len(tree) /\ pl[NodeAt[k]] = k
            S == {m \in Nat : \A k \in Places : k <= m => Filled(k)}
<1>0. /\ ShapeInv /\ PackageInv /\ Len(tree) \in Nat /\ 1 \in 1..Len(tree)
      /\ Pow[depth - 1] \in Nat \ {0} /\ Places = 1..((2 * Pow[depth - 1]) - 1)
  BY TreeLen, MerkleIs DEF BuildInv
<1>1. 0 \in S
  BY <1>0
<1>2. ASSUME NEW m \in S PROVE m + 1 \in S
  <2>1. m \in Nat /\ \A k \in Places : k <= m => Filled(k)
    OBVIOUS
  <2>. HIDE DEF S
  <2>2. ASSUME NEW k \in Places, k <= m + 1 PROVE Filled(k)
    <3>1. NodeAt[k] = NodeRow(NodeAt, k)
      BY <1>0, NodeAtIs
    <3>2. CASE k = 1
      <4>1. NodeAt[k] = 1 /\ pl[1] = 1
        BY <3>1, <3>2 DEF NodeRow, Placed
      <4>. QED
        BY <1>0, <3>2, <4>1
    <3>3. CASE k # 1
      <4>1. PICK p, w : p = k \div 2 /\ w = Pow[depth - 1]
        OBVIOUS
      <4>2. k \in Nat \ {0}
        BY <1>0
      <4>3. /\ p \in Nat \ {0} /\ p < k
            /\ (k % 2 = 0 => k = 2 * p) /\ (k % 2 # 0 => k = 2 * p + 1)
        BY ONLY <3>3, <4>1, <4>2, HalfIs
      <4>4. p \in Places /\ p <= m /\ p < w
        BY <1>0, <2>1, <2>2, <4>1, <4>3
      <4>5. PICK n : n = NodeAt[p]
        OBVIOUS
      <4>6. n \in 1..Len(tree) /\ pl[n] = p
        BY <2>1, <4>4, <4>5
      <4>7. Left(n) # NULL
        <5>1. ~Waiting(n)
          <6>1. 1..Len(stack) = {}
            OBVIOUS
          <6>. QED
            BY <6>1 DEF Waiting
        <5>2. tree[n].is_leaf \/ Left(n) # NULL
          BY <4>6, <5>1 DEF BuildInv, DoneInv
        <5>3. ~tree[n].is_leaf
          <6>. SUFFICES ASSUME tree[n].is_leaf PROVE FALSE
            OBVIOUS
          <6>1. p = w + tree[n].position
            BY <4>1, <4>6 DEF Placed
          <6>2. tree[n].position \in Nat
            BY <1>0, <4>6, NodeIs
          <6>. QED
            BY <1>0, <4>1, <4>4, <6>1, <6>2
        <5>. QED
          BY <5>2, <5>3
      <4>8. /\ Left(n) \in 1..Len(tree) /\ Right(n) \in 1..Len(tree)
            /\ pl[Left(n)] = 2 * p /\ pl[Right(n)] = 2 * p + 1
        BY <1>0, <4>6, <4>7, ChildrenAre DEF Placed
      <4>9. CASE k % 2 = 0
        <5>1. NodeAt[k] = Left(n)
          BY <3>1, <3>3, <4>1, <4>5, <4>9 DEF NodeRow
        <5>. QED
          BY <4>3, <4>8, <4>9, <5>1
      <4>10. CASE k % 2 # 0
        <5>1. NodeAt[k] = Right(n)
          BY <3>1, <3>3, <4>1, <4>5, <4>10 DEF NodeRow
        <5>. QED
          BY <4>3, <4>8, <4>10, <5>1
      <4>. QED
        BY <4>9, <4>10
    <3>. QED
      BY <3>2, <3>3
  <2>3. m + 1 \in Nat
    BY <2>1
  <2>. QED
    BY <2>2, <2>3 DEF S
<1>3. S = Nat
  <2>. HIDE DEF S
  <2>1. S \subseteq Nat
    BY DEF S
  <2>. QED
    BY <1>1, <1>2, <2>1, Induction
<1>4. ASSUME NEW k \in Places PROVE Filled(k)
  <2>1. k \in Nat
    BY <1>0
  <2>2. k \in S
    <3>. HIDE DEF S
    <3>. QED
      BY <1>3, <2>1
  <2>. HIDE DEF Filled
  <2>. QED
    BY <2>1, <2>2
<1>. QED
  BY <1>4

\* When no frame is left every node has its hash.
LEMMA AllComputed ==
  ASSUME BuildInv, phase # "hash", stack = <<>>
  PROVE  \A n \in 1..Len(tree) : tree[n].computed # Garbage
<1>. DEFINE Has(n) == tree[n].computed # Garbage
            S == {m \in Nat : \A n \in 1..Len(tree) : n + m > Len(tree) => Has(n)}
<1>0. ShapeInv /\ Len(tree) \in Nat
  BY TreeLen DEF BuildInv
<1>1. 0 \in S
  BY <1>0
<1>2. ASSUME NEW m \in S PROVE m + 1 \in S
  <2>1. m \in Nat /\ \A n \in 1..Len(tree) : n + m > Len(tree) => Has(n)
    OBVIOUS
  <2>. HIDE DEF S
  <2>2. ASSUME NEW n \in 1..Len(tree), n + (m + 1) > Len(tree) PROVE Has(n)
    <3>0. 1..Len(stack) = {}
      OBVIOUS
    <3>1. tree[n].is_leaf \/ Left(n) # NULL
      BY <3>0 DEF BuildInv, DoneInv, Waiting
    <3>2. CASE tree[n].is_leaf
      BY <3>2 DEF BuildInv, ComputedInv
    <3>3. CASE Left(n) # NULL
      <4>1. Right(n) \in 1..Len(tree) /\ Right(n) > n
        BY <1>0, <3>3, ChildrenAre
      <4>2. Right(n) + m > Len(tree)
        BY <1>0, <2>1, <2>2, <4>1
      <4>3. Has(Right(n))
        BY <2>1, <4>1, <4>2
      <4>4. ~OnStack(Right(n))
        BY <3>0 DEF OnStack
      <4>. QED
        BY <3>3, <4>3, <4>4 DEF BuildInv, ComputedInv
    <3>. QED
      BY <3>1, <3>2, <3>3
  <2>3. m + 1 \in Nat
    BY <2>1
  <2>. QED
    BY <2>2, <2>3 DEF S
<1>3. S = Nat
  <2>. HIDE DEF S
  <2>1. S \subseteq Nat
    BY DEF S
  <2>. QED
    BY <1>1, <1>2, <2>1, Induction
<1>4. Len(tree) \in S
  <2>. HIDE DEF S
  <2>. QED
    BY <1>0, <1>3
<1>5. \A n \in 1..Len(tree) : n + Len(tree) > Len(tree)
  BY <1>0
<1>6. \A n \in 1..Len(tree) : n + Len(tree) > Len(tree) => Has(n)
  BY <1>4
<1>. QED
  BY <1>5, <1>6

\* Which places hold leaves.
LEMMA LeafPlace ==
  ASSUME BuildInv, phase # "hash", stack = <<>>, NEW pl, Placed(pl), NEW n \in 1..Len(tree)
  PROVE  /\ pl[n] < Pow[depth - 1] => ~tree[n].is_leaf
         /\ pl[n] >= Pow[depth - 1] => tree[n].is_leaf /\ tree[n].position = pl[n] - Pow[depth - 1]
<1>1. PICK w, k : w = Pow[depth - 1] /\ k = pl[n]
  OBVIOUS
<1>2. ShapeInv /\ w \in Nat \ {0} /\ Places = 1..((2 * w) - 1)
  BY <1>1, MerkleIs DEF BuildInv
<1>3. k \in Places /\ (Left(n) # NULL => k < w)
  BY <1>1, PlacesOf
<1>4. tree[n].is_leaf => k = w + tree[n].position
  BY <1>1 DEF Placed
<1>5. tree[n].position \in Nat
  BY <1>2, NodeIs
<1>6. tree[n].is_leaf \/ Left(n) # NULL
  <2>1. 1..Len(stack) = {}
    OBVIOUS
  <2>. QED
    BY <2>1 DEF BuildInv, DoneInv, Waiting
<1>7. PICK x : x = tree[n].position
  OBVIOUS
<1>8. k \in Nat /\ x \in Nat
  BY <1>2, <1>3, <1>5, <1>7
<1>9. k < w => ~tree[n].is_leaf
  BY <1>2, <1>4, <1>7, <1>8
<1>10. k >= w => tree[n].is_leaf /\ x = k - w
  <2>. SUFFICES ASSUME k >= w PROVE tree[n].is_leaf /\ x = k - w
    OBVIOUS
  <2>1. tree[n].is_leaf
    BY <1>2, <1>3, <1>6, <1>8
  <2>. QED
    BY <1>2, <1>4, <1>7, <1>8, <2>1
<1>. QED
  BY <1>1, <1>7, <1>9, <1>10

Finished == phase \in {"built", "query", "answered", "free", "end"}

\* A finished tree has no frame left.
LEMMA NoFrame ==
  ASSUME BuildInv, phase \notin {"hash", "build", "fault"}
  PROVE  phase # "hash" /\ stack = <<>>
  BY DEF BuildInv, StackInv

\* What the invariant says of a place of a finished tree.
LEMMA FinishedPlace ==
  ASSUME BuildInv, Finished, NEW pl, Placed(pl), MerkleAt(pl), LabelledTo(pl, Pow[depth] - 1),
         NEW k \in Places
  PROVE  /\ NodeAt[k] \in 1..Len(tree)
         /\ tree[NodeAt[k]].computed = MerkleHash[k]
         /\ tree[NodeAt[k]].expected = ExpectedAt(k)
         /\ k < Pow[depth - 1] => ~tree[NodeAt[k]].is_leaf
         /\ k >= Pow[depth - 1] => /\ tree[NodeAt[k]].is_leaf
                                   /\ tree[NodeAt[k]].position = k - Pow[depth - 1]
<1>1. phase # "hash" /\ stack = <<>>
  BY NoFrame DEF Finished
<1>2. PICK n : n = NodeAt[k]
  OBVIOUS
<1>3. n \in 1..Len(tree) /\ pl[n] = k
  BY <1>1, <1>2, PlaceFilled
<1>4. tree[n].computed = MerkleHash[k]
  BY <1>1, <1>3, AllComputed DEF MerkleAt
<1>5. tree[n].expected = ExpectedAt(k)
  <2>1. k <= Pow[depth] - 1
    BY DEF Places
  <2>. QED
    BY <1>3, <2>1 DEF LabelledTo
<1>6. /\ k < Pow[depth - 1] => ~tree[n].is_leaf
      /\ k >= Pow[depth - 1] => tree[n].is_leaf /\ tree[n].position = k - Pow[depth - 1]
  BY <1>1, <1>3, LeafPlace
<1>. QED
  BY <1>2, <1>3, <1>4, <1>5, <1>6

\* The hashes of the chunks are leaves.
LEMMA LeavesAre ==
  ASSUME PackageInv, HashInv
  PROVE  Leaves(chunks, nchunks) /\ Leaves(LeafHash, nchunks)
<1>1. \A x \in Content : HashOf(x) \in Seq(Clean) /\ Len(HashOf(x)) = 1
  <2>1. ASSUME NEW x \in Content PROVE HashOf(x) \in Seq(Clean) /\ Len(HashOf(x)) = 1
    <3>1. x \in Clean
      BY DEF Clean
    <3>. QED
      BY <3>1, OneSeq DEF HashOf
  <2>. QED
    BY <2>1
<1>2. ASSUME NEW i \in 1..nchunks PROVE chunks[i] \in Seq(Clean) /\ Len(chunks[i]) = 1
  <2>1. PICK x \in Content : chunks[i] = HashOf(x)
    BY DEF HashInv
  <2>. QED
    BY <1>1, <2>1
<1>3. ASSUME NEW i \in 1..nchunks PROVE LeafHash[i] \in Seq(Clean) /\ Len(LeafHash[i]) = 1
  <2>1. data[i] \in Content
    BY ElementOfSeq DEF PackageInv
  <2>2. LeafHash[i] = HashOf(data[i])
    BY DEF LeafHash
  <2>. QED
    BY <1>1, <2>1, <2>2
<1>. QED
  BY <1>2, <1>3 DEF Leaves

\* Every computed hash is the Merkle hash of its place.
LEMMA ComputedFrom ==
  ASSUME BuildInv, Finished, NEW pl, Placed(pl), MerkleAt(pl), LabelledTo(pl, Pow[depth] - 1)
  PROVE  ComputedIsMerkle
<1>1. \A k \in Places : tree[NodeAt[k]].computed = MerkleHash[k]
  BY FinishedPlace
<1>. QED
  BY <1>1 DEF ComputedIsMerkle

\* The hashes of the package are where they belong.
LEMMA ExpectedFrom ==
  ASSUME BuildInv, Finished, NEW pl, Placed(pl), MerkleAt(pl), LabelledTo(pl, Pow[depth] - 1)
  PROVE  ExpectedInPlace
<1>. SUFFICES ASSUME Perfect, NEW k \in Places
              PROVE  LET n == tree[NodeAt[k]]
                     IN IF k < nchunks THEN n.expected = hashes[k] /\ ~n.is_leaf
                        ELSE /\ n.is_leaf /\ n.position = k - nchunks
                             /\ n.expected = chunks[n.position + 1]
  BY DEF ExpectedInPlace
<1>1. PICK n, w, h : n = tree[NodeAt[k]] /\ w = nchunks /\ h = nhashes
  OBVIOUS
<1>2. w = Pow[depth - 1] /\ w \in Nat \ {0} /\ h = w - 1 /\ k \in Nat \ {0}
  <2>1. PackageInv
    BY DEF BuildInv
  <2>2. Places = 1..((2 * Pow[depth - 1]) - 1) /\ Pow[depth - 1] \in Nat
    BY <2>1, MerkleIs
  <2>. QED
    BY <1>1, <2>1, <2>2, PackageIs DEF Perfect
<1>3. /\ n.expected = ExpectedAt(k)
      /\ k < w => ~n.is_leaf
      /\ k >= w => n.is_leaf /\ n.position = k - w
  BY <1>1, <1>2, FinishedPlace
<1>4. CASE k < w
  <2>1. k <= nhashes
    BY <1>1, <1>2, <1>4
  <2>2. n.expected = hashes[k]
    BY <1>3, <2>1 DEF ExpectedAt
  <2>. QED
    BY <1>1, <1>3, <1>4, <2>2
<1>5. CASE ~(k < w)
  <2>1. ~(k <= nhashes) /\ k >= w /\ k - nhashes = (k - w) + 1
    BY <1>1, <1>2, <1>5
  <2>2. n.expected = chunks[(k - w) + 1]
    BY <1>3, <2>1 DEF ExpectedAt
  <2>3. n.is_leaf /\ n.position = k - w
    BY <1>3, <2>1
  <2>. QED
    BY <1>1, <1>5, <2>2, <2>3
<1>. QED
  BY <1>4, <1>5

\* The root decides about the chunks.
LEMMA RootFrom ==
  ASSUME BuildInv, HashInv, Finished, NEW pl, Placed(pl), MerkleAt(pl),
         LabelledTo(pl, Pow[depth] - 1)
  PROVE  RootDecides
<1>. SUFFICES ASSUME Perfect, hashes = HashesOver(chunks)
              PROVE  tree[1].computed = tree[1].expected
                       <=> \A i \in 1..nchunks : HashOf(data[i]) = chunks[i]
  BY DEF RootDecides
<1>0. PackageInv
  BY DEF BuildInv
<1>1. PICK w : w = nchunks
  OBVIOUS
<1>2. /\ w \in Nat \ {0} /\ nhashes = w - 1 /\ Places = 1..((2 * w) - 1)
      /\ Heap(MerkleHash, LeafHash, w)
  BY <1>0, <1>1, MerkleIs, PackageIs DEF Perfect
<1>3. 1 \in Places
  BY <1>2
<1>4. NodeAt[1] = 1
  BY <1>0, <1>3, NodeAtIs DEF NodeRow
<1>5. tree[1].computed = MerkleHash[1] /\ tree[1].expected = ExpectedAt(1)
  BY <1>3, <1>4, FinishedPlace
<1>6. PICK H : Heap(H, chunks, w) /\ HashesOver(chunks) = [k \in 1..(w - 1) |-> H[k]]
  <2>1. Len(chunks) = w
    BY <1>1 DEF nchunks
  <2>. QED
    BY <1>2, <2>1, HashesOverIs
<1>7. ExpectedAt(1) = H[1]
  <2>1. CASE w = 1
    <3>1. ~(1 <= nhashes) /\ 1 - nhashes = 1
      BY <1>2, <2>1
    <3>2. ExpectedAt(1) = chunks[1]
      BY <3>1 DEF ExpectedAt
    <3>3. 1 \in 1..((2 * w) - 1) /\ 1 >= w /\ (1 - w) + 1 = 1
      BY <2>1
    <3>4. H[1] = chunks[(1 - w) + 1]
      BY <1>2, <1>6, <3>3, HeapIs
    <3>. QED
      BY <3>2, <3>3, <3>4
  <2>2. CASE w # 1
    <3>1. 1 <= nhashes /\ 1 \in 1..(w - 1)
      BY <1>2, <2>2
    <3>2. ExpectedAt(1) = hashes[1]
      BY <3>1 DEF ExpectedAt
    <3>. QED
      BY <1>6, <3>1, <3>2
  <2>. QED
    BY <2>1, <2>2
<1>8. Leaves(chunks, w) /\ Leaves(LeafHash, w)
  BY <1>0, <1>1, LeavesAre
<1>9. \A i \in 1..w : LeafHash[i] = HashOf(data[i])
  BY <1>1 DEF LeafHash
<1>10. ASSUME MerkleHash[1] = H[1] PROVE \A i \in 1..w : LeafHash[i] = chunks[i]
  BY <1>2, <1>6, <1>8, <1>10, HeapsDecide
<1>11. ASSUME \A i \in 1..w : LeafHash[i] = chunks[i] PROVE MerkleHash[1] = H[1]
  <2>1. \A k \in 1..((2 * w) - 1) : MerkleHash[k] = H[k]
    <3>1. PICK a, b, f : a = LeafHash /\ b = chunks /\ f = MerkleHash
      OBVIOUS
    <3>2. Heap(f, a, w) /\ Heap(H, b, w) /\ SameLeaves(a, b, w)
      BY <1>2, <1>6, <1>11, <3>1 DEF SameLeaves
    <3>3. w \in Nat \ {0}
      BY <1>2
    <3>4. \A k \in 1..((2 * w) - 1) : f[k] = H[k]
      BY ONLY <3>2, <3>3, HeapUnique
    <3>. QED
      BY <3>1, <3>4
  <2>. QED
    BY <1>2, <1>3, <2>1
<1>. QED
  BY <1>1, <1>5, <1>7, <1>9, <1>10, <1>11

\* The invariant says what the finished tree is.
LEMMA ExactIs ==
  ASSUME BuildInv, ExactInv
  PROVE  TreeExact
<1>1. PICK pl : Placed(pl) /\ MerkleAt(pl) /\ Ordered(pl)
  BY DEF ExactInv
<1>2. CASE Built
  <2>1. Finished /\ LabelledTo(pl, Pow[depth] - 1)
    BY <1>1, <1>2 DEF Built, Finished, Ordered
  <2>2. HashInv
    BY DEF ExactInv
  <2>. QED
    BY <1>1, <2>1, <2>2, ComputedFrom, ExpectedFrom, RootFrom DEF TreeExact
<1>3. CASE ~Built
  BY <1>3 DEF TreeExact, ComputedIsMerkle, ExpectedInPlace, RootDecides
<1>. QED
  BY <1>2, <1>3

\* The Merkle hashes do not change while the package does not.
LEMMA MerkleKept ==
  ASSUME UNCHANGED package
  PROVE  /\ MerkleHash' = MerkleHash /\ Places' = Places /\ depth' = depth
         /\ \A k : ExpectedAt(k)' = ExpectedAt(k)
<1>1. chunks' = chunks /\ hashes' = hashes /\ data' = data
  BY DEF package
<1>2. depth' = depth /\ nhashes' = nhashes
  BY SamePackage
<1>3. Places' = Places
  BY <1>2 DEF Places
<1>4. MerkleHash' = MerkleHash
  BY <1>1, <1>2, <1>3 DEF MerkleHash
<1>5. \A k : ExpectedAt(k)' = ExpectedAt(k)
  BY <1>1, <1>2 DEF ExpectedAt
<1>. QED
  BY <1>2, <1>3, <1>4, <1>5

\* The values that computeParentHash leaves.
LEMMA FinishValues ==
  ASSUME ShapeInv, NEW n \in 1..Len(tree), NEW t, SameLinks(t)
  PROVE  LET u == Finish(t, n)
         IN  /\ \A m \in 1..Len(tree) : u[m].position = t[m].position
             /\ \A m \in 1..Len(tree) :
                  m = tree[n].parent /\ Right(m) = n =>
                    u[m].computed = HashPair(t[Left(m)].computed, t[n].computed)
<1>1. PICK L : L = Len(tree)
  OBVIOUS
<1>2. /\ t \in Seq(NodeType) /\ Len(t) = L
      /\ \A m \in 1..L : /\ t[m].parent = tree[m].parent
                         /\ t[m].left = Left(m) /\ t[m].right = Right(m)
  BY <1>1 DEF SameLinks, Left, Right
<1>3. tree[n].parent = NULL \/ tree[n].parent \in 1..L
  <2>1. CASE n = 1
    BY <2>1 DEF ShapeInv
  <2>2. CASE n # 1
    BY <1>1, <2>2, ParentIs
  <2>. QED
    BY <2>1, <2>2
<1>4. PICK p : p = tree[n].parent
  OBVIOUS
<1>5. CASE p # NULL /\ Right(p) = n
  <2>1. p \in 1..L /\ t[n].parent = p /\ t[p].left = Left(p) /\ t[p].right = n
    BY <1>1, <1>2, <1>3, <1>4, <1>5
  <2>2. PICK c : c = HashPair(t[Left(p)].computed, t[n].computed)
    OBVIOUS
  <2>3. Finish(t, n) = [t EXCEPT ![p].computed = c]
    BY <1>5, <2>1, <2>2 DEF Finish, IsRightChild, WithParentHash
  <2>4. PICK u : u = [t EXCEPT ![p].computed = c]
    OBVIOUS
  <2>5. DOMAIN t = 1..L /\ \A m \in 1..L : t[m] \in NodeType
    BY <1>2, ElementOfSeq, LenProperties
  <2>6. \A m \in 1..L : m # p => u[m] = t[m]
    BY <2>4, <2>5
  <2>7. u[p] = [t[p] EXCEPT !.computed = c]
    BY <2>1, <2>4, <2>5
  <2>8. u[p].position = t[p].position /\ u[p].computed = c
    <3>1. t[p] \in NodeType
      BY <2>1, <2>5
    <3>. QED
      BY <2>7, <3>1 DEF NodeType
  <2>9. \A m \in 1..L : u[m].position = t[m].position
    BY <2>6, <2>8
  <2>. QED
    BY <1>1, <1>4, <2>2, <2>3, <2>4, <2>8, <2>9
<1>6. CASE ~(p # NULL /\ Right(p) = n)
  <2>1. Finish(t, n) = t
    <3>1. CASE p = NULL
      BY <1>1, <1>2, <1>4, <3>1 DEF Finish, IsRightChild
    <3>2. CASE p # NULL
      BY <1>1, <1>2, <1>3, <1>4, <1>6, <3>2 DEF Finish, IsRightChild
    <3>. QED
      BY <3>1, <3>2
  <2>2. \A m \in 1..L : ~(m = tree[n].parent /\ Right(m) = n)
    BY <1>4, <1>6 DEF NULL
  <2>. QED
    BY <1>1, <2>1, <2>2
<1>. QED
  BY <1>5, <1>6

\* What a return writes: a leaf its position and the hash of its chunk, a
\* right child the hash of its parent.
Valued(n, p) ==
  /\ \A m \in 1..Len(tree) : m # n => tree'[m].position = tree[m].position
  /\ tree'[n].is_leaf => /\ tree'[n].position = p /\ p + 1 \in 1..nchunks
                         /\ tree'[n].computed = HashOf(data[p + 1])
  /\ ~tree'[n].is_leaf => tree'[n].computed = tree[n].computed
  /\ \A m \in 1..Len(tree) :
       m = tree[n].parent /\ Right(m) = n =>
         tree'[m].computed = HashPair(tree[Left(m)].computed, tree'[n].computed)

\* So does Return.
LEMMA ReturnValues ==
  ASSUME BuildInv, Return
  PROVE  Valued(top.node, top.position)
<1>1. /\ stack # <<>> /\ top.at = "right"
      /\ tree' = Finish(tree, top.node)
  BY DEF Return, Building, Finish
<1>2. PICK n, L, S : n = top.node /\ L = Len(tree) /\ S = Len(stack)
  OBVIOUS
<1>3. ShapeInv /\ StackInv /\ LevelInv /\ n \in 1..L /\ S \in Nat \ {0} /\ FrameOK(S)
      /\ top = stack[S]
  BY <1>1, <1>2, TopIs DEF BuildInv
<1>4. Left(n) # NULL
  BY <1>1, <1>2, <1>3 DEF FrameOK
<1>5. SameLinks(tree)
  BY <1>3 DEF SameLinks, ShapeInv
<1>6. /\ \A m \in 1..L : tree'[m].position = tree[m].position
      /\ \A m \in 1..L :
           m = tree[n].parent /\ Right(m) = n =>
             tree'[m].computed = HashPair(tree[Left(m)].computed, tree[n].computed)
  BY SMTT(30), <1>1, <1>2, <1>3, <1>5, FinishValues
<1>7. ReturnedTop
  BY <1>3, ReturnIs DEF BuildInv
<1>8. Returned(n, S, L)
  BY <1>2, <1>7 DEF ReturnedTop
<1>9. n # tree[n].parent /\ ~tree'[n].is_leaf
  <2>1. n # tree[n].parent
    <3>1. CASE n = 1
      BY <1>3, <3>1 DEF ShapeInv, NULL
    <3>2. CASE n # 1
      BY <1>2, <1>3, <3>2, ParentIs
    <3>. QED
      BY <3>1, <3>2
  <2>. QED
    BY <1>4, <1>8, <2>1 DEF Returned
<1>10. tree'[n].computed = tree[n].computed
  <2>1. IsRightChild(tree, n) => tree[n].parent \in 1..L
    <3>1. CASE n = 1
      BY <1>3, <3>1 DEF ShapeInv, IsRightChild
    <3>2. CASE n # 1
      BY <1>2, <1>3, <3>2, ParentIs
    <3>. QED
      BY <3>1, <3>2
  <2>2. \A c : [tree EXCEPT ![tree[n].parent].computed = c][n] = tree[n]
    <3>1. DOMAIN tree = 1..L
      BY <1>2, <1>3, TreeLen
    <3>. QED
      BY <1>3, <1>9, <3>1
  <2>3. tree'[n] = tree[n]
    BY <1>1, <1>2, <2>2 DEF Finish, WithParentHash
  <2>. QED
    BY <2>3
<1>. HIDE DEF top
<1>. QED
  BY <1>2, <1>6, <1>9, <1>10 DEF Valued

\* What Leaf writes to its node.
LEMMA LeafPosition ==
  ASSUME NEW m \in NodeType, NEW p, NEW c
  PROVE  LeafOf(m, p, c).position = p /\ LeafOf(m, p, c).computed = c /\ LeafOf(m, p, c).is_leaf
  BY DEF LeafOf, NodeType

\* Leaf leaves the hash of its chunk, and with a right child that of the parent.
LEMMA LeafValues ==
  ASSUME BuildInv, HashInv, Leaf
  PROVE  Valued(top.node, top.position)
<1>. DEFINE t == [tree EXCEPT ![top.node].is_leaf = TRUE, ![top.node].position = top.position,
                              ![top.node].computed = hash[top.position + 1]]
<1>1. /\ stack # <<>> /\ top.at = "enter" /\ top.position < Len(hash)
      /\ tree' = Finish(t, top.node)
  BY DEF Leaf, Building, AtLeaf, Finish
<1>2. /\ PackageInv /\ ShapeInv /\ StackInv /\ top.position \in Nat
      /\ top.node \in 1..Len(tree)
  BY <1>1, TopIs DEF BuildInv
<1>3. PICK n, L, p, c : n = top.node /\ L = Len(tree) /\ p = top.position /\ c = hash[p + 1]
  OBVIOUS
<1>4. p + 1 \in 1..Len(hash) /\ Len(hash) = nchunks /\ hash # <<>>
  <2>1. hash = <<>> \/ Len(hash) = nchunks
    BY <1>2 DEF PackageInv
  <2>2. Len(<<>>) = 0
    OBVIOUS
  <2>3. hash # <<>>
    BY <1>1, <1>2, <2>2
  <2>4. Len(hash) \in Nat
    BY <1>2, LenProperties DEF PackageInv
  <2>. QED
    BY <1>1, <1>2, <1>3, <2>1, <2>3, <2>4
<1>5. p + 1 \in 1..nchunks /\ c = HashOf(data[p + 1]) /\ c \in Seq(Clean)
  <2>1. c \in Seq(Clean)
    BY <1>2, <1>3, <1>4, ElementOfSeq DEF PackageInv
  <2>2. p + 1 \in 1..nchunks
    BY <1>4
  <2>3. hash[p + 1] = HashOf(data[p + 1])
    BY <1>4, <2>2 DEF HashInv
  <2>. QED
    BY <1>3, <2>1, <2>2, <2>3
<1>6. PICK e : e = LeafOf(tree[n], p, c)
  OBVIOUS
<1>7. tree[n] \in NodeType /\ p \in Nat /\ n \in 1..L /\ tree \in Seq(NodeType)
  BY <1>2, <1>3, NodeIs DEF ShapeInv
<1>8. /\ e \in NodeType
      /\ e.parent = tree[n].parent /\ e.left = tree[n].left /\ e.right = tree[n].right
      /\ e.is_leaf /\ e.expected = tree[n].expected /\ e.computed = c
  <2>1. tree[n] \in NodeType /\ p \in Nat /\ c \in Seq(Clean)
    BY <1>5, <1>7
  <2>. QED
    BY ONLY <1>6, <2>1, LeafNode
<1>9. e.position = p
  BY ONLY <1>6, <1>7, LeafPosition
<1>10. t = [tree EXCEPT ![n] = e]
  <2>1. tree \in [1..L -> NodeType]
    BY <1>3, <1>7, LenProperties
  <2>2. t = [tree EXCEPT ![n].is_leaf = TRUE, ![n].position = p, ![n].computed = c]
    BY <1>3
  <2>. HIDE DEF t
  <2>. QED
    BY ONLY ZenonT(60), <1>6, <1>7, <2>1, <2>2, ThreeFields DEF LeafOf
<1>. HIDE DEF t
<1>11. t \in Seq(NodeType) /\ Len(t) = L /\ t[n] = e /\ \A m \in 1..L : m # n => t[m] = tree[m]
  BY ONLY <1>3, <1>7, <1>8, <1>10, OneWritten
<1>12. SameLinks(t)
  BY <1>3, <1>8, <1>11, Zenon DEF SameLinks
<1>13. PICK u : u = tree'
  OBVIOUS
<1>14. /\ \A m \in 1..L : u[m].position = t[m].position
       /\ \A m \in 1..L :
            m = tree[n].parent /\ Right(m) = n =>
              u[m].computed = HashPair(t[Left(m)].computed, t[n].computed)
  <2>1. u = Finish(t, n)
    BY <1>1, <1>3, <1>13
  <2>. QED
    BY <1>2, <1>3, <1>12, <2>1, FinishValues
<1>15. /\ \A m \in 1..L : u[m].is_leaf = t[m].is_leaf
       /\ \A m \in 1..L :
            ~(m = tree[n].parent /\ Right(m) = n) => u[m].computed = t[m].computed
  <2>1. t[n].computed # Garbage
    BY <1>5, <1>8, <1>11, GarbageApart
  <2>2. \A m \in 1..L : m # n => t[m].computed = tree[m].computed
    BY <1>11
  <2>. HIDE DEF top
  <2>. QED
    BY <1>1, <1>2, <1>3, <1>12, <1>13, <2>1, <2>2, FinishIs
<1>16. n # tree[n].parent
  <2>1. CASE n = 1
    BY <1>2, <2>1 DEF ShapeInv, NULL
  <2>2. CASE n # 1
    BY <1>2, <1>3, <1>7, <2>2, ParentIs
  <2>. QED
    BY <2>1, <2>2
<1>17. u[n].computed = c /\ u[n].position = p /\ u[n].is_leaf
  BY <1>7, <1>8, <1>9, <1>11, <1>14, <1>15, <1>16
<1>18. \A m \in 1..L : m # n => u[m].position = tree[m].position
  BY <1>11, <1>14
<1>19. ASSUME NEW m \in 1..L, m = tree[n].parent, Right(m) = n
       PROVE  u[m].computed = HashPair(tree[Left(m)].computed, u[n].computed)
  <2>1. u[m].computed = HashPair(t[Left(m)].computed, t[n].computed)
    BY <1>14, <1>19
  <2>2. Left(m) \in 1..L /\ Left(m) # n
    <3>1. Left(m) # NULL
      <4>1. ShapeOf(m)
        BY <1>2, <1>3 DEF ShapeInv
      <4>2. n # NULL
        BY <1>7 DEF NULL
      <4>. QED
        BY <1>19, <4>1, <4>2 DEF ShapeOf, Left, Right
    <3>. QED
      BY <1>2, <1>3, <1>19, <3>1, ChildrenAre
  <2>3. t[Left(m)] = tree[Left(m)] /\ t[n].computed = u[n].computed
    BY <1>8, <1>11, <1>17, <2>2
  <2>. QED
    BY <2>1, <2>3
<1>. HIDE DEF top
<1>20. Valued(n, p)
  BY <1>3, <1>5, <1>13, <1>17, <1>18, <1>19 DEF Valued
<1>. QED
  BY <1>3, <1>20

\* A return keeps the places ...
LEMMA ReturnedPlaced ==
  ASSUME BuildInv, BuildStep, ReturnedTop, Valued(top.node, top.position), NEW pl, Placed(pl)
  PROVE  Placed(pl)'
<1>1. PICK n, S, L, p : n = top.node /\ S = Len(stack) /\ L = Len(tree) /\ p = top.position
  OBVIOUS
<1>2. /\ Returned(n, S, L) /\ stack # <<>> /\ ShapeInv /\ StackInv /\ Valued(n, p)
  BY <1>1 DEF ReturnedTop, BuildInv, BuildStep
<1>3. /\ S \in Nat \ {0} /\ n \in 1..L /\ stack[S] = top /\ S \in 1..Len(stack)
      /\ stack[S].node = n /\ stack[S].position = p
  <2>1. Len(stack) \in Nat \ {0} /\ top = stack[Len(stack)] /\ top.node \in 1..Len(tree)
    BY <1>2, TopIs
  <2>. QED
    BY <1>1, <2>1
<1>4. /\ Len(stack') = S - 1 /\ \A i \in 1..(S - 1) : stack'[i] = stack[i]
  BY <1>2 DEF Returned
<1>5. /\ Len(tree') = L
      /\ \A m \in 1..L : Left(m)' = Left(m) /\ Right(m)' = Right(m)
  BY <1>1, <1>2, ReturnedKeeps DEF Left, Right
<1>6. depth' = depth
  BY SamePackage DEF BuildStep
<1>7. ASSUME NEW m \in 1..L
      PROVE  /\ Left(m)' # NULL => pl[Left(m)'] = 2 * pl[m] /\ pl[Right(m)'] = 2 * pl[m] + 1
             /\ tree'[m].is_leaf => pl[m] = Pow[depth - 1] + tree'[m].position
  <2>1. Left(m) # NULL => pl[Left(m)] = 2 * pl[m] /\ pl[Right(m)] = 2 * pl[m] + 1
    BY <1>1 DEF Placed
  <2>2. CASE m = n
    <3>1. tree'[n].is_leaf => S = depth /\ tree'[n].position = p
      BY <1>2 DEF Returned, Valued
    <3>2. pl[n] = Pow[S - 1] + p
      BY <1>3 DEF Placed
    <3>. QED
      BY <1>5, <2>1, <2>2, <3>1, <3>2
  <2>3. CASE m # n
    <3>1. tree'[m].position = tree[m].position /\ tree'[m].is_leaf = tree[m].is_leaf
      BY <1>1, <1>2, <2>3 DEF Returned, Valued
    <3>2. tree[m].is_leaf => pl[m] = Pow[depth - 1] + tree[m].position
      BY <1>1 DEF Placed
    <3>. QED
      BY <1>5, <2>1, <3>1, <3>2
  <2>. QED
    BY <2>2, <2>3
<1>8. \A i \in 1..Len(stack') : pl[stack'[i].node] = Pow[i - 1] + stack'[i].position
  <2>1. \A i \in 1..(S - 1) : i \in 1..Len(stack)
    BY <1>1, <1>3
  <2>. QED
    BY <1>4, <2>1 DEF Placed
<1>9. pl \in [1..L -> Nat] /\ pl[1] = 1
  BY <1>1 DEF Placed
<1>. QED
  BY <1>5, <1>6, <1>7, <1>8, <1>9 DEF Placed

\* ... and adds the Merkle hashes of the node and of its parent.
LEMMA ReturnedMerkle ==
  ASSUME BuildInv, BuildStep, ReturnedTop, Valued(top.node, top.position), NEW pl, Placed(pl),
         MerkleAt(pl)
  PROVE  MerkleAt(pl)'
<1>1. PICK n, S, L, p : n = top.node /\ S = Len(stack) /\ L = Len(tree) /\ p = top.position
  OBVIOUS
<1>2. /\ Returned(n, S, L) /\ stack # <<>> /\ ShapeInv /\ StackInv /\ Valued(n, p) /\ PackageInv
  BY <1>1 DEF ReturnedTop, BuildInv, BuildStep
<1>3. /\ S \in Nat \ {0} /\ n \in 1..L /\ S \in 1..Len(stack)
      /\ stack[S].node = n /\ stack[S].position = p /\ p \in Nat
  <2>1. Len(stack) \in Nat \ {0} /\ top = stack[Len(stack)] /\ top.node \in 1..Len(tree)
        /\ top.position \in Nat
    BY <1>2, TopIs
  <2>. QED
    BY <1>1, <2>1
<1>4. Len(tree') = L /\ MerkleHash' = MerkleHash
  BY <1>1, <1>2, MerkleKept, ReturnedKeeps DEF BuildStep
<1>5. PICK w : w = Pow[depth - 1]
  OBVIOUS
<1>6. /\ w \in Nat \ {0} /\ Places = 1..((2 * w) - 1) /\ Heap(MerkleHash, LeafHash, w)
  BY <1>2, <1>5, MerkleIs
<1>7. \A m \in 1..L : tree[m].computed # Garbage => tree[m].computed = MerkleHash[pl[m]]
  BY <1>1 DEF MerkleAt
<1>8. tree'[n].computed # Garbage => tree'[n].computed = MerkleHash[pl[n]]
  <2>1. CASE tree'[n].is_leaf
    <3>1. p + 1 \in 1..nchunks /\ tree'[n].computed = HashOf(data[p + 1]) /\ S = depth
      BY <1>2, <2>1 DEF Valued, Returned
    <3>2. pl[n] = w + p
      BY <1>3, <1>5, <3>1 DEF Placed
    <3>3. pl[n] \in Places
      BY <1>1, <1>3, PlacesOf
    <3>4. w + p \in 1..((2 * w) - 1) /\ w + p >= w /\ ((w + p) - w) + 1 = p + 1
      BY <1>3, <1>6, <3>2, <3>3
    <3>5. MerkleHash[w + p] = LeafHash[p + 1]
      BY <1>6, <3>4, HeapIs
    <3>6. LeafHash[p + 1] = HashOf(data[p + 1])
      BY <3>1 DEF LeafHash
    <3>. QED
      BY <3>1, <3>2, <3>5, <3>6
  <2>2. CASE ~tree'[n].is_leaf
    <3>1. tree'[n].computed = tree[n].computed
      BY <1>2, <2>2 DEF Valued
    <3>. QED
      BY <1>3, <1>7, <3>1
  <2>. QED
    BY <2>1, <2>2
<1>9. ASSUME NEW m \in 1..L, m = tree[n].parent, Right(m) = n
      PROVE  tree'[m].computed = MerkleHash[pl[m]]
  <2>1. tree'[m].computed = HashPair(tree[Left(m)].computed, tree'[n].computed)
    BY <1>1, <1>2, <1>9 DEF Valued
  <2>2. Left(m) # NULL
    <3>1. ShapeOf(m)
      BY <1>1, <1>2 DEF ShapeInv
    <3>2. n # NULL
      BY <1>3 DEF NULL
    <3>. QED
      BY <1>9, <3>1, <3>2 DEF ShapeOf, Left, Right
  <2>3. Left(m) \in 1..L /\ Left(m) # n
    BY <1>1, <1>2, <1>9, <2>2, ChildrenAre
  <2>4. tree[Left(m)].computed # Garbage
    <3>1. PICK i : i = S - 1
      OBVIOUS
    <3>2. m # NULL
      BY DEF NULL
    <3>3. /\ i \in 1..Len(stack) /\ stack[i].node = m /\ FrameOK(i)
          /\ n = IF stack[i].at = "left" THEN Left(m) ELSE Right(m)
          /\ stack[i].at # "enter"
      <4>1. tree[top.node].parent = m /\ i = Len(stack) - 1
        BY <1>1, <1>9, <3>1
      <4>2. i \in 1..Len(stack) /\ stack[i].node = m /\ FrameOK(i) /\ stack[i].at # "enter"
        BY <1>2, <3>2, <4>1, ParentBelow
      <4>3. top.node = IF stack[i].at = "left" THEN Left(stack[i].node) ELSE Right(stack[i].node)
        BY <1>2, <3>2, <4>1, ParentBelow
      <4>. QED
        BY <1>1, <4>2, <4>3
    <3>4. stack[i] \in FrameType
      BY <1>2, <3>3, ElementOfSeq DEF StackInv
    <3>5. stack[i].at = "right"
      BY <2>3, <3>3, <3>4 DEF FrameType
    <3>. QED
      BY <3>3, <3>5 DEF FrameOK
  <2>5. tree[Left(m)].computed = MerkleHash[pl[Left(m)]]
    BY <1>7, <2>3, <2>4
  <2>6. tree'[n].computed = MerkleHash[pl[n]]
    BY <1>2, <1>8 DEF Returned
  <2>7. PICK k : k = pl[m]
    OBVIOUS
  <2>8. pl[Left(m)] = 2 * k /\ pl[n] = 2 * k + 1
    BY <1>1, <1>9, <2>2, <2>7 DEF Placed
  <2>9. k \in Places /\ k < w
    BY <1>1, <1>5, <2>2, <2>7, PlacesOf
  <2>10. MerkleHash[k] = HashPair(MerkleHash[2 * k], MerkleHash[2 * k + 1])
    BY <1>6, <2>9, HeapIs
  <2>. QED
    BY <2>1, <2>5, <2>6, <2>7, <2>8, <2>10
<1>10. ASSUME NEW m \in 1..L, tree'[m].computed # Garbage
       PROVE  tree'[m].computed = MerkleHash[pl[m]]
  <2>1. CASE m = n
    BY <1>8, <1>10, <2>1
  <2>2. CASE m = tree[n].parent /\ Right(m) = n
    BY <1>9, <2>2
  <2>3. CASE m # n /\ ~(m = tree[n].parent /\ Right(m) = n)
    <3>1. tree'[m].computed = tree[m].computed
      BY <1>2, <2>3 DEF Returned
    <3>. QED
      BY <1>7, <1>10, <3>1
  <2>. QED
    BY <2>1, <2>2, <2>3
<1>. QED
  BY <1>4, <1>10 DEF MerkleAt

\* What is kept while the tree grows.
Growing(pl) == Placed(pl) /\ MerkleAt(pl)

\* A turn puts the right child in the place next to the left one.
LEMMA TurnedGrowing ==
  ASSUME BuildInv, BuildStep, TurnedTop, NEW pl, Growing(pl)
  PROVE  Growing(pl)'
<1>1. PICK n, S, L, p : TurnedAt(n, S, L, p)
  BY TurnedFacts
<1>. USE DEF TurnedAt
<1>2. Placed(pl) /\ MerkleAt(pl)
  BY DEF Growing
<1>3. MerkleHash' = MerkleHash
  BY MerkleKept DEF BuildStep
<1>4. MerkleAt(pl)'
  BY <1>1, <1>2, <1>3 DEF MerkleAt
<1>5. PICK w : w = Pow[S - 1]
  OBVIOUS
<1>6. w \in Nat /\ Pow[(S + 1) - 1] = 2 * w
  <2>1. S - 1 \in Nat /\ (S - 1) + 1 = (S + 1) - 1
    BY <1>1
  <2>. QED
    BY <1>5, <2>1, PowIs
<1>7. ASSUME NEW i \in 1..(S + 1) PROVE pl[stack'[i].node] = Pow[i - 1] + stack'[i].position
  <2>1. \A j \in 1..S : pl[stack[j].node] = Pow[j - 1] + stack[j].position
    BY <1>1, <1>2 DEF Placed
  <2>2. stack[S].position = p
    <3>1. top = stack[S] /\ top.position = p
      <4>1. stack # <<>>
        BY DEF TurnedTop
      <4>2. top = stack[Len(stack)]
        BY <4>1, TopIs DEF BuildInv
      <4>3. top.position = p
        <5>1. stack'[S] = Frame(n, S, top.position, "right")
          BY <1>1, <4>1 DEF TurnedTop, Turned, Grown
        <5>. QED
          BY <1>1, <5>1, FrameIs
      <4>. QED
        BY <1>1, <4>2, <4>3
    <3>. QED
      BY <3>1
  <2>3. pl[n] = w + p
    <3>1. S \in 1..S /\ stack[S].node = n
      BY <1>1
    <3>. QED
      BY <1>5, <2>1, <2>2, <3>1
  <2>4. pl[Right(n)] = 2 * pl[n] + 1
    BY <1>1, <1>2 DEF Placed
  <2>5. i \in 1..(S - 1) \/ i = S \/ i = S + 1
    BY <1>1
  <2>6. CASE i \in 1..(S - 1)
    <3>1. i \in 1..S
      BY <1>1, <2>6
    <3>. QED
      BY <1>1, <2>1, <2>6, <3>1
  <2>7. CASE i = S
    BY <1>1, <1>5, <2>3, <2>7, FrameIs
  <2>8. CASE i = S + 1
    <3>1. stack'[i].node = Right(n) /\ stack'[i].position = p * 2 + 1
      BY <1>1, <2>8, FrameIs
    <3>2. p \in Nat
      BY <1>1
    <3>3. 2 * (w + p) + 1 = 2 * w + (p * 2 + 1)
      BY <1>6, <3>2
    <3>. QED
      BY <1>6, <2>3, <2>4, <2>8, <3>1, <3>3
  <2>. QED
    BY <2>5, <2>6, <2>7, <2>8
<1>8. Placed(pl)'
  <2>1. Len(stack') = S + 1 /\ tree' = tree /\ depth' = depth
    BY <1>1
  <2>2. /\ pl \in [1..Len(tree) -> Nat] /\ pl[1] = 1
        /\ \A m \in 1..Len(tree) :
             /\ Left(m) # NULL => pl[Left(m)] = 2 * pl[m] /\ pl[Right(m)] = 2 * pl[m] + 1
             /\ tree[m].is_leaf => pl[m] = Pow[depth - 1] + tree[m].position
    BY <1>2 DEF Placed
  <2>3. \A m : Left(m)' = Left(m) /\ Right(m)' = Right(m)
    BY <2>1 DEF Left, Right
  <2>. QED
    BY <1>7, <2>1, <2>2, <2>3 DEF Placed
<1>. QED
  BY <1>4, <1>8 DEF Growing

\* A descent puts the children in the two places below their parent.
LEMMA DescendedGrowing ==
  ASSUME BuildInv, BuildStep, DescendedTop, NEW pl, Growing(pl)
  PROVE  \E u : Growing(u)'
<1>1. PICK n, S, L, p : DescendedAt(n, S, L, p)
  BY DescendedFacts
<1>. USE DEF DescendedAt
<1>20. /\ n = stack[S].node /\ S = Len(stack) /\ L = Len(tree) /\ Len(tree') = L + 2
       /\ Len(stack') = S + 1 /\ S \in Nat \ {0} /\ L \in Nat /\ n \in 1..L /\ p \in Nat
       /\ depth' = depth
  BY <1>1
<1>2. ShapeInv
  BY DEF BuildInv
<1>3. Placed(pl) /\ MerkleAt(pl)
  BY DEF Growing
<1>4. /\ pl \in [1..L -> Nat] /\ pl[1] = 1
      /\ \A m \in 1..L :
           /\ Left(m) # NULL => pl[Left(m)] = 2 * pl[m] /\ pl[Right(m)] = 2 * pl[m] + 1
           /\ tree[m].is_leaf => pl[m] = Pow[depth - 1] + tree[m].position
      /\ \A i \in 1..S : pl[stack[i].node] = Pow[i - 1] + stack[i].position
      /\ \A m \in 1..L : tree[m].computed # Garbage => tree[m].computed = MerkleHash[pl[m]]
  BY <1>1, <1>3 DEF Placed, MerkleAt
<1>. DEFINE u == [m \in 1..(L + 2) |-> IF m \in 1..L THEN pl[m]
                                       ELSE IF m = L + 1 THEN 2 * pl[n] ELSE 2 * pl[n] + 1]
<1>5. /\ \A m \in 1..L : u[m] = pl[m]
      /\ u[L + 1] = 2 * pl[n] /\ u[L + 2] = 2 * pl[n] + 1
  BY <1>20
<1>6. u \in [1..(L + 2) -> Nat]
  <2>1. \A m \in 1..L : pl[m] \in Nat
    BY <1>4
  <2>2. 2 * pl[n] \in Nat /\ 2 * pl[n] + 1 \in Nat
    BY SMTT(30), <1>20, <2>1
  <2>. QED
    BY <2>1, <2>2
<1>. HIDE DEF u
<1>7. stack[S].position = p
  <2>1. stack # <<>> /\ stack'[S] = Frame(n, S, top.position, "left")
    BY <1>1 DEF DescendedTop, Descended, Grown
  <2>2. top = stack[S]
    BY <1>20, <2>1, TopIs DEF BuildInv
  <2>3. top.position = p
    BY <1>1, <2>1, FrameIs
  <2>. QED
    BY <2>2, <2>3
<1>8. PICK w : w = Pow[S - 1]
  OBVIOUS
<1>9. w \in Nat /\ Pow[(S + 1) - 1] = 2 * w /\ pl[n] = w + p
  <2>1. S - 1 \in Nat /\ (S - 1) + 1 = (S + 1) - 1 /\ S \in 1..S
    BY <1>20
  <2>2. pl[n] = w + p
    BY <1>4, <1>7, <1>8, <1>20, <2>1
  <2>. QED
    BY <1>8, <2>1, <2>2, PowIs
<1>10. ASSUME NEW m \in 1..L, m # n
       PROVE  /\ tree'[m].left # NULL =>
                    u[tree'[m].left] = 2 * u[m] /\ u[tree'[m].right] = 2 * u[m] + 1
              /\ tree'[m].is_leaf => u[m] = Pow[depth - 1] + tree'[m].position
              /\ tree'[m].computed # Garbage => tree'[m].computed = MerkleHash[u[m]]
  <2>1. tree'[m] = tree[m]
    BY <1>1, <1>10
  <2>2. Left(m) # NULL => Left(m) \in 1..L /\ Right(m) \in 1..L
    BY <1>20, <1>2, ChildrenAre
  <2>. QED
    BY <1>4, <1>5, <2>1, <2>2 DEF Left, Right
<1>11. /\ u[tree'[n].left] = 2 * u[n] /\ u[tree'[n].right] = 2 * u[n] + 1
       /\ ~tree'[n].is_leaf /\ tree'[n].computed = Garbage
  BY <1>1, <1>5, <1>20
<1>12. ASSUME NEW m \in {L + 1, L + 2}
       PROVE  tree'[m].left = NULL /\ ~tree'[m].is_leaf /\ tree'[m].computed = Garbage
  BY <1>1
<1>13. ASSUME NEW m \in 1..(L + 2)
       PROVE  /\ tree'[m].left # NULL =>
                    u[tree'[m].left] = 2 * u[m] /\ u[tree'[m].right] = 2 * u[m] + 1
              /\ tree'[m].is_leaf => u[m] = Pow[depth - 1] + tree'[m].position
              /\ tree'[m].computed # Garbage => tree'[m].computed = MerkleHash[u[m]]
  <2>1. (m \in 1..L /\ m # n) \/ m = n \/ m \in {L + 1, L + 2}
    BY <1>20, OldOrNew
  <2>. QED
    BY <1>10, <1>11, <1>12, <2>1
<1>14. ASSUME NEW i \in 1..(S + 1) PROVE u[stack'[i].node] = Pow[i - 1] + stack'[i].position
  <2>1. CASE i \in 1..(S - 1)
    <3>1. stack[i].node \in 1..L /\ i \in 1..S
      BY <1>20, <2>1, BelowTop
    <3>2. stack'[i] = stack[i]
      BY <1>1, <2>1
    <3>. QED
      BY <1>4, <1>5, <3>1, <3>2
  <2>2. CASE i = S
    <3>1. stack'[i].node = n /\ stack'[i].position = p
      BY <1>1, <2>2, FrameIs
    <3>. QED
      BY <1>5, <1>8, <1>9, <1>20, <2>2, <3>1
  <2>3. CASE i = S + 1
    <3>1. stack'[i].node = L + 1 /\ stack'[i].position = p * 2
      BY <1>1, <2>3, FrameIs
    <3>2. 2 * (w + p) = 2 * w + p * 2
      BY <1>9, <1>20
    <3>. QED
      BY <1>5, <1>9, <2>3, <3>1, <3>2
  <2>. QED
    BY <1>20, <2>1, <2>2, <2>3
<1>15. u[1] = 1
  <2>1. 1 \in 1..L
    BY <1>20
  <2>. QED
    BY <1>4, <1>5, <2>1
<1>16. MerkleHash' = MerkleHash
  BY MerkleKept DEF BuildStep
<1>17. Placed(u)'
  BY <1>6, <1>13, <1>14, <1>15, <1>20 DEF Placed, Left, Right
<1>18. MerkleAt(u)'
  BY <1>13, <1>16, <1>20 DEF MerkleAt
<1>. QED
  BY <1>17, <1>18 DEF Growing

\* A step that leaves the tree and the stack alone.
SameBuild == UNCHANGED package /\ tree' = tree /\ stack' = stack /\ hash' = hash

\* It leaves the nodes their places and their Merkle hashes.
LEMMA SameBuildKeeps ==
  ASSUME SameBuild
  PROVE  /\ \A pl : (Placed(pl)' <=> Placed(pl)) /\ (MerkleAt(pl)' <=> MerkleAt(pl))
         /\ \A pl, c : LabelledTo(pl, c)' <=> LabelledTo(pl, c)
         /\ HashInv' <=> HashInv
         /\ depth' = depth
<1>1. /\ MerkleHash' = MerkleHash /\ depth' = depth
      /\ \A k : ExpectedAt(k)' = ExpectedAt(k)
  BY MerkleKept DEF SameBuild
<1>2. /\ tree' = tree /\ stack' = stack /\ hash' = hash /\ data' = data /\ chunks' = chunks
      /\ nchunks' = nchunks
  BY SamePackage DEF SameBuild, package
<1>3. \A n : Left(n)' = Left(n) /\ Right(n)' = Right(n)
  BY <1>2 DEF Left, Right
<1>4. ASSUME NEW pl PROVE Placed(pl)' <=> Placed(pl)
  BY <1>1, <1>2, <1>3 DEF Placed
<1>5. ASSUME NEW pl PROVE MerkleAt(pl)' <=> MerkleAt(pl)
  BY <1>1, <1>2 DEF MerkleAt
<1>6. ASSUME NEW pl, NEW c PROVE LabelledTo(pl, c)' <=> LabelledTo(pl, c)
  BY <1>1, <1>2 DEF LabelledTo
<1>7. HashInv' <=> HashInv
  BY <1>2 DEF HashInv
<1>. QED
  BY <1>1, <1>4, <1>5, <1>6, <1>7

\* The node popped takes the hash of its place.
LEMMA ExpectTakes ==
  ASSUME AllInv, Expect
  PROVE  LET c == index + index2
         IN  /\ c \in Nat /\ index' + index2' = c + 1
             /\ tree' = [tree EXCEPT ![Head(queue)].expected = ExpectedAt(c + 1)]
<1>1. PICK i, j, h : i = index /\ j = index2 /\ h = nhashes
  OBVIOUS
<1>2. /\ phase = "expect"
      /\ i < h  => /\ tree' = [tree EXCEPT ![Head(queue)].expected = hashes[i + 1]]
                   /\ index' = i + 1 /\ index2' = j
      /\ ~(i < h) => /\ tree' = [tree EXCEPT ![Head(queue)].expected = chunks[j + 1]]
                     /\ index2' = j + 1 /\ index' = i
  BY <1>1 DEF Expect
<1>3. /\ i \in 0..h /\ j \in 0..nchunks /\ (i < h => j = 0) /\ h \in Nat
  BY <1>1, <1>2, PackageIs DEF AllInv, BuildInv, ExpectInv
<1>4. i \in Nat /\ j \in Nat
  BY <1>3
<1>5. CASE i < h
  <2>1. (i + j) + 1 = i + 1 /\ (i + j) + 1 <= h /\ index' + index2' = (i + j) + 1
    BY <1>2, <1>3, <1>4, <1>5
  <2>2. ExpectedAt((i + j) + 1) = hashes[i + 1]
    BY <1>1, <2>1 DEF ExpectedAt
  <2>. QED
    BY <1>1, <1>2, <1>4, <1>5, <2>1, <2>2
<1>6. CASE ~(i < h)
  <2>1. /\ ((i + j) + 1) - h = j + 1 /\ ~((i + j) + 1 <= h)
        /\ index' + index2' = (i + j) + 1
    BY <1>2, <1>3, <1>4, <1>6
  <2>2. ExpectedAt((i + j) + 1) = chunks[j + 1]
    BY <1>1, <2>1 DEF ExpectedAt
  <2>. QED
    BY <1>1, <1>2, <1>4, <1>6, <2>1, <2>2
<1>. QED
  BY <1>5, <1>6

\* Nodes in the same place are the same.
LEMMA PlacesApart ==
  ASSUME BuildInv, NEW pl, Placed(pl), NEW m \in 1..Len(tree), NEW n \in 1..Len(tree), pl[m] = pl[n]
  PROVE  m = n
<1>1. NodeAt[pl[m]] = m /\ NodeAt[pl[n]] = n
  BY NodeAtPlace
<1>. QED
  BY <1>1

\* The places in the queue, after c visits, of a tree with w leaves.
InOrder(pl, q, c, w) ==
  /\ \A i \in 1..Len(q) : pl[q[i]] = c + i
  /\ Len(q) = IF c < w THEN c + 1 ELSE ((2 * w) - 1) - c

\* What is left behind the head of the queue ...
LEMMA OrderPop ==
  ASSUME NEW X, NEW q \in Seq(X), q # <<>>, NEW r, Popped(X, q, <<>>, r),
         NEW w \in Nat \ {0}, NEW c \in Nat, c + 1 >= w, NEW pl, InOrder(pl, q, c, w)
  PROVE  InOrder(pl, r, c + 1, w)
<1>0. Len(<<>>) = 0
  OBVIOUS
<1>1. PICK a, b : a = Len(q) /\ b = Len(r)
  OBVIOUS
<1>2. a \in Nat \ {0} /\ b = a - 1 /\ \A i \in 1..(a - 1) : r[i] = q[i + 1]
  <2>1. a \in Nat \ {0}
    BY <1>1, EmptySeq, LenProperties
  <2>. QED
    BY <1>0, <1>1, <2>1 DEF Popped
<1>3. /\ \A i \in 1..a : pl[q[i]] = c + i
      /\ a = IF c < w THEN c + 1 ELSE ((2 * w) - 1) - c
  BY <1>1 DEF InOrder
<1>4. ASSUME NEW i \in 1..b PROVE pl[r[i]] = (c + 1) + i
  <2>1. i \in 1..(a - 1) /\ i + 1 \in 1..a /\ c + (i + 1) = (c + 1) + i
    BY <1>2
  <2>. QED
    BY <1>2, <1>3, <2>1
<1>5. b = ((2 * w) - 1) - (c + 1) /\ ~(c + 1 < w)
  BY <1>2, <1>3
<1>. QED
  BY <1>1, <1>4, <1>5 DEF InOrder

\* ... and what is queued behind it.
LEMMA OrderPush ==
  ASSUME NEW X, NEW q \in Seq(X), q # <<>>, NEW x \in X, NEW y \in X, NEW r,
         Popped(X, q, <<x, y>>, r),
         NEW w \in Nat \ {0}, NEW c \in Nat, c + 1 < w, NEW pl, InOrder(pl, q, c, w),
         pl[x] = 2 * (c + 1), pl[y] = 2 * (c + 1) + 1
  PROVE  InOrder(pl, r, c + 1, w)
<1>0. Len(<<x, y>>) = 2 /\ <<x, y>>[1] = x /\ <<x, y>>[2] = y
  OBVIOUS
<1>1. PICK a, b : a = Len(q) /\ b = Len(r)
  OBVIOUS
<1>2. a = c + 1
  BY <1>1 DEF InOrder
<1>3. /\ b = c + 2 /\ \A i \in 1..c : r[i] = q[i + 1]
      /\ r[c + 1] = x /\ r[c + 2] = y
  <2>1. /\ b = (a - 1) + 2 /\ \A i \in 1..(a - 1) : r[i] = q[i + 1]
        /\ \A i \in 1..2 : r[(a - 1) + i] = <<x, y>>[i]
    BY <1>0, <1>1 DEF Popped
  <2>2. a - 1 = c /\ (a - 1) + 2 = c + 2 /\ (a - 1) + 1 = c + 1 /\ 1 \in 1..2 /\ 2 \in 1..2
    BY <1>2
  <2>3. r[(a - 1) + 1] = x /\ r[(a - 1) + 2] = y
    BY <1>0, <2>1, <2>2
  <2>. QED
    BY <2>1, <2>2, <2>3
<1>4. \A i \in 1..a : pl[q[i]] = c + i
  BY <1>1 DEF InOrder
<1>5. ASSUME NEW i \in 1..b PROVE pl[r[i]] = (c + 1) + i
  <2>1. i \in 1..c \/ i = c + 1 \/ i = c + 2
    BY <1>3
  <2>2. CASE i \in 1..c
    <3>1. i + 1 \in 1..a /\ c + (i + 1) = (c + 1) + i
      BY <1>2, <2>2
    <3>. QED
      BY <1>3, <1>4, <2>2, <3>1
  <2>3. CASE i = c + 1
    BY <1>3, <2>3
  <2>4. CASE i = c + 2
    BY <1>3, <2>4
  <2>. QED
    BY <2>1, <2>2, <2>3, <2>4
<1>6. b = (c + 1) + 1
  BY <1>3
<1>. QED
  BY <1>1, <1>5, <1>6 DEF InOrder

\* Queued is such an order.
LEMMA QueuedIs ==
  ASSUME PackageInv, NEW pl, NEW c
  PROVE  Queued(pl, c) <=> InOrder(pl, queue, c, Pow[depth - 1])
<1>1. Pow[depth] = 2 * Pow[depth - 1]
  BY MerkleIs
<1>. QED
  BY <1>1, Zenon DEF Queued, InOrder

\* The children of a node are queued behind the places before theirs.
LEMMA ExpectOrder ==
  ASSUME BuildInv, phase # "hash", stack = <<>>, NEW pl, Placed(pl),
         queue \in Seq(1..Len(tree)), queue # <<>>, NEW c \in Nat, Queued(pl, c)
  PROVE  /\ Head(queue) \in 1..Len(tree) /\ pl[Head(queue)] = c + 1
         /\ InOrder(pl, Tail(queue) \o Children(Head(queue)), c + 1, Pow[depth - 1])
<1>0. ShapeInv /\ PackageInv
  BY DEF BuildInv
<1>1. PICK X, q, h, w, r : /\ X = 1..Len(tree) /\ q = queue /\ h = Head(queue)
                           /\ w = Pow[depth - 1] /\ r = Tail(queue) \o Children(h)
  OBVIOUS
<1>2. w \in Nat \ {0} /\ InOrder(pl, q, c, w) /\ q \in Seq(X) /\ q # <<>>
  BY <1>0, <1>1, MerkleIs, QueuedIs
<1>3. Len(q) \in Nat \ {0} /\ h = q[1] /\ h \in X
  <2>1. <<>> \in Seq(X)
    BY EmptySeq
  <2>2. /\ Len(q) \in Nat \ {0} /\ Head(q) = q[1] /\ q[1] \in X
    BY ONLY <1>2, <2>1, PoppedSeq
  <2>. QED
    BY <1>1, <2>2
<1>4. pl[h] = c + 1
  <2>1. 1 \in 1..Len(q)
    BY <1>3
  <2>. QED
    BY <1>2, <1>3, <2>1 DEF InOrder
<1>5. /\ Left(h) = NULL => Children(h) = <<>>
      /\ Left(h) # NULL => Children(h) = <<Left(h), Right(h)>>
      /\ Children(h) \in Seq(X)
  BY <1>0, <1>1, <1>3, ChildrenSeq
<1>6. /\ c + 1 < w => Left(h) # NULL
      /\ c + 1 >= w => Left(h) = NULL
  <2>1. /\ c + 1 < w => ~tree[h].is_leaf
        /\ c + 1 >= w => tree[h].is_leaf
    BY <1>1, <1>3, <1>4, LeafPlace
  <2>2. tree[h].is_leaf \/ Left(h) # NULL
    <3>1. 1..Len(stack) = {}
      OBVIOUS
    <3>. QED
      BY <1>1, <1>3, <3>1 DEF BuildInv, DoneInv, Waiting
  <2>3. Left(h) # NULL => ~tree[h].is_leaf
    BY <1>0, <1>1, <1>3, ChildrenAre
  <2>. QED
    BY <2>1, <2>2, <2>3
<1>7. PICK v : v = Children(h)
  OBVIOUS
<1>8. Popped(X, q, v, r)
  <2>1. r = Tail(q) \o v
    BY <1>1, <1>7
  <2>2. v \in Seq(X)
    BY <1>5, <1>7
  <2>. QED
    BY ONLY <1>2, <2>1, <2>2, PoppedSeq
<1>9. InOrder(pl, r, c + 1, w)
  <2>1. CASE c + 1 >= w
    <3>1. Popped(X, q, <<>>, r)
      BY <1>5, <1>6, <1>7, <1>8, <2>1
    <3>. QED
      BY ONLY <1>2, <2>1, <3>1, c \in Nat, OrderPop
  <2>2. CASE c + 1 < w
    <3>1. PICK x, y : x = Left(h) /\ y = Right(h)
      OBVIOUS
    <3>2. /\ x \in X /\ y \in X /\ pl[x] = 2 * (c + 1) /\ pl[y] = 2 * (c + 1) + 1
      <4>1. Left(h) # NULL
        BY <1>6, <2>2
      <4>2. x \in X /\ y \in X
        BY <1>0, <1>1, <1>3, <3>1, <4>1, ChildrenAre
      <4>3. pl[x] = 2 * pl[h] /\ pl[y] = 2 * pl[h] + 1
        BY <1>1, <1>3, <3>1, <4>1 DEF Placed
      <4>. QED
        BY <1>4, <4>2, <4>3
    <3>3. Popped(X, q, <<x, y>>, r)
      BY <1>5, <1>6, <1>7, <1>8, <2>2, <3>1
    <3>. QED
      BY ONLY <1>2, <2>2, <3>2, <3>3, c \in Nat, OrderPush
  <2>. QED
    BY <1>2, <2>1, <2>2
<1>. QED
  BY <1>1, <1>3, <1>4, <1>9

\* When nothing is queued every place has been visited.
LEMMA OrderEnd ==
  ASSUME PackageInv, NEW pl, NEW c \in Nat, queue = <<>>, Queued(pl, c)
  PROVE  c = Pow[depth] - 1
<1>1. PICK w : w = Pow[depth - 1]
  OBVIOUS
<1>2. w \in Nat \ {0} /\ Pow[depth] = 2 * w
  BY <1>1, MerkleIs
<1>3. Len(queue) = 0
  OBVIOUS
<1>4. 0 = IF c < w THEN c + 1 ELSE (2 * w) - 1 - c
  BY <1>1, <1>2, <1>3 DEF Queued
<1>. QED
  BY <1>2, <1>4

\* The step of levelOrderAddHash moves no node and changes no computed hash ...
LEMMA ExpectGrowing ==
  ASSUME AllInv, Expect, NEW pl, Growing(pl)
  PROVE  Growing(pl)'
<1>1. PICK h, x :
        h \in 1..Len(tree) /\ x \in PackageHashes /\ tree' = [tree EXCEPT ![h].expected = x]
  BY ExpectIs
<1>2. /\ StillStep /\ BuildInv /\ UNCHANGED package
  BY <1>1, ExpectStill DEF AllInv, Expect
<1>3. PICK L : L = Len(tree)
  OBVIOUS
<1>4. /\ depth' = depth /\ stack' = stack /\ Len(tree') = L
      /\ \A m \in 1..L :
           /\ Left(m)' = Left(m) /\ Right(m)' = Right(m)
           /\ tree'[m].computed = tree[m].computed /\ tree'[m].is_leaf = tree[m].is_leaf
  BY <1>2, <1>3, StillReads
<1>5. \A m \in 1..L : tree'[m].position = tree[m].position
  <2>1. DOMAIN tree = 1..L /\ \A m \in 1..L : tree[m] \in NodeType
    BY <1>2, <1>3, TreeLen, NodeIs DEF BuildInv
  <2>2. PICK e : e = [tree[h] EXCEPT !.expected = x]
    OBVIOUS
  <2>3. e.position = tree[h].position
    BY <1>1, <1>3, <2>1, <2>2 DEF NodeType
  <2>4. tree'[h] = e /\ \A m \in 1..L : m # h => tree'[m] = tree[m]
    BY <1>1, <1>3, <2>1, <2>2
  <2>. QED
    BY <2>3, <2>4
<1>6. MerkleHash' = MerkleHash
  BY <1>2, MerkleKept
<1>7. Placed(pl) /\ MerkleAt(pl)
  BY DEF Growing
<1>8. Placed(pl)'
  <2>1. ASSUME NEW m \in 1..L
        PROVE  /\ Left(m)' # NULL => pl[Left(m)'] = 2 * pl[m] /\ pl[Right(m)'] = 2 * pl[m] + 1
               /\ tree'[m].is_leaf => pl[m] = Pow[depth - 1] + tree'[m].position
    BY <1>3, <1>4, <1>5, <1>7 DEF Placed
  <2>2. /\ pl \in [1..L -> Nat] /\ pl[1] = 1
        /\ \A i \in 1..Len(stack) : pl[stack[i].node] = Pow[i - 1] + stack[i].position
    BY <1>3, <1>7 DEF Placed
  <2>. QED
    BY <1>4, <2>1, <2>2 DEF Placed
<1>9. MerkleAt(pl)'
  BY <1>3, <1>4, <1>6, <1>7 DEF MerkleAt
<1>. QED
  BY <1>8, <1>9 DEF Growing

\* ... and goes on in level order.
LEMMA ExpectOrdered ==
  ASSUME AllInv, Expect, NEW pl, Growing(pl), Ordered(pl)
  PROVE  Ordered(pl)'
<1>1. PICK c, h, L : c = index + index2 /\ h = Head(queue) /\ L = Len(tree)
  OBVIOUS
<1>2. /\ c \in Nat /\ index' + index2' = c + 1
      /\ tree' = [tree EXCEPT ![h].expected = ExpectedAt(c + 1)]
  BY <1>1, ExpectTakes
<1>3. /\ phase = "expect" /\ phase' = "expect" /\ queue # <<>> /\ UNCHANGED package
      /\ queue' = Tail(queue) \o Children(h)
  BY <1>1 DEF Expect
<1>4. /\ BuildInv /\ PackageInv /\ ShapeInv /\ stack = <<>> /\ phase # "hash" /\ Placed(pl)
      /\ queue \in Seq(1..Len(tree))
  BY <1>3, NoFrame DEF AllInv, BuildInv, QueryInv, Growing
<1>5. Queued(pl, c) /\ LabelledTo(pl, c)
  BY <1>1, <1>3 DEF Ordered
<1>6. /\ h \in 1..L /\ pl[h] = c + 1
      /\ InOrder(pl, queue', c + 1, Pow[depth - 1])
  BY <1>1, <1>2, <1>3, <1>4, <1>5, ExpectOrder
<1>7. /\ depth' = depth /\ \A k : ExpectedAt(k)' = ExpectedAt(k)
  BY <1>3, MerkleKept
<1>8. Queued(pl, c + 1)'
  <2>1. Pow[depth] = 2 * Pow[depth - 1]
    BY <1>4, MerkleIs
  <2>. QED
    BY <1>6, <1>7, <2>1, Zenon DEF Queued, InOrder
<1>9. DOMAIN tree = 1..L /\ Len(tree') = L /\ \A m \in 1..L : tree[m] \in NodeType
  <2>1. PICK x, g : g \in 1..Len(tree) /\ x \in PackageHashes
                      /\ tree' = [tree EXCEPT ![g].expected = x]
    BY ExpectIs
  <2>2. StillStep
    BY <2>1, ExpectStill
  <2>. QED
    BY <1>1, <1>4, <2>2, TreeLen, NodeIs DEF StillStep, SameTree
<1>10. LabelledTo(pl, c + 1)'
  <2>1. ASSUME NEW n \in 1..L, pl[n] <= c + 1 PROVE tree'[n].expected = ExpectedAt(pl[n])
    <3>1. CASE n = h
      <4>1. tree'[h] = [tree[h] EXCEPT !.expected = ExpectedAt(c + 1)]
        BY <1>2, <1>6, <1>9
      <4>2. tree[h] \in NodeType
        BY <1>6, <1>9
      <4>3. tree'[h].expected = ExpectedAt(c + 1)
        BY <4>1, <4>2 DEF NodeType
      <4>. QED
        BY <1>6, <3>1, <4>3
    <3>2. CASE n # h
      <4>1. tree'[n] = tree[n]
        BY <1>2, <1>9, <3>2
      <4>2. pl[n] # c + 1
        BY <1>1, <1>4, <1>6, <3>2, PlacesApart
      <4>3. pl[n] \in Nat
        BY <1>1, <1>4 DEF Placed
      <4>4. pl[n] <= c
        BY <1>2, <2>1, <4>2, <4>3
      <4>. QED
        BY <1>1, <1>5, <4>1, <4>4 DEF LabelledTo
    <3>. QED
      BY <3>1, <3>2
  <2>. QED
    BY <1>7, <1>9, <2>1 DEF LabelledTo
<1>. QED
  BY <1>2, <1>3, <1>8, <1>10 DEF Ordered

\* The steps of recursiveTree.
LEMMA GrowsExact ==
  ASSUME BuildInv, ExactInv, Grows
  PROVE  ExactInv'
<1>1. /\ BuildStep /\ hash' = hash
  BY DEF Grows, Descend, DescendAgain, Return, Leaf, Building, BuildStep
<1>2. PICK pl : Placed(pl) /\ MerkleAt(pl) /\ Ordered(pl)
  BY DEF ExactInv
<1>3. HashInv /\ Growing(pl)
  BY <1>2 DEF ExactInv, Growing
<1>4. HashInv'
  <2>1. nchunks' = nchunks /\ chunks' = chunks /\ data' = data
    BY <1>1, SamePackage DEF BuildStep, package
  <2>. QED
    BY <1>1, <1>3, <2>1 DEF HashInv
<1>5. \E u : Growing(u)'
  <2>1. CASE Descend
    <3>1. DescendedTop
      BY <2>1, DescendIs DEF BuildInv, DescendedTop
    <3>. QED
      BY <1>1, <1>3, <3>1, DescendedGrowing
  <2>2. CASE DescendAgain
    <3>1. TurnedTop
      BY <2>2, DescendAgainIs DEF BuildInv, TurnedTop
    <3>. QED
      BY <1>1, <1>3, <3>1, TurnedGrowing
  <2>3. CASE Return \/ Leaf
    <3>1. ReturnedTop
      BY <2>3, ReturnIs, LeafIs DEF BuildInv
    <3>2. Valued(top.node, top.position)
      BY <1>3, <2>3, ReturnValues, LeafValues
    <3>. QED
      BY <1>1, <1>2, <3>1, <3>2, ReturnedPlaced, ReturnedMerkle DEF Growing
  <2>. QED
    BY <2>1, <2>2, <2>3 DEF Grows
<1>6. PICK u : Growing(u)'
  BY <1>5
<1>7. Ordered(u)'
  BY <1>1 DEF Ordered, BuildStep
<1>. QED
  BY <1>4, <1>6, <1>7 DEF ExactInv, Growing

\* The steps that leave the tree alone.
LEMMA SameBuildExact ==
  ASSUME AllInv, ExactInv, SameBuild,
         \/ phase' \in {"hash", "fault"}
         \/ phase' = phase /\ queue' = queue /\ index' = index /\ index2' = index2
         \/ Finished /\ Finished'
         \/ BuildEnd
         \/ ExpectEnd
  PROVE  ExactInv'
<1>1. PICK pl : Placed(pl) /\ MerkleAt(pl) /\ Ordered(pl)
  BY DEF ExactInv
<1>2. /\ Placed(pl)' /\ MerkleAt(pl)' /\ HashInv' /\ depth' = depth
      /\ \A c : LabelledTo(pl, c)' <=> LabelledTo(pl, c)
  BY <1>1, SameBuildKeeps DEF ExactInv
<1>3. BuildInv /\ PackageInv
  BY DEF AllInv, BuildInv
<1>4. PICK w : w = Pow[depth - 1]
  OBVIOUS
<1>5. w \in Nat \ {0} /\ Pow[depth] = 2 * w /\ Places = 1..((2 * w) - 1)
  BY <1>3, <1>4, MerkleIs
<1>6. CASE phase' \in {"hash", "fault"}
  <2>1. Ordered(pl)'
    BY <1>6 DEF Ordered
  <2>. QED
    BY <1>2, <2>1 DEF ExactInv
<1>7. CASE phase' = phase /\ queue' = queue /\ index' = index /\ index2' = index2
  <2>1. \A c : Queued(pl, c)' <=> Queued(pl, c)
    BY <1>2, <1>7 DEF Queued
  <2>2. Ordered(pl)'
    BY <1>1, <1>2, <1>7, <2>1 DEF Ordered
  <2>. QED
    BY <1>2, <2>2 DEF ExactInv
<1>8. CASE Finished /\ Finished'
  <2>1. LabelledTo(pl, Pow[depth] - 1)
    BY <1>1, <1>8 DEF Ordered, Finished
  <2>2. Ordered(pl)'
    BY <1>2, <1>8, <2>1 DEF Ordered, Finished
  <2>. QED
    BY <1>2, <2>2 DEF ExactInv
<1>9. CASE BuildEnd
  <2>1. /\ phase = "build" /\ phase' = "expect" /\ queue' = << 1 >> /\ index' = index
        /\ index2' = index2
    BY <1>9 DEF BuildEnd, build
  <2>2. index = 0 /\ index2 = 0
    BY <2>1 DEF AllInv, ExpectInv
  <2>3. Queued(pl, 0)'
    <3>1. PICK q : q = queue'
      OBVIOUS
    <3>2. Len(q) = 1 /\ q[1] = 1
      BY <2>1, <3>1
    <3>3. pl[1] = 1
      BY <1>1 DEF Placed
    <3>4. \A i \in 1..Len(q) : pl[q[i]] = 0 + i
      BY <3>2, <3>3
    <3>5. Len(q) = IF 0 < w THEN 0 + 1 ELSE Pow[depth] - 1 - 0
      BY <1>5, <3>2
    <3>. QED
      BY <1>2, <1>4, <3>1, <3>4, <3>5 DEF Queued
  <2>4. LabelledTo(pl, 0)
    <3>1. ASSUME NEW n \in 1..Len(tree) PROVE ~(pl[n] <= 0)
      <4>1. pl[n] \in Places
        BY <1>1, <1>3, PlacesOf
      <4>. QED
        BY <1>5, <4>1
    <3>. QED
      BY <3>1 DEF LabelledTo
  <2>5. Ordered(pl)'
    <3>1. index' + index2' = 0
      BY <2>1, <2>2
    <3>. QED
      BY <1>2, <2>1, <2>3, <2>4, <3>1 DEF Ordered
  <2>. QED
    BY <1>2, <2>5 DEF ExactInv
<1>10. CASE ExpectEnd
  <2>1. phase = "expect" /\ queue = <<>> /\ phase' = "built"
    BY <1>10 DEF ExpectEnd
  <2>2. PICK c : c = index + index2
    OBVIOUS
  <2>3. c \in Nat
    <3>1. index \in 0..nhashes /\ index2 \in 0..nchunks
      BY DEF AllInv, ExpectInv
    <3>. QED
      BY <2>2, <3>1
  <2>4. Queued(pl, c) /\ LabelledTo(pl, c)
    BY <1>1, <2>1, <2>2 DEF Ordered
  <2>5. c = Pow[depth] - 1
    BY <1>3, <2>1, <2>3, <2>4, OrderEnd
  <2>6. Ordered(pl)'
    BY <1>2, <2>1, <2>4, <2>5 DEF Ordered
  <2>. QED
    BY <1>2, <2>6 DEF ExactInv
<1>. QED
  BY <1>6, <1>7, <1>8, <1>9, <1>10

\* hashChunk hashes the chunks of the data file or returns NULL.
LEMMA HashChunkExact ==
  ASSUME BuildInv, ExactInv, HashChunk
  PROVE  ExactInv'
<1>1. /\ UNCHANGED package /\ tree' = tree /\ phase = "hash" /\ phase' = "build"
      /\ hash' \in {[i \in 1..nchunks |-> HashOf(data[i])], <<>>}
      /\ stack' = <<Frame(1, 1, 0, "enter")>>
  BY DEF HashChunk
<1>2. PICK pl : Placed(pl) /\ MerkleAt(pl)
  BY DEF ExactInv
<1>3. nchunks' = nchunks /\ chunks' = chunks /\ data' = data /\ depth' = depth
      /\ MerkleHash' = MerkleHash
  BY <1>1, SamePackage, MerkleKept DEF package
<1>4. HashInv'
  <2>1. \A i \in 1..nchunks : \E x \in Content : chunks[i] = HashOf(x)
    BY DEF ExactInv, HashInv
  <2>2. hash' # <<>> => \A i \in 1..nchunks : hash'[i] = HashOf(data[i])
    BY <1>1
  <2>. QED
    BY <1>3, <2>1, <2>2 DEF HashInv
<1>5. PICK f : f = Frame(1, 1, 0, "enter")
  OBVIOUS
<1>6. /\ f.node = 1 /\ f.position = 0 /\ Len(stack') = 1 /\ stack'[1] = f
  BY <1>1, <1>5, FrameIs
<1>7. \A i \in 1..Len(stack') : pl[stack'[i].node] = Pow[i - 1] + stack'[i].position
  <2>1. pl[1] = 1 /\ Pow[1 - 1] = 1
    BY <1>2, PowIs DEF Placed
  <2>2. \A i \in 1..Len(stack') : i = 1
    BY <1>6
  <2>. QED
    BY <1>6, <2>1, <2>2
<1>8. Placed(pl)'
  <2>1. \A n : Left(n)' = Left(n) /\ Right(n)' = Right(n)
    BY <1>1 DEF Left, Right
  <2>. QED
    BY <1>1, <1>2, <1>3, <1>7, <2>1 DEF Placed
<1>9. MerkleAt(pl)'
  BY <1>1, <1>2, <1>3 DEF MerkleAt
<1>10. Ordered(pl)'
  BY <1>1 DEF Ordered
<1>. QED
  BY <1>4, <1>8, <1>9, <1>10 DEF ExactInv

\* A root in place 1, and no hash.
LEMMA InitExact ==
  ASSUME QueryInit
  PROVE  ExactInv
<1>1. tree = <<NewNode(NULL)>> /\ stack = <<>> /\ phase = "hash" /\ hash = <<>>
  BY DEF QueryInit, Init
<1>2. /\ Len(tree) = 1 /\ Left(1) = NULL
      /\ tree[1].computed = Garbage /\ ~tree[1].is_leaf /\ 1..Len(tree) = {1}
  BY <1>1, RootOnly
<1>3. HashInv
  <2>1. PICK n \in NChunks : \E p \in Packages(n) :
          chunks = p.chunks /\ hashes = p.hashes /\ data \in [1..n -> Content]
    BY DEF QueryInit, Init
  <2>2. PICK p \in Packages(n) : chunks = p.chunks
    BY <2>1
  <2>3. n \in Nat
    BY <2>1, NChunksAssumption
  <2>8. PICK c \in [1..n -> Content], bogus \in SUBSET (1..(n - 1)) :
          p = [chunks |-> [i \in 1..n |-> HashOf(c[i])],
               hashes |-> [k \in 1..(n - 1) |->
                            IF k \in bogus THEN Bogus
                            ELSE HashesOver([i \in 1..n |-> HashOf(c[i])])[k]]]
    BY <2>2, PackageOf
  <2>4. chunks = [i \in 1..n |-> HashOf(c[i])]
    BY <2>2, <2>8
  <2>5. nchunks = n
    <3>1. PICK f, X : f = chunks /\ X = {chunks[i] : i \in 1..n}
      OBVIOUS
    <3>2. f \in [1..n -> X]
      BY <2>4, <3>1
    <3>3. Len(f) = n
      BY ONLY <2>3, <3>2, FunctionIsSequence
    <3>. QED
      BY <3>1, <3>3 DEF nchunks
  <2>6. \A i \in 1..nchunks : c[i] \in Content /\ chunks[i] = HashOf(c[i])
    BY <2>4, <2>5
  <2>7. \A i \in 1..nchunks : \E x \in Content : chunks[i] = HashOf(x)
    BY <2>6, Zenon
  <2>. QED
    BY <1>1, <2>7 DEF HashInv
<1>. DEFINE pl == [n \in {1} |-> 1]
<1>4. pl \in [{1} -> Nat] /\ pl[1] = 1
  OBVIOUS
<1>. HIDE DEF pl
<1>5. 1..Len(stack) = {}
  BY <1>1
<1>6. Placed(pl)
  BY <1>2, <1>4, <1>5 DEF Placed
<1>7. MerkleAt(pl)
  BY <1>2 DEF MerkleAt
<1>8. Ordered(pl)
  BY <1>1 DEF Ordered
<1>. QED
  BY <1>3, <1>6, <1>7, <1>8 DEF ExactInv

\* Every step.
LEMMA NextExact ==
  ASSUME AllInv, ExactInv, [QueryNext]_allVars
  PROVE  ExactInv'
<1>0. BuildInv
  BY DEF AllInv
<1>1. CASE UNCHANGED allVars
  <2>1. /\ SameBuild /\ phase' = phase /\ queue' = queue /\ index' = index /\ index2' = index2
    BY <1>1 DEF allVars, vars, build, SameBuild
  <2>. QED
    BY <2>1, SameBuildExact
<1>2. CASE Build /\ UNCHANGED queryVars
  <2>1. CASE HashChunk
    BY <1>0, <2>1, HashChunkExact
  <2>2. CASE Descend \/ DescendAgain \/ Return \/ Leaf
    BY <1>0, <1>2, <2>2, GrowsExact DEF Grows
  <2>3. CASE LeafFault
    <3>1. SameBuild /\ phase' = "fault"
      BY <2>3 DEF LeafFault, SameBuild, build
    <3>. QED
      BY <3>1, SameBuildExact
  <2>4. CASE BuildEnd
    <3>1. SameBuild
      BY <2>4 DEF BuildEnd, SameBuild, build
    <3>. QED
      BY <2>4, <3>1, SameBuildExact
  <2>5. CASE Expect
    <3>1. PICK pl : Placed(pl) /\ MerkleAt(pl) /\ Ordered(pl)
      BY DEF ExactInv
    <3>2. Growing(pl)' /\ Ordered(pl)'
      BY <2>5, <3>1, ExpectGrowing, ExpectOrdered DEF Growing
    <3>3. HashInv'
      <4>1. hash' = hash /\ chunks' = chunks /\ data' = data /\ nchunks' = nchunks
        BY <2>5, SamePackage DEF Expect, package
      <4>. QED
        BY <4>1 DEF ExactInv, HashInv
    <3>. QED
      BY <3>2, <3>3 DEF ExactInv, Growing
  <2>6. CASE ExpectEnd
    <3>1. SameBuild
      BY <2>6 DEF ExpectEnd, SameBuild, build
    <3>. QED
      BY <2>6, <3>1, SameBuildExact
  <2>. QED
    BY <1>2, <2>1, <2>2, <2>3, <2>4, <2>5, <2>6 DEF Build
<1>3. CASE UNCHANGED treeVars /\ Finished /\ Finished'
  <2>1. SameBuild
    BY <1>3 DEF treeVars, build, SameBuild
  <2>. QED
    BY <1>3, <2>1, SameBuildExact
<1>4. CASE \E q, g : Ask(q, g)
  <2>1. UNCHANGED treeVars /\ Finished /\ Finished'
    BY <1>4 DEF Ask, Built, Finished
  <2>. QED
    BY <1>3, <2>1
<1>5. CASE CompletedStep \/ MinStep \/ FindStep \/ FindMatch \/ CollectStep
  <2>1. UNCHANGED treeVars /\ Finished /\ Finished'
    BY <1>5 DEF CompletedStep, MinStep, FindStep, FindMatch, CollectStep, Visit, Finished
  <2>. QED
    BY <1>3, <2>1
<1>6. CASE GetAllHashes \/ QueryEnd \/ QueryDestroy \/ FreeTree \/ FreeTreeStep \/ FreeTreeEnd
  <2>1. UNCHANGED treeVars /\ Finished /\ Finished'
    BY <1>6 DEF GetAllHashes, QueryEnd, QueryDestroy, FreeTree, FreeTreeStep, FreeTreeEnd, Built,
                Finished
  <2>. QED
    BY <1>3, <2>1
<1>. QED
  BY <1>1, <1>2, <1>4, <1>5, <1>6 DEF QueryNext, AskHashesOf

\* TreeExact of MerkleTree: the finished tree is the perfect binary tree over
\* the chunks, every computed hash is the Merkle hash of its place, every
\* expected hash is where it belongs, and the root decides about the chunks.
THEOREM TreeExactCorrect == QuerySpec => []TreeExact
<1>1. QueryInit => ExactInv
  BY InitExact
<1>2. AllInv /\ ExactInv /\ [QueryNext]_allVars => ExactInv'
  BY NextExact
<1>3. AllInv /\ ExactInv => TreeExact
  BY ExactIs DEF AllInv
<1>. QED
  BY <1>1, <1>2, <1>3, Invariance, PTL DEF QuerySpec

-----------------------------------------------------------------------------
(***************************************************************************)
(* A traversal visits the places in level order                            *)
(***************************************************************************)

\* The last number visited is c: what is in the queue of a traversal of the
\* places R below m.
Frontier(R, m, c) == {k \in R : k > c /\ (k = m \/ k \div 2 <= c)}

\* The queue q holds the values of f of the frontier in their order.
TrailBy(q, f, R, m, c, s) ==
  /\ s \in [1..Len(q) -> R]
  /\ \A i \in 1..Len(q) : q[i] = f[s[i]]
  /\ \A i, j \in 1..Len(q) : i < j => s[i] < s[j]
  /\ \A k \in R : k \in Frontier(R, m, c) <=> \E i \in 1..Len(q) : s[i] = k
Trail(q, f, R, m, c) == \E s : TrailBy(q, f, R, m, c, s)

\* R is a tree with root m: with a place comes the place above it, and the
\* places below one come in pairs.
Rooted(R, m) ==
  /\ R \subseteq Nat \ {0} /\ m \in R
  /\ \A k \in R : k # m => k > m /\ k \div 2 \in R
  /\ \A k \in R : 2 * k \in R <=> 2 * k + 1 \in R

\* A set of numbers has a least one.
LEMMA LeastOf ==
  ASSUME NEW S \in SUBSET Nat, S # {}
  PROVE  \E x \in S : \A y \in S : x <= y
<1>. DEFINE T == {n \in Nat : \A x \in S : n <= x}
<1>1. SUFFICES ASSUME \A x \in S : \E y \in S : y < x PROVE FALSE
  OBVIOUS
<1>2. 0 \in T
  OBVIOUS
<1>3. ASSUME NEW n \in T PROVE n + 1 \in T
  <2>1. n \in Nat /\ \A x \in S : n <= x
    OBVIOUS
  <2>2. n \notin S
    BY <1>1, <2>1
  <2>3. \A x \in S : n + 1 <= x
    BY <2>1, <2>2
  <2>. QED
    BY <2>1, <2>3
<1>4. T = Nat
  <2>. HIDE DEF T
  <2>1. T \subseteq Nat
    BY DEF T
  <2>. QED
    BY <1>2, <1>3, <2>1, Induction
<1>5. PICK x \in S : TRUE
  OBVIOUS
<1>6. x + 1 \in T
  <2>. HIDE DEF T
  <2>1. x + 1 \in Nat
    OBVIOUS
  <2>. QED
    BY <1>4, <2>1
<1>. QED
  BY <1>6

\* Nothing is ahead of the frontier that is not below it.
LEMMA FrontierLeast ==
  ASSUME NEW R, NEW m, Rooted(R, m), NEW c \in Nat, NEW j \in R, j > c
  PROVE  \E k \in Frontier(R, m, c) : k <= j
<1>1. R \subseteq Nat \ {0} /\ \A k \in R : k # m => k \div 2 \in R
  BY DEF Rooted
<1>. DEFINE S == {k \in R : k > c}
<1>2. j \in S /\ S \in SUBSET Nat /\ S # {}
  BY <1>1
<1>3. PICK x \in S : \A y \in S : x <= y
  <2>. HIDE DEF S
  <2>. QED
    BY <1>2, LeastOf
<1>4. x \in R /\ x > c /\ x \in Nat \ {0}
  BY <1>1
<1>5. x = m \/ x \div 2 <= c
  <2>. SUFFICES ASSUME x # m PROVE x \div 2 <= c
    OBVIOUS
  <2>1. x \div 2 \in R /\ x \div 2 < x /\ x \div 2 \in Nat
    BY <1>1, <1>4, HalfIs
  <2>2. ~(x \div 2 > c)
    BY <1>3, <1>4, <2>1
  <2>. QED
    BY <2>1, <2>2
<1>. QED
  BY <1>2, <1>3, <1>4, <1>5 DEF Frontier

\* The frontier after its least place k has been visited.
LEMMA FrontierStep ==
  ASSUME NEW R, NEW m, Rooted(R, m), NEW c \in Nat, c + 1 >= m,
         NEW k \in Frontier(R, m, c), \A j \in Frontier(R, m, c) : k <= j
  PROVE  /\ k \in R /\ k \in Nat \ {0} /\ k > c /\ k >= m
         /\ \A j \in R : j > c => k <= j
         /\ \A j \in Frontier(R, m, c) : j < 2 * k
         /\ \A j \in R : j \in Frontier(R, m, k) <=>
                           (j \in Frontier(R, m, c) /\ j # k) \/ j = 2 * k \/ j = 2 * k + 1
<1>1. R \subseteq Nat \ {0} /\ m \in R /\ \A j \in R : j # m => j \div 2 \in R
  BY DEF Rooted
<1>2. k \in R /\ k \in Nat \ {0} /\ k > c /\ m \in Nat \ {0} /\ k >= m
  BY <1>1 DEF Frontier
<1>3. ASSUME NEW j \in R, j > c PROVE k <= j
  <2>1. PICK x \in Frontier(R, m, c) : x <= j
    BY <1>3, FrontierLeast
  <2>2. k <= x /\ x \in Nat /\ j \in Nat
    BY <1>1, <2>1 DEF Frontier
  <2>. QED
    BY <1>2, <2>1, <2>2
<1>4. ASSUME NEW j \in Frontier(R, m, c) PROVE j < 2 * k
  <2>1. j \in Nat \ {0} /\ (j = m \/ j \div 2 <= c)
    BY <1>1 DEF Frontier
  <2>. QED
    BY <1>2, <2>1, HalfIs
<1>5. ASSUME NEW j \in R, j \in Frontier(R, m, k)
      PROVE  (j \in Frontier(R, m, c) /\ j # k) \/ j = 2 * k \/ j = 2 * k + 1
  <2>1. j > k /\ (j = m \/ j \div 2 <= k) /\ j \in Nat \ {0}
    BY <1>1, <1>5 DEF Frontier
  <2>2. j # m /\ j # k /\ j > c
    BY <1>2, <2>1
  <2>3. PICK p : p = j \div 2
    OBVIOUS
  <2>4. p \in R /\ p <= k /\ p \in Nat /\ (j = 2 * p \/ j = 2 * p + 1)
    BY <1>1, <2>1, <2>2, <2>3, HalfIs
  <2>5. CASE p = k
    BY <2>4, <2>5
  <2>6. CASE p # k
    <3>1. p <= c
      BY <1>2, <1>3, <2>4, <2>6
    <3>. QED
      BY <2>2, <2>3, <3>1 DEF Frontier
  <2>. QED
    BY <2>5, <2>6
<1>6. ASSUME NEW j \in R, (j \in Frontier(R, m, c) /\ j # k) \/ j = 2 * k \/ j = 2 * k + 1
      PROVE  j \in Frontier(R, m, k)
  <2>1. CASE j \in Frontier(R, m, c) /\ j # k
    <3>1. j > c /\ (j = m \/ j \div 2 <= c) /\ j \in Nat \ {0}
      BY <1>1, <2>1 DEF Frontier
    <3>2. k <= j
      BY <1>3, <3>1
    <3>3. j > k /\ (j = m \/ j \div 2 <= k)
      <4>1. j \div 2 \in Nat
        BY <3>1, HalfIs
      <4>. QED
        BY <1>2, <2>1, <3>1, <3>2, <4>1
    <3>. QED
      BY <3>3 DEF Frontier
  <2>2. CASE j = 2 * k \/ j = 2 * k + 1
    <3>1. j > k /\ j \div 2 <= k
      BY <1>2, <2>2
    <3>. QED
      BY <3>1 DEF Frontier
  <2>. QED
    BY <1>6, <2>1, <2>2
<1>. QED
  BY <1>2, <1>3, <1>4, <1>5, <1>6

\* The head of the queue is the least of the frontier.
LEMMA TrailFirst ==
  ASSUME NEW q, Len(q) \in Nat \ {0}, NEW f, NEW R, NEW m, Rooted(R, m), NEW c,
         NEW s, TrailBy(q, f, R, m, c, s)
  PROVE  /\ s[1] \in Frontier(R, m, c) /\ q[1] = f[s[1]]
         /\ \A j \in Frontier(R, m, c) : s[1] <= j
<1>1. 1 \in 1..Len(q) /\ s[1] \in R /\ q[1] = f[s[1]]
  BY DEF TrailBy
<1>2. s[1] \in Frontier(R, m, c)
  BY <1>1 DEF TrailBy
<1>3. ASSUME NEW j \in Frontier(R, m, c) PROVE s[1] <= j
  <2>1. j \in R
    BY DEF Frontier
  <2>2. PICK i \in 1..Len(q) : s[i] = j
    BY <2>1 DEF TrailBy
  <2>3. i = 1 \/ 1 < i
    OBVIOUS
  <2>4. s[1] \in Nat /\ j \in Nat
    BY <1>1, <2>1 DEF Rooted
  <2>5. i = 1 \/ s[1] < s[i]
    BY <1>1, <2>3 DEF TrailBy
  <2>. QED
    BY <2>2, <2>4, <2>5
<1>. QED
  BY <1>1, <1>2, <1>3

\* A traversal starts with the root of R alone in the queue.
LEMMA TrailStart ==
  ASSUME NEW R, NEW m, Rooted(R, m), NEW f, NEW x, x = f[m]
  PROVE  Trail(<<x>>, f, R, m, m - 1)
<1>1. m \in R /\ m \in Nat \ {0} /\ R \subseteq Nat \ {0} /\ \A k \in R : k # m => k > m
  BY DEF Rooted
<1>2. PICK q : q = <<x>>
  OBVIOUS
<1>3. Len(q) = 1 /\ q[1] = f[m]
  BY <1>2
<1>4. PICK s : s = [i \in 1..1 |-> m]
  OBVIOUS
<1>5. s \in [1..Len(q) -> R] /\ s[1] = m
  BY <1>1, <1>3, <1>4
<1>6. ASSUME NEW k \in R PROVE k \in Frontier(R, m, m - 1) <=> k = m
  <2>1. k = m => k > m - 1
    BY <1>1
  <2>2. ASSUME k # m, k \div 2 <= m - 1 PROVE FALSE
    <3>1. k \div 2 \in R /\ k \in Nat \ {0}
      BY <1>1, <2>2 DEF Rooted
    <3>2. k \div 2 >= m
      BY <1>1, <3>1
    <3>. QED
      BY <1>1, <2>2, <3>1, <3>2, HalfIs
  <2>. QED
    BY <2>1, <2>2 DEF Frontier
<1>7. \A i \in 1..Len(q) : i = 1
  BY <1>3
<1>8. 1 \in 1..Len(q)
  BY <1>3
<1>9. TrailBy(q, f, R, m, m - 1, s)
  <2>1. \A i \in 1..Len(q) : q[i] = f[s[i]]
    BY <1>3, <1>5, <1>7
  <2>2. \A i, j \in 1..Len(q) : i < j => s[i] < s[j]
    BY <1>3
  <2>3. \A k \in R : k \in Frontier(R, m, m - 1) <=> \E i \in 1..Len(q) : s[i] = k
    BY <1>5, <1>6, <1>7, <1>8
  <2>. QED
    BY <1>5, <2>1, <2>2, <2>3 DEF TrailBy
<1>. QED
  BY <1>2, <1>9 DEF Trail

\* When the queue is empty nothing is ahead.
LEMMA TrailEnd ==
  ASSUME NEW q, Len(q) = 0, NEW f, NEW R, NEW m, Rooted(R, m), NEW c \in Nat, Trail(q, f, R, m, c)
  PROVE  \A j \in R : j <= c
<1>. SUFFICES ASSUME NEW j \in R, ~(j <= c) PROVE FALSE
  OBVIOUS
<1>1. PICK s : TrailBy(q, f, R, m, c, s)
  BY DEF Trail
<1>2. j > c
  BY DEF Rooted
<1>3. PICK k \in Frontier(R, m, c) : TRUE
  BY <1>2, FrontierLeast
<1>4. k \in R
  BY DEF Frontier
<1>5. \E i \in 1..Len(q) : s[i] = k
  BY <1>1, <1>3, <1>4 DEF TrailBy
<1>. QED
  BY <1>5

\* What t says is behind the head k of the queue: the frontier without k.
Behind(q, a, f, R, m, c, k, t) ==
  /\ \A i \in 1..(a - 1) : t[i] \in R /\ t[i] \in Frontier(R, m, c) /\ q[i + 1] = f[t[i]]
  /\ \A i, j \in 1..(a - 1) : i < j => t[i] < t[j]
  /\ \A j \in R : (j \in Frontier(R, m, c) /\ j # k) <=> \E i \in 1..(a - 1) : t[i] = j

\* The queue without its head, as functions of the places see it.
LEMMA TrailTail ==
  ASSUME NEW q, NEW a \in Nat \ {0}, a = Len(q), NEW f, NEW R, NEW m, Rooted(R, m),
         NEW c, NEW s, TrailBy(q, f, R, m, c, s), NEW k, k = s[1],
         NEW t, \A i \in 1..(a - 1) : t[i] = s[i + 1]
  PROVE  Behind(q, a, f, R, m, c, k, t)
<1>1. /\ s \in [1..a -> R] /\ \A i \in 1..a : q[i] = f[s[i]]
      /\ \A i, j \in 1..a : i < j => s[i] < s[j]
      /\ \A j \in R : j \in Frontier(R, m, c) <=> \E i \in 1..a : s[i] = j
  BY DEF TrailBy
<1>2. \A i \in 1..(a - 1) : i + 1 \in 1..a
  OBVIOUS
<1>3. ASSUME NEW i \in 1..(a - 1)
      PROVE  t[i] \in R /\ t[i] \in Frontier(R, m, c) /\ q[i + 1] = f[t[i]]
  BY <1>1, <1>2
<1>4. ASSUME NEW i \in 1..(a - 1), NEW j \in 1..(a - 1), i < j PROVE t[i] < t[j]
  <2>1. i + 1 \in 1..a /\ j + 1 \in 1..a /\ i + 1 < j + 1
    BY <1>4
  <2>. QED
    BY <1>1, <2>1
<1>5. ASSUME NEW j \in R, j \in Frontier(R, m, c), j # s[1] PROVE \E i \in 1..(a - 1) : t[i] = j
  <2>1. PICK i \in 1..a : s[i] = j
    BY <1>1, <1>5
  <2>2. i # 1
    BY <1>5, <2>1
  <2>3. PICK l : l = i - 1
    OBVIOUS
  <2>4. l \in 1..(a - 1) /\ i = l + 1
    BY <2>2, <2>3
  <2>. QED
    BY <2>1, <2>4
<1>6. ASSUME NEW i \in 1..(a - 1) PROVE t[i] # s[1]
  <2>1. i + 1 \in 1..a /\ 1 \in 1..a /\ 1 < i + 1
    OBVIOUS
  <2>2. s[1] < t[i]
    BY <1>1, <2>1
  <2>3. t[i] \in Nat
    BY <1>3 DEF Rooted
  <2>4. s[1] \in Nat
    BY <1>1, <2>1 DEF Rooted
  <2>. QED
    BY <2>2, <2>3, <2>4
<1>. QED
  BY <1>3, <1>4, <1>5, <1>6 DEF Behind

\* The least place is visited and has nothing of R below it.
LEMMA TrailPop ==
  ASSUME NEW X, NEW q, Len(q) \in Nat \ {0}, NEW f, NEW R, NEW m, Rooted(R, m),
         NEW c \in Nat, c + 1 >= m, NEW s, TrailBy(q, f, R, m, c, s), NEW k, k = s[1],
         2 * k \notin R, NEW r, Popped(X, q, <<>>, r)
  PROVE  Trail(r, f, R, m, k)
<1>1. k \in Frontier(R, m, c) /\ \A j \in Frontier(R, m, c) : k <= j
  BY TrailFirst
<1>2. /\ k \in R /\ k \in Nat \ {0}
      /\ \A j \in R : j \in Frontier(R, m, k) <=>
                        (j \in Frontier(R, m, c) /\ j # k) \/ j = 2 * k \/ j = 2 * k + 1
  BY <1>1, FrontierStep
<1>3. 2 * k + 1 \notin R
  BY <1>2 DEF Rooted
<1>4. PICK a : a = Len(q)
  OBVIOUS
<1>5. a \in Nat \ {0} /\ Len(r) = a - 1 /\ \A i \in 1..(a - 1) : r[i] = q[i + 1]
  <2>1. Len(<<>>) = 0
    OBVIOUS
  <2>. QED
    BY <1>4, <2>1 DEF Popped
<1>6. PICK t : t = [i \in 1..(a - 1) |-> s[i + 1]]
  OBVIOUS
<1>7. \A i \in 1..(a - 1) : t[i] = s[i + 1]
  BY <1>6
<1>8. /\ \A i \in 1..(a - 1) : t[i] \in R /\ t[i] \in Frontier(R, m, c) /\ q[i + 1] = f[t[i]]
      /\ \A i, j \in 1..(a - 1) : i < j => t[i] < t[j]
      /\ \A j \in R : (j \in Frontier(R, m, c) /\ j # k) <=> \E i \in 1..(a - 1) : t[i] = j
  <2>1. Behind(q, a, f, R, m, c, k, t)
    BY <1>4, <1>5, <1>7, TrailTail
  <2>. QED
    BY <2>1 DEF Behind
<1>9. t \in [1..(a - 1) -> R]
  BY <1>6, <1>8
<1>10. \A i \in 1..(a - 1) : r[i] = f[t[i]]
  BY <1>5, <1>8
<1>11. \A j \in R : j \in Frontier(R, m, k) <=> \E i \in 1..(a - 1) : t[i] = j
  BY <1>2, <1>3, <1>8
<1>12. TrailBy(r, f, R, m, k, t)
  BY <1>5, <1>8, <1>9, <1>10, <1>11 DEF TrailBy
<1>. QED
  BY <1>12 DEF Trail

\* The least place is visited and the places below it are queued.
LEMMA TrailPush ==
  ASSUME NEW X, NEW q, Len(q) \in Nat \ {0}, NEW f, NEW R, NEW m, Rooted(R, m),
         NEW c \in Nat, c + 1 >= m, NEW s, TrailBy(q, f, R, m, c, s), NEW k, k = s[1],
         2 * k \in R, NEW x, NEW y, x = f[2 * k], y = f[2 * k + 1],
         NEW r, Popped(X, q, <<x, y>>, r)
  PROVE  Trail(r, f, R, m, k)
<1>1. k \in Frontier(R, m, c) /\ \A j \in Frontier(R, m, c) : k <= j
  BY TrailFirst
<1>2. /\ k \in R /\ k \in Nat \ {0} /\ \A j \in Frontier(R, m, c) : j < 2 * k
      /\ \A j \in R : j \in Frontier(R, m, k) <=>
                        (j \in Frontier(R, m, c) /\ j # k) \/ j = 2 * k \/ j = 2 * k + 1
  BY <1>1, FrontierStep
<1>3. 2 * k + 1 \in R /\ R \subseteq Nat \ {0}
  BY <1>2 DEF Rooted
<1>4. PICK a : a = Len(q)
  OBVIOUS
<1>5. /\ a \in Nat \ {0} /\ Len(r) = a + 1 /\ \A i \in 1..(a - 1) : r[i] = q[i + 1]
      /\ r[a] = x /\ r[a + 1] = y
  <2>1. Len(<<x, y>>) = 2 /\ <<x, y>>[1] = x /\ <<x, y>>[2] = y
    OBVIOUS
  <2>2. /\ Len(r) = (a - 1) + 2 /\ \A i \in 1..(a - 1) : r[i] = q[i + 1]
        /\ \A i \in 1..2 : r[(a - 1) + i] = <<x, y>>[i]
    BY <1>4, <2>1 DEF Popped
  <2>3. 1 \in 1..2 /\ 2 \in 1..2 /\ (a - 1) + 1 = a /\ (a - 1) + 2 = a + 1 /\ a \in Nat \ {0}
    BY <1>4
  <2>4. r[(a - 1) + 1] = x /\ r[(a - 1) + 2] = y
    BY <2>1, <2>2, <2>3
  <2>. QED
    BY <2>2, <2>3, <2>4
<1>6. PICK t : t = [i \in 1..(a + 1) |-> IF i < a THEN s[i + 1] ELSE IF i = a THEN 2 * k ELSE 2 * k + 1]
  OBVIOUS
<1>7. /\ \A i \in 1..(a - 1) : i < a /\ i \in 1..(a + 1)
      /\ a \in 1..(a + 1) /\ a + 1 \in 1..(a + 1) /\ ~(a < a) /\ ~(a + 1 < a) /\ a + 1 # a
      /\ \A i \in 1..(a + 1) : i \in 1..(a - 1) \/ i = a \/ i = a + 1
  BY <1>5
<1>8. (\A i \in 1..(a - 1) : t[i] = s[i + 1]) /\ t[a] = 2 * k /\ t[a + 1] = 2 * k + 1
  BY <1>6, <1>7
<1>9. /\ \A i \in 1..(a - 1) : t[i] \in R /\ t[i] \in Frontier(R, m, c) /\ q[i + 1] = f[t[i]]
      /\ \A i, j \in 1..(a - 1) : i < j => t[i] < t[j]
      /\ \A j \in R : (j \in Frontier(R, m, c) /\ j # k) <=> \E i \in 1..(a - 1) : t[i] = j
  <2>1. Behind(q, a, f, R, m, c, k, t)
    BY <1>4, <1>5, <1>8, TrailTail
  <2>. QED
    BY <2>1 DEF Behind
<1>10. t \in [1..(a + 1) -> R]
  <2>1. \A i \in 1..(a + 1) : t[i] \in R
    BY <1>3, <1>7, <1>8, <1>9
  <2>2. t = [i \in 1..(a + 1) |-> t[i]]
    BY <1>6
  <2>. QED
    BY <2>1, <2>2
<1>11. \A i \in 1..(a + 1) : r[i] = f[t[i]]
  <2>1. ASSUME NEW i \in 1..(a - 1) PROVE r[i] = f[t[i]]
    BY <1>5, <1>9
  <2>2. r[a] = f[t[a]] /\ r[a + 1] = f[t[a + 1]]
    BY <1>5, <1>8
  <2>. QED
    BY <1>7, <2>1, <2>2
<1>12. ASSUME NEW i \in 1..(a + 1), NEW j \in 1..(a + 1), i < j PROVE t[i] < t[j]
  <2>1. CASE i \in 1..(a - 1) /\ j \in 1..(a - 1)
    BY <1>9, <1>12, <2>1
  <2>2. CASE i \in 1..(a - 1) /\ (j = a \/ j = a + 1)
    <3>1. t[i] \in Nat /\ t[i] < 2 * k
      BY <1>2, <1>3, <1>9, <2>2
    <3>2. k \in Nat /\ (t[j] = 2 * k \/ t[j] = 2 * k + 1)
      BY <1>2, <1>8, <2>2
    <3>. QED
      BY ONLY <3>1, <3>2
  <2>3. CASE i = a /\ j = a + 1
    <3>1. k \in Nat /\ t[i] = 2 * k /\ t[j] = 2 * k + 1
      BY <1>2, <1>8, <2>3
    <3>. QED
      BY ONLY <3>1
  <2>4. i \in 1..(a - 1) \/ (i = a /\ j = a + 1)
    <3>1. a \in Nat \ {0} /\ i \in 1..(a + 1) /\ j \in 1..(a + 1) /\ i < j
      BY <1>5, <1>12
    <3>. QED
      BY ONLY <3>1
  <2>5. j \in 1..(a - 1) \/ j = a \/ j = a + 1
    BY <1>7
  <2>. QED
    BY <2>1, <2>2, <2>3, <2>4, <2>5
<1>13. ASSUME NEW j \in R PROVE j \in Frontier(R, m, k) <=> \E i \in 1..(a + 1) : t[i] = j
  <2>1. (\E i \in 1..(a + 1) : t[i] = j)
          <=> (\E i \in 1..(a - 1) : t[i] = j) \/ t[a] = j \/ t[a + 1] = j
    BY <1>7
  <2>. QED
    BY <1>2, <1>8, <1>9, <2>1
<1>14. TrailBy(r, f, R, m, k, t)
  BY <1>5, <1>10, <1>11, <1>12, <1>13 DEF TrailBy
<1>. QED
  BY <1>14 DEF Trail

-----------------------------------------------------------------------------
(***************************************************************************)
(* The lists of places                                                     *)
(***************************************************************************)

\* Nothing is listed of nothing, and nothing else is then.
LEMMA ListsNone ==
  ASSUME NEW S, IsFiniteSet(S), NEW q, Len(q) = 0, NEW h
  PROVE  Lists(q, S, h) <=> S = {}
BY FS_EmptySet DEF Lists

\* The rank of a number is one of 1 to the size of the set.
LEMMA RankIs ==
  ASSUME NEW S \in SUBSET Nat, IsFiniteSet(S), NEW k \in S
  PROVE  Rank(S, k) \in 1..Cardinality(S)
<1>. DEFINE T == {j \in S : j <= k}
<1>1. T \subseteq S /\ k \in T
  OBVIOUS
<1>2. IsFiniteSet(T) /\ Cardinality(T) <= Cardinality(S) /\ Cardinality(T) \in Nat
        /\ Cardinality(S) \in Nat
  <2>. HIDE DEF T
  <2>. QED
    BY <1>1, FS_Subset, FS_CardinalityType
<1>3. Cardinality(T) # 0
  <2>1. T # {}
    BY <1>1
  <2>. HIDE DEF T
  <2>. QED
    BY <1>2, <2>1, FS_EmptySet
<1>4. Rank(S, k) = Cardinality(T)
  BY DEF Rank
<1>. HIDE DEF T
<1>. QED
  BY <1>2, <1>3, <1>4

\* A hash more at the end, of a number after all the others.
LEMMA ListsMore ==
  ASSUME NEW S \in SUBSET Nat, IsFiniteSet(S), NEW Y, NEW q \in Seq(Y), NEW h, Lists(q, S, h),
         NEW k \in Nat, \A j \in S : j < k, NEW x \in Y, x = h[k]
  PROVE  Lists(q \o <<x>>, S \cup {k}, h)
<1>1. PICK T, n : T = S \cup {k} /\ n = Cardinality(S)
  OBVIOUS
<1>2. n \in Nat /\ Len(q) = n /\ \A j \in S : q[Rank(S, j)] = h[j]
  BY <1>1, FS_CardinalityType DEF Lists
<1>3. k \notin S
  OBVIOUS
<1>4. Cardinality(T) = n + 1
  BY <1>1, <1>3, FS_AddElement
<1>5. PICK w, r : w = <<x>> /\ r = q \o w
  OBVIOUS
<1>6. w \in Seq(Y) /\ Len(w) = 1 /\ w[1] = x
  BY <1>5, OneSeq
<1>7. /\ Len(r) = n + 1
      /\ \A i \in 1..(n + 1) : r[i] = IF i <= n THEN q[i] ELSE w[i - n]
  BY <1>2, <1>5, <1>6, ConcatProperties
<1>8. ASSUME NEW j \in S PROVE r[Rank(T, j)] = h[j]
  <2>1. {i \in T : i <= j} = {i \in S : i <= j}
    BY <1>1
  <2>2. Rank(T, j) = Rank(S, j)
    BY <2>1 DEF Rank
  <2>3. Rank(S, j) \in 1..n
    BY <1>1, RankIs
  <2>4. PICK i : i = Rank(S, j)
    OBVIOUS
  <2>5. i \in 1..(n + 1) /\ i <= n
    BY <1>2, <2>3, <2>4
  <2>6. r[i] = q[i]
    BY <1>7, <2>5
  <2>. QED
    BY <1>2, <2>2, <2>4, <2>6
<1>9. r[Rank(T, k)] = h[k]
  <2>0. \A i \in T : i <= k
    <3>1. \A i \in S : i \in Nat /\ i < k
      OBVIOUS
    <3>. QED
      BY <1>1, <3>1
  <2>1. {i \in T : i <= k} = T
    BY <2>0
  <2>2. Rank(T, k) = n + 1
    BY <1>4, <2>1 DEF Rank
  <2>3. n + 1 \in 1..(n + 1) /\ ~(n + 1 <= n) /\ (n + 1) - n = 1
    BY <1>2
  <2>. QED
    BY <1>6, <1>7, <2>2, <2>3
<1>10. Lists(r, T, h)
  BY <1>1, <1>4, <1>7, <1>8, <1>9 DEF Lists
<1>. QED
  BY <1>1, <1>5, <1>10

\* The numbers of T are those of S less d.
Shifted(S, T, d) == \A k \in Nat : k \in T <=> k + d \in S

\* Sets that differ by a shift have the same size.
LEMMA ShiftedSize ==
  ASSUME NEW d \in Nat, NEW S \in SUBSET Nat, NEW T \in SUBSET Nat, \A k \in S : k >= d,
         Shifted(S, T, d), IsFiniteSet(T)
  PROVE  Cardinality(T) = Cardinality(S)
<1>. DEFINE b == [k \in T |-> k + d]
<1>1. b \in [T -> S]
  BY DEF Shifted
<1>2. \A k, j \in T : b[k] = b[j] => k = j
  OBVIOUS
<1>3. ASSUME NEW j \in S PROVE \E k \in T : b[k] = j
  <2>1. PICK k : k = j - d
    OBVIOUS
  <2>2. k \in Nat /\ k + d = j
    BY <2>1
  <2>3. k \in T
    BY <2>2 DEF Shifted
  <2>. QED
    BY <2>2, <2>3
<1>. HIDE DEF b
<1>4. b \in Bijection(T, S)
  <2>1. b \in Injection(T, S)
    BY <1>1, <1>2 DEF Injection, IsInjective
  <2>2. b \in Surjection(T, S)
    BY <1>1, <1>3 DEF Surjection
  <2>. QED
    BY <2>1, <2>2 DEF Bijection
<1>5. ExistsBijection(T, S)
  BY <1>4 DEF ExistsBijection
<1>. QED
  BY <1>5, FS_Bijection

\* The same hashes are listed of S, and of S with other numbers.
LEMMA ListsShift ==
  ASSUME NEW d \in Nat, NEW S \in SUBSET Nat, NEW T \in SUBSET Nat, IsFiniteSet(T),
         \A k \in S : k >= d, Shifted(S, T, d),
         NEW q, NEW h, NEW g, \A k \in T : h[k + d] = g[k], Lists(q, S, h)
  PROVE  Lists(q, T, g)
<1>1. Cardinality(T) = Cardinality(S)
  BY ShiftedSize
<1>2. ASSUME NEW k \in T PROVE q[Rank(T, k)] = g[k]
  <2>1. PICK A, B : A = {j \in S : j <= k + d} /\ B = {j \in T : j <= k}
    OBVIOUS
  <2>2. A \in SUBSET Nat /\ B \in SUBSET Nat /\ (\A j \in A : j >= d) /\ B \subseteq T
    BY <2>1
  <2>3. Shifted(A, B, d)
    <3>1. ASSUME NEW j \in Nat PROVE j \in B <=> j + d \in A
      <4>1. j <= k <=> j + d <= k + d
        OBVIOUS
      <4>2. j \in T <=> j + d \in S
        BY DEF Shifted
      <4>. QED
        BY <2>1, <4>1, <4>2
    <3>. QED
      BY <3>1 DEF Shifted
  <2>4. IsFiniteSet(B)
    BY <2>2, FS_Subset
  <2>5. Cardinality(B) = Cardinality(A)
    BY ONLY <2>2, <2>3, <2>4, ShiftedSize, d \in Nat
  <2>6. Rank(T, k) = Rank(S, k + d)
    BY <2>1, <2>5 DEF Rank
  <2>7. k + d \in S
    BY DEF Shifted
  <2>. QED
    BY <2>6, <2>7 DEF Lists
<1>. QED
  BY <1>1, <1>2 DEF Lists

\* Going(...) with the queue and the result as parameters: the places of R up
\* to c are visited and those of them in F reported.
GoingOn(q, a, f, h, R, m, F) ==
  \E c \in Nat : c + 1 >= m /\ Trail(q, f, R, m, c) /\ Lists(a, {k \in F : k <= c}, h)

\* A traversal starts with nothing reported ...
LEMMA GoingStart ==
  ASSUME NEW R, NEW m, Rooted(R, m), NEW f, NEW x, x = f[m], NEW h, NEW F, F \subseteq R
  PROVE  GoingOn(<<x>>, <<>>, f, h, R, m, F)
<1>1. m \in Nat \ {0} /\ R \subseteq Nat \ {0} /\ \A k \in R : k # m => k > m
  BY DEF Rooted
<1>2. m - 1 \in Nat /\ (m - 1) + 1 >= m
  BY <1>1
<1>3. Trail(<<x>>, f, R, m, m - 1)
  BY TrailStart
<1>4. {k \in F : k <= m - 1} = {}
  <2>1. ASSUME NEW k \in F PROVE k \in Nat /\ k >= m
    <3>1. k \in R /\ k \in Nat
      BY <1>1
    <3>. QED
      BY <1>1, <3>1
  <2>2. \A k \in F : ~(k <= m - 1)
    BY <1>1, <2>1
  <2>. QED
    BY <2>2, Zenon
<1>5. Lists(<<>>, {}, h)
  <2>1. Len(<<>>) = 0
    OBVIOUS
  <2>. QED
    BY <2>1, ListsNone, FS_EmptySet
<1>. QED
  BY <1>2, <1>3, <1>4, <1>5 DEF GoingOn

\* ... ends with its report complete ...
LEMMA GoingEnd ==
  ASSUME NEW R, NEW m, Rooted(R, m), NEW f, NEW h, NEW F, F \subseteq R, NEW q, Len(q) = 0,
         NEW a, GoingOn(q, a, f, h, R, m, F)
  PROVE  Lists(a, F, h)
<1>1. PICK c \in Nat : Trail(q, f, R, m, c) /\ Lists(a, {k \in F : k <= c}, h)
  BY DEF GoingOn
<1>2. \A j \in R : j <= c
  BY <1>1, TrailEnd
<1>3. {k \in F : k <= c} = F
  BY <1>2
<1>. QED
  BY <1>1, <1>3, Zenon

\* What a step of the traversal does when it visits k.
Below(f, R, k) == IF 2 * k \in R THEN <<f[2 * k], f[2 * k + 1]>> ELSE <<>>
Found(h, F, k) == IF k \in F THEN <<h[k]>> ELSE <<>>

\* ... and between them reports the head of the queue and goes on below it.
LEMMA GoingStep ==
  ASSUME NEW R, NEW m, Rooted(R, m), NEW X, NEW f, \A k \in R : f[k] \in X,
         NEW Y, NEW h, \A k \in R : h[k] \in Y, NEW F, F \subseteq R, IsFiniteSet(F),
         NEW q \in Seq(X), q # <<>>, NEW a \in Seq(Y), GoingOn(q, a, f, h, R, m, F)
  PROVE  \E k \in R : /\ Head(q) = f[k]
                      /\ a = <<>> => \A j \in F : k <= j
                      /\ GoingOn(Tail(q) \o Below(f, R, k), a \o Found(h, F, k), f, h, R, m, F)
<1>1. PICK c \in Nat : c + 1 >= m /\ Trail(q, f, R, m, c) /\ Lists(a, {k \in F : k <= c}, h)
  BY DEF GoingOn
<1>2. PICK s : TrailBy(q, f, R, m, c, s)
  BY <1>1 DEF Trail
<1>3. PICK k : k = s[1]
  OBVIOUS
<1>4. Len(q) \in Nat \ {0} /\ Head(q) = q[1]
  <2>1. <<>> \in Seq(X)
    BY EmptySeq
  <2>. QED
    BY <2>1, PoppedSeq
<1>5. /\ k \in Frontier(R, m, c) /\ q[1] = f[k] /\ \A j \in Frontier(R, m, c) : k <= j
  BY <1>2, <1>3, <1>4, TrailFirst
<1>6. k \in R /\ k \in Nat \ {0} /\ k > c /\ k >= m /\ \A j \in R : j > c => k <= j
  BY <1>1, <1>5, FrontierStep
<1>7. R \subseteq Nat \ {0}
  BY DEF Rooted
<1>8. PICK G : G = {j \in F : j <= c}
  OBVIOUS
<1>9. G \in SUBSET Nat /\ IsFiniteSet(G) /\ (\A j \in G : j < k) /\ Lists(a, G, h)
  <2>1. G \subseteq F
    BY <1>8
  <2>2. IsFiniteSet(G)
    BY <2>1, FS_Subset
  <2>3. \A j \in G : j \in Nat /\ j < k
    BY <1>6, <1>7, <1>8
  <2>. QED
    BY <1>1, <1>8, <2>2, <2>3
<1>10. {j \in F : j <= k} = IF k \in F THEN G \cup {k} ELSE G
  <2>1. ASSUME NEW j \in F PROVE j <= k <=> j <= c \/ j = k
    BY <1>6, <1>7
  <2>. QED
    BY <1>8, <2>1
<1>11. Lists(a \o Found(h, F, k), {j \in F : j <= k}, h)
  <2>1. CASE k \in F
    <3>1. PICK x : x = h[k]
      OBVIOUS
    <3>2. x \in Y
      BY <1>6, <3>1
    <3>3. Lists(a \o <<x>>, G \cup {k}, h)
      BY <1>6, <1>9, <3>1, <3>2, ListsMore
    <3>. QED
      BY <1>10, <2>1, <3>1, <3>3 DEF Found
  <2>2. CASE k \notin F
    <3>1. a \o <<>> = a
      BY ConcatEmptySeq
    <3>. QED
      BY <1>9, <1>10, <2>2, <3>1 DEF Found
  <2>. QED
    BY <2>1, <2>2
<1>12. Trail(Tail(q) \o Below(f, R, k), f, R, m, k)
  <2>1. CASE 2 * k \in R
    <3>1. 2 * k + 1 \in R
      BY <1>6, <2>1 DEF Rooted
    <3>2. PICK x, y : x = f[2 * k] /\ y = f[2 * k + 1]
      OBVIOUS
    <3>3. x \in X /\ y \in X
      BY <2>1, <3>1, <3>2
    <3>4. <<x, y>> \in Seq(X)
      BY <3>3, TwoSeq
    <3>5. Popped(X, q, <<x, y>>, Tail(q) \o <<x, y>>)
      BY <3>4, PoppedSeq
    <3>6. Trail(Tail(q) \o <<x, y>>, f, R, m, k)
      BY <1>1, <1>2, <1>3, <1>4, <2>1, <3>2, <3>5, TrailPush
    <3>. QED
      BY <2>1, <3>2, <3>6 DEF Below
  <2>2. CASE 2 * k \notin R
    <3>1. <<>> \in Seq(X)
      BY EmptySeq
    <3>2. Popped(X, q, <<>>, Tail(q) \o <<>>)
      BY <3>1, PoppedSeq
    <3>3. Trail(Tail(q) \o <<>>, f, R, m, k)
      BY <1>1, <1>2, <1>3, <1>4, <2>2, <3>2, TrailPop
    <3>. QED
      BY <2>2, <3>3 DEF Below
  <2>. QED
    BY <2>1, <2>2
<1>13. k \in Nat /\ k + 1 >= m
  <2>1. m \in Nat
    BY DEF Rooted
  <2>. QED
    BY <1>6, <2>1
<1>14. GoingOn(Tail(q) \o Below(f, R, k), a \o Found(h, F, k), f, h, R, m, F)
  BY <1>11, <1>12, <1>13 DEF GoingOn
<1>15. ASSUME a = <<>>, NEW j \in F PROVE k <= j
  <2>1. Len(a) = 0
    BY <1>15
  <2>2. G = {}
    BY <1>9, <2>1, ListsNone
  <2>3. j \in R /\ ~(j <= c) /\ j \in Nat
    BY <1>7, <1>8, <2>2
  <2>. QED
    BY <1>6, <2>3
<1>. QED
  BY <1>4, <1>5, <1>6, <1>14, <1>15

-----------------------------------------------------------------------------
(***************************************************************************)
(* The places above a place                                                *)
(***************************************************************************)

\* The level of a place.
LEMMA LevelOf ==
  ASSUME NEW k \in Nat \ {0}
  PROVE  Level(k) \in 0..k /\ Pow[Level(k)] <= k /\ k < Pow[Level(k) + 1]
<1>1. \E l \in 0..k : Pow[l] <= k /\ k < Pow[l + 1]
  BY LogExists
<1>. QED
  BY <1>1, Zenon DEF Level, Log2

\* The ancestors of a place are what it is after any number of halvings.
LEMMA AboveBy ==
  ASSUME NEW k \in Nat \ {0}, NEW j
  PROVE  Above(j, k) <=> j # 0 /\ \E l \in Nat : j = k \div Pow[l]
<1>1. PICK v : v = Level(k)
  OBVIOUS
<1>2. v \in Nat /\ Pow[v] <= k /\ k < Pow[v + 1]
  BY <1>1, LevelOf
<1>3. ASSUME NEW l \in 0..v, j = k \div Pow[l] PROVE j # 0
  <2>1. l \in Nat /\ l <= v
    BY <1>2
  <2>2. Pow[l] <= Pow[v] /\ Pow[l] \in Nat \ {0} /\ Pow[v] \in Nat
    BY <1>2, <2>1, PowMono, PowIs
  <2>3. PICK p : p = Pow[l]
    OBVIOUS
  <2>4. p <= k /\ p \in Nat \ {0} /\ j = k \div p
    BY <1>2, <1>3, <2>2, <2>3
  <2>. QED
    BY <2>4
<1>4. ASSUME NEW l \in Nat, j = k \div Pow[l], j # 0 PROVE l \in 0..v
  <2>1. SUFFICES ASSUME v + 1 <= l PROVE FALSE
    BY <1>2
  <2>2. Pow[v + 1] <= Pow[l] /\ Pow[l] \in Nat \ {0} /\ Pow[v + 1] \in Nat
    BY <1>2, <2>1, PowMono, PowIs
  <2>3. PICK p : p = Pow[l]
    OBVIOUS
  <2>4. k < p /\ p \in Nat \ {0} /\ j = k \div p
    BY <1>2, <1>4, <2>2, <2>3
  <2>. QED
    BY <1>4, <2>4
<1>5. Above(j, k) <=> \E l \in 0..v : j = k \div Pow[l]
  BY <1>1 DEF Above
<1>. QED
  BY <1>2, <1>3, <1>4, <1>5

\* The ancestors of a place: itself and those of the place above it.
LEMMA AboveIs ==
  ASSUME NEW k \in Nat \ {0}, NEW j
  PROVE  /\ Above(j, k) <=> j = k \/ (k # 1 /\ Above(j, k \div 2))
         /\ Above(j, k) => j \in Nat \ {0} /\ j <= k
<1>1. PICK p : p = k \div 2
  OBVIOUS
<1>2. p \in Nat /\ p < k /\ (k # 1 <=> p # 0)
  BY <1>1, HalfIs
<1>3. Pow[0] = 1 /\ k \div 1 = k
  BY PowIs
<1>4. ASSUME NEW l \in Nat PROVE k \div Pow[l + 1] = p \div Pow[l]
  <2>1. PICK w : w = Pow[l]
    OBVIOUS
  <2>2. w \in Nat \ {0} /\ Pow[l + 1] = 2 * w
    BY <2>1, PowIs
  <2>3. (k \div 2) \div w = k \div (2 * w)
    BY <2>2
  <2>. QED
    BY <1>1, <2>1, <2>2, <2>3
<1>5. (\E l \in Nat : j = k \div Pow[l]) <=> j = k \/ \E l \in Nat : j = p \div Pow[l]
  <2>1. ASSUME NEW l \in Nat, j = k \div Pow[l], j # k PROVE \E i \in Nat : j = p \div Pow[i]
    <3>1. l # 0
      BY <1>3, <2>1
    <3>2. l - 1 \in Nat /\ (l - 1) + 1 = l
      BY <3>1
    <3>3. j = p \div Pow[l - 1]
      BY <1>4, <2>1, <3>2
    <3>. QED
      BY <3>2, <3>3
  <2>2. ASSUME j = k PROVE \E l \in Nat : j = k \div Pow[l]
    <3>1. j = k \div Pow[0] /\ 0 \in Nat
      BY <1>3, <2>2
    <3>. QED
      BY <3>1
  <2>3. ASSUME NEW l \in Nat, j = p \div Pow[l] PROVE \E i \in Nat : j = k \div Pow[i]
    <3>1. j = k \div Pow[l + 1] /\ l + 1 \in Nat
      BY <1>4, <2>3
    <3>. QED
      BY <3>1
  <2>. QED
    BY <2>1, <2>2, <2>3
<1>6. Above(j, k) <=> j # 0 /\ (j = k \/ \E l \in Nat : j = p \div Pow[l])
  BY <1>5, AboveBy
<1>7. CASE k = 1
  <2>1. ASSUME NEW l \in Nat, j = p \div Pow[l] PROVE j = 0
    <3>1. PICK w : w = Pow[l]
      OBVIOUS
    <3>2. w \in Nat \ {0} /\ p = 0 /\ j = p \div w
      BY <1>2, <1>7, <2>1, <3>1, PowIs
    <3>. QED
      BY <3>2
  <2>. QED
    BY <1>6, <1>7, <2>1
<1>8. CASE k # 1
  <2>1. p \in Nat \ {0}
    BY <1>2, <1>8
  <2>2. Above(j, p) <=> j # 0 /\ \E l \in Nat : j = p \div Pow[l]
    BY <2>1, AboveBy
  <2>3. Above(j, k) <=> j = k \/ Above(j, p)
    BY <1>6, <2>2
  <2>4. ASSUME NEW l \in Nat, j = k \div Pow[l] PROVE j \in Nat /\ j <= k
    <3>1. PICK w : w = Pow[l]
      OBVIOUS
    <3>2. w \in Nat \ {0} /\ j = k \div w
      BY <2>4, <3>1, PowIs
    <3>. QED
      BY <3>2
  <2>5. Above(j, k) => j \in Nat \ {0} /\ j <= k
    BY <2>4, AboveBy
  <2>. QED
    BY <1>1, <1>8, <2>3, <2>5
<1>. QED
  BY <1>7, <1>8

\* The ancestors of the places below k are those of k and the place itself.
LEMMA AboveBelow ==
  ASSUME NEW k \in Nat \ {0}, NEW j
  PROVE  /\ Above(j, 2 * k) <=> j = 2 * k \/ Above(j, k)
         /\ Above(j, 2 * k + 1) <=> j = 2 * k + 1 \/ Above(j, k)
<1>1. /\ 2 * k \in Nat \ {0} /\ 2 * k # 1 /\ (2 * k) \div 2 = k
      /\ 2 * k + 1 \in Nat \ {0} /\ 2 * k + 1 # 1 /\ (2 * k + 1) \div 2 = k
  OBVIOUS
<1>. QED
  BY <1>1, AboveIs

\* Ancestors of ancestors are ancestors.
LEMMA AboveAbove ==
  ASSUME NEW i, NEW j, NEW k \in Nat \ {0}, Above(i, j), Above(j, k)
  PROVE  Above(i, k)
<1>. DEFINE S == {n \in Nat : \A x \in Nat \ {0} : x <= n /\ Above(j, x) => Above(i, x)}
<1>1. 0 \in S
  OBVIOUS
<1>2. ASSUME NEW n \in S PROVE n + 1 \in S
  <2>1. n \in Nat /\ \A x \in Nat \ {0} : x <= n /\ Above(j, x) => Above(i, x)
    OBVIOUS
  <2>2. ASSUME NEW x \in Nat \ {0}, x <= n + 1, Above(j, x) PROVE Above(i, x)
    <3>1. j = x \/ (x # 1 /\ Above(j, x \div 2))
      BY <2>2, AboveIs
    <3>2. ASSUME x # 1, Above(j, x \div 2) PROVE Above(i, x)
      <4>1. x \div 2 \in Nat \ {0} /\ x \div 2 <= n
        BY <2>1, <2>2, <3>2, HalfIs
      <4>2. Above(i, x \div 2)
        BY <2>1, <3>2, <4>1
      <4>. QED
        BY <3>2, <4>2, AboveIs
    <3>. QED
      BY <3>1, <3>2
  <2>3. n + 1 \in Nat
    BY <2>1
  <2>. QED
    BY <2>2, <2>3
<1>3. S = Nat
  <2>. HIDE DEF S
  <2>1. S \subseteq Nat
    BY DEF S
  <2>. QED
    BY <1>1, <1>2, <2>1, Induction
<1>4. k \in S
  <2>. HIDE DEF S
  <2>. QED
    BY <1>3
<1>. QED
  BY <1>4

\* Two ancestors of one place: one is above the other.
LEMMA AboveLine ==
  ASSUME NEW i, NEW j, NEW k \in Nat \ {0}, Above(i, k), Above(j, k)
  PROVE  Above(i, j) \/ Above(j, i)
<1>. DEFINE S == {n \in Nat : \A x \in Nat \ {0} :
                    x <= n /\ Above(i, x) /\ Above(j, x) => Above(i, j) \/ Above(j, i)}
<1>1. 0 \in S
  OBVIOUS
<1>2. ASSUME NEW n \in S PROVE n + 1 \in S
  <2>1. n \in Nat /\ \A x \in Nat \ {0} :
          x <= n /\ Above(i, x) /\ Above(j, x) => Above(i, j) \/ Above(j, i)
    OBVIOUS
  <2>2. ASSUME NEW x \in Nat \ {0}, x <= n + 1, Above(i, x), Above(j, x)
        PROVE  Above(i, j) \/ Above(j, i)
    <3>1. CASE i = x \/ j = x
      BY <2>2, <3>1
    <3>2. CASE i # x /\ j # x
      <4>1. x # 1 /\ Above(i, x \div 2) /\ Above(j, x \div 2)
        BY <2>2, <3>2, AboveIs
      <4>2. x \div 2 \in Nat \ {0} /\ x \div 2 <= n
        BY <2>1, <2>2, <4>1, HalfIs
      <4>. QED
        BY <2>1, <4>1, <4>2
    <3>. QED
      BY <3>1, <3>2
  <2>3. n + 1 \in Nat
    BY <2>1
  <2>. QED
    BY <2>2, <2>3
<1>3. S = Nat
  <2>. HIDE DEF S
  <2>1. S \subseteq Nat
    BY DEF S
  <2>. QED
    BY <1>1, <1>2, <2>1, Induction
<1>4. k \in S
  <2>. HIDE DEF S
  <2>. QED
    BY <1>3
<1>. QED
  BY <1>4

-----------------------------------------------------------------------------
(***************************************************************************)
(* The places that the queries visit                                       *)
(***************************************************************************)

\* The places that are inside no complete branch, those of the subtree of m,
\* and the leaves whose hashes match.
Uncovered == {k \in Places : \A j \in Places \ {k} : Above(j, k) => ~Match(j)}
BelowPlace(m) == {k \in Places : Above(m, k)}
MatchingLeaves == {k \in LeafPlaces : Match(k)}

\* The places are the numbers of a perfect tree.
LEMMA PlaceNumbers ==
  ASSUME PackageInv
  PROVE  \E w \in Nat \ {0} : w = Pow[depth - 1] /\ Places = 1..((2 * w) - 1)
BY MerkleIs

\* Sets of places are finite sets of numbers.
LEMMA SomePlaces ==
  ASSUME PackageInv, NEW F, F \subseteq Places
  PROVE  IsFiniteSet(F) /\ F \in SUBSET Nat
<1>1. PICK w \in Nat \ {0} : Places = 1..((2 * w) - 1)
  BY PlaceNumbers
<1>2. IsFiniteSet(Places) /\ Places \subseteq Nat
  BY <1>1, FS_Interval
<1>. QED
  BY <1>2, FS_Subset

\* The whole tree, what is below a place, and what a traversal that does not
\* go below complete branches visits are trees.
LEMMA RootedPlaces ==
  ASSUME PackageInv
  PROVE  Rooted(Places, 1)
<1>1. PICK w \in Nat \ {0} : Places = 1..((2 * w) - 1)
  BY PlaceNumbers
<1>2. Places \subseteq Nat \ {0} /\ 1 \in Places
  BY <1>1
<1>3. ASSUME NEW k \in Places, k # 1 PROVE k > 1 /\ k \div 2 \in Places
  BY <1>1, <1>3
<1>4. ASSUME NEW k \in Places PROVE 2 * k \in Places <=> 2 * k + 1 \in Places
  BY <1>1
<1>. QED
  BY <1>2, <1>3, <1>4 DEF Rooted

\* What is below the place m is a tree.
LEMMA RootedBelow ==
  ASSUME PackageInv, NEW m \in Places
  PROVE  /\ Rooted(BelowPlace(m), m) /\ BelowPlace(m) \subseteq Places
         /\ \A k \in BelowPlace(m) : 2 * k \in BelowPlace(m) <=> 2 * k \in Places
<1>1. /\ Places \subseteq Nat \ {0} /\ \A k \in Places : k # 1 => k \div 2 \in Places
      /\ \A k \in Places : 2 * k \in Places <=> 2 * k + 1 \in Places
  BY RootedPlaces DEF Rooted
<1>2. BelowPlace(m) \subseteq Places /\ m \in BelowPlace(m)
  BY <1>1, AboveIs DEF BelowPlace
<1>3. ASSUME NEW k \in BelowPlace(m), k # m PROVE k > m /\ k \div 2 \in BelowPlace(m)
  <2>1. k \in Places /\ k \in Nat \ {0} /\ Above(m, k)
    BY <1>1 DEF BelowPlace
  <2>2. k # 1 /\ Above(m, k \div 2) /\ m <= k /\ m \in Nat
    BY <1>3, <2>1, AboveIs
  <2>3. k \div 2 \in Places
    BY <1>1, <2>1, <2>2
  <2>. QED
    BY <1>3, <2>1, <2>2, <2>3 DEF BelowPlace
<1>4. ASSUME NEW k \in BelowPlace(m)
      PROVE  /\ 2 * k \in BelowPlace(m) <=> 2 * k \in Places
             /\ 2 * k + 1 \in BelowPlace(m) <=> 2 * k + 1 \in Places
             /\ 2 * k \in Places <=> 2 * k + 1 \in Places
  <2>1. k \in Places /\ k \in Nat \ {0} /\ Above(m, k)
    BY <1>1 DEF BelowPlace
  <2>2. Above(m, 2 * k) /\ Above(m, 2 * k + 1)
    BY <2>1, AboveBelow
  <2>. QED
    BY <1>1, <2>1, <2>2 DEF BelowPlace
<1>5. Rooted(BelowPlace(m), m)
  <2>1. BelowPlace(m) \subseteq Nat \ {0}
    BY <1>1, <1>2
  <2>2. \A k \in BelowPlace(m) : 2 * k \in BelowPlace(m) <=> 2 * k + 1 \in BelowPlace(m)
    BY <1>4
  <2>. QED
    BY <1>2, <1>3, <2>1, <2>2 DEF Rooted
<1>. QED
  BY <1>2, <1>4, <1>5

\* What is inside no complete branch is a tree.
LEMMA RootedUncovered ==
  ASSUME PackageInv
  PROVE  /\ Rooted(Uncovered, 1) /\ Uncovered \subseteq Places
         /\ \A k \in Uncovered : 2 * k \in Uncovered <=> 2 * k \in Places /\ ~Match(k)
<1>1. /\ Places \subseteq Nat \ {0} /\ 1 \in Places
      /\ \A k \in Places : k # 1 => k > 1 /\ k \div 2 \in Places
      /\ \A k \in Places : 2 * k \in Places <=> 2 * k + 1 \in Places
  BY RootedPlaces DEF Rooted
<1>2. Uncovered \subseteq Places
  BY DEF Uncovered
<1>3. 1 \in Uncovered
  <2>1. \A j \in Places \ {1} : ~Above(j, 1)
    <3>1. 1 \in Nat \ {0}
      OBVIOUS
    <3>. QED
      BY <3>1, AboveIs
  <2>. QED
    BY <1>1, <2>1 DEF Uncovered
<1>4. ASSUME NEW k \in Uncovered, k # 1 PROVE k > 1 /\ k \div 2 \in Uncovered
  <2>1. k \in Places /\ k \in Nat \ {0} /\ k > 1
    BY <1>1, <1>2, <1>4
  <2>2. PICK p : p = k \div 2
    OBVIOUS
  <2>3. p \in Places /\ p \in Nat \ {0} /\ p < k
    BY <1>1, <1>4, <2>1, <2>2, HalfIs
  <2>4. ASSUME NEW j \in Places \ {p}, Above(j, p) PROVE ~Match(j)
    <3>1. Above(j, k) /\ j <= p /\ j \in Nat
      BY <1>4, <2>1, <2>2, <2>3, <2>4, AboveIs
    <3>2. j # k
      BY <2>1, <2>3, <3>1
    <3>. QED
      BY <3>1, <3>2 DEF Uncovered
  <2>5. p \in Uncovered
    BY <2>3, <2>4 DEF Uncovered
  <2>. QED
    BY <2>1, <2>2, <2>5
<1>5. ASSUME NEW k \in Uncovered, NEW x \in {2 * k, 2 * k + 1}
      PROVE  x \in Uncovered <=> x \in Places /\ ~Match(k)
  <2>1. k \in Places /\ k \in Nat \ {0} /\ x \in Nat /\ x > k
    BY <1>1, <1>2
  <2>2. \A j : Above(j, x) <=> j = x \/ Above(j, k)
    <3>1. /\ \A j : Above(j, 2 * k) <=> j = 2 * k \/ Above(j, k)
          /\ \A j : Above(j, 2 * k + 1) <=> j = 2 * k + 1 \/ Above(j, k)
      BY <2>1, AboveBelow
    <3>2. CASE x = 2 * k
      BY <3>1, <3>2, Zenon
    <3>3. CASE x = 2 * k + 1
      BY <3>1, <3>3, Zenon
    <3>. QED
      BY <3>2, <3>3
  <2>3. Above(k, x) /\ k # x
    BY <2>1, <2>2, AboveIs
  <2>4. ASSUME x \in Uncovered PROVE x \in Places /\ ~Match(k)
    BY <2>1, <2>3, <2>4 DEF Uncovered
  <2>5. ASSUME x \in Places, ~Match(k) PROVE x \in Uncovered
    <3>1. ASSUME NEW j \in Places \ {x}, Above(j, x) PROVE ~Match(j)
      <4>1. Above(j, k)
        BY <2>2, <3>1
      <4>. QED
        BY <2>5, <4>1 DEF Uncovered
    <3>. QED
      BY <2>5, <3>1 DEF Uncovered
  <2>. QED
    BY <2>4, <2>5
<1>6. \A k \in Uncovered : /\ 2 * k \in Uncovered <=> 2 * k \in Places /\ ~Match(k)
                           /\ 2 * k + 1 \in Uncovered <=> 2 * k + 1 \in Places /\ ~Match(k)
  BY <1>5
<1>7. Rooted(Uncovered, 1)
  <2>1. Uncovered \subseteq Nat \ {0}
    BY <1>1, <1>2
  <2>2. \A k \in Uncovered : 2 * k \in Uncovered <=> 2 * k + 1 \in Uncovered
    BY <1>1, <1>2, <1>6
  <2>. QED
    BY <1>3, <1>4, <2>1, <2>2 DEF Rooted
<1>. QED
  BY <1>2, <1>6, <1>7

\* The complete branches inside no larger one.
LEMMA TopMatchesAre ==
  ASSUME TRUE
  PROVE  TopMatches = {k \in Uncovered : Match(k)}
BY DEF TopMatches, Uncovered

\* What a node holds and where it points, by its place.
LEMMA PlaceIs ==
  ASSUME BuildInv, ExactInv, Finished, NEW k \in Places
  PROVE  /\ NodeAt[k] \in 1..Len(tree)
         /\ tree[NodeAt[k]].computed = MerkleHash[k]
         /\ tree[NodeAt[k]].expected = ExpectedAt(k) /\ Expected[k] = ExpectedAt(k)
         /\ 2 * k \in Places => /\ ~tree[NodeAt[k]].is_leaf /\ k \notin LeafPlaces
                                /\ Left(NodeAt[k]) = NodeAt[2 * k]
                                /\ Right(NodeAt[k]) = NodeAt[2 * k + 1]
         /\ 2 * k \notin Places => tree[NodeAt[k]].is_leaf /\ k \in LeafPlaces
<1>1. PICK pl : Placed(pl) /\ MerkleAt(pl) /\ Ordered(pl)
  BY DEF ExactInv
<1>2. LabelledTo(pl, Pow[depth] - 1)
  BY <1>1 DEF Ordered, Finished
<1>3. PackageInv
  BY DEF BuildInv
<1>4. PICK w \in Nat \ {0} : w = Pow[depth - 1] /\ Places = 1..((2 * w) - 1)
  BY <1>3, PlaceNumbers
<1>5. k \in Nat \ {0} /\ (2 * k \in Places <=> k < w) /\ (k < w => 2 * k + 1 \in Places)
  BY <1>4
<1>6. /\ NodeAt[k] \in 1..Len(tree)
      /\ tree[NodeAt[k]].computed = MerkleHash[k]
      /\ tree[NodeAt[k]].expected = ExpectedAt(k)
      /\ k < w => ~tree[NodeAt[k]].is_leaf
      /\ k >= w => tree[NodeAt[k]].is_leaf
  BY <1>1, <1>2, <1>4, FinishedPlace
<1>7. Expected[k] = ExpectedAt(k)
  BY <1>6 DEF Expected, At
<1>8. k \in LeafPlaces <=> k >= w
  BY <1>4 DEF LeafPlaces
<1>9. ASSUME 2 * k \in Places
      PROVE  Left(NodeAt[k]) = NodeAt[2 * k] /\ Right(NodeAt[k]) = NodeAt[2 * k + 1]
  <2>1. /\ 2 * k # 1 /\ (2 * k) % 2 = 0 /\ (2 * k) \div 2 = k
        /\ 2 * k + 1 # 1 /\ (2 * k + 1) % 2 # 0 /\ (2 * k + 1) \div 2 = k
    BY <1>5
  <2>2. NodeAt[2 * k] = NodeRow(NodeAt, 2 * k) /\ NodeAt[2 * k + 1] = NodeRow(NodeAt, 2 * k + 1)
    BY <1>3, <1>5, <1>9, NodeAtIs
  <2>. QED
    BY <2>1, <2>2 DEF NodeRow
<1>. QED
  BY <1>5, <1>6, <1>7, <1>8, <1>9

-----------------------------------------------------------------------------
(***************************************************************************)
(* What the queries have found                                             *)
(***************************************************************************)

\* A traversal of the places R below m is under way that reports those in F.
Going(R, m, F) == GoingOn(queue, qry, NodeAt, Expected, R, m, F)

\* m is the first place whose expected hash is the one asked for.
Named == {k \in Places : At(k).expected = target}
First(m) == m \in Named /\ \A j \in Named : m <= j

\* How far each query is ...
AskedInv ==
  /\ query = "chunk_check" => Going(Places, 1, MatchingLeaves)
  /\ query = "min_hashes" => Going(Uncovered, 1, TopMatches)
  /\ query = "find" => qry = <<>> /\ Going(Places, 1, Named)
  /\ query = "hashes_of" =>
       \E m : First(m) /\ Going(BelowPlace(m), m, LeafPlaces \cap BelowPlace(m))

\* ... and what it has found in the end.
AnswerInv ==
  /\ phase = "query" => AskedInv
  /\ phase = "answered" =>
       /\ query = "all_hashes" => qry = hashes \o chunks
       /\ query = "chunk_check" => Lists(qry, MatchingLeaves, Expected)
       /\ query = "min_hashes" => Lists(qry, TopMatches, Expected)
       /\ query = "find" => qry = <<>> /\ Named = {}
       /\ query = "hashes_of" =>
            \E m : First(m) /\ Lists(qry, LeafPlaces \cap BelowPlace(m), Expected)

\* A query leaves what the answers are made of as it is.
LEMMA SameAnswers ==
  ASSUME UNCHANGED treeVars
  PROVE  /\ NodeAt' = NodeAt /\ Places' = Places /\ Expected' = Expected
         /\ LeafPlaces' = LeafPlaces /\ MatchingLeaves' = MatchingLeaves
         /\ Uncovered' = Uncovered /\ TopMatches' = TopMatches
         /\ \A m : BelowPlace(m)' = BelowPlace(m)
         /\ target' = target => Named' = Named /\ \A m : First(m)' <=> First(m)
<1>1. tree' = tree /\ UNCHANGED package
  BY DEF treeVars, build
<1>2. Places' = Places /\ depth' = depth
  BY <1>1, MerkleKept
<1>3. NodeAt' = NodeAt
  BY <1>1, <1>2 DEF NodeAt
<1>4. \A k : At(k)' = At(k)
  BY <1>1, <1>3 DEF At
<1>5. \A k : Match(k)' <=> Match(k)
  BY <1>4 DEF Match
<1>6. Expected' = Expected /\ (target' = target => Named' = Named)
  BY <1>2, <1>4 DEF Expected, Named
<1>7. LeafPlaces' = LeafPlaces
  BY <1>2 DEF LeafPlaces
<1>8. MatchingLeaves' = MatchingLeaves
  BY <1>5, <1>7 DEF MatchingLeaves
<1>9. \A j, k : Above(j, k)' <=> Above(j, k)
  BY DEF Above
<1>10. Uncovered' = Uncovered /\ \A m : BelowPlace(m)' = BelowPlace(m)
  BY <1>2, <1>5, <1>9 DEF Uncovered, BelowPlace
<1>11. TopMatches' = TopMatches
  BY <1>2, <1>5, <1>9 DEF TopMatches
<1>12. target' = target => \A m : First(m)' <=> First(m)
  BY <1>6 DEF First
<1>. QED
  BY <1>2, <1>3, <1>6, <1>7, <1>8, <1>10, <1>11, <1>12

\* What a query meets when it visits place k.
Visits(R, m, F, k) ==
  /\ k \in R /\ k \in Places
  /\ qry = <<>> => \A j \in F : k <= j
  /\ Head(queue) = NodeAt[k] /\ node = At(k) /\ node.expected = Expected[k]
  /\ matches <=> Match(k)
  /\ node.is_leaf <=> k \in LeafPlaces
  /\ 2 * k \in Places <=> ~node.is_leaf
  /\ ~node.is_leaf => <<node.left, node.right>> = <<NodeAt[2 * k], NodeAt[2 * k + 1]>>
  /\ Children(Head(queue)) = Below(NodeAt, Places, k)
  /\ GoingOn(Tail(queue) \o Below(NodeAt, R, k), qry \o Found(Expected, F, k),
             NodeAt, Expected, R, m, F)

\* A step of a query is a step of its traversal.
LEMMA VisitGoes ==
  ASSUME AllInv, ExactInv, phase = "query", queue # <<>>,
         NEW R, NEW m, Rooted(R, m), R \subseteq Places, NEW F, F \subseteq R, Going(R, m, F)
  PROVE  \E k : Visits(R, m, F, k)
<1>0. BuildInv /\ PackageInv /\ ShapeInv /\ Finished
  BY DEF AllInv, BuildInv, Finished
<1>1. PICK X, Y, f, h, q, a : /\ X = 1..Len(tree) /\ Y = PackageHashes /\ f = NodeAt
                              /\ h = Expected /\ q = queue /\ a = qry
  OBVIOUS
<1>2. q \in Seq(X) /\ q # <<>> /\ a \in Seq(Y)
  BY <1>1 DEF AllInv, QueryInv
<1>3. \A k \in R : f[k] \in X /\ h[k] \in Y
  <2>1. ASSUME NEW k \in Places PROVE f[k] \in X /\ h[k] \in Y
    <3>1. NodeAt[k] \in 1..Len(tree) /\ tree[NodeAt[k]].expected = ExpectedAt(k)
          /\ Expected[k] = ExpectedAt(k)
      BY <1>0, PlaceIs
    <3>2. tree[NodeAt[k]].expected \in PackageHashes
      BY <3>1 DEF AllInv, ExpectInv
    <3>. QED
      BY <1>1, <3>1, <3>2
  <2>. QED
    BY <2>1
<1>4. IsFiniteSet(F)
  <2>1. F \subseteq Places
    OBVIOUS
  <2>. QED
    BY <1>0, <2>1, SomePlaces
<1>5. GoingOn(q, a, f, h, R, m, F)
  BY <1>1 DEF Going
<1>6. \E k \in R : /\ Head(q) = f[k]
                   /\ a = <<>> => \A j \in F : k <= j
                   /\ GoingOn(Tail(q) \o Below(f, R, k), a \o Found(h, F, k), f, h, R, m, F)
  <2>1. (\A k \in R : f[k] \in X) /\ (\A k \in R : h[k] \in Y)
    BY <1>3
  <2>. QED
    BY ONLY <1>2, <1>4, <1>5, <2>1, Rooted(R, m), F \subseteq R, GoingStep
<1>7. PICK k \in R : /\ Head(q) = f[k]
                     /\ a = <<>> => \A j \in F : k <= j
                     /\ GoingOn(Tail(q) \o Below(f, R, k), a \o Found(h, F, k), f, h, R, m, F)
  BY <1>6
<1>8. k \in Places
  OBVIOUS
<1>9. /\ NodeAt[k] \in 1..Len(tree)
      /\ tree[NodeAt[k]].expected = ExpectedAt(k) /\ Expected[k] = ExpectedAt(k)
      /\ 2 * k \in Places => /\ ~tree[NodeAt[k]].is_leaf /\ k \notin LeafPlaces
                             /\ Left(NodeAt[k]) = NodeAt[2 * k]
                             /\ Right(NodeAt[k]) = NodeAt[2 * k + 1]
      /\ 2 * k \notin Places => tree[NodeAt[k]].is_leaf /\ k \in LeafPlaces
  BY <1>0, <1>8, PlaceIs
<1>10. Head(queue) = NodeAt[k]
  BY <1>1, <1>7
<1>11. node = At(k) /\ node = tree[NodeAt[k]]
  BY <1>10 DEF node, At
<1>12. matches <=> Match(k)
  BY <1>11 DEF matches, Match
<1>13. ~node.is_leaf => <<node.left, node.right>> = <<NodeAt[2 * k], NodeAt[2 * k + 1]>>
  BY <1>9, <1>11 DEF Left, Right
<1>14. node.is_leaf <=> Left(NodeAt[k]) = NULL
  BY <1>10, HeadIs
<1>15. Children(Head(queue)) = Below(NodeAt, Places, k)
  <2>1. PICK n : n = NodeAt[k]
    OBVIOUS
  <2>2. /\ Left(n) = NULL => Children(n) = <<>>
        /\ Left(n) # NULL => Children(n) = <<Left(n), Right(n)>>
    BY <1>0, <1>9, <2>1, ChildrenSeq
  <2>3. CASE 2 * k \in Places
    <3>1. Left(n) # NULL
      BY <1>9, <1>11, <1>14, <2>1, <2>3
    <3>2. Children(n) = <<NodeAt[2 * k], NodeAt[2 * k + 1]>>
      BY <1>9, <2>1, <2>2, <2>3, <3>1
    <3>. QED
      BY <1>10, <2>1, <2>3, <3>2 DEF Below
  <2>4. CASE 2 * k \notin Places
    <3>1. Left(n) = NULL
      BY <1>9, <1>11, <1>14, <2>1, <2>4
    <3>. QED
      BY <1>10, <2>1, <2>2, <2>4, <3>1 DEF Below
  <2>. QED
    BY <2>3, <2>4
<1>16. GoingOn(Tail(queue) \o Below(NodeAt, R, k), qry \o Found(Expected, F, k),
               NodeAt, Expected, R, m, F)
  BY <1>1, <1>7
<1>17. qry = <<>> => \A j \in F : k <= j
  BY <1>1, <1>7
<1>18. (node.is_leaf <=> k \in LeafPlaces) /\ (2 * k \in Places <=> ~node.is_leaf)
  BY <1>9, <1>11
<1>19. node.expected = Expected[k]
  BY <1>9, <1>11
<1>20. Visits(R, m, F, k)
  BY <1>8, <1>10, <1>11, <1>12, <1>13, <1>15, <1>16, <1>17, <1>18, <1>19 DEF Visits
<1>. QED
  BY <1>20

\* The step that such a visit is keeps the traversal going.
LEMMA GoingNext ==
  ASSUME UNCHANGED treeVars, NEW R, NEW m, NEW F, NEW k, Visits(R, m, F, k),
         queue' = Tail(queue) \o Below(NodeAt, R, k), qry' = qry \o Found(Expected, F, k)
  PROVE  Going(R, m, F)'
<1>1. NodeAt' = NodeAt /\ Expected' = Expected
  BY SameAnswers
<1>2. PICK q, a : q = Tail(queue) \o Below(NodeAt, R, k) /\ a = qry \o Found(Expected, F, k)
  OBVIOUS
<1>3. GoingOn(q, a, NodeAt, Expected, R, m, F)
  BY <1>2 DEF Visits
<1>4. queue' = q /\ qry' = a
  BY <1>2
<1>. QED
  BY <1>1, <1>3, <1>4 DEF Going, GoingOn

-----------------------------------------------------------------------------
(***************************************************************************)
(* The steps of the queries                                                *)
(***************************************************************************)

\* Any step of a query with the places R and the places F to report.
Stepped(R, m, F, found, push) ==
  \A k : Visits(R, m, F, k) => found = Found(Expected, F, k) /\ push = Below(NodeAt, R, k)

\* It leaves the traversal under way.
LEMMA VisitAnswers ==
  ASSUME AllInv, ExactInv, NEW Q, NEW R, NEW m, Rooted(R, m), R \subseteq Places,
         NEW F, F \subseteq R, Going(R, m, F), NEW found, NEW push, Visit(Q, found, push),
         Stepped(R, m, F, found, push)
  PROVE  Going(R, m, F)'
<1>1. /\ phase = "query" /\ queue # <<>> /\ qry' = qry \o found /\ queue' = Tail(queue) \o push
      /\ UNCHANGED treeVars
  BY DEF Visit
<1>2. PICK k : Visits(R, m, F, k)
  BY <1>1, VisitGoes
<1>3. found = Found(Expected, F, k) /\ push = Below(NodeAt, R, k)
  BY <1>2 DEF Stepped
<1>. QED
  BY <1>1, <1>2, <1>3, GoingNext

\* bpkg_get_completed_chunks
LEMMA CompletedAnswers ==
  ASSUME AllInv, ExactInv, AnswerInv, CompletedStep
  PROVE  AnswerInv'
<1>1. PICK R, F, f, p : /\ R = Places /\ F = MatchingLeaves
                        /\ f = IF node.is_leaf /\ matches THEN <<node.expected>> ELSE <<>>
                        /\ p = Children(Head(queue))
  OBVIOUS
<1>2. Visit("chunk_check", f, p)
  BY <1>1 DEF CompletedStep
<1>3. phase = "query" /\ query = "chunk_check" /\ phase' = "query" /\ query' = "chunk_check"
        /\ UNCHANGED treeVars
  BY <1>2 DEF Visit
<1>4. Going(R, 1, F)
  BY <1>1, <1>3 DEF AnswerInv, AskedInv
<1>5. Rooted(R, 1)
  BY <1>1, RootedPlaces DEF AllInv, BuildInv
<1>6. F \subseteq R /\ R \subseteq Places
  BY <1>1 DEF MatchingLeaves, LeafPlaces
<1>7. Stepped(R, 1, F, f, p)
  <2>. SUFFICES ASSUME NEW k, Visits(R, 1, F, k)
                PROVE  f = Found(Expected, F, k) /\ p = Below(NodeAt, R, k)
    BY DEF Stepped
  <2>1. /\ (matches <=> Match(k)) /\ (node.is_leaf <=> k \in LeafPlaces)
        /\ node.expected = Expected[k] /\ Children(Head(queue)) = Below(NodeAt, Places, k)
    BY DEF Visits
  <2>2. k \in F <=> node.is_leaf /\ matches
    BY <1>1, <2>1 DEF MatchingLeaves
  <2>. QED
    BY <1>1, <2>1, <2>2 DEF Found
<1>8. Going(R, 1, F)'
  BY <1>2, <1>4, <1>5, <1>6, <1>7, VisitAnswers
<1>9. R = Places' /\ F = MatchingLeaves'
  BY <1>1, <1>3, SameAnswers
<1>. QED
  BY <1>3, <1>8, <1>9 DEF AnswerInv, AskedInv

\* bpkg_get_min_completed_hashes
LEMMA MinAnswers ==
  ASSUME AllInv, ExactInv, AnswerInv, MinStep
  PROVE  AnswerInv'
<1>1. PICK R, F, f, p : /\ R = Uncovered /\ F = TopMatches
                        /\ f = IF matches THEN <<node.expected>> ELSE <<>>
                        /\ p = IF matches \/ node.is_leaf THEN <<>> ELSE <<node.left, node.right>>
  OBVIOUS
<1>2. Visit("min_hashes", f, p)
  BY <1>1 DEF MinStep
<1>3. phase = "query" /\ query = "min_hashes" /\ phase' = "query" /\ query' = "min_hashes"
        /\ UNCHANGED treeVars
  BY <1>2 DEF Visit
<1>4. Going(R, 1, F)
  BY <1>1, <1>3 DEF AnswerInv, AskedInv
<1>5. /\ Rooted(R, 1) /\ R \subseteq Places
      /\ \A k \in R : 2 * k \in R <=> 2 * k \in Places /\ ~Match(k)
  BY <1>1, RootedUncovered DEF AllInv, BuildInv
<1>6. F \subseteq R /\ \A k \in R : k \in F <=> Match(k)
  BY <1>1, TopMatchesAre
<1>7. Stepped(R, 1, F, f, p)
  <2>. SUFFICES ASSUME NEW k, Visits(R, 1, F, k)
                PROVE  f = Found(Expected, F, k) /\ p = Below(NodeAt, R, k)
    BY DEF Stepped
  <2>1. /\ k \in R /\ (matches <=> Match(k)) /\ (2 * k \in Places <=> ~node.is_leaf)
        /\ node.expected = Expected[k]
        /\ ~node.is_leaf => <<node.left, node.right>> = <<NodeAt[2 * k], NodeAt[2 * k + 1]>>
    BY DEF Visits
  <2>2. (k \in F <=> matches) /\ (2 * k \in R <=> ~matches /\ ~node.is_leaf)
    BY <1>5, <1>6, <2>1
  <2>3. f = Found(Expected, F, k)
    BY <1>1, <2>1, <2>2 DEF Found
  <2>4. p = Below(NodeAt, R, k)
    BY <1>1, <2>1, <2>2 DEF Below
  <2>. QED
    BY <2>3, <2>4
<1>8. Going(R, 1, F)'
  BY <1>2, <1>4, <1>5, <1>6, <1>7, VisitAnswers
<1>9. R = Uncovered' /\ F = TopMatches'
  BY <1>1, <1>3, SameAnswers
<1>. QED
  BY <1>3, <1>8, <1>9 DEF AnswerInv, AskedInv

\* The search of bpkg_get_all_chunk_hashes_from_hash goes on ...
LEMMA FindAnswers ==
  ASSUME AllInv, ExactInv, AnswerInv, FindStep
  PROVE  AnswerInv'
<1>1. PICK R, F, f, p : /\ R = Places /\ F = Named /\ f = <<>>
                        /\ p = IF node.is_leaf THEN <<>> ELSE <<node.left, node.right>>
  OBVIOUS
<1>2. Visit("find", f, p) /\ node.expected # target
  BY <1>1 DEF FindStep
<1>3. /\ phase = "query" /\ query = "find" /\ phase' = "query" /\ query' = "find"
      /\ UNCHANGED treeVars /\ target' = target /\ qry' = qry \o f
  BY <1>2 DEF Visit
<1>4. Going(R, 1, F) /\ qry = <<>>
  BY <1>1, <1>3 DEF AnswerInv, AskedInv
<1>5. Rooted(R, 1)
  BY <1>1, RootedPlaces DEF AllInv, BuildInv
<1>6. F \subseteq R /\ R \subseteq Places
  BY <1>1 DEF Named
<1>7. Stepped(R, 1, F, f, p)
  <2>. SUFFICES ASSUME NEW k, Visits(R, 1, F, k)
                PROVE  f = Found(Expected, F, k) /\ p = Below(NodeAt, R, k)
    BY DEF Stepped
  <2>1. /\ node = At(k) /\ (2 * k \in Places <=> ~node.is_leaf)
        /\ ~node.is_leaf => <<node.left, node.right>> = <<NodeAt[2 * k], NodeAt[2 * k + 1]>>
    BY DEF Visits
  <2>2. k \notin F
    BY <1>1, <1>2, <2>1 DEF Named
  <2>3. f = Found(Expected, F, k)
    BY <1>1, <2>2 DEF Found
  <2>4. p = Below(NodeAt, R, k)
    BY <1>1, <2>1 DEF Below
  <2>. QED
    BY <2>3, <2>4
<1>8. Going(R, 1, F)'
  BY <1>2, <1>4, <1>5, <1>6, <1>7, VisitAnswers
<1>9. R = Places' /\ F = Named'
  BY <1>1, <1>3, SameAnswers
<1>10. qry' = <<>>
  <2>1. <<>> \o <<>> = <<>>
    <3>1. <<>> \in Seq(Nat)
      BY EmptySeq
    <3>. QED
      BY <3>1, ConcatEmptySeq
  <2>. QED
    BY <1>1, <1>3, <1>4, <2>1
<1>. QED
  BY <1>3, <1>8, <1>9, <1>10 DEF AnswerInv, AskedInv

\* ... stops at the first place that expects the hash ...
LEMMA FoundAnswers ==
  ASSUME AllInv, ExactInv, AnswerInv, FindMatch
  PROVE  AnswerInv'
<1>1. /\ phase = "query" /\ query = "find" /\ queue # <<>> /\ node.expected = target
      /\ query' = "hashes_of" /\ queue' = <<Head(queue)>> /\ phase' = "query"
      /\ UNCHANGED treeVars /\ target' = target /\ qry' = qry
  BY DEF FindMatch
<1>2. PICK R, F : R = Places /\ F = Named
  OBVIOUS
<1>3. Going(R, 1, F) /\ qry = <<>>
  BY <1>1, <1>2 DEF AnswerInv, AskedInv
<1>4. PackageInv
  BY DEF AllInv, BuildInv
<1>5. Rooted(R, 1)
  BY <1>2, <1>4, RootedPlaces
<1>6. F \subseteq R /\ R \subseteq Places
  BY <1>2 DEF Named
<1>7. PICK m : Visits(R, 1, F, m)
  BY <1>1, <1>3, <1>5, <1>6, VisitGoes
<1>8. m \in Places /\ node = At(m) /\ Head(queue) = NodeAt[m] /\ \A j \in F : m <= j
  BY <1>3, <1>7 DEF Visits
<1>9. First(m)
  BY <1>1, <1>2, <1>8 DEF First, Named
<1>10. PICK B, L, x, f, h : /\ B = BelowPlace(m) /\ L = LeafPlaces \cap BelowPlace(m)
                            /\ x = Head(queue) /\ f = NodeAt /\ h = Expected
  OBVIOUS
<1>11. Rooted(B, m) /\ L \subseteq B /\ x = f[m]
  BY <1>4, <1>8, <1>10, RootedBelow
<1>12. GoingOn(<<x>>, <<>>, f, h, B, m, L)
  BY <1>11, GoingStart
<1>13. NodeAt' = f /\ Expected' = h /\ BelowPlace(m)' = B /\ LeafPlaces' = LeafPlaces /\ First(m)'
  BY <1>1, <1>9, <1>10, SameAnswers
<1>14. queue' = <<x>> /\ qry' = <<>>
  BY <1>1, <1>3, <1>10
<1>15. Going(B, m, L)'
  BY <1>12, <1>13, <1>14 DEF Going, GoingOn
<1>16. L = (LeafPlaces \cap BelowPlace(m))' /\ B = BelowPlace(m)'
  BY <1>10, <1>13
<1>17. \E n : First(n)' /\ Going(BelowPlace(n), n, LeafPlaces \cap BelowPlace(n))'
  BY <1>13, <1>15, <1>16
<1>. QED
  BY <1>1, <1>17 DEF AnswerInv, AskedInv

\* ... and the leaves below it are collected.
LEMMA CollectAnswers ==
  ASSUME AllInv, ExactInv, AnswerInv, CollectStep
  PROVE  AnswerInv'
<1>1. PICK f, p : /\ f = IF node.is_leaf THEN <<node.expected>> ELSE <<>>
                  /\ p = IF node.is_leaf THEN <<>> ELSE <<node.left, node.right>>
  OBVIOUS
<1>2. Visit("hashes_of", f, p)
  BY <1>1 DEF CollectStep
<1>3. /\ phase = "query" /\ query = "hashes_of" /\ phase' = "query" /\ query' = "hashes_of"
      /\ UNCHANGED treeVars /\ target' = target
  BY <1>2 DEF Visit
<1>4. PICK m : First(m) /\ Going(BelowPlace(m), m, LeafPlaces \cap BelowPlace(m))
  BY <1>3 DEF AnswerInv, AskedInv
<1>5. PICK R, F : R = BelowPlace(m) /\ F = LeafPlaces \cap BelowPlace(m)
  OBVIOUS
<1>6. m \in Places
  BY <1>4 DEF First, Named
<1>7. /\ Rooted(R, m) /\ R \subseteq Places
      /\ \A k \in R : 2 * k \in R <=> 2 * k \in Places
  BY <1>5, <1>6, RootedBelow DEF AllInv, BuildInv
<1>8. F \subseteq R /\ \A k \in R : k \in F <=> k \in LeafPlaces
  BY <1>5
<1>9. Stepped(R, m, F, f, p)
  <2>. SUFFICES ASSUME NEW k, Visits(R, m, F, k)
                PROVE  f = Found(Expected, F, k) /\ p = Below(NodeAt, R, k)
    BY DEF Stepped
  <2>1. /\ k \in R /\ (node.is_leaf <=> k \in LeafPlaces) /\ (2 * k \in Places <=> ~node.is_leaf)
        /\ node.expected = Expected[k]
        /\ ~node.is_leaf => <<node.left, node.right>> = <<NodeAt[2 * k], NodeAt[2 * k + 1]>>
    BY DEF Visits
  <2>2. (k \in F <=> node.is_leaf) /\ (2 * k \in R <=> ~node.is_leaf)
    BY <1>7, <1>8, <2>1
  <2>3. f = Found(Expected, F, k)
    BY <1>1, <2>1, <2>2 DEF Found
  <2>4. p = Below(NodeAt, R, k)
    BY <1>1, <2>1, <2>2 DEF Below
  <2>. QED
    BY <2>3, <2>4
<1>10. Going(R, m, F)
  BY <1>4, <1>5
<1>11. Going(R, m, F)'
  BY <1>2, <1>7, <1>8, <1>9, <1>10, VisitAnswers
<1>12. R = BelowPlace(m)' /\ F = (LeafPlaces \cap BelowPlace(m))' /\ First(m)'
  BY <1>3, <1>4, <1>5, SameAnswers
<1>13. \E n : First(n)' /\ Going(BelowPlace(n), n, LeafPlaces \cap BelowPlace(n))'
  BY <1>11, <1>12
<1>. QED
  BY <1>3, <1>13 DEF AnswerInv, AskedInv

-----------------------------------------------------------------------------
(***************************************************************************)
(* The beginnings and the ends of the queries                              *)
(***************************************************************************)

\* A query starts at the root.
LEMMA StartGoes ==
  ASSUME AllInv, UNCHANGED treeVars, NEW R, Rooted(R, 1), NEW F, F \subseteq R,
         queue' = << 1 >>, qry' = <<>>
  PROVE  Going(R, 1, F)'
<1>1. PackageInv
  BY DEF AllInv, BuildInv
<1>2. 1 \in Places
  BY <1>1, RootedPlaces DEF Rooted
<1>3. NodeAt[1] = 1
  BY <1>1, <1>2, NodeAtIs DEF NodeRow
<1>4. PICK f, h : f = NodeAt /\ h = Expected
  OBVIOUS
<1>5. GoingOn(<< 1 >>, <<>>, f, h, R, 1, F)
  <2>1. 1 = f[1]
    BY <1>3, <1>4
  <2>. QED
    BY <2>1, GoingStart
<1>6. NodeAt' = f /\ Expected' = h
  BY <1>4, SameAnswers
<1>. QED
  BY <1>5, <1>6 DEF Going

\* Ask
LEMMA AskAnswers ==
  ASSUME AllInv, AnswerInv, NEW q \in {"chunk_check", "min_hashes", "find"}, NEW g, Ask(q, g)
  PROVE  AnswerInv'
<1>1. /\ phase' = "query" /\ query' = q /\ qry' = <<>> /\ queue' = << 1 >> /\ target' = g
      /\ UNCHANGED treeVars
  BY DEF Ask, Root
<1>2. PackageInv
  BY DEF AllInv, BuildInv
<1>3. PICK P, L, U, T, N : /\ P = Places /\ L = MatchingLeaves /\ U = Uncovered
                           /\ T = TopMatches /\ N = Named'
  OBVIOUS
<1>4. /\ P = Places' /\ L = MatchingLeaves' /\ U = Uncovered' /\ T = TopMatches' /\ N = Named'
  BY <1>1, <1>3, SameAnswers
<1>5. Rooted(P, 1) /\ Rooted(U, 1)
  BY <1>2, <1>3, RootedPlaces, RootedUncovered
<1>6. L \subseteq P /\ N \subseteq P /\ T \subseteq U
  <2>1. L \subseteq P
    BY <1>3 DEF MatchingLeaves, LeafPlaces
  <2>2. N \subseteq P
    BY <1>4 DEF Named
  <2>3. T \subseteq U
    BY <1>3, TopMatchesAre
  <2>. QED
    BY <2>1, <2>2, <2>3
<1>7. Going(P, 1, L)' /\ Going(P, 1, N)' /\ Going(U, 1, T)'
  BY <1>1, <1>5, <1>6, StartGoes
<1>8. q # "hashes_of"
  OBVIOUS
<1>. QED
  BY <1>1, <1>4, <1>7, <1>8 DEF AnswerInv, AskedInv

\* A traversal that is over has reported what it was to report.
LEMMA EndAnswers ==
  ASSUME AllInv, AnswerInv, QueryEnd
  PROVE  AnswerInv'
<1>1. /\ phase = "query" /\ queue = <<>> /\ phase' = "answered" /\ query' = query
      /\ qry' = qry /\ target' = target /\ UNCHANGED treeVars
  BY DEF QueryEnd, queryVars
<1>2. AskedInv /\ PackageInv
  BY <1>1 DEF AnswerInv, AllInv, BuildInv
<1>3. ASSUME NEW R, NEW m, Rooted(R, m), NEW F, F \subseteq R, Going(R, m, F)
      PROVE  Lists(qry, F, Expected)
  <2>1. PICK q, a, f, h : q = queue /\ a = qry /\ f = NodeAt /\ h = Expected
    OBVIOUS
  <2>2. GoingOn(q, a, f, h, R, m, F) /\ Len(q) = 0
    <3>1. Len(<<>>) = 0
      OBVIOUS
    <3>. QED
      BY <1>1, <1>3, <2>1, <3>1 DEF Going
  <2>3. Lists(a, F, h)
    BY <1>3, <2>2, GoingEnd
  <2>. QED
    BY <2>1, <2>3
<1>4. /\ Expected' = Expected /\ LeafPlaces' = LeafPlaces /\ MatchingLeaves' = MatchingLeaves
      /\ TopMatches' = TopMatches /\ \A m : BelowPlace(m)' = BelowPlace(m)
      /\ Named' = Named /\ \A m : First(m)' <=> First(m)
  BY <1>1, SameAnswers
<1>5. Rooted(Places, 1) /\ Rooted(Uncovered, 1)
  BY <1>2, RootedPlaces, RootedUncovered
<1>6. query = "chunk_check" => Lists(qry, MatchingLeaves, Expected)
  <2>. SUFFICES ASSUME query = "chunk_check" PROVE Lists(qry, MatchingLeaves, Expected)
    OBVIOUS
  <2>1. PICK R, F : R = Places /\ F = MatchingLeaves
    OBVIOUS
  <2>2. Going(R, 1, F) /\ Rooted(R, 1)
    BY <1>2, <1>5, <2>1 DEF AskedInv
  <2>3. F \subseteq R
    BY <2>1 DEF MatchingLeaves, LeafPlaces
  <2>. QED
    BY <1>3, <2>1, <2>2, <2>3
<1>7. query = "min_hashes" => Lists(qry, TopMatches, Expected)
  <2>. SUFFICES ASSUME query = "min_hashes" PROVE Lists(qry, TopMatches, Expected)
    OBVIOUS
  <2>1. PICK R, F : R = Uncovered /\ F = TopMatches
    OBVIOUS
  <2>2. Going(R, 1, F) /\ Rooted(R, 1)
    BY <1>2, <1>5, <2>1 DEF AskedInv
  <2>3. F \subseteq R
    BY <2>1, TopMatchesAre
  <2>. QED
    BY <1>3, <2>1, <2>2, <2>3
<1>8. query = "find" => qry = <<>> /\ Named = {}
  <2>. SUFFICES ASSUME query = "find" PROVE qry = <<>> /\ Named = {}
    OBVIOUS
  <2>1. PICK R, F : R = Places /\ F = Named
    OBVIOUS
  <2>2. Going(R, 1, F) /\ Rooted(R, 1) /\ qry = <<>>
    BY <1>2, <1>5, <2>1 DEF AskedInv
  <2>3. F \subseteq R
    BY <2>1 DEF Named
  <2>4. Lists(qry, F, Expected)
    BY <1>3, <2>2, <2>3
  <2>5. F = {}
    <3>1. PICK a, h : a = qry /\ h = Expected
      OBVIOUS
    <3>2. Len(<<>>) = 0
      OBVIOUS
    <3>3. Lists(a, F, h) /\ Len(a) = 0
      BY <2>2, <2>4, <3>1, <3>2
    <3>4. IsFiniteSet(F)
      BY <1>2, <2>1, <2>3, SomePlaces
    <3>. QED
      BY <3>3, <3>4, ListsNone
  <2>. QED
    BY <2>1, <2>2, <2>5
<1>9. query = "hashes_of" => \E m : First(m) /\ Lists(qry, LeafPlaces \cap BelowPlace(m), Expected)
  <2>. SUFFICES ASSUME query = "hashes_of"
                PROVE  \E m : First(m) /\ Lists(qry, LeafPlaces \cap BelowPlace(m), Expected)
    OBVIOUS
  <2>1. PICK m : First(m) /\ Going(BelowPlace(m), m, LeafPlaces \cap BelowPlace(m))
    BY <1>2 DEF AskedInv
  <2>2. PICK R, F : R = BelowPlace(m) /\ F = LeafPlaces \cap BelowPlace(m)
    OBVIOUS
  <2>3. Rooted(R, m) /\ F \subseteq R /\ Going(R, m, F)
    <3>1. m \in Places
      BY <2>1 DEF First, Named
    <3>. QED
      BY <1>2, <2>1, <2>2, <3>1, RootedBelow
  <2>4. Lists(qry, F, Expected)
    BY <1>3, <2>3
  <2>. QED
    BY <2>1, <2>2, <2>4
<1>10. query # "all_hashes"
  BY <1>1 DEF AllInv, QueryInv
<1>11. /\ query' = "chunk_check" => Lists(qry', MatchingLeaves', Expected')
       /\ query' = "min_hashes" => Lists(qry', TopMatches', Expected')
       /\ query' = "find" => qry' = <<>> /\ Named' = {}
  BY <1>1, <1>4, <1>6, <1>7, <1>8
<1>12. query' = "hashes_of" =>
         \E m : First(m)' /\ Lists(qry', (LeafPlaces \cap BelowPlace(m))', Expected')
  BY <1>1, <1>4, <1>9
<1>. QED
  BY <1>1, <1>10, <1>11, <1>12 DEF AnswerInv

\* Every step.
LEMMA NextAnswers ==
  ASSUME AllInv, ExactInv, AnswerInv, [QueryNext]_allVars
  PROVE  AnswerInv'
<1>1. CASE UNCHANGED allVars
  <2>1. /\ phase' = phase /\ query' = query /\ qry' = qry /\ queue' = queue
        /\ target' = target /\ UNCHANGED treeVars /\ hashes' = hashes /\ chunks' = chunks
    BY <1>1 DEF allVars, vars, queryVars, treeVars, build, package
  <2>2. /\ NodeAt' = NodeAt /\ Places' = Places /\ Expected' = Expected
        /\ LeafPlaces' = LeafPlaces /\ MatchingLeaves' = MatchingLeaves
        /\ Uncovered' = Uncovered /\ TopMatches' = TopMatches
        /\ \A m : BelowPlace(m)' = BelowPlace(m)
        /\ Named' = Named /\ \A m : First(m)' <=> First(m)
    BY <2>1, SameAnswers
  <2>3. \A R, m, F : Going(R, m, F)' <=> Going(R, m, F)
    BY <2>1, <2>2 DEF Going
  <2>4. phase = "query" => AskedInv'
    <3>1. ASSUME phase = "query" PROVE AskedInv
      BY <3>1 DEF AnswerInv
    <3>2. query = "hashes_of" /\ AskedInv =>
            \E m : First(m)' /\ Going(BelowPlace(m), m, LeafPlaces \cap BelowPlace(m))'
      BY <2>2, <2>1 DEF Going, AskedInv
    <3>3. AskedInv => /\ query = "chunk_check" => Going(Places, 1, MatchingLeaves)'
                      /\ query = "min_hashes" => Going(Uncovered, 1, TopMatches)'
                      /\ query = "find" => qry' = <<>> /\ Going(Places, 1, Named)'
      BY <2>2, <2>1 DEF Going, AskedInv
    <3>. QED
      BY <2>1, <3>1, <3>2, <3>3 DEF AskedInv
  <2>5. query = "hashes_of" /\ phase = "answered" =>
          \E m : First(m)' /\ Lists(qry', (LeafPlaces \cap BelowPlace(m))', Expected')
    BY <2>1, <2>2 DEF AnswerInv
  <2>. QED
    BY <2>1, <2>2, <2>4, <2>5 DEF AnswerInv
<1>2. CASE phase' \notin {"query", "answered"}
  BY <1>2 DEF AnswerInv
<1>3. CASE Build /\ UNCHANGED queryVars
  <2>1. phase' \notin {"query", "answered"}
    BY <1>3 DEF Build, HashChunk, Descend, DescendAgain, Return, Leaf, LeafFault, BuildEnd,
                Expect, ExpectEnd, Building
  <2>. QED
    BY <1>2, <2>1
<1>4. CASE \E q \in {"chunk_check", "min_hashes", "find"} : \E g : Ask(q, g)
  BY <1>4, AskAnswers
<1>5. CASE GetAllHashes
  <2>1. phase' = "answered" /\ query' = "all_hashes" /\ qry' = hashes \o chunks
          /\ UNCHANGED package
    BY <1>5 DEF GetAllHashes, treeVars
  <2>2. qry' = hashes' \o chunks'
    BY <2>1 DEF package
  <2>. QED
    BY <2>1, <2>2 DEF AnswerInv
<1>6. CASE CompletedStep \/ MinStep \/ FindStep \/ FindMatch \/ CollectStep
  BY <1>6, CompletedAnswers, MinAnswers, FindAnswers, FoundAnswers, CollectAnswers
<1>7. CASE QueryEnd
  BY <1>7, EndAnswers
<1>8. CASE QueryDestroy \/ FreeTree \/ FreeTreeStep \/ FreeTreeEnd
  <2>1. phase' \notin {"query", "answered"}
    BY <1>8 DEF QueryDestroy, FreeTree, FreeTreeStep, FreeTreeEnd
  <2>. QED
    BY <1>2, <2>1
<1>. QED
  BY <1>1, <1>3, <1>4, <1>5, <1>6, <1>7, <1>8 DEF QueryNext, AskHashesOf

-----------------------------------------------------------------------------
(***************************************************************************)
(* The answers                                                             *)
(***************************************************************************)

\* The leaves of a package with a perfect tree: what they hold.
LEMMA PerfectLeaf ==
  ASSUME BuildInv, ExactInv, Finished, Perfect, NEW i \in 1..nchunks
  PROVE  /\ nhashes + i \in LeafPlaces /\ Expected[nhashes + i] = chunks[i]
         /\ Match(nhashes + i) <=> HashOf(data[i]) = chunks[i]
<1>0. PackageInv
  BY DEF BuildInv
<1>1. PICK w, d, k : w = nchunks /\ d = nhashes /\ k = nhashes + i
  OBVIOUS
<1>2. /\ w \in Nat \ {0} /\ d = w - 1 /\ w = Pow[depth - 1] /\ Places = 1..((2 * w) - 1)
      /\ Heap(MerkleHash, LeafHash, w) /\ i \in 1..w /\ k = d + i
  BY <1>0, <1>1, MerkleIs, PackageIs DEF Perfect
<1>3. k \in Places /\ k \in 1..((2 * w) - 1) /\ k >= w /\ (k - w) + 1 = i /\ ~(k <= d) /\ k - d = i
  <2>1. w \in Nat \ {0} /\ d = w - 1 /\ i \in 1..w /\ k = d + i
    BY <1>2
  <2>2. /\ k \in 1..((2 * w) - 1) /\ k >= w /\ (k - w) + 1 = i /\ ~(k <= d) /\ k - d = i
    BY ONLY <2>1
  <2>. QED
    BY <1>2, <2>2
<1>4. /\ tree[NodeAt[k]].computed = MerkleHash[k]
      /\ tree[NodeAt[k]].expected = ExpectedAt(k) /\ Expected[k] = ExpectedAt(k)
  BY <1>0, <1>3, PlaceIs
<1>5. ExpectedAt(k) = chunks[i]
  BY <1>1, <1>3 DEF ExpectedAt
<1>6. MerkleHash[k] = HashOf(data[i])
  <2>1. MerkleHash[k] = LeafHash[i]
    <3>1. PICK f, a : f = MerkleHash /\ a = LeafHash
      OBVIOUS
    <3>2. Heap(f, a, w) /\ w \in Nat \ {0} /\ k \in 1..((2 * w) - 1) /\ k >= w
      BY <1>2, <1>3, <3>1
    <3>3. f[k] = a[(k - w) + 1]
      BY ONLY <3>2, HeapIs
    <3>. QED
      BY <1>3, <3>1, <3>3
  <2>. QED
    BY <2>1 DEF LeafHash
<1>7. k \in LeafPlaces
  BY <1>2, <1>3 DEF LeafPlaces
<1>8. Match(k) <=> HashOf(data[i]) = chunks[i]
  BY <1>4, <1>5, <1>6 DEF Match, At
<1>. QED
  BY <1>1, <1>4, <1>5, <1>7, <1>8

\* The leaves of such a tree are the numbers of its chunks, after those of
\* the other hashes.
LEMMA PerfectLeaves ==
  ASSUME PackageInv, Perfect, NEW k \in Nat
  PROVE  nhashes + k \in LeafPlaces <=> k \in 1..nchunks
<1>1. PICK w, d : w = nchunks /\ d = nhashes
  OBVIOUS
<1>2. w \in Nat \ {0} /\ d = w - 1 /\ w = Pow[depth - 1] /\ Places = 1..((2 * w) - 1)
  BY <1>1, MerkleIs, PackageIs DEF Perfect
<1>3. d + k \in LeafPlaces <=> d + k >= w /\ d + k \in 1..((2 * w) - 1)
  BY <1>2 DEF LeafPlaces
<1>4. (d + k >= w /\ d + k \in 1..((2 * w) - 1)) <=> k \in 1..w
  <2>0. w \in Nat \ {0} /\ k \in Nat /\ d = w - 1
    BY <1>2
  <2>1. /\ d + k >= w <=> k >= 1
        /\ d + k <= (2 * w) - 1 <=> k <= w
        /\ d + k >= w => d + k >= 1
        /\ d + k \in Int /\ (2 * w) - 1 \in Int /\ w \in Int /\ k \in Int
    BY ONLY <2>0
  <2>2. d + k \in 1..((2 * w) - 1) <=> d + k >= 1 /\ d + k <= (2 * w) - 1
    BY ONLY <2>1
  <2>3. k \in 1..w <=> k >= 1 /\ k <= w
    BY ONLY <2>1
  <2>. QED
    BY ONLY <2>1, <2>2, <2>3
<1>. QED
  BY <1>1, <1>3, <1>4

\* -chunk_check
LEMMA CompletedIs ==
  ASSUME BuildInv, ExactInv, Finished, Perfect, NEW q, Lists(q, MatchingLeaves, Expected)
  PROVE  Lists(q, CompleteChunks, chunks)
<1>0. PackageInv
  BY DEF BuildInv
<1>1. PICK S, T, d, h, g : /\ S = MatchingLeaves /\ T = CompleteChunks /\ d = nhashes
                           /\ h = Expected /\ g = chunks
  OBVIOUS
<1>2. d \in Nat /\ nchunks \in Nat /\ d + 1 = nchunks
  BY <1>0, <1>1, PackageIs
<1>3. T \subseteq 1..nchunks /\ S \subseteq LeafPlaces
  BY <1>1 DEF CompleteChunks, MatchingLeaves
<1>4. T \in SUBSET Nat /\ IsFiniteSet(T)
  <2>1. PICK n \in Nat : n = nchunks
    BY <1>2
  <2>2. T \subseteq 1..n /\ IsFiniteSet(1..n)
    BY <1>3, <2>1, FS_Interval
  <2>3. IsFiniteSet(T)
    BY <2>2, FS_Subset
  <2>. QED
    BY <2>2, <2>3
<1>5. ASSUME NEW k \in S PROVE k \in Nat /\ k >= d
  <2>1. PICK w \in Nat \ {0} : w = Pow[depth - 1] /\ Places = 1..((2 * w) - 1)
    BY <1>0, PlaceNumbers
  <2>2. k \in Places /\ k >= w
    BY <1>3, <2>1 DEF LeafPlaces
  <2>3. w = d + 1
    BY <1>2, <2>1 DEF Perfect
  <2>. QED
    BY <1>2, <2>1, <2>2, <2>3
<1>6. Shifted(S, T, d)
  <2>1. ASSUME NEW k \in Nat PROVE k \in T <=> k + d \in S
    <3>1. d + k = k + d
      BY <1>2
    <3>2. k + d \in LeafPlaces <=> k \in 1..nchunks
      BY <1>0, <1>1, <3>1, PerfectLeaves
    <3>3. k \in 1..nchunks => (Match(k + d) <=> HashOf(data[k]) = chunks[k])
      BY <1>1, <3>1, PerfectLeaf
    <3>. QED
      BY <1>1, <3>2, <3>3 DEF MatchingLeaves, CompleteChunks
  <2>. QED
    BY <2>1 DEF Shifted
<1>7. ASSUME NEW k \in T PROVE h[k + d] = g[k]
  <2>1. k \in 1..nchunks /\ d + k = k + d
    BY <1>2, <1>3
  <2>. QED
    BY <1>1, <2>1, PerfectLeaf
<1>8. Lists(q, T, g)
  <2>1. S \in SUBSET Nat /\ (\A k \in S : k >= d) /\ \A k \in T : h[k + d] = g[k]
    BY <1>5, <1>7
  <2>2. Lists(q, S, h)
    BY <1>1
  <2>. QED
    BY ONLY <1>2, <1>4, <1>6, <2>1, <2>2, ListsShift
<1>. QED
  BY <1>1, <1>8

\* -all_hashes
LEMMA AllHashesIs ==
  ASSUME BuildInv, ExactInv, Finished, Perfect
  PROVE  Lists(hashes \o chunks, Places, Expected)
<1>0. PackageInv
  BY DEF BuildInv
<1>1. PICK w, d, a, b, r : /\ w = nchunks /\ d = nhashes /\ a = hashes /\ b = chunks
                           /\ r = a \o b
  OBVIOUS
<1>2. /\ w \in Nat \ {0} /\ d = w - 1 /\ Places = 1..((2 * w) - 1) /\ d \in Nat
      /\ Len(a) = d /\ Len(b) = w
  <2>1. w \in Nat \ {0} /\ d = w - 1 /\ w = Pow[depth - 1] /\ Places = 1..((2 * w) - 1) /\ d \in Nat
    BY <1>0, <1>1, MerkleIs, PackageIs DEF Perfect
  <2>2. Len(a) = d /\ Len(b) = w
    BY <1>1 DEF nhashes, nchunks
  <2>. QED
    BY <2>1, <2>2
<1>3. a \in Seq(PackageHashes) /\ b \in Seq(PackageHashes)
  BY <1>0, <1>1 DEF PackageInv
<1>4. /\ Len(r) = d + w
      /\ \A i \in 1..(d + w) : r[i] = IF i <= d THEN a[i] ELSE b[i - d]
  <2>1. PICK X : X = PackageHashes
    OBVIOUS
  <2>2. a \in Seq(X) /\ b \in Seq(X) /\ r = a \o b
    BY <1>1, <1>3, <2>1
  <2>3. /\ Len(r) = Len(a) + Len(b)
        /\ \A i \in 1..(Len(a) + Len(b)) : r[i] = IF i <= Len(a) THEN a[i] ELSE b[i - Len(a)]
    BY ONLY <2>2, ConcatProperties
  <2>. QED
    BY <1>2, <2>3
<1>5. d + w = (2 * w) - 1
  BY <1>2
<1>6. ASSUME NEW k \in Places PROVE r[Rank(Places, k)] = Expected[k]
  <2>1. k \in 1..((2 * w) - 1) /\ k \in Nat
    BY <1>2
  <2>2. {j \in Places : j <= k} = 1..k
    BY <1>2, <2>1
  <2>3. Rank(Places, k) = k
    <3>1. Rank(Places, k) = Cardinality(1..k)
      BY <2>2 DEF Rank
    <3>2. Cardinality(1..k) = k
      <4>1. k \in Int /\ 1 \in Int /\ ~(1 > k) /\ (k - 1) + 1 = k
        BY <2>1
      <4>. QED
        BY ONLY <4>1, FS_Interval
    <3>. QED
      BY <3>1, <3>2
  <2>4. r[k] = IF k <= d THEN a[k] ELSE b[k - d]
    BY <1>4, <1>5, <2>1
  <2>5. Expected[k] = ExpectedAt(k)
    BY PlaceIs
  <2>. QED
    BY <1>1, <2>3, <2>4, <2>5 DEF ExpectedAt
<1>7. Len(r) = Cardinality(Places)
  BY <1>2, <1>4, <1>5, FS_Interval
<1>8. Lists(r, Places, Expected)
  BY <1>6, <1>7 DEF Lists
<1>. QED
  BY <1>1, <1>8

\* The invariant says that every answer is what it should be.
LEMMA AnswersAre ==
  ASSUME AllInv, ExactInv, AnswerInv
  PROVE  AnswersExact
<1>0. BuildInv /\ PackageInv
  BY DEF AllInv, BuildInv
<1>1. AllHashesInLevelOrder
  <2>. SUFFICES ASSUME phase = "answered", query = "all_hashes", Perfect
                PROVE  Lists(qry, Places, Expected)
    BY DEF AllHashesInLevelOrder, Answered
  <2>1. qry = hashes \o chunks
    BY DEF AnswerInv
  <2>2. Lists(hashes \o chunks, Places, Expected)
    BY <1>0, AllHashesIs DEF Finished
  <2>. QED
    BY <2>1, <2>2
<1>2. CompletedChunksExact
  <2>. SUFFICES ASSUME phase = "answered", query = "chunk_check", Perfect
                PROVE  Lists(qry, CompleteChunks, chunks)
    BY DEF CompletedChunksExact, Answered
  <2>1. PICK q : q = qry
    OBVIOUS
  <2>2. Lists(q, MatchingLeaves, Expected)
    BY <2>1 DEF AnswerInv
  <2>3. Lists(q, CompleteChunks, chunks)
    BY <1>0, <2>2, CompletedIs DEF Finished
  <2>. QED
    BY <2>1, <2>3
<1>3. MinHashesExact
  BY DEF MinHashesExact, Answered, AnswerInv
<1>4. HashesOfExact
  <2>. SUFFICES ASSUME phase = "answered", query \in {"find", "hashes_of"}
                PROVE  Lists(qry, {k \in LeafPlaces : \E m \in Named :
                                     Above(m, k) /\ \A j \in Named : m <= j}, Expected)
    BY DEF HashesOfExact, Named
  <2>1. PICK S : S = {k \in LeafPlaces : \E m \in Named : Above(m, k) /\ \A j \in Named : m <= j}
    OBVIOUS
  <2>2. CASE query = "find"
    <3>1. qry = <<>> /\ Named = {}
      BY <2>2 DEF AnswerInv
    <3>2. S = {}
      BY <2>1, <3>1
    <3>3. PICK q, h : q = qry /\ h = Expected
      OBVIOUS
    <3>4. Len(<<>>) = 0
      OBVIOUS
    <3>5. Len(q) = 0 /\ IsFiniteSet(S)
      BY <3>1, <3>2, <3>3, <3>4, FS_EmptySet
    <3>6. Lists(q, S, h)
      BY <3>2, <3>5, ListsNone
    <3>. QED
      BY <2>1, <3>3, <3>6
  <2>3. CASE query = "hashes_of"
    <3>1. PICK m : First(m) /\ Lists(qry, LeafPlaces \cap BelowPlace(m), Expected)
      BY <2>3 DEF AnswerInv
    <3>2. m \in Named /\ \A j \in Named : m <= j
      BY <3>1 DEF First
    <3>3. Places \subseteq Nat /\ Named \subseteq Places /\ LeafPlaces \subseteq Places
      BY <1>0, RootedPlaces DEF Rooted, Named, LeafPlaces
    <3>4. ASSUME NEW n \in Named, \A j \in Named : n <= j PROVE n = m
      <4>1. n <= m /\ m <= n /\ n \in Nat /\ m \in Nat
        BY <3>2, <3>3, <3>4
      <4>. QED
        BY <4>1
    <3>5. S = LeafPlaces \cap BelowPlace(m)
      <4>1. ASSUME NEW k \in LeafPlaces PROVE k \in S <=> Above(m, k)
        BY <2>1, <3>2, <3>4
      <4>2. ASSUME NEW k \in LeafPlaces PROVE k \in BelowPlace(m) <=> Above(m, k)
        BY <3>3 DEF BelowPlace
      <4>3. S \subseteq LeafPlaces
        BY <2>1
      <4>. QED
        BY <4>1, <4>2, <4>3
    <3>. QED
      BY <2>1, <3>1, <3>5
  <2>. QED
    BY <2>2, <2>3
<1>. QED
  BY <1>1, <1>2, <1>3, <1>4 DEF AnswersExact

\* The two parts of the invariant hold together with AllInv.
THEOREM Answering == QuerySpec => [](AllInv /\ ExactInv /\ AnswerInv)
<1>1. QueryInit => AnswerInv
  BY DEF QueryInit, Init, AnswerInv
<1>2. QueryInit => ExactInv
  BY InitExact
<1>3. AllInv /\ ExactInv /\ AnswerInv /\ [QueryNext]_allVars => AnswerInv'
  BY NextAnswers
<1>4. AllInv /\ ExactInv /\ [QueryNext]_allVars => ExactInv'
  BY NextExact
<1>. QED
  BY <1>1, <1>2, <1>3, <1>4, Invariance, PTL DEF QuerySpec

\* AnswersExact of TreeQuery: each query answers what it is asked, whatever
\* the hashes of the package are: -all_hashes the expected hashes in level
\* order, -chunk_check the chunks whose data is right in file order,
\* -min_hashes the complete branches inside no larger one in level order, and
\* -hashes_of the chunk hashes below the first place that expects the hash.
THEOREM AnswersExactCorrect == QuerySpec => []AnswersExact
<1>1. AllInv /\ ExactInv /\ AnswerInv => AnswersExact
  BY AnswersAre
<1>. QED
  BY <1>1, Answering, PTL

-----------------------------------------------------------------------------
(***************************************************************************)
(* Places that stand for the leaves below them                             *)
(***************************************************************************)

\* M is a set of places of a tree with w leaves that has an inner place just
\* when it has both places below: the places that match, when the hashes of
\* the package are right.
Decided(M, w) ==
  /\ M \subseteq 1..((2 * w) - 1)
  /\ \A k \in 1..(w - 1) : k \in M <=> 2 * k \in M /\ 2 * k + 1 \in M

\* The places of M below no other, and the leaves below those of S.
Tops(M, w) == {k \in M : \A j \in (1..((2 * w) - 1)) \ {k} : Above(j, k) => j \notin M}
Covered(S, w) == {x \in w..((2 * w) - 1) : \E k \in S : Above(k, x)}

\* There is a leaf below every place.
LEMMA LeafBelow ==
  ASSUME NEW w \in Nat \ {0}, NEW k \in 1..((2 * w) - 1)
  PROVE  \E x \in w..((2 * w) - 1) : Above(k, x)
<1>. DEFINE D == 1..((2 * w) - 1)
            Has(j) == \E x \in w..((2 * w) - 1) : Above(j, x)
            S == {n \in Nat : \A j \in D : j >= (2 * w) - n => Has(j)}
<1>1. 0 \in S
  OBVIOUS
<1>2. ASSUME NEW n \in S PROVE n + 1 \in S
  <2>1. n \in Nat /\ \A j \in D : j >= (2 * w) - n => Has(j)
    OBVIOUS
  <2>2. ASSUME NEW j \in D, j >= (2 * w) - (n + 1) PROVE Has(j)
    <3>1. CASE j >= w
      <4>1. j \in w..((2 * w) - 1) /\ Above(j, j)
        BY <3>1, AboveIs
      <4>. QED
        BY <4>1
    <3>2. CASE j < w
      <4>1. 2 * j \in D /\ 2 * j >= (2 * w) - n
        BY <2>1, <2>2, <3>2
      <4>2. PICK x \in w..((2 * w) - 1) : Above(2 * j, x)
        BY <2>1, <4>1
      <4>3. j \in Nat \ {0} /\ x \in Nat \ {0}
        OBVIOUS
      <4>4. Above(j, 2 * j)
        BY <4>3, AboveIs, AboveBelow
      <4>5. Above(j, x)
        BY <4>2, <4>3, <4>4, AboveAbove
      <4>. QED
        BY <4>5
    <3>. QED
      BY <3>1, <3>2
  <2>3. n + 1 \in Nat
    BY <2>1
  <2>. HIDE DEF Has
  <2>. QED
    BY <2>2, <2>3
<1>3. S = Nat
  <2>. HIDE DEF S
  <2>1. S \subseteq Nat
    BY DEF S
  <2>. QED
    BY <1>1, <1>2, <2>1, Induction
<1>4. 2 * w \in Nat
  OBVIOUS
<1>5. 2 * w \in S
  <2>. HIDE DEF S
  <2>. QED
    BY <1>3, <1>4
<1>. QED
  BY <1>5

\* A place of M has every place below it in M ...
LEMMA DecidedDown ==
  ASSUME NEW w \in Nat \ {0}, NEW M, Decided(M, w), NEW k \in M, NEW x \in 1..((2 * w) - 1), Above(k, x)
  PROVE  x \in M
<1>. DEFINE D == 1..((2 * w) - 1)
            S == {n \in Nat : \A j \in D : j <= n /\ Above(k, j) => j \in M}
<1>1. 0 \in S
  OBVIOUS
<1>2. ASSUME NEW n \in S PROVE n + 1 \in S
  <2>1. n \in Nat /\ \A j \in D : j <= n /\ Above(k, j) => j \in M
    OBVIOUS
  <2>2. ASSUME NEW j \in D, j <= n + 1, Above(k, j) PROVE j \in M
    <3>1. j \in Nat \ {0}
      OBVIOUS
    <3>2. k = j \/ (j # 1 /\ Above(k, j \div 2))
      BY <2>2, <3>1, AboveIs
    <3>3. ASSUME j # 1, Above(k, j \div 2) PROVE j \in M
      <4>1. PICK p : p = j \div 2
        OBVIOUS
      <4>2. p \in 1..(w - 1) /\ p \in D /\ p <= n /\ (j = 2 * p \/ j = 2 * p + 1)
        BY <2>1, <2>2, <3>1, <3>3, <4>1, HalfIs
      <4>3. p \in M
        BY <2>1, <3>3, <4>1, <4>2
      <4>. QED
        BY <4>2, <4>3 DEF Decided
    <3>. QED
      BY <3>2, <3>3
  <2>3. n + 1 \in Nat
    BY <2>1
  <2>. QED
    BY <2>2, <2>3
<1>3. S = Nat
  <2>. HIDE DEF S
  <2>1. S \subseteq Nat
    BY DEF S
  <2>. QED
    BY <1>1, <1>2, <2>1, Induction
<1>4. x \in S
  <2>. HIDE DEF S
  <2>1. x \in Nat
    OBVIOUS
  <2>. QED
    BY <1>3, <2>1
<1>. QED
  BY <1>4

\* ... and a place with all its leaves in M is in M.
LEMMA DecidedUp ==
  ASSUME NEW w \in Nat \ {0}, NEW M, Decided(M, w), NEW k \in 1..((2 * w) - 1),
         \A x \in w..((2 * w) - 1) : Above(k, x) => x \in M
  PROVE  k \in M
<1>. DEFINE D == 1..((2 * w) - 1)
            Full(j) == \A x \in w..((2 * w) - 1) : Above(j, x) => x \in M
            S == {n \in Nat : \A j \in D : j >= (2 * w) - n /\ Full(j) => j \in M}
<1>1. 0 \in S
  OBVIOUS
<1>2. ASSUME NEW n \in S PROVE n + 1 \in S
  <2>1. n \in Nat /\ \A j \in D : j >= (2 * w) - n /\ Full(j) => j \in M
    OBVIOUS
  <2>2. ASSUME NEW j \in D, j >= (2 * w) - (n + 1), Full(j) PROVE j \in M
    <3>0. j \in Nat \ {0}
      OBVIOUS
    <3>1. CASE j >= w
      <4>1. j \in w..((2 * w) - 1) /\ Above(j, j)
        BY <3>0, <3>1, AboveIs
      <4>. QED
        BY <2>2, <4>1
    <3>2. CASE j < w
      <4>1. /\ 2 * j \in D /\ 2 * j >= (2 * w) - n
            /\ 2 * j + 1 \in D /\ 2 * j + 1 >= (2 * w) - n /\ j \in 1..(w - 1)
        BY <2>1, <2>2, <3>2
      <4>2. Above(j, 2 * j) /\ Above(j, 2 * j + 1)
        BY <3>0, AboveIs, AboveBelow
      <4>3. ASSUME NEW x \in w..((2 * w) - 1), NEW y, Above(j, y), Above(y, x) PROVE x \in M
        <5>1. x \in Nat \ {0}
          OBVIOUS
        <5>2. Above(j, x)
          BY <4>3, <5>1, AboveAbove
        <5>. QED
          BY <2>2, <5>2
      <4>4. Full(2 * j) /\ Full(2 * j + 1)
        BY <4>2, <4>3
      <4>. HIDE DEF Full
      <4>5. 2 * j \in M /\ 2 * j + 1 \in M
        BY <2>1, <4>1, <4>4
      <4>. QED
        BY <4>1, <4>5 DEF Decided
    <3>. QED
      BY <3>0, <3>1, <3>2
  <2>3. n + 1 \in Nat
    BY <2>1
  <2>. HIDE DEF Full
  <2>. QED
    BY <2>2, <2>3
<1>3. S = Nat
  <2>. HIDE DEF S
  <2>1. S \subseteq Nat
    BY DEF S
  <2>. QED
    BY <1>1, <1>2, <2>1, Induction
<1>4. 2 * w \in Nat
  OBVIOUS
<1>5. 2 * w \in S
  <2>. HIDE DEF S
  <2>. QED
    BY <1>3, <1>4
<1>. QED
  BY <1>5

\* The tops have below them exactly the leaves of M ...
LEMMA TopsCover ==
  ASSUME NEW w \in Nat \ {0}, NEW M, Decided(M, w)
  PROVE  Covered(Tops(M, w), w) = M \cap (w..((2 * w) - 1))
<1>. DEFINE D == 1..((2 * w) - 1)
            L == w..((2 * w) - 1)
<1>1. M \subseteq D /\ L \subseteq D /\ D \subseteq Nat \ {0}
  BY DEF Decided
<1>2. ASSUME NEW x \in L, NEW k \in Tops(M, w), Above(k, x) PROVE x \in M
  <2>1. k \in M /\ x \in D
    BY <1>1 DEF Tops
  <2>. QED
    BY <1>2, <2>1, DecidedDown
<1>3. ASSUME NEW x \in L, x \in M PROVE \E k \in Tops(M, w) : Above(k, x)
  <2>. DEFINE A == {j \in M : Above(j, x)}
  <2>1. x \in A /\ A \in SUBSET Nat
    <3>1. Above(x, x)
      BY <1>1, AboveIs
    <3>. QED
      BY <1>1, <1>3, <3>1
  <2>2. PICK k \in A : \A j \in A : k <= j
    <3>. HIDE DEF A
    <3>. QED
      BY <2>1, LeastOf
  <2>3. k \in M /\ Above(k, x) /\ k \in Nat \ {0} /\ x \in Nat \ {0}
    BY <1>1
  <2>4. ASSUME NEW j \in D, j # k, Above(j, k), j \in M PROVE FALSE
    <3>1. Above(j, x) /\ j <= k /\ j \in Nat
      BY <2>3, <2>4, AboveAbove, AboveIs
    <3>2. k <= j
      BY <2>2, <2>4, <3>1
    <3>. QED
      BY <2>3, <2>4, <3>1, <3>2
  <2>5. k \in Tops(M, w)
    BY <2>3, <2>4 DEF Tops
  <2>. QED
    BY <2>3, <2>5
<1>. QED
  BY <1>2, <1>3 DEF Covered

\* ... and no smaller set has.
LEMMA TopsFewest ==
  ASSUME NEW w \in Nat \ {0}, NEW M, Decided(M, w), NEW S \in SUBSET (1..((2 * w) - 1)),
         Covered(S, w) = M \cap (w..((2 * w) - 1))
  PROVE  Cardinality(Tops(M, w)) <= Cardinality(S)
<1>. DEFINE D == 1..((2 * w) - 1)
            L == w..((2 * w) - 1)
            T == Tops(M, w)
<1>1. M \subseteq D /\ L \subseteq D /\ D \subseteq Nat \ {0} /\ T \subseteq M
  BY DEF Decided, Tops
<1>2. \A t, u \in T : Above(t, u) => t = u
  BY <1>1 DEF Tops
<1>3. ASSUME NEW t \in T PROVE \E s \in S : Above(t, s)
  <2>1. PICK x \in L : Above(t, x)
    BY <1>1, LeafBelow
  <2>2. x \in M /\ x \in D /\ x \in Nat \ {0}
    BY <1>1, <2>1, DecidedDown
  <2>3. PICK s \in S : Above(s, x)
    BY <2>1, <2>2 DEF Covered
  <2>4. Above(t, s) \/ Above(s, t)
    BY <2>1, <2>2, <2>3, AboveLine
  <2>5. ASSUME Above(s, t), s # t PROVE FALSE
    <3>1. ASSUME NEW y \in L, Above(s, y) PROVE y \in M
      BY <3>1 DEF Covered
    <3>2. s \in M
      BY <3>1, DecidedUp
    <3>3. s \in D \ {t}
      BY <2>5
    <3>. QED
      BY <2>5, <3>2, <3>3 DEF Tops
  <2>6. Above(t, t)
    BY <1>1, AboveIs
  <2>. QED
    BY <2>3, <2>4, <2>5, <2>6
<1>4. PICK f : f = [t \in T |-> CHOOSE s \in S : Above(t, s)]
  OBVIOUS
<1>5. \A t \in T : f[t] \in S /\ Above(t, f[t])
  BY <1>3, <1>4
<1>6. ASSUME NEW t \in T, NEW u \in T, f[t] = f[u] PROVE t = u
  <2>1. PICK s : s = f[t]
    OBVIOUS
  <2>2. s \in D /\ Above(t, s) /\ Above(u, s)
    BY <1>5, <1>6, <2>1
  <2>3. Above(t, u) \/ Above(u, t)
    BY <1>1, <2>2, AboveLine
  <2>. QED
    BY <1>2, <2>3
<1>7. f \in Injection(T, S)
  <2>1. f \in [T -> S]
    BY <1>4, <1>5
  <2>. HIDE DEF T
  <2>. QED
    BY <1>6, <2>1 DEF Injection, IsInjective
<1>8. IsFiniteSet(S)
  <2>1. IsFiniteSet(1..((2 * w) - 1))
    BY FS_Interval
  <2>. QED
    BY <2>1, FS_Subset
<1>. HIDE DEF T
<1>9. Cardinality(T) <= Cardinality(S)
  BY <1>7, <1>8, FS_Injection
<1>. QED
  BY <1>9 DEF T

-----------------------------------------------------------------------------
(***************************************************************************)
(* The smallest set of complete branches                                   *)
(***************************************************************************)

\* Two heaps of hashes have an inner row in common just when they have both
\* rows below in common.
LEMMA HeapsMeet ==
  ASSUME NEW w \in Nat \ {0}, NEW a, NEW b, Leaves(a, w), Leaves(b, w),
         NEW f, NEW h, Heap(f, a, w), Heap(h, b, w)
  PROVE  Decided({k \in 1..((2 * w) - 1) : f[k] = h[k]}, w)
<1>. DEFINE M == {k \in 1..((2 * w) - 1) : f[k] = h[k]}
<1>1. ASSUME NEW k \in 1..(w - 1) PROVE k \in M <=> 2 * k \in M /\ 2 * k + 1 \in M
  <2>1. /\ k \in 1..((2 * w) - 1) /\ k < w
        /\ 2 * k \in 1..((2 * w) - 1) /\ 2 * k + 1 \in 1..((2 * w) - 1)
    OBVIOUS
  <2>2. PICK l, r, u, v : l = f[2 * k] /\ r = f[2 * k + 1] /\ u = h[2 * k] /\ v = h[2 * k + 1]
    OBVIOUS
  <2>3. f[k] = HashPair(l, r) /\ h[k] = HashPair(u, v)
    BY <2>1, <2>2, HeapIs
  <2>4. /\ l \in Seq(Clean) /\ r \in Seq(Clean) /\ u \in Seq(Clean) /\ v \in Seq(Clean)
        /\ Len(l) = Len(u)
    BY <2>1, <2>2, HeapsSameLen
  <2>5. ASSUME HashPair(l, r) = HashPair(u, v) PROVE l = u /\ r = v
    BY ONLY <2>4, <2>5, HashPairsEqual, Zenon
  <2>6. f[k] = h[k] <=> l = u /\ r = v
    BY <2>3, <2>5
  <2>. QED
    BY <2>1, <2>2, <2>6
<1>2. M \subseteq 1..((2 * w) - 1)
  OBVIOUS
<1>. QED
  BY <1>1, <1>2 DEF Decided

\* The places of a package whose hashes are right expect the rows of the heap
\* over its chunk hashes.
LEMMA ExpectedHeap ==
  ASSUME BuildInv, ExactInv, Finished, Consistent
  PROVE  \E H : Heap(H, chunks, nchunks) /\ \A k \in Places : ExpectedAt(k) = H[k]
<1>0. PackageInv /\ Perfect /\ hashes = HashesOver(chunks)
  BY DEF BuildInv, Consistent
<1>1. PICK w, d : w = nchunks /\ d = nhashes
  OBVIOUS
<1>2. w \in Nat \ {0} /\ d = w - 1 /\ Places = 1..((2 * w) - 1)
  BY <1>0, <1>1, MerkleIs, PackageIs DEF Perfect
<1>3. PICK H : Heap(H, chunks, w) /\ HashesOver(chunks) = [k \in 1..(w - 1) |-> H[k]]
  <2>1. Len(chunks) = w
    BY <1>1 DEF nchunks
  <2>. QED
    BY <1>2, <2>1, HashesOverIs
<1>4. ASSUME NEW k \in Places PROVE ExpectedAt(k) = H[k]
  <2>0. k \in 1..((2 * w) - 1)
    BY <1>2
  <2>1. CASE k >= w
    <3>1. ~(k <= d) /\ k - d = (k - w) + 1
      BY <1>2, <2>0, <2>1
    <3>2. ExpectedAt(k) = chunks[(k - w) + 1]
      BY <1>1, <3>1 DEF ExpectedAt
    <3>3. H[k] = chunks[(k - w) + 1]
      BY <1>2, <1>3, <2>0, <2>1, HeapIs
    <3>. QED
      BY <3>2, <3>3
  <2>2. CASE ~(k >= w)
    <3>1. k <= d /\ k \in 1..(w - 1)
      BY <1>2, <2>0, <2>2
    <3>2. ExpectedAt(k) = hashes[k]
      BY <1>1, <3>1 DEF ExpectedAt
    <3>. QED
      BY <1>0, <1>3, <3>1, <3>2
  <2>. QED
    BY <2>1, <2>2
<1>. QED
  BY <1>1, <1>3, <1>4

\* A branch of such a package is complete just when its two halves are.
LEMMA MatchesDecided ==
  ASSUME BuildInv, ExactInv, Finished, Consistent
  PROVE  /\ nchunks \in Nat \ {0} /\ nhashes = nchunks - 1 /\ Places = 1..((2 * nchunks) - 1)
         /\ Decided({k \in Places : Match(k)}, nchunks)
<1>0. PackageInv /\ Perfect
  BY DEF BuildInv, Consistent
<1>1. PICK w : w = nchunks
  OBVIOUS
<1>2. /\ w \in Nat \ {0} /\ nhashes = w - 1 /\ Places = 1..((2 * w) - 1)
      /\ Heap(MerkleHash, LeafHash, w)
  BY <1>0, <1>1, MerkleIs, PackageIs DEF Perfect
<1>3. PICK H : Heap(H, chunks, w) /\ \A k \in Places : ExpectedAt(k) = H[k]
  BY <1>1, ExpectedHeap
<1>4. PICK a, b, f : a = LeafHash /\ b = chunks /\ f = MerkleHash
  OBVIOUS
<1>5. Leaves(a, w) /\ Leaves(b, w)
  BY <1>0, <1>1, <1>4, LeavesAre DEF ExactInv
<1>6. Decided({k \in 1..((2 * w) - 1) : f[k] = H[k]}, w)
  <2>1. w \in Nat \ {0} /\ Heap(f, a, w) /\ Heap(H, b, w)
    BY <1>2, <1>3, <1>4
  <2>. QED
    BY ONLY <1>5, <2>1, HeapsMeet
<1>7. ASSUME NEW k \in Places PROVE Match(k) <=> f[k] = H[k]
  <2>1. tree[NodeAt[k]].computed = f[k] /\ tree[NodeAt[k]].expected = H[k]
    BY <1>0, <1>3, <1>4, PlaceIs
  <2>. QED
    BY <2>1 DEF Match, At
<1>8. {k \in Places : Match(k)} = {k \in 1..((2 * w) - 1) : f[k] = H[k]}
  BY <1>2, <1>7
<1>. QED
  BY <1>1, <1>2, <1>6, <1>8

\* The chunks below some places are the leaves they cover.
LEMMA ChunksCovered ==
  ASSUME nchunks \in Nat \ {0}, NEW S, NEW i \in 1..nchunks
  PROVE  /\ (nchunks + i) - 1 \in nchunks..((2 * nchunks) - 1)
         /\ i \in ChunksBelow(S) <=> (nchunks + i) - 1 \in Covered(S, nchunks)
<1>1. PICK w, x : w = nchunks /\ x = (w + i) - 1
  OBVIOUS
<1>2. x \in w..((2 * w) - 1) /\ x = w + i - 1
  BY <1>1
<1>3. i \in ChunksBelow(S) <=> \E k \in S : Above(k, x)
  BY <1>1, <1>2 DEF ChunksBelow
<1>4. x \in Covered(S, w) <=> \E k \in S : Above(k, x)
  BY <1>2 DEF Covered
<1>. QED
  BY <1>1, <1>2, <1>3, <1>4

\* The complete branches inside no larger one stand for the complete chunks,
\* and no smaller set of branches does.
LEMMA TopMatchesSmallest ==
  ASSUME BuildInv, ExactInv, Finished, Consistent
  PROVE  /\ ChunksBelow(TopMatches) = CompleteChunks
         /\ \A S \in SUBSET Places :
              ChunksBelow(S) = CompleteChunks => Cardinality(TopMatches) <= Cardinality(S)
<1>1. PICK w, M, L : w = nchunks /\ M = {k \in Places : Match(k)} /\ L = w..((2 * w) - 1)
  OBVIOUS
<1>2. /\ w \in Nat \ {0} /\ nhashes = w - 1 /\ Places = 1..((2 * w) - 1)
      /\ Decided(M, w)
  BY <1>1, MatchesDecided
<1>3. TopMatches = Tops(M, w)
  BY <1>1, <1>2 DEF TopMatches, Tops
<1>4. ASSUME NEW i \in 1..w
      PROVE  /\ (w + i) - 1 \in L
             /\ i \in CompleteChunks <=> (w + i) - 1 \in M
             /\ \A S : i \in ChunksBelow(S) <=> (w + i) - 1 \in Covered(S, w)
  <2>1. nhashes + i = (w + i) - 1 /\ i \in 1..nchunks
    BY <1>1, <1>2
  <2>2. Match(nhashes + i) <=> HashOf(data[i]) = chunks[i]
    BY <2>1, PerfectLeaf DEF Consistent
  <2>3. /\ (w + i) - 1 \in L
        /\ \A S : i \in ChunksBelow(S) <=> (w + i) - 1 \in Covered(S, w)
    BY <1>1, <1>2, <2>1, ChunksCovered
  <2>4. (w + i) - 1 \in Places
    BY <1>2
  <2>5. i \in CompleteChunks <=> HashOf(data[i]) = chunks[i]
    BY <2>1 DEF CompleteChunks
  <2>. QED
    BY <1>1, <2>1, <2>2, <2>3, <2>4, <2>5
<1>5. (\A S : ChunksBelow(S) \subseteq 1..w) /\ CompleteChunks \subseteq 1..w
  BY <1>1 DEF ChunksBelow, CompleteChunks
<1>6. Covered(Tops(M, w), w) = M \cap L
  BY <1>1, <1>2, TopsCover
<1>7. ChunksBelow(TopMatches) = CompleteChunks
  BY <1>3, <1>4, <1>5, <1>6
<1>8. ASSUME NEW S \in SUBSET Places, ChunksBelow(S) = CompleteChunks
      PROVE  Cardinality(TopMatches) <= Cardinality(S)
  <2>1. ASSUME NEW x \in L PROVE x \in Covered(S, w) <=> x \in M
    <3>1. PICK i : i = (x - w) + 1
      OBVIOUS
    <3>2. i \in 1..w /\ (w + i) - 1 = x
      BY <1>1, <1>2, <3>1
    <3>. QED
      BY <1>4, <1>8, <3>2
  <2>2. Covered(S, w) \subseteq L
    BY <1>1 DEF Covered
  <2>3. Covered(S, w) = M \cap L
    BY <2>1, <2>2
  <2>4. S \in SUBSET (1..((2 * w) - 1)) /\ Covered(S, w) = M \cap (w..((2 * w) - 1))
    BY <1>1, <1>2, <2>3
  <2>5. Cardinality(Tops(M, w)) <= Cardinality(S)
    BY ONLY <1>2, <2>4, TopsFewest
  <2>. QED
    BY <1>3, <2>5
<1>. QED
  BY <1>7, <1>8

\* The invariant says that -min_hashes answers with the smallest set.
LEMMA SmallestIs ==
  ASSUME AllInv, ExactInv, AnswerInv
  PROVE  MinHashesSmallest
<1>. SUFFICES ASSUME phase = "answered", query = "min_hashes", Consistent
              PROVE  /\ ChunksBelow(TopMatches) = CompleteChunks
                     /\ \A S \in SUBSET Places :
                          ChunksBelow(S) = CompleteChunks => Cardinality(S) >= Len(qry)
  BY DEF MinHashesSmallest, Answered
<1>1. BuildInv /\ Finished
  BY DEF AllInv, Finished
<1>2. Len(qry) = Cardinality(TopMatches)
  BY DEF AnswerInv, Lists
<1>3. PICK t : t = Cardinality(TopMatches)
  OBVIOUS
<1>4. /\ ChunksBelow(TopMatches) = CompleteChunks
      /\ \A S \in SUBSET Places : ChunksBelow(S) = CompleteChunks => t <= Cardinality(S)
  BY <1>1, <1>3, TopMatchesSmallest
<1>5. ASSUME NEW S \in SUBSET Places, t <= Cardinality(S) PROVE Cardinality(S) >= t
  BY <1>5
<1>. QED
  BY <1>2, <1>3, <1>4, <1>5

\* MinHashesSmallest of TreeQuery: of a package whose hashes are right, what
\* -min_hashes answers stands for exactly the chunks whose data is right, and
\* no set of fewer branches does: "the smallest set of hashes of completed
\* branches" of pkgchk.c.
THEOREM MinHashesSmallestCorrect == QuerySpec => []MinHashesSmallest
<1>1. AllInv /\ ExactInv /\ AnswerInv => MinHashesSmallest
  BY SmallestIs
<1>. QED
  BY <1>1, Answering, PTL
=============================================================================
