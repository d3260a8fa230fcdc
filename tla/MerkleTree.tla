----------------------------- MODULE MerkleTree -----------------------------
(***************************************************************************)
(* The Merkle tree of a package, from a loaded bpkg object to a tree whose *)
(* nodes hold the hash computed from the data file and the hash expected   *)
(* by the package: hashChunk, recursiveTree with computeParentHash, and    *)
(* levelOrderAddHash.                                                      *)
(*                                                                         *)
(* A node is a number in the order of its malloc; pointers are numbers and *)
(* NULL is 0.  The recursion of recursiveTree is an explicit stack of      *)
(* frames and one step runs a frame to its next call or return.  A hash is *)
(* a sequence of symbols: that of a chunk is its content, that of a pair   *)
(* its bracketed concatenation, so different inputs have different hashes  *)
(* (the model of SHA-256 is a function without collisions).                *)
(*                                                                         *)
(* bpkg_load accepts any package with nchunks = nhashes + 1, whatever the  *)
(* hashes are; the packages of the model have between them hashes that are *)
(* right for the chunks and hashes that are not.                           *)
(***************************************************************************)
EXTENDS Naturals, Sequences, SequencesExt

CONSTANTS
  NChunks,   \* the values of nchunks a package may have
  Content    \* what a chunk may hold

ASSUME NChunksAssumption == NChunks \subseteq Nat \ {0}
ASSUME ContentAssumption == "garbage" \notin Content   \* what Garbage is made of

VARIABLES
  chunks,    \* the hashes of the chunks in the package, chunks[i + 1].hashvalue
  hashes,    \* the other hashes in the package
  data,      \* the chunks of the data file
  hash,      \* the result of hashChunk, <<>> for NULL
  phase,     \* where add_package or main() is
  tree,      \* the nodes, in the order of their allocation
  stack,     \* the frames of recursiveTree, the innermost last
  queue,     \* the queue of a level order traversal
  index, index2  \* the locals of levelOrderAddHash

package == <<chunks, hashes, data>>
build == <<hash, tree, stack, index, index2>>
vars == <<package, build, phase, queue>>

NULL == 0
nchunks == Len(chunks)
nhashes == Len(hashes)

HashOf(c) == <<c>>
HashPair(l, r) == <<"(">> \o l \o r \o <<")">>
Garbage == <<"garbage">>    \* what malloc leaves in a hash
Bogus == <<"bogus">>        \* the hash of something else

\* 2^k
Pow[k \in Nat] == IF k = 0 THEN 1 ELSE 2 * Pow[k - 1]

\* (int) log2(n), for n > 0
Log2(n) == CHOOSE k \in 0..n : Pow[k] <= n /\ n < Pow[k + 1]

depth == Log2(nchunks) + 1

\* createNode, and the assignment of its parent
NewNode(p) == [parent |-> p, left |-> NULL, right |-> NULL, is_leaf |-> FALSE,
               position |-> 0, computed |-> Garbage, expected |-> Garbage]

\* A call recursiveTree(depth, level, node, position, hash) and how far it is.
Frame(n, level, pos, at) == [node |-> n, level |-> level, position |-> pos, at |-> at]

\* The hashes of a tree over the chunk hashes c, numbered in level order.
HashesOver(c) ==
  LET H[k \in 1..(2 * Len(c) - 1)] ==
        IF k >= Len(c) THEN c[k - Len(c) + 1] ELSE HashPair(H[2 * k], H[2 * k + 1])
  IN [k \in 1..(Len(c) - 1) |-> H[k]]

Packages(n) ==
  {[chunks |-> [i \in 1..n |-> HashOf(c[i])],
    hashes |-> [k \in 1..(n - 1) |->
                 IF k \in bogus THEN Bogus ELSE HashesOver([i \in 1..n |-> HashOf(c[i])])[k]]]
   : c \in [1..n -> Content], bogus \in SUBSET (1..(n - 1))}

Init ==
  /\ \E n \in NChunks : \E p \in Packages(n) :
       chunks = p.chunks /\ hashes = p.hashes /\ data \in [1..n -> Content]
  /\ hash = <<>>
  /\ phase = "hash"
  /\ tree = <<NewNode(NULL)>>   \* initialiseTree
  /\ stack = <<>>
  /\ queue = <<>>
  /\ index = 0
  /\ index2 = 0

-----------------------------------------------------------------------------
(***************************************************************************)
(* hashChunk and recursiveTree                                             *)
(***************************************************************************)

\* Every chunk of the data file is hashed, or NULL is returned because the
\* file cannot be opened or mapped; recursiveTree is called on the root.
HashChunk ==
  /\ phase = "hash"
  /\ hash' \in {[i \in 1..nchunks |-> HashOf(data[i])], <<>>}
  /\ stack' = <<Frame(1, 1, 0, "enter")>>
  /\ phase' = "build"
  /\ UNCHANGED <<package, tree, queue, index, index2>>

top == Last(stack)
Building(at) == phase = "build" /\ stack # <<>> /\ top.at = at
AtLeaf == top.level = depth

\* Mutant: the right child is built first.
DescendRight ==
  /\ Building("enter") /\ ~AtLeaf
  /\ LET n == top.node
         l == Len(tree) + 1
     IN /\ tree' = [tree EXCEPT ![n].left = l, ![n].right = l + 1]
                     \o <<NewNode(n), NewNode(n)>>
        /\ stack' = Append(Front(stack), [top EXCEPT !.at = "right"])
                     \o <<Frame(l, top.level + 1, top.position * 2, "enter"),
                          Frame(l + 1, top.level + 1, top.position * 2 + 1, "enter")>>
  /\ UNCHANGED <<package, hash, phase, queue, index, index2>>

\* Both children are created, then the left one is built ...
Descend ==
  /\ Building("enter") /\ ~AtLeaf
  /\ LET n == top.node
         l == Len(tree) + 1
     IN /\ tree' = [tree EXCEPT ![n].left = l, ![n].right = l + 1]
                     \o <<NewNode(n), NewNode(n)>>
        /\ stack' = Append(Front(stack), [top EXCEPT !.at = "left"])
                     \o <<Frame(l, top.level + 1, top.position * 2, "enter")>>
  /\ UNCHANGED <<package, hash, phase, queue, index, index2>>

\* ... then the right one.
DescendAgain ==
  /\ Building("left")
  /\ stack' = Append(Front(stack), [top EXCEPT !.at = "right"])
                \o <<Frame(tree[top.node].right, top.level + 1, top.position * 2 + 1, "enter")>>
  /\ UNCHANGED <<package, hash, phase, tree, queue, index, index2>>

\* A node with a parent of which it is the right child.
IsRightChild(t, n) == t[n].parent # NULL /\ t[t[n].parent].right = n

\* computeParentHash(n): hash(left + right) of the parent.
WithParentHash(t, n) ==
  LET p == t[n].parent
  IN [t EXCEPT ![p].computed = HashPair(t[t[p].left].computed, t[t[p].right].computed)]

\* The subtrees are built: the hash of the parent is computed by its right
\* child, and the call returns.
Return ==
  /\ Building("right")
  /\ tree' = IF IsRightChild(tree, top.node) THEN WithParentHash(tree, top.node) ELSE tree
  /\ stack' = Front(stack)
  /\ UNCHANGED <<package, hash, phase, queue, index, index2>>

\* A leaf takes the hash of its chunk, and the call returns.
Leaf ==
  /\ Building("enter") /\ AtLeaf
  /\ top.position < Len(hash) /\ tree[top.node].parent # NULL
  /\ LET t == [tree EXCEPT ![top.node].is_leaf = TRUE,
                           ![top.node].position = top.position,
                           ![top.node].computed = hash[top.position + 1]]
     IN tree' = IF IsRightChild(t, top.node) THEN WithParentHash(t, top.node) ELSE t
  /\ stack' = Front(stack)
  /\ UNCHANGED <<package, hash, phase, queue, index, index2>>

\* hash is NULL or too short, or the leaf is the root and has no parent to
\* look at.
LeafFault ==
  /\ Building("enter") /\ AtLeaf
  /\ top.position >= Len(hash) \/ tree[top.node].parent = NULL
  /\ phase' = "fault"
  /\ UNCHANGED <<package, build, queue>>

\* recursiveTree has returned; levelOrderAddHash starts at the root.
BuildEnd ==
  /\ phase = "build" /\ stack = <<>>
  /\ phase' = "expect"
  /\ queue' = <<1>>
  /\ UNCHANGED <<package, build>>

-----------------------------------------------------------------------------
(***************************************************************************)
(* levelOrderAddHash                                                       *)
(***************************************************************************)

Pushed(m) == IF m = NULL THEN <<>> ELSE <<m>>
Children(n) == Pushed(tree[n].left) \o Pushed(tree[n].right)

\* Mutant: the right child is queued before the left one.
ExpectRightFirst ==
  /\ phase = "expect" /\ queue # <<>>
  /\ IF index < nhashes
       THEN /\ tree' = [tree EXCEPT ![Head(queue)].expected = hashes[index + 1]]
            /\ index' = index + 1 /\ UNCHANGED index2
       ELSE /\ tree' = [tree EXCEPT ![Head(queue)].expected = chunks[index2 + 1]]
            /\ index2' = index2 + 1 /\ UNCHANGED index
  /\ queue' = Tail(queue) \o Reverse(Children(Head(queue)))
  /\ UNCHANGED <<package, hash, phase, stack>>

\* The node popped takes the next hash of the package, those of the inner
\* nodes first, and its children are pushed.
Expect ==
  /\ phase = "expect" /\ queue # <<>>
  /\ IF index < nhashes
       THEN /\ tree' = [tree EXCEPT ![Head(queue)].expected = hashes[index + 1]]
            /\ index' = index + 1 /\ UNCHANGED index2
       ELSE /\ tree' = [tree EXCEPT ![Head(queue)].expected = chunks[index2 + 1]]
            /\ index2' = index2 + 1 /\ UNCHANGED index
  /\ queue' = Tail(queue) \o Children(Head(queue))
  /\ UNCHANGED <<package, hash, phase, stack>>

ExpectEnd ==
  /\ phase = "expect" /\ queue = <<>>
  /\ phase' = "built"
  /\ UNCHANGED <<package, build, queue>>

Build ==
  \/ HashChunk \/ Descend \/ DescendAgain \/ Return \/ Leaf \/ LeafFault \/ BuildEnd
  \/ Expect \/ ExpectEnd

Stop == phase \in {"built", "fault"} /\ UNCHANGED vars

Next == Build \/ Stop

Spec == Init /\ [][Next]_vars

-----------------------------------------------------------------------------
(***************************************************************************)
(* What the tree should be                                                 *)
(***************************************************************************)

\* A perfect tree of this package has depth levels; its k-th place in level
\* order is the place pos of a level, counted from zero.
Places == 1..(Pow[depth] - 1)
Level(k) == Log2(k)
Pos(k) == k - Pow[Level(k)]

\* The node at each place, found by following the pointers from the root.
NodeAt[k \in Places] ==
  IF k = 1 THEN 1
  ELSE LET p == tree[NodeAt[k \div 2]] IN IF k % 2 = 0 THEN p.left ELSE p.right

\* The Merkle hash of each place, over the chunks of the data file.
MerkleHash ==
  LET M[k \in Places] ==
        IF k >= Pow[depth - 1] THEN HashOf(data[k - Pow[depth - 1] + 1])
        ELSE HashPair(M[2 * k], M[2 * k + 1])
  IN M

Perfect == nchunks = Pow[depth - 1]

\* The tree is finished.
Built == phase = "built"

-----------------------------------------------------------------------------
(***************************************************************************)
(* Properties                                                              *)
(***************************************************************************)

TypeOK ==
  /\ nchunks \in NChunks /\ nhashes = nchunks - 1 /\ Len(data) = nchunks
  /\ Len(hash) \in {0, nchunks}
  /\ phase \in {"hash", "build", "expect", "built", "fault", "query", "answered", "free", "end"}
  /\ Len(tree) \in Places
  /\ \A n \in DOMAIN tree :
       tree[n].left \in 0..Len(tree) /\ tree[n].right \in 0..Len(tree)
  /\ Len(stack) <= depth
  /\ index \in 0..nhashes
  /\ index2 \in 0..nchunks

\* computeParentHash reads the hashes of both children after they are
\* computed, never what malloc left in them: no hash is built from garbage.
NoGarbageHashed ==
  \A n \in DOMAIN tree :
    tree[n].computed = Garbage \/ ~Contains(tree[n].computed, "garbage")

\* Every inner node is computed exactly when its right subtree has been: the
\* nodes still without a hash are those the recursion has not left.
ComputedOnReturn ==
  \A n \in DOMAIN tree :
    ~tree[n].is_leaf /\ tree[n].right # NULL =>
      (tree[n].computed # Garbage <=> tree[tree[n].right].computed # Garbage
          /\ ~\E i \in DOMAIN stack : stack[i].node = tree[n].right)

\* The finished tree is the perfect binary tree over the chunks in file
\* order: the computed hash of every place is the Merkle hash of the data,
\* although children are allocated in pairs and parents are hashed from
\* their right child.
ComputedIsMerkle ==
  Built => \A k \in Places : tree[NodeAt[k]].computed = MerkleHash[k]

\* The expected hashes land where they belong: the traversal by queue gives
\* the inner nodes the package's hashes in level order, and the leaf of each
\* chunk, found by position, the hash of that very chunk.
ExpectedInPlace ==
  Built /\ Perfect =>
    \A k \in Places :
      LET n == tree[NodeAt[k]]
      IN IF k < nchunks THEN n.expected = hashes[k] /\ ~n.is_leaf
         ELSE n.is_leaf /\ n.position = k - nchunks /\ n.expected = chunks[n.position + 1]

\* With a package whose hashes are right for its chunks, the root matches
\* exactly when every chunk of the data file does.
RootDecides ==
  Built /\ Perfect /\ hashes = HashesOver(chunks) =>
    (tree[1].computed = tree[1].expected <=> \A i \in 1..nchunks : HashOf(data[i]) = chunks[i])

\* Building the tree faults only without chunk hashes or for a single chunk.
FaultExplained == phase = "fault" => hash = <<>> \/ nchunks = 1

\* What holds while the tree is being built, and what the tree is then.
TreeInv == TypeOK /\ NoGarbageHashed /\ ComputedOnReturn /\ FaultExplained
TreeExact == ComputedIsMerkle /\ ExpectedInPlace /\ RootDecides
=============================================================================
