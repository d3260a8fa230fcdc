----------------------------- MODULE TreeQuery ------------------------------
(***************************************************************************)
(* The queries on a package and its Merkle tree (pkgchk.c), from the tree  *)
(* that MerkleTree builds to the freeing of the tree.                      *)
(*                                                                         *)
(* One step of a traversal pops one node from the queue.  pkgmain answers  *)
(* one query and frees everything; btide asks whether a package is         *)
(* complete each time it lists its packages, and frees it when it is       *)
(* removed: after an answer either another query or the freeing follows.   *)
(***************************************************************************)
EXTENDS MerkleTree

VARIABLES
  query,    \* the last query, "none" at first
  target,   \* its argument, the hash of -hashes_of
  qry,      \* qry.hashes; its length is qry.len
  freed     \* the nodes that freeTree has freed

treeVars == <<package, build>>
queryVars == <<query, target, qry, freed>>
allVars == <<vars, queryVars>>

NoHash == <<>>

QueryInit ==
  /\ Init
  /\ query = "none"
  /\ target = NoHash
  /\ qry = <<>>
  /\ freed = {}

Root == 1

-----------------------------------------------------------------------------
(***************************************************************************)
(* The queries                                                             *)
(***************************************************************************)

\* A query starts with an empty result and a queue that holds the root.
Ask(q, h) ==
  /\ Built
  /\ query' = q
  /\ target' = h
  /\ qry' = <<>>
  /\ queue' = <<Root>>
  /\ phase' = "query"
  /\ UNCHANGED <<treeVars, freed>>

\* bpkg_get_all_hashes reads the package and not the tree.
GetAllHashes ==
  /\ Built
  /\ query' = "all_hashes"
  /\ target' = NoHash
  /\ qry' = hashes \o chunks
  /\ phase' = "answered"
  /\ UNCHANGED <<treeVars, queue, freed>>

\* The hash of -hashes_of is any string: one of the package, or another.
AskHashesOf ==
  \E h \in ToSet(hashes) \cup ToSet(chunks) \cup {HashOf("unknown")} :
    Ask("find", h)

node == tree[Head(queue)]
matches == node.computed = node.expected

\* A query pops a node, appends found to its result and pushes push.
Visit(q, found, push) ==
  /\ phase = "query" /\ query = q /\ queue # <<>>
  /\ qry' = qry \o found
  /\ queue' = Tail(queue) \o push
  /\ UNCHANGED <<treeVars, phase, query, target, freed>>

\* bpkg_get_completed_chunks: the leaves whose hashes match
CompletedStep ==
  Visit("chunk_check",
        IF node.is_leaf /\ matches THEN <<node.expected>> ELSE <<>>,
        Children(Head(queue)))

\* Mutant: the children of a complete branch are visited too.
MinStepDescends ==
  Visit("min_hashes",
        IF matches THEN <<node.expected>> ELSE <<>>,
        IF node.is_leaf THEN <<>> ELSE <<node.left, node.right>>)

\* bpkg_get_min_completed_hashes: a matching node is reported and the
\* traversal does not go below it.
MinStep ==
  Visit("min_hashes",
        IF matches THEN <<node.expected>> ELSE <<>>,
        IF matches \/ node.is_leaf THEN <<>> ELSE <<node.left, node.right>>)

\* bpkg_get_all_chunk_hashes_from_hash: the search for the node ...
FindStep ==
  /\ phase = "query" /\ query = "find" /\ queue # <<>>
  /\ node.expected # target
  /\ Visit("find", <<>>, IF node.is_leaf THEN <<>> ELSE <<node.left, node.right>>)

\* Mutant: the queue of the search is not emptied.
FindMatchKeepsQueue ==
  /\ phase = "query" /\ query = "find" /\ queue # <<>>
  /\ node.expected = target
  /\ query' = "hashes_of"
  /\ UNCHANGED <<treeVars, phase, queue, target, qry, freed>>

\* ... which stops at the first one and restarts the queue with it ...
FindMatch ==
  /\ phase = "query" /\ query = "find" /\ queue # <<>>
  /\ node.expected = target
  /\ query' = "hashes_of"
  /\ queue' = <<Head(queue)>>
  /\ UNCHANGED <<treeVars, phase, target, qry, freed>>

\* ... and the collection of the leaves below it.
CollectStep ==
  Visit("hashes_of",
        IF node.is_leaf THEN <<node.expected>> ELSE <<>>,
        IF node.is_leaf THEN <<>> ELSE <<node.left, node.right>>)

\* The queue is empty: the result is returned.
QueryEnd ==
  /\ phase = "query" /\ queue = <<>>
  /\ phase' = "answered"
  /\ UNCHANGED <<treeVars, queue, queryVars>>

\* bpkg_query_destroy
QueryDestroy ==
  /\ phase = "answered"
  /\ phase' = "built"
  /\ query' = "none"
  /\ target' = NoHash
  /\ qry' = <<>>
  /\ UNCHANGED <<treeVars, queue, freed>>

-----------------------------------------------------------------------------
(***************************************************************************)
(* freeTree                                                                *)
(***************************************************************************)

FreeTree ==
  /\ Built
  /\ queue' = <<Root>>
  /\ phase' = "free"
  /\ UNCHANGED <<treeVars, queryVars>>

\* Mutant: children are not freed below a node that matches.
FreeTreeStepSkips ==
  /\ phase = "free" /\ queue # <<>>
  /\ queue' = Tail(queue) \o (IF matches THEN <<>> ELSE Children(Head(queue)))
  /\ freed' = freed \cup {Head(queue)}
  /\ UNCHANGED <<treeVars, phase, query, target, qry>>

\* A node is freed once its children are queued.
FreeTreeStep ==
  /\ phase = "free" /\ queue # <<>>
  /\ queue' = Tail(queue) \o Children(Head(queue))
  /\ freed' = freed \cup {Head(queue)}
  /\ UNCHANGED <<treeVars, phase, query, target, qry>>

FreeTreeEnd ==
  /\ phase = "free" /\ queue = <<>>
  /\ phase' = "end"
  /\ UNCHANGED <<treeVars, queue, queryVars>>

-----------------------------------------------------------------------------

QueryNext ==
  \/ Build /\ UNCHANGED queryVars
  \/ GetAllHashes
  \/ Ask("chunk_check", NoHash) \/ Ask("min_hashes", NoHash) \/ AskHashesOf
  \/ CompletedStep \/ MinStep \/ FindStep \/ FindMatch \/ CollectStep
  \/ QueryEnd \/ QueryDestroy
  \/ FreeTree \/ FreeTreeStep \/ FreeTreeEnd
  \/ phase \in {"fault", "end"} /\ UNCHANGED allVars

QuerySpec == QueryInit /\ [][QueryNext]_allVars

-----------------------------------------------------------------------------
(***************************************************************************)
(* What the answers should be                                              *)
(***************************************************************************)

Answered(q) == phase = "answered" /\ query = q

\* The node at place k.
At(k) == tree[NodeAt[k]]
Match(k) == At(k).computed = At(k).expected

Expected == [k \in Places |-> At(k).expected]

\* q lists the hashes h[k] of the numbers k of S in their order.
Rank(S, k) == Cardinality({j \in S : j <= k})
Lists(q, S, h) == Len(q) = Cardinality(S) /\ \A k \in S : q[Rank(S, k)] = h[k]

\* j is k or an ancestor of k.
Above(j, k) == \E l \in 0..Level(k) : j = k \div Pow[l]

LeafPlaces == {k \in Places : k >= Pow[depth - 1]}

\* The complete branches that are not inside a larger one.
TopMatches == {k \in Places : Match(k) /\ \A j \in Places \ {k} : Above(j, k) => ~Match(j)}

\* The chunks below the places of S, and those the data file has complete.
ChunksBelow(S) ==
  {i \in 1..nchunks : \E k \in S : Above(k, nchunks + i - 1)}
CompleteChunks == {i \in 1..nchunks : HashOf(data[i]) = chunks[i]}

Consistent == Perfect /\ hashes = HashesOver(chunks)

-----------------------------------------------------------------------------
(***************************************************************************)
(* Properties                                                              *)
(***************************************************************************)

QueryTypeOK ==
  /\ query \in {"none", "all_hashes", "chunk_check", "min_hashes", "find", "hashes_of"}
  /\ \A i \in DOMAIN qry : qry[i] \in ToSet(hashes) \cup ToSet(chunks)
  /\ \A i \in DOMAIN queue : queue[i] \in DOMAIN tree
  /\ freed \subseteq DOMAIN tree

\* No query stores more hashes than it has allocated: nchunks for those that
\* walk the tree, although they meet more nodes than that.
WithinCapacity ==
  Len(qry) <= IF query = "all_hashes" THEN nhashes + nchunks ELSE nchunks

\* The result array is never written past its end, and holds hashes of the
\* package only.
ResultInBounds == QueryTypeOK /\ WithinCapacity

\* -all_hashes, which copies the package's arrays, lists the expected hashes
\* of the tree in level order.
AllHashesInLevelOrder ==
  Answered("all_hashes") /\ Perfect => Lists(qry, Places, Expected)

\* -chunk_check lists exactly the chunks whose data is right, in file order,
\* whatever the inner hashes of the package are.
CompletedChunksExact ==
  Answered("chunk_check") /\ Perfect => Lists(qry, CompleteChunks, chunks)

\* -min_hashes lists the complete branches that are inside no larger one, in
\* level order, also when hashes of the package are wrong.
MinHashesExact == Answered("min_hashes") => Lists(qry, TopMatches, Expected)

\* pkgchk.c: "the smallest set of hashes of completed branches to represent
\* the completion state of the file".  Of a package whose hashes are right,
\* the result stands for the complete chunks, and no smaller set of branches
\* does.  The example in pkgchk.h says something else: see HalfAsDocumented.
MinHashesSmallest ==
  Answered("min_hashes") /\ Consistent =>
    /\ ChunksBelow(TopMatches) = CompleteChunks
    /\ \A S \in SUBSET Places : ChunksBelow(S) = CompleteChunks => Cardinality(S) >= Len(qry)

\* pkgchk.h gives an example of bpkg_get_min_completed_hashes: "If chunks
\* representing start to mid have been completed but mid to end have not been,
\* then we will have (N_CHUNKS/2) + 1 hashes outputted".  The code reports one
\* hash then, that of the branch over the first half.
HalfAsDocumented ==
  Answered("min_hashes") /\ Consistent /\ nchunks > 1 /\ CompleteChunks = 1..(nchunks \div 2)
    => Len(qry) = nchunks \div 2 + 1

\* -hashes_of lists the chunk hashes below the first node in level order that
\* expects the hash, in file order, and nothing when there is none.
HashesOfExact ==
  phase = "answered" /\ query \in {"find", "hashes_of"} =>
    LET named == {k \in Places : At(k).expected = target}
    IN Lists(qry, {k \in LeafPlaces : \E m \in named : Above(m, k) /\ \A j \in named : m <= j},
             Expected)

\* Each of the four queries answers what it is asked.
AnswersExact ==
  AllHashesInLevelOrder /\ CompletedChunksExact /\ MinHashesExact /\ HashesOfExact

\* freeTree never queues a node twice or reads one it has freed, and leaves
\* no node behind.
FreedOnce ==
  /\ phase = "free" => IsInjective(queue) /\ ToSet(queue) \cap freed = {}
  /\ phase = "end" => freed = DOMAIN tree
=============================================================================
