# Verification of the distributed packaging system

The system is two C programs around one package format. `btide` is a peer: it
reads commands from its terminal, listens on a port, connects to other peers
and keeps a list of packages. `pkgmain` answers one question about one package
from the command line. A package (`.bpkg`) names a data file, its chunks with
their SHA-256 hashes, and the inner hashes of the Merkle tree over them.

This directory holds TLA+ modules of the parts where the behaviour is hard to
see in a test, the TLC instances that check them and TLAPS proofs for every
size. `PROJECT.json` lists components, runs, mutants, findings, hazards,
theorems, and for each definition the lines of source it stands for.

## Inventory

| Part | Source | State it keeps | Operations | What is hard |
|---|---|---|---|---|
| Command loop | `btide.c` | `main_loop`, the heads of both lists, the configuration | one branch of `process_command` per command | calls into everything below; QUIT must stop the server thread and free what all threads share |
| Peer list | `peer.c`, `btide.c` | a linked list of `peer_info`, a mutex, sockets | CONNECT (search, then a detached thread connects and appends), DISCONNECT, PEERS, freeing at QUIT | the package of each client thread holds a *copy* of the mutex, so appends exclude nobody |
| Server thread | `peer.c`, `btide.c` | listening socket, epoll instance, eventfd, `shutdown_flag` | `server()`, QUIT's handshake | edge-triggered wake-up, partial failure, descriptor reuse |
| Merkle tree | `merkletree.c` | nodes with computed and expected hash | `hashChunk`, `recursiveTree`, `levelOrderAddHash`, `freeTree` | built depth first, labelled in level order |
| Queries | `pkgchk.c` | a queue, a result array of fixed size | four queries and their destruction | which nodes are visited and reported, and how many |
| Package loader | `pkgchk.c` | the parsed package | `bpkg_load` | reads on at the end of the file; ends the whole process on a malformed package; accepts trees that are not perfect |
| Data file | `pkgchk.c`, `package.c`, `merkletree.c` | a file that several processes share | `fopen`, `make_file`, `bpkg_file_check`, `hashChunk` | created, sized and mapped in separate system calls |
| Package list | `package.c` | a linked list of packages | ADDPACKAGE, REMPACKAGE, PACKAGES, freeing at QUIT | status is as of the time of adding; removal by any prefix |
| Configuration | `config.c` | directory, max_peers, port | `config_load` | missing fields, exit codes; `max_peers` is never enforced |
| pkgmain | `pkgmain.c` | none | argument selection, one query | an invalid flag ends silently |
| SHA-256 | `sha256.c` | a partial block and the total size | init, update, finalize | block buffering and padding |
| Packets | `packet.c` | none | two wrappers nobody calls | nothing |

How they interact: `main` loads the configuration, creates the eventfd and the
server thread, and runs commands. Client threads share with the main thread the
list head (a local of `main`, passed by address) and the list's objects; they
share with everybody the table of descriptors. The server thread shares the
eventfd, `shutdown_flag` with its mutex, and the port inside the configuration.
Package commands, the tree and the queries run on the main thread alone, and in
`pkgmain` in a single-threaded process.

What makes each part correct:

- peer list: the main thread never touches a freed peer; every listed peer is
  connected; nothing is freed twice or while its client thread works on it; no
  peer is lost or listed twice; every command and every client thread ends;
- server: QUIT always ends the process; the server thread never blocks on the
  wrong thing, uses only its own descriptors and closes them all;
- tree: the computed hash of each node is the Merkle hash of its chunks and the
  expected hash is the package's hash of the same place;
- queries: the result is the reference answer and fits its array;
- packages: the linked list is at every prompt the sequence of what was added
  and not removed, what PACKAGES prints is this sequence, and QUIT frees it;
- loader and configuration: what is accepted is what was written, and what is
  not is refused with the exit code of the first check that fails;
- data file: no process destroys data that has arrived, and a chunk that was
  found complete is;
- hashing: the digest is that of the bytes given, however they are cut up.

## Modules

`X` below has instances in `MCX.tla`, which gives values to the constants.

### `PeerList.tla`

State: the list head (`peer_list`), the fields of each `peer_info` (`addr`,
`next`, `sock`), the state of its heap block (`mem`), the global mutex and the
copy in each package, the program counter and locals of the main thread (`mpc`,
`marg`, `mcur`, `mprev`, `mnext`) and of each client thread (`cpc`, `cur`), and
the process (`proc`).

The grain is one access to shared memory. The Makefile compiles without
optimisation, so a pointer written twice in the source is loaded twice:
`current->next` in the loop condition of `add_peer` and in its body may differ,
and so may the two loads of the head. `remove_peer` loads `current->next`
(`RemovePeerMatch`), stores it (`RemovePeerUnlink`), then closes and frees
(`RemovePeerFree`). What a thread does with its own memory, and the release of
a mutex with the last access before it, share a step. The build runs under
AddressSanitizer: a use of freed memory, a second `free` or a NULL dereference
ends the process (`proc = "aborted"`), and a freed address is not handed out
again, which is why one element of `Peer` is one `malloc`.

An address is refused by `validIP` before anything changes, so of the addresses
only accepted ones are modelled; one that is longer than the arrays it is copied
to ends the process, as other arguments and the package commands can
(`CommandEnds`). `malloc` failures and signals are not modelled.

### `Server.tla`

State: the descriptor table (who opened each number), `efd` and the counter of
the eventfd, flag and mutex, the two program counters, the locals of `server()`,
what the epoll instance watches (`watched`), has pending (`ready`) and has
returned (`events`), the kernel's queue of completed connections (`backlog`),
and whether the configuration is still allocated.

Every call that the code tests may fail. Numbers come from one table, lowest
free first, because the error path of `server()` closes its two numbers twice
and in between another thread may have got them (`OtherOpen`, `OtherClose`
stand for client threads and file accesses of commands). epoll is edge
triggered: registering a ready descriptor, a write to the eventfd and a new
connection each queue one event, and `epoll_wait` forgets what it returns.
`CloseBoth` is one step: every number involved is closed once, in either order.
`QuitFree` stands for the freeing that `PeerList` details.

### `MerkleTree.tla`

From a loaded package to a finished tree. Nodes are numbered in the order of
their `malloc`, pointers are these numbers. The recursion is a stack of frames:
`Descend` (create both children, call for the left), `DescendAgain` (call for
the right), `Return` and `Leaf` (a right child hashes its parent), `LeafFault`
(no hash to copy, or no parent). `Expect` is one round of `levelOrderAddHash`.
A hash is a sequence: a chunk hashes to its content and a pair to a bracketed
concatenation, so that the model of SHA-256 has no collisions. Initial states
are packages as `bpkg_load` accepts them (any `nchunks = nhashes + 1`) with any
subset of the inner hashes wrong, and any data file.

### `TreeQuery.tla`

Extends `MerkleTree` with the queries, one popped node per step, their
destruction and `freeTree`. The answers are compared with definitions that do
not walk: sets of places of the perfect tree, and the chunks of the data file.
`Lists(q, S, h)` says that q holds the hash of each place of S and no more, at the
position that is the place's rank in S.

### `Btide.tla`

Extends `PeerList` and instantiates `Server`: one main thread that runs the
commands of both, one process, and one table of descriptors in place of
`OtherOpen` and `OtherClose`, so that the sockets of the client threads are the
descriptors the error path of `server()` may close. An action of `Btide`
conjoins what the two components do in the same step. `ComponentsKept` says that
each component, seen alone, still behaves as its own module: the safety
properties shown for the parts hold for the whole.

The main thread uses the table too: ADDPACKAGE opens and closes five files one
after the other (`package.c:54`, `package.c:64`, `pkgchk.c:38`, `pkgchk.c:331`,
`merkletree.c:19`). `AddOpen` and `AddClose` are one of these pairs, between
commands or within one: what lies between two pairs uses no descriptor. While a
file is open (`file_fd`) no other command runs, but the client threads and the
server thread do, so a number that `server()` closes a second time may be that of
the file, and the `AddClose` that follows may close the socket of a connection.
`CommandFaults` is the end of the process by a command.

### `Package.tla`, `PackageList.tla`

`Package` is the linked list of packages: nodes numbered by their `malloc`, the
pointer and `prev` of each of the three walks, one round a step. A tree is
represented by the chunks that matched when it was built; `MinHashes` is what
the query of `TreeQuery` returns for it. A malformed package ends the process
(`AddMalformed`: `bpkg_load` calls `exit`), one of a single chunk does so by a
NULL dereference (`AddSingle`). `PackageList` is the abstract
specification, a sequence with Add, Remove and Clear, which `Package`
implements (`ImplementsList`, the list read off the links).

### `DataFile.tla`

The data file of one package and the processes that share it: `Fopen`, then
`MakeFileOpen` and `MakeFileTruncate` or straight to `hashChunk`, which is
`HashChunkOpen`, `HashChunkStat`, `HashChunkMap` and a `HashChunkRead` for each
chunk. Each of these calls may fail, also on a file that is there:
`make_file` gives it mode 0600, so to another user it is missing for `fopen`
(`FopenFails`) and unreadable for `hashChunk` (`HashChunkFails`), and a process
may be short of descriptors or memory. `trouble` is the history of what went
wrong in one ADDPACKAGE, of which `FaultExplained` speaks. A process may be killed
between any two calls and started again; chunks are filled in from outside, with
what the package promises, as the program has no transfer of its own.

### `PkgLoad.tla`, `PkgMain.tla`

`PkgLoad` is `bpkg_load`, one `fgets` a step, on package files as the tool
writes them, with lines after the last, cut off after any line, or with one line
lost. A line is a key with its values; fields that are never stored hold the
bytes `0xbe` that `malloc` returns in the Makefile's build (AddressSanitizer),
as a string not hexadecimal and as a number negative, of which `malloc` aborts.
`PkgMain` extends it to the whole of `pkgmain`: `arg_select`, the load,
`-file_check` with `make_file`, and for the other flags `hashChunk` call by call
and chunk by chunk, the tree and one query. Other programs create, resize and
remove the data file between any two steps; who has it open keeps a removed file
(`fd`, `same`). A call on a file that is there may fail, and a chunk that is not
all in the mapping and in the file reads zeros or faults (`HashChunkRead`).

### `Config.tla`

The start of `btide`: the lines of the configuration by their number,
`verifyConfigContents` with `mkdir` and its order of checks, and the exits of
`main`. Another instance may make the directory at any time. What is at the path
is not looked at: anything that `mkdir` meets there will do.

### `Digest.tla`, `Sha256.tla`, `Sha256Rounds.tla`

`Digest` is what hashing promises: the digest of the padded message. `Sha256`
is how it is done: `last_chunk` with what a partial block holds, the three
copies of `sha256_update`, and mark, overflow block and length in
`sha256_finalize`; `compressed` is the sequence of the bytes compressed. It
implements `Digest` (`ImplementsDigest`). `Sha256Rounds` is the compression
function itself and the hex output, a word of 32 bits being the set of its ones.

### `BtideProofs.tla`, `ServerProofs.tla`, `PackageProofs.tla`, `DataFileProofs.tla`, `PkgMainProofs.tla`, `TreeProofs.tla`, `Sha256Proofs.tla`, `Sha256RoundsProofs.tla`

The inductive invariants and the theorems below. `BtideProofs` has three parts:
the peer list, its composition with the server thread, and the start.

## Runs

| Run | Instance | Shows |
|---|---|---|
| `peer_list` | 3 peers, 2 addresses | the main thread follows live pointers only (`MainDerefsLive`); a peer object is typed, freed after its thread and with its socket closed (`PeersSafe`); the list ends and holds connected peers (`ListIntact`); `FreedOnCommand`; every command and every client thread ends |
| `peer_list_no_lost_peer`, `peer_list_no_duplicate` | the same, symmetric | findings 1 and 2 |
| `server` | 4 descriptors, backlog 3 | no lost wake-up; own descriptors only, nothing left open, no blocking read, the port there when read (`ServerSafe`); other threads' descriptors kept; QUIT ends the process after any failures |
| `btide` | 2 peers, 1 address, 5 descriptors | each component keeps its specification (`ComponentsKept`), sockets and the file of ADDPACKAGE stay apart while the server loops (`SocketsApart`), a connection is closed by its own command, the double close and its consequences apart (`ConnectionKept`), QUIT frees the peers after the server thread is gone (`PeersFreedAfterServer`) and ends the process (`QuitEnds`) |
| `hashes` | 1 to 4 chunks, 2 contents; blocks of 4, length of 2, up to 9 bytes; the 7 hashes of `tests/binary2.bpkg` | while the tree is built no hash is made of garbage and faults are explained (`TreeInv`); the tree is the Merkle tree, its expected hashes are in place and its root decides (`TreeExact`); the result fits its array (`ResultInBounds`), each query answers its reference (`AnswersExact`), no smaller set of hashes than that of `-min_hashes` says the same (`MinHashesSmallest`), `freeTree` frees each node once; the mark fits and every byte is where it should be (`BufferOK`), the padded message is compressed (`ImplementsDigest`); the rounds lose nothing (`RoundsReversible`: each state determines the one before) and the digests are those of that package file (`DigestExpected`) |
| `hashes_half` | the same | finding 3 |
| `start_and_packages` | all files of 0 to 3 lines of 10, some of 4; then 4 packages, 3 additions | btide starts only with what is written, and its exit status names the first failure (`StartExact`); no freed node is read (`NodesLive`), the sequence is implemented (`ImplementsList`), every package is printed once, in order, with what `isComplete` says (`PrintedExact`), QUIT frees everything |
| `package_completed`, `start_directory` | the same | findings 4 and 5 |
| `data_file` | 2 processes, symmetric, 2 chunks | a file of a wrong size is explained (`SizedOrMaking`), computed chunks stay right (`GoodComputed`), no data is destroyed (`GoodKept`), faults are explained by a file left at another size, the race at `ftruncate` or a call that failed (`FaultExplained`) |
| `pkg_main` | 4 packages of 1 to 3 chunks, one identifier not hexadecimal, 7 flags, 5 states of the data file | a file as written is loaded as written, what is returned has the arrays its counts say (`LoadedSafe`), a lost line is noticed (`LossNoticed`), faults are explained, only `-file_check` touches the data file (`DataKept`) |

Two instances hold more than one module. `MCPackage` is `main()` in one thread: the
steps of `Config`, and when these have reached the start those of `Package`.
`MCHashes` has the three modules between the bytes of a chunk and the answer of a
query; they share no variable, and a behaviour is of one of them while the others
rest (`part`).

Bounds. In `PeerList`, the number of CONNECTs is the number of peers. Three give
a head, a middle and a tail, and two client threads that append at once while the
main thread removes; two addresses give both a match and a mismatch at each node;
the proofs cover any number. In `Server`, four descriptors are the three of the
program and one for another thread, which is what a reuse needs; the kernel
completes `Backlog + 1` handshakes. In `Btide` five descriptors are the three of the program
and two for the others; the run keeps to the states in which at most two of the
two client threads and ADDPACKAGE have had a descriptor (`TwoHolders`: a client
that lost its number to another thread's close still counts, and so do the double
close, the thread that then gets the number, and the one that closes it next), and
in which no remote connection has arrived (`NoRemote`: it raises an event that the
server thread ignores, and is in the instance of `Server`). The states in which
the process has ended are one (`View`). Four chunks give a tree of three levels, the
smallest with an inner node on each side of the root, three chunks the smallest
imperfect tree; two contents make chunks that match, differ and repeat. Three
additions to the package list give a first, a middle and a last node, of two
packages with a common prefix, one of them possibly twice; the commands follow
after one of the configurations that btide starts with (`Commanded`), since they
read nothing of it but a path. In `DataFile` two processes and two chunks give one
process between any two system calls of the other and a file half filled; the
proofs have any number of both. Nine bytes over
blocks of four reach every case of the padding (the mark in the last free byte,
an overflow block, an exact block) after whole blocks have gone. The two
integers of `Config` take the values on both sides of their limits.

Fairness. `PeerList` assumes that the main thread is scheduled while it has a
step that does not wait for the user, and that each client thread is, including
an answer to its `connect()` (accepted, refused, timed out). `Server` assumes
the same of its two threads, and not that `epoll_wait` ever fails: without an
event the thread may wait for ever. `Btide` assumes less: once QUIT is typed its
main thread and its server thread are scheduled; that QUIT ends the process needs
nothing of the client threads. Nothing is assumed of the user or of remote peers. The other modules state no fairness: their loops run
over a file, a list or a tree that gets shorter, and the question there is what
they do, not whether they end.

Deadlock is checked in every run; a finished process stutters.

## Findings

1. A peer is lost (`NoLostPeer`). `btide.c:182` assigns the mutex, a struct
   copy, so each client thread locks its own (`peer.c:30`). Two that append at
   once overwrite each other's link, and a connected peer is on no list. The
   README says operations on the list are mutex locked.
2. An address is listed twice (`NoDuplicatePeer`): CONNECT searches, unlocks
   (`btide.c:164`), and the peer is listed only after its connection is made.
3. `-min_hashes` is not what the header says (`HalfAsDocumented`). `pkgchk.h:76`
   gives the example of a package complete from start to mid, for which
   "(N_CHUNKS/2) + 1 hashes" are returned; the code returns one, the hash of the
   branch over the first half (`pkgchk.c:216`), as "the smallest set of hashes" of
   `pkgchk.c:195` asks for. `MinHashesSmallest` follows the latter.
4. COMPLETED does not mean complete (`CompletedMeansRoot`). `src/README.md:18` and
   the comments at `package.c:29` and `package.c:107` say that the root's hash must
   match; `isComplete` asks for exactly one hash, and one complete chunk gives one.
   `PrintedExact` only says that the answer of `isComplete` is what is printed.
5. A regular file passes for the directory (`DirectoryIsDirectory`): `config.c:27`
   and `config.c:34` speak of an existing directory, the code of `EEXIST`.

What else the code does that its documentation does not say; the models have it,
and the property in brackets, where there is one, gives its exact extent:

- `add_peer` dereferences freed memory or NULL when DISCONNECT frees the node it
  stands on, for the same reason as finding 1 (`AddPeerFault`).
- `accept` is called nowhere: connections stay in the backlog.
- `bpkg_load` accepts any `nchunks = nhashes + 1`, perfect tree or not, and the
  last chunks of one that is not are never examined (`TreeExact` speaks
  of the places of the smaller tree).
- A package is listed with the status it had when it was added.
- REMPACKAGE removes the first package for any prefix, although it asks for 20
  characters (`ImplementsList`).
- A package file cut off early may be returned with fields that were never
  stored (`LoadedSafe` says which ones can be relied on).
- `pkgmain` ends with status 0 and no word on an unknown flag; the branch that
  reports it is not reached.
- `make_file` tests neither `open` nor `ftruncate` and reports "File created"
  after a failure.
- Between `open` and `ftruncate` of one process the data file is empty, and
  another that adds the package then faults (`FaultExplained` of `DataFile`
  names this and the other causes); a process killed there leaves it so. The file
  has mode 0600, so ADDPACKAGE of another user faults on it.
- After a failed registration of the listening socket, `server()` closes both of its
  numbers twice. A connection or a file of ADDPACKAGE that got one of them in between
  is closed with it, and whoever then gets the number is closed by the first
  owner's own close (`ConnectionKept` has these exceptions and no others).
- A command with an argument longer than its array ends the process (`CommandEnds`).
- A configuration that cannot be opened ends `main` by a NULL dereference.
- With `max_peers` nothing is ever compared but its limits.

## Proofs

Checked by TLAPS for every value of the constants.

*Peer list* (first part of `BtideProofs`; assumes only that NULL is no peer and no
address). That the main thread is safe is not obvious, since client threads
write the links it follows. The invariant `IInv` adds to the types: the life
cycle of an object (`LifeInv`); every pointer leads to a peer its client thread
has published (`PointerInv`); no two links that can still be followed lead to
the same peer, and none to the head (`UniqueInv`); and what the cursors of the
main thread know, for instance that in `remove_peer` the only way to `current`
is `previous` (`RemoveInv`) and that the saved successor has no other
predecessor (`UnlinkInv`). A client thread preserves this because it only ever
adds a link to its own peer, which nothing leads to before. From `Invariance`
follow `MainThreadSafe`, `PeersSafeCorrect` (with `TypeCorrect`,
`ClientOwnsPeer` and `SocketsClosed`) and `FreedByCommand` (an action property).

That the list itself is sound takes two more parts. `TearDownInv`: what QUIT has
freed so far is the path from the head, so the walk of `free_peer` stands where the
list that is left begins. And `ListIntactCorrect`, for any *finite* set of peers:
each hop from the head meets a published peer not met before (`UniqueInv`), so
after at most one hop per peer the walk is at the end. That it meets *every*
published peer is not stated, and is false (finding 1). The hops are a recursive function, about which nothing is known until a
table that satisfies its equation is shown to exist; `HopsOK` does that by
induction. Finiteness is what the code has (each peer is a `malloc`), and without
it the property has no meaning: the bound on the hops is the number of peers.

*Package list* (`PackageProofs`; identifiers are sequences, the names that are
malformed or of a single chunk are names, a package has at least one chunk). `IInv` says that
the nodes of the list, read off the links, are distinct and allocated, that
everything else that was allocated is freed, and where the cursors of the three
walks stand in this sequence. From it `Live`, `Exact` and `NoLeak` (with
`TypeCorrect`), and `Implements`: appending behind the last node, unlinking the
first, a middle or the last one, and clearing the list are the Add, Remove and
Clear of `PackageList`, every other step of the pointers a stutter.

*Composition* (second part of `BtideProofs`; descriptors and backlog are natural numbers).
`ComponentStep` maps every action of `Btide` to an action or a stutter of `PeerList`
and of `Server`, hence `Composes`, and with it `ComponentsSafe`: the theorems of the
parts hold of the whole, for which nothing has to be proved again. What neither
part can say needs one more invariant, `BtideInv`: each open connection has the
number of a descriptor that the table gives to it, and so has the file of
ADDPACKAGE (`SocketInv`), unless the number is `Lost`, one of the two that the
error path of `server()` has closed a second time; and QUIT reaches the peers only
past the join (`QuitInv`). It yields `OwnConnections` (about the time in which the
server thread loops), `ServerJoinedFirst` and, as an action property,
`ConnectionsKept`, with the double close and what follows from it as its exception.

*Server* (`ServerProofs`; assumes descriptors and backlog are natural numbers).
`IInv` has the positions of the two threads (`MainInv`, `ServerInv`), who holds
which number (`DescriptorInv`), what epoll can report (`EpollInv`) and where the
request to stop is (`WakeupInv`): in the counter with exactly one event on its
way, or taken by the thread, which then finds the flag set. From it follow
`WakeupNotLost`, `ServerSafeCorrect` (with `TypeCorrect`, `ReadReturns`,
`OwnDescriptors`, `NothingLeftOpen` and `PortPointerValid`) and
`OthersKeptOpen`.

*Data file* (`DataFileProofs`; assumes that the package has at least one chunk).
For any number of processes and chunks: `TypeCorrect`, `SizedCorrect` (a file of
a wrong size was left behind or is about to be sized), `GoodComputedCorrect`,
`NothingLost` (action property) and `FaultsExplained`. The invariant ties the
place of each process to the file: whoever reads has mapped it at a length that
it may meanwhile exceed, while nothing was left behind it has the size of the
package or somebody is at `ftruncate`, and a process that has met no trouble has
found it with its size.

*pkgmain* (`PkgMainProofs`; a package has as many hashes and chunks as it says,
its chunks lie inside a data file that is not empty, its name and its hashes are
none of the marks of a field that was never stored, which are not hexadecimal; the
sizes others give to the data file are numbers). For packages with any number of
chunks and each of their files. `LoadInv` says that what is left to read is a
suffix of the file and what each field of the object holds before and after its
line, whatever the line said; from it `LoadedSafeCorrect`. `WrittenInv` adds, for a
file as it was written, where that suffix begins: the place is the number of
rounds, hashes and chunks read, so each line meets its field, and at the end the
object is the package (`LoadedAsWrittenCorrect`). `LostInv` is the same for a file
without one line. From that line on every field misses its own: the identifier is
refused at once, a missing number of hashes ends in `malloc`, and after the hashes
the line with the number of chunks has gone by (`LossNoticedCorrect`). With
`MainInv`, what `main` has looked at on its way (a process that has met no trouble
has mapped the whole package, and the file it has open still holds all of it), follow `FaultExplainedCorrect` and
the action property `DataKeptCorrect`.

*Configuration* (third part of `BtideProofs`; a file is a sequence of lines, and
what `sscanf` stores is a path for `%s` and a number for `%d`). `ReadInv` ties what
is left to read to the lines of the file by their numbers, so each of the three
fields holds the value of the one line that may fill it, or what `malloc` left
there. `StartInv` records which checks these fields have passed. Another instance
may make the directory between any two steps, but nobody takes one away, so what
`mkdir` has found is still true when the exit status is set. Hence
`StartExactCorrect`, in both directions: a start means a file as it must be, and a
status of 4 or 5 one that is not, with the first failure named. (What is at the path
may be a regular file: finding 5.) The limits are
those `config.h` names; the code compares with the numbers next to them.

*SHA-256* (`Sha256Proofs`; the length field is shorter than a block, bytes are
numbers, the base is not zero). `BufferInv` says where the bytes of the message are
at every place of the code: compressed, in the partial block, or still in the
argument. From it `BufferOKCorrect` (the mark fits, no byte is missed) and
`MessageKept`: an update appends its argument and nothing that `sha256_finalize`
does touches the message. `TailInv` adds what follows the message once the mark is
stored, and that whole blocks are compressed; so the zeros are as many as the
abstract digest asks for (`ZerosAre`, the one number that fills the block). The
digits of the length are recursive on both sides, a shift a round in the code and a
division by a weight in `Digest`; `ShiftedIs` shows by induction that they are the
same. Together they give `Implements` and `TypeCorrect`, the last block included.

*SHA-256, the rounds* (`Sha256RoundsProofs`; no assumption). `RoundsInv` says that
the schedule, the state and the eight variables are words, as many as the counter
says. A round moves six variables, and the two that it computes can be taken apart
again: `temp2` depends on variables that are still there, so `temp1` and then the
two that were overwritten are differences (`RoundReversed`, hence
`RoundsReversibleCorrect`). What that rests on is `MinusUndoesPlus`. The sum of two
words is given by its carries, and subtraction adds the negation and one; of the
three carries into a position, of `x + y`, of `Not(y) + 1` and of their sum, there
is exactly one. It is an induction over the 32 positions with the two equations of
a full adder.

*Tree and queries* (`TreeProofs`; a package has at least one chunk, and what a
chunk may hold is not the symbol for what `malloc` left). For any number of chunks,
perfect tree or not, and whatever the hashes of the package are. `BuildInv` holds
between two steps of `recursiveTree`: the links make a tree (`ShapeInv`); the frames
are the path from the root to the node at work, each one at most at the level
`depth` (`StackInv`); an inner node has its hash exactly when the call on its right
child is back (`ComputedInv`), and what a frame has at its left is computed, so
`computeParentHash` reads two hashes; a node without children is a leaf or a
frame is still to come to it (`DoneInv`). Two parts need a witness: `CountInv`, a
count of the nodes that the frames are still to allocate, which bounds the tree by
the perfect tree of its depth, and `LevelInv`, a level for each node that puts all
leaves on the last one. The three kinds of traversal share `Traversal`: a node is
visited or in the queue exactly when its parent is visited, and never both. So a
traversal whose queue is empty has visited every node: `levelOrderAddHash` has
then given each one a hash of the package, of which there are enough
(`ExpectInv`), and `freeTree` has freed each one once (`FreedSafe`). That no query
overruns its result (`ResultSafe`) is the invariant `Within`: what was found and the
leaves of a full subtree below each queued node are never more than all leaves; a
visit either takes a hash and pushes nothing or takes none and pushes two nodes of
half the weight. `TreeSafe` and `FaultSafe` follow from `BuildInv`. `Pow` is a
recursive function and so, as for the hops of the peer list, its equation is a
lemma (`PowIs`).

What the tree holds (`TreeExactCorrect`) needs `ExactInv` besides. Its witness is a
place for each node: the root has place 1, the children of the node at place k have
2k and 2k + 1, and a leaf, like the node of each frame, is where the position that
`recursiveTree` counts puts it (`Placed`). Then `Leaf` writes the hash of the chunk
its place stands for, and a return the hash of the two places below, so every
computed hash is the Merkle hash of its place (`MerkleAt`). `levelOrderAddHash`
counts its visits and never looks at a place, so `Ordered` says that after c visits
the queue holds the places from c + 1 on, one after the other: what the step takes
from the package is then what belongs there. That each place has exactly one node
in the end follows from the levels (`OnLevelIs`, `NodeAtPlace`, `PlaceFilled`). The
Merkle hashes are recursive over the places, from the leaves up; `HeapExists` builds
such a table row by row. That the root decides about the chunks (`HeapsDecide`) goes
down the heap: two hashes of one length that are hashes of pairs are equal only if
the pairs are (`HashPairsEqual`), and the rows of two heaps have equal lengths
because their leaves have. That is a fact about the symbolic hash of the model,
which keeps what it hashes; for the SHA-256 of the code it holds up to collisions.

What the queries answer (`AnswersExactCorrect`) needs `AnswerInv`. A query visits a
set of places that is a tree with a root (`Rooted`): all places for `-chunk_check`
and the search, those below a place for `-hashes_of`, and those inside no complete
branch for `-min_hashes`. Its queue holds, in level order, the places after the last
one visited whose parent has been (`Trail`), so the head is always the next place of
the tree; and its result lists the places it looks for up to the last one visited
(`GoingOn`), because a place that is appended has the highest rank so far. When the
queue is empty there is no place left. The tests of the code are about nodes, so
each visit needs `TreeExactCorrect` for what the node of the place holds.

That `-min_hashes` answers with a smallest set (`MinHashesSmallestCorrect`) is a fact
about trees that are full, proved for sets of places. If an inner place matches
exactly when both places below do (`Decided`; so it is, by `HashPairsEqual`, when the
hashes of the package are right), a place matches when all leaves below it do, and
the topmost matching places have below them the matching leaves, each in one of them
(`TopsCover`). Any other set that stands for the same leaves has, for each leaf, a
place above it with only such leaves below, which is then below or at the topmost
one; as topmost places have no leaf in common, a leaf for each of them chooses
different places of the other set, so it has no fewer (`TopsFewest`).

Only model-checked: liveness (`CommandCompletes`, `ClientCompletes`, `QuitCompletes`,
`QuitEnds`), which is out of this prover's reach; and `DigestExpected`, which
compares the digests of the model with those of one package file of the tests and is a
computation on these values. Every other property of a passing run is stated by a
theorem.

## Not modelled

The parsing of lines as text (a line is a key with its values; lines longer than
the buffer are left out), the commands that change nothing, `malloc` failures and
signals. `packet.c`, which nothing calls; tests, resources (the getting-started
examples) and build files.

## Plan

What is left to state: an abstract specification of the peer list (a set of
connected peers with Connect, Disconnect and Quit) that `PeerList` implements when
the mutex is shared; with the copied mutex of the code it does not (finding 1), so
it belongs with a repaired `add_peer`.
