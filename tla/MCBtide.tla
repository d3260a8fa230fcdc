------------------------------- MODULE MCBtide -------------------------------
(***************************************************************************)
(* Instances of Btide for TLC: two CONNECTs and five descriptors, so that  *)
(* the three of the program leave two to client threads and ADDPACKAGE.    *)
(***************************************************************************)
EXTENDS Btide

Descriptors == 3..7

\* Bounds of the run.  A remote connection only raises an event that the
\* server thread ignores, and is in the instance of Server.
NoRemote == backlog = 0

\* At most two of the client threads and ADDPACKAGE have had a descriptor.
TwoHolders ==
  Cardinality({p \in Peer : fd[p] # S!NoFd}) + (IF file_fd = S!NoFd THEN 0 ELSE 1) <= 2

Bounds == NoRemote /\ TwoHolders

\* The ways in which the process can have ended are not told apart: in all of
\* them the only step is Ended, and no property tells them apart either.
View == IF Alive THEN btideVars ELSE <<>>
=============================================================================
