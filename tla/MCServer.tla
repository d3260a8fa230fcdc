------------------------------ MODULE MCServer ------------------------------
(***************************************************************************)
(* Instances of Server for TLC.  Four descriptors: the three of the        *)
(* program and one of another thread.                                      *)
(***************************************************************************)
EXTENDS Server

Descriptors == 3..6
=============================================================================
