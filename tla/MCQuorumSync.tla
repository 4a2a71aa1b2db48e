---------------------------- MODULE MCQuorumSync ----------------------------
(***************************************************************************)
(* Model values for QuorumSync.  The members other than the followed node  *)
(* are interchangeable, except that the founders differ from those that    *)
(* may join later.                                                         *)
(***************************************************************************)
EXTENDS QuorumSync, TLC

Interchangeable == Permutations(Founders \ {Self}) \cup Permutations(Node \ Founders)

=============================================================================
