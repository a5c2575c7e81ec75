---------------------------- MODULE MCRaftServer ----------------------------
(* Small instances of RaftServer for TLC.                                  *)
EXTENDS RaftServer, TLC

\* Servers and values are interchangeable.
Symmetry == Permutations(Servers) \cup Permutations(Values)
=============================================================================
