---------------------------- MODULE MCProjectLock ----------------------------
(* Instances of ProjectLock for TLC. *)
EXTENDS ProjectLock, TLC

\* Requests, and lock-file inodes, are interchangeable; used only by runs
\* that check no liveness.
Symmetric == Permutations(Request) \cup Permutations(Inode)
=============================================================================
