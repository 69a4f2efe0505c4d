--------------------------- MODULE MCSupernetPools ---------------------------
(***************************************************************************)
(* Instances of SupernetPools for TLC: a range, two parts of it, and a     *)
(* part of one of those.                                                   *)
(***************************************************************************)
EXTENDS SupernetPools, TLC

Networks == {{0, 1, 2}, {0, 1}, {0}, {2}}

\* States that differ in stray addresses only have the same steps, except where a
\* stop left one behind under the id of a removed pool: that id is not used again.
Seen == <<pools, blocks, held, crashes,
          [p \in Pool |-> svi[p] \ stray[p]], [p \in Pool |-> Unused(p)]>>

Symmetric == Permutations(Pool)
=============================================================================
