------------------------------ MODULE MCSharing ------------------------------
(* Instances of Sharing for TLC. *)
EXTENDS Sharing, TLC

AllAdmins == Name
AllMembers == [u \in Name |-> Group]

Symmetric == Permutations(Name) \cup Permutations(Thread)
=============================================================================
