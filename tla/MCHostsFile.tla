----------------------------- MODULE MCHostsFile -----------------------------
(* Instances of HostsFile for TLC: sw and SW are one name in two spellings. *)
EXTENDS HostsFile, TLC

CONSTANTS sw, SW, other, ip

MCKey == [n \in Name |-> IF n = SW THEN sw ELSE n]
Alone == [n \in Name |-> {n}]

MCRows == {sw :> "" @@ SW :> None @@ other :> ip,
           sw :> ip @@ SW :> None @@ other :> None}

Symmetric == Permutations(Thread)
=============================================================================
