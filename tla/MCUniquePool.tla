----------------------------- MODULE MCUniquePool -----------------------------
(* Instances of UniquePool for TLC. *)
EXTENDS UniquePool, TLC

\* Up to two addressed interfaces, no name or address twice, and only the
\* last of them the VTEP.
SwitchScans ==
    {s \in UNION {[1..k -> Claim] : k \in 0..2} :
       \A j, k \in DOMAIN s : j < k => /\ ~s[j].shared
                                       /\ s[j].iface # s[k].iface
                                       /\ s[j].ip # s[k].ip}

Symmetric == Permutations(Host) \cup Permutations(Iface) \cup Permutations(Address)
=============================================================================
