------------------------------ MODULE MCPtpPool ------------------------------
(* Instances of PtpPool for TLC. *)
EXTENDS PtpPool, TLC

ScansUpTo(n) == UNION {[1..k -> Claim] : k \in 0..n}

\* Every interface is scanned once.
DistinctScans == {s \in ScansUpTo(2) :
                    \A j, k \in DOMAIN s : s[j].iface = s[k].iface => j = k}

Symmetric == Permutations(Host) \cup Permutations(Iface)
=============================================================================
