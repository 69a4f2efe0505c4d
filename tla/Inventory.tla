------------------------------ MODULE Inventory ------------------------------
(***************************************************************************)
(* What a project's inventory promises, said without files: the switches   *)
(* it lists by stacking group, and the management addresses and settings   *)
(* of its deploy mapping.  Every change is one step.  HostsFile implements *)
(* this.                                                                   *)
(***************************************************************************)
EXTENDS Naturals

CONSTANTS Name,     \* switch names
          Group,    \* stacking groups
          Rows,     \* the addresses by name that the pages submit
          Rollback, \* the settings that the Deploy page submits
          Default,  \* the mapping of a project that has saved none
          Blank,    \* no address yet
          None      \* a switch that is not in the mapping

VARIABLES listed,   \* listed[g]: the switches in group g
          mapping,  \* addresses by name, and the other settings
          faults    \* how often the server has stopped or a request failed

vars == <<listed, mapping, faults>>

Init == listed = [g \in Group |-> {}] /\ mapping = Default /\ faults = 0

Add(g, names) == /\ listed' = [listed EXCEPT ![g] = @ \cup names]
                 /\ UNCHANGED mapping

Remove(n) == /\ listed' = [g \in Group |-> listed[g] \ {n}]
             /\ UNCHANGED mapping

\* The Deployment IPs page replaces the addresses and keeps the settings.
SaveAddresses == /\ \E hosts \in Rows : mapping' = [mapping EXCEPT !.hosts = hosts]
                 /\ UNCHANGED listed

\* The Deploy page replaces everything.
SaveMapping == /\ \E hosts \in Rows, rollback \in Rollback :
                     mapping' = [hosts |-> hosts, rollback |-> rollback]
               /\ UNCHANGED listed

\* Names are added without an address; no address changes.
Populate(names) ==
    /\ mapping' = [mapping EXCEPT !.hosts =
           [n \in Name |-> IF @[n] = None /\ n \in names THEN Blank ELSE @[n]]]
    /\ UNCHANGED listed

\* A stop of the server may lose either of the two, whole.
Lose == /\ faults' = faults + 1
        /\ listed' \in {listed, [g \in Group |-> {}]}
        /\ mapping' \in {mapping, Default}

Change == \/ \E g \in Group, names \in SUBSET Name : Add(g, names)
          \/ \E n \in Name : Remove(n)
          \/ SaveAddresses \/ SaveMapping
          \/ \E names \in SUBSET Name : Populate(names)

Next == (Change /\ UNCHANGED faults) \/ Lose

Spec == Init /\ [][Next]_vars
=============================================================================
