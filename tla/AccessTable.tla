----------------------------- MODULE AccessTable -----------------------------
(***************************************************************************)
(* What sharing promises, said without tables, folders or requests: of the *)
(* projects of one name, who owns one and what that owner has granted to   *)
(* whom.  Every change is one step.  Sharing implements this.              *)
(***************************************************************************)
EXTENDS Naturals

CONSTANTS Name,    \* user names
          Group,   \* the identity provider's groups
          Level,   \* what can be granted
          Edit,    \* the level a previous owner keeps
          None     \* no level

VARIABLES people,  \* the names in use
          owners,  \* who has a project of the name
          rights,  \* rights[o][k]: what principal k may do in o's project
          stops    \* how often the server has stopped

vars == <<people, owners, rights, stops>>

Principal == Name \cup Group
NoRights == [k \in Principal |-> None]

Init == /\ people \in SUBSET Name /\ owners = {}
        /\ rights = [o \in Name |-> NoRights] /\ stops = 0

\* A new project is nobody else's business.
Create(o) == /\ o \in people \ owners
             /\ owners' = owners \cup {o}
             /\ UNCHANGED <<people, rights>>

Grant(o, k, l) == /\ o \in owners /\ k \in (people \cup Group) \ {o}
                  /\ rights' = [rights EXCEPT ![o][k] = l]
                  /\ UNCHANGED <<people, owners>>

Revoke(o, k) == /\ rights' = [rights EXCEPT ![o][k] = None]
                /\ UNCHANGED <<people, owners>>

\* A project's grants go with it.
Delete(o) == /\ o \in owners
             /\ owners' = owners \ {o}
             /\ rights' = [rights EXCEPT ![o] = NoRights]
             /\ UNCHANGED people

\* The grants of o's project once it is n's: as they were, except that n needs
\* none, and that o keeps Edit.
Handed(r, o, n) == [r EXCEPT ![n] = None, ![o] = IF o \in people THEN Edit ELSE @]

Give(o, n) == /\ o \in owners /\ n \in people \ owners
              /\ owners' = (owners \ {o}) \cup {n}
              /\ rights' = [rights EXCEPT ![o] = NoRights,
                                          ![n] = Handed(rights[o], o, n)]
              /\ UNCHANGED people

Join(u) == /\ u \notin people
           /\ people' = people \cup {u}
           /\ UNCHANGED <<owners, rights>>

\* Everything granted to u is taken back.
Forget(u) == /\ rights' = [o \in Name |-> [rights[o] EXCEPT ![u] = None]]
             /\ UNCHANGED <<people, owners>>

\* Nobody leaves while a grant names them: the name may be another's one day.
Leave(u) == /\ u \in people \ owners
            /\ \A o \in Name : rights[o][u] = None
            /\ people' = people \ {u}
            /\ UNCHANGED <<owners, rights>>

\* A stop of the server may lose grants; it makes none and moves no project.
Lose == /\ stops' = stops + 1
        /\ UNCHANGED <<people, owners>>
        /\ rights' \in [Name -> [Principal -> Level \cup {None}]]
        /\ \A o \in Name, k \in Principal : rights'[o][k] \in {rights[o][k], None}

Change == \E o \in Name :
             \/ Create(o) \/ Delete(o) \/ Join(o) \/ Forget(o) \/ Leave(o)
             \/ \E k \in Principal : Revoke(o, k) \/ \E l \in Level : Grant(o, k, l)
             \/ \E n \in Name \ {o} : Give(o, n)

Next == (Change /\ UNCHANGED stops) \/ Lose

Spec == Init /\ [][Next]_vars
=============================================================================
