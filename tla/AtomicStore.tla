----------------------------- MODULE AtomicStore -----------------------------
(***************************************************************************)
(* What the project lock is for, said without a lock: a project's JSON     *)
(* document takes one request's change at a time, and a change, once in    *)
(* the document, is never discarded by another request's write.            *)
(* ProjectLock implements this when its requests are all updates.          *)
(***************************************************************************)
CONSTANTS Request,   \* the requests, each carrying one change to the document
          Owner      \* the users owning a project of the name in question

VARIABLES exists,    \* exists[o]: o has the project
          doc        \* doc[o]: the changes o's document holds

vars == <<exists, doc>>

Init == /\ exists \in [Owner -> BOOLEAN]
        /\ doc = [o \in Owner |-> {}]

\* A request's change is added to the document as it stands.
Apply(r, o) == /\ exists' = [exists EXCEPT ![o] = TRUE]
               /\ doc' = [doc EXCEPT ![o] = @ \cup {r}]

Next == \E r \in Request, o \in Owner : Apply(r, o)

Spec == Init /\ [][Next]_vars
=============================================================================
