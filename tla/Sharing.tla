------------------------------- MODULE Sharing -------------------------------
(***************************************************************************)
(* Who may use a project: the project_shares table (sharing.py), the       *)
(* access check before every project route, the routes that create,        *)
(* import, delete, share and transfer a project (projects.py), and those   *)
(* that add and remove accounts (admin.py).  A request makes its changes   *)
(* to folders and tables one at a time, and a stop of the server may come  *)
(* between any two.  One project name stands for all: a share is kept by   *)
(* owner and name, and names do not influence each other.                  *)
(***************************************************************************)
EXTENDS Naturals

CONSTANTS Name,      \* user names
          Admins,    \* the users who are admins
          Group,     \* the identity provider's groups
          Member,    \* Member[u]: u's groups at the last sign-in
          Level,     \* LEVELS, or those of them a run needs
          Thread,    \* requests at work at a time
          Orderly,   \* requests at work are Apart, nobody shares a project
                     \* that is not there, and no project comes to where a
                     \* stop has left shares behind
          Unshared,  \* accounts linked away had nothing shared with them
          MaxStops,  \* bound: stops of the server
          None       \* no level, no user

ASSUME LevelAssumption == "edit" \in Level /\ Level \subseteq {"view", "edit", "deploy"}
ASSUME NameAssumption == /\ Admins \subseteq Name /\ Member \in [Name -> SUBSET Group]
                         /\ Name \cap Group = {} /\ None \notin Name \cup Level
ASSUME StopAssumption == MaxStops \in Nat /\ {Orderly, Unshared} \subseteq BOOLEAN

VARIABLES
    accounts,  \* the names in the users table
    has,       \* has[o]: DATA_DIR/<o>/projects/<project> is there
    shares,    \* shares[o][k]: the level in the row for owner o and principal
               \* k, or None
    pc,        \* what a thread's request does next
    req,       \* req[t]: the users and the level it is about
    stops

vars == <<accounts, has, shares, pc, req, stops>>

Principal == Name \cup Group
Rows == [Principal -> Level \cup {None}]
NoRows == [k \in Principal |-> None]
NoRequest == [owner |-> None, other |-> None, level |-> None]
Request == [owner : Name \cup {None}, other : Principal \cup {None},
            level : Level \cup {None}]

Init ==
    /\ accounts \in SUBSET Name
    /\ has = [o \in Name |-> FALSE]
    /\ shares = [o \in Name |-> NoRows]
    /\ pc = [t \in Thread |-> "idle"]
    /\ req = [t \in Thread |-> NoRequest]
    /\ stops = 0

-----------------------------------------------------------------------------
(***************************************************************************)
(* The access check                                                        *)
(***************************************************************************)
Rank == [l \in {None, "view", "edit", "deploy", "owner"} |->
           CASE l = None -> 0 [] l = "view" -> 1 [] l = "edit" -> 2
             [] l = "deploy" -> 3 [] l = "owner" -> 4]

AtLeast(level, wanted) == Rank[level] >= Rank[wanted]

\* level_for: the best of what is shared with the user and their groups.
LevelFor(u, o) ==
    LET Granted == {shares[o][k] : k \in {u} \cup Member[u]}
        Best == CHOOSE l \in Granted : \A m \in Granted : AtLeast(l, m)
    IN IF u = o THEN "owner"
       ELSE IF Best = None /\ u \in Admins THEN "view" ELSE Best

\* _check_project_access, for the routes that need the owner.
Admitted(u, o, route) ==
    LET level == LevelFor(u, o) IN
      /\ u \in accounts
      /\ level = "owner" \/ (level # None /\ has[o])
      /\ AtLeast(level, "owner") \/ (route = "transfer" /\ u \in Admins)

Callers(o, route) == {u \in Name : Admitted(u, o, route)}

-----------------------------------------------------------------------------
(***************************************************************************)
(* A request arrives, and is let through by the checks it starts with.     *)
(***************************************************************************)
Users(q) == {q.owner, q.other} \cap Name
SharingLabel == {"insert", "drop"}
TransferLabel == {"move", "rows", "keep"}

\* Two requests name different users, or both change shares, or one takes a
\* share back in a project that the other transfers.
Apart(p, l, q, m) ==
    \/ Users(p) \cap Users(q) = {}
    \/ {l, m} \subseteq SharingLabel
    \/ /\ p.owner = q.owner
       /\ {l, m} \subseteq {"drop"} \cup TransferLabel
       /\ "drop" \in {l, m}

\* No stop has left a share of o's behind.
Clean(o) == stops = 0 \/ shares[o] = NoRows

Take(t, label, q) ==
    /\ Orderly => \A s \in Thread \ {t} : Apart(req[s], pc[s], q, label)
    /\ req' = [req EXCEPT ![t] = q]
    /\ pc' = [pc EXCEPT ![t] = label]
    /\ UNCHANGED <<accounts, has, shares, stops>>

About(o, k, l) == [owner |-> o, other |-> k, level |-> l]

BeginCreate(t) == \E o \in accounts, label \in {"create", "import"} :
    /\ ~has[o] /\ (Orderly => Clean(o))
    /\ Take(t, label, About(o, None, None))

BeginDelete(t) == \E o \in Name :
    /\ Callers(o, "delete") # {}
    /\ Take(t, "rmtree", About(o, None, None))

\* set_share's checks.
BeginShare(t) == \E o \in Name, k \in Principal, l \in Level :
    /\ Callers(o, "share") # {}
    /\ Orderly => has[o]
    /\ k # o /\ k \in accounts \cup Group
    /\ Take(t, "insert", About(o, k, l))

BeginUnshare(t) == \E o \in Name, k \in Principal :
    /\ shares[o][k] # None
    /\ Callers(o, "unshare") # {}
    /\ Take(t, "drop", About(o, k, None))

\* transfer's checks.
BeginTransfer(t) == \E o \in Name, n \in accounts :
    /\ n # o
    /\ Callers(o, "transfer") # {}
    /\ has[o] /\ ~has[n] /\ (Orderly => Clean(n))
    /\ Take(t, "move", About(o, n, None))

BeginRegister(t) == \E u \in Name \ accounts :
    Take(t, "adduser", About(u, None, None))

\* Mutation: delete_user does not ask whether the user's projects are shared.
BeginRemoveAnyway(t) == \E u \in accounts : Take(t, "wipe", About(u, None, None))

\* delete_user refuses while the user owns shared projects.
BeginRemove(t) == \E u \in accounts :
    /\ shares[u] = NoRows
    /\ Take(t, "wipe", About(u, None, None))

\* link_sso, when the person has an SSO account already: one without projects.
BeginAbsorb(t) == \E u \in accounts :
    /\ ~has[u]
    /\ Unshared => \A o \in Name : shares[o][u] = None
    /\ Take(t, "absorb", About(u, None, None))

-----------------------------------------------------------------------------
(***************************************************************************)
(* What the requests do, one change at a time.                             *)
(***************************************************************************)
Then(t, label) ==
    /\ pc' = [pc EXCEPT ![t] = label]
    /\ req' = IF label = "idle" THEN [req EXCEPT ![t] = NoRequest] ELSE req
    /\ UNCHANGED stops

\* create_project.
Create(t) ==
    /\ pc[t] = "create"
    /\ has' = [has EXCEPT ![req[t].owner] = TRUE]
    /\ Then(t, "idle") /\ UNCHANGED <<accounts, shares>>

\* import_project: an archive brings no shares.
Import(t) ==
    /\ pc[t] = "import"
    /\ has' = [has EXCEPT ![req[t].owner] = TRUE]
    /\ Then(t, "idle") /\ UNCHANGED <<accounts, shares>>

\* The delete route: delete_project, then forget_project.
Rmtree(t) ==
    /\ pc[t] = "rmtree"
    /\ has' = [has EXCEPT ![req[t].owner] = FALSE]
    /\ Then(t, "forget") /\ UNCHANGED <<accounts, shares>>

ForgetProject(t) ==
    /\ pc[t] = "forget"
    /\ shares' = [shares EXCEPT ![req[t].owner] = NoRows]
    /\ Then(t, "idle") /\ UNCHANGED <<accounts, has>>

\* set_share's INSERT ... ON CONFLICT DO UPDATE.
InsertShare(t) ==
    /\ pc[t] = "insert"
    /\ shares' = [shares EXCEPT ![req[t].owner][req[t].other] = req[t].level]
    /\ Then(t, "idle") /\ UNCHANGED <<accounts, has>>

RemoveShare(t) ==
    /\ pc[t] = "drop"
    /\ shares' = [shares EXCEPT ![req[t].owner][req[t].other] = None]
    /\ Then(t, "idle") /\ UNCHANGED <<accounts, has>>

\* transfer moves the folder, under the lock (ProjectLock): a source that has
\* gone is an error, and a destination that has come swallows it.
Move(t) ==
    /\ pc[t] = "move"
    /\ IF has[req[t].owner]
         THEN /\ has' = [has EXCEPT ![req[t].owner] = FALSE, ![req[t].other] = TRUE]
              /\ Then(t, "rows")
         ELSE Then(t, "idle") /\ UNCHANGED has
    /\ UNCHANGED <<accounts, shares>>

\* Mutation: the new owner's own share is moved with the others.
MoveRowsAll(t) ==
    /\ pc[t] = "rows"
    /\ LET o == req[t].owner  n == req[t].other IN
         shares' = [shares EXCEPT ![o] = NoRows, ![n] = shares[o]]
    /\ Then(t, "keep") /\ UNCHANGED <<accounts, has>>

\* transfer's one transaction over the shares: the new owner's own share is
\* dropped and the rest is the new owner's.  A row that is in the way is an
\* error, and nothing is changed.
MoveRows(t) ==
    /\ pc[t] = "rows"
    /\ LET o == req[t].owner  n == req[t].other
           rest == [shares[o] EXCEPT ![n] = None]
           InTheWay == \E k \in Principal : rest[k] # None /\ shares[n][k] # None
       IN IF InTheWay
            THEN Then(t, "idle") /\ UNCHANGED shares
            ELSE /\ shares' = [shares EXCEPT ![o] = NoRows,
                      ![n] = [k \in Principal |-> IF rest[k] # None THEN rest[k] ELSE @[k]]]
                 /\ Then(t, "keep")
    /\ UNCHANGED <<accounts, has>>

\* The previous owner keeps edit access, if they still exist.
KeepEdit(t) ==
    /\ pc[t] = "keep"
    /\ shares' = IF req[t].owner \in accounts
         THEN [shares EXCEPT ![req[t].other][req[t].owner] = "edit"] ELSE shares
    /\ Then(t, "idle") /\ UNCHANGED <<accounts, has>>

\* create_user.
AddUser(t) ==
    /\ pc[t] = "adduser"
    /\ accounts' = accounts \cup {req[t].owner}
    /\ Then(t, "idle") /\ UNCHANGED <<has, shares>>

\* delete_user: the workspace, what others shared with the user, the row.
Wipe(t) ==
    /\ pc[t] = "wipe"
    /\ has' = [has EXCEPT ![req[t].owner] = FALSE]
    /\ Then(t, "forgetuser") /\ UNCHANGED <<accounts, shares>>

ForgetUser(t) ==
    /\ pc[t] = "forgetuser"
    /\ shares' = [o \in Name |-> [shares[o] EXCEPT ![req[t].owner] = None]]
    /\ Then(t, "deluser") /\ UNCHANGED <<accounts, has>>

DeleteUser(t) ==
    /\ pc[t] = "deluser"
    /\ accounts' = accounts \ {req[t].owner}
    /\ Then(t, "idle") /\ UNCHANGED <<has, shares>>

\* move_sso_identity deletes the account, and link_sso its workspace.
Absorb(t) ==
    /\ pc[t] = "absorb"
    /\ accounts' = accounts \ {req[t].owner}
    /\ Then(t, "wipeabsorbed") /\ UNCHANGED <<has, shares>>

WipeAbsorbed(t) ==
    /\ pc[t] = "wipeabsorbed"
    /\ has' = [has EXCEPT ![req[t].owner] = FALSE]
    /\ Then(t, "idle") /\ UNCHANGED <<accounts, shares>>

\* The server stops, and the requests at work with it.
Stop ==
    /\ stops < MaxStops
    /\ stops' = stops + 1
    /\ pc' = [t \in Thread |-> "idle"]
    /\ req' = [t \in Thread |-> NoRequest]
    /\ UNCHANGED <<accounts, has, shares>>

Begin(t) == /\ pc[t] = "idle"
            /\ \/ BeginCreate(t) \/ BeginDelete(t) \/ BeginShare(t) \/ BeginUnshare(t)
               \/ BeginTransfer(t) \/ BeginRegister(t) \/ BeginRemove(t) \/ BeginAbsorb(t)

Step(t) == \/ Create(t) \/ Import(t) \/ Rmtree(t) \/ ForgetProject(t)
           \/ InsertShare(t) \/ RemoveShare(t) \/ Move(t) \/ MoveRows(t) \/ KeepEdit(t)
           \/ AddUser(t) \/ Wipe(t) \/ ForgetUser(t) \/ DeleteUser(t)
           \/ Absorb(t) \/ WipeAbsorbed(t)

Next == Stop \/ \E t \in Thread : Begin(t) \/ Step(t)

Spec == Init /\ [][Next]_vars

-----------------------------------------------------------------------------
(***************************************************************************)
(* Properties                                                              *)
(***************************************************************************)
Label == SharingLabel \cup TransferLabel \cup
         {"idle", "create", "import", "rmtree", "forget", "adduser", "wipe",
          "forgetuser", "deluser", "absorb", "wipeabsorbed"}

\* Type correctness; and an owner never has a row for their own project, which
\* set_share refuses and a transfer of the rows could make.
TypeOK ==
    /\ accounts \subseteq Name
    /\ has \in [Name -> BOOLEAN]
    /\ shares \in [Name -> Rows]
    /\ \A o \in Name : shares[o][o] = None
    /\ pc \in [Thread -> Label]
    /\ req \in [Thread -> Request]
    /\ stops \in 0..MaxStops

\* A name in a share is an account's, so that whoever is given the name next
\* finds no door open: a user's shares in other people's projects go with the
\* user.  Needs Orderly and Unshared.
SharesNameAccounts == \A o, k \in Name : shares[o][k] # None => k \in accounts

\* What the rows say, counting the rows of a project on its way to a new owner
\* as the new owner's, and those of a project that is not there as none.
Arriving(n, label) == {t \in Thread : pc[t] = label /\ req[t].other = n}

Rights == [n \in Name |->
    IF ~has[n] THEN NoRows
    ELSE IF Arriving(n, "rows") # {}
      THEN LET o == req[CHOOSE t \in Arriving(n, "rows") : TRUE].owner
           IN [shares[o] EXCEPT ![n] = None,
                                ![o] = IF o \in accounts THEN "edit" ELSE @]
    ELSE [k \in Principal |->
            IF \E t \in Arriving(n, "keep") : req[t].owner = k /\ k \in accounts
              THEN "edit" ELSE shares[n][k]]]

Table == INSTANCE AccessTable WITH
    Edit <- "edit", people <- accounts, owners <- {o \in Name : has[o]}, rights <- Rights,
    stops <- stops

\* The folders, the rows and the accounts, changed one after the other by
\* several requests and with stops in between, are a table of rights that is
\* changed in one step: a new or imported project is shared with nobody, one
\* that is given away keeps exactly its shares, no name that is in a share is
\* given up, and a stop may lose shares but never makes one.
AccessSpec == Table!Spec
=============================================================================
