----------------------------- MODULE ProjectLock -----------------------------
(***************************************************************************)
(* The per-project lock (src/app/project.py, project_lock and _locked) and *)
(* the requests that run under it: the read-modify-write of a JSON         *)
(* document, delete_project, and sharing.transfer; and create_project,     *)
(* which takes no lock.  Each request is one HTTP request on one thread of *)
(* the single gunicorn worker.                                             *)
(*                                                                         *)
(* The lock is an flock, which belongs to an inode, reached through a path *)
(* that delete_project and transfer remove once they have let go of it.    *)
(* Path and inode are therefore separate pieces of state here.             *)
(***************************************************************************)
EXTENDS Naturals

CONSTANTS Request,   \* the HTTP requests, each served once by its own thread
          Owner,     \* the users that may own the project of this name
          Inode,     \* lock-file inodes
          Kinds,     \* the kinds of request that arrive
          None       \* no inode, no holder, no user

ASSUME NoneAssumption == None \notin Request \cup Owner \cup Inode
ASSUME KindsAssumption == Kinds \subseteq {"update", "delete", "transfer", "create"}

VARIABLES
    lockFile,   \* lockFile[o]: inode named by o's .<project>.lock, or None
    flock,      \* flock[i]: request holding the flock on inode i, or None
    exists,     \* exists[o]: o's project directory is there
    doc,        \* doc[o]: the changes in o's JSON document ({} when absent)
    pc, kind, owner, dest,
    fd,         \* fd[r]: inode of the lock file r has open, or None
    depth,      \* depth[r]: r's thread-local count of held locks
    seen        \* seen[r]: the document as r loaded it

disk == <<exists, doc>>
vars == <<lockFile, flock, exists, doc, pc, kind, owner, dest, fd, depth, seen>>

Goto(r, label) == pc' = [pc EXCEPT ![r] = label]

\* Inodes neither named by a path nor kept alive by an open file.
FreeInode == {i \in Inode : /\ \A o \in Owner : lockFile[o] # i
                            /\ \A r \in Request : fd[r] # i}

Init ==
    /\ lockFile = [o \in Owner |-> None]
    /\ flock = [i \in Inode |-> None]
    /\ exists \in [Owner -> BOOLEAN]
    /\ doc = [o \in Owner |-> {}]
    /\ pc = [r \in Request |-> "new"]
    /\ kind = [r \in Request |-> "none"]
    /\ owner = [r \in Request |-> None]
    /\ dest = [r \in Request |-> None]
    /\ fd = [r \in Request |-> None]
    /\ depth = [r \in Request |-> 0]
    /\ seen = [r \in Request |-> {}]

(***************************************************************************)
(* A request arrives.  The owner's own requests are let through whether or *)
(* not the project is there.  A transfer names its new owner.              *)
(***************************************************************************)
Arrive(r) ==
    /\ pc[r] = "new"
    /\ \E k \in Kinds, o \in Owner :
         /\ kind' = [kind EXCEPT ![r] = k]
         /\ owner' = [owner EXCEPT ![r] = o]
         /\ IF k = "transfer"
              THEN \E p \in Owner \ {o} : dest' = [dest EXCEPT ![r] = p]
              ELSE UNCHANGED dest
         /\ Goto(r, IF k \in {"create", "transfer"} THEN "checking" ELSE "opening")
    /\ UNCHANGED <<lockFile, flock, disk, fd, depth, seen>>

\* create_project looks for the directory, and transfer for both directories,
\* before (or without) the lock; a request that finds them wrong is refused.
Check(r) ==
    /\ pc[r] = "checking"
    /\ IF kind[r] = "create"
         THEN Goto(r, IF exists[owner[r]] THEN "done" ELSE "creating")
         ELSE Goto(r, IF exists[owner[r]] /\ ~exists[dest[r]]
                        THEN "opening" ELSE "done")
    /\ UNCHANGED <<lockFile, flock, disk, kind, owner, dest, fd, depth, seen>>

\* create_project writes default documents, with no lock.
Create(r) ==
    /\ pc[r] = "creating"
    /\ exists' = [exists EXCEPT ![owner[r]] = TRUE]
    /\ doc' = [doc EXCEPT ![owner[r]] = {}]
    /\ Goto(r, "done")
    /\ UNCHANGED <<lockFile, flock, kind, owner, dest, fd, depth, seen>>

(***************************************************************************)
(* project_lock: open the path, creating the file when it is missing, then *)
(* block on the inode that was opened.                                     *)
(***************************************************************************)
Open(r) ==
    /\ pc[r] = "opening"
    /\ IF lockFile[owner[r]] # None
         THEN /\ fd' = [fd EXCEPT ![r] = lockFile[owner[r]]]
              /\ UNCHANGED lockFile
         ELSE \E i \in FreeInode :
                /\ fd' = [fd EXCEPT ![r] = i]
                /\ lockFile' = [lockFile EXCEPT ![owner[r]] = i]
    /\ Goto(r, "waiting")
    /\ UNCHANGED <<flock, disk, kind, owner, dest, depth, seen>>

\* Mutation: a shared flock.
LockShared(r) ==
    /\ pc[r] = "waiting"
    /\ flock' = [flock EXCEPT ![fd[r]] = r]
    /\ depth' = [depth EXCEPT ![r] = 1]
    /\ Goto(r, "inside")
    /\ UNCHANGED <<lockFile, disk, kind, owner, dest, fd, seen>>

Lock(r) ==
    /\ pc[r] = "waiting"
    /\ flock[fd[r]] = None
    /\ flock' = [flock EXCEPT ![fd[r]] = r]
    /\ depth' = [depth EXCEPT ![r] = 1]
    /\ Goto(r, "inside")
    /\ UNCHANGED <<lockFile, disk, kind, owner, dest, fd, seen>>

\* Mutation: the lock is not re-entrant, so the inner call opens the file
\* again and blocks on the flock of its own thread.
NestBlocks(r) ==
    /\ pc[r] = "saved" /\ depth[r] = 1
    /\ Goto(r, "waiting")
    /\ UNCHANGED <<lockFile, flock, disk, kind, owner, dest, fd, depth, seen>>

\* Mutation: nested calls are counted without end.
NestDeeper(r) ==
    /\ pc[r] = "saved"
    /\ depth' = [depth EXCEPT ![r] = @ + 1]
    /\ Goto(r, "inside")
    /\ UNCHANGED <<lockFile, flock, disk, kind, owner, dest, fd, seen>>

\* A locked function that calls another one only counts up: the thread
\* already holds this path.
Nest(r) ==
    /\ pc[r] = "saved" /\ depth[r] = 1
    /\ depth' = [depth EXCEPT ![r] = 2]
    /\ Goto(r, "inside")
    /\ UNCHANGED <<lockFile, flock, disk, kind, owner, dest, fd, seen>>

\* Mutation: leaving the inner call lets go of the flock.
UnnestUnlocks(r) ==
    /\ pc[r] = "saved" /\ depth[r] = 2
    /\ depth' = [depth EXCEPT ![r] = 1]
    /\ flock' = [flock EXCEPT ![fd[r]] = None]
    /\ Goto(r, "leaving")
    /\ UNCHANGED <<lockFile, disk, kind, owner, dest, fd, seen>>

Unnest(r) ==
    /\ pc[r] = "saved" /\ depth[r] = 2
    /\ depth' = [depth EXCEPT ![r] = 1]
    /\ Goto(r, "leaving")
    /\ UNCHANGED <<lockFile, flock, disk, kind, owner, dest, fd, seen>>

\* The outermost exit unlocks and closes the file.
Unlock(r) ==
    /\ pc[r] \in {"saved", "leaving", "failing"} /\ depth[r] = 1
    /\ flock' = [flock EXCEPT ![fd[r]] = None]
    /\ fd' = [fd EXCEPT ![r] = None]
    /\ depth' = [depth EXCEPT ![r] = 0]
    /\ Goto(r, IF pc[r] = "leaving" /\ kind[r] \in {"delete", "transfer"}
                 THEN "unlinking" ELSE "done")
    /\ UNCHANGED <<lockFile, disk, kind, owner, dest, seen>>

(***************************************************************************)
(* What a request does inside the lock.                                    *)
(***************************************************************************)
Load(r) ==
    /\ pc[r] = "inside" /\ kind[r] = "update"
    /\ seen' = [seen EXCEPT ![r] = doc[owner[r]]]
    /\ Goto(r, "loaded")
    /\ UNCHANGED <<lockFile, flock, disk, kind, owner, dest, fd, depth>>

\* The whole document is written back; the write makes the directory first.
Save(r) ==
    /\ pc[r] = "loaded"
    /\ exists' = [exists EXCEPT ![owner[r]] = TRUE]
    /\ doc' = [doc EXCEPT ![owner[r]] = seen[r] \cup {r}]
    /\ Goto(r, "saved")
    /\ UNCHANGED <<lockFile, flock, kind, owner, dest, fd, depth, seen>>

Rmtree(r) ==
    /\ pc[r] = "inside" /\ kind[r] = "delete"
    /\ exists' = [exists EXCEPT ![owner[r]] = FALSE]
    /\ doc' = [doc EXCEPT ![owner[r]] = {}]
    /\ Goto(r, "leaving")
    /\ UNCHANGED <<lockFile, flock, kind, owner, dest, fd, depth, seen>>

\* shutil.move raises when the source has gone, and moves the source INTO
\* the destination when one has appeared since the check.
Move(r) ==
    /\ pc[r] = "inside" /\ kind[r] = "transfer"
    /\ LET src == owner[r]  dst == dest[r] IN
         IF ~exists[src]
           THEN Goto(r, "failing") /\ UNCHANGED disk
           ELSE /\ exists' = [exists EXCEPT ![src] = FALSE, ![dst] = TRUE]
                /\ doc' = [doc EXCEPT ![src] = {},
                             ![dst] = IF exists[dst] THEN @ ELSE doc[src]]
                /\ Goto(r, "leaving")
    /\ UNCHANGED <<lockFile, flock, kind, owner, dest, fd, depth, seen>>

\* delete_project and transfer remove the lock file after unlocking it.
Unlink(r) ==
    /\ pc[r] = "unlinking"
    /\ lockFile' = [lockFile EXCEPT ![owner[r]] = None]
    /\ Goto(r, "done")
    /\ UNCHANGED <<flock, disk, kind, owner, dest, fd, depth, seen>>

Step(r) == \/ Check(r) \/ Create(r) \/ Open(r) \/ Lock(r) \/ Nest(r)
           \/ Unnest(r) \/ Unlock(r) \/ Load(r) \/ Save(r) \/ Rmtree(r)
           \/ Move(r) \/ Unlink(r)

\* Every request has been answered and the server waits for more.
Idle == (\A r \in Request : pc[r] = "done") /\ UNCHANGED vars

Next == (\E r \in Request : Arrive(r) \/ Step(r)) \/ Idle

\* A thread that has begun a request keeps running it, and flock wakes the
\* requests blocked on it.
Fairness == \A r \in Request : WF_vars(Step(r))

Spec == Init /\ [][Next]_vars /\ Fairness

-----------------------------------------------------------------------------
(***************************************************************************)
(* Properties                                                              *)
(***************************************************************************)
Labels == {"new", "checking", "creating", "opening", "waiting", "inside",
           "loaded", "saved", "leaving", "failing", "unlinking", "done"}

\* Every variable keeps its type.
TypeOK ==
    /\ lockFile \in [Owner -> Inode \cup {None}]
    /\ flock \in [Inode -> Request \cup {None}]
    /\ exists \in [Owner -> BOOLEAN]
    /\ doc \in [Owner -> SUBSET Request]
    /\ pc \in [Request -> Labels]
    /\ kind \in [Request -> Kinds \cup {"none"}]
    /\ owner \in [Request -> Owner \cup {None}]
    /\ dest \in [Request -> Owner \cup {None}]
    /\ fd \in [Request -> Inode \cup {None}]
    /\ depth \in [Request -> 0..2]
    /\ seen \in [Request -> SUBSET Request]

Inside(r) == pc[r] \in {"inside", "loaded", "saved", "leaving", "failing"}

\* Until it leaves, a request inside keeps its lock file open and the flock
\* on it: no exit, nested call or other request lets go of it for the thread.
LockHeldInside ==
    \A r \in Request : Inside(r) => fd[r] \in Inode /\ flock[fd[r]] = r

\* The docstring of project_lock: "Exclusive lock on one project's JSON
\* files".  Two requests never work on one owner's project together.
ExclusiveLock ==
    \A q, r \in Request :
        q # r /\ Inside(q) /\ Inside(r) => owner[q] # owner[r]

\* A deletion or a transfer of o's project has ended.
Removal(o) == \E s \in Request : /\ kind[s] \in {"delete", "transfer"}
                                 /\ owner[s] = o /\ pc[s] = "done"

\* What remains true whatever arrives: two requests are inside one project's
\* lock only when one of them holds a lock file that has since been removed,
\* and only a deletion or a transfer of that very project removes it.
OverlapOnlyAfterUnlink ==
    \A q, r \in Request :
        (q # r /\ Inside(q) /\ Inside(r) /\ owner[q] = owner[r])
            => /\ \E p \in {q, r} : fd[p] # lockFile[owner[p]]
               /\ Removal(owner[q])

\* Of o's project there have been no requests but updates.
Updated(o) == \A s \in Request : o \in {owner[s], dest[s]} => kind[s] = "update"

\* "one request's write silently discards another's" is what the lock is
\* there to prevent: a change that has been saved is still in the document,
\* whatever happens to projects of other owners.
SavedChangeKept ==
    \A r \in Request :
        (/\ kind[r] = "update" /\ pc[r] \in {"saved", "leaving", "done"}
         /\ Updated(owner[r]))
            => r \in doc[owner[r]]

\* A flock is a request's that is inside, on the file it has open, so whoever
\* waits for it waits for a request that is not waiting for one itself.
NoFlockLeaked ==
    \A i \in Inode : flock[i] # None => Inside(flock[i]) /\ fd[flock[i]] = i

\* Every request that has begun is answered: no request waits for ever on a
\* lock, its own included when locked functions call each other.
EveryRequestEnds == \A r \in Request : (pc[r] # "new") ~> (pc[r] = "done")

Store == INSTANCE AtomicStore WITH
    Request <- Request, Owner <- Owner, exists <- exists, doc <- doc
\* The document behaves as if each change were applied in one step.
StoreSpec == Store!Spec
=============================================================================
