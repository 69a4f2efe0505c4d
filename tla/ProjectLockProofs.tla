-------------------------- MODULE ProjectLockProofs --------------------------
(***************************************************************************)
(* What the project lock guarantees, for any number of requests, owners    *)
(* and lock-file inodes; and in the last part, what the editor keeps that  *)
(* saves switches under it (EditorSave), for any number of pages, files    *)
(* and edits.                                                              *)
(***************************************************************************)
EXTENDS ProjectLock, TLAPS

-----------------------------------------------------------------------------
(* Whatever requests arrive.                                               *)

\* A request past its arrival has an owner and a kind, one that waits for the
\* lock has a lock file open, and each kind goes its own way.
Begun ==
    \A r \in Request :
        /\ pc[r] = "new" => kind[r] = "none" /\ fd[r] = None /\ owner[r] = None
        /\ pc[r] # "new" => owner[r] \in Owner /\ kind[r] \in Kinds
        /\ IF kind[r] = "transfer" THEN dest[r] \in Owner ELSE dest[r] = None
        /\ pc[r] = "waiting" => fd[r] \in Inode
        /\ pc[r] = "loaded" => kind[r] = "update"
        /\ pc[r] = "creating" => kind[r] = "create"
        /\ pc[r] = "unlinking" => kind[r] \in {"delete", "transfer"}
        /\ kind[r] = "update" => pc[r] \notin {"checking", "failing"}

\* The path of an open lock file names it until a deletion or a transfer of
\* the project removes it.
NamedOrRemoved ==
    \A r \in Request :
        fd[r] # None => Removal(owner[r]) \/ fd[r] = lockFile[owner[r]]

\* What a thread has of a lock, and that a flock is held by a thread inside.
Held == TypeOK /\ Begun /\ LockHeldInside /\ NoFlockLeaked

IInv == Held /\ NamedOrRemoved

LEMMA InitIInv == Init => IInv
BY NoneAssumption DEF Init, IInv, Held, TypeOK, Begun, LockHeldInside, NoFlockLeaked,
                      NamedOrRemoved, Inside, Labels

\* What has been removed stays so: a request that is done stays done.
LEMMA RemovalStays ==
    ASSUME IInv, NEW r \in Request, Arrive(r) \/ Step(r), NEW o, Removal(o)
    PROVE  Removal(o)'
<1>1. PICK s \in Request : kind[s] \in {"delete", "transfer"} /\ owner[s] = o /\ pc[s] = "done"
  BY DEF Removal
<1>2. r # s
  BY <1>1 DEF Step, Arrive, Check, Create, Open, Lock, Nest, Unnest, Unlock, Load, Save,
              Rmtree, Move, Unlink
<1>3. kind'[s] = kind[s] /\ owner'[s] = owner[s] /\ pc'[s] = pc[s]
  BY <1>2 DEF Step, Arrive, Check, Create, Open, Lock, Nest, Unnest, Unlock, Load, Save,
              Rmtree, Move, Unlink, Goto, IInv, Held, TypeOK
<1> QED BY <1>1, <1>3 DEF Removal

\* The steps of a request outside the lock leave every lock as it was.
LEMMA OutsideHeld ==
    ASSUME Held, NEW r \in Request,
           Arrive(r) \/ Check(r) \/ Create(r) \/ Open(r) \/ Unlink(r)
    PROVE  Held'
<1> USE NoneAssumption, KindsAssumption
        DEF Held, TypeOK, Begun, LockHeldInside, NoFlockLeaked, Inside, Labels, disk, Goto
<1>1. CASE Arrive(r)
  BY <1>1 DEF Arrive
<1>2. CASE Check(r)
  BY <1>2 DEF Check
<1>3. CASE Create(r)
  BY <1>3 DEF Create
<1>4. CASE Open(r)
  BY <1>4 DEF Open, FreeInode
<1>5. CASE Unlink(r)
  BY <1>5 DEF Unlink
<1> QED BY <1>1, <1>2, <1>3, <1>4, <1>5

LEMMA LockHeld ==
    ASSUME Held, NEW r \in Request, Lock(r) \/ Nest(r) \/ Unnest(r) \/ Unlock(r)
    PROVE  Held'
<1> USE NoneAssumption, KindsAssumption
        DEF Held, TypeOK, Begun, LockHeldInside, NoFlockLeaked, Inside, Labels, disk, Goto
<1>1. CASE Lock(r)
  BY <1>1 DEF Lock
<1>2. CASE Nest(r)
  BY <1>2 DEF Nest
<1>3. CASE Unnest(r)
  BY <1>3 DEF Unnest
<1>4. CASE Unlock(r)
  BY <1>4 DEF Unlock
<1> QED BY <1>1, <1>2, <1>3, <1>4

\* A function updated at two points keeps its type.
LEMMA UpdateTwice ==
    ASSUME NEW S, NEW T, NEW f \in [S -> T],
           NEW a \in S, NEW b \in S, NEW u \in T, NEW v \in T
    PROVE  [f EXCEPT ![a] = u, ![b] = v] \in [S -> T]
OBVIOUS

LEMMA WorkHeld ==
    ASSUME Held, NEW r \in Request, Load(r) \/ Save(r) \/ Rmtree(r) \/ Move(r)
    PROVE  Held'
<1> USE NoneAssumption, KindsAssumption
        DEF Held, TypeOK, Begun, LockHeldInside, NoFlockLeaked, Inside, Labels, disk, Goto
<1>1. CASE Load(r)
  BY <1>1 DEF Load
<1>2. CASE Save(r)
  BY <1>2 DEF Save
<1>3. CASE Rmtree(r)
  BY <1>3 DEF Rmtree
<1>4. CASE Move(r)
  <2>1. owner[r] \in Owner /\ dest[r] \in Owner
    BY <1>4 DEF Move
  <2>2. exists' \in [Owner -> BOOLEAN]
    <3>1. \/ exists' = exists
          \/ exists' = [exists EXCEPT ![owner[r]] = FALSE, ![dest[r]] = TRUE]
      BY <1>4 DEF Move
    <3>2. exists \in [Owner -> BOOLEAN]
      OBVIOUS
    <3>3. [exists EXCEPT ![owner[r]] = FALSE, ![dest[r]] = TRUE] \in [Owner -> BOOLEAN]
      <4> HIDE DEF Held
      <4> QED BY <3>2, <2>1, UpdateTwice
    <3> HIDE DEF Held, TypeOK, Begun, LockHeldInside, NoFlockLeaked
    <3> QED BY <3>1, <3>2, <3>3
  <2>3. doc' \in [Owner -> SUBSET Request]
    BY <1>4, <2>1 DEF Move
  <2>4. /\ UNCHANGED <<lockFile, flock, kind, owner, dest, fd, depth, seen>>
        /\ pc[r] = "inside" /\ kind[r] = "transfer"
        /\ \E l \in {"failing", "leaving"} : pc' = [pc EXCEPT ![r] = l]
    BY <1>4 DEF Move
  <2> QED BY <2>2, <2>3, <2>4
<1> QED BY <1>1, <1>2, <1>3, <1>4

LEMMA RemovedByUnlink ==
    ASSUME IInv, NEW r \in Request, Unlink(r), NEW o, o = owner[r]
    PROVE  Removal(o)'
BY DEF Unlink, Removal, Goto, IInv, Held, TypeOK, Begun

\* Only an arrival, an Open and an Unlink touch what files are open or named,
\* and an Unlink of o's file ends a deletion or a transfer.
LEMMA NamedStep ==
    ASSUME IInv, NEW r \in Request, Arrive(r) \/ Step(r)
    PROVE  NamedOrRemoved'
<1> SUFFICES ASSUME NEW q \in Request, fd'[q] # None,
                    NEW o, o = owner'[q], ~(Removal(o)')
             PROVE  fd'[q] = lockFile'[o]
  BY DEF NamedOrRemoved, Removal
<1> USE NoneAssumption DEF IInv, Held, TypeOK, Begun, NamedOrRemoved
<1>1. o = owner[q] => ~Removal(o)
  BY RemovalStays
<1>2. CASE Arrive(r)
  BY <1>2, <1>1 DEF Arrive
<1>3. CASE Open(r)
  BY <1>3, <1>1 DEF Open, FreeInode
<1>4. CASE Unlink(r)
  <2>1. owner[q] # owner[r]
    BY <1>4, RemovedByUnlink DEF Unlink
  <2> QED BY <1>4, <1>1, <2>1 DEF Unlink
<1>5. CASE Unlock(r)
  BY <1>5, <1>1 DEF Unlock
<1>6. CASE \/ Check(r) \/ Create(r) \/ Lock(r) \/ Nest(r) \/ Unnest(r) \/ Load(r) \/ Save(r)
           \/ Rmtree(r) \/ Move(r)
  BY <1>6, <1>1 DEF Check, Create, Lock, Nest, Unnest, Load, Save, Rmtree, Move
<1> QED BY <1>2, <1>3, <1>4, <1>5, <1>6 DEF Step

LEMMA NextIInv == IInv /\ [Next]_vars => IInv'
<1> SUFFICES ASSUME IInv, [Next]_vars PROVE IInv'
  OBVIOUS
<1>1. CASE UNCHANGED vars
  BY <1>1 DEF vars, disk, IInv, Held, TypeOK, Begun, LockHeldInside, NoFlockLeaked,
              NamedOrRemoved, Removal, Inside
<1>2. CASE \E r \in Request : Arrive(r) \/ Step(r)
  BY <1>2, OutsideHeld, LockHeld, WorkHeld, NamedStep DEF Step, IInv
<1> QED BY <1>1, <1>2 DEF Next, Idle

LEMMA AlwaysIInv == Spec => []IInv
BY InitIInv, NextIInv, PTL DEF Spec

\* Every variable of the lock keeps its type.
THEOREM TypeCorrect == Spec => []TypeOK
<1>1. IInv => TypeOK
  BY DEF IInv, Held
<1> QED BY <1>1, AlwaysIInv, PTL

\* A request keeps its flock for as long as it is inside, nested calls
\* included.
THEOREM LockKept == Spec => []LockHeldInside
<1>1. IInv => LockHeldInside
  BY DEF IInv, Held
<1> QED BY <1>1, AlwaysIInv, PTL

\* No flock outlives its request's stay inside, so nobody waits for a request
\* that is itself waiting: the lock cannot deadlock, whatever requests arrive.
THEOREM LockGivenBack == Spec => []NoFlockLeaked
<1>1. IInv => NoFlockLeaked
  BY DEF IInv, Held
<1> QED BY <1>1, AlwaysIInv, PTL

\* Of the requests inside one owner's project, at most one has the lock file
\* that the path names.
LEMMA NamedFileExcludes ==
    ASSUME IInv, NEW q \in Request, NEW r \in Request, q # r, Inside(q), Inside(r),
           owner[q] = owner[r]
    PROVE  /\ \E p \in {q, r} : fd[p] # lockFile[owner[p]]
           /\ Removal(owner[q])
<1>1. fd[q] # None /\ fd[r] # None /\ fd[q] # fd[r]
  BY NoneAssumption DEF IInv, Held, LockHeldInside
<1> QED BY <1>1 DEF IInv, NamedOrRemoved

\* Two requests overlap inside a project's lock only when one of them holds a
\* lock file that a deletion or a transfer of that project has removed since.
THEOREM OverlapNeedsUnlink == Spec => []OverlapOnlyAfterUnlink
<1>1. IInv => OverlapOnlyAfterUnlink
  BY NamedFileExcludes DEF OverlapOnlyAfterUnlink
<1> QED BY <1>1, AlwaysIInv, PTL

-----------------------------------------------------------------------------
(***************************************************************************)
(* A project that is only updated, whatever happens to others.             *)
(***************************************************************************)
\* What a request loaded is what the document still holds; what it saved is
\* there.
Serial ==
    \A r \in Request : (kind[r] = "update" /\ Updated(owner[r])) =>
        /\ pc[r] = "loaded" => seen[r] = doc[owner[r]]
        /\ pc[r] \in {"saved", "leaving", "done"} => r \in doc[owner[r]]
        /\ Inside(r) /\ depth[r] = 2 => r \in doc[owner[r]]

LEMMA InitSerial == Init => Serial
BY DEF Init, Serial

\* A project was only updated before if it still is.
LEMMA UpdatedBefore ==
    ASSUME IInv, NEW r \in Request, Arrive(r) \/ Step(r), NEW o \in Owner, Updated(o)'
    PROVE  Updated(o)
<1> SUFFICES ASSUME NEW s \in Request, o \in {owner[s], dest[s]} PROVE kind[s] = "update"
  BY DEF Updated
<1>1. pc[s] # "new"
  BY NoneAssumption DEF IInv, Held, Begun
<1>2. kind'[s] = kind[s] /\ owner'[s] = owner[s] /\ dest'[s] = dest[s]
  BY <1>1 DEF Step, Arrive, Check, Create, Open, Lock, Nest, Unnest, Unlock, Load, Save,
              Rmtree, Move, Unlink, IInv, Held, TypeOK
<1> QED BY <1>2 DEF Updated

\* In a project that is only updated, only a Save touches the document.
LEMMA OthersSpare ==
    ASSUME IInv, NEW r \in Request, Arrive(r) \/ Step(r), NEW o \in Owner, Updated(o),
           owner[r] = o => ~Save(r)
    PROVE  doc'[o] = doc[o]
<1> USE DEF IInv, Held, TypeOK, Begun, Updated
<1>1. CASE Create(r) \/ Rmtree(r)
  BY <1>1 DEF Create, Rmtree
<1>2. CASE Move(r)
  BY <1>2 DEF Move, disk
<1>3. CASE Save(r)
  BY <1>3 DEF Save
<1>4. CASE \/ Arrive(r) \/ Check(r) \/ Open(r) \/ Lock(r) \/ Nest(r)
           \/ Unnest(r) \/ Unlock(r) \/ Load(r) \/ Unlink(r)
  BY <1>4 DEF Arrive, Check, Open, Lock, Nest, Unnest, Unlock, Load, Unlink, disk
<1> QED BY <1>1, <1>2, <1>3, <1>4 DEF Step

LEMMA NextSerial ==
    ASSUME IInv, Serial, NEW r \in Request, Arrive(r) \/ Step(r), IInv'
    PROVE  Serial'
<1> SUFFICES ASSUME NEW q \in Request, kind'[q] = "update",
                    NEW o, o = owner'[q], Updated(o)'
             PROVE  /\ pc'[q] = "loaded" => seen'[q] = doc'[o]
                    /\ pc'[q] \in {"saved", "leaving", "done"} => q \in doc'[o]
                    /\ Inside(q)' /\ depth'[q] = 2 => q \in doc'[o]
  BY DEF Serial, Updated
<1>1. CASE Arrive(q)
  BY <1>1 DEF Arrive, Goto, Inside, IInv, Held, TypeOK, disk
<1> SUFFICES ASSUME r # q \/ Step(q)
             PROVE  /\ pc'[q] = "loaded" => seen'[q] = doc'[o]
                    /\ pc'[q] \in {"saved", "leaving", "done"} => q \in doc'[o]
                    /\ Inside(q)' /\ depth'[q] = 2 => q \in doc'[o]
  BY <1>1
<1>2. kind[q] = "update" /\ owner[q] = o
  BY DEF Step, Arrive, Check, Create, Open, Lock, Nest, Unnest, Unlock, Load, Save,
         Rmtree, Move, Unlink, IInv, Held, TypeOK
<1>3. o \in Owner /\ Updated(o)
  <2>1. o \in Owner
    BY <1>2, KindsAssumption DEF IInv, Held, Begun
  <2> QED BY <2>1, UpdatedBefore
<1>4. /\ pc[q] = "loaded" => seen[q] = doc[o]
      /\ pc[q] \in {"saved", "leaving", "done"} => q \in doc[o]
      /\ Inside(q) /\ depth[q] = 2 => q \in doc[o]
  BY <1>2, <1>3 DEF Serial
<1>5. CASE r = q /\ ~Save(q)
  <2>1. doc'[o] = doc[o]
    BY <1>3, <1>5, OthersSpare
  <2>2. pc[q] \notin {"checking", "creating", "failing", "unlinking"}
    BY <1>2 DEF IInv, Held, Begun
  <2> QED BY <1>2, <1>4, <1>5, <2>1, <2>2
          DEF Step, Check, Create, Open, Lock, Nest, Unnest, Unlock, Load, Rmtree, Move,
              Unlink, Goto, Inside, disk, IInv, Held, TypeOK
<1>6. CASE r = q /\ Save(q)
  BY <1>2, <1>3, <1>6 DEF Save, Goto, Inside, IInv, Held, TypeOK
<1>7. CASE r # q
  <2>1. UNCHANGED <<pc[q], seen[q], depth[q]>>
    BY <1>7 DEF Step, Arrive, Check, Create, Open, Lock, Nest, Unnest, Unlock, Load, Save,
         Rmtree, Move, Unlink, Goto, IInv, Held, TypeOK
  <2>2. CASE owner[r] = o /\ Save(r)
    <3>1. kind[r] = "update" /\ pc[r] = "loaded"
      BY <2>2 DEF Save, IInv, Held, Begun
    <3>2. doc'[o] = doc[o] \cup {r}
      BY <1>3, <2>2, <3>1 DEF Serial, Save, IInv, Held, TypeOK
    <3>3. ~Inside(q)
      BY <1>2, <1>3, <1>7, <2>2, <3>1, NamedFileExcludes DEF Inside, Removal, Updated
    <3> QED BY <1>4, <2>1, <3>2, <3>3 DEF Inside
  <2>3. CASE ~(owner[r] = o /\ Save(r))
    BY <1>3, <1>4, <2>1, <2>3, OthersSpare DEF Inside
  <2> QED BY <2>2, <2>3
<1> QED BY <1>5, <1>6, <1>7

LEMMA AlwaysSerial == Spec => [](IInv /\ Serial)
<1>1. Init => IInv /\ Serial
  BY InitIInv, InitSerial
<1>2. IInv /\ Serial /\ [Next]_vars => (IInv /\ Serial)'
  <2> SUFFICES ASSUME IInv, Serial, [Next]_vars PROVE Serial'
    BY NextIInv
  <2>1. CASE UNCHANGED vars
    BY <2>1 DEF vars, disk, Serial, Updated, Inside
  <2>2. CASE \E r \in Request : Arrive(r) \/ Step(r)
    BY <2>2, NextIInv, NextSerial
  <2> QED BY <2>1, <2>2 DEF Next, Idle
<1> QED BY <1>1, <1>2, PTL DEF Spec

\* No saved change is discarded by another request's write, in a project that
\* is neither created, deleted nor moved meanwhile.
THEOREM NothingLost == Spec => []SavedChangeKept
<1>1. Serial => SavedChangeKept
  BY DEF Serial, SavedChangeKept
<1> QED BY <1>1, AlwaysSerial, PTL

-----------------------------------------------------------------------------
(***************************************************************************)
(* When every request is an update, the documents are read and written as  *)
(* if by single steps.                                                     *)
(***************************************************************************)
UpdatesOnly == Kinds = {"update"}

\* The lock is exclusive: two updates of one project never overlap.
THEOREM Exclusive == ASSUME UpdatesOnly PROVE Spec => []ExclusiveLock
<1>1. ASSUME IInv PROVE ExclusiveLock
  <2>1. \A o : ~Removal(o)
    BY <1>1 DEF UpdatesOnly, Removal, IInv, Held, Begun, TypeOK
  <2> QED BY <1>1, <2>1, NamedFileExcludes DEF ExclusiveLock
<1> QED BY <1>1, AlwaysIInv, PTL

\* Then all documents are only updated.
LEMMA AllUpdated ==
    ASSUME UpdatesOnly, IInv PROVE \A o \in Owner : Updated(o)
BY NoneAssumption DEF UpdatesOnly, Updated, IInv, Held, Begun, TypeOK

\* The lock implements the atomic store: a save is its Apply, every other
\* step changes nothing on disk.
LEMMA StepApplies ==
    ASSUME UpdatesOnly, IInv, Serial, [Next]_vars
    PROVE  [Store!Next]_(Store!vars)
<1> USE DEF Store!vars, disk
<1>1. CASE UNCHANGED vars
  BY <1>1 DEF vars
<1>2. ASSUME NEW r \in Request, Save(r)
      PROVE  Store!Next
  <2>1. owner[r] \in Owner /\ seen[r] = doc[owner[r]]
    BY <1>2, AllUpdated DEF Save, Serial, IInv, Held, Begun
  <2>2. Store!Apply(r, owner[r])
    BY <1>2, <2>1 DEF Save, Store!Apply, IInv, Held, TypeOK
  <2> QED BY <2>1, <2>2 DEF Store!Next
<1>3. ASSUME NEW r \in Request, Create(r) \/ Rmtree(r) \/ Move(r)
      PROVE  FALSE
  BY <1>3 DEF UpdatesOnly, IInv, Held, Begun, TypeOK, Create, Rmtree, Move
<1>4. ASSUME NEW r \in Request,
             \/ Arrive(r) \/ Check(r) \/ Open(r) \/ Lock(r) \/ Nest(r)
             \/ Unnest(r) \/ Unlock(r) \/ Load(r) \/ Unlink(r)
      PROVE  UNCHANGED disk
  BY <1>4 DEF Arrive, Check, Open, Lock, Nest, Unnest, Unlock, Load, Unlink
<1> QED BY <1>1, <1>2, <1>3, <1>4 DEF Next, Idle, Step

THEOREM LockRefinesStore == ASSUME UpdatesOnly PROVE Spec => StoreSpec
<1>1. Init => Store!Init
  BY DEF Init, Store!Init
<1> QED BY <1>1, AlwaysSerial, StepApplies, PTL DEF Spec, StoreSpec, Store!Spec

-----------------------------------------------------------------------------
(***************************************************************************)
(* The editor.  EditorSave's names that mean something else here get       *)
(* others: the files on disk, and where a page is.                         *)
(***************************************************************************)
CONSTANTS Editor, File, Quiet, MaxSaves, MaxRemovals, MaxReconciles, Missing

VARIABLES listed, there, files, savedBy, lock, removing, adding, removals,
          reconciles, at, todo, shown, base, bad, saves

Page == INSTANCE EditorSave WITH disk <- files, pc <- at

(***************************************************************************)
(* The inductive invariant: with Quiet, a page that loads and a            *)
(* reconciliation are alone, so that what a page shows of a file is at     *)
(* least what its base has in it.                                          *)
(***************************************************************************)
LoadingAlone == \A e \in Editor : Page!Loading(e) =>
    there /\ lock = None /\ ~removing /\ adding = {}

\* What it creates is still missing.
ReconcilingAlone == adding # {} =>
    /\ there /\ lock = None /\ ~removing
    /\ \A f \in adding : files[f] = Missing

\* A switch without a directory has no files.
NoFiles == ~there => \A f \in File : files[f] = Missing

\* The form shows every edit that the files F had.
Shows(e, content, F) == \A f \in F : content[f] # Missing => content[f] \subseteq shown[e][f]

\* A form shows what was in the files it has parsed, then what is in the base
\* (nothing may be lost by a save that finds the base unchanged), and while it
\* is written what is in the files.
Forms == \A e \in Editor :
    /\ at[e] = "parsing" => Shows(e, files, File \ todo[e])
    /\ at[e] = "parsed" => Shows(e, files, File)
    /\ at[e] \in {"open", "writing"} => base[e] # None /\ Shows(e, base[e], File)
    /\ at[e] = "writing" => Shows(e, files, File)

Edits == LoadingAlone /\ ReconcilingAlone /\ NoFiles /\ Forms

-----------------------------------------------------------------------------
LEMMA InitEditorTypes == ASSUME Page!Parameters PROVE Page!Init => Page!TypeOK
<1>1. {} \in Page!Content
  BY DEF Page!Content
<1> SUFFICES ASSUME Page!Init PROVE Page!TypeOK
  OBVIOUS
<1>2. files \in [File -> Page!Content \cup {Missing}]
  BY <1>1 DEF Page!Init
<1>3. shown \in [Editor -> [File -> Page!Content]]
  BY <1>1 DEF Page!Init
<1>4. \A e \in Editor : at[e] = "writing" <=> lock = e
  BY DEF Page!Parameters, Page!Init
<1>5. /\ removals \in 0..MaxRemovals /\ reconciles \in 0..MaxReconciles
      /\ saves \in [Editor -> 0..MaxSaves]
  BY DEF Page!Parameters, Page!Init
<1>6. /\ listed \in BOOLEAN /\ there \in BOOLEAN /\ removing \in BOOLEAN
      /\ savedBy \in Editor \cup {None} /\ lock \in Editor \cup {None}
      /\ adding \in SUBSET File /\ bad \in [Editor -> BOOLEAN]
      /\ at \in [Editor -> {"closed", "parsing", "parsed", "open", "writing"}]
      /\ todo \in [Editor -> SUBSET File]
      /\ base \in [Editor -> [File -> Page!Content \cup {Missing}] \cup {None}]
  BY DEF Page!Init
<1> QED BY <1>2, <1>3, <1>4, <1>5, <1>6 DEF Page!TypeOK

\* Loading and saving keep the types.
LEMMA PageEditorTypes ==
    ASSUME Page!Parameters, Page!TypeOK, NEW e \in Editor,
           \/ Page!Open(e) \/ Page!TakeBase(e) \/ Page!Begin(e) \/ Page!Refuse(e)
           \/ Page!EndWithErrors(e) \/ Page!EndSaved(e)
           \/ \E f \in File : Page!Parse(e, f) \/ Page!Write(e, f)
    PROVE  Page!TypeOK'
<1>1. CASE Page!Open(e)
  <2>1. {} \in Page!Content
    BY DEF Page!Content
  <2> QED BY <1>1, <2>1 DEF Page!Open, Page!Goto, Page!TypeOK, Page!switch, Page!bounds
<1>2. CASE Page!TakeBase(e)
  BY <1>2
  DEF Page!Parameters, Page!TakeBase, Page!Goto, Page!TypeOK, Page!switch,
      Page!bounds, Page!Fingerprint
<1>3. CASE Page!Begin(e)
  <2>1. PICK I \in SUBSET File \ {{}}, b \in BOOLEAN :
          /\ todo' = [todo EXCEPT ![e] = I]
          /\ shown' = [shown EXCEPT ![e] = [f \in File |->
               IF f \in I THEN shown[e][f] \cup {<<e, saves[e] + 1>>} ELSE shown[e][f]]]
          /\ bad' = [bad EXCEPT ![e] = b]
    BY <1>3 DEF Page!Begin, Page!Submitted, Page!TypeOK
  <2>2. /\ saves[e] + 1 \in 1..MaxSaves /\ saves[e] + 1 \in 0..MaxSaves
        /\ saves' = [saves EXCEPT ![e] = @ + 1]
    BY <1>3 DEF Page!Parameters, Page!Begin, Page!Submitted, Page!TypeOK
  <2>3. \A f \in File : /\ shown[e][f] \cup {<<e, saves[e] + 1>>} \in Page!Content
                        /\ shown[e][f] \in Page!Content
    BY <2>2 DEF Page!TypeOK, Page!Content, Page!Edit
  <2>4. shown' \in [Editor -> [File -> Page!Content]]
    BY <2>1, <2>3 DEF Page!TypeOK
  <2>5. saves' \in [Editor -> 0..MaxSaves]
    BY <2>2 DEF Page!TypeOK
  <2>6. /\ at' \in [Editor -> {"closed", "parsing", "parsed", "open", "writing"}]
        /\ lock' \in Editor \cup {None}
        /\ \A x \in Editor : at'[x] = "writing" <=> lock' = x
    BY <1>3 DEF Page!Parameters, Page!Begin, Page!Goto, Page!TypeOK
  <2> QED BY <1>3, <2>1, <2>4, <2>5, <2>6
          DEF Page!Begin, Page!TypeOK, Page!switch, Page!bounds
<1>4. CASE Page!Refuse(e)
  BY <1>4 DEF Page!Parameters, Page!Refuse, Page!TypeOK, Page!switch, Page!bounds
<1>5. CASE Page!EndWithErrors(e)
  BY <1>5
  DEF Page!Parameters, Page!EndWithErrors, Page!Goto, Page!TypeOK, Page!switch,
      Page!bounds, Page!page
<1>6. CASE Page!EndSaved(e)
  BY <1>6
  DEF Page!Parameters, Page!EndSaved, Page!Goto, Page!TypeOK, Page!switch,
      Page!bounds
<1>7. ASSUME NEW f \in File, Page!Parse(e, f) PROVE Page!TypeOK'
  <2>1. (IF files[f] = Missing THEN {} ELSE files[f]) \in Page!Content
    BY DEF Page!TypeOK, Page!Content
  <2>2. shown' \in [Editor -> [File -> Page!Content]]
    BY <1>7, <2>1 DEF Page!Parse, Page!TypeOK
  <2> QED BY <1>7, <2>2
          DEF Page!Parameters, Page!Parse, Page!Goto, Page!TypeOK, Page!switch,
              Page!bounds
<1>8. ASSUME NEW f \in File, Page!Write(e, f) PROVE Page!TypeOK'
  BY <1>8 DEF Page!Write, Page!TypeOK, Page!bounds
<1> QED BY <1>1, <1>2, <1>3, <1>4, <1>5, <1>6, <1>7, <1>8

\* So does the switch's being removed, added and reconciled.
LEMMA NextEditorTypes ==
    ASSUME Page!Parameters PROVE Page!TypeOK /\ [Page!Next]_(Page!vars) => Page!TypeOK'
<1> SUFFICES ASSUME Page!TypeOK, [Page!Next]_(Page!vars) PROVE Page!TypeOK'
  OBVIOUS
<1>1. {} \in Page!Content
  BY DEF Page!Content
<1>2. CASE Page!Unlist
  <2>1. removals' \in 0..MaxRemovals
    BY <1>2 DEF Page!Parameters, Page!Unlist, Page!TypeOK
  <2> QED BY <1>2, <2>1 DEF Page!Unlist, Page!TypeOK, Page!page
<1>3. CASE Page!Rmtree
  BY <1>3 DEF Page!Rmtree, Page!TypeOK, Page!page
<1>4. CASE Page!Add
  BY <1>1, <1>4 DEF Page!Add, Page!TypeOK, Page!bounds, Page!page
<1>5. CASE Page!Reconcile
  BY <1>5 DEF Page!Parameters, Page!Reconcile, Page!TypeOK, Page!switch, Page!page
<1>6. ASSUME NEW f \in File, Page!CreateMissing(f) PROVE Page!TypeOK'
  BY <1>1, <1>6 DEF Page!CreateMissing, Page!TypeOK, Page!page
<1>7. CASE UNCHANGED Page!vars
  BY <1>7 DEF Page!TypeOK, Page!vars, Page!switch, Page!bounds, Page!page
<1> QED BY <1>2, <1>3, <1>4, <1>5, <1>6, <1>7, PageEditorTypes
        DEF Page!Next, Page!Idle

\* Every variable of the editor keeps its type, and the lock is held by the page
\* that writes, and by no other.
THEOREM EditorTypeCorrect == ASSUME Page!Parameters PROVE Page!Spec => []Page!TypeOK
BY InitEditorTypes, NextEditorTypes, PTL DEF Page!Spec

LEMMA InitEdits == Page!Init => Edits
BY DEF Page!Init, Edits, LoadingAlone, ReconcilingAlone, NoFiles, Forms, Page!Loading

\* What a Page!page does.
LEMMA PageEdits ==
    ASSUME Page!Parameters, Quiet, Page!TypeOK, Edits, NEW e \in Editor,
           \/ Page!Open(e) \/ Page!TakeBase(e) \/ Page!Begin(e) \/ Page!Refuse(e)
           \/ Page!EndWithErrors(e) \/ Page!EndSaved(e)
           \/ \E f \in File : Page!Parse(e, f) \/ Page!Write(e, f)
    PROVE  Edits'
<1> USE DEF Edits, LoadingAlone, ReconcilingAlone, NoFiles, Forms, Page!Loading, Shows
<1>1. CASE Page!Open(e)
  BY <1>1 DEF Page!Open, Page!Goto, Page!TypeOK, Page!switch, Page!bounds
<1>2. CASE Page!TakeBase(e)
  <2>1. base' = [base EXCEPT ![e] = files] /\ files # None
    BY <1>2 DEF Page!Parameters, Page!TakeBase, Page!Fingerprint, Page!TypeOK
  <2> QED BY <1>2, <2>1
          DEF Page!TakeBase, Page!Goto, Page!TypeOK, Page!switch, Page!bounds
<1>3. CASE Page!Begin(e)
  <2>1. PICK I \in SUBSET File \ {{}} :
          shown' = [shown EXCEPT ![e] = [f \in File |->
             IF f \in I THEN shown[e][f] \cup {<<e, saves[e] + 1>>} ELSE shown[e][f]]]
    BY <1>3 DEF Page!Begin, Page!Submitted, Page!TypeOK
  <2>2. /\ \A f \in File : shown[e][f] \subseteq shown'[e][f]
        /\ \A x \in Editor \ {e} : shown'[x] = shown[x]
    BY <2>1 DEF Page!TypeOK
  <2>3. Shows(e, files, File)
    BY <1>3 DEF Page!Begin
  <2>4. adding = {} /\ \A x \in Editor : ~Page!Loading(x)
    BY <1>3 DEF Page!Begin, Page!Undisturbed
  <2>5. at' = [at EXCEPT ![e] = "writing"] /\ at[e] = "open"
    BY <1>3 DEF Page!Begin, Page!Goto
  <2>6. UNCHANGED <<Page!switch, Page!bounds, base>>
    BY <1>3 DEF Page!Begin
  <2>7. Forms'
    BY <2>2, <2>3, <2>4, <2>5, <2>6 DEF Page!TypeOK, Page!switch
  <2> QED BY <2>4, <2>5, <2>6, <2>7 DEF Page!TypeOK, Page!switch, Page!bounds
<1>4. CASE Page!Refuse(e)
  BY <1>4 DEF Page!Refuse, Page!TypeOK, Page!switch, Page!bounds
<1>5. CASE Page!EndWithErrors(e)
  BY <1>5
  DEF Page!EndWithErrors, Page!Goto, Page!TypeOK, Page!switch, Page!bounds,
      Page!page
<1>6. CASE Page!EndSaved(e)
  <2>1. files # None
    BY DEF Page!Parameters, Page!TypeOK
  <2> QED BY <1>6, <2>1
          DEF Page!EndSaved, Page!Goto, Page!TypeOK, Page!switch, Page!bounds
<1>7. ASSUME NEW f \in File, Page!Parse(e, f) PROVE Edits'
  BY <1>7 DEF Page!Parse, Page!Goto, Page!TypeOK, Page!switch, Page!bounds
<1>8. ASSUME NEW f \in File, Page!Write(e, f) PROVE Edits'
  <2>1. lock = e /\ at[e] = "writing" /\ \A x \in Editor : at[x] = "writing" => x = e
    BY <1>8 DEF Page!Write, Page!TypeOK
  <2>2. (\A x \in Editor : ~Page!Loading(x)) /\ adding = {}
    BY <2>1 DEF Page!Parameters
  <2>3. files' = [files EXCEPT ![f] = shown[e][f]] /\ there' = TRUE
    BY <1>8 DEF Page!Write
  <2>4. UNCHANGED <<listed, lock, Page!bounds, at, shown, base>>
    BY <1>8 DEF Page!Write
  <2>5. Forms'
    BY <2>1, <2>2, <2>3, <2>4 DEF Page!TypeOK
  <2> QED BY <2>1, <2>2, <2>3, <2>4, <2>5 DEF Page!TypeOK, Page!bounds
<1> QED BY <1>1, <1>2, <1>3, <1>4, <1>5, <1>6, <1>7, <1>8

\* What happens to the switch.
LEMMA NextEdits == 
    ASSUME Page!Parameters, Quiet
    PROVE  Page!TypeOK /\ Edits /\ [Page!Next]_(Page!vars) => Edits'
<1> SUFFICES ASSUME Page!TypeOK, Edits, [Page!Next]_(Page!vars) PROVE Edits'
  OBVIOUS
<1> USE DEF Edits, LoadingAlone, ReconcilingAlone, NoFiles, Forms, Page!Loading, Shows
<1>1. Page!Undisturbed => adding = {} /\ \A e \in Editor : at[e] \notin {"parsing", "parsed"}
  BY DEF Page!Undisturbed
<1>2. CASE Page!Unlist
  BY <1>1, <1>2 DEF Page!Unlist, Page!TypeOK, Page!page
<1>3. CASE Page!Rmtree
  BY <1>1, <1>3 DEF Page!Rmtree, Page!TypeOK, Page!page
<1>4. CASE Page!Add
  <2>1. \A e \in Editor : at[e] # "writing"
    BY <1>4 DEF Page!Parameters, Page!Add, Page!TypeOK
  <2> QED BY <1>1, <1>4, <2>1 DEF Page!Add, Page!TypeOK, Page!bounds, Page!page
<1>5. CASE Page!Reconcile
  BY <1>1, <1>5 DEF Page!Reconcile, Page!TypeOK, Page!switch, Page!page
<1>6. ASSUME NEW f \in File, Page!CreateMissing(f) PROVE Edits'
  <2>1. /\ there /\ lock = None /\ ~removing /\ files[f] = Missing
        /\ \A e \in Editor : at[e] \notin {"parsing", "parsed", "writing"}
    BY <1>6 DEF Page!Parameters, Page!CreateMissing, Page!TypeOK
  <2> QED BY <1>6, <2>1 DEF Page!CreateMissing, Page!TypeOK, Page!page
<1>7. CASE UNCHANGED Page!vars
  BY <1>7 DEF Page!vars, Page!switch, Page!bounds, Page!page
<1> QED BY <1>2, <1>3, <1>4, <1>5, <1>6, <1>7, PageEdits DEF Page!Next, Page!Idle

\* While a switch's directory is there, an edit that has been written to one of
\* its files stays in it, whoever saves: a page that has not seen it is refused.
THEOREM NoEditOverwritten == 
    ASSUME Page!Parameters, Quiet
    PROVE  Page!Spec => Page!NothingOverwritten
<1> DEFINE Kept == (there /\ there') => \A f \in File : files[f] # Missing =>
                      (files'[f] # Missing /\ files[f] \subseteq files'[f])
<1>1. ASSUME Page!TypeOK, Edits, Page!Next PROVE Kept
  <2>1. CASE files' = files
    BY <2>1
  <2>2. ASSUME NEW e \in Editor, NEW f \in File, Page!Write(e, f) PROVE Kept
    <3>1. files' = [files EXCEPT ![f] = shown[e][f]] /\ at[e] = "writing"
      BY <2>2 DEF Page!Write
    <3>2. shown[e][f] # Missing /\ (files[f] # Missing => files[f] \subseteq shown[e][f])
      BY <1>1, <3>1 DEF Page!Parameters, Page!TypeOK, Edits, Forms, Shows
    <3> QED BY <1>1, <3>1, <3>2 DEF Page!TypeOK
  <2>3. ASSUME NEW f \in File, Page!CreateMissing(f) PROVE Kept
    <3>1. files[f] = Missing
      BY <1>1, <2>3 DEF Page!CreateMissing, Edits, ReconcilingAlone
    <3> QED BY <1>1, <2>3, <3>1 DEF Page!CreateMissing, Page!TypeOK
  <2>4. CASE Page!Add
    BY <2>4 DEF Page!Add
  <2>5. CASE Page!Rmtree
    BY <2>5 DEF Page!Rmtree
  <2> QED BY <1>1, <2>1, <2>2, <2>3, <2>4, <2>5
          DEF Page!Next, Page!Idle, Page!Open, Page!TakeBase, Page!Begin,
              Page!Refuse,
          Page!EndWithErrors, Page!EndSaved, Page!Parse, Page!Unlist, Page!Reconcile, Page!vars, Page!switch
<1>2. Page!TypeOK /\ Edits /\ [Page!Next]_(Page!vars) => [Kept]_(Page!vars)
  BY <1>1
<1> QED BY <1>2, InitEditorTypes, NextEditorTypes, InitEdits, NextEdits, PTL
        DEF Page!Spec, Page!NothingOverwritten
=============================================================================
