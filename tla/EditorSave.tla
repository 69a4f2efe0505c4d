------------------------------ MODULE EditorSave ------------------------------
(***************************************************************************)
(* Several people editing one switch's host_vars: the editor page          *)
(* (editor.js) loading and saving, get_state and save_all_hostvars         *)
(* (projects.py), and the switch being removed, added back                 *)
(* (utils.remove_project_host, add_project_hosts) and reconciled with the  *)
(* skeleton (utils.reconcile_host_vars).                                   *)
(*                                                                         *)
(* A file's content is the set of edits it holds, {} being the skeleton's. *)
(* The fingerprint tells any two contents of the directory apart.          *)
(***************************************************************************)
EXTENDS Naturals

CONSTANTS Editor,       \* open editor pages, each of another user
          File,         \* the files of the switch
          Quiet,        \* nothing changes the files while a page loads them
                        \* or while they are being reconciled
          MaxSaves,     \* bound: saves of a page
          MaxRemovals,  \* bound: removals of the switch
          MaxReconciles,\* bound: reconciliations
          Missing,      \* a file that is not there
          None          \* no fingerprint, no user

VARIABLES
    listed,      \* the switch is in hosts.ini
    there,       \* its host_vars directory exists
    disk,        \* disk[f]: the edits in file f, or Missing
    savedBy,     \* host_saves: who saved last, or None
    lock,        \* who holds the project lock, or None
    removing,    \* a removal has taken the switch off hosts.ini only
    adding,      \* files a reconciliation found missing
    removals, reconciles,
    pc,
    todo,        \* todo[e]: files still to parse, or to write
    shown,       \* shown[e][f]: the edits in e's form for f
    base,        \* base[e]: HOST_FINGERPRINT, or None
    bad,         \* bad[e]: the request holds an item that is refused
    saves        \* saves[e]: how often e has saved

switch == <<listed, there, disk>>
bounds == <<removing, adding, removals, reconciles>>
page == <<todo, shown, base, bad, saves>>
vars == <<switch, savedBy, lock, bounds, pc, page>>

Edit == Editor \X (1..MaxSaves)
Content == SUBSET Edit

Parameters ==
    /\ MaxSaves \in Nat /\ MaxRemovals \in Nat /\ MaxReconciles \in Nat
    /\ Quiet \in BOOLEAN
    /\ \A c \in Content : c # Missing
    /\ None \notin Editor \cup [File -> Content \cup {Missing}]

ASSUME ParametersAssumption == Parameters

Goto(e, label) == pc' = [pc EXCEPT ![e] = label]

\* hostvars_fingerprint.
Fingerprint == IF there THEN disk ELSE None

Init ==
    /\ listed = TRUE /\ there = TRUE
    /\ disk \in [File -> {{}, Missing}]
    /\ savedBy = None /\ lock = None
    /\ removing = FALSE /\ adding = {}
    /\ removals = 0 /\ reconciles = 0
    /\ pc = [e \in Editor |-> "closed"]
    /\ todo = [e \in Editor |-> {}]
    /\ shown = [e \in Editor |-> [f \in File |-> {}]]
    /\ base = [e \in Editor |-> None]
    /\ bad = [e \in Editor |-> FALSE]
    /\ saves = [e \in Editor |-> 0]

Loading(e) == pc[e] \in {"parsing", "parsed"}
Undisturbed == Quiet => adding = {} /\ \A e \in Editor : ~Loading(e)

-----------------------------------------------------------------------------
(***************************************************************************)
(* Opening the page: get_state takes no lock.                              *)
(***************************************************************************)
\* A new page is empty and has no base.
Open(e) ==
    /\ pc[e] \in {"closed", "open"} /\ there
    /\ Quiet => lock = None /\ ~removing /\ adding = {}
    /\ todo' = [todo EXCEPT ![e] = File]
    /\ shown' = [shown EXCEPT ![e] = [f \in File |-> {}]]
    /\ base' = [base EXCEPT ![e] = None]
    /\ Goto(e, "parsing")
    /\ UNCHANGED <<switch, savedBy, lock, bounds, bad, saves>>

\* _parse_state reads a file at a time; one that is missing counts as empty.
Parse(e, f) ==
    /\ pc[e] = "parsing" /\ f \in todo[e]
    /\ shown' = [shown EXCEPT ![e][f] = IF disk[f] = Missing THEN {} ELSE disk[f]]
    /\ todo' = [todo EXCEPT ![e] = @ \ {f}]
    /\ Goto(e, IF todo[e] = {f} THEN "parsed" ELSE "parsing")
    /\ UNCHANGED <<switch, savedBy, lock, bounds, base, bad, saves>>

\* The fingerprint is taken after everything has been parsed.
TakeBase(e) ==
    /\ pc[e] = "parsed"
    /\ base' = [base EXCEPT ![e] = Fingerprint]
    /\ Goto(e, "open")
    /\ UNCHANGED <<switch, savedBy, lock, bounds, todo, shown, bad, saves>>

(***************************************************************************)
(* Saving: the user changes the form, and the files of the included tabs   *)
(* are sent.                                                               *)
(***************************************************************************)
Submitted(e) ==
    /\ \E I \in SUBSET File \ {{}} :
         /\ todo' = [todo EXCEPT ![e] = I]
         /\ shown' = [shown EXCEPT ![e] = [f \in File |->
              IF f \in I THEN @[f] \cup {<<e, saves[e] + 1>>} ELSE @[f]]]
    /\ saves' = [saves EXCEPT ![e] = @ + 1]
    /\ \E b \in BOOLEAN : bad' = [bad EXCEPT ![e] = b]

\* Mutation: the fingerprints are compared before the lock is taken.
BeginUnlocked(e) ==
    /\ pc[e] = "open" /\ saves[e] < MaxSaves
    /\ Undisturbed
    /\ base[e] = None \/ ~there \/ base[e] = disk
    /\ Submitted(e)
    /\ Goto(e, "writing")
    /\ UNCHANGED <<switch, savedBy, lock, bounds, base>>

\* Under the lock: a page without a base, or a switch without a directory,
\* is not checked.
Begin(e) ==
    /\ pc[e] = "open" /\ saves[e] < MaxSaves
    /\ lock = None /\ Undisturbed
    /\ base[e] = None \/ ~there \/ base[e] = disk
    /\ Submitted(e)
    /\ lock' = e
    /\ Goto(e, "writing")
    /\ UNCHANGED <<switch, savedBy, bounds, base>>

\* The conflict answer; what the page shows is kept.
Refuse(e) ==
    /\ pc[e] = "open" /\ saves[e] < MaxSaves
    /\ lock = None
    /\ base[e] # None /\ there /\ base[e] # disk
    /\ saves' = [saves EXCEPT ![e] = @ + 1]
    /\ UNCHANGED <<switch, savedBy, lock, bounds, pc, todo, shown, base, bad>>

\* Each file is written in place, after makedirs.
Write(e, f) ==
    /\ pc[e] = "writing" /\ f \in todo[e]
    /\ there' = TRUE
    /\ disk' = [disk EXCEPT ![f] = shown[e][f]]
    /\ todo' = [todo EXCEPT ![e] = @ \ {f}]
    /\ UNCHANGED <<listed, savedBy, lock, bounds, pc, shown, base, bad, saves>>

\* A refused item ends the request with what has been written, and without
\* a new fingerprint for the page.
EndWithErrors(e) ==
    /\ pc[e] = "writing" /\ todo[e] = {} /\ bad[e]
    /\ lock' = None
    /\ bad' = [bad EXCEPT ![e] = FALSE]
    /\ Goto(e, "open")
    /\ UNCHANGED <<switch, savedBy, bounds, todo, shown, base, saves>>

\* record_host_save, the allocations, the new fingerprint, and the lock.
EndSaved(e) ==
    /\ pc[e] = "writing" /\ todo[e] = {} /\ ~bad[e]
    /\ savedBy' = e
    /\ base' = [base EXCEPT ![e] = IF there THEN disk ELSE @]
    /\ lock' = None
    /\ Goto(e, "open")
    /\ UNCHANGED <<switch, bounds, todo, shown, bad, saves>>

-----------------------------------------------------------------------------
(***************************************************************************)
(* The switch itself.                                                      *)
(***************************************************************************)
\* remove_project_host takes no lock: first hosts.ini, then the directory.
\* host_saves keeps its entry.
Unlist ==
    /\ removals < MaxRemovals /\ listed /\ ~removing /\ Undisturbed
    /\ removals' = removals + 1
    /\ listed' = FALSE /\ removing' = TRUE
    /\ UNCHANGED <<there, disk, savedBy, lock, adding, reconciles, pc, page>>

Rmtree ==
    /\ removing /\ Undisturbed
    /\ removing' = FALSE /\ there' = FALSE
    /\ disk' = [f \in File |-> Missing]
    /\ UNCHANGED <<listed, savedBy, lock, adding, removals, reconciles, pc, page>>

\* add_project_hosts, under the lock: a directory that is there is left
\* alone, another is filled from the skeleton.
Add ==
    /\ ~listed /\ lock = None /\ Undisturbed
    /\ listed' = TRUE /\ there' = TRUE
    /\ disk' = IF there THEN disk ELSE [f \in File |-> {}]
    /\ UNCHANGED <<savedBy, lock, bounds, pc, page>>

\* reconcile_host_vars takes no lock: it notes which files are missing ...
Reconcile ==
    /\ reconciles < MaxReconciles /\ listed /\ there /\ adding = {} /\ Undisturbed
    /\ Quiet => lock = None /\ ~removing
    /\ reconciles' = reconciles + 1
    /\ adding' = {f \in File : disk[f] = Missing}
    /\ UNCHANGED <<switch, savedBy, lock, removing, removals, pc, page>>

\* ... and then creates them.  Without the directory it fails.
CreateMissing(f) ==
    /\ f \in adding
    /\ adding' = IF there THEN adding \ {f} ELSE {}
    /\ disk' = IF there THEN [disk EXCEPT ![f] = {}] ELSE disk
    /\ UNCHANGED <<listed, there, savedBy, lock, removing, removals, reconciles,
                   pc, page>>

\* Every page has used up its saves, or cannot be opened.
Idle == /\ \A e \in Editor : saves[e] = MaxSaves \/ (pc[e] = "closed" /\ ~there)
        /\ UNCHANGED vars

Next == \/ \E e \in Editor : \/ Open(e) \/ TakeBase(e) \/ Begin(e) \/ Refuse(e)
                             \/ EndWithErrors(e) \/ EndSaved(e)
                             \/ \E f \in File : Parse(e, f) \/ Write(e, f)
        \/ Unlist \/ Rmtree \/ Add \/ Reconcile
        \/ \E f \in File : CreateMissing(f)
        \/ Idle

Spec == Init /\ [][Next]_vars

-----------------------------------------------------------------------------
(***************************************************************************)
(* Properties                                                              *)
(***************************************************************************)
\* Every variable keeps its type, and the lock is held by whoever writes.
TypeOK ==
    /\ listed \in BOOLEAN /\ there \in BOOLEAN
    /\ disk \in [File -> Content \cup {Missing}]
    /\ savedBy \in Editor \cup {None}
    /\ lock \in Editor \cup {None}
    /\ removing \in BOOLEAN /\ adding \in SUBSET File
    /\ removals \in 0..MaxRemovals /\ reconciles \in 0..MaxReconciles
    /\ pc \in [Editor -> {"closed", "parsing", "parsed", "open", "writing"}]
    /\ \A e \in Editor : pc[e] = "writing" <=> lock = e
    /\ todo \in [Editor -> SUBSET File]
    /\ shown \in [Editor -> [File -> Content]]
    /\ base \in [Editor -> [File -> Content \cup {Missing}] \cup {None}]
    /\ bad \in [Editor -> BOOLEAN]
    /\ saves \in [Editor -> 0..MaxSaves]

\* "the save is refused if the switch was saved by anyone since, rather
\* than silently overwriting their changes": while the directory is there,
\* an edit that has been written to a file stays in it.
NothingOverwritten ==
    [][(there /\ there') => \A f \in File : disk[f] # Missing =>
           (disk'[f] # Missing /\ disk[f] \subseteq disk'[f])]_vars

\* What NothingOverwritten rests on: a page whose save would pass the check has
\* in its form everything that is in the files.
BaseMatchesForm ==
    \A e \in Editor, f \in File :
        (pc[e] = "open" /\ there /\ base[e] = disk /\ disk[f] # Missing)
            => disk[f] \subseteq shown[e][f]
=============================================================================
