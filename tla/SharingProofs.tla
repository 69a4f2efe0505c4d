---------------------------- MODULE SharingProofs ----------------------------
(***************************************************************************)
(* Folders, share rows and accounts that are changed one after the other   *)
(* implement a table of rights that changes in one step, for any users,    *)
(* groups, requests and stops, when the requests at work are Apart.        *)
(***************************************************************************)
EXTENDS Sharing, TLAPS

-----------------------------------------------------------------------------
(* The invariant of every run. *)

\* A request is about users: one, or two different ones, or a user and a group.
Shape == \A t \in Thread :
    /\ IF pc[t] = "idle" THEN req[t] = NoRequest ELSE req[t].owner \in Name
    /\ pc[t] \in SharingLabel => req[t].other \in Principal \ {req[t].owner}
    /\ pc[t] = "insert" => req[t].level \in Level
    /\ pc[t] \in TransferLabel => req[t].other \in Name \ {req[t].owner}

IInv == TypeOK /\ Shape

-----------------------------------------------------------------------------
(* The invariant when the requests at work are Apart. *)

AllApart == \A s, t \in Thread : s # t => Apart(req[s], pc[s], req[t], pc[t])

NoRowFor(k) == \A o \in Name : shares[o][k] = None

\* What a request has found out stays so until it acts on it.
Found(t) ==
    LET o == req[t].owner  n == req[t].other IN
      /\ pc[t] \in {"create", "import", "wipe", "forgetuser", "deluser", "absorb"} =>
           o \in accounts
      /\ pc[t] = "adduser" => o \notin accounts
      /\ pc[t] \in {"create", "import", "forget", "rows", "keep", "forgetuser",
                    "deluser", "absorb", "wipeabsorbed"} => ~has[o]
      /\ pc[t] \in {"create", "import", "wipe"} => shares[o] = NoRows
      /\ pc[t] \in {"deluser", "absorb"} => NoRowFor(o)
      /\ pc[t] = "insert" => has[o] /\ n \in accounts \cup Group
      /\ pc[t] = "move" => n \in accounts /\ ~has[n]
      /\ pc[t] \in {"move", "rows"} => shares[n] = NoRows
      /\ pc[t] \in {"rows", "keep"} => has[n]
      /\ pc[t] = "keep" => shares[n][o] = None

AllFound == \A t \in Thread : Found(t)

\* Only a project that is on its way out or away has shares and no folder.
NoStray == stops = 0 =>
    \A o \in Name : has[o] \/ shares[o] = NoRows
        \/ \E t \in Thread : pc[t] \in {"forget", "rows"} /\ req[t].owner = o

SInv == AllApart /\ AllFound /\ NoStray /\ SharesNameAccounts

-----------------------------------------------------------------------------
(* The invariant holds. *)

LEMMA Types ==
    /\ NoRows \in Rows /\ NoRequest \in Request /\ None \notin Name /\ "edit" \in Level
    /\ None \notin Level /\ Name \subseteq Principal /\ Name \cap Group = {}
    /\ Name \cup Group = Principal /\ NoRequest.owner = None /\ NoRequest.other = None
    /\ \A k \in Principal : NoRows[k] = None
BY NameAssumption, LevelAssumption DEF NoRows, Rows, NoRequest, Request, Principal

\* A row that is written, and a table in which it is.
LEMMA RowFacts ==
    \A r \in Rows, k \in Principal, l \in Level \cup {None} :
        /\ [r EXCEPT ![k] = l] \in Rows
        /\ \A j \in Principal : [r EXCEPT ![k] = l][j] = IF j = k THEN l ELSE r[j]
BY DEF Rows

LEMMA TableFacts ==
    \A table \in [Name -> Rows], o \in Name, r \in Rows :
        /\ [table EXCEPT ![o] = r] \in [Name -> Rows]
        /\ \A p \in Name : [table EXCEPT ![o] = r][p] = IF p = o THEN r ELSE table[p]
OBVIOUS

\* The rows that a transfer writes for the new owner.
Merged(o, n) ==
    [k \in Principal |-> IF k # n /\ shares[o][k] # None THEN shares[o][k] ELSE shares[n][k]]

LEMMA MergedFacts ==
    ASSUME TypeOK, NEW o \in Name, NEW n \in Name
    PROVE  /\ Merged(o, n) \in Rows /\ Merged(o, n)[n] = None
           /\ \A k \in Principal : Merged(o, n)[k] =
                IF k # n /\ shares[o][k] # None THEN shares[o][k] ELSE shares[n][k]
<1>1. shares[o] \in Rows /\ shares[n] \in Rows /\ shares[n][n] = None /\ n \in Principal
  BY Types DEF TypeOK
<1> QED BY <1>1 DEF Merged, Rows

\* What it does to the table.
LEMMA MoveRowsFacts ==
    ASSUME IInv, NEW t \in Thread, MoveRows(t)
    PROVE  LET o == req[t].owner  n == req[t].other IN
             /\ o \in Name /\ n \in Name \ {o} /\ pc[t] = "rows"
             /\ UNCHANGED <<accounts, has, stops>>
             /\ \/ /\ shares' = [shares EXCEPT ![o] = NoRows, ![n] = Merged(o, n)]
                   /\ pc' = [pc EXCEPT ![t] = "keep"] /\ UNCHANGED req
                \/ /\ UNCHANGED shares /\ pc' = [pc EXCEPT ![t] = "idle"]
                   /\ req' = [req EXCEPT ![t] = NoRequest]
                   /\ \E k \in Principal : shares[o][k] # None /\ shares[n][k] # None
<1> DEFINE o == req[t].owner
           n == req[t].other
           rest == [shares[o] EXCEPT ![n] = None]
<1>1. /\ o \in Name /\ n \in Name \ {o} /\ pc[t] = "rows"
      /\ UNCHANGED <<accounts, has, stops>>
  BY DEF MoveRows, Then, IInv, Shape, TransferLabel
<1>2. shares[o] \in Rows /\ shares[n] \in Rows /\ n \in Principal
  BY <1>1, Types DEF IInv, TypeOK
<1>3. \A k \in Principal : rest[k] = IF k = n THEN None ELSE shares[o][k]
  BY <1>2 DEF Rows
<1>4. CASE \E k \in Principal : rest[k] # None /\ shares[n][k] # None
  BY <1>1, <1>3, <1>4 DEF MoveRows, Then
<1>5. CASE ~\E k \in Principal : rest[k] # None /\ shares[n][k] # None
  <2>1. /\ shares' = [shares EXCEPT ![o] = NoRows,
             ![n] = [k \in Principal |-> IF rest[k] # None THEN rest[k] ELSE @[k]]]
        /\ Then(t, "keep")
    BY <1>5 DEF MoveRows
  <2>2. [k \in Principal |-> IF rest[k] # None THEN rest[k] ELSE shares[n][k]] = Merged(o, n)
    BY <1>3 DEF Merged
  <2> HIDE DEF rest
  <2>3. shares' = [shares EXCEPT ![o] = NoRows, ![n] = Merged(o, n)]
    BY <1>1, <2>1, <2>2 DEF IInv, TypeOK
  <2> QED BY <1>1, <2>1, <2>3 DEF Then
<1> QED BY <1>1, <1>4, <1>5

LEMMA InitIInv == Init => IInv
BY Types, StopAssumption DEF Init, IInv, TypeOK, Shape, Label, TransferLabel,
    SharingLabel

LEMMA TypeStep ==
    IInv /\ [Next]_vars => TypeOK'
<1> SUFFICES ASSUME IInv, [Next]_vars PROVE TypeOK'
  OBVIOUS
<1> USE Types DEF Take, Then, About, IInv, TypeOK, Shape, Label, TransferLabel,
    SharingLabel
<1>1. ASSUME Stop PROVE TypeOK'
  BY <1>1, StopAssumption DEF Stop
<1>2. ASSUME NEW t \in Thread, BeginCreate(t) PROVE TypeOK'
  BY <1>2 DEF BeginCreate, Request
<1>3. ASSUME NEW t \in Thread, BeginDelete(t) PROVE TypeOK'
  BY <1>3 DEF BeginDelete, Request
<1>4. ASSUME NEW t \in Thread, BeginShare(t) PROVE TypeOK'
  BY <1>4 DEF BeginShare, Request
<1>5. ASSUME NEW t \in Thread, BeginUnshare(t) PROVE TypeOK'
  BY <1>5 DEF BeginUnshare, Request
<1>6. ASSUME NEW t \in Thread, BeginTransfer(t) PROVE TypeOK'
  BY <1>6 DEF BeginTransfer, Request
<1>7. ASSUME NEW t \in Thread, BeginRegister(t) PROVE TypeOK'
  BY <1>7 DEF BeginRegister, Request
<1>8. ASSUME NEW t \in Thread, BeginRemove(t) PROVE TypeOK'
  BY <1>8 DEF BeginRemove, Request
<1>9. ASSUME NEW t \in Thread, BeginAbsorb(t) PROVE TypeOK'
  BY <1>9 DEF BeginAbsorb, Request
<1>10. ASSUME NEW t \in Thread, Create(t) PROVE TypeOK'
  BY <1>10 DEF Create
<1>11. ASSUME NEW t \in Thread, Import(t) PROVE TypeOK'
  BY <1>11 DEF Import
<1>12. ASSUME NEW t \in Thread, Rmtree(t) PROVE TypeOK'
  BY <1>12 DEF Rmtree
<1>13. ASSUME NEW t \in Thread, ForgetProject(t) PROVE TypeOK'
  BY <1>13 DEF ForgetProject
<1>14. ASSUME NEW t \in Thread, InsertShare(t) PROVE TypeOK'
  <2>1. \A r \in Rows : [r EXCEPT ![req[t].other] = req[t].level] \in Rows
    BY <1>14, RowFacts DEF InsertShare, Request
  <2>2. shares' = [shares EXCEPT ![req[t].owner] = [@ EXCEPT ![req[t].other] = req[t].level]]
    BY <1>14 DEF InsertShare
  <2>3. shares' \in [Name -> Rows]
    BY <2>1, <2>2
  <2>4. \A o \in Name : shares'[o][o] = None
    BY <1>14, <2>2 DEF InsertShare, Rows
  <2> QED BY <1>14, <2>3, <2>4 DEF InsertShare
<1>15. ASSUME NEW t \in Thread, RemoveShare(t) PROVE TypeOK'
  <2>1. \A r \in Rows : [r EXCEPT ![req[t].other] = None] \in Rows
    BY <1>15, RowFacts DEF RemoveShare, Request
  <2>2. shares' = [shares EXCEPT ![req[t].owner] = [@ EXCEPT ![req[t].other] = None]]
    BY <1>15 DEF RemoveShare
  <2>3. shares' \in [Name -> Rows]
    BY <2>1, <2>2
  <2>4. \A o \in Name : shares'[o][o] = None
    BY <1>15, <2>2 DEF RemoveShare, Rows
  <2> QED BY <1>15, <2>3, <2>4 DEF RemoveShare
<1>16. ASSUME NEW t \in Thread, Move(t) PROVE TypeOK'
  <2>1. req[t].owner \in Name /\ req[t].other \in Name
    BY <1>16 DEF Move
  <2>2. \/ has' = has
        \/ has' = [has EXCEPT ![req[t].owner] = FALSE, ![req[t].other] = TRUE]
    BY <1>16 DEF Move
  <2>3. has' \in [Name -> BOOLEAN]
    <3>1. has \in [Name -> BOOLEAN]
      OBVIOUS
    <3> HIDE DEF IInv, TypeOK, Shape
    <3> QED BY <2>1, <2>2, <3>1
  <2>4. /\ UNCHANGED <<accounts, shares, stops>>
        /\ \E l \in {"rows", "idle"} : pc' = [pc EXCEPT ![t] = l]
        /\ req' = req \/ req' = [req EXCEPT ![t] = NoRequest]
    BY <1>16 DEF Move
  <2>5. pc' \in [Thread -> Label] /\ req' \in [Thread -> Request]
    BY <2>4
  <2> QED BY <2>3, <2>4, <2>5
<1>17. ASSUME NEW t \in Thread, MoveRows(t) PROVE TypeOK'
  <2> DEFINE o == req[t].owner
             n == req[t].other
  <2>1. CASE UNCHANGED shares
    BY <1>17, <2>1, MoveRowsFacts
  <2>2. CASE shares' = [shares EXCEPT ![o] = NoRows, ![n] = Merged(o, n)]
    <3>1. o \in Name /\ n \in Name /\ Merged(o, n) \in Rows /\ Merged(o, n)[n] = None
      BY <1>17, MoveRowsFacts, MergedFacts
    <3>2. shares' \in [Name -> Rows] /\ \A p \in Name : shares'[p][p] = None
      BY <2>2, <3>1
    <3> QED BY <1>17, <3>2, MoveRowsFacts
  <2> QED BY <1>17, <2>1, <2>2, MoveRowsFacts
<1>18. ASSUME NEW t \in Thread, KeepEdit(t) PROVE TypeOK'
  <2>1. CASE req[t].owner \notin accounts
    BY <1>18, <2>1 DEF KeepEdit
  <2>2. CASE req[t].owner \in accounts
    <3>1. req[t].owner \in Principal
      BY <2>2
    <3>2. \A r \in Rows : [r EXCEPT ![req[t].owner] = "edit"] \in Rows
      BY <3>1, RowFacts
    <3>3. shares' = [shares EXCEPT ![req[t].other] = [@ EXCEPT ![req[t].owner] = "edit"]]
      BY <1>18, <2>2 DEF KeepEdit
    <3>4. shares' \in [Name -> Rows]
      BY <3>2, <3>3
    <3>5. \A o \in Name : shares'[o][o] = None
      BY <1>18, <3>1, <3>3 DEF KeepEdit, Rows
    <3> QED BY <1>18, <3>4, <3>5 DEF KeepEdit
  <2> QED BY <2>1, <2>2
<1>19. ASSUME NEW t \in Thread, AddUser(t) PROVE TypeOK'
  BY <1>19 DEF AddUser
<1>20. ASSUME NEW t \in Thread, Wipe(t) PROVE TypeOK'
  BY <1>20 DEF Wipe
<1>21. ASSUME NEW t \in Thread, ForgetUser(t) PROVE TypeOK'
  <2>1. req[t].owner \in Principal
    BY <1>21 DEF ForgetUser
  <2>2. shares' \in [Name -> Rows]
    BY <1>21, <2>1, RowFacts DEF ForgetUser
  <2>3. \A o \in Name : shares'[o][o] = None
    BY <1>21, <2>1, RowFacts DEF ForgetUser
  <2> QED BY <1>21, <2>2, <2>3 DEF ForgetUser
<1>22. ASSUME NEW t \in Thread, DeleteUser(t) PROVE TypeOK'
  BY <1>22 DEF DeleteUser
<1>23. ASSUME NEW t \in Thread, Absorb(t) PROVE TypeOK'
  BY <1>23 DEF Absorb
<1>24. ASSUME NEW t \in Thread, WipeAbsorbed(t) PROVE TypeOK'
  BY <1>24 DEF WipeAbsorbed
<1>25. ASSUME UNCHANGED vars PROVE TypeOK'
  BY <1>25 DEF vars
<1> QED
  BY <1>1, <1>2, <1>3, <1>4, <1>5, <1>6, <1>7, <1>8, <1>9, <1>10, <1>11, <1>12,
      <1>13, <1>14, <1>15, <1>16, <1>17, <1>18, <1>19, <1>20, <1>21, <1>22, <1>23,
      <1>24, <1>25
  DEF Next, Begin, Step

LEMMA ShapeStep ==
    IInv /\ [Next]_vars => Shape'
<1> SUFFICES ASSUME IInv, [Next]_vars PROVE Shape'
  OBVIOUS
<1> USE Types DEF Take, Then, About, IInv, TypeOK, Shape, TransferLabel, SharingLabel
<1>1. ASSUME Stop PROVE Shape'
  BY <1>1 DEF Stop
<1>2. ASSUME NEW t \in Thread, BeginCreate(t) PROVE Shape'
  BY <1>2 DEF BeginCreate
<1>3. ASSUME NEW t \in Thread, BeginDelete(t) PROVE Shape'
  BY <1>3 DEF BeginDelete
<1>4. ASSUME NEW t \in Thread, BeginShare(t) PROVE Shape'
  BY <1>4 DEF BeginShare
<1>5. ASSUME NEW t \in Thread, BeginUnshare(t) PROVE Shape'
  BY <1>5 DEF BeginUnshare
<1>6. ASSUME NEW t \in Thread, BeginTransfer(t) PROVE Shape'
  BY <1>6 DEF BeginTransfer
<1>7. ASSUME NEW t \in Thread, BeginRegister(t) PROVE Shape'
  BY <1>7 DEF BeginRegister
<1>8. ASSUME NEW t \in Thread, BeginRemove(t) PROVE Shape'
  BY <1>8 DEF BeginRemove
<1>9. ASSUME NEW t \in Thread, BeginAbsorb(t) PROVE Shape'
  BY <1>9 DEF BeginAbsorb
<1>10. ASSUME NEW t \in Thread, Create(t) PROVE Shape'
  BY <1>10 DEF Create
<1>11. ASSUME NEW t \in Thread, Import(t) PROVE Shape'
  BY <1>11 DEF Import
<1>12. ASSUME NEW t \in Thread, Rmtree(t) PROVE Shape'
  BY <1>12 DEF Rmtree
<1>13. ASSUME NEW t \in Thread, ForgetProject(t) PROVE Shape'
  BY <1>13 DEF ForgetProject
<1>14. ASSUME NEW t \in Thread, InsertShare(t) PROVE Shape'
  BY <1>14 DEF InsertShare
<1>15. ASSUME NEW t \in Thread, RemoveShare(t) PROVE Shape'
  BY <1>15 DEF RemoveShare
<1>16. ASSUME NEW t \in Thread, Move(t) PROVE Shape'
  BY <1>16 DEF Move
<1>17. ASSUME NEW t \in Thread, MoveRows(t) PROVE Shape'
  BY <1>17 DEF MoveRows
<1>18. ASSUME NEW t \in Thread, KeepEdit(t) PROVE Shape'
  BY <1>18 DEF KeepEdit
<1>19. ASSUME NEW t \in Thread, AddUser(t) PROVE Shape'
  BY <1>19 DEF AddUser
<1>20. ASSUME NEW t \in Thread, Wipe(t) PROVE Shape'
  BY <1>20 DEF Wipe
<1>21. ASSUME NEW t \in Thread, ForgetUser(t) PROVE Shape'
  BY <1>21 DEF ForgetUser
<1>22. ASSUME NEW t \in Thread, DeleteUser(t) PROVE Shape'
  BY <1>22 DEF DeleteUser
<1>23. ASSUME NEW t \in Thread, Absorb(t) PROVE Shape'
  BY <1>23 DEF Absorb
<1>24. ASSUME NEW t \in Thread, WipeAbsorbed(t) PROVE Shape'
  BY <1>24 DEF WipeAbsorbed
<1>25. ASSUME UNCHANGED vars PROVE Shape'
  BY <1>25 DEF vars
<1> QED
  BY <1>1, <1>2, <1>3, <1>4, <1>5, <1>6, <1>7, <1>8, <1>9, <1>10, <1>11, <1>12,
      <1>13, <1>14, <1>15, <1>16, <1>17, <1>18, <1>19, <1>20, <1>21, <1>22, <1>23,
      <1>24, <1>25
  DEF Next, Begin, Step

\* Being apart goes both ways, and a request that goes on to its next change
\* stays apart.
LEMMA ApartSides ==
    /\ \A p, l, q, m : Apart(p, l, q, m) => Apart(q, m, p, l)
    /\ \A l, q, m : Apart(NoRequest, l, q, m) /\ Apart(q, m, NoRequest, l)
BY Types DEF Apart, Users

LEMMA ApartLabels ==
    \A p, l, q, m, k :
        (/\ Apart(p, l, q, m) /\ l \notin SharingLabel /\ k \notin SharingLabel
         /\ l \in TransferLabel <=> k \in TransferLabel) => Apart(p, k, q, m) /\ Apart(q, m, p, k)
BY DEF Apart, SharingLabel, TransferLabel

LEMMA LabelKinds ==
    /\ \A l \in {"rmtree", "forget", "wipe", "forgetuser", "deluser", "absorb", "wipeabsorbed"} :
         l \notin SharingLabel \cup TransferLabel
    /\ \A l \in {"move", "rows", "keep"} : l \in TransferLabel /\ l \notin SharingLabel
BY DEF SharingLabel, TransferLabel

\* Two requests at work name different users, or they are of the kinds that may
\* overlap.
Clear(s, t) ==
    /\ req[t].owner \notin {req[s].owner, req[s].other}
    /\ req[t].other \in Name => req[t].other \notin {req[s].owner, req[s].other}

LEMMA ApartFacts ==
    ASSUME IInv, AllApart, NEW s \in Thread, NEW t \in Thread, s # t, pc[t] # "idle"
    PROVE  \/ Clear(s, t)
           \/ {pc[s], pc[t]} \subseteq SharingLabel
           \/ /\ req[s].owner = req[t].owner
              /\ \/ pc[s] = "drop" /\ pc[t] \in TransferLabel
                 \/ pc[t] = "drop" /\ pc[s] \in {"drop"} \cup TransferLabel
BY Types DEF IInv, TypeOK, Shape, AllApart, Apart, Users, Clear, Request,
    TransferLabel, SharingLabel

\* A project that comes to o is shared with nobody.
LEMMA ComesClean ==
    ASSUME IInv, NoStray, NEW t \in Thread, NEW o \in Name, NEW q, NEW label,
           ~has[o], Clean(o), pc[t] = "idle", o \in Users(q), label \notin SharingLabel,
           label \in TransferLabel => q.owner # o,
           \A s \in Thread \ {t} : Apart(req[s], pc[s], q, label)
    PROVE  shares[o] = NoRows
<1>1. SUFFICES ASSUME stops = 0, NEW s \in Thread, pc[s] \in {"forget", "rows"},
                      req[s].owner = o
               PROVE  FALSE
  BY DEF NoStray, Clean
<1>2. s # t /\ Apart(req[s], pc[s], q, label) /\ o \in Users(req[s])
  BY <1>1 DEF Users
<1> QED BY <1>1, <1>2 DEF Apart, SharingLabel, TransferLabel

\* Without u's rows.
LEMMA ForgetUserFacts ==
    ASSUME IInv, NEW t \in Thread, ForgetUser(t)
    PROVE  \A o \in Name : /\ \A k \in Principal : shares'[o][k] =
                                IF k = req[t].owner THEN None ELSE shares[o][k]
                           /\ shares[o] = NoRows => shares'[o] = NoRows
<1>1. req[t].owner \in Principal /\ shares \in [Name -> Rows]
  BY Types DEF ForgetUser, IInv, TypeOK, Shape
<1>2. \A o \in Name : shares'[o] = [shares[o] EXCEPT ![req[t].owner] = None]
  BY DEF ForgetUser
<1>3. \A k \in Principal : [NoRows EXCEPT ![k] = None] = NoRows
  BY DEF NoRows
<1>4. ASSUME NEW o \in Name, shares[o] = NoRows PROVE shares'[o] = NoRows
  <2>1. shares'[o] = [NoRows EXCEPT ![req[t].owner] = None]
    BY <1>2, <1>4
  <2> QED BY <1>1, <1>3, <2>1
<1>5. ASSUME NEW o \in Name, NEW k \in Principal
      PROVE  shares'[o][k] = IF k = req[t].owner THEN None ELSE shares[o][k]
  <2>1. shares'[o] = [shares[o] EXCEPT ![req[t].owner] = None] /\ shares[o] \in Rows
    BY <1>1, <1>2
  <2> QED BY <1>1, <2>1 DEF Rows
<1> QED BY <1>4, <1>5

LEMMA ApartStep ==
    Orderly /\ Unshared /\ IInv /\ SInv /\ [Next]_vars => AllApart'
<1> SUFFICES ASSUME Orderly, Unshared, IInv, SInv, [Next]_vars PROVE AllApart'
  OBVIOUS
<1> USE Types, ApartSides DEF Take, Then, About, IInv, TypeOK, SInv, AllApart
<1>1. ASSUME Stop PROVE AllApart'
  BY <1>1, ApartLabels DEF Stop
<1>2. ASSUME NEW t \in Thread, BeginCreate(t) PROVE AllApart'
  BY <1>2, ApartLabels DEF BeginCreate
<1>3. ASSUME NEW t \in Thread, BeginDelete(t) PROVE AllApart'
  BY <1>3, ApartLabels DEF BeginDelete
<1>4. ASSUME NEW t \in Thread, BeginShare(t) PROVE AllApart'
  BY <1>4, ApartLabels DEF BeginShare
<1>5. ASSUME NEW t \in Thread, BeginUnshare(t) PROVE AllApart'
  BY <1>5, ApartLabels DEF BeginUnshare
<1>6. ASSUME NEW t \in Thread, BeginTransfer(t) PROVE AllApart'
  BY <1>6, ApartLabels DEF BeginTransfer
<1>7. ASSUME NEW t \in Thread, BeginRegister(t) PROVE AllApart'
  BY <1>7, ApartLabels DEF BeginRegister
<1>8. ASSUME NEW t \in Thread, BeginRemove(t) PROVE AllApart'
  BY <1>8, ApartLabels DEF BeginRemove
<1>9. ASSUME NEW t \in Thread, BeginAbsorb(t) PROVE AllApart'
  BY <1>9, ApartLabels DEF BeginAbsorb
<1>10. ASSUME NEW t \in Thread, Create(t) PROVE AllApart'
  BY <1>10, ApartLabels DEF Create
<1>11. ASSUME NEW t \in Thread, Import(t) PROVE AllApart'
  BY <1>11, ApartLabels DEF Import
<1>12. ASSUME NEW t \in Thread, Rmtree(t) PROVE AllApart'
  BY <1>12, ApartLabels, LabelKinds DEF Rmtree
<1>13. ASSUME NEW t \in Thread, ForgetProject(t) PROVE AllApart'
  BY <1>13, ApartLabels DEF ForgetProject
<1>14. ASSUME NEW t \in Thread, InsertShare(t) PROVE AllApart'
  BY <1>14, ApartLabels DEF InsertShare
<1>15. ASSUME NEW t \in Thread, RemoveShare(t) PROVE AllApart'
  BY <1>15, ApartLabels DEF RemoveShare
<1>16. ASSUME NEW t \in Thread, Move(t) PROVE AllApart'
  BY <1>16, ApartLabels, LabelKinds DEF Move
<1>17. ASSUME NEW t \in Thread, MoveRows(t) PROVE AllApart'
  BY <1>17, MoveRowsFacts, ApartLabels, LabelKinds
<1>18. ASSUME NEW t \in Thread, KeepEdit(t) PROVE AllApart'
  BY <1>18, ApartLabels DEF KeepEdit
<1>19. ASSUME NEW t \in Thread, AddUser(t) PROVE AllApart'
  BY <1>19, ApartLabels DEF AddUser
<1>20. ASSUME NEW t \in Thread, Wipe(t) PROVE AllApart'
  BY <1>20, ApartLabels, LabelKinds DEF Wipe
<1>21. ASSUME NEW t \in Thread, ForgetUser(t) PROVE AllApart'
  BY <1>21, ApartLabels, LabelKinds DEF ForgetUser
<1>22. ASSUME NEW t \in Thread, DeleteUser(t) PROVE AllApart'
  BY <1>22, ApartLabels DEF DeleteUser
<1>23. ASSUME NEW t \in Thread, Absorb(t) PROVE AllApart'
  BY <1>23, ApartLabels, LabelKinds DEF Absorb
<1>24. ASSUME NEW t \in Thread, WipeAbsorbed(t) PROVE AllApart'
  BY <1>24, ApartLabels DEF WipeAbsorbed
<1>25. ASSUME UNCHANGED vars PROVE AllApart'
  BY <1>25, ApartLabels DEF vars
<1> QED
  BY <1>1, <1>2, <1>3, <1>4, <1>5, <1>6, <1>7, <1>8, <1>9, <1>10, <1>11, <1>12,
      <1>13, <1>14, <1>15, <1>16, <1>17, <1>18, <1>19, <1>20, <1>21, <1>22, <1>23,
      <1>24, <1>25
  DEF Next, Begin, Step

LEMMA FoundStep ==
    Orderly /\ Unshared /\ IInv /\ SInv /\ [Next]_vars => AllFound'
<1> SUFFICES ASSUME Orderly, Unshared, IInv, SInv, [Next]_vars PROVE AllFound'
  OBVIOUS
<1> USE Types DEF Take, Then, About, IInv, TypeOK, Shape, Request
<1>f. AllApart /\ \A s \in Thread : Found(s)
  BY DEF SInv, AllFound
<1>1. ASSUME Stop PROVE AllFound'
  BY <1>1 DEF Stop, AllFound, Found
<1>2. ASSUME NEW t \in Thread, pc[t] = "idle", BeginCreate(t) PROVE AllFound'
  <2>1. PICK o \in accounts, label \in {"create", "import"} :
          /\ ~has[o] /\ Clean(o) /\ Take(t, label, About(o, None, None))
    BY <1>2 DEF BeginCreate
  <2>2. shares[o] = NoRows
    BY <1>2, <2>1, ComesClean DEF SInv, Users, SharingLabel, TransferLabel
  <2>3. Found(t)'
    BY <2>1, <2>2 DEF Found
  <2>4. ASSUME NEW s \in Thread, s # t PROVE Found(s)'
    BY <1>f, <2>1, <2>4 DEF Found, NoRowFor
  <2> QED BY <2>3, <2>4 DEF AllFound
<1>3. ASSUME NEW t \in Thread, pc[t] = "idle", BeginDelete(t) PROVE AllFound'
  <2>1. Found(t)'
    BY <1>3, <1>f DEF BeginDelete, Found, SharingLabel, TransferLabel, NoRowFor
  <2>2. ASSUME NEW s \in Thread, s # t PROVE Found(s)'
    BY <1>3, <1>f, <2>2, ApartFacts DEF BeginDelete, Found, Clear, SharingLabel,
        TransferLabel, NoRowFor
  <2> QED BY <2>1, <2>2 DEF AllFound
<1>4. ASSUME NEW t \in Thread, pc[t] = "idle", BeginShare(t) PROVE AllFound'
  <2>1. Found(t)'
    BY <1>4, <1>f DEF BeginShare, Found, SharingLabel, TransferLabel, NoRowFor
  <2>2. ASSUME NEW s \in Thread, s # t PROVE Found(s)'
    BY <1>4, <1>f, <2>2, ApartFacts DEF BeginShare, Found, Clear, SharingLabel,
        TransferLabel, NoRowFor
  <2> QED BY <2>1, <2>2 DEF AllFound
<1>5. ASSUME NEW t \in Thread, pc[t] = "idle", BeginUnshare(t) PROVE AllFound'
  <2>1. Found(t)'
    BY <1>5, <1>f DEF BeginUnshare, Found, SharingLabel, TransferLabel, NoRowFor
  <2>2. ASSUME NEW s \in Thread, s # t PROVE Found(s)'
    BY <1>5, <1>f, <2>2, ApartFacts DEF BeginUnshare, Found, Clear, SharingLabel,
        TransferLabel, NoRowFor
  <2> QED BY <2>1, <2>2 DEF AllFound
<1>6. ASSUME NEW t \in Thread, pc[t] = "idle", BeginTransfer(t) PROVE AllFound'
  <2>1. PICK o \in Name, n \in accounts :
          n # o /\ ~has[n] /\ Clean(n) /\ Take(t, "move", About(o, n, None))
    BY <1>6 DEF BeginTransfer
  <2>2. shares[n] = NoRows
    BY <1>6, <2>1, ComesClean DEF SInv, Users, SharingLabel, TransferLabel
  <2>3. Found(t)'
    BY <2>1, <2>2 DEF Found
  <2>4. ASSUME NEW s \in Thread, s # t PROVE Found(s)'
    BY <1>f, <2>1, <2>4 DEF Found, NoRowFor
  <2> QED BY <2>3, <2>4 DEF AllFound
<1>7. ASSUME NEW t \in Thread, pc[t] = "idle", BeginRegister(t) PROVE AllFound'
  <2>1. Found(t)'
    BY <1>7, <1>f DEF BeginRegister, Found, SharingLabel, TransferLabel, NoRowFor
  <2>2. ASSUME NEW s \in Thread, s # t PROVE Found(s)'
    BY <1>7, <1>f, <2>2, ApartFacts DEF BeginRegister, Found, Clear, SharingLabel,
        TransferLabel, NoRowFor
  <2> QED BY <2>1, <2>2 DEF AllFound
<1>8. ASSUME NEW t \in Thread, pc[t] = "idle", BeginRemove(t) PROVE AllFound'
  <2>1. Found(t)'
    BY <1>8, <1>f DEF BeginRemove, Found, SharingLabel, TransferLabel, NoRowFor
  <2>2. ASSUME NEW s \in Thread, s # t PROVE Found(s)'
    BY <1>8, <1>f, <2>2, ApartFacts DEF BeginRemove, Found, Clear, SharingLabel,
        TransferLabel, NoRowFor
  <2> QED BY <2>1, <2>2 DEF AllFound
<1>9. ASSUME NEW t \in Thread, pc[t] = "idle", BeginAbsorb(t) PROVE AllFound'
  <2>1. Found(t)'
    BY <1>9, <1>f DEF BeginAbsorb, Found, SharingLabel, TransferLabel, NoRowFor
  <2>2. ASSUME NEW s \in Thread, s # t PROVE Found(s)'
    BY <1>9, <1>f, <2>2, ApartFacts DEF BeginAbsorb, Found, Clear, SharingLabel,
        TransferLabel, NoRowFor
  <2> QED BY <2>1, <2>2 DEF AllFound
<1>10. ASSUME NEW t \in Thread, Create(t) PROVE AllFound'
  <2>1. Found(t)'
    BY <1>10, <1>f DEF Create, Found, SharingLabel, TransferLabel, NoRowFor
  <2>2. ASSUME NEW s \in Thread, s # t PROVE Found(s)'
    BY <1>10, <1>f, <2>2, ApartFacts DEF Create, Found, Clear, SharingLabel,
        TransferLabel, NoRowFor
  <2> QED BY <2>1, <2>2 DEF AllFound
<1>11. ASSUME NEW t \in Thread, Import(t) PROVE AllFound'
  <2>1. Found(t)'
    BY <1>11, <1>f DEF Import, Found, SharingLabel, TransferLabel, NoRowFor
  <2>2. ASSUME NEW s \in Thread, s # t PROVE Found(s)'
    BY <1>11, <1>f, <2>2, ApartFacts DEF Import, Found, Clear, SharingLabel,
        TransferLabel, NoRowFor
  <2> QED BY <2>1, <2>2 DEF AllFound
<1>12. ASSUME NEW t \in Thread, Rmtree(t) PROVE AllFound'
  <2>1. Found(t)'
    BY <1>12, <1>f DEF Rmtree, Found, SharingLabel, TransferLabel, NoRowFor
  <2>2. ASSUME NEW s \in Thread, s # t PROVE Found(s)'
    BY <1>12, <1>f, <2>2, ApartFacts DEF Rmtree, Found, Clear, SharingLabel,
        TransferLabel, NoRowFor
  <2> QED BY <2>1, <2>2 DEF AllFound
<1>13. ASSUME NEW t \in Thread, ForgetProject(t) PROVE AllFound'
  <2>1. Found(t)'
    BY <1>13, <1>f DEF ForgetProject, Found, SharingLabel, TransferLabel, NoRowFor
  <2>2. ASSUME NEW s \in Thread, s # t PROVE Found(s)'
    BY <1>13, <1>f, <2>2, ApartFacts DEF ForgetProject, Found, Clear, SharingLabel,
        TransferLabel, NoRowFor
  <2> QED BY <2>1, <2>2 DEF AllFound
<1>14. ASSUME NEW t \in Thread, InsertShare(t) PROVE AllFound'
  <2>1. Found(t)'
    BY <1>14, <1>f DEF InsertShare, Found, SharingLabel, TransferLabel, NoRowFor
  <2>2. ASSUME NEW s \in Thread, s # t PROVE Found(s)'
    BY <1>14, <1>f, <2>2, ApartFacts DEF InsertShare, Found, Clear, SharingLabel,
        TransferLabel, NoRowFor
  <2> QED BY <2>1, <2>2 DEF AllFound
<1>15. ASSUME NEW t \in Thread, RemoveShare(t) PROVE AllFound'
  <2>1. Found(t)'
    BY <1>15, <1>f DEF RemoveShare, Found, SharingLabel, TransferLabel, NoRowFor
  <2>2. ASSUME NEW s \in Thread, s # t PROVE Found(s)'
    BY <1>15, <1>f, <2>2, ApartFacts DEF RemoveShare, Found, Clear, SharingLabel,
        TransferLabel, NoRowFor
  <2> QED BY <2>1, <2>2 DEF AllFound
<1>16. ASSUME NEW t \in Thread, Move(t) PROVE AllFound'
  <2>1. Found(t)'
    BY <1>16, <1>f DEF Move, Found, SharingLabel, TransferLabel, NoRowFor
  <2>2. ASSUME NEW s \in Thread, s # t PROVE Found(s)'
    BY <1>16, <1>f, <2>2, ApartFacts DEF Move, Found, Clear, SharingLabel,
        TransferLabel, NoRowFor
  <2> QED BY <2>1, <2>2 DEF AllFound
<1>17. ASSUME NEW t \in Thread, MoveRows(t) PROVE AllFound'
  <2>1. Found(t)'
    BY <1>17, <1>f DEF MoveRows, Found, SharingLabel, TransferLabel, NoRowFor
  <2>2. ASSUME NEW s \in Thread, s # t PROVE Found(s)'
    BY <1>17, <1>f, <2>2, ApartFacts DEF MoveRows, Found, Clear, SharingLabel,
        TransferLabel, NoRowFor
  <2> QED BY <2>1, <2>2 DEF AllFound
<1>18. ASSUME NEW t \in Thread, KeepEdit(t) PROVE AllFound'
  <2>1. Found(t)'
    BY <1>18, <1>f DEF KeepEdit, Found, SharingLabel, TransferLabel, NoRowFor
  <2>2. ASSUME NEW s \in Thread, s # t PROVE Found(s)'
    BY <1>18, <1>f, <2>2, ApartFacts DEF KeepEdit, Found, Clear, SharingLabel,
        TransferLabel, NoRowFor
  <2> QED BY <2>1, <2>2 DEF AllFound
<1>19. ASSUME NEW t \in Thread, AddUser(t) PROVE AllFound'
  <2>1. Found(t)'
    BY <1>19, <1>f DEF AddUser, Found, SharingLabel, TransferLabel, NoRowFor
  <2>2. ASSUME NEW s \in Thread, s # t PROVE Found(s)'
    BY <1>19, <1>f, <2>2, ApartFacts DEF AddUser, Found, Clear, SharingLabel,
        TransferLabel, NoRowFor
  <2> QED BY <2>1, <2>2 DEF AllFound
<1>20. ASSUME NEW t \in Thread, Wipe(t) PROVE AllFound'
  <2>1. Found(t)'
    BY <1>20, <1>f DEF Wipe, Found, SharingLabel, TransferLabel, NoRowFor
  <2>2. ASSUME NEW s \in Thread, s # t PROVE Found(s)'
    BY <1>20, <1>f, <2>2, ApartFacts DEF Wipe, Found, Clear, SharingLabel,
        TransferLabel, NoRowFor
  <2> QED BY <2>1, <2>2 DEF AllFound
<1>21. ASSUME NEW t \in Thread, ForgetUser(t) PROVE AllFound'
  <2>0. /\ \A o \in Name : /\ \A k \in Principal : shares'[o][k] =
                                IF k = req[t].owner THEN None ELSE shares[o][k]
                           /\ shares[o] = NoRows => shares'[o] = NoRows
        /\ pc[t] = "forgetuser" /\ pc' = [pc EXCEPT ![t] = "deluser"]
        /\ UNCHANGED <<accounts, has, req>>
    BY <1>21, ForgetUserFacts DEF ForgetUser
  <2>1. Found(t)'
    BY <1>f, <2>0 DEF Found, NoRowFor
  <2>2. ASSUME NEW s \in Thread, s # t PROVE Found(s)'
    <3>1. Clear(s, t) /\ Found(s) /\ UNCHANGED <<accounts, has>>
      BY <1>f, <2>0, <2>2, ApartFacts DEF SharingLabel, TransferLabel
    <3>2. pc'[s] = pc[s] /\ req'[s] = req[s] /\ (pc[s] = "idle" \/ req[s].owner \in Principal)
      BY <2>0, <2>2
    <3>3. pc[s] = "keep" => req[s].other \in Name
      BY DEF TransferLabel
    <3>4. req[s].owner # req[t].owner
      BY <3>1 DEF Clear
    <3>5. pc[s] \in {"move", "rows"} => req[s].other \in Name
      BY DEF TransferLabel
    <3> QED BY <2>0, <3>1, <3>2, <3>3, <3>4, <3>5 DEF Found, NoRowFor
  <2> QED BY <2>1, <2>2 DEF AllFound
<1>22. ASSUME NEW t \in Thread, DeleteUser(t) PROVE AllFound'
  <2>1. Found(t)'
    BY <1>22, <1>f DEF DeleteUser, Found, SharingLabel, TransferLabel, NoRowFor
  <2>2. ASSUME NEW s \in Thread, s # t PROVE Found(s)'
    BY <1>22, <1>f, <2>2, ApartFacts DEF DeleteUser, Found, Clear, SharingLabel,
        TransferLabel, NoRowFor
  <2> QED BY <2>1, <2>2 DEF AllFound
<1>23. ASSUME NEW t \in Thread, Absorb(t) PROVE AllFound'
  <2>1. Found(t)'
    BY <1>23, <1>f DEF Absorb, Found, SharingLabel, TransferLabel, NoRowFor
  <2>2. ASSUME NEW s \in Thread, s # t PROVE Found(s)'
    BY <1>23, <1>f, <2>2, ApartFacts DEF Absorb, Found, Clear, SharingLabel,
        TransferLabel, NoRowFor
  <2> QED BY <2>1, <2>2 DEF AllFound
<1>24. ASSUME NEW t \in Thread, WipeAbsorbed(t) PROVE AllFound'
  <2>1. Found(t)'
    BY <1>24, <1>f DEF WipeAbsorbed, Found, SharingLabel, TransferLabel, NoRowFor
  <2>2. ASSUME NEW s \in Thread, s # t PROVE Found(s)'
    BY <1>24, <1>f, <2>2, ApartFacts DEF WipeAbsorbed, Found, Clear, SharingLabel,
        TransferLabel, NoRowFor
  <2> QED BY <2>1, <2>2 DEF AllFound
<1>25. ASSUME UNCHANGED vars PROVE AllFound'
  BY <1>25, <1>f DEF vars, AllFound, Found, NoRowFor
<1> QED
  BY <1>1, <1>2, <1>3, <1>4, <1>5, <1>6, <1>7, <1>8, <1>9, <1>10, <1>11, <1>12,
      <1>13, <1>14, <1>15, <1>16, <1>17, <1>18, <1>19, <1>20, <1>21, <1>22, <1>23,
      <1>24, <1>25
  DEF Next, Begin, Step

LEMMA NoStrayStep ==
    Orderly /\ Unshared /\ IInv /\ SInv /\ [Next]_vars => NoStray'
<1> SUFFICES ASSUME Orderly, Unshared, IInv, SInv, [Next]_vars PROVE NoStray'
  OBVIOUS
<1> USE Types DEF Take, Then, About, IInv, TypeOK, SInv, NoStray, AllFound, Found
<1>1. ASSUME Stop PROVE NoStray'
  BY <1>1 DEF Stop
<1>2. ASSUME NEW t \in Thread, pc[t] = "idle", BeginCreate(t) PROVE NoStray'
  BY <1>2 DEF BeginCreate
<1>3. ASSUME NEW t \in Thread, pc[t] = "idle", BeginDelete(t) PROVE NoStray'
  BY <1>3 DEF BeginDelete
<1>4. ASSUME NEW t \in Thread, pc[t] = "idle", BeginShare(t) PROVE NoStray'
  BY <1>4 DEF BeginShare
<1>5. ASSUME NEW t \in Thread, pc[t] = "idle", BeginUnshare(t) PROVE NoStray'
  BY <1>5 DEF BeginUnshare
<1>6. ASSUME NEW t \in Thread, pc[t] = "idle", BeginTransfer(t) PROVE NoStray'
  BY <1>6 DEF BeginTransfer
<1>7. ASSUME NEW t \in Thread, pc[t] = "idle", BeginRegister(t) PROVE NoStray'
  BY <1>7 DEF BeginRegister
<1>8. ASSUME NEW t \in Thread, pc[t] = "idle", BeginRemove(t) PROVE NoStray'
  BY <1>8 DEF BeginRemove
<1>9. ASSUME NEW t \in Thread, pc[t] = "idle", BeginAbsorb(t) PROVE NoStray'
  BY <1>9 DEF BeginAbsorb
<1>10. ASSUME NEW t \in Thread, Create(t) PROVE NoStray'
  BY <1>10 DEF Create
<1>11. ASSUME NEW t \in Thread, Import(t) PROVE NoStray'
  BY <1>11 DEF Import
<1>12. ASSUME NEW t \in Thread, Rmtree(t) PROVE NoStray'
  BY <1>12 DEF Rmtree
<1>13. ASSUME NEW t \in Thread, ForgetProject(t) PROVE NoStray'
  BY <1>13 DEF ForgetProject
<1>14. ASSUME NEW t \in Thread, InsertShare(t) PROVE NoStray'
  <2>1. /\ has[req[t].owner] /\ UNCHANGED <<has, stops>> /\ pc[t] = "insert"
        /\ \A o \in Name \ {req[t].owner} : shares'[o] = shares[o]
        /\ \A s \in Thread \ {t} : pc'[s] = pc[s] /\ req'[s] = req[s]
    BY <1>14 DEF InsertShare
  <2> QED BY <2>1
<1>15. ASSUME NEW t \in Thread, RemoveShare(t) PROVE NoStray'
  <2>1. /\ UNCHANGED <<has, stops>> /\ pc[t] = "drop"
        /\ shares' = [shares EXCEPT ![req[t].owner] = [@ EXCEPT ![req[t].other] = None]]
        /\ \A s \in Thread \ {t} : pc'[s] = pc[s] /\ req'[s] = req[s]
    BY <1>15 DEF RemoveShare
  <2>2. \A k \in Principal : [NoRows EXCEPT ![k] = None] = NoRows
    BY DEF NoRows
  <2>3. req[t].other \in Principal
    BY <2>1 DEF Shape, SharingLabel
  <2>4. \A o \in Name : shares[o] = NoRows => shares'[o] = NoRows
    BY <2>1, <2>2, <2>3
  <2> QED BY <2>1, <2>4
<1>16. ASSUME NEW t \in Thread, Move(t) PROVE NoStray'
  BY <1>16 DEF Move
<1>17. ASSUME NEW t \in Thread, MoveRows(t) PROVE NoStray'
  BY <1>17 DEF MoveRows
<1>18. ASSUME NEW t \in Thread, KeepEdit(t) PROVE NoStray'
  BY <1>18 DEF KeepEdit
<1>19. ASSUME NEW t \in Thread, AddUser(t) PROVE NoStray'
  BY <1>19 DEF AddUser
<1>20. ASSUME NEW t \in Thread, Wipe(t) PROVE NoStray'
  BY <1>20 DEF Wipe
<1>21. ASSUME NEW t \in Thread, ForgetUser(t) PROVE NoStray'
  <2>1. /\ UNCHANGED <<has, stops>> /\ pc[t] = "forgetuser"
        /\ \A s \in Thread \ {t} : pc'[s] = pc[s] /\ req'[s] = req[s]
    BY <1>21 DEF ForgetUser
  <2> QED BY <1>21, <2>1, ForgetUserFacts
<1>22. ASSUME NEW t \in Thread, DeleteUser(t) PROVE NoStray'
  BY <1>22 DEF DeleteUser
<1>23. ASSUME NEW t \in Thread, Absorb(t) PROVE NoStray'
  BY <1>23 DEF Absorb
<1>24. ASSUME NEW t \in Thread, WipeAbsorbed(t) PROVE NoStray'
  BY <1>24 DEF WipeAbsorbed
<1>25. ASSUME UNCHANGED vars PROVE NoStray'
  BY <1>25 DEF vars
<1> QED
  BY <1>1, <1>2, <1>3, <1>4, <1>5, <1>6, <1>7, <1>8, <1>9, <1>10, <1>11, <1>12,
      <1>13, <1>14, <1>15, <1>16, <1>17, <1>18, <1>19, <1>20, <1>21, <1>22, <1>23,
      <1>24, <1>25
  DEF Next, Begin, Step

LEMMA SharesStep ==
    Orderly /\ Unshared /\ IInv /\ SInv /\ [Next]_vars => SharesNameAccounts'
<1> SUFFICES ASSUME Orderly, Unshared, IInv, SInv, [Next]_vars PROVE SharesNameAccounts'
  OBVIOUS
<1> USE Types DEF Take, Then, About, IInv, TypeOK, Shape, SInv, SharesNameAccounts,
    AllFound, Found, NoRowFor, SharingLabel, TransferLabel
<1>1. ASSUME Stop PROVE SharesNameAccounts'
  BY <1>1 DEF Stop
<1>2. ASSUME NEW t \in Thread, BeginCreate(t) PROVE SharesNameAccounts'
  BY <1>2 DEF BeginCreate
<1>3. ASSUME NEW t \in Thread, BeginDelete(t) PROVE SharesNameAccounts'
  BY <1>3 DEF BeginDelete
<1>4. ASSUME NEW t \in Thread, BeginShare(t) PROVE SharesNameAccounts'
  BY <1>4 DEF BeginShare
<1>5. ASSUME NEW t \in Thread, BeginUnshare(t) PROVE SharesNameAccounts'
  BY <1>5 DEF BeginUnshare
<1>6. ASSUME NEW t \in Thread, BeginTransfer(t) PROVE SharesNameAccounts'
  BY <1>6 DEF BeginTransfer
<1>7. ASSUME NEW t \in Thread, BeginRegister(t) PROVE SharesNameAccounts'
  BY <1>7 DEF BeginRegister
<1>8. ASSUME NEW t \in Thread, BeginRemove(t) PROVE SharesNameAccounts'
  BY <1>8 DEF BeginRemove
<1>9. ASSUME NEW t \in Thread, BeginAbsorb(t) PROVE SharesNameAccounts'
  BY <1>9 DEF BeginAbsorb
<1>10. ASSUME NEW t \in Thread, Create(t) PROVE SharesNameAccounts'
  BY <1>10 DEF Create
<1>11. ASSUME NEW t \in Thread, Import(t) PROVE SharesNameAccounts'
  BY <1>11 DEF Import
<1>12. ASSUME NEW t \in Thread, Rmtree(t) PROVE SharesNameAccounts'
  BY <1>12 DEF Rmtree
<1>13. ASSUME NEW t \in Thread, ForgetProject(t) PROVE SharesNameAccounts'
  BY <1>13 DEF ForgetProject
<1>14. ASSUME NEW t \in Thread, InsertShare(t) PROVE SharesNameAccounts'
  BY <1>14 DEF InsertShare
<1>15. ASSUME NEW t \in Thread, RemoveShare(t) PROVE SharesNameAccounts'
  BY <1>15 DEF RemoveShare
<1>16. ASSUME NEW t \in Thread, Move(t) PROVE SharesNameAccounts'
  BY <1>16 DEF Move
<1>17. ASSUME NEW t \in Thread, MoveRows(t) PROVE SharesNameAccounts'
  BY <1>17 DEF MoveRows
<1>18. ASSUME NEW t \in Thread, KeepEdit(t) PROVE SharesNameAccounts'
  BY <1>18 DEF KeepEdit
<1>19. ASSUME NEW t \in Thread, AddUser(t) PROVE SharesNameAccounts'
  BY <1>19 DEF AddUser
<1>20. ASSUME NEW t \in Thread, Wipe(t) PROVE SharesNameAccounts'
  BY <1>20 DEF Wipe
<1>21. ASSUME NEW t \in Thread, ForgetUser(t) PROVE SharesNameAccounts'
  BY <1>21 DEF ForgetUser
<1>22. ASSUME NEW t \in Thread, DeleteUser(t) PROVE SharesNameAccounts'
  BY <1>22 DEF DeleteUser
<1>23. ASSUME NEW t \in Thread, Absorb(t) PROVE SharesNameAccounts'
  BY <1>23 DEF Absorb
<1>24. ASSUME NEW t \in Thread, WipeAbsorbed(t) PROVE SharesNameAccounts'
  BY <1>24 DEF WipeAbsorbed
<1>25. ASSUME UNCHANGED vars PROVE SharesNameAccounts'
  BY <1>25 DEF vars
<1> QED
  BY <1>1, <1>2, <1>3, <1>4, <1>5, <1>6, <1>7, <1>8, <1>9, <1>10, <1>11, <1>12,
      <1>13, <1>14, <1>15, <1>16, <1>17, <1>18, <1>19, <1>20, <1>21, <1>22, <1>23,
      <1>24, <1>25
  DEF Next, Begin, Step

LEMMA AlwaysIInv == Spec => []IInv
<1>1. IInv /\ [Next]_vars => IInv'
  BY TypeStep, ShapeStep DEF IInv
<1> QED BY <1>1, InitIInv, PTL DEF Spec

LEMMA AlwaysSInv == ASSUME Orderly, Unshared PROVE Spec => [](IInv /\ SInv)
<1>1. Init => SInv
  <2> SUFFICES ASSUME Init PROVE SInv
    OBVIOUS
  <2>1. AllApart
    BY ApartSides DEF Init, AllApart
  <2>2. AllFound
    BY DEF Init, AllFound, Found
  <2>3. NoStray /\ SharesNameAccounts
    BY Types DEF Init, NoStray, SharesNameAccounts
  <2> QED BY <2>1, <2>2, <2>3 DEF SInv
<1>2. IInv /\ SInv /\ [Next]_vars => SInv'
  BY ApartStep, FoundStep, NoStrayStep, SharesStep DEF SInv
<1> QED BY <1>1, <1>2, AlwaysIInv, PTL DEF Spec

-----------------------------------------------------------------------------
(* The table of rights that the folders, the rows and the requests make up. *)

\* The rows of o's project on their way to n, and those that have got there.
Leaving(o, n) ==
    [shares[o] EXCEPT ![n] = None, ![o] = IF o \in accounts THEN "edit" ELSE @]
Kept(o, n) ==
    [k \in Principal |-> IF k = o /\ o \in accounts THEN "edit" ELSE shares[n][k]]

Arrives(t, n) == pc[t] \in {"rows", "keep"} /\ req[t].other = n

Shown ==
    /\ Rights \in [Name -> Rows]
    /\ \A n \in Name :
         /\ ~has[n] => Rights[n] = NoRows
         /\ has[n] /\ (\A t \in Thread : ~Arrives(t, n)) => Rights[n] = shares[n]
         /\ \A t \in Thread : has[n] /\ Arrives(t, n) =>
              Rights[n] = IF pc[t] = "rows" THEN Leaving(req[t].owner, n)
                          ELSE Kept(req[t].owner, n)

\* A project comes from one owner at a time, and goes to one.
LEMMA OneTransfer ==
    ASSUME IInv, SInv, NEW s \in Thread, NEW t \in Thread, s # t,
           pc[s] \in TransferLabel, pc[t] \in TransferLabel
    PROVE  {req[s].owner, req[s].other} \cap {req[t].owner, req[t].other} = {}
<1>1. Clear(s, t)
  BY ApartFacts DEF SInv, SharingLabel, TransferLabel
<1> QED BY <1>1 DEF Clear, IInv, Shape

LEMMA RowTypes ==
    ASSUME IInv, NEW o \in Name, NEW n \in Name
    PROVE  Leaving(o, n) \in Rows /\ Kept(o, n) \in Rows
BY Types DEF IInv, TypeOK, Leaving, Kept, Rows

LEMMA ShownFacts == IInv /\ SInv => Shown
<1> SUFFICES ASSUME IInv, SInv PROVE Shown
  OBVIOUS
<1>1. ASSUME NEW n \in Name
      PROVE  /\ ~has[n] => Rights[n] = NoRows
             /\ has[n] /\ (\A t \in Thread : ~Arrives(t, n)) => Rights[n] = shares[n]
             /\ \A t \in Thread : has[n] /\ Arrives(t, n) =>
                  Rights[n] = IF pc[t] = "rows" THEN Leaving(req[t].owner, n)
                              ELSE Kept(req[t].owner, n)
  <2>1. CASE ~has[n]
    BY <2>1 DEF Rights
  <2>2. CASE has[n] /\ \A t \in Thread : ~Arrives(t, n)
    <3>1. Arriving(n, "rows") = {} /\ Arriving(n, "keep") = {}
      BY <2>2 DEF Arriving, Arrives
    <3>2. Rights[n] = [k \in Principal |-> shares[n][k]]
      BY <2>2, <3>1 DEF Rights
    <3> QED BY <2>2, <3>2 DEF IInv, TypeOK, Rows
  <2>3. ASSUME NEW t \in Thread, has[n], Arrives(t, n)
        PROVE  Rights[n] = IF pc[t] = "rows" THEN Leaving(req[t].owner, n)
                           ELSE Kept(req[t].owner, n)
    <3>1. \A s \in Thread : Arrives(s, n) => s = t
      BY <2>3, OneTransfer DEF Arrives, TransferLabel
    <3>2. CASE pc[t] = "rows"
      <4>1. Arriving(n, "rows") = {t}
        BY <2>3, <3>1, <3>2 DEF Arriving, Arrives
      <4> QED BY <2>3, <3>2, <4>1 DEF Rights, Leaving
    <3>3. CASE pc[t] = "keep"
      <4>1. Arriving(n, "rows") = {} /\ Arriving(n, "keep") = {t}
        BY <2>3, <3>1, <3>3 DEF Arriving, Arrives
      <4>2. Rights[n] = [k \in Principal |-> IF req[t].owner = k /\ k \in accounts
                                               THEN "edit" ELSE shares[n][k]]
        BY <2>3, <4>1 DEF Rights
      <4> QED BY <3>3, <4>2 DEF Kept
    <3> QED BY <2>3, <3>2, <3>3 DEF Arrives
  <2> QED BY <2>1, <2>2, <2>3
<1>2. ASSUME NEW n \in Name PROVE Rights[n] \in Rows
  <2>1. NoRows \in Rows /\ shares[n] \in Rows
    BY Types DEF IInv, TypeOK
  <2>2. \A t \in Thread : Arrives(t, n) => req[t].owner \in Name
    BY DEF IInv, Shape, Arrives
  <2> QED BY <1>1, <2>1, <2>2, RowTypes
<1>3. Rights = [n \in Name |-> Rights[n]]
  BY DEF Rights
<1> QED BY <1>1, <1>2, <1>3 DEF Shown

LEMMA ShownNext == (IInv /\ SInv)' => Shown'
BY ShownFacts, PTL

\* What a step does not touch is shown as before.
LEMMA Unmoved ==
    ASSUME Shown, Shown', NEW m \in Name, has'[m] = has[m], shares'[m] = shares[m],
           \A s \in Thread : Arrives(s, m) \/ Arrives(s, m)' =>
             /\ pc'[s] = pc[s] /\ req'[s] = req[s]
             /\ req[s].owner \in accounts' <=> req[s].owner \in accounts
             /\ pc[s] = "rows" => shares'[req[s].owner] = shares[req[s].owner]
    PROVE  Rights'[m] = Rights[m]
<1>1. CASE ~has[m]
  BY <1>1 DEF Shown
<1>2. CASE has[m] /\ \A s \in Thread : ~Arrives(s, m)
  <2>1. \A s \in Thread : ~Arrives(s, m)'
    BY <1>2 DEF Arrives
  <2> QED BY <1>2, <2>1 DEF Shown
<1>3. ASSUME NEW s \in Thread, has[m], Arrives(s, m) PROVE Rights'[m] = Rights[m]
  <2>1. Arrives(s, m)' /\ pc'[s] = pc[s] /\ req'[s] = req[s]
    BY <1>3 DEF Arrives
  <2>2. pc[s] = "rows" => Leaving(req[s].owner, m)' = Leaving(req[s].owner, m)
    BY <1>3, <2>1 DEF Leaving
  <2>3. Kept(req[s].owner, m)' = Kept(req[s].owner, m)
    BY <1>3, <2>1 DEF Kept
  <2>4. Rights[m] = IF pc[s] = "rows" THEN Leaving(req[s].owner, m)
                    ELSE Kept(req[s].owner, m)
    BY <1>3 DEF Shown
  <2>5. Rights'[m] = IF pc[s] = "rows" THEN Leaving(req[s].owner, m)'
                     ELSE Kept(req[s].owner, m)'
    <3>1. (has[m] /\ Arrives(s, m) =>
             Rights[m] = IF pc[s] = "rows" THEN Leaving(req[s].owner, m)
                         ELSE Kept(req[s].owner, m))'
      BY DEF Shown
    <3> QED BY <1>3, <2>1, <3>1
  <2> QED BY <2>2, <2>3, <2>4, <2>5
<1> QED BY <1>1, <1>2, <1>3

\* t's step changes t's request, and of folders, rows and accounts those of the
\* users it is about.
Within(t) ==
    /\ \A s \in Thread \ {t} : pc'[s] = pc[s] /\ req'[s] = req[s]
    /\ pc'[t] \in {"rows", "keep"} => pc[t] \in TransferLabel /\ req'[t] = req[t]
    /\ \A x \in Name : x \in {req[t].owner, req[t].other} \/
         (shares'[x] = shares[x] /\ (x \in accounts' <=> x \in accounts))

LEMMA OtherRights ==
    ASSUME IInv, SInv, (IInv /\ SInv)', NEW t \in Thread, pc[t] \notin {"idle", "drop"},
           Within(t), NEW m \in Name, has'[m] = has[m], shares'[m] = shares[m],
           pc[t] \in TransferLabel => req[t].other # m
    PROVE  Rights'[m] = Rights[m]
<1>1. Shown /\ Shown'
  BY ShownFacts, ShownNext
<1>2. ASSUME NEW s \in Thread, Arrives(s, m) \/ Arrives(s, m)'
      PROVE  /\ pc'[s] = pc[s] /\ req'[s] = req[s]
             /\ req[s].owner \in accounts' <=> req[s].owner \in accounts
             /\ shares'[req[s].owner] = shares[req[s].owner]
  <2>1. s # t
    BY <1>2 DEF Within, Arrives, TransferLabel
  <2>2. pc'[s] = pc[s] /\ req'[s] = req[s] /\ pc[s] \in TransferLabel
    BY <1>2, <2>1 DEF Within, Arrives, TransferLabel
  <2>3. Clear(s, t)
    BY <2>1, <2>2, ApartFacts DEF SInv, SharingLabel, TransferLabel
  <2>4. req[s].owner \in Name
    BY <2>2 DEF IInv, Shape, TransferLabel
  <2> QED BY <2>2, <2>3, <2>4 DEF Clear, Within
<1> QED BY <1>1, <1>2, Unmoved

-----------------------------------------------------------------------------
(* Every step is one of the table's, or is not seen. *)

LEMMA NoRowsAgree == Table!NoRights = NoRows /\ Table!Principal = Principal
BY DEF Table!NoRights, Table!Principal, NoRows, Principal

Owners == {o \in Name : has[o]}

\* No project is on its way to the owner whose share rows a request changes.
LEMMA NoneArrives ==
    ASSUME IInv, SInv, NEW t \in Thread, pc[t] # "idle", pc[t] \notin {"rows", "keep"}
    PROVE  \A s \in Thread : ~Arrives(s, req[t].owner)
<1> SUFFICES ASSUME NEW s \in Thread, Arrives(s, req[t].owner) PROVE FALSE
  OBVIOUS
<1>1. s # t /\ pc[s] \in TransferLabel
  BY DEF Arrives, TransferLabel
<1>2. req[s].owner # req[t].owner
  BY <1>1 DEF Arrives, IInv, Shape
<1>3. Clear(s, t)
  BY <1>1, <1>2, ApartFacts DEF SInv, SharingLabel, TransferLabel
<1> QED BY <1>3 DEF Clear, Arrives

LEMMA SameFunction ==
    \A F, G \in [Name -> Rows] : (\A m \in Name : F[m] = G[m]) => F = G
OBVIOUS

\* Requests that begin.
LEMMA BeginTable ==
    ASSUME IInv, SInv, (IInv /\ SInv)', NEW t \in Thread, Begin(t)
    PROVE  UNCHANGED Table!vars
<1>1. /\ UNCHANGED <<accounts, has, shares, stops>> /\ pc[t] = "idle"
      /\ pc'[t] \notin {"rows", "keep"}
      /\ \A s \in Thread \ {t} : pc'[s] = pc[s] /\ req'[s] = req[s]
  BY DEF IInv, TypeOK, Begin, Take, BeginCreate, BeginDelete, BeginShare,
      BeginUnshare,
      BeginTransfer, BeginRegister, BeginRemove, BeginAbsorb
<1>2. Shown /\ Shown'
  BY ShownFacts, ShownNext
<1>3. \A m \in Name : Rights'[m] = Rights[m]
  BY <1>1, <1>2, Unmoved DEF Arrives
<1>4. Rights' = Rights
  BY <1>2, <1>3, SameFunction DEF Shown
<1> QED BY <1>1, <1>4 DEF Table!vars

\* Steps that the table does not show.
LEMMA UnseenTable ==
    ASSUME IInv, SInv, (IInv /\ SInv)', NEW t \in Thread,
           \/ ForgetProject(t) \/ KeepEdit(t) \/ WipeAbsorbed(t) \/ MoveRows(t)
           \/ (Rmtree(t) \/ Wipe(t) \/ Move(t)) /\ ~has[req[t].owner]
    PROVE  UNCHANGED Table!vars
<1>0. PICK o, n : o = req[t].owner /\ n = req[t].other
  OBVIOUS
<1> USE Types, <1>0
<1>1. Shown /\ Shown' /\ has \in [Name -> BOOLEAN]
  BY ShownFacts, ShownNext DEF IInv, TypeOK
<1>2. \A m \in Name : Rights'[m] = Rights[m]
  <2>1. CASE ForgetProject(t)
    <3>1. pc[t] = "forget" /\ ~has[o] /\ o \in Name /\ UNCHANGED has
      BY <2>1 DEF ForgetProject, SInv, AllFound, Found, IInv, Shape
    <3>2. Within(t) /\ \A m \in Name \ {o} : shares'[m] = shares[m]
      BY <2>1 DEF ForgetProject, Then, Within, IInv, TypeOK
    <3>3. \A m \in Name \ {o} : Rights'[m] = Rights[m]
      BY <3>1, <3>2, OtherRights DEF TransferLabel
    <3> QED BY <1>1, <3>1, <3>3 DEF Shown
  <2>2. CASE KeepEdit(t)
    <3>1. /\ pc[t] = "keep" /\ has[n] /\ o \in Name /\ n \in Name \ {o}
          /\ UNCHANGED <<accounts, has>>
      BY <2>2 DEF KeepEdit, SInv, AllFound, Found, IInv, Shape, TransferLabel
    <3>2. Within(t) /\ (\A m \in Name \ {n} : shares'[m] = shares[m]) /\ pc'[t] = "idle"
      BY <2>2 DEF KeepEdit, Then, Within, IInv, TypeOK
    <3>3. \A m \in Name \ {n} : Rights'[m] = Rights[m]
      BY <3>1, <3>2, OtherRights
    <3>4. \A s \in Thread : ~Arrives(s, n)'
      <4>1. \A s \in Thread \ {t} : ~Arrives(s, n)
        <5>1. ASSUME NEW s \in Thread \ {t}, Arrives(s, n) PROVE FALSE
          <6>1. pc[s] \in TransferLabel /\ pc[t] \in TransferLabel /\ req[s].other = n
            BY <3>1, <5>1 DEF Arrives, TransferLabel
          <6> QED BY <6>1, OneTransfer
        <5> QED BY <5>1
      <4> QED BY <3>2, <4>1 DEF Arrives, Within
    <3>5. Rights[n] = Kept(o, n) /\ Rights'[n] = shares'[n]
      BY <1>1, <3>1, <3>4 DEF Shown, Arrives
    <3>6. shares'[n] = Kept(o, n)
      <4>1. shares[n] \in Rows
        BY <3>1 DEF IInv, TypeOK
      <4>2. CASE o \notin accounts
        BY <2>2, <4>1, <4>2 DEF KeepEdit, Kept, Rows
      <4>3. CASE o \in accounts
        <5>1. shares'[n] = [shares[n] EXCEPT ![o] = "edit"]
          BY <2>2, <3>1, <4>3 DEF KeepEdit, IInv, TypeOK
        <5> QED BY <3>1, <4>1, <4>3, <5>1 DEF Kept, Rows
      <4> QED BY <4>2, <4>3
    <3> QED BY <3>3, <3>5, <3>6
  <2>3. CASE WipeAbsorbed(t) \/ ((Rmtree(t) \/ Wipe(t)) /\ ~has[o])
    <3>1. ~has[o] /\ pc[t] \in {"wipeabsorbed", "rmtree", "wipe"}
      BY <2>3 DEF WipeAbsorbed, Rmtree, Wipe, SInv, AllFound, Found
    <3>2. has' = has /\ UNCHANGED <<shares, accounts>> /\ Within(t)
      BY <1>1, <2>3, <3>1 DEF WipeAbsorbed, Rmtree, Wipe, Then, Within, IInv, TypeOK
    <3> QED BY <3>1, <3>2, OtherRights DEF TransferLabel
  <2>4. CASE Move(t) /\ ~has[o]
    <3>1. /\ UNCHANGED <<has, shares, accounts>> /\ pc[t] = "move" /\ pc'[t] = "idle"
          /\ \A s \in Thread \ {t} : pc'[s] = pc[s] /\ req'[s] = req[s]
      BY <2>4 DEF Move, Then, IInv, TypeOK
    <3> QED BY <1>1, <3>1, Unmoved DEF Arrives
  <2>5. CASE MoveRows(t)
    <3>1. /\ pc[t] = "rows" /\ ~has[o] /\ has[n] /\ o \in Name /\ n \in Name \ {o}
          /\ shares[n] = NoRows /\ UNCHANGED <<accounts, has, stops>>
      BY <2>5, MoveRowsFacts DEF SInv, AllFound, Found
    <3>2. /\ shares' = [shares EXCEPT ![o] = NoRows, ![n] = Merged(o, n)]
          /\ pc' = [pc EXCEPT ![t] = "keep"] /\ UNCHANGED req
      BY <2>5, <3>1, MoveRowsFacts
    <3>3. Within(t) /\ \A m \in Name \ {o, n} : shares'[m] = shares[m]
      BY <3>1, <3>2 DEF Within, IInv, TypeOK, TransferLabel
    <3>4. \A m \in Name \ {o, n} : Rights'[m] = Rights[m]
      BY <3>1, <3>3, OtherRights
    <3>5. Rights'[o] = Rights[o]
      BY <1>1, <3>1 DEF Shown
    <3>6. Rights[n] = Leaving(o, n)
      BY <1>1, <3>1 DEF Shown, Arrives
    <3>7. Rights'[n] = Kept(o, n)'
      <4>1. pc'[t] = "keep" /\ req'[t] = req[t] /\ has'[n]
        BY <3>1, <3>2 DEF IInv, TypeOK
      <4> QED BY <1>1, <3>1, <4>1 DEF Shown, Arrives
    <3>8. Kept(o, n)' = Leaving(o, n)
      <4>1. shares[o] \in Rows /\ shares'[n] = Merged(o, n) /\ shares[o][o] = None
        BY <3>1, <3>2 DEF IInv, TypeOK
      <4>2. \A k \in Principal : shares'[n][k] = IF k = n THEN None ELSE shares[o][k]
        BY <3>1, <4>1, MergedFacts DEF IInv
      <4>3. req'[t] = req[t] /\ UNCHANGED accounts
        BY <3>1, <3>2
      <4> HIDE DEF Merged
      <4> QED BY <3>1, <4>1, <4>2, <4>3 DEF Kept, Leaving, Rows
    <3> QED BY <3>4, <3>5, <3>6, <3>7, <3>8
  <2> QED BY <2>1, <2>2, <2>3, <2>4, <2>5
<1>3. Rights' = Rights
  BY <1>1, <1>2, SameFunction DEF Shown
<1>4. UNCHANGED <<accounts, has, stops>>
  <2>1. CASE ForgetProject(t) \/ KeepEdit(t)
    BY <2>1 DEF ForgetProject, KeepEdit, Then
  <2>2. CASE MoveRows(t)
    BY <2>2, MoveRowsFacts
  <2>3. CASE (Rmtree(t) \/ Wipe(t)) /\ ~has[o]
    <3>1. has' = [has EXCEPT ![o] = FALSE] /\ UNCHANGED <<accounts, stops>>
      BY <2>3 DEF Rmtree, Wipe, Then
    <3> QED BY <1>1, <2>3, <3>1
  <2>4. CASE Move(t) /\ ~has[o]
    BY <2>4 DEF Move, Then
  <2>5. CASE WipeAbsorbed(t)
    <3>1. ~has[o]
      BY <2>5 DEF WipeAbsorbed, SInv, AllFound, Found
    <3> QED BY <1>1, <2>5, <3>1 DEF WipeAbsorbed, Then
  <2> QED BY <2>1, <2>2, <2>3, <2>4, <2>5
<1> QED BY <1>3, <1>4 DEF Table!vars

\* A project is made: nothing is shared yet.
LEMMA CreateTable ==
    ASSUME IInv, SInv, (IInv /\ SInv)', NEW t \in Thread, Create(t) \/ Import(t)
    PROVE  Table!Change /\ UNCHANGED stops
<1>0. PICK o : o = req[t].owner
  OBVIOUS
<1> USE Types, <1>0
<1>1. Shown /\ Shown'
  BY ShownFacts, ShownNext
<1>2. /\ pc[t] \in {"create", "import"} /\ o \in accounts /\ ~has[o] /\ shares[o] = NoRows
      /\ o \in Name /\ has' = [has EXCEPT ![o] = TRUE]
      /\ UNCHANGED <<accounts, shares, stops>>
  BY DEF Create, Import, Then, SInv, AllFound, Found, IInv, Shape
<1>3. Within(t) /\ pc'[t] = "idle"
  BY DEF Create, Import, Then, Within, IInv, TypeOK
<1>4. \A m \in Name \ {o} : Rights'[m] = Rights[m]
  BY <1>2, <1>3, OtherRights DEF TransferLabel, IInv, TypeOK
<1>5. \A s \in Thread : ~Arrives(s, o)'
  BY <1>2, <1>3, NoneArrives DEF Arrives, Within
<1>6. Rights[o] = NoRows /\ Rights'[o] = NoRows
  BY <1>1, <1>2, <1>5 DEF Shown, IInv, TypeOK
<1>7. Rights' = Rights
  BY <1>1, <1>4, <1>6, SameFunction DEF Shown
<1>8. Owners' = Owners \cup {o}
  BY <1>2 DEF Owners, IInv, TypeOK
<1>9. Table!Create(o)
  BY <1>2, <1>7, <1>8 DEF Table!Create, Owners
<1> QED BY <1>2, <1>9 DEF Table!Change

\* A project goes, with its shares.
LEMMA DeleteTable ==
    ASSUME IInv, SInv, (IInv /\ SInv)', NEW t \in Thread, Rmtree(t) \/ Wipe(t),
           has[req[t].owner]
    PROVE  Table!Change /\ UNCHANGED stops
<1>0. PICK o : o = req[t].owner
  OBVIOUS
<1> USE Types, <1>0
<1>1. Shown /\ Shown'
  BY ShownFacts, ShownNext
<1>2. /\ pc[t] \in {"rmtree", "wipe"} /\ has[o] /\ o \in Name
      /\ has' = [has EXCEPT ![o] = FALSE] /\ UNCHANGED <<accounts, shares, stops>>
  BY DEF Rmtree, Wipe, Then, IInv, Shape
<1>3. Within(t)
  BY DEF Rmtree, Wipe, Then, Within, IInv, TypeOK
<1>4. \A m \in Name \ {o} : Rights'[m] = Rights[m]
  BY <1>2, <1>3, OtherRights DEF TransferLabel, IInv, TypeOK
<1>5. Rights'[o] = NoRows
  BY <1>1, <1>2 DEF Shown, IInv, TypeOK
<1>6. Rights' = [Rights EXCEPT ![o] = NoRows]
  BY <1>1, <1>2, <1>4, <1>5 DEF Shown
<1>7. Owners' = Owners \ {o} /\ o \in Owners
  BY <1>2 DEF Owners, IInv, TypeOK
<1>8. Table!Delete(o)
  BY <1>2, <1>6, <1>7, NoRowsAgree DEF Table!Delete, Owners
<1> QED BY <1>2, <1>8 DEF Table!Change

\* A share is given.
LEMMA GrantTable ==
    ASSUME IInv, SInv, (IInv /\ SInv)', NEW t \in Thread, InsertShare(t)
    PROVE  Table!Change /\ UNCHANGED stops
<1>0. PICK o, k, l : o = req[t].owner /\ k = req[t].other /\ l = req[t].level
  OBVIOUS
<1> USE Types, <1>0
<1>1. Shown /\ Shown'
  BY ShownFacts, ShownNext
<1>2. /\ pc[t] = "insert" /\ has[o] /\ o \in Name /\ k \in (accounts \cup Group) \ {o}
      /\ l \in Level /\ k \in Principal
      /\ shares' = [shares EXCEPT ![o][k] = l] /\ UNCHANGED <<accounts, has, stops>>
  BY DEF InsertShare, Then, IInv, Shape, SInv, AllFound, Found, SharingLabel
<1>3. Within(t) /\ pc'[t] = "idle"
  BY DEF InsertShare, Then, Within, IInv, TypeOK
<1>4. \A m \in Name \ {o} : Rights'[m] = Rights[m]
  BY <1>2, <1>3, OtherRights DEF TransferLabel, IInv, TypeOK
<1>5. \A s \in Thread : ~Arrives(s, o) /\ ~Arrives(s, o)'
  BY <1>2, <1>3, NoneArrives DEF Arrives, Within
<1>6. Rights[o] = shares[o] /\ Rights'[o] = shares'[o]
  BY <1>1, <1>2, <1>5 DEF Shown
<1>7. Rights' = [Rights EXCEPT ![o] = [Rights[o] EXCEPT ![k] = l]]
  <2>1. shares'[o] = [shares[o] EXCEPT ![k] = l]
    BY <1>2 DEF IInv, TypeOK
  <2> QED BY <1>1, <1>2, <1>4, <1>6, <2>1 DEF Shown
<1>8. Table!Grant(o, k, l)
  BY <1>1, <1>2, <1>7 DEF Table!Grant, Shown
<1> QED BY <1>2, <1>8, NoRowsAgree DEF Table!Change

\* A share is taken back, also from a project on its way to a new owner.
LEMMA RevokeTable ==
    ASSUME IInv, SInv, (IInv /\ SInv)', NEW t \in Thread, RemoveShare(t)
    PROVE  (Table!Change /\ UNCHANGED stops) \/ UNCHANGED Table!vars
<1>0. PICK o, k : o = req[t].owner /\ k = req[t].other
  OBVIOUS
<1> USE Types, <1>0
<1>1. Shown /\ Shown'
  BY ShownFacts, ShownNext
<1>2. /\ pc[t] = "drop" /\ o \in Name /\ k \in Principal \ {o}
      /\ shares' = [shares EXCEPT ![o][k] = None] /\ UNCHANGED <<accounts, has, stops>>
  BY DEF RemoveShare, Then, IInv, Shape, SharingLabel
<1>3. pc'[t] = "idle" /\ \A s \in Thread \ {t} : pc'[s] = pc[s] /\ req'[s] = req[s]
  BY DEF RemoveShare, Then, IInv, TypeOK
<1>4. shares'[o] = [shares[o] EXCEPT ![k] = None] /\ shares[o] \in Rows
  BY <1>2 DEF IInv, TypeOK
<1>5. \A m \in Name \ {o} : shares'[m] = shares[m]
  BY <1>2 DEF IInv, TypeOK
<1>6. \A s \in Thread, m \in Name : Arrives(s, m) <=> Arrives(s, m)'
  BY <1>2, <1>3 DEF Arrives
<1>7. \A s \in Thread : ~Arrives(s, o)
  BY <1>2, NoneArrives
<1>8. ASSUME NEW m \in Name \ {o},
             \A s \in Thread : Arrives(s, m) /\ pc[s] = "rows" => req[s].owner # o
      PROVE  Rights'[m] = Rights[m]
  <2>1. ASSUME NEW s \in Thread, Arrives(s, m) \/ Arrives(s, m)'
        PROVE  /\ pc'[s] = pc[s] /\ req'[s] = req[s]
               /\ pc[s] = "rows" => shares'[req[s].owner] = shares[req[s].owner]
    <3>1. Arrives(s, m) /\ s # t /\ req[s].owner \in Name
      BY <1>2, <1>6, <2>1 DEF Arrives, IInv, Shape
    <3> QED BY <1>3, <1>5, <1>8, <3>1
  <2> QED BY <1>1, <1>2, <1>5, <2>1, Unmoved
<1>9. CASE has[o]
  <2>1. \A s \in Thread : pc[s] = "rows" => req[s].owner # o
    BY <1>9 DEF SInv, AllFound, Found
  <2>2. \A m \in Name \ {o} : Rights'[m] = Rights[m]
    BY <1>8, <2>1
  <2>3. Rights[o] = shares[o] /\ Rights'[o] = shares'[o]
    BY <1>1, <1>2, <1>6, <1>7, <1>9 DEF Shown
  <2>4. Rights' = [Rights EXCEPT ![o] = [Rights[o] EXCEPT ![k] = None]]
    BY <1>1, <1>2, <1>4, <2>2, <2>3 DEF Shown
  <2>5. Table!Revoke(o, k)
    BY <1>1, <1>2, <2>4 DEF Table!Revoke, Shown
  <2> QED BY <1>2, <2>5, NoRowsAgree DEF Table!Change
<1>10. CASE ~has[o]
  <2>1. Rights'[o] = Rights[o]
    BY <1>1, <1>2, <1>10 DEF Shown
  <2>2. CASE \A s \in Thread : pc[s] = "rows" => req[s].owner # o
    <3>1. \A m \in Name : Rights'[m] = Rights[m]
      BY <1>8, <2>1, <2>2
    <3>2. Rights' = Rights
      BY <1>1, <3>1, SameFunction DEF Shown
    <3> QED BY <1>2, <3>2 DEF Table!vars
  <2>3. ASSUME NEW s \in Thread, pc[s] = "rows", req[s].owner = o
        PROVE  Table!Change
    <3>0. PICK n : n = req[s].other
      OBVIOUS
    <3>1. n \in Name \ {o} /\ has[n] /\ Arrives(s, n) /\ s # t
      BY <1>2, <2>3, <3>0 DEF IInv, Shape, SInv, AllFound, Found, Arrives,
          TransferLabel
    <3>2. ASSUME NEW m \in Name \ {o, n} PROVE Rights'[m] = Rights[m]
      <4>1. ASSUME NEW r \in Thread, Arrives(r, m), req[r].owner = o PROVE FALSE
        <5>1. r # s
          BY <3>0, <3>2, <4>1 DEF Arrives
        <5>2. {req[r].owner, req[r].other} \cap {req[s].owner, req[s].other} = {}
          BY <2>3, <4>1, <5>1, OneTransfer DEF Arrives, TransferLabel
        <5> QED BY <2>3, <4>1, <5>2
      <4> QED BY <1>8, <3>2, <4>1
    <3>3. Rights[n] = Leaving(o, n) /\ Rights'[n] = Leaving(o, n)'
      BY <1>1, <1>2, <1>3, <1>6, <2>3, <3>0, <3>1 DEF Shown
    <3>4. Leaving(o, n)' = [Leaving(o, n) EXCEPT ![k] = None]
      BY <1>2, <1>4, <3>1 DEF Leaving, Rows
    <3>5. Rights' = [Rights EXCEPT ![n] = [Rights[n] EXCEPT ![k] = None]]
      BY <1>1, <2>1, <3>1, <3>2, <3>3, <3>4 DEF Shown
    <3>6. Table!Revoke(n, k)
      BY <1>1, <1>2, <3>1, <3>5 DEF Table!Revoke, Shown
    <3> QED BY <1>2, <3>1, <3>6, NoRowsAgree DEF Table!Change
  <2> QED BY <1>2, <2>2, <2>3
<1> QED BY <1>9, <1>10

\* A project is given away: the folder's move decides.
LEMMA GiveTable ==
    ASSUME IInv, SInv, (IInv /\ SInv)', NEW t \in Thread, Move(t), has[req[t].owner]
    PROVE  Table!Change /\ UNCHANGED stops
<1>0. PICK o, n : o = req[t].owner /\ n = req[t].other
  OBVIOUS
<1> USE Types, <1>0
<1>1. Shown /\ Shown'
  BY ShownFacts, ShownNext
<1>2. /\ pc[t] = "move" /\ has[o] /\ ~has[n] /\ o \in Name /\ n \in Name \ {o}
      /\ n \in accounts /\ has' = [has EXCEPT ![o] = FALSE, ![n] = TRUE]
      /\ UNCHANGED <<accounts, shares, req, stops>>
  BY DEF Move, Then, SInv, AllFound, Found, IInv, Shape, TransferLabel
<1>3. Within(t) /\ pc'[t] = "rows"
  BY DEF Move, Then, Within, IInv, TypeOK, TransferLabel
<1>4. \A m \in Name \ {o, n} : Rights'[m] = Rights[m]
  <2> SUFFICES ASSUME NEW m \in Name \ {o, n} PROVE Rights'[m] = Rights[m]
    OBVIOUS
  <2>1. has'[m] = has[m] /\ shares'[m] = shares[m]
    BY <1>2 DEF IInv, TypeOK
  <2>2. pc[t] \notin {"idle", "drop"} /\ req[t].other # m
    BY <1>2
  <2> QED BY <1>3, <2>1, <2>2, OtherRights
<1>5. Rights[o] = shares[o]
  BY <1>1, <1>2, NoneArrives DEF Shown
<1>6. has'[n] /\ ~has'[o]
  BY <1>2 DEF IInv, TypeOK
<1>7. Rights'[o] = NoRows /\ Rights'[n] = Leaving(o, n)'
  <2>1. Rights'[o] = NoRows
    BY <1>1, <1>2, <1>6 DEF Shown
  <2>2. Arrives(t, n)' /\ pc'[t] = "rows" /\ req'[t].owner = o
    BY <1>2, <1>3 DEF Arrives
  <2>3. Rights'[n] = Leaving(o, n)'
    <3>1. (has[n] /\ Arrives(t, n) =>
             Rights[n] = IF pc[t] = "rows" THEN Leaving(req[t].owner, n)
                         ELSE Kept(req[t].owner, n))'
      BY <1>1, <1>2 DEF Shown
    <3> QED BY <1>6, <2>2, <3>1
  <2> QED BY <2>1, <2>3
<1>8. Leaving(o, n)' = Table!Handed(Rights[o], o, n)
  BY <1>2, <1>5 DEF Leaving, Table!Handed
<1>9. Rights' = [Rights EXCEPT ![o] = NoRows, ![n] = Table!Handed(Rights[o], o, n)]
  BY <1>1, <1>2, <1>4, <1>7, <1>8 DEF Shown
<1>10. Owners' = (Owners \ {o}) \cup {n} /\ o \in Owners /\ n \in accounts \ Owners
  BY <1>2 DEF Owners, IInv, TypeOK
<1>11. Table!Give(o, n)
  BY <1>2, <1>9, <1>10, NoRowsAgree DEF Table!Give, Owners
<1> QED BY <1>2, <1>11 DEF Table!Change

\* Somebody comes, or goes when no row names them.
LEMMA PeopleTable ==
    ASSUME IInv, SInv, (IInv /\ SInv)', NEW t \in Thread,
           AddUser(t) \/ DeleteUser(t) \/ Absorb(t)
    PROVE  Table!Change /\ UNCHANGED stops
<1>0. PICK u : u = req[t].owner
  OBVIOUS
<1> USE Types, <1>0
<1>1. Shown /\ Shown'
  BY ShownFacts, ShownNext
<1>2. /\ pc[t] \in {"adduser", "deluser", "absorb"} /\ u \in Name
      /\ UNCHANGED <<has, shares, stops>>
  BY DEF AddUser, DeleteUser, Absorb, Then, IInv, Shape
<1>3. Within(t)
  BY DEF AddUser, DeleteUser, Absorb, Then, Within, IInv, TypeOK
<1>4. \A m \in Name : Rights'[m] = Rights[m]
  BY <1>2, <1>3, OtherRights DEF TransferLabel
<1>5. Rights' = Rights /\ Owners' = Owners
  BY <1>1, <1>2, <1>4, SameFunction DEF Shown, Owners
<1>6. CASE AddUser(t)
  <2>1. u \notin accounts /\ accounts' = accounts \cup {u}
    BY <1>6 DEF AddUser, SInv, AllFound, Found
  <2> QED BY <1>2, <1>5, <2>1 DEF Table!Join, Table!Change, Owners
<1>7. CASE DeleteUser(t) \/ Absorb(t)
  <2>1. /\ u \in accounts /\ ~has[u] /\ accounts' = accounts \ {u}
        /\ \A o \in Name : shares[o][u] = None
    BY <1>7 DEF DeleteUser, Absorb, SInv, AllFound, Found, NoRowFor
  <2>2. ASSUME NEW m \in Name PROVE Rights[m][u] = None
    <3>1. CASE ~has[m] \/ \A s \in Thread : ~Arrives(s, m)
      BY <1>1, <1>2, <2>1, <3>1 DEF Shown
    <3>2. ASSUME NEW s \in Thread, has[m], Arrives(s, m) PROVE Rights[m][u] = None
      <4>1. s # t /\ pc[s] \in TransferLabel /\ req[s].owner \in Name
        BY <1>2, <3>2 DEF Arrives, TransferLabel, IInv, Shape
      <4>2. Clear(s, t)
        BY <1>2, <4>1, ApartFacts DEF SInv, SharingLabel, TransferLabel
      <4>3. u # req[s].owner /\ u # m
        BY <3>2, <4>2 DEF Clear, Arrives
      <4>4. shares[req[s].owner] \in Rows
        BY <4>1 DEF IInv, TypeOK
      <4>5. Leaving(req[s].owner, m)[u] = None
        BY <1>2, <2>1, <4>1, <4>3, <4>4 DEF Leaving, Rows
      <4>6. Kept(req[s].owner, m)[u] = None
        BY <1>2, <2>1, <4>3 DEF Kept
      <4> QED BY <1>1, <3>2, <4>5, <4>6 DEF Shown
    <3> QED BY <3>1, <3>2
  <2>3. Table!Leave(u)
    BY <1>2, <1>5, <2>1, <2>2 DEF Table!Leave, Owners
  <2> QED BY <1>2, <2>3 DEF Table!Change
<1> QED BY <1>6, <1>7

\* What was shared with somebody is forgotten.
LEMMA ForgetTable ==
    ASSUME IInv, SInv, (IInv /\ SInv)', NEW t \in Thread, ForgetUser(t)
    PROVE  Table!Change /\ UNCHANGED stops
<1>0. PICK u : u = req[t].owner
  OBVIOUS
<1> USE Types, <1>0
<1>1. Shown /\ Shown'
  BY ShownFacts, ShownNext
<1>2. pc[t] = "forgetuser" /\ u \in Name /\ UNCHANGED <<accounts, has, stops>>
  BY DEF ForgetUser, Then, IInv, Shape
<1>3. /\ pc'[t] = "deluser"
      /\ \A s \in Thread \ {t} : pc'[s] = pc[s] /\ req'[s] = req[s]
  BY DEF ForgetUser, Then, IInv, TypeOK
<1>4. \A o \in Name : shares'[o] = [shares[o] EXCEPT ![u] = None]
  BY DEF ForgetUser
<1>5. \A s \in Thread, m \in Name : Arrives(s, m) <=> Arrives(s, m)'
  BY <1>2, <1>3 DEF Arrives
<1>6. ASSUME NEW m \in Name PROVE Rights'[m] = [Rights[m] EXCEPT ![u] = None]
  <2>1. CASE ~has[m]
    BY <1>1, <1>2, <2>1 DEF Shown, NoRows
  <2>2. CASE has[m] /\ \A s \in Thread : ~Arrives(s, m)
    BY <1>1, <1>2, <1>4, <1>5, <2>2 DEF Shown
  <2>3. ASSUME NEW s \in Thread, has[m], Arrives(s, m)
        PROVE  Rights'[m] = [Rights[m] EXCEPT ![u] = None]
    <3>1. s # t /\ pc[s] \in TransferLabel
      BY <1>2, <2>3 DEF Arrives, TransferLabel
    <3>2. PICK o : o = req[s].owner
      OBVIOUS
    <3>3. Clear(s, t)
      BY <1>2, <3>1, ApartFacts DEF SInv, SharingLabel, TransferLabel
    <3>4. u # o /\ u # m /\ o \in Name
      BY <2>3, <3>1, <3>2, <3>3 DEF Clear, Arrives, IInv, Shape, TransferLabel
    <3>5. /\ shares[o] \in Rows /\ shares'[o] = [shares[o] EXCEPT ![u] = None]
          /\ shares[m] \in Rows /\ shares'[m] = [shares[m] EXCEPT ![u] = None]
      BY <1>4, <3>4 DEF IInv, TypeOK
    <3>6. Leaving(o, m)' = [Leaving(o, m) EXCEPT ![u] = None]
      <4>1. \A k \in Principal : Leaving(o, m)'[k] =
                IF k = u THEN None ELSE Leaving(o, m)[k]
        BY <1>2, <3>4, <3>5 DEF Leaving, Rows
      <4> QED BY <1>2, <3>4, <3>5, <4>1 DEF Leaving, Rows
    <3>7. Kept(o, m)' = [Kept(o, m) EXCEPT ![u] = None]
      <4>1. \A k \in Principal : Kept(o, m)'[k] = IF k = u THEN None ELSE Kept(o, m)[k]
        BY <1>2, <3>4, <3>5 DEF Kept, Rows
      <4> QED BY <1>2, <4>1 DEF Kept
    <3>8. Rights[m] = IF pc[s] = "rows" THEN Leaving(o, m) ELSE Kept(o, m)
      BY <1>1, <2>3, <3>2 DEF Shown
    <3>9. Rights'[m] = IF pc[s] = "rows" THEN Leaving(o, m)' ELSE Kept(o, m)'
      BY <1>1, <1>2, <1>3, <1>5, <2>3, <3>1, <3>2 DEF Shown
    <3> QED BY <3>6, <3>7, <3>8, <3>9
  <2> QED BY <2>1, <2>2, <2>3
<1>7. Rights' = [o \in Name |-> [Rights[o] EXCEPT ![u] = None]]
  BY <1>1, <1>6 DEF Shown
<1>8. Table!Forget(u)
  BY <1>2, <1>7 DEF Table!Forget
<1> QED BY <1>2, <1>8 DEF Table!Change

\* A stop loses the rows that were on their way, and makes none.
LEMMA LoseTable ==
    ASSUME IInv, SInv, (IInv /\ SInv)', Stop
    PROVE  Table!Lose
<1> USE Types
<1>1. Shown /\ Shown'
  BY ShownFacts, ShownNext
<1>2. stops' = stops + 1 /\ UNCHANGED <<accounts, has, shares>>
  BY DEF Stop
<1>3. \A s \in Thread, m \in Name : ~Arrives(s, m)'
  BY DEF Stop, Arrives
<1>4. ASSUME NEW m \in Name, NEW k \in Principal
      PROVE  Rights'[m][k] \in {Rights[m][k], None}
  <2>1. CASE ~has[m] \/ \A s \in Thread : ~Arrives(s, m)
    BY <1>1, <1>2, <1>3, <2>1 DEF Shown
  <2>2. ASSUME NEW s \in Thread, has[m], Arrives(s, m)
        PROVE  Rights'[m][k] \in {Rights[m][k], None}
    <3>1. Rights'[m] = shares[m]
      BY <1>1, <1>2, <1>3, <2>2 DEF Shown
    <3>2. CASE pc[s] = "rows"
      BY <2>2, <3>1, <3>2 DEF Arrives, SInv, AllFound, Found
    <3>3. CASE pc[s] = "keep"
      <4>1. Rights[m][k] = IF k = req[s].owner /\ k \in accounts THEN "edit" ELSE shares[m][k]
        BY <1>1, <2>2, <3>3 DEF Shown, Kept
      <4>2. shares[m][req[s].owner] = None
        BY <2>2, <3>3 DEF Arrives, SInv, AllFound, Found
      <4> QED BY <3>1, <4>1, <4>2
    <3> QED BY <2>2, <3>2, <3>3 DEF Arrives
  <2> QED BY <2>1, <2>2
<1>5. Rights' \in [Name -> [Principal -> Level \cup {None}]]
  BY <1>1 DEF Shown, Rows
<1> QED BY <1>2, <1>4, <1>5, NoRowsAgree DEF Table!Lose

LEMMA StepTable ==
    ASSUME IInv, SInv, [Next]_vars, (IInv /\ SInv)'
    PROVE  [Table!Next]_(Table!vars)
<1>1. CASE Stop
  BY <1>1, LoseTable DEF Table!Next
<1>2. ASSUME NEW t \in Thread, Begin(t) PROVE UNCHANGED Table!vars
  BY <1>2, BeginTable
<1>3. ASSUME NEW t \in Thread, Step(t) PROVE [Table!Next]_(Table!vars)
  BY <1>3, UnseenTable, CreateTable, DeleteTable, GrantTable, RevokeTable, GiveTable,
      PeopleTable, ForgetTable
  DEF Step, Table!Next
<1>4. CASE UNCHANGED vars
  <2>1. Rights' = Rights
    BY <1>4 DEF vars, Rights, Arriving
  <2> QED BY <1>4, <2>1 DEF vars, Table!vars
<1> QED BY <1>1, <1>2, <1>3, <1>4 DEF Next

-----------------------------------------------------------------------------
\* Type correctness: the tables and the requests are what the routes make them,
\* and no owner ever has a row for their own project.  Whatever overlaps.
THEOREM TypeCorrect == Spec => []TypeOK
BY AlwaysIInv, PTL DEF IInv

\* Every name in a share is an account's (delete_user, set_share, transfer), so
\* that whoever is given the name next has been given nothing with it, when the
\* requests at work are Apart and nobody is linked away with shares.
THEOREM SharesAreOfAccounts ==
    ASSUME Orderly, Unshared
    PROVE  Spec => []SharesNameAccounts
<1>1. SInv => SharesNameAccounts
  BY DEF SInv
<1> QED BY <1>1, AlwaysSInv, PTL

\* The routes of projects.py and admin.py implement the table of rights.
THEOREM RefinesTable ==
    ASSUME Orderly, Unshared
    PROVE  Spec => AccessSpec
<1>1. Init => Table!Init
  <2> SUFFICES ASSUME Init PROVE Table!Init
    OBVIOUS
  <2>1. \A n \in Name : ~has[n]
    BY DEF Init
  <2>2. Rights = [n \in Name |-> NoRows]
    BY <2>1 DEF Rights
  <2> QED BY <2>1, <2>2, NoRowsAgree DEF Init, Table!Init
<1>2. IInv /\ SInv /\ [Next]_vars /\ (IInv /\ SInv)' => [Table!Next]_(Table!vars)
  BY StepTable
<1> QED BY <1>1, <1>2, AlwaysSInv, PTL DEF Spec, AccessSpec, Table!Spec
=============================================================================
