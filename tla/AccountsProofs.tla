--------------------------- MODULE AccountsProofs ---------------------------
(***************************************************************************)
(* One person has one account; and, when links are not changed while       *)
(* someone signs in or changes their password, a session that was ended    *)
(* stays ended, works in its person's account before, and outlives the     *)
(* person's groups by no more than OIDC_SESSION_HOURS.  For any number of  *)
(* people, browsers and accounts.                                          *)
(***************************************************************************)
EXTENDS Accounts, FiniteSetTheorems, WellFoundedInduction, TLAPS

-----------------------------------------------------------------------------
(* The invariant: ids, room and rows. *)

\* AUTOINCREMENT: no id from nextId on has been given to anyone yet.
Ids ==
    /\ \A i \in Live : i < nextId
    /\ \A b \in Browser : /\ cookie[b].id # None => cookie[b].id < nextId
                          /\ req[b].found # None => req[b].found < nextId
    /\ linking # None => /\ linking.to < nextId
                         /\ linking.from # None => linking.from < nextId

\* What requests under way may still do has room in the bounds.
Owed(i) == IF linking # None /\ linking.to = i THEN 1 ELSE 0
Room ==
    /\ IsFiniteSet(Making) /\ nextId + Cardinality(Making) <= MaxId + 1
    /\ \A i \in Live : IsFiniteSet(Bumping(i)) /\
         users[i].version + Cardinality(Bumping(i)) + Owed(i) <= MaxVersion

SigningIn == {"linking", "creating", "recording", "entering"}

\* What a request knows, by where it is.
Requests ==
    \A b \in Browser :
        /\ pc[b] \in SigningIn => req[b].person \in Person
        /\ pc[b] \in {"recording", "entering"} => req[b].found \in Id
        /\ pc[b] \in {"changing", "reissuing"} => cookie[b].id \in Id

\* A link goes to a local account, from another.
Links == linking # None =>
    linking.to # linking.from /\ (linking.to \in Live => users[linking.to].source = "local")

\* A cookie is no newer than its account, and older once a password change
\* has ended it.
Versions ==
    \A b \in Browser : cookie[b].id \in Live =>
        /\ cookie[b].version <= users[cookie[b].id].version
        /\ b \in ended => cookie[b].version < users[cookie[b].id].version

IInv == TypeOK /\ Ids /\ Room /\ Requests /\ Links /\ OneAccountEach /\ Versions

-----------------------------------------------------------------------------
(* The invariant, when links are not changed while someone signs in. *)

LinkAlone == linking # None => \A b \in Browser : pc[b] = "idle"

\* p is, or was within this hour, in the group.
UserNow(p) == groups[p] # "none" \/ left[p]["users"] = now
AdminNow(p) == groups[p] = "admins" \/ left[p]["admins"] = now

Asked ==
    \A b \in Browser : pc[b] \in SigningIn =>
        UserNow(req[b].person) /\ (req[b].admin => AdminNow(req[b].person))

\* A sign-in writes to, and then enters, its person's account.
Mine(i, p) == users[i].sub = p \/ (users[i].sub = None /\ users[i].link = p)
Found ==
    \A b \in Browser : req[b].found \in Live =>
        /\ pc[b] = "recording" => Mine(req[b].found, req[b].person)
        /\ pc[b] = "entering" =>
             /\ users[req[b].found].sub = req[b].person
             /\ users[req[b].found].ssoAdmin => AdminNow(req[b].person)

\* p left group g no earlier than at, or has not left.
LeftSince(p, g, at) == left[p][g] # None /\ at <= left[p][g]

\* What holds of a session that loads, or that a password change will renew.
InUse(b) == /\ cookie[b].id \in Live
            /\ Loads(b) \/ pc[b] \in {"changing", "reissuing"}
Session(b) ==
    LET u == users[cookie[b].id]  p == by[b]  at == cookie[b].at IN
      /\ p = "password" => u.admin
      /\ p \in Person =>
           /\ u.sub = p
           /\ cookie[b].sso /\ at # None /\ at <= now
           /\ groups[p] = "none" => LeftSince(p, "users", at)
           /\ u.ssoAdmin /\ groups[p] # "admins" => LeftSince(p, "admins", at)
Sessions == \A b \in Browser : /\ by[b] = None => cookie[b].id = None
                               /\ InUse(b) => Session(b)

\* A session that an unlinking, a move or a deletion has ended is older than
\* its account, and no password change is about to renew it.
Cut ==
    \A b \in cut : cookie[b].id \in Live =>
        /\ pc[b] \notin {"changing", "reissuing"}
        /\ cookie[b].version < users[cookie[b].id].version

PInv == LinkAlone /\ Asked /\ Found /\ Sessions /\ Cut

-----------------------------------------------------------------------------
(* The least account of a set, and a name that is free. *)

LEMMA MinFacts ==
    ASSUME NEW S, S \subseteq Nat, S # {}
    PROVE  Min(S) \in S /\ \A y \in S : Min(S) <= y
<1>1. \E x \in S : \A y \in S : <<y, x>> \notin OpToRel(<, Nat)
  BY NatLessThanWellFounded, WFMin
<1>2. PICK x \in S : \A y \in S : <<y, x>> \notin OpToRel(<, Nat)
  BY <1>1
<1>3. \A y \in S : x <= y
  <2> SUFFICES ASSUME NEW y \in S, y < x PROVE FALSE
    OBVIOUS
  <2>1. <<y, x>> \in Nat \X Nat
    OBVIOUS
  <2>2. <<y, x>> \in OpToRel(<, Nat)
    BY <2>1 DEF OpToRel
  <2> QED BY <1>2, <2>2
<1> QED BY <1>3 DEF Min

LEMMA FirstOfFacts ==
    ASSUME NEW S, S \subseteq Id
    PROVE  /\ S = {} => FirstOf(S) = None
           /\ S # {} => FirstOf(S) \in S
           /\ FirstOf(S) \in Id \cup {None}
<1>1. S \subseteq Nat
  BY DEF Id
<1> QED BY <1>1, MinFacts DEF FirstOf

\* username_for finds a name: there is one more than there are accounts.
LEMMA FreeNameFacts ==
    FreeName \in 1..(MaxId + 1) /\ \A i \in Live : users[i].name # FreeName
<1> DEFINE N == 1..(MaxId + 1)
           F == {n \in N : \A i \in Live : users[i].name # n}
           f == [n \in N |-> CHOOSE i \in Live : users[i].name = n]
<1>1. ASSUME F = {} PROVE FALSE
  <2>1. \A n \in N : f[n] \in Live /\ users[f[n]].name = n
    BY <1>1
  <2>2. f \in [N -> Id]
    BY <2>1 DEF Live
  <2>3. /\ IsFiniteSet(N) /\ Cardinality(N) = MaxId + 1
        /\ IsFiniteSet(Id) /\ Cardinality(Id) = MaxId
    BY BoundAssumption, FS_Interval DEF Id
  <2>4. \E x, y \in N : x # y /\ f[x] = f[y]
    <3> HIDE DEF N, f
    <3> QED BY <2>2, <2>3, FS_PigeonHole, BoundAssumption
  <2> QED BY <2>1, <2>4
<1>2. F \subseteq Nat
  OBVIOUS
<1>3. FreeName \in F
  BY <1>1, <1>2, MinFacts DEF FreeName
<1> QED BY <1>3

-----------------------------------------------------------------------------
LEMMA InitIInv == Init => IInv
<1> SUFFICES ASSUME Init PROVE IInv
  OBVIOUS
<1> USE BoundAssumption, NoneAssumption DEF Init, NoCookie, NoRequest
<1>1. Live \subseteq {1} /\ Making = {} /\ \A i \in Id : Bumping(i) = {}
  BY DEF Live, Making, Bumping
<1>2. IsFiniteSet({}) /\ Cardinality({}) = 0
  BY FS_EmptySet
<1>3. \A i \in Live : users[i] \in Row /\ users[i].source = "local" /\ users[i].version = 0
  BY <1>1 DEF Live, LocalRow, Row, Id
<1>4. TypeOK
  BY <1>3 DEF TypeOK, Live, Labels, Id, Cookie, Request, Link
<1>5. Ids /\ Requests /\ Links /\ Versions
  BY <1>1, <1>3 DEF Ids, Requests, Links, Versions, SigningIn
<1>6. Room
  <2>1. nextId + Cardinality(Making) <= MaxId + 1
    BY <1>1, <1>2
  <2>2. \A i \in Id : IsFiniteSet(Bumping(i)) /\ Cardinality(Bumping(i)) = 0 /\ Owed(i) = 0
    BY <1>1, <1>2 DEF Owed
  <2> QED BY <1>1, <1>2, <1>3, <2>1, <2>2 DEF Room, Live
<1>7. OneAccountEach
  BY <1>1, <1>3 DEF OneAccountEach
<1> QED BY <1>4, <1>5, <1>6, <1>7 DEF IInv

-----------------------------------------------------------------------------
(* Room. *)

LEMMA MakingRoom ==
    ASSUME TypeOK, Room, NEW b \in Browser, pc[b] = "creating"
    PROVE  nextId \in Id
<1>1. b \in Making
  BY DEF Making
<1>2. Cardinality(Making) \in Nat /\ Cardinality(Making) # 0
  BY <1>1, FS_CardinalityType, FS_EmptySet DEF Room
<1> QED BY <1>2, BoundAssumption DEF Room, TypeOK, Id

\* An account that a request under way, a link or an admin may end the
\* sessions of has room for the change.
LEMMA BumpRoom ==
    ASSUME TypeOK, Room, NEW i \in Live,
           MayBump(i) \/ Owed(i) = 1 \/ \E b \in Browser : b \in Bumping(i)
    PROVE  Bumped(i) \in Row /\ users[i].version < MaxVersion
<1>1. Cardinality(Bumping(i)) \in Nat
      /\ ((\E b \in Browser : b \in Bumping(i)) => Cardinality(Bumping(i)) # 0)
  BY FS_CardinalityType, FS_EmptySet DEF Room
<1>2. users[i] \in Row /\ regroups \in Nat
  BY DEF TypeOK, Live
<1>3. users[i].version < MaxVersion
  BY <1>1, <1>2, BoundAssumption DEF Room, Owed, MayBump, Spent, Row
<1> QED BY <1>2, <1>3, BoundAssumption DEF Bumped, Row

-----------------------------------------------------------------------------
(* Types. *)

\* A cookie, and a row, that is made or changed has its type.
LEMMA CookieType ==
    ASSUME NEW c \in Cookie, NEW i \in Id, NEW v \in 0..MaxVersion
    PROVE  [c EXCEPT !.id = i, !.version = v] \in Cookie
BY DEF Cookie

LEMMA NewRowType ==
    ASSUME NEW p \in Person, NEW n \in 0..(MaxId + 1)
    PROVE  NewSsoRow(p, n) \in Row
BY BoundAssumption DEF NewSsoRow, Row

LEMMA RecordedRowType ==
    ASSUME NEW u \in Row, NEW p \in Person, NEW r \in Request
    PROVE  [u EXCEPT !.sub = p, !.link = None,
              !.email = IF r.mail = "none" THEN @ ELSE p, !.ssoAdmin = r.admin] \in Row
BY DEF Row, Request

\* Requests keep their type when what they have found is recorded in them.
LEMMA RequestUpdates ==
    ASSUME req \in [Browser -> Request], NEW b \in Browser,
           NEW f \in Id \cup {None}, NEW n \in 0..(MaxId + 1)
    PROVE  /\ [req EXCEPT ![b].found = f] \in [Browser -> Request]
           /\ [req EXCEPT ![b].name = n] \in [Browser -> Request]
           /\ [req EXCEPT ![b].found = f, ![b].name = n] \in [Browser -> Request]
           /\ [req EXCEPT ![b] = NoRequest] \in [Browser -> Request]
<1>1. NoRequest \in Request
  BY BoundAssumption DEF NoRequest, Request
<1>2. \A u \in Request : /\ [u EXCEPT !.found = f] \in Request
                        /\ [u EXCEPT !.name = n] \in Request
  BY DEF Request
<1>3. req[b] \in Request
  OBVIOUS
<1>4. [[req[b] EXCEPT !.found = f] EXCEPT !.name = n] \in Request
  <2> HIDE DEF Request
  <2> QED BY <1>2, <1>3
<1> HIDE DEF Request
<1> QED BY <1>1, <1>2, <1>3, <1>4

LEMMA TypeStep ==
    TypeOK /\ Ids /\ Room /\ Requests /\ [Next]_vars => TypeOK'
<1> SUFFICES ASSUME TypeOK, Ids, Room, Requests, [Next]_vars PROVE TypeOK'
  OBVIOUS
<1> USE BoundAssumption DEF TypeOK, Goto, rows, world, session, Labels
<1>0. NoRequest \in Request
  BY DEF NoRequest, Request
<1>1. ASSUME NEW b \in Browser, Expire(b) \/ Logout(b) PROVE TypeOK'
  <2>1. NoCookie \in Cookie
    BY DEF NoCookie, Cookie
  <2> QED BY <1>1, <2>1 DEF Expire, Logout
<1>2. ASSUME NEW b \in Browser, NEW i \in Id, PasswordLogin(b, i) PROVE TypeOK'
  <2>1. [cookie[b] EXCEPT !.id = i, !.version = users[i].version] \in Cookie
    <3>1. users[i].version \in 0..MaxVersion
      BY <1>2 DEF PasswordLogin, Live, Row
    <3> QED BY <3>1, CookieType
  <2> QED BY <1>2, <2>1 DEF PasswordLogin
<1>3. ASSUME NEW b \in Browser, AskPassword(b) PROVE TypeOK'
  BY <1>3 DEF AskPassword
<1>4. ASSUME NEW b \in Browser, ChangePassword(b) PROVE TypeOK'
  <2>1. cookie[b].id \in Live => Bumped(cookie[b].id) \in Row
    BY <1>4, BumpRoom DEF ChangePassword, Bumping
  <2> QED BY <1>4, <2>1 DEF ChangePassword, OnAccount
<1>5. ASSUME NEW b \in Browser, Reissue(b) PROVE TypeOK'
  <2>1. cookie[b].id \in Live =>
          [cookie[b] EXCEPT !.version = users[cookie[b].id].version] \in Cookie
    BY DEF Live, Row, Cookie
  <2> QED BY <1>5, <2>1 DEF Reissue
<1>6. ASSUME NEW b \in Browser, NEW p \in Person, Begin(b, p) PROVE TypeOK'
  <2>1. FirstOf(WithSub(p)) \in Id \cup {None}
    BY FirstOfFacts DEF WithSub, Live
  <2> QED BY <1>6, <2>1, MailsAssumption DEF Begin, Request
<1>7. ASSUME NEW b \in Browser, FindByLink(b) PROVE TypeOK'
  <2>1. FirstOf(Waiting(req[b].person)) \in Id \cup {None} /\ FreeName \in 0..(MaxId + 1)
    BY FirstOfFacts, FreeNameFacts DEF Waiting, Live
  <2>2. \/ req' = [req EXCEPT ![b].found = FirstOf(Waiting(req[b].person))]
        \/ req' = [req EXCEPT ![b].name = FreeName]
    BY <1>7 DEF FindByLink
  <2>3. req' \in [Browser -> Request]
    <3> DEFINE f == FirstOf(Waiting(req[b].person))  n == FreeName
    <3>1. req \in [Browser -> Request] /\ f \in Id \cup {None} /\ n \in 0..(MaxId + 1)
      BY <2>1
    <3>2. req' = [req EXCEPT ![b].found = f] \/ req' = [req EXCEPT ![b].name = n]
      BY <2>2
    <3> HIDE DEF TypeOK, f, n
    <3>3. /\ [req EXCEPT ![b].found = f] \in [Browser -> Request]
          /\ [req EXCEPT ![b].name = n] \in [Browser -> Request]
      BY <3>1, RequestUpdates
    <3> QED BY <3>2, <3>3
  <2>4. pc' \in [Browser -> Labels]
    BY <1>7 DEF FindByLink
  <2>5. UNCHANGED <<users, nextId, session, linking, world>>
    BY <1>7 DEF FindByLink
  <2> QED BY <2>3, <2>4, <2>5
<1>8. ASSUME NEW b \in Browser, CreateSso(b) PROVE TypeOK'
  <2>1. nextId \in Id
    BY <1>8, MakingRoom DEF CreateSso
  <2>2. NewSsoRow(req[b].person, req[b].name) \in Row
    <3>1. req[b].person \in Person /\ req[b].name \in 0..(MaxId + 1)
      BY <1>8 DEF CreateSso, Requests, SigningIn, Request
    <3> QED BY <3>1, NewRowType
  <2>3. /\ UNCHANGED <<session, linking, world>>
        /\ \/ /\ UNCHANGED <<users, nextId>>
              /\ req' = [req EXCEPT ![b] = NoRequest] /\ pc' = [pc EXCEPT ![b] = "idle"]
           \/ /\ users' = [users EXCEPT ![nextId] = NewSsoRow(req[b].person, req[b].name)]
              /\ nextId' = nextId + 1
              /\ req' = [req EXCEPT ![b].found = nextId, ![b].name = 0]
              /\ pc' = [pc EXCEPT ![b] = "recording"]
    <3> HIDE DEF TypeOK
    <3> QED BY <1>8 DEF CreateSso
  <2>4. users' \in [Id -> Row \cup {None}]
    <3>1. users \in [Id -> Row \cup {None}]
      OBVIOUS
    <3> HIDE DEF TypeOK
    <3> QED BY <2>1, <2>2, <2>3, <3>1
  <2>5. nextId' \in 1..(MaxId + 1)
    BY <2>1, <2>3 DEF Id
  <2>6. req' \in [Browser -> Request]
    <3>1. req \in [Browser -> Request] /\ nextId \in Id \cup {None}
          /\ 0 \in 0..(MaxId + 1)
      BY <2>1
    <3> HIDE DEF TypeOK
    <3>2. /\ [req EXCEPT ![b].found = nextId, ![b].name = 0] \in [Browser -> Request]
          /\ [req EXCEPT ![b] = NoRequest] \in [Browser -> Request]
      BY <3>1, RequestUpdates
    <3> QED BY <2>3, <3>2
  <2>7. pc' \in [Browser -> Labels]
    BY <2>3
  <2> QED BY <2>3, <2>4, <2>5, <2>6, <2>7
<1>9. ASSUME NEW b \in Browser, Record(b) PROVE TypeOK'
  <2> DEFINE i == req[b].found  p == req[b].person
             R == [users[i] EXCEPT !.sub = p, !.link = None,
                     !.email = IF req[b].mail = "none" THEN @ ELSE p,
                     !.ssoAdmin = req[b].admin]
  <2>1. i \in Live => R \in Row
    <3>1. p \in Person
      BY <1>9 DEF Record, Requests, SigningIn
    <3> QED BY <3>1, RecordedRowType DEF Live
  <2>2. \/ users' = users
        \/ i \in Live /\ users' = [users EXCEPT ![i] = R]
    <3> HIDE DEF TypeOK
    <3> QED BY <1>9 DEF Record
  <2>3. users' \in [Id -> Row \cup {None}]
    <3> HIDE DEF R
    <3> QED BY <2>1, <2>2 DEF Live
  <2>4. req' \in [Browser -> Request] /\ pc' \in [Browser -> Labels]
    BY <1>9, <1>0 DEF Record
  <2> QED BY <1>9, <2>3, <2>4 DEF Record
<1>10. ASSUME NEW b \in Browser, Enter(b) PROVE TypeOK'
  <2>1. req[b].found \in Live =>
          [id |-> req[b].found, version |-> users[req[b].found].version,
           sso |-> TRUE, at |-> now] \in Cookie
    BY DEF Live, Row, Cookie
  <2>2. /\ UNCHANGED <<rows, linking, world>>
        /\ req' = [req EXCEPT ![b] = NoRequest] /\ pc' = [pc EXCEPT ![b] = "idle"]
    BY <1>10 DEF Enter
  <2>3. req' \in [Browser -> Request] /\ pc' \in [Browser -> Labels]
    BY <1>0, <2>2
  <2>4. \/ UNCHANGED session
        \/ /\ req[b].found \in Live
           /\ cookie' = [cookie EXCEPT ![b] =
                  [id |-> req[b].found, version |-> users[req[b].found].version,
                   sso |-> TRUE, at |-> now]]
           /\ by' = [by EXCEPT ![b] = req[b].person]
           /\ ended' = ended \ {b} /\ cut' = cut \ {b}
    <3> HIDE DEF TypeOK
    <3> QED BY <1>10 DEF Enter
  <2>5. req[b].person \in Person \cup {None}
    BY DEF Request
  <2>6. cookie' \in [Browser -> Cookie]
    BY <2>1, <2>4
  <2>7. /\ by' \in [Browser -> Person \cup {"password", None}]
        /\ ended' \subseteq Browser /\ cut' \subseteq Browser
    BY <2>4, <2>5
  <2> QED BY <2>2, <2>3, <2>6, <2>7
<1>11. ASSUME NEW i \in Id, Delete(i) PROVE TypeOK'
  BY <1>11 DEF Delete, OnAccount
<1>12. ASSUME NEW i \in Id, NEW p \in Person, BeginLink(i, p) PROVE TypeOK'
  <2>1. PICK S \in SUBSET Live : linking' = [to |-> i, from |-> FirstOf(S), person |-> p]
    BY <1>12 DEF BeginLink
  <2>2. FirstOf(S) \in Id \cup {None}
    BY FirstOfFacts DEF Live
  <2> QED BY <1>12, <2>1, <2>2 DEF BeginLink, Link
<1>13. ASSUME SetLink PROVE TypeOK'
  <2>1. linking.to \in Live => [users[linking.to] EXCEPT !.link = linking.person] \in Row
    <3>1. linking.person \in Person
      BY <1>13 DEF SetLink, Link
    <3>2. users \in [Id -> Row \cup {None}]
      OBVIOUS
    <3>3. \A u \in Row : [u EXCEPT !.link = linking.person] \in Row
      <4> HIDE DEF TypeOK
      <4> QED BY <3>1 DEF Row
    <3> HIDE DEF TypeOK
    <3> QED BY <3>2, <3>3 DEF Live
  <2> QED BY <1>13, <2>1 DEF SetLink
<1>14. ASSUME MoveIdentity PROVE TypeOK'
  <2> DEFINE to == linking.to  from == linking.from
             R == [Bumped(to) EXCEPT !.sub = users[from].sub,
                     !.email = users[from].email, !.link = None,
                     !.ssoAdmin = users[from].ssoAdmin]
  <2>1. to \in Live /\ from \in Live => R \in Row
    <3>1. to \in Live => Bumped(to) \in Row
      BY <1>14, BumpRoom DEF MoveIdentity, Owed
    <3> QED BY <3>1 DEF Live, Row
  <2>2. users' \in [Id -> Row \cup {None}]
    BY <1>14, <2>1 DEF MoveIdentity
  <2> QED BY <1>14, <2>2 DEF MoveIdentity, OnAccount
<1>15. ASSUME NEW i \in Id, Unlink(i) PROVE TypeOK'
  <2>1. Bumped(i) \in Row
    BY <1>15, BumpRoom DEF Unlink
  <2>2. [Bumped(i) EXCEPT !.sub = None, !.link = None, !.ssoAdmin = FALSE] \in Row
    BY <2>1 DEF Row
  <2> QED BY <1>15, <2>2 DEF Unlink, OnAccount
<1>16. ASSUME NEW p \in Person, NEW g \in {"none", "users", "admins"}, Regroup(p, g)
       PROVE TypeOK'
  BY <1>16 DEF Regroup
<1>17. CASE Tick
  BY <1>17 DEF Tick
<1>18. CASE UNCHANGED vars
  BY <1>18 DEF vars
<1> HIDE DEF TypeOK, Goto, rows, world, session, Labels
<1> QED
  BY <1>1, <1>2, <1>3, <1>4, <1>5, <1>6, <1>7, <1>8, <1>9, <1>10, <1>11, <1>12,
     <1>13, <1>14, <1>15, <1>16, <1>17, <1>18
  DEF Next, Idle

-----------------------------------------------------------------------------
(* What changing a password and moving an identity do to the rows. *)

LEMMA BumpedFacts ==
    ASSUME TypeOK, NEW i \in Live
    PROVE  /\ Bumped(i).version = users[i].version + 1
           /\ Bumped(i).source = users[i].source /\ Bumped(i).sub = users[i].sub
           /\ Bumped(i).admin = users[i].admin /\ Bumped(i).ssoAdmin = users[i].ssoAdmin
BY DEF TypeOK, Live, Row, Bumped

LEMMA MoveFacts ==
    ASSUME TypeOK, Links, MoveIdentity, linking.from \in Live
    PROVE  /\ Live' \subseteq Live \ {linking.from}
           /\ \A i \in Live' \ {linking.to} : users'[i] = users[i]
           /\ linking.to \in Live' =>
                /\ users'[linking.to].version = users[linking.to].version + 1
                /\ users'[linking.to].source = "local"
                /\ users'[linking.to].sub = users[linking.from].sub
<1> DEFINE from == linking.from  to == linking.to
           Moved == [Bumped(to) EXCEPT !.sub = users[from].sub,
                       !.email = users[from].email, !.link = None,
                       !.ssoAdmin = users[from].ssoAdmin]
<1>1. users' = [i \in Id |->
         CASE i = from -> None
           [] i = to /\ to \in Live -> Moved
           [] OTHER -> users[i]]
  BY DEF MoveIdentity
<1>2. from # to /\ from \in Id /\ (to \in Live => users[to].source = "local")
  BY DEF Links, MoveIdentity, Live
<1>3. \A i \in Id : /\ i = from => users'[i] = None
                    /\ i = to /\ to \in Live => users'[i] = Moved
                    /\ i # from /\ ~(i = to /\ to \in Live) => users'[i] = users[i]
  <2> HIDE DEF Moved
  <2> QED BY <1>1, <1>2
<1>4. to \in Live => /\ Moved.version = users[to].version + 1
                     /\ Moved.source = "local" /\ Moved.sub = users[from].sub
  <2>1. to \in Live => users[to] \in Row
    BY DEF TypeOK, Live
  <2> QED BY <1>2, <2>1 DEF Bumped, Row
<1>5. \A i \in Live' : i \in Live /\ i # from
  <2> HIDE DEF Moved
  <2> QED BY <1>2, <1>3 DEF Live
<1> HIDE DEF Moved
<1> QED BY <1>3, <1>4, <1>5 DEF Live

LEMMA IdsStep ==
    IInv /\ [Next]_vars => Ids'
<1> SUFFICES ASSUME IInv, [Next]_vars PROVE Ids'
  OBVIOUS
<1> USE NoneAssumption, BoundAssumption DEF Goto, rows, world, session, IInv, TypeOK,
     Ids, Live, Id, Row, Cookie, Request, Link, WithSub, Waiting, Room
<1>1. ASSUME NEW b \in Browser, Expire(b) PROVE Ids'
  BY <1>1 DEF Expire, NoCookie
<1>2. ASSUME NEW b \in Browser, Logout(b) PROVE Ids'
  BY <1>2 DEF Logout, NoCookie
<1>3. ASSUME NEW b \in Browser, NEW i \in Id, PasswordLogin(b, i) PROVE Ids'
  BY <1>3 DEF PasswordLogin
<1>4. ASSUME NEW b \in Browser, AskPassword(b) PROVE Ids'
  BY <1>4 DEF AskPassword
<1>5. ASSUME NEW b \in Browser, ChangePassword(b) PROVE Ids'
  BY <1>5 DEF ChangePassword
<1>6. ASSUME NEW b \in Browser, Reissue(b) PROVE Ids'
  <2>1. \/ UNCHANGED cookie
        \/ cookie' = [cookie EXCEPT ![b].version = users[cookie[b].id].version]
    BY <1>6 DEF Reissue
  <2>2. \A c \in Browser : cookie'[c].id = cookie[c].id
    <3> cookie \in [Browser -> Cookie]
      OBVIOUS
    <3> HIDE DEF TypeOK, IInv, Row, Live, Id
    <3> QED BY <2>1
  <2>3. UNCHANGED <<users, nextId, req, linking>>
    BY <1>6 DEF Reissue
  <2> QED BY <2>2, <2>3
<1>7. ASSUME NEW b \in Browser, NEW p \in Person, Begin(b, p) PROVE Ids'
  <2>1. FirstOf(WithSub(p)) \in Live \cup {None}
    BY FirstOfFacts DEF WithSub, Live
  <2>2. Live' = Live
    BY <1>7 DEF Begin
  <2>3. \A c \in Browser : req'[c].found # None => req'[c].found < nextId
    BY <1>7, <2>1 DEF Begin
  <2> QED BY <1>7, <2>2, <2>3 DEF Begin
<1>8. ASSUME NEW b \in Browser, FindByLink(b) PROVE Ids'
  <2> DEFINE W == IF req[b].mail = "verified" THEN Waiting(req[b].person) ELSE {}
  <2>1. FirstOf(W) \in Live \cup {None}
    BY FirstOfFacts DEF Waiting, Live
  <2>2. Live' = Live
    BY <1>8 DEF FindByLink
  <2>3. \A c \in Browser : req'[c].found # None => req'[c].found < nextId
    <3>1. \/ req' = [req EXCEPT ![b].found = FirstOf(W)]
          \/ req' = [req EXCEPT ![b].name = FreeName]
      BY <1>8 DEF FindByLink
    <3>2. FirstOf(W) # None => FirstOf(W) < nextId
      <4> HIDE DEF W, Live, WithSub, Waiting, TypeOK
      <4> QED BY <2>1
    <3>3. req \in [Browser -> Request] /\ \A c \in Browser : req[c].found # None
                                                         => req[c].found < nextId
      OBVIOUS
    <3> HIDE DEF W, Live, WithSub, Waiting, IInv, TypeOK, Ids
    <3> QED BY <3>1, <3>2, <3>3
  <2> QED BY <1>8, <2>2, <2>3 DEF FindByLink
<1>9. ASSUME NEW b \in Browser, CreateSso(b) PROVE Ids'
  <2>1. nextId \in Id
    BY <1>9, MakingRoom DEF CreateSso
  <2>2. UNCHANGED <<cookie, linking>>
    BY <1>9 DEF CreateSso
  <2>3. CASE UNCHANGED rows /\ req' = [req EXCEPT ![b] = NoRequest]
    BY <2>2, <2>3 DEF NoRequest
  <2>4. CASE /\ users' = [users EXCEPT ![nextId] = NewSsoRow(req[b].person, req[b].name)]
             /\ nextId' = nextId + 1
             /\ req' = [req EXCEPT ![b].found = nextId, ![b].name = 0]
    <3>1. \A i \in Live' : i < nextId'
      BY <2>1, <2>4
    <3>2. \A c \in Browser : req'[c].found # None => req'[c].found < nextId'
      BY <2>1, <2>4
    <3>3. /\ \A c \in Browser : cookie[c].id # None => cookie[c].id < nextId + 1
          /\ linking # None => /\ linking.to < nextId + 1
                               /\ linking.from # None => linking.from < nextId + 1
      BY <2>1
    <3> HIDE DEF Live, IInv, TypeOK
    <3> QED BY <2>2, <2>4, <3>1, <3>2, <3>3
  <2> QED BY <1>9, <2>3, <2>4 DEF CreateSso
<1>10. ASSUME NEW b \in Browser, Record(b) PROVE Ids'
  <2>1. UNCHANGED <<nextId, cookie, linking>>
    BY <1>10 DEF Record
  <2>2. UNCHANGED req \/ req' = [req EXCEPT ![b] = NoRequest]
    BY <1>10 DEF Record
  <2>3. Live' \subseteq Live
    <3>1. \A j \in Id : users[j] = None => users'[j] = None
      BY <1>10 DEF Record
    <3> QED BY <3>1
  <2>4. \A c \in Browser : req'[c].found \in {req[c].found, None}
    <3> req \in [Browser -> Request]
      OBVIOUS
    <3> HIDE DEF TypeOK, IInv, Row, Live, Id
    <3> QED BY <2>2 DEF NoRequest
  <2> HIDE DEF TypeOK, Live
  <2> QED BY <2>1, <2>3, <2>4
<1>11. ASSUME NEW b \in Browser, Enter(b) PROVE Ids'
  BY <1>11 DEF Enter, NoRequest
<1>12. ASSUME NEW i \in Id, Delete(i) PROVE Ids'
  BY <1>12 DEF Delete, OnAccount
<1>13. ASSUME NEW i \in Id, NEW p \in Person, BeginLink(i, p) PROVE Ids'
  <2>1. PICK S \in SUBSET Live : linking' = [to |-> i, from |-> FirstOf(S), person |-> p]
    BY <1>13 DEF BeginLink
  <2>2. FirstOf(S) \in Live \cup {None}
    BY FirstOfFacts DEF Live
  <2> QED BY <1>13, <2>1, <2>2 DEF BeginLink
<1>14. ASSUME SetLink PROVE Ids'
  BY <1>14 DEF SetLink
<1>15. ASSUME MoveIdentity PROVE Ids'
  BY <1>15 DEF MoveIdentity, OnAccount, Bumped
<1>16. ASSUME NEW i \in Id, Unlink(i) PROVE Ids'
  BY <1>16 DEF Unlink, OnAccount, Bumped
<1>17. ASSUME NEW p \in Person, NEW g \in {"none", "users", "admins"}, Regroup(p, g)
       PROVE  Ids'
  BY <1>17 DEF Regroup
<1>18. ASSUME Tick PROVE Ids'
  BY <1>18 DEF Tick
<1>19. ASSUME UNCHANGED vars PROVE Ids'
  BY <1>19 DEF vars
<1> HIDE DEF Goto, rows, world, session, IInv, TypeOK, Ids, Live, Id, Row, Cookie,
     Request, Link, WithSub, Waiting, Room
<1> QED
  BY <1>1, <1>2, <1>3, <1>4, <1>5, <1>6, <1>7, <1>8, <1>9, <1>10, <1>11, <1>12, <1>13,
       <1>14, <1>15, <1>16, <1>17, <1>18, <1>19
  DEF Next, Idle

\* A sign-in that is recorded changes its own account, if any, and no session.
LEMMA RecordFacts ==
    ASSUME IInv, NEW b \in Browser, Record(b)
    PROVE  /\ UNCHANGED <<cookie, by, ended, linking, groups, now, left>>
           /\ pc[b] = "recording" /\ pc'[b] \in {"idle", "entering"}
           /\ \A c \in Browser \ {b} : req'[c] = req[c] /\ pc'[c] = pc[c]
           /\ pc'[b] = "entering" => req'[b] = req[b]
           /\ Live' \subseteq Live
           /\ \A j \in Live \ {req[b].found} : users'[j] = users[j]
           /\ req[b].found \in Live =>
                \/ pc'[b] = "idle" /\ users' = users
                \/ /\ users'[req[b].found].sub = req[b].person
                   /\ users'[req[b].found].ssoAdmin = req[b].admin
                   /\ users'[req[b].found].admin = users[req[b].found].admin
                   /\ users'[req[b].found].version = users[req[b].found].version
                   /\ users'[req[b].found].source = users[req[b].found].source
                   /\ WithSub(req[b].person) \subseteq {req[b].found}
<1> DEFINE i == req[b].found  p == req[b].person
           R == [users[i] EXCEPT !.sub = p, !.link = None,
                   !.email = IF req[b].mail = "none" THEN @ ELSE p,
                   !.ssoAdmin = req[b].admin]
<1>1. /\ users \in [Id -> Row \cup {None}] /\ pc \in [Browser -> Labels]
      /\ req \in [Browser -> Request]
  BY DEF IInv, TypeOK
<1>2. /\ UNCHANGED <<cookie, by, ended, linking, groups, now, left>>
      /\ pc[b] = "recording"
      /\ \/ /\ pc' = [pc EXCEPT ![b] = "idle"] /\ req' = [req EXCEPT ![b] = NoRequest]
            /\ users' = users
         \/ /\ pc' = [pc EXCEPT ![b] = "entering"] /\ req' = req
            /\ users' = IF i \in Live THEN [users EXCEPT ![i] = R] ELSE users
            /\ i \in Live => WithSub(p) \subseteq {i}
  BY DEF Record, Goto, session, world
<1>3. /\ pc'[b] \in {"idle", "entering"} /\ (pc'[b] = "entering" => req' = req)
      /\ \A c \in Browser \ {b} : req'[c] = req[c] /\ pc'[c] = pc[c]
      /\ users' = users \/ (i \in Live /\ users' = [users EXCEPT ![i] = R])
      /\ i \in Live /\ pc'[b] = "entering" => /\ users' = [users EXCEPT ![i] = R]
                                             /\ WithSub(p) \subseteq {i}
      /\ pc'[b] = "idle" => users' = users
  <2> HIDE DEF R
  <2> QED BY <1>1, <1>2
<1>4. i \in Live => /\ R \in Row /\ R.sub = p /\ R.ssoAdmin = req[b].admin
                    /\ R.admin = users[i].admin /\ R.version = users[i].version
                    /\ R.source = users[i].source
  <2>1. SUFFICES ASSUME i \in Live PROVE /\ R \in Row /\ R.sub = p
            /\ R.ssoAdmin = req[b].admin /\ R.admin = users[i].admin
            /\ R.version = users[i].version /\ R.source = users[i].source
    OBVIOUS
  <2>2. users[i] \in Row /\ p \in Person
    BY <1>1, <1>2, <2>1 DEF Live, IInv, Requests, SigningIn
  <2>3. R \in Row
    BY <1>1, <2>2, RecordedRowType
  <2> QED BY <2>2, <2>3 DEF Row
<1>5. Live' \subseteq Live /\ \A j \in Live \ {i} : users'[j] = users[j]
  <2> HIDE DEF R
  <2> QED BY <1>1, <1>3, <1>4 DEF Live
<1>6. i \in Live /\ pc'[b] = "entering" => users'[i] = R
  <2> HIDE DEF R
  <2> QED BY <1>1, <1>3 DEF Live
<1> HIDE DEF R
<1> QED BY <1>2, <1>3, <1>4, <1>5, <1>6

LEMMA RequestsStep ==
    IInv /\ [Next]_vars => Requests'
<1> SUFFICES ASSUME IInv, [Next]_vars PROVE Requests'
  OBVIOUS
<1> USE NoneAssumption, BoundAssumption DEF Goto, rows, world, session, IInv, TypeOK,
     Requests, Labels, SigningIn, Id, Cookie, Request, Live, WithSub, Waiting
<1>1. ASSUME NEW b \in Browser, Expire(b) PROVE Requests'
  BY <1>1 DEF Expire, NoCookie
<1>2. ASSUME NEW b \in Browser, Logout(b) PROVE Requests'
  BY <1>2 DEF Logout, NoCookie
<1>3. ASSUME NEW b \in Browser, NEW i \in Id, PasswordLogin(b, i) PROVE Requests'
  BY <1>3 DEF PasswordLogin
<1>4. ASSUME NEW b \in Browser, AskPassword(b) PROVE Requests'
  <2>1. cookie[b].id \in Id
    BY <1>4 DEF AskPassword, Served, Loads
  <2> QED BY <1>4, <2>1 DEF AskPassword
<1>5. ASSUME NEW b \in Browser, ChangePassword(b) PROVE Requests'
  BY <1>5 DEF ChangePassword, OnAccount, Bumped
<1>6. ASSUME NEW b \in Browser, Reissue(b) PROVE Requests'
  BY <1>6 DEF Reissue
<1>7. ASSUME NEW b \in Browser, NEW p \in Person, Begin(b, p) PROVE Requests'
  <2>1. WithSub(p) # {} => FirstOf(WithSub(p)) \in Id
    BY FirstOfFacts DEF WithSub, Live
  <2> QED BY <1>7, <2>1 DEF Begin
<1>8. ASSUME NEW b \in Browser, FindByLink(b) PROVE Requests'
  <2> DEFINE W == IF req[b].mail = "verified" THEN Waiting(req[b].person) ELSE {}
  <2>1. W # {} => FirstOf(W) \in Id
    <3>1. W \subseteq Id
      BY DEF Waiting, Live
    <3> HIDE DEF W, Id
    <3> QED BY <3>1, FirstOfFacts
  <2>2. CASE W # {} /\ req' = [req EXCEPT ![b].found = FirstOf(W)]
                   /\ pc' = [pc EXCEPT ![b] = "recording"]
    <3> HIDE DEF W, Id
    <3> QED BY <1>8, <2>1, <2>2 DEF FindByLink
  <2>3. CASE req' = [req EXCEPT ![b].name = FreeName] /\ pc' = [pc EXCEPT ![b] = "creating"]
    BY <1>8, <2>3 DEF FindByLink
  <2> QED BY <1>8, <2>2, <2>3 DEF FindByLink
<1>9. ASSUME NEW b \in Browser, CreateSso(b) PROVE Requests'
  <2>1. nextId \in Id /\ UNCHANGED cookie
    BY <1>9, MakingRoom DEF CreateSso
  <2>2. CASE req' = [req EXCEPT ![b] = NoRequest] /\ pc' = [pc EXCEPT ![b] = "idle"]
    BY <2>1, <2>2
  <2>3. CASE /\ req' = [req EXCEPT ![b].found = nextId, ![b].name = 0]
             /\ pc' = [pc EXCEPT ![b] = "recording"]
    <3>1. \A c \in Browser : req'[c].person = req[c].person
      BY <2>3
    <3>2. \A c \in Browser : c # b => req'[c].found = req[c].found
      BY <2>3
    <3>3. req'[b].found = nextId
      BY <2>3
    <3> HIDE DEF Id
    <3> QED BY <1>9, <2>1, <2>3, <3>1, <3>2, <3>3 DEF CreateSso
  <2> QED BY <1>9, <2>2, <2>3 DEF CreateSso
<1>10. ASSUME NEW b \in Browser, Record(b) PROVE Requests'
  <2>1. UNCHANGED cookie
    BY <1>10, RecordFacts
  <2>2. /\ pc[b] = "recording" /\ pc'[b] \in {"idle", "entering"}
        /\ \A c \in Browser \ {b} : req'[c] = req[c] /\ pc'[c] = pc[c]
        /\ pc'[b] = "entering" => req'[b] = req[b]
    BY <1>10, RecordFacts
  <2>3. Requests
    OBVIOUS
  <2> HIDE DEF IInv, TypeOK, Id, Cookie, Request, Live
  <2> QED BY <2>1, <2>2, <2>3
<1>11. ASSUME NEW b \in Browser, Enter(b) PROVE Requests'
  BY <1>11 DEF Enter, NoRequest
<1>12. ASSUME NEW i \in Id, Delete(i) PROVE Requests'
  BY <1>12 DEF Delete, OnAccount
<1>13. ASSUME NEW i \in Id, NEW p \in Person, BeginLink(i, p) PROVE Requests'
  BY <1>13 DEF BeginLink
<1>14. ASSUME SetLink PROVE Requests'
  BY <1>14 DEF SetLink
<1>15. ASSUME MoveIdentity PROVE Requests'
  BY <1>15 DEF MoveIdentity, OnAccount, Bumped
<1>16. ASSUME NEW i \in Id, Unlink(i) PROVE Requests'
  BY <1>16 DEF Unlink, OnAccount, Bumped
<1>17. ASSUME NEW p \in Person, NEW g \in {"none", "users", "admins"}, Regroup(p, g)
       PROVE  Requests'
  BY <1>17 DEF Regroup
<1>18. ASSUME Tick PROVE Requests'
  BY <1>18 DEF Tick
<1>19. ASSUME UNCHANGED vars PROVE Requests'
  BY <1>19 DEF vars
<1> HIDE DEF Goto, rows, world, session, IInv, TypeOK, Requests, Labels, SigningIn, Id,
     Cookie, Request, Live, WithSub, Waiting
<1> QED
  BY <1>1, <1>2, <1>3, <1>4, <1>5, <1>6, <1>7, <1>8, <1>9, <1>10, <1>11, <1>12, <1>13,
       <1>14, <1>15, <1>16, <1>17, <1>18, <1>19
  DEF Next, Idle

LEMMA LinksStep ==
    IInv /\ [Next]_vars => Links'
<1> SUFFICES ASSUME IInv, [Next]_vars PROVE Links'
  OBVIOUS
<1> USE NoneAssumption, BoundAssumption DEF Goto, rows, world, session, IInv, TypeOK,
     Links, Ids, Live, Row, Link
<1>1. ASSUME NEW b \in Browser, Expire(b) PROVE Links'
  BY <1>1 DEF Expire, NoCookie
<1>2. ASSUME NEW b \in Browser, Logout(b) PROVE Links'
  BY <1>2 DEF Logout, NoCookie
<1>3. ASSUME NEW b \in Browser, NEW i \in Id, PasswordLogin(b, i) PROVE Links'
  BY <1>3 DEF PasswordLogin
<1>4. ASSUME NEW b \in Browser, AskPassword(b) PROVE Links'
  BY <1>4 DEF AskPassword
<1>5. ASSUME NEW b \in Browser, ChangePassword(b) PROVE Links'
  BY <1>5 DEF ChangePassword, OnAccount, Bumped
<1>6. ASSUME NEW b \in Browser, Reissue(b) PROVE Links'
  BY <1>6 DEF Reissue
<1>7. ASSUME NEW b \in Browser, NEW p \in Person, Begin(b, p) PROVE Links'
  BY <1>7 DEF Begin
<1>8. ASSUME NEW b \in Browser, FindByLink(b) PROVE Links'
  BY <1>8 DEF FindByLink
<1>9. ASSUME NEW b \in Browser, CreateSso(b) PROVE Links'
  BY <1>9 DEF CreateSso, NewSsoRow, NoRequest
<1>10. ASSUME NEW b \in Browser, Record(b) PROVE Links'
  BY <1>10 DEF Record, NoRequest
<1>11. ASSUME NEW b \in Browser, Enter(b) PROVE Links'
  BY <1>11 DEF Enter, NoRequest
<1>12. ASSUME NEW i \in Id, Delete(i) PROVE Links'
  BY <1>12 DEF Delete, OnAccount
<1>13. ASSUME NEW i \in Id, NEW p \in Person, BeginLink(i, p) PROVE Links'
  <2>1. PICK S \in SUBSET Live :
          /\ linking' = [to |-> i, from |-> FirstOf(S), person |-> p]
          /\ \A j \in S : users[j].source = "sso"
    <3> DEFINE E == {j \in Live : users[j].source = "sso" /\ users[j].email = p}
               N == {j \in Live : users[j].source = "sso" /\ users[j].sub = p}
    <3>1. \/ linking' = [to |-> i, from |-> FirstOf(E), person |-> p]
          \/ linking' = [to |-> i, from |-> FirstOf(N), person |-> p]
      BY <1>13 DEF BeginLink
    <3>2. /\ E \in SUBSET Live /\ \A j \in E : users[j].source = "sso"
          /\ N \in SUBSET Live /\ \A j \in N : users[j].source = "sso"
      OBVIOUS
    <3> HIDE DEF E, N, Live
    <3> QED BY <3>1, <3>2
  <2>2. FirstOf(S) \in S \cup {None}
    BY FirstOfFacts DEF Live
  <2>3. FirstOf(S) # i
    BY <1>13, <2>1, <2>2 DEF BeginLink, Id
  <2> QED BY <1>13, <2>1, <2>3 DEF BeginLink
<1>14. ASSUME SetLink PROVE Links'
  BY <1>14 DEF SetLink
<1>15. ASSUME MoveIdentity PROVE Links'
  BY <1>15 DEF MoveIdentity, OnAccount, Bumped
<1>16. ASSUME NEW i \in Id, Unlink(i) PROVE Links'
  BY <1>16 DEF Unlink, OnAccount, Bumped
<1>17. ASSUME NEW p \in Person, NEW g \in {"none", "users", "admins"}, Regroup(p, g)
       PROVE  Links'
  BY <1>17 DEF Regroup
<1>18. ASSUME Tick PROVE Links'
  BY <1>18 DEF Tick
<1>19. ASSUME UNCHANGED vars PROVE Links'
  BY <1>19 DEF vars
<1> HIDE DEF Goto, rows, world, session, IInv, TypeOK, Links, Ids, Live, Row, Link
<1> QED
  BY <1>1, <1>2, <1>3, <1>4, <1>5, <1>6, <1>7, <1>8, <1>9, <1>10, <1>11, <1>12, <1>13,
       <1>14, <1>15, <1>16, <1>17, <1>18, <1>19
  DEF Next, Idle

LEMMA OneStep ==
    IInv /\ [Next]_vars => OneAccountEach'
<1> SUFFICES ASSUME IInv, [Next]_vars PROVE OneAccountEach'
  OBVIOUS
<1> USE NoneAssumption, BoundAssumption DEF Goto, rows, world, session, IInv,
     OneAccountEach, TypeOK, Ids, Links, Live, Row, Link, Requests, SigningIn, WithSub
<1>1. ASSUME NEW b \in Browser, Expire(b) PROVE OneAccountEach'
  BY <1>1 DEF Expire, NoCookie
<1>2. ASSUME NEW b \in Browser, Logout(b) PROVE OneAccountEach'
  BY <1>2 DEF Logout, NoCookie
<1>3. ASSUME NEW b \in Browser, NEW i \in Id, PasswordLogin(b, i) PROVE OneAccountEach'
  BY <1>3 DEF PasswordLogin
<1>4. ASSUME NEW b \in Browser, AskPassword(b) PROVE OneAccountEach'
  BY <1>4 DEF AskPassword
<1>5. ASSUME NEW b \in Browser, ChangePassword(b) PROVE OneAccountEach'
  BY <1>5 DEF ChangePassword, OnAccount, Bumped
<1>6. ASSUME NEW b \in Browser, Reissue(b) PROVE OneAccountEach'
  BY <1>6 DEF Reissue
<1>7. ASSUME NEW b \in Browser, NEW p \in Person, Begin(b, p) PROVE OneAccountEach'
  BY <1>7 DEF Begin
<1>8. ASSUME NEW b \in Browser, FindByLink(b) PROVE OneAccountEach'
  BY <1>8 DEF FindByLink
<1>9. ASSUME NEW b \in Browser, CreateSso(b) PROVE OneAccountEach'
  <2> DEFINE R == NewSsoRow(req[b].person, req[b].name)
  <2>1. CASE users' = users
    BY <2>1
  <2>2. CASE /\ users' = [users EXCEPT ![nextId] = R]
             /\ \A i \in Live : users[i].sub # req[b].person
    <3>1. R.sub = req[b].person /\ R.sub # None
      BY <1>9, NoneAssumption DEF CreateSso, NewSsoRow
    <3>2. /\ Live' \subseteq Live \cup {nextId}
          /\ \A i \in Live' : users'[i] = IF i = nextId THEN R ELSE users[i]
      <4> users \in [Id -> Row \cup {None}]
        OBVIOUS
      <4> HIDE DEF IInv, TypeOK, R, Row
      <4> QED BY <2>2
    <3>3. OneAccountEach
      OBVIOUS
    <3> HIDE DEF IInv, TypeOK, R, Live, Row, Ids, Links, Requests
    <3> QED BY <2>2, <3>1, <3>2, <3>3
  <2> QED BY <1>9, <2>1, <2>2 DEF CreateSso
<1>10. ASSUME NEW b \in Browser, Record(b) PROVE OneAccountEach'
  <2> DEFINE i == req[b].found  p == req[b].person
  <2>1. /\ pc[b] = "recording" /\ Live' \subseteq Live
        /\ \A j \in Live \ {i} : users'[j] = users[j]
        /\ i \in Live => \/ users' = users
                         \/ /\ users'[i].sub = p /\ users'[i].source = users[i].source
                            /\ WithSub(p) \subseteq {i}
    <3> HIDE DEF TypeOK, OneAccountEach, Ids, Links, Live, Requests, WithSub
    <3> QED BY <1>10, RecordFacts
  <2>2. p \in Person /\ None \notin Person /\ OneAccountEach
    <3> HIDE DEF TypeOK, OneAccountEach, Ids, Links, Live, Row
    <3> QED BY <2>1
  <2> HIDE DEF IInv, TypeOK, Ids, Links, Live, Row, Link, Requests, i, p
  <2>3. CASE i \notin Live \/ users' = users
    BY <2>1, <2>2, <2>3
  <2>4. CASE /\ i \in Live /\ users'[i].sub = p /\ users'[i].source = users[i].source
             /\ WithSub(p) \subseteq {i}
    BY <2>1, <2>2, <2>4
  <2> QED BY <2>1, <2>3, <2>4
<1>11. ASSUME NEW b \in Browser, Enter(b) PROVE OneAccountEach'
  BY <1>11 DEF Enter, NoRequest
<1>12. ASSUME NEW i \in Id, Delete(i) PROVE OneAccountEach'
  BY <1>12 DEF Delete, OnAccount
<1>13. ASSUME NEW i \in Id, NEW p \in Person, BeginLink(i, p) PROVE OneAccountEach'
  BY <1>13 DEF BeginLink
<1>14. ASSUME SetLink PROVE OneAccountEach'
  BY <1>14 DEF SetLink
<1>15. ASSUME MoveIdentity PROVE OneAccountEach'
  <2> DEFINE from == linking.from  to == linking.to
  <2>1. CASE from \in Live
    <3>1. /\ Live' \subseteq Live \ {from}
          /\ \A i \in Live' \ {to} : users'[i] = users[i]
          /\ to \in Live' => /\ users'[to].source = "local"
                             /\ users'[to].sub = users[from].sub
      BY <1>15, <2>1, MoveFacts DEF MoveIdentity
    <3>2. \A i \in Live' : users'[i].sub # None =>
            \E j \in Live : users[j].sub = users'[i].sub /\ j = IF i = to THEN from ELSE i
      BY <2>1, <3>1
    <3> QED BY <2>1, <3>1, <3>2
  <2>2. CASE from \notin Live
    BY <1>15, <2>2 DEF MoveIdentity
  <2> QED BY <2>1, <2>2
<1>16. ASSUME NEW i \in Id, Unlink(i) PROVE OneAccountEach'
  BY <1>16 DEF Unlink, OnAccount, Bumped
<1>17. ASSUME NEW p \in Person, NEW g \in {"none", "users", "admins"}, Regroup(p, g)
       PROVE  OneAccountEach'
  BY <1>17 DEF Regroup
<1>18. ASSUME Tick PROVE OneAccountEach'
  BY <1>18 DEF Tick
<1>19. ASSUME UNCHANGED vars PROVE OneAccountEach'
  BY <1>19 DEF vars
<1> HIDE DEF Goto, rows, world, session, IInv, OneAccountEach, TypeOK, Ids, Links, Live,
     Row, Link, Requests, SigningIn, WithSub
<1> QED
  BY <1>1, <1>2, <1>3, <1>4, <1>5, <1>6, <1>7, <1>8, <1>9, <1>10, <1>11, <1>12, <1>13,
       <1>14, <1>15, <1>16, <1>17, <1>18, <1>19
  DEF Next, Idle

LEMMA VersionsStep ==
    IInv /\ [Next]_vars => Versions'
<1> SUFFICES ASSUME IInv, [Next]_vars PROVE Versions'
  OBVIOUS
<1> USE NoneAssumption, BoundAssumption DEF Goto, rows, world, session, IInv, Versions,
     TypeOK, Ids, Live, Row, Link, Cookie, Requests
<1>1. ASSUME NEW b \in Browser, Expire(b) PROVE Versions'
  BY <1>1 DEF Expire, NoCookie
<1>2. ASSUME NEW b \in Browser, Logout(b) PROVE Versions'
  BY <1>2 DEF Logout, NoCookie
<1>3. ASSUME NEW b \in Browser, NEW i \in Id, PasswordLogin(b, i) PROVE Versions'
  BY <1>3 DEF PasswordLogin
<1>4. ASSUME NEW b \in Browser, AskPassword(b) PROVE Versions'
  BY <1>4 DEF AskPassword
<1>5. ASSUME NEW b \in Browser, ChangePassword(b) PROVE Versions'
  BY <1>5 DEF ChangePassword, OnAccount, Bumped
<1>6. ASSUME NEW b \in Browser, Reissue(b) PROVE Versions'
  <2>1. UNCHANGED users /\ ended' \subseteq ended
        /\ \A c \in Browser \ {b} : cookie'[c] = cookie[c]
    BY <1>6 DEF Reissue
  <2>2. cookie[b].id \in Live =>
          /\ cookie' = [cookie EXCEPT ![b].version = users[cookie[b].id].version]
          /\ b \notin ended'
    BY <1>6 DEF Reissue
  <2>3. cookie[b].id \in Live =>
          cookie'[b].id = cookie[b].id /\ cookie'[b].version = users[cookie[b].id].version
    BY <2>2
  <2>4. cookie[b].id \notin Live => cookie' = cookie
    BY <1>6 DEF Reissue
  <2> QED BY <2>1, <2>2, <2>3, <2>4
<1>7. ASSUME NEW b \in Browser, NEW p \in Person, Begin(b, p) PROVE Versions'
  BY <1>7 DEF Begin
<1>8. ASSUME NEW b \in Browser, FindByLink(b) PROVE Versions'
  BY <1>8 DEF FindByLink
<1>9. ASSUME NEW b \in Browser, CreateSso(b) PROVE Versions'
  BY <1>9 DEF CreateSso, NewSsoRow, NoRequest
<1>10. ASSUME NEW b \in Browser, Record(b) PROVE Versions'
  BY <1>10 DEF Record, NoRequest
<1>11. ASSUME NEW b \in Browser, Enter(b) PROVE Versions'
  BY <1>11 DEF Enter, NoRequest
<1>12. ASSUME NEW i \in Id, Delete(i) PROVE Versions'
  BY <1>12 DEF Delete, OnAccount
<1>13. ASSUME NEW i \in Id, NEW p \in Person, BeginLink(i, p) PROVE Versions'
  BY <1>13 DEF BeginLink
<1>14. ASSUME SetLink PROVE Versions'
  BY <1>14 DEF SetLink
<1>15. ASSUME MoveIdentity PROVE Versions'
  <2> DEFINE from == linking.from  to == linking.to
  <2>1. CASE from \in Live
    <3>1. /\ Live' \subseteq Live \ {from} /\ cookie' = cookie
          /\ \A j \in Live' \ {to} : users'[j] = users[j]
          /\ to \in Live' => users'[to].version = users[to].version + 1
          /\ ended' = ended
      BY <1>15, <2>1, MoveFacts DEF MoveIdentity
    <3> QED BY <2>1, <3>1
  <2>2. CASE from \notin Live
    BY <1>15, <2>2 DEF MoveIdentity
  <2> QED BY <2>1, <2>2
<1>16. ASSUME NEW i \in Id, Unlink(i) PROVE Versions'
  BY <1>16 DEF Unlink, OnAccount, Bumped
<1>17. ASSUME NEW p \in Person, NEW g \in {"none", "users", "admins"}, Regroup(p, g)
       PROVE  Versions'
  BY <1>17 DEF Regroup
<1>18. ASSUME Tick PROVE Versions'
  BY <1>18 DEF Tick
<1>19. ASSUME UNCHANGED vars PROVE Versions'
  BY <1>19 DEF vars
<1> HIDE DEF Goto, rows, world, session, IInv, Versions, TypeOK, Ids, Live, Row, Link,
     Cookie, Requests
<1> QED
  BY <1>1, <1>2, <1>3, <1>4, <1>5, <1>6, <1>7, <1>8, <1>9, <1>10, <1>11, <1>12, <1>13,
       <1>14, <1>15, <1>16, <1>17, <1>18, <1>19
  DEF Next, Idle

-----------------------------------------------------------------------------
(* Room for what requests under way may still do. *)

LEMMA Fewer ==
    ASSUME NEW S, IsFiniteSet(S), NEW T, T \subseteq S
    PROVE  /\ IsFiniteSet(T) /\ Cardinality(T) <= Cardinality(S)
           /\ Cardinality(T) \in Nat /\ Cardinality(S) \in Nat
BY FS_Subset, FS_CardinalityType

LEMMA RowRoomStep ==
    IInv /\ TypeOK' /\ [Next]_vars =>
        (IsFiniteSet(Making) /\ nextId + Cardinality(Making) <= MaxId + 1)'
<1> DEFINE Fits == IsFiniteSet(Making) /\ nextId + Cardinality(Making) <= MaxId + 1
<1> SUFFICES ASSUME IInv, TypeOK', [Next]_vars PROVE Fits'
  OBVIOUS
<1>0. /\ Fits /\ nextId \in Nat /\ nextId' \in Nat /\ MaxId \in Nat
      /\ pc \in [Browser -> Labels]
  BY BoundAssumption DEF IInv, Room, TypeOK
<1>1. ASSUME NEW b \in Browser, NEW p \in Person, Begin(b, p) PROVE Fits'
  <2>1. CASE WithSub(p) = {}
    <3>1. Making' = Making \cup {b} /\ b \notin Making /\ nextId' = nextId
      BY <1>0, <1>1, <2>1 DEF Begin, Making, Goto, rows
    <3>2. nextId + Cardinality(Making) <= MaxId
      BY <1>1, <2>1 DEF Begin, RoomForRow
    <3> HIDE DEF Making
    <3>3. Cardinality(Making') = Cardinality(Making) + 1 /\ IsFiniteSet(Making')
      BY <1>0, <3>1, FS_AddElement
    <3> QED BY <1>0, <3>1, <3>2, <3>3, FS_CardinalityType
  <2>2. CASE WithSub(p) # {}
    <3>1. Making' \subseteq Making /\ nextId' = nextId
      BY <1>0, <1>1, <2>2 DEF Begin, Making, Goto, rows
    <3> QED BY <1>0, <3>1, Fewer
  <2> QED BY <2>1, <2>2
<1>2. ASSUME NEW b \in Browser, CreateSso(b) PROVE Fits'
  <2>1. Making' \subseteq Making \ {b} /\ b \in Making /\ nextId' <= nextId + 1
    BY <1>0, <1>2 DEF CreateSso, Making, Goto, rows
  <2>2. IsFiniteSet(Making \ {b}) /\ Cardinality(Making \ {b}) = Cardinality(Making) - 1
    BY <1>0, <2>1, FS_RemoveElement
  <2>3. /\ IsFiniteSet(Making') /\ Cardinality(Making') <= Cardinality(Making \ {b})
        /\ Cardinality(Making') \in Nat /\ Cardinality(Making \ {b}) \in Nat
    BY <2>1, <2>2, Fewer
  <2> QED BY <1>0, <2>1, <2>2, <2>3, FS_CardinalityType
<1>3. CASE Making' \subseteq Making /\ nextId' = nextId
  BY <1>0, <1>3, Fewer
<1>4. ASSUME NEW b \in Browser,
             \/ Expire(b) \/ Logout(b) \/ AskPassword(b) \/ ChangePassword(b) \/ Reissue(b)
             \/ FindByLink(b) \/ Record(b) \/ Enter(b) \/ \E i \in Id : PasswordLogin(b, i)
      PROVE Making' \subseteq Making /\ nextId' = nextId
  BY <1>0, <1>4 DEF Expire, Logout, AskPassword, ChangePassword, Reissue, FindByLink,
        Record, Enter, PasswordLogin, Making, Goto, rows
<1>5. ASSUME \/ SetLink \/ MoveIdentity \/ Tick \/ UNCHANGED vars
             \/ \E i \in Id : Delete(i) \/ Unlink(i) \/ \E p \in Person : BeginLink(i, p)
             \/ \E p \in Person, g \in {"none", "users", "admins"} : Regroup(p, g)
      PROVE Making' \subseteq Making /\ nextId' = nextId
  BY <1>5 DEF SetLink, MoveIdentity, Tick, Delete, Unlink, BeginLink, Regroup, Making,
        rows, vars
<1> QED BY <1>1, <1>2, <1>3, <1>4, <1>5 DEF Next, Idle

\* c does not start to change a password in this step.
NoNewBump(c) == pc'[c] = "changing" => pc[c] = "changing" /\ cookie'[c] = cookie[c]

Fitting(i) == IsFiniteSet(Bumping(i)) /\
    users[i].version + Cardinality(Bumping(i)) + Owed(i) <= MaxVersion

\* Account i has room when no more is owed to it than before.
LEMMA NoMoreOwed ==
    ASSUME IInv, NEW i \in Live, users'[i].version \in Nat, Bumping(i)' \subseteq Bumping(i),
           users'[i].version + Owed(i)' <= users[i].version + Owed(i)
    PROVE  Fitting(i)'
<1>1. Fitting(i) /\ users[i].version \in Nat /\ MaxVersion \in Nat
  BY BoundAssumption DEF IInv, Room, Fitting, TypeOK, Live, Row
<1>2. /\ IsFiniteSet(Bumping(i)') /\ Cardinality(Bumping(i)') <= Cardinality(Bumping(i))
      /\ Cardinality(Bumping(i)') \in Nat /\ Cardinality(Bumping(i)) \in Nat
  BY <1>1, Fewer DEF Fitting
<1>3. Owed(i) \in {0, 1} /\ Owed(i)' \in {0, 1}
  BY DEF Owed
<1> HIDE DEF Owed, Bumping
<1> QED BY <1>1, <1>2, <1>3 DEF Fitting

\* One change more fits where MayBump says so.
LEMMA OneMore ==
    ASSUME IInv, NEW i \in Live, MayBump(i)
    PROVE  /\ users[i].version + Cardinality(Bumping(i)) + Owed(i) + 1 <= MaxVersion
           /\ Cardinality(Bumping(i)) \in Nat /\ IsFiniteSet(Bumping(i))
<1>1. Fitting(i) /\ users[i].version \in Nat /\ MaxVersion \in Nat /\ regroups \in Nat
  BY BoundAssumption DEF IInv, Room, Fitting, TypeOK, Live, Row
<1>2. Cardinality(Bumping(i)) \in Nat
  BY <1>1, FS_CardinalityType DEF Fitting
<1>3. Owed(i) \in {0, 1}
  BY DEF Owed
<1> HIDE DEF Bumping
<1> QED BY <1>1, <1>2, <1>3 DEF Fitting, MayBump, Spent, Owed

LEMMA BumpRoomStep ==
    IInv /\ TypeOK' /\ [Next]_vars => \A i \in Live' : Fitting(i)'
<1> SUFFICES ASSUME IInv, TypeOK', [Next]_vars, NEW i \in Live' PROVE Fitting(i)'
  OBVIOUS
<1> USE DEF NoNewBump
<1>0. /\ i \in Id /\ users'[i].version \in Nat /\ MaxVersion \in Nat
      /\ pc \in [Browser -> Labels]
      /\ users \in [Id -> Row \cup {None}] /\ cookie \in [Browser -> Cookie]
      /\ i \in Live => users[i] \in Row /\ users[i].version \in Nat
  BY BoundAssumption DEF TypeOK, IInv, Live, Row
<1>1. ASSUME NEW b \in Browser, AskPassword(b) PROVE Fitting(i)'
  <2>1. UNCHANGED <<users, linking>> /\ i \in Live
    BY <1>1 DEF AskPassword, rows, Live
  <2>2. CASE cookie[b].id = i
    <3>1. MayBump(i) /\ b \notin Bumping(i) /\ Bumping(i)' = Bumping(i) \cup {b}
      BY <1>0, <1>1, <2>2 DEF AskPassword, Bumping, Goto, session
    <3>2. /\ users[i].version + Cardinality(Bumping(i)) + Owed(i) + 1 <= MaxVersion
          /\ Cardinality(Bumping(i)) \in Nat /\ IsFiniteSet(Bumping(i))
      BY <2>1, <3>1, OneMore
    <3>3. /\ Cardinality(Bumping(i)') = Cardinality(Bumping(i)) + 1
          /\ IsFiniteSet(Bumping(i)')
      BY <3>1, <3>2, FS_AddElement
    <3>4. Owed(i) \in {0, 1} /\ Owed(i)' = Owed(i)
      BY <2>1 DEF Owed
    <3> HIDE DEF Bumping, Owed
    <3> QED BY <1>0, <2>1, <3>2, <3>3, <3>4 DEF Fitting
  <2>3. CASE cookie[b].id # i
    <3>1. Bumping(i)' \subseteq Bumping(i) /\ Owed(i)' = Owed(i) /\ Owed(i) \in {0, 1}
      BY <1>0, <1>1, <2>1, <2>3 DEF AskPassword, Bumping, Goto, session, Owed
    <3> QED BY <1>0, <2>1, <3>1, NoMoreOwed
  <2> QED BY <2>2, <2>3
<1>2. ASSUME NEW b \in Browser, ChangePassword(b) PROVE Fitting(i)'
  <2>1. i \in Live /\ linking' = linking /\ cookie' = cookie
    BY <1>0, <1>2 DEF ChangePassword, Live
  <2>2. CASE cookie[b].id = i
    <3>1. users'[i].version = users[i].version + 1
      BY <1>0, <1>2, <2>1, <2>2 DEF ChangePassword, Bumped, Row
    <3>2. b \in Bumping(i) /\ Bumping(i)' \subseteq Bumping(i) \ {b}
      BY <1>0, <1>2, <2>1, <2>2 DEF ChangePassword, Bumping, Goto
    <3>3. Fitting(i)
      BY <2>1 DEF IInv, Room, Fitting
    <3>4. /\ IsFiniteSet(Bumping(i) \ {b}) /\ Cardinality(Bumping(i)) \in Nat
          /\ Cardinality(Bumping(i) \ {b}) = Cardinality(Bumping(i)) - 1
      BY <3>2, <3>3, FS_RemoveElement, FS_CardinalityType DEF Fitting
    <3>5. /\ IsFiniteSet(Bumping(i)') /\ Cardinality(Bumping(i)') \in Nat
          /\ Cardinality(Bumping(i)') <= Cardinality(Bumping(i)) - 1
      BY <3>2, <3>4, Fewer
    <3>6. Owed(i) \in {0, 1} /\ Owed(i)' = Owed(i)
      BY <2>1 DEF Owed
    <3> HIDE DEF Bumping, Owed
    <3> QED BY <1>0, <2>1, <3>1, <3>3, <3>4, <3>5, <3>6 DEF Fitting
  <2>3. CASE cookie[b].id # i
    <3>1. Bumping(i)' \subseteq Bumping(i) /\ users'[i] = users[i]
      BY <1>0, <1>2, <2>1, <2>3 DEF ChangePassword, Bumping, Goto
    <3>2. Owed(i)' = Owed(i) /\ Owed(i) \in {0, 1}
      BY <2>1 DEF Owed
    <3> QED BY <1>0, <2>1, <3>1, <3>2, NoMoreOwed
  <2> QED BY <2>2, <2>3
<1>3. ASSUME NEW j \in Id, NEW p \in Person, BeginLink(j, p) PROVE Fitting(i)'
  <2>1. /\ UNCHANGED <<users, pc, cookie>> /\ i \in Live /\ MayBump(j)
        /\ linking = None /\ \E f : linking' = [to |-> j, from |-> f, person |-> p]
    BY <1>3 DEF BeginLink, rows, session, Live
  <2>2. Owed(i) = 0 /\ Owed(i)' \in {0, 1} /\ (Owed(i)' = 1 => i = j)
    BY <2>1 DEF Owed
  <2>3. Bumping(i)' = Bumping(i)
    BY <2>1 DEF Bumping
  <2>4. CASE Owed(i)' = 1
    <3>1. /\ users[i].version + Cardinality(Bumping(i)) + Owed(i) + 1 <= MaxVersion
          /\ Cardinality(Bumping(i)) \in Nat /\ IsFiniteSet(Bumping(i))
      BY <2>1, <2>2, <2>4, OneMore
    <3> HIDE DEF Bumping, Owed
    <3> QED BY <1>0, <2>1, <2>2, <2>3, <2>4, <3>1 DEF Fitting
  <2>5. CASE Owed(i)' = 0
    BY <1>0, <2>1, <2>2, <2>3, <2>5, NoMoreOwed
  <2> QED BY <2>2, <2>4, <2>5
<1>4. ASSUME NEW j \in Id, Unlink(j) PROVE Fitting(i)'
  <2>1. UNCHANGED <<linking, pc, cookie>> /\ i \in Live
    BY <1>4 DEF Unlink, Live
  <2>2. Bumping(i)' = Bumping(i) /\ Owed(i)' = Owed(i) /\ Owed(i) \in {0, 1}
    BY <2>1 DEF Bumping, Owed
  <2>3. CASE i = j
    <3>1. /\ users[i].version + Cardinality(Bumping(i)) + Owed(i) + 1 <= MaxVersion
          /\ Cardinality(Bumping(i)) \in Nat /\ IsFiniteSet(Bumping(i))
      BY <1>4, <2>1, <2>3, OneMore DEF Unlink
    <3>2. users'[i].version = users[i].version + 1
      BY <1>0, <1>4, <2>1, <2>3 DEF Unlink, Bumped, Row
    <3> HIDE DEF Bumping, Owed
    <3> QED BY <1>0, <2>1, <2>2, <3>1, <3>2 DEF Fitting
  <2>4. CASE i # j
    <3>1. users'[i] = users[i]
      BY <1>0, <1>4, <2>4 DEF Unlink
    <3> QED BY <1>0, <2>1, <2>2, <3>1, NoMoreOwed
  <2> QED BY <2>3, <2>4
<1>5. CASE MoveIdentity
  <2>1. UNCHANGED <<pc, cookie>> /\ linking' = None /\ linking # None
    BY <1>5 DEF MoveIdentity
  <2>2. Bumping(i)' = Bumping(i) /\ Owed(i)' = 0 /\ Owed(i) \in {0, 1}
    BY <2>1 DEF Bumping, Owed
  <2>3. i \in Live /\ users'[i].version <= users[i].version + Owed(i)
    <3>1. CASE linking.from \in Live
      <4>1. i \in Live /\ (i # linking.to => users'[i] = users[i])
        BY <1>5, <3>1, MoveFacts DEF IInv
      <4>2. i = linking.to => users'[i].version = users[i].version + 1 /\ Owed(i) = 1
        BY <1>5, <2>1, <3>1, MoveFacts DEF IInv, Owed
      <4> HIDE DEF Owed
      <4> QED BY <1>0, <2>2, <4>1, <4>2
    <3>2. CASE linking.from \notin Live
      BY <1>0, <1>5, <2>2, <3>2 DEF MoveIdentity, Live
    <3> QED BY <3>1, <3>2
  <2> HIDE DEF Owed, Bumping
  <2> QED BY <1>0, <2>2, <2>3, NoMoreOwed
<1>6. ASSUME NEW b \in Browser, CreateSso(b) PROVE Fitting(i)'
  <2>1. /\ UNCHANGED <<cookie, linking>>
        /\ \A c \in Browser : pc'[c] = "changing" => pc[c] = "changing"
    BY <1>0, <1>6 DEF CreateSso, session, Goto
  <2>2. Bumping(i)' \subseteq Bumping(i) /\ Owed(i)' = Owed(i) /\ Owed(i) \in {0, 1}
    BY <2>1 DEF Bumping, Owed
  <2>3. CASE users'[i] = users[i]
    <3>1. i \in Live
      BY <2>3 DEF Live
    <3> QED BY <1>0, <2>2, <2>3, <3>1, NoMoreOwed
  <2>4. CASE i = nextId /\ users'[i].version = 0
    <3>1. Bumping(i)' = {} /\ Owed(i)' = 0
      BY <1>0, <2>1, <2>4, NoneAssumption DEF Bumping, Owed, IInv, Ids, TypeOK, Link, Id
    <3>2. IsFiniteSet({}) /\ Cardinality({}) = 0
      BY FS_EmptySet
    <3> HIDE DEF Bumping, Owed
    <3> QED BY <1>0, <2>4, <3>1, <3>2 DEF Fitting
  <2>5. users'[i] = users[i] \/ (i = nextId /\ users'[i].version = 0)
    <3>1. \/ users' = users
          \/ users' = [users EXCEPT ![nextId] = NewSsoRow(req[b].person, req[b].name)]
      BY <1>6 DEF CreateSso, rows
    <3>2. NewSsoRow(req[b].person, req[b].name).version = 0
      BY DEF NewSsoRow
    <3> QED BY <1>0, <3>1, <3>2
  <2> QED BY <2>3, <2>4, <2>5
<1>7. CASE /\ i \in Live /\ users'[i].version = users[i].version
           /\ linking' \in {linking, None}
           /\ \A c \in Browser : NoNewBump(c)
  <2>1. /\ Bumping(i)' \subseteq Bumping(i) /\ Owed(i)' <= Owed(i)
        /\ Owed(i) \in {0, 1} /\ Owed(i)' \in {0, 1}
    BY <1>7 DEF Bumping, Owed
  <2> HIDE DEF Owed, Bumping
  <2> QED BY <1>0, <1>7, <2>1, NoMoreOwed
<1>8. ASSUME NEW b \in Browser,
             \/ Expire(b) \/ Logout(b) \/ Reissue(b) \/ FindByLink(b) \/ Enter(b)
             \/ \E j \in Id : PasswordLogin(b, j)
             \/ \E p \in Person : Begin(b, p)
      PROVE /\ UNCHANGED <<users, linking>>
            /\ \A c \in Browser : NoNewBump(c)
  BY <1>0, <1>8 DEF Expire, Logout, Reissue, FindByLink, Enter, PasswordLogin, Begin,
       rows,
        Goto, session
<1>9. ASSUME NEW b \in Browser, Record(b)
      PROVE /\ i \in Live /\ users'[i].version = users[i].version
            /\ linking' = linking
            /\ \A c \in Browser : NoNewBump(c)
  <2>1. i \in Live /\ UNCHANGED <<linking, cookie>>
    BY <1>0, <1>9 DEF Record, session, Live
  <2>2. \A c \in Browser : pc'[c] = "changing" => pc[c] = "changing"
    BY <1>0, <1>9 DEF Record, Goto
  <2>3. users'[i].version = users[i].version
    BY <1>9, <2>1, RecordFacts
  <2> QED BY <2>1, <2>2, <2>3
<1>10. CASE SetLink
  <2>1. i \in Live /\ UNCHANGED <<pc, cookie>> /\ linking' = None
    BY <1>0, <1>10 DEF SetLink, session, Live
  <2>2. users'[i].version = users[i].version
    BY <1>0, <1>10, <2>1 DEF SetLink, Row
  <2> QED BY <1>7, <2>1, <2>2
<1>11. ASSUME \/ Tick \/ UNCHANGED vars \/ \E j \in Id : Delete(j)
              \/ \E p \in Person, g \in {"none", "users", "admins"} : Regroup(p, g)
       PROVE  i \in Live /\ users'[i] = users[i] /\ UNCHANGED <<linking, pc, cookie>>
  BY <1>0, <1>11 DEF Tick, vars, Delete, Regroup, rows, session, Live
<1>12. ASSUME UNCHANGED users PROVE i \in Live
  BY <1>12 DEF Live
<1> HIDE DEF NoNewBump
<1>13. ASSUME i \in Live, users'[i].version = users[i].version,
              linking' \in {linking, None}, \A c \in Browser : NoNewBump(c)
       PROVE  Fitting(i)'
  BY <1>7, <1>13
<1>14. ASSUME NEW b \in Browser,
              \/ Expire(b) \/ Logout(b) \/ Reissue(b) \/ FindByLink(b)
              \/ Enter(b) \/ Record(b)
              \/ \E j \in Id : PasswordLogin(b, j)
              \/ \E p \in Person : Begin(b, p)
       PROVE  Fitting(i)'
  BY <1>8, <1>9, <1>12, <1>13, <1>14
<1>15. CASE \/ Tick \/ UNCHANGED vars \/ \E j \in Id : Delete(j)
            \/ \E p \in Person, g \in {"none", "users", "admins"} : Regroup(p, g)
  BY <1>11, <1>13, <1>15 DEF NoNewBump
<1>16. ASSUME NEW b \in Browser,
              \/ Expire(b) \/ Logout(b) \/ AskPassword(b) \/ ChangePassword(b) \/ Reissue(b)
              \/ FindByLink(b) \/ CreateSso(b) \/ Record(b) \/ Enter(b)
              \/ \E j \in Id : PasswordLogin(b, j)
              \/ \E p \in Person : Begin(b, p)
       PROVE  Fitting(i)'
  BY <1>1, <1>2, <1>6, <1>14, <1>16
<1>17. CASE \E j \in Id : Delete(j) \/ Unlink(j) \/ \E p \in Person : BeginLink(j, p)
  BY <1>3, <1>4, <1>15, <1>17
<1>18. CASE Idle
  BY <1>15, <1>18 DEF Idle
<1> HIDE DEF IInv, TypeOK, Fitting, Live, vars
<1> QED
  BY <1>5, <1>10, <1>15, <1>16, <1>17, <1>18 DEF Next

LEMMA NextIInv ==
    IInv /\ [Next]_vars => IInv'
<1> SUFFICES ASSUME IInv, [Next]_vars PROVE IInv'
  OBVIOUS
<1>1. TypeOK'
  BY TypeStep DEF IInv
<1>2. Room'
  BY <1>1, RowRoomStep, BumpRoomStep DEF Room, Fitting
<1> QED BY <1>1, <1>2, IdsStep, RequestsStep, LinksStep, OneStep, VersionsStep DEF IInv

LEMMA AlwaysIInv == Spec => []IInv
BY InitIInv, NextIInv, PTL DEF Spec

-----------------------------------------------------------------------------
(* While links are not changed under a sign-in. *)

\* What a sign-in that starts, and one that looks for its account, holds.
LEMMA BeginFacts ==
    ASSUME IInv, NEW b \in Browser, NEW p \in Person, Begin(b, p)
    PROVE  /\ UNCHANGED <<users, cookie, by, ended, linking, groups, now, left>>
           /\ groups[p] # "none" /\ (Prompt => linking = None)
           /\ \A c \in Browser \ {b} : req'[c] = req[c] /\ pc'[c] = pc[c]
           /\ req'[b].person = p /\ (req'[b].admin => groups[p] = "admins")
           /\ pc'[b] \in {"linking", "recording"} /\ pc[b] = "idle"
           /\ pc'[b] = "recording" => req'[b].found \in WithSub(p)
<1>1. PICK mail \in Mails[p] :
        req' = [req EXCEPT ![b] =
                  [person |-> p, mail |-> mail, admin |-> groups[p] = "admins",
                   found |-> FirstOf(WithSub(p)), name |-> 0]]
  BY DEF Begin
<1>2. WithSub(p) # {} => FirstOf(WithSub(p)) \in WithSub(p)
  BY FirstOfFacts DEF WithSub, Live
<1> HIDE DEF WithSub
<1> QED BY <1>1, <1>2 DEF Begin, Goto, IInv, TypeOK, rows, session, world

LEMMA FindByLinkFacts ==
    ASSUME IInv, NEW b \in Browser, FindByLink(b)
    PROVE  /\ UNCHANGED <<users, cookie, by, ended, linking, groups, now, left>>
           /\ \A c \in Browser \ {b} : req'[c] = req[c] /\ pc'[c] = pc[c]
           /\ req'[b].person = req[b].person /\ req'[b].admin = req[b].admin
           /\ pc'[b] \in {"creating", "recording"} /\ pc[b] = "linking"
           /\ pc'[b] = "recording" => req'[b].found \in Waiting(req[b].person)
<1> DEFINE W == IF req[b].mail = "verified" THEN Waiting(req[b].person) ELSE {}
<1>1. W # {} => FirstOf(W) \in W
  BY FirstOfFacts DEF Waiting, Live
<1>2. req[b] \in Request
  BY DEF IInv, TypeOK
<1>3. CASE /\ W # {} /\ req' = [req EXCEPT ![b].found = FirstOf(W)]
           /\ pc' = [pc EXCEPT ![b] = "recording"]
  <2>1. req'[b] = [req[b] EXCEPT !.found = FirstOf(W)]
    BY <1>3 DEF IInv, TypeOK
  <2>2. req'[b].person = req[b].person /\ req'[b].admin = req[b].admin
        /\ req'[b].found = FirstOf(W)
    BY <1>2, <2>1 DEF Request
  <2>3. FirstOf(W) \in Waiting(req[b].person)
    BY <1>1, <1>3
  <2> HIDE DEF W
  <2> QED BY <1>3, <2>2, <2>3 DEF FindByLink, IInv, TypeOK, rows, session, world
<1>4. CASE req' = [req EXCEPT ![b].name = FreeName] /\ pc' = [pc EXCEPT ![b] = "creating"]
  BY <1>2, <1>4 DEF FindByLink, IInv, TypeOK, rows, session, world, Request
<1> QED BY <1>3, <1>4 DEF FindByLink, Goto

\* create_sso succeeds: the new account has the person's subject id.
LEMMA CreateSsoFacts ==
    ASSUME IInv, NEW b \in Browser, CreateSso(b)
    PROVE  /\ UNCHANGED <<cookie, by, ended, linking, groups, now, left>>
           /\ \A c \in Browser \ {b} : req'[c] = req[c] /\ pc'[c] = pc[c]
           /\ \A i \in Live' : i < nextId => i \in Live /\ users'[i] = users[i]
           /\ pc[b] = "creating" /\ pc'[b] \in {"idle", "recording"}
           /\ pc'[b] = "recording" =>
                /\ req'[b].person = req[b].person /\ req'[b].admin = req[b].admin
                /\ req'[b].found = nextId /\ nextId \in Id
                /\ users'[nextId].sub = req[b].person
<1> DEFINE R == NewSsoRow(req[b].person, req[b].name)
<1>1. nextId \in Id /\ nextId \in Nat
  BY MakingRoom DEF IInv, CreateSso, Id
<1>2. req[b] \in Request /\ R.sub = req[b].person
  BY DEF IInv, TypeOK, NewSsoRow
<1>3. CASE /\ req' = [req EXCEPT ![b] = NoRequest] /\ pc' = [pc EXCEPT ![b] = "idle"]
           /\ UNCHANGED rows
  BY <1>3 DEF CreateSso, IInv, TypeOK, rows, session, world, Live
<1>4. CASE /\ users' = [users EXCEPT ![nextId] = R]
           /\ req' = [req EXCEPT ![b].found = nextId, ![b].name = 0]
           /\ pc' = [pc EXCEPT ![b] = "recording"]
  <2>1. \A i \in Live' : i < nextId => i \in Live /\ users'[i] = users[i]
    <3> HIDE DEF R
    <3> QED BY <1>1, <1>4 DEF Live, IInv, TypeOK
  <2>2. users'[nextId].sub = req[b].person
    <3> HIDE DEF R
    <3> QED BY <1>1, <1>2, <1>4 DEF IInv, TypeOK
  <2>3. /\ req'[b].person = req[b].person /\ req'[b].admin = req[b].admin
        /\ req'[b].found = nextId
        /\ \A c \in Browser \ {b} : req'[c] = req[c]
    BY <1>2, <1>4 DEF IInv, TypeOK, Request
  <2> QED BY <1>1, <1>4, <2>1, <2>2, <2>3 DEF CreateSso, IInv, TypeOK, session, world
<1> QED BY <1>3, <1>4 DEF CreateSso, Goto

LEMMA InitPInv == Init => PInv
BY NoneAssumption
   DEF Init, PInv, LinkAlone, Asked, Found, Sessions, InUse, SigningIn, NoCookie,
       NoRequest, Live, Id, Cut

LEMMA LinkAloneStep ==
    Prompt /\ IInv /\ PInv /\ [Next]_vars => LinkAlone'
<1> SUFFICES ASSUME Prompt, IInv, PInv, [Next]_vars PROVE LinkAlone'
  OBVIOUS
<1> USE NoneAssumption, BoundAssumption DEF Goto, rows, world, session, PInv,
     LinkAlone, IInv, TypeOK, Labels, Requests
<1>1. ASSUME NEW b \in Browser, Expire(b) PROVE LinkAlone'
  BY <1>1 DEF Expire, NoCookie
<1>2. ASSUME NEW b \in Browser, Logout(b) PROVE LinkAlone'
  BY <1>2 DEF Logout, NoCookie
<1>3. ASSUME NEW b \in Browser, NEW i \in Id, PasswordLogin(b, i) PROVE LinkAlone'
  BY <1>3 DEF PasswordLogin
<1>4. ASSUME NEW b \in Browser, AskPassword(b) PROVE LinkAlone'
  BY <1>4 DEF AskPassword, Served
<1>5. ASSUME NEW b \in Browser, ChangePassword(b) PROVE LinkAlone'
  BY <1>5 DEF ChangePassword, OnAccount, Bumped
<1>6. ASSUME NEW b \in Browser, Reissue(b) PROVE LinkAlone'
  BY <1>6 DEF Reissue
<1>7. ASSUME NEW b \in Browser, NEW p \in Person, Begin(b, p) PROVE LinkAlone'
  BY <1>7 DEF Begin
<1>8. ASSUME NEW b \in Browser, FindByLink(b) PROVE LinkAlone'
  BY <1>8 DEF FindByLink
<1>9. ASSUME NEW b \in Browser, CreateSso(b) PROVE LinkAlone'
  BY <1>9 DEF CreateSso, NewSsoRow, NoRequest
<1>10. ASSUME NEW b \in Browser, Record(b) PROVE LinkAlone'
  BY <1>10 DEF Record, NoRequest
<1>11. ASSUME NEW b \in Browser, Enter(b) PROVE LinkAlone'
  BY <1>11 DEF Enter, NoRequest
<1>12. ASSUME NEW i \in Id, Delete(i) PROVE LinkAlone'
  BY <1>12 DEF Delete, OnAccount
<1>13. ASSUME NEW i \in Id, NEW p \in Person, BeginLink(i, p) PROVE LinkAlone'
  BY <1>13 DEF BeginLink, Settled
<1>14. ASSUME SetLink PROVE LinkAlone'
  BY <1>14 DEF SetLink
<1>15. ASSUME MoveIdentity PROVE LinkAlone'
  BY <1>15 DEF MoveIdentity, OnAccount, Bumped
<1>16. ASSUME NEW i \in Id, Unlink(i) PROVE LinkAlone'
  BY <1>16 DEF Unlink, Settled, OnAccount, Bumped
<1>17. ASSUME NEW p \in Person, NEW g \in {"none", "users", "admins"}, Regroup(p, g)
       PROVE  LinkAlone'
  BY <1>17 DEF Regroup
<1>18. ASSUME Tick PROVE LinkAlone'
  BY <1>18 DEF Tick
<1>19. ASSUME UNCHANGED vars PROVE LinkAlone'
  BY <1>19 DEF vars
<1> HIDE DEF Goto, rows, world, session, PInv, LinkAlone, IInv, TypeOK, Labels, Requests
<1> QED
  BY <1>1, <1>2, <1>3, <1>4, <1>5, <1>6, <1>7, <1>8, <1>9, <1>10, <1>11, <1>12, <1>13,
       <1>14, <1>15, <1>16, <1>17, <1>18, <1>19
  DEF Next, Idle

LEMMA AskedStep ==
    Prompt /\ IInv /\ PInv /\ [Next]_vars => Asked'
<1> SUFFICES ASSUME Prompt, IInv, PInv, [Next]_vars PROVE Asked'
  OBVIOUS
<1> USE NoneAssumption, BoundAssumption DEF Goto, rows, world, session, PInv, Asked,
     IInv, TypeOK, UserNow, AdminNow, SigningIn, Labels, Request, Requests
<1>1. ASSUME NEW b \in Browser, Expire(b) PROVE Asked'
  BY <1>1 DEF Expire, NoCookie
<1>2. ASSUME NEW b \in Browser, Logout(b) PROVE Asked'
  BY <1>2 DEF Logout, NoCookie
<1>3. ASSUME NEW b \in Browser, NEW i \in Id, PasswordLogin(b, i) PROVE Asked'
  BY <1>3 DEF PasswordLogin
<1>4. ASSUME NEW b \in Browser, AskPassword(b) PROVE Asked'
  BY <1>4 DEF AskPassword, Served
<1>5. ASSUME NEW b \in Browser, ChangePassword(b) PROVE Asked'
  BY <1>5 DEF ChangePassword, OnAccount, Bumped
<1>6. ASSUME NEW b \in Browser, Reissue(b) PROVE Asked'
  BY <1>6 DEF Reissue
<1>7. ASSUME NEW b \in Browser, NEW p \in Person, Begin(b, p) PROVE Asked'
  BY <1>7, BeginFacts
<1>8. ASSUME NEW b \in Browser, FindByLink(b) PROVE Asked'
  BY <1>8, FindByLinkFacts
<1>9. ASSUME NEW b \in Browser, CreateSso(b) PROVE Asked'
  BY <1>9 DEF CreateSso, NewSsoRow, NoRequest
<1>10. ASSUME NEW b \in Browser, Record(b) PROVE Asked'
  <2>1. /\ pc[b] = "recording" /\ UNCHANGED <<groups, now, left>>
        /\ \A c \in Browser \ {b} : req'[c] = req[c] /\ pc'[c] = pc[c]
        /\ pc'[b] \in {"idle", "entering"} /\ (pc'[b] = "entering" => req'[b] = req[b])
    BY <1>10, RecordFacts
  <2>2. Asked
    OBVIOUS
  <2> HIDE DEF IInv, PInv, TypeOK, Request
  <2> QED BY <2>1, <2>2
<1>11. ASSUME NEW b \in Browser, Enter(b) PROVE Asked'
  BY <1>11 DEF Enter, NoRequest
<1>12. ASSUME NEW i \in Id, Delete(i) PROVE Asked'
  BY <1>12 DEF Delete, OnAccount
<1>13. ASSUME NEW i \in Id, NEW p \in Person, BeginLink(i, p) PROVE Asked'
  BY <1>13 DEF BeginLink, Settled
<1>14. ASSUME SetLink PROVE Asked'
  BY <1>14 DEF SetLink
<1>15. ASSUME MoveIdentity PROVE Asked'
  BY <1>15 DEF MoveIdentity, OnAccount, Bumped
<1>16. ASSUME NEW i \in Id, Unlink(i) PROVE Asked'
  BY <1>16 DEF Unlink, Settled, OnAccount, Bumped
<1>17. ASSUME NEW p \in Person, NEW g \in {"none", "users", "admins"}, Regroup(p, g)
       PROVE  Asked'
  BY <1>17 DEF Regroup
<1>18. ASSUME Tick PROVE Asked'
  BY <1>18 DEF Tick
<1>19. ASSUME UNCHANGED vars PROVE Asked'
  BY <1>19 DEF vars
<1> HIDE DEF Goto, rows, world, session, PInv, Asked, IInv, TypeOK, UserNow, AdminNow,
     SigningIn, Labels, Request, Requests
<1> QED
  BY <1>1, <1>2, <1>3, <1>4, <1>5, <1>6, <1>7, <1>8, <1>9, <1>10, <1>11, <1>12, <1>13,
       <1>14, <1>15, <1>16, <1>17, <1>18, <1>19
  DEF Next, Idle

LEMMA FoundStep ==
    Prompt /\ IInv /\ PInv /\ [Next]_vars => Found'
<1> SUFFICES ASSUME Prompt, IInv, PInv, [Next]_vars PROVE Found'
  OBVIOUS
<1> USE NoneAssumption, BoundAssumption DEF Goto, rows, world, session, PInv, Found,
     Mine, LinkAlone, Asked, IInv, TypeOK, AdminNow, SigningIn, Labels, Request,
     Requests, Live, Row, Ids, WithSub, Waiting
<1>1. ASSUME NEW b \in Browser, Expire(b) PROVE Found'
  BY <1>1 DEF Expire, NoCookie
<1>2. ASSUME NEW b \in Browser, Logout(b) PROVE Found'
  BY <1>2 DEF Logout, NoCookie
<1>3. ASSUME NEW b \in Browser, NEW i \in Id, PasswordLogin(b, i) PROVE Found'
  BY <1>3 DEF PasswordLogin
<1>4. ASSUME NEW b \in Browser, AskPassword(b) PROVE Found'
  BY <1>4 DEF AskPassword, Served
<1>5. ASSUME NEW b \in Browser, ChangePassword(b) PROVE Found'
  <2>1. \A i \in Live' : /\ i \in Live /\ users'[i].sub = users[i].sub
                         /\ users'[i].link = users[i].link
                         /\ users'[i].ssoAdmin = users[i].ssoAdmin
    <3>1. \A i \in Live : Bumped(i).link = users[i].link
      BY DEF Bumped
    <3> QED BY <1>5, <3>1, BumpedFacts DEF ChangePassword
  <2>2. UNCHANGED <<req, groups, left, now>>
        /\ \A c \in Browser : pc'[c] \in {"recording", "entering"} => pc'[c] = pc[c]
    BY <1>5 DEF ChangePassword
  <2> HIDE DEF TypeOK, Live
  <2> QED BY <2>1, <2>2
<1>6. ASSUME NEW b \in Browser, Reissue(b) PROVE Found'
  BY <1>6 DEF Reissue
<1>7. ASSUME NEW b \in Browser, NEW p \in Person, Begin(b, p) PROVE Found'
  BY <1>7, BeginFacts
<1>8. ASSUME NEW b \in Browser, FindByLink(b) PROVE Found'
  BY <1>8, FindByLinkFacts
<1>9. ASSUME NEW b \in Browser, CreateSso(b) PROVE Found'
  <2>1. \A c \in Browser \ {b} : req'[c].found \in Live' =>
          req'[c].found \in Live /\ users'[req[c].found] = users[req[c].found]
    <3> SUFFICES ASSUME NEW c \in Browser \ {b}, req'[c].found \in Live'
                 PROVE  req'[c].found \in Live /\ users'[req[c].found] = users[req[c].found]
      OBVIOUS
    <3>1. req'[c] = req[c] /\ req[c].found \in Id
      BY <1>9, CreateSsoFacts
    <3>2. req[c].found < nextId
      BY <3>1, NoneAssumption DEF Id
    <3> HIDE DEF TypeOK, Live
    <3> QED BY <1>9, <3>1, <3>2, CreateSsoFacts
  <2> HIDE DEF TypeOK, Live
  <2> QED BY <1>9, <2>1, CreateSsoFacts
<1>10. ASSUME NEW b \in Browser, Record(b) PROVE Found'
  <2> DEFINE i == req[b].found
  <2> SUFFICES ASSUME NEW c \in Browser, (req[c].found \in Live)',
                      (pc[c] \in {"recording", "entering"})'
               PROVE  (/\ pc[c] = "recording" => Mine(req[c].found, req[c].person)
                       /\ pc[c] = "entering" =>
                            /\ users[req[c].found].sub = req[c].person
                            /\ users[req[c].found].ssoAdmin => AdminNow(req[c].person))'
    <3> HIDE DEF IInv, TypeOK, PInv, Asked, LinkAlone, Mine, AdminNow, Live
    <3> QED OBVIOUS
  <2>0. /\ req[b].found \in Live => Mine(req[b].found, req[b].person)
        /\ req[b].admin => AdminNow(req[b].person)
        /\ req[c].found \in Live =>
             /\ pc[c] = "recording" => Mine(req[c].found, req[c].person)
             /\ pc[c] = "entering" =>
                  /\ users[req[c].found].sub = req[c].person
                  /\ users[req[c].found].ssoAdmin => AdminNow(req[c].person)
    <3>1. pc[b] = "recording"
      BY <1>10 DEF Record
    <3> HIDE DEF IInv, TypeOK, LinkAlone, Mine, AdminNow, Live, Requests, Request, Row
    <3> QED BY <3>1
  <2>1. /\ UNCHANGED <<groups, now, left>> /\ req'[c] = req[c] /\ Live' \subseteq Live
        /\ \A j \in Live \ {i} : users'[j] = users[j]
        /\ c # b => pc'[c] = pc[c]
        /\ c = b => pc[c] = "recording" /\ pc'[c] = "entering"
        /\ i \in Live => users' = users \/ (/\ users'[i].sub = req[b].person
                                            /\ users'[i].ssoAdmin = req[b].admin)
        /\ c = b /\ i \in Live => /\ users'[i].sub = req[b].person
                                  /\ users'[i].ssoAdmin = req[b].admin
    <3> HIDE DEF TypeOK, PInv, Live, Found, Requests, Asked
    <3> QED BY <1>10, RecordFacts
  <2>5. /\ req[b].person \in Person
        /\ pc[c] \in {"recording", "entering"} => req[c].person \in Person
    <3>1. pc[b] = "recording"
      BY <1>10 DEF Record
    <3> HIDE DEF TypeOK, PInv, Live, Found, Asked
    <3> QED BY <3>1
  <2>6. None \notin Person
    BY NoneAssumption
  <2> HIDE DEF IInv, PInv, Found, Asked, LinkAlone, TypeOK, Live, Row, Ids, Request,
       Requests, Labels
  <2>2. CASE c = b
    BY <2>0, <2>1, <2>2
  <2>3. CASE c # b /\ req[c].found # i
    BY <2>0, <2>1, <2>3
  <2>4. CASE c # b /\ req[c].found = i
    <3>1. req[c].found \in Live /\ i \in Live /\ pc[c] = pc'[c]
      BY <2>1, <2>4
    <3>2. CASE users' = users
      BY <2>0, <2>1, <2>4, <3>1, <3>2
    <3>3. CASE users' # users
      <4>1. users'[i].sub = req[b].person /\ users'[i].ssoAdmin = req[b].admin
        BY <2>1, <3>1, <3>3
      <4>2. req[c].person = req[b].person
        BY <2>0, <2>4, <2>5, <2>6, <3>1
      <4> QED BY <2>0, <2>1, <2>4, <3>1, <4>1, <4>2
    <3> QED BY <3>2, <3>3
  <2> QED BY <2>2, <2>3, <2>4
<1>11. ASSUME NEW b \in Browser, Enter(b) PROVE Found'
  BY <1>11 DEF Enter, NoRequest
<1>12. ASSUME NEW i \in Id, Delete(i) PROVE Found'
  BY <1>12 DEF Delete, OnAccount
<1>13. ASSUME NEW i \in Id, NEW p \in Person, BeginLink(i, p) PROVE Found'
  BY <1>13 DEF BeginLink, Settled
<1>14. ASSUME SetLink PROVE Found'
  BY <1>14 DEF SetLink
<1>15. ASSUME MoveIdentity PROVE Found'
  BY <1>15 DEF MoveIdentity, OnAccount, Bumped
<1>16. ASSUME NEW i \in Id, Unlink(i) PROVE Found'
  BY <1>16 DEF Unlink, Settled, OnAccount, Bumped
<1>17. ASSUME NEW p \in Person, NEW g \in {"none", "users", "admins"}, Regroup(p, g)
       PROVE  Found'
  BY <1>17 DEF Regroup
<1>18. ASSUME Tick PROVE Found'
  BY <1>18 DEF Tick
<1>19. ASSUME UNCHANGED vars PROVE Found'
  BY <1>19 DEF vars
<1> HIDE DEF Goto, rows, world, session, PInv, Found, Mine, LinkAlone, Asked, IInv,
     TypeOK, AdminNow, SigningIn, Labels, Request, Requests, Live, Row, Ids, WithSub,
     Waiting
<1> QED
  BY <1>1, <1>2, <1>3, <1>4, <1>5, <1>6, <1>7, <1>8, <1>9, <1>10, <1>11, <1>12, <1>13,
       <1>14, <1>15, <1>16, <1>17, <1>18, <1>19
  DEF Next, Idle

\* A session that was in use, and whose account keeps its identity, is as it was.
LEMMA SameSession ==
    ASSUME IInv, Sessions, NEW b \in Browser, InUse(b)' => InUse(b),
           UNCHANGED <<groups, left, now>>, by'[b] = by[b], cookie'[b].id = cookie[b].id,
           cookie'[b].sso = cookie[b].sso, cookie'[b].at = cookie[b].at,
           cookie[b].id \in Live =>
               /\ users'[cookie[b].id].sub = users[cookie[b].id].sub
               /\ users'[cookie[b].id].admin = users[cookie[b].id].admin
               /\ users'[cookie[b].id].ssoAdmin = users[cookie[b].id].ssoAdmin
    PROVE  InUse(b)' => Session(b)'
BY DEF Sessions, Session, InUse, LeftSince

\* What holds of the sessions holds when one of them is given up.
LEMMA EndedSession ==
    ASSUME Sessions, TypeOK, NEW b \in Browser, UNCHANGED <<users, pc, groups, left, now>>,
           cookie' = [cookie EXCEPT ![b] = NoCookie], by' = [by EXCEPT ![b] = None]
    PROVE  Sessions'
<1> SUFFICES ASSUME NEW c \in Browser
             PROVE  (by[c] = None => cookie[c].id = None)' /\ (InUse(c)' => Session(c)')
  BY DEF Sessions
<1>1. CASE c = b
  <2>1. cookie'[c].id = None
    BY <1>1 DEF TypeOK, NoCookie
  <2>2. None \notin Live'
    BY NoneAssumption DEF Live, Id
  <2> QED BY <2>1, <2>2 DEF InUse
<1>2. CASE c # b
  <2>1. cookie'[c] = cookie[c] /\ by'[c] = by[c]
    BY <1>2 DEF TypeOK
  <2> QED BY <2>1 DEF Sessions, InUse, Session, Loads, LeftSince, Live
<1> QED BY <1>1, <1>2

\* It holds after a step that changes no account and no session.
LEMMA QuietSession ==
    ASSUME Sessions, UNCHANGED <<users, cookie, by, groups, left, now>>,
           \A c \in Browser : pc'[c] \in {"changing", "reissuing"} => pc'[c] = pc[c]
    PROVE  Sessions'
<1> SUFFICES ASSUME NEW c \in Browser
             PROVE  (by[c] = None => cookie[c].id = None)' /\ (InUse(c)' => Session(c)')
  BY DEF Sessions
<1>1. InUse(c)' => InUse(c)
  BY DEF InUse, Loads, Live
<1>2. Session(c) => Session(c)'
  BY DEF Session, LeftSince
<1> QED BY <1>1, <1>2 DEF Sessions

LEMMA SessionsStep ==
    Prompt /\ IInv /\ PInv /\ [Next]_vars => Sessions'
<1> SUFFICES ASSUME Prompt, IInv, PInv, [Next]_vars PROVE Sessions'
  OBVIOUS
<1> USE NoneAssumption, BoundAssumption DEF Goto, rows, world, session, PInv, Sessions,
     Session, InUse, Loads, LeftSince, Found, Mine, LinkAlone, Asked, IInv, TypeOK,
     UserNow, AdminNow, SigningIn, Labels, Request, Requests, Live, Row, Cookie, Ids,
     Versions, Links
<1>1. ASSUME NEW b \in Browser, Expire(b) PROVE Sessions'
  <2>1. /\ UNCHANGED <<users, pc, groups, left, now>>
        /\ cookie' = [cookie EXCEPT ![b] = NoCookie] /\ by' = [by EXCEPT ![b] = None]
    BY <1>1 DEF Expire
  <2> HIDE DEF Sessions, TypeOK
  <2> QED BY <2>1, EndedSession
<1>2. ASSUME NEW b \in Browser, Logout(b) PROVE Sessions'
  <2>1. /\ UNCHANGED <<users, pc, groups, left, now>>
        /\ cookie' = [cookie EXCEPT ![b] = NoCookie] /\ by' = [by EXCEPT ![b] = None]
    BY <1>2 DEF Logout
  <2> HIDE DEF Sessions, TypeOK
  <2> QED BY <2>1, EndedSession
<1>3. ASSUME NEW b \in Browser, NEW i \in Id, PasswordLogin(b, i) PROVE Sessions'
  <2> SUFFICES ASSUME NEW c \in Browser
               PROVE  (by[c] = None => cookie[c].id = None)' /\ (InUse(c)' => Session(c)')
    <3> HIDE DEF IInv, TypeOK, InUse, Session, Found, Asked
    <3> QED OBVIOUS
  <2>1. /\ UNCHANGED <<users, pc, groups, left, now>> /\ i \in Live /\ users[i].admin
        /\ cookie' = [cookie EXCEPT ![b].id = i, ![b].version = users[i].version]
        /\ by' = [by EXCEPT ![b] = "password"]
    BY <1>3 DEF PasswordLogin
  <2>2. CASE c # b
    <3>1. cookie'[c] = cookie[c] /\ by'[c] = by[c]
      BY <2>1, <2>2
    <3>2. (InUse(c)' <=> InUse(c)) /\ (Session(c)' <=> Session(c))
      <4> HIDE DEF IInv, PInv, Sessions, Found, Asked, TypeOK, Row, Id
      <4> QED BY <2>1, <3>1
    <3> HIDE DEF IInv, TypeOK, InUse, Session, Found, Asked
    <3> QED BY <3>1, <3>2
  <2>3. CASE c = b
    <3>1. cookie'[c].id = i /\ by'[c] = "password"
      BY <2>1, <2>3
    <3> HIDE DEF IInv, TypeOK, InUse, PInv
    <3> QED BY <2>1, <3>1, NoneAssumption
  <2> QED BY <2>2, <2>3
<1>4. ASSUME NEW b \in Browser, AskPassword(b) PROVE Sessions'
  BY <1>4 DEF AskPassword, Served
<1>5. ASSUME NEW b \in Browser, ChangePassword(b) PROVE Sessions'
  <2> SUFFICES ASSUME NEW c \in Browser, InUse(c)' PROVE Session(c)'
    BY <1>5 DEF ChangePassword
  <2> DEFINE i == cookie[c].id
  <2>1. UNCHANGED <<cookie, by, groups, left, now>>
    BY <1>5 DEF ChangePassword
  <2>2. /\ i \in Live
        /\ users'[i].sub = users[i].sub /\ users'[i].admin = users[i].admin
        /\ users'[i].ssoAdmin = users[i].ssoAdmin
        /\ users'[i].version \in {users[i].version, users[i].version + 1}
    <3> DEFINE j == cookie[b].id
    <3>1. users' = users \/ (j \in Live /\ users' = [users EXCEPT ![j] = Bumped(j)])
      BY <1>5 DEF ChangePassword
    <3>2. i \in Live'
      BY <2>1
    <3>3. users \in [Id -> Row \cup {None}]
      OBVIOUS
    <3> HIDE DEF i, j, IInv, TypeOK, PInv, Row
    <3>4. i \in Live /\ (users'[i] = users[i] \/ users'[i] = Bumped(i))
      BY <3>1, <3>2, <3>3
    <3>5. TypeOK
      BY DEF IInv
    <3> HIDE DEF Live
    <3> QED BY <3>4, <3>5, BumpedFacts
  <2>3. pc'[c] = "reissuing" => pc[c] \in {"changing", "reissuing"}
    BY <1>5 DEF ChangePassword
  <2>4. pc'[c] = "changing" => pc[c] = "changing"
    BY <1>5 DEF ChangePassword
  <2>5. cookie[c].version <= users[i].version /\ cookie[c].version \in Nat
        /\ users[i].version \in Nat
    <3>1. cookie[c] \in Cookie /\ users[i] \in Row
      <4>1. cookie \in [Browser -> Cookie] /\ users \in [Id -> Row \cup {None}]
        OBVIOUS
      <4> HIDE DEF TypeOK, IInv, PInv, Row, Cookie, InUse, Session, Id, Next
      <4> QED BY <2>2, <4>1
    <3>2. cookie[c].version \in Nat /\ users[i].version \in Nat
      BY <3>1
    <3>3. cookie[c].version <= users[i].version
      <4>1. Versions
        OBVIOUS
      <4> HIDE DEF TypeOK, IInv, PInv, Live, Row, Cookie
      <4> QED BY <2>2, <4>1
    <3> QED BY <3>2, <3>3
  <2>6. InUse(c)
    <3>1. InUse(c)' = (\/ users'[i].version = cookie[c].version
                       \/ pc'[c] \in {"changing", "reissuing"})
      <4> HIDE DEF TypeOK, IInv, PInv, Live, Row, Cookie, Session
      <4>1. i \in Live'
        BY <2>1
      <4> QED BY <2>1, <4>1
    <3> HIDE DEF TypeOK, IInv, PInv, Live, i, Row, Id
    <3> QED BY <2>2, <2>3, <2>4, <2>5, <3>1 DEF i
  <2> HIDE DEF TypeOK, Live, InUse, Session, Row, Id
  <2> QED BY <2>1, <2>2, <2>6, SameSession
<1>6. ASSUME NEW b \in Browser, Reissue(b) PROVE Sessions'
  <2>1. UNCHANGED <<users, by, groups, left, now>>
    BY <1>6 DEF Reissue
  <2>2. \/ cookie' = cookie
        \/ cookie' = [cookie EXCEPT ![b].version = users[cookie[b].id].version]
    BY <1>6 DEF Reissue
  <2>0. \A c \in Browser : cookie'[c].id = cookie[c].id
    <3> cookie \in [Browser -> Cookie]
      OBVIOUS
    <3> HIDE DEF TypeOK, IInv, PInv, Row, Live, Id, InUse, Session
    <3> QED BY <2>2
  <2> SUFFICES ASSUME NEW c \in Browser, InUse(c)' PROVE Session(c)'
    <3>1. Sessions
      OBVIOUS
    <3> HIDE DEF TypeOK, IInv, PInv, InUse, Session
    <3> QED BY <2>0, <2>1, <3>1
  <2>3. /\ cookie'[c].id = cookie[c].id /\ cookie'[c].sso = cookie[c].sso
        /\ cookie'[c].at = cookie[c].at /\ (c # b => cookie'[c] = cookie[c])
    <3> cookie \in [Browser -> Cookie]
      OBVIOUS
    <3> HIDE DEF TypeOK, IInv, Row, Live, Id, InUse, Session
    <3> QED BY <2>2
  <2>4. pc[b] = "reissuing" /\ (c # b => pc'[c] = pc[c])
    BY <1>6 DEF Reissue
  <2>5. InUse(c)
    BY <2>1, <2>3, <2>4
  <2> HIDE DEF TypeOK, Live, InUse, Session, Row, Id
  <2> QED BY <2>1, <2>3, <2>5, SameSession
<1>7. ASSUME NEW b \in Browser, NEW p \in Person, Begin(b, p) PROVE Sessions'
  BY <1>7 DEF Begin
<1>8. ASSUME NEW b \in Browser, FindByLink(b) PROVE Sessions'
  BY <1>8 DEF FindByLink
<1>9. ASSUME NEW b \in Browser, CreateSso(b) PROVE Sessions'
  BY <1>9 DEF CreateSso, NewSsoRow, NoRequest
<1>10. ASSUME NEW b \in Browser, Record(b) PROVE Sessions'
  <2> SUFFICES ASSUME NEW c \in Browser, InUse(c)' PROVE Session(c)'
    <3>1. UNCHANGED <<by, cookie>>
      BY <1>10 DEF Record
    <3> HIDE DEF IInv, TypeOK, InUse, Session, Found, Asked
    <3> QED BY <3>1
  <2> DEFINE i == req[b].found  q == req[b].person
  <2>1. UNCHANGED <<cookie, by, groups, left, now>>
        /\ \A d \in Browser : pc'[d] \in {"changing", "reissuing"} => pc'[d] = pc[d]
    <3> HIDE DEF TypeOK, PInv, Sessions, Found, Asked
    <3> QED BY <1>10, RecordFacts
  <2>2. CASE users' = users
    <3>1. InUse(c)
      BY <2>1, <2>2
    <3> HIDE DEF TypeOK, Live, InUse, Session, Row, Id
    <3> QED BY <2>1, <2>2, <3>1, SameSession
  <2>3. CASE /\ i \in Live /\ users'[i].sub = q /\ users'[i].ssoAdmin = req[b].admin
             /\ users'[i].admin = users[i].admin /\ users'[i].version = users[i].version
    <3>1. Live' \subseteq Live /\ \A j \in Live \ {i} : users'[j] = users[j]
      <4> HIDE DEF TypeOK, PInv, Sessions, Found, Asked, Live
      <4> QED BY <1>10, RecordFacts
    <3>2. InUse(c) /\ cookie[c].id \in Live
      <4> HIDE DEF TypeOK, PInv, Sessions, Found, Asked, Live, Row, i
      <4> QED BY <2>1, <2>3, <3>1
    <3>3. CASE cookie[c].id # i
      <4> HIDE DEF TypeOK, InUse, Session, Row, Id, Live
      <4> QED BY <2>1, <3>1, <3>2, <3>3, SameSession
    <3>4. CASE cookie[c].id = i
      <4>1. Session(c) /\ Mine(i, q) /\ (req[b].admin => AdminNow(q)) /\ q \in Person
        <5>1. pc[b] = "recording"
          BY <1>10 DEF Record
        <5> HIDE DEF TypeOK, Session, Mine, AdminNow, InUse, Live
        <5> QED BY <2>3, <3>2, <5>1
      <4>2. now \in Nat /\ now # None
        OBVIOUS
      <4>3. by[c] \in Person => by[c] = q
        <5> HIDE DEF TypeOK, IInv, PInv, Live, InUse, Row, Id, Found, Asked, LinkAlone, i, q
        <5> QED BY <3>4, <4>1
      <4> HIDE DEF TypeOK, IInv, PInv, Live, InUse, Row, Id
      <4> QED BY <2>1, <2>3, <3>4, <4>1, <4>2, <4>3
    <3> QED BY <3>3, <3>4
  <2>4. CASE i \notin Live
    <3>1. Live' \subseteq Live /\ \A j \in Live : users'[j] = users[j]
      <4> HIDE DEF TypeOK, PInv, Sessions, Found, Asked, Live
      <4> QED BY <1>10, <2>4, RecordFacts
    <3>2. InUse(c)
      <4> HIDE DEF TypeOK, PInv, Sessions, Found, Asked, Live, Row
      <4> QED BY <2>1, <3>1
    <3> HIDE DEF TypeOK, InUse, Session, Row, Id, Live
    <3> QED BY <2>1, <3>1, <3>2, SameSession DEF InUse
  <2> HIDE DEF TypeOK, PInv, Sessions, Found, Asked, Live
  <2> QED BY <1>10, <2>2, <2>3, <2>4, RecordFacts
<1>11. ASSUME NEW b \in Browser, Enter(b) PROVE Sessions'
  <2> DEFINE i == req[b].found  q == req[b].person
  <2> SUFFICES ASSUME NEW c \in Browser
               PROVE  (by[c] = None => cookie[c].id = None)' /\ (InUse(c)' => Session(c)')
    <3> HIDE DEF IInv, TypeOK, InUse, Session, Found, Asked
    <3> QED OBVIOUS
  <2>1. /\ UNCHANGED <<users, groups, left, now>>
        /\ pc[b] = "entering" /\ pc' = [pc EXCEPT ![b] = "idle"]
        /\ \/ UNCHANGED <<cookie, by>>
           \/ /\ i \in Live /\ by' = [by EXCEPT ![b] = q]
              /\ cookie' = [cookie EXCEPT ![b] =
                    [id |-> i, version |-> users[i].version, sso |-> TRUE, at |-> now]]
    BY <1>11 DEF Enter
  <2>2. /\ Sessions /\ now \in Nat /\ pc \in [Browser -> Labels]
        /\ by \in [Browser -> Person \cup {"password", None}]
        /\ cookie \in [Browser -> Cookie]
    OBVIOUS
  <2>3. CASE cookie'[c] = cookie[c] /\ by'[c] = by[c]
    <3> HIDE DEF IInv, TypeOK, PInv, Row, Cookie, Session, InUse, i, q
    <3>1. pc'[c] \in {"changing", "reissuing"} => pc'[c] = pc[c]
      BY <2>1, <2>2
    <3> USE DEF Session, InUse
    <3> QED BY <2>1, <2>2, <2>3, <3>1
  <2>4. CASE c = b /\ i \in Live /\ by'[c] = q /\ cookie'[c].id = i
             /\ cookie'[c].sso /\ cookie'[c].at = now
    <3>1. /\ users[i].sub = q /\ (users[i].ssoAdmin => AdminNow(q))
          /\ UserNow(q) /\ q \in Person /\ now # None
      <4> HIDE DEF TypeOK, InUse, Session, Live, Row, Cookie
      <4> QED BY <2>1, <2>2, <2>4
    <3> HIDE DEF IInv, TypeOK, PInv, Row, Cookie, InUse, i, q
    <3>2. q # "password" /\ q # None
      BY <3>1
    <3> QED BY <2>1, <2>2, <2>4, <3>1, <3>2
  <2> HIDE DEF IInv, TypeOK, PInv, InUse, Session, Live, i, q
  <2> QED BY <2>1, <2>2, <2>3, <2>4
<1>12. ASSUME NEW i \in Id, Delete(i) PROVE Sessions'
  BY <1>12 DEF Delete, OnAccount
<1>13. ASSUME NEW i \in Id, NEW p \in Person, BeginLink(i, p) PROVE Sessions'
  <2>1. UNCHANGED <<users, cookie, by, pc, groups, left, now>>
    BY <1>13 DEF BeginLink
  <2> HIDE DEF Sessions
  <2> QED BY <2>1, QuietSession
<1>14. ASSUME SetLink PROVE Sessions'
  <2>1. /\ UNCHANGED <<cookie, by, pc, groups, left, now>>
        /\ users' = users \/ (/\ linking.to \in Live
                              /\ users' = [users EXCEPT ![linking.to].link = linking.person])
    BY <1>14 DEF SetLink
  <2>2. \A i \in Live' :
           /\ i \in Live /\ users'[i].version = users[i].version
           /\ users'[i].sub = users[i].sub /\ users'[i].admin = users[i].admin
           /\ users'[i].ssoAdmin = users[i].ssoAdmin
    <3>1. users \in [Id -> Row \cup {None}]
      OBVIOUS
    <3> HIDE DEF IInv, TypeOK, PInv, Id, Cookie
    <3> QED BY <2>1, <3>1
  <2> SUFFICES ASSUME NEW c \in Browser, InUse(c)' PROVE Session(c)'
    <3>1. Sessions
      OBVIOUS
    <3> HIDE DEF IInv, PInv, TypeOK, InUse, Session
    <3> QED BY <2>1, <3>1
  <2> HIDE DEF TypeOK, Live, Session, Row, Id, Cookie
  <2>3. InUse(c) /\ cookie[c].id \in Live'
    BY <2>1, <2>2
  <2> HIDE DEF InUse
  <2> QED BY <2>1, <2>2, <2>3, SameSession
<1>15. ASSUME MoveIdentity PROVE Sessions'
  <2> SUFFICES ASSUME NEW c \in Browser, InUse(c)' PROVE Session(c)'
    BY <1>15 DEF MoveIdentity
  <2> DEFINE i == cookie[c].id
  <2>1. UNCHANGED <<cookie, by, groups, left, now, pc>> /\ linking # None
    BY <1>15 DEF MoveIdentity
  <2>2. Loads(c)' /\ pc[c] = "idle"
    BY <2>1
  <2>3. CASE linking.from \in Live
    <3>1. i \in Live /\ (i # linking.to => users'[i] = users[i])
          /\ (i = linking.to => users'[i].version = users[i].version + 1)
      BY <1>15, <2>1, <2>3, MoveFacts
    <3>2. cookie[c].version <= users[i].version /\ cookie[c].version \in Nat
          /\ users[i].version \in Nat
      BY <3>1
    <3>3. users'[i] = users[i]
      <4> HIDE DEF TypeOK, Live, i, Row, Id
      <4> QED BY <2>1, <2>2, <3>1, <3>2 DEF i
    <3>4. InUse(c)
      BY <2>1, <2>2, <3>1, <3>3
    <3> HIDE DEF TypeOK, Live, InUse, Session, Row, Id
    <3> QED BY <2>1, <3>3, <3>4, SameSession
  <2>4. CASE linking.from \notin Live
    <3>1. users' = users
      BY <1>15, <2>4 DEF MoveIdentity
    <3>2. InUse(c)
      BY <2>1, <3>1
    <3> HIDE DEF TypeOK, Live, InUse, Session, Row, Id
    <3> QED BY <2>1, <3>1, <3>2, SameSession
  <2> QED BY <2>3, <2>4
<1>16. ASSUME NEW i \in Id, Unlink(i) PROVE Sessions'
  BY <1>16 DEF Unlink, Settled, OnAccount, Bumped
<1>17. ASSUME NEW p \in Person, NEW g \in {"none", "users", "admins"}, Regroup(p, g)
       PROVE  Sessions'
  BY <1>17 DEF Regroup
<1>18. ASSUME Tick PROVE Sessions'
  BY <1>18 DEF Tick
<1>19. ASSUME UNCHANGED vars PROVE Sessions'
  BY <1>19 DEF vars
<1> HIDE DEF Goto, rows, world, session, PInv, Sessions, Session, InUse, Loads,
     LeftSince, Found, Mine, LinkAlone, Asked, IInv, TypeOK, UserNow, AdminNow,
     SigningIn, Labels, Request, Requests, Live, Row, Cookie, Ids, Versions, Links
<1> QED
  BY <1>1, <1>2, <1>3, <1>4, <1>5, <1>6, <1>7, <1>8, <1>9, <1>10, <1>11, <1>12, <1>13,
       <1>14, <1>15, <1>16, <1>17, <1>18, <1>19
  DEF Next, Idle

LEMMA CutStep ==
    ASSUME Prompt PROVE IInv /\ PInv /\ [Next]_vars => Cut'
<1> SUFFICES ASSUME IInv, PInv, [Next]_vars PROVE Cut'
  OBVIOUS
<1>0. /\ cut \subseteq Browser /\ Cut
      /\ \A b \in Browser : /\ cookie[b].id # None => cookie[b].id < nextId
                            /\ cookie[b].version \in Nat
      /\ cookie \in [Browser -> Cookie] /\ pc \in [Browser -> Labels]
      /\ users \in [Id -> Row \cup {None}] /\ nextId \in Nat
  BY BoundAssumption DEF IInv, PInv, TypeOK, Ids, Cookie
<1>00. \A i \in Live : i \in Id /\ i \in Nat /\ i # None /\ users[i].version \in Nat
  BY <1>0, NoneAssumption DEF Live, Id, Row
<1> USE DEF Goto, rows, world, session
\* A session leaves the set when the browser gets another or loses it.
<1>1. ASSUME NEW b \in Browser,
             cut' = cut \ {b} /\ UNCHANGED users,
             \A c \in Browser \ {b} : pc'[c] = pc[c] /\ cookie'[c] = cookie[c]
      PROVE  Cut'
  BY <1>0, <1>1 DEF Cut, Live
\* A request goes on, other than to change a password, and no account loses
\* its version.
<1>2. ASSUME UNCHANGED <<cookie, cut>>,
             \A c \in Browser : pc'[c] \in {"changing", "reissuing"} => pc'[c] = pc[c],
             Live' \subseteq Live \cup {nextId},
             \A i \in Live : i \in Live' => users'[i].version = users[i].version
      PROVE  Cut'
  <2> SUFFICES ASSUME NEW b \in cut, cookie[b].id \in Live'
               PROVE  /\ pc'[b] \notin {"changing", "reissuing"}
                      /\ cookie[b].version < users'[cookie[b].id].version
    BY <1>2 DEF Cut
  <2>1. cookie[b].id # nextId
    BY <1>0, NoneAssumption
  <2>2. cookie[b].id \in Live
    BY <1>2, <2>1
  <2> QED BY <1>0, <1>2, <2>2 DEF Cut
\* The sessions on some accounts are ended while nothing is under way.
<1>3. ASSUME NEW S, cut' \subseteq cut \cup {b \in Browser : cookie[b].id \in S},
             UNCHANGED <<cookie, pc>>, Live' \subseteq Live,
             \A i \in Live' \ S : users'[i] = users[i],
             \A i \in Live' \cap S : /\ users'[i].version = users[i].version + 1
                                   /\ \A b \in Browser : pc[b] = "idle"
      PROVE  Cut'
  <2> SUFFICES ASSUME NEW b \in cut', cookie[b].id \in Live'
               PROVE  /\ pc[b] \notin {"changing", "reissuing"}
                      /\ cookie[b].version < users'[cookie[b].id].version
    BY <1>3 DEF Cut
  <2> DEFINE i == cookie[b].id
  <2>1. b \in Browser /\ i \in Live
    BY <1>0, <1>3
  <2>2. CASE i \in S
    <3>1. cookie[b].version <= users[i].version
      BY <2>1 DEF IInv, Versions
    <3> QED BY <1>0, <1>00, <1>3, <2>1, <2>2, <3>1
  <2>3. CASE i \notin S
    BY <1>0, <1>3, <2>1, <2>3 DEF Cut
  <2> QED BY <2>2, <2>3
<1>4. ASSUME NEW b \in Browser,
             Expire(b) \/ Logout(b) \/ Enter(b) \/ \E i \in Id : PasswordLogin(b, i)
      PROVE  Cut'
  <2>1. CASE cut' = cut \ {b}
    BY <1>0, <1>1, <1>4, <2>1 DEF Expire, Logout, Enter, PasswordLogin
  <2>2. CASE Enter(b) /\ UNCHANGED <<users, session>>
    BY <1>0, <1>2, <2>2 DEF Enter, Live
  <2> QED BY <1>4, <2>1, <2>2 DEF Expire, Logout, Enter, PasswordLogin
<1>5. ASSUME NEW b \in Browser, AskPassword(b) PROVE Cut'
  <2>1. b \notin cut
    BY <1>0, <1>00, <1>5 DEF AskPassword, Served, Loads, Cut
  <2> QED BY <1>0, <1>5, <2>1 DEF AskPassword, Cut, Live
<1>6. ASSUME NEW b \in Browser, ChangePassword(b) PROVE Cut'
  <2> DEFINE i == cookie[b].id
  <2>1. /\ UNCHANGED <<cookie, cut>>
        /\ pc' = [pc EXCEPT ![b] = "reissuing"] /\ pc[b] = "changing"
        /\ b \in cut => i \notin Live
    BY <1>0, <1>6 DEF ChangePassword, Cut
  <2>2. users' = users \/ (i \in Live /\ users' = [users EXCEPT ![i] = Bumped(i)])
    BY <1>6 DEF ChangePassword
  <2>3. i \in Live => Bumped(i).version = users[i].version + 1
    BY BumpedFacts DEF IInv
  <2>4. /\ Live' \subseteq Live
        /\ \A j \in Live' : /\ users'[j].version >= users[j].version
                           /\ users'[j].version \in Nat
    <3>1. \A j \in Live : users'[j] = users[j] \/ (j = i /\ users'[j] = Bumped(i))
      BY <1>0, <1>00, <2>2
    <3>2. Live' \subseteq Live
      BY <1>0, <2>2 DEF Live
    <3>3. \A j \in Live : users[j].version \in Nat
      BY <1>00
    <3>4. i \in Live => /\ Bumped(i).version >= users[i].version
                        /\ Bumped(i).version \in Nat
      BY <2>3, <3>3
    <3> HIDE DEF i
    <3>5. \A j \in Live : users'[j].version >= users[j].version /\ users'[j].version \in Nat
      BY <3>1, <3>3, <3>4
    <3> QED BY <3>2, <3>5
  <2> SUFFICES ASSUME NEW c \in cut, cookie[c].id \in Live'
               PROVE  /\ pc'[c] \notin {"changing", "reissuing"}
                      /\ cookie[c].version < users'[cookie[c].id].version
    BY <2>1, <2>4 DEF Cut
  <2>5. c \in Browser /\ c # b
    BY <1>0, <2>1, <2>4
  <2> QED BY <1>0, <1>00, <2>1, <2>4, <2>5 DEF Cut
<1>7. ASSUME NEW b \in Browser, Reissue(b) PROVE Cut'
  <2>1. b \in cut => cookie[b].id \notin Live
    BY <1>7 DEF Reissue, Cut, PInv
  <2>2. /\ UNCHANGED <<users, cut>> /\ pc' = [pc EXCEPT ![b] = "idle"]
        /\ \A c \in Browser \ {b} : cookie'[c] = cookie[c]
        /\ b \in cut => cookie' = cookie
    BY <1>0, <1>7, <2>1 DEF Reissue
  <2>3. /\ Live' = Live
        /\ \A c \in cut : c # b => pc'[c] = pc[c] /\ cookie'[c] = cookie[c]
    BY <1>0, <2>2 DEF Live
  <2> QED BY <1>0, <2>1, <2>2, <2>3 DEF Cut
<1>8. ASSUME NEW b \in Browser, NEW p \in Person, Begin(b, p) PROVE Cut'
  <2>1. pc' = [pc EXCEPT ![b] = "linking"] \/ pc' = [pc EXCEPT ![b] = "recording"]
    BY <1>8 DEF Begin
  <2>2. UNCHANGED <<users, cookie, cut>>
    BY <1>8 DEF Begin
  <2> QED BY <1>0, <1>2, <2>1, <2>2 DEF Live
<1>9. ASSUME NEW b \in Browser, FindByLink(b) PROVE Cut'
  <2>1. pc' = [pc EXCEPT ![b] = "recording"] \/ pc' = [pc EXCEPT ![b] = "creating"]
    BY <1>9 DEF FindByLink
  <2>2. UNCHANGED <<users, cookie, cut>>
    BY <1>9 DEF FindByLink
  <2> QED BY <1>0, <1>2, <2>1, <2>2 DEF Live
<1>10. ASSUME NEW b \in Browser, CreateSso(b) PROVE Cut'
  <2>1. UNCHANGED <<cookie, cut>>
        /\ (pc' = [pc EXCEPT ![b] = "idle"] \/ pc' = [pc EXCEPT ![b] = "recording"])
    BY <1>10 DEF CreateSso
  <2>2. \/ UNCHANGED users
        \/ users' = [users EXCEPT ![nextId] = NewSsoRow(req[b].person, req[b].name)]
    BY <1>10 DEF CreateSso
  <2>3. nextId \notin Live
    BY <1>0, <1>00 DEF IInv, Ids
  <2>4. /\ Live' \subseteq Live \cup {nextId}
        /\ \A i \in Live : users'[i] = users[i]
    BY <1>0, <1>00, <2>2, <2>3 DEF Live
  <2> QED BY <1>0, <1>2, <2>1, <2>4
<1>11. ASSUME NEW b \in Browser, Record(b) PROVE Cut'
  <2>1. UNCHANGED <<cookie, cut>>
        /\ (pc' = [pc EXCEPT ![b] = "idle"] \/ pc' = [pc EXCEPT ![b] = "entering"])
    BY <1>11 DEF Record
  <2>2. Live' \subseteq Live /\ \A i \in Live : users'[i].version = users[i].version
    <3> DEFINE i == req[b].found
               R == [users[i] EXCEPT !.sub = req[b].person, !.link = None,
                       !.email = IF req[b].mail = "none" THEN @ ELSE req[b].person,
                       !.ssoAdmin = req[b].admin]
    <3>1. users' = users \/ (i \in Live /\ users' = [users EXCEPT ![i] = R])
      BY <1>11 DEF Record
    <3>2. i \in Live => users[i] \in Row
      BY <1>0 DEF Live
    <3>3. i \in Live => R.version = users[i].version
      BY <3>2 DEF Row
    <3> HIDE DEF R
    <3> QED BY <1>0, <3>1, <3>3 DEF Live
  <2> QED BY <1>0, <1>2, <2>1, <2>2
<1>12. ASSUME NEW i \in Id, Delete(i) PROVE Cut'
  <2>1. /\ cut' = cut \cup {b \in Browser : cookie[b].id \in {i}}
        /\ UNCHANGED <<cookie, pc>>
    BY <1>12 DEF Delete, OnAccount
  <2>2. i \notin Live' /\ Live' \subseteq Live /\ \A j \in Live' : users'[j] = users[j]
    BY <1>0, <1>12 DEF Delete, Live
  <2>3. /\ cut' \subseteq cut \cup {b \in Browser : cookie[b].id \in {i}}
        /\ \A j \in Live' \ {i} : users'[j] = users[j]
        /\ \A j \in Live' \cap {i} : /\ users'[j].version = users[j].version + 1
                                   /\ \A b \in Browser : pc[b] = "idle"
    BY <2>1, <2>2
  <2> QED BY <1>3, <2>1, <2>2, <2>3
<1>13. ASSUME NEW i \in Id, NEW p \in Person, BeginLink(i, p) PROVE Cut'
  BY <1>0, <1>2, <1>13 DEF BeginLink, Live
<1>14. ASSUME SetLink PROVE Cut'
  <2>1. Live' \subseteq Live /\ \A i \in Live : users'[i].version = users[i].version
    <3> DEFINE i == linking.to  R == [users[i] EXCEPT !.link = linking.person]
    <3>1. users' = users \/ (i \in Live /\ users' = [users EXCEPT ![i] = R])
      BY <1>14 DEF SetLink
    <3>2. i \in Live => users[i] \in Row
      BY <1>0 DEF Live
    <3>3. i \in Live => R.version = users[i].version
      BY <3>2 DEF Row
    <3> HIDE DEF R
    <3> QED BY <1>0, <3>1, <3>3 DEF Live
  <2> QED BY <1>0, <1>2, <1>14, <2>1 DEF SetLink
<1>15. ASSUME MoveIdentity PROVE Cut'
  <2> DEFINE S == {linking.from, linking.to}
  <2>1. /\ \A b \in Browser : pc[b] = "idle"
        /\ UNCHANGED <<cookie, pc>>
    BY <1>15 DEF MoveIdentity, PInv, LinkAlone
  <2>2. CASE linking.from \in Live
    <3>1. /\ Live' \subseteq Live \ {linking.from}
          /\ \A j \in Live' \ {linking.to} : users'[j] = users[j]
          /\ linking.to \in Live' =>
               users'[linking.to].version = users[linking.to].version + 1
      BY <1>15, <2>2, MoveFacts DEF IInv
    <3>2. cut' = cut \cup {b \in Browser : cookie[b].id \in S}
      BY <1>15, <2>2 DEF MoveIdentity, OnAccount
    <3>3. \A i \in Live' \cap S : users'[i].version = users[i].version + 1
      BY <3>1
    <3>4. Live' \subseteq Live /\ \A i \in Live' \ S : users'[i] = users[i]
      BY <3>1
    <3> HIDE DEF S
    <3> QED BY <1>3, <2>1, <3>2, <3>3, <3>4
  <2>3. CASE linking.from \notin Live
    <3>1. UNCHANGED <<users, cut>>
      BY <1>15, <2>3 DEF MoveIdentity
    <3> QED BY <1>0, <1>2, <2>1, <3>1 DEF Live
  <2> QED BY <2>2, <2>3
<1>16. ASSUME NEW i \in Id, Unlink(i) PROVE Cut'
  <2>1. /\ cut' = cut \cup {b \in Browser : cookie[b].id \in {i}}
        /\ UNCHANGED <<cookie, pc>> /\ \A b \in Browser : pc[b] = "idle"
    BY <1>16 DEF Unlink, OnAccount, Settled
  <2>2. /\ Live' \subseteq Live /\ users'[i].version = users[i].version + 1
        /\ \A j \in Live \ {i} : users'[j] = users[j]
    <3> DEFINE R == [Bumped(i) EXCEPT !.sub = None, !.link = None, !.ssoAdmin = FALSE]
    <3>1. i \in Live /\ users' = [users EXCEPT ![i] = R]
      BY <1>16 DEF Unlink
    <3>2. users[i] \in Row
      BY <1>0, <3>1 DEF Live
    <3>3. R.version = users[i].version + 1
      BY <3>2 DEF Row, Bumped
    <3> HIDE DEF R
    <3> QED BY <1>0, <3>1, <3>3 DEF Live
  <2>3. /\ cut' \subseteq cut \cup {b \in Browser : cookie[b].id \in {i}}
        /\ \A j \in Live' \ {i} : users'[j] = users[j]
        /\ \A j \in Live' \cap {i} : /\ users'[j].version = users[j].version + 1
                                   /\ \A b \in Browser : pc[b] = "idle"
    BY <2>1, <2>2
  <2> QED BY <1>3, <2>1, <2>2, <2>3
<1>17. ASSUME NEW p \in Person, NEW g \in {"none", "users", "admins"}, Regroup(p, g)
       PROVE  Cut'
  BY <1>0, <1>2, <1>17 DEF Regroup, Live
<1>18. ASSUME Tick \/ UNCHANGED vars PROVE Cut'
  BY <1>0, <1>2, <1>18 DEF Tick, vars, Live
<1> HIDE DEF Goto, rows, world, session
<1> QED
  BY <1>4, <1>5, <1>6, <1>7, <1>8, <1>9, <1>10, <1>11, <1>12, <1>13, <1>14, <1>15,
     <1>16, <1>17, <1>18
  DEF Next, Idle

LEMMA AlwaysPInv == ASSUME Prompt PROVE Spec => [](IInv /\ PInv)
<1>1. IInv /\ PInv /\ [Next]_vars => PInv'
  BY LinkAloneStep, AskedStep, FoundStep, SessionsStep, CutStep DEF PInv
<1> QED BY <1>1, InitIInv, NextIInv, InitPInv, PTL DEF Spec

-----------------------------------------------------------------------------
(* Theorems. *)

\* Every variable keeps its type, however many people and browsers there are;
\* among the rest, a sign-in always finds a free name.
THEOREM TypeCorrect == Spec => []TypeOK
<1>1. IInv => TypeOK
  BY DEF IInv
<1> QED BY <1>1, AlwaysIInv, PTL

\* OneAccountEach: sign-ins that meet each other or a link leave each person
\* one account.
THEOREM OneAccountPerPerson == Spec => []OneAccountEach
<1>1. IInv => OneAccountEach
  BY DEF IInv
<1> QED BY <1>1, AlwaysIInv, PTL

\* EndedStayEnded: while links are left alone during sign-ins and password
\* changes, a session that a password change, an unlinking, a move or a
\* deletion has ended is not served again.
THEOREM EndedSessionsStayEnded == ASSUME Prompt PROVE Spec => []EndedStayEnded
<1>1. IInv /\ PInv => EndedStayEnded
  <2> SUFFICES ASSUME IInv, PInv, NEW b \in ended \cup cut, Served(b) PROVE FALSE
    BY DEF EndedStayEnded
  <2>1. b \in Browser /\ Loads(b)
    BY DEF IInv, TypeOK, Served
  <2>2. /\ cookie[b].version < users[cookie[b].id].version
        /\ cookie[b].version = users[cookie[b].id].version
        /\ cookie[b].version \in Nat
    BY <2>1 DEF Loads, IInv, Versions, PInv, Cut, TypeOK, Cookie
  <2> QED BY <2>2
<1> QED BY <1>1, AlwaysPInv, PTL

\* SessionsFollowIdentity: while links are left alone during sign-ins, who came
\* in through the provider works in the account that has their identity.
THEOREM SessionsStayWithIdentity ==
    ASSUME Prompt PROVE Spec => []SessionsFollowIdentity
<1>1. IInv /\ PInv => SessionsFollowIdentity
  BY DEF PInv, Sessions, Session, InUse, SessionsFollowIdentity, Served, Loads
<1> QED BY <1>1, AlwaysPInv, PTL

\* GroupsTakeEffect: while links are left alone during sign-ins, leaving a
\* group takes effect within OIDC_SESSION_HOURS.
THEOREM LeavingTakesEffect == ASSUME Prompt PROVE Spec => []GroupsTakeEffect
<1>1. IInv /\ PInv => GroupsTakeEffect
  <2> SUFFICES ASSUME IInv, PInv, NEW b \in Browser, Served(b)
               PROVE  LET u == users[cookie[b].id] IN
                        /\ by[b] \in Person => Lately(by[b], "users")
                        /\ u.ssoAdmin /\ ~u.admin => u.sub # None /\ Lately(u.sub, "admins")
    BY DEF GroupsTakeEffect
  <2> DEFINE u == users[cookie[b].id]  p == by[b]  at == cookie[b].at
  <2>1. InUse(b) /\ Session(b) /\ cookie[b].id # None
    BY NoneAssumption DEF Served, Loads, InUse, PInv, Sessions, Live, Id
  <2>2. p \in Person \/ p = "password"
    BY <2>1 DEF IInv, TypeOK, PInv, Sessions
  <2>3. p = "password" => u.admin /\ p \notin Person
    BY <2>1, NoneAssumption DEF Session
  <2>4. p \in Person => at \in Nat /\ now \in Nat /\ now - at < Hours
    BY <2>1, BoundAssumption DEF Session, Served, Overdue, IInv, TypeOK, Cookie
  <2>5. ASSUME NEW g \in {"users", "admins"}, p \in Person, LeftSince(p, g, at)
        PROVE  Lately(p, g)
    <3>1. left[p][g] \in Nat /\ at <= left[p][g]
      BY <2>5 DEF LeftSince, IInv, TypeOK
    <3> QED BY <2>4, <2>5, <3>1, BoundAssumption DEF Lately, LeftSince
  <2>6. p \in Person => Lately(p, "users")
    <3>1. p \in Person => groups[p] \in {"none", "users", "admins"}
      BY DEF IInv, TypeOK
    <3> QED BY <2>1, <2>5, <3>1 DEF Session, Lately
  <2>7. p \in Person /\ u.ssoAdmin => u.sub = p /\ Lately(p, "admins")
    BY <2>1, <2>5 DEF Session, Lately
  <2> QED BY <2>2, <2>3, <2>6, <2>7, NoneAssumption
<1> QED BY <1>1, AlwaysPInv, PTL
=============================================================================
