------------------------------ MODULE Accounts ------------------------------
(***************************************************************************)
(* Accounts and the sessions on them: the users table (models.py), single  *)
(* sign-on (sso.py), password sign-in and the account page (auth.py), and  *)
(* what an admin does to accounts (admin.py), with single sign-on enabled. *)
(*                                                                         *)
(* A person stands for the identity provider's subject id; two people      *)
(* never share an email address, so a person also stands for the address.  *)
(* Every person's address has the same local part, so that SSO accounts    *)
(* compete for names.                                                      *)
(***************************************************************************)
EXTENDS Naturals, FiniteSets, FiniteSetsExt

CONSTANTS Person,      \* who the identity provider knows
          Browser,     \* browsers, each holding one session cookie
          Hours,       \* OIDC_SESSION_HOURS; not 0, which is no limit
          Mails,       \* Mails[p]: what the provider may say of p's address
          Prompt,      \* links are not changed while someone signs in by SSO
                       \* or changes their password
          MaxId,       \* bound: accounts ever created
          MaxVersion,  \* bound: changes that end one account's sessions,
                       \* together with changes of group membership
          MaxTime,     \* bound: the clock
          MaxRegroups, \* bound: changes of group membership
          None

ASSUME BoundAssumption ==
    /\ Hours \in Nat \ {0} /\ MaxId \in Nat \ {0} /\ MaxVersion \in Nat
    /\ MaxTime \in Nat /\ MaxRegroups \in Nat
ASSUME PromptAssumption == Prompt \in BOOLEAN
ASSUME MailsAssumption ==
    Mails \in [Person -> SUBSET {"verified", "unverified", "none"}]
ASSUME NoneAssumption ==
    None \notin Person \cup Nat \cup {"password"} /\ "password" \notin Person

VARIABLES
    users,      \* users[i]: the row with id i, or None
    nextId,     \* AUTOINCREMENT: the id of the next row
    cookie,     \* cookie[b]: the session in browser b
    pc,         \* what b's request is about to do
    req,        \* req[b]: b's sign-in in progress
    linking,    \* the link an admin's request is about to make, or None
    groups,     \* groups[p]: "none", "users" or "admins" (who are users too)
    now,        \* the clock, in hours
    regroups,
    by,         \* history: who signed in for cookie[b], or "password"
    ended,      \* history: browsers whose session a password change has ended
    cut,        \* history: those that an unlinking, a move or a deletion has ended
    left        \* history: left[p][g]: when p's groups last changed while in g

rows == <<users, nextId>>
world == <<groups, now, regroups, left>>
session == <<cookie, by, ended, cut>>
vars == <<rows, session, pc, req, linking, world>>

Id == 1..MaxId
Row == [source : {"local", "sso"}, name : 0..(MaxId + 1), admin : BOOLEAN,
        sub : Person \cup {None}, email : Person \cup {None},
        link : Person \cup {None}, ssoAdmin : BOOLEAN, version : 0..MaxVersion]

NoCookie == [id |-> None, version |-> 0, sso |-> FALSE, at |-> None]
NoRequest == [person |-> None, mail |-> "none", admin |-> FALSE,
              found |-> None, name |-> 0]

Goto(b, label) == pc' = [pc EXCEPT ![b] = label]

Live == {i \in Id : users[i] # None}
WithSub(p) == {i \in Live : users[i].sub = p}
FirstOf(S) == IF S = {} THEN None ELSE Min(S)

\* Bounds: room for one more row, and for one more change of i's version,
\* beside those that requests under way may make.
Making == {b \in Browser : pc[b] \in {"linking", "creating"}}
RoomForRow == nextId + Cardinality(Making) <= MaxId
Bumping(i) == {b \in Browser : pc[b] = "changing" /\ cookie[b].id = i}
Spent(i) == users[i].version + Cardinality(Bumping(i)) + regroups
              + (IF linking # None /\ linking.to = i THEN 1 ELSE 0)
MayBump(i) == Spent(i) < MaxVersion

\* get_by_link_email: an account waiting for the email, not yet linked.
Waiting(p) == {i \in Live : users[i].link = p /\ users[i].sub = None}

\* username_for: the first of base, base-2, base-3 ... that is free.
FreeName == Min({n \in 1..(MaxId + 1) : \A i \in Live : users[i].name # n})

LocalRow(a) ==
    [source |-> "local", name |-> 0, admin |-> a, sub |-> None, email |-> None,
     link |-> None, ssoAdmin |-> FALSE, version |-> 0]

Init ==
    /\ \E a \in BOOLEAN : users = [i \in Id |-> IF i = 1 THEN LocalRow(a) ELSE None]
    /\ nextId = 2
    /\ cookie = [b \in Browser |-> NoCookie]
    /\ pc = [b \in Browser |-> "idle"]
    /\ req = [b \in Browser |-> NoRequest]
    /\ linking = None
    /\ groups = [p \in Person |-> "admins"]
    /\ now = 0 /\ regroups = 0
    /\ by = [b \in Browser |-> None]
    /\ ended = {} /\ cut = {}
    /\ left = [p \in Person |-> [g \in {"users", "admins"} |-> None]]

-----------------------------------------------------------------------------
(***************************************************************************)
(* Sessions                                                                *)
(***************************************************************************)
\* from_session_id: the account must be there and of the cookie's version.
Loads(b) == /\ cookie[b].id \in Live
            /\ users[cookie[b].id].version = cookie[b].version

\* Mutation: only accounts made by single sign-on are limited.
OverdueSsoOnly(b) == /\ users[cookie[b].id].source = "sso"
                     /\ cookie[b].at # None => now - cookie[b].at >= Hours

\* _expire_sso_session, for a session that loads.
Overdue(b) == /\ cookie[b].sso \/ users[cookie[b].id].source = "sso"
              /\ cookie[b].at # None => now - cookie[b].at >= Hours

\* A request with b's cookie is served as the account's.
Served(b) == Loads(b) /\ ~Overdue(b)

Expire(b) ==
    /\ pc[b] = "idle" /\ Loads(b) /\ Overdue(b)
    /\ cookie' = [cookie EXCEPT ![b] = NoCookie]
    /\ by' = [by EXCEPT ![b] = None]
    /\ ended' = ended \ {b} /\ cut' = cut \ {b}
    /\ UNCHANGED <<rows, pc, req, linking, world>>

\* logout, which an overdue session may still ask for.
Logout(b) ==
    /\ pc[b] = "idle" /\ Loads(b)
    /\ cookie' = [cookie EXCEPT ![b] = NoCookie]
    /\ by' = [by EXCEPT ![b] = None]
    /\ ended' = ended \ {b} /\ cut' = cut \ {b}
    /\ UNCHANGED <<rows, pc, req, linking, world>>

\* login: with single sign-on enabled, for local admins only, and only
\* from a browser without a session that loads.  What an earlier session
\* left in the cookie stays there.
PasswordLogin(b, i) ==
    /\ pc[b] = "idle" /\ ~Loads(b)
    /\ i \in Live /\ users[i].source = "local" /\ users[i].admin
    /\ cookie' = [cookie EXCEPT ![b].id = i, ![b].version = users[i].version]
    /\ by' = [by EXCEPT ![b] = "password"]
    /\ ended' = ended \ {b} /\ cut' = cut \ {b}
    /\ UNCHANGED <<rows, pc, req, linking, world>>

\* account: the current password has been checked.
AskPassword(b) ==
    /\ pc[b] = "idle" /\ Served(b) /\ users[cookie[b].id].source = "local"
    /\ Prompt => linking = None
    /\ MayBump(cookie[b].id)
    /\ Goto(b, "changing")
    /\ UNCHANGED <<rows, session, req, linking, world>>

OnAccount(i) == {b \in Browser : cookie[b].id = i}
Bumped(i) == [users[i] EXCEPT !.version = @ + 1]

\* change_password.
ChangePassword(b) ==
    /\ pc[b] = "changing"
    /\ LET i == cookie[b].id IN
         IF i \in Live
           THEN /\ users' = [users EXCEPT ![i] = Bumped(i)]
                /\ ended' = ended \cup OnAccount(i)
           ELSE UNCHANGED <<users, ended>>
    /\ Goto(b, "reissuing")
    /\ UNCHANGED <<nextId, cookie, by, cut, req, linking, world>>

\* login_user(User.get(...)): this browser's session goes on, with the
\* version the account has by now, whatever else has ended it since.
Reissue(b) ==
    /\ pc[b] = "reissuing"
    /\ LET i == cookie[b].id IN
         IF i \in Live
           THEN /\ cookie' = [cookie EXCEPT ![b].version = users[i].version]
                /\ ended' = ended \ {b}
           ELSE UNCHANGED <<cookie, ended>>
    /\ Goto(b, "idle")
    /\ UNCHANGED <<rows, by, cut, req, linking, world>>

-----------------------------------------------------------------------------
(***************************************************************************)
(* Signing in through the provider: sign_in and callback, one database     *)
(* transaction at a time.                                                  *)
(***************************************************************************)
\* The provider's claims arrive.  Someone outside the allowed group is
\* refused; the account is looked for by subject id.
Begin(b, p) ==
    /\ pc[b] = "idle" /\ groups[p] # "none"
    /\ Prompt => linking = None
    /\ RoomForRow \/ WithSub(p) # {}
    /\ \E mail \in Mails[p] :
         req' = [req EXCEPT ![b] =
                   [person |-> p, mail |-> mail, admin |-> groups[p] = "admins",
                    found |-> FirstOf(WithSub(p)), name |-> 0]]
    /\ Goto(b, IF WithSub(p) = {} THEN "linking" ELSE "recording")
    /\ UNCHANGED <<rows, session, linking, world>>

\* No account yet: one that waits for the email, if the address counts as
\* verified; failing that, a free name for a new account.
FindByLink(b) ==
    /\ pc[b] = "linking"
    /\ LET W == IF req[b].mail = "verified" THEN Waiting(req[b].person) ELSE {} IN
         IF W # {}
           THEN /\ req' = [req EXCEPT ![b].found = FirstOf(W)]
                /\ Goto(b, "recording")
           ELSE /\ req' = [req EXCEPT ![b].name = FreeName]
                /\ Goto(b, "creating")
    /\ UNCHANGED <<rows, session, linking, world>>

NewSsoRow(p, n) ==
    [source |-> "sso", name |-> n, admin |-> FALSE, sub |-> p, email |-> None,
     link |-> None, ssoAdmin |-> FALSE, version |-> 0]

\* Mutation: no unique index on the subject id.
CreateAnyway(b) ==
    /\ pc[b] = "creating"
    /\ users' = [users EXCEPT ![nextId] = NewSsoRow(req[b].person, FreeName)]
    /\ nextId' = nextId + 1
    /\ req' = [req EXCEPT ![b].found = nextId, ![b].name = 0]
    /\ Goto(b, "recording")
    /\ UNCHANGED <<session, linking, world>>

\* create_sso: the unique indexes refuse a name or a subject id that has
\* come in since, and the sign-in fails.
CreateSso(b) ==
    /\ pc[b] = "creating"
    /\ IF \E i \in Live : users[i].sub = req[b].person \/ users[i].name = req[b].name
         THEN Goto(b, "idle") /\ req' = [req EXCEPT ![b] = NoRequest] /\ UNCHANGED rows
         ELSE /\ users' = [users EXCEPT ![nextId] = NewSsoRow(req[b].person, req[b].name)]
              /\ nextId' = nextId + 1
              /\ req' = [req EXCEPT ![b].found = nextId, ![b].name = 0]
              /\ Goto(b, "recording")
    /\ UNCHANGED <<session, linking, world>>

\* record_sso_login: nothing happens when the row has gone, and the unique
\* index refuses a subject id that another account has.
Record(b) ==
    /\ pc[b] = "recording"
    /\ LET i == req[b].found  p == req[b].person IN
         IF i \in Live /\ WithSub(p) \ {i} # {}
           THEN Goto(b, "idle") /\ req' = [req EXCEPT ![b] = NoRequest] /\ UNCHANGED users
           ELSE /\ users' = IF i \in Live
                  THEN [users EXCEPT ![i].sub = p, ![i].link = None,
                          ![i].email = IF req[b].mail = "none" THEN @ ELSE p,
                          ![i].ssoAdmin = req[b].admin]
                  ELSE users
                /\ Goto(b, "entering") /\ UNCHANGED req
    /\ UNCHANGED <<nextId, session, linking, world>>

\* Mutation: the cookie holds when the session is to end.
EnterExpiry(b) ==
    /\ pc[b] = "entering"
    /\ cookie' = [cookie EXCEPT ![b] =
         [id |-> req[b].found, version |-> 0, sso |-> TRUE, at |-> now + Hours]]
    /\ req' = [req EXCEPT ![b] = NoRequest]
    /\ Goto(b, "idle")
    /\ UNCHANGED <<rows, by, ended, cut, linking, world>>

\* callback's login_user, with the row as it is now; none is an error page.
Enter(b) ==
    /\ pc[b] = "entering"
    /\ LET i == req[b].found IN
         IF i \in Live
           THEN /\ cookie' = [cookie EXCEPT ![b] =
                     [id |-> i, version |-> users[i].version, sso |-> TRUE, at |-> now]]
                /\ by' = [by EXCEPT ![b] = req[b].person]
                /\ ended' = ended \ {b} /\ cut' = cut \ {b}
           ELSE UNCHANGED session
    /\ req' = [req EXCEPT ![b] = NoRequest]
    /\ Goto(b, "idle")
    /\ UNCHANGED <<rows, linking, world>>

-----------------------------------------------------------------------------
(***************************************************************************)
(* What admins do                                                          *)
(***************************************************************************)
Settled == Prompt => \A b \in Browser : pc[b] = "idle"

\* Mutation: an id is given again.
DeleteAndReuse(i) ==
    /\ i \in Live
    /\ users' = [users EXCEPT ![i] = None]
    /\ nextId' = IF i = nextId - 1 THEN i ELSE nextId
    /\ cut' = cut \cup OnAccount(i)
    /\ UNCHANGED <<cookie, by, ended, pc, req, linking, world>>

\* User.delete; what else delete_user does is in Sharing.
Delete(i) ==
    /\ i \in Live
    /\ users' = [users EXCEPT ![i] = None]
    /\ cut' = cut \cup OnAccount(i)
    /\ UNCHANGED <<nextId, cookie, by, ended, pc, req, linking, world>>

\* link_sso looks: an unlinked local account, and either the SSO account that
\* has the email or was named, or none yet.
BeginLink(i, p) ==
    /\ linking = None /\ Settled
    /\ i \in Live /\ users[i].source = "local" /\ users[i].sub = None
    /\ MayBump(i)
    /\ LET E == {j \in Live : users[j].source = "sso" /\ users[j].email = p}
           N == {j \in Live : users[j].source = "sso" /\ users[j].sub = p} IN
         \/ linking' = [to |-> i, from |-> FirstOf(E), person |-> p]
         \/ N # {} /\ linking' = [to |-> i, from |-> FirstOf(N), person |-> p]
    /\ UNCHANGED <<rows, session, pc, req, world>>

\* No SSO account yet: set_link_email.
SetLink ==
    /\ linking # None /\ linking.from = None
    /\ users' = IF linking.to \in Live
         THEN [users EXCEPT ![linking.to].link = linking.person] ELSE users
    /\ linking' = None
    /\ UNCHANGED <<nextId, session, pc, req, world>>

\* move_sso_identity: one transaction, rolled back when there is nothing to
\* move from.  An account to move to that has gone is not noticed.
MoveIdentity ==
    /\ linking # None /\ linking.from # None
    /\ LET from == linking.from  to == linking.to IN
         IF from \in Live
           THEN /\ users' = [i \in Id |->
                     CASE i = from -> None
                       [] i = to /\ to \in Live ->
                            [Bumped(to) EXCEPT !.sub = users[from].sub,
                               !.email = users[from].email, !.link = None,
                               !.ssoAdmin = users[from].ssoAdmin]
                       [] OTHER -> users[i]]
                /\ cut' = cut \cup OnAccount(from) \cup OnAccount(to)
           ELSE UNCHANGED <<users, cut>>
    /\ linking' = None
    /\ UNCHANGED <<nextId, cookie, by, ended, pc, req, world>>

\* Mutation: unlinking leaves the sessions.
UnlinkQuietly(i) ==
    /\ Settled
    /\ i \in Live /\ users[i].source = "local" /\ MayBump(i)
    /\ users' = [users EXCEPT ![i].sub = None, ![i].link = None, ![i].ssoAdmin = FALSE]
    /\ UNCHANGED <<nextId, session, pc, req, linking, world>>

\* unlink_sso, for local accounts.
Unlink(i) ==
    /\ Settled
    /\ i \in Live /\ users[i].source = "local" /\ MayBump(i)
    /\ users' = [users EXCEPT ![i] = [Bumped(i) EXCEPT !.sub = None, !.link = None,
                                                      !.ssoAdmin = FALSE]]
    /\ cut' = cut \cup OnAccount(i)
    /\ UNCHANGED <<nextId, cookie, by, ended, pc, req, linking, world>>

-----------------------------------------------------------------------------
(***************************************************************************)
(* The world                                                               *)
(***************************************************************************)
\* People join and leave the provider's groups.
Regroup(p, g) ==
    /\ regroups < MaxRegroups /\ \A i \in Live : MayBump(i)
    /\ g # groups[p]
    /\ regroups' = regroups + 1
    /\ groups' = [groups EXCEPT ![p] = g]
    /\ left' = [left EXCEPT ![p] =
         [h \in {"users", "admins"} |->
            IF groups[p] = "admins" \/ (groups[p] = "users" /\ h = "users")
              THEN now ELSE @[h]]]
    /\ UNCHANGED <<rows, session, pc, req, linking, now>>

\* An hour passes; a request takes less.
Tick ==
    /\ now < MaxTime /\ \A b \in Browser : pc[b] = "idle"
    /\ now' = now + 1
    /\ UNCHANGED <<rows, session, pc, req, linking, groups, regroups, left>>

\* No request is under way, and the server waits for more.
Idle == linking = None /\ (\A b \in Browser : pc[b] = "idle") /\ UNCHANGED vars

Next ==
    \/ \E b \in Browser :
         \/ Expire(b) \/ Logout(b) \/ AskPassword(b) \/ ChangePassword(b) \/ Reissue(b)
         \/ FindByLink(b) \/ CreateSso(b) \/ Record(b) \/ Enter(b)
         \/ \E i \in Id : PasswordLogin(b, i)
         \/ \E p \in Person : Begin(b, p)
    \/ SetLink \/ MoveIdentity \/ Tick \/ Idle
    \/ \E i \in Id : Delete(i) \/ Unlink(i) \/ \E p \in Person : BeginLink(i, p)
    \/ \E p \in Person, g \in {"none", "users", "admins"} : Regroup(p, g)

Spec == Init /\ [][Next]_vars

-----------------------------------------------------------------------------
(***************************************************************************)
(* Properties                                                              *)
(***************************************************************************)
Labels == {"idle", "changing", "reissuing", "linking", "creating", "recording",
           "entering"}

Cookie == [id : Id \cup {None}, version : 0..MaxVersion, sso : BOOLEAN,
           at : 0..MaxTime \cup {None}]
Request == [person : Person \cup {None}, mail : {"verified", "unverified", "none"},
            admin : BOOLEAN, found : Id \cup {None}, name : 0..(MaxId + 1)]
Link == [to : Id, from : Id \cup {None}, person : Person]

\* Every variable keeps its type.
TypeOK ==
    /\ users \in [Id -> Row \cup {None}] /\ nextId \in 1..(MaxId + 1)
    /\ cookie \in [Browser -> Cookie]
    /\ pc \in [Browser -> Labels] /\ req \in [Browser -> Request]
    /\ linking \in Link \cup {None}
    /\ groups \in [Person -> {"none", "users", "admins"}]
    /\ now \in 0..MaxTime /\ regroups \in 0..MaxRegroups
    /\ by \in [Browser -> Person \cup {"password", None}]
    /\ ended \subseteq Browser /\ cut \subseteq Browser
    /\ left \in [Person -> [{"users", "admins"} -> 0..MaxTime \cup {None}]]

\* One person has one account, however many of their sign-ins meet each other
\* or an admin's link, and no account made by single sign-on is left without
\* the identity that alone can open it.
OneAccountEach ==
    \A i \in Live :
        /\ users[i].source = "sso" => users[i].sub # None
        /\ \A j \in Live \ {i} : users[i].sub # None => users[i].sub # users[j].sub

\* "Sessions end" (unlink_sso), "Give to_id the SSO identity from_id holds"
\* (move_sso_identity): whoever came in through the provider works in the
\* account that has their identity now, whatever was linked, unlinked,
\* moved, deleted or created since they signed in.
SessionsFollowIdentity ==
    \A b \in Browser :
        (Served(b) /\ by[b] \in Person) => users[cookie[b].id].sub = by[b]

\* "every session issued before the change stops loading" (User): a session
\* that a password change, an unlinking, a move or a deletion has ended is
\* never served again, although a password change renews its own session in
\* a transaction of its own: renewing undoes what password changes have ended
\* and nothing else.  Needs Prompt.
EndedStayEnded == \A b \in ended \cup cut : ~Served(b)

Lately(p, g) == \/ groups[p] = "admins" \/ groups[p] = g
                \/ left[p][g] # None /\ now - left[p][g] < Hours

\* "so leaving a group takes effect within that time" (sso.py): who left the
\* allowed group OIDC_SESSION_HOURS ago is in no session, and who left the
\* admin group then is an admin only if made one by hand.
GroupsTakeEffect ==
    \A b \in Browser : Served(b) =>
        LET u == users[cookie[b].id] IN
          /\ by[b] \in Person => Lately(by[b], "users")
          /\ u.ssoAdmin /\ ~u.admin => u.sub # None /\ Lately(u.sub, "admins")
=============================================================================
