------------------------------- MODULE PtpPool -------------------------------
(***************************************************************************)
(* One point-to-point pool of a project (src/app/project.py): the /31      *)
(* links in allocations.json, claimed and released one end at a time by    *)
(* the editor and rebuilt for one switch by sync_allocations when that     *)
(* switch is saved.                                                        *)
(*                                                                         *)
(* Every operation runs under the project lock (ProjectLock), so the       *)
(* editor's are one step each and none runs while a sync does.  The sync   *)
(* is taken apart, since it works through its switch's entries and         *)
(* interfaces one at a time on the document in memory and saves it last.   *)
(***************************************************************************)
EXTENDS Naturals, Sequences, FiniteSets

CONSTANTS Host,      \* switches
          Iface,     \* interface names
          Pairs,     \* the pool's number of /31s
          Scans,     \* what a saved switch may hold: sequences of addressed
                     \* interfaces, in the order sync_allocations scans them
          None

Address == 0 .. (2 * Pairs - 1)
Claim == [iface : Iface, ip : Address]

ASSUME PairsAssumption == Pairs \in Nat \ {0}
ASSUME NoneAssumption == None \notin Host \cup Iface
ASSUME ScansAssumption == Scans \subseteq Seq(Claim)

(***************************************************************************)
(* An entry names the switch and interface at one end and at the other.    *)
(* It is owned, or reserved for whoever connects to the other end (no      *)
(* host: the code's status "reserved_for_peer").  An address without an    *)
(* entry is Free.                                                          *)
(***************************************************************************)
Entry == {e \in [host : Host \cup {None}, iface : Iface \cup {None},
                 peerHost : Host \cup {None}, peerIface : Iface \cup {None}] :
            e.host = None <=> e.iface = None}

Free == [host |-> None, iface |-> None, peerHost |-> None, peerIface |-> None]
\* Mutation: a reservation does not say which interface it is for.
ReservationOfHost(h, i) == [host |-> None, iface |-> None, peerHost |-> h]

Reservation(h, i) == [Free EXCEPT !.peerHost = h, !.peerIface = i]
Owned(m, a) == m[a].host # None
OwnedBy(m, h) == {a \in Address : m[a].host = h}

\* The other address of a's /31.
Peer(a) == IF a % 2 = 0 THEN a + 1 ELSE a - 1

\* Mutation: a switch at the other end is not told of the new one.
ClaimEndUnlinked(m, a, h, i) ==
    LET other == m[Peer(a)] IN
      [m EXCEPT
         ![a] = [host |-> h, iface |-> i,
                 peerHost |-> other.host, peerIface |-> other.iface],
         ![Peer(a)] = IF Owned(m, Peer(a)) THEN @ ELSE Reservation(h, i)]

\* Record h, i at a.  The other end is linked to it when a switch owns it,
\* and reserved for it otherwise.
ClaimEnd(m, a, h, i) ==
    LET other == m[Peer(a)] IN
      [m EXCEPT
         ![a] = [host |-> h, iface |-> i,
                 peerHost |-> other.host, peerIface |-> other.iface],
         ![Peer(a)] = IF Owned(m, Peer(a))
                        THEN [@ EXCEPT !.peerHost = h, !.peerIface = i]
                        ELSE Reservation(h, i)]

\* Free a: a reservation at the other end goes with it, a switch at the
\* other end gets a back as its reservation.
ReleaseEnd(m, a) ==
    LET other == m[Peer(a)] IN
      IF m[a] = Free THEN m
      ELSE IF Owned(m, Peer(a))
        THEN [m EXCEPT ![a] = Reservation(other.host, other.iface),
                       ![Peer(a)].peerHost = None,
                       ![Peer(a)].peerIface = None]
        ELSE [m EXCEPT ![a] = Free, ![Peer(a)] = Free]

\* Mutation: an interface name is looked up on any switch.
DropInterfaceAnyHost(m, h, i) ==
    LET old == {a \in Address : m[a].iface = i} IN
      [a \in Address |->
         IF a \in old \/ (Peer(a) \in old /\ ~Owned(m, a)) THEN Free ELSE m[a]]

\* register_ptp's clean-up before a claim: h's entries under this interface
\* name go, each with the reservation across from it.
DropInterface(m, h, i) ==
    LET old == {a \in OwnedBy(m, h) : m[a].iface = i} IN
      [a \in Address |->
         IF a \in old \/ (Peer(a) \in old /\ ~Owned(m, a)) THEN Free ELSE m[a]]

-----------------------------------------------------------------------------
VARIABLES
    alloc,    \* the pool's entries in allocations.json
    pc,       \* "idle", or the phase of the sync that holds the project lock
    switch,   \* the switch being synced
    claims,   \* its addressed interfaces, as its host_vars have them
    next,     \* index of the next of them to record
    mem       \* the entries in the sync's memory

vars == <<alloc, pc, switch, claims, next, mem>>

Empty == [a \in Address |-> Free]

\* No sync is running.
AtRest == pc = "idle" /\ switch = None /\ claims = << >> /\ next = 1 /\ mem = Empty

Init == alloc = Empty /\ AtRest

\* The editor picks an address (POST .../allocations/ptp).
Allocate(h, i, a) ==
    /\ pc = "idle"
    /\ alloc' = ClaimEnd(alloc, a, h, i)
    /\ UNCHANGED <<pc, switch, claims, next, mem>>

\* The editor, or the Resources page, lets an address go; whoever holds it.
Release(a) ==
    /\ pc = "idle"
    /\ alloc' = ReleaseEnd(alloc, a)
    /\ UNCHANGED <<pc, switch, claims, next, mem>>

(***************************************************************************)
(* sync_allocations(h), once h has been saved.                             *)
(***************************************************************************)
SyncLoad(h) ==
    /\ pc = "idle"
    /\ \E s \in Scans : claims' = s
    /\ pc' = "clearing"
    /\ switch' = h
    /\ next' = 1
    /\ mem' = alloc
    /\ UNCHANGED alloc

\* Each end h holds is released the way the editor does it.
SyncRelease ==
    /\ pc = "clearing"
    /\ \E a \in OwnedBy(mem, switch) : mem' = ReleaseEnd(mem, a)
    /\ UNCHANGED <<alloc, pc, switch, claims, next>>

\* Mutation: nothing is cleared, so a removed interface keeps its address.
SyncNoClearing ==
    /\ pc = "clearing"
    /\ pc' = "scanning"
    /\ UNCHANGED <<alloc, switch, claims, next, mem>>

\* Then every reservation still held for h.
SyncUnreserve ==
    /\ pc = "clearing" /\ OwnedBy(mem, switch) = {}
    /\ mem' = [a \in Address |->
                 IF ~Owned(mem, a) /\ mem[a].peerHost = switch THEN Free ELSE mem[a]]
    /\ pc' = "scanning"
    /\ UNCHANGED <<alloc, switch, claims, next>>

\* Mutation: an address is skipped when a switch holds the other end.
SyncClaimIfFree ==
    /\ pc = "scanning" /\ next <= Len(claims)
    /\ LET c == claims[next] IN
         mem' = IF Owned(mem, Peer(c.ip)) THEN mem
                ELSE ClaimEnd(DropInterface(mem, switch, c.iface), c.ip, switch, c.iface)
    /\ next' = next + 1
    /\ UNCHANGED <<alloc, pc, switch, claims>>

\* One addressed interface is recorded.
SyncClaim ==
    /\ pc = "scanning" /\ next <= Len(claims)
    /\ LET c == claims[next] IN
         mem' = ClaimEnd(DropInterface(mem, switch, c.iface), c.ip, switch, c.iface)
    /\ next' = next + 1
    /\ UNCHANGED <<alloc, pc, switch, claims>>

SyncSave ==
    /\ pc = "scanning" /\ next > Len(claims)
    /\ alloc' = mem
    /\ pc' = "idle" /\ switch' = None /\ claims' = << >> /\ next' = 1 /\ mem' = Empty

Sync == (\E h \in Host : SyncLoad(h)) \/ SyncRelease \/ SyncUnreserve
        \/ SyncClaim \/ SyncSave

Next == \/ \E h \in Host, i \in Iface, a \in Address : Allocate(h, i, a)
        \/ \E a \in Address : Release(a)
        \/ Sync

Spec == Init /\ [][Next]_vars

-----------------------------------------------------------------------------
(***************************************************************************)
(* Properties                                                              *)
(***************************************************************************)
\* Every variable keeps its type.
TypeOK == /\ alloc \in [Address -> Entry]
          /\ mem \in [Address -> Entry]
          /\ pc \in {"idle", "clearing", "scanning"}
          /\ switch \in Host \cup {None}
          /\ claims \in Seq(Claim)
          /\ next \in Nat \ {0}

\* What an entry says of the other end is what is recorded there: owned ends
\* are linked both ways, a reservation names the switch across from it, an
\* end with a free partner does not exist.
Consistent(m) ==
    \A a \in Address : /\ m[a].peerHost = m[Peer(a)].host
                       /\ m[a].peerIface = m[Peer(a)].iface

\* Both ends of every /31 in allocations.json agree.  _claim_ptp_end and
\* _release_ptp_end were written to keep it so, and the sync uses both "so a
\* partner switch's end is handed back to it rather than orphaned".
PairsConsistent == Consistent(alloc)

\* A call of the editor gives or takes one address: taking the second end of
\* a /31 leaves the first switch's end its own, and so does giving it back.
EditorChangesOneEnd ==
    [][pc = "idle" =>
         \A a, b \in Address :
            /\ alloc'[a].host # alloc[a].host
            /\ alloc'[b].host # alloc[b].host
            => a = b]_vars

\* Claimed addresses, the last interface to claim each, and its index.
Claimed == {claims[k].ip : k \in DOMAIN claims}

Saving == pc = "scanning" /\ pc' = "idle"

\* After a save the switch holds exactly the addresses in its host_vars, each
\* under an interface that carries it, and no reservation but for their links;
\* and it takes an address from another only by carrying it itself, and hands
\* every other switch's own ends back to it.
SyncIsExact ==
    [][Saving =>
         /\ OwnedBy(alloc', switch) = Claimed
         /\ \A a \in Claimed : [iface |-> alloc'[a].iface, ip |-> a]
                                 \in {claims[k] : k \in DOMAIN claims}
         /\ \A a \in Address : alloc'[a].peerHost = switch => Peer(a) \in Claimed
         /\ \A a \in Address \ Claimed :
               alloc[a].host \notin {None, switch}
                 => /\ alloc'[a].host = alloc[a].host
                    /\ alloc'[a].iface = alloc[a].iface]_vars

\* Saving a switch whose addresses are recorded already changes nothing, for
\* it or for its partners (the order of the editor's instant allocation and
\* the save-time sync does not matter).
Recorded(m, h) == {[iface |-> m[a].iface, ip |-> a] : a \in OwnedBy(m, h)}
ResaveIsNoOp ==
    [][(Saving /\ {claims[k] : k \in DOMAIN claims} = Recorded(alloc, switch))
         => alloc' = alloc]_vars
=============================================================================
