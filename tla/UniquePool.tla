------------------------------ MODULE UniquePool ------------------------------
(***************************************************************************)
(* One unique-address pool of a project (src/app/project.py): loopbacks    *)
(* and anycast VTEPs.  An address has one holder, except that a VTEP,      *)
(* which both members of a VSX pair carry, is recorded as shared and may   *)
(* have two.  The editor's calls are one step each under the project lock; *)
(* sync_allocations is taken apart as in PtpPool.                          *)
(***************************************************************************)
EXTENDS Naturals, Sequences

CONSTANTS Host, Iface, Address,
          Scans,     \* what a saved switch may hold: its addressed loopbacks
                     \* in order, then its VTEP (the claim that is shared)
          None

Claim == [iface : Iface, ip : Address, shared : BOOLEAN]

ASSUME NoneAssumption == None \notin Host \cup Iface
ASSUME ScansAssumption == Scans \subseteq Seq(Claim)

(***************************************************************************)
(* hostname, interface, shared, shared_with and shared_with_interface of   *)
(* an entry; an address without an entry is Free.                          *)
(***************************************************************************)
Entry == [host : Host \cup {None}, iface : Iface \cup {None}, shared : BOOLEAN,
          with : Host \cup {None}, withIface : Iface \cup {None}]

Free == [host |-> None, iface |-> None, shared |-> FALSE,
         with |-> None, withIface |-> None]
Sole(h, i, s) == [Free EXCEPT !.host = h, !.iface = i, !.shared = s]

Holders(e) == {e.host, e.with} \ {None}
HeldBy(m, h) == {a \in Address : h \in Holders(m[a])}
\* Who holds what, and on which interface.
Holdings(m) == {<<a, m[a].host, m[a].iface>> : a \in Address}
                 \cup {<<a, m[a].with, m[a].withIface>> : a \in Address}

\* Mutation: an instant allocation swaps the first switch out.
ClaimSwapping(m, a, h, i, s) == [m EXCEPT ![a] = Sole(h, i, s)]

\* Mutation: a switch claiming its own address again is put beside itself.
ClaimBesideItself(m, a, h, i, s) ==
    LET e == m[a] IN
      [m EXCEPT ![a] =
         IF s /\ e.host # None
           THEN [Sole(h, i, TRUE) EXCEPT !.with = e.host, !.withIface = e.iface]
         ELSE Sole(h, i, s)]

\* _claim_unique: the latest holder is named first; on a shared address the
\* holder it displaces, or the one already second, is kept beside it.
ClaimUnique(m, a, h, i, s) ==
    LET e == m[a] IN
      [m EXCEPT ![a] =
         IF s /\ e.host \notin {None, h}
           THEN [Sole(h, i, TRUE) EXCEPT !.with = e.host, !.withIface = e.iface]
         ELSE IF s /\ e.host = h
           THEN [Sole(h, i, TRUE) EXCEPT !.with = e.with, !.withIface = e.withIface]
         ELSE Sole(h, i, s)]

\* Mutation: the holder that stays is recorded on the other one's interface.
ReleaseMixingInterfaces(m, a, h) ==
    LET e == m[a] IN
      [m EXCEPT ![a] =
         IF e.shared /\ h = e.host /\ e.with # None
           THEN Sole(e.with, e.iface, TRUE)
         ELSE IF e.shared /\ h # None /\ h = e.with
           THEN Sole(e.host, e.iface, TRUE)
         ELSE Free]

\* _release_unique: one half of a shared address goes, anything else goes
\* outright.  h is None when the request names no switch.
ReleaseUnique(m, a, h) ==
    LET e == m[a] IN
      [m EXCEPT ![a] =
         IF e.shared /\ h = e.host /\ e.with # None
           THEN Sole(e.with, e.withIface, TRUE)
         ELSE IF e.shared /\ h # None /\ h = e.with
           THEN Sole(e.host, e.iface, TRUE)
         ELSE Free]

\* register_unique's clean-up before a claim.
DropInterface(m, h, i) ==
    [a \in Address |-> IF m[a].host = h /\ m[a].iface = i
                         THEN ReleaseUnique(m, a, h)[a] ELSE m[a]]

-----------------------------------------------------------------------------
VARIABLES
    alloc,    \* the pool's entries in allocations.json
    pc,       \* "idle", or the phase of the sync that holds the project lock
    switch,   \* the switch being synced
    claims,   \* its addressed interfaces, as its host_vars have them
    next,     \* index of the next of them to record
    mem       \* the entries in the sync's memory

vars == <<alloc, pc, switch, claims, next, mem>>

Empty == [a \in Address |-> Free]

Init == /\ alloc = Empty /\ mem = Empty
        /\ pc = "idle" /\ switch = None /\ claims = << >> /\ next = 1

\* The editor picks an address; it is shared only if it is already.
Allocate(h, i, a) ==
    /\ pc = "idle"
    /\ alloc' = ClaimUnique(alloc, a, h, i, alloc[a].shared)
    /\ UNCHANGED <<pc, switch, claims, next, mem>>

\* The editor of switch h, or the Resources page (h = None), releases one.
Release(a, h) ==
    /\ pc = "idle"
    /\ alloc' = ReleaseUnique(alloc, a, h)
    /\ UNCHANGED <<pc, switch, claims, next, mem>>

SyncLoad(h) ==
    /\ pc = "idle"
    /\ \E s \in Scans : claims' = s
    /\ pc' = "clearing" /\ switch' = h /\ next' = 1 /\ mem' = alloc
    /\ UNCHANGED alloc

\* Every half the switch holds is dropped.
SyncRelease ==
    /\ pc = "clearing"
    /\ \E a \in HeldBy(mem, switch) : mem' = ReleaseUnique(mem, a, switch)
    /\ UNCHANGED <<alloc, pc, switch, claims, next>>

\* Mutation: only the addresses it is named first on are dropped.
SyncScanFirst ==
    /\ pc = "clearing" /\ \A a \in Address : mem[a].host # switch
    /\ pc' = "scanning"
    /\ UNCHANGED <<alloc, switch, claims, next, mem>>

SyncScan ==
    /\ pc = "clearing" /\ HeldBy(mem, switch) = {}
    /\ pc' = "scanning"
    /\ UNCHANGED <<alloc, switch, claims, next, mem>>

SyncClaim ==
    /\ pc = "scanning" /\ next <= Len(claims)
    /\ LET c == claims[next] IN
         mem' = ClaimUnique(DropInterface(mem, switch, c.iface),
                            c.ip, switch, c.iface, c.shared)
    /\ next' = next + 1
    /\ UNCHANGED <<alloc, pc, switch, claims>>

SyncSave ==
    /\ pc = "scanning" /\ next > Len(claims)
    /\ alloc' = mem
    /\ pc' = "idle" /\ switch' = None /\ claims' = << >> /\ next' = 1 /\ mem' = Empty

Sync == (\E h \in Host : SyncLoad(h)) \/ SyncRelease \/ SyncScan
        \/ SyncClaim \/ SyncSave

Next == \/ \E h \in Host, i \in Iface, a \in Address : Allocate(h, i, a)
        \/ \E a \in Address, h \in Host \cup {None} : Release(a, h)
        \/ Sync

Spec == Init /\ [][Next]_vars

-----------------------------------------------------------------------------
(***************************************************************************)
(* Properties                                                              *)
(***************************************************************************)
\* Only an address the sync recorded as shared has a second holder, and the
\* two are different switches, each with an interface of its own.
SharedByTwo ==
    \A a \in Address :
        alloc[a].with # None => /\ alloc[a].shared
                                /\ alloc[a].with # alloc[a].host
                                /\ alloc[a].withIface # None

\* Every variable keeps its type, an address without a first holder has no
\* record at all, and one with a second is shared by two: claims, half releases
\* and saves of a pair's members, in any order, keep the records so.
TypeOK == /\ alloc \in [Address -> Entry] /\ mem \in [Address -> Entry]
          /\ \A a \in Address : alloc[a].host = None => alloc[a] = Free
          /\ pc \in {"idle", "clearing", "scanning"}
          /\ switch \in Host \cup {None}
          /\ claims \in Seq(Claim)
          /\ next \in Nat \ {0}
          /\ SharedByTwo

Saving == pc = "scanning" /\ pc' = "idle"
Claimed == {claims[k].ip : k \in DOMAIN claims}
SharedClaims == {claims[k].ip : k \in {j \in DOMAIN claims : claims[j].shared}}

\* After a save the switch holds exactly the addresses in its host_vars.  "A
\* shared anycast VTEP belongs to both members of a pair, so only this host's
\* half is dropped and the peer keeps it": saving a switch takes no address
\* from another, on the interface it has it on, unless the switch claims that
\* address for itself, or as the third switch to share it.
SyncIsExact ==
    [][Saving =>
      /\ HeldBy(alloc', switch) = Claimed
      /\ \A a \in Address, g \in Host \ {switch}, i \in Iface :
            (/\ <<a, g, i>> \in Holdings(alloc)
             /\ \/ a \notin Claimed
                \/ /\ a \in SharedClaims
                   /\ Holders(alloc[a]) \subseteq {g, switch})
              => <<a, g, i>> \in Holdings(alloc')]_vars

\* Saving again what is recorded changes nobody's holding: the editor's
\* instant allocation and the save-time sync agree, in either order.
ResaveKeepsHoldings ==
    [][(Saving /\ {<<claims[k].ip, switch, claims[k].iface>> : k \in DOMAIN claims}
                    = {t \in Holdings(alloc) : t[2] = switch}
               /\ \A k \in DOMAIN claims : claims[k].shared <=> alloc[claims[k].ip].shared)
         => Holdings(alloc') = Holdings(alloc)]_vars
=============================================================================
