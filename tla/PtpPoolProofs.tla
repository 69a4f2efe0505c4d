---------------------------- MODULE PtpPoolProofs ----------------------------
(***************************************************************************)
(* The /31 links stay consistent for any number of /31s, switches and      *)
(* interfaces, and for switches of any size, as long as no switch is saved *)
(* with one interface name scanned twice.  The second part is about the    *)
(* other pools that sync_allocations records, the unique ones (UniquePool).*)
(***************************************************************************)
EXTENDS PtpPool, TLAPS

-----------------------------------------------------------------------------
(* Lemmas about the operators. *)

\* Peer pairs the addresses off.
LEMMA PeerPairs ==
    ASSUME NEW a \in Address
    PROVE  /\ Peer(a) \in Address
           /\ Peer(a) # a
           /\ Peer(Peer(a)) = a
<1>1. a \in Nat /\ a <= 2 * Pairs - 1 /\ Pairs \in Nat
  BY PairsAssumption DEF Address
<1>2. PICK k \in Nat : a = 2 * k \/ a = 2 * k + 1
  <2>1. a \div 2 \in Nat /\ (a = 2 * (a \div 2) \/ a = 2 * (a \div 2) + 1)
    BY <1>1
  <2> QED BY <2>1
<1>3. CASE a = 2 * k
  BY <1>1, <1>3 DEF Peer, Address
<1>4. CASE a = 2 * k + 1
  BY <1>1, <1>4 DEF Peer, Address
<1> QED BY <1>2, <1>3, <1>4

LEMMA ConstantTypes ==
    /\ Free \in Entry
    /\ \A h \in Host, i \in Iface : Reservation(h, i) \in Entry
    /\ Empty \in [Address -> Entry] /\ Consistent(Empty)
BY NoneAssumption, PeerPairs DEF Free, Entry, Reservation, Empty, Consistent

\* Claims, releases and the clean-up before a claim keep the types of entries.
LEMMA ClaimType ==
    ASSUME NEW m \in [Address -> Entry], NEW a \in Address,
           NEW h \in Host, NEW i \in Iface
    PROVE  ClaimEnd(m, a, h, i) \in [Address -> Entry]
<1>1. Peer(a) \in Address /\ Peer(a) # a
  BY PeerPairs
<1>2. [host |-> h, iface |-> i, peerHost |-> m[Peer(a)].host,
       peerIface |-> m[Peer(a)].iface] \in Entry
  BY <1>1, NoneAssumption DEF Entry
<1>3. [m[Peer(a)] EXCEPT !.peerHost = h, !.peerIface = i] \in Entry
  BY <1>1 DEF Entry
<1> QED BY <1>1, <1>2, <1>3, ConstantTypes DEF ClaimEnd

LEMMA ReleaseType ==
    ASSUME NEW m \in [Address -> Entry], NEW a \in Address
    PROVE  ReleaseEnd(m, a) \in [Address -> Entry]
<1> DEFINE b == Peer(a)
<1>1. b \in Address /\ b # a
  BY PeerPairs
<1>2. CASE m[a] # Free /\ Owned(m, b)
  <2>1. Reservation(m[b].host, m[b].iface) \in Entry
    BY <1>1, <1>2, NoneAssumption DEF Entry, Reservation, Free, Owned
  <2>2. [m[b] EXCEPT !.peerHost = None, !.peerIface = None] \in Entry
    BY <1>1 DEF Entry
  <2>3. ReleaseEnd(m, a) =
          [m EXCEPT ![a] = Reservation(m[b].host, m[b].iface),
                    ![b] = [m[b] EXCEPT !.peerHost = None, !.peerIface = None]]
    BY <1>1, <1>2 DEF ReleaseEnd
  <2> QED BY <1>1, <2>1, <2>2, <2>3
<1>3. CASE ~(m[a] # Free /\ Owned(m, b))
  BY <1>1, <1>3, ConstantTypes DEF ReleaseEnd
<1> QED BY <1>2, <1>3

LEMMA DropType ==
    ASSUME NEW m \in [Address -> Entry], NEW h, NEW i
    PROVE  DropInterface(m, h, i) \in [Address -> Entry]
BY ConstantTypes DEF DropInterface

\* A claim keeps the links consistent, and gives away one end.
LEMMA ClaimEndFacts ==
    ASSUME NEW m \in [Address -> Entry], Consistent(m),
           NEW a \in Address, NEW h \in Host, NEW i \in Iface
    PROVE  LET n == ClaimEnd(m, a, h, i) IN
             /\ n \in [Address -> Entry]
             /\ Consistent(n)
             /\ n[a].host = h /\ n[a].iface = i
             /\ \A b \in Address \ {a} : n[b].host = m[b].host
                                         /\ n[b].iface = m[b].iface
<1> DEFINE n == ClaimEnd(m, a, h, i)
<1>1. Peer(a) \in Address /\ Peer(a) # a /\ Peer(Peer(a)) = a
  BY PeerPairs
<1>2. n \in [Address -> Entry]
  BY ClaimType
<1>3. /\ n[a] = [host |-> h, iface |-> i, peerHost |-> m[Peer(a)].host,
                 peerIface |-> m[Peer(a)].iface]
      /\ \A b \in Address : b # a /\ b # Peer(a) => n[b] = m[b]
  BY <1>1 DEF ClaimEnd
<1>4. /\ n[Peer(a)].host = m[Peer(a)].host
      /\ n[Peer(a)].iface = m[Peer(a)].iface
      /\ n[Peer(a)].peerHost = h
      /\ n[Peer(a)].peerIface = i
  <2>1. CASE Owned(m, Peer(a))
    BY <1>1, <2>1 DEF ClaimEnd, Entry
  <2>2. CASE ~Owned(m, Peer(a))
    BY <1>1, <2>2 DEF ClaimEnd, Entry, Reservation, Free, Owned
  <2> QED BY <2>1, <2>2
<1>5. Consistent(n)
  BY <1>1, <1>3, <1>4, PeerPairs DEF Consistent
<1> QED BY <1>2, <1>3, <1>4, <1>5

\* So does a release.
LEMMA ReleaseEndFacts ==
    ASSUME NEW m \in [Address -> Entry], Consistent(m), NEW a \in Address
    PROVE  LET n == ReleaseEnd(m, a) IN
             /\ n \in [Address -> Entry]
             /\ Consistent(n)
             /\ n[a].host = None
             /\ \A b \in Address \ {a} : n[b].host = m[b].host
                                         /\ n[b].iface = m[b].iface
<1> DEFINE n == ReleaseEnd(m, a)
           b == Peer(a)
<1>0. n \in [Address -> Entry]
  BY ReleaseType
<1>1. b \in Address /\ b # a /\ Peer(b) = a
  BY PeerPairs
<1>2. CASE m[a] = Free
  BY <1>2 DEF ReleaseEnd, Free
<1>3. CASE m[a] # Free /\ Owned(m, b)
  <2>1. /\ n[a] = Reservation(m[b].host, m[b].iface)
        /\ n[b] = [m[b] EXCEPT !.peerHost = None, !.peerIface = None]
        /\ \A c \in Address : c # a /\ c # b => n[c] = m[c]
    BY <1>1, <1>3 DEF ReleaseEnd
  <2>2. n \in [Address -> Entry]
    BY <1>0
  <2>3. Consistent(n)
    <3> SUFFICES ASSUME NEW c \in Address
                 PROVE  /\ n[c].peerHost = n[Peer(c)].host
                        /\ n[c].peerIface = n[Peer(c)].iface
      BY DEF Consistent
    <3>1. m[b] \in Entry
      BY <1>1
    <3>2. CASE c = a
      BY <3>1, <3>2, <2>1, <1>1 DEF Reservation, Free, Entry
    <3>3. CASE c = b
      <4>1. n[b].peerHost = None /\ n[b].peerIface = None
        BY <3>1, <2>1 DEF Entry
      <4>2. n[a].host = None /\ n[a].iface = None
        BY <2>1 DEF Reservation, Free
      <4> QED BY <3>3, <4>1, <4>2, <1>1
    <3>4. CASE c # a /\ c # b
      <4>1. Peer(c) \in Address /\ Peer(c) # a /\ Peer(c) # b
        BY <3>4, <1>1, PeerPairs
      <4> QED BY <3>4, <4>1, <2>1 DEF Consistent
    <3> QED BY <3>2, <3>3, <3>4
  <2>4. n[a].host = None
    BY <2>1 DEF Reservation, Free
  <2>5. n[b].host = m[b].host /\ n[b].iface = m[b].iface
    BY <1>1, <2>1 DEF Entry
  <2> HIDE DEF n, b
  <2>6. \A c \in Address \ {a} : n[c].host = m[c].host /\ n[c].iface = m[c].iface
    BY <2>1, <2>5
  <2> QED BY <2>2, <2>3, <2>4, <2>6 DEF n
<1>4. CASE m[a] # Free /\ ~Owned(m, b)
  <2>1. n = [m EXCEPT ![a] = Free, ![b] = Free]
    BY <1>4 DEF ReleaseEnd
  <2>2. n \in [Address -> Entry]
    BY <2>1, ConstantTypes
  <2>3. Consistent(n)
    <3> SUFFICES ASSUME NEW c \in Address
                 PROVE  /\ n[c].peerHost = n[Peer(c)].host
                        /\ n[c].peerIface = n[Peer(c)].iface
      BY DEF Consistent
    <3>1. CASE c \in {a, b}
      BY <3>1, <2>1, <1>1 DEF Free
    <3>2. CASE c \notin {a, b}
      <4>1. Peer(c) \in Address /\ Peer(c) \notin {a, b}
        BY <3>2, <1>1, PeerPairs
      <4> QED BY <3>2, <4>1, <2>1 DEF Consistent
    <3> QED BY <3>1, <3>2
  <2>4. m[b].host = None /\ m[b].iface = None
    BY <1>4, <1>1 DEF Owned, Entry
  <2> QED BY <2>1, <2>2, <2>3, <2>4, <1>1 DEF Free
<1> QED BY <1>2, <1>3, <1>4

\* Clearing up an interface name the switch has not recorded yet, or the
\* reservations of a switch that holds no end, removes nothing.
LEMMA DropNothing ==
    ASSUME NEW m \in [Address -> Entry], NEW h, NEW i,
           \A a \in OwnedBy(m, h) : m[a].iface # i
    PROVE  DropInterface(m, h, i) = m
BY PeerPairs DEF DropInterface, OwnedBy

-----------------------------------------------------------------------------
(* Types, whatever the switches hold. *)

\* How far the sync is.
SyncProgress ==
    /\ next \in 1 .. (Len(claims) + 1)
    /\ pc # "idle" => switch \in Host /\ claims \in Scans
    /\ pc = "clearing" => next = 1

LEMMA NextTypes == TypeOK /\ SyncProgress /\ [Next]_vars => (TypeOK /\ SyncProgress)'
<1> SUFFICES ASSUME TypeOK, SyncProgress, [Next]_vars
             PROVE  TypeOK' /\ SyncProgress'
  OBVIOUS
<1> Len(claims) \in Nat
  BY DEF TypeOK
<1>1. ASSUME NEW h \in Host, NEW i \in Iface, NEW a \in Address, Allocate(h, i, a)
      PROVE  TypeOK' /\ SyncProgress'
  <2>1. alloc' \in [Address -> Entry]
    BY <1>1, ClaimType DEF Allocate, TypeOK
  <2> QED BY <1>1, <2>1 DEF Allocate, TypeOK, SyncProgress
<1>2. ASSUME NEW a \in Address, Release(a)
      PROVE  TypeOK' /\ SyncProgress'
  <2>1. alloc' \in [Address -> Entry]
    BY <1>2, ReleaseType DEF Release, TypeOK
  <2> QED BY <1>2, <2>1 DEF Release, TypeOK, SyncProgress
<1>3. ASSUME NEW h \in Host, SyncLoad(h)
      PROVE  TypeOK' /\ SyncProgress'
  <2>1. claims' \in Scans /\ claims' \in Seq(Claim) /\ Len(claims') \in Nat
    BY <1>3, ScansAssumption DEF SyncLoad
  <2> QED BY <1>3, <2>1 DEF SyncLoad, TypeOK, SyncProgress
<1>4. CASE SyncRelease
  <2>1. mem' \in [Address -> Entry]
    BY <1>4, ReleaseType DEF SyncRelease, OwnedBy, TypeOK
  <2> QED BY <1>4, <2>1 DEF SyncRelease, TypeOK, SyncProgress
<1>5. CASE SyncUnreserve
  <2>1. mem' \in [Address -> Entry]
    BY <1>5, ConstantTypes DEF SyncUnreserve, TypeOK
  <2> QED BY <1>5, <2>1 DEF SyncUnreserve, TypeOK, SyncProgress
<1>6. CASE SyncClaim
  <2> DEFINE c == claims[next]
  <2>1. /\ mem' = ClaimEnd(DropInterface(mem, switch, c.iface), c.ip, switch, c.iface)
        /\ next <= Len(claims) /\ next' = next + 1
        /\ pc = "scanning" /\ UNCHANGED <<alloc, pc, switch, claims>>
    BY <1>6 DEF SyncClaim
  <2>2. c.ip \in Address /\ c.iface \in Iface /\ switch \in Host
    <3>1. c \in Claim
      BY <2>1 DEF TypeOK
    <3> QED BY <3>1, <2>1 DEF Claim, SyncProgress
  <2>3. mem' \in [Address -> Entry]
    BY <2>1, <2>2, DropType, ClaimType DEF TypeOK
  <2> QED BY <2>1, <2>3 DEF TypeOK, SyncProgress
<1>7. CASE SyncSave
  <2>1. claims' \in Seq(Claim) /\ Len(claims') = 0
    BY <1>7 DEF SyncSave
  <2> QED BY <1>7, <2>1, ConstantTypes DEF SyncSave, TypeOK, SyncProgress
<1>8. CASE UNCHANGED vars
  BY <1>8 DEF vars, TypeOK, SyncProgress
<1> QED BY <1>1, <1>2, <1>3, <1>4, <1>5, <1>6, <1>7, <1>8 DEF Next, Sync

\* Every variable of the pool keeps its type.
THEOREM TypeCorrect == Spec => []TypeOK
<1>1. Init => TypeOK /\ SyncProgress
  <2>1. Init => Len(claims) = 0 /\ claims \in Seq(Claim)
    BY DEF Init, AtRest
  <2> QED BY <2>1, ConstantTypes DEF Init, AtRest, TypeOK, SyncProgress
<1> QED BY <1>1, NextTypes, PTL DEF Spec

\* A claim or a release changes who owns one end only, consistent or not.
LEMMA OneEnd ==
    ASSUME NEW m \in [Address -> Entry], NEW a \in Address, NEW b \in Address \ {a}
    PROVE  /\ \A h \in Host, i \in Iface : ClaimEnd(m, a, h, i)[b].host = m[b].host
           /\ ReleaseEnd(m, a)[b].host = m[b].host
<1>1. Peer(a) \in Address /\ Peer(a) # a
  BY PeerPairs
<1>2. ASSUME NEW h \in Host, NEW i \in Iface
      PROVE  ClaimEnd(m, a, h, i)[b].host = m[b].host
  BY <1>1 DEF ClaimEnd, Owned, Reservation, Free, Entry
<1>3. ReleaseEnd(m, a)[b].host = m[b].host
  BY <1>1 DEF ReleaseEnd, Owned, Free, Entry
<1> QED BY <1>2, <1>3

\* No call of the editor takes a second switch's end, whatever the switches
\* hold.
THEOREM EditorSparesOthers == Spec => EditorChangesOneEnd
<1> DEFINE One == pc = "idle" =>
                    \A a, b \in Address :
                       /\ alloc'[a].host # alloc[a].host
                       /\ alloc'[b].host # alloc[b].host
                       => a = b
<1>1. ASSUME TypeOK, Next PROVE One
  <2> SUFFICES ASSUME pc = "idle"
               PROVE  \/ UNCHANGED alloc
                      \/ \E c \in Address : \A a \in Address \ {c} :
                            alloc'[a].host = alloc[a].host
    OBVIOUS
  <2>1. CASE \E h \in Host, i \in Iface, a \in Address : Allocate(h, i, a)
    <3>1. PICK h \in Host, i \in Iface, c \in Address : alloc' = ClaimEnd(alloc, c, h, i)
      BY <2>1 DEF Allocate
    <3>2. \A a \in Address \ {c} : alloc'[a].host = alloc[a].host
      BY <1>1, <3>1, OneEnd DEF TypeOK
    <3> QED BY <3>2
  <2>2. CASE \E a \in Address : Release(a)
    <3>1. PICK c \in Address : alloc' = ReleaseEnd(alloc, c)
      BY <2>2 DEF Release
    <3>2. \A a \in Address \ {c} : alloc'[a].host = alloc[a].host
      BY <1>1, <3>1, OneEnd DEF TypeOK
    <3> QED BY <3>2
  <2>3. CASE Sync
    BY <2>3 DEF Sync, SyncLoad, SyncRelease, SyncUnreserve, SyncClaim, SyncSave
  <2> QED BY <1>1, <2>1, <2>2, <2>3 DEF Next
<1>2. TypeOK /\ [Next]_vars => [One]_vars
  BY <1>1
<1> QED BY <1>2, TypeCorrect, PTL DEF Spec, EditorChangesOneEnd

-----------------------------------------------------------------------------
(***************************************************************************)
(* The inductive invariant.  Consistency of allocations.json alone is not  *)
(* inductive: a sync saves what it has in memory, so that must be          *)
(* consistent too, and so the clean-up in register_ptp must find nothing   *)
(* to remove, which is why the addresses the switch holds in memory have   *)
(* to be those it has recorded so far.                                     *)
(***************************************************************************)
DistinctInterfaces ==
    \A s \in Scans : \A j, k \in DOMAIN s : s[j].iface = s[k].iface => j = k

\* The interfaces recorded so far by the running sync.
Done == {claims[k] : k \in 1 .. (next - 1)}

\* Once it has cleared, the switch holds in memory what it has recorded.
HoldsDone ==
    pc = "scanning" =>
      /\ \A a \in OwnedBy(mem, switch) : [iface |-> mem[a].iface, ip |-> a] \in Done
      /\ \A c \in Done : mem[c.ip].host = switch

\* Other switches keep in memory what the switch has not claimed, and gain
\* nothing.
OthersKept ==
    pc # "idle" =>
      \A a \in Address :
        /\ (alloc[a].host \notin {None, switch} /\ \A c \in Done : c.ip # a)
             => mem[a].host = alloc[a].host /\ mem[a].iface = alloc[a].iface
        /\ mem[a].host \notin {None, switch} => alloc[a].host = mem[a].host
                                               /\ alloc[a].iface = mem[a].iface

IInv == /\ TypeOK
        /\ Consistent(alloc) /\ Consistent(mem)
        /\ SyncProgress /\ HoldsDone /\ OthersKept

LEMMA InitIInv == Init => IInv
<1> SUFFICES ASSUME Init PROVE IInv
  OBVIOUS
<1>1. Len(claims) = 0 /\ claims \in Seq(Claim)
  BY DEF Init, AtRest
<1> QED BY <1>1, ConstantTypes
        DEF Init, AtRest, IInv, TypeOK, SyncProgress, HoldsDone, OthersKept

LEMMA EditorIInv ==
    ASSUME IInv, \/ \E h \in Host, i \in Iface, a \in Address : Allocate(h, i, a)
                 \/ \E a \in Address : Release(a)
    PROVE  IInv'
<1>1. alloc' \in [Address -> Entry] /\ Consistent(alloc')
  BY ClaimEndFacts, ReleaseEndFacts DEF Allocate, Release, IInv, TypeOK
<1>2. UNCHANGED <<pc, switch, claims, next, mem>> /\ pc = "idle"
  BY DEF Allocate, Release
<1> QED BY <1>1, <1>2
        DEF IInv, TypeOK, Consistent, SyncProgress, HoldsDone, OthersKept

LEMMA LoadIInv ==
    ASSUME IInv, NEW h \in Host, SyncLoad(h)
    PROVE  IInv'
<1>1. claims' \in Seq(Claim) /\ claims' \in Scans /\ Len(claims') \in Nat
  BY ScansAssumption DEF SyncLoad
<1>2. next' = 1 /\ Done' = {}
  BY DEF SyncLoad, Done
<1> QED BY <1>1, <1>2
        DEF SyncLoad, IInv, TypeOK, Consistent, SyncProgress, HoldsDone, OthersKept

LEMMA ReleaseIInv ==
    ASSUME IInv, SyncRelease
    PROVE  IInv'
<1>1. PICK a \in OwnedBy(mem, switch) : mem' = ReleaseEnd(mem, a)
  BY DEF SyncRelease
<1>2. a \in Address /\ mem[a].host = switch
  BY <1>1 DEF OwnedBy
<1>3. /\ mem' \in [Address -> Entry] /\ Consistent(mem')
      /\ mem'[a].host = None
      /\ \A b \in Address \ {a} : mem'[b].host = mem[b].host
                                  /\ mem'[b].iface = mem[b].iface
  BY <1>1, <1>2, ReleaseEndFacts DEF IInv, TypeOK
<1>4. UNCHANGED <<alloc, pc, switch, claims, next>> /\ pc = "clearing"
  BY DEF SyncRelease
<1>5. Done' = Done
  BY <1>4 DEF Done
<1>6. OthersKept'
  BY <1>2, <1>3, <1>4, <1>5 DEF IInv, OthersKept
<1> QED BY <1>3, <1>4, <1>5, <1>6
        DEF IInv, TypeOK, Consistent, SyncProgress, HoldsDone

LEMMA UnreserveIInv ==
    ASSUME IInv, SyncUnreserve
    PROVE  IInv'
<1>1. mem \in [Address -> Entry] /\ Consistent(mem)
  BY DEF IInv, TypeOK
<1>2. \A a \in Address : mem[a].peerHost # switch
  BY <1>1, PeerPairs DEF SyncUnreserve, OwnedBy, Consistent
<1>3. mem' = mem
  BY <1>1, <1>2 DEF SyncUnreserve
<1>4. /\ UNCHANGED <<alloc, switch, claims, next>>
      /\ pc = "clearing" /\ pc' = "scanning" /\ OwnedBy(mem, switch) = {}
  BY DEF SyncUnreserve
<1>5. next = 1 /\ Done' = {} /\ Done = {}
  BY <1>4 DEF IInv, SyncProgress, Done
<1>6. HoldsDone'
  BY <1>3, <1>4, <1>5 DEF HoldsDone, OwnedBy
<1>7. OthersKept'
  BY <1>3, <1>4, <1>5 DEF IInv, OthersKept
<1> QED BY <1>3, <1>4, <1>6, <1>7 DEF IInv, TypeOK, SyncProgress, Consistent

LEMMA ClaimIInv ==
    ASSUME DistinctInterfaces, IInv, SyncClaim
    PROVE  IInv'
<1> DEFINE c == claims[next]
<1>1. /\ pc = "scanning" /\ next <= Len(claims) /\ next' = next + 1
      /\ UNCHANGED <<alloc, pc, switch, claims>>
      /\ mem' = ClaimEnd(DropInterface(mem, switch, c.iface), c.ip, switch, c.iface)
  BY DEF SyncClaim
<1>2. /\ switch \in Host /\ claims \in Scans /\ claims \in Seq(Claim)
      /\ next \in DOMAIN claims /\ next \in Nat \ {0} /\ Len(claims) \in Nat
  BY <1>1 DEF IInv, SyncProgress, TypeOK
<1>3. c \in Claim /\ c.ip \in Address /\ c.iface \in Iface
      /\ c = [iface |-> c.iface, ip |-> c.ip]
  <2>1. c \in Claim
    BY <1>2
  <2> QED BY <2>1 DEF Claim
<1>4. \A a \in OwnedBy(mem, switch) : mem[a].iface # c.iface
  <2> SUFFICES ASSUME NEW a \in OwnedBy(mem, switch), mem[a].iface = c.iface
               PROVE  FALSE
    OBVIOUS
  <2>1. PICK k \in 1 .. (next - 1) : [iface |-> mem[a].iface, ip |-> a] = claims[k]
    BY <1>1 DEF IInv, HoldsDone, Done
  <2>2. claims[k].iface = c.iface /\ k \in DOMAIN claims /\ k # next
    BY <2>1, <1>2
  <2> QED BY <2>2, <1>2 DEF DistinctInterfaces
<1>5. mem' = ClaimEnd(mem, c.ip, switch, c.iface)
  BY <1>1, <1>4, DropNothing DEF IInv, TypeOK
<1>6. /\ mem' \in [Address -> Entry] /\ Consistent(mem')
      /\ mem'[c.ip].host = switch /\ mem'[c.ip].iface = c.iface
      /\ \A b \in Address \ {c.ip} : mem'[b].host = mem[b].host
                                     /\ mem'[b].iface = mem[b].iface
  BY <1>5, <1>2, <1>3, ClaimEndFacts DEF IInv, TypeOK
<1>7. Done' = Done \cup {c}
  <2>1. 1 .. (next' - 1) = (1 .. (next - 1)) \cup {next}
    BY <1>1, <1>2
  <2> QED BY <2>1, <1>1 DEF Done
<1>8. HoldsDone'
  <2>1. \A d \in Done : d \in Claim /\ d.ip \in Address
    <3>1. \A d \in Done : d \in Claim
      BY <1>2 DEF Done
    <3> QED BY <3>1 DEF Claim
  <2>2. ASSUME NEW a \in Address, mem'[a].host = switch
        PROVE  [iface |-> mem'[a].iface, ip |-> a] \in Done'
    <3>1. CASE a = c.ip
      BY <3>1, <1>3, <1>6, <1>7
    <3>2. CASE a # c.ip
      BY <2>2, <3>2, <1>1, <1>6, <1>7 DEF IInv, HoldsDone, OwnedBy
    <3> QED BY <3>1, <3>2
  <2>3. ASSUME NEW d \in Done' PROVE mem'[d.ip].host = switch
    BY <2>1, <2>3, <1>1, <1>3, <1>6, <1>7 DEF IInv, HoldsDone
  <2> QED BY <2>2, <2>3, <1>1 DEF HoldsDone, OwnedBy
<1>9. OthersKept'
  <2>1. /\ mem'[c.ip].host = switch /\ c \in Done'
        /\ \A b \in Address \ {c.ip} : mem'[b].host = mem[b].host
                                       /\ mem'[b].iface = mem[b].iface
    BY <1>6, <1>7
  <2>2. OthersKept /\ pc # "idle" /\ UNCHANGED <<alloc, switch>> /\ Done \subseteq Done'
    BY <1>1, <1>7 DEF IInv
  <2> HIDE DEF c
  <2> QED BY <2>1, <2>2 DEF OthersKept
<1>10. SyncProgress'
  BY <1>1, <1>2 DEF IInv, SyncProgress
<1>11. TypeOK' /\ Consistent(alloc')
  <2>1. TypeOK /\ Consistent(alloc) /\ mem' \in [Address -> Entry]
    BY <1>6 DEF IInv
  <2> HIDE DEF c
  <2> QED BY <1>1, <1>2, <2>1 DEF TypeOK
<1>12. Consistent(alloc)' /\ Consistent(mem)'
  BY <1>1, <1>6, <1>11 DEF Consistent
<1> HIDE DEF c
<1> QED BY <1>8, <1>9, <1>10, <1>11, <1>12 DEF IInv

LEMMA SaveIInv ==
    ASSUME IInv, SyncSave
    PROVE  IInv'
<1>1. Len(claims') = 0 /\ claims' \in Seq(Claim)
  BY DEF SyncSave
<1>2. Consistent(alloc') /\ Consistent(mem')
  BY ConstantTypes DEF SyncSave, IInv
<1> QED BY <1>1, <1>2, ConstantTypes
        DEF SyncSave, IInv, TypeOK, SyncProgress, HoldsDone, OthersKept, Consistent

LEMMA NextIInv == ASSUME DistinctInterfaces PROVE IInv /\ [Next]_vars => IInv'
<1> SUFFICES ASSUME IInv, [Next]_vars PROVE IInv'
  OBVIOUS
<1>1. CASE UNCHANGED vars
  BY <1>1 DEF vars, IInv, TypeOK, Consistent, SyncProgress, HoldsDone, OthersKept,
              Done, OwnedBy
<1> QED BY <1>1, EditorIInv, LoadIInv, ReleaseIInv, UnreserveIInv, ClaimIInv,
           SaveIInv DEF Next, Sync

LEMMA AlwaysIInv == ASSUME DistinctInterfaces PROVE Spec => []IInv
BY InitIInv, NextIInv, PTL DEF Spec

\* Both ends of every /31 agree, always.
THEOREM AlwaysConsistent == ASSUME DistinctInterfaces PROVE Spec => []PairsConsistent
<1>1. IInv => PairsConsistent
  BY DEF IInv, PairsConsistent
<1> QED BY <1>1, AlwaysIInv, PTL

\* When a sync saves, it has recorded every claim, and no other.
LEMMA SavingFacts ==
    ASSUME IInv, Next, Saving
    PROVE  /\ alloc' = mem
           /\ Done = {claims[k] : k \in DOMAIN claims}
           /\ Done \subseteq Claim
           /\ switch \in Host
<1>1. SyncSave
  BY DEF Next, Sync, Saving, Allocate, Release, SyncLoad, SyncRelease,
         SyncUnreserve, SyncClaim
<1>2. claims \in Seq(Claim) /\ Len(claims) \in Nat
  BY DEF IInv, TypeOK
<1>3. next - 1 = Len(claims)
  BY <1>1, <1>2 DEF SyncSave, IInv, SyncProgress
<1>4. Done = {claims[k] : k \in DOMAIN claims}
  BY <1>2, <1>3 DEF Done
<1> QED BY <1>1, <1>2, <1>4 DEF SyncSave, IInv, SyncProgress

\* A saved switch holds exactly what its host_vars say, and takes from another
\* only what it claims.
THEOREM SavedExactly == ASSUME DistinctInterfaces PROVE Spec => SyncIsExact
<1> DEFINE Exact ==
      Saving =>
        /\ OwnedBy(alloc', switch) = Claimed
        /\ \A a \in Claimed : [iface |-> alloc'[a].iface, ip |-> a]
                                \in {claims[k] : k \in DOMAIN claims}
        /\ \A a \in Address : alloc'[a].peerHost = switch => Peer(a) \in Claimed
        /\ \A a \in Address \ Claimed :
              alloc[a].host \notin {None, switch}
                => /\ alloc'[a].host = alloc[a].host
                   /\ alloc'[a].iface = alloc[a].iface
<1>1. ASSUME IInv, Next PROVE Exact
  <2> SUFFICES ASSUME Saving PROVE Exact
    OBVIOUS
  <2>1. /\ alloc' = mem /\ Done = {claims[k] : k \in DOMAIN claims}
        /\ Done \subseteq Claim /\ pc = "scanning"
    BY <1>1, SavingFacts DEF Saving
  <2>2. Claimed = {c.ip : c \in Done} /\ Claimed \subseteq Address
    BY <2>1 DEF Claimed, Claim
  <2>3. OwnedBy(mem, switch) = Claimed
    <3>1. ASSUME NEW a \in OwnedBy(mem, switch) PROVE a \in Claimed
      <4>1. [iface |-> mem[a].iface, ip |-> a] \in Done
        BY <1>1, <2>1 DEF IInv, HoldsDone
      <4> QED BY <4>1, <2>2
    <3>2. ASSUME NEW a \in Claimed PROVE a \in OwnedBy(mem, switch)
      BY <1>1, <2>1, <2>2 DEF IInv, HoldsDone, OwnedBy
    <3> QED BY <3>1, <3>2
  <2>4. \A a \in Address : mem[a].peerHost = switch => Peer(a) \in Claimed
    BY <1>1, <2>3, PeerPairs DEF IInv, Consistent, OwnedBy
  <2>5. \A a \in Claimed : [iface |-> mem[a].iface, ip |-> a] \in Done
    BY <1>1, <2>1, <2>3 DEF IInv, HoldsDone
  <2>6. \A a \in Address \ Claimed :
           alloc[a].host \notin {None, switch}
             => /\ mem[a].host = alloc[a].host
                /\ mem[a].iface = alloc[a].iface
    BY <1>1, <2>1 DEF IInv, OthersKept, Claimed
  <2> QED BY <2>1, <2>3, <2>4, <2>5, <2>6
<1>2. IInv /\ [Next]_vars => [Exact]_vars
  BY <1>1
<1> QED BY <1>2, AlwaysIInv, PTL DEF Spec, SyncIsExact

\* Saving a switch whose addresses are recorded already changes nothing.
THEOREM ResaveChangesNothing == ASSUME DistinctInterfaces PROVE Spec => ResaveIsNoOp
<1> DEFINE NoOp == (Saving /\ {claims[k] : k \in DOMAIN claims} = Recorded(alloc, switch))
                     => alloc' = alloc
<1>1. ASSUME IInv, Next PROVE NoOp
  <2> SUFFICES ASSUME Saving, {claims[k] : k \in DOMAIN claims} = Recorded(alloc, switch)
               PROVE  mem = alloc
    BY <1>1, SavingFacts
  <2>1. /\ Done = Recorded(alloc, switch) /\ pc = "scanning" /\ switch \in Host
        /\ alloc \in [Address -> Entry] /\ mem \in [Address -> Entry]
        /\ Consistent(alloc) /\ Consistent(mem)
    BY <1>1, SavingFacts DEF Saving, IInv, TypeOK
  <2>2. ASSUME NEW a \in Address
        PROVE  mem[a].host = alloc[a].host /\ mem[a].iface = alloc[a].iface
    <3>1. CASE mem[a].host = switch
      <4>1. [iface |-> mem[a].iface, ip |-> a] \in Recorded(alloc, switch)
        BY <1>1, <2>1, <3>1 DEF IInv, HoldsDone, OwnedBy
      <4>2. PICK b \in OwnedBy(alloc, switch) :
              [iface |-> mem[a].iface, ip |-> a] = [iface |-> alloc[b].iface, ip |-> b]
        BY <4>1 DEF Recorded
      <4>3. a = b /\ mem[a].iface = alloc[b].iface
        BY <4>2
      <4> QED BY <4>3, <3>1 DEF OwnedBy
    <3>2. CASE alloc[a].host = switch
      <4>1. [iface |-> alloc[a].iface, ip |-> a] \in Done
        BY <2>1, <3>2 DEF Recorded, OwnedBy
      <4>2. mem[a].host = switch
        BY <1>1, <2>1, <4>1 DEF IInv, HoldsDone
      <4> QED BY <3>1, <4>2
    <3>3. CASE alloc[a].host \notin {None, switch}
      <4>1. \A c \in Done : c.ip # a
        BY <2>1, <3>3 DEF Recorded, OwnedBy
      <4> QED BY <1>1, <2>1, <3>3, <4>1 DEF IInv, OthersKept
    <3>4. CASE mem[a].host \notin {None, switch}
      BY <1>1, <2>1, <3>4 DEF IInv, OthersKept
    <3>5. CASE mem[a].host = None /\ alloc[a].host = None
      BY <3>5, <2>1 DEF Entry
    <3> QED BY <3>1, <3>2, <3>3, <3>4, <3>5
  <2>3. ASSUME NEW a \in Address PROVE mem[a] = alloc[a]
    <3>1. mem[a].peerHost = alloc[a].peerHost /\ mem[a].peerIface = alloc[a].peerIface
      BY <2>1, <2>2, PeerPairs DEF Consistent
    <3>2. mem[a] \in Entry /\ alloc[a] \in Entry
      BY <2>1
    <3> QED BY <2>2, <3>1, <3>2 DEF Entry
  <2> QED BY <2>1, <2>3
<1>2. IInv /\ [Next]_vars => [NoOp]_vars
  BY <1>1
<1> QED BY <1>2, AlwaysIInv, PTL DEF Spec, ResaveIsNoOp

-----------------------------------------------------------------------------
(***************************************************************************)
(* Unique pools, of any number of addresses, switches and interfaces.      *)
(* UniquePool has the same constants and variables, with this pool's own   *)
(* addresses and its own kind of claim, which says whether it is shared.   *)
(***************************************************************************)
CONSTANTS UniqueAddress, UniqueScans

Unique == INSTANCE UniquePool WITH Address <- UniqueAddress, Scans <- UniqueScans

\* Holds g on interface i at an address with entry e.
Holds(e, g, i) == (e.host = g /\ e.iface = i) \/ (e.with = g /\ e.withIface = i)

\* A record names an interface with each of its holders, and a second holder
\* only on a shared address, where it is another switch.
SoundEntry(e) ==
    /\ e.host = None => e = Unique!Free
    /\ e.host = None <=> e.iface = None
    /\ e.with = None <=> e.withIface = None
    /\ e.with # None => e.shared /\ e.with # e.host

Sound(m) == /\ m \in [UniqueAddress -> Unique!Entry]
            /\ \A a \in UniqueAddress : SoundEntry(m[a])

\* Where a running sync is in its switch's claims.
Progress ==
    /\ pc \in {"idle", "clearing", "scanning"}
    /\ claims \in Seq(Unique!Claim)
    /\ next \in 1 .. (Len(claims) + 1)
    /\ switch \in Host \cup {None}
    /\ pc # "idle" => switch \in Host /\ claims \in UniqueScans
    /\ pc = "clearing" => next = 1

(***************************************************************************)
(* The first part of the inductive invariant: the pool's entries are sound *)
(* in the file and in memory.  It needs nothing of the claims.             *)
(***************************************************************************)
WellRecorded == Sound(alloc) /\ Sound(mem) /\ Progress

\* Once it has cleared, the switch holds in memory what it has recorded, and is
\* named first on it.
HoldsClaims ==
    pc = "scanning" =>
      /\ \A a \in UniqueAddress :
           /\ mem[a].with # switch
           /\ mem[a].host = switch => \E c \in Done : c.ip = a /\ c.iface = mem[a].iface
      /\ \A c \in Done : mem[c.ip].host = switch

\* In memory other switches gain nothing, and keep what the switch has not
\* claimed, or has claimed as shared while no third switch held it.
SharersKept ==
    pc # "idle" =>
      \A a \in UniqueAddress, g \in Host \ {switch}, i \in Iface :
        /\ Holds(mem[a], g, i) => Holds(alloc[a], g, i)
        /\ (/\ Holds(alloc[a], g, i)
            /\ \A c \in Done : c.ip = a =>
                 c.shared /\ Unique!Holders(alloc[a]) \subseteq {g, switch})
             => Holds(mem[a], g, i)

\* No interface is scanned twice, and no address both as a loopback's and as
\* the VTEP's.
Unambiguous ==
    \A s \in UniqueScans : \A j, k \in DOMAIN s :
        /\ s[j].iface = s[k].iface => j = k
        /\ s[j].ip = s[k].ip => s[j].shared = s[k].shared

-----------------------------------------------------------------------------
\* Records made from scratch are sound.
LEMMA UniqueEntries ==
    /\ Unique!Free \in Unique!Entry /\ SoundEntry(Unique!Free)
    /\ \A h \in Host, i \in Iface, s \in BOOLEAN :
         Unique!Sole(h, i, s) \in Unique!Entry /\ SoundEntry(Unique!Sole(h, i, s))
    /\ Sound(Unique!Empty)
<1>1. Unique!Free \in Unique!Entry /\ SoundEntry(Unique!Free)
  BY DEF Unique!Free, Unique!Entry, SoundEntry
<1>2. ASSUME NEW h \in Host, NEW i \in Iface, NEW s \in BOOLEAN
      PROVE  Unique!Sole(h, i, s) \in Unique!Entry /\ SoundEntry(Unique!Sole(h, i, s))
  <2> DEFINE e == Unique!Sole(h, i, s)
  <2>1. e.host = h /\ e.iface = i /\ e.with = None /\ e.withIface = None
    BY DEF Unique!Sole, Unique!Free
  <2>2. h # None /\ i # None
    BY NoneAssumption
  <2>3. e \in Unique!Entry
    BY DEF Unique!Entry, Unique!Sole, Unique!Free
  <2> HIDE DEF e
  <2>4. SoundEntry(e)
    BY <2>1, <2>2 DEF SoundEntry
  <2> QED BY <2>3, <2>4 DEF e
<1>3. Sound(Unique!Empty)
  BY <1>1 DEF Sound, Unique!Empty
<1> QED BY <1>1, <1>2, <1>3

\* A claim names the switch first, gives nobody else the address, and keeps a
\* sharer that is not the third.
LEMMA ClaimUniqueFacts ==
    ASSUME NEW m, Sound(m), NEW a \in UniqueAddress, NEW h \in Host, NEW i \in Iface,
           NEW s \in BOOLEAN
    PROVE  LET n == Unique!ClaimUnique(m, a, h, i, s) IN
             /\ Sound(n)
             /\ n[a].host = h /\ n[a].iface = i /\ n[a].with # h
             /\ \A b \in UniqueAddress \ {a} : n[b] = m[b]
             /\ \A g \in Host \ {h}, j \in Iface :
                  /\ Holds(n[a], g, j) => Holds(m[a], g, j)
                  /\ (s /\ Holds(m[a], g, j) /\ Unique!Holders(m[a]) \subseteq {g, h})
                        => Holds(n[a], g, j)
<1> DEFINE e == m[a]
           n == Unique!ClaimUnique(m, a, h, i, s)
<1>1. m \in [UniqueAddress -> Unique!Entry] /\ e \in Unique!Entry /\ SoundEntry(e)
  BY DEF Sound
<1>2. PICK f : f = n[a]
  OBVIOUS
<1>3. n = [m EXCEPT ![a] = f] /\ \A b \in UniqueAddress \ {a} : n[b] = m[b]
  BY <1>1, <1>2 DEF Unique!ClaimUnique
<1> SUFFICES /\ f \in Unique!Entry /\ SoundEntry(f)
             /\ f.host = h /\ f.iface = i /\ f.with # h
             /\ \A g \in Host \ {h}, j \in Iface :
                  /\ Holds(f, g, j) => Holds(e, g, j)
                  /\ (s /\ Holds(e, g, j) /\ Unique!Holders(e) \subseteq {g, h}) => Holds(f, g, j)
  <2>1. n \in [UniqueAddress -> Unique!Entry] /\ \A b \in UniqueAddress : SoundEntry(n[b])
    BY <1>1, <1>2, <1>3 DEF Sound
  <2> QED BY <1>2, <1>3, <2>1 DEF Sound
<1>4. CASE s /\ e.host \notin {None, h}
  <2>1. f = [host |-> h, iface |-> i, shared |-> TRUE, with |-> e.host, withIface |-> e.iface]
    BY <1>1, <1>2, <1>4 DEF Unique!ClaimUnique, Unique!Sole, Unique!Free
  <2> QED BY <1>1, <1>4, <2>1, NoneAssumption
          DEF Unique!Entry, SoundEntry, Holds, Unique!Holders
<1>5. CASE s /\ e.host = h
  <2>1. f = [host |-> h, iface |-> i, shared |-> TRUE, with |-> e.with, withIface |-> e.withIface]
    BY <1>1, <1>2, <1>5, NoneAssumption
    DEF Unique!ClaimUnique, Unique!Sole, Unique!Free
  <2> QED BY <1>1, <1>5, <2>1, NoneAssumption
          DEF Unique!Entry, SoundEntry, Holds, Unique!Holders
<1>6. CASE ~s \/ e.host = None
  <2>1. f = [host |-> h, iface |-> i, shared |-> s, with |-> None, withIface |-> None]
    BY <1>1, <1>2, <1>6, NoneAssumption
    DEF Unique!ClaimUnique, Unique!Sole, Unique!Free
  <2>2. s => e = Unique!Free
    BY <1>1, <1>6 DEF SoundEntry
  <2> QED BY <1>1, <1>6, <2>1, <2>2, NoneAssumption
          DEF Unique!Entry, SoundEntry, Holds, Unique!Holders, Unique!Free
<1> QED BY <1>4, <1>5, <1>6

\* A release takes the switch's half and leaves the other holder its own.
LEMMA ReleaseUniqueFacts ==
    ASSUME NEW m, Sound(m), NEW a \in UniqueAddress, NEW h \in Host \cup {None}
    PROVE  LET n == Unique!ReleaseUnique(m, a, h) IN
             /\ Sound(n)
             /\ \A b \in UniqueAddress \ {a} : n[b] = m[b]
             /\ h \in Unique!Holders(m[a]) =>
                  \A g \in Host \ {h}, j \in Iface : Holds(n[a], g, j) <=> Holds(m[a], g, j)
<1> DEFINE e == m[a]
           n == Unique!ReleaseUnique(m, a, h)
<1>1. m \in [UniqueAddress -> Unique!Entry] /\ e \in Unique!Entry /\ SoundEntry(e)
  BY DEF Sound
<1>2. PICK f : f = n[a]
  OBVIOUS
<1>3. n = [m EXCEPT ![a] = f] /\ \A b \in UniqueAddress \ {a} : n[b] = m[b]
  BY <1>1, <1>2 DEF Unique!ReleaseUnique
<1> SUFFICES /\ f \in Unique!Entry /\ SoundEntry(f)
             /\ h \in Unique!Holders(e) =>
                  \A g \in Host \ {h}, j \in Iface : Holds(f, g, j) <=> Holds(e, g, j)
  <2>1. n \in [UniqueAddress -> Unique!Entry] /\ \A b \in UniqueAddress : SoundEntry(n[b])
    BY <1>1, <1>2, <1>3 DEF Sound
  <2> QED BY <1>2, <1>3, <2>1 DEF Sound
<1>4. CASE e.shared /\ h = e.host /\ e.with # None
  <2>1. f = [host |-> e.with, iface |-> e.withIface, shared |-> TRUE, with |-> None, withIface |-> None]
    BY <1>1, <1>2, <1>4 DEF Unique!ReleaseUnique, Unique!Sole, Unique!Free
  <2> QED BY <1>1, <1>4, <2>1, NoneAssumption
          DEF Unique!Entry, SoundEntry, Holds, Unique!Holders
<1>5. CASE e.shared /\ h # None /\ h = e.with
  <2>1. f = [host |-> e.host, iface |-> e.iface, shared |-> TRUE, with |-> None, withIface |-> None]
    BY <1>1, <1>2, <1>5, NoneAssumption
    DEF Unique!ReleaseUnique, Unique!Sole, Unique!Free, SoundEntry
  <2> QED BY <1>1, <1>5, <2>1, NoneAssumption
          DEF Unique!Entry, SoundEntry, Holds, Unique!Holders, Unique!Free
<1>6. CASE ~(e.shared /\ h = e.host /\ e.with # None) /\ ~(e.shared /\ h # None /\ h = e.with)
  <2>1. f = Unique!Free
    BY <1>1, <1>2, <1>6 DEF Unique!ReleaseUnique
  <2> QED BY <1>1, <1>6, <2>1, UniqueEntries, NoneAssumption
          DEF Unique!Entry, SoundEntry, Holds, Unique!Holders, Unique!Free
<1> QED BY <1>4, <1>5, <1>6

\* The clean-up before a claim keeps records sound, and finds nothing when the
\* switch has not recorded the interface yet.
LEMMA DropUniqueFacts ==
    ASSUME NEW m, Sound(m), NEW h \in Host, NEW i
    PROVE  /\ Sound(Unique!DropInterface(m, h, i))
           /\ (\A a \in UniqueAddress : m[a].host = h => m[a].iface # i)
                => Unique!DropInterface(m, h, i) = m
<1>1. \A a \in UniqueAddress : /\ Unique!ReleaseUnique(m, a, h)[a] \in Unique!Entry
                         /\ SoundEntry(Unique!ReleaseUnique(m, a, h)[a])
  BY ReleaseUniqueFacts DEF Sound
<1> QED BY <1>1 DEF Unique!DropInterface, Sound

-----------------------------------------------------------------------------
(* Records stay sound, whatever is claimed. *)

LEMMA InitWellRecorded == Unique!Init => WellRecorded
BY UniqueEntries DEF Unique!Init, WellRecorded, Progress

LEMMA EditorWellRecorded ==
    ASSUME WellRecorded,
           \/ \E h \in Host, i \in Iface, a \in UniqueAddress : Unique!Allocate(h, i, a)
           \/ \E a \in UniqueAddress, h \in Host \cup {None} : Unique!Release(a, h)
    PROVE  WellRecorded'
<1>1. \A a \in UniqueAddress : alloc[a].shared \in BOOLEAN
  BY DEF WellRecorded, Sound, Unique!Entry
<1>2. Sound(alloc')
  BY <1>1, ClaimUniqueFacts, ReleaseUniqueFacts
  DEF Unique!Allocate, Unique!Release, WellRecorded
<1>3. UNCHANGED <<pc, switch, claims, next, mem>>
  BY DEF Unique!Allocate, Unique!Release
<1> QED BY <1>2, <1>3 DEF WellRecorded, Progress, Sound

\* What a claim of the sync reads and leaves.
LEMMA ClaimUniqueStep ==
    ASSUME WellRecorded, Unique!SyncClaim
    PROVE  LET c == claims[next] IN
             /\ c \in Unique!Claim /\ c.ip \in UniqueAddress /\ c.iface \in Iface /\ c.shared \in BOOLEAN
             /\ switch \in Host /\ claims \in UniqueScans /\ next \in DOMAIN claims
             /\ Done' = Done \cup {c}
             /\ pc = "scanning" /\ UNCHANGED <<alloc, pc, switch, claims>>
             /\ Progress'
<1>1. /\ pc = "scanning" /\ next <= Len(claims) /\ next' = next + 1
      /\ UNCHANGED <<alloc, pc, switch, claims>>
  BY DEF Unique!SyncClaim
<1>2. /\ switch \in Host /\ claims \in UniqueScans /\ claims \in Seq(Unique!Claim)
      /\ Len(claims) \in Nat /\ next \in Nat \ {0} /\ next \in DOMAIN claims
  BY <1>1 DEF WellRecorded, Progress
<1>3. claims[next] \in Unique!Claim
  BY <1>2
<1>4. 1 .. (next' - 1) = (1 .. (next - 1)) \cup {next}
  BY <1>1, <1>2
<1>5. Done' = Done \cup {claims[next]}
  BY <1>1, <1>4 DEF Done
<1> QED BY <1>1, <1>2, <1>3, <1>5 DEF Unique!Claim, Progress

LEMMA SyncWellRecorded ==
    ASSUME UniqueScans \subseteq Seq(Unique!Claim), WellRecorded, Unique!Sync
    PROVE  WellRecorded'
<1>1. CASE \E h \in Host : Unique!SyncLoad(h)
  <2>1. claims' \in Seq(Unique!Claim) /\ claims' \in UniqueScans /\ Len(claims') \in Nat
    BY <1>1 DEF Unique!SyncLoad
  <2> QED BY <1>1, <2>1 DEF Unique!SyncLoad, WellRecorded, Progress, Sound
<1>2. CASE Unique!SyncRelease
  <2>1. PICK a \in Unique!HeldBy(mem, switch) : mem' = Unique!ReleaseUnique(mem, a, switch)
    BY <1>2 DEF Unique!SyncRelease
  <2>2. Sound(mem')
    BY <2>1, ReleaseUniqueFacts DEF WellRecorded, Progress, Unique!HeldBy
  <2> QED BY <1>2, <2>2 DEF Unique!SyncRelease, WellRecorded, Progress, Sound
<1>3. CASE Unique!SyncScan
  BY <1>3 DEF Unique!SyncScan, WellRecorded, Progress, Sound
<1>4. CASE Unique!SyncClaim
  <2> DEFINE c == claims[next]
             d == Unique!DropInterface(mem, switch, c.iface)
  <2>1. /\ c.ip \in UniqueAddress /\ c.iface \in Iface /\ c.shared \in BOOLEAN
        /\ switch \in Host /\ UNCHANGED alloc /\ Progress'
    BY <1>4, ClaimUniqueStep
  <2>2. Sound(d) /\ mem' = Unique!ClaimUnique(d, c.ip, switch, c.iface, c.shared)
    BY <1>4, <2>1, DropUniqueFacts DEF Unique!SyncClaim, WellRecorded
  <2>3. Sound(mem')
    BY <2>1, <2>2, ClaimUniqueFacts
  <2> QED BY <2>1, <2>3 DEF WellRecorded, Sound
<1>5. CASE Unique!SyncSave
  BY <1>5, UniqueEntries DEF Unique!SyncSave, WellRecorded, Progress, Sound
<1> QED BY <1>1, <1>2, <1>3, <1>4, <1>5 DEF Unique!Sync

LEMMA NextWellRecorded ==
    ASSUME UniqueScans \subseteq Seq(Unique!Claim)
    PROVE  WellRecorded /\ [Unique!Next]_(Unique!vars) => WellRecorded'
<1> SUFFICES ASSUME WellRecorded, [Unique!Next]_(Unique!vars) PROVE WellRecorded'
  OBVIOUS
<1>1. CASE UNCHANGED Unique!vars
  BY <1>1 DEF Unique!vars, WellRecorded, Progress, Sound
<1> QED BY <1>1, EditorWellRecorded, SyncWellRecorded DEF Unique!Next

\* Every variable of a unique pool keeps its type, and an address has at most two
\* holders, two different ones and only when it is shared: claims, half releases
\* and saves in any order keep the records so.
THEOREM UniqueTypeCorrect ==
    ASSUME UniqueScans \subseteq Seq(Unique!Claim)
    PROVE  Unique!Spec => []Unique!TypeOK
<1>1. WellRecorded => Unique!TypeOK
  BY DEF WellRecorded, Sound, SoundEntry, Progress, Unique!TypeOK, Unique!SharedByTwo
<1> QED BY <1>1, InitWellRecorded, NextWellRecorded, PTL DEF Unique!Spec

-----------------------------------------------------------------------------
(***************************************************************************)
(* The second part: what a sync has achieved so far.                       *)
(***************************************************************************)
SavesExactly == HoldsClaims /\ SharersKept

LEMMA RestExact == pc = "idle" => SavesExactly
BY DEF SavesExactly, HoldsClaims, SharersKept

LEMMA LoadExact ==
    ASSUME WellRecorded, NEW h \in Host, Unique!SyncLoad(h)
    PROVE  SavesExactly'
<1>1. Done' = {}
  BY DEF Unique!SyncLoad, Done
<1> QED BY <1>1 DEF Unique!SyncLoad, SavesExactly, HoldsClaims, SharersKept

LEMMA ReleaseExact ==
    ASSUME WellRecorded, SavesExactly, Unique!SyncRelease
    PROVE  SavesExactly'
<1>1. PICK a \in Unique!HeldBy(mem, switch) : mem' = Unique!ReleaseUnique(mem, a, switch)
  BY DEF Unique!SyncRelease
<1>2. UNCHANGED <<alloc, pc, switch, claims, next>> /\ pc = "clearing"
  BY DEF Unique!SyncRelease
<1>3. a \in UniqueAddress /\ switch \in Unique!Holders(mem[a]) /\ switch \in Host
  BY <1>1, <1>2 DEF Unique!HeldBy, WellRecorded, Progress
<1>4. \A b \in UniqueAddress, g \in Host \ {switch}, j \in Iface :
         Holds(mem'[b], g, j) <=> Holds(mem[b], g, j)
  <2>1. /\ \A b \in UniqueAddress \ {a} : mem'[b] = mem[b]
        /\ \A g \in Host \ {switch}, j \in Iface : Holds(mem'[a], g, j) <=> Holds(mem[a], g, j)
    BY <1>1, <1>3, ReleaseUniqueFacts DEF WellRecorded
  <2> QED BY <2>1 DEF Holds
<1>5. Done' = Done
  BY <1>2 DEF Done
<1> QED BY <1>2, <1>4, <1>5 DEF SavesExactly, HoldsClaims, SharersKept

LEMMA ScanExact ==
    ASSUME WellRecorded, SavesExactly, Unique!SyncScan
    PROVE  SavesExactly'
<1>1. UNCHANGED <<alloc, switch, claims, next, mem>> /\ pc = "clearing" /\ pc' = "scanning"
  BY DEF Unique!SyncScan
<1>2. next = 1 /\ Done = {} /\ Done' = {} /\ switch # None
  BY <1>1, NoneAssumption DEF WellRecorded, Progress, Done
<1>3. \A a \in UniqueAddress : mem[a].host # switch /\ mem[a].with # switch
  BY <1>2 DEF Unique!SyncScan, Unique!HeldBy, Unique!Holders
<1>4. HoldsClaims'
  BY <1>1, <1>2, <1>3 DEF HoldsClaims
<1>5. SharersKept'
  BY <1>1, <1>2 DEF SavesExactly, SharersKept
<1> QED BY <1>4, <1>5 DEF SavesExactly

LEMMA ClaimExact ==
    ASSUME Unambiguous, WellRecorded, SavesExactly, Unique!SyncClaim
    PROVE  SavesExactly'
<1> DEFINE c == claims[next]
<1>1. /\ c \in Unique!Claim /\ c.ip \in UniqueAddress /\ c.iface \in Iface /\ c.shared \in BOOLEAN
      /\ switch \in Host /\ claims \in UniqueScans /\ next \in DOMAIN claims
      /\ Done' = Done \cup {c}
      /\ pc = "scanning" /\ UNCHANGED <<alloc, pc, switch, claims>>
  BY ClaimUniqueStep
<1>2. \A d \in Done : \E k \in DOMAIN claims : k # next /\ d = claims[k]
  <2>1. next \in Nat /\ next - 1 <= Len(claims) /\ Len(claims) \in Nat
        /\ DOMAIN claims = 1 .. Len(claims)
    BY DEF WellRecorded, Progress
  <2> QED BY <2>1 DEF Done
<1>3. \A a \in UniqueAddress : mem[a].host = switch => mem[a].iface # c.iface
  <2> SUFFICES ASSUME NEW a \in UniqueAddress, mem[a].host = switch, mem[a].iface = c.iface
               PROVE  FALSE
    OBVIOUS
  <2>1. PICK d \in Done : d.iface = c.iface
    BY <1>1 DEF SavesExactly, HoldsClaims
  <2>2. PICK k \in DOMAIN claims : k # next /\ d = claims[k]
    BY <1>2
  <2> QED BY <1>1, <2>1, <2>2 DEF Unambiguous
<1>4. mem' = Unique!ClaimUnique(mem, c.ip, switch, c.iface, c.shared)
  <2>1. Unique!DropInterface(mem, switch, c.iface) = mem
    BY <1>1, <1>3, DropUniqueFacts DEF WellRecorded
  <2> QED BY <2>1 DEF Unique!SyncClaim
<1>5. /\ mem'[c.ip].host = switch /\ mem'[c.ip].iface = c.iface /\ mem'[c.ip].with # switch
      /\ \A b \in UniqueAddress \ {c.ip} : mem'[b] = mem[b]
      /\ \A g \in Host \ {switch}, j \in Iface :
           /\ Holds(mem'[c.ip], g, j) => Holds(mem[c.ip], g, j)
           /\ (c.shared /\ Holds(mem[c.ip], g, j) /\ Unique!Holders(mem[c.ip]) \subseteq {g, switch})
                 => Holds(mem'[c.ip], g, j)
  BY <1>1, <1>4, ClaimUniqueFacts DEF WellRecorded
<1>6. HoldsClaims'
  <2>1. ASSUME NEW a \in UniqueAddress
        PROVE  /\ mem'[a].with # switch
               /\ mem'[a].host = switch => \E d \in Done' : d.ip = a /\ d.iface = mem'[a].iface
    <3>1. CASE a = c.ip
      BY <1>1, <1>5, <3>1
    <3>2. CASE a # c.ip
      BY <1>1, <1>5, <3>2 DEF SavesExactly, HoldsClaims
    <3> QED BY <3>1, <3>2
  <2>2. ASSUME NEW d \in Done' PROVE mem'[d.ip].host = switch
    <3>1. d = c \/ d \in Done
      BY <1>1
    <3>2. d \in Unique!Claim
      BY <1>1, <1>2, <3>1 DEF WellRecorded, Progress
    <3>3. d.ip \in UniqueAddress
      BY <3>2 DEF Unique!Claim
    <3> QED BY <1>1, <1>5, <3>1, <3>3 DEF SavesExactly, HoldsClaims
  <2> QED BY <1>1, <2>1, <2>2 DEF HoldsClaims
<1>7. SharersKept'
  <2> SUFFICES ASSUME NEW a \in UniqueAddress, NEW g \in Host \ {switch}, NEW i \in Iface
               PROVE  /\ Holds(mem'[a], g, i) => Holds(alloc[a], g, i)
                      /\ Holds(alloc[a], g, i)
                         /\ (\A d \in Done' : d.ip = a =>
                               d.shared /\ Unique!Holders(alloc[a]) \subseteq {g, switch})
                           => Holds(mem'[a], g, i)
    BY <1>1 DEF SharersKept
  <2>1. /\ Holds(mem[a], g, i) => Holds(alloc[a], g, i)
        /\ Holds(alloc[a], g, i)
           /\ (\A d \in Done : d.ip = a => d.shared /\ Unique!Holders(alloc[a]) \subseteq {g, switch})
             => Holds(mem[a], g, i)
    BY <1>1 DEF SavesExactly, SharersKept
  <2>2. CASE a # c.ip
    BY <1>1, <1>5, <2>1, <2>2
  <2>3. CASE a = c.ip
    <3>1. Holds(mem'[a], g, i) => Holds(alloc[a], g, i)
      BY <1>5, <2>1, <2>3
    <3>2. ASSUME Holds(alloc[a], g, i),
                 \A d \in Done' : d.ip = a => d.shared /\ Unique!Holders(alloc[a]) \subseteq {g, switch}
          PROVE  Holds(mem'[a], g, i)
      <4>1. c.shared /\ Unique!Holders(alloc[a]) \subseteq {g, switch} /\ Holds(mem[a], g, i)
        BY <1>1, <2>1, <2>3, <3>2
      <4>2. Unique!Holders(mem[a]) \subseteq {g, switch}
        <5> SUFFICES ASSUME NEW x \in Unique!Holders(mem[a]), x \notin {g, switch}
                     PROVE  FALSE
          OBVIOUS
        <5>1. PICK j \in Iface : Holds(mem[a], x, j) /\ x \in Host
          BY DEF Unique!Holders, WellRecorded, Sound, SoundEntry, Unique!Entry, Holds
        <5>2. Holds(alloc[a], x, j)
          BY <1>1, <5>1 DEF SavesExactly, SharersKept
        <5> QED BY <4>1, <5>1, <5>2, NoneAssumption DEF Holds, Unique!Holders
      <4> QED BY <1>5, <2>3, <4>1, <4>2
    <3> QED BY <3>1, <3>2
  <2> QED BY <2>2, <2>3
<1> QED BY <1>6, <1>7 DEF SavesExactly

LEMMA NextExact ==
    ASSUME Unambiguous
    PROVE  WellRecorded /\ SavesExactly /\ [Unique!Next]_(Unique!vars) => SavesExactly'
<1> SUFFICES ASSUME WellRecorded, SavesExactly, [Unique!Next]_(Unique!vars) PROVE SavesExactly'
  OBVIOUS
<1>1. CASE UNCHANGED Unique!vars
  BY <1>1 DEF Unique!vars, SavesExactly, HoldsClaims, SharersKept, Done
<1>2. CASE \/ \E h \in Host, i \in Iface, a \in UniqueAddress : Unique!Allocate(h, i, a)
           \/ \E a \in UniqueAddress, h \in Host \cup {None} : Unique!Release(a, h)
           \/ Unique!SyncSave
  <2>1. pc' = "idle"
    BY <1>2 DEF Unique!Allocate, Unique!Release, Unique!SyncSave
  <2> QED BY <2>1 DEF SavesExactly, HoldsClaims, SharersKept
<1> QED BY <1>1, <1>2, LoadExact, ReleaseExact, ScanExact, ClaimExact
        DEF Unique!Next, Unique!Sync

LEMMA InitExact == Unique!Init => SavesExactly
BY DEF Unique!Init, SavesExactly, HoldsClaims, SharersKept

LEMMA AlwaysExact ==
    ASSUME UniqueScans \subseteq Seq(Unique!Claim), Unambiguous
    PROVE  Unique!Spec => [](WellRecorded /\ SavesExactly)
BY InitWellRecorded, NextWellRecorded, InitExact, NextExact, PTL DEF Unique!Spec

\* What is recorded when a sync saves.
LEMMA SavedUniqueFacts ==
    ASSUME WellRecorded, SavesExactly, Unique!Next, Unique!Saving
    PROVE  /\ alloc' = mem /\ switch \in Host /\ pc = "scanning"
           /\ Done = {claims[k] : k \in DOMAIN claims} /\ Done \subseteq Unique!Claim
           /\ Unique!HeldBy(mem, switch) = Unique!Claimed
<1>1. Unique!SyncSave
  BY DEF Unique!Next, Unique!Sync, Unique!Saving, Unique!Allocate, Unique!Release, Unique!SyncLoad, Unique!SyncRelease, Unique!SyncScan, Unique!SyncClaim
<1>2. /\ claims \in Seq(Unique!Claim) /\ Len(claims) \in Nat
      /\ next - 1 = Len(claims) /\ switch \in Host
  BY <1>1 DEF Unique!SyncSave, WellRecorded, Progress
<1>3. Done = {claims[k] : k \in DOMAIN claims} /\ Done \subseteq Unique!Claim
  BY <1>2 DEF Done
<1>4. Unique!Claimed = {c.ip : c \in Done} /\ Unique!Claimed \subseteq UniqueAddress
  BY <1>3 DEF Unique!Claimed, Unique!Claim
<1>5. \A a \in UniqueAddress : a \in Unique!Claimed <=> switch \in Unique!Holders(mem[a])
  <2>1. pc = "scanning" /\ switch # None
    BY <1>1, <1>2, NoneAssumption DEF Unique!SyncSave
  <2> QED BY <1>4, <2>1 DEF SavesExactly, HoldsClaims, Unique!Holders
<1> QED BY <1>1, <1>2, <1>3, <1>4, <1>5 DEF Unique!SyncSave, Unique!HeldBy

\* Holdings says of a pool what Holds says of an entry.
LEMMA HoldingsHold ==
    ASSUME NEW m, NEW a \in UniqueAddress, NEW g, NEW i
    PROVE  <<a, g, i>> \in Unique!Holdings(m) <=> Holds(m[a], g, i)
BY DEF Unique!Holdings, Holds

\* A saved switch holds exactly the addresses in its host_vars, and takes from
\* another only what it claims for itself, or as the third to share it.
THEOREM UniqueSavedExactly ==
    ASSUME UniqueScans \subseteq Seq(Unique!Claim), Unambiguous
    PROVE  Unique!Spec => Unique!SyncIsExact
<1> DEFINE Saved == Unique!Saving =>
      /\ Unique!HeldBy(alloc', switch) = Unique!Claimed
      /\ \A a \in UniqueAddress, g \in Host \ {switch}, i \in Iface :
            (/\ <<a, g, i>> \in Unique!Holdings(alloc)
             /\ \/ a \notin Unique!Claimed
                \/ /\ a \in Unique!SharedClaims
                   /\ Unique!Holders(alloc[a]) \subseteq {g, switch})
              => <<a, g, i>> \in Unique!Holdings(alloc')
<1>1. ASSUME WellRecorded, SavesExactly, Unique!Next, Unambiguous PROVE Saved
  <2> SUFFICES ASSUME Unique!Saving PROVE Saved
    OBVIOUS
  <2>1. /\ alloc' = mem /\ switch \in Host /\ pc = "scanning"
        /\ Done = {claims[k] : k \in DOMAIN claims} /\ Done \subseteq Unique!Claim
        /\ Unique!HeldBy(mem, switch) = Unique!Claimed
    BY <1>1, SavedUniqueFacts
  <2>2. ASSUME NEW a \in UniqueAddress, NEW g \in Host \ {switch}, NEW i \in Iface,
               <<a, g, i>> \in Unique!Holdings(alloc),
               \/ a \notin Unique!Claimed
               \/ a \in Unique!SharedClaims /\ Unique!Holders(alloc[a]) \subseteq {g, switch}
        PROVE  <<a, g, i>> \in Unique!Holdings(alloc')
    <3>1. Holds(alloc[a], g, i)
      BY <2>2, HoldingsHold
    <3>2. ASSUME NEW d \in Done, d.ip = a
          PROVE  d.shared /\ Unique!Holders(alloc[a]) \subseteq {g, switch}
      <4>1. PICK k \in DOMAIN claims : d = claims[k]
        BY <2>1
      <4>2. a \in Unique!SharedClaims /\ Unique!Holders(alloc[a]) \subseteq {g, switch}
        BY <2>2, <3>2, <4>1 DEF Unique!Claimed
      <4>3. PICK j \in DOMAIN claims : claims[j].shared /\ claims[j].ip = a
        BY <4>2 DEF Unique!SharedClaims
      <4>4. claims \in UniqueScans
        BY <1>1, <2>1 DEF WellRecorded, Progress
      <4> QED BY <1>1, <3>2, <4>1, <4>2, <4>3, <4>4 DEF Unambiguous
    <3>3. Holds(mem[a], g, i)
      BY <1>1, <2>1, <3>1, <3>2 DEF SavesExactly, SharersKept
    <3> QED BY <2>1, <3>3, HoldingsHold
  <2> QED BY <2>1, <2>2
<1>2. WellRecorded /\ SavesExactly /\ Unambiguous /\ [Unique!Next]_(Unique!vars) => [Saved]_(Unique!vars)
  BY <1>1
<1> QED BY <1>2, AlwaysExact, PTL DEF Unique!Spec, Unique!SyncIsExact

\* Saving a switch whose addresses are recorded already changes no holding.
THEOREM UniqueResaveKeeps ==
    ASSUME UniqueScans \subseteq Seq(Unique!Claim), Unambiguous
    PROVE  Unique!Spec => Unique!ResaveKeepsHoldings
<1> DEFINE Kept == (Unique!Saving /\ {<<claims[k].ip, switch, claims[k].iface>> : k \in DOMAIN claims}
                               = {t \in Unique!Holdings(alloc) : t[2] = switch}
                    /\ \A k \in DOMAIN claims : claims[k].shared <=> alloc[claims[k].ip].shared)
                      => Unique!Holdings(alloc') = Unique!Holdings(alloc)
<1>1. ASSUME WellRecorded, SavesExactly, Unique!Next PROVE Kept
  <2> SUFFICES ASSUME Unique!Saving,
                 {<<claims[k].ip, switch, claims[k].iface>> : k \in DOMAIN claims}
                   = {t \in Unique!Holdings(alloc) : t[2] = switch},
                 \A k \in DOMAIN claims : claims[k].shared <=> alloc[claims[k].ip].shared
               PROVE  Unique!Holdings(mem) = Unique!Holdings(alloc)
    BY <1>1, SavedUniqueFacts
  <2>1. /\ switch \in Host /\ pc = "scanning" /\ switch # None
        /\ Done = {claims[k] : k \in DOMAIN claims} /\ Done \subseteq Unique!Claim
        /\ Unique!HeldBy(mem, switch) = Unique!Claimed
        /\ Sound(alloc) /\ Sound(mem)
    BY <1>1, SavedUniqueFacts, NoneAssumption DEF WellRecorded
  <2>2. \A a \in UniqueAddress, i \in Iface :
           Holds(alloc[a], switch, i) <=> \E d \in Done : d.ip = a /\ d.iface = i
    <3> SUFFICES ASSUME NEW a \in UniqueAddress, NEW i \in Iface
                 PROVE  Holds(alloc[a], switch, i) <=> \E d \in Done : d.ip = a /\ d.iface = i
      OBVIOUS
    <3>1. Holds(alloc[a], switch, i) <=> <<a, switch, i>> \in {t \in Unique!Holdings(alloc) : t[2] = switch}
      BY HoldingsHold
    <3>2. <<a, switch, i>> \in {<<claims[k].ip, switch, claims[k].iface>> : k \in DOMAIN claims}
            <=> \E k \in DOMAIN claims : claims[k].ip = a /\ claims[k].iface = i
      OBVIOUS
    <3> QED BY <2>1, <3>1, <3>2
  <2>3. ASSUME NEW a \in UniqueAddress, NEW i \in Iface
        PROVE  Holds(mem[a], switch, i) <=> Holds(alloc[a], switch, i)
    <3>1. Holds(mem[a], switch, i) => \E d \in Done : d.ip = a /\ d.iface = i
      BY <1>1, <2>1 DEF SavesExactly, HoldsClaims, Holds
    <3>2. ASSUME Holds(alloc[a], switch, i) PROVE Holds(mem[a], switch, i)
      <4>1. PICK d \in Done : d.ip = a /\ d.iface = i
        BY <2>2, <3>2
      <4>2. mem[a].host = switch
        BY <1>1, <2>1, <4>1 DEF SavesExactly, HoldsClaims
      <4>3. mem[a].iface \in Iface
        BY <2>1, <4>2 DEF Sound, SoundEntry, Unique!Entry
      <4>4. Holds(alloc[a], switch, mem[a].iface)
        BY <1>1, <2>1, <2>2, <4>2, <4>3 DEF SavesExactly, HoldsClaims
      <4>5. i = mem[a].iface
        BY <2>1, <3>2, <4>4 DEF Sound, SoundEntry, Holds
      <4> QED BY <4>2, <4>5 DEF Holds
    <3> QED BY <2>2, <3>1, <3>2
  <2>4. ASSUME NEW a \in UniqueAddress, NEW g \in Host \ {switch}, NEW i \in Iface
        PROVE  Holds(mem[a], g, i) <=> Holds(alloc[a], g, i)
    <3>1. ASSUME Holds(alloc[a], g, i), NEW d \in Done, d.ip = a
          PROVE  d.shared /\ Unique!Holders(alloc[a]) \subseteq {g, switch}
      <4>1. d.iface \in Iface
        BY <2>1 DEF Unique!Claim
      <4>2. Holds(alloc[a], switch, d.iface)
        BY <2>2, <3>1, <4>1
      <4>3. alloc[a].shared /\ Unique!Holders(alloc[a]) \subseteq {g, switch}
        BY <2>1, <3>1, <4>2, NoneAssumption
        DEF Sound, SoundEntry, Holds, Unique!Holders, Unique!Free
      <4> QED BY <2>1, <3>1, <4>3
    <3> QED BY <1>1, <2>1, <3>1 DEF SavesExactly, SharersKept
  <2>5. ASSUME NEW a \in UniqueAddress
        PROVE  mem[a].host = None \/ mem[a].with = None <=> alloc[a].host = None \/ alloc[a].with = None
    <3>1. ASSUME NEW m, NEW n, Sound(m), Sound(n),
                 \A g \in Host, i \in Iface : Holds(m[a], g, i) <=> Holds(n[a], g, i),
                 ~(m[a].host = None \/ m[a].with = None)
          PROVE  ~(n[a].host = None \/ n[a].with = None)
      <4>1. /\ m[a].host \in Host /\ m[a].iface \in Iface
            /\ m[a].with \in Host /\ m[a].withIface \in Iface
            /\ m[a].host # m[a].with
        BY <3>1 DEF Sound, SoundEntry, Unique!Entry
      <4>2. Holds(n[a], m[a].host, m[a].iface) /\ Holds(n[a], m[a].with, m[a].withIface)
        BY <3>1, <4>1 DEF Holds
      <4> QED BY <4>1, <4>2, NoneAssumption DEF Holds
    <3>2. \A g \in Host, i \in Iface : Holds(mem[a], g, i) <=> Holds(alloc[a], g, i)
      BY <2>3, <2>4
    <3> QED BY <2>1, <3>1, <3>2
  <2>6. ASSUME NEW a \in UniqueAddress, NEW g, NEW i
        PROVE  Holds(mem[a], g, i) <=> Holds(alloc[a], g, i)
    <3>1. \A m : Sound(m) /\ Holds(m[a], g, i) =>
             \/ g \in Host /\ i \in Iface
             \/ g = None /\ i = None
      BY DEF Sound, SoundEntry, Unique!Entry, Holds
    <3>2. \A m : Sound(m) => (Holds(m[a], None, None) <=> m[a].host = None \/ m[a].with = None)
      BY DEF Sound, SoundEntry, Holds
    <3> QED BY <2>1, <2>3, <2>4, <2>5, <3>1, <3>2, NoneAssumption
  <2>7. \A a \in UniqueAddress : \A g, i : <<a, g, i>> \in Unique!Holdings(mem) <=> <<a, g, i>> \in Unique!Holdings(alloc)
    BY <2>6, HoldingsHold
  <2>8. \A t \in Unique!Holdings(mem) \cup Unique!Holdings(alloc) :
           \E a \in UniqueAddress : \E g, i : t = <<a, g, i>>
    BY DEF Unique!Holdings
  <2>9. ASSUME NEW t PROVE t \in Unique!Holdings(mem) <=> t \in Unique!Holdings(alloc)
    BY <2>7, <2>8
  <2> QED BY <2>9
<1>2. WellRecorded /\ SavesExactly /\ [Unique!Next]_(Unique!vars) => [Kept]_(Unique!vars)
  BY <1>1
<1> QED BY <1>2, AlwaysExact, PTL DEF Unique!Spec, Unique!ResaveKeepsHoldings
=============
