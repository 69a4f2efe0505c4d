-------------------------- MODULE SupernetPoolsProofs --------------------------
(***************************************************************************)
(* Pools do not share addresses, for any networks, any number of pools and *)
(* any number of stops between two writes, as long as a delegation is only *)
(* narrowed (Narrowing).  And as long as the requests are such as an       *)
(* up-to-date page offers (Careful), what an operation leaves when the     *)
(* server does not stop within it is settled: the blocks of a supernet     *)
(* make a tree that their statuses describe, each delegation and its pool  *)
(* name each other, and the addresses of VLAN interfaces that are not      *)
(* stray are in the blocks of VLANs.                                       *)
(***************************************************************************)
EXTENDS SupernetPools, FiniteSetTheorems, WellFoundedInduction, TLAPS

\* A pool delegated from another is so from a supernet that is there; only
\* the pools that addresses are allocated from hold any, of their own range.
ParentsThere ==
    \A p \in Pool : Exists(p) /\ pools[p].parent # None => Supernet(pools[p].parent)
HeldInRange ==
    Ranged => \A p \in Pool : Exists(p) =>
                held[p] \subseteq (IF Leaf(p) THEN pools[p].subnet ELSE {})

PoolsTyped == /\ pools \in [Pool -> Definition \cup {None}]
              /\ held \in [Pool -> SUBSET Address]

IInv == PoolsTyped /\ ParentsThere /\ PoolsApart /\ HeldInRange

\* A pool has a range, and a leaf is no supernet.
LEMMA DefinitionFields ==
    ASSUME NEW d \in Definition
    PROVE  /\ d.subnet \in Net
           /\ d.parent \in Pool \cup {None}
           /\ d.kind \in {"leaf", "supernet"}
           /\ d.kind = "supernet" => d.parent = None
BY DEF Definition

LEMMA InitIInv == Init => IInv
BY DEF Init, IInv, PoolsTyped, ParentsThere, PoolsApart, HeldInRange, Exists,
       Supernet, Leaf

\* A new pool p with definition d, its range apart from all but its parent's.
LEMMA NewPool ==
    ASSUME IInv, NEW p \in Pool, NEW d \in Definition,
           Unused(p),
           d.parent # None => Supernet(d.parent) /\ d.subnet \subseteq pools[d.parent].subnet,
           ~Clashes(d.subnet, d.parent),
           pools' = [pools EXCEPT ![p] = d], held' = held
    PROVE  IInv'
<1> USE DEF IInv, PoolsTyped, Unused, Exists
<1>1. PoolsTyped'
  OBVIOUS
<1>2. pools'[p] = d /\ \A q \in Pool \ {p} : pools'[q] = pools[q]
  OBVIOUS
<1>3. d # None /\ d.parent # p
  BY NoneAssumption DEF Supernet
<1>4. ParentsThere'
  BY <1>2, <1>3, DefinitionFields, NoneAssumption DEF ParentsThere, Supernet
<1>5. PoolsApart'
  <2>1. \A q \in Pool \ {p, d.parent} :
           Exists(q) => ~Overlaps(pools[q].subnet, d.subnet)
    BY DEF Clashes
  <2>2. \A q \in Pool \ {p} : Exists(q) => ~Overlaps(d.subnet, pools[q].subnet)
                                             \/ d.parent = q
    BY <2>1 DEF Overlaps
  <2>3. \A q \in Pool \ {p} : Exists(q) => ~Overlaps(pools[q].subnet, d.subnet)
                                             \/ d.parent = q
    BY <2>1
  <2>4. \A q \in Pool : d.parent = q => d.subnet \subseteq pools[q].subnet
    BY NoneAssumption
  <2> SUFFICES ASSUME NEW x \in Pool, NEW y \in Pool, x # y,
                      pools'[x] # None, pools'[y] # None,
                      Overlaps(pools'[x].subnet, pools'[y].subnet)
               PROVE  \/ /\ pools'[x].parent = y
                         /\ pools'[x].subnet \subseteq pools'[y].subnet
                      \/ /\ pools'[y].parent = x
                         /\ pools'[y].subnet \subseteq pools'[x].subnet
    BY DEF PoolsApart, Overlaps
  <2>5. CASE x = p
    BY <1>2, <2>2, <2>4, <2>5
  <2>6. CASE y = p
    BY <1>2, <2>3, <2>4, <2>6
  <2>7. CASE x # p /\ y # p
    BY <1>2, <2>7 DEF PoolsApart
  <2> QED BY <2>5, <2>6, <2>7
<1>6. HeldInRange'
  BY <1>2, <1>3 DEF HeldInRange, Leaf
<1> QED BY <1>1, <1>4, <1>5, <1>6

LEMMA AddPoolIInv ==
    ASSUME IInv, NEW p \in Pool, NEW kind \in {"leaf", "supernet"},
           NEW s \in Net, NEW size, Unused(p), AddPool(p, kind, s, size)
    PROVE  IInv'
<1> DEFINE d == [kind |-> kind, subnet |-> s, parent |-> None, carve |-> size]
<1>1. d \in Definition /\ Unused(p) /\ ~Clashes(d.subnet, d.parent) /\ d.parent = None
  BY DEF AddPool
<1>2. pools' = [pools EXCEPT ![p] = d] /\ held' = held
  BY DEF AddPool
<1> HIDE DEF d
<1> QED BY <1>1, <1>2, NewPool

LEMMA DelegateIInv ==
    ASSUME IInv, NEW p \in Pool, NEW q \in Pool, NEW s \in Net,
           Unused(p), Delegate(p, q, s)
    PROVE  IInv'
<1> DEFINE d == [kind |-> "leaf", subnet |-> s, parent |-> q, carve |-> 0]
<1>1. d \in Definition /\ d.parent = q /\ d.subnet = s
  BY DEF Definition
<1>2. Unused(p) /\ ~Clashes(s, q) /\ Supernet(q) /\ s \subseteq pools[q].subnet
  BY DEF Delegate, Delegable
<1>3. pools' = [pools EXCEPT ![p] = d] /\ held' = held
  BY DEF Delegate
<1> HIDE DEF d
<1> QED BY <1>1, <1>2, <1>3, NewPool

\* A leaf takes a range s that meets only ranges its old one meets as well.
LEMMA NewRange ==
    ASSUME IInv, NEW p \in Pool, NEW s \in Net,
           Leaf(p), held[p] \subseteq s,
           \A q \in Pool \ {p, pools[p].parent} :
              Exists(q) => ~Overlaps(pools[q].subnet, s),
           pools[p].parent # None => s \subseteq pools[pools[p].parent].subnet,
           pools' = [pools EXCEPT ![p].subnet = s], held' = held
    PROVE  IInv'
<1> USE DEF IInv, PoolsTyped, Exists
<1> DEFINE d == [pools[p] EXCEPT !.subnet = s]
<1>1. /\ d \in Definition /\ d.subnet = s
      /\ d.parent = pools[p].parent /\ d.kind = "leaf"
  <2>1. pools[p] \in Definition /\ pools[p].kind = "leaf"
    BY DEF Leaf
  <2> QED BY <2>1 DEF Definition
<1>2. pools' = [pools EXCEPT ![p] = d]
  BY DEF Leaf
<1> HIDE DEF d
<1>3. pools'[p] = d /\ \A q \in Pool \ {p} : pools'[q] = pools[q]
  BY <1>2
<1>4. PoolsTyped'
  BY <1>1, <1>2
<1>5. d # None
  BY <1>1, NoneAssumption
<1>6. d.parent # p
  BY <1>1, NoneAssumption DEF ParentsThere, Supernet, Leaf
<1>7. ParentsThere'
  BY <1>1, <1>3, <1>5, NoneAssumption DEF ParentsThere, Supernet, Leaf
<1>8. PoolsApart'
  <2>1. \A q \in Pool \ {p} : Exists(q) /\ q # d.parent =>
           ~Overlaps(pools[q].subnet, s) /\ ~Overlaps(s, pools[q].subnet)
    BY <1>1 DEF Overlaps
  <2>2. d.parent # None => s \subseteq pools[d.parent].subnet
    BY <1>1
  <2> QED BY <1>1, <1>3, <1>5, <2>1, <2>2, NoneAssumption DEF PoolsApart
<1>9. HeldInRange'
  BY <1>1, <1>3, <1>5 DEF HeldInRange, Leaf
<1> QED BY <1>4, <1>7, <1>8, <1>9

\* Overlaps of a part are overlaps of the whole.
LEMMA ResizeIInv ==
    ASSUME Narrowing, IInv, NEW p \in Pool, NEW s \in Net,
           ResizeDelegated(p, s) \/ ResizeOwn(p, s)
    PROVE  IInv'
<1> USE DEF IInv, PoolsTyped, Exists
<1>1. Leaf(p) /\ held[p] \subseteq s
  BY DEF ResizeDelegated, ResizeOwn, Resizable
<1>2. CASE ResizeOwn(p, s)
  <2>1. /\ pools' = [pools EXCEPT ![p].subnet = s] /\ held' = held
        /\ pools[p].parent = None
        /\ \A q \in Pool \ {p} : Exists(q) => ~Overlaps(pools[q].subnet, s)
    BY <1>2 DEF ResizeOwn, Clashes, allocations
  <2> QED BY <1>1, <2>1, NewRange
<1>3. CASE ResizeDelegated(p, s)
  <2>1. /\ s \subseteq pools[p].subnet
        /\ s \subseteq pools[pools[p].parent].subnet
        /\ held' = held
    BY <1>3 DEF ResizeDelegated
  <2>2. CASE pools' = pools
    BY <2>1, <2>2 DEF ParentsThere, PoolsApart, HeldInRange, Supernet, Leaf
  <2>3. CASE pools' = [pools EXCEPT ![p].subnet = s]
    <3>1. \A q \in Pool \ {p, pools[p].parent} :
             Exists(q) => ~Overlaps(pools[q].subnet, s)
      <4> SUFFICES ASSUME NEW q \in Pool \ {p, pools[p].parent}, Exists(q),
                          Overlaps(pools[q].subnet, s)
                   PROVE  FALSE
        OBVIOUS
      <4>1. Overlaps(pools[q].subnet, pools[p].subnet)
        BY <2>1 DEF Overlaps
      <4>2. pools[q].parent = p
        BY <1>1, <4>1 DEF PoolsApart, Leaf
      <4>3. Supernet(p)
        BY <4>2, NoneAssumption DEF ParentsThere
      <4> QED BY <4>3, <1>1 DEF Supernet, Leaf
    <3> QED BY <1>1, <2>1, <2>3, <3>1, NewRange
  <2> QED BY <1>3, <2>2, <2>3 DEF ResizeDelegated
<1> QED BY <1>2, <1>3

\* A supernet's mode changes nobody's range.
LEMMA ConvertIInv ==
    ASSUME IInv, NEW p \in Pool, Convert(p)
    PROVE  IInv'
<1> USE DEF IInv, PoolsTyped, Exists
<1>1. Supernet(p) /\ held' = held
  BY DEF Convert
<1>2. CASE pools' = pools
  BY <1>1, <1>2 DEF ParentsThere, PoolsApart, HeldInRange, Supernet, Leaf
<1>3. CASE pools' = [pools EXCEPT ![p].carve = 0]
  <2> DEFINE d == [pools[p] EXCEPT !.carve = 0]
  <2>1. /\ d \in Definition /\ d.subnet = pools[p].subnet
        /\ d.parent = pools[p].parent /\ d.kind = pools[p].kind
    <3>1. pools[p] \in Definition /\ pools[p].kind = "supernet"
      BY <1>1 DEF Supernet
    <3> QED BY <3>1 DEF Definition
  <2>2. pools' = [pools EXCEPT ![p] = d]
    BY <1>3
  <2> HIDE DEF d
  <2>3. d # None
    BY <2>1, NoneAssumption
  <2>4. \A q \in Pool : /\ pools'[q] # None <=> pools[q] # None
                        /\ pools[q] # None => /\ pools'[q].subnet = pools[q].subnet
                                              /\ pools'[q].parent = pools[q].parent
                                              /\ pools'[q].kind = pools[q].kind
    BY <1>1, <2>1, <2>2, <2>3 DEF Supernet
  <2>5. PoolsTyped'
    BY <1>1, <2>1, <2>2
  <2>6. \A q \in Pool : pools[q] # None => pools[q].parent \in Pool \cup {None}
    BY DefinitionFields
  <2>7. ParentsThere'
    BY <2>4, <2>6 DEF ParentsThere, Supernet
  <2>8. PoolsApart'
    BY <2>4 DEF PoolsApart
  <2>9. HeldInRange'
    BY <1>1, <2>4 DEF HeldInRange, Leaf
  <2> QED BY <2>5, <2>7, <2>8, <2>9
<1> QED BY <1>2, <1>3 DEF Convert

\* A pool goes, and what is delegated from it.
LEMMA RemoveIInv ==
    ASSUME IInv, NEW p \in Pool, RemovePool(p)
    PROVE  IInv'
<1> USE DEF IInv, PoolsTyped, Exists
<1>1. CASE pools' = pools /\ held' = held
  BY <1>1 DEF ParentsThere, PoolsApart, HeldInRange, Supernet, Leaf
<1>2. CASE pools' = Purged(pools, Doomed(p), None) /\ held' \in {held, Purged(held, Doomed(p), {})}
  <2>1. \A q \in Pool : pools'[q] = IF q \in Doomed(p) THEN None ELSE pools[q]
    BY <1>2 DEF Purged
  <2>2. \A q \in Pool : pools'[q] # None => pools'[q] = pools[q] /\ held'[q] = held[q]
    BY <1>2, <2>1 DEF Purged
  <2>3. PoolsTyped'
    BY <1>2 DEF Purged
  <2>4. \A q \in Pool : pools'[q] # None /\ pools[q].parent # None
                          => pools[q].parent # p
    BY <2>1 DEF Doomed, ChildrenOf, ParentsThere
  <2>5. \A q \in Pool : Supernet(q) /\ q # p => pools'[q] = pools[q]
    BY <2>1, DefinitionFields, NoneAssumption DEF Doomed, ChildrenOf, Supernet
  <2>6. \A q \in Pool : pools[q] # None => pools[q].parent \in Pool \cup {None}
    BY DefinitionFields
  <2>7. ParentsThere'
    BY <2>2, <2>4, <2>5, <2>6 DEF ParentsThere, Supernet
  <2>8. PoolsApart'
    BY <2>2 DEF PoolsApart
  <2>9. HeldInRange'
    BY <2>2 DEF HeldInRange, Leaf
  <2> QED BY <2>3, <2>7, <2>8, <2>9
<1> QED BY <1>1, <1>2 DEF RemovePool

\* Allocations from the range of a pool stay within it.
LEMMA HoldIInv ==
    ASSUME IInv, NEW p \in Pool, NEW a \in Address, Hold(p, a) \/ LetGo(p, a)
    PROVE  IInv'
<1> USE DEF IInv, PoolsTyped, Exists, Hold, LetGo
<1>1. pools' = pools /\ held' \in [Pool -> SUBSET Address]
  OBVIOUS
<1>2. HeldInRange'
  BY DEF HeldInRange, Leaf
<1> QED BY <1>1, <1>2 DEF ParentsThere, PoolsApart, Supernet

\* What is done to blocks leaves pools and their addresses alone.
LEMMA BlockStepIInv ==
    ASSUME IInv, BlockStep \/ UNCHANGED vars
    PROVE  IInv'
<1>1. pools' = pools /\ held' = held
  <2>1. CASE BlockStep
    <3>1. PICK q \in Pool :
             \/ \E n \in Net : Carve(q, n) \/ RemoveBlock(q, n) \/ ReleaseVlan(q, n)
             \/ \E n \in Net, named \in BOOLEAN : Assign(q, n, named)
             \/ \E a \in Address : RecordSvi(q, a)
             \/ Repair(q)
      BY <2>1 DEF BlockStep
    <3>2. CASE \E n \in Net : Carve(q, n) \/ RemoveBlock(q, n) \/ ReleaseVlan(q, n)
      BY <3>2 DEF Carve, RemoveBlock, ReleaseVlan
    <3>3. CASE \E n \in Net, named \in BOOLEAN : Assign(q, n, named)
      BY <3>3 DEF Assign
    <3>4. CASE Repair(q) \/ \E a \in Address : RecordSvi(q, a)
      BY <3>4 DEF Repair, RecordSvi
    <3> QED BY <3>1, <3>2, <3>3, <3>4
  <2>2. CASE UNCHANGED vars
    BY <2>2 DEF vars, allocations
  <2> QED BY <2>1, <2>2
<1> QED BY <1>1 DEF IInv, PoolsTyped, ParentsThere, PoolsApart, HeldInRange,
                    Supernet, Leaf, Exists

LEMMA NextIInv == ASSUME Narrowing PROVE IInv /\ [Next]_vars => IInv'
<1> SUFFICES ASSUME IInv, [Next]_vars PROVE IInv'
  OBVIOUS
<1>1. CASE BlockStep \/ UNCHANGED vars
  BY <1>1, BlockStepIInv
<1>2. CASE PoolStep
  BY <1>2, AddPoolIInv, DelegateIInv, ResizeIInv, ConvertIInv, RemoveIInv, HoldIInv
     DEF PoolStep
<1> QED BY <1>1, <1>2 DEF Next

\* Two pools' ranges overlap only where one is delegated from the other.
THEOREM RangesApart == ASSUME Narrowing PROVE Spec => []PoolsApart
<1>1. IInv => PoolsApart
  BY DEF IInv
<1> QED BY <1>1, InitIInv, NextIInv, PTL DEF Spec

\* No address is allocated from two pools, if each is from the range of its pool.
THEOREM NeverHandedOutTwice == ASSUME Narrowing, Ranged PROVE Spec => []HeldOnce
<1>1. ASSUME IInv PROVE HeldOnce
  <2> SUFFICES ASSUME NEW p \in Pool, NEW q \in Pool, p # q, Exists(p), Exists(q),
                      held[p] \cap held[q] # {}
               PROVE  FALSE
    BY DEF HeldOnce
  <2>1. /\ Leaf(p) /\ held[p] \subseteq pools[p].subnet
        /\ Leaf(q) /\ held[q] \subseteq pools[q].subnet
    BY <1>1 DEF IInv, HeldInRange
  <2>2. pools[p].parent = q \/ pools[q].parent = p
    BY <1>1, <2>1 DEF IInv, PoolsApart, Overlaps
  <2>3. Supernet(q) \/ Supernet(p)
    BY <1>1, <2>2, NoneAssumption DEF IInv, ParentsThere
  <2> QED BY <2>1, <2>3 DEF Supernet, Leaf
<1> QED BY <1>1, InitIInv, NextIInv, PTL DEF Spec
-----------------------------------------------------------------------------
(* The tree of a supernet's blocks. *)

\* A delegated block names its pool, no other names one, and one that is
\* assigned has a VLAN.
Fitting == {b \in Block : /\ b.status = "delegated" <=> b.to \in Pool
                          /\ b.status = "assigned" => b.vlan}

Layout == [Net -> Fitting \cup {None}]

\* Containers are the blocks that hold others, and none is too deep.
Sound(B) ==
    \A n \in Present(B) : /\ B[n].status = "container" <=> Inside(B, n) # {}
                          /\ Depth(B, n) <= MaxDepth

LEMMA Smaller ==
    ASSUME NEW m \in Net, NEW n \in Net, m \subseteq n, m # n
    PROVE  /\ Cardinality(m) \in Nat /\ Cardinality(n) \in Nat
           /\ Cardinality(m) < Cardinality(n)
BY FS_Subset, FS_CardinalityType, NetAssumption

LEMMA LeastElement ==
    ASSUME NEW C, C \subseteq Nat, C # {}
    PROVE  \E x \in C : \A y \in C : x <= y
<1>1. PICK x \in C : \A y \in C : <<y, x>> \notin OpToRel(<, Nat)
  BY NatLessThanWellFounded, WFMin
<1>2. \A y \in C : x <= y
  <2> SUFFICES ASSUME NEW y \in C, y < x PROVE FALSE
    OBVIOUS
  <2>1. <<y, x>> \in OpToRel(<, Nat)
    BY DEF OpToRel
  <2> QED BY <1>1, <2>1
<1> QED BY <1>2

\* Of the blocks around another, one is the smallest, and it is the enclosing one.
LEMMA EnclosingFacts ==
    ASSUME NEW B, NEW n \in Net, Around(B, n) # {}
    PROVE  \E m \in Around(B, n) : Enclosing(B, n) = {m}
<1> DEFINE S == Around(B, n)
           C == {Cardinality(m) : m \in S}
<1>1. \A m \in S : m \in Net /\ n \subseteq m /\ Cardinality(m) \in Nat
  BY FS_CardinalityType, NetAssumption DEF Around, Present
<1>2. C \subseteq Nat /\ C # {}
  BY <1>1
<1>3. PICK c \in C : \A y \in C : c <= y
  <2> HIDE DEF C
  <2> QED BY <1>2, LeastElement
<1>4. PICK m \in S : \A k \in S : Cardinality(m) <= Cardinality(k)
  BY <1>3
<1>5. ASSUME NEW k \in S PROVE m \subseteq k
  <2>1. Overlaps(m, k) /\ m \in Net /\ k \in Net
    BY <1>1, <1>5, NetAssumption DEF Overlaps
  <2>2. m \subseteq k \/ k \subseteq m
    BY <2>1, CidrAssumption
  <2>3. CASE k \subseteq m /\ k # m
    <3>1. Cardinality(k) < Cardinality(m) /\ Cardinality(k) \in Nat /\ Cardinality(m) \in Nat
      BY <2>1, <2>3, Smaller
    <3> QED BY <1>4, <3>1
  <2> QED BY <2>2, <2>3
<1>6. Enclosing(B, n) = {m}
  BY <1>4, <1>5 DEF Enclosing
<1> QED BY <1>6

\* A block that holds others has a child.
LEMMA ChildFacts ==
    ASSUME NEW B, NEW n \in Present(B), Inside(B, n) # {}
    PROVE  Children(B, n) # {}
<1> DEFINE S == Inside(B, n)
           C == {Cardinality(n) - Cardinality(m) : m \in S}
<1>0. n \in Net
  BY DEF Present
<1>1. \A m \in S : /\ m \in Net /\ m \subseteq n /\ m # n
                   /\ Cardinality(n) - Cardinality(m) \in Nat /\ Cardinality(m) \in Nat
  <2> SUFFICES ASSUME NEW m \in S
               PROVE  /\ m \in Net /\ m \subseteq n /\ m # n
                      /\ Cardinality(n) - Cardinality(m) \in Nat /\ Cardinality(m) \in Nat
    OBVIOUS
  <2>1. m \in Net /\ m \subseteq n /\ m # n
    BY DEF Inside, Present
  <2> QED BY <1>0, <2>1, Smaller
<1>2. C \subseteq Nat /\ C # {}
  BY <1>1
<1>3. PICK c \in C : \A y \in C : c <= y
  <2> HIDE DEF C
  <2> QED BY <1>2, LeastElement
<1>4. PICK m \in S : \A k \in S :
        Cardinality(n) - Cardinality(m) <= Cardinality(n) - Cardinality(k)
  BY <1>3
<1>5. m \in Net /\ m \subseteq n /\ m # n /\ n \in Around(B, m)
  BY <1>1 DEF Around
<1>6. ASSUME NEW k \in Around(B, m) PROVE n \subseteq k
  <2>1. Overlaps(n, k) /\ k \in Net /\ m \subseteq k /\ m # k /\ k \in Present(B)
    BY <1>0, <1>5, <1>6, NetAssumption DEF Overlaps, Around, Present
  <2>2. n \subseteq k \/ k \subseteq n
    BY <1>0, <2>1, CidrAssumption
  <2>3. CASE k \subseteq n /\ k # n
    <3>1. k \in S
      BY <2>1, <2>3 DEF Inside
    <3>2. Cardinality(m) < Cardinality(k) /\ Cardinality(m) \in Nat /\ Cardinality(k) \in Nat
      BY <1>5, <2>1, Smaller
    <3>3. Cardinality(n) \in Nat
      BY <1>0, FS_CardinalityType, NetAssumption
    <3> HIDE DEF S
    <3> QED BY <1>4, <3>1, <3>2, <3>3
  <2> QED BY <2>2, <2>3
<1>7. Enclosing(B, m) = {n}
  BY <1>5, <1>6 DEF Enclosing
<1>8. m \in Children(B, n)
  BY <1>7 DEF Children
<1> QED BY <1>8

LEMMA ChildrenIff ==
    \A B : \A n \in Present(B) : Children(B, n) = {} <=> Inside(B, n) = {}
BY ChildFacts DEF Children

\* The depth of a block follows what is around it.
LEMMA DepthFacts ==
    ASSUME NEW B, NEW D, NEW m \in Net, NEW n \in Net, Around(D, m) \subseteq Around(B, n)
    PROVE  /\ Depth(D, m) \in Nat /\ Depth(B, n) \in Nat
           /\ Depth(D, m) <= Depth(B, n)
<1>1. IsFiniteSet(Around(B, n))
  BY NetAssumption, FS_Subset DEF Around, Present
<1>2. /\ IsFiniteSet(Around(D, m)) /\ Cardinality(Around(D, m)) <= Cardinality(Around(B, n))
  BY <1>1, FS_Subset
<1> QED BY <1>1, <1>2, FS_CardinalityType DEF Depth

\* A block changes: its place, and whether it is a container, do not.
LEMMA SameTree ==
    ASSUME NEW B, NEW D, Sound(B), Present(D) = Present(B),
           \A n \in Present(B) : D[n].status = "container" <=> B[n].status = "container"
    PROVE  Sound(D)
BY DEF Sound, Inside, Around, Depth

LEMMA FittingFacts == \A c \in Fitting : c # None /\ c \in Block /\ c.status \in Status
BY NoneAssumption DEF Fitting, Block

LEMMA StatusFacts ==
    ASSUME NEW c \in Fitting, c.status # "delegated",
           NEW status \in {"carved", "container", "assigned"}, status = "assigned" => c.vlan
    PROVE  /\ [c EXCEPT !.status = status] \in Fitting
           /\ [c EXCEPT !.status = status] # None
           /\ [c EXCEPT !.status = status].status = status
<1> DEFINE d == [c EXCEPT !.status = status]
<1>1. c \in Block /\ c.to \notin Pool
  BY DEF Fitting
<1>2. d \in Block /\ d.status = status /\ d.to = c.to /\ d.vlan = c.vlan
  BY <1>1 DEF Block, Status
<1> HIDE DEF d
<1>3. d \in Fitting
  BY <1>1, <1>2 DEF Fitting
<1> QED BY <1>2, <1>3, FittingFacts DEF d

\* A new block, in no block that is in use and around none.
LEMMA CarvedTree ==
    ASSUME NEW B \in Layout, NEW D, Sound(B), NEW n \in Net, NEW b \in Fitting,
           B[n] = None, Inside(B, n) = {}, b.status # "container",
           \A m \in Enclosing(B, n) : B[m].status # "delegated",
           Depth(B, n) <= MaxDepth,
           D = [m \in Net |-> IF m = n THEN b
                              ELSE IF m \in Enclosing(B, n)
                                THEN [B[m] EXCEPT !.status = "container"]
                              ELSE B[m]]
    PROVE  /\ Sound(D) /\ D \in Layout /\ Present(D) = Present(B) \cup {n}
           /\ D[n] = b
           /\ \A m \in Net \ {n} : \/ D[m] = B[m]
                                   \/ /\ m \in Enclosing(B, n)
                                      /\ D[m].status = "container"
<1>1. D[n] = b /\ b # None
  BY FittingFacts
<1>2. \A m \in Enclosing(B, n) :
        m \in Present(B) \ {n} /\ n \subseteq m /\ D[m] = [B[m] EXCEPT !.status = "container"]
  BY DEF Enclosing, Around, Present
<1>3. \A m \in Enclosing(B, n) : D[m] # None /\ D[m].status = "container" /\ D[m] \in Fitting
  <2>1. ASSUME NEW m \in Enclosing(B, n)
        PROVE  D[m] # None /\ D[m].status = "container" /\ D[m] \in Fitting
    <3>1. B[m] \in Fitting
      BY <1>2, <2>1 DEF Present, Layout
    <3>2. /\ [B[m] EXCEPT !.status = "container"] # None
          /\ [B[m] EXCEPT !.status = "container"].status = "container"
          /\ [B[m] EXCEPT !.status = "container"] \in Fitting
      BY <2>1, <3>1, StatusFacts
    <3>3. D[m] = [B[m] EXCEPT !.status = "container"]
      BY <1>2, <2>1
    <3> QED BY <3>2, <3>3
  <2> QED BY <2>1
<1>4. Present(D) = Present(B) \cup {n}
  <2>1. \A m \in Net : m \notin Enclosing(B, n) /\ m # n => D[m] = B[m]
    OBVIOUS
  <2> QED BY <1>1, <1>2, <1>3, <2>1 DEF Present
<1>0. /\ D \in Layout /\ D[n] = b
      /\ \A m \in Net \ {n} : \/ D[m] = B[m]
                              \/ m \in Enclosing(B, n) /\ D[m].status = "container"
  <2>1. \A m \in Net \ {n} : m \notin Enclosing(B, n) => D[m] = B[m]
    OBVIOUS
  <2>2. \A m \in Net : D[m] \in Fitting \cup {None}
    BY <1>1, <1>3, <2>1 DEF Layout
  <2> QED BY <1>1, <1>3, <2>1, <2>2 DEF Layout
<1>5. n \notin Present(B)
  BY DEF Present
<1>6. \A m \in Present(B) : /\ Inside(B, m) \subseteq Inside(D, m)
                            /\ n \subseteq m => n \in Inside(D, m)
                            /\ ~(n \subseteq m) => Inside(D, m) = Inside(B, m)
  BY <1>4, <1>5 DEF Inside
<1>7. Inside(D, n) = {} /\ Around(D, n) = Around(B, n)
  BY <1>4 DEF Inside, Around
<1>8. \A m \in Present(B) : Around(D, m) = Around(B, m)
  BY <1>4, <1>5 DEF Inside, Around
<1>9. ASSUME NEW m \in Present(B)
      PROVE  D[m].status = "container" <=> Inside(D, m) # {}
  <2>1. CASE m \in Enclosing(B, n)
    BY <1>2, <1>3, <1>6, <2>1
  <2>2. CASE m \notin Enclosing(B, n) /\ n \subseteq m
    <3>1. m \in Around(B, n)
      BY <1>5, <1>9, <2>2 DEF Around
    <3>2. PICK k \in Around(B, n) : Enclosing(B, n) = {k}
      BY <3>1, EnclosingFacts
    <3>3. k \subseteq m /\ k # m /\ k \in Present(B)
      BY <2>2, <3>1, <3>2 DEF Enclosing, Around
    <3>4. Inside(B, m) # {}
      BY <3>3 DEF Inside
    <3>5. D[m] = B[m]
      BY <1>5, <1>9, <2>2 DEF Present
    <3> QED BY <1>6, <1>9, <3>4, <3>5 DEF Sound
  <2>3. CASE ~(n \subseteq m)
    <3>1. D[m] = B[m]
      BY <1>2, <1>5, <1>9, <2>3 DEF Present
    <3> QED BY <1>6, <1>9, <2>3, <3>1 DEF Sound
  <2> QED BY <2>1, <2>2, <2>3
<1> QED BY <1>0, <1>1, <1>4, <1>7, <1>8, <1>9 DEF Sound, Depth

\* A block without blocks in it goes.
LEMMA DroppedTree ==
    ASSUME NEW B \in Layout, Sound(B), NEW n \in Net, Inside(B, n) = {}
    PROVE  LET D == Demote([B EXCEPT ![n] = None], n) IN
             /\ Sound(D) /\ D \in Layout /\ Present(D) = Present(B) \ {n}
             /\ \A m \in Present(D) : D[m] = B[m] \/ {D[m].status, B[m].status}
                                        \subseteq {"container", "carved"}
<1> DEFINE W == [B EXCEPT ![n] = None]
           D == Demote(W, n)
<1>1. W \in Layout /\ Present(W) = Present(B) \ {n} /\ \A m \in Net \ {n} : W[m] = B[m]
  BY DEF Layout, Present
<1>2. \A m \in Net : D[m] = IF /\ m \in Enclosing(W, n) /\ Children(W, m) = {}
                               /\ W[m].status = "container"
                              THEN [W[m] EXCEPT !.status = "carved"] ELSE W[m]
  BY DEF Demote
<1>3. \A m \in Enclosing(W, n) : m \in Present(W) /\ W[m] \in Fitting /\ n \subseteq m /\ m # n
  BY <1>1 DEF Enclosing, Around, Present, Layout
<1>4. \A c \in Fitting : c.status = "container" =>
          /\ [c EXCEPT !.status = "carved"] \in Fitting \ {None}
          /\ [c EXCEPT !.status = "carved"].status = "carved"
  <2> SUFFICES ASSUME NEW c \in Fitting, c.status = "container"
               PROVE  /\ [c EXCEPT !.status = "carved"] \in Fitting \ {None}
                      /\ [c EXCEPT !.status = "carved"].status = "carved"
    OBVIOUS
  <2> QED BY StatusFacts
<1> HIDE DEF W
<1>5. D \in Layout /\ Present(D) = Present(W)
  <2>1. ASSUME NEW m \in Net
        PROVE  D[m] \in Fitting \cup {None} /\ (D[m] = None <=> W[m] = None)
    <3>1. CASE m \in Enclosing(W, n)
      <4>1. W[m] \in Fitting /\ W[m] # None /\ m \in Net
        BY <1>3, <3>1 DEF Present
      <4>2. CASE Children(W, m) = {} /\ W[m].status = "container"
        <5>1. D[m] = [W[m] EXCEPT !.status = "carved"]
          BY <1>2, <3>1, <4>1, <4>2
        <5> QED BY <1>4, <4>1, <4>2, <5>1
      <4>3. CASE ~(Children(W, m) = {} /\ W[m].status = "container")
        <5>1. D[m] = W[m]
          BY <1>2, <4>1, <4>3
        <5> QED BY <4>1, <5>1
      <4> QED BY <4>2, <4>3
    <3>2. CASE m \notin Enclosing(W, n)
      BY <1>1, <1>2, <3>2 DEF Layout
    <3> QED BY <3>1, <3>2
  <2>2. D = [m \in Net |-> D[m]]
    BY DEF Demote
  <2> QED BY <2>1, <2>2 DEF Layout, Present
<1>6. \A m \in Present(D) : D[m] = B[m] \/ {D[m].status, B[m].status}
                                        \subseteq {"container", "carved"}
  <2> SUFFICES ASSUME NEW m \in Present(D)
               PROVE  D[m] = B[m] \/ {D[m].status, B[m].status} \subseteq {"container", "carved"}
    OBVIOUS
  <2>1. m \in Net /\ m # n /\ W[m] = B[m]
    <3>1. m \in Present(B) \ {n}
      BY <1>1, <1>5
    <3> QED BY <1>1, <3>1 DEF Present
  <2>2. CASE m \in Enclosing(W, n) /\ Children(W, m) = {} /\ W[m].status = "container"
    <3>1. D[m] = [W[m] EXCEPT !.status = "carved"] /\ W[m] \in Fitting
      BY <1>2, <1>3, <2>1, <2>2
    <3> HIDE DEF D
    <3> QED BY <1>4, <2>1, <2>2, <3>1
  <2>3. CASE ~(m \in Enclosing(W, n) /\ Children(W, m) = {} /\ W[m].status = "container")
    BY <1>2, <2>1, <2>3
  <2> QED BY <2>2, <2>3
<1>7. \A m \in Present(D) : /\ Inside(D, m) = Inside(W, m) /\ Around(D, m) = Around(W, m)
                            /\ Inside(W, m) = Inside(B, m) \ {n}
                            /\ Around(D, m) \subseteq Around(B, m)
  BY <1>1, <1>5 DEF Inside, Around
<1>8. ASSUME NEW m \in Present(D) PROVE D[m].status = "container" <=> Inside(D, m) # {}
  <2>1. m \in Present(B) /\ m # n /\ m \in Present(W) /\ m \in Net /\ W[m] = B[m]
    BY <1>1, <1>5, <1>8 DEF Present
  <2>2. CASE m \in Enclosing(W, n) /\ Inside(W, m) = {}
    <3>1. Inside(B, m) # {} => B[m].status = "container"
      BY <2>1 DEF Sound
    <3>2. Children(W, m) = {}
      BY <2>1, <2>2, ChildrenIff
    <3> QED BY <1>2, <1>3, <1>4, <1>7, <1>8, <2>1, <2>2, <3>1, <3>2
  <2>3. CASE m \in Enclosing(W, n) /\ Inside(W, m) # {}
    <3>1. B[m].status = "container"
      BY <1>7, <1>8, <2>1, <2>3 DEF Sound
    <3>2. Children(W, m) # {}
      BY <2>1, <2>3, ChildrenIff
    <3> QED BY <1>2, <1>7, <1>8, <2>1, <2>3, <3>1, <3>2
  <2>4. CASE m \notin Enclosing(W, n)
    <3>1. D[m] = B[m]
      BY <1>2, <2>1, <2>4
    <3>2. ASSUME n \in Inside(B, m) PROVE Inside(W, m) # {}
      <4>1. m \in Around(W, n)
        BY <2>1, <3>2 DEF Inside, Around
      <4>2. PICK k \in Around(W, n) : Enclosing(W, n) = {k}
        BY <4>1, EnclosingFacts
      <4>3. k \subseteq m /\ k # m /\ k \in Present(W)
        BY <2>4, <4>1, <4>2 DEF Enclosing, Around
      <4> QED BY <4>3 DEF Inside
    <3>3. Inside(D, m) # {} <=> Inside(B, m) # {}
      BY <1>7, <1>8, <3>2
    <3> QED BY <2>1, <3>1, <3>3 DEF Sound
  <2> QED BY <2>2, <2>3, <2>4
<1>9. ASSUME NEW m \in Present(D) PROVE Depth(D, m) <= MaxDepth
  <2>1. m \in Present(B) /\ m \in Net
    BY <1>1, <1>5, <1>9 DEF Present
  <2>2. Depth(D, m) <= Depth(B, m) /\ Depth(D, m) \in Nat /\ Depth(B, m) \in Nat
    BY <1>7, <1>9, <2>1, DepthFacts
  <2> QED BY <2>1, <2>2, BoundAssumption DEF Sound
<1>10. Sound(D)
  BY <1>8, <1>9 DEF Sound
<1> QED BY <1>1, <1>5, <1>6, <1>10 DEF W

\* Repairing statuses makes a tree of any blocks of which those in use hold none.
LEMMA RepairedTree ==
    ASSUME NEW B \in Layout,
           \A n \in Present(B) : /\ InUse(B[n]) => Inside(B, n) = {}
                                 /\ Depth(B, n) <= MaxDepth
    PROVE  /\ Repaired(B) \in Layout /\ Sound(Repaired(B))
           /\ Present(Repaired(B)) = Present(B)
           /\ \A n \in Present(B) : \/ Repaired(B)[n] = B[n]
                                    \/ /\ B[n].status \in {"container", "carved"}
                                       /\ Repaired(B)[n].status # "delegated"
<1> DEFINE D == Repaired(B)
<1>1. \A n \in Net : D[n] =
        IF B[n] = None THEN None
        ELSE IF B[n].status = "container" /\ Children(B, n) = {}
          THEN [B[n] EXCEPT !.status = IF B[n].vlan THEN "assigned" ELSE "carved"]
        ELSE IF B[n].status = "carved" /\ Children(B, n) # {}
          THEN [B[n] EXCEPT !.status = "container"]
        ELSE B[n]
  BY DEF Repaired
<1>2. D = [n \in Net |-> D[n]]
  BY DEF Repaired
<1> HIDE DEF D
<1>4. ASSUME NEW n \in Present(B)
      PROVE  /\ n \in Net /\ D[n] \in Fitting \ {None}
             /\ D[n].status = "container" <=> Inside(B, n) # {}
             /\ \/ D[n] = B[n]
                \/ B[n].status \in {"container", "carved"} /\ D[n].status # "delegated"
  <2>1. n \in Net /\ B[n] # None /\ B[n] \in Fitting
    BY <1>4 DEF Present, Layout
  <2>2. Children(B, n) = {} <=> Inside(B, n) = {}
    BY ChildrenIff
  <2>3. CASE B[n].status = "container" /\ Children(B, n) = {}
    <3>1. PICK status \in {"assigned", "carved"} :
            (status = "assigned" => B[n].vlan) /\ D[n] = [B[n] EXCEPT !.status = status]
      BY <1>1, <2>1, <2>3
    <3>2. /\ [B[n] EXCEPT !.status = status] \in Fitting
          /\ [B[n] EXCEPT !.status = status] # None
          /\ [B[n] EXCEPT !.status = status].status = status
      BY <2>1, <2>3, <3>1, StatusFacts
    <3>3. D[n] \in Fitting \ {None} /\ D[n].status = status
      BY <3>1, <3>2
    <3> QED BY <2>1, <2>2, <2>3, <3>3
  <2>4. CASE B[n].status = "carved" /\ Children(B, n) # {}
    <3>1. D[n] = [B[n] EXCEPT !.status = "container"]
      BY <1>1, <2>1, <2>4
    <3>2. D[n] \in Fitting \ {None} /\ D[n].status = "container"
      BY <2>1, <2>4, <3>1, StatusFacts
    <3> QED BY <2>1, <2>2, <2>4, <3>2
  <2>5. CASE /\ ~(B[n].status = "container" /\ Children(B, n) = {})
             /\ ~(B[n].status = "carved" /\ Children(B, n) # {})
    <3>1. D[n] = B[n]
      BY <1>1, <2>1, <2>5
    <3>2. B[n].status \in {"assigned", "delegated"} => Inside(B, n) = {}
      BY <1>4, <2>1 DEF InUse
    <3>3. B[n].status \in {"carved", "container", "assigned", "delegated"}
      BY <2>1, FittingFacts DEF Status
    <3> QED BY <2>1, <2>2, <2>5, <3>1, <3>2, <3>3
  <2> QED BY <2>3, <2>4, <2>5
<1>5. D \in Layout /\ Present(D) = Present(B)
  <2>1. \A n \in Net : n \in Present(B) \/ (B[n] = None /\ D[n] = None)
    BY <1>1 DEF Present
  <2>2. \A n \in Net : D[n] \in Fitting \cup {None} /\ (D[n] # None <=> n \in Present(B))
    BY <1>4, <2>1 DEF Present
  <2> QED BY <1>2, <2>2 DEF Layout, Present
<1>6. Sound(D)
  BY <1>4, <1>5 DEF Sound, Inside, Around, Depth
<1> QED BY <1>4, <1>5, <1>6 DEF D

\* In a tree there is nothing to repair.
LEMMA NothingToRepair ==
    ASSUME NEW B \in Layout, Sound(B)
    PROVE  Repaired(B) = B
<1>1. \A n \in Present(B) : B[n].status = "container" <=> Children(B, n) # {}
  BY ChildrenIff DEF Sound
<1>2. \A n \in Net : Repaired(B)[n] = B[n]
  BY <1>1 DEF Repaired, Present
<1> QED BY <1>2 DEF Repaired, Layout

\* A block in use moves to a part of where it is.
LEMMA MovedTree ==
    ASSUME NEW B \in Layout, Sound(B), NEW p \in Pool, NEW old \in Net, NEW s \in Net,
           s \subseteq old, s # old, InUse(B[old]), B[old].status = "delegated"
    PROVE  LET D == Moved(B, p, old, s) IN
             /\ Sound(D) /\ D \in Layout
             /\ Present(D) = (Present(B) \ {old}) \cup {s} /\ B[s] = None
             /\ D[s] = [B[old] EXCEPT !.to = p]
             /\ \A m \in Net \ {s, old} : D[m] = B[m]
<1> DEFINE D == Moved(B, p, old, s)
           W == [B EXCEPT ![old] = None]
<1>1. old \in Present(B) /\ Inside(B, old) = {} /\ B[old] \in Fitting /\ B[old] # None
  <2>1. B[old] # None /\ B[old].status # "container"
    BY DEF InUse
  <2>2. old \in Present(B)
    BY <2>1 DEF Present
  <2> QED BY <2>1, <2>2 DEF Layout, Sound
<1>2. B[s] = None
  BY <1>1 DEF Inside, Present
<1>3. W \in Layout /\ Present(W) = Present(B) \ {old} /\ \A m \in Net \ {old} : W[m] = B[m]
  BY DEF Layout, Present
<1>4. W[old] = None
  BY DEF Layout
<1>5. \A m \in Net : D[m] =
        IF m = s THEN [B[old] EXCEPT !.to = p]
        ELSE IF m \in Enclosing(W, s) /\ W[m].status = "carved"
          THEN [W[m] EXCEPT !.status = "container"]
        ELSE W[m]
  BY <1>1 DEF Moved
<1>6. D = [m \in Net |-> D[m]]
  BY DEF Moved
<1> HIDE DEF D, W
<1>7. \A m \in Present(B) \ {old} : s \subseteq m => old \in Inside(B, m)
  <2> SUFFICES ASSUME NEW m \in Present(B) \ {old}, s \subseteq m PROVE old \in Inside(B, m)
    OBVIOUS
  <2>1. m \in Net /\ Overlaps(m, old)
    BY NetAssumption DEF Present, Overlaps
  <2>2. m \subseteq old \/ old \subseteq m
    BY <2>1, CidrAssumption
  <2>3. ~(m \subseteq old)
    BY <1>1 DEF Inside
  <2> QED BY <1>1, <2>2, <2>3 DEF Inside
<1>8. \A m \in Net \ {s} : D[m] = W[m]
  <2> SUFFICES ASSUME NEW m \in Enclosing(W, s) PROVE W[m].status # "carved"
    BY <1>5
  <2>1. m \in Present(B) \ {old} /\ s \subseteq m /\ m \in Net
    BY <1>3 DEF Enclosing, Around, Present
  <2>2. Inside(B, m) # {}
    BY <1>7, <2>1
  <2>3. B[m].status = "container"
    BY <2>1, <2>2 DEF Sound
  <2> QED BY <1>3, <2>1, <2>3
<1>9. D[s] = [B[old] EXCEPT !.to = p]
  BY <1>5
<1>10. D[s] \in Fitting /\ D[s] # None /\ D[s].status = B[old].status
  <2>1. B[old] \in Block
    BY <1>1 DEF Fitting
  <2>2. D[s] \in Block /\ D[s].status = "delegated" /\ D[s].to = p
    BY <1>9, <2>1 DEF Block
  <2>3. D[s] \in Fitting
    BY <2>2 DEF Fitting
  <2> QED BY <2>2, <2>3, FittingFacts
<1>11. D \in Layout /\ Present(D) = (Present(B) \ {old}) \cup {s}
  <2>1. \A m \in Net : D[m] \in Fitting \cup {None}
    BY <1>3, <1>8, <1>10 DEF Layout
  <2>2. D \in Layout
    BY <1>6, <2>1 DEF Layout
  <2>3. \A m \in Net : D[m] # None <=> m = s \/ m \in Present(W)
    BY <1>8, <1>10 DEF Present
  <2> QED BY <1>3, <2>2, <2>3 DEF Present
<1>12. Inside(D, s) = {} /\ Around(D, s) = Around(B, old)
  <2>1. Inside(D, s) = {}
    BY <1>1, <1>11 DEF Inside
  <2>2. \A m \in Present(B) \ {old} : s \subseteq m <=> old \subseteq m
    BY <1>7 DEF Inside
  <2>3. s \notin Present(B)
    BY <1>2 DEF Present
  <2> QED BY <1>11, <2>1, <2>2, <2>3 DEF Around
<1>13. ASSUME NEW m \in Present(B) \ {old}
       PROVE  Inside(D, m) # {} <=> Inside(B, m) # {}
  <2>1. m # s
    BY <1>2 DEF Present
  <2>2. s \in Inside(D, m) => old \in Inside(B, m)
    BY <1>7 DEF Inside
  <2>3. old \in Inside(B, m) => s \in Inside(D, m)
    BY <1>11, <2>1 DEF Inside
  <2>4. \A k \in Net \ {s, old} : k \in Inside(D, m) <=> k \in Inside(B, m)
    BY <1>11 DEF Inside, Present
  <2>5. s \notin Inside(B, m) /\ old \notin Inside(D, m)
    BY <1>2, <1>11 DEF Inside, Present
  <2>6. Inside(B, m) \subseteq Net /\ Inside(D, m) \subseteq Net
    BY DEF Inside, Present
  <2> QED BY <2>2, <2>3, <2>4, <2>5, <2>6
<1>14. \A m \in Present(B) \ {old} : Around(D, m) \subseteq Around(B, m)
  BY <1>1, <1>11 DEF Inside, Around
<1>15. Sound(D)
  <2>1. ASSUME NEW m \in Present(B) \ {old} PROVE Depth(D, m) <= MaxDepth
    <3>1. m \in Net /\ Depth(B, m) <= MaxDepth
      BY <2>1 DEF Sound, Present
    <3>2. Depth(D, m) <= Depth(B, m) /\ Depth(D, m) \in Nat /\ Depth(B, m) \in Nat
      BY <1>14, <3>1, DepthFacts
    <3> QED BY <3>1, <3>2, BoundAssumption
  <2>2. Depth(D, s) = Depth(B, old) /\ Depth(B, old) <= MaxDepth
    BY <1>1, <1>12 DEF Depth, Sound
  <2>3. \A m \in Present(B) \ {old} : D[m] = B[m]
    <3>1. s \notin Present(B) /\ Present(B) \subseteq Net
      BY <1>2 DEF Present
    <3> QED BY <1>3, <1>8, <3>1
  <2>4. B[old].status # "container"
    BY DEF InUse
  <2> QED BY <1>10, <1>11, <1>12, <1>13, <2>1, <2>2, <2>3, <2>4 DEF Sound
<1> QED BY <1>2, <1>3, <1>8, <1>9, <1>11, <1>15 DEF D

\* Blocks of one size are no tree's depth.
LEMMA PrecarvedTree ==
    ASSUME NEW s \in Net, NEW size
    PROVE  Sound(Precarved(s, size)) /\ Precarved(s, size) \in Layout
<1> DEFINE B == Precarved(s, size)
<1>1. Plain("carved") \in Fitting /\ Plain("carved").status = "carved"
  BY NoneAssumption DEF Plain, Fitting, Block, Status
<1>2. B \in Layout
  BY <1>1 DEF Precarved, Layout
<1>3. \A n \in Present(B) : n \in Net /\ Cardinality(n) = size /\ B[n].status = "carved"
  BY <1>1 DEF Present, Precarved
<1> HIDE DEF B
<1>4. \A m, n \in Present(B) : m \subseteq n => m = n
  BY <1>3, Smaller
<1>5. \A n \in Present(B) : Inside(B, n) = {} /\ Around(B, n) = {}
  BY <1>4 DEF Inside, Around
<1>6. \A n \in Present(B) : Depth(B, n) <= MaxDepth
  BY <1>5, FS_EmptySet, BoundAssumption DEF Depth
<1> QED BY <1>2, <1>3, <1>5, <1>6 DEF Sound, B

-----------------------------------------------------------------------------
(* Types. *)

Blocks == [Net -> Block \cup {None}]

LEMMA BlockFacts ==
    /\ \A c \in Block : c # None
    /\ \A c \in Block, status \in Status : [c EXCEPT !.status = status] \in Block
    /\ \A status \in Status : Plain(status) \in Block
<1>1. \A c \in Block, status \in Status : [c EXCEPT !.status = status] \in Block
  BY DEF Block
<1>2. \A status \in Status : Plain(status) \in Block
  BY DEF Plain, Block
<1> QED BY <1>1, <1>2, NoneAssumption

LEMMA DemoteType == ASSUME NEW B \in Blocks, NEW n PROVE Demote(B, n) \in Blocks
<1>1. ASSUME NEW m \in Net
      PROVE  (IF /\ m \in Enclosing(B, n) /\ Children(B, m) = {} /\ B[m].status = "container"
                THEN [B[m] EXCEPT !.status = "carved"] ELSE B[m]) \in Block \cup {None}
  <2>1. m \in Enclosing(B, n) => B[m] # None
    BY DEF Enclosing, Around, Present
  <2>2. B[m] \in Block \cup {None} /\ "carved" \in Status
    BY DEF Blocks, Status
  <2> QED BY <2>1, <2>2, BlockFacts
<1> QED BY <1>1 DEF Demote, Blocks

LEMMA RepairedType == ASSUME NEW B \in Blocks PROVE Repaired(B) \in Blocks
<1>1. ASSUME NEW n \in Net PROVE Repaired(B)[n] \in Block \cup {None}
  <2>1. B[n] \in Block \cup {None} /\ {"assigned", "carved", "container"} \subseteq Status
    BY DEF Blocks, Status
  <2>2. B[n] \in Block => /\ [B[n] EXCEPT !.status = "assigned"] \in Block
                          /\ [B[n] EXCEPT !.status = "carved"] \in Block
                          /\ [B[n] EXCEPT !.status = "container"] \in Block
    BY <2>1, BlockFacts
  <2>3. Repaired(B)[n] \in {B[n], None} \/
          (B[n] # None /\ Repaired(B)[n] \in {[B[n] EXCEPT !.status = "assigned"],
             [B[n] EXCEPT !.status = "carved"], [B[n] EXCEPT !.status = "container"]})
    BY DEF Repaired
  <2> QED BY <2>1, <2>2, <2>3
<1> QED BY <1>1 DEF Repaired, Blocks

LEMMA MarkedType ==
    ASSUME NEW B \in Blocks, NEW s \in Net, NEW p \in Pool PROVE Marked(B, s, p) \in Blocks
<1> DEFINE b == IF B[s] = None THEN Plain("carved") ELSE B[s]
<1>1. b \in Block
  BY BlockFacts DEF Blocks, Status
<1> HIDE DEF b
<1>2. [b EXCEPT !.status = "delegated", !.to = p] \in Block
  BY <1>1 DEF Block, Status
<1>3. Marked(B, s, p) = [B EXCEPT ![s] = [b EXCEPT !.status = "delegated", !.to = p]]
  BY DEF Marked, b, Blocks
<1> QED BY <1>2, <1>3 DEF Blocks

LEMMA ReturnedType ==
    ASSUME NEW B \in Blocks, NEW q, NEW s \in Net PROVE Returned(B, q, s) \in Blocks
<1>1. CASE B[s] = None
  BY <1>1 DEF Returned
<1>2. CASE B[s] # None /\ Manual(q)
  <2>1. [B EXCEPT ![s] = None] \in Blocks
    BY DEF Blocks
  <2> QED BY <1>2, <2>1, DemoteType DEF Returned
<1>3. CASE B[s] # None /\ ~Manual(q)
  <2>1. [B[s] EXCEPT !.status = "carved", !.to = None] \in Block
    BY <1>3 DEF Blocks, Block, Status
  <2>2. Returned(B, q, s) = [B EXCEPT ![s] = [B[s] EXCEPT !.status = "carved", !.to = None]]
    BY <1>3 DEF Returned, Blocks
  <2> QED BY <2>1, <2>2 DEF Blocks
<1> QED BY <1>1, <1>2, <1>3

LEMMA MovedType ==
    ASSUME NEW B \in Blocks, NEW p \in Pool, NEW old \in Net, NEW s \in Net
    PROVE  Moved(B, p, old, s) \in Blocks
<1> DEFINE W == [B EXCEPT ![old] = None]
           b == IF B[old] = None THEN Plain("delegated") ELSE B[old]
<1>1. W \in Blocks
  BY DEF Blocks
<1>2. b \in Block
  BY BlockFacts DEF Blocks, Status
<1> HIDE DEF b, W
<1>3. [b EXCEPT !.to = p] \in Block
  BY <1>2 DEF Block
<1>4. ASSUME NEW n \in Net, n \in Enclosing(W, s)
      PROVE  [W[n] EXCEPT !.status = "container"] \in Block
  <2>1. W[n] \in Block
    BY <1>1, <1>4 DEF Enclosing, Around, Present, Blocks
  <2> QED BY <2>1, BlockFacts DEF Status
<1>5. \A n \in Net : Moved(B, p, old, s)[n] =
        IF n = s THEN [b EXCEPT !.to = p]
        ELSE IF n \in Enclosing(W, s) /\ W[n].status = "carved"
          THEN [W[n] EXCEPT !.status = "container"]
        ELSE W[n]
  BY DEF Moved, b, W
<1>6. \A n \in Net : Moved(B, p, old, s)[n] \in Block \cup {None}
  BY <1>1, <1>3, <1>4, <1>5 DEF Blocks
<1> QED BY <1>6 DEF Moved, Blocks

LEMMA PrecarvedType == ASSUME NEW s, NEW size PROVE Precarved(s, size) \in Blocks
<1>1. Plain("carved") \in Block
  BY BlockFacts DEF Status
<1> QED BY <1>1 DEF Precarved, Blocks

\* The gateway is an address of its block.
LEMMA GatewayFacts == \A n \in Net : Gateway(n) \in n
<1> SUFFICES ASSUME NEW n \in Net PROVE Gateway(n) \in n
  OBVIOUS
<1>1. \E a \in n : \A b \in n : a <= b
  BY NetAssumption, LeastElement
<1> QED BY <1>1 DEF Gateway

LEMMA PoolType ==
    ASSUME NEW p \in Pool, pools \in [Pool -> Definition \cup {None}], Exists(p)
    PROVE  /\ \A s \in Net : pools[p].kind = "leaf" => [pools[p] EXCEPT !.subnet = s] \in Definition
           /\ pools[p].kind = "supernet" => [pools[p] EXCEPT !.carve = 0] \in Definition
           /\ pools[p].subnet \in Net /\ pools[p].parent \in Pool \cup {None}
<1>1. pools[p] \in Definition
  BY DEF Exists
<1>2. \A s \in Net : pools[p].kind = "leaf" => [pools[p] EXCEPT !.subnet = s] \in Definition
  BY <1>1 DEF Definition
<1>3. pools[p].kind = "supernet" => [pools[p] EXCEPT !.carve = 0] \in Definition
  BY <1>1 DEF Definition
<1> QED BY <1>1, <1>2, <1>3, DefinitionFields

LEMMA InitTypeOK == Init => TypeOK
<1>1. NoBlocks \in [Net -> Block \cup {None}]
  BY DEF NoBlocks
<1> QED BY <1>1, BoundAssumption DEF Init, TypeOK

\* Whether the server stops or goes on, it has not stopped too often.
LEMMA StopType ==
    ASSUME TypeOK, (Stop \/ GoOn) PROVE crashes' \in 0..MaxCrashes
BY BoundAssumption DEF TypeOK, Stop, GoOn

LEMMA PoolTypeStep ==
    ASSUME TypeOK, PoolStep PROVE TypeOK'
<1> USE DEF Blocks
<1>a. PICK p \in Pool :
       \/ \E s \in Net, kind \in {"leaf", "supernet"} : \E size :
            Unused(p) /\ AddPool(p, kind, s, size)
       \/ \E q \in Pool, s \in Net : Unused(p) /\ Delegate(p, q, s)
       \/ \E s \in Net : ResizeDelegated(p, s)
       \/ \E s \in Net : ResizeOwn(p, s)
       \/ Convert(p)
       \/ RemovePool(p)
       \/ \E a \in Address : Hold(p, a) \/ LetGo(p, a)
  BY DEF PoolStep
<1>1. CASE \E s \in Net, kind \in {"leaf", "supernet"} : \E size :
              Unused(p) /\ AddPool(p, kind, s, size)
  <2>1. PICK s, kind, size :
           s \in Net /\ kind \in {"leaf", "supernet"} /\ Unused(p) /\ AddPool(p, kind, s, size)
    BY <1>1
  <2>2. pools' \in [Pool -> Definition \cup {None}]
    BY <2>1 DEF TypeOK, AddPool
  <2>3. blocks' \in [Pool -> Blocks]
    BY <2>1, PrecarvedType DEF TypeOK, AddPool
  <2>4. Stop \/ GoOn
    BY <2>1 DEF AddPool
  <2>5. UNCHANGED <<held, svi, stray>>
    BY <2>1 DEF AddPool, recorded
  <2> QED BY <2>2, <2>3, <2>4, <2>5, StopType DEF TypeOK
<1>2. CASE \E q \in Pool, s \in Net : Unused(p) /\ Delegate(p, q, s)
  <2>1. PICK q \in Pool, s \in Net : Unused(p) /\ Delegate(p, q, s)
    BY <1>2
  <2>2. [kind |-> "leaf", subnet |-> s, parent |-> q, carve |-> 0] \in Definition
    BY DEF Definition
  <2>3. pools' \in [Pool -> Definition \cup {None}]
    BY <2>1, <2>2 DEF TypeOK, Delegate
  <2>4. Marked(blocks[q], s, p) \in Blocks
    BY MarkedType DEF TypeOK
  <2>5. blocks' \in [Pool -> Blocks]
    BY <2>1, <2>4 DEF TypeOK, Delegate
  <2>6. (Stop \/ GoOn) /\ UNCHANGED <<held, svi, stray>>
    BY <2>1 DEF Delegate, recorded
  <2> QED BY <2>3, <2>5, <2>6, StopType DEF TypeOK
<1>3. CASE \E s \in Net : ResizeDelegated(p, s)
  <2>1. PICK s \in Net : ResizeDelegated(p, s)
    BY <1>3
  <2>2. Exists(p) /\ pools[p].kind = "leaf" /\ pools[p].parent # None
    BY <2>1 DEF ResizeDelegated, Resizable, Leaf
  <2>3. /\ [pools[p] EXCEPT !.subnet = s] \in Definition
        /\ pools[p].subnet \in Net /\ pools[p].parent \in Pool
    BY <2>2, PoolType DEF TypeOK
  <2>4. pools' \in [Pool -> Definition \cup {None}]
    BY <2>1, <2>3 DEF TypeOK, ResizeDelegated
  <2>5. Moved(blocks[pools[p].parent], p, pools[p].subnet, s) \in Blocks
    BY <2>3, MovedType DEF TypeOK
  <2>6. blocks' \in [Pool -> Blocks]
    BY <2>1, <2>5 DEF TypeOK, ResizeDelegated
  <2>7. (Stop \/ GoOn) /\ UNCHANGED <<held, svi, stray>>
    BY <2>1 DEF ResizeDelegated, recorded
  <2> QED BY <2>4, <2>6, <2>7, StopType DEF TypeOK
<1>4. CASE \E s \in Net : ResizeOwn(p, s)
  <2>1. PICK s \in Net : ResizeOwn(p, s)
    BY <1>4
  <2>2. Exists(p) /\ pools[p].kind = "leaf"
    BY <2>1 DEF ResizeOwn, Resizable, Leaf
  <2>3. [pools[p] EXCEPT !.subnet = s] \in Definition
    BY <2>2, PoolType DEF TypeOK
  <2> QED BY <2>1, <2>3 DEF TypeOK, ResizeOwn, allocations, recorded
<1>5. CASE Convert(p)
  <2>1. Exists(p) /\ pools[p].kind = "supernet"
    BY <1>5 DEF Convert, Supernet
  <2>2. [pools[p] EXCEPT !.carve = 0] \in Definition
    BY <2>1, PoolType DEF TypeOK
  <2>3. pools' \in [Pool -> Definition \cup {None}]
    BY <1>5, <2>2 DEF TypeOK, Convert
  <2> DEFINE kept == [n \in Net |-> IF blocks[p][n] # None /\ Keeps(blocks[p][n])
                                      THEN blocks[p][n] ELSE None]
  <2>4. kept \in Blocks
    BY DEF TypeOK
  <2>5. blocks' = [blocks EXCEPT ![p] = Repaired(kept)]
    BY <1>5 DEF Convert
  <2> HIDE DEF kept
  <2>6. blocks' \in [Pool -> Blocks]
    BY <2>4, <2>5, RepairedType DEF TypeOK
  <2>7. (Stop \/ GoOn) /\ UNCHANGED <<held, svi, stray>>
    BY <1>5 DEF Convert, recorded
  <2> QED BY <2>3, <2>6, <2>7, StopType DEF TypeOK
<1>6. CASE RemovePool(p)
  <2>1. Exists(p)
    BY <1>6 DEF RemovePool
  <2>2. pools[p].subnet \in Net /\ pools[p].parent \in Pool \cup {None}
    BY <2>1, PoolType DEF TypeOK
  <2>3. PICK back : /\ back = IF pools[p].parent = None THEN blocks
                              ELSE [blocks EXCEPT ![pools[p].parent] =
                                      Returned(@, pools[p].parent, pools[p].subnet)]
    OBVIOUS
  <2>4. back \in [Pool -> Blocks]
    BY <2>2, <2>3, ReturnedType DEF TypeOK
  <2>5. /\ Stop \/ GoOn
        /\ pools' = pools \/ pools' = Purged(pools, Doomed(p), None)
        /\ blocks' = back \/ blocks' = Purged(back, Doomed(p), NoBlocks)
        /\ held' = held \/ held' = Purged(held, Doomed(p), {})
        /\ svi' = svi \/ svi' = Purged(svi, Doomed(p), {})
        /\ stray' = stray \/ stray' = Purged(stray, Doomed(p), {})
    BY <1>6, <2>3 DEF RemovePool, recorded
  <2>6. NoBlocks \in Blocks
    BY DEF NoBlocks
  <2>7. /\ Purged(pools, Doomed(p), None) \in [Pool -> Definition \cup {None}]
        /\ Purged(back, Doomed(p), NoBlocks) \in [Pool -> Blocks]
        /\ Purged(held, Doomed(p), {}) \in [Pool -> SUBSET Address]
        /\ Purged(svi, Doomed(p), {}) \in [Pool -> SUBSET Address]
        /\ Purged(stray, Doomed(p), {}) \in [Pool -> SUBSET Address]
    BY <2>4, <2>6 DEF TypeOK, Purged
  <2> QED BY <2>4, <2>5, <2>7, StopType DEF TypeOK
<1>7. CASE \E a \in Address : Hold(p, a) \/ LetGo(p, a)
  <2>1. held' \in [Pool -> SUBSET Address] /\ UNCHANGED <<pools, blocks, recorded, crashes>>
    BY <1>7 DEF Hold, LetGo, TypeOK
  <2> QED BY <2>1 DEF TypeOK, recorded
<1> QED BY <1>a, <1>1, <1>2, <1>3, <1>4, <1>5, <1>6, <1>7

LEMMA BlockTypeStep ==
    ASSUME TypeOK, BlockStep PROVE TypeOK'
<1> USE DEF Blocks
<1>a. PICK q \in Pool :
       \/ \E n \in Net : Carve(q, n)
       \/ \E n \in Net : RemoveBlock(q, n)
       \/ \E n \in Net : ReleaseVlan(q, n)
       \/ \E n \in Net, named \in BOOLEAN : Assign(q, n, named)
       \/ \E a \in Address : RecordSvi(q, a)
       \/ Repair(q)
  BY DEF BlockStep
<1>b. blocks[q] \in Blocks
  BY DEF TypeOK
<1>1. CASE \E n \in Net : Carve(q, n)
  <2>1. PICK n \in Net, status \in {"carved", "assigned"} :
           blocks' = [blocks EXCEPT ![q] =
              [m \in Net |-> IF m = n THEN Plain(status)
                             ELSE IF m \in Enclosing(blocks[q], n)
                               THEN [blocks[q][m] EXCEPT !.status = "container"]
                             ELSE blocks[q][m]]]
    BY <1>1 DEF Carve, TypeOK
  <2>2. \A m \in Enclosing(blocks[q], n) :
           [blocks[q][m] EXCEPT !.status = "container"] \in Block
    <3>1. \A m \in Enclosing(blocks[q], n) : blocks[q][m] \in Block
      BY <1>b DEF Enclosing, Around, Present
    <3> QED BY <3>1, BlockFacts DEF Status
  <2>3. Plain(status) \in Block
    BY BlockFacts DEF Status
  <2>4. blocks' \in [Pool -> Blocks]
    BY <1>b, <2>1, <2>2, <2>3 DEF TypeOK
  <2> QED BY <1>1, <2>4 DEF TypeOK, Carve, recorded
<1>2. CASE \E n \in Net : RemoveBlock(q, n)
  <2>1. PICK n \in Net : RemoveBlock(q, n)
    BY <1>2
  <2>2. Demote([blocks[q] EXCEPT ![n] = None], n) \in Blocks
    <3>1. [blocks[q] EXCEPT ![n] = None] \in Blocks
      BY <1>b
    <3> QED BY <3>1, DemoteType
  <2> QED BY <2>1, <2>2 DEF RemoveBlock, TypeOK
<1>3. CASE \E n \in Net : ReleaseVlan(q, n)
  <2>1. PICK n \in Net : ReleaseVlan(q, n)
    BY <1>3
  <2>2. Plain("carved") \in Block
    BY BlockFacts DEF Status
  <2>3. [blocks[q] EXCEPT ![n] = Plain("carved")] \in Blocks
    BY <1>b, <2>2
  <2>4. blocks' \in [Pool -> Blocks]
    BY <2>1, <2>3 DEF ReleaseVlan, TypeOK
  <2> QED BY <2>1, <2>4 DEF ReleaseVlan, TypeOK
<1>4. CASE \E n \in Net, named \in BOOLEAN : Assign(q, n, named)
  <2>1. PICK n \in Net, named \in BOOLEAN : Assign(q, n, named)
    BY <1>4
  <2>2. PICK b : b = IF blocks[q][n].status = "delegated" THEN [blocks[q][n] EXCEPT !.vlan = TRUE]
                     ELSE Plain("assigned")
    OBVIOUS
  <2>3. b \in Block
    <3>1. blocks[q][n] \in Block
      BY <1>b, <2>1 DEF Assign
    <3>2. [blocks[q][n] EXCEPT !.vlan = TRUE] \in Block
      BY <3>1 DEF Block
    <3>3. Plain("assigned") \in Block
      BY BlockFacts DEF Status
    <3> QED BY <2>2, <3>2, <3>3
  <2>4. blocks' = [blocks EXCEPT ![q][n] = b]
    BY <2>1, <2>2 DEF Assign, TypeOK
  <2>5. blocks' \in [Pool -> Blocks]
    BY <2>3, <2>4 DEF TypeOK
  <2>6. Gateway(n) \in Address
    BY GatewayFacts DEF Address
  <2>7. svi' \in [Pool -> SUBSET Address] /\ stray' \in [Pool -> SUBSET Address]
    <3>1. \/ UNCHANGED recorded
          \/ /\ svi' = [svi EXCEPT ![q] = @ \cup {Gateway(n)}]
             /\ stray' = [stray EXCEPT ![q] = @ \ {Gateway(n)}]
      BY <2>1 DEF Assign
    <3>2. svi \in [Pool -> SUBSET Address] /\ stray \in [Pool -> SUBSET Address]
      BY DEF TypeOK
    <3>3. CASE UNCHANGED recorded
      BY <3>2, <3>3 DEF recorded
    <3>4. CASE ~UNCHANGED recorded
      BY <2>6, <3>1, <3>2, <3>4
    <3> QED BY <3>3, <3>4
  <2>8. (Stop \/ GoOn) /\ UNCHANGED <<pools, held>>
    BY <2>1 DEF Assign
  <2> QED BY <2>5, <2>7, <2>8, StopType DEF TypeOK
<1>5. CASE \E a \in Address : RecordSvi(q, a)
  <2>1. PICK a, b : /\ a \in Address /\ svi' = [svi EXCEPT ![q] = (svi[q] \ {b}) \cup {a}]
                    /\ \/ stray' = [stray EXCEPT ![q] = stray[q] \ {a, b}]
                       \/ stray' = [stray EXCEPT ![q] = (stray[q] \ {b}) \cup {a}]
    BY <1>5 DEF RecordSvi, TypeOK
  <2> QED BY <1>5, <2>1 DEF RecordSvi, TypeOK
<1>6. CASE Repair(q)
  BY <1>6, RepairedType DEF Repair, TypeOK, recorded
<1> QED BY <1>a, <1>1, <1>2, <1>3, <1>4, <1>5, <1>6

LEMMA NextTypeOK == TypeOK /\ [Next]_vars => TypeOK'
<1>1. ASSUME TypeOK, UNCHANGED vars PROVE TypeOK'
  BY <1>1 DEF TypeOK, vars, allocations, recorded
<1> QED BY <1>1, PoolTypeStep, BlockTypeStep DEF Next

\* Pools, blocks and what is recorded of their addresses have their types,
\* whatever is asked for and wherever the server stops.
THEOREM TypeCorrect == Spec => []TypeOK
BY InitTypeOK, NextTypeOK, PTL DEF Spec

-----------------------------------------------------------------------------
(* Between operations: what the writes of one leave behind together. *)

Delegated(b, p) == b # None /\ b.status = "delegated" /\ b.to = p

\* Only a supernet has blocks, in its own range.
Placed ==
    \A q \in Pool : \A n \in Present(blocks[q]) :
        Supernet(q) /\ n \subseteq pools[q].subnet

Trees == \A q \in Pool : blocks[q] \in Layout /\ Sound(blocks[q])

\* A pool's range and its block.
Agree == \A p, q \in Pool, n \in Net :
            (Leaf(p) /\ pools[p].parent = q /\ pools[p].subnet = n)
              <=> Delegated(blocks[q][n], p)

\* The addresses of VLAN interfaces that are not stray.
Steady == [q \in Pool |-> svi[q] \ stray[q]]

Gateways ==
    \A q \in Pool : \A a \in Steady[q] :
       /\ \E n \in Net : a \in n /\ Assigned(blocks[q][n])
       /\ \A p \in Pool : Leaf(p) => a \notin pools[p].subnet

Settled == Placed /\ Trees /\ Agree /\ Gateways

SInv == IInv /\ TypeOK /\ (crashes = 0 => Settled)

LEMMA SteadySame == ASSUME UNCHANGED recorded PROVE Steady' = Steady
BY DEF Steady, recorded

LEMMA InitSettled == Init => Settled
<1> SUFFICES ASSUME Init PROVE Settled
  OBVIOUS
<1>1. \A q \in Pool : blocks[q] = NoBlocks /\ Steady[q] = {} /\ pools[q] = None
  BY DEF Init, Steady
<1>2. NoBlocks \in Layout /\ Present(NoBlocks) = {} /\ \A n \in Net : NoBlocks[n] = None
  BY DEF NoBlocks, Layout, Present
<1>3. Sound(NoBlocks)
  BY <1>2 DEF Sound
<1> QED BY <1>1, <1>2, <1>3 DEF Settled, Placed, Trees, Agree, Gateways, Leaf, Exists, Delegated

\* Two blocks that hold none overlap only if they are one.
LEMMA LeavesApart ==
    ASSUME NEW B, NEW m \in Present(B), NEW n \in Present(B),
           Inside(B, m) = {}, Inside(B, n) = {}, Overlaps(m, n)
    PROVE  m = n
<1>1. m \in Net /\ n \in Net
  BY DEF Present
<1>2. m \subseteq n \/ n \subseteq m
  BY <1>1, CidrAssumption
<1> QED BY <1>2 DEF Inside

\* A pool of a supernet is disjoint from its blocks that are no pool's and
\* hold none.
LEMMA BlockApart ==
    ASSUME IInv, Settled, NEW q \in Pool, NEW n \in Present(blocks[q]),
           Inside(blocks[q], n) = {}, blocks[q][n].status # "delegated",
           NEW p \in Pool, Leaf(p)
    PROVE  ~Overlaps(pools[p].subnet, n)
<1> SUFFICES ASSUME Overlaps(pools[p].subnet, n) PROVE FALSE
  OBVIOUS
<1>1. Supernet(q) /\ n \subseteq pools[q].subnet
  BY DEF Settled, Placed
<1>2. p # q /\ Exists(p) /\ Exists(q) /\ Overlaps(pools[p].subnet, pools[q].subnet)
  BY <1>1 DEF Leaf, Supernet, Overlaps
<1>3. pools[q].parent = None /\ pools[p].subnet \in Net
  BY <1>1, <1>2, DefinitionFields DEF IInv, PoolsTyped, Exists, Supernet
<1>4. pools[p].parent = q
  BY <1>2, <1>3, NoneAssumption DEF IInv, PoolsApart
<1>5. Delegated(blocks[q][pools[p].subnet], p)
  BY <1>3, <1>4 DEF Settled, Agree
<1>6. pools[p].subnet \in Present(blocks[q]) /\ Sound(blocks[q])
  BY <1>3, <1>5 DEF Delegated, Present, Settled, Trees
<1>7. Inside(blocks[q], pools[p].subnet) = {}
  BY <1>5, <1>6 DEF Delegated, Sound
<1>8. pools[p].subnet = n
  BY <1>6, <1>7, LeavesApart
<1> QED BY <1>5, <1>8 DEF Delegated

\* What is in use holds no block.
LEMMA UsedHoldNone ==
    ASSUME Settled, NEW q \in Pool, NEW n \in Net, InUse(blocks[q][n])
    PROVE  n \in Present(blocks[q]) /\ Inside(blocks[q], n) = {}
<1>1. n \in Present(blocks[q]) /\ blocks[q][n].status # "container"
  BY DEF InUse, Present
<1> QED BY <1>1 DEF Settled, Trees, Sound

\* Pools may change how they are carved, and blocks of one of them other than
\* what is in use.
LEMMA OtherBlocks ==
    ASSUME TypeOK, Settled, NEW q \in Pool, NEW D \in Layout, Sound(D), Supernet(q),
           \A p \in Pool : /\ Exists(p)' <=> Exists(p)
                           /\ Exists(p) => /\ pools'[p].kind = pools[p].kind
                                           /\ pools'[p].subnet = pools[p].subnet
                                           /\ pools'[p].parent = pools[p].parent,
           blocks' = [blocks EXCEPT ![q] = D],
           \A n \in Present(D) : n \subseteq pools[q].subnet,
           \A n \in Net, p \in Pool : Delegated(D[n], p) <=> Delegated(blocks[q][n], p),
           \A a \in Steady'[q] :
              /\ \E n \in Net : a \in n /\ Assigned(D[n])
              /\ \A p \in Pool : Leaf(p) => a \notin pools[p].subnet,
           \A p \in Pool \ {q} : Steady'[p] = Steady[p]
    PROVE  Settled'
<1>1. blocks'[q] = D /\ \A x \in Pool \ {q} : blocks'[x] = blocks[x]
  BY DEF TypeOK
<1>2. \A p \in Pool : /\ Leaf(p)' <=> Leaf(p)
                      /\ Supernet(p)' <=> Supernet(p)
                      /\ Exists(p) => /\ pools'[p].subnet = pools[p].subnet
                                      /\ pools'[p].parent = pools[p].parent
  BY DEF Leaf, Supernet
<1>3. Placed'
  <2> SUFFICES ASSUME NEW x \in Pool, NEW n \in Present(blocks'[x])
               PROVE  Supernet(x)' /\ n \subseteq pools'[x].subnet
    BY DEF Placed
  <2>1. Supernet(x) /\ n \subseteq pools[x].subnet
    BY <1>1 DEF Settled, Placed
  <2> QED BY <1>2, <2>1 DEF Supernet
<1>4. Trees'
  BY <1>1 DEF Settled, Trees
<1>5. Agree'
  <2> SUFFICES ASSUME NEW p \in Pool, NEW x \in Pool, NEW n \in Net
               PROVE  (Leaf(p)' /\ pools'[p].parent = x /\ pools'[p].subnet = n)
                        <=> Delegated(blocks'[x][n], p)
    BY DEF Agree, Delegated
  <2>1. (Leaf(p) /\ pools[p].parent = x /\ pools[p].subnet = n)
          <=> Delegated(blocks[x][n], p)
    BY DEF Settled, Agree
  <2>2. Delegated(blocks'[x][n], p) <=> Delegated(blocks[x][n], p)
    BY <1>1
  <2> QED BY <1>2, <2>1, <2>2 DEF Leaf
<1>6. Gateways'
  <2> SUFFICES ASSUME NEW x \in Pool, NEW a \in Steady'[x]
               PROVE  /\ \E n \in Net : a \in n /\ Assigned(blocks'[x][n])
                      /\ \A p \in Pool : Leaf(p)' => a \notin pools'[p].subnet
    BY DEF Gateways, Assigned
  <2>1. /\ \E n \in Net : a \in n /\ Assigned(blocks'[x][n])
        /\ \A p \in Pool : Leaf(p) => a \notin pools[p].subnet
    <3>1. CASE x = q
      BY <1>1, <3>1
    <3>2. CASE x # q
      BY <1>1, <3>2 DEF Settled, Gateways
    <3> QED BY <3>1, <3>2
  <2> QED BY <1>2, <2>1 DEF Leaf
<1> QED BY <1>3, <1>4, <1>5, <1>6 DEF Settled

\* What is in use is kept.
LEMMA UsedKept ==
    ASSUME TypeOK, Settled, NEW q \in Pool, NEW D \in Layout, Sound(D), Supernet(q),
           \A p \in Pool : /\ Exists(p)' <=> Exists(p)
                           /\ Exists(p) => /\ pools'[p].kind = pools[p].kind
                                           /\ pools'[p].subnet = pools[p].subnet
                                           /\ pools'[p].parent = pools[p].parent,
           blocks' = [blocks EXCEPT ![q] = D],
           Present(D) \subseteq Present(blocks[q])
             \/ \A n \in Present(D) : n \subseteq pools[q].subnet,
           \A n \in Net : \/ D[n] = blocks[q][n]
                          \/ /\ ~InUse(blocks[q][n])
                             /\ D[n] # None => D[n].status # "delegated",
           UNCHANGED Steady
    PROVE  /\ Settled'
           /\ \A x \in Pool, n \in Net : Assigned(blocks[x][n]) => blocks'[x][n] = blocks[x][n]
<1>1. \A n \in Net, p \in Pool : Delegated(D[n], p) <=> Delegated(blocks[q][n], p)
  BY DEF Delegated, InUse
<1>2. \A n \in Net : Assigned(blocks[q][n]) => D[n] = blocks[q][n]
  BY DEF Assigned, InUse
<1>3. \A n \in Present(D) : n \subseteq pools[q].subnet
  BY DEF Settled, Placed
<1>4. \A a \in Steady'[q] :
         /\ \E n \in Net : a \in n /\ Assigned(D[n])
         /\ \A p \in Pool : Leaf(p) => a \notin pools[p].subnet
  <2> SUFFICES ASSUME NEW a \in Steady[q]
               PROVE  /\ \E n \in Net : a \in n /\ Assigned(D[n])
                      /\ \A p \in Pool : Leaf(p) => a \notin pools[p].subnet
    OBVIOUS
  <2>1. PICK n \in Net : a \in n /\ Assigned(blocks[q][n])
    BY DEF Settled, Gateways
  <2>2. Assigned(D[n])
    BY <1>2, <2>1
  <2> QED BY <2>1, <2>2 DEF Settled, Gateways
<1>5. Settled'
  BY <1>1, <1>3, <1>4, OtherBlocks
<1> QED BY <1>2, <1>5 DEF TypeOK

\* A VLAN's block stays as it is, as long as its supernet does.
KeptStep ==
    \A x \in Pool, n \in Net :
       Assigned(blocks[x][n]) /\ pools'[x] # None => blocks'[x][n] = blocks[x][n]

\* Nothing but block statuses, in no tree other than this.
LEMMA SamePools ==
    ASSUME NEW p \in Pool, pools' = pools
    PROVE  /\ Exists(p)' <=> Exists(p)
           /\ Exists(p) => /\ pools'[p].kind = pools[p].kind
                           /\ pools'[p].subnet = pools[p].subnet
                           /\ pools'[p].parent = pools[p].parent
BY DEF Exists

LEMMA CarveSettled ==
    ASSUME TypeOK, Settled, NEW q \in Pool, NEW n \in Net, Carve(q, n)
    PROVE  Settled' /\ KeptStep
<1>1. /\ Supernet(q) /\ n \subseteq pools[q].subnet
      /\ blocks[q][n] = None /\ Inside(blocks[q], n) = {}
      /\ \A m \in Enclosing(blocks[q], n) : ~InUse(blocks[q][m])
      /\ Depth(blocks[q], n) <= MaxDepth
      /\ pools' = pools /\ Steady' = Steady
  BY SteadySame DEF Carve, Carvable, Manual
<1>2. blocks[q] \in Layout /\ Sound(blocks[q])
  BY DEF Settled, Trees
<1>3. PICK status \in {"carved", "assigned"} :
         blocks' = [blocks EXCEPT ![q] =
            [m \in Net |-> IF m = n THEN Plain(status)
                           ELSE IF m \in Enclosing(blocks[q], n)
                             THEN [blocks[q][m] EXCEPT !.status = "container"]
                           ELSE blocks[q][m]]]
  BY DEF Carve, TypeOK
<1>11. PICK D : D = [m \in Net |-> IF m = n THEN Plain(status)
                                  ELSE IF m \in Enclosing(blocks[q], n)
                                    THEN [blocks[q][m] EXCEPT !.status = "container"]
                                  ELSE blocks[q][m]]
  OBVIOUS
<1>4. /\ Plain(status) \in Fitting
      /\ Plain(status).status \notin {"container", "delegated"}
  BY NoneAssumption DEF Plain, Fitting, Block, Status
<1>5. \A m \in Enclosing(blocks[q], n) : blocks[q][m].status # "delegated"
  BY <1>1 DEF InUse, Enclosing, Around, Present
<1>6. /\ Sound(D) /\ D \in Layout /\ Present(D) = Present(blocks[q]) \cup {n}
      /\ D[n] = Plain(status)
      /\ \A m \in Net \ {n} : \/ D[m] = blocks[q][m]
                              \/ m \in Enclosing(blocks[q], n) /\ D[m].status = "container"
  <2>1. PICK B, b : B = blocks[q] /\ b = Plain(status)
    OBVIOUS
  <2>2. D = [m \in Net |-> IF m = n THEN b
                           ELSE IF m \in Enclosing(B, n)
                             THEN [B[m] EXCEPT !.status = "container"]
                           ELSE B[m]]
    BY <1>11, <2>1
  <2>3. /\ B \in Layout /\ Sound(B) /\ b \in Fitting /\ B[n] = None /\ Inside(B, n) = {}
        /\ b.status # "container" /\ Depth(B, n) <= MaxDepth
        /\ \A m \in Enclosing(B, n) : B[m].status # "delegated"
    BY <1>1, <1>2, <1>4, <1>5, <2>1
  <2>4. /\ Sound(D) /\ D \in Layout /\ Present(D) = Present(B) \cup {n}
        /\ D[n] = b
        /\ \A m \in Net \ {n} : \/ D[m] = B[m]
                                \/ m \in Enclosing(B, n) /\ D[m].status = "container"
    BY <2>2, <2>3, CarvedTree
  <2> QED BY <2>1, <2>4
<1>7. \A m \in Net : \/ D[m] = blocks[q][m]
                     \/ /\ ~InUse(blocks[q][m])
                        /\ D[m] # None => D[m].status # "delegated"
  <2>1. ~InUse(blocks[q][n])
    BY <1>1 DEF InUse
  <2> QED BY <1>1, <1>4, <1>6, <2>1
<1>8. \A m \in Present(D) : m \subseteq pools[q].subnet
  BY <1>1, <1>6 DEF Settled, Placed
<1>9. \A p \in Pool : /\ Exists(p)' <=> Exists(p)
                      /\ Exists(p) => /\ pools'[p].kind = pools[p].kind
                                      /\ pools'[p].subnet = pools[p].subnet
                                      /\ pools'[p].parent = pools[p].parent
  BY <1>1, SamePools
<1>10. /\ Settled'
       /\ \A x \in Pool, m \in Net : Assigned(blocks[x][m]) => blocks'[x][m] = blocks[x][m]
  <2>1. blocks' = [blocks EXCEPT ![q] = D] /\ UNCHANGED Steady
    BY <1>1, <1>3, <1>11
  <2>2. D \in Layout /\ Sound(D) /\ Supernet(q)
    BY <1>1, <1>6
  <2> QED BY <1>7, <1>8, <1>9, <2>1, <2>2, UsedKept
<1> QED BY <1>10 DEF KeptStep

\* A block goes, a VLAN's as well, and the addresses in it are stray.
LEMMA RemoveBlockSettled ==
    ASSUME Careful, TypeOK, Settled, NEW q \in Pool, NEW n \in Net, RemoveBlock(q, n)
    PROVE  /\ Settled'
           /\ \A x \in Pool, m \in Net : Assigned(blocks[x][m]) /\ <<x, m>> # <<q, n>>
                                            => blocks'[x][m] = blocks[x][m]
<1>1. /\ Supernet(q) /\ blocks[q][n] # None
      /\ blocks[q][n].status \notin {"delegated", "container"}
      /\ Children(blocks[q], n) = {} /\ pools' = pools
  BY DEF RemoveBlock
<1>2. blocks[q] \in Layout /\ Sound(blocks[q]) /\ n \in Present(blocks[q])
  BY <1>1 DEF Settled, Trees, Present
<1>3. Inside(blocks[q], n) = {}
  BY <1>1, <1>2, ChildrenIff
<1>4. PICK D : D = Demote([blocks[q] EXCEPT ![n] = None], n)
  OBVIOUS
<1>5. blocks' = [blocks EXCEPT ![q] = D]
  BY <1>4 DEF RemoveBlock
<1>6. /\ Sound(D) /\ D \in Layout /\ Present(D) = Present(blocks[q]) \ {n}
      /\ \A m \in Present(D) : D[m] = blocks[q][m] \/ {D[m].status, blocks[q][m].status}
                                                        \subseteq {"container", "carved"}
  BY <1>2, <1>3, <1>4, DroppedTree
<1>7. D[n] = None /\ \A m \in Net : m \notin Present(D) /\ m # n => D[m] = blocks[q][m]
  <2>1. \A m \in Net : m \in Present(D) <=> D[m] # None
    BY DEF Present
  <2>2. \A m \in Net : m \in Present(blocks[q]) <=> blocks[q][m] # None
    BY DEF Present
  <2> QED BY <1>6, <2>1, <2>2
<1>8. \A m \in Net \ {n} : Assigned(blocks[q][m]) => D[m] = blocks[q][m]
  BY <1>6, <1>7 DEF Assigned
<1>9. \A m \in Net, p \in Pool : Delegated(D[m], p) <=> Delegated(blocks[q][m], p)
  <2> SUFFICES ASSUME NEW m \in Net, NEW p \in Pool, D[m] # blocks[q][m]
               PROVE  ~Delegated(D[m], p) /\ ~Delegated(blocks[q][m], p)
    OBVIOUS
  <2>1. CASE m = n
    BY <1>1, <1>7, <2>1 DEF Delegated
  <2>2. CASE m # n
    BY <1>6, <1>7, <2>2 DEF Delegated
  <2> QED BY <2>1, <2>2
<1>10. /\ Steady'[q] = Steady[q] \ n
       /\ \A x \in Pool \ {q} : Steady'[x] = Steady[x]
  BY DEF RemoveBlock, Steady, TypeOK
<1>11. \A a \in Steady'[q] : /\ \E m \in Net : a \in m /\ Assigned(D[m])
                            /\ \A p \in Pool : Leaf(p) => a \notin pools[p].subnet
  <2> SUFFICES ASSUME NEW a \in Steady[q], a \notin n
               PROVE  /\ \E m \in Net : a \in m /\ Assigned(D[m])
                      /\ \A p \in Pool : Leaf(p) => a \notin pools[p].subnet
    BY <1>10
  <2>1. PICK m \in Net : a \in m /\ Assigned(blocks[q][m])
    BY DEF Settled, Gateways
  <2>2. Assigned(D[m])
    BY <1>8, <2>1
  <2> QED BY <2>1, <2>2 DEF Settled, Gateways
<1>12. \A m \in Present(D) : m \subseteq pools[q].subnet
  BY <1>6 DEF Settled, Placed
<1>13. \A p \in Pool : /\ Exists(p)' <=> Exists(p)
                       /\ Exists(p) => /\ pools'[p].kind = pools[p].kind
                                       /\ pools'[p].subnet = pools[p].subnet
                                       /\ pools'[p].parent = pools[p].parent
  BY <1>1, SamePools
<1>14. \A x \in Pool \ {q} : Steady'[x] = Steady[x]
  BY <1>10
<1>15. Settled'
  BY <1>1, <1>5, <1>6, <1>9, <1>11, <1>12, <1>13, <1>14, OtherBlocks
<1> QED BY <1>5, <1>8, <1>15 DEF TypeOK

LEMMA RepairSettled ==
    ASSUME TypeOK, Settled, NEW q \in Pool, Repair(q)
    PROVE  Settled' /\ KeptStep
<1>1. blocks[q] \in Layout /\ Sound(blocks[q])
  BY DEF Settled, Trees
<1>2. Repaired(blocks[q]) = blocks[q]
  BY <1>1, NothingToRepair
<1>3. blocks' = blocks
  BY <1>2 DEF Repair, TypeOK
<1>4. UNCHANGED <<pools, blocks, Steady>>
  BY <1>3, SteadySame DEF Repair
<1> QED BY <1>4 DEF Settled, Placed, Trees, Agree, Gateways, Leaf, Supernet, Exists, KeptStep

\* What is not a block in use goes; the rest is a tree, as it was.
LEMMA ConvertSettled ==
    ASSUME TypeOK, Settled, NEW q \in Pool, Convert(q)
    PROVE  Settled' /\ KeptStep
<1> DEFINE B == blocks[q]
<1>1. PICK kept : kept = [n \in Net |-> IF B[n] # None /\ Keeps(B[n]) THEN B[n] ELSE None]
  OBVIOUS
<1>2. /\ blocks' = [blocks EXCEPT ![q] = Repaired(kept)]
      /\ Supernet(q) /\ Steady' = Steady
  BY <1>1, SteadySame DEF Convert
<1>3. B \in Layout /\ Sound(B)
  BY DEF Settled, Trees
<1> HIDE DEF B
<1>4. /\ kept \in Layout /\ Present(kept) \subseteq Present(B)
      /\ \A n \in Net : \/ kept[n] = B[n]
                        \/ kept[n] = None /\ ~InUse(B[n])
  <2>1. \A n \in Net : \/ kept[n] = B[n]
                       \/ kept[n] = None /\ ~InUse(B[n])
    <3> SUFFICES ASSUME NEW n \in Net, kept[n] # B[n]
                 PROVE  kept[n] = None /\ ~InUse(B[n])
      OBVIOUS
    <3>1. kept[n] = None /\ ~Keeps(B[n])
      BY <1>1
    <3> QED BY <3>1 DEF Keeps
  <2>2. kept \in Layout
    BY <1>1, <1>3, <2>1 DEF Layout
  <2>3. Present(kept) \subseteq Present(B)
    <3> SUFFICES ASSUME NEW n \in Net, kept[n] # None PROVE B[n] # None
      BY DEF Present
    <3> QED BY <2>1
  <2> QED BY <2>1, <2>2, <2>3
<1>5. \A n \in Net : /\ Inside(kept, n) \subseteq Inside(B, n)
                     /\ Around(kept, n) \subseteq Around(B, n)
  BY <1>4 DEF Inside, Around
<1>6. \A n \in Present(kept) : /\ InUse(kept[n]) => Inside(kept, n) = {}
                               /\ Depth(kept, n) <= MaxDepth
  <2> SUFFICES ASSUME NEW n \in Present(kept)
               PROVE  /\ InUse(kept[n]) => Inside(kept, n) = {}
                      /\ Depth(kept, n) <= MaxDepth
    OBVIOUS
  <2>1. n \in Net /\ n \in Present(B) /\ kept[n] = B[n]
    BY <1>4 DEF Present
  <2>2. Depth(B, n) <= MaxDepth /\ (InUse(B[n]) => Inside(B, n) = {})
    BY <1>3, <2>1 DEF Sound, InUse
  <2>3. Depth(kept, n) \in Nat /\ Depth(B, n) \in Nat /\ Depth(kept, n) <= Depth(B, n)
    BY <1>5, <2>1, DepthFacts
  <2>4. Depth(kept, n) <= MaxDepth
    BY <2>2, <2>3, BoundAssumption
  <2> QED BY <1>5, <2>1, <2>2, <2>4
<1>7. PICK D : D = Repaired(kept)
  OBVIOUS
<1>8. /\ D \in Layout /\ Sound(D) /\ Present(D) = Present(kept)
      /\ \A n \in Present(kept) : \/ D[n] = kept[n]
                                  \/ /\ kept[n].status \in {"container", "carved"}
                                     /\ D[n].status # "delegated"
  BY <1>4, <1>6, <1>7, RepairedTree
<1>9. \A n \in Net : \/ D[n] = B[n]
                     \/ ~InUse(B[n]) /\ (D[n] # None => D[n].status # "delegated")
  <2> SUFFICES ASSUME NEW n \in Net, D[n] # B[n]
               PROVE  ~InUse(B[n]) /\ (D[n] # None => D[n].status # "delegated")
    OBVIOUS
  <2>1. CASE n \in Present(kept)
    BY <1>4, <1>8, <2>1 DEF InUse, Present
  <2>2. CASE n \notin Present(kept)
    BY <1>4, <1>8, <2>2 DEF InUse, Present
  <2> QED BY <2>1, <2>2
<1>10. \A p \in Pool : /\ Exists(p)' <=> Exists(p)
                       /\ Exists(p) => /\ pools'[p].kind = pools[p].kind
                                       /\ pools'[p].subnet = pools[p].subnet
                                       /\ pools'[p].parent = pools[p].parent
  <2>1. CASE pools' = pools
    BY <2>1, SamePools
  <2>2. CASE pools' = [pools EXCEPT ![q] = [pools[q] EXCEPT !.carve = 0]]
    <3> DEFINE d == [pools[q] EXCEPT !.carve = 0]
    <3>1. pools[q] \in Definition /\ pools[q].kind = "supernet"
      BY <1>2 DEF TypeOK, Supernet, Exists
    <3>2. /\ d \in Definition /\ d.kind = pools[q].kind
          /\ d.subnet = pools[q].subnet /\ d.parent = pools[q].parent
      BY <3>1 DEF Definition
    <3>3. pools'[q] = d /\ \A p \in Pool \ {q} : pools'[p] = pools[p]
      BY <2>2 DEF TypeOK
    <3> HIDE DEF d
    <3>4. d # None /\ pools[q] # None
      BY <3>1, <3>2, NoneAssumption
    <3> QED BY <3>2, <3>3, <3>4 DEF Exists
  <2> QED BY <2>1, <2>2 DEF Convert, TypeOK
<1>11. /\ blocks' = [blocks EXCEPT ![q] = D] /\ UNCHANGED Steady
       /\ Present(D) \subseteq Present(blocks[q])
       /\ \A n \in Net : \/ D[n] = blocks[q][n]
                         \/ /\ ~InUse(blocks[q][n])
                            /\ D[n] # None => D[n].status # "delegated"
  BY <1>2, <1>4, <1>7, <1>8, <1>9 DEF B
<1>12. /\ Settled'
       /\ \A x \in Pool, m \in Net : Assigned(blocks[x][m]) => blocks'[x][m] = blocks[x][m]
  BY <1>2, <1>8, <1>10, <1>11, UsedKept
<1> QED BY <1>12 DEF KeptStep

LEMMA HoldSettled ==
    ASSUME Settled, NEW p \in Pool, NEW a \in Address, Hold(p, a) \/ LetGo(p, a)
    PROVE  Settled' /\ KeptStep
<1>1. UNCHANGED <<pools, blocks, Steady>>
  BY SteadySame DEF Hold, LetGo
<1> QED BY <1>1 DEF Settled, Placed, Trees, Agree, Gateways, Leaf, Supernet, Exists, KeptStep

\* An address of a VLAN interface is stray unless it is in a VLAN's block.
LEMMA RecordSviSettled ==
    ASSUME TypeOK, Settled, NEW q \in Pool, NEW a \in Address, RecordSvi(q, a)
    PROVE  Settled' /\ KeptStep
<1>1. UNCHANGED <<pools, blocks>>
  BY DEF RecordSvi
<1>2. /\ \A p \in Pool : Leaf(p) => a \notin pools[p].subnet
      /\ Taken(q, a) <=> \E n \in Net : a \in n /\ Assigned(blocks[q][n])
  BY DEF RecordSvi, FindPool, Taken
<1>3. /\ \A x \in Pool \ {q} : Steady'[x] = Steady[x]
      /\ \/ Steady'[q] \subseteq Steady[q]
         \/ /\ Steady'[q] \subseteq Steady[q] \cup {a}
            /\ \E n \in Net : a \in n /\ Assigned(blocks[q][n])
  <2>1. PICK b : /\ svi' = [svi EXCEPT ![q] = (@ \ {b}) \cup {a}]
                 /\ stray' = [stray EXCEPT ![q] =
                                IF Taken(q, a) THEN @ \ {a, b}
                                  ELSE (@ \ {b}) \cup {a}]
    BY DEF RecordSvi
  <2>2. /\ svi'[q] = (svi[q] \ {b}) \cup {a}
        /\ stray'[q] = IF Taken(q, a) THEN stray[q] \ {a, b}
                         ELSE (stray[q] \ {b}) \cup {a}
        /\ \A x \in Pool \ {q} : svi'[x] = svi[x] /\ stray'[x] = stray[x]
    BY <2>1 DEF TypeOK
  <2> QED BY <1>2, <2>2 DEF Steady
<1>4. Gateways'
  <2> SUFFICES ASSUME NEW x \in Pool, NEW c \in Steady'[x]
               PROVE  /\ \E m \in Net : c \in m /\ Assigned(blocks[x][m])
                      /\ \A p \in Pool : Leaf(p) => c \notin pools[p].subnet
    BY <1>1 DEF Gateways, Leaf, Exists
  <2>1. CASE c \in Steady[x]
    BY <2>1 DEF Settled, Gateways
  <2>2. CASE c \notin Steady[x]
    BY <1>2, <1>3, <2>2
  <2> QED BY <2>1, <2>2
<1>5. Placed' /\ Trees' /\ Agree'
  BY <1>1 DEF Settled, Placed, Trees, Agree, Leaf, Supernet, Exists
<1>6. KeptStep
  BY <1>1 DEF KeptStep
<1> QED BY <1>4, <1>5, <1>6 DEF Settled

\* A block becomes a VLAN's; its gateway is an address of it, and no pool's.
LEMMA AssignSettled ==
    ASSUME Careful, IInv, TypeOK, Settled, NEW q \in Pool, NEW n \in Net,
           NEW named \in BOOLEAN, Assign(q, n, named)
    PROVE  Settled' /\ KeptStep
<1> DEFINE B == blocks[q]
<1>1. /\ Supernet(q) /\ B[n] # None /\ B[n].status # "container" /\ Children(B, n) = {}
      /\ pools' = pools
  BY DEF Assign
<1>2. B \in Layout /\ Sound(B) /\ n \in Present(B) /\ B[n] \in Fitting
  BY <1>1 DEF Settled, Trees, Present, Layout
<1>3. Inside(B, n) = {}
  BY <1>1, <1>2, ChildrenIff
<1>4. PICK b : b = IF B[n].status = "delegated" THEN [B[n] EXCEPT !.vlan = TRUE]
                   ELSE Plain("assigned")
  OBVIOUS
<1>5. /\ b \in Fitting
      /\ B[n].status = "delegated" => b.status = "delegated" /\ b.to = B[n].to
      /\ B[n].status # "delegated" => b = Plain("assigned") /\ b.status = "assigned"
  <2>1. B[n] \in Block
    BY <1>2 DEF Fitting
  <2>2. CASE B[n].status = "delegated"
    <3>1. b \in Block /\ b.status = "delegated" /\ b.to = B[n].to /\ b.vlan = TRUE
      BY <1>4, <2>1, <2>2 DEF Block
    <3> QED BY <1>2, <2>2, <3>1 DEF Fitting
  <2>3. CASE B[n].status # "delegated"
    BY <1>4, <2>3, NoneAssumption DEF Plain, Fitting, Block, Status
  <2> QED BY <2>2, <2>3
<1>6. PICK D : D = [B EXCEPT ![n] = b]
  OBVIOUS
<1>7. blocks' = [blocks EXCEPT ![q] = D]
  BY <1>4, <1>6 DEF Assign, TypeOK
<1> HIDE DEF B
<1>8. D \in Layout /\ D[n] = b /\ \A m \in Net \ {n} : D[m] = B[m]
  BY <1>2, <1>5, <1>6 DEF Layout
<1>9. b # None /\ B[n] # None
  BY <1>1, <1>5, FittingFacts
<1>10. Present(D) = Present(B)
  <2>1. \A m \in Net : D[m] = None <=> B[m] = None
    BY <1>8, <1>9
  <2> QED BY <2>1 DEF Present
<1>11. \A m \in Present(B) : D[m].status = "container" <=> B[m].status = "container"
  <2> SUFFICES ASSUME NEW m \in Present(B)
               PROVE  D[m].status = "container" <=> B[m].status = "container"
    OBVIOUS
  <2>1. CASE m = n
    BY <1>1, <1>5, <1>8, <2>1
  <2>2. CASE m # n
    BY <1>8, <2>2 DEF Present
  <2> QED BY <2>1, <2>2
<1>12. Sound(D)
  BY <1>2, <1>10, <1>11, SameTree
<1>13. \A m \in Net, p \in Pool : Delegated(D[m], p) <=> Delegated(B[m], p)
  <2> SUFFICES ASSUME NEW m \in Net, NEW p \in Pool
               PROVE  Delegated(D[m], p) <=> Delegated(B[m], p)
    OBVIOUS
  <2>1. CASE m = n
    BY <1>5, <1>8, <1>9, <2>1 DEF Delegated
  <2>2. CASE m # n
    BY <1>8, <2>2
  <2> QED BY <2>1, <2>2
<1>14. \A m \in Net : Assigned(B[m]) => D[m] = B[m]
  <2> SUFFICES ASSUME Assigned(B[n]) PROVE b = B[n]
    BY <1>8
  <2>1. b = Plain("assigned")
    BY <1>5 DEF Assigned
  <2>2. B[n] \in Block /\ B[n].vlan = TRUE /\ B[n].to = None /\ B[n].status = "assigned"
    BY <1>2 DEF Assigned, Fitting, Block
  <2> QED BY <2>1, <2>2 DEF Block, Plain
<1>15. \A a \in Steady[q] : /\ \E m \in Net : a \in m /\ Assigned(D[m])
                         /\ \A p \in Pool : Leaf(p) => a \notin pools[p].subnet
  <2> SUFFICES ASSUME NEW a \in Steady[q]
               PROVE  /\ \E m \in Net : a \in m /\ Assigned(D[m])
                      /\ \A p \in Pool : Leaf(p) => a \notin pools[p].subnet
    OBVIOUS
  <2>1. PICK m \in Net : a \in m /\ Assigned(B[m])
    BY DEF Settled, Gateways, B
  <2>2. Assigned(D[m])
    BY <1>14, <2>1
  <2> QED BY <2>1, <2>2 DEF Settled, Gateways
<1>16. /\ Steady'[q] \subseteq Steady[q] \cup (IF B[n].status = "delegated" THEN {}
                                               ELSE {Gateway(n)})
       /\ \A p \in Pool \ {q} : Steady'[p] = Steady[p]
  <2>1. \/ UNCHANGED recorded
        \/ /\ B[n].status # "delegated"
           /\ svi' = [svi EXCEPT ![q] = @ \cup {Gateway(n)}]
           /\ stray' = [stray EXCEPT ![q] = @ \ {Gateway(n)}]
    BY DEF Assign, Derives, B
  <2>2. CASE UNCHANGED recorded
    BY <2>2, SteadySame
  <2>3. CASE ~UNCHANGED recorded
    BY <2>1, <2>3 DEF Steady, TypeOK
  <2> QED BY <2>2, <2>3
<1>17. B[n].status # "delegated" =>
          /\ Assigned(D[n]) /\ Gateway(n) \in n
          /\ \A p \in Pool : Leaf(p) => Gateway(n) \notin pools[p].subnet
  <2> SUFFICES ASSUME B[n].status # "delegated"
               PROVE  /\ Assigned(D[n]) /\ Gateway(n) \in n
                      /\ \A p \in Pool : Leaf(p) => Gateway(n) \notin pools[p].subnet
    OBVIOUS
  <2>1. Gateway(n) \in n
    BY GatewayFacts
  <2>2. Assigned(D[n])
    BY <1>5, <1>8, <1>9 DEF Assigned
  <2>3. ASSUME NEW p \in Pool, Leaf(p) PROVE ~Overlaps(pools[p].subnet, n)
    BY <1>2, <1>3, <2>3, BlockApart DEF B
  <2> QED BY <2>1, <2>2, <2>3 DEF Overlaps
<1>18. \A a \in Steady'[q] : /\ \E m \in Net : a \in m /\ Assigned(D[m])
                          /\ \A p \in Pool : Leaf(p) => a \notin pools[p].subnet
  BY <1>15, <1>16, <1>17
<1>19. \A p \in Pool \ {q} : Steady'[p] = Steady[p]
  BY <1>16
<1>20. \A m \in Present(D) : m \subseteq pools[q].subnet
  BY <1>10 DEF Settled, Placed, B
<1>21. \A p \in Pool : /\ Exists(p)' <=> Exists(p)
                       /\ Exists(p) => /\ pools'[p].kind = pools[p].kind
                                       /\ pools'[p].subnet = pools[p].subnet
                                       /\ pools'[p].parent = pools[p].parent
  BY <1>1, SamePools
<1>22. \A m \in Net, p \in Pool : Delegated(D[m], p) <=> Delegated(blocks[q][m], p)
  BY <1>13 DEF B
<1>23. Settled'
  BY <1>1, <1>7, <1>8, <1>12, <1>18, <1>19, <1>20, <1>21, <1>22, OtherBlocks
<1>24. KeptStep
  BY <1>7, <1>14 DEF KeptStep, TypeOK, B
<1> QED BY <1>23, <1>24

\* A VLAN's block is a free one again, and the addresses in it are.
LEMMA ReleaseVlanSettled ==
    ASSUME Careful, TypeOK, Settled, NEW q \in Pool, NEW n \in Net, ReleaseVlan(q, n)
    PROVE  /\ Settled'
           /\ \A x \in Pool, m \in Net : Assigned(blocks[x][m]) /\ <<x, m>> # <<q, n>>
                                            => blocks'[x][m] = blocks[x][m]
<1> DEFINE B == blocks[q]
<1>1. /\ Supernet(q) /\ B[n] # None /\ B[n].status = "assigned"
      /\ pools' = pools
  BY DEF ReleaseVlan
<1>2. B \in Layout /\ Sound(B)
  BY DEF Settled, Trees
<1>3. /\ Plain("carved") \in Fitting /\ Plain("carved") # None
      /\ Plain("carved").status = "carved"
  <2>1. Plain("carved") \in Fitting /\ Plain("carved").status = "carved"
    BY NoneAssumption DEF Plain, Fitting, Block, Status
  <2> QED BY <2>1, FittingFacts
<1>4. PICK D : D = [B EXCEPT ![n] = Plain("carved")]
  OBVIOUS
<1>5. blocks' = [blocks EXCEPT ![q] = D]
  BY <1>1, <1>4 DEF ReleaseVlan, TypeOK
<1> HIDE DEF B
<1>6. D \in Layout /\ D[n] = Plain("carved") /\ \A m \in Net \ {n} : D[m] = B[m]
  BY <1>2, <1>3, <1>4 DEF Layout
<1>7. Present(D) = Present(B)
  <2>1. \A m \in Net : D[m] = None <=> B[m] = None
    BY <1>1, <1>3, <1>6
  <2> QED BY <2>1 DEF Present
<1>8. \A m \in Present(B) : D[m].status = "container" <=> B[m].status = "container"
  <2> SUFFICES ASSUME NEW m \in Present(B)
               PROVE  D[m].status = "container" <=> B[m].status = "container"
    OBVIOUS
  <2>1. CASE m = n
    BY <1>1, <1>3, <1>6, <2>1
  <2>2. CASE m # n
    BY <1>6, <2>2 DEF Present
  <2> QED BY <2>1, <2>2
<1>9. Sound(D)
  BY <1>2, <1>7, <1>8, SameTree
<1>10. \A m \in Net, p \in Pool : Delegated(D[m], p) <=> Delegated(blocks[q][m], p)
  <2> SUFFICES ASSUME NEW m \in Net, NEW p \in Pool
               PROVE  Delegated(D[m], p) <=> Delegated(B[m], p)
    BY DEF B
  <2>1. CASE m = n
    BY <1>1, <1>3, <1>6, <2>1 DEF Delegated
  <2>2. CASE m # n
    BY <1>6, <2>2
  <2> QED BY <2>1, <2>2
<1>11. Steady'[q] = Steady[q] \ n /\ \A p \in Pool \ {q} : Steady'[p] = Steady[p]
  BY DEF ReleaseVlan, Steady, TypeOK
<1>12. \A a \in Steady'[q] : /\ \E m \in Net : a \in m /\ Assigned(D[m])
                          /\ \A p \in Pool : Leaf(p) => a \notin pools[p].subnet
  <2> SUFFICES ASSUME NEW a \in Steady[q], a \notin n
               PROVE  /\ \E m \in Net : a \in m /\ Assigned(D[m])
                      /\ \A p \in Pool : Leaf(p) => a \notin pools[p].subnet
    BY <1>11
  <2>1. PICK m \in Net : a \in m /\ Assigned(B[m])
    BY DEF Settled, Gateways, B
  <2>2. Assigned(D[m])
    BY <1>6, <2>1
  <2> QED BY <2>1, <2>2 DEF Settled, Gateways
<1>13. \A m \in Present(D) : m \subseteq pools[q].subnet
  BY <1>7 DEF Settled, Placed, B
<1>14. \A p \in Pool : /\ Exists(p)' <=> Exists(p)
                       /\ Exists(p) => /\ pools'[p].kind = pools[p].kind
                                       /\ pools'[p].subnet = pools[p].subnet
                                       /\ pools'[p].parent = pools[p].parent
  BY <1>1, SamePools
<1>15. \A p \in Pool \ {q} : Steady'[p] = Steady[p]
  BY <1>11
<1>16. Settled'
  BY <1>1, <1>5, <1>6, <1>9, <1>10, <1>12, <1>13, <1>14, <1>15, OtherBlocks
<1> QED BY <1>5, <1>6, <1>16 DEF TypeOK, B

\* A new pool, its range apart from all but its parent's, is no obstacle to the
\* addresses of VLAN interfaces, unless they are in the block it takes.
LEMMA NewApart ==
    ASSUME Settled, NEW s, NEW I, NEW q \in Pool, q # I, ~Clashes(s, I),
           NEW n \in Net, Assigned(blocks[q][n])
    PROVE  s \cap n = {}
<1>1. Supernet(q) /\ n \subseteq pools[q].subnet
  BY DEF Settled, Placed, Assigned, Present
<1> QED BY <1>1 DEF Clashes, Overlaps, Supernet

LEMMA AddPoolSettled ==
    ASSUME IInv, TypeOK, Settled, NEW p \in Pool, NEW kind \in {"leaf", "supernet"},
           NEW s \in Net, NEW size, Unused(p), AddPool(p, kind, s, size)
    PROVE  Settled' /\ KeptStep
<1>1. PICK d : d = [kind |-> kind, subnet |-> s, parent |-> None, carve |-> size]
  OBVIOUS
<1>2. /\ d \in Definition /\ d.subnet = s /\ d.parent = None /\ d.kind = kind
      /\ size > 0 => kind = "supernet"
  <2>1. d \in Definition
    BY <1>1 DEF AddPool
  <2>2. d.kind = "leaf" => d.carve = 0
    BY <2>1 DEF Definition
  <2> QED BY <1>1, <2>1, <2>2
<1>3. Unused(p) /\ ~Clashes(s, None) /\ Steady' = Steady
  BY SteadySame DEF AddPool
<1>4. pools'[p] = d /\ \A x \in Pool \ {p} : pools'[x] = pools[x]
  BY <1>1 DEF AddPool, TypeOK
<1>5. PICK D : /\ blocks' = [blocks EXCEPT ![p] = D]
               /\ D = NoBlocks \/ (size > 0 /\ D = Precarved(s, size))
  <2>1. CASE blocks' = blocks
    BY <1>3, <2>1 DEF Unused, TypeOK
  <2>2. CASE size > 0 /\ blocks' = [blocks EXCEPT ![p] = Precarved(s, size)]
    BY <2>2
  <2> QED BY <2>1, <2>2 DEF AddPool
<1>6. /\ D \in Layout /\ Sound(D)
      /\ \A n \in Present(D) : n \subseteq s /\ kind = "supernet"
      /\ \A n \in Net : D[n] # None => D[n].status = "carved"
  <2>1. CASE D = NoBlocks
    <3>1. Present(D) = {} /\ D \in Layout /\ \A n \in Net : D[n] = None
      BY <2>1 DEF Present, NoBlocks, Layout
    <3> QED BY <3>1 DEF Sound
  <2>2. CASE size > 0 /\ D = Precarved(s, size)
    <3>1. D \in Layout /\ Sound(D)
      BY <2>2, PrecarvedTree
    <3>2. \A n \in Net : D[n] # None => n \subseteq s /\ D[n].status = "carved"
      BY <2>2 DEF Precarved, Plain
    <3> QED BY <1>2, <2>2, <3>1, <3>2 DEF Present
  <2> QED BY <1>5, <2>1, <2>2
<1>7. blocks'[p] = D /\ \A x \in Pool \ {p} : blocks'[x] = blocks[x]
  BY <1>5 DEF TypeOK
<1>8. d # None /\ pools[p] = None
  BY <1>2, <1>3, NoneAssumption DEF Unused, Exists
<1>9. Placed'
  <2> SUFFICES ASSUME NEW x \in Pool, NEW n \in Present(blocks'[x])
               PROVE  Supernet(x)' /\ n \subseteq pools'[x].subnet
    BY DEF Placed
  <2>1. CASE x = p
    BY <1>2, <1>4, <1>6, <1>7, <1>8, <2>1 DEF Supernet, Exists
  <2>2. CASE x # p
    BY <1>4, <1>7, <2>2 DEF Settled, Placed, Supernet, Exists
  <2> QED BY <2>1, <2>2
<1>10. Trees'
  BY <1>6, <1>7 DEF Settled, Trees
<1>11. Agree'
  <2> SUFFICES ASSUME NEW y \in Pool, NEW x \in Pool, NEW n \in Net
               PROVE  (Leaf(y)' /\ pools'[y].parent = x /\ pools'[y].subnet = n)
                        <=> Delegated(blocks'[x][n], y)
    BY DEF Agree, Delegated
  <2>1. (Leaf(y) /\ pools[y].parent = x /\ pools[y].subnet = n)
          <=> Delegated(blocks[x][n], y)
    BY DEF Settled, Agree
  <2>2. ~Delegated(blocks[p][n], y) /\ ~Delegated(blocks'[p][n], y)
    BY <1>3, <1>6, <1>7 DEF Unused, NoBlocks, Delegated
  <2>3. Delegated(blocks'[x][n], y) <=> Delegated(blocks[x][n], y)
    BY <1>7, <2>2
  <2>4. ~Leaf(p) /\ pools'[p].parent # x
    BY <1>2, <1>4, <1>8, NoneAssumption DEF Leaf, Exists
  <2>5. CASE y = p
    BY <2>1, <2>3, <2>4, <2>5
  <2>6. CASE y # p
    BY <1>4, <2>1, <2>3, <2>6 DEF Leaf, Exists
  <2> QED BY <2>5, <2>6
<1>12. Gateways'
  <2> SUFFICES ASSUME NEW x \in Pool, NEW a \in Steady[x]
               PROVE  /\ \E n \in Net : a \in n /\ Assigned(blocks'[x][n])
                      /\ \A y \in Pool : Leaf(y)' => a \notin pools'[y].subnet
    BY <1>3 DEF Gateways, Assigned
  <2>1. x # p
    BY <1>3 DEF Unused, Steady
  <2>2. PICK n \in Net : a \in n /\ Assigned(blocks[x][n])
    BY DEF Settled, Gateways
  <2>3. x # None
    BY NoneAssumption
  <2>4. a \notin s
    BY <1>3, <2>2, <2>3, NewApart
  <2>5. \A y \in Pool : Leaf(y) => a \notin pools[y].subnet
    BY DEF Settled, Gateways
  <2>6. \A y \in Pool : Leaf(y)' => a \notin pools'[y].subnet
    BY <1>2, <1>4, <2>4, <2>5 DEF Leaf, Exists
  <2> QED BY <1>7, <2>1, <2>2, <2>6
<1>13. KeptStep
  <2> SUFFICES ASSUME NEW x \in Pool, NEW n \in Net, Assigned(blocks[x][n])
               PROVE  blocks'[x][n] = blocks[x][n]
    BY DEF KeptStep
  <2>1. x # p
    BY <1>3 DEF Unused, NoBlocks, Assigned
  <2> QED BY <1>7, <2>1
<1> QED BY <1>9, <1>10, <1>11, <1>12, <1>13 DEF Settled

\* A free block is taken for a pool.
LEMMA DelegateSettled ==
    ASSUME Careful, IInv, TypeOK, Settled, NEW p \in Pool, NEW q \in Pool, NEW s \in Net,
           Unused(p), Delegate(p, q, s), ~Stop
    PROVE  Settled' /\ KeptStep
<1> DEFINE B == blocks[q]
<1>1. /\ Unused(p) /\ Supernet(q) /\ s \subseteq pools[q].subnet /\ ~Clashes(s, q)
      /\ B[s] # None /\ B[s].status = "carved" /\ Children(B, s) = {}
      /\ Steady' = Steady
  BY SteadySame DEF Delegate, Delegable, Listed
<1>2. PICK d \in Definition :
         d = [kind |-> "leaf", subnet |-> s, parent |-> q, carve |-> 0]
  <2>1. [kind |-> "leaf", subnet |-> s, parent |-> q, carve |-> 0] \in Definition
    BY DEF Definition
  <2> QED BY <2>1
<1>3. d # None /\ d.kind = "leaf" /\ d.subnet = s /\ d.parent = q /\ pools[p] = None /\ p # q
  BY <1>1, <1>2, NoneAssumption DEF Unused, Exists, Supernet
<1>4. pools'[p] = d /\ \A x \in Pool \ {p} : pools'[x] = pools[x]
  BY <1>2 DEF Delegate, TypeOK
<1>5. /\ B \in Layout /\ Sound(B) /\ s \in Present(B) /\ B[s] \in Fitting
  BY <1>1 DEF Settled, Trees, Present, Layout
<1>6. Inside(B, s) = {}
  BY <1>1, <1>5, ChildrenIff
<1>7. PICK b : b = [[B[s] EXCEPT !.status = "delegated"] EXCEPT !.to = p]
  OBVIOUS
<1>8. b \in Fitting /\ b # None /\ b.status = "delegated" /\ b.to = p
  <2>1. B[s] \in Block
    BY <1>5 DEF Fitting
  <2>2. b \in Block /\ b.status = "delegated" /\ b.to = p
    BY <1>7, <2>1 DEF Block, Status
  <2>3. b \in Fitting
    BY <2>2 DEF Fitting
  <2> QED BY <2>2, <2>3, FittingFacts
<1>9. PICK D : D = [B EXCEPT ![s] = b]
  OBVIOUS
<1>10. blocks' = [blocks EXCEPT ![q] = D]
  BY <1>1, <1>7, <1>9 DEF Delegate, Marked, TypeOK
<1>11. blocks'[q] = D /\ \A x \in Pool \ {q} : blocks'[x] = blocks[x]
  BY <1>10 DEF TypeOK
<1> HIDE DEF B
<1>12. D \in Layout /\ D[s] = b /\ \A m \in Net \ {s} : D[m] = B[m]
  BY <1>5, <1>8, <1>9 DEF Layout
<1>13. Present(D) = Present(B)
  <2>1. \A m \in Net : D[m] = None <=> B[m] = None
    BY <1>1, <1>8, <1>12
  <2> QED BY <2>1 DEF Present
<1>14. \A m \in Present(B) : D[m].status = "container" <=> B[m].status = "container"
  <2> SUFFICES ASSUME NEW m \in Present(B)
               PROVE  D[m].status = "container" <=> B[m].status = "container"
    OBVIOUS
  <2>1. CASE m = s
    BY <1>1, <1>8, <1>12, <2>1
  <2>2. CASE m # s
    BY <1>12, <2>2 DEF Present
  <2> QED BY <2>1, <2>2
<1>15. Sound(D)
  BY <1>5, <1>13, <1>14, SameTree
<1>16. Placed'
  <2> SUFFICES ASSUME NEW x \in Pool, NEW n \in Present(blocks'[x])
               PROVE  Supernet(x)' /\ n \subseteq pools'[x].subnet
    BY DEF Placed
  <2>1. n \in Present(blocks[x])
    BY <1>11, <1>13 DEF B
  <2>2. Supernet(x) /\ n \subseteq pools[x].subnet
    BY <2>1 DEF Settled, Placed
  <2>3. x # p
    BY <1>3, <2>2 DEF Supernet, Exists
  <2> QED BY <1>4, <2>2, <2>3 DEF Supernet, Exists
<1>17. Trees'
  BY <1>11, <1>12, <1>15 DEF Settled, Trees
<1>18. Agree'
  <2> SUFFICES ASSUME NEW y \in Pool, NEW x \in Pool, NEW n \in Net
               PROVE  (Leaf(y)' /\ pools'[y].parent = x /\ pools'[y].subnet = n)
                        <=> Delegated(blocks'[x][n], y)
    BY DEF Agree, Delegated
  <2>1. (Leaf(y) /\ pools[y].parent = x /\ pools[y].subnet = n)
          <=> Delegated(blocks[x][n], y)
    BY DEF Settled, Agree
  <2>2. CASE x = q /\ n = s
    <3>1. Delegated(blocks'[x][n], y) <=> y = p
      BY <1>8, <1>11, <1>12, <2>2 DEF Delegated
    <3>2. ~Delegated(blocks[x][n], y)
      BY <1>1, <2>2 DEF Delegated, B
    <3>3. CASE y = p
      BY <1>3, <1>4, <2>2, <3>1, <3>3 DEF Leaf, Exists
    <3>4. CASE y # p
      BY <1>4, <2>1, <3>1, <3>2, <3>4 DEF Leaf, Exists
    <3> QED BY <3>3, <3>4
  <2>3. CASE ~(x = q /\ n = s)
    <3>1. blocks'[x][n] = blocks[x][n]
      BY <1>11, <1>12, <2>3 DEF B
    <3>2. CASE y = p
      <4>1. ~Leaf(p)
        BY <1>3 DEF Leaf, Exists
      <4> QED BY <1>3, <1>4, <2>1, <2>3, <3>1, <3>2, <4>1
    <3>3. CASE y # p
      BY <1>4, <2>1, <3>1, <3>3 DEF Leaf, Exists
    <3> QED BY <3>2, <3>3
  <2> QED BY <2>2, <2>3
<1>19. \A n \in Net : Assigned(B[n]) => D[n] = B[n] /\ s \cap n = {}
  <2> SUFFICES ASSUME NEW n \in Net, Assigned(B[n]) PROVE D[n] = B[n] /\ s \cap n = {}
    OBVIOUS
  <2>1. n # s
    BY <1>1 DEF Assigned
  <2>2. n \in Present(B) /\ Inside(B, n) = {}
    BY UsedHoldNone DEF InUse, Assigned, B
  <2>3. ~Overlaps(s, n)
    BY <1>5, <1>6, <2>1, <2>2, LeavesApart
  <2> QED BY <1>12, <2>1, <2>3 DEF Overlaps
<1>20. \A x \in Pool, n \in Net :
          Assigned(blocks[x][n]) => blocks'[x][n] = blocks[x][n] /\ s \cap n = {}
  <2> SUFFICES ASSUME NEW x \in Pool, NEW n \in Net, Assigned(blocks[x][n])
               PROVE  blocks'[x][n] = blocks[x][n] /\ s \cap n = {}
    OBVIOUS
  <2>1. CASE x = q
    BY <1>11, <1>19, <2>1 DEF B
  <2>2. CASE x # q
    BY <1>1, <1>11, <2>2, NewApart
  <2> QED BY <2>1, <2>2
<1>21. Gateways'
  <2> SUFFICES ASSUME NEW x \in Pool, NEW a \in Steady[x]
               PROVE  /\ \E n \in Net : a \in n /\ Assigned(blocks'[x][n])
                      /\ \A y \in Pool : Leaf(y)' => a \notin pools'[y].subnet
    BY <1>1 DEF Gateways, Assigned
  <2>1. PICK n \in Net : a \in n /\ Assigned(blocks[x][n])
    BY DEF Settled, Gateways
  <2>2. blocks'[x][n] = blocks[x][n] /\ a \notin s
    BY <1>20, <2>1
  <2>3. \A y \in Pool : Leaf(y) => a \notin pools[y].subnet
    BY DEF Settled, Gateways
  <2>4. \A y \in Pool : Leaf(y)' => a \notin pools'[y].subnet
    BY <1>3, <1>4, <2>2, <2>3 DEF Leaf, Exists
  <2> QED BY <2>1, <2>2, <2>4
<1> QED BY <1>16, <1>17, <1>18, <1>20, <1>21 DEF Settled, KeptStep

LEMMA ResizeOwnSettled ==
    ASSUME IInv, TypeOK, Settled, NEW p \in Pool, NEW s \in Net, ResizeOwn(p, s)
    PROVE  Settled' /\ KeptStep
<1>1. /\ Leaf(p) /\ pools[p].parent = None /\ ~Clashes(s, p)
      /\ UNCHANGED <<blocks, Steady>>
  BY SteadySame DEF ResizeOwn, Resizable, allocations
<1>2. PICK d : d = [pools[p] EXCEPT !.subnet = s]
  OBVIOUS
<1>3. /\ d \in Definition /\ d.subnet = s
      /\ d.parent = None /\ d.kind = "leaf"
  <2>1. pools[p] \in Definition /\ pools[p].kind = "leaf"
    BY <1>1 DEF Leaf, Exists, TypeOK
  <2> QED BY <1>1, <1>2, <2>1 DEF Definition
<1>4. pools'[p] = d /\ \A x \in Pool \ {p} : pools'[x] = pools[x]
  BY <1>2 DEF ResizeOwn, TypeOK
<1>5. d # None
  BY <1>3, NoneAssumption
<1>6. Placed'
  <2> SUFFICES ASSUME NEW x \in Pool, NEW n \in Present(blocks[x])
               PROVE  Supernet(x)' /\ n \subseteq pools'[x].subnet
    BY <1>1 DEF Placed
  <2>1. Supernet(x) /\ n \subseteq pools[x].subnet
    BY DEF Settled, Placed
  <2>2. x # p
    BY <1>1, <2>1 DEF Supernet, Leaf
  <2> QED BY <1>4, <2>1, <2>2 DEF Supernet, Exists
<1>7. Trees'
  BY <1>1 DEF Settled, Trees
<1>8. Agree'
  <2> SUFFICES ASSUME NEW y \in Pool, NEW x \in Pool, NEW n \in Net
               PROVE  (Leaf(y)' /\ pools'[y].parent = x /\ pools'[y].subnet = n)
                        <=> Delegated(blocks[x][n], y)
    BY <1>1 DEF Agree, Delegated
  <2>1. (Leaf(y) /\ pools[y].parent = x /\ pools[y].subnet = n)
          <=> Delegated(blocks[x][n], y)
    BY DEF Settled, Agree
  <2>2. CASE y = p
    BY <1>1, <1>3, <1>4, <2>1, <2>2, NoneAssumption
  <2>3. CASE y # p
    BY <1>4, <2>1, <2>3 DEF Leaf, Exists
  <2> QED BY <2>2, <2>3
<1>9. Gateways'
  <2> SUFFICES ASSUME NEW x \in Pool, NEW a \in Steady[x]
               PROVE  /\ \E n \in Net : a \in n /\ Assigned(blocks[x][n])
                      /\ \A y \in Pool : Leaf(y)' => a \notin pools'[y].subnet
    BY <1>1 DEF Gateways, Assigned
  <2>1. PICK n \in Net : a \in n /\ Assigned(blocks[x][n])
    BY DEF Settled, Gateways
  <2>2. x # p
    BY <1>1, <2>1 DEF Settled, Placed, Assigned, Present, Supernet, Leaf
  <2>3. a \notin s
    BY <1>1, <2>1, <2>2, NewApart
  <2>4. \A y \in Pool : Leaf(y) => a \notin pools[y].subnet
    BY DEF Settled, Gateways
  <2>5. \A y \in Pool : Leaf(y)' => a \notin pools'[y].subnet
    BY <1>3, <1>4, <2>3, <2>4 DEF Leaf, Exists
  <2> QED BY <2>1, <2>5
<1>10. KeptStep
  BY <1>1 DEF KeptStep
<1> QED BY <1>6, <1>7, <1>8, <1>9, <1>10 DEF Settled

\* A delegation's block is narrowed with its pool.
LEMMA ResizeDelegatedSettled ==
    ASSUME Narrowing, IInv, TypeOK, Settled, NEW p \in Pool, NEW s \in Net,
           ResizeDelegated(p, s), ~Stop
    PROVE  Settled' /\ KeptStep
<1>1. PICK q \in Pool, old \in Net : /\ pools[p].parent = q /\ pools[p].subnet = old
                                     /\ Leaf(p) /\ q # None
  <2>1. Leaf(p) /\ pools[p].parent # None
    BY DEF ResizeDelegated, Resizable
  <2>2. pools[p].parent \in Pool /\ pools[p].subnet \in Net
    BY <2>1, PoolType DEF TypeOK, Leaf
  <2> QED BY <2>1, <2>2
<1>2. /\ s # old /\ s \subseteq old /\ s \subseteq pools[q].subnet
      /\ pools' = [pools EXCEPT ![p].subnet = s] /\ Steady' = Steady
  BY <1>1, SteadySame DEF ResizeDelegated, Resizable
<1> DEFINE B == blocks[q]
<1>3. PICK D : D = Moved(B, p, old, s)
  OBVIOUS
<1>4. blocks' = [blocks EXCEPT ![q] = D]
  BY <1>1, <1>3 DEF ResizeDelegated
<1>5. B \in Layout /\ Sound(B)
  BY DEF Settled, Trees
<1>6. Delegated(B[old], p)
  BY <1>1 DEF Settled, Agree
<1> HIDE DEF B
<1>7. InUse(B[old]) /\ B[old].status = "delegated" /\ B[old] # None /\ B[old].to = p
  BY <1>6 DEF Delegated, InUse
<1>8. /\ Sound(D) /\ D \in Layout
      /\ Present(D) = (Present(B) \ {old}) \cup {s} /\ B[s] = None
      /\ D[s] = [B[old] EXCEPT !.to = p]
      /\ \A m \in Net \ {s, old} : D[m] = B[m]
  BY <1>2, <1>3, <1>5, <1>7, MovedTree
<1>9. D[old] = None
  BY <1>2, <1>8 DEF Present
<1>10. D[s] # None /\ D[s].status = "delegated" /\ D[s].to = p
  <2>1. B[old] \in Block
    BY <1>5, <1>7 DEF Layout, Fitting
  <2>2. D[s] \in Block /\ D[s].status = "delegated" /\ D[s].to = p
    BY <1>7, <1>8, <2>1 DEF Block
  <2> QED BY <2>2, NoneAssumption
<1>11. blocks'[q] = D /\ \A x \in Pool \ {q} : blocks'[x] = blocks[x]
  BY <1>4 DEF TypeOK
<1>12. PICK d : d = [pools[p] EXCEPT !.subnet = s]
  OBVIOUS
<1>13. /\ d \in Definition /\ d.subnet = s
       /\ d.parent = q /\ d.kind = "leaf"
  <2>1. pools[p] \in Definition /\ pools[p].kind = "leaf"
    BY <1>1 DEF Leaf, Exists, TypeOK
  <2> QED BY <1>1, <1>12, <2>1 DEF Definition
<1>14. pools'[p] = d /\ \A x \in Pool \ {p} : pools'[x] = pools[x]
  BY <1>2, <1>12 DEF TypeOK
<1>15. d # None
  BY <1>13, NoneAssumption
<1>16. Placed'
  <2> SUFFICES ASSUME NEW x \in Pool, NEW n \in Present(blocks'[x])
               PROVE  Supernet(x)' /\ n \subseteq pools'[x].subnet
    BY DEF Placed
  <2>1. Supernet(q)
    BY <1>7 DEF Settled, Placed, Present, B
  <2>2. Supernet(x) /\ n \subseteq pools[x].subnet
    <3>1. CASE x = q /\ n = s
      BY <1>2, <2>1, <3>1
    <3>2. CASE ~(x = q /\ n = s)
      <4>1. n \in Present(blocks[x])
        BY <1>8, <1>11, <3>2 DEF B
      <4> QED BY <4>1 DEF Settled, Placed
    <3> QED BY <3>1, <3>2
  <2>3. x # p
    BY <1>1, <2>2 DEF Supernet, Leaf
  <2> QED BY <1>14, <2>2, <2>3 DEF Supernet, Exists
<1>17. Trees'
  BY <1>8, <1>11 DEF Settled, Trees
<1>18. Agree'
  <2> SUFFICES ASSUME NEW y \in Pool, NEW x \in Pool, NEW n \in Net
               PROVE  (Leaf(y)' /\ pools'[y].parent = x /\ pools'[y].subnet = n)
                        <=> Delegated(blocks'[x][n], y)
    BY DEF Agree, Delegated
  <2>1. (Leaf(y) /\ pools[y].parent = x /\ pools[y].subnet = n)
          <=> Delegated(blocks[x][n], y)
    BY DEF Settled, Agree
  <2>2. CASE y = p
    <3>1. (Leaf(p)' /\ pools'[p].parent = x /\ pools'[p].subnet = n) <=> x = q /\ n = s
      BY <1>13, <1>14, <1>15 DEF Leaf, Exists
    <3>2. Delegated(blocks'[x][n], p) <=> x = q /\ n = s
      <4>1. CASE x = q /\ n = s
        BY <1>10, <1>11, <4>1 DEF Delegated
      <4>2. CASE x = q /\ n = old
        BY <1>2, <1>9, <1>11, <4>2 DEF Delegated
      <4>3. CASE ~(x = q /\ n \in {s, old})
        <5>1. blocks'[x][n] = blocks[x][n]
          BY <1>8, <1>11, <4>3 DEF B
        <5> QED BY <1>1, <2>1, <2>2, <4>3, <5>1
      <4> QED BY <4>1, <4>2, <4>3
    <3> QED BY <2>2, <3>1, <3>2
  <2>3. CASE y # p
    <3>1. Delegated(blocks'[x][n], y) <=> Delegated(blocks[x][n], y)
      <4>1. CASE x = q /\ n = s
        BY <1>8, <1>10, <1>11, <2>3, <4>1 DEF Delegated, B
      <4>2. CASE x = q /\ n = old
        BY <1>7, <1>9, <1>11, <2>3, <4>2 DEF Delegated, B
      <4>3. CASE ~(x = q /\ n \in {s, old})
        BY <1>8, <1>11, <4>3 DEF B
      <4> QED BY <4>1, <4>2, <4>3
    <3> QED BY <1>14, <2>1, <2>3, <3>1 DEF Leaf, Exists
  <2> QED BY <2>2, <2>3
<1>19. \A x \in Pool, n \in Net : Assigned(blocks[x][n]) => blocks'[x][n] = blocks[x][n]
  <2> SUFFICES ASSUME NEW x \in Pool, NEW n \in Net, Assigned(blocks[x][n]), x = q
               PROVE  D[n] = B[n]
    BY <1>11 DEF B
  <2>1. n # s /\ n # old
    BY <1>7, <1>8 DEF Assigned, B
  <2> QED BY <1>8, <2>1
<1>20. Gateways'
  <2> SUFFICES ASSUME NEW x \in Pool, NEW a \in Steady[x]
               PROVE  /\ \E n \in Net : a \in n /\ Assigned(blocks'[x][n])
                      /\ \A y \in Pool : Leaf(y)' => a \notin pools'[y].subnet
    BY <1>2 DEF Gateways, Assigned
  <2>1. PICK n \in Net : a \in n /\ Assigned(blocks[x][n])
    BY DEF Settled, Gateways
  <2>2. blocks'[x][n] = blocks[x][n]
    BY <1>19, <2>1
  <2>3. \A y \in Pool : Leaf(y) => a \notin pools[y].subnet
    BY DEF Settled, Gateways
  <2>4. \A y \in Pool : Leaf(y)' => a \notin pools'[y].subnet
    BY <1>1, <1>2, <1>13, <1>14, <2>3 DEF Leaf, Exists
  <2> QED BY <2>1, <2>2, <2>4
<1> QED BY <1>16, <1>17, <1>18, <1>19, <1>20 DEF Settled, KeptStep

\* What a delegated pool gives back is a free block, or none.
LEMMA ReturnedTree ==
    ASSUME NEW B \in Layout, Sound(B), NEW q, NEW s \in Net,
           B[s] # None, B[s].status = "delegated"
    PROVE  LET D == Returned(B, q, s) IN
             /\ Sound(D) /\ D \in Layout /\ Present(D) \subseteq Present(B)
             /\ D[s] # None => D[s].status = "carved"
             /\ \A m \in Net \ {s} : \/ D[m] = B[m]
                                     \/ /\ ~InUse(B[m])
                                        /\ D[m] # None => D[m].status # "delegated"
<1> DEFINE D == Returned(B, q, s)
<1>1. s \in Present(B) /\ Inside(B, s) = {}
  BY DEF Present, Sound
<1>2. CASE Manual(q)
  <2>1. D = Demote([B EXCEPT ![s] = None], s)
    BY <1>2 DEF Returned
  <2> HIDE DEF D
  <2>2. /\ Sound(D) /\ D \in Layout /\ Present(D) = Present(B) \ {s}
        /\ \A m \in Present(D) : D[m] = B[m] \/ {D[m].status, B[m].status}
                                                  \subseteq {"container", "carved"}
    BY <1>1, <2>1, DroppedTree
  <2>3. D[s] = None
    BY <2>2 DEF Present
  <2>4. ASSUME NEW m \in Net \ {s}
        PROVE  \/ D[m] = B[m]
               \/ ~InUse(B[m]) /\ (D[m] # None => D[m].status # "delegated")
    <3>1. CASE m \in Present(D)
      BY <2>2, <3>1 DEF InUse
    <3>2. CASE m \notin Present(D)
      BY <2>2, <3>2 DEF Present
    <3> QED BY <3>1, <3>2
  <2>5. Present(D) \subseteq Present(B)
    BY <2>2
  <2> QED BY <2>2, <2>3, <2>4, <2>5 DEF D
<1>3. CASE ~Manual(q)
  <2>1. PICK b : b = [[B[s] EXCEPT !.status = "carved"] EXCEPT !.to = None]
    OBVIOUS
  <2>2. b \in Fitting /\ b # None /\ b.status = "carved"
    <3>1. B[s] \in Block
      BY DEF Layout, Fitting
    <3>2. b \in Block /\ b.status = "carved" /\ b.to = None
      BY <2>1, <3>1 DEF Block, Status
    <3>3. b \in Fitting
      BY <3>2, NoneAssumption DEF Fitting
    <3> QED BY <3>2, <3>3, FittingFacts
  <2>3. D = [B EXCEPT ![s] = b]
    BY <1>3, <2>1 DEF Returned, Layout
  <2> HIDE DEF D
  <2>4. D \in Layout /\ D[s] = b /\ \A m \in Net \ {s} : D[m] = B[m]
    BY <2>2, <2>3 DEF Layout
  <2>5. Present(D) = Present(B)
    <3>1. \A m \in Net : D[m] = None <=> B[m] = None
      BY <2>2, <2>4
    <3> QED BY <3>1 DEF Present
  <2>6. \A m \in Present(B) : D[m].status = "container" <=> B[m].status = "container"
    <3> SUFFICES ASSUME NEW m \in Present(B)
                 PROVE  D[m].status = "container" <=> B[m].status = "container"
      OBVIOUS
    <3>1. CASE m = s
      BY <2>2, <2>4, <3>1
    <3>2. CASE m # s
      BY <2>4, <3>2 DEF Present
    <3> QED BY <3>1, <3>2
  <2>7. Sound(D)
    BY <2>5, <2>6, SameTree
  <2> QED BY <2>2, <2>4, <2>5, <2>7 DEF D
<1> QED BY <1>2, <1>3

\* The blocks when the block of p is given back.
Back(p) == IF pools[p].parent = None THEN blocks
           ELSE [blocks EXCEPT ![pools[p].parent] =
                   Returned(blocks[pools[p].parent], pools[p].parent, pools[p].subnet)]

\* A delegated pool's block is given back, and no other pool's or VLAN's.
LEMMA GivenBack ==
    ASSUME IInv, TypeOK, Settled, NEW p \in Pool, Exists(p), NEW back,
           back = Back(p)
    PROVE  \A x \in Pool :
              /\ back[x] \in Layout /\ Sound(back[x])
              /\ Present(back[x]) \subseteq Present(blocks[x])
              /\ \A n \in Net, y \in Pool \ {p} :
                    Delegated(back[x][n], y) <=> Delegated(blocks[x][n], y)
              /\ \A n \in Net : ~Delegated(back[x][n], p)
              /\ \A n \in Net : Assigned(blocks[x][n]) => back[x][n] = blocks[x][n]
<1> SUFFICES ASSUME NEW x \in Pool
             PROVE  /\ back[x] \in Layout /\ Sound(back[x])
                    /\ Present(back[x]) \subseteq Present(blocks[x])
                    /\ \A n \in Net, y \in Pool \ {p} :
                          Delegated(back[x][n], y) <=> Delegated(blocks[x][n], y)
                    /\ \A n \in Net : ~Delegated(back[x][n], p)
                    /\ \A n \in Net : Assigned(blocks[x][n]) => back[x][n] = blocks[x][n]
  OBVIOUS
<1>1. \A n \in Net, y \in Pool : (Leaf(y) /\ pools[y].parent = x /\ pools[y].subnet = n)
                                    <=> Delegated(blocks[x][n], y)
  BY DEF Settled, Agree
<1>2. blocks[x] \in Layout /\ Sound(blocks[x])
  BY DEF Settled, Trees
<1>3. CASE pools[p].parent # x
  <2>1. back[x] = blocks[x]
    BY <1>3 DEF TypeOK, Back
  <2> QED BY <1>1, <1>2, <1>3, <2>1
<1>4. CASE pools[p].parent = x
  <2>1. PICK s \in Net : pools[p].subnet = s
    BY PoolType DEF TypeOK
  <2>2. x # None
    BY NoneAssumption
  <2>3. Leaf(p)
    <3>1. pools[p] \in Definition
      BY DEF TypeOK, Exists
    <3> QED BY <1>4, <2>2, <3>1, DefinitionFields DEF Leaf
  <2>4. Delegated(blocks[x][s], p)
    BY <1>1, <1>4, <2>1, <2>3
  <2>5. PICK B : B = blocks[x]
    OBVIOUS
  <2>6. PICK D : D = Returned(B, x, s)
    OBVIOUS
  <2>7. back[x] = D
    BY <1>4, <2>1, <2>2, <2>5, <2>6 DEF TypeOK, Back
  <2>8. B[s] # None /\ B[s].status = "delegated" /\ B \in Layout /\ Sound(B)
    BY <1>2, <2>4, <2>5 DEF Delegated
  <2>9. /\ Sound(D) /\ D \in Layout /\ Present(D) \subseteq Present(B)
        /\ D[s] # None => D[s].status = "carved"
        /\ \A m \in Net \ {s} : \/ D[m] = B[m]
                                \/ /\ ~InUse(B[m])
                                   /\ D[m] # None => D[m].status # "delegated"
    BY <2>6, <2>8, ReturnedTree
  <2>10. \A n \in Net, y \in Pool : n # s => (Delegated(D[n], y) <=> Delegated(B[n], y))
    BY <2>9 DEF Delegated, InUse
  <2>11. \A y \in Pool : ~Delegated(D[s], y) /\ (Delegated(B[s], y) => y = p)
    BY <2>4, <2>5, <2>9 DEF Delegated
  <2>12. \A n \in Net : Delegated(B[n], p) => n = s
    BY <1>1, <2>1, <2>5
  <2>13. \A n \in Net, y \in Pool \ {p} : Delegated(D[n], y) <=> Delegated(B[n], y)
    BY <2>10, <2>11
  <2>14. \A n \in Net : ~Delegated(D[n], p)
    BY <2>10, <2>11, <2>12
  <2>15. \A n \in Net : Assigned(B[n]) => D[n] = B[n]
    BY <2>8, <2>9 DEF Assigned, InUse
  <2> QED BY <2>5, <2>7, <2>9, <2>13, <2>14, <2>15
<1> QED BY <1>3, <1>4

LEMMA RemovePoolSettled ==
    ASSUME IInv, TypeOK, Settled, NEW p \in Pool, RemovePool(p), ~Stop
    PROVE  Settled' /\ KeptStep
<1>1. Exists(p)
  BY DEF RemovePool
<1>2. PICK back : back = Back(p)
  OBVIOUS
<1>3. /\ pools' = Purged(pools, Doomed(p), None)
      /\ blocks' = Purged(back, Doomed(p), NoBlocks)
      /\ svi' = Purged(svi, Doomed(p), {}) /\ stray' = Purged(stray, Doomed(p), {})
  BY <1>2 DEF RemovePool, Back
<1>4. PICK Z : Z = Doomed(p)
  OBVIOUS
<1>5. \A x \in Pool : /\ x \in Z => pools'[x] = None /\ blocks'[x] = NoBlocks /\ Steady'[x] = {}
                      /\ x \notin Z => /\ pools'[x] = pools[x]
                                       /\ blocks'[x] = back[x] /\ Steady'[x] = Steady[x]
  BY <1>3, <1>4 DEF Purged, Steady
<1>6. \A x \in Pool : /\ back[x] \in Layout /\ Sound(back[x])
                      /\ Present(back[x]) \subseteq Present(blocks[x])
                      /\ \A n \in Net, y \in Pool \ {p} :
                            Delegated(back[x][n], y) <=> Delegated(blocks[x][n], y)
                      /\ \A n \in Net : ~Delegated(back[x][n], p)
                      /\ \A n \in Net : Assigned(blocks[x][n]) => back[x][n] = blocks[x][n]
  BY <1>1, <1>2, GivenBack
<1>7. p \in Z /\ \A x \in Z \ {p} : x \in Pool /\ Exists(x) /\ pools[x].parent = p /\ Supernet(p)
  BY <1>4 DEF Doomed, ChildrenOf
<1>8. \A y \in Pool : Exists(y) /\ pools[y].parent \in Pool => Supernet(pools[y].parent)
  BY NoneAssumption DEF IInv, ParentsThere
<1>9. \A y \in Pool : Exists(y) /\ pools[y].parent = p => y \in Z
  BY <1>4, <1>8 DEF Doomed, ChildrenOf
<1>10. \A x \in Pool : Supernet(x) => pools[x].parent = None
  BY DefinitionFields DEF Supernet, Exists, TypeOK
<1>11. /\ NoBlocks \in Layout /\ Sound(NoBlocks) /\ Present(NoBlocks) = {}
       /\ \A n \in Net : NoBlocks[n] = None
  <2>1. Present(NoBlocks) = {} /\ NoBlocks \in Layout /\ \A n \in Net : NoBlocks[n] = None
    BY DEF Present, NoBlocks, Layout
  <2> QED BY <2>1 DEF Sound
<1>12. Placed'
  <2> SUFFICES ASSUME NEW x \in Pool, NEW n \in Present(blocks'[x])
               PROVE  Supernet(x)' /\ n \subseteq pools'[x].subnet
    BY DEF Placed
  <2>1. x \notin Z
    BY <1>5, <1>11
  <2>2. n \in Present(blocks[x])
    BY <1>5, <1>6, <2>1
  <2>3. Supernet(x) /\ n \subseteq pools[x].subnet
    BY <2>2 DEF Settled, Placed
  <2> QED BY <1>5, <2>1, <2>3 DEF Supernet, Exists
<1>13. Trees'
  <2> SUFFICES ASSUME NEW x \in Pool PROVE blocks'[x] \in Layout /\ Sound(blocks'[x])
    BY DEF Trees
  <2> QED BY <1>5, <1>6, <1>11
<1>14. Agree'
  <2> SUFFICES ASSUME NEW y \in Pool, NEW x \in Pool, NEW n \in Net
               PROVE  (Leaf(y)' /\ pools'[y].parent = x /\ pools'[y].subnet = n)
                        <=> Delegated(blocks'[x][n], y)
    BY DEF Agree, Delegated
  <2>1. (Leaf(y) /\ pools[y].parent = x /\ pools[y].subnet = n)
          <=> Delegated(blocks[x][n], y)
    BY DEF Settled, Agree
  <2>2. CASE y \in Z
    <3>1. ~Leaf(y)'
      BY <1>5, <2>2 DEF Leaf, Exists
    <3>2. ~Delegated(blocks'[x][n], y)
      <4>1. CASE x \in Z
        BY <1>5, <1>11, <4>1 DEF Delegated
      <4>2. CASE x \notin Z /\ y = p
        BY <1>5, <1>6, <4>2
      <4>3. CASE x \notin Z /\ y # p
        BY <1>5, <1>6, <1>7, <2>1, <2>2, <4>3
      <4> QED BY <4>1, <4>2, <4>3
    <3> QED BY <3>1, <3>2
  <2>3. CASE y \notin Z
    <3>1. pools'[y] = pools[y] /\ y # p
      BY <1>5, <1>7, <2>3
    <3>2. CASE x \in Z
      <4>1. ~Delegated(blocks'[x][n], y)
        BY <1>5, <1>11, <3>2 DEF Delegated
      <4>2. ASSUME Exists(y), pools[y].parent = x PROVE FALSE
        <5>1. x # p
          BY <1>9, <2>3, <4>2
        <5>2. Supernet(x)
          BY <1>8, <4>2
        <5> QED BY <1>7, <1>10, <3>2, <5>1, <5>2, NoneAssumption
      <4> QED BY <3>1, <4>1, <4>2 DEF Leaf, Exists
    <3>3. CASE x \notin Z
      BY <1>5, <1>6, <2>1, <3>1, <3>3 DEF Leaf, Exists
    <3> QED BY <3>2, <3>3
  <2> QED BY <2>2, <2>3
<1>15. Gateways'
  <2> SUFFICES ASSUME NEW x \in Pool, NEW a \in Steady'[x]
               PROVE  /\ \E n \in Net : a \in n /\ Assigned(blocks'[x][n])
                      /\ \A y \in Pool : Leaf(y)' => a \notin pools'[y].subnet
    BY DEF Gateways, Assigned
  <2>1. x \notin Z /\ a \in Steady[x]
    BY <1>5
  <2>2. PICK n \in Net : a \in n /\ Assigned(blocks[x][n])
    BY <2>1 DEF Settled, Gateways
  <2>3. blocks'[x][n] = blocks[x][n]
    BY <1>5, <1>6, <2>1, <2>2
  <2>4. \A y \in Pool : Leaf(y) => a \notin pools[y].subnet
    BY <2>1 DEF Settled, Gateways
  <2>5. \A y \in Pool : Leaf(y)' => a \notin pools'[y].subnet
    BY <1>5, <2>4 DEF Leaf, Exists
  <2> QED BY <2>2, <2>3, <2>5
<1>16. KeptStep
  <2> SUFFICES ASSUME NEW x \in Pool, NEW n \in Net, Assigned(blocks[x][n]), pools'[x] # None
               PROVE  blocks'[x][n] = blocks[x][n]
    BY DEF KeptStep
  <2> QED BY <1>5, <1>6
<1> QED BY <1>12, <1>13, <1>14, <1>15, <1>16 DEF Settled

-----------------------------------------------------------------------------
(* The theorems. *)

\* As long as the server did not stop in between, what an operation wrote is
\* settled, and it kept the VLANs' blocks.
LEMMA StepSettled ==
    ASSUME Narrowing, Careful, SInv, Next, crashes' = 0
    PROVE  /\ Settled'
           /\ \A x \in Pool, n \in Net :
                 (/\ Assigned(blocks[x][n]) /\ pools'[x] # None
                  /\ ~ReleaseVlan(x, n) /\ ~RemoveBlock(x, n))
                    => blocks'[x][n] = blocks[x][n]
<1>1. IInv /\ TypeOK /\ crashes \in Nat
  BY DEF SInv, TypeOK
<1>2. ~Stop
  BY <1>1 DEF Stop
<1>3. crashes = 0
  <2>1. ASSUME NEW p \in Pool, NEW s \in Net, NEW kind, NEW size, AddPool(p, kind, s, size)
        PROVE  GoOn
    BY <1>2, <2>1 DEF AddPool
  <2>2. ASSUME NEW p \in Pool, NEW q \in Pool, NEW s \in Net, Delegate(p, q, s) PROVE GoOn
    BY <1>2, <2>2 DEF Delegate
  <2>3. ASSUME NEW p \in Pool, NEW s \in Net, ResizeDelegated(p, s) \/ ResizeOwn(p, s)
        PROVE  GoOn
    BY <1>2, <2>3 DEF ResizeDelegated, ResizeOwn, GoOn, allocations
  <2>4. ASSUME NEW p \in Pool, Convert(p) \/ RemovePool(p) PROVE GoOn
    BY <1>2, <2>4 DEF Convert, RemovePool
  <2>5. ASSUME NEW p \in Pool, NEW a \in Address, Hold(p, a) \/ LetGo(p, a) PROVE GoOn
    BY <1>2, <2>5 DEF Hold, LetGo, GoOn
  <2>6. ASSUME PoolStep PROVE GoOn
    <3>1. PICK p \in Pool :
             \/ \E s \in Net, kind \in {"leaf", "supernet"} : \E size : AddPool(p, kind, s, size)
             \/ \E q \in Pool, s \in Net : Delegate(p, q, s)
             \/ \E s \in Net : ResizeDelegated(p, s) \/ ResizeOwn(p, s)
             \/ Convert(p) \/ RemovePool(p)
             \/ \E a \in Address : Hold(p, a) \/ LetGo(p, a)
      BY <2>6 DEF PoolStep
    <3>2. CASE \E s \in Net, kind \in {"leaf", "supernet"} : \E size : AddPool(p, kind, s, size)
      BY <2>1, <3>2
    <3>3. CASE \E q \in Pool, s \in Net : Delegate(p, q, s)
      BY <2>2, <3>3
    <3>4. CASE \E s \in Net : ResizeDelegated(p, s) \/ ResizeOwn(p, s)
      BY <2>3, <3>4
    <3>5. CASE \E a \in Address : Hold(p, a) \/ LetGo(p, a)
      BY <2>5, <3>5
    <3> QED BY <2>4, <3>1, <3>2, <3>3, <3>4, <3>5
  <2>7. ASSUME NEW q \in Pool, NEW n \in Net, Carve(q, n) \/ RemoveBlock(q, n) PROVE GoOn
    BY <1>2, <2>7 DEF Carve, RemoveBlock, GoOn
  <2>8. ASSUME NEW q \in Pool, NEW n \in Net, ReleaseVlan(q, n) PROVE GoOn
    BY <1>2, <2>8 DEF ReleaseVlan, GoOn
  <2>9. ASSUME NEW q \in Pool, NEW n \in Net, NEW named \in BOOLEAN, Assign(q, n, named)
        PROVE  GoOn
    BY <1>2, <2>9 DEF Assign
  <2>10. ASSUME NEW q \in Pool, NEW a \in Address, RecordSvi(q, a) PROVE GoOn
    BY <2>10 DEF RecordSvi, GoOn
  <2>11. ASSUME NEW q \in Pool, Repair(q) PROVE GoOn
    BY <2>11 DEF Repair, GoOn
  <2>12. ASSUME BlockStep PROVE GoOn
    <3>1. PICK q \in Pool :
             \/ \E n \in Net : Carve(q, n) \/ RemoveBlock(q, n)
             \/ \E n \in Net : ReleaseVlan(q, n)
             \/ \E n \in Net, named \in BOOLEAN : Assign(q, n, named)
             \/ \E a \in Address : RecordSvi(q, a)
             \/ Repair(q)
      BY <2>12 DEF BlockStep
    <3>2. CASE \E n \in Net, named \in BOOLEAN : Assign(q, n, named)
      BY <2>9, <3>2
    <3>3. CASE \E n \in Net : Carve(q, n) \/ RemoveBlock(q, n)
      BY <2>7, <3>3
    <3>4. CASE \E n \in Net : ReleaseVlan(q, n)
      BY <2>8, <3>4
    <3>5. CASE \E a \in Address : RecordSvi(q, a)
      BY <2>10, <3>5
    <3> QED BY <2>11, <3>1, <3>2, <3>3, <3>4, <3>5
  <2> QED BY <2>6, <2>12 DEF Next, GoOn
<1>4. Settled
  BY <1>3 DEF SInv
<1>5. CASE PoolStep
  <2>1. PICK p \in Pool :
           \/ \E s \in Net, kind \in {"leaf", "supernet"} : \E size :
                Unused(p) /\ AddPool(p, kind, s, size)
           \/ \E q \in Pool, s \in Net : Unused(p) /\ Delegate(p, q, s)
           \/ \E s \in Net : ResizeDelegated(p, s)
           \/ \E s \in Net : ResizeOwn(p, s)
           \/ Convert(p)
           \/ RemovePool(p)
           \/ \E a \in Address : Hold(p, a) \/ LetGo(p, a)
    BY <1>5 DEF PoolStep
  <2>2. Settled' /\ KeptStep
    BY <1>1, <1>2, <1>4, <2>1, AddPoolSettled, DelegateSettled, ResizeDelegatedSettled,
       ResizeOwnSettled, ConvertSettled, RemovePoolSettled, HoldSettled
  <2> QED BY <2>2 DEF KeptStep
<1>6. CASE BlockStep
  <2>1. PICK q \in Pool :
           \/ \E n \in Net : Carve(q, n)
           \/ \E n \in Net : RemoveBlock(q, n)
           \/ \E n \in Net : ReleaseVlan(q, n)
           \/ \E n \in Net, named \in BOOLEAN : Assign(q, n, named)
           \/ \E a \in Address : RecordSvi(q, a)
           \/ Repair(q)
    BY <1>6 DEF BlockStep
  <2>2. CASE \E n \in Net : ReleaseVlan(q, n)
    <3>1. PICK n \in Net : ReleaseVlan(q, n)
      BY <2>2
    <3>2. /\ Settled'
          /\ \A x \in Pool, m \in Net : Assigned(blocks[x][m]) /\ <<x, m>> # <<q, n>>
                                           => blocks'[x][m] = blocks[x][m]
      BY <1>1, <1>4, <3>1, ReleaseVlanSettled
    <3> QED BY <3>1, <3>2
  <2>3. CASE \E n \in Net : RemoveBlock(q, n)
    <3>1. PICK n \in Net : RemoveBlock(q, n)
      BY <2>3
    <3>2. /\ Settled'
          /\ \A x \in Pool, m \in Net : Assigned(blocks[x][m]) /\ <<x, m>> # <<q, n>>
                                           => blocks'[x][m] = blocks[x][m]
      BY <1>1, <1>4, <3>1, RemoveBlockSettled
    <3> QED BY <3>1, <3>2
  <2>4. CASE ~\E n \in Net : ReleaseVlan(q, n) \/ RemoveBlock(q, n)
    <3>1. Settled' /\ KeptStep
      BY <1>1, <1>4, <2>1, <2>4, CarveSettled, AssignSettled, RecordSviSettled, RepairSettled
    <3> QED BY <3>1 DEF KeptStep
  <2> QED BY <2>2, <2>3, <2>4
<1> QED BY <1>5, <1>6 DEF Next

LEMMA InitSInv == Init => SInv
BY InitIInv, InitTypeOK, InitSettled DEF SInv

LEMMA NextSInv == ASSUME Narrowing, Careful PROVE SInv /\ [Next]_vars => SInv'
<1> SUFFICES ASSUME SInv, [Next]_vars PROVE SInv'
  OBVIOUS
<1>1. IInv' /\ TypeOK'
  BY NextIInv, NextTypeOK DEF SInv
<1>2. CASE Next
  BY <1>1, <1>2, StepSettled DEF SInv
<1>3. CASE UNCHANGED vars
  <2>1. UNCHANGED <<pools, blocks, Steady, crashes>>
    BY <1>3, SteadySame DEF vars, allocations
  <2>2. crashes' = 0 => Settled'
    BY <2>1 DEF SInv, Settled, Placed, Trees, Agree, Gateways, Leaf, Supernet, Exists
  <2> QED BY <1>1, <2>2 DEF SInv
<1> QED BY <1>2, <1>3

\* A delegated pool and its block name each other.
THEOREM PoolsHaveTheirBlocks ==
    ASSUME Narrowing, Careful PROVE Spec => []DelegationsMatch
<1>1. SInv => DelegationsMatch
  BY DEF SInv, Settled, Agree, DelegationsMatch, Delegated
<1> QED BY <1>1, InitSInv, NextSInv, PTL DEF Spec

\* The stored statuses are those of the tree that the addresses make.
THEOREM TreeOfBlocks ==
    ASSUME Narrowing, Careful PROVE Spec => []BlockTreeSound
<1>1. ASSUME SInv PROVE BlockTreeSound
  <2> SUFFICES ASSUME crashes = 0, NEW q \in Pool
               PROVE  /\ \A n \in Net : InUse(blocks[q][n]) => Inside(blocks[q], n) = {}
                      /\ \A n \in Present(blocks[q]) : Depth(blocks[q], n) <= MaxDepth
                      /\ Repaired(blocks[q]) = blocks[q]
    BY DEF BlockTreeSound, UsedBlocksAreLeaves, DepthBounded, ContainersHoldBlocks
  <2>1. Settled /\ blocks[q] \in Layout /\ Sound(blocks[q])
    BY <1>1 DEF SInv, Settled, Trees
  <2> QED BY <2>1, UsedHoldNone, NothingToRepair DEF Sound
<1> QED BY <1>1, InitSInv, NextSInv, PTL DEF Spec

\* A VLAN interface's address that is not stray is in a VLAN's block and in no pool.
THEOREM NoPoolHandsOutGateways ==
    ASSUME Narrowing, Careful PROVE Spec => []GatewaysInVlans
<1>1. SInv => GatewaysInVlans
  BY DEF SInv, Settled, Gateways, GatewaysInVlans, Steady
<1> QED BY <1>1, InitSInv, NextSInv, PTL DEF Spec

\* Only its release or removal takes a VLAN's block away, or the supernet's.
THEOREM VlansKeepTheirBlocks ==
    ASSUME Narrowing, Careful PROVE Spec => AssignmentsKept
<1>1. ASSUME SInv, [Next]_vars
      PROVE  [crashes' = 0 => \A q \in Pool, n \in Net :
                (/\ Assigned(blocks[q][n]) /\ pools'[q] # None
                 /\ ~ReleaseVlan(q, n) /\ ~RemoveBlock(q, n))
                   => blocks'[q][n] = blocks[q][n]]_vars
  BY <1>1, StepSettled
<1> QED BY <1>1, InitSInv, NextSInv, PTL DEF Spec, AssignmentsKept
=============================================================================
