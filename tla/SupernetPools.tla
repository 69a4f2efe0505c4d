---------------------------- MODULE SupernetPools ----------------------------
(***************************************************************************)
(* A project's address pools and the blocks of its VLAN supernets          *)
(* (src/app/project.py): pools are added, delegated from a supernet,       *)
(* resized and removed; blocks are carved, nested, assigned to VLANs and   *)
(* removed.  Every operation runs under the project lock (ProjectLock), so *)
(* it is one step here, except that config.json (pools) and                *)
(* allocations.json (blocks, held, svi) are written one after the other    *)
(* and the server may stop in between.                                     *)
(*                                                                         *)
(* A network is the set of its addresses.  Of two networks either one is   *)
(* within the other or they are disjoint, as CIDR has it.                  *)
(***************************************************************************)
EXTENDS Naturals, FiniteSets

CONSTANTS Net,        \* the networks
          Pool,       \* pool ids
          MaxDepth,   \* MAX_BLOCK_DEPTH
          Narrowing,  \* the range of a delegated pool is only narrowed
          Ranged,     \* addresses are allocated from the range of a pool that
                      \* is there
          Careful,    \* requests about blocks are such as an up-to-date page offers
          MaxCrashes, \* bound: how often the server stops between two writes
          None        \* no pool, no block

Overlaps(m, n) == m \cap n # {}

ASSUME NetAssumption == /\ IsFiniteSet(Net)
                        /\ \A n \in Net : n \subseteq Nat /\ n # {} /\ IsFiniteSet(n)
ASSUME CidrAssumption ==
    \A m, n \in Net : Overlaps(m, n) => m \subseteq n \/ n \subseteq m
ASSUME BoundAssumption ==
    MaxDepth \in Nat \ {0} /\ MaxCrashes \in Nat /\ {Narrowing, Ranged, Careful} \subseteq BOOLEAN

Address == UNION Net

(***************************************************************************)
(* A leaf is a unique or point-to-point pool; its parent is the supernet   *)
(* it is delegated from.  A supernet with a block size is a fixed one; one *)
(* without (0) is manual.                                                  *)
(***************************************************************************)
Definition == [kind : {"leaf"}, subnet : Net, parent : Pool \cup {None}, carve : {0}]
                \cup [kind : {"supernet"}, subnet : Net, parent : {None},
                      carve : {Cardinality(n) : n \in Net} \cup {0}]

Status == {"carved", "container", "assigned", "delegated"}
Block == [status : Status, vlan : BOOLEAN, to : Pool \cup {None}]
Plain(status) == [status |-> status, vlan |-> status = "assigned", to |-> None]

ASSUME NoneAssumption == None \notin Pool \cup Definition \cup Block

VARIABLES pools,   \* pools[p]: the definition of p, or None
          blocks,  \* blocks[p][n]: the block n of supernet p, or None
          held,    \* held[p]: the addresses allocated from leaf p
          svi,     \* svi[p]: the VLAN interfaces' addresses in supernet p
          stray,   \* history: those of them recorded where neither a VLAN nor
                   \* a leaf was, or left behind by the removal of a block
          crashes

recorded == <<svi, stray>>
allocations == <<blocks, held, recorded>>
vars == <<pools, allocations, crashes>>

NoBlocks == [n \in Net |-> None]

Init == /\ pools = [p \in Pool |-> None]
        /\ blocks = [p \in Pool |-> NoBlocks]
        /\ held = [p \in Pool |-> {}]
        /\ svi = [p \in Pool |-> {}]
        /\ stray = [p \in Pool |-> {}]
        /\ crashes = 0

\* The server stops before the next write.
Stop == crashes < MaxCrashes /\ crashes' = crashes + 1
GoOn == UNCHANGED crashes

Exists(p) == pools[p] # None
Supernet(p) == Exists(p) /\ pools[p].kind = "supernet"
Leaf(p) == Exists(p) /\ pools[p].kind = "leaf"
Manual(p) == Supernet(p) /\ pools[p].carve = 0
ChildrenOf(q) == {p \in Pool : Exists(p) /\ pools[p].parent = q}

\* Ids are new for every pool: nothing has been recorded under one.
Unused(p) == /\ ~Exists(p) /\ blocks[p] = NoBlocks
             /\ held[p] = {} /\ svi[p] = {} /\ stray[p] = {}

-----------------------------------------------------------------------------
(***************************************************************************)
(* The tree of a supernet's blocks, derived from their addresses.          *)
(***************************************************************************)
Present(B) == {n \in Net : B[n] # None}
Inside(B, n) == {m \in Present(B) \ {n} : m \subseteq n}
Around(B, n) == {m \in Present(B) \ {n} : n \subseteq m}
\* _enclosing_block: the smallest block around n, if there is one.
Enclosing(B, n) == {m \in Around(B, n) : \A k \in Around(B, n) : m \subseteq k}
\* _direct_children
Children(B, n) == {m \in Inside(B, n) : Enclosing(B, m) = {n}}
\* _block_depth
Depth(B, n) == 1 + Cardinality(Around(B, n))

\* Mutation: an emptied container stays one.
DemoteNone(B, gone) == B

\* The container left behind by a block that went is a plain block again.
Demote(B, gone) ==
    [m \in Net |-> IF /\ m \in Enclosing(B, gone) /\ Children(B, m) = {}
                      /\ B[m].status = "container"
                     THEN [B[m] EXCEPT !.status = "carved"] ELSE B[m]]

\* _repair_block_statuses
Repaired(B) ==
    [n \in Net |->
       IF B[n] = None THEN None
       ELSE IF B[n].status = "container" /\ Children(B, n) = {}
         THEN [B[n] EXCEPT !.status = IF B[n].vlan THEN "assigned" ELSE "carved"]
       ELSE IF B[n].status = "carved" /\ Children(B, n) # {}
         THEN [B[n] EXCEPT !.status = "container"]
       ELSE B[n]]

InUse(b) == b # None /\ b.status \in {"assigned", "delegated"}

\* Mutation: the ranges are compared as strings.
ClashesEqual(s, I) == \E p \in Pool \ {I} : Exists(p) /\ pools[p].subnet = s

\* _overlapping_pool, apart from the pool I itself.
Clashes(s, I) == \E p \in Pool \ {I} : Exists(p) /\ Overlaps(pools[p].subnet, s)

-----------------------------------------------------------------------------
(***************************************************************************)
(* Pools.                                                                  *)
(***************************************************************************)
\* _precarve_supernet: none when the size is larger than the range, for
\* which it raises.
Precarved(s, size) ==
    [n \in Net |-> IF n \subseteq s /\ Cardinality(n) = size THEN Plain("carved")
                   ELSE None]

\* add_pool with a range of its own.
AddPool(p, kind, s, size) ==
    /\ ~Clashes(s, None)
    /\ [kind |-> kind, subnet |-> s, parent |-> None, carve |-> size] \in Definition
    /\ pools' = [pools EXCEPT ![p] =
                   [kind |-> kind, subnet |-> s, parent |-> None, carve |-> size]]
    /\ \/ size > 0 /\ Stop /\ UNCHANGED blocks
       \/ GoOn /\ blocks' = IF size > 0
                              THEN [blocks EXCEPT ![p] = Precarved(s, size)]
                              ELSE blocks
    /\ UNCHANGED <<held, recorded>>

\* _validate_delegation
Delegable(q, s) ==
    /\ Supernet(q) /\ s \subseteq pools[q].subnet
    /\ Manual(q) \/ Cardinality(s) = pools[q].carve
    /\ ~Clashes(s, q)

\* The picker of the page lists the free blocks.
Listed(q, s) == /\ blocks[q][s] # None /\ blocks[q][s].status = "carved"
                /\ Children(blocks[q], s) = {}

\* _mark_subnet_delegated
Marked(B, s, p) ==
    [B EXCEPT ![s] = [(IF @ = None THEN Plain("carved") ELSE @)
                         EXCEPT !.status = "delegated", !.to = p]]

\* add_pool with a parent.
Delegate(p, q, s) ==
    /\ Delegable(q, s)
    /\ Careful => Listed(q, s)
    /\ pools' = [pools EXCEPT ![p] =
                   [kind |-> "leaf", subnet |-> s, parent |-> q, carve |-> 0]]
    /\ \/ Stop /\ UNCHANGED blocks
       \/ GoOn /\ blocks' = [blocks EXCEPT ![q] = Marked(@, s, p)]
    /\ UNCHANGED <<held, recorded>>

\* Mutation: a word no other function knows.
ReturnedFree(B, q, s) ==
    IF B[s] = None THEN B
    ELSE IF Manual(q) THEN Demote([B EXCEPT ![s] = None], s)
    ELSE [B EXCEPT ![s].status = "free", ![s].to = None]

\* _release_delegated_subnet
Returned(B, q, s) ==
    IF B[s] = None THEN B
    ELSE IF Manual(q) THEN Demote([B EXCEPT ![s] = None], s)
    ELSE [B EXCEPT ![s].status = "carved", ![s].to = None]

\* Mutation: only delegations count as in use.
KeepsDelegated(b) == b.status = "delegated"
Keeps(b) == InUse(b) \/ b.vlan

\* convert_supernet_to_mixed drops the blocks that are not in use.
Convert(q) ==
    /\ Supernet(q) /\ ~Manual(q)
    /\ LET kept == [n \in Net |-> IF blocks[q][n] # None /\ Keeps(blocks[q][n])
                                    THEN blocks[q][n] ELSE None]
       IN blocks' = [blocks EXCEPT ![q] = Repaired(kept)]
    /\ \/ Stop /\ UNCHANGED pools
       \/ GoOn /\ pools' = [pools EXCEPT ![q].carve = 0]
    /\ UNCHANGED <<held, recorded>>

\* Mutation: the old block is left behind.
MovedCopied(B, p, old, s) ==
    LET without == [B EXCEPT ![old] = None]
        clash == Enclosing(without, s)
    IN [n \in Net |->
          IF n = s THEN [(IF B[old] = None THEN Plain("delegated") ELSE B[old])
                           EXCEPT !.to = p]
          ELSE IF n \in clash /\ B[n].status = "carved"
            THEN [B[n] EXCEPT !.status = "container"]
          ELSE B[n]]

\* The block of a delegation moves with its pool's range.
Moved(B, p, old, s) ==
    LET without == [B EXCEPT ![old] = None]
        clash == Enclosing(without, s)
    IN [n \in Net |->
          IF n = s THEN [(IF B[old] = None THEN Plain("delegated") ELSE B[old])
                           EXCEPT !.to = p]
          ELSE IF n \in clash /\ without[n].status = "carved"
            THEN [without[n] EXCEPT !.status = "container"]
          ELSE without[n]]

\* Mutation: addresses outside the new range stay allocated.
ResizableAnyhow(p, s) == Leaf(p) /\ s # pools[p].subnet

\* Allocations are kept, so a range they fall outside of is refused.
Resizable(p, s) == Leaf(p) /\ s # pools[p].subnet /\ held[p] \subseteq s

\* update_pool with another range, of a delegated pool: only the block around
\* the new range is looked at.
ResizeDelegated(p, s) ==
    /\ Resizable(p, s)
    /\ LET q == pools[p].parent  old == pools[p].subnet IN
         /\ q # None /\ s \subseteq pools[q].subnet
         /\ Narrowing => s \subseteq old
         /\ \A n \in Enclosing([blocks[q] EXCEPT ![old] = None], s) :
              ~InUse(blocks[q][n])
         /\ blocks' = [blocks EXCEPT ![q] = Moved(@, p, old, s)]
    /\ \/ Stop /\ UNCHANGED pools
       \/ GoOn /\ pools' = [pools EXCEPT ![p].subnet = s]
    /\ UNCHANGED <<held, recorded>>

\* ... and of a pool with a range of its own.
ResizeOwn(p, s) ==
    /\ Resizable(p, s)
    /\ pools[p].parent = None
    /\ ~Clashes(s, p)
    /\ pools' = [pools EXCEPT ![p].subnet = s]
    /\ UNCHANGED <<allocations, crashes>>

Purged(f, P, empty) == [p \in Pool |-> IF p \in P THEN empty ELSE f[p]]

\* Mutation: the pools delegated from a supernet stay.
DoomedAlone(p) == {p}

\* A supernet takes its delegated children with it.
Doomed(p) == {p} \cup IF Supernet(p) THEN ChildrenOf(p) ELSE {}

\* remove_pool: the delegated block is given back, then config.json is
\* written, then the allocations go.
RemovePool(p) ==
    /\ Exists(p)
    /\ LET q == pools[p].parent
           back == IF q = None THEN blocks
                   ELSE [blocks EXCEPT ![q] = Returned(@, q, pools[p].subnet)]
       IN \/ q # None /\ Stop /\ blocks' = back /\ UNCHANGED <<pools, held, recorded>>
          \/ Stop /\ blocks' = back /\ pools' = Purged(pools, Doomed(p), None)
                  /\ UNCHANGED <<held, recorded>>
          \/ /\ GoOn
             /\ pools' = Purged(pools, Doomed(p), None)
             /\ blocks' = Purged(back, Doomed(p), NoBlocks)
             /\ held' = Purged(held, Doomed(p), {})
             /\ svi' = Purged(svi, Doomed(p), {})
             /\ stray' = Purged(stray, Doomed(p), {})

\* PtpPool and UniquePool: an address is allocated, under whatever pool id the
\* request names and without a look at its range, or released.
Hold(p, a) ==
    /\ Ranged => Leaf(p) /\ a \in pools[p].subnet
    /\ a \notin held[p]
    /\ held' = [held EXCEPT ![p] = @ \cup {a}]
    /\ UNCHANGED <<pools, blocks, recorded, crashes>>

LetGo(p, a) ==
    /\ a \in held[p]
    /\ held' = [held EXCEPT ![p] = @ \ {a}]
    /\ UNCHANGED <<pools, blocks, recorded, crashes>>

-----------------------------------------------------------------------------
(***************************************************************************)
(* Blocks.                                                                 *)
(***************************************************************************)
\* Mutation: the depth of the block around the new one is compared.
CarvableDeeper(q, n) ==
    /\ Manual(q) /\ n \subseteq pools[q].subnet
    /\ blocks[q][n] = None /\ Inside(blocks[q], n) = {}
    /\ \A m \in Enclosing(blocks[q], n) :
         ~InUse(blocks[q][m]) /\ Depth(blocks[q], m) <= MaxDepth

\* What carve_supernet_block refuses: a block outside the supernet, one that
\* is there, one around others, one in a block that is in use, one too deep.
Carvable(q, n) ==
    /\ Manual(q) /\ n \subseteq pools[q].subnet
    /\ blocks[q][n] = None /\ Inside(blocks[q], n) = {}
    /\ \A m \in Enclosing(blocks[q], n) : ~InUse(blocks[q][m])
    /\ Depth(blocks[q], n) <= MaxDepth

Carve(q, n) ==
    /\ Carvable(q, n)
    /\ \E status \in {"carved", "assigned"} :
         blocks' = [blocks EXCEPT ![q] =
            [m \in Net |-> IF m = n THEN Plain(status)
                           ELSE IF m \in Enclosing(@, n)
                             THEN [@[m] EXCEPT !.status = "container"]
                           ELSE @[m]]]
    /\ UNCHANGED <<pools, held, recorded, crashes>>

Assigned(b) == b # None /\ b.status = "assigned"

\* remove_supernet_block, of a VLAN's block as well; what it does to svi finds
\* nothing there, for svi is kept by address.
RemoveBlock(q, n) ==
    /\ Supernet(q)
    /\ blocks[q][n] # None /\ blocks[q][n].status # "delegated"
    /\ Children(blocks[q], n) = {}
    /\ Careful => Manual(q) /\ blocks[q][n].status # "container"
    /\ blocks' = [blocks EXCEPT ![q] = Demote([@ EXCEPT ![n] = None], n)]
    /\ stray' = [stray EXCEPT ![q] = @ \cup (svi[q] \cap n)]
    /\ UNCHANGED <<pools, held, svi, crashes>>

\* The gateway and active gateway addresses of a VLAN count as one.
Gateway(n) == CHOOSE a \in n : \A b \in n : a <= b

\* Mutation: the gateway is derived in delegated blocks too.
DerivesAlways(b) == TRUE
\* The child pool hands out the addresses of a delegated block.
Derives(b) == b.status # "delegated"

\* assign_vlan_subnet; a gateway is derived when a switch is named.
Assign(q, n, named) ==
    /\ Supernet(q) /\ blocks[q][n] # None
    /\ Careful => blocks[q][n].status # "container" /\ Children(blocks[q], n) = {}
    /\ blocks' = [blocks EXCEPT ![q][n] =
                    IF @.status = "delegated" THEN [@ EXCEPT !.vlan = TRUE]
                    ELSE Plain("assigned")]
    /\ LET derives == named /\ Derives(blocks[q][n]) IN
         \/ ~derives /\ GoOn /\ UNCHANGED recorded
         \/ derives /\ Stop /\ UNCHANGED recorded
         \/ /\ derives /\ GoOn
            /\ svi' = [svi EXCEPT ![q] = @ \cup {Gateway(n)}]
            /\ stray' = [stray EXCEPT ![q] = @ \ {Gateway(n)}]
    /\ UNCHANGED <<pools, held>>

\* release_vlan_subnet, of whatever block the request names.
ReleaseVlan(q, n) ==
    /\ Supernet(q)
    /\ Careful => blocks[q][n] # None /\ blocks[q][n].status = "assigned"
    /\ blocks' = IF blocks[q][n] = None THEN blocks
                 ELSE [blocks EXCEPT ![q][n] = Plain("carved")]
    /\ svi' = [svi EXCEPT ![q] = @ \ n]
    /\ stray' = [stray EXCEPT ![q] = @ \ n]
    /\ UNCHANGED <<pools, held, crashes>>

\* Whether an address of supernet q is in the block of a VLAN or in a leaf.
Taken(q, a) == \/ \E n \in Net : a \in n /\ Assigned(blocks[q][n])
               \/ \E p \in Pool : Leaf(p) /\ a \in pools[p].subnet

\* Mutation: VLAN interfaces are looked up in the supernets alone.
FindNone(a) == {}

\* sync_allocations' find_pool; leaves do not overlap (PoolsApart).
FindPool(a) == {p \in Pool : Leaf(p) /\ a \in pools[p].subnet}

\* register_svi, when a switch is saved whose VLAN interface has the address a:
\* one in a delegated block is its pool's (Hold), any other is recorded with the
\* supernet, in place of b that the interface had there.
RecordSvi(q, a) ==
    /\ Supernet(q) /\ a \in pools[q].subnet
    /\ FindPool(a) = {}
    /\ \E b \in svi[q] \cup {a} :
         /\ svi' = [svi EXCEPT ![q] = (@ \ {b}) \cup {a}]
         /\ stray' = [stray EXCEPT ![q] =
                        IF Taken(q, a) THEN @ \ {a, b} ELSE (@ \ {b}) \cup {a}]
    /\ UNCHANGED <<pools, blocks, held, crashes>>

\* get_carved_subnets saves what it repairs.
Repair(q) ==
    /\ Supernet(q)
    /\ blocks' = [blocks EXCEPT ![q] = Repaired(@)]
    /\ UNCHANGED <<pools, held, recorded, crashes>>

\* A new pool has an id of its own.
PoolStep ==
    \E p \in Pool :
       \/ Unused(p) /\ \E s \in Net :
            \/ AddPool(p, "leaf", s, 0) \/ AddPool(p, "supernet", s, 0)
            \/ \E size \in {Cardinality(n) : n \in Net} : AddPool(p, "supernet", s, size)
            \/ \E q \in Pool : Delegate(p, q, s)
       \/ \E s \in Net : ResizeDelegated(p, s) \/ ResizeOwn(p, s)
       \/ Convert(p) \/ RemovePool(p)
       \/ \E a \in Address : Hold(p, a) \/ LetGo(p, a)

BlockStep ==
    \E q \in Pool :
       \/ \E n \in Net : \/ Carve(q, n) \/ RemoveBlock(q, n) \/ ReleaseVlan(q, n)
                         \/ \E named \in BOOLEAN : Assign(q, n, named)
       \/ \E a \in Address : RecordSvi(q, a)
       \/ Repair(q)

Next == PoolStep \/ BlockStep

Spec == Init /\ [][Next]_vars

-----------------------------------------------------------------------------
(***************************************************************************)
(* Properties                                                              *)
(***************************************************************************)
\* Every variable keeps its type.
TypeOK == /\ pools \in [Pool -> Definition \cup {None}]
          /\ blocks \in [Pool -> [Net -> Block \cup {None}]]
          /\ held \in [Pool -> SUBSET Address]
          /\ svi \in [Pool -> SUBSET Address]
          /\ stray \in [Pool -> SUBSET Address]
          /\ crashes \in 0..MaxCrashes

\* "Overlapping ranges are rejected", but for a delegation and the supernet
\* it is taken from: whatever is added, resized and removed, and wherever the
\* server stops.
PoolsApart ==
    \A p, q \in Pool :
        (p # q /\ Exists(p) /\ Exists(q) /\ Overlaps(pools[p].subnet, pools[q].subnet))
            => \/ pools[p].parent = q /\ pools[p].subnet \subseteq pools[q].subnet
               \/ pools[q].parent = p /\ pools[q].subnet \subseteq pools[p].subnet

\* "the same address can be handed out twice" is what that is for: it is not,
\* as long as addresses are allocated from the ranges of their pools, which no
\* allocation checks: resizing, removing and delegating leave none in two pools.
HeldOnce ==
    \A p, q \in Pool : (p # q /\ Exists(p) /\ Exists(q)) => held[p] \cap held[q] = {}

\* A delegated pool's range is a delegated block of its parent, and the other
\* way round: the VLAN side and the pool side of a supernet agree, unless the
\* server stopped between the two writes.
DelegationsMatch ==
    crashes = 0 =>
      \A p, q \in Pool, n \in Net :
         (Leaf(p) /\ pools[p].parent = q /\ pools[p].subnet = n)
           <=> (/\ blocks[q][n] # None
                /\ blocks[q][n].status = "delegated" /\ blocks[q][n].to = p)

\* A block in use has no block within it, so no address serves two VLANs, or
\* a VLAN and a pool; and the tree is no deeper than MAX_BLOCK_DEPTH.
UsedBlocksAreLeaves ==
    crashes = 0 => \A q \in Pool, n \in Net :
                      InUse(blocks[q][n]) => Inside(blocks[q], n) = {}
DepthBounded ==
    crashes = 0 => \A q \in Pool : \A n \in Present(blocks[q]) :
                      Depth(blocks[q], n) <= MaxDepth

\* "a container with no children is not a container", and only that: neither
\* strands a block, as a container cannot be removed from the page.
ContainersHoldBlocks ==
    crashes = 0 => \A q \in Pool : Repaired(blocks[q]) = blocks[q]

\* The tree of blocks that carving, delegating, converting, resizing and giving
\* back leave behind, computed from addresses while the statuses are stored, is
\* one: blocks in use are its leaves, containers its inner nodes, and it ends at
\* the depth limit.
BlockTreeSound == UsedBlocksAreLeaves /\ DepthBounded /\ ContainersHoldBlocks

\* "What must not happen is deriving SVI gateway addresses inside" a delegated
\* block, "where the child pool is handing out those same addresses": whether
\* derived or found on a switch, an address recorded in a VLAN's block stays in
\* one, and no pool comes to hand it out, whatever is done to the supernet.  That
\* leaves out the stray ones: those a switch was saved with outside every VLAN's
\* block and every pool, and those in a block that was removed, not released.
GatewaysInVlans ==
    crashes = 0 => \A q \in Pool : \A a \in svi[q] \ stray[q] :
                      /\ \E n \in Net : a \in n /\ Assigned(blocks[q][n])
                      /\ \A p \in Pool : Leaf(p) => a \notin pools[p].subnet

\* A VLAN keeps its block until that is released or removed, whatever is done to
\* the supernet's other blocks, to its pools or to its layout.
AssignmentsKept ==
    [][crashes' = 0 => \A q \in Pool, n \in Net :
         (/\ Assigned(blocks[q][n]) /\ pools'[q] # None
          /\ ~ReleaseVlan(q, n) /\ ~RemoveBlock(q, n))
            => blocks'[q][n] = blocks[q][n]]_vars
=============================================================================
