-------------------------- MODULE HostsFileProofs --------------------------
(***************************************************************************)
(* The list of switches stays free of double names, the files follow it,   *)
(* and the inventory changes in single steps, for any number of names,     *)
(* groups, requests and stops, when requests keep out of each other's way. *)
(***************************************************************************)
EXTENDS HostsFile, TLAPS

-----------------------------------------------------------------------------
(* The invariant of every run. *)

\* What a request has in memory is for the file it is about to write.
Memory == \A t \in Thread :
    /\ pc[t] \in Adding => req[t].group \in Group
    /\ pc[t] \in {"truncate", "fill", "scaffold"} \cup Removing => mem[t] \in Listing
    /\ pc[t] \in {"truncatemap", "fillmap"} => mem[t] \in Mapping

IInv == TypeOK /\ Memory

-----------------------------------------------------------------------------
(* The invariant when requests keep out of each other's way. *)

\* The switches of a list.
In(L) == UNION {L[g] : g \in Group}

\* No name of one set is a name of the other in another spelling.
Differ(names, others) == \A n \in names, m \in others : Key[n] # Key[m]

RemoveAlone == \A s, t \in Thread :
    pc[t] \in Removing /\ pc[s] \in Adding \cup Removing => s = t

MapAlone == \A s, t \in Thread : pc[s] \in Mapped /\ pc[t] \in Mapped => s = t

\* A file that is being rewritten is empty.
Emptied == \A t \in Thread :
    /\ pc[t] \in Writing => ini = NoHosts
    /\ pc[t] = "fillmap" => mapping = Default

\* The names that are being added differ from each other.
Apart == \A t \in Thread : pc[t] \in Adding =>
    /\ \A n, m \in req[t].names : Key[n] = Key[m] => n = m
    /\ \A s \in Thread : s # t /\ pc[s] \in Adding => Differ(req[t].names, req[s].names)

\* They also differ from those listed, and from those about to be.
Fresh == \A t \in Thread :
    /\ pc[t] \in {"lock", "truncate"} => Differ(req[t].names, In(ini))
    /\ pc[t] = "lock" =>
         \A s \in Thread : pc[s] = "fill" => Differ(req[t].names, In(mem[s]))

\* What is about to be written changes what is in the file now.
Added(L, q) == [L EXCEPT ![q.group] = @ \cup q.names]
Removed(L, n) == [g \in Group |-> L[g] \ {n}]
Changed(old) == {[old EXCEPT !.hosts = hosts] : hosts \in Rows}
    \cup {[hosts |-> hosts, rollback |-> rollback] : hosts \in Rows, rollback \in Rollback}
    \cup {Populated(old, names) : names \in SUBSET Name}

Current == \A t \in Thread :
    /\ pc[t] = "truncate" => mem[t] = Added(ini, req[t])
    /\ pc[t] = "unlist" => \A n \in req[t].names : mem[t] = Removed(ini, n)
    /\ pc[t] \in Removing => \E n \in Name : req[t].names = {n}

CurrentMap == \A t \in Thread : pc[t] = "truncatemap" => mem[t] \in Changed(mapping)

Distinct(L) == \A g, h \in Group : \A n \in L[g], m \in L[h] :
    Key[n] = Key[m] => n = m /\ g = h

AllDistinct == Distinct(ini) /\ \A t \in Thread : pc[t] \in Writing => Distinct(mem[t])

\* The names that have a config, or that a generation will write one of.
Held == configs \cup UNION {copies[g] : g \in Generation}

\* How far the directories and the configs are behind the list.
Behind(t) ==
    /\ pc[t] = "fill" => /\ dirs \cup req[t].names = In(mem[t])
                         /\ Held \subseteq In(mem[t]) \cup caught
    /\ pc[t] = "scaffold" => /\ dirs \cup req[t].names = In(ini)
                             /\ Held \subseteq In(ini) \cup caught
    /\ pc[t] = "refill" => /\ dirs \ req[t].names = In(mem[t])
                           /\ Held \subseteq In(mem[t]) \cup caught \cup req[t].names
    /\ pc[t] = "rmtree" => /\ dirs \ req[t].names = In(ini)
                           /\ Held \subseteq In(ini) \cup caught \cup req[t].names
    /\ pc[t] = "configs" => dirs = In(ini) /\ Held \subseteq In(ini) \cup caught \cup req[t].names

Unsettled == {"fill", "scaffold", "refill", "rmtree", "configs"}

Followed == faults = 0 =>
    /\ \A t \in Thread : Behind(t)
    /\ At(Unsettled) = {} => dirs = In(ini) /\ Held \subseteq In(ini) \cup caught

QInv == /\ RemoveAlone /\ MapAlone /\ Emptied /\ Apart /\ Fresh /\ Current /\ CurrentMap
        /\ AllDistinct /\ Followed

-----------------------------------------------------------------------------
(* The invariant holds. *)

LEMMA Types ==
    /\ NoHosts \in Listing /\ None \notin Listing /\ None \notin Mapping
    /\ None \notin Thread /\ Default \in Mapping /\ NoRequest \in Req
BY NoneAssumption, NameAssumption DEF NoHosts, Listing, Mapping, Default, Rollback,
    NoRequest, Req

\* What each request is about to write has the type of the file.
LEMMA NewContents ==
    ASSUME TypeOK
    PROVE  /\ \A t \in Thread : req[t].group \in Group => Added(ini, req[t]) \in Listing
           /\ \A n \in Name : Removed(ini, n) \in Listing
           /\ Changed(mapping) \subseteq Mapping
<1>1. \A t \in Thread : req[t].group \in Group => Added(ini, req[t]) \in Listing
  BY DEF TypeOK, Listing, Req, Added
<1>2. \A n \in Name : Removed(ini, n) \in Listing
  BY DEF TypeOK, Listing, Removed
<1>3. \A names \in SUBSET Name : Populated(mapping, names) \in Mapping
  BY DEF TypeOK, Mapping, Populated
<1>4. \A hosts \in Rows : [mapping EXCEPT !.hosts = hosts] \in Mapping
  BY NameAssumption DEF TypeOK, Mapping
<1>5. \A hosts \in Rows, rollback \in Rollback :
        [hosts |-> hosts, rollback |-> rollback] \in Mapping
  BY NameAssumption DEF Mapping
<1> QED BY <1>1, <1>2, <1>3, <1>4, <1>5 DEF Changed

LEMMA InList == \A L, n : n \in In(L) <=> \E g \in Group : n \in L[g]
BY DEF In

\* The switches of the list that is written.
LEMMA InFacts ==
    /\ In(NoHosts) = {}
    /\ \A L \in Listing : \A n \in Name : In(Removed(L, n)) = In(L) \ {n}
    /\ \A L \in Listing : \A q \in Req :
         q.group \in Group => In(Added(L, q)) = In(L) \cup q.names
<1>1. In(NoHosts) = {}
  BY DEF In, NoHosts
<1>2. ASSUME NEW L \in Listing, NEW n \in Name PROVE In(Removed(L, n)) = In(L) \ {n}
  BY DEF In, Removed, Listing
<1>3. ASSUME NEW L \in Listing, NEW q \in Req, q.group \in Group
      PROVE  In(Added(L, q)) = In(L) \cup q.names
  <2>1. \A g \in Group : Added(L, q)[g] = IF g = q.group THEN L[g] \cup q.names ELSE L[g]
    BY DEF Added, Listing
  <2>2. \A n : n \in In(Added(L, q)) <=> n \in In(L) \/ n \in q.names
    <3>1. \A n : n \in In(L) <=> \E g \in Group : n \in L[g]
      BY DEF In
    <3>2. \A n : n \in In(Added(L, q)) <=> \E g \in Group : n \in Added(L, q)[g]
      BY DEF In
    <3>3. \A n : \A g \in Group :
            n \in Added(L, q)[g] <=> n \in L[g] \/ (g = q.group /\ n \in q.names)
      BY <2>1
    <3> HIDE DEF In, Added
    <3> QED BY <1>3, <3>1, <3>2, <3>3
  <2> QED BY <2>2
<1> QED BY <1>1, <1>2, <1>3

\* It has no name twice when the one before had none.
LEMMA DistinctFacts ==
    /\ Distinct(NoHosts)
    /\ \A L \in Listing : \A n \in Name : Distinct(L) => Distinct(Removed(L, n))
    /\ \A L \in Listing : \A q \in Req :
         (/\ q.group \in Group /\ Distinct(L) /\ Differ(q.names, In(L))
          /\ \A n, m \in q.names : Key[n] = Key[m] => n = m) => Distinct(Added(L, q))
<1>1. Distinct(NoHosts)
  BY DEF Distinct, NoHosts
<1>2. ASSUME NEW L \in Listing, NEW n \in Name, Distinct(L) PROVE Distinct(Removed(L, n))
  BY <1>2 DEF Distinct, Removed, Listing
<1>3. ASSUME NEW L \in Listing, NEW q \in Req, q.group \in Group, Distinct(L),
             Differ(q.names, In(L)), \A n, m \in q.names : Key[n] = Key[m] => n = m
      PROVE  Distinct(Added(L, q))
  <2>1. \A g \in Group : Added(L, q)[g] = IF g = q.group THEN L[g] \cup q.names ELSE L[g]
    BY DEF Added, Listing
  <2>2. \A g \in Group, m \in q.names : \A n \in L[g] : Key[n] # Key[m]
    BY <1>3, InList DEF Differ
  <2>3. \A g \in Group : \A n \in Added(L, q)[g] :
          n \in L[g] \/ (g = q.group /\ n \in q.names)
    BY <2>1
  <2> SUFFICES ASSUME NEW g \in Group, NEW h \in Group, NEW n \in Added(L, q)[g],
                      NEW m \in Added(L, q)[h], Key[n] = Key[m]
               PROVE  n = m /\ g = h
    BY DEF Distinct
  <2> QED BY <1>3, <2>2, <2>3 DEF Distinct
<1> QED BY <1>1, <1>2, <1>3

\* A generation changes configs only, to some that are there or that it holds.
LEMMA GenerateFacts ==
    ASSUME TypeOK, NEW g \in Generation, Generate(g)
    PROVE  /\ UNCHANGED <<ini, dirs, mapping, lock, pc, req, mem, begun, faults, caught>>
           /\ stage' \in [Generation -> {"idle", "archive", "run"}]
           /\ copies' \in [Generation -> SUBSET Name] /\ configs' \subseteq Name
           /\ Held' \subseteq Held \cup In(ini)
<1> USE DEF TypeOK, GenerationEnds
<1>1. Listed = In(ini) /\ Listed \subseteq Name
  BY DEF Listed, In, Listing
<1>2. ASSUME BeginGenerate(g)
      PROVE  /\ configs' = configs /\ copies' \in [Generation -> SUBSET Name]
             /\ \A f \in Generation : copies'[f] \subseteq copies[f] \cup In(ini)
  BY <1>1, <1>2 DEF BeginGenerate
<1>3. ASSUME Archive(g)
      PROVE  /\ configs' = configs /\ copies' \in [Generation -> SUBSET Name]
             /\ \A f \in Generation : copies'[f] \subseteq copies[f] \cup configs
  BY <1>3 DEF Archive
<1>4. ASSUME Mirror(g)
      PROVE  /\ configs' \subseteq configs \cup copies[g]
             /\ copies' \in [Generation -> SUBSET Name]
             /\ \A f \in Generation : copies'[f] \subseteq copies[f]
  BY <1>4 DEF Mirror
<1>5. UNCHANGED <<ini, dirs, mapping, lock, pc, req, mem, begun, faults, caught>>
  BY DEF Generate, BeginGenerate, Archive, Mirror
<1>6. stage' \in [Generation -> {"idle", "archive", "run"}]
  BY DEF Generate, BeginGenerate, Archive, Mirror
<1>7. copies' \in [Generation -> SUBSET Name] /\ configs' \subseteq Name
  BY <1>2, <1>3, <1>4 DEF Generate
<1>8. /\ configs' \subseteq configs \cup copies[g]
      /\ \A f \in Generation : copies'[f] \subseteq copies[f] \cup configs \cup In(ini)
  BY <1>2, <1>3, <1>4 DEF Generate
<1>9. Held' \subseteq Held \cup In(ini)
  BY <1>8 DEF Held
<1> QED BY <1>5, <1>6, <1>7, <1>9

LEMMA HeldSame == UNCHANGED <<configs, copies>> => UNCHANGED Held
BY DEF Held

LEMMA InitIInv == Init => IInv
BY Types, BoundAssumption DEF Init, IInv, TypeOK, Memory, Adding, Removing, Label

LEMMA TypeStep ==
    IInv /\ [Next]_vars => TypeOK'
<1> SUFFICES ASSUME IInv, [Next]_vars PROVE TypeOK'
  OBVIOUS
<1> USE Types, BoundAssumption DEF Begin, Goto, Ends, generation, IInv, TypeOK, Memory, Label,
    Adding, Removing, Mapped
<1>1. ASSUME Stop PROVE TypeOK'
  <2>1. /\ ini' \in Listing /\ dirs' \subseteq Name /\ configs' \subseteq Name
        /\ mapping' \in Mapping /\ begun' \in 0..MaxRequests /\ faults' \in 0..MaxFaults
        /\ stage' \in [Generation -> {"idle", "archive", "run"}]
        /\ copies' \in [Generation -> SUBSET Name] /\ caught' \subseteq Name
    BY <1>1 DEF Stop
  <2>2. pc' \in [Thread -> Label] /\ req' \in [Thread -> Req]
        /\ mem' \in [Thread -> {None} \cup Listing \cup Mapping]
    BY <1>1 DEF Stop
  <2>3. \A s \in Thread : (pc[s] \in {"idle", "lock", "merge"})' = (mem[s] = None)'
    BY <1>1 DEF Stop
  <2>4. \A s \in Thread : (pc[s] \in Adding \ {"lock"})' = (lock = s)'
    BY <1>1 DEF Stop
  <2> QED BY <2>1, <2>2, <2>3, <2>4
<1>2. ASSUME NEW g \in Generation, Generate(g) PROVE TypeOK'
  <2>1. UNCHANGED <<ini, dirs, mapping, lock, pc, req, mem, begun, faults, caught>>
    BY <1>2, GenerateFacts
  <2>2. /\ stage' \in [Generation -> {"idle", "archive", "run"}]
        /\ copies' \in [Generation -> SUBSET Name] /\ configs' \subseteq Name
    BY <1>2, GenerateFacts
  <2> QED BY <2>1, <2>2
<1>3. ASSUME NEW t \in Thread, BeginAdd(t) PROVE TypeOK'
  BY <1>3 DEF BeginAdd, Req
<1>4. ASSUME NEW t \in Thread, Enter(t) PROVE TypeOK'
  <2>1. /\ ini' \in Listing /\ dirs' \subseteq Name /\ configs' \subseteq Name
        /\ mapping' \in Mapping /\ begun' \in 0..MaxRequests /\ faults' \in 0..MaxFaults
        /\ stage' \in [Generation -> {"idle", "archive", "run"}]
        /\ copies' \in [Generation -> SUBSET Name] /\ caught' \subseteq Name
    BY <1>4 DEF Enter
  <2>2. pc' \in [Thread -> Label] /\ req' \in [Thread -> Req]
        /\ mem' \in [Thread -> {None} \cup Listing \cup Mapping]
    BY <1>4, NewContents DEF Enter, Added
  <2>3. \A s \in Thread : (pc[s] \in {"idle", "lock", "merge"})' = (mem[s] = None)'
    BY <1>4, NewContents DEF Enter, Added
  <2>4. \A s \in Thread : (pc[s] \in Adding \ {"lock"})' = (lock = s)'
    BY <1>4 DEF Enter
  <2> QED BY <2>1, <2>2, <2>3, <2>4
<1>5. ASSUME NEW t \in Thread, Truncate(t) PROVE TypeOK'
  <2>1. /\ ini' \in Listing /\ dirs' \subseteq Name /\ configs' \subseteq Name
        /\ mapping' \in Mapping /\ begun' \in 0..MaxRequests /\ faults' \in 0..MaxFaults
        /\ stage' \in [Generation -> {"idle", "archive", "run"}]
        /\ copies' \in [Generation -> SUBSET Name] /\ caught' \subseteq Name
    BY <1>5 DEF Truncate
  <2>2. pc' \in [Thread -> Label] /\ req' \in [Thread -> Req]
        /\ mem' \in [Thread -> {None} \cup Listing \cup Mapping]
    BY <1>5 DEF Truncate
  <2>3. \A s \in Thread : (pc[s] \in {"idle", "lock", "merge"})' = (mem[s] = None)'
    BY <1>5 DEF Truncate
  <2>4. \A s \in Thread : (pc[s] \in Adding \ {"lock"})' = (lock = s)'
    BY <1>5 DEF Truncate
  <2> QED BY <2>1, <2>2, <2>3, <2>4
<1>6. ASSUME NEW t \in Thread, Fill(t) PROVE TypeOK'
  <2>1. /\ ini' \in Listing /\ dirs' \subseteq Name /\ configs' \subseteq Name
        /\ mapping' \in Mapping /\ begun' \in 0..MaxRequests /\ faults' \in 0..MaxFaults
        /\ stage' \in [Generation -> {"idle", "archive", "run"}]
        /\ copies' \in [Generation -> SUBSET Name] /\ caught' \subseteq Name
    BY <1>6 DEF Fill
  <2>2. pc' \in [Thread -> Label] /\ req' \in [Thread -> Req]
        /\ mem' \in [Thread -> {None} \cup Listing \cup Mapping]
    BY <1>6 DEF Fill
  <2>3. \A s \in Thread : (pc[s] \in {"idle", "lock", "merge"})' = (mem[s] = None)'
    BY <1>6 DEF Fill
  <2>4. \A s \in Thread : (pc[s] \in Adding \ {"lock"})' = (lock = s)'
    BY <1>6 DEF Fill
  <2> QED BY <2>1, <2>2, <2>3, <2>4
<1>7. ASSUME NEW t \in Thread, Scaffold(t) PROVE TypeOK'
  <2>1. /\ ini' \in Listing /\ dirs' \subseteq Name /\ configs' \subseteq Name
        /\ mapping' \in Mapping /\ begun' \in 0..MaxRequests /\ faults' \in 0..MaxFaults
        /\ stage' \in [Generation -> {"idle", "archive", "run"}]
        /\ copies' \in [Generation -> SUBSET Name] /\ caught' \subseteq Name
    BY <1>7 DEF Scaffold, Req
  <2>2. pc' \in [Thread -> Label] /\ req' \in [Thread -> Req]
        /\ mem' \in [Thread -> {None} \cup Listing \cup Mapping]
    BY <1>7 DEF Scaffold
  <2>3. \A s \in Thread : (pc[s] \in {"idle", "lock", "merge"})' = (mem[s] = None)'
    BY <1>7 DEF Scaffold
  <2>4. \A s \in Thread : (pc[s] \in Adding \ {"lock"})' = (lock = s)'
    BY <1>7 DEF Scaffold
  <2> QED BY <2>1, <2>2, <2>3, <2>4
<1>8. ASSUME NEW t \in Thread, ScaffoldFails(t) PROVE TypeOK'
  BY <1>8 DEF ScaffoldFails
<1>9. ASSUME NEW t \in Thread, BeginRemove(t) PROVE TypeOK'
  <2>0. Listed \subseteq Name
    BY DEF Listed, Listing
  <2>1. /\ ini' \in Listing /\ dirs' \subseteq Name /\ configs' \subseteq Name
        /\ mapping' \in Mapping /\ begun' \in 0..MaxRequests /\ faults' \in 0..MaxFaults
        /\ stage' \in [Generation -> {"idle", "archive", "run"}]
        /\ copies' \in [Generation -> SUBSET Name] /\ caught' \subseteq Name
    BY <1>9 DEF BeginRemove, Removed
  <2>2. pc' \in [Thread -> Label] /\ req' \in [Thread -> Req]
        /\ mem' \in [Thread -> {None} \cup Listing \cup Mapping]
    BY <1>9, NewContents, <2>0 DEF BeginRemove, Removed, Req
  <2>3. \A s \in Thread : (pc[s] \in {"idle", "lock", "merge"})' = (mem[s] = None)'
    BY <1>9, NewContents, <2>0 DEF BeginRemove, Removed, Req
  <2>4. \A s \in Thread : (pc[s] \in Adding \ {"lock"})' = (lock = s)'
    BY <1>9 DEF BeginRemove, Removed
  <2> QED BY <2>1, <2>2, <2>3, <2>4
<1>10. ASSUME NEW t \in Thread, Unlist(t) PROVE TypeOK'
  BY <1>10 DEF Unlist
<1>11. ASSUME NEW t \in Thread, Refill(t) PROVE TypeOK'
  <2>1. /\ ini' \in Listing /\ dirs' \subseteq Name /\ configs' \subseteq Name
        /\ mapping' \in Mapping /\ begun' \in 0..MaxRequests /\ faults' \in 0..MaxFaults
        /\ stage' \in [Generation -> {"idle", "archive", "run"}]
        /\ copies' \in [Generation -> SUBSET Name] /\ caught' \subseteq Name
    BY <1>11 DEF Refill
  <2>2. pc' \in [Thread -> Label] /\ req' \in [Thread -> Req]
        /\ mem' \in [Thread -> {None} \cup Listing \cup Mapping]
    BY <1>11 DEF Refill
  <2>3. \A s \in Thread : (pc[s] \in {"idle", "lock", "merge"})' = (mem[s] = None)'
    BY <1>11 DEF Refill
  <2>4. \A s \in Thread : (pc[s] \in Adding \ {"lock"})' = (lock = s)'
    BY <1>11 DEF Refill
  <2> QED BY <2>1, <2>2, <2>3, <2>4
<1>12. ASSUME NEW t \in Thread, Rmtree(t) PROVE TypeOK'
  BY <1>12 DEF Rmtree
<1>13. ASSUME NEW t \in Thread, RemoveConfigs(t) PROVE TypeOK'
  BY <1>13 DEF RemoveConfigs
<1>14. ASSUME NEW t \in Thread, BeginSaveIps(t) PROVE TypeOK'
  BY <1>14, NewContents DEF BeginSaveIps, Changed
<1>15. ASSUME NEW t \in Thread, BeginSaveMapping(t) PROVE TypeOK'
  <2>1. /\ ini' \in Listing /\ dirs' \subseteq Name /\ configs' \subseteq Name
        /\ mapping' \in Mapping /\ begun' \in 0..MaxRequests /\ faults' \in 0..MaxFaults
        /\ stage' \in [Generation -> {"idle", "archive", "run"}]
        /\ copies' \in [Generation -> SUBSET Name] /\ caught' \subseteq Name
    BY <1>15 DEF BeginSaveMapping, Changed
  <2>2. pc' \in [Thread -> Label] /\ req' \in [Thread -> Req]
        /\ mem' \in [Thread -> {None} \cup Listing \cup Mapping]
    BY <1>15, NewContents DEF BeginSaveMapping, Changed
  <2>3. \A s \in Thread : (pc[s] \in {"idle", "lock", "merge"})' = (mem[s] = None)'
    BY <1>15, NewContents DEF BeginSaveMapping, Changed
  <2>4. \A s \in Thread : (pc[s] \in Adding \ {"lock"})' = (lock = s)'
    BY <1>15 DEF BeginSaveMapping, Changed
  <2> QED BY <2>1, <2>2, <2>3, <2>4
<1>16. ASSUME NEW t \in Thread, BeginPopulate(t) PROVE TypeOK'
  <2>0. Listed \subseteq Name
    BY DEF Listed, Listing
  <2>1. /\ ini' \in Listing /\ dirs' \subseteq Name /\ configs' \subseteq Name
        /\ mapping' \in Mapping /\ begun' \in 0..MaxRequests /\ faults' \in 0..MaxFaults
        /\ stage' \in [Generation -> {"idle", "archive", "run"}]
        /\ copies' \in [Generation -> SUBSET Name] /\ caught' \subseteq Name
    BY <1>16 DEF BeginPopulate
  <2>2. pc' \in [Thread -> Label] /\ req' \in [Thread -> Req]
        /\ mem' \in [Thread -> {None} \cup Listing \cup Mapping]
    BY <1>16, <2>0 DEF BeginPopulate, Req
  <2>3. \A s \in Thread : (pc[s] \in {"idle", "lock", "merge"})' = (mem[s] = None)'
    BY <1>16, <2>0 DEF BeginPopulate, Req
  <2>4. \A s \in Thread : (pc[s] \in Adding \ {"lock"})' = (lock = s)'
    BY <1>16 DEF BeginPopulate
  <2> QED BY <2>1, <2>2, <2>3, <2>4
<1>17. ASSUME NEW t \in Thread, Merge(t) PROVE TypeOK'
  <2>0. Populated(mapping, req[t].names) \in Mapping
    BY NewContents DEF Changed, Req
  <2>1. /\ ini' \in Listing /\ dirs' \subseteq Name /\ configs' \subseteq Name
        /\ mapping' \in Mapping /\ begun' \in 0..MaxRequests /\ faults' \in 0..MaxFaults
        /\ stage' \in [Generation -> {"idle", "archive", "run"}]
        /\ copies' \in [Generation -> SUBSET Name] /\ caught' \subseteq Name
    BY <1>17 DEF Merge
  <2>2. pc' \in [Thread -> Label] /\ req' \in [Thread -> Req]
        /\ mem' \in [Thread -> {None} \cup Listing \cup Mapping]
    BY <1>17, <2>0 DEF Merge
  <2>3. \A s \in Thread : (pc[s] \in {"idle", "lock", "merge"})' = (mem[s] = None)'
    BY <1>17, <2>0 DEF Merge
  <2>4. \A s \in Thread : (pc[s] \in Adding \ {"lock"})' = (lock = s)'
    BY <1>17 DEF Merge
  <2> QED BY <2>1, <2>2, <2>3, <2>4
<1>18. ASSUME NEW t \in Thread, TruncateMap(t) PROVE TypeOK'
  <2>1. /\ ini' \in Listing /\ dirs' \subseteq Name /\ configs' \subseteq Name
        /\ mapping' \in Mapping /\ begun' \in 0..MaxRequests /\ faults' \in 0..MaxFaults
        /\ stage' \in [Generation -> {"idle", "archive", "run"}]
        /\ copies' \in [Generation -> SUBSET Name] /\ caught' \subseteq Name
    BY <1>18 DEF TruncateMap
  <2>2. pc' \in [Thread -> Label] /\ req' \in [Thread -> Req]
        /\ mem' \in [Thread -> {None} \cup Listing \cup Mapping]
    BY <1>18 DEF TruncateMap
  <2>3. \A s \in Thread : (pc[s] \in {"idle", "lock", "merge"})' = (mem[s] = None)'
    BY <1>18 DEF TruncateMap
  <2>4. \A s \in Thread : (pc[s] \in Adding \ {"lock"})' = (lock = s)'
    BY <1>18 DEF TruncateMap
  <2> QED BY <2>1, <2>2, <2>3, <2>4
<1>19. ASSUME NEW t \in Thread, FillMap(t) PROVE TypeOK'
  <2>1. /\ ini' \in Listing /\ dirs' \subseteq Name /\ configs' \subseteq Name
        /\ mapping' \in Mapping /\ begun' \in 0..MaxRequests /\ faults' \in 0..MaxFaults
        /\ stage' \in [Generation -> {"idle", "archive", "run"}]
        /\ copies' \in [Generation -> SUBSET Name] /\ caught' \subseteq Name
    BY <1>19 DEF FillMap
  <2>2. pc' \in [Thread -> Label] /\ req' \in [Thread -> Req]
        /\ mem' \in [Thread -> {None} \cup Listing \cup Mapping]
    BY <1>19 DEF FillMap
  <2>3. \A s \in Thread : (pc[s] \in {"idle", "lock", "merge"})' = (mem[s] = None)'
    BY <1>19 DEF FillMap
  <2>4. \A s \in Thread : (pc[s] \in Adding \ {"lock"})' = (lock = s)'
    BY <1>19 DEF FillMap
  <2> QED BY <2>1, <2>2, <2>3, <2>4
<1>20. ASSUME UNCHANGED vars PROVE TypeOK'
  BY <1>20 DEF vars
<1> QED
  BY <1>1, <1>2, <1>3, <1>4, <1>5, <1>6, <1>7, <1>8, <1>9, <1>10, <1>11, <1>12,
      <1>13, <1>14, <1>15, <1>16, <1>17, <1>18, <1>19, <1>20
  DEF Next, Add, Remove, Map

LEMMA MemoryStep ==
    IInv /\ [Next]_vars => Memory'
<1> SUFFICES ASSUME IInv, [Next]_vars PROVE Memory'
  OBVIOUS
<1> USE Types DEF Begin, Goto, Ends, generation, IInv, TypeOK, Memory, Adding, Removing
<1>1. ASSUME Stop PROVE Memory'
  BY <1>1 DEF Stop
<1>2. ASSUME NEW g \in Generation, Generate(g) PROVE Memory'
  BY <1>2, GenerateFacts
<1>3. ASSUME NEW t \in Thread, BeginAdd(t) PROVE Memory'
  BY <1>3 DEF BeginAdd
<1>4. ASSUME NEW t \in Thread, Enter(t) PROVE Memory'
  BY <1>4, NewContents DEF Enter, Added
<1>5. ASSUME NEW t \in Thread, Truncate(t) PROVE Memory'
  BY <1>5 DEF Truncate
<1>6. ASSUME NEW t \in Thread, Fill(t) PROVE Memory'
  BY <1>6 DEF Fill
<1>7. ASSUME NEW t \in Thread, Scaffold(t) PROVE Memory'
  BY <1>7 DEF Scaffold
<1>8. ASSUME NEW t \in Thread, ScaffoldFails(t) PROVE Memory'
  BY <1>8 DEF ScaffoldFails
<1>9. ASSUME NEW t \in Thread, BeginRemove(t) PROVE Memory'
  <2>1. Listed \subseteq Name
    BY DEF Listed, Listing
  <2> QED BY <1>9, <2>1, NewContents DEF BeginRemove, Removed
<1>10. ASSUME NEW t \in Thread, Unlist(t) PROVE Memory'
  BY <1>10 DEF Unlist
<1>11. ASSUME NEW t \in Thread, Refill(t) PROVE Memory'
  BY <1>11 DEF Refill
<1>12. ASSUME NEW t \in Thread, Rmtree(t) PROVE Memory'
  BY <1>12 DEF Rmtree
<1>13. ASSUME NEW t \in Thread, RemoveConfigs(t) PROVE Memory'
  BY <1>13 DEF RemoveConfigs
<1>14. ASSUME NEW t \in Thread, BeginSaveIps(t) PROVE Memory'
  BY <1>14, NewContents DEF BeginSaveIps, Changed
<1>15. ASSUME NEW t \in Thread, BeginSaveMapping(t) PROVE Memory'
  BY <1>15, NewContents DEF BeginSaveMapping, Changed
<1>16. ASSUME NEW t \in Thread, BeginPopulate(t) PROVE Memory'
  BY <1>16 DEF BeginPopulate
<1>17. ASSUME NEW t \in Thread, Merge(t) PROVE Memory'
  <2>1. Populated(mapping, req[t].names) \in Mapping
    BY NewContents DEF Changed, Req
  <2> QED BY <1>17, <2>1 DEF Merge
<1>18. ASSUME NEW t \in Thread, TruncateMap(t) PROVE Memory'
  BY <1>18 DEF TruncateMap
<1>19. ASSUME NEW t \in Thread, FillMap(t) PROVE Memory'
  BY <1>19 DEF FillMap
<1>20. ASSUME UNCHANGED vars PROVE Memory'
  BY <1>20 DEF vars
<1> QED
  BY <1>1, <1>2, <1>3, <1>4, <1>5, <1>6, <1>7, <1>8, <1>9, <1>10, <1>11, <1>12,
      <1>13, <1>14, <1>15, <1>16, <1>17, <1>18, <1>19, <1>20
  DEF Next, Add, Remove, Map

LEMMA RemoveAloneStep ==
    Quiet /\ IInv /\ QInv /\ [Next]_vars => RemoveAlone'
<1> SUFFICES ASSUME Quiet, IInv, QInv, [Next]_vars PROVE RemoveAlone'
  OBVIOUS
<1> USE Types DEF Begin, Goto, Ends, generation, IInv, TypeOK, QInv, RemoveAlone, At, Adding,
    Removing, Mapped
<1>1. ASSUME Stop PROVE RemoveAlone'
  BY <1>1 DEF Stop
<1>2. ASSUME NEW g \in Generation, Generate(g) PROVE RemoveAlone'
  BY <1>2, GenerateFacts
<1>3. ASSUME NEW t \in Thread, BeginAdd(t) PROVE RemoveAlone'
  BY <1>3 DEF BeginAdd
<1>4. ASSUME NEW t \in Thread, Enter(t) PROVE RemoveAlone'
  BY <1>4 DEF Enter
<1>5. ASSUME NEW t \in Thread, Truncate(t) PROVE RemoveAlone'
  BY <1>5 DEF Truncate
<1>6. ASSUME NEW t \in Thread, Fill(t) PROVE RemoveAlone'
  BY <1>6 DEF Fill
<1>7. ASSUME NEW t \in Thread, Scaffold(t) PROVE RemoveAlone'
  BY <1>7 DEF Scaffold
<1>8. ASSUME NEW t \in Thread, ScaffoldFails(t) PROVE RemoveAlone'
  BY <1>8 DEF ScaffoldFails
<1>9. ASSUME NEW t \in Thread, BeginRemove(t) PROVE RemoveAlone'
  BY <1>9 DEF BeginRemove
<1>10. ASSUME NEW t \in Thread, Unlist(t) PROVE RemoveAlone'
  BY <1>10 DEF Unlist
<1>11. ASSUME NEW t \in Thread, Refill(t) PROVE RemoveAlone'
  BY <1>11 DEF Refill
<1>12. ASSUME NEW t \in Thread, Rmtree(t) PROVE RemoveAlone'
  BY <1>12 DEF Rmtree
<1>13. ASSUME NEW t \in Thread, RemoveConfigs(t) PROVE RemoveAlone'
  BY <1>13 DEF RemoveConfigs
<1>14. ASSUME NEW t \in Thread, BeginSaveIps(t) PROVE RemoveAlone'
  BY <1>14 DEF BeginSaveIps
<1>15. ASSUME NEW t \in Thread, BeginSaveMapping(t) PROVE RemoveAlone'
  BY <1>15 DEF BeginSaveMapping
<1>16. ASSUME NEW t \in Thread, BeginPopulate(t) PROVE RemoveAlone'
  BY <1>16 DEF BeginPopulate
<1>17. ASSUME NEW t \in Thread, Merge(t) PROVE RemoveAlone'
  BY <1>17 DEF Merge
<1>18. ASSUME NEW t \in Thread, TruncateMap(t) PROVE RemoveAlone'
  BY <1>18 DEF TruncateMap
<1>19. ASSUME NEW t \in Thread, FillMap(t) PROVE RemoveAlone'
  BY <1>19 DEF FillMap
<1>20. ASSUME UNCHANGED vars PROVE RemoveAlone'
  BY <1>20 DEF vars
<1> QED
  BY <1>1, <1>2, <1>3, <1>4, <1>5, <1>6, <1>7, <1>8, <1>9, <1>10, <1>11, <1>12,
      <1>13, <1>14, <1>15, <1>16, <1>17, <1>18, <1>19, <1>20
  DEF Next, Add, Remove, Map

LEMMA MapAloneStep ==
    Quiet /\ IInv /\ QInv /\ [Next]_vars => MapAlone'
<1> SUFFICES ASSUME Quiet, IInv, QInv, [Next]_vars PROVE MapAlone'
  OBVIOUS
<1> USE Types DEF Begin, Goto, Ends, generation, IInv, TypeOK, QInv, MapAlone, At, QuietMap,
    Mapped, Adding, Removing
<1>1. ASSUME Stop PROVE MapAlone'
  BY <1>1 DEF Stop
<1>2. ASSUME NEW g \in Generation, Generate(g) PROVE MapAlone'
  BY <1>2, GenerateFacts
<1>3. ASSUME NEW t \in Thread, BeginAdd(t) PROVE MapAlone'
  BY <1>3 DEF BeginAdd
<1>4. ASSUME NEW t \in Thread, Enter(t) PROVE MapAlone'
  BY <1>4 DEF Enter
<1>5. ASSUME NEW t \in Thread, Truncate(t) PROVE MapAlone'
  BY <1>5 DEF Truncate
<1>6. ASSUME NEW t \in Thread, Fill(t) PROVE MapAlone'
  BY <1>6 DEF Fill
<1>7. ASSUME NEW t \in Thread, Scaffold(t) PROVE MapAlone'
  BY <1>7 DEF Scaffold
<1>8. ASSUME NEW t \in Thread, ScaffoldFails(t) PROVE MapAlone'
  BY <1>8 DEF ScaffoldFails
<1>9. ASSUME NEW t \in Thread, BeginRemove(t) PROVE MapAlone'
  BY <1>9 DEF BeginRemove
<1>10. ASSUME NEW t \in Thread, Unlist(t) PROVE MapAlone'
  BY <1>10 DEF Unlist
<1>11. ASSUME NEW t \in Thread, Refill(t) PROVE MapAlone'
  BY <1>11 DEF Refill
<1>12. ASSUME NEW t \in Thread, Rmtree(t) PROVE MapAlone'
  BY <1>12 DEF Rmtree
<1>13. ASSUME NEW t \in Thread, RemoveConfigs(t) PROVE MapAlone'
  BY <1>13 DEF RemoveConfigs
<1>14. ASSUME NEW t \in Thread, BeginSaveIps(t) PROVE MapAlone'
  BY <1>14 DEF BeginSaveIps
<1>15. ASSUME NEW t \in Thread, BeginSaveMapping(t) PROVE MapAlone'
  BY <1>15 DEF BeginSaveMapping
<1>16. ASSUME NEW t \in Thread, BeginPopulate(t) PROVE MapAlone'
  BY <1>16 DEF BeginPopulate
<1>17. ASSUME NEW t \in Thread, Merge(t) PROVE MapAlone'
  BY <1>17 DEF Merge
<1>18. ASSUME NEW t \in Thread, TruncateMap(t) PROVE MapAlone'
  BY <1>18 DEF TruncateMap
<1>19. ASSUME NEW t \in Thread, FillMap(t) PROVE MapAlone'
  BY <1>19 DEF FillMap
<1>20. ASSUME UNCHANGED vars PROVE MapAlone'
  BY <1>20 DEF vars
<1> QED
  BY <1>1, <1>2, <1>3, <1>4, <1>5, <1>6, <1>7, <1>8, <1>9, <1>10, <1>11, <1>12,
      <1>13, <1>14, <1>15, <1>16, <1>17, <1>18, <1>19, <1>20
  DEF Next, Add, Remove, Map

LEMMA EmptiedStep ==
    Quiet /\ IInv /\ QInv /\ [Next]_vars => Emptied'
<1> SUFFICES ASSUME Quiet, IInv, QInv, [Next]_vars PROVE Emptied'
  OBVIOUS
<1> USE Types DEF Begin, Goto, Ends, generation, IInv, TypeOK, QInv, RemoveAlone, MapAlone,
    Emptied, Writing, Adding, Removing, Mapped
<1>1. ASSUME Stop PROVE Emptied'
  BY <1>1 DEF Stop
<1>2. ASSUME NEW g \in Generation, Generate(g) PROVE Emptied'
  BY <1>2, GenerateFacts
<1>3. ASSUME NEW t \in Thread, BeginAdd(t) PROVE Emptied'
  BY <1>3 DEF BeginAdd
<1>4. ASSUME NEW t \in Thread, Enter(t) PROVE Emptied'
  BY <1>4 DEF Enter
<1>5. ASSUME NEW t \in Thread, Truncate(t) PROVE Emptied'
  BY <1>5 DEF Truncate
<1>6. ASSUME NEW t \in Thread, Fill(t) PROVE Emptied'
  BY <1>6 DEF Fill
<1>7. ASSUME NEW t \in Thread, Scaffold(t) PROVE Emptied'
  BY <1>7 DEF Scaffold
<1>8. ASSUME NEW t \in Thread, ScaffoldFails(t) PROVE Emptied'
  BY <1>8 DEF ScaffoldFails
<1>9. ASSUME NEW t \in Thread, BeginRemove(t) PROVE Emptied'
  BY <1>9 DEF BeginRemove
<1>10. ASSUME NEW t \in Thread, Unlist(t) PROVE Emptied'
  BY <1>10 DEF Unlist
<1>11. ASSUME NEW t \in Thread, Refill(t) PROVE Emptied'
  BY <1>11 DEF Refill
<1>12. ASSUME NEW t \in Thread, Rmtree(t) PROVE Emptied'
  BY <1>12 DEF Rmtree
<1>13. ASSUME NEW t \in Thread, RemoveConfigs(t) PROVE Emptied'
  BY <1>13 DEF RemoveConfigs
<1>14. ASSUME NEW t \in Thread, BeginSaveIps(t) PROVE Emptied'
  BY <1>14 DEF BeginSaveIps
<1>15. ASSUME NEW t \in Thread, BeginSaveMapping(t) PROVE Emptied'
  BY <1>15 DEF BeginSaveMapping
<1>16. ASSUME NEW t \in Thread, BeginPopulate(t) PROVE Emptied'
  BY <1>16 DEF BeginPopulate
<1>17. ASSUME NEW t \in Thread, Merge(t) PROVE Emptied'
  BY <1>17 DEF Merge
<1>18. ASSUME NEW t \in Thread, TruncateMap(t) PROVE Emptied'
  BY <1>18 DEF TruncateMap
<1>19. ASSUME NEW t \in Thread, FillMap(t) PROVE Emptied'
  BY <1>19 DEF FillMap
<1>20. ASSUME UNCHANGED vars PROVE Emptied'
  BY <1>20 DEF vars
<1> QED
  BY <1>1, <1>2, <1>3, <1>4, <1>5, <1>6, <1>7, <1>8, <1>9, <1>10, <1>11, <1>12,
      <1>13, <1>14, <1>15, <1>16, <1>17, <1>18, <1>19, <1>20
  DEF Next, Add, Remove, Map

LEMMA ApartStep ==
    Quiet /\ IInv /\ QInv /\ [Next]_vars => Apart'
<1> SUFFICES ASSUME Quiet, IInv, QInv, [Next]_vars PROVE Apart'
  OBVIOUS
<1> USE Types DEF Begin, Goto, Ends, generation, IInv, TypeOK, QInv, Apart, Differ, At, NewNames,
    Adding, Removing
<1>1. ASSUME Stop PROVE Apart'
  BY <1>1 DEF Stop
<1>2. ASSUME NEW g \in Generation, Generate(g) PROVE Apart'
  BY <1>2, GenerateFacts
<1>3. ASSUME NEW t \in Thread, BeginAdd(t) PROVE Apart'
  BY <1>3 DEF BeginAdd
<1>4. ASSUME NEW t \in Thread, Enter(t) PROVE Apart'
  BY <1>4 DEF Enter
<1>5. ASSUME NEW t \in Thread, Truncate(t) PROVE Apart'
  BY <1>5 DEF Truncate
<1>6. ASSUME NEW t \in Thread, Fill(t) PROVE Apart'
  BY <1>6 DEF Fill
<1>7. ASSUME NEW t \in Thread, Scaffold(t) PROVE Apart'
  BY <1>7 DEF Scaffold
<1>8. ASSUME NEW t \in Thread, ScaffoldFails(t) PROVE Apart'
  BY <1>8 DEF ScaffoldFails
<1>9. ASSUME NEW t \in Thread, BeginRemove(t) PROVE Apart'
  BY <1>9 DEF BeginRemove
<1>10. ASSUME NEW t \in Thread, Unlist(t) PROVE Apart'
  BY <1>10 DEF Unlist
<1>11. ASSUME NEW t \in Thread, Refill(t) PROVE Apart'
  BY <1>11 DEF Refill
<1>12. ASSUME NEW t \in Thread, Rmtree(t) PROVE Apart'
  BY <1>12 DEF Rmtree
<1>13. ASSUME NEW t \in Thread, RemoveConfigs(t) PROVE Apart'
  BY <1>13 DEF RemoveConfigs
<1>14. ASSUME NEW t \in Thread, BeginSaveIps(t) PROVE Apart'
  BY <1>14 DEF BeginSaveIps
<1>15. ASSUME NEW t \in Thread, BeginSaveMapping(t) PROVE Apart'
  BY <1>15 DEF BeginSaveMapping
<1>16. ASSUME NEW t \in Thread, BeginPopulate(t) PROVE Apart'
  BY <1>16 DEF BeginPopulate
<1>17. ASSUME NEW t \in Thread, Merge(t) PROVE Apart'
  BY <1>17 DEF Merge
<1>18. ASSUME NEW t \in Thread, TruncateMap(t) PROVE Apart'
  BY <1>18 DEF TruncateMap
<1>19. ASSUME NEW t \in Thread, FillMap(t) PROVE Apart'
  BY <1>19 DEF FillMap
<1>20. ASSUME UNCHANGED vars PROVE Apart'
  BY <1>20 DEF vars
<1> QED
  BY <1>1, <1>2, <1>3, <1>4, <1>5, <1>6, <1>7, <1>8, <1>9, <1>10, <1>11, <1>12,
      <1>13, <1>14, <1>15, <1>16, <1>17, <1>18, <1>19, <1>20
  DEF Next, Add, Remove, Map

LEMMA FreshStep ==
    Quiet /\ IInv /\ QInv /\ [Next]_vars => Fresh'
<1> SUFFICES ASSUME Quiet, IInv, QInv, [Next]_vars PROVE Fresh'
  OBVIOUS
<1> USE Types DEF Begin, Goto, Ends, generation, IInv, TypeOK, QInv, RemoveAlone, Fresh, Apart,
    Differ, Adding, Removing
<1>1. ASSUME Stop PROVE Fresh'
  BY <1>1 DEF Stop
<1>2. ASSUME NEW g \in Generation, Generate(g) PROVE Fresh'
  <2>1. UNCHANGED <<ini, pc, req, mem>>
    BY <1>2, GenerateFacts
  <2> QED BY <2>1
<1>3. ASSUME NEW t \in Thread, BeginAdd(t) PROVE Fresh'
  <2>1. PICK g \in Group, names \in SUBSET Name :
           /\ NewNames(names) /\ Begin(t, "lock", [group |-> g, names |-> names])
           /\ At(Removing \cup Writing) = {} /\ UNCHANGED mem
    BY <1>3 DEF BeginAdd
  <2>2. Differ(names, In(ini))
    BY <2>1 DEF NewNames, Differ, Listed, In
  <2>3. \A s \in Thread : pc[s] # "fill"
    BY <2>1 DEF At, Writing
  <2> QED BY <2>1, <2>2, <2>3
<1>4. ASSUME NEW t \in Thread, Enter(t) PROVE Fresh'
  BY <1>4 DEF Enter
<1>5. ASSUME NEW t \in Thread, Truncate(t) PROVE Fresh'
  <2>1. In(mem[t]) = In(ini) \cup req[t].names
    BY <1>5, InFacts DEF Truncate, Memory, Current
  <2>2. In(ini') = {}
    BY <1>5, InFacts DEF Truncate
  <2>3. \A s \in Thread : pc[s] = "lock" => Differ(req[s].names, In(mem[t]))
    BY <1>5, <2>1 DEF Truncate
  <2> QED BY <1>5, <2>2, <2>3 DEF Truncate
<1>6. ASSUME NEW t \in Thread, Fill(t) PROVE Fresh'
  BY <1>6 DEF Fill
<1>7. ASSUME NEW t \in Thread, Scaffold(t) PROVE Fresh'
  BY <1>7 DEF Scaffold
<1>8. ASSUME NEW t \in Thread, ScaffoldFails(t) PROVE Fresh'
  BY <1>8 DEF ScaffoldFails
<1>9. ASSUME NEW t \in Thread, BeginRemove(t) PROVE Fresh'
  BY <1>9 DEF BeginRemove
<1>10. ASSUME NEW t \in Thread, Unlist(t) PROVE Fresh'
  BY <1>10 DEF Unlist
<1>11. ASSUME NEW t \in Thread, Refill(t) PROVE Fresh'
  BY <1>11 DEF Refill
<1>12. ASSUME NEW t \in Thread, Rmtree(t) PROVE Fresh'
  BY <1>12 DEF Rmtree
<1>13. ASSUME NEW t \in Thread, RemoveConfigs(t) PROVE Fresh'
  BY <1>13 DEF RemoveConfigs
<1>14. ASSUME NEW t \in Thread, BeginSaveIps(t) PROVE Fresh'
  BY <1>14 DEF BeginSaveIps
<1>15. ASSUME NEW t \in Thread, BeginSaveMapping(t) PROVE Fresh'
  BY <1>15 DEF BeginSaveMapping
<1>16. ASSUME NEW t \in Thread, BeginPopulate(t) PROVE Fresh'
  BY <1>16 DEF BeginPopulate
<1>17. ASSUME NEW t \in Thread, Merge(t) PROVE Fresh'
  BY <1>17 DEF Merge
<1>18. ASSUME NEW t \in Thread, TruncateMap(t) PROVE Fresh'
  BY <1>18 DEF TruncateMap
<1>19. ASSUME NEW t \in Thread, FillMap(t) PROVE Fresh'
  BY <1>19 DEF FillMap
<1>20. ASSUME UNCHANGED vars PROVE Fresh'
  BY <1>20 DEF vars
<1> QED
  BY <1>1, <1>2, <1>3, <1>4, <1>5, <1>6, <1>7, <1>8, <1>9, <1>10, <1>11, <1>12,
      <1>13, <1>14, <1>15, <1>16, <1>17, <1>18, <1>19, <1>20
  DEF Next, Add, Remove, Map

LEMMA CurrentStep ==
    Quiet /\ IInv /\ QInv /\ [Next]_vars => Current'
<1> SUFFICES ASSUME Quiet, IInv, QInv, [Next]_vars PROVE Current'
  OBVIOUS
<1> USE Types DEF Begin, Goto, Ends, generation, IInv, TypeOK, QInv, RemoveAlone, Current,
    Adding, Removing
<1>1. ASSUME Stop PROVE Current'
  BY <1>1 DEF Stop
<1>2. ASSUME NEW g \in Generation, Generate(g) PROVE Current'
  BY <1>2, GenerateFacts
<1>3. ASSUME NEW t \in Thread, BeginAdd(t) PROVE Current'
  BY <1>3 DEF BeginAdd
<1>4. ASSUME NEW t \in Thread, Enter(t) PROVE Current'
  <2>1. mem'[t] = Added(ini, req[t])
    BY <1>4 DEF Enter, Added
  <2> QED BY <1>4, <2>1 DEF Enter
<1>5. ASSUME NEW t \in Thread, Truncate(t) PROVE Current'
  BY <1>5 DEF Truncate
<1>6. ASSUME NEW t \in Thread, Fill(t) PROVE Current'
  BY <1>6 DEF Fill
<1>7. ASSUME NEW t \in Thread, Scaffold(t) PROVE Current'
  BY <1>7 DEF Scaffold
<1>8. ASSUME NEW t \in Thread, ScaffoldFails(t) PROVE Current'
  BY <1>8 DEF ScaffoldFails
<1>9. ASSUME NEW t \in Thread, BeginRemove(t) PROVE Current'
  <2>1. PICK n \in Listed : /\ mem' = [mem EXCEPT ![t] = Removed(ini, n)]
                           /\ Begin(t, "unlist", [group |-> None, names |-> {n}])
    BY <1>9 DEF BeginRemove, Removed
  <2>2. n \in Name
    BY <2>1 DEF Listed, Listing
  <2> QED BY <2>1, <2>2
<1>10. ASSUME NEW t \in Thread, Unlist(t) PROVE Current'
  BY <1>10 DEF Unlist
<1>11. ASSUME NEW t \in Thread, Refill(t) PROVE Current'
  BY <1>11 DEF Refill
<1>12. ASSUME NEW t \in Thread, Rmtree(t) PROVE Current'
  BY <1>12 DEF Rmtree
<1>13. ASSUME NEW t \in Thread, RemoveConfigs(t) PROVE Current'
  BY <1>13 DEF RemoveConfigs
<1>14. ASSUME NEW t \in Thread, BeginSaveIps(t) PROVE Current'
  BY <1>14 DEF BeginSaveIps
<1>15. ASSUME NEW t \in Thread, BeginSaveMapping(t) PROVE Current'
  BY <1>15 DEF BeginSaveMapping
<1>16. ASSUME NEW t \in Thread, BeginPopulate(t) PROVE Current'
  BY <1>16 DEF BeginPopulate
<1>17. ASSUME NEW t \in Thread, Merge(t) PROVE Current'
  BY <1>17 DEF Merge
<1>18. ASSUME NEW t \in Thread, TruncateMap(t) PROVE Current'
  BY <1>18 DEF TruncateMap
<1>19. ASSUME NEW t \in Thread, FillMap(t) PROVE Current'
  BY <1>19 DEF FillMap
<1>20. ASSUME UNCHANGED vars PROVE Current'
  BY <1>20 DEF vars
<1> QED
  BY <1>1, <1>2, <1>3, <1>4, <1>5, <1>6, <1>7, <1>8, <1>9, <1>10, <1>11, <1>12,
      <1>13, <1>14, <1>15, <1>16, <1>17, <1>18, <1>19, <1>20
  DEF Next, Add, Remove, Map

LEMMA CurrentMapStep ==
    Quiet /\ IInv /\ QInv /\ [Next]_vars => CurrentMap'
<1> SUFFICES ASSUME Quiet, IInv, QInv, [Next]_vars PROVE CurrentMap'
  OBVIOUS
<1> USE Types DEF Begin, Goto, Ends, generation, IInv, TypeOK, QInv, MapAlone, CurrentMap, Mapped
<1>1. ASSUME Stop PROVE CurrentMap'
  BY <1>1 DEF Stop
<1>2. ASSUME NEW g \in Generation, Generate(g) PROVE CurrentMap'
  BY <1>2, GenerateFacts
<1>3. ASSUME NEW t \in Thread, BeginAdd(t) PROVE CurrentMap'
  BY <1>3 DEF BeginAdd
<1>4. ASSUME NEW t \in Thread, Enter(t) PROVE CurrentMap'
  BY <1>4 DEF Enter
<1>5. ASSUME NEW t \in Thread, Truncate(t) PROVE CurrentMap'
  BY <1>5 DEF Truncate
<1>6. ASSUME NEW t \in Thread, Fill(t) PROVE CurrentMap'
  BY <1>6 DEF Fill
<1>7. ASSUME NEW t \in Thread, Scaffold(t) PROVE CurrentMap'
  BY <1>7 DEF Scaffold
<1>8. ASSUME NEW t \in Thread, ScaffoldFails(t) PROVE CurrentMap'
  BY <1>8 DEF ScaffoldFails
<1>9. ASSUME NEW t \in Thread, BeginRemove(t) PROVE CurrentMap'
  BY <1>9 DEF BeginRemove
<1>10. ASSUME NEW t \in Thread, Unlist(t) PROVE CurrentMap'
  BY <1>10 DEF Unlist
<1>11. ASSUME NEW t \in Thread, Refill(t) PROVE CurrentMap'
  BY <1>11 DEF Refill
<1>12. ASSUME NEW t \in Thread, Rmtree(t) PROVE CurrentMap'
  BY <1>12 DEF Rmtree
<1>13. ASSUME NEW t \in Thread, RemoveConfigs(t) PROVE CurrentMap'
  BY <1>13 DEF RemoveConfigs
<1>14. ASSUME NEW t \in Thread, BeginSaveIps(t) PROVE CurrentMap'
  <2>1. mem'[t] \in Changed(mapping) /\ mapping' = mapping
    BY <1>14 DEF BeginSaveIps, Changed
  <2> QED BY <1>14, <2>1 DEF BeginSaveIps
<1>15. ASSUME NEW t \in Thread, BeginSaveMapping(t) PROVE CurrentMap'
  <2>1. mem'[t] \in Changed(mapping) /\ mapping' = mapping
    BY <1>15 DEF BeginSaveMapping, Changed
  <2> QED BY <1>15, <2>1 DEF BeginSaveMapping
<1>16. ASSUME NEW t \in Thread, BeginPopulate(t) PROVE CurrentMap'
  BY <1>16 DEF BeginPopulate
<1>17. ASSUME NEW t \in Thread, Merge(t) PROVE CurrentMap'
  <2>1. mem'[t] \in Changed(mapping) /\ mapping' = mapping
    BY <1>17 DEF Merge, Changed, Req
  <2> QED BY <1>17, <2>1 DEF Merge
<1>18. ASSUME NEW t \in Thread, TruncateMap(t) PROVE CurrentMap'
  BY <1>18 DEF TruncateMap
<1>19. ASSUME NEW t \in Thread, FillMap(t) PROVE CurrentMap'
  BY <1>19 DEF FillMap
<1>20. ASSUME UNCHANGED vars PROVE CurrentMap'
  BY <1>20 DEF vars
<1> QED
  BY <1>1, <1>2, <1>3, <1>4, <1>5, <1>6, <1>7, <1>8, <1>9, <1>10, <1>11, <1>12,
      <1>13, <1>14, <1>15, <1>16, <1>17, <1>18, <1>19, <1>20
  DEF Next, Add, Remove, Map

LEMMA AllDistinctStep ==
    Quiet /\ IInv /\ QInv /\ [Next]_vars => AllDistinct'
<1> SUFFICES ASSUME Quiet, IInv, QInv, [Next]_vars PROVE AllDistinct'
  OBVIOUS
<1> USE Types DEF Begin, Goto, Ends, generation, IInv, TypeOK, QInv, RemoveAlone, AllDistinct,
    Current, Writing, Adding, Removing
<1>1. ASSUME Stop PROVE AllDistinct'
  BY <1>1 DEF Stop
<1>2. ASSUME NEW g \in Generation, Generate(g) PROVE AllDistinct'
  BY <1>2, GenerateFacts
<1>3. ASSUME NEW t \in Thread, BeginAdd(t) PROVE AllDistinct'
  BY <1>3 DEF BeginAdd
<1>4. ASSUME NEW t \in Thread, Enter(t) PROVE AllDistinct'
  <2>1. UNCHANGED ini /\ \A s \in Thread : pc'[s] \in Writing => pc[s] \in Writing /\ mem'[s] = mem[s]
    BY <1>4 DEF Enter
  <2> QED BY <2>1
<1>5. ASSUME NEW t \in Thread, Truncate(t) PROVE AllDistinct'
  <2>1. Distinct(mem[t])
    BY <1>5, DistinctFacts DEF Truncate, Memory, Apart, Fresh
  <2> QED BY <1>5, <2>1, DistinctFacts DEF Truncate
<1>6. ASSUME NEW t \in Thread, Fill(t) PROVE AllDistinct'
  BY <1>6 DEF Fill
<1>7. ASSUME NEW t \in Thread, Scaffold(t) PROVE AllDistinct'
  BY <1>7 DEF Scaffold
<1>8. ASSUME NEW t \in Thread, ScaffoldFails(t) PROVE AllDistinct'
  BY <1>8 DEF ScaffoldFails
<1>9. ASSUME NEW t \in Thread, BeginRemove(t) PROVE AllDistinct'
  <2>1. UNCHANGED ini /\ \A s \in Thread : pc'[s] \in Writing => pc[s] \in Writing /\ mem'[s] = mem[s]
    BY <1>9 DEF BeginRemove
  <2> QED BY <2>1
<1>10. ASSUME NEW t \in Thread, Unlist(t) PROVE AllDistinct'
  <2>1. Distinct(mem[t])
    BY <1>10, DistinctFacts DEF Unlist
  <2> QED BY <1>10, <2>1, DistinctFacts DEF Unlist
<1>11. ASSUME NEW t \in Thread, Refill(t) PROVE AllDistinct'
  BY <1>11 DEF Refill
<1>12. ASSUME NEW t \in Thread, Rmtree(t) PROVE AllDistinct'
  BY <1>12 DEF Rmtree
<1>13. ASSUME NEW t \in Thread, RemoveConfigs(t) PROVE AllDistinct'
  BY <1>13 DEF RemoveConfigs
<1>14. ASSUME NEW t \in Thread, BeginSaveIps(t) PROVE AllDistinct'
  BY <1>14 DEF BeginSaveIps
<1>15. ASSUME NEW t \in Thread, BeginSaveMapping(t) PROVE AllDistinct'
  BY <1>15 DEF BeginSaveMapping
<1>16. ASSUME NEW t \in Thread, BeginPopulate(t) PROVE AllDistinct'
  BY <1>16 DEF BeginPopulate
<1>17. ASSUME NEW t \in Thread, Merge(t) PROVE AllDistinct'
  BY <1>17 DEF Merge
<1>18. ASSUME NEW t \in Thread, TruncateMap(t) PROVE AllDistinct'
  BY <1>18 DEF TruncateMap
<1>19. ASSUME NEW t \in Thread, FillMap(t) PROVE AllDistinct'
  BY <1>19 DEF FillMap
<1>20. ASSUME UNCHANGED vars PROVE AllDistinct'
  BY <1>20 DEF vars
<1> QED
  BY <1>1, <1>2, <1>3, <1>4, <1>5, <1>6, <1>7, <1>8, <1>9, <1>10, <1>11, <1>12,
      <1>13, <1>14, <1>15, <1>16, <1>17, <1>18, <1>19, <1>20
  DEF Next, Add, Remove, Map

LEMMA FollowedStep ==
    Quiet /\ IInv /\ QInv /\ [Next]_vars => Followed'
<1> SUFFICES ASSUME Quiet, IInv, QInv, [Next]_vars PROVE Followed'
  OBVIOUS
<1> USE Types, HeldSame DEF Begin, Goto, Ends, generation, IInv, TypeOK, QInv, RemoveAlone,
    Followed, Behind, Adding, Removing, Unsettled, At
<1>1. ASSUME Stop PROVE Followed'
  <2>1. faults' # 0
    BY <1>1, BoundAssumption DEF Stop
  <2> QED BY <2>1
<1>2. ASSUME NEW g \in Generation, Generate(g) PROVE Followed'
  <2>1. UNCHANGED <<ini, dirs, pc, req, mem, faults, caught>>
    BY <1>2, GenerateFacts
  <2>2. Held' \subseteq Held \cup In(ini)
    BY <1>2, GenerateFacts
  <2>3. (\E t \in Thread : pc[t] \in Writing) => In(ini) = {}
    BY InFacts DEF Emptied
  <2> QED BY <2>1, <2>2, <2>3 DEF Writing
<1>3. ASSUME NEW t \in Thread, BeginAdd(t) PROVE Followed'
  BY <1>3 DEF BeginAdd
<1>4. ASSUME NEW t \in Thread, Enter(t) PROVE Followed'
  BY <1>4 DEF Enter
<1>5. ASSUME NEW t \in Thread, Truncate(t) PROVE Followed'
  <2>1. \A s \in Thread : pc[s] \notin Unsettled
    BY <1>5 DEF Truncate
  <2>2. In(mem[t]) = In(ini) \cup req[t].names
    BY <1>5, InFacts DEF Truncate, Memory, Current
  <2> QED BY <1>5, <2>1, <2>2 DEF Truncate
<1>6. ASSUME NEW t \in Thread, Fill(t) PROVE Followed'
  BY <1>6 DEF Fill
<1>7. ASSUME NEW t \in Thread, Scaffold(t) PROVE Followed'
  BY <1>7 DEF Scaffold
<1>8. ASSUME NEW t \in Thread, ScaffoldFails(t) PROVE Followed'
  BY <1>8 DEF ScaffoldFails
<1>9. ASSUME NEW t \in Thread, BeginRemove(t) PROVE Followed'
  <2>1. UNCHANGED <<ini, dirs, configs, faults, generation>>
    BY <1>9 DEF BeginRemove
  <2>2. \A s \in Thread : pc'[s] \in Unsettled => pc'[s] = pc[s] /\ mem'[s] = mem[s] /\ req'[s] = req[s]
    BY <1>9 DEF BeginRemove
  <2>3. \A s \in Thread : pc[s] \in Unsettled => pc'[s] = pc[s]
    BY <1>9 DEF BeginRemove
  <2> QED BY <2>1, <2>2, <2>3
<1>10. ASSUME NEW t \in Thread, Unlist(t) PROVE Followed'
  <2>1. \A s \in Thread : pc[s] \notin Unsettled
    BY <1>10 DEF Unlist
  <2>2. In(mem[t]) = In(ini) \ req[t].names
    <3>1. PICK n \in Name : req[t].names = {n}
      BY <1>10 DEF Unlist, Current
    <3> QED BY <1>10, <3>1, InFacts DEF Unlist, Current
  <2> QED BY <1>10, <2>1, <2>2 DEF Unlist
<1>11. ASSUME NEW t \in Thread, Refill(t) PROVE Followed'
  BY <1>11 DEF Refill
<1>12. ASSUME NEW t \in Thread, Rmtree(t) PROVE Followed'
  BY <1>12 DEF Rmtree
<1>13. ASSUME NEW t \in Thread, RemoveConfigs(t) PROVE Followed'
  <2>1. PICK n \in Name : req[t].names = {n}
    BY <1>13 DEF RemoveConfigs, Current
  <2>2. UNION {Starts[m] : m \in req[t].names} = Starts[n]
    BY <2>1
  <2> DEFINE copied == UNION {copies[g] : g \in Generation}
  <2>3. /\ configs' = configs \ Starts[n]
        /\ caught' = (caught \ Starts[n]) \cup (Starts[n] \cap copied)
        /\ UNCHANGED <<ini, dirs, faults, copies>> /\ pc[t] = "configs"
        /\ pc' = [pc EXCEPT ![t] = "idle"]
    BY <1>13, <2>2 DEF RemoveConfigs
  <2>4. Held = configs \cup copied /\ Held' = configs' \cup copied
    BY <2>3 DEF Held
  <2>5. faults = 0 => dirs = In(ini) /\ Held \subseteq In(ini) \cup caught \cup {n}
    BY <2>1, <2>3
  <2>6. faults = 0 => Held' \subseteq In(ini) \cup caught'
    <3>1. n \in Starts[n]
      BY NameAssumption
    <3>2. caught' = (caught \ Starts[n]) \cup (Starts[n] \cap copied)
      BY <2>3
    <3> HIDE DEF copied
    <3> QED BY <2>3, <2>4, <2>5, <3>1, <3>2
  <2>7. \A s \in Thread : pc'[s] \notin Unsettled
    BY <2>3
  <2> HIDE DEF copied
  <2> QED BY <2>3, <2>5, <2>6, <2>7
<1>14. ASSUME NEW t \in Thread, BeginSaveIps(t) PROVE Followed'
  BY <1>14 DEF BeginSaveIps
<1>15. ASSUME NEW t \in Thread, BeginSaveMapping(t) PROVE Followed'
  BY <1>15 DEF BeginSaveMapping
<1>16. ASSUME NEW t \in Thread, BeginPopulate(t) PROVE Followed'
  BY <1>16 DEF BeginPopulate
<1>17. ASSUME NEW t \in Thread, Merge(t) PROVE Followed'
  BY <1>17 DEF Merge
<1>18. ASSUME NEW t \in Thread, TruncateMap(t) PROVE Followed'
  BY <1>18 DEF TruncateMap
<1>19. ASSUME NEW t \in Thread, FillMap(t) PROVE Followed'
  BY <1>19 DEF FillMap
<1>20. ASSUME UNCHANGED vars PROVE Followed'
  BY <1>20 DEF vars
<1> QED
  BY <1>1, <1>2, <1>3, <1>4, <1>5, <1>6, <1>7, <1>8, <1>9, <1>10, <1>11, <1>12,
      <1>13, <1>14, <1>15, <1>16, <1>17, <1>18, <1>19, <1>20
  DEF Next, Add, Remove, Map

LEMMA AlwaysIInv == Spec => []IInv
<1>1. IInv /\ [Next]_vars => IInv'
  BY TypeStep, MemoryStep DEF IInv
<1> QED BY <1>1, InitIInv, PTL DEF Spec

LEMMA InitQInv == Init => QInv
<1> SUFFICES ASSUME Init PROVE QInv
  OBVIOUS
<1>1. Distinct(ini) /\ In(ini) = {}
  BY DistinctFacts, InFacts DEF Init
<1>2. Held = {}
  BY DEF Init, Held
<1> QED BY <1>1, <1>2 DEF Init, QInv, RemoveAlone, MapAlone, Emptied, Apart, Fresh, Current,
      CurrentMap, AllDistinct, Followed, Behind, Adding, Removing, Mapped, Writing

LEMMA AlwaysQInv == ASSUME Quiet PROVE Spec => [](IInv /\ QInv)
<1>1. IInv /\ QInv /\ [Next]_vars => QInv'
  BY RemoveAloneStep, MapAloneStep, EmptiedStep, ApartStep, FreshStep, CurrentStep,
      CurrentMapStep, AllDistinctStep, FollowedStep DEF QInv
<1> QED BY <1>1, InitQInv, AlwaysIInv, PTL DEF Spec

-----------------------------------------------------------------------------
(* The steps are those of an inventory that changes in one step. *)

\* What Pending shows: the file, or what its only writer has in memory.
LEMMA PendingFacts == \A P, M, file, labels :
    LET writers == {t \in Thread : P[t] \in labels}
        shown == IF writers = {} THEN file ELSE M[CHOOSE t \in writers : TRUE]
    IN  /\ (\A t \in Thread : P[t] \notin labels) => shown = file
        /\ \A t \in Thread :
             P[t] \in labels /\ (\A s \in Thread : P[s] \in labels => s = t) => shown = M[t]
OBVIOUS

LEMMA OneWriter ==
    IInv /\ QInv => /\ \A s, t \in Thread : pc[s] \in Writing /\ pc[t] \in Writing => s = t
                    /\ \A s, t \in Thread : pc[s] = "fillmap" /\ pc[t] = "fillmap" => s = t
BY DEF IInv, TypeOK, QInv, RemoveAlone, MapAlone, Writing, Adding, Removing, Mapped

PendingList == Pending(ini, Writing)
PendingMap == Pending(mapping, {"fillmap"})

Shown ==
    /\ \A t \in Thread : /\ pc[t] \in Writing => PendingList = mem[t]
                         /\ pc[t] = "fillmap" => PendingMap = mem[t]
    /\ (\A t \in Thread : pc[t] \notin Writing) => PendingList = ini
    /\ (\A t \in Thread : pc[t] # "fillmap") => PendingMap = mapping

LEMMA ShownFacts == IInv /\ QInv => Shown
BY OneWriter, PendingFacts DEF Shown, PendingList, PendingMap, Pending, At

LEMMA ShownNext == (IInv /\ QInv)' => Shown'
BY ShownFacts, PTL

\* A step that leaves a file and its writer alone is not seen.
LEMMA SameList ==
    ASSUME UNCHANGED ini,
           \A s \in Thread : /\ (pc'[s] \in Writing) = (pc[s] \in Writing)
                             /\ pc[s] \in Writing => mem'[s] = mem[s]
    PROVE  UNCHANGED PendingList
<1>1. At(Writing)' = At(Writing)
  BY DEF At
<1> QED BY <1>1 DEF PendingList, Pending, At

LEMMA SameMap ==
    ASSUME UNCHANGED mapping,
           \A s \in Thread : /\ (pc'[s] = "fillmap") = (pc[s] = "fillmap")
                             /\ pc[s] = "fillmap" => mem'[s] = mem[s]
    PROVE  UNCHANGED PendingMap
<1>1. At({"fillmap"})' = At({"fillmap"})
  BY DEF At
<1> QED BY <1>1 DEF PendingMap, Pending, At

LEMMA StepPromised ==
    ASSUME Quiet, IInv, QInv, [Next]_vars, (IInv /\ QInv)'
    PROVE  [Promised!Next]_(Promised!vars)
<1> USE DEF Begin, Goto, Ends, generation, Writing, Shown
<1>0. /\ pc \in [Thread -> Label] /\ req \in [Thread -> Req]
      /\ mem \in [Thread -> {None} \cup Listing \cup Mapping]
  BY DEF IInv, TypeOK
<1>a. ASSUME UNCHANGED <<PendingList, PendingMap, faults>>
      PROVE  UNCHANGED Promised!vars
  BY <1>a DEF Promised!vars, PendingList, PendingMap
<1>1. CASE Stop
  <2>1. PendingList' = ini /\ PendingMap' = mapping
    BY <1>1, ShownNext DEF Stop
  <2>2. PendingList = ini \/ ini = NoHosts
    BY ShownFacts DEF QInv, Emptied
  <2>3. PendingMap = mapping \/ mapping = Default
    BY ShownFacts DEF QInv, Emptied
  <2>4. faults' = faults + 1
    BY <1>1 DEF Stop
  <2>5. Promised!Lose
    BY <2>1, <2>2, <2>3, <2>4 DEF Promised!Lose, PendingList, PendingMap, NoHosts
  <2> QED BY <2>5 DEF Promised!Next
<1>2. ASSUME (\E g \in Generation : Generate(g)) \/ UNCHANGED vars
      PROVE  UNCHANGED Promised!vars
  <2>1. UNCHANGED <<ini, mapping, pc, mem, faults>>
    BY <1>2, GenerateFacts DEF IInv, vars
  <2> QED BY <2>1, <1>a, SameList, SameMap
<1>3. ASSUME NEW t \in Thread,
             \/ BeginAdd(t) \/ Enter(t) \/ Scaffold(t) \/ BeginRemove(t) \/ Rmtree(t)
             \/ RemoveConfigs(t) \/ BeginSaveIps(t) \/ BeginSaveMapping(t)
             \/ BeginPopulate(t) \/ Merge(t)
      PROVE  UNCHANGED Promised!vars
  <2>1. /\ UNCHANGED <<ini, mapping, faults>>
        /\ \A s \in Thread : s # t => pc'[s] = pc[s] /\ mem'[s] = mem[s]
        /\ pc[t] \notin {"fill", "refill", "fillmap"}
        /\ pc'[t] \notin {"fill", "refill", "fillmap"}
    BY <1>0, <1>3 DEF BeginAdd, Enter, Scaffold, BeginRemove, Rmtree, RemoveConfigs,
        BeginSaveIps, BeginSaveMapping, BeginPopulate, Merge
  <2> QED BY <2>1, <1>a, SameList, SameMap
<1>4. ASSUME NEW t \in Thread, ScaffoldFails(t) PROVE Promised!Next
  <2>1. /\ UNCHANGED <<ini, mapping>> /\ faults' = faults + 1
        /\ \A s \in Thread : s # t => pc'[s] = pc[s] /\ mem'[s] = mem[s]
        /\ pc[t] \notin {"fill", "refill", "fillmap"}
        /\ pc'[t] \notin {"fill", "refill", "fillmap"}
    BY <1>0, <1>4 DEF ScaffoldFails
  <2>2. UNCHANGED <<PendingList, PendingMap>>
    BY <2>1, SameList, SameMap
  <2> QED BY <2>1, <2>2 DEF Promised!Next, Promised!Lose, PendingList, PendingMap
<1>5. ASSUME NEW t \in Thread, Truncate(t) \/ Unlist(t) PROVE Promised!Next
  <2>1. /\ UNCHANGED <<mapping, faults, mem>>
        /\ pc'[t] \in Writing /\ pc[t] \notin Writing
        /\ \A s \in Thread : (pc'[s] = "fillmap") = (pc[s] = "fillmap")
    BY <1>0, <1>5 DEF Truncate, Unlist
  <2>2. UNCHANGED PendingMap
    BY <2>1, SameMap
  <2>3. \A s \in Thread : pc[s] \notin Writing
    BY <1>5 DEF Truncate, Unlist, IInv, TypeOK, QInv, RemoveAlone, Adding, Removing
  <2>4. PendingList = ini /\ PendingList' = mem[t]
    BY <2>1, <2>3, ShownFacts, ShownNext
  <2>5. CASE Truncate(t)
    <3>1. mem[t] = Added(ini, req[t]) /\ req[t].group \in Group /\ req[t].names \in SUBSET Name
      BY <1>0, <2>5 DEF Truncate, QInv, Current, IInv, Memory, Adding, Req
    <3>2. Promised!Add(req[t].group, req[t].names)
      BY <2>2, <2>4, <3>1 DEF Promised!Add, Added, PendingList, PendingMap
    <3> QED BY <2>1, <3>1, <3>2 DEF Promised!Next, Promised!Change
  <2>6. CASE Unlist(t)
    <3>1. PICK n \in Name : req[t].names = {n}
      BY <2>6 DEF Unlist, QInv, Current, Removing
    <3>2. mem[t] = Removed(ini, n)
      BY <2>6, <3>1 DEF Unlist, QInv, Current
    <3>3. Promised!Remove(n)
      BY <2>2, <2>4, <3>2 DEF Promised!Remove, Removed, PendingList, PendingMap
    <3> QED BY <2>1, <3>3 DEF Promised!Next, Promised!Change
  <2> QED BY <1>5, <2>5, <2>6
<1>6. ASSUME NEW t \in Thread, Fill(t) \/ Refill(t) PROVE UNCHANGED Promised!vars
  <2>1. /\ UNCHANGED <<mapping, faults, mem>> /\ ini' = mem[t] /\ pc[t] \in Writing
        /\ \A s \in Thread : (pc'[s] = "fillmap") = (pc[s] = "fillmap")
        /\ \A s \in Thread : s # t => pc'[s] = pc[s]
        /\ pc'[t] \notin Writing
    BY <1>0, <1>6 DEF Fill, Refill
  <2>2. \A s \in Thread : pc'[s] \notin Writing
    BY <2>1, OneWriter
  <2>3. UNCHANGED PendingList
    BY <2>1, <2>2, ShownFacts, ShownNext
  <2> QED BY <1>a, <2>1, <2>3, SameMap
<1>7. ASSUME NEW t \in Thread, TruncateMap(t) PROVE Promised!Next
  <2>1. /\ UNCHANGED <<ini, faults, mem>> /\ pc'[t] = "fillmap" /\ pc[t] = "truncatemap"
        /\ \A s \in Thread : (pc'[s] \in Writing) = (pc[s] \in Writing)
    BY <1>0, <1>7 DEF TruncateMap
  <2>2. UNCHANGED PendingList
    BY <2>1, SameList
  <2>3. \A s \in Thread : pc[s] # "fillmap"
    BY <2>1 DEF QInv, MapAlone, Mapped
  <2>4. PendingMap = mapping /\ PendingMap' = mem[t] /\ mem[t] \in Changed(mapping)
    BY <2>1, <2>3, ShownFacts, ShownNext DEF QInv, CurrentMap
  <2>5. ASSUME NEW hosts \in Rows, mem[t] = [mapping EXCEPT !.hosts = hosts]
        PROVE  Promised!SaveAddresses
    BY <2>2, <2>4, <2>5 DEF Promised!SaveAddresses, PendingList, PendingMap
  <2>6. ASSUME NEW hosts \in Rows, NEW rollback \in Rollback,
               mem[t] = [hosts |-> hosts, rollback |-> rollback]
        PROVE  Promised!SaveMapping
    BY <2>2, <2>4, <2>6 DEF Promised!SaveMapping, PendingList, PendingMap
  <2>7. ASSUME NEW names \in SUBSET Name, mem[t] = Populated(mapping, names)
        PROVE  Promised!Populate(names)
    BY <2>2, <2>4, <2>7 DEF Promised!Populate, Populated, PendingList, PendingMap
  <2>8. Promised!Change
    BY <2>4, <2>5, <2>6, <2>7 DEF Changed, Promised!Change
  <2> QED BY <2>1, <2>8 DEF Promised!Next
<1>8. ASSUME NEW t \in Thread, FillMap(t) PROVE UNCHANGED Promised!vars
  <2>1. /\ UNCHANGED <<ini, faults>> /\ mapping' = mem[t] /\ pc[t] = "fillmap"
        /\ \A s \in Thread : (pc'[s] \in Writing) = (pc[s] \in Writing)
        /\ \A s \in Thread : s # t => pc'[s] = pc[s] /\ mem'[s] = mem[s]
        /\ pc'[t] = "idle"
    BY <1>0, <1>8 DEF FillMap
  <2>2. \A s \in Thread : pc'[s] # "fillmap"
    BY <2>1, OneWriter
  <2>3. UNCHANGED PendingMap
    BY <2>1, <2>2, ShownFacts, ShownNext
  <2> QED BY <1>a, <2>1, <2>3, SameList
<1> QED BY <1>1, <1>2, <1>3, <1>4, <1>5, <1>6, <1>7, <1>8 DEF Next, Add, Remove, Map

-----------------------------------------------------------------------------
(* Theorems. *)

\* Every variable keeps its type, a request has contents in memory exactly
\* while it is about to write them, and the lock is held exactly while an
\* addition reads, writes and scaffolds, whatever the requests do.
THEOREM TypeCorrect == Spec => []TypeOK
<1>1. IInv => TypeOK
  BY DEF IInv
<1> QED BY <1>1, AlwaysIInv, PTL

\* NamesDistinct: no switch is listed twice, in two groups or two spellings,
\* when requests keep out of each other's way.
THEOREM NoNameTwice == ASSUME Quiet PROVE Spec => []NamesDistinct
<1>1. QInv => NamesDistinct
  BY DEF QInv, AllDistinct, Distinct, NamesDistinct
<1> QED BY <1>1, AlwaysQInv, PTL

\* FilesFollowListing: between requests, the directories are those of the
\* switches listed, unless the server has stopped or a request failed; and no
\* other switch has a config but those whose removal met a generation that had
\* a copy of it, however many generations there are.
THEOREM FilesFollow == ASSUME Quiet PROVE Spec => []FilesFollowListing
<1>1. configs \subseteq Held
  BY DEF Held
<1>2. QInv => FilesFollowListing
  BY <1>1 DEF QInv, Followed, FilesFollowListing, At, Adding, Removing, Unsettled, In,
      Listed
<1> QED BY <1>2, AlwaysQInv, PTL

\* Files that are truncated and filled, by requests that hold the lock or do
\* not, implement an inventory in which every change is one step.
THEOREM RefinesInventory == ASSUME Quiet PROVE Spec => InventorySpec
<1>1. Init => Promised!Init
  <2> SUFFICES ASSUME Init PROVE Promised!Init
    OBVIOUS
  <2>1. At(Writing) = {} /\ At({"fillmap"}) = {}
    BY DEF Init, At, Writing
  <2> QED BY <2>1 DEF Init, Promised!Init, Pending, NoHosts
<1> QED BY <1>1, AlwaysQInv, StepPromised, PTL DEF Spec, InventorySpec, Promised!Spec

=============================================================================
