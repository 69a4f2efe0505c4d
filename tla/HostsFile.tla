------------------------------ MODULE HostsFile ------------------------------
(***************************************************************************)
(* A project's list of switches and what hangs on it: hosts.ini, the       *)
(* directories in host_vars, the generated configs, and                    *)
(* deploy_mapping.yml (utils.py, projects.py, bulk_hosts.py,               *)
(* deploy_routes.py).  Both files are read whole, changed in memory and    *)
(* written in place: open(..., "w") leaves them empty until the text is    *)
(* written.  Additions hold the project lock, except while they look       *)
(* whether a name is taken; removals and the mapping take no lock.         *)
(***************************************************************************)
EXTENDS Naturals

CONSTANTS Name,         \* switch names
          Key,          \* Key[n]: n in lower case
          Starts,       \* Starts[n]: the names whose config's file name
                        \* starts with n and an underscore
          Group,        \* the sections of hosts.ini
          Address,      \* management addresses
          Rows,         \* the rows that the pages submit: None, "" or an
                        \* address for every name
          Thread,       \* requests at work at a time
          Generation,   \* generations at work at a time
          Quiet,        \* requests at work keep out of each other's way
          MaxRequests,  \* bound: requests
          MaxFaults,    \* bound: stops of the server and failed scaffolds
          None          \* no thread, not in the mapping

ASSUME NameAssumption == /\ Starts \in [Name -> SUBSET Name]
                         /\ \A n \in Name : n \in Starts[n]
                         /\ Rows \subseteq [Name -> {None, ""} \cup Address]
                         /\ {"", None} \cap Address = {} /\ None # ""
ASSUME BoundAssumption == {MaxRequests, MaxFaults} \subseteq Nat /\ Quiet \in BOOLEAN

\* What hosts.ini and deploy_mapping.yml may say.
Listing == [Group -> SUBSET Name]
Rollback == {5, 10}
Mapping == [hosts : [Name -> {None, ""} \cup Address], rollback : Rollback]
ASSUME NoneAssumption == None \notin Thread \cup Listing \cup Mapping

NoHosts == [g \in Group |-> {}]

VARIABLES
    ini,      \* ini[g]: the options of section g of hosts.ini
    dirs,     \* the directories in host_vars
    configs,  \* the names with a generated config
    mapping,  \* what deploy_mapping.yml says
    lock,     \* who holds the project lock
    pc,       \* what a thread's request does next
    req,      \* req[t]: the group and the names it is about
    mem,      \* mem[t]: the file's new contents
    begun, faults,
    stage,    \* what a generation does next
    copies,   \* copies[g]: the names whose configs it will write back
    caught    \* history: names whose config was deleted while a generation
              \* had a copy of it

generation == <<stage, copies, caught>>
vars == <<ini, dirs, configs, mapping, lock, pc, req, mem, begun, faults, generation>>

\* _load_mapping of a file that is missing or empty.
Default == [hosts |-> [n \in Name |-> None], rollback |-> 5]
NoRequest == [group |-> None, names |-> {}]
Req == [group : Group \cup {None}, names : SUBSET Name]

Init ==
    /\ ini = NoHosts /\ dirs = {} /\ configs = {}
    /\ mapping = Default
    /\ lock = None
    /\ pc = [t \in Thread |-> "idle"]
    /\ req = [t \in Thread |-> NoRequest]
    /\ mem = [t \in Thread |-> None]
    /\ begun = 0 /\ faults = 0
    /\ stage = [g \in Generation |-> "idle"]
    /\ copies = [g \in Generation |-> {}]
    /\ caught = {}

\* read_project_hosts.
Listed == UNION {ini[g] : g \in Group}

At(labels) == {t \in Thread : pc[t] \in labels}
Adding == {"lock", "truncate", "fill", "scaffold"}
Removing == {"unlist", "refill", "rmtree", "configs"}
Mapped == {"merge", "truncatemap", "fillmap"}
Writing == {"fill", "refill"}
Label == {"idle"} \cup Adding \cup Removing \cup Mapped

Begin(t, label, q) ==
    /\ pc[t] = "idle" /\ begun < MaxRequests
    /\ begun' = begun + 1
    /\ pc' = [pc EXCEPT ![t] = label]
    /\ req' = [req EXCEPT ![t] = q]
    /\ UNCHANGED <<ini, dirs, configs, mapping, lock, faults, generation>>

Goto(t, label) ==
    /\ pc' = [pc EXCEPT ![t] = label]
    /\ UNCHANGED <<begun, faults>>

Ends(t) ==
    /\ Goto(t, "idle")
    /\ req' = [req EXCEPT ![t] = NoRequest]
    /\ mem' = [mem EXCEPT ![t] = None]

GenerationEnds(g) ==
    /\ stage' = [stage EXCEPT ![g] = "idle"]
    /\ copies' = [copies EXCEPT ![g] = {}]

-----------------------------------------------------------------------------
(***************************************************************************)
(* Adding switches                                                         *)
(***************************************************************************)
\* Mutation: names are compared as they are written.
NewNamesExact(names) == names \cap Listed = {}

\* add_host's look at the list, and plan's for a batch: a name that is taken,
\* or repeated in the batch, is left out.
NewNames(names) ==
    /\ \A n \in names, m \in Listed : Key[n] # Key[m]
    /\ \A n, m \in names : Key[n] = Key[m] => n = m

\* add_host and bulk_hosts_add, as far as they go without the lock.
BeginAdd(t) == \E g \in Group, names \in SUBSET Name \ {{}} :
    /\ NewNames(names)
    /\ Quiet => /\ At(Removing \cup Writing) = {}
                /\ \A s \in At(Adding) : \A n \in names, m \in req[s].names : Key[n] # Key[m]
    /\ Begin(t, "lock", [group |-> g, names |-> names])
    /\ UNCHANGED mem

\* Mutation: additions do not take the lock.
EnterUnlocked(t) ==
    /\ pc[t] = "lock"
    /\ mem' = [mem EXCEPT ![t] = [ini EXCEPT ![req[t].group] = @ \cup req[t].names]]
    /\ Goto(t, "truncate")
    /\ UNCHANGED <<ini, dirs, configs, mapping, lock, req, generation>>

\* add_project_hosts takes the lock, reads the file and adds to it.
Enter(t) ==
    /\ pc[t] = "lock"
    /\ lock = None /\ lock' = t
    /\ mem' = [mem EXCEPT ![t] = [ini EXCEPT ![req[t].group] = @ \cup req[t].names]]
    /\ Goto(t, "truncate")
    /\ UNCHANGED <<ini, dirs, configs, mapping, req, generation>>

Truncate(t) ==
    /\ pc[t] = "truncate"
    /\ ini' = NoHosts
    /\ Goto(t, "fill")
    /\ UNCHANGED <<dirs, configs, mapping, lock, req, mem, generation>>

Fill(t) ==
    /\ pc[t] = "fill"
    /\ ini' = mem[t]
    /\ Goto(t, "scaffold")
    /\ UNCHANGED <<dirs, configs, mapping, lock, req, mem, generation>>

\* Mutation: only one switch of a batch gets its files.
ScaffoldFirst(t) ==
    /\ pc[t] = "scaffold"
    /\ dirs' = dirs \cup {CHOOSE n \in req[t].names : TRUE}
    /\ lock' = None /\ Ends(t)
    /\ UNCHANGED <<ini, configs, mapping, generation>>

\* _scaffold_host_vars_to for every name, and the lock is let go.
Scaffold(t) ==
    /\ pc[t] = "scaffold"
    /\ dirs' = dirs \cup req[t].names
    /\ lock' = None /\ Ends(t)
    /\ UNCHANGED <<ini, configs, mapping, generation>>

\* There is no skeleton: the first name without a directory ends the request,
\* with the switches listed.
ScaffoldFails(t) ==
    /\ pc[t] = "scaffold" /\ req[t].names \ dirs # {}
    /\ faults < MaxFaults /\ faults' = faults + 1
    /\ pc' = [pc EXCEPT ![t] = "idle"]
    /\ req' = [req EXCEPT ![t] = NoRequest]
    /\ mem' = [mem EXCEPT ![t] = None]
    /\ lock' = None
    /\ UNCHANGED <<ini, dirs, configs, mapping, begun, generation>>

-----------------------------------------------------------------------------
(***************************************************************************)
(* Removing a switch: remove_project_host, without the lock                *)
(***************************************************************************)
BeginRemove(t) == \E n \in Listed :
    /\ Quiet => At(Adding \cup Removing) = {}
    /\ Begin(t, "unlist", [group |-> None, names |-> {n}])
    /\ mem' = [mem EXCEPT ![t] = [g \in Group |-> ini[g] \ {n}]]

Unlist(t) ==
    /\ pc[t] = "unlist"
    /\ ini' = NoHosts
    /\ Goto(t, "refill")
    /\ UNCHANGED <<dirs, configs, mapping, lock, req, mem, generation>>

Refill(t) ==
    /\ pc[t] = "refill"
    /\ ini' = mem[t]
    /\ Goto(t, "rmtree")
    /\ UNCHANGED <<dirs, configs, mapping, lock, req, mem, generation>>

Rmtree(t) ==
    /\ pc[t] = "rmtree"
    /\ dirs' = dirs \ req[t].names
    /\ Goto(t, "configs")
    /\ UNCHANGED <<ini, configs, mapping, lock, req, mem, generation>>

\* Mutation: a removal leaves the configs.
LeaveConfigs(t) ==
    /\ pc[t] = "configs"
    /\ Ends(t)
    /\ UNCHANGED <<ini, dirs, configs, mapping, lock, generation>>

\* Every config whose file name starts with the switch's is deleted.
RemoveConfigs(t) ==
    /\ pc[t] = "configs"
    /\ LET gone == UNION {Starts[n] : n \in req[t].names} IN
         /\ configs' = configs \ gone
         /\ caught' = (caught \ gone) \cup (gone \cap UNION {copies[g] : g \in Generation})
    /\ Ends(t)
    /\ UNCHANGED <<ini, dirs, mapping, lock, stage, copies>>

-----------------------------------------------------------------------------
(***************************************************************************)
(* A generation (GenerateJobs), without the lock.  The project is archived *)
(* for the container, hosts.ini before generated_configs; what comes back  *)
(* replaces the configs, whatever was removed in the meantime.             *)
(***************************************************************************)
\* The archive takes in hosts.ini.  The run is for some of the switches there.
BeginGenerate(g) ==
    /\ stage[g] = "idle"
    /\ stage' = [stage EXCEPT ![g] = "archive"]
    /\ \E S \in SUBSET Listed : copies' = [copies EXCEPT ![g] = S]
    /\ UNCHANGED <<ini, dirs, configs, mapping, lock, pc, req, mem, begun, faults, caught>>

\* Then it takes in the configs there are.
Archive(g) ==
    /\ stage[g] = "archive"
    /\ stage' = [stage EXCEPT ![g] = "run"]
    /\ copies' = [copies EXCEPT ![g] = @ \cup configs]
    /\ UNCHANGED <<ini, dirs, configs, mapping, lock, pc, req, mem, begun, faults, caught>>

\* Configs that came back are written and others deleted: all of them, or some
\* when the run failed or writing them back did.
Mirror(g) ==
    /\ stage[g] = "run"
    /\ \E S \in SUBSET copies[g], D \in SUBSET configs : configs' = (configs \ D) \cup S
    /\ GenerationEnds(g)
    /\ UNCHANGED <<ini, dirs, mapping, lock, pc, req, mem, begun, faults, caught>>

Generate(g) == BeginGenerate(g) \/ Archive(g) \/ Mirror(g)

-----------------------------------------------------------------------------
(***************************************************************************)
(* deploy_mapping.yml, without the lock                                    *)
(***************************************************************************)
QuietMap == Quiet => At(Mapped) = {}

\* deployment_ips_save loads the file for what it keeps of it.
BeginSaveIps(t) == \E hosts \in Rows :
    /\ QuietMap
    /\ Begin(t, "truncatemap", NoRequest)
    /\ mem' = [mem EXCEPT ![t] = [mapping EXCEPT !.hosts = hosts]]

\* deploy_save_mapping.
BeginSaveMapping(t) == \E hosts \in Rows, rollback \in Rollback :
    /\ QuietMap
    /\ Begin(t, "truncatemap", NoRequest)
    /\ mem' = [mem EXCEPT ![t] = [hosts |-> hosts, rollback |-> rollback]]

\* deploy_auto_populate reads hosts.ini, and then the mapping.
BeginPopulate(t) ==
    /\ QuietMap
    /\ Begin(t, "merge", [group |-> None, names |-> Listed])
    /\ UNCHANGED mem

\* The names that the mapping does not have yet are added to it.
Populated(old, names) == [old EXCEPT !.hosts =
    [n \in Name |-> IF @[n] = None /\ n \in names THEN "" ELSE @[n]]]

Merge(t) ==
    /\ pc[t] = "merge"
    /\ mem' = [mem EXCEPT ![t] = Populated(mapping, req[t].names)]
    /\ Goto(t, "truncatemap")
    /\ UNCHANGED <<ini, dirs, configs, mapping, lock, req, generation>>

TruncateMap(t) ==
    /\ pc[t] = "truncatemap"
    /\ mapping' = Default
    /\ Goto(t, "fillmap")
    /\ UNCHANGED <<ini, dirs, configs, lock, req, mem, generation>>

FillMap(t) ==
    /\ pc[t] = "fillmap"
    /\ mapping' = mem[t]
    /\ Ends(t)
    /\ UNCHANGED <<ini, dirs, configs, lock, generation>>

-----------------------------------------------------------------------------
\* The server stops, and the requests and generations at work with it.
Stop ==
    /\ faults < MaxFaults /\ faults' = faults + 1
    /\ pc' = [t \in Thread |-> "idle"]
    /\ req' = [t \in Thread |-> NoRequest]
    /\ mem' = [t \in Thread |-> None]
    /\ lock' = None
    /\ stage' = [g \in Generation |-> "idle"]
    /\ copies' = [g \in Generation |-> {}]
    /\ UNCHANGED <<ini, dirs, configs, mapping, begun, caught>>

Add(t) == BeginAdd(t) \/ Enter(t) \/ Truncate(t) \/ Fill(t) \/ Scaffold(t) \/ ScaffoldFails(t)
Remove(t) == BeginRemove(t) \/ Unlist(t) \/ Refill(t) \/ Rmtree(t) \/ RemoveConfigs(t)
Map(t) == \/ BeginSaveIps(t) \/ BeginSaveMapping(t) \/ BeginPopulate(t)
          \/ Merge(t) \/ TruncateMap(t) \/ FillMap(t)

Next == \/ Stop
        \/ \E g \in Generation : Generate(g)
        \/ \E t \in Thread : Add(t) \/ Remove(t) \/ Map(t)

Spec == Init /\ [][Next]_vars

-----------------------------------------------------------------------------
(***************************************************************************)
(* Properties                                                              *)
(***************************************************************************)
\* Type correctness; and a request has what it is to write in memory exactly
\* while it is about to, and holds the lock exactly from reading to scaffolding.
TypeOK ==
    /\ ini \in Listing /\ dirs \subseteq Name /\ configs \subseteq Name
    /\ mapping \in Mapping
    /\ pc \in [Thread -> Label] /\ req \in [Thread -> Req]
    /\ mem \in [Thread -> {None} \cup Listing \cup Mapping]
    /\ \A t \in Thread : (pc[t] \in {"idle", "lock", "merge"}) = (mem[t] = None)
    /\ \A t \in Thread : (pc[t] \in Adding \ {"lock"}) = (lock = t)
    /\ begun \in 0..MaxRequests /\ faults \in 0..MaxFaults
    /\ stage \in [Generation -> {"idle", "archive", "run"}]
    /\ copies \in [Generation -> SUBSET Name] /\ caught \subseteq Name

\* No switch is listed twice, in two groups or in two ways of writing its name,
\* although names are looked up before the lock is taken and the file is empty
\* for a while whenever it is written.  Needs Quiet.
NamesDistinct == \A g, h \in Group : \A n \in ini[g], m \in ini[h] :
    Key[n] = Key[m] => n = m /\ g = h

\* When no request is at work, the switches listed are those with a directory,
\* unless a stop or a failure came between; and a config of any other switch
\* is one that a generation had a copy of when the removal deleted it.
FilesFollowListing ==
    At(Adding \cup Removing) = {} /\ faults = 0 =>
        dirs = Listed /\ configs \subseteq Listed \cup caught

\* Each file as it will be once whoever is rewriting it is done.
Pending(file, labels) == IF At(labels) = {} THEN file ELSE mem[CHOOSE t \in At(labels) : TRUE]
Promised == INSTANCE Inventory WITH
    Blank <- "", listed <- Pending(ini, Writing), mapping <- Pending(mapping, {"fillmap"}),
    faults <- faults

\* Readers, writers and truncated files together are an inventory that changes
\* in one step: additions that overlap all stay, a removal takes one switch,
\* filling in missing names changes no address and no setting, and a stop loses
\* a file whole or not at all.
InventorySpec == Promised!Spec
=============================================================================
