------------------------------ MODULE SwitchJobs ------------------------------
(***************************************************************************)
(* Jobs that touch live switches, for one project: dry runs and pushes     *)
(* (deploy_routes.py), firmware upgrades (firmware_routes.py), the two job *)
(* stores with busy_hosts, mark_finished and prune_finished (jobs.py), the *)
(* audit entry of each run, and the push state the Deploy page derives     *)
(* from those entries.  Generation replaces configs meanwhile, the project *)
(* may be transferred, and the server may restart.                         *)
(*                                                                         *)
(* Both stores are one function here: a job's kind says which store it is  *)
(* in, and each store is looked at in a step of its own, as its lock is.   *)
(* A config is a version; its file hash tells versions apart.              *)
(***************************************************************************)
EXTENDS Naturals, FiniteSets

CONSTANTS Host,         \* the project's switches
          Request,      \* the requests to start a job, each made once
          Owner,        \* the users the project may belong to
          Serial,       \* pushes and upgrades of one switch are requested
                        \* one at a time; dry runs at any time
          MaxVersion,   \* bound: versions of a config
          MaxTransfers, \* bound: transfers of the project
          MaxRestarts,  \* bound: restarts of the server
          None          \* nothing sent or recorded

ASSUME BoundAssumption == /\ MaxVersion \in Nat
                          /\ MaxTransfers \in Nat
                          /\ MaxRestarts \in Nat
ASSUME SerialAssumption == Serial \in BOOLEAN
ASSUME NoneAssumption == None \notin Nat \cup Owner

VARIABLES
    owner,     \* the project's owner; its key in the stores is owner/name
    config,    \* config[h]: the version of h's FULL config on disk
    running,   \* running[h]: the version last confirmed on the switch, or None
    transfers, restarts,
    pc, kind,
    hosts,     \* hosts[r]: the switches r works on
    key,       \* key[r]: the owner as r saw it when it arrived
    job,       \* job[r]: none, unfinished or finished, in r's store
    audit,     \* audit[r]: status of r's audit entry
    id,        \* id[r]: id of that entry, 0 when there is none
    sha,       \* sha[r][h]: file hash the entry records for h
    sent,      \* sent[r][h]: what the playbook read to send to h
    took,      \* took[r]: switches that confirmed what r sent
    results    \* results[r]: those of them the job has a result of

world == <<owner, config, running, transfers, restarts>>
entry == <<audit, id, sha>>
request == <<kind, hosts, key>>
report == <<took, results>>
vars == <<world, pc, request, job, entry, sent, report>>

Blank == [h \in Host |-> None]

Goto(r, label) == pc' = [pc EXCEPT ![r] = label]

Init ==
    /\ owner \in Owner
    /\ config = [h \in Host |-> 0]
    /\ running = Blank
    /\ transfers = 0
    /\ restarts = 0
    /\ pc = [r \in Request |-> "new"]
    /\ kind = [r \in Request |-> "none"]
    /\ hosts = [r \in Request |-> {}]
    /\ key = [r \in Request |-> None]
    /\ job = [r \in Request |-> "none"]
    /\ audit = [r \in Request |-> "none"]
    /\ id = [r \in Request |-> 0]
    /\ sha = [r \in Request |-> Blank]
    /\ sent = [r \in Request |-> Blank]
    /\ took = [r \in Request |-> {}]
    /\ results = [r \in Request |-> {}]

\* A request thread is working on r.
Handling(r) == pc[r] \in {"checking", "checking2", "logging", "inserting", "starting"}

-----------------------------------------------------------------------------
(***************************************************************************)
(* The world around the jobs.                                              *)
(***************************************************************************)
\* A generation replaces a config, perhaps with an earlier one; it does not
\* look at pushes.
Regenerate(h) ==
    /\ \E v \in 0..MaxVersion \ {config[h]} : config' = [config EXCEPT ![h] = v]
    /\ UNCHANGED <<owner, running, transfers, restarts, pc, request, job,
                   entry, sent, report>>

\* sharing.transfer moves the project and its history; jobs keep their key.
Transfer ==
    /\ transfers < MaxTransfers
    /\ \E o \in Owner \ {owner} : owner' = o
    /\ transfers' = transfers + 1
    /\ UNCHANGED <<config, running, restarts, pc, request, job, entry, sent, report>>

(***************************************************************************)
(* The request.                                                            *)
(***************************************************************************)
Arrive(r) ==
    /\ pc[r] = "new"
    /\ \E k \in {"dryrun", "push", "firmware"}, S \in SUBSET Host \ {{}} :
         /\ Serial /\ k # "dryrun" =>
              \A q \in Request : Handling(q) /\ kind[q] # "dryrun" => hosts[q] \cap S = {}
         /\ kind' = [kind EXCEPT ![r] = k]
         /\ hosts' = [hosts EXCEPT ![r] = S]
         /\ Goto(r, IF k = "dryrun" THEN "logging" ELSE "checking")
    /\ key' = [key EXCEPT ![r] = owner]
    /\ UNCHANGED <<world, job, entry, sent, report>>

\* busy_hosts: an unfinished job of kind k, for r's project key, works on
\* one of r's switches.
Busy(r, k) == \E q \in Request : /\ kind[q] = k
                                 /\ job[q] = "unfinished"
                                 /\ key[q] = key[r]
                                 /\ hosts[q] \cap hosts[r] # {}

\* switches_in_use looks for pushes in the deploy store, under its lock ...
CheckPushes(r) ==
    /\ pc[r] = "checking"
    /\ Goto(r, IF Busy(r, "push") THEN "refused" ELSE "checking2")
    /\ UNCHANGED <<world, request, job, entry, sent, report>>

\* Mutation: pushes only look at the deploy store.
CheckNoUpgrades(r) ==
    /\ pc[r] = "checking2"
    /\ Goto(r, IF kind[r] = "firmware" THEN "inserting" ELSE "logging")
    /\ UNCHANGED <<world, request, job, entry, sent, report>>

\* ... and then for any job in the firmware store, under that one's lock.
\* A push opens its audit entry next, an upgrade adds its job first.
CheckUpgrades(r) ==
    /\ pc[r] = "checking2"
    /\ Goto(r, IF Busy(r, "firmware") THEN "refused"
               ELSE IF kind[r] = "firmware" THEN "inserting" ELSE "logging")
    /\ UNCHANGED <<world, request, job, entry, sent, report>>

\* Mutation: an id is given out again.
IdReused == 1

\* The audit log numbers its entries.
NextId == 1 + Cardinality({q \in Request : id[q] # 0})

\* deploy_targets: the hash of each switch's file, None when it is not under
\* the owner the request saw.
Hashes(r) == [h \in Host |-> IF h \in hosts[r] /\ key[r] = owner THEN config[h]
                             ELSE None]

\* audit.record_start; for a deploy, with those hashes.
Log(r) ==
    /\ pc[r] = "logging"
    /\ audit' = [audit EXCEPT ![r] = "running"]
    /\ id' = [id EXCEPT ![r] = NextId]
    /\ sha' = IF kind[r] = "firmware" THEN sha ELSE [sha EXCEPT ![r] = Hashes(r)]
    /\ Goto(r, IF kind[r] = "firmware" THEN "starting" ELSE "inserting")
    /\ UNCHANGED <<world, request, job, sent, report>>

\* What it raises ends the request; an upgrade's job is in the store by then.
LogFails(r) ==
    /\ pc[r] = "logging"
    /\ Goto(r, "failed")
    /\ UNCHANGED <<world, request, job, entry, sent, report>>

\* Finished jobs past JOB_RETENTION_SECS are pruned from r's store, and r's
\* job is added to it.
SameStore(q, r) == kind[q] = "firmware" <=> kind[r] = "firmware"
Insert(r) ==
    /\ pc[r] = "inserting"
    /\ \E P \in SUBSET {q \in Request : job[q] = "finished" /\ SameStore(q, r)} :
         job' = [q \in Request |-> IF q = r THEN "unfinished"
                                   ELSE IF q \in P THEN "none" ELSE job[q]]
    /\ Goto(r, IF kind[r] = "firmware" THEN "logging" ELSE "starting")
    /\ UNCHANGED <<world, request, entry, sent, report>>

\* The worker thread starts and the request is answered.
Start(r) ==
    /\ pc[r] = "starting"
    /\ Goto(r, "working")
    /\ UNCHANGED <<world, request, job, entry, sent, report>>

-----------------------------------------------------------------------------
(***************************************************************************)
(* The worker thread and its playbook.                                     *)
(***************************************************************************)
\* The playbook reads the file of a switch when it gets to that switch; the
\* path is the one under the owner the request saw.
Read(r, h) ==
    /\ pc[r] = "working" /\ kind[r] = "push"
    /\ h \in hosts[r] /\ sent[r][h] = None /\ key[r] = owner
    /\ sent' = [sent EXCEPT ![r][h] = config[h]]
    /\ UNCHANGED <<world, pc, request, job, entry, report>>

\* The config is applied and confirmed.  A switch that is not confirmed
\* rolls back to its checkpoint and takes no step here.
Confirm(r, h) ==
    /\ pc[r] = "working"
    /\ sent[r][h] # None /\ h \notin took[r]
    /\ running' = [running EXCEPT ![h] = sent[r][h]]
    /\ took' = [took EXCEPT ![r] = @ \cup {h}]
    /\ UNCHANGED <<owner, config, transfers, restarts, pc, request, job, entry, sent,
                   results>>

\* Mutation: a playbook that cannot be started ends the worker.
FinishLost(r) ==
    /\ pc[r] = "working"
    /\ Goto(r, "finished")
    /\ job' = IF took[r] = {} THEN job ELSE [job EXCEPT ![r] = "finished"]
    /\ results' = [results EXCEPT ![r] = took[r]]
    /\ UNCHANGED <<world, request, entry, sent, took>>

\* The playbook ends, in whatever way: mark_finished.  A kill before it has
\* written a result, a result that cannot be parsed or an exception in the
\* worker leaves the job without results of switches that have confirmed.
Finish(r) ==
    /\ pc[r] = "working"
    /\ job' = [job EXCEPT ![r] = "finished"]
    /\ \E S \in SUBSET took[r] : results' = [results EXCEPT ![r] = S]
    /\ Goto(r, "finished")
    /\ UNCHANGED <<world, request, entry, sent, took>>

\* Mutation: the entry of a run with nothing confirmed is left open.
FinishLogSome(r) ==
    /\ pc[r] = "finished"
    /\ audit' = IF results[r] = {} THEN audit ELSE [audit EXCEPT ![r] = "done"]
    /\ Goto(r, "done")
    /\ UNCHANGED <<world, request, job, id, sha, sent, report>>

\* audit.record_finish stores the outcome and the results.
FinishLog(r) ==
    /\ pc[r] = "finished"
    /\ \E s \in {"done", "failed"} : audit' = [audit EXCEPT ![r] = s]
    /\ Goto(r, "done")
    /\ UNCHANGED <<world, request, job, id, sha, sent, report>>

\* What it raises is dropped: the entry stays open, without results.
FinishLogFails(r) ==
    /\ pc[r] = "finished"
    /\ Goto(r, "unlogged")
    /\ UNCHANGED <<world, request, job, entry, sent, report>>

-----------------------------------------------------------------------------
\* A restart empties both stores and ends requests, workers and playbooks;
\* mark_interrupted closes their entries.
Restart ==
    /\ restarts < MaxRestarts
    /\ restarts' = restarts + 1
    /\ pc' = [r \in Request |-> IF Handling(r) \/ pc[r] \in {"working", "finished"}
                                THEN "dead" ELSE pc[r]]
    /\ job' = [r \in Request |-> "none"]
    /\ audit' = [r \in Request |-> IF audit[r] = "running" THEN "interrupted"
                                   ELSE audit[r]]
    /\ UNCHANGED <<owner, config, running, transfers, request, id, sha, sent, report>>

\* Every request has been answered, and the server waits for more.
Idle == /\ \A r \in Request : pc[r] \in {"refused", "failed", "done", "unlogged", "dead"}
        /\ UNCHANGED vars

Answer(r) == \/ CheckPushes(r) \/ CheckUpgrades(r) \/ Log(r) \/ LogFails(r)
             \/ Insert(r) \/ Start(r)
Work(r) == \/ \E h \in Host : Read(r, h) \/ Confirm(r, h)
           \/ Finish(r) \/ FinishLog(r) \/ FinishLogFails(r)

Next == \/ \E h \in Host : Regenerate(h)
        \/ Transfer
        \/ \E r \in Request : Arrive(r) \/ Answer(r) \/ Work(r)
        \/ Restart
        \/ Idle

\* Threads keep running, and a playbook ends by itself or is killed at
\* DEPLOY_TIMEOUT_SECS or its firmware counterpart.
Fairness == \A r \in Request : WF_vars(Answer(r) \/ Work(r))

Spec == Init /\ [][Next]_vars /\ Fairness

-----------------------------------------------------------------------------
(***************************************************************************)
(* Properties                                                              *)
(***************************************************************************)
Labels == {"new", "checking", "checking2", "logging", "inserting", "starting",
           "working", "finished", "refused", "failed", "done",
           "unlogged", "dead"}

PerHost == [Host -> 0..MaxVersion \cup {None}]

\* Every variable keeps its type, and entries have ids of their own.
TypeOK ==
    /\ owner \in Owner
    /\ config \in [Host -> 0..MaxVersion]
    /\ running \in PerHost
    /\ transfers \in 0..MaxTransfers /\ restarts \in 0..MaxRestarts
    /\ pc \in [Request -> Labels]
    /\ kind \in [Request -> {"none", "dryrun", "push", "firmware"}]
    /\ hosts \in [Request -> SUBSET Host]
    /\ key \in [Request -> Owner \cup {None}]
    /\ job \in [Request -> {"none", "unfinished", "finished"}]
    /\ audit \in [Request -> {"none", "running", "done", "failed", "interrupted"}]
    /\ id \in [Request -> Nat]
    /\ \A q, r \in Request : q # r /\ id[q] = id[r] => id[q] = 0
    /\ sha \in [Request -> PerHost]
    /\ sent \in [Request -> PerHost]
    /\ took \in [Request -> SUBSET Host] /\ results \in [Request -> SUBSET Host]

\* r's worker is changing its switches.
Changing(r) == pc[r] = "working" /\ kind[r] \in {"push", "firmware"}

\* "a switch being pushed to or upgraded can't be pushed to or upgraded
\* again until that finishes" (README): two pushes or upgrades that one
\* owner's project has started never work on one switch together.
ExclusiveSwitch ==
    \A q, r \in Request :
        (q # r /\ Changing(q) /\ Changing(r) /\ key[q] = key[r])
            => hosts[q] \cap hosts[r] = {}

\* Mutation: a push counts for every switch it was for.
ConfirmedOrNot(r, h) == /\ kind[r] = "push" /\ audit[r] \in {"done", "failed"}
                        /\ sha[r][h] # None

\* last_pushed: the newest push that confirmed h, by entry id.
Confirmed(r, h) == /\ kind[r] = "push" /\ audit[r] \in {"done", "failed"}
                   /\ h \in results[r]
LastPush(h) == {r \in Request : /\ Confirmed(r, h)
                                /\ \A q \in Request : Confirmed(q, h) => id[q] <= id[r]}

\* The Deploy page calls h "Same as last push".
Same(h) == \E r \in LastPush(h) : sha[r][h] = config[h]
AtRest(h) == \A r \in Request : pc[r] \in {"working", "finished"} => h \notin hosts[r]

\* The log does not know that h confirmed a push after r: a restart cut that
\* one off, its result of h was lost, or its entry could not be closed.
Lost(r, h) == \E q \in Request : id[q] > id[r] /\ h \in took[q] /\ ~Confirmed(q, h)
\* The project changed hands after a job on h had begun.
HandedOver(h) == \E r \in Request : h \in hosts[r] /\ key[r] # owner

\* "already have their current config from the last push" (Deploy page): such
\* a switch, when no worker is at it, does run the config on disk.  That
\* needs the entries to be in the order of the pushes and to name what each
\* confirmed: no file changed before it was sent, and jobs that saw each
\* other.  Of a later push whose confirmation was lost the page cannot know.
SameIsOnSwitch ==
    \A h \in Host :
        (/\ Same(h) /\ AtRest(h) /\ ~HandedOver(h)
         /\ \A r \in LastPush(h) : sha[r][h] = sent[r][h] /\ ~Lost(r, h))
            => running[h] = config[h]

\* "Unfinished until mark_finished, which every path through a job's worker
\* reaches": once its worker has started, a job does not keep its switches
\* from other pushes and upgrades; and the entry of a push, dry run or upgrade
\* is settled by the end of the run or by a restart, unless its end cannot be
\* written: it then says "running" until the server restarts.
JobSettles == \A r \in Request :
    /\ (pc[r] = "working") ~> (job[r] # "unfinished")
    /\ (audit[r] = "running") ~> (audit[r] # "running" \/ pc[r] = "unlogged")
=============================================================================
