----------------------------- MODULE GenerateJobs -----------------------------
(***************************************************************************)
(* Config generation for one project: projects.run_generate, its worker    *)
(* thread, docker_runner.run_generate, the audit entry of a run, and what  *)
(* record_generated_from leaves for the staleness check.  Saves and config *)
(* deletions by other requests interleave with every step of a run, and    *)
(* the server may restart at any point.                                    *)
(*                                                                         *)
(* A switch's saved host_vars are a version number, and a config is the    *)
(* version it was generated from: the fingerprint and the file hash tell   *)
(* versions apart, as they do unless a save puts earlier text back.  A     *)
(* switch has one config (one --tags selection).                           *)
(***************************************************************************)
EXTENDS Naturals

CONSTANTS Host,        \* the switches looked at, among those of the project
          Run,         \* the generation requests, each made once
          MaxVersion,  \* bound: saves of a switch
          MaxRestarts, \* bound: restarts of the server
          None         \* no config, no record

ASSUME VersionAssumption == MaxVersion \in Nat /\ MaxRestarts \in Nat
ASSUME NoneAssumption == None \notin Nat

VARIABLES
    saved,     \* saved[h]: the version of h's host_vars on disk
    config,    \* config[h]: the version h's config on disk was made from
    recorded,  \* recorded[h]: generated_from in the project's document
    restarts,
    pc,        \* pc[r]: where r's request, then its worker, has got to
    ok,        \* ok[r]: the job ended with return code 0
    audit,     \* audit[r]: status of r's audit entry
    scope,     \* scope[r]: the switches named by the run's limit
    before, starting, after,  \* what the worker's closure holds
    out,       \* out[r]: the container's copy of generated_configs
    todo       \* todo[r]: configs of out[r] not yet mirrored

files == <<saved, config, recorded>>
locals == <<scope, before, starting, after, out, todo>>
vars == <<files, restarts, pc, ok, audit, locals>>

Version == 0..MaxVersion
Blank == [h \in Host |-> None]

Goto(r, label) == pc' = [pc EXCEPT ![r] = label]

\* What a thread held goes with it.
Ended(label) == label \in {"done", "dead", "stuck"}
Forget ==
    LET Keep(f, blank) == [r \in Run |-> IF Ended(pc'[r]) THEN blank ELSE f[r]] IN
      /\ scope' = Keep(scope, {})
      /\ before' = Keep(before, Blank)
      /\ starting' = Keep(starting, Blank)
      /\ after' = Keep(after, Blank)
      /\ out' = Keep(out, Blank)
      /\ todo' = Keep(todo, {})

Init ==
    /\ saved = [h \in Host |-> 0]
    /\ config = Blank
    /\ recorded = Blank
    /\ restarts = 0
    /\ pc = [r \in Run |-> "new"]
    /\ ok = [r \in Run |-> FALSE]
    /\ audit = [r \in Run |-> "none"]
    /\ scope = [r \in Run |-> {}]
    /\ before = [r \in Run |-> Blank]
    /\ starting = [r \in Run |-> Blank]
    /\ after = [r \in Run |-> Blank]
    /\ out = [r \in Run |-> Blank]
    /\ todo = [r \in Run |-> {}]

\* In the job store without _finished_at.
Unfinished(r) == pc[r] \in {"admitted", "stuck", "prepared", "copied",
                            "mirroring", "output"}

-----------------------------------------------------------------------------
(***************************************************************************)
(* Other requests.                                                         *)
(***************************************************************************)
\* save_all_hostvars writes a switch's settings.
Save(h) ==
    /\ saved[h] < MaxVersion
    /\ saved' = [saved EXCEPT ![h] = @ + 1]
    /\ UNCHANGED <<config, recorded, restarts, pc, ok, audit, locals>>

\* delete_config; the record of the config stays.
DeleteConfig(h) ==
    /\ config[h] # None
    /\ config' = [config EXCEPT ![h] = None]
    /\ UNCHANGED <<saved, recorded, restarts, pc, ok, audit, locals>>

(***************************************************************************)
(* The request.                                                            *)
(***************************************************************************)
\* Mutation: the job goes in without a look at the others.
RequestUnchecked(r) ==
    /\ pc[r] = "new"
    /\ \E S \in SUBSET Host : scope' = [scope EXCEPT ![r] = S]
    /\ Goto(r, "admitted")
    /\ UNCHANGED <<files, restarts, ok, audit, before, starting, after, out, todo>>

\* One critical section of _jobs_lock looks for a running job and adds this.
\* The run's limit may name none of the switches looked at, only others.
Request(r) ==
    /\ pc[r] = "new"
    /\ IF \E q \in Run : Unfinished(q)
         THEN Goto(r, "refused") /\ UNCHANGED scope
         ELSE /\ \E S \in SUBSET Host : scope' = [scope EXCEPT ![r] = S]
              /\ Goto(r, "admitted")
    /\ UNCHANGED <<files, restarts, ok, audit, before, starting, after, out, todo>>

\* The configs as they stand, the fingerprints of the switches in scope, the
\* audit entry; then the worker thread starts.
Prepare(r) ==
    /\ pc[r] = "admitted"
    /\ before' = [before EXCEPT ![r] = config]
    /\ starting' = [starting EXCEPT ![r] =
                      [h \in Host |-> IF h \in scope[r] THEN saved[h] ELSE None]]
    /\ audit' = [audit EXCEPT ![r] = "running"]
    /\ Goto(r, "prepared")
    /\ UNCHANGED <<files, restarts, ok, scope, after, out, todo>>

\* Anything raised here ends the request, with the job left in the store.
PrepareFails(r) ==
    /\ pc[r] = "admitted"
    /\ Goto(r, "stuck")
    /\ Forget
    /\ UNCHANGED <<files, restarts, ok, audit>>

-----------------------------------------------------------------------------
(***************************************************************************)
(* The worker thread and the container.                                    *)
(***************************************************************************)
\* The project is copied into the container, whose playbook rewrites the
\* configs in scope: all of them when it succeeds, any of them when not.
Archive(r) ==
    /\ pc[r] = "prepared"
    /\ \E good \in BOOLEAN, W \in SUBSET scope[r] :
         /\ good => W = scope[r]
         /\ ok' = [ok EXCEPT ![r] = good]
         /\ out' = [out EXCEPT ![r] =
                      [h \in Host |-> IF h \in W THEN saved[h] ELSE config[h]]]
    /\ Goto(r, "copied")
    /\ UNCHANGED <<files, restarts, audit, scope, before, starting, after, todo>>

\* The container ends and its output directory is read back.
Collect(r) ==
    /\ pc[r] = "copied"
    /\ todo' = [todo EXCEPT ![r] = Host]
    /\ Goto(r, "mirroring")
    /\ UNCHANGED <<files, restarts, ok, audit, scope, before, starting, after, out>>

\* Mutation: an exception from Docker gets past the worker's handlers.
NoOutputUncaught(r) ==
    /\ pc[r] \in {"prepared", "copied", "mirroring"}
    /\ Goto(r, "stuck")
    /\ Forget
    /\ UNCHANGED <<files, restarts, ok, audit>>

\* Docker missing, no image, the deadline, output refused, or a write that
\* fails part way, here or at another switch's file: the run ends with return
\* code -1 and no more is mirrored.
NoOutput(r) ==
    /\ pc[r] \in {"prepared", "copied", "mirroring"}
    /\ ok' = [ok EXCEPT ![r] = FALSE]
    /\ todo' = [todo EXCEPT ![r] = {}]
    /\ Goto(r, "output")
    /\ UNCHANGED <<files, restarts, audit, scope, before, starting, after, out>>

\* _mirror_outputs: each file is replaced, then those not in the output go.
Mirror(r, h) ==
    /\ pc[r] = "mirroring"
    /\ h \in todo[r]
    /\ out[r][h] = None => \A g \in todo[r] : out[r][g] = None
    /\ config' = [config EXCEPT ![h] = out[r][h]]
    /\ todo' = [todo EXCEPT ![r] = @ \ {h}]
    /\ UNCHANGED <<saved, recorded, restarts, pc, ok, audit, scope, before,
                   starting, after, out>>

Mirrored(r) ==
    /\ pc[r] = "mirroring" /\ todo[r] = {}
    /\ Goto(r, "output")
    /\ UNCHANGED <<files, restarts, ok, audit, locals>>

\* The job's result and mark_finished: from here a new run is let in.
MarkFinished(r) ==
    /\ pc[r] = "output"
    /\ Goto(r, "finished")
    /\ UNCHANGED <<files, restarts, ok, audit, locals>>

\* Mutation: record_finish stores whatever status the job has.
FinishLogRaw(r) ==
    /\ pc[r] = "finished"
    /\ after' = [after EXCEPT ![r] = config]
    /\ audit' = [audit EXCEPT ![r] = IF ok[r] THEN "done" ELSE "error"]
    /\ Goto(r, "logged")
    /\ UNCHANGED <<files, restarts, ok, scope, before, starting, out, todo>>

\* The configs are hashed again and the audit entry is completed.
FinishLog(r) ==
    /\ pc[r] = "finished"
    /\ after' = [after EXCEPT ![r] = config]
    /\ audit' = [audit EXCEPT ![r] = IF ok[r] THEN "done" ELSE "failed"]
    /\ Goto(r, "logged")
    /\ UNCHANGED <<files, restarts, ok, scope, before, starting, out, todo>>

\* The log cannot be written: "never let the log take down the job's own result",
\* so the worker goes on, and the entry still says running.
FinishLogFails(r) ==
    /\ pc[r] = "finished"
    /\ after' = [after EXCEPT ![r] = config]
    /\ Goto(r, "unlogged")
    /\ UNCHANGED <<files, restarts, ok, audit, scope, before, starting, out, todo>>

Hashed(r) == pc[r] \in {"logged", "unlogged"}

\* What the run changed of h: its file is new or another one.
Changed(r, h) == after[r][h] # None /\ before[r][h] # after[r][h]

\* Mutation: a failed run records the switches it did not get to as well.
RecordAll(r) ==
    /\ Hashed(r)
    /\ recorded' = [h \in Host |->
         IF config[h] = None THEN None
         ELSE IF h \in scope[r] /\ after[r][h] # None THEN starting[r][h]
         ELSE recorded[h]]
    /\ Goto(r, "done")
    /\ Forget
    /\ UNCHANGED <<saved, config, restarts, ok, audit>>

\* record_generated_from, under the project lock: the configs made here get
\* the fingerprint of the start; entries whose config has gone are dropped.
Record(r) ==
    /\ Hashed(r)
    /\ recorded' = [h \in Host |->
         IF config[h] = None THEN None
         ELSE IF h \in scope[r] /\ after[r][h] # None /\ (ok[r] \/ Changed(r, h))
                THEN starting[r][h]
         ELSE recorded[h]]
    /\ Goto(r, "done")
    /\ Forget
    /\ UNCHANGED <<saved, config, restarts, ok, audit>>

\* What it raises is dropped as well.
RecordFails(r) ==
    /\ Hashed(r)
    /\ Goto(r, "done")
    /\ Forget
    /\ UNCHANGED <<files, restarts, ok, audit>>

-----------------------------------------------------------------------------
\* A restart ends every request and worker (containers are cleaned up) and
\* empties the job store; mark_interrupted then closes the open entries.
\* Mutation: it does not.
RestartForgets ==
    /\ restarts < MaxRestarts
    /\ restarts' = restarts + 1
    /\ pc' = [r \in Run |-> IF pc[r] \in {"new", "refused", "done"} THEN pc[r]
                            ELSE "dead"]
    /\ Forget
    /\ UNCHANGED <<files, ok, audit>>

Restart ==
    /\ restarts < MaxRestarts
    /\ restarts' = restarts + 1
    /\ pc' = [r \in Run |-> IF pc[r] \in {"new", "refused", "done"} THEN pc[r]
                            ELSE "dead"]
    /\ audit' = [r \in Run |-> IF audit[r] = "running" THEN "interrupted"
                               ELSE audit[r]]
    /\ Forget
    /\ UNCHANGED <<files, ok>>

Step(r) == \/ Prepare(r) \/ PrepareFails(r) \/ Archive(r) \/ Collect(r)
           \/ NoOutput(r) \/ (\E h \in Host : Mirror(r, h)) \/ Mirrored(r)
           \/ MarkFinished(r) \/ FinishLog(r) \/ FinishLogFails(r)
           \/ Record(r) \/ RecordFails(r)

\* Every request has been answered, and the server waits for more.
Idle == /\ \A r \in Run : pc[r] \in {"refused", "stuck", "done", "dead"}
        /\ UNCHANGED vars

Next == \/ \E h \in Host : Save(h) \/ DeleteConfig(h)
        \/ \E r \in Run : Request(r) \/ Step(r)
        \/ Restart
        \/ Idle

\* A request that was let in, and then its worker thread, keep running; the
\* playbook ends, by itself or at GENERATE_TIMEOUT_SECS.
Fairness == \A r \in Run : WF_vars(Step(r))

Spec == Init /\ [][Next]_vars /\ Fairness

-----------------------------------------------------------------------------
(***************************************************************************)
(* Properties                                                              *)
(***************************************************************************)
Labels == {"new", "refused", "admitted", "stuck", "prepared", "copied",
           "mirroring", "output", "finished", "logged", "unlogged", "done", "dead"}

PerHost == [Host -> Version \cup {None}]

\* Every variable keeps its type; an entry's status is one History knows.
TypeOK ==
    /\ saved \in [Host -> Version]
    /\ config \in PerHost
    /\ recorded \in PerHost
    /\ restarts \in 0..MaxRestarts
    /\ pc \in [Run -> Labels]
    /\ ok \in [Run -> BOOLEAN]
    /\ audit \in [Run -> {"none", "running", "done", "failed", "interrupted"}]
    /\ scope \in [Run -> SUBSET Host]
    /\ before \in [Run -> PerHost]
    /\ starting \in [Run -> PerHost]
    /\ after \in [Run -> PerHost]
    /\ out \in [Run -> PerHost]
    /\ todo \in [Run -> SUBSET Host]

\* A config is never recorded as made from newer settings than it was, which
\* would hide that it predates a change: whatever is saved or deleted during
\* a run, however a run fails, and though a worker still records while the
\* next run is already going.
RecordedNotNewer ==
    \A h \in Host : (config[h] # None /\ recorded[h] # None)
                        => recorded[h] <= config[h]

\* "Two runs at once would each mirror their output over the other's": no
\* config is ever put back to one made from older settings.
ConfigNeverOlder ==
    [][\A h \in Host : (config[h] # None /\ config'[h] # None)
                           => config'[h] >= config[h]]_vars

\* mark_finished is what "every path through a job's worker reaches": once
\* the worker has started, whatever Docker, the playbook or the output does,
\* the job does not keep every later run of the project out; and its audit entry
\* does not stay "running", but is settled by the end of the run or by a restart,
\* unless the log cannot be written when the run ends.
RunSettles == \A r \in Run :
    /\ (pc[r] = "prepared") ~> ~Unfinished(r)
    /\ (pc[r] = "prepared") ~> (audit[r] # "running" \/ pc[r] = "unlogged")
=============================================================================
