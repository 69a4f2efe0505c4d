-------------------------- MODULE GenerateJobsProofs --------------------------
(***************************************************************************)
(* No config is put back to an older one, and none is recorded as made     *)
(* from newer settings than it was, for any number of switches, runs,      *)
(* saves and restarts.                                                     *)
(***************************************************************************)
EXTENDS GenerateJobs, TLAPS

-----------------------------------------------------------------------------
(* The invariant. *)

\* The one critical section of the request lets one run in at a time.
OneRun == \A q, r \in Run : Unfinished(q) /\ Unfinished(r) => q = r

\* v is no config, or one made from the settings of version w or newer.
Since(w, v) == v # None => w <= v

FilesNotAhead ==
    \A h \in Host : /\ config[h] # None => config[h] <= saved[h]
                    /\ recorded[h] # None => recorded[h] <= saved[h]

\* The container has made a config of h that is not mirrored yet.
Pending(q, h) == pc[q] = "copied" \/ (pc[q] = "mirroring" /\ h \in todo[q])

\* What is about to be mirrored is no older than what it replaces.
PendingNotOlder ==
    \A q \in Run, h \in Host : Pending(q, h) =>
        /\ config[h] # None => out[q][h] # None /\ config[h] <= out[q][h]
        /\ out[q][h] # None => out[q][h] <= saved[h]
        /\ recorded[h] # None => Since(recorded[h], out[q][h])

Started == {"prepared", "copied", "mirroring", "output", "finished", "logged", "unlogged"}

StartedBefore ==
    \A r \in Run : pc[r] \in Started =>
        \A h \in scope[r] : starting[r][h] # None /\ starting[r][h] <= saved[h]

\* A config of a switch in r's scope that r did not find there was made since
\* r started, by r or by a later run.
New(r, h, v) == v = before[r][h] \/ Since(starting[r][h], v)
NewSinceStart ==
    \A r \in Run : pc[r] \in Started /\ ~Hashed(r) =>
        \A h \in scope[r] : /\ New(r, h, config[h])
                            /\ \A q \in Run : Pending(q, h) => New(r, h, out[q][h])

\* What r may record the start of: all it made, when it succeeded.
Recordable(r, h) ==
    \/ ok[r] /\ pc[r] \in {"copied", "mirroring"} /\ ~Pending(r, h)
    \/ ok[r] /\ (pc[r] \in {"output", "finished"} \/ Hashed(r))
    \/ Hashed(r) /\ Changed(r, h)
RecordableIsNew ==
    \A r \in Run : \A h \in scope[r] :
        /\ Recordable(r, h) =>
             /\ Since(starting[r][h], config[h])
             /\ \A q \in Run : Pending(q, h) => Since(starting[r][h], out[q][h])
        /\ ok[r] /\ Pending(r, h) => Since(starting[r][h], out[r][h])

IInv == /\ TypeOK /\ OneRun /\ FilesNotAhead /\ RecordedNotNewer /\ PendingNotOlder
        /\ StartedBefore /\ NewSinceStart /\ RecordableIsNew

LEMMA InitIInv == Init => IInv
BY NoneAssumption, VersionAssumption
   DEF Init, IInv, TypeOK, OneRun, FilesNotAhead, RecordedNotNewer,
       PendingNotOlder, StartedBefore, NewSinceStart, RecordableIsNew, Unfinished,
       Pending, Started, Recordable, Hashed, Changed, Labels, PerHost, Version, Blank

-----------------------------------------------------------------------------
(* Types. *)

\* What a thread that has ended held is blank, and the rest is as it was.
LEMMA ForgetFacts ==
    ASSUME TypeOK, Forget, pc' \in [Run -> Labels]
    PROVE  /\ scope' \in [Run -> SUBSET Host] /\ todo' \in [Run -> SUBSET Host]
           /\ before' \in [Run -> PerHost] /\ starting' \in [Run -> PerHost]
           /\ after' \in [Run -> PerHost] /\ out' \in [Run -> PerHost]
           /\ \A r \in Run : ~Ended(pc'[r]) =>
                /\ scope'[r] = scope[r] /\ todo'[r] = todo[r]
                /\ before'[r] = before[r] /\ starting'[r] = starting[r]
                /\ after'[r] = after[r] /\ out'[r] = out[r]
           /\ \A r \in Run : Ended(pc'[r]) => scope'[r] = {}
<1>1. Blank \in PerHost
  BY DEF Blank, PerHost
<1> QED BY <1>1 DEF TypeOK, Forget

LEMMA TypeStep == TypeOK /\ [Next]_vars => TypeOK'
<1> SUFFICES ASSUME TypeOK, [Next]_vars PROVE TypeOK'
  OBVIOUS
<1> USE VersionAssumption DEF Goto, files, locals
<1>1. ASSUME NEW h \in Host, Save(h) PROVE TypeOK'
  BY <1>1 DEF Save, TypeOK, Version, PerHost
<1>2. ASSUME NEW h \in Host, DeleteConfig(h) PROVE TypeOK'
  BY <1>2 DEF DeleteConfig, TypeOK, PerHost
<1>3. ASSUME NEW r \in Run, Request(r) PROVE TypeOK'
  BY <1>3 DEF Request, TypeOK, Labels
<1>4. ASSUME NEW r \in Run, Prepare(r) PROVE TypeOK'
  <2>1. [h \in Host |-> IF h \in scope[r] THEN saved[h] ELSE None] \in PerHost
    BY DEF TypeOK, PerHost
  <2> QED BY <1>4, <2>1 DEF Prepare, TypeOK, Labels
<1>5. ASSUME NEW r \in Run, PrepareFails(r) PROVE TypeOK'
  <2>1. pc' \in [Run -> Labels]
    BY <1>5 DEF PrepareFails, TypeOK, Labels
  <2> QED BY <1>5, <2>1, ForgetFacts DEF PrepareFails, TypeOK
<1>6. ASSUME NEW r \in Run, Archive(r) PROVE TypeOK'
  <2>1. PICK good \in BOOLEAN, W \in SUBSET scope[r] :
          /\ ok' = [ok EXCEPT ![r] = good]
          /\ out' = [out EXCEPT ![r] =
                       [h \in Host |-> IF h \in W THEN saved[h] ELSE config[h]]]
    BY <1>6 DEF Archive
  <2>2. [h \in Host |-> IF h \in W THEN saved[h] ELSE config[h]] \in PerHost
    BY DEF TypeOK, PerHost
  <2> QED BY <1>6, <2>1, <2>2 DEF Archive, TypeOK, Labels
<1>7. ASSUME NEW r \in Run, Collect(r) PROVE TypeOK'
  BY <1>7 DEF Collect, TypeOK, Labels
<1>8. ASSUME NEW r \in Run, NoOutput(r) PROVE TypeOK'
  BY <1>8 DEF NoOutput, TypeOK, Labels
<1>9. ASSUME NEW r \in Run, NEW h \in Host, Mirror(r, h) PROVE TypeOK'
  BY <1>9 DEF Mirror, TypeOK, PerHost
<1>10. ASSUME NEW r \in Run, Mirrored(r) \/ MarkFinished(r) PROVE TypeOK'
  BY <1>10 DEF Mirrored, MarkFinished, TypeOK, Labels
<1>11. ASSUME NEW r \in Run, FinishLog(r) \/ FinishLogFails(r) PROVE TypeOK'
  BY <1>11 DEF FinishLog, FinishLogFails, TypeOK, Labels
<1>12. ASSUME NEW r \in Run, Record(r) \/ RecordFails(r) PROVE TypeOK'
  <2>1. pc' \in [Run -> Labels]
    BY <1>12 DEF Record, RecordFails, TypeOK, Labels
  <2>2. recorded' \in PerHost
    BY <1>12 DEF Record, RecordFails, TypeOK, PerHost
  <2> QED BY <1>12, <2>1, <2>2, ForgetFacts DEF Record, RecordFails, TypeOK
<1>13. ASSUME Restart PROVE TypeOK'
  <2>1. pc' \in [Run -> Labels]
    BY <1>13 DEF Restart, TypeOK, Labels
  <2>2. /\ audit' \in [Run -> {"none", "running", "done", "failed", "interrupted"}]
        /\ restarts' \in 0..MaxRestarts
    BY <1>13 DEF Restart, TypeOK
  <2> QED BY <1>13, <2>1, <2>2, ForgetFacts DEF Restart, TypeOK
<1>14. CASE UNCHANGED vars
  BY <1>14 DEF TypeOK, vars
<1> QED
  BY <1>1, <1>2, <1>3, <1>4, <1>5, <1>6, <1>7, <1>8, <1>9, <1>10, <1>11, <1>12,
     <1>13, <1>14
  DEF Next, Step, Idle
-----------------------------------------------------------------------------
(* Steps. *)

\* A step that changes no file and takes each run on without giving it
\* anything: requests, steps on the way to the next file, failures, restarts.
LEMMA QuietIInv ==
    ASSUME IInv, TypeOK', OneRun', UNCHANGED files,
           \A r \in Run : pc'[r] \in Started =>
               /\ pc[r] \in Started /\ (Hashed(r)' <=> Hashed(r))
               /\ scope'[r] = scope[r] /\ starting'[r] = starting[r]
               /\ before'[r] = before[r] /\ out'[r] = out[r]
               /\ \A h \in Host : /\ Pending(r, h)' => Pending(r, h)
                                  /\ ok'[r] /\ Pending(r, h)' => ok[r]
                                  /\ Recordable(r, h)' => Recordable(r, h)
    PROVE  IInv'
<1> USE DEF IInv, TypeOK, files
<1>1. FilesNotAhead' /\ RecordedNotNewer'
  BY DEF FilesNotAhead, RecordedNotNewer
<1>2. \A r \in Run, h \in Host : Pending(r, h)' => Pending(r, h) /\ out'[r] = out[r]
  BY DEF Pending, Started
<1>3. PendingNotOlder'
  BY <1>2 DEF PendingNotOlder, Since
<1>4. StartedBefore'
  BY DEF StartedBefore
<1>5. NewSinceStart'
  BY <1>2 DEF NewSinceStart, New, Since
<1>6. RecordableIsNew'
  <2> SUFFICES ASSUME NEW r \in Run, NEW h \in scope'[r],
                      Recordable(r, h)' \/ (ok'[r] /\ Pending(r, h)')
               PROVE  /\ h \in scope[r] /\ starting'[r] = starting[r] /\ out'[r] = out[r]
                      /\ Recordable(r, h)' => Recordable(r, h)
                      /\ ok'[r] /\ Pending(r, h)' => ok[r] /\ Pending(r, h)
    BY <1>2 DEF RecordableIsNew, Since
  <2>1. pc'[r] \in Started
    BY DEF Recordable, Hashed, Pending, Started
  <2> QED BY <2>1
<1> QED BY <1>1, <1>3, <1>4, <1>5, <1>6

\* What r has before it makes configs is no other run's business.
LEMMA PrepareIInv == ASSUME IInv, TypeOK', NEW r \in Run, Prepare(r) PROVE IInv'
<1> USE DEF IInv, TypeOK, Prepare, Goto, files
<1>1. OneRun'
  BY DEF OneRun, Unfinished
<1>2. FilesNotAhead' /\ RecordedNotNewer'
  BY DEF FilesNotAhead, RecordedNotNewer
<1>3. \A q \in Run, h \in Host : ~Pending(q, h) /\ ~Pending(q, h)'
  BY DEF OneRun, Unfinished, Pending
<1>4. PendingNotOlder'
  BY <1>3 DEF PendingNotOlder
<1>5. StartedBefore'
  BY VersionAssumption, NoneAssumption DEF StartedBefore, Version, Started
<1>6. NewSinceStart'
  BY <1>3 DEF NewSinceStart, New, Since, Started, Hashed
<1>7. RecordableIsNew'
  BY <1>3 DEF RecordableIsNew, Recordable, Hashed, Since, Changed
<1> QED BY <1>1, <1>2, <1>4, <1>5, <1>6, <1>7

\* The container's configs are those on disk, or made from today's settings.
LEMMA ArchiveIInv == ASSUME IInv, TypeOK', NEW r \in Run, Archive(r) PROVE IInv'
<1> USE DEF IInv, TypeOK, Goto, files
<1>1. /\ pc[r] = "prepared" /\ pc' = [pc EXCEPT ![r] = "copied"]
      /\ UNCHANGED <<files, scope, before, starting, after, todo>>
      /\ \A q \in Run \ {r} : ok'[q] = ok[q] /\ out'[q] = out[q]
      /\ \A h \in Host : /\ out'[r][h] \in {saved[h], config[h]}
                         /\ ok'[r] /\ h \in scope[r] => out'[r][h] = saved[h]
  BY DEF Archive
<1>2. OneRun'
  BY <1>1 DEF OneRun, Unfinished
<1>3. FilesNotAhead' /\ RecordedNotNewer'
  BY <1>1 DEF FilesNotAhead, RecordedNotNewer
<1>4. \A q \in Run, h \in Host : ~Pending(q, h) /\ (Pending(q, h)' => q = r)
  BY <1>1 DEF OneRun, Unfinished, Pending
<1>5. PendingNotOlder'
  <2> SUFFICES ASSUME NEW h \in Host
               PROVE  /\ config[h] # None => out'[r][h] # None /\ config[h] <= out'[r][h]
                      /\ out'[r][h] # None => out'[r][h] <= saved[h]
                      /\ recorded[h] # None => Since(recorded[h], out'[r][h])
    BY <1>1, <1>4 DEF PendingNotOlder, Since
  <2>1. saved[h] \in Nat /\ saved[h] # None
    BY VersionAssumption, NoneAssumption DEF Version
  <2>2. CASE out'[r][h] = saved[h]
    BY <2>1, <2>2 DEF FilesNotAhead, Since
  <2>3. CASE out'[r][h] = config[h]
    <3>1. config[h] # None => config[h] \in Nat
      BY VersionAssumption DEF PerHost, Version
    <3> QED BY <2>3, <3>1 DEF FilesNotAhead, RecordedNotNewer, Since
  <2> QED BY <1>1, <2>2, <2>3
<1>6. StartedBefore'
  BY <1>1 DEF StartedBefore, Started
<1>7. \A x \in Run : pc'[x] \in Started => pc[x] \in Started
  BY <1>1 DEF Started
<1>8. NewSinceStart'
  <2> SUFFICES ASSUME NEW x \in Run, pc'[x] \in Started, ~Hashed(x)',
                      NEW h \in scope[x]
               PROVE  New(x, h, config[h])' /\ New(x, h, out[r][h])'
    BY <1>1, <1>4 DEF NewSinceStart
  <2>1. pc[x] \in Started /\ ~Hashed(x)
    BY <1>1, <1>7 DEF Hashed
  <2>2. starting[x][h] <= saved[h] /\ New(x, h, config[h])
    BY <2>1 DEF StartedBefore, NewSinceStart
  <2> QED BY <2>2, <1>1 DEF New, Since
<1>9. RecordableIsNew'
  <2> SUFFICES ASSUME NEW x \in Run, NEW h \in scope[x],
                      Recordable(x, h)' \/ (ok'[x] /\ Pending(x, h)')
               PROVE  /\ Recordable(x, h)' => Since(starting[x][h], config[h])
                      /\ Since(starting[x][h], out'[r][h])
    BY <1>1, <1>4 DEF RecordableIsNew, Since
  <2>1. pc[x] \in Started
    BY <1>1 DEF Recordable, Hashed, Pending, Started
  <2>2. starting[x][h] <= saved[h]
    BY <2>1 DEF StartedBefore
  <2>3. CASE x = r
    BY <2>2, <2>3, <1>1 DEF Recordable, Hashed, Pending, Since
  <2>4. CASE x # r
    <3>1. Recordable(x, h)
      BY <2>4, <1>1, <1>4 DEF Recordable, Hashed, Pending, Changed
    <3> QED BY <3>1, <2>2, <1>1 DEF RecordableIsNew, Since
  <2> QED BY <2>3, <2>4
<1> QED BY <1>2, <1>3, <1>5, <1>6, <1>8, <1>9

\* Other runs have ended their mirroring, and what they may still record is
\* older than what r mirrors.
LEMMA MirrorIInv ==
    ASSUME IInv, TypeOK', NEW r \in Run, NEW h \in Host, Mirror(r, h) PROVE IInv'
<1> USE DEF IInv, TypeOK
<1>1. /\ pc[r] = "mirroring" /\ h \in todo[r]
      /\ config'[h] = out[r][h] /\ \A g \in Host \ {h} : config'[g] = config[g]
      /\ todo'[r] = todo[r] \ {h} /\ \A q \in Run \ {r} : todo'[q] = todo[q]
      /\ UNCHANGED <<saved, recorded, pc, ok, scope, before, starting, after, out>>
  BY DEF Mirror, PerHost
<1>2. OneRun'
  BY <1>1 DEF OneRun, Unfinished
<1>3. Pending(r, h)
  BY <1>1 DEF Pending
<1>4. \A q \in Run, g \in Host : Pending(q, g)' <=> Pending(q, g) /\ g # h
  BY <1>1 DEF OneRun, Unfinished, Pending
<1>5. FilesNotAhead' /\ RecordedNotNewer'
  BY <1>1, <1>3 DEF PendingNotOlder, FilesNotAhead, RecordedNotNewer, Since
<1>6. PendingNotOlder'
  BY <1>1, <1>4 DEF PendingNotOlder, Since
<1>7. StartedBefore'
  BY <1>1 DEF StartedBefore
<1>8. NewSinceStart'
  BY <1>1, <1>3, <1>4 DEF NewSinceStart, New, Since, Hashed
<1>9. RecordableIsNew'
  <2> SUFFICES ASSUME NEW x \in Run, NEW g \in scope[x], Recordable(x, g)'
               PROVE  /\ Since(starting[x][g], config'[g])
                      /\ \A q \in Run : Pending(q, g)' => Since(starting[x][g], out[q][g])
    BY <1>1, <1>4 DEF RecordableIsNew, Since
  <2>1. CASE Recordable(x, g)
    BY <2>1, <1>1, <1>3, <1>4 DEF RecordableIsNew
  <2>2. CASE ~Recordable(x, g)
    <3>1. x = r /\ g = h /\ ok[r]
      BY <2>2, <1>1, <1>4 DEF Recordable, Hashed, Changed, Pending
    <3> QED BY <3>1, <1>1, <1>3, <1>4 DEF RecordableIsNew
  <2> QED BY <2>1, <2>2
<1> QED BY <1>2, <1>5, <1>6, <1>7, <1>8, <1>9

\* What changed since r began is new, and so is what takes its place.
LEMMA FinishLogIInv ==
    ASSUME IInv, TypeOK', NEW r \in Run, FinishLog(r) \/ FinishLogFails(r) PROVE IInv'
<1> USE DEF IInv, TypeOK, files
<1>1. /\ pc[r] = "finished" /\ pc'[r] \in {"logged", "unlogged"}
      /\ \A q \in Run \ {r} : pc'[q] = pc[q]
      /\ after'[r] = config /\ \A q \in Run \ {r} : after'[q] = after[q]
      /\ UNCHANGED <<saved, config, recorded, ok, scope, before, starting, out, todo>>
  BY DEF FinishLog, FinishLogFails, Goto
<1>2. OneRun'
  BY <1>1 DEF OneRun, Unfinished
<1>3. FilesNotAhead' /\ RecordedNotNewer'
  BY <1>1 DEF FilesNotAhead, RecordedNotNewer
<1>4. \A q \in Run, h \in Host : Pending(q, h)' = Pending(q, h)
  BY <1>1 DEF Pending
<1>5. PendingNotOlder' /\ StartedBefore' /\ NewSinceStart'
  BY <1>1, <1>4 DEF PendingNotOlder, StartedBefore, NewSinceStart, New, Since, Started,
                     Hashed
<1>6. RecordableIsNew'
  <2> SUFFICES ASSUME NEW x \in Run, NEW h \in scope[x], Recordable(x, h)'
               PROVE  /\ Since(starting[x][h], config[h])
                      /\ \A q \in Run : Pending(q, h) => Since(starting[x][h], out[q][h])
    BY <1>1, <1>4 DEF RecordableIsNew, Since
  <2>1. CASE Recordable(x, h)
    BY <2>1 DEF RecordableIsNew
  <2>2. CASE ~Recordable(x, h)
    <3>1. x = r /\ config[h] # None /\ before[r][h] # config[h]
      BY <2>2, <1>1, <1>4 DEF Recordable, Hashed, Changed
    <3>2. Since(starting[r][h], config[h]) /\ starting[r][h] # None
      BY <3>1, <1>1 DEF NewSinceStart, StartedBefore, New, Started, Hashed
    <3>3. \A q \in Run : Pending(q, h) => Since(starting[r][h], out[q][h])
      BY <3>1, <3>2, VersionAssumption DEF PendingNotOlder, Since, PerHost, Version
    <3> QED BY <3>1, <3>2, <3>3
  <2> QED BY <2>1, <2>2
<1> QED BY <1>2, <1>3, <1>5, <1>6

LEMMA RecordIInv == ASSUME IInv, TypeOK', NEW r \in Run, Record(r) PROVE IInv'
<1> USE DEF IInv, TypeOK
<1>1. /\ Hashed(r) /\ pc' = [pc EXCEPT ![r] = "done"]
      /\ UNCHANGED <<saved, config, ok>>
      /\ \A h \in Host : recorded'[h] # None =>
           /\ config[h] # None
           /\ \/ recorded'[h] = recorded[h]
              \/ h \in scope[r] /\ Recordable(r, h) /\ recorded'[h] = starting[r][h]
  BY DEF Record, Goto, Recordable, Hashed
<1>2. \A q \in Run : pc'[q] \in Started =>
         /\ q # r /\ pc'[q] = pc[q]
         /\ scope'[q] = scope[q] /\ starting'[q] = starting[q] /\ out'[q] = out[q]
         /\ todo'[q] = todo[q] /\ before'[q] = before[q] /\ after'[q] = after[q]
  BY <1>1, ForgetFacts DEF Record, Started, Ended
<1>3. \A q \in Run, h \in Host : Pending(q, h)' => Pending(q, h) /\ out'[q] = out[q]
  BY <1>2 DEF Pending, Started
<1>4. OneRun'
  BY <1>1 DEF OneRun, Unfinished
<1>5. \A h \in Host : recorded'[h] # None =>
         recorded'[h] <= saved[h] /\ recorded'[h] <= config[h]
  BY <1>1 DEF FilesNotAhead, RecordedNotNewer, StartedBefore, Started, Hashed,
              RecordableIsNew, Since
<1>6. FilesNotAhead' /\ RecordedNotNewer'
  BY <1>1, <1>5 DEF FilesNotAhead, RecordedNotNewer
<1>7. PendingNotOlder'
  BY <1>1, <1>3 DEF PendingNotOlder, RecordableIsNew, Since
<1>8. StartedBefore'
  BY <1>1, <1>2 DEF StartedBefore
<1>9. NewSinceStart'
  BY <1>1, <1>2, <1>3 DEF NewSinceStart, New, Since, Hashed
<1>10. RecordableIsNew'
  <2>1. \A x \in Run, h \in Host : /\ Recordable(x, h)' => Recordable(x, h)
                                   /\ Recordable(x, h)' \/ Pending(x, h)' => pc'[x] \in Started
    BY <1>1, <1>2 DEF Recordable, Hashed, Pending, Changed, Started
  <2> QED BY <2>1, <1>1, <1>2, <1>3 DEF RecordableIsNew, Since
<1> QED BY <1>4, <1>6, <1>7, <1>8, <1>9, <1>10

\* Saves make settings newer, deletions leave nothing to be too old.
LEMMA OthersIInv ==
    ASSUME IInv, TypeOK', NEW h \in Host, Save(h) \/ DeleteConfig(h) PROVE IInv'
<1> USE DEF IInv, TypeOK
<1>1. /\ \A g \in Host : saved[g] <= saved'[g] /\ config'[g] \in {config[g], None}
      /\ UNCHANGED <<recorded, pc, ok, scope, before, starting, after, out, todo>>
  BY VersionAssumption DEF Save, DeleteConfig, locals, PerHost, Version
<1>2. \A q \in Run, g \in Host : /\ Pending(q, g)' = Pending(q, g)
                                 /\ Recordable(q, g)' = Recordable(q, g)
  BY <1>1 DEF Pending, Recordable, Hashed, Changed
<1>3. OneRun'
  BY <1>1 DEF OneRun, Unfinished
<1>4. FilesNotAhead' /\ RecordedNotNewer'
  BY <1>1, VersionAssumption, NoneAssumption
     DEF FilesNotAhead, RecordedNotNewer, PerHost, Version
<1>5. PendingNotOlder'
  BY <1>1, <1>2, VersionAssumption, NoneAssumption
     DEF PendingNotOlder, Since, PerHost, Version
<1>6. StartedBefore'
  BY <1>1, VersionAssumption, NoneAssumption DEF StartedBefore, PerHost, Version
<1>7. NewSinceStart'
  BY <1>1, <1>2 DEF NewSinceStart, New, Since, Hashed
<1>8. RecordableIsNew'
  BY <1>1, <1>2 DEF RecordableIsNew, Since
<1> QED BY <1>3, <1>4, <1>5, <1>6, <1>7, <1>8

LEMMA NextIInv == IInv /\ [Next]_vars => IInv'
<1> SUFFICES ASSUME IInv, [Next]_vars PROVE IInv'
  OBVIOUS
<1>1. TypeOK /\ TypeOK'
  BY TypeStep DEF IInv
<1>2. ASSUME NEW r \in Run, Request(r) PROVE IInv'
  <2>1. OneRun'
    BY <1>1, <1>2 DEF Request, Goto, OneRun, Unfinished, TypeOK, IInv
  <2>2. \A q \in Run : pc'[q] \in Started => q # r
    BY <1>1, <1>2 DEF Request, Goto, Started, TypeOK
  <2> QED BY <1>1, <1>2, <2>1, <2>2, QuietIInv
          DEF Request, Goto, TypeOK, Pending, Recordable, Hashed, Changed
<1>3. ASSUME NEW r \in Run, PrepareFails(r) \/ RecordFails(r) PROVE IInv'
  <2>1. OneRun'
    BY <1>1, <1>3 DEF PrepareFails, RecordFails, Goto, OneRun, Unfinished, TypeOK, IInv
  <2>2. \A q \in Run : pc'[q] \in Started =>
           /\ pc'[q] = pc[q] /\ ok'[q] = ok[q]
           /\ scope'[q] = scope[q] /\ starting'[q] = starting[q] /\ out'[q] = out[q]
           /\ todo'[q] = todo[q] /\ before'[q] = before[q] /\ after'[q] = after[q]
    BY <1>1, <1>3, ForgetFacts DEF PrepareFails, RecordFails, Goto, Started, Ended, TypeOK
  <2> QED BY <1>1, <1>3, <2>1, <2>2, QuietIInv
          DEF PrepareFails, RecordFails, Pending, Recordable, Hashed, Changed
<1>4. ASSUME NEW r \in Run, Collect(r) \/ NoOutput(r) \/ Mirrored(r) \/ MarkFinished(r)
      PROVE  IInv'
  <2>1. OneRun'
    BY <1>1, <1>4
    DEF Collect, NoOutput, Mirrored, MarkFinished, Goto, OneRun, Unfinished, TypeOK, IInv
  <2> QED BY <1>1, <1>4, <2>1, QuietIInv
          DEF Collect, NoOutput, Mirrored, MarkFinished, Goto, Pending, Recordable, Hashed,
              Changed, Started, TypeOK, locals
<1>5. CASE Restart
  <2>1. OneRun' /\ UNCHANGED files /\ \A q \in Run : pc'[q] \notin Started
    BY <1>1, <1>5 DEF Restart, OneRun, Unfinished, Started, TypeOK
  <2> QED BY <1>1, <2>1, QuietIInv
<1>6. CASE UNCHANGED vars
  <2>1. UNCHANGED <<files, restarts, pc, ok, audit, scope, before, starting, after, out, todo>>
    BY <1>6 DEF vars, locals
  <2> QED BY <1>1, <2>1, QuietIInv
          DEF IInv, OneRun, Unfinished, Pending, Recordable, Hashed, Changed
<1> QED
  BY <1>1, <1>2, <1>3, <1>4, <1>5, <1>6, PrepareIInv, ArchiveIInv, MirrorIInv,
     FinishLogIInv, RecordIInv, OthersIInv
  DEF Next, Step, Idle

LEMMA AlwaysIInv == Spec => []IInv
BY InitIInv, NextIInv, PTL DEF Spec

-----------------------------------------------------------------------------
(* Theorems. *)

\* Every variable of a project's runs keeps its type, and an audit entry its
\* status, through failures and restarts at every point.
THEOREM TypeCorrect == Spec => []TypeOK
<1>1. IInv => TypeOK
  BY DEF IInv
<1> QED BY <1>1, AlwaysIInv, PTL

\* "A generation is already running for this project" (projects.py): the request
\* that looks for an unfinished run and adds its own lets no second one in,
\* whatever fails and whenever the server stops.
THEOREM OneRunAtATime == Spec => []OneRun
<1>1. IInv => OneRun
  BY DEF IInv
<1> QED BY <1>1, AlwaysIInv, PTL

\* RecordedNotNewer: the record of what a config was made from never hides
\* that the config predates a change.
THEOREM NeverRecordedNewer == Spec => []RecordedNotNewer
<1>1. IInv => RecordedNotNewer
  BY DEF IInv
<1> QED BY <1>1, AlwaysIInv, PTL

\* ConfigNeverOlder: runs do not mirror an older output over a newer one.
THEOREM NeverMirroredOlder == Spec => ConfigNeverOlder
<1>1. IInv /\ [Next]_vars =>
        [\A h \in Host : (config[h] # None /\ config'[h] # None)
                            => config'[h] >= config[h]]_vars
  <2> SUFFICES ASSUME IInv, [Next]_vars, NEW h \in Host,
                      config[h] # None, config'[h] # None
               PROVE  config'[h] >= config[h]
    OBVIOUS
  <2> USE DEF IInv, TypeOK, PerHost, Version
  <2>1. ASSUME NEW r \in Run, NEW g \in Host, Mirror(r, g)
        PROVE  config'[h] >= config[h]
    <3>1. Pending(r, g) /\ config' = [config EXCEPT ![g] = out[r][g]]
      BY <2>1 DEF Mirror, Pending
    <3> QED BY <3>1, VersionAssumption DEF PendingNotOlder
  <2>2. ASSUME NEW g \in Host, DeleteConfig(g) PROVE config'[h] = config[h]
    BY <2>2 DEF DeleteConfig
  <2>3. CASE UNCHANGED config
    BY <2>3, VersionAssumption
  <2> QED
    BY <2>1, <2>2, <2>3, VersionAssumption
    DEF Next, Step, Idle, Save, Request, Prepare, PrepareFails, Archive, Collect, NoOutput,
        Mirrored, MarkFinished, FinishLog, FinishLogFails, Record, RecordFails,
        Restart, files, vars
<1> QED BY <1>1, AlwaysIInv, PTL DEF Spec, ConfigNeverOlder
=============================================================================
