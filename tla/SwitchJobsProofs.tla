-------------------------- MODULE SwitchJobsProofs --------------------------
(***************************************************************************)
(* No two pushes or upgrades of one project are at one switch, and a       *)
(* switch shown as having its current config has it, for any number of     *)
(* switches, requests, transfers and restarts, when requests are served    *)
(* one at a time.                                                          *)
(***************************************************************************)
EXTENDS SwitchJobs, FiniteSetTheorems, TLAPS

-----------------------------------------------------------------------------
(* The invariant of every run. *)

\* The audit log has given out the ids up to the number of its entries.
Numbered == {q \in Request : id[q] # 0}
Ids == IsFiniteSet(Numbered) /\ \A q \in Request : id[q] <= Cardinality(Numbered)

\* A request or worker thread has r's job in hand.
AtWork(r) == pc[r] \in {"logging", "starting", "working"}

\* Where a request is tells what it has of a job and of an entry.
Stages ==
    \A r \in Request :
        /\ pc[r] = "new" => hosts[r] = {}
        /\ pc[r] \in {"checking", "checking2"} => kind[r] \in {"push", "firmware"}
        /\ pc[r] \in {"new", "checking", "checking2", "refused"} =>
             id[r] = 0 /\ job[r] = "none"
        /\ pc[r] = "logging" =>
             id[r] = 0 /\ job[r] = IF kind[r] = "firmware" THEN "unfinished" ELSE "none"
        /\ pc[r] = "inserting" => job[r] = "none" /\ (kind[r] = "firmware" <=> id[r] = 0)
        /\ pc[r] \in {"starting", "working"} => id[r] # 0 /\ job[r] = "unfinished"
        /\ pc[r] \in {"finished", "unlogged"} => id[r] # 0
        /\ audit[r] = "running" =>
             pc[r] \in {"inserting", "starting", "working", "finished", "unlogged"}
        /\ id[r] # 0 <=> audit[r] # "none"
        /\ job[r] = "unfinished" => AtWork(r) \/ (pc[r] = "failed" /\ kind[r] = "firmware")

\* Only a push sends, only what it sent is confirmed, and only that has a result.
Sends ==
    \A r \in Request, h \in Host :
        /\ sent[r][h] # None => /\ h \in hosts[r] /\ kind[r] = "push" /\ id[r] # 0
                                /\ pc[r] \in {"working", "finished", "done", "unlogged", "dead"}
        /\ h \in took[r] => sent[r][h] # None
        /\ h \in results[r] => h \in took[r]

IInv == TypeOK /\ Ids /\ Stages /\ Sends

-----------------------------------------------------------------------------
(* The invariant when pushes and upgrades of a switch are requested one at a time. *)

OneHandling ==
    \A q, r \in Request :
        (/\ Handling(q) /\ kind[q] # "dryrun" /\ Handling(r) /\ kind[r] # "dryrun"
         /\ hosts[q] \cap hosts[r] # {})
            => q = r

\* q's job keeps r, of the same project, from a switch they share.
Blocks(q, r, k) == /\ q # r /\ kind[q] = k /\ job[q] = "unfinished"
                   /\ key[q] = key[r] /\ hosts[q] \cap hosts[r] # {}

Checked ==
    \A q, r \in Request :
        /\ pc[r] = "checking2" => ~Blocks(q, r, "push")
        /\ pc[r] \in {"logging", "inserting"} /\ kind[r] \in {"push", "firmware"} =>
             ~Blocks(q, r, "push") /\ ~Blocks(q, r, "firmware")

\* Unfinished jobs of one project are for switches of their own.
Disjoint ==
    \A q, r \in Request :
        kind[r] \in {"push", "firmware"} /\ job[r] = "unfinished" =>
            ~Blocks(q, r, "push") /\ ~Blocks(q, r, "firmware")

\* A push at work has a later entry than the pushes that were at its switches.
Ordered ==
    \A q, r \in Request :
        (/\ q # r /\ kind[q] = "push" /\ kind[r] = "push" /\ id[q] # 0
         /\ key[q] = key[r] /\ hosts[q] \cap hosts[r] # {}
         /\ pc[r] \in {"inserting", "starting", "working"})
            => id[q] < id[r]

\* All jobs for h were of one project: none is HandedOver from another.
OneKey(h) == \A q, r \in Request : h \in hosts[q] /\ h \in hosts[r] => key[q] = key[r]

\* What runs on a switch is what the last of the pushes it confirmed, by entry, sent.
LastConfirmer ==
    \A h \in Host : OneKey(h) =>
        \A r \in Request :
            (h \in took[r] /\ \A q \in Request : h \in took[q] => id[q] <= id[r])
                => running[h] = sent[r][h]

SInv == OneHandling /\ Checked /\ Disjoint /\ Ordered /\ LastConfirmer

-----------------------------------------------------------------------------
(* The invariant holds. *)

LEMMA InitIInv == Init => IInv
<1> SUFFICES ASSUME Init PROVE IInv
  OBVIOUS
<1>1. Numbered = {} /\ IsFiniteSet({}) /\ Cardinality({}) = 0
  BY FS_EmptySet DEF Init, Numbered
<1>2. Blank \in PerHost
  BY DEF Blank, PerHost
<1> QED BY <1>1, <1>2, NoneAssumption, BoundAssumption
        DEF Init, IInv, TypeOK, Ids, Stages, Sends, Labels, Blank, AtWork

\* The id of a new entry is above all others.
LEMMA NextIdFacts ==
    ASSUME TypeOK, Ids
    PROVE  /\ NextId \in Nat \ {0} /\ NextId = Cardinality(Numbered) + 1
           /\ \A q \in Request : id[q] < NextId
<1>1. Cardinality(Numbered) \in Nat
  BY FS_CardinalityType DEF Ids
<1>2. NextId = Cardinality(Numbered) + 1
  BY <1>1 DEF NextId, Numbered
<1> HIDE DEF NextId, Numbered
<1> QED BY <1>1, <1>2 DEF Ids, TypeOK

LEMMA TypeStep ==
    IInv /\ [Next]_vars => TypeOK'
<1> SUFFICES ASSUME IInv, [Next]_vars PROVE TypeOK'
  OBVIOUS
<1> USE NoneAssumption, BoundAssumption, SerialAssumption DEF Goto, world, entry,
    request, report, IInv, TypeOK, Labels, PerHost
<1>1. ASSUME NEW h \in Host, Regenerate(h) PROVE TypeOK'
  BY <1>1 DEF Regenerate
<1>2. ASSUME Transfer PROVE TypeOK'
  BY <1>2 DEF Transfer
<1>3. ASSUME NEW r \in Request, Arrive(r) PROVE TypeOK'
  BY <1>3 DEF Arrive
<1>4. ASSUME NEW r \in Request, CheckPushes(r) PROVE TypeOK'
  BY <1>4 DEF CheckPushes, Busy
<1>5. ASSUME NEW r \in Request, CheckUpgrades(r) PROVE TypeOK'
  BY <1>5 DEF CheckUpgrades, Busy
<1>6. ASSUME NEW r \in Request, Log(r) PROVE TypeOK'
  <2>1. NextId \in Nat \ {0} /\ \A q \in Request : id[q] < NextId
    BY NextIdFacts
  <2>2. Hashes(r) \in PerHost
    BY DEF Hashes, PerHost
  <2> HIDE DEF NextId, Hashes, PerHost
  <2> QED BY <1>6, <2>1, <2>2 DEF Log
<1>7. ASSUME NEW r \in Request, LogFails(r) PROVE TypeOK'
  BY <1>7 DEF LogFails
<1>8. ASSUME NEW r \in Request, Insert(r) PROVE TypeOK'
  BY <1>8 DEF Insert
<1>9. ASSUME NEW r \in Request, Start(r) PROVE TypeOK'
  BY <1>9 DEF Start
<1>10. ASSUME NEW r \in Request, NEW h \in Host, Read(r, h) PROVE TypeOK'
  BY <1>10 DEF Read
<1>11. ASSUME NEW r \in Request, NEW h \in Host, Confirm(r, h) PROVE TypeOK'
  BY <1>11 DEF Confirm
<1>12. ASSUME NEW r \in Request, Finish(r) PROVE TypeOK'
  BY <1>12 DEF Finish
<1>13. ASSUME NEW r \in Request, FinishLog(r) PROVE TypeOK'
  BY <1>13 DEF FinishLog
<1>14. ASSUME NEW r \in Request, FinishLogFails(r) PROVE TypeOK'
  BY <1>14 DEF FinishLogFails
<1>15. ASSUME Restart PROVE TypeOK'
  BY <1>15 DEF Restart
<1>16. ASSUME UNCHANGED vars PROVE TypeOK'
  BY <1>16 DEF vars
<1> QED
  BY <1>1, <1>2, <1>3, <1>4, <1>5, <1>6, <1>7, <1>8, <1>9, <1>10, <1>11, <1>12,
      <1>13, <1>14, <1>15, <1>16
  DEF Next, Idle, Answer, Work

LEMMA IdsStep ==
    IInv /\ [Next]_vars => Ids'
<1> SUFFICES ASSUME IInv, [Next]_vars PROVE Ids'
  OBVIOUS
<1> USE NoneAssumption DEF Goto, world, entry, request, report, IInv, TypeOK, Ids, Numbered
<1>1. ASSUME NEW h \in Host, Regenerate(h) PROVE Ids'
  BY <1>1 DEF Regenerate
<1>2. ASSUME Transfer PROVE Ids'
  BY <1>2 DEF Transfer
<1>3. ASSUME NEW r \in Request, Arrive(r) PROVE Ids'
  BY <1>3 DEF Arrive
<1>4. ASSUME NEW r \in Request, CheckPushes(r) PROVE Ids'
  BY <1>4 DEF CheckPushes, Busy
<1>5. ASSUME NEW r \in Request, CheckUpgrades(r) PROVE Ids'
  BY <1>5 DEF CheckUpgrades, Busy
<1>6. ASSUME NEW r \in Request, Log(r) PROVE Ids'
  <2>1. NextId \in Nat \ {0} /\ NextId = Cardinality(Numbered) + 1 /\ id[r] = 0
    BY <1>6, NextIdFacts DEF Log, Stages
  <2>2. Numbered' = Numbered \cup {r} /\ r \notin Numbered
    BY <1>6, <2>1 DEF Log
  <2>3. IsFiniteSet(Numbered') /\ Cardinality(Numbered') = Cardinality(Numbered) + 1
    <3> HIDE DEF Numbered
    <3> QED BY <2>2, FS_AddElement
  <2>4. Cardinality(Numbered) \in Nat
    BY FS_CardinalityType
  <2> HIDE DEF Numbered, NextId
  <2> QED BY <1>6, <2>1, <2>3, <2>4 DEF Log
<1>7. ASSUME NEW r \in Request, LogFails(r) PROVE Ids'
  BY <1>7 DEF LogFails
<1>8. ASSUME NEW r \in Request, Insert(r) PROVE Ids'
  BY <1>8 DEF Insert
<1>9. ASSUME NEW r \in Request, Start(r) PROVE Ids'
  BY <1>9 DEF Start
<1>10. ASSUME NEW r \in Request, NEW h \in Host, Read(r, h) PROVE Ids'
  BY <1>10 DEF Read
<1>11. ASSUME NEW r \in Request, NEW h \in Host, Confirm(r, h) PROVE Ids'
  BY <1>11 DEF Confirm
<1>12. ASSUME NEW r \in Request, Finish(r) PROVE Ids'
  BY <1>12 DEF Finish
<1>13. ASSUME NEW r \in Request, FinishLog(r) PROVE Ids'
  BY <1>13 DEF FinishLog
<1>14. ASSUME NEW r \in Request, FinishLogFails(r) PROVE Ids'
  BY <1>14 DEF FinishLogFails
<1>15. ASSUME Restart PROVE Ids'
  BY <1>15 DEF Restart
<1>16. ASSUME UNCHANGED vars PROVE Ids'
  BY <1>16 DEF vars
<1> QED
  BY <1>1, <1>2, <1>3, <1>4, <1>5, <1>6, <1>7, <1>8, <1>9, <1>10, <1>11, <1>12,
      <1>13, <1>14, <1>15, <1>16
  DEF Next, Idle, Answer, Work

LEMMA StagesStep ==
    IInv /\ [Next]_vars => Stages'
<1> SUFFICES ASSUME IInv, [Next]_vars PROVE Stages'
  OBVIOUS
<1> USE NoneAssumption DEF Goto, world, entry, request, report, IInv, TypeOK, Stages, Labels, AtWork
<1>1. ASSUME NEW h \in Host, Regenerate(h) PROVE Stages'
  BY <1>1 DEF Regenerate
<1>2. ASSUME Transfer PROVE Stages'
  BY <1>2 DEF Transfer
<1>3. ASSUME NEW r \in Request, Arrive(r) PROVE Stages'
  BY <1>3 DEF Arrive
<1>4. ASSUME NEW r \in Request, CheckPushes(r) PROVE Stages'
  BY <1>4 DEF CheckPushes, Busy
<1>5. ASSUME NEW r \in Request, CheckUpgrades(r) PROVE Stages'
  BY <1>5 DEF CheckUpgrades, Busy
<1>6. ASSUME NEW r \in Request, Log(r) PROVE Stages'
  <2>1. NextId \in Nat \ {0}
    BY NextIdFacts
  <2>2. /\ id'[r] = NextId /\ audit'[r] = "running" /\ UNCHANGED <<job, kind, hosts>>
        /\ pc'[r] = IF kind[r] = "firmware" THEN "starting" ELSE "inserting"
        /\ pc[r] = "logging"
        /\ \A q \in Request : q # r => id'[q] = id[q] /\ audit'[q] = audit[q] /\ pc'[q] = pc[q]
    BY <1>6 DEF Log
  <2> HIDE DEF NextId
  <2> QED BY <2>1, <2>2
<1>7. ASSUME NEW r \in Request, LogFails(r) PROVE Stages'
  BY <1>7 DEF LogFails
<1>8. ASSUME NEW r \in Request, Insert(r) PROVE Stages'
  <2>1. /\ UNCHANGED <<hosts, kind, id, audit>> /\ pc[r] = "inserting"
        /\ pc' = [pc EXCEPT ![r] = IF kind[r] = "firmware" THEN "logging" ELSE "starting"]
        /\ job'[r] = "unfinished"
        /\ \A q \in Request : q # r => /\ job[q] = "none" => job'[q] = "none"
                                       /\ job[q] = "unfinished" <=> job'[q] = "unfinished"
    BY <1>8 DEF Insert
  <2>2. \A q \in Request : q # r => pc'[q] = pc[q]
    BY <2>1
  <2>3. pc'[r] = IF kind[r] = "firmware" THEN "logging" ELSE "starting"
    BY <2>1
  <2> QED BY <2>1, <2>2, <2>3
<1>9. ASSUME NEW r \in Request, Start(r) PROVE Stages'
  BY <1>9 DEF Start
<1>10. ASSUME NEW r \in Request, NEW h \in Host, Read(r, h) PROVE Stages'
  BY <1>10 DEF Read
<1>11. ASSUME NEW r \in Request, NEW h \in Host, Confirm(r, h) PROVE Stages'
  BY <1>11 DEF Confirm
<1>12. ASSUME NEW r \in Request, Finish(r) PROVE Stages'
  BY <1>12 DEF Finish
<1>13. ASSUME NEW r \in Request, FinishLog(r) PROVE Stages'
  <2>1. PICK s \in {"done", "failed"} : audit' = [audit EXCEPT ![r] = s]
    BY <1>13 DEF FinishLog
  <2>2. pc' = [pc EXCEPT ![r] = "done"] /\ pc[r] = "finished" /\ UNCHANGED <<job, kind, hosts, id>>
    BY <1>13 DEF FinishLog
  <2>3. id[r] # 0
    BY <2>2
  <2> QED BY <2>1, <2>2, <2>3
<1>14. ASSUME NEW r \in Request, FinishLogFails(r) PROVE Stages'
  BY <1>14 DEF FinishLogFails
<1>15. ASSUME Restart PROVE Stages'
  <2>1. \A q \in Request : /\ pc'[q] \in {pc[q], "dead"}
                           /\ pc'[q] \notin {"checking", "checking2", "logging", "inserting",
                                             "starting", "working", "finished"}
                           /\ job'[q] = "none" /\ audit'[q] # "running"
                           /\ audit[q] # "none" <=> audit'[q] # "none"
    BY <1>15 DEF Restart, Handling
  <2> QED BY <1>15, <2>1 DEF Restart
<1>16. ASSUME UNCHANGED vars PROVE Stages'
  BY <1>16 DEF vars
<1> QED
  BY <1>1, <1>2, <1>3, <1>4, <1>5, <1>6, <1>7, <1>8, <1>9, <1>10, <1>11, <1>12,
      <1>13, <1>14, <1>15, <1>16
  DEF Next, Idle, Answer, Work

LEMMA SendsStep ==
    IInv /\ [Next]_vars => Sends'
<1> SUFFICES ASSUME IInv, [Next]_vars PROVE Sends'
  OBVIOUS
<1> USE NoneAssumption DEF Goto, world, entry, request, report, IInv, TypeOK, Stages, Sends,
    Labels, PerHost
<1>1. ASSUME NEW h \in Host, Regenerate(h) PROVE Sends'
  BY <1>1 DEF Regenerate
<1>2. ASSUME Transfer PROVE Sends'
  BY <1>2 DEF Transfer
<1>3. ASSUME NEW r \in Request, Arrive(r) PROVE Sends'
  BY <1>3 DEF Arrive
<1>4. ASSUME NEW r \in Request, CheckPushes(r) PROVE Sends'
  BY <1>4 DEF CheckPushes, Busy
<1>5. ASSUME NEW r \in Request, CheckUpgrades(r) PROVE Sends'
  BY <1>5 DEF CheckUpgrades, Busy
<1>6. ASSUME NEW r \in Request, Log(r) PROVE Sends'
  BY <1>6 DEF Log
<1>7. ASSUME NEW r \in Request, LogFails(r) PROVE Sends'
  BY <1>7 DEF LogFails
<1>8. ASSUME NEW r \in Request, Insert(r) PROVE Sends'
  BY <1>8 DEF Insert
<1>9. ASSUME NEW r \in Request, Start(r) PROVE Sends'
  BY <1>9 DEF Start
<1>10. ASSUME NEW r \in Request, NEW h \in Host, Read(r, h) PROVE Sends'
  BY <1>10 DEF Read
<1>11. ASSUME NEW r \in Request, NEW h \in Host, Confirm(r, h) PROVE Sends'
  BY <1>11 DEF Confirm
<1>12. ASSUME NEW r \in Request, Finish(r) PROVE Sends'
  BY <1>12 DEF Finish
<1>13. ASSUME NEW r \in Request, FinishLog(r) PROVE Sends'
  BY <1>13 DEF FinishLog
<1>14. ASSUME NEW r \in Request, FinishLogFails(r) PROVE Sends'
  BY <1>14 DEF FinishLogFails
<1>15. ASSUME Restart PROVE Sends'
  BY <1>15 DEF Restart
<1>16. ASSUME UNCHANGED vars PROVE Sends'
  BY <1>16 DEF vars
<1> QED
  BY <1>1, <1>2, <1>3, <1>4, <1>5, <1>6, <1>7, <1>8, <1>9, <1>10, <1>11, <1>12,
      <1>13, <1>14, <1>15, <1>16
  DEF Next, Idle, Answer, Work

LEMMA OneHandlingStep ==
    Serial /\ IInv /\ SInv /\ [Next]_vars => OneHandling'
<1> SUFFICES ASSUME Serial, IInv, SInv, [Next]_vars PROVE OneHandling'
  OBVIOUS
<1> USE NoneAssumption DEF Goto, world, entry, request, report, IInv, TypeOK, SInv,
    OneHandling, Handling, Labels
<1>1. ASSUME NEW h \in Host, Regenerate(h) PROVE OneHandling'
  BY <1>1 DEF Regenerate
<1>2. ASSUME Transfer PROVE OneHandling'
  BY <1>2 DEF Transfer
<1>3. ASSUME NEW r \in Request, Arrive(r) PROVE OneHandling'
  BY <1>3 DEF Arrive
<1>4. ASSUME NEW r \in Request, CheckPushes(r) PROVE OneHandling'
  BY <1>4 DEF CheckPushes, Busy
<1>5. ASSUME NEW r \in Request, CheckUpgrades(r) PROVE OneHandling'
  BY <1>5 DEF CheckUpgrades, Busy
<1>6. ASSUME NEW r \in Request, Log(r) PROVE OneHandling'
  BY <1>6 DEF Log
<1>7. ASSUME NEW r \in Request, LogFails(r) PROVE OneHandling'
  BY <1>7 DEF LogFails
<1>8. ASSUME NEW r \in Request, Insert(r) PROVE OneHandling'
  BY <1>8 DEF Insert
<1>9. ASSUME NEW r \in Request, Start(r) PROVE OneHandling'
  BY <1>9 DEF Start
<1>10. ASSUME NEW r \in Request, NEW h \in Host, Read(r, h) PROVE OneHandling'
  BY <1>10 DEF Read
<1>11. ASSUME NEW r \in Request, NEW h \in Host, Confirm(r, h) PROVE OneHandling'
  BY <1>11 DEF Confirm
<1>12. ASSUME NEW r \in Request, Finish(r) PROVE OneHandling'
  BY <1>12 DEF Finish
<1>13. ASSUME NEW r \in Request, FinishLog(r) PROVE OneHandling'
  BY <1>13 DEF FinishLog
<1>14. ASSUME NEW r \in Request, FinishLogFails(r) PROVE OneHandling'
  BY <1>14 DEF FinishLogFails
<1>15. ASSUME Restart PROVE OneHandling'
  BY <1>15 DEF Restart
<1>16. ASSUME UNCHANGED vars PROVE OneHandling'
  BY <1>16 DEF vars
<1> QED
  BY <1>1, <1>2, <1>3, <1>4, <1>5, <1>6, <1>7, <1>8, <1>9, <1>10, <1>11, <1>12,
      <1>13, <1>14, <1>15, <1>16
  DEF Next, Idle, Answer, Work

LEMMA CheckedStep ==
    Serial /\ IInv /\ SInv /\ [Next]_vars => Checked'
<1> SUFFICES ASSUME Serial, IInv, SInv, [Next]_vars PROVE Checked'
  OBVIOUS
<1> USE NoneAssumption DEF Goto, world, entry, request, report, IInv, TypeOK, SInv,
    OneHandling, Handling, Labels, Checked, Blocks, Stages
<1>1. ASSUME NEW h \in Host, Regenerate(h) PROVE Checked'
  BY <1>1 DEF Regenerate
<1>2. ASSUME Transfer PROVE Checked'
  BY <1>2 DEF Transfer
<1>3. ASSUME NEW r \in Request, Arrive(r) PROVE Checked'
  BY <1>3 DEF Arrive
<1>4. ASSUME NEW r \in Request, CheckPushes(r) PROVE Checked'
  BY <1>4 DEF CheckPushes, Busy
<1>5. ASSUME NEW r \in Request, CheckUpgrades(r) PROVE Checked'
  BY <1>5 DEF CheckUpgrades, Busy
<1>6. ASSUME NEW r \in Request, Log(r) PROVE Checked'
  BY <1>6 DEF Log
<1>7. ASSUME NEW r \in Request, LogFails(r) PROVE Checked'
  BY <1>7 DEF LogFails
<1>8. ASSUME NEW r \in Request, Insert(r) PROVE Checked'
  <2>1. /\ UNCHANGED <<kind, hosts, key>> /\ pc[r] = "inserting"
        /\ pc' = [pc EXCEPT ![r] = IF kind[r] = "firmware" THEN "logging" ELSE "starting"]
        /\ \A q \in Request : job'[q] = "unfinished" => q = r \/ job[q] = "unfinished"
    BY <1>8 DEF Insert
  <2>2. /\ \A s \in Request : pc'[s] = "checking2" => s # r /\ pc[s] = "checking2"
        /\ \A s \in Request : pc'[s] \in {"logging", "inserting"} => Handling(s)
    BY <2>1
  <2>3. ASSUME NEW q \in Request, NEW s \in Request, NEW k \in {"push", "firmware"},
               Blocks(q, s, k)', ~Blocks(q, s, k)
        PROVE  q = r /\ kind[r] # "dryrun" /\ s # r /\ hosts[r] \cap hosts[s] # {}
    BY <2>1, <2>3
  <2>4. ASSUME NEW q \in Request, NEW s \in Request, NEW k \in {"push", "firmware"},
               pc'[s] = "checking2" \/ (/\ pc'[s] \in {"logging", "inserting"}
                                        /\ kind[s] \in {"push", "firmware"}),
               ~Blocks(q, s, k)
        PROVE  ~Blocks(q, s, k)'
    <3>1. Handling(s) /\ Handling(r)
      BY <2>1, <2>2, <2>4
    <3>2. kind[s] # "dryrun"
      BY <2>2, <2>4
    <3>3. SUFFICES ASSUME Blocks(q, s, k)' PROVE FALSE
      OBVIOUS
    <3>4. q = r /\ kind[r] # "dryrun" /\ s # r /\ hosts[r] \cap hosts[s] # {}
      <4> HIDE DEF Blocks
      <4> QED BY <2>3, <2>4, <3>3
    <3> QED BY <3>1, <3>2, <3>4
  <2> QED BY <2>1, <2>2, <2>4
<1>9. ASSUME NEW r \in Request, Start(r) PROVE Checked'
  BY <1>9 DEF Start
<1>10. ASSUME NEW r \in Request, NEW h \in Host, Read(r, h) PROVE Checked'
  BY <1>10 DEF Read
<1>11. ASSUME NEW r \in Request, NEW h \in Host, Confirm(r, h) PROVE Checked'
  BY <1>11 DEF Confirm
<1>12. ASSUME NEW r \in Request, Finish(r) PROVE Checked'
  BY <1>12 DEF Finish
<1>13. ASSUME NEW r \in Request, FinishLog(r) PROVE Checked'
  BY <1>13 DEF FinishLog
<1>14. ASSUME NEW r \in Request, FinishLogFails(r) PROVE Checked'
  BY <1>14 DEF FinishLogFails
<1>15. ASSUME Restart PROVE Checked'
  BY <1>15 DEF Restart
<1>16. ASSUME UNCHANGED vars PROVE Checked'
  BY <1>16 DEF vars
<1> QED
  BY <1>1, <1>2, <1>3, <1>4, <1>5, <1>6, <1>7, <1>8, <1>9, <1>10, <1>11, <1>12,
      <1>13, <1>14, <1>15, <1>16
  DEF Next, Idle, Answer, Work

LEMMA DisjointStep ==
    Serial /\ IInv /\ SInv /\ [Next]_vars => Disjoint'
<1> SUFFICES ASSUME Serial, IInv, SInv, [Next]_vars PROVE Disjoint'
  OBVIOUS
<1> USE NoneAssumption DEF Goto, world, entry, request, report, IInv, TypeOK, SInv, Checked,
    Disjoint, Blocks, Stages, Labels
<1>1. ASSUME NEW h \in Host, Regenerate(h) PROVE Disjoint'
  BY <1>1 DEF Regenerate
<1>2. ASSUME Transfer PROVE Disjoint'
  BY <1>2 DEF Transfer
<1>3. ASSUME NEW r \in Request, Arrive(r) PROVE Disjoint'
  BY <1>3 DEF Arrive
<1>4. ASSUME NEW r \in Request, CheckPushes(r) PROVE Disjoint'
  BY <1>4 DEF CheckPushes, Busy
<1>5. ASSUME NEW r \in Request, CheckUpgrades(r) PROVE Disjoint'
  BY <1>5 DEF CheckUpgrades, Busy
<1>6. ASSUME NEW r \in Request, Log(r) PROVE Disjoint'
  BY <1>6 DEF Log
<1>7. ASSUME NEW r \in Request, LogFails(r) PROVE Disjoint'
  BY <1>7 DEF LogFails
<1>8. ASSUME NEW r \in Request, Insert(r) PROVE Disjoint'
  BY <1>8 DEF Insert
<1>9. ASSUME NEW r \in Request, Start(r) PROVE Disjoint'
  BY <1>9 DEF Start
<1>10. ASSUME NEW r \in Request, NEW h \in Host, Read(r, h) PROVE Disjoint'
  BY <1>10 DEF Read
<1>11. ASSUME NEW r \in Request, NEW h \in Host, Confirm(r, h) PROVE Disjoint'
  BY <1>11 DEF Confirm
<1>12. ASSUME NEW r \in Request, Finish(r) PROVE Disjoint'
  BY <1>12 DEF Finish
<1>13. ASSUME NEW r \in Request, FinishLog(r) PROVE Disjoint'
  BY <1>13 DEF FinishLog
<1>14. ASSUME NEW r \in Request, FinishLogFails(r) PROVE Disjoint'
  BY <1>14 DEF FinishLogFails
<1>15. ASSUME Restart PROVE Disjoint'
  BY <1>15 DEF Restart
<1>16. ASSUME UNCHANGED vars PROVE Disjoint'
  BY <1>16 DEF vars
<1> QED
  BY <1>1, <1>2, <1>3, <1>4, <1>5, <1>6, <1>7, <1>8, <1>9, <1>10, <1>11, <1>12,
      <1>13, <1>14, <1>15, <1>16
  DEF Next, Idle, Answer, Work

LEMMA OrderedStep ==
    Serial /\ IInv /\ SInv /\ [Next]_vars => Ordered'
<1> SUFFICES ASSUME Serial, IInv, SInv, [Next]_vars PROVE Ordered'
  OBVIOUS
<1> USE NoneAssumption DEF Goto, world, entry, request, report, IInv, TypeOK, SInv, Checked,
    Disjoint, Ordered, Blocks, Stages, OneHandling, Handling, Labels
<1>1. ASSUME NEW h \in Host, Regenerate(h) PROVE Ordered'
  BY <1>1 DEF Regenerate
<1>2. ASSUME Transfer PROVE Ordered'
  BY <1>2 DEF Transfer
<1>3. ASSUME NEW r \in Request, Arrive(r) PROVE Ordered'
  BY <1>3 DEF Arrive
<1>4. ASSUME NEW r \in Request, CheckPushes(r) PROVE Ordered'
  BY <1>4 DEF CheckPushes, Busy
<1>5. ASSUME NEW r \in Request, CheckUpgrades(r) PROVE Ordered'
  BY <1>5 DEF CheckUpgrades, Busy
<1>6. ASSUME NEW r \in Request, Log(r) PROVE Ordered'
  <2>1. NextId \in Nat \ {0} /\ \A q \in Request : id[q] < NextId
    BY NextIdFacts
  <2> HIDE DEF NextId
  <2> QED BY <1>6, <2>1 DEF Log
<1>7. ASSUME NEW r \in Request, LogFails(r) PROVE Ordered'
  BY <1>7 DEF LogFails
<1>8. ASSUME NEW r \in Request, Insert(r) PROVE Ordered'
  BY <1>8 DEF Insert
<1>9. ASSUME NEW r \in Request, Start(r) PROVE Ordered'
  BY <1>9 DEF Start
<1>10. ASSUME NEW r \in Request, NEW h \in Host, Read(r, h) PROVE Ordered'
  BY <1>10 DEF Read
<1>11. ASSUME NEW r \in Request, NEW h \in Host, Confirm(r, h) PROVE Ordered'
  BY <1>11 DEF Confirm
<1>12. ASSUME NEW r \in Request, Finish(r) PROVE Ordered'
  BY <1>12 DEF Finish
<1>13. ASSUME NEW r \in Request, FinishLog(r) PROVE Ordered'
  BY <1>13 DEF FinishLog
<1>14. ASSUME NEW r \in Request, FinishLogFails(r) PROVE Ordered'
  BY <1>14 DEF FinishLogFails
<1>15. ASSUME Restart PROVE Ordered'
  BY <1>15 DEF Restart
<1>16. ASSUME UNCHANGED vars PROVE Ordered'
  BY <1>16 DEF vars
<1> QED
  BY <1>1, <1>2, <1>3, <1>4, <1>5, <1>6, <1>7, <1>8, <1>9, <1>10, <1>11, <1>12,
      <1>13, <1>14, <1>15, <1>16
  DEF Next, Idle, Answer, Work

LEMMA LastConfirmerStep ==
    Serial /\ IInv /\ SInv /\ [Next]_vars => LastConfirmer'
<1> SUFFICES ASSUME Serial, IInv, SInv, [Next]_vars PROVE LastConfirmer'
  OBVIOUS
<1> USE NoneAssumption DEF Goto, world, entry, request, report, IInv, TypeOK, SInv,
    LastConfirmer, Ordered, OneKey, Stages, Sends, Labels
<1>1. ASSUME NEW h \in Host, Regenerate(h) PROVE LastConfirmer'
  BY <1>1 DEF Regenerate
<1>2. ASSUME Transfer PROVE LastConfirmer'
  BY <1>2 DEF Transfer
<1>3. ASSUME NEW r \in Request, Arrive(r) PROVE LastConfirmer'
  <2>1. UNCHANGED <<running, sent, took, id>>
    BY <1>3 DEF Arrive
  <2>2. hosts[r] = {} /\ \A q \in Request \ {r} : hosts'[q] = hosts[q] /\ key'[q] = key[q]
    BY <1>3 DEF Arrive
  <2> HIDE DEF IInv, TypeOK, Stages, Sends, Ordered, Labels
  <2>3. \A h \in Host : OneKey(h)' => OneKey(h)
    BY <2>2
  <2> HIDE DEF OneKey
  <2> QED BY <2>1, <2>3
<1>4. ASSUME NEW r \in Request, CheckPushes(r) PROVE LastConfirmer'
  BY <1>4 DEF CheckPushes, Busy
<1>5. ASSUME NEW r \in Request, CheckUpgrades(r) PROVE LastConfirmer'
  BY <1>5 DEF CheckUpgrades, Busy
<1>6. ASSUME NEW r \in Request, Log(r) PROVE LastConfirmer'
  <2>1. \A q \in Request \ {r} : id'[q] = id[q]
    BY <1>6 DEF Log
  <2>2. UNCHANGED <<running, sent, took, hosts, key>>
    BY <1>6 DEF Log
  <2>3. \A h \in Host : h \notin took[r]
    BY <1>6 DEF Log
  <2>4. \A h \in Host : OneKey(h)' => OneKey(h)
    BY <2>2
  <2> HIDE DEF IInv, TypeOK, Stages, Sends, Ordered, OneKey
  <2> QED BY <2>1, <2>2, <2>3, <2>4
<1>7. ASSUME NEW r \in Request, LogFails(r) PROVE LastConfirmer'
  BY <1>7 DEF LogFails
<1>8. ASSUME NEW r \in Request, Insert(r) PROVE LastConfirmer'
  BY <1>8 DEF Insert
<1>9. ASSUME NEW r \in Request, Start(r) PROVE LastConfirmer'
  BY <1>9 DEF Start
<1>10. ASSUME NEW r \in Request, NEW h \in Host, Read(r, h) PROVE LastConfirmer'
  <2>1. UNCHANGED <<running, took, id, hosts, key>>
    BY <1>10 DEF Read
  <2>2. \A q \in Request, g \in Host : g \in took[q] => sent'[q][g] = sent[q][g]
    BY <1>10 DEF Read
  <2>3. \A g \in Host : OneKey(g)' => OneKey(g)
    BY <2>1
  <2> HIDE DEF IInv, TypeOK, Stages, Sends, Ordered, OneKey
  <2> QED BY <2>1, <2>2, <2>3
<1>11. ASSUME NEW r \in Request, NEW h \in Host, Confirm(r, h) PROVE LastConfirmer'
  <2> SUFFICES ASSUME NEW g \in Host, OneKey(g), NEW q \in Request, g \in took'[q],
                      \A p \in Request : g \in took'[p] => id[p] <= id[q]
               PROVE  running'[g] = sent[q][g]
    <3> HIDE DEF Stages, Sends, Ordered
    <3> QED BY <1>11 DEF Confirm
  <2>1. CASE g = h
    <3>1. \A p \in Request : g \in took[p] /\ p # r => id[p] < id[r]
      BY <1>11, <2>1 DEF Confirm
    <3>2. h \in took'[r] /\ running'[h] = sent[r][h]
      BY <1>11 DEF Confirm, PerHost
    <3>3. q = r
      <4>1. id[r] <= id[q]
        BY <2>1, <3>2
      <4>2. q # r => g \in took[q]
        BY <1>11 DEF Confirm
      <4> QED BY <3>1, <4>1, <4>2
    <3> QED BY <2>1, <3>2, <3>3
  <2>2. CASE g # h
    <3>1. running'[g] = running[g] /\ \A p \in Request : g \in took'[p] <=> g \in took[p]
      BY <1>11, <2>2 DEF Confirm
    <3> QED BY <3>1
  <2> QED BY <2>1, <2>2
<1>12. ASSUME NEW r \in Request, Finish(r) PROVE LastConfirmer'
  BY <1>12 DEF Finish
<1>13. ASSUME NEW r \in Request, FinishLog(r) PROVE LastConfirmer'
  <2>1. UNCHANGED <<running, sent, took, id, hosts, key>>
    BY <1>13 DEF FinishLog
  <2> HIDE DEF IInv, TypeOK, Stages, Sends, Ordered, Labels
  <2>2. \A h \in Host : OneKey(h)' => OneKey(h)
    BY <2>1
  <2> HIDE DEF OneKey
  <2> QED BY <2>1, <2>2
<1>14. ASSUME NEW r \in Request, FinishLogFails(r) PROVE LastConfirmer'
  BY <1>14 DEF FinishLogFails
<1>15. ASSUME Restart PROVE LastConfirmer'
  BY <1>15 DEF Restart
<1>16. ASSUME UNCHANGED vars PROVE LastConfirmer'
  BY <1>16 DEF vars
<1> QED
  BY <1>1, <1>2, <1>3, <1>4, <1>5, <1>6, <1>7, <1>8, <1>9, <1>10, <1>11, <1>12,
      <1>13, <1>14, <1>15, <1>16
  DEF Next, Idle, Answer, Work

LEMMA AlwaysIInv == Spec => []IInv
<1>1. IInv /\ [Next]_vars => IInv'
  BY TypeStep, IdsStep, StagesStep, SendsStep DEF IInv
<1> QED BY <1>1, InitIInv, PTL DEF Spec

LEMMA AlwaysSInv == ASSUME Serial PROVE Spec => [](IInv /\ SInv)
<1>1. Init => SInv
  BY NoneAssumption DEF Init, SInv, OneHandling, Handling, Checked, Disjoint, Blocks,
      Ordered,
     LastConfirmer, OneKey
<1>2. IInv /\ SInv /\ [Next]_vars => SInv'
  BY OneHandlingStep, CheckedStep, DisjointStep, OrderedStep,
      LastConfirmerStep DEF SInv
<1> QED BY <1>1, <1>2, AlwaysIInv, PTL DEF Spec

-----------------------------------------------------------------------------
(* Theorems. *)

\* Every variable keeps its type, and no two audit entries have one id, for
\* any interleaving of the requests.
THEOREM TypeCorrect == Spec => []TypeOK
<1>1. IInv => TypeOK
  BY DEF IInv
<1> QED BY <1>1, AlwaysIInv, PTL

\* What keeps a switch busy, and what an entry says is running, is in the hands
\* of a thread that will end it, with two exceptions: the job of an upgrade
\* that could not open its entry (firmware_routes.py), and the entry of a run
\* whose end could not be written, which a restart closes.
BusyAtWork ==
    \A r \in Request :
        /\ job[r] = "unfinished" => AtWork(r) \/ (pc[r] = "failed" /\ kind[r] = "firmware")
        /\ audit[r] = "running" =>
             pc[r] \in {"inserting", "starting", "working", "finished", "unlogged"}

\* That is what JobSettles rests on, however many requests are served at once
\* and however often the server restarts.
THEOREM NothingLeftBusy == Spec => []BusyAtWork
<1>1. IInv => BusyAtWork
  BY DEF IInv, Stages, BusyAtWork
<1> QED BY <1>1, AlwaysIInv, PTL

\* ExclusiveSwitch: pushes and upgrades of one project that are at work share
\* no switch, when pushes and upgrades of one
\* switch are requested one at a time.
THEOREM SwitchesExclusive == ASSUME Serial PROVE Spec => []ExclusiveSwitch
<1>1. IInv /\ SInv => ExclusiveSwitch
  BY DEF IInv, SInv, Disjoint, Blocks, Stages, ExclusiveSwitch, Changing
<1> QED BY <1>1, AlwaysSInv, PTL

\* SameIsOnSwitch: a switch the Deploy page shows as having its current config
\* runs it, when pushes and upgrades of one switch are requested one at a time
\* and no confirmation of a later push of it was lost (by a restart, with a
\* result or with an entry).
THEOREM SameMeansRunning == ASSUME Serial PROVE Spec => []SameIsOnSwitch
<1>1. IInv /\ SInv => SameIsOnSwitch
  <2> SUFFICES ASSUME IInv, SInv, NEW h \in Host, NEW r \in LastPush(h),
                      sha[r][h] = config[h], AtRest(h), ~HandedOver(h),
                      sha[r][h] = sent[r][h], ~Lost(r, h)
               PROVE  running[h] = config[h]
    BY DEF SameIsOnSwitch, Same
  <2>1. r \in Request /\ h \in took[r]
    BY DEF LastPush, Confirmed, IInv, Sends
  <2>2. OneKey(h)
    BY DEF OneKey, HandedOver
  <2>3. ASSUME NEW q \in Request, h \in took[q] PROVE id[q] <= id[r]
    <3>1. CASE Confirmed(q, h)
      BY <3>1 DEF LastPush
    <3>2. CASE ~Confirmed(q, h)
      BY <2>1, <2>3, <3>2 DEF Lost, IInv, TypeOK
    <3> QED BY <3>1, <3>2
  <2> QED BY <2>1, <2>2, <2>3 DEF SInv, LastConfirmer
<1> QED BY <1>1, AlwaysSInv, PTL

=============================================================================
