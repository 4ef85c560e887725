--------------------------- MODULE JobQueueProofs ---------------------------
(* Proofs about JobQueue for every set of runners, every number of jobs, and *)
(* every value of the bounds: IInv is inductive, and implies the invariants  *)
(* that the runs check.                                                      *)
EXTENDS JobQueue, SelectorProofs

-----------------------------------------------------------------------------
\* The initial tables satisfy the inductive invariant.
LEMMA InitIInv == Init => IInv
  <1> SUFFICES ASSUME Init PROVE IInv
    OBVIOUS
  <1> USE QueueAssumption DEF Init, NoClaim, NoSweep
  <1>1. TypeOK
    BY DEF TypeOK, Job, Claim, StaleRow, RunnerIds
  <1>2. Bundled = {}
    BY DEF Bundled
  <1>3. AttemptsBounded /\ FailedForGood /\ SnapshotExact /\ ClaimsCounted
    BY DEF AttemptsBounded, FailedForGood, SnapshotExact, ClaimsCounted
  <1>4. OneHolderPerAttempt /\ HolderIsNamed /\ HoldersCounted
    BY <1>2 DEF OneHolderPerAttempt, HolderIsNamed, HoldersCounted
  <1>5. QED
    BY <1>1, <1>3, <1>4 DEF IInv

-----------------------------------------------------------------------------
\* What an UPDATE of one job's status changes.
LEMMA SetStatus ==
    ASSUME TypeOK,
           NEW j \in JobIds,
           NEW s \in {"absent", "queued", "running", "done", "failed"},
           jobs' = [jobs EXCEPT ![j].status = s]
    PROVE  /\ jobs' \in [JobIds -> Job]
           /\ jobs'[j].status = s
           /\ \A i \in JobIds : /\ i # j => jobs'[i] = jobs[i]
                               /\ jobs'[i].attempts = jobs[i].attempts
                               /\ jobs'[i].runner = jobs[i].runner
  <1> DEFINE row == [jobs[j] EXCEPT !.status = s]
  <1>1. \A i \in JobIds : jobs[i] \in Job
    BY DEF TypeOK
  <1>2. /\ row \in Job
        /\ row.status = s
        /\ row.attempts = jobs[j].attempts
        /\ row.runner = jobs[j].runner
    BY <1>1 DEF Job
  <1>3. jobs' = [i \in JobIds |-> IF i = j THEN row ELSE jobs[i]]
    BY DEF TypeOK
  <1> HIDE DEF row
  <1>4. QED
    BY <1>1, <1>2, <1>3

\* A row that is queued can be claimed within its attempts.
LEMMA WonRow ==
    ASSUME TypeOK, AttemptsBounded,
           NEW r \in RunnerIds, NEW j \in JobIds,
           ClaimUpdate(r, j), jobs[j].status = "queued"
    PROVE  /\ jobs' \in [JobIds -> Job]
           /\ jobs'[j].status = "running"
           /\ jobs'[j].runner = r
           /\ jobs'[j].attempts = jobs[j].attempts + 1
           /\ jobs[j].attempts + 1 \in Attempts
           /\ \A i \in JobIds : i # j => jobs'[i] = jobs[i]
           /\ claims' \in [RunnerIds -> Claim]
           /\ claims'[r].pc = "bundle" /\ claims'[r].job = j
           /\ claims'[r].att = jobs[j].attempts + 1
           /\ \A q \in RunnerIds : q # r => claims'[q] = claims[q]
           /\ UNCHANGED <<runners, proc, work, calls, sweep, restarts>>
  <1> DEFINE row == [jobs[j] EXCEPT !.status = "running", !.runner = r, !.attempts = @ + 1]
  <1> DEFINE won == [pc |-> "bundle", cand |-> {}, job |-> j, att |-> jobs[j].attempts + 1]
  <1>1. \A i \in JobIds : jobs[i] \in Job
    BY DEF TypeOK
  <1>2. jobs[j].attempts + 1 \in Attempts
    BY <1>1, QueueAssumption DEF AttemptsBounded, Job, Attempts
  <1>3. /\ row \in Job
        /\ row.status = "running" /\ row.runner = r
        /\ row.attempts = jobs[j].attempts + 1
    <2>1. jobs[j].attempts + 1 \in 0..MaxAttempts /\ r \in RunnerIds \cup {None}
      BY <1>2, QueueAssumption DEF Attempts
    <2>2. QED
      BY <1>1, <2>1 DEF Job
  <1>4. won \in Claim /\ won.pc = "bundle" /\ won.job = j /\ won.att = jobs[j].attempts + 1
    BY <1>2 DEF Claim, Attempts
  <1>5. jobs' = [i \in JobIds |-> IF i = j THEN row ELSE jobs[i]]
    BY DEF TypeOK, ClaimUpdate
  <1>6. claims' = [claims EXCEPT ![r] = won]
    BY DEF ClaimUpdate
  <1>7. UNCHANGED <<runners, proc, work, calls, sweep, restarts>>
    BY DEF ClaimUpdate
  <1> HIDE DEF row, won
  <1>8. claims' = [q \in RunnerIds |-> IF q = r THEN won ELSE claims[q]]
    BY <1>6 DEF TypeOK
  <1>9. claims' \in [RunnerIds -> Claim]
    BY <1>4, <1>8 DEF TypeOK
  <1>10. QED
    BY <1>1, <1>2, <1>3, <1>4, <1>5, <1>7, <1>8, <1>9

\* The UPDATE of the sweep that puts a job back in the queue.
LEMMA Requeued ==
    ASSUME TypeOK,
           NEW x \in sweep.todo, x.job \in JobIds,
           SweepUpdate(x), ~(x.att >= MaxAttempts)
    PROVE  /\ jobs' \in [JobIds -> Job]
           /\ jobs'[x.job].status = "queued"
           /\ jobs'[x.job].attempts = jobs[x.job].attempts
           /\ \A i \in JobIds : i # x.job => jobs'[i] = jobs[i]
  <1> DEFINE row == [jobs[x.job] EXCEPT !.status = "queued", !.runner = None]
  <1>1. \A i \in JobIds : jobs[i] \in Job
    BY DEF TypeOK
  <1>2. row \in Job /\ row.status = "queued" /\ row.attempts = jobs[x.job].attempts
    BY <1>1 DEF Job
  <1>3. jobs' = [i \in JobIds |-> IF i = x.job THEN row ELSE jobs[i]]
    BY DEF TypeOK, SweepUpdate
  <1> HIDE DEF row
  <1>4. QED
    BY <1>1, <1>2, <1>3

\* The kinds of claim that the actions write.
LEMMA ClaimValues ==
    /\ NoClaim \in Claim
    /\ \A r \in RunnerIds : Again(r) \in Claim /\ Again(r).pc \in {"idle", "poll"}
    /\ NoClaim.pc = "idle"
  BY QueueAssumption DEF NoClaim, Again, Claim

-----------------------------------------------------------------------------
(* Type correctness, one step per action.                                   *)

\* Every step keeps the types.
LEMMA TypeStep == IInv /\ [Next]_vars => TypeOK'
  <1> SUFFICES ASSUME IInv, [Next]_vars PROVE TypeOK'
    OBVIOUS
  <1> USE QueueAssumption
  <1>0. TypeOK /\ AttemptsBounded /\ HoldersCounted /\ ClaimsCounted
    BY DEF IInv
  <1>1. ASSUME NEW j \in JobIds, CreateJob(j) PROVE TypeOK'
    BY <1>0, <1>1, SetStatus DEF CreateJob, TypeOK
  <1> USE <1>0 DEF TypeOK
  <1>2. ASSUME NEW r \in RunnerIds, Register(r) PROVE TypeOK'
    BY <1>2 DEF Register
  <1>3. ASSUME NEW r \in RunnerIds, Heartbeat(r) PROVE TypeOK'
    BY <1>3 DEF Heartbeat
  <1>4. ASSUME NEW r \in RunnerIds, GoStale(r) PROVE TypeOK'
    BY <1>4 DEF GoStale
  <1>5. ASSUME NEW r \in RunnerIds, Die(r) PROVE TypeOK'
    BY <1>5 DEF Die
  <1>6. ASSUME NEW r \in RunnerIds, DeleteRunner(r) PROVE TypeOK'
    BY <1>6 DEF DeleteRunner
  <1>7. ASSUME NEW r \in RunnerIds, ClaimStart(r) PROVE TypeOK'
    BY <1>7, ClaimValues DEF ClaimStart
  <1>8. ASSUME NEW r \in RunnerIds, ClaimSelect(r) PROVE TypeOK'
    <2>1. Candidates(r) \in SUBSET JobIds
      BY DEF Candidates, Window, Queued
    <2>2. [claims[r] EXCEPT !.pc = "scan", !.cand = Candidates(r)] \in Claim
      <3>1. claims[r] \in Claim
        OBVIOUS
      <3> HIDE DEF TypeOK
      <3>2. QED
        BY <2>1, <3>1 DEF Claim
    <2>3. claims' \in [RunnerIds -> Claim]
      BY <1>8, <2>2 DEF ClaimSelect
    <2>4. runners' \in [RunnerIds -> {"absent", "fresh", "stale"}]
      BY <1>8 DEF ClaimSelect
    <2>5. QED
      BY <1>8, <2>3, <2>4 DEF ClaimSelect
  <1>9. ASSUME NEW r \in RunnerIds, NEW j \in JobIds, ClaimUpdate(r, j) PROVE TypeOK'
    <2>1. CASE jobs[j].status = "queued"
      BY <1>9, <2>1, WonRow
    <2>2. CASE jobs[j].status # "queued"
      <3>1. [claims[r] EXCEPT !.cand = @ \ {j}] \in Claim
        <4>1. claims[r] \in Claim
          OBVIOUS
        <4>2. claims[r].cand \ {j} \in SUBSET JobIds
          BY <4>1 DEF Claim
        <4> HIDE DEF TypeOK
        <4>3. QED
          BY <4>1, <4>2 DEF Claim
      <3>2. claims' \in [RunnerIds -> Claim]
        BY <1>9, <2>2, <3>1 DEF ClaimUpdate
      <3>3. QED
        BY <1>9, <2>2, <3>2 DEF ClaimUpdate
    <2>3. QED
      BY <2>1, <2>2
  <1>10. ASSUME NEW r \in RunnerIds, ClaimMiss(r) PROVE TypeOK'
    BY <1>10, ClaimValues DEF ClaimMiss
  <1>11. ASSUME NEW r \in RunnerIds, ClaimEnd(r) PROVE TypeOK'
    BY <1>11, ClaimValues DEF ClaimEnd
  <1>12. ASSUME NEW r \in RunnerIds, ClaimDeliver(r) PROVE TypeOK'
    <2>1. claims[r].job \in JobIds /\ claims[r].att \in Attempts
      BY <1>12 DEF ClaimDeliver, HoldersCounted, Bundled
    <2>2. QED
      BY <1>12, <2>1, ClaimValues DEF ClaimDeliver, Worker
  <1>13. ASSUME NEW r \in RunnerIds, ClaimLost(r) PROVE TypeOK'
    BY <1>13, ClaimValues DEF ClaimLost
  <1>14. ASSUME NEW r \in RunnerIds, ClaimUnbuildable(r) PROVE TypeOK'
    <2>1. claims[r].job \in JobIds
      BY <1>14 DEF ClaimUnbuildable, HoldersCounted, Bundled
    <2>2. jobs' \in [JobIds -> Job]
      BY <1>14, <2>1, SetStatus DEF ClaimUnbuildable
    <2>3. QED
      BY <1>14, <2>2, ClaimValues DEF ClaimUnbuildable
  <1>15. ASSUME NEW r \in RunnerIds, Post(r) PROVE TypeOK'
    <2>1. PICK w \in work, o \in Outcomes :
             /\ w.posts < MaxPosts
             /\ work' = (work \ {w}) \cup {[w EXCEPT !.outcome = o, !.posts = @ + 1]}
             /\ calls' = calls \cup {[runner |-> r, job |-> w.job, att |-> w.att,
                                      outcome |-> o, post |-> w.posts + 1, pc |-> "sent"]}
      BY <1>15 DEF Post
    <2>2. w \in Worker /\ w.posts + 1 \in 0..MaxPosts /\ w.posts + 1 \in 1..MaxPosts
      BY <2>1 DEF Worker
    <2>3. [w EXCEPT !.outcome = o, !.posts = @ + 1] \in Worker
      BY <2>2 DEF Worker
    <2>4. [runner |-> r, job |-> w.job, att |-> w.att,
           outcome |-> o, post |-> w.posts + 1, pc |-> "sent"] \in Call
      BY <2>2 DEF Worker, Call
    <2>5. work' \subseteq Worker /\ calls' \subseteq Call
      BY <2>1, <2>3, <2>4
    <2>6. QED
      BY <1>15, <2>5 DEF Post
  <1>16. ASSUME NEW r \in RunnerIds, GiveUp(r) PROVE TypeOK'
    BY <1>16 DEF GiveUp
  <1>17. ASSUME NEW c \in calls, CallLost(c) PROVE TypeOK'
    BY <1>17 DEF CallLost
  <1>18. ASSUME NEW c \in calls, CompleteCheck(c) PROVE TypeOK'
    BY <1>18 DEF CompleteCheck, Call
  <1>19. ASSUME NEW c \in calls, CompleteFinish(c) PROVE TypeOK'
    <2>1. jobs' \in [JobIds -> Job]
      BY <1>19, SetStatus DEF CompleteFinish, Call, Outcomes
    <2>2. QED
      BY <1>19, <2>1 DEF CompleteFinish
  <1>20. CASE EmbeddedFinish
    <2>1. jobs' \in [JobIds -> Job]
      BY <1>20, SetStatus DEF EmbeddedFinish, Worker, Outcomes
    <2>2. QED
      BY <1>20, <2>1 DEF EmbeddedFinish
  <1>21. CASE SweepScan
    <2>1. \A j \in JobIds : Stale(j) => jobs[j].attempts \in Attempts
      BY QueueAssumption DEF Stale, ClaimsCounted, Job, Attempts
    <2> DEFINE rows == {[job |-> j, att |-> jobs[j].attempts] : j \in {i \in JobIds : Stale(i)}}
    <2>2. rows \in SUBSET StaleRow
      BY <2>1 DEF StaleRow
    <2>3. sweep' = [todo |-> rows, failed |-> {}]
      BY <1>21 DEF SweepScan, NoSweep
    <2> HIDE DEF rows
    <2>4. sweep' \in [todo : SUBSET StaleRow, failed : SUBSET JobIds]
      BY <2>2, <2>3
    <2>5. UNCHANGED <<jobs, runners, proc, claims, work, calls, restarts>>
      BY <1>21 DEF SweepScan
    <2>6. QED
      BY <2>4, <2>5
  <1>22. ASSUME NEW x \in sweep.todo, SweepUpdate(x) PROVE TypeOK'
    <2>1. CASE x.att >= MaxAttempts
      <3>1. jobs' \in [JobIds -> Job]
        BY <1>22, <2>1, SetStatus DEF SweepUpdate, StaleRow
      <3>2. QED
        BY <1>22, <2>1, <3>1 DEF SweepUpdate, StaleRow
    <2>2. CASE ~(x.att >= MaxAttempts)
      <3>1. x.job \in JobIds
        BY DEF StaleRow
      <3>2. jobs' \in [JobIds -> Job]
        BY <1>22, <2>2, <3>1, Requeued
      <3>3. sweep' = [todo |-> sweep.todo \ {x}, failed |-> sweep.failed]
        BY <1>22, <2>2 DEF SweepUpdate
      <3>4. QED
        BY <1>22, <2>2, <3>2, <3>3 DEF SweepUpdate
    <2>3. QED
      BY <2>1, <2>2
  <1>23. ASSUME NEW j \in sweep.failed, SweepFail(j) PROVE TypeOK'
    <2>1. jobs' \in [JobIds -> Job]
      BY <1>23, SetStatus DEF SweepFail
    <2>2. QED
      BY <1>23, <2>1 DEF SweepFail
  <1>24. CASE Restart
    <2>1. claims' \in [RunnerIds -> Claim] /\ sweep' \in [todo : SUBSET StaleRow, failed : SUBSET JobIds]
      BY <1>24, ClaimValues DEF Restart, NoSweep
    <2>2. restarts' \in 0..MaxRestarts
      BY <1>24 DEF Restart
    <2>3. runners' \in [RunnerIds -> {"absent", "fresh", "stale"}]
      BY <1>24 DEF Restart
    <2>4. QED
      BY <1>24, <2>1, <2>2, <2>3 DEF Restart
  <1>25. CASE UNCHANGED vars
    BY <1>25 DEF vars
  <1>26. QED
    BY <1>1, <1>2, <1>3, <1>4, <1>5, <1>6, <1>7, <1>8, <1>9, <1>10, <1>11, <1>12, <1>13,
       <1>14, <1>15, <1>16, <1>17, <1>18, <1>19, <1>20, <1>21, <1>22, <1>23, <1>24, <1>25
    DEF Next, RunnerNext, ClaimNext, CallNext, SweepNext

-----------------------------------------------------------------------------
(* The invariants. Most steps give no one a job and put none in the queue:  *)
(* they end jobs, drop holders and forget snapshots. Only a new row, a won  *)
(* claim, a delivered bundle, a post and the sweep need an argument.        *)

JobsOnlyEnd ==
    \A j \in JobIds :
        /\ jobs'[j].attempts = jobs[j].attempts
        /\ jobs'[j].status \notin Outcomes => jobs'[j] = jobs[j]

HoldersOnlyLeave ==
    /\ work' \subseteq work
    /\ \A r \in Bundled' : r \in Bundled /\ claims'[r] = claims[r]

SweepOnlyShrinks ==
    /\ sweep'.todo \subseteq sweep.todo
    /\ \A j \in sweep'.failed :
          \/ j \in sweep.failed
          \/ jobs[j].attempts = MaxAttempts /\ jobs[j].status \notin {"absent", "queued"}

\* A step that only takes away preserves the inductive invariant.
LEMMA QuietStep ==
    ASSUME IInv, TypeOK', JobsOnlyEnd, HoldersOnlyLeave, SweepOnlyShrinks
    PROVE  IInv'
  <1>0. /\ TypeOK /\ AttemptsBounded /\ OneHolderPerAttempt /\ HolderIsNamed
        /\ FailedForGood /\ SnapshotExact /\ HoldersCounted /\ ClaimsCounted
    BY DEF IInv
  <1>1. /\ \A w \in work' : w \in work /\ w.job \in JobIds
        /\ \A x \in sweep'.todo : x \in sweep.todo /\ x.job \in JobIds
        /\ \A j \in sweep'.failed : j \in JobIds
        /\ \A r \in Bundled' : claims'[r].job \in JobIds
    BY <1>0 DEF TypeOK, HoldersOnlyLeave, SweepOnlyShrinks, Worker, StaleRow, HoldersCounted
  <1>2. \A j \in JobIds :
           /\ jobs'[j].status = "queued" => jobs[j].status = "queued"
           /\ jobs'[j].status = "absent" => jobs[j].status = "absent"
           /\ jobs'[j].status = "running" => jobs[j].status = "running" /\ jobs'[j].runner = jobs[j].runner
    BY DEF JobsOnlyEnd, Outcomes
  <1>21. \A j \in JobIds : jobs'[j].status \in {"absent", "queued"}
                              => jobs[j].status \in {"absent", "queued"}
    BY <1>2
  <1>3. AttemptsBounded'
    BY <1>0, <1>2 DEF JobsOnlyEnd, AttemptsBounded
  <1>4. OneHolderPerAttempt'
    BY <1>0 DEF HoldersOnlyLeave, OneHolderPerAttempt
  <1>5. HolderIsNamed'
    BY <1>0, <1>1, <1>2 DEF JobsOnlyEnd, HoldersOnlyLeave, HolderIsNamed
  <1>6. FailedForGood'
    BY <1>0, <1>1, <1>21 DEF JobsOnlyEnd, SweepOnlyShrinks, FailedForGood
  <1>7. SnapshotExact'
    BY <1>0, <1>1, <1>21 DEF JobsOnlyEnd, SweepOnlyShrinks, SnapshotExact
  <1>8. HoldersCounted'
    BY <1>0, <1>1 DEF JobsOnlyEnd, HoldersOnlyLeave, HoldersCounted
  <1>9. ClaimsCounted'
    BY <1>0, <1>2 DEF JobsOnlyEnd, ClaimsCounted
  <1>10. QED
    BY <1>3, <1>4, <1>5, <1>6, <1>7, <1>8, <1>9 DEF IInv

\* The UPDATE of one job to done or failed.
LEMMA EndJob ==
    ASSUME TypeOK,
           NEW j \in JobIds, NEW o \in Outcomes,
           jobs' = [jobs EXCEPT ![j].status = o]
    PROVE  JobsOnlyEnd
  BY SetStatus DEF JobsOnlyEnd, Outcomes

\* INSERT INTO jobs: the new row is queued and has no attempt yet.
LEMMA CreateStep ==
    ASSUME IInv, TypeOK', NEW j \in JobIds, CreateJob(j)
    PROVE  IInv'
  <1>0. /\ TypeOK /\ AttemptsBounded /\ OneHolderPerAttempt /\ HolderIsNamed
        /\ FailedForGood /\ SnapshotExact /\ HoldersCounted /\ ClaimsCounted
    BY DEF IInv
  <1>1. /\ jobs'[j].status = "queued" /\ jobs[j].status = "absent"
        /\ \A i \in JobIds : /\ i # j => jobs'[i] = jobs[i]
                             /\ jobs'[i].attempts = jobs[i].attempts
                             /\ jobs'[i].runner = jobs[i].runner
    BY <1>0, SetStatus DEF CreateJob
  <1>2. UNCHANGED <<claims, work, sweep>> /\ Bundled' = Bundled
    BY DEF CreateJob, Bundled
  <1>3. /\ \A w \in work : w.job \in JobIds
        /\ \A x \in sweep.todo : x.job \in JobIds
        /\ \A i \in sweep.failed : i \in JobIds
    BY <1>0 DEF TypeOK, Worker, StaleRow
  <1>4. AttemptsBounded' /\ ClaimsCounted'
    <2>1. jobs[j].attempts = 0 /\ 0 < MaxAttempts
      BY <1>0, <1>1, QueueAssumption DEF ClaimsCounted
    <2>2. QED
      BY <1>0, <1>1, <2>1 DEF AttemptsBounded, ClaimsCounted
  <1>5. OneHolderPerAttempt'
    BY <1>0, <1>2 DEF OneHolderPerAttempt
  <1>6. HolderIsNamed' /\ HoldersCounted'
    BY <1>0, <1>1, <1>2, <1>3 DEF HolderIsNamed, HoldersCounted
  <1>7. FailedForGood' /\ SnapshotExact'
    BY <1>0, <1>1, <1>2, <1>3 DEF FailedForGood, SnapshotExact
  <1>8. QED
    BY <1>4, <1>5, <1>6, <1>7 DEF IInv

\* A won row: the new attempt is one more than any holder of the job has.
LEMMA WinStep ==
    ASSUME IInv, TypeOK',
           NEW r \in RunnerIds, NEW j \in JobIds,
           ClaimUpdate(r, j), jobs[j].status = "queued"
    PROVE  IInv'
  <1>0. /\ TypeOK /\ AttemptsBounded /\ OneHolderPerAttempt /\ HolderIsNamed
        /\ FailedForGood /\ SnapshotExact /\ HoldersCounted /\ ClaimsCounted
    BY DEF IInv
  <1>1. /\ jobs'[j].status = "running" /\ jobs'[j].runner = r
        /\ jobs'[j].attempts = jobs[j].attempts + 1
        /\ jobs[j].attempts + 1 \in Attempts
        /\ \A i \in JobIds : i # j => jobs'[i] = jobs[i]
        /\ claims'[r].job = j /\ claims'[r].att = jobs[j].attempts + 1
        /\ \A q \in RunnerIds : q # r => claims'[q] = claims[q]
        /\ UNCHANGED <<work, sweep>>
    BY <1>0, WonRow
  <1>2. Bundled' = Bundled \cup {r} /\ r \notin Bundled
    <2>1. claims[r].pc = "scan"
      BY DEF ClaimUpdate
    <2>2. claims'[r].pc = "bundle" /\ \A q \in RunnerIds : q # r => claims'[q] = claims[q]
      BY <1>0, WonRow
    <2>3. QED
      BY <2>1, <2>2 DEF Bundled
  <1>3. /\ \A w \in work : w.job \in JobIds /\ w.att \in Attempts
        /\ \A x \in sweep.todo : x.job \in JobIds
        /\ \A i \in sweep.failed : i \in JobIds
        /\ \A i \in JobIds : jobs[i].attempts \in Nat
        /\ Attempts \subseteq Nat
        /\ \A q \in Bundled : claims[q].job \in JobIds /\ claims[q].att \in Attempts
    BY <1>0, QueueAssumption DEF TypeOK, Worker, StaleRow, Job, Attempts, HoldersCounted
  <1>4. /\ \A w \in work : w.job = j => w.att < jobs'[j].attempts
        /\ \A q \in Bundled : claims[q].job = j => claims[q].att < jobs'[j].attempts
    <2>1. /\ \A w \in work : w.att <= jobs[w.job].attempts
          /\ \A q \in Bundled : claims[q].att <= jobs[claims[q].job].attempts
      BY <1>0 DEF HoldersCounted
    <2>2. \A a \in Nat : a <= jobs[j].attempts => a < jobs'[j].attempts
      BY <1>1, <1>3
    <2>3. QED
      BY <1>3, <2>1, <2>2
  <1>5. AttemptsBounded' /\ ClaimsCounted'
    BY <1>0, <1>1, <1>3 DEF AttemptsBounded, ClaimsCounted
  <1>6. OneHolderPerAttempt'
    <2>1. \A q \in Bundled : q # r /\ claims'[q] = claims[q] /\ q \in RunnerIds
      BY <1>1, <1>2 DEF Bundled
    <2>2. \A w \in work : ~(w.job = claims'[r].job /\ w.att = claims'[r].att)
      BY <1>1, <1>3, <1>4
    <2>3. \A q \in Bundled : ~(claims[q].job = claims'[r].job /\ claims[q].att = claims'[r].att)
      BY <1>0, <1>1, <1>3, <1>4 DEF HoldersCounted
    <2>4. QED
      BY <1>0, <1>1, <1>2, <2>1, <2>2, <2>3 DEF OneHolderPerAttempt
  <1>7. HolderIsNamed'
    <2>1. \A w \in work' :
             jobs'[w.job].status = "running" /\ jobs'[w.job].attempts = w.att
               => jobs'[w.job].runner = w.runner
      BY <1>0, <1>1, <1>3, <1>4 DEF HolderIsNamed
    <2>2. \A q \in Bundled' :
             jobs'[claims'[q].job].status = "running"
               /\ jobs'[claims'[q].job].attempts = claims'[q].att
               => jobs'[claims'[q].job].runner = q
      <3> SUFFICES ASSUME NEW q \in Bundled, q # r,
                          jobs'[claims[q].job].status = "running",
                          jobs'[claims[q].job].attempts = claims[q].att
                   PROVE  jobs'[claims[q].job].runner = q
        BY <1>1, <1>2 DEF Bundled
      <3>1. claims[q].job \in JobIds /\ claims[q].att \in Nat
        BY <1>0, <1>3 DEF HoldersCounted
      <3>2. claims[q].job # j
        BY <1>1, <1>3, <1>4, <3>1
      <3>3. QED
        BY <1>0, <1>1, <3>1, <3>2 DEF HolderIsNamed
    <2>3. QED
      BY <2>1, <2>2 DEF HolderIsNamed
  <1>8. HoldersCounted'
    <2>1. \A i \in JobIds, a \in Nat : a <= jobs[i].attempts => a <= jobs'[i].attempts
      <3> SUFFICES ASSUME NEW i \in JobIds, NEW a \in Nat, a <= jobs[i].attempts
                   PROVE  a <= jobs'[i].attempts
        OBVIOUS
      <3>1. CASE i = j
        <4>1. jobs[j].attempts \in Nat
          BY <1>3
        <4>2. QED
          BY <1>1, <3>1, <4>1
      <3>2. CASE i # j
        BY <1>1, <3>2
      <3>3. QED
        BY <3>1, <3>2
    <2>2. \A w \in work' : w.att <= jobs'[w.job].attempts
      BY <1>0, <1>1, <1>3, <2>1 DEF HoldersCounted
    <2>3. /\ claims'[r].job \in JobIds
          /\ claims'[r].att \in Attempts
          /\ claims'[r].att <= jobs'[claims'[r].job].attempts
      BY <1>1, <1>3
    <2>4. \A q \in Bundled \ {r} : /\ claims'[q].job \in JobIds
                                   /\ claims'[q].att \in Attempts
                                   /\ claims'[q].att <= jobs'[claims'[q].job].attempts
      <3> SUFFICES ASSUME NEW q \in Bundled, q # r
                   PROVE  /\ claims'[q].job \in JobIds
                          /\ claims'[q].att \in Attempts
                          /\ claims'[q].att <= jobs'[claims'[q].job].attempts
        OBVIOUS
      <3>1. claims'[q] = claims[q]
        BY <1>1 DEF Bundled
      <3>2. claims[q].job \in JobIds /\ claims[q].att \in Attempts /\ claims[q].att \in Nat
        BY <1>3
      <3>3. claims[q].att <= jobs[claims[q].job].attempts
        BY <1>0 DEF HoldersCounted
      <3>4. QED
        BY <2>1, <3>1, <3>2, <3>3
    <2>5. QED
      BY <1>2, <2>2, <2>3, <2>4 DEF HoldersCounted
  <1>9. FailedForGood' /\ SnapshotExact'
    BY <1>0, <1>1, <1>3 DEF FailedForGood, SnapshotExact
  <1>10. QED
    BY <1>5, <1>6, <1>7, <1>8, <1>9 DEF IInv

\* A delivered bundle: the worker takes the attempt over from the claim.
LEMMA DeliverStep ==
    ASSUME IInv, TypeOK', NEW r \in RunnerIds, ClaimDeliver(r)
    PROVE  IInv'
  <1>0. /\ TypeOK /\ AttemptsBounded /\ OneHolderPerAttempt /\ HolderIsNamed
        /\ FailedForGood /\ SnapshotExact /\ HoldersCounted /\ ClaimsCounted
    BY DEF IInv
  <1> DEFINE new == [runner |-> r, job |-> claims[r].job, att |-> claims[r].att,
                     outcome |-> None, posts |-> 0]
  <1>1. /\ work' = work \cup {new}
        /\ UNCHANGED <<jobs, sweep>>
        /\ r \in Bundled
        /\ Bundled' = Bundled \ {r}
        /\ \A q \in Bundled' : claims'[q] = claims[q]
    BY <1>0, ClaimValues DEF ClaimDeliver, Bundled, TypeOK
  <1>2. new.runner = r /\ new.job = claims[r].job /\ new.att = claims[r].att
    OBVIOUS
  <1> HIDE DEF new
  <1>3. AttemptsBounded' /\ ClaimsCounted' /\ FailedForGood' /\ SnapshotExact'
    BY <1>0, <1>1 DEF AttemptsBounded, ClaimsCounted, FailedForGood, SnapshotExact
  <1>4. OneHolderPerAttempt'
    BY <1>0, <1>1, <1>2 DEF OneHolderPerAttempt
  <1>5. HolderIsNamed'
    BY <1>0, <1>1, <1>2 DEF HolderIsNamed
  <1>6. HoldersCounted'
    BY <1>0, <1>1, <1>2 DEF HoldersCounted
  <1>7. QED
    BY <1>3, <1>4, <1>5, <1>6 DEF IInv

\* A post changes neither the job nor the attempt of its worker.
LEMMA PostStep ==
    ASSUME IInv, TypeOK', NEW r \in RunnerIds, Post(r)
    PROVE  IInv'
  <1>0. /\ TypeOK /\ AttemptsBounded /\ OneHolderPerAttempt /\ HolderIsNamed
        /\ FailedForGood /\ SnapshotExact /\ HoldersCounted /\ ClaimsCounted
    BY DEF IInv
  <1>1. PICK w \in work, o \in Outcomes :
           work' = (work \ {w}) \cup {[w EXCEPT !.outcome = o, !.posts = @ + 1]}
    BY DEF Post
  <1> DEFINE new == [w EXCEPT !.outcome = o, !.posts = @ + 1]
  <1>2. new.runner = w.runner /\ new.job = w.job /\ new.att = w.att
    BY <1>0 DEF TypeOK, Worker
  <1>3. work' = (work \ {w}) \cup {new}
    BY <1>1
  <1> HIDE DEF new
  <1>4. UNCHANGED <<jobs, claims, sweep>> /\ Bundled' = Bundled
    BY DEF Post, Bundled
  <1>5. AttemptsBounded' /\ ClaimsCounted' /\ FailedForGood' /\ SnapshotExact'
    BY <1>0, <1>4 DEF AttemptsBounded, ClaimsCounted, FailedForGood, SnapshotExact
  <1>6. OneHolderPerAttempt'
    BY <1>0, <1>2, <1>3, <1>4 DEF OneHolderPerAttempt
  <1>7. HolderIsNamed'
    BY <1>0, <1>2, <1>3, <1>4 DEF HolderIsNamed
  <1>8. HoldersCounted'
    BY <1>0, <1>2, <1>3, <1>4 DEF HoldersCounted
  <1>9. QED
    BY <1>5, <1>6, <1>7, <1>8 DEF IInv

\* The SELECT of the sweep: only running rows, with the attempts they have.
LEMMA ScanStep ==
    ASSUME IInv, TypeOK', SweepScan
    PROVE  IInv'
  <1>0. /\ TypeOK /\ AttemptsBounded /\ OneHolderPerAttempt /\ HolderIsNamed
        /\ FailedForGood /\ SnapshotExact /\ HoldersCounted /\ ClaimsCounted
    BY DEF IInv
  <1>1. /\ UNCHANGED <<jobs, claims, work>> /\ Bundled' = Bundled
        /\ sweep'.failed = sweep.failed
        /\ sweep'.todo = {[job |-> j, att |-> jobs[j].attempts] : j \in {i \in JobIds : Stale(i)}}
    BY DEF SweepScan, NoSweep, Bundled
  <1>2. \A x \in sweep'.todo :
           jobs[x.job].attempts = x.att /\ jobs[x.job].status = "running"
    BY <1>1 DEF Stale
  <1>3. SnapshotExact'
    BY <1>1, <1>2 DEF SnapshotExact
  <1>4. AttemptsBounded' /\ ClaimsCounted' /\ FailedForGood'
    BY <1>0, <1>1 DEF AttemptsBounded, ClaimsCounted, FailedForGood
  <1>5. OneHolderPerAttempt' /\ HolderIsNamed' /\ HoldersCounted'
    BY <1>0, <1>1 DEF OneHolderPerAttempt, HolderIsNamed, HoldersCounted
  <1>6. QED
    BY <1>3, <1>4, <1>5 DEF IInv

\* An UPDATE of the sweep that fails a job: its attempts are used up.
LEMMA FailUpdateStep ==
    ASSUME IInv, TypeOK', NEW x \in sweep.todo, SweepUpdate(x), x.att >= MaxAttempts
    PROVE  IInv'
  <1>0. TypeOK /\ SnapshotExact
    BY DEF IInv
  <1>1. /\ x.job \in JobIds
        /\ jobs[x.job].attempts = MaxAttempts
        /\ jobs[x.job].status \notin {"absent", "queued"}
    <2>1. x.job \in JobIds /\ x.att \in Attempts
      BY <1>0 DEF TypeOK, StaleRow
    <2>2. x.att = MaxAttempts
      BY <2>1, QueueAssumption DEF Attempts
    <2>3. QED
      BY <1>0, <2>1, <2>2 DEF SnapshotExact
  <1>2. /\ jobs' = [jobs EXCEPT ![x.job].status = "failed"]
        /\ sweep' = [todo |-> sweep.todo \ {x}, failed |-> sweep.failed \cup {x.job}]
        /\ UNCHANGED <<claims, work>>
    BY DEF SweepUpdate
  <1>3. JobsOnlyEnd
    BY <1>0, <1>1, <1>2, EndJob DEF Outcomes
  <1>4. HoldersOnlyLeave
    BY <1>2 DEF HoldersOnlyLeave, Bundled
  <1>5. SweepOnlyShrinks
    BY <1>1, <1>2 DEF SweepOnlyShrinks
  <1>6. QED
    BY <1>3, <1>4, <1>5, QuietStep

\* An UPDATE of the sweep that queues a job again: its attempts are not used up,
\* no other snapshot is of this job, and no holder is ahead of the row.
LEMMA RequeueUpdateStep ==
    ASSUME IInv, TypeOK', NEW x \in sweep.todo, SweepUpdate(x), ~(x.att >= MaxAttempts)
    PROVE  IInv'
  <1>0. /\ TypeOK /\ AttemptsBounded /\ OneHolderPerAttempt /\ HolderIsNamed
        /\ FailedForGood /\ SnapshotExact /\ HoldersCounted /\ ClaimsCounted
    BY DEF IInv
  <1>1. /\ x.job \in JobIds
        /\ jobs[x.job].attempts = x.att
        /\ x.att < MaxAttempts
    <2>1. x.job \in JobIds /\ x.att \in Attempts
      BY <1>0 DEF TypeOK, StaleRow
    <2>2. x.att < MaxAttempts
      BY <2>1, QueueAssumption DEF Attempts
    <2>3. QED
      BY <1>0, <2>1, <2>2 DEF SnapshotExact
  <1>2. /\ jobs'[x.job].status = "queued"
        /\ \A i \in JobIds : /\ i # x.job => jobs'[i] = jobs[i]
                             /\ jobs'[i].attempts = jobs[i].attempts
    BY <1>0, <1>1, Requeued
  <1>3. /\ sweep'.todo = sweep.todo \ {x} /\ sweep'.failed = sweep.failed
        /\ UNCHANGED <<claims, work>> /\ Bundled' = Bundled
    BY <1>0 DEF SweepUpdate, Bundled, TypeOK
  <1>4. /\ \A w \in work : w.job \in JobIds
        /\ \A y \in sweep.todo : y \in StaleRow /\ y.job \in JobIds
        /\ \A i \in sweep.failed : i \in JobIds
    BY <1>0 DEF TypeOK, Worker, StaleRow
  <1>5. AttemptsBounded' /\ ClaimsCounted'
    BY <1>0, <1>1, <1>2 DEF AttemptsBounded, ClaimsCounted
  <1>6. OneHolderPerAttempt'
    BY <1>0, <1>3 DEF OneHolderPerAttempt
  <1>7. HolderIsNamed' /\ HoldersCounted'
    BY <1>0, <1>2, <1>3, <1>4 DEF HolderIsNamed, HoldersCounted
  <1>8. FailedForGood'
    <2>1. x.job \notin sweep.failed
      BY <1>0, <1>1, QueueAssumption DEF FailedForGood
    <2>2. QED
      BY <1>0, <1>2, <1>3, <1>4, <2>1 DEF FailedForGood
  <1>9. SnapshotExact'
    <2>1. \A y \in sweep.todo \ {x} : y.job # x.job
      BY <1>0, <1>4 DEF SnapshotExact, StaleRow
    <2>2. QED
      BY <1>0, <1>2, <1>3, <1>4, <2>1 DEF SnapshotExact
  <1>10. QED
    BY <1>5, <1>6, <1>7, <1>8, <1>9 DEF IInv

\* A step that ends no job, starts no holder and leaves the sweep alone.
LEMMA FrameStep ==
    ASSUME IInv, TypeOK', UNCHANGED <<jobs, sweep>>, HoldersOnlyLeave
    PROVE  IInv'
  <1>1. JobsOnlyEnd /\ SweepOnlyShrinks
    BY DEF JobsOnlyEnd, SweepOnlyShrinks
  <1>2. QED
    BY <1>1, QuietStep

-----------------------------------------------------------------------------
\* Every step keeps the inductive invariant.
LEMMA InvStep == IInv /\ [Next]_vars => IInv'
  <1> SUFFICES ASSUME IInv, [Next]_vars PROVE IInv'
    OBVIOUS
  <1>a. TypeOK'
    BY TypeStep
  <1>0. TypeOK /\ HoldersCounted
    BY DEF IInv
  <1>1. ASSUME NEW j \in JobIds, CreateJob(j) PROVE IInv'
    BY <1>a, <1>1, CreateStep
  <1>2. ASSUME NEW r \in RunnerIds,
               Register(r) \/ Heartbeat(r) \/ GoStale(r) \/ Die(r) \/ DeleteRunner(r) \/ GiveUp(r)
        PROVE  IInv'
    <2>1. UNCHANGED <<jobs, sweep, claims>> /\ work' \subseteq work
      BY <1>2 DEF Register, Heartbeat, GoStale, Die, DeleteRunner, GiveUp
    <2>2. QED
      BY <1>a, <2>1, FrameStep DEF HoldersOnlyLeave, Bundled
  <1>3. ASSUME NEW r \in RunnerIds,
               ClaimStart(r) \/ ClaimMiss(r) \/ ClaimEnd(r) \/ ClaimLost(r)
        PROVE  IInv'
    <2>1. /\ UNCHANGED <<jobs, sweep, work>>
          /\ claims' = [claims EXCEPT ![r] = Again(r)] \/ claims' = [claims EXCEPT ![r] = NoClaim]
      BY <1>3 DEF ClaimStart, ClaimMiss, ClaimEnd, ClaimLost
    <2>2. HoldersOnlyLeave
      BY <1>0, <2>1, ClaimValues DEF HoldersOnlyLeave, Bundled, TypeOK
    <2>3. QED
      BY <1>a, <2>1, <2>2, FrameStep
  <1>4. ASSUME NEW r \in RunnerIds, ClaimSelect(r) PROVE IInv'
    <2>1. UNCHANGED <<jobs, sweep, work>>
      BY <1>4 DEF ClaimSelect
    <2>2. claims'[r].pc = "scan" /\ \A q \in RunnerIds : q # r => claims'[q] = claims[q]
      BY <1>0, <1>4 DEF ClaimSelect, TypeOK, Claim
    <2>3. QED
      BY <1>a, <2>1, <2>2, FrameStep DEF HoldersOnlyLeave, Bundled
  <1>5. ASSUME NEW r \in RunnerIds, NEW j \in JobIds, ClaimUpdate(r, j) PROVE IInv'
    <2>1. CASE jobs[j].status = "queued"
      BY <1>a, <1>5, <2>1, WinStep
    <2>2. CASE jobs[j].status # "queued"
      <3>1. UNCHANGED <<jobs, sweep, work>>
        BY <1>5, <2>2 DEF ClaimUpdate
      <3>2. claims'[r].pc = "scan" /\ \A q \in RunnerIds : q # r => claims'[q] = claims[q]
        BY <1>0, <1>5, <2>2 DEF ClaimUpdate, TypeOK, Claim
      <3>3. QED
        BY <1>a, <3>1, <3>2, FrameStep DEF HoldersOnlyLeave, Bundled
    <2>3. QED
      BY <2>1, <2>2
  <1>6. ASSUME NEW r \in RunnerIds, ClaimDeliver(r) PROVE IInv'
    BY <1>a, <1>6, DeliverStep
  <1>7. ASSUME NEW r \in RunnerIds, ClaimUnbuildable(r) PROVE IInv'
    <2>1. claims[r].job \in JobIds
      BY <1>0, <1>7 DEF ClaimUnbuildable, HoldersCounted, Bundled
    <2>2. JobsOnlyEnd
      BY <1>0, <1>7, <2>1, EndJob DEF ClaimUnbuildable, Outcomes
    <2>3. HoldersOnlyLeave
      BY <1>0, <1>7, ClaimValues DEF ClaimUnbuildable, HoldersOnlyLeave, Bundled, TypeOK
    <2>4. SweepOnlyShrinks
      BY <1>7 DEF ClaimUnbuildable, SweepOnlyShrinks
    <2>5. QED
      BY <1>a, <2>2, <2>3, <2>4, QuietStep
  <1>8. ASSUME NEW r \in RunnerIds, Post(r) PROVE IInv'
    BY <1>a, <1>8, PostStep
  <1>9. ASSUME NEW c \in calls, CallLost(c) \/ CompleteCheck(c) PROVE IInv'
    BY <1>a, <1>9, FrameStep DEF CallLost, CompleteCheck, HoldersOnlyLeave, Bundled
  <1>10. ASSUME NEW c \in calls, CompleteFinish(c) PROVE IInv'
    <2>1. c.job \in JobIds /\ c.outcome \in Outcomes
      BY <1>0 DEF TypeOK, Call
    <2>2. JobsOnlyEnd
      BY <1>0, <1>10, <2>1, EndJob DEF CompleteFinish
    <2>3. HoldersOnlyLeave /\ SweepOnlyShrinks
      BY <1>10 DEF CompleteFinish, HoldersOnlyLeave, SweepOnlyShrinks, Bundled
    <2>4. QED
      BY <1>a, <2>2, <2>3, QuietStep
  <1>11. CASE EmbeddedFinish
    <2>1. PICK w \in work, o \in Outcomes : jobs' = [jobs EXCEPT ![w.job].status = o]
      BY <1>11 DEF EmbeddedFinish
    <2>2. w.job \in JobIds
      BY <1>0 DEF TypeOK, Worker
    <2>3. JobsOnlyEnd
      BY <1>0, <2>1, <2>2, EndJob
    <2>4. HoldersOnlyLeave /\ SweepOnlyShrinks
      BY <1>11 DEF EmbeddedFinish, HoldersOnlyLeave, SweepOnlyShrinks, Bundled
    <2>5. QED
      BY <1>a, <2>3, <2>4, QuietStep
  <1>12. CASE SweepScan
    BY <1>a, <1>12, ScanStep
  <1>13. ASSUME NEW x \in sweep.todo, SweepUpdate(x) PROVE IInv'
    BY <1>a, <1>13, FailUpdateStep, RequeueUpdateStep
  <1>14. ASSUME NEW j \in sweep.failed, SweepFail(j) PROVE IInv'
    <2>1. j \in JobIds
      BY <1>0 DEF TypeOK
    <2>2. JobsOnlyEnd
      BY <1>0, <1>14, <2>1, EndJob DEF SweepFail, Outcomes
    <2>3. HoldersOnlyLeave /\ SweepOnlyShrinks
      BY <1>0, <1>14 DEF SweepFail, HoldersOnlyLeave, SweepOnlyShrinks, Bundled, TypeOK
    <2>4. QED
      BY <1>a, <2>2, <2>3, QuietStep
  <1>15. CASE Restart
    <2>1. /\ UNCHANGED jobs /\ work' \subseteq work /\ Bundled' = {}
          /\ sweep'.todo = {} /\ sweep'.failed = {}
      BY <1>15, ClaimValues DEF Restart, NoSweep, Bundled
    <2>2. JobsOnlyEnd /\ HoldersOnlyLeave /\ SweepOnlyShrinks
      BY <2>1 DEF JobsOnlyEnd, HoldersOnlyLeave, SweepOnlyShrinks
    <2>3. QED
      BY <1>a, <2>2, QuietStep
  <1>16. CASE UNCHANGED vars
    BY <1>a, <1>16, FrameStep DEF vars, HoldersOnlyLeave, Bundled
  <1>17. QED
    BY <1>1, <1>2, <1>3, <1>4, <1>5, <1>6, <1>7, <1>8, <1>9, <1>10, <1>11, <1>12, <1>13,
       <1>14, <1>15, <1>16
    DEF Next, RunnerNext, ClaimNext, CallNext, SweepNext

-----------------------------------------------------------------------------
\* The tables, requests and snapshots of the queue are always well formed, and
\* every state satisfies the inductive invariant.
THEOREM QueueInvariant == Spec => []IInv
  <1>1. QED
    BY InitIInv, InvStep, PTL DEF Spec

\* Type correctness.
THEOREM TypeCorrect == Spec => []TypeOK
  <1>1. IInv => TypeOK
    BY DEF IInv
  <1>2. QED
    BY <1>1, QueueInvariant, PTL

\* maxJobAttempts bounds the attempts: a job that used them is never queued.
THEOREM AttemptsAreBounded == Spec => []AttemptsBounded
  <1>1. IInv => AttemptsBounded
    BY DEF IInv
  <1>2. QED
    BY <1>1, QueueInvariant, PTL

\* No attempt of a job is in the hands of two runners.
THEOREM OneHolder == Spec => []OneHolderPerAttempt
  <1>1. IInv => OneHolderPerAttempt
    BY DEF IInv
  <1>2. QED
    BY <1>1, QueueInvariant, PTL

\* The row of a running job names the runner that holds its last attempt.
THEOREM HolderNamed == Spec => []HolderIsNamed
  <1>1. IInv => HolderIsNamed
    BY DEF IInv
  <1>2. QED
    BY <1>1, QueueInvariant, PTL

\* The requeue loop fails for good only jobs that have used all attempts.
THEOREM OnlyExhaustedFail == Spec => []FailedForGood
  <1>1. IInv => FailedForGood
    BY DEF IInv
  <1>2. QED
    BY <1>1, QueueInvariant, PTL

-----------------------------------------------------------------------------
(* Who may hold a job, and how the rows move.                              *)

\* Candidates and holders meet the selector of their job, and a job that is reported
\* has been claimed.
Placed ==
    /\ \A r \in RunnerIds : \A j \in claims[r].cand : Eligible(r, j)
    /\ \A j \in JobIds : jobs[j].runner # None => Eligible(jobs[j].runner, j)
    /\ \A c \in calls : jobs[c.job].attempts > 0

\* A step that takes no job and adds neither candidates nor requests keeps that.
LEMMA PlacedFrame ==
    ASSUME IInv, Placed,
           calls' \subseteq calls,
           \A r \in RunnerIds : claims'[r].cand \subseteq claims[r].cand,
           \A j \in JobIds : /\ jobs'[j].runner \in {jobs[j].runner, None}
                             /\ jobs'[j].attempts = jobs[j].attempts
    PROVE  Placed'
  <1>1. \A c \in calls : c.job \in JobIds
    BY DEF IInv, TypeOK, Call
  <1>2. QED
    BY <1>1 DEF Placed, Eligible, LabelsOf

\* Every step keeps Placed: candidates and names come from a match.
LEMMA PlacedStep ==
    ASSUME IInv, Placed, [Next]_vars
    PROVE  Placed'
  <1> USE DEF IInv
  <1>1. ASSUME NEW j \in JobIds, CreateJob(j) PROVE Placed'
    BY <1>1, PlacedFrame, SetStatus DEF CreateJob
  <1>2. ASSUME NEW r \in RunnerIds, ~ClaimNext(r), ~Post(r), RunnerNext(r) PROVE Placed'
    BY <1>2, PlacedFrame DEF RunnerNext, Register, Heartbeat, GoStale, Die, DeleteRunner, GiveUp
  <1>3. ASSUME NEW r \in RunnerIds, ClaimNext(r) PROVE Placed'
    <2>1. NoClaim.cand = {} /\ Again(r).cand = {}
      BY DEF NoClaim, Again
    <2>2. CASE ClaimStart(r) \/ ClaimMiss(r) \/ ClaimEnd(r) \/ ClaimDeliver(r) \/ ClaimLost(r)
      <3>1. UNCHANGED <<jobs, calls>> /\ \A q \in RunnerIds : claims'[q].cand \subseteq claims[q].cand
        BY <2>1, <2>2 DEF ClaimStart, ClaimMiss, ClaimEnd, ClaimDeliver, ClaimLost, TypeOK
      <3>2. QED
        BY <3>1, PlacedFrame
    <2>3. CASE ClaimSelect(r)
      <3>1. /\ UNCHANGED <<jobs, calls>>
            /\ claims'[r].cand = Candidates(r)
            /\ \A q \in RunnerIds : q # r => claims'[q] = claims[q]
        BY <2>3 DEF ClaimSelect, TypeOK, Claim
      <3>2. \A j \in Candidates(r) : Eligible(r, j)
        BY DEF Candidates
      <3>3. QED
        BY <3>1, <3>2 DEF Placed, Eligible, LabelsOf
    <2>4. ASSUME NEW j \in JobIds, ClaimUpdate(r, j), jobs[j].status = "queued" PROVE Placed'
      <3>1. Eligible(r, j)
        BY <2>4 DEF ClaimUpdate, Placed
      <3>2. /\ jobs'[j].runner = r /\ jobs'[j].attempts = jobs[j].attempts + 1
            /\ jobs[j].attempts + 1 \in Attempts
            /\ \A i \in JobIds : i # j => jobs'[i] = jobs[i]
            /\ calls' = calls
            /\ \A q \in RunnerIds : q # r => claims'[q] = claims[q]
        BY <2>4, WonRow
      <3>3. claims'[r].cand = {}
        BY <2>4 DEF ClaimUpdate, TypeOK
      <3>4. \A c \in calls : c.job \in JobIds
        BY DEF TypeOK, Call
      <3>5. \A c \in calls : jobs'[c.job].attempts > 0
        BY <3>2, <3>4 DEF Placed, Attempts
      <3>6. QED
        BY <3>1, <3>2, <3>3, <3>5 DEF Placed, Eligible, LabelsOf
    <2>5. ASSUME NEW j \in JobIds, ClaimUpdate(r, j), jobs[j].status # "queued" PROVE Placed'
      <3>1. UNCHANGED <<jobs, calls>> /\ \A q \in RunnerIds : claims'[q].cand \subseteq claims[q].cand
        BY <2>5 DEF ClaimUpdate, TypeOK, Claim
      <3>2. QED
        BY <3>1, PlacedFrame
    <2>6. CASE ClaimUnbuildable(r)
      <3>1. claims[r].job \in JobIds
        BY <2>6 DEF ClaimUnbuildable, HoldersCounted, Bundled
      <3>2. calls' = calls /\ \A q \in RunnerIds : claims'[q].cand \subseteq claims[q].cand
        BY <2>1, <2>6 DEF ClaimUnbuildable, TypeOK
      <3>3. QED
        BY <2>6, <3>1, <3>2, PlacedFrame, SetStatus DEF ClaimUnbuildable
    <2>7. QED
      BY <1>3, <2>2, <2>3, <2>4, <2>5, <2>6 DEF ClaimNext
  <1>4. ASSUME NEW r \in RunnerIds, Post(r) PROVE Placed'
    <2>1. PICK w \in work : \A c \in calls' \ calls : c.job = w.job
      BY <1>4 DEF Post
    <2>2. w.job \in JobIds /\ w.att > 0 /\ w.att <= jobs[w.job].attempts
      BY DEF TypeOK, Worker, Attempts, HoldersCounted
    <2>3. jobs[w.job].attempts > 0
      BY <2>2 DEF TypeOK, Worker, Attempts, Job
    <2>4. UNCHANGED <<jobs, claims>>
      BY <1>4 DEF Post
    <2>5. QED
      BY <2>1, <2>3, <2>4 DEF Placed, Eligible, LabelsOf
  <1>5. CASE CallNext
    <2>1. ASSUME NEW c \in calls, CallLost(c) \/ CompleteFinish(c) PROVE Placed'
      <3>1. c.job \in JobIds /\ c.outcome \in Outcomes
        BY DEF TypeOK, Call
      <3>2. QED
        BY <2>1, <3>1, PlacedFrame, SetStatus DEF CallLost, CompleteFinish, Outcomes
    <2>2. ASSUME NEW c \in calls, CompleteCheck(c) PROVE Placed'
      <3>1. \A d \in calls' : \E e \in calls : d.job = e.job
        BY <2>2 DEF CompleteCheck, TypeOK, Call
      <3>2. UNCHANGED <<jobs, claims>>
        BY <2>2 DEF CompleteCheck
      <3>3. QED
        BY <3>1, <3>2 DEF Placed, Eligible, LabelsOf
    <2>3. QED
      BY <1>5, <2>1, <2>2 DEF CallNext
  <1>6. CASE EmbeddedFinish
    <2>1. PICK w \in work, o \in Outcomes : jobs' = [jobs EXCEPT ![w.job].status = o]
      BY <1>6 DEF EmbeddedFinish
    <2>2. w.job \in JobIds
      BY DEF TypeOK, Worker
    <2>3. QED
      BY <1>6, <2>1, <2>2, PlacedFrame, SetStatus DEF EmbeddedFinish, Outcomes
  <1>7. CASE SweepScan
    BY <1>7, PlacedFrame DEF SweepScan
  <1>8. ASSUME NEW x \in sweep.todo, SweepUpdate(x) PROVE Placed'
    <2>1. x.job \in JobIds
      BY DEF TypeOK, StaleRow
    <2>2. \A i \in JobIds : /\ jobs'[i].runner \in {jobs[i].runner, None}
                            /\ jobs'[i].attempts = jobs[i].attempts
      BY <1>8, <2>1 DEF SweepUpdate, TypeOK, Job
    <2>3. QED
      BY <1>8, <2>2, PlacedFrame DEF SweepUpdate
  <1>9. ASSUME NEW j \in sweep.failed, SweepFail(j) PROVE Placed'
    <2>1. j \in JobIds
      BY DEF TypeOK
    <2>2. QED
      BY <1>9, <2>1, PlacedFrame, SetStatus DEF SweepFail
  <1>10. CASE Restart
    <2>1. \A q \in RunnerIds : claims'[q].cand \subseteq claims[q].cand
      BY <1>10 DEF Restart, NoClaim
    <2>2. QED
      BY <1>10, <2>1, PlacedFrame DEF Restart
  <1>11. CASE UNCHANGED vars
    BY <1>11, PlacedFrame DEF vars
  <1>12. QED
    BY <1>1, <1>2, <1>3, <1>4, <1>5, <1>6, <1>7, <1>8, <1>9, <1>10, <1>11
    DEF Next, RunnerNext, SweepNext

\* Placed holds throughout, beside the inductive invariant.
LEMMA PlacedAlways == Spec => [](IInv /\ Placed)
  <1>1. Init => Placed
    BY DEF Init, Placed, NoClaim
  <1>2. IInv /\ Placed /\ [Next]_vars => Placed'
    BY PlacedStep
  <1>3. QED
    BY <1>1, <1>2, InitIInv, InvStep, PTL DEF Spec

\* "Jobs from agents with a runner selector only match runners whose labels satisfy
\* it", through all claims, requeues and restarts.
THEOREM HoldersFit == Spec => []HolderFits
  <1>1. IInv /\ Placed => HolderFits
    BY MatchCarries DEF Placed, HolderFits, Eligible
  <1>2. QED
    BY <1>1, PlacedAlways, PTL

\* An UPDATE of one row, seen as a write of JobRows.
LEMMA RowWritten ==
    ASSUME TypeOK, NEW j \in JobIds, jobs' \in [JobIds -> Job],
           \A i \in JobIds : i # j => jobs'[i] = jobs[i]
    PROVE  Rows!Write(j, IF jobs'[j].status \in Outcomes THEN "ended" ELSE jobs'[j].status,
                      jobs'[j].attempts)
  BY DEF Rows!Write, RowView

\* What JobRows sees of a row.
LEMMA RowSeen ==
    ASSUME NEW j \in JobIds
    PROVE  /\ RowView[j].attempts = jobs[j].attempts
           /\ jobs[j].status \notin Outcomes => RowView[j].status = jobs[j].status
  BY DEF RowView

\* FinishJob and the UPDATEs that fail a job end a row that was claimed.
LEMMA RowEnded ==
    ASSUME TypeOK, NEW j \in JobIds, jobs[j].attempts > 0, NEW s \in Outcomes,
           jobs' = [jobs EXCEPT ![j].status = s]
    PROVE  Rows!Next
  <1>1. /\ jobs' \in [JobIds -> Job] /\ jobs'[j].status = s
        /\ jobs'[j].attempts = jobs[j].attempts
        /\ \A i \in JobIds : i # j => jobs'[i] = jobs[i]
    BY SetStatus DEF Outcomes
  <1>2. Rows!Write(j, "ended", jobs[j].attempts)
    BY <1>1, RowWritten
  <1>3. Rows!End(j)
    BY <1>2, RowSeen DEF Rows!End, Rows!Write
  <1>4. QED
    BY <1>3 DEF Rows!Next

\* Every step is a step of JobRows, or a stutter.
LEMMA RowStep ==
    ASSUME IInv, Placed, [Next]_vars
    PROVE  [Rows!Next]_RowView
  <1> USE DEF IInv
  <1>0. ASSUME UNCHANGED jobs PROVE UNCHANGED RowView
    BY <1>0 DEF RowView
  <1>1. ASSUME NEW j \in JobIds, CreateJob(j) PROVE Rows!Next
    <2>1. /\ jobs' \in [JobIds -> Job] /\ jobs'[j].status = "queued" /\ jobs'[j].attempts = 0
          /\ \A i \in JobIds : i # j => jobs'[i] = jobs[i]
      BY <1>1, SetStatus DEF CreateJob, ClaimsCounted
    <2>2. Rows!Write(j, "queued", 0)
      BY <2>1, RowWritten DEF Outcomes
    <2>3. Rows!Create(j)
      BY <1>1, <2>2 DEF Rows!Create, RowView, CreateJob, Outcomes
    <2>4. QED
      BY <2>3 DEF Rows!Next
  <1>2. ASSUME NEW r \in RunnerIds, NEW j \in JobIds, ClaimUpdate(r, j), jobs[j].status = "queued"
        PROVE  Rows!Next
    <2>1. /\ jobs' \in [JobIds -> Job] /\ jobs'[j].status = "running"
          /\ jobs'[j].attempts = jobs[j].attempts + 1
          /\ \A i \in JobIds : i # j => jobs'[i] = jobs[i]
      BY <1>2, WonRow
    <2>2. Rows!Write(j, "running", jobs[j].attempts + 1)
      BY <2>1, RowWritten DEF Outcomes
    <2>3. Rows!Claim(j)
      BY <1>2, <2>2, RowSeen DEF Rows!Claim, Rows!Write, AttemptsBounded, Outcomes
    <2>4. QED
      BY <2>3 DEF Rows!Next
  <1>3. ASSUME NEW r \in RunnerIds, ClaimUnbuildable(r) PROVE Rows!Next
    <2>1. claims[r].job \in JobIds /\ jobs[claims[r].job].attempts > 0
      BY <1>3 DEF ClaimUnbuildable, HoldersCounted, Bundled, Attempts, TypeOK, Job
    <2>2. QED
      BY <1>3, <2>1, RowEnded DEF ClaimUnbuildable, Outcomes
  <1>4. ASSUME NEW r \in RunnerIds, ClaimNext(r) PROVE Rows!Next \/ UNCHANGED jobs
    BY <1>2, <1>3, <1>4 DEF ClaimNext, ClaimStart, ClaimSelect, ClaimUpdate, ClaimMiss, ClaimEnd,
       ClaimDeliver, ClaimLost
  <1>5. ASSUME NEW r \in RunnerIds, RunnerNext(r) PROVE Rows!Next \/ UNCHANGED jobs
    BY <1>4, <1>5 DEF RunnerNext, Register, Heartbeat, GoStale, Die, DeleteRunner, Post, GiveUp
  <1>6. CASE CallNext
    <2>1. ASSUME NEW c \in calls, CompleteFinish(c) PROVE Rows!Next
      BY <2>1, RowEnded DEF CompleteFinish, Placed, TypeOK, Call
    <2>2. ASSUME NEW c \in calls, CallLost(c) \/ CompleteCheck(c) PROVE UNCHANGED jobs
      BY <2>2 DEF CallLost, CompleteCheck
    <2>3. QED
      BY <1>0, <1>6, <2>1, <2>2 DEF CallNext
  <1>7. CASE EmbeddedFinish
    <2>1. PICK w \in work, o \in Outcomes : jobs' = [jobs EXCEPT ![w.job].status = o]
      BY <1>7 DEF EmbeddedFinish
    <2>2. w.job \in JobIds /\ w.att > 0 /\ w.att <= jobs[w.job].attempts
      BY DEF TypeOK, Worker, Attempts, HoldersCounted
    <2>3. jobs[w.job].attempts > 0
      BY <2>2 DEF TypeOK, Worker, Attempts, Job
    <2>4. QED
      BY <2>1, <2>2, <2>3, RowEnded
  <1>8. ASSUME NEW x \in sweep.todo, SweepUpdate(x) PROVE Rows!Next
    <2>1. x.job \in JobIds /\ jobs[x.job].attempts = x.att /\ x.att > 0
      BY DEF TypeOK, StaleRow, SnapshotExact, Attempts
    <2>2. CASE x.att >= MaxAttempts
      BY <1>8, <2>1, <2>2, RowEnded DEF SweepUpdate, Outcomes
    <2>3. CASE ~(x.att >= MaxAttempts)
      <3>1. Rows!Write(x.job, "queued", jobs[x.job].attempts)
        BY <1>8, <2>1, <2>3, Requeued, RowWritten DEF Outcomes
      <3>2. jobs[x.job].attempts < MaxAttempts
        BY <2>1, <2>3, QueueAssumption DEF TypeOK, StaleRow, Attempts
      <3>3. Rows!Requeue(x.job)
        BY <2>1, <3>1, <3>2, RowSeen DEF Rows!Requeue, Rows!Write
      <3>4. QED
        BY <2>1, <3>3 DEF Rows!Next
    <2>4. QED
      BY <2>2, <2>3
  <1>9. ASSUME NEW j \in sweep.failed, SweepFail(j) PROVE Rows!Next
    <2>1. j \in JobIds /\ jobs[j].attempts > 0
      BY QueueAssumption DEF TypeOK, FailedForGood
    <2>2. QED
      BY <1>9, <2>1, RowEnded DEF SweepFail, Outcomes
  <1>10. CASE SweepScan \/ Restart \/ UNCHANGED vars
    BY <1>0, <1>10 DEF SweepScan, Restart, vars
  <1>11. QED
    BY <1>0, <1>1, <1>5, <1>6, <1>7, <1>8, <1>9, <1>10 DEF Next, SweepNext

\* The queue implements JobRows: each row is claimed only from the queue and at most
\* maxJobAttempts times, and one that has used its attempts never returns to it.
THEOREM QueueRows == Spec => RowsSpec
  <1>1. Init => Rows!Init
    BY DEF Init, Rows!Init, RowView, Outcomes
  <1>2. IInv /\ Placed /\ [Next]_vars => [Rows!Next]_RowView
    BY RowStep
  <1>3. QED
    BY <1>1, <1>2, PlacedAlways, PTL DEF Spec, RowsSpec, Rows!Spec

=============================================================================
