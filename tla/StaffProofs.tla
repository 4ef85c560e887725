---------------------------- MODULE StaffProofs ----------------------------
(* Proofs about Staff for every number of agents, jobs, claims, posts, forms  *)
(* and mishaps: IInv is inductive, and the invariants, the choice of          *)
(* pickTeamAgent and the refinement of JobRows follow from it.                *)
EXTENDS Staff, TLAPS

\* What backs the status "working".
Backed(a) ==
    \/ \E j \in RunningFor(a) : runs[jobs[j].run].pc # "claimed"
    \/ \E r \in Runs : reports[r] \in {"count", "rest"} /\ AgentOf(r) = a

\* A run has a job, and its job an agent.
LEMMA RunFacts ==
  ASSUME IInv, NEW r \in Runs, Started(r) \/ reports[r] # "none"
  PROVE  /\ Started(r) /\ runs[r] \in Run /\ runs[r].job \in Jobs
         /\ jobs[runs[r].job] \in Job /\ AgentOf(r) \in Agents
         /\ jobs[runs[r].job].attempts > 0 /\ jobs[runs[r].job].status # "absent"
  <1>1. Started(r) /\ runs[r] \in Run /\ runs[r].job \in Jobs /\ jobs[runs[r].job].attempts > 0
    BY DEF IInv, TypeOK, RunsConsistent
  <1>2. jobs[runs[r].job] \in Job /\ jobs[runs[r].job].status # "absent"
    BY <1>1 DEF IInv, TypeOK, RowsConsistent
  <1>3. QED
    BY <1>1, <1>2 DEF IInv, RowsConsistent, AgentOf

\* What backed the status of an agent backs it after the step.
LEMMA BackedKept ==
  ASSUME StatusBacked, NEW b \in Agents, Working(b), b \notin stuck,
         \A j \in Jobs : j \in RunningFor(b) /\ runs[jobs[j].run].pc # "claimed"
            => (j \in RunningFor(b) /\ runs[jobs[j].run].pc # "claimed")',
         \A r \in Runs : reports[r] \in {"count", "rest"} /\ AgentOf(r) = b
            => (reports[r] \in {"count", "rest"} /\ AgentOf(r) = b)'
  PROVE  Backed(b)'
  <1>1. CASE \E j \in RunningFor(b) : runs[jobs[j].run].pc # "claimed"
    <2>1. PICK j \in RunningFor(b) : runs[jobs[j].run].pc # "claimed"
      BY <1>1
    <2>2. j \in Jobs
      BY DEF RunningFor
    <2>3. QED
      BY <2>1, <2>2 DEF Backed
  <1>2. CASE \E r \in Runs : reports[r] \in {"count", "rest"} /\ AgentOf(r) = b
    <2>1. PICK r \in Runs : reports[r] \in {"count", "rest"} /\ AgentOf(r) = b
      BY <1>2
    <2>2. QED
      BY <2>1 DEF Backed
  <1>3. QED
    BY <1>1, <1>2 DEF StatusBacked

\* handleCreateAgent: a new row has no job yet.
LEMMA HireKeeps ==
  ASSUME IInv, NEW a \in Agents, Hire(a)
  PROVE  IInv'
  <1>1. TypeOK'
    BY DEF IInv, TypeOK, Hire, Member
  <1>2. RowsConsistent'
    BY DEF IInv, RowsConsistent, Hire
  <1>3. RunsConsistent'
    BY DEF IInv, RunsConsistent, Hire, Started
  <1>4. StatusBacked'
    BY DEF IInv, RowsConsistent, StatusBacked, Hire, Working, There, RunningFor, AgentOf
  <1>5. OneAtATime'
    BY DEF IInv, OneAtATime, Hire, RunningFor, Ending, AgentOf
  <1>6. WorkingShown'
    BY DEF IInv, RowsConsistent, WorkingShown, Hire, RunningFor, Working, There
  <1>7. LedgerExact'
    BY DEF IInv, RowsConsistent, RunsConsistent, LedgerExact, Hire, Started, There, AgentOf
  <1>8. CreditEarned'
    BY DEF IInv, CreditEarned, Hire, Started
  <1>9. CountedOnce'
    BY DEF IInv, CountedOnce, Hire, Started
  <1>10. QED
    BY <1>1, <1>2, <1>3, <1>4, <1>5, <1>6, <1>7, <1>8, <1>9 DEF IInv

\* handleDeleteAgent: what is said of agents is said of rows that are there.
LEMMA DeleteAgentKeeps ==
  ASSUME IInv, NEW a \in Agents, DeleteAgent(a)
  PROVE  IInv'
  <1>1. TypeOK'
    BY StaffAssumption DEF IInv, TypeOK, DeleteAgent, Member, Upset
  <1>2. RowsConsistent'
    BY DEF IInv, RowsConsistent, DeleteAgent
  <1>3. RunsConsistent'
    BY DEF IInv, RunsConsistent, DeleteAgent, Started
  <1>4. StatusBacked'
    BY DEF IInv, StatusBacked, DeleteAgent, Working, There, RunningFor, AgentOf
  <1>5. OneAtATime'
    BY DEF IInv, OneAtATime, DeleteAgent, RunningFor, Ending, AgentOf
  <1>6. WorkingShown'
    BY DEF IInv, WorkingShown, DeleteAgent, RunningFor, Working, There
  <1>7. LedgerExact'
    BY DEF IInv, LedgerExact, DeleteAgent, Started, There, AgentOf
  <1>8. CreditEarned'
    BY DEF IInv, CreditEarned, DeleteAgent, Started
  <1>9. CountedOnce'
    BY DEF IInv, CountedOnce, DeleteAgent, Started
  <1>10. QED
    BY <1>1, <1>2, <1>3, <1>4, <1>5, <1>6, <1>7, <1>8, <1>9 DEF IInv

\* handleUpdateAgent: a read.
LEMMA EditReadKeeps ==
  ASSUME IInv, NEW e \in Editors, NEW a \in Agents, EditRead(e, a)
  PROVE  IInv'
  <1>1. TypeOK'
    BY StaffAssumption DEF IInv, TypeOK, EditRead, Member, Edit, Upset
  <1>2. RowsConsistent'
    BY DEF IInv, RowsConsistent, EditRead
  <1>3. RunsConsistent'
    BY DEF IInv, RunsConsistent, EditRead, Started
  <1>4. StatusBacked'
    BY DEF IInv, StatusBacked, EditRead, Working, There, RunningFor, AgentOf
  <1>5. OneAtATime'
    BY DEF IInv, OneAtATime, EditRead, RunningFor, Ending, AgentOf
  <1>6. WorkingShown'
    BY DEF IInv, WorkingShown, EditRead, RunningFor, Working, There
  <1>7. LedgerExact'
    BY DEF IInv, LedgerExact, EditRead, Started, There, AgentOf
  <1>8. CreditEarned'
    BY DEF IInv, CreditEarned, EditRead, Started
  <1>9. CountedOnce'
    BY DEF IInv, CountedOnce, EditRead, Started
  <1>10. QED
    BY <1>1, <1>2, <1>3, <1>4, <1>5, <1>6, <1>7, <1>8, <1>9 DEF IInv

\* handleUpdateAgent: an old status is written over the one of the row.
LEMMA EditWriteKeeps ==
  ASSUME IInv, NEW e \in Editors, EditWrite(e)
  PROVE  IInv'
  <1>e. edits[e] \in Edit /\ edits[e].agent \in Agents
    BY DEF EditWrite, IInv, TypeOK, Edit
  <1>1. TypeOK'
    <2> DEFINE a0 == edits[e].agent
               s0 == edits[e].status
    <2>1. a0 \in Agents /\ s0 \in Statuses
      BY DEF EditWrite, IInv, TypeOK, Edit
    <2>2. staff' \in [Agents -> Member]
      BY <2>1 DEF EditWrite, SetStatus, IInv, TypeOK, Member
    <2>3. stuck' \subseteq Agents /\ mixed' \subseteq Agents /\ edits' \in [Editors -> Edit]
      BY <2>1, <2>2 DEF EditWrite, NoEdit, IInv, TypeOK, Edit, Statuses
    <2>4. QED
      BY <2>1, <2>2, <2>3 DEF EditWrite, IInv, TypeOK
  <1>2. RowsConsistent'
    BY DEF IInv, RowsConsistent, EditWrite, There, SetStatus
  <1>3. RunsConsistent'
    BY DEF IInv, RunsConsistent, EditWrite, Started
  <1>4. StatusBacked'
    <2> SUFFICES ASSUME NEW b \in Agents, (Working(b) /\ b \notin stuck)'
                 PROVE  Backed(b)'
      BY DEF StatusBacked, Backed
    <2>1. Working(b) /\ b \notin stuck
      BY <1>e DEF EditWrite, Working, There, SetStatus, IInv, TypeOK, Member, Statuses
    <2>2. ASSUME NEW i \in Jobs, i \in RunningFor(b), runs[jobs[i].run].pc # "claimed"
          PROVE  (i \in RunningFor(b) /\ runs[jobs[i].run].pc # "claimed")'
      BY <2>1, <2>2 DEF EditWrite, RunningFor
    <2>3. ASSUME NEW q \in Runs, reports[q] \in {"count", "rest"}, AgentOf(q) = b
          PROVE  (reports[q] \in {"count", "rest"} /\ AgentOf(q) = b)'
      BY <2>1, <2>3 DEF EditWrite, AgentOf
    <2>4. QED
      BY <2>1, <2>2, <2>3, BackedKept DEF IInv
  <1>5. OneAtATime'
    BY DEF IInv, OneAtATime, EditWrite, RunningFor, Ending, AgentOf
  <1>6. WorkingShown'
    <2> SUFFICES ASSUME NEW b \in Agents, b \notin mixed', NEW i \in RunningFor(b)',
                        There(b)', runs'[jobs'[i].run].pc \notin {"claimed", "left"}
                 PROVE  Working(b)'
      BY DEF WorkingShown
    <2>1. b \notin mixed /\ i \in RunningFor(b) /\ There(b)
      BY <1>e DEF EditWrite, RunningFor, There, SetStatus
    <2>2. Working(b)
      BY <2>1 DEF EditWrite, IInv, WorkingShown
    <2>3. QED
      <3>1. CASE b # edits[e].agent
        BY <1>e, <2>1, <2>2, <3>1 DEF EditWrite, Working, SetStatus
      <3>2. CASE b = edits[e].agent
        <4>1. edits[e].status = "working"
          BY <1>e, <2>1, <2>2, <3>2 DEF EditWrite, Working, Edit, Statuses
        <4>2. QED
          BY <1>e, <2>1, <3>2, <4>1 DEF EditWrite, Working, SetStatus, IInv, TypeOK
      <3>3. QED
        BY <3>1, <3>2
  <1>7. LedgerExact'
    <2>1. \A q \in Runs : Started(q) => AgentOf(q) \in Agents
      BY RunFacts
    <2>2. \A b \in Agents : There(b)' = There(b)
      BY <1>e DEF EditWrite, SetStatus, There
    <2>3. /\ usage' = usage /\ runs' = runs
          /\ \A q \in Runs : Started(q)' = Started(q) /\ AgentOf(q)' = AgentOf(q)
      BY DEF EditWrite, Started, AgentOf
    <2>4. QED
      BY <2>1, <2>2, <2>3 DEF IInv, LedgerExact
  <1>8. CreditEarned'
    BY DEF IInv, CreditEarned, EditWrite, Started
  <1>9. CountedOnce'
    BY DEF IInv, CountedOnce, EditWrite, Started
  <1>10. QED
    BY <1>1, <1>2, <1>3, <1>4, <1>5, <1>6, <1>7, <1>8, <1>9 DEF IInv

\* pickTeamAgent: a read.
LEMMA PickKeeps ==
  ASSUME IInv, Pick
  PROVE  IInv'
  <1>1. TypeOK'
    BY DEF IInv, TypeOK, Pick, Chosen, Team
  <1>2. RowsConsistent'
    BY DEF IInv, RowsConsistent, Pick, There, Chosen, Team
  <1>3. RunsConsistent'
    BY DEF IInv, RunsConsistent, Pick, Started
  <1>4. StatusBacked'
    BY DEF IInv, StatusBacked, Pick, Working, There, RunningFor, AgentOf
  <1>5. OneAtATime'
    BY DEF IInv, OneAtATime, Pick, RunningFor, Ending, AgentOf
  <1>6. WorkingShown'
    BY DEF IInv, WorkingShown, Pick, RunningFor, Working, There
  <1>7. LedgerExact'
    BY DEF IInv, LedgerExact, Pick, Started, There, AgentOf
  <1>8. CreditEarned'
    BY DEF IInv, CreditEarned, Pick, Started
  <1>9. CountedOnce'
    BY DEF IInv, CountedOnce, Pick, Started
  <1>10. QED
    BY <1>1, <1>2, <1>3, <1>4, <1>5, <1>6, <1>7, <1>8, <1>9 DEF IInv

\* A queued job says nothing of the status of its agent.
LEMMA NewJobKeeps ==
  ASSUME IInv, NEW j \in Jobs, NEW a \in Agents, NewJob(j, a), There(a), desk' \in {desk, None},
         UNCHANGED <<staff, usage, credit, runs, reports, swept, edits, stuck, mixed, upsets>>
  PROVE  IInv'
  <1>1. TypeOK'
    <2>1. jobs' \in [Jobs -> Job]
      <3>1. [jobs[j] EXCEPT !.status = "queued", !.agent = a] \in Job
        BY DEF IInv, TypeOK, Job
      <3>2. jobs' = [jobs EXCEPT ![j] = [jobs[j] EXCEPT !.status = "queued", !.agent = a]]
        BY DEF NewJob
      <3>3. QED
        BY <3>1, <3>2 DEF IInv, TypeOK
    <2>2. QED
      BY <2>1 DEF IInv, TypeOK
  <1>2. RowsConsistent'
    BY StaffAssumption DEF IInv, TypeOK, RowsConsistent, NewJob, There
  <1>3. RunsConsistent'
    BY DEF IInv, TypeOK, RunsConsistent, NewJob, Started
  <1>4. StatusBacked'
    <2> SUFFICES ASSUME NEW b \in Agents, (Working(b) /\ b \notin stuck)'
                 PROVE  Backed(b)'
      BY DEF StatusBacked, Backed
    <2>1. Working(b) /\ b \notin stuck
      BY DEF Working, There
    <2>2. ASSUME NEW i \in Jobs, i \in RunningFor(b), runs[jobs[i].run].pc # "claimed"
          PROVE  (i \in RunningFor(b) /\ runs[jobs[i].run].pc # "claimed")'
      BY <2>1, <2>2 DEF NewJob, IInv, TypeOK, RunningFor
    <2>3. ASSUME NEW q \in Runs, reports[q] \in {"count", "rest"}, AgentOf(q) = b
          PROVE  (reports[q] \in {"count", "rest"} /\ AgentOf(q) = b)'
      BY <2>1, <2>3 DEF NewJob, IInv, TypeOK, RunsConsistent, AgentOf, Job
    <2>4. QED
      BY <2>1, <2>2, <2>3, BackedKept DEF IInv
  <1>5. OneAtATime'
    BY DEF IInv, TypeOK, RunsConsistent, OneAtATime, NewJob, RunningFor, Ending, AgentOf, Job
  <1>6. WorkingShown'
    BY DEF IInv, TypeOK, WorkingShown, NewJob, RunningFor, Working, There
  <1>7. LedgerExact'
    BY DEF IInv, TypeOK, RunsConsistent, LedgerExact, NewJob, Started, There, AgentOf, Job
  <1>8. CreditEarned'
    BY DEF IInv, TypeOK, RunsConsistent, CreditEarned, NewJob
  <1>9. CountedOnce'
    BY DEF IInv, TypeOK, RunsConsistent, CountedOnce, NewJob
  <1>10. QED
    BY <1>1, <1>2, <1>3, <1>4, <1>5, <1>6, <1>7, <1>8, <1>9 DEF IInv

\* startTask for the agent that pickTeamAgent has chosen.
LEMMA StartPickedKeeps ==
  ASSUME IInv, StartPicked
  PROVE  IInv'
  <1>a. /\ desk' = None
        /\ \/ jobs' = jobs
           \/ \E j \in Jobs : desk \in Agents /\ There(desk) /\ NewJob(j, desk)
        /\ UNCHANGED <<staff, usage, credit, runs, reports, swept, edits, stuck, mixed, upsets>>
    BY DEF StartPicked, IInv, TypeOK
  <1>b. CASE jobs' = jobs
    BY <1>a, <1>b DEF IInv, TypeOK, RowsConsistent, RunsConsistent, Started,
       StatusBacked, Working, There, RunningFor, AgentOf, OneAtATime, Ending,
       WorkingShown, LedgerExact, CreditEarned, CountedOnce
  <1>c. ASSUME NEW j \in Jobs, desk \in Agents, There(desk), NewJob(j, desk)
        PROVE  IInv'
    BY <1>a, <1>c, NewJobKeeps
  <1>d. QED
    BY <1>a, <1>b, <1>c

\* startTask, approvePlan, requestChanges.
LEMMA CreateJobKeeps ==
  ASSUME IInv, NEW j \in Jobs, NEW a \in Agents, CreateJob(j, a)
  PROVE  IInv'
  BY NewJobKeeps DEF CreateJob

\* ClaimJob: the job runs, and nobody is marked yet.
LEMMA ClaimKeeps ==
  ASSUME IInv, NEW r \in Runs, NEW j \in Jobs, NEW k \in Kinds[r], Claim(r, j, k)
  PROVE  IInv'
  <1>1. TypeOK'
    <2>1. jobs[j].agent \in Agents /\ jobs[j].attempts + 1 \in 0..MaxAttempts
      BY DEF Claim, IInv, TypeOK, RowsConsistent, Job
    <2>2. jobs' \in [Jobs -> Job]
      BY <2>1 DEF Claim, IInv, TypeOK, Job
    <2>3. [runs[r] EXCEPT !.pc = "claimed", !.job = j, !.kind = k] \in Run
      <3>1. k \in {"remote", "embedded"}
        BY StaffAssumption
      <3>2. runs[r] \in Run
        BY DEF IInv, TypeOK
      <3>3. QED
        BY <3>1, <3>2 DEF Run
    <2>4. runs' \in [Runs -> Run]
      BY <2>3 DEF Claim, IInv, TypeOK
    <2>5. mixed' \subseteq Agents
      BY <2>1 DEF Claim, IInv, TypeOK
    <2>6. QED
      BY <2>2, <2>4, <2>5 DEF Claim, IInv, TypeOK
  <1>2. RowsConsistent'
    BY DEF IInv, TypeOK, Claim, Job
  <1>3. RunsConsistent'
    BY DEF IInv, TypeOK, Claim, Job
  <1>4. StatusBacked'
    BY DEF IInv, TypeOK, RunsConsistent, StatusBacked, Claim, Job
  <1>5. OneAtATime'
    <2>1. mixed \subseteq mixed' /\ reports' = reports
      BY DEF Claim
    <2>2. \A q \in Runs : reports[q] # "none" => runs'[q] = runs[q] /\ AgentOf(q)' = AgentOf(q)
      BY RunFacts DEF Claim, AgentOf, IInv, TypeOK, Started
    <2>3. jobs[j].agent \in Agents /\ \A i \in Jobs : jobs'[i].agent = jobs[i].agent
      BY DEF Claim, IInv, TypeOK, Job
    <2>4. \A b \in Agents : b # jobs[j].agent => RunningFor(b)' = RunningFor(b)
      BY <2>3 DEF Claim, RunningFor, IInv, TypeOK
    <2>5. \A b \in Agents : b = jobs[j].agent => RunningFor(b)' = RunningFor(b) \cup {j}
      BY <2>3 DEF Claim, RunningFor, IInv, TypeOK
    <2>6. \A b \in Agents : b = jobs[j].agent /\ b \notin mixed' => ~Busy(b)
      BY <2>3 DEF Claim
    <2> SUFFICES ASSUME NEW b \in Agents, b \notin mixed'
                 PROVE  /\ \A i, h \in RunningFor(b)' : i = h
                        /\ \A q \in Runs : Ending(q)' /\ AgentOf(q)' = b =>
                             RunningFor(b)' \subseteq
                               (IF reports'[q] = "finish" THEN {runs'[q].job} ELSE {})
      BY DEF OneAtATime
    <2>7. CASE b = jobs[j].agent
      <3>1. RunningFor(b)' = {j} /\ \A q \in Runs : ~(Ending(q) /\ AgentOf(q) = b)
        BY <2>5, <2>6, <2>7 DEF Busy
      <3>2. QED
        BY <2>1, <2>2, <3>1 DEF Ending
    <2>8. CASE b # jobs[j].agent
      BY <2>1, <2>2, <2>4, <2>8 DEF IInv, OneAtATime, Ending
    <2>9. QED
      BY <2>7, <2>8
  <1>6. WorkingShown'
    BY DEF IInv, TypeOK, WorkingShown, Claim, Job
  <1>7. LedgerExact'
    BY DEF IInv, TypeOK, RunsConsistent, LedgerExact, Claim, Started, There, AgentOf
  <1>8. CreditEarned'
    BY StaffAssumption DEF IInv, TypeOK, RunsConsistent, Claim, Started, Run
  <1>9. CountedOnce'
    BY DEF IInv, TypeOK, Claim, Job
  <1>10. QED
    BY <1>1, <1>2, <1>3, <1>4, <1>5, <1>6, <1>7, <1>8, <1>9 DEF IInv

\* failJob ends a job whose claim has not marked anybody.
LEMMA UnbuildableKeeps ==
  ASSUME IInv, NEW r \in Runs, Unbuildable(r)
  PROVE  IInv'
  <1>0. /\ Started(r) /\ runs[r] \in Run /\ runs[r].job \in Jobs
        /\ jobs[runs[r].job] \in Job /\ AgentOf(r) \in Agents
        /\ jobs[runs[r].job].attempts > 0 /\ jobs[runs[r].job].status # "absent"
    BY RunFacts DEF Unbuildable, Started
  <1>1. TypeOK'
    <2>1. jobs' \in [Jobs -> Job]
      BY <1>0 DEF Unbuildable, IInv, TypeOK, Job
    <2>2. runs' \in [Runs -> Run]
      BY <1>0, <2>1 DEF Unbuildable, IInv, TypeOK, Run
    <2>3. stuck' \subseteq Agents
      BY <1>0, <2>1, <2>2 DEF Unbuildable, Strand, IInv, TypeOK
    <2>4. QED
      BY <2>1, <2>2, <2>3 DEF Unbuildable, IInv, TypeOK
  <1>2. RowsConsistent'
    BY <1>0 DEF IInv, RowsConsistent, Unbuildable
  <1>3. RunsConsistent'
    BY DEF IInv, RunsConsistent, Unbuildable, Started
  <1>4. StatusBacked'
    <2> SUFFICES ASSUME NEW b \in Agents, (Working(b) /\ b \notin stuck)'
                 PROVE  Backed(b)'
      BY DEF StatusBacked, Backed
    <2>1. Working(b) /\ b \notin stuck
      BY DEF Unbuildable, Working, There, Strand
    <2>2. ASSUME NEW i \in Jobs, i \in RunningFor(b), runs[jobs[i].run].pc # "claimed"
          PROVE  (i \in RunningFor(b) /\ runs[jobs[i].run].pc # "claimed")'
      BY <2>1, <2>2 DEF Unbuildable, RunningFor, AgentOf, Strand
    <2>3. ASSUME NEW q \in Runs, reports[q] \in {"count", "rest"}, AgentOf(q) = b
          PROVE  (reports[q] \in {"count", "rest"} /\ AgentOf(q) = b)'
      BY <2>1, <2>3 DEF Unbuildable, AgentOf
    <2>4. QED
      BY <2>1, <2>2, <2>3, BackedKept DEF IInv
  <1>5. OneAtATime'
    BY DEF IInv, OneAtATime, Unbuildable, RunningFor, Ending, AgentOf
  <1>6. WorkingShown'
    BY DEF IInv, TypeOK, RowsConsistent, WorkingShown, Unbuildable, RunningFor, Working, There
  <1>7. LedgerExact'
    BY DEF IInv, LedgerExact, Unbuildable, Started, There, AgentOf
  <1>8. CreditEarned'
    BY DEF IInv, CreditEarned, Unbuildable, Started
  <1>9. CountedOnce'
    BY DEF IInv, CountedOnce, Unbuildable, Started
  <1>10. QED
    BY <1>1, <1>2, <1>3, <1>4, <1>5, <1>6, <1>7, <1>8, <1>9 DEF IInv

\* onJobClaimed: the running job that was marked backs the status.
LEMMA MarkKeeps ==
  ASSUME IInv, NEW r \in Runs, Mark(r)
  PROVE  IInv'
  <1>0. /\ Started(r) /\ runs[r] \in Run /\ runs[r].job \in Jobs
        /\ jobs[runs[r].job] \in Job /\ AgentOf(r) \in Agents
        /\ jobs[runs[r].job].attempts > 0 /\ jobs[runs[r].job].status # "absent"
    BY RunFacts DEF Mark, Started
  <1>1. TypeOK'
    <2>1. runs' \in [Runs -> Run]
      BY DEF Mark, IInv, TypeOK, Run
    <2>2. staff' \in [Agents -> Member]
      BY <2>1 DEF Mark, SetStatus, IInv, TypeOK, Member, Statuses
    <2>3. stuck' \subseteq Agents
      BY <1>0, <2>1, <2>2 DEF Mark, AgentOf, IInv, TypeOK
    <2>4. QED
      BY <2>1, <2>2, <2>3 DEF Mark, IInv, TypeOK
  <1>2. RowsConsistent'
    BY <1>0 DEF IInv, RowsConsistent, Mark, SetStatus, AgentOf
  <1>3. RunsConsistent'
    BY DEF IInv, RunsConsistent, Mark, Started
  <1>4. StatusBacked'
    <2> SUFFICES ASSUME NEW b \in Agents, (Working(b) /\ b \notin stuck)'
                 PROVE  Backed(b)'
      BY DEF StatusBacked, Backed
    <2> DEFINE j == runs[r].job
    <2>1. CASE b = AgentOf(r)
      <3>1. jobs[j].status = "running" /\ jobs[j].run = r
        BY <2>1 DEF Mark, AgentOf
      <3>2. runs'[r].pc = "ask"
        BY DEF Mark, IInv, TypeOK
      <3>3. j \in RunningFor(b)' /\ jobs'[j].run = r
        BY <1>0, <2>1, <3>1 DEF Mark, RunningFor, AgentOf
      <3>4. j \in RunningFor(b)' /\ runs'[jobs'[j].run].pc # "claimed"
        BY <3>2, <3>3
      <3> HIDE DEF j
      <3>5. QED
        BY <3>4 DEF Backed
    <2>2. CASE b # AgentOf(r)
      <3>1. Working(b) /\ b \notin stuck
        BY <2>2 DEF Mark, SetStatus, Working, There
      <3>2. ASSUME NEW i \in Jobs, i \in RunningFor(b), runs[jobs[i].run].pc # "claimed"
            PROVE  (i \in RunningFor(b) /\ runs[jobs[i].run].pc # "claimed")'
        BY <3>2 DEF Mark, RunningFor
      <3>3. ASSUME NEW q \in Runs, reports[q] \in {"count", "rest"}, AgentOf(q) = b
            PROVE  (reports[q] \in {"count", "rest"} /\ AgentOf(q) = b)'
        BY <3>3 DEF Mark, AgentOf
      <3>4. QED
        BY <3>1, <3>2, <3>3, BackedKept DEF IInv
    <2>3. QED
      BY <2>1, <2>2
  <1>5. OneAtATime'
    BY DEF IInv, OneAtATime, Mark, RunningFor, Ending, AgentOf
  <1>6. WorkingShown'
    BY DEF IInv, TypeOK, RowsConsistent, WorkingShown, Mark, RunningFor, Working, There,
       SetStatus, AgentOf
  <1>7. LedgerExact'
    <2>1. \A q \in Runs : Started(q) => AgentOf(q) \in Agents
      BY RunFacts
    <2>2. \A b \in Agents : There(b)' = There(b)
      BY DEF Mark, SetStatus, There
    <2>3. \A q \in Runs : /\ Started(q)' = Started(q) /\ AgentOf(q)' = AgentOf(q)
                          /\ runs'[q].calls = runs[q].calls /\ runs'[q].lost = runs[q].lost
                          /\ (runs'[q].pc = "usage") = (runs[q].pc = "usage")
      BY DEF Mark, Started, AgentOf
    <2>4. QED
      BY <2>1, <2>2, <2>3 DEF Mark, IInv, LedgerExact
  <1>8. CreditEarned'
    BY DEF IInv, CreditEarned, Mark, Started
  <1>9. CountedOnce'
    BY DEF IInv, CountedOnce, Mark, Started
  <1>10. QED
    BY <1>1, <1>2, <1>3, <1>4, <1>5, <1>6, <1>7, <1>8, <1>9 DEF IInv

\* completeJSON: an answer is owed to the account.
LEMMA CompleteKeeps ==
  ASSUME IInv, NEW r \in Runs, Complete(r)
  PROVE  IInv'
  <1>0. /\ Started(r) /\ runs[r] \in Run /\ runs[r].job \in Jobs
        /\ jobs[runs[r].job] \in Job /\ AgentOf(r) \in Agents
        /\ jobs[runs[r].job].attempts > 0 /\ jobs[runs[r].job].status # "absent"
    BY RunFacts DEF Complete, Started
  <1>1. TypeOK'
    BY DEF IInv, TypeOK, Complete, Job, Run
  <1>2. RowsConsistent'
    BY DEF IInv, TypeOK, Complete, Run
  <1>3. RunsConsistent'
    BY DEF IInv, TypeOK, Complete, Run
  <1>4. StatusBacked'
    <2> SUFFICES ASSUME NEW b \in Agents, (Working(b) /\ b \notin stuck)'
                 PROVE  Backed(b)'
      BY DEF StatusBacked, Backed
    <2>1. Working(b) /\ b \notin stuck
      BY DEF Complete, Working, There
    <2>2. ASSUME NEW i \in Jobs, i \in RunningFor(b), runs[jobs[i].run].pc # "claimed"
          PROVE  (i \in RunningFor(b) /\ runs[jobs[i].run].pc # "claimed")'
      BY <2>2 DEF Complete, IInv, TypeOK, Run
    <2>3. ASSUME NEW q \in Runs, reports[q] \in {"count", "rest"}, AgentOf(q) = b
          PROVE  (reports[q] \in {"count", "rest"} /\ AgentOf(q) = b)'
      BY <2>3 DEF Complete, AgentOf, IInv, TypeOK
    <2>4. QED
      BY <2>1, <2>2, <2>3, BackedKept DEF IInv
  <1>5. OneAtATime'
    BY DEF IInv, TypeOK, RunsConsistent, OneAtATime, Complete, RunningFor, Ending, AgentOf
  <1>6. WorkingShown'
    BY DEF IInv, TypeOK, WorkingShown, Complete, Run
  <1>7. LedgerExact'
    BY DEF IInv, TypeOK, LedgerExact, Complete, Run
  <1>8. CreditEarned'
    BY DEF IInv, TypeOK, CreditEarned, Complete, Started
  <1>9. CountedOnce'
    BY DEF IInv, TypeOK, CountedOnce, Complete, Started
  <1>10. QED
    BY <1>1, <1>2, <1>3, <1>4, <1>5, <1>6, <1>7, <1>8, <1>9 DEF IInv

\* applyEvent pays it in.
LEMMA AddUsageKeeps ==
  ASSUME IInv, NEW r \in Runs, AddUsage(r)
  PROVE  IInv'
  <1>0. /\ Started(r) /\ runs[r] \in Run /\ runs[r].job \in Jobs
        /\ jobs[runs[r].job] \in Job /\ AgentOf(r) \in Agents
        /\ jobs[runs[r].job].attempts > 0 /\ jobs[runs[r].job].status # "absent"
    BY RunFacts DEF AddUsage, Started
  <1>1. TypeOK'
    <2>1. runs' \in [Runs -> Run]
      BY DEF AddUsage, IInv, TypeOK, Run
    <2>2. usage' \in [Runs -> Nat]
      BY <2>1 DEF AddUsage, IInv, TypeOK
    <2>3. QED
      BY <2>1, <2>2 DEF AddUsage, IInv, TypeOK
  <1>2. RowsConsistent'
    BY DEF IInv, RowsConsistent, AddUsage
  <1>3. RunsConsistent'
    BY DEF IInv, RunsConsistent, AddUsage, Started
  <1>4. StatusBacked'
    <2> SUFFICES ASSUME NEW b \in Agents, (Working(b) /\ b \notin stuck)'
                 PROVE  Backed(b)'
      BY DEF StatusBacked, Backed
    <2>1. Working(b) /\ b \notin stuck
      BY DEF AddUsage, Working, There
    <2>2. ASSUME NEW i \in Jobs, i \in RunningFor(b), runs[jobs[i].run].pc # "claimed"
          PROVE  (i \in RunningFor(b) /\ runs[jobs[i].run].pc # "claimed")'
      BY <2>1, <2>2 DEF AddUsage, RunningFor
    <2>3. ASSUME NEW q \in Runs, reports[q] \in {"count", "rest"}, AgentOf(q) = b
          PROVE  (reports[q] \in {"count", "rest"} /\ AgentOf(q) = b)'
      BY <2>1, <2>3 DEF AddUsage, AgentOf
    <2>4. QED
      BY <2>1, <2>2, <2>3, BackedKept DEF IInv
  <1>5. OneAtATime'
    BY DEF IInv, OneAtATime, AddUsage, RunningFor, Ending, AgentOf
  <1>6. WorkingShown'
    BY DEF IInv, WorkingShown, AddUsage, RunningFor, Working, There
  <1>7. LedgerExact'
    BY DEF IInv, TypeOK, LedgerExact, AddUsage, Started, There, AgentOf, Run
  <1>8. CreditEarned'
    BY DEF IInv, CreditEarned, AddUsage, Started
  <1>9. CountedOnce'
    BY DEF IInv, CountedOnce, AddUsage, Started
  <1>10. QED
    BY <1>1, <1>2, <1>3, <1>4, <1>5, <1>6, <1>7, <1>8, <1>9 DEF IInv

\* The event is lost, and counted as lost.
LEMMA LoseUsageKeeps ==
  ASSUME IInv, NEW r \in Runs, LoseUsage(r)
  PROVE  IInv'
  <1>0. /\ Started(r) /\ runs[r] \in Run /\ runs[r].job \in Jobs
        /\ jobs[runs[r].job] \in Job /\ AgentOf(r) \in Agents
        /\ jobs[runs[r].job].attempts > 0 /\ jobs[runs[r].job].status # "absent"
    BY RunFacts DEF LoseUsage, Started
  <1>1. TypeOK'
    <2>1. [runs[r] EXCEPT !.pc = "ask", !.lost = @ + 1] \in Run
      <3>1. runs[r].lost + 1 \in Nat
        BY <1>0 DEF Run
      <3>2. QED
        BY <1>0, <3>1 DEF Run
    <2>2. runs' \in [Runs -> Run]
      BY <2>1 DEF LoseUsage, IInv, TypeOK
    <2>3. upsets' \in 0..MaxUpsets
      BY StaffAssumption DEF LoseUsage, Upset, IInv, TypeOK
    <2>4. QED
      BY <2>2, <2>3 DEF LoseUsage, IInv, TypeOK
  <1>2. RowsConsistent'
    BY DEF IInv, TypeOK, LoseUsage, Run
  <1>3. RunsConsistent'
    BY DEF IInv, TypeOK, RunsConsistent, LoseUsage, Started
  <1>4. StatusBacked'
    <2> SUFFICES ASSUME NEW b \in Agents, (Working(b) /\ b \notin stuck)'
                 PROVE  Backed(b)'
      BY DEF StatusBacked, Backed
    <2>1. Working(b) /\ b \notin stuck
      BY DEF LoseUsage, Working, There
    <2>2. ASSUME NEW i \in Jobs, i \in RunningFor(b), runs[jobs[i].run].pc # "claimed"
          PROVE  (i \in RunningFor(b) /\ runs[jobs[i].run].pc # "claimed")'
      BY <2>2 DEF LoseUsage, IInv, TypeOK, Run
    <2>3. ASSUME NEW q \in Runs, reports[q] \in {"count", "rest"}, AgentOf(q) = b
          PROVE  (reports[q] \in {"count", "rest"} /\ AgentOf(q) = b)'
      BY <2>3 DEF LoseUsage, AgentOf, IInv, TypeOK
    <2>4. QED
      BY <2>1, <2>2, <2>3, BackedKept DEF IInv
  <1>5. OneAtATime'
    BY DEF IInv, TypeOK, RunsConsistent, OneAtATime, LoseUsage, RunningFor, Ending, AgentOf
  <1>6. WorkingShown'
    <2>1. \A b \in Agents : RunningFor(b)' = RunningFor(b) /\ There(b)' = There(b)
                            /\ Working(b)' = Working(b)
      BY DEF LoseUsage, RunningFor, There, Working
    <2>2. \A j \in Jobs : runs'[jobs'[j].run].pc \notin {"claimed", "left"}
                            => runs[jobs[j].run].pc \notin {"claimed", "left"}
      BY DEF LoseUsage, IInv, TypeOK, Run
    <2>3. QED
      BY <2>1, <2>2 DEF LoseUsage, IInv, WorkingShown, RunningFor
  <1>7. LedgerExact'
    BY DEF IInv, TypeOK, RunsConsistent, LedgerExact, LoseUsage, Run
  <1>8. CreditEarned'
    BY DEF IInv, TypeOK, CreditEarned, LoseUsage, Started
  <1>9. CountedOnce'
    BY DEF IInv, TypeOK, CountedOnce, LoseUsage, Started
  <1>10. QED
    BY <1>1, <1>2, <1>3, <1>4, <1>5, <1>6, <1>7, <1>8, <1>9 DEF IInv

\* ExecuteJob returns: the embedded runner goes straight to completeJob.
LEMMA ReturnKeeps ==
  ASSUME IInv, NEW r \in Runs, Return(r)
  PROVE  IInv'
  <1>0. /\ Started(r) /\ runs[r] \in Run /\ runs[r].job \in Jobs
        /\ jobs[runs[r].job] \in Job /\ AgentOf(r) \in Agents
        /\ jobs[runs[r].job].attempts > 0 /\ jobs[runs[r].job].status # "absent"
    BY RunFacts DEF Return, Started
  <1>a. PICK p \in {"over", "post"} : runs' = [runs EXCEPT ![r].pc = p]
    BY DEF Return
  <1>b. /\ runs[r].pc = "ask"
        /\ \/ reports' = reports /\ mixed' = mixed
           \/ /\ reports' = [reports EXCEPT ![r] = "finish"]
              /\ mixed' = IF jobs[runs[r].job].status = "running"
                          THEN mixed ELSE mixed \cup {AgentOf(r)}
        /\ UNCHANGED <<staff, usage, credit, jobs, swept, desk, edits, stuck, upsets>>
    BY DEF Return
  <1>1. TypeOK'
    BY <1>0, <1>a, <1>b DEF IInv, TypeOK, Run
  <1>2. RowsConsistent'
    BY <1>a, <1>b DEF IInv, RowsConsistent
  <1>3. RunsConsistent'
    BY <1>a, <1>b DEF IInv, TypeOK, RunsConsistent, Started
  <1>4. StatusBacked'
    <2> SUFFICES ASSUME NEW b \in Agents, (Working(b) /\ b \notin stuck)'
                 PROVE  Backed(b)'
      BY DEF StatusBacked, Backed
    <2>1. Working(b) /\ b \notin stuck
      BY <1>b DEF Working, There
    <2>2. ASSUME NEW i \in Jobs, i \in RunningFor(b), runs[jobs[i].run].pc # "claimed"
          PROVE  (i \in RunningFor(b) /\ runs[jobs[i].run].pc # "claimed")'
      BY <1>a, <1>b, <2>2 DEF RunningFor
    <2>3. ASSUME NEW q \in Runs, reports[q] \in {"count", "rest"}, AgentOf(q) = b
          PROVE  (reports[q] \in {"count", "rest"} /\ AgentOf(q) = b)'
      <3>1. q # r
        BY <1>b, <2>3 DEF IInv, RunsConsistent
      <3>2. QED
        BY <1>a, <1>b, <2>3, <3>1 DEF AgentOf, IInv, TypeOK
    <2>4. QED
      BY <2>1, <2>2, <2>3, BackedKept DEF IInv
  <1>5. OneAtATime'
    <2>1. CASE reports' = reports /\ mixed' = mixed
      BY <1>a, <1>b, <2>1 DEF IInv, OneAtATime, RunningFor, Ending, AgentOf
    <2>2. CASE /\ reports' = [reports EXCEPT ![r] = "finish"]
               /\ mixed' = IF jobs[runs[r].job].status = "running"
                           THEN mixed ELSE mixed \cup {AgentOf(r)}
      <3>1. mixed \subseteq mixed' /\ \A b \in Agents : RunningFor(b)' = RunningFor(b)
        BY <1>b, <2>2 DEF RunningFor
      <3>2. \A q \in Runs : runs'[q].job = runs[q].job /\ AgentOf(q)' = AgentOf(q)
        BY <1>a, <1>b DEF AgentOf
      <3>3. AgentOf(r) \notin mixed' => RunningFor(AgentOf(r)) \subseteq {runs[r].job}
        BY <1>0, <2>2 DEF IInv, OneAtATime, RunningFor, AgentOf
      <3>4. QED
        BY <2>2, <3>1, <3>2, <3>3 DEF IInv, OneAtATime, Ending
    <2>3. QED
      BY <1>b, <2>1, <2>2
  <1>6. WorkingShown'
    <2>1. \A b \in Agents : RunningFor(b)' = RunningFor(b) /\ There(b)' = There(b)
                            /\ Working(b)' = Working(b)
      BY <1>b DEF RunningFor, There, Working
    <2>2. \A j \in Jobs : runs'[jobs'[j].run].pc \notin {"claimed", "left"}
                            => runs[jobs[j].run].pc \notin {"claimed", "left"}
      BY <1>a, <1>b
    <2>3. mixed \subseteq mixed'
      BY <1>b
    <2>4. QED
      BY <2>1, <2>2, <2>3 DEF IInv, WorkingShown, RunningFor
  <1>7. LedgerExact'
    BY <1>a, <1>b DEF IInv, LedgerExact, Started, There, AgentOf
  <1>8. CreditEarned'
    BY <1>a, <1>b DEF IInv, TypeOK, CreditEarned, RunsConsistent
  <1>9. CountedOnce'
    BY <1>a, <1>b DEF IInv, CountedOnce, Started
  <1>10. QED
    BY <1>1, <1>2, <1>3, <1>4, <1>5, <1>6, <1>7, <1>8, <1>9 DEF IInv

\* A run that goes without a report leaves its job to the sweep.
LEMMA LeaveKeeps ==
  ASSUME IInv, NEW r \in Runs, Leave(r)
  PROVE  IInv'
  <1>0. /\ Started(r) /\ runs[r] \in Run /\ runs[r].job \in Jobs
        /\ jobs[runs[r].job] \in Job /\ AgentOf(r) \in Agents
        /\ jobs[runs[r].job].attempts > 0 /\ jobs[runs[r].job].status # "absent"
    BY RunFacts DEF Leave, Started
  <1>1. TypeOK'
    <2>1. runs[r].lost + 1 \in Nat /\ 0 \in 0..MaxPosts
      BY <1>0, StaffAssumption DEF Leave, Run
    <2>2. runs' \in [Runs -> Run]
      <3> DEFINE n == IF runs[r].pc = "usage" THEN runs[r].lost + 1 ELSE runs[r].lost
                 y == [runs[r] EXCEPT !.pc = "left", !.posts = 0, !.lost = n]
      <3>1. n \in Nat
        BY <1>0, <2>1 DEF Run
      <3>2. y \in Run
        BY <1>0, <2>1, <3>1 DEF Run
      <3>3. runs' = [runs EXCEPT ![r] = y]
        BY DEF Leave
      <3> HIDE DEF y
      <3>4. QED
        BY <3>2, <3>3 DEF IInv, TypeOK
    <2>3. upsets' \in 0..MaxUpsets
      BY StaffAssumption DEF Leave, Upset, IInv, TypeOK
    <2>4. QED
      BY <2>2, <2>3 DEF Leave, IInv, TypeOK
  <1>2. RowsConsistent'
    BY DEF IInv, TypeOK, RowsConsistent, Leave
  <1>3. RunsConsistent'
    BY DEF IInv, TypeOK, RunsConsistent, Leave, Started
  <1>4. StatusBacked'
    <2> SUFFICES ASSUME NEW b \in Agents, (Working(b) /\ b \notin stuck)'
                 PROVE  Backed(b)'
      BY DEF StatusBacked, Backed
    <2>1. Working(b) /\ b \notin stuck
      BY DEF Leave, Working, There
    <2>2. ASSUME NEW i \in Jobs, i \in RunningFor(b), runs[jobs[i].run].pc # "claimed"
          PROVE  (i \in RunningFor(b) /\ runs[jobs[i].run].pc # "claimed")'
      BY <2>1, <2>2 DEF Leave, IInv, TypeOK, RowsConsistent, RunningFor
    <2>3. ASSUME NEW q \in Runs, reports[q] \in {"count", "rest"}, AgentOf(q) = b
          PROVE  (reports[q] \in {"count", "rest"} /\ AgentOf(q) = b)'
      BY <2>1, <2>3 DEF Leave, IInv, TypeOK, AgentOf
    <2>4. QED
      BY <2>1, <2>2, <2>3, BackedKept DEF IInv
  <1>5. OneAtATime'
    BY DEF IInv, TypeOK, RunsConsistent, OneAtATime, Leave, RunningFor, Ending, AgentOf
  <1>6. WorkingShown'
    BY DEF IInv, TypeOK, RowsConsistent, WorkingShown, Leave, RunningFor, Working, There
  <1>7. LedgerExact'
    BY DEF IInv, TypeOK, LedgerExact, Leave, Started, There, AgentOf, Run
  <1>8. CreditEarned'
    BY DEF IInv, TypeOK, CreditEarned, Leave, Started
  <1>9. CountedOnce'
    BY DEF IInv, TypeOK, CountedOnce, Leave, Started
  <1>10. QED
    BY <1>1, <1>2, <1>3, <1>4, <1>5, <1>6, <1>7, <1>8, <1>9 DEF IInv

\* Remote.complete: a request.
LEMMA PostKeeps ==
  ASSUME IInv, NEW r \in Runs, Post(r)
  PROVE  IInv'
  <1>0. /\ Started(r) /\ runs[r] \in Run /\ runs[r].job \in Jobs
        /\ jobs[runs[r].job] \in Job /\ AgentOf(r) \in Agents
        /\ jobs[runs[r].job].attempts > 0 /\ jobs[runs[r].job].status # "absent"
    BY RunFacts DEF Post, Started
  <1>1. TypeOK'
    <2>1. runs[r].posts + 1 \in 0..MaxPosts
      BY <1>0, StaffAssumption DEF Post, Run
    <2>2. runs' \in [Runs -> Run]
      BY <2>1 DEF Post, IInv, TypeOK, Run
    <2>3. QED
      BY <2>1, <2>2 DEF Post, IInv, TypeOK
  <1>2. RowsConsistent'
    BY DEF IInv, RowsConsistent, Post
  <1>3. RunsConsistent'
    BY DEF IInv, RunsConsistent, Post, Started
  <1>4. StatusBacked'
    <2> SUFFICES ASSUME NEW b \in Agents, (Working(b) /\ b \notin stuck)'
                 PROVE  Backed(b)'
      BY DEF StatusBacked, Backed
    <2>1. Working(b) /\ b \notin stuck
      BY DEF Post, Working, There
    <2>2. ASSUME NEW i \in Jobs, i \in RunningFor(b), runs[jobs[i].run].pc # "claimed"
          PROVE  (i \in RunningFor(b) /\ runs[jobs[i].run].pc # "claimed")'
      BY <2>1, <2>2 DEF Post, RunningFor
    <2>3. ASSUME NEW q \in Runs, reports[q] \in {"count", "rest"}, AgentOf(q) = b
          PROVE  (reports[q] \in {"count", "rest"} /\ AgentOf(q) = b)'
      BY <2>1, <2>3 DEF Post, AgentOf
    <2>4. QED
      BY <2>1, <2>2, <2>3, BackedKept DEF IInv
  <1>5. OneAtATime'
    BY DEF IInv, OneAtATime, Post, RunningFor, Ending, AgentOf
  <1>6. WorkingShown'
    BY DEF IInv, WorkingShown, Post, RunningFor, Working, There
  <1>7. LedgerExact'
    BY DEF IInv, LedgerExact, Post, Started, There, AgentOf
  <1>8. CreditEarned'
    BY DEF IInv, CreditEarned, Post, Started
  <1>9. CountedOnce'
    BY DEF IInv, CountedOnce, Post, Started
  <1>10. QED
    BY <1>1, <1>2, <1>3, <1>4, <1>5, <1>6, <1>7, <1>8, <1>9 DEF IInv

\* Remote.complete: no more requests.
LEMMA GiveUpKeeps ==
  ASSUME IInv, NEW r \in Runs, GiveUp(r)
  PROVE  IInv'
  <1>0. /\ Started(r) /\ runs[r] \in Run /\ runs[r].job \in Jobs
        /\ jobs[runs[r].job] \in Job /\ AgentOf(r) \in Agents
        /\ jobs[runs[r].job].attempts > 0 /\ jobs[runs[r].job].status # "absent"
    BY RunFacts DEF GiveUp, Started
  <1>1. TypeOK'
    BY StaffAssumption DEF IInv, TypeOK, GiveUp, Run
  <1>2. RowsConsistent'
    BY StaffAssumption DEF IInv, TypeOK, GiveUp, Run
  <1>3. RunsConsistent'
    BY StaffAssumption DEF IInv, TypeOK, GiveUp, Run
  <1>4. StatusBacked'
    BY StaffAssumption DEF IInv, TypeOK, StatusBacked, GiveUp, Run
  <1>5. OneAtATime'
    BY DEF IInv, TypeOK, OneAtATime, GiveUp, RunningFor, Ending, AgentOf
  <1>6. WorkingShown'
    BY StaffAssumption DEF IInv, TypeOK, WorkingShown, GiveUp, Run
  <1>7. LedgerExact'
    BY DEF IInv, TypeOK, LedgerExact, GiveUp, Started, There, AgentOf
  <1>8. CreditEarned'
    BY DEF IInv, TypeOK, CreditEarned, GiveUp, Started
  <1>9. CountedOnce'
    BY DEF IInv, TypeOK, CountedOnce, GiveUp, Started
  <1>10. QED
    BY <1>1, <1>2, <1>3, <1>4, <1>5, <1>6, <1>7, <1>8, <1>9 DEF IInv

\* handleRunnerComplete: only a running job is completed.
LEMMA CheckKeeps ==
  ASSUME IInv, NEW r \in Runs, Check(r)
  PROVE  IInv'
  <1>0. /\ Started(r) /\ runs[r] \in Run /\ runs[r].job \in Jobs
        /\ jobs[runs[r].job] \in Job /\ AgentOf(r) \in Agents
        /\ jobs[runs[r].job].attempts > 0 /\ jobs[runs[r].job].status # "absent"
    BY RunFacts DEF Check
  <1>1. TypeOK'
    BY DEF IInv, TypeOK, Check
  <1>2. RowsConsistent'
    BY DEF IInv, RowsConsistent, Check
  <1>3. RunsConsistent'
    BY DEF IInv, RunsConsistent, Check, Started
  <1>4. StatusBacked'
    <2> SUFFICES ASSUME NEW b \in Agents, (Working(b) /\ b \notin stuck)'
                 PROVE  Backed(b)'
      BY DEF StatusBacked, Backed
    <2>1. Working(b) /\ b \notin stuck
      BY DEF Check, Working, There
    <2>2. ASSUME NEW i \in Jobs, i \in RunningFor(b), runs[jobs[i].run].pc # "claimed"
          PROVE  (i \in RunningFor(b) /\ runs[jobs[i].run].pc # "claimed")'
      BY <2>2 DEF Check, RunningFor
    <2>3. ASSUME NEW q \in Runs, reports[q] \in {"count", "rest"}, AgentOf(q) = b
          PROVE  (reports[q] \in {"count", "rest"} /\ AgentOf(q) = b)'
      BY <2>3 DEF Check, AgentOf
    <2>4. QED
      BY <2>1, <2>2, <2>3, BackedKept DEF IInv
  <1>5. OneAtATime'
    BY <1>0 DEF IInv, OneAtATime, Check, RunningFor, Ending, AgentOf
  <1>6. WorkingShown'
    BY DEF IInv, WorkingShown, Check, RunningFor, Working, There
  <1>7. LedgerExact'
    BY DEF IInv, LedgerExact, Check, Started, There, AgentOf
  <1>8. CreditEarned'
    BY DEF IInv, CreditEarned, Check, Started, CountedOnce
  <1>9. CountedOnce'
    BY DEF IInv, CountedOnce, Check, Started
  <1>10. QED
    BY <1>1, <1>2, <1>3, <1>4, <1>5, <1>6, <1>7, <1>8, <1>9 DEF IInv

\* FinishJob: the completion half way backs the status until it is reset.
LEMMA FinishKeeps ==
  ASSUME IInv, NEW r \in Runs, Finish(r)
  PROVE  IInv'
  <1>0. /\ Started(r) /\ runs[r] \in Run /\ runs[r].job \in Jobs
        /\ jobs[runs[r].job] \in Job /\ AgentOf(r) \in Agents
        /\ jobs[runs[r].job].attempts > 0 /\ jobs[runs[r].job].status # "absent"
    BY RunFacts DEF Finish
  <1>1. TypeOK'
    <2>1. jobs' \in [Jobs -> Job]
      BY <1>0 DEF Finish, IInv, TypeOK, Job
    <2>2. reports' \in [Runs -> {"none", "check", "finish", "count", "rest"}]
      BY <2>1 DEF Finish, IInv, TypeOK
    <2>3. QED
      BY <2>1, <2>2 DEF Finish, IInv, TypeOK
  <1>2. RowsConsistent'
    BY <1>0 DEF IInv, RowsConsistent, Finish
  <1>3. RunsConsistent'
    BY DEF IInv, RunsConsistent, Finish, Started
  <1>4. StatusBacked'
    <2> SUFFICES ASSUME NEW b \in Agents, (Working(b) /\ b \notin stuck)'
                 PROVE  Backed(b)'
      BY DEF StatusBacked, Backed
    <2>1. CASE b = AgentOf(r)
      <3>1. reports'[r] \in {"count", "rest"} /\ AgentOf(r)' = b
        BY <2>1 DEF Finish, AgentOf, IInv, TypeOK
      <3>2. QED
        BY <3>1 DEF Backed
    <2>2. CASE b # AgentOf(r)
      <3>1. Working(b) /\ b \notin stuck
        BY DEF Finish, Working, There
      <3>2. ASSUME NEW i \in Jobs, i \in RunningFor(b), runs[jobs[i].run].pc # "claimed"
            PROVE  (i \in RunningFor(b) /\ runs[jobs[i].run].pc # "claimed")'
        BY <2>2, <3>2 DEF Finish, RunningFor, AgentOf
      <3>3. ASSUME NEW q \in Runs, reports[q] \in {"count", "rest"}, AgentOf(q) = b
            PROVE  (reports[q] \in {"count", "rest"} /\ AgentOf(q) = b)'
        <4>1. runs[q].job \in Jobs
          BY <3>3, RunFacts
        <4>2. QED
          BY <3>3, <4>1 DEF Finish, AgentOf
      <3>4. QED
        BY <3>1, <3>2, <3>3, BackedKept DEF IInv
    <2>3. QED
      BY <2>1, <2>2
  <1>5. OneAtATime'
    BY DEF IInv, TypeOK, OneAtATime, Finish, RunningFor, Ending, AgentOf
  <1>6. WorkingShown'
    BY DEF IInv, WorkingShown, Finish, RunningFor, Working, There
  <1>7. LedgerExact'
    BY DEF IInv, RunsConsistent, LedgerExact, Finish, Started, There, AgentOf
  <1>8. CreditEarned'
    BY <1>0 DEF IInv, TypeOK, CreditEarned, Finish, Started
  <1>9. CountedOnce'
    BY DEF IInv, CountedOnce, Finish, Started
  <1>10. QED
    BY <1>1, <1>2, <1>3, <1>4, <1>5, <1>6, <1>7, <1>8, <1>9 DEF IInv

\* IncrAgentTasksDone: the job has ended, so the next check refuses.
LEMMA CountKeeps ==
  ASSUME IInv, NEW r \in Runs, Count(r)
  PROVE  IInv'
  <1>0. /\ Started(r) /\ runs[r] \in Run /\ runs[r].job \in Jobs
        /\ jobs[runs[r].job] \in Job /\ AgentOf(r) \in Agents
        /\ jobs[runs[r].job].attempts > 0 /\ jobs[runs[r].job].status # "absent"
    BY RunFacts DEF Count
  <1>1. TypeOK'
    BY DEF IInv, TypeOK, Count
  <1>2. RowsConsistent'
    BY DEF IInv, RowsConsistent, Count
  <1>3. RunsConsistent'
    BY DEF IInv, RunsConsistent, Count, Started
  <1>4. StatusBacked'
    BY DEF IInv, StatusBacked, Count, Working, There, RunningFor, AgentOf
  <1>5. OneAtATime'
    BY DEF IInv, OneAtATime, Count, RunningFor, Ending, AgentOf
  <1>6. WorkingShown'
    BY DEF IInv, WorkingShown, Count, RunningFor, Working, There
  <1>7. LedgerExact'
    BY DEF IInv, LedgerExact, Count, Started, There, AgentOf
  <1>8. CreditEarned'
    BY DEF IInv, TypeOK, CreditEarned, Count, Started
  <1>9. CountedOnce'
    BY DEF IInv, TypeOK, CountedOnce, Count, Started, CreditEarned
  <1>10. QED
    BY <1>1, <1>2, <1>3, <1>4, <1>5, <1>6, <1>7, <1>8, <1>9 DEF IInv

\* The deferred SetAgentStatus: no other job of the agent runs, or it is mixed.
LEMMA RestKeeps ==
  ASSUME IInv, NEW r \in Runs, Rest(r)
  PROVE  IInv'
  <1>0. /\ Started(r) /\ runs[r] \in Run /\ runs[r].job \in Jobs
        /\ jobs[runs[r].job] \in Job /\ AgentOf(r) \in Agents
        /\ jobs[runs[r].job].attempts > 0 /\ jobs[runs[r].job].status # "absent"
    BY RunFacts DEF Rest
  <1>a. PICK x \in Run : runs' = [runs EXCEPT ![r] = x] /\ x.job = runs[r].job
                          /\ x.calls = runs[r].calls /\ x.lost = runs[r].lost
                          /\ (x.pc = runs[r].pc \/ (runs[r].pc = "post" /\ x.pc = "over"))
    <2>1. CASE runs' = runs
      <3>1. runs' = [runs EXCEPT ![r] = runs[r]]
        BY <2>1 DEF IInv, TypeOK
      <3>2. runs[r] \in Run
        BY <1>0
      <3>3. WITNESS runs[r] \in Run
      <3>4. QED
        BY <3>1
    <2>2. CASE runs' = [runs EXCEPT ![r].pc = IF @ = "post" THEN "over" ELSE @, ![r].posts = 0]
      <3> DEFINE y == [runs[r] EXCEPT !.pc = IF @ = "post" THEN "over" ELSE @, !.posts = 0]
      <3>1. y \in Run /\ y.job = runs[r].job /\ y.calls = runs[r].calls /\ y.lost = runs[r].lost
            /\ y.pc = IF runs[r].pc = "post" THEN "over" ELSE runs[r].pc
        <4>1. 0 \in 0..MaxPosts
          BY StaffAssumption
        <4>2. (IF runs[r].pc = "post" THEN "over" ELSE runs[r].pc)
                \in {"none", "claimed", "ask", "usage", "post", "over", "left"}
          BY <1>0 DEF Run
        <4>3. QED
          BY <1>0, <4>1, <4>2 DEF Run
      <3>2. runs' = [runs EXCEPT ![r] = y]
        BY <2>2 DEF IInv
      <3> HIDE DEF y
      <3>3. y.pc = runs[r].pc \/ (runs[r].pc = "post" /\ y.pc = "over")
        BY <3>1
      <3>4. QED
        BY <3>1, <3>2, <3>3
    <2>3. QED
      BY <2>1, <2>2 DEF Rest
  <1>b. /\ staff' = SetStatus(AgentOf(r), "idle")
        /\ stuck' = stuck \ {AgentOf(r)}
        /\ reports[r] = "rest" /\ reports' = [reports EXCEPT ![r] = "none"]
        /\ upsets' \in 0..MaxUpsets
        /\ UNCHANGED <<usage, credit, jobs, swept, desk, edits, mixed>>
    BY StaffAssumption DEF Rest, Upset, IInv, TypeOK
  <1>1. TypeOK'
    BY <1>a, <1>b DEF IInv, TypeOK, SetStatus, Member, Statuses
  <1>2. RowsConsistent'
    BY <1>a, <1>b DEF IInv, SetStatus, RowsConsistent
  <1>3. RunsConsistent'
    BY <1>a, <1>b DEF IInv, RunsConsistent, Started
  <1>4. StatusBacked'
    <2> SUFFICES ASSUME NEW b \in Agents, (Working(b) /\ b \notin stuck)'
                 PROVE  Backed(b)'
      BY DEF StatusBacked, Backed
    <2>1. b # AgentOf(r) /\ Working(b) /\ b \notin stuck
      BY <1>b DEF SetStatus, Working, There, IInv, TypeOK
    <2>2. ASSUME NEW i \in Jobs, i \in RunningFor(b), runs[jobs[i].run].pc # "claimed"
          PROVE  (i \in RunningFor(b) /\ runs[jobs[i].run].pc # "claimed")'
      BY <1>a, <1>b, <2>2 DEF RunningFor
    <2>3. ASSUME NEW q \in Runs, reports[q] \in {"count", "rest"}, AgentOf(q) = b
          PROVE  (reports[q] \in {"count", "rest"} /\ AgentOf(q) = b)'
      BY <1>a, <1>b, <2>1, <2>3 DEF AgentOf
    <2>4. QED
      BY <2>1, <2>2, <2>3, BackedKept DEF IInv
  <1>5. OneAtATime'
    BY <1>a, <1>b DEF IInv, OneAtATime, RunningFor, Ending, AgentOf
  <1>6. WorkingShown'
    <2> SUFFICES ASSUME NEW b \in Agents, b \notin mixed, NEW i \in Jobs, i \in RunningFor(b)',
                        There(b)', runs'[jobs'[i].run].pc \notin {"claimed", "left"}
                 PROVE  Working(b)'
      BY <1>b DEF WorkingShown, RunningFor
    <2>1. i \in RunningFor(b) /\ There(b)
      BY <1>b DEF RunningFor, There, SetStatus
    <2>2. b # AgentOf(r)
      BY <1>b, <2>1 DEF IInv, OneAtATime, Ending
    <2>3. runs[jobs[i].run].pc \notin {"claimed", "left"}
      BY <1>a, <1>b
    <2>4. Working(b)
      BY <2>1, <2>3 DEF IInv, WorkingShown
    <2>5. QED
      BY <1>b, <2>2, <2>4 DEF Working, SetStatus
  <1>7. LedgerExact'
    BY <1>a, <1>b DEF IInv, LedgerExact, Started, There, AgentOf, SetStatus
  <1>8. CreditEarned'
    BY <1>a, <1>b DEF IInv, CreditEarned, Started
  <1>9. CountedOnce'
    BY <1>a, <1>b DEF IInv, CountedOnce, Started
  <1>10. QED
    BY <1>1, <1>2, <1>3, <1>4, <1>5, <1>6, <1>7, <1>8, <1>9 DEF IInv

\* A completion breaks off: what it would have reset is stuck.
LEMMA CutOffKeeps ==
  ASSUME IInv, NEW r \in Runs, CutOff(r)
  PROVE  IInv'
  <1>0. /\ Started(r) /\ runs[r] \in Run /\ runs[r].job \in Jobs
        /\ jobs[runs[r].job] \in Job /\ AgentOf(r) \in Agents
        /\ jobs[runs[r].job].attempts > 0 /\ jobs[runs[r].job].status # "absent"
    BY RunFacts DEF CutOff
  <1>1. TypeOK'
    <2>1. runs' \in [Runs -> Run]
      BY DEF CutOff, IInv, TypeOK, Run
    <2>2. stuck' \subseteq Agents
      BY <1>0, <2>1 DEF CutOff, Strand, IInv, TypeOK
    <2>3. reports' \in [Runs -> {"none", "check", "finish", "count", "rest"}] /\ upsets' \in 0..MaxUpsets
      BY StaffAssumption DEF CutOff, IInv, TypeOK, Upset
    <2>4. QED
      BY <2>1, <2>2, <2>3 DEF CutOff, IInv, TypeOK
  <1>2. RowsConsistent'
    BY DEF IInv, RowsConsistent, CutOff
  <1>3. RunsConsistent'
    BY DEF IInv, RunsConsistent, CutOff, Started
  <1>4. StatusBacked'
    <2> SUFFICES ASSUME NEW b \in Agents, (Working(b) /\ b \notin stuck)'
                 PROVE  Backed(b)'
      BY DEF StatusBacked, Backed
    <2>1. Working(b) /\ b \notin stuck
      BY DEF CutOff, Working, There, Strand
    <2>2. ASSUME NEW i \in Jobs, i \in RunningFor(b), runs[jobs[i].run].pc # "claimed"
          PROVE  (i \in RunningFor(b) /\ runs[jobs[i].run].pc # "claimed")'
      BY <2>1, <2>2 DEF CutOff, RunningFor
    <2>3. ASSUME NEW q \in Runs, reports[q] \in {"count", "rest"}, AgentOf(q) = b
          PROVE  (reports[q] \in {"count", "rest"} /\ AgentOf(q) = b)'
      BY <2>1, <2>3 DEF CutOff, AgentOf, Strand
    <2>4. QED
      BY <2>1, <2>2, <2>3, BackedKept DEF IInv
  <1>5. OneAtATime'
    BY DEF IInv, OneAtATime, CutOff, RunningFor, Ending, AgentOf
  <1>6. WorkingShown'
    BY DEF IInv, WorkingShown, CutOff, RunningFor, Working, There
  <1>7. LedgerExact'
    BY DEF IInv, LedgerExact, CutOff, Started, There, AgentOf
  <1>8. CreditEarned'
    BY DEF IInv, CreditEarned, CutOff, Started
  <1>9. CountedOnce'
    BY DEF IInv, CountedOnce, CutOff, Started
  <1>10. QED
    BY <1>1, <1>2, <1>3, <1>4, <1>5, <1>6, <1>7, <1>8, <1>9 DEF IInv

\* RequeueStaleJobs: a read.
LEMMA SweepScanKeeps ==
  ASSUME IInv, NEW j \in Jobs, SweepScan(j)
  PROVE  IInv'
  <1>1. TypeOK'
    BY StaffAssumption DEF IInv, TypeOK, SweepScan, Upset
  <1>2. RowsConsistent'
    BY DEF IInv, RowsConsistent, SweepScan
  <1>3. RunsConsistent'
    BY DEF IInv, RunsConsistent, SweepScan, Started
  <1>4. StatusBacked'
    BY DEF IInv, StatusBacked, SweepScan, Working, There, RunningFor, AgentOf
  <1>5. OneAtATime'
    BY DEF IInv, OneAtATime, SweepScan, RunningFor, Ending, AgentOf
  <1>6. WorkingShown'
    BY DEF IInv, WorkingShown, SweepScan, RunningFor, Working, There
  <1>7. LedgerExact'
    BY DEF IInv, LedgerExact, SweepScan, Started, There, AgentOf
  <1>8. CreditEarned'
    BY DEF IInv, CreditEarned, SweepScan, Started
  <1>9. CountedOnce'
    BY DEF IInv, CountedOnce, SweepScan, Started
  <1>10. QED
    BY <1>1, <1>2, <1>3, <1>4, <1>5, <1>6, <1>7, <1>8, <1>9 DEF IInv

\* RequeueStaleJobs ends or queues a job, and its agent is stuck if it was working.
LEMMA SweepUpdateKeeps ==
  ASSUME IInv, NEW j \in Jobs, SweepUpdate(j)
  PROVE  IInv'
  <1>1. TypeOK'
    <2>1. jobs[j].agent \in Agents
      BY DEF SweepUpdate, IInv, RowsConsistent
    <2>2. jobs' \in [Jobs -> Job]
      <3>1. \A s \in {"ended", "queued"} : [jobs[j] EXCEPT !.status = s] \in Job
        BY DEF IInv, TypeOK, Job
      <3>2. jobs' = [jobs EXCEPT ![j] = [jobs[j] EXCEPT !.status =
                       IF jobs[j].attempts >= MaxAttempts THEN "ended" ELSE "queued"]]
        BY DEF SweepUpdate
      <3>3. QED
        BY <3>1, <3>2 DEF IInv, TypeOK
    <2>3. stuck' \subseteq Agents
      BY <2>1, <2>2 DEF SweepUpdate, Strand, IInv, TypeOK
    <2>4. QED
      BY <2>1, <2>2, <2>3 DEF SweepUpdate, IInv, TypeOK
  <1>2. RowsConsistent'
    BY StaffAssumption DEF IInv, TypeOK, RowsConsistent, SweepUpdate, Job
  <1>3. RunsConsistent'
    BY DEF IInv, RunsConsistent, SweepUpdate, Started
  <1>4. StatusBacked'
    <2> SUFFICES ASSUME NEW b \in Agents, (Working(b) /\ b \notin stuck)'
                 PROVE  Backed(b)'
      BY DEF StatusBacked, Backed
    <2>1. Working(b) /\ b \notin stuck
      BY DEF SweepUpdate, Working, There, Strand
    <2>2. ASSUME NEW i \in Jobs, i \in RunningFor(b), runs[jobs[i].run].pc # "claimed"
          PROVE  (i \in RunningFor(b) /\ runs[jobs[i].run].pc # "claimed")'
      BY <2>1, <2>2 DEF SweepUpdate, RunningFor, Strand
    <2>3. ASSUME NEW q \in Runs, reports[q] \in {"count", "rest"}, AgentOf(q) = b
          PROVE  (reports[q] \in {"count", "rest"} /\ AgentOf(q) = b)'
      BY <2>1, <2>3 DEF SweepUpdate, AgentOf
    <2>4. QED
      BY <2>1, <2>2, <2>3, BackedKept DEF IInv
  <1>5. OneAtATime'
    BY DEF IInv, OneAtATime, SweepUpdate, RunningFor, Ending, AgentOf
  <1>6. WorkingShown'
    BY DEF IInv, WorkingShown, SweepUpdate, RunningFor, Working, There
  <1>7. LedgerExact'
    BY DEF IInv, LedgerExact, SweepUpdate, Started, There, AgentOf
  <1>8. CreditEarned'
    BY DEF IInv, CreditEarned, SweepUpdate, Started
  <1>9. CountedOnce'
    BY DEF IInv, CountedOnce, SweepUpdate, Started
  <1>10. QED
    BY <1>1, <1>2, <1>3, <1>4, <1>5, <1>6, <1>7, <1>8, <1>9 DEF IInv

\* Nothing has happened yet.
LEMMA InitIInv ==
  ASSUME Init
  PROVE  IInv
  <1>1. TypeOK
    BY StaffAssumption DEF Init, TypeOK, Member, Statuses, Job, Run, Edit, NoEdit
  <1>2. RowsConsistent /\ RunsConsistent
    BY <1>1 DEF Init, RowsConsistent, RunsConsistent, Started
  <1>3. StatusBacked
    BY DEF Init, StatusBacked, Working
  <1>4. OneAtATime /\ WorkingShown
    BY DEF Init, OneAtATime, WorkingShown, RunningFor
  <1>5. LedgerExact /\ CreditEarned /\ CountedOnce
    BY DEF Init, LedgerExact, CreditEarned, CountedOnce
  <1>6. QED
    BY <1>1, <1>2, <1>3, <1>4, <1>5 DEF IInv

\* Each step, and each step of other parts of the program, preserves the invariant.
LEMMA NextKeeps ==
  ASSUME IInv, [Next]_vars
  PROVE  IInv'
  <1>1. CASE Desk
    BY <1>1, HireKeeps, DeleteAgentKeeps, EditReadKeeps, EditWriteKeeps, PickKeeps,
       StartPickedKeeps, CreateJobKeeps DEF Desk
  <1>2. ASSUME NEW r \in Runs, Server(r)
        PROVE  IInv'
    BY <1>2, ClaimKeeps, UnbuildableKeeps, MarkKeeps, CheckKeeps, FinishKeeps,
       CountKeeps, RestKeeps, CutOffKeeps DEF Server
  <1>3. ASSUME NEW r \in Runs, Runner(r)
        PROVE  IInv'
    BY <1>3, CompleteKeeps, AddUsageKeeps, LoseUsageKeeps, ReturnKeeps, LeaveKeeps,
       PostKeeps, GiveUpKeeps DEF Runner
  <1>4. ASSUME NEW j \in Jobs, SweepScan(j) \/ SweepUpdate(j)
        PROVE  IInv'
    BY <1>4, SweepScanKeeps, SweepUpdateKeeps
  <1>5. CASE UNCHANGED vars
    BY <1>5 DEF vars, IInv, TypeOK, RowsConsistent, RunsConsistent, StatusBacked,
       OneAtATime, WorkingShown, LedgerExact, CreditEarned, CountedOnce, Started,
       Working, There, RunningFor, Ending, AgentOf
  <1>6. QED
    BY <1>1, <1>2, <1>3, <1>4, <1>5 DEF Next

\* The invariant is inductive: the rows of agents, jobs and runs agree with each other
\* whatever the handlers of claims, completions, forms and the sweep do in between.
THEOREM StaffInvariant == Spec => []IInv
  <1>1. Init => IInv
    BY InitIInv
  <1>2. IInv /\ [Next]_vars => IInv'
    BY NextKeeps
  <1>3. QED
    BY <1>1, <1>2, PTL DEF Spec

\* An agent none of whose jobs runs has no job that backs the status "working".
LEMMA IdleByBacking ==
  ASSUME IInv
  PROVE  RestsIdle
  <1> SUFFICES ASSUME NEW a \in Agents, There(a), ~Busy(a), a \notin stuck
               PROVE  staff[a].status = "idle"
    BY DEF RestsIdle
  <1>1. ~Working(a)
    <2> SUFFICES ASSUME Working(a) PROVE FALSE
      OBVIOUS
    <2>1. CASE \E j \in RunningFor(a) : runs[jobs[j].run].pc # "claimed"
      BY <2>1 DEF Busy
    <2>2. CASE \E r \in Runs : reports[r] \in {"count", "rest"} /\ AgentOf(r) = a
      BY <2>2 DEF Busy, Ending
    <2>3. QED
      BY <2>1, <2>2 DEF IInv, StatusBacked
  <1>2. QED
    BY <1>1 DEF Working, IInv, TypeOK, Member, Statuses

\* onJobClaimed and the deferred reset of completeJob: an agent with nothing to do is
\* shown as idle, or its status is stuck by one of the steps that leave it so.
THEOREM RestsWhenIdle == Spec => []RestsIdle
  <1>1. IInv => RestsIdle
    BY IdleByBacking
  <1>2. QED
    BY <1>1, StaffInvariant, PTL

\* An agent whose job runs is shown as working, whatever late and repeated completions of
\* other runs arrive, unless it had two jobs at once or a form overwrote the status.
THEOREM WorkingIsShown == Spec => []WorkingShown
  <1>1. IInv => WorkingShown
    BY DEF IInv
  <1>2. QED
    BY <1>1, StaffInvariant, PTL

\* AddAgentUsage: each answer of a model is counted once or its event was lost.
THEOREM LedgerIsExact == Spec => []LedgerExact
  <1>1. IInv => LedgerExact
    BY DEF IInv
  <1>2. QED
    BY <1>1, StaffInvariant, PTL

\* IncrAgentTasksDone: a job that was claimed once is counted at most once, and when it
\* has ended.
THEOREM CountsOnce == Spec => []CountedOnce
  <1>1. IInv => CountedOnce
    BY DEF IInv
  <1>2. QED
    BY <1>1, StaffInvariant, PTL

\* Only pickTeamAgent puts an agent on an empty desk.
LEMMA OnlyPickChooses ==
  ASSUME Next, desk = None, desk' # None
  PROVE  Pick
  <1>1. CASE Desk
    BY <1>1 DEF Desk, Hire, DeleteAgent, EditRead, EditWrite, StartPicked, CreateJob
  <1>2. ASSUME NEW r \in Runs, Server(r)
        PROVE  FALSE
    BY <1>2 DEF Server, Claim, Unbuildable, Mark, Check, Finish, Count, Rest, CutOff
  <1>3. ASSUME NEW r \in Runs, Runner(r)
        PROVE  FALSE
    BY <1>3 DEF Runner, Complete, AddUsage, LoseUsage, Return, Leave, Post, GiveUp
  <1>4. ASSUME NEW j \in Jobs, SweepScan(j) \/ SweepUpdate(j)
        PROVE  FALSE
    BY <1>4 DEF SweepScan, SweepUpdate
  <1>5. QED
    BY <1>1, <1>2, <1>3, <1>4 DEF Next

\* pickTeamAgent: a task of a team is not given to an agent at work while a teammate
\* rests, unless the status of one of them is wrong.
THEOREM FairPick == Spec => PickIsFair
  <1> DEFINE Fair == \A a \in Agents, b \in Agents :
          /\ desk = None /\ desk' = a
          /\ a \notin mixed /\ There(b) /\ b \notin stuck
          /\ \E j \in RunningFor(a) : runs[jobs[j].run].pc \in {"ask", "usage", "post"}
          => Busy(b)
  <1>1. IInv /\ [Next]_vars => [Fair]_vars
    <2> SUFFICES ASSUME IInv, Next, NEW a \in Agents, NEW b \in Agents,
                        desk = None, desk' = a, a \notin mixed, There(b), b \notin stuck, ~Busy(b),
                        NEW j \in RunningFor(a), runs[jobs[j].run].pc \in {"ask", "usage", "post"}
                 PROVE  FALSE
      OBVIOUS
    <2>1. a \in Chosen
      BY OnlyPickChooses, StaffAssumption DEF Pick
    <2>2. a \in Team
      BY <2>1 DEF Chosen
    <2>3. Working(a)
      BY <2>2 DEF IInv, WorkingShown, Team
    <2>4. There(b) /\ staff[b].status = "idle"
      BY IdleByBacking DEF RestsIdle
    <2>5. staff[a].status = "idle"
      BY <2>1, <2>4 DEF Chosen, Team
    <2>6. QED
      BY <2>3, <2>5 DEF Working
  <1>2. QED
    BY <1>1, StaffInvariant, PTL DEF Spec, PickIsFair

-----------------------------------------------------------------------------
(* The rows of the jobs move as JobRows says.                              *)

\* An UPDATE of one row, seen as a write of JobRows.
LEMMA RowWritten ==
  ASSUME IInv, NEW j \in Jobs, NEW row, jobs' = [jobs EXCEPT ![j] = row]
  PROVE  Rows!Write(j, row.status, row.attempts)
  BY DEF Rows!Write, RowView, IInv, TypeOK

\* What JobRows sees of a row.
LEMMA RowSeen ==
  ASSUME NEW j \in Jobs
  PROVE  RowView[j].status = jobs[j].status /\ RowView[j].attempts = jobs[j].attempts
  BY DEF RowView

\* failJob and completeJob end a row that was claimed.
LEMMA RowEnded ==
  ASSUME IInv, NEW j \in Jobs, jobs[j].attempts > 0,
         jobs' = [jobs EXCEPT ![j].status = "ended"]
  PROVE  Rows!Next
  <1> DEFINE row == [jobs[j] EXCEPT !.status = "ended"]
  <1>1. row.status = "ended" /\ row.attempts = jobs[j].attempts
    BY DEF IInv, TypeOK, Job
  <1>2. jobs' = [jobs EXCEPT ![j] = row]
    BY DEF IInv, TypeOK
  <1> HIDE DEF row
  <1>3. Rows!Write(j, row.status, row.attempts)
    BY <1>2 DEF Rows!Write, RowView, IInv, TypeOK
  <1>4. Rows!End(j)
    BY <1>1, <1>3, RowSeen DEF Rows!End, Rows!Write
  <1>5. QED
    BY <1>4 DEF Rows!Next

\* CreateJob appends a row.
LEMMA RowCreated ==
  ASSUME IInv, NEW j \in Jobs, NEW a \in Agents, NewJob(j, a)
  PROVE  Rows!Next
  <1> DEFINE row == [jobs[j] EXCEPT !.status = "queued", !.agent = a]
  <1>1. row.status = "queued" /\ row.attempts = 0
    BY DEF NewJob, IInv, TypeOK, RowsConsistent, Job
  <1>2. jobs' = [jobs EXCEPT ![j] = row]
    BY DEF NewJob, IInv, TypeOK, Job
  <1> HIDE DEF row
  <1>3. Rows!Write(j, "queued", 0)
    BY <1>1, <1>2, RowWritten
  <1>4. Rows!Create(j)
    BY <1>3, RowSeen DEF NewJob, Rows!Create, Rows!Write
  <1>5. QED
    BY <1>4 DEF Rows!Next

\* ClaimJob takes a queued row, which has attempts left.
LEMMA RowClaimed ==
  ASSUME IInv, NEW r \in Runs, NEW j \in Jobs, NEW k \in Kinds[r], Claim(r, j, k)
  PROVE  Rows!Next
  <1> DEFINE row == [jobs[j] EXCEPT !.status = "running", !.attempts = @ + 1, !.run = r]
  <1>1. row.status = "running" /\ row.attempts = jobs[j].attempts + 1
    BY DEF IInv, TypeOK, Job
  <1>2. jobs' = [jobs EXCEPT ![j] = row]
    BY DEF Claim, IInv, TypeOK, Job
  <1> HIDE DEF row
  <1>3. Rows!Write(j, "running", jobs[j].attempts + 1)
    BY <1>1, <1>2, RowWritten
  <1>4. jobs[j].status = "queued" /\ jobs[j].attempts < MaxAttempts
    BY DEF Claim, IInv, RowsConsistent
  <1>5. Rows!Claim(j)
    BY <1>3, <1>4, RowSeen DEF Rows!Claim, Rows!Write
  <1>6. QED
    BY <1>5 DEF Rows!Next

\* RequeueStaleJobs, by a SELECT that may be old: only rows that were claimed are in it.
LEMMA RowSwept ==
  ASSUME IInv, NEW j \in Jobs, SweepUpdate(j)
  PROVE  Rows!Next
  <1>1. jobs[j].attempts > 0
    BY DEF SweepUpdate, IInv, RowsConsistent
  <1>2. CASE jobs[j].attempts >= MaxAttempts
    BY <1>1, <1>2, RowEnded DEF SweepUpdate
  <1>3. CASE ~(jobs[j].attempts >= MaxAttempts)
    <2> DEFINE row == [jobs[j] EXCEPT !.status = "queued"]
    <2>1. row.status = "queued" /\ row.attempts = jobs[j].attempts
      BY DEF IInv, TypeOK, Job
    <2>2. jobs' = [jobs EXCEPT ![j] = row]
      BY <1>3 DEF SweepUpdate, IInv, TypeOK
    <2> HIDE DEF row
    <2>3. Rows!Write(j, "queued", jobs[j].attempts)
      BY <2>1, <2>2, RowWritten
    <2>4. jobs[j].attempts < MaxAttempts
      BY <1>3, StaffAssumption DEF IInv, TypeOK, Job
    <2>5. Rows!Requeue(j)
      BY <1>1, <2>3, <2>4, RowSeen DEF Rows!Requeue, Rows!Write
    <2>6. QED
      BY <2>5 DEF Rows!Next
  <1>4. QED
    BY <1>2, <1>3

\* Every step is a step of JobRows, or a stutter.
LEMMA RowStep ==
  ASSUME IInv, [Next]_vars
  PROVE  [Rows!Next]_RowView
  <1>1. ASSUME UNCHANGED jobs PROVE UNCHANGED RowView
    BY <1>1 DEF RowView
  <1>2. ASSUME Desk PROVE Rows!Next \/ UNCHANGED jobs
    <2>1. CASE StartPicked
      BY <2>1, RowCreated DEF StartPicked, IInv, TypeOK, Team
    <2>2. QED
      BY <1>2, <2>1, RowCreated DEF Desk, Hire, DeleteAgent, EditRead, EditWrite, Pick, CreateJob
  <1>3. ASSUME NEW r \in Runs, Unbuildable(r) \/ Finish(r) PROVE Rows!Next
    <2>1. Started(r) \/ reports[r] # "none"
      BY <1>3 DEF Unbuildable, Finish, Started
    <2>2. runs[r].job \in Jobs /\ jobs[runs[r].job].attempts > 0
      BY <2>1, RunFacts
    <2>3. QED
      BY <1>3, <2>2, RowEnded DEF Unbuildable, Finish
  <1>4. ASSUME NEW r \in Runs, Server(r) PROVE Rows!Next \/ UNCHANGED jobs
    BY <1>3, <1>4, RowClaimed DEF Server, Mark, Check, Count, Rest, CutOff
  <1>5. ASSUME NEW r \in Runs, Runner(r) PROVE UNCHANGED jobs
    BY <1>5 DEF Runner, Complete, AddUsage, LoseUsage, Return, Leave, Post, GiveUp
  <1>6. ASSUME NEW j \in Jobs, SweepScan(j) PROVE UNCHANGED jobs
    BY <1>6 DEF SweepScan
  <1>7. CASE UNCHANGED vars
    BY <1>1, <1>7 DEF vars
  <1>8. QED
    BY <1>1, <1>2, <1>4, <1>5, <1>6, <1>7, RowSwept DEF Next

\* The statements of claims, completions, failures and the sweep, in whatever order, move
\* the rows of the jobs as the abstract rows move.
THEOREM StaffRows == Spec => RowsSpec
  <1>1. Init => Rows!Init
    BY DEF Init, Rows!Init, RowView
  <1>2. IInv /\ [Next]_vars => [Rows!Next]_RowView
    BY RowStep
  <1>3. QED
    BY <1>1, <1>2, StaffInvariant, PTL DEF Spec, RowsSpec, Rows!Spec
=============================================================================
