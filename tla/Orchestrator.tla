---------------------------- MODULE Orchestrator ----------------------------
(***************************************************************************)
(* The life of tasks, plans and jobs in the control plane: the request     *)
(* handlers of the REST and runner APIs, the embedded runner, the requeue  *)
(* loop, and the functions of orchestrator.go they all go through.         *)
(*                                                                         *)
(* A function of the orchestrator is the sequence of store calls it makes, *)
(* and a handler in progress is the sequence of the calls it has still to  *)
(* make. One call is one step, because each SQL statement is atomic and    *)
(* nothing else is (the store opens no transaction). A call that reads     *)
(* decides what is left to do; a call that fails ends the function.        *)
(*                                                                         *)
(* Columns that no decision below depends on are left out: texts, steps,   *)
(* priorities, the usage counters, agents.status and the activity table.   *)
(***************************************************************************)
EXTENDS Integers, Sequences, FiniteSets

CONSTANTS
    TaskIds, PlanIds, JobIds,  \* rows that may be created (bounds)
    AgentIds,                  \* hired agents
    Handlers,                  \* request handlers that may be active at once (a bound)
    Loop,                      \* the goroutine of requeueLoop
    MaxAttempts,               \* maxJobAttempts
    Overlap,                   \* whether handlers run concurrently
    EmbeddedOn,                \* whether the embedded runner claims jobs
    AgentsLeave,               \* whether agents may be deleted
    ProvidersLeave,            \* whether the provider of an agent may be missing
    Faults,                    \* whether handlers may be cut off and the process may crash
    None                       \* the empty id

Decisions == {"approve", "reject", "request_changes"}
Threads == Handlers \cup {Loop}

ASSUME OrchestratorAssumption ==
    /\ MaxAttempts \in Nat \ {0}
    /\ Loop \notin Handlers
    /\ PlanIds \subseteq Nat /\ JobIds \subseteq Nat
    /\ None \notin TaskIds /\ None \notin PlanIds /\ None \notin JobIds
    /\ None \notin AgentIds /\ None \notin Decisions
    /\ {Overlap, EmbeddedOn, AgentsLeave, ProvidersLeave, Faults} \subseteq BOOLEAN

VARIABLES
    tasks,      \* table tasks: status, agent_id
    plans,      \* table plans: task_id, agent_id, status, version
    jobs,       \* table jobs: kind, task_id, plan_id, agent_id, status, attempts
    agents,     \* table agents: whether the row exists, autonomy
    handlers,   \* the store calls each handler has still to make
    remote,     \* jobs whose bundle a remote runner has received
    embedded,   \* goroutines of the embedded runner at work on each job
    verdicts    \* history: the decisions written for each plan

vars == <<tasks, plans, jobs, agents, handlers, remote, embedded, verdicts>>

-----------------------------------------------------------------------------
(* State space.                                                            *)

\* A row is absent before it is created and deleted after; ids are not used again.
TaskStatus == {"absent", "deleted", "inbox", "planning", "awaiting_approval", "executing",
               "done", "failed", "rejected"}
LiveStatus == TaskStatus \ {"absent", "deleted"}
PlanStatus == {"absent", "pending_approval", "approved", "rejected", "superseded",
               "completed", "failed"}
JobStatus  == {"absent", "queued", "running", "done", "failed"}
Decided    == PlanStatus \ {"absent", "pending_approval"}

Task  == [status : TaskStatus, agent : AgentIds \cup {None}]
Plan  == [status : PlanStatus, task : TaskIds \cup {None}, agent : AgentIds \cup {None},
          version : Nat]
Job   == [status : JobStatus, kind : {"plan", "execute"}, task : TaskIds \cup {None},
          plan : PlanIds \cup {None}, agent : AgentIds \cup {None},
          attempts : Nat]
Agent == [present : BOOLEAN, autonomous : BOOLEAN]

Call ==
    [op : {"GetAgent"}, agent : AgentIds \cup {None}]
    \cup [op : {"SetTask"}, task : TaskIds \cup {None}, status : LiveStatus]
    \cup [op : {"UpdateTask"}, task : TaskIds, status : LiveStatus, agent : AgentIds]
    \cup [op : {"CreateJob"}, kind : {"plan", "execute"}, task : TaskIds \cup {None},
          plan : PlanIds \cup {None}, agent : AgentIds \cup {None}]
    \cup [op : {"UpdatePlan"}, plan : PlanIds, status : PlanStatus,
          verdict : Decisions \cup {None}]
    \cup [op : {"LatestPlanVersion"}, job : JobIds]
    \cup [op : {"CreatePlan"}, job : JobIds, version : Nat]
    \cup [op : {"Route"}, plan : PlanIds]
    \cup [op : {"FinishJob"}, job : JobIds, status : {"done", "failed"}]
    \cup [op : {"BuildBundle"}, job : JobIds, by : {"remote", "embedded"}]
    \cup [op : {"Requeue", "FailStale"}, job : JobIds]

TypeOK ==
    /\ tasks \in [TaskIds -> Task]
    /\ plans \in [PlanIds -> Plan]
    /\ jobs \in [JobIds -> Job]
    /\ agents \in [AgentIds -> Agent]
    /\ handlers \in [Threads -> Seq(Call)]
    /\ remote \subseteq JobIds
    /\ embedded \in [JobIds -> Nat]
    /\ verdicts \in [PlanIds -> SUBSET Decisions]

Init ==
    /\ tasks = [t \in TaskIds |-> [status |-> "absent", agent |-> None]]
    /\ plans = [p \in PlanIds |-> [status |-> "absent", task |-> None, agent |-> None,
                                   version |-> 0]]
    /\ jobs = [j \in JobIds |-> [status |-> "absent", kind |-> "plan", task |-> None,
                                 plan |-> None, agent |-> None, attempts |-> 0]]
    /\ agents \in [AgentIds -> [present : {TRUE}, autonomous : BOOLEAN]]
    /\ handlers = [h \in Threads |-> <<>>]
    /\ remote = {}
    /\ embedded = [j \in JobIds |-> 0]
    /\ verdicts = [p \in PlanIds |-> {}]

Exists(t) == tasks[t].status \in LiveStatus

Free(table) == {i \in DOMAIN table : table[i].status = "absent"}

-----------------------------------------------------------------------------
(* The functions of orchestrator.go as sequences of store calls.           *)

GetAgent(a)         == [op |-> "GetAgent", agent |-> a]
SetTask(t, s)       == [op |-> "SetTask", task |-> t, status |-> s]
UpdatePlan(p, s, v) == [op |-> "UpdatePlan", plan |-> p, status |-> s, verdict |-> v]
FinishJob(j, s)     == [op |-> "FinishJob", job |-> j, status |-> s]
CreateJob(k, t, p, a) ==
    [op |-> "CreateJob", kind |-> k, task |-> t, plan |-> p, agent |-> a]

StartTask(t, a) ==
    <<GetAgent(a), SetTask(t, "planning"), CreateJob("plan", t, None, a)>>

\* Mutant of ApprovePlan: the job is queued before the approval is written.
ApprovePlanJobFirst(p) ==
    <<CreateJob("execute", plans[p].task, p, plans[p].agent),
      UpdatePlan(p, "approved", "approve"), SetTask(plans[p].task, "executing")>>

\* Mutant of ApprovePlan: the row is saved with the status that was read.
ApprovePlanUnset(p) ==
    <<UpdatePlan(p, plans[p].status, "approve"),
      SetTask(plans[p].task, "executing"),
      GetAgent(plans[p].agent),
      CreateJob("execute", plans[p].task, p, plans[p].agent)>>

ApprovePlan(p) ==
    <<UpdatePlan(p, "approved", "approve"),
      SetTask(plans[p].task, "executing"),
      GetAgent(plans[p].agent),
      CreateJob("execute", plans[p].task, p, plans[p].agent)>>

RejectPlan(p) ==
    <<UpdatePlan(p, "rejected", "reject"), SetTask(plans[p].task, "rejected")>>

\* Mutant of RequestChanges: the task is not sent back to planning.
RequestChangesNoStatus(p) ==
    <<UpdatePlan(p, "superseded", "request_changes"),
      GetAgent(plans[p].agent),
      CreateJob("plan", plans[p].task, None, plans[p].agent)>>

RequestChanges(p) ==
    <<UpdatePlan(p, "superseded", "request_changes"),
      SetTask(plans[p].task, "planning"),
      GetAgent(plans[p].agent),
      CreateJob("plan", plans[p].task, None, plans[p].agent)>>

\* Mutant of FailJob: the job fails, the task is not told.
FailJobSilent(j) == <<FinishJob(j, "failed")>>

\* Mutant of FailJob: the plan is written without a look at whether there is one.
FailJobUnchecked(j) ==
    <<FinishJob(j, "failed"), SetTask(jobs[j].task, "failed"),
      UpdatePlan(jobs[j].plan, "failed", None)>>

\* The plan is read again before it is written, but only its status changes.
FailJob(j) ==
    <<FinishJob(j, "failed"), SetTask(jobs[j].task, "failed")>>
      \o IF jobs[j].plan = None THEN <<>> ELSE <<UpdatePlan(jobs[j].plan, "failed", None)>>

\* completePlanJob: the new plan gets the next version and is then routed.
CompletePlanJob(j) == <<[op |-> "LatestPlanVersion", job |-> j]>>

AfterCreatePlan(j, p) == <<FinishJob(j, "done"), [op |-> "Route", plan |-> p]>>

CompleteExecuteJob(j, success) ==
    <<FinishJob(j, "done"),
      UpdatePlan(jobs[j].plan, IF success THEN "completed" ELSE "failed", None),
      SetTask(jobs[j].task, IF success THEN "done" ELSE "failed")>>

\* GeneratePlan has returned an error, or a draft with steps.
Drafts(j) == {FailJob(j), CompletePlanJob(j)}

\* completeJob: by the kind of the job and what its runner reports.
Completions(j) ==
    IF jobs[j].kind = "plan"
    THEN Drafts(j)
    ELSE {FailJob(j)} \cup {CompleteExecuteJob(j, s) : s \in BOOLEAN}

-----------------------------------------------------------------------------
(* Requests. A handler starts with the calls of its function; what it has   *)
(* read before them is read in the same step.                              *)

Idle == \A h \in Threads : handlers[h] = <<>>

Begin(h, calls) ==
    /\ handlers[h] = <<>>
    /\ Overlap \/ Idle
    /\ handlers' = [handlers EXCEPT ![h] = calls]

\* A bound: a request that leads to a new plan job starts only while there are
\* rows left for the plan and the execution it may lead to, besides those that
\* the plan jobs in progress and the plans in the inbox may still need.
Room ==
    LET planning == {j \in JobIds : jobs[j].status \in {"queued", "running"}
                                    /\ jobs[j].kind = "plan"}
        waiting == {p \in PlanIds : plans[p].status = "pending_approval"}
    IN /\ Cardinality(Free(plans)) > Cardinality(planning)
       /\ Cardinality(Free(jobs)) >= 2 + Cardinality(planning) + Cardinality(waiting)

\* handleCreateTask, and delegate for the task an agent opens: with an assignee,
\* the task is started at once.
CreateTask(h, t, a) ==
    /\ t \in Free(tasks)
    /\ Room
    /\ Begin(h, IF a = None THEN <<>> ELSE StartTask(t, a))
    /\ tasks' = [tasks EXCEPT ![t] = [status |-> "inbox", agent |-> a]]
    /\ UNCHANGED <<plans, jobs, agents, remote, embedded, verdicts>>

\* Mutant of AssignTask: a task may be assigned whatever its status.
AssignTaskAnyStatus(h, t, a) ==
    /\ Exists(t)
    /\ agents[a].present
    /\ Room
    /\ Begin(h, <<[op |-> "UpdateTask", task |-> t, status |-> tasks[t].status, agent |-> a]>>
                  \o StartTask(t, a))
    /\ UNCHANGED <<tasks, plans, jobs, agents, remote, embedded, verdicts>>

\* handleAssignTask: UpdateTask writes back the whole row that was read.
AssignTask(h, t, a) ==
    /\ tasks[t].status \in {"inbox", "failed", "rejected"}
    /\ agents[a].present
    /\ Room
    /\ Begin(h, <<[op |-> "UpdateTask", task |-> t, status |-> tasks[t].status, agent |-> a]>>
                  \o StartTask(t, a))
    /\ UNCHANGED <<tasks, plans, jobs, agents, remote, embedded, verdicts>>

\* Mutant of PlanDecision: the plan need not be pending.
PlanDecisionUnchecked(h, p, d) ==
    /\ plans[p].status # "absent"
    /\ d = "request_changes" => Room
    /\ Begin(h, CASE d = "approve" -> ApprovePlan(p)
                  [] d = "reject" -> RejectPlan(p)
                  [] d = "request_changes" -> RequestChanges(p))
    /\ UNCHANGED <<tasks, plans, jobs, agents, remote, embedded, verdicts>>

\* handlePlanDecision: only the status that was read is checked.
PlanDecision(h, p, d) ==
    /\ plans[p].status = "pending_approval"
    /\ d = "request_changes" => Room
    /\ Begin(h, CASE d = "approve" -> ApprovePlan(p)
                  [] d = "reject" -> RejectPlan(p)
                  [] d = "request_changes" -> RequestChanges(p))
    /\ UNCHANGED <<tasks, plans, jobs, agents, remote, embedded, verdicts>>

\* ClaimJob by a remote or by the embedded runner, then buildBundle.
Claim(h, j, by) ==
    /\ by = "embedded" => EmbeddedOn
    /\ jobs[j].status = "queued"
    /\ Begin(h, <<[op |-> "BuildBundle", job |-> j, by |-> by]>>)
    /\ jobs' = [jobs EXCEPT ![j].status = "running", ![j].attempts = @ + 1]
    /\ UNCHANGED <<tasks, plans, agents, remote, embedded, verdicts>>

\* handleRunnerComplete: the job must be running; who runs it is not checked,
\* and a runner may report more than once.
CompleteRemote(h, j) ==
    /\ j \in remote
    /\ jobs[j].status = "running"
    /\ \E calls \in Completions(j) : Begin(h, calls)
    /\ UNCHANGED <<tasks, plans, jobs, agents, remote, embedded, verdicts>>

\* The goroutine of the embedded runner calls completeJob without a check.
CompleteEmbedded(h, j) ==
    /\ embedded[j] > 0
    /\ \E calls \in Completions(j) : Begin(h, calls)
    /\ embedded' = [embedded EXCEPT ![j] = @ - 1]
    /\ UNCHANGED <<tasks, plans, jobs, agents, remote, verdicts>>

\* applyEvent("step"), from whoever has or had the job: the plan row that was
\* read is written back, its status included.
StepEvent(h, j) ==
    /\ j \in remote \/ embedded[j] > 0
    /\ jobs[j].plan # None
    /\ Begin(h, <<UpdatePlan(jobs[j].plan, plans[jobs[j].plan].status, None)>>)
    /\ UNCHANGED <<tasks, plans, jobs, agents, remote, embedded, verdicts>>

\* Mutant of SweepJob: attempts > maxJobAttempts.
SweepJobOneMore(j) ==
    /\ jobs[j].status = "running"
    /\ Begin(Loop, IF jobs[j].attempts > MaxAttempts
                   THEN <<[op |-> "FailStale", job |-> j]>> \o FailJob(j)
                   ELSE <<[op |-> "Requeue", job |-> j]>>)
    /\ UNCHANGED <<tasks, plans, jobs, agents, remote, embedded, verdicts>>

\* RequeueStaleJobs has found j running on a runner that went offline; a job out
\* of attempts is failed, and failJob follows.
SweepJob(j) ==
    /\ jobs[j].status = "running"
    /\ Begin(Loop, IF jobs[j].attempts >= MaxAttempts
                   THEN <<[op |-> "FailStale", job |-> j]>> \o FailJob(j)
                   ELSE <<[op |-> "Requeue", job |-> j]>>)
    /\ UNCHANGED <<tasks, plans, jobs, agents, remote, embedded, verdicts>>

\* Single statements: handleDeleteTask, handleDeleteAgent, handleUpdateAgent.
DeleteTask(t) ==
    /\ Overlap \/ Idle
    /\ Exists(t)
    /\ tasks' = [tasks EXCEPT ![t].status = "deleted"]
    /\ UNCHANGED <<plans, jobs, agents, handlers, remote, embedded, verdicts>>

DeleteAgent(a) ==
    /\ AgentsLeave
    /\ Overlap \/ Idle
    /\ agents[a].present
    /\ agents' = [agents EXCEPT ![a].present = FALSE]
    /\ UNCHANGED <<tasks, plans, jobs, handlers, remote, embedded, verdicts>>

UpdateAgent(a) ==
    /\ Overlap \/ Idle
    /\ agents[a].present
    /\ agents' = [agents EXCEPT ![a].autonomous = ~@]
    /\ UNCHANGED <<tasks, plans, jobs, handlers, remote, embedded, verdicts>>

-----------------------------------------------------------------------------
(* Store calls. Each is the head of a handler; Then says what is left.      *)

At(h, op) == handlers[h] # <<>> /\ Head(handlers[h]).op = op

Then(h, calls) == handlers' = [handlers EXCEPT ![h] = calls]

DoGetAgent(h) ==
    /\ At(h, "GetAgent")
    /\ Then(h, IF agents[Head(handlers[h]).agent].present THEN Tail(handlers[h]) ELSE <<>>)
    /\ UNCHANGED <<tasks, plans, jobs, agents, remote, embedded, verdicts>>

\* SetTaskStatus, SetTaskResult: no error when the row is gone.
DoSetTask(h) ==
    /\ At(h, "SetTask")
    /\ LET c == Head(handlers[h]) IN
       tasks' = [tasks EXCEPT ![c.task].status = IF @ = "deleted" THEN @ ELSE c.status]
    /\ Then(h, Tail(handlers[h]))
    /\ UNCHANGED <<plans, jobs, agents, remote, embedded, verdicts>>

\* UpdateTask: checkAffected fails when the row is gone.
DoUpdateTask(h) ==
    /\ At(h, "UpdateTask")
    /\ LET c == Head(handlers[h]) IN
       IF ~Exists(c.task)
       THEN Then(h, <<>>) /\ UNCHANGED tasks
       ELSE /\ tasks' = [tasks EXCEPT ![c.task] = [status |-> c.status, agent |-> c.agent]]
            /\ Then(h, Tail(handlers[h]))
    /\ UNCHANGED <<plans, jobs, agents, remote, embedded, verdicts>>

DoCreateJob(h) ==
    /\ At(h, "CreateJob")
    /\ \E j \in Free(jobs) :
          /\ \A i \in Free(jobs) : j <= i
          /\ LET c == Head(handlers[h]) IN
             jobs' = [jobs EXCEPT ![j] = [status |-> "queued", kind |-> c.kind,
                                          task |-> c.task, plan |-> c.plan,
                                          agent |-> c.agent, attempts |-> 0]]
    /\ Then(h, Tail(handlers[h]))
    /\ UNCHANGED <<tasks, plans, agents, remote, embedded, verdicts>>

\* UpdatePlan writes the whole row; plans are never deleted.
DoUpdatePlan(h) ==
    /\ At(h, "UpdatePlan")
    /\ LET c == Head(handlers[h]) IN
       /\ plans' = [plans EXCEPT ![c.plan].status = c.status]
       /\ verdicts' = [verdicts EXCEPT ![c.plan] = @ \cup ({c.verdict} \ {None})]
    /\ Then(h, Tail(handlers[h]))
    /\ UNCHANGED <<tasks, jobs, agents, remote, embedded>>

\* Mutant of Versions: the maximum is taken over the plans in the inbox.
VersionsPending(t) ==
    {0} \cup {plans[p].version : p \in {q \in PlanIds : /\ plans[q].task = t
                                                     /\ plans[q].status = "pending_approval"}}

Versions(t) == {0} \cup {plans[p].version : p \in {q \in PlanIds : plans[q].task = t}}

\* SELECT MAX(version), 0 when the task has no plan.
DoLatestPlanVersion(h) ==
    /\ At(h, "LatestPlanVersion")
    /\ LET j == Head(handlers[h]).job
       IN \E latest \in Versions(jobs[j].task) :
             /\ \A v \in Versions(jobs[j].task) : v <= latest
             /\ Then(h, <<[op |-> "CreatePlan", job |-> j, version |-> latest + 1]>>)
    /\ UNCHANGED <<tasks, plans, jobs, agents, remote, embedded, verdicts>>

DoCreatePlan(h) ==
    /\ At(h, "CreatePlan")
    /\ \E p \in Free(plans) :
          /\ \A q \in Free(plans) : p <= q
          /\ LET c == Head(handlers[h]) IN
             /\ plans' = [plans EXCEPT ![p] = [status |-> "pending_approval",
                                               task |-> jobs[c.job].task,
                                               agent |-> jobs[c.job].agent,
                                               version |-> c.version]]
             /\ Then(h, AfterCreatePlan(c.job, p))
    /\ UNCHANGED <<tasks, jobs, agents, remote, embedded, verdicts>>

\* The end of completePlanJob: GetAgent, then the plans of an autonomous agent
\* are approved and the others wait for a human.
DoRoute(h) ==
    /\ At(h, "Route")
    /\ LET p == Head(handlers[h]).plan
           a == agents[plans[p].agent]
       IN Then(h, IF ~a.present THEN <<>>
                  ELSE IF a.autonomous THEN ApprovePlan(p)
                  ELSE <<SetTask(plans[p].task, "awaiting_approval")>>)
    /\ UNCHANGED <<tasks, plans, jobs, agents, remote, embedded, verdicts>>

DoFinishJob(h) ==
    /\ At(h, "FinishJob")
    /\ LET c == Head(handlers[h]) IN jobs' = [jobs EXCEPT ![c.job].status = c.status]
    /\ Then(h, Tail(handlers[h]))
    /\ UNCHANGED <<tasks, plans, agents, remote, embedded, verdicts>>

\* buildBundle reads the task, the agent, its provider and the plan; without one
\* of them the job is failed. Otherwise the runner gets the job.
DoBuildBundle(h) ==
    /\ At(h, "BuildBundle")
    /\ LET c == Head(handlers[h])
           j == c.job
           found == Exists(jobs[j].task) /\ agents[jobs[j].agent].present
       IN \/ /\ found
             /\ Then(h, <<>>)
             /\ remote' = IF c.by = "remote" THEN remote \cup {j} ELSE remote
             /\ embedded' = IF c.by = "embedded" THEN [embedded EXCEPT ![j] = @ + 1]
                            ELSE embedded
          \/ /\ ~found \/ ProvidersLeave
             /\ Then(h, FailJob(j))
             /\ UNCHANGED <<remote, embedded>>
    /\ UNCHANGED <<tasks, plans, jobs, agents, verdicts>>

\* The unguarded UPDATEs of RequeueStaleJobs.
DoRequeue(h) ==
    /\ At(h, "Requeue")
    /\ jobs' = [jobs EXCEPT ![Head(handlers[h]).job].status = "queued"]
    /\ Then(h, Tail(handlers[h]))
    /\ UNCHANGED <<tasks, plans, agents, remote, embedded, verdicts>>

DoFailStale(h) ==
    /\ At(h, "FailStale")
    /\ jobs' = [jobs EXCEPT ![Head(handlers[h]).job].status = "failed"]
    /\ Then(h, Tail(handlers[h]))
    /\ UNCHANGED <<tasks, plans, agents, remote, embedded, verdicts>>

Step(h) ==
    \/ DoGetAgent(h)
    \/ DoSetTask(h)
    \/ DoUpdateTask(h)
    \/ DoCreateJob(h)
    \/ DoUpdatePlan(h)
    \/ DoLatestPlanVersion(h)
    \/ DoCreatePlan(h)
    \/ DoRoute(h)
    \/ DoFinishJob(h)
    \/ DoBuildBundle(h)
    \/ DoRequeue(h)
    \/ DoFailStale(h)

\* The client disconnects, which cancels the context of its handler, or the
\* database returns an error: the rest of the function is not run.
Abort(h) ==
    /\ Faults
    /\ handlers[h] # <<>>
    /\ Then(h, <<>>)
    /\ UNCHANGED <<tasks, plans, jobs, agents, remote, embedded, verdicts>>

\* The process ends and starts again: handlers and goroutines are gone.
Crash ==
    /\ Faults
    /\ handlers' = [h \in Threads |-> <<>>]
    /\ embedded' = [j \in JobIds |-> 0]
    /\ UNCHANGED <<tasks, plans, jobs, agents, remote, verdicts>>

-----------------------------------------------------------------------------
Request(h) ==
    \/ \E t \in TaskIds, a \in AgentIds \cup {None} : CreateTask(h, t, a)
    \/ \E t \in TaskIds, a \in AgentIds : AssignTask(h, t, a)
    \/ \E p \in PlanIds, d \in Decisions : PlanDecision(h, p, d)
    \/ \E j \in JobIds, by \in {"remote", "embedded"} : Claim(h, j, by)
    \/ \E j \in JobIds : CompleteRemote(h, j) \/ CompleteEmbedded(h, j) \/ StepEvent(h, j)

Next ==
    \/ \E h \in Handlers : Request(h)
    \/ \E j \in JobIds : SweepJob(j)
    \/ \E h \in Threads : Step(h) \/ Abort(h)
    \/ \E t \in TaskIds : DeleteTask(t)
    \/ \E a \in AgentIds : DeleteAgent(a) \/ UpdateAgent(a)
    \/ Crash

Spec == Init /\ [][Next]_vars

\* A handler that runs goes on, some runner claims each queued job, and a runner
\* that has a job reports. Humans need not decide, and nothing else need happen.
Fairness ==
    /\ \A h \in Threads : WF_vars(Step(h))
    /\ \A j \in JobIds :
          /\ SF_vars(\E h \in Handlers, by \in {"remote", "embedded"} : Claim(h, j, by))
          /\ SF_vars(\E h \in Handlers : CompleteRemote(h, j) \/ CompleteEmbedded(h, j))

FairSpec == Spec /\ Fairness

-----------------------------------------------------------------------------
(* Safety under every interleaving and fault.                              *)

\* "you approve, amend or reject before anything executes": a job that executes
\* a plan exists only if the plan was approved, by a human or because its agent
\* is autonomous.
Gate ==
    \A j \in JobIds :
        jobs[j].status # "absent" /\ jobs[j].kind = "execute"
          => jobs[j].plan # None /\ "approve" \in verdicts[jobs[j].plan]

\* A plan that was decided never comes back to the approval inbox, although
\* step events write whole plan rows back.
DecisionSticks ==
    \A p \in PlanIds : plans[p].status = "pending_approval" => verdicts[p] = {}

(* Safety while no two handlers overlap.                                   *)

\* What is going on for a task.
Active(t) == {j \in JobIds : jobs[j].task = t /\ jobs[j].status \in {"queued", "running"}}
Pending(t) == {p \in PlanIds : plans[p].task = t /\ plans[p].status = "pending_approval"}

\* Between requests, the status of a task tells what is going on
\* (the comments on the task statuses in domain/models.go).

\* planning: "an agent is drafting a plan"
PlanningDrafts ==
    Idle => \A t \in TaskIds : tasks[t].status = "planning"
              => \E j \in Active(t) : jobs[j].kind = "plan"

\* awaiting_approval: "plan proposed, human decides"
AwaitingDecides ==
    Idle => \A t \in TaskIds : tasks[t].status = "awaiting_approval" => Pending(t) # {}

\* executing: "approved plan being executed"
ExecutingRuns ==
    Idle => \A t \in TaskIds : tasks[t].status = "executing"
              => \E j \in Active(t) : jobs[j].kind = "execute"

\* Nothing goes on for a task that is in none of these.
SettledQuiet ==
    Idle => \A t \in TaskIds : tasks[t].status \in {"inbox", "done", "failed", "rejected"}
              => Active(t) = {} /\ Pending(t) = {}

StatusTells == PlanningDrafts /\ AwaitingDecides /\ ExecutingRuns /\ SettledQuiet

\* At most one thing goes on for a task, be it deleted in the meantime: one job,
\* or one plan in the inbox, although runners report twice, report late and lose
\* their jobs to the requeue loop.
OneActivity ==
    Idle => \A t \in TaskIds : Cardinality(Active(t)) + Cardinality(Pending(t)) <= 1

\* Plan versions of a task are distinct (the inbox and the replan order by them).
VersionsDistinct ==
    \A p, q \in PlanIds :
        (/\ p # q
         /\ plans[p].status # "absent" /\ plans[q].status # "absent"
         /\ plans[p].task = plans[q].task)
          => plans[p].version # plans[q].version

(* Kept while handlers do not overlap, broken when they do (see the findings). *)

\* "only pending_approval plans can be decided": a plan is decided once.
DecidedOnce == \A p \in PlanIds : Cardinality(verdicts[p]) <= 1

-----------------------------------------------------------------------------
(* While no two handlers overlap, the tasks follow their lifecycle.         *)

Lifecycle == INSTANCE TaskLifecycle WITH status <- [t \in TaskIds |-> tasks[t].status]

LifecycleSpec == Lifecycle!FairSpec

\* A row as JobRows has it.
RowView == [j \in JobIds |->
    [status |-> IF jobs[j].status \in {"done", "failed"} THEN "ended" ELSE jobs[j].status,
     attempts |-> jobs[j].attempts]]

Rows == INSTANCE JobRows WITH rows <- RowView

\* With any number of handlers at work, the rows move as in the model of the queue: a
\* completion that is half way, the failure of a bundle and the requeue loop may meet,
\* but a row is claimed only from the queue and not more often than it may.
RowsSpec == Rows!Spec

=============================================================================
