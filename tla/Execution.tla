------------------------------ MODULE Execution ------------------------------
(***************************************************************************)
(* One execute job of an approved plan: the runs of the agent engine on it, *)
(* one for each time the job is claimed, the step events they send while   *)
(* they work, their completions, and what the control plane makes of these *)
(* in the rows of the plan, the job and the task.                          *)
(*                                                                         *)
(* A run that has lost its job to the requeue loop is not told and goes on *)
(* beside its successor. Every handler reads the plan row in one statement *)
(* and writes all of it back in another.                                   *)
(***************************************************************************)
EXTENDS Integers

CONSTANTS
    StepCount,    \* steps of the plan
    MaxAttempts,  \* maxJobAttempts
    Kinds,        \* for each attempt, the kinds of runner that may claim it
    Faults,       \* whether requests and handlers may be cut off, and the process restart
    None          \* no row, no outcome

ASSUME ExecutionAssumption ==
    /\ StepCount \in Nat
    /\ MaxAttempts \in Nat \ {0}
    /\ Kinds \in [1..MaxAttempts -> SUBSET {"remote", "embedded"}]
    /\ Faults \in BOOLEAN
    /\ None \notin {"success", "failure", "error"}
    /\ None \notin [status : {"approved", "completed", "failed"},
                    steps : [1..StepCount -> {"pending", "running", "done", "failed"}]]

Steps == 1..StepCount
Runs == 1..MaxAttempts     \* the run of each attempt
Loop == 0                  \* the requeue loop, beside the runs
Reporters == 0..MaxAttempts

VARIABLES
    job,       \* the row of jobs: status, attempts
    plan,      \* the row of plans: status, the status of each step
    task,      \* the status of the task
    runs,      \* the engine at work on each attempt
    events,    \* the step event each run waits for: on the network, or its handler
    reports,   \* the handler of a completion of each run, and failJob in the
               \* requeue loop
    swept,     \* RequeueStaleJobs has selected the job
    finished,  \* history: steps that the model of some run has answered as done
    mishap     \* history: an event was lost, or a run that had lost the job wrote

vars == <<job, plan, task, runs, events, reports, swept, finished, mishap>>

-----------------------------------------------------------------------------
(* State space.                                                            *)

StepStatus == {"pending", "running", "done", "failed"}
Ended == {"completed", "failed"}

Row == [status : {"approved", "completed", "failed"}, steps : [Steps -> StepStatus]]

\* success and failure: what ExecutePlan returns as its result; error: no result.
Outcomes == {"success", "failure", "error"}

\* todo: the steps ahead, without those that the bundle has as finished;
\* at: the step the model is asked to execute; failed: failures > 0.
Run == [pc : {"unused", "bundle", "step", "ask", "report", "over"},
        by : {"remote", "embedded"},
        todo : SUBSET Steps,
        at : 0..StepCount,
        failed : BOOLEAN,
        outcome : Outcomes \cup {None}]

\* step = 0: nothing is under way. row: what GetPlan has returned.
Event == [step : 0..StepCount, status : StepStatus, row : Row \cup {None}]

\* pc: the store call that a handler of completeJob or failJob makes next.
Report == [pc : {"idle", "finish", "task", "read", "write"},
           outcome : Outcomes, row : Row \cup {None}]

NoEvent == [step |-> 0, status |-> "pending", row |-> None]
NoReport == [pc |-> "idle", outcome |-> "error", row |-> None]

TypeOK ==
    /\ job \in [status : {"queued", "running", "done", "failed"}, attempts : 0..MaxAttempts]
    /\ plan \in Row
    /\ task \in {"executing", "done", "failed"}
    /\ runs \in [Runs -> Run]
    /\ events \in [Runs -> Event]
    /\ reports \in [Reporters -> Report]
    /\ swept \in BOOLEAN
    /\ finished \subseteq Steps
    /\ mishap \in BOOLEAN

\* A run without a step at hand or ahead.
Bare(pc, by, outcome) ==
    [pc |-> pc, by |-> by, todo |-> {}, at |-> 0, failed |-> FALSE, outcome |-> outcome]

NoRun == Bare("unused", "remote", None)
Over == Bare("over", "remote", None)

\* approvePlan has queued the job.
Init ==
    /\ job = [status |-> "queued", attempts |-> 0]
    /\ plan = [status |-> "approved", steps |-> [i \in Steps |-> "pending"]]
    /\ task = "executing"
    /\ runs = [k \in Runs |-> NoRun]
    /\ events = [k \in Runs |-> NoEvent]
    /\ reports = [h \in Reporters |-> NoReport]
    /\ swept = FALSE
    /\ finished = {}
    /\ mishap = FALSE

Quiet(k) == events[k] = NoEvent

Begun(outcome) == [pc |-> "finish", outcome |-> outcome, row |-> None]

-----------------------------------------------------------------------------
(* Claiming the job.                                                       *)

\* ClaimJob.
Claim(k, by) ==
    /\ job.status = "queued"
    /\ k = job.attempts + 1
    /\ job' = [status |-> "running", attempts |-> k]
    /\ runs' = [runs EXCEPT ![k] = Bare("bundle", by, None)]
    /\ UNCHANGED <<plan, task, events, reports, swept, finished, mishap>>

\* Mutant of Unfinished: a step that was started is not started again.
UnfinishedPending == {i \in Steps : plan.steps[i] = "pending"}

\* Mutant of Unfinished: the steps as they were approved.
UnfinishedApproved == Steps

\* The steps that a run does not skip as finished already.
Unfinished == {i \in Steps : plan.steps[i] # "done"}

\* buildBundle: GetPlan gives the run the steps as they are recorded now.
BuildBundle(k) ==
    /\ runs[k].pc = "bundle"
    /\ runs' = [runs EXCEPT ![k].pc = "step", ![k].todo = Unfinished]
    /\ UNCHANGED <<job, plan, task, events, reports, swept, finished, mishap>>

\* ExecuteJob returns.
Result(k, o) == runs' = [runs EXCEPT ![k] = Bare("report", @.by, o)]

\* buildBundle, after which llm.New fails on the provider in the bundle.
ClientFails(k) ==
    /\ runs[k].pc = "bundle"
    /\ Result(k, "error")
    /\ UNCHANGED <<job, plan, task, events, reports, swept, finished, mishap>>

\* buildBundle fails (task, agent or provider deleted), and failJob follows.
BundleFails(k) ==
    /\ runs[k].pc = "bundle"
    /\ runs' = [runs EXCEPT ![k] = Over]
    /\ reports' = [reports EXCEPT ![k] = Begun("error")]
    /\ UNCHANGED <<job, plan, task, events, swept, finished, mishap>>

-----------------------------------------------------------------------------
(* ExecutePlan. Sending an event waits until the control plane has answered *)
(* or the request has failed; either way the engine goes on.               *)

Send(k, i, s) == events' = [events EXCEPT ![k] = [step |-> i, status |-> s, row |-> None]]

StartStep(k) ==
    /\ runs[k].pc = "step"
    /\ Quiet(k)
    /\ \E i \in runs[k].todo :
          /\ \A j \in runs[k].todo : i <= j
          /\ runs' = [runs EXCEPT ![k].pc = "ask", ![k].todo = @ \ {i}, ![k].at = i]
          /\ Send(k, i, "running")
    /\ UNCHANGED <<job, plan, task, reports, swept, finished, mishap>>

\* The model answers that the step is done.
StepDone(k) ==
    /\ runs[k].pc = "ask"
    /\ Quiet(k)
    /\ runs' = [runs EXCEPT ![k].pc = "step", ![k].at = 0]
    /\ finished' = finished \cup {runs[k].at}
    /\ Send(k, runs[k].at, "done")
    /\ UNCHANGED <<job, plan, task, reports, swept, mishap>>

\* Mutant of StepFailed: the event is sent with the status of a finished step.
StepFailedAsDone(k) ==
    /\ runs[k].pc = "ask"
    /\ Quiet(k)
    /\ runs' = [runs EXCEPT ![k].pc = "step", ![k].at = 0, ![k].failed = TRUE]
    /\ Send(k, runs[k].at, "done")
    /\ UNCHANGED <<job, plan, task, reports, swept, finished, mishap>>

\* The model answers that the step has failed: the engine keeps going.
StepFailed(k) ==
    /\ runs[k].pc = "ask"
    /\ Quiet(k)
    /\ runs' = [runs EXCEPT ![k].pc = "step", ![k].at = 0, ![k].failed = TRUE]
    /\ Send(k, runs[k].at, "failed")
    /\ UNCHANGED <<job, plan, task, reports, swept, finished, mishap>>

\* completeJSON fails, after its one retry: the engine stops at this step.
StepError(k) ==
    /\ runs[k].pc = "ask"
    /\ Quiet(k)
    /\ Result(k, "failure")
    /\ Send(k, runs[k].at, "failed")
    /\ UNCHANGED <<job, plan, task, reports, swept, finished, mishap>>

\* Mutant of WrapUp: the verdict of the model counts, failed steps or not.
WrapUpTrusting(k) ==
    /\ runs[k].pc = "step"
    /\ Quiet(k)
    /\ runs[k].todo = {}
    /\ \E o \in Outcomes : Result(k, o)
    /\ UNCHANGED <<job, plan, task, events, reports, swept, finished, mishap>>

\* After the last step the model sums up: success only if no step failed in
\* this run; completeJSON may fail here too.
WrapUp(k) ==
    /\ runs[k].pc = "step"
    /\ Quiet(k)
    /\ runs[k].todo = {}
    /\ \E o \in Outcomes :
          /\ o = "success" => ~runs[k].failed
          /\ Result(k, o)
    /\ UNCHANGED <<job, plan, task, events, reports, swept, finished, mishap>>

\* handleRunnerComplete, which checks that the job is running but not for whom,
\* and which a remote runner may call again; or the goroutine of the embedded
\* runner, which calls completeJob without a check, once.
Complete(k) ==
    /\ runs[k].pc = "report"
    /\ Quiet(k)
    /\ reports[k].pc = "idle"
    /\ runs[k].by = "remote" => job.status = "running"
    /\ reports' = [reports EXCEPT ![k] = Begun(runs[k].outcome)]
    /\ runs' = [runs EXCEPT ![k] = IF @.by = "embedded" THEN Over ELSE @]
    /\ UNCHANGED <<job, plan, task, events, swept, finished, mishap>>

\* A remote runner dies, did not receive the bundle, or has no more to report.
Leave(k) ==
    /\ runs[k].by = "remote"
    /\ runs[k].pc \notin {"unused", "over"}
    /\ runs' = [runs EXCEPT ![k] = Over]
    /\ UNCHANGED <<job, plan, task, events, reports, swept, finished, mishap>>

-----------------------------------------------------------------------------
(* applyEvent("step").                                                     *)

\* The run has lost the job: it was requeued, claimed again, or has ended.
Straggler(k) == job.status # "running" \/ job.attempts # k

\* GetPlan.
ReadEvent(k) ==
    /\ events[k].step # 0 /\ events[k].row = None
    /\ events' = [events EXCEPT ![k].row = plan]
    /\ mishap' = (mishap \/ Straggler(k))
    /\ UNCHANGED <<job, plan, task, runs, reports, swept, finished>>

\* UpdatePlan of the whole row.
WriteEvent(k) ==
    /\ events[k].step # 0 /\ events[k].row # None
    /\ plan' = [status |-> events[k].row.status,
                steps |-> [events[k].row.steps EXCEPT ![events[k].step] = events[k].status]]
    /\ events' = [events EXCEPT ![k] = NoEvent]
    /\ mishap' = (mishap \/ Straggler(k))
    /\ UNCHANGED <<job, task, runs, reports, swept, finished>>

\* The event does not arrive, its handler is cut off, or the database fails.
\* Both emitters ignore the error.
LoseEvent(k) ==
    /\ Faults
    /\ events[k].step # 0
    /\ events' = [events EXCEPT ![k] = NoEvent]
    /\ mishap' = TRUE
    /\ UNCHANGED <<job, plan, task, runs, reports, swept, finished>>

-----------------------------------------------------------------------------
(* completeExecuteJob and failJob.                                         *)

\* The call that follows: failJob tells the task before it reads the plan,
\* completeExecuteJob after it has written the plan.
AfterCall(outcome) ==
    IF outcome = "error"
    THEN [finish |-> "task", task |-> "read", read |-> "write", write |-> "idle"]
    ELSE [finish |-> "read", read |-> "write", write |-> "task", task |-> "idle"]

Onward(h, pc, row) ==
    reports' = [reports EXCEPT ![h] =
                  IF pc = "idle" THEN NoReport
                  ELSE [pc |-> pc, outcome |-> @.outcome, row |-> row]]

\* FinishJob, whatever the status of the job is by now.
DoFinish(h) ==
    /\ reports[h].pc = "finish"
    /\ job' = [job EXCEPT !.status = IF reports[h].outcome = "error" THEN "failed" ELSE "done"]
    /\ Onward(h, AfterCall(reports[h].outcome).finish, None)
    /\ UNCHANGED <<plan, task, runs, events, swept, finished, mishap>>

\* SetTaskResult.
DoTask(h) ==
    /\ reports[h].pc = "task"
    /\ task' = IF reports[h].outcome = "success" THEN "done" ELSE "failed"
    /\ Onward(h, AfterCall(reports[h].outcome).task, None)
    /\ UNCHANGED <<job, plan, runs, events, swept, finished, mishap>>

\* GetPlan.
DoRead(h) ==
    /\ reports[h].pc = "read"
    /\ Onward(h, AfterCall(reports[h].outcome).read, plan)
    /\ UNCHANGED <<job, plan, task, runs, events, swept, finished, mishap>>

\* UpdatePlan of the whole row.
DoWrite(h) ==
    /\ reports[h].pc = "write"
    /\ plan' = [reports[h].row EXCEPT
                  !.status = IF reports[h].outcome = "success" THEN "completed" ELSE "failed"]
    /\ Onward(h, AfterCall(reports[h].outcome).write, None)
    /\ mishap' = (mishap \/ (h \in Runs /\ job.attempts # h))
    /\ UNCHANGED <<job, task, runs, events, swept, finished>>

\* The client disconnects or the database fails: the rest is not done.
CutOff(h) ==
    /\ Faults
    /\ reports[h].pc # "idle"
    /\ reports' = [reports EXCEPT ![h] = NoReport]
    /\ UNCHANGED <<job, plan, task, runs, events, swept, finished, mishap>>

-----------------------------------------------------------------------------
(* The requeue loop and restarts of the control plane.                     *)

\* The SELECT of RequeueStaleJobs finds the job, its runner being offline.
SweepScan ==
    /\ reports[Loop].pc = "idle"
    /\ job.status = "running"
    /\ swept' = TRUE
    /\ UNCHANGED <<job, plan, task, runs, events, reports, finished, mishap>>

\* Its UPDATE, with no regard to the status by now; requeueLoop fails the job,
\* the task and the plan when the attempts are used up.
SweepUpdate ==
    /\ swept
    /\ swept' = FALSE
    /\ IF job.attempts >= MaxAttempts
       THEN /\ job' = [job EXCEPT !.status = "failed"]
            /\ reports' = [reports EXCEPT ![Loop] = Begun("error")]
       ELSE /\ job' = [job EXCEPT !.status = "queued"]
            /\ UNCHANGED reports
    /\ UNCHANGED <<plan, task, runs, events, finished, mishap>>

\* Handlers, claims among them, and the goroutines of the embedded runner are gone.
Restart ==
    /\ Faults
    /\ runs' = [k \in Runs |-> IF \/ runs[k].pc = "bundle"
                                  \/ runs[k].by = "embedded"
                               THEN Over ELSE runs[k]]
    /\ events' = [k \in Runs |-> NoEvent]
    /\ reports' = [h \in Reporters |-> NoReport]
    /\ swept' = FALSE
    /\ mishap' = (mishap \/ \E k \in Runs : ~Quiet(k))
    /\ UNCHANGED <<job, plan, task, finished>>

-----------------------------------------------------------------------------
EngineNext(k) ==
    \/ \E by \in Kinds[k] : Claim(k, by)
    \/ BuildBundle(k)
    \/ ClientFails(k)
    \/ BundleFails(k)
    \/ StartStep(k)
    \/ StepDone(k)
    \/ StepFailed(k)
    \/ StepError(k)
    \/ WrapUp(k)
    \/ Complete(k)
    \/ Leave(k)

EventNext(k) == ReadEvent(k) \/ WriteEvent(k) \/ LoseEvent(k)

ReportNext(h) == DoFinish(h) \/ DoTask(h) \/ DoRead(h) \/ DoWrite(h) \/ CutOff(h)

Next ==
    \/ \E k \in Runs : EngineNext(k) \/ EventNext(k)
    \/ \E h \in Reporters : ReportNext(h)
    \/ SweepScan
    \/ SweepUpdate
    \/ Restart

Spec == Init /\ [][Next]_vars

-----------------------------------------------------------------------------
(* What holds whatever is lost and whoever straggles.                      *)

\* The human is told that a task is done, or a plan completed, only if every
\* step of the plan was answered as done in some run, although a run skips what
\* its bundle has as finished, bundles are read from rows that stragglers
\* overwrite, and any run may report.
WorkDone == plan.status = "completed" \/ task = "done" => finished = Steps

(* The inductive strengthening of WorkDone.                                *)

\* A row records no step as done that was not.
Honest(row) ==
    /\ \A i \in Steps : row.steps[i] = "done" => i \in finished
    /\ row.status = "completed" => finished = Steps

EventHonest(e) ==
    /\ e.row # None => Honest(e.row)
    /\ e.step # 0 /\ e.status = "done" => e.step \in finished

\* What a run without failures has neither ahead nor at hand is finished.
RunHonest(r) ==
    /\ r.pc = "ask" <=> r.at # 0
    /\ r.pc = "report" => r.outcome # None
    /\ r.pc \in {"step", "ask"} /\ ~r.failed => Steps \subseteq finished \cup r.todo \cup {r.at}
    /\ r.outcome = "success" => finished = Steps

ReportHonest(h) ==
    /\ h.pc = "write" => h.row # None
    /\ h.row # None => Honest(h.row)
    /\ h.pc # "idle" /\ h.outcome = "success" => finished = Steps

EventsHonest == \A k \in Runs : EventHonest(events[k])
RunsHonest == \A k \in Runs : RunHonest(runs[k])
ReportsHonest == \A h \in Reporters : ReportHonest(reports[h])

IInv ==
    /\ TypeOK
    /\ Honest(plan)
    /\ task = "done" => finished = Steps
    /\ EventsHonest
    /\ RunsHonest
    /\ ReportsHonest

(* What holds until the first mishap: any number of runs may have died and  *)
(* been followed by others, but none of them wrote after it lost the job.   *)

\* A completed plan shows every step as done.
StepsRecorded ==
    ~mishap /\ plan.status = "completed" => \A i \in Steps : plan.steps[i] = "done"

\* "resumed job: skip already-finished steps": what is recorded as done stays
\* so, and is in the bundle of every later run; and a plan that has ended is not
\* opened again, though every event writes the status of the plan back.
RecordStays ==
    [][~mishap' =>
         /\ \A i \in Steps : plan.steps[i] = "done" => plan'.steps[i] = "done"
         /\ plan.status \in Ended => plan'.status \in Ended]_vars

=============================================================================
