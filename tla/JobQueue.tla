------------------------------ MODULE JobQueue ------------------------------
(***************************************************************************)
(* The job queue of the control plane: the rows of the tables jobs and     *)
(* runners, the runner processes that claim jobs and report completions,   *)
(* the embedded runner inside the control plane, and the requeue loop that *)
(* takes jobs back from runners that went offline.                         *)
(*                                                                         *)
(* The database has one connection (store.Open), so each SQL statement is  *)
(* one atomic step; a handler that issues several statements takes several *)
(* steps, and the steps of all handlers interleave.                        *)
(***************************************************************************)
EXTENDS Integers, FiniteSets, Selector

CONSTANTS
    MaxJobs,      \* job rows that may be created (a bound); ids are created_at order
    Remotes,      \* ids handed out by handleRunnerRegister, one per registration
    Embedded,     \* embeddedRunnerID, the id of the in-process runner
    EmbeddedOn,   \* Config.EmbeddedRunner
    SelectorOf,   \* SelectorOf[j]: runner_selector of the agent job j is created for
    FlagOf,       \* FlagOf[r]: the --labels of the remote runner r
    MaxAttempts,  \* maxJobAttempts (3 in the code)
    ClaimWindow,  \* the LIMIT of ClaimJob's SELECT (50 in the code)
    MaxPosts,     \* completion posts of one worker (4 in the code)
    MaxRestarts,  \* restarts of the control plane (a bound)
    Lossy,        \* whether the network may lose claim responses and completions
    None          \* the empty runner_id, the missing outcome

JobIds == 1..MaxJobs
RunnerIds == Remotes \cup {Embedded}
Attempts == 1..MaxAttempts
Outcomes == {"done", "failed"}

ASSUME QueueAssumption ==
    /\ MaxJobs \in Nat
    /\ MaxAttempts \in Nat \ {0}
    /\ ClaimWindow \in Nat \ {0}
    /\ MaxPosts \in Nat \ {0}
    /\ MaxRestarts \in Nat
    /\ EmbeddedOn \in BOOLEAN
    /\ Lossy \in BOOLEAN
    /\ Embedded \notin Remotes
    /\ None \notin RunnerIds \cup Outcomes
    /\ SelectorOf \in [JobIds -> Seq(Item)]
    /\ FlagOf \in [Remotes -> Seq(Item)]

VARIABLES
    jobs,      \* table jobs: status, runner_id, attempts
    runners,   \* table runners: no row, last_seen recent, or older than the cutoff
    proc,      \* the runner processes (or goroutine) behind the runner ids
    claims,    \* the claim each runner has in progress
    work,      \* jobs being executed or reported by a runner
    calls,     \* POST .../complete requests in flight
    sweep,     \* the pass of requeueLoop in progress
    restarts   \* restarts of the control plane so far

vars == <<jobs, runners, proc, claims, work, calls, sweep, restarts>>

-----------------------------------------------------------------------------
(* State space.                                                            *)

Job == [status : {"absent", "queued", "running", "done", "failed"},
        runner : RunnerIds \cup {None},
        attempts : 0..MaxAttempts]

\* cand: rows of the SELECT still to be tried; job, att: the row that was won.
Claim == [pc : {"idle", "poll", "scan", "bundle"},
          cand : SUBSET JobIds,
          job : JobIds \cup {0},
          att : 0..MaxAttempts]

Worker == [runner : RunnerIds, job : JobIds, att : Attempts,
           outcome : Outcomes \cup {None}, posts : 0..MaxPosts]

Call == [runner : RunnerIds, job : JobIds, att : Attempts,
         outcome : Outcomes, post : 1..MaxPosts, pc : {"sent", "checked"}]

StaleRow == [job : JobIds, att : Attempts]

TypeOK ==
    /\ jobs \in [JobIds -> Job]
    /\ runners \in [RunnerIds -> {"absent", "fresh", "stale"}]
    /\ proc \in [RunnerIds -> {"unused", "up", "gone"}]
    /\ claims \in [RunnerIds -> Claim]
    /\ work \subseteq Worker
    /\ calls \subseteq Call
    /\ sweep \in [todo : SUBSET StaleRow, failed : SUBSET JobIds]
    /\ restarts \in 0..MaxRestarts

NoClaim == [pc |-> "idle", cand |-> {}, job |-> 0, att |-> 0]
NoSweep == [todo |-> {}, failed |-> {}]

Init ==
    /\ jobs = [j \in JobIds |-> [status |-> "absent", runner |-> None, attempts |-> 0]]
    /\ runners = [r \in RunnerIds |->
                    IF EmbeddedOn /\ r = Embedded THEN "fresh" ELSE "absent"]
    /\ proc = [r \in RunnerIds |->
                    IF EmbeddedOn /\ r = Embedded THEN "up" ELSE "unused"]
    /\ claims = [r \in RunnerIds |-> NoClaim]
    /\ work = {}
    /\ calls = {}
    /\ sweep = NoSweep
    /\ restarts = 0

-----------------------------------------------------------------------------
(* Producers and runner rows.                                              *)

\* Store.CreateJob: startTask, approvePlan and requestChanges append a row.
CreateJob(j) ==
    /\ jobs[j].status = "absent"
    /\ \A i \in JobIds : i < j => jobs[i].status # "absent"
    /\ jobs' = [jobs EXCEPT ![j].status = "queued"]
    /\ UNCHANGED <<runners, proc, claims, work, calls, sweep, restarts>>

\* handleRunnerRegister: UpsertRunner gives every registration a new id.
Register(r) ==
    /\ r \in Remotes
    /\ proc[r] = "unused"
    /\ proc' = [proc EXCEPT ![r] = "up"]
    /\ runners' = [runners EXCEPT ![r] = "fresh"]
    /\ UNCHANGED <<jobs, claims, work, calls, sweep, restarts>>

\* TouchRunner by the heartbeat; it fails on a deleted row.
Heartbeat(r) ==
    /\ proc[r] = "up"
    /\ runners[r] = "stale"
    /\ runners' = [runners EXCEPT ![r] = "fresh"]
    /\ UNCHANGED <<jobs, proc, claims, work, calls, sweep, restarts>>

\* Two online windows pass without a heartbeat: the process is gone, cut off
\* from the control plane, or suspended.
GoStale(r) ==
    /\ runners[r] = "fresh"
    /\ runners' = [runners EXCEPT ![r] = "stale"]
    /\ UNCHANGED <<jobs, proc, claims, work, calls, sweep, restarts>>

\* A runner process ends, or gives up its id to register again under a new one.
\* Requests it has sent are still served.
Die(r) ==
    /\ r \in Remotes
    /\ proc[r] = "up"
    /\ proc' = [proc EXCEPT ![r] = "gone"]
    /\ work' = {w \in work : w.runner # r}
    /\ UNCHANGED <<jobs, runners, claims, calls, sweep, restarts>>

\* handleDeleteRunner.
DeleteRunner(r) ==
    /\ runners[r] # "absent"
    /\ runners' = [runners EXCEPT ![r] = "absent"]
    /\ UNCHANGED <<jobs, proc, claims, work, calls, sweep, restarts>>

-----------------------------------------------------------------------------
(* Claiming: Store.ClaimJob under handleRunnerClaim (long poll of a remote  *)
(* runner) and under claimAndRunEmbedded (tick of the embedded one).       *)

\* Where a claim starts over: the long poll of a remote runner keeps polling.
Again(r) == IF r = Embedded THEN NoClaim ELSE [NoClaim EXCEPT !.pc = "poll"]

Queued == {j \in JobIds : jobs[j].status = "queued"}

\* Mutant of Window: only the oldest row is selected.
WindowOldest == {j \in Queued : \A i \in Queued : j <= i}

\* SELECT ... WHERE status='queued' ORDER BY created_at LIMIT ClaimWindow
Window == {j \in Queued : Cardinality({i \in Queued : i < j}) < ClaimWindow}

\* Column labels of the table runners; a runner has the same ones all its life.
LabelsOf(r) == IF r = Embedded THEN EmbeddedLabels ELSE RunnerLabels(FlagOf[r])

\* The column selector of a job is a copy that CreateJob makes.
Eligible(r, j) == SelectorMatches(SelectorOf[j], LabelsOf(r))

Candidates(r) == {j \in Window : Eligible(r, j)}

\* handleRunnerClaim reads the runner row once, before it starts to poll. A
\* remote runner executes one job at a time.
ClaimStart(r) ==
    /\ r \in Remotes
    /\ proc[r] = "up"
    /\ runners[r] # "absent"
    /\ claims[r].pc = "idle"
    /\ \A w \in work : w.runner # r
    /\ claims' = [claims EXCEPT ![r] = Again(r)]
    /\ UNCHANGED <<jobs, runners, proc, work, calls, sweep, restarts>>

\* TouchRunner (remote runners only) and the SELECT of ClaimJob.
ClaimSelect(r) ==
    /\ \/ r \in Remotes /\ claims[r].pc = "poll"
       \/ r = Embedded /\ proc[r] = "up" /\ claims[r].pc = "idle"
    /\ Candidates(r) # {}
    /\ claims' = [claims EXCEPT ![r].pc = "scan", ![r].cand = Candidates(r)]
    /\ runners' = [runners EXCEPT ![r] =
                     IF r \in Remotes /\ @ # "absent" THEN "fresh" ELSE @]
    /\ UNCHANGED <<jobs, proc, work, calls, sweep, restarts>>

\* Mutant of ClaimUpdate: WHERE id=?, without the status.
ClaimUpdateUnguarded(r, j) ==
    /\ claims[r].pc = "scan"
    /\ j \in claims[r].cand
    /\ jobs' = [jobs EXCEPT ![j] = [status |-> "running", runner |-> r, attempts |-> @.attempts + 1]]
    /\ claims' = [claims EXCEPT ![r] = [pc |-> "bundle", cand |-> {}, job |-> j,
                                       att |-> jobs[j].attempts + 1]]
    /\ UNCHANGED <<runners, proc, work, calls, sweep, restarts>>

\* Mutant of ClaimUpdate: no status in the WHERE, and attempts set from the row
\* that was selected, so that two claims of one queued row count once.
ClaimUpdateStaleRead(r, j) ==
    /\ claims[r].pc = "scan"
    /\ j \in claims[r].cand
    /\ LET att == IF jobs[j].status = "queued" THEN jobs[j].attempts + 1 ELSE jobs[j].attempts
       IN /\ jobs' = [jobs EXCEPT ![j] = [status |-> "running", runner |-> r, attempts |-> att]]
          /\ claims' = [claims EXCEPT ![r] = [pc |-> "bundle", cand |-> {}, job |-> j,
                                             att |-> att]]
    /\ UNCHANGED <<runners, proc, work, calls, sweep, restarts>>

\* Mutant of ClaimUpdate: runner_id is not set.
ClaimUpdateAnonymous(r, j) ==
    /\ claims[r].pc = "scan"
    /\ j \in claims[r].cand
    /\ jobs[j].status = "queued"
    /\ jobs' = [jobs EXCEPT ![j].status = "running", ![j].attempts = @ + 1]
    /\ claims' = [claims EXCEPT ![r] = [pc |-> "bundle", cand |-> {}, job |-> j,
                                       att |-> jobs[j].attempts + 1]]
    /\ UNCHANGED <<runners, proc, work, calls, sweep, restarts>>

\* One UPDATE ... WHERE id=? AND status='queued' of ClaimJob: the row is won, or
\* another runner was faster and the next candidate is tried.
ClaimUpdate(r, j) ==
    /\ claims[r].pc = "scan"
    /\ j \in claims[r].cand
    /\ \A i \in claims[r].cand : j <= i
    /\ IF jobs[j].status = "queued"
       THEN /\ jobs' = [jobs EXCEPT ![j].status = "running", ![j].runner = r,
                                    ![j].attempts = @ + 1]
            /\ claims' = [claims EXCEPT ![r] =
                            [pc |-> "bundle", cand |-> {}, job |-> j,
                             att |-> jobs[j].attempts + 1]]
       ELSE /\ claims' = [claims EXCEPT ![r].cand = @ \ {j}]
            /\ UNCHANGED jobs
    /\ UNCHANGED <<runners, proc, work, calls, sweep, restarts>>

\* ErrNotFound after all candidates were lost.
ClaimMiss(r) ==
    /\ claims[r].pc = "scan"
    /\ claims[r].cand = {}
    /\ claims' = [claims EXCEPT ![r] = Again(r)]
    /\ UNCHANGED <<jobs, runners, proc, work, calls, sweep, restarts>>

\* The deadline of the long poll, or its request context is cancelled.
ClaimEnd(r) ==
    /\ claims[r].pc = "poll"
    /\ claims' = [claims EXCEPT ![r] = NoClaim]
    /\ UNCHANGED <<jobs, runners, proc, work, calls, sweep, restarts>>

\* The bundle is built and reaches the runner, which starts ExecuteJob.
ClaimDeliver(r) ==
    /\ claims[r].pc = "bundle"
    /\ proc[r] = "up"
    /\ claims' = [claims EXCEPT ![r] = NoClaim]
    /\ work' = work \cup {[runner |-> r, job |-> claims[r].job, att |-> claims[r].att,
                           outcome |-> None, posts |-> 0]}
    /\ UNCHANGED <<jobs, runners, proc, calls, sweep, restarts>>

\* The response of the claim is lost on its way to a remote runner.
ClaimLost(r) ==
    /\ r \in Remotes
    /\ claims[r].pc = "bundle"
    /\ Lossy \/ proc[r] = "gone"
    /\ claims' = [claims EXCEPT ![r] = NoClaim]
    /\ UNCHANGED <<jobs, runners, proc, work, calls, sweep, restarts>>

\* buildBundle fails (agent or provider deleted): failJob, then poll on.
ClaimUnbuildable(r) ==
    /\ claims[r].pc = "bundle"
    /\ jobs' = [jobs EXCEPT ![claims[r].job].status = "failed"]
    /\ claims' = [claims EXCEPT ![r] = Again(r)]
    /\ UNCHANGED <<runners, proc, work, calls, sweep, restarts>>

-----------------------------------------------------------------------------
(* Executing and completing.                                               *)

\* Remote.complete: ExecuteJob has returned an outcome (failures are folded into
\* it) and the runner posts it, or posts it again after an error.
Post(r) ==
    /\ r \in Remotes
    /\ \E w \in work, o \in Outcomes :
          /\ w.runner = r
          /\ w.outcome \in {None, o}
          /\ w.posts < MaxPosts
          /\ work' = (work \ {w}) \cup {[w EXCEPT !.outcome = o, !.posts = @ + 1]}
          /\ calls' = calls \cup {[runner |-> r, job |-> w.job, att |-> w.att,
                                   outcome |-> o, post |-> w.posts + 1, pc |-> "sent"]}
    /\ UNCHANGED <<jobs, runners, proc, claims, sweep, restarts>>

\* The last post failed: the error is logged and the runner claims again.
GiveUp(r) ==
    /\ r \in Remotes
    /\ \E w \in work :
          /\ w.runner = r
          /\ w.posts = MaxPosts
          /\ Lossy \/ \A c \in calls : c.runner # r
          /\ work' = work \ {w}
    /\ UNCHANGED <<jobs, runners, proc, claims, calls, sweep, restarts>>

\* A completion request is lost before it reaches the server, or its handler is
\* cut off before FinishJob: a disconnect cancels its context.
CallLost(c) ==
    /\ Lossy
    /\ calls' = calls \ {c}
    /\ UNCHANGED <<jobs, runners, proc, claims, work, sweep, restarts>>

\* handleRunnerComplete: GetJob and the check of its status. The name of the
\* caller is not compared with the runner of the row.
CompleteCheck(c) ==
    /\ c.pc = "sent"
    /\ calls' = IF jobs[c.job].status = "running"
                THEN (calls \ {c}) \cup {[c EXCEPT !.pc = "checked"]}
                ELSE calls \ {c}
    /\ UNCHANGED <<jobs, runners, proc, claims, work, sweep, restarts>>

\* completeJob: FinishJob, which has no guard. The acknowledgement ends the
\* retries of the runner that waits for this very post, or is lost.
CompleteFinish(c) ==
    /\ c.pc = "checked"
    /\ jobs' = [jobs EXCEPT ![c.job].status = c.outcome]
    /\ calls' = calls \ {c}
    /\ LET waiting == {w \in work : /\ w.runner = c.runner /\ w.job = c.job
                                    /\ w.att = c.att /\ w.posts = c.post}
       IN \/ work' = work \ waiting
          \/ Lossy /\ work' = work
    /\ UNCHANGED <<runners, proc, claims, sweep, restarts>>

\* Mutant of EmbeddedFinish: a failed job is put back to be retried.
EmbeddedFinishRetries ==
    /\ \E w \in work, s \in {"done", "queued"} :
          /\ w.runner = Embedded
          /\ work' = work \ {w}
          /\ jobs' = [jobs EXCEPT ![w.job].status = s]
    /\ UNCHANGED <<runners, proc, claims, calls, sweep, restarts>>

\* The goroutine of claimAndRunEmbedded: ExecuteJob, then completeJob at once,
\* with no check of the job's status.
EmbeddedFinish ==
    /\ \E w \in work, o \in Outcomes :
          /\ w.runner = Embedded
          /\ work' = work \ {w}
          /\ jobs' = [jobs EXCEPT ![w.job].status = o]
    /\ UNCHANGED <<runners, proc, claims, calls, sweep, restarts>>

-----------------------------------------------------------------------------
(* The requeue loop and restarts of the control plane.                     *)

\* Mutant of Stale: only jobs whose runner has no row are taken back.
StaleOnlyAbsent(j) ==
    /\ jobs[j].status = "running"
    /\ runners[jobs[j].runner] = "absent"

\* running, and no runner row or one last seen before the cutoff
Stale(j) ==
    /\ jobs[j].status = "running"
    /\ runners[jobs[j].runner] \in {"absent", "stale"}

\* RequeueStaleJobs: the SELECT. A pass that finds nothing changes nothing.
SweepScan ==
    /\ sweep = NoSweep
    /\ \E j \in JobIds : Stale(j)
    /\ sweep' = [sweep EXCEPT !.todo =
                   {[job |-> j, att |-> jobs[j].attempts] : j \in {i \in JobIds : Stale(i)}}]
    /\ UNCHANGED <<jobs, runners, proc, claims, work, calls, restarts>>

\* Mutant of SweepUpdate: attempts > maxJobAttempts.
SweepUpdateOneMore(x) ==
    /\ x \in sweep.todo
    /\ IF x.att > MaxAttempts
       THEN /\ jobs' = [jobs EXCEPT ![x.job].status = "failed"]
            /\ sweep' = [todo |-> sweep.todo \ {x}, failed |-> sweep.failed \cup {x.job}]
       ELSE /\ jobs' = [jobs EXCEPT ![x.job].status = "queued", ![x.job].runner = None]
            /\ sweep' = [sweep EXCEPT !.todo = @ \ {x}]
    /\ UNCHANGED <<runners, proc, claims, work, calls, restarts>>

\* Mutant of SweepUpdate: attempts + 1 >= maxJobAttempts.
SweepUpdateOneLess(x) ==
    /\ x \in sweep.todo
    /\ IF x.att + 1 >= MaxAttempts
       THEN /\ jobs' = [jobs EXCEPT ![x.job].status = "failed"]
            /\ sweep' = [todo |-> sweep.todo \ {x}, failed |-> sweep.failed \cup {x.job}]
       ELSE /\ jobs' = [jobs EXCEPT ![x.job].status = "queued", ![x.job].runner = None]
            /\ sweep' = [sweep EXCEPT !.todo = @ \ {x}]
    /\ UNCHANGED <<runners, proc, claims, work, calls, restarts>>

\* RequeueStaleJobs: one UPDATE, decided by the attempts the SELECT returned
\* and not guarded by the row's present status.
SweepUpdate(x) ==
    /\ x \in sweep.todo
    /\ IF x.att >= MaxAttempts
       THEN /\ jobs' = [jobs EXCEPT ![x.job].status = "failed"]
            /\ sweep' = [todo |-> sweep.todo \ {x}, failed |-> sweep.failed \cup {x.job}]
       ELSE /\ jobs' = [jobs EXCEPT ![x.job].status = "queued", ![x.job].runner = None]
            /\ sweep' = [sweep EXCEPT !.todo = @ \ {x}]
    /\ UNCHANGED <<runners, proc, claims, work, calls, restarts>>

\* requeueLoop: GetJob and failJob for each job that was failed for good.
SweepFail(j) ==
    /\ sweep.todo = {}
    /\ j \in sweep.failed
    /\ jobs' = [jobs EXCEPT ![j].status = "failed"]
    /\ sweep' = [sweep EXCEPT !.failed = @ \ {j}]
    /\ UNCHANGED <<runners, proc, claims, work, calls, restarts>>

\* The control plane stops and starts again: handlers, goroutines and the pass
\* of the requeue loop are gone, the tables stay, and runEmbeddedRunner
\* registers again under the same id.
Restart ==
    /\ restarts < MaxRestarts
    /\ restarts' = restarts + 1
    /\ claims' = [r \in RunnerIds |-> NoClaim]
    /\ calls' = {}
    /\ sweep' = NoSweep
    /\ work' = {w \in work : w.runner # Embedded}
    /\ runners' = [runners EXCEPT ![Embedded] = IF EmbeddedOn THEN "fresh" ELSE @]
    /\ UNCHANGED <<jobs, proc>>

-----------------------------------------------------------------------------
ClaimNext(r) ==
    \/ ClaimStart(r)
    \/ ClaimSelect(r)
    \/ \E j \in JobIds : ClaimUpdate(r, j)
    \/ ClaimMiss(r)
    \/ ClaimEnd(r)
    \/ ClaimDeliver(r)
    \/ ClaimLost(r)
    \/ ClaimUnbuildable(r)

RunnerNext(r) ==
    \/ Register(r)
    \/ Heartbeat(r)
    \/ GoStale(r)
    \/ Die(r)
    \/ DeleteRunner(r)
    \/ ClaimNext(r)
    \/ Post(r)
    \/ GiveUp(r)

CallNext == \E c \in calls : CallLost(c) \/ CompleteCheck(c) \/ CompleteFinish(c)

SweepNext ==
    \/ SweepScan
    \/ \E x \in sweep.todo : SweepUpdate(x)
    \/ \E j \in sweep.failed : SweepFail(j)

Next ==
    \/ \E j \in JobIds : CreateJob(j)
    \/ \E r \in RunnerIds : RunnerNext(r)
    \/ CallNext
    \/ EmbeddedFinish
    \/ SweepNext
    \/ Restart

Spec == Init /\ [][Next]_vars

\* What the scheduling of the program justifies: the ticker of the requeue loop
\* and the loops of live runners keep running, ExecuteJob returns (the LLM client
\* has a timeout), a request that is neither lost nor cut by a restart is served,
\* the row of a dead runner ages, and a silent live runner is heard again.
\* Nothing is assumed about registrations, deaths, losses or restarts.
Fairness ==
    /\ WF_vars(SweepScan)
    /\ \A j \in JobIds : WF_vars(\E x \in sweep.todo : x.job = j /\ SweepUpdate(x))
    /\ \A j \in JobIds : WF_vars(SweepFail(j))
    /\ \A r \in RunnerIds :
          /\ WF_vars(proc[r] = "gone" /\ GoStale(r))
          /\ WF_vars(Heartbeat(r))
          /\ WF_vars(ClaimStart(r))
          /\ WF_vars(ClaimSelect(r))
          /\ WF_vars(\E j \in JobIds : ClaimUpdate(r, j))
          /\ WF_vars(ClaimMiss(r))
          /\ WF_vars(ClaimDeliver(r) \/ ClaimLost(r) \/ ClaimUnbuildable(r))
          /\ WF_vars(Post(r))
          /\ WF_vars(GiveUp(r))
    /\ WF_vars(EmbeddedFinish)
    /\ \A j \in JobIds :
          WF_vars(\E c \in calls : c.job = j /\ (CompleteCheck(c) \/ CompleteFinish(c)))

FairSpec == Spec /\ Fairness

-----------------------------------------------------------------------------
(* Safety.                                                                 *)

\* The runners that have won a job and wait for its bundle. They and the workers
\* are the holders of an attempt of a job.
Bundled == {r \in RunnerIds : claims[r].pc = "bundle"}

\* A job is started at most maxJobAttempts times: one that has used its attempts
\* is never in the queue again, whatever claims, completions and sweeps raced.
\* (RequeueStaleJobs decides with the attempts its SELECT returned.)
AttemptsBounded ==
    \A j \in JobIds : jobs[j].status = "queued" => jobs[j].attempts < MaxAttempts

\* ClaimJob hands one attempt of a job to one runner: no two workers, no two
\* bundles, and no bundle beside a worker, hold the same attempt.
OneHolderPerAttempt ==
    /\ \A v, w \in work : v.job = w.job /\ v.att = w.att => v = w
    /\ \A q, r \in Bundled :
          claims[q].job = claims[r].job /\ claims[q].att = claims[r].att => q = r
    /\ \A w \in work, r \in Bundled : ~(w.job = claims[r].job /\ w.att = claims[r].att)

\* The row names who has the job: while a job runs, the holder of its last
\* attempt is the runner its row names, so the sweep judges the right runner.
HolderIsNamed ==
    /\ \A w \in work :
          jobs[w.job].status = "running" /\ jobs[w.job].attempts = w.att
            => jobs[w.job].runner = w.runner
    /\ \A r \in Bundled : LET j == claims[r].job IN
          jobs[j].status = "running" /\ jobs[j].attempts = claims[r].att
            => jobs[j].runner = r

\* requeueLoop fails a job for good only after maxJobAttempts attempts
\* (the comment on maxJobAttempts), and no claim gets hold of such a job again.
FailedForGood ==
    \A j \in sweep.failed :
        jobs[j].attempts = MaxAttempts /\ jobs[j].status \notin {"absent", "queued"}

\* "Jobs from agents with a runner selector only match runners whose labels satisfy
\* it": whoever a row names carries all pairs of the selector.
HolderFits ==
    \A j \in JobIds : jobs[j].runner # None =>
        Carries(LabelsOf(jobs[j].runner), SelectorOf[j])

(* The inductive strengthening of the first four invariants above.         *)

\* What the SELECT of the sweep returned stays true of the attempts until the
\* UPDATE: the row cannot be queued and claimed again in between.
SnapshotExact ==
    \A x \in sweep.todo :
        jobs[x.job].attempts = x.att /\ jobs[x.job].status \notin {"absent", "queued"}

\* No holder is ahead of the attempts counted in the row.
HoldersCounted ==
    /\ \A w \in work : w.att <= jobs[w.job].attempts
    /\ \A r \in Bundled :
          /\ claims[r].job \in JobIds
          /\ claims[r].att \in Attempts
          /\ claims[r].att <= jobs[claims[r].job].attempts

\* Attempts are counted by claims.
ClaimsCounted ==
    \A j \in JobIds :
        /\ jobs[j].status = "absent" => jobs[j].attempts = 0
        /\ jobs[j].status = "running" => jobs[j].attempts > 0

IInv ==
    /\ TypeOK
    /\ AttemptsBounded
    /\ OneHolderPerAttempt
    /\ HolderIsNamed
    /\ FailedForGood
    /\ SnapshotExact
    /\ HoldersCounted
    /\ ClaimsCounted

(* A statement of the repository that a race breaks (see the findings).    *)

\* RequeueStaleJobs "returns running jobs ... back to the queue": only a running
\* job enters the queue again.
RequeueOnlyRunning ==
    [][\A j \in JobIds :
          jobs'[j].status = "queued" => jobs[j].status \in {"absent", "queued", "running"}]_vars

-----------------------------------------------------------------------------
(* What the rows promise, whatever handlers and runners do.                *)

\* A row as JobRows has it.
RowView == [j \in JobIds |->
    [status |-> IF jobs[j].status \in Outcomes THEN "ended" ELSE jobs[j].status,
     attempts |-> jobs[j].attempts]]

Rows == INSTANCE JobRows WITH rows <- RowView

\* The requeue loop decides by a row it has read earlier, and completions are written
\* whatever has become of the job: still each row is claimed only from the queue, each
\* claim is counted, and one that has used its attempts is never queued again.
RowsSpec == Rows!Spec

-----------------------------------------------------------------------------
(* Liveness.                                                               *)

\* "Jobs whose runner dies are requeued automatically": a job does not stay
\* running in the name of a runner process that is gone.
DeadRunnerReleased ==
    \A j \in JobIds, r \in Remotes :
        (jobs[j].status = "running" /\ jobs[j].runner = r /\ proc[r] = "gone")
          ~> ~(jobs[j].status = "running" /\ jobs[j].runner = r)

\* A queued job that the embedded runner may run is done or failed in the end,
\* whoever claims it, dies with it and reports it.
EveryJobSettles ==
    \A j \in JobIds :
        (jobs[j].status = "queued" /\ Eligible(Embedded, j))
          ~> jobs[j].status \in Outcomes

\* "losing a completion strands the job until requeue": a job whose runner has
\* finished it and reports, or has given up reporting, does not run for ever.
ReportedEnds ==
    \A j \in JobIds :
        (jobs[j].status = "running" /\ \E w \in work : w.job = j /\ w.outcome # None)
          ~> jobs[j].status # "running"

\* Every claimed job is done, failed or back in the queue in the end.
RunningEnds ==
    \A j \in JobIds : jobs[j].status = "running" ~> jobs[j].status # "running"

=============================================================================
