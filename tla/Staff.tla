------------------------------- MODULE Staff -------------------------------
(***************************************************************************)
(* The rows of the table agents: the status that says whether an agent     *)
(* works, and the counters of its tokens and finished tasks. Many handlers *)
(* write them: the claim of a job, usage events, completions, the hiring   *)
(* desk. The status is one flag for all jobs of the agent, and             *)
(* pickTeamAgent assigns new tasks by it.                                  *)
(*                                                                         *)
(* A run is the execution of one claim. Each SQL statement is one step.    *)
(***************************************************************************)
EXTENDS Integers

CONSTANTS
    MaxAgents,    \* agents that may be hired (a bound); ids are created_at order
    MaxJobs,      \* job rows that may be created (a bound)
    MaxRuns,      \* claims that may be made (a bound)
    MaxAttempts,  \* maxJobAttempts (3 in the code)
    MaxCalls,     \* MaxCalls[r]: answers of the model in the r-th run (a bound)
    MaxPosts,     \* completion posts of one run (4 in the code)
    MaxUpsets,    \* what may go wrong or come in between, in number (a bound)
    Kinds,        \* Kinds[r]: the kinds of runner that may make the r-th claim
    Editors,      \* handlers of handleUpdateAgent that may be open
    None          \* no agent, no job, no run

Agents == 1..MaxAgents
Jobs == 1..MaxJobs
Runs == 1..MaxRuns

ASSUME StaffAssumption ==
    /\ MaxAgents \in Nat
    /\ MaxJobs \in Nat
    /\ MaxRuns \in Nat
    /\ MaxAttempts \in Nat \ {0}
    /\ MaxCalls \in [Runs -> Nat]
    /\ MaxPosts \in Nat \ {0}
    /\ MaxUpsets \in Nat
    /\ Kinds \in [Runs -> SUBSET {"remote", "embedded"}]
    /\ None \notin Agents \cup Jobs \cup Runs

VARIABLES
    staff,    \* table agents: whether the row is there, status
    usage,    \* tokens_in + tokens_out of the agent, split by the run that used them
    credit,   \* tasks_done of the agent, split by the run that was counted
    jobs,     \* table jobs: status, agent_id, attempts, the run it was claimed for
    runs,     \* claim handlers and the engines they have started
    reports,  \* the completion handler of each run: the statement it makes next
    swept,    \* jobs between the SELECT and the UPDATE of RequeueStaleJobs
    desk,     \* what pickTeamAgent has chosen for a task that is being created
    edits,    \* the row each open handleUpdateAgent has read
    stuck,    \* history: agents left working by a step that nobody makes good
    mixed,    \* history: agents with two jobs at once, or an overwritten status
    upsets    \* forms, deletions, losses, deaths, cuts and sweeps so far

vars == <<staff, usage, credit, jobs, runs, reports, swept, desk, edits, stuck, mixed, upsets>>

-----------------------------------------------------------------------------
(* State space.                                                            *)

Statuses == {"idle", "working"}
Member == [row : {"absent", "there", "gone"}, status : Statuses]

Job == [status : {"absent", "queued", "running", "ended"}, agent : Agents \cup {None},
        attempts : 0..MaxAttempts, run : Runs \cup {None}]

\* claimed: the bundle is to be built and the agent marked; ask: the engine works;
\* usage: it sends a usage event; post: it reports; over: it has reported; left: it
\* has gone without a report.
Run == [pc : {"none", "claimed", "ask", "usage", "post", "over", "left"},
        kind : {"remote", "embedded"}, job : Jobs \cup {None},
        calls : Nat, lost : Nat, posts : 0..MaxPosts]

Edit == [agent : Agents \cup {None}, status : Statuses]

TypeOK ==
    /\ staff \in [Agents -> Member]
    /\ usage \in [Runs -> Nat]
    /\ credit \in [Runs -> Nat]
    /\ jobs \in [Jobs -> Job]
    /\ runs \in [Runs -> Run]
    /\ reports \in [Runs -> {"none", "check", "finish", "count", "rest"}]
    /\ swept \subseteq Jobs
    /\ desk \in Agents \cup {None}
    /\ edits \in [Editors -> Edit]
    /\ stuck \subseteq Agents
    /\ mixed \subseteq Agents
    /\ upsets \in 0..MaxUpsets

NoEdit == [agent |-> None, status |-> "idle"]

Init ==
    /\ staff = [a \in Agents |-> [row |-> "absent", status |-> "idle"]]
    /\ usage = [r \in Runs |-> 0]
    /\ credit = [r \in Runs |-> 0]
    /\ jobs = [j \in Jobs |->
                 [status |-> "absent", agent |-> None, attempts |-> 0, run |-> None]]
    /\ runs = [r \in Runs |->
                 [pc |-> "none", kind |-> "remote", job |-> None, calls |-> 0, lost |-> 0, posts |-> 0]]
    /\ reports = [r \in Runs |-> "none"]
    /\ swept = {}
    /\ desk = None
    /\ edits = [e \in Editors |-> NoEdit]
    /\ stuck = {}
    /\ mixed = {}
    /\ upsets = 0

-----------------------------------------------------------------------------
(* Vocabulary.                                                             *)

There(a) == staff[a].row = "there"
Working(a) == There(a) /\ staff[a].status = "working"

\* The agent a run works for: agent_id of its job.
AgentOf(r) == jobs[runs[r].job].agent

Started(r) == runs[r].pc # "none"

\* The completion of r ends, or has ended, its job, and the status is still to be reset.
Ending(r) == reports[r] \in {"finish", "count", "rest"}

RunningFor(a) == {j \in Jobs : jobs[j].status = "running" /\ jobs[j].agent = a}

Busy(a) ==
    \/ RunningFor(a) # {}
    \/ \E r \in Runs : Ending(r) /\ AgentOf(r) = a

\* Store.SetAgentStatus: no effect, and no error, when the row is gone.
SetStatus(a, s) == [staff EXCEPT ![a].status = IF There(a) THEN s ELSE @]

Upset == upsets < MaxUpsets /\ upsets' = upsets + 1

\* The status is left as it is by a step that ends what it stands for.
Strand(a, cond) == stuck' = IF cond /\ Working(a) THEN stuck \cup {a} ELSE stuck

-----------------------------------------------------------------------------
(* The hiring desk.                                                        *)

\* handleCreateAgent: the row starts idle, with counters at zero.
Hire(a) ==
    /\ staff[a].row = "absent"
    /\ \A b \in Agents : b < a => staff[b].row # "absent"
    /\ staff' = [staff EXCEPT ![a].row = "there"]
    /\ UNCHANGED <<usage, credit, jobs, runs, reports, swept, desk, edits, stuck, mixed, upsets>>

\* handleDeleteAgent: nothing is asked about its jobs.
DeleteAgent(a) ==
    /\ Upset
    /\ There(a)
    /\ staff' = [staff EXCEPT ![a].row = "gone"]
    /\ UNCHANGED <<usage, credit, jobs, runs, reports, swept, desk, edits, stuck, mixed>>

\* handleUpdateAgent: GetAgent. (If validateAgentInput refuses the input, nothing follows.)
EditRead(e, a) ==
    /\ Upset
    /\ edits[e].agent = None
    /\ There(a)
    /\ edits' = [edits EXCEPT ![e] = [agent |-> a, status |-> staff[a].status]]
    /\ UNCHANGED <<staff, usage, credit, jobs, runs, reports, swept, desk, stuck, mixed>>

\* Mutant of EditWrite: the row is built from the input, and all columns are written.
EditWriteAll(e) ==
    LET a == edits[e].agent
        s == edits[e].status
    IN /\ a # None
       /\ edits' = [edits EXCEPT ![e] = NoEdit]
       /\ staff' = SetStatus(a, s)
       /\ stuck' = IF There(a) /\ s = "working" /\ staff[a].status = "idle"
                   THEN stuck \cup {a} ELSE stuck
       /\ mixed' = IF There(a) /\ s = "idle" /\ staff[a].status = "working"
                   THEN mixed \cup {a} ELSE mixed
       /\ usage' = [r \in Runs |-> IF Started(r) /\ AgentOf(r) = a THEN 0 ELSE usage[r]]
       /\ UNCHANGED <<credit, jobs, runs, reports, swept, desk, upsets>>

\* UpdateAgent: the status that was read is written back, the counters are not.
EditWrite(e) ==
    LET a == edits[e].agent
        s == edits[e].status
    IN /\ a # None
       /\ edits' = [edits EXCEPT ![e] = NoEdit]
       /\ staff' = SetStatus(a, s)
       /\ stuck' = IF There(a) /\ s = "working" /\ staff[a].status = "idle"
                   THEN stuck \cup {a} ELSE stuck
       /\ mixed' = IF There(a) /\ s = "idle" /\ staff[a].status = "working"
                   THEN mixed \cup {a} ELSE mixed
       /\ UNCHANGED <<usage, credit, jobs, runs, reports, swept, desk, upsets>>

-----------------------------------------------------------------------------
(* Jobs for agents.                                                        *)

Team == {a \in Agents : There(a)}

\* Mutant of Chosen: the first of the team.
ChosenFirst == {a \in Team : \A b \in Team : a <= b}

\* pickTeamAgent: the first idle one of ListAgentsByTeam, or else the first.
Chosen ==
    LET idle == {a \in Team : staff[a].status = "idle"}
        pool == IF idle = {} THEN Team ELSE idle
    IN {a \in pool : \A b \in pool : a <= b}

\* handleCreateTask for a team: auto-assignment.
Pick ==
    /\ desk = None
    /\ \E j \in Jobs : jobs[j].status = "absent"
    /\ \E a \in Chosen : desk' = a
    /\ UNCHANGED <<staff, usage, credit, jobs, runs, reports, swept, edits, stuck, mixed, upsets>>

NewJob(j, a) ==
    /\ jobs[j].status = "absent"
    /\ \A i \in Jobs : i < j => jobs[i].status # "absent"
    /\ jobs' = [jobs EXCEPT ![j].status = "queued", ![j].agent = a]

\* startTask for the agent that was picked: its GetAgent fails if the row is gone.
StartPicked ==
    /\ desk # None
    /\ desk' = None
    /\ IF There(desk) THEN \E j \in Jobs : NewJob(j, desk) ELSE UNCHANGED jobs
    /\ UNCHANGED <<staff, usage, credit, runs, reports, swept, edits, stuck, mixed, upsets>>

\* startTask, approvePlan, requestChanges for a task that has an agent.
CreateJob(j, a) ==
    /\ desk = None
    /\ There(a)
    /\ NewJob(j, a)
    /\ UNCHANGED <<staff, usage, credit, runs, reports, swept, desk, edits, stuck, mixed, upsets>>

-----------------------------------------------------------------------------
(* The claim.                                                              *)

\* ClaimJob. The status of the agent is not written yet.
Claim(r, j, k) ==
    /\ runs[r].pc = "none"
    /\ \A q \in Runs : q < r => Started(q)
    /\ jobs[j].status = "queued"
    /\ jobs' = [jobs EXCEPT ![j].status = "running", ![j].attempts = @ + 1, ![j].run = r]
    /\ runs' = [runs EXCEPT ![r].pc = "claimed", ![r].job = j, ![r].kind = k]
    /\ mixed' = IF Busy(jobs[j].agent) THEN mixed \cup {jobs[j].agent} ELSE mixed
    /\ UNCHANGED <<staff, usage, credit, reports, swept, desk, edits, stuck, upsets>>

\* buildBundle fails (agent, provider or plan is gone): failJob, which does not
\* look whose job it is by now. The status is not touched.
Unbuildable(r) ==
    /\ runs[r].pc = "claimed"
    /\ runs' = [runs EXCEPT ![r].pc = "over"]
    /\ jobs' = [jobs EXCEPT ![runs[r].job].status = "ended"]
    /\ Strand(AgentOf(r), jobs[runs[r].job].run # r)
    /\ UNCHANGED <<staff, usage, credit, reports, swept, desk, edits, mixed, upsets>>

\* buildBundle, for an agent that is there, and onJobClaimed; then the bundle is
\* handed to the engine. (A deletion in between has the effect of one after it.)
Mark(r) ==
    /\ runs[r].pc = "claimed"
    /\ There(AgentOf(r))
    /\ runs' = [runs EXCEPT ![r].pc = "ask"]
    /\ staff' = SetStatus(AgentOf(r), "working")
    /\ LET job == jobs[runs[r].job] IN
         stuck' = IF ~(job.status = "running" /\ job.run = r)
                  THEN stuck \cup {job.agent} ELSE stuck
    /\ UNCHANGED <<usage, credit, jobs, reports, swept, desk, edits, mixed, upsets>>

-----------------------------------------------------------------------------
(* The engine.                                                             *)

\* client.Complete has answered in completeJSON.
Complete(r) ==
    /\ runs[r].pc = "ask"
    /\ runs[r].calls < MaxCalls[r]
    /\ runs' = [runs EXCEPT ![r].pc = "usage", ![r].calls = @ + 1]
    /\ UNCHANGED <<staff, usage, credit, jobs, reports, swept, desk, edits, stuck, mixed, upsets>>

\* em.Usage, applyEvent, AddAgentUsage. The status of the job is not looked at.
AddUsage(r) ==
    /\ runs[r].pc = "usage"
    /\ runs' = [runs EXCEPT ![r].pc = "ask"]
    /\ usage' = [usage EXCEPT ![r] = IF There(AgentOf(r)) THEN @ + 1 ELSE @]
    /\ UNCHANGED <<staff, credit, jobs, reports, swept, desk, edits, stuck, mixed, upsets>>

\* The event is not delivered or not applied: remoteEmitter.send only logs it.
LoseUsage(r) ==
    /\ Upset
    /\ runs[r].pc = "usage"
    /\ runs' = [runs EXCEPT ![r].pc = "ask", ![r].lost = @ + 1]
    /\ UNCHANGED <<staff, usage, credit, jobs, reports, swept, desk, edits, stuck, mixed>>

\* Mutant of Return: an error of the engine is not reported.
ReturnSilent(r) ==
    /\ runs[r].pc = "ask"
    /\ \E next \in {"post", "over"} : runs' = [runs EXCEPT ![r].pc = next]
    /\ UNCHANGED <<staff, usage, credit, jobs, reports, swept, desk, edits, stuck, mixed, upsets>>

\* ExecuteJob returns; errors of the model are folded into the completion. The
\* embedded runner calls completeJob at once, a remote one posts.
Return(r) ==
    /\ runs[r].pc = "ask"
    /\ IF runs[r].kind = "embedded"
       THEN /\ runs' = [runs EXCEPT ![r].pc = "over"]
            /\ reports' = [reports EXCEPT ![r] = "finish"]
            /\ mixed' = IF jobs[runs[r].job].status = "running"
                        THEN mixed ELSE mixed \cup {AgentOf(r)}
       ELSE /\ runs' = [runs EXCEPT ![r].pc = "post"]
            /\ UNCHANGED <<reports, mixed>>
    /\ UNCHANGED <<staff, usage, credit, jobs, swept, desk, edits, stuck, upsets>>

\* The claim handler is cut off, its response is lost, or the runner dies.
Leave(r) ==
    /\ Upset
    /\ runs[r].pc \in {"claimed", "ask", "usage", "post"}
    /\ runs' = [runs EXCEPT ![r].pc = "left", ![r].posts = 0,
                            ![r].lost = IF runs[r].pc = "usage" THEN @ + 1 ELSE @]
    /\ UNCHANGED <<staff, usage, credit, jobs, reports, swept, desk, edits, stuck, mixed>>

-----------------------------------------------------------------------------
(* The completion.                                                         *)

Post(r) ==
    /\ runs[r].pc = "post"
    /\ reports[r] = "none"
    /\ runs[r].posts < MaxPosts
    /\ runs' = [runs EXCEPT ![r].posts = @ + 1]
    /\ reports' = [reports EXCEPT ![r] = "check"]
    /\ UNCHANGED <<staff, usage, credit, jobs, swept, desk, edits, stuck, mixed, upsets>>

\* Remote.complete gives up after the last post.
GiveUp(r) ==
    /\ runs[r].pc = "post"
    /\ reports[r] = "none"
    /\ runs[r].posts = MaxPosts
    /\ runs' = [runs EXCEPT ![r].pc = "left", ![r].posts = 0]
    /\ UNCHANGED <<staff, usage, credit, jobs, reports, swept, desk, edits, stuck, mixed, upsets>>

\* Mutant of Check: the refusal resets the status as well.
CheckRests(r) ==
    /\ reports[r] = "check"
    /\ reports' = [reports EXCEPT ![r] =
                     IF jobs[runs[r].job].status = "running" THEN "finish" ELSE "rest"]
    /\ UNCHANGED <<staff, usage, credit, jobs, runs, swept, desk, edits, stuck, mixed, upsets>>

\* Mutant of Check: no check.
CheckUnguarded(r) ==
    /\ reports[r] = "check"
    /\ reports' = [reports EXCEPT ![r] = "finish"]
    /\ UNCHANGED <<staff, usage, credit, jobs, runs, swept, desk, edits, stuck, mixed, upsets>>

\* handleRunnerComplete refuses a job that is not running.
Check(r) ==
    /\ reports[r] = "check"
    /\ reports' = [reports EXCEPT ![r] =
                     IF jobs[runs[r].job].status = "running" THEN "finish" ELSE "none"]
    /\ UNCHANGED <<staff, usage, credit, jobs, runs, swept, desk, edits, stuck, mixed, upsets>>

\* Mutant of Finish: failJob returns before the status is reset.
FinishForgetful(r) ==
    /\ reports[r] = "finish"
    /\ jobs' = [jobs EXCEPT ![runs[r].job].status = "ended"]
    /\ \E next \in {"count", "none"} : reports' = [reports EXCEPT ![r] = next]
    /\ UNCHANGED <<staff, usage, credit, runs, swept, desk, edits, stuck, mixed, upsets>>

\* completeJob: FinishJob, in whatever branch. Only a successful execution is counted
\* (unless GetPlan or UpdatePlan fail); the status is reset by a deferred call.
Finish(r) ==
    /\ reports[r] = "finish"
    /\ jobs' = [jobs EXCEPT ![runs[r].job].status = "ended"]
    /\ \E next \in {"count", "rest"} : reports' = [reports EXCEPT ![r] = next]
    /\ UNCHANGED <<staff, usage, credit, runs, swept, desk, edits, stuck, mixed, upsets>>

\* IncrAgentTasksDone
Count(r) ==
    /\ reports[r] = "count"
    /\ reports' = [reports EXCEPT ![r] = "rest"]
    /\ credit' = [credit EXCEPT ![r] = IF There(AgentOf(r)) THEN @ + 1 ELSE @]
    /\ UNCHANGED <<staff, usage, jobs, runs, swept, desk, edits, stuck, mixed, upsets>>

\* The deferred SetAgentStatus. A remote runner that still waits is answered, or
\* the answer is lost.
Rest(r) ==
    /\ reports[r] = "rest"
    /\ reports' = [reports EXCEPT ![r] = "none"]
    /\ staff' = SetStatus(AgentOf(r), "idle")
    /\ stuck' = stuck \ {AgentOf(r)}
    /\ \/ /\ runs' = [runs EXCEPT ![r].pc = IF @ = "post" THEN "over" ELSE @,
                                  ![r].posts = 0]
          /\ UNCHANGED upsets
       \/ /\ runs[r].pc = "post"
          /\ Upset
          /\ UNCHANGED runs
    /\ UNCHANGED <<usage, credit, jobs, swept, desk, edits, mixed>>

\* The handler is cut off: its context is cancelled (the deferred call fails as
\* well), or the control plane crashes.
CutOff(r) ==
    /\ Upset
    /\ reports[r] # "none"
    /\ reports' = [reports EXCEPT ![r] = "none"]
    /\ runs' = [runs EXCEPT ![r].pc = IF @ = "over" THEN "left" ELSE @]
    /\ Strand(AgentOf(r), reports[r] \in {"count", "rest"})
    /\ UNCHANGED <<staff, usage, credit, jobs, swept, desk, edits, mixed>>

-----------------------------------------------------------------------------
(* The requeue loop.                                                       *)

SweepScan(j) ==
    /\ Upset
    /\ jobs[j].status = "running"
    /\ swept' = swept \cup {j}
    /\ UNCHANGED <<staff, usage, credit, jobs, runs, reports, desk, edits, stuck, mixed>>

\* Mutant of SweepUpdate: attempts > maxJobAttempts.
SweepUpdateOneMore(j) ==
    /\ j \in swept
    /\ swept' = swept \ {j}
    /\ jobs' = [jobs EXCEPT ![j].status =
                  IF jobs[j].attempts > MaxAttempts THEN "ended" ELSE "queued"]
    /\ Strand(jobs[j].agent, jobs[j].status = "running")
    /\ UNCHANGED <<staff, usage, credit, runs, reports, desk, edits, mixed, upsets>>

\* RequeueStaleJobs, and failJob for a job that was failed: neither asks what the
\* row is by now, and neither resets the status of the agent.
SweepUpdate(j) ==
    /\ j \in swept
    /\ swept' = swept \ {j}
    /\ jobs' = [jobs EXCEPT ![j].status =
                  IF jobs[j].attempts >= MaxAttempts THEN "ended" ELSE "queued"]
    /\ Strand(jobs[j].agent, jobs[j].status = "running")
    /\ UNCHANGED <<staff, usage, credit, runs, reports, desk, edits, mixed, upsets>>

-----------------------------------------------------------------------------
Desk ==
    \/ \E a \in Agents : Hire(a) \/ DeleteAgent(a)
    \/ \E e \in Editors : EditWrite(e) \/ \E a \in Agents : EditRead(e, a)
    \/ Pick
    \/ StartPicked
    \/ \E j \in Jobs, a \in Agents : CreateJob(j, a)

Server(r) ==
    \/ \E j \in Jobs, k \in Kinds[r] : Claim(r, j, k)
    \/ Unbuildable(r)
    \/ Mark(r)
    \/ Check(r)
    \/ Finish(r)
    \/ Count(r)
    \/ Rest(r)
    \/ CutOff(r)

Runner(r) ==
    \/ Complete(r)
    \/ AddUsage(r)
    \/ LoseUsage(r)
    \/ Return(r)
    \/ Leave(r)
    \/ Post(r)
    \/ GiveUp(r)

Next ==
    \/ Desk
    \/ \E r \in Runs : Server(r) \/ Runner(r)
    \/ \E j \in Jobs : SweepScan(j) \/ SweepUpdate(j)

Spec == Init /\ [][Next]_vars

\* The handler or engine of a run takes its next step (the client of the model has a
\* timeout), and so does the handler of its completion. Nothing is assumed of claims,
\* deaths, cuts, sweeps and people.
Fairness == \A r \in Runs :
    /\ WF_vars(\/ Mark(r) \/ Unbuildable(r) \/ Complete(r) \/ AddUsage(r)
               \/ Return(r) \/ Post(r) \/ GiveUp(r))
    /\ WF_vars(Check(r) \/ Finish(r) \/ Count(r) \/ Rest(r))

FairSpec == Spec /\ Fairness

-----------------------------------------------------------------------------
(* Safety.                                                                 *)

\* onJobClaimed and the deferred call of completeJob: an agent none of whose jobs
\* runs is idle, unless a handler is about to say so or the agent is stuck. An agent
\* gets stuck by a sweep, a cut, a mark or failure that comes late, or a form saved
\* with an old row; the next completion of a job of the agent frees it.
RestsIdle ==
    \A a \in Agents : There(a) /\ ~Busy(a) /\ a \notin stuck => staff[a].status = "idle"

\* While a job runs whose claim has marked the agent, the agent is shown as
\* working, through requeues and late and repeated completions of other runs, unless
\* the agent had two jobs at once or a form overwrote the status.
WorkingShown ==
    \A a \in Agents \ mixed : \A j \in RunningFor(a) :
        There(a) /\ runs[jobs[j].run].pc \notin {"claimed", "left"} => Working(a)

\* "Usage counts tokens": each answer of a model is on the account of the agent once,
\* or its event was lost; concurrent forms, completions and runs lose or double none.
LedgerExact ==
    \A r \in Runs : Started(r) /\ There(AgentOf(r)) =>
        usage[r] = runs[r].calls - runs[r].lost - (IF runs[r].pc = "usage" THEN 1 ELSE 0)

\* A job that was claimed once counts at most once as a task done, and only when it has
\* ended, however often it is reported.
CountedOnce ==
    \A r \in Runs : Started(r) /\ credit[r] > 0 /\ jobs[runs[r].job].attempts = 1 =>
        /\ credit[r] = 1
        /\ jobs[runs[r].job].status # "running"

\* handleCreateTask: "task for a team ... goes to an idle teammate". A job is not given
\* to an agent who works while another rests, unless the status of one is wrong.
PickIsFair ==
    [][\A a \in Agents, b \in Agents :
          /\ desk = None /\ desk' = a
          /\ a \notin mixed /\ There(b) /\ b \notin stuck
          /\ \E j \in RunningFor(a) : runs[jobs[j].run].pc \in {"ask", "usage", "post"}
          => Busy(b)]_vars

(* The inductive strengthening of the invariants above.                    *)

\* Rows refer to each other as the handlers leave them.
RowsConsistent ==
    /\ \A a \in Agents : staff[a].row = "absent" => staff[a].status = "idle"
    /\ \A j \in Jobs :
          /\ jobs[j].status = "absent" => jobs[j].attempts = 0
          /\ jobs[j].status # "absent" =>
                jobs[j].agent \in Agents /\ staff[jobs[j].agent].row # "absent"
          /\ jobs[j].status = "queued" => jobs[j].attempts < MaxAttempts
          /\ jobs[j].status \in {"running", "ended"} \/ j \in swept => jobs[j].attempts > 0
          /\ jobs[j].attempts > 0 => jobs[j].run \in Runs /\ runs[jobs[j].run].job = j
    /\ desk # None => staff[desk].row # "absent"

\* A run was started by a claim, which the row of its job has counted.
RunsConsistent == \A r \in Runs :
    /\ ~Started(r) => /\ runs[r].job = None /\ reports[r] = "none"
                      /\ runs[r].calls = 0 /\ runs[r].lost = 0 /\ runs[r].posts = 0
                      /\ usage[r] = 0 /\ credit[r] = 0
    /\ Started(r) => /\ runs[r].job \in Jobs
                     /\ jobs[runs[r].job].attempts > 0
                     /\ jobs[runs[r].job].attempts = 1 => jobs[runs[r].job].run = r
    /\ reports[r] # "none" \/ credit[r] > 0 => runs[r].pc \in {"post", "over", "left"}

\* Who is shown as working, and is not stuck, has a job that runs and was marked, or
\* a handler that will reset the status.
StatusBacked ==
    \A a \in Agents : Working(a) /\ a \notin stuck =>
        \/ \E j \in RunningFor(a) : runs[jobs[j].run].pc # "claimed"
        \/ \E r \in Runs : reports[r] \in {"count", "rest"} /\ AgentOf(r) = a

\* One job at a time: no completion that is half way resets the status over another
\* running job.
OneAtATime ==
    \A a \in Agents \ mixed :
        /\ \A i, j \in RunningFor(a) : i = j
        /\ \A r \in Runs : Ending(r) /\ AgentOf(r) = a =>
              RunningFor(a) \subseteq (IF reports[r] = "finish" THEN {runs[r].job} ELSE {})

\* A run that is counted, or is about to be, has ended its job.
CreditEarned ==
    \A r \in Runs : Started(r) /\ jobs[runs[r].job].attempts = 1 =>
        /\ reports[r] \in {"count", "rest"} => jobs[runs[r].job].status # "running"
        /\ credit[r] > 0 => reports[r] \notin {"finish", "count"}

IInv ==
    /\ TypeOK
    /\ RowsConsistent
    /\ RunsConsistent
    /\ StatusBacked
    /\ OneAtATime
    /\ WorkingShown
    /\ LedgerExact
    /\ CreditEarned
    /\ CountedOnce

-----------------------------------------------------------------------------
(* What the rows promise, whatever handlers and runners do.                *)

\* A row as JobRows has it.
RowView == [j \in Jobs |->
    [status |-> jobs[j].status, attempts |-> jobs[j].attempts]]

Rows == INSTANCE JobRows WITH JobIds <- Jobs, rows <- RowView

\* Handlers of two runs of one job, sweeps and claims interleave: the rows move as in
\* the model of the queue.
RowsSpec == Rows!Spec

-----------------------------------------------------------------------------
(* Liveness.                                                               *)

\* The job of an agent is in the hands of a run that has gone: it waits for the sweep.
Stranded(a) == \E j \in RunningFor(a) : runs[jobs[j].run].pc = "left"

\* A working agent is idle again in the end, or its status is stuck, or the run of a
\* job has gone without a report.
AgentRests ==
    \A a \in Agents : Working(a) ~> (~Working(a) \/ a \in stuck \/ Stranded(a))
=============================================================================
