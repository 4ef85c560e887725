---------------------------- MODULE SerialProofs ----------------------------
(* Proofs about Orchestrator while no two handlers overlap: versions and     *)
(* decisions under every fault; without faults, that the status of a task    *)
(* tells what goes on for it, and that tasks follow their lifecycle.         *)
EXTENDS OrchestratorProofs, FiniteSetTheorems

(* The invariant while handlers do not overlap.                             *)

\* At most one handler is at work.
OneBusy ==
    \A g, h \in Threads : handlers[g] # <<>> /\ handlers[h] # <<>> => g = h

\* What a handler relies on in the table of plans: a plan that is created gets a version
\* above those of its task; a decision comes first, for a plan that has none; a plan is
\* routed right after its creation; only plans that were created are written.
Ready(s) ==
    \A i \in 1..Len(s) :
        /\ s[i].op = "CreatePlan" =>
             /\ i = 1
             /\ \A q \in PlanIds : plans[q].task = jobs[s[i].job].task
                                     => plans[q].version < s[i].version
        /\ s[i].op = "UpdatePlan" =>
             /\ plans[s[i].plan].status # "absent"
             /\ s[i].verdict # None => i = 1 /\ verdicts[s[i].plan] = {}
        /\ s[i].op = "Route" =>
             /\ i = 1 \/ (i = 2 /\ s[1].op = "FinishJob")
             /\ plans[s[i].plan].status = "pending_approval"

AtMostOne == \A p \in PlanIds : \A d, e \in verdicts[p] : d = e

ReadyInv ==
    /\ GateInv
    /\ OneBusy
    /\ \A h \in Threads : Ready(handlers[h])
    /\ VersionsDistinct
    /\ AtMostOne

-----------------------------------------------------------------------------
(* What goes on for a task, and what its status says.                       *)

Nothing(t) == Active(t) = {} /\ Pending(t) = {}

Deciding(t, p) == Active(t) = {} /\ Pending(t) = {p}

Busy(t, kind) ==
    Pending(t) = {} /\ \E j \in JobIds : Active(t) = {j} /\ jobs[j].kind = kind

\* A task may be deleted at any time; nothing else is lost with it.
Says(t, statuses) == tasks[t].status \in statuses \cup {"deleted"}

Tells(t) ==
    \/ Says(t, {"absent", "inbox", "done", "failed", "rejected"}) /\ Nothing(t)
    \/ Says(t, {"planning"}) /\ Busy(t, "plan")
    \/ Says(t, {"awaiting_approval"}) /\ \E p \in PlanIds : Deciding(t, p)
    \/ Says(t, {"executing"}) /\ Busy(t, "execute")

\* The status of a task for which a job of this kind is queued.
Meant(kind) == IF kind = "plan" THEN "planning" ELSE "executing"

Kinds == {"plan", "execute"}
PlanRefs == PlanIds \cup {None}

\* The calls that are left of a handler, with what goes on for its task t. One disjunct
\* for each call that may come next.
ToQueue(s, t) ==
    \E k \in Kinds, p \in PlanRefs, a \in AgentIds :
        /\ Nothing(t) /\ Says(t, {Meant(k)})
        /\ \/ s = <<CreateJob(k, t, p, a)>>
           \/ s = <<GetAgent(a), CreateJob(k, t, p, a)>>

ToStart(s, t) ==
    \E a \in AgentIds :
        /\ Nothing(t) /\ Says(t, {"inbox", "failed", "rejected"})
        /\ \/ s = <<GetAgent(a), SetTask(t, "planning"), CreateJob("plan", t, None, a)>>
           \/ s = <<SetTask(t, "planning"), CreateJob("plan", t, None, a)>>
           \/ /\ tasks[t].status # "deleted"
              /\ s = <<[op |-> "UpdateTask", task |-> t, status |-> tasks[t].status, agent |-> a],
                       GetAgent(a), SetTask(t, "planning"), CreateJob("plan", t, None, a)>>

ToApprove(s, t) ==
    \E p \in PlanIds, a \in AgentIds :
        /\ Says(t, {"planning", "awaiting_approval"})
        /\ \/ /\ Deciding(t, p)
              /\ s = <<UpdatePlan(p, "approved", "approve"), SetTask(t, "executing"),
                       GetAgent(a), CreateJob("execute", t, p, a)>>
           \/ /\ Nothing(t)
              /\ s = <<SetTask(t, "executing"), GetAgent(a), CreateJob("execute", t, p, a)>>

ToReject(s, t) ==
    \E p \in PlanIds :
        /\ Says(t, {"awaiting_approval"})
        /\ \/ /\ Deciding(t, p)
              /\ s = <<UpdatePlan(p, "rejected", "reject"), SetTask(t, "rejected")>>
           \/ /\ Nothing(t)
              /\ s = <<SetTask(t, "rejected")>>

ToReplan(s, t) ==
    \E p \in PlanIds, a \in AgentIds :
        /\ Says(t, {"awaiting_approval"})
        /\ \/ /\ Deciding(t, p)
              /\ s = <<UpdatePlan(p, "superseded", "request_changes"), SetTask(t, "planning"),
                       GetAgent(a), CreateJob("plan", t, None, a)>>
           \/ /\ Nothing(t)
              /\ s = <<SetTask(t, "planning"), GetAgent(a), CreateJob("plan", t, None, a)>>

\* A call that leaves an active job of the task active, or hands it to FailJob.
ToServe(s, t) ==
    \E j \in Active(t) :
        /\ Tells(t)
        /\ \/ s = <<[op |-> "BuildBundle", job |-> j, by |-> "remote"]>>
           \/ s = <<[op |-> "Requeue", job |-> j]>>
           \/ s = <<[op |-> "FailStale", job |-> j]>> \o FailJob(j)

ToFail(s, t) ==
    /\ Says(t, {"planning", "executing"})
    /\ \/ \E j \in JobIds :
             /\ jobs[j].task = t /\ Active(t) \subseteq {j} /\ Pending(t) = {}
             /\ s = FailJob(j)
       \/ Nothing(t) /\ s = <<SetTask(t, "failed")>>
       \/ \E p \in PlanIds :
             /\ Nothing(t) /\ plans[p].status \in Decided
             /\ s = <<SetTask(t, "failed"), UpdatePlan(p, "failed", None)>>

\* The row of a plan that was decided is written back.
ToNote(s, t) ==
    \E p \in PlanIds, x \in Decided :
        /\ Tells(t) /\ plans[p].status \in Decided
        /\ s = <<UpdatePlan(p, x, None)>>

ToPropose(s, t) ==
    /\ Says(t, {"planning"})
    /\ \/ \E j \in JobIds :
             /\ Active(t) = {j} /\ Pending(t) = {} /\ jobs[j].kind = "plan"
             /\ \/ s = <<[op |-> "LatestPlanVersion", job |-> j]>>
                \/ \E v \in Nat : s = <<[op |-> "CreatePlan", job |-> j, version |-> v]>>
       \/ \E j \in JobIds, p \in PlanIds :
             /\ Active(t) = {j} /\ Pending(t) = {p}
             /\ s = <<FinishJob(j, "done"), [op |-> "Route", plan |-> p]>>
       \/ \E p \in PlanIds :
             /\ Deciding(t, p)
             /\ \/ s = <<[op |-> "Route", plan |-> p]>>
                \/ s = <<SetTask(t, "awaiting_approval")>>

ToConclude(s, t) ==
    \E p \in PlanIds, x \in {"completed", "failed"}, y \in {"done", "failed"} :
        /\ Says(t, {"executing"}) /\ plans[p].status \in Decided
        /\ \/ \E j \in JobIds :
                 /\ Active(t) = {j} /\ Pending(t) = {}
                 /\ s = <<FinishJob(j, "done"), UpdatePlan(p, x, None), SetTask(t, y)>>
           \/ Nothing(t) /\ s = <<UpdatePlan(p, x, None), SetTask(t, y)>>
           \/ Nothing(t) /\ s = <<SetTask(t, y)>>

Work(s, t) ==
    \/ s = <<>> /\ Tells(t)
    \/ /\ s # <<>>
       /\ \/ ToQueue(s, t) \/ ToStart(s, t) \/ ToApprove(s, t) \/ ToReject(s, t)
          \/ ToReplan(s, t) \/ ToServe(s, t) \/ ToFail(s, t) \/ ToNote(s, t)
          \/ ToPropose(s, t) \/ ToConclude(s, t)

\* A handler works on one task; the status of each other task tells what goes on for it.
Serves(s) == \E t \in TaskIds : Work(s, t) /\ \A u \in TaskIds \ {t} : Tells(u)

\* Rows that were created belong to a task and to an agent; no agent left.
Refs ==
    /\ \A j \in JobIds :
          \/ jobs[j].status = "absent" /\ jobs[j].task = None /\ jobs[j].plan = None
          \/ /\ jobs[j].status # "absent"
             /\ jobs[j].task \in TaskIds /\ jobs[j].agent \in AgentIds
    /\ \A p \in PlanIds :
          plans[p].status # "absent" => plans[p].task \in TaskIds /\ plans[p].agent \in AgentIds
    /\ \A a \in AgentIds : agents[a].present
    /\ \A j \in JobIds : embedded[j] = 0

SerialInv ==
    /\ ReadyInv
    /\ Refs
    /\ \A h \in Threads : handlers[h] # <<>> => Serves(handlers[h])
    /\ Idle => \A t \in TaskIds : Tells(t)

-----------------------------------------------------------------------------
(* Versions and decisions, with every fault but without overlap.            *)

\* A call that changes no version and decides nothing.
Safe(c) ==
    /\ c.op \notin {"CreatePlan", "Route"}
    /\ c.op = "UpdatePlan" => c.verdict = None /\ plans[c.plan].status # "absent"

LEMMA SafeIsReady ==
    ASSUME NEW s, \A i \in 1..Len(s) : Safe(s[i])
    PROVE  Ready(s)
  BY DEF Safe, Ready

LEMMA EmptyIsReady == Ready(<<>>) /\ Ready(<<>>)'
  BY DEF Ready

LEMMA FewSafe ==
    ASSUME NEW a, NEW b, NEW c, NEW d
    PROVE  /\ Safe(a) => \A i \in 1..Len(<<a>>) : Safe(<<a>>[i])
           /\ Safe(a) /\ Safe(b) => \A i \in 1..Len(<<a, b>>) : Safe(<<a, b>>[i])
           /\ Safe(a) /\ Safe(b) /\ Safe(c) =>
                \A i \in 1..Len(<<a, b, c>>) : Safe(<<a, b, c>>[i])
           /\ Safe(a) /\ Safe(b) /\ Safe(c) /\ Safe(d) =>
                \A i \in 1..Len(<<a, b, c, d>>) : Safe(<<a, b, c, d>>[i])
  OBVIOUS

\* A decision about a plan that has none, and calls that need no care.
LEMMA DecisionIsReady ==
    ASSUME NEW s \in Seq(Call), s # <<>>,
           s[1].op = "UpdatePlan", plans[s[1].plan].status # "absent", verdicts[s[1].plan] = {},
           \A i \in 1..Len(s) : i # 1 => Safe(s[i])
    PROVE  Ready(s)
  BY DEF Safe, Ready

LEMMA CallsSafe ==
    /\ \A a : Safe(GetAgent(a))
    /\ \A t, x : Safe(SetTask(t, x))
    /\ \A k, t, p, a : Safe(CreateJob(k, t, p, a))
    /\ \A j, x : Safe(FinishJob(j, x))
    /\ \A p, x : plans[p].status # "absent" => Safe(UpdatePlan(p, x, None))
    /\ \A t, x, a : Safe([op |-> "UpdateTask", task |-> t, status |-> x, agent |-> a])
    /\ \A j : /\ Safe([op |-> "LatestPlanVersion", job |-> j])
              /\ Safe([op |-> "Requeue", job |-> j])
              /\ Safe([op |-> "FailStale", job |-> j])
              /\ \A by : Safe([op |-> "BuildBundle", job |-> j, by |-> by])
  BY DEF Safe, GetAgent, SetTask, CreateJob, FinishJob, UpdatePlan

\* A plan that a job has was decided, so it was created.
LEMMA JobPlans ==
    ASSUME GateInv, NEW j \in JobIds, jobs[j].plan # None
    PROVE  /\ jobs[j].plan \in PlanIds /\ plans[jobs[j].plan].status \in Decided
           /\ plans[jobs[j].plan].status \notin {"absent", "pending_approval"}
  BY RowsRefer DEF GateInv, JobsGated, VerdictsWritten, Decided

LEMMA FailJobSafe ==
    ASSUME GateInv, NEW j \in JobIds, NEW i \in 1..Len(FailJob(j))
    PROVE  Safe(FailJob(j)[i])
  <1>1. TypeOK
    BY DEF GateInv
  <1>2. CASE jobs[j].plan = None
    BY <1>1, <1>2, FailJobIs, CallsSafe, FewSafe
  <1>3. CASE jobs[j].plan # None
    BY <1>1, <1>3, FailJobIs, JobPlans, CallsSafe, FewSafe
  <1>4. QED
    BY <1>2, <1>3

LEMMA CompletionsSafe ==
    ASSUME GateInv, NEW j \in JobIds, NEW calls \in Completions(j), NEW i \in 1..Len(calls)
    PROVE  Safe(calls[i])
  <1>1. CASE calls = FailJob(j)
    BY <1>1, FailJobSafe
  <1>2. CASE calls = CompletePlanJob(j)
    BY <1>2, CallsSafe, FewSafe DEF CompletePlanJob
  <1>3. ASSUME jobs[j].kind # "plan", NEW x \in BOOLEAN, calls = CompleteExecuteJob(j, x)
        PROVE  Safe(calls[i])
    <2>1. jobs[j].plan # None
      BY <1>3, RowsRefer DEF GateInv, JobsGated
    <2>2. QED
      BY <1>3, <2>1, JobPlans, CallsSafe, FewSafe DEF CompleteExecuteJob
  <1>4. QED
    BY <1>1, <1>2, <1>3 DEF Completions, Drafts

LEMMA ConcatSafe ==
    ASSUME NEW s \in Seq(Call), NEW u \in Seq(Call),
           \A i \in 1..Len(s) : Safe(s[i]), \A i \in 1..Len(u) : Safe(u[i])
    PROVE  \A i \in 1..Len(s \o u) : Safe((s \o u)[i])
  <1>1. Len(s) \in Nat /\ Len(u) \in Nat
    OBVIOUS
  <1>2. QED
    BY <1>1, ConcatIs

\* The rest of a handler, after a call that creates no plan and leaves each plan as it
\* is, or changes one that is not to be routed.
LEMMA ReadyTail ==
    ASSUME NEW s \in Seq(Call), s # <<>>, Ready(s),
           \/ UNCHANGED plans
           \/ /\ Head(s).op = "UpdatePlan"
              /\ \A p \in PlanIds : plans[p].status # "absent" => plans'[p].status # "absent"
    PROVE  Ready(Tail(s))'
  <1>1. /\ Tail(s) \in Seq(Call) /\ Len(Tail(s)) = Len(s) - 1 /\ Len(s) \in Nat
        /\ \A i \in 1..Len(Tail(s)) : Tail(s)[i] = s[i + 1] /\ i + 1 \in 1..Len(s) /\ i + 1 # 1
        /\ Head(s) = s[1] /\ 1 \in 1..Len(s)
    OBVIOUS
  <1>2. \A i \in 1..Len(s) : s[i].op \in {"UpdatePlan", "Route"} => s[i].plan \in PlanIds
    BY DEF Call
  <1>3. ASSUME NEW i \in 1..Len(Tail(s))
        PROVE  /\ Tail(s)[i].op # "CreatePlan"
               /\ Tail(s)[i].op = "UpdatePlan" =>
                    plans'[Tail(s)[i].plan].status # "absent" /\ Tail(s)[i].verdict = None
               /\ Tail(s)[i].op = "Route" =>
                    i = 1 /\ plans'[Tail(s)[i].plan].status = "pending_approval"
    <2>1. Tail(s)[i] = s[i + 1] /\ i + 1 \in 1..Len(s) /\ i + 1 # 1 /\ i \in Nat
      BY <1>1
    <2>2. s[i + 1].op # "CreatePlan"
      BY <2>1 DEF Ready
    <2>3. s[i + 1].op = "UpdatePlan" =>
            plans[s[i + 1].plan].status # "absent" /\ s[i + 1].verdict = None
      BY <2>1 DEF Ready
    <2>4. s[i + 1].op = "Route" =>
            i + 1 = 2 /\ s[1].op = "FinishJob" /\ plans[s[i + 1].plan].status = "pending_approval"
      BY <2>1 DEF Ready
    <2>5. QED
      BY <1>1, <1>2, <2>1, <2>2, <2>3, <2>4
  <1>4. QED
    BY <1>3 DEF Ready

-----------------------------------------------------------------------------
(* One handler at a time.                                                   *)

LEMMA ReadyAdvance ==
    ASSUME ReadyInv, GateInv', NEW h \in Threads, Idle \/ handlers[h] # <<>>,
           NEW calls, handlers' = [handlers EXCEPT ![h] = calls], Ready(calls)',
           VersionsDistinct', AtMostOne'
    PROVE  ReadyInv'
  <1>1. handlers \in [Threads -> Seq(Call)]
    BY DEF ReadyInv, GateInv, TypeOK
  <1>2. \A g \in Threads : g # h => handlers[g] = <<>> /\ handlers'[g] = <<>>
    BY <1>1 DEF ReadyInv, OneBusy, Idle
  <1>3. handlers'[h] = calls
    BY <1>1
  <1>4. OneBusy'
    BY <1>2 DEF OneBusy
  <1>5. ASSUME NEW g \in Threads
        PROVE  Ready(handlers[g])'
    <2>1. CASE g = h
      BY <1>3, <2>1 DEF Ready
    <2>2. CASE g # h
      BY <1>2, <2>2 DEF Ready
    <2>3. QED
      BY <2>1, <2>2
  <1>6. QED
    BY <1>4, <1>5 DEF ReadyInv

\* ... and plans, verdicts and the tasks of jobs are as they were.
LEMMA ReadyGoesOn ==
    ASSUME ReadyInv, GateInv', NEW h \in Threads, Idle \/ handlers[h] # <<>>,
           NEW calls, handlers' = [handlers EXCEPT ![h] = calls], Ready(calls)',
           UNCHANGED <<plans, verdicts>>
    PROVE  ReadyInv'
  <1>1. VersionsDistinct' /\ AtMostOne'
    BY DEF ReadyInv, VersionsDistinct, AtMostOne
  <1>2. QED
    BY <1>1, ReadyAdvance

LEMMA ReadyBegins ==
    ASSUME ~Overlap, ReadyInv, GateInv', NEW h \in Threads, NEW calls, Begin(h, calls),
           Ready(calls), UNCHANGED <<plans, verdicts>>,
           UNCHANGED jobs \/ \A i \in 1..Len(calls) : calls[i].op # "CreatePlan"
    PROVE  ReadyInv'
  <1>1. Idle /\ handlers' = [handlers EXCEPT ![h] = calls]
    BY DEF Begin
  <1>2. Ready(calls)'
    BY DEF Ready
  <1>3. QED
    BY <1>1, <1>2, ReadyGoesOn

LEMMA DecisionsReady ==
    ASSUME TypeOK, NEW p \in PlanIds, plans[p].status = "pending_approval", verdicts[p] = {}
    PROVE  Ready(ApprovePlan(p)) /\ Ready(RejectPlan(p)) /\ Ready(RequestChanges(p))
  <1>1. ASSUME NEW s \in Seq(Call), NEW x, NEW v, NEW b, NEW c, NEW d,
               Safe(b), Safe(c), Safe(d),
               \/ s = <<UpdatePlan(p, x, v), b, c, d>>
               \/ s = <<UpdatePlan(p, x, v), b>>
        PROVE  Ready(s)
    <2> DEFINE u == UpdatePlan(p, x, v)
    <2>1. u.op = "UpdatePlan" /\ u.plan = p
      BY DEF UpdatePlan
    <2>2. s = <<u, b, c, d>> \/ s = <<u, b>>
      BY <1>1
    <2> HIDE DEF u
    <2>3. s # <<>> /\ s[1] = u /\ \A i \in 1..Len(s) : i # 1 => s[i] \in {b, c, d}
      BY <2>2
    <2>4. \A i \in 1..Len(s) : i # 1 => Safe(s[i])
      BY <1>1, <2>3
    <2>5. QED
      BY <2>1, <2>3, <2>4, DecisionIsReady
  <1>2. /\ ApprovePlan(p) \in Seq(Call) /\ RejectPlan(p) \in Seq(Call)
        /\ RequestChanges(p) \in Seq(Call)
    BY ApprovePlanProgram, RejectPlanProgram, RequestChangesProgram
  <1>3. Ready(ApprovePlan(p)) /\ Ready(RequestChanges(p))
    <2>1. /\ \A t, x : Safe(SetTask(t, x))
          /\ \A a : Safe(GetAgent(a))
          /\ \A k, t, q, a : Safe(CreateJob(k, t, q, a))
      BY CallsSafe
    <2>2. Ready(ApprovePlan(p))
      BY <1>1, <1>2, <2>1 DEF ApprovePlan
    <2>3. Ready(RequestChanges(p))
      BY <1>1, <1>2, <2>1 DEF RequestChanges
    <2>4. QED
      BY <2>2, <2>3
  <1>4. Ready(RejectPlan(p))
    <2>1. \A t, x : Safe(SetTask(t, x))
      BY CallsSafe
    <2>2. QED
      BY <1>1, <1>2, <2>1 DEF RejectPlan
  <1>5. QED
    BY <1>3, <1>4

LEMMA ReadyRequests ==
    ASSUME ~Overlap, ReadyInv, GateInv', NEW h \in Handlers, Request(h)
    PROVE  ReadyInv'
  <1>1. h \in Threads /\ GateInv /\ TypeOK
    BY DEF Threads, ReadyInv, GateInv
  <1>2. ASSUME NEW t \in TaskIds, NEW a \in AgentIds \cup {None}, CreateTask(h, t, a)
        PROVE  ReadyInv'
    <2>1. PICK calls : Begin(h, calls) /\ (calls = <<>> \/ calls = StartTask(t, a))
      BY <1>2 DEF CreateTask
    <2>2. Ready(StartTask(t, a))
      BY CallsSafe, FewSafe, SafeIsReady DEF StartTask
    <2>3. Ready(calls)
      BY <2>1, <2>2, EmptyIsReady
    <2>4. UNCHANGED <<plans, verdicts, jobs>>
      BY <1>2 DEF CreateTask
    <2>5. QED
      BY <1>1, <2>1, <2>3, <2>4, ReadyBegins
  <1>3. ASSUME NEW t \in TaskIds, NEW a \in AgentIds, AssignTask(h, t, a)
        PROVE  ReadyInv'
    <2> DEFINE u == [op |-> "UpdateTask", task |-> t, status |-> tasks[t].status, agent |-> a]
               v == <<u>>
    <2>1. PICK calls : Begin(h, calls) /\ calls = v \o StartTask(t, a)
      BY <1>3 DEF AssignTask
    <2>2. u \in Call
      <3>1. tasks[t].status \in LiveStatus
        BY <1>3 DEF AssignTask, LiveStatus, TaskStatus
      <3>2. QED
        BY <3>1 DEF Call
    <2>3. Safe(u)
      BY CallsSafe
    <2> HIDE DEF u
    <2>4. v \in Seq(Call) /\ \A i \in 1..Len(v) : Safe(v[i])
      BY <2>2, <2>3, FewSafe
    <2> HIDE DEF v
    <2>5. /\ StartTask(t, a) \in Seq(Call)
          /\ \A i \in 1..Len(StartTask(t, a)) : Safe(StartTask(t, a)[i])
      BY CallsSafe, FewSafe, StartTaskProgram DEF StartTask
    <2>6. Ready(calls)
      BY <2>1, <2>4, <2>5, ConcatSafe, SafeIsReady
    <2>7. UNCHANGED <<plans, verdicts, jobs>>
      BY <1>3 DEF AssignTask
    <2>8. QED
      BY <1>1, <2>1, <2>6, <2>7, ReadyBegins
  <1>4. ASSUME NEW p \in PlanIds, NEW d \in Decisions, PlanDecision(h, p, d)
        PROVE  ReadyInv'
    <2>1. plans[p].status = "pending_approval" /\ verdicts[p] = {}
      BY <1>1, <1>4 DEF PlanDecision, GateInv, VerdictsWritten, Decided
    <2>2. PICK calls : /\ Begin(h, calls)
                       /\ calls \in {ApprovePlan(p), RejectPlan(p), RequestChanges(p)}
      <3>1. CASE d = "approve"
        BY <1>4, <3>1 DEF PlanDecision
      <3>2. CASE d = "reject"
        BY <1>4, <3>2 DEF PlanDecision
      <3>3. CASE d = "request_changes"
        BY <1>4, <3>3 DEF PlanDecision
      <3>4. QED
        BY <3>1, <3>2, <3>3 DEF Decisions
    <2>3. Ready(ApprovePlan(p)) /\ Ready(RejectPlan(p)) /\ Ready(RequestChanges(p))
      BY <1>1, <2>1, DecisionsReady
    <2>4. UNCHANGED <<plans, verdicts, jobs>>
      BY <1>4 DEF PlanDecision
    <2>5. QED
      BY <1>1, <2>2, <2>3, <2>4, ReadyBegins
  <1>5. ASSUME NEW j \in JobIds, NEW by \in {"remote", "embedded"}, Claim(h, j, by)
        PROVE  ReadyInv'
    <2> DEFINE c == [op |-> "BuildBundle", job |-> j, by |-> by]
    <2>1. PICK calls : Begin(h, calls) /\ calls = <<c>>
      BY <1>5 DEF Claim
    <2>2. Safe(c) /\ c.op # "CreatePlan"
      BY CallsSafe
    <2> HIDE DEF c
    <2>3. Ready(calls) /\ \A i \in 1..Len(calls) : calls[i].op # "CreatePlan"
      BY <2>1, <2>2, FewSafe, SafeIsReady
    <2>4. UNCHANGED <<plans, verdicts>>
      BY <1>5 DEF Claim
    <2>5. QED
      BY <1>1, <2>1, <2>3, <2>4, ReadyBegins
  <1>6. ASSUME NEW j \in JobIds, CompleteRemote(h, j) \/ CompleteEmbedded(h, j)
        PROVE  ReadyInv'
    <2>1. PICK calls \in Completions(j) : Begin(h, calls)
      BY <1>6 DEF CompleteRemote, CompleteEmbedded
    <2>2. Ready(calls)
      BY <1>1, CompletionsSafe, SafeIsReady
    <2>3. UNCHANGED <<plans, verdicts, jobs>>
      BY <1>6 DEF CompleteRemote, CompleteEmbedded
    <2>4. QED
      BY <1>1, <2>1, <2>2, <2>3, ReadyBegins
  <1>7. ASSUME NEW j \in JobIds, StepEvent(h, j)
        PROVE  ReadyInv'
    <2> DEFINE c == UpdatePlan(jobs[j].plan, plans[jobs[j].plan].status, None)
    <2>1. PICK calls : Begin(h, calls) /\ calls = <<c>>
      BY <1>7 DEF StepEvent
    <2>2. Safe(c)
      BY <1>1, <1>7, JobPlans, CallsSafe DEF StepEvent
    <2> HIDE DEF c
    <2>3. Ready(calls)
      BY <2>1, <2>2, FewSafe, SafeIsReady
    <2>4. UNCHANGED <<plans, verdicts, jobs>>
      BY <1>7 DEF StepEvent
    <2>5. QED
      BY <1>1, <2>1, <2>3, <2>4, ReadyBegins
  <1>8. QED
    BY <1>2, <1>3, <1>4, <1>5, <1>6, <1>7 DEF Request

LEMMA ReadySweep ==
    ASSUME ~Overlap, ReadyInv, GateInv', NEW j \in JobIds, SweepJob(j)
    PROVE  ReadyInv'
  <1> DEFINE f == <<[op |-> "FailStale", job |-> j]>>
             q == <<[op |-> "Requeue", job |-> j]>>
  <1>1. PICK calls : Begin(Loop, calls) /\ (calls = f \o FailJob(j) \/ calls = q)
    BY DEF SweepJob
  <1>2. /\ f \in Seq(Call) /\ \A i \in 1..Len(f) : Safe(f[i])
        /\ \A i \in 1..Len(q) : Safe(q[i])
    <2>1. Safe([op |-> "FailStale", job |-> j]) /\ Safe([op |-> "Requeue", job |-> j])
      BY CallsSafe
    <2>2. [op |-> "FailStale", job |-> j] \in Call
      BY JobCalls
    <2>3. QED
      BY <2>1, <2>2, FewSafe
  <1> HIDE DEF f, q
  <1>3. FailJob(j) \in Seq(Call) /\ \A i \in 1..Len(FailJob(j)) : Safe(FailJob(j)[i])
    BY FailJobProgram, FailJobSafe DEF ReadyInv, GateInv
  <1>4. Ready(calls)
    BY <1>1, <1>2, <1>3, ConcatSafe, SafeIsReady
  <1>5. UNCHANGED <<plans, verdicts, jobs>> /\ Loop \in Threads
    BY DEF SweepJob, Threads
  <1>6. QED
    BY <1>1, <1>4, <1>5, ReadyBegins

LEMMA ReadyQuiet ==
    ASSUME ~Overlap, ReadyInv, GateInv',
           \/ \E t \in TaskIds : DeleteTask(t)
           \/ \E a \in AgentIds : DeleteAgent(a) \/ UpdateAgent(a)
           \/ UNCHANGED vars
           \/ Crash
           \/ \E h \in Threads : Abort(h)
    PROVE  ReadyInv'
  <1>1. ASSUME UNCHANGED <<plans, jobs, handlers, verdicts>>
        PROVE  ReadyInv'
    BY <1>1 DEF ReadyInv, OneBusy, Ready, VersionsDistinct, AtMostOne
  <1>2. ASSUME Crash
        PROVE  ReadyInv'
    <2>1. handlers' = [h \in Threads |-> <<>>] /\ UNCHANGED <<plans, jobs, verdicts>>
      BY <1>2 DEF Crash
    <2>2. OneBusy' /\ \A h \in Threads : Ready(handlers[h])'
      BY <2>1 DEF OneBusy, Ready
    <2>3. VersionsDistinct' /\ AtMostOne'
      BY <2>1 DEF ReadyInv, VersionsDistinct, AtMostOne
    <2>4. QED
      BY <2>2, <2>3 DEF ReadyInv
  <1>3. ASSUME NEW h \in Threads, Abort(h)
        PROVE  ReadyInv'
    <2>1. /\ handlers[h] # <<>> /\ handlers' = [handlers EXCEPT ![h] = <<>>]
          /\ UNCHANGED <<plans, jobs, verdicts>>
      BY <1>3 DEF Abort, Then
    <2>2. QED
      BY <2>1, EmptyIsReady, ReadyGoesOn
  <1>4. QED
    BY <1>1, <1>2, <1>3 DEF DeleteTask, DeleteAgent, UpdateAgent, vars

-----------------------------------------------------------------------------
(* The store calls, one handler at a time.                                  *)

\* What the invariant says of the handler at work.
LEMMA AtWork ==
    ASSUME ReadyInv, NEW h \in Threads, handlers[h] # <<>>
    PROVE  /\ handlers[h] \in Seq(Call) /\ Ready(handlers[h]) /\ Head(handlers[h]) \in Call
           /\ Head(handlers[h]) = handlers[h][1] /\ 1 \in 1..Len(handlers[h])
  <1>1. handlers[h] \in Seq(Call) /\ Ready(handlers[h])
    BY DEF ReadyInv, GateInv, TypeOK
  <1>2. QED
    BY <1>1

LEMMA ReadyOthers ==
    ASSUME ReadyInv, GateInv', NEW h \in Threads,
           \/ DoGetAgent(h) \/ DoSetTask(h) \/ DoUpdateTask(h) \/ DoCreateJob(h)
           \/ DoFinishJob(h) \/ DoRequeue(h) \/ DoFailStale(h)
    PROVE  ReadyInv'
  <1>1. /\ handlers[h] # <<>> /\ UNCHANGED <<plans, verdicts>>
        /\ Then(h, Tail(handlers[h])) \/ Then(h, <<>>)
    BY DEF DoGetAgent, DoSetTask, DoUpdateTask, DoCreateJob, DoFinishJob, DoRequeue,
       DoFailStale, At, Then
  <1>2. PICK s \in Seq(Call) : s = handlers[h]
    BY <1>1, AtWork
  <1>3. Ready(s) /\ s # <<>>
    BY <1>1, <1>2, AtWork
  <1>4. Ready(Tail(s))' /\ Ready(<<>>)'
    BY <1>1, <1>3, ReadyTail, EmptyIsReady
  <1>5. PICK calls : handlers' = [handlers EXCEPT ![h] = calls] /\ (calls = Tail(s) \/ calls = <<>>)
    BY <1>1, <1>2 DEF Then
  <1>6. Ready(calls)'
    BY <1>4, <1>5
  <1>7. QED
    BY <1>1, <1>5, <1>6, ReadyGoesOn

LEMMA ReadyUpdatePlan ==
    ASSUME ReadyInv, GateInv', NEW h \in Threads, DoUpdatePlan(h)
    PROVE  ReadyInv'
  <1>1. handlers[h] # <<>> /\ Head(handlers[h]).op = "UpdatePlan"
    BY DEF DoUpdatePlan, At
  <1>2. PICK s \in Seq(Call) : s = handlers[h]
    BY <1>1, AtWork
  <1>3. PICK c \in Call : c = Head(s)
    BY <1>1, <1>2, AtWork
  <1>4. /\ plans' = [plans EXCEPT ![c.plan].status = c.status]
        /\ verdicts' = [verdicts EXCEPT ![c.plan] = @ \cup ({c.verdict} \ {None})]
        /\ handlers' = [handlers EXCEPT ![h] = Tail(s)]
        /\ UNCHANGED jobs
    BY <1>2, <1>3 DEF DoUpdatePlan, Then
  <1>5. c.op = "UpdatePlan" /\ c = s[1] /\ 1 \in 1..Len(s) /\ Ready(s) /\ s # <<>>
    BY <1>1, <1>2, <1>3, AtWork
  <1>6. c.plan \in PlanIds /\ c.status \in Decided
    <2>1. c.plan \in PlanIds
      BY <1>5 DEF Call
    <2>2. QED
      BY <1>1, <1>2, <1>3, <1>5, <2>1, HeadGated DEF ReadyInv
  <1>7. plans[c.plan].status # "absent" /\ (c.verdict # None => verdicts[c.plan] = {})
    BY <1>5 DEF Ready
  <1>8. plans \in [PlanIds -> Plan] /\ verdicts \in [PlanIds -> SUBSET Decisions]
    BY DEF ReadyInv, GateInv, TypeOK
  <1>9. \A p \in PlanIds : /\ plans'[p].task = plans[p].task
                           /\ plans'[p].version = plans[p].version
                           /\ plans[p].status # "absent" <=> plans'[p].status # "absent"
    BY <1>4, <1>6, <1>7, <1>8 DEF Plan, Decided
  <1>10. VersionsDistinct'
    BY <1>9 DEF ReadyInv, VersionsDistinct
  <1>11. AtMostOne'
    <2>1. \A p \in PlanIds : p # c.plan => verdicts'[p] = verdicts[p]
      BY <1>4, <1>8
    <2>2. verdicts'[c.plan] = verdicts[c.plan] \/ verdicts'[c.plan] = {c.verdict}
      BY <1>4, <1>6, <1>7, <1>8
    <2>3. QED
      BY <2>1, <2>2 DEF ReadyInv, AtMostOne
  <1>12. Ready(Tail(s))'
    BY <1>3, <1>5, <1>9, ReadyTail
  <1>13. PICK calls : calls = Tail(s)
    OBVIOUS
  <1>14. QED
    BY <1>1, <1>4, <1>10, <1>11, <1>12, <1>13, ReadyAdvance

LEMMA ReadyVersion ==
    ASSUME ReadyInv, GateInv', NEW h \in Threads, DoLatestPlanVersion(h)
    PROVE  ReadyInv'
  <1>1. /\ handlers[h] # <<>> /\ Head(handlers[h]).op = "LatestPlanVersion"
        /\ UNCHANGED <<plans, jobs, verdicts>>
    BY DEF DoLatestPlanVersion, At
  <1>2. PICK j : j = Head(handlers[h]).job
    OBVIOUS
  <1>3. PICK latest \in Versions(jobs[j].task) :
          /\ \A v \in Versions(jobs[j].task) : v <= latest
          /\ Then(h, <<[op |-> "CreatePlan", job |-> j, version |-> latest + 1]>>)
    BY <1>2 DEF DoLatestPlanVersion
  <1>4. PICK c : c = [op |-> "CreatePlan", job |-> j, version |-> latest + 1]
    OBVIOUS
  <1>5. \A q \in PlanIds : plans[q].version \in Nat
    BY RowsRefer DEF ReadyInv, GateInv
  <1>6. \A q \in PlanIds : plans[q].task = jobs[j].task => plans[q].version < latest + 1
    <2>1. \A q \in PlanIds : plans[q].task = jobs[j].task => plans[q].version <= latest
      BY <1>3 DEF Versions
    <2>2. latest \in Nat
      BY <1>5 DEF Versions
    <2>3. QED
      BY <1>5, <2>1, <2>2
  <1>7. PICK calls : calls = <<c>>
    OBVIOUS
  <1>8. Ready(calls)'
    <2>1. c.op = "CreatePlan" /\ c.job = j /\ c.version = latest + 1
      BY <1>4
    <2>2. \A i \in 1..Len(calls) : i = 1 /\ calls[i] = c
      BY <1>7
    <2>3. QED
      BY <1>1, <1>6, <2>1, <2>2 DEF Ready
  <1>9. handlers' = [handlers EXCEPT ![h] = calls]
    BY <1>3, <1>4, <1>7 DEF Then
  <1>10. QED
    BY <1>1, <1>8, <1>9, ReadyGoesOn

LEMMA ReadyCreatePlan ==
    ASSUME ReadyInv, GateInv', NEW h \in Threads, DoCreatePlan(h)
    PROVE  ReadyInv'
  <1>1. /\ handlers[h] # <<>> /\ Head(handlers[h]).op = "CreatePlan"
        /\ UNCHANGED <<jobs, verdicts>>
    BY DEF DoCreatePlan, At
  <1>2. PICK c \in Call : c = Head(handlers[h])
    BY <1>1, AtWork
  <1> DEFINE new == [status |-> "pending_approval", task |-> jobs[c.job].task,
                     agent |-> jobs[c.job].agent, version |-> c.version]
  <1>3. PICK p \in Free(plans) :
          plans' = [plans EXCEPT ![p] = new] /\ Then(h, AfterCreatePlan(c.job, p))
    BY <1>2 DEF DoCreatePlan
  <1>4. /\ new.status = "pending_approval" /\ new.task = jobs[c.job].task
        /\ new.version = c.version
    OBVIOUS
  <1> HIDE DEF new
  <1>5. plans \in [PlanIds -> Plan] /\ p \in PlanIds /\ plans[p].status = "absent"
    BY <1>3 DEF ReadyInv, GateInv, TypeOK, Free
  <1>6. plans'[p] = new /\ \A q \in PlanIds : q # p => plans'[q] = plans[q]
    BY <1>3, <1>5
  <1>7. \A q \in PlanIds : plans[q].task = jobs[c.job].task => plans[q].version < c.version
    BY <1>1, <1>2, AtWork DEF Ready
  <1>8. c.version \in Nat /\ \A q \in PlanIds : plans[q].version \in Nat
    BY <1>1, <1>2, RowsRefer DEF Call, ReadyInv, GateInv
  <1>9. VersionsDistinct'
    <2> SUFFICES ASSUME NEW q \in PlanIds, NEW r \in PlanIds, q # r,
                        plans'[q].status # "absent", plans'[r].status # "absent",
                        plans'[q].task = plans'[r].task
                 PROVE  plans'[q].version # plans'[r].version
      BY DEF VersionsDistinct
    <2>1. CASE q # p /\ r # p
      BY <1>6, <2>1 DEF ReadyInv, VersionsDistinct
    <2>2. CASE q = p
      <3>1. plans[r].version < c.version /\ plans'[r].version = plans[r].version
        BY <1>4, <1>6, <1>7, <2>2
      <3>2. QED
        BY <1>4, <1>6, <1>8, <2>2, <3>1
    <2>3. CASE r = p
      <3>1. plans[q].version < c.version /\ plans'[q].version = plans[q].version
        BY <1>4, <1>6, <1>7, <2>3
      <3>2. QED
        BY <1>4, <1>6, <1>8, <2>3, <3>1
    <2>4. QED
      BY <2>1, <2>2, <2>3
  <1>10. AtMostOne'
    BY <1>1 DEF ReadyInv, AtMostOne
  <1>11. PICK calls : calls = AfterCreatePlan(c.job, p)
    OBVIOUS
  <1>12. Ready(calls)'
    <2> DEFINE a == FinishJob(c.job, "done")
               b == [op |-> "Route", plan |-> p]
    <2>1. a.op = "FinishJob" /\ b.op = "Route" /\ b.plan = p
      BY DEF FinishJob
    <2>2. calls = <<a, b>>
      BY <1>11 DEF AfterCreatePlan
    <2> HIDE DEF a, b
    <2>3. \A i \in 1..Len(calls) : (i = 1 /\ calls[i] = a) \/ (i = 2 /\ calls[i] = b)
      BY <2>2
    <2>4. calls[1] = a
      BY <2>2
    <2>5. plans'[p].status = "pending_approval"
      BY <1>4, <1>6
    <2>6. QED
      BY <2>1, <2>3, <2>4, <2>5 DEF Ready
  <1>13. handlers' = [handlers EXCEPT ![h] = calls]
    BY <1>3, <1>11 DEF Then
  <1>14. QED
    BY <1>1, <1>9, <1>10, <1>12, <1>13, ReadyAdvance

LEMMA ReadyRoute ==
    ASSUME ReadyInv, GateInv', NEW h \in Threads, DoRoute(h)
    PROVE  ReadyInv'
  <1>1. /\ handlers[h] # <<>> /\ Head(handlers[h]).op = "Route"
        /\ UNCHANGED <<plans, jobs, verdicts>>
    BY DEF DoRoute, At
  <1>2. PICK p : p = Head(handlers[h]).plan
    OBVIOUS
  <1>3. p \in PlanIds /\ plans[p].status = "pending_approval"
    BY <1>1, <1>2, AtWork DEF Call, Ready
  <1>4. verdicts[p] = {}
    BY <1>3 DEF ReadyInv, GateInv, VerdictsWritten, Decided
  <1>5. PICK calls :
          /\ handlers' = [handlers EXCEPT ![h] = calls]
          /\ \/ calls = <<>> \/ calls = ApprovePlan(p)
             \/ calls = <<SetTask(plans[p].task, "awaiting_approval")>>
    BY <1>2 DEF DoRoute, Then
  <1>6. Ready(calls)
    <2>1. Ready(ApprovePlan(p))
      BY <1>3, <1>4, DecisionsReady DEF ReadyInv, GateInv
    <2>2. Ready(<<SetTask(plans[p].task, "awaiting_approval")>>)
      BY CallsSafe, FewSafe, SafeIsReady
    <2>3. QED
      BY <1>5, <2>1, <2>2, EmptyIsReady
  <1>7. Ready(calls)'
    BY <1>1, <1>6 DEF Ready
  <1>8. QED
    BY <1>1, <1>5, <1>7, ReadyGoesOn

LEMMA ReadyBundle ==
    ASSUME ReadyInv, GateInv', NEW h \in Threads, DoBuildBundle(h)
    PROVE  ReadyInv'
  <1>1. /\ handlers[h] # <<>> /\ Head(handlers[h]).op = "BuildBundle"
        /\ UNCHANGED <<plans, jobs, verdicts>>
    BY DEF DoBuildBundle, At
  <1>2. PICK j : j = Head(handlers[h]).job
    OBVIOUS
  <1>3. j \in JobIds
    BY <1>1, <1>2, AtWork DEF Call
  <1>4. PICK calls : /\ handlers' = [handlers EXCEPT ![h] = calls]
                     /\ calls = <<>> \/ calls = FailJob(j)
    BY <1>2 DEF DoBuildBundle, Then
  <1>5. Ready(calls)
    BY <1>3, <1>4, FailJobSafe, SafeIsReady, EmptyIsReady DEF ReadyInv
  <1>6. Ready(calls)'
    BY <1>1, <1>5 DEF Ready
  <1>7. QED
    BY <1>1, <1>4, <1>6, ReadyGoesOn

LEMMA NextReady ==
    ASSUME ~Overlap, ReadyInv, GateInv', [Next]_vars
    PROVE  ReadyInv'
  <1>1. ASSUME NEW h \in Threads, Step(h)
        PROVE  ReadyInv'
    BY <1>1, ReadyOthers, ReadyUpdatePlan, ReadyVersion, ReadyCreatePlan, ReadyRoute,
       ReadyBundle DEF Step
  <1>2. QED
    BY <1>1, ReadyRequests, ReadySweep, ReadyQuiet DEF Next

LEMMA InitReady ==
    ASSUME Init
    PROVE  ReadyInv
  <1>1. GateInv
    BY InitGate
  <1>2. OneBusy /\ \A h \in Threads : Ready(handlers[h])
    BY EmptyIsReady DEF Init, OneBusy
  <1>3. VersionsDistinct /\ AtMostOne
    BY DEF Init, VersionsDistinct, AtMostOne
  <1>4. QED
    BY <1>1, <1>2, <1>3 DEF ReadyInv

\* While handlers do not overlap, each knows what it relies on: whatever is cut off.
THEOREM ReadyInvariant ==
    ASSUME ~Overlap
    PROVE  Spec => []ReadyInv
  <1>1. Init => ReadyInv
    BY InitReady
  <1>2. ReadyInv /\ GateInv' /\ [Next]_vars => ReadyInv'
    BY NextReady
  <1>3. QED
    BY <1>1, <1>2, GateInvariant, PTL DEF Spec

\* Plans of one task never share a version, whatever is cut off or crashes between the
\* read of the latest version and the insert.
THEOREM DistinctVersions ==
    ASSUME ~Overlap
    PROVE  Spec => []VersionsDistinct
  <1>1. ReadyInv => VersionsDistinct
    BY DEF ReadyInv
  <1>2. QED
    BY <1>1, ReadyInvariant, PTL

\* A plan is decided at most once while no two handlers overlap, be it by a human or
\* because its agent is autonomous.
THEOREM OneDecision ==
    ASSUME ~Overlap
    PROVE  Spec => []DecidedOnce
  <1>1. ASSUME ReadyInv, NEW p \in PlanIds
        PROVE  Cardinality(verdicts[p]) <= 1
    <2>1. CASE verdicts[p] = {}
      BY <2>1, FS_EmptySet
    <2>2. ASSUME NEW d \in verdicts[p]
          PROVE  Cardinality(verdicts[p]) <= 1
      <3>1. verdicts[p] = {d}
        BY <1>1, <2>2 DEF ReadyInv, AtMostOne
      <3>2. Cardinality({d}) = 1
        BY FS_Singleton
      <3>3. QED
        BY <3>1, <3>2
    <2>3. QED
      BY <2>1, <2>2
  <1>2. ReadyInv => DecidedOnce
    BY <1>1 DEF DecidedOnce
  <1>3. QED
    BY <1>2, ReadyInvariant, PTL

-----------------------------------------------------------------------------
(* Without faults: the status of a task tells what goes on for it.          *)

\* Task u is as it was, and so is what goes on for it.
Same(u) ==
    /\ tasks'[u].status = tasks[u].status
    /\ Active(u)' = Active(u) /\ Pending(u)' = Pending(u)
    /\ \A j \in Active(u) : jobs'[j].kind = jobs[j].kind

LEMMA TellsSame ==
    ASSUME NEW u, Tells(u), Same(u)
    PROVE  Tells(u)'
  BY DEF Tells, Same, Says, Nothing, Busy, Deciding

LEMMA TablesSame ==
    ASSUME NEW u, UNCHANGED <<plans, jobs>>, tasks'[u].status = tasks[u].status
    PROVE  Same(u)
  BY DEF Same, Active, Pending

LEMMA ActiveStays ==
    ASSUME \A i \in JobIds : /\ jobs'[i].task = jobs[i].task
                             /\ \/ jobs'[i].status = jobs[i].status
                                \/ /\ jobs'[i].status \in {"queued", "running"}
                                   /\ jobs[i].status \in {"queued", "running"}
    PROVE  \A u : Active(u)' = Active(u)
  <1> TAKE u
  <1>1. Active(u)' \subseteq Active(u)
    BY DEF Active
  <1>2. Active(u) \subseteq Active(u)'
    BY DEF Active
  <1>3. QED
    BY <1>1, <1>2

\* An UPDATE of a job that was active and is, of one that is not any more.
LEMMA JobWrite ==
    ASSUME TypeOK, NEW j \in JobIds, NEW x,
           \/ jobs' = [jobs EXCEPT ![j].status = x]
           \/ jobs' = [jobs EXCEPT ![j].status = x, ![j].attempts = @ + 1],
           UNCHANGED plans
    PROVE  /\ \A u : Pending(u)' = Pending(u)
           /\ \A i \in JobIds : jobs'[i].kind = jobs[i].kind /\ jobs'[i].task = jobs[i].task
                                /\ jobs'[i].plan = jobs[i].plan
           /\ \A u : x \notin {"queued", "running"} => Active(u)' = Active(u) \ {j}
           /\ x \in {"queued", "running"} /\ jobs[j].status \in {"queued", "running"}
                => \A u : Active(u)' = Active(u)
  <1>1. jobs \in [JobIds -> Job]
    BY DEF TypeOK
  <1>2. /\ jobs'[j].status = x /\ jobs'[j].task = jobs[j].task /\ jobs'[j].kind = jobs[j].kind
        /\ jobs'[j].plan = jobs[j].plan
        /\ \A i \in JobIds : i # j => jobs'[i] = jobs[i]
    BY <1>1 DEF Job
  <1>3. \A i \in JobIds : jobs'[i].kind = jobs[i].kind /\ jobs'[i].task = jobs[i].task
                         /\ jobs'[i].plan = jobs[i].plan
    BY <1>2
  <1>4. \A u : Pending(u)' = Pending(u)
    BY DEF Pending
  <1>5. \A u : x \notin {"queued", "running"} => Active(u)' = Active(u) \ {j}
    BY <1>2 DEF Active
  <1>6. x \in {"queued", "running"} /\ jobs[j].status \in {"queued", "running"} =>
          \A i \in JobIds : /\ jobs'[i].task = jobs[i].task
                            /\ \/ jobs'[i].status = jobs[i].status
                               \/ /\ jobs'[i].status \in {"queued", "running"}
                                  /\ jobs[i].status \in {"queued", "running"}
    BY <1>2
  <1>7. ASSUME x \in {"queued", "running"}, jobs[j].status \in {"queued", "running"}
        PROVE  \A u : Active(u)' = Active(u)
    <2>1. \A i \in JobIds : /\ jobs'[i].task = jobs[i].task
                            /\ \/ jobs'[i].status = jobs[i].status
                               \/ /\ jobs'[i].status \in {"queued", "running"}
                                  /\ jobs[i].status \in {"queued", "running"}
      BY <1>6, <1>7
    <2>2. QED
      BY <2>1, ActiveStays
  <1>8. QED
    BY <1>3, <1>4, <1>5, <1>7

LEMMA JobAdded ==
    ASSUME TypeOK, NEW j \in JobIds, jobs[j].status = "absent",
           NEW row, row.status = "queued", jobs' = [jobs EXCEPT ![j] = row], UNCHANGED plans
    PROVE  /\ \A u : Pending(u)' = Pending(u)
           /\ Active(row.task)' = Active(row.task) \cup {j} /\ jobs'[j] = row
           /\ \A u : u # row.task => Active(u)' = Active(u)
           /\ \A u : \A i \in Active(u) : jobs'[i].kind = jobs[i].kind
  <1>1. jobs'[j] = row /\ \A i \in JobIds : i # j => jobs'[i] = jobs[i]
    BY DEF TypeOK
  <1>2. QED
    BY <1>1 DEF Active, Pending

LEMMA PlanWrite ==
    ASSUME TypeOK, NEW p \in PlanIds, NEW x \in Decided,
           plans' = [plans EXCEPT ![p].status = x], UNCHANGED jobs
    PROVE  /\ \A u : Pending(u)' = Pending(u) \ {p}
           /\ \A u : Active(u)' = Active(u)
           /\ \A q \in PlanIds : plans[q].status \in Decided => plans'[q].status \in Decided
  <1>1. plans \in [PlanIds -> Plan]
    BY DEF TypeOK
  <1>2. /\ plans'[p].status = x /\ plans'[p].task = plans[p].task
        /\ \A q \in PlanIds : q # p => plans'[q] = plans[q]
    BY <1>1 DEF Plan
  <1>3. x # "pending_approval"
    BY DEF Decided
  <1>4. QED
    BY <1>2, <1>3 DEF Active, Pending

LEMMA PlanAdded ==
    ASSUME TypeOK, NEW p \in PlanIds, plans[p].status = "absent",
           NEW row, row.status = "pending_approval", plans' = [plans EXCEPT ![p] = row],
           UNCHANGED jobs
    PROVE  /\ Pending(row.task)' = Pending(row.task) \cup {p} /\ plans'[p] = row
           /\ \A u : u # row.task => Pending(u)' = Pending(u)
           /\ \A u : Active(u)' = Active(u)
  <1>1. plans'[p] = row /\ \A q \in PlanIds : q # p => plans'[q] = plans[q]
    BY DEF TypeOK
  <1>2. QED
    BY <1>1 DEF Active, Pending

\* An active job of a task, a plan in the inbox: what its status can be.
LEMMA ActiveTells ==
    ASSUME NEW t, Tells(t), NEW j \in Active(t)
    PROVE  /\ j \in JobIds /\ jobs[j].task = t /\ jobs[j].status \in {"queued", "running"}
           /\ Active(t) = {j} /\ Pending(t) = {}
           /\ Says(t, {"planning", "executing"})
           /\ jobs[j].kind = "plan" => Says(t, {"planning"})
           /\ jobs[j].kind # "plan" => Says(t, {"executing"})
  <1>1. j \in JobIds /\ jobs[j].task = t /\ jobs[j].status \in {"queued", "running"}
    BY DEF Active
  <1>2. \/ Says(t, {"planning"}) /\ Busy(t, "plan")
        \/ Says(t, {"executing"}) /\ Busy(t, "execute")
    BY DEF Tells, Nothing, Deciding
  <1>3. QED
    BY <1>1, <1>2 DEF Busy, Says

LEMMA PendingTells ==
    ASSUME NEW t, Tells(t), NEW p \in Pending(t)
    PROVE  Deciding(t, p) /\ Says(t, {"awaiting_approval"})
  BY DEF Tells, Nothing, Deciding, Busy

\* The first call of the rest of a handler, and what is left after it.
LEMMA HeadsAndTails ==
    /\ \A a : <<a>> # <<>> /\ Head(<<a>>) = a /\ Tail(<<a>>) = <<>>
    /\ \A a, b : <<a, b>> # <<>> /\ Head(<<a, b>>) = a /\ Tail(<<a, b>>) = <<b>>
    /\ \A a, b, c : /\ <<a, b, c>> # <<>> /\ Head(<<a, b, c>>) = a
                    /\ Tail(<<a, b, c>>) = <<b, c>>
    /\ \A a, b, c, d : /\ <<a, b, c, d>> # <<>> /\ Head(<<a, b, c, d>>) = a
                       /\ Tail(<<a, b, c, d>>) = <<b, c, d>>
  <1>1. \A a : <<a>> # <<>> /\ Head(<<a>>) = a /\ Tail(<<a>>) = <<>>
    OBVIOUS
  <1>2. \A a, b : <<a, b>> # <<>> /\ Head(<<a, b>>) = a /\ Tail(<<a, b>>) = <<b>>
    OBVIOUS
  <1>3. \A a, b, c : <<a, b, c>> # <<>> /\ Head(<<a, b, c>>) = a /\ Tail(<<a, b, c>>) = <<b, c>>
    OBVIOUS
  <1>4. \A a, b, c, d : /\ <<a, b, c, d>> # <<>> /\ Head(<<a, b, c, d>>) = a
                        /\ Tail(<<a, b, c, d>>) = <<b, c, d>>
    OBVIOUS
  <1>5. QED
    BY <1>1, <1>2, <1>3, <1>4

LEMMA CallFields ==
    /\ \A a : GetAgent(a).op = "GetAgent" /\ GetAgent(a).agent = a
    /\ \A t, x : /\ SetTask(t, x).op = "SetTask" /\ SetTask(t, x).task = t
                 /\ SetTask(t, x).status = x
    /\ \A p, x, v : /\ UpdatePlan(p, x, v).op = "UpdatePlan" /\ UpdatePlan(p, x, v).plan = p
                    /\ UpdatePlan(p, x, v).status = x
    /\ \A j, x : /\ FinishJob(j, x).op = "FinishJob" /\ FinishJob(j, x).job = j
                 /\ FinishJob(j, x).status = x
    /\ \A k, t, p, a : /\ CreateJob(k, t, p, a).op = "CreateJob"
                       /\ CreateJob(k, t, p, a).kind = k /\ CreateJob(k, t, p, a).task = t
                       /\ CreateJob(k, t, p, a).plan = p /\ CreateJob(k, t, p, a).agent = a
  BY DEF GetAgent, SetTask, UpdatePlan, FinishJob, CreateJob

LEMMA FailJobParts ==
    ASSUME GateInv, NEW j \in JobIds
    PROVE  /\ FailJob(j) # <<>> /\ Head(FailJob(j)) = FinishJob(j, "failed")
           /\ \/ Tail(FailJob(j)) = <<SetTask(jobs[j].task, "failed")>>
              \/ \E p \in PlanIds :
                    /\ plans[p].status \in Decided
                    /\ Tail(FailJob(j)) = <<SetTask(jobs[j].task, "failed"),
                                            UpdatePlan(p, "failed", None)>>
  <1>1. TypeOK
    BY DEF GateInv
  <1>2. CASE jobs[j].plan = None
    BY <1>1, <1>2, FailJobIs, HeadsAndTails
  <1>3. CASE jobs[j].plan # None
    <2>1. PICK p \in PlanIds : p = jobs[j].plan /\ plans[p].status \in Decided
      BY <1>3, JobPlans
    <2>2. FailJob(j) = <<FinishJob(j, "failed"), SetTask(jobs[j].task, "failed"),
                         UpdatePlan(p, "failed", None)>>
      BY <1>1, <1>3, <2>1, FailJobIs
    <2>3. QED
      BY <2>1, <2>2, HeadsAndTails
  <1>4. QED
    BY <1>2, <1>3

LEMMA FailStaleParts ==
    ASSUME GateInv, NEW j \in JobIds, NEW f \in Call
    PROVE  /\ <<f>> \o FailJob(j) # <<>> /\ Head(<<f>> \o FailJob(j)) = f
           /\ Tail(<<f>> \o FailJob(j)) = FailJob(j)
  <1>1. FailJob(j) \in Seq(Call)
    BY FailJobProgram DEF GateInv
  <1> DEFINE u == FailJob(j)
  <1> HIDE DEF u
  <1>2. u \in Seq(Call) => /\ <<f>> \o u # <<>> /\ Head(<<f>> \o u) = f
                           /\ Tail(<<f>> \o u) = u
    OBVIOUS
  <1>3. QED
    BY <1>1, <1>2 DEF u

-----------------------------------------------------------------------------
(* Which call comes next, and what is left after it.                        *)

\* The calls that may come next in each part of the work.
LEMMA WorkHeads ==
    ASSUME GateInv, NEW s, NEW t
    PROVE  /\ ToQueue(s, t) => s # <<>> /\ Head(s).op \in {"CreateJob", "GetAgent"}
           /\ ToStart(s, t) => s # <<>> /\ Head(s).op \in {"GetAgent", "SetTask", "UpdateTask"}
           /\ ToApprove(s, t) => s # <<>> /\ Head(s).op \in {"UpdatePlan", "SetTask"}
           /\ ToReject(s, t) => s # <<>> /\ Head(s).op \in {"UpdatePlan", "SetTask"}
           /\ ToReplan(s, t) => s # <<>> /\ Head(s).op \in {"UpdatePlan", "SetTask"}
           /\ ToServe(s, t) => s # <<>> /\ Head(s).op \in {"BuildBundle", "Requeue", "FailStale"}
           /\ ToFail(s, t) => s # <<>> /\ Head(s).op \in {"FinishJob", "SetTask"}
           /\ ToNote(s, t) => s # <<>> /\ Head(s).op = "UpdatePlan"
           /\ ToPropose(s, t) => s # <<>> /\ Head(s).op \in
                {"LatestPlanVersion", "CreatePlan", "FinishJob", "Route", "SetTask"}
           /\ ToConclude(s, t) => s # <<>> /\ Head(s).op \in {"FinishJob", "UpdatePlan", "SetTask"}
  <1>1. ToQueue(s, t) => s # <<>> /\ Head(s).op \in {"CreateJob", "GetAgent"}
    BY HeadsAndTails, CallFields DEF ToQueue
  <1>2. ToStart(s, t) => s # <<>> /\ Head(s).op \in {"GetAgent", "SetTask", "UpdateTask"}
    BY HeadsAndTails, CallFields DEF ToStart
  <1>3. ToApprove(s, t) => s # <<>> /\ Head(s).op \in {"UpdatePlan", "SetTask"}
    BY HeadsAndTails, CallFields DEF ToApprove
  <1>4. ToReject(s, t) => s # <<>> /\ Head(s).op \in {"UpdatePlan", "SetTask"}
    BY HeadsAndTails, CallFields DEF ToReject
  <1>5. ToReplan(s, t) => s # <<>> /\ Head(s).op \in {"UpdatePlan", "SetTask"}
    BY HeadsAndTails, CallFields DEF ToReplan
  <1>6. ToServe(s, t) => s # <<>> /\ Head(s).op \in {"BuildBundle", "Requeue", "FailStale"}
    <2> SUFFICES ASSUME NEW j \in Active(t),
                        \/ s = <<[op |-> "BuildBundle", job |-> j, by |-> "remote"]>>
                        \/ s = <<[op |-> "Requeue", job |-> j]>>
                        \/ s = <<[op |-> "FailStale", job |-> j]>> \o FailJob(j)
                 PROVE  s # <<>> /\ Head(s).op \in {"BuildBundle", "Requeue", "FailStale"}
      BY DEF ToServe
    <2>1. j \in JobIds
      BY DEF Active
    <2>2. [op |-> "FailStale", job |-> j] \in Call
      BY <2>1, JobCalls
    <2>3. CASE s = <<[op |-> "FailStale", job |-> j]>> \o FailJob(j)
      BY <2>1, <2>2, <2>3, FailStaleParts
    <2>4. CASE \/ s = <<[op |-> "BuildBundle", job |-> j, by |-> "remote"]>>
               \/ s = <<[op |-> "Requeue", job |-> j]>>
      BY <2>4, HeadsAndTails
    <2>5. QED
      BY <2>3, <2>4
  <1>7. ToFail(s, t) => s # <<>> /\ Head(s).op \in {"FinishJob", "SetTask"}
    BY HeadsAndTails, CallFields, FailJobParts DEF ToFail
  <1>8. ToNote(s, t) => s # <<>> /\ Head(s).op = "UpdatePlan"
    BY HeadsAndTails, CallFields DEF ToNote
  <1>9. ToPropose(s, t) => s # <<>> /\ Head(s).op \in
          {"LatestPlanVersion", "CreatePlan", "FinishJob", "Route", "SetTask"}
    BY HeadsAndTails, CallFields DEF ToPropose
  <1>10. ToConclude(s, t) => s # <<>> /\ Head(s).op \in {"FinishJob", "UpdatePlan", "SetTask"}
    BY HeadsAndTails, CallFields DEF ToConclude
  <1>11. QED
    BY <1>1, <1>2, <1>3, <1>4, <1>5, <1>6, <1>7, <1>8, <1>9, <1>10

\* The moves of a task by its handler, and what is left after each.
LEMMA AtSetTask ==
    ASSUME GateInv, NEW s, NEW t, Work(s, t), s # <<>>, Head(s).op = "SetTask"
    PROVE  \E x : /\ Head(s) = SetTask(t, x)
                  /\ \/ /\ x = "planning" /\ Nothing(t)
                        /\ Says(t, {"inbox", "failed", "rejected", "awaiting_approval"})
                        /\ \E a \in AgentIds : \/ Tail(s) = <<CreateJob("plan", t, None, a)>>
                                               \/ Tail(s) = <<GetAgent(a), CreateJob("plan", t, None, a)>>
                     \/ /\ x = "executing" /\ Nothing(t)
                        /\ Says(t, {"planning", "awaiting_approval"})
                        /\ \E p \in PlanIds, a \in AgentIds :
                              Tail(s) = <<GetAgent(a), CreateJob("execute", t, p, a)>>
                     \/ /\ x = "rejected" /\ Nothing(t) /\ Says(t, {"awaiting_approval"})
                        /\ Tail(s) = <<>>
                     \/ /\ x = "failed" /\ Nothing(t) /\ Says(t, {"planning", "executing"})
                        /\ \/ Tail(s) = <<>>
                           \/ \E p \in PlanIds : /\ plans[p].status \in Decided
                                                 /\ Tail(s) = <<UpdatePlan(p, "failed", None)>>
                     \/ /\ x = "awaiting_approval" /\ Says(t, {"planning"})
                        /\ \E p \in PlanIds : Deciding(t, p)
                        /\ Tail(s) = <<>>
                     \/ /\ x = "done" /\ Nothing(t) /\ Says(t, {"executing"})
                        /\ Tail(s) = <<>>
  <1>1. CASE ToStart(s, t)
    <2>1. PICK a \in AgentIds : /\ Nothing(t) /\ Says(t, {"inbox", "failed", "rejected"})
                                /\ s = <<SetTask(t, "planning"), CreateJob("plan", t, None, a)>>
      BY <1>1, HeadsAndTails, CallFields DEF ToStart
    <2>2. QED
      BY <2>1, HeadsAndTails DEF Says
  <1>2. CASE ToApprove(s, t)
    <2>1. PICK p \in PlanIds, a \in AgentIds :
            /\ Nothing(t) /\ Says(t, {"planning", "awaiting_approval"})
            /\ s = <<SetTask(t, "executing"), GetAgent(a), CreateJob("execute", t, p, a)>>
      BY <1>2, HeadsAndTails, CallFields DEF ToApprove
    <2>2. QED
      BY <2>1, HeadsAndTails
  <1>3. CASE ToReject(s, t)
    <2>1. Nothing(t) /\ Says(t, {"awaiting_approval"}) /\ s = <<SetTask(t, "rejected")>>
      BY <1>3, HeadsAndTails, CallFields DEF ToReject
    <2>2. QED
      BY <2>1, HeadsAndTails
  <1>4. CASE ToReplan(s, t)
    <2>1. PICK a \in AgentIds :
            /\ Nothing(t) /\ Says(t, {"awaiting_approval"})
            /\ s = <<SetTask(t, "planning"), GetAgent(a), CreateJob("plan", t, None, a)>>
      BY <1>4, HeadsAndTails, CallFields DEF ToReplan
    <2>2. QED
      BY <2>1, HeadsAndTails DEF Says
  <1>5. CASE ToFail(s, t)
    <2>1. /\ Nothing(t) /\ Says(t, {"planning", "executing"})
          /\ \/ s = <<SetTask(t, "failed")>>
             \/ \E p \in PlanIds :
                   /\ plans[p].status \in Decided
                   /\ s = <<SetTask(t, "failed"), UpdatePlan(p, "failed", None)>>
      BY <1>5, FailJobParts, CallFields DEF ToFail
    <2>2. Head(s) = SetTask(t, "failed")
      BY <2>1, HeadsAndTails
    <2>3. \/ Tail(s) = <<>>
          \/ \E p \in PlanIds : /\ plans[p].status \in Decided
                                /\ Tail(s) = <<UpdatePlan(p, "failed", None)>>
      BY <2>1, HeadsAndTails
    <2>4. QED
      BY <2>1, <2>2, <2>3
  <1>6. CASE ToPropose(s, t)
    <2>1. PICK p \in PlanIds : /\ Deciding(t, p) /\ Says(t, {"planning"})
                               /\ s = <<SetTask(t, "awaiting_approval")>>
      BY <1>6, HeadsAndTails, CallFields DEF ToPropose
    <2>2. QED
      BY <2>1, HeadsAndTails
  <1>7. CASE ToConclude(s, t)
    <2>1. PICK y \in {"done", "failed"} : Nothing(t) /\ Says(t, {"executing"}) /\ s = <<SetTask(t, y)>>
      BY <1>7, HeadsAndTails, CallFields DEF ToConclude
    <2>2. QED
      BY <2>1, HeadsAndTails DEF Says
  <1>8. QED
    BY <1>1, <1>2, <1>3, <1>4, <1>5, <1>6, <1>7, WorkHeads DEF Work

LEMMA AtFinishJob ==
    ASSUME GateInv, NEW s, NEW t, Work(s, t), s # <<>>, Head(s).op = "FinishJob"
    PROVE  \E j \in JobIds :
             /\ Head(s) \in {FinishJob(j, "done"), FinishJob(j, "failed")}
             /\ jobs[j].task = t /\ Active(t) \subseteq {j}
             /\ \/ /\ Says(t, {"planning", "executing"}) /\ Pending(t) = {}
                   /\ \/ Tail(s) = <<SetTask(t, "failed")>>
                      \/ \E p \in PlanIds :
                            /\ plans[p].status \in Decided
                            /\ Tail(s) = <<SetTask(t, "failed"), UpdatePlan(p, "failed", None)>>
                \/ \E p \in PlanIds :
                      /\ Says(t, {"planning"}) /\ Pending(t) = {p}
                      /\ Tail(s) = <<[op |-> "Route", plan |-> p]>>
                \/ \E p \in PlanIds, x \in {"completed", "failed"}, y \in {"done", "failed"} :
                      /\ Says(t, {"executing"}) /\ Pending(t) = {} /\ plans[p].status \in Decided
                      /\ Tail(s) = <<UpdatePlan(p, x, None), SetTask(t, y)>>
  <1>1. CASE ToFail(s, t)
    <2>1. PICK j \in JobIds : /\ Says(t, {"planning", "executing"}) /\ jobs[j].task = t
                              /\ Active(t) \subseteq {j} /\ Pending(t) = {} /\ s = FailJob(j)
      BY <1>1, HeadsAndTails, CallFields DEF ToFail
    <2>2. Head(s) = FinishJob(j, "failed")
      BY <2>1, FailJobParts
    <2>3. \/ Tail(s) = <<SetTask(t, "failed")>>
          \/ \E p \in PlanIds :
                /\ plans[p].status \in Decided
                /\ Tail(s) = <<SetTask(t, "failed"), UpdatePlan(p, "failed", None)>>
      BY <2>1, FailJobParts
    <2>4. QED
      BY <2>1, <2>2, <2>3
  <1>2. CASE ToPropose(s, t)
    <2>1. PICK j \in JobIds, p \in PlanIds :
            /\ Says(t, {"planning"}) /\ Active(t) = {j} /\ Pending(t) = {p}
            /\ s = <<FinishJob(j, "done"), [op |-> "Route", plan |-> p]>>
      BY <1>2, HeadsAndTails, CallFields DEF ToPropose
    <2>2. jobs[j].task = t
      BY <2>1 DEF Active
    <2>3. QED
      BY <2>1, <2>2, HeadsAndTails
  <1>3. CASE ToConclude(s, t)
    <2>1. PICK j \in JobIds, p \in PlanIds, x \in {"completed", "failed"}, y \in {"done", "failed"} :
            /\ Says(t, {"executing"}) /\ plans[p].status \in Decided
            /\ Active(t) = {j} /\ Pending(t) = {}
            /\ s = <<FinishJob(j, "done"), UpdatePlan(p, x, None), SetTask(t, y)>>
      BY <1>3, HeadsAndTails, CallFields DEF ToConclude
    <2>2. jobs[j].task = t
      BY <2>1 DEF Active
    <2>3. QED
      BY <2>1, <2>2, HeadsAndTails
  <1>4. QED
    BY <1>1, <1>2, <1>3, WorkHeads DEF Work

LEMMA AtUpdatePlan ==
    ASSUME GateInv, NEW s, NEW t, Work(s, t), s # <<>>, Head(s).op = "UpdatePlan"
    PROVE  \E p \in PlanIds, x \in Decided, v \in Decisions \cup {None} :
             /\ Head(s) = UpdatePlan(p, x, v)
             /\ \/ /\ Deciding(t, p) /\ Says(t, {"planning", "awaiting_approval"})
                   /\ \E a \in AgentIds :
                         Tail(s) = <<SetTask(t, "executing"), GetAgent(a),
                                     CreateJob("execute", t, p, a)>>
                \/ /\ Deciding(t, p) /\ Says(t, {"awaiting_approval"})
                   /\ Tail(s) = <<SetTask(t, "rejected")>>
                \/ /\ Deciding(t, p) /\ Says(t, {"awaiting_approval"})
                   /\ \E a \in AgentIds :
                         Tail(s) = <<SetTask(t, "planning"), GetAgent(a),
                                     CreateJob("plan", t, None, a)>>
                \/ plans[p].status \in Decided /\ Tells(t) /\ Tail(s) = <<>>
                \/ /\ plans[p].status \in Decided /\ Nothing(t) /\ Says(t, {"executing"})
                   /\ \E y \in {"done", "failed"} : Tail(s) = <<SetTask(t, y)>>
  <1>1. /\ {"approved", "rejected", "superseded", "completed", "failed"} \subseteq Decided
        /\ {"approve", "reject", "request_changes"} \subseteq Decisions
    BY DEF Decided, PlanStatus, Decisions
  <1>2. CASE ToApprove(s, t)
    <2>1. PICK p \in PlanIds, a \in AgentIds :
            /\ Deciding(t, p) /\ Says(t, {"planning", "awaiting_approval"})
            /\ s = <<UpdatePlan(p, "approved", "approve"), SetTask(t, "executing"),
                     GetAgent(a), CreateJob("execute", t, p, a)>>
      BY <1>2, HeadsAndTails, CallFields DEF ToApprove
    <2>2. QED
      BY <1>1, <2>1, HeadsAndTails
  <1>3. CASE ToReject(s, t)
    <2>1. PICK p \in PlanIds :
            /\ Deciding(t, p) /\ Says(t, {"awaiting_approval"})
            /\ s = <<UpdatePlan(p, "rejected", "reject"), SetTask(t, "rejected")>>
      BY <1>3, HeadsAndTails, CallFields DEF ToReject
    <2>2. QED
      BY <1>1, <2>1, HeadsAndTails
  <1>4. CASE ToReplan(s, t)
    <2>1. PICK p \in PlanIds, a \in AgentIds :
            /\ Deciding(t, p) /\ Says(t, {"awaiting_approval"})
            /\ s = <<UpdatePlan(p, "superseded", "request_changes"), SetTask(t, "planning"),
                     GetAgent(a), CreateJob("plan", t, None, a)>>
      BY <1>4, HeadsAndTails, CallFields DEF ToReplan
    <2>2. QED
      BY <1>1, <2>1, HeadsAndTails
  <1>5. CASE ToNote(s, t)
    <2>1. PICK p \in PlanIds, x \in Decided :
            Tells(t) /\ plans[p].status \in Decided /\ s = <<UpdatePlan(p, x, None)>>
      BY <1>5 DEF ToNote
    <2>2. QED
      BY <2>1, HeadsAndTails
  <1>6. CASE ToConclude(s, t)
    <2>1. PICK p \in PlanIds, x \in {"completed", "failed"}, y \in {"done", "failed"} :
            /\ Says(t, {"executing"}) /\ plans[p].status \in Decided /\ Nothing(t)
            /\ s = <<UpdatePlan(p, x, None), SetTask(t, y)>>
      BY <1>6, HeadsAndTails, CallFields DEF ToConclude
    <2>2. QED
      BY <1>1, <2>1, HeadsAndTails
  <1>7. QED
    BY <1>2, <1>3, <1>4, <1>5, <1>6, WorkHeads DEF Work

-----------------------------------------------------------------------------
(* What every step of the one handler at work has to show.                  *)

LEMMA SerialAdvance ==
    ASSUME ReadyInv, ReadyInv', Refs', NEW h \in Threads, Idle \/ handlers[h] # <<>>,
           NEW calls, handlers' = [handlers EXCEPT ![h] = calls],
           NEW t \in TaskIds, Work(calls, t)', \A u \in TaskIds \ {t} : Tells(u)'
    PROVE  SerialInv'
  <1>1. handlers \in [Threads -> Seq(Call)]
    BY DEF ReadyInv, GateInv, TypeOK
  <1>2. handlers'[h] = calls /\ \A g \in Threads : g # h => handlers'[g] = <<>>
    BY <1>1 DEF ReadyInv, OneBusy, Idle
  <1>3. ASSUME NEW g \in Threads, handlers'[g] # <<>>
        PROVE  Serves(handlers[g])'
    <2>1. handlers'[g] = calls
      BY <1>2, <1>3
    <2>2. QED
      BY <2>1 DEF Serves
  <1>4. ASSUME Idle'
        PROVE  \A u \in TaskIds : Tells(u)'
    <2>1. calls = <<>>
      BY <1>2, <1>4 DEF Idle
    <2>2. Tells(t)'
      BY <2>1 DEF Work
    <2>3. QED
      BY <2>2
  <1>5. QED
    BY <1>3, <1>4 DEF SerialInv

LEMMA SerialQuiet ==
    ASSUME ReadyInv', Refs', Idle, UNCHANGED handlers, \A u \in TaskIds : Tells(u)'
    PROVE  SerialInv'
  <1>1. \A h \in Threads : handlers'[h] = <<>>
    BY DEF Idle
  <1>2. QED
    BY <1>1 DEF SerialInv

\* What is left of a handler does not depend on the tables it does not name.
LEMMA WorkSame ==
    ASSUME tasks' = tasks, plans' = plans, jobs' = jobs, NEW s, NEW t, Work(s, t)
    PROVE  Work(s, t)'
  <1>1. Active(t)' = Active(t) /\ Pending(t)' = Pending(t)
    BY DEF Active, Pending
  <1>2. \A x : Says(t, x) => Says(t, x)'
    BY DEF Says
  <1>3. /\ Nothing(t) => Nothing(t)'
        /\ \A p : Deciding(t, p) => Deciding(t, p)'
    BY <1>1 DEF Nothing, Deciding
  <1>4. Tells(t) => Tells(t)'
    BY TablesSame, TellsSame
  <1>5. \A j : FailJob(j)' = FailJob(j)
    BY DEF FailJob
  <1>6. ToQueue(s, t) => ToQueue(s, t)'
    BY <1>2, <1>3 DEF ToQueue
  <1>7. ToStart(s, t) => ToStart(s, t)'
    BY <1>2, <1>3 DEF ToStart
  <1>8. ToApprove(s, t) => ToApprove(s, t)'
    BY <1>2, <1>3 DEF ToApprove
  <1>9. ToReject(s, t) => ToReject(s, t)'
    BY <1>2, <1>3 DEF ToReject
  <1>10. ToReplan(s, t) => ToReplan(s, t)'
    BY <1>2, <1>3 DEF ToReplan
  <1>11. ToServe(s, t) => ToServe(s, t)'
    BY <1>1, <1>4, <1>5 DEF ToServe
  <1>12. ToFail(s, t) => ToFail(s, t)'
    BY <1>1, <1>2, <1>3, <1>5 DEF ToFail
  <1>13. ToNote(s, t) => ToNote(s, t)'
    BY <1>4 DEF ToNote
  <1>14. ToPropose(s, t) => ToPropose(s, t)'
    BY <1>1, <1>2, <1>3 DEF ToPropose
  <1>15. ToConclude(s, t) => ToConclude(s, t)'
    BY <1>1, <1>2, <1>3 DEF ToConclude
  <1>16. QED
    BY <1>4, <1>6, <1>7, <1>8, <1>9, <1>10, <1>11, <1>12, <1>13, <1>14, <1>15 DEF Work

LEMMA RefsKept ==
    ASSUME Refs, embedded' = embedded,
           \A a \in AgentIds : agents'[a].present = agents[a].present,
           \A j \in JobIds : /\ jobs'[j].task = jobs[j].task /\ jobs'[j].plan = jobs[j].plan
                             /\ jobs'[j].agent = jobs[j].agent
                             /\ jobs[j].status = "absent" <=> jobs'[j].status = "absent",
           \A p \in PlanIds : /\ plans'[p].task = plans[p].task /\ plans'[p].agent = plans[p].agent
                              /\ plans[p].status = "absent" => plans'[p].status = "absent"
    PROVE  Refs'
  BY DEF Refs

\* A step that writes no table of tasks, plans or jobs.
LEMMA SerialReads ==
    ASSUME SerialInv, ReadyInv', NEW h \in Threads, Idle \/ handlers[h] # <<>>,
           NEW calls, handlers' = [handlers EXCEPT ![h] = calls],
           tasks' = tasks, plans' = plans, jobs' = jobs, agents' = agents, embedded' = embedded,
           NEW t \in TaskIds, Work(calls, t), \A u \in TaskIds \ {t} : Tells(u)
    PROVE  SerialInv'
  <1>1. Refs'
    BY RefsKept DEF SerialInv
  <1>2. Work(calls, t)'
    BY WorkSame
  <1>3. \A u \in TaskIds \ {t} : Tells(u)'
    BY TablesSame, TellsSame
  <1>4. QED
    BY <1>1, <1>2, <1>3, SerialAdvance DEF SerialInv

\* The handler at work, its task, and the other tasks.
LEMMA AtServe ==
    ASSUME SerialInv, NEW h \in Threads, handlers[h] # <<>>
    PROVE  \E s, t : /\ s = handlers[h] /\ s \in Seq(Call) /\ s # <<>>
                     /\ t \in TaskIds /\ Work(s, t) /\ \A u \in TaskIds \ {t} : Tells(u)
  <1>1. handlers[h] \in Seq(Call)
    BY AtWork DEF SerialInv
  <1>2. Serves(handlers[h])
    BY DEF SerialInv
  <1>3. QED
    BY <1>1, <1>2 DEF Serves

-----------------------------------------------------------------------------
(* The store calls of the one handler at work.                              *)

\* What a handler whose next call is this one is at.
LEMMA AtGetAgent ==
    ASSUME GateInv, NEW s, NEW t, Work(s, t), s # <<>>, Head(s).op = "GetAgent"
    PROVE  /\ Head(s).agent \in AgentIds /\ Tail(s) # <<>>
           /\ ToQueue(Tail(s), t) \/ ToStart(Tail(s), t)
  <1>1. CASE ToQueue(s, t)
    <2>1. PICK k \in Kinds, p \in PlanRefs, a \in AgentIds :
            /\ Nothing(t) /\ Says(t, {Meant(k)})
            /\ \/ s = <<CreateJob(k, t, p, a)>>
               \/ s = <<GetAgent(a), CreateJob(k, t, p, a)>>
      BY <1>1 DEF ToQueue
    <2>2. s # <<CreateJob(k, t, p, a)>>
      <3>1. CreateJob(k, t, p, a).op = "CreateJob"
        BY DEF CreateJob
      <3>2. Head(<<CreateJob(k, t, p, a)>>) = CreateJob(k, t, p, a)
        BY HeadsAndTails
      <3>3. QED
        BY <3>1, <3>2
    <2>3. Head(s) = GetAgent(a) /\ Tail(s) = <<CreateJob(k, t, p, a)>> /\ Tail(s) # <<>>
      <3>1. s = <<GetAgent(a), CreateJob(k, t, p, a)>>
        BY <2>1, <2>2
      <3>2. QED
        BY <3>1, HeadsAndTails
    <2>4. ToQueue(Tail(s), t)
      BY <2>1, <2>3 DEF ToQueue
    <2>5. QED
      BY <2>3, <2>4, CallFields
  <1>2. CASE ToStart(s, t)
    <2>1. PICK a \in AgentIds :
            /\ Nothing(t) /\ Says(t, {"inbox", "failed", "rejected"})
            /\ s = <<GetAgent(a), SetTask(t, "planning"), CreateJob("plan", t, None, a)>>
      BY <1>2, HeadsAndTails, CallFields DEF ToStart
    <2>2. /\ Head(s) = GetAgent(a) /\ Tail(s) # <<>>
          /\ Tail(s) = <<SetTask(t, "planning"), CreateJob("plan", t, None, a)>>
      BY <2>1, HeadsAndTails
    <2>3. ToStart(Tail(s), t)
      BY <2>1, <2>2 DEF ToStart
    <2>4. QED
      BY <2>2, <2>3, CallFields
  <1>3. QED
    BY <1>1, <1>2, WorkHeads DEF Work

LEMMA SerialGetAgent ==
    ASSUME SerialInv, ReadyInv', NEW h \in Threads, DoGetAgent(h)
    PROVE  SerialInv'
  <1>1. handlers[h] # <<>> /\ Head(handlers[h]).op = "GetAgent"
    BY DEF DoGetAgent, At
  <1>2. PICK s, t : /\ s = handlers[h] /\ s # <<>>
                    /\ t \in TaskIds /\ Work(s, t) /\ \A u \in TaskIds \ {t} : Tells(u)
    BY <1>1, AtServe
  <1>3. /\ Head(s).agent \in AgentIds /\ Tail(s) # <<>>
        /\ ToQueue(Tail(s), t) \/ ToStart(Tail(s), t)
    BY <1>1, <1>2, AtGetAgent DEF SerialInv, ReadyInv
  <1>4. agents[Head(s).agent].present
    BY <1>3 DEF SerialInv, Refs
  <1>5. PICK calls : calls = Tail(s)
    OBVIOUS
  <1>6. handlers' = [handlers EXCEPT ![h] = calls]
    BY <1>2, <1>4, <1>5 DEF DoGetAgent, Then
  <1>7. Work(calls, t)
    BY <1>3, <1>5 DEF Work
  <1>8. QED
    BY <1>1, <1>2, <1>6, <1>7, SerialReads DEF DoGetAgent

LEMMA SerialSetTask ==
    ASSUME SerialInv, ReadyInv', NEW h \in Threads, DoSetTask(h)
    PROVE  SerialInv'
  <1>1. handlers[h] # <<>> /\ Head(handlers[h]).op = "SetTask"
    BY DEF DoSetTask, At
  <1>2. PICK s, t : /\ s = handlers[h] /\ s # <<>>
                    /\ t \in TaskIds /\ Work(s, t) /\ \A u \in TaskIds \ {t} : Tells(u)
    BY <1>1, AtServe
  <1>3. PICK x :
          /\ Head(s) = SetTask(t, x)
          /\ \/ /\ x = "planning" /\ Nothing(t)
                /\ \E a \in AgentIds : \/ Tail(s) = <<CreateJob("plan", t, None, a)>>
                                       \/ Tail(s) = <<GetAgent(a), CreateJob("plan", t, None, a)>>
             \/ /\ x = "executing" /\ Nothing(t)
                /\ \E p \in PlanIds, a \in AgentIds :
                      Tail(s) = <<GetAgent(a), CreateJob("execute", t, p, a)>>
             \/ /\ x \in {"rejected", "failed", "done"} /\ Nothing(t)
                /\ \/ Tail(s) = <<>>
                   \/ \E p \in PlanIds : /\ plans[p].status \in Decided
                                         /\ Tail(s) = <<UpdatePlan(p, "failed", None)>>
             \/ /\ x = "awaiting_approval" /\ Tail(s) = <<>>
                /\ \E p \in PlanIds : Deciding(t, p)
    <2>1. GateInv
      BY DEF SerialInv, ReadyInv
    <2>2. QED
      BY <1>1, <1>2, <2>1, AtSetTask
  <1>4. PICK calls : calls = Tail(s)
    OBVIOUS
  <1>5. /\ handlers' = [handlers EXCEPT ![h] = calls]
        /\ tasks' = [tasks EXCEPT ![t].status = IF @ = "deleted" THEN @ ELSE x]
        /\ plans' = plans /\ jobs' = jobs /\ agents' = agents /\ embedded' = embedded
    <2>1. Head(s).task = t /\ Head(s).status = x
      BY <1>3, CallFields
    <2>2. QED
      BY <1>2, <1>4, <2>1 DEF DoSetTask, Then
  <1>6. tasks \in [TaskIds -> Task]
    BY DEF SerialInv, ReadyInv, GateInv, TypeOK
  <1>7. /\ tasks'[t].status \in {x, "deleted"}
        /\ \A u \in TaskIds \ {t} : tasks'[u].status = tasks[u].status
    BY <1>2, <1>5, <1>6 DEF Task
  <1>8. Active(t)' = Active(t) /\ Pending(t)' = Pending(t)
    BY <1>5 DEF Active, Pending
  <1>9. Work(calls, t)'
    <2>1. Nothing(t) => Nothing(t)'
      BY <1>8 DEF Nothing
    <2>2. ASSUME x = "planning", Nothing(t), NEW a \in AgentIds,
                 \/ calls = <<CreateJob("plan", t, None, a)>>
                 \/ calls = <<GetAgent(a), CreateJob("plan", t, None, a)>>
          PROVE  Work(calls, t)'
      <3>1. Says(t, {Meant("plan")})'
        BY <1>7, <2>2 DEF Says, Meant
      <3>2. ToQueue(calls, t)' /\ calls # <<>>
        BY <2>1, <2>2, <3>1, HeadsAndTails DEF ToQueue, Kinds, PlanRefs
      <3>3. QED
        BY <3>2 DEF Work
    <2>3. ASSUME x = "executing", Nothing(t), NEW p \in PlanIds, NEW a \in AgentIds,
                 calls = <<GetAgent(a), CreateJob("execute", t, p, a)>>
          PROVE  Work(calls, t)'
      <3>1. Says(t, {Meant("execute")})'
        BY <1>7, <2>3 DEF Says, Meant
      <3>2. ToQueue(calls, t)' /\ calls # <<>>
        BY <2>1, <2>3, <3>1, HeadsAndTails DEF ToQueue, Kinds, PlanRefs
      <3>3. QED
        BY <3>2 DEF Work
    <2>4. ASSUME x \in {"rejected", "failed", "done"}, Nothing(t)
          PROVE  Tells(t)'
      BY <1>7, <2>1, <2>4 DEF Tells, Says
    <2>5. ASSUME Tells(t)', NEW p \in PlanIds, plans[p].status \in Decided,
                 calls = <<UpdatePlan(p, "failed", None)>>
          PROVE  Work(calls, t)'
      <3>1. "failed" \in Decided /\ plans'[p].status \in Decided
        BY <1>5, <2>5 DEF Decided, PlanStatus
      <3>2. ToNote(calls, t)' /\ calls # <<>>
        BY <2>5, <3>1, HeadsAndTails DEF ToNote
      <3>3. QED
        BY <3>2 DEF Work
    <2>6. ASSUME x = "awaiting_approval", NEW p \in PlanIds, Deciding(t, p)
          PROVE  Tells(t)'
      BY <1>7, <1>8, <2>6 DEF Tells, Says, Deciding
    <2>7. Tells(t)' /\ calls = <<>> => Work(calls, t)'
      BY DEF Work
    <2>8. QED
      BY <1>3, <1>4, <2>2, <2>3, <2>4, <2>5, <2>6, <2>7
  <1>10. \A u \in TaskIds \ {t} : Tells(u)'
    BY <1>2, <1>5, <1>7, TablesSame, TellsSame
  <1>11. Refs'
    BY <1>5, RefsKept DEF SerialInv
  <1>12. QED
    BY <1>1, <1>2, <1>5, <1>9, <1>10, <1>11, SerialAdvance DEF SerialInv

LEMMA SerialUpdateTask ==
    ASSUME SerialInv, ReadyInv', NEW h \in Threads, DoUpdateTask(h)
    PROVE  SerialInv'
  <1>1. handlers[h] # <<>> /\ Head(handlers[h]).op = "UpdateTask"
    BY DEF DoUpdateTask, At
  <1>2. PICK s, t : /\ s = handlers[h] /\ s # <<>>
                    /\ t \in TaskIds /\ Work(s, t) /\ \A u \in TaskIds \ {t} : Tells(u)
    BY <1>1, AtServe
  <1>3. ToStart(s, t)
    BY <1>1, <1>2, WorkHeads DEF Work, SerialInv, ReadyInv
  <1> DEFINE c(a) == [op |-> "UpdateTask", task |-> t, status |-> tasks[t].status, agent |-> a]
  <1>4. PICK a \in AgentIds :
          /\ Nothing(t) /\ Says(t, {"inbox", "failed", "rejected"})
          /\ tasks[t].status # "deleted"
          /\ s = <<c(a), GetAgent(a), SetTask(t, "planning"), CreateJob("plan", t, None, a)>>
    BY <1>1, <1>2, <1>3, HeadsAndTails, CallFields DEF ToStart
  <1>5. /\ Head(s) = c(a)
        /\ Tail(s) = <<GetAgent(a), SetTask(t, "planning"), CreateJob("plan", t, None, a)>>
    BY <1>4, HeadsAndTails
  <1>6. Exists(t)
    BY <1>4 DEF Exists, LiveStatus, TaskStatus, Says
  <1>7. PICK calls : calls = Tail(s)
    OBVIOUS
  <1>8. /\ handlers' = [handlers EXCEPT ![h] = calls]
        /\ tasks' = [tasks EXCEPT ![t] = [status |-> tasks[t].status, agent |-> a]]
        /\ plans' = plans /\ jobs' = jobs /\ agents' = agents /\ embedded' = embedded
    BY <1>2, <1>5, <1>6, <1>7 DEF DoUpdateTask, Then
  <1>9. tasks \in [TaskIds -> Task]
    BY DEF SerialInv, ReadyInv, GateInv, TypeOK
  <1>10. \A u \in TaskIds : tasks'[u].status = tasks[u].status
    BY <1>2, <1>8, <1>9
  <1>11. Work(calls, t)'
    <2>1. Nothing(t)'
      BY <1>4, <1>8 DEF Nothing, Active, Pending
    <2>2. Says(t, {"inbox", "failed", "rejected"})'
      BY <1>2, <1>4, <1>10 DEF Says
    <2>3. ToStart(calls, t)' /\ calls # <<>>
      BY <1>5, <1>7, <2>1, <2>2, HeadsAndTails DEF ToStart
    <2>4. QED
      BY <2>3 DEF Work
  <1>12. \A u \in TaskIds \ {t} : Tells(u)'
    BY <1>2, <1>8, <1>10, TablesSame, TellsSame
  <1>13. Refs'
    BY <1>8, RefsKept DEF SerialInv
  <1>14. QED
    BY <1>1, <1>2, <1>8, <1>11, <1>12, <1>13, SerialAdvance DEF SerialInv

LEMMA SerialCreateJob ==
    ASSUME SerialInv, ReadyInv', NEW h \in Threads, DoCreateJob(h)
    PROVE  SerialInv'
  <1>1. handlers[h] # <<>> /\ Head(handlers[h]).op = "CreateJob"
    BY DEF DoCreateJob, At
  <1>2. PICK s, t : /\ s = handlers[h] /\ s # <<>>
                    /\ t \in TaskIds /\ Work(s, t) /\ \A u \in TaskIds \ {t} : Tells(u)
    BY <1>1, AtServe
  <1>3. ToQueue(s, t)
    BY <1>1, <1>2, WorkHeads DEF Work, SerialInv, ReadyInv
  <1>4. PICK k \in Kinds, p \in PlanRefs, a \in AgentIds :
          /\ Nothing(t) /\ Says(t, {Meant(k)})
          /\ s = <<CreateJob(k, t, p, a)>> \/ s = <<GetAgent(a), CreateJob(k, t, p, a)>>
    BY <1>3 DEF ToQueue
  <1>5. s = <<CreateJob(k, t, p, a)>>
    <2>1. GetAgent(a).op # "CreateJob"
      BY DEF GetAgent
    <2>2. \A c : Head(<<GetAgent(a), c>>) = GetAgent(a)
      BY HeadsAndTails
    <2>3. s # <<GetAgent(a), CreateJob(k, t, p, a)>>
      BY <1>1, <1>2, <2>1, <2>2
    <2>4. QED
      BY <1>4, <2>3
  <1>6. Head(s) = CreateJob(k, t, p, a) /\ Tail(s) = <<>>
    BY <1>5, HeadsAndTails
  <1> DEFINE row == [status |-> "queued", kind |-> k, task |-> t, plan |-> p, agent |-> a,
                     attempts |-> 0]
  <1>7. PICK calls : calls = <<>>
    OBVIOUS
  <1>8. PICK j \in Free(jobs) : jobs' = [jobs EXCEPT ![j] = row]
    <2>1. PICK j \in Free(jobs) :
            jobs' = [jobs EXCEPT ![j] = [status |-> "queued", kind |-> Head(s).kind,
                                         task |-> Head(s).task, plan |-> Head(s).plan,
                                         agent |-> Head(s).agent, attempts |-> 0]]
      BY <1>2 DEF DoCreateJob
    <2>2. /\ Head(s).kind = k /\ Head(s).task = t /\ Head(s).plan = p /\ Head(s).agent = a
      BY <1>6, CallFields
    <2>3. QED
      BY <2>1, <2>2
  <1>9. /\ handlers' = [handlers EXCEPT ![h] = calls]
        /\ tasks' = tasks /\ plans' = plans /\ agents' = agents /\ embedded' = embedded
    BY <1>2, <1>6, <1>7 DEF DoCreateJob, Then
  <1>10. /\ row.status = "queued" /\ row.kind = k /\ row.task = t /\ row.agent = a
    OBVIOUS
  <1> HIDE DEF row
  <1>11. TypeOK /\ jobs \in [JobIds -> Job] /\ j \in JobIds /\ jobs[j].status = "absent"
    BY <1>8 DEF SerialInv, ReadyInv, GateInv, TypeOK, Free
  <1>12. /\ \A u : Pending(u)' = Pending(u)
         /\ Active(t)' = Active(t) \cup {j} /\ jobs'[j] = row
         /\ \A u : u # t => Active(u)' = Active(u)
         /\ \A u : \A i \in Active(u) : jobs'[i].kind = jobs[i].kind
    BY <1>8, <1>9, <1>10, <1>11, JobAdded
  <1>13. Tells(t)'
    <2>1. Active(t)' = {j} /\ Pending(t)' = {} /\ jobs'[j].kind = k
      BY <1>4, <1>10, <1>12 DEF Nothing
    <2>2. Says(t, {Meant(k)})'
      BY <1>4, <1>9 DEF Says
    <2>3. CASE k = "plan"
      BY <1>11, <2>1, <2>2, <2>3 DEF Tells, Busy, Meant
    <2>4. CASE k = "execute"
      BY <1>11, <2>1, <2>2, <2>4 DEF Tells, Busy, Meant
    <2>5. QED
      BY <1>4, <2>3, <2>4 DEF Kinds
  <1>14. Work(calls, t)'
    BY <1>7, <1>13 DEF Work
  <1>15. ASSUME NEW u \in TaskIds \ {t}
         PROVE  Tells(u)'
    <2>1. Same(u)
      BY <1>9, <1>12, <1>15 DEF Same
    <2>2. QED
      BY <1>2, <1>15, <2>1, TellsSame
  <1>16. Refs'
    <2>1. \A i \in JobIds : i # j => jobs'[i] = jobs[i]
      BY <1>8, <1>11
    <2>2. jobs'[j].status # "absent" /\ jobs'[j].task \in TaskIds /\ jobs'[j].agent \in AgentIds
      BY <1>2, <1>10, <1>12
    <2>3. QED
      BY <1>9, <2>1, <2>2 DEF SerialInv, Refs
  <1>17. QED
    BY <1>1, <1>2, <1>9, <1>14, <1>15, <1>16, SerialAdvance DEF SerialInv

LEMMA SerialUpdatePlan ==
    ASSUME SerialInv, ReadyInv', NEW h \in Threads, DoUpdatePlan(h)
    PROVE  SerialInv'
  <1>1. handlers[h] # <<>> /\ Head(handlers[h]).op = "UpdatePlan"
    BY DEF DoUpdatePlan, At
  <1>2. PICK s, t : /\ s = handlers[h] /\ s # <<>>
                    /\ t \in TaskIds /\ Work(s, t) /\ \A u \in TaskIds \ {t} : Tells(u)
    BY <1>1, AtServe
  <1>3. PICK p \in PlanIds, x \in Decided, v \in Decisions \cup {None} :
          /\ Head(s) = UpdatePlan(p, x, v)
          /\ \/ /\ Deciding(t, p) /\ Says(t, {"planning", "awaiting_approval"})
                /\ \E a \in AgentIds :
                      Tail(s) = <<SetTask(t, "executing"), GetAgent(a),
                                  CreateJob("execute", t, p, a)>>
             \/ /\ Deciding(t, p) /\ Says(t, {"awaiting_approval"})
                /\ Tail(s) = <<SetTask(t, "rejected")>>
             \/ /\ Deciding(t, p) /\ Says(t, {"awaiting_approval"})
                /\ \E a \in AgentIds :
                      Tail(s) = <<SetTask(t, "planning"), GetAgent(a),
                                  CreateJob("plan", t, None, a)>>
             \/ plans[p].status \in Decided /\ Tells(t) /\ Tail(s) = <<>>
             \/ /\ plans[p].status \in Decided /\ Nothing(t) /\ Says(t, {"executing"})
                /\ \E y \in {"done", "failed"} : Tail(s) = <<SetTask(t, y)>>
    BY <1>1, <1>2, AtUpdatePlan DEF SerialInv, ReadyInv
  <1>4. PICK calls : calls = Tail(s)
    OBVIOUS
  <1>5. /\ handlers' = [handlers EXCEPT ![h] = calls]
        /\ plans' = [plans EXCEPT ![p].status = x]
        /\ tasks' = tasks /\ jobs' = jobs /\ agents' = agents /\ embedded' = embedded
    <2>1. Head(s).plan = p /\ Head(s).status = x
      BY <1>3, CallFields
    <2>2. QED
      BY <1>2, <1>4, <2>1 DEF DoUpdatePlan, Then
  <1>6. TypeOK /\ plans \in [PlanIds -> Plan]
    BY DEF SerialInv, ReadyInv, GateInv, TypeOK
  <1>7. /\ \A u : Pending(u)' = Pending(u) \ {p}
        /\ \A u : Active(u)' = Active(u)
        /\ \A q \in PlanIds : plans[q].status \in Decided => plans'[q].status \in Decided
    BY <1>5, <1>6, PlanWrite
  <1>8. \A z : Says(t, z) => Says(t, z)'
    BY <1>5 DEF Says
  <1>9. \A u : p \notin Pending(u) => Same(u)
    BY <1>5, <1>7 DEF Same
  <1>10. Deciding(t, p) \/ plans[p].status \in Decided
    BY <1>3
  <1>11. \A u : u # t => p \notin Pending(u)
    BY <1>10 DEF Deciding, Pending, Decided
  <1>12. plans[p].status # "absent"
    BY <1>10 DEF Deciding, Pending, Decided
  <1>13. Work(calls, t)'
    <2>1. Deciding(t, p) => Nothing(t)'
      BY <1>7 DEF Deciding, Nothing
    <2>2. ASSUME Deciding(t, p), Says(t, {"planning", "awaiting_approval"}), NEW a \in AgentIds,
                 calls = <<SetTask(t, "executing"), GetAgent(a), CreateJob("execute", t, p, a)>>
          PROVE  Work(calls, t)'
      <3>1. ToApprove(calls, t)' /\ calls # <<>>
        BY <1>8, <2>1, <2>2, HeadsAndTails DEF ToApprove
      <3>2. QED
        BY <3>1 DEF Work
    <2>3. ASSUME Deciding(t, p), Says(t, {"awaiting_approval"}), calls = <<SetTask(t, "rejected")>>
          PROVE  Work(calls, t)'
      <3>1. ToReject(calls, t)' /\ calls # <<>>
        BY <1>8, <2>1, <2>3, HeadsAndTails DEF ToReject
      <3>2. QED
        BY <3>1 DEF Work
    <2>4. ASSUME Deciding(t, p), Says(t, {"awaiting_approval"}), NEW a \in AgentIds,
                 calls = <<SetTask(t, "planning"), GetAgent(a), CreateJob("plan", t, None, a)>>
          PROVE  Work(calls, t)'
      <3>1. ToReplan(calls, t)' /\ calls # <<>>
        BY <1>8, <2>1, <2>4, HeadsAndTails DEF ToReplan
      <3>2. QED
        BY <3>1 DEF Work
    <2>5. ASSUME plans[p].status \in Decided, Tells(t), calls = <<>>
          PROVE  Work(calls, t)'
      <3>1. p \notin Pending(t)
        BY <2>5 DEF Pending, Decided
      <3>2. Tells(t)'
        BY <1>9, <2>5, <3>1, TellsSame
      <3>3. QED
        BY <2>5, <3>2 DEF Work
    <2>6. ASSUME plans[p].status \in Decided, Nothing(t), Says(t, {"executing"}),
                 NEW y \in {"done", "failed"}, calls = <<SetTask(t, y)>>
          PROVE  Work(calls, t)'
      <3>1. Nothing(t)' /\ Says(t, {"executing"})' /\ plans'[p].status \in Decided
        BY <1>7, <1>8, <2>6 DEF Nothing
      <3>2. ToConclude(calls, t)' /\ calls # <<>>
        BY <2>6, <3>1, HeadsAndTails DEF ToConclude
      <3>3. QED
        BY <3>2 DEF Work
    <2>7. QED
      BY <1>3, <1>4, <2>2, <2>3, <2>4, <2>5, <2>6
  <1>14. \A u \in TaskIds \ {t} : Tells(u)'
    BY <1>2, <1>9, <1>11, TellsSame
  <1>15. Refs'
    <2>1. \A q \in PlanIds : /\ plans'[q].task = plans[q].task /\ plans'[q].agent = plans[q].agent
                             /\ plans[q].status = "absent" => plans'[q].status = "absent"
      BY <1>5, <1>6, <1>12 DEF Plan
    <2>2. \A q \in PlanIds : plans'[q].status # "absent" => plans[q].status # "absent"
      BY <2>1
    <2>3. QED
      BY <1>5, <2>1, <2>2 DEF SerialInv, Refs
  <1>16. QED
    BY <1>1, <1>2, <1>5, <1>13, <1>14, <1>15, SerialAdvance DEF SerialInv

\* The calls of completePlanJob, up to the row of the plan and on to its routing.
LEMMA AtPropose ==
    ASSUME GateInv, NEW s, NEW t, Work(s, t), s # <<>>,
           Head(s).op \in {"LatestPlanVersion", "CreatePlan", "Route"}
    PROVE  /\ Says(t, {"planning"})
           /\ \/ \E j \in JobIds :
                    /\ Active(t) = {j} /\ Pending(t) = {} /\ jobs[j].kind = "plan"
                    /\ \/ Head(s) = [op |-> "LatestPlanVersion", job |-> j]
                       \/ \E v \in Nat : Head(s) = [op |-> "CreatePlan", job |-> j, version |-> v]
              \/ \E p \in PlanIds : Deciding(t, p) /\ Head(s) = [op |-> "Route", plan |-> p]
  <1>1. ToPropose(s, t)
    BY WorkHeads DEF Work
  <1>2. ASSUME NEW j \in JobIds, NEW p \in PlanIds,
               s = <<FinishJob(j, "done"), [op |-> "Route", plan |-> p]>>
        PROVE  FALSE
    <2>1. FinishJob(j, "done").op = "FinishJob" /\ Head(s) = FinishJob(j, "done")
      BY <1>2, HeadsAndTails, CallFields
    <2>2. QED
      BY <2>1
  <1>3. s # <<SetTask(t, "awaiting_approval")>>
    <2>1. /\ SetTask(t, "awaiting_approval").op = "SetTask"
          /\ Head(<<SetTask(t, "awaiting_approval")>>) = SetTask(t, "awaiting_approval")
      BY HeadsAndTails, CallFields
    <2>2. QED
      BY <2>1
  <1>4. \A c : s = <<c>> => Head(s) = c
    BY HeadsAndTails
  <1>5. QED
    BY <1>1, <1>2, <1>3, <1>4 DEF ToPropose

LEMMA SerialVersion ==
    ASSUME SerialInv, ReadyInv', NEW h \in Threads, DoLatestPlanVersion(h)
    PROVE  SerialInv'
  <1>1. handlers[h] # <<>> /\ Head(handlers[h]).op = "LatestPlanVersion"
    BY DEF DoLatestPlanVersion, At
  <1>2. PICK s, t : /\ s = handlers[h] /\ s # <<>>
                    /\ t \in TaskIds /\ Work(s, t) /\ \A u \in TaskIds \ {t} : Tells(u)
    BY <1>1, AtServe
  <1>3. PICK j \in JobIds : /\ Says(t, {"planning"}) /\ Head(s).job = j
                            /\ Active(t) = {j} /\ Pending(t) = {} /\ jobs[j].kind = "plan"
    BY <1>1, <1>2, AtPropose DEF SerialInv, ReadyInv
  <1>4. PICK latest \in Versions(jobs[j].task) :
          Then(h, <<[op |-> "CreatePlan", job |-> j, version |-> latest + 1]>>)
    BY <1>2, <1>3 DEF DoLatestPlanVersion
  <1>5. latest + 1 \in Nat
    <2>1. \A q \in PlanIds : plans[q].version \in Nat
      BY RowsRefer DEF SerialInv, ReadyInv, GateInv
    <2>2. QED
      BY <2>1 DEF Versions
  <1>6. PICK calls : calls = <<[op |-> "CreatePlan", job |-> j, version |-> latest + 1]>>
    OBVIOUS
  <1>7. ToPropose(calls, t) /\ calls # <<>>
    BY <1>3, <1>5, <1>6, HeadsAndTails DEF ToPropose
  <1>8. Work(calls, t) /\ handlers' = [handlers EXCEPT ![h] = calls]
    BY <1>4, <1>6, <1>7 DEF Work, Then
  <1>9. QED
    BY <1>1, <1>2, <1>8, SerialReads DEF DoLatestPlanVersion

LEMMA SerialCreatePlan ==
    ASSUME SerialInv, ReadyInv', NEW h \in Threads, DoCreatePlan(h)
    PROVE  SerialInv'
  <1>1. handlers[h] # <<>> /\ Head(handlers[h]).op = "CreatePlan"
    BY DEF DoCreatePlan, At
  <1>2. PICK s, t : /\ s = handlers[h] /\ s # <<>>
                    /\ t \in TaskIds /\ Work(s, t) /\ \A u \in TaskIds \ {t} : Tells(u)
    BY <1>1, AtServe
  <1>3. PICK j \in JobIds : /\ Says(t, {"planning"}) /\ Head(s).job = j
                            /\ Active(t) = {j} /\ Pending(t) = {} /\ jobs[j].kind = "plan"
    BY <1>1, <1>2, AtPropose DEF SerialInv, ReadyInv
  <1>4. jobs[j].task = t /\ jobs[j].agent \in AgentIds
    BY <1>3 DEF Active, SerialInv, Refs
  <1> DEFINE row == [status |-> "pending_approval", task |-> jobs[j].task,
                     agent |-> jobs[j].agent, version |-> Head(s).version]
  <1>5. PICK p \in Free(plans) :
          plans' = [plans EXCEPT ![p] = row] /\ Then(h, AfterCreatePlan(j, p))
    BY <1>2, <1>3 DEF DoCreatePlan
  <1>6. row.status = "pending_approval" /\ row.task = t /\ row.agent \in AgentIds
    BY <1>4
  <1> HIDE DEF row
  <1>7. TypeOK /\ plans \in [PlanIds -> Plan] /\ p \in PlanIds /\ plans[p].status = "absent"
    BY <1>5 DEF SerialInv, ReadyInv, GateInv, TypeOK, Free
  <1>8. tasks' = tasks /\ jobs' = jobs /\ agents' = agents /\ embedded' = embedded
    BY DEF DoCreatePlan
  <1>9. /\ Pending(t)' = Pending(t) \cup {p} /\ plans'[p] = row
        /\ \A u : u # t => Pending(u)' = Pending(u)
        /\ \A u : Active(u)' = Active(u)
    BY <1>5, <1>6, <1>7, <1>8, PlanAdded
  <1>10. PICK calls : calls = AfterCreatePlan(j, p)
    OBVIOUS
  <1>11. handlers' = [handlers EXCEPT ![h] = calls]
    BY <1>5, <1>10 DEF Then
  <1>12. Work(calls, t)'
    <2>1. Active(t)' = {j} /\ Pending(t)' = {p} /\ Says(t, {"planning"})'
      BY <1>3, <1>8, <1>9 DEF Says
    <2>2. calls = <<FinishJob(j, "done"), [op |-> "Route", plan |-> p]>> /\ calls # <<>>
      BY <1>10, HeadsAndTails DEF AfterCreatePlan
    <2>3. ToPropose(calls, t)'
      BY <1>7, <2>1, <2>2 DEF ToPropose
    <2>4. QED
      BY <2>2, <2>3 DEF Work
  <1>13. ASSUME NEW u \in TaskIds \ {t}
         PROVE  Tells(u)'
    <2>1. Same(u)
      BY <1>8, <1>9, <1>13 DEF Same
    <2>2. QED
      BY <1>2, <1>13, <2>1, TellsSame
  <1>14. Refs'
    <2>1. \A q \in PlanIds : q # p => plans'[q] = plans[q]
      BY <1>5, <1>7
    <2>2. QED
      BY <1>2, <1>6, <1>8, <1>9, <2>1 DEF SerialInv, Refs
  <1>15. QED
    BY <1>1, <1>2, <1>11, <1>12, <1>13, <1>14, SerialAdvance DEF SerialInv

\* The plan in the inbox of a task, decided by a human or for an autonomous agent.
LEMMA DecisionWorks ==
    ASSUME SerialInv, NEW t \in TaskIds, NEW p \in PlanIds, Deciding(t, p)
    PROVE  /\ plans[p].task = t /\ plans[p].agent \in AgentIds
           /\ Says(t, {"planning", "awaiting_approval"}) => Work(ApprovePlan(p), t)
           /\ Says(t, {"awaiting_approval"}) =>
                Work(RejectPlan(p), t) /\ Work(RequestChanges(p), t)
  <1>1. plans[p].task = t /\ plans[p].status = "pending_approval"
    BY DEF Deciding, Pending
  <1>2. PICK a \in AgentIds : a = plans[p].agent
    BY <1>1 DEF SerialInv, Refs
  <1>3. ASSUME Says(t, {"planning", "awaiting_approval"})
        PROVE  Work(ApprovePlan(p), t)
    <2>1. PICK s : s = ApprovePlan(p)
      OBVIOUS
    <2>2. s = <<UpdatePlan(p, "approved", "approve"), SetTask(t, "executing"),
                GetAgent(a), CreateJob("execute", t, p, a)>>
      BY <1>1, <1>2, <2>1 DEF ApprovePlan
    <2>3. ToApprove(s, t) /\ s # <<>>
      BY <1>3, <2>2, HeadsAndTails DEF ToApprove
    <2>4. QED
      BY <2>1, <2>3 DEF Work
  <1>4. ASSUME Says(t, {"awaiting_approval"})
        PROVE  Work(RejectPlan(p), t) /\ Work(RequestChanges(p), t)
    <2>1. PICK s : s = RejectPlan(p)
      OBVIOUS
    <2>2. s = <<UpdatePlan(p, "rejected", "reject"), SetTask(t, "rejected")>>
      BY <1>1, <2>1 DEF RejectPlan
    <2>3. ToReject(s, t) /\ s # <<>>
      BY <1>4, <2>2, HeadsAndTails DEF ToReject
    <2>4. PICK r : r = RequestChanges(p)
      OBVIOUS
    <2>5. r = <<UpdatePlan(p, "superseded", "request_changes"), SetTask(t, "planning"),
                GetAgent(a), CreateJob("plan", t, None, a)>>
      BY <1>1, <1>2, <2>4 DEF RequestChanges
    <2>6. ToReplan(r, t) /\ r # <<>>
      BY <1>4, <2>5, HeadsAndTails DEF ToReplan
    <2>7. QED
      BY <2>1, <2>3, <2>4, <2>6 DEF Work
  <1>5. QED
    BY <1>1, <1>2, <1>3, <1>4

LEMMA SerialRoute ==
    ASSUME SerialInv, ReadyInv', NEW h \in Threads, DoRoute(h)
    PROVE  SerialInv'
  <1>1. handlers[h] # <<>> /\ Head(handlers[h]).op = "Route"
    BY DEF DoRoute, At
  <1>2. PICK s, t : /\ s = handlers[h] /\ s # <<>>
                    /\ t \in TaskIds /\ Work(s, t) /\ \A u \in TaskIds \ {t} : Tells(u)
    BY <1>1, AtServe
  <1>3. PICK p \in PlanIds : /\ Says(t, {"planning"}) /\ Deciding(t, p)
                             /\ Head(s) = [op |-> "Route", plan |-> p]
    BY <1>1, <1>2, AtPropose DEF SerialInv, ReadyInv
  <1>4. /\ plans[p].task = t /\ plans[p].agent \in AgentIds /\ agents[plans[p].agent].present
        /\ Work(ApprovePlan(p), t)
    <2>1. Says(t, {"planning", "awaiting_approval"})
      BY <1>3 DEF Says
    <2>2. QED
      BY <1>2, <1>3, <2>1, DecisionWorks DEF SerialInv, Refs
  <1>5. PICK calls : /\ handlers' = [handlers EXCEPT ![h] = calls]
                     /\ \/ calls = ApprovePlan(p)
                        \/ calls = <<SetTask(t, "awaiting_approval")>>
    <2>1. Head(handlers[h]).plan = p
      BY <1>2, <1>3
    <2>2. \/ handlers' = [handlers EXCEPT ![h] = ApprovePlan(p)]
          \/ handlers' = [handlers EXCEPT ![h] = <<SetTask(t, "awaiting_approval")>>]
      BY <1>4, <2>1 DEF DoRoute, Then
    <2>3. QED
      BY <2>2
  <1>6. Work(calls, t)
    <2>1. ASSUME calls = <<SetTask(t, "awaiting_approval")>>
          PROVE  Work(calls, t)
      <3>1. ToPropose(calls, t) /\ calls # <<>>
        BY <1>3, <2>1, HeadsAndTails DEF ToPropose
      <3>2. QED
        BY <3>1 DEF Work
    <2>2. QED
      BY <1>4, <1>5, <2>1
  <1>7. QED
    BY <1>1, <1>2, <1>5, <1>6, SerialReads DEF DoRoute

LEMMA JobWriteRefs ==
    ASSUME Refs, TypeOK, NEW j \in JobIds, NEW x, x # "absent", jobs[j].task \in TaskIds,
           \/ jobs' = [jobs EXCEPT ![j].status = x]
           \/ jobs' = [jobs EXCEPT ![j].status = x, ![j].attempts = @ + 1],
           plans' = plans, agents' = agents, embedded' = embedded
    PROVE  Refs'
  <1>1. jobs \in [JobIds -> Job]
    BY DEF TypeOK
  <1>2. /\ jobs'[j].status = x /\ jobs'[j].task = jobs[j].task
        /\ jobs'[j].plan = jobs[j].plan /\ jobs'[j].agent = jobs[j].agent
        /\ \A i \in JobIds : i # j => jobs'[i] = jobs[i]
    BY <1>1 DEF Job
  <1>3. jobs[j].status # "absent"
    BY OrchestratorAssumption DEF Refs
  <1>4. QED
    BY <1>2, <1>3 DEF Refs

\* A job that is queued or running stays so.
LEMMA JobStaysActive ==
    ASSUME TypeOK, NEW j \in JobIds, jobs[j].status \in {"queued", "running"},
           NEW x \in {"queued", "running"},
           \/ jobs' = [jobs EXCEPT ![j].status = x]
           \/ jobs' = [jobs EXCEPT ![j].status = x, ![j].attempts = @ + 1],
           tasks' = tasks, plans' = plans
    PROVE  /\ \A u \in TaskIds : Tells(u) => Tells(u)'
           /\ \A u : Active(u)' = Active(u)
  <1>1. /\ \A u : Pending(u)' = Pending(u)
        /\ \A u : Active(u)' = Active(u)
        /\ \A i \in JobIds : jobs'[i].kind = jobs[i].kind
    BY JobWrite
  <1>2. ASSUME NEW u, Tells(u)
        PROVE  Tells(u)'
    <2>1. Active(u) \subseteq JobIds
      BY DEF Active
    <2>2. Same(u)
      BY <1>1, <2>1 DEF Same
    <2>3. QED
      BY <1>2, <2>2, TellsSame
  <1>3. QED
    BY <1>1, <1>2

\* What the loop and the claims hand on.
LEMMA AtToServe ==
    ASSUME GateInv, NEW s, NEW t, Work(s, t), s # <<>>,
           Head(s).op \in {"BuildBundle", "Requeue", "FailStale"}
    PROVE  \E j \in Active(t) :
             /\ Tells(t)
             /\ \/ Head(s) = [op |-> "BuildBundle", job |-> j, by |-> "remote"]
                \/ Head(s) = [op |-> "Requeue", job |-> j] /\ Tail(s) = <<>>
                \/ Head(s) = [op |-> "FailStale", job |-> j] /\ Tail(s) = FailJob(j)
  <1>1. ToServe(s, t)
    BY WorkHeads DEF Work
  <1>2. PICK j \in Active(t) :
          /\ Tells(t)
          /\ \/ s = <<[op |-> "BuildBundle", job |-> j, by |-> "remote"]>>
             \/ s = <<[op |-> "Requeue", job |-> j]>>
             \/ s = <<[op |-> "FailStale", job |-> j]>> \o FailJob(j)
    BY <1>1 DEF ToServe
  <1>3. j \in JobIds
    BY DEF Active
  <1>4. PICK f \in Call : f = [op |-> "FailStale", job |-> j]
    BY <1>3, JobCalls
  <1>5. s = <<f>> \o FailJob(j) => Head(s) = f /\ Tail(s) = FailJob(j)
    BY <1>3, FailStaleParts
  <1>6. \A c : s = <<c>> => Head(s) = c /\ Tail(s) = <<>>
    BY HeadsAndTails
  <1>7. CASE s = <<[op |-> "FailStale", job |-> j]>> \o FailJob(j)
    BY <1>2, <1>4, <1>5, <1>7
  <1>8. CASE s = <<[op |-> "Requeue", job |-> j]>>
    BY <1>2, <1>6, <1>8
  <1>9. CASE s = <<[op |-> "BuildBundle", job |-> j, by |-> "remote"]>>
    BY <1>2, <1>6, <1>9
  <1>10. QED
    BY <1>2, <1>7, <1>8, <1>9

LEMMA FailWorks ==
    ASSUME GateInv, NEW t, NEW j \in JobIds, jobs[j].task = t, Active(t) \subseteq {j},
           Pending(t) = {}, Says(t, {"planning", "executing"})
    PROVE  Work(FailJob(j), t)
  <1>1. PICK s : s = FailJob(j)
    OBVIOUS
  <1>2. ToFail(s, t) /\ s # <<>>
    BY <1>1, FailJobParts DEF ToFail
  <1>3. QED
    BY <1>1, <1>2 DEF Work

LEMMA SerialFinishJob ==
    ASSUME SerialInv, ReadyInv', NEW h \in Threads, DoFinishJob(h)
    PROVE  SerialInv'
  <1>1. handlers[h] # <<>> /\ Head(handlers[h]).op = "FinishJob"
    BY DEF DoFinishJob, At
  <1>2. PICK s, t : /\ s = handlers[h] /\ s # <<>>
                    /\ t \in TaskIds /\ Work(s, t) /\ \A u \in TaskIds \ {t} : Tells(u)
    BY <1>1, AtServe
  <1>3. PICK j \in JobIds :
          /\ Head(s) \in {FinishJob(j, "done"), FinishJob(j, "failed")}
          /\ jobs[j].task = t /\ Active(t) \subseteq {j}
          /\ \/ /\ Says(t, {"planning", "executing"}) /\ Pending(t) = {}
                /\ \/ Tail(s) = <<SetTask(t, "failed")>>
                   \/ \E p \in PlanIds :
                         /\ plans[p].status \in Decided
                         /\ Tail(s) = <<SetTask(t, "failed"), UpdatePlan(p, "failed", None)>>
             \/ \E p \in PlanIds :
                   /\ Says(t, {"planning"}) /\ Pending(t) = {p}
                   /\ Tail(s) = <<[op |-> "Route", plan |-> p]>>
             \/ \E p \in PlanIds, x \in {"completed", "failed"}, y \in {"done", "failed"} :
                   /\ Says(t, {"executing"}) /\ Pending(t) = {} /\ plans[p].status \in Decided
                   /\ Tail(s) = <<UpdatePlan(p, x, None), SetTask(t, y)>>
    BY <1>1, <1>2, AtFinishJob DEF SerialInv, ReadyInv
  <1>4. PICK z \in {"done", "failed"} : Head(s) = FinishJob(j, z)
    BY <1>3
  <1>5. PICK calls : calls = Tail(s)
    OBVIOUS
  <1>6. /\ handlers' = [handlers EXCEPT ![h] = calls]
        /\ jobs' = [jobs EXCEPT ![j].status = z]
        /\ tasks' = tasks /\ plans' = plans /\ agents' = agents /\ embedded' = embedded
    <2>1. Head(s).job = j /\ Head(s).status = z
      BY <1>4, CallFields
    <2>2. QED
      BY <1>2, <1>5, <2>1 DEF DoFinishJob, Then
  <1>7. TypeOK
    BY DEF SerialInv, ReadyInv, GateInv
  <1>8. /\ \A u : Pending(u)' = Pending(u)
        /\ \A u : Active(u)' = Active(u) \ {j}
        /\ \A i \in JobIds : jobs'[i].kind = jobs[i].kind
    BY <1>6, <1>7, JobWrite
  <1>9. \A w : Says(t, w) => Says(t, w)'
    BY <1>6 DEF Says
  <1>10. Active(t)' = {} /\ Pending(t)' = Pending(t)
    BY <1>3, <1>8
  <1>11. Pending(t) = {} => Nothing(t)'
    BY <1>10 DEF Nothing
  <1>12. \A p : plans'[p].status = plans[p].status
    BY <1>6
  <1>13. Work(calls, t)'
    <2>1. ASSUME Says(t, {"planning", "executing"}), Pending(t) = {},
                 calls = <<SetTask(t, "failed")>>
          PROVE  Work(calls, t)'
      <3>1. ToFail(calls, t)' /\ calls # <<>>
        BY <1>9, <1>11, <2>1, HeadsAndTails DEF ToFail
      <3>2. QED
        BY <3>1 DEF Work
    <2>2. ASSUME Says(t, {"planning", "executing"}), Pending(t) = {},
                 NEW p \in PlanIds, plans[p].status \in Decided,
                 calls = <<SetTask(t, "failed"), UpdatePlan(p, "failed", None)>>
          PROVE  Work(calls, t)'
      <3>1. ToFail(calls, t)' /\ calls # <<>>
        BY <1>9, <1>11, <1>12, <2>2, HeadsAndTails DEF ToFail
      <3>2. QED
        BY <3>1 DEF Work
    <2>3. ASSUME NEW p \in PlanIds, Says(t, {"planning"}), Pending(t) = {p},
                 calls = <<[op |-> "Route", plan |-> p]>>
          PROVE  Work(calls, t)'
      <3>1. Deciding(t, p)' /\ Says(t, {"planning"})'
        BY <1>9, <1>10, <2>3 DEF Deciding
      <3>2. ToPropose(calls, t)' /\ calls # <<>>
        BY <2>3, <3>1, HeadsAndTails DEF ToPropose
      <3>3. QED
        BY <3>2 DEF Work
    <2>4. ASSUME NEW p \in PlanIds, NEW x \in {"completed", "failed"},
                 NEW y \in {"done", "failed"}, Says(t, {"executing"}), Pending(t) = {},
                 plans[p].status \in Decided,
                 calls = <<UpdatePlan(p, x, None), SetTask(t, y)>>
          PROVE  Work(calls, t)'
      <3>1. ToConclude(calls, t)' /\ calls # <<>>
        BY <1>9, <1>11, <1>12, <2>4, HeadsAndTails DEF ToConclude
      <3>2. QED
        BY <3>1 DEF Work
    <2>5. QED
      BY <1>3, <1>5, <2>1, <2>2, <2>3, <2>4
  <1>14. ASSUME NEW u \in TaskIds \ {t}
         PROVE  Tells(u)'
    <2>1. j \notin Active(u)
      BY <1>3, <1>14 DEF Active
    <2>2. Active(u) \subseteq JobIds
      BY DEF Active
    <2>3. Same(u)
      BY <1>6, <1>8, <2>1, <2>2 DEF Same
    <2>4. QED
      BY <1>2, <1>14, <2>3, TellsSame
  <1>15. Refs'
    BY <1>2, <1>3, <1>4, <1>6, <1>7, JobWriteRefs DEF SerialInv
  <1>16. QED
    BY <1>1, <1>2, <1>6, <1>13, <1>14, <1>15, SerialAdvance DEF SerialInv

LEMMA SerialBundle ==
    ASSUME SerialInv, ReadyInv', NEW h \in Threads, DoBuildBundle(h)
    PROVE  SerialInv'
  <1>1. handlers[h] # <<>> /\ Head(handlers[h]).op = "BuildBundle"
    BY DEF DoBuildBundle, At
  <1>2. PICK s, t : /\ s = handlers[h] /\ s # <<>>
                    /\ t \in TaskIds /\ Work(s, t) /\ \A u \in TaskIds \ {t} : Tells(u)
    BY <1>1, AtServe
  <1>3. PICK j \in Active(t) : Tells(t) /\ Head(s) = [op |-> "BuildBundle", job |-> j, by |-> "remote"]
    BY <1>1, <1>2, AtToServe DEF SerialInv, ReadyInv
  <1>4. /\ j \in JobIds /\ jobs[j].task = t /\ Active(t) = {j} /\ Pending(t) = {}
        /\ Says(t, {"planning", "executing"})
    BY <1>3, ActiveTells
  <1>5. PICK calls : /\ handlers' = [handlers EXCEPT ![h] = calls]
                     /\ calls = <<>> \/ calls = FailJob(j)
    <2>1. Head(handlers[h]).job = j
      BY <1>2, <1>3
    <2>2. Then(h, <<>>) \/ Then(h, FailJob(j))
      BY <2>1 DEF DoBuildBundle
    <2>3. QED
      BY <2>2 DEF Then
  <1>6. /\ tasks' = tasks /\ plans' = plans /\ jobs' = jobs /\ agents' = agents
        /\ embedded' = embedded
    <2>1. Head(handlers[h]).by = "remote"
      BY <1>2, <1>3
    <2>2. QED
      BY <2>1 DEF DoBuildBundle
  <1>7. Work(FailJob(j), t)
    BY <1>4, FailWorks DEF SerialInv, ReadyInv
  <1>8. Work(calls, t)
    BY <1>3, <1>5, <1>7 DEF Work
  <1>9. QED
    BY <1>1, <1>2, <1>5, <1>6, <1>8, SerialReads

LEMMA SerialRequeue ==
    ASSUME SerialInv, ReadyInv', NEW h \in Threads, DoRequeue(h)
    PROVE  SerialInv'
  <1>1. handlers[h] # <<>> /\ Head(handlers[h]).op = "Requeue"
    BY DEF DoRequeue, At
  <1>2. PICK s, t : /\ s = handlers[h] /\ s # <<>>
                    /\ t \in TaskIds /\ Work(s, t) /\ \A u \in TaskIds \ {t} : Tells(u)
    BY <1>1, AtServe
  <1>3. PICK j \in Active(t) : /\ Tells(t) /\ Tail(s) = <<>>
                               /\ Head(s) = [op |-> "Requeue", job |-> j]
    BY <1>1, <1>2, AtToServe DEF SerialInv, ReadyInv
  <1>4. j \in JobIds /\ jobs[j].task = t /\ jobs[j].status \in {"queued", "running"}
    BY <1>3 DEF Active
  <1>5. PICK calls : calls = <<>>
    OBVIOUS
  <1>6. /\ handlers' = [handlers EXCEPT ![h] = calls]
        /\ jobs' = [jobs EXCEPT ![j].status = "queued"]
        /\ tasks' = tasks /\ plans' = plans /\ agents' = agents /\ embedded' = embedded
    <2>1. Head(handlers[h]).job = j
      BY <1>2, <1>3
    <2>2. QED
      BY <1>2, <1>3, <1>5, <2>1 DEF DoRequeue, Then
  <1>7. TypeOK
    BY DEF SerialInv, ReadyInv, GateInv
  <1>8. \A u \in TaskIds : Tells(u) => Tells(u)'
    BY <1>4, <1>6, <1>7, JobStaysActive
  <1>9. Work(calls, t)'
    BY <1>2, <1>3, <1>5, <1>8 DEF Work
  <1>10. Refs'
    BY <1>2, <1>4, <1>6, <1>7, JobWriteRefs DEF SerialInv
  <1>11. QED
    BY <1>1, <1>2, <1>6, <1>8, <1>9, <1>10, SerialAdvance DEF SerialInv

LEMMA SerialFailStale ==
    ASSUME SerialInv, ReadyInv', NEW h \in Threads, DoFailStale(h)
    PROVE  SerialInv'
  <1>1. handlers[h] # <<>> /\ Head(handlers[h]).op = "FailStale"
    BY DEF DoFailStale, At
  <1>2. PICK s, t : /\ s = handlers[h] /\ s # <<>>
                    /\ t \in TaskIds /\ Work(s, t) /\ \A u \in TaskIds \ {t} : Tells(u)
    BY <1>1, AtServe
  <1>3. PICK j \in Active(t) : /\ Tells(t) /\ Tail(s) = FailJob(j)
                               /\ Head(s) = [op |-> "FailStale", job |-> j]
    BY <1>1, <1>2, AtToServe DEF SerialInv, ReadyInv
  <1>4. /\ j \in JobIds /\ jobs[j].task = t /\ Active(t) = {j} /\ Pending(t) = {}
        /\ Says(t, {"planning", "executing"})
    BY <1>3, ActiveTells
  <1>5. PICK calls : calls = FailJob(j)
    OBVIOUS
  <1>6. /\ handlers' = [handlers EXCEPT ![h] = calls]
        /\ jobs' = [jobs EXCEPT ![j].status = "failed"]
        /\ tasks' = tasks /\ plans' = plans /\ agents' = agents /\ embedded' = embedded
    <2>1. Head(handlers[h]).job = j
      BY <1>2, <1>3
    <2>2. QED
      BY <1>2, <1>3, <1>5, <2>1 DEF DoFailStale, Then
  <1>7. TypeOK
    BY DEF SerialInv, ReadyInv, GateInv
  <1>8. /\ \A u : Pending(u)' = Pending(u)
        /\ \A u : Active(u)' = Active(u) \ {j}
        /\ \A i \in JobIds : /\ jobs'[i].kind = jobs[i].kind /\ jobs'[i].task = jobs[i].task
                             /\ jobs'[i].plan = jobs[i].plan
    <2>1. PICK x : x = "failed"
      OBVIOUS
    <2>2. x \notin {"queued", "running"} /\ jobs' = [jobs EXCEPT ![j].status = x]
      BY <1>6, <2>1
    <2>3. QED
      BY <1>4, <1>6, <1>7, <2>2, JobWrite
  <1>9. Work(calls, t)'
    <2>1. calls = FailJob(j)'
      BY <1>4, <1>5, <1>8 DEF FailJob
    <2>2. calls # <<>>
      BY <1>4, <1>5, FailJobParts DEF SerialInv, ReadyInv
    <2>3. Says(t, {"planning", "executing"})'
      BY <1>4, <1>6 DEF Says
    <2>4. jobs'[j].task = t /\ Active(t)' = {} /\ Pending(t)' = {}
      BY <1>4, <1>8
    <2>5. ToFail(calls, t)'
      BY <1>4, <2>1, <2>3, <2>4 DEF ToFail
    <2>6. QED
      BY <2>2, <2>5 DEF Work
  <1>10. ASSUME NEW u \in TaskIds \ {t}
         PROVE  Tells(u)'
    <2>1. j \notin Active(u)
      BY <1>4, <1>10 DEF Active
    <2>2. Active(u) \subseteq JobIds
      BY DEF Active
    <2>3. Same(u)
      BY <1>6, <1>8, <2>1, <2>2 DEF Same
    <2>4. QED
      BY <1>2, <1>10, <2>3, TellsSame
  <1>11. Refs'
    BY <1>2, <1>4, <1>6, <1>7, JobWriteRefs DEF SerialInv
  <1>12. QED
    BY <1>1, <1>2, <1>6, <1>9, <1>10, <1>11, SerialAdvance DEF SerialInv

-----------------------------------------------------------------------------
(* Requests begin when no handler is at work, so that every task tells.     *)

LEMMA OneAndThree ==
    ASSUME NEW S, NEW a \in S, NEW b \in S, NEW c \in S, NEW d \in S
    PROVE  <<a>> \o <<b, c, d>> = <<a, b, c, d>>
  <1> DEFINE x == <<a>>
             y == <<b, c, d>>
             w == <<a, b, c, d>>
             z == x \o y
  <1>1. /\ x \in Seq(S) /\ Len(x) = 1 /\ x[1] = a
        /\ y \in Seq(S) /\ Len(y) = 3 /\ y[1] = b /\ y[2] = c /\ y[3] = d
    OBVIOUS
  <1>2. w \in Seq(S) /\ Len(w) = 4 /\ w[1] = a /\ w[2] = b /\ w[3] = c /\ w[4] = d
    OBVIOUS
  <1> HIDE DEF x, y, w
  <1>3. /\ z \in Seq(S) /\ Len(z) = 4
        /\ \A i \in 1..4 : z[i] = IF i <= 1 THEN x[i] ELSE y[i - 1]
    <2>1. /\ z \in Seq(S) /\ Len(z) = Len(x) + Len(y)
          /\ \A i \in 1..(Len(x) + Len(y)) : z[i] = IF i <= Len(x) THEN x[i] ELSE y[i - Len(x)]
      BY <1>1, ConcatIs, Zenon
    <2> HIDE DEF z
    <2>2. QED
      BY <1>1, <2>1
  <1> HIDE DEF z
  <1>4. \A i \in 1..4 : i = 1 \/ i = 2 \/ i = 3 \/ i = 4
    OBVIOUS
  <1>5. \A i \in 1..4 : z[i] = w[i]
    BY <1>1, <1>2, <1>3, <1>4
  <1>6. z = w
    BY <1>2, <1>3, <1>5
  <1>7. QED
    BY <1>6 DEF x, y, w, z

\* A request that only reads.
LEMMA SerialBegins ==
    ASSUME ~Overlap, SerialInv, ReadyInv', NEW h \in Threads, NEW calls, Begin(h, calls),
           tasks' = tasks, plans' = plans, jobs' = jobs, agents' = agents, embedded' = embedded,
           NEW t \in TaskIds, Tells(t) => Work(calls, t)
    PROVE  SerialInv'
  <1>1. Idle /\ handlers' = [handlers EXCEPT ![h] = calls]
    BY DEF Begin
  <1>2. \A u \in TaskIds : Tells(u)
    BY <1>1 DEF SerialInv
  <1>3. QED
    BY <1>1, <1>2, SerialReads

\* The task of a job, of a plan.
LEMMA TaskOfJob ==
    ASSUME SerialInv, Idle, NEW j \in JobIds, jobs[j].status \in {"queued", "running"}
    PROVE  \E t \in TaskIds : jobs[j].task = t /\ j \in Active(t) /\ Tells(t)
  <1>1. jobs[j].task \in TaskIds
    BY DEF SerialInv, Refs
  <1>2. QED
    BY <1>1 DEF SerialInv, Active

LEMMA SerialCreateTask ==
    ASSUME ~Overlap, SerialInv, ReadyInv', NEW h \in Threads, NEW t \in TaskIds,
           NEW a \in AgentIds \cup {None}, CreateTask(h, t, a)
    PROVE  SerialInv'
  <1>1. Idle
    BY DEF CreateTask, Begin
  <1>2. PICK calls : /\ handlers' = [handlers EXCEPT ![h] = calls]
                     /\ calls = <<>> \/ (a \in AgentIds /\ calls = StartTask(t, a))
    <2>1. CASE a = None
      BY <2>1 DEF CreateTask, Begin
    <2>2. CASE a # None
      BY <2>2 DEF CreateTask, Begin
    <2>3. QED
      BY <2>1, <2>2
  <1>3. /\ tasks' = [tasks EXCEPT ![t] = [status |-> "inbox", agent |-> a]]
        /\ plans' = plans /\ jobs' = jobs /\ agents' = agents /\ embedded' = embedded
    BY DEF CreateTask
  <1>4. tasks \in [TaskIds -> Task]
    BY DEF SerialInv, ReadyInv, GateInv, TypeOK
  <1>5. tasks'[t].status = "inbox" /\ \A u \in TaskIds \ {t} : tasks'[u].status = tasks[u].status
    BY <1>3, <1>4
  <1>6. tasks[t].status = "absent"
    BY DEF CreateTask, Free
  <1>7. \A u \in TaskIds : Tells(u)
    BY <1>1 DEF SerialInv
  <1>8. Nothing(t)
    BY <1>6, <1>7 DEF Tells, Says
  <1>9. Nothing(t)'
    BY <1>3, <1>8 DEF Nothing, Active, Pending
  <1>10. Work(calls, t)'
    <2>1. CASE calls = <<>>
      <3>1. Tells(t)'
        BY <1>5, <1>9 DEF Tells, Says
      <3>2. QED
        BY <2>1, <3>1 DEF Work
    <2>2. CASE a \in AgentIds /\ calls = StartTask(t, a)
      <3>1. /\ calls = <<GetAgent(a), SetTask(t, "planning"), CreateJob("plan", t, None, a)>>
            /\ calls # <<>>
        BY <2>2, HeadsAndTails DEF StartTask
      <3>2. Says(t, {"inbox", "failed", "rejected"})'
        BY <1>5 DEF Says
      <3>3. ToStart(calls, t)'
        BY <1>9, <2>2, <3>1, <3>2 DEF ToStart
      <3>4. QED
        BY <3>1, <3>3 DEF Work
    <2>3. QED
      BY <1>2, <2>1, <2>2
  <1>11. \A u \in TaskIds \ {t} : Tells(u)'
    BY <1>3, <1>5, <1>7, TablesSame, TellsSame
  <1>12. Refs'
    BY <1>3, RefsKept DEF SerialInv
  <1>13. QED
    BY <1>1, <1>2, <1>10, <1>11, <1>12, SerialAdvance DEF SerialInv

LEMMA SerialAssignTask ==
    ASSUME ~Overlap, SerialInv, ReadyInv', NEW h \in Threads, NEW t \in TaskIds,
           NEW a \in AgentIds, AssignTask(h, t, a)
    PROVE  SerialInv'
  <1> DEFINE u == [op |-> "UpdateTask", task |-> t, status |-> tasks[t].status, agent |-> a]
             b == GetAgent(a)
             c == SetTask(t, "planning")
             d == CreateJob("plan", t, None, a)
  <1>1. PICK calls : Begin(h, calls) /\ calls = <<u>> \o StartTask(t, a)
    BY DEF AssignTask
  <1>2. tasks[t].status \in {"inbox", "failed", "rejected"}
    BY DEF AssignTask
  <1>3. u \in Call /\ b \in Call /\ c \in Call /\ d \in Call
    <2>1. u \in Call
      BY <1>2 DEF Call, LiveStatus, TaskStatus
    <2>2. b \in Call /\ c \in Call /\ d \in Call
      BY GetAgentCall, SetTaskCall, CreateJobCall DEF LiveStatus, TaskStatus
    <2>3. QED
      BY <2>1, <2>2
  <1>4. calls = <<u, b, c, d>>
    <2>1. StartTask(t, a) = <<b, c, d>>
      BY DEF StartTask
    <2> HIDE DEF u, b, c, d
    <2>2. QED
      BY <1>1, <1>3, <2>1, OneAndThree
  <1>5. ASSUME Tells(t)
        PROVE  Work(calls, t)
    <2>1. Nothing(t) /\ Says(t, {"inbox", "failed", "rejected"}) /\ tasks[t].status # "deleted"
      BY <1>2, <1>5 DEF Tells, Says
    <2>2. ToStart(calls, t) /\ calls # <<>>
      BY <1>4, <2>1, HeadsAndTails DEF ToStart
    <2>3. QED
      BY <2>2 DEF Work
  <1>6. QED
    BY <1>1, <1>5, SerialBegins DEF AssignTask

LEMMA SerialDecision ==
    ASSUME ~Overlap, SerialInv, ReadyInv', NEW h \in Threads, NEW p \in PlanIds,
           NEW d \in Decisions, PlanDecision(h, p, d)
    PROVE  SerialInv'
  <1>1. PICK calls : /\ Begin(h, calls)
                     /\ calls \in {ApprovePlan(p), RejectPlan(p), RequestChanges(p)}
    <2>1. CASE d = "approve"
      BY <2>1 DEF PlanDecision
    <2>2. CASE d = "reject"
      BY <2>2 DEF PlanDecision
    <2>3. CASE d = "request_changes"
      BY <2>3 DEF PlanDecision
    <2>4. QED
      BY <2>1, <2>2, <2>3 DEF Decisions
  <1>2. PICK t \in TaskIds : plans[p].task = t /\ p \in Pending(t)
    BY DEF PlanDecision, SerialInv, Refs, Pending
  <1>3. ASSUME Tells(t)
        PROVE  Work(calls, t)
    <2>1. Deciding(t, p) /\ Says(t, {"awaiting_approval"})
      BY <1>2, <1>3, PendingTells
    <2>2. Says(t, {"planning", "awaiting_approval"})
      BY <2>1 DEF Says
    <2>3. Work(ApprovePlan(p), t) /\ Work(RejectPlan(p), t) /\ Work(RequestChanges(p), t)
      BY <2>1, <2>2, DecisionWorks
    <2>4. QED
      BY <1>1, <2>3
  <1>4. QED
    BY <1>1, <1>3, SerialBegins DEF PlanDecision

LEMMA SerialClaim ==
    ASSUME ~Overlap, ~EmbeddedOn, SerialInv, ReadyInv', NEW h \in Threads, NEW j \in JobIds,
           NEW by \in {"remote", "embedded"}, Claim(h, j, by)
    PROVE  SerialInv'
  <1>1. Idle /\ jobs[j].status = "queued" /\ by = "remote"
    BY DEF Claim, Begin
  <1>2. PICK t \in TaskIds : jobs[j].task = t /\ j \in Active(t) /\ Tells(t)
    BY <1>1, TaskOfJob
  <1>3. PICK calls : calls = <<[op |-> "BuildBundle", job |-> j, by |-> "remote"]>>
    OBVIOUS
  <1>4. /\ handlers' = [handlers EXCEPT ![h] = calls]
        /\ jobs' = [jobs EXCEPT ![j].status = "running", ![j].attempts = @ + 1]
        /\ tasks' = tasks /\ plans' = plans /\ agents' = agents /\ embedded' = embedded
    BY <1>1, <1>3 DEF Claim, Begin
  <1>5. TypeOK
    BY DEF SerialInv, ReadyInv, GateInv
  <1>6. (\A u \in TaskIds : Tells(u) => Tells(u)') /\ Active(t)' = Active(t)
    <2>1. PICK x \in {"queued", "running"} : x = "running"
      OBVIOUS
    <2>2. jobs' = [jobs EXCEPT ![j].status = x, ![j].attempts = @ + 1]
      BY <1>4, <2>1
    <2>3. QED
      BY <1>1, <1>4, <1>5, <2>2, JobStaysActive
  <1>7. \A u \in TaskIds : Tells(u)'
    BY <1>1, <1>6 DEF SerialInv
  <1>8. ToServe(calls, t)' /\ calls # <<>>
    BY <1>2, <1>3, <1>6, <1>7, HeadsAndTails DEF ToServe
  <1>9. Work(calls, t)'
    BY <1>8 DEF Work
  <1>10. Refs'
    <2>1. PICK x : x = "running" /\ x # "absent"
      OBVIOUS
    <2>2. jobs' = [jobs EXCEPT ![j].status = x, ![j].attempts = @ + 1]
      BY <1>4, <2>1
    <2>3. QED
      BY <1>2, <1>4, <1>5, <2>1, <2>2, JobWriteRefs DEF SerialInv
  <1>11. QED
    BY <1>1, <1>4, <1>7, <1>9, <1>10, SerialAdvance DEF SerialInv

LEMMA SerialComplete ==
    ASSUME ~Overlap, SerialInv, ReadyInv', NEW h \in Threads, NEW j \in JobIds,
           CompleteRemote(h, j)
    PROVE  SerialInv'
  <1>1. PICK calls \in Completions(j) : Begin(h, calls)
    BY DEF CompleteRemote
  <1>2. Idle /\ jobs[j].status = "running"
    BY <1>1 DEF CompleteRemote, Begin
  <1>3. PICK t \in TaskIds : jobs[j].task = t /\ j \in Active(t) /\ Tells(t)
    BY <1>2, TaskOfJob
  <1>4. /\ Active(t) = {j} /\ Pending(t) = {} /\ Says(t, {"planning", "executing"})
        /\ jobs[j].kind = "plan" => Says(t, {"planning"})
        /\ jobs[j].kind # "plan" => Says(t, {"executing"})
    BY <1>3, ActiveTells
  <1>5. GateInv
    BY DEF SerialInv, ReadyInv
  <1>6. CASE calls = FailJob(j)
    <2>1. Work(FailJob(j), t)
      BY <1>3, <1>4, <1>5, FailWorks
    <2>2. Work(calls, t)
      BY <1>6, <2>1
    <2>3. QED
      BY <1>1, <2>2, SerialBegins DEF CompleteRemote
  <1>7. CASE jobs[j].kind = "plan" /\ calls = CompletePlanJob(j)
    <2>1. ToPropose(calls, t) /\ calls # <<>>
      BY <1>4, <1>7, HeadsAndTails DEF ToPropose, CompletePlanJob
    <2>2. Work(calls, t)
      BY <2>1 DEF Work
    <2>3. QED
      BY <1>1, <2>2, SerialBegins DEF CompleteRemote
  <1>8. ASSUME jobs[j].kind # "plan", NEW s \in BOOLEAN, calls = CompleteExecuteJob(j, s)
        PROVE  SerialInv'
    <2>1. jobs[j].plan # None
      BY <1>2, <1>5, <1>8, RowsRefer DEF GateInv, JobsGated
    <2>2. PICK p \in PlanIds : p = jobs[j].plan /\ plans[p].status \in Decided
      BY <1>5, <2>1, JobPlans
    <2>3. PICK x \in {"completed", "failed"}, y \in {"done", "failed"} :
            calls = <<FinishJob(j, "done"), UpdatePlan(p, x, None), SetTask(t, y)>>
      <3>1. CASE s = TRUE
        BY <1>3, <1>8, <2>2, <3>1 DEF CompleteExecuteJob
      <3>2. CASE s = FALSE
        BY <1>3, <1>8, <2>2, <3>2 DEF CompleteExecuteJob
      <3>3. QED
        BY <3>1, <3>2
    <2>4. ToConclude(calls, t) /\ calls # <<>>
      BY <1>4, <1>8, <2>2, <2>3, HeadsAndTails DEF ToConclude
    <2>5. Work(calls, t)
      BY <2>4 DEF Work
    <2>6. QED
      BY <1>1, <2>5, SerialBegins DEF CompleteRemote
  <1>9. QED
    BY <1>6, <1>7, <1>8 DEF Completions, Drafts

LEMMA SerialStepEvent ==
    ASSUME ~Overlap, SerialInv, ReadyInv', NEW h \in Threads, NEW j \in JobIds, StepEvent(h, j)
    PROVE  SerialInv'
  <1>1. jobs[j].plan # None
    BY DEF StepEvent
  <1>2. PICK t \in TaskIds : t = jobs[j].task
    BY <1>1 DEF SerialInv, Refs
  <1>3. PICK p \in PlanIds : p = jobs[j].plan /\ plans[p].status \in Decided
    BY <1>1, JobPlans DEF SerialInv, ReadyInv
  <1>4. PICK x \in Decided : x = plans[p].status
    BY <1>3
  <1>5. PICK calls : Begin(h, calls) /\ calls = <<UpdatePlan(p, x, None)>>
    BY <1>3, <1>4 DEF StepEvent
  <1>6. ASSUME Tells(t)
        PROVE  Work(calls, t)
    <2>1. ToNote(calls, t) /\ calls # <<>>
      BY <1>3, <1>5, <1>6, HeadsAndTails DEF ToNote
    <2>2. QED
      BY <2>1 DEF Work
  <1>7. QED
    BY <1>5, <1>6, SerialBegins DEF StepEvent

LEMMA SerialSweep ==
    ASSUME ~Overlap, SerialInv, ReadyInv', NEW j \in JobIds, SweepJob(j)
    PROVE  SerialInv'
  <1>1. PICK calls :
          /\ Begin(Loop, calls)
          /\ \/ calls = <<[op |-> "FailStale", job |-> j]>> \o FailJob(j)
             \/ calls = <<[op |-> "Requeue", job |-> j]>>
    BY DEF SweepJob
  <1>2. Idle /\ jobs[j].status = "running" /\ Loop \in Threads
    BY <1>1 DEF SweepJob, Begin, Threads
  <1>3. PICK t \in TaskIds : jobs[j].task = t /\ j \in Active(t) /\ Tells(t)
    BY <1>2, TaskOfJob
  <1>4. ToServe(calls, t)
    BY <1>1, <1>3 DEF ToServe
  <1>5. Work(calls, t)
    BY <1>4, WorkHeads DEF Work, SerialInv, ReadyInv
  <1>6. QED
    BY <1>1, <1>2, <1>5, SerialBegins DEF SweepJob

LEMMA SerialQuietSteps ==
    ASSUME ~Overlap, ~AgentsLeave, SerialInv, ReadyInv',
           \/ \E t \in TaskIds : DeleteTask(t)
           \/ \E a \in AgentIds : DeleteAgent(a) \/ UpdateAgent(a)
    PROVE  SerialInv'
  <1>1. /\ Idle /\ handlers' = handlers
        /\ plans' = plans /\ jobs' = jobs /\ embedded' = embedded
        /\ \A u : u \in TaskIds =>
              tasks'[u].status = tasks[u].status \/ tasks'[u].status = "deleted"
    <2>1. tasks \in [TaskIds -> Task]
      BY DEF SerialInv, ReadyInv, GateInv, TypeOK
    <2>2. QED
      BY <2>1 DEF DeleteTask, DeleteAgent, UpdateAgent, Task
  <1>2. \A a \in AgentIds : agents'[a].present = agents[a].present
    <2>1. agents \in [AgentIds -> Agent]
      BY DEF SerialInv, ReadyInv, GateInv, TypeOK
    <2>2. QED
      BY <2>1 DEF DeleteTask, DeleteAgent, UpdateAgent, Agent
  <1>3. Refs'
    BY <1>1, <1>2, RefsKept DEF SerialInv
  <1>4. ASSUME NEW u \in TaskIds
        PROVE  Tells(u)'
    <2>1. Tells(u)
      BY <1>1 DEF SerialInv
    <2>2. \A z : Says(u, z) => Says(u, z)'
      BY <1>1 DEF Says
    <2>3. Active(u)' = Active(u) /\ Pending(u)' = Pending(u)
      BY <1>1 DEF Active, Pending
    <2>4. QED
      BY <1>1, <2>1, <2>2, <2>3 DEF Tells, Nothing, Deciding, Busy
  <1>5. QED
    BY <1>1, <1>3, <1>4, SerialQuiet

LEMMA SerialStutter ==
    ASSUME SerialInv, ReadyInv', UNCHANGED vars
    PROVE  SerialInv'
  <1>1. /\ tasks' = tasks /\ plans' = plans /\ jobs' = jobs /\ agents' = agents
        /\ handlers' = handlers /\ embedded' = embedded
    BY DEF vars
  <1>2. CASE Idle
    <2>1. Refs'
      BY <1>1, RefsKept DEF SerialInv
    <2>2. \A u \in TaskIds : Tells(u)'
      BY <1>1, <1>2, TablesSame, TellsSame DEF SerialInv
    <2>3. QED
      BY <1>1, <1>2, <2>1, <2>2, SerialQuiet
  <1>3. ASSUME NEW h \in Threads, handlers[h] # <<>>
        PROVE  SerialInv'
    <2>1. PICK s, t : /\ s = handlers[h] /\ s # <<>>
                      /\ t \in TaskIds /\ Work(s, t) /\ \A u \in TaskIds \ {t} : Tells(u)
      BY <1>3, AtServe
    <2>2. handlers' = [handlers EXCEPT ![h] = s]
      BY <1>1, <2>1 DEF SerialInv, ReadyInv, GateInv, TypeOK
    <2>3. QED
      BY <1>1, <1>3, <2>1, <2>2, SerialReads
  <1>4. QED
    BY <1>2, <1>3 DEF Idle

LEMMA NextSerial ==
    ASSUME ~Overlap, ~Faults, ~EmbeddedOn, ~AgentsLeave, SerialInv, ReadyInv', [Next]_vars
    PROVE  SerialInv'
  <1>1. ASSUME NEW h \in Threads, Step(h)
        PROVE  SerialInv'
    BY <1>1, SerialGetAgent, SerialSetTask, SerialUpdateTask, SerialCreateJob,
       SerialUpdatePlan, SerialVersion, SerialCreatePlan, SerialRoute, SerialFinishJob,
       SerialBundle, SerialRequeue, SerialFailStale DEF Step
  <1>2. ASSUME NEW h \in Handlers, Request(h)
        PROVE  SerialInv'
    <2>1. h \in Threads
      BY DEF Threads
    <2>2. \A j \in JobIds : ~CompleteEmbedded(h, j)
      BY DEF CompleteEmbedded, SerialInv, Refs
    <2>3. QED
      BY <1>2, <2>1, <2>2, SerialCreateTask, SerialAssignTask, SerialDecision, SerialClaim,
         SerialComplete, SerialStepEvent DEF Request
  <1>3. ~Crash /\ \A h : ~Abort(h)
    BY DEF Crash, Abort
  <1>4. QED
    BY <1>1, <1>2, <1>3, SerialSweep, SerialQuietSteps, SerialStutter DEF Next

LEMMA InitSerial ==
    ASSUME Init
    PROVE  SerialInv
  <1>1. ReadyInv
    BY InitReady
  <1>2. Refs
    BY DEF Init, Refs
  <1>3. \A t \in TaskIds : Nothing(t)
    BY OrchestratorAssumption DEF Init, Nothing, Active, Pending
  <1>4. \A t \in TaskIds : Tells(t)
    BY <1>3 DEF Init, Tells, Says
  <1>5. \A h \in Threads : handlers[h] = <<>>
    BY DEF Init
  <1>6. QED
    BY <1>1, <1>2, <1>4, <1>5 DEF SerialInv

\* While handlers neither overlap nor are cut off, the one at work knows what goes on for
\* its task, and for every other task the status tells it.
THEOREM SerialInvariant ==
    ASSUME ~Overlap, ~Faults, ~EmbeddedOn, ~AgentsLeave
    PROVE  Spec => []SerialInv
  <1>1. Init => SerialInv
    BY InitSerial
  <1>2. SerialInv /\ ReadyInv' /\ [Next]_vars => SerialInv'
    BY NextSerial
  <1>3. QED
    BY <1>1, <1>2, ReadyInvariant, PTL DEF Spec

\* Between requests the status of each task tells what goes on for it: a plan is drafted,
\* a plan is in the inbox, a plan is executed, or nothing is.
THEOREM StatusTold ==
    ASSUME ~Overlap, ~Faults, ~EmbeddedOn, ~AgentsLeave
    PROVE  Spec => []StatusTells
  <1>1. ASSUME SerialInv, Idle, NEW t \in TaskIds
        PROVE  /\ tasks[t].status = "planning" => \E j \in Active(t) : jobs[j].kind = "plan"
               /\ tasks[t].status = "awaiting_approval" => Pending(t) # {}
               /\ tasks[t].status = "executing" => \E j \in Active(t) : jobs[j].kind = "execute"
               /\ tasks[t].status \in {"inbox", "done", "failed", "rejected"}
                    => Active(t) = {} /\ Pending(t) = {}
    <2>1. Tells(t)
      BY <1>1 DEF SerialInv
    <2>2. tasks[t].status = "planning" => \E j \in Active(t) : jobs[j].kind = "plan"
      BY <2>1 DEF Tells, Says, Busy
    <2>3. tasks[t].status = "awaiting_approval" => Pending(t) # {}
      BY <2>1 DEF Tells, Says, Deciding
    <2>4. tasks[t].status = "executing" => \E j \in Active(t) : jobs[j].kind = "execute"
      BY <2>1 DEF Tells, Says, Busy
    <2>5. tasks[t].status \in {"inbox", "done", "failed", "rejected"}
            => Active(t) = {} /\ Pending(t) = {}
      BY <2>1 DEF Tells, Says, Nothing
    <2>6. QED
      BY <2>2, <2>3, <2>4, <2>5
  <1>2. SerialInv => StatusTells
    BY <1>1 DEF StatusTells, PlanningDrafts, AwaitingDecides, ExecutingRuns, SettledQuiet
  <1>3. QED
    BY <1>2, SerialInvariant, PTL

\* Between requests at most one thing goes on for a task: one job or one plan in the inbox.
THEOREM OneThingGoesOn ==
    ASSUME ~Overlap, ~Faults, ~EmbeddedOn, ~AgentsLeave
    PROVE  Spec => []OneActivity
  <1>1. Cardinality({}) = 0
    BY FS_EmptySet
  <1>2. \A x : Cardinality({x}) = 1
    BY FS_Singleton
  <1>3. ASSUME SerialInv, Idle, NEW t \in TaskIds
        PROVE  Cardinality(Active(t)) + Cardinality(Pending(t)) <= 1
    <2>1. Tells(t)
      BY <1>3 DEF SerialInv
    <2>2. \/ Active(t) = {} /\ Pending(t) = {}
          \/ \E p : Active(t) = {} /\ Pending(t) = {p}
          \/ \E j : Active(t) = {j} /\ Pending(t) = {}
      BY <2>1 DEF Tells, Nothing, Deciding, Busy
    <2>3. CASE Active(t) = {} /\ Pending(t) = {}
      BY <1>1, <2>3
    <2>4. ASSUME NEW p, Active(t) = {}, Pending(t) = {p}
          PROVE  Cardinality(Active(t)) + Cardinality(Pending(t)) <= 1
      <3>1. Cardinality(Active(t)) = 0 /\ Cardinality(Pending(t)) = 1
        BY <1>1, <1>2, <2>4
      <3>2. QED
        BY <3>1
    <2>5. ASSUME NEW j, Active(t) = {j}, Pending(t) = {}
          PROVE  Cardinality(Active(t)) + Cardinality(Pending(t)) <= 1
      <3>1. Cardinality(Active(t)) = 1 /\ Cardinality(Pending(t)) = 0
        BY <1>1, <1>2, <2>5
      <3>2. QED
        BY <3>1
    <2>6. QED
      BY <2>2, <2>3, <2>4, <2>5
  <1>4. SerialInv => OneActivity
    BY <1>3 DEF OneActivity
  <1>5. QED
    BY <1>4, SerialInvariant, PTL

-----------------------------------------------------------------------------
(* The tasks follow their lifecycle.                                        *)

\* One task moves, or none.
LEMMA LifecycleMove ==
    ASSUME TypeOK, NEW t \in TaskIds, NEW x, NEW a,
           tasks' = [tasks EXCEPT ![t].status = x] \/ tasks' = [tasks EXCEPT ![t] = a],
           tasks'[t].status = x
    PROVE  [u \in TaskIds |-> tasks'[u].status]
             = [[u \in TaskIds |-> tasks[u].status] EXCEPT ![t] = x]
  BY DEF TypeOK

LEMMA LifecycleSame ==
    ASSUME \A u \in TaskIds : tasks'[u].status = tasks[u].status
    PROVE  [u \in TaskIds |-> tasks'[u].status] = [u \in TaskIds |-> tasks[u].status]
  OBVIOUS

LEMMA SetTaskMoves ==
    ASSUME SerialInv, NEW h \in Threads, DoSetTask(h)
    PROVE  [Lifecycle!Next]_([u \in TaskIds |-> tasks[u].status])
  <1>1. handlers[h] # <<>> /\ Head(handlers[h]).op = "SetTask"
    BY DEF DoSetTask, At
  <1>2. PICK s, t : s = handlers[h] /\ s # <<>> /\ t \in TaskIds /\ Work(s, t)
    BY <1>1, AtServe
  <1>3. GateInv /\ TypeOK
    BY DEF SerialInv, ReadyInv, GateInv
  <1>4. PICK x :
          /\ Head(s) = SetTask(t, x)
          /\ \/ x = "planning" /\ Says(t, {"inbox", "failed", "rejected", "awaiting_approval"})
             \/ x = "executing" /\ Says(t, {"planning", "awaiting_approval"})
             \/ x = "rejected" /\ Says(t, {"awaiting_approval"})
             \/ x = "failed" /\ Says(t, {"planning", "executing"})
             \/ x = "awaiting_approval" /\ Says(t, {"planning"})
             \/ x = "done" /\ Says(t, {"executing"})
    BY <1>1, <1>2, <1>3, AtSetTask
  <1>5. tasks' = [tasks EXCEPT ![t].status = IF @ = "deleted" THEN @ ELSE x]
    <2>1. Head(s).task = t /\ Head(s).status = x
      BY <1>4, CallFields
    <2>2. QED
      BY <1>2, <2>1 DEF DoSetTask
  <1>6. tasks \in [TaskIds -> Task]
    BY <1>3 DEF TypeOK
  <1> DEFINE old == [u \in TaskIds |-> tasks[u].status]
             new == [u \in TaskIds |-> tasks'[u].status]
  <1>7. CASE tasks[t].status = "deleted"
    <2>1. \A u \in TaskIds : tasks'[u].status = tasks[u].status
      BY <1>2, <1>5, <1>6, <1>7 DEF Task
    <2>2. QED
      BY <2>1, LifecycleSame
  <1>8. CASE tasks[t].status # "deleted"
    <2>1. tasks' = [tasks EXCEPT ![t].status = x] /\ tasks'[t].status = x
      BY <1>2, <1>5, <1>6, <1>8 DEF Task
    <2>2. new = [old EXCEPT ![t] = x]
      BY <1>2, <1>3, <2>1, LifecycleMove
    <2>3. old[t] = tasks[t].status
      BY <1>2
    <2>4. Lifecycle!Start(t) \/ Lifecycle!Plan(t) \/ Lifecycle!Decide(t) \/ Lifecycle!Execute(t)
      BY <1>4, <1>8, <2>2, <2>3 DEF Says, Lifecycle!Start, Lifecycle!Plan, Lifecycle!Decide,
         Lifecycle!Execute, Lifecycle!Move
    <2>5. QED
      BY <1>2, <2>4 DEF Lifecycle!Next
  <1>9. QED
    BY <1>7, <1>8

\* The row of the task is written back with the status it has.
LEMMA UpdateTaskMoves ==
    ASSUME SerialInv, NEW h \in Threads, DoUpdateTask(h), NEW u \in TaskIds
    PROVE  tasks'[u].status = tasks[u].status
  <1>1. handlers[h] # <<>> /\ Head(handlers[h]).op = "UpdateTask"
    BY DEF DoUpdateTask, At
  <1>2. PICK s, t : s = handlers[h] /\ s # <<>> /\ t \in TaskIds /\ Work(s, t)
    BY <1>1, AtServe
  <1>3. ToStart(s, t)
    BY <1>1, <1>2, WorkHeads DEF Work, SerialInv, ReadyInv
  <1>4. Head(s).task = t /\ Head(s).status = tasks[t].status
    BY <1>1, <1>2, <1>3, HeadsAndTails, CallFields DEF ToStart
  <1>5. tasks \in [TaskIds -> Task]
    BY DEF SerialInv, ReadyInv, GateInv, TypeOK
  <1>6. \/ tasks' = tasks
        \/ tasks' = [tasks EXCEPT ![t] = [status |-> tasks[t].status, agent |-> Head(s).agent]]
    BY <1>2, <1>4 DEF DoUpdateTask
  <1>7. QED
    BY <1>2, <1>5, <1>6

LEMMA CreateMoves ==
    ASSUME TypeOK, NEW h, NEW t \in TaskIds, NEW a, CreateTask(h, t, a)
    PROVE  [Lifecycle!Next]_([u \in TaskIds |-> tasks[u].status])
  <1> DEFINE old == [u \in TaskIds |-> tasks[u].status]
             new == [u \in TaskIds |-> tasks'[u].status]
  <1>1. /\ tasks' = [tasks EXCEPT ![t] = [status |-> "inbox", agent |-> a]]
        /\ tasks[t].status = "absent"
    BY DEF CreateTask, Free
  <1>2. tasks'[t].status = "inbox"
    BY <1>1 DEF TypeOK
  <1>3. new = [old EXCEPT ![t] = "inbox"]
    BY <1>1, <1>2, LifecycleMove
  <1>4. Lifecycle!Create(t)
    BY <1>1, <1>3 DEF Lifecycle!Create, Lifecycle!Move
  <1>5. QED
    BY <1>4 DEF Lifecycle!Next

LEMMA DeleteMoves ==
    ASSUME TypeOK, NEW t \in TaskIds, DeleteTask(t)
    PROVE  [Lifecycle!Next]_([u \in TaskIds |-> tasks[u].status])
  <1> DEFINE old == [u \in TaskIds |-> tasks[u].status]
             new == [u \in TaskIds |-> tasks'[u].status]
  <1>1. tasks' = [tasks EXCEPT ![t].status = "deleted"] /\ tasks[t].status \in LiveStatus
    BY DEF DeleteTask, Exists
  <1>2. tasks'[t].status = "deleted"
    BY <1>1 DEF TypeOK, Task
  <1>3. new = [old EXCEPT ![t] = "deleted"]
    BY <1>1, <1>2, LifecycleMove
  <1>4. Lifecycle!Delete(t)
    BY <1>1, <1>3 DEF Lifecycle!Delete, Lifecycle!Move, LiveStatus, TaskStatus
  <1>5. QED
    BY <1>4 DEF Lifecycle!Next

LEMMA NextMoves ==
    ASSUME ~Faults, SerialInv, [Next]_vars
    PROVE  [Lifecycle!Next]_([u \in TaskIds |-> tasks[u].status])
  <1>1. TypeOK
    BY DEF SerialInv, ReadyInv, GateInv
  <1>2. ASSUME tasks' = tasks
        PROVE  [Lifecycle!Next]_([u \in TaskIds |-> tasks[u].status])
    BY <1>2, LifecycleSame
  <1>3. ASSUME NEW h \in Threads, Step(h)
        PROVE  [Lifecycle!Next]_([u \in TaskIds |-> tasks[u].status])
    <2>1. CASE DoSetTask(h)
      BY <2>1, SetTaskMoves
    <2>2. CASE DoUpdateTask(h)
      BY <2>2, UpdateTaskMoves, LifecycleSame
    <2>3. CASE ~DoSetTask(h) /\ ~DoUpdateTask(h)
      <3>1. tasks' = tasks
        BY <1>3, <2>3 DEF Step, DoGetAgent, DoCreateJob, DoUpdatePlan, DoLatestPlanVersion,
           DoCreatePlan, DoRoute, DoFinishJob, DoBuildBundle, DoRequeue, DoFailStale
      <3>2. QED
        BY <1>2, <3>1
    <2>4. QED
      BY <2>1, <2>2, <2>3
  <1>4. ASSUME NEW h \in Handlers, Request(h)
        PROVE  [Lifecycle!Next]_([u \in TaskIds |-> tasks[u].status])
    <2>1. \/ \E t \in TaskIds, a \in AgentIds \cup {None} : CreateTask(h, t, a)
          \/ tasks' = tasks
      BY <1>4 DEF Request, AssignTask, PlanDecision, Claim, CompleteRemote, CompleteEmbedded,
         StepEvent
    <2>2. QED
      BY <1>1, <1>2, <2>1, CreateMoves
  <1>5. ASSUME \/ \E j \in JobIds : SweepJob(j)
               \/ \E h \in Threads : Abort(h)
               \/ \E a \in AgentIds : DeleteAgent(a) \/ UpdateAgent(a)
               \/ Crash
               \/ UNCHANGED vars
        PROVE  [Lifecycle!Next]_([u \in TaskIds |-> tasks[u].status])
    <2>1. tasks' = tasks
      BY <1>5 DEF SweepJob, Abort, DeleteAgent, UpdateAgent, Crash, vars
    <2>2. QED
      BY <1>2, <2>1
  <1>6. QED
    BY <1>1, <1>3, <1>4, <1>5, DeleteMoves DEF Next

\* Each task moves only as its lifecycle allows, however late or often runners report: no
\* task leaves done but by deletion, and none is executed but from planning or a decision.
THEOREM TasksFollowLifecycle ==
    ASSUME ~Overlap, ~Faults, ~EmbeddedOn, ~AgentsLeave
    PROVE  Spec => Lifecycle!Spec
  <1>1. Init => Lifecycle!Init
    BY DEF Init, Lifecycle!Init
  <1>2. SerialInv /\ [Next]_vars => [Lifecycle!Next]_([t \in TaskIds |-> tasks[t].status])
    BY NextMoves
  <1>3. QED
    BY <1>1, <1>2, SerialInvariant, PTL DEF Spec, Lifecycle!Spec

=============================================================================
