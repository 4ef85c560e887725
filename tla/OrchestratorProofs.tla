------------------------ MODULE OrchestratorProofs ------------------------
(* Proofs about Orchestrator: for any tables, any number of handlers, every  *)
(* interleaving, and with every fault, the human gate holds and a decided    *)
(* plan stays decided.                                                       *)
EXTENDS Orchestrator, TLAPS

(* The inductive invariant.                                                 *)

\* A job that has a plan got it from an approval; only execute jobs have one.
JobsGated ==
    \A j \in JobIds :
        /\ jobs[j].kind = "execute" => jobs[j].plan # None
        /\ jobs[j].plan # None => "approve" \in verdicts[jobs[j].plan]

\* A decision is in the row it was written to.
VerdictsWritten == \A p \in PlanIds : verdicts[p] # {} => plans[p].status \in Decided

\* s queues a job for a plan only after it has written the approval, unless the
\* history v has it already; and s writes no row that is still pending.
Gated(s, v) ==
    \A i \in 1..Len(s) :
        /\ s[i].op = "UpdatePlan" => s[i].status \in Decided
        /\ s[i].op = "CreateJob" =>
             /\ s[i].kind = "execute" => s[i].plan # None
             /\ s[i].plan # None =>
                  \/ "approve" \in v[s[i].plan]
                  \/ \E k \in 1..(i - 1) : /\ s[k].op = "UpdatePlan"
                                           /\ s[k].plan = s[i].plan
                                           /\ s[k].verdict = "approve"

HandlersGated == \A h \in Threads : Gated(handlers[h], verdicts)

GateInv == TypeOK /\ JobsGated /\ VerdictsWritten /\ HandlersGated

-----------------------------------------------------------------------------
(* Programs of the orchestrator.                                            *)

\* A call that needs no approval before it.
Plain(c) ==
    /\ c.op = "UpdatePlan" => c.status \in Decided
    /\ c.op = "CreateJob" => c.kind = "plan" /\ c.plan = None

LEMMA PlainIsGated ==
    ASSUME NEW s, NEW v, \A i \in 1..Len(s) : Plain(s[i])
    PROVE  Gated(s, v)
  BY DEF Plain, Gated

LEMMA EmptyIsGated == \A v : Gated(<<>>, v)
  BY DEF Gated

LEMMA ConcatPlain ==
    ASSUME NEW s \in Seq(Call), NEW u \in Seq(Call),
           \A i \in 1..Len(s) : Plain(s[i]), \A i \in 1..Len(u) : Plain(u[i])
    PROVE  s \o u \in Seq(Call) /\ \A i \in 1..Len(s \o u) : Plain((s \o u)[i])
  <1>1. \A i \in 1..Len(s \o u) :
           (s \o u)[i] = IF i <= Len(s) THEN s[i] ELSE u[i - Len(s)]
    OBVIOUS
  <1>2. Len(s \o u) = Len(s) + Len(u) /\ s \o u \in Seq(Call)
    OBVIOUS
  <1>3. QED
    BY <1>1, <1>2

\* After its first call is made, the rest of a gated handler is gated.
LEMMA TailIsGated ==
    ASSUME NEW s \in Seq(Call), s # <<>>, NEW v, NEW w,
           Gated(s, v),
           \A p \in PlanIds : v[p] \subseteq w[p],
           Head(s).op = "UpdatePlan" /\ Head(s).verdict = "approve"
             => "approve" \in w[Head(s).plan]
    PROVE  Tail(s) \in Seq(Call) /\ Gated(Tail(s), w)
  <1>1. /\ Tail(s) \in Seq(Call) /\ Len(Tail(s)) = Len(s) - 1 /\ Len(s) \in Nat
        /\ \A i \in 1..Len(Tail(s)) : Tail(s)[i] = s[i + 1] /\ i + 1 \in 1..Len(s)
        /\ Head(s) = s[1]
    OBVIOUS
  <1>2. \A i \in 1..Len(s) : s[i].op = "CreateJob" => s[i].plan \in PlanIds \cup {None}
    BY DEF Call
  <1> SUFFICES ASSUME NEW i \in 1..Len(Tail(s))
               PROVE  /\ Tail(s)[i].op = "UpdatePlan" => Tail(s)[i].status \in Decided
                      /\ Tail(s)[i].op = "CreateJob" =>
                           /\ Tail(s)[i].kind = "execute" => Tail(s)[i].plan # None
                           /\ Tail(s)[i].plan # None =>
                                \/ "approve" \in w[Tail(s)[i].plan]
                                \/ \E k \in 1..(i - 1) : /\ Tail(s)[k].op = "UpdatePlan"
                                                         /\ Tail(s)[k].plan = Tail(s)[i].plan
                                                         /\ Tail(s)[k].verdict = "approve"
    BY <1>1 DEF Gated
  <1>3. Tail(s)[i] = s[i + 1] /\ i + 1 \in 1..Len(s) /\ i \in Nat
    BY <1>1
  <1>4. CASE s[i + 1].op # "CreateJob" \/ s[i + 1].plan = None
    BY <1>3, <1>4 DEF Gated
  <1>5. CASE s[i + 1].op = "CreateJob" /\ s[i + 1].plan # None
    <2>1. CASE "approve" \in v[s[i + 1].plan]
      BY <1>2, <1>3, <1>5, <2>1
    <2>2. CASE \E k \in 1..i : /\ s[k].op = "UpdatePlan"
                               /\ s[k].plan = s[i + 1].plan
                               /\ s[k].verdict = "approve"
      <3>1. PICK k \in 1..i : /\ s[k].op = "UpdatePlan"
                              /\ s[k].plan = s[i + 1].plan
                              /\ s[k].verdict = "approve"
        BY <2>2
      <3>2. CASE k = 1
        BY <1>1, <1>3, <1>5, <3>1, <3>2
      <3>3. CASE k # 1
        <4>1. k - 1 \in 1..(i - 1) /\ Tail(s)[k - 1] = s[k]
          BY <1>1, <1>3, <3>3
        <4>2. QED
          BY <1>3, <1>5, <3>1, <4>1
      <3>4. QED
        BY <3>2, <3>3
    <2>3. "approve" \in v[s[i + 1].plan]
            \/ \E k \in 1..((i + 1) - 1) : /\ s[k].op = "UpdatePlan"
                                           /\ s[k].plan = s[i + 1].plan
                                           /\ s[k].verdict = "approve"
      BY <1>3, <1>5 DEF Gated
    <2>4. (i + 1) - 1 = i
      BY <1>3
    <2>5. QED
      BY <2>1, <2>2, <2>3, <2>4
  <1>6. QED
    BY <1>4, <1>5

-----------------------------------------------------------------------------
(* Sets of calls, sequences of a few calls.                                 *)

LEMMA GatedGrows ==
    ASSUME NEW s \in Seq(Call), NEW v, NEW w,
           Gated(s, v), \A p \in PlanIds : v[p] \subseteq w[p]
    PROVE  Gated(s, w)
  <1>1. \A i \in 1..Len(s) : s[i].op = "CreateJob" => s[i].plan \in PlanIds \cup {None}
    BY DEF Call
  <1>2. QED
    BY <1>1 DEF Gated

LEMMA OnePlain ==
    ASSUME NEW a \in Call, Plain(a)
    PROVE  /\ <<a>> \in Seq(Call)
           /\ \A i \in 1..Len(<<a>>) : Plain(<<a>>[i])
  OBVIOUS

LEMMA TwoPlain ==
    ASSUME NEW a \in Call, NEW b \in Call, Plain(a), Plain(b)
    PROVE  /\ <<a, b>> \in Seq(Call)
           /\ \A i \in 1..Len(<<a, b>>) : Plain(<<a, b>>[i])
  OBVIOUS

LEMMA ThreePlain ==
    ASSUME NEW a \in Call, NEW b \in Call, NEW c \in Call, Plain(a), Plain(b), Plain(c)
    PROVE  /\ <<a, b, c>> \in Seq(Call)
           /\ \A i \in 1..Len(<<a, b, c>>) : Plain(<<a, b, c>>[i])
  OBVIOUS

LEMMA FourPlain ==
    ASSUME NEW a \in Call, NEW b \in Call, NEW c \in Call, NEW d \in Call,
           Plain(a), Plain(b), Plain(c), Plain(d)
    PROVE  /\ <<a, b, c, d>> \in Seq(Call)
           /\ \A i \in 1..Len(<<a, b, c, d>>) : Plain(<<a, b, c, d>>[i])
  OBVIOUS

LEMMA GetAgentCall ==
    ASSUME NEW a \in AgentIds \cup {None}
    PROVE  GetAgent(a) \in Call /\ Plain(GetAgent(a))
  BY DEF GetAgent, Call, Plain

LEMMA SetTaskCall ==
    ASSUME NEW t \in TaskIds \cup {None}, NEW s \in LiveStatus
    PROVE  SetTask(t, s) \in Call /\ Plain(SetTask(t, s))
  BY DEF SetTask, Call, Plain

LEMMA UpdatePlanCall ==
    ASSUME NEW p \in PlanIds, NEW s \in Decided, NEW v \in Decisions \cup {None}
    PROVE  UpdatePlan(p, s, v) \in Call /\ Plain(UpdatePlan(p, s, v))
  BY DEF UpdatePlan, Call, Plain, Decided

LEMMA FinishJobCall ==
    ASSUME NEW j \in JobIds, NEW s \in {"done", "failed"}
    PROVE  FinishJob(j, s) \in Call /\ Plain(FinishJob(j, s))
  BY DEF FinishJob, Call, Plain

LEMMA CreateJobCall ==
    ASSUME NEW t \in TaskIds \cup {None}, NEW a \in AgentIds \cup {None}
    PROVE  /\ CreateJob("plan", t, None, a) \in Call
           /\ Plain(CreateJob("plan", t, None, a))
           /\ \A p \in PlanIds : CreateJob("execute", t, p, a) \in Call
  BY DEF CreateJob, Call, Plain

LEMMA JobCalls ==
    ASSUME NEW j \in JobIds
    PROVE  /\ [op |-> "LatestPlanVersion", job |-> j] \in Call
           /\ Plain([op |-> "LatestPlanVersion", job |-> j])
           /\ \A n \in Nat : /\ [op |-> "CreatePlan", job |-> j, version |-> n] \in Call
                             /\ Plain([op |-> "CreatePlan", job |-> j, version |-> n])
           /\ \A by \in {"remote", "embedded"} :
                  /\ [op |-> "BuildBundle", job |-> j, by |-> by] \in Call
                  /\ Plain([op |-> "BuildBundle", job |-> j, by |-> by])
           /\ \A o \in {"Requeue", "FailStale"} :
                  [op |-> o, job |-> j] \in Call /\ Plain([op |-> o, job |-> j])
  BY DEF Call, Plain

-----------------------------------------------------------------------------
(* The functions of the orchestrator are well-typed and gated.              *)

\* What the rows refer to.
LEMMA RowsRefer ==
    ASSUME TypeOK
    PROVE  /\ \A p \in PlanIds : /\ plans[p].task \in TaskIds \cup {None}
                                 /\ plans[p].agent \in AgentIds \cup {None}
                                 /\ plans[p].version \in Nat
                                 /\ plans[p].status \in PlanStatus
           /\ \A j \in JobIds : /\ jobs[j].task \in TaskIds \cup {None}
                                /\ jobs[j].plan \in PlanIds \cup {None}
                                /\ jobs[j].agent \in AgentIds \cup {None}
                                /\ jobs[j].kind \in {"plan", "execute"}
           /\ \A h \in Threads : handlers[h] \in Seq(Call)
           /\ \A t \in TaskIds : tasks[t].status \in TaskStatus
  BY DEF TypeOK, Plan, Job, Task

LEMMA StartTaskProgram ==
    ASSUME NEW t \in TaskIds, NEW a \in AgentIds
    PROVE  /\ StartTask(t, a) \in Seq(Call)
           /\ \A i \in 1..Len(StartTask(t, a)) : Plain(StartTask(t, a)[i])
  <1>1. "planning" \in LiveStatus
    BY DEF LiveStatus, TaskStatus
  <1>2. QED
    BY <1>1, GetAgentCall, SetTaskCall, CreateJobCall, ThreePlain DEF StartTask

LEMMA RejectPlanProgram ==
    ASSUME TypeOK, NEW p \in PlanIds
    PROVE  /\ RejectPlan(p) \in Seq(Call)
           /\ \A i \in 1..Len(RejectPlan(p)) : Plain(RejectPlan(p)[i])
  <1>1. "rejected" \in LiveStatus /\ "rejected" \in Decided /\ "reject" \in Decisions
    BY DEF LiveStatus, TaskStatus, Decided, PlanStatus, Decisions
  <1>2. QED
    BY <1>1, RowsRefer, UpdatePlanCall, SetTaskCall, TwoPlain DEF RejectPlan

LEMMA RequestChangesProgram ==
    ASSUME TypeOK, NEW p \in PlanIds
    PROVE  /\ RequestChanges(p) \in Seq(Call)
           /\ \A i \in 1..Len(RequestChanges(p)) : Plain(RequestChanges(p)[i])
  <1>1. "planning" \in LiveStatus /\ "superseded" \in Decided /\ "request_changes" \in Decisions
    BY DEF LiveStatus, TaskStatus, Decided, PlanStatus, Decisions
  <1>2. QED
    BY <1>1, RowsRefer, UpdatePlanCall, SetTaskCall, GetAgentCall, CreateJobCall, FourPlain
       DEF RequestChanges

LEMMA FailJobProgram ==
    ASSUME TypeOK, NEW j \in JobIds
    PROVE  /\ FailJob(j) \in Seq(Call)
           /\ \A i \in 1..Len(FailJob(j)) : Plain(FailJob(j)[i])
  <1>1. "failed" \in LiveStatus /\ "failed" \in Decided
    BY DEF LiveStatus, TaskStatus, Decided, PlanStatus
  <1> DEFINE s == <<FinishJob(j, "failed"), SetTask(jobs[j].task, "failed")>>
             u == IF jobs[j].plan = None THEN <<>>
                  ELSE <<UpdatePlan(jobs[j].plan, "failed", None)>>
  <1>2. s \in Seq(Call) /\ \A i \in 1..Len(s) : Plain(s[i])
    BY <1>1, RowsRefer, FinishJobCall, SetTaskCall, TwoPlain
  <1>3. u \in Seq(Call) /\ \A i \in 1..Len(u) : Plain(u[i])
    <2>1. CASE jobs[j].plan = None
      <3>1. u = <<>>
        BY <2>1
      <3>2. QED
        BY <3>1
    <2>2. CASE jobs[j].plan # None
      <3>1. jobs[j].plan \in PlanIds
        BY <2>2, RowsRefer
      <3>2. u = <<UpdatePlan(jobs[j].plan, "failed", None)>>
        BY <2>2
      <3>3. QED
        BY <1>1, <3>1, <3>2, UpdatePlanCall, OnePlain
    <2>3. QED
      BY <2>1, <2>2
  <1>4. FailJob(j) = s \o u
    BY DEF FailJob
  <1> HIDE DEF s, u
  <1>5. QED
    BY <1>2, <1>3, <1>4, ConcatPlain

LEMMA CompletionsProgram ==
    ASSUME TypeOK, JobsGated, NEW j \in JobIds, NEW calls \in Completions(j)
    PROVE  /\ calls \in Seq(Call)
           /\ \A i \in 1..Len(calls) : Plain(calls[i])
  <1>1. CASE calls = FailJob(j)
    BY <1>1, FailJobProgram
  <1>2. CASE jobs[j].kind = "plan" /\ calls = CompletePlanJob(j)
    BY <1>2, JobCalls, OnePlain DEF CompletePlanJob
  <1>3. ASSUME jobs[j].kind # "plan", NEW s \in BOOLEAN, calls = CompleteExecuteJob(j, s)
        PROVE  calls \in Seq(Call) /\ \A i \in 1..Len(calls) : Plain(calls[i])
    <2>1. jobs[j].plan \in PlanIds
      BY <1>3, RowsRefer DEF JobsGated
    <2>2. /\ (IF s THEN "done" ELSE "failed") \in LiveStatus
          /\ (IF s THEN "completed" ELSE "failed") \in Decided
      BY DEF LiveStatus, TaskStatus, Decided, PlanStatus
    <2>3. QED
      BY <1>3, <2>1, <2>2, RowsRefer, FinishJobCall, UpdatePlanCall, SetTaskCall, ThreePlain
         DEF CompleteExecuteJob
  <1>4. QED
    BY <1>1, <1>2, <1>3 DEF Completions, Drafts

\* The approval is written before the job is queued.
LEMMA ApprovePlanProgram ==
    ASSUME TypeOK, NEW p \in PlanIds, NEW v
    PROVE  ApprovePlan(p) \in Seq(Call) /\ Gated(ApprovePlan(p), v)
  <1> DEFINE a == UpdatePlan(p, "approved", "approve")
             b == SetTask(plans[p].task, "executing")
             c == GetAgent(plans[p].agent)
             d == CreateJob("execute", plans[p].task, p, plans[p].agent)
  <1>1. "executing" \in LiveStatus /\ "approved" \in Decided /\ "approve" \in Decisions
    BY DEF LiveStatus, TaskStatus, Decided, PlanStatus, Decisions
  <1>2. a \in Call /\ b \in Call /\ c \in Call /\ d \in Call
    BY <1>1, RowsRefer, UpdatePlanCall, SetTaskCall, GetAgentCall, CreateJobCall
  <1>3. /\ a.op = "UpdatePlan" /\ a.status \in Decided /\ a.plan = p /\ a.verdict = "approve"
        /\ b.op = "SetTask" /\ c.op = "GetAgent" /\ d.op = "CreateJob" /\ d.plan = p
    BY <1>1 DEF UpdatePlan, SetTask, GetAgent, CreateJob
  <1>4. p # None
    BY OrchestratorAssumption
  <1>5. ApprovePlan(p) = <<a, b, c, d>>
    BY DEF ApprovePlan
  <1> HIDE DEF a, b, c, d
  <1> DEFINE s == <<a, b, c, d>>
  <1>6. s[1] = a /\ s[2] = b /\ s[3] = c /\ s[4] = d /\ Len(s) = 4 /\ 1 \in 1..(4 - 1)
        /\ s \in Seq(Call)
    BY <1>2
  <1> HIDE DEF s
  <1>7. \A i \in 1..Len(s) : i = 1 \/ i = 2 \/ i = 3 \/ i = 4
    BY <1>6
  <1>8. Gated(s, v)
    BY <1>3, <1>4, <1>6, <1>7 DEF Gated
  <1>9. QED
    BY <1>5, <1>6, <1>8 DEF s

-----------------------------------------------------------------------------
(* The steps.                                                               *)

\* One handler gets new calls; the others are as they were, and the history may
\* have grown.
LEMMA HandlerReplaced ==
    ASSUME TypeOK, HandlersGated,
           NEW h \in Threads, NEW calls \in Seq(Call), NEW w, Gated(calls, w),
           \A p \in PlanIds : verdicts[p] \subseteq w[p],
           NEW hs, hs = [handlers EXCEPT ![h] = calls]
    PROVE  hs \in [Threads -> Seq(Call)] /\ \A g \in Threads : Gated(hs[g], w)
  <1>1. handlers \in [Threads -> Seq(Call)]
    BY DEF TypeOK
  <1>2. hs \in [Threads -> Seq(Call)]
    BY <1>1
  <1>3. ASSUME NEW g \in Threads
        PROVE  Gated(hs[g], w)
    <2>1. CASE g = h
      <3>1. hs[g] = calls
        BY <1>1, <2>1
      <3>2. QED
        BY <3>1
    <2>2. CASE g # h
      <3>1. hs[g] = handlers[g] /\ handlers[g] \in Seq(Call) /\ Gated(handlers[g], verdicts)
        BY <1>1, <2>2 DEF HandlersGated
      <3>2. QED
        BY <3>1, GatedGrows
    <2>3. QED
      BY <2>1, <2>2
  <1>4. QED
    BY <1>2, <1>3

\* A handler starts or goes on with gated calls, and plans, jobs and history stay.
LEMMA CallsReplaced ==
    ASSUME GateInv, NEW h \in Threads, NEW calls \in Seq(Call), Gated(calls, verdicts),
           handlers' = [handlers EXCEPT ![h] = calls],
           UNCHANGED verdicts
    PROVE  handlers' \in [Threads -> Seq(Call)] /\ HandlersGated'
  <1>1. \A p \in PlanIds : verdicts[p] \subseteq verdicts[p]
    OBVIOUS
  <1>2. TypeOK /\ HandlersGated
    BY DEF GateInv
  <1>3. handlers' \in [Threads -> Seq(Call)] /\ \A g \in Threads : Gated(handlers'[g], verdicts)
    BY <1>1, <1>2, HandlerReplaced
  <1>4. QED
    BY <1>3 DEF HandlersGated

\* ... in particular, it has made its first call, which was no approval.
LEMMA CallMade ==
    ASSUME GateInv, NEW h \in Threads, handlers[h] # <<>>,
           Head(handlers[h]).op # "UpdatePlan",
           handlers' = [handlers EXCEPT ![h] = Tail(handlers[h])],
           UNCHANGED verdicts
    PROVE  handlers' \in [Threads -> Seq(Call)] /\ HandlersGated'
  <1>1. handlers[h] \in Seq(Call) /\ Gated(handlers[h], verdicts)
    BY RowsRefer DEF GateInv, HandlersGated
  <1>2. \A p \in PlanIds : verdicts[p] \subseteq verdicts[p]
    OBVIOUS
  <1>3. Tail(handlers[h]) \in Seq(Call) /\ Gated(Tail(handlers[h]), verdicts)
    BY <1>1, <1>2, TailIsGated
  <1>4. QED
    BY <1>3, CallsReplaced

\* ... or it has ended.
LEMMA HandlerEnded ==
    ASSUME GateInv, NEW h \in Threads,
           handlers' = [handlers EXCEPT ![h] = <<>>],
           UNCHANGED verdicts
    PROVE  handlers' \in [Threads -> Seq(Call)] /\ HandlersGated'
  <1>1. <<>> \in Seq(Call) /\ Gated(<<>>, verdicts)
    BY EmptyIsGated
  <1>2. QED
    BY <1>1, CallsReplaced

\* The first call of a handler is well-typed and gated.
LEMMA HeadGated ==
    ASSUME GateInv, NEW h \in Threads, handlers[h] # <<>>
    PROVE  LET c == Head(handlers[h]) IN
           /\ c \in Call
           /\ c.op = "UpdatePlan" => c.status \in Decided
           /\ c.op = "CreateJob" => /\ c.kind = "execute" => c.plan # None
                                    /\ c.plan # None => "approve" \in verdicts[c.plan]
  <1>1. handlers[h] \in Seq(Call) /\ Gated(handlers[h], verdicts)
    BY RowsRefer DEF GateInv, HandlersGated
  <1>2. /\ Head(handlers[h]) = handlers[h][1] /\ 1 \in 1..Len(handlers[h])
        /\ handlers[h][1] \in Call /\ 1..(1 - 1) = {}
    BY <1>1
  <1>3. QED
    BY <1>1, <1>2 DEF Gated

\* The rest of the invariant does not mention tasks, agents, remote and embedded.
LEMMA TablesKept ==
    ASSUME JobsGated, VerdictsWritten, UNCHANGED <<plans, jobs, verdicts>>
    PROVE  JobsGated' /\ VerdictsWritten'
  BY DEF JobsGated, VerdictsWritten

-----------------------------------------------------------------------------
(* Requests.                                                                *)

LEMMA BeginKeeps ==
    ASSUME GateInv, NEW h \in Threads, NEW calls \in Seq(Call), Gated(calls, verdicts),
           Begin(h, calls), UNCHANGED <<plans, jobs, agents, remote, verdicts>>,
           tasks' \in [TaskIds -> Task], embedded' \in [JobIds -> Nat]
    PROVE  GateInv'
  <1>1. handlers' \in [Threads -> Seq(Call)] /\ HandlersGated'
    BY CallsReplaced DEF Begin
  <1>2. TypeOK'
    BY <1>1 DEF GateInv, TypeOK
  <1>3. QED
    BY <1>1, <1>2, TablesKept DEF GateInv

LEMMA CreateTaskKeeps ==
    ASSUME GateInv, NEW h \in Handlers, NEW t \in TaskIds, NEW a \in AgentIds \cup {None},
           CreateTask(h, t, a)
    PROVE  GateInv'
  <1>1. tasks \in [TaskIds -> Task] /\ embedded \in [JobIds -> Nat]
    BY DEF GateInv, TypeOK
  <1>2. [status |-> "inbox", agent |-> a] \in Task
    BY DEF Task, TaskStatus
  <1>3. tasks' \in [TaskIds -> Task] /\ embedded' \in [JobIds -> Nat]
    BY <1>1, <1>2 DEF CreateTask
  <1> DEFINE calls == IF a = None THEN <<>> ELSE StartTask(t, a)
  <1>4. calls \in Seq(Call) /\ Gated(calls, verdicts)
    <2>1. CASE a = None
      <3>1. calls = <<>> /\ <<>> \in Seq(Call)
        BY <2>1
      <3> HIDE DEF calls
      <3>2. QED
        BY <3>1, EmptyIsGated
    <2>2. CASE a # None
      <3>1. calls = StartTask(t, a) /\ a \in AgentIds
        BY <2>2
      <3>2. QED
        BY <3>1, StartTaskProgram, PlainIsGated
    <2>3. QED
      BY <2>1, <2>2
  <1>5. Begin(h, calls) /\ UNCHANGED <<plans, jobs, agents, remote, verdicts>>
    BY DEF CreateTask
  <1> HIDE DEF calls
  <1>6. h \in Threads
    BY DEF Threads
  <1>7. QED
    BY <1>3, <1>4, <1>5, <1>6, BeginKeeps

LEMMA AssignTaskKeeps ==
    ASSUME GateInv, NEW h \in Handlers, NEW t \in TaskIds, NEW a \in AgentIds,
           AssignTask(h, t, a)
    PROVE  GateInv'
  <1> DEFINE u == <<[op |-> "UpdateTask", task |-> t, status |-> tasks[t].status,
                     agent |-> a]>>
  <1>1. tasks[t].status \in LiveStatus
    BY DEF AssignTask, LiveStatus, TaskStatus
  <1>2. u \in Seq(Call) /\ \A i \in 1..Len(u) : Plain(u[i])
    <2>1. u[1] \in Call /\ Plain(u[1])
      BY <1>1 DEF Call, Plain
    <2>2. QED
      BY <2>1, OnePlain
  <1>3. Begin(h, u \o StartTask(t, a))
    BY DEF AssignTask
  <1> HIDE DEF u
  <1>4. u \o StartTask(t, a) \in Seq(Call) /\ Gated(u \o StartTask(t, a), verdicts)
    BY <1>2, StartTaskProgram, ConcatPlain, PlainIsGated
  <1>5. /\ UNCHANGED <<plans, jobs, agents, remote, verdicts>> /\ h \in Threads
        /\ tasks' \in [TaskIds -> Task] /\ embedded' \in [JobIds -> Nat]
    BY DEF AssignTask, GateInv, TypeOK, Threads
  <1>6. QED
    BY <1>3, <1>4, <1>5, BeginKeeps

LEMMA PlanDecisionKeeps ==
    ASSUME GateInv, NEW h \in Handlers, NEW p \in PlanIds, NEW d \in Decisions,
           PlanDecision(h, p, d)
    PROVE  GateInv'
  <1>1. TypeOK
    BY DEF GateInv
  <1>2. /\ UNCHANGED <<plans, jobs, agents, remote, verdicts>> /\ h \in Threads
        /\ tasks' \in [TaskIds -> Task] /\ embedded' \in [JobIds -> Nat]
    BY DEF PlanDecision, GateInv, TypeOK, Threads
  <1>3. CASE d = "approve"
    <2>1. Begin(h, ApprovePlan(p))
      BY <1>3 DEF PlanDecision
    <2>2. QED
      BY <1>1, <1>2, <2>1, ApprovePlanProgram, BeginKeeps
  <1>4. CASE d = "reject"
    <2>1. Begin(h, RejectPlan(p))
      BY <1>4 DEF PlanDecision
    <2>2. QED
      BY <1>1, <1>2, <2>1, RejectPlanProgram, PlainIsGated, BeginKeeps
  <1>5. CASE d = "request_changes"
    <2>1. Begin(h, RequestChanges(p))
      BY <1>5 DEF PlanDecision
    <2>2. QED
      BY <1>1, <1>2, <2>1, RequestChangesProgram, PlainIsGated, BeginKeeps
  <1>6. QED
    BY <1>3, <1>4, <1>5 DEF Decisions

LEMMA ClaimKeeps ==
    ASSUME GateInv, NEW h \in Handlers, NEW j \in JobIds, NEW by \in {"remote", "embedded"},
           Claim(h, j, by)
    PROVE  GateInv'
  <1> DEFINE calls == <<[op |-> "BuildBundle", job |-> j, by |-> by]>>
  <1>1. calls \in Seq(Call) /\ Gated(calls, verdicts)
    BY JobCalls, OnePlain, PlainIsGated
  <1>2. /\ jobs' = [jobs EXCEPT ![j].status = "running", ![j].attempts = @ + 1]
        /\ Begin(h, calls) /\ h \in Threads
        /\ UNCHANGED <<tasks, plans, agents, remote, embedded, verdicts>>
    BY DEF Claim, Threads
  <1> HIDE DEF calls
  <1>3. handlers' \in [Threads -> Seq(Call)] /\ HandlersGated'
    BY <1>1, <1>2, CallsReplaced DEF Begin
  <1>4. jobs \in [JobIds -> Job]
    BY DEF GateInv, TypeOK
  <1>5. jobs' \in [JobIds -> Job]
    BY <1>2, <1>4 DEF Job, JobStatus
  <1>6. \A i \in JobIds : jobs'[i].kind = jobs[i].kind /\ jobs'[i].plan = jobs[i].plan
    BY <1>2, <1>4 DEF Job
  <1>7. JobsGated' /\ VerdictsWritten'
    BY <1>2, <1>6 DEF GateInv, JobsGated, VerdictsWritten
  <1>8. TypeOK'
    BY <1>2, <1>3, <1>5 DEF GateInv, TypeOK
  <1>9. QED
    BY <1>3, <1>7, <1>8 DEF GateInv

LEMMA CompleteRemoteKeeps ==
    ASSUME GateInv, NEW h \in Handlers, NEW j \in JobIds, CompleteRemote(h, j)
    PROVE  GateInv'
  <1>1. PICK calls \in Completions(j) : Begin(h, calls)
    BY DEF CompleteRemote
  <1>2. calls \in Seq(Call) /\ Gated(calls, verdicts)
    BY CompletionsProgram, PlainIsGated DEF GateInv
  <1>3. /\ UNCHANGED <<plans, jobs, agents, remote, verdicts>> /\ h \in Threads
        /\ tasks' \in [TaskIds -> Task] /\ embedded' \in [JobIds -> Nat]
    BY DEF CompleteRemote, GateInv, TypeOK, Threads
  <1>4. QED
    BY <1>1, <1>2, <1>3, BeginKeeps

LEMMA CompleteEmbeddedKeeps ==
    ASSUME GateInv, NEW h \in Handlers, NEW j \in JobIds, CompleteEmbedded(h, j)
    PROVE  GateInv'
  <1>1. PICK calls \in Completions(j) : Begin(h, calls)
    BY DEF CompleteEmbedded
  <1>2. calls \in Seq(Call) /\ Gated(calls, verdicts)
    BY CompletionsProgram, PlainIsGated DEF GateInv
  <1>3. embedded \in [JobIds -> Nat] /\ embedded[j] > 0
        /\ embedded' = [embedded EXCEPT ![j] = @ - 1]
    BY DEF CompleteEmbedded, GateInv, TypeOK
  <1>4. embedded' \in [JobIds -> Nat]
    BY <1>3
  <1>5. /\ UNCHANGED <<plans, jobs, agents, remote, verdicts>> /\ h \in Threads
        /\ tasks' \in [TaskIds -> Task]
    BY DEF CompleteEmbedded, GateInv, TypeOK, Threads
  <1>6. QED
    BY <1>1, <1>2, <1>4, <1>5, BeginKeeps

\* The row that a step event writes back was decided: the job has a plan, so the
\* plan was approved, and no row with a decision is pending.
LEMMA StepEventKeeps ==
    ASSUME GateInv, NEW h \in Handlers, NEW j \in JobIds, StepEvent(h, j)
    PROVE  GateInv'
  <1> DEFINE p == jobs[j].plan
             calls == <<UpdatePlan(p, plans[p].status, None)>>
  <1>1. p \in PlanIds
    BY RowsRefer DEF GateInv, StepEvent
  <1>2. verdicts[p] # {}
    BY DEF GateInv, JobsGated, StepEvent
  <1>3. plans[p].status \in Decided
    BY <1>1, <1>2 DEF GateInv, VerdictsWritten
  <1>4. Begin(h, calls)
    BY DEF StepEvent
  <1>5. calls \in Seq(Call) /\ \A i \in 1..Len(calls) : Plain(calls[i])
    BY <1>1, <1>3, UpdatePlanCall, OnePlain
  <1> HIDE DEF calls, p
  <1>6. /\ UNCHANGED <<plans, jobs, agents, remote, verdicts>> /\ h \in Threads
        /\ tasks' \in [TaskIds -> Task] /\ embedded' \in [JobIds -> Nat]
    BY DEF StepEvent, GateInv, TypeOK, Threads
  <1>7. QED
    BY <1>4, <1>5, <1>6, PlainIsGated, BeginKeeps

LEMMA SweepJobKeeps ==
    ASSUME GateInv, NEW j \in JobIds, SweepJob(j)
    PROVE  GateInv'
  <1> DEFINE f == <<[op |-> "FailStale", job |-> j]>>
             q == <<[op |-> "Requeue", job |-> j]>>
             calls == IF jobs[j].attempts >= MaxAttempts THEN f \o FailJob(j) ELSE q
  <1>1. /\ f \in Seq(Call) /\ \A i \in 1..Len(f) : Plain(f[i])
        /\ q \in Seq(Call) /\ \A i \in 1..Len(q) : Plain(q[i])
    BY JobCalls, OnePlain
  <1>2. Begin(Loop, calls)
    BY DEF SweepJob
  <1> HIDE DEF f, q
  <1>3. FailJob(j) \in Seq(Call) /\ \A i \in 1..Len(FailJob(j)) : Plain(FailJob(j)[i])
    BY FailJobProgram DEF GateInv
  <1>4. f \o FailJob(j) \in Seq(Call) /\ Gated(f \o FailJob(j), verdicts)
    BY <1>1, <1>3, ConcatPlain, PlainIsGated
  <1>5. q \in Seq(Call) /\ Gated(q, verdicts)
    BY <1>1, PlainIsGated
  <1>6. calls \in Seq(Call) /\ Gated(calls, verdicts)
    <2>1. calls = f \o FailJob(j) \/ calls = q
      OBVIOUS
    <2> HIDE DEF calls
    <2>2. QED
      BY <1>4, <1>5, <2>1
  <1> HIDE DEF calls
  <1>7. /\ UNCHANGED <<plans, jobs, agents, remote, verdicts>> /\ Loop \in Threads
        /\ tasks' \in [TaskIds -> Task] /\ embedded' \in [JobIds -> Nat]
    BY DEF SweepJob, GateInv, TypeOK, Threads
  <1>8. QED
    BY <1>2, <1>6, <1>7, BeginKeeps

\* Single statements and the faults leave plans, jobs and history alone.
LEMMA TablesOnly ==
    ASSUME GateInv, UNCHANGED <<plans, jobs, handlers, remote, embedded, verdicts>>,
           tasks' \in [TaskIds -> Task], agents' \in [AgentIds -> Agent]
    PROVE  GateInv'
  <1>1. TypeOK'
    BY DEF GateInv, TypeOK
  <1>2. HandlersGated'
    BY DEF GateInv, HandlersGated
  <1>3. QED
    BY <1>1, <1>2, TablesKept DEF GateInv

LEMMA DeletesKeep ==
    ASSUME GateInv,
           \/ \E t \in TaskIds : DeleteTask(t)
           \/ \E a \in AgentIds : DeleteAgent(a) \/ UpdateAgent(a)
    PROVE  GateInv'
  <1>1. tasks \in [TaskIds -> Task] /\ agents \in [AgentIds -> Agent]
    BY DEF GateInv, TypeOK
  <1>2. ASSUME NEW t \in TaskIds, DeleteTask(t)
        PROVE  GateInv'
    <2>1. tasks' \in [TaskIds -> Task]
      BY <1>1, <1>2 DEF DeleteTask, Task, TaskStatus
    <2>2. QED
      BY <1>1, <1>2, <2>1, TablesOnly DEF DeleteTask
  <1>3. ASSUME NEW a \in AgentIds, DeleteAgent(a) \/ UpdateAgent(a)
        PROVE  GateInv'
    <2>1. agents' \in [AgentIds -> Agent]
      <3>1. ASSUME NEW b \in BOOLEAN, \/ agents' = [agents EXCEPT ![a].present = b]
                                     \/ agents' = [agents EXCEPT ![a].autonomous = b]
            PROVE  agents' \in [AgentIds -> Agent]
        BY <1>1, <3>1 DEF Agent
      <3>2. (~agents[a].autonomous) \in BOOLEAN /\ FALSE \in BOOLEAN
        OBVIOUS
      <3>3. QED
        BY <1>3, <3>1, <3>2, Zenon DEF DeleteAgent, UpdateAgent
    <2>2. QED
      BY <1>1, <1>3, <2>1, TablesOnly DEF DeleteAgent, UpdateAgent
  <1>4. QED
    BY <1>2, <1>3

-----------------------------------------------------------------------------
(* Store calls.                                                             *)

LEMMA DoGetAgentKeeps ==
    ASSUME GateInv, NEW h \in Threads, DoGetAgent(h)
    PROVE  GateInv'
  <1>1. handlers[h] # <<>> /\ Head(handlers[h]).op = "GetAgent"
    BY DEF DoGetAgent, At
  <1>2. /\ UNCHANGED <<tasks, plans, jobs, agents, remote, embedded, verdicts>>
        /\ \/ handlers' = [handlers EXCEPT ![h] = Tail(handlers[h])]
           \/ handlers' = [handlers EXCEPT ![h] = <<>>]
    BY DEF DoGetAgent, Then
  <1>3. handlers' \in [Threads -> Seq(Call)] /\ HandlersGated'
    BY <1>1, <1>2, CallMade, HandlerEnded
  <1>4. TypeOK'
    BY <1>2, <1>3 DEF GateInv, TypeOK
  <1>5. QED
    BY <1>2, <1>3, <1>4, TablesKept DEF GateInv

LEMMA DoSetTaskKeeps ==
    ASSUME GateInv, NEW h \in Threads, DoSetTask(h)
    PROVE  GateInv'
  <1> DEFINE c == Head(handlers[h])
  <1>1. handlers[h] # <<>> /\ c.op = "SetTask"
    BY DEF DoSetTask, At
  <1>2. c.status \in LiveStatus
    <2>1. c \in Call
      BY <1>1, HeadGated
    <2>2. QED
      BY <1>1, <2>1 DEF Call
  <1>3. /\ handlers' = [handlers EXCEPT ![h] = Tail(handlers[h])]
        /\ tasks' = [tasks EXCEPT ![c.task].status =
                       IF @ = "deleted" THEN @ ELSE c.status]
        /\ UNCHANGED <<plans, jobs, agents, remote, embedded, verdicts>>
    BY DEF DoSetTask, Then
  <1> HIDE DEF c
  <1>4. handlers' \in [Threads -> Seq(Call)] /\ HandlersGated'
    BY <1>1, <1>3, CallMade DEF c
  <1>5. tasks \in [TaskIds -> Task]
    BY DEF GateInv, TypeOK
  <1>6. tasks' \in [TaskIds -> Task]
    BY <1>2, <1>3, <1>5 DEF Task, LiveStatus
  <1>7. TypeOK'
    BY <1>3, <1>4, <1>6 DEF GateInv, TypeOK
  <1>8. QED
    BY <1>3, <1>4, <1>7, TablesKept DEF GateInv

LEMMA DoUpdateTaskKeeps ==
    ASSUME GateInv, NEW h \in Threads, DoUpdateTask(h)
    PROVE  GateInv'
  <1> DEFINE c == Head(handlers[h])
  <1>1. handlers[h] # <<>> /\ c.op = "UpdateTask"
    BY DEF DoUpdateTask, At
  <1>2. c.status \in LiveStatus /\ c.agent \in AgentIds
    <2>1. c \in Call
      BY <1>1, HeadGated
    <2>2. QED
      BY <1>1, <2>1 DEF Call
  <1>3. /\ \/ /\ handlers' = [handlers EXCEPT ![h] = <<>>]
              /\ tasks' = tasks
           \/ /\ handlers' = [handlers EXCEPT ![h] = Tail(handlers[h])]
              /\ tasks' = [tasks EXCEPT ![c.task] = [status |-> c.status, agent |-> c.agent]]
        /\ UNCHANGED <<plans, jobs, agents, remote, embedded, verdicts>>
    BY DEF DoUpdateTask, Then
  <1> HIDE DEF c
  <1>4. handlers' \in [Threads -> Seq(Call)] /\ HandlersGated'
    BY <1>1, <1>3, CallMade, HandlerEnded DEF c
  <1>5. tasks \in [TaskIds -> Task]
    BY DEF GateInv, TypeOK
  <1>6. [status |-> c.status, agent |-> c.agent] \in Task
    BY <1>2 DEF Task, LiveStatus
  <1>7. tasks' \in [TaskIds -> Task]
    BY <1>3, <1>5, <1>6
  <1>8. TypeOK'
    BY <1>3, <1>4, <1>7 DEF GateInv, TypeOK
  <1>9. QED
    BY <1>3, <1>4, <1>8, TablesKept DEF GateInv

\* The new row is an execute job only if the approval is on record.
LEMMA DoCreateJobKeeps ==
    ASSUME GateInv, NEW h \in Threads, DoCreateJob(h)
    PROVE  GateInv'
  <1> DEFINE c == Head(handlers[h])
             row == [status |-> "queued", kind |-> c.kind, task |-> c.task, plan |-> c.plan,
                     agent |-> c.agent, attempts |-> 0]
  <1>1. handlers[h] # <<>> /\ c.op = "CreateJob"
    BY DEF DoCreateJob, At
  <1>2. /\ c \in Call
        /\ c.kind = "execute" => c.plan # None
        /\ c.plan # None => "approve" \in verdicts[c.plan]
    BY <1>1, HeadGated
  <1>3. row \in Job
    BY <1>1, <1>2 DEF Call, Job, JobStatus
  <1>4. PICK j \in JobIds : jobs' = [jobs EXCEPT ![j] = row]
    <2>1. Free(jobs) \subseteq JobIds
      BY DEF Free, GateInv, TypeOK
    <2>2. QED
      BY <2>1 DEF DoCreateJob
  <1>5. /\ handlers' = [handlers EXCEPT ![h] = Tail(handlers[h])]
        /\ UNCHANGED <<tasks, plans, agents, remote, embedded, verdicts>>
    BY DEF DoCreateJob, Then
  <1>6. row.kind = c.kind /\ row.plan = c.plan
    OBVIOUS
  <1> HIDE DEF c, row
  <1>7. handlers' \in [Threads -> Seq(Call)] /\ HandlersGated'
    BY <1>1, <1>5, CallMade DEF c
  <1>8. jobs \in [JobIds -> Job]
    BY DEF GateInv, TypeOK
  <1>9. jobs' \in [JobIds -> Job]
    BY <1>3, <1>4, <1>8
  <1>10. \A i \in JobIds : jobs'[i] = IF i = j THEN row ELSE jobs[i]
    BY <1>4, <1>8
  <1>11. JobsGated'
    BY <1>2, <1>5, <1>6, <1>10 DEF GateInv, JobsGated
  <1>12. VerdictsWritten'
    BY <1>5 DEF GateInv, VerdictsWritten
  <1>13. TypeOK'
    BY <1>5, <1>7, <1>9 DEF GateInv, TypeOK
  <1>14. QED
    BY <1>7, <1>11, <1>12, <1>13 DEF GateInv

\* Whatever row is written back, its status is one of a decided plan.
LEMMA DoUpdatePlanKeeps ==
    ASSUME GateInv, NEW h \in Threads, DoUpdatePlan(h)
    PROVE  GateInv'
  <1> DEFINE c == Head(handlers[h])
  <1>1. handlers[h] # <<>> /\ c.op = "UpdatePlan"
    BY DEF DoUpdatePlan, At
  <1>2. c \in Call /\ c.status \in Decided
    BY <1>1, HeadGated
  <1>3. c.plan \in PlanIds /\ c.verdict \in Decisions \cup {None}
    BY <1>1, <1>2 DEF Call
  <1>4. /\ handlers' = [handlers EXCEPT ![h] = Tail(handlers[h])]
        /\ plans' = [plans EXCEPT ![c.plan].status = c.status]
        /\ verdicts' = [verdicts EXCEPT ![c.plan] = @ \cup ({c.verdict} \ {None})]
        /\ UNCHANGED <<tasks, jobs, agents, remote, embedded>>
    BY DEF DoUpdatePlan, Then
  <1>5. plans \in [PlanIds -> Plan] /\ verdicts \in [PlanIds -> SUBSET Decisions]
    BY DEF GateInv, TypeOK
  <1>6. handlers[h] \in Seq(Call) /\ Gated(handlers[h], verdicts)
    BY RowsRefer DEF GateInv, HandlersGated
  <1> HIDE DEF c
  <1>7. plans' \in [PlanIds -> Plan]
    BY <1>2, <1>4, <1>5 DEF Plan, Decided
  <1>8. \A p \in PlanIds :
           /\ p = c.plan => /\ plans'[p].status = c.status
                            /\ verdicts'[p] = verdicts[p] \cup ({c.verdict} \ {None})
           /\ p # c.plan => /\ plans'[p].status = plans[p].status
                            /\ verdicts'[p] = verdicts[p]
    BY <1>3, <1>4, <1>5 DEF Plan
  <1>9. verdicts' \in [PlanIds -> SUBSET Decisions]
    BY <1>3, <1>4, <1>5
  <1>10. \A p \in PlanIds : verdicts[p] \subseteq verdicts'[p]
    BY <1>8
  <1>11. c.verdict = "approve" => "approve" \in verdicts'[c.plan]
    BY <1>3, <1>8, OrchestratorAssumption DEF Decisions
  <1>12. Tail(handlers[h]) \in Seq(Call) /\ Gated(Tail(handlers[h]), verdicts')
    BY <1>1, <1>6, <1>10, <1>11, TailIsGated DEF c
  <1>13. handlers' \in [Threads -> Seq(Call)] /\ HandlersGated'
    <2>1. TypeOK /\ HandlersGated
      BY DEF GateInv
    <2> DEFINE w == verdicts'
               calls == Tail(handlers[h])
               hs == handlers'
    <2>2. /\ hs = [handlers EXCEPT ![h] = calls]
          /\ \A p \in PlanIds : verdicts[p] \subseteq w[p]
          /\ calls \in Seq(Call) /\ Gated(calls, w)
      BY <1>4, <1>10, <1>12
    <2> HIDE DEF w, calls, hs
    <2>3. hs \in [Threads -> Seq(Call)] /\ \A g \in Threads : Gated(hs[g], w)
      BY <2>1, <2>2, HandlerReplaced
    <2>4. QED
      BY <2>3 DEF HandlersGated, w, hs
  <1>14. VerdictsWritten'
    BY <1>2, <1>8 DEF GateInv, VerdictsWritten
  <1>15. JobsGated'
    <2>1. \A j \in JobIds : jobs[j].plan \in PlanIds \cup {None}
      BY RowsRefer DEF GateInv
    <2>2. QED
      BY <1>4, <1>10, <2>1 DEF GateInv, JobsGated
  <1>16. TypeOK'
    BY <1>4, <1>7, <1>9, <1>13 DEF GateInv, TypeOK
  <1>17. QED
    BY <1>13, <1>14, <1>15, <1>16 DEF GateInv

\* A step that only decides what its handler does next.
LEMMA HandlerOnly ==
    ASSUME GateInv, NEW h \in Threads, NEW calls \in Seq(Call), Gated(calls, verdicts),
           handlers' = [handlers EXCEPT ![h] = calls],
           UNCHANGED <<tasks, plans, jobs, agents, verdicts>>,
           remote' \subseteq JobIds, embedded' \in [JobIds -> Nat]
    PROVE  GateInv'
  <1>1. handlers' \in [Threads -> Seq(Call)] /\ HandlersGated'
    BY CallsReplaced
  <1>2. TypeOK'
    BY <1>1 DEF GateInv, TypeOK
  <1>3. QED
    BY <1>1, <1>2, TablesKept DEF GateInv

LEMMA DoLatestPlanVersionKeeps ==
    ASSUME GateInv, NEW h \in Threads, DoLatestPlanVersion(h)
    PROVE  GateInv'
  <1> DEFINE j == Head(handlers[h]).job
  <1>1. handlers[h] # <<>> /\ Head(handlers[h]).op = "LatestPlanVersion"
    BY DEF DoLatestPlanVersion, At
  <1>2. j \in JobIds
    <2>1. Head(handlers[h]) \in Call
      BY <1>1, HeadGated
    <2>2. QED
      BY <1>1, <2>1 DEF Call
  <1>3. PICK latest \in Versions(jobs[j].task) :
           Then(h, <<[op |-> "CreatePlan", job |-> j, version |-> latest + 1]>>)
    BY DEF DoLatestPlanVersion
  <1>4. latest + 1 \in Nat
    <2>1. \A p \in PlanIds : plans[p].version \in Nat
      BY RowsRefer DEF GateInv
    <2>2. latest \in Nat
      BY <2>1 DEF Versions
    <2>3. QED
      BY <2>2
  <1> DEFINE calls == <<[op |-> "CreatePlan", job |-> j, version |-> latest + 1]>>
  <1>5. calls \in Seq(Call) /\ Gated(calls, verdicts)
    BY <1>2, <1>4, JobCalls, OnePlain, PlainIsGated
  <1>6. handlers' = [handlers EXCEPT ![h] = calls]
    BY <1>3 DEF Then
  <1> HIDE DEF calls, j
  <1>7. /\ UNCHANGED <<tasks, plans, jobs, agents, verdicts>>
        /\ remote' \subseteq JobIds /\ embedded' \in [JobIds -> Nat]
    BY DEF DoLatestPlanVersion, GateInv, TypeOK
  <1>8. QED
    BY <1>5, <1>6, <1>7, HandlerOnly

LEMMA DoRouteKeeps ==
    ASSUME GateInv, NEW h \in Threads, DoRoute(h)
    PROVE  GateInv'
  <1> DEFINE p == Head(handlers[h]).plan
             s == <<SetTask(plans[p].task, "awaiting_approval")>>
  <1>1. handlers[h] # <<>> /\ Head(handlers[h]).op = "Route"
    BY DEF DoRoute, At
  <1>2. p \in PlanIds
    <2>1. Head(handlers[h]) \in Call
      BY <1>1, HeadGated
    <2>2. QED
      BY <1>1, <2>1 DEF Call
  <1>3. Then(h, <<>>) \/ Then(h, ApprovePlan(p)) \/ Then(h, s)
    BY DEF DoRoute
  <1>4. s \in Seq(Call) /\ Gated(s, verdicts)
    <2>1. plans[p].task \in TaskIds \cup {None} /\ "awaiting_approval" \in LiveStatus
      BY <1>2, RowsRefer DEF GateInv, LiveStatus, TaskStatus
    <2>2. QED
      BY <2>1, SetTaskCall, OnePlain, PlainIsGated
  <1> HIDE DEF p, s
  <1>5. ApprovePlan(p) \in Seq(Call) /\ Gated(ApprovePlan(p), verdicts)
    BY <1>2, ApprovePlanProgram DEF GateInv
  <1>6. <<>> \in Seq(Call) /\ Gated(<<>>, verdicts)
    BY EmptyIsGated
  <1>7. /\ UNCHANGED <<tasks, plans, jobs, agents, verdicts>>
        /\ remote' \subseteq JobIds /\ embedded' \in [JobIds -> Nat]
    BY DEF DoRoute, GateInv, TypeOK
  <1>8. PICK calls \in Seq(Call) :
           Gated(calls, verdicts) /\ handlers' = [handlers EXCEPT ![h] = calls]
    BY <1>3, <1>4, <1>5, <1>6 DEF Then
  <1>9. QED
    BY <1>7, <1>8, HandlerOnly

LEMMA DoBuildBundleKeeps ==
    ASSUME GateInv, NEW h \in Threads, DoBuildBundle(h)
    PROVE  GateInv'
  <1> DEFINE j == Head(handlers[h]).job
             by == Head(handlers[h]).by
  <1>1. handlers[h] # <<>> /\ Head(handlers[h]).op = "BuildBundle"
    BY DEF DoBuildBundle, At
  <1>2. j \in JobIds
    <2>1. Head(handlers[h]) \in Call
      BY <1>1, HeadGated
    <2>2. QED
      BY <1>1, <2>1 DEF Call
  <1>3. /\ UNCHANGED <<tasks, plans, jobs, agents, verdicts>>
        /\ \/ /\ Then(h, <<>>)
              /\ remote' = IF by = "remote" THEN remote \cup {j} ELSE remote
              /\ embedded' = IF by = "embedded" THEN [embedded EXCEPT ![j] = @ + 1]
                             ELSE embedded
           \/ Then(h, FailJob(j)) /\ remote' = remote /\ embedded' = embedded
    BY DEF DoBuildBundle
  <1> HIDE DEF j, by
  <1>4. remote \subseteq JobIds /\ embedded \in [JobIds -> Nat]
    BY DEF GateInv, TypeOK
  <1>5. remote' \subseteq JobIds /\ embedded' \in [JobIds -> Nat]
    BY <1>2, <1>3, <1>4
  <1>6. FailJob(j) \in Seq(Call) /\ Gated(FailJob(j), verdicts)
    BY <1>2, FailJobProgram, PlainIsGated DEF GateInv
  <1>7. <<>> \in Seq(Call) /\ Gated(<<>>, verdicts)
    BY EmptyIsGated
  <1>8. PICK calls \in Seq(Call) :
           Gated(calls, verdicts) /\ handlers' = [handlers EXCEPT ![h] = calls]
    BY <1>3, <1>6, <1>7 DEF Then
  <1>9. QED
    BY <1>3, <1>5, <1>8, HandlerOnly

\* A row that was not yet a plan has no decision, so it may be pending.
LEMMA DoCreatePlanKeeps ==
    ASSUME GateInv, NEW h \in Threads, DoCreatePlan(h)
    PROVE  GateInv'
  <1> DEFINE c == Head(handlers[h])
  <1>1. handlers[h] # <<>> /\ c.op = "CreatePlan"
    BY DEF DoCreatePlan, At
  <1>2. c.job \in JobIds /\ c.version \in Nat
    <2>1. c \in Call
      BY <1>1, HeadGated
    <2>2. QED
      BY <1>1, <2>1 DEF Call
  <1> DEFINE row == [status |-> "pending_approval", task |-> jobs[c.job].task,
                     agent |-> jobs[c.job].agent, version |-> c.version]
  <1>3. PICK p \in Free(plans) : /\ plans' = [plans EXCEPT ![p] = row]
                                 /\ Then(h, AfterCreatePlan(c.job, p))
    BY DEF DoCreatePlan
  <1>4. plans \in [PlanIds -> Plan]
    BY DEF GateInv, TypeOK
  <1>5. p \in PlanIds /\ plans[p].status = "absent"
    BY <1>3, <1>4 DEF Free
  <1>6. row \in Plan /\ row.status = "pending_approval"
    BY <1>2, RowsRefer DEF GateInv, Plan, PlanStatus
  <1>7. verdicts[p] = {}
    BY <1>5 DEF GateInv, VerdictsWritten, Decided
  <1>8. UNCHANGED <<tasks, jobs, agents, remote, embedded, verdicts>>
    BY DEF DoCreatePlan
  <1> HIDE DEF row, c
  <1>9. plans' \in [PlanIds -> Plan]
    BY <1>3, <1>4, <1>6
  <1>10. \A q \in PlanIds : q # p => plans'[q] = plans[q]
    BY <1>3, <1>4
  <1>11. VerdictsWritten'
    BY <1>7, <1>8, <1>10 DEF GateInv, VerdictsWritten
  <1>12. JobsGated'
    BY <1>8 DEF GateInv, JobsGated
  <1> DEFINE calls == AfterCreatePlan(c.job, p)
  <1>13. calls \in Seq(Call) /\ Gated(calls, verdicts)
    <2>1. /\ [op |-> "Route", plan |-> p] \in Call
          /\ Plain([op |-> "Route", plan |-> p])
      BY <1>5 DEF Call, Plain
    <2>2. QED
      BY <1>2, <2>1, FinishJobCall, TwoPlain, PlainIsGated DEF AfterCreatePlan
  <1>14. handlers' = [handlers EXCEPT ![h] = calls]
    BY <1>3 DEF Then
  <1> HIDE DEF calls
  <1>15. handlers' \in [Threads -> Seq(Call)] /\ HandlersGated'
    BY <1>8, <1>13, <1>14, CallsReplaced
  <1>16. TypeOK'
    BY <1>8, <1>9, <1>15 DEF GateInv, TypeOK
  <1>17. QED
    BY <1>11, <1>12, <1>15, <1>16 DEF GateInv

\* FinishJob and the UPDATEs of the sweep write a status and nothing else.
LEMMA JobStatusWritten ==
    ASSUME GateInv, NEW h \in Threads, handlers[h] # <<>>,
           Head(handlers[h]).op \in {"FinishJob", "Requeue", "FailStale"},
           NEW j, NEW s \in JobStatus, jobs' = [jobs EXCEPT ![j].status = s],
           Then(h, Tail(handlers[h])),
           UNCHANGED <<tasks, plans, agents, remote, embedded, verdicts>>
    PROVE  GateInv'
  <1>1. handlers' \in [Threads -> Seq(Call)] /\ HandlersGated'
    BY CallMade DEF Then
  <1>2. jobs \in [JobIds -> Job]
    BY DEF GateInv, TypeOK
  <1>3. jobs' \in [JobIds -> Job]
    BY <1>2 DEF Job
  <1>4. \A i \in JobIds : jobs'[i].kind = jobs[i].kind /\ jobs'[i].plan = jobs[i].plan
    BY <1>2 DEF Job
  <1>5. JobsGated' /\ VerdictsWritten'
    BY <1>4 DEF GateInv, JobsGated, VerdictsWritten
  <1>6. TypeOK'
    BY <1>1, <1>3 DEF GateInv, TypeOK
  <1>7. QED
    BY <1>1, <1>5, <1>6 DEF GateInv

LEMMA JobWritesKeep ==
    ASSUME GateInv, NEW h \in Threads, DoFinishJob(h) \/ DoRequeue(h) \/ DoFailStale(h)
    PROVE  GateInv'
  <1>1. CASE DoFinishJob(h)
    <2>1. handlers[h] # <<>> /\ Head(handlers[h]).op = "FinishJob"
      BY <1>1 DEF DoFinishJob, At
    <2>2. Head(handlers[h]).status \in JobStatus
      <3>1. Head(handlers[h]) \in Call
        BY <2>1, HeadGated
      <3>2. QED
        BY <2>1, <3>1 DEF Call, JobStatus
    <2>3. QED
      BY <1>1, <2>1, <2>2, JobStatusWritten DEF DoFinishJob
  <1>2. CASE DoRequeue(h)
    BY <1>2, JobStatusWritten DEF DoRequeue, At, JobStatus
  <1>3. CASE DoFailStale(h)
    BY <1>3, JobStatusWritten DEF DoFailStale, At, JobStatus
  <1>4. QED
    BY <1>1, <1>2, <1>3

\* Abort and Crash.
LEMMA FaultsKeep ==
    ASSUME GateInv, Crash \/ \E h \in Threads : Abort(h)
    PROVE  GateInv'
  <1>1. ASSUME NEW h \in Threads, Abort(h)
        PROVE  GateInv'
    <2>1. <<>> \in Seq(Call) /\ Gated(<<>>, verdicts)
      BY EmptyIsGated
    <2>2. /\ handlers' = [handlers EXCEPT ![h] = <<>>]
          /\ UNCHANGED <<tasks, plans, jobs, agents, verdicts>>
          /\ remote' \subseteq JobIds /\ embedded' \in [JobIds -> Nat]
      BY <1>1 DEF Abort, Then, GateInv, TypeOK
    <2>3. QED
      BY <2>1, <2>2, HandlerOnly
  <1>2. CASE Crash
    <2>1. handlers' = [h \in Threads |-> <<>>] /\ embedded' = [j \in JobIds |-> 0]
      BY <1>2 DEF Crash
    <2>2. handlers' \in [Threads -> Seq(Call)] /\ embedded' \in [JobIds -> Nat]
      BY <2>1
    <2>3. HandlersGated'
      BY <2>1, EmptyIsGated DEF HandlersGated
    <2>4. TypeOK'
      BY <1>2, <2>2 DEF Crash, GateInv, TypeOK
    <2>5. QED
      BY <1>2, <2>3, <2>4, TablesKept DEF Crash, GateInv
  <1>3. QED
    BY <1>1, <1>2

-----------------------------------------------------------------------------
(* The theorems.                                                            *)

LEMMA InitGate == Init => GateInv
  <1> SUFFICES ASSUME Init
               PROVE  GateInv
    OBVIOUS
  <1>1. tasks \in [TaskIds -> Task] /\ plans \in [PlanIds -> Plan] /\ jobs \in [JobIds -> Job]
    BY DEF Init, Task, TaskStatus, Plan, PlanStatus, Job, JobStatus
  <1>2. agents \in [AgentIds -> Agent]
    BY DEF Init, Agent
  <1>3. handlers \in [Threads -> Seq(Call)]
    BY DEF Init
  <1>4. TypeOK
    BY <1>1, <1>2, <1>3 DEF Init, TypeOK
  <1>5. JobsGated /\ VerdictsWritten
    BY DEF Init, JobsGated, VerdictsWritten
  <1>6. HandlersGated
    BY EmptyIsGated DEF Init, HandlersGated
  <1>7. QED
    BY <1>4, <1>5, <1>6 DEF GateInv

LEMMA StepKeeps ==
    ASSUME GateInv, NEW h \in Threads, Step(h)
    PROVE  GateInv'
  BY DoGetAgentKeeps, DoSetTaskKeeps, DoUpdateTaskKeeps, DoCreateJobKeeps,
     DoUpdatePlanKeeps, DoLatestPlanVersionKeeps, DoCreatePlanKeeps, DoRouteKeeps,
     DoBuildBundleKeeps, JobWritesKeep DEF Step

LEMMA RequestKeeps ==
    ASSUME GateInv, NEW h \in Handlers, Request(h)
    PROVE  GateInv'
  BY CreateTaskKeeps, AssignTaskKeeps, PlanDecisionKeeps, ClaimKeeps, CompleteRemoteKeeps,
     CompleteEmbeddedKeeps, StepEventKeeps DEF Request

LEMMA NextKeepsGate == GateInv /\ [Next]_vars => GateInv'
  <1> SUFFICES ASSUME GateInv, [Next]_vars
               PROVE  GateInv'
    OBVIOUS
  <1>1. CASE Next
    BY <1>1, RequestKeeps, SweepJobKeeps, StepKeeps, FaultsKeep, DeletesKeep DEF Next
  <1>2. CASE UNCHANGED vars
    <2>1. UNCHANGED <<plans, jobs, handlers, remote, embedded, verdicts>>
      BY <1>2 DEF vars
    <2>2. tasks' \in [TaskIds -> Task] /\ agents' \in [AgentIds -> Agent]
      BY <1>2 DEF vars, GateInv, TypeOK
    <2>3. QED
      BY <2>1, <2>2, TablesOnly
  <1>3. QED
    BY <1>1, <1>2

\* The inductive invariant holds whatever requests, faults and deletions race.
THEOREM GateInvariant == Spec => []GateInv
  BY InitGate, NextKeepsGate, PTL DEF Spec

\* Every column of every row, and every call a handler has still to make, keeps
\* its type.
THEOREM TypeCorrect == Spec => []TypeOK
  <1>1. GateInv => TypeOK
    BY DEF GateInv
  <1>2. QED
    BY <1>1, GateInvariant, PTL

\* Nothing executes without an approval: whatever requests, crashes and aborted
\* handlers race, an execute job has a plan for which an approval was written.
THEOREM ApprovalGate == Spec => []Gate
  <1>1. GateInv => Gate
    BY DEF GateInv, JobsGated, Gate
  <1>2. QED
    BY <1>1, GateInvariant, PTL

\* No step event, late completion or failure puts a decided plan back into the
\* approval inbox.
THEOREM DecisionsStick == Spec => []DecisionSticks
  <1>1. GateInv => DecisionSticks
    BY DEF GateInv, VerdictsWritten, Decided, DecisionSticks
  <1>2. QED
    BY <1>1, GateInvariant, PTL

-----------------------------------------------------------------------------
(* The rows of jobs move as JobRows says.                                   *)

\* The calls that only the handlers of a claimed job make.
JobOps == {"BuildBundle", "LatestPlanVersion", "CreatePlan", "FinishJob", "FailStale"}

\* Call c is for a row that was claimed; a requeue waits for its job alone.
Counted(c, rows) ==
    /\ c.op \in JobOps => rows[c.job].attempts > 0
    /\ c.op = "Requeue" => /\ rows[c.job].status # "queued"
                           /\ rows[c.job].attempts > 0
                           /\ rows[c.job].attempts < MaxAttempts

AllCounted(s, rows) == \A i \in 1..Len(s) : Counted(s[i], rows)

\* Only the requeue loop queues a row again, and does nothing else with it.
RequeueAlone(h, s) ==
    \A i \in 1..Len(s) : s[i].op = "Requeue" => h = Loop /\ Len(s) = 1

RowCounted(row) ==
    /\ row.status = "absent" => row.attempts = 0
    /\ row.status = "queued" => row.attempts < MaxAttempts
    /\ row.status \in {"running", "done", "failed"} => row.attempts > 0

RowsCounted == \A j \in JobIds : RowCounted(jobs[j])

HoldersCounted == \A j \in JobIds : j \in remote \/ embedded[j] > 0 => jobs[j].attempts > 0

CallsCounted == \A h \in Threads : AllCounted(handlers[h], jobs) /\ RequeueAlone(h, handlers[h])

RowsInv == GateInv /\ RowsCounted /\ HoldersCounted /\ CallsCounted

\* What one step may do to row j while handler h makes it.
Moved(h, j) ==
    \/ jobs'[j] = jobs[j]
    \/ jobs[j].status = "queued" /\ jobs'[j].attempts >= jobs[j].attempts
    \/ jobs[j].attempts = 0
    \/ /\ jobs'[j].attempts = jobs[j].attempts
       /\ jobs'[j].status # "queued" \/ h = Loop

\* A call of another handler, or of the rest of this one, is still counted.
LEMMA CountedStays ==
    ASSUME TypeOK, TypeOK', NEW c \in Call, Counted(c, jobs), NEW h \in Threads,
           c.op = "Requeue" => h # Loop, \A j \in JobIds : Moved(h, j)
    PROVE  Counted(c, jobs')
  <1>1. \A j \in JobIds : jobs[j].attempts \in Nat /\ jobs'[j].attempts \in Nat
    BY DEF TypeOK, Job
  <1>2. c.op \in JobOps \cup {"Requeue"} => c.job \in JobIds
    BY DEF Call, JobOps
  <1>3. c.op \in JobOps => jobs'[c.job].attempts > 0
    BY <1>1, <1>2 DEF Counted, Moved
  <1>4. c.op = "Requeue" => jobs'[c.job] = jobs[c.job] \/
           (jobs'[c.job].attempts = jobs[c.job].attempts /\ jobs'[c.job].status # "queued")
    BY <1>1, <1>2 DEF Counted, Moved
  <1>5. QED
    BY <1>3, <1>4 DEF Counted

\* A handler starts, or goes on, with counted calls.
LEMMA RowsAdvance ==
    ASSUME RowsInv, GateInv', NEW h \in Threads, NEW calls \in Seq(Call),
           handlers' = [handlers EXCEPT ![h] = calls],
           AllCounted(calls, jobs'), RequeueAlone(h, calls),
           RowsCounted', HoldersCounted', \A j \in JobIds : Moved(h, j)
    PROVE  RowsInv'
  <1>1. TypeOK /\ TypeOK' /\ handlers \in [Threads -> Seq(Call)]
    BY DEF RowsInv, GateInv, TypeOK
  <1>2. ASSUME NEW g \in Threads
        PROVE  AllCounted(handlers'[g], jobs') /\ RequeueAlone(g, handlers'[g])
    <2>1. CASE g = h
      <3>1. handlers'[g] = calls
        BY <1>1, <2>1
      <3>2. QED
        BY <2>1, <3>1
    <2>2. CASE g # h
      <3>1. /\ handlers'[g] = handlers[g] /\ handlers[g] \in Seq(Call)
            /\ AllCounted(handlers[g], jobs) /\ RequeueAlone(g, handlers[g])
        BY <1>1, <2>2 DEF RowsInv, CallsCounted
      <3>2. ASSUME NEW i \in 1..Len(handlers[g])
            PROVE  Counted(handlers[g][i], jobs')
        <4>1. handlers[g][i] \in Call /\ Counted(handlers[g][i], jobs)
          BY <3>1 DEF AllCounted
        <4>2. handlers[g][i].op = "Requeue" => h # Loop
          BY <2>2, <3>1 DEF RequeueAlone
        <4>3. QED
          BY <1>1, <4>1, <4>2, CountedStays
      <3>3. QED
        BY <3>1, <3>2 DEF AllCounted
    <2>3. QED
      BY <2>1, <2>2
  <1>3. QED
    BY <1>2 DEF RowsInv, CallsCounted

\* ... and no row and no holder changes.
LEMMA RowsStay ==
    ASSUME RowsInv, GateInv', NEW h \in Threads, NEW calls \in Seq(Call),
           handlers' = [handlers EXCEPT ![h] = calls],
           AllCounted(calls, jobs), RequeueAlone(h, calls),
           UNCHANGED jobs, HoldersCounted'
    PROVE  RowsInv'
  <1>1. RowsCounted' /\ AllCounted(calls, jobs') /\ \A j \in JobIds : Moved(h, j)
    BY DEF RowsInv, RowsCounted, RowCounted, Moved
  <1>2. QED
    BY <1>1, RowsAdvance

LEMMA HoldersStay ==
    ASSUME RowsInv, UNCHANGED <<jobs, remote, embedded>>
    PROVE  HoldersCounted'
  BY DEF RowsInv, HoldersCounted

\* The rest of a handler after its first call.
LEMMA TailCounted ==
    ASSUME NEW s \in Seq(Call), s # <<>>, NEW h, NEW rows,
           AllCounted(s, rows), RequeueAlone(h, s)
    PROVE  /\ Tail(s) \in Seq(Call) /\ AllCounted(Tail(s), rows) /\ RequeueAlone(h, Tail(s))
           /\ Counted(Head(s), rows) /\ Head(s) \in Call
           /\ Head(s).op = "Requeue" => h = Loop /\ Tail(s) = <<>>
  <1>1. /\ Tail(s) \in Seq(Call) /\ Len(Tail(s)) = Len(s) - 1 /\ Len(s) \in Nat
        /\ \A i \in 1..Len(Tail(s)) : Tail(s)[i] = s[i + 1] /\ i + 1 \in 1..Len(s)
        /\ Head(s) = s[1] /\ 1 \in 1..Len(s)
    OBVIOUS
  <1>2. AllCounted(Tail(s), rows)
    BY <1>1 DEF AllCounted
  <1>3. \A i \in 1..Len(Tail(s)) : Tail(s)[i].op # "Requeue"
    BY <1>1 DEF RequeueAlone
  <1>4. Head(s).op = "Requeue" => h = Loop /\ Len(Tail(s)) = 0
    BY <1>1 DEF RequeueAlone
  <1>5. QED
    BY <1>1, <1>2, <1>3, <1>4 DEF AllCounted, RequeueAlone

\* What the invariant says of a handler that is about to make its first call.
LEMMA HeadCounted ==
    ASSUME RowsInv, NEW h \in Threads, handlers[h] # <<>>
    PROVE  /\ Tail(handlers[h]) \in Seq(Call) /\ AllCounted(Tail(handlers[h]), jobs)
           /\ RequeueAlone(h, Tail(handlers[h]))
           /\ Counted(Head(handlers[h]), jobs) /\ Head(handlers[h]) \in Call
           /\ Head(handlers[h]).op = "Requeue" => h = Loop /\ Tail(handlers[h]) = <<>>
  <1>1. /\ handlers[h] \in Seq(Call) /\ AllCounted(handlers[h], jobs)
        /\ RequeueAlone(h, handlers[h])
    BY DEF RowsInv, GateInv, TypeOK, CallsCounted
  <1>2. QED
    BY <1>1, TailCounted

\* The calls of one job, or of none.
About(c, j) == c.op # "Requeue" /\ (c.op \in JobOps => c.job = j)

AllAbout(s, j) == \A i \in 1..Len(s) : About(s[i], j)

LEMMA AboutCounted ==
    ASSUME NEW s, NEW j, NEW rows, NEW h, AllAbout(s, j), rows[j].attempts > 0
    PROVE  AllCounted(s, rows) /\ RequeueAlone(h, s)
  BY DEF AllAbout, About, AllCounted, Counted, RequeueAlone

LEMMA JoblessCounted ==
    ASSUME NEW s, NEW rows, NEW h, \A i \in 1..Len(s) : s[i].op \notin JobOps \cup {"Requeue"}
    PROVE  AllCounted(s, rows) /\ RequeueAlone(h, s)
  BY DEF AllCounted, Counted, RequeueAlone

LEMMA ConcatIs ==
    ASSUME NEW S, NEW x \in Seq(S), NEW y \in Seq(S)
    PROVE  /\ x \o y \in Seq(S) /\ Len(x \o y) = Len(x) + Len(y)
           /\ \A i \in 1..(Len(x) + Len(y)) :
                  (x \o y)[i] = IF i <= Len(x) THEN x[i] ELSE y[i - Len(x)]
  <1>1. x \o y \in Seq(S) /\ Len(x \o y) = Len(x) + Len(y)
    OBVIOUS
  <1>2. \A i \in 1..(Len(x) + Len(y)) :
           (x \o y)[i] = IF i <= Len(x) THEN x[i] ELSE y[i - Len(x)]
    OBVIOUS
  <1>3. QED
    BY <1>1, <1>2

LEMMA TwoAndOne ==
    ASSUME NEW S, NEW a \in S, NEW b \in S, NEW c \in S
    PROVE  <<a, b>> \o <<c>> = <<a, b, c>>
  <1> DEFINE x == <<a, b>>
             y == <<c>>
             w == <<a, b, c>>
             z == x \o y
  <1>1. /\ x \in Seq(S) /\ Len(x) = 2 /\ x[1] = a /\ x[2] = b
        /\ y \in Seq(S) /\ Len(y) = 1 /\ y[1] = c
    OBVIOUS
  <1>2. w \in Seq(S) /\ Len(w) = 3 /\ w[1] = a /\ w[2] = b /\ w[3] = c
    OBVIOUS
  <1> HIDE DEF x, y, w
  <1>3. /\ z \in Seq(S) /\ Len(z) = 3
        /\ \A i \in 1..3 : z[i] = IF i <= 2 THEN x[i] ELSE y[i - 2]
    <2>1. /\ z \in Seq(S) /\ Len(z) = Len(x) + Len(y)
          /\ \A i \in 1..(Len(x) + Len(y)) : z[i] = IF i <= Len(x) THEN x[i] ELSE y[i - Len(x)]
      BY <1>1, ConcatIs, Zenon
    <2> HIDE DEF z
    <2>2. QED
      BY <1>1, <2>1
  <1> HIDE DEF z
  <1>4. \A i \in 1..3 : i = 1 \/ i = 2 \/ i = 3
    OBVIOUS
  <1>5. \A i \in 1..3 : z[i] = w[i]
    BY <1>1, <1>2, <1>3, <1>4
  <1>6. z = w
    BY <1>2, <1>3, <1>5
  <1>7. QED
    BY <1>6 DEF x, y, w, z

LEMMA FailJobIs ==
    ASSUME TypeOK, NEW j \in JobIds
    PROVE  FailJob(j) =
             IF jobs[j].plan = None
             THEN <<FinishJob(j, "failed"), SetTask(jobs[j].task, "failed")>>
             ELSE <<FinishJob(j, "failed"), SetTask(jobs[j].task, "failed"),
                    UpdatePlan(jobs[j].plan, "failed", None)>>
  <1> DEFINE a == FinishJob(j, "failed")
             b == SetTask(jobs[j].task, "failed")
             c == UpdatePlan(jobs[j].plan, "failed", None)
  <1>1. <<a, b>> \o <<>> = <<a, b>>
    OBVIOUS
  <1>2. a \in Call /\ b \in Call /\ (jobs[j].plan # None => c \in Call)
    BY RowsRefer, FinishJobCall, SetTaskCall, UpdatePlanCall DEF LiveStatus, TaskStatus,
       Decided, PlanStatus
  <1>3. jobs[j].plan # None => <<a, b>> \o <<c>> = <<a, b, c>>
    BY <1>2, TwoAndOne
  <1> HIDE DEF a, b, c
  <1>4. QED
    BY <1>1, <1>3 DEF FailJob, a, b, c

LEMMA StartTaskJobless ==
    ASSUME NEW t, NEW a, NEW i \in 1..Len(StartTask(t, a))
    PROVE  StartTask(t, a)[i].op \notin JobOps \cup {"Requeue"}
  BY DEF StartTask, GetAgent, SetTask, CreateJob, JobOps

LEMMA DecisionsJobless ==
    ASSUME NEW p
    PROVE  /\ \A i \in 1..Len(ApprovePlan(p)) :
                  ApprovePlan(p)[i].op \notin JobOps \cup {"Requeue"}
           /\ \A i \in 1..Len(RejectPlan(p)) :
                  RejectPlan(p)[i].op \notin JobOps \cup {"Requeue"}
           /\ \A i \in 1..Len(RequestChanges(p)) :
                  RequestChanges(p)[i].op \notin JobOps \cup {"Requeue"}
  BY DEF ApprovePlan, RejectPlan, RequestChanges, UpdatePlan, GetAgent, SetTask, CreateJob,
     JobOps

LEMMA JobPrograms ==
    ASSUME TypeOK, NEW j \in JobIds, NEW p
    PROVE  /\ AllAbout(FailJob(j), j)
           /\ AllAbout(CompletePlanJob(j), j)
           /\ AllAbout(AfterCreatePlan(j, p), j)
           /\ \A s \in BOOLEAN : AllAbout(CompleteExecuteJob(j, s), j)
  <1>1. /\ About(FinishJob(j, "done"), j) /\ About(FinishJob(j, "failed"), j)
        /\ \A t, s : About(SetTask(t, s), j)
        /\ \A q, s, v : About(UpdatePlan(q, s, v), j)
        /\ About([op |-> "Route", plan |-> p], j)
        /\ About([op |-> "LatestPlanVersion", job |-> j], j)
    BY DEF FinishJob, SetTask, UpdatePlan, About, JobOps
  <1>2. /\ \A a : About(a, j) => AllAbout(<<a>>, j)
        /\ \A a, b : About(a, j) /\ About(b, j) => AllAbout(<<a, b>>, j)
        /\ \A a, b, c : About(a, j) /\ About(b, j) /\ About(c, j) => AllAbout(<<a, b, c>>, j)
    BY DEF AllAbout
  <1>3. AllAbout(FailJob(j), j)
    BY <1>1, <1>2, FailJobIs
  <1>4. QED
    BY <1>1, <1>2, <1>3 DEF CompletePlanJob, AfterCreatePlan, CompleteExecuteJob

LEMMA CompletionsAbout ==
    ASSUME TypeOK, NEW j \in JobIds, NEW calls \in Completions(j)
    PROVE  AllAbout(calls, j)
  BY JobPrograms DEF Completions, Drafts

-----------------------------------------------------------------------------
(* The requests and the rows.                                               *)

LEMMA BeginRows ==
    ASSUME RowsInv, GateInv', NEW h \in Threads, NEW calls \in Seq(Call), Begin(h, calls),
           AllCounted(calls, jobs), RequeueAlone(h, calls), UNCHANGED jobs, HoldersCounted'
    PROVE  RowsInv'
  BY RowsStay DEF Begin

\* Requests that concern no job.
LEMMA JoblessRequests ==
    ASSUME RowsInv, GateInv', NEW h \in Handlers,
           \/ \E t \in TaskIds, a \in AgentIds \cup {None} : CreateTask(h, t, a)
           \/ \E t \in TaskIds, a \in AgentIds : AssignTask(h, t, a)
           \/ \E p \in PlanIds, d \in Decisions : PlanDecision(h, p, d)
           \/ \E j \in JobIds : StepEvent(h, j)
    PROVE  RowsInv'
  <1>1. UNCHANGED <<jobs, remote, embedded>> /\ h \in Threads
    BY DEF CreateTask, AssignTask, PlanDecision, StepEvent, Threads
  <1>2. PICK calls \in Seq(Call) :
          /\ handlers' = [handlers EXCEPT ![h] = calls]
          /\ \A i \in 1..Len(calls) : calls[i].op \notin JobOps \cup {"Requeue"}
    <2> DEFINE Good(calls) == \A i \in 1..Len(calls) : calls[i].op \notin JobOps \cup {"Requeue"}
    <2>1. ASSUME NEW t \in TaskIds, NEW a \in AgentIds \cup {None}, CreateTask(h, t, a)
          PROVE  \E calls : handlers' = [handlers EXCEPT ![h] = calls] /\ Good(calls)
      <3>1. Good(<<>>) /\ Good(StartTask(t, a))
        BY StartTaskJobless
      <3> HIDE DEF Good
      <3>2. QED
        BY <2>1, <3>1 DEF CreateTask, Begin
    <2>2. ASSUME NEW t \in TaskIds, NEW a \in AgentIds, AssignTask(h, t, a)
          PROVE  \E calls : handlers' = [handlers EXCEPT ![h] = calls] /\ Good(calls)
      <3> DEFINE u == [op |-> "UpdateTask", task |-> t, status |-> tasks[t].status, agent |-> a]
      <3>1. u.op = "UpdateTask"
        OBVIOUS
      <3> HIDE DEF u
      <3>2. Good(<<u>> \o StartTask(t, a))
        BY <3>1 DEF StartTask, GetAgent, SetTask, CreateJob, JobOps
      <3> HIDE DEF Good
      <3>3. QED
        BY <2>2, <3>2 DEF AssignTask, Begin, u
    <2>3. ASSUME NEW p \in PlanIds, NEW d \in Decisions, PlanDecision(h, p, d)
          PROVE  \E calls : handlers' = [handlers EXCEPT ![h] = calls] /\ Good(calls)
      <3>1. Good(ApprovePlan(p)) /\ Good(RejectPlan(p)) /\ Good(RequestChanges(p))
        BY DecisionsJobless
      <3> HIDE DEF Good
      <3>2. QED
        BY <2>3, <3>1 DEF PlanDecision, Begin, Decisions
    <2>4. ASSUME NEW j \in JobIds, StepEvent(h, j)
          PROVE  \E calls : handlers' = [handlers EXCEPT ![h] = calls] /\ Good(calls)
      <3>1. Good(<<UpdatePlan(jobs[j].plan, plans[jobs[j].plan].status, None)>>)
        BY DEF UpdatePlan, JobOps
      <3> HIDE DEF Good
      <3>2. QED
        BY <2>4, <3>1 DEF StepEvent, Begin
    <2>5. PICK calls : handlers' = [handlers EXCEPT ![h] = calls] /\ Good(calls)
      BY <2>1, <2>2, <2>3, <2>4
    <2>6. handlers'[h] = calls /\ handlers'[h] \in Seq(Call)
      BY <1>1, <2>5 DEF RowsInv, GateInv, TypeOK
    <2>7. QED
      BY <2>5, <2>6
  <1>3. AllCounted(calls, jobs) /\ RequeueAlone(h, calls)
    BY <1>2, JoblessCounted
  <1>4. QED
    BY <1>1, <1>2, <1>3, RowsStay, HoldersStay

\* Completions, by whoever holds or held the job.
LEMMA CompletionRows ==
    ASSUME RowsInv, GateInv', NEW h \in Handlers, NEW j \in JobIds,
           CompleteRemote(h, j) \/ CompleteEmbedded(h, j)
    PROVE  RowsInv'
  <1>1. PICK calls \in Completions(j) : Begin(h, calls)
    BY DEF CompleteRemote, CompleteEmbedded
  <1>2. /\ jobs[j].attempts > 0 /\ UNCHANGED <<jobs, remote>> /\ h \in Threads
        /\ embedded' = embedded \/ embedded' = [embedded EXCEPT ![j] = @ - 1]
    BY DEF CompleteRemote, CompleteEmbedded, RowsInv, HoldersCounted, Threads
  <1>3. calls \in Seq(Call)
    BY CompletionsProgram DEF RowsInv, GateInv
  <1>4. AllCounted(calls, jobs) /\ RequeueAlone(h, calls)
    BY <1>2, CompletionsAbout, AboutCounted DEF RowsInv, GateInv
  <1>5. HoldersCounted'
    <2>1. embedded \in [JobIds -> Nat]
      BY DEF RowsInv, GateInv, TypeOK
    <2>2. QED
      BY <1>2, <2>1 DEF RowsInv, HoldersCounted
  <1>6. QED
    BY <1>1, <1>2, <1>3, <1>4, <1>5, BeginRows

LEMMA ClaimRows ==
    ASSUME RowsInv, GateInv', NEW h \in Handlers, NEW j \in JobIds,
           NEW by \in {"remote", "embedded"}, Claim(h, j, by)
    PROVE  /\ RowsInv'
           /\ jobs[j].attempts < MaxAttempts /\ jobs[j].attempts \in Nat
           /\ jobs[j].status = "queued"
           /\ jobs' = [jobs EXCEPT ![j].status = "running", ![j].attempts = @ + 1]
  <1> DEFINE c == [op |-> "BuildBundle", job |-> j, by |-> by]
  <1>1. c.op = "BuildBundle" /\ c.job = j /\ c \in Call /\ About(c, j)
    BY JobCalls DEF About, JobOps
  <1>2. /\ jobs' = [jobs EXCEPT ![j].status = "running", ![j].attempts = @ + 1]
        /\ Begin(h, <<c>>) /\ h \in Threads /\ jobs[j].status = "queued"
        /\ UNCHANGED <<remote, embedded>>
    BY DEF Claim, Threads
  <1> HIDE DEF c
  <1>3. jobs \in [JobIds -> Job] /\ jobs[j].attempts \in Nat /\ jobs[j].attempts < MaxAttempts
    BY <1>2 DEF RowsInv, GateInv, TypeOK, Job, RowsCounted, RowCounted
  <1>4. /\ jobs'[j].status = "running" /\ jobs'[j].attempts = jobs[j].attempts + 1
        /\ \A i \in JobIds : i # j => jobs'[i] = jobs[i]
    BY <1>2, <1>3 DEF Job
  <1>5. RowsCounted'
    BY <1>3, <1>4 DEF RowsInv, RowsCounted, RowCounted
  <1>6. HoldersCounted'
    BY <1>2, <1>3, <1>4 DEF RowsInv, HoldersCounted
  <1>7. \A i \in JobIds : Moved(h, i)
    BY <1>2, <1>3, <1>4 DEF Moved
  <1>8. AllAbout(<<c>>, j) /\ <<c>> \in Seq(Call)
    BY <1>1 DEF AllAbout
  <1>9. AllCounted(<<c>>, jobs') /\ RequeueAlone(h, <<c>>)
    BY <1>3, <1>4, <1>8, AboutCounted
  <1>10. handlers' = [handlers EXCEPT ![h] = <<c>>]
    BY <1>2 DEF Begin
  <1>11. RowsInv'
    BY <1>2, <1>5, <1>6, <1>7, <1>8, <1>9, <1>10, RowsAdvance
  <1>12. QED
    BY <1>2, <1>3, <1>11

LEMMA SweepRows ==
    ASSUME RowsInv, GateInv', NEW j \in JobIds, SweepJob(j)
    PROVE  RowsInv'
  <1> DEFINE f == [op |-> "FailStale", job |-> j]
             q == [op |-> "Requeue", job |-> j]
  <1>1. /\ UNCHANGED <<jobs, remote, embedded>> /\ Loop \in Threads
        /\ jobs[j].status = "running"
        /\ \/ jobs[j].attempts >= MaxAttempts /\ Begin(Loop, <<f>> \o FailJob(j))
           \/ ~(jobs[j].attempts >= MaxAttempts) /\ Begin(Loop, <<q>>)
    BY DEF SweepJob, Threads
  <1>2. /\ f \in Call /\ f.op = "FailStale" /\ f.job = j
        /\ q \in Call /\ q.op = "Requeue" /\ q.job = j
    BY JobCalls
  <1> HIDE DEF f, q
  <1>3. jobs[j].attempts > 0 /\ jobs[j].attempts \in Nat /\ MaxAttempts \in Nat
    BY <1>1, OrchestratorAssumption DEF RowsInv, RowsCounted, RowCounted, GateInv, TypeOK, Job
  <1>4. ASSUME Begin(Loop, <<f>> \o FailJob(j))
        PROVE  RowsInv'
    <2>1. FailJob(j) \in Seq(Call) /\ AllAbout(FailJob(j), j)
      BY FailJobProgram, JobPrograms DEF RowsInv, GateInv
    <2>2. About(f, j) /\ AllAbout(<<f>>, j) /\ <<f>> \in Seq(Call)
      BY <1>2 DEF About, AllAbout, JobOps
    <2> DEFINE s == <<f>>
               u == FailJob(j)
    <2> HIDE DEF s, u
    <2>3. s \o u \in Seq(Call) /\ AllAbout(s \o u, j)
      <3>1. s \in Seq(Call) /\ AllAbout(s, j) /\ u \in Seq(Call) /\ AllAbout(u, j)
        BY <2>1, <2>2 DEF s, u
      <3>2. QED
        BY <3>1, ConcatIs DEF AllAbout
    <2>4. AllCounted(s \o u, jobs) /\ RequeueAlone(Loop, s \o u)
      BY <1>3, <2>3, AboutCounted
    <2>5. QED
      BY <1>1, <1>4, <2>3, <2>4, BeginRows, HoldersStay DEF s, u
  <1>5. ASSUME Begin(Loop, <<q>>), ~(jobs[j].attempts >= MaxAttempts)
        PROVE  RowsInv'
    <2>1. /\ \A i \in 1..Len(<<q>>) : <<q>>[i] = q
          /\ Len(<<q>>) = 1 /\ <<q>> \in Seq(Call)
      BY <1>2
    <2>2. Counted(q, jobs)
      BY <1>1, <1>2, <1>3, <1>5 DEF Counted, JobOps
    <2>3. AllCounted(<<q>>, jobs) /\ RequeueAlone(Loop, <<q>>)
      BY <2>1, <2>2 DEF AllCounted, RequeueAlone
    <2>4. QED
      BY <1>1, <1>5, <2>1, <2>3, BeginRows, HoldersStay
  <1>6. QED
    BY <1>1, <1>4, <1>5

-----------------------------------------------------------------------------
(* The store calls and the rows.                                            *)

LEMMA EmptyCounted == \A h, rows : AllCounted(<<>>, rows) /\ RequeueAlone(h, <<>>)
  BY DEF AllCounted, RequeueAlone

\* Calls that are made, or fail, and leave the rows alone.
LEMMA TailRows ==
    ASSUME RowsInv, GateInv', NEW h \in Threads, handlers[h] # <<>>,
           Then(h, Tail(handlers[h])) \/ Then(h, <<>>), UNCHANGED <<jobs, remote, embedded>>
    PROVE  RowsInv'
  <1>1. CASE Then(h, Tail(handlers[h]))
    BY <1>1, HeadCounted, RowsStay, HoldersStay DEF Then
  <1>2. CASE Then(h, <<>>)
    <2>1. <<>> \in Seq(Call) /\ AllCounted(<<>>, jobs) /\ RequeueAlone(h, <<>>)
      BY EmptyCounted
    <2>2. handlers' = [handlers EXCEPT ![h] = <<>>]
      BY <1>2 DEF Then
    <2>3. QED
      BY <2>1, <2>2, RowsStay, HoldersStay
  <1>3. QED
    BY <1>1, <1>2

LEMMA OtherCallsRows ==
    ASSUME RowsInv, GateInv', NEW h \in Threads,
           DoGetAgent(h) \/ DoSetTask(h) \/ DoUpdateTask(h) \/ DoUpdatePlan(h)
    PROVE  RowsInv' /\ UNCHANGED jobs
  <1>1. handlers[h] # <<>> /\ UNCHANGED <<jobs, remote, embedded>>
    BY DEF DoGetAgent, DoSetTask, DoUpdateTask, DoUpdatePlan, At
  <1>2. Then(h, Tail(handlers[h])) \/ Then(h, <<>>)
    BY DEF DoGetAgent, DoSetTask, DoUpdateTask, DoUpdatePlan, Then
  <1>3. QED
    BY <1>1, <1>2, TailRows

\* A call about a job that goes on with other calls about it.
LEMMA GoesOnRows ==
    ASSUME RowsInv, GateInv', NEW h \in Threads, handlers[h] # <<>>,
           Head(handlers[h]).op \in JobOps, NEW calls,
           AllAbout(calls, Head(handlers[h]).job), Then(h, calls), UNCHANGED jobs, HoldersCounted'
    PROVE  RowsInv'
  <1>1. AllCounted(calls, jobs) /\ RequeueAlone(h, calls)
    BY HeadCounted, AboutCounted DEF Counted
  <1>2. calls \in Seq(Call)
    <2>1. handlers' \in [Threads -> Seq(Call)] /\ handlers \in [Threads -> Seq(Call)]
      BY DEF RowsInv, GateInv, TypeOK
    <2>2. QED
      BY <2>1 DEF Then
  <1>3. QED
    BY <1>1, <1>2, RowsStay DEF Then

LEMMA PlanCallsRows ==
    ASSUME RowsInv, GateInv', NEW h \in Threads,
           DoLatestPlanVersion(h) \/ DoCreatePlan(h) \/ DoRoute(h)
    PROVE  RowsInv' /\ UNCHANGED jobs
  <1>1. handlers[h] # <<>> /\ UNCHANGED <<jobs, remote, embedded>>
    BY DEF DoLatestPlanVersion, DoCreatePlan, DoRoute, At
  <1>2. TypeOK /\ Head(handlers[h]) \in Call
    BY <1>1, HeadGated DEF RowsInv, GateInv
  <1>3. CASE DoLatestPlanVersion(h)
    <2> DEFINE j == Head(handlers[h]).job
    <2>1. Head(handlers[h]).op = "LatestPlanVersion"
      BY <1>3 DEF DoLatestPlanVersion, At
    <2>2. PICK n : Then(h, <<[op |-> "CreatePlan", job |-> j, version |-> n]>>)
      BY <1>3 DEF DoLatestPlanVersion
    <2>3. AllAbout(<<[op |-> "CreatePlan", job |-> j, version |-> n]>>, j)
      BY DEF AllAbout, About
    <2>4. QED
      BY <1>1, <2>1, <2>2, <2>3, GoesOnRows, HoldersStay DEF JobOps
  <1>4. CASE DoCreatePlan(h)
    <2> DEFINE j == Head(handlers[h]).job
    <2>1. Head(handlers[h]).op = "CreatePlan"
      BY <1>4 DEF DoCreatePlan, At
    <2>2. PICK p \in Free(plans) : Then(h, AfterCreatePlan(j, p))
      BY <1>4 DEF DoCreatePlan
    <2>3. j \in JobIds
      BY <1>2, <2>1 DEF Call
    <2>4. AllAbout(AfterCreatePlan(j, p), j)
      BY <1>2, <2>3, JobPrograms
    <2>5. QED
      BY <1>1, <2>1, <2>2, <2>4, GoesOnRows, HoldersStay DEF JobOps
  <1>5. CASE DoRoute(h)
    <2> DEFINE p == Head(handlers[h]).plan
               s == <<SetTask(plans[p].task, "awaiting_approval")>>
    <2>1. Then(h, <<>>) \/ Then(h, ApprovePlan(p)) \/ Then(h, s)
      BY <1>5 DEF DoRoute
    <2>2. /\ AllCounted(s, jobs) /\ RequeueAlone(h, s)
          /\ AllCounted(ApprovePlan(p), jobs) /\ RequeueAlone(h, ApprovePlan(p))
      <3>1. \A i \in 1..Len(s) : s[i].op \notin JobOps \cup {"Requeue"}
        BY DEF SetTask, JobOps
      <3> HIDE DEF s, p
      <3>2. QED
        BY <3>1, DecisionsJobless, JoblessCounted
    <2>3. PICK calls : /\ handlers' = [handlers EXCEPT ![h] = calls]
                       /\ AllCounted(calls, jobs) /\ RequeueAlone(h, calls)
      BY <2>1, <2>2, EmptyCounted DEF Then
    <2>4. calls \in Seq(Call)
      <3>1. handlers' \in [Threads -> Seq(Call)] /\ handlers \in [Threads -> Seq(Call)]
        BY DEF RowsInv, GateInv, TypeOK
      <3>2. QED
        BY <2>3, <3>1
    <2>5. QED
      BY <1>1, <2>3, <2>4, RowsStay, HoldersStay
  <1>6. QED
    BY <1>1, <1>3, <1>4, <1>5

LEMMA BuildBundleRows ==
    ASSUME RowsInv, GateInv', NEW h \in Threads, DoBuildBundle(h)
    PROVE  RowsInv' /\ UNCHANGED jobs
  <1> DEFINE j == Head(handlers[h]).job
             by == Head(handlers[h]).by
  <1>1. handlers[h] # <<>> /\ Head(handlers[h]).op = "BuildBundle" /\ UNCHANGED jobs
    BY DEF DoBuildBundle, At
  <1>2. Counted(Head(handlers[h]), jobs) /\ j \in JobIds /\ jobs[j].attempts > 0
    <2>1. Counted(Head(handlers[h]), jobs) /\ Head(handlers[h]) \in Call
      BY <1>1, HeadCounted
    <2>2. QED
      BY <1>1, <2>1 DEF Call, Counted, JobOps
  <1>3. \/ /\ Then(h, <<>>)
           /\ remote' = IF by = "remote" THEN remote \cup {j} ELSE remote
           /\ embedded' = IF by = "embedded" THEN [embedded EXCEPT ![j] = @ + 1] ELSE embedded
        \/ Then(h, FailJob(j)) /\ remote' = remote /\ embedded' = embedded
    BY DEF DoBuildBundle
  <1> HIDE DEF j, by
  <1>4. HoldersCounted'
    <2>1. embedded \in [JobIds -> Nat]
      BY DEF RowsInv, GateInv, TypeOK
    <2>2. \A i \in JobIds : i # j => (i \in remote' => i \in remote) /\ embedded'[i] = embedded[i]
      BY <1>3, <2>1
    <2>3. QED
      BY <1>1, <1>2, <2>2 DEF RowsInv, HoldersCounted
  <1>5. AllAbout(<<>>, j) /\ AllAbout(FailJob(j), j)
    BY <1>2, JobPrograms DEF AllAbout, RowsInv, GateInv
  <1>6. PICK calls : Then(h, calls) /\ AllAbout(calls, j)
    BY <1>3, <1>5
  <1>7. QED
    BY <1>1, <1>4, <1>6, GoesOnRows DEF j, JobOps

\* CreateJob takes a row that was never claimed.
LEMMA CreateJobRows ==
    ASSUME RowsInv, GateInv', NEW h \in Threads, DoCreateJob(h)
    PROVE  /\ RowsInv'
           /\ \E j \in JobIds : /\ jobs[j].status = "absent"
                                /\ \E row : /\ row.status = "queued" /\ row.attempts = 0
                                            /\ jobs' = [jobs EXCEPT ![j] = row]
  <1> DEFINE c == Head(handlers[h])
             row == [status |-> "queued", kind |-> c.kind, task |-> c.task, plan |-> c.plan,
                     agent |-> c.agent, attempts |-> 0]
  <1>1. handlers[h] # <<>> /\ c.op = "CreateJob" /\ UNCHANGED <<remote, embedded>>
    BY DEF DoCreateJob, At
  <1>2. PICK j \in Free(jobs) : jobs' = [jobs EXCEPT ![j] = row]
    BY DEF DoCreateJob
  <1>3. Then(h, Tail(handlers[h]))
    BY DEF DoCreateJob
  <1>4. row.status = "queued" /\ row.attempts = 0
    OBVIOUS
  <1> HIDE DEF row, c
  <1>5. jobs \in [JobIds -> Job] /\ j \in JobIds /\ jobs[j].status = "absent"
    BY <1>2 DEF RowsInv, GateInv, TypeOK, Free
  <1>6. jobs'[j] = row /\ \A i \in JobIds : i # j => jobs'[i] = jobs[i]
    BY <1>2, <1>5
  <1>7. jobs[j].attempts = 0 /\ ~(j \in remote) /\ ~(embedded[j] > 0)
    BY <1>5 DEF RowsInv, RowsCounted, RowCounted, HoldersCounted
  <1>8. RowsCounted'
    BY <1>4, <1>6, OrchestratorAssumption DEF RowsInv, RowsCounted, RowCounted
  <1>9. HoldersCounted'
    BY <1>1, <1>6, <1>7 DEF RowsInv, HoldersCounted
  <1>10. \A i \in JobIds : Moved(h, i)
    BY <1>6, <1>7 DEF Moved
  <1>11. /\ Tail(handlers[h]) \in Seq(Call) /\ AllCounted(Tail(handlers[h]), jobs)
         /\ RequeueAlone(h, Tail(handlers[h]))
    BY <1>1, HeadCounted
  <1>12. \A i \in 1..Len(Tail(handlers[h])) : Tail(handlers[h])[i].op # "Requeue"
    <2>1. handlers[h] \in Seq(Call) /\ RequeueAlone(h, handlers[h])
      BY DEF RowsInv, GateInv, TypeOK, CallsCounted
    <2>2. /\ Len(Tail(handlers[h])) = Len(handlers[h]) - 1 /\ Len(handlers[h]) \in Nat
          /\ \A i \in 1..Len(Tail(handlers[h])) : /\ Tail(handlers[h])[i] = handlers[h][i + 1]
                                                  /\ i + 1 \in 1..Len(handlers[h])
      BY <1>1, <2>1
    <2>3. QED
      BY <2>1, <2>2 DEF RequeueAlone
  <1>13. AllCounted(Tail(handlers[h]), jobs')
    <2> SUFFICES ASSUME NEW i \in 1..Len(Tail(handlers[h]))
                 PROVE  Counted(Tail(handlers[h])[i], jobs')
      BY DEF AllCounted
    <2> DEFINE d == Tail(handlers[h])[i]
    <2>1. Counted(d, jobs) /\ d \in Call /\ d.op # "Requeue"
      BY <1>11, <1>12 DEF AllCounted
    <2> HIDE DEF d
    <2>2. d.op \in JobOps => d.job \in JobIds
      BY <2>1 DEF Call, JobOps
    <2>3. Counted(d, jobs')
      BY <1>6, <1>7, <2>1, <2>2 DEF Counted
    <2>4. QED
      BY <2>3 DEF d
  <1>14. RowsInv'
    BY <1>3, <1>8, <1>9, <1>10, <1>11, <1>13, RowsAdvance DEF Then
  <1>15. QED
    BY <1>2, <1>4, <1>5, <1>14

\* FinishJob and the UPDATEs of the sweep.
LEMMA JobWriteRows ==
    ASSUME RowsInv, GateInv', NEW h \in Threads,
           DoFinishJob(h) \/ DoRequeue(h) \/ DoFailStale(h)
    PROVE  /\ RowsInv'
           /\ \E j \in JobIds, s \in {"queued", "done", "failed"} :
                  /\ jobs' = [jobs EXCEPT ![j].status = s]
                  /\ jobs[j].attempts > 0
                  /\ s = "queued" => jobs[j].attempts < MaxAttempts
  <1> DEFINE c == Head(handlers[h])
             j == c.job
  <1>1. /\ handlers[h] # <<>> /\ UNCHANGED <<remote, embedded>>
        /\ Then(h, Tail(handlers[h]))
        /\ c.op \in {"FinishJob", "Requeue", "FailStale"}
    BY DEF DoFinishJob, DoRequeue, DoFailStale, At
  <1>2. c \in Call /\ Counted(c, jobs) /\ (c.op = "Requeue" => h = Loop)
    BY <1>1, HeadCounted
  <1>3. PICK s \in {"queued", "done", "failed"} :
            /\ jobs' = [jobs EXCEPT ![j].status = s]
            /\ s = "queued" => c.op = "Requeue"
    BY <1>1, <1>2 DEF DoFinishJob, DoRequeue, DoFailStale, At, Call
  <1>4. j \in JobIds
    BY <1>1, <1>2 DEF Call
  <1>5. jobs[j].attempts > 0 /\ (s = "queued" => h = Loop /\ jobs[j].attempts < MaxAttempts)
    BY <1>1, <1>2, <1>3 DEF Counted, JobOps
  <1> HIDE DEF c, j
  <1>6. jobs \in [JobIds -> Job]
    BY DEF RowsInv, GateInv, TypeOK
  <1>7. /\ jobs'[j].status = s /\ jobs'[j].attempts = jobs[j].attempts
        /\ \A i \in JobIds : i # j => jobs'[i] = jobs[i]
        /\ \A i \in JobIds : jobs'[i].attempts = jobs[i].attempts
    BY <1>3, <1>4, <1>6 DEF Job
  <1>8. RowsCounted'
    BY <1>5, <1>7 DEF RowsInv, RowsCounted, RowCounted
  <1>9. HoldersCounted'
    BY <1>1, <1>7 DEF RowsInv, HoldersCounted
  <1>10. \A i \in JobIds : Moved(h, i)
    BY <1>5, <1>7 DEF Moved
  <1>11. /\ Tail(handlers[h]) \in Seq(Call) /\ AllCounted(Tail(handlers[h]), jobs)
         /\ RequeueAlone(h, Tail(handlers[h]))
    BY <1>1, HeadCounted
  <1>12. AllCounted(Tail(handlers[h]), jobs')
    <2>1. CASE c.op = "Requeue"
      BY <1>1, <2>1, HeadCounted, EmptyCounted DEF c
    <2>2. CASE c.op # "Requeue"
      <3> SUFFICES ASSUME NEW i \in 1..Len(Tail(handlers[h]))
                   PROVE  Counted(Tail(handlers[h])[i], jobs')
        BY DEF AllCounted
      <3> DEFINE d == Tail(handlers[h])[i]
      <3>1. Counted(d, jobs) /\ d \in Call
        BY <1>11 DEF AllCounted
      <3> HIDE DEF d
      <3>2. d.op \in JobOps \cup {"Requeue"} => d.job \in JobIds
        BY <3>1 DEF Call, JobOps
      <3>3. s # "queued"
        BY <1>3, <2>2 DEF c
      <3>4. Counted(d, jobs')
        BY <1>7, <3>1, <3>2, <3>3 DEF Counted
      <3>5. QED
        BY <3>4 DEF d
    <2>3. QED
      BY <2>1, <2>2
  <1>13. RowsInv'
    BY <1>1, <1>8, <1>9, <1>10, <1>11, <1>12, RowsAdvance DEF Then
  <1>14. QED
    BY <1>3, <1>4, <1>5, <1>13

-----------------------------------------------------------------------------
(* The refinement of JobRows.                                               *)

\* Nothing writes rows or calls: single statements, faults.
LEMMA QuietRows ==
    ASSUME RowsInv, GateInv',
           \/ \E t \in TaskIds : DeleteTask(t)
           \/ \E a \in AgentIds : DeleteAgent(a) \/ UpdateAgent(a)
           \/ UNCHANGED vars
           \/ Crash
           \/ \E h \in Threads : Abort(h)
    PROVE  RowsInv' /\ UNCHANGED jobs
  <1>1. ASSUME UNCHANGED <<jobs, handlers, remote, embedded>>
        PROVE  RowsInv'
    BY <1>1 DEF RowsInv, RowsCounted, HoldersCounted, CallsCounted
  <1>2. ASSUME Crash
        PROVE  RowsInv'
    <2>1. /\ handlers' = [h \in Threads |-> <<>>] /\ embedded' = [j \in JobIds |-> 0]
          /\ UNCHANGED <<jobs, remote>>
      BY <1>2 DEF Crash
    <2>2. CallsCounted'
      BY <2>1, EmptyCounted DEF CallsCounted
    <2>3. RowsCounted' /\ HoldersCounted'
      BY <2>1 DEF RowsInv, RowsCounted, HoldersCounted
    <2>4. QED
      BY <2>2, <2>3 DEF RowsInv
  <1>3. ASSUME NEW h \in Threads, Abort(h)
        PROVE  RowsInv'
    <2>1. handlers[h] # <<>> /\ Then(h, <<>>) /\ UNCHANGED <<jobs, remote, embedded>>
      BY <1>3 DEF Abort
    <2>2. QED
      BY <2>1, TailRows
  <1>4. QED
    BY <1>1, <1>2, <1>3 DEF DeleteTask, DeleteAgent, UpdateAgent, Crash, Abort, vars

\* A write of one row, seen as a write of JobRows.
LEMMA SeenWrite ==
    ASSUME RowsInv, NEW j \in JobIds, NEW row, jobs' = [jobs EXCEPT ![j] = row]
    PROVE  Rows!Write(j, IF row.status \in {"done", "failed"} THEN "ended" ELSE row.status,
                      row.attempts)
  BY DEF Rows!Write, RowView, RowsInv, GateInv, TypeOK

LEMMA RowSeen ==
    ASSUME NEW j \in JobIds
    PROVE  /\ RowView[j].attempts = jobs[j].attempts
           /\ jobs[j].status \notin {"done", "failed"} => RowView[j].status = jobs[j].status
  BY DEF RowView

LEMMA RowsStep ==
    ASSUME RowsInv, GateInv', [Next]_vars
    PROVE  RowsInv' /\ (Rows!Next \/ UNCHANGED jobs)
  <1>1. jobs \in [JobIds -> Job]
    BY DEF RowsInv, GateInv, TypeOK
  <1>2. ASSUME NEW h \in Handlers, NEW j \in JobIds, NEW by \in {"remote", "embedded"},
               Claim(h, j, by)
        PROVE  RowsInv' /\ Rows!Next
    <2>1. /\ RowsInv' /\ jobs[j].status = "queued"
          /\ jobs[j].attempts < MaxAttempts
          /\ jobs' = [jobs EXCEPT ![j].status = "running", ![j].attempts = @ + 1]
      BY <1>2, ClaimRows
    <2> DEFINE row == [jobs[j] EXCEPT !.status = "running", !.attempts = @ + 1]
    <2>2. jobs' = [jobs EXCEPT ![j] = row]
      BY <1>1, <2>1
    <2>3. row.status = "running" /\ row.attempts = jobs[j].attempts + 1
      BY <1>1 DEF Job
    <2> HIDE DEF row
    <2>4. Rows!Write(j, "running", jobs[j].attempts + 1)
      BY <2>2, <2>3, SeenWrite
    <2>5. Rows!Claim(j)
      BY <2>1, <2>4, RowSeen DEF Rows!Claim, Rows!Write
    <2>6. QED
      BY <2>1, <2>5 DEF Rows!Next
  <1>3. ASSUME NEW h \in Threads, DoCreateJob(h)
        PROVE  RowsInv' /\ Rows!Next
    <2>1. RowsInv'
      BY <1>3, CreateJobRows
    <2>2. PICK j \in JobIds : /\ jobs[j].status = "absent"
                             /\ \E row : /\ row.status = "queued" /\ row.attempts = 0
                                         /\ jobs' = [jobs EXCEPT ![j] = row]
      BY <1>3, CreateJobRows
    <2>3. PICK row : row.status = "queued" /\ row.attempts = 0 /\ jobs' = [jobs EXCEPT ![j] = row]
      BY <2>2
    <2>4. Rows!Write(j, "queued", 0)
      BY <2>3, SeenWrite
    <2>5. Rows!Create(j)
      BY <2>2, <2>4, RowSeen DEF Rows!Create, Rows!Write
    <2>6. QED
      BY <2>1, <2>5 DEF Rows!Next
  <1>4. ASSUME NEW h \in Threads, DoFinishJob(h) \/ DoRequeue(h) \/ DoFailStale(h)
        PROVE  RowsInv' /\ Rows!Next
    <2>1. RowsInv'
      BY <1>4, JobWriteRows
    <2>2. PICK j \in JobIds, s \in {"queued", "done", "failed"} :
            /\ jobs' = [jobs EXCEPT ![j].status = s]
            /\ jobs[j].attempts > 0
            /\ s = "queued" => jobs[j].attempts < MaxAttempts
      BY <1>4, JobWriteRows
    <2> DEFINE row == [jobs[j] EXCEPT !.status = s]
    <2>3. jobs' = [jobs EXCEPT ![j] = row]
      BY <1>1, <2>2
    <2>4. row.status = s /\ row.attempts = jobs[j].attempts
      BY <1>1 DEF Job
    <2> HIDE DEF row
    <2>5. CASE s = "queued"
      <3>1. Rows!Write(j, "queued", jobs[j].attempts)
        BY <2>3, <2>4, <2>5, SeenWrite
      <3>2. Rows!Requeue(j)
        BY <2>2, <2>5, <3>1, RowSeen DEF Rows!Requeue, Rows!Write
      <3>3. QED
        BY <2>1, <3>2 DEF Rows!Next
    <2>6. CASE s # "queued"
      <3>1. Rows!Write(j, "ended", jobs[j].attempts)
        BY <2>3, <2>4, <2>6, SeenWrite
      <3>2. Rows!End(j)
        BY <2>2, <3>1, RowSeen DEF Rows!End, Rows!Write
      <3>3. QED
        BY <2>1, <3>2 DEF Rows!Next
    <2>7. QED
      BY <2>5, <2>6
  <1>5. ASSUME NEW h \in Threads, Step(h)
        PROVE  RowsInv' /\ (Rows!Next \/ UNCHANGED jobs)
    BY <1>3, <1>4, <1>5, OtherCallsRows, PlanCallsRows, BuildBundleRows DEF Step
  <1>6. ASSUME NEW h \in Handlers, Request(h)
        PROVE  RowsInv' /\ (Rows!Next \/ UNCHANGED jobs)
    <2>1. ASSUME NEW j \in JobIds, CompleteRemote(h, j) \/ CompleteEmbedded(h, j)
          PROVE  RowsInv' /\ UNCHANGED jobs
      BY <2>1, CompletionRows DEF CompleteRemote, CompleteEmbedded
    <2>2. ASSUME \/ \E t \in TaskIds, a \in AgentIds \cup {None} : CreateTask(h, t, a)
                 \/ \E t \in TaskIds, a \in AgentIds : AssignTask(h, t, a)
                 \/ \E p \in PlanIds, d \in Decisions : PlanDecision(h, p, d)
                 \/ \E j \in JobIds : StepEvent(h, j)
          PROVE  RowsInv' /\ UNCHANGED jobs
      <3>1. RowsInv'
        BY <2>2, JoblessRequests
      <3>2. UNCHANGED jobs
        BY <2>2 DEF CreateTask, AssignTask, PlanDecision, StepEvent
      <3>3. QED
        BY <3>1, <3>2
    <2>3. QED
      BY <1>2, <1>6, <2>1, <2>2 DEF Request
  <1>7. ASSUME NEW j \in JobIds, SweepJob(j)
        PROVE  RowsInv' /\ UNCHANGED jobs
    BY <1>7, SweepRows DEF SweepJob
  <1>8. CASE UNCHANGED vars
    BY <1>8, QuietRows
  <1>9. CASE Next
    BY <1>5, <1>6, <1>7, <1>9, QuietRows DEF Next
  <1>10. QED
    BY <1>8, <1>9

LEMMA InitRows == Init => RowsInv /\ Rows!Init
  <1> SUFFICES ASSUME Init
               PROVE  RowsInv /\ Rows!Init
    OBVIOUS
  <1>1. GateInv
    BY InitGate
  <1>2. RowsCounted /\ HoldersCounted
    BY DEF Init, RowsCounted, RowCounted, HoldersCounted
  <1>3. CallsCounted
    BY EmptyCounted DEF Init, CallsCounted
  <1>4. Rows!Init
    BY DEF Init, Rows!Init, RowView
  <1>5. QED
    BY <1>1, <1>2, <1>3, <1>4 DEF RowsInv

\* Calls are for jobs that were claimed, and a requeue for one with attempts left.
THEOREM RowsInvariant == Spec => []RowsInv
  <1>1. RowsInv /\ GateInv' /\ [Next]_vars => RowsInv'
    BY RowsStep
  <1>2. QED
    BY <1>1, InitRows, GateInvariant, PTL DEF Spec

\* Whatever handlers, faults and deletions meet, the rows of jobs move as JobRows says.
THEOREM OrchestratorRows == Spec => RowsSpec
  <1>1. RowsInv /\ GateInv' /\ [Next]_vars => [Rows!Next]_RowView
    <2> SUFFICES ASSUME RowsInv, GateInv', [Next]_vars, ~Rows!Next
                 PROVE  UNCHANGED RowView
      OBVIOUS
    <2>1. UNCHANGED jobs
      BY RowsStep
    <2>2. QED
      BY <2>1 DEF RowView
  <1>2. QED
    BY <1>1, InitRows, RowsInvariant, GateInvariant, PTL DEF Spec, RowsSpec, Rows!Spec

-----------------------------------------------------------------------------
(* What JobRows promises then holds here.                                   *)

AttemptsCapped == \A j \in JobIds : jobs[j].attempts <= MaxAttempts

RowsCapped ==
    \A j \in JobIds :
        /\ RowView[j].attempts \in Nat /\ RowView[j].attempts <= MaxAttempts
        /\ RowView[j].status = "queued" => RowView[j].attempts < MaxAttempts

LEMMA RowsStayCapped == RowsCapped /\ [Rows!Next]_RowView => RowsCapped'
  <1> SUFFICES ASSUME RowsCapped, [Rows!Next]_RowView
               PROVE  RowsCapped'
    OBVIOUS
  <1>1. PICK old, new : old = RowView /\ new = RowView'
    OBVIOUS
  <1>2. old = [j \in JobIds |-> old[j]]
    BY <1>1 DEF RowView
  <1>3. MaxAttempts \in Nat \ {0}
    BY OrchestratorAssumption
  <1>4. \A j \in JobIds : /\ old[j].attempts \in Nat /\ old[j].attempts <= MaxAttempts
                          /\ old[j].status = "queued" => old[j].attempts < MaxAttempts
    BY <1>1 DEF RowsCapped
  <1>5. \/ new = old
        \/ \E j \in JobIds : \E x, n :
              /\ new = [old EXCEPT ![j] = [status |-> x, attempts |-> n]]
              /\ n \in Nat /\ n <= MaxAttempts /\ (x = "queued" => n < MaxAttempts)
    <2>1. CASE RowView' = RowView
      BY <1>1, <2>1
    <2>2. ASSUME NEW j \in JobIds, Rows!Create(j)
          PROVE  new = [old EXCEPT ![j] = [status |-> "queued", attempts |-> 0]]
      BY <1>1, <2>2 DEF Rows!Create, Rows!Write
    <2>3. ASSUME NEW j \in JobIds, Rows!Claim(j)
          PROVE  /\ old[j].attempts < MaxAttempts
                 /\ new = [old EXCEPT ![j] = [status |-> "running",
                                              attempts |-> old[j].attempts + 1]]
      BY <1>1, <2>3 DEF Rows!Claim, Rows!Write
    <2>4. ASSUME NEW j \in JobIds, Rows!End(j)
          PROVE  new = [old EXCEPT ![j] = [status |-> "ended", attempts |-> old[j].attempts]]
      BY <1>1, <2>4 DEF Rows!End, Rows!Write
    <2>5. ASSUME NEW j \in JobIds, Rows!Requeue(j)
          PROVE  /\ old[j].attempts < MaxAttempts
                 /\ new = [old EXCEPT ![j] = [status |-> "queued", attempts |-> old[j].attempts]]
      BY <1>1, <2>5 DEF Rows!Requeue, Rows!Write
    <2>6. ASSUME NEW j \in JobIds, Rows!Claim(j)
          PROVE  old[j].attempts + 1 \in Nat /\ old[j].attempts + 1 <= MaxAttempts
      BY <1>3, <1>4, <2>3, <2>6
    <2>7. 0 \in Nat /\ 0 <= MaxAttempts /\ 0 < MaxAttempts
      BY <1>3
    <2>8. QED
      BY <1>4, <2>1, <2>2, <2>3, <2>4, <2>5, <2>6, <2>7 DEF Rows!Next
  <1>6. \A j \in JobIds : /\ new[j].attempts \in Nat /\ new[j].attempts <= MaxAttempts
                          /\ new[j].status = "queued" => new[j].attempts < MaxAttempts
    BY <1>2, <1>4, <1>5
  <1>7. QED
    BY <1>1, <1>6 DEF RowsCapped

\* However handlers, faults and the requeue loop meet, a job is handed out at most
\* maxJobAttempts times: it follows from JobRows alone, which the orchestrator implements.
THEOREM AttemptsAreCapped == Spec => []AttemptsCapped
  <1>1. Rows!Init => RowsCapped
    BY OrchestratorAssumption DEF Rows!Init, RowsCapped
  <1>2. RowsCapped => AttemptsCapped
    BY DEF RowsCapped, AttemptsCapped, RowView
  <1>3. QED
    BY <1>1, <1>2, RowsStayCapped, OrchestratorRows, PTL DEF RowsSpec, Rows!Spec

=============================================================================
