----------------------------- MODULE Delegation -----------------------------
(***************************************************************************)
(* The tree of tasks that agents open for each other while they execute,   *)
(* and what keeps it from growing deeper and deeper: for each delegate     *)
(* event the control plane walks from the task of the job up to its root,  *)
(* one GetTask at a time, while tasks and agents are deleted.              *)
(*                                                                         *)
(* How a task gets from planning to its execution is in Orchestrator; here  *)
(* it is a single step. That an execution ends changes nothing here: the   *)
(* event of a late run is served like any other.                           *)
(***************************************************************************)
EXTENDS Integers

CONSTANTS
    Agents,    \* of one team
    MaxTasks,  \* rows of tasks (a bound)
    Runners,   \* engines at work at the same time (a bound)
    MaxDepth,  \* maxDelegationDepth
    Faults,    \* whether handlers are cut off
    None       \* the empty id

Tasks == 1..MaxTasks

ASSUME DelegationAssumption ==
    /\ MaxTasks \in Nat
    /\ MaxDepth \in Nat
    /\ Faults \in BOOLEAN
    /\ None \notin Agents \cup Tasks

VARIABLES
    tasks,   \* the rows of tasks; the parents of those that are deleted are kept
    staff,   \* agents that have not been deleted
    runs,    \* the bundle of each engine
    calls,   \* the handler of the delegate event each engine waits for
    mishap   \* history: such a handler was cut off

vars == <<tasks, staff, runs, calls, mishap>>

\* failed: or rejected. started: a plan job was queued. level: history, the delegations it took to
\* get from a task of a human to this one.
Task == [state : {"absent", "there", "deleted"},
         parent : Tasks \cup {None},
         agent : Agents \cup {None},
         status : {"inbox", "planning", "executing", "failed"},
         started : BOOLEAN,
         level : Nat]

Run == [task : Tasks \cup {None}, agent : Agents \cup {None}, mates : SUBSET Agents]

\* pc: the store call to be made next. assignee: AssigneeID of the event. cursor and
\* depth: id and depth in taskDepth. child: the task that was created.
Call == [pc : {"idle", "walk", "creator", "insert", "assignee", "status", "job"},
         assignee : Agents \cup {None},
         cursor : Tasks \cup {None},
         depth : Nat,
         child : Tasks \cup {None}]

NoRun == [task |-> None, agent |-> None, mates |-> {}]
NoCall == [pc |-> "idle", assignee |-> None, cursor |-> None, depth |-> 0, child |-> None]

TypeOK ==
    /\ tasks \in [Tasks -> Task]
    /\ staff \subseteq Agents
    /\ runs \in [Runners -> Run]
    /\ calls \in [Runners -> Call]
    /\ mishap \in BOOLEAN

Init ==
    /\ tasks = [t \in Tasks |-> [state |-> "absent", parent |-> None, agent |-> None,
                                 status |-> "inbox", started |-> FALSE, level |-> 0]]
    /\ staff = Agents
    /\ runs = [r \in Runners |-> NoRun]
    /\ calls = [r \in Runners |-> NoCall]
    /\ mishap = FALSE

There(t) == tasks[t].state = "there"

\* newID.
Fresh(t) == /\ tasks[t].state = "absent"
            /\ \A u \in Tasks : tasks[u].state = "absent" => t <= u

-----------------------------------------------------------------------------
(* Tasks and agents in general.                                            *)

\* handleCreateTask. pickTeamAgent may have named the agent.
CreateTask(t, a) ==
    /\ Fresh(t)
    /\ tasks' = [tasks EXCEPT ![t] =
                   [state |-> "there", parent |-> None, agent |-> a,
                    status |-> IF a = None THEN "inbox" ELSE "planning",
                    started |-> a # None, level |-> 0]]
    /\ UNCHANGED <<staff, runs, calls, mishap>>

\* handleAssignTask, also of a task an agent has opened.
AssignTask(t, a) ==
    /\ There(t)
    /\ tasks[t].status \in {"inbox", "failed"}
    /\ tasks' = [tasks EXCEPT ![t].agent = a, ![t].status = "planning", ![t].started = TRUE]
    /\ UNCHANGED <<staff, runs, calls, mishap>>

\* A plan was drafted for the task and has been approved.
Approve(t) ==
    /\ There(t)
    /\ tasks[t].status = "planning"
    /\ tasks[t].started
    /\ tasks' = [tasks EXCEPT ![t].status = "executing"]
    /\ UNCHANGED <<staff, runs, calls, mishap>>

\* One of its jobs failed, or its plan was rejected.
FailTask(t) ==
    /\ There(t)
    /\ tasks[t].status \in {"planning", "executing"}
    /\ tasks[t].started
    /\ tasks' = [tasks EXCEPT ![t].status = "failed"]
    /\ UNCHANGED <<staff, runs, calls, mishap>>

DeleteTask(t) ==
    /\ There(t)
    /\ tasks' = [tasks EXCEPT ![t] = [@ EXCEPT !.state = "deleted", !.agent = None,
                                             !.status = "inbox", !.started = FALSE]]
    /\ UNCHANGED <<staff, runs, calls, mishap>>

DeleteAgent(a) ==
    /\ staff' = staff \ {a}
    /\ UNCHANGED <<tasks, runs, calls, mishap>>

-----------------------------------------------------------------------------
(* The engine.                                                             *)

\* buildBundle for the execute job: the teammates are those of now.
Bundle(r, t) ==
    /\ runs[r].task = None
    /\ There(t)
    /\ tasks[t].status = "executing"
    /\ tasks[t].agent \in staff
    /\ runs' = [runs EXCEPT ![r] = [task |-> t, agent |-> tasks[t].agent,
                                    mates |-> staff \ {tasks[t].agent}]]
    /\ UNCHANGED <<tasks, staff, calls, mishap>>

\* ExecutePlan returns, its runner dies, or it has lost the job long ago.
Leave(r) ==
    /\ runs[r].task # None
    /\ calls[r] = NoCall
    /\ runs' = [runs EXCEPT ![r] = NoRun]
    /\ UNCHANGED <<tasks, staff, calls, mishap>>

\* What the engine makes of the name the model gives: a teammate, or nobody.
resolveTeammate(mates) == mates \cup {None}

Delegate(r) ==
    /\ runs[r].task # None
    /\ calls[r] = NoCall
    /\ \E a \in resolveTeammate(runs[r].mates) :
          calls' = [calls EXCEPT ![r] = [pc |-> "walk", assignee |-> a,
                                         cursor |-> runs[r].task, depth |-> 0,
                                         child |-> None]]
    /\ UNCHANGED <<tasks, staff, runs, mishap>>

-----------------------------------------------------------------------------
(* delegate, with taskDepth and startTask.                                 *)

\* Mutant of Up: a parent that is gone does not count.
UpForgiving(c) ==
    LET up == tasks[c.cursor].parent
        p == IF up # None /\ There(up) THEN up ELSE None
        d == IF p = None THEN c.depth ELSE c.depth + 1
    IN [c EXCEPT !.cursor = p,
                 !.depth = d,
                 !.pc = IF p = None \/ d > MaxDepth + 1 THEN "creator" ELSE @]

\* What a turn of the loop of taskDepth makes of a handler. A task that is gone
\* ends it.
Up(c) ==
    LET p == tasks[c.cursor].parent
        d == IF p = None THEN c.depth ELSE c.depth + 1
    IN IF ~There(c.cursor) THEN NoCall
       ELSE [c EXCEPT !.cursor = p,
                      !.depth = d,
                      !.pc = IF p = None \/ d > MaxDepth + 1 THEN "creator" ELSE @]

taskDepth(r) ==
    /\ calls[r].pc = "walk"
    /\ calls' = [calls EXCEPT ![r] = Up(@)]
    /\ UNCHANGED <<tasks, staff, runs, mishap>>

\* Mutant of Check: the bound is compared with the depth of the parent.
CheckParent(r) ==
    /\ calls[r].pc = "creator"
    /\ calls' = [calls EXCEPT ![r] =
                   IF runs[r].agent \notin staff \/ @.depth > MaxDepth
                   THEN NoCall
                   ELSE [@ EXCEPT !.pc = "insert"]]
    /\ UNCHANGED <<tasks, staff, runs, mishap>>

\* GetAgent of the creator, and the bound.
Check(r) ==
    /\ calls[r].pc = "creator"
    /\ calls' = [calls EXCEPT ![r] =
                   IF runs[r].agent \notin staff \/ @.depth + 1 > MaxDepth
                   THEN NoCall
                   ELSE [@ EXCEPT !.pc = "insert"]]
    /\ UNCHANGED <<tasks, staff, runs, mishap>>

Child(r) == [state |-> "there", parent |-> runs[r].task, agent |-> calls[r].assignee,
             status |-> "inbox", started |-> FALSE, level |-> tasks[runs[r].task].level + 1]

\* Mutant of Insert: the task is left to the inbox.
InsertOnly(r, t) ==
    /\ calls[r].pc = "insert"
    /\ Fresh(t)
    /\ tasks' = [tasks EXCEPT ![t] = Child(r)]
    /\ calls' = [calls EXCEPT ![r] = NoCall]
    /\ UNCHANGED <<staff, runs, mishap>>

\* CreateTask of the store; without an assignee that is all.
Insert(r, t) ==
    /\ calls[r].pc = "insert"
    /\ Fresh(t)
    /\ tasks' = [tasks EXCEPT ![t] = Child(r)]
    /\ calls' = [calls EXCEPT ![r] =
                   IF @.assignee = None THEN NoCall
                   ELSE [@ EXCEPT !.pc = "assignee", !.depth = 0, !.child = t]]
    /\ UNCHANGED <<staff, runs, mishap>>

\* startTask: GetAgent of the assignee, who may have been deleted.
GetAssignee(r) ==
    /\ calls[r].pc = "assignee"
    /\ calls' = [calls EXCEPT ![r] =
                   IF @.assignee \in staff THEN [@ EXCEPT !.pc = "status"] ELSE NoCall]
    /\ UNCHANGED <<tasks, staff, runs, mishap>>

\* SetTaskStatus, whatever has become of the task by now.
SetStatus(r) ==
    /\ calls[r].pc = "status"
    /\ tasks' = IF There(calls[r].child)
                THEN [tasks EXCEPT ![calls[r].child].status = "planning"]
                ELSE tasks
    /\ calls' = [calls EXCEPT ![r].pc = "job"]
    /\ UNCHANGED <<staff, runs, mishap>>

\* CreateJob. If the task is gone, the job fails when it is claimed.
CreateJob(r) ==
    /\ calls[r].pc = "job"
    /\ tasks' = IF There(calls[r].child)
                THEN [tasks EXCEPT ![calls[r].child].started = TRUE]
                ELSE tasks
    /\ calls' = [calls EXCEPT ![r] = NoCall]
    /\ UNCHANGED <<staff, runs, mishap>>

\* The request is cancelled, the database fails, or the control plane restarts. The
\* engine goes on.
CutOff(r) ==
    /\ Faults
    /\ calls[r] # NoCall
    /\ calls' = [calls EXCEPT ![r] = NoCall]
    /\ mishap' = TRUE
    /\ UNCHANGED <<tasks, staff, runs>>

-----------------------------------------------------------------------------
Handle(r) ==
    \/ taskDepth(r)
    \/ Check(r)
    \/ \E t \in Tasks : Insert(r, t)
    \/ GetAssignee(r)
    \/ SetStatus(r)
    \/ CreateJob(r)

Next ==
    \/ \E t \in Tasks : \E a \in staff \cup {None} : CreateTask(t, a)
    \/ \E t \in Tasks : \E a \in staff : AssignTask(t, a)
    \/ \E t \in Tasks : Approve(t) \/ FailTask(t) \/ DeleteTask(t)
    \/ \E a \in staff : DeleteAgent(a)
    \/ \E r \in Runners : \E t \in Tasks : Bundle(r, t)
    \/ \E r \in Runners : Leave(r) \/ Delegate(r) \/ Handle(r) \/ CutOff(r)

Spec == Init /\ [][Next]_vars

\* A handler that runs goes on.
FairSpec == Spec /\ \A r \in Runners : WF_vars(Handle(r))

-----------------------------------------------------------------------------
(* Properties.                                                             *)

\* "delegation depth is capped to prevent runaway chains": no chain of tasks, each
\* opened by an agent while it executed the one before, is longer than that, also
\* when links of it were deleted before, during or after the walk.
NoLongChain ==
    ~\E c \in [0..MaxDepth + 1 -> Tasks] :
        \A i \in 1..MaxDepth + 1 : tasks[c[i]].parent = c[i - 1]

\* The same by the level that was recorded when the task was opened.
DepthBounded == \A t \in Tasks : tasks[t].level <= MaxDepth

\* "Delegated tasks with a concrete assignee start planning immediately", unless
\* the handler is cut off or the assignee or the task is deleted.
DelegatedStarts ==
    \A t \in Tasks :
        There(t) /\ tasks[t].agent # None /\ tasks[t].status = "inbox"
          ~> \/ tasks[t].status # "inbox"
             \/ ~There(t)
             \/ tasks[t].agent \notin staff
             \/ mishap

(* The inductive strengthening of DepthBounded.                            *)

\* Levels count the parents up to a task without one.
LevelsCount ==
    \A t \in Tasks : LET p == tasks[t].parent IN
        IF p = None THEN tasks[t].level = 0
        ELSE tasks[p].state # "absent" /\ tasks[t].level = tasks[p].level + 1

RunsKnown == \A r \in Runners : runs[r].task # None => tasks[runs[r].task].state # "absent"

\* What a walk has counted and what is still above it make the level of the task
\* it came from. Rows may be deleted but do not move in the tree.
WalkExact(r) ==
    LET c == calls[r] IN
    /\ c.pc # "idle" => runs[r].task # None
    /\ c.pc = "walk" => /\ c.cursor # None
                        /\ tasks[c.cursor].state # "absent"
                        /\ c.depth + tasks[c.cursor].level = tasks[runs[r].task].level
    /\ c.pc \in {"creator", "insert"} => c.depth = tasks[runs[r].task].level
    /\ c.pc = "insert" => c.depth + 1 <= MaxDepth
    /\ c.pc \in {"assignee", "status", "job"} =>
          c.child # None /\ tasks[c.child].state # "absent"

IInv ==
    /\ TypeOK
    /\ DepthBounded
    /\ LevelsCount
    /\ RunsKnown
    /\ \A r \in Runners : WalkExact(r)

=============================================================================
