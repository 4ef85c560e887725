-------------------------- MODULE DelegationProofs --------------------------
(* Proofs about Delegation for any depth, and any number of tasks, agents   *)
(* and engines.                                                            *)
EXTENDS Delegation, WellFoundedInduction, TLAPS

\* Rows that are in the tree stay where they are.
Rooted ==
    \A t \in Tasks : tasks[t].state # "absent" =>
        /\ tasks'[t].state # "absent"
        /\ tasks'[t].parent = tasks[t].parent
        /\ tasks'[t].level = tasks[t].level

-----------------------------------------------------------------------------
(* The tree.                                                               *)

LEMMA TreeStays ==
  ASSUME IInv,
         \A t \in Tasks : /\ tasks[t].state # "absent" => tasks'[t].state # "absent"
                          /\ tasks'[t].parent = tasks[t].parent
                          /\ tasks'[t].level = tasks[t].level
  PROVE  Rooted /\ DepthBounded' /\ LevelsCount'
  <1>1. Rooted
    BY DEF Rooted
  <1>2. DepthBounded'
    BY DEF IInv, DepthBounded
  <1>3. LevelsCount'
    <2> SUFFICES ASSUME NEW t \in Tasks
                 PROVE  LET p == tasks'[t].parent IN
                          IF p = None THEN tasks'[t].level = 0
                          ELSE tasks'[p].state # "absent"
                               /\ tasks'[t].level = tasks'[p].level + 1
      BY DEF LevelsCount
    <2>1. tasks[t].parent \in Tasks \cup {None}
      BY DEF IInv, TypeOK, Task
    <2>2. QED
      BY <2>1 DEF IInv, LevelsCount
  <1>4. QED
    BY <1>1, <1>2, <1>3

\* A row is put where there was none; no row refers to it before.
LEMMA TreeGrows ==
  ASSUME IInv, NEW t \in Tasks, tasks[t].state = "absent",
         NEW row \in Task,
         row.state = "there",
         row.level <= MaxDepth,
         row.parent = None => row.level = 0,
         row.parent # None => /\ tasks[row.parent].state # "absent"
                              /\ row.level = tasks[row.parent].level + 1,
         tasks' = [tasks EXCEPT ![t] = row]
  PROVE  Rooted /\ DepthBounded' /\ LevelsCount' /\ tasks' \in [Tasks -> Task]
  <1>1. tasks \in [Tasks -> Task]
    BY DEF IInv, TypeOK
  <1>2. tasks' \in [Tasks -> Task] /\ tasks'[t] = row
        /\ \A u \in Tasks \ {t} : tasks'[u] = tasks[u]
    BY <1>1
  <1>3. Rooted
    BY <1>2 DEF Rooted
  <1>4. DepthBounded'
    BY <1>2 DEF IInv, DepthBounded
  <1>5. LevelsCount'
    <2> SUFFICES ASSUME NEW u \in Tasks
                 PROVE  LET p == tasks'[u].parent IN
                          IF p = None THEN tasks'[u].level = 0
                          ELSE tasks'[p].state # "absent"
                               /\ tasks'[u].level = tasks'[p].level + 1
      BY DEF LevelsCount
    <2>1. CASE u = t
      <3>1. row.parent \in Tasks \cup {None}
        BY DEF Task
      <3>2. row.parent # None => row.parent \in Tasks \ {t}
        BY <3>1
      <3>3. QED
        BY <1>2, <2>1, <3>2
    <2>2. CASE u # t
      <3>1. tasks[u].parent \in Tasks \cup {None}
        BY <1>1 DEF Task
      <3>2. tasks[u].parent # None => tasks[u].parent \in Tasks \ {t}
        BY <3>1 DEF IInv, LevelsCount
      <3>3. tasks'[u] = tasks[u]
        BY <1>2, <2>2
      <3>4. QED
        BY <1>2, <3>2, <3>3 DEF IInv, LevelsCount
    <2>3. QED
      BY <2>1, <2>2
  <1>6. QED
    BY <1>2, <1>3, <1>4, <1>5

-----------------------------------------------------------------------------
(* Engines and their handlers.                                             *)

LEMMA RunsStay ==
  ASSUME IInv, Rooted, runs' = runs
  PROVE  RunsKnown'
  <1>1. \A r \in Runners : runs[r].task \in Tasks \cup {None}
    BY DEF IInv, TypeOK, Run
  <1>2. QED
    BY <1>1 DEF IInv, RunsKnown, Rooted

\* A handler that does not move keeps its count.
LEMMA WalkStays ==
  ASSUME IInv, Rooted, NEW r \in Runners, runs'[r] = runs[r], calls'[r] = calls[r]
  PROVE  WalkExact(r)'
  <1>1. /\ runs[r].task \in Tasks \cup {None}
        /\ calls[r].cursor \in Tasks \cup {None}
        /\ calls[r].child \in Tasks \cup {None}
    BY DEF IInv, TypeOK, Run, Call
  <1>2. runs[r].task # None => tasks[runs[r].task].state # "absent"
    BY DEF IInv, RunsKnown
  <1>3. WalkExact(r)
    BY DEF IInv
  <1>4. QED
    BY <1>1, <1>2, <1>3 DEF WalkExact, Rooted

LEMMA IdleIsExact ==
  ASSUME NEW r \in Runners, calls'[r] = NoCall
  PROVE  WalkExact(r)'
  BY DEF WalkExact, NoCall

\* The steps of one handler that leave the tree alone.
LEMMA CallPut ==
  ASSUME IInv, NEW r \in Runners, NEW c \in Call,
         calls' = [calls EXCEPT ![r] = c], runs' = runs, staff' = staff,
         mishap' \in BOOLEAN,
         tasks' \in [Tasks -> Task], Rooted, DepthBounded', LevelsCount', WalkExact(r)'
  PROVE  IInv'
  <1>1. calls \in [Runners -> Call]
    BY DEF IInv, TypeOK
  <1>2. calls' \in [Runners -> Call] /\ \A s \in Runners \ {r} : calls'[s] = calls[s]
    BY <1>1
  <1>3. \A s \in Runners : WalkExact(s)'
    <2> SUFFICES ASSUME NEW s \in Runners PROVE WalkExact(s)'
      OBVIOUS
    <2>1. CASE s = r
      BY <2>1
    <2>2. CASE s # r
      BY <1>2, <2>2, WalkStays
    <2>3. QED
      BY <2>1, <2>2
  <1>4. TypeOK'
    BY <1>2 DEF IInv, TypeOK
  <1>5. QED
    BY <1>3, <1>4, RunsStay DEF IInv

LEMMA NoCallTyped == NoCall \in Call
  BY DEF NoCall, Call

\* Rows change in columns that are not about the tree.
LEMMA RowsChange ==
  ASSUME IInv, UNCHANGED <<staff, runs, calls, mishap>>,
         tasks' \in [Tasks -> Task], Rooted, DepthBounded', LevelsCount'
  PROVE  IInv'
  <1>1. \A r \in Runners : WalkExact(r)'
    BY WalkStays
  <1>2. TypeOK'
    BY DEF IInv, TypeOK
  <1>3. QED
    BY <1>1, <1>2, RunsStay DEF IInv

\* One row changes in such columns.
LEMMA RowSame ==
  ASSUME IInv, NEW t \in Tasks, NEW row \in Task,
         row.parent = tasks[t].parent, row.level = tasks[t].level,
         tasks[t].state # "absent" => row.state # "absent",
         tasks' = [tasks EXCEPT ![t] = row]
  PROVE  Rooted /\ DepthBounded' /\ LevelsCount' /\ tasks' \in [Tasks -> Task]
  <1>1. tasks \in [Tasks -> Task]
    BY DEF IInv, TypeOK
  <1>2. tasks' \in [Tasks -> Task] /\ tasks'[t] = row
        /\ \A u \in Tasks \ {t} : tasks'[u] = tasks[u]
    BY <1>1
  <1>3. \A u \in Tasks : /\ tasks[u].state # "absent" => tasks'[u].state # "absent"
                         /\ tasks'[u].parent = tasks[u].parent
                         /\ tasks'[u].level = tasks[u].level
    BY <1>2
  <1>4. QED
    BY <1>2, <1>3, TreeStays

-----------------------------------------------------------------------------
(* The steps.                                                              *)

LEMMA InitIInv == Init => IInv
  <1> SUFFICES ASSUME Init PROVE IInv
    OBVIOUS
  <1>1. TypeOK
    BY NoCallTyped DEF Init, TypeOK, Task, Run, NoRun
  <1>2. DepthBounded /\ LevelsCount
    BY DelegationAssumption DEF Init, DepthBounded, LevelsCount
  <1>3. RunsKnown /\ \A r \in Runners : WalkExact(r)
    BY DEF Init, RunsKnown, WalkExact, NoRun, NoCall
  <1>4. QED
    BY <1>1, <1>2, <1>3 DEF IInv

LEMMA CreateKeeps ==
  ASSUME IInv, NEW t \in Tasks, NEW a \in staff \cup {None}, CreateTask(t, a)
  PROVE  IInv'
  <1> DEFINE row == [state |-> "there", parent |-> None, agent |-> a,
                     status |-> IF a = None THEN "inbox" ELSE "planning",
                     started |-> a # None, level |-> 0]
  <1>1. a \in Agents \cup {None}
    BY DEF IInv, TypeOK
  <1>2. row \in Task
    BY <1>1 DEF Task
  <1>3. row.state = "there" /\ row.parent = None /\ row.level = 0 /\ 0 <= MaxDepth
    BY DelegationAssumption
  <1>4. tasks[t].state = "absent" /\ tasks' = [tasks EXCEPT ![t] = row]
    BY DEF CreateTask, Fresh
  <1> HIDE DEF row
  <1>5. Rooted /\ DepthBounded' /\ LevelsCount' /\ tasks' \in [Tasks -> Task]
    BY <1>2, <1>3, <1>4, TreeGrows
  <1>6. QED
    BY <1>5, RowsChange DEF CreateTask

LEMMA RowStepKeeps ==
  ASSUME IInv, NEW t \in Tasks,
         \/ \E a \in staff : AssignTask(t, a)
         \/ Approve(t)
         \/ FailTask(t)
         \/ DeleteTask(t)
  PROVE  IInv'
  <1>1. tasks \in [Tasks -> Task] /\ tasks[t] \in Task
    BY DEF IInv, TypeOK
  <1>2. PICK row \in Task : /\ tasks' = [tasks EXCEPT ![t] = row]
                            /\ row.parent = tasks[t].parent
                            /\ row.level = tasks[t].level
                            /\ tasks[t].state # "absent" => row.state # "absent"
    <2>1. CASE \E a \in staff : AssignTask(t, a)
      <3>1. PICK a \in Agents : AssignTask(t, a)
        BY <2>1 DEF IInv, TypeOK
      <3> DEFINE row == [tasks[t] EXCEPT !.agent = a, !.status = "planning", !.started = TRUE]
      <3>2. row \in Task /\ row.parent = tasks[t].parent /\ row.level = tasks[t].level
            /\ row.state = tasks[t].state
        BY <1>1 DEF Task
      <3>3. tasks' = [tasks EXCEPT ![t] = row]
        BY <3>1 DEF AssignTask
      <3>4. QED
        BY <3>2, <3>3
    <2>2. CASE Approve(t)
      <3> DEFINE row == [tasks[t] EXCEPT !.status = "executing"]
      <3>1. row \in Task /\ row.parent = tasks[t].parent /\ row.level = tasks[t].level
            /\ row.state = tasks[t].state
        BY <1>1 DEF Task
      <3>2. tasks' = [tasks EXCEPT ![t] = row]
        BY <2>2 DEF Approve
      <3>3. QED
        BY <3>1, <3>2
    <2>3. CASE FailTask(t)
      <3> DEFINE row == [tasks[t] EXCEPT !.status = "failed"]
      <3>1. row \in Task /\ row.parent = tasks[t].parent /\ row.level = tasks[t].level
            /\ row.state = tasks[t].state
        BY <1>1 DEF Task
      <3>2. tasks' = [tasks EXCEPT ![t] = row]
        BY <2>3 DEF FailTask
      <3>3. QED
        BY <3>1, <3>2
    <2>4. CASE DeleteTask(t)
      <3> DEFINE row == [tasks[t] EXCEPT !.state = "deleted", !.agent = None,
                                         !.status = "inbox", !.started = FALSE]
      <3>1. row \in Task /\ row.parent = tasks[t].parent /\ row.level = tasks[t].level
            /\ row.state = "deleted"
        BY <1>1 DEF Task
      <3>2. tasks' = [tasks EXCEPT ![t] = row]
        BY <2>4 DEF DeleteTask
      <3>3. QED
        BY <3>1, <3>2
    <2>5. QED
      BY <2>1, <2>2, <2>3, <2>4
  <1>3. Rooted /\ DepthBounded' /\ LevelsCount' /\ tasks' \in [Tasks -> Task]
    BY <1>2, RowSame
  <1>4. UNCHANGED <<staff, runs, calls, mishap>>
    BY DEF AssignTask, Approve, FailTask, DeleteTask
  <1>5. QED
    BY <1>3, <1>4, RowsChange

\* A step that leaves the rows alone.
LEMMA SameTree ==
  ASSUME IInv, UNCHANGED tasks
  PROVE  Rooted /\ DepthBounded' /\ LevelsCount' /\ tasks' \in [Tasks -> Task]
  <1>1. Rooted /\ DepthBounded' /\ LevelsCount'
    BY TreeStays
  <1>2. QED
    BY <1>1 DEF IInv, TypeOK

LEMMA BundleKeeps ==
  ASSUME IInv, NEW r \in Runners, NEW t \in Tasks, Bundle(r, t)
  PROVE  IInv'
  <1>1. Rooted /\ DepthBounded' /\ LevelsCount' /\ tasks' = tasks
    BY SameTree DEF Bundle
  <1> DEFINE run == [task |-> t, agent |-> tasks[t].agent, mates |-> staff \ {tasks[t].agent}]
  <1>2. run \in Run /\ run.task = t
    BY DEF IInv, TypeOK, Task, Run
  <1>3. runs' = [runs EXCEPT ![r] = run] /\ calls' = calls /\ tasks[t].state # "absent"
    BY DEF Bundle, There
  <1>4. runs[r].task = None
    BY DEF Bundle
  <1> HIDE DEF run
  <1>5. runs' \in [Runners -> Run] /\ runs'[r] = run
        /\ \A s \in Runners \ {r} : runs'[s] = runs[s]
    BY <1>2, <1>3 DEF IInv, TypeOK
  <1>6. RunsKnown'
    <2> SUFFICES ASSUME NEW s \in Runners, runs'[s].task # None
                 PROVE  tasks'[runs'[s].task].state # "absent"
      BY DEF RunsKnown
    <2>1. CASE s = r
      BY <1>1, <1>2, <1>3, <1>5, <2>1
    <2>2. CASE s # r
      BY <1>1, <1>5, <2>2 DEF IInv, RunsKnown
    <2>3. QED
      BY <2>1, <2>2
  <1>7. \A s \in Runners : WalkExact(s)'
    <2> SUFFICES ASSUME NEW s \in Runners PROVE WalkExact(s)'
      OBVIOUS
    <2>1. CASE s = r
      <3>1. WalkExact(r) /\ calls[r] \in Call
        BY DEF IInv, TypeOK
      <3>2. calls'[r].pc = "idle"
        BY <1>3, <1>4, <3>1 DEF WalkExact
      <3>3. QED
        BY <2>1, <3>2 DEF WalkExact
    <2>2. CASE s # r
      BY <1>1, <1>3, <1>5, <2>2, WalkStays
    <2>3. QED
      BY <2>1, <2>2
  <1>8. TypeOK'
    BY <1>1, <1>3, <1>5 DEF IInv, TypeOK, Bundle
  <1>9. QED
    BY <1>1, <1>6, <1>7, <1>8 DEF IInv

LEMMA LeaveKeeps ==
  ASSUME IInv, NEW r \in Runners, Leave(r)
  PROVE  IInv'
  <1>1. Rooted /\ DepthBounded' /\ LevelsCount' /\ tasks' = tasks
    BY SameTree DEF Leave
  <1>2. NoRun \in Run /\ NoRun.task = None
    BY DEF Run, NoRun
  <1>3. runs' \in [Runners -> Run] /\ runs'[r] = NoRun /\ calls' = calls
        /\ \A s \in Runners \ {r} : runs'[s] = runs[s]
    BY <1>2 DEF IInv, TypeOK, Leave
  <1>4. RunsKnown'
    BY <1>1, <1>2, <1>3 DEF IInv, RunsKnown
  <1>5. \A s \in Runners : WalkExact(s)'
    <2> SUFFICES ASSUME NEW s \in Runners PROVE WalkExact(s)'
      OBVIOUS
    <2>1. CASE s = r
      BY <1>3, <2>1, IdleIsExact DEF Leave
    <2>2. CASE s # r
      BY <1>1, <1>3, <2>2, WalkStays
    <2>3. QED
      BY <2>1, <2>2
  <1>6. TypeOK'
    BY <1>1, <1>3 DEF IInv, TypeOK, Leave
  <1>7. QED
    BY <1>1, <1>4, <1>5, <1>6 DEF IInv

LEMMA DelegateKeeps ==
  ASSUME IInv, NEW r \in Runners, Delegate(r)
  PROVE  IInv'
  <1>1. Rooted /\ DepthBounded' /\ LevelsCount' /\ tasks' \in [Tasks -> Task]
    BY SameTree DEF Delegate
  <1>2. PICK a \in resolveTeammate(runs[r].mates) :
          calls' = [calls EXCEPT ![r] = [pc |-> "walk", assignee |-> a,
                                         cursor |-> runs[r].task, depth |-> 0,
                                         child |-> None]]
    BY DEF Delegate
  <1> DEFINE c == [pc |-> "walk", assignee |-> a, cursor |-> runs[r].task,
                   depth |-> 0, child |-> None]
  <1>3. runs[r] \in Run /\ calls \in [Runners -> Call]
    BY DEF IInv, TypeOK
  <1>4. c \in Call
    BY <1>3 DEF Call, Run, resolveTeammate
  <1>5. runs[r].task # None
    BY DEF Delegate
  <1>6. WalkExact(r)'
    <2>1. tasks[runs[r].task].state # "absent" /\ tasks[runs[r].task].level \in Nat
      BY <1>3, <1>5 DEF IInv, RunsKnown, TypeOK, Task, Run
    <2>2. calls'[r] = c /\ runs' = runs /\ tasks' = tasks
      BY <1>2, <1>3 DEF Delegate
    <2>3. QED
      BY <1>5, <2>1, <2>2 DEF WalkExact
  <1>7. QED
    BY <1>1, <1>2, <1>4, <1>6, CallPut DEF Delegate, IInv, TypeOK

\* One turn of taskDepth: what is counted moves from above the cursor to depth.
LEMMA DepthKeeps ==
  ASSUME IInv, NEW r \in Runners, taskDepth(r)
  PROVE  IInv'
  <1> DEFINE t == calls[r].cursor
             p == tasks[t].parent
             d == IF p = None THEN calls[r].depth ELSE calls[r].depth + 1
             c == Up(calls[r])
  <1>1. Rooted /\ DepthBounded' /\ LevelsCount' /\ tasks' \in [Tasks -> Task] /\ tasks' = tasks
    BY SameTree DEF taskDepth
  <1>2. calls[r] \in Call /\ calls \in [Runners -> Call] /\ runs[r] \in Run
        /\ tasks \in [Tasks -> Task]
    BY DEF IInv, TypeOK
  <1>3. calls' = [calls EXCEPT ![r] = c] /\ runs' = runs /\ calls[r].pc = "walk"
    BY <1>2 DEF taskDepth
  <1>4. /\ t \in Tasks
        /\ runs[r].task \in Tasks
        /\ calls[r].depth + tasks[t].level = tasks[runs[r].task].level
    BY <1>2, <1>3 DEF IInv, WalkExact, Call, Run
  <1>5. /\ p \in Tasks \cup {None}
        /\ p = None => tasks[t].level = 0
        /\ p # None => tasks[p].state # "absent" /\ tasks[t].level = tasks[p].level + 1
    BY <1>2, <1>4 DEF IInv, LevelsCount, Task
  <1>6. calls[r].depth \in Nat /\ tasks[t].level \in Nat
        /\ tasks[runs[r].task].level \in Nat /\ MaxDepth \in Nat
        /\ tasks[runs[r].task].level <= MaxDepth
        /\ (p # None => tasks[p].level \in Nat)
    BY <1>2, <1>4, <1>5, DelegationAssumption DEF IInv, DepthBounded, Task, Call
  <1>7. d \in Nat /\ d <= MaxDepth
        /\ (p = None => d = tasks[runs[r].task].level)
        /\ (p # None => d + tasks[p].level = tasks[runs[r].task].level)
    <2>1. CASE p = None
      BY <1>4, <1>5, <1>6, <2>1
    <2>2. CASE p # None
      BY <1>4, <1>5, <1>6, <2>2
    <2>3. QED
      BY <2>1, <2>2
  <1>8. c \in Call
    <2>1. CASE ~There(t)
      BY <2>1, NoCallTyped DEF Up
    <2>2. CASE There(t)
      BY <1>2, <1>5, <1>7, <2>2 DEF Call, Up
    <2>3. QED
      BY <2>1, <2>2
  <1>9. WalkExact(r)'
    <2>1. calls'[r] = c
      BY <1>2, <1>3
    <2>2. CASE ~There(t)
      BY <2>1, <2>2, IdleIsExact DEF Up
    <2>3. CASE There(t) /\ p = None
      <3>1. c.pc = "creator" /\ c.depth = d
        BY <1>2, <2>3 DEF Call, Up
      <3> HIDE DEF c, d, p
      <3>2. QED
        BY <1>1, <1>3, <1>4, <1>7, <2>1, <2>3, <3>1, DelegationAssumption DEF WalkExact
    <2>4. CASE There(t) /\ p # None
      <3>1. ~(d > MaxDepth + 1)
        BY <1>6, <1>7
      <3>2. c.pc = "walk" /\ c.depth = d /\ c.cursor = p
        BY <1>2, <1>3, <2>4, <3>1 DEF Call, Up
      <3> HIDE DEF c, d
      <3>3. QED
        BY <1>1, <1>3, <1>4, <1>5, <1>7, <2>1, <2>4, <3>2, DelegationAssumption
        DEF WalkExact
    <2>5. QED
      BY <2>2, <2>3, <2>4
  <1>10. QED
    BY <1>1, <1>3, <1>8, <1>9, CallPut DEF taskDepth, IInv, TypeOK

LEMMA CheckKeeps ==
  ASSUME IInv, NEW r \in Runners, Check(r)
  PROVE  IInv'
  <1> DEFINE c == IF runs[r].agent \notin staff \/ calls[r].depth + 1 > MaxDepth
                  THEN NoCall
                  ELSE [calls[r] EXCEPT !.pc = "insert"]
  <1>1. Rooted /\ DepthBounded' /\ LevelsCount' /\ tasks' \in [Tasks -> Task] /\ tasks' = tasks
    BY SameTree DEF Check
  <1>2. calls[r] \in Call /\ calls \in [Runners -> Call] /\ WalkExact(r)
    BY DEF IInv, TypeOK
  <1>3. calls' = [calls EXCEPT ![r] = c] /\ runs' = runs /\ calls[r].pc = "creator"
    BY <1>2 DEF Check
  <1>4. c \in Call
    BY <1>2, NoCallTyped DEF Call
  <1>5. WalkExact(r)'
    <2>1. calls'[r] = c
      BY <1>2, <1>3
    <2>2. CASE c = NoCall
      BY <2>1, <2>2, IdleIsExact
    <2>3. CASE c # NoCall
      <3>1. c = [calls[r] EXCEPT !.pc = "insert"] /\ ~(calls[r].depth + 1 > MaxDepth)
        BY <2>3
      <3>2. c.pc = "insert" /\ c.depth = calls[r].depth
        BY <1>2, <3>1 DEF Call
      <3>3. c.depth + 1 <= MaxDepth
        BY <1>2, <3>1, <3>2, DelegationAssumption DEF Call
      <3> HIDE DEF c
      <3>4. QED
        BY <1>1, <1>2, <1>3, <2>1, <3>2, <3>3 DEF WalkExact
    <2>4. QED
      BY <2>2, <2>3
  <1>6. QED
    BY <1>1, <1>3, <1>4, <1>5, CallPut DEF Check, IInv, TypeOK

LEMMA InsertKeeps ==
  ASSUME IInv, NEW r \in Runners, NEW t \in Tasks, Insert(r, t)
  PROVE  IInv'
  <1> DEFINE c == IF calls[r].assignee = None THEN NoCall
                  ELSE [calls[r] EXCEPT !.pc = "assignee", !.depth = 0, !.child = t]
  <1>1. calls[r] \in Call /\ calls \in [Runners -> Call] /\ runs[r] \in Run
        /\ tasks \in [Tasks -> Task] /\ WalkExact(r)
    BY DEF IInv, TypeOK
  <1>2. calls' = [calls EXCEPT ![r] = c] /\ runs' = runs /\ calls[r].pc = "insert"
        /\ tasks[t].state = "absent" /\ tasks' = [tasks EXCEPT ![t] = Child(r)]
    BY <1>1 DEF Insert, Fresh
  <1>3. /\ runs[r].task \in Tasks
        /\ tasks[runs[r].task].state # "absent"
        /\ tasks[runs[r].task].level \in Nat
        /\ tasks[runs[r].task].level + 1 <= MaxDepth
    BY <1>1, <1>2 DEF WalkExact, Run, Task, IInv, RunsKnown
  <1>4. /\ Child(r) \in Task
        /\ Child(r).state = "there"
        /\ Child(r).parent = runs[r].task
        /\ Child(r).level = tasks[runs[r].task].level + 1
    BY <1>1, <1>3 DEF Child, Call, Task
  <1>5. Rooted /\ DepthBounded' /\ LevelsCount' /\ tasks' \in [Tasks -> Task]
    BY <1>2, <1>3, <1>4, DelegationAssumption, TreeGrows
  <1>6. c \in Call
    BY <1>1, NoCallTyped DEF Call
  <1>7. WalkExact(r)'
    <2>1. calls'[r] = c
      BY <1>1, <1>2
    <2>2. CASE c = NoCall
      BY <2>1, <2>2, IdleIsExact
    <2>3. CASE c # NoCall
      <3>1. c.pc = "assignee" /\ c.child = t
        BY <1>1, <2>3 DEF Call
      <3>2. t # None /\ tasks'[t].state = "there"
        BY <1>1, <1>2, <1>4, DelegationAssumption
      <3> HIDE DEF c
      <3>3. runs'[r].task # None
        BY <1>2, <1>3, DelegationAssumption
      <3>4. QED
        BY <2>1, <3>1, <3>2, <3>3 DEF WalkExact
    <2>4. QED
      BY <2>2, <2>3
  <1>8. QED
    BY <1>2, <1>5, <1>6, <1>7, CallPut DEF Insert, IInv, TypeOK

LEMMA GetAssigneeKeeps ==
  ASSUME IInv, NEW r \in Runners, GetAssignee(r)
  PROVE  IInv'
  <1> DEFINE c == IF calls[r].assignee \in staff THEN [calls[r] EXCEPT !.pc = "status"]
                  ELSE NoCall
  <1>1. Rooted /\ DepthBounded' /\ LevelsCount' /\ tasks' \in [Tasks -> Task] /\ tasks' = tasks
    BY SameTree DEF GetAssignee
  <1>2. calls[r] \in Call /\ calls \in [Runners -> Call] /\ WalkExact(r)
    BY DEF IInv, TypeOK
  <1>3. calls' = [calls EXCEPT ![r] = c] /\ runs' = runs /\ calls[r].pc = "assignee"
    BY <1>2 DEF GetAssignee
  <1>4. c \in Call
    BY <1>2, NoCallTyped DEF Call
  <1>5. WalkExact(r)'
    <2>1. calls'[r] = c
      BY <1>2, <1>3
    <2>2. CASE c = NoCall
      BY <2>1, <2>2, IdleIsExact
    <2>3. CASE c # NoCall
      <3>1. c.pc = "status" /\ c.child = calls[r].child
        BY <1>2, <2>3 DEF Call
      <3> HIDE DEF c
      <3>2. QED
        BY <1>1, <1>2, <1>3, <2>1, <3>1 DEF WalkExact
    <2>4. QED
      BY <2>2, <2>3
  <1>6. QED
    BY <1>1, <1>3, <1>4, <1>5, CallPut DEF GetAssignee, IInv, TypeOK

LEMMA SetStatusKeeps ==
  ASSUME IInv, NEW r \in Runners, SetStatus(r)
  PROVE  IInv'
  <1> DEFINE t == calls[r].child
             row == IF There(t) THEN [tasks[t] EXCEPT !.status = "planning"] ELSE tasks[t]
             c == [calls[r] EXCEPT !.pc = "job"]
  <1>1. calls[r] \in Call /\ calls \in [Runners -> Call] /\ tasks \in [Tasks -> Task]
        /\ WalkExact(r)
    BY DEF IInv, TypeOK
  <1>2. calls' = [calls EXCEPT ![r] = c] /\ runs' = runs /\ calls[r].pc = "status"
    BY DEF SetStatus
  <1>3. t \in Tasks /\ tasks[t].state # "absent"
    BY <1>1, <1>2 DEF WalkExact, Call
  <1>4. row \in Task /\ row.parent = tasks[t].parent /\ row.level = tasks[t].level
        /\ row.state = tasks[t].state
    BY <1>1, <1>3 DEF Task
  <1>5. tasks' = [tasks EXCEPT ![t] = row]
    BY <1>1, <1>3 DEF SetStatus
  <1>6. Rooted /\ DepthBounded' /\ LevelsCount' /\ tasks' \in [Tasks -> Task]
    <2> HIDE DEF row, t
    <2>1. QED
      BY <1>3, <1>4, <1>5, RowSame
  <1>7. c \in Call /\ c.pc = "job" /\ c.child = t
    BY <1>1 DEF Call
  <1>8. WalkExact(r)'
    <2>1. calls'[r] = c
      BY <1>1, <1>2
    <2> HIDE DEF c, row
    <2>2. QED
      BY <1>1, <1>2, <1>3, <1>6, <1>7, <2>1 DEF WalkExact, Rooted
  <1>9. QED
    BY <1>2, <1>6, <1>7, <1>8, CallPut DEF SetStatus, IInv, TypeOK

LEMMA CreateJobKeeps ==
  ASSUME IInv, NEW r \in Runners, CreateJob(r)
  PROVE  IInv'
  <1> DEFINE t == calls[r].child
             row == IF There(t) THEN [tasks[t] EXCEPT !.started = TRUE] ELSE tasks[t]
  <1>1. calls[r] \in Call /\ calls \in [Runners -> Call] /\ tasks \in [Tasks -> Task]
        /\ WalkExact(r)
    BY DEF IInv, TypeOK
  <1>2. calls' = [calls EXCEPT ![r] = NoCall] /\ calls[r].pc = "job"
    BY DEF CreateJob
  <1>3. t \in Tasks /\ tasks[t].state # "absent"
    BY <1>1, <1>2 DEF WalkExact, Call
  <1>4. row \in Task /\ row.parent = tasks[t].parent /\ row.level = tasks[t].level
        /\ row.state = tasks[t].state
    BY <1>1, <1>3 DEF Task
  <1>5. tasks' = [tasks EXCEPT ![t] = row]
    BY <1>1, <1>3 DEF CreateJob
  <1>6. Rooted /\ DepthBounded' /\ LevelsCount' /\ tasks' \in [Tasks -> Task]
    <2> HIDE DEF row, t
    <2>1. QED
      BY <1>3, <1>4, <1>5, RowSame
  <1>7. WalkExact(r)'
    BY <1>1, <1>2, IdleIsExact
  <1>8. QED
    BY <1>2, <1>6, <1>7, NoCallTyped, CallPut DEF CreateJob, IInv, TypeOK

LEMMA CutOffKeeps ==
  ASSUME IInv, NEW r \in Runners, CutOff(r)
  PROVE  IInv'
  <1>1. Rooted /\ DepthBounded' /\ LevelsCount' /\ tasks' \in [Tasks -> Task]
    BY SameTree DEF CutOff
  <1>2. calls' = [calls EXCEPT ![r] = NoCall] /\ calls \in [Runners -> Call]
    BY DEF CutOff, IInv, TypeOK
  <1>3. WalkExact(r)'
    BY <1>2, IdleIsExact
  <1>4. QED
    BY <1>1, <1>2, <1>3, NoCallTyped, CallPut DEF CutOff

LEMMA DeleteAgentKeeps ==
  ASSUME IInv, NEW a \in staff, DeleteAgent(a)
  PROVE  IInv'
  <1>1. Rooted /\ DepthBounded' /\ LevelsCount' /\ tasks' \in [Tasks -> Task]
    BY SameTree DEF DeleteAgent
  <1>2. \A r \in Runners : WalkExact(r)'
    BY <1>1, WalkStays DEF DeleteAgent
  <1>3. TypeOK'
    BY DEF DeleteAgent, IInv, TypeOK
  <1>4. QED
    BY <1>1, <1>2, <1>3, RunsStay DEF DeleteAgent, IInv

LEMMA StutterKeeps ==
  ASSUME IInv, UNCHANGED vars
  PROVE  IInv'
  BY SameTree, RowsChange DEF vars

-----------------------------------------------------------------------------
(* The theorems.                                                           *)

\* The tree, the walks and what they have counted: the inductive invariant holds
\* for any number of tasks, agents and engines.
THEOREM DelegationInvariant == Spec => []IInv
  <1>1. ASSUME IInv, Next PROVE IInv'
    <2>1. CASE \E t \in Tasks : \E a \in staff \cup {None} : CreateTask(t, a)
      BY <1>1, <2>1, CreateKeeps
    <2>2. CASE \E t \in Tasks : \E a \in staff : AssignTask(t, a)
      BY <1>1, <2>2, RowStepKeeps
    <2>3. CASE \E t \in Tasks : Approve(t) \/ FailTask(t) \/ DeleteTask(t)
      BY <1>1, <2>3, RowStepKeeps
    <2>4. CASE \E a \in staff : DeleteAgent(a)
      BY <1>1, <2>4, DeleteAgentKeeps
    <2>5. CASE \E r \in Runners : \E t \in Tasks : Bundle(r, t)
      BY <1>1, <2>5, BundleKeeps
    <2>6. ASSUME NEW r \in Runners, Leave(r) \/ Delegate(r) \/ CutOff(r) PROVE IInv'
      BY <1>1, <2>6, LeaveKeeps, DelegateKeeps, CutOffKeeps
    <2>7. ASSUME NEW r \in Runners, Handle(r) PROVE IInv'
      BY <1>1, <2>7, DepthKeeps, CheckKeeps, InsertKeeps, GetAssigneeKeeps, SetStatusKeeps,
         CreateJobKeeps DEF Handle
    <2>8. QED
      BY <1>1, <2>1, <2>2, <2>3, <2>4, <2>5, <2>6, <2>7 DEF Next
  <1>2. IInv /\ [Next]_vars => IInv'
    BY <1>1, StutterKeeps
  <1>3. QED
    BY <1>2, InitIInv, PTL DEF Spec

\* "delegation depth is capped to prevent runaway chains": no task is further than
\* maxDelegationDepth delegations away from the task of a human, although the walk
\* that counts them takes many statements and tasks are deleted meanwhile.
THEOREM DepthIsBounded == Spec => []DepthBounded
  <1>1. IInv => DepthBounded
    BY DEF IInv
  <1>2. QED
    BY <1>1, DelegationInvariant, PTL

-----------------------------------------------------------------------------
(* From the levels to the chains.                                          *)

Less == {ss \in Nat \X Nat : ss[1] < ss[2]}

LEMMA LessWellFounded == IsWellFoundedOn(Less, Nat)
  BY NatLessThanWellFounded, Zenon DEF OpToRel, Less

LEMMA Smallest ==
  ASSUME NEW T, T \subseteq Nat, T # {}
  PROVE  \E n \in T : \A m \in T : n <= m
  <1>1. PICK n \in T : \A m \in T : <<m, n>> \notin Less
    BY LessWellFounded, WFMin
  <1>2. \A m \in T : ~(m < n)
    BY <1>1 DEF Less
  <1>3. QED
    BY <1>2

\* Down a chain of tasks the levels rise: the first place where they did not would
\* follow one where they did.
LEMMA LevelsRise ==
  ASSUME IInv, NEW N \in Nat, NEW c \in [0..N -> Tasks],
         \A i \in 1..N : tasks[c[i]].parent = c[i - 1]
  PROVE  \A i \in 0..N : i <= tasks[c[i]].level
  <1> DEFINE Behind == {i \in 0..N : tasks[c[i]].level < i}
  <1>1. \A i \in 0..N : c[i] \in Tasks /\ tasks[c[i]].level \in Nat
    BY DEF IInv, TypeOK, Task
  <1>2. ASSUME NEW i \in 1..N
        PROVE  tasks[c[i]].level = tasks[c[i - 1]].level + 1
    <2>1. tasks[c[i]].parent = c[i - 1] /\ i \in 0..N /\ i - 1 \in 0..N
      OBVIOUS
    <2>2. c[i - 1] # None
      BY <1>1, <2>1, DelegationAssumption
    <2>3. QED
      BY <1>1, <2>1, <2>2 DEF IInv, LevelsCount
  <1>3. ASSUME NEW i \in Behind, \A m \in Behind : i <= m
        PROVE  FALSE
    <2>1. i \in 0..N /\ tasks[c[i]].level < i
      OBVIOUS
    <2>2. i # 0
      BY <1>1, <2>1
    <2>3. i - 1 \in 0..N /\ i \in 1..N /\ ~(i <= i - 1)
      BY <2>1, <2>2
    <2>4. i - 1 \notin Behind
      BY <1>3, <2>3
    <2>5. i - 1 <= tasks[c[i - 1]].level
      BY <1>1, <2>3, <2>4
    <2>6. QED
      BY <1>1, <1>2, <2>1, <2>3, <2>5
  <1>4. Behind \subseteq Nat
    OBVIOUS
  <1> HIDE DEF Behind
  <1>5. Behind = {}
    BY <1>3, <1>4, Smallest
  <1>6. QED
    BY <1>1, <1>5 DEF Behind

\* The same of the rows themselves, without the recorded levels: no chain of tasks,
\* each opened while its parent executed, is longer than maxDelegationDepth.
THEOREM NoRunawayChain == Spec => []NoLongChain
  <1>1. ASSUME IInv PROVE NoLongChain
    <2> SUFFICES ASSUME NEW c \in [0..MaxDepth + 1 -> Tasks],
                        \A i \in 1..MaxDepth + 1 : tasks[c[i]].parent = c[i - 1]
                 PROVE  FALSE
      BY DEF NoLongChain
    <2>1. MaxDepth + 1 \in Nat /\ MaxDepth + 1 \in 0..MaxDepth + 1 /\ MaxDepth \in Nat
      BY DelegationAssumption
    <2>2. \A i \in 0..MaxDepth + 1 : i <= tasks[c[i]].level
      BY <1>1, <2>1, LevelsRise
    <2>3. MaxDepth + 1 <= tasks[c[MaxDepth + 1]].level
      BY <2>1, <2>2
    <2>4. c[MaxDepth + 1] \in Tasks
      BY <2>1
    <2>5. tasks[c[MaxDepth + 1]].level \in Nat /\ tasks[c[MaxDepth + 1]].level <= MaxDepth
      BY <1>1, <2>4 DEF IInv, TypeOK, Task, DepthBounded
    <2>6. QED
      BY <2>1, <2>3, <2>5
  <1>2. QED
    BY <1>1, DelegationInvariant, PTL

=============================================================================
