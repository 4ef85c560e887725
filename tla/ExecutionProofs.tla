--------------------------- MODULE ExecutionProofs ---------------------------
(* Proofs about Execution for every number of steps and attempts: what a     *)
(* plan, a task, an event, a handler or a run claims to be finished was      *)
(* finished by some run.                                                     *)
EXTENDS Execution, TLAPS

\* Nothing is done that was finished before and is not any more.
Grows == finished \subseteq finished' /\ finished' \subseteq Steps

-----------------------------------------------------------------------------
(* Values.                                                                 *)

LEMMA NoneIsNoRow == None \notin Row /\ None \notin Outcomes
  BY ExecutionAssumption DEF Row, StepStatus, Steps, Outcomes

\* A run that is over claims nothing.
LEMMA OverIsHonest == Over \in Run /\ RunHonest(Over)
  <1>1. 0 \in 0..StepCount
    BY ExecutionAssumption
  <1>2. Over \in Run
    BY <1>1 DEF Over, Bare, Run
  <1>3. RunHonest(Over)
    BY NoneIsNoRow DEF Over, Bare, RunHonest, Outcomes
  <1>4. QED
    BY <1>2, <1>3

LEMMA OverIsHonestNext == RunHonest(Over)'
  BY NoneIsNoRow DEF Over, Bare, RunHonest, Outcomes

LEMMA IdleIsHonest == NoReport \in Report /\ ReportHonest(NoReport) /\ ReportHonest(NoReport)'
  BY DEF NoReport, Report, ReportHonest, Outcomes

\* A handler that starts is honest if the outcome it reports is.
LEMMA BegunIsHonest ==
  ASSUME NEW o \in Outcomes, o = "success" => finished' = Steps
  PROVE  Begun(o) \in Report /\ ReportHonest(Begun(o))'
  BY DEF Begun, Report, ReportHonest

\* More finished steps make nothing dishonest.
LEMMA HonestGrows ==
  ASSUME Grows
  PROVE  /\ \A row \in Row : Honest(row) => Honest(row)'
         /\ \A e \in Event : EventHonest(e) => EventHonest(e)'
         /\ \A r \in Run : RunHonest(r) => RunHonest(r)'
         /\ \A h \in Report : ReportHonest(h) => ReportHonest(h)'
  <1>1. finished = Steps => finished' = Steps
    BY DEF Grows
  <1>2. ASSUME NEW row, Honest(row) PROVE Honest(row)'
    BY <1>1, <1>2 DEF Grows, Honest
  <1>3. ASSUME NEW e \in Event, EventHonest(e) PROVE EventHonest(e)'
    <2>1. e.row # None => Honest(e.row)'
      BY <1>2, <1>3 DEF EventHonest
    <2>2. QED
      BY <1>3, <2>1 DEF EventHonest, Grows
  <1>4. ASSUME NEW r \in Run, RunHonest(r) PROVE RunHonest(r)'
    BY <1>1, <1>4 DEF RunHonest, Grows
  <1>5. ASSUME NEW h \in Report, ReportHonest(h) PROVE ReportHonest(h)'
    <2>1. h.row # None => Honest(h.row)'
      BY <1>2, <1>5 DEF ReportHonest
    <2>2. QED
      BY <1>1, <1>5, <2>1 DEF ReportHonest
  <1>6. QED
    BY <1>2, <1>3, <1>4, <1>5

-----------------------------------------------------------------------------
(* The variables an action may change, one at a time.                      *)

LEMMA RunsKept ==
  ASSUME IInv, Grows, UNCHANGED runs
  PROVE  runs' \in [Runs -> Run] /\ RunsHonest'
  <1>1. \A k \in Runs : runs[k] \in Run /\ RunHonest(runs[k])'
    BY HonestGrows DEF IInv, TypeOK, RunsHonest
  <1>2. QED
    BY <1>1 DEF IInv, TypeOK, RunsHonest

LEMMA RunPut ==
  ASSUME IInv, Grows, NEW k \in Runs, NEW r \in Run, RunHonest(r)',
         runs' = [runs EXCEPT ![k] = r]
  PROVE  runs' \in [Runs -> Run] /\ RunsHonest'
  <1>1. \A i \in Runs : runs[i] \in Run /\ RunHonest(runs[i])
    BY DEF IInv, TypeOK, RunsHonest
  <1>2. runs' = [i \in Runs |-> IF i = k THEN r ELSE runs[i]]
    BY DEF IInv, TypeOK
  <1>3. QED
    BY <1>1, <1>2, HonestGrows DEF RunsHonest

LEMMA EventsKept ==
  ASSUME IInv, Grows, UNCHANGED events
  PROVE  events' \in [Runs -> Event] /\ EventsHonest'
  <1>1. \A k \in Runs : events[k] \in Event /\ EventHonest(events[k])
    BY DEF IInv, TypeOK, EventsHonest
  <1>2. QED
    BY <1>1, HonestGrows DEF IInv, TypeOK, EventsHonest

LEMMA EventPut ==
  ASSUME IInv, Grows, NEW k \in Runs, NEW e \in Event, EventHonest(e)',
         events' = [events EXCEPT ![k] = e]
  PROVE  events' \in [Runs -> Event] /\ EventsHonest'
  <1>1. \A i \in Runs : events[i] \in Event /\ EventHonest(events[i])
    BY DEF IInv, TypeOK, EventsHonest
  <1>2. events' = [i \in Runs |-> IF i = k THEN e ELSE events[i]]
    BY DEF IInv, TypeOK
  <1>3. QED
    BY <1>1, <1>2, HonestGrows DEF EventsHonest

\* An event that is sent says done only of a finished step.
LEMMA EventSent ==
  ASSUME IInv, Grows, NEW k \in Runs, NEW i \in Steps, NEW s \in StepStatus,
         s = "done" => i \in finished', Send(k, i, s)
  PROVE  events' \in [Runs -> Event] /\ EventsHonest'
  <1> DEFINE e == [step |-> i, status |-> s, row |-> None]
  <1>1. i \in 0..StepCount
    BY ExecutionAssumption DEF Steps
  <1>2. e \in Event /\ EventHonest(e)'
    BY <1>1 DEF Event, EventHonest
  <1>3. events' = [events EXCEPT ![k] = e]
    BY DEF Send
  <1>4. QED
    BY <1>2, <1>3, EventPut

LEMMA QuietIsHonest == NoEvent \in Event /\ EventHonest(NoEvent)'
  <1>1. 0 \in 0..StepCount
    BY ExecutionAssumption
  <1>2. QED
    BY <1>1 DEF NoEvent, Event, EventHonest, StepStatus

LEMMA ReportsKept ==
  ASSUME IInv, Grows, UNCHANGED reports
  PROVE  reports' \in [Reporters -> Report] /\ ReportsHonest'
  <1>1. \A h \in Reporters : reports[h] \in Report /\ ReportHonest(reports[h])
    BY DEF IInv, TypeOK, ReportsHonest
  <1>2. QED
    BY <1>1, HonestGrows DEF IInv, TypeOK, ReportsHonest

LEMMA ReportPut ==
  ASSUME IInv, Grows, NEW h \in Reporters, NEW x \in Report, ReportHonest(x)',
         reports' = [reports EXCEPT ![h] = x]
  PROVE  reports' \in [Reporters -> Report] /\ ReportsHonest'
  <1>1. \A i \in Reporters : reports[i] \in Report /\ ReportHonest(reports[i])
    BY DEF IInv, TypeOK, ReportsHonest
  <1>2. reports' = [i \in Reporters |-> IF i = h THEN x ELSE reports[i]]
    BY DEF IInv, TypeOK
  <1>3. QED
    BY <1>1, <1>2, HonestGrows DEF ReportsHonest

\* A handler that goes on stays honest, if it has a row to write when it is to
\* write one.
LEMMA OnwardIsHonest ==
  ASSUME IInv, UNCHANGED finished, NEW h \in Reporters,
         NEW pc \in {"idle", "finish", "task", "read", "write"}, NEW row \in Row \cup {None},
         row # None => Honest(row), pc = "write" => row # None,
         reports[h].pc # "idle", Onward(h, pc, row)
  PROVE  reports' \in [Reporters -> Report] /\ ReportsHonest'
  <1>1. Grows
    BY DEF Grows, IInv, TypeOK
  <1>2. reports[h] \in Report /\ ReportHonest(reports[h])
    BY DEF IInv, TypeOK, ReportsHonest
  <1>3. CASE pc = "idle"
    <2>1. reports' = [reports EXCEPT ![h] = NoReport]
      BY <1>3 DEF Onward
    <2>2. QED
      BY <1>1, <2>1, IdleIsHonest, ReportPut
  <1>4. CASE pc # "idle"
    <2>1. PICK o \in Outcomes : o = reports[h].outcome
      BY <1>2 DEF Report
    <2> DEFINE x == [pc |-> pc, outcome |-> o, row |-> row]
    <2>2. reports' = [reports EXCEPT ![h] = x]
      BY <1>2, <1>4, <2>1 DEF Onward, Report
    <2>3. x \in Report
      BY DEF Report
    <2>4. o = "success" => finished' = Steps
      BY <1>2, <2>1 DEF ReportHonest
    <2>5. row # None => Honest(row)'
      BY DEF Honest
    <2>6. ReportHonest(x)'
      BY <2>4, <2>5 DEF ReportHonest
    <2>7. QED
      BY <1>1, <2>2, <2>3, <2>6, ReportPut
  <1>5. QED
    BY <1>3, <1>4

-----------------------------------------------------------------------------
(* The engine.                                                             *)

\* What the actions of the engine leave alone.
LEMMA EngineFrame ==
  ASSUME IInv, UNCHANGED <<plan, task, swept, mishap>>, Grows
  PROVE  /\ plan' \in Row /\ Honest(plan)'
         /\ task' \in {"executing", "done", "failed"} /\ swept' \in BOOLEAN /\ mishap' \in BOOLEAN
         /\ finished' \subseteq Steps
         /\ (task = "done" => finished = Steps)'
  <1>1. plan \in Row /\ Honest(plan)
    BY DEF IInv, TypeOK
  <1>2. PICK row \in Row : row = plan
    BY <1>1
  <1>3. Honest(row)'
    BY <1>1, <1>2, HonestGrows
  <1>4. Honest(plan)'
    BY <1>2, <1>3 DEF Honest
  <1>5. QED
    BY <1>1, <1>4 DEF IInv, TypeOK, Grows

LEMMA GrowsSame ==
  ASSUME IInv, UNCHANGED finished
  PROVE  Grows
  BY DEF IInv, TypeOK, Grows

LEMMA ClaimKeeps ==
  ASSUME IInv, NEW k \in Runs, NEW by \in Kinds[k], Claim(k, by)
  PROVE  IInv'
  <1>1. Grows
    BY GrowsSame DEF Claim
  <1>2. by \in {"remote", "embedded"} /\ k \in 0..MaxAttempts
    BY ExecutionAssumption DEF Runs
  <1>3. 0 \in 0..StepCount
    BY ExecutionAssumption
  <1>4. Bare("bundle", by, None) \in Run
    BY <1>2, <1>3 DEF Bare, Run
  <1>5. RunHonest(Bare("bundle", by, None))'
    BY NoneIsNoRow DEF Bare, RunHonest, Outcomes
  <1>6. runs' \in [Runs -> Run] /\ RunsHonest'
    BY <1>1, <1>4, <1>5, RunPut DEF Claim
  <1>7. job' \in [status : {"queued", "running", "done", "failed"}, attempts : 0..MaxAttempts]
    BY <1>2 DEF Claim
  <1>8. QED
    BY <1>1, <1>6, <1>7, EngineFrame, EventsKept, ReportsKept DEF Claim, IInv, TypeOK

LEMMA BuildBundleKeeps ==
  ASSUME IInv, NEW k \in Runs, BuildBundle(k)
  PROVE  IInv'
  <1>1. Grows
    BY GrowsSame DEF BuildBundle
  <1>2. runs[k] \in Run /\ RunHonest(runs[k]) /\ runs[k].pc = "bundle"
    BY DEF IInv, TypeOK, RunsHonest, BuildBundle
  <1>3. Unfinished \subseteq Steps /\ Steps \subseteq finished \cup Unfinished
    BY DEF Unfinished, IInv, Honest
  <1>4. PICK u \in SUBSET Steps : u = Unfinished
    BY <1>3
  <1>5. PICK r : r = [runs[k] EXCEPT !.pc = "step", !.todo = u]
    OBVIOUS
  <1>6. r \in Run /\ RunHonest(r)
    BY <1>2, <1>3, <1>4, <1>5 DEF Run, RunHonest
  <1>7. RunHonest(r)'
    BY <1>1, <1>6, HonestGrows
  <1>8. runs' = [runs EXCEPT ![k] = r]
    BY <1>2, <1>4, <1>5 DEF BuildBundle, Run, IInv, TypeOK
  <1>9. runs' \in [Runs -> Run] /\ RunsHonest'
    BY <1>1, <1>6, <1>7, <1>8, RunPut
  <1>10. QED
    BY <1>1, <1>9, EngineFrame, EventsKept, ReportsKept DEF BuildBundle, IInv, TypeOK

\* A run returns what it may: success only when all is finished.
LEMMA ResultIsHonest ==
  ASSUME IInv, Grows, NEW k \in Runs, NEW o \in Outcomes,
         o = "success" => finished' = Steps, Result(k, o)
  PROVE  runs' \in [Runs -> Run] /\ RunsHonest'
  <1>1. runs[k] \in Run
    BY DEF IInv, TypeOK
  <1>2. PICK b \in {"remote", "embedded"} : b = runs[k].by
    BY <1>1 DEF Run
  <1>3. 0 \in 0..StepCount
    BY ExecutionAssumption
  <1>4. Bare("report", b, o) \in Run
    BY <1>3 DEF Bare, Run
  <1>5. RunHonest(Bare("report", b, o))'
    BY NoneIsNoRow DEF Bare, RunHonest
  <1>6. runs' = [runs EXCEPT ![k] = Bare("report", b, o)]
    BY <1>2 DEF Result
  <1>7. QED
    BY <1>4, <1>5, <1>6, RunPut

LEMMA ClientFailsKeeps ==
  ASSUME IInv, NEW k \in Runs, ClientFails(k)
  PROVE  IInv'
  <1>1. Grows
    BY GrowsSame DEF ClientFails
  <1>2. runs' \in [Runs -> Run] /\ RunsHonest'
    BY <1>1, ResultIsHonest DEF ClientFails, Outcomes
  <1>3. QED
    BY <1>1, <1>2, EngineFrame, EventsKept, ReportsKept DEF ClientFails, IInv, TypeOK

LEMMA BundleFailsKeeps ==
  ASSUME IInv, NEW k \in Runs, BundleFails(k)
  PROVE  IInv'
  <1>1. Grows
    BY GrowsSame DEF BundleFails
  <1>2. runs' \in [Runs -> Run] /\ RunsHonest'
    BY <1>1, OverIsHonest, OverIsHonestNext, RunPut DEF BundleFails
  <1>3. k \in Reporters
    BY ExecutionAssumption DEF Runs, Reporters
  <1>4. Begun("error") \in Report /\ ReportHonest(Begun("error"))'
    BY BegunIsHonest DEF Outcomes
  <1>5. reports' \in [Reporters -> Report] /\ ReportsHonest'
    BY <1>1, <1>3, <1>4, ReportPut DEF BundleFails
  <1>6. QED
    BY <1>1, <1>2, <1>5, EngineFrame, EventsKept DEF BundleFails, IInv, TypeOK

LEMMA StartStepKeeps ==
  ASSUME IInv, NEW k \in Runs, StartStep(k)
  PROVE  IInv'
  <1>1. Grows
    BY GrowsSame DEF StartStep
  <1>2. runs[k] \in Run /\ RunHonest(runs[k]) /\ runs[k].pc = "step"
    BY DEF IInv, TypeOK, RunsHonest, StartStep
  <1>3. PICK i \in runs[k].todo :
          /\ runs' = [runs EXCEPT ![k].pc = "ask", ![k].todo = @ \ {i}, ![k].at = i]
          /\ Send(k, i, "running")
    BY DEF StartStep
  <1>4. i \in Steps /\ i \in 0..StepCount
    BY <1>2, <1>3, ExecutionAssumption DEF Run, Steps
  <1>5. PICK r : r = [runs[k] EXCEPT !.pc = "ask", !.todo = runs[k].todo \ {i}, !.at = i]
    OBVIOUS
  <1>6. r \in Run
    BY <1>2, <1>4, <1>5 DEF Run
  <1>7. RunHonest(r)
    <2>1. r.pc = "ask" /\ r.at = i /\ r.todo = runs[k].todo \ {i} /\ r.failed = runs[k].failed
          /\ r.outcome = runs[k].outcome
      BY <1>2, <1>5 DEF Run
    <2>2. ~r.failed => Steps \subseteq finished \cup r.todo \cup {r.at}
      <3>1. 0 \notin Steps
        BY DEF Steps
      <3>2. SUFFICES ASSUME ~runs[k].failed, NEW j \in Steps
                     PROVE  j \in finished \cup r.todo \cup {i}
        BY <2>1
      <3>3. j \in finished \cup runs[k].todo \cup {runs[k].at}
        BY <1>2, <3>2 DEF RunHonest
      <3>4. runs[k].at = 0
        BY <1>2 DEF RunHonest
      <3>5. QED
        BY <2>1, <3>1, <3>3, <3>4
    <2>3. QED
      BY <1>2, <1>4, <2>1, <2>2 DEF RunHonest, Steps
  <1>8. RunHonest(r)'
    BY <1>1, <1>6, <1>7, HonestGrows
  <1>9. runs' = [runs EXCEPT ![k] = r]
    BY <1>2, <1>3, <1>5 DEF Run, IInv, TypeOK
  <1>10. runs' \in [Runs -> Run] /\ RunsHonest'
    BY <1>1, <1>6, <1>8, <1>9, RunPut
  <1>11. events' \in [Runs -> Event] /\ EventsHonest'
    BY <1>1, <1>3, <1>4, EventSent DEF StepStatus
  <1>12. QED
    BY <1>1, <1>10, <1>11, EngineFrame, ReportsKept DEF StartStep, IInv, TypeOK

LEMMA StepDoneKeeps ==
  ASSUME IInv, NEW k \in Runs, StepDone(k)
  PROVE  IInv'
  <1>1. runs[k] \in Run /\ RunHonest(runs[k]) /\ runs[k].pc = "ask"
    BY DEF IInv, TypeOK, RunsHonest, StepDone
  <1>2. PICK i \in Steps : i = runs[k].at
    BY <1>1, ExecutionAssumption DEF Run, RunHonest, Steps
  <1>3. finished' = finished \cup {i}
    BY <1>2 DEF StepDone
  <1>4. Grows
    BY <1>3 DEF Grows, IInv, TypeOK
  <1>5. PICK r : r = [runs[k] EXCEPT !.pc = "step", !.at = 0]
    OBVIOUS
  <1>6. 0 \in 0..StepCount
    BY ExecutionAssumption
  <1>7. r \in Run /\ r.pc = "step" /\ r.at = 0 /\ r.todo = runs[k].todo
        /\ r.failed = runs[k].failed /\ r.outcome = runs[k].outcome
    BY <1>1, <1>5, <1>6 DEF Run
  <1>8. ~r.failed => Steps \subseteq finished' \cup r.todo
    BY <1>1, <1>2, <1>3, <1>7 DEF RunHonest
  <1>9. r.outcome = "success" => finished' = Steps
    BY <1>1, <1>4, <1>7 DEF RunHonest, Grows
  <1>10. RunHonest(r)'
    BY <1>7, <1>8, <1>9 DEF RunHonest
  <1>11. runs' = [runs EXCEPT ![k] = r]
    BY <1>1, <1>5 DEF StepDone, Run, IInv, TypeOK
  <1>12. runs' \in [Runs -> Run] /\ RunsHonest'
    BY <1>4, <1>7, <1>10, <1>11, RunPut
  <1>13. Send(k, i, "done")
    BY <1>2 DEF StepDone
  <1>14. events' \in [Runs -> Event] /\ EventsHonest'
    BY <1>3, <1>4, <1>13, EventSent DEF StepStatus
  <1>15. QED
    BY <1>4, <1>12, <1>14, EngineFrame, ReportsKept DEF StepDone, IInv, TypeOK

LEMMA StepFailedKeeps ==
  ASSUME IInv, NEW k \in Runs, StepFailed(k)
  PROVE  IInv'
  <1>1. Grows
    BY GrowsSame DEF StepFailed
  <1>2. runs[k] \in Run /\ RunHonest(runs[k]) /\ runs[k].pc = "ask"
    BY DEF IInv, TypeOK, RunsHonest, StepFailed
  <1>3. PICK i \in Steps : i = runs[k].at
    BY <1>2, ExecutionAssumption DEF Run, RunHonest, Steps
  <1>4. PICK r : r = [runs[k] EXCEPT !.pc = "step", !.at = 0, !.failed = TRUE]
    OBVIOUS
  <1>5. 0 \in 0..StepCount
    BY ExecutionAssumption
  <1>6. r \in Run /\ RunHonest(r)
    BY <1>2, <1>4, <1>5 DEF Run, RunHonest
  <1>7. RunHonest(r)'
    BY <1>1, <1>6, HonestGrows
  <1>8. runs' = [runs EXCEPT ![k] = r]
    BY <1>2, <1>4 DEF StepFailed, Run, IInv, TypeOK
  <1>9. runs' \in [Runs -> Run] /\ RunsHonest'
    BY <1>1, <1>6, <1>7, <1>8, RunPut
  <1>10. Send(k, i, "failed")
    BY <1>3 DEF StepFailed
  <1>11. events' \in [Runs -> Event] /\ EventsHonest'
    BY <1>1, <1>10, EventSent DEF StepStatus
  <1>12. QED
    BY <1>1, <1>9, <1>11, EngineFrame, ReportsKept DEF StepFailed, IInv, TypeOK

LEMMA StepErrorKeeps ==
  ASSUME IInv, NEW k \in Runs, StepError(k)
  PROVE  IInv'
  <1>1. Grows
    BY GrowsSame DEF StepError
  <1>2. runs[k] \in Run /\ RunHonest(runs[k]) /\ runs[k].pc = "ask"
    BY DEF IInv, TypeOK, RunsHonest, StepError
  <1>3. PICK i \in Steps : i = runs[k].at
    BY <1>2, ExecutionAssumption DEF Run, RunHonest, Steps
  <1>4. runs' \in [Runs -> Run] /\ RunsHonest'
    BY <1>1, ResultIsHonest DEF StepError, Outcomes
  <1>5. Send(k, i, "failed")
    BY <1>3 DEF StepError
  <1>6. events' \in [Runs -> Event] /\ EventsHonest'
    BY <1>1, <1>5, EventSent DEF StepStatus
  <1>7. QED
    BY <1>1, <1>4, <1>6, EngineFrame, ReportsKept DEF StepError, IInv, TypeOK

LEMMA WrapUpKeeps ==
  ASSUME IInv, NEW k \in Runs, WrapUp(k)
  PROVE  IInv'
  <1>1. Grows
    BY GrowsSame DEF WrapUp
  <1>2. runs[k] \in Run /\ RunHonest(runs[k]) /\ runs[k].pc = "step" /\ runs[k].todo = {}
    BY DEF IInv, TypeOK, RunsHonest, WrapUp
  <1>3. PICK o \in Outcomes : (o = "success" => ~runs[k].failed) /\ Result(k, o)
    BY DEF WrapUp
  <1>4. o = "success" => finished' = Steps
    <2>1. runs[k].at = 0 /\ 0 \notin Steps
      BY <1>2 DEF RunHonest, Steps
    <2>2. ~runs[k].failed => Steps \subseteq finished
      BY <1>2, <2>1 DEF RunHonest
    <2>3. QED
      BY <1>3, <2>2 DEF WrapUp, IInv, TypeOK
  <1>5. runs' \in [Runs -> Run] /\ RunsHonest'
    BY <1>1, <1>3, <1>4, ResultIsHonest
  <1>6. QED
    BY <1>1, <1>5, EngineFrame, EventsKept, ReportsKept DEF WrapUp, IInv, TypeOK

LEMMA CompleteKeeps ==
  ASSUME IInv, NEW k \in Runs, Complete(k)
  PROVE  IInv'
  <1>1. Grows
    BY GrowsSame DEF Complete
  <1>2. runs[k] \in Run /\ RunHonest(runs[k]) /\ runs[k].pc = "report"
    BY DEF IInv, TypeOK, RunsHonest, Complete
  <1>3. PICK o \in Outcomes : o = runs[k].outcome
    BY <1>2 DEF Run, RunHonest
  <1>4. o = "success" => finished' = Steps
    BY <1>2, <1>3 DEF RunHonest, Complete
  <1>5. k \in Reporters
    BY ExecutionAssumption DEF Runs, Reporters
  <1>6. Begun(o) \in Report /\ ReportHonest(Begun(o))'
    BY <1>4, BegunIsHonest
  <1>7. reports' \in [Reporters -> Report] /\ ReportsHonest'
    BY <1>1, <1>3, <1>5, <1>6, ReportPut DEF Complete
  <1>8. PICK r \in Run : r = IF runs[k].by = "embedded" THEN Over ELSE runs[k]
    BY <1>2, OverIsHonest
  <1>9. RunHonest(r)'
    <2>1. RunHonest(r)
      BY <1>2, <1>8, OverIsHonest
    <2>2. QED
      BY <1>1, <2>1, HonestGrows
  <1>10. runs' = [runs EXCEPT ![k] = r]
    BY <1>8 DEF Complete
  <1>11. runs' \in [Runs -> Run] /\ RunsHonest'
    BY <1>1, <1>9, <1>10, RunPut
  <1>12. QED
    BY <1>1, <1>7, <1>11, EngineFrame, EventsKept DEF Complete, IInv, TypeOK

LEMMA LeaveKeeps ==
  ASSUME IInv, NEW k \in Runs, Leave(k)
  PROVE  IInv'
  <1>1. Grows
    BY GrowsSame DEF Leave
  <1>2. runs' \in [Runs -> Run] /\ RunsHonest'
    BY <1>1, OverIsHonest, OverIsHonestNext, RunPut DEF Leave
  <1>3. QED
    BY <1>1, <1>2, EngineFrame, EventsKept, ReportsKept DEF Leave, IInv, TypeOK

-----------------------------------------------------------------------------
(* Step events.                                                            *)

LEMMA ReadEventKeeps ==
  ASSUME IInv, NEW k \in Runs, ReadEvent(k)
  PROVE  IInv'
  <1>1. Grows
    BY GrowsSame DEF ReadEvent
  <1>2. events[k] \in Event /\ EventHonest(events[k])
    BY DEF IInv, TypeOK, EventsHonest
  <1>3. PICK row \in Row : row = plan /\ Honest(row)
    BY DEF IInv, TypeOK, Honest
  <1>4. PICK e : e = [events[k] EXCEPT !.row = row]
    OBVIOUS
  <1>5. e \in Event /\ e.row = row /\ e.step = events[k].step /\ e.status = events[k].status
    BY <1>2, <1>4 DEF Event
  <1>6. EventHonest(e)
    BY <1>2, <1>3, <1>5 DEF EventHonest
  <1>7. EventHonest(e)'
    BY <1>1, <1>5, <1>6, HonestGrows
  <1>8. events' = [events EXCEPT ![k] = e]
    BY <1>2, <1>3, <1>4 DEF ReadEvent, Event, IInv, TypeOK
  <1>9. events' \in [Runs -> Event] /\ EventsHonest'
    BY <1>1, <1>5, <1>7, <1>8, EventPut
  <1>10. mishap' \in BOOLEAN
    BY DEF ReadEvent, IInv, TypeOK
  <1>11. Honest(plan)' /\ plan' \in Row
    BY DEF ReadEvent, IInv, TypeOK, Honest
  <1>12. QED
    BY <1>1, <1>9, <1>10, <1>11, RunsKept, ReportsKept DEF ReadEvent, IInv, TypeOK

\* The row that is written back is honest, and so is the step put into it.
LEMMA WriteEventKeeps ==
  ASSUME IInv, NEW k \in Runs, WriteEvent(k)
  PROVE  IInv'
  <1>1. Grows
    BY GrowsSame DEF WriteEvent
  <1>2. events[k] \in Event /\ EventHonest(events[k])
    BY DEF IInv, TypeOK, EventsHonest
  <1>3. events' \in [Runs -> Event] /\ EventsHonest'
    BY <1>1, QuietIsHonest, EventPut DEF WriteEvent
  <1>4. PICK i \in Steps : i = events[k].step
    BY <1>2, ExecutionAssumption DEF WriteEvent, Event, Steps
  <1>5. PICK s \in StepStatus : s = events[k].status
    BY <1>2 DEF Event
  <1>6. PICK row \in Row : row = events[k].row
    BY <1>2 DEF WriteEvent, Event
  <1>7. plan' = [status |-> row.status, steps |-> [row.steps EXCEPT ![i] = s]]
    BY <1>4, <1>5, <1>6 DEF WriteEvent
  <1>8. Honest(row)
    BY <1>2, <1>6, NoneIsNoRow DEF EventHonest
  <1>9. s = "done" => i \in finished
    <2>1. i # 0
      BY DEF Steps
    <2>2. QED
      BY <1>2, <1>4, <1>5, <2>1 DEF EventHonest
  <1>10. plan' \in Row
    BY <1>7 DEF Row
  <1>11. \A j \in Steps : plan'.steps[j] = "done" => j \in finished
    BY <1>7, <1>8, <1>9 DEF Honest, Row
  <1>12. plan'.status = "completed" => finished = Steps
    BY <1>7, <1>8 DEF Honest, Row
  <1>13. Honest(plan)'
    BY <1>11, <1>12 DEF Honest, WriteEvent
  <1>14. mishap' \in BOOLEAN
    BY DEF WriteEvent, IInv, TypeOK
  <1>15. QED
    BY <1>1, <1>3, <1>10, <1>13, <1>14, RunsKept, ReportsKept DEF WriteEvent, IInv, TypeOK

LEMMA LoseEventKeeps ==
  ASSUME IInv, NEW k \in Runs, LoseEvent(k)
  PROVE  IInv'
  <1>1. Grows
    BY GrowsSame DEF LoseEvent
  <1>2. events' \in [Runs -> Event] /\ EventsHonest'
    BY <1>1, QuietIsHonest, EventPut DEF LoseEvent
  <1>3. Honest(plan)' /\ plan' \in Row
    BY DEF LoseEvent, IInv, TypeOK, Honest
  <1>4. QED
    BY <1>1, <1>2, <1>3, RunsKept, ReportsKept DEF LoseEvent, IInv, TypeOK

-----------------------------------------------------------------------------
(* Completions.                                                            *)

LEMMA CallsAre ==
  ASSUME NEW o
  PROVE  /\ AfterCall(o).finish \in {"task", "read"}
         /\ AfterCall(o).task \in {"read", "idle"}
         /\ AfterCall(o).read = "write"
         /\ AfterCall(o).write \in {"idle", "task"}
  BY DEF AfterCall

LEMMA DoFinishKeeps ==
  ASSUME IInv, NEW h \in Reporters, DoFinish(h)
  PROVE  IInv'
  <1>1. Grows
    BY GrowsSame DEF DoFinish
  <1>2. PICK pc \in {"task", "read"} : pc = AfterCall(reports[h].outcome).finish
    BY CallsAre
  <1>3. reports' \in [Reporters -> Report] /\ ReportsHonest'
    BY <1>2, OnwardIsHonest DEF DoFinish
  <1>4. job' \in [status : {"queued", "running", "done", "failed"}, attempts : 0..MaxAttempts]
    BY DEF DoFinish, IInv, TypeOK
  <1>5. QED
    BY <1>1, <1>3, <1>4, EngineFrame, RunsKept, EventsKept DEF DoFinish, IInv, TypeOK

LEMMA DoTaskKeeps ==
  ASSUME IInv, NEW h \in Reporters, DoTask(h)
  PROVE  IInv'
  <1>1. Grows
    BY GrowsSame DEF DoTask
  <1>2. PICK pc \in {"read", "idle"} : pc = AfterCall(reports[h].outcome).task
    BY CallsAre
  <1>3. reports' \in [Reporters -> Report] /\ ReportsHonest'
    BY <1>2, OnwardIsHonest DEF DoTask
  <1>4. task' = "done" => finished' = Steps
    BY DEF DoTask, IInv, ReportsHonest, ReportHonest
  <1>5. Honest(plan)' /\ plan' \in Row
    BY DEF DoTask, IInv, TypeOK, Honest
  <1>6. task' \in {"executing", "done", "failed"}
    BY DEF DoTask
  <1>7. QED
    BY <1>1, <1>3, <1>4, <1>5, <1>6, RunsKept, EventsKept DEF DoTask, IInv, TypeOK

LEMMA DoReadKeeps ==
  ASSUME IInv, NEW h \in Reporters, DoRead(h)
  PROVE  IInv'
  <1>1. Grows
    BY GrowsSame DEF DoRead
  <1>2. PICK row \in Row : row = plan /\ Honest(row)
    BY DEF IInv, TypeOK, Honest
  <1>3. Onward(h, "write", row)
    BY <1>2, CallsAre DEF DoRead
  <1>4. reports' \in [Reporters -> Report] /\ ReportsHonest'
    BY <1>2, <1>3, OnwardIsHonest, NoneIsNoRow DEF DoRead
  <1>5. QED
    BY <1>1, <1>4, EngineFrame, RunsKept, EventsKept DEF DoRead, IInv, TypeOK

\* A plan is completed on a success, after which all is finished.
LEMMA DoWriteKeeps ==
  ASSUME IInv, NEW h \in Reporters, DoWrite(h)
  PROVE  IInv'
  <1>1. Grows
    BY GrowsSame DEF DoWrite
  <1>2. reports[h] \in Report /\ ReportHonest(reports[h])
    BY DEF IInv, TypeOK, ReportsHonest
  <1>3. PICK pc \in {"idle", "task"} : pc = AfterCall(reports[h].outcome).write
    BY CallsAre
  <1>4. reports' \in [Reporters -> Report] /\ ReportsHonest'
    BY <1>3, OnwardIsHonest DEF DoWrite
  <1>5. PICK row \in Row : row = reports[h].row /\ Honest(row)
    BY <1>2 DEF DoWrite, Report, ReportHonest
  <1>6. PICK s \in {"completed", "failed"} :
          s = IF reports[h].outcome = "success" THEN "completed" ELSE "failed"
    OBVIOUS
  <1>7. plan' = [row EXCEPT !.status = s]
    BY <1>5, <1>6 DEF DoWrite
  <1>8. plan' \in Row /\ plan'.steps = row.steps /\ plan'.status = s
    BY <1>7 DEF Row
  <1>9. s = "completed" => finished = Steps
    BY <1>2, <1>6 DEF DoWrite, ReportHonest
  <1>10. Honest(plan)'
    BY <1>5, <1>8, <1>9 DEF Honest, DoWrite
  <1>11. mishap' \in BOOLEAN
    BY DEF DoWrite, IInv, TypeOK
  <1>12. QED
    BY <1>1, <1>4, <1>8, <1>10, <1>11, RunsKept, EventsKept DEF DoWrite, IInv, TypeOK

LEMMA CutOffKeeps ==
  ASSUME IInv, NEW h \in Reporters, CutOff(h)
  PROVE  IInv'
  <1>1. Grows
    BY GrowsSame DEF CutOff
  <1>2. reports' \in [Reporters -> Report] /\ ReportsHonest'
    BY <1>1, IdleIsHonest, ReportPut DEF CutOff
  <1>3. QED
    BY <1>1, <1>2, EngineFrame, RunsKept, EventsKept DEF CutOff, IInv, TypeOK

-----------------------------------------------------------------------------
(* The requeue loop and restarts.                                          *)

LEMMA SweepScanKeeps ==
  ASSUME IInv, SweepScan
  PROVE  IInv'
  <1>1. Grows
    BY GrowsSame DEF SweepScan
  <1>2. Honest(plan)' /\ plan' \in Row
    BY DEF SweepScan, IInv, TypeOK, Honest
  <1>3. QED
    BY <1>1, <1>2, RunsKept, EventsKept, ReportsKept DEF SweepScan, IInv, TypeOK

LEMMA SweepUpdateKeeps ==
  ASSUME IInv, SweepUpdate
  PROVE  IInv'
  <1>1. Grows
    BY GrowsSame DEF SweepUpdate
  <1>2. Honest(plan)' /\ plan' \in Row
    BY DEF SweepUpdate, IInv, TypeOK, Honest
  <1>3. job' \in [status : {"queued", "running", "done", "failed"}, attempts : 0..MaxAttempts]
    BY DEF SweepUpdate, IInv, TypeOK
  <1>4. reports' \in [Reporters -> Report] /\ ReportsHonest'
    <2>1. CASE UNCHANGED reports
      BY <1>1, <2>1, ReportsKept
    <2>2. CASE reports' = [reports EXCEPT ![Loop] = Begun("error")]
      <3>1. Loop \in Reporters
        BY ExecutionAssumption DEF Loop, Reporters
      <3>2. Begun("error") \in Report /\ ReportHonest(Begun("error"))'
        BY BegunIsHonest DEF Outcomes
      <3>3. QED
        BY <1>1, <2>2, <3>1, <3>2, ReportPut
    <2>3. QED
      BY <2>1, <2>2 DEF SweepUpdate
  <1>5. QED
    BY <1>1, <1>2, <1>3, <1>4, RunsKept, EventsKept DEF SweepUpdate, IInv, TypeOK

LEMMA RestartKeeps ==
  ASSUME IInv, Restart
  PROVE  IInv'
  <1>1. Grows
    BY GrowsSame DEF Restart
  <1>2. runs' \in [Runs -> Run] /\ RunsHonest'
    <2>1. \A k \in Runs : runs[k] \in Run /\ RunHonest(runs[k])
      BY DEF IInv, TypeOK, RunsHonest
    <2>2. \A k \in Runs : runs'[k] \in Run /\ (runs'[k] = Over \/ runs'[k] = runs[k])
      BY <2>1, OverIsHonest DEF Restart
    <2>3. runs' \in [Runs -> Run]
      BY <2>2 DEF Restart
    <2>4. \A k \in Runs : RunHonest(runs[k])'
      BY <1>1, <2>1, <2>2, OverIsHonestNext, HonestGrows
    <2>5. QED
      BY <2>3, <2>4 DEF RunsHonest
  <1>3. events' \in [Runs -> Event] /\ EventsHonest'
    BY QuietIsHonest DEF Restart, EventsHonest
  <1>4. reports' \in [Reporters -> Report] /\ ReportsHonest'
    BY IdleIsHonest DEF Restart, ReportsHonest
  <1>5. Honest(plan)' /\ plan' \in Row
    BY DEF Restart, IInv, TypeOK, Honest
  <1>6. mishap' \in BOOLEAN
    BY DEF Restart, IInv, TypeOK
  <1>7. QED
    BY <1>1, <1>2, <1>3, <1>4, <1>5, <1>6 DEF Restart, IInv, TypeOK

-----------------------------------------------------------------------------
(* The theorems.                                                           *)

LEMMA InitIInv == Init => IInv
  <1> SUFFICES ASSUME Init PROVE IInv
    OBVIOUS
  <1>1. job \in [status : {"queued", "running", "done", "failed"}, attempts : 0..MaxAttempts]
    BY ExecutionAssumption DEF Init
  <1>2. plan \in Row /\ Honest(plan)
    BY DEF Init, Row, StepStatus, Honest
  <1>3. 0 \in 0..StepCount
    BY ExecutionAssumption
  <1>4. NoRun \in Run /\ RunHonest(NoRun)
    <2>1. NoRun \in Run
      BY <1>3 DEF NoRun, Bare, Run
    <2>2. RunHonest(NoRun)
      BY NoneIsNoRow DEF NoRun, Bare, RunHonest, Outcomes
    <2>3. QED
      BY <2>1, <2>2
  <1>5. NoEvent \in Event /\ EventHonest(NoEvent)
    BY <1>3 DEF NoEvent, Event, EventHonest, StepStatus
  <1>6. QED
    BY <1>1, <1>2, <1>4, <1>5, IdleIsHonest
       DEF Init, IInv, TypeOK, RunsHonest, EventsHonest, ReportsHonest

LEMMA StutterKeeps ==
  ASSUME IInv, UNCHANGED vars
  PROVE  IInv'
  <1>1. Grows
    BY GrowsSame DEF vars
  <1>2. QED
    BY <1>1, EngineFrame, RunsKept, EventsKept, ReportsKept DEF vars, IInv, TypeOK

LEMMA NextKeeps == IInv /\ [Next]_vars => IInv'
  <1> SUFFICES ASSUME IInv, [Next]_vars PROVE IInv'
    OBVIOUS
  <1>1. ASSUME NEW k \in Runs, EngineNext(k) PROVE IInv'
    BY <1>1, ClaimKeeps, BuildBundleKeeps, ClientFailsKeeps, BundleFailsKeeps,
       StartStepKeeps, StepDoneKeeps, StepFailedKeeps, StepErrorKeeps, WrapUpKeeps,
       CompleteKeeps, LeaveKeeps DEF EngineNext
  <1>2. ASSUME NEW k \in Runs, EventNext(k) PROVE IInv'
    BY <1>2, ReadEventKeeps, WriteEventKeeps, LoseEventKeeps DEF EventNext
  <1>3. ASSUME NEW h \in Reporters, ReportNext(h) PROVE IInv'
    BY <1>3, DoFinishKeeps, DoTaskKeeps, DoReadKeeps, DoWriteKeeps, CutOffKeeps DEF ReportNext
  <1>4. QED
    BY <1>1, <1>2, <1>3, SweepScanKeeps, SweepUpdateKeeps, RestartKeeps, StutterKeeps DEF Next

\* The inductive invariant: no row, event, handler or run claims a step to be
\* done that was not, or a success with a step unfinished.
THEOREM ExecutionInvariant == Spec => []IInv
  BY InitIInv, NextKeeps, PTL DEF Spec

\* Type correctness.
THEOREM TypeCorrect == Spec => []TypeOK
  <1>1. IInv => TypeOK
    BY DEF IInv
  <1>2. QED
    BY <1>1, ExecutionInvariant, PTL

\* A task is done, or a plan completed, only with every step finished by some
\* run, for every number of steps and attempts, whatever events are lost and
\* rows overwritten.
THEOREM WorkIsDone == Spec => []WorkDone
  <1>1. IInv => WorkDone
    BY DEF IInv, WorkDone, Honest
  <1>2. QED
    BY <1>1, ExecutionInvariant, PTL

-----------------------------------------------------------------------------
(* What a handler or the run of the last attempt is about to write, until the *)
(* first mishap: the strengthening of StepsRecorded and RecordStays.          *)

\* A run comes after its claim.
NotYet ==
    \A k \in Runs : k > job.attempts => runs[k] = NoRun /\ Quiet(k) /\ reports[k].pc = "idle"

\* A run waits for its event before it reports, and has nothing to send before its
\* bundle or after its report.
Voice(r, e, x) ==
    /\ r.at \notin r.todo
    /\ r.pc \in {"unused", "bundle"} => e = NoEvent
    /\ x.pc # "idle" => e = NoEvent /\ r.pc \in {"report", "over"}

Voices == \A k \in Runs : Voice(runs[k], events[k], reports[k])

\* The requeue loop fails a job that nobody runs or will run again.
LoopAlone ==
    /\ swept => reports[Loop].pc = "idle"
    /\ reports[Loop].pc # "idle" => /\ job.attempts = MaxAttempts
                                    /\ job.status \in {"done", "failed"}
                                    /\ reports[Loop].outcome = "error"

Recorded(i) == plan.steps[i] = "done"
AllRecorded == \A i \in Steps : Recorded(i)

\* The run of the last attempt, its event and its report against the plan row: a row
\* that was read is the row there is, no recorded step is ahead, at hand or reported as
\* anything but done, and what is neither is recorded or on its way.
Current(r, e, x) ==
    /\ job.status = "running" /\ e.row # None => e.row = plan
    /\ e.step # 0 => IF e.status = "done" THEN e.step \notin r.todo \cup {r.at}
                     ELSE ~Recorded(e.step)
    /\ \A i \in Steps : i \in r.todo \cup {r.at} => ~Recorded(i)
    /\ r.pc \in {"step", "ask"} /\ ~r.failed =>
         \A i \in Steps : \/ i \in r.todo \cup {r.at}
                          \/ Recorded(i)
                          \/ e.step = i /\ e.status = "done"
    /\ r.outcome = "success" => AllRecorded
    /\ x.pc # "idle" /\ x.outcome = "success" => AllRecorded

RowFresh(x) == x.pc = "write" => x.row.steps = plan.steps

Faithful ==
    /\ \A k \in Runs : k = job.attempts =>
         Current(runs[k], events[k], reports[k]) /\ RowFresh(reports[k])
    /\ RowFresh(reports[Loop])
    /\ plan.status = "completed" => AllRecorded

Ordered == NotYet /\ Voices /\ LoopAlone

RecInv == IInv /\ Ordered /\ (~mishap => Faithful)

RecNext == Ordered' /\ (~mishap' => Faithful')

-----------------------------------------------------------------------------
(* One run, its event and its report at a time.                             *)

\* A run that has something under way was claimed.
LEMMA Claimed ==
  ASSUME RecInv, NEW k \in Runs, runs[k].pc # "unused" \/ ~Quiet(k) \/ reports[k].pc # "idle"
  PROVE  k <= job.attempts
  BY ExecutionAssumption DEF RecInv, Ordered, NotYet, IInv, TypeOK, NoRun, Bare, Runs

\* Run k, its event and its report become r, e and x.
LEMMA RunMoves ==
  ASSUME RecInv, NEW k \in Runs, k <= job.attempts, NEW r, NEW e, NEW x,
         runs' = [runs EXCEPT ![k] = r],
         events' = [events EXCEPT ![k] = e],
         reports' = [reports EXCEPT ![k] = x],
         UNCHANGED <<job, plan, swept>>, mishap => mishap',
         Voice(r, e, x),
         ~mishap' /\ k = job.attempts => Current(r, e, x) /\ RowFresh(x)
  PROVE  RecNext
  <1>1. k \in Reporters /\ k # Loop /\ Loop \in Reporters /\ Runs \subseteq Reporters
    BY ExecutionAssumption DEF Runs, Reporters, Loop
  <1>2. /\ runs \in [Runs -> Run] /\ events \in [Runs -> Event]
        /\ reports \in [Reporters -> Report]
    BY DEF RecInv, IInv, TypeOK
  <1>3. \A i \in Runs : /\ i = k => runs'[i] = r /\ events'[i] = e /\ reports'[i] = x
                        /\ i # k => /\ runs'[i] = runs[i] /\ events'[i] = events[i]
                                    /\ reports'[i] = reports[i]
    BY <1>1, <1>2
  <1>4. reports'[Loop] = reports[Loop]
    BY <1>1, <1>2
  <1>5. NotYet'
    <2>1. job.attempts \in Nat /\ k \in Nat
      BY ExecutionAssumption DEF RecInv, IInv, TypeOK, Runs
    <2>2. \A i \in Runs : i > job.attempts => i # k
      BY <2>1
    <2>3. QED
      BY <1>3, <2>2 DEF RecInv, Ordered, NotYet, Quiet
  <1>6. Voices'
    BY <1>3 DEF RecInv, Ordered, Voices, Voice
  <1>7. LoopAlone'
    BY <1>4 DEF RecInv, Ordered, LoopAlone
  <1>8. ASSUME ~mishap' PROVE Faithful'
    <2>1. Faithful
      BY <1>8 DEF RecInv
    <2>2. ASSUME NEW i \in Runs, i = job.attempts
          PROVE  Current(runs[i], events[i], reports[i])' /\ RowFresh(reports[i])'
      <3>1. Current(runs'[i], events'[i], reports'[i]) /\ RowFresh(reports'[i])
        BY <1>3, <1>8, <2>1, <2>2 DEF Faithful
      <3>2. QED
        BY <3>1 DEF Current, RowFresh, AllRecorded, Recorded
    <2>3. QED
      BY <1>4, <2>1, <2>2 DEF Faithful, RowFresh, AllRecorded, Recorded
  <1>9. QED
    BY <1>5, <1>6, <1>7, <1>8 DEF RecNext, Ordered

\* The same for an action that changes only the run.
LEMMA OnlyRunMoves ==
  ASSUME RecInv, NEW k \in Runs, runs[k].pc # "unused", NEW r,
         runs' = [runs EXCEPT ![k] = r],
         UNCHANGED <<events, reports, job, plan, swept, mishap>>,
         Voice(r, events[k], reports[k]),
         ~mishap /\ k = job.attempts => Current(r, events[k], reports[k])
  PROVE  RecNext
  <1>1. k \in Reporters
    BY ExecutionAssumption DEF Runs, Reporters
  <1>2. /\ events' = [events EXCEPT ![k] = events[k]]
        /\ reports' = [reports EXCEPT ![k] = reports[k]]
    BY <1>1 DEF RecInv, IInv, TypeOK
  <1>3. ~mishap /\ k = job.attempts => RowFresh(reports[k])
    BY DEF RecInv, Faithful
  <1>4. k <= job.attempts
    BY Claimed
  <1>5. QED
    BY <1>2, <1>3, <1>4, RunMoves

\* What the invariant says of one run.
LEMMA RunFacts ==
  ASSUME RecInv, NEW k \in Runs
  PROVE  /\ runs[k] \in Run /\ RunHonest(runs[k]) /\ events[k] \in Event
         /\ k \in Reporters /\ reports[k] \in Report
         /\ Voice(runs[k], events[k], reports[k])
         /\ ~mishap /\ k = job.attempts => Current(runs[k], events[k], reports[k])
  <1>1. k \in Reporters
    BY ExecutionAssumption DEF Runs, Reporters
  <1>2. QED
    BY <1>1 DEF RecInv, IInv, TypeOK, RunsHonest, Ordered, Voices, Faithful

\* A run without a step is silent and claims nothing but its outcome.
LEMMA BareIsCurrent ==
  ASSUME NEW pc, NEW by, NEW o, NEW e \in Event, NEW x,
         pc \notin {"step", "ask"},
         o = "success" => AllRecorded,
         e.step # 0 /\ e.status # "done" => ~Recorded(e.step),
         job.status = "running" /\ e.row # None => e.row = plan,
         x.pc # "idle" /\ x.outcome = "success" => AllRecorded
  PROVE  Current(Bare(pc, by, o), e, x)
  <1>1. 0 \notin Steps
    BY DEF Steps
  <1>2. QED
    BY <1>1 DEF Bare, Current

-----------------------------------------------------------------------------
(* Claims and the engine.                                                   *)

LEMMA ClaimRecords ==
  ASSUME RecInv, NEW k \in Runs, NEW by \in Kinds[k], Claim(k, by)
  PROVE  RecNext
  <1> DEFINE b == Bare("bundle", by, None)
  <1>1. /\ job.status = "queued" /\ k = job.attempts + 1 /\ job.attempts \in Nat /\ k \in Nat
        /\ job'.attempts = k /\ job'.status = "running"
        /\ UNCHANGED <<plan, events, reports, swept, mishap>>
    BY ExecutionAssumption DEF Claim, RecInv, IInv, TypeOK, Runs
  <1>2. runs[k] = NoRun /\ Quiet(k) /\ reports[k].pc = "idle"
    BY <1>1 DEF RecInv, Ordered, NotYet
  <1>3. reports[Loop].pc = "idle"
    BY <1>1 DEF RecInv, Ordered, LoopAlone
  <1>4. \A i \in Runs : runs'[i] = IF i = k THEN b ELSE runs[i]
    BY DEF Claim, RecInv, IInv, TypeOK
  <1>5. b.pc = "bundle" /\ b.at = 0 /\ b.todo = {} /\ b.outcome = None
    BY DEF Bare
  <1> HIDE DEF b
  <1>6. NotYet'
    <2>1. \A i \in Runs : i \in Nat
      BY ExecutionAssumption DEF Runs
    <2>2. \A i \in Runs : i > k => i > job.attempts /\ i # k
      BY <1>1, <2>1
    <2>3. QED
      BY <1>1, <1>4, <2>2 DEF RecInv, Ordered, NotYet, Quiet
  <1>7. Voices'
    BY <1>1, <1>2, <1>4, <1>5 DEF RecInv, Ordered, Voices, Voice, Quiet
  <1>8. LoopAlone'
    BY <1>1, <1>3 DEF LoopAlone
  <1>9. ASSUME ~mishap' PROVE Faithful'
    <2>1. Faithful
      BY <1>1, <1>9 DEF RecInv
    <2>2. 0 \notin Steps /\ None # "success"
      BY ExecutionAssumption DEF Steps
    <2>3. Current(b, NoEvent, reports[k])'
      BY <1>1, <1>2, <1>5, <2>2 DEF Current, NoEvent
    <2>4. Current(runs[k], events[k], reports[k])' /\ RowFresh(reports[k])'
      BY <1>1, <1>2, <1>4, <2>3 DEF Quiet, RowFresh, Current, AllRecorded, Recorded
    <2>5. QED
      BY <1>1, <2>1, <2>4 DEF Faithful, RowFresh, AllRecorded, Recorded
  <1>10. QED
    BY <1>6, <1>7, <1>8, <1>9 DEF RecNext, Ordered

\* The steps ahead of a run are those that are not recorded.
LEMMA BuildBundleRecords ==
  ASSUME RecInv, NEW k \in Runs, BuildBundle(k)
  PROVE  RecNext
  <1>1. /\ runs[k] \in Run /\ RunHonest(runs[k]) /\ runs[k].pc = "bundle"
        /\ Voice(runs[k], events[k], reports[k])
        /\ ~mishap /\ k = job.attempts => Current(runs[k], events[k], reports[k])
    BY RunFacts DEF BuildBundle
  <1>2. events[k] = NoEvent /\ reports[k].pc = "idle" /\ runs[k].at = 0 /\ 0 \notin Steps
    BY <1>1 DEF Voice, RunHonest, Steps
  <1>3. PICK r : r = [runs[k] EXCEPT !.pc = "step", !.todo = Unfinished]
    OBVIOUS
  <1>4. /\ r.pc = "step" /\ r.todo = Unfinished /\ r.at = 0 /\ r.outcome = runs[k].outcome
        /\ r.failed = runs[k].failed
    BY <1>1, <1>2, <1>3 DEF Run
  <1>5. runs' = [runs EXCEPT ![k] = r]
    BY <1>1, <1>3 DEF BuildBundle, Run, RecInv, IInv, TypeOK
  <1>6. Unfinished = {i \in Steps : ~Recorded(i)}
    BY DEF Unfinished, Recorded
  <1>7. Voice(r, events[k], reports[k])
    BY <1>2, <1>4, <1>6 DEF Voice
  <1>8. ~mishap /\ k = job.attempts => Current(r, events[k], reports[k])
    BY <1>1, <1>2, <1>4, <1>6 DEF Current, NoEvent
  <1>9. QED
    BY <1>1, <1>5, <1>7, <1>8, OnlyRunMoves DEF BuildBundle

\* ExecuteJob returns with outcome o; success only with all recorded, as far as this
\* run matters.
LEMMA ResultRecords ==
  ASSUME RecInv, NEW k \in Runs, NEW o \in Outcomes, NEW e \in Event, Result(k, o),
         runs[k].pc \in {"bundle", "step", "ask"},
         events' = [events EXCEPT ![k] = e],
         UNCHANGED <<reports, job, plan, swept, mishap>>,
         ~mishap /\ k = job.attempts =>
            /\ o = "success" => AllRecorded
            /\ e.step # 0 /\ e.status # "done" => ~Recorded(e.step)
            /\ job.status = "running" /\ e.row # None => e.row = plan
  PROVE  RecNext
  <1>1. /\ runs[k] \in Run /\ k \in Reporters /\ Voice(runs[k], events[k], reports[k])
        /\ ~mishap /\ k = job.attempts => Current(runs[k], events[k], reports[k])
    BY RunFacts
  <1>2. reports[k].pc = "idle"
    BY <1>1 DEF Voice
  <1> DEFINE r == Bare("report", runs[k].by, o)
  <1>3. runs' = [runs EXCEPT ![k] = r]
    BY DEF Result
  <1>4. reports' = [reports EXCEPT ![k] = reports[k]]
    BY <1>1 DEF RecInv, IInv, TypeOK
  <1>5. Voice(r, e, reports[k])
    BY <1>2 DEF Voice, Bare
  <1>6. ~mishap /\ k = job.attempts => Current(r, e, reports[k]) /\ RowFresh(reports[k])
    BY <1>2, BareIsCurrent DEF RowFresh
  <1> HIDE DEF r
  <1>7. k <= job.attempts
    BY Claimed
  <1>8. QED
    BY <1>3, <1>4, <1>5, <1>6, <1>7, RunMoves

LEMMA ClientFailsRecords ==
  ASSUME RecInv, NEW k \in Runs, ClientFails(k)
  PROVE  RecNext
  <1>1. events[k] \in Event /\ events[k] = NoEvent /\ events' = [events EXCEPT ![k] = NoEvent]
    BY RunFacts DEF ClientFails, Voice, RecInv, IInv, TypeOK
  <1>2. NoEvent.step = 0 /\ NoEvent.row = None
    BY DEF NoEvent
  <1>3. QED
    BY <1>1, <1>2, ResultRecords DEF ClientFails, Outcomes

LEMMA OverIsCurrent ==
  ASSUME NEW x, x.pc # "idle" => x.outcome # "success"
  PROVE  Current(Over, NoEvent, x) /\ Voice(Over, NoEvent, x)
  <1>1. NoEvent.step = 0 /\ NoEvent.row = None /\ 0 \notin Steps /\ None # "success"
    BY ExecutionAssumption DEF NoEvent, Steps
  <1>2. QED
    BY <1>1 DEF Over, Bare, Current, Voice

LEMMA BundleFailsRecords ==
  ASSUME RecInv, NEW k \in Runs, BundleFails(k)
  PROVE  RecNext
  <1>1. events[k] = NoEvent /\ events' = [events EXCEPT ![k] = NoEvent]
    BY RunFacts DEF BundleFails, Voice, RecInv, IInv, TypeOK
  <1>2. Begun("error").pc = "finish" /\ Begun("error").outcome = "error"
    BY DEF Begun
  <1>3. /\ Current(Over, NoEvent, Begun("error")) /\ Voice(Over, NoEvent, Begun("error"))
        /\ RowFresh(Begun("error"))
    BY <1>2, OverIsCurrent DEF RowFresh
  <1>4. k <= job.attempts
    BY Claimed DEF BundleFails
  <1>5. QED
    BY <1>1, <1>3, <1>4, RunMoves DEF BundleFails

\* Run k goes on to r and sends s of step i, having waited for its event before.
LEMMA SendRecords ==
  ASSUME RecInv, NEW k \in Runs, NEW r, NEW i \in Steps, NEW s \in StepStatus,
         runs[k].pc \in {"step", "ask"}, Quiet(k),
         runs' = [runs EXCEPT ![k] = r], Send(k, i, s),
         UNCHANGED <<reports, job, plan, swept, mishap>>,
         r.pc \in {"step", "ask"}, r.at \notin r.todo,
         LET e == [step |-> i, status |-> s, row |-> None] IN
         ~mishap /\ k = job.attempts => Current(r, e, reports[k])
  PROVE  RecNext
  <1> DEFINE e == [step |-> i, status |-> s, row |-> None]
  <1>1. k \in Reporters /\ Voice(runs[k], events[k], reports[k])
    BY RunFacts
  <1>2. reports[k].pc = "idle"
    BY <1>1 DEF Voice
  <1>3. events' = [events EXCEPT ![k] = e]
    BY DEF Send
  <1>4. reports' = [reports EXCEPT ![k] = reports[k]]
    BY <1>1 DEF RecInv, IInv, TypeOK
  <1>5. Voice(r, e, reports[k])
    BY <1>2 DEF Voice
  <1>6. ~mishap /\ k = job.attempts => Current(r, e, reports[k]) /\ RowFresh(reports[k])
    BY <1>2 DEF RowFresh
  <1> HIDE DEF e
  <1>7. k <= job.attempts
    BY Claimed
  <1>8. QED
    BY <1>3, <1>4, <1>5, <1>6, <1>7, RunMoves

LEMMA StartStepRecords ==
  ASSUME RecInv, NEW k \in Runs, StartStep(k)
  PROVE  RecNext
  <1>1. /\ runs[k] \in Run /\ RunHonest(runs[k]) /\ runs[k].pc = "step"
        /\ Voice(runs[k], events[k], reports[k]) /\ events[k] = NoEvent
        /\ ~mishap /\ k = job.attempts => Current(runs[k], events[k], reports[k])
    BY RunFacts DEF StartStep, Quiet
  <1>2. PICK i \in runs[k].todo :
          /\ runs' = [runs EXCEPT ![k].pc = "ask", ![k].todo = @ \ {i}, ![k].at = i]
          /\ Send(k, i, "running")
    BY DEF StartStep
  <1>3. i \in Steps /\ 0 \notin Steps /\ runs[k].at = 0
    BY <1>1, <1>2 DEF Run, RunHonest, Steps
  <1>4. PICK r : r = [runs[k] EXCEPT !.pc = "ask", !.todo = runs[k].todo \ {i}, !.at = i]
    OBVIOUS
  <1>5. /\ r.pc = "ask" /\ r.at = i /\ r.todo = runs[k].todo \ {i}
        /\ r.failed = runs[k].failed /\ r.outcome = runs[k].outcome
    BY <1>1, <1>4 DEF Run
  <1>6. runs' = [runs EXCEPT ![k] = r]
    BY <1>1, <1>2, <1>4 DEF Run, RecInv, IInv, TypeOK
  <1> DEFINE e == [step |-> i, status |-> "running", row |-> None]
  <1>7. e.step = i /\ e.status = "running" /\ e.row = None
    OBVIOUS
  <1>8. NoEvent.step = 0
    BY DEF NoEvent
  <1> HIDE DEF e
  <1>9. ~mishap /\ k = job.attempts => Current(r, e, reports[k])
    BY <1>1, <1>2, <1>3, <1>5, <1>7, <1>8 DEF Current
  <1>10. r.at \notin r.todo /\ "running" \in StepStatus
    BY <1>5 DEF StepStatus
  <1>11. QED
    BY <1>1, <1>2, <1>3, <1>5, <1>6, <1>9, <1>10, SendRecords DEF StartStep, Quiet, e

\* The step at hand is reported as done or as failed, and the run goes on.
LEMMA AnsweredRecords ==
  ASSUME RecInv, NEW k \in Runs, runs[k].pc = "ask", Quiet(k),
         NEW f \in BOOLEAN, NEW s \in {"done", "failed"},
         s = "failed" => f, s = "done" => f = runs[k].failed,
         runs' = [runs EXCEPT ![k].pc = "step", ![k].at = 0, ![k].failed = f],
         Send(k, runs[k].at, s),
         UNCHANGED <<reports, job, plan, swept, mishap>>
  PROVE  RecNext
  <1>1. /\ runs[k] \in Run /\ RunHonest(runs[k]) /\ events[k] = NoEvent
        /\ Voice(runs[k], events[k], reports[k])
        /\ ~mishap /\ k = job.attempts => Current(runs[k], events[k], reports[k])
    BY RunFacts DEF Quiet
  <1>2. PICK i \in Steps : i = runs[k].at
    BY <1>1, ExecutionAssumption DEF Run, RunHonest, Steps
  <1>3. PICK r : r = [runs[k] EXCEPT !.pc = "step", !.at = 0, !.failed = f]
    OBVIOUS
  <1>4. /\ r.pc = "step" /\ r.at = 0 /\ r.todo = runs[k].todo
        /\ r.failed = f /\ r.outcome = runs[k].outcome
    BY <1>1, <1>3 DEF Run
  <1>5. runs' = [runs EXCEPT ![k] = r]
    BY <1>1, <1>3 DEF Run, RecInv, IInv, TypeOK
  <1> DEFINE e == [step |-> i, status |-> s, row |-> None]
  <1>6. e.step = i /\ e.status = s /\ e.row = None
    OBVIOUS
  <1>7. NoEvent.step = 0 /\ 0 \notin Steps /\ runs[k].todo \subseteq Steps
    BY <1>1 DEF NoEvent, Steps, Run
  <1> HIDE DEF e
  <1>8. ~mishap /\ k = job.attempts => Current(r, e, reports[k])
    BY <1>1, <1>2, <1>4, <1>6, <1>7 DEF Current, Voice
  <1>9. r.at \notin r.todo /\ s \in StepStatus
    BY <1>4, <1>7 DEF StepStatus
  <1>10. QED
    BY <1>2, <1>4, <1>5, <1>8, <1>9, SendRecords DEF e

LEMMA StepDoneRecords ==
  ASSUME RecInv, NEW k \in Runs, StepDone(k)
  PROVE  RecNext
  <1>1. runs[k].failed \in BOOLEAN /\ runs[k] \in Run
    BY RunFacts DEF Run
  <1>2. runs' = [runs EXCEPT ![k].pc = "step", ![k].at = 0, ![k].failed = runs[k].failed]
    <2>1. runs' = [runs EXCEPT ![k] = [runs[k] EXCEPT !.pc = "step", !.at = 0]]
      BY <1>1 DEF StepDone, Run, RecInv, IInv, TypeOK
    <2>2. [runs[k] EXCEPT !.pc = "step", !.at = 0]
            = [runs[k] EXCEPT !.pc = "step", !.at = 0, !.failed = runs[k].failed]
      BY <1>1 DEF Run
    <2>3. QED
      BY <1>1, <2>1, <2>2 DEF Run, RecInv, IInv, TypeOK
  <1>3. QED
    BY <1>1, <1>2, AnsweredRecords DEF StepDone

LEMMA StepFailedRecords ==
  ASSUME RecInv, NEW k \in Runs, StepFailed(k)
  PROVE  RecNext
  BY AnsweredRecords DEF StepFailed

LEMMA StepErrorRecords ==
  ASSUME RecInv, NEW k \in Runs, StepError(k)
  PROVE  RecNext
  <1>1. /\ runs[k] \in Run /\ RunHonest(runs[k]) /\ runs[k].pc = "ask"
        /\ ~mishap /\ k = job.attempts => Current(runs[k], events[k], reports[k])
    BY RunFacts DEF StepError
  <1>2. PICK i \in Steps : i = runs[k].at
    BY <1>1, ExecutionAssumption DEF Run, RunHonest, Steps
  <1> DEFINE e == [step |-> i, status |-> "failed", row |-> None]
  <1>3. events' = [events EXCEPT ![k] = e]
    BY <1>2 DEF StepError, Send
  <1>4. e.step = i /\ e.row = None /\ i \in 0..StepCount
    BY ExecutionAssumption DEF Steps
  <1>5. e \in Event
    BY <1>4 DEF Event, StepStatus
  <1> HIDE DEF e
  <1>6. ~mishap /\ k = job.attempts => ~Recorded(i)
    BY <1>1, <1>2 DEF Current
  <1>7. QED
    BY <1>1, <1>3, <1>4, <1>5, <1>6, ResultRecords DEF StepError, Outcomes

\* A run that has not failed and has nothing ahead, at hand or on its way finds every
\* step recorded.
LEMMA WrapUpRecords ==
  ASSUME RecInv, NEW k \in Runs, WrapUp(k)
  PROVE  RecNext
  <1>1. /\ runs[k] \in Run /\ RunHonest(runs[k]) /\ runs[k].pc = "step" /\ runs[k].todo = {}
        /\ events[k] = NoEvent /\ NoEvent \in Event
        /\ ~mishap /\ k = job.attempts => Current(runs[k], events[k], reports[k])
    BY RunFacts DEF WrapUp, Quiet
  <1>2. PICK o \in Outcomes : (o = "success" => ~runs[k].failed) /\ Result(k, o)
    BY DEF WrapUp
  <1>3. runs[k].at = 0 /\ 0 \notin Steps /\ NoEvent.step = 0 /\ NoEvent.row = None
    BY <1>1 DEF RunHonest, Steps, NoEvent
  <1>4. ~mishap /\ k = job.attempts => (o = "success" => AllRecorded)
    BY <1>1, <1>2, <1>3 DEF Current, AllRecorded
  <1>5. events' = [events EXCEPT ![k] = NoEvent]
    BY <1>1 DEF WrapUp, RecInv, IInv, TypeOK
  <1>6. QED
    BY <1>1, <1>2, <1>3, <1>4, <1>5, ResultRecords DEF WrapUp

LEMMA CompleteRecords ==
  ASSUME RecInv, NEW k \in Runs, Complete(k)
  PROVE  RecNext
  <1>1. /\ runs[k] \in Run /\ runs[k].pc = "report" /\ events[k] = NoEvent
        /\ Voice(runs[k], events[k], reports[k])
        /\ ~mishap /\ k = job.attempts => Current(runs[k], events[k], reports[k])
    BY RunFacts DEF Complete, Quiet
  <1>2. events' = [events EXCEPT ![k] = NoEvent]
    BY <1>1 DEF Complete, RecInv, IInv, TypeOK
  <1> DEFINE x == Begun(runs[k].outcome)
  <1>3. x.pc = "finish" /\ x.outcome = runs[k].outcome
    BY DEF Begun
  <1> HIDE DEF x
  <1>4. PICK r : r = IF runs[k].by = "embedded" THEN Over ELSE runs[k]
    OBVIOUS
  <1>5. runs' = [runs EXCEPT ![k] = r] /\ reports' = [reports EXCEPT ![k] = x]
    BY <1>4 DEF Complete, x
  <1>6. r.pc \in {"report", "over"} /\ r.at \notin r.todo
    BY <1>1, <1>4 DEF Voice, Over, Bare
  <1>7. Voice(r, NoEvent, x)
    BY <1>6 DEF Voice
  <1>8. ~mishap /\ k = job.attempts => Current(r, NoEvent, x)
    <2>1. None # "success" /\ NoEvent.step = 0 /\ NoEvent.row = None /\ 0 \notin Steps
      BY ExecutionAssumption DEF NoEvent, Steps
    <2>2. CASE r = runs[k]
      BY <1>1, <1>3, <2>2 DEF Current
    <2>3. CASE r = Over
      BY <1>1, <1>3, <2>1, <2>3 DEF Current, Over, Bare
    <2>4. QED
      BY <1>4, <2>2, <2>3
  <1>9. RowFresh(x)
    BY <1>3 DEF RowFresh
  <1>10. k <= job.attempts
    BY Claimed DEF Complete
  <1>11. QED
    BY <1>2, <1>5, <1>7, <1>8, <1>9, <1>10, RunMoves DEF Complete

LEMMA LeaveRecords ==
  ASSUME RecInv, NEW k \in Runs, Leave(k)
  PROVE  RecNext
  <1>1. /\ runs[k].pc \notin {"unused", "over"} /\ events[k] \in Event
        /\ Voice(runs[k], events[k], reports[k])
        /\ ~mishap /\ k = job.attempts => Current(runs[k], events[k], reports[k])
    BY RunFacts DEF Leave
  <1>2. Voice(Over, events[k], reports[k])
    BY <1>1 DEF Voice, Over, Bare
  <1>3. ~mishap /\ k = job.attempts => Current(Over, events[k], reports[k])
    <2>1. None # "success"
      BY ExecutionAssumption
    <2>2. QED
      BY <1>1, <2>1, BareIsCurrent DEF Current, Over
  <1>4. QED
    BY <1>1, <1>2, <1>3, OnlyRunMoves DEF Leave

-----------------------------------------------------------------------------
(* Step events.                                                             *)

LEMMA OnlyEventMoves ==
  ASSUME RecInv, NEW k \in Runs, ~Quiet(k), NEW e,
         events' = [events EXCEPT ![k] = e],
         UNCHANGED <<runs, reports, job, plan, swept>>, mishap => mishap',
         ~mishap' /\ k = job.attempts => Current(runs[k], e, reports[k])
  PROVE  RecNext
  <1>1. /\ k \in Reporters /\ Voice(runs[k], events[k], reports[k])
        /\ runs[k].pc \notin {"unused", "bundle"} /\ reports[k].pc = "idle"
    BY RunFacts DEF Quiet, Voice
  <1>2. /\ runs' = [runs EXCEPT ![k] = runs[k]]
        /\ reports' = [reports EXCEPT ![k] = reports[k]]
    BY <1>1 DEF RecInv, IInv, TypeOK
  <1>3. Voice(runs[k], e, reports[k]) /\ RowFresh(reports[k])
    BY <1>1 DEF Voice, RowFresh
  <1>4. k <= job.attempts
    BY Claimed
  <1>5. QED
    BY <1>2, <1>3, <1>4, RunMoves

LEMMA ReadEventRecords ==
  ASSUME RecInv, NEW k \in Runs, ReadEvent(k)
  PROVE  RecNext
  <1>1. /\ events[k] \in Event /\ events[k].step # 0
        /\ ~mishap /\ k = job.attempts => Current(runs[k], events[k], reports[k])
    BY RunFacts DEF ReadEvent
  <1>2. PICK e : e = [events[k] EXCEPT !.row = plan]
    OBVIOUS
  <1>3. e.row = plan /\ e.step = events[k].step /\ e.status = events[k].status
    BY <1>1, <1>2 DEF Event
  <1>4. events' = [events EXCEPT ![k] = e]
    BY <1>1, <1>2 DEF ReadEvent, Event, RecInv, IInv, TypeOK
  <1>5. ~mishap' => ~mishap
    BY DEF ReadEvent
  <1>6. ~mishap' /\ k = job.attempts => Current(runs[k], e, reports[k])
    BY <1>1, <1>3, <1>5 DEF Current
  <1>7. ~Quiet(k)
    BY <1>1 DEF Quiet, NoEvent
  <1>8. QED
    BY <1>4, <1>5, <1>6, <1>7, OnlyEventMoves DEF ReadEvent

\* The holder of the job writes the row back as it is, with the step of the event.
LEMMA WrittenByHolder ==
  ASSUME RecInv, NEW k \in Runs, WriteEvent(k), ~mishap'
  PROVE  /\ k = job.attempts /\ job.status = "running" /\ ~mishap /\ Faithful
         /\ Current(runs[k], events[k], reports[k])
         /\ events[k].step \in Steps /\ events[k].status \in StepStatus
         /\ plan \in Row
         /\ plan' = [status |-> plan.status,
                     steps |-> [plan.steps EXCEPT ![events[k].step] = events[k].status]]
         /\ Recorded(events[k].step) => events[k].status = "done"
  <1>1. k = job.attempts /\ job.status = "running" /\ ~mishap
    BY DEF WriteEvent, Straggler
  <1>2. Current(runs[k], events[k], reports[k]) /\ events[k] \in Event
    BY <1>1, RunFacts
  <1>3. events[k].row = plan /\ events[k].step # 0
    BY <1>1, <1>2 DEF WriteEvent, Current
  <1>4. events[k].step \in Steps /\ events[k].status \in StepStatus /\ plan \in Row
    BY <1>2, <1>3, ExecutionAssumption DEF Event, Steps, RecInv, IInv, TypeOK
  <1>5. QED
    BY <1>1, <1>2, <1>3, <1>4 DEF WriteEvent, Current, RecInv

LEMMA WriteEventRecords ==
  ASSUME RecInv, NEW k \in Runs, WriteEvent(k)
  PROVE  RecNext
  <1>1. /\ events[k].step # 0 /\ events' = [events EXCEPT ![k] = NoEvent]
        /\ UNCHANGED <<job, task, runs, reports, swept, finished>>
    BY DEF WriteEvent
  <1>2. \A i \in Runs : events'[i] = IF i = k THEN NoEvent ELSE events[i]
    BY <1>1 DEF RecInv, IInv, TypeOK
  <1>3. NotYet' /\ LoopAlone'
    BY <1>1, <1>2 DEF RecInv, Ordered, NotYet, LoopAlone, Quiet
  <1>4. Voices'
    BY <1>1, <1>2 DEF RecInv, Ordered, Voices, Voice
  <1>5. ASSUME ~mishap' PROVE Faithful'
    <2>1. PICK i \in Steps, s \in StepStatus :
            /\ i = events[k].step /\ s = events[k].status
            /\ plan' = [status |-> plan.status, steps |-> [plan.steps EXCEPT ![i] = s]]
            /\ Recorded(i) => s = "done"
      BY <1>5, WrittenByHolder
    <2>2. /\ k = job.attempts /\ job.status = "running" /\ Faithful /\ plan \in Row
          /\ Current(runs[k], events[k], reports[k])
      BY <1>5, WrittenByHolder
    <2>3. /\ plan'.status = plan.status
          /\ \A j \in Steps : plan'.steps[j] = IF j = i THEN s ELSE plan.steps[j]
      BY <2>1, <2>2 DEF Row
    <2>4. reports[k].pc = "idle" /\ reports[Loop].pc = "idle"
      <3>1. events[k] # NoEvent
        BY <1>1 DEF NoEvent
      <3>2. QED
        BY <2>2, <3>1, RunFacts DEF Voice, RecInv, Ordered, LoopAlone
    <2>5. \A j \in Steps : Recorded(j) => Recorded(j)'
      BY <2>1, <2>3 DEF Recorded
    <2>6. AllRecorded => AllRecorded'
      BY <2>5 DEF AllRecorded
    <2>7. NoEvent.step = 0 /\ NoEvent.row = None /\ 0 \notin Steps
      BY DEF NoEvent, Steps
    <2>8. i \in runs[k].todo \cup {runs[k].at} => s # "done"
      BY <2>1, <2>2, <1>1 DEF Current
    <2>9. \A j \in Steps : j \in runs[k].todo \cup {runs[k].at} => ~Recorded(j)'
      BY <2>2, <2>3, <2>8 DEF Current, Recorded
    <2>10. s = "done" => Recorded(i)'
      BY <2>3 DEF Recorded
    <2>11. Current(runs[k], NoEvent, reports[k])'
      BY <1>1, <2>1, <2>2, <2>4, <2>5, <2>6, <2>7, <2>9, <2>10 DEF Current
    <2>12. Current(runs[k], events[k], reports[k])'
      BY <1>2, <2>11 DEF Current, AllRecorded, Recorded
    <2>13. RowFresh(reports[k])' /\ RowFresh(reports[Loop])'
      BY <1>1, <2>4 DEF RowFresh
    <2>14. plan'.status = "completed" => AllRecorded'
      BY <2>2, <2>3, <2>6 DEF Faithful
    <2>15. QED
      BY <1>1, <2>2, <2>12, <2>13, <2>14 DEF Faithful
  <1>6. QED
    BY <1>3, <1>4, <1>5 DEF RecNext, Ordered

LEMMA LoseEventRecords ==
  ASSUME RecInv, NEW k \in Runs, LoseEvent(k)
  PROVE  RecNext
  <1>1. ~Quiet(k)
    BY DEF LoseEvent, Quiet, NoEvent
  <1>2. QED
    BY <1>1, OnlyEventMoves DEF LoseEvent

-----------------------------------------------------------------------------
(* Completions.                                                             *)

\* Handler h goes on to x. Until the first mishap it may write the plan row, but not the
\* steps in it.
LEMMA ReportMoves ==
  ASSUME RecInv, NEW h \in Reporters, reports[h].pc # "idle", NEW x,
         reports' = [reports EXCEPT ![h] = x],
         x.pc = "idle" \/ x.outcome = reports[h].outcome,
         UNCHANGED <<runs, events, swept>>, mishap => mishap',
         job'.attempts = job.attempts,
         job' = job \/ job'.status \in {"done", "failed"},
         ~mishap' => /\ plan'.steps = plan.steps
                     /\ plan'.status = "completed" => AllRecorded
                     /\ \/ plan' = plan
                        \/ h = Loop \/ h = job.attempts
                     /\ x.pc = "write" => x.row.steps = plan.steps
  PROVE  RecNext
  <1>1. /\ Loop \notin Runs /\ Loop \in Reporters /\ Runs \subseteq Reporters
        /\ h = Loop \/ h \in Runs
    BY ExecutionAssumption DEF Runs, Reporters, Loop
  <1>2. \A i \in Reporters : reports'[i] = IF i = h THEN x ELSE reports[i]
    BY DEF RecInv, IInv, TypeOK
  <1>3. \A k \in Runs : Voice(runs[k], events[k], reports[k])
    BY RunFacts
  <1>4. h \in Runs => h <= job.attempts
    BY Claimed
  <1>5. NotYet'
    <2>1. \A k \in Runs : k \in Nat /\ job.attempts \in Nat
      BY ExecutionAssumption DEF Runs, RecInv, IInv, TypeOK
    <2>2. \A k \in Runs : k > job.attempts => k # h
      BY <1>4, <2>1
    <2>3. QED
      BY <1>1, <1>2, <2>2 DEF RecInv, Ordered, NotYet, Quiet
  <1>6. Voices'
    BY <1>1, <1>2, <1>3 DEF Voices, Voice
  <1>7. LoopAlone'
    BY <1>1, <1>2 DEF RecInv, Ordered, LoopAlone
  <1>8. ASSUME ~mishap' PROVE Faithful'
    <2>1. Faithful /\ plan'.steps = plan.steps
      BY <1>8 DEF RecInv
    <2>2. \A i : Recorded(i)' <=> Recorded(i)
      BY <2>1 DEF Recorded
    <2>3. AllRecorded' <=> AllRecorded
      BY <2>2 DEF AllRecorded
    <2>4. ASSUME NEW k \in Runs, k = job.attempts
          PROVE  Current(runs[k], events[k], reports[k])' /\ RowFresh(reports[k])'
      <3>1. Current(runs[k], events[k], reports[k]) /\ RowFresh(reports[k])
        BY <2>1, <2>4 DEF Faithful
      <3>2. RowFresh(reports[k])'
        BY <1>1, <1>2, <1>8, <2>1, <3>1 DEF RowFresh
      <3>3. job'.status = "running" /\ events[k].row # None => plan' = plan
        <4>1. CASE plan' # plan /\ h = Loop
          <5>1. job.status \in {"done", "failed"}
            BY <4>1 DEF RecInv, Ordered, LoopAlone
          <5>2. QED
            BY <5>1
        <4>2. CASE plan' # plan /\ h = job.attempts
          <5>1. events[k] = NoEvent
            BY <1>3, <2>4, <4>2 DEF Voice
          <5>2. QED
            BY <5>1 DEF NoEvent
        <4>3. QED
          BY <1>8, <4>1, <4>2
      <3>4. job'.status = "running" => job.status = "running"
        OBVIOUS
      <3>5. reports'[k].pc # "idle" /\ reports'[k].outcome = "success" => AllRecorded
        BY <1>1, <1>2, <3>1 DEF Current
      <3>6. Current(runs[k], events[k], reports[k])'
        BY <2>2, <2>3, <3>1, <3>3, <3>4, <3>5 DEF Current
      <3>7. QED
        BY <3>2, <3>6
    <2>5. RowFresh(reports[Loop])'
      BY <1>1, <1>2, <1>8, <2>1 DEF Faithful, RowFresh
    <2>6. plan'.status = "completed" => AllRecorded'
      BY <1>8, <2>3
    <2>7. QED
      BY <2>4, <2>5, <2>6 DEF Faithful
  <1>9. QED
    BY <1>5, <1>6, <1>7, <1>8 DEF RecNext, Ordered

\* A handler that goes on keeps its outcome.
LEMMA OnwardIs ==
  ASSUME RecInv, NEW h \in Reporters, NEW pc, NEW row, Onward(h, pc, row)
  PROVE  \E x : /\ reports' = [reports EXCEPT ![h] = x]
                /\ x.pc = pc
                /\ x.pc = "idle" \/ x.outcome = reports[h].outcome
                /\ pc = "write" => x.row = row
  <1>1. CASE pc = "idle"
    <2>1. reports' = [reports EXCEPT ![h] = NoReport]
      BY <1>1 DEF Onward
    <2>2. NoReport.pc = pc
      BY <1>1 DEF NoReport
    <2>3. QED
      BY <1>1, <2>1, <2>2
  <1>2. CASE pc # "idle"
    <2> DEFINE x == [pc |-> pc, outcome |-> reports[h].outcome, row |-> row]
    <2>1. reports' = [reports EXCEPT ![h] = x]
      BY <1>2 DEF Onward
    <2>2. x.pc = pc /\ x.outcome = reports[h].outcome /\ x.row = row
      OBVIOUS
    <2> HIDE DEF x
    <2>3. QED
      BY <2>1, <2>2
  <1>3. QED
    BY <1>1, <1>2

LEMMA CompletionRecords ==
  ASSUME RecInv, NEW h \in Reporters, DoFinish(h) \/ DoTask(h) \/ DoRead(h) \/ CutOff(h)
  PROVE  RecNext
  <1>1. ~mishap => (plan.status = "completed" => AllRecorded)
    BY DEF RecInv, Faithful
  <1>2. CASE DoFinish(h)
    <2>1. PICK pc \in {"task", "read"} : Onward(h, pc, None)
      BY <1>2, CallsAre DEF DoFinish
    <2>2. PICK x : /\ reports' = [reports EXCEPT ![h] = x]
                   /\ x.pc = pc
                   /\ x.pc = "idle" \/ x.outcome = reports[h].outcome
      BY <2>1, OnwardIs
    <2>3. job'.attempts = job.attempts /\ job'.status \in {"done", "failed"}
      BY <1>2 DEF DoFinish, RecInv, IInv, TypeOK
    <2>4. QED
      BY <1>1, <1>2, <2>2, <2>3, ReportMoves DEF DoFinish
  <1>3. CASE DoTask(h)
    <2>1. PICK pc \in {"read", "idle"} : Onward(h, pc, None)
      BY <1>3, CallsAre DEF DoTask
    <2>2. PICK x : /\ reports' = [reports EXCEPT ![h] = x]
                   /\ x.pc = pc
                   /\ x.pc = "idle" \/ x.outcome = reports[h].outcome
      BY <2>1, OnwardIs
    <2>3. QED
      BY <1>1, <1>3, <2>2, ReportMoves DEF DoTask
  <1>4. CASE DoRead(h)
    <2>1. Onward(h, "write", plan)
      BY <1>4, CallsAre DEF DoRead
    <2>2. PICK x : /\ reports' = [reports EXCEPT ![h] = x]
                   /\ x.pc = "write" /\ x.row = plan
                   /\ x.pc = "idle" \/ x.outcome = reports[h].outcome
      BY <2>1, OnwardIs
    <2>3. QED
      BY <1>1, <1>4, <2>2, ReportMoves DEF DoRead
  <1>5. CASE CutOff(h)
    <2>1. NoReport.pc = "idle"
      BY DEF NoReport
    <2>2. QED
      BY <1>1, <1>5, <2>1, ReportMoves DEF CutOff
  <1>6. QED
    BY <1>2, <1>3, <1>4, <1>5

\* Until the first mishap, the row that completeExecuteJob or failJob writes has the
\* steps of the row that is there.
LEMMA EndedByHolder ==
  ASSUME RecInv, NEW h \in Reporters, DoWrite(h), ~mishap'
  PROVE  /\ ~mishap /\ plan'.steps = plan.steps /\ plan'.status \in Ended
         /\ h = Loop \/ (h \in Runs /\ h = job.attempts)
         /\ plan'.status = "completed" => AllRecorded
  <1>1. ~mishap /\ (h = Loop \/ (h \in Runs /\ h = job.attempts))
    <2>1. ~mishap /\ ~(h \in Runs /\ job.attempts # h)
      BY Zenon DEF DoWrite
    <2>2. h = Loop \/ h \in Runs
      BY ExecutionAssumption DEF Runs, Reporters, Loop
    <2>3. QED
      BY <2>1, <2>2
  <1>2. RowFresh(reports[h]) /\ reports[h].pc = "write"
    BY <1>1 DEF RecInv, Faithful, DoWrite
  <1>3. PICK row \in Row : row = reports[h].row
    BY <1>2 DEF RecInv, IInv, TypeOK, ReportsHonest, ReportHonest, Report
  <1>4. /\ plan'.steps = row.steps
        /\ plan'.status = IF reports[h].outcome = "success" THEN "completed" ELSE "failed"
    BY <1>3 DEF DoWrite, Row
  <1>5. h = Loop => reports[h].outcome = "error"
    BY <1>2 DEF RecInv, Ordered, LoopAlone
  <1>6. h \in Runs /\ reports[h].outcome = "success" => AllRecorded
    <2>1. SUFFICES ASSUME h \in Runs, reports[h].outcome = "success"
                   PROVE  AllRecorded
      OBVIOUS
    <2>2. h = job.attempts
      BY <1>1, <2>1, ExecutionAssumption DEF Runs, Loop
    <2>3. Current(runs[h], events[h], reports[h])
      BY <1>1, <2>1, <2>2, RunFacts
    <2>4. QED
      BY <1>2, <2>1, <2>3 DEF Current
  <1>7. QED
    BY <1>1, <1>2, <1>3, <1>4, <1>5, <1>6 DEF RowFresh, Ended

LEMMA DoWriteRecords ==
  ASSUME RecInv, NEW h \in Reporters, DoWrite(h)
  PROVE  RecNext
  <1>1. PICK pc \in {"idle", "task"} : Onward(h, pc, None)
    BY CallsAre DEF DoWrite
  <1>2. PICK x : /\ reports' = [reports EXCEPT ![h] = x]
                 /\ x.pc = pc
                 /\ x.pc = "idle" \/ x.outcome = reports[h].outcome
    BY <1>1, OnwardIs
  <1>3. mishap => mishap'
    BY DEF DoWrite
  <1>4. QED
    BY <1>2, <1>3, EndedByHolder, ReportMoves DEF DoWrite

-----------------------------------------------------------------------------
(* The requeue loop and restarts.                                           *)

\* The row of the job moves, and the requeue loop may go on from where it is idle; the
\* runs, their events and their reports stay.
LEMMA SweepRecords ==
  ASSUME RecInv, SweepScan \/ SweepUpdate
  PROVE  RecNext
  <1>1. /\ Loop \notin Runs /\ Loop \in Reporters /\ Runs \subseteq Reporters
    BY ExecutionAssumption DEF Runs, Reporters, Loop
  <1>2. job \in [status : {"queued", "running", "done", "failed"}, attempts : 0..MaxAttempts]
    BY DEF RecInv, IInv, TypeOK
  <1>3. reports[Loop].pc = "idle" /\ UNCHANGED <<plan, runs, events, mishap>>
    BY DEF SweepScan, SweepUpdate, RecInv, Ordered, LoopAlone
  <1>4. /\ job'.attempts = job.attempts
        /\ job'.status = "running" => job.status = "running"
        /\ \A k \in Runs : reports'[k] = reports[k]
        /\ swept' => reports'[Loop].pc = "idle"
        /\ \/ reports'[Loop] = reports[Loop]
           \/ /\ reports'[Loop] = Begun("error")
              /\ job'.attempts = MaxAttempts /\ job'.status = "failed"
    <2>1. CASE SweepScan
      BY <1>3, <2>1 DEF SweepScan
    <2>2. CASE SweepUpdate
      <3>1. CASE job.attempts >= MaxAttempts
        <4>1. job.attempts = MaxAttempts
          BY <1>2, <3>1, ExecutionAssumption
        <4>2. reports' = [reports EXCEPT ![Loop] = Begun("error")]
          BY <2>2, <3>1 DEF SweepUpdate
        <4>3. \A i \in Reporters : reports'[i] = IF i = Loop THEN Begun("error") ELSE reports[i]
          BY <4>2 DEF RecInv, IInv, TypeOK
        <4>4. job'.attempts = job.attempts /\ job'.status = "failed" /\ ~swept'
          BY <1>2, <2>2, <3>1 DEF SweepUpdate
        <4>5. QED
          BY <1>1, <4>1, <4>3, <4>4
      <3>2. CASE ~(job.attempts >= MaxAttempts)
        <4>1. job'.attempts = job.attempts /\ job'.status = "queued" /\ ~swept'
              /\ reports' = reports
          BY <1>2, <2>2, <3>2 DEF SweepUpdate
        <4>2. QED
          BY <4>1
      <3>3. QED
        BY <3>1, <3>2
    <2>3. QED
      BY <2>1, <2>2
  <1>5. NotYet' /\ Voices'
    BY <1>3, <1>4 DEF RecInv, Ordered, NotYet, Voices, Voice, Quiet
  <1>6. LoopAlone'
    BY <1>3, <1>4 DEF LoopAlone, Begun
  <1>7. ASSUME ~mishap' PROVE Faithful'
    <2>1. Faithful
      BY <1>3, <1>7 DEF RecInv
    <2>2. RowFresh(reports[Loop])'
      BY <1>3, <1>4 DEF RowFresh, Begun
    <2>3. \A k \in Runs : k = job.attempts =>
             Current(runs[k], events[k], reports[k])' /\ RowFresh(reports[k])'
      BY <1>3, <1>4, <2>1 DEF Faithful, Current, RowFresh, AllRecorded, Recorded
    <2>4. QED
      BY <1>3, <1>4, <2>1, <2>2, <2>3 DEF Faithful, AllRecorded, Recorded
  <1>8. QED
    BY <1>5, <1>6, <1>7 DEF RecNext, Ordered

LEMMA RestartRecords ==
  ASSUME RecInv, Restart
  PROVE  RecNext
  <1>1. Loop \in Reporters /\ Runs \subseteq Reporters
    BY ExecutionAssumption DEF Runs, Reporters, Loop
  <1>2. /\ UNCHANGED <<job, plan>> /\ ~swept'
        /\ \A k \in Runs : /\ events'[k] = NoEvent
                           /\ runs'[k] = Over \/ runs'[k] = runs[k]
                           /\ runs[k] = NoRun => runs'[k] = NoRun
        /\ \A h \in Reporters : reports'[h] = NoReport
        /\ ~mishap' => ~mishap /\ \A k \in Runs : events[k] = NoEvent
    <2>1. NoRun.pc = "unused" /\ NoRun.by = "remote"
      BY DEF NoRun, Bare
    <2>2. \A k \in Runs : runs'[k] = IF runs[k].pc = "bundle" \/ runs[k].by = "embedded"
                                     THEN Over ELSE runs[k]
      BY DEF Restart
    <2>3. \A k \in Runs : /\ runs'[k] = Over \/ runs'[k] = runs[k]
                          /\ runs[k] = NoRun => runs'[k] = NoRun
      BY <2>1, <2>2
    <2>4. ~mishap' => ~mishap /\ \A k \in Runs : events[k] = NoEvent
      BY Zenon DEF Restart, Quiet
    <2>5. /\ \A k \in Runs : events'[k] = NoEvent
          /\ \A h \in Reporters : reports'[h] = NoReport
      BY DEF Restart
    <2>6. UNCHANGED <<job, plan>> /\ ~swept'
      BY DEF Restart
    <2>7. QED
      BY <2>3, <2>4, <2>5, <2>6
  <1>3. NoReport.pc = "idle" /\ NoEvent.step = 0 /\ NoEvent.row = None
    BY DEF NoReport, NoEvent
  <1>4. NotYet'
    BY <1>1, <1>2, <1>3 DEF RecInv, Ordered, NotYet, Quiet
  <1>5. Voices'
    <2>1. \A k \in Runs : Voice(runs[k], NoEvent, NoReport)
      BY <1>3, RunFacts DEF Voice
    <2>2. Voice(Over, NoEvent, NoReport)
      BY <1>3, OverIsCurrent
    <2>3. \A k \in Runs : Voice(runs'[k], NoEvent, NoReport)
      BY <1>2, <2>1, <2>2
    <2>4. QED
      BY <1>1, <1>2, <2>3 DEF Voices, Voice
  <1>6. LoopAlone'
    BY <1>1, <1>2, <1>3 DEF LoopAlone
  <1>7. ASSUME ~mishap' PROVE Faithful'
    <2>1. Faithful /\ \A k \in Runs : events[k] = NoEvent
      BY <1>2, <1>7 DEF RecInv
    <2>2. ASSUME NEW k \in Runs, k = job.attempts
          PROVE  Current(runs'[k], NoEvent, NoReport)
      <3>1. Current(runs[k], NoEvent, NoReport)
        BY <1>3, <2>1, <2>2 DEF Faithful, Current
      <3>2. Current(Over, NoEvent, NoReport)
        BY <1>3, OverIsCurrent
      <3>3. QED
        BY <1>2, <3>1, <3>2
    <2>3. \A k \in Runs : k = job.attempts =>
             Current(runs[k], events[k], reports[k])' /\ RowFresh(reports[k])'
      BY <1>1, <1>2, <1>3, <2>2 DEF Current, RowFresh, AllRecorded, Recorded
    <2>4. QED
      BY <1>1, <1>2, <1>3, <2>1, <2>3 DEF Faithful, RowFresh, AllRecorded, Recorded
  <1>8. QED
    BY <1>4, <1>5, <1>6, <1>7 DEF RecNext, Ordered

LEMMA StutterRecords ==
  ASSUME RecInv, UNCHANGED vars
  PROVE  RecNext
  <1>1. Ordered'
    BY DEF vars, RecInv, Ordered, NotYet, Voices, Voice, LoopAlone, Quiet
  <1>2. ~mishap' => Faithful'
    BY DEF vars, RecInv, Faithful, Current, RowFresh, AllRecorded, Recorded
  <1>3. QED
    BY <1>1, <1>2 DEF RecNext

-----------------------------------------------------------------------------
(* What follows.                                                            *)

LEMMA InitRecords == Init => RecInv
  <1> SUFFICES ASSUME Init PROVE RecInv
    OBVIOUS
  <1>1. IInv
    BY InitIInv
  <1>2. /\ Loop \in Reporters /\ Runs \subseteq Reporters /\ 0 \notin Runs /\ 0 \notin Steps
        /\ NoReport.pc = "idle" /\ NoRun.at = 0 /\ NoRun.todo = {}
    BY ExecutionAssumption DEF Runs, Reporters, Loop, Steps, NoReport, NoRun, Bare
  <1>3. NotYet /\ Voices /\ LoopAlone
    BY <1>2 DEF Init, NotYet, Voices, Voice, LoopAlone, Quiet
  <1>4. Faithful
    BY <1>2 DEF Init, Faithful, RowFresh
  <1>5. QED
    BY <1>1, <1>3, <1>4 DEF RecInv, Ordered

LEMMA NextRecords == RecInv /\ [Next]_vars => RecInv'
  <1> SUFFICES ASSUME RecInv, [Next]_vars PROVE RecInv'
    OBVIOUS
  <1>1. IInv'
    BY NextKeeps DEF RecInv
  <1>2. ASSUME NEW k \in Runs, EngineNext(k) PROVE RecNext
    BY <1>2, ClaimRecords, BuildBundleRecords, ClientFailsRecords, BundleFailsRecords,
       StartStepRecords, StepDoneRecords, StepFailedRecords, StepErrorRecords, WrapUpRecords,
       CompleteRecords, LeaveRecords DEF EngineNext
  <1>3. ASSUME NEW k \in Runs, EventNext(k) PROVE RecNext
    BY <1>3, ReadEventRecords, WriteEventRecords, LoseEventRecords DEF EventNext
  <1>4. ASSUME NEW h \in Reporters, ReportNext(h) PROVE RecNext
    BY <1>4, CompletionRecords, DoWriteRecords DEF ReportNext
  <1>5. RecNext
    BY <1>2, <1>3, <1>4, SweepRecords, RestartRecords, StutterRecords DEF Next
  <1>6. QED
    BY <1>1, <1>5 DEF RecInv, RecNext

\* What each run, event and handler knows of the plan row is so, until the first mishap.
THEOREM RecordInvariant == Spec => []RecInv
  BY InitRecords, NextRecords, PTL DEF Spec

\* A plan is completed with every step shown as done, if no event was lost and no run
\* wrote after it had lost its job.
THEOREM StepsAreRecorded == Spec => []StepsRecorded
  <1>1. RecInv => StepsRecorded
    BY DEF RecInv, Faithful, AllRecorded, Recorded, StepsRecorded
  <1>2. QED
    BY <1>1, RecordInvariant, PTL

\* Until then, a step recorded as done stays so, whichever handlers write whole rows
\* back, and a plan that has ended stays ended.
THEOREM RecordsStay == Spec => RecordStays
  <1> DEFINE Stays == ~mishap' =>
         /\ \A i \in Steps : plan.steps[i] = "done" => plan'.steps[i] = "done"
         /\ plan.status \in Ended => plan'.status \in Ended
  <1>1. ASSUME RecInv, Next PROVE Stays
    <2>1. CASE UNCHANGED plan
      BY <2>1
    <2>2. ASSUME NEW k \in Runs, WriteEvent(k) PROVE Stays
      <3> SUFFICES ASSUME ~mishap'
                   PROVE  /\ \A i \in Steps : plan.steps[i] = "done" => plan'.steps[i] = "done"
                          /\ plan'.status = plan.status
        OBVIOUS
      <3>1. PICK i \in Steps, s \in StepStatus :
              /\ plan' = [status |-> plan.status, steps |-> [plan.steps EXCEPT ![i] = s]]
              /\ Recorded(i) => s = "done"
        BY <1>1, <2>2, WrittenByHolder
      <3>2. plan \in Row
        BY <1>1 DEF RecInv, IInv, TypeOK
      <3>3. QED
        BY <3>1, <3>2 DEF Row, Recorded
    <2>3. ASSUME NEW h \in Reporters, DoWrite(h) PROVE Stays
      BY <1>1, <2>3, EndedByHolder
    <2>4. ASSUME NEW k \in Runs, EngineNext(k) PROVE UNCHANGED plan
      BY <2>4 DEF EngineNext, Claim, BuildBundle, ClientFails, BundleFails, StartStep,
         StepDone, StepFailed, StepError, WrapUp, Complete, Leave
    <2>5. ASSUME NEW k \in Runs, ReadEvent(k) \/ LoseEvent(k) PROVE UNCHANGED plan
      BY <2>5 DEF ReadEvent, LoseEvent
    <2>6. ASSUME NEW h \in Reporters, DoFinish(h) \/ DoTask(h) \/ DoRead(h) \/ CutOff(h)
          PROVE  UNCHANGED plan
      BY <2>6 DEF DoFinish, DoTask, DoRead, CutOff
    <2>7. SweepScan \/ SweepUpdate \/ Restart => UNCHANGED plan
      BY DEF SweepScan, SweepUpdate, Restart
    <2>8. QED
      BY <1>1, <2>1, <2>2, <2>3, <2>4, <2>5, <2>6, <2>7 DEF Next, EventNext, ReportNext
  <1>2. RecInv /\ [Next]_vars => [Stays]_vars
    BY <1>1
  <1>3. QED
    BY <1>2, RecordInvariant, PTL DEF Spec, RecordStays

=============================================================================
