--------------------------- MODULE TaskLifecycle ---------------------------
(* What the control plane promises about one task, whatever plans, jobs and *)
(* handlers there are: the statuses of the human-in-the-loop lifecycle and  *)
(* the moves between them (domain/models.go, the diagram in README.md).     *)
CONSTANT TaskIds

VARIABLE status

Init == status = [t \in TaskIds |-> "absent"]

Move(t, from, to) ==
    /\ status[t] \in from
    /\ \E s \in to : status' = [status EXCEPT ![t] = s]

Create(t) == Move(t, {"absent"}, {"inbox"})

\* an agent is assigned, for the first time or to retry
Start(t) == Move(t, {"inbox", "failed", "rejected"}, {"planning"})

\* a plan is proposed, or approved at once for an autonomous agent
Plan(t) == Move(t, {"planning"}, {"awaiting_approval", "executing", "failed"})

\* approve, reject or request changes
Decide(t) == Move(t, {"awaiting_approval"}, {"executing", "rejected", "planning"})

Execute(t) == Move(t, {"executing"}, {"done", "failed"})

Delete(t) == Move(t, {"inbox", "planning", "awaiting_approval", "executing",
                      "done", "failed", "rejected"}, {"deleted"})

Next == \E t \in TaskIds :
    Create(t) \/ Start(t) \/ Plan(t) \/ Decide(t) \/ Execute(t) \/ Delete(t)

Spec == Init /\ [][Next]_status

\* Planning and execution end; a human need not decide.
FairSpec == Spec /\ \A t \in TaskIds : WF_status(Plan(t)) /\ WF_status(Execute(t))
=============================================================================
