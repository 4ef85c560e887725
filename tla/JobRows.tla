------------------------------ MODULE JobRows ------------------------------
(***************************************************************************)
(* What the table jobs promises to all who read it, whoever writes it: how *)
(* a row moves, and how its attempts are counted (Job in domain/models.go, *)
(* the statements of the store). It is deliberately weak where the         *)
(* statements are: FinishJob and the UPDATEs of RequeueStaleJobs name no   *)
(* status in their WHERE, so a row that was claimed once may end, or be    *)
(* queued again, from any status.                                          *)
(***************************************************************************)
EXTENDS Integers

CONSTANTS
    JobIds,      \* the rows there may be
    MaxAttempts  \* maxJobAttempts

VARIABLE rows    \* status and attempts of each row

Init == rows = [j \in JobIds |-> [status |-> "absent", attempts |-> 0]]

Write(j, status, attempts) ==
    rows' = [rows EXCEPT ![j] = [status |-> status, attempts |-> attempts]]

\* CreateJob
Create(j) ==
    /\ rows[j].status = "absent"
    /\ Write(j, "queued", 0)

\* ClaimJob takes only queued rows, and none has used its attempts.
Claim(j) ==
    /\ rows[j].status = "queued"
    /\ rows[j].attempts < MaxAttempts
    /\ Write(j, "running", rows[j].attempts + 1)

\* FinishJob, RequeueStaleJobs
End(j) ==
    /\ rows[j].attempts > 0
    /\ Write(j, "ended", rows[j].attempts)

\* RequeueStaleJobs: a row that has attempts left.
Requeue(j) ==
    /\ rows[j].attempts > 0
    /\ rows[j].attempts < MaxAttempts
    /\ Write(j, "queued", rows[j].attempts)

Next == \E j \in JobIds : Create(j) \/ Claim(j) \/ End(j) \/ Requeue(j)

Spec == Init /\ [][Next]_rows
=============================================================================
