------------------------------ MODULE MCStaff ------------------------------
(* The instance of Staff for TLC: who may make which claim, and calls.    *)
EXTENDS Staff

\* The embedded runner, which nobody checks when it reports, may only be first.
AnyThenRemote == [r \in Runs |-> IF r = 1 THEN {"remote", "embedded"} ELSE {"remote"}]

\* One account is enough to be lost, doubled or overwritten.
FirstCalls == [r \in Runs |-> IF r = 1 THEN 1 ELSE 0]
=============================================================================
