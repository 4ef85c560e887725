---------------------------- MODULE MCExecution ----------------------------
(* The instance of Execution for TLC: who may claim which attempt.         *)
EXTENDS Execution

\* The embedded runner, which nobody checks when it reports, is followed by
\* remote ones, which may report twice.
EmbeddedFirst == [k \in Runs |-> IF k = 1 THEN {"embedded"} ELSE {"remote"}]
=============================================================================
