---------------------------- MODULE MCJobQueue ----------------------------
(* Instances of JobQueue for TLC: which job asks for which runner.         *)
EXTENDS JobQueue

Pair(k, v) == [key |-> k, value |-> v]

MCKeys == {"runtime", "host"}
MCValues == {"", "baremetal", "embedded", "docker", "box"}

\* remote runners run in docker on the machine of the control plane; the flag gives
\* the runtime twice
DockerFlags == [r \in Remotes |->
    <<Pair("runtime", "baremetal"), Pair("host", "box"), Pair("runtime", "docker")>>]

\* no selector: every runner may run every job
AnyRunner == [j \in JobIds |-> <<>>]

\* the first job is for docker on that machine, which the embedded runner meets by half;
\* a piece without "=" does not count
FirstInDocker == [j \in JobIds |->
    IF j = 1 THEN <<Pair("host", "box"), NoPair, Pair("runtime", "docker")>> ELSE <<>>]
=============================================================================
