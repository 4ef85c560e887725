------------------------------ MODULE Selector ------------------------------
(***************************************************************************)
(* Label selectors: an agent pins its jobs to runners whose labels contain *)
(* all pairs of its runner_selector, as in "runtime=docker,gpu=true".      *)
(*                                                                         *)
(* A selector, and the --labels flag of a runner, is the sequence of items *)
(* between its commas, trimmed. An item is a pair, or NoPair if it has no  *)
(* "=" (as a blank one has). The labels of a runner are a map.             *)
(***************************************************************************)
EXTENDS Integers, Sequences

CONSTANTS
    Keys,    \* the keys that are used
    Values,  \* the values that are used; "" is one
    Host,    \* os.Hostname() of the control plane
    NoPair   \* an item without "="

Item == [key : Keys, value : Values] \cup {NoPair}

ASSUME SelectorAssumption ==
    /\ {"runtime", "host"} \subseteq Keys
    /\ {"", "baremetal", "embedded", Host} \subseteq Values
    /\ NoPair \notin [key : Keys, value : Values]

\* The items strings.Cut finds an "=" in.
Pairs(items) == {i \in DOMAIN items : items[i] # NoPair}

\* parseLabels: a later pair with the same key wins.
ParseLabels(flag) ==
    [k \in {flag[i].key : i \in Pairs(flag)} |->
        flag[CHOOSE i \in Pairs(flag) :
               /\ flag[i].key = k
               /\ \A h \in Pairs(flag) : flag[h].key = k => h <= i].value]

\* main of the runner command: what --labels says, and a runtime in any case.
RunnerLabels(flag) ==
    LET parsed == ParseLabels(flag)
    IN [k \in DOMAIN parsed \cup {"runtime"} |->
           IF k \in DOMAIN parsed THEN parsed[k] ELSE "baremetal"]

\* runEmbeddedRunner
EmbeddedLabels == [runtime |-> "embedded", host |-> Host]

\* labels[k] in Go: a key that is missing reads as "".
Label(labels, k) == IF k \in DOMAIN labels THEN labels[k] ELSE ""

\* Mutant of SelectorMatches: one pair that agrees is enough.
SelectorMatchesOne(selector, labels) ==
    \/ Pairs(selector) = {}
    \/ \E i \in Pairs(selector) : Label(labels, selector[i].key) = selector[i].value

\* SelectorMatches: an item without "=" says nothing; a blank selector has no other.
SelectorMatches(selector, labels) ==
    \A i \in Pairs(selector) : Label(labels, selector[i].key) = selector[i].value

\* The reference, from Agent.RunnerSelector: "runners whose labels contain all key=value
\* pairs". (A pair "k=" asks in the code for "" or nothing at all under k.)
Carries(labels, selector) ==
    \A i \in Pairs(selector) :
        selector[i].value # "" =>
            /\ selector[i].key \in DOMAIN labels
            /\ labels[selector[i].key] = selector[i].value
=============================================================================
