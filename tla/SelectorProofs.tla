--------------------------- MODULE SelectorProofs ---------------------------
(* What SelectorMatches and parseLabels compute, for all selectors and labels. *)
EXTENDS Selector, TLAPS

Blank(selector) == \E i \in Pairs(selector) : selector[i].value = ""

\* A runner that SelectorMatches lets a job go to carries all pairs of the selector.
THEOREM MatchCarries ==
    ASSUME NEW selector, NEW labels, SelectorMatches(selector, labels)
    PROVE  Carries(labels, selector)
  <1> SUFFICES ASSUME NEW i \in Pairs(selector), selector[i].value # ""
               PROVE  /\ selector[i].key \in DOMAIN labels
                      /\ labels[selector[i].key] = selector[i].value
    BY DEF Carries
  <1>1. Label(labels, selector[i].key) = selector[i].value
    BY DEF SelectorMatches
  <1>2. QED
    BY <1>1 DEF Label

\* And a runner that carries all pairs is let through, if no pair asks for "".
THEOREM CarrierMatches ==
    ASSUME NEW selector, NEW labels, Carries(labels, selector), ~Blank(selector)
    PROVE  SelectorMatches(selector, labels)
  BY DEF Carries, Blank, SelectorMatches, Label

\* A selector that asks for two values of one key is met by no runner: its jobs are
\* never claimed.
THEOREM ContradictionUnmet ==
    ASSUME NEW selector, NEW labels,
           NEW h \in Pairs(selector), NEW i \in Pairs(selector),
           selector[h].key = selector[i].key, selector[h].value # selector[i].value
    PROVE  ~SelectorMatches(selector, labels)
  BY DEF SelectorMatches

\* A runner takes the jobs of agents whose selector repeats its --labels flag, if the flag
\* does not give a key twice: the default runtime of main does not get in the way.
THEOREM OwnLabelsMatch ==
    ASSUME NEW flag \in Seq(Item),
           \A h, i \in Pairs(flag) : flag[h].key = flag[i].key => h = i
    PROVE  SelectorMatches(flag, RunnerLabels(flag))
  <1> DEFINE Last(k, i) == /\ flag[i].key = k
                           /\ \A h \in Pairs(flag) : flag[h].key = k => h <= i
  <1> SUFFICES ASSUME NEW i \in Pairs(flag)
               PROVE  Label(RunnerLabels(flag), flag[i].key) = flag[i].value
    BY DEF SelectorMatches
  <1> DEFINE k == flag[i].key
  <1>1. i \in Int
    BY DEF Pairs
  <1>2. Last(k, i) /\ \A h \in Pairs(flag) : Last(k, h) => h = i
    BY <1>1
  <1>3. (CHOOSE h \in Pairs(flag) : Last(k, h)) = i
    BY <1>2
  <1>4. k \in DOMAIN ParseLabels(flag) /\ ParseLabels(flag)[k] = flag[i].value
    BY <1>3 DEF ParseLabels
  <1>5. QED
    BY <1>4 DEF RunnerLabels, Label
=============================================================================
