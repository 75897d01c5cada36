------------------------------ MODULE Workload ------------------------------
EXTENDS Naturals, Sequences

\* What the merge stage may be called with: a set of workloads, each a record
\* [pool, scenarios, modes, size] of the (grounded) intents agents may emit,
\* the scenarios and policy modes, and a bound on the size of a batch.
CONSTANT Workloads

ASSUME WorkloadsAssumption == \A w \in Workloads : w.size \in Nat

IntentPool == UNION {w.pool : w \in Workloads}

\* The reads logged for an intent are a list.
ASSUME ReadsAssumption ==
    \A i \in IntentPool : i.reads \in Seq({i.reads[k] : k \in DOMAIN i.reads})

Scenarios  == UNION {w.scenarios : w \in Workloads}
Modes      == UNION {w.modes : w \in Workloads}
=============================================================================
