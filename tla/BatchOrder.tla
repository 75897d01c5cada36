----------------------------- MODULE BatchOrder -----------------------------
(***************************************************************************)
(* Two calls of the resolver on the same intents in two orders.  The order *)
(* of a batch is the order of the scenario's agent list (pool.map keeps it *)
(* whatever order the agents finish in), which nothing in the policies     *)
(* makes meaningful: where an intent is routed must not depend on it.      *)
(***************************************************************************)
EXTENDS ConflictResolver

CONSTANTS CalledTwice,   \* the workloads whose intents meet two calls
          Orders         \* position in the second batch -> in the first

Permutes(q, S) ==
    /\ q \in [S -> S]
    /\ \A n \in S : \E m \in S : q[m] = n
    /\ \A m, n \in S : q[m] = q[n] => m = n

ASSUME OrdersAssumption == \A q \in Orders : Permutes(q, DOMAIN q)

VARIABLES call,     \* the first or the second
          order,    \* of the second batch
          before    \* what the first call returned

bothVars == <<vars, call, order, before>>

BothInit ==
    /\ Init
    /\ call = 1
    /\ order = <<>>
    /\ before = [outcome |-> <<>>, metrics |-> <<>>]

\* The second call, on the intents of the first.
CallAgain ==
    /\ call = 1 /\ stage = "done"
    /\ \E w \in CalledTwice :
          /\ mode \in w.modes
          /\ scenario \in w.scenarios
          /\ \A n \in DOMAIN input : input[n] \in w.pool
    /\ order' \in {q \in Orders : DOMAIN q = DOMAIN input}
    /\ input' = [n \in DOMAIN input |-> input[order'[n]]]
    /\ verdict' = [n \in DOMAIN input' |-> Unverified]
    /\ outcome' = [n \in DOMAIN input' |-> "pending"]
    /\ stage' = "collect" /\ live' = {}
    /\ metrics' = [f \in MetricNames |-> 0]
    /\ before' = [outcome |-> outcome, metrics |-> metrics]
    /\ call' = 2
    /\ UNCHANGED <<mode, scenario>>

BothNext ==
    \/ Next /\ UNCHANGED <<call, order, before>>
    \/ CallAgain

BothSpec == BothInit /\ [][BothNext]_bothVars

\* Both calls route every intent alike and report the same counters.
OrderDoesNotMatter ==
    call = 2 /\ stage = "done" =>
        /\ \A n \in DOMAIN input : outcome[n] = before.outcome[order[n]]
        /\ metrics = before.metrics
=============================================================================
