-------------------------- MODULE DependencyWitness --------------------------
(***************************************************************************)
(* The read witnesses the harness compiles for an agent's intents:         *)
(*   wccu_eval/scheduler/dependency_witness.py                             *)
(* and what certificate verification reads in them (scheduler/wccu.py).    *)
(*                                                                         *)
(* A read is a record [target, expected, fresh], expected "" when it says  *)
(* nothing of the status.  An agent has an id and a role, the reads its    *)
(* scripted output and its configuration log; shown is the status of each  *)
(* atom in its projection.                                                 *)
(***************************************************************************)
EXTENDS Certificate, SequencesExt, TLC

\* BUG: reads declared for a role are not collected.
MutDeclaredReads(agent, sc) ==
    agent.scripted \o agent.configured
      \o Declared(sc, agent.id) \o Declared(sc, "*")

\* _collect_declared_reads
DeclaredReads(agent, sc) ==
    agent.scripted \o agent.configured
      \o Declared(sc, agent.id) \o Declared(sc, agent.role) \o Declared(sc, "*")

StatusShown(t, shown) == IF t \in DOMAIN shown THEN shown[t] ELSE "active"

NormalizedRead(r, shown) ==
    [r EXCEPT !.expected = IF @ = "" THEN StatusShown(r.target, shown) ELSE @]

\* The items of s at the places of P, in their order.
ItemsAt(s, P) ==
    [n \in 1..Cardinality(P) |->
        s[CHOOSE k \in P : Cardinality({j \in P : j < k}) = n - 1]]

\* Reads that name no target are dropped; of several of one target the last
\* counts, at the place of the first.
Compiled(reads, shown) ==
    LET first == ItemsAt(reads, FirstReads(reads))
    IN  [n \in DOMAIN first |->
            NormalizedRead(LastRead(reads, first[n].target), shown)]

Fakes(count) ==
    [k \in 1..count |-> [target |-> "fake_dep_" \o ToString(k),
                         expected |-> "active", fresh |-> TRUE]]

\* compile_dependency_witness, which may drop reads and add made-up ones.
Witness(deps, dropped, fakes) ==
    LET kept == ItemsAt(deps, {k \in DOMAIN deps : deps[k].target \notin dropped})
                    \o Fakes(fakes)
    IN  [deps |-> kept, declared |-> Len(deps), dropped |-> Cardinality(dropped),
         fakes |-> fakes]

\* A witness lists its reads twice, as records and by id, and verification
\* takes the later row of a target: what the read expected, and that it need
\* not be fresh, is lost.
AsVerified(deps, shown) ==
    [k \in DOMAIN deps |->
        [target   |-> deps[k].target,
         expected |-> StatusShown(deps[k].target, shown),
         fresh    |-> TRUE]]
=============================================================================
