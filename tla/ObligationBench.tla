--------------------------- MODULE ObligationBench ---------------------------
(***************************************************************************)
(* run_llm_obligation_benchmark: one proposal is generated for each        *)
(* scenario and repetition and then met by every condition, one after the  *)
(* other in one thread.                                                    *)
(*   wccu_eval/eval/run_llm_obligation_benchmark.py                        *)
(***************************************************************************)
EXTENDS CellPool

VARIABLE writer   \* what the writer proposed for the pair at hand

benchVars == <<poolVars, writer>>

NoProposal == <<>>

BenchAt(j, n) ==
    LET pair  == n \div Len(j.conditions)
        scens == Len(j.scenarios)
    IN  [scenario |-> j.scenarios[(pair % scens) + 1],
         condition |-> j.conditions[(n % Len(j.conditions)) + 1],
         rep |-> pair \div scens]

BenchQueue(j) == [n \in 1..CellCount(j) |-> BenchAt(j, n - 1)]

Pair(c) == [scenario |-> c.scenario, rep |-> c.rep]

Under(c, cond) == [scenario |-> c.scenario, condition |-> cond, rep |-> c.rep]

\* The conditions the pair at hand has still to meet.
Left == ((Len(queue) - 1) % Len(job.conditions)) + 1

OtherPairs == SubSeq(queue, Left + 1, Len(queue))

\* The proposal went through the merge stage and the cell's own store.
BenchRow(c) == [cell |-> c, is |-> "row", said |-> writer, saw |-> c]

InPair ==
    /\ job.driver = "bench"
    /\ phase = "running"
    /\ queue # <<>>
    /\ raised = {}

Generate ==
    /\ InPair
    /\ writer = NoProposal
    /\ writer' \in Calls(Head(queue))
    /\ UNCHANGED poolVars

\* The next condition meets a copy of the proposal in a store of its own.
MeetCondition ==
    /\ InPair
    /\ writer # NoProposal
    /\ LET r == BenchRow(Head(queue))
       IN  /\ results' = Append(results, r)
           /\ jsonl' = [jsonl EXCEPT ![job.out] = Append(@, r)]
    /\ queue' = Tail(queue)
    /\ writer' = IF queue' = OtherPairs THEN NoProposal ELSE writer
    /\ store' = Seeded(Head(queue))
    /\ UNCHANGED <<job, phase, running, raised, done, frozen, errors>>

\* BUG: only the condition at hand gets an error row.
MutPairRaises ==
    /\ InPair
    /\ ~job.failFast
    /\ LET rows == <<ErrorRow(Head(queue))>>
       IN  /\ results' = results \o rows
           /\ jsonl' = [jsonl EXCEPT ![job.out] = @ \o rows]
    /\ raised' = {Under(Head(queue), "*")}
    /\ queue' = OtherPairs
    /\ writer' = NoProposal
    /\ UNCHANGED <<job, phase, running, done, store, frozen, errors>>

\* The generation or a condition raises: every condition of the pair gets an
\* error row, the conditions that already have a row included.
PairRaises ==
    /\ InPair
    /\ ~job.failFast
    /\ LET rows == [k \in 1..Len(job.conditions) |->
                      ErrorRow(Under(Head(queue), job.conditions[k]))]
       IN  /\ results' = results \o rows
           /\ jsonl' = [jsonl EXCEPT ![job.out] = @ \o rows]
    /\ raised' = {Under(Head(queue), "*")}
    /\ queue' = OtherPairs
    /\ writer' = NoProposal
    /\ UNCHANGED <<job, phase, running, done, store, frozen, errors>>

\* Only then is the pair's error logged.
LogPair ==
    /\ job.driver = "bench"
    /\ raised # {}
    /\ errors' = [errors EXCEPT ![job.log] = @ \cup {Entry(c) : c \in raised}]
    /\ raised' = {}
    /\ UNCHANGED <<job, phase, queue, running, done, results, store, frozen,
                   jsonl, writer>>

\* Under --fail-fast the exception leaves the benchmark.
BenchRaises ==
    /\ InPair
    /\ job.failFast
    /\ phase' = "leaving"
    /\ queue' = <<>>
    /\ writer' = NoProposal
    /\ UNCHANGED <<job, running, raised, done, results, store, frozen, jsonl,
                   errors>>

BenchNext ==
    \/ Generate
    \/ MeetCondition
    \/ PairRaises
    \/ LogPair
    \/ BenchRaises
=============================================================================
