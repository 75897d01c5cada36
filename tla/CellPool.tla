------------------------------ MODULE CellPool ------------------------------
(***************************************************************************)
(* The process of one experiment driver while it works through its cells.  *)
(* A cell is one scenario under one condition in one repetition.           *)
(*   wccu_eval/eval/run_cooperbench_substrate.py     driver "live"         *)
(*   wccu_eval/eval/run_llm_experiment.py            driver "live"         *)
(*   run_cooperbench_frozen_generation               driver "generate"     *)
(*   wccu_eval/eval/run_cooperbench_frozen_replay.py driver "replay"       *)
(*   wccu_eval/eval/run_experiment.py                driver "plain"        *)
(*                                                                         *)
(* What a cell's executor does is TeamExecutor's business; here it ends    *)
(* with what its agents said, or it raises.  The order of the rows in a    *)
(* file is layout (a parallel driver sorts them).                          *)
(***************************************************************************)
EXTENDS Integers, Sequences, FiniteSets

CONSTANTS Agents,           \* the team of every scenario
          Answers,          \* scenario -> what an agent may say in it
          KnownConditions   \* the keys of the table of conditions

\* Every scenario has a team; that of a CooperBench task has two agents
\* (cooperbench_adapter.py:389).
ASSUME TeamAssumption == Agents # {}

VARIABLES job,      \* the driver that runs, or ran last: a record of
                    \* [driver, out, log, scenarios, conditions, repetitions,
                    \*  workers, shuffle, failFast]
          phase,    \* where its main thread is
          queue,    \* cells submitted and not yet started
          running,  \* cells whose store is seeded
          raised,   \* cells whose executor raised, their error not yet logged
          done,     \* rows of futures the main thread has not collected
          results,  \* rows collected
          store,    \* run directory -> the cell whose seed is in it
          frozen,   \* the index of recorded outputs, in memory
          jsonl,    \* file: out -> rows appended so far
          errors    \* file: error log -> entries

inProcess == <<phase, queue, running, raised, done, results, store, frozen>>
poolVars == <<job, inProcess, jsonl, errors>>

Calls(c) == [Agents -> Answers[c.scenario]]

Phases == {"idle", "running", "leaving", "freezing", "stamping"}

\* The drivers that ask a provider keep an error log.
Logs(j) == j.driver \in {"live", "generate", "bench"}

-----------------------------------------------------------------------------
(* The cells of a job, in the order of the driver's loops. *)

CellCount(j) == Len(j.scenarios) * Len(j.conditions) * j.repetitions

CellAt(j, n) ==
    LET conds == Len(j.conditions)
        round == n \div j.repetitions
    IN  [scenario |-> j.scenarios[(round \div conds) + 1],
         condition |-> j.conditions[(round % conds) + 1],
         rep |-> n % j.repetitions]

Cells(j) == {CellAt(j, n) : n \in 0..(CellCount(j) - 1)}

\* Shuffled cells are sorted by a hash, which may give any order.
Orders(j) ==
    LET size == CellCount(j)
    IN  IF j.shuffle
        THEN {p \in [1..size -> 0..(size - 1)] :
                 \A a, b \in 1..size : p[a] = p[b] => a = b}
        ELSE {[n \in 1..size |-> n - 1]}

Queues(j) == {[n \in 1..CellCount(j) |-> CellAt(j, p[n])] : p \in Orders(j)}

\* BUG: repetitions of a cell share their directory.
MutRunDir(c) == <<c.scenario, c.condition>>

\* The directory is named scenario_condition_repetition; no two cells of the
\* declared scenarios and conditions have the same name.
RunDir(c) == <<c.scenario, c.condition, c.rep>>

\* The directory of a cell is emptied and its seed put in.
Seeded(c) ==
    [dir \in DOMAIN store \cup {RunDir(c)} |->
        IF dir = RunDir(c) THEN c ELSE store[dir]]

-----------------------------------------------------------------------------
(* Rows. *)

Row(c, said) == [cell |-> c, is |-> "row", said |-> said,
                 saw |-> store[RunDir(c)]]

\* An error row's counters are all zero.
ErrorRow(c) == [cell |-> c, is |-> "error", said |-> <<>>, saw |-> c]

\* When seeding fails, under --fail-fast, and in run_experiment the exception
\* leaves the cell.
Exception(c) == [cell |-> c, is |-> "exception", said |-> <<>>, saw |-> c]

Entry(c) == [out |-> job.out, cell |-> c]

\* BUG: a record is looked up whatever its repetition.
MutRecordKey(c, a) == <<c.scenario, 0, a>>

RecordKey(c, a) == <<c.scenario, c.rep, a>>

\* What a cell's agents may say: anything a provider answers or, in a replay,
\* what is recorded for them.  A missing record raises.
Replies(c) ==
    IF job.driver # "replay" THEN Calls(c)
    ELSE IF \A a \in Agents : RecordKey(c, a) \in DOMAIN frozen
         THEN {[a \in Agents |-> frozen[RecordKey(c, a)]]}
         ELSE {}

-----------------------------------------------------------------------------
(* The workers. *)

AtWork == running \cup raised

\* BUG: a pool that is being left starts no cell.
MutTakesCell ==
    /\ job.driver # "bench"
    /\ phase = "running"
    /\ queue # <<>>
    /\ Head(queue).condition \in KnownConditions
    /\ Cardinality(AtWork) < job.workers
    /\ job.workers = 1 => done = {}
    /\ queue' = Tail(queue)

\* A worker, or the main thread of a sequential driver between two rows,
\* takes the next cell.
TakesCell ==
    /\ job.driver # "bench"
    /\ phase \in {"running", "leaving"}
    /\ queue # <<>>
    /\ Head(queue).condition \in KnownConditions
    /\ Cardinality(AtWork) < job.workers
    /\ job.workers = 1 => done = {}
    /\ queue' = Tail(queue)

\* It empties the cell's directory and seeds a store in it.
SeedCell ==
    /\ TakesCell
    /\ running' = running \cup {Head(queue)}
    /\ store' = Seeded(Head(queue))
    /\ UNCHANGED <<job, phase, raised, done, results, frozen, jsonl, errors>>

\* The seeding is outside of what a cell catches.
SeedRaises ==
    /\ TakesCell
    /\ done' = done \cup {Exception(Head(queue))}
    /\ UNCHANGED <<job, phase, running, raised, results, store, frozen,
                   jsonl, errors>>

FinishCell(c) ==
    /\ c \in running
    /\ \E said \in Replies(c) : done' = done \cup {Row(c, said)}
    /\ running' = running \ {c}
    /\ UNCHANGED <<job, phase, queue, raised, results, store, frozen,
                   jsonl, errors>>

\* BUG: the row is handed over first and the error logged afterwards.
MutCellRaises(c) ==
    /\ c \in running
    /\ running' = running \ {c}
    /\ raised' = raised \cup {c}
    /\ done' = done \cup {ErrorRow(c)}
    /\ UNCHANGED <<job, phase, queue, results, store, frozen, jsonl, errors>>

\* The executor raises: an agent whose provider gave up, a missing record or
\* any other exception.
CellRaises(c) ==
    /\ c \in running
    /\ running' = running \ {c}
    /\ IF job.failFast
       THEN done' = done \cup {Exception(c)} /\ UNCHANGED raised
       ELSE IF Logs(job) THEN raised' = raised \cup {c} /\ UNCHANGED done
            ELSE done' = done \cup {ErrorRow(c)} /\ UNCHANGED raised
    /\ UNCHANGED <<job, phase, queue, results, store, frozen, jsonl, errors>>

\* The cell logs its error, then returns its row.
LogError(c) ==
    /\ c \in raised
    /\ job.driver # "bench"
    /\ raised' = raised \ {c}
    /\ errors' = [errors EXCEPT ![job.log] = @ \cup {Entry(c)}]
    /\ done' = done \cup {ErrorRow(c)}
    /\ UNCHANGED <<job, phase, queue, running, results, store, frozen, jsonl>>

-----------------------------------------------------------------------------
(* The main thread. *)

\* BUG: only the rows that ran are collected.
MutCollect ==
    /\ phase = "running"
    /\ \E r \in done :
          /\ r.is # "exception"
          /\ done' = done \ {r}
          /\ results' = IF r.is = "error" THEN results ELSE Append(results, r)
          /\ jsonl' = [jsonl EXCEPT ![job.out] = Append(@, r)]
    /\ UNCHANGED <<job, phase, queue, running, raised, store, frozen, errors>>

\* as_completed yields the finished futures in any order.
Collect ==
    /\ phase = "running"
    /\ \E r \in done :
          /\ r.is # "exception"
          /\ done' = done \ {r}
          /\ results' = Append(results, r)
          /\ jsonl' = [jsonl EXCEPT ![job.out] = Append(@, r)]
    /\ UNCHANGED <<job, phase, queue, running, raised, store, frozen, errors>>

\* A future that raised ends the loop.  A sequential driver raises at once;
\* a pool is left only when every cell that was submitted has run.
CollectRaised ==
    /\ phase = "running"
    /\ \E r \in done : r.is = "exception"
    /\ phase' = "leaving"
    /\ queue' = IF job.workers = 1 THEN <<>> ELSE queue
    /\ UNCHANGED <<job, running, raised, done, results, store, frozen,
                   jsonl, errors>>

WorkersIdle == queue = <<>> /\ AtWork = {}

PoolNext ==
    \/ SeedCell \/ SeedRaises
    \/ \E c \in running : FinishCell(c) \/ CellRaises(c)
    \/ \E c \in raised : LogError(c)
    \/ Collect
    \/ CollectRaised
=============================================================================
