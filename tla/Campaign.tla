------------------------------ MODULE Campaign ------------------------------
(***************************************************************************)
(* The scripts that run drivers one after the other and work on the files  *)
(* these leave behind:                                                     *)
(*   scripts/run_wccu_cooperbench_derived.sh, run_wccu_true_frozen_replay.sh *)
(*   wccu_eval/agents/frozen_agent.py       what is frozen and replayed    *)
(*   wccu_eval/scripts/analyze_results.py, make_cooperbench_*table.py      *)
(*   wccu_eval/scripts/check_primary_run_readiness.py                      *)
(* A script stops at the first command that fails.  It may be killed at    *)
(* any point and is then started again, over the files that are there.     *)
(***************************************************************************)
EXTENDS ObligationBench

CONSTANTS Campaigns,   \* sets of scripts run over the same files; a script is
                       \* a sequence of [do, job] and [do, out] steps
          MaxStarts,   \* scripts started, a bound
          Unsafe,      \* answers whose proposals the merge stage commits
                       \* although they are unsafe
          Stale        \* those among them that act on a stale read

VARIABLES campaign,  \* the scripts at hand
          script,    \* the steps left of the script that runs
          starts,    \* scripts started
          drives,    \* drivers started; stands for the time they started
          result,    \* file: out -> result JSON
          bundle,    \* file: the frozen bundle
          report,    \* file: out -> the analysis' provider_errors.jsonl
          table,     \* file: out -> the table of the certificate condition
          ended      \* the last driver's out, if the last script reached its
                     \* end

disk == <<result, bundle, report, table>>
shell == <<campaign, script, starts, drives, ended>>
campaignVars == <<benchVars, disk, shell>>

WCCU == "adaptive_wccu_execution_trace"
PRIMARY_LOG == "provider_errors"

Steps == UNION {{s[k] : k \in DOMAIN s} : s \in UNION Campaigns}
Jobs == {st.job : st \in {t \in Steps : t.do = "drive"}}

IsList(s) == s \in Seq({s[n] : n \in DOMAIN s})

\* Drivers take at least one repetition.
ASSUME CampaignsAssumption ==
    /\ \A s \in UNION Campaigns : IsList(s)
    /\ \A j \in Jobs : /\ IsList(j.scenarios) /\ IsList(j.conditions)
                      /\ j.repetitions \in Nat \ {0}

\* A stale proposal that is accepted counts as unsafe, too.
ASSUME AnswersAssumption ==
    Stale \subseteq Unsafe /\ Unsafe \subseteq UNION {Answers[s] : s \in DOMAIN Answers}

Outs == {j.out : j \in Jobs} \cup {"workspace", "commitment"}
LogFiles == {j.log : j \in Jobs} \cup {PRIMARY_LOG}

NoFile == [whole |-> FALSE, drive |-> 0, job |-> <<>>, rows |-> <<>>,
           stamped |-> FALSE]
NoBundle == [whole |-> FALSE, drive |-> 0, outputs |-> <<>>]
NoTable == [runs |-> 0, safe |-> 0, stale |-> 0]

Occurring(rows) == {rows[n] : n \in DOMAIN rows}
FailedIn(rows) == {r \in Occurring(rows) : r.is = "error"}

-----------------------------------------------------------------------------
(* Freezing. *)

RowsThatRan(rows) == {r \in Occurring(rows) : r.is = "row"}

\* The rows that a record may be taken from.
RowsOf(rows, k) ==
    {r \in RowsThatRan(rows) : \E a \in Agents : RecordKey(r.cell, a) = k}

\* One record per agent of every row that ran; the index is by its key.
Outputs(rows) ==
    [k \in {RecordKey(r.cell, a) : r \in RowsThatRan(rows), a \in Agents} |->
        (CHOOSE r \in RowsOf(rows, k) : TRUE).said[k[3]]]

-----------------------------------------------------------------------------
(* Reading the results. *)

CommitsUnsafe(r) == \E a \in DOMAIN r.said : r.said[a] \in Unsafe
AcceptsStale(r) == \E a \in DOMAIN r.said : r.said[a] \in Stale
Safe(r) == r.is = "row" /\ ~CommitsUnsafe(r)

WccuRows(rows) == {n \in DOMAIN rows : rows[n].cell.condition = WCCU}

\* Of the workspace table the readiness check reads the safe rows, of the
\* commitment table what was accepted stale.  A row that failed is not safe,
\* but neither has it accepted anything.
TableOf(rows) ==
    [runs |-> Cardinality(WccuRows(rows)),
     safe |-> Cardinality({n \in WccuRows(rows) : Safe(rows[n])}),
     stale |-> Cardinality({n \in WccuRows(rows) : AcceptsStale(rows[n])})]

\* BUG: the logs of the analyses are not looked at.
MutErrorListsEmpty == errors[PRIMARY_LOG] = {}

\* A missing file counts as an empty one.
ErrorListsEmpty ==
    /\ errors[PRIMARY_LOG] = {}
    /\ report["workspace"] = {}
    /\ report["commitment"] = {}

TablesPass ==
    /\ table["workspace"].runs > 0
    /\ table["workspace"].safe = table["workspace"].runs
    /\ table["commitment"].runs > 0
    /\ table["commitment"].stale = 0

\* check_primary_run_readiness finds no error.  The checks of the run's note
\* and of the dataset report read files that no driver writes; warnings do not
\* count.
Ready == ErrorListsEmpty /\ TablesPass

-----------------------------------------------------------------------------
Process(ph) ==
    /\ phase' = ph
    /\ running' = {} /\ raised' = {} /\ done' = {}
    /\ results' = <<>>
    /\ store' = <<>>
    /\ writer' = NoProposal

CampaignInit ==
    /\ campaign \in Campaigns
    /\ script = <<>> /\ starts = 0 /\ drives = 0 /\ ended = "none"
    /\ job = [driver |-> "none"]
    /\ phase = "idle" /\ queue = <<>>
    /\ running = {} /\ raised = {} /\ done = {}
    /\ results = <<>> /\ store = <<>> /\ frozen = <<>>
    /\ writer = NoProposal
    /\ jsonl = [o \in Outs |-> <<>>]
    /\ errors = [l \in LogFiles |-> {}]
    /\ result = [o \in Outs |-> NoFile]
    /\ bundle = NoBundle
    /\ report = [o \in Outs |-> {}]
    /\ table = [o \in Outs |-> NoTable]

StartScript ==
    /\ script = <<>>
    /\ starts < MaxStarts
    /\ script' \in campaign
    /\ starts' = starts + 1
    /\ ended' = "none"
    /\ UNCHANGED <<benchVars, disk, campaign, drives>>

AtStep(do) == script # <<>> /\ phase = "idle" /\ Head(script).do = do

\* The command ends well and the script goes on, or was at its end.
NextStep ==
    /\ script' = Tail(script)
    /\ ended' = IF Len(script) = 1 THEN job.out ELSE ended

Unknown(j) ==
    \E n \in DOMAIN j.conditions : j.conditions[n] \notin KnownConditions

\* What a driver raises before its first cell.
CannotStart(j) ==
    \/ Unknown(j) /\ j.driver # "plain"
    \/ j.driver = "replay" /\ ~bundle.whole

\* These find out that they cannot start before they unlink anything.
ChecksFirst(j) == j.driver \in {"replay", "bench"}

\* Drivers unlink what an earlier one left, some before they find out that
\* they cannot start; the result file stays until the end.
StartDriver ==
    /\ AtStep("drive")
    /\ LET j == Head(script).job
       IN  /\ job' = j
           /\ drives' = drives + 1
           /\ jsonl' = IF CannotStart(j) /\ ChecksFirst(j) THEN jsonl
                       ELSE [jsonl EXCEPT ![j.out] = <<>>]
           /\ errors' = IF (CannotStart(j) /\ ChecksFirst(j)) \/ ~Logs(j)
                        THEN errors
                        ELSE [errors EXCEPT ![j.log] = {}]
           /\ IF CannotStart(j)
              THEN /\ script' = <<>>
                   /\ UNCHANGED <<inProcess, writer>>
              ELSE /\ Process("running")
                   /\ queue' \in IF j.driver = "bench" THEN {BenchQueue(j)}
                                 ELSE Queues(j)
                   /\ frozen' = IF j.driver = "replay" THEN bundle.outputs
                                ELSE <<>>
                   /\ UNCHANGED script
    /\ UNCHANGED <<disk, campaign, starts, ended>>

Stop ==
    /\ Process("idle")
    /\ queue' = <<>> /\ frozen' = <<>>
    /\ UNCHANGED <<job, jsonl, errors>>

\* run_experiment looks a condition up when it comes to it.
UnknownCondition ==
    /\ phase = "running"
    /\ job.driver = "plain"
    /\ done = {} /\ AtWork = {}
    /\ queue # <<>> /\ Head(queue).condition \notin KnownConditions
    /\ script' = <<>>
    /\ Stop
    /\ UNCHANGED <<disk, campaign, starts, drives, ended>>

Work ==
    /\ \/ PoolNext /\ UNCHANGED writer
       \/ BenchNext
    /\ UNCHANGED <<disk, shell>>

\* The pool of a driver that raised has run dry; the command fails.
Leave ==
    /\ phase = "leaving"
    /\ WorkersIdle
    /\ script' = <<>>
    /\ Stop
    /\ UNCHANGED <<disk, campaign, starts, drives, ended>>

AllCollected == phase = "running" /\ WorkersIdle /\ done = {}

ResultFile(stamp) == [whole |-> TRUE, drive |-> drives, job |-> job,
                      rows |-> results, stamped |-> stamp]

\* The driver writes its result file; a generation goes on to freeze it.
WriteResult ==
    /\ AllCollected
    /\ result' = [result EXCEPT ![job.out] = ResultFile(FALSE)]
    /\ IF job.driver = "generate"
       THEN /\ phase' = "freezing"
            /\ UNCHANGED <<job, queue, running, raised, done, results, store,
                           frozen, jsonl, errors, writer, shell>>
       ELSE /\ NextStep
            /\ Stop
            /\ UNCHANGED <<campaign, starts, drives>>
    /\ UNCHANGED <<bundle, report, table>>

Freeze ==
    /\ phase = "freezing"
    /\ bundle' = [whole |-> TRUE, drive |-> drives,
                  outputs |-> Outputs(results)]
    /\ phase' = "stamping"
    /\ UNCHANGED <<job, queue, running, raised, done, results, store, frozen,
                   jsonl, errors, writer, result, report, table, shell>>

\* The result file is written again, with the bundle's name in it.
Stamp ==
    /\ phase = "stamping"
    /\ result' = [result EXCEPT ![job.out] = ResultFile(TRUE)]
    /\ NextStep
    /\ Stop
    /\ UNCHANGED <<bundle, report, table, campaign, starts, drives>>

-----------------------------------------------------------------------------
(* The commands that read a result file. *)

Analyze ==
    /\ AtStep("analyze")
    /\ LET o == Head(script).out
       IN  report' = [report EXCEPT ![o] = FailedIn(result[o].rows)]
    /\ NextStep
    /\ UNCHANGED <<benchVars, result, bundle, table, campaign, starts, drives>>

Tabulate ==
    /\ AtStep("tabulate")
    /\ LET o == Head(script).out
       IN  table' = [table EXCEPT ![o] = TableOf(result[o].rows)]
    /\ NextStep
    /\ UNCHANGED <<benchVars, result, bundle, report, campaign, starts, drives>>

-----------------------------------------------------------------------------
\* A kill loses the process; what it was writing may be cut short.
Kill ==
    /\ script # <<>>
    /\ script' = <<>>
    /\ Stop
    /\ \/ UNCHANGED disk
       \/ /\ AllCollected \/ phase = "stamping"
          /\ result' = [result EXCEPT ![job.out] = NoFile]
          /\ UNCHANGED <<bundle, report, table>>
       \/ /\ phase = "freezing"
          /\ bundle' = NoBundle
          /\ UNCHANGED <<result, report, table>>
       \/ /\ AtStep("analyze")
          /\ report' = [report EXCEPT ![Head(script).out] = {}]
          /\ UNCHANGED <<result, bundle, table>>
       \/ /\ AtStep("tabulate")
          /\ table' = [table EXCEPT ![Head(script).out] = NoTable]
          /\ UNCHANGED <<result, bundle, report>>
    /\ UNCHANGED <<campaign, starts, drives, ended>>

Progress ==
    \/ StartDriver \/ UnknownCondition \/ Work \/ Leave
    \/ WriteResult \/ Freeze \/ Stamp
    \/ Analyze \/ Tabulate

CampaignNext == StartScript \/ Progress \/ Kill

CampaignSpec == CampaignInit /\ [][CampaignNext]_campaignVars
-----------------------------------------------------------------------------
Sized(rows, cells) ==
    /\ Len(rows) = Cardinality(cells)
    /\ {r.cell : r \in Occurring(rows)} = cells

\* A result file that can be read has one row for every cell of its driver,
\* and its JSONL has the same rows until another driver for the same file
\* starts, whatever the pool's order, errors and kills
\* (run_cooperbench_substrate.py:154-168).
EveryCellOnce ==
    \A o \in Outs :
        result[o].whole /\ result[o].job.driver # "bench" =>
            /\ Sized(result[o].rows, Cells(result[o].job))
            /\ job.out = o /\ result[o].drive = drives =>
                   jsonl[o] = result[o].rows

\* An error row in the JSONL of a driver that asks providers is backed by an
\* entry of its error log, even if the process is killed right after it
\* (run_llm_experiment.py:185).
FailuresAreLogged ==
    job.driver \in {"live", "generate"} =>
        \A r \in FailedIn(jsonl[job.out]) :
            Entry(r.cell) \in errors[job.log]

\* A row is computed from the store seeded for its own cell, whatever cells
\* run beside it (run_llm_experiment.py:216, independent cells).
CellsAreIsolated ==
    \A r \in done \cup Occurring(results) : r.saw = r.cell

SaidAlike(rows) ==
    \A r, q \in RowsThatRan(rows) :
        Pair(r.cell) = Pair(q.cell) => r.said = q.said

\* The conditions of a replay, and of the obligation benchmark, meet the same
\* proposals: what the generation said for that scenario and repetition,
\* and no row runs where the generation failed (README.md:125-127).  A
\* generation's file names its bundle only once the bundle was made from its
\* rows (run_cooperbench_frozen_replay.py:91-93).
SameProposals ==
    \A o \in Outs :
        LET file == result[o] IN
        /\ file.whole /\ file.stamped =>
            bundle.whole /\ bundle.drive = file.drive
        /\ file.whole /\ file.job.driver \in {"replay", "bench"} =>
            /\ SaidAlike(file.rows)
            /\ file.job.driver = "replay"
               /\ result["generation"].drive = bundle.drive
               /\ bundle.whole /\ bundle.drive < file.drive =>
                   \A r \in RowsThatRan(file.rows) :
                       \E g \in RowsThatRan(result["generation"].rows) :
                           Pair(g.cell) = Pair(r.cell) /\ g.said = r.said

\* When the primary script has run to its end and the readiness check finds
\* no error, no row behind the two tables failed, although an error row
\* counts as one that accepted nothing, no workspace row with certificates
\* committed anything unsafe, and no commitment row accepted a stale proposal
\* (check_primary_run_readiness.py:118-131, 239-275).
ReadyRowsRan ==
    ended = "commitment" /\ script = <<>> /\ Ready =>
        LET workspace  == result["workspace"].rows
            commitment == result["commitment"].rows
        IN  /\ \A o \in {"workspace", "commitment"} :
                  result[o].whole /\ FailedIn(result[o].rows) = {}
            /\ \A n \in WccuRows(workspace) : ~CommitsUnsafe(workspace[n])
            /\ \A n \in WccuRows(commitment) : ~AcceptsStale(commitment[n])

\* Every pair of the obligation benchmark is reported under every condition;
\* a condition has a second row only where the pair raised after it, and then
\* the second is an error row (run_llm_obligation_benchmark.py:402-421).
PairsAreReported ==
    \A o \in Outs :
        LET rows == result[o].rows IN
        result[o].whole /\ result[o].job.driver = "bench" =>
            \A c \in Cells(result[o].job) :
                LET of == {n \in DOMAIN rows : rows[n].cell = c} IN
                /\ \E m, n \in of :
                      /\ of = {m, n} /\ m <= n
                      /\ m < n => rows[m].is = "row" /\ rows[n].is = "error"
                /\ (\E n \in of : rows[n].is = "error") =>
                       \A q \in Cells(result[o].job) : Pair(q) = Pair(c) =>
                           \E r \in FailedIn(rows) : r.cell = q

\* A provider call ends, by its answer, its time limit or its last retry, and
\* a script left alone goes on.
Fairness == WF_campaignVars(Progress)

FairCampaignSpec == CampaignSpec /\ Fairness

\* Every script ends, a pool left by an exception included.
ScriptEnds == script # <<>> ~> script = <<>>

-----------------------------------------------------------------------------
(* What the theorems suppose of the scripts; the repository's have it. *)

NoRepeats(s) == \A m, n \in DOMAIN s : s[m] = s[n] => m = n

\* No driver is given a scenario or a condition twice.
DistinctCells(j) == NoRepeats(j.scenarios) /\ NoRepeats(j.conditions)
DistinctLoops == \A j \in Jobs : j.driver # "bench" => DistinctCells(j)
DistinctPairs == \A j \in Jobs : j.driver = "bench" => DistinctCells(j)

\* Only a generation writes the file of that name.
OneGeneration ==
    \A j \in Jobs : j.driver = "generate" <=> j.out = "generation"

\* The primary script: each table is made from a file just written.
PrimaryScript(s) ==
    /\ Len(s) = 6
    /\ s[1].do = "drive" /\ s[1].job.out = "workspace"
    /\ s[2].do = "analyze" /\ s[2].out = "workspace"
    /\ s[3].do = "tabulate" /\ s[3].out = "workspace"
    /\ s[4].do = "drive" /\ s[4].job.out = "commitment"
    /\ s[5].do = "analyze" /\ s[5].out = "commitment"
    /\ s[6].do = "tabulate" /\ s[6].out = "commitment"

\* The script's last driver, its d-th step, writes another file.
OtherScript(s, d) ==
    /\ s[d].do = "drive" /\ s[d].job.out # "commitment"
    /\ \A n \in DOMAIN s : n > d => s[n].do # "drive"

\* A script that ends with the commitment driver is the primary script.
OnePrimary ==
    \A s \in UNION Campaigns :
        PrimaryScript(s) \/ \E d \in DOMAIN s : OtherScript(s, d)
=============================================================================
