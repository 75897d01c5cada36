# A formal model of the WCCU context substrate

This directory holds TLA+ modules, TLC configurations and TLAPS proofs for the
program in `src/`: the runtime that lets several agents update a shared context
through *witness-carrying context updates* (WCCUs). Line numbers below refer to
the files under `src/wccu_eval/`.

## The program

A run seeds a file-based context store, lets every agent of a scenario read a
projection of it and propose *write intents*, and merges the proposals:

```
 scenario ──seed──► store (substrate/context_substrate_store.py)
                      │ snapshot id, atoms
                      ▼
 agents (agents/*) ── projection, intents ──► target grounder, witness compiler
                                               (scheduler/target_grounder.py,
                                                scheduler/dependency_witness.py)
                      ▼
 resolver (scheduler/context_conflict_resolver.py)
   1 policy of every intent     (context_concurrency_policy.py)
   2 certificate verification   (wccu.py, semantic_operation_verifier.py)
   3 groups, one lane per group ──► commit | review | blocked, counters
                      ▼
 commit lanes + batch commit (context_commit_lanes.py, store)
                      ▼
 metrics, patch application and tests (eval/*, e2e/*), result tables (scripts/*)
```

`scheduler/team_dag_executor.py` strings these together. The parallel executor
reads one base snapshot, runs the agents on a thread pool, resolves all their
intents together and commits once. The serial executor does the whole sequence
for one agent after the other, on the same store. No two commits ever run at the
same time on one store: an experiment cell removes its directory, seeds it and
owns it.

Around the executors stand the experiments. A *driver* (`eval/run_*.py`) runs
*cells*, one scenario under one condition in one repetition, in a loop or on a
thread pool, and leaves a JSON-lines file, an error log and a result file. The
end-to-end runner (`e2e/patch_test_runner.py`) uses the merge stage alone, to
decide which prepared patches of a task are applied to a copy of its repository
before its tests run. Shell scripts chain drivers, analyses, tables and a
readiness check over these files.

### Inventory

| component | state | operations | what makes it correct |
|---|---|---|---|
| policy selection | none | metadata inference, lock scope, lane of each of 18 modes | two writers of one object meet in one group; high risk meets a gate |
| certificates, verification | the intent's verdict | normalise or synthesise a certificate, choose the dependency source, verify, drop disabled obligations | no claim buys authority; a read another intent invalidates is seen |
| conflict resolver | groups, lists of committable and conflicted intents, a dozen counters | three group lanes, two individual removals, five ways to merge, stale accounting | every intent routed once; no silent winner; no flagged intent slips through; counters agree with the routing |
| context store, commit lanes | manifest, atoms, links, snapshots, operation and proposal logs on disk; the batch in memory | open, seed, commit a batch (append to logs, four rewrites) | a batch is published whole; what the manifest names exists |
| executors | base snapshot, agent threads or turns, accumulated counters | parallel, serial | agents see one snapshot; order of completion is irrelevant; what the run reports is true |
| target grounder | none | replace a wrong target by a candidate | certificate and applied target agree |
| witness compiler | none | derive reads from declarations, text overlap and traces | reads are not lost |
| projection compiler | none | rank atoms under a token budget | (ranking only) |
| deterministic agent, scenarios | none | replay the scenario's intents | every scenario meets its own expectations under certificates |
| LLM agent, provider client | attempts, last error, error log | HTTP with backoff, inside a parse-and-repair loop; validation and normalization of an answer | bounded calls; an intent a model did not certify does not commit unseen |
| frozen-output agent | recorded rows by key, a bundle file | record, stamp, look up | conditions of a replay meet the same proposals |
| e2e patch runner | repository copy, decisions, rows | compile, decide, apply or hold, test, time out | a held agent's patch is never applied; a row tells what happened |
| experiment drivers | cells, pool, store directories, JSONL, log, result file | run cells, append rows, fail fast | one row per cell; failures are explained; cells do not meet |
| analyses, tables, readiness | their output files | read result files | a verdict rests on rows that ran |
| scripts | the files of earlier commands | chain, stop at the first failure | every script ends; killed and restarted, nothing stale passes for new |
| other drivers, coordination baselines, adapters, patch generator, other tables | none that lasts | data, offline aggregation | |

### What is hard here

* A group passes through lanes with early exits, and each lane keeps its own
  counters; one certificate problem means different things in different lanes.
* Verdicts relate an intent to every other intent of the batch (a write makes
  another's read stale, also through a derived view), so they depend on batch
  composition, but should not depend on batch order.
* An object has several names (`file:x`, `x`, `lock:x`, `atom:file:x`), and the
  group an intent falls in depends on its lane.
* The store rewrites four files in place without a rename, and can be killed in
  between; opening it repairs what cannot be read by replacing it with a default.
* Proposals take version numbers, operations take version numbers, and the
  snapshot's number counts only the latter.
* Decisions name agents, patches belong to agents, and an agent may have several
  of either.
* Two retry loops nest, and three kinds of failure leave each of them differently.
* Drivers unlink, append to and rewrite files that others read later, some of
  them shared, and may be killed anywhere in between.

The same list, line by line and with the properties that cover it, is
`"hazards"` in `PROJECT.json`. Exposed too, without a property, since the
repository does not say which behaviour is right:

* rank `researcher` (8) is below `agent` (10), so a researcher's writes always
  lack authority (`context_concurrency_policy.py:37`);
* the status a certificate's read is checked against is the seed's, not that of
  the live store, so a serial run misses what an earlier turn retracted
  (`wccu.py:506`);
* the atom a retraction applies to is `payload.atom_id` or `id`, while grouping
  uses `target_id` first (`context_substrate_store.py:211`);
* of the commitments a patch revises only the first becomes a write
  (`patch_test_runner.py:540`);
* a batch of rows that is aborted leaves an earlier result file in place
  (`patch_test_runner.py:830`), and a kill between an analysis and its table an
  empty failure list beside an older table (`analyze_results.py:107`);
* the obligation benchmark appends its error rows before it logs them
  (`run_llm_obligation_benchmark.py:422`), the other way round than the pools.

## The modules

| module | models | role |
|---|---|---|
| `Policy` | `context_concurrency_policy.py` | operators |
| `Certificate` | `wccu.py`, `semantic_operation_verifier.py` | operators, EXTENDS `Policy` |
| `Workload` | what the merge stage may be called with | constants and their assumption |
| `ConflictResolver` | `context_conflict_resolver.py` | state machine, EXTENDS `Certificate`, `Workload` |
| `WriteIntentRouting` | what the resolver promises, batch after batch | abstract specification |
| `BatchOrder` | one resolver call, or two on one batch in two orders | state machine, EXTENDS `ConflictResolver` |
| `StoreOperations` | `_apply_operation`, commit lanes | operators |
| `SubstrateStore` | store: open, seed, batch commit, kills | state machine, EXTENDS `StoreOperations` |
| `AtomicCommit` | what the store promises its readers | abstract specification |
| `TeamExecutor` | both executors of `team_dag_executor.py` | composition of agents, `ConflictResolver` (EXTENDS) and `SubstrateStore` (INSTANCE) |
| `AtomicRun` | what a run promises its readers: each round in one step | abstract specification |
| `ScenarioLibrary` | `eval/scenarios.py`, `deterministic_agent.py` | data and operators |
| `LlmOutput` | `llm_output_schema.py`: validation, normalization, minimal certificates | operators |
| `TargetGrounder` | `target_grounder.py` | operators |
| `DependencyWitness` | `dependency_witness.py` | operators |
| `AgentTurn` | `llm_agent.py`, and the way of an answer's intents to their verdicts | state machine, EXTENDS the three above and `Certificate` |
| `PatchRunner` | `e2e/patch_test_runner.py` | state machine, EXTENDS `ConflictResolver` |
| `CellPool` | one driver at work on its cells | state machine |
| `ObligationBench` | `run_llm_obligation_benchmark.py` | state machine, EXTENDS `CellPool` |
| `Campaign` | scripts, freeze and replay, analyses, tables, readiness check | composition over files, EXTENDS `ObligationBench` |
| `MCConflictResolver`, `MCBatchOrder`, `MCSubstrateStore`, `MCTeamExecutor`, `MCPatchRunner`, `MCAgentTurn`, `MCCampaign` | values for TLC | the intents' constructors are in `MCIntents` |
| `ConflictResolver_proofs`, `BatchOrder_proofs` | the merge stage; two calls of it | theorems |
| `SubstrateStore_proofs` | the store | theorems |
| `TeamExecutor_proofs` | a run: merge stage and store composed | theorems |
| `AgentTurn_proofs`, `PatchRunner_proofs` | the agent's turn, the patch runner | theorems |
| `Campaign_proofs`, `CampaignFiles_proofs` | drivers; benchmark, replays, readiness | theorems |

Definitions called `Mut...` are the plausible bugs against which each property
is tried (`"mutants"` in `PROJECT.json`): the property must fail when the
definition after it is replaced by the bug. No specification uses them.

### Data

A write intent is a record: operation `op`, `target` (`""` when there is none),
`file`, context type, risk, claimed authority, role, mergeability, status, text,
id, agent, whether grounding succeeded, logged `reads`, the `overlap` witnesses
the trace modes would derive, and its certificate. Text is a `body`, compared
for equality, and a set of traits: one trait for every term list or regular
expression of the code that can match (`weakening_term`, `approval_bypass`,
`requirement`, ...). A certificate has the fields verification reads: claimed
target, confidence, delta type, actor and required authority, fall-back
behaviour, dependencies; `""` is a field left out, except that a required
authority left out is `NotStated`, because an empty one means an agent's
(`wccu.py:694`). Of several logged reads of one target the last counts, at the
place of the first (`LastRead`, `FirstReads`), before the list is cut. A scenario is the seed (with
what derived views come from), the invalidated targets, the declared reads and
the disabled obligations. `FileTarget` maps a `file:` id to its path, which is
what the canonical scope computes.

### ConflictResolver

One behaviour is one call. `mode`, `scenario`, `input` are its arguments;
`verdict[n]` is the `wccu_verification` of the n-th intent; `live` is
`group_intents` or what is left of it as `intents`; `outcome[n]` says in which
list the intent was put; `metrics` are the counters of the result.

| action | code |
|---|---|
| `Verify` | policy, certificates, the no-read-validation filter (320-356) |
| `InterruptByAuthority` | 390-414 |
| `GateReview` | 416-437 |
| `ContendForLock` | 439-457 |
| `RouteFlagged` | 463-487 |
| `RouteStaleReaders` | 489-502 |
| `MergeAppendOnly`, `CommitSingleWriter`, `MergeUnchecked`, `MergeCompatible`, `ReviewConflict` | 504-544 |
| `Account` | 546-551 |

The first `lane` guards are mutually exclusive because the code's branches end
in `continue`. Groups are taken in the order of their first member
(`NextGroup`), as a Python dictionary keeps it.

### SubstrateStore

`manifest`, `atomsFile`, `linksFile`, `snapshots`, `operations`, `proposals` are
the files (`Torn` is a file whose rewrite was cut short; the logs are
append-only); `phase`, `todo`, `work`, `base`, `version`, `committed`,
`recorded` are the local variables of `commit_context_write_intents_batch`.
`Begin` is `ensure_context_substrate` and `read_context_substrate`;
`ApplyIntent` and `RecordProposal` are the two ways round the loop;
`WriteSnapshot`, `WriteManifest`, `WriteAtoms`, `WriteLinks` are the rewrites in
the code's order. `Crash` can happen in every phase; the file about to be
rewritten stays as it was or is torn. `write_json` opens the file for writing
and dumps, so a truncated file is what a kill leaves; `read_json` answers a
parse error with the default, which is `Opened`. An atom is its status and one
body field.

### TeamExecutor

One behaviour is one run of one task under one schedule. `task` is the scenario
and its team, each agent given as the intents it will emit; `agents` says who
waits, works, has returned or has raised; `seen` is the snapshot each projects
from; `turn` the round of a serial run and `prior` its dictionary of the texts
last written; `run` is the line the run has reached; `summary` what it reports.
`settled` (what took effect in earlier rounds) and `published` (how many rounds
readers can see) record history for the properties.

| action | code |
|---|---|
| `Return(a)`, `Raise(a)` | `run_one` on its thread, or the loop body of the serial run |
| `Collect`, `FailRun` | the end of the pool: results in list order, or the first exception (175-178); the serial run counts overwritten texts here (266) |
| `Merging` | a step of `ConflictResolver` |
| `HandOver`, `Committing`, `Publish` | the batch commit, step by step as in `SubstrateStore`; the manifest is what readers follow |
| `NextTurn`, `Finish` | the last rewrite; the serial run's counters, or the summary |
| `KillBeforeCommit`, `KillDuringCommit` | the process dies |

`StoreIntent` is what crosses from the merge stage to the store: the rewrites
`_with_review_required` and `_with_blocked` (resolver 73-90) replace the commit
mode the agent wrote, a committed intent keeps it. `MergedIntents` is the order
of `committable + conflicted`. `Visible` is what the projection shows an agent:
words an intent shares with an atom witness a read only if the agent saw it, and
only in a parallel run, since a serial one passes no projection trace on
(`Traced`). Atoms that a role list or the token budget keeps from an agent are
part of the task (`unseen`).

### AgentTurn

One behaviour is one turn of an LLM agent. `attempt` counts the outer loop,
`tries` the inner; `calls` and `log` are what was called and what was logged.

| action | code |
|---|---|
| `Ask` | `call_llm_provider`: the mock, a provider, or no key |
| `ReceiveText`, `ReceiveError`, `ReceiveNothing` | `_post_json` and the extraction of a text (280-345) |
| `Pause` | the sleep before the next try |
| `Accept`, `Reject` | parse, validate, normalize; or ask again (540-576) |
| `AttachWitness`, `GroundTargets`, `VerifyIntents` | what the executor does with the result |

A draft is what the model wrote: operation, the target it named, which ids its
text mentions, a set of words, whether and how it certified. An answer is
usable by the rules of `LlmOutput`; `text`, `intents` and `verdicts` let a
property compare what a model claimed with what was verified.

### PatchRunner

One behaviour is one batch. `StartRow` copies the repository and compiles the
task's patches into a scenario; `RunPolicy` takes a step of `ConflictResolver`
and keeps the decisions that name agents; `SelectAgents` is the set whose every
decision is automatic (614); `HoldPatch` and `ApplyPatch` take the patches in
order (657-690), each in its own way of failing (`Patched`); `RunTests` reports;
`TimeOut` and `RaiseInRow` end a row or the batch (781-840); `WriteResults`
writes the result file. A file holds one value, a test is the values it needs.
`CONDITION_TO_POLICY` is the table of conditions; one that is not in it, or a
repository that is not there, makes a row raise (`Raises`). `RevisedBy` is the
commitment a patch writes in place of its file: the one it names, or the task's
shared one if its agent is the one the task names (535-540).

### CellPool, ObligationBench, Campaign

`queue`, `running`, `raised`, `done` and `results` follow a cell from the pool's
queue to the main thread's list; `store` is which cell's seed each run directory
holds; `jsonl`, `errors`, `result`, `bundle`, `report` and `table` are files.

| action | code |
|---|---|
| `SeedCell`, `SeedRaises` | one worker takes a cell and seeds its store; that is outside the cell's `try`, so a failure leaves the pool as an exception (`run_llm_experiment.py:138-147`) |
| `FinishCell`, `CellRaises`, `LogError` | the cell runs, and on an exception logs, then returns an error row (147-216) |
| `Collect`, `CollectRaised` | `as_completed` in the main thread, with and without fail-fast (218-226) |
| `Generate`, `MeetCondition`, `PairRaises`, `LogPair`, `BenchRaises` | the benchmark's loop: one proposal, every condition, error rows for the pair (402-425) |
| `StartDriver`, `UnknownCondition` | the checks and unlinks before the first cell |
| `Work`, `Leave` | the driver, and a pool that is left by an exception |
| `WriteResult`, `Freeze`, `Stamp` | the end of a driver; the bundle and the stamp of a generation |
| `Analyze`, `Tabulate` | `analyze_results.py`, the tables |
| `StartScript`, `Kill` | the user |

`drives` numbers the drivers started; it stands for the time of a file. A file
that a kill cut short cannot be read (`NoFile`, `NoBundle`, `NoTable`).
`Answers` gives what an agent may say in each scenario, `Unsafe` and `Stale` say
which answers become a commit although they are unsafe, or act on a stale read.
The readiness check reads two different counts: of the workspace table the rows
without an unsafe commit (`CommitsUnsafe`), of the commitment table the stale
proposals accepted (`AcceptsStale`).

## What is checked

Every property also has a mutant that breaks it.

| run | configuration | question |
|---|---|---|
| `resolver` | `MCResolver.cfg` | batches of up to three of 12 memory intents in 5 certificate modes and 3 scenarios, of up to three file, policy and memory intents in 12 modes, every combination of claims in one certificate, and pairs of calls on permuted batches: all resolver properties and the refinement of `WriteIntentRouting` (about 555 000 states) |
| `store_commits` | `MCStoreCommits.cfg` | two batches of up to two intents, no kill: atomic publication |
| `store_crashes` | `MCStoreCrashes.cfg` | three batches, two kills anywhere |
| `executor` | `MCExecutor.cfg` | parallel and serial runs of teams of 2 and 3 agents with 8 plans, with and without an atom their projection leaves out, and of every scenario of the library, in every order of answering, with agents that raise and one kill |
| `executor_ends` | `MCExecutorEnds.cfg` | every run ends |
| `patch_rows` | `MCPatchRunner.cfg` | 12 tasks under every condition, alone and in batches of two, with and without reviewed patches and isolated rows |
| `agent_turn` | `MCAgentTurn.cfg` | every combination of retries with every kind of answer, and every kind of draft under each way of verifying it |
| `campaign` | `MCCampaign.cfg` | scripts started twice and killed anywhere, six sets of drivers (about 342 000 states) |
| `ignored_reads`, `file_correction`, `self_read`, `undecided_patch` | | the four disagreements below |

Resolver properties:

* `FlaggedCommitsOnlyByAuthority`: an intent with a certificate problem commits
  only by interrupting a rival as a user-level retraction.
* `NoCommitBeyondAuthority`: no certificate claim replaces authority.
* `NoSilentWinner`: of two incompatible writes of one group, one commits only if
  the other was itself taken out, or outranked. Its three exceptions are
  named in the formula: append-only lanes, the ablation that switches conflict
  detection off, and two equal retractions that jointly interrupt a third write.
* `NoOverrideOfAuthority`: nothing commits over a stronger retraction of its
  group, except where a still stronger write kept the retraction from
  interrupting, which is what the code does (390-391).
* `FileWritesAreExclusive`: two lock-lane writes of one file never both commit.
* `NoCommitOnStaleRead`: in read-set OCC, and in the execution-trace mode
  within the witness limit, nothing commits on a logged read that another
  intent of the batch makes stale, through derived views too in the latter.
* `CorrectionMayReadItsTarget`: a user's retraction is not held for reading what
  it retracts.
* `CountersMatchOutcomes`: the reported counters agree with the routing, and an
  accepted stale write is counted as such and as unsafe.
* `OrderDoesNotMatter` (`BatchOrder`): a second call on the same intents in
  another order routes each of them as the first did and reports the same
  counters. `RoutesEveryIntentOnce` (refinement), over both calls.

Store properties: `SettledFilesAgree` (files, snapshots, logs and version
numbers tell one story between batches), `PublishedSnapshotsStay`,
`PublishesAtomically` (refinement of `AtomicCommit`: the manifest is the switch)
without kills; `ManifestNeverAheadOfLogs`, `LatestSnapshotExists`,
`PublishedSnapshotTornOnlyInPlace` with them.

Executor properties:

* `AllOrNothing`: readers find the rounds published so far, each whole, applied
  in the order of the agent list and not of the clock; nothing routed to review
  takes effect, whatever commit mode its agent wrote, and nothing of a round
  whose agent raised. The order matters in the checked instance: a patch that
  only sets a status and one that only sets a text are compatible for the
  resolver, but the store overwrites both fields with each.
* `SummaryAccountsForTeam`: two sets of counters and the agents' own holds
  account for every intent.
* `SuccessIsEarned`: a run that allows no unsafe commit and calls itself a
  success published no two contradicting texts, in one round or in several.
* `CertificatesMeetEveryScenario`: under every certificate mode each scenario
  of the library meets its own expectations; without read validation those built
  on a stale read do not.
* `PublishesRounds` (refinement of `AtomicRun`), `RunEnds`.

Agent properties: `RetriesAreBounded` (no more calls than the two kinds of
retries allow together, each after a failure that may pass or an unusable
answer); `UncertifiedWritesAreHeld` (a write the model did not certify, or whose
target grounding moved away from the claim, does not pass verification);
`StaleReadsAreHeld` (however a read was declared, it is checked, unless the
witness dropped it or is too long); `TurnEnds`.

Patch properties: `EveryCellHasItsRow`; `AppliesOnlyWhatCommitted` (a patch is
applied only when every intent of its agent committed); `CleanRowsAreWhole` (a
row without conflicts holds the whole patches of the agents let through and
nothing else); `PassIsTestedOrUntouched`; `FreshRowsAreFresh`.

Campaign properties: `EveryCellOnce` (a readable result file has a row per cell
and agrees with its JSONL); `FailuresAreLogged` (no failed row without a logged
error, across kills); `CellsAreIsolated`; `SameProposals` (what a replay's
conditions met is what the generation beside the bundle said, and a generation
names a bundle only when it is its own); `ReadyRowsRan` (a readiness check that
passes at the end of the primary script rests on rows that ran, without an
unsafe commit behind the workspace table or an accepted stale proposal behind the
commitment table);
`PairsAreReported`; `ScriptEnds`.

Type invariants are checked for resolver and store (`TypeOK`); those of the other
modules are part of the invariants of their proofs.

### Bounds

* Batches of three: verdicts and compatibility are pairwise, the authority and
  single-writer anomalies need a third intent (two equal retractions and a
  victim; a flagged rival that leaves one writer behind); no rule counts higher.
  Groups are independent once verdicts are fixed.
* The pools hold one intent per reason to be treated differently: corrections of
  two users, writers, a reader of a derived view, a low-confidence intent, a
  system write, events, laundered and weakened texts, three spellings of a file.
* In the resolver run `WITNESS_LIMIT = 2` stands for the code's 8; a pool intent
  reads more than that, so the cut is exercised. The other runs keep 8.
* Certificate claims are checked on single intents: the authority checks look at
  no other intent.
* Two store batches show whatever a later batch can do to an earlier one; the
  third batch in the crash run lets a store repaired after one kill publish
  over its past and be killed again.
* Executor plans: for the memory `m` a text, a status, a rival text whose agent
  asks for `auto`, and a correction with a log entry; a write held by its own
  agent; a declared and an inferred stale reader; a blocked certificate; none.
  Three agents give every order of answering and every pair in both list
  orders with a third between. No plan of the teams writes files, where two
  groups may share an object (`FileCommitsAreCompatible`) and the promise would
  not hold; the library's scenarios do not combine them in that way. Liveness is
  checked on two teams, with an agent that has nothing to say.
* Turns: two provider retries and one parse retry are the least with which the
  loops multiply; drafts are one per rule of validation, normalization or
  grounding, alone and in a pair; nine drafts are one too many for an answer.
* Patch tasks: two or three patches, one task per way to fail; a batch of two
  tasks under two conditions shows rows after a failed one.
* Campaigns: two conditions; one or two scenarios and repetitions, at most four
  cells, so that keys and names can coincide; two workers are the least that
  race; one agent with a sound answer, an unsafe one and, in the commitment
  scenario, a stale one, which is the least that tells the two counts apart; two
  starts, so that a script
  meets what a killed one left.

Deadlock checking is off everywhere, since a call, a turn, a batch or a run ends
and the bounded store runs out of batches; that they end is what `RunEnds`,
`TurnEnds` and `ScriptEnds` say, and `EveryCellHasItsRow` says how.

### Fairness

* `FairRunSpec`: weak fairness of the run's steps, kills excepted: threads are
  scheduled by the system and each agent returns or raises.
* `TurnSpec`: weak fairness of the agent's steps. That a turn answers at all is
  what the code's timeouts and attempt limits are for: a call has a time limit,
  a pause a length, and both loops a count.
* `FairCampaignSpec`: weak fairness of the script's progress; the user's starts
  and kills are not fair. A cell ends since its turns do.

The resolver is one function without waiting and runs inside `FairRunSpec`. The
store alone has no liveness property: a killed process is not restarted by
anything in the code.

### Where comment and code disagree

* `OnlyStaleReadsAreIgnored` (run `ignored_reads`): the ablation
  without read validation is documented to keep routing "other certificate
  problems, such as wrong targets or insufficient authority" to review
  (resolver 340-341), but rebuilds the verdict from three warning kinds (352), so
  that over-claimed authority or a mismatched delta contract alone commits.
* `FileCommitsAreCompatible` (run `file_correction`): the canonical lock scope is
  there so that two writes of a file do not split into a lock group and an atom
  group (policy 44-47), but it is consulted only for intents in the lock lane
  (resolver 98); a user's retraction of the file falls in the atom group, and
  commits together with the patch of the file it retracts.
* `AcceptedStaleIsCrossTarget` (run `self_read`): the evaluator's count is one of
  "stale cross-target writes" (resolver 287) but includes a lone write that reads
  its own target, since the intent's own write is among those it is compared
  with (297-312).
* `AppliedPatchesWereDecided` (run `undecided_patch`): the runner's compiler
  "maps prepared patch proposals to context write intents so the same policy
  machinery can decide which patches are safe" (`patch_test_runner.py:489`), but
  an agent has one output, which each of its patches overwrites (570): only the
  last becomes an intent, and with it every patch of the agent is applied (659).
  A patch counts as decided if an intent of its own agent is on what the patch
  writes: the commitment it revises, the task's shared commitment where that
  stands in for it (537-540), or else its file. In the trace (`TwiceRevising`,
  under the execution-trace condition) ann has a patch of `a` and one of `b` that
  revises a commitment, bob one of `a`. Both of ann's intents are on the
  commitment, so nobody sees two writers of `a`; both commit, and ann's and bob's
  patches of `a` are applied one over the other. In the task `Twice`, where
  her last patch is of a file, the output that stands for both her patches gives
  two intents on that file, which contend for its lock, and she is held.

Two more are about words only and have no run: the help of `--fail-fast`
promises to abort on the first failed cell (`run_llm_experiment.py:255`), while
leaving the pool's block first runs every queued cell; and
`README_REPRODUCE.md:45-47` describes one error log for a campaign, which each
driver unlinks when it starts (`run_cooperbench_substrate.py:43-45`). The model
has both as the code does them.

## What is proved

Thirty-five theorems in eight modules, for every value of the constants. What they
assume of the constants is named where a constant is declared and evaluated by
the runs:

| assumption | says |
|---|---|
| `WorkloadsAssumption`, `ReadsAssumption` (`Workload`) | batch sizes are numbers; logged reads are a list |
| `OrdersAssumption` (`BatchOrder`) | an order of a second batch is a permutation |
| `LimitAssumption` (`Certificate`) | the witness limit is a number |
| `StoreAssumption` (`SubstrateStore`) | the bounds are numbers, batches are lists, the seed is a content, a file that was cut short is none |
| `TasksAssumption` (`TeamExecutor`) | a team is a list of agents, each with a list of intents; whatever an agent was shown, the merge stage may be called with what it emits |
| `TurnsAssumption`, `CandidatesAssumption` (`AgentTurn`) | retry limits and fake read counts are numbers; candidates are a list, each with an id (`target_grounder.py:22` drops others) |
| `ReadsOfTurnsAssumption` (`AgentTurn`) | reads are listed, each with a target, a status and a flag (`dependency_witness.py:63`) |
| `BatchesAssumption` (`PatchRunner`) | tasks, patches, changes and conditions are lists |
| `ProbesAssumption` (`PatchRunner`) | how the synthetic tasks probe for staleness: a client is probed only where a commitment is revised, for a helper that only a patch relying on that commitment adds (`make_e2e_synthetic_tasks.py:135-188`) |
| `TeamAssumption` (`CellPool`), `CampaignsAssumption` (`Campaign`) | a team is not empty; scripts, scenarios and conditions are lists; a driver repeats a cell at least once |

### The merge stage

`ConflictResolver_proofs`:

* `Typed`: `Spec => []TypeOK`.
* `FlaggedNeverSlipThrough`: `Spec => []FlaggedCommitsOnlyByAuthority`. The
  invariant is not inductive: that a lane commits what is left of a group is
  harmless only if nothing flagged is left. The strengthening `IInv` adds
  `GroupInProgress`: the rest of the group is undecided, shares one key, is the
  whole pending group at the lane choice, and holds no flagged intent after it.
* `AuthorityIsNeverClaimed`: `Spec => []NoCommitBeyondAuthority`. An actor
  without the required authority produces a review warning under every
  certificate, the warning flags the intent in every certificate mode, the
  read-ignoring ablation included, and verdicts never change after `Verify`
  (`VerdictsStand`); the previous theorem does the rest.
* `RoutesEachIntentAtMostOnce`: the initial states and steps of the resolver map
  to those of `WriteIntentRouting`.

The rest follows from one more invariant. The code decides a group in up
to three rounds; `Ruling(n)` says in one expression what it decides of an intent,
as a function of the intent's *whole* group, the verdicts and the mode. `RInv`
says that every outcome so far is the ruling's (`Ruled`), that a group is either
untouched, in progress or left (`GroupsAreWhole`), and which of its intents are
still there between two rounds (`LeftOfGroup`). The safety of the merge stage is
read off the rule: `RoutedByRule`, `NoWinnerIsPicked` (`NoSilentWinner`),
`FileLocksExclude` (`FileWritesAreExclusive`), `AuthorityPrevails`
(`NoOverrideOfAuthority`), `CorrectionsMayReadTheirTarget`,
`StaleReadsDoNotCommit` (`NoCommitOnStaleRead`).

* `CountersAreRight`: `Spec => []CountersMatchOutcomes`. `CInv` reads the
  counters off the routing at every moment: each is the size of a set of decided
  intents, and the rest of the group in progress accounts for the difference.

`BatchOrder_proofs` has one theorem, about two calls:

* `OrderIsNoTieBreaker`: `BothSpec => []OrderDoesNotMatter`, for all intents,
  modes and scenarios, every batch and every permutation of it. The second call
  keeps no trace of how the first one went, so an invariant of one call cannot
  compare them. What is proved of each call is that its result is a function of
  its arguments: `Due(n)` is the routing of an intent, `Total(f)` the value of a
  counter when the call returns, and neither mentions the order in which the
  stage takes the groups. For the routing this is `RInv` again. For the
  counters, a group adds to each of them, in up to three rounds, the sizes of
  sets of its own members; `Tokens` makes one set of pairs (part of the batch,
  round) of them, and `Counted` says that at every moment a counter is the number
  of tokens of the groups that have been left, plus those of the rounds the
  group in progress has behind it (`Over`). `BInv` adds to these invariants what was
  recorded of the first call (`Recorded`). At `CallAgain` the permutation maps
  each operator of the model, one lemma each, to the same operator on the
  preimage (`Pre`) of its arguments: mutators, stale reads, verdicts, groups,
  conflicts, authority. So `Due` of a place in the second batch is `Due` of the
  place it came from, and the tokens of the two calls are in bijection.

### The store

`SubstrateStore_proofs`, for all batches, seeds, numbers of commits and kills:

* `StoreTyped`: files, logs and the commit in progress hold values of their kind.
* `ManifestIsBackedByLogs`, `ManifestNamesASnapshot`, `PublishedSnapshotIsSafe`,
  from `SInv`, which ties the manifest a batch started from, with what the batch
  has logged so far, to the logs (`BaseBehindLogs`), and the phase to what is
  already on disk (`ManifestPublished`).
* `StoreTellsOneStory` (`SettledFilesAgree`) and `PublishedStays`, from `QInv`:
  before any kill nothing is torn, the counts agree with the logs, version numbers
  rise, and every phase says which of the four files are already the new ones.
* `CommitIsAtomic`: `Spec => PublishesAtomically`, the refinement of
  `AtomicCommit`, if `MaxCrashes = 0`. (With a kill it is false, which is what
  the run `store_crashes` is about.) The abstract step publishes what applying
  the batch from its start yields; `UnderWay` says that what has been built so
  far is a prefix of that, and `AtomicCommit!Reached` is unfolded one intent at
  a time.

### A run

`TeamExecutor_proofs`, for all teams, scenarios, modes, schedules, seeds and
numbers of kills:

* `RoundsAreMergedSafely`: the eight safety properties of the merge stage, as
  properties of `RunSpec`. The resolver's theorems are about one call; a run
  makes one call per round, on what its agents emitted from what they were shown
  of the store. `MergeInv` says that the call goes with the task (`OnTask`) and
  with the stage of the run (`InStep`) and satisfies the invariants of a call
  (`CallInv`: `IInv`, `RInv`, `CInv`, `VerdictsStand`). `Collect` and `NextTurn`
  set up the arguments the way the resolver's initial states do (`CallStarted`),
  `Merging` is one of its steps (`CallNext`), and the other actions leave it
  alone.
* `SummariesAddUp`: `RunSpec => []SummaryAccountsForTeam`. Nothing in the code
  relates the merge stage's counters to the store's: the one counts while it
  routes groups, the other while it takes a list that has been put into another
  order and in which an agent's own commit mode is stronger than the routing.
  Three facts connect them. The list handed over is a permutation of the batch:
  the rank of an intent under `Before` is unique and within bounds, so the ranks
  are a bijection (`MergedIsAPermutation`). `Progressing` says at every moment of
  a commit that what the store has still to take is the rest of that list, and
  that what it has recorded is the number of intents it does not apply among
  those it took. And an intent is not applied if and only if it was routed to
  review, blocked, or held by its own agent (`HeldBackCount`, from the resolver's
  counter invariant). `Reporting` adds the rounds of a serial run up: what the
  first agents emitted is the length of the flattened part of the team, which is
  reasoned about step by step (`JoinedStepByStep`).

### The agent's turn

`AgentTurn_proofs`:

* `CallsAreBounded` (`RetriesAreBounded`), from `TInv`, which bounds the calls by
  the attempts begun and the tries of the current one, and gives every repeated
  call its reason.
* `UncertifiedWritesDoNotPass` (`UncertifiedWritesAreHeld`), from `VInv`, which
  follows each intent from the model's draft to its verdict: what normalization
  writes into a certificate of its own (`Vouches`), which target grounding leaves
  (`Placed`), and what the witness may add. The turn's last step is then an
  argument about `VerifyCertificate`.
* `DeclaredStaleReadsHold` (`StaleReadsAreHeld`), from `VInv` and `RInv`: from
  the moment the witness is compiled the last read of each target that the agent
  is known to have read is in every intent's trace, and fresh (`LastReadIsLogged`). Which reads are kept is a fold in the
  code; `FirstReads` says it by ranks, so that "the first of each target" is a
  fact about positions instead of an induction.

### The patch runner

`PatchRunner_proofs`, for every list of rows, tasks, patches and conditions, and
whatever raises or runs out of time: `RowsAccountForPatches`
(`EveryCellHasItsRow`), `OnlyCommittedIsApplied` (`AppliesOnlyWhatCommitted`),
`CleanRowsArePatchedWhole` (`CleanRowsAreWhole`), `PassesAreEarned`
(`PassIsTestedOrUntouched`), from `PInv`: the rows account for their patches
(`Reporting`), the recorded decisions are those the merge stage made
(`Deciding`), and the repository is what the patches applied so far left
(`Patching`).

`FreshRowsHoldNoStalePatch` (`FreshRowsAreFresh`) needs `FInv` beside it: a row
that calls itself fresh was written with no unsafe and no stale commit counted
(`StaleIsCounted`), so of two patches in conflict over a revised commitment at
most one was let through; and what is in the repository is the task's own file or
was written by a patch that was let through (`LetThrough`, `Traced`). The property was first stated without a
word on what a probe is, and is false of arbitrary tasks; `ProbesAssumption` is
what the generator of the tasks guarantees, and TLC evaluates it for the tasks of
the run.

### Drivers, files and scripts

`Campaign_proofs` and `CampaignFiles_proofs`, for all scripts and jobs, over any
number of starts and kills:

* `RowsAreIsolated` (`CellsAreIsolated`) and `FailuresHaveEntries`
  (`FailuresAreLogged`), from `DriverInv`: what a pool has at hand are cells of
  its job, what runs has its own seed in its own directory, and a row that failed
  was logged before it was handed over.
* `CellsHaveTheirRow` (`EveryCellOnce`), if `DistinctLoops`. The loops of a driver
  meet each cell once, in whatever order they are shuffled; `RowsInv` says that a
  cell is in one place at a time.
* `PairsHaveTheirRows` (`PairsAreReported`), if `DistinctPairs`; `BenchInv` says
  which rows there are when the benchmark has dealt with its first n cells.
* `ReplaysSayTheSame` (`SameProposals`), if `DistinctPairs` and `OneGeneration`;
  `ReplayInv` dates files (a bundle is never younger than the last driver, and the
  generation of the same date is the one it was made of) and follows the frozen
  records into the rows.
* `ReadyMeansRan` (`ReadyRowsRan`), if `OnePrimary`; `ScriptInv` says which step
  of the primary script has left which table, made of which result file.

The four hypotheses are defined at the end of `Campaign`: no driver is given a
scenario or a condition twice, only a generation writes the generation's file,
and a script ends with the commitment workload only if it is the primary script.
The repository's scripts have them: the lists of conditions in
`scripts/*.sh` and the default lists of the drivers have no repetitions, output
paths are named for their workload, and only
`run_wccu_cooperbench_derived.sh` ends that way. `ScriptsAssumption` of
`MCCampaign` has TLC evaluate them for the modelled scripts. Without them the
properties are false: a condition given twice runs its cells twice, in the same
directories.

### What the proofs changed

* `PairsAreReported` first said only that an error row has a counterpart under
  each condition, which a benchmark that loses a pair satisfies; it now says how
  many rows a pair has and which comes first.
* `CleanRowsAreWhole` needed that a patch outside the repository is never
  written (`Writable`).
* The queue of the benchmark, the records of a bundle, the rows of a table and
  the deposition of a certificate's claims on a normalized intent are written
  with functions over explicit domains (`BenchAt`, `RowsOf`, `WccuRows`,
  `StatedDeps`), which a prover can reason about and TLC evaluates to the same;
  so are the reads a witness keeps (`FirstReads`) and what a patch leaves of the
  repository (`WriteAll`).
* `FreshRowsAreFresh` did not say which tasks it was about; see above.
* `BatchOrder` was a pair of resolver instances running side by side. It is now
  one resolver that is called again, so that the invariants of one call serve
  both; `WriteIntentRouting` lets a next batch come accordingly.
* The lane of an intent (`CommitMode`) and the place it is grounded to
  (`Grounding`) were written as `CASE` with arms that may hold together, which
  leaves open which one counts; TLC takes the first. The arms now exclude one
  another in the order of the code's early returns. Without that,
  `HeldBackCount` could not be proved.
* The intents handed to the store are listed by their rank (`Before`,
  `MergedOrder`) instead of by flattening selections of groups, and what an
  agent's projection leaves of an intent is an operator of its own (`ShownOnly`).
* `Findings` (what `verify_certificate` finds once it is known whether a read is
  stale) is a definition of its own: the rest of the events depend on the intent
  and the scenario alone, which is what makes them independent of the order.

### Model-checked only

* That runs, turns and scripts end: liveness under fairness and `ENABLED` are
  out of the prover's reach.
* The executor's `AllOrNothing`, `SuccessIsEarned` and `PublishesRounds`. They
  compare the order of the agent list with the order of commits, through what
  folding either over the store leaves, and they are true of teams like the
  modelled ones, not of any: where an item is written in several groups, or in
  an ablation without conflict detection, the order shows. What is proved of
  these is their base: each round is a call of the merge stage, the store takes a
  permutation of it, and a commit publishes its batch atomically.
  `CertificatesMeetEveryScenario` is about the scenarios of the library, so a
  finite check says all there is to say.
* The four expected violations.

## What is abstracted or left out

* Text recognition (regular expressions, word overlap) is reduced to its result.
* Warnings about views to invalidate never route an intent; the per-kind WCCU
  totals, decision records, isolation histograms and latencies only report.
* Intents of one batch have distinct ids in the pools. An agent may emit two with
  one id, in which case each is taken for the other's self; the operators model
  that, the runs do not enumerate it.
* Torn log lines are not modelled: the logs are never read back by the runtime.
  A kill in the middle of the opening's own default rewrites leaves the file as
  unreadable as before, the same as a kill before the opening.
* Two commits at once on one store: no executor does it.
* Projections: each agent reads the snapshot file of its base id, which nothing
  rewrites while agents run; which atoms the ranking keeps within the budget and
  the limit of 24, which no scenario reaches, is given with the task. Latencies
  and tokens only report.
* LLM agents: prompts, request bodies, usage. A provider's answer is any of a
  set, an error any of its kinds.
* Patch runner: set-up commands, file snapshots and test discovery, which change
  no decision; a batch starts without files of an earlier one.
* Campaigns: aggregates inside result files and tables, sorting of rows, dataset
  and note checks of the readiness verdict, scripts that chain the same commands.
  That the
  run directories of the declared scenarios and conditions have distinct names
  was checked by enumerating 5400 of them; `RunDir` takes it from there.
* The components marked `not_modelled` in `PROJECT.json`: drivers that run the
  modelled merge stage in a single-threaded loop, baselines that estimate from
  texts, adapters, the patch generator, the remaining tables.

The definitions were compared with the program: the executor's summaries for
every scenario and mode, the rows of 176 small end-to-end batches, and the
normalized and grounded intents of 116 model answers agree.

## Plan

1. A condition on teams under which the order of the merged intents does not
   show in the store, and from it the executor's promise as a theorem.
2. The multi-model benchmark and the patch generator, which share `AgentTurn`'s
   client and `CellPool`'s pool.
