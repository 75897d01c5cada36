----------------------------- MODULE PatchRunner -----------------------------
(***************************************************************************)
(* The end-to-end runner:                                                  *)
(*   wccu_eval/e2e/patch_test_runner.py                                    *)
(*                                                                         *)
(* A batch runs every task under every condition, one row each.  A row     *)
(* copies the task's repository, turns its patches into write intents, has *)
(* the merge stage (ConflictResolver) decide on them, applies the patches  *)
(* of the agents it let through, and runs the tests.  With isolated rows   *)
(* each row is a process of its own with a time limit.                     *)
(*                                                                         *)
(* A patch is a record of its agent, the files it names, the commitments   *)
(* of teammates it depends on or revises, and what it does to files: kind  *)
(* "edits" writes files one by one, "diff" is checked first, "missing" has *)
(* a patch file that is not there.                                         *)
(***************************************************************************)
EXTENDS ConflictResolver, MCIntents, SequencesExt

CONSTANTS Batches   \* records [tasks, conditions, applyReviewed, isolated]

IsList(s) == s \in Seq(ToSet(s))

ASSUME BatchesAssumption ==
    \A b \in Batches :
        /\ IsList(b.tasks) /\ IsList(b.conditions)
        /\ \A k \in DOMAIN b.tasks :
              /\ IsList(b.tasks[k].patches) /\ IsList(b.tasks[k].given)
              /\ \A j \in DOMAIN b.tasks[k].patches :
                    IsList(b.tasks[k].patches[j].changes)

VARIABLES batch,
          progress,   \* "running", "done" or "aborted"
          phase,      \* how far the current row is
          decisions,  \* the merge stage's, as [auto, agents]
          auto,       \* the agents whose patches are applied
          repo,       \* the row's copy of the repository
          results,    \* of the patches so far, as [attempted, ok]
          rows,       \* the rows reported, in the JSON-lines file
          final       \* the rows in the result file, written at the end

row == <<decisions, auto, repo, results>>
report == <<rows, final>>
patchVars == <<vars, batch, progress, phase, row, report>>

\* A condition has the name of its policy, but for the one that reads nothing.
SameNames ==
    {"adaptive_wccu_execution_trace", "adaptive_wccu_projection_trace",
     "adaptive_wccu_model_certificate", "adaptive_wccu_no_read_validation",
     "adaptive_wccu_oracle_dependency", "adaptive_wccu_unguided_certificate",
     "adaptive_readset_occ", "uniform_snapshot_occ",
     "uniform_review_gated", "uniform_append_only"}

CONDITION_TO_POLICY ==
    [c \in SameNames \cup {"adaptive_policy"} |->
        IF c \in SameNames THEN c ELSE "adaptive"]

Phases == {"waiting", "policy", "patches", "reported"}

-----------------------------------------------------------------------------
(* The cells of the batch: the conditions of a task follow one another.    *)

CellCount == Len(batch.tasks) * Len(batch.conditions)
TaskOf(cell) == batch.tasks[((cell - 1) \div Len(batch.conditions)) + 1]
ConditionOf(cell) == batch.conditions[((cell - 1) % Len(batch.conditions)) + 1]

Cell == Len(rows) + 1
Task == TaskOf(Cell)
Patches == Task.patches

-----------------------------------------------------------------------------
(* _synthesize_e2e_scenario: the write intents of a task's patches.        *)

\* An agent has one output: the last of its patches overwrites the others.
OwnPatch(t, a) ==
    LET own == SelectSeq(t.patches, LAMBDA p : p.agent = a) IN Last(own)

\* The reads of an agent are those of all its patches.
DependsOn(t, a) ==
    LET own   == SelectSeq(t.patches, LAMBDA p : p.agent = a)
        reads == FlattenSeq([k \in DOMAIN own |-> own[k].depends])
    IN  IF reads = <<>> /\ a = t.shared.dependent
        THEN <<t.shared.commitment>> ELSE reads

\* Only the first commitment a patch revises becomes a write; what the agent
\* that the task names revises without saying so is the shared commitment.
RevisedBy(t, p) ==
    CASE p.revises # <<>> -> Head(p.revises)
      [] p.revises = <<>> /\ p.agent = t.shared.revising -> t.shared.commitment
      [] OTHER -> ""

Revises(t, a) == RevisedBy(t, OwnPatch(t, a))

ReadRow(target) == [target |-> target, expected |-> "active", fresh |-> TRUE]

PatchTargets(p) == IF p.targets = <<>> THEN <<"workspace.patch">> ELSE p.targets

\* A revision is a statement whose one word of weight is "may"; only the first
\* file a patch names becomes a write.
PatchIntent(t, a) ==
    LET p      == OwnPatch(t, a)
        file   == Head(PatchTargets(p))
        reads  == DependsOn(t, a)
        common == [Patch(a, file, "") EXCEPT
                      !.role = p.role,
                      !.reads = [k \in DOMAIN reads |-> ReadRow(reads[k])]]
    IN  IF Revises(t, a) # ""
        THEN [common EXCEPT !.target = Revises(t, a), !.named = Revises(t, a),
                 !.ctype = "commitment", !.status = "active",
                 !.text = Phrase(a, {"optionality"})]
        ELSE [common EXCEPT !.ctype = "workspace_file", !.file = file,
                 !.risk = p.risk,
                 !.text = Text(IF p.description # "" THEN p.description ELSE a)]

Authors(t) == {p.agent : p \in ToSet(t.patches)}

PatchScenario(t) ==
    LET files       == UNION {ToSet(PatchTargets(p)) : p \in ToSet(t.patches)}
        commitments == {t.shared.commitment}
                       \cup UNION {ToSet(p.depends) \cup ToSet(p.revises)
                                     : p \in ToSet(t.patches)}
    IN  [seed |-> [x \in files \cup (commitments \ {""}) |->
             [Atom("active", {}, {}) EXCEPT
                 !.ctype = IF x \in files THEN "workspace_file"
                                          ELSE "commitment"]],
         invalidated |-> {}, disabled |-> {},
         declared |-> [a \in Authors(t) |-> PatchIntent(t, a).reads]]

\* scenario_from_task: a task may bring a scenario of its own.
TaskScenario(t) ==
    IF t.given # <<>> THEN Head(t.given) ELSE PatchScenario(t)

TaskIntents(t) ==
    IF t.given # <<>> THEN Tail(t.given)
    ELSE [k \in DOMAIN t.patches |-> PatchIntent(t, t.patches[k].agent)]

\* The agents of a task's scenario.
TaskAgents(t) == {i.agent : i \in ToSet(TaskIntents(t))}

-----------------------------------------------------------------------------
(* What a patch does to a repository.                                      *)

\* An edit that would leave the repository is refused.
Outside(e) == e.file = ""

\* The last edit of a file is what it holds; a file may be new.
WriteAll(files, edits) ==
    LET written == {e.file : e \in {e \in ToSet(edits) : ~Outside(e)}}
        last(f) == SelectLastInSeq(edits, LAMBDA e : e.file = f)
    IN  [f \in DOMAIN files \cup written |->
            IF f \in written THEN edits[last(f)].body ELSE files[f]]

Fits(files, hunk) ==
    hunk.file \in DOMAIN files /\ files[hunk.file] = hunk.from

\* BUG: a patch that wrote something is a success.
MutPatched(p, files) ==
    CASE p.kind = "edits" ->
           [ok   |-> \E k \in DOMAIN p.changes : ~Outside(p.changes[k]),
            repo |-> WriteAll(files, p.changes)]
      [] p.kind = "diff" ->
           LET fits == \A k \in DOMAIN p.changes : Fits(files, p.changes[k])
           IN  [ok   |-> fits,
                repo |-> IF fits THEN WriteAll(files, p.changes) ELSE files]
      [] OTHER -> [ok |-> FALSE, repo |-> files]

\* _apply_patch_entry: edits are written one by one, and one that would leave
\* the repository is an error that keeps the others; a diff is checked first;
\* a patch file that is not there raises.
Patched(p, files) ==
    CASE p.kind = "edits" ->
           [ok   |-> \A k \in DOMAIN p.changes : ~Outside(p.changes[k]),
            repo |-> WriteAll(files, p.changes)]
      [] p.kind = "diff" ->
           LET fits == \A k \in DOMAIN p.changes : Fits(files, p.changes[k])
           IN  [ok   |-> fits,
                repo |-> IF fits THEN WriteAll(files, p.changes) ELSE files]
      [] OTHER -> [ok |-> FALSE, repo |-> files]

Passes(test, files) ==
    \A f \in DOMAIN test.needs : f \in DOMAIN files /\ files[f] = test.needs[f]

-----------------------------------------------------------------------------
(* _auto_agents_from_row                                                   *)

NamedBy(kind) == UNION {decisions[k].agents :
                    k \in {j \in DOMAIN decisions : decisions[j].auto = kind}}

\* BUG: one automatic decision is enough.
MutAutoAgents ==
    IF batch.applyReviewed THEN TaskAgents(Task) ELSE NamedBy(TRUE)

\* Every decision that names an agent must be automatic.  The decisions of the
\* authority lane name winners and losers alike, and count as held.
AutoAgents ==
    IF batch.applyReviewed THEN TaskAgents(Task)
                           ELSE NamedBy(TRUE) \ NamedBy(FALSE)

Attempted == {k \in DOMAIN results : results[k].attempted}
Applied == {k \in Attempted : results[k].ok}
Held == DOMAIN results \ Attempted

\* BUG: tests are skipped when nothing was applied.
MutSkipsTests == Applied = {} /\ ~batch.applyReviewed

\* Nothing but held patches: there is nothing new to test.
SkipsTests ==
    Applied = {} /\ Held = DOMAIN results /\ ~batch.applyReviewed

\* _commitment_probe: the client of a commitment no longer works.
Broken(t, files) ==
    /\ t.breaks # <<>>
    /\ \A f \in DOMAIN t.breaks : f \in DOMAIN files /\ files[f] = t.breaks[f]

\* The commitment of another agent that a relies on and b revises.
ReliesOnRevised(t, a, b) ==
    a # b /\ Revises(t, b) # "" /\ Revises(t, b) \in ToSet(DependsOn(t, a))

\* A client is probed in the tasks about a stale commitment only.  It calls a
\* helper that is not in the base and that no patch adds but the one of the
\* agent who relies on the revised commitment
\* (scripts/make_e2e_synthetic_tasks.py:135-188).
ASSUME ProbesAssumption ==
    \A bt \in Batches : \A t \in ToSet(bt.tasks) :
        t.given = <<>> /\ t.breaks # <<>> =>
            \E a, b \in Authors(t) : \E f \in DOMAIN t.breaks :
                /\ ReliesOnRevised(t, a, b)
                /\ ~(f \in DOMAIN t.files /\ t.files[f] = t.breaks[f])
                /\ \A p \in ToSet(t.patches) : \A e \in ToSet(p.changes) :
                      e.file = f /\ e.body = t.breaks[f] => p.agent = a

FreshnessPass == metrics["unsafe"] = 0 /\ metrics["staleAccepted"] = 0

Row(passed) ==
    [failed |-> FALSE, passed |-> passed, fresh |-> FreshnessPass,
     broken |-> Broken(Task, repo),
     applied |-> Cardinality(Applied), held |-> Cardinality(Held),
     conflicts |-> Cardinality(Attempted \ Applied)]

\* BUG: nothing is said of the patches.
MutFailureRow ==
    [failed |-> TRUE, passed |-> FALSE, fresh |-> FALSE, broken |-> FALSE,
     applied |-> 0, held |-> 0, conflicts |-> 0]

\* A row that did not end counts every patch as held.
FailureRow ==
    [failed |-> TRUE, passed |-> FALSE, fresh |-> FALSE, broken |-> FALSE,
     applied |-> 0, held |-> Len(Patches), conflicts |-> 0]

-----------------------------------------------------------------------------
PatchInit ==
    /\ batch \in Batches
    /\ progress = "running" /\ phase = "waiting"
    /\ decisions = <<>> /\ auto = {} /\ repo = <<>> /\ results = <<>>
    /\ rows = <<>> /\ final = <<>>
    /\ mode = "adaptive"   \* no row has a policy yet
    /\ scenario = TaskScenario(Head(batch.tasks)) /\ input = <<>>
    /\ verdict = <<>> /\ outcome = <<>> /\ stage = "collect" /\ live = {}
    /\ metrics = [f \in MetricNames |-> 0]

BetweenRows == progress = "running" /\ phase \in {"waiting", "reported"}

\* Why the function of a row raises: it does not know the condition, or there
\* is no repository to copy.
Raises == ConditionOf(Cell) \notin DOMAIN CONDITION_TO_POLICY \/ ~Task.repoExists

\* The repository is copied, the scenario compiled and its agents run.
StartRow ==
    /\ BetweenRows /\ Cell <= CellCount /\ ~Raises
    /\ repo' = Task.files
    /\ mode' = CONDITION_TO_POLICY[ConditionOf(Cell)]
    /\ scenario' = TaskScenario(Task)
    /\ input' = TaskIntents(Task)
    /\ verdict' = [n \in DOMAIN input' |-> Unverified]
    /\ outcome' = [n \in DOMAIN input' |-> "pending"]
    /\ stage' = "collect" /\ live' = {}
    /\ metrics' = [f \in MetricNames |-> 0]
    /\ decisions' = <<>> /\ auto' = {} /\ results' = <<>>
    /\ phase' = "policy"
    /\ UNCHANGED <<batch, progress, report>>

\* A decision is recorded when it is about someone.
Decided(automatic, S) ==
    decisions' = IF S = {} THEN decisions
                 ELSE Append(decisions, [auto   |-> automatic,
                                         agents |-> {input[n].agent : n \in S}])

\* The lanes whose decision is automatic, and those whose decision holds.
Resolve ==
    \/ (Verify \/ Account) /\ UNCHANGED decisions
    \/ (InterruptByAuthority \/ GateReview \/ ContendForLock \/ ReviewConflict)
         /\ Decided(FALSE, live)
    \/ RouteFlagged /\ Decided(FALSE, FlaggedIn(live))
    \/ RouteStaleReaders /\ Decided(FALSE, StaleReaders(live))
    \/ (MergeAppendOnly \/ CommitSingleWriter \/ MergeCompatible)
         /\ Decided(TRUE, live)

RunPolicy ==
    /\ phase = "policy"
    /\ Resolve
    /\ UNCHANGED <<batch, progress, phase, auto, repo, results, report>>

SelectAgents ==
    /\ phase = "policy" /\ stage = "done"
    /\ auto' = AutoAgents
    /\ phase' = "patches"
    /\ UNCHANGED <<vars, batch, progress, decisions, repo, results, report>>

NextPatch == Patches[Len(results) + 1]

HoldPatch ==
    /\ phase = "patches" /\ Len(results) < Len(Patches)
    /\ NextPatch.agent \notin auto
    /\ results' = Append(results, [attempted |-> FALSE, ok |-> TRUE])
    /\ UNCHANGED <<vars, batch, progress, phase, decisions, auto, repo, report>>

ApplyPatch ==
    /\ phase = "patches" /\ Len(results) < Len(Patches)
    /\ NextPatch.agent \in auto
    /\ repo' = Patched(NextPatch, repo).repo
    /\ results' = Append(results, [attempted |-> TRUE,
                                   ok |-> Patched(NextPatch, repo).ok])
    /\ UNCHANGED <<vars, batch, progress, phase, decisions, auto, report>>

\* A test command passes or fails by what is in the repository; a slow one may
\* run out of time, which is a failure.  A row without tests has not passed.
RunTests ==
    /\ phase = "patches" /\ Len(results) = Len(Patches)
    /\ \E late \in SUBSET {k \in DOMAIN Task.tests : Task.tests[k].slow} :
          rows' = Append(rows, Row(
              \/ SkipsTests
              \/ /\ Task.tests # <<>>
                 /\ \A k \in DOMAIN Task.tests :
                       k \notin late /\ Passes(Task.tests[k], repo)))
    /\ phase' = "reported"
    /\ UNCHANGED <<vars, batch, progress, row, final>>

\* The process of a row is killed at its time limit, wherever it is.
TimeOut ==
    /\ phase \in {"policy", "patches"} /\ batch.isolated
    /\ rows' = Append(rows, FailureRow)
    /\ phase' = "waiting"
    /\ UNCHANGED <<vars, batch, progress, row, final>>

\* A row raises: its process exits with an error, which is a row, or the
\* exception ends the batch.
RaiseInRow ==
    /\ BetweenRows /\ Cell <= CellCount /\ Raises
    /\ IF batch.isolated
       THEN /\ rows' = Append(rows, FailureRow)
            /\ phase' = "waiting" /\ UNCHANGED progress
       ELSE /\ progress' = "aborted" /\ UNCHANGED <<rows, phase>>
    /\ UNCHANGED <<vars, batch, row, final>>

WriteResults ==
    /\ BetweenRows /\ Cell > CellCount
    /\ final' = rows
    /\ progress' = "done"
    /\ UNCHANGED <<vars, batch, phase, row, rows>>

PatchNext ==
    \/ StartRow \/ RunPolicy \/ SelectAgents
    \/ HoldPatch \/ ApplyPatch \/ RunTests
    \/ TimeOut \/ RaiseInRow \/ WriteResults

PatchSpec == PatchInit /\ [][PatchNext]_patchVars

-----------------------------------------------------------------------------
(* Properties. *)

\* Whatever raised or ran out of time on the way, a batch that ends has one
\* row for every task and condition, at its place, and each row accounts for
\* every patch of its task; a batch that a row aborts has no result file.
EveryCellHasItsRow ==
    /\ Len(rows) <= CellCount
    /\ \A k \in DOMAIN rows :
          rows[k].applied + rows[k].held + rows[k].conflicts
            = Len(TaskOf(k).patches)
    /\ progress = "done" => final = rows /\ Len(rows) = CellCount
    /\ progress = "aborted" => final = <<>> /\ ~batch.isolated

\* Unless reviewed patches are asked for, a patch reaches the repository only
\* when the merge stage committed every intent of its agent: not one of
\* several, and not a group in which the agent lost.
AppliesOnlyWhatCommitted ==
    phase \in {"patches", "reported"} /\ ~batch.applyReviewed =>
        \A n \in DOMAIN input : input[n].agent \in auto => outcome[n] = "commit"

LastTask == TaskOf(Len(rows))
LastRow == rows[Len(rows)]

\* The repository of a task after each of its patches, when those of the
\* agents that are let through are written whole.
Laid(t, through) ==
    LET after[k \in 0..Len(t.patches)] ==
            IF k = 0 THEN t.files
            ELSE IF t.patches[k].agent \in through
                 THEN WriteAll(after[k - 1], t.patches[k].changes)
                 ELSE after[k - 1]
    IN  after

\* A patch with a change that is refused, or without its file, is never whole.
Writable(p) ==
    \/ p.kind = "diff"
    \/ p.kind = "edits" /\ \A k \in DOMAIN p.changes : ~Outside(p.changes[k])

\* A row without conflicts leaves the repository with the whole patches of the
\* agents that were let through, in order, and nothing of the others.
CleanRowsAreWhole ==
    phase = "reported" /\ LastRow.conflicts = 0 =>
        /\ \A k \in DOMAIN LastTask.patches :
              LastTask.patches[k].agent \in auto => Writable(LastTask.patches[k])
        /\ repo = Laid(LastTask, auto)[Len(LastTask.patches)]

\* A row that passes has passed its tests on the repository as it is now, or
\* the repository is still the one that was copied.
PassIsTestedOrUntouched ==
    phase = "reported" /\ LastRow.passed =>
        \/ repo = LastTask.files
        \/ /\ LastTask.tests # <<>>
           /\ \A k \in DOMAIN LastTask.tests : Passes(LastTask.tests[k], repo)

\* In a row that reports itself fresh no agent was let through that relies on
\* a commitment which another agent of the task revises, and the client of the
\* commitment works.
FreshRowsAreFresh ==
    phase = "reported" /\ LastRow.fresh
      /\ ~batch.applyReviewed /\ LastTask.given = <<>> =>
        /\ ~LastRow.broken
        /\ \A a \in auto, b \in Authors(LastTask) :
              ~ReliesOnRevised(LastTask, a, b)

\* What a patch writes when it is taken for itself.
Subject(t, p) ==
    IF RevisedBy(t, p) # "" THEN RevisedBy(t, p) ELSE Head(PatchTargets(p))

\* "maps prepared patch proposals to context write intents so the same policy
\* machinery can decide which patches are safe to auto-apply" (lines 490-492):
\* a patch that is applied is one the merge stage decided on, in a write
\* intent of its agent on what the patch writes.
AppliedPatchesWereDecided ==
    phase = "patches" /\ Task.given = <<>> /\ ~batch.applyReviewed =>
        \A k \in Attempted :
            \E n \in DOMAIN input :
                /\ input[n].agent = Patches[k].agent
                /\ input[n].target = Subject(Task, Patches[k])
=============================================================================
