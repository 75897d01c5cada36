---------------------------- MODULE TeamExecutor ----------------------------
(***************************************************************************)
(* One run of a scenario:                                                  *)
(*   wccu_eval/scheduler/team_dag_executor.py                              *)
(*                                                                         *)
(* execute_context_policy_parallel: each agent works in a thread of its    *)
(* own from the same snapshot; when all have returned, the merge stage     *)
(* (ConflictResolver) routes what they wrote and the store                 *)
(* (SubstrateStore) commits the batch: one round.                          *)
(* execute_substrate_serial: a round per agent, each on the store as the   *)
(* agents before it left it.                                               *)
(* An agent may raise instead of returning; the process may be killed.     *)
(***************************************************************************)
EXTENDS ConflictResolver, SequencesExt

CONSTANTS Schedules,  \* subset of {"parallel", "serial"}
          Tasks,      \* records [scenario, team, unseen, modes]: a scenario,
                      \* for each of its agents the intents it will emit and
                      \* the atoms it cannot see, and the policy modes it is
                      \* run under
          Seed,       \* the seeded content of the store
          Torn,       \* the content of a file whose rewrite was cut short
          MaxKills    \* bound on the number of kills, at most one per run

VARIABLES schedule, task,
          agents,         \* what became of each agent
          seen,           \* the version of the snapshot it projected
          turn,           \* the round, 1 for the first
          prior,          \* serial: the last text written under each id
          handoffs,       \* parallel: the agents that handed over, in order
          run,            \* agents, merging, committing, done, failed, killed
          summary,        \* what it reports, added up over its rounds
          settled,        \* what took effect in earlier rounds
          published,      \* how many rounds have been published
          \* the variables of the store:
          manifest, atomsFile, linksFile, snapshots, operations, proposals,
          phase, todo, work, base, version, committed, recorded,
          batches, crashes

progress == <<agents, seen, turn, prior, handoffs, summary, settled>>
files == <<manifest, atomsFile, linksFile, snapshots, operations, proposals>>
memory == <<phase, todo, work, base, version, committed, recorded>>
store == <<files, memory, batches, crashes>>
runVars == <<vars, schedule, task, progress, run, published, store>>

Team == task.team
Parallel == schedule = "parallel"
LongestTeam == Max({Len(t.team) : t \in Tasks})

Store == INSTANCE SubstrateStore
             WITH Batches <- {}, MaxBatches <- LongestTeam,
                  MaxCrashes <- MaxKills

-----------------------------------------------------------------------------
(* What is handed to the merge stage. *)

\* The atoms an intent shares words with.
Alluded(i) ==
    UNION {{i.overlap[c][k].target : k \in DOMAIN i.overlap[c]} :
              c \in DOMAIN i.overlap}

\* The words an intent shares with an atom count as reads of it only when the
\* agent was shown the atom.
ShownOnly(i, atoms) ==
    [i EXCEPT !.overlap = [c \in DOMAIN @ |->
        SelectSeq(@[c], LAMBDA d : d.target \in atoms)]]

\* Every agent of a team emits a list of intents, and whatever it was shown,
\* the merge stage may be called with them.
ASSUME TasksAssumption ==
    \A t \in Tasks :
        /\ t.scenario \in Scenarios /\ t.modes \subseteq Modes
        /\ t.team \in Seq(ToSet(t.team)) /\ t.team # <<>>
        /\ \A a \in DOMAIN t.team :
              /\ t.team[a] \in Seq(ToSet(t.team[a]))
              /\ \A k \in DOMAIN t.team[a] :
                    \A atoms \in SUBSET Alluded(t.team[a][k]) :
                        ShownOnly(t.team[a][k], atoms) \in IntentPool

\* compile_projection shows an agent the active atoms of its snapshot, but for
\* those that are not allowed to its role or do not fit in its budget.
Visible(a) ==
    LET atoms == snapshots[seen[a]].atoms
    IN  {x \in DOMAIN atoms \ task.unseen[a] : atoms[x].status = "active"}

\* The merge stage learns what an agent was shown in a parallel run only.
Traced(a) == IF Parallel THEN Visible(a) ELSE {}

Projected(a) ==
    [k \in DOMAIN Team[a] |->
        ShownOnly(Team[a][k], Traced(a) \cap Alluded(Team[a][k]))]

\* BUG: the batch is collected as the agents complete.
MutRoundIntents ==
    IF Parallel
    THEN FlattenSeq([k \in DOMAIN handoffs |-> Projected(handoffs[k])])
    ELSE Projected(turn)

\* pool.map gives the results in the order of the agent list.
RoundIntents ==
    IF Parallel THEN FlattenSeq([a \in DOMAIN Team |-> Projected(a)])
                ELSE Projected(turn)

\* The id an agent wrote, before its target is grounded.
WrittenId(i) == IF i.named # "" THEN i.named ELSE i.id

Noted(acc, i) ==
    LET t == WrittenId(i)
    IN  [last  |-> Store!Put(acc.last, t, i.text.body),
         count |-> acc.count
             + One(t \in DOMAIN acc.last /\ acc.last[t] # i.text.body)]

\* BUG: what earlier agents wrote is forgotten.
MutOverwriting(intents) ==
    FoldLeft(Noted, [last |-> [x \in {} |-> ""], count |-> 0], intents)

\* The serial run counts the intents whose text differs from the one last
\* written under the same id, whether or not either commits.
Overwriting(intents) ==
    FoldLeft(Noted, [last |-> prior, count |-> 0], intents)

-----------------------------------------------------------------------------
(* What is handed from the merge stage to the store. *)

First(n) == CHOOSE m \in GroupOf(n) : \A k \in GroupOf(n) : m <= k

\* What commits comes first; within it, and within the rest, groups follow one
\* another by their first member.
Before(m, n) ==
    IF (m \in Committed) # (n \in Committed) THEN m \in Committed
    ELSE IF First(m) # First(n) THEN First(m) < First(n) ELSE m < n

MergedOrder ==
    [k \in DOMAIN input |->
        CHOOSE n \in DOMAIN input :
            Cardinality({m \in DOMAIN input : Before(m, n)}) = k - 1]

Routed(n) ==
    CASE outcome[n] = "commit" -> "auto"
      [] outcome[n] = "review" -> "review_required"
      [] OTHER                 -> "blocked"

\* A routing to review or block overwrites the commit mode the agent may have
\* written on its intent; an intent that commits keeps it.
OwnMode(n) == IF outcome[n] = "commit" THEN input[n].own ELSE Routed(n)

\* The text of an intent no longer matters to its lane once a mode is
\* requested.
StoreIntent(n) ==
    [op |-> input[n].op, item |-> input[n].target,
     body |-> input[n].text.body, status |-> input[n].status,
     own |-> OwnMode(n), requested |-> Routed(n),
     forceAuto |-> ForcesAuto(input[n], mode), sensitive |-> FALSE]

MergedIntents == [k \in DOMAIN input |-> StoreIntent(MergedOrder[k])]

-----------------------------------------------------------------------------
(* What the run reports, and whether it calls itself a success. *)

Counts == {"committed", "recorded", "proposals", "conflicts", "unsafe",
    "rebase", "lock", "semantic", "routed", "blocked", "interventions",
    "stale", "staleAccepted", "ignored"}

NoSummary == [c \in Counts |-> 0]

Proposed ==
    Cardinality({k \in DOMAIN MergedIntents :
                    Store!CommitMode(MergedIntents[k]) = "review_required"})

StaleIntents == Cardinality({n \in DOMAIN input : verdict[n].stale})

Reported ==
    [c \in Counts |->
        CASE c = "committed"     -> committed
          [] c = "recorded"      -> recorded
          [] c = "proposals"     -> Proposed
          [] c = "interventions" -> metrics["routed"] + metrics["blocked"]
          [] c = "stale"         -> StaleIntents
          [] c = "ignored"       ->
                 IF mode = "adaptive_wccu_no_read_validation"
                 THEN StaleIntents ELSE 0
          [] OTHER               -> metrics[c]]

\* The serial summary has no entry for these; its unsafe commits are the
\* overwritings.
NotQueued == {"unsafe", "rebase", "lock", "semantic", "stale", "ignored"}

QueueReported ==
    [c \in Counts |->
        summary[c] + CASE c \in NotQueued -> 0
                       [] c = "conflicts" ->
                              metrics[c] + (recorded - Proposed)
                       [] OTHER -> Reported[c]]

\* BUG: what the merge stage let through.
MutRoundReport ==
    [(IF Parallel THEN Reported ELSE QueueReported)
        EXCEPT !["committed"] = Cardinality(Committed)]

RoundReport == IF Parallel THEN Reported ELSE QueueReported

\* The expectations of a scenario, those for this schedule and mode first.
Expectation ==
    LET sc == task.scenario
    IN  IF <<schedule, mode>> \in DOMAIN sc.expectedBy
        THEN [min |-> sc.expectedBy[schedule, mode].min @@ sc.expected.min,
              max |-> sc.expectedBy[schedule, mode].max @@ sc.expected.max]
        ELSE sc.expected

\* expected_success
TaskSuccess ==
    /\ \A c \in DOMAIN Expectation.min : summary[c] >= Expectation.min[c]
    /\ \A c \in DOMAIN Expectation.max : summary[c] <= Expectation.max[c]

-----------------------------------------------------------------------------
RunInit ==
    /\ schedule \in Schedules /\ task \in Tasks
    /\ mode \in task.modes /\ scenario = task.scenario
    /\ input = <<>> /\ verdict = <<>> /\ outcome = <<>>
    /\ stage = "collect" /\ live = {}
    /\ metrics = [f \in MetricNames |-> 0]
    /\ agents = [a \in DOMAIN Team |->
                    IF Parallel \/ a = 1 THEN "running" ELSE "waiting"]
    /\ seen = [a \in DOMAIN Team |-> 0]
    /\ turn = 1 /\ prior = [x \in {} |-> ""] /\ handoffs = <<>>
    /\ run = "agents" /\ summary = NoSummary
    /\ settled = <<>> /\ published = 0
    /\ Store!Init

\* The agent returns; in a parallel run its last act is the handoff record.
Return(a) ==
    /\ run = "agents" /\ agents[a] = "running"
    /\ agents' = [agents EXCEPT ![a] = "returned"]
    /\ handoffs' = IF Parallel THEN Append(handoffs, a) ELSE handoffs
    /\ UNCHANGED <<vars, store, schedule, task, run, seen, turn, prior,
                   summary, settled, published>>

\* The agent raises: its provider gave up, its answer could not be used.
Raise(a) ==
    /\ run = "agents" /\ agents[a] = "running"
    /\ agents' = [agents EXCEPT ![a] = "raised"]
    /\ UNCHANGED <<vars, store, schedule, task, run, seen, turn, prior,
                   handoffs, summary, settled, published>>

\* The agents whose answers the round waits for.
Due == IF Parallel THEN DOMAIN Team ELSE {turn}

AllReturned == \A a \in Due : agents[a] = "returned"

\* BUG: the run gives up only when no agent has answered.
MutGivesUp == \A a \in Due : agents[a] = "raised"

\* The pool has waited for every thread, and one of them raised.
GivesUp ==
    /\ \A a \in Due : agents[a] # "running"
    /\ \E a \in Due : agents[a] = "raised"

Collect ==
    /\ run = "agents" /\ AllReturned
    /\ input' = RoundIntents
    /\ verdict' = [n \in DOMAIN input' |-> Unverified]
    /\ outcome' = [n \in DOMAIN input' |-> "pending"]
    /\ IF Parallel THEN UNCHANGED <<prior, summary>>
       ELSE /\ prior' = Overwriting(input').last
            /\ summary' = [summary EXCEPT
                              !["unsafe"] = @ + Overwriting(input').count]
    /\ run' = "merging"
    /\ UNCHANGED <<mode, scenario, stage, live, metrics, store, schedule,
                   task, agents, seen, turn, handoffs, settled, published>>

\* The exception of one agent leaves the executor.
FailRun ==
    /\ run = "agents" /\ GivesUp
    /\ run' = "failed"
    /\ UNCHANGED <<vars, store, schedule, task, progress, published>>

Merging ==
    /\ run = "merging"
    /\ Next
    /\ UNCHANGED <<store, schedule, task, progress, run, published>>

HandOver ==
    /\ run = "merging" /\ stage = "done"
    /\ Store!Begin(MergedIntents)
    /\ run' = "committing"
    /\ UNCHANGED <<vars, schedule, task, progress, published>>

Committing ==
    /\ run = "committing"
    /\ \/ Store!ApplyIntent \/ Store!RecordProposal
       \/ Store!WriteSnapshot \/ Store!WriteAtoms
    /\ UNCHANGED <<vars, schedule, task, progress, run, published>>

\* Readers follow the manifest.
Publish ==
    /\ run = "committing"
    /\ Store!WriteManifest
    /\ published' = published + 1
    /\ UNCHANGED <<vars, schedule, task, progress, run>>

LastRound == Parallel \/ turn = Len(Team)

\* The last rewrite of the store ends the run.
Finish ==
    /\ run = "committing" /\ LastRound
    /\ Store!WriteLinks
    /\ summary' = RoundReport
    /\ run' = "done"
    /\ UNCHANGED <<vars, schedule, task, agents, seen, turn, prior, handoffs,
                   settled, published>>

\* A committed intent whose agent asked for review itself.
HeldByAgent(n) ==
    outcome[n] = "commit" /\ Store!CommitMode(StoreIntent(n)) # "auto"

\* The round's intents as the agents are listed.
Listed == IF Parallel THEN FlattenSeq([a \in DOMAIN Team |-> Projected(a)])
                      ELSE Projected(turn)

\* What takes effect in this round: what the merge stage commits and its agent
\* did not hold back itself, in the order of the agent list.
Effective ==
    SelectSeq(Listed, LAMBDA i :
        \E n \in Committed : input[n] = i /\ ~HeldByAgent(n))

Latest == manifest.version

\* The next agent of a serial run reads the store the last one left.
NextTurn ==
    /\ run = "committing" /\ ~LastRound
    /\ Store!WriteLinks
    /\ summary' = RoundReport
    /\ settled' = settled \o Effective
    /\ turn' = turn + 1
    /\ agents' = [agents EXCEPT ![turn + 1] = "running"]
    /\ seen' = [seen EXCEPT ![turn + 1] = Latest]
    /\ input' = <<>> /\ verdict' = <<>> /\ outcome' = <<>>
    /\ stage' = "collect" /\ live' = {}
    /\ metrics' = [f \in MetricNames |-> 0]
    /\ run' = "agents"
    /\ UNCHANGED <<mode, scenario, schedule, task, prior, handoffs, published>>

KillBeforeCommit ==
    /\ run \in {"agents", "merging"} /\ crashes < MaxKills
    /\ crashes' = crashes + 1
    /\ run' = "killed"
    /\ UNCHANGED <<vars, schedule, task, progress, published, files, memory,
                   batches>>

KillDuringCommit ==
    /\ run = "committing"
    /\ Store!Crash
    /\ run' = "killed"
    /\ UNCHANGED <<vars, schedule, task, progress, published>>

Steps ==
    \/ \E a \in DOMAIN agents : Return(a) \/ Raise(a)
    \/ Collect \/ FailRun
    \/ Merging \/ HandOver \/ Committing \/ Publish
    \/ Finish \/ NextTurn

RunNext == Steps \/ KillBeforeCommit \/ KillDuringCommit

RunSpec == RunInit /\ [][RunNext]_runVars

\* Threads are scheduled and every provider call is bounded by its timeout and
\* its number of attempts, so each agent returns or raises; the rest of the run
\* is one function.
FairRunSpec == RunSpec /\ WF_runVars(Steps)

-----------------------------------------------------------------------------
(* Properties. *)

Effect(i, content) ==
    Store!Apply([op |-> i.op, item |-> i.target, body |-> i.text.body,
                 status |-> i.status], content)

After(intents) == FoldLeft(LAMBDA c, i : Effect(i, c), Seed, intents)

\* Readers find the rounds published so far, each as a whole and applied in
\* the order of the agent list: never a part of one, nothing that was routed
\* to review, nothing of a round with an agent that raised, and nothing that
\* depends on which agent was faster.  A kill may leave them a file that
\* cannot be read.
AllOrNothing ==
    /\ published = turn => \A a \in Due : agents[a] = "returned"
    /\ manifest # Torn /\ snapshots[manifest.version] # Torn =>
          snapshots[manifest.version] =
             After(IF published = turn THEN settled \o Effective ELSE settled)

\* The store's counts and the merge stage's, kept on their own, account for
\* every intent of the team: what was recorded is what the merge stage routed
\* to review or blocked, and what agents held back themselves.
SummaryAccountsForTeam ==
    run = "done" =>
        /\ summary["committed"] + summary["recorded"]
             = Len(FlattenSeq(Team))
        /\ Parallel => summary["recorded"] = metrics["review"]
               + metrics["blocked"]
               + Cardinality({n \in DOMAIN input : HeldByAgent(n)})

\* Two writes that give one item different texts.
Contradict(i, j) ==
    /\ IsStateWrite(i) /\ IsStateWrite(j) /\ i.target = j.target
    /\ i.text.body # j.text.body /\ "" \notin {i.text.body, j.text.body}
    /\ ~(IsRetraction(i) /\ IsRetraction(j))
    /\ ~(IsAppendOnly(i) /\ IsAppendOnly(j))

\* A run whose scenario allows no unsafe commit calls itself a success only if
\* no two of the writes that took effect, in one round or in several, gave one
\* item different texts.
SuccessIsEarned ==
    /\ run = "done" /\ TaskSuccess
    /\ "unsafe" \in DOMAIN Expectation.max /\ Expectation.max["unsafe"] = 0
    => LET taken == settled \o Effective
       IN  \A j, k \in DOMAIN taken :
              j # k => ~Contradict(taken[j], taken[k])

\* Every run ends.
RunEnds == <>(run \in {"done", "failed", "killed"})

-----------------------------------------------------------------------------
(* Refinement: every round is published atomically. *)

\* Two writes of one item agree when the resolver finds them compatible, when
\* both retract the item, or when both only append to it.
Agree(i, j) ==
    i.target = j.target =>
        \/ CompatiblePair(i, j)
        \/ IsRetraction(i) /\ IsRetraction(j)
        \/ IsAppendOnly(i) /\ IsAppendOnly(j)

Promise == INSTANCE AtomicRun
               WITH rounds <- IF Parallel THEN <<FlattenSeq(Team)>> ELSE Team,
                    value  <- IF manifest = Torn THEN Torn
                              ELSE snapshots[manifest.version]

PublishesRounds == Promise!Spec
=============================================================================
