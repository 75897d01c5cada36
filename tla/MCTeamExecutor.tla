---------------------------- MODULE MCTeamExecutor ----------------------------
(***************************************************************************)
(* Teams for TLC: two and three agents, each agent with one of the plans   *)
(* below (agreeing and disagreeing writes of the memory m, a correction of *)
(* m, a derived write, and intents on which the agent put a commit mode of *)
(* its own), and the teams of the scenario library.                        *)
(***************************************************************************)
EXTENDS TeamExecutor, ScenarioLibrary

MCFileTarget == [x \in {} |-> ""]

Writer == Patch("writer", "m", "x")
Marker == [Patch("marker", "m", "") EXCEPT !.status = "proposed"]
Eager == [Patch("eager", "m", "y") EXCEPT !.own = "auto"]
Shy == [Patch("shy", "p", "x") EXCEPT !.own = "review_required"]
Corrector == Retract("corrector", "m", "wrong")
Reader == [Patch("reader", "p", "y") EXCEPT !.reads = Reads("m")]
Echo == [Patch("echo", "p", "z") EXCEPT !.overlap = Mentions(Reads("m"))]
Logger == [Patch("logger", "stream", "seen") EXCEPT !.op = "append_event"]
Misled == [Patch("misled", "k", "x") EXCEPT
              !.cert = [Cert(<<>>) EXCEPT !.claimed = "p",
                                          !.reviewIfInvalid = FALSE]]

Plans == {<<>>, <<Writer>>, <<Marker, Shy>>, <<Eager>>, <<Corrector, Logger>>,
          <<Reader>>, <<Echo>>, <<Misled>>}

Pairs == {t \in Plans \X Plans : t[1] # t[2]}

\* Three agents that all write m.
Rivals == {<<Writer>>, <<Marker, Shy>>, <<Eager>>, <<Corrector, Logger>>}
Triples == {t \in Rivals \X Rivals \X Rivals :
               t[1] # t[2] /\ t[1] # t[3] /\ t[2] # t[3]}

PlanModes == {"adaptive", "adaptive_wccu_execution_trace"}

SeesAll(team) == [a \in DOMAIN team |-> {}]

MCTask(team, modes) ==
    [scenario |-> Expecting(MemorySeed, Harmless), team |-> team,
     unseen |-> SeesAll(team), modes |-> modes]

\* The same, and m is shown to none of the agents.
WithoutM(t) == [t EXCEPT !.unseen = [a \in DOMAIN t.team |-> {"m"}]]

\* Every team under a mode that checks reads and one that does not, the pairs
\* under one that reviews everything too.
TeamTasks ==
    {MCTask(t, PlanModes \cup {"uniform_review_gated"}) : t \in Pairs}
        \cup {WithoutM(MCTask(t, PlanModes)) : t \in {t \in Pairs : t[1] = <<Echo>>}}
        \cup {MCTask(t, PlanModes) : t \in Triples}

LibraryModes == WccuConditions \cup
    {"adaptive", "adaptive_wccu_no_read_validation", "uniform_snapshot_occ"}

LibraryTasks ==
    {[scenario |-> s.scenario, team |-> s.team, unseen |-> SeesAll(s.team),
      modes |-> LibraryModes] :
        s \in SCENARIOS}

MCTasks == TeamTasks \cup LibraryTasks

\* Two short teams, for liveness.
FewTasks == {MCTask(<<<<Writer>>, <<Eager>>>>, PlanModes),
             MCTask(<<<<Corrector, Logger>>, <<>>, <<Reader>>>>, PlanModes)}

\* One content that every task may start from.
MCSeed ==
    LET seeds == {t.scenario.seed : t \in MCTasks}
    IN  [atoms |-> [x \in UNION {DOMAIN s : s \in seeds} |->
             [status |-> IF x \in DOMAIN MemorySeed THEN MemorySeed[x].status
                                                    ELSE "active",
              body |-> "0"]],
         links |-> [x \in {} |-> ""]]

\* The scenarios in which an agent acts on what a correction of the same batch
\* takes back.
StaleTeams == {s.team : s \in {wccu_stale_dependency_cross_target,
    wccu_stale_dependency_lowrisk_cross_target,
    wccu_derived_view_stale_resurfacing}}

\* What the repository claims of its scenarios: with certificates, whatever
\* supplies their reads, every scenario meets its expectations; with the
\* validation of reads turned off, or without certificates, those built on a
\* stale read do not.
CertificatesMeetEveryScenario ==
    run = "done" /\ Parallel /\ task \in LibraryTasks =>
        /\ mode \in WccuConditions => TaskSuccess
        /\ Team \in StaleTeams /\ mode \notin WccuConditions => ~TaskSuccess

\* What the merge stage is called with comes from the tasks.
TeamIntents == UNION {UNION {{t.team[a][k] : k \in DOMAIN t.team[a]} :
                                a \in DOMAIN t.team} : t \in MCTasks}

MCWorkloads ==
    {[pool      |-> UNION {{ShownOnly(i, atoms) : atoms \in SUBSET Alluded(i)} :
                              i \in TeamIntents},
      scenarios |-> {t.scenario : t \in MCTasks},
      modes     |-> UNION {t.modes : t \in MCTasks},
      size      |-> LongestTeam]}
=============================================================================
