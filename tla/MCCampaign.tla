----------------------------- MODULE MCCampaign -----------------------------
EXTENDS Campaign

MCConditions == {WCCU, "adaptive_policy"}

\* The scenarios of the workspace and commitment drivers, and any others.
MCAnswers ==
    [s \in {"shared_file", "commitment", "s1", "s2"} |->
        IF s = "commitment" THEN {"sound", "slip", "stale"} ELSE {"sound", "slip"}]

Job(driver, out, log, conditions, repetitions, workers) ==
    [driver |-> driver, out |-> out, log |-> log, scenarios |-> <<"s1">>,
     conditions |-> conditions, repetitions |-> repetitions,
     workers |-> workers, shuffle |-> FALSE, failFast |-> FALSE]

Drive(j) == [do |-> "drive", job |-> j]
Read(do, out) == [do |-> do, out |-> out]

Both == <<WCCU, "adaptive_policy">>

-----------------------------------------------------------------------------
(* The primary script, and the same with a misspelt condition. *)

Workspace == [Job("live", "workspace", PRIMARY_LOG, Both, 1, 2)
                 EXCEPT !.shuffle = TRUE, !.scenarios = <<"shared_file">>]
Commitment == [Job("live", "commitment", PRIMARY_LOG, <<WCCU>>, 1, 1)
                  EXCEPT !.scenarios = <<"commitment">>]

Primary == <<Drive(Workspace),
             Read("analyze", "workspace"), Read("tabulate", "workspace"),
             Drive(Commitment),
             Read("analyze", "commitment"), Read("tabulate", "commitment")>>

Misspelt == <<Drive([Workspace EXCEPT !.conditions = <<WCCU, "wcu">>])>>

-----------------------------------------------------------------------------
(* Generate and replay, and a replay of the bundle that is there. *)

Generation == Job("generate", "generation", "generation", <<WCCU>>, 2, 2)
Replay == Job("replay", "replay", "none", Both, 2, 1)

TrueReplay == <<Drive(Generation), Drive(Replay)>>
ReplayOnly == <<Drive(Replay)>>
MisspeltReplay == <<Drive([Replay EXCEPT !.conditions = <<"wcu">>])>>

-----------------------------------------------------------------------------
(* Other drivers: the benchmark, and drivers that stop at an exception. *)

Bench == <<Drive([Job("bench", "bench", "bench", Both, 1, 1) EXCEPT
                     !.scenarios = <<"s1", "s2">>])>>
FailFastBench == <<Drive([Job("bench", "bench", "bench", Both, 1, 1) EXCEPT
                             !.failFast = TRUE])>>
FailFast == <<Drive([Job("live", "pilot", "pilot", <<WCCU>>, 3, 2) EXCEPT
                        !.failFast = TRUE]),
              Read("analyze", "pilot")>>
Pilot == <<Drive(Job("live", "pilot", "pilot", <<WCCU>>, 2, 1))>>
Plain == <<Drive([Job("plain", "plain", "none", <<WCCU, "wcu">>, 2, 1) EXCEPT
                     !.failFast = TRUE])>>

MCCampaigns == {{Primary, Misspelt}, {TrueReplay, ReplayOnly, MisspeltReplay},
                {Bench, FailFastBench}, {FailFast}, {Pilot}, {Plain}}

\* The theorems hold of these scripts.
ASSUME ScriptsAssumption ==
    DistinctLoops /\ DistinctPairs /\ OneGeneration /\ OnePrimary
=============================================================================
