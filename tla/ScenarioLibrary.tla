--------------------------- MODULE ScenarioLibrary ---------------------------
(***************************************************************************)
(* The scenarios of the evaluation and the intents their scripted agents   *)
(* emit:                                                                   *)
(*   wccu_eval/eval/scenarios.py                                           *)
(*   wccu_eval/agents/deterministic_agent.py                               *)
(*                                                                         *)
(* A task is a record of the scenario, with its seed, its declared reads   *)
(* and its expectations, and the team: for each agent the intents it       *)
(* emits, with the targets they are grounded to, the traits their texts    *)
(* have, the reads their witness logs and the atoms they share words with. *)
(***************************************************************************)
EXTENDS MCIntents, TLC

AtLeast(counts) == [min |-> counts, max |-> [unsafe |-> 0]]
Harmless == [min |-> [x \in {} |-> 0], max |-> [unsafe |-> 0]]

NoConditions == [x \in {} |-> Harmless]

SeedOf(ctype, ids) == [x \in ids |-> [Atom("active", {}, {}) EXCEPT !.ctype = ctype]]

\* A scenario that declares no reads and expects the same of every condition.
Expecting(seed, expected) ==
    [seed |-> seed, invalidated |-> {}, declared |-> NoReads, disabled |-> {},
     expected |-> expected, expectedBy |-> NoConditions]

\* What intents emitted by agents of a role look like.
By(role, intent) == [intent EXCEPT !.role = role]

Correction(t) ==
    [Retract("correction_agent", t, "was wrong") EXCEPT !.auth = "user"]

\* The same in the projection's words and in those of the task and the output.
Mentions(targets) ==
    [projection_trace |-> targets, execution_trace |-> targets]

-----------------------------------------------------------------------------
(* run_deterministic_agent replays the intents a scenario lists for the    *)
(* agent; with none listed it reports one event, and it adds a summary     *)
(* atom when the scenario asks for one.                                    *)

Finished(agent) ==
    [Patch(agent, "", "report") EXCEPT !.op = "append_event",
        !.ctype = "event", !.role = agent, !.grounded = FALSE]

Summary(agent, mentioned) ==
    [Patch(agent, "summary of " \o agent, "report") EXCEPT
        !.op = "upsert_atom", !.id = "summary intent of " \o agent,
        !.ctype = "agent_summary", !.role = agent,
        !.grounded = FALSE, !.overlap = Mentions(mentioned)]

Strengthening(intent) == [intent EXCEPT !.text.traits = {"strengthening_term"}]

-----------------------------------------------------------------------------
snapshot_fanout ==
    LET Scripted(agent, mentioned) ==
            <<Finished(agent), Summary(agent, mentioned)>>
        Review == Scripted("risk_reviewer",
                           Reads("atom_goal") \o Reads("atom_rule_privacy"))
    IN  [scenario |-> Expecting(
            [SeedOf("rule", {"atom_rule_tests", "atom_rule_privacy"})
                EXCEPT !["atom_rule_tests"].traits = {"requirement"}]
                @@ SeedOf("task", {"atom_goal"})
                @@ SeedOf("memory", {"atom_arch"}), Harmless),
         team |-> <<Scripted("researcher", Reads("atom_arch")),
                    Scripted("test_planner",
                             Reads("atom_rule_tests") \o Reads("atom_arch")),
                    <<Strengthening(Review[1]), Strengthening(Review[2])>>,
                    Scripted("synthesizer", <<>>)>>]

append_only_evidence_log ==
    LET Observation(agent) ==
            [By("researcher", Patch(agent, "evidence_stream", agent)) EXCEPT
                !.op = "append_event", !.ctype = "evidence_event",
                !.grounded = FALSE]
    IN  [scenario |-> Expecting(SeedOf("task", {"atom_question"}), Harmless),
         team |-> <<<<Observation("evidence_a")>>, <<Observation("evidence_b")>>,
                    <<Observation("evidence_c")>>>>]

conflict_detection ==
    LET Rule(agent) ==
            [Strengthening(By("policy_writer",
                Patch(agent, "atom_api_policy", agent))) EXCEPT !.ctype = "rule"]
    IN  [scenario |-> Expecting(SeedOf("rule", {"atom_api_policy"}),
                                AtLeast([conflicts |-> 1, proposals |-> 2])),
         team |-> <<<<Rule("agent_a")>>, <<Rule("agent_b")>>>>]

PermissionSeed ==
    [SeedOf("permission_policy", {"atom_permission_policy"}) EXCEPT
        !["atom_permission_policy"].traits = {"requirement"}]

Weakening ==
    [By("builder", Patch("builder", "atom_permission_policy", "")) EXCEPT
        !.ctype = "permission_policy",
        !.text = Phrase("without approval",
            {"approval_bypass", "deploy_bypass", "optionality",
             "relax_high_authority", "strengthening_term", "weakening_term"})]

high_risk_rule_change ==
    [scenario |-> Expecting(PermissionSeed, AtLeast([proposals |-> 1])),
     team |-> <<<<[Weakening EXCEPT !.risk = "high"]>>>>]

CorrectionExpected == AtLeast([conflicts |-> 1, rebase |-> 1, proposals |-> 1])

Strengthen(t) == By("planner", Patch("old_snapshot_agent", t, "strongly"))

user_correction_rebase ==
    [scenario |-> Expecting(SeedOf("memory", {"atom_pref"}), CorrectionExpected),
     team |-> <<<<Strengthen("atom_pref")>>, <<Correction("atom_pref")>>>>]

FilePatch(agent, plan, file, body, mentioned) ==
    [By("builder", Patch(agent, plan, body)) EXCEPT
        !.ctype = "artifact_plan", !.file = file,
        !.overlap = Mentions(mentioned)]

\* The reviewer's finding, an atom of its own, is grounded to the test rule it
\* shares its words with.
workspace_patch_contention ==
    LET Plan(agent) == FilePatch(agent, "atom_file_plan", "src/api.ts", agent,
                                 Reads("atom_test_rule"))
        Finding == [Strengthening(By("reviewer",
                        Patch("reviewer", "atom_test_rule", "required"))) EXCEPT
                       !.op = "upsert_atom", !.ctype = "review_finding",
                       !.named = "atom_review_test_required",
                       !.overlap = Mentions(Reads("atom_file_plan"))]
    IN  [scenario |-> Expecting(
            [SeedOf("rule", {"atom_test_rule"}) EXCEPT
                !["atom_test_rule"].traits = {"requirement"}]
                @@ SeedOf("artifact_plan", {"atom_file_plan"}),
            AtLeast([conflicts |-> 1, proposals |-> 2])),
         team |-> <<<<Plan("builder_a")>>, <<Plan("builder_b")>>, <<Finding>>>>]

low_risk_memory_merge ==
    LET Confirm(agent) == By("researcher", Patch(agent, "atom_arch", "compiled"))
    IN  [scenario |-> Expecting(SeedOf("memory", {"atom_arch"}), Harmless),
         team |-> <<<<Confirm("agent_a")>>, <<Confirm("agent_b")>>>>]

workspace_compatible_patch_contention ==
    LET Plan(agent) == FilePatch(agent, "atom_file_plan_compatible",
                                 "src/cache.ts", "returning ready", <<>>)
    IN  [scenario |-> Expecting(
            SeedOf("artifact_plan", {"atom_file_plan_compatible"}),
            AtLeast([conflicts |-> 1, proposals |-> 2])),
         team |-> <<<<Plan("builder_a")>>, <<Plan("builder_b")>>>>]

user_correction_ambiguous_targets ==
    LET others == <<"atom_api_url_policy", "atom_pref_callback_url",
                    "atom_pref_debug_url", "atom_pref_fallback_url",
                    "atom_pref_backup_email">>
    IN  [scenario |-> Expecting(
            SeedOf("memory", {"atom_pref_backup_url"}
                                \cup {others[k] : k \in 2..5})
                @@ SeedOf("rule", {others[1]}), CorrectionExpected),
         team |-> <<<<[Strengthen("atom_pref_backup_url") EXCEPT
                          !.overlap = Mentions([k \in 1..5 |->
                                                   Reads(others[k])[1]])]>>,
                    <<Correction("atom_pref_backup_url")>>>>]

-----------------------------------------------------------------------------
(* The certificate scenarios.                                              *)

Claim(target, delta, authority, deps) ==
    [Cert(deps) EXCEPT !.claimed = target, !.delta = delta,
                       !.actor = authority, !.required = authority]

\* An agent's patch of t after it read the backup_url preference, which a user
\* retracts in the same batch.
Stale(agent, t, ctype, delta) ==
    LET dep == Reads("atom_pref_backup_url")
    IN  [By("planner", Patch(agent, t, "backup_url")) EXCEPT
            !.ctype = ctype, !.reads = dep,
            !.cert = Claim(t, delta, "agent", dep)]

ClaimedCorrection ==
    [Correction("atom_pref_backup_url") EXCEPT
        !.cert = Claim("atom_pref_backup_url", "retract_memory", "user", <<>>)]

ReadBy(scenario, agent) ==
    [scenario EXCEPT !.declared = [a \in {agent} |->
                                      Reads("atom_pref_backup_url")]]

wccu_stale_dependency_cross_target ==
    [scenario |-> ReadBy(Expecting(
        SeedOf("memory", {"atom_pref_backup_url"})
            @@ SeedOf("rule", {"atom_api_response_policy"}),
        [min |-> [routed |-> 1, stale |-> 1, proposals |-> 1],
         max |-> [unsafe |-> 0, staleAccepted |-> 0]]), "policy_agent"),
     team |-> <<<<[Stale("policy_agent", "atom_api_response_policy", "rule",
                         "strengthen_rule") EXCEPT
                      !.overlap = Mentions(Reads("atom_pref_backup_url"))]>>,
                <<ClaimedCorrection>>>>]

WccuConditions ==
    {"adaptive_wccu", "adaptive_wccu_model_certificate",
     "adaptive_wccu_unguided_certificate", "adaptive_wccu_oracle_dependency",
     "adaptive_wccu_projection_trace", "adaptive_wccu_execution_trace"}

AcceptsStale == [min |-> [staleAccepted |-> 1], max |-> [x \in {} |-> 0]]

\* In a serial run no key of expected_by_condition matches.
LowRiskExpectedBy ==
    [c \in {"parallel"} \X WccuConditions |->
        [min |-> [interventions |-> 1, stale |-> 1],
         max |-> [staleAccepted |-> 0, unsafe |-> 0]]]
    @@ <<"parallel", "adaptive_wccu_no_read_validation">> :>
        [min |-> [stale |-> 1, staleAccepted |-> 1, ignored |-> 1],
         max |-> [x \in {} |-> 0]]
    @@ [c \in {"parallel"} \X {"adaptive", "uniform_snapshot_occ"} |->
           AcceptsStale]
    @@ <<"parallel", "uniform_review_gated">> :>
        [min |-> [proposals |-> 2], max |-> [unsafe |-> 0, staleAccepted |-> 0]]

wccu_stale_dependency_lowrisk_cross_target ==
    [scenario |-> [ReadBy(Expecting(
        SeedOf("memory", {"atom_pref_backup_url", "atom_response_format_hint"}),
        Harmless), "format_agent") EXCEPT !.expectedBy = LowRiskExpectedBy],
     team |-> <<<<[Stale("format_agent", "atom_response_format_hint", "memory",
                         "patch_memory") EXCEPT
                      !.overlap = Mentions(Reads("atom_pref_backup_url"))]>>,
                <<[ClaimedCorrection EXCEPT !.risk = "high"]>>>>]

TargetTask(seeded, intent) ==
    [scenario |-> Expecting(SeedOf("memory", seeded),
                            AtLeast([interventions |-> 1])),
     team |-> <<<<By("researcher", intent)>>>>]

wccu_low_confidence_target ==
    TargetTask({"atom_pref_backup_url"},
        [Patch("agent_a", "atom_pref_backup_url", "") EXCEPT
            !.text = Phrase("may prefer", {"optionality"}),
            !.cert = [Claim("atom_pref_backup_url", "patch_memory", "agent", <<>>)
                         EXCEPT !.confident = FALSE]])

wccu_wrong_target_certificate ==
    TargetTask({"atom_pref_backup_url", "atom_pref_callback_url"},
        [Patch("agent_a", "atom_pref_backup_url", "strongly") EXCEPT
            !.overlap = Mentions(Reads("atom_pref_callback_url")),
            !.cert = Claim("atom_pref_callback_url", "patch_memory", "agent",
                           <<>>)])

wccu_policy_weakening_masked_patch ==
    [scenario |-> Expecting(PermissionSeed, AtLeast([interventions |-> 1])),
     team |-> <<<<[Weakening EXCEPT !.auth = "builder",
         !.cert = [Claim("atom_permission_policy", "weaken_rule", "builder", <<>>)
                      EXCEPT !.required = "reviewer"]]>>>>]

wccu_derived_view_stale_resurfacing ==
    [scenario |-> ReadBy(Expecting(
        SeedOf("memory", {"atom_pref_backup_url"})
            @@ SeedOf("handoff_delta", {"atom_handoff_summary"}),
        [min |-> [interventions |-> 1, stale |-> 1],
         max |-> [staleAccepted |-> 0]]), "summary_agent"),
     team |-> <<<<Stale("summary_agent", "atom_handoff_summary",
                        "handoff_delta", "patch_memory")>>,
                <<Correction("atom_pref_backup_url")>>>>]

\* mini_coding_team is workspace_patch_contention under another name.
SCENARIOS ==
    {snapshot_fanout, append_only_evidence_log, conflict_detection,
     high_risk_rule_change, user_correction_rebase, workspace_patch_contention,
     low_risk_memory_merge, workspace_compatible_patch_contention,
     user_correction_ambiguous_targets, wccu_stale_dependency_cross_target,
     wccu_stale_dependency_lowrisk_cross_target, wccu_low_confidence_target,
     wccu_wrong_target_certificate, wccu_policy_weakening_masked_patch,
     wccu_derived_view_stale_resurfacing}
=============================================================================
