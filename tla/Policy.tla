------------------------------- MODULE Policy -------------------------------
(***************************************************************************)
(* What the runtime infers about one write intent and the concurrency      *)
(* policy it selects for it:                                               *)
(*   wccu_eval/scheduler/context_concurrency_policy.py                     *)
(*                                                                         *)
(* An intent is a record.  Free text is reduced to what the code tells     *)
(* apart: a body, compared for equality, and the traits its term lists and *)
(* regular expressions recognise.  "" stands for an absent string, as in   *)
(* the code.                                                               *)
(***************************************************************************)
EXTENDS Integers, Sequences, FiniteSets

CONSTANT FileTarget   \* [target ids written "file:<path>" -> canonical path]

-----------------------------------------------------------------------------
(* The tables of the module. *)

APPEND_OPS == {"append_event", "record_usage", "record_activity",
               "record_observation", "record_evidence"}

ATOM_OPS == {"assert_atom", "upsert_atom", "patch_atom", "retract_atom"}

LINK_OPS == {"assert_link", "upsert_link", "patch_link", "link", "unlink",
             "retract_link"}

STATE_OPS == ATOM_OPS \cup LINK_OPS

HIGH_REVIEW_TYPES == {"learned_rule", "skill_candidate", "agent_package",
    "external_claim", "financial_claim", "legal_claim", "medical_claim",
    "permission_policy", "credential_policy", "deployment_policy"}

APPEND_TYPES == {"event", "usage_event", "activity_event", "handoff_delta",
    "evidence_event", "observation", "audit_event", "review_note"}

WORKSPACE_TYPES == {"artifact_plan", "workspace_file", "code_file",
                    "patch_plan"}

AUTHORITY_RANK == [system |-> 50, user |-> 40, runtime |-> 30,
    reviewer |-> 20, builder |-> 12, researcher |-> 8, agent |-> 10,
    unknown |-> 0]

RankOf(authority, default) ==
    IF authority \in DOMAIN AUTHORITY_RANK THEN AUTHORITY_RANK[authority]
                                           ELSE default

-----------------------------------------------------------------------------
(* infer_intent_metadata *)

\* An explicit file path, or a target id that is itself a file.
HasFileHint(i) == i.file # "" \/ i.target \in DOMAIN FileTarget

ContextType(i) ==
    IF HasFileHint(i) THEN "workspace_file"
    ELSE IF i.ctype # "" THEN i.ctype
    ELSE IF i.op \in APPEND_OPS THEN "event" ELSE "memory"

\* The authority an intent claims to act under, its role's when it names none.
Authority(i) == IF i.auth # "" THEN i.auth ELSE i.role

AuthorityRank(i) ==
    RankOf(Authority(i), RankOf(i.role, AUTHORITY_RANK["agent"]))

IsAppendOnly(i) ==
    \/ i.op \in APPEND_OPS
    \/ ContextType(i) \in APPEND_TYPES
    \/ i.mergeability = "commutative"

IsStateWrite(i) == i.op \in STATE_OPS

HighRisk(i) ==
    \/ i.risk \in {"high", "critical", "irreversible"}
    \/ ContextType(i) \in HIGH_REVIEW_TYPES

IsRetraction(i) ==
    i.op \in {"retract_atom", "retract_link"} \/ i.status = "retracted"

IsWorkspaceWrite(i) == ContextType(i) \in WORKSPACE_TYPES

\* A user-or-higher retraction: the write the authority lane exists for.
IsAuthorityRetraction(i) ==
    AuthorityRank(i) >= AUTHORITY_RANK["user"] /\ IsRetraction(i)

\* An event without a stream or target is keyed by the intent's own id.
TargetKey(i) ==
    IF i.op \in ATOM_OPS THEN <<"atom", i.target>>
    ELSE IF i.op \in LINK_OPS THEN <<"link", i.target>>
    ELSE <<"event", IF i.target # "" THEN i.target ELSE i.id>>

\* Every way to name one file (file:path, atom:file:path, file_path=path,
\* lock:path) normalises to its path; any other target is its own scope, and
\* so is an event without one.
LockScope(i) ==
    IF i.file # "" THEN i.file
    ELSE IF i.target \in DOMAIN FileTarget THEN FileTarget[i.target]
    ELSE TargetKey(i)[2]

-----------------------------------------------------------------------------
(* select_context_concurrency_policy.  The isolation policy determines the *)
(* rest of the decision: only the review gate asks for review, every other *)
(* lane forces auto, only the authority lane interrupts.                   *)

UniformIsolation ==
    [uniform_append_only      |-> "append_only_causal",
     uniform_review_gated     |-> "review_gated_serializable",
     uniform_pessimistic_lock |-> "pessimistic_lock",
     uniform_snapshot_occ     |-> "snapshot_occ"]

Isolation(i, mode) ==
    IF mode \in DOMAIN UniformIsolation THEN UniformIsolation[mode]
    ELSE IF IsAppendOnly(i) THEN
        IF mode = "adaptive_no_append_only" THEN "review_gated_serializable"
                                            ELSE "append_only_causal"
    ELSE IF IsAuthorityRetraction(i) /\ mode # "adaptive_no_authority_rebase"
        THEN "authority_interrupt_rebase"
    ELSE IF mode = "adaptive_readset_occ" THEN "snapshot_occ"
    ELSE IF HighRisk(i) THEN
        IF mode = "adaptive_no_review_gate" THEN "snapshot_occ"
                                            ELSE "review_gated_serializable"
    ELSE IF IsWorkspaceWrite(i) THEN
        IF mode = "adaptive_no_workspace_lock" THEN "snapshot_occ"
                                               ELSE "pessimistic_lock"
    ELSE "snapshot_occ"

ForcesAuto(i, mode) == Isolation(i, mode) # "review_gated_serializable"

AuthorityInterrupt(i, mode) ==
    Isolation(i, mode) = "authority_interrupt_rebase"
=============================================================================
