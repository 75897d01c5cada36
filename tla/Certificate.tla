---------------------------- MODULE Certificate ----------------------------
(***************************************************************************)
(* The write-intent certificates (WCCU) and their verification:            *)
(*   wccu_eval/scheduler/wccu.py                                           *)
(*   wccu_eval/scheduler/semantic_operation_verifier.py                    *)
(*                                                                         *)
(* A dependency is a record [target, expected, fresh].  A scenario is a    *)
(* record: seed, a function from the ids of the seeded atoms to            *)
(* [status, ctype, traits, from], "from" being the atoms a derived view    *)
(* was built from; the invalidated targets; the declared ("oracle") reads  *)
(* by agent, "*" standing for every agent; the disabled obligations.       *)
(***************************************************************************)
EXTENDS Policy

CONSTANT WITNESS_LIMIT   \* how many trace-derived dependencies are kept

ASSUME LimitAssumption == WITNESS_LIMIT \in Nat

-----------------------------------------------------------------------------
(* The tables of the module. *)

REVIEW_WARNING_KINDS == {"low_target_confidence",
    "authority_insufficient_for_direct_commit",
    "authority_certificate_mismatch", "authority_required_understated",
    "weakening_delta_requires_review", "delta_contract_mismatch",
    "semantic_operation_weakening", "semantic_operation_laundering",
    "authority_laundering_detected"}

OBLIGATION_BY_EVENT_KIND == [
    wrong_target_certificate                 |-> "O-TARGET",
    low_target_confidence                    |-> "O-TARGET",
    stale_read_dependency                    |-> "O-FRESH",
    authority_insufficient_for_direct_commit |-> "O-AUTH",
    authority_certificate_mismatch           |-> "O-AUTH",
    authority_required_understated           |-> "O-AUTH",
    authority_laundering_detected            |-> "O-AUTH",
    weakening_delta_requires_review          |-> "O-DELTA",
    delta_contract_mismatch                  |-> "O-DELTA",
    semantic_operation_weakening             |-> "O-DELTA",
    semantic_operation_laundering            |-> "O-DELTA"]

DELTA_TYPES == {"append_event", "append_evidence", "upsert_atom",
    "patch_atom", "patch_memory", "retract_atom", "retract_memory",
    "assert_link", "upsert_link", "patch_link", "retract_link",
    "patch_workspace", "strengthen_rule", "weaken_rule"}

MISMATCH_SENSITIVE == {"weaken_rule", "retract_memory", "retract_atom",
    "patch_workspace", "append_evidence", "append_event"}

EXISTENCE_STATUS_ALIASES ==
    {"present", "exists", "existing", "available", "any"}

CertificateMode(mode) ==
    CASE mode = "adaptive_wccu_oracle_dependency" -> "oracle_dependency"
      [] mode = "adaptive_wccu_projection_trace"  -> "projection_trace"
      [] mode = "adaptive_wccu_execution_trace"   -> "execution_trace"
      [] mode \in {"adaptive_wccu", "adaptive_wccu_model_certificate",
                   "adaptive_wccu_no_read_validation",
                   "adaptive_wccu_unguided_certificate"}
             -> "model_certificate"
      [] OTHER -> "disabled"

-----------------------------------------------------------------------------
(* What the runtime derives from the intent itself. *)

NoCert == [claimed |-> "none"]

\* A required authority that the certificate does not state.
NotStated == "not stated"

HasCert(i) == i.cert # NoCert

\* The target a certificate is checked against.
ActualTarget(i) == IF i.target # "" THEN i.target ELSE i.file

RuntimeDelta(i) ==
    CASE i.op = "append_event" ->
             IF "evidence" \in i.text.traits \/ i.target # ""
             THEN "append_evidence" ELSE "append_event"
      [] i.op = "retract_atom" ->
             IF i.ctype = "memory" THEN "retract_memory" ELSE "retract_atom"
      [] OTHER ->
             IF "weakening_term" \in i.text.traits THEN "weaken_rule"
             ELSE IF "strengthening_term" \in i.text.traits
                 THEN "strengthen_rule"
             ELSE IF i.file # "" \/ i.ctype \in WORKSPACE_TYPES
                 THEN "patch_workspace"
             ELSE IF i.ctype = "memory" THEN "patch_memory"
             ELSE IF i.op \in DELTA_TYPES THEN i.op ELSE "patch_atom"

RuntimeRequiredAuthority(i) ==
    IF IsRetraction(i) THEN "user"
    ELSE IF HighRisk(i) \/ RuntimeDelta(i) = "weaken_rule" THEN "reviewer"
    ELSE "agent"

HigherAuthority(a, b) == IF RankOf(a, 0) >= RankOf(b, 0) THEN a ELSE b

\* Role labels outside the lattice (planner, worker, ...) count as agents.
KnownAuthority(a) == IF a \in DOMAIN AUTHORITY_RANK THEN a ELSE "agent"

\* What the certificate claims; a part it leaves out is the runtime's own.
ClaimedDelta(i) ==
    IF HasCert(i) /\ i.cert.delta # "" THEN i.cert.delta ELSE RuntimeDelta(i)

ClaimedActor(i) ==
    KnownAuthority(IF HasCert(i) /\ i.cert.actor # "" THEN i.cert.actor
                                                     ELSE Authority(i))

\* A required authority that is stated and empty is an agent's.
ClaimedRequired(i) ==
    CASE ~HasCert(i) \/ i.cert.required = NotStated -> RuntimeRequiredAuthority(i)
      [] HasCert(i) /\ i.cert.required = ""         -> "agent"
      [] OTHER                                      -> i.cert.required

ActualActor(i) == KnownAuthority(Authority(i))

OverclaimsAuthority(i) ==
    RankOf(ClaimedActor(i), 0) > RankOf(ActualActor(i), 0)

\* BUG: an over-claimed authority is reported, and then believed.
MutEffectiveActor(i) == ClaimedActor(i)

\* The actor a certificate names, unless it claims more than the actor has.
EffectiveActor(i) ==
    IF OverclaimsAuthority(i) THEN ActualActor(i) ELSE ClaimedActor(i)

RequiresReviewIfInvalid(i) == HasCert(i) => i.cert.reviewIfInvalid

-----------------------------------------------------------------------------
(* verify_semantic_operation_contract: a patch that weakens the rule it    *)
(* claims to clarify, or hides an approval bypass under a harmless label.  *)

SeedAtom(sc, t) ==
    IF t \in DOMAIN sc.seed THEN sc.seed[t]
    ELSE [status |-> "unknown", ctype |-> "", traits |-> {}, from |-> {}]

WeakensConstraint(i, sc) ==
    \/ {"approval_bypass", "relax_high_authority"} \cap i.text.traits # {}
    \/ /\ "requirement" \in SeedAtom(sc, ActualTarget(i)).traits
       /\ "optionality" \in i.text.traits

LaundersAuthority(i, sc) ==
    LET label == IF i.ctype # "" THEN i.ctype
                 ELSE SeedAtom(sc, ActualTarget(i)).ctype
    IN  /\ {"approval_bypass", "deploy_bypass"} \cap i.text.traits # {}
        /\ label \in {"", "memory", "note", "task", "review_note",
                      "context_note"}

RequiredAuthority(i, sc) ==
    HigherAuthority(RuntimeRequiredAuthority(i),
        IF WeakensConstraint(i, sc) \/ LaundersAuthority(i, sc)
        THEN "reviewer" ELSE "agent")

-----------------------------------------------------------------------------
(* Read dependencies, by the certificate mode that supplies them. *)

Declared(sc, agent) ==
    IF agent \in DOMAIN sc.declared THEN sc.declared[agent] ELSE <<>>

\* What a scenario declares the agent of an intent to read.
OracleDeps(i, sc) ==
    UNION {{Declared(sc, name)[k] : k \in DOMAIN Declared(sc, name)} :
              name \in {i.agent, "*"}}

\* The items of s at the first places of P, as many as are kept.
Truncated(s, P) ==
    {s[k] : k \in {k \in P : Cardinality({j \in P : j < k}) < WITNESS_LIMIT}}

\* Where a read names a target for the first time.
FirstReads(reads) ==
    {k \in DOMAIN reads :
        /\ reads[k].target # ""
        /\ \A j \in 1..(k - 1) : reads[j].target # reads[k].target}

\* Of several reads of one target the last one counts.
LastRead(reads, t) ==
    reads[CHOOSE k \in DOMAIN reads :
              /\ reads[k].target = t
              /\ \A j \in DOMAIN reads : j > k => reads[j].target # t]

\* The places of the logged reads that count as dependencies.
WitnessReads(i) ==
    {k \in FirstReads(i.reads) : i.reads[k].target # ActualTarget(i)}

\* What counts at each place.
LatestReads(reads) ==
    [k \in DOMAIN reads |-> LastRead(reads, reads[k].target)]

\* Logged reads when there are any, else the projected atoms whose words the
\* intent (and, in execution mode, its task and output) shares.
TraceDeps(i, cmode) ==
    IF WitnessReads(i) # {} THEN Truncated(LatestReads(i.reads), WitnessReads(i))
    ELSE IF IsAppendOnly(i) \/ IsAuthorityRetraction(i) THEN {}
    ELSE Truncated(i.overlap[cmode], DOMAIN i.overlap[cmode])

ReadDependencies(i, cmode, sc) ==
    LET model  == IF HasCert(i) THEN i.cert.deps ELSE <<>>
        base   == CASE cmode = "oracle_dependency" -> OracleDeps(i, sc)
                    [] cmode \in {"projection_trace", "execution_trace"} ->
                           TraceDeps(i, cmode)
                    [] OTHER -> {}
    IN  IF base # {} THEN base ELSE {model[k] : k \in DOMAIN model}

StatusCompatible(expected, actual) ==
    \/ expected = "" \/ actual = "unknown"
    \/ expected \in EXISTENCE_STATUS_ALIASES
    \/ actual = expected

\* BUG: only the intents collected so far are compared.
MutMutatorsOf(all, me, t) ==
    {n \in DOMAIN all :
        n < me /\ IsStateWrite(all[n]) /\ t # "" /\ all[n].target = t}

\* The other intents of the batch that write target t.  An intent with the
\* same non-empty id is taken for the intent itself.
MutatorsOf(all, me, t) ==
    {n \in DOMAIN all \ {me} :
        /\ all[n].id # all[me].id \/ all[me].id = ""
        /\ IsStateWrite(all[n])
        /\ t # "" /\ all[n].target = t}

\* What a view was made from.
DerivedSources(sc, view) == SeedAtom(sc, view).from

\* BUG: a derived view is only as fresh as itself.
MutDependencyStale(all, me, d, sc) ==
    \/ MutatorsOf(all, me, d.target) # {}
    \/ d.target \in sc.invalidated
    \/ ~StatusCompatible(d.expected, SeedAtom(sc, d.target).status)

DependencyStale(all, me, d, sc) ==
    \/ MutatorsOf(all, me, d.target) # {}
    \/ d.target \in sc.invalidated
    \/ ~StatusCompatible(d.expected, SeedAtom(sc, d.target).status)
    \/ \E src \in DerivedSources(sc, d.target) :
          \/ MutatorsOf(all, me, src) # {}
          \/ src \in sc.invalidated
          \/ ~StatusCompatible("active", SeedAtom(sc, src).status)

\* BUG: tolerated only against writers that outrank the correction.
MutSelfCorrectionRead(all, me, d) ==
    /\ d.target = ActualTarget(all[me])
    /\ IsAuthorityRetraction(all[me])
    /\ MutatorsOf(all, me, d.target) # {}
    /\ \A n \in MutatorsOf(all, me, d.target) :
          AuthorityRank(all[n]) > AuthorityRank(all[me])

\* A user-or-higher retraction may read the atom it retracts while
\* lower-authority intents write it.
SelfCorrectionRead(all, me, d) ==
    /\ d.target = ActualTarget(all[me])
    /\ IsAuthorityRetraction(all[me])
    /\ MutatorsOf(all, me, d.target) # {}
    /\ \A n \in MutatorsOf(all, me, d.target) :
          AuthorityRank(all[n]) < AuthorityRank(all[me])

StaleRead(all, me, cmode, sc) ==
    \E d \in ReadDependencies(all[me], cmode, sc) :
        /\ d.fresh
        /\ DependencyStale(all, me, d, sc)
        /\ ~SelfCorrectionRead(all, me, d)

-----------------------------------------------------------------------------
(* verify_certificate: the events, by kind, and the action they call for.  *)

\* Of an intent, and of whether it read what the batch makes stale.
Findings(i, stale, sc) ==
    LET needed  == RequiredAuthority(i, sc)
        deltas  == {ClaimedDelta(i), RuntimeDelta(i)}
    IN  [ wrong_target_certificate |->
              /\ HasCert(i) /\ i.cert.claimed # ""
              /\ ActualTarget(i) # "" /\ i.cert.claimed # ActualTarget(i),
          stale_read_dependency |-> stale,
          low_target_confidence |->
              /\ ~(IF HasCert(i) THEN i.cert.confident ELSE i.grounded)
              /\ i.op # "append_event",
          authority_required_understated |->
              RankOf(ClaimedRequired(i), 0) < RankOf(needed, 0),
          authority_certificate_mismatch |-> OverclaimsAuthority(i),
          authority_insufficient_for_direct_commit |->
              RankOf(EffectiveActor(i), 0)
                < RankOf(HigherAuthority(ClaimedRequired(i), needed), 0),
          delta_contract_mismatch |->
              Cardinality(deltas) = 2 /\ deltas \cap MISMATCH_SENSITIVE # {},
          weakening_delta_requires_review |-> "weaken_rule" \in deltas,
          semantic_operation_weakening |-> WeakensConstraint(i, sc),
          semantic_operation_laundering |->
              /\ WeakensConstraint(i, sc)
              /\ ClaimedDelta(i) \notin
                    {"weaken_rule", "retract_atom", "retract_memory"},
          authority_laundering_detected |-> LaundersAuthority(i, sc)]

Events(all, me, cmode, sc) ==
    LET found == Findings(all[me], StaleRead(all, me, cmode, sc), sc)
    IN  {k \in DOMAIN found : found[k]}

ErrorKinds == {"wrong_target_certificate", "stale_read_dependency"}

\* The stale-dependency metric is taken before disabled obligations are
\* filtered out.
VerifyCertificate(all, me, cmode, sc) ==
    LET raw    == Events(all, me, cmode, sc)
        kept   == {k \in raw : OBLIGATION_BY_EVENT_KIND[k] \notin sc.disabled}
        errors == kept \cap ErrorKinds
        soft   == errors # {} => RequiresReviewIfInvalid(all[me])
    IN  [errors   |-> errors,
         warnings |-> kept \ ErrorKinds,
         stale    |-> "stale_read_dependency" \in raw,
         review   |-> soft /\ (errors # {} \/ kept \cap REVIEW_WARNING_KINDS # {}),
         blocked  |-> ~soft]

\* A batch that is not verified carries no verification.
Unverified == [errors |-> {}, warnings |-> {}, stale |-> FALSE,
               review |-> FALSE, blocked |-> FALSE]

\* adaptive_wccu_no_read_validation keeps the metric and drops the error.
IgnoreStaleReads(v) ==
    LET errors == v.errors \ {"stale_read_dependency"}
    IN  [v EXCEPT
           !.errors  = errors,
           !.review  = errors # {} \/ v.warnings \cap
                         {"low_target_confidence",
                          "authority_insufficient_for_direct_commit",
                          "weakening_delta_requires_review"} # {},
           !.blocked = FALSE]

Verdict(all, me, mode, sc) ==
    LET v == VerifyCertificate(all, me, CertificateMode(mode), sc)
    IN  IF CertificateMode(mode) = "disabled" THEN Unverified
        ELSE IF mode = "adaptive_wccu_no_read_validation"
            THEN IgnoreStaleReads(v) ELSE v

\* _wccu_needs_intervention
Flagged(v) == v.blocked \/ v.review \/ v.errors # {}
=============================================================================
