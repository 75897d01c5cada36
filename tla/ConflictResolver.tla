-------------------------- MODULE ConflictResolver --------------------------
(***************************************************************************)
(* resolve_parallel_write_intents, the merge stage of a batch:             *)
(*   wccu_eval/scheduler/context_conflict_resolver.py                      *)
(*                                                                         *)
(* The intents of a batch are grouped; the groups are resolved one after   *)
(* the other, each in the first lane that applies.  Intents are known by   *)
(* their position in the batch.  "live" holds the part of the current      *)
(* group that is still to be decided.                                      *)
(***************************************************************************)
EXTENDS Certificate, Workload

VARIABLES mode, scenario, input,   \* the call's arguments
          verdict,                 \* intent -> certificate verification
          stage, live,             \* progress of the loop over groups
          outcome,                 \* intent -> where it was routed
          metrics                  \* the counters of the result

vars == <<mode, scenario, input, verdict, stage, live, outcome, metrics>>
args == <<mode, scenario, input>>

Outcomes == {"pending", "commit", "review", "blocked"}
Stages == {"collect", "lane", "readset", "merge", "done"}

MetricNames == {"review", "semantic", "lock", "rebase", "blocked", "routed",
    "readsetStale", "readsetReview", "unsafe", "staleAccepted", "conflicts",
    "autoMerges"}

-----------------------------------------------------------------------------
(* Operators over one intent or a pair. *)

CompatiblePair(a, b) ==
    IsStateWrite(a) /\ IsStateWrite(b) =>
        /\ IsRetraction(a) <=> IsRetraction(b)
        /\ a.text.body = b.text.body \/ "" \in {a.text.body, b.text.body}
        /\ a.status = b.status \/ "" \in {a.status, b.status}

\* BUG: a lock is keyed by the atom, under whatever name it is written.
MutGroupKey(i, m) ==
    IF m = "uniform_append_only" THEN <<"append_only", i.id>> ELSE TargetKey(i)

GroupKey(i, m) ==
    IF m = "uniform_append_only" THEN <<"append_only", i.id>>
    ELSE IF Isolation(i, m) = "pessimistic_lock" THEN <<"lock", LockScope(i)>>
    ELSE TargetKey(i)

\* adaptive_readset_occ validates the logged reads, the intent's own target
\* included, against the writes of the other intents.
ReadsetStale(all, me) ==
    \E k \in DOMAIN all[me].reads :
        MutatorsOf(all, me, all[me].reads[k].target) # {}

UnsafeHighRiskAutoCommit(i, m) ==
    ForcesAuto(i, m) /\ HighRisk(i) /\ ~IsAuthorityRetraction(i)

\* The reads a scenario declares for the intent's agent, against everything
\* the batch writes.
OracleStale(all, me, sc) ==
    \E d \in OracleDeps(all[me], sc) : \E n \in DOMAIN all :
        IsStateWrite(all[n]) /\ all[n].target = d.target

-----------------------------------------------------------------------------
(* Operators over the current batch. *)

Key(n) == GroupKey(input[n], mode)
Lane(n) == Isolation(input[n], mode)
Rank(n) == AuthorityRank(input[n])
GroupOf(n) == {m \in DOMAIN input : Key(m) = Key(n)}

\* BUG: only neighbours in the batch are compared.
MutSemanticConflict(S) ==
    \E m, n \in S : n = m + 1 /\ ~CompatiblePair(input[m], input[n])

SemanticConflict(S) ==
    \E m, n \in S : m # n /\ ~CompatiblePair(input[m], input[n])

\* BUG: the weakest intents of the group interrupt.
MutHighAuthority(S) ==
    {n \in S : /\ AuthorityInterrupt(input[n], mode)
               /\ \A m \in S : Rank(m) >= Rank(n)}

\* The strongest intents of a group, when they interrupt.
HighAuthority(S) ==
    {n \in S : /\ AuthorityInterrupt(input[n], mode)
               /\ \A m \in S : Rank(m) <= Rank(n)}

AuthorityContested(S) == HighAuthority(S) # {} /\ HighAuthority(S) # S

ReviewGated(S) == \E n \in S : Lane(n) = "review_gated_serializable"

LockContended(S) ==
    (\E n \in S : Lane(n) = "pessimistic_lock") /\ Cardinality(S) > 1

\* BUG: only a blocking verification takes an intent out.
MutFlaggedIn(S) == {n \in S : verdict[n].blocked}

FlaggedIn(S) == {n \in S : Flagged(verdict[n])}
BlockedIn(S) == {n \in S : verdict[n].blocked}

StaleReaders(S) ==
    {n \in S : mode = "adaptive_readset_occ" /\ ReadsetStale(input, n)}

\* The group of the first intent that is still undecided: groups are
\* resolved in the order their first member appears.
NextGroup(out) ==
    LET pending == {n \in DOMAIN out : out[n] = "pending"}
    IN  {n \in pending : \A m \in pending :
            (\A k \in pending : m <= k) => Key(n) = Key(m)}

\* BUG: the commit mode of the store leaks into the routing.
MutDecide(commit, review, blocked) ==
    outcome' = [n \in DOMAIN outcome |->
                   IF n \in commit THEN "commit"
                   ELSE IF n \in review THEN "review_required"
                   ELSE IF n \in blocked THEN "blocked" ELSE outcome[n]]

Decide(commit, review, blocked) ==
    outcome' = [n \in DOMAIN outcome |->
                   IF n \in commit THEN "commit"
                   ELSE IF n \in review THEN "review"
                   ELSE IF n \in blocked THEN "blocked" ELSE outcome[n]]

\* BUG: what was just routed stays in the group.
MutContinueWith(rest, next) ==
    IF rest = {} THEN live' = NextGroup(outcome') /\ stage' = "lane"
                 ELSE live' = live /\ stage' = next

\* Go on with what is left of the group, with the next group if nothing is.
ContinueWith(rest, next) ==
    IF rest = {} THEN live' = NextGroup(outcome') /\ stage' = "lane"
                 ELSE live' = rest /\ stage' = next

Committed == {n \in DOMAIN outcome : outcome[n] = "commit"}

One(condition) == IF condition THEN 1 ELSE 0

\* The counters as they stand once the current group has been entered.
Entered ==
    [metrics EXCEPT !["semantic"] = @ + One(SemanticConflict(live)),
                    !["readsetStale"] = @ + Cardinality(StaleReaders(live))]

-----------------------------------------------------------------------------
\* What the call sets before it looks at its first intent.
Started ==
    /\ verdict = [n \in DOMAIN input |-> Unverified]
    /\ stage = "collect"
    /\ live = {}
    /\ outcome = [n \in DOMAIN input |-> "pending"]
    /\ metrics = [f \in MetricNames |-> 0]

Init ==
    /\ \E w \in Workloads :
          /\ mode \in w.modes
          /\ scenario \in w.scenarios
          /\ input \in UNION {[1..k -> w.pool] : k \in 0..w.size}
    /\ Started

Verify ==
    /\ stage = "collect"
    /\ verdict' = [n \in DOMAIN input |-> Verdict(input, n, mode, scenario)]
    /\ stage' = "lane"
    /\ live' = NextGroup(outcome)
    /\ UNCHANGED <<args, outcome, metrics>>

\* A user-level retraction commits; everything else in its group is rebased.
InterruptByAuthority ==
    /\ stage = "lane" /\ AuthorityContested(live)
    /\ LET high == HighAuthority(live)
           low  == live \ high
       IN  /\ Decide(high, low, {})
           /\ metrics' = [Entered EXCEPT
                 !["review"]    = @ + Cardinality(low),
                 !["rebase"]    = @ + Cardinality(low),
                 !["routed"]    = @ + Cardinality(FlaggedIn(low)),
                 !["conflicts"] = @ + 1]
    /\ ContinueWith({}, "lane")
    /\ UNCHANGED <<args, verdict>>

\* One review-gated intent sends its whole group to review.
GateReview ==
    /\ stage = "lane" /\ ~AuthorityContested(live) /\ ReviewGated(live)
    /\ Decide({}, live, {})
    /\ metrics' = [Entered EXCEPT
          !["review"]    = @ + Cardinality(live),
          !["routed"]    = @ + Cardinality(FlaggedIn(live)),
          !["conflicts"] = @ + One(SemanticConflict(live))]
    /\ ContinueWith({}, "lane")
    /\ UNCHANGED <<args, verdict>>

ContendForLock ==
    /\ stage = "lane" /\ ~AuthorityContested(live) /\ ~ReviewGated(live)
    /\ LockContended(live)
    /\ Decide({}, live, {})
    /\ metrics' = [Entered EXCEPT
          !["review"]    = @ + Cardinality(live),
          !["lock"]      = @ + 1,
          !["routed"]    = @ + Cardinality(FlaggedIn(live)),
          !["conflicts"] = @ + 1]
    /\ ContinueWith({}, "lane")
    /\ UNCHANGED <<args, verdict>>

\* No group lane applies: the flagged intents are taken out one by one.
RouteFlagged ==
    /\ stage = "lane" /\ live # {}
    /\ ~AuthorityContested(live) /\ ~ReviewGated(live) /\ ~LockContended(live)
    /\ LET reviewed == FlaggedIn(live) \ BlockedIn(live)
       IN  /\ Decide({}, reviewed, BlockedIn(live))
           /\ metrics' = [Entered EXCEPT
                 !["review"]    = @ + Cardinality(reviewed),
                 !["routed"]    = @ + Cardinality(reviewed),
                 !["blocked"]   = @ + Cardinality(BlockedIn(live)),
                 !["conflicts"] = @ + One(FlaggedIn(live) # {})]
    /\ ContinueWith(live \ FlaggedIn(live), "readset")
    /\ UNCHANGED <<args, verdict>>

RouteStaleReaders ==
    /\ stage = "readset"
    /\ Decide({}, StaleReaders(live), {})
    /\ metrics' = [metrics EXCEPT
          !["review"]        = @ + Cardinality(StaleReaders(live)),
          !["readsetReview"] = @ + Cardinality(StaleReaders(live))]
    /\ ContinueWith(live \ StaleReaders(live), "merge")
    /\ UNCHANGED <<args, verdict>>

-----------------------------------------------------------------------------
(* What is left of the group commits or conflicts as a whole. *)

AllAppendOnly(S) == \A n \in S : Lane(n) = "append_only_causal"

MergesUnchecked(S) ==
    Cardinality(S) > 1 /\ mode = "adaptive_no_semantic_conflict_detection"

CommitLive(unsafe, merges) ==
    /\ Decide(live, {}, {})
    /\ metrics' = [metrics EXCEPT !["unsafe"]     = @ + unsafe,
                                  !["autoMerges"] = @ + merges]
    /\ ContinueWith({}, "lane")
    /\ UNCHANGED <<args, verdict>>

StateWritesIn(S) == {n \in S : IsStateWrite(input[n])}
WorkspaceWritesIn(S) == {n \in S : IsWorkspaceWrite(input[n])}

MergeAppendOnly ==
    /\ stage = "merge" /\ AllAppendOnly(live)
    /\ CommitLive(IF mode = "uniform_append_only"
                  THEN Cardinality(StateWritesIn(live)) ELSE 0, 1)

CommitSingleWriter ==
    /\ stage = "merge" /\ ~AllAppendOnly(live) /\ Cardinality(live) = 1
    /\ CommitLive(One(\E n \in live :
                         UnsafeHighRiskAutoCommit(input[n], mode)), 0)

MergeUnchecked ==
    /\ stage = "merge" /\ ~AllAppendOnly(live) /\ MergesUnchecked(live)
    /\ CommitLive(Cardinality(StateWritesIn(live)), 0)

MergeCompatible ==
    /\ stage = "merge" /\ ~AllAppendOnly(live) /\ Cardinality(live) > 1
    /\ ~MergesUnchecked(live) /\ ~SemanticConflict(live)
    /\ LET unlocked == IF mode = "adaptive_no_workspace_lock"
                       THEN WorkspaceWritesIn(live) ELSE {}
       IN  CommitLive(Cardinality(unlocked), One(unlocked = {}))

ReviewConflict ==
    /\ stage = "merge" /\ ~AllAppendOnly(live) /\ Cardinality(live) > 1
    /\ ~MergesUnchecked(live) /\ SemanticConflict(live)
    /\ Decide({}, live, {})
    /\ metrics' = [metrics EXCEPT !["review"]    = @ + Cardinality(live),
                                  !["conflicts"] = @ + 1]
    /\ ContinueWith({}, "lane")
    /\ UNCHANGED <<args, verdict>>

\* BUG: the scenario's own declarations are not consulted.
MutAccount ==
    /\ stage = "lane" /\ live = {}
    /\ LET accepted == Cardinality({n \in Committed : verdict[n].stale})
       IN  metrics' = [metrics EXCEPT !["staleAccepted"] = accepted,
                                      !["unsafe"] = @ + accepted]
    /\ stage' = "done"
    /\ UNCHANGED <<args, verdict, live, outcome>>

\* Every group is resolved: count the stale writes that were accepted.
Account ==
    /\ stage = "lane" /\ live = {}
    /\ LET detected == {n \in Committed : verdict[n].stale}
           declared == {n \in Committed : OracleStale(input, n, scenario)}
           accepted == IF Cardinality(detected) >= Cardinality(declared)
                       THEN Cardinality(detected) ELSE Cardinality(declared)
       IN  metrics' = [metrics EXCEPT !["staleAccepted"] = accepted,
                                      !["unsafe"] = @ + accepted]
    /\ stage' = "done"
    /\ UNCHANGED <<args, verdict, live, outcome>>

Merge ==
    \/ MergeAppendOnly \/ CommitSingleWriter \/ MergeUnchecked
    \/ MergeCompatible \/ ReviewConflict

Next ==
    \/ Verify
    \/ InterruptByAuthority \/ GateReview \/ ContendForLock
    \/ RouteFlagged \/ RouteStaleReaders
    \/ Merge
    \/ Account

Spec == Init /\ [][Next]_vars

-----------------------------------------------------------------------------
(* Invariants. *)

\* Every variable holds a value of its kind, in every state of a call.
TypeOK ==
    /\ mode \in Modes
    /\ scenario \in Scenarios
    /\ input \in Seq(IntentPool)
    /\ DOMAIN verdict = DOMAIN input
    /\ stage \in Stages
    /\ live \subseteq DOMAIN input
    /\ outcome \in [DOMAIN input -> Outcomes]
    /\ metrics \in [MetricNames -> Nat]

\* n committed because it outranks a rival of its group that was rebased.
WonByAuthority(n) ==
    /\ AuthorityInterrupt(input[n], mode)
    /\ \E m \in GroupOf(n) \ {n} : outcome[m] = "review" /\ Rank(m) <= Rank(n)

\* Verification is a signal into lane selection, never a pre-filter; still, an
\* intent with a certificate problem reaches the commit stage in one way only:
\* it is a user-level retraction that interrupted a rival write.
FlaggedCommitsOnlyByAuthority ==
    \A n \in Committed : Flagged(verdict[n]) => WonByAuthority(n)

\* Whatever its certificate claims, an intent that commits on the strength of
\* a verification has the authority its operation, its risk and its text call
\* for; nothing can be claimed down, and no claim raises the actor.
NoCommitBeyondAuthority ==
    \A n \in Committed :
        /\ CertificateMode(mode) # "disabled"
        /\ "O-AUTH" \notin scenario.disabled
        /\ ~WonByAuthority(n)
        => RankOf(KnownAuthority(Authority(input[n])), 0)
             >= RankOf(RequiredAuthority(input[n], scenario), 0)

\* Two incompatible state writes of one group are never settled by silently
\* picking one.  If one commits, the other was taken out on its own account,
\* or outranked; only append-only traffic, the ablation that turns conflict
\* detection off, and two equal retractions that interrupt a third intent
\* commit side by side.
NoSilentWinner ==
    \A n \in Committed : \A m \in GroupOf(n) \ {n} :
        \/ CompatiblePair(input[m], input[n])
        \/ /\ outcome[m] # "commit"
           /\ WonByAuthority(n) \/ Flagged(verdict[m]) \/ StaleReaders({m}) # {}
        \/ {Lane(m), Lane(n)} = {"append_only_causal"}
        \/ mode = "adaptive_no_semantic_conflict_detection"
        \/ /\ WonByAuthority(m) /\ WonByAuthority(n)
           /\ Rank(m) = Rank(n)

\* In the modes that lock the workspace, two writes of one file, however each
\* of them names it, are never both committed.  (A user-level retraction does
\* not take the lock.)
FileWritesAreExclusive ==
    \A m, n \in Committed :
        /\ m # n
        /\ {Lane(m), Lane(n)} = {"pessimistic_lock"}
        => LockScope(input[m]) # LockScope(input[n])

\* A write never commits over a retraction that outranks it, in its group and
\* entitled to interrupt, unless a still stronger write kept the retraction
\* from interrupting.
NoOverrideOfAuthority ==
    \A n \in Committed : \A m \in GroupOf(n) :
        /\ AuthorityInterrupt(input[m], mode)
        /\ Rank(n) < Rank(m)
        => \E k \in GroupOf(n) :
              Rank(k) > Rank(m) /\ ~AuthorityInterrupt(input[k], mode)

\* Some other intent of the batch, under another id, writes the target t.
WrittenBeside(n, t) ==
    /\ t # ""
    /\ \E m \in DOMAIN input :
          /\ input[m].id # input[n].id
          /\ IsStateWrite(input[m])
          /\ input[m].target = t

\* No intent commits on a logged read that another intent of the batch makes
\* stale.  Read-set OCC sees the atoms themselves; certificates built from the
\* execution trace see also what a view was derived from, in the reads that
\* survive the limit.
NoCommitOnStaleRead ==
    \A n \in Committed : \A k \in DOMAIN input[n].reads :
        LET d == LastRead(input[n].reads, input[n].reads[k].target)
        IN  /\ mode = "adaptive_readset_occ" /\ ~WonByAuthority(n)
               => ~WrittenBeside(n, d.target)
            /\ /\ mode = "adaptive_wccu_execution_trace" /\ ~WonByAuthority(n)
               /\ Len(input[n].reads) <= WITNESS_LIMIT
               /\ "O-FRESH" \notin scenario.disabled
               /\ d.fresh /\ d.target \notin {"", ActualTarget(input[n])}
               => \A t \in {d.target} \cup DerivedSources(scenario, d.target) :
                     ~WrittenBeside(n, t)

\* A user-level retraction is not held for having read the very atom it
\* retracts when only lower authorities write that atom in the batch.
CorrectionMayReadItsTarget ==
    stage # "collect" =>
        \A n \in DOMAIN input :
            /\ IsAuthorityRetraction(input[n])
            /\ WrittenBeside(n, ActualTarget(input[n]))
            /\ \A m \in DOMAIN input \ {n} :
                  IsStateWrite(input[m]) =>
                      Rank(m) < Rank(n) \/ input[m].target # ActualTarget(input[n])
            /\ HasCert(input[n])
            /\ \A k \in DOMAIN input[n].cert.deps :
                  input[n].cert.deps[k].target = ActualTarget(input[n])
            /\ CertificateMode(mode) = "model_certificate"
            => ~verdict[n].stale

With(result) == {n \in DOMAIN outcome : outcome[n] = result}

\* The counters that four lanes maintain on their own agree with where the
\* intents went: the review burden is the intents under review, every flagged
\* intent that did not commit is counted as one intervention, and every
\* committed write with a stale dependency, whether its certificate or the
\* scenario tells, is counted as accepted, and as unsafe.
CountersMatchOutcomes ==
    stage = "done" =>
        /\ metrics["review"] = Cardinality(With("review"))
        /\ metrics["routed"] + metrics["blocked"]
             = Cardinality(FlaggedIn(DOMAIN input) \ Committed)
        /\ metrics["blocked"] = Cardinality(With("blocked"))
        /\ metrics["readsetReview"] <= metrics["readsetStale"]
        /\ \A S \in {{n \in Committed : verdict[n].stale},
                     {n \in Committed : OracleStale(input, n, scenario)}} :
              Cardinality(S) <= metrics["staleAccepted"]
        /\ metrics["staleAccepted"] <= metrics["unsafe"]

-----------------------------------------------------------------------------
(* What the comments of the code say, and the code does not do. *)

\* "Other certificate problems ... still route to review" (resolver, line
\* 340): the ablation that ignores stale reads ignores nothing else.
OnlyStaleReadsAreIgnored ==
    \A n \in Committed :
        mode = "adaptive_wccu_no_read_validation" /\ ~WonByAuthority(n) =>
            LET v == VerifyCertificate(input, n, CertificateMode(mode), scenario)
            IN  v.errors \cup v.warnings \subseteq {"stale_read_dependency"}

\* The canonical lock scope keeps "two writes to the same file" from splitting
\* into a lock and an atom group (policy, line 44): two incompatible writes of
\* a file never both commit.
FileCommitsAreCompatible ==
    \A m, n \in Committed :
        /\ m # n /\ mode = "adaptive"
        /\ HasFileHint(input[m]) /\ HasFileHint(input[n])
        /\ LockScope(input[m]) = LockScope(input[n])
        => CompatiblePair(input[m], input[n])

\* The evaluator's count is one of "stale cross-target writes" (resolver,
\* line 287): some accepted write depends on another target that another
\* intent of the batch writes.
AcceptedStaleIsCrossTarget ==
    stage = "done" /\ mode = "adaptive" /\ metrics["staleAccepted"] > 0 =>
        \E n \in Committed : \E d \in OracleDeps(input[n], scenario) :
            d.target # input[n].target /\ WrittenBeside(n, d.target)

-----------------------------------------------------------------------------
(* Refinement: the merge stage routes every intent once. *)

Routing == INSTANCE WriteIntentRouting
               WITH Sizes  <- UNION {0..w.size : w \in Workloads},
                    closed <- stage = "done"

RoutesEveryIntentOnce == Routing!Spec
=============================================================================
