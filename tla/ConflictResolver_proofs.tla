----------------------- MODULE ConflictResolver_proofs -----------------------
(***************************************************************************)
(* What holds of the merge stage for every pool of intents, every set of   *)
(* scenarios and modes, and batches of any size.                           *)
(***************************************************************************)
EXTENDS ConflictResolver, TLAPS, FiniteSetTheorems, WellFoundedInduction

-----------------------------------------------------------------------------
(* Sets of positions in the batch. *)

\* A part of a batch is finite, so that it can be counted.
LEMMA BatchIsFinite ==
    ASSUME input \in Seq(IntentPool), NEW S \in SUBSET DOMAIN input
    PROVE  IsFiniteSet(S) /\ Cardinality(S) \in Nat
<1>1. DOMAIN input = 1..Len(input) /\ Len(input) \in Nat
  OBVIOUS
<1>2. IsFiniteSet(1..Len(input))
  BY <1>1, FS_Interval
<1>3. IsFiniteSet(S)
  BY <1>1, <1>2, FS_Subset
<1>. QED
  BY <1>3, FS_CardinalityType

\* A part of a batch that is not empty has a first member.
LEMMA FirstMember ==
    ASSUME input \in Seq(IntentPool), NEW S \in SUBSET DOMAIN input, S # {}
    PROVE  \E m \in S : \A k \in S : m <= k
<1>1. S \subseteq Nat
  BY DOMAIN input = 1..Len(input)
<1>2. PICK m \in S : \A k \in S : ~(<<k, m>> \in OpToRel(<, Nat))
  BY <1>1, NatLessThanWellFounded, WFMin
<1>3. \A k \in S : ~(k < m)
  BY <1>1, <1>2 DEF OpToRel
<1>. QED
  BY <1>1, <1>3
-----------------------------------------------------------------------------
(* Type correctness. *)

LEMMA GroupIsPending ==
    ASSUME NEW out
    PROVE  NextGroup(out) \subseteq {n \in DOMAIN out : out[n] = "pending"}
BY DEF NextGroup

LEMMA EnteredType ==
    ASSUME TypeOK
    PROVE  Entered \in [MetricNames -> Nat]
<1>1. Cardinality(StaleReaders(live)) \in Nat
  BY BatchIsFinite DEF TypeOK, StaleReaders
<1>2. One(SemanticConflict(live)) \in Nat
  BY DEF One
<1>3. metrics \in [MetricNames -> Nat]
  BY DEF TypeOK
<1>. QED
  BY <1>1, <1>2, <1>3 DEF Entered, MetricNames

\* Routing some intents of a batch and going on keeps the types.
LEMMA RoutingType ==
    ASSUME TypeOK, input' = input,
           NEW commit, NEW review, NEW blocked, Decide(commit, review, blocked),
           NEW rest \in SUBSET DOMAIN input, NEW next \in Stages,
           ContinueWith(rest, next)
    PROVE  /\ outcome' \in [DOMAIN input -> Outcomes]
           /\ stage' \in Stages
           /\ live' \in SUBSET DOMAIN input
<1>1. outcome' \in [DOMAIN input -> Outcomes]
  BY DEF TypeOK, Decide, Outcomes
<1>2. CASE rest = {}
  <2>1. live' = NextGroup(outcome') /\ stage' = "lane"
    BY <1>2 DEF ContinueWith
  <2>. QED
    BY <1>1, <2>1, GroupIsPending DEF Stages
<1>3. CASE rest # {}
  BY <1>1, <1>3 DEF ContinueWith
<1>. QED
  BY <1>2, <1>3

LEMMA TypeInit == Init => TypeOK
<1>. SUFFICES ASSUME Init PROVE TypeOK
  OBVIOUS
<1>1. PICK w \in Workloads :
          /\ mode \in w.modes /\ scenario \in w.scenarios
          /\ input \in UNION {[1..k -> w.pool] : k \in 0..w.size}
  BY DEF Init, Started
<1>2. PICK k \in 0..w.size : input \in [1..k -> w.pool]
  BY <1>1
<1>3. k \in Nat
  BY <1>2, WorkloadsAssumption
<1>4. w.pool \subseteq IntentPool
  BY DEF IntentPool
<1>5. input \in [1..k -> IntentPool]
  BY <1>2, <1>4
<1>6. input \in Seq(IntentPool)
  BY <1>3, <1>5
<1>7. mode \in Modes /\ scenario \in Scenarios
  BY <1>1 DEF Modes, Scenarios
<1>. QED
  BY <1>6, <1>7 DEF Init, Started, TypeOK, Stages, Outcomes

LEMMA TypeNext == TypeOK /\ [Next]_vars => TypeOK'
<1>. SUFFICES ASSUME TypeOK, [Next]_vars PROVE TypeOK'
  OBVIOUS
<1>. USE DEF args
<1>0. metrics \in [MetricNames -> Nat]
  BY DEF TypeOK
<1>1. CASE Verify
  <2>1. live' \in SUBSET DOMAIN input
    BY <1>1, GroupIsPending DEF Verify, TypeOK
  <2>. QED
    BY <1>1, <2>1 DEF Verify, TypeOK, Stages
<1>2. CASE InterruptByAuthority
  <2>. DEFINE low == live \ HighAuthority(live)
  <2>1. /\ Cardinality(low) \in Nat
        /\ Cardinality(FlaggedIn(low)) \in Nat
    BY BatchIsFinite DEF TypeOK, FlaggedIn
  <2>2. metrics' \in [MetricNames -> Nat]
    BY <1>2, <2>1, EnteredType DEF InterruptByAuthority, MetricNames
  <2>. QED
    BY <1>2, <2>2, RoutingType DEF InterruptByAuthority, TypeOK, Stages
<1>3. CASE GateReview
  <2>1. /\ Cardinality(live) \in Nat
        /\ Cardinality(FlaggedIn(live)) \in Nat
        /\ One(SemanticConflict(live)) \in Nat
    BY BatchIsFinite DEF TypeOK, FlaggedIn, One
  <2>2. metrics' \in [MetricNames -> Nat]
    BY <1>3, <2>1, EnteredType DEF GateReview, MetricNames
  <2>. QED
    BY <1>3, <2>2, RoutingType DEF GateReview, TypeOK, Stages
<1>4. CASE ContendForLock
  <2>1. /\ Cardinality(live) \in Nat
        /\ Cardinality(FlaggedIn(live)) \in Nat
    BY BatchIsFinite DEF TypeOK, FlaggedIn
  <2>2. metrics' \in [MetricNames -> Nat]
    BY <1>4, <2>1, EnteredType DEF ContendForLock, MetricNames
  <2>. QED
    BY <1>4, <2>2, RoutingType DEF ContendForLock, TypeOK, Stages
<1>5. CASE RouteFlagged
  <2>. DEFINE reviewed == FlaggedIn(live) \ BlockedIn(live)
  <2>1. /\ Cardinality(reviewed) \in Nat
        /\ Cardinality(BlockedIn(live)) \in Nat
        /\ One(FlaggedIn(live) # {}) \in Nat
    BY BatchIsFinite DEF TypeOK, FlaggedIn, BlockedIn, One
  <2>2. metrics' \in [MetricNames -> Nat]
    BY <1>5, <2>1, EnteredType DEF RouteFlagged, MetricNames
  <2>. QED
    BY <1>5, <2>2, RoutingType DEF RouteFlagged, TypeOK, Stages
<1>6. CASE RouteStaleReaders
  <2>1. Cardinality(StaleReaders(live)) \in Nat
    BY BatchIsFinite DEF TypeOK, StaleReaders
  <2>2. metrics' \in [MetricNames -> Nat]
    BY <1>0, <1>6, <2>1 DEF RouteStaleReaders, MetricNames
  <2>. QED
    BY <1>6, <2>2, RoutingType DEF RouteStaleReaders, TypeOK, Stages
<1>7. ASSUME NEW unsafe \in Nat, NEW merges \in Nat,
             CommitLive(unsafe, merges)
      PROVE  TypeOK'
  <2>1. metrics' \in [MetricNames -> Nat]
    BY <1>0, <1>7 DEF CommitLive, MetricNames
  <2>. QED
    BY <1>7, <2>1, RoutingType DEF CommitLive, TypeOK, Stages
<1>8. CASE MergeAppendOnly
  <2>1. Cardinality(StateWritesIn(live)) \in Nat
    BY BatchIsFinite DEF TypeOK, StateWritesIn
  <2>. QED
    BY <1>7, <1>8, <2>1 DEF MergeAppendOnly
<1>9. CASE CommitSingleWriter
  BY <1>7, <1>9 DEF CommitSingleWriter, One
<1>10. CASE MergeUnchecked
  <2>1. Cardinality(StateWritesIn(live)) \in Nat
    BY BatchIsFinite DEF TypeOK, StateWritesIn
  <2>. QED
    BY <1>7, <1>10, <2>1 DEF MergeUnchecked
<1>11. CASE MergeCompatible
  <2>1. PICK unlocked \in SUBSET live :
           CommitLive(Cardinality(unlocked), One(unlocked = {}))
    BY <1>11 DEF MergeCompatible, WorkspaceWritesIn
  <2>2. Cardinality(unlocked) \in Nat /\ One(unlocked = {}) \in Nat
    BY <2>1, BatchIsFinite DEF TypeOK, One
  <2>. QED
    BY <1>7, <2>1, <2>2
<1>12. CASE ReviewConflict
  <2>1. Cardinality(live) \in Nat
    BY BatchIsFinite DEF TypeOK
  <2>2. metrics' \in [MetricNames -> Nat]
    BY <1>0, <1>12, <2>1 DEF ReviewConflict, MetricNames
  <2>. QED
    BY <1>12, <2>2, RoutingType DEF ReviewConflict, TypeOK, Stages
<1>13. CASE Account
  <2>. DEFINE detected == {n \in Committed : verdict[n].stale}
              declared == {n \in Committed : OracleStale(input, n, scenario)}
              accepted == IF Cardinality(detected) >= Cardinality(declared)
                          THEN Cardinality(detected) ELSE Cardinality(declared)
  <2>1. accepted \in Nat
    BY BatchIsFinite DEF TypeOK, Committed
  <2>2. metrics' = [metrics EXCEPT !["staleAccepted"] = accepted,
                                   !["unsafe"] = @ + accepted]
    BY <1>13 DEF Account
  <2>. HIDE DEF accepted
  <2>3. metrics' \in [MetricNames -> Nat]
    BY <1>0, <2>1, <2>2 DEF MetricNames
  <2>. QED
    BY <1>13, <2>3 DEF Account, TypeOK, Stages
<1>14. CASE UNCHANGED vars
  BY <1>14 DEF vars, TypeOK
<1>. QED
  BY <1>1, <1>2, <1>3, <1>4, <1>5, <1>6, <1>8, <1>9, <1>10, <1>11, <1>12,
     <1>13, <1>14 DEF Next, Merge

\* Every variable of a call holds a value of its kind in every state, whatever
\* the intents and however long the batch: resolve_parallel_write_intents.
THEOREM Typed == Spec => []TypeOK
BY TypeInit, TypeNext, PTL DEF Spec

-----------------------------------------------------------------------------
(* The loop over the groups, and what it makes of a certificate problem.   *)

Pending == {n \in DOMAIN outcome : outcome[n] = "pending"}

\* The part of the current group that is left: nothing in it is routed yet,
\* its members share one key, and past the lanes none of them is flagged.
GroupInProgress ==
    /\ live \subseteq Pending
    /\ stage = "collect" => Pending = DOMAIN outcome
    /\ stage = "lane" => live = NextGroup(outcome)
    /\ \A m, n \in live : Key(m) = Key(n)
    /\ stage \in {"readset", "merge"} => live # {} /\ FlaggedIn(live) = {}

IInv == TypeOK /\ GroupInProgress /\ FlaggedCommitsOnlyByAuthority

LEMMA GroupSharesKey ==
    ASSUME input \in Seq(IntentPool), NEW out, DOMAIN out = DOMAIN input
    PROVE  \A m, n \in NextGroup(out) : Key(m) = Key(n)
<1>. DEFINE pending == {n \in DOMAIN out : out[n] = "pending"}
<1>1. CASE pending = {}
  BY <1>1 DEF NextGroup
<1>2. CASE pending # {}
  <2>1. PICK f \in pending : \A k \in pending : f <= k
    BY <1>2, FirstMember
  <2>2. \A n \in NextGroup(out) : Key(n) = Key(f)
    BY <2>1 DEF NextGroup
  <2>. QED
    BY <2>2
<1>. QED
  BY <1>1, <1>2

\* Routing a part of the group and going on with another part of it.
LEMMA GroupGoesOn ==
    ASSUME TypeOK, TypeOK', GroupInProgress,
           UNCHANGED <<args, verdict>>,
           NEW commit \in SUBSET live, NEW review \in SUBSET live,
           NEW blocked \in SUBSET live, Decide(commit, review, blocked),
           NEW rest \in SUBSET (live \ (commit \cup review \cup blocked)),
           NEW next \in {"readset", "merge"}, ContinueWith(rest, next),
           FlaggedIn(rest) = {}
    PROVE  GroupInProgress'
<1>1. DOMAIN outcome' = DOMAIN outcome /\ DOMAIN outcome = DOMAIN input
  BY DEF Decide, TypeOK
<1>2. CASE rest = {}
  <2>1. live' = NextGroup(outcome') /\ stage' = "lane"
    BY <1>2 DEF ContinueWith
  <2>2. live' \subseteq Pending'
    BY <2>1, GroupIsPending DEF Pending
  <2>3. NextGroup(outcome') = NextGroup(outcome)'
    BY DEF NextGroup, Key, args
  <2>4. \A m, n \in live' : Key(m) = Key(n)
    BY <1>1, <2>1, GroupSharesKey DEF TypeOK
  <2>. QED
    BY <2>1, <2>2, <2>3, <2>4 DEF GroupInProgress, Key, args
<1>3. CASE rest # {}
  <2>1. live' = rest /\ stage' = next
    BY <1>3 DEF ContinueWith
  <2>2. live' \subseteq Pending'
    BY <1>1, <2>1 DEF Decide, Pending, GroupInProgress
  <2>3. FlaggedIn(live)' = FlaggedIn(rest)
    BY <2>1 DEF FlaggedIn
  <2>. QED
    BY <1>3, <2>1, <2>2, <2>3 DEF GroupInProgress, Key, args
<1>. QED
  BY <1>2, <1>3

\* What was won by authority stays won: a routing is never revised.
LEMMA FlaggedStayOut ==
    ASSUME TypeOK, GroupInProgress, FlaggedCommitsOnlyByAuthority,
           UNCHANGED <<args, verdict>>,
           NEW commit \in SUBSET live, NEW review \in SUBSET live,
           NEW blocked \in SUBSET live, Decide(commit, review, blocked),
           \A n \in commit : Flagged(verdict[n]) => WonByAuthority(n)'
    PROVE  FlaggedCommitsOnlyByAuthority'
<1>1. \A n \in DOMAIN outcome :
         n \notin Pending => outcome'[n] = outcome[n]
  BY DEF Decide, GroupInProgress
<1>2. Committed' = Committed \cup commit
  BY <1>1 DEF Committed, Decide, GroupInProgress, Pending
<1>3. \A n \in Committed : WonByAuthority(n) => WonByAuthority(n)'
  BY <1>1 DEF WonByAuthority, GroupOf, Key, Rank, Pending, args, TypeOK
<1>. QED
  BY <1>2, <1>3 DEF FlaggedCommitsOnlyByAuthority

LEMMA RoutingStarted == TypeOK /\ Started => IInv
BY DEF Started, GroupInProgress, Pending, FlaggedCommitsOnlyByAuthority,
       Committed, FlaggedIn, IInv

LEMMA RoutingInit == Init => IInv
BY TypeInit, RoutingStarted DEF Init

LEMMA RoutingNext == IInv /\ [Next]_vars => IInv'
<1>. SUFFICES ASSUME IInv, [Next]_vars PROVE IInv'
  OBVIOUS
<1>. USE DEF args, IInv
<1>0. TypeOK'
  BY TypeNext
<1>1. CASE Verify
  <2>1. Committed = {} /\ outcome' = outcome /\ DOMAIN outcome = DOMAIN input
    BY <1>1 DEF Verify, GroupInProgress, Pending, Committed, TypeOK
  <2>2. FlaggedCommitsOnlyByAuthority'
    BY <2>1 DEF FlaggedCommitsOnlyByAuthority, Committed
  <2>3. live' = NextGroup(outcome) /\ stage' = "lane"
    BY <1>1 DEF Verify
  <2>4. NextGroup(outcome)' = NextGroup(outcome) /\ Pending' = Pending
    BY <1>1 DEF Verify, NextGroup, Key, Pending
  <2>5. \A m, n \in live' : Key(m) = Key(n)
    BY <2>1, <2>3, GroupSharesKey DEF TypeOK
  <2>6. GroupInProgress'
    BY <1>1, <2>3, <2>4, <2>5, GroupIsPending
       DEF GroupInProgress, Verify, Key, Pending
  <2>. QED
    BY <1>0, <2>2, <2>6
<1>2. CASE InterruptByAuthority
  <2>. DEFINE high == HighAuthority(live)
              low  == live \ high
  <2>1. high \subseteq live /\ low # {}
    BY <1>2 DEF InterruptByAuthority, AuthorityContested, HighAuthority
  <2>2. Decide(high, low, {}) /\ ContinueWith({}, "lane")
    BY <1>2 DEF InterruptByAuthority
  <2>3. ContinueWith({}, "merge") /\ FlaggedIn({}) = {}
    BY <2>2 DEF ContinueWith, FlaggedIn
  <2>4. UNCHANGED <<args, verdict>>
    BY <1>2 DEF InterruptByAuthority
  <2>5. ASSUME NEW n \in high PROVE WonByAuthority(n)'
    <3>1. PICK m \in low : TRUE
      BY <2>1
    <3>2. Key(m) = Key(n) /\ m \in DOMAIN input /\ m # n
      BY <2>1 DEF GroupInProgress, TypeOK
    <3>3. outcome'[m] = "review"
      BY <2>1, <2>2 DEF Decide, TypeOK
    <3>4. Rank(m) <= Rank(n) /\ AuthorityInterrupt(input[n], mode)
      BY DEF HighAuthority
    <3>. QED
      BY <2>4, <3>2, <3>3, <3>4 DEF WonByAuthority, GroupOf, Key, Rank
  <2>6. FlaggedCommitsOnlyByAuthority'
    BY <2>1, <2>2, <2>4, <2>5, FlaggedStayOut
  <2>7. GroupInProgress'
    BY <1>0, <2>1, <2>2, <2>3, <2>4, GroupGoesOn
  <2>. QED
    BY <1>0, <2>6, <2>7
<1>3. ASSUME UNCHANGED <<args, verdict>>, Decide({}, live, {}),
             ContinueWith({}, "lane")
      PROVE  IInv'
  <2>1. ContinueWith({}, "merge") /\ FlaggedIn({}) = {}
    BY <1>3 DEF ContinueWith, FlaggedIn
  <2>2. GroupInProgress'
    BY <1>0, <1>3, <2>1, GroupGoesOn
  <2>3. FlaggedCommitsOnlyByAuthority'
    BY <1>3, FlaggedStayOut
  <2>. QED
    BY <1>0, <2>2, <2>3
<1>4. CASE GateReview
  BY <1>3, <1>4 DEF GateReview
<1>5. CASE ContendForLock
  BY <1>3, <1>5 DEF ContendForLock
<1>6. CASE RouteFlagged
  <2>. DEFINE reviewed == FlaggedIn(live) \ BlockedIn(live)
              rest     == live \ FlaggedIn(live)
  <2>1. /\ UNCHANGED <<args, verdict>>
        /\ Decide({}, reviewed, BlockedIn(live))
        /\ ContinueWith(rest, "readset")
    BY <1>6 DEF RouteFlagged
  <2>2. BlockedIn(live) \subseteq FlaggedIn(live) /\ FlaggedIn(rest) = {}
    BY DEF BlockedIn, FlaggedIn, Flagged
  <2>3. rest \in SUBSET (live \ ({} \cup reviewed \cup BlockedIn(live)))
    BY <2>2
  <2>4. reviewed \in SUBSET live /\ BlockedIn(live) \in SUBSET live
    BY DEF FlaggedIn, BlockedIn
  <2>5. GroupInProgress'
    BY <1>0, <2>1, <2>2, <2>3, <2>4, GroupGoesOn
  <2>6. FlaggedCommitsOnlyByAuthority'
    BY <2>1, <2>4, FlaggedStayOut
  <2>. QED
    BY <1>0, <2>5, <2>6
<1>7. CASE RouteStaleReaders
  <2>. DEFINE rest == live \ StaleReaders(live)
  <2>1. /\ UNCHANGED <<args, verdict>>
        /\ Decide({}, StaleReaders(live), {})
        /\ ContinueWith(rest, "merge")
    BY <1>7 DEF RouteStaleReaders
  <2>2. StaleReaders(live) \subseteq live /\ FlaggedIn(rest) = {}
    BY <1>7 DEF StaleReaders, RouteStaleReaders, GroupInProgress, FlaggedIn
  <2>3. GroupInProgress'
    BY <1>0, <2>1, <2>2, GroupGoesOn
  <2>4. FlaggedCommitsOnlyByAuthority'
    BY <2>1, <2>2, FlaggedStayOut
  <2>. QED
    BY <1>0, <2>3, <2>4
<1>8. ASSUME stage = "merge", NEW unsafe, NEW merges, CommitLive(unsafe, merges)
      PROVE  IInv'
  <2>1. /\ UNCHANGED <<args, verdict>>
        /\ Decide(live, {}, {})
        /\ ContinueWith({}, "merge")
    BY <1>8 DEF CommitLive, ContinueWith
  <2>2. FlaggedIn({}) = {} /\ \A n \in live : ~Flagged(verdict[n])
    BY <1>8 DEF FlaggedIn, GroupInProgress
  <2>3. GroupInProgress'
    BY <1>0, <2>1, <2>2, GroupGoesOn
  <2>4. FlaggedCommitsOnlyByAuthority'
    BY <2>1, <2>2, FlaggedStayOut
  <2>. QED
    BY <1>0, <2>3, <2>4
<1>9. CASE Merge
  <2>1. CASE ReviewConflict
    BY <1>3, <2>1 DEF ReviewConflict
  <2>2. CASE ~ReviewConflict
    <3>1. /\ stage = "merge"
          /\ \E unsafe, merges : CommitLive(unsafe, merges)
      BY <1>9, <2>2 DEF Merge, MergeAppendOnly, CommitSingleWriter,
                        MergeUnchecked, MergeCompatible
    <3>. QED
      BY <1>8, <3>1
  <2>. QED
    BY <2>1, <2>2
<1>10. CASE Account
  <2>1. UNCHANGED <<args, verdict, live, outcome>> /\ live = {} /\ stage' = "done"
    BY <1>10 DEF Account
  <2>2. GroupInProgress'
    BY <2>1 DEF GroupInProgress
  <2>3. FlaggedCommitsOnlyByAuthority'
    BY <2>1 DEF FlaggedCommitsOnlyByAuthority, Committed, WonByAuthority,
                GroupOf, Key, Rank
  <2>. QED
    BY <1>0, <2>2, <2>3
<1>11. CASE UNCHANGED vars
  <2>1. GroupInProgress'
    BY <1>11 DEF vars, GroupInProgress, Pending, NextGroup, Key, FlaggedIn
  <2>2. FlaggedCommitsOnlyByAuthority'
    BY <1>11 DEF vars, FlaggedCommitsOnlyByAuthority, Committed,
                 WonByAuthority, GroupOf, Key, Rank
  <2>. QED
    BY <1>0, <2>1, <2>2
<1>. QED
  BY <1>1, <1>2, <1>4, <1>5, <1>6, <1>7, <1>9, <1>10, <1>11 DEF Next

LEMMA RoutingInvariant == Spec => []IInv
BY RoutingInit, RoutingNext, PTL DEF Spec

LEMMA FlaggedCommitsOnlyByAuthorityFollows == IInv => FlaggedCommitsOnlyByAuthority
<1>1. IInv => FlaggedCommitsOnlyByAuthority
  BY DEF IInv
<1>. QED
  BY <1>1

\* An intent with a certificate problem commits in one way only: as a
\* user-level retraction that interrupted a rival write of its group, which
\* went to review.
THEOREM FlaggedNeverSlipThrough == Spec => []FlaggedCommitsOnlyByAuthority
BY FlaggedCommitsOnlyByAuthorityFollows, RoutingInvariant, PTL

-----------------------------------------------------------------------------
(* Authority: what no certificate can claim away.                          *)

LEMMA RanksAreNumbers == \A a : RankOf(a, 0) \in Nat
BY DEF RankOf, AUTHORITY_RANK

\* An actor of too little authority is reported, whatever the certificate.
LEMMA InsufficientAuthorityIsReported ==
    ASSUME NEW all, NEW me, NEW cmode, NEW sc,
           RankOf(ActualActor(all[me]), 0)
             < RankOf(RequiredAuthority(all[me], sc), 0)
    PROVE  "authority_insufficient_for_direct_commit"
              \in Events(all, me, cmode, sc)
<1>. DEFINE i      == all[me]
            needed == RequiredAuthority(i, sc)
            asked  == HigherAuthority(ClaimedRequired(i), needed)
<1>1. RankOf(EffectiveActor(i), 0) <= RankOf(ActualActor(i), 0)
  BY RanksAreNumbers DEF EffectiveActor, OverclaimsAuthority
<1>2. RankOf(needed, 0) <= RankOf(asked, 0)
  BY RanksAreNumbers DEF HigherAuthority
<1>3. RankOf(EffectiveActor(i), 0) < RankOf(asked, 0)
  <2>. HIDE DEF i, needed, asked
  <2>1. RankOf(ActualActor(i), 0) < RankOf(needed, 0)
    BY DEF i, needed
  <2>. QED
    BY <1>1, <1>2, <2>1, RanksAreNumbers
<1>. QED
  BY <1>3 DEF Events, Findings

\* Such a report holds the intent, unless the scenario drops the obligation.
LEMMA InsufficientAuthorityIsFlagged ==
    ASSUME NEW all, NEW me, NEW m, NEW sc,
           CertificateMode(m) # "disabled", "O-AUTH" \notin sc.disabled,
           RankOf(ActualActor(all[me]), 0)
             < RankOf(RequiredAuthority(all[me], sc), 0)
    PROVE  Flagged(Verdict(all, me, m, sc))
<1>. DEFINE kind == "authority_insufficient_for_direct_commit"
            v    == VerifyCertificate(all, me, CertificateMode(m), sc)
<1>1. kind \in Events(all, me, CertificateMode(m), sc)
  BY InsufficientAuthorityIsReported
<1>2. /\ OBLIGATION_BY_EVENT_KIND[kind] \notin sc.disabled
      /\ kind \in REVIEW_WARNING_KINDS /\ kind \notin ErrorKinds
  BY DEF OBLIGATION_BY_EVENT_KIND, REVIEW_WARNING_KINDS, ErrorKinds
<1>3. kind \in v.warnings /\ (v.review \/ v.blocked)
  BY <1>1, <1>2 DEF VerifyCertificate
<1>4. CASE m = "adaptive_wccu_no_read_validation"
  <2>1. Verdict(all, me, m, sc) = IgnoreStaleReads(v)
    BY <1>4 DEF Verdict
  <2>2. IgnoreStaleReads(v).review
    BY <1>3 DEF IgnoreStaleReads, VerifyCertificate
  <2>. QED
    BY <2>1, <2>2 DEF Flagged
<1>5. CASE m # "adaptive_wccu_no_read_validation"
  BY <1>3, <1>5 DEF Verdict, Flagged
<1>. QED
  BY <1>4, <1>5

\* Intents are verified once, together, before any of them is routed.
VerdictsStand ==
    IF stage = "collect" THEN Committed = {}
    ELSE verdict = [n \in DOMAIN input |-> Verdict(input, n, mode, scenario)]

LEMMA VerdictsNext == VerdictsStand /\ [Next]_vars => VerdictsStand'
<1>. SUFFICES ASSUME VerdictsStand, [Next]_vars PROVE VerdictsStand'
  OBVIOUS
<1>1. CASE Verify
  BY <1>1 DEF Verify, VerdictsStand, args
<1>2. ASSUME stage # "collect", UNCHANGED <<args, verdict>>,
             stage' # "collect"
      PROVE  VerdictsStand'
  BY <1>2 DEF VerdictsStand, args
<1>3. ASSUME NEW rest, NEW next \in {"lane", "readset", "merge"},
             ContinueWith(rest, next)
      PROVE  stage' # "collect"
  BY <1>3 DEF ContinueWith
<1>4. CASE InterruptByAuthority \/ GateReview \/ ContendForLock
  BY <1>2, <1>3, <1>4 DEF InterruptByAuthority, GateReview, ContendForLock
<1>5. CASE RouteFlagged \/ RouteStaleReaders
  BY <1>2, <1>3, <1>5 DEF RouteFlagged, RouteStaleReaders
<1>6. CASE Merge
  BY <1>2, <1>3, <1>6
     DEF Merge, MergeAppendOnly, CommitSingleWriter, MergeUnchecked,
         MergeCompatible, ReviewConflict, CommitLive
<1>7. CASE Account
  BY <1>2, <1>7 DEF Account
<1>8. CASE UNCHANGED vars
  BY <1>8 DEF vars, VerdictsStand, Committed
<1>. QED
  BY <1>1, <1>4, <1>5, <1>6, <1>7, <1>8 DEF Next

LEMMA VerdictsInvariant == Spec => []VerdictsStand
<1>1. Init => VerdictsStand
  BY DEF Init, Started, VerdictsStand, Committed
<1>. QED
  BY <1>1, VerdictsNext, PTL DEF Spec

LEMMA NoCommitBeyondAuthorityFollows == IInv /\ VerdictsStand => NoCommitBeyondAuthority
<1>1. IInv /\ VerdictsStand => NoCommitBeyondAuthority
  <2>. SUFFICES ASSUME IInv, VerdictsStand,
                       NEW n \in Committed,
                       CertificateMode(mode) # "disabled",
                       "O-AUTH" \notin scenario.disabled,
                       ~WonByAuthority(n)
                PROVE  RankOf(ActualActor(input[n]), 0)
                         >= RankOf(RequiredAuthority(input[n], scenario), 0)
    BY DEF NoCommitBeyondAuthority, ActualActor
  <2>1. ~Flagged(verdict[n])
    BY DEF IInv, FlaggedCommitsOnlyByAuthority
  <2>2. verdict[n] = Verdict(input, n, mode, scenario)
    BY DEF VerdictsStand, IInv, TypeOK, Committed
  <2>. QED
    BY <2>1, <2>2, InsufficientAuthorityIsFlagged, RanksAreNumbers
<1>. QED
  BY <1>1

\* In every mode that verifies certificates, and unless the scenario drops the
\* obligation, an intent commits only with the authority its operation, risk
\* and text call for, whatever it claims; or by outranking a rival.
THEOREM AuthorityIsNeverClaimed == Spec => []NoCommitBeyondAuthority
BY NoCommitBeyondAuthorityFollows, RoutingInvariant, VerdictsInvariant, PTL

-----------------------------------------------------------------------------
(* The merge stage implements the abstract router, but for its coming to an *)
(* end, which is model-checked.                                             *)

\* What a lane decides is one routing step, or none if it routes nothing.
LEMMA DecisionIsRouting ==
    ASSUME TypeOK, GroupInProgress, stage # "done", stage' # "done",
           NEW commit \in SUBSET live, NEW review \in SUBSET live,
           NEW blocked \in SUBSET live, Decide(commit, review, blocked)
    PROVE  [Routing!Next]_Routing!routingVars
<1>. DEFINE S == commit \cup review \cup blocked
            routed == [n \in S |-> IF n \in commit THEN "commit"
                                   ELSE IF n \in review THEN "review"
                                   ELSE "blocked"]
<1>1. CASE S = {}
  <2>1. outcome' = outcome
    BY <1>1 DEF Decide, TypeOK
  <2>. QED
    BY <2>1 DEF Routing!routingVars
<1>2. CASE S # {}
  <2>1. S \in SUBSET Routing!Undecided
    BY DEF GroupInProgress, Pending, Routing!Undecided
  <2>2. routed \in [S -> Routing!Final]
    BY DEF Routing!Final
  <2>3. outcome' = [n \in DOMAIN outcome |->
                       IF n \in S THEN routed[n] ELSE outcome[n]]
    BY DEF Decide
  <2>4. Routing!Route
    BY <1>2, <2>1, <2>2, <2>3 DEF Routing!Route
  <2>. QED
    BY <2>4 DEF Routing!Next
<1>. QED
  BY <1>1, <1>2

LEMMA StepIsRouting == IInv /\ [Next]_vars => [Routing!Next]_Routing!routingVars
<1>. SUFFICES ASSUME IInv, [Next]_vars PROVE [Routing!Next]_Routing!routingVars
  OBVIOUS
<1>. USE DEF args, IInv
<1>1. CASE Verify
  BY <1>1 DEF Verify, Routing!routingVars
<1>2. ASSUME stage # "done", NEW rest, NEW next \in {"lane", "readset", "merge"},
             ContinueWith(rest, next)
      PROVE  stage' # "done"
  BY <1>2 DEF ContinueWith
<1>3. CASE InterruptByAuthority
  <2>. DEFINE high == HighAuthority(live)
  <2>1. high \subseteq live /\ Decide(high, live \ high, {}) /\ stage' # "done"
    BY <1>2, <1>3 DEF InterruptByAuthority, HighAuthority
  <2>. QED
    BY <1>3, <2>1, DecisionIsRouting DEF InterruptByAuthority
<1>4. CASE GateReview \/ ContendForLock \/ ReviewConflict
  <2>1. Decide({}, live, {}) /\ stage # "done" /\ stage' # "done"
    BY <1>2, <1>4 DEF GateReview, ContendForLock, ReviewConflict
  <2>. QED
    BY <2>1, DecisionIsRouting
<1>5. CASE RouteFlagged
  <2>1. /\ Decide({}, FlaggedIn(live) \ BlockedIn(live), BlockedIn(live))
        /\ stage # "done" /\ stage' # "done"
    BY <1>2, <1>5 DEF RouteFlagged
  <2>2. FlaggedIn(live) \subseteq live /\ BlockedIn(live) \subseteq live
    BY DEF FlaggedIn, BlockedIn
  <2>. QED
    BY <2>1, <2>2, DecisionIsRouting
<1>6. CASE RouteStaleReaders
  <2>1. /\ Decide({}, StaleReaders(live), {}) /\ StaleReaders(live) \subseteq live
        /\ stage # "done" /\ stage' # "done"
    BY <1>2, <1>6 DEF RouteStaleReaders, StaleReaders
  <2>. QED
    BY <2>1, DecisionIsRouting
<1>7. CASE Merge /\ ~ReviewConflict
  <2>1. Decide(live, {}, {}) /\ stage # "done" /\ stage' # "done"
    BY <1>2, <1>7 DEF Merge, MergeAppendOnly, CommitSingleWriter,
                      MergeUnchecked, MergeCompatible, CommitLive
  <2>. QED
    BY <2>1, DecisionIsRouting
<1>8. CASE Account
  <2>1. NextGroup(outcome) = {}
    BY <1>8 DEF Account, GroupInProgress
  <2>2. Pending = {}
    <3>. SUFFICES ASSUME Pending # {} PROVE FALSE
      OBVIOUS
    <3>1. PICK f \in Pending : \A k \in Pending : f <= k
      BY FirstMember DEF TypeOK, Pending
    <3>2. \A m \in Pending : (\A k \in Pending : m <= k) => m = f
      BY <3>1 DEF Pending, TypeOK
    <3>3. f \in NextGroup(outcome)
      BY <3>1, <3>2 DEF NextGroup, Pending
    <3>. QED
      BY <2>1, <3>3
  <2>3. Routing!Close
    BY <1>8, <2>2 DEF Account, Routing!Close, Routing!Undecided, Pending
  <2>. QED
    BY <2>3 DEF Routing!Next
<1>9. CASE UNCHANGED vars
  BY <1>9 DEF vars, Routing!routingVars
<1>. QED
  BY <1>1, <1>3, <1>4, <1>5, <1>6, <1>7, <1>8, <1>9 DEF Next, Merge

\* An intent is routed at most once, its routing is never revised, and the
\* result is returned only when every intent of the batch has one.
THEOREM RoutesEachIntentAtMostOnce == Spec => RoutesEveryIntentOnce
<1>1. Init => Routing!Init
  <2>. SUFFICES ASSUME Init PROVE Routing!Init
    OBVIOUS
  <2>1. PICK w \in Workloads :
            input \in UNION {[1..k -> w.pool] : k \in 0..w.size}
    BY DEF Init, Started
  <2>2. PICK k \in 0..w.size : input \in [1..k -> w.pool]
    BY <2>1
  <2>3. k \in UNION {0..v.size : v \in Workloads}
    BY <2>2
  <2>4. outcome = [n \in 1..k |-> "pending"] /\ stage # "done"
    BY <2>2 DEF Init, Started
  <2>. QED
    BY <2>3, <2>4 DEF Routing!Init
<1>. QED
  BY <1>1, RoutingInvariant, StepIsRouting, PTL
     DEF Spec, RoutesEveryIntentOnce, Routing!Spec

-----------------------------------------------------------------------------
(* The rule behind the loop over the groups.  The code decides a group in  *)
(* up to three rounds, lane by lane; what it decides about an intent is a  *)
(* function of the intent's whole group, of the verdicts and of the mode.  *)
(* The safety of the merge stage is read off that function.                *)

\* No single intent of the group decides for itself.
GroupHeld(G) == ReviewGated(G) \/ LockContended(G)

Survivors(G) == G \ (FlaggedIn(G) \cup StaleReaders(G))

Conflicting(S) ==
    /\ ~AllAppendOnly(S) /\ Cardinality(S) > 1
    /\ ~MergesUnchecked(S) /\ SemanticConflict(S)

\* What commits of a group, and what of it is blocked; all else is reviewed.
Commits(G) ==
    IF AuthorityContested(G) THEN HighAuthority(G)
    ELSE IF GroupHeld(G) \/ Conflicting(Survivors(G)) THEN {} ELSE Survivors(G)

Blocks(G) ==
    IF AuthorityContested(G) \/ GroupHeld(G) THEN {} ELSE BlockedIn(G)

Ruling(n) ==
    IF n \in Commits(GroupOf(n)) THEN "commit"
    ELSE IF n \in Blocks(GroupOf(n)) THEN "blocked" ELSE "review"

\* Whatever is decided is decided by the rule.
Ruled == \A n \in DOMAIN outcome : outcome[n] \in {"pending", Ruling(n)}

\* Groups are taken up whole: but for the current one, none is half decided.
GroupsAreWhole ==
    \A m, n \in DOMAIN input :
        Key(m) = Key(n) /\ m \in Pending \ live => n \in Pending \ live

\* How much of the current group is left, by how far its turn has come.
LeftOfGroup ==
    \A n \in live :
        /\ stage = "lane" => live = GroupOf(n)
        /\ stage = "readset" => live = GroupOf(n) \ FlaggedIn(GroupOf(n))
        /\ stage = "merge" => live = Survivors(GroupOf(n))
        /\ stage \in {"readset", "merge"} =>
              ~AuthorityContested(GroupOf(n)) /\ ~GroupHeld(GroupOf(n))
        /\ stage \in {"lane", "readset", "merge"}

RInv == Ruled /\ GroupsAreWhole /\ LeftOfGroup

-----------------------------------------------------------------------------
(* The rule stands while intents are routed. *)

LEMMA LanesStand ==
    ASSUME UNCHANGED <<args, verdict>>
    PROVE  \A S : /\ HighAuthority(S)' = HighAuthority(S)
                  /\ BlockedIn(S)' = BlockedIn(S)
                  /\ FlaggedIn(S)' = FlaggedIn(S)
                  /\ StaleReaders(S)' = StaleReaders(S)
                  /\ Survivors(S)' = Survivors(S)
                  /\ AuthorityContested(S)' = AuthorityContested(S)
                  /\ GroupHeld(S)' = GroupHeld(S)
                  /\ Conflicting(S)' = Conflicting(S)
<1>. USE DEF args
<1>1. \A S : /\ HighAuthority(S)' = HighAuthority(S)
             /\ ReviewGated(S)' = ReviewGated(S)
             /\ LockContended(S)' = LockContended(S)
             /\ FlaggedIn(S)' = FlaggedIn(S)
             /\ BlockedIn(S)' = BlockedIn(S)
             /\ StaleReaders(S)' = StaleReaders(S)
             /\ AllAppendOnly(S)' = AllAppendOnly(S)
             /\ MergesUnchecked(S)' = MergesUnchecked(S)
             /\ SemanticConflict(S)' = SemanticConflict(S)
  BY DEF HighAuthority, Rank, ReviewGated, Lane, LockContended, FlaggedIn,
         BlockedIn, StaleReaders, AllAppendOnly, MergesUnchecked,
         SemanticConflict
<1>2. \A S : /\ Survivors(S)' = Survivors(S)
             /\ AuthorityContested(S)' = AuthorityContested(S)
             /\ GroupHeld(S)' = GroupHeld(S)
             /\ Conflicting(S)' = Conflicting(S)
  BY <1>1 DEF Survivors, AuthorityContested, GroupHeld, Conflicting
<1>. QED
  BY <1>1, <1>2

LEMMA RulingStands ==
    ASSUME UNCHANGED <<args, verdict>>
    PROVE  \A n : /\ GroupOf(n)' = GroupOf(n)
                  /\ Ruling(n)' = Ruling(n)
<1>1. \A n : GroupOf(n)' = GroupOf(n)
  BY DEF GroupOf, Key, args
<1>2. \A S : Commits(S)' = Commits(S) /\ Blocks(S)' = Blocks(S)
  BY LanesStand DEF Commits, Blocks
<1>. QED
  BY <1>1, <1>2 DEF Ruling

\* When no group is half decided, the next one is taken up as a whole.
LEMMA NextGroupIsWhole ==
    ASSUME input \in Seq(IntentPool), NEW out, DOMAIN out = DOMAIN input,
           \A m, n \in DOMAIN input :
               Key(m) = Key(n) /\ out[m] = "pending" => out[n] = "pending"
    PROVE  \A n \in NextGroup(out) : NextGroup(out) = GroupOf(n)
<1>. DEFINE pending == {n \in DOMAIN out : out[n] = "pending"}
<1>1. CASE pending = {}
  BY <1>1 DEF NextGroup
<1>2. CASE pending # {}
  <2>1. PICK f \in pending : \A k \in pending : f <= k
    BY <1>2, FirstMember
  <2>2. pending \subseteq Nat
    BY DOMAIN input = 1..Len(input)
  <2>3. \A m \in pending : (\A k \in pending : m <= k) => m = f
    BY <2>1, <2>2
  <2>4. NextGroup(out) = {n \in pending : Key(n) = Key(f)}
    BY <2>1, <2>3 DEF NextGroup
  <2>5. NextGroup(out) = {n \in DOMAIN input : Key(n) = Key(f)}
    BY <2>1, <2>4
  <2>. QED
    BY <2>5 DEF GroupOf
<1>. QED
  BY <1>1, <1>2

\* Routing a part of the group by the rule keeps to the rule.
LEMMA RuledGoesOn ==
    ASSUME TypeOK, live \subseteq Pending, Ruled, UNCHANGED <<args, verdict>>,
           NEW commit \in SUBSET live, NEW review \in SUBSET live,
           NEW blocked \in SUBSET live, Decide(commit, review, blocked),
           \A n \in commit : Ruling(n) = "commit",
           \A n \in review \ commit : Ruling(n) = "review",
           \A n \in blocked \ (commit \cup review) : Ruling(n) = "blocked"
    PROVE  Ruled'
<1>1. \A n : Ruling(n)' = Ruling(n)
  BY RulingStands
<1>2. DOMAIN outcome' = DOMAIN outcome
  BY DEF Decide
<1>3. \A n \in DOMAIN outcome : outcome'[n] \in {"pending", Ruling(n)}
  BY DEF Decide, Ruled
<1>. QED
  BY <1>1, <1>2, <1>3 DEF Ruled

\* Routing a part of the group leaves the other groups whole, and the part
\* that is not routed is what the next round expects.
LEMMA GroupsStayWhole ==
    ASSUME TypeOK, live \subseteq Pending, GroupsAreWhole,
           UNCHANGED <<args, verdict>>,
           NEW commit \in SUBSET live, NEW review \in SUBSET live,
           NEW blocked \in SUBSET live, Decide(commit, review, blocked),
           NEW rest, rest = live \ (commit \cup review \cup blocked),
           NEW next, ContinueWith(rest, next),
           \A n \in rest :
               /\ next \in {"readset", "merge"}
               /\ next = "readset" => rest = GroupOf(n) \ FlaggedIn(GroupOf(n))
               /\ next = "merge" => rest = Survivors(GroupOf(n))
               /\ ~AuthorityContested(GroupOf(n)) /\ ~GroupHeld(GroupOf(n))
    PROVE  GroupsAreWhole' /\ LeftOfGroup'
<1>1. DOMAIN outcome' = DOMAIN input /\ DOMAIN outcome = DOMAIN input
  BY DEF Decide, TypeOK
<1>2. Pending' = Pending \ (commit \cup review \cup blocked)
  BY <1>1 DEF Pending, Decide
<1>3. \A n : Key(n)' = Key(n) /\ GroupOf(n)' = GroupOf(n)
  BY DEF Key, GroupOf, args
<1>4. Pending' \ rest = Pending \ live
  BY <1>2
<1>5. CASE rest = {}
  <2>1. live' = NextGroup(outcome') /\ stage' = "lane"
    BY <1>5 DEF ContinueWith
  <2>2. \A m, n \in DOMAIN input :
           Key(m) = Key(n) /\ m \in Pending' => n \in Pending'
    BY <1>4, <1>5 DEF GroupsAreWhole
  <2>3. \A n \in DOMAIN input : outcome'[n] = "pending" <=> n \in Pending'
    BY <1>1 DEF Pending
  <2>4. \A n \in NextGroup(outcome') : NextGroup(outcome') = GroupOf(n)
    BY <1>1, <2>2, <2>3, NextGroupIsWhole DEF TypeOK
  <2>5. \A n \in live' : live' = GroupOf(n)'
    BY <1>3, <2>1, <2>4
  <2>6. \A m, n \in DOMAIN input :
           Key(m) = Key(n) /\ n \in live' => m \in live'
    BY <2>5, <1>3 DEF GroupOf
  <2>7. GroupsAreWhole'
    BY <1>3, <2>2, <2>6 DEF GroupsAreWhole, args
  <2>. QED
    BY <2>1, <2>5, <2>7 DEF LeftOfGroup
<1>6. CASE rest # {}
  <2>1. live' = rest /\ stage' = next
    BY <1>6 DEF ContinueWith
  <2>2. GroupsAreWhole'
    BY <1>3, <1>4, <2>1 DEF GroupsAreWhole, args
  <2>3. \A S : /\ FlaggedIn(S)' = FlaggedIn(S)
               /\ Survivors(S)' = Survivors(S)
               /\ AuthorityContested(S)' = AuthorityContested(S)
               /\ GroupHeld(S)' = GroupHeld(S)
    BY LanesStand
  <2>. QED
    BY <1>3, <2>1, <2>2, <2>3 DEF LeftOfGroup
<1>. QED
  BY <1>5, <1>6

LEMMA RuleStarted == Started => RInv
BY DEF Started, RInv, Ruled, GroupsAreWhole, LeftOfGroup, Pending

\* The lanes a whole group goes down, and what the rule says of each.
LEMMA GroupLanes ==
    ASSUME NEW n
    PROVE  /\ AuthorityContested(GroupOf(n)) =>
                 Ruling(n) = IF n \in HighAuthority(GroupOf(n))
                             THEN "commit" ELSE "review"
           /\ ~AuthorityContested(GroupOf(n)) /\ GroupHeld(GroupOf(n)) =>
                 Ruling(n) = "review"
BY DEF Ruling, Commits, Blocks

LEMMA SingleLanes ==
    ASSUME NEW n, n \in GroupOf(n),
           ~AuthorityContested(GroupOf(n)), ~GroupHeld(GroupOf(n))
    PROVE  /\ n \in BlockedIn(GroupOf(n)) => Ruling(n) = "blocked"
           /\ n \in FlaggedIn(GroupOf(n)) \ BlockedIn(GroupOf(n)) =>
                 Ruling(n) = "review"
           /\ n \in StaleReaders(GroupOf(n)) \ FlaggedIn(GroupOf(n)) =>
                 Ruling(n) = "review"
           /\ n \in Survivors(GroupOf(n)) =>
                 Ruling(n) = IF Conflicting(Survivors(GroupOf(n)))
                             THEN "review" ELSE "commit"
BY DEF Ruling, Commits, Blocks, Survivors, BlockedIn, FlaggedIn, Flagged

LEMMA RuleNext == IInv /\ RInv /\ [Next]_vars => RInv'
<1>. SUFFICES ASSUME IInv, RInv, [Next]_vars PROVE RInv'
  OBVIOUS
<1>. USE DEF IInv, RInv
<1>0. /\ live \subseteq Pending /\ DOMAIN outcome = DOMAIN input
      /\ live \subseteq DOMAIN input
      /\ \A n \in live : n \in GroupOf(n)
  BY DEF GroupInProgress, TypeOK, GroupOf
<1>1. CASE Verify
  <2>1. Pending = DOMAIN input /\ live' = NextGroup(outcome)
    BY <1>0, <1>1 DEF Verify, GroupInProgress
  <2>2. /\ UNCHANGED <<args, outcome>> /\ Pending' = Pending
        /\ stage' = "lane"
        /\ \A n : Key(n)' = Key(n) /\ GroupOf(n)' = GroupOf(n)
    BY <1>1 DEF Verify, args, Pending, Key, GroupOf
  <2>3. \A n \in live' : live' = GroupOf(n)'
    BY <1>0, <2>1, <2>2, NextGroupIsWhole DEF TypeOK, Pending
  <2>4. \A m, n \in DOMAIN input :
           Key(m) = Key(n) /\ n \in live' => m \in live'
    BY <2>2, <2>3 DEF GroupOf
  <2>5. GroupsAreWhole' /\ LeftOfGroup'
    BY <2>1, <2>2, <2>3, <2>4 DEF GroupsAreWhole, LeftOfGroup, args
  <2>6. \A n \in DOMAIN outcome' : outcome'[n] = "pending"
    BY <1>0, <2>1, <2>2 DEF Pending
  <2>. QED
    BY <2>5, <2>6 DEF Ruled
<1>2. CASE InterruptByAuthority
  <2>. DEFINE high == HighAuthority(live)
              low  == live \ high
  <2>1. /\ UNCHANGED <<args, verdict>> /\ Decide(high, low, {})
        /\ ContinueWith({}, "lane") /\ high \subseteq live
    BY <1>2 DEF InterruptByAuthority, HighAuthority
  <2>2. \A n \in live : live = GroupOf(n) /\ AuthorityContested(GroupOf(n))
    BY <1>2 DEF InterruptByAuthority, LeftOfGroup
  <2>3. /\ \A n \in high : Ruling(n) = "commit"
        /\ \A n \in low \ high : Ruling(n) = "review"
    BY <2>1, <2>2, GroupLanes
  <2>4. Ruled'
    BY <1>0, <2>1, <2>3, RuledGoesOn
  <2>5. GroupsAreWhole' /\ LeftOfGroup'
    BY <1>0, <2>1, GroupsStayWhole
  <2>. QED
    BY <2>4, <2>5
<1>3. ASSUME UNCHANGED <<args, verdict>>, Decide({}, live, {}),
             ContinueWith({}, "lane"), \A n \in live : Ruling(n) = "review"
      PROVE  RInv'
  <2>1. Ruled'
    BY <1>0, <1>3, RuledGoesOn
  <2>2. GroupsAreWhole' /\ LeftOfGroup'
    BY <1>0, <1>3, GroupsStayWhole
  <2>. QED
    BY <2>1, <2>2
<1>4. CASE GateReview \/ ContendForLock
  <2>1. \A n \in live : live = GroupOf(n) /\ GroupHeld(live)
                         /\ ~AuthorityContested(live)
    BY <1>4 DEF GateReview, ContendForLock, LeftOfGroup, GroupHeld
  <2>2. \A n \in live : Ruling(n) = "review"
    BY <2>1, GroupLanes
  <2>. QED
    BY <1>3, <1>4, <2>2 DEF GateReview, ContendForLock
<1>5. CASE RouteFlagged
  <2>. DEFINE reviewed == FlaggedIn(live) \ BlockedIn(live)
              rest     == live \ FlaggedIn(live)
  <2>1. /\ UNCHANGED <<args, verdict>>
        /\ Decide({}, reviewed, BlockedIn(live))
        /\ ContinueWith(rest, "readset")
    BY <1>5 DEF RouteFlagged
  <2>2. /\ reviewed \in SUBSET live /\ BlockedIn(live) \in SUBSET live
        /\ rest = live \ ({} \cup reviewed \cup BlockedIn(live))
    BY DEF FlaggedIn, BlockedIn, Flagged
  <2>3. \A n \in live : /\ live = GroupOf(n)
                         /\ ~AuthorityContested(live) /\ ~GroupHeld(live)
    BY <1>5 DEF RouteFlagged, LeftOfGroup, GroupHeld
  <2>4. /\ \A n \in reviewed : Ruling(n) = "review"
        /\ \A n \in BlockedIn(live) : Ruling(n) = "blocked"
    BY <1>0, <2>2, <2>3, SingleLanes
  <2>5. Ruled'
    BY <1>0, <2>1, <2>2, <2>4, RuledGoesOn
  <2>6. GroupsAreWhole' /\ LeftOfGroup'
    BY <1>0, <2>1, <2>2, <2>3, GroupsStayWhole
  <2>. QED
    BY <2>5, <2>6
<1>6. CASE RouteStaleReaders
  <2>. DEFINE rest == live \ StaleReaders(live)
  <2>1. /\ UNCHANGED <<args, verdict>>
        /\ Decide({}, StaleReaders(live), {})
        /\ ContinueWith(rest, "merge")
    BY <1>6 DEF RouteStaleReaders
  <2>2. StaleReaders(live) \in SUBSET live
    BY DEF StaleReaders
  <2>3. \A n \in live :
           /\ live = GroupOf(n) \ FlaggedIn(GroupOf(n))
           /\ ~AuthorityContested(GroupOf(n)) /\ ~GroupHeld(GroupOf(n))
    BY <1>6 DEF RouteStaleReaders, LeftOfGroup
  <2>4. \A n \in live : StaleReaders(live)
                          = StaleReaders(GroupOf(n)) \ FlaggedIn(GroupOf(n))
    BY <2>3 DEF StaleReaders
  <2>5. \A n \in StaleReaders(live) : Ruling(n) = "review"
    BY <1>0, <2>2, <2>3, <2>4, SingleLanes
  <2>6. \A n \in rest : rest = Survivors(GroupOf(n))
    BY <2>3, <2>4 DEF Survivors
  <2>7. Ruled'
    BY <1>0, <2>1, <2>2, <2>5, RuledGoesOn
  <2>8. rest = live \ ({} \cup StaleReaders(live) \cup {})
    OBVIOUS
  <2>9. GroupsAreWhole' /\ LeftOfGroup'
    <3>1. \A n \in rest :
             /\ rest = Survivors(GroupOf(n))
             /\ ~AuthorityContested(GroupOf(n)) /\ ~GroupHeld(GroupOf(n))
      BY <2>3, <2>6
    <3>. HIDE DEF rest
    <3>. QED
      BY <1>0, <2>1, <2>2, <2>8, <3>1, GroupsStayWhole
  <2>. QED
    BY <2>7, <2>9
<1>7. ASSUME stage = "merge"
      PROVE  \A n \in live : Ruling(n) = IF Conflicting(live) THEN "review"
                                                              ELSE "commit"
  <2>1. \A n \in live :
           /\ live = Survivors(GroupOf(n))
           /\ ~AuthorityContested(GroupOf(n)) /\ ~GroupHeld(GroupOf(n))
    BY <1>7 DEF LeftOfGroup
  <2>. QED
    BY <1>0, <2>1, SingleLanes
<1>8. CASE ReviewConflict
  <2>1. \A n \in live : Ruling(n) = "review"
    BY <1>7, <1>8 DEF ReviewConflict, Conflicting
  <2>. QED
    BY <1>3, <1>8, <2>1 DEF ReviewConflict
<1>9. CASE Merge /\ ~ReviewConflict
  <2>1. stage = "merge" /\ ~Conflicting(live)
    <3>1. CASE MergeAppendOnly \/ MergeUnchecked \/ MergeCompatible
      BY <3>1 DEF MergeAppendOnly, MergeUnchecked, MergeCompatible, Conflicting
    <3>2. CASE CommitSingleWriter
      BY <3>2 DEF CommitSingleWriter, Conflicting
    <3>. QED
      BY <1>9, <3>1, <3>2 DEF Merge
  <2>2. /\ UNCHANGED <<args, verdict>> /\ Decide(live, {}, {})
        /\ ContinueWith({}, "lane")
    BY <1>9 DEF Merge, MergeAppendOnly, CommitSingleWriter, MergeUnchecked,
                MergeCompatible, CommitLive
  <2>3. \A n \in live : Ruling(n) = "commit"
    BY <1>7, <2>1
  <2>4. Ruled'
    BY <1>0, <2>2, <2>3, RuledGoesOn
  <2>5. GroupsAreWhole' /\ LeftOfGroup'
    BY <1>0, <2>2, GroupsStayWhole
  <2>. QED
    BY <2>4, <2>5
<1>10. CASE Account
  <2>1. /\ UNCHANGED <<args, verdict, live, outcome>> /\ live = {}
    BY <1>10 DEF Account
  <2>2. \A n : Key(n)' = Key(n) /\ Ruling(n)' = Ruling(n)
    BY <2>1, RulingStands DEF Key, args
  <2>. QED
    BY <2>1, <2>2 DEF Ruled, GroupsAreWhole, LeftOfGroup, Pending, args
<1>11. CASE UNCHANGED vars
  <2>1. UNCHANGED <<args, verdict, live, outcome, stage>>
    BY <1>11 DEF vars, args
  <2>2. \A n : /\ Key(n)' = Key(n) /\ Ruling(n)' = Ruling(n)
              /\ GroupOf(n)' = GroupOf(n)
    BY <2>1, RulingStands DEF Key, args
  <2>3. \A S : /\ FlaggedIn(S)' = FlaggedIn(S)
               /\ Survivors(S)' = Survivors(S)
               /\ AuthorityContested(S)' = AuthorityContested(S)
               /\ GroupHeld(S)' = GroupHeld(S)
    BY <2>1, LanesStand
  <2>. QED
    BY <2>1, <2>2, <2>3
       DEF Ruled, GroupsAreWhole, LeftOfGroup, Pending, args
<1>. QED
  BY <1>1, <1>2, <1>4, <1>5, <1>6, <1>8, <1>9, <1>10, <1>11 DEF Next, Merge

LEMMA RuleInvariant == Spec => [](IInv /\ RInv)
<1>1. Init => IInv /\ RInv
  BY RoutingInit, RuleStarted DEF Init
<1>2. IInv /\ RInv /\ [Next]_vars => IInv' /\ RInv'
  BY RoutingNext, RuleNext
<1>. QED
  BY <1>1, <1>2, PTL DEF Spec

\* Every intent is routed by the rule: what becomes of it depends on its whole
\* group, the verdicts and the mode, not on the lanes that came to it first.
THEOREM RoutedByRule == Spec => []Ruled
<1>1. RInv => Ruled
  BY DEF RInv
<1>. QED
  BY <1>1, RuleInvariant, PTL

-----------------------------------------------------------------------------
(* What follows from the rule. *)

\* When one intent of a group has committed, all of them have been decided.
LEMMA CommitSettles ==
    ASSUME IInv, RInv, NEW n \in Committed
    PROVE  /\ n \in DOMAIN input /\ n \in GroupOf(n)
           /\ n \in Commits(GroupOf(n))
           /\ \A m \in GroupOf(n) : /\ GroupOf(m) = GroupOf(n)
                                    /\ outcome[m] = Ruling(m)
<1>. USE DEF IInv, RInv
<1>1. /\ n \in DOMAIN input /\ n \in GroupOf(n) /\ n \notin Pending
      /\ DOMAIN outcome = DOMAIN input
  BY DEF Committed, TypeOK, GroupOf, Pending
<1>2. Ruling(n) = "commit" /\ n \in Commits(GroupOf(n))
  BY DEF Ruled, Committed, Ruling
<1>3. \A m \in GroupOf(n) : GroupOf(m) = GroupOf(n) /\ m \in DOMAIN input
  BY DEF GroupOf
<1>4. ASSUME NEW m \in GroupOf(n), m \in Pending PROVE FALSE
  <2>1. m \in live
    BY <1>1, <1>3, <1>4 DEF GroupsAreWhole, GroupOf
  <2>2. n \notin live
    BY <1>1 DEF GroupInProgress
  <2>3. CASE stage = "lane"
    BY <1>1, <1>3, <2>1, <2>2, <2>3 DEF LeftOfGroup
  <2>4. CASE stage \in {"readset", "merge"}
    <3>1. /\ ~AuthorityContested(GroupOf(n)) /\ ~GroupHeld(GroupOf(n))
          /\ n \notin Survivors(GroupOf(n))
      BY <1>1, <1>3, <2>1, <2>2, <2>4 DEF LeftOfGroup, Survivors
    <3>. QED
      BY <1>2, <3>1 DEF Commits
  <2>. QED
    BY <2>1, <2>3, <2>4 DEF LeftOfGroup
<1>. QED
  BY <1>1, <1>2, <1>3, <1>4 DEF Ruled, Pending

LEMMA RankIsNumber == \A n : Rank(n) \in Nat /\ Rank(n) <= 50
BY DEF Rank, AuthorityRank, RankOf, AUTHORITY_RANK

\* A group that a retraction contests is settled by it.
LEMMA WonByRank ==
    ASSUME IInv, RInv, NEW n \in Committed, AuthorityContested(GroupOf(n))
    PROVE  \A m \in HighAuthority(GroupOf(n)) : WonByAuthority(m)
<1>. DEFINE G == GroupOf(n)
<1>1. PICK k \in G : k \notin HighAuthority(G)
  BY DEF AuthorityContested, HighAuthority
<1>2. GroupOf(k) = G /\ outcome[k] = "review"
  BY <1>1, CommitSettles, GroupLanes
<1>3. \A m \in HighAuthority(G) :
         /\ m \in G /\ GroupOf(m) = G /\ m # k
         /\ AuthorityInterrupt(input[m], mode) /\ Rank(k) <= Rank(m)
  BY <1>1, CommitSettles DEF HighAuthority
<1>. QED
  BY <1>1, <1>2, <1>3 DEF WonByAuthority

\* Two members make a set of more than one.
LEMMA PairIsMany ==
    ASSUME input \in Seq(IntentPool), NEW S \in SUBSET DOMAIN input,
           NEW m \in S, NEW n \in S, m # n
    PROVE  Cardinality(S) > 1
<1>1. IsFiniteSet(S) /\ Cardinality(S) \in Nat
  BY BatchIsFinite
<1>2. Cardinality(S) # 0
  BY <1>1, FS_EmptySet
<1>3. Cardinality(S) # 1
  BY <1>1, FS_Singleton
<1>. QED
  BY <1>1, <1>2, <1>3

LEMMA NoSilentWinnerFollows == IInv /\ RInv => NoSilentWinner
<1>1. IInv /\ RInv => NoSilentWinner
  <2>. SUFFICES ASSUME IInv, RInv,
                       NEW n \in Committed, NEW m \in GroupOf(n) \ {n},
                       ~CompatiblePair(input[m], input[n])
                PROVE
      \/ /\ outcome[m] # "commit"
         /\ WonByAuthority(n) \/ Flagged(verdict[m]) \/ StaleReaders({m}) # {}
      \/ {Lane(m), Lane(n)} = {"append_only_causal"}
      \/ mode = "adaptive_no_semantic_conflict_detection"
      \/ /\ WonByAuthority(m) /\ WonByAuthority(n) /\ Rank(m) = Rank(n)
    BY DEF NoSilentWinner
  <2>. DEFINE G == GroupOf(n)
  <2>1. /\ n \in Commits(G) /\ n \in G /\ G \subseteq DOMAIN input
        /\ outcome[m] = Ruling(m) /\ GroupOf(m) = G
    BY CommitSettles DEF GroupOf
  <2>2. CASE AuthorityContested(G)
    <3>1. n \in HighAuthority(G) /\ WonByAuthority(n)
      BY <2>1, <2>2, WonByRank DEF Commits
    <3>2. CASE m \in HighAuthority(G)
      <4>1. Rank(m) <= Rank(n) /\ Rank(n) <= Rank(m)
        BY <3>1, <3>2, <2>1 DEF HighAuthority
      <4>2. Rank(m) = Rank(n)
        BY <4>1, RankIsNumber
      <4>. QED
        BY <2>2, <3>1, <3>2, <4>2, WonByRank
    <3>3. CASE m \notin HighAuthority(G)
      BY <2>1, <2>2, <3>1, <3>3, GroupLanes
    <3>. QED
      BY <3>2, <3>3
  <2>3. CASE ~AuthorityContested(G)
    <3>1. /\ n \in Survivors(G) /\ ~Conflicting(Survivors(G))
      BY <2>1, <2>3 DEF Commits
    <3>2. CASE m \notin Survivors(G)
      <4>1. Flagged(verdict[m]) \/ StaleReaders({m}) # {}
        BY <3>2 DEF Survivors, FlaggedIn, StaleReaders
      <4>2. outcome[m] # "commit"
        BY <2>1, <2>3, <3>2 DEF Ruling, Commits
      <4>. QED
        BY <4>1, <4>2
    <3>3. CASE m \in Survivors(G)
      <4>1. Cardinality(Survivors(G)) > 1
        BY <2>1, <3>1, <3>3, PairIsMany DEF Survivors, IInv, TypeOK
      <4>2. SemanticConflict(Survivors(G))
        BY <3>1, <3>3 DEF SemanticConflict
      <4>3. AllAppendOnly(Survivors(G)) \/ MergesUnchecked(Survivors(G))
        BY <3>1, <4>1, <4>2 DEF Conflicting
      <4>. QED
        BY <3>1, <3>3, <4>3 DEF AllAppendOnly, MergesUnchecked
    <3>. QED
      BY <3>2, <3>3
  <2>. QED
    BY <2>2, <2>3
<1>. QED
  BY <1>1

\* Two incompatible writes of a group are never settled by silently picking
\* one: if one commits, the other was held on its own account or outranked.
THEOREM NoWinnerIsPicked == Spec => []NoSilentWinner
BY NoSilentWinnerFollows, RuleInvariant, PTL

LEMMA FileWritesAreExclusiveFollows == IInv /\ RInv => FileWritesAreExclusive
<1>1. IInv /\ RInv => FileWritesAreExclusive
  <2>. SUFFICES ASSUME IInv, RInv, NEW m \in Committed, NEW n \in Committed,
                       m # n, {Lane(m), Lane(n)} = {"pessimistic_lock"},
                       LockScope(input[m]) = LockScope(input[n])
                PROVE  FALSE
    BY DEF FileWritesAreExclusive
  <2>. DEFINE G == GroupOf(n)
  <2>1. Lane(m) = "pessimistic_lock" /\ Lane(n) = "pessimistic_lock"
    OBVIOUS
  <2>2. mode # "uniform_append_only"
    BY <2>1 DEF Lane, Isolation, UniformIsolation
  <2>3. Key(m) = Key(n)
    BY <2>1, <2>2 DEF Key, GroupKey, Lane
  <2>4. /\ m \in G /\ n \in G /\ n \in Commits(G) /\ G \subseteq DOMAIN input
    BY <2>3, CommitSettles DEF GroupOf
  <2>5. LockContended(G)
    BY <2>1, <2>4, PairIsMany DEF LockContended, IInv, TypeOK
  <2>6. ~AuthorityInterrupt(input[n], mode)
    BY <2>1 DEF AuthorityInterrupt, Lane
  <2>. QED
    BY <2>4, <2>5, <2>6 DEF Commits, HighAuthority, GroupHeld
<1>. QED
  BY <1>1

\* In the modes that lock the workspace, two writes of one file, however each
\* names it, are never both committed.
THEOREM FileLocksExclude == Spec => []FileWritesAreExclusive
BY FileWritesAreExclusiveFollows, RuleInvariant, PTL

\* Some member of a group has the highest rank in it.
LEMMA StrongestMember ==
    ASSUME NEW S, S # {}
    PROVE  \E x \in S : \A k \in S : Rank(k) <= Rank(x)
<1>. DEFINE gaps == {50 - Rank(k) : k \in S}
<1>1. gaps \subseteq Nat /\ gaps # {}
  BY RankIsNumber
<1>2. PICK g \in gaps : \A h \in gaps : ~(<<h, g>> \in OpToRel(<, Nat))
  BY <1>1, NatLessThanWellFounded, WFMin
<1>3. \A h \in gaps : ~(h < g)
  BY <1>1, <1>2 DEF OpToRel
<1>4. PICK x \in S : g = 50 - Rank(x)
  OBVIOUS
<1>5. \A k \in S : ~(50 - Rank(k) < 50 - Rank(x))
  BY <1>3, <1>4
<1>. QED
  BY <1>5, RankIsNumber

LEMMA NoOverrideOfAuthorityFollows == IInv /\ RInv => NoOverrideOfAuthority
<1>1. IInv /\ RInv => NoOverrideOfAuthority
  <2>. SUFFICES ASSUME IInv, RInv,
                       NEW n \in Committed, NEW m \in GroupOf(n),
                       AuthorityInterrupt(input[m], mode), Rank(n) < Rank(m),
                       \A k \in GroupOf(n) : Rank(k) > Rank(m) =>
                           AuthorityInterrupt(input[k], mode)
                PROVE  FALSE
    BY DEF NoOverrideOfAuthority
  <2>. DEFINE G == GroupOf(n)
  <2>1. n \in G /\ n \in Commits(G)
    BY CommitSettles
  <2>2. PICK x \in G : \A k \in G : Rank(k) <= Rank(x)
    BY StrongestMember
  <2>3. Rank(m) <= Rank(x)
    BY <2>2
  <2>4. CASE Rank(m) = Rank(x)
    BY <2>1, <2>2, <2>4, RankIsNumber
       DEF Commits, AuthorityContested, HighAuthority
  <2>5. CASE Rank(m) < Rank(x)
    <3>1. x \in HighAuthority(G)
      BY <2>2, <2>5 DEF HighAuthority
    <3>2. n \notin HighAuthority(G)
      BY RankIsNumber DEF HighAuthority
    <3>. QED
      BY <2>1, <3>1, <3>2 DEF Commits, AuthorityContested
  <2>. QED
    BY <2>3, <2>4, <2>5, RankIsNumber
<1>. QED
  BY <1>1

\* A write never commits over a retraction of its group that outranks it and
\* may interrupt, unless something stronger still kept it from interrupting.
THEOREM AuthorityPrevails == Spec => []NoOverrideOfAuthority
BY NoOverrideOfAuthorityFollows, RuleInvariant, PTL

-----------------------------------------------------------------------------
(* Stale reads. *)

\* What verification calls stale is a stale read of the certificate's own
\* dependencies, in every mode that verifies.
LEMMA StaleVerdict ==
    ASSUME NEW all, NEW me, NEW m, NEW sc, CertificateMode(m) # "disabled"
    PROVE  Verdict(all, me, m, sc).stale
             = StaleRead(all, me, CertificateMode(m), sc)
<1>. DEFINE v == VerifyCertificate(all, me, CertificateMode(m), sc)
<1>1. v.stale = ("stale_read_dependency" \in
                    Events(all, me, CertificateMode(m), sc))
  BY DEF VerifyCertificate
<1>2. ("stale_read_dependency" \in Events(all, me, CertificateMode(m), sc))
        = StaleRead(all, me, CertificateMode(m), sc)
  <2>1. ASSUME StaleRead(all, me, CertificateMode(m), sc)
        PROVE  "stale_read_dependency" \in Events(all, me, CertificateMode(m), sc)
    BY <2>1 DEF Events, Findings
  <2>2. ASSUME ~StaleRead(all, me, CertificateMode(m), sc)
        PROVE  "stale_read_dependency" \notin Events(all, me, CertificateMode(m), sc)
    BY <2>2 DEF Events, Findings
  <2>3. StaleRead(all, me, CertificateMode(m), sc) \in BOOLEAN
    BY DEF StaleRead
  <2>. QED
    BY <2>1, <2>2, <2>3
<1>3. IgnoreStaleReads(v).stale = v.stale
  BY DEF IgnoreStaleReads, VerifyCertificate
<1>. QED
  BY <1>1, <1>2, <1>3 DEF Verdict

\* A stale read holds the intent, unless the mode or the scenario ignores it.
LEMMA StaleReadIsFlagged ==
    ASSUME NEW all, NEW me, NEW m, NEW sc, CertificateMode(m) # "disabled",
           m # "adaptive_wccu_no_read_validation", "O-FRESH" \notin sc.disabled,
           StaleRead(all, me, CertificateMode(m), sc)
    PROVE  Flagged(Verdict(all, me, m, sc))
<1>. DEFINE kind == "stale_read_dependency"
            v    == VerifyCertificate(all, me, CertificateMode(m), sc)
<1>1. kind \in Events(all, me, CertificateMode(m), sc)
  BY DEF Events, Findings
<1>2. /\ OBLIGATION_BY_EVENT_KIND[kind] \notin sc.disabled
      /\ kind \in ErrorKinds
  BY DEF OBLIGATION_BY_EVENT_KIND, ErrorKinds
<1>3. kind \in v.errors
  BY <1>1, <1>2 DEF VerifyCertificate
<1>. QED
  BY <1>3 DEF Verdict, Flagged

LEMMA CorrectionMayReadItsTargetFollows == IInv /\ VerdictsStand => CorrectionMayReadItsTarget
<1>1. IInv /\ VerdictsStand => CorrectionMayReadItsTarget
  <2>. SUFFICES ASSUME IInv, VerdictsStand, stage # "collect",
                       NEW n \in DOMAIN input,
                       IsAuthorityRetraction(input[n]),
                       WrittenBeside(n, ActualTarget(input[n])),
                       \A m \in DOMAIN input \ {n} :
                           IsStateWrite(input[m]) =>
                               \/ Rank(m) < Rank(n)
                               \/ input[m].target # ActualTarget(input[n]),
                       HasCert(input[n]),
                       \A k \in DOMAIN input[n].cert.deps :
                           input[n].cert.deps[k].target
                             = ActualTarget(input[n]),
                       CertificateMode(mode) = "model_certificate"
                PROVE  ~verdict[n].stale
    BY DEF CorrectionMayReadItsTarget
  <2>. DEFINE t == ActualTarget(input[n])
              deps == ReadDependencies(input[n], "model_certificate", scenario)
  <2>1. \A d \in deps : d.target = t
    BY DEF ReadDependencies
  <2>2. \A m \in MutatorsOf(input, n, t) : Rank(m) < Rank(n)
    BY DEF MutatorsOf
  <2>3. MutatorsOf(input, n, t) # {}
    BY DEF MutatorsOf, WrittenBeside
  <2>4. \A d \in deps : SelfCorrectionRead(input, n, d)
    BY <2>1, <2>2, <2>3 DEF SelfCorrectionRead, Rank
  <2>5. ~StaleRead(input, n, "model_certificate", scenario)
    BY <2>4 DEF StaleRead
  <2>6. verdict[n] = Verdict(input, n, mode, scenario)
    BY DEF VerdictsStand
  <2>. QED
    BY <2>5, <2>6, StaleVerdict
<1>. QED
  BY <1>1

\* A user-level retraction is not held for having read the atom it retracts
\* when only lower authorities write that atom in the batch.
THEOREM CorrectionsMayReadTheirTarget == Spec => []CorrectionMayReadItsTarget
BY CorrectionMayReadItsTargetFollows, RoutingInvariant, VerdictsInvariant, PTL

\* What stays of the trace when it is short enough to be kept whole.
LEMMA ShortTraceIsKept ==
    ASSUME NEW n \in Nat, n <= WITNESS_LIMIT, NEW P \in SUBSET (1..n), NEW s,
           NEW k \in P
    PROVE  s[k] \in Truncated(s, P)
<1>. DEFINE earlier == {j \in P : j < k}
<1>1. k \in 1..n /\ earlier \subseteq 1..(k - 1)
  <2>1. \A j \in P : j \in 1..n
    OBVIOUS
  <2>2. \A j \in P : j < k => j \in 1..(k - 1)
    BY <2>1
  <2>. QED
    BY <2>1, <2>2
<1>2. /\ IsFiniteSet(1..(k - 1)) /\ Cardinality(1..(k - 1)) = k - 1
  BY <1>1, FS_Interval
<1>3. /\ Cardinality(earlier) <= k - 1 /\ Cardinality(earlier) \in Nat
  BY <1>1, <1>2, FS_Subset, FS_CardinalityType
<1>4. Cardinality(earlier) < WITNESS_LIMIT
  BY <1>1, <1>3, LimitAssumption
<1>. QED
  BY <1>4 DEF Truncated

\* Of the reads of one target there is a last.
LEMMA LastReadStands ==
    ASSUME NEW n \in Nat, NEW reads, DOMAIN reads = 1..n, NEW k \in 1..n
    PROVE  LastRead(reads, reads[k].target).target = reads[k].target
<1>. DEFINE t == reads[k].target
            J == {n - j : j \in {i \in 1..n : reads[i].target = t}}
            IsLast(i) == /\ reads[i].target = t
                         /\ \A j \in 1..n : j > i => reads[j].target # t
<1>1. J \in SUBSET Nat /\ J # {}
  <2>1. \A j \in 1..n : n - j \in Nat
    OBVIOUS
  <2>2. n - k \in J
    OBVIOUS
  <2>. QED
    BY <2>1, <2>2
<1>2. PICK m \in J : \A j \in J : ~(<<j, m>> \in OpToRel(<, Nat))
  BY <1>1, NatLessThanWellFounded, WFMin
<1>3. PICK l \in 1..n : m = n - l /\ reads[l].target = t
  BY <1>2
<1>4. ASSUME NEW j \in 1..n, j > l, reads[j].target = t
      PROVE  FALSE
  <2>1. n - j \in J /\ n - j < m /\ n - j \in Nat /\ m \in Nat
    BY <1>3, <1>4
  <2>. QED
    BY <1>2, <2>1 DEF OpToRel
<1>5. IsLast(l)
  BY <1>3, <1>4
<1>. DEFINE c == CHOOSE i \in DOMAIN reads :
                    /\ reads[i].target = t
                    /\ \A j \in DOMAIN reads : j > i => reads[j].target # t
<1>6. reads[c].target = t
  BY <1>3, <1>5
<1>. QED
  BY <1>6 DEF LastRead

\* Of the reads of one target there is a first.
LEMMA FirstReadStands ==
    ASSUME NEW n \in Nat, NEW reads, DOMAIN reads = 1..n, NEW k \in 1..n
    PROVE  reads[k].target # "" =>
               \E f \in FirstReads(reads) : reads[f].target = reads[k].target
<1>. DEFINE I == {i \in 1..n : reads[i].target = reads[k].target}
<1>1. I \in SUBSET Nat /\ I # {}
  <2>1. k \in I /\ \A i \in 1..n : i \in Nat
    OBVIOUS
  <2>. QED
    BY <2>1
<1>2. PICK f \in I : \A i \in I : ~(<<i, f>> \in OpToRel(<, Nat))
  BY <1>1, NatLessThanWellFounded, WFMin
<1>3. ASSUME NEW j \in 1..(f - 1)
      PROVE  reads[j].target # reads[f].target
  <2>1. j \in 1..n /\ j < f /\ j \in Nat /\ f \in Nat
    OBVIOUS
  <2>2. j \notin I
    BY <1>2, <2>1 DEF OpToRel
  <2>. QED
    BY <2>1, <2>2
<1>4. f \in DOMAIN reads /\ reads[f].target = reads[k].target
  OBVIOUS
<1>. QED
  BY <1>3, <1>4 DEF FirstReads

\* A committed intent that did not interrupt a rival was left standing by the
\* verification and by read-set validation.
LEMMA CommittedSurvived ==
    ASSUME IInv, RInv, NEW n \in Committed, ~WonByAuthority(n)
    PROVE  n \in Survivors(GroupOf(n))
<1>1. n \in Commits(GroupOf(n))
  BY CommitSettles
<1>2. ~AuthorityContested(GroupOf(n))
  BY <1>1, WonByRank DEF Commits
<1>. QED
  BY <1>1, <1>2 DEF Commits

\* A target another intent writes, under another id, has a mutator.
LEMMA WriterMutates ==
    ASSUME NEW n, NEW t, WrittenBeside(n, t)
    PROVE  MutatorsOf(input, n, t) # {}
BY DEF WrittenBeside, MutatorsOf

LEMMA NoCommitOnStaleReadFollows == IInv /\ RInv /\ VerdictsStand => NoCommitOnStaleRead
<1>1. IInv /\ RInv /\ VerdictsStand => NoCommitOnStaleRead
  <2>. SUFFICES ASSUME IInv, RInv, VerdictsStand,
                       NEW n \in Committed, ~WonByAuthority(n),
                       NEW k \in DOMAIN input[n].reads, NEW d,
                       d = LastRead(input[n].reads, input[n].reads[k].target)
                PROVE
      /\ mode = "adaptive_readset_occ" => ~WrittenBeside(n, d.target)
      /\ /\ mode = "adaptive_wccu_execution_trace"
         /\ Len(input[n].reads) <= WITNESS_LIMIT
         /\ "O-FRESH" \notin scenario.disabled
         /\ d.fresh /\ d.target \notin {"", ActualTarget(input[n])}
         => \A t \in {d.target} \cup DerivedSources(scenario, d.target) :
               ~WrittenBeside(n, t)
    BY DEF NoCommitOnStaleRead
  <2>. DEFINE reads == input[n].reads
  <2>1. n \in Survivors(GroupOf(n)) /\ n \in GroupOf(n) /\ n \in DOMAIN input
    BY CommittedSurvived, CommitSettles
  <2>4. DOMAIN reads = 1..Len(reads) /\ Len(reads) \in Nat
    <3>1. input[n] \in IntentPool
      BY <2>1 DEF IInv, TypeOK
    <3>. QED
      BY <3>1, ReadsAssumption
  <2>5. d.target = reads[k].target
    BY <2>4, LastReadStands
  <2>2. ASSUME mode = "adaptive_readset_occ" PROVE ~WrittenBeside(n, d.target)
    <3>1. ~ReadsetStale(input, n)
      BY <2>1, <2>2 DEF Survivors, StaleReaders
    <3>. QED
      BY <2>5, <3>1, WriterMutates DEF ReadsetStale
  <2>3. ASSUME mode = "adaptive_wccu_execution_trace",
               Len(input[n].reads) <= WITNESS_LIMIT,
               "O-FRESH" \notin scenario.disabled,
               d.fresh, d.target \notin {"", ActualTarget(input[n])},
               NEW t \in {d.target} \cup DerivedSources(scenario, d.target),
               WrittenBeside(n, t)
        PROVE  FALSE
    <3>1. CertificateMode(mode) = "execution_trace"
      BY <2>3 DEF CertificateMode
    <3>2. d \in ReadDependencies(input[n], "execution_trace", scenario)
      <4>1. PICK f \in FirstReads(reads) : reads[f].target = d.target
        <5>1. k \in 1..Len(reads)
          BY <2>4
        <5>2. reads[k].target # ""
          BY <2>3, <2>5
        <5>. HIDE DEF reads
        <5>3. \E f \in FirstReads(reads) : reads[f].target = reads[k].target
          BY <2>4, <5>1, <5>2, FirstReadStands
        <5>. QED
          BY <2>5, <5>3
      <4>2. f \in DOMAIN reads /\ LatestReads(reads)[f] = d
        BY <2>5, <4>1 DEF FirstReads, LatestReads
      <4>3. f \in WitnessReads(input[n])
        BY <2>3, <4>1 DEF WitnessReads
      <4>4. WitnessReads(input[n]) \in SUBSET (1..Len(reads))
        BY <2>4 DEF WitnessReads, FirstReads
      <4>5. d \in Truncated(LatestReads(reads), WitnessReads(input[n]))
        <5>. DEFINE N == Len(reads)
                    W == WitnessReads(input[n])
                    L == LatestReads(reads)
        <5>1. /\ N \in Nat /\ N <= WITNESS_LIMIT
              /\ W \in SUBSET (1..N) /\ f \in W
          BY <2>3, <2>4, <4>3, <4>4
        <5>. HIDE DEF N, W, L
        <5>2. L[f] \in Truncated(L, W)
          BY <5>1, ShortTraceIsKept
        <5>. QED
          BY <4>2, <5>2 DEF L, W
      <4>. QED
        BY <4>3, <4>5 DEF ReadDependencies, TraceDeps
    <3>3. ~SelfCorrectionRead(input, n, d)
      BY <2>3 DEF SelfCorrectionRead
    <3>4. DependencyStale(input, n, d, scenario)
      BY <2>3, WriterMutates DEF DependencyStale
    <3>5. StaleRead(input, n, "execution_trace", scenario)
      BY <2>3, <3>2, <3>3, <3>4 DEF StaleRead
    <3>6. Flagged(verdict[n])
      <4>1. /\ CertificateMode(mode) # "disabled"
            /\ mode # "adaptive_wccu_no_read_validation"
            /\ StaleRead(input, n, CertificateMode(mode), scenario)
        BY <2>3, <3>1, <3>5
      <4>2. Flagged(Verdict(input, n, mode, scenario))
        BY <2>3, <4>1, StaleReadIsFlagged
      <4>. QED
        BY <2>1, <4>2 DEF VerdictsStand, Committed
    <3>. QED
      BY <2>1, <3>6 DEF Survivors, FlaggedIn
  <2>. QED
    BY <2>2, <2>3
<1>. QED
  BY <1>1

\* No intent commits on a logged read that another intent of the batch makes
\* stale, in read-set OCC and with certificates built from the trace.
THEOREM StaleReadsDoNotCommit == Spec => []NoCommitOnStaleRead
BY NoCommitOnStaleReadFollows, RuleInvariant, VerdictsInvariant, PTL

-----------------------------------------------------------------------------
(* The counters of the merge stage.  Every lane adds to them on its own;   *)
(* at every moment they are the sizes of sets of intents that can be read  *)
(* off the routing, and so they are at the end.                            *)

\* Stale readers of the current group that are counted as stale, and not yet
\* taken out.
StaleToRoute == IF stage = "readset" THEN StaleReaders(live) ELSE {}

Detected == {n \in Committed : verdict[n].stale}
DeclaredStale == {n \in Committed : OracleStale(input, n, scenario)}

\* What the counters stand at while groups are resolved.
Tallied ==
    /\ metrics["review"]  = Cardinality(With("review"))
    /\ metrics["blocked"] = Cardinality(With("blocked"))
    /\ metrics["routed"]  = Cardinality(FlaggedIn(With("review")))
    /\ metrics["readsetReview"] + Cardinality(StaleToRoute)
         <= metrics["readsetStale"]

\* What the last step of the call adds.
Closed ==
    stage = "done" =>
        /\ Pending = {}
        /\ Cardinality(Detected) <= metrics["staleAccepted"]
        /\ Cardinality(DeclaredStale) <= metrics["staleAccepted"]
        /\ metrics["staleAccepted"] <= metrics["unsafe"]

CInv == Tallied /\ Closed

-----------------------------------------------------------------------------
(* Counting a batch. *)

LEMMA IntentsAdd ==
    ASSUME input \in Seq(IntentPool),
           NEW A \in SUBSET DOMAIN input, NEW B \in SUBSET DOMAIN input,
           A \cap B = {}
    PROVE  Cardinality(A \cup B) = Cardinality(A) + Cardinality(B)
<1>1. /\ IsFiniteSet(A) /\ Cardinality(A) \in Nat
      /\ IsFiniteSet(B) /\ Cardinality(B) \in Nat
  BY BatchIsFinite
<1>2. Cardinality(A \cap B) = 0
  BY FS_EmptySet
<1>3. Cardinality(A \cup B)
        = Cardinality(A) + Cardinality(B) - Cardinality(A \cap B)
  BY <1>1, FS_Union
<1>. QED
  BY <1>1, <1>2, <1>3

LEMMA PartIsSmaller ==
    ASSUME input \in Seq(IntentPool),
           NEW B \in SUBSET DOMAIN input, NEW A \in SUBSET B
    PROVE  Cardinality(A) <= Cardinality(B)
<1>1. IsFiniteSet(B)
  BY BatchIsFinite
<1>. QED
  BY <1>1, FS_Subset

\* What one decision adds to the sets behind the counters.
LEMMA DecisionAdds ==
    ASSUME TypeOK, live \subseteq Pending, UNCHANGED <<args, verdict>>,
           NEW commit \in SUBSET live, NEW review \in SUBSET live,
           NEW blocked \in SUBSET live, Decide(commit, review, blocked),
           commit \cap review = {}, blocked \cap (commit \cup review) = {}
    PROVE  /\ Cardinality(With("review"))'
                = Cardinality(With("review")) + Cardinality(review)
           /\ Cardinality(With("blocked"))'
                = Cardinality(With("blocked")) + Cardinality(blocked)
           /\ Cardinality(FlaggedIn(With("review")))'
                = Cardinality(FlaggedIn(With("review")))
                    + Cardinality(FlaggedIn(review))
<1>1. DOMAIN outcome' = DOMAIN outcome /\ DOMAIN outcome = DOMAIN input
  BY DEF Decide, TypeOK
<1>2. /\ With("review")' = With("review") \cup review
      /\ With("review") \cap review = {}
  BY <1>1 DEF With, Decide, Pending
<1>3. /\ With("blocked")' = With("blocked") \cup blocked
      /\ With("blocked") \cap blocked = {}
  BY <1>1 DEF With, Decide, Pending
<1>4. /\ FlaggedIn(With("review"))'
           = FlaggedIn(With("review")) \cup FlaggedIn(review)
      /\ FlaggedIn(With("review")) \cap FlaggedIn(review) = {}
  BY <1>2 DEF FlaggedIn
<1>5. /\ With("review") \subseteq DOMAIN input /\ review \subseteq DOMAIN input
      /\ With("blocked") \subseteq DOMAIN input /\ blocked \subseteq DOMAIN input
      /\ FlaggedIn(With("review")) \subseteq DOMAIN input
      /\ FlaggedIn(review) \subseteq DOMAIN input
  BY <1>1 DEF With, FlaggedIn, TypeOK
<1>. QED
  BY <1>2, <1>3, <1>4, <1>5, IntentsAdd DEF TypeOK

LEMMA EnteredCounts ==
    ASSUME TypeOK
    PROVE  /\ Entered \in [MetricNames -> Nat]
           /\ \A f \in {"review", "blocked", "routed", "readsetReview"} :
                 Entered[f] = metrics[f]
           /\ Entered["readsetStale"]
                = metrics["readsetStale"] + Cardinality(StaleReaders(live))
<1>1. metrics \in [MetricNames -> Nat] /\ Entered \in [MetricNames -> Nat]
  BY EnteredType DEF TypeOK
<1>. QED
  BY <1>1 DEF Entered, MetricNames

-----------------------------------------------------------------------------
(* The counters are kept step by step. *)

LEMMA CountersStarted == Started => CInv
<1>. SUFFICES ASSUME Started PROVE CInv
  OBVIOUS
<1>1. With("review") = {} /\ With("blocked") = {} /\ StaleToRoute = {}
  BY DEF Started, With, StaleToRoute
<1>2. FlaggedIn(With("review")) = {} /\ Cardinality({}) = 0
  BY <1>1, FS_EmptySet DEF FlaggedIn
<1>3. metrics = [f \in MetricNames |-> 0] /\ stage # "done"
  BY DEF Started
<1>. QED
  BY <1>1, <1>2, <1>3 DEF CInv, Tallied, Closed, MetricNames

\* A decision after which the counters are what it adds to them.
LEMMA CountingGoesOn ==
    ASSUME IInv, TypeOK', CInv, UNCHANGED <<args, verdict>>,
           stage' \in {"lane", "readset", "merge"},
           NEW commit \in SUBSET live, NEW review \in SUBSET live,
           NEW blocked \in SUBSET live, Decide(commit, review, blocked),
           commit \cap review = {}, blocked \cap (commit \cup review) = {},
           metrics'["review"] = metrics["review"] + Cardinality(review),
           metrics'["blocked"] = metrics["blocked"] + Cardinality(blocked),
           metrics'["routed"]
             = metrics["routed"] + Cardinality(FlaggedIn(review)),
           metrics'["readsetReview"] + Cardinality(StaleToRoute')
             <= metrics'["readsetStale"]
    PROVE  CInv'
<1>1. live \subseteq Pending
  BY DEF IInv, GroupInProgress
<1>2. Tallied'
  BY <1>1, DecisionAdds DEF CInv, Tallied, IInv
<1>3. Closed'
  BY DEF Closed
<1>. QED
  BY <1>2, <1>3 DEF CInv

\* Nothing is pending when no group is left.
LEMMA NoGroupNothingPending ==
    ASSUME TypeOK, NextGroup(outcome) = {}
    PROVE  Pending = {}
<1>. SUFFICES ASSUME Pending # {} PROVE FALSE
  OBVIOUS
<1>1. PICK f \in Pending : \A k \in Pending : f <= k
  BY FirstMember DEF TypeOK, Pending
<1>2. \A m \in Pending : (\A k \in Pending : m <= k) => m = f
  BY <1>1 DEF Pending, TypeOK
<1>3. f \in NextGroup(outcome)
  BY <1>1, <1>2 DEF NextGroup, Pending
<1>. QED
  BY <1>3

LEMMA CounterNext == IInv /\ CInv /\ [Next]_vars => CInv'
<1>. SUFFICES ASSUME IInv, CInv, [Next]_vars PROVE CInv'
  OBVIOUS
<1>. USE DEF args
<1>0. /\ TypeOK /\ TypeOK' /\ IInv'
      /\ metrics \in [MetricNames -> Nat]
      /\ live \in SUBSET DOMAIN input /\ input \in Seq(IntentPool)
      /\ Cardinality({}) = 0
  BY RoutingNext, FS_EmptySet DEF IInv, TypeOK
<1>1. /\ metrics["readsetReview"] \in Nat /\ metrics["readsetStale"] \in Nat
      /\ metrics["readsetReview"] + Cardinality(StaleToRoute)
           <= metrics["readsetStale"]
      /\ Cardinality(StaleToRoute) \in Nat
  <2>1. StaleToRoute \in SUBSET DOMAIN input
    BY <1>0 DEF StaleToRoute, StaleReaders
  <2>. QED
    BY <1>0, <2>1, BatchIsFinite DEF CInv, Tallied, MetricNames
<1>2. /\ Cardinality(StaleReaders(live)) \in Nat
      /\ \A S \in SUBSET live :
            Cardinality(StaleReaders(S)) <= Cardinality(StaleReaders(live))
  <2>1. StaleReaders(live) \in SUBSET DOMAIN input
    BY <1>0 DEF StaleReaders
  <2>2. \A S \in SUBSET live : StaleReaders(S) \in SUBSET StaleReaders(live)
    BY DEF StaleReaders
  <2>. QED
    BY <1>0, <2>1, <2>2, BatchIsFinite, PartIsSmaller
<1>3. CASE Verify
  <2>1. /\ UNCHANGED <<args, outcome, metrics>> /\ stage' = "lane"
        /\ stage = "collect"
    BY <1>3 DEF Verify
  <2>2. With("review") = {} /\ With("blocked") = {}
    BY <2>1 DEF IInv, GroupInProgress, Pending, With
  <2>3. /\ With("review")' = {} /\ With("blocked")' = {}
        /\ StaleToRoute' = {} /\ StaleToRoute = {}
    BY <2>1, <2>2 DEF With, StaleToRoute
  <2>4. FlaggedIn(With("review")) = {} /\ FlaggedIn(With("review"))' = {}
    BY <2>2, <2>3 DEF FlaggedIn
  <2>. QED
    BY <2>1, <2>2, <2>3, <2>4 DEF CInv, Tallied, Closed
<1>4. ASSUME NEW rest, NEW next \in {"readset", "merge"}, ContinueWith(rest, next)
      PROVE  stage' \in {"lane", "readset", "merge"}
  BY <1>4 DEF ContinueWith
<1>5. ASSUME ContinueWith({}, "lane")
      PROVE  stage' = "lane" /\ Cardinality(StaleToRoute') = 0
  BY <1>0, <1>5 DEF ContinueWith, StaleToRoute
<1>6. CASE InterruptByAuthority
  <2>. DEFINE high == HighAuthority(live)
              low  == live \ high
  <2>1. /\ high \in SUBSET live /\ Decide(high, low, {})
        /\ UNCHANGED <<args, verdict>> /\ ContinueWith({}, "lane")
    BY <1>6 DEF InterruptByAuthority, HighAuthority
  <2>2. /\ Cardinality(low) \in Nat /\ Cardinality(FlaggedIn(low)) \in Nat
        /\ low \in SUBSET live /\ high \cap low = {}
    BY <1>0, BatchIsFinite DEF FlaggedIn
  <2>3. metrics' = [Entered EXCEPT
                      !["review"]    = @ + Cardinality(low),
                      !["rebase"]    = @ + Cardinality(low),
                      !["routed"]    = @ + Cardinality(FlaggedIn(low)),
                      !["conflicts"] = @ + 1]
    BY <1>6 DEF InterruptByAuthority
  <2>. HIDE DEF low
  <2>4. /\ metrics'["review"] = metrics["review"] + Cardinality(low)
        /\ metrics'["blocked"] = metrics["blocked"]
        /\ metrics'["routed"] = metrics["routed"] + Cardinality(FlaggedIn(low))
        /\ metrics'["readsetReview"] = metrics["readsetReview"]
        /\ metrics'["readsetStale"]
             = metrics["readsetStale"] + Cardinality(StaleReaders(live))
    BY <1>0, <2>2, <2>3, EnteredCounts DEF MetricNames
  <2>5. metrics'["blocked"] = metrics["blocked"] + Cardinality({})
    BY <1>0, <2>4 DEF MetricNames
  <2>6. metrics'["readsetReview"] + Cardinality(StaleToRoute')
          <= metrics'["readsetStale"]
    BY <1>1, <1>2, <1>5, <2>1, <2>4
  <2>. QED
    BY <1>0, <1>5, <2>1, <2>2, <2>4, <2>5, <2>6, CountingGoesOn
<1>7. CASE GateReview \/ ContendForLock
  <2>1. /\ Decide({}, live, {}) /\ UNCHANGED <<args, verdict>>
        /\ ContinueWith({}, "lane")
    BY <1>7 DEF GateReview, ContendForLock
  <2>2. /\ Cardinality(live) \in Nat /\ Cardinality(FlaggedIn(live)) \in Nat
        /\ One(SemanticConflict(live)) \in Nat
    BY <1>0, BatchIsFinite DEF FlaggedIn, One
  <2>3. /\ metrics'["review"] = metrics["review"] + Cardinality(live)
        /\ metrics'["blocked"] = metrics["blocked"]
        /\ metrics'["routed"] = metrics["routed"] + Cardinality(FlaggedIn(live))
        /\ metrics'["readsetReview"] = metrics["readsetReview"]
        /\ metrics'["readsetStale"]
             = metrics["readsetStale"] + Cardinality(StaleReaders(live))
    <3>1. CASE GateReview
      BY <1>0, <2>2, <3>1, EnteredCounts DEF GateReview, MetricNames
    <3>2. CASE ContendForLock
      BY <1>0, <2>2, <3>2, EnteredCounts DEF ContendForLock, MetricNames
    <3>. QED
      BY <1>7, <3>1, <3>2
  <2>4. metrics'["blocked"] = metrics["blocked"] + Cardinality({})
    BY <1>0, <2>3 DEF MetricNames
  <2>5. metrics'["readsetReview"] + Cardinality(StaleToRoute')
          <= metrics'["readsetStale"]
    BY <1>1, <1>2, <1>5, <2>1, <2>3
  <2>. QED
    BY <1>0, <1>5, <2>1, <2>3, <2>4, <2>5, CountingGoesOn
<1>8. CASE RouteFlagged
  <2>. DEFINE reviewed == FlaggedIn(live) \ BlockedIn(live)
              rest     == live \ FlaggedIn(live)
  <2>1. /\ Decide({}, reviewed, BlockedIn(live)) /\ UNCHANGED <<args, verdict>>
        /\ ContinueWith(rest, "readset")
        /\ reviewed \in SUBSET live /\ BlockedIn(live) \in SUBSET live
        /\ FlaggedIn(reviewed) = reviewed
    BY <1>8 DEF RouteFlagged, FlaggedIn, BlockedIn
  <2>2. /\ Cardinality(reviewed) \in Nat /\ Cardinality(BlockedIn(live)) \in Nat
        /\ One(FlaggedIn(live) # {}) \in Nat
    BY <1>0, <2>1, BatchIsFinite DEF One
  <2>3. metrics' = [Entered EXCEPT
                      !["review"]    = @ + Cardinality(reviewed),
                      !["routed"]    = @ + Cardinality(reviewed),
                      !["blocked"]   = @ + Cardinality(BlockedIn(live)),
                      !["conflicts"] = @ + One(FlaggedIn(live) # {})]
    BY <1>8 DEF RouteFlagged
  <2>4. Cardinality(StaleToRoute') <= Cardinality(StaleReaders(live))
    <3>1. CASE rest = {}
      BY <1>0, <1>2, <2>1, <3>1 DEF ContinueWith, StaleToRoute
    <3>2. CASE rest # {}
      <4>1. StaleToRoute' = StaleReaders(rest)
        BY <2>1, <3>2 DEF ContinueWith, StaleToRoute, StaleReaders
      <4>. QED
        BY <1>2, <4>1
    <3>. QED
      BY <3>1, <3>2
  <2>5. Cardinality(StaleToRoute') \in Nat
    <3>1. StaleToRoute' \in SUBSET DOMAIN input
      BY <1>0, <2>1 DEF StaleToRoute, StaleReaders, TypeOK
    <3>. QED
      BY <1>0, <3>1, BatchIsFinite
  <2>6. stage' \in {"lane", "readset", "merge"}
    BY <1>4, <2>1
  <2>7. /\ {} \cap reviewed = {} /\ BlockedIn(live) \cap ({} \cup reviewed) = {}
    OBVIOUS
  <2>. HIDE DEF reviewed, rest
  <2>8. /\ metrics'["review"] = metrics["review"] + Cardinality(reviewed)
        /\ metrics'["blocked"]
             = metrics["blocked"] + Cardinality(BlockedIn(live))
        /\ metrics'["routed"]
             = metrics["routed"] + Cardinality(FlaggedIn(reviewed))
        /\ metrics'["readsetReview"] = metrics["readsetReview"]
        /\ metrics'["readsetStale"]
             = metrics["readsetStale"] + Cardinality(StaleReaders(live))
    BY <1>0, <2>1, <2>2, <2>3, EnteredCounts DEF MetricNames
  <2>9. metrics'["readsetReview"] + Cardinality(StaleToRoute')
          <= metrics'["readsetStale"]
    BY <1>1, <1>2, <2>4, <2>5, <2>8
  <2>. QED
    BY <1>0, <2>1, <2>6, <2>7, <2>8, <2>9, CountingGoesOn
<1>9. CASE RouteStaleReaders
  <2>. DEFINE stale == StaleReaders(live)
  <2>1. /\ Decide({}, stale, {}) /\ UNCHANGED <<args, verdict>>
        /\ ContinueWith(live \ stale, "merge") /\ stage = "readset"
        /\ stale \in SUBSET live /\ StaleToRoute = stale
        /\ FlaggedIn(stale) = {}
    BY <1>9 DEF RouteStaleReaders, StaleReaders, StaleToRoute, IInv,
                GroupInProgress, FlaggedIn
  <2>2. metrics' = [metrics EXCEPT
                      !["review"]        = @ + Cardinality(stale),
                      !["readsetReview"] = @ + Cardinality(stale)]
    BY <1>9 DEF RouteStaleReaders
  <2>3. /\ stage' \in {"lane", "readset", "merge"}
        /\ StaleToRoute' = {}
    BY <1>4, <2>1 DEF ContinueWith, StaleToRoute
  <2>4. /\ metrics'["review"] = metrics["review"] + Cardinality(stale)
        /\ metrics'["blocked"] = metrics["blocked"] + Cardinality({})
        /\ metrics'["routed"] = metrics["routed"] + Cardinality({})
        /\ metrics'["readsetReview"]
             = metrics["readsetReview"] + Cardinality(stale)
        /\ metrics'["readsetStale"] = metrics["readsetStale"]
    BY <1>0, <1>2, <2>2, SMTT(20) DEF MetricNames
  <2>5. metrics'["readsetReview"] + Cardinality(StaleToRoute')
          <= metrics'["readsetStale"]
    <3>1. /\ Cardinality(stale) = Cardinality(StaleToRoute)
          /\ Cardinality(StaleToRoute') = 0
      BY <1>0, <2>1, <2>3
    <3> QED BY <1>1, <2>4, <3>1, SMTT(20)
  <2>. QED
    BY <1>0, <2>1, <2>3, <2>4, <2>5, CountingGoesOn
<1>10. CASE Merge
  <2>. DEFINE reviewed == IF ReviewConflict THEN live ELSE {}
  <2>1. /\ stage = "merge" /\ UNCHANGED <<args, verdict>>
        /\ ContinueWith({}, "lane") /\ StaleToRoute = {}
        /\ FlaggedIn(live) = {} /\ FlaggedIn({}) = {}
    BY <1>10 DEF Merge, MergeAppendOnly, CommitSingleWriter, MergeUnchecked,
                 MergeCompatible, ReviewConflict, CommitLive, StaleToRoute,
                 IInv, GroupInProgress, FlaggedIn
  <2>2. PICK commit \in SUBSET live, review \in SUBSET live :
           /\ Decide(commit, review, {}) /\ commit \cap review = {}
           /\ metrics'["review"] = metrics["review"] + Cardinality(review)
           /\ \A f \in {"blocked", "routed", "readsetReview", "readsetStale"} :
                 metrics'[f] = metrics[f]
    <3>1. CASE ReviewConflict
      <4>1. Decide({}, live, {})
        BY <3>1 DEF ReviewConflict
      <4>2. /\ metrics'["review"] = metrics["review"] + Cardinality(live)
            /\ \A f \in {"blocked", "routed", "readsetReview", "readsetStale"} :
                  metrics'[f] = metrics[f]
        BY <1>0, <3>1 DEF ReviewConflict, MetricNames
      <4>. QED
        BY <4>1, <4>2
    <3>2. ASSUME NEW unsafe, NEW merges, CommitLive(unsafe, merges)
          PROVE  /\ Decide(live, {}, {})
                 /\ \A f \in {"review", "blocked", "routed", "readsetReview",
                              "readsetStale"} : metrics'[f] = metrics[f]
      BY <1>0, <3>2 DEF CommitLive, MetricNames
    <3>3. CASE ~ReviewConflict
      <4>1. \E unsafe, merges : CommitLive(unsafe, merges)
        BY <1>10, <3>3 DEF Merge, MergeAppendOnly, CommitSingleWriter,
                           MergeUnchecked, MergeCompatible
      <4>2. metrics["review"] = metrics["review"] + Cardinality({})
        BY <1>0 DEF MetricNames
      <4>. QED
        BY <3>2, <4>1, <4>2
    <3>. QED
      BY <3>1, <3>3
  <2>3. FlaggedIn(review) = {}
    BY <2>1 DEF FlaggedIn
  <2>4. /\ metrics'["blocked"] = metrics["blocked"] + Cardinality({})
        /\ metrics'["routed"] = metrics["routed"] + Cardinality({})
    BY <1>0, <2>2 DEF MetricNames
  <2>5. metrics'["readsetReview"] + Cardinality(StaleToRoute')
          <= metrics'["readsetStale"]
    BY <1>0, <1>1, <1>5, <2>1, <2>2
  <2>. QED
    BY <1>0, <1>5, <2>1, <2>2, <2>3, <2>4, <2>5, CountingGoesOn
<1>11. CASE Account
  <2>. DEFINE D == Cardinality(Detected)
              O == Cardinality(DeclaredStale)
              accepted == IF D >= O THEN D ELSE O
  <2>1. D \in Nat /\ O \in Nat
    BY <1>0, BatchIsFinite DEF Detected, DeclaredStale, Committed, TypeOK
  <2>2. /\ UNCHANGED <<args, verdict, live, outcome>> /\ stage' = "done"
        /\ stage = "lane" /\ live = {}
    BY <1>11 DEF Account
  <2>3. metrics' = [metrics EXCEPT !["staleAccepted"] = accepted,
                                   !["unsafe"] = @ + accepted]
    BY <1>11 DEF Account, Detected, DeclaredStale
  <2>4. /\ Detected' = Detected /\ DeclaredStale' = DeclaredStale
        /\ With("review")' = With("review") /\ With("blocked")' = With("blocked")
        /\ FlaggedIn(With("review"))' = FlaggedIn(With("review"))
        /\ StaleToRoute' = {} /\ StaleToRoute = {}
        /\ Pending' = Pending
    BY <2>2 DEF Detected, DeclaredStale, With, FlaggedIn, StaleToRoute,
                Pending, Committed
  <2>5. Pending = {}
    BY <1>0, <2>2, NoGroupNothingPending DEF IInv, GroupInProgress
  <2>6. accepted \in Nat /\ D <= accepted /\ O <= accepted
    BY <2>1
  <2>. HIDE DEF accepted, D, O
  <2>7. /\ metrics'["staleAccepted"] = accepted
        /\ metrics'["unsafe"] = metrics["unsafe"] + accepted
        /\ metrics["unsafe"] \in Nat
        /\ \A f \in {"review", "blocked", "routed", "readsetReview",
                     "readsetStale"} : metrics'[f] = metrics[f]
    BY <1>0, <2>3 DEF MetricNames
  <2>8. metrics'["staleAccepted"] <= metrics'["unsafe"]
    BY <2>6, <2>7
  <2>9. Tallied'
    BY <2>4, <2>7 DEF CInv, Tallied
  <2>10. Closed'
    BY <2>4, <2>5, <2>6, <2>7, <2>8 DEF Closed, D, O
  <2>. QED
    BY <2>9, <2>10 DEF CInv
<1>12. CASE UNCHANGED vars
  BY <1>12 DEF vars, CInv, Tallied, Closed, With, FlaggedIn, StaleToRoute,
               StaleReaders, Pending, Detected, DeclaredStale, Committed
<1>. QED
  BY <1>3, <1>6, <1>7, <1>8, <1>9, <1>10, <1>11, <1>12 DEF Next

LEMMA CounterInvariant == Spec => [](IInv /\ RInv /\ CInv)
<1>1. Init => CInv
  BY CountersStarted DEF Init
<1>2. IInv /\ CInv /\ [Next]_vars => CInv'
  BY CounterNext
<1>. QED
  BY <1>1, <1>2, RuleInvariant, PTL DEF Spec

LEMMA CountersMatchOutcomesFollows == IInv /\ RInv /\ CInv => CountersMatchOutcomes
<1>1. IInv /\ RInv /\ CInv => CountersMatchOutcomes
  <2>. SUFFICES ASSUME IInv, RInv, CInv, stage = "done"
                PROVE  /\ metrics["review"] = Cardinality(With("review"))
                       /\ metrics["routed"] + metrics["blocked"]
                            = Cardinality(FlaggedIn(DOMAIN input) \ Committed)
                       /\ metrics["blocked"] = Cardinality(With("blocked"))
                       /\ metrics["readsetReview"] <= metrics["readsetStale"]
                       /\ \A S \in {Detected, DeclaredStale} :
                             Cardinality(S) <= metrics["staleAccepted"]
                       /\ metrics["staleAccepted"] <= metrics["unsafe"]
    BY DEF CountersMatchOutcomes, Detected, DeclaredStale
  <2>. USE DEF CInv
  <2>1. /\ input \in Seq(IntentPool) /\ outcome \in [DOMAIN input -> Outcomes]
        /\ metrics \in [MetricNames -> Nat]
    BY DEF IInv, TypeOK
  <2>2. Pending = {}
    BY DEF Closed
  <2>. DEFINE R == FlaggedIn(With("review"))
              B == With("blocked")
  <2>3. B \subseteq FlaggedIn(DOMAIN input)
    <3>. SUFFICES ASSUME NEW n \in B PROVE Flagged(verdict[n])
      BY <2>1 DEF FlaggedIn, With
    <3>1. n \in DOMAIN outcome /\ outcome[n] = "blocked"
      BY DEF With
    <3>2. Ruling(n) = "blocked"
      BY <3>1 DEF RInv, Ruled
    <3>3. n \in BlockedIn(GroupOf(n))
      BY <3>2 DEF Ruling, Blocks
    <3>. QED
      BY <3>3 DEF BlockedIn, Flagged
  <2>4. FlaggedIn(DOMAIN input) \ Committed = R \cup B /\ R \cap B = {}
    BY <2>1, <2>2, <2>3 DEF FlaggedIn, With, Committed, Pending, Outcomes
  <2>5. R \in SUBSET DOMAIN input /\ B \in SUBSET DOMAIN input
    BY <2>1 DEF FlaggedIn, With
  <2>6. Cardinality(R \cup B) = Cardinality(R) + Cardinality(B)
    BY <2>1, <2>4, <2>5, IntentsAdd
  <2>7. metrics["readsetReview"] <= metrics["readsetStale"]
    <3>1. StaleToRoute = {} /\ Cardinality({}) = 0
      BY FS_EmptySet DEF StaleToRoute
    <3>. QED
      BY <2>1, <3>1 DEF Tallied, MetricNames
  <2>. QED
    BY <2>4, <2>6, <2>7 DEF Tallied, Closed
<1>. QED
  BY <1>1

\* The counters that four lanes maintain on their own agree with where the
\* intents went, for every batch: the result of resolve_parallel_write_intents
\* can be read without its audit trail.
THEOREM CountersAreRight == Spec => []CountersMatchOutcomes
BY CountersMatchOutcomesFollows, CounterInvariant, PTL
=============================================================================
