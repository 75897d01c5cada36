------------------------- MODULE TeamExecutor_proofs -------------------------
(***************************************************************************)
(* What holds of every run of a scenario, whatever its team, its mode and  *)
(* its schedule, whoever raises and whenever the process is killed.        *)
(***************************************************************************)
EXTENDS TeamExecutor, ConflictResolver_proofs, FunctionTheorems

-----------------------------------------------------------------------------
(* Lists. *)

\* Induction over the natural numbers, for a set of them.
LEMMA NatIsReached ==
    ASSUME NEW S, 0 \in S, \A n \in Nat : n \in S => n + 1 \in S
    PROVE  \A n \in Nat : n \in S
<1>. SUFFICES ASSUME Nat \ S # {} PROVE FALSE
  OBVIOUS
<1>1. PICK m \in Nat \ S : \A k \in Nat \ S : ~(<<k, m>> \in OpToRel(<, Nat))
  BY NatLessThanWellFounded, WFMin
<1>2. m \in Nat /\ m \notin S /\ m # 0
  BY <1>1
<1>3. /\ m - 1 \in Nat /\ m = (m - 1) + 1 /\ m - 1 < m
  BY <1>2
<1>4. m - 1 \in S
  BY <1>1, <1>2, <1>3 DEF OpToRel
<1>. QED
  BY <1>2, <1>3, <1>4

\* The flattened list, element by element of the list it is made of.
Joined(s) ==
    CHOOSE f : f = [k \in 1..Len(s) |-> IF k = 1 THEN s[k] ELSE f[k - 1] \o s[k]]

LEMMA JoinedStepByStep ==
    ASSUME NEW s, Len(s) \in Nat
    PROVE  /\ Len(s) # 0 => FlattenSeq(s) = Joined(s)[Len(s)]
           /\ \A k \in 1..Len(s) :
                 Joined(s)[k] = IF k = 1 THEN s[k] ELSE Joined(s)[k - 1] \o s[k]
<1>. DEFINE F(g, m) == [k \in 1..m |-> IF k = 1 THEN s[k] ELSE g[k - 1] \o s[k]]
            S == {m \in Nat : \E g : g = F(g, m)}
<1>1. 0 \in S
  <2>. DEFINE g == [k \in 1..0 |-> k]
  <2>1. g = F(g, 0)
    OBVIOUS
  <2>. QED
    BY <2>1
<1>2. ASSUME NEW n \in Nat, n \in S PROVE n + 1 \in S
  <2>1. PICK g : g = F(g, n)
    BY <1>2
  <2>. DEFINE last == IF n + 1 = 1 THEN s[n + 1] ELSE g[n] \o s[n + 1]
              h == [k \in 1..(n + 1) |-> IF k = n + 1 THEN last ELSE g[k]]
  <2>2. ASSUME NEW k \in 1..(n + 1)
        PROVE  h[k] = IF k = 1 THEN s[k] ELSE h[k - 1] \o s[k]
    <3>1. CASE k = n + 1
      <4>1. h[k] = last
        BY <3>1
      <4>2. k # 1 => h[k - 1] = g[n]
        BY <3>1
      <4>. QED
        BY <3>1, <4>1, <4>2
    <3>2. CASE k \in 1..n
      <4>1. g[k] = IF k = 1 THEN s[k] ELSE g[k - 1] \o s[k]
        BY <2>1, <3>2
      <4>2. h[k] = g[k] /\ (k # 1 => h[k - 1] = g[k - 1])
        BY <3>2
      <4>. QED
        BY <4>1, <4>2
    <3>. QED
      BY <3>1, <3>2
  <2>3. h = F(h, n + 1)
    BY <2>2
  <2>. HIDE DEF F, h
  <2>4. n + 1 \in Nat /\ \E f : f = F(f, n + 1)
    BY <2>3
  <2>. QED
    BY <2>4
<1>3. Len(s) \in S
  BY <1>1, <1>2, NatIsReached
<1>4. \E g : g = F(g, Len(s))
  BY <1>3
<1>5. Joined(s) = F(Joined(s), Len(s))
  BY <1>4 DEF Joined
<1>6. Len(s) # 0 => FlattenSeq(s) = Joined(s)[Len(s)]
  BY DEF FlattenSeq, Joined
<1>. QED
  BY <1>5, <1>6

\* Lists of intents flatten to a list of intents.
LEMMA JoinedIsList ==
    ASSUME NEW S, NEW s, Len(s) \in Nat, \A k \in 1..Len(s) : s[k] \in Seq(S)
    PROVE  \A k \in 1..Len(s) : Joined(s)[k] \in Seq(S)
<1>. DEFINE P == {k \in Nat : k \in 1..Len(s) => Joined(s)[k] \in Seq(S)}
<1>1. 0 \in P
  OBVIOUS
<1>2. ASSUME NEW k \in Nat, k \in P PROVE k + 1 \in P
  <2>. SUFFICES ASSUME k + 1 \in 1..Len(s) PROVE Joined(s)[k + 1] \in Seq(S)
    OBVIOUS
  <2>1. CASE k = 0
    BY <2>1, JoinedStepByStep
  <2>2. CASE k # 0
    <3>1. k \in 1..Len(s) /\ (k + 1) - 1 = k /\ k + 1 # 1
      BY <2>2
    <3>2. Joined(s)[k + 1] = Joined(s)[k] \o s[k + 1]
      BY <3>1, JoinedStepByStep
    <3>3. Joined(s)[k] \in Seq(S) /\ s[k + 1] \in Seq(S)
      BY <1>2, <3>1
    <3>. QED
      BY <3>2, <3>3
  <2>. QED
    BY <2>1, <2>2
<1>3. \A k \in Nat : k \in P
  <2>. HIDE DEF P
  <2>. QED
    BY <1>1, <1>2, NatIsReached
<1>. QED
  BY <1>3

\* Lists that are as long, one by one, flatten to lists that are as long.
AsLong(S, s, t) ==
    /\ Len(s) \in Nat /\ Len(t) = Len(s)
    /\ \A k \in 1..Len(s) : /\ s[k] \in Seq(S) /\ t[k] \in Seq(S)
                             /\ Len(s[k]) = Len(t[k])

LEMMA JoinedAsLong ==
    ASSUME NEW S, NEW s, NEW t, AsLong(S, s, t)
    PROVE  \A k \in 1..Len(s) :
              /\ Joined(s)[k] \in Seq(S) /\ Joined(t)[k] \in Seq(S)
              /\ Len(Joined(s)[k]) = Len(Joined(t)[k])
<1>. USE DEF AsLong
<1>0. \A k \in 1..Len(s) : Joined(s)[k] \in Seq(S) /\ Joined(t)[k] \in Seq(S)
  BY JoinedIsList
<1>. DEFINE P == {k \in Nat : k \in 1..Len(s) =>
                                 Len(Joined(s)[k]) = Len(Joined(t)[k])}
<1>1. 0 \in P
  OBVIOUS
<1>2. ASSUME NEW k \in Nat, k \in P PROVE k + 1 \in P
  <2>. SUFFICES ASSUME k + 1 \in 1..Len(s)
                PROVE  Len(Joined(s)[k + 1]) = Len(Joined(t)[k + 1])
    OBVIOUS
  <2>1. CASE k = 0
    <3>1. Joined(s)[1] = s[1] /\ Joined(t)[1] = t[1]
      BY <2>1, JoinedStepByStep
    <3>. QED
      BY <2>1, <3>1
  <2>2. CASE k # 0
    <3>1. k \in 1..Len(s) /\ (k + 1) - 1 = k /\ k + 1 # 1
      BY <2>2
    <3>2. Joined(s)[k + 1] = Joined(s)[k] \o s[k + 1]
      BY <3>1, JoinedStepByStep
    <3>4. Joined(t)[k + 1] = Joined(t)[k] \o t[k + 1]
      <4>1. Len(t) \in Nat /\ k + 1 \in 1..Len(t)
        OBVIOUS
      <4>2. \A j \in 1..Len(t) :
               Joined(t)[j] = IF j = 1 THEN t[j] ELSE Joined(t)[j - 1] \o t[j]
        BY <4>1, JoinedStepByStep
      <4>. QED
        BY <3>1, <4>1, <4>2
    <3>3. /\ Len(Joined(s)[k + 1]) = Len(Joined(s)[k]) + Len(s[k + 1])
          /\ Len(Joined(t)[k + 1]) = Len(Joined(t)[k]) + Len(t[k + 1])
      BY <1>0, <3>1, <3>2, <3>4
    <3>. QED
      BY <1>2, <3>1, <3>3
  <2>. QED
    BY <2>1, <2>2
<1>3. \A k \in Nat : k \in P
  <2>. HIDE DEF P
  <2>. QED
    BY <1>1, <1>2, NatIsReached
<1>. QED
  BY <1>0, <1>3

-----------------------------------------------------------------------------
(* Every round is a call of the resolver. *)

\* What the resolver guarantees of one call.
CallInv == IInv /\ RInv /\ CInv /\ VerdictsStand

LEMMA CallStarted == TypeOK /\ Started => CallInv
<1>1. Started => VerdictsStand
  BY DEF Started, VerdictsStand, Committed
<1>. QED
  BY <1>1, RoutingStarted, RuleStarted, CountersStarted DEF CallInv

LEMMA CallNext == CallInv /\ [Next]_vars => CallInv'
BY RoutingNext, RuleNext, CounterNext, VerdictsNext DEF CallInv

OnTask ==
    /\ task \in Tasks /\ mode \in task.modes /\ scenario = task.scenario
    /\ turn \in 1..Len(Team)
    /\ Parallel => turn = 1

\* How many intents the agents of a round emit.
RoundLength == IF Parallel THEN Len(FlattenSeq(Team)) ELSE Len(Team[turn])

\* The round and the call of the resolver go together.
InStep ==
    /\ run = "agents" => Started
    /\ run \in {"merging", "committing", "done"} => Len(input) = RoundLength
    /\ run \in {"committing", "done"} => stage = "done"

MergeInv == OnTask /\ InStep /\ CallInv

LEMMA TeamsAreListed ==
    ASSUME task \in Tasks
    PROVE  /\ Len(Team) \in Nat /\ Len(Team) # 0 /\ DOMAIN Team = 1..Len(Team)
           /\ \A a \in DOMAIN Team :
                 /\ Team[a] \in Seq(ToSet(Team[a]))
                 /\ Len(Team[a]) \in Nat /\ DOMAIN Team[a] = 1..Len(Team[a])
           /\ task.scenario \in Scenarios /\ task.modes \subseteq Modes
<1>1. /\ Team \in Seq(ToSet(Team)) /\ Team # <<>>
      /\ \A a \in DOMAIN Team : Team[a] \in Seq(ToSet(Team[a]))
      /\ task.scenario \in Scenarios /\ task.modes \subseteq Modes
  BY TasksAssumption DEF Team
<1>2. \A S, q : q \in Seq(S) => /\ Len(q) \in Nat /\ DOMAIN q = 1..Len(q)
                                /\ q # <<>> => Len(q) # 0
  OBVIOUS
<1>. QED
  BY <1>1, <1>2

LEMMA ProjectedIsList ==
    ASSUME task \in Tasks, NEW a \in DOMAIN Team
    PROVE  /\ Projected(a) \in Seq(IntentPool)
           /\ Len(Projected(a)) = Len(Team[a])
<1>1. Len(Team[a]) \in Nat /\ DOMAIN Team[a] = 1..Len(Team[a])
  BY TeamsAreListed
<1>2. ASSUME NEW k \in DOMAIN Team[a] PROVE Projected(a)[k] \in IntentPool
  <2>. DEFINE atoms == Traced(a) \cap Alluded(Team[a][k])
  <2>1. atoms \in SUBSET Alluded(Team[a][k])
    OBVIOUS
  <2>2. Projected(a)[k] = ShownOnly(Team[a][k], atoms)
    BY DEF Projected
  <2>. HIDE DEF atoms
  <2>3. ShownOnly(Team[a][k], atoms) \in IntentPool
    BY <2>1, TasksAssumption DEF Team
  <2>. QED
    BY <2>2, <2>3
<1>3. Projected(a) = [k \in 1..Len(Team[a]) |-> Projected(a)[k]]
  BY <1>1 DEF Projected
<1>4. Projected(a) \in [1..Len(Team[a]) -> IntentPool]
  BY <1>1, <1>2, <1>3
<1>. QED
  BY <1>1, <1>4

LEMMA RoundIsABatch ==
    ASSUME OnTask
    PROVE  RoundIntents \in Seq(IntentPool) /\ Len(RoundIntents) = RoundLength
<1>. DEFINE n == Len(Team)
            s == [a \in DOMAIN Team |-> Projected(a)]
            S == UNION {ToSet(Team[a]) : a \in DOMAIN Team}
<1>1. /\ n \in Nat /\ n # 0 /\ DOMAIN Team = 1..n /\ turn \in DOMAIN Team
      /\ \A a \in DOMAIN Team : /\ Team[a] \in Seq(ToSet(Team[a]))
                                /\ Projected(a) \in Seq(IntentPool)
                                /\ Len(Projected(a)) = Len(Team[a])
  BY TeamsAreListed, ProjectedIsList DEF OnTask
<1>2. CASE ~Parallel
  BY <1>1, <1>2 DEF RoundIntents, RoundLength
<1>3. CASE Parallel
  <2>1. s \in [1..n -> Seq(IntentPool)]
    BY <1>1
  <2>2. Len(s) = n /\ \A a \in 1..n : s[a] = Projected(a)
    BY <1>1, <2>1
  <2>3. \A a \in 1..n : Team[a] \in Seq(S)
    <3>1. \A a \in 1..n : ToSet(Team[a]) \subseteq S
      BY <1>1
    <3>2. \A T, U, q : T \subseteq U /\ q \in Seq(T) => q \in Seq(U)
      OBVIOUS
    <3>. HIDE DEF S
    <3>. QED
      BY <1>1, <3>1, <3>2
  <2>. HIDE DEF s, S, n
  <2>4. FlattenSeq(s) = Joined(s)[n] /\ FlattenSeq(Team) = Joined(Team)[n]
    BY <1>1, <2>2, JoinedStepByStep DEF n
  <2>5. Joined(s)[n] \in Seq(IntentPool)
    <3>1. /\ Len(s) \in Nat /\ n \in 1..Len(s)
          /\ \A k \in 1..Len(s) : s[k] \in Seq(IntentPool)
      BY <1>1, <2>2
    <3>2. \A k \in 1..Len(s) : Joined(s)[k] \in Seq(IntentPool)
      BY <3>1, JoinedIsList
    <3>. QED
      BY <3>1, <3>2
  <2>6. Len(Joined(s)[n]) = Len(Joined(Team)[n])
    <3>. DEFINE U == S \cup IntentPool
    <3>1. \A T, q : q \in Seq(T) /\ T \subseteq U => q \in Seq(U)
      OBVIOUS
    <3>2. S \subseteq U /\ IntentPool \subseteq U
      OBVIOUS
    <3>. HIDE DEF U
    <3>3. AsLong(U, s, Team)
      BY <1>1, <2>2, <2>3, <3>1, <3>2 DEF n, AsLong
    <3>4. \A k \in 1..Len(s) :
             /\ Joined(s)[k] \in Seq(U) /\ Joined(Team)[k] \in Seq(U)
             /\ Len(Joined(s)[k]) = Len(Joined(Team)[k])
      BY <3>3, JoinedAsLong
    <3>. QED
      BY <1>1, <2>2, <3>4
  <2>7. RoundIntents = FlattenSeq(s)
    BY <1>3 DEF RoundIntents, s
  <2>. QED
    BY <1>3, <2>4, <2>5, <2>6, <2>7 DEF RoundLength
<1>. QED
  BY <1>2, <1>3

\* Whatever is not part of a call leaves what is proved of the call alone.
LEMMA MergeInit == RunInit => MergeInv
<1>. SUFFICES ASSUME RunInit PROVE MergeInv
  OBVIOUS
<1>1. OnTask
  <2>1. task \in Tasks /\ mode \in task.modes /\ scenario = task.scenario /\ turn = 1
    BY DEF RunInit
  <2>. QED
    BY <2>1, TeamsAreListed DEF OnTask
<1>2. Started /\ input = <<>> /\ run = "agents"
  BY DEF RunInit, Started
<1>3. mode \in Modes /\ scenario \in Scenarios
  BY <1>1, TeamsAreListed DEF OnTask
<1>4. TypeOK
  BY <1>2, <1>3 DEF TypeOK, Started, Stages, Outcomes, MetricNames
<1>5. CallInv
  BY <1>2, <1>4, CallStarted
<1>. QED
  BY <1>1, <1>2, <1>5 DEF MergeInv, InStep

LEMMA MergeNext == MergeInv /\ [RunNext]_runVars => MergeInv'
<1>. SUFFICES ASSUME MergeInv, [RunNext]_runVars PROVE MergeInv'
  OBVIOUS
<1>. USE DEF progress, files, memory, store
<1>m. OnTask /\ InStep /\ CallInv
  BY DEF MergeInv
<1>0. /\ turn \in 1..Len(Team) /\ Len(Team) \in Nat
      /\ mode \in Modes /\ scenario \in Scenarios
  BY <1>m, TeamsAreListed DEF OnTask
<1>1. ASSUME UNCHANGED vars, UNCHANGED <<schedule, task, turn>>,
             \/ run' \in {run, "failed", "killed"}
             \/ /\ run = "merging" /\ stage = "done"
                /\ run' = "committing"
             \/ run = "committing" /\ run' = "done"
      PROVE  MergeInv'
  <2>1. CallInv'
    BY <1>m, <1>1, CallNext
  <2>2. OnTask'
    BY <1>m, <1>1 DEF OnTask, Team, Parallel, vars, args
  <2>3. InStep'
    BY <1>m, <1>1 DEF InStep, Started, RoundLength, Team, Parallel, vars, args
  <2>. QED
    BY <2>1, <2>2, <2>3 DEF MergeInv
<1>2. ASSUME NEW a \in DOMAIN agents, Return(a) \/ Raise(a) PROVE MergeInv'
  <2>1. /\ UNCHANGED vars /\ UNCHANGED <<schedule, task, turn>>
        /\ run' \in {run, "failed", "killed"}
    BY <1>2 DEF Return, Raise
  <2>. QED
    BY <1>1, <2>1
<1>3. CASE FailRun
  <2>1. /\ UNCHANGED vars /\ UNCHANGED <<schedule, task, turn>>
        /\ run' \in {run, "failed", "killed"}
    BY <1>3 DEF FailRun
  <2>. QED
    BY <1>1, <2>1
<1>4. CASE HandOver
  <2>1. /\ UNCHANGED vars /\ UNCHANGED <<schedule, task, turn>>
        /\ run = "merging" /\ stage = "done" /\ run' = "committing"
    BY <1>4 DEF HandOver
  <2>. QED
    BY <1>1, <2>1
<1>5. CASE Committing \/ Publish
  <2>1. /\ UNCHANGED vars /\ UNCHANGED <<schedule, task, turn>>
        /\ run' \in {run, "failed", "killed"}
    BY <1>5 DEF Committing, Publish
  <2>. QED
    BY <1>1, <2>1
<1>6. CASE Finish
  <2>1. /\ UNCHANGED vars /\ UNCHANGED <<schedule, task, turn>>
        /\ run = "committing" /\ run' = "done"
    BY <1>6 DEF Finish
  <2>. QED
    BY <1>1, <2>1
<1>7. CASE KillBeforeCommit \/ KillDuringCommit
  <2>1. /\ UNCHANGED vars /\ UNCHANGED <<schedule, task, turn>>
        /\ run' \in {run, "failed", "killed"}
    BY <1>7 DEF KillBeforeCommit, KillDuringCommit
  <2>. QED
    BY <1>1, <2>1
<1>8. CASE UNCHANGED runVars
  <2>1. /\ UNCHANGED vars /\ UNCHANGED <<schedule, task, turn>>
        /\ run' \in {run, "failed", "killed"}
    BY <1>8 DEF runVars
  <2>. QED
    BY <1>1, <2>1
<1>9. CASE Collect
  <2>1. /\ input' = RoundIntents /\ run = "agents" /\ run' = "merging"
        /\ verdict' = [n \in DOMAIN input' |-> Unverified]
        /\ outcome' = [n \in DOMAIN input' |-> "pending"]
        /\ UNCHANGED <<mode, scenario, stage, live, metrics, schedule, task, turn>>
    BY <1>9 DEF Collect
  <2>2. Started'
    BY <1>m, <2>1 DEF InStep, Started
  <2>3. input' \in Seq(IntentPool) /\ Len(input') = RoundLength
    BY <1>m, <2>1, RoundIsABatch
  <2>4. TypeOK'
    BY <1>0, <2>1, <2>2, <2>3
       DEF TypeOK, Started, Stages, Outcomes, MetricNames
  <2>5. CallInv'
    <3>1. (TypeOK /\ Started)' => CallInv'
      BY CallStarted, PTL
    <3>. QED
      BY <2>2, <2>4, <3>1
  <2>6. OnTask'
    BY <1>m, <2>1 DEF OnTask, Team, Parallel
  <2>7. InStep'
    BY <2>1, <2>3 DEF InStep, RoundLength, Team, Parallel
  <2>. QED
    BY <2>5, <2>6, <2>7 DEF MergeInv
<1>10. CASE Merging
  <2>1. Next /\ UNCHANGED <<schedule, task, turn, run>> /\ run = "merging"
    BY <1>10 DEF Merging
  <2>2. CallInv'
    BY <1>m, <2>1, CallNext
  <2>3. UNCHANGED args
    BY <2>1 DEF Next, Verify, InterruptByAuthority, GateReview, ContendForLock,
        RouteFlagged, RouteStaleReaders, Merge, MergeAppendOnly,
        CommitSingleWriter, MergeUnchecked, MergeCompatible, ReviewConflict,
        CommitLive, Account
  <2>4. OnTask' /\ InStep'
    BY <1>m, <2>1, <2>3 DEF OnTask, InStep, RoundLength, Team, Parallel, args
  <2>. QED
    BY <2>2, <2>4 DEF MergeInv
<1>11. CASE NextTurn
  <2>1. /\ run' = "agents" /\ turn' = turn + 1 /\ ~LastRound /\ input' = <<>>
        /\ UNCHANGED <<mode, scenario, schedule, task>>
        /\ Started'
    BY <1>11 DEF NextTurn, Started
  <2>2. OnTask'
    BY <1>0, <1>m, <2>1 DEF OnTask, Team, Parallel, LastRound
  <2>3. TypeOK'
    BY <1>0, <2>1 DEF TypeOK, Started, Stages, Outcomes, MetricNames
  <2>4. CallInv'
    <3>1. (TypeOK /\ Started)' => CallInv'
      BY CallStarted, PTL
    <3>. QED
      BY <2>1, <2>3, <3>1
  <2>5. InStep'
    BY <2>1 DEF InStep
  <2>. QED
    BY <2>2, <2>4, <2>5 DEF MergeInv
<1>. QED
  BY <1>2, <1>3, <1>4, <1>5, <1>6, <1>7, <1>8, <1>9, <1>10, <1>11
     DEF RunNext, Steps

LEMMA MergeInvariant == RunSpec => []MergeInv
BY MergeInit, MergeNext, PTL DEF RunSpec

\* Every round of every run is merged as the resolver merges one call: whatever
\* ended up with the merge stage, whichever agent was shown what, nothing
\* uncertified, unauthorized, conflicting or stale is handed to the store.
THEOREM RoundsAreMergedSafely ==
    RunSpec => [](/\ FlaggedCommitsOnlyByAuthority /\ NoCommitBeyondAuthority
                  /\ NoSilentWinner /\ FileWritesAreExclusive
                  /\ NoOverrideOfAuthority /\ CorrectionMayReadItsTarget
                  /\ NoCommitOnStaleRead /\ CountersMatchOutcomes)
<1>1. MergeInv => /\ FlaggedCommitsOnlyByAuthority /\ NoCommitBeyondAuthority
                  /\ NoSilentWinner /\ FileWritesAreExclusive
                  /\ NoOverrideOfAuthority /\ CorrectionMayReadItsTarget
                  /\ NoCommitOnStaleRead /\ CountersMatchOutcomes
  BY FlaggedCommitsOnlyByAuthorityFollows, NoCommitBeyondAuthorityFollows,
     NoSilentWinnerFollows, FileWritesAreExclusiveFollows,
     NoOverrideOfAuthorityFollows, CorrectionMayReadItsTargetFollows,
     NoCommitOnStaleReadFollows, CountersMatchOutcomesFollows
     DEF MergeInv, CallInv
<1>. QED
  BY <1>1, MergeInvariant, PTL

-----------------------------------------------------------------------------
(* What the merge stage hands over is a permutation of the round.          *)

Place(n) == Cardinality({m \in DOMAIN input : Before(m, n)})

LEMMA FirstIsMember ==
    ASSUME input \in Seq(IntentPool), NEW n \in DOMAIN input
    PROVE  First(n) \in DOMAIN input /\ First(n) \in Nat
<1>1. GroupOf(n) \in SUBSET DOMAIN input /\ n \in GroupOf(n)
  BY DEF GroupOf
<1>2. \E m \in GroupOf(n) : \A k \in GroupOf(n) : m <= k
  BY <1>1, FirstMember
<1>3. First(n) \in GroupOf(n)
  BY <1>2 DEF First
<1>4. DOMAIN input \subseteq Nat
  OBVIOUS
<1>. QED
  BY <1>1, <1>3, <1>4

LEMMA BeforeIsAnOrder ==
    ASSUME input \in Seq(IntentPool)
    PROVE  \A m, n, k \in DOMAIN input :
              /\ ~Before(n, n)
              /\ m # n => Before(m, n) \/ Before(n, m)
              /\ Before(m, n) /\ Before(n, k) => Before(m, k)
<1>1. \A n \in DOMAIN input : n \in Nat /\ First(n) \in Nat
  BY FirstIsMember
<1>. SUFFICES ASSUME NEW m \in DOMAIN input, NEW n \in DOMAIN input,
                     NEW k \in DOMAIN input
              PROVE  /\ ~Before(n, n)
                     /\ m # n => Before(m, n) \/ Before(n, m)
                     /\ Before(m, n) /\ Before(n, k) => Before(m, k)
  OBVIOUS
<1>2. /\ m \in Nat /\ n \in Nat /\ k \in Nat
      /\ First(m) \in Nat /\ First(n) \in Nat /\ First(k) \in Nat
  BY <1>1
<1>. QED
  BY <1>2 DEF Before

LEMMA PlacesAreDistinct ==
    ASSUME input \in Seq(IntentPool)
    PROVE  \A m, n \in DOMAIN input :
              /\ Place(n) \in Nat /\ Place(n) + 1 \in DOMAIN input
              /\ Place(m) = Place(n) => m = n
<1>. DEFINE D == DOMAIN input
            below(n) == {m \in D : Before(m, n)}
<1>1. D = 1..Len(input) /\ Len(input) \in Nat
  OBVIOUS
<1>2. IsFiniteSet(D) /\ Cardinality(D) = Len(input)
  BY <1>1, FS_Interval
<1>3. ASSUME NEW S \in SUBSET D, NEW T \in SUBSET S, NEW x \in S, x \notin T
      PROVE  /\ Cardinality(S) \in Nat /\ Cardinality(T) \in Nat
             /\ Cardinality(T) < Cardinality(S)
  <2>1. /\ IsFiniteSet(S) /\ IsFiniteSet(T)
        /\ Cardinality(S) \in Nat /\ Cardinality(T) \in Nat
    BY <1>2, <1>3, FS_Subset, FS_CardinalityType
  <2>2. Cardinality(T) <= Cardinality(S) /\ Cardinality(T) # Cardinality(S)
    BY <1>3, <2>1, FS_Subset
  <2>. QED
    BY <2>1, <2>2
<1>4. ASSUME NEW n \in D
      PROVE  Place(n) \in Nat /\ Place(n) < Len(input)
  <2>1. below(n) \in SUBSET D /\ n \notin below(n)
    BY BeforeIsAnOrder
  <2>2. Cardinality(below(n)) < Cardinality(D) /\ Cardinality(below(n)) \in Nat
    BY <1>3, <2>1
  <2>. QED
    BY <1>2, <2>2 DEF Place
<1>5. ASSUME NEW m \in D, NEW n \in D, Before(m, n)
      PROVE  Place(m) < Place(n)
  <2>1. /\ below(n) \in SUBSET D /\ below(m) \in SUBSET below(n)
        /\ m \in below(n) /\ m \notin below(m)
    BY <1>5, BeforeIsAnOrder
  <2>2. Cardinality(below(m)) < Cardinality(below(n))
    BY <1>3, <2>1
  <2>. QED
    BY <2>2 DEF Place
<1>6. ASSUME NEW m \in D, NEW n \in D, Place(m) = Place(n)
      PROVE  m = n
  <2>1. ~Before(m, n) /\ ~Before(n, m)
    BY <1>4, <1>5, <1>6
  <2>. QED
    BY <2>1, BeforeIsAnOrder
<1>7. ASSUME NEW n \in D PROVE Place(n) + 1 \in D
  BY <1>1, <1>4
<1>. QED
  BY <1>4, <1>6, <1>7

LEMMA MergedIsAPermutation ==
    ASSUME input \in Seq(IntentPool)
    PROVE  /\ \A k \in DOMAIN input : MergedOrder[k] \in DOMAIN input
           /\ \A n \in DOMAIN input : \E k \in DOMAIN input : MergedOrder[k] = n
           /\ \A j, k \in DOMAIN input : MergedOrder[j] = MergedOrder[k] => j = k
<1>. DEFINE D == DOMAIN input
            f == [n \in D |-> Place(n) + 1]
<1>1. D = 1..Len(input) /\ Len(input) \in Nat
  OBVIOUS
<1>2. IsFiniteSet(D)
  BY <1>1, FS_Interval
<1>3. f \in [D -> D] /\ \A m, n \in D : f[m] = f[n] => m = n
  BY PlacesAreDistinct
<1>. HIDE DEF f
<1>4. f \in Injection(D, D)
  BY <1>3, Fun_IsInj
<1>5. f \in Surjection(D, D)
  BY <1>2, <1>4, FS_Injection
<1>6. \A k \in D : \E n \in D : f[n] = k
  BY <1>5, Fun_SurjectionProperties
<1>7. \A k \in D : MergedOrder[k] \in D /\ Place(MergedOrder[k]) = k - 1
  <2>1. ASSUME NEW k \in D PROVE \E n \in D : Place(n) = k - 1
    <3>1. PICK n \in D : f[n] = k
      BY <1>6, <2>1
    <3>2. Place(n) + 1 = k /\ Place(n) \in Nat
      BY <3>1, PlacesAreDistinct DEF f
    <3>. QED
      BY <3>2
  <2>2. \A k \in D : MergedOrder[k] = CHOOSE n \in D : Place(n) = k - 1
    BY DEF MergedOrder, Place
  <2>. QED
    BY <2>1, <2>2
<1>8. \A n \in D : \E k \in D : MergedOrder[k] = n
  <2>. SUFFICES ASSUME NEW n \in D PROVE \E k \in D : MergedOrder[k] = n
    OBVIOUS
  <2>1. Place(n) + 1 \in D /\ Place(n) \in Nat
    BY PlacesAreDistinct
  <2>2. /\ MergedOrder[Place(n) + 1] \in D
        /\ Place(MergedOrder[Place(n) + 1]) = Place(n)
    BY <1>7, <2>1
  <2>3. MergedOrder[Place(n) + 1] = n
    BY <2>2, PlacesAreDistinct
  <2>. QED
    BY <2>1, <2>3
<1>9. \A j, k \in D : MergedOrder[j] = MergedOrder[k] => j = k
  <2>1. D \subseteq Nat
    BY <1>1
  <2>. QED
    BY <1>7, <2>1
<1>. QED
  BY <1>7, <1>8, <1>9

-----------------------------------------------------------------------------
(* What the store records of a round is what the merge stage held back, and *)
(* what its agents did.                                                      *)

HeldBack == {n \in DOMAIN input : Store!CommitMode(StoreIntent(n)) # "auto"}

\* Of the first j intents handed to the store, those it only records.
RecordedOf(j) == {k \in 1..j : Store!CommitMode(MergedIntents[k]) # "auto"}

LEMMA LanesOfTheStore ==
    ASSUME NEW n
    PROVE  /\ outcome[n] = "review" =>
                 Store!CommitMode(StoreIntent(n)) = "review_required"
           /\ outcome[n] = "blocked" =>
                 Store!CommitMode(StoreIntent(n)) = "blocked"
<1>. DEFINE i == StoreIntent(n)
<1>1. /\ outcome[n] = "review" => i.own = "review_required"
      /\ outcome[n] = "blocked" => i.own = "blocked"
  BY DEF StoreIntent, OwnMode, Routed
<1>. HIDE DEF i
<1>2. /\ i.own = "review_required" => Store!CommitMode(i) = "review_required"
      /\ i.own = "blocked" => Store!CommitMode(i) = "blocked"
  BY DEF Store!CommitMode, Store!RequestedMode
<1>. QED
  BY <1>1, <1>2 DEF i

LEMMA HeldBackCount ==
    ASSUME CallInv, stage = "done"
    PROVE  Cardinality(HeldBack)
              = metrics["review"] + metrics["blocked"]
                  + Cardinality({n \in DOMAIN input : HeldByAgent(n)})
<1>. DEFINE own == {n \in DOMAIN input : HeldByAgent(n)}
<1>1. /\ input \in Seq(IntentPool) /\ outcome \in [DOMAIN input -> Outcomes]
      /\ Pending = {}
      /\ metrics["review"] = Cardinality(With("review"))
      /\ metrics["blocked"] = Cardinality(With("blocked"))
  BY DEF CallInv, IInv, TypeOK, CInv, Tallied, Closed
<1>2. \A n \in DOMAIN input : outcome[n] \in {"commit", "review", "blocked"}
  BY <1>1 DEF Pending, Outcomes
<1>3. HeldBack = (With("review") \cup With("blocked")) \cup own
  <2>1. ASSUME NEW n \in DOMAIN input
        PROVE  n \in HeldBack <=> \/ n \in With("review")
                                  \/ n \in With("blocked")
                                  \/ n \in own
    BY <1>1, <1>2, LanesOfTheStore DEF HeldBack, With, HeldByAgent
  <2>2. /\ HeldBack \subseteq DOMAIN input /\ own \subseteq DOMAIN input
        /\ With("review") \subseteq DOMAIN input
        /\ With("blocked") \subseteq DOMAIN input
    BY <1>1 DEF HeldBack, With
  <2>. HIDE DEF own
  <2>. QED
    BY <2>1, <2>2
<1>4. /\ With("review") \in SUBSET DOMAIN input
      /\ With("blocked") \in SUBSET DOMAIN input
      /\ With("review") \cup With("blocked") \in SUBSET DOMAIN input
      /\ own \in SUBSET DOMAIN input
      /\ With("review") \cap With("blocked") = {}
      /\ (With("review") \cup With("blocked")) \cap own = {}
  BY <1>1 DEF With, HeldByAgent
<1>. HIDE DEF own
<1>5. Cardinality(With("review") \cup With("blocked"))
         = metrics["review"] + metrics["blocked"]
  BY <1>1, <1>4, IntentsAdd
<1>6. Cardinality(HeldBack)
         = Cardinality(With("review") \cup With("blocked")) + Cardinality(own)
  BY <1>1, <1>3, <1>4, IntentsAdd
<1>. QED
  BY <1>5, <1>6 DEF own

\* A set that can be matched with a finite one is as large.
LEMMA MatchedIntents ==
    ASSUME NEW S, IsFiniteSet(S), NEW T, NEW F \in [S -> T],
           \A x, y \in S : F[x] = F[y] => x = y,
           \A z \in T : \E x \in S : F[x] = z
    PROVE  Cardinality(T) = Cardinality(S)
<1>1. F \in Bijection(S, T)
  BY Fun_IsBij
<1>2. ExistsBijection(S, T)
  BY <1>1 DEF ExistsBijection
<1>. QED
  BY <1>2, FS_Bijection

LEMMA AllAreHandedOver ==
    ASSUME input \in Seq(IntentPool)
    PROVE  Cardinality(RecordedOf(Len(input))) = Cardinality(HeldBack)
<1>. DEFINE R == RecordedOf(Len(input))
            F == [k \in R |-> MergedOrder[k]]
<1>1. DOMAIN input = 1..Len(input) /\ Len(input) \in Nat
  OBVIOUS
<1>2. ASSUME NEW k \in DOMAIN input
      PROVE  k \in R <=> MergedOrder[k] \in HeldBack
  <2>1. MergedIntents[k] = StoreIntent(MergedOrder[k])
    BY DEF MergedIntents
  <2>2. MergedOrder[k] \in DOMAIN input
    BY MergedIsAPermutation
  <2>. QED
    BY <1>1, <2>1, <2>2 DEF RecordedOf, HeldBack
<1>3. R \subseteq DOMAIN input
  BY <1>1 DEF RecordedOf
<1>4. IsFiniteSet(R)
  <2>. HIDE DEF R
  <2>1. IsFiniteSet(DOMAIN input)
    BY <1>1, FS_Interval
  <2>. QED
    BY <1>3, <2>1, FS_Subset
<1>. HIDE DEF R
<1>5. F \in [R -> HeldBack]
  BY <1>2, <1>3
<1>6. \A x, y \in R : F[x] = F[y] => x = y
  BY <1>3, MergedIsAPermutation
<1>7. \A z \in HeldBack : \E x \in R : F[x] = z
  <2>. TAKE z \in HeldBack
  <2>1. z \in DOMAIN input
    BY DEF HeldBack
  <2>2. PICK k \in DOMAIN input : MergedOrder[k] = z
    BY <2>1, MergedIsAPermutation
  <2>3. k \in R
    BY <1>2, <2>2
  <2>. QED
    BY <2>2, <2>3
<1>. HIDE DEF F
<1>8. Cardinality(HeldBack) = Cardinality(R)
  BY <1>4, <1>5, <1>6, <1>7, MatchedIntents
<1>. QED
  BY <1>8 DEF R

-----------------------------------------------------------------------------
(* The store takes the intents of a round one by one.                        *)

Taken == committed + recorded

Progressing ==
    /\ run \in {"agents", "merging"} => phase = "idle"
    /\ phase = "idle" => committed = 0 /\ recorded = 0
    /\ run = "committing" =>
          /\ phase # "idle"
          /\ committed \in Nat /\ recorded \in Nat /\ Taken <= Len(input)
          /\ todo = [k \in 1..(Len(input) - Taken) |-> MergedIntents[Taken + k]]
          /\ recorded = Cardinality(RecordedOf(Taken))
          /\ phase # "intents" => Taken = Len(input)

\* How many intents the first k agents emit.
Emitted(k) == IF k = 0 THEN 0 ELSE Len(Joined(Team)[k])

Reporting ==
    /\ DOMAIN summary = Counts
    /\ summary["committed"] \in Nat /\ summary["recorded"] \in Nat
    /\ run # "done" => summary["committed"] + summary["recorded"]
                          = IF Parallel THEN 0 ELSE Emitted(turn - 1)
    /\ SummaryAccountsForTeam

\* While the call of the resolver stands, so does what is handed over.
LEMMA HandedOverStands ==
    ASSUME UNCHANGED vars
    PROVE  /\ MergedIntents' = MergedIntents
           /\ \A j : RecordedOf(j)' = RecordedOf(j)
           /\ \A n : HeldByAgent(n)' <=> HeldByAgent(n)
<1>1. /\ input' = input /\ outcome' = outcome /\ mode' = mode
      /\ verdict' = verdict /\ scenario' = scenario
  BY DEF vars, args
<1>2. \A n : StoreIntent(n)' = StoreIntent(n)
  BY <1>1 DEF StoreIntent, OwnMode, Routed, ForcesAuto
<1>3. \A n : GroupOf(n)' = GroupOf(n)
  BY <1>1 DEF GroupOf, Key
<1>4. \A n : First(n)' = First(n)
  BY <1>3 DEF First
<1>5. Committed' = Committed
  BY <1>1 DEF Committed
<1>6. \A m, n : Before(m, n)' <=> Before(m, n)
  BY <1>4, <1>5 DEF Before
<1>7. MergedOrder' = MergedOrder
  <2>1. \A n : Place(n)' = Place(n)
    <3>1. \A n : {m \in DOMAIN input : Before(m, n)}'
                   = {m \in DOMAIN input : Before(m, n)}
      BY <1>1, <1>6
    <3>. QED
      BY <3>1 DEF Place
  <2>2. /\ MergedOrder = [k \in DOMAIN input |->
                            CHOOSE n \in DOMAIN input : Place(n) = k - 1]
        /\ MergedOrder' = [k \in DOMAIN input' |->
                             CHOOSE n \in DOMAIN input' : Place(n)' = k - 1]
    BY DEF MergedOrder, Place
  <2>3. \A k : (CHOOSE n \in DOMAIN input' : Place(n)' = k - 1)
                = CHOOSE n \in DOMAIN input : Place(n) = k - 1
    BY <1>1, <2>1
  <2>. QED
    BY <1>1, <2>2, <2>3
<1>8. MergedIntents' = MergedIntents
  BY <1>1, <1>2, <1>7 DEF MergedIntents
<1>9. \A j : RecordedOf(j)' = RecordedOf(j)
  BY <1>8 DEF RecordedOf
<1>10. \A n : HeldByAgent(n)' <=> HeldByAgent(n)
  BY <1>1, <1>2 DEF HeldByAgent
<1>. QED
  BY <1>8, <1>9, <1>10

\* What is left of a list, and the rest of it.
Rest(f, t, m) == [k \in 1..m |-> f[t + k]]

LEMMA RestOfRest ==
    ASSUME NEW f, NEW t \in Nat, NEW m \in Nat, Rest(f, t, m) # <<>>
    PROVE  /\ m - 1 \in Nat
           /\ Head(Rest(f, t, m)) = f[t + 1]
           /\ Tail(Rest(f, t, m)) = Rest(f, t + 1, m - 1)
<1>. DEFINE s == Rest(f, t, m)
            S == {f[t + k] : k \in 1..m}
<1>1. s \in Seq(S) /\ Len(s) = m /\ \A k \in 1..m : s[k] = f[t + k]
  <2>1. s \in [1..m -> S] /\ \A k \in 1..m : s[k] = f[t + k]
    BY DEF Rest
  <2>. HIDE DEF s, S
  <2>. QED
    BY <2>1
<1>2. m # 0
  <2>1. m = 0 => s = <<>>
    BY <1>1
  <2>. QED
    BY <2>1
<1>. HIDE DEF s, S
<1>3. Head(s) = f[t + 1]
  BY <1>1, <1>2
<1>4. /\ Tail(s) \in Seq(S) /\ Len(Tail(s)) = m - 1
      /\ \A k \in 1..(m - 1) : Tail(s)[k] = s[k + 1]
  BY <1>1, <1>2
<1>5. Tail(s) = [k \in 1..(m - 1) |-> Tail(s)[k]]
  <2>1. \A q : q \in Seq(S) => q = [k \in 1..Len(q) |-> q[k]]
    OBVIOUS
  <2>2. Tail(s) = [k \in 1..Len(Tail(s)) |-> Tail(s)[k]]
    BY <1>4, <2>1
  <2>. QED
    BY <1>4, <2>2
<1>6. \A k \in 1..(m - 1) : Tail(s)[k] = f[(t + 1) + k]
  <2>1. \A k \in 1..(m - 1) : k + 1 \in 1..m /\ t + (k + 1) = (t + 1) + k
    BY <1>2
  <2>. QED
    BY <1>1, <1>4, <2>1
<1>7. Tail(s) = Rest(f, t + 1, m - 1)
  BY <1>5, <1>6 DEF Rest
<1>. QED
  BY <1>2, <1>3, <1>7 DEF s

LEMMA RecordedOfNext ==
    ASSUME NEW j \in Nat
    PROVE  /\ Store!CommitMode(MergedIntents[j + 1]) = "auto" =>
                 RecordedOf(j + 1) = RecordedOf(j)
           /\ Store!CommitMode(MergedIntents[j + 1]) # "auto" =>
                 Cardinality(RecordedOf(j + 1)) = Cardinality(RecordedOf(j)) + 1
           /\ Cardinality(RecordedOf(0)) = 0
<1>1. 1..(j + 1) = 1..j \cup {j + 1} /\ j + 1 \notin 1..j /\ 1..0 = {}
  OBVIOUS
<1>2. Store!CommitMode(MergedIntents[j + 1]) = "auto" =>
         RecordedOf(j + 1) = RecordedOf(j)
  BY <1>1 DEF RecordedOf
<1>3. Store!CommitMode(MergedIntents[j + 1]) # "auto" =>
         RecordedOf(j + 1) = RecordedOf(j) \cup {j + 1}
  BY <1>1 DEF RecordedOf
<1>4. IsFiniteSet(RecordedOf(j)) /\ j + 1 \notin RecordedOf(j)
  <2>1. RecordedOf(j) \in SUBSET (1..j)
    BY DEF RecordedOf
  <2>2. IsFiniteSet(1..j)
    <3>1. 1 \in Int /\ j \in Int
      OBVIOUS
    <3>. QED
      BY <3>1, FS_Interval
  <2>. QED
    BY <1>1, <2>1, <2>2, FS_Subset
<1>5. Cardinality(RecordedOf(j) \cup {j + 1}) = Cardinality(RecordedOf(j)) + 1
  BY <1>4, FS_AddElement
<1>6. RecordedOf(0) = {}
  BY <1>1 DEF RecordedOf
<1>. QED
  BY <1>2, <1>3, <1>5, <1>6, FS_EmptySet

LEMMA ProgressInit == RunInit => Progressing
BY DEF RunInit, Progressing, Store!Init

\* The state of a commit under way.
UnderWay ==
    /\ phase # "idle"
    /\ committed \in Nat /\ recorded \in Nat /\ Taken <= Len(input)
    /\ todo = Rest(MergedIntents, Taken, Len(input) - Taken)
    /\ recorded = Cardinality(RecordedOf(Taken))
    /\ phase # "intents" => Taken = Len(input)

LEMMA ProgressNext ==
    MergeInv /\ Progressing /\ [RunNext]_runVars => Progressing'
<1>. SUFFICES ASSUME MergeInv, Progressing, [RunNext]_runVars
              PROVE  Progressing'
  OBVIOUS
<1>. USE DEF progress, files, memory, store
<1>a. input \in Seq(IntentPool) /\ Len(input) \in Nat
  BY DEF MergeInv, CallInv, IInv, TypeOK
<1>b. run = "committing" => UnderWay
  BY DEF Progressing, UnderWay, Rest
<1>c. ASSUME run' = "committing", UnderWay' PROVE Progressing'
  BY <1>c DEF Progressing, UnderWay, Rest
<1>1. ASSUME UNCHANGED <<phase, committed, recorded>>, run' # "committing",
             run' \in {"agents", "merging"} => run \in {"agents", "merging"}
      PROVE  Progressing'
  BY <1>1 DEF Progressing
<1>2. ASSUME phase' = "idle", committed' = 0, recorded' = 0,
             run' # "committing"
      PROVE  Progressing'
  BY <1>2 DEF Progressing
<1>3. ASSUME run = "committing", run' = "committing", phase' # "idle",
             phase' # "intents" => phase # "intents" \/ todo = <<>>,
             UNCHANGED vars, UNCHANGED <<committed, recorded, todo>>
      PROVE  Progressing'
  <2>1. Taken' = Taken /\ Len(input)' = Len(input)
    BY <1>3 DEF Taken, vars, args
  <2>2. todo = <<>> => Taken = Len(input)
    <3>1. ASSUME todo = <<>> PROVE Len(input) - Taken = 0
      <4>1. /\ todo = Rest(MergedIntents, Taken, Len(input) - Taken)
            /\ Len(input) - Taken \in Nat
        BY <1>3, <1>a, <1>b DEF UnderWay, Taken
      <4>2. DOMAIN todo = 1..(Len(input) - Taken)
        BY <4>1 DEF Rest
      <4>3. DOMAIN todo = {}
        BY <3>1
      <4>. QED
        BY <4>1, <4>2, <4>3
    <3>. QED
      BY <1>3, <1>a, <1>b, <3>1 DEF UnderWay, Taken
  <2>3. UnderWay'
    BY <1>3, <1>b, <2>1, <2>2, HandedOverStands DEF UnderWay, Rest
  <2>. QED
    BY <1>3, <1>c, <2>3
<1>4. CASE HandOver
  <2>1. /\ UNCHANGED vars /\ UNCHANGED <<committed, recorded>>
        /\ phase' = "intents" /\ todo' = MergedIntents /\ run' = "committing"
        /\ run = "merging"
    BY <1>4 DEF HandOver, Store!Begin
  <2>2. committed = 0 /\ recorded = 0
    BY <2>1 DEF Progressing
  <2>3. MergedIntents = Rest(MergedIntents, 0, Len(input))
    BY <1>a DEF MergedIntents, Rest
  <2>4. Taken' = 0 /\ Len(input)' = Len(input) /\ Len(input) - 0 = Len(input)
    BY <1>a, <2>1, <2>2 DEF Taken, vars, args
  <2>5. Cardinality(RecordedOf(0)) = 0
    BY RecordedOfNext
  <2>6. /\ todo' = Rest(MergedIntents', Taken', Len(input)' - Taken')
        /\ recorded' = Cardinality(RecordedOf(0)')
    BY <2>1, <2>2, <2>3, <2>4, <2>5, HandedOverStands
  <2>7. UnderWay'
    BY <1>a, <2>1, <2>2, <2>4, <2>6 DEF UnderWay
  <2>. QED
    BY <1>c, <2>1, <2>7
<1>5. CASE Committing
  <2>1. /\ run = "committing" /\ run' = "committing" /\ UNCHANGED vars
        /\ MergedIntents' = MergedIntents /\ Len(input)' = Len(input)
    BY <1>5, HandedOverStands DEF Committing, vars, args
  <2>. DEFINE m == Len(input) - Taken
  <2>2. /\ UnderWay /\ Taken \in Nat /\ m \in Nat
        /\ committed \in Nat /\ recorded \in Nat
    BY <1>a, <1>b, <2>1 DEF UnderWay, Taken
  <2>3. CASE Store!WriteSnapshot \/ Store!WriteAtoms
    <3>1. /\ phase' # "idle" /\ UNCHANGED <<committed, recorded, todo>>
          /\ phase # "intents" \/ todo = <<>>
      BY <2>3 DEF Store!WriteSnapshot, Store!WriteAtoms
    <3>. QED
      BY <1>3, <2>1, <3>1
  <2>4. ASSUME phase' = "intents", todo # <<>>, todo' = Tail(todo),
               \/ /\ Store!CommitMode(Head(todo)) = "auto"
                  /\ committed' = committed + 1 /\ recorded' = recorded
               \/ /\ Store!CommitMode(Head(todo)) # "auto"
                  /\ committed' = committed /\ recorded' = recorded + 1
        PROVE  Progressing'
    <3>1. /\ m - 1 \in Nat /\ Head(todo) = MergedIntents[Taken + 1]
          /\ Tail(todo) = Rest(MergedIntents, Taken + 1, m - 1)
      <4>1. todo = Rest(MergedIntents, Taken, m)
        BY <2>2 DEF UnderWay
      <4>. HIDE DEF m
      <4>. QED
        BY <2>2, <2>4, <4>1, RestOfRest
    <3>2. /\ committed' \in Nat /\ recorded' \in Nat
          /\ Taken' = Taken + 1
          /\ Taken + 1 <= Len(input) /\ m - 1 = Len(input) - (Taken + 1)
      BY <1>a, <2>2, <2>4, <3>1 DEF Taken
    <3>3. recorded' = Cardinality(RecordedOf(Taken + 1))
      <4>1. CASE Store!CommitMode(Head(todo)) = "auto"
        BY <2>2, <2>4, <3>1, <4>1, RecordedOfNext DEF UnderWay
      <4>2. CASE Store!CommitMode(Head(todo)) # "auto"
        BY <2>2, <2>4, <3>1, <4>2, RecordedOfNext DEF UnderWay
      <4>. QED
        BY <4>1, <4>2
    <3>4. recorded' = Cardinality(RecordedOf(Taken)')
      <4>1. RecordedOf(Taken)' = RecordedOf(Taken + 1)
        BY <2>1, <3>2 DEF RecordedOf
      <4>. QED
        BY <3>3, <4>1
    <3>5. todo' = Rest(MergedIntents', Taken', Len(input)' - Taken')
      BY <2>1, <2>4, <3>1, <3>2
    <3>6. UnderWay'
      <4>1. /\ phase' # "idle" /\ Taken' <= Len(input)'
            /\ recorded' = Cardinality(RecordedOf(Taken))'
        BY <2>1, <2>4, <3>2, <3>4
      <4>. QED
        BY <2>4, <3>2, <3>5, <4>1 DEF UnderWay
    <3>. QED
      BY <1>c, <2>1, <3>6
  <2>5. CASE Store!ApplyIntent
    BY <2>4, <2>5 DEF Store!ApplyIntent
  <2>6. CASE Store!RecordProposal
    BY <2>4, <2>6 DEF Store!RecordProposal
  <2>. QED
    BY <1>5, <2>3, <2>5, <2>6 DEF Committing
<1>6. CASE Publish
  <2>1. /\ run = "committing" /\ run' = "committing" /\ UNCHANGED vars
        /\ phase' # "idle" /\ phase # "intents"
        /\ UNCHANGED <<committed, recorded, todo>>
    BY <1>6 DEF Publish, Store!WriteManifest
  <2>. QED
    BY <1>3, <2>1
<1>7. CASE Finish \/ NextTurn
  BY <1>2, <1>7 DEF Finish, NextTurn, Store!WriteLinks, Store!ForgetBatch
<1>8. CASE KillDuringCommit
  BY <1>2, <1>8 DEF KillDuringCommit, Store!Crash, Store!ForgetBatch
<1>9. CASE KillBeforeCommit \/ FailRun \/ Merging \/ Collect
  BY <1>1, <1>9 DEF KillBeforeCommit, FailRun, Merging, Collect
<1>10. ASSUME NEW a \in DOMAIN agents, Return(a) \/ Raise(a)
       PROVE  Progressing'
  BY <1>1, <1>10 DEF Return, Raise
<1>11. CASE UNCHANGED runVars
  <2>1. UNCHANGED <<run, phase, committed, recorded, todo>> /\ UNCHANGED vars
    BY <1>11 DEF runVars
  <2>2. CASE run = "committing"
    BY <1>3, <1>b, <2>1, <2>2 DEF UnderWay
  <2>3. CASE run # "committing"
    BY <1>1, <2>1, <2>3
  <2>. QED
    BY <2>2, <2>3
<1>. QED
  BY <1>4, <1>5, <1>6, <1>7, <1>8, <1>9, <1>10, <1>11 DEF RunNext, Steps

-----------------------------------------------------------------------------
(* The summary adds the rounds up.                                           *)

LEMMA EmittedNext ==
    ASSUME OnTask
    PROVE  /\ Emitted(0) = 0 /\ Emitted(turn - 1) \in Nat
           /\ Emitted(turn) = Emitted(turn - 1) + Len(Team[turn])
           /\ Len(Team[turn]) \in Nat
           /\ Emitted(Len(Team)) = Len(FlattenSeq(Team))
<1>. DEFINE S == UNION {ToSet(Team[a]) : a \in DOMAIN Team}
<1>1. /\ Len(Team) \in Nat /\ Len(Team) # 0 /\ DOMAIN Team = 1..Len(Team)
      /\ turn \in 1..Len(Team)
      /\ \A a \in 1..Len(Team) : /\ Team[a] \in Seq(ToSet(Team[a]))
                                /\ Len(Team[a]) \in Nat
  BY TeamsAreListed DEF OnTask
<1>2. \A a \in 1..Len(Team) : Team[a] \in Seq(S)
  <2>1. \A a \in 1..Len(Team) : ToSet(Team[a]) \subseteq S
    BY <1>1
  <2>2. \A T, U, q : T \subseteq U /\ q \in Seq(T) => q \in Seq(U)
    OBVIOUS
  <2>. HIDE DEF S
  <2>. QED
    BY <1>1, <2>1, <2>2
<1>. HIDE DEF S
<1>3. \A k \in 1..Len(Team) : Joined(Team)[k] \in Seq(S)
  BY <1>1, <1>2, JoinedIsList
<1>4. /\ FlattenSeq(Team) = Joined(Team)[Len(Team)]
      /\ \A k \in 1..Len(Team) :
            Joined(Team)[k] = IF k = 1 THEN Team[k]
                              ELSE Joined(Team)[k - 1] \o Team[k]
  BY <1>1, JoinedStepByStep
<1>5. CASE turn = 1
  <2>1. Joined(Team)[turn] = Team[turn]
    BY <1>1, <1>4, <1>5
  <2>. QED
    BY <1>1, <1>4, <1>5, <2>1 DEF Emitted
<1>6. CASE turn # 1
  <2>1. turn - 1 \in 1..Len(Team) /\ turn # 0 /\ turn - 1 # 0
    BY <1>1, <1>6
  <2>2. Joined(Team)[turn] = Joined(Team)[turn - 1] \o Team[turn]
    BY <1>1, <1>4, <1>6
  <2>3. Len(Joined(Team)[turn]) = Len(Joined(Team)[turn - 1]) + Len(Team[turn])
    BY <1>1, <1>2, <1>3, <2>1, <2>2
  <2>4. Len(Joined(Team)[turn - 1]) \in Nat
    BY <1>3, <2>1
  <2>. QED
    BY <1>1, <1>4, <2>1, <2>3, <2>4 DEF Emitted
<1>. QED
  BY <1>5, <1>6

LEMMA ReportInit == RunInit => Reporting
<1>. SUFFICES ASSUME RunInit PROVE Reporting
  OBVIOUS
<1>1. /\ run = "agents" /\ turn = 1 /\ summary = [c \in Counts |-> 0]
  BY DEF RunInit, NoSummary
<1>2. /\ "committed" \in Counts /\ "recorded" \in Counts
  BY DEF Counts
<1>3. Emitted(turn - 1) = 0
  BY <1>1 DEF Emitted
<1>. QED
  BY <1>1, <1>2, <1>3 DEF Reporting, SummaryAccountsForTeam

\* What a round adds.
LEMMA RoundAdds ==
    ASSUME MergeInv, Progressing, run = "committing", Store!WriteLinks,
           summary["committed"] \in Nat, summary["recorded"] \in Nat
    PROVE  LET s == RoundReport
               before == IF Parallel THEN 0
                         ELSE summary["committed"] + summary["recorded"]
           IN  /\ DOMAIN s = Counts
               /\ s["committed"] \in Nat /\ s["recorded"] \in Nat
               /\ s["committed"] + s["recorded"] = before + RoundLength
               /\ Parallel => s["recorded"]
                                = metrics["review"] + metrics["blocked"]
                                    + Cardinality({n \in DOMAIN input :
                                                     HeldByAgent(n)})
<1>1. /\ phase = "links" /\ committed \in Nat /\ recorded \in Nat
      /\ committed + recorded = Len(input)
      /\ recorded = Cardinality(RecordedOf(Taken))
      /\ Taken = Len(input)
  BY DEF Progressing, Store!WriteLinks, Taken
<1>2. Len(input) = RoundLength /\ stage = "done" /\ CallInv
      /\ input \in Seq(IntentPool)
  BY DEF MergeInv, InStep, CallInv, IInv, TypeOK
<1>3. recorded = metrics["review"] + metrics["blocked"]
                   + Cardinality({n \in DOMAIN input : HeldByAgent(n)})
  BY <1>1, <1>2, AllAreHandedOver, HeldBackCount
<1>4. /\ "committed" \in Counts /\ "recorded" \in Counts
      /\ "committed" \notin NotQueued /\ "recorded" \notin NotQueued
  BY DEF Counts, NotQueued
<1>5. /\ DOMAIN Reported = Counts
      /\ Reported["committed"] = committed /\ Reported["recorded"] = recorded
  BY <1>4 DEF Reported
<1>6. /\ DOMAIN QueueReported = Counts
      /\ QueueReported["committed"] = summary["committed"] + committed
      /\ QueueReported["recorded"] = summary["recorded"] + recorded
  BY <1>4, <1>5 DEF QueueReported
<1>7. CASE Parallel
  <2>1. RoundReport = Reported
    BY <1>7 DEF RoundReport
  <2>. QED
    BY <1>1, <1>2, <1>3, <1>5, <1>7, <2>1
<1>8. CASE ~Parallel
  <2>1. RoundReport = QueueReported
    BY <1>8 DEF RoundReport
  <2>2. \A a, b, c, r \in Nat : (a + c) + (b + r) = (a + b) + (c + r)
    OBVIOUS
  <2>3. (summary["committed"] + committed) + (summary["recorded"] + recorded)
           = (summary["committed"] + summary["recorded"])
                + (committed + recorded)
    BY <1>1, <2>2
  <2>4. committed + recorded = RoundLength
    BY <1>1, <1>2
  <2>5. QueueReported["committed"] \in Nat /\ QueueReported["recorded"] \in Nat
    BY <1>1, <1>6
  <2>. QED
    BY <1>6, <1>8, <2>1, <2>3, <2>4, <2>5
<1>. QED
  BY <1>7, <1>8

\* What a finished run may report.
AddedUp(s) ==
    /\ s["committed"] + s["recorded"] = Len(FlattenSeq(Team))
    /\ Parallel => s["recorded"] = metrics["review"] + metrics["blocked"]
          + Cardinality({n \in DOMAIN input : HeldByAgent(n)})

LEMMA AddedUpStands ==
    ASSUME UNCHANGED vars, UNCHANGED <<schedule, task>>, AddedUp(summary')
    PROVE  SummaryAccountsForTeam'
<1>1. Cardinality({n \in DOMAIN input : HeldByAgent(n)})'
         = Cardinality({n \in DOMAIN input : HeldByAgent(n)})
  <2>1. input' = input /\ \A n : HeldByAgent(n)' <=> HeldByAgent(n)
    BY HandedOverStands DEF vars, args
  <2>2. {n \in DOMAIN input' : HeldByAgent(n)'}
           = {n \in DOMAIN input : HeldByAgent(n)}
    BY <2>1
  <2>. QED
    BY <2>2
<1>2. Len(FlattenSeq(Team')) = Len(FlattenSeq(Team)) /\ metrics' = metrics
  BY DEF Team, vars
<1>3. summary'["committed"] + summary'["recorded"] = Len(FlattenSeq(Team'))
  BY <1>2 DEF AddedUp
<1>4. ASSUME Parallel'
      PROVE  summary'["recorded"]
                = metrics'["review"] + metrics'["blocked"]
                    + Cardinality({n \in DOMAIN input : HeldByAgent(n)})'
  <2>1. Parallel
    BY <1>4 DEF Parallel
  <2>2. summary'["recorded"]
           = metrics["review"] + metrics["blocked"]
               + Cardinality({n \in DOMAIN input : HeldByAgent(n)})
    BY <2>1 DEF AddedUp
  <2>. QED
    BY <1>1, <1>2, <2>2
<1>. QED
  BY <1>3, <1>4 DEF SummaryAccountsForTeam

LEMMA ReportNext ==
    MergeInv /\ Progressing /\ Reporting /\ [RunNext]_runVars => Reporting'
<1>. SUFFICES ASSUME MergeInv, Progressing, Reporting, [RunNext]_runVars
              PROVE  Reporting'
  OBVIOUS
<1>. USE DEF progress, files, memory, store
<1>a. OnTask
  BY DEF MergeInv
<1>1. ASSUME UNCHANGED <<schedule, task, turn, summary>>, run # "done",
             run' # "done"
      PROVE  Reporting'
  BY <1>1 DEF Reporting, SummaryAccountsForTeam, Emitted, Team, Parallel
<1>2. CASE FailRun \/ Merging \/ HandOver \/ Committing \/ Publish
           \/ KillBeforeCommit \/ KillDuringCommit
  BY <1>1, <1>2 DEF FailRun, Merging, HandOver, Committing, Publish,
     KillBeforeCommit, KillDuringCommit
<1>3. ASSUME NEW a \in DOMAIN agents, Return(a) \/ Raise(a)
      PROVE  Reporting'
  BY <1>1, <1>3 DEF Return, Raise
<1>4. CASE Collect
  <2>1. /\ run = "agents" /\ run' = "merging" /\ UNCHANGED <<schedule, task, turn>>
    BY <1>4 DEF Collect
  <2>2. CASE Parallel
    BY <1>1, <1>4, <2>1, <2>2 DEF Collect
  <2>3. CASE ~Parallel
    <3>1. /\ DOMAIN summary' = DOMAIN summary
          /\ summary'["committed"] = summary["committed"]
          /\ summary'["recorded"] = summary["recorded"]
      <4>1. /\ DOMAIN summary = Counts
            /\ "committed" \in Counts /\ "recorded" \in Counts
        BY DEF Reporting, Counts
      <4>. DEFINE more == summary["unsafe"] + Overwriting(input').count
      <4>2. summary' = [summary EXCEPT !["unsafe"] = more]
        BY <1>4, <2>3 DEF Collect
      <4>. HIDE DEF more
      <4>. QED
        BY <4>1, <4>2
    <3>. QED
      BY <2>1, <3>1
         DEF Reporting, SummaryAccountsForTeam, Emitted, Team, Parallel
  <2>. QED
    BY <2>2, <2>3
<1>5. ASSUME run = "committing", Store!WriteLinks, summary' = RoundReport,
             UNCHANGED <<schedule, task>>
      PROVE  /\ DOMAIN summary' = Counts
             /\ summary'["committed"] \in Nat /\ summary'["recorded"] \in Nat
             /\ summary'["committed"] + summary'["recorded"]
                   = IF Parallel THEN Len(FlattenSeq(Team)) ELSE Emitted(turn)
             /\ Parallel => summary'["recorded"]
                              = metrics["review"] + metrics["blocked"]
                                  + Cardinality({n \in DOMAIN input :
                                                   HeldByAgent(n)})
  <2>1. /\ summary["committed"] \in Nat /\ summary["recorded"] \in Nat
        /\ ~Parallel => summary["committed"] + summary["recorded"]
                          = Emitted(turn - 1)
    BY <1>5 DEF Reporting
  <2>2. /\ Emitted(turn - 1) \in Nat
        /\ Emitted(turn) = Emitted(turn - 1) + Len(Team[turn])
    BY <1>a, EmittedNext
  <2>3. RoundLength = IF Parallel THEN Len(FlattenSeq(Team)) ELSE Len(Team[turn])
    BY DEF RoundLength
  <2>4. Len(input) = RoundLength /\ Len(input) \in Nat
    BY <1>5 DEF MergeInv, InStep, CallInv, IInv, TypeOK
  <2>. QED
    BY <1>5, <2>1, <2>2, <2>3, <2>4, RoundAdds
<1>6. CASE Finish
  <2>1. /\ run = "committing" /\ Store!WriteLinks /\ summary' = RoundReport
        /\ LastRound /\ run' = "done" /\ UNCHANGED vars
        /\ UNCHANGED <<schedule, task, turn>>
    BY <1>6 DEF Finish
  <2>2. IF Parallel THEN TRUE ELSE Emitted(turn) = Len(FlattenSeq(Team))
    BY <1>a, <2>1, EmittedNext DEF LastRound
  <2>3. AddedUp(summary')
    BY <1>5, <2>1, <2>2 DEF AddedUp
  <2>4. SummaryAccountsForTeam'
    BY <2>1, <2>3, AddedUpStands
  <2>. QED
    BY <1>5, <2>1, <2>4 DEF Reporting
<1>7. CASE NextTurn
  <2>1. /\ run = "committing" /\ Store!WriteLinks /\ summary' = RoundReport
        /\ ~LastRound /\ run' = "agents" /\ turn' = turn + 1
        /\ UNCHANGED <<schedule, task>>
    BY <1>7 DEF NextTurn
  <2>2. turn \in Nat /\ turn' - 1 = turn
    BY <1>a, <2>1 DEF OnTask
  <2>3. ~Parallel /\ ~Parallel' /\ Emitted(turn - 1)' = Emitted(turn)
    <3>1. ~Parallel /\ ~Parallel' /\ Team' = Team
      BY <2>1 DEF LastRound, Parallel, Team
    <3>. QED
      BY <2>2, <3>1 DEF Emitted
  <2>4. summary'["committed"] + summary'["recorded"] = Emitted(turn - 1)'
    BY <1>5, <2>1, <2>2, <2>3
  <2>. QED
    BY <1>5, <2>1, <2>3, <2>4 DEF Reporting, SummaryAccountsForTeam
<1>8. CASE UNCHANGED runVars
  <2>1. UNCHANGED <<schedule, task, turn, summary, run>> /\ UNCHANGED vars
    BY <1>8 DEF runVars
  <2>2. CASE run # "done"
    BY <1>1, <2>1, <2>2
  <2>3. CASE run = "done"
    <3>1. AddedUp(summary')
      BY <2>1, <2>3 DEF Reporting, SummaryAccountsForTeam, AddedUp
    <3>2. SummaryAccountsForTeam'
      BY <2>1, <3>1, AddedUpStands
    <3>. QED
      BY <2>1, <2>3, <3>2 DEF Reporting
  <2>. QED
    BY <2>2, <2>3
<1>. QED
  BY <1>2, <1>3, <1>4, <1>6, <1>7, <1>8 DEF RunNext, Steps

\* However the merge stage routed the intents of a round, and in whatever order
\* it handed them over, the numbers a finished run reports add up to what its
\* agents emitted.
THEOREM SummariesAddUp == RunSpec => []SummaryAccountsForTeam
<1>. DEFINE AccountInv == MergeInv /\ Progressing /\ Reporting
<1>1. RunInit => AccountInv
  BY MergeInit, ProgressInit, ReportInit
<1>2. AccountInv /\ [RunNext]_runVars => AccountInv'
  BY MergeNext, ProgressNext, ReportNext
<1>3. AccountInv => SummaryAccountsForTeam
  BY DEF Reporting
<1>. QED
  BY <1>1, <1>2, <1>3, PTL DEF RunSpec
=============================================================================
