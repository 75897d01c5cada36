-------------------------- MODULE BatchOrder_proofs --------------------------
(***************************************************************************)
(* What the merge stage makes of a batch does not depend on its order, for *)
(* every pool of intents, every batch and every permutation of it.         *)
(***************************************************************************)
EXTENDS BatchOrder, ConflictResolver_proofs, FunctionTheorems

-----------------------------------------------------------------------------
(* What a call returns, in terms of its arguments alone.                   *)

Judged(n) == Verdict(input, n, mode, scenario)

FlaggedOf(S) == {n \in S : Flagged(Judged(n))}
BlockedOf(S) == {n \in S : Judged(n).blocked}

SurvivorsOf(G) == G \ (FlaggedOf(G) \cup StaleReaders(G))

\* A group whose intents are decided one by one.
Free(G) == ~AuthorityContested(G) /\ ~GroupHeld(G)

CommitsOf(G) ==
    IF AuthorityContested(G) THEN HighAuthority(G)
    ELSE IF GroupHeld(G) \/ Conflicting(SurvivorsOf(G)) THEN {}
    ELSE SurvivorsOf(G)

BlocksOf(G) == IF Free(G) THEN BlockedOf(G) ELSE {}

Due(n) ==
    IF n \in CommitsOf(GroupOf(n)) THEN "commit"
    ELSE IF n \in BlocksOf(GroupOf(n)) THEN "blocked" ELSE "review"

\* What a group adds to a counter is the size of a set of parts of the group:
\* of its single members, or of the group itself.
Singles(S) == {{n} : n \in S}
Whole(G, c) == IF c THEN {G} ELSE {}

\* The lane of the group, and the routing of what is flagged in it.
HeldBack(G) ==
    IF AuthorityContested(G) THEN G \ HighAuthority(G)
    ELSE IF GroupHeld(G) THEN G ELSE FlaggedOf(G) \ BlockedOf(G)

RebasedOf(G) == IF AuthorityContested(G) THEN HeldBack(G) ELSE {}

Locked(G) == ~AuthorityContested(G) /\ ~ReviewGated(G) /\ LockContended(G)

Disputed(G) ==
    \/ AuthorityContested(G)
    \/ IF ReviewGated(G) THEN SemanticConflict(G)
       ELSE LockContended(G) \/ FlaggedOf(G) # {}

Entering(f, G) ==
    CASE f = "review"       -> Singles(HeldBack(G))
      [] f = "routed"       -> Singles(FlaggedOf(HeldBack(G)))
      [] f = "blocked"      -> Singles(BlocksOf(G))
      [] f = "rebase"       -> Singles(RebasedOf(G))
      [] f = "lock"         -> Whole(G, Locked(G))
      [] f = "semantic"     -> Whole(G, SemanticConflict(G))
      [] f = "readsetStale" -> Singles(StaleReaders(G))
      [] f = "conflicts"    -> Whole(G, Disputed(G))
      [] OTHER              -> {}

\* The validation of read sets.
Rereading(f, G) ==
    IF f \in {"review", "readsetReview"} /\ Free(G)
    THEN Singles(StaleReaders(G) \ FlaggedOf(G)) ELSE {}

\* The merge of what is left.
UnsafeIn(S) ==
    IF AllAppendOnly(S)
    THEN IF mode = "uniform_append_only" THEN StateWritesIn(S) ELSE {}
    ELSE IF Cardinality(S) = 1
    THEN {n \in S : UnsafeHighRiskAutoCommit(input[n], mode)}
    ELSE IF MergesUnchecked(S) THEN StateWritesIn(S)
    ELSE IF ~SemanticConflict(S) /\ mode = "adaptive_no_workspace_lock"
    THEN WorkspaceWritesIn(S) ELSE {}

Merges(S) ==
    \/ AllAppendOnly(S)
    \/ /\ Cardinality(S) > 1 /\ ~MergesUnchecked(S) /\ ~SemanticConflict(S)
       /\ UnsafeIn(S) = {}

Merging(f, G) ==
    IF ~Free(G) \/ SurvivorsOf(G) = {} THEN {}
    ELSE CASE f = "review"     -> Singles(IF Conflicting(SurvivorsOf(G))
                                          THEN SurvivorsOf(G) ELSE {})
           [] f = "conflicts"  -> Whole(G, Conflicting(SurvivorsOf(G)))
           [] f = "unsafe"     -> Singles(UnsafeIn(SurvivorsOf(G)))
           [] f = "autoMerges" -> Whole(G, Merges(SurvivorsOf(G)))
           [] OTHER            -> {}

Adds(f, r, G) ==
    IF r = 1 THEN Entering(f, G)
    ELSE IF r = 2 THEN Rereading(f, G) ELSE Merging(f, G)

Groups == {GroupOf(n) : n \in DOMAIN input}

\* What the groups add to a counter in the rounds that are over, each a pair
\* of a group and the number of the round.
Tokens(f, over) ==
    {t \in (SUBSET DOMAIN input) \X (1..3) :
        \E G \in Groups : <<G, t[2]>> \in over /\ t[1] \in Adds(f, t[2], G)}

AllOver == Groups \X (1..3)

DueToCommit == {n \in DOMAIN input : Due(n) = "commit"}

\* The accepted stale writes, which are counted last.
DueDetected == {n \in DueToCommit : Judged(n).stale}
DueDeclared == {n \in DueToCommit : OracleStale(input, n, scenario)}

Accepted ==
    IF Cardinality(DueDetected) >= Cardinality(DueDeclared)
    THEN Cardinality(DueDetected) ELSE Cardinality(DueDeclared)

Total(f) ==
    IF f \in {"unsafe", "staleAccepted"}
    THEN Cardinality(Tokens(f, AllOver)) + Accepted
    ELSE Cardinality(Tokens(f, AllOver))

-----------------------------------------------------------------------------
(* The invariant of the calls. *)

\* The round the current group has come to.
Turn == IF stage = "readset" THEN 2 ELSE IF stage = "merge" THEN 3 ELSE 1

Over ==
    {t \in Groups \X (1..3) :
        t[1] \cap Pending = {} \/ (t[1] \cap live # {} /\ t[2] < Turn)}

\* Each counter is at what the groups have added so far.
Counted ==
    \A f \in MetricNames :
        metrics[f] = IF stage = "done" THEN Total(f)
                     ELSE Cardinality(Tokens(f, Over))

NothingIsLeft == stage = "done" => Pending = {}

\* What the first call returned is what is due to the intents of the second.
Recorded ==
    call = 2 =>
        /\ \A n \in DOMAIN input : before.outcome[order[n]] = Due(n)
        /\ before.metrics = [f \in MetricNames |-> Total(f)]

CallInv == IInv /\ RInv /\ VerdictsStand /\ NothingIsLeft /\ Counted

BInv == CallInv /\ Recorded

-----------------------------------------------------------------------------
(* Counting. *)

\* A set that can be matched with a finite one is as large.
LEMMA MatchedSets ==
    ASSUME NEW S, IsFiniteSet(S), NEW T, NEW F \in [S -> T],
           \A x, y \in S : F[x] = F[y] => x = y,
           \A z \in T : \E x \in S : F[x] = z
    PROVE  IsFiniteSet(T) /\ Cardinality(T) = Cardinality(S)
<1>1. F \in Bijection(S, T)
  BY Fun_IsBij
<1>2. ExistsBijection(S, T)
  BY <1>1 DEF ExistsBijection
<1>. QED
  BY <1>2, FS_Bijection

LEMMA SinglesCount ==
    ASSUME input \in Seq(IntentPool), NEW S \in SUBSET DOMAIN input
    PROVE  Cardinality(Singles(S)) = Cardinality(S)
<1>. DEFINE F == [n \in S |-> {n}]
<1>1. IsFiniteSet(S)
  BY BatchIsFinite
<1>2. F \in [S -> Singles(S)]
  BY DEF Singles
<1>3. \A x, y \in S : F[x] = F[y] => x = y
  OBVIOUS
<1>4. \A z \in Singles(S) : \E x \in S : F[x] = z
  BY DEF Singles
<1>. HIDE DEF F
<1>. QED
  BY <1>1, <1>2, <1>3, <1>4, MatchedSets

LEMMA WholeCount ==
    \A G, c : Cardinality(Whole(G, c)) = One(c)
BY FS_EmptySet, FS_Singleton DEF Whole, One

LEMMA TokensAreFinite ==
    ASSUME input \in Seq(IntentPool), NEW f, NEW over
    PROVE  IsFiniteSet(Tokens(f, over)) /\ Cardinality(Tokens(f, over)) \in Nat
<1>. DEFINE all == (SUBSET DOMAIN input) \X (1..3)
<1>1. IsFiniteSet(SUBSET DOMAIN input)
  BY BatchIsFinite, FS_SUBSET
<1>2. IsFiniteSet(all)
  <2>1. \A k \in Nat : IsFiniteSet(1..k)
    BY FS_Interval
  <2>2. IsFiniteSet(1..3)
    BY <2>1, 3 \in Nat
  <2>. QED
    BY <1>1, <2>2, FS_Product
<1>3. Tokens(f, over) \in SUBSET all
  BY DEF Tokens
<1>4. IsFiniteSet(Tokens(f, over))
  <2>. HIDE DEF all
  <2>. QED
    BY <1>2, <1>3, FS_Subset
<1>. QED
  BY <1>4, FS_CardinalityType

\* The groups are apart, and none is empty.
LEMMA GroupsAreApart ==
    \A G \in Groups : /\ G # {} /\ G \in SUBSET DOMAIN input
                      /\ \A n \in G : G = GroupOf(n)
                      /\ \A H \in Groups : G \cap H # {} => G = H
BY DEF Groups, GroupOf

\* What a group adds to a counter are parts of the group, and none is empty.
LEMMA GroupAddsItsOwn ==
    ASSUME NEW f, NEW r, NEW G \in Groups
    PROVE  \A S \in Adds(f, r, G) : S # {} /\ S \in SUBSET G
<1>1. G # {}
  BY GroupsAreApart
<1>2. /\ HeldBack(G) \subseteq G /\ BlocksOf(G) \subseteq G
      /\ StaleReaders(G) \subseteq G /\ SurvivorsOf(G) \subseteq G
      /\ RebasedOf(G) \subseteq G
  BY DEF HeldBack, RebasedOf, BlocksOf, StaleReaders, SurvivorsOf, FlaggedOf, BlockedOf
<1>3. /\ FlaggedOf(HeldBack(G)) \subseteq G
      /\ UnsafeIn(SurvivorsOf(G)) \subseteq G
  BY <1>2 DEF FlaggedOf, UnsafeIn, StateWritesIn, WorkspaceWritesIn
<1>4. \A X \in SUBSET G : \A S \in Singles(X) : S # {} /\ S \in SUBSET G
  BY DEF Singles
<1>5. \A c : \A S \in Whole(G, c) : S # {} /\ S \in SUBSET G
  BY <1>1 DEF Whole
<1>6. \A S \in Entering(f, G) : S # {} /\ S \in SUBSET G
  BY <1>2, <1>3, <1>4, <1>5 DEF Entering
<1>7. \A S \in Rereading(f, G) : S # {} /\ S \in SUBSET G
  BY <1>2, <1>4 DEF Rereading
<1>8. \A S \in Merging(f, G) : S # {} /\ S \in SUBSET G
  BY <1>2, <1>3, <1>4, <1>5 DEF Merging
<1>. QED
  BY <1>6, <1>7, <1>8 DEF Adds

LEMMA PartsCount ==
    ASSUME input \in Seq(IntentPool), NEW f, NEW r \in 1..3, NEW G \in Groups
    PROVE  IsFiniteSet(Adds(f, r, G)) /\ Cardinality(Adds(f, r, G)) \in Nat
<1>1. Adds(f, r, G) \in SUBSET (SUBSET DOMAIN input)
  BY GroupAddsItsOwn, GroupsAreApart
<1>2. IsFiniteSet(SUBSET DOMAIN input)
  BY BatchIsFinite, FS_SUBSET
<1>3. IsFiniteSet(Adds(f, r, G))
  BY <1>1, <1>2, FS_Subset
<1>. QED
  BY <1>3, FS_CardinalityType

\* The r-th round of G is over, too.
Ending(over, G, r) == over \cup {<<G, r>>}

\* When a round of a group is over, the counter has what the group adds in it.
LEMMA RoundAdds ==
    ASSUME input \in Seq(IntentPool), NEW f, NEW r \in 1..3, NEW G \in Groups,
           NEW over, <<G, r>> \notin over
    PROVE  Cardinality(Tokens(f, Ending(over, G, r)))
             = Cardinality(Tokens(f, over)) + Cardinality(Adds(f, r, G))
<1>. DEFINE more == Ending(over, G, r)
<1>. USE DEF Ending
<1>. DEFINE new == {<<S, r>> : S \in Adds(f, r, G)}
            F == [S \in Adds(f, r, G) |-> <<S, r>>]
<1>1. \A S \in Adds(f, r, G) : /\ S # {} /\ S \in SUBSET G
                               /\ S \in SUBSET DOMAIN input
  BY GroupAddsItsOwn, GroupsAreApart
<1>2. IsFiniteSet(new) /\ Cardinality(new) = Cardinality(Adds(f, r, G))
  <2>1. F \in [Adds(f, r, G) -> new]
    OBVIOUS
  <2>2. \A x, y \in Adds(f, r, G) : F[x] = F[y] => x = y
    OBVIOUS
  <2>3. \A z \in new : \E x \in Adds(f, r, G) : F[x] = z
    OBVIOUS
  <2>4. IsFiniteSet(Adds(f, r, G))
    BY PartsCount
  <2>. HIDE DEF F, new
  <2>. QED
    BY <2>1, <2>2, <2>3, <2>4, MatchedSets
<1>3. Tokens(f, more) = Tokens(f, over) \cup new
  <2>1. ASSUME NEW S \in SUBSET DOMAIN input, NEW k \in 1..3
        PROVE  <<S, k>> \in Tokens(f, more)
                 <=> <<S, k>> \in Tokens(f, over) \/ <<S, k>> \in new
    <3>1. CASE k = r
      <4>1. <<S, k>> \in new <=> S \in Adds(f, r, G)
        BY <3>1
      <4>. QED
        BY <3>1, <4>1 DEF Tokens
    <3>2. CASE k # r
      <4>1. <<S, k>> \notin new
        BY <3>2
      <4>2. \A H : <<H, k>> \in more <=> <<H, k>> \in over
        BY <3>2
      <4>. QED
        BY <4>1, <4>2 DEF Tokens
    <3>. QED
      BY <3>1, <3>2
  <2>2. /\ Tokens(f, more) \subseteq (SUBSET DOMAIN input) \X (1..3)
        /\ Tokens(f, over) \subseteq (SUBSET DOMAIN input) \X (1..3)
        /\ new \subseteq (SUBSET DOMAIN input) \X (1..3)
    BY <1>1 DEF Tokens
  <2>3. \A t \in (SUBSET DOMAIN input) \X (1..3) :
           t \in Tokens(f, more) <=> t \in Tokens(f, over) \/ t \in new
    <3>. HIDE DEF new
    <3>. TAKE t \in (SUBSET DOMAIN input) \X (1..3)
    <3>1. PICK S \in SUBSET DOMAIN input, k \in 1..3 : t = <<S, k>>
      OBVIOUS
    <3>. QED
      BY <2>1, <3>1
  <2>. HIDE DEF new
  <2>. QED
    BY <2>2, <2>3
<1>4. Tokens(f, over) \cap new = {}
  <2>1. SUFFICES ASSUME NEW S \in Adds(f, r, G),
                        <<S, r>> \in Tokens(f, over)
                 PROVE  FALSE
    OBVIOUS
  <2>2. PICK H \in Groups : <<H, r>> \in over /\ S \in Adds(f, r, H)
    BY <2>1 DEF Tokens
  <2>3. S # {} /\ S \subseteq G /\ S \subseteq H /\ H \in Groups
    BY <1>1, <2>2, GroupAddsItsOwn
  <2>4. G = H
    BY <2>3, GroupsAreApart
  <2>. QED
    BY <2>2, <2>4
<1>5. IsFiniteSet(Tokens(f, over)) /\ Cardinality(Tokens(f, over)) \in Nat
  BY TokensAreFinite
<1>6. Cardinality(Adds(f, r, G)) \in Nat
  BY PartsCount
<1>7. Cardinality(Tokens(f, over) \cap new) = 0
  BY <1>4, FS_EmptySet
<1>. HIDE DEF new, more
<1>8. Cardinality(Tokens(f, over) \cup new)
        = Cardinality(Tokens(f, over)) + Cardinality(new)
            - Cardinality(Tokens(f, over) \cap new)
  BY <1>2, <1>5, FS_Union
<1>. HIDE DEF Ending
<1>9. Cardinality(Tokens(f, more))
        = Cardinality(Tokens(f, over)) + Cardinality(Adds(f, r, G))
  BY <1>2, <1>3, <1>5, <1>6, <1>7, <1>8
<1>. QED
  BY <1>9 DEF more

\* What a group adds in its rounds from a to b.
Part(f, r, a, b, G) == IF r \in a..b THEN Cardinality(Adds(f, r, G)) ELSE 0

Adding(f, a, b, G) ==
    Part(f, 1, a, b, G) + Part(f, 2, a, b, G) + Part(f, 3, a, b, G)

EndingIf(over, G, r, a, b) == IF r \in a..b THEN Ending(over, G, r) ELSE over

EndingAll(over, G, a, b) ==
    EndingIf(EndingIf(EndingIf(over, G, 1, a, b), G, 2, a, b), G, 3, a, b)

LEMMA PartAdds ==
    ASSUME input \in Seq(IntentPool), NEW f, NEW r \in 1..3, NEW G \in Groups,
           NEW a, NEW b, NEW over, r \in a..b => <<G, r>> \notin over
    PROVE  Cardinality(Tokens(f, EndingIf(over, G, r, a, b)))
             = Cardinality(Tokens(f, over)) + Part(f, r, a, b, G)
<1>1. CASE r \in a..b
  BY <1>1, RoundAdds DEF Part, EndingIf
<1>2. CASE r \notin a..b
  BY <1>2, TokensAreFinite DEF Part, EndingIf
<1>. QED
  BY <1>1, <1>2

LEMMA RoundsAdd ==
    ASSUME input \in Seq(IntentPool), NEW f, NEW G \in Groups, NEW a, NEW b,
           NEW over, \A r \in a..b : <<G, r>> \notin over
    PROVE  Cardinality(Tokens(f, EndingAll(over, G, a, b)))
             = Cardinality(Tokens(f, over)) + Adding(f, a, b, G)
<1>. DEFINE o1 == EndingIf(over, G, 1, a, b)
            o2 == EndingIf(o1, G, 2, a, b)
<1>1. 1 \in 1..3 /\ 2 \in 1..3 /\ 3 \in 1..3
  OBVIOUS
<1>2. /\ 1 \in a..b => <<G, 1>> \notin over
      /\ 2 \in a..b => <<G, 2>> \notin o1
      /\ 3 \in a..b => <<G, 3>> \notin o2
  BY DEF EndingIf, Ending
<1>3. \A r \in 1..3 : Part(f, r, a, b, G) \in Nat
  BY PartsCount DEF Part
<1>4. Cardinality(Tokens(f, over)) \in Nat
  BY TokensAreFinite
<1>5. Cardinality(Tokens(f, o1))
        = Cardinality(Tokens(f, over)) + Part(f, 1, a, b, G)
  BY <1>1, <1>2, PartAdds
<1>6. Cardinality(Tokens(f, o2))
        = Cardinality(Tokens(f, o1)) + Part(f, 2, a, b, G)
  BY <1>1, <1>2, PartAdds
<1>7. Cardinality(Tokens(f, EndingIf(o2, G, 3, a, b)))
        = Cardinality(Tokens(f, o2)) + Part(f, 3, a, b, G)
  BY <1>1, <1>2, PartAdds
<1>8. EndingAll(over, G, a, b) = EndingIf(o2, G, 3, a, b)
  BY DEF EndingAll
<1>. HIDE DEF o1, o2
<1>. QED
  BY <1>1, <1>3, <1>4, <1>5, <1>6, <1>7, <1>8 DEF Adding


-----------------------------------------------------------------------------
(* What a call returns stands while it decides.                            *)

LEMMA GroupsStand ==
    ASSUME UNCHANGED args
    PROVE  /\ \A n : Judged(n)' = Judged(n) /\ GroupOf(n)' = GroupOf(n)
           /\ \A S : /\ HighAuthority(S)' = HighAuthority(S)
                     /\ FlaggedOf(S)' = FlaggedOf(S)
                     /\ BlockedOf(S)' = BlockedOf(S)
                     /\ StaleReaders(S)' = StaleReaders(S)
                     /\ SurvivorsOf(S)' = SurvivorsOf(S)
                     /\ SemanticConflict(S)' = SemanticConflict(S)
                     /\ ReviewGated(S)' = ReviewGated(S)
                     /\ LockContended(S)' = LockContended(S)
                     /\ AuthorityContested(S)' = AuthorityContested(S)
                     /\ GroupHeld(S)' = GroupHeld(S)
                     /\ Free(S)' = Free(S)
                     /\ Conflicting(S)' = Conflicting(S)
                     /\ CommitsOf(S)' = CommitsOf(S)
                     /\ BlocksOf(S)' = BlocksOf(S)
                     /\ HeldBack(S)' = HeldBack(S)
                     /\ RebasedOf(S)' = RebasedOf(S)
                     /\ Locked(S)' = Locked(S)
                     /\ Disputed(S)' = Disputed(S)
                     /\ UnsafeIn(S)' = UnsafeIn(S)
                     /\ Merges(S)' = Merges(S)
<1>. USE DEF args
<1>1. \A n : Judged(n)' = Judged(n) /\ GroupOf(n)' = GroupOf(n)
  BY DEF Judged, GroupOf, Key
<1>2. \A S : /\ HighAuthority(S)' = HighAuthority(S)
             /\ ReviewGated(S)' = ReviewGated(S)
             /\ LockContended(S)' = LockContended(S)
             /\ StaleReaders(S)' = StaleReaders(S)
             /\ AllAppendOnly(S)' = AllAppendOnly(S)
             /\ MergesUnchecked(S)' = MergesUnchecked(S)
             /\ SemanticConflict(S)' = SemanticConflict(S)
             /\ StateWritesIn(S)' = StateWritesIn(S)
             /\ WorkspaceWritesIn(S)' = WorkspaceWritesIn(S)
  BY DEF HighAuthority, Rank, ReviewGated, Lane, LockContended, StaleReaders,
         AllAppendOnly, MergesUnchecked, SemanticConflict, StateWritesIn,
         WorkspaceWritesIn
<1>3. \A S : FlaggedOf(S)' = FlaggedOf(S) /\ BlockedOf(S)' = BlockedOf(S)
  BY <1>1 DEF FlaggedOf, BlockedOf
<1>4. \A S : /\ SurvivorsOf(S)' = SurvivorsOf(S)
             /\ AuthorityContested(S)' = AuthorityContested(S)
             /\ GroupHeld(S)' = GroupHeld(S)
             /\ Conflicting(S)' = Conflicting(S)
  BY <1>2, <1>3 DEF SurvivorsOf, AuthorityContested, GroupHeld, Conflicting
<1>5. \A S : Free(S)' = Free(S)
  BY <1>4 DEF Free
<1>6. \A S : /\ CommitsOf(S)' = CommitsOf(S)
             /\ BlocksOf(S)' = BlocksOf(S)
             /\ HeldBack(S)' = HeldBack(S)
             /\ RebasedOf(S)' = RebasedOf(S)
             /\ Locked(S)' = Locked(S)
             /\ Disputed(S)' = Disputed(S)
  BY <1>2, <1>3, <1>4, <1>5
     DEF CommitsOf, BlocksOf, HeldBack, RebasedOf, Locked, Disputed
<1>7. \A S : UnsafeIn(S)' = UnsafeIn(S)
  <2>1. \A S : {n \in S : UnsafeHighRiskAutoCommit(input[n], mode)}'
                 = {n \in S : UnsafeHighRiskAutoCommit(input[n], mode)}
    OBVIOUS
  <2>. QED
    BY <1>2, <2>1 DEF UnsafeIn
<1>8. \A S : Merges(S)' = Merges(S)
  BY <1>2, <1>7 DEF Merges
<1>. QED
  BY <1>1, <1>2, <1>3, <1>4, <1>5, <1>6, <1>7, <1>8

LEMMA DueStands ==
    ASSUME UNCHANGED args
    PROVE  \A n : Due(n)' = Due(n)
BY GroupsStand DEF Due

LEMMA AddsStand ==
    ASSUME UNCHANGED args
    PROVE  \A f, r, G : Adds(f, r, G)' = Adds(f, r, G)
<1>1. \A f, G : Entering(f, G)' = Entering(f, G)
  BY GroupsStand DEF Entering
<1>2. \A f, G : Rereading(f, G)' = Rereading(f, G)
  BY GroupsStand DEF Rereading
<1>3. \A f, G : Merging(f, G)' = Merging(f, G)
  BY GroupsStand DEF Merging
<1>. QED
  BY <1>1, <1>2, <1>3 DEF Adds

LEMMA TokensStand ==
    ASSUME UNCHANGED args
    PROVE  /\ Groups' = Groups /\ AllOver' = AllOver
           /\ \A f, over : Tokens(f, over)' = Tokens(f, over)
<1>1. Groups' = Groups
  BY GroupsStand DEF Groups, args
<1>2. \A f, over : Tokens(f, over)' = Tokens(f, over)
  <2>. SUFFICES ASSUME NEW f, NEW over
                PROVE  Tokens(f, over)' = Tokens(f, over)
    OBVIOUS
  <2>1. input' = input /\ \A r, G : Adds(f, r, G)' = Adds(f, r, G)
    BY AddsStand DEF args
  <2>. QED
    BY <1>1, <2>1 DEF Tokens
<1>. QED
  BY <1>1, <1>2 DEF AllOver

LEMMA TotalsStand ==
    ASSUME UNCHANGED args
    PROVE  \A f : Total(f)' = Total(f)
<1>1. DueToCommit' = DueToCommit
  BY DueStands DEF DueToCommit, args
<1>2. DueDetected' = DueDetected /\ DueDeclared' = DueDeclared
  BY <1>1, GroupsStand DEF DueDetected, DueDeclared, args
<1>3. Accepted' = Accepted
  BY <1>2 DEF Accepted
<1>4. AllOver' = AllOver /\ \A f, over : Tokens(f, over)' = Tokens(f, over)
  BY TokensStand
<1>5. \A f : Tokens(f, AllOver)' = Tokens(f, AllOver)
  BY <1>4
<1>. QED
  BY <1>3, <1>5 DEF Total

\* Once the batch is verified, the verdicts are what the rule is about.
LEMMA VerdictsAreDue ==
    ASSUME VerdictsStand, stage # "collect"
    PROVE  /\ \A n \in DOMAIN input : verdict[n] = Judged(n)
           /\ \A S \in SUBSET DOMAIN input : /\ FlaggedIn(S) = FlaggedOf(S)
                                             /\ BlockedIn(S) = BlockedOf(S)
                                             /\ Survivors(S) = SurvivorsOf(S)
           /\ \A n \in DOMAIN input : Ruling(n) = Due(n)
<1>1. \A n \in DOMAIN input : verdict[n] = Judged(n)
  BY DEF VerdictsStand, Judged
<1>2. \A S \in SUBSET DOMAIN input : /\ FlaggedIn(S) = FlaggedOf(S)
                                     /\ BlockedIn(S) = BlockedOf(S)
  BY <1>1 DEF FlaggedIn, FlaggedOf, BlockedIn, BlockedOf
<1>3. \A S \in SUBSET DOMAIN input : Survivors(S) = SurvivorsOf(S)
  BY <1>2 DEF Survivors, SurvivorsOf
<1>4. \A S \in SUBSET DOMAIN input : /\ Commits(S) = CommitsOf(S)
                                     /\ Blocks(S) = BlocksOf(S)
  BY <1>2, <1>3 DEF Commits, CommitsOf, Blocks, BlocksOf, Free
<1>5. \A n : GroupOf(n) \in SUBSET DOMAIN input
  BY DEF GroupOf
<1>. QED
  BY <1>1, <1>2, <1>3, <1>4, <1>5 DEF Ruling, Due


-----------------------------------------------------------------------------
(* How much a group adds to each counter in each round.                    *)

LEMMA EnteringSizes ==
    ASSUME input \in Seq(IntentPool), NEW G \in SUBSET DOMAIN input
    PROVE  /\ Cardinality(Entering("review", G)) = Cardinality(HeldBack(G))
           /\ Cardinality(Entering("routed", G))
                = Cardinality(FlaggedOf(HeldBack(G)))
           /\ Cardinality(Entering("blocked", G)) = Cardinality(BlocksOf(G))
           /\ Cardinality(Entering("rebase", G)) = Cardinality(RebasedOf(G))
           /\ Cardinality(Entering("lock", G)) = One(Locked(G))
           /\ Cardinality(Entering("semantic", G)) = One(SemanticConflict(G))
           /\ Cardinality(Entering("readsetStale", G))
                = Cardinality(StaleReaders(G))
           /\ Cardinality(Entering("conflicts", G)) = One(Disputed(G))
           /\ \A f \in {"readsetReview", "unsafe", "staleAccepted", "autoMerges"} :
                 Cardinality(Entering(f, G)) = 0
<1>1. /\ HeldBack(G) \in SUBSET DOMAIN input
      /\ BlocksOf(G) \in SUBSET DOMAIN input
      /\ RebasedOf(G) \in SUBSET DOMAIN input
      /\ StaleReaders(G) \in SUBSET DOMAIN input
  BY DEF HeldBack, RebasedOf, BlocksOf, StaleReaders, FlaggedOf, BlockedOf
<1>2. FlaggedOf(HeldBack(G)) \in SUBSET DOMAIN input
  BY <1>1 DEF FlaggedOf
<1>3. Cardinality({}) = 0
  BY FS_EmptySet
<1>4. Cardinality(Entering("review", G)) = Cardinality(HeldBack(G))
  BY <1>1, SinglesCount DEF Entering
<1>5. Cardinality(Entering("routed", G)) = Cardinality(FlaggedOf(HeldBack(G)))
  BY <1>2, SinglesCount DEF Entering
<1>6. Cardinality(Entering("blocked", G)) = Cardinality(BlocksOf(G))
  BY <1>1, SinglesCount DEF Entering
<1>7. Cardinality(Entering("rebase", G)) = Cardinality(RebasedOf(G))
  BY <1>1, SinglesCount DEF Entering
<1>8. Cardinality(Entering("lock", G)) = One(Locked(G))
  BY WholeCount DEF Entering
<1>9. Cardinality(Entering("semantic", G)) = One(SemanticConflict(G))
  BY WholeCount DEF Entering
<1>10. Cardinality(Entering("readsetStale", G)) = Cardinality(StaleReaders(G))
  BY <1>1, SinglesCount DEF Entering
<1>11. Cardinality(Entering("conflicts", G)) = One(Disputed(G))
  BY WholeCount DEF Entering
<1>12. \A f \in {"readsetReview", "unsafe", "staleAccepted", "autoMerges"} :
          Entering(f, G) = {}
  BY DEF Entering
<1>. QED
  BY <1>3, <1>4, <1>5, <1>6, <1>7, <1>8, <1>9, <1>10, <1>11, <1>12

LEMMA RereadingSizes ==
    ASSUME input \in Seq(IntentPool), NEW G \in SUBSET DOMAIN input
    PROVE  /\ Free(G) => \A f \in {"review", "readsetReview"} :
                 Cardinality(Rereading(f, G))
                   = Cardinality(StaleReaders(G) \ FlaggedOf(G))
           /\ \A f : ~Free(G) \/ f \notin {"review", "readsetReview"} =>
                 Cardinality(Rereading(f, G)) = 0
           /\ StaleReaders(G) \ FlaggedOf(G) = {} =>
                 \A f : Cardinality(Rereading(f, G)) = 0
<1>1. StaleReaders(G) \ FlaggedOf(G) \in SUBSET DOMAIN input
  BY DEF StaleReaders
<1>2. Cardinality({}) = 0
  BY FS_EmptySet
<1>3. Cardinality(Singles(StaleReaders(G) \ FlaggedOf(G)))
        = Cardinality(StaleReaders(G) \ FlaggedOf(G))
  BY <1>1, SinglesCount
<1>4. Singles({}) = {}
  BY DEF Singles
<1>. QED
  BY <1>2, <1>3, <1>4 DEF Rereading

LEMMA MergingSizes ==
    ASSUME input \in Seq(IntentPool), NEW G \in SUBSET DOMAIN input,
           NEW S, S = SurvivorsOf(G)
    PROVE  /\ ~Free(G) \/ S = {} => \A f : Cardinality(Merging(f, G)) = 0
           /\ Free(G) /\ S # {} =>
                 /\ Cardinality(Merging("review", G))
                      = IF Conflicting(S) THEN Cardinality(S) ELSE 0
                 /\ Cardinality(Merging("conflicts", G)) = One(Conflicting(S))
                 /\ Cardinality(Merging("unsafe", G)) = Cardinality(UnsafeIn(S))
                 /\ Cardinality(Merging("autoMerges", G)) = One(Merges(S))
                 /\ \A f : f \notin {"review", "conflicts", "unsafe",
                                      "autoMerges"} =>
                       Cardinality(Merging(f, G)) = 0
<1>1. /\ S \in SUBSET DOMAIN input
      /\ UnsafeIn(S) \in SUBSET DOMAIN input
  BY DEF SurvivorsOf, UnsafeIn, StateWritesIn, WorkspaceWritesIn
<1>2. Cardinality({}) = 0 /\ Singles({}) = {}
  BY FS_EmptySet DEF Singles
<1>3. /\ Cardinality(Singles(S)) = Cardinality(S)
      /\ Cardinality(Singles(UnsafeIn(S))) = Cardinality(UnsafeIn(S))
  BY <1>1, SinglesCount
<1>4. /\ Cardinality(Whole(G, Conflicting(S))) = One(Conflicting(S))
      /\ Cardinality(Whole(G, Merges(S))) = One(Merges(S))
  BY WholeCount
<1>5. ~Free(G) \/ S = {} => \A f : Merging(f, G) = {}
  BY DEF Merging
<1>6. ASSUME Free(G), S # {}
      PROVE  /\ Merging("review", G)
                  = Singles(IF Conflicting(S) THEN S ELSE {})
             /\ Merging("conflicts", G) = Whole(G, Conflicting(S))
             /\ Merging("unsafe", G) = Singles(UnsafeIn(S))
             /\ Merging("autoMerges", G) = Whole(G, Merges(S))
             /\ \A f : f \notin {"review", "conflicts", "unsafe", "autoMerges"}
                         => Merging(f, G) = {}
  BY <1>6 DEF Merging
<1>. QED
  BY <1>2, <1>3, <1>4, <1>5, <1>6


\* What the rounds add that are over at once.
LEMMA RoundSizes ==
    ASSUME input \in Seq(IntentPool), NEW f, NEW G \in Groups
    PROVE  /\ Adding(f, 1, 1, G) = Cardinality(Entering(f, G))
           /\ ~Free(G) \/ G \subseteq FlaggedOf(G) =>
                 Adding(f, 1, 3, G) = Cardinality(Entering(f, G))
           /\ Adding(f, 2, 2, G) = Cardinality(Rereading(f, G))
           /\ SurvivorsOf(G) = {} =>
                 Adding(f, 2, 3, G) = Cardinality(Rereading(f, G))
           /\ Adding(f, 3, 3, G) = Cardinality(Merging(f, G))
<1>1. /\ Adds(f, 1, G) = Entering(f, G)
      /\ Adds(f, 2, G) = Rereading(f, G)
      /\ Adds(f, 3, G) = Merging(f, G)
  BY DEF Adds
<1>2. \A r \in 1..3 : Cardinality(Adds(f, r, G)) \in Nat
  BY PartsCount
<1>3. /\ Cardinality(Entering(f, G)) \in Nat
      /\ Cardinality(Rereading(f, G)) \in Nat
      /\ Cardinality(Merging(f, G)) \in Nat
  BY <1>1, <1>2
<1>4. G \in SUBSET DOMAIN input
  BY GroupsAreApart
<1>5. ~Free(G) \/ SurvivorsOf(G) = {} => Cardinality(Merging(f, G)) = 0
  BY <1>4, MergingSizes
<1>6. ~Free(G) \/ G \subseteq FlaggedOf(G) =>
         Cardinality(Rereading(f, G)) = 0 /\ Cardinality(Merging(f, G)) = 0
  <2>1. CASE ~Free(G)
    BY <1>4, <1>5, <2>1, RereadingSizes
  <2>2. CASE G \subseteq FlaggedOf(G)
    <3>1. StaleReaders(G) \ FlaggedOf(G) = {} /\ SurvivorsOf(G) = {}
      BY <2>2 DEF StaleReaders, SurvivorsOf
    <3>. QED
      BY <1>4, <1>5, <3>1, RereadingSizes
  <2>. QED
    BY <2>1, <2>2
<1>7. /\ Part(f, 1, 1, 1, G) = Cardinality(Entering(f, G))
      /\ Part(f, 2, 1, 1, G) = 0 /\ Part(f, 3, 1, 1, G) = 0
      /\ Part(f, 1, 1, 3, G) = Cardinality(Entering(f, G))
      /\ Part(f, 2, 1, 3, G) = Cardinality(Rereading(f, G))
      /\ Part(f, 3, 1, 3, G) = Cardinality(Merging(f, G))
      /\ Part(f, 1, 2, 2, G) = 0 /\ Part(f, 3, 2, 2, G) = 0
      /\ Part(f, 2, 2, 2, G) = Cardinality(Rereading(f, G))
      /\ Part(f, 1, 2, 3, G) = 0
      /\ Part(f, 2, 2, 3, G) = Cardinality(Rereading(f, G))
      /\ Part(f, 3, 2, 3, G) = Cardinality(Merging(f, G))
      /\ Part(f, 1, 3, 3, G) = 0 /\ Part(f, 2, 3, 3, G) = 0
      /\ Part(f, 3, 3, 3, G) = Cardinality(Merging(f, G))
  BY <1>1 DEF Part
<1>. QED
  BY <1>3, <1>5, <1>6, <1>7 DEF Adding

LEMMA EndedRounds ==
    ASSUME NEW over, NEW G, NEW a, NEW b, NEW t
    PROVE  t \in EndingAll(over, G, a, b)
             <=> t \in over \/ \E r \in 1..3 : r \in a..b /\ t = <<G, r>>
<1>1. \A o, r : t \in EndingIf(o, G, r, a, b)
                  <=> t \in o \/ (r \in a..b /\ t = <<G, r>>)
  BY DEF EndingIf, Ending
<1>. QED
  BY <1>1 DEF EndingAll

\* Which rounds are over once a part of the current group is routed.
LEMMA OverGrows ==
    ASSUME TypeOK, live \subseteq Pending, GroupsAreWhole, UNCHANGED args,
           stage \in {"lane", "readset", "merge"},
           NEW G \in Groups, live # {}, live \subseteq G,
           NEW rest \in SUBSET live, Pending' = Pending \ (live \ rest),
           rest = {} => stage' = "lane",
           rest # {} => live' = rest /\ Turn' = Turn + 1,
           NEW last, last = IF rest = {} THEN 3 ELSE Turn
    PROVE  /\ Over' = EndingAll(Over, G, Turn, last)
           /\ \A r \in Turn..last : <<G, r>> \notin Over
<1>1. Turn \in 1..3 /\ (rest = {} => Turn' = 1)
  BY DEF Turn
<1>2. Groups' = Groups
  BY TokensStand
<1>3. G \cap Pending = live
  <2>1. PICK n \in live : TRUE
    OBVIOUS
  <2>2. \A m \in G : m \in DOMAIN input /\ n \in DOMAIN input /\ Key(m) = Key(n)
    BY <2>1 DEF Groups, GroupOf, Pending
  <2>. QED
    BY <2>1, <2>2 DEF GroupsAreWhole
<1>4. /\ G \cap live # {} /\ G \cap Pending # {}
      /\ \A r \in 1..3 : <<G, r>> \in Over <=> r < Turn
  BY <1>3 DEF Over
<1>5. G \cap Pending' = rest
  BY <1>3
<1>6. ASSUME NEW H \in Groups, NEW r \in 1..3
      PROVE  <<H, r>> \in Over' <=> <<H, r>> \in EndingAll(Over, G, Turn, last)
  <2>1. <<H, r>> \in Over'
           <=> H \cap Pending' = {} \/ (H \cap live' # {} /\ r < Turn')
    BY <1>2 DEF Over
  <2>2. <<H, r>> \in EndingAll(Over, G, Turn, last)
           <=> <<H, r>> \in Over \/ (r \in Turn..last /\ H = G)
    BY EndedRounds
  <2>3. CASE H = G
    <3>1. CASE rest = {}
      BY <1>1, <1>4, <1>5, <2>1, <2>2, <2>3, <3>1
    <3>2. CASE rest # {}
      <4>1. G \cap live' # {}
        BY <3>2
      <4>. QED
        BY <1>1, <1>4, <1>5, <2>1, <2>2, <2>3, <3>2, <4>1
    <3>. QED
      BY <3>1, <3>2
  <2>4. CASE H # G
    <3>1. H \cap G = {}
      BY <2>4, GroupsAreApart
    <3>2. H \cap Pending' = H \cap Pending /\ H \cap live = {}
      BY <3>1
    <3>3. ~(H \cap live' # {} /\ r < Turn')
      BY <1>1, <3>1
    <3>4. <<H, r>> \in Over <=> H \cap Pending = {}
      BY <3>2 DEF Over
    <3>. QED
      BY <2>1, <2>2, <2>4, <3>2, <3>3, <3>4
  <2>. QED
    BY <2>3, <2>4
<1>7. /\ Over' \subseteq Groups \X (1..3)
      /\ EndingAll(Over, G, Turn, last) \subseteq Groups \X (1..3)
  <2>1. Over \subseteq Groups \X (1..3) /\ Over' \subseteq Groups \X (1..3)
    BY <1>2 DEF Over
  <2>2. \A t \in EndingAll(Over, G, Turn, last) :
           t \in Over \/ \E r \in 1..3 : t = <<G, r>>
    BY EndedRounds
  <2>. QED
    BY <2>1, <2>2
<1>8. Over' = EndingAll(Over, G, Turn, last)
  <2>1. \A t \in Groups \X (1..3) :
           t \in Over' <=> t \in EndingAll(Over, G, Turn, last)
    <3>. TAKE t \in Groups \X (1..3)
    <3>1. PICK H \in Groups, r \in 1..3 : t = <<H, r>>
      OBVIOUS
    <3>. QED
      BY <1>6, <3>1
  <2>. QED
    BY <1>7, <2>1
<1>9. \A r \in Turn..last : <<G, r>> \notin Over
  BY <1>1, <1>4
<1>. QED
  BY <1>8, <1>9

LEMMA CountGoesOn ==
    ASSUME TypeOK, UNCHANGED args, Counted, stage # "done", stage' # "done",
           NEW G \in Groups, NEW a, NEW b, Over' = EndingAll(Over, G, a, b),
           \A r \in a..b : <<G, r>> \notin Over,
           \A f \in MetricNames : metrics'[f] = metrics[f] + Adding(f, a, b, G)
    PROVE  Counted'
<1>1. ASSUME NEW f \in MetricNames
      PROVE  metrics'[f] = Cardinality(Tokens(f, Over))'
  <2>1. metrics[f] = Cardinality(Tokens(f, Over))
    BY DEF Counted
  <2>2. input \in Seq(IntentPool)
    BY DEF TypeOK
  <2>3. Cardinality(Tokens(f, EndingAll(Over, G, a, b)))
          = Cardinality(Tokens(f, Over)) + Adding(f, a, b, G)
    BY <2>2, RoundsAdd
  <2>4. Tokens(f, Over)' = Tokens(f, Over')
    BY TokensStand
  <2>. QED
    BY <2>1, <2>3, <2>4
<1>. QED
  BY <1>1 DEF Counted


-----------------------------------------------------------------------------
(* What each action adds to the counters.                                  *)

LEMMA EnteredAdds ==
    ASSUME TypeOK
    PROVE  /\ Entered \in [MetricNames -> Nat]
           /\ Entered["semantic"]
                = metrics["semantic"] + One(SemanticConflict(live))
           /\ Entered["readsetStale"]
                = metrics["readsetStale"] + Cardinality(StaleReaders(live))
           /\ \A f \in MetricNames \ {"semantic", "readsetStale"} :
                 Entered[f] = metrics[f]
<1>1. metrics \in [MetricNames -> Nat] /\ Entered \in [MetricNames -> Nat]
  BY EnteredType DEF TypeOK
<1>. QED
  BY <1>1 DEF Entered, MetricNames

\* A group is entered: the first round adds what it is to add.
LEMMA EntryCounts ==
    ASSUME TypeOK, VerdictsStand, stage = "lane",
           \/ InterruptByAuthority \/ GateReview
           \/ ContendForLock \/ RouteFlagged
    PROVE  \A f \in MetricNames :
              metrics'[f] = metrics[f] + Cardinality(Entering(f, live))
<1>1. /\ input \in Seq(IntentPool) /\ live \in SUBSET DOMAIN input
      /\ metrics \in [MetricNames -> Nat]
  BY DEF TypeOK
<1>2. \A S \in SUBSET live : FlaggedIn(S) = FlaggedOf(S)
                              /\ BlockedIn(S) = BlockedOf(S)
  BY <1>1, VerdictsAreDue
<1>3. Cardinality({}) = 0 /\ One(FALSE) = 0 /\ One(TRUE) = 1
  BY FS_EmptySet DEF One
<1>4. /\ Cardinality(HeldBack(live)) \in Nat
      /\ Cardinality(FlaggedOf(HeldBack(live))) \in Nat
      /\ Cardinality(BlocksOf(live)) \in Nat
      /\ Cardinality(RebasedOf(live)) \in Nat
      /\ One(Disputed(live)) \in Nat
  <2>1. /\ HeldBack(live) \in SUBSET live /\ BlocksOf(live) \in SUBSET live
        /\ RebasedOf(live) \in SUBSET live
        /\ FlaggedOf(HeldBack(live)) \in SUBSET HeldBack(live)
    BY DEF HeldBack, RebasedOf, BlocksOf, FlaggedOf, BlockedOf
  <2>. QED
    BY <1>1, <2>1, BatchIsFinite DEF One
<1>5. SUFFICES
        /\ metrics'["review"] = metrics["review"] + Cardinality(HeldBack(live))
        /\ metrics'["routed"]
             = metrics["routed"] + Cardinality(FlaggedOf(HeldBack(live)))
        /\ metrics'["blocked"]
             = metrics["blocked"] + Cardinality(BlocksOf(live))
        /\ metrics'["rebase"]
             = metrics["rebase"] + Cardinality(RebasedOf(live))
        /\ metrics'["lock"] = metrics["lock"] + One(Locked(live))
        /\ metrics'["semantic"] = Entered["semantic"]
        /\ metrics'["readsetStale"] = Entered["readsetStale"]
        /\ metrics'["conflicts"] = metrics["conflicts"] + One(Disputed(live))
        /\ \A f \in {"readsetReview", "unsafe", "staleAccepted", "autoMerges"} :
              metrics'[f] = metrics[f]
  <2>1. \A f \in {"readsetReview", "unsafe", "staleAccepted", "autoMerges"} :
           metrics[f] = metrics[f] + Cardinality(Entering(f, live))
    BY <1>1, EnteringSizes DEF MetricNames
  <2>. QED
    BY <1>1, <1>5, <2>1, EnteringSizes, EnteredAdds DEF MetricNames
<1>6. CASE InterruptByAuthority
  <2>. DEFINE low == live \ HighAuthority(live)
  <2>1. metrics' = [Entered EXCEPT
                       !["review"]    = @ + Cardinality(low),
                       !["rebase"]    = @ + Cardinality(low),
                       !["routed"]    = @ + Cardinality(FlaggedIn(low)),
                       !["conflicts"] = @ + 1]
    BY <1>6 DEF InterruptByAuthority
  <2>2. /\ HeldBack(live) = low /\ FlaggedOf(HeldBack(live)) = FlaggedIn(low)
        /\ BlocksOf(live) = {} /\ RebasedOf(live) = low
        /\ One(Locked(live)) = 0 /\ One(Disputed(live)) = 1
    BY <1>2, <1>6 DEF InterruptByAuthority, HeldBack, BlocksOf, Free,
                      RebasedOf, Locked, Disputed, One
  <2>. HIDE DEF low
  <2>3. \A f \in MetricNames :
           metrics'[f] = IF f \in {"review", "rebase"}
                         THEN Entered[f] + Cardinality(low)
                         ELSE IF f = "routed"
                         THEN Entered[f] + Cardinality(FlaggedIn(low))
                         ELSE IF f = "conflicts" THEN Entered[f] + 1
                         ELSE Entered[f]
    BY <2>1, EnteredAdds DEF MetricNames
  <2>. QED
    BY <1>1, <1>3, <2>2, <2>3, EnteredAdds DEF MetricNames
<1>7. CASE GateReview
  <2>1. metrics' = [Entered EXCEPT
                       !["review"]    = @ + Cardinality(live),
                       !["routed"]    = @ + Cardinality(FlaggedIn(live)),
                       !["conflicts"] = @ + One(SemanticConflict(live))]
    BY <1>7 DEF GateReview
  <2>2. /\ HeldBack(live) = live /\ FlaggedOf(HeldBack(live)) = FlaggedIn(live)
        /\ BlocksOf(live) = {} /\ RebasedOf(live) = {}
        /\ One(Locked(live)) = 0
        /\ One(Disputed(live)) = One(SemanticConflict(live))
    BY <1>2, <1>7 DEF GateReview, HeldBack, BlocksOf, Free, GroupHeld,
                      RebasedOf, Locked, Disputed, One
  <2>3. \A f \in MetricNames :
           metrics'[f] = IF f = "review" THEN Entered[f] + Cardinality(live)
                         ELSE IF f = "routed"
                         THEN Entered[f] + Cardinality(FlaggedIn(live))
                         ELSE IF f = "conflicts"
                         THEN Entered[f] + One(SemanticConflict(live))
                         ELSE Entered[f]
    BY <2>1, EnteredAdds DEF MetricNames
  <2>. QED
    BY <1>1, <1>3, <2>2, <2>3, EnteredAdds DEF MetricNames
<1>8. CASE ContendForLock
  <2>1. metrics' = [Entered EXCEPT
                       !["review"]    = @ + Cardinality(live),
                       !["lock"]      = @ + 1,
                       !["routed"]    = @ + Cardinality(FlaggedIn(live)),
                       !["conflicts"] = @ + 1]
    BY <1>8 DEF ContendForLock
  <2>2. /\ HeldBack(live) = live /\ FlaggedOf(HeldBack(live)) = FlaggedIn(live)
        /\ BlocksOf(live) = {} /\ RebasedOf(live) = {}
        /\ One(Locked(live)) = 1 /\ One(Disputed(live)) = 1
    BY <1>2, <1>8 DEF ContendForLock, HeldBack, BlocksOf, Free, GroupHeld,
                      RebasedOf, Locked, Disputed, One
  <2>3. \A f \in MetricNames :
           metrics'[f] = IF f = "review" THEN Entered[f] + Cardinality(live)
                         ELSE IF f = "routed"
                         THEN Entered[f] + Cardinality(FlaggedIn(live))
                         ELSE IF f \in {"lock", "conflicts"}
                         THEN Entered[f] + 1 ELSE Entered[f]
    BY <2>1, EnteredAdds DEF MetricNames
  <2>. QED
    BY <1>1, <1>3, <2>2, <2>3, EnteredAdds DEF MetricNames
<1>9. CASE RouteFlagged
  <2>. DEFINE reviewed == FlaggedIn(live) \ BlockedIn(live)
  <2>1. metrics' = [Entered EXCEPT
                       !["review"]    = @ + Cardinality(reviewed),
                       !["routed"]    = @ + Cardinality(reviewed),
                       !["blocked"]   = @ + Cardinality(BlockedIn(live)),
                       !["conflicts"] = @ + One(FlaggedIn(live) # {})]
    BY <1>9 DEF RouteFlagged
  <2>2. /\ HeldBack(live) = reviewed
        /\ FlaggedOf(HeldBack(live)) = reviewed
        /\ BlocksOf(live) = BlockedIn(live) /\ RebasedOf(live) = {}
        /\ One(Locked(live)) = 0
        /\ One(Disputed(live)) = One(FlaggedIn(live) # {})
    <3>1. /\ ~AuthorityContested(live) /\ ~ReviewGated(live)
          /\ ~LockContended(live) /\ ~GroupHeld(live)
      BY <1>9 DEF RouteFlagged, GroupHeld
    <3>2. HeldBack(live) = reviewed
      BY <1>2, <3>1 DEF HeldBack
    <3>3. FlaggedOf(reviewed) = reviewed
      BY <1>2 DEF FlaggedOf
    <3>. QED
      BY <1>2, <3>1, <3>2, <3>3
         DEF BlocksOf, Free, RebasedOf, Locked, Disputed, One
  <2>. HIDE DEF reviewed
  <2>3. \A f \in MetricNames :
           metrics'[f] = IF f \in {"review", "routed"}
                         THEN Entered[f] + Cardinality(reviewed)
                         ELSE IF f = "blocked"
                         THEN Entered[f] + Cardinality(BlockedIn(live))
                         ELSE IF f = "conflicts"
                         THEN Entered[f] + One(FlaggedIn(live) # {})
                         ELSE Entered[f]
    BY <2>1, EnteredAdds DEF MetricNames
  <2>. QED
    BY <1>1, <1>3, <2>2, <2>3, EnteredAdds DEF MetricNames
<1>. QED
  BY <1>6, <1>7, <1>8, <1>9

\* Read sets are validated: so does the second.
LEMMA RereadCounts ==
    ASSUME TypeOK, VerdictsStand, RouteStaleReaders, NEW G \in Groups,
           Free(G), live = G \ FlaggedIn(G)
    PROVE  \A f \in MetricNames :
              metrics'[f] = metrics[f] + Cardinality(Rereading(f, G))
<1>1. /\ input \in Seq(IntentPool) /\ G \in SUBSET DOMAIN input
      /\ metrics \in [MetricNames -> Nat]
  BY GroupsAreApart DEF TypeOK
<1>2. FlaggedIn(G) = FlaggedOf(G)
  BY <1>1, VerdictsAreDue DEF RouteStaleReaders
<1>3. StaleReaders(live) = StaleReaders(G) \ FlaggedOf(G)
  BY <1>2 DEF StaleReaders
<1>4. Cardinality(StaleReaders(live)) \in Nat
  BY <1>1, BatchIsFinite DEF StaleReaders, TypeOK
<1>5. metrics' = [metrics EXCEPT
                     !["review"]        = @ + Cardinality(StaleReaders(live)),
                     !["readsetReview"] = @ + Cardinality(StaleReaders(live))]
  BY DEF RouteStaleReaders
<1>6. /\ \A f \in {"review", "readsetReview"} :
            Cardinality(Rereading(f, G)) = Cardinality(StaleReaders(live))
      /\ \A f : f \notin {"review", "readsetReview"} =>
            Cardinality(Rereading(f, G)) = 0
  BY <1>1, <1>3, RereadingSizes
<1>7. ASSUME NEW f \in MetricNames
      PROVE  metrics'[f] = IF f \in {"review", "readsetReview"}
                           THEN metrics[f] + Cardinality(StaleReaders(live))
                           ELSE metrics[f]
  BY <1>1, <1>5 DEF MetricNames
<1>. SUFFICES ASSUME NEW f \in MetricNames
              PROVE  metrics'[f] = metrics[f] + Cardinality(Rereading(f, G))
  OBVIOUS
<1>8. metrics[f] \in Nat
  BY <1>1
<1>9. CASE f \in {"review", "readsetReview"}
  BY <1>6, <1>7, <1>9
<1>10. CASE f \notin {"review", "readsetReview"}
  <2>1. Cardinality(Rereading(f, G)) = 0
    BY <1>6, <1>10
  <2>2. metrics'[f] = metrics[f]
    BY <1>7, <1>10
  <2>. QED
    BY <1>8, <2>1, <2>2
<1>. QED
  BY <1>9, <1>10

\* What is left of the group commits or conflicts: so does the third.
LEMMA MergeCounts ==
    ASSUME TypeOK, Merge, NEW G \in Groups,
           Free(G), live # {}, live = SurvivorsOf(G)
    PROVE  \A f \in MetricNames :
              metrics'[f] = metrics[f] + Cardinality(Merging(f, G))
<1>1. /\ input \in Seq(IntentPool) /\ G \in SUBSET DOMAIN input
      /\ metrics \in [MetricNames -> Nat] /\ live \in SUBSET DOMAIN input
  BY GroupsAreApart DEF TypeOK
<1>2. Cardinality({}) = 0 /\ One(FALSE) = 0 /\ One(TRUE) = 1
  BY FS_EmptySet DEF One
<1>3. /\ Cardinality(live) \in Nat
      /\ UnsafeIn(live) \in SUBSET live
      /\ Cardinality(UnsafeIn(live)) \in Nat
      /\ One(Merges(live)) \in Nat /\ One(Conflicting(live)) \in Nat
  <2>1. UnsafeIn(live) \in SUBSET live
    BY DEF UnsafeIn, StateWritesIn, WorkspaceWritesIn
  <2>. QED
    BY <1>1, <2>1, BatchIsFinite DEF One
<1>4. /\ Cardinality(Merging("review", G))
           = IF Conflicting(live) THEN Cardinality(live) ELSE 0
      /\ Cardinality(Merging("conflicts", G)) = One(Conflicting(live))
      /\ Cardinality(Merging("unsafe", G)) = Cardinality(UnsafeIn(live))
      /\ Cardinality(Merging("autoMerges", G)) = One(Merges(live))
      /\ \A f : f \notin {"review", "conflicts", "unsafe", "autoMerges"} =>
            Cardinality(Merging(f, G)) = 0
  BY <1>1, MergingSizes
<1>5. ASSUME ~Conflicting(live),
             CommitLive(Cardinality(UnsafeIn(live)), One(Merges(live)))
      PROVE  \A f \in MetricNames :
                metrics'[f] = metrics[f] + Cardinality(Merging(f, G))
  <2>1. metrics' = [metrics EXCEPT
                       !["unsafe"]     = @ + Cardinality(UnsafeIn(live)),
                       !["autoMerges"] = @ + One(Merges(live))]
    BY <1>5 DEF CommitLive
  <2>2. \A f \in MetricNames :
           metrics'[f] = IF f = "unsafe"
                         THEN metrics[f] + Cardinality(UnsafeIn(live))
                         ELSE IF f = "autoMerges"
                         THEN metrics[f] + One(Merges(live)) ELSE metrics[f]
    BY <1>1, <2>1 DEF MetricNames
  <2>3. /\ Cardinality(Merging("review", G)) = 0
        /\ Cardinality(Merging("conflicts", G)) = 0
    BY <1>4, <1>5 DEF One
  <2>4. \A f \in MetricNames : metrics[f] \in Nat
    BY <1>1
  <2>5. \A f \in MetricNames \ {"unsafe", "autoMerges"} :
           Cardinality(Merging(f, G)) = 0
    BY <1>4, <2>3
  <2>. QED
    BY <1>4, <2>2, <2>4, <2>5
<1>6. CASE MergeAppendOnly
  <2>1. /\ ~Conflicting(live) /\ Merges(live)
        /\ UnsafeIn(live) = IF mode = "uniform_append_only"
                            THEN StateWritesIn(live) ELSE {}
    BY <1>6 DEF MergeAppendOnly, Conflicting, Merges, UnsafeIn
  <2>2. CommitLive(Cardinality(UnsafeIn(live)), One(Merges(live)))
    BY <1>2, <1>6, <2>1 DEF MergeAppendOnly
  <2>. QED
    BY <1>5, <2>1, <2>2
<1>7. CASE CommitSingleWriter
  <2>1. ~Conflicting(live) /\ ~Merges(live)
    BY <1>7 DEF CommitSingleWriter, Conflicting, Merges
  <2>2. UnsafeIn(live)
          = {n \in live : UnsafeHighRiskAutoCommit(input[n], mode)}
    BY <1>7 DEF CommitSingleWriter, UnsafeIn
  <2>3. Cardinality(UnsafeIn(live))
          = One(\E n \in live : UnsafeHighRiskAutoCommit(input[n], mode))
    <3>1. PICK m : live = {m}
      <4>1. IsFiniteSet(live) /\ Cardinality(live) = 1
        BY <1>1, <1>7, BatchIsFinite DEF CommitSingleWriter
      <4>. QED
        BY <4>1, FS_Singleton
    <3>2. Cardinality({m}) = 1
      BY FS_Singleton
    <3>3. CASE UnsafeHighRiskAutoCommit(input[m], mode)
      <4>1. UnsafeIn(live) = {m}
        BY <2>2, <3>1, <3>3
      <4>. QED
        BY <3>1, <3>2, <3>3, <4>1 DEF One
    <3>4. CASE ~UnsafeHighRiskAutoCommit(input[m], mode)
      <4>1. UnsafeIn(live) = {}
        BY <2>2, <3>1, <3>4
      <4>. QED
        BY <1>2, <3>1, <3>4, <4>1 DEF One
    <3>. QED
      BY <3>3, <3>4
  <2>4. CommitLive(Cardinality(UnsafeIn(live)), One(Merges(live)))
    BY <1>7, <2>1, <2>3 DEF CommitSingleWriter, One
  <2>. QED
    BY <1>5, <2>1, <2>4
<1>8. CASE MergeUnchecked
  <2>1. Cardinality(live) > 1
    BY <1>8 DEF MergeUnchecked, MergesUnchecked
  <2>2. ~Conflicting(live) /\ ~Merges(live)
    BY <1>8 DEF MergeUnchecked, Conflicting, Merges
  <2>3. UnsafeIn(live) = StateWritesIn(live)
    BY <1>8, <2>1 DEF MergeUnchecked, UnsafeIn
  <2>4. CommitLive(Cardinality(UnsafeIn(live)), One(Merges(live)))
    BY <1>8, <2>2, <2>3 DEF MergeUnchecked, One
  <2>. QED
    BY <1>5, <2>2, <2>4
<1>9. CASE MergeCompatible
  <2>. DEFINE unlocked == IF mode = "adaptive_no_workspace_lock"
                          THEN WorkspaceWritesIn(live) ELSE {}
  <2>1. /\ ~AllAppendOnly(live) /\ Cardinality(live) > 1
        /\ ~MergesUnchecked(live) /\ ~SemanticConflict(live)
        /\ CommitLive(Cardinality(unlocked), One(unlocked = {}))
    BY <1>9 DEF MergeCompatible
  <2>2. UnsafeIn(live) = unlocked
    BY <2>1 DEF UnsafeIn
  <2>3. ~Conflicting(live) /\ (Merges(live) <=> unlocked = {})
    BY <2>1, <2>2 DEF Conflicting, Merges
  <2>4. CommitLive(Cardinality(UnsafeIn(live)), One(Merges(live)))
    <3>1. One(Merges(live)) = One(unlocked = {})
      BY <2>3 DEF One
    <3>. QED
      BY <2>1, <2>2, <3>1
  <2>. QED
    BY <1>5, <2>3, <2>4
<1>10. CASE ReviewConflict
  <2>1. /\ Conflicting(live) /\ ~Merges(live) /\ UnsafeIn(live) = {}
    BY <1>10 DEF ReviewConflict, Conflicting, Merges, UnsafeIn
  <2>2. metrics' = [metrics EXCEPT !["review"]    = @ + Cardinality(live),
                                   !["conflicts"] = @ + 1]
    BY <1>10 DEF ReviewConflict
  <2>3. \A f \in MetricNames :
           metrics'[f] = IF f = "review" THEN metrics[f] + Cardinality(live)
                         ELSE IF f = "conflicts" THEN metrics[f] + 1
                         ELSE metrics[f]
    BY <1>1, <2>2 DEF MetricNames
  <2>4. /\ Cardinality(Merging("unsafe", G)) = 0
        /\ Cardinality(Merging("autoMerges", G)) = 0
        /\ Cardinality(Merging("conflicts", G)) = 1
        /\ Cardinality(Merging("review", G)) = Cardinality(live)
    BY <1>2, <1>4, <2>1 DEF One
  <2>5. \A f \in MetricNames : metrics[f] \in Nat
    BY <1>1
  <2>6. \A f \in MetricNames \ {"review", "conflicts"} :
           Cardinality(Merging(f, G)) = 0
    BY <1>4, <2>4
  <2>. QED
    BY <2>3, <2>4, <2>5, <2>6
<1>. QED
  BY <1>6, <1>7, <1>8, <1>9, <1>10 DEF Merge


-----------------------------------------------------------------------------
(* The invariant of a call. *)

LEMMA CallStarted == TypeOK /\ Started => CallInv
<1>. SUFFICES ASSUME TypeOK, Started PROVE CallInv
  OBVIOUS
<1>1. IInv /\ RInv
  BY RoutingStarted, RuleStarted
<1>2. VerdictsStand /\ NothingIsLeft
  BY DEF Started, VerdictsStand, Committed, NothingIsLeft
<1>3. Pending = DOMAIN input /\ Turn = 1 /\ live = {} /\ stage = "collect"
  BY DEF Started, Pending, Turn
<1>4. \A G \in Groups : G \cap Pending # {}
  BY <1>3, GroupsAreApart
<1>5. Over = {}
  BY <1>3, <1>4 DEF Over
<1>6. \A f : Tokens(f, Over) = {}
  BY <1>5 DEF Tokens
<1>7. Counted
  BY <1>3, <1>6, FS_EmptySet DEF Counted, Started
<1>. QED
  BY <1>1, <1>2, <1>7 DEF CallInv

LEMMA DecisionSettles ==
    ASSUME NEW commit, NEW review, NEW blocked,
           Decide(commit, review, blocked)
    PROVE  Pending' = Pending \ (commit \cup review \cup blocked)
BY DEF Decide, Pending

\* The group that is resolved.
LEMMA CurrentGroup ==
    ASSUME TypeOK, RInv, VerdictsStand, live # {},
           stage \in {"lane", "readset", "merge"}
    PROVE  \E G \in Groups :
              /\ G \in SUBSET DOMAIN input /\ live \subseteq G
              /\ FlaggedIn(G) = FlaggedOf(G)
              /\ stage = "lane" => live = G
              /\ stage = "readset" => live = G \ FlaggedIn(G)
              /\ stage = "merge" => live = SurvivorsOf(G)
              /\ stage \in {"readset", "merge"} => Free(G)
<1>1. PICK n \in live : TRUE
  OBVIOUS
<1>2. n \in DOMAIN input /\ GroupOf(n) \in SUBSET DOMAIN input
  BY DEF TypeOK, GroupOf
<1>3. GroupOf(n) \in Groups
  BY <1>2 DEF Groups
<1>4. /\ FlaggedIn(GroupOf(n)) = FlaggedOf(GroupOf(n))
      /\ Survivors(GroupOf(n)) = SurvivorsOf(GroupOf(n))
  BY <1>2, VerdictsAreDue
<1>5. /\ stage = "lane" => live = GroupOf(n)
      /\ stage = "readset" => live = GroupOf(n) \ FlaggedIn(GroupOf(n))
      /\ stage = "merge" => live = Survivors(GroupOf(n))
      /\ stage \in {"readset", "merge"} =>
            ~AuthorityContested(GroupOf(n)) /\ ~GroupHeld(GroupOf(n))
  BY <1>1 DEF RInv, LeftOfGroup
<1>6. live \subseteq GroupOf(n)
  BY <1>4, <1>5 DEF SurvivorsOf
<1>. QED
  BY <1>2, <1>3, <1>4, <1>5, <1>6 DEF Free

\* A decision that ends the rounds of the current group.
LEMMA LastDecisionCounts ==
    ASSUME CallInv, UNCHANGED args, stage \in {"lane", "readset", "merge"},
           NEW G \in Groups, live # {}, live \subseteq G,
           NEW commit, NEW review, NEW blocked,
           Decide(commit, review, blocked),
           commit \cup review \cup blocked = live, ContinueWith({}, "lane"),
           \A f \in MetricNames :
              metrics'[f] = metrics[f] + Adding(f, Turn, 3, G)
    PROVE  Counted'
<1>1. /\ TypeOK /\ live \subseteq Pending /\ GroupsAreWhole /\ Counted
  BY DEF CallInv, IInv, RInv, GroupInProgress
<1>2. {} \in SUBSET live /\ Pending' = Pending \ (live \ {})
  BY DecisionSettles
<1>3. stage' = "lane" /\ stage' # "done" /\ stage # "done"
  BY DEF ContinueWith
<1>4. /\ Over' = EndingAll(Over, G, Turn, 3)
      /\ \A r \in Turn..3 : <<G, r>> \notin Over
  BY <1>1, <1>2, <1>3, OverGrows
<1>5. PICK a : a = Turn
  OBVIOUS
<1>. QED
  BY <1>1, <1>3, <1>4, <1>5, CountGoesOn

\* A decision that ends one of them.
LEMMA DecisionCounts ==
    ASSUME CallInv, UNCHANGED args,
           NEW G \in Groups, live # {}, live \subseteq G,
           NEW commit, NEW review, NEW blocked,
           Decide(commit, review, blocked),
           NEW rest, rest # {},
           rest = live \ (commit \cup review \cup blocked),
           commit \cup review \cup blocked \subseteq live,
           live' = rest,
           \/ stage = "lane" /\ stage' = "readset"
           \/ stage = "readset" /\ stage' = "merge",
           \A f \in MetricNames :
              metrics'[f] = metrics[f] + Adding(f, Turn, Turn, G)
    PROVE  Counted'
<1>1. /\ TypeOK /\ live \subseteq Pending /\ GroupsAreWhole /\ Counted
  BY DEF CallInv, IInv, RInv, GroupInProgress
<1>2. rest \in SUBSET live /\ Pending' = Pending \ (live \ rest)
  BY DecisionSettles
<1>3. /\ Turn' = Turn + 1 /\ stage' # "done" /\ stage # "done"
      /\ stage \in {"lane", "readset", "merge"}
  BY DEF Turn
<1>4. /\ Over' = EndingAll(Over, G, Turn, Turn)
      /\ \A r \in Turn..Turn : <<G, r>> \notin Over
  BY <1>1, <1>2, <1>3, OverGrows
<1>5. PICK a : a = Turn
  OBVIOUS
<1>. QED
  BY <1>1, <1>3, <1>4, <1>5, CountGoesOn

\* Nothing is added to the counter that the end of the call sets.
LEMMA NoneAccepted ==
    \A over : Cardinality(Tokens("staleAccepted", over)) = 0
<1>1. \A r, G : Adds("staleAccepted", r, G) = {}
  BY DEF Adds, Entering, Rereading, Merging
<1>2. \A over : Tokens("staleAccepted", over) = {}
  BY <1>1 DEF Tokens
<1>. QED
  BY <1>2, FS_EmptySet

\* When nothing is pending, what committed is what was due to commit.
LEMMA CommittedIsDue ==
    ASSUME TypeOK, RInv, VerdictsStand, stage # "collect", Pending = {}
    PROVE  /\ Committed = DueToCommit /\ Over = AllOver
           /\ \A n \in DOMAIN input : outcome[n] = Due(n)
           /\ {n \in Committed : verdict[n].stale} = DueDetected
           /\ {n \in Committed : OracleStale(input, n, scenario)} = DueDeclared
<1>1. DOMAIN outcome = DOMAIN input
  BY DEF TypeOK
<1>2. \A n \in DOMAIN input : outcome[n] = Due(n)
  BY <1>1, VerdictsAreDue DEF RInv, Ruled, Pending
<1>3. Committed = DueToCommit
  BY <1>1, <1>2 DEF Committed, DueToCommit
<1>4. \A n \in DueToCommit : verdict[n] = Judged(n)
  BY VerdictsAreDue DEF DueToCommit
<1>5. Over = AllOver
  BY DEF Over, AllOver
<1>. QED
  BY <1>2, <1>3, <1>4, <1>5 DEF DueDetected, DueDeclared

LEMMA AccountCounts ==
    ASSUME CallInv, Account
    PROVE  Counted' /\ Pending = {}
<1>1. /\ TypeOK /\ RInv /\ VerdictsStand /\ stage = "lane" /\ live = {}
      /\ UNCHANGED args
  BY DEF CallInv, IInv, Account
<1>2. Pending = {}
  BY <1>1, NoGroupNothingPending DEF CallInv, IInv, GroupInProgress
<1>3. /\ {n \in Committed : verdict[n].stale} = DueDetected
      /\ {n \in Committed : OracleStale(input, n, scenario)} = DueDeclared
      /\ Over = AllOver
  BY <1>1, <1>2, CommittedIsDue
<1>4. metrics' = [metrics EXCEPT !["staleAccepted"] = Accepted,
                                 !["unsafe"] = @ + Accepted]
  BY <1>3 DEF Account, Accepted
<1>6. \A f : Total(f)' = Total(f)
  BY <1>1, TotalsStand
<1>7. Accepted \in Nat
  <2>1. DueDetected \in SUBSET DOMAIN input /\ DueDeclared \in SUBSET DOMAIN input
    BY DEF DueDetected, DueDeclared, DueToCommit
  <2>. QED
    BY <1>1, <2>1, BatchIsFinite DEF Accepted, TypeOK
<1>8. \A f \in MetricNames : metrics[f] = Cardinality(Tokens(f, AllOver))
  BY <1>1, <1>3 DEF CallInv, Counted
<1>9. metrics["staleAccepted"] = 0
  BY <1>8, NoneAccepted DEF MetricNames
<1>10. \A f \in MetricNames : metrics'[f] = Total(f)
  <2>. SUFFICES ASSUME NEW f \in MetricNames PROVE metrics'[f] = Total(f)
    OBVIOUS
  <2>1. metrics \in [MetricNames -> Nat]
    BY <1>1 DEF TypeOK
  <2>2. metrics'[f] = IF f = "staleAccepted" THEN Accepted
                      ELSE IF f = "unsafe" THEN metrics[f] + Accepted
                      ELSE metrics[f]
    BY <1>4, <2>1 DEF MetricNames
  <2>3. Cardinality(Tokens("staleAccepted", AllOver)) = 0
    BY NoneAccepted
  <2>. QED
    BY <1>7, <1>8, <2>2, <2>3 DEF Total
<1>11. stage' = "done"
  BY DEF Account
<1>. QED
  BY <1>2, <1>6, <1>10, <1>11 DEF Counted

LEMMA EntryCounted ==
    ASSUME CallInv, TypeOK',
           \/ InterruptByAuthority \/ GateReview
           \/ ContendForLock \/ RouteFlagged
    PROVE  Counted'
<1>1. /\ TypeOK /\ RInv /\ VerdictsStand /\ stage = "lane"
      /\ UNCHANGED <<args, verdict>> /\ input \in Seq(IntentPool)
  BY DEF CallInv, IInv, InterruptByAuthority, GateReview, ContendForLock,
         RouteFlagged, TypeOK
<1>2. live # {}
  BY DEF InterruptByAuthority, AuthorityContested, HighAuthority, GateReview,
         ReviewGated, ContendForLock, LockContended, RouteFlagged
<1>3. live \in Groups /\ live \in SUBSET DOMAIN input
      /\ FlaggedIn(live) = FlaggedOf(live)
  BY <1>1, <1>2, CurrentGroup
<1>4. \A f \in MetricNames :
         metrics'[f] = metrics[f] + Cardinality(Entering(f, live))
  BY <1>1, EntryCounts
<1>5. Turn = 1
  BY <1>1 DEF Turn
<1>6. ASSUME ~Free(live),
             NEW commit \in SUBSET live, NEW review \in SUBSET live,
             Decide(commit, review, {}), commit \cup review = live,
             ContinueWith({}, "lane")
      PROVE  Counted'
  <2>1. \A f \in MetricNames :
           metrics'[f] = metrics[f] + Adding(f, Turn, 3, live)
    BY <1>1, <1>3, <1>4, <1>5, <1>6, RoundSizes
  <2>2. commit \cup review \cup {} = live /\ live \subseteq live
    BY <1>6
  <2>. QED
    BY <1>1, <1>2, <1>3, <1>6, <2>1, <2>2, LastDecisionCounts
<1>7. CASE InterruptByAuthority
  <2>1. /\ Decide(HighAuthority(live), live \ HighAuthority(live), {})
        /\ ContinueWith({}, "lane") /\ AuthorityContested(live)
        /\ HighAuthority(live) \in SUBSET live
    BY <1>7 DEF InterruptByAuthority, HighAuthority
  <2>2. ~Free(live)
    BY <2>1 DEF Free
  <2>. QED
    BY <1>6, <2>1, <2>2
<1>8. CASE GateReview \/ ContendForLock
  <2>1. /\ Decide({}, live, {}) /\ ContinueWith({}, "lane")
        /\ GroupHeld(live)
    BY <1>8 DEF GateReview, ContendForLock, GroupHeld
  <2>2. ~Free(live)
    BY <2>1 DEF Free
  <2>. QED
    BY <1>6, <2>1, <2>2
<1>9. CASE RouteFlagged
  <2>. DEFINE review == FlaggedIn(live) \ BlockedIn(live)
              rest   == live \ FlaggedIn(live)
              last   == IF rest = {} THEN 3 ELSE Turn
  <2>1. /\ Decide({}, review, BlockedIn(live))
        /\ ContinueWith(rest, "readset")
    BY <1>9 DEF RouteFlagged
  <2>2. /\ review \in SUBSET live /\ BlockedIn(live) \in SUBSET live
        /\ rest = live \ ({} \cup review \cup BlockedIn(live))
    BY DEF FlaggedIn, BlockedIn, Flagged
  <2>3. \A f \in MetricNames :
           metrics'[f] = metrics[f] + Adding(f, Turn, last, live)
    <3>1. rest = {} => live \subseteq FlaggedOf(live)
      BY <1>3
    <3>2. \A f : Adding(f, Turn, last, live) = Cardinality(Entering(f, live))
      BY <1>1, <1>3, <1>5, <3>1, RoundSizes
    <3>. QED
      BY <1>4, <3>2
  <2>. HIDE DEF review
  <2>4. CASE rest = {}
    <3>1. ContinueWith({}, "lane")
      BY <2>1, <2>4 DEF ContinueWith
    <3>2. {} \cup review \cup BlockedIn(live) = live /\ live \subseteq live
      BY <2>2, <2>4
    <3>3. \A f \in MetricNames :
             metrics'[f] = metrics[f] + Adding(f, Turn, 3, live)
      BY <2>3, <2>4
    <3>. QED
      BY <1>1, <1>2, <1>3, <2>1, <3>1, <3>2, <3>3, LastDecisionCounts
  <2>5. CASE rest # {}
    <3>1. live' = rest /\ stage' = "readset"
      BY <2>1, <2>5 DEF ContinueWith
    <3>2. \A f \in MetricNames :
             metrics'[f] = metrics[f] + Adding(f, Turn, Turn, live)
      BY <2>3, <2>5
    <3>3. {} \cup review \cup BlockedIn(live) \subseteq live
          /\ live \subseteq live
      BY <2>2
    <3>. HIDE DEF rest
    <3>. QED
      BY <1>1, <1>2, <1>3, <2>1, <2>2, <2>5, <3>1, <3>2, <3>3, DecisionCounts
  <2>. QED
    BY <2>4, <2>5
<1>. QED
  BY <1>7, <1>8, <1>9

LEMMA CallNext == CallInv /\ [Next]_vars => CallInv'
<1>. SUFFICES ASSUME CallInv, [Next]_vars PROVE CallInv'
  OBVIOUS
<1>1. /\ IInv /\ RInv /\ VerdictsStand /\ NothingIsLeft /\ Counted
      /\ TypeOK /\ input \in Seq(IntentPool)
  BY DEF CallInv, IInv, TypeOK
<1>2. IInv' /\ RInv' /\ VerdictsStand' /\ TypeOK'
  <2>1. IInv' /\ RInv' /\ VerdictsStand'
    BY <1>1, RoutingNext, RuleNext, VerdictsNext
  <2>. QED
    BY <2>1 DEF IInv
<1>3. SUFFICES NothingIsLeft' /\ Counted'
  BY <1>2, <1>3 DEF CallInv
<1>4. ASSUME NEW rest, NEW next \in {"lane", "readset", "merge"},
             ContinueWith(rest, next)
      PROVE  NothingIsLeft'
  BY <1>4 DEF ContinueWith, NothingIsLeft
<1>5. CASE Verify
  <2>1. /\ stage = "collect" /\ stage' = "lane" /\ UNCHANGED <<args, metrics>>
        /\ Pending' = Pending /\ Pending = DOMAIN input
        /\ live \subseteq Pending
    BY <1>1, <1>5 DEF Verify, Pending, IInv, GroupInProgress, TypeOK
  <2>2. \A G \in Groups : G \cap Pending # {}
    BY <2>1, GroupsAreApart
  <2>3. Turn = 1 /\ Turn' = 1
    BY <2>1 DEF Turn
  <2>4. Over = {}
    BY <2>2, <2>3 DEF Over
  <2>5. Over' = {}
    BY <2>1, <2>2, <2>3, TokensStand DEF Over
  <2>6. \A f : Tokens(f, Over)' = Tokens(f, Over)
    BY <2>1, <2>4, <2>5, TokensStand
  <2>. QED
    BY <1>1, <2>1, <2>6 DEF NothingIsLeft, Counted
<1>6. CASE InterruptByAuthority \/ GateReview \/ ContendForLock \/ RouteFlagged
  <2>1. Counted'
    BY <1>2, <1>6, EntryCounted
  <2>2. NothingIsLeft'
    BY <1>4, <1>6 DEF InterruptByAuthority, GateReview, ContendForLock,
                      RouteFlagged
  <2>. QED
    BY <2>1, <2>2
<1>7. CASE RouteStaleReaders
  <2>. DEFINE stale == StaleReaders(live)
              rest  == live \ stale
              last  == IF rest = {} THEN 3 ELSE Turn
  <2>1. /\ stage = "readset" /\ Decide({}, stale, {})
        /\ ContinueWith(rest, "merge") /\ UNCHANGED <<args, verdict>>
        /\ stale \in SUBSET live
    BY <1>7 DEF RouteStaleReaders, StaleReaders
  <2>2. live # {} /\ Turn = 2
    BY <1>1, <2>1 DEF IInv, GroupInProgress, Turn
  <2>3. PICK G \in Groups :
           /\ G \in SUBSET DOMAIN input /\ live \subseteq G /\ Free(G)
           /\ FlaggedIn(G) = FlaggedOf(G) /\ live = G \ FlaggedIn(G)
    BY <1>1, <2>1, <2>2, CurrentGroup
  <2>4. \A f \in MetricNames :
           metrics'[f] = metrics[f] + Cardinality(Rereading(f, G))
    BY <1>1, <1>7, <2>3, RereadCounts
  <2>5. \A f \in MetricNames :
           metrics'[f] = metrics[f] + Adding(f, Turn, last, G)
    <3>1. rest = {} => SurvivorsOf(G) = {}
      BY <2>3 DEF SurvivorsOf, StaleReaders
    <3>2. \A f : Adding(f, Turn, last, G) = Cardinality(Rereading(f, G))
      BY <1>1, <2>2, <3>1, RoundSizes
    <3>. QED
      BY <2>4, <3>2
  <2>. HIDE DEF stale
  <2>. SUFFICES Counted'
    BY <1>4, <2>1
  <2>6. CASE rest = {}
    <3>1. ContinueWith({}, "lane")
      BY <2>1, <2>6 DEF ContinueWith
    <3>2. {} \cup stale \cup {} = live
      BY <2>1, <2>6
    <3>3. \A f \in MetricNames :
             metrics'[f] = metrics[f] + Adding(f, Turn, 3, G)
      BY <2>5, <2>6
    <3>. QED
      BY <2>1, <2>2, <2>3, <3>1, <3>2, <3>3, LastDecisionCounts
  <2>7. CASE rest # {}
    <3>1. live' = rest /\ stage' = "merge"
      BY <2>1, <2>7 DEF ContinueWith
    <3>2. \A f \in MetricNames :
             metrics'[f] = metrics[f] + Adding(f, Turn, Turn, G)
      BY <2>5, <2>7
    <3>3. /\ {} \cup stale \cup {} \subseteq live
          /\ rest = live \ ({} \cup stale \cup {})
      BY <2>1
    <3>. HIDE DEF rest
    <3>. QED
      BY <2>1, <2>2, <2>3, <2>7, <3>1, <3>2, <3>3, DecisionCounts
  <2>. QED
    BY <2>6, <2>7
<1>8. CASE Merge
  <2>1. stage = "merge" /\ live # {} /\ Turn = 3 /\ UNCHANGED <<args, verdict>>
    BY <1>1, <1>8
       DEF Merge, MergeAppendOnly, CommitSingleWriter, MergeUnchecked,
           MergeCompatible, ReviewConflict, CommitLive, IInv,
           GroupInProgress, Turn
  <2>2. \/ Decide(live, {}, {}) /\ ContinueWith({}, "lane")
        \/ Decide({}, live, {}) /\ ContinueWith({}, "lane")
    BY <1>8
       DEF Merge, MergeAppendOnly, CommitSingleWriter, MergeUnchecked,
           MergeCompatible, ReviewConflict, CommitLive
  <2>3. PICK G \in Groups : /\ live \subseteq G /\ Free(G)
                            /\ live = SurvivorsOf(G)
    BY <1>1, <2>1, CurrentGroup
  <2>4. \A f \in MetricNames :
           metrics'[f] = metrics[f] + Cardinality(Merging(f, G))
    BY <1>1, <1>8, <2>1, <2>3, MergeCounts
  <2>5. \A f \in MetricNames :
           metrics'[f] = metrics[f] + Adding(f, Turn, 3, G)
    BY <1>1, <2>1, <2>4, RoundSizes
  <2>6. live \cup {} \cup {} = live /\ {} \cup live \cup {} = live
    OBVIOUS
  <2>7. Counted'
    <3>1. CASE Decide(live, {}, {}) /\ ContinueWith({}, "lane")
      BY <1>2, <2>1, <2>3, <2>5, <2>6, <3>1, LastDecisionCounts
    <3>2. CASE Decide({}, live, {}) /\ ContinueWith({}, "lane")
      BY <1>2, <2>1, <2>3, <2>5, <2>6, <3>2, LastDecisionCounts
    <3>. QED
      BY <2>2, <3>1, <3>2
  <2>8. NothingIsLeft'
    BY <1>4, <2>2
  <2>. QED
    BY <2>7, <2>8
<1>9. CASE Account
  <2>1. Counted' /\ Pending = {}
    BY <1>9, AccountCounts
  <2>2. Pending' = Pending
    BY <1>9 DEF Account, Pending
  <2>. QED
    BY <2>1, <2>2 DEF NothingIsLeft
<1>10. CASE UNCHANGED vars
  <2>1. UNCHANGED <<args, outcome, stage, live, metrics>>
    BY <1>10 DEF vars, args
  <2>2. Over' = Over /\ Pending' = Pending
    BY <2>1, TokensStand DEF Over, Pending, Turn
  <2>3. \A f : Tokens(f, Over)' = Tokens(f, Over)
    BY <2>1, <2>2, TokensStand
  <2>4. \A f : Total(f)' = Total(f)
    BY <2>1, TotalsStand
  <2>. QED
    BY <1>1, <2>1, <2>2, <2>3, <2>4 DEF NothingIsLeft, Counted
<1>. QED
  BY <1>5, <1>6, <1>7, <1>8, <1>9, <1>10 DEF Next


-----------------------------------------------------------------------------
(* The second call, on the intents of the first in another order.          *)

Permuted(q) ==
    /\ Permutes(q, DOMAIN input)
    /\ input' = [n \in DOMAIN input |-> input[q[n]]]
    /\ UNCHANGED <<mode, scenario>>

\* Where the intents of S stand in the second batch.
Pre(q, S) == {n \in DOMAIN q : q[n] \in S}

LEMMA PermutedBatch ==
    ASSUME NEW q, Permuted(q)
    PROVE  /\ DOMAIN input' = DOMAIN input /\ DOMAIN q = DOMAIN input
           /\ \A n \in DOMAIN input : q[n] \in DOMAIN input
                                       /\ input'[n] = input[q[n]]
           /\ \A n \in DOMAIN input : \E m \in DOMAIN input : q[m] = n
           /\ \A m, n \in DOMAIN input : q[m] = q[n] => m = n
           /\ mode' = mode /\ scenario' = scenario
BY DEF Permuted, Permutes

LEMMA GroupsPermute ==
    ASSUME NEW q, Permuted(q)
    PROVE  \A n \in DOMAIN input :
              /\ Key(n)' = Key(q[n]) /\ Lane(n)' = Lane(q[n])
              /\ Rank(n)' = Rank(q[n])
              /\ GroupOf(n)' = Pre(q, GroupOf(q[n]))
<1>1. \A n \in DOMAIN input : /\ Key(n)' = Key(q[n])
                               /\ Lane(n)' = Lane(q[n])
                               /\ Rank(n)' = Rank(q[n])
  BY PermutedBatch DEF Key, Lane, Rank
<1>2. \A n \in DOMAIN input : GroupOf(n)' = Pre(q, GroupOf(q[n]))
  BY <1>1, PermutedBatch DEF GroupOf, Pre
<1>. QED
  BY <1>1, <1>2

LEMMA MutatorsPermute ==
    ASSUME NEW q, Permuted(q), NEW n \in DOMAIN input, NEW t
    PROVE  MutatorsOf(input', n, t) = Pre(q, MutatorsOf(input, q[n], t))
<1>1. \A m \in DOMAIN input : /\ input'[m] = input[q[m]]
                               /\ q[m] \in DOMAIN input
                               /\ m # n <=> q[m] # q[n]
  BY PermutedBatch
<1>2. \A m \in DOMAIN input :
         m \in MutatorsOf(input', n, t) <=> q[m] \in MutatorsOf(input, q[n], t)
  <2>. TAKE m \in DOMAIN input
  <2>1. m \in DOMAIN input' \ {n} <=> q[m] \in DOMAIN input \ {q[n]}
    BY <1>1, PermutedBatch
  <2>2. input'[m] = input[q[m]] /\ input'[n] = input[q[n]]
    BY PermutedBatch
  <2>. QED
    BY <2>1, <2>2 DEF MutatorsOf
<1>3. /\ MutatorsOf(input', n, t) \subseteq DOMAIN input
      /\ DOMAIN q = DOMAIN input
  BY PermutedBatch DEF MutatorsOf
<1>. QED
  BY <1>2, <1>3 DEF Pre

\* A part of the batch is empty where its place in the second is.
LEMMA PreIsEmpty ==
    ASSUME NEW q, Permuted(q), NEW S \in SUBSET DOMAIN input
    PROVE  Pre(q, S) = {} <=> S = {}
BY PermutedBatch DEF Pre

LEMMA StalePermutes ==
    ASSUME NEW q, Permuted(q), NEW n \in DOMAIN input
    PROVE  /\ \A d, sc : DependencyStale(input', n, d, sc)
                           <=> DependencyStale(input, q[n], d, sc)
           /\ \A d : SelfCorrectionRead(input', n, d)
                       <=> SelfCorrectionRead(input, q[n], d)
           /\ \A cmode, sc : StaleRead(input', n, cmode, sc)
                               <=> StaleRead(input, q[n], cmode, sc)
           /\ ReadsetStale(input', n) <=> ReadsetStale(input, q[n])
           /\ \A sc : OracleStale(input', n, sc) <=> OracleStale(input, q[n], sc)
<1>1. input'[n] = input[q[n]] /\ q[n] \in DOMAIN input
  BY PermutedBatch
<1>2. \A t : /\ MutatorsOf(input', n, t) = {} <=> MutatorsOf(input, q[n], t) = {}
             /\ MutatorsOf(input', n, t) = Pre(q, MutatorsOf(input, q[n], t))
             /\ MutatorsOf(input, q[n], t) \in SUBSET DOMAIN input
  <2>1. \A t : MutatorsOf(input, q[n], t) \in SUBSET DOMAIN input
    BY DEF MutatorsOf
  <2>. QED
    BY <2>1, MutatorsPermute, PreIsEmpty
<1>3. \A d, sc : DependencyStale(input', n, d, sc)
                   <=> DependencyStale(input, q[n], d, sc)
  BY <1>2 DEF DependencyStale
<1>4. \A t : (\A m \in MutatorsOf(input', n, t) :
                 AuthorityRank(input'[m]) < AuthorityRank(input'[n]))
              <=> (\A m \in MutatorsOf(input, q[n], t) :
                      AuthorityRank(input[m]) < AuthorityRank(input[q[n]]))
  BY <1>1, <1>2, PermutedBatch DEF Pre
<1>5. \A d : SelfCorrectionRead(input', n, d)
               <=> SelfCorrectionRead(input, q[n], d)
  BY <1>1, <1>2, <1>4 DEF SelfCorrectionRead
<1>6. \A cmode, sc : StaleRead(input', n, cmode, sc)
                       <=> StaleRead(input, q[n], cmode, sc)
  BY <1>1, <1>3, <1>5 DEF StaleRead
<1>7. ReadsetStale(input', n) <=> ReadsetStale(input, q[n])
  BY <1>1, <1>2 DEF ReadsetStale
<1>8. \A sc : OracleStale(input', n, sc) <=> OracleStale(input, q[n], sc)
  <2>1. \A t : (\E m \in DOMAIN input' :
                   IsStateWrite(input'[m]) /\ input'[m].target = t)
               <=> (\E m \in DOMAIN input :
                       IsStateWrite(input[m]) /\ input[m].target = t)
    BY PermutedBatch
  <2>. QED
    BY <1>1, <2>1 DEF OracleStale
<1>. QED
  BY <1>3, <1>5, <1>6, <1>7, <1>8

\* What is found of an intent depends on the intent itself and, of the batch,
\* on whether it read what another intent makes stale.
LEMMA EventsOfIntent ==
    ASSUME NEW a, NEW m, NEW b, NEW n, NEW cmode, NEW sc, a[m] = b[n],
           StaleRead(a, m, cmode, sc) <=> StaleRead(b, n, cmode, sc)
    PROVE  Events(a, m, cmode, sc) = Events(b, n, cmode, sc)
<1>1. StaleRead(a, m, cmode, sc) = StaleRead(b, n, cmode, sc)
  BY DEF StaleRead
<1>. QED
  BY <1>1 DEF Events

LEMMA VerdictsPermute ==
    ASSUME NEW q, Permuted(q), NEW n \in DOMAIN input
    PROVE  /\ Judged(n)' = Judged(q[n])
           /\ Flagged(Judged(n))' <=> Flagged(Judged(q[n]))
           /\ OracleStale(input, n, scenario)'
                <=> OracleStale(input, q[n], scenario)
<1>1. input'[n] = input[q[n]] /\ mode' = mode /\ scenario' = scenario
  BY PermutedBatch
<1>2. \A cmode, sc : Events(input', n, cmode, sc) = Events(input, q[n], cmode, sc)
  BY <1>1, StalePermutes, EventsOfIntent
<1>3. \A cmode, sc : VerifyCertificate(input', n, cmode, sc)
                       = VerifyCertificate(input, q[n], cmode, sc)
  BY <1>1, <1>2 DEF VerifyCertificate
<1>4. \A sc : Verdict(input', n, mode, sc) = Verdict(input, q[n], mode, sc)
  BY <1>3 DEF Verdict
<1>. QED
  BY <1>1, <1>4, StalePermutes DEF Judged


\* What is decided about a part of the batch is decided about its place in the
\* second.
LEMMA PreIsPlain ==
    ASSUME NEW q, Permuted(q)
    PROVE  /\ \A S : Pre(q, S) \in SUBSET DOMAIN input
           /\ \A n \in DOMAIN input : \A S : n \in Pre(q, S) <=> q[n] \in S
           /\ \A S, T \in SUBSET DOMAIN input : Pre(q, S) = Pre(q, T) <=> S = T
           /\ \A S, T : /\ Pre(q, S \ T) = Pre(q, S) \ Pre(q, T)
                        /\ Pre(q, S \cup T) = Pre(q, S) \cup Pre(q, T)
           /\ Pre(q, {}) = {}
<1>1. DOMAIN q = DOMAIN input
  BY PermutedBatch
<1>2. /\ \A S : Pre(q, S) \in SUBSET DOMAIN input
      /\ \A n \in DOMAIN input : \A S : n \in Pre(q, S) <=> q[n] \in S
  BY <1>1 DEF Pre
<1>3. ASSUME NEW S \in SUBSET DOMAIN input, NEW T \in SUBSET DOMAIN input,
             Pre(q, S) = Pre(q, T)
      PROVE  S = T
  <2>1. \A m \in DOMAIN input : m \in S <=> m \in T
    <3>. TAKE m \in DOMAIN input
    <3>1. PICK n \in DOMAIN input : q[n] = m
      BY PermutedBatch
    <3>2. n \in Pre(q, S) <=> n \in Pre(q, T)
      BY <1>3
    <3>. QED
      BY <1>2, <3>1, <3>2
  <2>. QED
    BY <2>1
<1>4. \A S, T : /\ Pre(q, S \ T) = Pre(q, S) \ Pre(q, T)
                /\ Pre(q, S \cup T) = Pre(q, S) \cup Pre(q, T)
  BY DEF Pre
<1>5. Pre(q, {}) = {}
  BY DEF Pre
<1>. QED
  BY <1>2, <1>3, <1>4, <1>5

LEMMA PreCount ==
    ASSUME input \in Seq(IntentPool), NEW q, Permuted(q),
           NEW S \in SUBSET DOMAIN input
    PROVE  Cardinality(Pre(q, S)) = Cardinality(S)
<1>. DEFINE F == [n \in Pre(q, S) |-> q[n]]
<1>1. F \in [Pre(q, S) -> S]
  BY PreIsPlain
<1>2. \A m, n \in Pre(q, S) : F[m] = F[n] => m = n
  BY PreIsPlain, PermutedBatch
<1>3. \A z \in S : \E n \in Pre(q, S) : F[n] = z
  <2>. TAKE z \in S
  <2>1. PICK n \in DOMAIN input : q[n] = z
    BY PermutedBatch
  <2>2. n \in Pre(q, S)
    BY <2>1, PreIsPlain
  <2>. QED
    BY <2>1, <2>2
<1>4. IsFiniteSet(Pre(q, S))
  BY PreIsPlain, BatchIsFinite
<1>. HIDE DEF F
<1>. QED
  BY <1>1, <1>2, <1>3, <1>4, MatchedSets

LEMMA LanesPermute ==
    ASSUME input \in Seq(IntentPool), NEW q, Permuted(q),
           NEW S \in SUBSET DOMAIN input
    PROVE  /\ HighAuthority(Pre(q, S))' = Pre(q, HighAuthority(S))
           /\ FlaggedOf(Pre(q, S))' = Pre(q, FlaggedOf(S))
           /\ BlockedOf(Pre(q, S))' = Pre(q, BlockedOf(S))
           /\ StaleReaders(Pre(q, S))' = Pre(q, StaleReaders(S))
           /\ StateWritesIn(Pre(q, S))' = Pre(q, StateWritesIn(S))
           /\ WorkspaceWritesIn(Pre(q, S))' = Pre(q, WorkspaceWritesIn(S))
           /\ SemanticConflict(Pre(q, S))' <=> SemanticConflict(S)
           /\ ReviewGated(Pre(q, S))' <=> ReviewGated(S)
           /\ LockContended(Pre(q, S))' <=> LockContended(S)
           /\ AllAppendOnly(Pre(q, S))' <=> AllAppendOnly(S)
           /\ MergesUnchecked(Pre(q, S))' <=> MergesUnchecked(S)
<1>. DEFINE P == Pre(q, S)
<1>0. /\ P \in SUBSET DOMAIN input
      /\ \A n \in DOMAIN input : n \in P <=> q[n] \in S
      /\ \A n \in DOMAIN input : /\ q[n] \in DOMAIN input
                                 /\ input'[n] = input[q[n]]
      /\ \A m \in DOMAIN input : \E n \in DOMAIN input : q[n] = m
      /\ \A m, n \in DOMAIN input : q[m] = q[n] => m = n
      /\ mode' = mode /\ DOMAIN q = DOMAIN input
  BY PreIsPlain, PermutedBatch
<1>1. \A n \in DOMAIN input : Rank(n)' = Rank(q[n]) /\ Lane(n)' = Lane(q[n])
  BY GroupsPermute
<1>2. \A m \in S : \E n \in P : q[n] = m
  BY <1>0
<1>3. Cardinality(P) = Cardinality(S)
  BY PreCount
<1>. HIDE DEF P
<1>4. HighAuthority(P)' = Pre(q, HighAuthority(S))
  <2>1. \A n \in P : (\A m \in P : Rank(m)' <= Rank(n)')
                       <=> (\A m \in S : Rank(m) <= Rank(q[n]))
    <3>. TAKE n \in P
    <3>1. n \in DOMAIN input /\ Rank(n)' = Rank(q[n])
      BY <1>0, <1>1
    <3>2. \A m \in P : q[m] \in S /\ Rank(m)' = Rank(q[m])
      BY <1>0, <1>1
    <3>. QED
      BY <1>2, <3>1, <3>2
  <2>2. \A n \in P : AuthorityInterrupt(input[n], mode)'
                       <=> AuthorityInterrupt(input[q[n]], mode)
    BY <1>0
  <2>. QED
    BY <1>0, <2>1, <2>2 DEF HighAuthority, Pre
<1>5. /\ FlaggedOf(P)' = Pre(q, FlaggedOf(S))
      /\ BlockedOf(P)' = Pre(q, BlockedOf(S))
  <2>1. \A n \in P : /\ Judged(n)' = Judged(q[n])
                     /\ Flagged(Judged(n))' <=> Flagged(Judged(q[n]))
    BY <1>0, VerdictsPermute
  <2>. QED
    BY <1>0, <2>1 DEF FlaggedOf, BlockedOf, Pre
<1>6. StaleReaders(P)' = Pre(q, StaleReaders(S))
  <2>1. \A n \in P : ReadsetStale(input', n) <=> ReadsetStale(input, q[n])
    BY <1>0, StalePermutes
  <2>. QED
    BY <1>0, <2>1 DEF StaleReaders, Pre
<1>7. /\ StateWritesIn(P)' = Pre(q, StateWritesIn(S))
      /\ WorkspaceWritesIn(P)' = Pre(q, WorkspaceWritesIn(S))
  BY <1>0 DEF StateWritesIn, WorkspaceWritesIn, Pre
<1>8. SemanticConflict(P)' <=> SemanticConflict(S)
  <2>1. ASSUME NEW m \in P, NEW n \in P
        PROVE  /\ m # n <=> q[m] # q[n]
               /\ CompatiblePair(input'[m], input'[n])
                    <=> CompatiblePair(input[q[m]], input[q[n]])
    BY <1>0
  <2>2. \A m \in P : q[m] \in S
    BY <1>0
  <2>. QED
    BY <1>2, <2>1, <2>2 DEF SemanticConflict
<1>9. /\ ReviewGated(P)' <=> ReviewGated(S)
      /\ AllAppendOnly(P)' <=> AllAppendOnly(S)
      /\ (\E n \in P : Lane(n) = "pessimistic_lock")'
           <=> (\E n \in S : Lane(n) = "pessimistic_lock")
  <2>1. \A n \in P : q[n] \in S /\ Lane(n)' = Lane(q[n])
    BY <1>0, <1>1
  <2>. QED
    BY <1>2, <2>1 DEF ReviewGated, AllAppendOnly
<1>10. /\ LockContended(P)' <=> LockContended(S)
       /\ MergesUnchecked(P)' <=> MergesUnchecked(S)
  BY <1>0, <1>3, <1>9 DEF LockContended, MergesUnchecked
<1>. QED
  BY <1>4, <1>5, <1>6, <1>7, <1>8, <1>9, <1>10 DEF P


LEMMA GroupsAreRuledAlike ==
    ASSUME input \in Seq(IntentPool), NEW q, Permuted(q),
           NEW S \in SUBSET DOMAIN input
    PROVE  /\ AuthorityContested(Pre(q, S))' <=> AuthorityContested(S)
           /\ GroupHeld(Pre(q, S))' <=> GroupHeld(S)
           /\ Free(Pre(q, S))' <=> Free(S)
           /\ SurvivorsOf(Pre(q, S))' = Pre(q, SurvivorsOf(S))
           /\ Conflicting(Pre(q, S))' <=> Conflicting(S)
<1>. DEFINE P == Pre(q, S)
<1>1. /\ HighAuthority(P)' = Pre(q, HighAuthority(S))
      /\ FlaggedOf(P)' = Pre(q, FlaggedOf(S))
      /\ StaleReaders(P)' = Pre(q, StaleReaders(S))
      /\ SemanticConflict(P)' <=> SemanticConflict(S)
      /\ ReviewGated(P)' <=> ReviewGated(S)
      /\ LockContended(P)' <=> LockContended(S)
      /\ AllAppendOnly(P)' <=> AllAppendOnly(S)
      /\ MergesUnchecked(P)' <=> MergesUnchecked(S)
      /\ Cardinality(P) = Cardinality(S)
  BY LanesPermute, PreCount
<1>2. HighAuthority(S) \in SUBSET DOMAIN input
  BY DEF HighAuthority
<1>3. /\ Pre(q, HighAuthority(S)) = {} <=> HighAuthority(S) = {}
      /\ Pre(q, HighAuthority(S)) = P <=> HighAuthority(S) = S
  <2>1. PICK H \in SUBSET DOMAIN input : H = HighAuthority(S)
    BY <1>2
  <2>2. Pre(q, H) = {} <=> H = {}
    BY PreIsEmpty
  <2>3. Pre(q, H) = Pre(q, S) <=> H = S
    BY PreIsPlain
  <2>. QED
    BY <2>1, <2>2, <2>3
<1>4. SurvivorsOf(P)' = P \ (Pre(q, FlaggedOf(S)) \cup Pre(q, StaleReaders(S)))
  BY <1>1 DEF SurvivorsOf, Pre
<1>5. Pre(q, SurvivorsOf(S))
        = P \ (Pre(q, FlaggedOf(S)) \cup Pre(q, StaleReaders(S)))
  BY PreIsPlain DEF SurvivorsOf
<1>. HIDE DEF P
<1>6. AuthorityContested(P)' <=> AuthorityContested(S)
  <2>1. AuthorityContested(P)' <=> HighAuthority(P)' # {} /\ HighAuthority(P)' # P
    BY DEF AuthorityContested, P, Pre
  <2>. QED
    BY <1>1, <1>3, <2>1 DEF AuthorityContested
<1>7. /\ GroupHeld(P)' <=> GroupHeld(S)
      /\ Conflicting(P)' <=> Conflicting(S)
  BY <1>1 DEF GroupHeld, Conflicting
<1>8. Free(P)' <=> Free(S)
  BY <1>6, <1>7 DEF Free
<1>. QED
  BY <1>4, <1>5, <1>6, <1>7, <1>8 DEF P

LEMMA UnsafePermutes ==
    ASSUME input \in Seq(IntentPool), NEW q, Permuted(q),
           NEW S \in SUBSET DOMAIN input
    PROVE  /\ UnsafeIn(Pre(q, S))' = Pre(q, UnsafeIn(S))
           /\ Merges(Pre(q, S))' <=> Merges(S)
<1>. DEFINE P == Pre(q, S)
<1>1. /\ StateWritesIn(P)' = Pre(q, StateWritesIn(S))
      /\ WorkspaceWritesIn(P)' = Pre(q, WorkspaceWritesIn(S))
      /\ SemanticConflict(P)' <=> SemanticConflict(S)
      /\ AllAppendOnly(P)' <=> AllAppendOnly(S)
      /\ MergesUnchecked(P)' <=> MergesUnchecked(S)
      /\ Cardinality(P) = Cardinality(S)
  BY LanesPermute, PreCount
<1>2. mode' = mode /\ Pre(q, {}) = {}
  BY PermutedBatch, PreIsPlain
<1>3. {n \in P : UnsafeHighRiskAutoCommit(input'[n], mode)}
        = Pre(q, {n \in S : UnsafeHighRiskAutoCommit(input[n], mode)})
  BY PermutedBatch, PreIsPlain DEF Pre
<1>4. UnsafeIn(S) \in SUBSET DOMAIN input
  BY DEF UnsafeIn, StateWritesIn, WorkspaceWritesIn
<1>5. P' = P
  BY DEF Pre
<1>. HIDE DEF P
<1>6. UnsafeIn(P)' = Pre(q, UnsafeIn(S))
  BY <1>1, <1>2, <1>3, <1>5 DEF UnsafeIn
<1>7. UnsafeIn(P)' = {} <=> UnsafeIn(S) = {}
  BY <1>4, <1>6, PreIsEmpty
<1>8. Merges(P)' <=> Merges(S)
  BY <1>1, <1>5, <1>7 DEF Merges
<1>. QED
  BY <1>6, <1>8 DEF P

LEMMA DecisionsPermute ==
    ASSUME input \in Seq(IntentPool), NEW q, Permuted(q),
           NEW S \in SUBSET DOMAIN input
    PROVE  /\ CommitsOf(Pre(q, S))' = Pre(q, CommitsOf(S))
           /\ BlocksOf(Pre(q, S))' = Pre(q, BlocksOf(S))
           /\ HeldBack(Pre(q, S))' = Pre(q, HeldBack(S))
           /\ RebasedOf(Pre(q, S))' = Pre(q, RebasedOf(S))
           /\ Locked(Pre(q, S))' <=> Locked(S)
           /\ Disputed(Pre(q, S))' <=> Disputed(S)
<1>. DEFINE P == Pre(q, S)
<1>1. /\ HighAuthority(P)' = Pre(q, HighAuthority(S))
      /\ FlaggedOf(P)' = Pre(q, FlaggedOf(S))
      /\ BlockedOf(P)' = Pre(q, BlockedOf(S))
      /\ SemanticConflict(P)' <=> SemanticConflict(S)
      /\ ReviewGated(P)' <=> ReviewGated(S)
      /\ LockContended(P)' <=> LockContended(S)
  BY LanesPermute
<1>2. /\ AuthorityContested(P)' <=> AuthorityContested(S)
      /\ GroupHeld(P)' <=> GroupHeld(S)
      /\ Free(P)' <=> Free(S)
      /\ SurvivorsOf(P)' = Pre(q, SurvivorsOf(S))
  BY GroupsAreRuledAlike
<1>3. SurvivorsOf(S) \in SUBSET DOMAIN input /\ FlaggedOf(S) \in SUBSET DOMAIN input
  BY DEF SurvivorsOf, FlaggedOf
<1>4. Conflicting(SurvivorsOf(P))' <=> Conflicting(SurvivorsOf(S))
  <2>1. PICK V \in SUBSET DOMAIN input : V = SurvivorsOf(S)
    BY <1>3
  <2>2. Conflicting(Pre(q, V))' <=> Conflicting(V)
    BY GroupsAreRuledAlike
  <2>3. SurvivorsOf(P)' = Pre(q, V) /\ Pre(q, V)' = Pre(q, V)
    BY <1>2, <2>1 DEF Pre
  <2>. HIDE DEF P
  <2>. QED
    BY <2>1, <2>2, <2>3
<1>5. /\ \A A, B : Pre(q, A \ B) = Pre(q, A) \ Pre(q, B)
      /\ Pre(q, {}) = {}
      /\ Pre(q, FlaggedOf(S)) = {} <=> FlaggedOf(S) = {}
  <2>1. PICK V \in SUBSET DOMAIN input : V = FlaggedOf(S)
    BY <1>3
  <2>2. Pre(q, V) = {} <=> V = {}
    BY PreIsEmpty
  <2>. QED
    BY <2>1, <2>2, PreIsPlain
<1>6. P' = P /\ P = Pre(q, S)
  BY DEF Pre
<1>. HIDE DEF P
<1>7. CommitsOf(P)' = Pre(q, CommitsOf(S))
  BY <1>1, <1>2, <1>4, <1>5 DEF CommitsOf
<1>8. BlocksOf(P)' = Pre(q, BlocksOf(S))
  BY <1>1, <1>2, <1>5 DEF BlocksOf
<1>9. HeldBack(P)' = Pre(q, HeldBack(S))
  <2>1. /\ Pre(q, S \ HighAuthority(S)) = P \ Pre(q, HighAuthority(S))
        /\ Pre(q, FlaggedOf(S) \ BlockedOf(S))
             = Pre(q, FlaggedOf(S)) \ Pre(q, BlockedOf(S))
    BY <1>6 DEF Pre
  <2>2. HeldBack(P)' = IF AuthorityContested(P)' THEN P \ HighAuthority(P)'
                       ELSE IF GroupHeld(P)' THEN P
                       ELSE FlaggedOf(P)' \ BlockedOf(P)'
    BY <1>6 DEF HeldBack
  <2>3. CASE AuthorityContested(S)
    BY <1>1, <1>2, <2>1, <2>2, <2>3 DEF HeldBack
  <2>4. CASE ~AuthorityContested(S) /\ GroupHeld(S)
    BY <1>2, <1>6, <2>2, <2>4 DEF HeldBack
  <2>5. CASE ~AuthorityContested(S) /\ ~GroupHeld(S)
    BY <1>1, <1>2, <2>1, <2>2, <2>5 DEF HeldBack
  <2>. QED
    BY <2>3, <2>4, <2>5
<1>10. RebasedOf(P)' = Pre(q, RebasedOf(S))
  BY <1>2, <1>5, <1>9 DEF RebasedOf
<1>11. /\ Locked(P)' <=> Locked(S)
       /\ Disputed(P)' <=> Disputed(S)
  BY <1>1, <1>2, <1>5 DEF Locked, Disputed
<1>. QED
  BY <1>7, <1>8, <1>9, <1>10, <1>11 DEF P

\* What is due to an intent does not depend on where it stands.
LEMMA DuePermutes ==
    ASSUME input \in Seq(IntentPool), NEW q, Permuted(q), NEW n \in DOMAIN input
    PROVE  Due(n)' = Due(q[n])
<1>1. PICK G \in SUBSET DOMAIN input : G = GroupOf(q[n])
  BY DEF GroupOf
<1>2. /\ CommitsOf(Pre(q, G))' = Pre(q, CommitsOf(G))
      /\ BlocksOf(Pre(q, G))' = Pre(q, BlocksOf(G))
  BY DecisionsPermute
<1>3. /\ n \in Pre(q, CommitsOf(G)) <=> q[n] \in CommitsOf(G)
      /\ n \in Pre(q, BlocksOf(G)) <=> q[n] \in BlocksOf(G)
  BY PreIsPlain
<1>4. GroupOf(n)' = Pre(q, G) /\ Pre(q, G)' = Pre(q, G)
  BY <1>1, GroupsPermute DEF Pre
<1>5. /\ CommitsOf(GroupOf(n))' = Pre(q, CommitsOf(G))
      /\ BlocksOf(GroupOf(n))' = Pre(q, BlocksOf(G))
  BY <1>2, <1>4
<1>. QED
  BY <1>1, <1>3, <1>5 DEF Due


-----------------------------------------------------------------------------
(* The counters of the second call.                                        *)

LEMMA SinglesPermute ==
    ASSUME NEW q, Permuted(q),
           NEW S \in SUBSET DOMAIN input, NEW T \in SUBSET DOMAIN input
    PROVE  Pre(q, T) \in Singles(Pre(q, S)) <=> T \in Singles(S)
<1>1. ASSUME NEW n \in DOMAIN input
      PROVE  Pre(q, {q[n]}) = {n}
  BY PermutedBatch DEF Pre
<1>2. ASSUME T \in Singles(S)
      PROVE  Pre(q, T) \in Singles(Pre(q, S))
  <2>1. PICK x \in S : T = {x}
    BY <1>2 DEF Singles
  <2>2. PICK n \in DOMAIN input : q[n] = x
    BY PermutedBatch
  <2>3. Pre(q, T) = {n} /\ n \in Pre(q, S)
    BY <1>1, <2>1, <2>2, PreIsPlain
  <2>. QED
    BY <2>3 DEF Singles
<1>3. ASSUME Pre(q, T) \in Singles(Pre(q, S))
      PROVE  T \in Singles(S)
  <2>1. PICK n \in Pre(q, S) : Pre(q, T) = {n}
    BY <1>3 DEF Singles
  <2>2. n \in DOMAIN input /\ q[n] \in S
    BY PreIsPlain
  <2>3. PICK X \in SUBSET DOMAIN input : X = {q[n]}
    BY <2>2
  <2>4. Pre(q, X) = Pre(q, T)
    BY <1>1, <2>1, <2>2, <2>3
  <2>5. X = T
    BY <2>4, PreIsPlain
  <2>. QED
    BY <2>2, <2>3, <2>5 DEF Singles
<1>. QED
  BY <1>2, <1>3

LEMMA WholePermutes ==
    ASSUME NEW q, Permuted(q),
           NEW S \in SUBSET DOMAIN input, NEW T \in SUBSET DOMAIN input
    PROVE  \A c, d : (c <=> d) =>
              (Pre(q, T) \in Whole(Pre(q, S), c) <=> T \in Whole(S, d))
<1>1. Pre(q, T) = Pre(q, S) <=> T = S
  BY PreIsPlain
<1>. QED
  BY <1>1 DEF Whole

LEMMA EnteringPermutes ==
    ASSUME input \in Seq(IntentPool), NEW q, Permuted(q), NEW f,
           NEW S \in SUBSET DOMAIN input, NEW T \in SUBSET DOMAIN input
    PROVE  Pre(q, T) \in Entering(f, Pre(q, S))' <=> T \in Entering(f, S)
<1>. DEFINE P == Pre(q, S)
<1>0. P' = P
  BY DEF Pre
<1>1. PICK A \in SUBSET DOMAIN input, B \in SUBSET DOMAIN input,
           C \in SUBSET DOMAIN input, D \in SUBSET DOMAIN input :
         A = HeldBack(S) /\ B = BlocksOf(S) /\ C = RebasedOf(S)
         /\ D = StaleReaders(S)
  BY DEF HeldBack, RebasedOf, BlocksOf, StaleReaders, FlaggedOf, BlockedOf
<1>2. PICK E \in SUBSET DOMAIN input : E = FlaggedOf(A)
  BY DEF FlaggedOf
<1>3. /\ HeldBack(P)' = Pre(q, A) /\ BlocksOf(P)' = Pre(q, B)
      /\ RebasedOf(P)' = Pre(q, C) /\ StaleReaders(P)' = Pre(q, D)
  BY <1>1, DecisionsPermute, LanesPermute
<1>4. FlaggedOf(HeldBack(P))' = Pre(q, E)
  <2>1. FlaggedOf(Pre(q, A))' = Pre(q, E)
    BY <1>2, LanesPermute
  <2>2. Pre(q, A)' = Pre(q, A)
    BY DEF Pre
  <2>. HIDE DEF P
  <2>. QED
    BY <1>3, <2>1, <2>2
<1>5. /\ Pre(q, T) \in Singles(Pre(q, A)) <=> T \in Singles(A)
      /\ Pre(q, T) \in Singles(Pre(q, B)) <=> T \in Singles(B)
      /\ Pre(q, T) \in Singles(Pre(q, C)) <=> T \in Singles(C)
      /\ Pre(q, T) \in Singles(Pre(q, D)) <=> T \in Singles(D)
      /\ Pre(q, T) \in Singles(Pre(q, E)) <=> T \in Singles(E)
  BY SinglesPermute
<1>6. /\ Locked(P)' <=> Locked(S)
      /\ Disputed(P)' <=> Disputed(S)
      /\ SemanticConflict(P)' <=> SemanticConflict(S)
  BY DecisionsPermute, LanesPermute
<1>7. /\ Pre(q, T) \in Whole(P, Locked(P)') <=> T \in Whole(S, Locked(S))
      /\ Pre(q, T) \in Whole(P, Disputed(P)') <=> T \in Whole(S, Disputed(S))
      /\ Pre(q, T) \in Whole(P, SemanticConflict(P)')
           <=> T \in Whole(S, SemanticConflict(S))
  <2>1. Pre(q, T) = P <=> T = S
    BY PreIsPlain
  <2>. HIDE DEF P
  <2>. QED
    BY <1>6, <2>1 DEF Whole
<1>. HIDE DEF P
<1>8. Pre(q, T) \in Entering(f, P)' <=> T \in Entering(f, S)
  BY <1>0, <1>1, <1>2, <1>3, <1>4, <1>5, <1>7 DEF Entering
<1>. QED
  BY <1>8 DEF P

LEMMA RereadingPermutes ==
    ASSUME input \in Seq(IntentPool), NEW q, Permuted(q), NEW f,
           NEW S \in SUBSET DOMAIN input, NEW T \in SUBSET DOMAIN input
    PROVE  Pre(q, T) \in Rereading(f, Pre(q, S))' <=> T \in Rereading(f, S)
<1>. DEFINE P == Pre(q, S)
<1>1. PICK A \in SUBSET DOMAIN input : A = StaleReaders(S) \ FlaggedOf(S)
  BY DEF StaleReaders
<1>2. /\ StaleReaders(P)' = Pre(q, StaleReaders(S))
      /\ FlaggedOf(P)' = Pre(q, FlaggedOf(S))
      /\ Free(P)' <=> Free(S)
  BY LanesPermute, GroupsAreRuledAlike
<1>3. (StaleReaders(P) \ FlaggedOf(P))' = Pre(q, A)
  <2>1. Pre(q, A) = Pre(q, StaleReaders(S)) \ Pre(q, FlaggedOf(S))
    BY <1>1 DEF Pre
  <2>. HIDE DEF P
  <2>. QED
    BY <1>2, <2>1
<1>4. Pre(q, T) \in Singles(Pre(q, A)) <=> T \in Singles(A)
  BY SinglesPermute
<1>. HIDE DEF P
<1>5. Pre(q, T) \in Rereading(f, P)' <=> T \in Rereading(f, S)
  BY <1>1, <1>2, <1>3, <1>4 DEF Rereading
<1>. QED
  BY <1>5 DEF P

LEMMA MergingPermutes ==
    ASSUME input \in Seq(IntentPool), NEW q, Permuted(q), NEW f,
           NEW S \in SUBSET DOMAIN input, NEW T \in SUBSET DOMAIN input
    PROVE  Pre(q, T) \in Merging(f, Pre(q, S))' <=> T \in Merging(f, S)
<1>. DEFINE P == Pre(q, S)
<1>0. P' = P
  BY DEF Pre
<1>1. PICK V \in SUBSET DOMAIN input : V = SurvivorsOf(S)
  BY DEF SurvivorsOf
<1>2. SurvivorsOf(P)' = Pre(q, V) /\ (Free(P)' <=> Free(S))
  BY <1>1, GroupsAreRuledAlike
<1>3. Pre(q, V)' = Pre(q, V) /\ (Pre(q, V) = {} <=> V = {})
  BY PreIsEmpty DEF Pre
<1>4. PICK U \in SUBSET DOMAIN input : U = UnsafeIn(V)
  BY DEF UnsafeIn, StateWritesIn, WorkspaceWritesIn
<1>5. /\ UnsafeIn(Pre(q, V))' = Pre(q, U)
      /\ Merges(Pre(q, V))' <=> Merges(V)
      /\ Conflicting(Pre(q, V))' <=> Conflicting(V)
  BY <1>4, UnsafePermutes, GroupsAreRuledAlike
<1>. DEFINE W == SurvivorsOf(P)
<1>6. W' = Pre(q, V)
  BY <1>2
<1>. HIDE DEF W
<1>7. /\ UnsafeIn(W)' = Pre(q, U)
      /\ Merges(W)' <=> Merges(V)
      /\ Conflicting(W)' <=> Conflicting(V)
  BY <1>3, <1>5, <1>6
<1>8. /\ Pre(q, T) \in Singles(Pre(q, U)) <=> T \in Singles(U)
      /\ Pre(q, T) \in Singles(Pre(q, V)) <=> T \in Singles(V)
      /\ Singles({}) = {}
  BY SinglesPermute DEF Singles
<1>9. Pre(q, T) = P <=> T = S
  BY PreIsPlain
<1>. HIDE DEF P
<1>10. CASE ~Free(S) \/ V = {}
  <2>1. Merging(f, S) = {} /\ Merging(f, P)' = {}
    BY <1>1, <1>2, <1>3, <1>6, <1>10 DEF Merging, W
  <2>. QED
    BY <2>1 DEF P
<1>11. CASE Free(S) /\ V # {}
  <2>1. Merging(f, S) =
          CASE f = "review"     -> Singles(IF Conflicting(V) THEN V ELSE {})
            [] f = "conflicts"  -> Whole(S, Conflicting(V))
            [] f = "unsafe"     -> Singles(U)
            [] f = "autoMerges" -> Whole(S, Merges(V))
            [] OTHER            -> {}
    BY <1>1, <1>4, <1>11 DEF Merging
  <2>2. Merging(f, P)' =
          CASE f = "review"     -> Singles(IF Conflicting(W)' THEN Pre(q, V)
                                                              ELSE {})
            [] f = "conflicts"  -> Whole(P, Conflicting(W)')
            [] f = "unsafe"     -> Singles(Pre(q, U))
            [] f = "autoMerges" -> Whole(P, Merges(W)')
            [] OTHER            -> {}
    BY <1>0, <1>2, <1>3, <1>6, <1>7, <1>11 DEF Merging, W
  <2>3. Pre(q, T) \in Merging(f, P)' <=> T \in Merging(f, S)
    BY <1>7, <1>8, <1>9, <2>1, <2>2 DEF Whole
  <2>. QED
    BY <2>3 DEF P
<1>. QED
  BY <1>10, <1>11


LEMMA AddsPermute ==
    ASSUME input \in Seq(IntentPool), NEW q, Permuted(q), NEW f, NEW r,
           NEW S \in SUBSET DOMAIN input, NEW T \in SUBSET DOMAIN input
    PROVE  Pre(q, T) \in Adds(f, r, Pre(q, S))' <=> T \in Adds(f, r, S)
<1>1. Pre(q, S)' = Pre(q, S)
  BY DEF Pre
<1>2. Adds(f, r, Pre(q, S))' = IF r = 1 THEN Entering(f, Pre(q, S))'
                               ELSE IF r = 2 THEN Rereading(f, Pre(q, S))'
                               ELSE Merging(f, Pre(q, S))'
  BY <1>1 DEF Adds
<1>. QED
  BY <1>2, EnteringPermutes, RereadingPermutes, MergingPermutes DEF Adds

\* Every part of the second batch is the place of a part of the first, and the
\* groups of the one are those of the other.
LEMMA PartsPermute ==
    ASSUME NEW q, Permuted(q)
    PROVE  /\ \A X \in SUBSET DOMAIN input :
                 \E T \in SUBSET DOMAIN input : X = Pre(q, T)
           /\ \A T \in SUBSET DOMAIN input : T \in Groups <=> Pre(q, T) \in Groups'
<1>1. ASSUME NEW X \in SUBSET DOMAIN input
      PROVE  \E T \in SUBSET DOMAIN input : X = Pre(q, T)
  <2>1. PICK T : T = {q[n] : n \in X}
    OBVIOUS
  <2>2. T \in SUBSET DOMAIN input
    BY <2>1, PermutedBatch
  <2>3. X = Pre(q, T)
    BY <2>1, PermutedBatch DEF Pre
  <2>. QED
    BY <2>2, <2>3
<1>2. ASSUME NEW T \in Groups
      PROVE  Pre(q, T) \in Groups'
  <2>1. PICK m \in DOMAIN input : T = GroupOf(m)
    BY DEF Groups
  <2>2. PICK n \in DOMAIN input : q[n] = m
    BY PermutedBatch
  <2>3. GroupOf(n)' = Pre(q, T) /\ n \in DOMAIN input'
    BY <2>1, <2>2, GroupsPermute, PermutedBatch
  <2>. QED
    BY <2>3 DEF Groups
<1>3. ASSUME NEW T \in SUBSET DOMAIN input, Pre(q, T) \in Groups'
      PROVE  T \in Groups
  <2>1. PICK n \in DOMAIN input' : Pre(q, T) = GroupOf(n)'
    BY <1>3 DEF Groups
  <2>2. n \in DOMAIN input /\ q[n] \in DOMAIN input
    BY PermutedBatch
  <2>3. PICK G \in SUBSET DOMAIN input : G = GroupOf(q[n])
    BY DEF GroupOf
  <2>4. Pre(q, T) = Pre(q, G)
    BY <2>1, <2>2, <2>3, GroupsPermute
  <2>5. T = G
    BY <2>4, PreIsPlain
  <2>. QED
    BY <2>2, <2>3, <2>5 DEF Groups
<1>. QED
  BY <1>1, <1>2, <1>3

\* The groups add as much to a counter in the one order as in the other.
LEMMA TokensPermute ==
    ASSUME input \in Seq(IntentPool), NEW q, Permuted(q), NEW f
    PROVE  Cardinality(Tokens(f, AllOver))' = Cardinality(Tokens(f, AllOver))
<1>. DEFINE all == (SUBSET DOMAIN input) \X (1..3)
<1>1. PICK A : A = Tokens(f, AllOver)
  OBVIOUS
<1>2. PICK B : B = Tokens(f, AllOver)'
  OBVIOUS
<1>3. ASSUME NEW T \in SUBSET DOMAIN input, NEW r \in 1..3
      PROVE  /\ <<T, r>> \in A <=> \E G \in Groups : T \in Adds(f, r, G)
             /\ <<T, r>> \in B <=> \E G \in Groups' : T \in Adds(f, r, G)'
  BY <1>1, <1>2, PermutedBatch DEF Tokens, AllOver
<1>4. A \in SUBSET all /\ B \in SUBSET all
  BY <1>1, <1>2, PermutedBatch DEF Tokens
<1>5. ASSUME NEW T \in SUBSET DOMAIN input, NEW r \in 1..3
      PROVE  <<T, r>> \in A <=> <<Pre(q, T), r>> \in B
  <2>0. Pre(q, T) \in SUBSET DOMAIN input
    BY PreIsPlain
  <2>1. PICK X \in SUBSET DOMAIN input : X = Pre(q, T)
    BY <2>0
  <2>2. ASSUME NEW G \in Groups, T \in Adds(f, r, G)
        PROVE  <<X, r>> \in B
    <3>1. G \in SUBSET DOMAIN input
      BY GroupsAreApart
    <3>2. PICK H : H = Pre(q, G)
      OBVIOUS
    <3>3. Pre(q, G)' = Pre(q, G)
      BY DEF Pre
    <3>4. H \in Groups' /\ X \in Adds(f, r, H)'
      BY <2>1, <2>2, <3>1, <3>2, <3>3, PartsPermute, AddsPermute
    <3>. QED
      BY <1>3, <3>4
  <2>3. ASSUME NEW H \in Groups', X \in Adds(f, r, H)'
        PROVE  <<T, r>> \in A
    <3>1. H \in SUBSET DOMAIN input
      BY PermutedBatch DEF Groups, GroupOf
    <3>2. PICK G \in SUBSET DOMAIN input : H = Pre(q, G)
      BY <3>1, PartsPermute
    <3>3. Pre(q, G)' = Pre(q, G)
      BY DEF Pre
    <3>4. G \in Groups /\ T \in Adds(f, r, G)
      BY <2>1, <2>3, <3>2, <3>3, PartsPermute, AddsPermute
    <3>. QED
      BY <1>3, <3>4
  <2>. QED
    BY <1>3, <2>1, <2>2, <2>3
<1>. DEFINE F == [t \in A |-> <<Pre(q, t[1]), t[2]>>]
<1>6. \A t \in all : \E T \in SUBSET DOMAIN input, r \in 1..3 : t = <<T, r>>
  OBVIOUS
<1>7. F \in [A -> B]
  <2>1. \A t \in A : <<Pre(q, t[1]), t[2]>> \in B
    <3>. TAKE t \in A
    <3>1. PICK T \in SUBSET DOMAIN input, r \in 1..3 : t = <<T, r>>
      BY <1>4, <1>6
    <3>2. <<Pre(q, T), r>> \in B
      BY <1>5, <3>1
    <3>. QED
      BY <3>1, <3>2
  <2>. QED
    BY <2>1
<1>8. \A x, y \in A : F[x] = F[y] => x = y
  <2>. SUFFICES ASSUME NEW x \in A, NEW y \in A, F[x] = F[y] PROVE x = y
    OBVIOUS
  <2>1. PICK T \in SUBSET DOMAIN input, r \in 1..3 : x = <<T, r>>
    BY <1>4, <1>6
  <2>2. PICK U \in SUBSET DOMAIN input, s \in 1..3 : y = <<U, s>>
    BY <1>4, <1>6
  <2>3. Pre(q, T) = Pre(q, U) /\ r = s
    BY <2>1, <2>2
  <2>4. T = U
    BY <2>3, PreIsPlain
  <2>. QED
    BY <2>1, <2>2, <2>3, <2>4
<1>9. \A z \in B : \E x \in A : F[x] = z
  <2>. TAKE z \in B
  <2>1. PICK X \in SUBSET DOMAIN input, r \in 1..3 : z = <<X, r>>
    BY <1>4, <1>6
  <2>2. PICK T \in SUBSET DOMAIN input : X = Pre(q, T)
    BY PartsPermute
  <2>3. <<T, r>> \in A
    BY <1>5, <2>1, <2>2
  <2>. QED
    BY <2>1, <2>2, <2>3
<1>10. IsFiniteSet(A)
  BY <1>1, TokensAreFinite
<1>. HIDE DEF F
<1>11. Cardinality(B) = Cardinality(A)
  BY <1>7, <1>8, <1>9, <1>10, MatchedSets
<1>. QED
  BY <1>1, <1>2, <1>11

LEMMA TotalsPermute ==
    ASSUME input \in Seq(IntentPool), NEW q, Permuted(q)
    PROVE  \A f : Total(f)' = Total(f)
<1>1. PICK C \in SUBSET DOMAIN input, D \in SUBSET DOMAIN input,
           E \in SUBSET DOMAIN input :
         C = DueToCommit /\ D = DueDetected /\ E = DueDeclared
  BY DEF DueToCommit, DueDetected, DueDeclared
<1>2. DueToCommit' = Pre(q, C)
  BY <1>1, DuePermutes, PermutedBatch DEF DueToCommit, Pre
<1>3. \A n \in DOMAIN input :
         /\ Judged(n)' = Judged(q[n])
         /\ OracleStale(input, n, scenario)'
              <=> OracleStale(input, q[n], scenario)
  BY VerdictsPermute
<1>4. DueDetected' = Pre(q, D)
  BY <1>1, <1>2, <1>3, PermutedBatch DEF DueDetected, Pre
<1>5. DueDeclared' = Pre(q, E)
  BY <1>1, <1>2, <1>3, PermutedBatch DEF DueDeclared, Pre
<1>6. /\ Cardinality(Pre(q, D)) = Cardinality(D)
      /\ Cardinality(Pre(q, E)) = Cardinality(E)
  BY PreCount
<1>7. Accepted' = Accepted
  BY <1>1, <1>4, <1>5, <1>6 DEF Accepted
<1>8. \A f : Cardinality(Tokens(f, AllOver))' = Cardinality(Tokens(f, AllOver))
  BY TokensPermute
<1>. QED
  BY <1>7, <1>8 DEF Total


-----------------------------------------------------------------------------
(* The two calls. *)

LEMMA ArgumentsStand == [Next]_vars => UNCHANGED args
BY DEF Next, Merge, Verify, InterruptByAuthority, GateReview, ContendForLock,
       RouteFlagged, RouteStaleReaders, MergeAppendOnly, CommitSingleWriter,
       MergeUnchecked, MergeCompatible, ReviewConflict, CommitLive, Account,
       vars, args

LEMMA RecordStands ==
    ASSUME Recorded, UNCHANGED <<args, call, order, before>>
    PROVE  Recorded'
<1>1. \A n : Due(n)' = Due(n)
  BY DueStands
<1>2. \A f : Total(f)' = Total(f)
  BY TotalsStand
<1>. QED
  BY <1>1, <1>2 DEF Recorded, args

\* What a call returns is what is due to its intents.
LEMMA CallReturns ==
    ASSUME CallInv, stage = "done"
    PROVE  /\ \A n \in DOMAIN input : outcome[n] = Due(n)
           /\ metrics = [f \in MetricNames |-> Total(f)]
<1>1. Pending = {} /\ TypeOK /\ RInv /\ VerdictsStand
  BY DEF CallInv, NothingIsLeft, IInv
<1>2. \A n \in DOMAIN input : outcome[n] = Due(n)
  BY <1>1, CommittedIsDue
<1>3. \A f \in MetricNames : metrics[f] = Total(f)
  BY DEF CallInv, Counted
<1>4. metrics \in [MetricNames -> Nat]
  BY <1>1 DEF TypeOK
<1>. QED
  BY <1>2, <1>3, <1>4

LEMMA CalledAgain ==
    ASSUME CallInv, CallAgain
    PROVE  TypeOK' /\ Started' /\ Recorded'
<1>1. PICK q \in Orders : q = order' /\ DOMAIN q = DOMAIN input
  BY DEF CallAgain
<1>2. TypeOK /\ input \in Seq(IntentPool) /\ stage = "done"
  BY DEF CallInv, IInv, TypeOK, CallAgain
<1>3. Permuted(q)
  BY <1>1, OrdersAssumption DEF CallAgain, Permuted
<1>4. /\ DOMAIN input' = DOMAIN input
      /\ \A n \in DOMAIN input : q[n] \in DOMAIN input
                                  /\ input'[n] = input[q[n]]
  BY <1>3, PermutedBatch
<1>5. input' \in Seq(IntentPool)
  <2>1. input \in [1..Len(input) -> IntentPool] /\ Len(input) \in Nat
        /\ DOMAIN input = 1..Len(input)
    BY <1>2
  <2>2. input' = [n \in 1..Len(input) |-> input[q[n]]]
    BY <1>1, <2>1 DEF CallAgain
  <2>3. \A n \in 1..Len(input) : input[q[n]] \in IntentPool
    BY <1>4, <2>1
  <2>. QED
    BY <2>1, <2>2, <2>3
<1>6. Started'
  BY DEF CallAgain, Started
<1>7. TypeOK'
  BY <1>2, <1>5 DEF CallAgain, TypeOK, Stages, Outcomes
<1>8. /\ \A n \in DOMAIN input : Due(n)' = Due(q[n])
      /\ \A f : Total(f)' = Total(f)
  BY <1>2, <1>3, DuePermutes, TotalsPermute
<1>9. /\ \A n \in DOMAIN input : outcome[n] = Due(n)
      /\ metrics = [f \in MetricNames |-> Total(f)]
  BY <1>2, CallReturns
<1>10. before' = [outcome |-> outcome, metrics |-> metrics]
  BY DEF CallAgain
<1>11. \A n \in DOMAIN input' : before'.outcome[order'[n]] = Due(n)'
  BY <1>1, <1>4, <1>8, <1>9, <1>10
<1>12. before'.metrics = [f \in MetricNames |-> Total(f)]'
  BY <1>8, <1>9, <1>10
<1>13. Recorded'
  BY <1>11, <1>12 DEF Recorded
<1>. QED
  BY <1>6, <1>7, <1>13

\* Whatever the pool of intents, the batch and the permutation of it, both
\* calls route every intent alike and report the same counters: the order of
\* the scenario's agent list, which pool.map hands on to
\* resolve_parallel_write_intents, is no tie-breaker anywhere in it.
THEOREM OrderIsNoTieBreaker == BothSpec => []OrderDoesNotMatter
<1>1. BothInit => BInv
  BY CallStarted, TypeInit DEF BothInit, BInv, Recorded, Init
<1>2. BInv /\ Next /\ UNCHANGED <<call, order, before>> => BInv'
  BY CallNext, ArgumentsStand, RecordStands DEF BInv
<1>3. BInv /\ CallAgain => BInv'
  <2>1. BInv /\ CallAgain => (TypeOK /\ Started)' /\ Recorded'
    BY CalledAgain DEF BInv
  <2>2. (TypeOK /\ Started)' => CallInv'
    BY CallStarted, PTL
  <2>. QED
    BY <2>1, <2>2 DEF BInv
<1>4. BInv /\ UNCHANGED bothVars => BInv'
  BY CallNext, ArgumentsStand, RecordStands DEF BInv, bothVars
<1>5. BInv => OrderDoesNotMatter
  BY CallReturns DEF BInv, Recorded, OrderDoesNotMatter
<1>. QED
  BY <1>1, <1>2, <1>3, <1>4, <1>5, PTL DEF BothSpec, BothNext
=============================================================================
