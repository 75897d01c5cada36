-------------------------- MODULE PatchRunner_proofs --------------------------
(***************************************************************************)
(* What holds of every batch of the end-to-end runner, whatever its tasks, *)
(* patches and conditions, and whatever raises or runs out of time.        *)
(***************************************************************************)
EXTENDS PatchRunner, TLAPS, FiniteSetTheorems, WellFoundedInduction

RowRecords ==
    [failed : BOOLEAN, passed : BOOLEAN, fresh : BOOLEAN, broken : BOOLEAN,
     applied : Nat, held : Nat, conflicts : Nat]

Results == [attempted : BOOLEAN, ok : BOOLEAN]

DecisionsOn(intents) ==
    [auto : BOOLEAN,
     agents : SUBSET {intents[n].agent : n \in DOMAIN intents}]

PatchTypeOK ==
    /\ batch \in Batches
    /\ progress \in {"running", "done", "aborted"}
    /\ phase \in Phases
    /\ rows \in Seq(RowRecords)
    /\ results \in Seq(Results)
    /\ IsList(input)
    /\ decisions \in Seq(DecisionsOn(input))

\* A row is added at the place of its cell, and accounts for its patches.
Reporting ==
    /\ Len(rows) <= CellCount
    /\ phase \in {"policy", "patches"} =>
          progress = "running" /\ Len(rows) < CellCount
    /\ \A k \in DOMAIN rows :
          rows[k].applied + rows[k].held + rows[k].conflicts
            = Len(TaskOf(k).patches)
    /\ progress # "done" => final = <<>>
    /\ progress = "done" => final = rows /\ Len(rows) = CellCount
    /\ progress = "aborted" => ~batch.isolated

Undecided == {n \in DOMAIN outcome : outcome[n] = "pending"}

\* A decision that holds names the agent of n.
HeldBack(n) ==
    \E k \in DOMAIN decisions :
        /\ decisions[k].auto = FALSE
        /\ input[n].agent \in decisions[k].agents

\* Every intent that is not committed is still to be decided, or a decision
\* that holds names its agent; the loop ends when all are decided.
Deciding ==
    /\ DOMAIN outcome = DOMAIN input
    /\ live \subseteq DOMAIN input
    /\ \A n \in DOMAIN input :
          outcome[n] \in {"pending", "commit"} \/ HeldBack(n)
    /\ stage = "lane" => live = NextGroup(outcome)
    /\ stage = "done" => Undecided = {}

\* What the patches looked at so far made of the copied repository.
Patching ==
    /\ phase = "policy" => results = <<>> /\ repo = Task.files
    /\ phase = "patches" =>
          /\ Len(results) <= Len(Patches)
          /\ Attempted = {} => repo = Task.files
          /\ Attempted = Applied =>
                /\ \A k \in 1..Len(results) :
                      Patches[k].agent \in auto => Writable(Patches[k])
                /\ repo = Laid(Task, auto)[Len(results)]

PInv ==
    /\ PatchTypeOK /\ Reporting /\ Deciding /\ Patching
    /\ AppliesOnlyWhatCommitted /\ CleanRowsAreWhole /\ PassIsTestedOrUntouched

-----------------------------------------------------------------------------
(* Lists and counts. *)

LEMMA SequenceIsList ==
  ASSUME NEW S, NEW s \in Seq(S)
  PROVE  IsList(s)
<1>1. s \in [1..Len(s) -> S] /\ Len(s) \in Nat /\ DOMAIN s = 1..Len(s)
  OBVIOUS
<1>2. s \in [1..Len(s) -> ToSet(s)]
  BY <1>1 DEF ToSet
<1>3. s \in Seq(ToSet(s))
  BY <1>1, <1>2
<1> QED
  BY <1>3 DEF IsList

LEMMA ListIsSequence ==
  ASSUME NEW s, IsList(s)
  PROVE  /\ Len(s) \in Nat /\ DOMAIN s = 1..Len(s)
         /\ s = <<>> <=> Len(s) = 0
BY DEF IsList

LEMMA TailIsList ==
  ASSUME NEW s, IsList(s), s # <<>>
  PROVE  IsList(Tail(s))
<1> DEFINE S == ToSet(s)
<1>1. s \in Seq(S)
  BY DEF IsList
<1> HIDE DEF S
<1>2. Tail(s) \in Seq(S)
  BY <1>1
<1> QED
  BY <1>2, SequenceIsList

\* A function on an initial segment is a list.
LEMMA FunctionIsList ==
  ASSUME NEW n \in Nat, NEW f, DOMAIN f = 1..n, f = [i \in 1..n |-> f[i]]
  PROVE  IsList(f)
<1>1. f \in [1..n -> ToSet(f)]
  BY DEF ToSet
<1>2. f \in Seq(ToSet(f))
  BY <1>1
<1> QED
  BY <1>2 DEF IsList

LEMMA PatchesAreAList ==
  ASSUME NEW b \in Batches
  PROVE  /\ Len(b.tasks) \in Nat /\ Len(b.conditions) \in Nat
         /\ \A k \in 1..Len(b.tasks) :
               /\ Len(b.tasks[k].patches) \in Nat
               /\ IsList(b.tasks[k].patches) /\ IsList(b.tasks[k].given)
<1>1. IsList(b.tasks) /\ IsList(b.conditions)
  BY BatchesAssumption
<1>2. Len(b.tasks) \in Nat /\ Len(b.conditions) \in Nat /\ DOMAIN b.tasks = 1..Len(b.tasks)
  BY <1>1, ListIsSequence
<1>3. \A k \in 1..Len(b.tasks) :
         IsList(b.tasks[k].patches) /\ IsList(b.tasks[k].given)
  BY <1>2, BatchesAssumption
<1> QED
  BY <1>2, <1>3, ListIsSequence

LEMMA ProductGrows ==
  ASSUME NEW a \in Nat, NEW b \in Nat, NEW p \in Nat, a <= b
  PROVE  a * p <= b * p
<1>1. PICK d \in Nat : b = a + d
  <2>1. b - a \in Nat /\ b = a + (b - a)
    OBVIOUS
  <2> QED
    BY <2>1
<1>2. b * p = a * p + d * p
  BY <1>1
<1>3. d * p \in Nat /\ a * p \in Nat
  OBVIOUS
<1> QED
  BY <1>2, <1>3

\* The cells of a batch are cells of its tasks.
LEMMA CellIsOfATask ==
  ASSUME NEW n \in Nat, NEW c \in Nat, NEW k \in 1..(n * c)
  PROVE  ((k - 1) \div c) + 1 \in 1..n
<1>1. c # 0
  BY n * 0 = 0
<1> DEFINE q == (k - 1) \div c
<1>2. k - 1 \in Nat /\ k <= n * c /\ n * c \in Nat
  OBVIOUS
<1>3. q \in Nat /\ q * c <= k - 1
  BY <1>1, <1>2
<1>4. q < n
  <2>1. SUFFICES ASSUME n <= q PROVE FALSE
    BY <1>3
  <2>2. n * c <= q * c /\ q * c \in Nat
    BY <1>3, <2>1, ProductGrows
  <2> QED
    BY <1>2, <1>3, <2>2
<1> QED
  BY <1>3, <1>4

LEMMA CellsAreCounted ==
  ASSUME batch \in Batches
  PROVE  CellCount \in Nat
<1>1. Len(batch.tasks) \in Nat /\ Len(batch.conditions) \in Nat
  BY PatchesAreAList
<1>2. \A a, b \in Nat : a * b \in Nat
  OBVIOUS
<1> QED
  BY <1>1, <1>2 DEF CellCount

LEMMA CellHasPatches ==
  ASSUME batch \in Batches, NEW k \in 1..CellCount
  PROVE  /\ Len(TaskOf(k).patches) \in Nat
         /\ IsList(TaskOf(k).patches) /\ IsList(TaskOf(k).given)
<1>1. Len(batch.tasks) \in Nat /\ Len(batch.conditions) \in Nat
  BY PatchesAreAList
<1>2. ((k - 1) \div Len(batch.conditions)) + 1 \in 1..Len(batch.tasks)
  BY <1>1, CellIsOfATask DEF CellCount
<1> QED
  BY <1>2, PatchesAreAList DEF TaskOf

LEMMA TaskIsOfTheBatch ==
  ASSUME batch \in Batches, NEW k \in 1..CellCount
  PROVE  TaskOf(k) \in ToSet(batch.tasks)
<1>1. /\ Len(batch.tasks) \in Nat /\ Len(batch.conditions) \in Nat
      /\ DOMAIN batch.tasks = 1..Len(batch.tasks)
  BY PatchesAreAList, BatchesAssumption, ListIsSequence
<1>2. ((k - 1) \div Len(batch.conditions)) + 1 \in 1..Len(batch.tasks)
  BY <1>1, CellIsOfATask DEF CellCount
<1> QED
  BY <1>1, <1>2 DEF TaskOf, ToSet

\* Each patch looked at is applied, held or in conflict.
LEMMA PatchesAreCounted ==
  ASSUME results \in Seq(Results)
  PROVE  /\ Cardinality(Applied) \in Nat /\ Cardinality(Held) \in Nat
         /\ Cardinality(Attempted \ Applied) \in Nat
         /\ Cardinality(Applied) + Cardinality(Held)
              + Cardinality(Attempted \ Applied) = Len(results)
         /\ Cardinality(Attempted \ Applied) = 0 <=> Attempted = Applied
<1>1. DOMAIN results = 1..Len(results) /\ Len(results) \in Nat
  OBVIOUS
<1>2. IsFiniteSet(DOMAIN results) /\ Cardinality(DOMAIN results) = Len(results)
  BY <1>1, FS_Interval
<1>3. /\ Attempted \subseteq DOMAIN results /\ Applied \subseteq Attempted
      /\ Held = DOMAIN results \ Attempted
      /\ Applied = Attempted \cap Applied
      /\ Attempted = DOMAIN results \cap Attempted
  BY DEF Attempted, Applied, Held
<1>4. IsFiniteSet(Attempted) /\ IsFiniteSet(Applied)
  BY <1>2, <1>3, FS_Subset
<1>5. /\ IsFiniteSet(Held)
      /\ Cardinality(Held) = Len(results) - Cardinality(Attempted)
  <2>1. /\ IsFiniteSet(DOMAIN results \ Attempted)
        /\ Cardinality(DOMAIN results \ Attempted)
             = Cardinality(DOMAIN results) - Cardinality(DOMAIN results \cap Attempted)
    BY <1>2, FS_Difference
  <2> QED
    BY <1>2, <1>3, <2>1
<1>6. /\ IsFiniteSet(Attempted \ Applied)
      /\ Cardinality(Attempted \ Applied)
           = Cardinality(Attempted) - Cardinality(Applied)
  <2>1. /\ IsFiniteSet(Attempted \ Applied)
        /\ Cardinality(Attempted \ Applied)
             = Cardinality(Attempted) - Cardinality(Attempted \cap Applied)
    BY <1>4, FS_Difference
  <2> QED
    BY <1>3, <2>1
<1>7. /\ Cardinality(Applied) \in Nat /\ Cardinality(Held) \in Nat
      /\ Cardinality(Attempted) \in Nat /\ Cardinality(Attempted \ Applied) \in Nat
  BY <1>4, <1>5, <1>6, FS_CardinalityType
<1>8. Cardinality(Attempted \ Applied) = 0 <=> Attempted \ Applied = {}
  BY <1>6, FS_EmptySet
<1>9. Attempted \ Applied = {} <=> Attempted = Applied
  BY <1>3
<1>10. Cardinality(Applied) + Cardinality(Held) + Cardinality(Attempted \ Applied)
         = Len(results)
  <2>1. Len(results) \in Nat
    BY <1>1
  <2>2. /\ Cardinality(Held) = Len(results) - Cardinality(Attempted)
        /\ Cardinality(Attempted \ Applied)
             = Cardinality(Attempted) - Cardinality(Applied)
    BY <1>5, <1>6
  <2> HIDE DEF Attempted, Applied, Held
  <2> QED
    BY <1>7, <2>1, <2>2, SMTT(20)
<1>11. Cardinality(Attempted \ Applied) = 0 <=> Attempted = Applied
  BY <1>8, <1>9
<1> HIDE DEF Attempted, Applied, Held
<1> QED
  BY <1>7, <1>10, <1>11

-----------------------------------------------------------------------------
(* The merge stage, and the decisions recorded for it. *)

\* While something is undecided there is a next group.
LEMMA NoGroupLeft ==
  ASSUME IsList(input), NEW out, DOMAIN out = DOMAIN input, NextGroup(out) = {}
  PROVE  {n \in DOMAIN out : out[n] = "pending"} = {}
<1> DEFINE pending == {n \in DOMAIN out : out[n] = "pending"}
<1> SUFFICES ASSUME pending # {} PROVE FALSE
  OBVIOUS
<1>1. pending \subseteq Nat
  BY ListIsSequence
<1>2. PICK m \in pending : \A k \in pending : ~(<<k, m>> \in OpToRel(<, Nat))
  BY <1>1, NatLessThanWellFounded, WFMin
<1>3. \A k \in pending : m <= k
  <2> HIDE DEF pending
  <2>1. m \in Nat /\ \A k \in pending : k \in Nat
    BY <1>1, <1>2
  <2>2. \A k \in pending : ~(k < m)
    BY <1>1, <1>2 DEF OpToRel
  <2> QED
    BY <2>1, <2>2
<1>4. m \in NextGroup(out)
  <2>1. ASSUME NEW j \in pending, \A k \in pending : j <= k
        PROVE  Key(m) = Key(j)
    <3>1. j = m
      BY <1>1, <1>3, <2>1
    <3> QED
      BY <3>1
  <2> QED
    BY <2>1 DEF NextGroup
<1> QED
  BY <1>4

\* A decision that is recorded joins the others.
LEMMA DecisionJoins ==
  ASSUME decisions \in Seq(DecisionsOn(input)), NEW automatic \in BOOLEAN,
         NEW S \in SUBSET DOMAIN input, Decided(automatic, S)
  PROVE  /\ decisions' \in Seq(DecisionsOn(input))
         /\ \A k \in DOMAIN decisions :
               k \in DOMAIN decisions' /\ decisions'[k] = decisions[k]
         /\ S # {} => \E k \in DOMAIN decisions' :
               decisions'[k] = [auto |-> automatic,
                                agents |-> {input[n].agent : n \in S}]
<1> DEFINE d == [auto |-> automatic, agents |-> {input[n].agent : n \in S}]
<1>1. d \in DecisionsOn(input)
  BY DEF DecisionsOn
<1> HIDE DEF d
<1>2. CASE S = {}
  BY <1>2 DEF Decided
<1>3. CASE S # {}
  <2>1. decisions' = Append(decisions, d)
    BY <1>3 DEF Decided, d
  <2>2. /\ Len(decisions) \in Nat /\ DOMAIN decisions = 1..Len(decisions)
        /\ decisions' \in Seq(DecisionsOn(input))
        /\ DOMAIN decisions' = 1..(Len(decisions) + 1)
        /\ decisions'[Len(decisions) + 1] = d
        /\ \A k \in 1..Len(decisions) : decisions'[k] = decisions[k]
    BY <1>1, <2>1
  <2>3. \A k \in DOMAIN decisions :
           k \in DOMAIN decisions' /\ decisions'[k] = decisions[k]
    BY <2>2
  <2>4. \E k \in DOMAIN decisions' : decisions'[k] = d
    BY <2>2
  <2> QED
    BY <2>2, <2>3, <2>4 DEF d
<1> QED
  BY <1>2, <1>3

\* An intent that is routed away from the commit is named by the decision that
\* is recorded with it.
LEMMA RoutedIsHeldBack ==
  ASSUME decisions \in Seq(DecisionsOn(input)), DOMAIN outcome = DOMAIN input,
         \A n \in DOMAIN input :
            outcome[n] \in {"pending", "commit"} \/ HeldBack(n),
         input' = input,
         NEW commit, NEW review, NEW blocked, Decide(commit, review, blocked),
         NEW automatic \in BOOLEAN, NEW S \in SUBSET DOMAIN input,
         Decided(automatic, S),
         review \subseteq S, blocked \subseteq S,
         automatic => review = {} /\ blocked = {}
  PROVE  /\ DOMAIN outcome' = DOMAIN input
         /\ \A n \in DOMAIN input :
               outcome'[n] \in {"pending", "commit"} \/ HeldBack(n)'
<1>1. DOMAIN outcome' = DOMAIN input
  BY DEF Decide
<1>2. ASSUME NEW n \in DOMAIN input, outcome'[n] \notin {"pending", "commit"}
      PROVE  HeldBack(n)'
  <2>1. CASE n \in review \cup blocked
    <3>1. automatic = FALSE /\ n \in S
      BY <2>1
    <3>2. PICK k \in DOMAIN decisions' :
             decisions'[k] = [auto |-> automatic,
                              agents |-> {input[m].agent : m \in S}]
      BY <3>1, DecisionJoins
    <3>3. decisions'[k].auto = FALSE /\ input[n].agent \in decisions'[k].agents
      BY <3>1, <3>2
    <3> QED
      BY <3>3 DEF HeldBack
  <2>2. CASE n \notin review \cup blocked
    <3>1. outcome'[n] = outcome[n]
      BY <1>2, <2>2 DEF Decide
    <3>2. PICK k \in DOMAIN decisions :
             decisions[k].auto = FALSE /\ input[n].agent \in decisions[k].agents
      BY <1>2, <3>1 DEF HeldBack
    <3>3. k \in DOMAIN decisions' /\ decisions'[k] = decisions[k]
      BY DecisionJoins
    <3> QED
      BY <3>2, <3>3 DEF HeldBack
  <2> QED
    BY <2>1, <2>2
<1> QED
  BY <1>1, <1>2

\* Going on keeps the place in the loop.
LEMMA GoingOn ==
  ASSUME DOMAIN outcome' = DOMAIN input, UNCHANGED args,
         NEW rest \in SUBSET DOMAIN input, NEW next \in {"lane", "readset", "merge"},
         next = "lane" => rest = {}, ContinueWith(rest, next)
  PROVE  /\ live' \subseteq DOMAIN input
         /\ stage' # "done"
         /\ stage' = "lane" => live' = NextGroup(outcome)'
<1>1. NextGroup(outcome') = NextGroup(outcome)'
  BY DEF NextGroup, Key, args
<1>2. NextGroup(outcome') \subseteq DOMAIN input
  BY DEF NextGroup
<1> QED
  BY <1>1, <1>2 DEF ContinueWith

\* Each step of the merge stage leaves every intent committed, undecided or
\* held back.
LEMMA ResolveKeeps ==
  ASSUME IsList(input), decisions \in Seq(DecisionsOn(input)), Deciding, Resolve
  PROVE  /\ UNCHANGED <<input, mode>>
         /\ decisions' \in Seq(DecisionsOn(input))
         /\ Deciding'
<1> USE DEF args
<1>0. /\ DOMAIN outcome = DOMAIN input /\ live \in SUBSET DOMAIN input
      /\ \A n \in DOMAIN input :
            outcome[n] \in {"pending", "commit"} \/ HeldBack(n)
  BY DEF Deciding
<1>1. ASSUME UNCHANGED args, NEW commit, NEW review, NEW blocked, NEW S,
             NEW rest, NEW next, NEW automatic \in BOOLEAN,
             Decide(commit, review, blocked), Decided(automatic, S),
             ContinueWith(rest, next),
             S \subseteq live, rest \subseteq live,
             review \subseteq S, blocked \subseteq S,
             (review = {} /\ blocked = {}) \/ ~automatic,
             \/ next = "lane" /\ rest = {}
             \/ next \in {"readset", "merge"}
      PROVE  /\ UNCHANGED <<input, mode>>
             /\ decisions' \in Seq(DecisionsOn(input))
             /\ Deciding'
  <2>1. input' = input /\ S \in SUBSET DOMAIN input /\ rest \in SUBSET DOMAIN input
    BY <1>0, <1>1
  <2>2. next \in {"lane", "readset", "merge"} /\ (next = "lane" => rest = {})
    BY <1>1
  <2>3. /\ DOMAIN outcome' = DOMAIN input
        /\ \A n \in DOMAIN input :
              outcome'[n] \in {"pending", "commit"} \/ HeldBack(n)'
    BY <1>0, <1>1, <2>1, RoutedIsHeldBack
  <2>4. /\ live' \subseteq DOMAIN input /\ stage' # "done"
        /\ stage' = "lane" => live' = NextGroup(outcome)'
    BY <1>1, <2>1, <2>2, <2>3, GoingOn
  <2>5. decisions' \in Seq(DecisionsOn(input))
    BY <1>1, <2>1, DecisionJoins
  <2> QED
    BY <1>1, <2>1, <2>3, <2>4, <2>5 DEF Deciding
<1>2. CASE Verify /\ UNCHANGED decisions
  <2>1. /\ UNCHANGED <<args, outcome, decisions>> /\ stage' = "lane"
        /\ live' = NextGroup(outcome)
    BY <1>2 DEF Verify
  <2>2. NextGroup(outcome)' = NextGroup(outcome)
    BY <2>1 DEF NextGroup, Key
  <2>3. live' \subseteq DOMAIN input
    BY <1>0, <2>1 DEF NextGroup
  <2> QED
    BY <1>0, <2>1, <2>2, <2>3 DEF Deciding, HeldBack
<1>3. CASE Account /\ UNCHANGED decisions
  <2>1. /\ UNCHANGED <<args, outcome, decisions, live>> /\ stage' = "done"
        /\ stage = "lane" /\ live = {}
    BY <1>3 DEF Account
  <2>2. NextGroup(outcome) = {}
    BY <2>1 DEF Deciding
  <2>3. Undecided = {}
    BY <1>0, <2>2, NoGroupLeft DEF Undecided
  <2>4. Undecided' = {}
    BY <2>1, <2>3 DEF Undecided
  <2> QED
    BY <1>0, <2>1, <2>4 DEF Deciding, HeldBack
<1>4. CASE InterruptByAuthority /\ Decided(FALSE, live)
  <2> DEFINE high == HighAuthority(live)
  <2>1. /\ Decide(high, live \ high, {}) /\ ContinueWith({}, "lane")
        /\ UNCHANGED args
    BY <1>4 DEF InterruptByAuthority
  <2>2. live \subseteq live /\ live \ high \subseteq live /\ {} \subseteq live
    OBVIOUS
  <2>3. PICK held \in BOOLEAN : ~held /\ Decided(held, live)
    BY <1>4
  <2> QED
    BY <1>1, <2>1, <2>2, <2>3
<1>5. CASE (GateReview \/ ContendForLock \/ ReviewConflict) /\ Decided(FALSE, live)
  <2>1. /\ Decide({}, live, {}) /\ ContinueWith({}, "lane") /\ UNCHANGED args
    BY <1>5 DEF GateReview, ContendForLock, ReviewConflict
  <2>2. live \subseteq live /\ {} \subseteq live
    OBVIOUS
  <2>3. PICK held \in BOOLEAN : ~held /\ Decided(held, live)
    BY <1>5
  <2> QED
    BY <1>1, <2>1, <2>2, <2>3
<1>6. CASE RouteFlagged /\ Decided(FALSE, FlaggedIn(live))
  <2> DEFINE flagged  == FlaggedIn(live)
             blocked  == BlockedIn(live)
             reviewed == flagged \ blocked
             rest     == live \ flagged
  <2>1. /\ Decide({}, reviewed, blocked) /\ UNCHANGED args
        /\ ContinueWith(rest, "readset")
    BY <1>6 DEF RouteFlagged
  <2>2. /\ blocked \subseteq flagged /\ reviewed \subseteq flagged
        /\ flagged \subseteq live /\ rest \subseteq live
    BY DEF BlockedIn, FlaggedIn, Flagged
  <2>3. PICK held \in BOOLEAN : ~held /\ Decided(held, flagged)
    BY <1>6
  <2> HIDE DEF reviewed, rest, flagged, blocked
  <2> QED
    BY <1>1, <2>1, <2>2, <2>3
<1>7. CASE RouteStaleReaders /\ Decided(FALSE, StaleReaders(live))
  <2>1. /\ Decide({}, StaleReaders(live), {}) /\ UNCHANGED args
        /\ ContinueWith(live \ StaleReaders(live), "merge")
    BY <1>7 DEF RouteStaleReaders
  <2>2. StaleReaders(live) \subseteq live
    BY DEF StaleReaders
  <2>3. PICK held \in BOOLEAN : ~held /\ Decided(held, StaleReaders(live))
    BY <1>7
  <2> QED
    BY <1>1, <2>1, <2>2, <2>3
<1>8. CASE /\ MergeAppendOnly \/ CommitSingleWriter \/ MergeCompatible
           /\ Decided(TRUE, live)
  <2>1. /\ Decide(live, {}, {}) /\ ContinueWith({}, "lane") /\ UNCHANGED args
    BY <1>8 DEF MergeAppendOnly, CommitSingleWriter, MergeCompatible, CommitLive
  <2>2. PICK automatic \in BOOLEAN : Decided(automatic, live)
    BY <1>8
  <2> QED
    BY <1>1, <2>1, <2>2
<1> QED
  BY <1>2, <1>3, <1>4, <1>5, <1>6, <1>7, <1>8 DEF Resolve

\* An agent whose patches are applied on the strength of the decisions has no
\* intent that was held.
LEMMA ThroughMeansCommitted ==
  ASSUME Deciding, stage = "done", ~batch.applyReviewed,
         NEW n \in DOMAIN input, input[n].agent \in AutoAgents
  PROVE  outcome[n] = "commit"
<1>1. input[n].agent \notin NamedBy(FALSE)
  BY DEF AutoAgents
<1>2. ~HeldBack(n)
  BY <1>1 DEF HeldBack, NamedBy
<1>3. outcome[n] # "pending"
  BY DEF Deciding, Undecided
<1> QED
  BY <1>2, <1>3 DEF Deciding

-----------------------------------------------------------------------------
(* The patches of a row, one after the other. *)

\* Induction over the natural numbers, for a set of them.
LEMMA NatIsReached ==
  ASSUME NEW S, 0 \in S, \A n \in Nat : n \in S => n + 1 \in S
  PROVE  \A n \in Nat : n \in S
<1> SUFFICES ASSUME Nat \ S # {} PROVE FALSE
  OBVIOUS
<1>1. PICK m \in Nat \ S : \A k \in Nat \ S : ~(<<k, m>> \in OpToRel(<, Nat))
  BY NatLessThanWellFounded, WFMin
<1>2. m \in Nat /\ m \notin S
  BY <1>1
<1>3. m # 0
  BY <1>2
<1>4. PICK n \in Nat : m = n + 1
  <2>1. m - 1 \in Nat /\ m = (m - 1) + 1
    BY <1>2, <1>3
  <2> QED
    BY <2>1
<1>5. n \in S
  <2>1. n < m
    BY <1>2, <1>4
  <2> QED
    BY <1>1, <1>2, <2>1 DEF OpToRel
<1> QED
  BY <1>2, <1>4, <1>5

\* What the patches make of a repository is defined after each of them.
LEMMA LaidPatchByPatch ==
  ASSUME NEW t, Len(t.patches) \in Nat, NEW through
  PROVE  LET r == Laid(t, through)
         IN  /\ r[0] = t.files
             /\ \A k \in 1..Len(t.patches) :
                   r[k] = IF t.patches[k].agent \in through
                          THEN WriteAll(r[k - 1], t.patches[k].changes)
                          ELSE r[k - 1]
<1> DEFINE Lay(k, files) == IF t.patches[k].agent \in through
                            THEN WriteAll(files, t.patches[k].changes)
                            ELSE files
           F(g, m) == [k \in 0..m |->
                         IF k = 0 THEN t.files
                         ELSE IF t.patches[k].agent \in through
                              THEN WriteAll(g[k - 1], t.patches[k].changes)
                              ELSE g[k - 1]]
           S == {m \in Nat : \E g : g = F(g, m)}
<1>1. 0 \in S
  <2> DEFINE g == [k \in 0..0 |-> t.files]
  <2>1. g = F(g, 0)
    OBVIOUS
  <2> QED
    BY <2>1
<1>2. ASSUME NEW n \in Nat, n \in S PROVE n + 1 \in S
  <2>1. PICK g : g = F(g, n)
    BY <1>2
  <2> DEFINE h == [k \in 0..(n + 1) |->
                     IF k = n + 1 THEN Lay(k, g[n]) ELSE g[k]]
  <2>2. ASSUME NEW k \in 0..(n + 1)
        PROVE  h[k] = IF k = 0 THEN t.files ELSE Lay(k, h[k - 1])
    <3>1. CASE k = n + 1
      BY <3>1
    <3>2. CASE k \in 0..n
      <4>1. g[k] = IF k = 0 THEN t.files ELSE Lay(k, g[k - 1])
        BY <2>1, <3>2
      <4>2. h[k] = g[k] /\ (k # 0 => h[k - 1] = g[k - 1])
        BY <3>2
      <4> QED
        BY <4>1, <4>2
    <3> QED
      BY <3>1, <3>2
  <2>3. h = F(h, n + 1)
    <3>1. \A k \in 0..(n + 1) : h[k] = F(h, n + 1)[k]
      BY <2>2
    <3>2. DOMAIN h = 0..(n + 1) /\ DOMAIN F(h, n + 1) = 0..(n + 1)
      OBVIOUS
    <3> QED
      BY <3>1, <3>2, SMTT(20)
  <2>4. \E f : f = F(f, n + 1)
    BY <2>3
  <2> QED
    BY <2>4
<1>3. Len(t.patches) \in S
  BY <1>1, <1>2, NatIsReached
<1>4. \E g : g = F(g, Len(t.patches))
  BY <1>3
<1>5. Laid(t, through) = CHOOSE g : g = F(g, Len(t.patches))
  BY DEF Laid
<1>6. Laid(t, through) = F(Laid(t, through), Len(t.patches))
  BY <1>4, <1>5
<1> QED
  BY <1>6, SMTT(20)

\* A patch that succeeds is written whole.
LEMMA SuccessIsWhole ==
  ASSUME NEW p, NEW files
  PROVE  /\ Patched(p, files).ok \in BOOLEAN
         /\ Patched(p, files).ok =>
              Writable(p) /\ Patched(p, files).repo = WriteAll(files, p.changes)
BY DEF Patched, Writable

\* The intents of a task are a list.
LEMMA IntentsAreAList ==
  ASSUME NEW t, IsList(t.patches), IsList(t.given)
  PROVE  IsList(TaskIntents(t))
<1>1. CASE t.given # <<>>
  <2>1. IsList(Tail(t.given))
    BY <1>1, TailIsList
  <2> QED
    BY <1>1, <2>1 DEF TaskIntents
<1>2. CASE t.given = <<>>
  <2> DEFINE intents == [k \in DOMAIN t.patches |-> PatchIntent(t, t.patches[k].agent)]
  <2>1. DOMAIN t.patches = 1..Len(t.patches) /\ Len(t.patches) \in Nat
    BY ListIsSequence
  <2>2. IsList(intents)
    BY <2>1, FunctionIsList
  <2> QED
    BY <1>2, <2>2 DEF TaskIntents
<1> QED
  BY <1>1, <1>2

-----------------------------------------------------------------------------
(* The steps of the runner. *)

LEMMA BatchStarts == PatchInit => PInv
<1> SUFFICES ASSUME PatchInit PROVE PInv
  OBVIOUS
<1>1. CellCount \in Nat
  BY CellsAreCounted DEF PatchInit
<1>2. PatchTypeOK
  <2>1. input \in Seq({}) /\ batch \in Batches
    BY DEF PatchInit
  <2>2. IsList(input)
    BY <2>1, SequenceIsList
  <2> QED
    BY <2>1, <2>2 DEF PatchInit, PatchTypeOK, Phases
<1>3. Reporting
  BY <1>1 DEF PatchInit, Reporting
<1>4. Deciding
  BY DEF PatchInit, Deciding
<1> QED
  BY <1>2, <1>3, <1>4 DEF PInv, Patching, PatchInit, AppliesOnlyWhatCommitted,
     CleanRowsAreWhole, PassIsTestedOrUntouched

\* What the cell of a row that runs is.
LEMMA RunningCell ==
  ASSUME PInv, Cell <= CellCount
  PROVE  /\ Cell \in 1..CellCount /\ Len(rows) \in Nat /\ CellCount \in Nat
         /\ Len(Patches) \in Nat
         /\ IsList(Task.patches) /\ IsList(Task.given)
<1>1. Len(rows) \in Nat /\ batch \in Batches
  BY DEF PInv, PatchTypeOK
<1>2. CellCount \in Nat
  BY <1>1, CellsAreCounted
<1>3. Cell \in 1..CellCount
  BY <1>1, <1>2 DEF Cell
<1> QED
  BY <1>1, <1>2, <1>3, CellHasPatches DEF Task, Patches

\* Steps outside the merge stage leave its state alone.
LEMMA DecidingStays ==
  ASSUME Deciding, UNCHANGED <<vars, decisions>>
  PROVE  Deciding'
BY DEF Deciding, HeldBack, Undecided, NextGroup, Key, vars

\* A step that adds no row leaves what is reported as it is.
LEMMA ReportingStays ==
  ASSUME Reporting, UNCHANGED <<batch, progress, report>>,
         phase' \in {"policy", "patches"} =>
            progress = "running" /\ Len(rows) < CellCount
  PROVE  Reporting'
BY DEF Reporting, CellCount, TaskOf, report

LEMMA StartRowKeeps ==
  ASSUME PInv, StartRow
  PROVE  PInv'
<1>1. /\ UNCHANGED <<batch, progress, report, rows, final>> /\ phase' = "policy"
      /\ progress = "running" /\ Cell <= CellCount
      /\ input' = TaskIntents(Task) /\ decisions' = <<>> /\ results' = <<>>
      /\ outcome' = [n \in DOMAIN input' |-> "pending"]
      /\ stage' = "collect" /\ live' = {} /\ repo' = Task.files
  BY DEF StartRow, BetweenRows, report
<1>2. IsList(input')
  BY <1>1, RunningCell, IntentsAreAList
<1>3. PatchTypeOK'
  BY <1>1, <1>2 DEF PInv, PatchTypeOK, Phases, IsList
<1>4. Reporting'
  <2>1. Len(rows) < CellCount
    BY <1>1, RunningCell DEF Cell
  <2> QED
    BY <1>1, <2>1, ReportingStays DEF PInv
<1>5. Deciding'
  BY <1>1 DEF Deciding
<1>6. Patching'
  BY <1>1 DEF Patching, Task, Cell, TaskOf
<1> QED
  BY <1>1, <1>3, <1>4, <1>5, <1>6 DEF PInv, AppliesOnlyWhatCommitted,
     CleanRowsAreWhole, PassIsTestedOrUntouched

LEMMA RunPolicyKeeps ==
  ASSUME PInv, RunPolicy
  PROVE  PInv'
<1>1. /\ UNCHANGED <<batch, progress, phase, repo, results, report, rows, final>>
      /\ phase = "policy" /\ Resolve
  BY DEF RunPolicy, report
<1>2. UNCHANGED input /\ decisions' \in Seq(DecisionsOn(input)) /\ Deciding'
  BY <1>1, ResolveKeeps DEF PInv, PatchTypeOK
<1>3. PatchTypeOK'
  BY <1>1, <1>2 DEF PInv, PatchTypeOK, IsList
<1>4. Reporting'
  BY <1>1, ReportingStays DEF PInv, Reporting
<1>5. Patching'
  BY <1>1 DEF PInv, Patching, Task, Cell, TaskOf
<1> QED
  BY <1>1, <1>2, <1>3, <1>4, <1>5 DEF PInv, AppliesOnlyWhatCommitted,
     CleanRowsAreWhole, PassIsTestedOrUntouched

LEMMA SelectAgentsKeeps ==
  ASSUME PInv, SelectAgents
  PROVE  PInv'
<1>1. /\ UNCHANGED <<vars, batch, progress, decisions, repo, results, report,
                     rows, final, input, outcome>>
      /\ phase = "policy" /\ phase' = "patches" /\ stage = "done"
      /\ auto' = AutoAgents
  BY DEF SelectAgents, vars, report
<1>2. PatchTypeOK'
  BY <1>1 DEF PInv, PatchTypeOK, Phases, IsList
<1>3. progress = "running" /\ Len(rows) < CellCount /\ Len(rows) \in Nat
  BY <1>1 DEF PInv, Reporting, PatchTypeOK
<1>4. Cell <= CellCount
  BY <1>3, CellsAreCounted DEF PInv, PatchTypeOK, Cell
<1>5. Reporting'
  BY <1>1, <1>3, ReportingStays DEF PInv
<1>6. Deciding'
  BY <1>1, DecidingStays DEF PInv
<1>7. Patching'
  <2>1. results = <<>> /\ repo = Task.files
    BY <1>1 DEF PInv, Patching
  <2>2. Len(results) = 0 /\ Len(Patches) \in Nat
    BY <1>4, <2>1, RunningCell
  <2>3. Laid(Task, auto')[0] = Task.files
    BY <2>2, LaidPatchByPatch DEF Patches
  <2>4. Task' = Task /\ Patches' = Patches
    BY <1>1 DEF Task, Cell, TaskOf, Patches
  <2>5. Laid(Task, auto)' = Laid(Task, auto')
    BY <2>4 DEF Laid
  <2> QED
    BY <1>1, <2>1, <2>2, <2>3, <2>4, <2>5 DEF Patching
<1>8. AppliesOnlyWhatCommitted'
  BY <1>1, ThroughMeansCommitted DEF PInv, AppliesOnlyWhatCommitted
<1> QED
  BY <1>1, <1>2, <1>5, <1>6, <1>7, <1>8 DEF PInv, CleanRowsAreWhole,
     PassIsTestedOrUntouched

\* What a patch that has been looked at adds to the results.
LEMMA OneMoreResult ==
  ASSUME results \in Seq(Results), NEW attempted \in BOOLEAN, NEW ok \in BOOLEAN,
         results' = Append(results, [attempted |-> attempted, ok |-> ok])
  PROVE  /\ results' \in Seq(Results)
         /\ Len(results') = Len(results) + 1 /\ Len(results) \in Nat
         /\ ~attempted => Attempted' = Attempted /\ Applied' = Applied
         /\ attempted => Attempted' # {}
         /\ attempted /\ Attempted' = Applied' => ok /\ Attempted = Applied
<1> DEFINE r == [attempted |-> attempted, ok |-> ok]
<1>1. r \in Results /\ r.attempted = attempted /\ r.ok = ok
  BY DEF Results
<1> HIDE DEF r
<1>2. results' = Append(results, r)
  BY DEF r
<1>3. /\ results' \in Seq(Results) /\ Len(results) \in Nat
      /\ Len(results') = Len(results) + 1
      /\ DOMAIN results = 1..Len(results)
      /\ DOMAIN results' = 1..(Len(results) + 1)
      /\ results'[Len(results) + 1] = r
      /\ \A k \in 1..Len(results) : results'[k] = results[k]
  BY <1>1, <1>2
<1> DEFINE n == Len(results) + 1
<1>4. /\ DOMAIN results' = DOMAIN results \cup {n} /\ n \notin DOMAIN results
      /\ \A k \in DOMAIN results : results'[k] = results[k]
      /\ results'[n] = r
  BY <1>3
<1> HIDE DEF n
<1>5. CASE ~attempted
  <2>1. Attempted' = Attempted
    BY <1>1, <1>4, <1>5 DEF Attempted
  <2>2. Applied' = Applied
    <3>1. \A k \in Attempted : k \in DOMAIN results
      BY DEF Attempted
    <3> QED
      BY <1>4, <2>1, <3>1 DEF Applied
  <2> QED
    BY <1>3, <1>5, <2>1, <2>2
<1>6. CASE attempted
  <2>1. n \in Attempted'
    BY <1>1, <1>4, <1>6 DEF Attempted
  <2>2. ASSUME Attempted' = Applied' PROVE ok
    BY <1>1, <1>4, <2>1, <2>2 DEF Applied
  <2>3. ASSUME Attempted' = Applied', NEW k \in Attempted PROVE k \in Applied
    <3>1. k \in DOMAIN results /\ k \in Attempted'
      BY <1>4, <2>3 DEF Attempted
    <3> QED
      BY <1>4, <2>3, <3>1 DEF Applied
  <2>4. Applied \subseteq Attempted
    BY DEF Applied
  <2> QED
    BY <1>3, <1>6, <2>1, <2>2, <2>3, <2>4
<1> QED
  BY <1>5, <1>6

\* Looking at the next patch, whatever it makes of the repository.
LEMMA PatchIsLookedAt ==
  ASSUME PInv, phase = "patches", Len(results) < Len(Patches),
         NEW attempted \in BOOLEAN, NEW ok \in BOOLEAN,
         results' = Append(results, [attempted |-> attempted, ok |-> ok]),
         UNCHANGED <<vars, batch, progress, phase, decisions, auto, report>>,
         attempted <=> NextPatch.agent \in auto,
         ~attempted => repo' = repo,
         attempted /\ ok => Writable(NextPatch)
                            /\ repo' = WriteAll(repo, NextPatch.changes)
  PROVE  PInv'
<1>1. UNCHANGED <<vars, batch, progress, phase, decisions, auto, report, rows,
                  final, input, outcome>>
  BY DEF vars, report
<1>2. results \in Seq(Results)
  BY DEF PInv, PatchTypeOK
<1>3. /\ results' \in Seq(Results)
      /\ Len(results') = Len(results) + 1 /\ Len(results) \in Nat
      /\ ~attempted => Attempted' = Attempted /\ Applied' = Applied
      /\ attempted => Attempted' # {}
      /\ attempted /\ Attempted' = Applied' => ok /\ Attempted = Applied
  BY <1>2, OneMoreResult
<1>4. PatchTypeOK'
  BY <1>1, <1>3 DEF PInv, PatchTypeOK, IsList
<1>5. Reporting'
  BY <1>1, ReportingStays DEF PInv, Reporting
<1>6. Deciding'
  BY <1>1, DecidingStays DEF PInv
<1>7. Cell <= CellCount
  <2>1. Len(rows) < CellCount /\ Len(rows) \in Nat /\ batch \in Batches
    BY DEF PInv, Reporting, PatchTypeOK
  <2> QED
    BY <2>1, CellsAreCounted DEF Cell
<1>8. Len(Patches) \in Nat
  BY <1>7, RunningCell
<1>9. Task' = Task /\ Patches' = Patches /\ Laid(Task, auto)' = Laid(Task, auto)
  BY <1>1 DEF Task, Cell, TaskOf, Patches, Laid
<1>10. Len(results') <= Len(Patches')
  BY <1>3, <1>8, <1>9
<1>11. Attempted' = {} => repo' = Task'.files
  BY <1>3, <1>9 DEF PInv, Patching
<1>12. ASSUME Attempted' = Applied'
       PROVE  /\ \A k \in 1..Len(results') :
                    Patches[k].agent \in auto => Writable(Patches[k])
              /\ repo' = Laid(Task, auto)'[Len(results')]
  <2> DEFINE k == Len(results) + 1
  <2>1. Attempted = Applied /\ (attempted => ok)
    BY <1>3, <1>12
  <2>2. repo = Laid(Task, auto)[Len(results)]
    BY <2>1 DEF PInv, Patching
  <2>3. k \in 1..Len(Patches) /\ k - 1 = Len(results)
    BY <1>3, <1>8
  <2>4. Laid(Task, auto)[k] = IF NextPatch.agent \in auto
                              THEN WriteAll(repo, NextPatch.changes) ELSE repo
    <3> HIDE DEF k
    <3>1. Len(Task.patches) \in Nat /\ k \in 1..Len(Task.patches)
      BY <1>8, <2>3 DEF Patches
    <3>2. Laid(Task, auto)[k] = IF Task.patches[k].agent \in auto
                                THEN WriteAll(Laid(Task, auto)[k - 1],
                                              Task.patches[k].changes)
                                ELSE Laid(Task, auto)[k - 1]
      BY <3>1, LaidPatchByPatch
    <3>3. Task.patches[k] = NextPatch
      BY DEF Patches, NextPatch, k
    <3> QED
      BY <2>2, <2>3, <3>2, <3>3
  <2>5. Laid(Task, auto)[k] = repo'
    BY <2>1, <2>4
  <2>6. ASSUME NEW i \in 1..Len(results'), Patches[i].agent \in auto
        PROVE  Writable(Patches[i])
    <3>1. CASE i = k
      BY <2>1, <2>6, <3>1 DEF NextPatch
    <3>2. CASE i \in 1..Len(results)
      BY <2>1, <2>6, <3>2 DEF PInv, Patching
    <3> QED
      BY <1>3, <3>1, <3>2
  <2> QED
    BY <1>3, <1>9, <2>5, <2>6
<1>13. Patching'
  BY <1>1, <1>9, <1>10, <1>11, <1>12 DEF Patching
<1> QED
  BY <1>1, <1>4, <1>5, <1>6, <1>13 DEF PInv, AppliesOnlyWhatCommitted,
     CleanRowsAreWhole, PassIsTestedOrUntouched

LEMMA HoldPatchKeeps ==
  ASSUME PInv, HoldPatch
  PROVE  PInv'
BY PatchIsLookedAt DEF HoldPatch

LEMMA ApplyPatchKeeps ==
  ASSUME PInv, ApplyPatch
  PROVE  PInv'
<1> DEFINE ok == Patched(NextPatch, repo).ok
<1>1. ok \in BOOLEAN
      /\ (ok => /\ Writable(NextPatch)
                /\ Patched(NextPatch, repo).repo = WriteAll(repo, NextPatch.changes))
  BY SuccessIsWhole
<1>2. /\ phase = "patches" /\ Len(results) < Len(Patches)
      /\ NextPatch.agent \in auto
      /\ repo' = Patched(NextPatch, repo).repo
      /\ results' = Append(results, [attempted |-> TRUE, ok |-> ok])
      /\ UNCHANGED <<vars, batch, progress, phase, decisions, auto, report>>
  BY DEF ApplyPatch
<1> HIDE DEF ok
<1> QED
  BY <1>1, <1>2, PatchIsLookedAt

\* A row that is reported is the next one of the batch.
LEMMA OneMoreRow ==
  ASSUME PInv, Cell <= CellCount, NEW r \in RowRecords,
         r.applied + r.held + r.conflicts = Len(Patches),
         rows' = Append(rows, r), final' = final, progress = "running",
         UNCHANGED <<batch, progress, input, results, decisions>>,
         phase' \in {"waiting", "reported"}
  PROVE  /\ PatchTypeOK' /\ Reporting'
         /\ LastTask' = Task /\ LastRow' = r
<1>1. /\ rows \in Seq(RowRecords) /\ Len(rows) \in Nat
      /\ rows' \in Seq(RowRecords) /\ Len(rows') = Len(rows) + 1
      /\ DOMAIN rows' = 1..(Len(rows) + 1)
      /\ rows'[Len(rows) + 1] = r
      /\ \A k \in 1..Len(rows) : rows'[k] = rows[k]
      /\ DOMAIN rows = 1..Len(rows)
  BY DEF PInv, PatchTypeOK
<1>2. PatchTypeOK'
  BY <1>1 DEF PInv, PatchTypeOK, Phases, IsList
<1>3. \A k : TaskOf(k)' = TaskOf(k)
  BY DEF TaskOf
<1>4. CellCount' = CellCount
  BY DEF CellCount
<1>5. ASSUME NEW k \in DOMAIN rows'
      PROVE  rows'[k].applied + rows'[k].held + rows'[k].conflicts
               = Len(TaskOf(k).patches)
  <2>1. CASE k = Len(rows) + 1
    BY <1>1, <2>1 DEF Task, Cell, Patches
  <2>2. CASE k \in 1..Len(rows)
    BY <1>1, <2>2 DEF PInv, Reporting
  <2> QED
    BY <1>1, <2>1, <2>2
<1>6. Len(rows') <= CellCount'
  BY <1>1, <1>4 DEF Cell
<1>7. Reporting'
  BY <1>3, <1>5, <1>6 DEF PInv, Reporting
<1>8. LastTask' = Task
  BY <1>1, <1>3 DEF LastTask, Task, Cell, TaskOf
<1>9. LastRow' = r
  BY <1>1 DEF LastRow
<1> QED
  BY <1>2, <1>7, <1>8, <1>9

LEMMA RunTestsKeeps ==
  ASSUME PInv, RunTests
  PROVE  PInv'
<1>1. PICK late \in SUBSET {k \in DOMAIN Task.tests : Task.tests[k].slow} :
        rows' = Append(rows, Row(
              \/ SkipsTests
              \/ /\ Task.tests # <<>>
                 /\ \A k \in DOMAIN Task.tests :
                       k \notin late /\ Passes(Task.tests[k], repo)))
  BY DEF RunTests
<1> DEFINE passed == \/ SkipsTests
                     \/ /\ Task.tests # <<>>
                        /\ \A k \in DOMAIN Task.tests :
                              k \notin late /\ Passes(Task.tests[k], repo)
<1>2. /\ phase = "patches" /\ phase' = "reported"
      /\ Len(results) = Len(Patches) /\ final' = final
      /\ UNCHANGED <<vars, batch, progress, decisions, auto, repo, results>>
      /\ UNCHANGED <<input, outcome>>
  BY DEF RunTests, row, vars
<1>3. passed \in BOOLEAN
  OBVIOUS
<1>4. rows' = Append(rows, Row(passed))
  BY <1>1
<1>5. passed => SkipsTests \/ /\ Task.tests # <<>>
                              /\ \A k \in DOMAIN Task.tests :
                                    Passes(Task.tests[k], repo)
  OBVIOUS
<1> HIDE DEF passed
<1>6. /\ Cardinality(Applied) \in Nat /\ Cardinality(Held) \in Nat
      /\ Cardinality(Attempted \ Applied) \in Nat
      /\ Cardinality(Applied) + Cardinality(Held)
           + Cardinality(Attempted \ Applied) = Len(results)
      /\ Cardinality(Attempted \ Applied) = 0 <=> Attempted = Applied
  BY PatchesAreCounted DEF PInv, PatchTypeOK
<1>7. /\ Row(passed).applied = Cardinality(Applied)
      /\ Row(passed).held = Cardinality(Held)
      /\ Row(passed).conflicts = Cardinality(Attempted \ Applied)
      /\ Row(passed).passed = passed
  BY DEF Row
<1>8. Row(passed) \in RowRecords
  <2>1. FreshnessPass \in BOOLEAN /\ Broken(Task, repo) \in BOOLEAN
    BY DEF FreshnessPass, Broken
  <2> QED
    BY <1>3, <1>6, <2>1 DEF Row, RowRecords
<1>9. Row(passed).applied + Row(passed).held + Row(passed).conflicts = Len(Patches)
  BY <1>2, <1>6, <1>7
<1>10. Cell <= CellCount /\ progress = "running"
  <2>1. Len(rows) < CellCount /\ Len(rows) \in Nat /\ batch \in Batches
    BY <1>2 DEF PInv, Reporting, PatchTypeOK
  <2> QED
    BY <1>2, <2>1, CellsAreCounted DEF Cell, PInv, Reporting
<1>11. /\ PatchTypeOK' /\ Reporting' /\ LastTask' = Task /\ LastRow' = Row(passed)
  <2> DEFINE r == Row(passed)
  <2>1. r \in RowRecords /\ rows' = Append(rows, r)
        /\ r.applied + r.held + r.conflicts = Len(Patches)
    BY <1>4, <1>8, <1>9
  <2> HIDE DEF r
  <2>2. PatchTypeOK' /\ Reporting' /\ LastTask' = Task /\ LastRow' = r
    BY <1>2, <1>10, <2>1, OneMoreRow
  <2> QED
    BY <2>2 DEF r
<1>12. Deciding'
  BY <1>2, DecidingStays DEF PInv
<1>13. Patching'
  BY <1>2 DEF Patching
<1>14. AppliesOnlyWhatCommitted'
  BY <1>2 DEF PInv, AppliesOnlyWhatCommitted
<1>15. CleanRowsAreWhole'
  <2>1. SUFFICES ASSUME LastRow'.conflicts = 0
                 PROVE  /\ \A k \in DOMAIN Task.patches :
                              Task.patches[k].agent \in auto =>
                                Writable(Task.patches[k])
                        /\ repo' = Laid(LastTask, auto)'[Len(LastTask'.patches)]
    BY <1>2, <1>11 DEF CleanRowsAreWhole
  <2>2. Attempted = Applied
    BY <1>6, <1>7, <1>11, <2>1
  <2>3. /\ \A k \in 1..Len(results) :
              Patches[k].agent \in auto => Writable(Patches[k])
        /\ repo = Laid(Task, auto)[Len(results)]
    BY <1>2, <2>2 DEF PInv, Patching
  <2>4. Laid(LastTask, auto)' = Laid(Task, auto)
    BY <1>2, <1>11 DEF Laid
  <2> QED
    BY <1>2, <1>11, <2>3, <2>4 DEF Patches
<1>16. PassIsTestedOrUntouched'
  <2>1. SUFFICES ASSUME passed
                 PROVE  \/ repo' = LastTask'.files
                        \/ /\ LastTask'.tests # <<>>
                           /\ \A k \in DOMAIN LastTask'.tests :
                                 Passes(LastTask'.tests[k], repo')
    BY <1>7, <1>11 DEF PassIsTestedOrUntouched, Passes
  <2>2. CASE SkipsTests
    <3>1. Attempted = {}
      BY <2>2 DEF SkipsTests, Held, Attempted
    <3> QED
      BY <1>2, <1>11, <3>1 DEF PInv, Patching
  <2>3. CASE ~SkipsTests
    BY <1>2, <1>5, <1>11, <2>1, <2>3
  <2> QED
    BY <2>2, <2>3
<1> QED
  BY <1>11, <1>12, <1>13, <1>14, <1>15, <1>16 DEF PInv

\* A row that does not end.
LEMMA FailureIsReported ==
  ASSUME PInv, Cell <= CellCount, rows' = Append(rows, FailureRow),
         final' = final, progress = "running", phase' = "waiting",
         UNCHANGED <<vars, batch, progress, row>>
  PROVE  PInv'
<1>1. UNCHANGED <<input, results, decisions>>
  BY DEF row, vars
<1>2. Len(Patches) \in Nat
  BY RunningCell
<1>3. /\ FailureRow \in RowRecords
      /\ FailureRow.applied + FailureRow.held + FailureRow.conflicts = Len(Patches)
  BY <1>2 DEF FailureRow, RowRecords
<1>4. PatchTypeOK' /\ Reporting'
  BY <1>1, <1>3, OneMoreRow
<1>5. Deciding'
  BY <1>1, DecidingStays DEF PInv
<1> QED
  BY <1>4, <1>5 DEF PInv, Patching, AppliesOnlyWhatCommitted,
     CleanRowsAreWhole, PassIsTestedOrUntouched

LEMMA TimeOutKeeps ==
  ASSUME PInv, TimeOut
  PROVE  PInv'
<1>1. Cell <= CellCount /\ progress = "running"
  <2>1. Len(rows) < CellCount /\ Len(rows) \in Nat /\ batch \in Batches
        /\ progress = "running"
    BY DEF PInv, Reporting, PatchTypeOK, TimeOut
  <2> QED
    BY <2>1, CellsAreCounted DEF Cell
<1> QED
  BY <1>1, FailureIsReported DEF TimeOut

\* What was reported stays so while the rows and the repository do.
LEMMA ReportedStays ==
  ASSUME PInv, UNCHANGED <<vars, batch, phase, row, rows>>
  PROVE  /\ Deciding' /\ Patching' /\ AppliesOnlyWhatCommitted'
         /\ CleanRowsAreWhole' /\ PassIsTestedOrUntouched'
<1>1. UNCHANGED <<decisions, auto, repo, results, input, outcome>>
  BY DEF row, vars
<1>2. Deciding'
  BY <1>1, DecidingStays DEF PInv
<1>3. Task' = Task /\ LastTask' = LastTask /\ LastRow' = LastRow
  BY DEF Task, Cell, TaskOf, LastTask, LastRow
<1>4. Laid(Task, auto)' = Laid(Task, auto) /\ Laid(LastTask, auto)' = Laid(LastTask, auto)
  BY <1>1, <1>3 DEF Laid
<1>5. Patching'
  BY <1>1, <1>3, <1>4 DEF PInv, Patching, Patches, Attempted, Applied
<1>6. AppliesOnlyWhatCommitted'
  BY <1>1 DEF PInv, AppliesOnlyWhatCommitted
<1>7. CleanRowsAreWhole'
  BY <1>1, <1>3, <1>4 DEF PInv, CleanRowsAreWhole
<1>8. PassIsTestedOrUntouched'
  BY <1>1, <1>3 DEF PInv, PassIsTestedOrUntouched, Passes
<1> QED
  BY <1>2, <1>5, <1>6, <1>7, <1>8

LEMMA RaiseInRowKeeps ==
  ASSUME PInv, RaiseInRow
  PROVE  PInv'
<1>1. CASE batch.isolated
  BY <1>1, FailureIsReported DEF RaiseInRow, BetweenRows
<1>2. CASE ~batch.isolated
  <2>1. /\ UNCHANGED <<vars, batch, row, rows, final, phase>>
        /\ UNCHANGED <<input, results, decisions>>
        /\ progress = "running" /\ progress' = "aborted"
        /\ phase \in {"waiting", "reported"}
    BY <1>2 DEF RaiseInRow, BetweenRows, row, vars
  <2>2. PatchTypeOK'
    BY <2>1 DEF PInv, PatchTypeOK, IsList
  <2>3. Reporting'
    BY <1>2, <2>1 DEF PInv, Reporting, CellCount, TaskOf
  <2> QED
    BY <2>1, <2>2, <2>3, ReportedStays DEF PInv
<1> QED
  BY <1>1, <1>2

LEMMA WriteResultsKeeps ==
  ASSUME PInv, WriteResults
  PROVE  PInv'
<1>1. /\ UNCHANGED <<vars, batch, row, rows, phase, input, results, decisions>>
      /\ final' = rows /\ progress' = "done" /\ Cell > CellCount
      /\ phase \in {"waiting", "reported"}
  BY DEF WriteResults, BetweenRows, row, vars
<1>2. PatchTypeOK'
  BY <1>1 DEF PInv, PatchTypeOK, IsList
<1>3. Len(rows) = CellCount
  <2>1. Len(rows) <= CellCount /\ Len(rows) \in Nat /\ CellCount \in Nat
    BY CellsAreCounted DEF PInv, Reporting, PatchTypeOK
  <2> QED
    BY <1>1, <2>1 DEF Cell
<1>4. Reporting'
  BY <1>1, <1>3 DEF PInv, Reporting, CellCount, TaskOf
<1> QED
  BY <1>1, <1>2, <1>4, ReportedStays DEF PInv

LEMMA BatchContinues == PInv /\ [PatchNext]_patchVars => PInv'
<1> SUFFICES ASSUME PInv, [PatchNext]_patchVars PROVE PInv'
  OBVIOUS
<1>1. CASE UNCHANGED patchVars
  <2>1. /\ UNCHANGED <<vars, batch, progress, phase, row, report, rows, final>>
        /\ UNCHANGED <<input, results, decisions>>
    BY <1>1 DEF patchVars, row, report, vars
  <2>2. PatchTypeOK'
    BY <2>1 DEF PInv, PatchTypeOK, IsList
  <2>3. Reporting'
    BY <2>1, ReportingStays DEF PInv, Reporting
  <2> QED
    BY <2>1, <2>2, <2>3, ReportedStays DEF PInv
<1>2. CASE PatchNext
  BY <1>2, StartRowKeeps, RunPolicyKeeps, SelectAgentsKeeps, HoldPatchKeeps,
     ApplyPatchKeeps, RunTestsKeeps, TimeOutKeeps, RaiseInRowKeeps,
     WriteResultsKeeps DEF PatchNext
<1> QED
  BY <1>1, <1>2

-----------------------------------------------------------------------------
(* Fresh rows.  A second invariant, kept beside the first: what the current *)
(* row was started with, what the merge stage counted, and where what is in *)
(* the repository comes from.                                               *)

InRow == phase \in {"policy", "patches"}

\* The merge stage works on the intents and the scenario of the current task.
RowsOwn ==
    InRow => /\ input = TaskIntents(Task) /\ scenario = TaskScenario(Task)
             /\ DOMAIN metrics = MetricNames

StaleOnes == {n \in Committed : OracleStale(input, n, scenario)}

\* The stale writes that were accepted are counted when the stage ends.
StaleIsCounted ==
    InRow /\ stage = "done" => Cardinality(StaleOnes) <= metrics["staleAccepted"]

\* The agents that are let through are agents of the task.
LetThrough ==
    phase = "patches" =>
        stage = "done" /\ (~batch.applyReviewed => auto \subseteq TaskAgents(Task))

\* A file is as it was copied, or as a patch that was let through wrote it.
WrittenByThrough(f) ==
    \E p \in ToSet(Patches) : \E e \in ToSet(p.changes) :
        p.agent \in auto /\ e.file = f /\ e.body = repo[f]

Traced ==
    phase = "patches" =>
        \A f \in DOMAIN repo :
            \/ f \in DOMAIN Task.files /\ repo[f] = Task.files[f]
            \/ WrittenByThrough(f)

FInv == RowsOwn /\ StaleIsCounted /\ LetThrough /\ Traced /\ FreshRowsAreFresh

ReadRows(reads) == [k \in DOMAIN reads |-> ReadRow(reads[k])]

\* The intent made of the patches of an agent.
LEMMA IntentOfAnAuthor ==
  ASSUME NEW t, NEW a
  PROVE  /\ PatchIntent(t, a).agent = a
         /\ PatchIntent(t, a).reads = ReadRows(DependsOn(t, a))
         /\ Revises(t, a) # "" => /\ IsStateWrite(PatchIntent(t, a))
                                  /\ PatchIntent(t, a).target = Revises(t, a)
<1> DEFINE p      == OwnPatch(t, a)
           file   == Head(PatchTargets(p))
           reads  == ReadRows(DependsOn(t, a))
           common == [Patch(a, file, "") EXCEPT !.role = p.role, !.reads = reads]
           revision == [common EXCEPT !.target = Revises(t, a), !.named = Revises(t, a),
                 !.ctype = "commitment", !.status = "active",
                 !.text = Phrase(a, {"optionality"})]
           edit == [common EXCEPT !.ctype = "workspace_file", !.file = file,
                 !.risk = p.risk,
                 !.text = Text(IF p.description # "" THEN p.description ELSE a)]
<1>1. PatchIntent(t, a) = IF Revises(t, a) # "" THEN revision ELSE edit
  BY DEF PatchIntent, ReadRows
<1> HIDE DEF reads, file, p
<1>2. common.agent = a /\ common.reads = reads /\ common.op = "patch_atom"
  BY DEF Patch
<1>3. edit.agent = a /\ edit.reads = reads
  BY DEF Patch
<1>4. /\ revision.agent = a /\ revision.reads = reads
      /\ revision.op = "patch_atom" /\ revision.target = Revises(t, a)
  BY DEF Patch
<1>5. IsStateWrite(revision)
  BY <1>4 DEF IsStateWrite, STATE_OPS, ATOM_OPS
<1> HIDE DEF revision, edit
<1> QED
  BY <1>1, <1>3, <1>4, <1>5 DEF reads

\* Two agents of a task, one of which relies on what the other revises: an
\* intent of the first is stale by what the scenario declares.
LEMMA ReliantIsStale ==
  ASSUME NEW t, t.given = <<>>, NEW a, NEW b \in Authors(t),
         ReliesOnRevised(t, a, b), NEW n \in DOMAIN TaskIntents(t),
         TaskIntents(t)[n].agent = a
  PROVE  OracleStale(TaskIntents(t), n, TaskScenario(t))
<1> DEFINE intents == TaskIntents(t)
           sc == TaskScenario(t)
           reads == DependsOn(t, a)
<1>1. intents = [k \in DOMAIN t.patches |-> PatchIntent(t, t.patches[k].agent)]
  BY DEF TaskIntents
<1>2. sc.declared = [x \in Authors(t) |-> PatchIntent(t, x).reads]
  BY DEF TaskScenario, PatchScenario
<1>3. a = t.patches[n].agent /\ n \in DOMAIN t.patches
  <2>1. n \in DOMAIN t.patches /\ intents[n] = PatchIntent(t, t.patches[n].agent)
    BY <1>1
  <2>2. intents[n].agent = a
    OBVIOUS
  <2>3. PatchIntent(t, t.patches[n].agent).agent = t.patches[n].agent
    BY IntentOfAnAuthor
  <2> HIDE DEF intents
  <2> QED
    BY <2>1, <2>2, <2>3
<1>4. a \in Authors(t)
  BY <1>3 DEF Authors, ToSet
<1>5. Declared(sc, a) = [k \in DOMAIN reads |-> ReadRow(reads[k])]
  <2>1. Declared(sc, a) = PatchIntent(t, a).reads
    BY <1>2, <1>4 DEF Declared
  <2>2. PatchIntent(t, a).reads = ReadRows(DependsOn(t, a))
    BY IntentOfAnAuthor
  <2> HIDE DEF sc
  <2> QED
    BY <2>1, <2>2 DEF ReadRows
<1>6. PICK k \in DOMAIN reads : reads[k] = Revises(t, b)
  BY DEF ReliesOnRevised, ToSet
<1>7. PICK m \in DOMAIN t.patches : t.patches[m].agent = b
  BY DEF Authors, ToSet
<1>8. /\ m \in DOMAIN intents /\ IsStateWrite(intents[m])
      /\ intents[m].target = Revises(t, b)
  <2>1. m \in DOMAIN intents /\ intents[m] = PatchIntent(t, b)
    BY <1>1, <1>7
  <2>2. Revises(t, b) # ""
    BY DEF ReliesOnRevised
  <2>3. /\ IsStateWrite(PatchIntent(t, b))
        /\ PatchIntent(t, b).target = Revises(t, b)
    BY <2>2, IntentOfAnAuthor
  <2> HIDE DEF intents
  <2> QED
    BY <2>1, <2>3
<1> DEFINE d == ReadRow(reads[k])
<1>9. d \in OracleDeps(intents[n], sc)
  <2>1. d = Declared(sc, a)[k] /\ k \in DOMAIN Declared(sc, a)
    BY <1>5
  <2> QED
    BY <2>1 DEF OracleDeps
<1>10. d.target = Revises(t, b)
  BY <1>6 DEF ReadRow
<1> HIDE DEF d, intents, sc
<1>11. \E x \in OracleDeps(intents[n], sc) : \E j \in DOMAIN intents :
          IsStateWrite(intents[j]) /\ intents[j].target = x.target
  BY <1>8, <1>9, <1>10
<1> QED
  BY <1>11 DEF OracleStale, intents, sc

\* While a row is fresh, nobody is let through who relies on what another
\* agent revises.
LEMMA FreshLetsNobodyRely ==
  ASSUME PInv, FInv, phase = "patches", FreshnessPass, ~batch.applyReviewed,
         Task.given = <<>>, NEW a \in auto, NEW b \in Authors(Task)
  PROVE  ~ReliesOnRevised(Task, a, b)
<1> SUFFICES ASSUME ReliesOnRevised(Task, a, b) PROVE FALSE
  OBVIOUS
<1>1. /\ input = TaskIntents(Task) /\ scenario = TaskScenario(Task)
      /\ stage = "done" /\ a \in TaskAgents(Task)
      /\ Cardinality(StaleOnes) <= metrics["staleAccepted"]
  BY DEF FInv, RowsOwn, InRow, StaleIsCounted, LetThrough
<1>2. PICK n \in DOMAIN input : input[n].agent = a
  BY <1>1 DEF TaskAgents, ToSet
<1>3. outcome[n] = "commit" /\ DOMAIN outcome = DOMAIN input
  BY <1>2 DEF PInv, AppliesOnlyWhatCommitted, Deciding
<1>4. OracleStale(input, n, scenario)
  BY <1>1, <1>2, ReliantIsStale
<1>5. n \in StaleOnes
  BY <1>3, <1>4 DEF StaleOnes, Committed
<1>6. DOMAIN input = 1..Len(input) /\ Len(input) \in Nat
  BY ListIsSequence DEF PInv, PatchTypeOK
<1>7. IsFiniteSet(StaleOnes)
  <2>1. IsFiniteSet(DOMAIN input) /\ StaleOnes \subseteq DOMAIN input
    BY <1>3, <1>6, FS_Interval DEF StaleOnes, Committed
  <2> QED
    BY <2>1, FS_Subset
<1>8. Cardinality(StaleOnes) \in Nat /\ Cardinality(StaleOnes) # 0
  BY <1>5, <1>7, FS_CardinalityType, FS_EmptySet
<1>9. metrics["staleAccepted"] = 0
  BY DEF FreshnessPass
<1> QED
  BY <1>1, <1>8, <1>9

\* In a fresh row the client is not broken.
LEMMA FreshIsNotBroken ==
  ASSUME PInv, FInv, phase = "patches", FreshnessPass, ~batch.applyReviewed,
         Task.given = <<>>, Cell <= CellCount
  PROVE  ~Broken(Task, repo)
<1> SUFFICES ASSUME Broken(Task, repo) PROVE FALSE
  OBVIOUS
<1>1. batch \in Batches /\ Task \in ToSet(batch.tasks)
  BY RunningCell, TaskIsOfTheBatch DEF PInv, PatchTypeOK, Task
<1>2. /\ Task.breaks # <<>>
      /\ \A f \in DOMAIN Task.breaks :
            f \in DOMAIN repo /\ repo[f] = Task.breaks[f]
  BY DEF Broken
<1>3. PICK a \in Authors(Task), b \in Authors(Task), f \in DOMAIN Task.breaks :
         /\ ReliesOnRevised(Task, a, b)
         /\ ~(f \in DOMAIN Task.files /\ Task.files[f] = Task.breaks[f])
         /\ \A p \in ToSet(Task.patches) : \A e \in ToSet(p.changes) :
               e.file = f /\ e.body = Task.breaks[f] => p.agent = a
  BY <1>1, <1>2, ProbesAssumption
<1>4. f \in DOMAIN repo /\ repo[f] = Task.breaks[f]
  BY <1>2
<1>5. WrittenByThrough(f)
  BY <1>3, <1>4 DEF FInv, Traced
<1>6. a \in auto
  BY <1>3, <1>4, <1>5 DEF WrittenByThrough, Patches
<1> QED
  BY <1>3, <1>6, FreshLetsNobodyRely

\* The last of the places of a list is one of them.
LEMMA LastPlace ==
  ASSUME NEW n \in Nat, NEW I \in SUBSET (1..n), I # {}
  PROVE  Max(I) \in I
<1> DEFINE J == {n - k : k \in I}
<1>1. J \in SUBSET Nat /\ J # {}
  <2>1. \A k \in I : n - k \in Nat
    OBVIOUS
  <2> QED
    BY <2>1
<1>2. PICK m \in J : \A j \in J : ~(<<j, m>> \in OpToRel(<, Nat))
  BY <1>1, NatLessThanWellFounded, WFMin
<1>3. PICK k \in I : m = n - k
  BY <1>2
<1>4. \A j \in I : k >= j
  <2> SUFFICES ASSUME NEW j \in I, ~(k >= j) PROVE FALSE
    OBVIOUS
  <2>1. j \in 1..n /\ k \in 1..n
    OBVIOUS
  <2>2. n - j \in J /\ n - j < m /\ n - j \in Nat /\ m \in Nat
    BY <1>3, <2>1
  <2> QED
    BY <1>2, <2>2 DEF OpToRel
<1> QED
  BY <1>4 DEF Max

\* What is in a file that edits were written to.
LEMMA WritesAreTraced ==
  ASSUME NEW files, NEW edits, IsList(edits), NEW f \in DOMAIN WriteAll(files, edits)
  PROVE  \/ f \in DOMAIN files /\ WriteAll(files, edits)[f] = files[f]
         \/ \E e \in ToSet(edits) :
               e.file = f /\ e.body = WriteAll(files, edits)[f]
<1> DEFINE written == {e.file : e \in {e \in ToSet(edits) : ~Outside(e)}}
           places == {k \in 1..Len(edits) : edits[k].file = f}
           last == SelectLastInSeq(edits, LAMBDA e : e.file = f)
<1>1. /\ DOMAIN WriteAll(files, edits) = DOMAIN files \cup written
      /\ WriteAll(files, edits)[f] = IF f \in written THEN edits[last].body
                                                      ELSE files[f]
  BY DEF WriteAll
<1>2. CASE f \notin written
  BY <1>1, <1>2
<1>3. CASE f \in written
  <2>1. Len(edits) \in Nat /\ DOMAIN edits = 1..Len(edits)
    BY ListIsSequence
  <2>2. places # {}
    BY <1>3, <2>1 DEF ToSet
  <2>3. last \in places
    <3>1. last = Max(places)
      BY <2>2 DEF SelectLastInSeq
    <3>2. places \in SUBSET (1..Len(edits))
      OBVIOUS
    <3> HIDE DEF places, last
    <3> QED
      BY <2>1, <2>2, <3>1, <3>2, LastPlace
  <2>4. edits[last] \in ToSet(edits) /\ edits[last].file = f
    BY <2>1, <2>3 DEF ToSet
  <2> HIDE DEF last, written
  <2> QED
    BY <1>1, <1>3, <2>4
<1> QED
  BY <1>2, <1>3

\* A step of the merge stage keeps what it was started with, and the last one
\* counts the stale writes that were accepted.
LEMMA ResolveCounts ==
  ASSUME IsList(input), Deciding, Resolve, DOMAIN metrics = MetricNames
  PROVE  /\ UNCHANGED <<input, scenario>>
         /\ DOMAIN metrics' = MetricNames
         /\ stage' = "done" => Cardinality(StaleOnes') <= metrics'["staleAccepted"]
<1>1. CASE Verify
  BY <1>1 DEF Verify, args
<1>2. CASE Account
  <2> DEFINE detected == {n \in Committed : verdict[n].stale}
             accepted == IF Cardinality(detected) >= Cardinality(StaleOnes)
                         THEN Cardinality(detected) ELSE Cardinality(StaleOnes)
  <2>1. /\ metrics' = [metrics EXCEPT !["staleAccepted"] = accepted,
                                      !["unsafe"] = @ + accepted]
        /\ UNCHANGED <<input, scenario, outcome>>
    BY <1>2 DEF Account, args, StaleOnes
  <2>2. "staleAccepted" \in DOMAIN metrics /\ "staleAccepted" # "unsafe"
    BY DEF MetricNames
  <2>3. metrics'["staleAccepted"] = accepted /\ DOMAIN metrics' = MetricNames
    <3> HIDE DEF accepted
    <3> QED
      BY <2>1, <2>2
  <2>4. IsFiniteSet(DOMAIN input) /\ Committed \subseteq DOMAIN input
    BY ListIsSequence, FS_Interval DEF Deciding, Committed
  <2>5. IsFiniteSet(detected) /\ IsFiniteSet(StaleOnes)
    <3>1. detected \subseteq DOMAIN input /\ StaleOnes \subseteq DOMAIN input
      BY <2>4 DEF StaleOnes
    <3> QED
      BY <2>4, <3>1, FS_Subset
  <2>6. Cardinality(detected) \in Nat /\ Cardinality(StaleOnes) \in Nat
    BY <2>5, FS_CardinalityType
  <2>7. StaleOnes' = StaleOnes
    BY <2>1 DEF StaleOnes, Committed
  <2>8. Cardinality(StaleOnes) <= accepted
    <3> HIDE DEF detected
    <3> QED
      BY <2>6
  <2> HIDE DEF accepted
  <2> QED
    BY <2>1, <2>3, <2>7, <2>8
<1>3. CASE InterruptByAuthority
  BY <1>3 DEF InterruptByAuthority, args, Entered, ContinueWith
<1>4. CASE GateReview \/ ContendForLock
  BY <1>4 DEF GateReview, ContendForLock, args, Entered, ContinueWith
<1>5. CASE RouteFlagged
  BY <1>5 DEF RouteFlagged, args, Entered, ContinueWith
<1>6. CASE RouteStaleReaders \/ ReviewConflict
  BY <1>6 DEF RouteStaleReaders, ReviewConflict, args, ContinueWith
<1>7. CASE MergeAppendOnly \/ CommitSingleWriter \/ MergeCompatible
  <2>1. PICK unsafe, merges : CommitLive(unsafe, merges)
    BY <1>7 DEF MergeAppendOnly, CommitSingleWriter, MergeCompatible
  <2> QED
    BY <2>1 DEF CommitLive, args, ContinueWith
<1> QED
  BY <1>1, <1>2, <1>3, <1>4, <1>5, <1>6, <1>7 DEF Resolve

\* Nothing of it changes while the row and the rows do not.
LEMMA FreshStays ==
  ASSUME FInv, UNCHANGED <<vars, batch, phase, auto, repo, rows>>
  PROVE  FInv'
<1>1. UNCHANGED <<input, scenario, outcome, metrics, stage>>
  BY DEF vars
<1>2. Task' = Task /\ Patches' = Patches /\ LastTask' = LastTask /\ LastRow' = LastRow
  BY DEF Task, Cell, TaskOf, LastTask, LastRow, Patches
<1>3. RowsOwn' /\ StaleIsCounted' /\ LetThrough'
  BY <1>1, <1>2 DEF FInv, RowsOwn, InRow, StaleIsCounted, StaleOnes, Committed,
     LetThrough
<1>4. Traced'
  BY <1>1, <1>2 DEF FInv, Traced, WrittenByThrough
<1>5. FreshRowsAreFresh'
  BY <1>1, <1>2 DEF FInv, FreshRowsAreFresh
<1> QED
  BY <1>3, <1>4, <1>5 DEF FInv

LEMMA StartRowIsFresh ==
  ASSUME PInv, FInv, StartRow
  PROVE  FInv'
<1>1. /\ UNCHANGED <<batch, rows>> /\ phase' = "policy" /\ stage' = "collect"
      /\ input' = TaskIntents(Task) /\ scenario' = TaskScenario(Task)
      /\ metrics' = [f \in MetricNames |-> 0]
  BY DEF StartRow, report
<1>2. Task' = Task
  BY <1>1 DEF Task, Cell, TaskOf
<1> QED
  BY <1>1, <1>2 DEF FInv, RowsOwn, StaleIsCounted, LetThrough, Traced,
     FreshRowsAreFresh

LEMMA RunPolicyIsFresh ==
  ASSUME PInv, FInv, RunPolicy
  PROVE  FInv'
<1>1. /\ UNCHANGED <<batch, phase, rows>> /\ phase = "policy" /\ Resolve
  BY DEF RunPolicy, report
<1>2. /\ UNCHANGED <<input, scenario>> /\ DOMAIN metrics' = MetricNames
      /\ stage' = "done" => Cardinality(StaleOnes') <= metrics'["staleAccepted"]
  BY <1>1, ResolveCounts DEF PInv, PatchTypeOK, FInv, RowsOwn, InRow
<1>3. Task' = Task
  BY <1>1 DEF Task, Cell, TaskOf
<1> QED
  BY <1>1, <1>2, <1>3 DEF FInv, RowsOwn, InRow, StaleIsCounted, LetThrough,
     Traced, FreshRowsAreFresh

LEMMA SelectAgentsIsFresh ==
  ASSUME PInv, FInv, SelectAgents
  PROVE  FInv'
<1>1. /\ UNCHANGED <<batch, repo, rows, input, scenario, outcome, metrics, stage>>
      /\ phase = "policy" /\ phase' = "patches" /\ stage = "done"
      /\ auto' = AutoAgents
  BY DEF SelectAgents, vars, report
<1>2. Task' = Task
  BY <1>1 DEF Task, Cell, TaskOf
<1>3. RowsOwn' /\ StaleIsCounted'
  BY <1>1, <1>2 DEF FInv, RowsOwn, InRow, StaleIsCounted, StaleOnes, Committed
<1>4. ASSUME ~batch.applyReviewed, NEW a \in AutoAgents
      PROVE  a \in TaskAgents(Task)
  <2>1. PICK k \in DOMAIN decisions : a \in decisions[k].agents
    BY <1>4 DEF AutoAgents, NamedBy
  <2>2. decisions[k] \in DecisionsOn(input)
    BY DEF PInv, PatchTypeOK
  <2>3. PICK n \in DOMAIN input : a = input[n].agent
    BY <2>1, <2>2 DEF DecisionsOn
  <2>4. input = TaskIntents(Task)
    BY <1>1 DEF FInv, RowsOwn, InRow
  <2> QED
    BY <2>3, <2>4 DEF TaskAgents, ToSet
<1>5. LetThrough'
  BY <1>1, <1>2, <1>4 DEF LetThrough
<1>6. Traced'
  BY <1>1, <1>2 DEF PInv, Patching, Traced
<1> QED
  BY <1>1, <1>3, <1>5, <1>6 DEF FInv, FreshRowsAreFresh

LEMMA HoldPatchIsFresh ==
  ASSUME PInv, FInv, HoldPatch
  PROVE  FInv'
BY FreshStays DEF HoldPatch, report

LEMMA ApplyPatchIsFresh ==
  ASSUME PInv, FInv, ApplyPatch
  PROVE  FInv'
<1>1. /\ UNCHANGED <<batch, phase, auto, rows, input, scenario, outcome, metrics,
                     stage>>
      /\ phase = "patches" /\ Len(results) < Len(Patches)
      /\ NextPatch.agent \in auto /\ repo' = Patched(NextPatch, repo).repo
  BY DEF ApplyPatch, vars, report
<1>2. Task' = Task /\ Patches' = Patches
  BY <1>1 DEF Task, Cell, TaskOf, Patches
<1>3. RowsOwn' /\ StaleIsCounted' /\ LetThrough'
  BY <1>1, <1>2 DEF FInv, RowsOwn, InRow, StaleIsCounted, StaleOnes, Committed,
     LetThrough
<1>4. NextPatch \in ToSet(Patches) /\ IsList(NextPatch.changes)
  <2>1. Len(rows) < CellCount /\ Len(rows) \in Nat /\ batch \in Batches
    BY <1>1 DEF PInv, Reporting, PatchTypeOK
  <2>2. Cell \in 1..CellCount
    BY <2>1, CellsAreCounted DEF Cell
  <2>3. Task \in ToSet(batch.tasks) /\ IsList(Patches) /\ Len(Patches) \in Nat
    BY <2>1, <2>2, TaskIsOfTheBatch, CellHasPatches DEF Task, Patches
  <2>4. Len(results) \in Nat
    BY DEF PInv, PatchTypeOK
  <2>5. Len(results) + 1 \in DOMAIN Patches
    BY <1>1, <2>3, <2>4, ListIsSequence
  <2>6. PICK k \in DOMAIN batch.tasks : batch.tasks[k] = Task
    BY <2>3 DEF ToSet
  <2>7. \A j \in DOMAIN Patches : IsList(Patches[j].changes)
    BY <2>1, <2>6, BatchesAssumption DEF Patches
  <2> QED
    BY <2>5, <2>7 DEF NextPatch, ToSet
<1>5. ASSUME NEW f \in DOMAIN repo'
      PROVE  \/ f \in DOMAIN repo /\ repo'[f] = repo[f]
             \/ \E e \in ToSet(NextPatch.changes) : e.file = f /\ e.body = repo'[f]
  <2>1. repo' \in {repo, WriteAll(repo, NextPatch.changes)}
    BY <1>1 DEF Patched
  <2> QED
    BY <1>4, <1>5, <2>1, WritesAreTraced
<1>6. Traced'
  BY <1>1, <1>2, <1>4, <1>5 DEF FInv, Traced, WrittenByThrough
<1> QED
  BY <1>1, <1>3, <1>6 DEF FInv, FreshRowsAreFresh

LEMMA RunTestsIsFresh ==
  ASSUME PInv, FInv, RunTests
  PROVE  FInv'
<1>1. PICK passed : rows' = Append(rows, Row(passed))
  BY DEF RunTests
<1>2. /\ phase = "patches" /\ phase' = "reported" /\ UNCHANGED <<batch, auto>>
  BY DEF RunTests, row
<1>3. Len(rows) < CellCount /\ rows \in Seq(RowRecords) /\ batch \in Batches
  BY <1>2 DEF PInv, Reporting, PatchTypeOK
<1>4. Cell <= CellCount
  BY <1>3, CellsAreCounted DEF Cell
<1>5. LastTask' = Task /\ LastRow' = Row(passed)
  BY <1>1, <1>2, <1>3 DEF LastTask, LastRow, Task, Cell, TaskOf
<1>6. Row(passed).fresh = FreshnessPass /\ Row(passed).broken = Broken(Task, repo)
  BY DEF Row
<1>7. FreshRowsAreFresh'
  BY <1>2, <1>4, <1>5, <1>6, FreshLetsNobodyRely, FreshIsNotBroken
     DEF FreshRowsAreFresh
<1> QED
  BY <1>2, <1>7 DEF FInv, RowsOwn, InRow, StaleIsCounted, LetThrough, Traced

\* Outside a row nothing is claimed until the next one is reported.
LEMMA WaitingIsFresh ==
  ASSUME phase' = "waiting"
  PROVE  FInv'
BY DEF FInv, RowsOwn, InRow, StaleIsCounted, LetThrough, Traced, FreshRowsAreFresh

LEMMA FreshStarts == PatchInit => FInv
BY DEF PatchInit, FInv, RowsOwn, InRow, StaleIsCounted, LetThrough, Traced,
   FreshRowsAreFresh

LEMMA FreshContinues == PInv /\ FInv /\ [PatchNext]_patchVars => FInv'
<1> SUFFICES ASSUME PInv, FInv, [PatchNext]_patchVars PROVE FInv'
  OBVIOUS
<1>1. CASE UNCHANGED patchVars
  BY <1>1, FreshStays DEF patchVars, row, report
<1>2. CASE TimeOut
  BY <1>2, WaitingIsFresh DEF TimeOut
<1>3. CASE RaiseInRow
  <2>1. CASE batch.isolated
    BY <1>3, <2>1, WaitingIsFresh DEF RaiseInRow
  <2>2. CASE ~batch.isolated
    BY <1>3, <2>2, FreshStays DEF RaiseInRow, row
  <2> QED
    BY <2>1, <2>2
<1>4. CASE WriteResults
  BY <1>4, FreshStays DEF WriteResults, row
<1> QED
  BY <1>1, <1>2, <1>3, <1>4, StartRowIsFresh, RunPolicyIsFresh,
     SelectAgentsIsFresh, HoldPatchIsFresh, ApplyPatchIsFresh, RunTestsIsFresh
     DEF PatchNext

-----------------------------------------------------------------------------
LEMMA BatchInvariant == PatchSpec => []PInv
BY BatchStarts, BatchContinues, PTL DEF PatchSpec

\* However rows fail, raise or run out of time, a batch that ends has one row
\* for every task and condition, in their order, and each row accounts for
\* every patch of its task as applied, held or in conflict; a batch that a row
\* aborts leaves no result file (patch_test_runner.py:826-849).
THEOREM RowsAccountForPatches == PatchSpec => []EveryCellHasItsRow
<1>1. PInv => EveryCellHasItsRow
  BY DEF PInv, Reporting, EveryCellHasItsRow
<1> QED
  BY <1>1, BatchInvariant, PTL

\* Unless reviewed patches are asked for, patches are applied only of agents
\* all of whose intents the merge stage committed
\* (patch_test_runner.py:614-631): the decisions that name an agent are, taken
\* together, as strict as the outcomes of its intents.
THEOREM OnlyCommittedIsApplied == PatchSpec => []AppliesOnlyWhatCommitted
<1>1. PInv => AppliesOnlyWhatCommitted
  BY DEF PInv
<1> QED
  BY <1>1, BatchInvariant, PTL

\* A row without conflicts leaves the copied repository with the whole patches
\* of the agents that were let through, one after the other, and with nothing
\* of the others (patch_test_runner.py:660-670).
THEOREM CleanRowsArePatchedWhole == PatchSpec => []CleanRowsAreWhole
<1>1. PInv => CleanRowsAreWhole
  BY DEF PInv
<1> QED
  BY <1>1, BatchInvariant, PTL

\* A row that passes has passed each of its tests on the repository as it was
\* left, or the repository is still the one that was copied
\* (patch_test_runner.py:679-690).
THEOREM PassesAreEarned == PatchSpec => []PassIsTestedOrUntouched
<1>1. PInv => PassIsTestedOrUntouched
  BY DEF PInv
<1> QED
  BY <1>1, BatchInvariant, PTL

\* In a row that reports itself fresh no agent was let through that relies on
\* a commitment which another agent of the task revises, and the client of the
\* commitment works (patch_test_runner.py:713): what the merge stage
\* counted when it ended still tells what became of the patches.
THEOREM FreshRowsHoldNoStalePatch == PatchSpec => []FreshRowsAreFresh
<1>1. PatchInit => PInv /\ FInv
  BY BatchStarts, FreshStarts
<1>2. PInv /\ FInv /\ [PatchNext]_patchVars => (PInv /\ FInv)'
  BY BatchContinues, FreshContinues
<1>3. PInv /\ FInv => FreshRowsAreFresh
  BY DEF FInv
<1> QED
  BY <1>1, <1>2, <1>3, PTL DEF PatchSpec
===============================================================================
