------------------------- MODULE WriteIntentRouting -------------------------
(***************************************************************************)
(* What the merge stage promises the commit stage and the caller: every    *)
(* intent of a batch is routed, once, to exactly one of commit, review and *)
(* block, before the stage closes.  The next batch may then come.          *)
(***************************************************************************)
EXTENDS Naturals

CONSTANT Sizes   \* the sizes a batch may have

VARIABLES outcome,   \* intent, by its position in the batch -> its routing
          closed

routingVars == <<outcome, closed>>

Final == {"commit", "review", "blocked"}

Undecided == {n \in DOMAIN outcome : outcome[n] = "pending"}

Init ==
    /\ \E k \in Sizes : outcome = [n \in 1..k |-> "pending"]
    /\ closed = FALSE

\* A lane routes some intents at once and leaves the others alone.
Route ==
    /\ ~closed
    /\ \E S \in SUBSET Undecided :
          /\ S # {}
          /\ \E routed \in [S -> Final] :
                outcome' = [n \in DOMAIN outcome |->
                               IF n \in S THEN routed[n] ELSE outcome[n]]
    /\ UNCHANGED closed

Close ==
    /\ ~closed /\ Undecided = {}
    /\ closed' = TRUE
    /\ UNCHANGED outcome

\* The next batch.
CallAgain ==
    /\ closed
    /\ \E k \in Sizes : outcome' = [n \in 1..k |-> "pending"]
    /\ closed' = FALSE

Next == Route \/ Close \/ CallAgain

Spec == Init /\ [][Next]_routingVars
=============================================================================
