---------------------------- MODULE AtomicCommit ----------------------------
(***************************************************************************)
(* What the store promises its readers: a batch is published as a whole,   *)
(* in one step, and each published version is the previous one with the    *)
(* committed intents of one batch applied in their order.                  *)
(***************************************************************************)
EXTENDS StoreOperations, Naturals, Sequences

CONSTANTS Batches, Seed

VARIABLES value,    \* the content readers see
          latest    \* its version

Init == value = Seed /\ latest = 0

Take(i, s) ==
    IF CommitMode(i) = "auto"
    THEN [content |-> Apply(i, s.content), version |-> s.version + 1]
    ELSE s

\* What the readers would see after each of the first intents of a batch.
Reached(batch, start) ==
    LET after[k \in 0..Len(batch)] ==
            IF k = 0 THEN start ELSE Take(batch[k], after[k - 1])
    IN  after

Publish(batch) ==
    LET end == Reached(batch, [content |-> value, version |-> latest])[Len(batch)]
    IN  /\ value' = end.content
        /\ latest' = end.version

Next == \E batch \in Batches : Publish(batch)

Spec == Init /\ [][Next]_<<value, latest>>
=============================================================================
