------------------------------ MODULE AtomicRun ------------------------------
(***************************************************************************)
(* What a run promises the readers of its store: whatever order the agents *)
(* answer in, each round publishes in one step, or never, what was there   *)
(* with some of the round's intents applied, no two of which disagree, in  *)
(* the order of the agent list.  A kill may leave the readers something    *)
(* they cannot read; nothing is published after that.                      *)
(***************************************************************************)
EXTENDS Naturals, Sequences, FiniteSets, SequencesExt

CONSTANTS Seed,           \* the seeded content
          Torn,           \* what cannot be read
          Agree(_, _),    \* whether two intents may take effect together
          Effect(_, _)    \* an intent's effect on a content

VARIABLES rounds,      \* the intents of each round
          value,       \* the content readers see
          published    \* how many rounds are out

Init == value = Seed /\ published = 0

Publish ==
    /\ published < Len(rounds) /\ value # Torn
    /\ published' = published + 1
    /\ LET intents == rounds[published + 1]
       IN  \E K \in SUBSET DOMAIN intents :
              /\ \A m, n \in K : m # n => Agree(intents[m], intents[n])
              /\ value' = FoldLeft(LAMBDA c, n : Effect(intents[n], c), value,
                                   SelectSeq([n \in DOMAIN intents |-> n],
                                             LAMBDA n : n \in K))
    /\ UNCHANGED rounds

Lose ==
    /\ value' = Torn
    /\ UNCHANGED <<rounds, published>>

Spec == Init /\ [][Publish \/ Lose]_<<rounds, value, published>>
=============================================================================
