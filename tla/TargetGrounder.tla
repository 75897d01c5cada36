--------------------------- MODULE TargetGrounder ---------------------------
(***************************************************************************)
(* Deterministic target grounding:                                         *)
(*   wccu_eval/scheduler/target_grounder.py                                *)
(*                                                                         *)
(* An intent whose target a model chose also has mentions, the ids that    *)
(* each of its strings names, in the order they are read, and words, the   *)
(* tokens of all of them.  A candidate is a seeded atom with its id, type, *)
(* words and the files that its id and aliases are.                        *)
(***************************************************************************)
EXTENDS Certificate, SequencesExt

DISTINCTIVE == {"backup_url", "callback_url", "fallback_url", "debug_url",
                "backup_email", "deployment", "approval", "api", "cache",
                "status"}

\* File names with neither a slash nor a dot.
PLAIN_NAMES == {"Makefile"}

\* Scores are fractions of no more than eight words, in units of 1/840.
ONE == 840
BONUS == ONE \div 5
SURE == (55 * ONE) \div 100       \* the confidence a certificate asks for

Enough(score) == 100 * score >= 24 * ONE

\* The file an intent is about: its path, or a target that is itself a file.
FileHint(i) ==
    IF i.file # "" /\ i.file \notin PLAIN_NAMES THEN i.file
    ELSE IF i.target \in DOMAIN FileTarget THEN FileTarget[i.target] ELSE ""

Score(i, c) ==
    LET shared == i.words \cap c.words
        fewest == Min({Cardinality(i.words), Cardinality(c.words)})
    IN  (ONE * Cardinality(shared)) \div Max({1, fewest})
            + (IF shared \cap DISTINCTIVE = {} THEN 0 ELSE BONUS)

\* The first candidate with the highest score.
Best(i, candidates) ==
    SelectInSeq(candidates, LAMBDA c :
        \A d \in ToSet(candidates) : Score(i, d) <= Score(i, c))

NamedBy(mention, candidates) ==
    SelectInSeq(candidates, LAMBDA c : c.id \in mention)

\* Where an intent is grounded to (0: nowhere) and with what score: by file,
\* else by the first string that names an atom, else by shared words.
Grounding(i, candidates) ==
    LET byFile == SelectInSeq(candidates, LAMBDA c : FileHint(i) \in c.files)
        byName == SelectInSeq(i.mentions, LAMBDA m : NamedBy(m, candidates) # 0)
        best   == Best(i, candidates)
    IN  IF i.op = "append_event" \/ candidates = <<>>
            THEN [to |-> 0, score |-> 0]
        ELSE IF byFile # 0 THEN [to |-> byFile, score |-> ONE]
        ELSE IF byName # 0
            THEN [to |-> NamedBy(i.mentions[byName], candidates), score |-> ONE]
        ELSE IF Enough(Score(i, candidates[best]))
            THEN [to |-> best, score |-> Score(i, candidates[best])]
        ELSE [to |-> 0, score |-> 0]

\* The path of a file atom is read off its id, whatever its id is.
FileOf(c) == IF c.id \in DOMAIN FileTarget THEN FileTarget[c.id] ELSE c.id

IsFile(c) == c.ctype = "workspace_file" \/ c.id \in DOMAIN FileTarget

Grounded(i, candidates) ==
    LET g == Grounding(i, candidates)
        c == candidates[g.to]
    IN  IF g.to = 0 THEN i
        ELSE [i EXCEPT
                !.target   = c.id,
                !.ctype    = IF @ = "" THEN c.ctype ELSE @,
                !.file     = IF @ = "" /\ IsFile(c) THEN FileOf(c) ELSE @,
                !.grounded = g.score >= SURE]
=============================================================================
