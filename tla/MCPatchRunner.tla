---------------------------- MODULE MCPatchRunner ----------------------------
(***************************************************************************)
(* Tasks of two and three patches for TLC, each run alone under every      *)
(* condition, and batches of two tasks under two conditions.               *)
(***************************************************************************)
EXTENDS PatchRunner

NoWorkloads == {}
NoFileTarget == [x \in {} |-> ""]

Base == [a |-> "a0", b |-> "b0"]

Change(f, body) == [file |-> f, body |-> body, from |-> body]

\* A patch of one file that writes its agent's name into it.
PatchBy(agent, f) ==
    [agent |-> agent, role |-> "builder", targets |-> <<f>>, depends |-> <<>>,
     revises |-> <<>>, risk |-> "low", description |-> "", kind |-> "edits",
     changes |-> <<Change(f, agent)>>]

\* A diff against the file as it is in the base.
DiffBy(agent, f) ==
    [PatchBy(agent, f) EXCEPT
        !.kind = "diff", !.changes = <<[Change(f, agent) EXCEPT !.from = Base[f]]>>]

Expect(f, body) == [needs |-> [x \in {f} |-> body], slow |-> FALSE]
NoShared == [commitment |-> "", dependent |-> "", revising |-> ""]

MCTask(patches) ==
    [repoExists |-> TRUE, files |-> Base, patches |-> patches,
     tests |-> <<Expect("a", "ann")>>, shared |-> NoShared, given |-> <<>>,
     breaks |-> <<>>]

\* bob revises the commitment that ann's patch depends on.
OnCommitment ==
    [MCTask(<<[PatchBy("ann", "a") EXCEPT !.depends = <<"c">>],
              [PatchBy("bob", "b") EXCEPT !.revises = <<"c">>]>>) EXCEPT
        !.breaks = [a |-> "ann", b |-> "bob"]]

\* The same, said by the task.
OnSharedCommitment ==
    [MCTask(<<PatchBy("ann", "a"), PatchBy("bob", "b")>>) EXCEPT
        !.shared = [commitment |-> "c", dependent |-> "ann", revising |-> "bob"],
        !.tests = <<Expect("b", "bob"),
                    [Expect("a", "ann") EXCEPT !.slow = TRUE]>>]

\* Two diffs of one file; the second does not fit after the first.
OnOneFile == MCTask(<<DiffBy("ann", "a"), DiffBy("bob", "a")>>)

\* Two patches that say the same; one of them touches a second file.
OnOneFileAlike ==
    MCTask(<<[PatchBy("ann", "a") EXCEPT !.description = "same"],
             [PatchBy("bob", "a") EXCEPT !.description = "same",
                 !.targets = <<"a", "b">>,
                 !.changes = <<Change("a", "ann"), Change("b", "bob")>>]>>)

\* A patch that fails half-way, and one that is held when risk is looked at.
HalfWritten ==
    [MCTask(<<[PatchBy("ann", "a") EXCEPT
                  !.changes = <<Change("a", "ann"), Change("", "ann"),
                                Change("b", "ann")>>],
              [PatchBy("cat", "d") EXCEPT !.risk = "high"]>>) EXCEPT
        !.tests = <<Expect("b", "bob")>>]

WithoutItsFile ==
    MCTask(<<[PatchBy("ann", "a") EXCEPT !.kind = "missing", !.changes = <<>>],
             PatchBy("bob", "b")>>)

\* No patch names a file, and there are no tests.
Untested ==
    [MCTask(<<[PatchBy("ann", "a") EXCEPT !.targets = <<>>]>>) EXCEPT
        !.tests = <<>>]

\* ann has two patches, the first of a file that bob writes too.
Twice == MCTask(<<PatchBy("ann", "a"), PatchBy("bob", "a"), PatchBy("ann", "b")>>)

\* The same, and the second one revises a commitment.
TwiceRevising ==
    MCTask(<<PatchBy("ann", "a"), PatchBy("bob", "a"),
             [PatchBy("ann", "b") EXCEPT !.revises = <<"c">>]>>)

NoRepository == [MCTask(<<PatchBy("ann", "a")>>) EXCEPT !.repoExists = FALSE]

\* A task with a scenario of its own: the user retracts what ann and dan
\* write, bob logs.
Given(intents) ==
    [MCTask(<<PatchBy("ann", "a"), PatchBy("bob", "b")>>) EXCEPT
        !.given = <<Plain>> \o intents]

Corrected ==
    Given(<<Patch("ann", "m", "x"), Retract("dan", "m", "wrong"),
            [Patch("bob", "stream", "seen") EXCEPT !.op = "append_event"]>>)

\* An agent with one intent that commits and one that does not.
Divided ==
    Given(<<Patch("ann", "m", "x"), Patch("ann", "p", "x"),
            Patch("bob", "m", "y")>>)

MCTasks == {OnCommitment, OnSharedCommitment, OnOneFile, OnOneFileAlike,
            HalfWritten, WithoutItsFile, Untested, Twice, TwiceRevising,
            NoRepository, Corrected, Divided}

MCBatch(tasks, conditions) ==
    [tasks : {tasks}, conditions : {conditions}, applyReviewed : BOOLEAN,
     isolated : BOOLEAN]

\* A condition that has no policy comes second.
MCBatches ==
    UNION {MCBatch(<<t>>, <<c>>) : t \in MCTasks, c \in DOMAIN CONDITION_TO_POLICY}
    \cup MCBatch(<<OnCommitment>>, <<"adaptive_policy", "misspelt">>)
    \cup UNION {MCBatch(<<t, u>>,
                       <<"adaptive_policy", "adaptive_wccu_execution_trace">>) :
                t \in {OnCommitment, OnOneFile},
                u \in {NoRepository, OnOneFileAlike}}

\* The batches of the recommended condition alone.
CertifiedBatches ==
    {b \in MCBatches : b.conditions = <<"adaptive_wccu_execution_trace">>}
=============================================================================
