------------------------- MODULE MCConflictResolver -------------------------
(***************************************************************************)
(* Small batches for TLC, in three workloads: writes of memories and the   *)
(* corrections and derived reads around them; writes of files and of       *)
(* policy atoms and the locks and gates they meet; single intents with     *)
(* every kind of claim in their certificates.                              *)
(***************************************************************************)
EXTENDS ConflictResolver, MCIntents

MCFileTarget == [x \in {"file:app"} |-> "app"]

-----------------------------------------------------------------------------
(* The memory runs. *)

Declaring == [Plain EXCEPT !.declared = [planner |-> Reads("m"),
                                         corrector |-> Reads("m")]]
FreshnessOff == [Plain EXCEPT !.disabled = {"O-FRESH"},
                              !.invalidated = {"p"}]

MemoryPool == {
    [Retract("corrector", "m", "wrong") EXCEPT !.cert = Cert(Reads("m"))],
    [Retract("second user", "m", "other") EXCEPT !.reads = Reads("k")],
    [Patch("writer", "m", "x") EXCEPT !.reads = Reads("m")],
    [Patch("rival", "m", "y") EXCEPT
        !.cert = [Cert(Reads("m")) EXCEPT !.claimed = "p",
                                          !.reviewIfInvalid = FALSE]],
    [Patch("planner", "p", "x") EXCEPT !.reads = Reads("m") \o Reads("p"),
                                       !.cert = Cert(Reads("m"))],
    [Patch("reader", "p", "x") EXCEPT !.reads = Reads("h")],
    [Patch("surveyor", "p", "x") EXCEPT
        !.reads = Reads("q") \o Reads("r") \o Reads("m")],
    [Patch("echo", "p", "y") EXCEPT !.grounded = FALSE,
        !.overlap = [projection_trace |-> <<>>,
                     execution_trace |-> Reads("m")]],
    [Patch("system", "m", "x") EXCEPT !.role = "system"],
    [Patch("logger", "stream", "seen") EXCEPT !.op = "append_event",
                                              !.reads = Reads("m")],
    [Patch("note", "m", "x") EXCEPT !.ctype = "review_note"],
    [Patch("softener", "m", "x") EXCEPT !.text = Phrase("x may", {"optionality"})]}

WccuModes == {"adaptive_wccu", "adaptive_wccu_oracle_dependency",
              "adaptive_wccu_projection_trace",
              "adaptive_wccu_execution_trace",
              "adaptive_wccu_no_read_validation"}

MemoryScenarios == {Plain, Declaring, FreshnessOff}

MemoryWorkload == [pool |-> MemoryPool, scenarios |-> MemoryScenarios,
                   modes |-> WccuModes, size |-> 3]

-----------------------------------------------------------------------------
(* The file app is named by its path or as a target; rule is a policy.     *)

FilePool == {
    [Patch("coder", "plan", "x") EXCEPT !.ctype = "artifact_plan",
                                        !.file = "app"],
    [Patch("builder", "file:app", "y") EXCEPT !.role = "builder"],
    [Patch("patcher", "file:app", "") EXCEPT !.cert =
        [Cert(<<>>) EXCEPT !.delta = "patch_memory"]],
    Retract("owner", "file:app", "bad"),
    [Patch("drafter", "plan", "z") EXCEPT !.ctype = "patch_plan"],
    [Patch("deployer", "rule", "x") EXCEPT !.ctype = "permission_policy",
                                           !.reads = Reads("file:app")],
    [Patch("launderer", "m", "x") EXCEPT
        !.text = Phrase("x unapproved", {"approval_bypass"}), !.risk = "high"],
    [Patch("logger", "stream", "seen") EXCEPT !.op = "append_event"],
    [Patch("corrector", "m", "off") EXCEPT !.status = "retracted",
                                           !.auth = "user", !.risk = "high"],
    Patch("writer", "m", "x")}

BaselineModes == {"adaptive", "adaptive_readset_occ", "uniform_append_only",
    "uniform_review_gated", "uniform_pessimistic_lock",
    "uniform_snapshot_occ", "adaptive_no_append_only",
    "adaptive_no_authority_rebase", "adaptive_no_review_gate",
    "adaptive_no_workspace_lock",
    "adaptive_no_semantic_conflict_detection", "adaptive_wccu"}

FileScenarios == {[Plain EXCEPT !.declared = [deployer |-> Reads("m")]]}

FileWorkload == [pool |-> FilePool, scenarios |-> FileScenarios,
                 modes |-> BaselineModes, size |-> 3]

-----------------------------------------------------------------------------
(* Single intents with every kind of claim in their certificates.          *)

ClaimCerts == {NoCert} \cup
    {[Cert(<<>>) EXCEPT !.actor = actor, !.required = required,
                        !.delta = delta, !.confident = confident] :
        actor \in {"", "user", "planner"},
        required \in {NotStated, "", "agent", "user"},
        delta \in {"", "weaken_rule", "retract_memory", "patch_memory"},
        confident \in BOOLEAN}

ClaimTexts == {Text("x"), Phrase("x relaxed", {"weakening_term"}),
               Phrase("x unapproved", {"approval_bypass"}),
               Phrase("x may", {"optionality"})}

ClaimPool ==
    {[Patch("claimant", target, "") EXCEPT
        !.op = op, !.role = role, !.cert = cert, !.text = text] :
        target \in {"m", "p"},
        op \in {"patch_atom", "retract_atom"},
        role \in {"agent", "researcher", "reviewer", "user", "planner"},
        cert \in ClaimCerts, text \in ClaimTexts}

ClaimModes == {"adaptive_wccu", "adaptive_wccu_no_read_validation"}

ClaimScenarios == {Plain, [Plain EXCEPT !.disabled = {"O-DELTA"}]}

ClaimWorkload == [pool |-> ClaimPool, scenarios |-> ClaimScenarios,
                  modes |-> ClaimModes, size |-> 1]

-----------------------------------------------------------------------------
(* What the runs instantiate the resolver with. *)

ClaimsOnly == {ClaimWorkload}
FilesOnly == {FileWorkload}

\* Single memory writes under the modes without certificates.
SelfReadWorkloads == {[MemoryWorkload EXCEPT !.modes = BaselineModes,
                                             !.size = 1]}
=============================================================================
