-------------------------- MODULE StoreOperations --------------------------
(***************************************************************************)
(* What one committed intent does to the content of the context store, and *)
(* which intents the store commits:                                        *)
(*   wccu_eval/substrate/context_substrate_store.py                        *)
(*   wccu_eval/substrate/context_commit_lanes.py                           *)
(*                                                                         *)
(* The content of the store is a record of two functions: from the ids of  *)
(* the atoms present to [status, body], of the links to their status.      *)
(* "item" is the id the store applies an intent to, "own" the commit mode  *)
(* the agent wrote on it, "requested" the one the merge stage chose.       *)
(***************************************************************************)

-----------------------------------------------------------------------------
(* classify_context_commit_lane.  A commit mode of the intent's own is     *)
(* stronger than the one the merge stage requested.                        *)

RequestedMode(i) ==
    IF i.own \in {"", "none", "null"} THEN i.requested ELSE i.own

CommitMode(i) ==
    CASE RequestedMode(i) \in {"blocked", "block", "reject"} -> "blocked"
      [] RequestedMode(i) \in {"proposal", "review_required"} ->
             "review_required"
      [] OTHER -> IF i.sensitive /\ ~i.forceAuto /\ RequestedMode(i) # "auto"
                  THEN "review_required" ELSE "auto"

-----------------------------------------------------------------------------
(* _apply_operation *)

Put(f, k, v) == [x \in DOMAIN f \cup {k} |-> IF x = k THEN v ELSE f[x]]

StatusOf(i) == IF i.status = "" THEN "active" ELSE i.status

\* A patch overwrites the whole atom, its status included, and creates the
\* atom when there is none; a retraction of an absent object does nothing, and
\* an event changes no object.
Apply(i, c) ==
    CASE i.op \in {"assert_atom", "upsert_atom", "patch_atom"} ->
             [c EXCEPT !.atoms =
                Put(@, i.item, [status |-> StatusOf(i), body |-> i.body])]
      [] i.op = "retract_atom" /\ i.item \in DOMAIN c.atoms ->
             [c EXCEPT !.atoms[i.item].status = "retracted"]
      [] i.op \in {"assert_link", "upsert_link", "patch_link", "link"} ->
             [c EXCEPT !.links = Put(@, i.item, StatusOf(i))]
      [] i.op \in {"unlink", "retract_link"} /\ i.item \in DOMAIN c.links ->
             [c EXCEPT !.links[i.item] = "retracted"]
      [] OTHER -> c
=============================================================================
