-------------------------- MODULE MCSubstrateStore --------------------------
(***************************************************************************)
(* Batches of up to two intents for TLC: writes of the seeded atom a and   *)
(* of an atom b and a link l that are not there yet, with the commit modes *)
(* an agent or the merge stage may have put on them.                       *)
(***************************************************************************)
EXTENDS SubstrateStore

MCSeed == [atoms |-> [x \in {"a"} |-> [status |-> "active", body |-> "0"]],
           links |-> NoItems]

Intent(op, item, body, requested) ==
    [op |-> op, item |-> item, body |-> body, status |-> "", own |-> "none",
     requested |-> requested, forceAuto |-> FALSE, sensitive |-> FALSE]

Pool == {
    Intent("patch_atom", "a", "1", "auto"),
    Intent("retract_atom", "a", "", "auto"),
    [Intent("upsert_atom", "b", "1", "auto") EXCEPT !.own = "review_required"],
    [Intent("patch_atom", "b", "2", "") EXCEPT !.status = "proposed",
                                               !.forceAuto = TRUE],
    Intent("retract_atom", "b", "", "review_required"),
    Intent("patch_atom", "a", "2", "blocked"),
    Intent("patch_link", "l", "", "auto"),
    [Intent("unlink", "l", "", "") EXCEPT !.sensitive = TRUE]}

MCBatches == {<<>>} \cup {<<i>> : i \in Pool} \cup {<<i, j>> : i, j \in Pool}

\* A batch that commits, one that records and commits, and one that only
\* records.
CrashBatches == {
    <<Intent("patch_atom", "a", "1", "auto"),
      Intent("patch_link", "l", "", "auto")>>,
    <<Intent("retract_atom", "b", "", "review_required"),
      Intent("retract_atom", "a", "", "auto")>>,
    <<Intent("patch_atom", "a", "2", "blocked")>>}
=============================================================================
