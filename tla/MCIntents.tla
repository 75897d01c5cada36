------------------------------ MODULE MCIntents ------------------------------
(***************************************************************************)
(* Constructors of the intents that the runs enumerate.                    *)
(***************************************************************************)
EXTENDS Certificate

Text(body) == [body |-> body, traits |-> {}]
Phrase(body, traits) == [body |-> body, traits |-> traits]
Reads(t) == <<[target |-> t, expected |-> "active", fresh |-> TRUE]>>

NoOverlap == [projection_trace |-> <<>>, execution_trace |-> <<>>]

\* A low-risk patch of memory t by an agent that states no certificate and no
\* commit mode.  It names its target as grounding will leave it.
Patch(id, t, body) ==
    [op |-> "patch_atom", named |-> t, target |-> t, file |-> "",
     ctype |-> "memory",
     risk |-> "low", auth |-> "", role |-> "agent", mergeability |-> "",
     status |-> "", text |-> Text(body), id |-> id, agent |-> id,
     grounded |-> TRUE, reads |-> <<>>, overlap |-> NoOverlap,
     cert |-> NoCert, own |-> "none"]

Retract(id, t, reason) ==
    [Patch(id, t, reason) EXCEPT !.op = "retract_atom", !.role = "user"]

\* A certificate that leaves everything to the runtime but the reads.
Cert(deps) ==
    [claimed |-> "", confident |-> TRUE, delta |-> "", actor |-> "",
     required |-> NotStated, reviewIfInvalid |-> TRUE, deps |-> deps]

-----------------------------------------------------------------------------
(* Memories m, k, p; the handoff h was derived from m; k is retracted.     *)

Atom(status, traits, from) ==
    [status |-> status, ctype |-> "memory", traits |-> traits, from |-> from]

MemorySeed == [m |-> Atom("active", {"requirement"}, {}),
               k |-> Atom("retracted", {}, {}),
               p |-> Atom("active", {}, {}),
               h |-> Atom("active", {}, {"m"})]

NoReads == [x \in {} |-> <<>>]

Plain == [seed |-> MemorySeed, invalidated |-> {}, declared |-> NoReads,
          disabled |-> {}]
=============================================================================
