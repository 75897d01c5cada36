------------------------------ MODULE LlmOutput ------------------------------
(***************************************************************************)
(* From the text of a model's answer to write intents:                     *)
(*   wccu_eval/agents/llm_output_schema.py                                 *)
(* with the certificate an intent gets there (scheduler/wccu.py).          *)
(*                                                                         *)
(* A text is a record of its form, of whether it says something for a      *)
(* human (said), and of the drafts of its write intents.  A draft is what  *)
(* the model wrote: the operation, the target and link it names ("" for    *)
(* none), file, type, status, risk, authority, commit mode, its words and  *)
(* the ids its strings mention, and the parts of a certificate it states.  *)
(* A garbled draft has a number that is none.                              *)
(***************************************************************************)
EXTENDS Certificate, SequencesExt, TLC

ALLOWED_INTENT_TYPES ==
    {"append_event", "upsert_atom", "patch_atom", "retract_atom",
     "assert_link", "upsert_link", "patch_link", "retract_link"}

ALLOWED_RISK_LEVELS == {"low", "medium", "high", "critical"}

ALLOWED_AUTHORITIES ==
    {"agent", "researcher", "builder", "reviewer", "user", "system"}

MAX_INTENTS == 8

\* parse_json_object_from_text: one object, bare, fenced or followed by more.
IsObject(text) == text.form \in {"object", "fenced", "object then more"}

IntentType(d) ==
    CASE d.op = "assert_atom" -> "upsert_atom"
      [] d.op = "delete_atom" -> "retract_atom"
      [] d.op = "link"        -> "upsert_link"
      [] OTHER                -> d.op

Risk(d) == IF d.risk \in ALLOWED_RISK_LEVELS THEN d.risk ELSE "low"

LlmAuthority(d) == IF d.auth \in ALLOWED_AUTHORITIES THEN d.auth ELSE "agent"

\* A draft that names nothing but a file is about the file.
Named(d) == IF d.named # "" THEN d.named ELSE d.file

\* BUG: a certificate made up for the model vouches for its target.
MutMinimalCertificate(i) ==
    [claimed |-> "", confident |-> TRUE,
     delta |-> RuntimeDelta(i), actor |-> Authority(i),
     required |-> RuntimeRequiredAuthority(i),
     reviewIfInvalid |-> TRUE, deps |-> <<>>]

\* minimal_certificate, before grounding: the target is the one the model
\* named, with a confidence below the one asked for.
MinimalCertificate(i) ==
    [claimed |-> ActualTarget(i), confident |-> FALSE,
     delta |-> RuntimeDelta(i), actor |-> Authority(i),
     required |-> RuntimeRequiredAuthority(i),
     reviewIfInvalid |-> TRUE, deps |-> <<>>]

\* Reads that name no target are dropped.
StatedDeps(deps) ==
    LET naming == SelectSeq(deps, LAMBDA r : r.target # "")
    IN  [k \in DOMAIN naming |->
            [naming[k] EXCEPT !.expected = IF @ = "" THEN "active" ELSE @]]

\* normalize_certificate: what the model states replaces what is made up.
Certified(i, stated) ==
    LET made == MinimalCertificate(i)
        cert == [f \in DOMAIN made |->
                    IF f \in DOMAIN stated THEN stated[f] ELSE made[f]]
    IN  [cert EXCEPT
            !.delta = IF @ = "" THEN RuntimeDelta(i) ELSE @,
            !.deps  = StatedDeps(@)]

\* The k-th intent of an answer.
Normalize(d, agent, k) ==
    LET i == [op |-> IntentType(d), named |-> Named(d), target |-> Named(d),
              file |-> d.file, ctype |-> IF d.ctype = "" THEN "memory" ELSE d.ctype,
              risk |-> Risk(d), auth |-> LlmAuthority(d), role |-> agent.role,
              mergeability |-> "", status |-> d.status, text |-> d.text,
              id |-> IF d.id = "" THEN "intent_" \o ToString(k) ELSE d.id,
              agent |-> agent.id, grounded |-> FALSE,
              reads |-> <<>>, overlap |-> d.overlap, cert |-> NoCert,
              own |-> d.commitMode, mentions |-> d.mentions, words |-> d.words]
    IN  [i EXCEPT !.cert = Certified(i, d.cert)]

\* An event names a stream; a link may be named by its own id, and one that is
\* asserted need not be named.
NamesItsTarget(d) ==
    \/ Named(d) # ""
    \/ IntentType(d) = "assert_link"
    \/ d.link # "" /\ IntentType(d) # "append_event"

\* validate_llm_output_shape, and what raises on the way.
IsValid(text) ==
    /\ IsObject(text) /\ text.said
    /\ Len(text.intents) \in 1..MAX_INTENTS
    /\ \A d \in ToSet(text.intents) :
        /\ ~d.garbled
        /\ IntentType(d) \in ALLOWED_INTENT_TYPES
        /\ NamesItsTarget(d)

Normalized(text, agent) ==
    [k \in DOMAIN text.intents |-> Normalize(text.intents[k], agent, k)]
=============================================================================
