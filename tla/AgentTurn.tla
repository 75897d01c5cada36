------------------------------ MODULE AgentTurn ------------------------------
(***************************************************************************)
(* The turn of one LLM agent:                                              *)
(*   wccu_eval/agents/llm_agent.py                                         *)
(* and what becomes of its write intents until they are verified           *)
(* (DependencyWitness, TargetGrounder, Certificate).                       *)
(*                                                                         *)
(* The turn asks its provider for an answer and parses it; an answer that  *)
(* cannot be used is asked for again, up to parseRetries times.  Asking is *)
(* a sequence of HTTP calls of its own: one that fails in a way that may   *)
(* pass is repeated after a pause, up to providerRetries times.            *)
(***************************************************************************)
EXTENDS LlmOutput, TargetGrounder, DependencyWitness

CONSTANTS Turns,     \* records of a turn's agent, scenario and configuration
          Answers    \* what a provider may send back

\* Retries are counted from zero (llm_agent.py:528).
ASSUME TurnsAssumption ==
    \A t \in Turns :
        /\ t.parseRetries \in Nat /\ t.providerRetries \in Nat
        /\ t.witness.fakes \in Nat

\* The candidates are listed; a seeded atom without an id is none
\* (target_grounder.py:22).
ASSUME CandidatesAssumption ==
    \A t \in Turns :
        /\ t.candidates \in Seq(ToSet(t.candidates))
        /\ \A c \in ToSet(t.candidates) : c.id # ""

\* What is logged and declared of an agent's reads.
ReadsOf(t) ==
    {t.agent.scripted, t.agent.configured}
        \cup {Declared(t.scenario, name) : name \in {t.agent.id, t.agent.role, "*"}}

\* Reads are listed; each has a target, a status and a flag
\* (dependency_witness.py:63).
ASSUME ReadsOfTurnsAssumption ==
    \A t \in Turns : \A reads \in ReadsOf(t) :
        /\ reads \in Seq(ToSet(reads))
        /\ \A r \in ToSet(reads) : DOMAIN r = {"target", "expected", "fresh"}

VARIABLES turn,
          phase,     \* how far the turn is
          attempt,   \* how often it has asked for an answer
          tries,     \* the calls of this attempt that failed
          calls,     \* every call of the turn, as [attempt, answer]
          log,       \* the provider errors logged, as [answer, willRetry]
          text,      \* the text of the last answer
          intents,   \* the write intents of the turn
          witness,   \* the read witness compiled for them
          verdicts   \* of the verification, for each intent

asked == <<attempt, tries, calls, log>>
turnVars == <<turn, phase, asked, text, intents, witness, verdicts>>

LastPhases == {"failed", "verified"}
Phases == LastPhases \cup
    {"asking", "calling", "pausing", "parsing", "returned", "witnessed",
     "grounded"}

RETRYABLE_HTTP_STATUS ==
    {408, 409, 425, 429, 500, 502, 503, 504, 520, 521, 522, 523, 524}

PROVIDERS == {"openai", "openai-compatible", "gemini"}

NoAnswer == [form |-> "prose", said |-> FALSE, intents |-> <<>>]
NoWitness == [deps |-> <<>>, declared |-> 0, dropped |-> 0, fakes |-> 0]

-----------------------------------------------------------------------------
(* agent_model_override: an agent's own provider, else its role's, else    *)
(* everyone's, else the configured one.                                    *)

Overrides(t) == SelectSeq(<<t.agent.id, t.agent.role, "*", "default">>,
                          LAMBDA k : k \in DOMAIN t.specs)

Provider(t) == IF Overrides(t) = <<>> THEN t.provider
                                      ELSE t.specs[Head(Overrides(t))]

\* _is_retryable_http_status; a call without a status, because it timed out or
\* was answered with what is not JSON, may pass.
MayPass(answer) ==
    \/ answer.kind = "transport"
    \/ /\ answer.kind = "status"
       /\ answer.code \in RETRYABLE_HTTP_STATUS \/ answer.code >= 500

\* BUG: one call too many.
MutCallsAllowed == turn.providerRetries + 2

CallsAllowed == turn.providerRetries + 1

Again(answer) == MayPass(answer) /\ tries + 1 < CallsAllowed

LogRow(answer) == [answer |-> answer, willRetry |-> Again(answer)]

\* What the mock provider answers: the agent's scripted intents, else a report.
Report(agent) ==
    [op |-> "append_event", named |-> "mock_stream_" \o agent.id, link |-> "",
     file |-> "", ctype |-> "event", status |-> "", risk |-> "", auth |-> "",
     text |-> [body |-> agent.id, traits |-> {}], id |-> "", overlap |->
     [projection_trace |-> <<>>, execution_trace |-> <<>>], cert |-> <<>>,
     commitMode |-> "none", garbled |-> FALSE, mentions |-> <<>>, words |-> {}]

MockAnswer(agent) ==
    [form |-> "object", said |-> TRUE,
     intents |-> IF agent.output = <<>> THEN <<Report(agent)>> ELSE agent.output]

-----------------------------------------------------------------------------
TurnInit ==
    /\ turn \in Turns
    /\ phase = "asking" /\ attempt = 1 /\ tries = 0
    /\ calls = <<>> /\ log = <<>> /\ text = NoAnswer
    /\ intents = <<>> /\ witness = NoWitness /\ verdicts = <<>>

\* call_llm_provider: the mock answers at once; without a key, or with a
\* provider it does not know, the turn ends.
Ask ==
    /\ phase = "asking"
    /\ CASE Provider(turn) \in {"mock", "fixture"} ->
                /\ text' = MockAnswer(turn.agent) /\ phase' = "parsing"
         [] Provider(turn) \in PROVIDERS /\ turn.keyed ->
                phase' = "calling" /\ UNCHANGED text
         [] OTHER -> phase' = "failed" /\ UNCHANGED text
    /\ tries' = 0
    /\ UNCHANGED <<turn, attempt, calls, log, intents, witness, verdicts>>

\* An answer with a text.
ReceiveText ==
    /\ phase = "calling"
    /\ \E a \in Answers :
        /\ a.kind = "text"
        /\ calls' = Append(calls, [attempt |-> attempt, answer |-> a])
        /\ text' = a.text
    /\ phase' = "parsing"
    /\ UNCHANGED <<turn, attempt, tries, log, intents, witness, verdicts>>

\* _post_json: an error is logged, with whether the call will be repeated.
ReceiveError ==
    /\ phase = "calling"
    /\ \E a \in Answers :
        /\ a.kind \in {"status", "transport"}
        /\ calls' = Append(calls, [attempt |-> attempt, answer |-> a])
        /\ log' = IF turn.logged THEN Append(log, LogRow(a)) ELSE log
        /\ phase' = IF Again(a) THEN "pausing" ELSE "failed"
    /\ tries' = tries + 1
    /\ UNCHANGED <<turn, attempt, text, intents, witness, verdicts>>

\* An answer without a text, one of another shape, or a connection lost while
\* it is read: an exception of another type, which nothing catches.
ReceiveNothing ==
    /\ phase = "calling"
    /\ \E a \in Answers :
        /\ a.kind \in {"empty", "odd", "reset"}
        /\ calls' = Append(calls, [attempt |-> attempt, answer |-> a])
    /\ phase' = "failed"
    /\ UNCHANGED <<turn, attempt, tries, log, text, intents, witness, verdicts>>

\* BUG: the pause after the last retry never ends.
MutPause ==
    /\ phase = "pausing" /\ tries < turn.providerRetries
    /\ phase' = "calling"
    /\ UNCHANGED <<turn, asked, text, intents, witness, verdicts>>

Pause ==
    /\ phase = "pausing"
    /\ phase' = "calling"
    /\ UNCHANGED <<turn, asked, text, intents, witness, verdicts>>

Accept ==
    /\ phase = "parsing" /\ IsValid(text)
    /\ intents' = Normalized(text, turn.agent)
    /\ phase' = "returned"
    /\ UNCHANGED <<turn, asked, text, witness, verdicts>>

\* The whole provider call is made again, with the error in the prompt.
Reject ==
    /\ phase = "parsing" /\ ~IsValid(text)
    /\ IF attempt <= turn.parseRetries
       THEN attempt' = attempt + 1 /\ phase' = "asking"
       ELSE phase' = "failed" /\ UNCHANGED attempt
    /\ UNCHANGED <<turn, tries, calls, log, text, intents, witness, verdicts>>

\* attach_dependency_witness_to_result: which reads are dropped is random.
AttachWitness ==
    /\ phase = "returned"
    /\ LET deps    == Compiled(DeclaredReads(turn.agent, turn.scenario),
                               turn.shown)
           targets == {d.target : d \in ToSet(deps)}
       IN  \E dropped \in IF turn.witness.drops THEN SUBSET targets ELSE {{}} :
              IF turn.witness.enabled
              THEN /\ witness' = Witness(deps, dropped, turn.witness.fakes)
                   /\ intents' = [k \in DOMAIN intents |->
                        [intents[k] EXCEPT
                            !.reads = AsVerified(witness'.deps, turn.shown)]]
              ELSE UNCHANGED <<witness, intents>>
    /\ phase' = "witnessed"
    /\ UNCHANGED <<turn, asked, text, verdicts>>

\* ground_agent_results
GroundTargets ==
    /\ phase = "witnessed"
    /\ intents' = IF turn.grounding
                  THEN [k \in DOMAIN intents |->
                           Grounded(intents[k], turn.candidates)]
                  ELSE intents
    /\ phase' = "grounded"
    /\ UNCHANGED <<turn, asked, text, witness, verdicts>>

VerifyIntents ==
    /\ phase = "grounded"
    /\ verdicts' = [k \in DOMAIN intents |->
                       Verdict(intents, k, turn.mode, turn.scenario)]
    /\ phase' = "verified"
    /\ UNCHANGED <<turn, asked, text, intents, witness>>

RunAgent ==
    \/ Ask \/ ReceiveText \/ ReceiveError \/ ReceiveNothing \/ Pause
    \/ Accept \/ Reject

TurnNext == RunAgent \/ AttachWitness \/ GroundTargets \/ VerifyIntents

\* A call has a time limit, a pause has an end, and parsing is local.
TurnSpec == TurnInit /\ [][TurnNext]_turnVars /\ WF_turnVars(RunAgent)

-----------------------------------------------------------------------------
(* Properties. *)

\* A turn makes no more calls than its two kinds of retries allow together,
\* and only after an answer that it could not use or an error that may pass.
RetriesAreBounded ==
    /\ Len(calls) <= (turn.providerRetries + 1) * (turn.parseRetries + 1)
    /\ \A k \in DOMAIN calls : k < Len(calls) =>
        IF calls[k + 1].attempt = calls[k].attempt THEN MayPass(calls[k].answer)
        ELSE calls[k].answer.kind = "text" /\ ~IsValid(calls[k].answer.text)

Verified == phase = "verified" /\ CertificateMode(turn.mode) # "disabled"

Enforced == Verified /\ turn.scenario.disabled = {}

\* "older logs can omit it safely" (llm_output_schema.py:350): a state write
\* for which the model stated no certificate does not commit unseen, and where
\* grounding moved a write to another target, the model had named that target
\* in its certificate or left the claim blank.
UncertifiedWritesAreHeld ==
    Enforced => \A k \in DOMAIN intents :
        intents[k].op # "append_event" /\ ~Flagged(verdicts[k]) =>
            /\ text.intents[k].cert # <<>>
            /\ \/ intents[k].named \in {"", intents[k].target}
               \/ /\ "claimed" \in DOMAIN text.intents[k].cert
                  /\ text.intents[k].cert.claimed \in {"", intents[k].target}

\* However a read was declared (by the agent's output or configuration, for its
\* id, its role or everyone), an intent is held when what it read is
\* invalidated or written in the same batch, unless the witness dropped the
\* read or is longer than what is looked at.
StaleReadsAreHeld ==
    Enforced /\ turn.witness.enabled /\ ~turn.witness.drops
      /\ turn.mode = "adaptive_wccu_execution_trace"
      /\ Len(witness.deps) <= WITNESS_LIMIT =>
        \A k \in DOMAIN intents :
            \A r \in UNION {ToSet(reads) : reads \in ReadsOf(turn)} :
                /\ r.target \notin {"", intents[k].target}
                /\ \/ r.target \in turn.scenario.invalidated
                   \/ MutatorsOf(intents, k, r.target) # {}
                => Flagged(verdicts[k])

\* run_llm_agent ends, with intents or with an error.
TurnEnds == <>(phase \in {"returned", "failed"})
=============================================================================
