--------------------------- MODULE AgentTurn_proofs ---------------------------
(***************************************************************************)
(* However its provider behaves, the turn of an agent ends within the      *)
(* calls that its two kinds of retries allow together, and each call but   *)
(* the first is made for a reason.  However its model answers, what it did *)
(* not certify, or certified of another target, is held.                   *)
(***************************************************************************)
EXTENDS AgentTurn, TLAPS, WellFoundedInduction, FiniteSetTheorems

PerAttempt == turn.providerRetries + 1

Latest == calls[Len(calls)]

Calls == [attempt : Nat, answer : Answers]

Rejected(call) == call.answer.kind = "text" /\ ~IsValid(call.answer.text)

\* Why a call is followed by another one.
Reason(call, next) ==
    IF next.attempt = call.attempt THEN MayPass(call.answer) ELSE Rejected(call)

Typed ==
    /\ turn \in Turns
    /\ phase \in Phases
    /\ attempt \in 1..(turn.parseRetries + 1)
    /\ tries \in Nat
    /\ calls \in Seq(Calls)

\* A provider that is called once is called in every attempt.
Served == calls # <<>> => Provider(turn) \in PROVIDERS

Reasoned == \A k \in 1..(Len(calls) - 1) : Reason(calls[k], calls[k + 1])

\* The last call belongs to an earlier attempt and its answer was rejected,
\* or it belongs to this one and may be repeated.
Before == calls # <<>> => Latest.attempt < attempt /\ Rejected(Latest)

Within ==
    /\ calls # <<>> => Latest.attempt <= attempt
    /\ calls # <<>> => IF Latest.attempt = attempt THEN MayPass(Latest.answer)
                                                   ELSE Rejected(Latest)

\* What was asked for in the earlier attempts.
Spent == (attempt - 1) * PerAttempt

Asking  == Len(calls) <= Spent /\ Before
Calling == /\ Len(calls) <= Spent + tries
           /\ tries < PerAttempt
           /\ Provider(turn) \in PROVIDERS
           /\ Within
Parsing == /\ Len(calls) <= Spent + PerAttempt
           /\ calls # <<>> => /\ Latest.attempt = attempt
                              /\ Latest.answer.kind = "text"
                              /\ Latest.answer.text = text

Bounded == Len(calls) <= Spent + PerAttempt

TInv ==
    /\ Typed /\ Served /\ Reasoned /\ Bounded
    /\ phase = "asking" => Asking
    /\ phase \in {"calling", "pausing"} => Calling
    /\ phase = "parsing" => Parsing

-----------------------------------------------------------------------------
LEMMA BudgetType ==
  ASSUME turn \in Turns
  PROVE  /\ turn.parseRetries \in Nat /\ turn.providerRetries \in Nat
         /\ PerAttempt \in Nat /\ PerAttempt >= 1
<1>1. turn.parseRetries \in Nat /\ turn.providerRetries \in Nat
  BY TurnsAssumption
<1> QED
  BY <1>1 DEF PerAttempt

\* The calls of one more attempt.
LEMMA NextAttempt ==
  ASSUME NEW a \in Nat, NEW p \in Nat
  PROVE  /\ a \in Nat => a * p \in Nat
         /\ (a + 1) * p = a * p + p
OBVIOUS

\* No attempt leaves the budget of all of them.
LEMMA BudgetGrows ==
  ASSUME NEW a \in Nat, NEW b \in Nat, NEW p \in Nat, a <= b
  PROVE  a * p <= b * p
<1>1. PICK d \in Nat : b = a + d
  <2>1. b - a \in Nat /\ b = a + (b - a)
    OBVIOUS
  <2> QED
    BY <2>1
<1>2. b * p = a * p + d * p
  BY <1>1
<1>3. d * p \in Nat /\ a * p \in Nat
  OBVIOUS
<1> QED
  BY <1>2, <1>3

\* A call that was made for a reason keeps every call so.
LEMMA OneMoreCall ==
  ASSUME Typed, Reasoned, Within, NEW a \in Answers,
         calls' = Append(calls, [attempt |-> attempt, answer |-> a])
  PROVE  /\ calls' \in Seq(Calls)
         /\ Reasoned' /\ calls' # <<>>
         /\ Len(calls') = Len(calls) + 1
         /\ calls'[Len(calls')] = [attempt |-> attempt, answer |-> a]
<1> DEFINE call == [attempt |-> attempt, answer |-> a]
<1>1. attempt \in Nat /\ turn \in Turns /\ turn.parseRetries \in Nat
  BY BudgetType DEF Typed
<1>2. call \in Calls
  BY <1>1 DEF Calls
<1> HIDE DEF call
<1>3. calls \in Seq(Calls) /\ calls' = Append(calls, call)
  BY DEF Typed, call
<1>4. /\ calls' \in Seq(Calls)
      /\ Len(calls') = Len(calls) + 1 /\ Len(calls) \in Nat
      /\ calls'[Len(calls) + 1] = call
      /\ \A k \in 1..Len(calls) : calls'[k] = calls[k]
  BY <1>2, <1>3
<1>5. Reasoned'
  <2> SUFFICES ASSUME NEW k \in 1..Len(calls)
               PROVE  Reason(calls'[k], calls'[k + 1])
    BY <1>4 DEF Reasoned, Reason, Rejected
  <2>1. CASE k < Len(calls)
    <3>1. k \in 1..(Len(calls) - 1) /\ k + 1 \in 1..Len(calls)
      BY <2>1, <1>4
    <3>2. calls'[k] = calls[k] /\ calls'[k + 1] = calls[k + 1]
      BY <3>1, <1>4
    <3> QED
      BY <3>1, <3>2 DEF Reasoned
  <2>2. CASE k = Len(calls)
    <3>1. calls # <<>> /\ calls'[k] = Latest /\ calls'[k + 1] = call
      BY <2>2, <1>3, <1>4 DEF Latest
    <3>2. call.attempt = attempt
      BY DEF call
    <3> QED
      BY <3>1, <3>2 DEF Within, Reason
  <2> QED
    BY <2>1, <2>2, <1>4
<1> QED
  BY <1>4, <1>5 DEF call

-----------------------------------------------------------------------------
LEMMA TurnStarts == TurnInit => TInv
<1> SUFFICES ASSUME TurnInit PROVE TInv
  OBVIOUS
<1>1. /\ turn.parseRetries \in Nat /\ turn.providerRetries \in Nat
      /\ PerAttempt \in Nat /\ PerAttempt >= 1
  BY BudgetType DEF TurnInit
<1>2. calls = <<>> /\ Len(calls) = 0 /\ attempt = 1 /\ tries = 0 /\ phase = "asking"
  BY DEF TurnInit
<1>3. Spent = 0
  BY <1>1, <1>2 DEF Spent
<1>4. Typed
  BY <1>1, <1>2 DEF TurnInit, Typed, Phases
<1>5. Reasoned
  BY <1>2 DEF Reasoned
<1> QED
  BY <1>1, <1>2, <1>3, <1>4, <1>5 DEF TInv, Served, Bounded, Asking, Before

\* The facts about the budget that each step uses.
LEMMA Budget ==
  ASSUME Typed
  PROVE  /\ turn \in Turns /\ turn.parseRetries \in Nat
         /\ PerAttempt \in Nat /\ PerAttempt >= 1
         /\ attempt \in Nat /\ attempt >= 1 /\ attempt <= turn.parseRetries + 1
         /\ Spent \in Nat /\ Len(calls) \in Nat /\ tries \in Nat
<1>1. /\ turn \in Turns /\ turn.parseRetries \in Nat
      /\ PerAttempt \in Nat /\ PerAttempt >= 1
  BY BudgetType DEF Typed
<1>2. attempt \in Nat /\ attempt >= 1 /\ attempt <= turn.parseRetries + 1
  BY <1>1 DEF Typed
<1>3. Spent \in Nat
  <2>1. attempt - 1 \in Nat
    BY <1>2
  <2> QED
    BY <2>1, <1>1 DEF Spent
<1> QED
  BY <1>1, <1>2, <1>3 DEF Typed

LEMMA LatestIsACall ==
  ASSUME Typed, calls # <<>>
  PROVE  Latest \in Calls
<1>1. calls \in Seq(Calls) /\ Len(calls) \in 1..Len(calls)
  BY DEF Typed
<1> QED
  BY <1>1 DEF Latest

LEMMA AskKeeps ==
  ASSUME TInv, Ask
  PROVE  TInv'
<1> USE DEF TInv
<1>1. /\ UNCHANGED <<turn, attempt, calls>> /\ phase = "asking" /\ tries' = 0
      /\ phase' \in {"parsing", "calling", "failed"}
  BY DEF Ask
<1>2. Typed'
  BY <1>1 DEF Typed, Phases, LastPhases
<1>3. Served' /\ Reasoned' /\ Bounded'
  BY <1>1 DEF Served, Reasoned, Reason, Rejected, Bounded, Spent, PerAttempt
<1>4. Asking
  BY <1>1
<1>5. CASE phase' = "parsing"
  <2>1. Provider(turn) \in {"mock", "fixture"}
    BY <1>5 DEF Ask
  <2>2. calls = <<>>
    BY <2>1 DEF Served, PROVIDERS
  <2>3. Parsing'
    BY <2>2, <1>1, Budget DEF Parsing, Spent, PerAttempt
  <2> QED
    BY <1>2, <1>3, <1>5, <2>3
<1>6. CASE phase' = "calling"
  <2>1. Provider(turn) \in PROVIDERS
    BY <1>6 DEF Ask
  <2>2. Within'
    <3>1. attempt \in Nat /\ (calls # <<>> => Latest.attempt \in Nat)
      BY LatestIsACall, Budget DEF Calls
    <3>2. calls # <<>> => Latest.attempt < attempt /\ Rejected(Latest)
      BY <1>4 DEF Asking, Before
    <3>3. Within
      BY <3>1, <3>2 DEF Within
    <3> QED
      BY <3>3, <1>1 DEF Within, Latest, Rejected
  <2>3. Calling'
    BY <2>1, <2>2, <1>1, <1>4, Budget DEF Calling, Asking, Spent, PerAttempt
  <2> QED
    BY <1>2, <1>3, <1>6, <2>3
<1>7. CASE phase' = "failed"
  BY <1>2, <1>3, <1>7
<1> QED
  BY <1>1, <1>5, <1>6, <1>7

\* What any answer of a call leaves behind.
LEMMA CallKeeps ==
  ASSUME TInv, phase = "calling", NEW a \in Answers,
         calls' = Append(calls, [attempt |-> attempt, answer |-> a]),
         UNCHANGED <<turn, attempt>>, tries' \in Nat, phase' \in Phases
  PROVE  /\ Typed' /\ Served' /\ Reasoned' /\ Bounded'
         /\ Len(calls') <= Spent' + tries + 1
         /\ calls' # <<>>
         /\ Latest' = [attempt |-> attempt, answer |-> a]
<1>1. Calling /\ Within /\ Typed /\ Reasoned
  BY DEF TInv, Calling
<1>2. /\ calls' \in Seq(Calls)
      /\ Reasoned' /\ calls' # <<>>
      /\ Len(calls') = Len(calls) + 1
      /\ Latest' = [attempt |-> attempt, answer |-> a]
  BY <1>1, OneMoreCall DEF Latest
<1>3. Typed'
  BY <1>1, <1>2 DEF Typed
<1>4. Served'
  BY <1>1 DEF Served, Calling
<1>5. Spent' = Spent /\ PerAttempt' = PerAttempt
  BY DEF Spent, PerAttempt
<1>6. Len(calls) <= Spent + tries /\ tries < PerAttempt
  BY <1>1 DEF Calling
<1>7. Len(calls') <= Spent + tries + 1 /\ Len(calls') <= Spent + PerAttempt
  BY <1>1, <1>2, <1>6, Budget
<1> QED
  BY <1>2, <1>3, <1>4, <1>5, <1>7 DEF Bounded

LEMMA ReceiveTextKeeps ==
  ASSUME TInv, ReceiveText
  PROVE  TInv'
<1>1. PICK a \in Answers : a.kind = "text" /\ text' = a.text
                           /\ calls' = Append(calls, [attempt |-> attempt, answer |-> a])
  BY DEF ReceiveText
<1>2. phase = "calling" /\ phase' = "parsing" /\ UNCHANGED <<turn, attempt, tries>>
  BY DEF ReceiveText
<1>3. tries' \in Nat /\ phase' \in Phases
  BY <1>2 DEF TInv, Typed, Phases
<1>4. /\ Typed' /\ Served' /\ Reasoned' /\ Bounded'
      /\ Latest' = [attempt |-> attempt, answer |-> a]
  BY <1>1, <1>2, <1>3, CallKeeps
<1>5. Parsing'
  BY <1>1, <1>2, <1>4 DEF Parsing, Bounded
<1> QED
  BY <1>2, <1>4, <1>5 DEF TInv

LEMMA ReceiveErrorKeeps ==
  ASSUME TInv, ReceiveError
  PROVE  TInv'
<1>1. PICK a \in Answers :
        /\ calls' = Append(calls, [attempt |-> attempt, answer |-> a])
        /\ phase' = IF Again(a) THEN "pausing" ELSE "failed"
  BY DEF ReceiveError
<1>2. phase = "calling" /\ tries' = tries + 1 /\ UNCHANGED <<turn, attempt>>
  BY DEF ReceiveError
<1>3. tries' \in Nat /\ phase' \in Phases
  BY <1>1, <1>2 DEF TInv, Typed, Phases, LastPhases
<1>4. /\ Typed' /\ Served' /\ Reasoned' /\ Bounded'
      /\ Len(calls') <= Spent' + tries + 1
      /\ calls' # <<>>
      /\ Latest' = [attempt |-> attempt, answer |-> a]
  BY <1>1, <1>2, <1>3, CallKeeps
<1>5. CASE Again(a)
  <2>1. MayPass(a) /\ tries + 1 < PerAttempt
    BY <1>5 DEF Again, CallsAllowed, PerAttempt
  <2>2. PerAttempt' = PerAttempt /\ Provider(turn) \in PROVIDERS /\ attempt \in Nat
    BY <1>2, Budget DEF PerAttempt, TInv, Calling
  <2>3. Within'
    BY <2>1, <2>2, <1>2, <1>4 DEF Within
  <2>4. Len(calls') <= Spent' + tries' /\ tries' < PerAttempt'
    <3>1. Spent' \in Nat /\ tries \in Nat /\ Len(calls') \in Nat
      BY <1>2, <1>4, Budget DEF TInv, Spent, PerAttempt, Typed
    <3> QED
      BY <3>1, <2>1, <2>2, <1>2, <1>4
  <2>5. Calling'
    BY <2>2, <2>3, <2>4, <1>2 DEF Calling
  <2> QED
    BY <2>5, <1>1, <1>4, <1>5 DEF TInv
<1>6. CASE ~Again(a)
  BY <1>1, <1>4, <1>6 DEF TInv
<1> QED
  BY <1>5, <1>6

LEMMA ReceiveNothingKeeps ==
  ASSUME TInv, ReceiveNothing
  PROVE  TInv'
<1>1. PICK a \in Answers :
        calls' = Append(calls, [attempt |-> attempt, answer |-> a])
  BY DEF ReceiveNothing
<1>2. phase = "calling" /\ phase' = "failed" /\ UNCHANGED <<turn, attempt, tries>>
  BY DEF ReceiveNothing
<1>3. tries' \in Nat /\ phase' \in Phases
  BY <1>2 DEF TInv, Typed, Phases, LastPhases
<1>4. Typed' /\ Served' /\ Reasoned' /\ Bounded'
  BY <1>1, <1>2, <1>3, CallKeeps
<1> QED
  BY <1>2, <1>4 DEF TInv

\* A step that makes no call and starts no attempt keeps what is known of both.
LEMMA CallsStay ==
  ASSUME TInv, UNCHANGED <<turn, attempt, tries, calls>>, phase' \in Phases
  PROVE  /\ Typed' /\ Served' /\ Reasoned' /\ Bounded'
         /\ Calling => Calling'
<1>1. Typed' /\ Served' /\ Reasoned' /\ Bounded'
  BY DEF TInv, Typed, Served, Reasoned, Reason, Rejected, Bounded, Spent, PerAttempt
<1> QED
  BY <1>1 DEF Calling, Within, Latest, Rejected, Spent, PerAttempt

LEMMA PauseKeeps ==
  ASSUME TInv, Pause
  PROVE  TInv'
<1>1. /\ UNCHANGED <<turn, attempt, tries, calls>> /\ phase = "pausing"
      /\ phase' = "calling" /\ phase' \in Phases
  BY DEF Pause, asked, Phases
<1>2. /\ Typed' /\ Served' /\ Reasoned' /\ Bounded' /\ (Calling => Calling')
  BY <1>1, CallsStay
<1> QED
  BY <1>1, <1>2 DEF TInv

LEMMA RejectKeeps ==
  ASSUME TInv, Reject
  PROVE  TInv'
<1>1. UNCHANGED <<turn, tries, calls>> /\ phase = "parsing" /\ ~IsValid(text)
  BY DEF Reject
<1>2. Typed /\ Parsing /\ Served /\ Reasoned
  BY <1>1 DEF TInv
<1>3. CASE attempt <= turn.parseRetries
  <2>1. attempt' = attempt + 1 /\ phase' = "asking"
    BY <1>3 DEF Reject
  <2>2. Spent' = Spent + PerAttempt /\ PerAttempt' = PerAttempt
    <3>1. /\ attempt - 1 \in Nat /\ PerAttempt \in Nat
          /\ attempt' - 1 = (attempt - 1) + 1
      BY <1>2, <2>1, Budget
    <3>2. ((attempt - 1) + 1) * PerAttempt = (attempt - 1) * PerAttempt + PerAttempt
      BY <3>1, NextAttempt
    <3>3. PerAttempt' = PerAttempt
      BY <1>1 DEF PerAttempt
    <3> QED
      BY <3>1, <3>2, <3>3 DEF Spent
  <2>3. Before'
    <3>1. calls # <<>> => Latest.attempt = attempt /\ Rejected(Latest)
      BY <1>1, <1>2 DEF Parsing, Rejected
    <3>2. attempt \in Nat
      BY <1>2, Budget
    <3> QED
      BY <3>1, <3>2, <2>1, <1>1 DEF Before, Latest, Rejected
  <2>4. Asking'
    BY <2>2, <2>3, <1>1, <1>2 DEF Asking, Parsing
  <2>5. Typed'
    BY <2>1, <1>1, <1>2, <1>3, Budget DEF Typed, Phases
  <2>6. Served' /\ Reasoned'
    BY <1>1, <1>2 DEF Served, Reasoned, Reason, Rejected
  <2>7. Bounded'
    <3>1. Len(calls') <= Spent' /\ Spent' \in Nat /\ PerAttempt' \in Nat
      BY <2>2, <2>4, <1>2, Budget DEF Asking
    <3>2. Len(calls') \in Nat
      BY <1>1, <1>2, Budget
    <3> QED
      BY <3>1, <3>2 DEF Bounded
  <2> QED
    BY <2>1, <2>4, <2>5, <2>6, <2>7 DEF TInv
<1>4. CASE ~(attempt <= turn.parseRetries)
  <2>1. attempt' = attempt /\ phase' = "failed" /\ phase' \in Phases
    BY <1>4 DEF Reject, Phases, LastPhases
  <2>2. Typed' /\ Served' /\ Reasoned' /\ Bounded'
    BY <2>1, <1>1, CallsStay
  <2> QED
    BY <2>1, <2>2 DEF TInv
<1> QED
  BY <1>3, <1>4

\* Nothing is asked for any more once an answer was accepted.
LEMMA LaterKeeps ==
  ASSUME TInv, Accept \/ AttachWitness \/ GroundTargets \/ VerifyIntents
  PROVE  TInv'
<1>1. /\ UNCHANGED <<turn, attempt, tries, calls>>
      /\ phase' \in {"returned", "witnessed", "grounded", "verified"}
  BY DEF Accept, AttachWitness, GroundTargets, VerifyIntents, asked
<1>2. phase' \in Phases
  BY <1>1 DEF Phases, LastPhases
<1>3. Typed' /\ Served' /\ Reasoned' /\ Bounded'
  BY <1>1, <1>2, CallsStay
<1> QED
  BY <1>1, <1>3 DEF TInv

LEMMA TurnContinues == TInv /\ [TurnNext]_turnVars => TInv'
<1> SUFFICES ASSUME TInv, [TurnNext]_turnVars PROVE TInv'
  OBVIOUS
<1>1. CASE UNCHANGED turnVars
  <2>1. /\ UNCHANGED <<turn, attempt, tries, calls, phase, text>>
        /\ phase' \in Phases
    BY <1>1 DEF turnVars, asked, TInv, Typed
  <2>2. Typed' /\ Served' /\ Reasoned' /\ Bounded' /\ (Calling => Calling')
    BY <2>1, CallsStay
  <2>3. (Asking => Asking') /\ (Parsing => Parsing')
    BY <2>1 DEF Asking, Parsing, Before, Latest, Rejected, Spent, PerAttempt
  <2> QED
    BY <2>1, <2>2, <2>3 DEF TInv
<1>2. CASE RunAgent
  BY <1>2, AskKeeps, ReceiveTextKeeps, ReceiveErrorKeeps, ReceiveNothingKeeps,
     PauseKeeps, RejectKeeps, LaterKeeps DEF RunAgent
<1> QED
  BY <1>1, <1>2, LaterKeeps DEF TurnNext

LEMMA TurnBounds == TInv => RetriesAreBounded
<1> SUFFICES ASSUME TInv PROVE RetriesAreBounded
  OBVIOUS
<1>1. Typed /\ Bounded /\ Reasoned
  BY DEF TInv
<1>2. Len(calls) <= PerAttempt * (turn.parseRetries + 1)
  <2>1. /\ attempt - 1 \in Nat /\ attempt - 1 <= turn.parseRetries
        /\ turn.parseRetries \in Nat /\ PerAttempt \in Nat
    BY <1>1, Budget
  <2>2. (attempt - 1) * PerAttempt <= turn.parseRetries * PerAttempt
    BY <2>1, BudgetGrows
  <2>3. /\ (turn.parseRetries + 1) * PerAttempt
             = turn.parseRetries * PerAttempt + PerAttempt
        /\ turn.parseRetries * PerAttempt \in Nat
    BY <2>1, NextAttempt
  <2>4. PerAttempt * (turn.parseRetries + 1) = (turn.parseRetries + 1) * PerAttempt
    BY <2>1
  <2>5. Len(calls) <= (attempt - 1) * PerAttempt + PerAttempt
    BY <1>1 DEF Bounded, Spent
  <2>6. (attempt - 1) * PerAttempt \in Nat /\ Len(calls) \in Nat
    BY <1>1, Budget DEF Spent
  <2>7. Len(calls) <= turn.parseRetries * PerAttempt + PerAttempt
    BY <2>1, <2>2, <2>3, <2>5, <2>6
  <2> QED
    BY <2>3, <2>4, <2>7
<1>3. ASSUME NEW k \in DOMAIN calls, k < Len(calls)
      PROVE  Reason(calls[k], calls[k + 1])
  <2>1. k \in 1..(Len(calls) - 1)
    BY <1>1, <1>3 DEF Typed
  <2> QED
    BY <2>1, <1>1 DEF Reasoned
<1> QED
  BY <1>2, <1>3 DEF RetriesAreBounded, PerAttempt, Reason, Rejected

\* However the provider behaves, run_llm_agent (llm_agent.py:544) together
\* with _post_json makes no more calls than their two retry limits allow
\* together, and a call follows another one only if that one failed in a way
\* that may pass, or its answer could not be used.
THEOREM CallsAreBounded == TurnSpec => []RetriesAreBounded
<1>1. TurnSpec => []TInv
  BY TurnStarts, TurnContinues, PTL DEF TurnSpec
<1> QED
  BY <1>1, TurnBounds, PTL

-----------------------------------------------------------------------------
(* From a draft to a verdict. *)

Answered == phase \in {"returned", "witnessed", "grounded", "verified"}

IntentFields == {"op", "named", "target", "file", "ctype", "grounded", "reads",
                 "cert"}

\* A certificate says no more than the draft: one that was made up for it is
\* not confident and claims the target the draft named.
Vouches(i, d) ==
    /\ "confident" \in DOMAIN i.cert
    /\ d.cert = <<>> => ~i.cert.confident
    /\ i.cert.claimed = IF "claimed" \in DOMAIN d.cert THEN d.cert.claimed
                                                     ELSE i.named

\* Grounding moves an intent to an atom that has an id, or not at all; an intent
\* of a file has a target.
Placed(i) ==
    /\ i.target = i.named \/ i.target # ""
    /\ i.target = "" => i.file = ""

CarriedFrom(i, d) ==
    /\ IntentFields \subseteq DOMAIN i
    /\ Vouches(i, d) /\ Placed(i)

Carried ==
    /\ DOMAIN intents \subseteq DOMAIN text.intents
    /\ \A k \in DOMAIN intents : CarriedFrom(intents[k], text.intents[k])

VerdictsGiven ==
    \A k \in DOMAIN intents :
        verdicts[k] = Verdict(intents, k, turn.mode, turn.scenario)

VInv ==
    /\ turn \in Turns
    /\ Answered => Carried
    /\ phase = "verified" => VerdictsGiven

LEMMA DraftIsCarried ==
  ASSUME NEW d, NEW agent, NEW k
  PROVE  CarriedFrom(Normalize(d, agent, k), d)
<1> DEFINE i == [op |-> IntentType(d), named |-> Named(d), target |-> Named(d),
              file |-> d.file, ctype |-> IF d.ctype = "" THEN "memory" ELSE d.ctype,
              risk |-> Risk(d), auth |-> LlmAuthority(d), role |-> agent.role,
              mergeability |-> "", status |-> d.status, text |-> d.text,
              id |-> IF d.id = "" THEN "intent_" \o ToString(k) ELSE d.id,
              agent |-> agent.id, grounded |-> FALSE,
              reads |-> <<>>, overlap |-> d.overlap, cert |-> NoCert,
              own |-> d.commitMode, mentions |-> d.mentions, words |-> d.words]
           c == Certified(i, d.cert)
<1>1. i.named = Named(d) /\ i.target = Named(d) /\ i.file = d.file
  OBVIOUS
<1>2. ActualTarget(i) = Named(d)
  BY <1>1 DEF ActualTarget, Named
<1>3. Normalize(d, agent, k) = [i EXCEPT !.cert = c]
  BY DEF Normalize
<1>4. IntentFields \subseteq DOMAIN i
  BY DEF IntentFields
<1>5. i.cert = NoCert /\ "cert" \in DOMAIN i
  OBVIOUS
<1> HIDE DEF i
<1>6. /\ "confident" \in DOMAIN c
      /\ c.claimed = IF "claimed" \in DOMAIN d.cert THEN d.cert.claimed
                                                   ELSE Named(d)
      /\ c.confident = IF "confident" \in DOMAIN d.cert THEN d.cert.confident
                                                       ELSE FALSE
  BY <1>2 DEF Certified, MinimalCertificate
<1>7. d.cert = <<>> => c.confident = FALSE
  BY <1>6
<1> HIDE DEF c
<1>8. Named(d) = "" => d.file = ""
  BY DEF Named
<1> QED
  BY <1>1, <1>3, <1>4, <1>5, <1>6, <1>7, <1>8
     DEF CarriedFrom, Vouches, Placed, IntentFields

\* A search finds a place of the sequence, or none.
LEMMA FirstPlace ==
  ASSUME NEW I \in SUBSET Nat, I # {}
  PROVE  Min(I) \in I
<1>1. PICK m \in I : \A k \in I : ~(<<k, m>> \in OpToRel(<, Nat))
  BY NatLessThanWellFounded, WFMin
<1>2. \A k \in I : ~(k < m)
  BY <1>1 DEF OpToRel
<1>3. \A k \in I : m <= k
  BY <1>2
<1> QED
  BY <1>3 DEF Min

\* Where an intent is grounded to is a place of the list, or none.
LEMMA GroundsInList ==
  ASSUME NEW S, NEW candidates \in Seq(S), NEW i
  PROVE  LET to == Grounding(i, candidates).to
         IN  to # 0 => candidates[to] \in S
<1> DEFINE places == 1..Len(candidates)
<1>1. places \in SUBSET Nat
  OBVIOUS
<1> HIDE DEF places
<1>2. \A P \in SUBSET places : P # {} => Min(P) \in places
  BY <1>1, FirstPlace
<1> USE DEF places
<1>3. \A m : NamedBy(m, candidates) \in {0} \cup places
  BY <1>2 DEF NamedBy, SelectInSeq
<1>4. Best(i, candidates) \in {0} \cup places
  BY <1>2 DEF Best, SelectInSeq
<1>5. SelectInSeq(candidates, LAMBDA c : FileHint(i) \in c.files)
        \in {0} \cup places
  BY <1>2 DEF SelectInSeq
<1> HIDE DEF places
<1>6. Grounding(i, candidates).to \in {0} \cup places
  BY <1>3, <1>4, <1>5 DEF Grounding
<1>7. \A k \in places : candidates[k] \in S
  BY DEF places
<1> QED
  BY <1>6, <1>7

LEMMA GroundedIsCarried ==
  ASSUME NEW S, NEW candidates \in Seq(S), \A x \in S : x.id # "",
         NEW i, NEW d, CarriedFrom(i, d)
  PROVE  CarriedFrom(Grounded(i, candidates), d)
<1> DEFINE to == Grounding(i, candidates).to
           at == candidates[to]
           g  == Grounded(i, candidates)
<1>1. CASE to = 0
  BY <1>1 DEF Grounded
<1>2. CASE to # 0
  <2>1. at \in S
    BY <1>2, GroundsInList
  <2>2. /\ g.target = at.id /\ g.named = i.named /\ g.cert = i.cert
        /\ DOMAIN g = DOMAIN i
    BY <1>2 DEF Grounded, CarriedFrom, IntentFields
  <2> QED
    BY <2>1, <2>2 DEF CarriedFrom, Vouches, Placed
<1> QED
  BY <1>1, <1>2

LEMMA VerdictsStart == TurnInit => VInv
BY DEF TurnInit, VInv, Answered

LEMMA AcceptCarries ==
  ASSUME VInv, Accept
  PROVE  VInv'
<1>1. /\ intents' = Normalized(text, turn.agent)
      /\ UNCHANGED <<turn, text>> /\ phase' = "returned"
  BY DEF Accept, asked
<1>2. /\ DOMAIN intents' = DOMAIN text.intents
      /\ \A k \in DOMAIN intents' :
            intents'[k] = Normalize(text.intents[k], turn.agent, k)
  BY <1>1 DEF Normalized
<1>3. \A k \in DOMAIN intents' : CarriedFrom(intents'[k], text.intents[k])
  BY <1>2, DraftIsCarried
<1>4. Carried'
  BY <1>1, <1>2, <1>3 DEF Carried
<1> QED
  BY <1>1, <1>4 DEF VInv

\* A witness is all that is attached.
LEMMA WitnessCarries ==
  ASSUME VInv, AttachWitness
  PROVE  VInv'
<1>1. UNCHANGED <<turn, text>> /\ phase = "returned" /\ phase' = "witnessed"
  BY DEF AttachWitness, asked
<1>2. Carried
  BY <1>1 DEF VInv, Answered
<1>3. \/ intents' = intents
      \/ \E reads : intents' = [k \in DOMAIN intents |->
                                   [intents[k] EXCEPT !.reads = reads]]
  BY DEF AttachWitness
<1>4. CASE intents' = intents
  <2>1. Carried'
    BY <1>1, <1>2, <1>4 DEF Carried
  <2> QED
    BY <1>1, <2>1 DEF VInv
<1>5. CASE intents' # intents
  <2>1. PICK reads : intents' = [k \in DOMAIN intents |->
                                   [intents[k] EXCEPT !.reads = reads]]
    BY <1>3, <1>5
  <2>2. ASSUME NEW k \in DOMAIN intents
        PROVE  CarriedFrom(intents'[k], text.intents[k])
    <3>1. CarriedFrom(intents[k], text.intents[k])
      BY <1>2 DEF Carried
    <3>2. intents'[k] = [intents[k] EXCEPT !.reads = reads]
      BY <2>1
    <3> QED
      BY <3>1, <3>2 DEF CarriedFrom, Vouches, Placed, IntentFields
  <2>3. DOMAIN intents' = DOMAIN intents
    BY <2>1
  <2>4. Carried'
    BY <1>1, <1>2, <2>2, <2>3 DEF Carried
  <2> QED
    BY <1>1, <2>4 DEF VInv
<1> QED
  BY <1>4, <1>5

LEMMA GroundingCarries ==
  ASSUME VInv, GroundTargets
  PROVE  VInv'
<1>1. UNCHANGED <<turn, text>> /\ phase = "witnessed" /\ phase' = "grounded"
  BY DEF GroundTargets, asked
<1>2. Carried /\ turn \in Turns
  BY <1>1 DEF VInv, Answered
<1>3. CASE turn.grounding
  <2>1. PICK S : /\ turn.candidates \in Seq(S)
                 /\ \A x \in S : x.id # ""
    BY <1>2, CandidatesAssumption
  <2>2. intents' = [k \in DOMAIN intents |-> Grounded(intents[k], turn.candidates)]
    BY <1>3 DEF GroundTargets
  <2>3. ASSUME NEW k \in DOMAIN intents
        PROVE  CarriedFrom(intents'[k], text.intents[k])
    <3>1. CarriedFrom(intents[k], text.intents[k])
      BY <1>2 DEF Carried
    <3> QED
      BY <3>1, <2>1, <2>2, GroundedIsCarried
  <2>4. Carried'
    BY <1>1, <1>2, <2>2, <2>3 DEF Carried
  <2> QED
    BY <1>1, <2>4 DEF VInv
<1>4. CASE ~turn.grounding
  <2>1. intents' = intents
    BY <1>4 DEF GroundTargets
  <2>2. Carried'
    BY <1>1, <1>2, <2>1 DEF Carried
  <2> QED
    BY <1>1, <2>2 DEF VInv
<1> QED
  BY <1>3, <1>4

LEMMA VerdictsFollow ==
  ASSUME VInv, VerifyIntents
  PROVE  VInv'
<1>1. /\ UNCHANGED <<turn, text, intents>> /\ phase = "grounded"
      /\ phase' = "verified"
      /\ verdicts' = [k \in DOMAIN intents |->
                         Verdict(intents, k, turn.mode, turn.scenario)]
  BY DEF VerifyIntents, asked
<1>2. Carried'
  BY <1>1 DEF VInv, Answered, Carried
<1>3. VerdictsGiven'
  BY <1>1 DEF VerdictsGiven
<1> QED
  BY <1>1, <1>2, <1>3 DEF VInv

LEMMA VerdictsContinue == VInv /\ [TurnNext]_turnVars => VInv'
<1> SUFFICES ASSUME VInv, [TurnNext]_turnVars PROVE VInv'
  OBVIOUS
<1>1. CASE UNCHANGED turnVars
  BY <1>1 DEF turnVars, VInv, Answered, Carried, VerdictsGiven
<1>2. CASE Ask \/ ReceiveText \/ ReceiveError \/ ReceiveNothing \/ Pause \/ Reject
  <2>1. /\ turn' = turn
        /\ phase' \in {"parsing", "calling", "failed", "pausing", "asking"}
    <3>1. CASE Ask
      BY <3>1 DEF Ask
    <3>2. CASE ReceiveText \/ ReceiveError \/ ReceiveNothing
      BY <3>2 DEF ReceiveText, ReceiveError, ReceiveNothing
    <3>3. CASE Pause \/ Reject
      BY <3>3 DEF Pause, Reject
    <3> QED
      BY <1>2, <3>1, <3>2, <3>3
  <2> QED
    BY <2>1 DEF VInv, Answered
<1> QED
  BY <1>1, <1>2, AcceptCarries, WitnessCarries, GroundingCarries, VerdictsFollow
     DEF TurnNext, RunAgent

\* What verification finds about a target or its confidence holds the intent,
\* in every mode that verifies, when no obligation is disabled.
LEMMA TargetProblemIsFlagged ==
  ASSUME NEW all, NEW me, NEW m, NEW sc, CertificateMode(m) # "disabled",
         sc.disabled = {},
         NEW kind \in {"wrong_target_certificate", "low_target_confidence"},
         kind \in Events(all, me, CertificateMode(m), sc)
  PROVE  Flagged(Verdict(all, me, m, sc))
<1> DEFINE v == VerifyCertificate(all, me, CertificateMode(m), sc)
<1>1. CASE kind = "wrong_target_certificate"
  <2>1. kind \in v.errors
    BY <1>1 DEF VerifyCertificate, ErrorKinds
  <2>2. kind \in IgnoreStaleReads(v).errors
    BY <1>1, <2>1 DEF IgnoreStaleReads
  <2> QED
    BY <2>1, <2>2 DEF Verdict, Flagged
<1>2. CASE kind = "low_target_confidence"
  <2>1. kind \in v.warnings /\ (v.review \/ v.blocked)
    BY <1>2 DEF VerifyCertificate, ErrorKinds, REVIEW_WARNING_KINDS
  <2>2. IgnoreStaleReads(v).review
    <3>1. {"errors", "review", "blocked"} \subseteq DOMAIN v
      BY DEF VerifyCertificate
    <3> HIDE DEF v
    <3>2. "low_target_confidence"
            \in v.warnings \cap {"low_target_confidence",
                                "authority_insufficient_for_direct_commit",
                                "weakening_delta_requires_review"}
      BY <1>2, <2>1
    <3> QED
      BY <3>1, <3>2 DEF IgnoreStaleReads
  <2> QED
    BY <2>1, <2>2 DEF Verdict, Flagged
<1> QED
  BY <1>1, <1>2

\* A state write for which the model stated no certificate, in any mode that
\* verifies, is held, and so is one that grounding moved to another target
\* than the one its certificate claims: nothing on the way from the draft
\* (normalize_certificate, attach_dependency_witness_to_result,
\* ground_agent_results) gives an intent a certificate its model did not state.
THEOREM UncertifiedWritesDoNotPass == TurnSpec => []UncertifiedWritesAreHeld
<1>1. TurnSpec => []VInv
  BY VerdictsStart, VerdictsContinue, PTL DEF TurnSpec
<1>2. VInv => UncertifiedWritesAreHeld
  <2> SUFFICES ASSUME VInv, Enforced, NEW k \in DOMAIN intents,
                      intents[k].op # "append_event", ~Flagged(verdicts[k])
               PROVE  /\ text.intents[k].cert # <<>>
                      /\ \/ intents[k].named \in {"", intents[k].target}
                         \/ /\ "claimed" \in DOMAIN text.intents[k].cert
                            /\ text.intents[k].cert.claimed
                                  \in {"", intents[k].target}
    BY DEF UncertifiedWritesAreHeld
  <2> DEFINE i == intents[k]
             d == text.intents[k]
             events == Events(intents, k, CertificateMode(turn.mode), turn.scenario)
  <2>1. Carried /\ VerdictsGiven /\ turn.scenario.disabled = {}
        /\ CertificateMode(turn.mode) # "disabled"
    BY DEF VInv, Enforced, Verified, Answered
  <2>2. CarriedFrom(i, d) /\ HasCert(i)
    BY <2>1 DEF Carried, CarriedFrom, Vouches, HasCert, NoCert
  <2>3. /\ "low_target_confidence" \notin events
        /\ "wrong_target_certificate" \notin events
    BY <2>1, TargetProblemIsFlagged DEF VerdictsGiven
  <2>4. i.cert.confident
    BY <2>2, <2>3 DEF Events, Findings
  <2>5. \/ i.cert.claimed = "" \/ ActualTarget(i) = ""
        \/ i.cert.claimed = ActualTarget(i)
    BY <2>2, <2>3 DEF Events, Findings
  <2>6. i.target # "" => ActualTarget(i) = i.target
    BY DEF ActualTarget
  <2>7. d.cert # <<>>
    BY <2>2, <2>4 DEF CarriedFrom, Vouches
  <2> HIDE DEF i, d
  <2>8. \/ i.named \in {"", i.target}
        \/ "claimed" \in DOMAIN d.cert /\ d.cert.claimed \in {"", i.target}
    BY <2>2, <2>5, <2>6 DEF CarriedFrom, Vouches, Placed
  <2> QED
    BY <2>7, <2>8 DEF i, d
<1> QED
  BY <1>1, <1>2, PTL

-----------------------------------------------------------------------------
(* From a declared read to a verdict. *)

\* Two places of a set of them have different ranks in it.
LEMMA RanksDiffer ==
  ASSUME NEW P \in SUBSET Nat, IsFiniteSet(P), NEW j \in P, NEW k \in P, j < k
  PROVE  Cardinality({i \in P : i < j}) < Cardinality({i \in P : i < k})
<1> DEFINE below(x) == {i \in P : i < x}
<1>1. below(j) \subseteq below(k) /\ j \in below(k) /\ j \notin below(j)
  <2>1. j \in Nat /\ k \in Nat /\ ~(j < j)
    OBVIOUS
  <2>2. \A i \in P : i < j => i < k
    BY <2>1
  <2> QED
    BY <2>1, <2>2
<1>2. IsFiniteSet(below(k)) /\ IsFiniteSet(below(j))
  BY FS_Subset
<1>3. /\ IsFiniteSet(below(j) \cup {j})
      /\ Cardinality(below(j) \cup {j}) = Cardinality(below(j)) + 1
  BY <1>1, <1>2, FS_AddElement
<1>4. Cardinality(below(j) \cup {j}) <= Cardinality(below(k))
  BY <1>1, <1>2, <1>3, FS_Subset
<1>5. Cardinality(below(j)) \in Nat /\ Cardinality(below(k)) \in Nat
  BY <1>2, FS_CardinalityType
<1> QED
  BY <1>3, <1>4, <1>5

\* What is at a place of the set is listed.
LEMMA ItemIsListed ==
  ASSUME NEW s, NEW P \in SUBSET Nat, IsFiniteSet(P), NEW k \in P
  PROVE  /\ Cardinality(P) \in Nat /\ DOMAIN ItemsAt(s, P) = 1..Cardinality(P)
         /\ \E n \in 1..Cardinality(P) : ItemsAt(s, P)[n] = s[k]
<1> DEFINE rank(x) == Cardinality({i \in P : i < x})
           n == rank(k) + 1
<1>1. Cardinality(P) \in Nat
  BY FS_CardinalityType
<1>2. IsFiniteSet({i \in P : i < k}) /\ rank(k) \in Nat
  <2>1. {i \in P : i < k} \subseteq P
    OBVIOUS
  <2> QED
    BY <2>1, FS_Subset, FS_CardinalityType
<1>3. rank(k) < Cardinality(P)
  <2>1. {i \in P : i < k} \subseteq P /\ k \in P /\ k \notin {i \in P : i < k}
    OBVIOUS
  <2>2. {i \in P : i < k} \cup {k} \subseteq P
    BY <2>1
  <2>3. Cardinality({i \in P : i < k} \cup {k}) = rank(k) + 1
    BY <1>2, <2>1, FS_AddElement
  <2>4. Cardinality({i \in P : i < k} \cup {k}) <= Cardinality(P)
    BY <2>2, FS_Subset
  <2> QED
    BY <1>1, <1>2, <2>3, <2>4
<1>4. n \in 1..Cardinality(P) /\ n - 1 = rank(k)
  BY <1>1, <1>2, <1>3
<1>5. \A j \in P : rank(j) = rank(k) => j = k
  <2> SUFFICES ASSUME NEW j \in P, rank(j) = rank(k), j # k PROVE FALSE
    OBVIOUS
  <2>1. IsFiniteSet({i \in P : i < j}) /\ rank(j) \in Nat
    <3>1. {i \in P : i < j} \subseteq P
      OBVIOUS
    <3> QED
      BY <3>1, FS_Subset, FS_CardinalityType
  <2>2. CASE j < k
    <3>1. rank(j) < rank(k)
      BY <2>2, RanksDiffer
    <3> QED
      BY <3>1, <2>1
  <2>3. CASE k < j
    <3>1. rank(k) < rank(j)
      BY <2>3, RanksDiffer
    <3> QED
      BY <3>1, <2>1
  <2> QED
    BY <2>2, <2>3
<1> HIDE DEF rank, n
<1>6. (CHOOSE j \in P : rank(j) = n - 1) = k
  BY <1>4, <1>5
<1>7. ItemsAt(s, P)[n] = s[CHOOSE j \in P : rank(j) = n - 1]
  BY <1>4 DEF ItemsAt, rank
<1> QED
  BY <1>1, <1>4, <1>6, <1>7 DEF ItemsAt

IsRead(r) == DOMAIN r = {"target", "expected", "fresh"}

IsReads(reads) ==
    reads \in Seq(ToSet(reads)) /\ \A r \in ToSet(reads) : IsRead(r)

LEMMA JoinedReads ==
  ASSUME NEW s, IsReads(s), NEW t, IsReads(t)
  PROVE  IsReads(s \o t) /\ ToSet(s \o t) = ToSet(s) \cup ToSet(t)
<1> DEFINE S == ToSet(s)
           T == ToSet(t)
<1>1. s \in Seq(S) /\ t \in Seq(T)
  BY DEF IsReads
<1>2. /\ s \o t \in Seq(S \cup T) /\ Len(s \o t) = Len(s) + Len(t)
      /\ DOMAIN s = 1..Len(s) /\ DOMAIN t = 1..Len(t)
      /\ DOMAIN (s \o t) = 1..(Len(s) + Len(t))
      /\ Len(s) \in Nat /\ Len(t) \in Nat
      /\ \A k \in 1..(Len(s) + Len(t)) :
            (s \o t)[k] = IF k <= Len(s) THEN s[k] ELSE t[k - Len(s)]
  <2> HIDE DEF S, T
  <2> QED
    BY <1>1
<1>3. \A k \in DOMAIN (s \o t) : (s \o t)[k] \in S \cup T
  BY <1>2 DEF ToSet
<1>4. \A k \in DOMAIN s : s[k] \in ToSet(s \o t)
  <2> SUFFICES ASSUME NEW k \in DOMAIN s PROVE s[k] \in ToSet(s \o t)
    OBVIOUS
  <2>1. k \in DOMAIN (s \o t) /\ (s \o t)[k] = s[k]
    BY <1>2
  <2> QED
    BY <2>1 DEF ToSet
<1>5. \A k \in DOMAIN t : t[k] \in ToSet(s \o t)
  <2> SUFFICES ASSUME NEW k \in DOMAIN t PROVE t[k] \in ToSet(s \o t)
    OBVIOUS
  <2>1. /\ k + Len(s) \in DOMAIN (s \o t) /\ ~(k + Len(s) <= Len(s))
        /\ (k + Len(s)) - Len(s) = k
    BY <1>2
  <2>2. (s \o t)[k + Len(s)] = t[k]
    BY <1>2, <2>1
  <2> QED
    BY <2>1, <2>2 DEF ToSet
<1>6. ToSet(s \o t) = S \cup T
  BY <1>3, <1>4, <1>5 DEF ToSet
<1> QED
  BY <1>2, <1>6 DEF IsReads

\* Every read that is logged or declared for an agent is collected.
LEMMA ReadsAreCollected ==
  ASSUME NEW t \in Turns
  PROVE  /\ IsReads(DeclaredReads(t.agent, t.scenario))
         /\ \A reads \in ReadsOf(t) :
               ToSet(reads) \subseteq ToSet(DeclaredReads(t.agent, t.scenario))
<1> DEFINE a == t.agent
           byId   == Declared(t.scenario, a.id)
           byRole == Declared(t.scenario, a.role)
           byAll  == Declared(t.scenario, "*")
<1>1. \A reads \in ReadsOf(t) : IsReads(reads)
  BY ReadsOfTurnsAssumption DEF IsReads, IsRead
<1>2. ReadsOf(t) = {a.scripted, a.configured, byId, byRole, byAll}
  BY DEF ReadsOf
<1> HIDE DEF a, byId, byRole, byAll
<1>3. /\ IsReads(a.scripted) /\ IsReads(a.configured)
      /\ IsReads(byId) /\ IsReads(byRole) /\ IsReads(byAll)
  BY <1>1, <1>2
<1>4. /\ IsReads(a.scripted \o a.configured)
      /\ ToSet(a.scripted \o a.configured) = ToSet(a.scripted) \cup ToSet(a.configured)
  BY <1>3, JoinedReads
<1> DEFINE s1 == a.scripted \o a.configured
<1> HIDE DEF s1
<1>5. IsReads(s1 \o byId) /\ ToSet(s1 \o byId) = ToSet(s1) \cup ToSet(byId)
  BY <1>3, <1>4, JoinedReads DEF s1
<1> DEFINE s2 == s1 \o byId
<1> HIDE DEF s2
<1>6. IsReads(s2 \o byRole) /\ ToSet(s2 \o byRole) = ToSet(s2) \cup ToSet(byRole)
  BY <1>3, <1>5, JoinedReads DEF s2
<1> DEFINE s3 == s2 \o byRole
<1> HIDE DEF s3
<1>7. IsReads(s3 \o byAll) /\ ToSet(s3 \o byAll) = ToSet(s3) \cup ToSet(byAll)
  BY <1>3, <1>6, JoinedReads DEF s3
<1>8. DeclaredReads(t.agent, t.scenario) = s3 \o byAll
  BY DEF DeclaredReads, s1, s2, s3, a, byId, byRole, byAll
<1>9. /\ ToSet(s1) = ToSet(a.scripted) \cup ToSet(a.configured)
      /\ ToSet(s2) = ToSet(s1) \cup ToSet(byId)
      /\ ToSet(s3) = ToSet(s2) \cup ToSet(byRole)
  BY <1>4, <1>5, <1>6 DEF s1, s2, s3
<1>10. \A reads \in ReadsOf(t) : ToSet(reads) \subseteq ToSet(s3 \o byAll)
  BY <1>2, <1>7, <1>9
<1> QED
  BY <1>7, <1>8, <1>10

\* Of the reads of one target there is a last.
LEMMA LastReadIsLogged ==
  ASSUME NEW n \in Nat, NEW reads, DOMAIN reads = 1..n, NEW k \in 1..n,
         NEW t, reads[k].target = t
  PROVE  \E c \in 1..n : LastRead(reads, t) = reads[c] /\ reads[c].target = t
<1> DEFINE J == {n - j : j \in {i \in 1..n : reads[i].target = t}}
           IsLast(i) == /\ reads[i].target = t
                        /\ \A j \in 1..n : j > i => reads[j].target # t
<1>1. J \in SUBSET Nat /\ J # {}
  <2>1. \A j \in 1..n : n - j \in Nat
    OBVIOUS
  <2>2. n - k \in J
    OBVIOUS
  <2> QED
    BY <2>1, <2>2
<1>2. PICK m \in J : \A j \in J : ~(<<j, m>> \in OpToRel(<, Nat))
  BY <1>1, NatLessThanWellFounded, WFMin
<1>3. PICK l \in 1..n : m = n - l /\ reads[l].target = t
  BY <1>2
<1>4. ASSUME NEW j \in 1..n, j > l, reads[j].target = t
      PROVE  FALSE
  <2>1. n - j \in J /\ n - j < m /\ n - j \in Nat /\ m \in Nat
    BY <1>3, <1>4
  <2> QED
    BY <1>2, <2>1 DEF OpToRel
<1>5. IsLast(l)
  BY <1>3, <1>4
<1> DEFINE c == CHOOSE i \in DOMAIN reads :
                    /\ reads[i].target = t
                    /\ \A j \in DOMAIN reads : j > i => reads[j].target # t
<1>6. c \in 1..n /\ reads[c].target = t
  BY <1>3, <1>5
<1>7. LastRead(reads, t) = reads[c]
  BY DEF LastRead
<1> QED
  BY <1>6, <1>7

Names(t) == t # ""

\* Of the reads of one target there is a first.
LEMMA FirstReadIsLogged ==
  ASSUME NEW n \in Nat, NEW reads, DOMAIN reads = 1..n, NEW k \in 1..n,
         NEW t, Names(t), reads[k].target = t
  PROVE  \E f \in FirstReads(reads) : f \in 1..n /\ reads[f].target = t
<1> DEFINE I == {i \in 1..n : reads[i].target = t}
<1>1. I \in SUBSET Nat /\ I # {}
  <2>1. k \in I /\ \A i \in 1..n : i \in Nat
    OBVIOUS
  <2> QED
    BY <2>1
<1>2. PICK f \in I : \A i \in I : ~(<<i, f>> \in OpToRel(<, Nat))
  BY <1>1, NatLessThanWellFounded, WFMin
<1>3. ASSUME NEW j \in 1..(f - 1)
      PROVE  reads[j].target # reads[f].target
  <2>1. j \in 1..n /\ j < f /\ j \in Nat /\ f \in Nat
    OBVIOUS
  <2>2. j \notin I
    BY <1>2, <2>1 DEF OpToRel
  <2> QED
    BY <2>1, <2>2
<1>4. f \in 1..n /\ f \in DOMAIN reads /\ reads[f].target = t
  OBVIOUS
<1> QED
  BY <1>3, <1>4 DEF FirstReads, Names

LEMMA ReadsAreRead ==
  ASSUME NEW s, IsReads(s)
  PROVE  /\ Len(s) \in Nat /\ DOMAIN s = 1..Len(s)
         /\ \A k \in 1..Len(s) : IsRead(s[k])
<1>1. s \in Seq(ToSet(s)) /\ \A q \in ToSet(s) : IsRead(q)
  BY DEF IsReads
<1>2. Len(s) \in Nat /\ DOMAIN s = 1..Len(s)
  BY <1>1
<1> QED
  BY <1>1, <1>2 DEF ToSet

\* A read of a target stays in what is compiled.
LEMMA ReadIsCompiled ==
  ASSUME NEW logged, IsReads(logged), NEW shown, NEW t, Names(t),
         \E r \in ToSet(logged) : r.target = t
  PROVE  LET deps == Compiled(logged, shown)
         IN  \E m \in Nat :
               /\ DOMAIN deps = 1..m
               /\ \E n \in 1..m : IsRead(deps[n]) /\ deps[n].target = t
<1>1. PICK size \in Nat :
        /\ size = Len(logged) /\ DOMAIN logged = 1..size
        /\ \A k \in 1..size : IsRead(logged[k])
  BY ReadsAreRead
<1> DEFINE P == FirstReads(logged)
           first == ItemsAt(logged, P)
<1>2. PICK k \in 1..size : logged[k].target = t
  BY <1>1 DEF ToSet
<1>5. PICK f \in P : f \in 1..size /\ logged[f].target = t
  BY <1>1, <1>2, FirstReadIsLogged
<1>6. P \in SUBSET Nat /\ IsFiniteSet(P)
  <2>1. P \subseteq 1..size
    BY <1>1 DEF FirstReads
  <2>2. IsFiniteSet(1..size)
    BY <1>1, FS_Interval
  <2>3. \A i \in 1..size : i \in Nat
    BY <1>1
  <2> QED
    BY <2>1, <2>2, <2>3, FS_Subset
<1>7. /\ Cardinality(P) \in Nat /\ DOMAIN first = 1..Cardinality(P)
      /\ \E n \in 1..Cardinality(P) : first[n] = logged[f]
  BY <1>5, <1>6, ItemIsListed
<1>8. PICK n \in 1..Cardinality(P) : first[n] = logged[f]
  BY <1>7
<1>9. PICK c \in 1..size :
        LastRead(logged, t) = logged[c] /\ logged[c].target = t
  BY <1>1, <1>2, LastReadIsLogged
<1> DEFINE d == NormalizedRead(LastRead(logged, t), shown)
<1>10. IsRead(d) /\ d.target = t
  BY <1>1, <1>9 DEF NormalizedRead, IsRead
<1>11. /\ DOMAIN Compiled(logged, shown) = 1..Cardinality(P)
       /\ Compiled(logged, shown)[n] = d
  <2>1. Compiled(logged, shown) =
          [m \in DOMAIN first |->
              NormalizedRead(LastRead(logged, first[m].target), shown)]
    BY DEF Compiled
  <2>2. DOMAIN first = 1..Cardinality(P) /\ first[n].target = t
    BY <1>5, <1>7, <1>8
  <2> HIDE DEF first, P
  <2> QED
    BY <2>1, <2>2
<1> QED
  BY <1>7, <1>8, <1>10, <1>11

Attaches(t) == t.witness.enabled /\ ~t.witness.drops

\* The names of what an agent is known to have read.
Known(t) == {r.target : r \in UNION {ToSet(reads) : reads \in ReadsOf(t)}} \ {""}

\* A trace of so many reads has a fresh read of each of the targets.
Traces(trace, size, targets) ==
    /\ DOMAIN trace = 1..size
    /\ \A m \in 1..size : trace[m].fresh
    /\ \A t \in targets : \E m \in 1..size : trace[m].target = t

Witnessed == phase \in {"witnessed", "grounded", "verified"} /\ Attaches(turn)

RInv ==
    Witnessed =>
        /\ Len(witness.deps) \in Nat
        /\ \A k \in DOMAIN intents :
              Traces(intents[k].reads, Len(witness.deps), Known(turn))

LEMMA FakesAreReads ==
  ASSUME NEW n \in Nat
  PROVE  IsReads(Fakes(n))
<1>1. DOMAIN Fakes(n) = 1..n
  BY DEF Fakes
<1>2. Fakes(n) \in [1..n -> ToSet(Fakes(n))]
  BY DEF Fakes, ToSet
<1>3. Fakes(n) \in Seq(ToSet(Fakes(n)))
  BY <1>2
<1>4. \A r \in ToSet(Fakes(n)) : IsRead(r)
  BY DEF Fakes, ToSet, IsRead
<1> QED
  BY <1>3, <1>4 DEF IsReads

\* A witness from which nothing was dropped has all that was compiled.
LEMMA WitnessIsWhole ==
  ASSUME NEW deps, NEW m \in Nat, DOMAIN deps = 1..m, NEW fakes \in Nat
  PROVE  LET w == Witness(deps, {}, fakes).deps
         IN  /\ Len(w) \in Nat /\ DOMAIN w = 1..Len(w)
             /\ \A k \in 1..m : \E n \in 1..Len(w) : w[n] = deps[k]
<1> DEFINE P == {k \in DOMAIN deps : deps[k].target \notin {}}
           kept == ItemsAt(deps, P)
           fake == Fakes(fakes)
           w == Witness(deps, {}, fakes).deps
<1>1. P = 1..m
  OBVIOUS
<1>2. P \in SUBSET Nat /\ IsFiniteSet(P) /\ Cardinality(P) = m
  <2>1. IsFiniteSet(1..m) /\ Cardinality(1..m) = m
    BY FS_Interval
  <2>2. \A k \in 1..m : k \in Nat
    OBVIOUS
  <2> HIDE DEF P
  <2> QED
    BY <1>1, <2>1, <2>2
<1>3. w = kept \o fake
  BY DEF Witness
<1>4. /\ DOMAIN kept = 1..m
      /\ \A k \in 1..m : \E n \in 1..m : kept[n] = deps[k]
  <2>1. \A k \in P : \E n \in 1..Cardinality(P) : kept[n] = deps[k]
    BY <1>2, ItemIsListed
  <2>2. DOMAIN kept = 1..Cardinality(P)
    BY DEF ItemsAt
  <2> QED
    BY <1>1, <1>2, <2>1, <2>2
<1>5. kept \in Seq(ToSet(kept)) /\ Len(kept) = m
  <2>1. kept = [n \in 1..m |-> kept[n]]
    BY <1>1, <1>2 DEF ItemsAt
  <2> HIDE DEF kept
  <2>2. kept \in [1..m -> ToSet(kept)]
    BY <1>4, <2>1 DEF ToSet
  <2> QED
    BY <2>2
<1>6. fake \in Seq(ToSet(fake))
  BY FakesAreReads DEF IsReads
<1> HIDE DEF kept, fake, w, P
<1>7. /\ Len(w) = m + Len(fake) /\ DOMAIN w = 1..(m + Len(fake))
      /\ Len(fake) \in Nat
      /\ \A n \in 1..m : w[n] = kept[n]
  <2> DEFINE S == ToSet(kept)
             T == ToSet(fake)
  <2>1. kept \in Seq(S) /\ fake \in Seq(T)
    BY <1>5, <1>6
  <2> HIDE DEF S, T
  <2>2. /\ Len(kept \o fake) = Len(kept) + Len(fake) /\ Len(fake) \in Nat
        /\ DOMAIN (kept \o fake) = 1..(Len(kept) + Len(fake))
        /\ \A n \in 1..Len(kept) : (kept \o fake)[n] = kept[n]
    BY <2>1
  <2> QED
    BY <1>3, <1>5, <2>2
<1>8. \A k \in 1..m : \E n \in 1..Len(w) : w[n] = deps[k]
  <2> SUFFICES ASSUME NEW k \in 1..m
               PROVE  \E n \in 1..Len(w) : w[n] = deps[k]
    OBVIOUS
  <2>1. PICK n \in 1..m : kept[n] = deps[k]
    BY <1>4
  <2>2. n \in 1..Len(w) /\ w[n] = kept[n]
    BY <1>7
  <2> QED
    BY <2>1, <2>2
<1> QED
  BY <1>7, <1>8 DEF w

\* What is compiled for an agent has a read of every target it is known to
\* have read.
LEMMA KnownIsCompiled ==
  ASSUME NEW t \in Turns
  PROVE  LET deps == Compiled(DeclaredReads(t.agent, t.scenario), t.shown)
         IN  \E m \in Nat :
               /\ DOMAIN deps = 1..m
               /\ \A x \in Known(t) :
                     \E n \in 1..m : IsRead(deps[n]) /\ deps[n].target = x
<1> DEFINE logged == DeclaredReads(t.agent, t.scenario)
           deps == Compiled(logged, t.shown)
<1>1. /\ IsReads(logged)
      /\ \A s \in ReadsOf(t) : ToSet(s) \subseteq ToSet(logged)
  BY ReadsAreCollected
<1>2. \A x \in Known(t) : Names(x) /\ \E r \in ToSet(logged) : r.target = x
  BY <1>1 DEF Known, Names
<1> HIDE DEF logged
<1>3. DOMAIN deps = 1..Cardinality(FirstReads(logged))
  BY DEF Compiled, ItemsAt
<1>4. Cardinality(FirstReads(logged)) \in Nat
  <2>1. DOMAIN logged = 1..Len(logged) /\ Len(logged) \in Nat
    BY <1>1, ReadsAreRead
  <2>2. FirstReads(logged) \subseteq 1..Len(logged)
    BY <2>1 DEF FirstReads
  <2>3. IsFiniteSet(1..Len(logged))
    BY <2>1, FS_Interval
  <2> QED
    BY <2>2, <2>3, FS_Subset, FS_CardinalityType
<1>5. ASSUME NEW x \in Known(t)
      PROVE  \E n \in DOMAIN deps : IsRead(deps[n]) /\ deps[n].target = x
  BY <1>1, <1>2, ReadIsCompiled
<1>6. \E m \in Nat :
        /\ DOMAIN deps = 1..m
        /\ \A x \in Known(t) :
              \E n \in 1..m : IsRead(deps[n]) /\ deps[n].target = x
  BY <1>3, <1>4, <1>5
<1> QED
  BY <1>6 DEF logged

LEMMA AttachedTrace ==
  ASSUME VInv, AttachWitness, Attaches(turn)
  PROVE  RInv'
<1> DEFINE deps == Compiled(DeclaredReads(turn.agent, turn.scenario), turn.shown)
           w == Witness(deps, {}, turn.witness.fakes)
           trace == AsVerified(w.deps, turn.shown)
<1>1. turn \in Turns /\ turn' = turn /\ phase = "returned"
  BY DEF VInv, AttachWitness
<1>2. Carried
  BY <1>1 DEF VInv, Answered
<1>3. \E dropped \in {{}} :
        LET x == Witness(deps, dropped, turn.witness.fakes)
        IN  /\ witness' = x
            /\ intents' = [k \in DOMAIN intents |->
                  [intents[k] EXCEPT !.reads = AsVerified(witness'.deps, turn.shown)]]
  BY DEF AttachWitness, Attaches
<1>4. /\ witness' = w
      /\ intents' = [k \in DOMAIN intents |-> [intents[k] EXCEPT !.reads = trace]]
  BY <1>3
<1>5. turn.witness.fakes \in Nat
  BY <1>1, TurnsAssumption
<1>6. PICK m \in Nat :
        /\ DOMAIN deps = 1..m
        /\ \A x \in Known(turn) :
              \E n \in 1..m : IsRead(deps[n]) /\ deps[n].target = x
  BY <1>1, KnownIsCompiled
<1> HIDE DEF deps
<1>7. /\ Len(w.deps) \in Nat /\ DOMAIN w.deps = 1..Len(w.deps)
      /\ \A k \in 1..m : \E n \in 1..Len(w.deps) : w.deps[n] = deps[k]
  BY <1>5, <1>6, WitnessIsWhole
<1> HIDE DEF w
<1>8. Traces(trace, Len(w.deps), Known(turn))
  <2>1. DOMAIN trace = 1..Len(w.deps)
    BY <1>7 DEF AsVerified
  <2>2. ASSUME NEW x \in Known(turn)
        PROVE  \E n \in 1..Len(w.deps) : trace[n].target = x
    <3>1. PICK k \in 1..m : IsRead(deps[k]) /\ deps[k].target = x
      BY <1>6
    <3>2. PICK n \in 1..Len(w.deps) : w.deps[n] = deps[k]
      BY <1>7
    <3>3. trace[n].target = w.deps[n].target
      BY <1>7 DEF AsVerified
    <3> QED
      BY <3>1, <3>2, <3>3
  <2>3. \A n \in 1..Len(w.deps) : trace[n].fresh
    BY <1>7 DEF AsVerified
  <2> QED
    BY <2>1, <2>2, <2>3 DEF Traces
<1> HIDE DEF trace
<1>9. ASSUME NEW k \in DOMAIN intents
      PROVE  intents'[k].reads = trace
  <2>1. "reads" \in DOMAIN intents[k]
    BY <1>2 DEF Carried, CarriedFrom, IntentFields
  <2> QED
    BY <1>4, <2>1
<1>10. DOMAIN intents' = DOMAIN intents /\ witness'.deps = w.deps
  BY <1>4
<1>11. Known(turn)' = Known(turn)
  BY <1>1 DEF Known, ReadsOf
<1> QED
  BY <1>1, <1>7, <1>8, <1>9, <1>10, <1>11 DEF RInv, Traces

LEMMA KnownStays ==
  ASSUME turn' = turn
  PROVE  Known(turn)' = Known(turn) /\ Attaches(turn)' = Attaches(turn)
BY DEF Known, ReadsOf, Attaches

LEMMA TracesContinue == VInv /\ RInv /\ [TurnNext]_turnVars => RInv'
<1> SUFFICES ASSUME VInv, RInv, [TurnNext]_turnVars PROVE RInv'
  OBVIOUS
<1>1. CASE UNCHANGED turnVars
  <2>1. UNCHANGED <<turn, phase, intents, witness>>
    BY <1>1 DEF turnVars
  <2> QED
    BY <2>1, KnownStays DEF RInv, Witnessed, Traces
<1>2. CASE RunAgent
  <2>1. phase' \in {"parsing", "calling", "failed", "pausing", "asking", "returned"}
    <3>1. CASE Ask
      BY <3>1 DEF Ask
    <3>2. CASE ReceiveText \/ ReceiveError \/ ReceiveNothing
      BY <3>2 DEF ReceiveText, ReceiveError, ReceiveNothing
    <3>3. CASE Pause \/ Accept \/ Reject
      BY <3>3 DEF Pause, Accept, Reject
    <3> QED
      BY <1>2, <3>1, <3>2, <3>3 DEF RunAgent
  <2> QED
    BY <2>1 DEF RInv, Witnessed
<1>3. CASE AttachWitness
  <2>1. CASE Attaches(turn)
    BY <1>3, <2>1, AttachedTrace
  <2>2. CASE ~Attaches(turn)
    BY <1>3, <2>2 DEF AttachWitness, RInv, Witnessed, Attaches
  <2> QED
    BY <2>1, <2>2
<1>4. CASE GroundTargets
  <2>1. UNCHANGED <<turn, witness>> /\ phase = "witnessed"
    BY <1>4 DEF GroundTargets
  <2>2. Carried
    BY <2>1 DEF VInv, Answered
  <2>3. /\ DOMAIN intents' = DOMAIN intents
        /\ \A k \in DOMAIN intents : intents'[k].reads = intents[k].reads
    <3>1. CASE turn.grounding
      <4>1. intents' = [k \in DOMAIN intents |-> Grounded(intents[k], turn.candidates)]
        BY <1>4, <3>1 DEF GroundTargets
      <4>2. \A k \in DOMAIN intents : "reads" \in DOMAIN intents[k]
        BY <2>2 DEF Carried, CarriedFrom, IntentFields
      <4>3. ASSUME NEW i, "reads" \in DOMAIN i
            PROVE  Grounded(i, turn.candidates).reads = i.reads
        BY <4>3 DEF Grounded
      <4> QED
        BY <4>1, <4>2, <4>3
    <3>2. CASE ~turn.grounding
      BY <1>4, <3>2 DEF GroundTargets
    <3> QED
      BY <3>1, <3>2
  <2> QED
    BY <2>1, <2>3, KnownStays DEF RInv, Witnessed, Traces
<1>5. CASE VerifyIntents
  <2>1. UNCHANGED <<turn, intents, witness>> /\ phase = "grounded"
    BY <1>5 DEF VerifyIntents
  <2> QED
    BY <2>1, KnownStays DEF RInv, Witnessed, Traces
<1> QED
  BY <1>1, <1>2, <1>3, <1>4, <1>5 DEF TurnNext

-----------------------------------------------------------------------------
\* A trace that is no longer than what is looked at is looked at as a whole.
LEMMA TraceIsLookedAt ==
  ASSUME NEW n \in Nat, n <= WITNESS_LIMIT, NEW P \in SUBSET (1..n), NEW s,
         NEW k \in P
  PROVE  s[k] \in Truncated(s, P)
<1> DEFINE earlier == {j \in P : j < k}
<1>1. k \in 1..n /\ earlier \subseteq 1..(k - 1)
  <2>1. \A j \in P : j \in 1..n
    OBVIOUS
  <2>2. \A j \in P : j < k => j \in 1..(k - 1)
    BY <2>1
  <2> QED
    BY <2>1, <2>2
<1>2. IsFiniteSet(1..(k - 1)) /\ Cardinality(1..(k - 1)) = k - 1
  BY <1>1, FS_Interval
<1>3. Cardinality(earlier) <= k - 1 /\ Cardinality(earlier) \in Nat
  BY <1>1, <1>2, FS_Subset, FS_CardinalityType
<1>4. Cardinality(earlier) < WITNESS_LIMIT
  BY <1>1, <1>3, LimitAssumption
<1> QED
  BY <1>4 DEF Truncated

\* A read that verification compares with the state of its target.
Looked(d, i, t) ==
    d \in TraceDeps(i, "execution_trace") /\ d.fresh /\ d.target = t

\* Of a trace that is not cut, what counts of each target is looked at.
LEMMA TracedReadIsLookedAt ==
  ASSUME NEW n \in Nat, n <= WITNESS_LIMIT, NEW i, NEW reads, reads = i.reads,
         NEW targets, Traces(reads, n, targets),
         NEW t \in targets, Names(t), t # ActualTarget(i)
  PROVE  \E d : Looked(d, i, t)
<1>1. PICK m \in 1..n : reads[m].target = t
  BY DEF Traces
<1>2. DOMAIN reads = 1..n /\ \A k \in 1..n : reads[k].fresh
  BY DEF Traces
<1>3. PICK c \in 1..n : LastRead(reads, t) = reads[c] /\ reads[c].target = t
  BY <1>1, <1>2, LastReadIsLogged
<1>4. PICK f \in FirstReads(reads) : f \in 1..n /\ reads[f].target = t
  BY <1>1, <1>2, FirstReadIsLogged
<1> DEFINE L == LatestReads(reads)
           W == WitnessReads(i)
<1>5. L[f] = reads[c]
  BY <1>2, <1>3, <1>4 DEF LatestReads
<1>6. W \in SUBSET (1..n) /\ f \in W
  <2>1. FirstReads(reads) \in SUBSET (1..n)
    BY <1>2 DEF FirstReads
  <2> QED
    BY <1>4, <2>1 DEF WitnessReads
<1>7. L[f] \in Truncated(L, W)
  <2> HIDE DEF L, W
  <2> QED
    BY <1>6, TraceIsLookedAt
<1>8. reads[c] \in TraceDeps(i, "execution_trace")
  BY <1>5, <1>6, <1>7 DEF TraceDeps
<1> QED
  BY <1>2, <1>3, <1>8 DEF Looked

\* A stale read that verification looks at holds the intent.
LEMMA StaleTraceIsFlagged ==
  ASSUME NEW all, NEW me, NEW sc, sc.disabled = {},
         NEW d \in TraceDeps(all[me], "execution_trace"), d.fresh,
         d.target # ActualTarget(all[me]),
         d.target \in sc.invalidated \/ MutatorsOf(all, me, d.target) # {}
  PROVE  Flagged(Verdict(all, me, "adaptive_wccu_execution_trace", sc))
<1> DEFINE kind == "stale_read_dependency"
           v    == VerifyCertificate(all, me, "execution_trace", sc)
<1>1. CertificateMode("adaptive_wccu_execution_trace") = "execution_trace"
  BY DEF CertificateMode
<1>2. d \in ReadDependencies(all[me], "execution_trace", sc)
  BY DEF ReadDependencies
<1>3. StaleRead(all, me, "execution_trace", sc)
  BY <1>2 DEF StaleRead, DependencyStale, SelfCorrectionRead
<1>4. kind \in Events(all, me, "execution_trace", sc)
  BY <1>3 DEF Events, Findings
<1>5. kind \in v.errors
  BY <1>4 DEF VerifyCertificate, ErrorKinds
<1> QED
  BY <1>1, <1>5 DEF Verdict, Flagged

\* However a read was logged or declared (_collect_declared_reads), it survives
\* compilation, attachment, grounding and the limit of the witness: an intent
\* is held when what its agent read is invalidated or written in the batch.
THEOREM DeclaredStaleReadsHold == TurnSpec => []StaleReadsAreHeld
<1>1. TurnInit => RInv
  BY DEF TurnInit, RInv, Witnessed
<1>2. TurnSpec => [](VInv /\ RInv)
  BY <1>1, VerdictsStart, VerdictsContinue, TracesContinue, PTL DEF TurnSpec
<1>3. VInv /\ RInv => StaleReadsAreHeld
  <2> SUFFICES ASSUME VInv, RInv, Enforced,
                      turn.witness.enabled, ~turn.witness.drops,
                      turn.mode = "adaptive_wccu_execution_trace",
                      Len(witness.deps) <= WITNESS_LIMIT,
                      NEW k \in DOMAIN intents,
                      NEW r \in UNION {ToSet(reads) : reads \in ReadsOf(turn)},
                      r.target \notin {"", intents[k].target},
                      \/ r.target \in turn.scenario.invalidated
                      \/ MutatorsOf(intents, k, r.target) # {}
               PROVE  Flagged(verdicts[k])
    BY DEF StaleReadsAreHeld
  <2> DEFINE t == r.target
  <2>0. t \in Known(turn)
    BY DEF Known
  <2> DEFINE i == intents[k]
             size == Len(witness.deps)
  <2>1. /\ Carried /\ VerdictsGiven /\ turn.scenario.disabled = {}
        /\ Witnessed
    BY DEF VInv, Enforced, Verified, Answered, Witnessed, Attaches
  <2>2. size \in Nat /\ Traces(i.reads, size, Known(turn))
    BY <2>1 DEF RInv
  <2>8. size <= WITNESS_LIMIT
    OBVIOUS
  <2>3. Names(t)
    BY DEF Names
  <2>4. t # ActualTarget(i)
    BY <2>1 DEF Carried, CarriedFrom, Placed, ActualTarget, Known
  <2>5. \E reads : reads = i.reads /\ Traces(reads, size, Known(turn))
    BY <2>2
  <2>6. PICK d : Looked(d, i, t)
    <3>1. PICK reads : reads = i.reads /\ Traces(reads, size, Known(turn))
      BY <2>5
    <3>2. /\ size \in Nat /\ size <= WITNESS_LIMIT
          /\ t \in Known(turn) /\ Names(t) /\ t # ActualTarget(i)
      BY <2>0, <2>2, <2>3, <2>4, <2>8
    <3> HIDE DEF i, size, t
    <3> QED
      BY <3>1, <3>2, TracedReadIsLookedAt
  <2>7. Flagged(Verdict(intents, k, "adaptive_wccu_execution_trace", turn.scenario))
    BY <2>1, <2>4, <2>6, StaleTraceIsFlagged DEF Looked
  <2> QED
    BY <2>1, <2>7 DEF VerdictsGiven
<1> QED
  BY <1>2, <1>3, PTL
=============================================================================
