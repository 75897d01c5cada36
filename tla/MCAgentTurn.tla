----------------------------- MODULE MCAgentTurn -----------------------------
(***************************************************************************)
(* Turns of one agent for TLC: every combination of retries with every     *)
(* kind of answer, and every kind of draft under each way of verifying it. *)
(***************************************************************************)
EXTENDS AgentTurn, MCIntents

FileA == [x \in {"file:src/a"} |-> "src/a"]

Candidate(id, ctype, words, files) ==
    [id |-> id, ctype |-> ctype, words |-> words, files |-> files]

MCCandidates ==
    <<Candidate("m", "memory", {"backup_url", "answers", "always"}, {}),
      Candidate("k", "memory", {}, {}),
      Candidate("p", "memory", {"callback_url", "answers", "never"}, {}),
      Candidate("h", "memory", {}, {}),
      Candidate("file:src/a", "workspace_file",
                {"file", "src", "workspace_file"}, {"src/a"})>>

MCScenario ==
    [Plain EXCEPT !.seed = @ @@ ("file:src/a" :>
                      [Atom("active", {}, {}) EXCEPT !.ctype = "workspace_file"]),
                  !.invalidated = {"k"},
                  !.declared = [builder |-> Reads("h"), ann |-> <<>>]]

Draft ==
    [op |-> "patch_atom", named |-> "m", link |-> "", file |-> "", ctype |-> "",
     status |-> "", risk |-> "", auth |-> "", text |-> Text("x"), id |-> "",
     overlap |-> NoOverlap, cert |-> <<>>, commitMode |-> "none",
     garbled |-> FALSE, mentions |-> <<{"m"}>>, words |-> {"answers"}]

Called(name, mentions, words) ==
    [Draft EXCEPT !.named = name, !.mentions = mentions, !.words = words]

Certain(d, target) ==
    [d EXCEPT !.cert = [Cert(<<>>) EXCEPT !.claimed = target]]

ByWords == Called("it", <<{}>>, {"callback_url", "set", "now"})

Drafts ==
    {Draft, Certain(Draft, "m"), Certain(Draft, "p"),
     \* named after the atom, by its words, or by words too few to tell
     Called("atom m", <<{"m"}>>, {}), Certain(Called("atom m", <<{"m"}>>, {}), ""),
     ByWords, Certain(ByWords, "it"), Certain(ByWords, "p"),
     Certain(Called("x", <<{}>>, {"answers", "a1", "b1", "c1", "d1"}), "x"),
     [Certain(Called("x", <<{}, {"p"}>>, {}), "m") EXCEPT !.cert.confident = FALSE],
     \* files
     [Draft EXCEPT !.named = "", !.file = "src/a", !.mentions = <<{}>>],
     Certain([Draft EXCEPT !.named = "file:src/a", !.mentions = <<{}>>], ""),
     Certain([Draft EXCEPT !.file = "Makefile"], "m"),
     \* other operations, and other ways to write them
     [Draft EXCEPT !.op = "append_event", !.named = "stream"],
     [Draft EXCEPT !.op = "delete_atom", !.auth = "user", !.risk = "grave"],
     [Certain(Draft, "m") EXCEPT !.op = "assert_atom", !.auth = "boss"],
     [Certain(Draft, "m") EXCEPT !.risk = "high", !.cert.required = ""],
     [Draft EXCEPT !.op = "link", !.named = "", !.link = "l", !.mentions = <<>>,
                   !.words = {}],
     [Draft EXCEPT !.op = "assert_link", !.named = "", !.mentions = <<>>,
                   !.words = {}],
     [Draft EXCEPT !.cert = [deps |-> Reads("k") \o Reads("") \o
            <<[target |-> "h", expected |-> "", fresh |-> TRUE]>>,
                             confident |-> TRUE]]}

Saying(drafts) == [form |-> "object", said |-> TRUE, intents |-> drafts]

Usable ==
    {Saying(<<d>>) : d \in Drafts}
    \cup {Saying(<<Certain(Draft, "m"), Certain(Called("h", <<{"h"}>>, {}), "h")>>),
          [Saying(<<Draft>>) EXCEPT !.form = "fenced"],
          [Saying([k \in 1..8 |-> Draft]) EXCEPT !.form = "object then more"]}

Unusable ==
    {Saying(<<>>), Saying([k \in 1..9 |-> Draft]),
     [Saying(<<Draft>>) EXCEPT !.form = "array"],
     [Saying(<<Draft>>) EXCEPT !.said = FALSE],
     Saying(<<Draft, [Draft EXCEPT !.op = "rename"]>>),
     Saying(<<[Draft EXCEPT !.named = ""]>>),
     Saying(<<[Draft EXCEPT !.garbled = TRUE]>>),
     Saying(<<[Draft EXCEPT !.op = "append_event", !.named = "", !.link = "l"]>>)}

MCAnswers ==
    [kind : {"text"}, text : Usable \cup Unusable]
    \cup [kind : {"status"}, code : {400, 429, 505}]
    \cup [kind : {"transport", "reset", "odd", "empty"}]

-----------------------------------------------------------------------------
Ann == [id |-> "ann", role |-> "builder", scripted |-> <<>>,
        configured |-> <<>>, output |-> <<>>]

Attaching == [enabled |-> TRUE, drops |-> FALSE, fakes |-> 0]

Turn ==
    [agent |-> Ann, scenario |-> MCScenario, specs |-> [x \in {} |-> ""],
     provider |-> "openai", keyed |-> TRUE, logged |-> TRUE,
     parseRetries |-> 0, providerRetries |-> 0, shown |-> [m |-> "active"],
     candidates |-> MCCandidates, grounding |-> TRUE, witness |-> Attaching,
     mode |-> "adaptive_wccu_execution_trace"]

Optional(t) == <<[target |-> t, expected |-> "any", fresh |-> FALSE]>>

\* ann's output logs a read that need not be fresh, her configuration another
\* one twice.
Reading ==
    [Ann EXCEPT !.scripted = Optional("k"),
                !.configured = Reads("p") \o Reads("") \o Optional("p")]

RetryTurns ==
    {[Turn EXCEPT !.parseRetries = r, !.providerRetries = p, !.logged = r = p] :
        r \in 0..1, p \in 0..1}
    \cup {[Turn EXCEPT !.providerRetries = 2]}

VerifyTurns ==
    {[Turn EXCEPT !.mode = m, !.grounding = g, !.agent = a, !.witness = w] :
        m \in {"adaptive_wccu", "adaptive_wccu_execution_trace", "adaptive"},
        g \in BOOLEAN, a \in {Ann, Reading},
        w \in [enabled : BOOLEAN, drops : BOOLEAN, fakes : 0..1]}

Silent == [Turn EXCEPT !.candidates = <<>>,
                       !.scenario.disabled = {"O-TARGET"}]

\* Turns that never make a call, or whose provider is an override.
OtherTurns ==
    {[Turn EXCEPT !.provider = "mock"], [Turn EXCEPT !.keyed = FALSE], Silent,
     [Turn EXCEPT !.provider = "other"],
     [Turn EXCEPT !.provider = "other",
                  !.specs = [x \in {"*", "builder"} |->
                      IF x = "*" THEN "gemini" ELSE "mock"],
                  !.agent.output = <<Certain(Draft, "m"), ByWords>>]}

MCTurns == RetryTurns \cup VerifyTurns \cup OtherTurns
=============================================================================
