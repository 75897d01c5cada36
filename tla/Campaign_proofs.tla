-------------------------- MODULE Campaign_proofs --------------------------
(***************************************************************************)
(* What a driver leaves behind, for any scripts, any jobs, any team and    *)
(* any number of starts, kills and workers: every cell has one row, every  *)
(* failure is in the error log and every row was computed from its own     *)
(* store.                                                                  *)
(***************************************************************************)
EXTENDS Campaign, FiniteSetTheorems, SequenceTheorems, TLAPS

Filled(rows) == {r.cell : r \in rows}

-----------------------------------------------------------------------------
(* The invariant behind the first two theorems. *)

\* The process of a driver and its files.  Nothing is in progress when no
\* driver runs, and the rows of a running driver are the rows of its JSONL.
Standing ==
    /\ campaign \in Campaigns
    /\ script \in Seq(Steps)
    /\ phase \in Phases
    /\ DOMAIN jsonl = Outs /\ DOMAIN errors = LogFiles /\ DOMAIN result = Outs
    /\ IsList(results)
    /\ phase = "idle" => /\ queue = <<>> /\ results = <<>>
                         /\ running = {} /\ raised = {} /\ done = {}
    /\ phase # "idle" => /\ script # <<>>
                         /\ job \in Jobs /\ jsonl[job.out] = results

\* What a pool has at hand is a cell of its job.
Pooled ==
    phase # "idle" /\ job.driver # "bench" =>
        /\ IsList(queue)
        /\ Occurring(queue) \cup running \cup raised \subseteq Cells(job)

\* A running cell finds its own seed in its directory.
Seeds ==
    /\ phase # "idle" /\ job.driver = "bench" => running = {}
    /\ \A c \in running : RunDir(c) \in DOMAIN store /\ store[RunDir(c)] = c

\* The error row of a future has its entry already.
Logged ==
    job.driver \in {"live", "generate"} =>
        \A r \in done : r.is = "error" => Entry(r.cell) \in errors[job.log]

DriverInv ==
    Standing /\ Pooled /\ Seeds /\ Logged /\ CellsAreIsolated /\ FailuresAreLogged

-----------------------------------------------------------------------------
(* The invariant behind the third theorem. *)

\* The cells C, split into five parts.
Split(C, Q, W, X, D, E) ==
    /\ C = Q \cup W \cup X \cup D \cup E
    /\ Q \cap W = {} /\ Q \cap X = {} /\ Q \cap D = {} /\ Q \cap E = {}
    /\ W \cap X = {} /\ W \cap D = {} /\ W \cap E = {}
    /\ X \cap D = {} /\ X \cap E = {}
    /\ D \cap E = {}

\* A cell is in one place, once.
OnePlace ==
    phase \in {"running", "freezing", "stamping"} /\ job.driver # "bench" =>
        /\ Split(Cells(job), Occurring(queue), running, raised, Filled(done),
                 Filled(Occurring(results)))
        /\ NoRepeats(queue)
        /\ \A r, q \in done : r.cell = q.cell => r = q
        /\ \A m, n \in DOMAIN results :
               results[m].cell = results[n].cell => m = n

\* Result files are no younger than the last driver; it writes its own when
\* all its cells are done.
Dated ==
    /\ drives \in Nat
    /\ \A o \in Outs : result[o].whole =>
           /\ result[o].drive \in Nat /\ result[o].drive <= drives
           /\ phase \in {"running", "leaving"} => result[o].drive < drives
    /\ phase \in {"freezing", "stamping"} => WorkersIdle /\ done = {}

RowsInv == DriverInv /\ OnePlace /\ Dated /\ EveryCellOnce

-----------------------------------------------------------------------------
(* Lists. *)

LEMMA ListFacts ==
    ASSUME NEW s, IsList(s)
    PROVE  Len(s) \in Nat /\ DOMAIN s = 1..Len(s) /\ s \in Seq(Occurring(s))
  BY DEF IsList, Occurring

LEMMA EmptyList == IsList(<<>>) /\ Occurring(<<>>) = {}
  BY DEF IsList, Occurring

LEMMA ListAppend ==
    ASSUME NEW s, IsList(s), NEW x
    PROVE  /\ IsList(Append(s, x))
           /\ Occurring(Append(s, x)) = Occurring(s) \cup {x}
           /\ DOMAIN Append(s, x) = 1..(Len(s) + 1)
           /\ \A n \in 1..Len(s) : Append(s, x)[n] = s[n]
           /\ Append(s, x)[Len(s) + 1] = x
  <1> DEFINE S == Occurring(s)
             T == S \cup {x}
             a == Append(s, x)
  <1>1. s \in Seq(S) /\ Len(s) \in Nat /\ DOMAIN s = 1..Len(s)
    BY ListFacts
  <1>2. s \in Seq(T)
    <2> HIDE DEF S
    <2> QED BY <1>1
  <1>3. a \in Seq(T) /\ Len(a) = Len(s) + 1
    <2> HIDE DEF T
    <2>1. x \in T
      BY DEF T
    <2> QED BY <1>2, <2>1
  <1>4. DOMAIN a = 1..(Len(s) + 1)
    <2> HIDE DEF T, a
    <2> QED BY <1>3
  <1>5. \A n \in 1..Len(s) : a[n] = s[n]
    <2> HIDE DEF T
    <2> QED BY <1>2
  <1>6. a[Len(s) + 1] = x
    <2> HIDE DEF T
    <2> QED BY <1>2
  <1>7. Occurring(a) = T
    <2> HIDE DEF a
    <2>1. {a[n] : n \in 1..(Len(s) + 1)} =
              {a[n] : n \in 1..Len(s)} \cup {a[Len(s) + 1]}
      <3>1. 1..(Len(s) + 1) = 1..Len(s) \cup {Len(s) + 1}
        BY <1>1
      <3> QED BY <3>1
    <2>2. {a[n] : n \in 1..Len(s)} = {s[n] : n \in 1..Len(s)}
      BY <1>5
    <2> QED BY <1>1, <1>4, <1>6, <2>1, <2>2 DEF Occurring
  <1>8. IsList(a)
    <2>1. IsList(a) <=> a \in Seq(Occurring(a))
      BY DEF IsList, Occurring
    <2> HIDE DEF a, T
    <2> QED BY <1>3, <1>7, <2>1
  <1> QED BY <1>4, <1>5, <1>6, <1>7, <1>8

LEMMA ListTail ==
    ASSUME NEW s, IsList(s), s # <<>>
    PROVE  /\ IsList(Tail(s))
           /\ Head(s) \in Occurring(s)
           /\ Occurring(Tail(s)) \subseteq Occurring(s)
           /\ Occurring(s) = Occurring(Tail(s)) \cup {Head(s)}
           /\ NoRepeats(s) => NoRepeats(Tail(s)) /\ Head(s) \notin Occurring(Tail(s))
  <1> DEFINE S == Occurring(s)
             t == Tail(s)
  <1>1. s \in Seq(S) /\ Len(s) \in Nat /\ DOMAIN s = 1..Len(s)
    BY ListFacts
  <1>2. Len(s) # 0 /\ Head(s) = s[1] /\ 1 \in DOMAIN s
    <2> HIDE DEF S
    <2> QED BY <1>1
  <1>3. /\ t \in Seq(S) /\ Len(t) = Len(s) - 1
        /\ DOMAIN t = 1..(Len(s) - 1)
        /\ \A n \in 1..(Len(s) - 1) : t[n] = s[n + 1]
    <2> HIDE DEF S
    <2> QED BY <1>1, <1>2
  <1> HIDE DEF t
  <1>4. Occurring(t) = {s[n + 1] : n \in 1..(Len(s) - 1)}
    BY <1>3 DEF Occurring
  <1>5. Occurring(s) = Occurring(t) \cup {s[1]}
    <2>1. ASSUME NEW n \in 1..Len(s)
          PROVE  n = 1 \/ (n - 1 \in 1..(Len(s) - 1) /\ n = (n - 1) + 1)
      BY <1>1
    <2>2. ASSUME NEW n \in 1..(Len(s) - 1)
          PROVE  n + 1 \in 1..Len(s)
      BY <1>1
    <2>3. Occurring(s) = {s[n] : n \in 1..Len(s)}
      BY <1>1 DEF Occurring
    <2>4. \A n \in 1..Len(s) : s[n] \in Occurring(t) \cup {s[1]}
      BY <2>1, <1>4
    <2>5. \A n \in 1..(Len(s) - 1) : s[n + 1] \in Occurring(s)
      BY <2>2, <2>3
    <2>6. s[1] \in Occurring(s)
      BY <1>2 DEF Occurring
    <2> QED BY <2>3, <2>4, <2>5, <2>6, <1>4
  <1>6. IsList(t)
    <2>1. \A n \in DOMAIN t : t[n] \in Occurring(t)
      BY DEF Occurring
    <2>2. Len(t) \in Nat /\ DOMAIN t = 1..Len(t)
      BY <1>1, <1>2, <1>3
    <2>3. IsList(t) <=> t \in Seq(Occurring(t))
      BY DEF IsList, Occurring
    <2> HIDE DEF S
    <2>4. t = [n \in 1..Len(t) |-> t[n]]
      BY <1>3, <2>2
    <2> QED BY <2>1, <2>2, <2>3, <2>4
  <1>7. ASSUME NoRepeats(s)
        PROVE  NoRepeats(t) /\ s[1] \notin Occurring(t)
    <2>1. \A n \in 1..(Len(s) - 1) : n + 1 \in DOMAIN s /\ n + 1 # 1
      BY <1>1
    <2>2. s[1] \notin Occurring(t)
      BY <1>2, <1>4, <1>7, <2>1 DEF NoRepeats
    <2>3. ASSUME NEW m \in DOMAIN t, NEW n \in DOMAIN t, t[m] = t[n]
          PROVE  m = n
      <3>1. s[m + 1] = s[n + 1] /\ m + 1 \in DOMAIN s /\ n + 1 \in DOMAIN s
        BY <1>3, <2>1, <2>3
      <3>2. m + 1 = n + 1
        BY <1>7, <3>1 DEF NoRepeats
      <3> QED BY <3>2, <1>3, <1>1
    <2> QED BY <2>2, <2>3 DEF NoRepeats
  <1> QED BY <1>2, <1>5, <1>6, <1>7 DEF t

LEMMA ListJoin ==
    ASSUME NEW s, IsList(s), NEW t, IsList(t)
    PROVE  /\ IsList(s \o t)
           /\ Occurring(s \o t) = Occurring(s) \cup Occurring(t)
  <1> DEFINE S == Occurring(s)
             T == Occurring(t)
             U == S \cup T
             a == s \o t
  <1>1. /\ s \in Seq(S) /\ Len(s) \in Nat /\ DOMAIN s = 1..Len(s)
        /\ t \in Seq(T) /\ Len(t) \in Nat /\ DOMAIN t = 1..Len(t)
    BY ListFacts
  <1>2. s \in Seq(U) /\ t \in Seq(U)
    <2> HIDE DEF S, T
    <2> QED BY <1>1
  <1>3. /\ a \in Seq(U) /\ Len(a) = Len(s) + Len(t)
        /\ DOMAIN a = 1..(Len(s) + Len(t))
        /\ \A n \in 1..(Len(s) + Len(t)) :
               a[n] = IF n <= Len(s) THEN s[n] ELSE t[n - Len(s)]
    <2> HIDE DEF U
    <2> QED BY <1>2
  <1> HIDE DEF a
  <1>4. \A n \in DOMAIN s : n \in DOMAIN a /\ a[n] = s[n]
    BY <1>1, <1>3
  <1>5. \A n \in DOMAIN t : n + Len(s) \in DOMAIN a /\ a[n + Len(s)] = t[n]
    BY <1>1, <1>3
  <1>6. \A n \in DOMAIN a : \/ n \in DOMAIN s
                            \/ n - Len(s) \in DOMAIN t /\ a[n] = t[n - Len(s)]
    BY <1>1, <1>3
  <1>7. Occurring(a) = U
    <2>1. S \subseteq Occurring(a)
      BY <1>4 DEF Occurring
    <2>2. T \subseteq Occurring(a)
      BY <1>5 DEF Occurring
    <2>3. Occurring(a) \subseteq U
      BY <1>4, <1>6 DEF Occurring
    <2> QED BY <2>1, <2>2, <2>3
  <1>8. IsList(a) <=> a \in Seq(Occurring(a))
    BY DEF IsList, Occurring
  <1> HIDE DEF U
  <1>9. IsList(a)
    BY <1>3, <1>7, <1>8
  <1> QED BY <1>7, <1>9 DEF a, U

-----------------------------------------------------------------------------
(* Jobs, their cells and their queues. *)

LEMMA StepFacts ==
    ASSUME script \in Seq(Steps), script # <<>>
    PROVE  /\ Head(script) \in Steps /\ Tail(script) \in Seq(Steps)
           /\ Head(script).do = "drive" => Head(script).job \in Jobs
  <1>1. Head(script) \in Steps /\ Tail(script) \in Seq(Steps)
    BY HeadTailProperties
  <1> QED BY <1>1 DEF Jobs

LEMMA JobFacts ==
    ASSUME NEW j \in Jobs
    PROVE  /\ j.out \in Outs /\ j.log \in LogFiles
           /\ Len(j.scenarios) \in Nat /\ DOMAIN j.scenarios = 1..Len(j.scenarios)
           /\ Len(j.conditions) \in Nat /\ DOMAIN j.conditions = 1..Len(j.conditions)
           /\ j.repetitions \in Nat \ {0}
           /\ CellCount(j) \in Nat
  <1>1. IsList(j.scenarios) /\ IsList(j.conditions) /\ j.repetitions \in Nat \ {0}
    BY CampaignsAssumption
  <1>2. /\ Len(j.scenarios) \in Nat /\ DOMAIN j.scenarios = 1..Len(j.scenarios)
        /\ Len(j.conditions) \in Nat /\ DOMAIN j.conditions = 1..Len(j.conditions)
    BY <1>1, ListFacts
  <1>3. \A k, l, m \in Nat : k * l * m \in Nat
    OBVIOUS
  <1>4. CellCount(j) \in Nat
    BY <1>1, <1>2, <1>3 DEF CellCount
  <1>5. j.out \in Outs /\ j.log \in LogFiles
    BY DEF Outs, LogFiles
  <1> QED BY <1>1, <1>2, <1>4, <1>5

\* A directory is one cell's.
LEMMA OwnDirectory ==
    ASSUME NEW j, NEW c \in Cells(j), NEW d \in Cells(j), RunDir(c) = RunDir(d)
    PROVE  c = d
  BY DEF Cells, CellAt, RunDir

LEMMA QueueIsOfCells ==
    ASSUME NEW j \in Jobs, NEW q \in Queues(j)
    PROVE  IsList(q) /\ Occurring(q) \subseteq Cells(j)
  <1> DEFINE size == CellCount(j)
  <1>1. PICK p \in Orders(j) : q = [n \in 1..size |-> CellAt(j, p[n])]
    BY DEF Queues
  <1>2. size \in Nat
    BY JobFacts
  <1>3. \A n \in 1..size : p[n] \in 0..(size - 1)
    <2>1. CASE j.shuffle
      BY <2>1 DEF Orders
    <2>2. CASE ~j.shuffle
      <3>1. p = [n \in 1..size |-> n - 1]
        BY <2>2 DEF Orders
      <3> QED BY <3>1, <1>2
    <2> QED BY <2>1, <2>2
  <1>4. \A n \in 1..size : q[n] = CellAt(j, p[n]) /\ q[n] \in Cells(j)
    BY <1>1, <1>3 DEF Cells
  <1>5. DOMAIN q = 1..size /\ q = [n \in 1..size |-> q[n]]
    BY <1>1
  <1>6. \A n \in 1..size : q[n] \in Occurring(q)
    BY <1>5 DEF Occurring
  <1> HIDE DEF size
  <1>7. q \in Seq(Occurring(q))
    BY <1>2, <1>5, <1>6
  <1> QED BY <1>4, <1>5, <1>7 DEF IsList, Occurring

-----------------------------------------------------------------------------
(* The first invariant is kept. *)

LEMMA DriverInit == CampaignInit => DriverInv
  <1> SUFFICES ASSUME CampaignInit
               PROVE  DriverInv
    OBVIOUS
  <1> USE DEF CampaignInit
  <1>1. Standing
    BY EmptyList DEF Standing, Phases
  <1>2. Pooled /\ Seeds /\ Logged /\ FailuresAreLogged
    BY DEF Pooled, Seeds, Logged, FailuresAreLogged
  <1>3. CellsAreIsolated
    BY EmptyList DEF CellsAreIsolated
  <1> QED BY <1>1, <1>2, <1>3 DEF DriverInv

\* A process that is gone leaves its files.
LEMMA DriverStops ==
    ASSUME DriverInv, Stop, UNCHANGED campaign, script' \in Seq(Steps),
           DOMAIN result' = Outs
    PROVE  DriverInv'
  <1> USE DEF DriverInv, Stop, Process
  <1>1. Standing'
    BY EmptyList DEF Standing, Phases
  <1>2. Pooled' /\ Seeds' /\ Logged'
    BY DEF Pooled, Seeds, Logged
  <1>3. CellsAreIsolated'
    BY EmptyList DEF CellsAreIsolated
  <1>4. FailuresAreLogged'
    BY DEF FailuresAreLogged, FailedIn, Occurring, Entry
  <1> QED BY <1>1, <1>2, <1>3, <1>4

LEMMA DriverStarts ==
    ASSUME DriverInv, StartDriver
    PROVE  DriverInv'
  <1> USE DEF DriverInv
  <1> DEFINE j == Head(script).job
  <1>1. /\ script # <<>> /\ phase = "idle" /\ job' = j
        /\ jsonl' = IF CannotStart(j) /\ ChecksFirst(j) THEN jsonl
                    ELSE [jsonl EXCEPT ![j.out] = <<>>]
        /\ errors' = IF (CannotStart(j) /\ ChecksFirst(j)) \/ ~Logs(j) THEN errors
                     ELSE [errors EXCEPT ![j.log] = {}]
        /\ result' = result /\ campaign' = campaign
    BY DEF StartDriver, AtStep, disk
  <1>2. j \in Jobs /\ j.out \in Outs
    BY StepFacts, JobFacts DEF StartDriver, AtStep, Standing
  <1>3. /\ DOMAIN jsonl' = Outs /\ DOMAIN errors' = LogFiles
        /\ ~(CannotStart(j) /\ ChecksFirst(j)) => jsonl'[j.out] = <<>>
    BY <1>1, <1>2 DEF Standing
  <1>4. FailuresAreLogged'
    <2> SUFFICES ASSUME j.driver \in {"live", "generate"}
                 PROVE  FailedIn(jsonl'[j.out]) = {}
      BY <1>1 DEF FailuresAreLogged
    <2> QED BY <1>3, EmptyList DEF FailedIn, ChecksFirst
  <1>5. CASE CannotStart(j)
    <2>1. script' = <<>> /\ UNCHANGED inProcess
      BY <1>5 DEF StartDriver
    <2>2. Standing'
      BY <1>1, <1>3, <2>1 DEF Standing, inProcess
    <2>3. Pooled' /\ Seeds' /\ Logged' /\ CellsAreIsolated'
      BY <1>1, <2>1 DEF Standing, Pooled, Seeds, Logged, CellsAreIsolated, inProcess
    <2> QED BY <1>4, <2>2, <2>3
  <1>6. CASE ~CannotStart(j)
    <2>1. /\ Process("running") /\ script' = script
          /\ queue' \in IF j.driver = "bench" THEN {BenchQueue(j)} ELSE Queues(j)
      BY <1>6 DEF StartDriver
    <2>2. Standing'
      BY <1>1, <1>2, <1>3, <1>6, <2>1, EmptyList DEF Standing, Process, Phases
    <2>3. Pooled'
      BY <1>1, <1>2, <2>1, QueueIsOfCells DEF Pooled, Process
    <2>4. Seeds' /\ Logged'
      BY <2>1 DEF Seeds, Logged, Process
    <2>5. CellsAreIsolated'
      BY <2>1, EmptyList DEF CellsAreIsolated, Process
    <2> QED BY <1>4, <2>2, <2>3, <2>4, <2>5
  <1> QED BY <1>5, <1>6

LEMMA DriverPool ==
    ASSUME DriverInv, PoolNext, UNCHANGED <<writer, disk, shell>>
    PROVE  DriverInv'
  <1> USE DEF DriverInv
  <1>1. /\ campaign' = campaign /\ script' = script /\ result' = result
        /\ job' = job
    BY DEF PoolNext, TakesCell, SeedCell, SeedRaises, FinishCell, CellRaises,
           LogError, Collect, CollectRaised, disk, shell
  <1>2. CASE SeedCell
    <2> DEFINE c == Head(queue)
    <2>1. /\ job' = job /\ phase' = phase /\ phase # "idle" /\ job.driver # "bench"
          /\ queue # <<>> /\ queue' = Tail(queue)
          /\ running' = running \cup {c} /\ store' = Seeded(c)
          /\ UNCHANGED <<raised, done, results, jsonl, errors>>
      BY <1>2 DEF SeedCell, TakesCell
    <2>2. /\ IsList(Tail(queue)) /\ c \in Cells(job)
          /\ Occurring(Tail(queue)) \subseteq Occurring(queue)
      BY <2>1, ListTail DEF Pooled
    <2>3. Standing'
      BY <1>1, <2>1 DEF Standing
    <2>4. Pooled'
      BY <2>1, <2>2 DEF Pooled
    <2>5. ASSUME NEW d \in running'
          PROVE  RunDir(d) \in DOMAIN store' /\ store'[RunDir(d)] = d
      <3>1. CASE RunDir(d) = RunDir(c)
        <4>1. d \in Cells(job)
          BY <2>1, <2>2, <2>4, <2>5 DEF Pooled
        <4>2. d = c
          BY <3>1, <4>1, <2>2, OwnDirectory
        <4> QED BY <2>1, <4>2 DEF Seeded
      <3>2. CASE RunDir(d) # RunDir(c)
        <4>1. d \in running
          BY <2>1, <3>2
        <4> QED BY <2>1, <3>2, <4>1 DEF Seeded, Seeds
      <3> QED BY <3>1, <3>2
    <2>6. Seeds' /\ Logged' /\ CellsAreIsolated' /\ FailuresAreLogged'
      BY <2>1, <2>5 DEF Seeds, Logged, CellsAreIsolated, FailuresAreLogged, Entry
    <2> QED BY <2>3, <2>4, <2>6
  <1>3. ASSUME NEW c \in running, FinishCell(c)
        PROVE  DriverInv'
    <2>1. /\ job' = job /\ phase' = phase /\ running' = running \ {c}
          /\ UNCHANGED <<queue, raised, results, store, jsonl, errors>>
      BY <1>3 DEF FinishCell
    <2>2. PICK said : done' = done \cup {Row(c, said)}
      BY <1>3 DEF FinishCell
    <2>3. phase # "idle"
      BY <1>3 DEF Standing
    <2>4. Row(c, said).is = "row" /\ Row(c, said).saw = c /\ Row(c, said).cell = c
      BY <1>3 DEF Row, Seeds
    <2>5. Standing' /\ Pooled' /\ Seeds'
      BY <1>1, <2>1, <2>3 DEF Standing, Pooled, Seeds
    <2>6. Logged' /\ CellsAreIsolated' /\ FailuresAreLogged'
      BY <2>1, <2>2, <2>4 DEF Logged, CellsAreIsolated, FailuresAreLogged, Entry
    <2> QED BY <2>5, <2>6
  <1>4. ASSUME NEW c \in running, CellRaises(c)
        PROVE  DriverInv'
    <2>1. /\ job' = job /\ phase' = phase /\ running' = running \ {c}
          /\ raised' \subseteq raised \cup {c}
          /\ UNCHANGED <<queue, results, store, jsonl, errors>>
      BY <1>4 DEF CellRaises
    <2>2. \/ done' = done
          \/ done' = done \cup {Exception(c)}
          \/ ~Logs(job) /\ done' = done \cup {ErrorRow(c)}
      BY <1>4 DEF CellRaises
    <2>3. phase # "idle"
      BY <1>4 DEF Standing
    <2>4. Standing' /\ Pooled' /\ Seeds'
      BY <1>1, <1>4, <2>1, <2>3 DEF Standing, Pooled, Seeds
    <2>5. \A r \in done' \ done :
              r.saw = r.cell /\ (r.is = "exception" \/ ~Logs(job))
      BY <2>2 DEF Exception, ErrorRow
    <2>6. CellsAreIsolated' /\ FailuresAreLogged'
      BY <2>1, <2>5 DEF CellsAreIsolated, FailuresAreLogged, Entry
    <2>7. Logged'
      BY <2>1, <2>5 DEF Logged, Logs, Entry
    <2> QED BY <2>4, <2>6, <2>7
  <1>5. ASSUME NEW c \in raised, LogError(c)
        PROVE  DriverInv'
    <2>1. /\ job' = job /\ phase' = phase /\ raised' = raised \ {c}
          /\ done' = done \cup {ErrorRow(c)}
          /\ errors' = [errors EXCEPT ![job.log] = @ \cup {Entry(c)}]
          /\ UNCHANGED <<queue, running, results, store, jsonl>>
      BY <1>5 DEF LogError
    <2>2. phase # "idle" /\ job.log \in DOMAIN errors
      BY <1>5, JobFacts DEF Standing
    <2>3. /\ errors'[job.log] = errors[job.log] \cup {Entry(c)}
          /\ DOMAIN errors' = LogFiles
      BY <2>1, <2>2 DEF Standing
    <2>4. ErrorRow(c).cell = c /\ ErrorRow(c).saw = c
      BY DEF ErrorRow
    <2>5. Standing' /\ Pooled' /\ Seeds'
      BY <1>1, <2>1, <2>2, <2>3 DEF Standing, Pooled, Seeds
    <2>6. Logged' /\ CellsAreIsolated' /\ FailuresAreLogged'
      BY <2>1, <2>3, <2>4 DEF Logged, CellsAreIsolated, FailuresAreLogged, Entry
    <2> QED BY <2>5, <2>6
  <1>6. CASE Collect
    <2>1. PICK r \in done :
              /\ done' = done \ {r}
              /\ results' = Append(results, r)
              /\ jsonl' = [jsonl EXCEPT ![job.out] = Append(@, r)]
      BY <1>6 DEF Collect
    <2>2. /\ job' = job /\ phase' = phase /\ phase # "idle"
          /\ UNCHANGED <<queue, running, raised, store, errors>>
      BY <1>6 DEF Collect
    <2>3. /\ job.out \in Outs /\ jsonl'[job.out] = results'
          /\ DOMAIN jsonl' = Outs
      BY <2>1, <2>2, JobFacts DEF Standing
    <2>4. IsList(results') /\ Occurring(results') = Occurring(results) \cup {r}
      BY <2>1, ListAppend DEF Standing
    <2>5. Standing' /\ Pooled' /\ Seeds'
      BY <1>1, <2>2, <2>3, <2>4 DEF Standing, Pooled, Seeds
    <2>6. Logged' /\ CellsAreIsolated'
      BY <2>1, <2>2, <2>4 DEF Logged, CellsAreIsolated, Entry
    <2>7. FailedIn(jsonl'[job.out]) \subseteq
              FailedIn(jsonl[job.out]) \cup {q \in {r} : q.is = "error"}
      BY <2>2, <2>3, <2>4 DEF FailedIn, Standing
    <2>8. FailuresAreLogged'
      BY <2>1, <2>2, <2>7 DEF FailuresAreLogged, Logged, Entry
    <2> QED BY <2>5, <2>6, <2>8
  <1>7. CASE CollectRaised
    <2>1. /\ job' = job /\ phase = "running" /\ phase' = "leaving"
          /\ queue' = <<>> \/ queue' = queue
          /\ UNCHANGED <<running, raised, done, results, store, jsonl, errors>>
      BY <1>7 DEF CollectRaised
    <2>2. Standing' /\ Pooled' /\ Seeds'
      BY <1>1, <2>1, EmptyList DEF Standing, Pooled, Seeds, Phases
    <2>3. Logged' /\ CellsAreIsolated' /\ FailuresAreLogged'
      BY <2>1 DEF Logged, CellsAreIsolated, FailuresAreLogged, Entry
    <2> QED BY <2>2, <2>3
  <1>8. CASE SeedRaises
    <2> DEFINE c == Head(queue)
    <2>1. /\ job' = job /\ phase' = phase /\ phase # "idle" /\ job.driver # "bench"
          /\ queue # <<>> /\ queue' = Tail(queue) /\ done' = done \cup {Exception(c)}
          /\ UNCHANGED <<running, raised, results, store, jsonl, errors>>
      BY <1>8 DEF SeedRaises, TakesCell
    <2>2. IsList(Tail(queue)) /\ Occurring(Tail(queue)) \subseteq Occurring(queue)
      BY <2>1, ListTail DEF Pooled
    <2>3. Exception(c).saw = Exception(c).cell /\ Exception(c).is = "exception"
      BY DEF Exception
    <2>4. Standing' /\ Pooled' /\ Seeds'
      BY <1>1, <2>1, <2>2 DEF Standing, Pooled, Seeds
    <2>5. Logged' /\ CellsAreIsolated' /\ FailuresAreLogged'
      BY <2>1, <2>3 DEF Logged, CellsAreIsolated, FailuresAreLogged, Entry
    <2> QED BY <2>4, <2>5
  <1> QED BY <1>2, <1>3, <1>4, <1>5, <1>6, <1>7, <1>8 DEF PoolNext

\* The rows of the conditions of a pair that raised.
LEMMA DriverBench ==
    ASSUME DriverInv, BenchNext, UNCHANGED <<disk, shell>>
    PROVE  DriverInv'
  <1> USE DEF DriverInv
  <1>1. /\ campaign' = campaign /\ script' = script /\ result' = result
        /\ job' = job /\ running' = running /\ done' = done
    BY DEF BenchNext, Generate, MeetCondition, PairRaises, LogPair, BenchRaises,
           disk, shell, poolVars, inProcess
  <1>2. ASSUME job.driver = "bench", phase # "idle", NEW rows, IsList(rows),
               \A r \in Occurring(rows) : r.saw = r.cell,
               results' = results \o rows,
               jsonl' = [jsonl EXCEPT ![job.out] = @ \o rows],
               UNCHANGED <<phase, errors>>
        PROVE  DriverInv'
    <2>1. /\ job.out \in Outs /\ jsonl'[job.out] = results'
          /\ DOMAIN jsonl' = Outs
      BY <1>2, JobFacts DEF Standing
    <2>2. /\ IsList(results')
          /\ Occurring(results') = Occurring(results) \cup Occurring(rows)
      BY <1>2, ListJoin DEF Standing
    <2>3. running = {}
      BY <1>2 DEF Seeds
    <2>4. Standing' /\ Pooled' /\ Seeds' /\ Logged' /\ FailuresAreLogged'
      BY <1>1, <1>2, <2>1, <2>2, <2>3 DEF Standing, Pooled, Seeds, Logged, FailuresAreLogged
    <2>5. CellsAreIsolated'
      BY <1>1, <1>2, <2>2 DEF CellsAreIsolated
    <2> QED BY <2>4, <2>5
  <1>3. CASE Generate
    <2>1. phase # "idle" /\ UNCHANGED poolVars
      BY <1>3 DEF Generate, InPair
    <2> QED BY <1>1, <2>1 DEF Standing, Pooled, Seeds, Logged, CellsAreIsolated,
              FailuresAreLogged, poolVars, inProcess, Entry
  <1>4. CASE MeetCondition
    <2> DEFINE r == [cell |-> Head(queue), is |-> "row", said |-> writer,
                     saw |-> Head(queue)]
    <2>1. /\ job.driver = "bench" /\ phase # "idle" /\ phase' = phase
          /\ errors' = errors
          /\ results' = Append(results, r)
          /\ jsonl' = [jsonl EXCEPT ![job.out] = Append(@, r)]
      BY <1>4 DEF MeetCondition, InPair, BenchRow
    <2>2. r.saw = r.cell
      OBVIOUS
    <2> HIDE DEF r
    <2>3. /\ job.out \in Outs /\ jsonl'[job.out] = results'
          /\ DOMAIN jsonl' = Outs
      BY <2>1, JobFacts DEF Standing
    <2>4. IsList(results') /\ Occurring(results') = Occurring(results) \cup {r}
      BY <2>1, ListAppend DEF Standing
    <2>5. running = {}
      BY <2>1 DEF Seeds
    <2>6. Standing' /\ Pooled' /\ Seeds' /\ Logged' /\ FailuresAreLogged'
      BY <1>1, <2>1, <2>3, <2>4, <2>5 DEF Standing, Pooled, Seeds, Logged, FailuresAreLogged
    <2>7. CellsAreIsolated'
      BY <1>1, <2>2, <2>4 DEF CellsAreIsolated
    <2> QED BY <2>6, <2>7
  <1>5. CASE PairRaises
    <2> DEFINE row(k) == ErrorRow(Under(Head(queue), job.conditions[k]))
               rows == [k \in 1..Len(job.conditions) |-> row(k)]
    <2>1. /\ job.driver = "bench" /\ phase # "idle" /\ UNCHANGED <<phase, errors>>
          /\ results' = results \o rows
          /\ jsonl' = [jsonl EXCEPT ![job.out] = @ \o rows]
      BY <1>5 DEF PairRaises, InPair
    <2>2. Len(job.conditions) \in Nat
      BY <2>1, JobFacts DEF Standing
    <2>3. DOMAIN rows = 1..Len(job.conditions)
      OBVIOUS
    <2>4. \A k \in 1..Len(job.conditions) : row(k).saw = row(k).cell
      BY DEF ErrorRow
    <2>5. \A r \in Occurring(rows) : r.saw = r.cell
      BY <2>3, <2>4 DEF Occurring
    <2>6. \A k \in 1..Len(job.conditions) : rows[k] \in Occurring(rows)
      BY <2>3 DEF Occurring
    <2>7. rows = [k \in 1..Len(job.conditions) |-> rows[k]]
      OBVIOUS
    <2> HIDE DEF rows
    <2>8. rows \in Seq(Occurring(rows))
      BY <2>2, <2>6, <2>7
    <2>9. IsList(rows)
      BY <2>8 DEF IsList, Occurring
    <2> QED BY <1>2, <2>1, <2>5, <2>9
  <1>6. CASE LogPair
    <2>1. /\ job.driver = "bench" /\ raised # {} /\ phase' = phase
          /\ DOMAIN errors' = DOMAIN errors
          /\ UNCHANGED <<queue, results, store, jsonl>> /\ raised' = {}
      BY <1>6 DEF LogPair
    <2> QED BY <1>1, <2>1 DEF Standing, Pooled, Seeds, Logged, CellsAreIsolated,
              FailuresAreLogged
  <1>7. CASE BenchRaises
    <2>1. /\ job.driver = "bench" /\ phase # "idle" /\ phase' = "leaving"
          /\ queue' = <<>>
          /\ UNCHANGED <<raised, results, store, jsonl, errors>>
      BY <1>7 DEF BenchRaises, InPair
    <2> QED BY <1>1, <2>1 DEF Standing, Pooled, Seeds, Logged, CellsAreIsolated,
              FailuresAreLogged, Phases
  <1> QED BY <1>3, <1>4, <1>5, <1>6, <1>7 DEF BenchNext

LEMMA DriverStep == DriverInv /\ [CampaignNext]_campaignVars => DriverInv'
  <1> SUFFICES ASSUME DriverInv, [CampaignNext]_campaignVars
               PROVE  DriverInv'
    OBVIOUS
  <1>1. script # <<>> => Tail(script) \in Seq(Steps)
    BY StepFacts DEF DriverInv, Standing
  <1>2. <<>> \in Seq(Steps) /\ DOMAIN result = Outs /\ campaign \in Campaigns
    BY DEF DriverInv, Standing
  <1>3. ASSUME UNCHANGED benchVars, campaign' = campaign, script' \in Seq(Steps),
               phase = "idle" \/ script' = script, DOMAIN result' = Outs
        PROVE  DriverInv'
    BY <1>3 DEF DriverInv, Standing, Pooled, Seeds, Logged, CellsAreIsolated,
       FailuresAreLogged, Entry, benchVars, poolVars, inProcess
  <1>4. CASE StartScript
    <2>1. /\ UNCHANGED benchVars /\ campaign' = campaign /\ result' = result
          /\ script' \in campaign
      BY <1>4 DEF StartScript, disk
    <2>2. \A s \in UNION Campaigns : s \in Seq(Steps)
      <3> SUFFICES ASSUME NEW s \in UNION Campaigns
                   PROVE  s \in Seq(Steps)
        OBVIOUS
      <3>1. IsList(s)
        BY CampaignsAssumption
      <3>2. s \in Seq(Occurring(s))
        BY <3>1, ListFacts
      <3>3. Occurring(s) \subseteq Steps
        BY DEF Occurring, Steps
      <3> QED BY <3>2, <3>3, SeqMonotonic
    <2>3. script' \in Seq(Steps)
      BY <1>2, <2>1, <2>2
    <2>4. phase = "idle"
      BY <1>4 DEF StartScript, DriverInv, Standing
    <2> QED BY <1>2, <1>3, <2>1, <2>3, <2>4
  <1>5. CASE StartDriver
    BY <1>5, DriverStarts
  <1>6. CASE UnknownCondition
    <2>1. Stop /\ UNCHANGED campaign /\ script' = <<>> /\ result' = result
      BY <1>6 DEF UnknownCondition, disk
    <2> QED BY <1>2, <2>1, DriverStops
  <1>7. CASE Work
    BY <1>7, DriverPool, DriverBench DEF Work
  <1>8. CASE Leave
    <2>1. Stop /\ UNCHANGED campaign /\ script' = <<>> /\ result' = result
      BY <1>8 DEF Leave, disk
    <2> QED BY <1>2, <2>1, DriverStops
  <1>9. CASE WriteResult
    <2>1. AllCollected /\ result' = [result EXCEPT ![job.out] = ResultFile(FALSE)]
      BY <1>9 DEF WriteResult
    <2>2. DOMAIN result' = Outs
      BY <1>2, <2>1
    <2>3. CASE job.driver = "generate"
      <3>1. /\ phase' = "freezing" /\ UNCHANGED <<job, queue, running, raised, done,
                    results, store, frozen, jsonl, errors, writer, shell>>
        BY <1>9, <2>3 DEF WriteResult
      <3>2. phase = "running"
        BY <2>1 DEF AllCollected
      <3> QED BY <2>2, <3>1, <3>2 DEF DriverInv, Standing, Pooled, Seeds, Logged,
                CellsAreIsolated, FailuresAreLogged, Entry, Phases, shell
    <2>4. CASE job.driver # "generate"
      <3>1. NextStep /\ Stop /\ UNCHANGED campaign
        BY <1>9, <2>4 DEF WriteResult
      <3>2. script # <<>>
        BY <2>1 DEF AllCollected, DriverInv, Standing
      <3>3. script' \in Seq(Steps)
        BY <1>1, <3>1, <3>2 DEF NextStep
      <3> QED BY <2>2, <3>1, <3>3, DriverStops
    <2> QED BY <2>3, <2>4
  <1>10. CASE Freeze
    <2>1. /\ phase = "freezing" /\ phase' = "stamping"
          /\ UNCHANGED <<job, queue, running, raised, done, results, store, frozen,
                         jsonl, errors, writer, result, shell>>
      BY <1>10 DEF Freeze
    <2> QED BY <2>1 DEF DriverInv, Standing, Pooled, Seeds, Logged,
              CellsAreIsolated, FailuresAreLogged, Entry, Phases, shell
  <1>11. CASE Stamp
    <2>1. /\ NextStep /\ Stop /\ UNCHANGED campaign
          /\ result' = [result EXCEPT ![job.out] = ResultFile(TRUE)]
      BY <1>11 DEF Stamp
    <2>2. DOMAIN result' = Outs
      BY <1>2, <2>1
    <2>3. script # <<>>
      BY <1>11 DEF Stamp, DriverInv, Standing
    <2>4. script' \in Seq(Steps)
      BY <1>1, <2>1, <2>3 DEF NextStep
    <2> QED BY <2>1, <2>2, <2>4, DriverStops
  <1>12. CASE Analyze \/ Tabulate
    <2>1. /\ script # <<>> /\ phase = "idle" /\ NextStep
          /\ UNCHANGED <<benchVars, result, campaign>>
      BY <1>12 DEF Analyze, Tabulate, AtStep
    <2> QED BY <1>1, <1>2, <1>3, <2>1 DEF NextStep
  <1>13. CASE Kill
    <2>1. Stop /\ UNCHANGED campaign /\ script' = <<>>
      BY <1>13 DEF Kill
    <2>2. DOMAIN result' = Outs
      <3>1. result' = result \/ result' = [result EXCEPT ![job.out] = NoFile]
        BY <1>13 DEF Kill, disk
      <3> QED BY <1>2, <3>1
    <2> QED BY <1>2, <2>1, <2>2, DriverStops
  <1>14. CASE UNCHANGED campaignVars
    BY <1>2, <1>3, <1>14 DEF campaignVars, shell, disk, DriverInv, Standing
  <1> QED BY <1>4, <1>5, <1>6, <1>7, <1>8, <1>9, <1>10, <1>11, <1>12, <1>13, <1>14
            DEF CampaignNext, Progress

LEMMA DriverAlways == CampaignSpec => []DriverInv
  BY DriverInit, DriverStep, PTL DEF CampaignSpec

\* Every row is computed from the store that was seeded for its own cell,
\* whatever cells of the pool run beside it and in whichever order they end
\* (run_llm_experiment.py:216, independent cells; 145-150).
THEOREM RowsAreIsolated == CampaignSpec => []CellsAreIsolated
  <1>1. DriverInv => CellsAreIsolated
    BY DEF DriverInv
  <1> QED BY <1>1, DriverAlways, PTL

\* An error row of a driver that asks providers has its entry in the error
\* log, at any time and so after any kill (run_llm_experiment.py:185).
THEOREM FailuresHaveEntries == CampaignSpec => []FailuresAreLogged
  <1>1. DriverInv => FailuresAreLogged
    BY DEF DriverInv
  <1> QED BY <1>1, DriverAlways, PTL

-----------------------------------------------------------------------------
(* The loops of a driver meet every cell once. *)

LEMMA Quotient ==
    ASSUME NEW n \in Nat, NEW d \in Nat \ {0}
    PROVE  /\ n \div d \in Nat /\ n % d \in 0..(d - 1)
           /\ n = d * (n \div d) + (n % d)
  OBVIOUS

LEMMA QuotientBound ==
    ASSUME NEW n \in Nat, NEW d \in Nat \ {0}, NEW k \in Nat, n < k * d
    PROVE  n \div d < k
  <1>1. PICK q \in Nat, m \in Nat : q = n \div d /\ n = d * q + m
    BY Quotient
  <1>2. q < k
    <2> SUFFICES ASSUME q >= k
                 PROVE  FALSE
      BY <1>1
    <2>1. PICK e \in Nat : q = k + e
      BY q - k \in Nat /\ q = k + (q - k)
    <2>2. d * q = k * d + d * e
      BY <2>1
    <2>3. d * e \in Nat
      OBVIOUS
    <2>4. k * d \in Nat
      OBVIOUS
    <2>5. d * q \in Nat
      OBVIOUS
    <2> QED BY <1>1, <2>2, <2>3, <2>4, <2>5
  <1> QED BY <1>1, <1>2

LEMMA CellsDiffer ==
    ASSUME NEW j \in Jobs, NoRepeats(j.scenarios), NoRepeats(j.conditions),
           NEW m \in 0..(CellCount(j) - 1), NEW n \in 0..(CellCount(j) - 1),
           CellAt(j, m) = CellAt(j, n)
    PROVE  m = n
  <1> DEFINE S == Len(j.scenarios)
             C == Len(j.conditions)
             R == j.repetitions
  <1>1. S \in Nat /\ C \in Nat /\ R \in Nat \ {0} /\ CellCount(j) = S * C * R
    BY JobFacts DEF CellCount
  <1> HIDE DEF S, C, R
  <1>2. S * C \in Nat /\ C # 0
    <2>1. \A x, y \in Nat : x * y \in Nat
      OBVIOUS
    <2>2. S * 0 * R = 0
      BY <1>1
    <2>3. C = 0 => CellCount(j) = 0
      BY <1>1, <2>2
    <2> QED BY <1>1, <2>1, <2>3
  <1>3. m \in Nat /\ n \in Nat /\ m < (S * C) * R /\ n < (S * C) * R
    <2>1. CellCount(j) \in Nat
      BY JobFacts
    <2>2. m \in Nat /\ n \in Nat /\ m < CellCount(j) /\ n < CellCount(j)
      BY <2>1
    <2> QED BY <1>1, <2>2
  <1>4. /\ m \div R \in Nat /\ m \div R < S * C
        /\ n \div R \in Nat /\ n \div R < S * C
    BY <1>1, <1>2, <1>3, Quotient, QuotientBound
  <1> DEFINE a == m \div R
             b == n \div R
  <1> HIDE DEF a, b
  <1>5. a \in Nat /\ b \in Nat /\ a < S * C /\ b < S * C
    BY <1>4 DEF a, b
  <1>6. /\ a \div C \in Nat /\ a \div C < S /\ a % C \in 0..(C - 1)
        /\ b \div C \in Nat /\ b \div C < S /\ b % C \in 0..(C - 1)
    BY <1>1, <1>2, <1>5, Quotient, QuotientBound
  <1>7. /\ j.scenarios[(a \div C) + 1] = j.scenarios[(b \div C) + 1]
        /\ j.conditions[(a % C) + 1] = j.conditions[(b % C) + 1]
        /\ m % R = n % R
    BY DEF CellAt, a, b, C, R
  <1>8. /\ (a \div C) + 1 \in DOMAIN j.scenarios /\ (b \div C) + 1 \in DOMAIN j.scenarios
        /\ (a % C) + 1 \in DOMAIN j.conditions /\ (b % C) + 1 \in DOMAIN j.conditions
    <2>1. DOMAIN j.scenarios = 1..S /\ DOMAIN j.conditions = 1..C
      BY JobFacts DEF S, C
    <2>2. \A x \in Nat, y \in Nat : x < y => x + 1 \in 1..y
      OBVIOUS
    <2>3. a % C \in Nat /\ a % C < C /\ b % C \in Nat /\ b % C < C
      <3>1. \A x \in 0..(C - 1) : x \in Nat /\ x < C
        BY <1>1
      <3> QED BY <1>6, <3>1
    <2> QED BY <1>1, <1>6, <2>1, <2>2, <2>3
  <1>9. (a \div C) + 1 = (b \div C) + 1 /\ (a % C) + 1 = (b % C) + 1
    BY <1>7, <1>8 DEF NoRepeats
  <1>10. a \div C = b \div C /\ a % C = b % C
    BY <1>6, <1>9
  <1>11. a = C * (a \div C) + (a % C) /\ b = C * (b \div C) + (b % C)
    BY <1>1, <1>2, <1>5, Quotient
  <1>12. a = b
    BY <1>10, <1>11
  <1>13. m = R * a + (m % R) /\ n = R * b + (n % R)
    BY <1>1, <1>3, Quotient DEF a, b
  <1> QED BY <1>7, <1>12, <1>13

\* Shuffled or not, a queue has every cell once: a permutation that is
\* injective leaves out no cell.
LEMMA QueueHasEveryCell ==
    ASSUME NEW j \in Jobs, NoRepeats(j.scenarios), NoRepeats(j.conditions),
           NEW q \in Queues(j)
    PROVE  Occurring(q) = Cells(j) /\ NoRepeats(q)
  <1> DEFINE size == CellCount(j)
  <1>1. PICK p \in Orders(j) : q = [n \in 1..size |-> CellAt(j, p[n])]
    BY DEF Queues
  <1>2. size \in Nat
    BY JobFacts
  <1>3. /\ p \in [1..size -> 0..(size - 1)]
        /\ \A a, b \in 1..size : p[a] = p[b] => a = b
    <2>1. CASE j.shuffle
      BY <2>1 DEF Orders
    <2>2. CASE ~j.shuffle
      <3>1. p = [n \in 1..size |-> n - 1]
        BY <2>2 DEF Orders
      <3> QED BY <3>1, <1>2
    <2> QED BY <2>1, <2>2
  <1>4. \A k \in 0..(size - 1) : \E n \in 1..size : p[n] = k
    <2> HIDE DEF size
    <2>1. /\ IsFiniteSet(0..(size - 1))
          /\ Cardinality(0..(size - 1)) = IF 0 > size - 1 THEN 0 ELSE (size - 1) - 0 + 1
      BY <1>2, 0 \in Int, size - 1 \in Int, FS_Interval
    <2>2. Cardinality(1..size) = IF 1 > size THEN 0 ELSE size - 1 + 1
      BY <1>2, 1 \in Int, size \in Int, FS_Interval
    <2>3. Cardinality(1..size) = Cardinality(0..(size - 1))
      BY <1>2, <2>1, <2>2
    <2>4. p \in Injection(1..size, 0..(size - 1))
      BY <1>3 DEF Injection, IsInjective
    <2>5. p \in Surjection(1..size, 0..(size - 1))
      BY <2>1, <2>3, <2>4, FS_Injection
    <2> QED BY <2>5 DEF Surjection
  <1>5. /\ DOMAIN q = 1..size
        /\ \A n \in 1..size : p[n] \in 0..(size - 1) /\ q[n] = CellAt(j, p[n])
    BY <1>1, <1>3
  <1>6. Occurring(q) = Cells(j)
    BY <1>4, <1>5 DEF Occurring, Cells
  <1>7. NoRepeats(q)
    BY <1>3, <1>5, CellsDiffer DEF NoRepeats
  <1> QED BY <1>6, <1>7

\* As many rows as cells.
LEMMA OneRowEach ==
    ASSUME NEW rows, IsList(rows),
           \A m, n \in DOMAIN rows : rows[m].cell = rows[n].cell => m = n
    PROVE  Sized(rows, Filled(Occurring(rows)))
  <1> DEFINE N == Len(rows)
             T == Filled(Occurring(rows))
             f == [n \in 1..N |-> rows[n].cell]
  <1>1. N \in Nat /\ DOMAIN rows = 1..N
    BY ListFacts
  <1>2. T = {rows[n].cell : n \in 1..N}
    BY <1>1 DEF Filled, Occurring
  <1>3. f \in Bijection(1..N, T)
    <2>1. f \in [1..N -> T]
      BY <1>2
    <2>2. \A m, n \in 1..N : f[m] = f[n] => m = n
      BY <1>1
    <2>3. \A t \in T : \E n \in 1..N : f[n] = t
      BY <1>2
    <2> HIDE DEF f, T
    <2> QED BY <2>1, <2>2, <2>3 DEF Bijection, Injection, Surjection, IsInjective
  <1>4. ExistsBijection(1..N, T)
    BY <1>3 DEF ExistsBijection
  <1> HIDE DEF N, T
  <1>5. IsFiniteSet(1..N) /\ Cardinality(1..N) = N
    BY <1>1, 1 \in Int, N \in Int, FS_Interval
  <1>6. Cardinality(T) = N
    BY <1>4, <1>5, FS_Bijection
  <1> QED BY <1>6 DEF Sized, Filled, N, T

-----------------------------------------------------------------------------
(* A cell moves from one place to the next. *)

LEMMA CellMoves ==
    ASSUME NEW C, NEW Q, NEW W, NEW X, NEW D, NEW E, Split(C, Q, W, X, D, E)
    PROVE  /\ \A c, P : /\ Q = P \cup {c} /\ c \notin P
                        => /\ Split(C, P, W \cup {c}, X, D, E)
                           /\ Split(C, P, W, X, D \cup {c}, E)
           /\ \A c \in W : /\ Split(C, Q, W \ {c}, X \cup {c}, D, E)
                           /\ Split(C, Q, W \ {c}, X, D \cup {c}, E)
           /\ \A c \in X : Split(C, Q, W, X \ {c}, D \cup {c}, E)
           /\ \A c \in D : Split(C, Q, W, X, D \ {c}, E \cup {c})
  <1>1. ASSUME NEW c, NEW P, Q = P \cup {c}, c \notin P
        PROVE  Split(C, P, W \cup {c}, X, D, E) /\ Split(C, P, W, X, D \cup {c}, E)
    BY <1>1 DEF Split
  <1>2. ASSUME NEW c \in W
        PROVE  /\ Split(C, Q, W \ {c}, X \cup {c}, D, E)
               /\ Split(C, Q, W \ {c}, X, D \cup {c}, E)
    BY DEF Split
  <1>3. ASSUME NEW c \in X
        PROVE  Split(C, Q, W, X \ {c}, D \cup {c}, E)
    BY DEF Split
  <1>4. ASSUME NEW c \in D
        PROVE  Split(C, Q, W, X, D \ {c}, E \cup {c})
    BY DEF Split
  <1> QED BY <1>1, <1>2, <1>3, <1>4

\* A row joins the finished ones.
LEMMA RowIsDone ==
    ASSUME NEW D, NEW r, \A q, s \in D : q.cell = s.cell => q = s,
           r.cell \notin Filled(D)
    PROVE  /\ Filled(D \cup {r}) = Filled(D) \cup {r.cell}
           /\ \A q, s \in D \cup {r} : q.cell = s.cell => q = s
  BY DEF Filled

\* A finished row is collected.
LEMMA RowIsCollected ==
    ASSUME NEW D, NEW r \in D, \A q, s \in D : q.cell = s.cell => q = s,
           NEW rows, IsList(rows), r.cell \notin Filled(Occurring(rows)),
           \A m, n \in DOMAIN rows : rows[m].cell = rows[n].cell => m = n
    PROVE  /\ Filled(D \ {r}) = Filled(D) \ {r.cell}
           /\ Filled(Occurring(Append(rows, r))) =
                  Filled(Occurring(rows)) \cup {r.cell}
           /\ \A m, n \in DOMAIN Append(rows, r) :
                  Append(rows, r)[m].cell = Append(rows, r)[n].cell => m = n
  <1> DEFINE a == Append(rows, r)
             N == Len(rows)
  <1>1. Filled(D \ {r}) = Filled(D) \ {r.cell}
    BY DEF Filled
  <1>2. /\ Occurring(a) = Occurring(rows) \cup {r}
        /\ DOMAIN a = 1..(N + 1)
        /\ \A n \in 1..N : a[n] = rows[n]
        /\ a[N + 1] = r
    BY ListAppend
  <1>3. N \in Nat /\ DOMAIN rows = 1..N
    BY ListFacts
  <1> HIDE DEF a, N
  <1>4. Filled(Occurring(a)) = Filled(Occurring(rows)) \cup {r.cell}
    BY <1>2 DEF Filled
  <1>5. \A n \in 1..(N + 1) : n \in 1..N \/ n = N + 1
    BY <1>3
  <1>6. \A n \in 1..N : rows[n].cell \in Filled(Occurring(rows))
    BY <1>3 DEF Filled, Occurring
  <1>7. \A m, n \in DOMAIN a : a[m].cell = a[n].cell => m = n
    BY <1>2, <1>3, <1>5, <1>6
  <1> QED BY <1>1, <1>4, <1>7 DEF a

-----------------------------------------------------------------------------
(* The second invariant is kept. *)

LEMMA RowsInit == CampaignInit => RowsInv
  <1> SUFFICES ASSUME CampaignInit
               PROVE  RowsInv
    OBVIOUS
  <1>1. \A o \in Outs : result[o].whole = FALSE
    BY DEF CampaignInit, NoFile
  <1>2. OnePlace /\ Dated /\ EveryCellOnce
    BY <1>1 DEF CampaignInit, OnePlace, Dated, EveryCellOnce
  <1> QED BY <1>2, DriverInit DEF RowsInv

\* A process ends, and what it wrote to its own result file, if anything, is
\* rubbish or every cell's row.
LEMMA RowsStop ==
    ASSUME RowsInv, DriverInv', Stop, UNCHANGED drives,
           \/ result' = result
           \/ result' = [result EXCEPT ![job.out] = NoFile]
           \/ /\ phase # "idle" /\ WorkersIdle /\ done = {}
              /\ phase \in {"running", "freezing", "stamping"}
              /\ \E stamp \in BOOLEAN :
                     result' = [result EXCEPT ![job.out] = ResultFile(stamp)]
    PROVE  RowsInv'
  <1> USE DEF RowsInv
  <1>1. /\ phase' = "idle" /\ UNCHANGED <<job, jsonl>> /\ DOMAIN result = Outs
        /\ queue' = <<>> /\ running' = {} /\ raised' = {} /\ done' = {}
    BY DEF Stop, Process, DriverInv, Standing
  <1>2. OnePlace'
    BY <1>1 DEF OnePlace
  <1>3. CASE result' = result
    BY <1>1, <1>2, <1>3 DEF Dated, EveryCellOnce, WorkersIdle, AtWork
  <1>4. CASE result' = [result EXCEPT ![job.out] = NoFile]
    <2>1. \A o \in Outs : result'[o].whole => result'[o] = result[o]
      BY <1>1, <1>4 DEF NoFile
    <2> QED BY <1>1, <1>2, <2>1 DEF Dated, EveryCellOnce
  <1>5. ASSUME phase # "idle", WorkersIdle, done = {},
               phase \in {"running", "freezing", "stamping"},
               NEW stamp \in BOOLEAN,
               result' = [result EXCEPT ![job.out] = ResultFile(stamp)]
        PROVE  RowsInv'
    <2>1. job.out \in Outs /\ jsonl[job.out] = results /\ IsList(results)
      BY <1>5, JobFacts DEF DriverInv, Standing
    <2>2. /\ \A o \in Outs : o # job.out => result'[o] = result[o]
          /\ result'[job.out] = ResultFile(stamp)
      BY <1>1, <1>5, <2>1
    <2>3. job.driver # "bench" => Sized(results, Cells(job))
      <3> SUFFICES ASSUME job.driver # "bench"
                   PROVE  Sized(results, Cells(job))
        OBVIOUS
      <3>1. Filled(Occurring(results)) = Cells(job)
        BY <1>5, EmptyList DEF OnePlace, Split, WorkersIdle, AtWork, Filled
      <3>2. Sized(results, Filled(Occurring(results)))
        BY <1>5, <2>1, OneRowEach DEF OnePlace
      <3> QED BY <3>1, <3>2
    <2>4. EveryCellOnce'
      BY <1>1, <2>1, <2>2, <2>3 DEF EveryCellOnce, ResultFile
    <2>5. Dated'
      BY <1>1, <2>2 DEF Dated, ResultFile
    <2> QED BY <1>2, <2>4, <2>5
  <1> QED BY <1>3, <1>4, <1>5

LEMMA RowsStart ==
    ASSUME DistinctLoops, RowsInv, DriverInv', StartDriver
    PROVE  RowsInv'
  <1> USE DEF RowsInv
  <1> DEFINE j == Head(script).job
  <1>1. /\ phase = "idle" /\ job' = j /\ drives' = drives + 1
        /\ result' = result
    BY DEF StartDriver, AtStep, disk
  <1>2. j \in Jobs
    BY StepFacts DEF StartDriver, AtStep, DriverInv, Standing
  <1>3. EveryCellOnce'
    BY <1>1 DEF EveryCellOnce, Dated
  <1>4. CASE CannotStart(j)
    <2>1. UNCHANGED inProcess
      BY <1>4 DEF StartDriver
    <2> QED BY <1>1, <1>3, <2>1 DEF OnePlace, Dated, inProcess
  <1>5. CASE ~CannotStart(j)
    <2>1. /\ phase' = "running" /\ running' = {} /\ raised' = {} /\ done' = {}
          /\ results' = <<>>
          /\ queue' \in IF j.driver = "bench" THEN {BenchQueue(j)} ELSE Queues(j)
      BY <1>5 DEF StartDriver, Process
    <2>2. Dated'
      BY <1>1, <2>1 DEF Dated
    <2>3. OnePlace'
      <3> SUFFICES ASSUME j.driver # "bench"
                   PROVE  OnePlace'
        BY <1>1 DEF OnePlace
      <3>1. Occurring(queue') = Cells(j) /\ NoRepeats(queue')
        BY <1>2, <2>1, QueueHasEveryCell DEF DistinctLoops, DistinctCells
      <3>2. Filled({}) = {} /\ Occurring(<<>>) = {}
        BY EmptyList DEF Filled
      <3>3. Split(Cells(j), Cells(j), {}, {}, {}, {})
        BY DEF Split
      <3>4. Split(Cells(job'), Occurring(queue'), running', raised', Filled(done'),
                  Filled(Occurring(results')))
        BY <1>1, <2>1, <3>1, <3>2, <3>3
      <3>5. DOMAIN results' = {}
        BY <2>1
      <3> QED BY <2>1, <3>1, <3>4, <3>5 DEF OnePlace
    <2> QED BY <1>3, <2>2, <2>3
  <1> QED BY <1>4, <1>5

LEMMA RowsPool ==
    ASSUME RowsInv, DriverInv', PoolNext, UNCHANGED <<writer, disk, shell>>
    PROVE  RowsInv'
  <1> USE DEF RowsInv
  <1>1. /\ drives' = drives /\ result' = result /\ job' = job
        /\ phase' = phase \/ CollectRaised
    BY DEF PoolNext, TakesCell, SeedCell, SeedRaises, FinishCell, CellRaises,
           LogError, Collect, CollectRaised, disk, shell
  <1>2. phase # "idle"
    BY DEF PoolNext, TakesCell, SeedCell, SeedRaises, Collect, CollectRaised,
           DriverInv, Standing
  <1>3. ~(phase \in {"freezing", "stamping"})
    BY DEF PoolNext, TakesCell, SeedCell, SeedRaises, Collect, CollectRaised,
           Dated, WorkersIdle, AtWork
  <1>4. phase \in {"running", "leaving"}
    BY <1>2, <1>3 DEF DriverInv, Standing, Phases
  <1>5. phase' \in {"running", "leaving"} /\ Dated'
    BY <1>1, <1>4 DEF Dated, CollectRaised
  <1>6. ASSUME jsonl' = jsonl
        PROVE  EveryCellOnce'
    BY <1>1, <1>6 DEF EveryCellOnce
  <1> DEFINE pooled == phase = "running" /\ job.driver # "bench"
             C == Cells(job)
             Q == Occurring(queue)
             D == Filled(done)
             E == Filled(Occurring(results))
  <1>7. ASSUME pooled
        PROVE  /\ Split(C, Q, running, raised, D, E)
               /\ NoRepeats(queue)
               /\ \A r, q \in done : r.cell = q.cell => r = q
               /\ \A m, n \in DOMAIN results :
                      results[m].cell = results[n].cell => m = n
    BY <1>7 DEF OnePlace
  <1>8. CASE SeedCell
    <2> DEFINE c == Head(queue)
               P == Occurring(Tail(queue))
    <2>1. /\ phase' = phase /\ queue # <<>> /\ queue' = Tail(queue)
          /\ running' = running \cup {c}
          /\ UNCHANGED <<raised, done, results, jsonl>>
      BY <1>8 DEF SeedCell, TakesCell
    <2>2. ASSUME pooled
          PROVE  OnePlace'
      <3>1. IsList(queue)
        BY <2>2 DEF DriverInv, Pooled
      <3>2. Q = P \cup {c} /\ c \notin P /\ NoRepeats(Tail(queue))
        BY <1>7, <2>1, <2>2, <3>1, ListTail
      <3>3. Split(C, P, running \cup {c}, raised, D, E)
        <4> HIDE DEF C, Q, P, D, E, c
        <4> QED BY <1>7, <2>2, <3>2, CellMoves
      <3> QED BY <1>1, <1>7, <2>1, <2>2, <3>2, <3>3 DEF OnePlace
    <2>3. OnePlace'
      BY <1>1, <1>4, <2>1, <2>2 DEF OnePlace
    <2> QED BY <1>5, <1>6, <2>1, <2>3
  <1>9. ASSUME NEW c \in running, NEW r, r.cell = c,
               running' = running \ {c}, done' = done \cup {r},
               phase' = phase, UNCHANGED <<queue, raised, results, jsonl>>
        PROVE  RowsInv'
    <2>1. ASSUME pooled
          PROVE  OnePlace'
      <3>1. Split(C, Q, running \ {c}, raised, D \cup {c}, E) /\ c \notin D
        <4>1. Split(C, Q, running \ {c}, raised, D \cup {c}, E)
          BY <1>7, <2>1, CellMoves
        <4>2. running \cap D = {}
          BY <1>7, <2>1 DEF Split
        <4> QED BY <4>1, <4>2
      <3>2. /\ Filled(done') = D \cup {c}
            /\ \A q, s \in done' : q.cell = s.cell => q = s
        BY <1>7, <1>9, <2>1, <3>1, RowIsDone
      <3> QED BY <1>1, <1>7, <1>9, <2>1, <3>1, <3>2 DEF OnePlace
    <2>2. OnePlace'
      BY <1>1, <1>4, <1>9, <2>1 DEF OnePlace
    <2> QED BY <1>5, <1>6, <1>9, <2>2
  <1>10. ASSUME NEW c \in running, FinishCell(c)
         PROVE  RowsInv'
    <2>1. /\ phase' = phase /\ running' = running \ {c}
          /\ UNCHANGED <<queue, raised, results, jsonl>>
      BY <1>10 DEF FinishCell
    <2>2. PICK said : done' = done \cup {Row(c, said)}
      BY <1>10 DEF FinishCell
    <2>3. Row(c, said).cell = c
      BY DEF Row
    <2> QED BY <1>9, <2>1, <2>2, <2>3
  <1>11. ASSUME NEW c \in running, CellRaises(c)
         PROVE  RowsInv'
    <2>1. /\ phase' = phase /\ running' = running \ {c}
          /\ UNCHANGED <<queue, results, jsonl>>
          /\ \/ raised' = raised /\ done' = done \cup {Exception(c)}
             \/ raised' = raised \cup {c} /\ done' = done
             \/ raised' = raised /\ done' = done \cup {ErrorRow(c)}
      BY <1>11 DEF CellRaises
    <2>2. Exception(c).cell = c /\ ErrorRow(c).cell = c
      BY DEF Exception, ErrorRow
    <2>3. CASE raised' = raised \cup {c} /\ done' = done
      <3>1. ASSUME pooled
            PROVE  OnePlace'
        <4>1. Split(C, Q, running \ {c}, raised \cup {c}, D, E)
          BY <1>7, <3>1, CellMoves
        <4> QED BY <1>1, <1>7, <2>1, <2>3, <3>1, <4>1 DEF OnePlace
      <3>2. OnePlace'
        BY <1>1, <1>4, <2>1, <3>1 DEF OnePlace
      <3> QED BY <1>5, <1>6, <2>1, <3>2
    <2> QED BY <1>9, <2>1, <2>2, <2>3
  <1>12. ASSUME NEW c \in raised, LogError(c)
         PROVE  RowsInv'
    <2>1. /\ phase' = phase /\ raised' = raised \ {c}
          /\ done' = done \cup {ErrorRow(c)}
          /\ UNCHANGED <<queue, running, results, jsonl>>
      BY <1>12 DEF LogError
    <2>2. ErrorRow(c).cell = c
      BY DEF ErrorRow
    <2>3. ASSUME pooled
          PROVE  OnePlace'
      <3>1. Split(C, Q, running, raised \ {c}, D \cup {c}, E) /\ c \notin D
        <4>1. Split(C, Q, running, raised \ {c}, D \cup {c}, E)
          BY <1>7, <1>12, <2>3, CellMoves
        <4>2. raised \cap D = {}
          BY <1>7, <2>3 DEF Split
        <4> QED BY <1>12, <4>1, <4>2
      <3>2. /\ Filled(done') = D \cup {c}
            /\ \A q, s \in done' : q.cell = s.cell => q = s
        <4>1. PICK r : r = ErrorRow(c)
          OBVIOUS
        <4>2. r.cell = c /\ done' = done \cup {r}
          BY <2>1, <2>2, <4>1
        <4>3. r.cell \notin Filled(done)
          BY <3>1, <4>2
        <4> QED BY <1>7, <2>3, <4>2, <4>3, RowIsDone
      <3> QED BY <1>1, <1>7, <2>1, <2>3, <3>1, <3>2 DEF OnePlace
    <2>4. OnePlace'
      BY <1>1, <1>4, <2>1, <2>3 DEF OnePlace
    <2> QED BY <1>5, <1>6, <2>1, <2>4
  <1>13. CASE Collect
    <2>1. PICK r \in done :
              /\ done' = done \ {r}
              /\ results' = Append(results, r)
              /\ jsonl' = [jsonl EXCEPT ![job.out] = Append(@, r)]
      BY <1>13 DEF Collect
    <2>2. /\ phase = "running" /\ phase' = phase
          /\ UNCHANGED <<queue, running, raised>>
      BY <1>13 DEF Collect
    <2>3. ASSUME pooled
          PROVE  OnePlace'
      <3>1. IsList(results) /\ r.cell \in D
        BY DEF DriverInv, Standing, Filled
      <3>2. D \cap E = {}
        BY <1>7, <2>3 DEF Split
      <3>3. /\ Filled(done') = D \ {r.cell}
            /\ Filled(Occurring(results')) = E \cup {r.cell}
            /\ \A m, n \in DOMAIN results' :
                   results'[m].cell = results'[n].cell => m = n
        <4>1. r.cell \notin Filled(Occurring(results))
          BY <3>1, <3>2
        <4>2. \A q, s \in done : q.cell = s.cell => q = s
          BY <1>7, <2>3
        <4>3. /\ Filled(done \ {r}) = Filled(done) \ {r.cell}
              /\ Filled(Occurring(Append(results, r))) =
                     Filled(Occurring(results)) \cup {r.cell}
              /\ \A m, n \in DOMAIN Append(results, r) :
                     Append(results, r)[m].cell = Append(results, r)[n].cell
                     => m = n
          <5>1. \A m, n \in DOMAIN results :
                    results[m].cell = results[n].cell => m = n
            BY <1>7, <2>3
          <5> QED BY <3>1, <4>1, <4>2, <5>1, RowIsCollected
        <4> QED BY <2>1, <4>3
      <3>4. Split(C, Q, running, raised, D \ {r.cell}, E \cup {r.cell})
        BY <1>7, <2>3, <3>1, CellMoves
      <3>5. \A q, s \in done' : q.cell = s.cell => q = s
        BY <1>7, <2>1, <2>3
      <3> QED BY <1>1, <1>7, <2>2, <2>3, <3>3, <3>4, <3>5 DEF OnePlace
    <2>4. OnePlace'
      BY <1>1, <2>2, <2>3 DEF OnePlace
    <2>5. EveryCellOnce'
      BY <1>1, <2>2 DEF EveryCellOnce, Dated
    <2> QED BY <1>5, <2>4, <2>5
  <1>14. CASE CollectRaised
    <2>1. phase' = "leaving" /\ jsonl' = jsonl
      BY <1>14 DEF CollectRaised
    <2> QED BY <1>5, <1>6, <2>1 DEF OnePlace
  <1>15. CASE SeedRaises
    <2> DEFINE c == Head(queue)
               P == Occurring(Tail(queue))
    <2>1. PICK r : r = Exception(c)
      OBVIOUS
    <2>2. /\ phase' = phase /\ queue # <<>> /\ queue' = Tail(queue)
          /\ done' = done \cup {r} /\ r.cell = c
          /\ UNCHANGED <<running, raised, results, jsonl>>
      BY <1>15, <2>1 DEF SeedRaises, TakesCell, Exception
    <2>3. ASSUME pooled
          PROVE  OnePlace'
      <3>1. IsList(queue)
        BY <2>3 DEF DriverInv, Pooled
      <3>2. Q = P \cup {c} /\ c \notin P /\ NoRepeats(Tail(queue))
        BY <1>7, <2>2, <2>3, <3>1, ListTail
      <3>3. Split(C, P, running, raised, D \cup {c}, E) /\ c \notin D
        <4> HIDE DEF C, Q, P, D, E, c
        <4>1. Split(C, P, running, raised, D \cup {c}, E)
          BY <1>7, <2>3, <3>2, CellMoves
        <4>2. Q \cap D = {}
          BY <1>7, <2>3 DEF Split
        <4> QED BY <3>2, <4>1, <4>2
      <3>4. /\ Filled(done') = D \cup {c}
            /\ \A q, s \in done' : q.cell = s.cell => q = s
        <4>1. r.cell \notin Filled(done)
          BY <2>2, <3>3
        <4>2. \A q, s \in done : q.cell = s.cell => q = s
          BY <1>7, <2>3
        <4>3. /\ Filled(done \cup {r}) = Filled(done) \cup {r.cell}
              /\ \A q, s \in done \cup {r} : q.cell = s.cell => q = s
          BY <4>1, <4>2, RowIsDone
        <4> QED BY <2>2, <4>3
      <3> QED BY <1>1, <1>7, <2>2, <2>3, <3>2, <3>3, <3>4 DEF OnePlace
    <2>4. OnePlace'
      BY <1>1, <1>4, <2>2, <2>3 DEF OnePlace
    <2> QED BY <1>5, <1>6, <2>2, <2>4
  <1> QED BY <1>8, <1>10, <1>11, <1>12, <1>13, <1>14, <1>15 DEF PoolNext

LEMMA RowsBench ==
    ASSUME RowsInv, DriverInv', BenchNext, UNCHANGED <<disk, shell>>
    PROVE  RowsInv'
  <1> USE DEF RowsInv
  <1>1. /\ drives' = drives /\ result' = result /\ job' = job
        /\ job.driver = "bench" /\ done' = done
        /\ phase' = phase \/ (phase = "running" /\ phase' = "leaving")
    BY DEF BenchNext, Generate, MeetCondition, PairRaises, LogPair, BenchRaises,
           InPair, disk, shell, poolVars, inProcess
  <1>2. OnePlace'
    BY <1>1 DEF OnePlace
  <1>3. phase = "running" \/ (LogPair /\ phase \in Phases /\ phase # "idle")
    BY DEF BenchNext, Generate, MeetCondition, PairRaises, LogPair, BenchRaises,
           InPair, DriverInv, Standing
  <1>4. ~(phase \in {"freezing", "stamping"})
    BY <1>3 DEF LogPair, Dated, WorkersIdle, AtWork
  <1>5. phase \in {"running", "leaving"} /\ phase' \in {"running", "leaving"}
    BY <1>1, <1>3, <1>4 DEF Phases
  <1>6. Dated'
    BY <1>1, <1>5 DEF Dated
  <1>7. EveryCellOnce'
    <2>1. \A o \in Outs : result[o].whole /\ job.out = o =>
              result[o].drive # drives
      BY <1>5 DEF Dated
    <2> QED BY <1>1, <2>1 DEF EveryCellOnce
  <1> QED BY <1>2, <1>6, <1>7

LEMMA RowsStep ==
    ASSUME DistinctLoops
    PROVE  RowsInv /\ [CampaignNext]_campaignVars => RowsInv'
  <1> SUFFICES ASSUME RowsInv, [CampaignNext]_campaignVars
               PROVE  RowsInv'
    OBVIOUS
  <1>1. DriverInv /\ DriverInv'
    BY DriverStep DEF RowsInv
  <1>2. ASSUME UNCHANGED <<benchVars, drives, result>>
        PROVE  RowsInv'
    BY <1>1, <1>2 DEF RowsInv, OnePlace, Dated, EveryCellOnce, WorkersIdle,
       AtWork, benchVars, poolVars, inProcess
  <1>3. CASE StartScript
    BY <1>2, <1>3 DEF StartScript, disk
  <1>4. CASE StartDriver
    BY <1>1, <1>4, RowsStart
  <1>5. CASE UnknownCondition
    <2>1. Stop /\ UNCHANGED <<drives, result>>
      BY <1>5 DEF UnknownCondition, disk
    <2> QED BY <1>1, <2>1, RowsStop
  <1>6. CASE Work
    BY <1>1, <1>6, RowsPool, RowsBench DEF Work
  <1>7. CASE Leave
    <2>1. Stop /\ UNCHANGED <<drives, result>>
      BY <1>7 DEF Leave, disk
    <2> QED BY <1>1, <2>1, RowsStop
  <1>8. CASE WriteResult
    <2>1. /\ phase = "running" /\ WorkersIdle /\ done = {}
          /\ result' = [result EXCEPT ![job.out] = ResultFile(FALSE)]
      BY <1>8 DEF WriteResult, AllCollected
    <2>2. CASE job.driver # "generate"
      <3>1. Stop /\ UNCHANGED drives
        BY <1>8, <2>2 DEF WriteResult
      <3>2. \E stamp \in BOOLEAN :
                result' = [result EXCEPT ![job.out] = ResultFile(stamp)]
        BY <2>1
      <3> QED BY <1>1, <2>1, <3>1, <3>2, RowsStop
    <2>3. CASE job.driver = "generate"
      <3>1. /\ phase' = "freezing"
            /\ UNCHANGED <<job, queue, running, raised, done, results, jsonl, drives>>
        BY <1>8, <2>3 DEF WriteResult, shell
      <3>2. /\ job.out \in Outs /\ DOMAIN result = Outs /\ IsList(results)
            /\ jsonl[job.out] = results
        BY <1>1, <2>1, JobFacts DEF DriverInv, Standing
      <3>3. /\ \A o \in Outs : o # job.out => result'[o] = result[o]
            /\ result'[job.out] = ResultFile(FALSE)
        BY <2>1, <3>2
      <3>4. Sized(results, Cells(job))
        <4>1. Filled(Occurring(results)) = Cells(job)
          BY <2>1, <2>3, EmptyList
             DEF RowsInv, OnePlace, Split, WorkersIdle, AtWork, Filled
        <4>2. Sized(results, Filled(Occurring(results)))
          BY <2>1, <2>3, <3>2, OneRowEach DEF RowsInv, OnePlace
        <4> QED BY <4>1, <4>2
      <3>5. EveryCellOnce'
        BY <3>1, <3>2, <3>3, <3>4 DEF RowsInv, EveryCellOnce, ResultFile
      <3>6. Dated'
        BY <2>1, <3>1, <3>3 DEF RowsInv, Dated, ResultFile, WorkersIdle, AtWork
      <3>7. OnePlace'
        BY <2>1, <3>1 DEF RowsInv, OnePlace
      <3> QED BY <1>1, <3>5, <3>6, <3>7 DEF RowsInv
    <2> QED BY <2>2, <2>3
  <1>9. CASE Freeze
    <2>1. /\ phase = "freezing" /\ phase' = "stamping"
          /\ UNCHANGED <<job, queue, running, raised, done, results, jsonl, result, drives>>
      BY <1>9 DEF Freeze, shell
    <2> QED BY <1>1, <2>1 DEF RowsInv, OnePlace, Dated, EveryCellOnce, WorkersIdle, AtWork
  <1>10. CASE Stamp
    <2>1. /\ phase = "stamping" /\ Stop /\ UNCHANGED drives
          /\ result' = [result EXCEPT ![job.out] = ResultFile(TRUE)]
      BY <1>10 DEF Stamp
    <2>2. WorkersIdle /\ done = {}
      BY <2>1 DEF RowsInv, Dated
    <2>3. \E stamp \in BOOLEAN :
              result' = [result EXCEPT ![job.out] = ResultFile(stamp)]
      BY <2>1
    <2> QED BY <1>1, <2>1, <2>2, <2>3, RowsStop
  <1>11. CASE Analyze \/ Tabulate
    BY <1>2, <1>11 DEF Analyze, Tabulate
  <1>12. CASE Kill
    <2>1. Stop /\ UNCHANGED drives
      BY <1>12 DEF Kill
    <2>2. result' = result \/ result' = [result EXCEPT ![job.out] = NoFile]
      BY <1>12 DEF Kill, disk
    <2> QED BY <1>1, <2>1, <2>2, RowsStop
  <1>13. CASE UNCHANGED campaignVars
    BY <1>2, <1>13 DEF campaignVars, shell, disk
  <1> QED BY <1>3, <1>4, <1>5, <1>6, <1>7, <1>8, <1>9, <1>10, <1>11, <1>12, <1>13
            DEF CampaignNext, Progress

\* When no driver is given a scenario or a condition twice, a result file that
\* can be read has one row for each cell of its driver, and the driver's JSONL
\* the same rows, whatever the order in which the workers end, the cells that
\* raise and the kills (run_cooperbench_substrate.py:154-168).
THEOREM CellsHaveTheirRow ==
    ASSUME DistinctLoops
    PROVE  CampaignSpec => []EveryCellOnce
  <1>1. CampaignInit => RowsInv
    BY RowsInit
  <1>2. RowsInv /\ [CampaignNext]_campaignVars => RowsInv'
    BY RowsStep
  <1>3. RowsInv => EveryCellOnce
    BY DEF RowsInv
  <1> QED BY <1>1, <1>2, <1>3, PTL DEF CampaignSpec
=============================================================================
