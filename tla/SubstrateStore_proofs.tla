------------------------ MODULE SubstrateStore_proofs ------------------------
(***************************************************************************)
(* What survives any number of kills, for every set of batches and every   *)
(* seed.  Nothing is assumed of the content of the store.                  *)
(***************************************************************************)
EXTENDS SubstrateStore, TLAPS, WellFoundedInduction

-----------------------------------------------------------------------------
(* Type correctness. *)

LEMMA PartialFunctions ==
    ASSUME NEW S, NEW T, NEW f \in SomeOf(S, T), NEW k \in S, NEW v \in T
    PROVE  /\ Put(f, k, v) \in SomeOf(S, T)
           /\ [f EXCEPT ![k] = v] \in SomeOf(S, T)
           /\ \A x \in DOMAIN f : f[x] \in T
<1>1. PICK D \in SUBSET S : f \in [D -> T]
  BY DEF SomeOf
<1>2. Put(f, k, v) \in [D \cup {k} -> T]
  BY <1>1 DEF Put
<1>3. [f EXCEPT ![k] = v] \in [D -> T]
  BY <1>1
<1>. QED
  BY <1>1, <1>2, <1>3 DEF SomeOf

\* Applying an intent to a content of the store leaves a content of the store.
LEMMA ApplyType ==
    ASSUME NEW i \in Intents, NEW c \in Contents
    PROVE  Apply(i, c) \in Contents
<1>1. /\ i.item \in Ids /\ StatusOf(i) \in Statuses /\ i.body \in Bodies
      /\ "retracted" \in Statuses
  BY DEF Ids, Statuses, Bodies
<1>2. c.atoms \in Atoms /\ c.links \in Links
  BY DEF Contents
<1>3. ASSUME NEW atom \in [status : Statuses, body : Bodies]
      PROVE  [c EXCEPT !.atoms = Put(@, i.item, atom)] \in Contents
  BY <1>1, <1>2, <1>3, PartialFunctions DEF Contents, Atoms
<1>4. ASSUME NEW status \in Statuses
      PROVE  /\ [c EXCEPT !.links = Put(@, i.item, status)] \in Contents
             /\ [c EXCEPT !.links[i.item] = status] \in Contents
  BY <1>1, <1>2, <1>4, PartialFunctions DEF Contents, Links
<1>5. ASSUME i.item \in DOMAIN c.atoms
      PROVE  [c EXCEPT !.atoms[i.item].status = "retracted"] \in Contents
  <2>1. c.atoms[i.item] \in [status : Statuses, body : Bodies]
    BY <1>1, <1>2, <1>5 DEF Atoms, SomeOf
  <2>2. [c.atoms[i.item] EXCEPT !.status = "retracted"]
          \in [status : Statuses, body : Bodies]
    BY <1>1, <2>1
  <2>3. [c.atoms EXCEPT ![i.item] =
            [c.atoms[i.item] EXCEPT !.status = "retracted"]] \in Atoms
    BY <1>1, <1>2, <2>2, PartialFunctions DEF Atoms
  <2>. QED
    BY <2>3 DEF Contents
<1>. QED
  BY <1>1, <1>3, <1>4, <1>5 DEF Apply

LEMMA DefaultsAreValid ==
    /\ DefaultManifest \in Manifests
    /\ Empty \in Contents /\ NoItems \in Atoms /\ NoItems \in Links
<1>1. NoItems \in Atoms /\ NoItems \in Links
  <2>1. {} \in SUBSET Ids
    OBVIOUS
  <2>2. \A T : NoItems \in [{} -> T]
    BY DEF NoItems
  <2>. QED
    BY <2>1, <2>2 DEF Atoms, Links, SomeOf
<1>. QED
  BY <1>1 DEF DefaultManifest, Manifests, Empty, Contents

LEMMA StoreTypeInit == Init => TypeOK
<1>1. Seed.atoms \in Atoms /\ Seed.links \in Links
  BY StoreAssumption DEF Contents
<1>. QED
  BY <1>1, DefaultsAreValid, StoreAssumption DEF Init, TypeOK, Phases

LEMMA StoreTypeNext == TypeOK /\ [Next]_vars => TypeOK'
<1>. SUFFICES ASSUME TypeOK, [Next]_vars PROVE TypeOK'
  OBVIOUS
<1>. USE DEF disk, memory
<1>1. ASSUME NEW batch \in Batches, Begin(batch) PROVE TypeOK'
  <2>1. /\ manifest' \in Manifests /\ base' = manifest'
        /\ atomsFile' \in Atoms /\ linksFile' \in Links
        /\ work' = [atoms |-> atomsFile', links |-> linksFile']
    BY <1>1, DefaultsAreValid DEF Begin, Opened, TypeOK
  <2>2. work' \in Contents
    BY <2>1 DEF Contents
  <2>3. /\ DOMAIN snapshots' \subseteq Nat
        /\ \A v \in DOMAIN snapshots' : snapshots'[v] \in Contents \cup {Torn}
    BY <1>1, DefaultsAreValid DEF Begin, Opened, TypeOK
  <2>4. batch \in Seq(Intents) /\ version' \in Nat
    BY <1>1, <2>1, StoreAssumption DEF Begin, Manifests
  <2>5. batches' \in 0..MaxBatches
    BY <1>1, StoreAssumption DEF Begin, TypeOK
  <2>. QED
    BY <1>1, <2>1, <2>2, <2>3, <2>4, <2>5 DEF Begin, TypeOK, Phases
<1>2. CASE ApplyIntent
  <2>1. Head(todo) \in Intents /\ Tail(todo) \in Seq(Intents)
    BY <1>2 DEF ApplyIntent, TypeOK
  <2>2. work' \in Contents
    BY <1>2, <2>1, ApplyType DEF ApplyIntent, TypeOK
  <2>3. operations' \in Seq(Nat)
    BY <1>2 DEF ApplyIntent, TypeOK
  <2>. QED
    BY <1>2, <2>1, <2>2, <2>3 DEF ApplyIntent, TypeOK
<1>3. CASE RecordProposal
  <2>1. Tail(todo) \in Seq(Intents)
    BY <1>3 DEF RecordProposal, TypeOK
  <2>. QED
    BY <1>3, <2>1 DEF RecordProposal, TypeOK
<1>4. ASSUME NEW c \in Contents \cup {Torn},
             snapshots' = Put(snapshots, FinalVersion, c)
      PROVE  /\ DOMAIN snapshots' \subseteq Nat
             /\ \A v \in DOMAIN snapshots' :
                   snapshots'[v] \in Contents \cup {Torn}
  BY <1>4 DEF Put, TypeOK, FinalVersion, Manifests
<1>5. CASE WriteSnapshot
  BY <1>4, <1>5 DEF WriteSnapshot, TypeOK, Phases
<1>6. CASE WriteManifest
  <2>1. manifest' \in Manifests
    BY <1>6 DEF WriteManifest, FinalManifest, FinalVersion, TypeOK, Manifests
  <2>. QED
    BY <1>6, <2>1 DEF WriteManifest, TypeOK, Phases
<1>7. CASE WriteAtoms
  BY <1>7 DEF WriteAtoms, TypeOK, Phases, Contents
<1>8. ASSUME ForgetBatch
      PROVE  /\ phase' \in Phases /\ todo' \in Seq(Intents)
             /\ work' \in Contents /\ base' \in Manifests
             /\ version' \in Nat /\ committed' \in Nat /\ recorded' \in Nat
  BY <1>8, DefaultsAreValid DEF ForgetBatch, Phases
<1>9. CASE WriteLinks
  <2>1. linksFile' \in Links
    BY <1>9 DEF WriteLinks, TypeOK, Contents
  <2>. QED
    BY <1>8, <1>9, <2>1 DEF WriteLinks, TypeOK
<1>10. CASE Crash
  <2>1. crashes' \in 0..MaxCrashes
    BY <1>10, StoreAssumption DEF Crash, TypeOK
  <2>2. /\ DOMAIN snapshots' \subseteq Nat
        /\ \A v \in DOMAIN snapshots' : snapshots'[v] \in Contents \cup {Torn}
    <3>1. CASE snapshots' = snapshots
      BY <3>1 DEF TypeOK
    <3>2. CASE snapshots' = Put(snapshots, FinalVersion, Torn)
      BY <1>4, <3>2
    <3>. QED
      BY <1>10, <3>1, <3>2 DEF Crash
  <2>3. /\ manifest' \in Manifests \cup {Torn}
        /\ atomsFile' \in Atoms \cup {Torn}
        /\ linksFile' \in Links \cup {Torn}
    BY <1>10 DEF Crash, TypeOK
  <2>. QED
    BY <1>8, <1>10, <2>1, <2>2, <2>3 DEF Crash, TypeOK
<1>11. CASE UNCHANGED vars
  BY <1>11 DEF vars, TypeOK
<1>. QED
  BY <1>1, <1>2, <1>3, <1>5, <1>6, <1>7, <1>9, <1>10, <1>11 DEF Next, Commit

\* Whatever is committed and whenever the process is killed, the files and the
\* logs hold values of their kinds, the content of the store stays within the
\* seeded objects and those of the intents, and only a file whose rewrite was
\* cut short cannot be read.
THEOREM StoreTyped == Spec => []TypeOK
BY StoreTypeInit, StoreTypeNext, PTL DEF Spec

-----------------------------------------------------------------------------
(* What survives kills. *)

\* The manifest a batch started from never counts more than the logs hold,
\* with what the batch has logged so far.
BaseBehindLogs ==
    /\ base.version = base.operations
    /\ base.operations + committed <= Len(operations)
    /\ base.proposals + recorded <= proposals

\* While a batch is taken the manifest on disk is the one it started from; the
\* snapshot exists before the manifest sends readers to it; and a version that
\* was once a snapshot's stays one.
ManifestPublished ==
    /\ manifest # Torn => manifest.version \in DOMAIN snapshots
    /\ 0 \in DOMAIN snapshots
    /\ phase = "intents" => manifest = base
    /\ phase = "manifest" => FinalVersion \in DOMAIN snapshots

KInv ==
    /\ phase = "idle" => committed = 0 /\ recorded = 0
    /\ BaseBehindLogs
    /\ ManifestNeverAheadOfLogs
    /\ ManifestPublished

SInv == TypeOK /\ KInv

LEMMA DefaultIsManifest ==
    /\ DefaultManifest \in Manifests
    /\ DefaultManifest.version = 0
    /\ DefaultManifest.operations = 0
    /\ DefaultManifest.proposals = 0
BY DEF DefaultManifest, Manifests

LEMMA StoreInit == Init => SInv
BY DefaultIsManifest, StoreTypeInit
   DEF Init, SInv, KInv, BaseBehindLogs, ManifestNeverAheadOfLogs, ManifestPublished

\* What a killed or finished batch leaves in memory.
LEMMA MemoryForgotten ==
    ASSUME ForgetBatch, operations' \in Seq(Nat), proposals' \in Nat
    PROVE  /\ BaseBehindLogs'
           /\ phase' = "idle" /\ committed' = 0 /\ recorded' = 0
BY DefaultIsManifest DEF ForgetBatch, BaseBehindLogs

LEMMA StoreNext == SInv /\ [Next]_vars => SInv'
<1>. SUFFICES ASSUME SInv, [Next]_vars PROVE KInv'
  BY StoreTypeNext DEF SInv
<1>. USE DEF SInv, KInv, disk, memory
<1>0. /\ operations \in Seq(Nat) /\ proposals \in Nat
      /\ committed \in Nat /\ recorded \in Nat
      /\ base \in Manifests /\ manifest \in Manifests \cup {Torn}
  BY DEF TypeOK
<1>1. ASSUME NEW batch, Begin(batch) PROVE KInv'
  <2>1. manifest' = base' /\ base' \in Manifests
    BY <1>0, <1>1, DefaultIsManifest DEF Begin, Opened
  <2>2. /\ base'.version = base'.operations
        /\ base'.operations <= Len(operations)
        /\ base'.proposals <= proposals
    BY <1>0, <1>1, <2>1, DefaultIsManifest DEF Begin, Opened, ManifestNeverAheadOfLogs
  <2>3. committed' = 0 /\ recorded' = 0 /\ UNCHANGED <<operations, proposals>>
    BY <1>0, <1>1 DEF Begin
  <2>4. BaseBehindLogs'
    BY <2>1, <2>2, <2>3 DEF BaseBehindLogs, Manifests
  <2>5. ManifestNeverAheadOfLogs'
    BY <2>1, <2>2, <2>3 DEF ManifestNeverAheadOfLogs
  <2>6. DOMAIN snapshots' = DOMAIN snapshots
    BY <1>0, <1>1 DEF Begin
  <2>7. manifest'.version \in DOMAIN snapshots
    BY <1>0, <1>1, DefaultIsManifest DEF Begin, Opened, ManifestPublished
  <2>8. ManifestPublished'
    BY <1>0, <1>1, <2>1, <2>6, <2>7 DEF Begin, ManifestPublished
  <2>. QED
    BY <1>0, <1>1, <2>1, <2>3, <2>4, <2>5, <2>8 DEF Begin
<1>2. CASE ApplyIntent
  <2>1. Len(operations') = Len(operations) + 1 /\ operations' \in Seq(Nat)
    BY <1>0, <1>2 DEF ApplyIntent, TypeOK
  <2>2. BaseBehindLogs'
    BY <1>0, <1>2, <2>1 DEF ApplyIntent, BaseBehindLogs, Manifests
  <2>3. ManifestNeverAheadOfLogs'
    BY <1>0, <1>2, <2>1 DEF ApplyIntent, ManifestNeverAheadOfLogs, Manifests
  <2>. QED
    BY <1>0, <1>2, <2>1, <2>2, <2>3 DEF ApplyIntent, ManifestPublished
<1>3. CASE RecordProposal
  <2>1. BaseBehindLogs'
    BY <1>0, <1>3 DEF RecordProposal, BaseBehindLogs, Manifests
  <2>2. ManifestNeverAheadOfLogs'
    BY <1>0, <1>3 DEF RecordProposal, ManifestNeverAheadOfLogs, Manifests
  <2>. QED
    BY <1>0, <1>3, <2>1, <2>2 DEF RecordProposal, ManifestPublished
<1>4. CASE WriteSnapshot
  <2>1. DOMAIN snapshots' = DOMAIN snapshots \cup {FinalVersion}
    BY <1>0, <1>4 DEF WriteSnapshot, Put
  <2>2. FinalVersion' = FinalVersion
    BY <1>0, <1>4 DEF WriteSnapshot, FinalVersion
  <2>3. ManifestPublished'
    BY <1>0, <1>4, <2>1, <2>2 DEF WriteSnapshot, ManifestPublished
  <2>. QED
    BY <1>0, <1>4, <2>3 DEF WriteSnapshot, BaseBehindLogs, ManifestNeverAheadOfLogs
<1>5. CASE WriteManifest
  <2>1. /\ manifest'.version = FinalVersion
        /\ manifest'.operations = base.operations + committed
        /\ manifest'.proposals = base.proposals + recorded
        /\ manifest' \in Manifests
    BY <1>0, <1>5 DEF WriteManifest, FinalManifest, FinalVersion, BaseBehindLogs,
                Manifests
  <2>2. ManifestNeverAheadOfLogs'
    BY <1>0, <1>5, <2>1 DEF WriteManifest, ManifestNeverAheadOfLogs, FinalVersion,
                      BaseBehindLogs
  <2>3. ManifestPublished'
    BY <1>0, <1>5, <2>1 DEF WriteManifest, ManifestPublished
  <2>. QED
    BY <1>0, <1>5, <2>1, <2>2, <2>3 DEF WriteManifest, BaseBehindLogs
<1>6. CASE WriteAtoms
  BY <1>0, <1>6 DEF WriteAtoms, BaseBehindLogs, ManifestNeverAheadOfLogs,
              ManifestPublished
<1>7. CASE WriteLinks
  <2>1. UNCHANGED <<manifest, snapshots, operations, proposals>> /\ ForgetBatch
    BY <1>0, <1>7 DEF WriteLinks
  <2>. QED
    BY <1>0, <2>1, MemoryForgotten DEF ManifestNeverAheadOfLogs, ManifestPublished
<1>8. CASE Crash
  <2>1. UNCHANGED <<operations, proposals>> /\ ForgetBatch
    BY <1>0, <1>8 DEF Crash
  <2>2. DOMAIN snapshots \subseteq DOMAIN snapshots'
    BY <1>0, <1>8 DEF Crash, Put
  <2>3. manifest' # Torn => manifest' = manifest
    BY <1>0, <1>8 DEF Crash
  <2>. QED
    BY <1>0, <2>1, <2>2, <2>3, MemoryForgotten
       DEF ManifestNeverAheadOfLogs, ManifestPublished
<1>9. CASE UNCHANGED vars
  BY <1>0, <1>9 DEF vars, BaseBehindLogs, ManifestNeverAheadOfLogs,
              ManifestPublished, FinalVersion
<1>. QED
  BY <1>1, <1>2, <1>3, <1>4, <1>5, <1>6, <1>7, <1>8, <1>9 DEF Next, Commit

LEMMA StoreInvariant == Spec => []SInv
BY StoreInit, StoreNext, PTL DEF Spec

\* However often the process is killed, a manifest that can be read never
\* counts an operation or a proposal that the logs do not hold.
THEOREM ManifestIsBackedByLogs == Spec => []ManifestNeverAheadOfLogs
<1>1. SInv => ManifestNeverAheadOfLogs
  BY DEF SInv, KInv
<1>. QED
  BY <1>1, StoreInvariant, PTL

\* However often the process is killed, a manifest that can be read names a
\* snapshot that was written.
THEOREM ManifestNamesASnapshot == Spec => []LatestSnapshotExists
<1>1. SInv => LatestSnapshotExists
  BY DEF SInv, KInv, ManifestPublished, LatestSnapshotExists
<1>. QED
  BY <1>1, StoreInvariant, PTL

\* A kill tears the snapshot readers are sent to only while a batch that
\* committed nothing rewrites it.
THEOREM PublishedSnapshotIsSafe == Spec => PublishedSnapshotTornOnlyInPlace
<1>. DEFINE Torn1 ==
       /\ manifest # Torn /\ manifest.version \in DOMAIN snapshots
       /\ snapshots[manifest.version] # Torn
       /\ snapshots'[manifest.version] = Torn
<1>1. SInv /\ [Next]_vars => [Torn1 => committed = 0]_vars
  <2>. SUFFICES ASSUME SInv, Next, Torn1 PROVE committed = 0
    OBVIOUS
  <2>. USE DEF SInv, KInv, TypeOK
  <2>1. snapshots' # snapshots
    OBVIOUS
  <2>2. ASSUME NEW batch, Begin(batch) PROVE FALSE
    BY <2>2 DEF Begin, Opened, ManifestPublished
  <2>3. CASE phase = "intents" /\ \E c : snapshots' = Put(snapshots, FinalVersion, c)
    <3>1. manifest.version = FinalVersion
      BY <2>3 DEF Put
    <3>. QED
      BY <2>3, <3>1 DEF ManifestPublished, FinalVersion, BaseBehindLogs,
                        Manifests
  <2>4. CASE WriteSnapshot \/ Crash
    BY <2>1, <2>3, <2>4 DEF WriteSnapshot, Crash
  <2>. QED
    BY <2>1, <2>2, <2>4
       DEF Next, Commit, ApplyIntent, RecordProposal, WriteManifest,
           WriteAtoms, WriteLinks
<1>. QED
  BY <1>1, StoreInvariant, PTL DEF Spec, PublishedSnapshotTornOnlyInPlace

-----------------------------------------------------------------------------
(* The store while no commit is killed: its files and logs tell one story, *)
(* what is published stays, and a batch is published in one step.          *)

NothingTorn ==
    /\ manifest # Torn /\ atomsFile # Torn /\ linksFile # Torn
    /\ \A v \in DOMAIN snapshots : snapshots[v] # Torn

\* What the logs hold is what the manifest said when the batch began, and what
\* the batch has logged.
LogsAgree ==
    LET start == IF phase = "idle" THEN manifest ELSE base
    IN  /\ Len(operations) = start.operations + committed
        /\ proposals = start.proposals + recorded

\* The numbers the operations were logged under.
NumbersRise ==
    LET first == Len(operations) - committed + 1
    IN  /\ \A k \in DOMAIN operations : operations[k] >= k
        /\ phase # "idle" => version = base.version + committed + recorded
        /\ phase # "idle" =>
              \A k \in first..Len(operations) : operations[k] <= version
        /\ \A j, k \in first..Len(operations) :
              j < k => operations[j] < operations[k]

\* How far the rewrites have come.
FilesFollow ==
    /\ phase \in {"intents", "manifest"} => manifest = base
    /\ phase = "idle" => snapshots[manifest.version]
                           = [atoms |-> atomsFile, links |-> linksFile]
    /\ phase = "intents" /\ committed = 0 => work = snapshots[manifest.version]
    /\ phase \in {"manifest", "atoms", "links"} =>
          FinalVersion \in DOMAIN snapshots /\ snapshots[FinalVersion] = work
    /\ phase \in {"atoms", "links"} => manifest = FinalManifest
    /\ phase = "links" => atomsFile = work.atoms

QInv ==
    crashes = 0 => NothingTorn /\ LogsAgree /\ NumbersRise /\ FilesFollow

\* A content is no more than its two files.
LEMMA ContentIsItsFiles ==
    ASSUME NEW c \in Contents
    PROVE  /\ c = [atoms |-> c.atoms, links |-> c.links]
           /\ c.atoms # Torn /\ c.links # Torn /\ c # Torn
BY StoreAssumption DEF Contents

LEMMA QuietInit == Init => QInv
<1>. SUFFICES ASSUME Init PROVE NothingTorn /\ LogsAgree /\ NumbersRise /\ FilesFollow
  BY DEF QInv
<1>1. Seed \in Contents /\ Torn \notin Manifests
  BY StoreAssumption
<1>2. NothingTorn
  BY <1>1, ContentIsItsFiles, DefaultIsManifest DEF Init, NothingTorn
<1>3. LogsAgree /\ NumbersRise
  BY DefaultIsManifest DEF Init, LogsAgree, NumbersRise
<1>4. FilesFollow
  BY <1>1, ContentIsItsFiles, DefaultIsManifest DEF Init, FilesFollow
<1>. QED
  BY <1>2, <1>3, <1>4

LEMMA QuietNext == SInv /\ QInv /\ [Next]_vars => QInv'
<1>. SUFFICES ASSUME SInv, QInv, [Next]_vars, crashes' = 0
              PROVE  NothingTorn' /\ LogsAgree' /\ NumbersRise' /\ FilesFollow'
  BY DEF QInv
<1>. USE DEF disk, memory
<1>0. /\ TypeOK /\ KInv /\ crashes \in Nat
      /\ operations \in Seq(Nat) /\ proposals \in Nat /\ version \in Nat
      /\ committed \in Nat /\ recorded \in Nat
      /\ base \in Manifests /\ manifest \in Manifests \cup {Torn}
      /\ base' \in Manifests /\ work \in Contents /\ work' \in Contents
  BY StoreTypeNext DEF SInv, TypeOK
<1>1. crashes = 0 /\ ~Crash
  BY <1>0 DEF Next, Commit, Crash, Begin, ApplyIntent, RecordProposal,
     WriteSnapshot, WriteManifest, WriteAtoms, WriteLinks, vars
<1>2. NothingTorn /\ LogsAgree /\ NumbersRise /\ FilesFollow
  BY <1>1 DEF QInv
<1>3. manifest \in Manifests
  BY <1>0, <1>2 DEF NothingTorn
<1>4. ASSUME NEW batch \in Batches, Begin(batch)
      PROVE  NothingTorn' /\ LogsAgree' /\ NumbersRise' /\ FilesFollow'
  <2>1. /\ UNCHANGED <<manifest, atomsFile, linksFile, operations, proposals,
                       committed, recorded>>
        /\ committed = 0 /\ recorded = 0 /\ base' = manifest
        /\ phase = "idle" /\ phase' = "intents" /\ version' = manifest.version
        /\ work' = [atoms |-> atomsFile, links |-> linksFile]
    BY <1>0, <1>2, <1>4 DEF Begin, Opened, NothingTorn, KInv
  <2>2. DOMAIN snapshots' = DOMAIN snapshots
        /\ \A v \in DOMAIN snapshots : snapshots'[v] = snapshots[v]
    BY <1>2, <1>4 DEF Begin, Opened, NothingTorn
  <2>3. NothingTorn'
    BY <1>2, <2>1, <2>2 DEF NothingTorn
  <2>4. LogsAgree'
    BY <1>2, <2>1 DEF LogsAgree
  <2>5. NumbersRise'
    BY <1>0, <1>2, <1>3, <2>1 DEF NumbersRise, Manifests
  <2>6. FilesFollow'
    BY <1>0, <1>2, <1>3, <2>1, <2>2 DEF FilesFollow, KInv, ManifestPublished, NothingTorn
  <2>. QED
    BY <2>3, <2>4, <2>5, <2>6
<1>5. CASE ApplyIntent
  <2>1. /\ UNCHANGED <<manifest, atomsFile, linksFile, snapshots, proposals,
                       phase, base, recorded>>
        /\ operations' = Append(operations, version + 1)
        /\ committed' = committed + 1 /\ version' = version + 1
        /\ phase = "intents"
    BY <1>5 DEF ApplyIntent
  <2>2. /\ Len(operations') = Len(operations) + 1
        /\ operations'[Len(operations')] = version + 1
        /\ \A k \in 1..Len(operations) : operations'[k] = operations[k]
        /\ DOMAIN operations' = 1..Len(operations) + 1
        /\ DOMAIN operations = 1..Len(operations) /\ Len(operations) \in Nat
    BY <1>0, <2>1
  <2>3. NothingTorn'
    BY <1>2, <2>1 DEF NothingTorn
  <2>4. LogsAgree'
    BY <1>0, <1>2, <2>1, <2>2 DEF LogsAgree, Manifests
  <2>5. FilesFollow'
    BY <1>0, <1>2, <2>1 DEF FilesFollow
  <2>6. /\ Len(operations) = base.operations + committed
        /\ version = base.version + committed + recorded
        /\ base.version = base.operations
        /\ base.version \in Nat
    BY <1>0, <1>2, <2>1 DEF LogsAgree, NumbersRise, KInv, BaseBehindLogs, Manifests
  <2>. DEFINE first == Len(operations) - committed + 1
  <2>t. /\ committed \in Nat /\ recorded \in Nat /\ version \in Nat
        /\ committed' = committed + 1 /\ version' = version + 1
        /\ recorded' = recorded /\ base'.version = base.version
        /\ base.operations \in Nat
    BY <1>0, <2>1 DEF Manifests
  <2>7. Len(operations') - committed' + 1 = first /\ first \in Nat /\ first >= 1
    <3>1. /\ Len(operations) \in Nat /\ committed \in Nat
          /\ base.operations \in Nat
      BY <2>2, <2>t
    <3>2. Len(operations) = base.operations + committed
      BY <2>6
    <3>3. first = base.operations + 1
      BY <3>1, <3>2
    <3>4. Len(operations') - committed' = (Len(operations) + 1) - (committed + 1)
      BY <2>2, <2>t
    <3>5. Len(operations') - committed' = Len(operations) - committed
      BY <3>1, <3>4
    <3>. QED
      BY <3>1, <3>3, <3>5
  <2>8. /\ \A k \in first..Len(operations) : operations[k] <= version
        /\ \A j, k \in first..Len(operations) :
              j < k => operations[j] < operations[k]
        /\ \A k \in 1..Len(operations) : operations[k] >= k
        /\ \A k \in 1..Len(operations) : operations[k] \in Nat
    <3>1. \A k \in 1..Len(operations) : operations[k] \in Nat
      BY <1>0
    <3>. QED
      BY <1>2, <2>1, <2>2, <3>1 DEF NumbersRise
  <2>9. \A k \in first..Len(operations') :
           \/ k \in 1..Len(operations) /\ k \in first..Len(operations)
           \/ k = Len(operations')
    BY <2>2, <2>7
  <2>10. version' = base'.version + committed' + recorded'
    <3>1. base.version \in Nat /\ committed \in Nat /\ recorded \in Nat
      BY <2>6, <2>t
    <3>2. version = base.version + committed + recorded
      BY <2>6
    <3>3. version' = (base.version + committed + recorded) + 1
      BY <3>2, <2>t
    <3>4. version' = base.version + (committed + 1) + recorded
      BY <3>3, <3>1
    <3>. QED
      BY <3>4, <2>t
  <2>. HIDE DEF first
  <2>11. \A k \in first..Len(operations') : operations'[k] <= version'
    BY <1>0, <2>1, <2>2, <2>8, <2>9
  <2>12. \A j, k \in first..Len(operations') :
            j < k => operations'[j] < operations'[k]
    BY <1>0, <2>1, <2>2, <2>7, <2>8, <2>9
  <2>13. \A k \in DOMAIN operations' : operations'[k] >= k
    <3>1. version + 1 >= Len(operations')
      BY <2>2, <2>6, <2>t
    <3>2. \A k \in 1..Len(operations') : k \in 1..Len(operations) \/ k = Len(operations')
      BY <2>2
    <3>. QED
      BY <2>2, <2>8, <3>1, <3>2
  <2>14. NumbersRise'
    BY <2>7, <2>10, <2>11, <2>12, <2>13 DEF NumbersRise
  <2>. QED
    BY <2>3, <2>4, <2>5, <2>14
<1>6. CASE RecordProposal
  <2>1. /\ UNCHANGED <<manifest, atomsFile, linksFile, snapshots, operations,
                       phase, work, base, committed>>
        /\ proposals' = proposals + 1 /\ recorded' = recorded + 1
        /\ version' = version + 1 /\ phase = "intents"
    BY <1>6 DEF RecordProposal
  <2>2. NothingTorn' /\ LogsAgree' /\ FilesFollow'
    BY <1>0, <1>2, <2>1 DEF NothingTorn, LogsAgree, FilesFollow, Manifests
  <2>3. version' = base.version + committed + recorded'
    BY <1>0, <1>2, <2>1 DEF NumbersRise, Manifests
  <2>4. \A k \in DOMAIN operations : operations[k] <= version =>
                                     operations[k] <= version'
    BY <1>0, <2>1
  <2>5. Len(operations) - committed + 1 >= 1
    BY <1>0, <1>2, <2>1 DEF LogsAgree, Manifests
  <2>6. NumbersRise'
    BY <1>0, <1>2, <2>1, <2>3, <2>4, <2>5 DEF NumbersRise
  <2>. QED
    BY <2>2, <2>6
<1>7. CASE WriteSnapshot
  <2>1. /\ UNCHANGED <<manifest, atomsFile, linksFile, operations, proposals,
                       work, base, version, committed, recorded>>
        /\ snapshots' = Put(snapshots, FinalVersion, work)
        /\ phase = "intents" /\ phase' = "manifest"
    BY <1>7 DEF WriteSnapshot
  <2>2. NothingTorn'
    BY <1>0, <1>2, <2>1, ContentIsItsFiles DEF NothingTorn, Put
  <2>3. LogsAgree' /\ NumbersRise'
    BY <1>2, <2>1 DEF LogsAgree, NumbersRise
  <2>4. FilesFollow'
    BY <1>2, <2>1 DEF FilesFollow, FinalVersion, Put
  <2>. QED
    BY <2>2, <2>3, <2>4
<1>8. CASE WriteManifest
  <2>1. /\ UNCHANGED <<atomsFile, linksFile, snapshots, operations, proposals,
                       work, base, version, committed, recorded>>
        /\ manifest' = FinalManifest /\ FinalManifest' = FinalManifest
        /\ phase = "manifest" /\ phase' = "atoms"
        /\ FinalVersion' = FinalVersion
    BY <1>8 DEF WriteManifest, FinalManifest, FinalVersion
  <2>2. FinalManifest \in Manifests
    BY <1>0 DEF FinalManifest, FinalVersion, Manifests
  <2>3. NothingTorn'
    BY <1>2, <2>1, <2>2, StoreAssumption DEF NothingTorn
  <2>4. LogsAgree' /\ NumbersRise'
    BY <1>2, <2>1 DEF LogsAgree, NumbersRise
  <2>5. FilesFollow'
    BY <1>2, <2>1 DEF FilesFollow
  <2>. QED
    BY <2>3, <2>4, <2>5
<1>9. CASE WriteAtoms
  <2>1. /\ UNCHANGED <<manifest, linksFile, snapshots, operations, proposals,
                       work, base, version, committed, recorded>>
        /\ atomsFile' = work.atoms /\ FinalManifest' = FinalManifest
        /\ phase = "atoms" /\ phase' = "links" /\ FinalVersion' = FinalVersion
    BY <1>9 DEF WriteAtoms, FinalManifest, FinalVersion
  <2>2. NothingTorn'
    BY <1>0, <1>2, <2>1, ContentIsItsFiles DEF NothingTorn
  <2>3. LogsAgree' /\ NumbersRise'
    BY <1>2, <2>1 DEF LogsAgree, NumbersRise
  <2>4. FilesFollow'
    BY <1>2, <2>1 DEF FilesFollow
  <2>. QED
    BY <2>2, <2>3, <2>4
<1>10. CASE WriteLinks
  <2>1. /\ UNCHANGED <<manifest, atomsFile, snapshots, operations, proposals>>
        /\ linksFile' = work.links /\ phase = "links" /\ phase' = "idle"
        /\ committed' = 0 /\ recorded' = 0
    BY <1>10 DEF WriteLinks, ForgetBatch
  <2>2. NothingTorn'
    BY <1>0, <1>2, <2>1, ContentIsItsFiles DEF NothingTorn
  <2>3. LogsAgree'
    BY <1>0, <1>2, <2>1 DEF LogsAgree, FilesFollow, FinalManifest, Manifests
  <2>4. NumbersRise'
    BY <1>0, <1>2, <2>1 DEF NumbersRise
  <2>5. FilesFollow'
    <3>1. manifest.version = FinalVersion
      BY <1>2, <2>1 DEF FilesFollow, FinalManifest
    <3>2. work = [atoms |-> work.atoms, links |-> work.links]
      BY <1>0, ContentIsItsFiles
    <3>. QED
      BY <1>2, <2>1, <3>1, <3>2 DEF FilesFollow
  <2>. QED
    BY <2>2, <2>3, <2>4, <2>5
<1>11. CASE UNCHANGED vars
  BY <1>2, <1>11 DEF vars, NothingTorn, LogsAgree, NumbersRise, FilesFollow,
                     FinalManifest, FinalVersion
<1>. QED
  BY <1>1, <1>4, <1>5, <1>6, <1>7, <1>8, <1>9, <1>10, <1>11 DEF Next, Commit

LEMMA QuietInvariant == Spec => [](SInv /\ QInv)
<1>1. Init => SInv /\ QInv
  BY StoreInit, QuietInit
<1>2. SInv /\ QInv /\ [Next]_vars => SInv' /\ QInv'
  BY StoreNext, QuietNext
<1>. QED
  BY <1>1, <1>2, PTL DEF Spec

\* Between batches, as long as none was killed, the current files are the
\* snapshot the manifest names, the manifest counts what the logs hold, and
\* no version number was given out twice within a batch.
THEOREM StoreTellsOneStory == Spec => []SettledFilesAgree
<1>1. SInv /\ QInv => SettledFilesAgree
  <2>. SUFFICES ASSUME SInv, QInv, crashes = 0 PROVE SettledFilesAgree
    BY DEF SettledFilesAgree
  <2>1. NothingTorn /\ LogsAgree /\ NumbersRise /\ FilesFollow
    BY DEF QInv
  <2>2. ManifestNeverAheadOfLogs /\ (phase = "idle" => committed = 0 /\ recorded = 0)
    BY DEF SInv, KInv
  <2>3. TypeOK /\ manifest \in Manifests
    BY <2>1 DEF SInv, TypeOK, NothingTorn
  <2>4. phase = "idle" =>
           /\ manifest.operations = Len(operations)
           /\ manifest.version = Len(operations)
           /\ manifest.proposals = proposals
    BY <2>1, <2>2, <2>3 DEF LogsAgree, ManifestNeverAheadOfLogs, Manifests,
                            TypeOK, NothingTorn
  <2>. QED
    BY <2>1, <2>4 DEF SettledFilesAgree, NumbersRise, FilesFollow
<1>. QED
  BY <1>1, QuietInvariant, PTL

\* As long as no commit is killed, a snapshot that a manifest has published is
\* never rewritten with another content, by a batch that commits nothing
\* either.
THEOREM PublishedStays == Spec => PublishedSnapshotsStay
<1>. DEFINE Stays == \A v \in DOMAIN snapshots :
                        v <= manifest.version => snapshots'[v] = snapshots[v]
<1>1. SInv /\ QInv /\ [Next]_vars => [crashes' = 0 => Stays]_vars
  <2>. SUFFICES ASSUME SInv, QInv, Next, crashes' = 0 PROVE Stays
    OBVIOUS
  <2>1. TypeOK /\ KInv /\ crashes \in Nat
    BY DEF SInv, TypeOK
  <2>2. crashes = 0 /\ ~Crash
    BY <2>1 DEF Next, Commit, Crash, Begin, ApplyIntent, RecordProposal,
       WriteSnapshot, WriteManifest, WriteAtoms, WriteLinks
  <2>3. NothingTorn /\ FilesFollow
    BY <2>2 DEF QInv
  <2>4. ASSUME NEW batch, Begin(batch) PROVE Stays
    BY <2>3, <2>4 DEF Begin, Opened, NothingTorn
  <2>5. CASE WriteSnapshot
    <3>1. manifest = base /\ snapshots' = Put(snapshots, FinalVersion, work)
      BY <2>3, <2>5 DEF WriteSnapshot, FilesFollow
    <3>2. FinalVersion <= manifest.version => committed = 0
      BY <2>1, <3>1 DEF FinalVersion, TypeOK, Manifests
    <3>3. committed = 0 =>
             FinalVersion = manifest.version /\ work = snapshots[FinalVersion]
      BY <2>1, <2>3, <2>5, <3>1 DEF WriteSnapshot, FilesFollow, FinalVersion,
                                   TypeOK, Manifests
    <3>. QED
      BY <3>1, <3>2, <3>3 DEF Put
  <2>. QED
    BY <2>2, <2>4, <2>5
       DEF Next, Commit, ApplyIntent, RecordProposal, WriteManifest,
           WriteAtoms, WriteLinks
<1>. QED
  BY <1>1, QuietInvariant, PTL DEF Spec, PublishedSnapshotsStay

-----------------------------------------------------------------------------
(* A batch is published in one step. *)

\* Induction over the natural numbers, for a set of them.
LEMMA NatIsReached ==
    ASSUME NEW S, 0 \in S, \A n \in Nat : n \in S => n + 1 \in S
    PROVE  \A n \in Nat : n \in S
<1>. SUFFICES ASSUME Nat \ S # {} PROVE FALSE
  OBVIOUS
<1>1. PICK m \in Nat \ S : \A k \in Nat \ S : ~(<<k, m>> \in OpToRel(<, Nat))
  BY NatLessThanWellFounded, WFMin
<1>2. m \in Nat /\ m \notin S
  BY <1>1
<1>3. m # 0
  BY <1>2
<1>4. PICK n \in Nat : m = n + 1
  <2>1. m - 1 \in Nat /\ m = (m - 1) + 1
    BY <1>2, <1>3
  <2>. QED
    BY <2>1
<1>5. n \in S
  <2>1. n < m
    BY <1>2, <1>4
  <2>. QED
    BY <1>1, <1>2, <2>1 DEF OpToRel
<1>. QED
  BY <1>2, <1>4, <1>5

\* The abstract store takes the same intents, and applies them alike.
LEMMA SameOperations ==
    \A i, c : /\ Published!CommitMode(i) = CommitMode(i)
              /\ Published!Apply(i, c) = Apply(i, c)
BY DEF Published!CommitMode, Published!RequestedMode, CommitMode, RequestedMode,
       Published!Apply, Published!Put, Published!StatusOf, Apply, Put, StatusOf

\* What readers would see is defined after every intent of a batch.
LEMMA ReachedStepByStep ==
    ASSUME NEW batch, Len(batch) \in Nat, NEW start
    PROVE  LET r == Published!Reached(batch, start)
           IN  /\ r[0] = start
               /\ \A k \in 1..Len(batch) :
                     r[k] = Published!Take(batch[k], r[k - 1])
<1>. DEFINE F(g, m) == [k \in 0..m |-> IF k = 0 THEN start
                          ELSE Published!Take(batch[k], g[k - 1])]
            S == {m \in Nat : \E g : g = F(g, m)}
<1>1. 0 \in S
  <2>. DEFINE g == [k \in 0..0 |-> start]
  <2>1. g = F(g, 0)
    OBVIOUS
  <2>. QED
    BY <2>1
<1>2. ASSUME NEW n \in Nat, n \in S PROVE n + 1 \in S
  <2>1. PICK g : g = F(g, n)
    BY <1>2
  <2>. DEFINE h == [k \in 0..(n + 1) |->
                      IF k = n + 1 THEN Published!Take(batch[k], g[n]) ELSE g[k]]
  <2>2. ASSUME NEW k \in 0..(n + 1)
        PROVE  h[k] = IF k = 0 THEN start
                      ELSE Published!Take(batch[k], h[k - 1])
    <3>1. CASE k = n + 1
      BY <3>1
    <3>2. CASE k \in 0..n
      <4>1. g[k] = IF k = 0 THEN start ELSE Published!Take(batch[k], g[k - 1])
        BY <2>1, <3>2
      <4>2. h[k] = g[k] /\ (k # 0 => h[k - 1] = g[k - 1])
        BY <3>2
      <4>. QED
        BY <4>1, <4>2
    <3>. QED
      BY <3>1, <3>2
  <2>3. h = F(h, n + 1)
    BY <2>2
  <2>4. \E f : f = F(f, n + 1)
    BY <2>3
  <2>. QED
    BY <2>4
<1>3. Len(batch) \in S
  BY <1>1, <1>2, NatIsReached
<1>4. \E g : g = F(g, Len(batch))
  BY <1>3
<1>5. Published!Reached(batch, start)
        = CHOOSE g : g = F(g, Len(batch))
  BY DEF Published!Reached
<1>6. Published!Reached(batch, start)
        = F(Published!Reached(batch, start), Len(batch))
  BY <1>4, <1>5
<1>. QED
  BY <1>6

\* What readers see.
Now == [content |-> snapshots[manifest.version], version |-> manifest.version]

\* Until the manifest is rewritten, the batch under way has taken some of its
\* intents, and readers would see what it has built.
TakenSoFar(batch, k) ==
    /\ Len(todo) = Len(batch) - k
    /\ \A j \in 1..Len(todo) : todo[j] = batch[k + j]
    /\ Published!Reached(batch, Now)[k]
         = [content |-> work, version |-> FinalVersion]

UnderWay ==
    crashes = 0 /\ phase \in {"intents", "manifest"} =>
        /\ \E batch \in Batches : \E k \in 0..Len(batch) : TakenSoFar(batch, k)
        /\ phase = "manifest" => todo = <<>>

LEMMA UnderWayNext == SInv /\ QInv /\ UnderWay /\ [Next]_vars => UnderWay'
<1>. SUFFICES ASSUME SInv, QInv, UnderWay, [Next]_vars, crashes' = 0,
                     phase' \in {"intents", "manifest"}
              PROVE  /\ \E batch \in Batches : \E k \in 0..Len(batch) :
                           TakenSoFar(batch, k)'
                     /\ phase' = "manifest" => todo' = <<>>
  BY DEF UnderWay
<1>. USE DEF disk, memory
<1>0. /\ TypeOK /\ KInv /\ crashes \in Nat
      /\ \A batch \in Batches : batch \in Seq(Intents) /\ Len(batch) \in Nat
      /\ base \in Manifests /\ committed \in Nat
  BY StoreAssumption DEF SInv, TypeOK
<1>1. crashes = 0 /\ ~Crash
  BY <1>0 DEF Next, Commit, Crash, Begin, ApplyIntent, RecordProposal,
     WriteSnapshot, WriteManifest, WriteAtoms, WriteLinks, vars
<1>2. NothingTorn /\ FilesFollow /\ TypeOK /\ manifest \in Manifests
  BY <1>0, <1>1 DEF QInv, NothingTorn, TypeOK
<1>3. ASSUME NEW batch \in Batches, Begin(batch)
      PROVE  TakenSoFar(batch, 0)' /\ phase' = "intents"
  <2>1. /\ manifest' = manifest /\ base' = manifest /\ todo' = batch
        /\ committed' = 0 /\ phase = "idle" /\ phase' = "intents"
        /\ work' = [atoms |-> atomsFile, links |-> linksFile]
        /\ manifest.version \in DOMAIN snapshots
    BY <1>0, <1>2, <1>3 DEF Begin, Opened, NothingTorn, KInv, ManifestPublished
  <2>2. snapshots'[manifest.version] = snapshots[manifest.version]
    BY <1>2, <1>3, <2>1 DEF Begin, Opened, NothingTorn
  <2>3. FinalVersion' = manifest.version
    BY <1>2, <2>1 DEF FinalVersion, Manifests
  <2>4. Now' = [content |-> work', version |-> FinalVersion']
    BY <1>2, <2>1, <2>2, <2>3 DEF Now, FilesFollow
  <2>5. Published!Reached(batch, Now')[0] = Now'
    BY <1>0, ReachedStepByStep
  <2>6. Published!Reached(batch, Now)'[0] = Now'
    BY <2>5 DEF Published!Reached
  <2>. QED
    BY <1>0, <2>1, <2>4, <2>6 DEF TakenSoFar
<1>4. CASE ApplyIntent \/ RecordProposal
  <2>1. /\ UNCHANGED <<manifest, snapshots, phase, base>> /\ Now' = Now
        /\ phase = "intents" /\ todo # <<>> /\ todo' = Tail(todo)
    BY <1>4 DEF ApplyIntent, RecordProposal, Now
  <2>2b. PICK batch \in Batches :
            \E k \in 0..Len(batch) : TakenSoFar(batch, k)
    BY <1>1, <2>1 DEF UnderWay
  <2>2. PICK k \in 0..Len(batch) : TakenSoFar(batch, k)
    BY <2>2b
  <2>3. todo \in Seq(Intents) /\ Len(todo) \in Nat /\ Len(todo) > 0
    BY <1>2, <2>1 DEF TypeOK
  <2>4. k + 1 \in 1..Len(batch)
    BY <1>0, <2>2, <2>3 DEF TakenSoFar
  <2>5. Head(todo) = batch[k + 1]
    BY <2>2, <2>3 DEF TakenSoFar
  <2>6. /\ Len(todo') = Len(batch) - (k + 1)
        /\ \A j \in 1..Len(todo') : todo'[j] = batch[(k + 1) + j]
    <3>1. /\ Len(todo') = Len(todo) - 1
          /\ \A j \in 1..Len(todo') : todo'[j] = todo[j + 1]
      BY <2>1, <2>3
    <3>2. Len(todo) = Len(batch) - k /\ Len(batch) \in Nat
      BY <1>0, <2>2 DEF TakenSoFar
    <3>3. \A j \in 1..Len(todo') : todo[j + 1] = batch[k + (j + 1)]
      BY <2>2, <2>3, <3>1 DEF TakenSoFar
    <3>4. \A j \in 1..Len(todo') : todo'[j] = batch[(k + 1) + j]
      <4>1. \A j \in 1..Len(todo') : k + (j + 1) = (k + 1) + j
        OBVIOUS
      <4>. QED
        BY <3>1, <3>3, <4>1
    <3>5. Len(todo') = Len(batch) - (k + 1)
      BY <2>3, <3>1, <3>2
    <3>. QED
      BY <3>4, <3>5
  <2>7. Published!Reached(batch, Now)[k + 1]
          = Published!Take(batch[k + 1],
                           [content |-> work, version |-> FinalVersion])
    <3>1. Published!Reached(batch, Now)[k + 1]
            = Published!Take(batch[k + 1], Published!Reached(batch, Now)[(k + 1) - 1])
      BY <1>0, <2>4, ReachedStepByStep
    <3>2. (k + 1) - 1 = k
      OBVIOUS
    <3>. QED
      BY <2>2, <3>1, <3>2 DEF TakenSoFar
  <2>8. Published!Take(batch[k + 1],
                       [content |-> work, version |-> FinalVersion])
          = [content |-> work', version |-> FinalVersion']
    <3>1. CASE ApplyIntent
      <4>1. /\ CommitMode(batch[k + 1]) = "auto"
            /\ work' = Apply(batch[k + 1], work)
            /\ FinalVersion' = FinalVersion + 1
        BY <1>0, <2>5, <3>1 DEF ApplyIntent, FinalVersion, Manifests
      <4>. QED
        BY <4>1, SameOperations DEF Published!Take
    <3>2. CASE RecordProposal
      <4>1. /\ CommitMode(batch[k + 1]) # "auto"
            /\ work' = work /\ FinalVersion' = FinalVersion
        BY <2>5, <3>2 DEF RecordProposal, FinalVersion
      <4>. QED
        BY <4>1, SameOperations DEF Published!Take
    <3>. QED
      BY <1>4, <3>1, <3>2
  <2>9. Published!Reached(batch, Now)' = Published!Reached(batch, Now)
    BY <2>1 DEF Published!Reached
  <2>10. TakenSoFar(batch, k + 1)'
    BY <2>6, <2>7, <2>8, <2>9 DEF TakenSoFar
  <2>. QED
    BY <1>0, <2>1, <2>4, <2>10
<1>5. CASE WriteSnapshot
  <2>1. /\ UNCHANGED <<manifest, work, base, committed, todo>>
        /\ snapshots' = Put(snapshots, FinalVersion, work)
        /\ phase = "intents" /\ todo = <<>> /\ manifest = base
        /\ FinalVersion' = FinalVersion
        /\ manifest.version \in DOMAIN snapshots
    BY <1>0, <1>2, <1>5 DEF WriteSnapshot, FilesFollow, FinalVersion, KInv,
                          ManifestPublished, NothingTorn
  <2>2. FinalVersion = manifest.version => work = snapshots[manifest.version]
    BY <1>0, <1>2, <2>1 DEF FinalVersion, FilesFollow, Manifests
  <2>3. Now' = Now
    BY <2>1, <2>2 DEF Now, Put
  <2>4b. PICK batch \in Batches :
            \E k \in 0..Len(batch) : TakenSoFar(batch, k)
    BY <1>1, <2>1 DEF UnderWay
  <2>4. PICK k \in 0..Len(batch) : TakenSoFar(batch, k)
    BY <2>4b
  <2>5. Published!Reached(batch, Now)' = Published!Reached(batch, Now)
    BY <2>3 DEF Published!Reached
  <2>6. TakenSoFar(batch, k)'
    BY <2>1, <2>4, <2>5 DEF TakenSoFar
  <2>. QED
    BY <2>1, <2>4, <2>6
<1>6. CASE WriteManifest \/ WriteAtoms \/ WriteLinks
  BY <1>6 DEF WriteManifest, WriteAtoms, WriteLinks, ForgetBatch
<1>7. CASE UNCHANGED vars
  <2>1. /\ UNCHANGED <<phase, todo, work, FinalVersion>> /\ Now' = Now
    BY <1>7 DEF vars, Now, FinalVersion
  <2>2b. PICK batch \in Batches :
            \E k \in 0..Len(batch) : TakenSoFar(batch, k)
    BY <1>1, <2>1 DEF UnderWay
  <2>2. PICK k \in 0..Len(batch) : TakenSoFar(batch, k)
    BY <2>2b
  <2>3. Published!Reached(batch, Now)' = Published!Reached(batch, Now)
    BY <2>1 DEF Published!Reached
  <2>4. TakenSoFar(batch, k)'
    BY <2>1, <2>2, <2>3 DEF TakenSoFar
  <2>. QED
    BY <1>1, <2>1, <2>2, <2>4 DEF UnderWay
<1>. QED
  BY <1>0, <1>1, <1>3, <1>4, <1>5, <1>6, <1>7 DEF Next, Commit

\* Without kills a commit publishes its batch as a whole: rewriting the
\* manifest is the one step that readers see, and what they see then is the
\* previous content with the committed intents of one batch applied in order.
THEOREM CommitIsAtomic ==
    ASSUME MaxCrashes = 0
    PROVE  Spec => PublishesAtomically
<1>1. Init => UnderWay
  BY DEF Init, UnderWay
<1>2. Init => Published!Init
  BY DefaultIsManifest DEF Init, Published!Init
<1>3. SInv /\ QInv /\ UnderWay /\ [Next]_vars
        => [Published!Next]_<<snapshots[manifest.version], manifest.version>>
  <2>. SUFFICES ASSUME SInv, QInv, UnderWay, [Next]_vars
                PROVE  \/ Published!Next
                       \/ UNCHANGED <<snapshots[manifest.version],
                                      manifest.version>>
    OBVIOUS
  <2>. USE DEF disk, memory
  <2>1. crashes = 0 /\ ~Crash
    BY DEF SInv, TypeOK, Crash
  <2>2. TypeOK /\ KInv /\ NothingTorn /\ FilesFollow
    BY <2>1 DEF SInv, QInv
  <2>3. /\ manifest \in Manifests /\ base \in Manifests
        /\ manifest.version \in DOMAIN snapshots
    BY <2>2 DEF TypeOK, NothingTorn, KInv, ManifestPublished
  <2>4. ASSUME NEW batch \in Batches, Begin(batch)
        PROVE  UNCHANGED <<snapshots[manifest.version], manifest.version>>
    BY <2>2, <2>3, <2>4 DEF Begin, Opened, NothingTorn
  <2>5. CASE WriteSnapshot
    <3>1. /\ manifest' = manifest /\ manifest = base
          /\ snapshots' = Put(snapshots, FinalVersion, work)
          /\ phase = "intents"
      BY <2>2, <2>5 DEF WriteSnapshot, FilesFollow
    <3>2. FinalVersion = manifest.version => work = snapshots[manifest.version]
      BY <2>2, <2>3, <3>1 DEF FinalVersion, FilesFollow, Manifests, TypeOK
    <3>. QED
      BY <2>3, <3>1, <3>2 DEF Put
  <2>6. CASE WriteManifest
    <3>1. /\ snapshots' = snapshots /\ manifest' = FinalManifest
          /\ phase = "manifest" /\ todo = <<>>
          /\ snapshots[FinalVersion] = work
      BY <2>1, <2>2, <2>6 DEF WriteManifest, UnderWay, FilesFollow
    <3>2b. PICK batch \in Batches :
              \E k \in 0..Len(batch) : TakenSoFar(batch, k)
      BY <2>1, <3>1 DEF UnderWay
    <3>2. PICK k \in 0..Len(batch) : TakenSoFar(batch, k)
      BY <3>2b
    <3>3. k = Len(batch)
      <4>1. Len(batch) \in Nat
        BY StoreAssumption
      <4>. QED
        BY <3>1, <3>2, <4>1 DEF TakenSoFar
    <3>4. Published!Reached(batch, Now)[Len(batch)]
            = [content |-> work, version |-> FinalVersion]
      BY <3>2, <3>3 DEF TakenSoFar
    <3>5. snapshots'[manifest'.version] = work /\ manifest'.version = FinalVersion
      BY <3>1 DEF FinalManifest
    <3>6. Published!Publish(batch)
      BY <3>4, <3>5 DEF Published!Publish, Now
    <3>. QED
      BY <3>2, <3>6 DEF Published!Next
  <2>. QED
    BY <2>1, <2>4, <2>5, <2>6
       DEF Next, Commit, ApplyIntent, RecordProposal, WriteAtoms, WriteLinks,
           vars
<1>. QED
  BY <1>1, <1>2, <1>3, UnderWayNext, QuietInvariant, PTL
     DEF Spec, PublishesAtomically, Published!Spec
=============================================================================
