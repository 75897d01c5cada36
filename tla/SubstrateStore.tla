--------------------------- MODULE SubstrateStore ---------------------------
(***************************************************************************)
(* The file-based context store and its batch commit:                      *)
(*   wccu_eval/substrate/context_substrate_store.py                        *)
(*   wccu_eval/substrate/context_commit_lanes.py                           *)
(*                                                                         *)
(* A batch is applied in memory, intent by intent, while its records are   *)
(* appended to two logs; then four files are rewritten in place, one after *)
(* the other: the snapshot, the manifest, the atoms and the links.  The    *)
(* process may be killed at any point, in the middle of a rewrite too; the *)
(* next commit opens what it finds on disk.                                *)
(***************************************************************************)
EXTENDS StoreOperations, Integers, Sequences

CONSTANTS Batches,      \* the sequences of intents the merge stage hands over
          Seed,         \* the seeded content
          Torn,         \* the content of a file whose rewrite was cut short
          MaxBatches,   \* bound on the number of commits
          MaxCrashes    \* bound on the number of kills

VARIABLES manifest, atomsFile, linksFile, snapshots,   \* the files
          operations, proposals,                       \* the logs
          phase,      \* where the committing process is
          todo,       \* the intents it has still to take
          work,       \* the content it builds
          base,       \* the manifest it started from
          version,    \* the last version number it gave out
          committed,  \* how many intents it applied
          recorded,   \* how many it recorded as proposals
          batches, crashes   \* counters for the bounds

disk == <<manifest, atomsFile, linksFile, snapshots, operations, proposals>>
memory == <<phase, todo, work, base, version, committed, recorded>>
vars == <<disk, memory, batches, crashes>>

Phases == {"idle", "intents", "manifest", "atoms", "links"}

-----------------------------------------------------------------------------
(* Opening the store: whatever cannot be read is replaced by a default. *)

NoItems == [x \in {} |-> x]
Empty == [atoms |-> NoItems, links |-> NoItems]
DefaultManifest == [version |-> 0, operations |-> 0, proposals |-> 0]

\* What the store can hold: the seeded objects, and those of the intents.
Intents == UNION {{batch[k] : k \in DOMAIN batch} : batch \in Batches}
Ids == DOMAIN Seed.atoms \cup DOMAIN Seed.links \cup {i.item : i \in Intents}
Statuses ==
    {Seed.atoms[a].status : a \in DOMAIN Seed.atoms}
        \cup {Seed.links[l] : l \in DOMAIN Seed.links}
        \cup {StatusOf(i) : i \in Intents} \cup {"retracted"}
Bodies ==
    {Seed.atoms[a].body : a \in DOMAIN Seed.atoms} \cup {i.body : i \in Intents}

SomeOf(S, T) == UNION {[D -> T] : D \in SUBSET S}

Atoms == SomeOf(Ids, [status : Statuses, body : Bodies])
Links == SomeOf(Ids, Statuses)
Contents == [atoms : Atoms, links : Links]
Manifests == [{"version", "operations", "proposals"} -> Nat]

\* A file that was cut short is not a valid one.
ASSUME StoreAssumption ==
    /\ MaxBatches \in Nat /\ MaxCrashes \in Nat
    /\ \A batch \in Batches : batch \in Seq(Intents)
    /\ Seed \in Contents
    /\ Torn \notin Manifests /\ Torn \notin Contents
    /\ Torn \notin Atoms /\ Torn \notin Links

Opened(file, default) == IF file = Torn THEN default ELSE file

ForgetBatch ==
    /\ phase' = "idle" /\ todo' = <<>> /\ work' = Empty
    /\ base' = DefaultManifest /\ version' = 0
    /\ committed' = 0 /\ recorded' = 0

\* A seeded store: seed_context.
Init ==
    /\ manifest = DefaultManifest
    /\ atomsFile = Seed.atoms /\ linksFile = Seed.links
    /\ snapshots = [v \in {0} |-> Seed]
    /\ operations = <<>> /\ proposals = 0
    /\ phase = "idle" /\ todo = <<>> /\ work = Empty
    /\ base = DefaultManifest /\ version = 0
    /\ committed = 0 /\ recorded = 0
    /\ batches = 0 /\ crashes = 0

\* commit_context_write_intents_batch: open the store and read it.
Begin(batch) ==
    /\ phase = "idle" /\ batches < MaxBatches
    /\ batches' = batches + 1
    /\ manifest' = Opened(manifest, DefaultManifest)
    /\ atomsFile' = Opened(atomsFile, NoItems)
    /\ linksFile' = Opened(linksFile, NoItems)
    /\ snapshots' = [snapshots EXCEPT ![0] = Opened(@, Empty)]
    /\ base' = manifest'
    /\ version' = manifest'.version
    /\ work' = [atoms |-> atomsFile', links |-> linksFile']
    /\ todo' = batch
    /\ phase' = "intents"
    /\ UNCHANGED <<operations, proposals, committed, recorded, crashes>>

\* BUG: the number is logged before it is taken.
MutApplyIntent ==
    /\ phase = "intents" /\ todo # <<>>
    /\ CommitMode(Head(todo)) = "auto"
    /\ work' = Apply(Head(todo), work)
    /\ operations' = Append(operations, version)
    /\ committed' = committed + 1
    /\ version' = version + 1
    /\ todo' = Tail(todo)
    /\ UNCHANGED <<manifest, atomsFile, linksFile, snapshots, proposals,
                   phase, base, recorded, batches, crashes>>

\* Every intent takes a version number; only those applied are logged under it.
ApplyIntent ==
    /\ phase = "intents" /\ todo # <<>>
    /\ CommitMode(Head(todo)) = "auto"
    /\ work' = Apply(Head(todo), work)
    /\ operations' = Append(operations, version + 1)
    /\ committed' = committed + 1
    /\ version' = version + 1
    /\ todo' = Tail(todo)
    /\ UNCHANGED <<manifest, atomsFile, linksFile, snapshots, proposals,
                   phase, base, recorded, batches, crashes>>

\* BUG: what awaits review is applied already.
MutRecordProposal ==
    /\ phase = "intents" /\ todo # <<>>
    /\ CommitMode(Head(todo)) # "auto"
    /\ work' = Apply(Head(todo), work)
    /\ proposals' = proposals + 1
    /\ recorded' = recorded + 1
    /\ version' = version + 1
    /\ todo' = Tail(todo)
    /\ UNCHANGED <<manifest, atomsFile, linksFile, snapshots, operations,
                   phase, base, committed, batches, crashes>>

RecordProposal ==
    /\ phase = "intents" /\ todo # <<>>
    /\ CommitMode(Head(todo)) # "auto"
    /\ proposals' = proposals + 1
    /\ recorded' = recorded + 1
    /\ version' = version + 1
    /\ todo' = Tail(todo)
    /\ UNCHANGED <<manifest, atomsFile, linksFile, snapshots, operations,
                   phase, work, base, committed, batches, crashes>>

\* BUG: off by one.
MutFinalVersion == base.version + committed - 1

FinalVersion == base.version + committed

WriteSnapshot ==
    /\ phase = "intents" /\ todo = <<>>
    /\ snapshots' = Put(snapshots, FinalVersion, work)
    /\ phase' = "manifest"
    /\ UNCHANGED <<manifest, atomsFile, linksFile, operations, proposals, todo,
                   work, base, version, committed, recorded, batches, crashes>>

\* BUG: the last number given out, which proposals take as well.
MutFinalManifest ==
    [version    |-> version,
     operations |-> base.operations + committed,
     proposals  |-> base.proposals + recorded]

\* BUG: what was only recorded counts as an operation.
MutOperationCount ==
    [version    |-> FinalVersion,
     operations |-> base.operations + committed + recorded,
     proposals  |-> base.proposals + recorded]

FinalManifest ==
    [version    |-> FinalVersion,
     operations |-> base.operations + committed,
     proposals  |-> base.proposals + recorded]

WriteManifest ==
    /\ phase = "manifest"
    /\ manifest' = FinalManifest
    /\ phase' = "atoms"
    /\ UNCHANGED <<atomsFile, linksFile, snapshots, operations, proposals, todo,
                   work, base, version, committed, recorded, batches, crashes>>

WriteAtoms ==
    /\ phase = "atoms"
    /\ atomsFile' = work.atoms
    /\ phase' = "links"
    /\ UNCHANGED <<manifest, linksFile, snapshots, operations, proposals, todo,
                   work, base, version, committed, recorded, batches, crashes>>

WriteLinks ==
    /\ phase = "links"
    /\ linksFile' = work.links
    /\ ForgetBatch
    /\ UNCHANGED <<manifest, atomsFile, snapshots, operations, proposals,
                   batches, crashes>>

\* The process is killed.  The file it was about to rewrite is as it was, or
\* torn; what it kept in memory is gone.
Crash ==
    /\ phase # "idle" /\ crashes < MaxCrashes
    /\ crashes' = crashes + 1
    /\ snapshots' \in
          {snapshots} \cup
          IF phase = "intents" /\ todo = <<>>
          THEN {Put(snapshots, FinalVersion, Torn)} ELSE {}
    /\ manifest' \in {manifest} \cup IF phase = "manifest" THEN {Torn} ELSE {}
    /\ atomsFile' \in {atomsFile} \cup IF phase = "atoms" THEN {Torn} ELSE {}
    /\ linksFile' \in {linksFile} \cup IF phase = "links" THEN {Torn} ELSE {}
    /\ ForgetBatch
    /\ UNCHANGED <<operations, proposals, batches>>

Commit ==
    \/ \E batch \in Batches : Begin(batch)
    \/ ApplyIntent \/ RecordProposal
    \/ WriteSnapshot \/ WriteManifest \/ WriteAtoms \/ WriteLinks

Next == Commit \/ Crash

Spec == Init /\ [][Next]_vars

-----------------------------------------------------------------------------
(* Invariants and action properties. *)

\* Every variable holds a value of its kind; a file may be torn.
TypeOK ==
    /\ manifest \in Manifests \cup {Torn}
    /\ atomsFile \in Atoms \cup {Torn} /\ linksFile \in Links \cup {Torn}
    /\ DOMAIN snapshots \subseteq Nat
    /\ \A v \in DOMAIN snapshots : snapshots[v] \in Contents \cup {Torn}
    /\ operations \in Seq(Nat) /\ proposals \in Nat
    /\ phase \in Phases
    /\ todo \in Seq(Intents)
    /\ work \in Contents
    /\ base \in Manifests
    /\ version \in Nat /\ committed \in Nat /\ recorded \in Nat
    /\ batches \in 0..MaxBatches /\ crashes \in 0..MaxCrashes

\* Between batches the four files and the two logs tell one story: the current
\* atoms and links are the latest snapshot's, and the manifest counts what the
\* logs hold.  Proposals consume version numbers, so the log may skip some; but
\* no operation has a version below its place in the log, and the operations
\* of the batch under way have rising versions.
SettledFilesAgree ==
    crashes = 0 =>
        /\ phase = "idle" =>
              /\ manifest.version = Len(operations)
              /\ snapshots[manifest.version]
                   = [atoms |-> atomsFile, links |-> linksFile]
              /\ manifest.operations = Len(operations)
              /\ manifest.proposals = proposals
        /\ \A k \in DOMAIN operations : operations[k] >= k
        /\ \A j, k \in (Len(operations) - committed + 1) .. Len(operations) :
              j < k => operations[j] < operations[k]

\* Later batches, those that commit nothing and rewrite the latest snapshot
\* included, never change a snapshot a manifest has published.
PublishedSnapshotsStay ==
    [][ crashes' = 0 =>
          \A v \in DOMAIN snapshots :
              v <= manifest.version => snapshots'[v] = snapshots[v] ]_vars

\* After any kill, a manifest that can be read never counts more than the logs
\* hold, and numbers its snapshot by the operations behind it.
ManifestNeverAheadOfLogs ==
    manifest # Torn =>
        /\ manifest.version = manifest.operations
        /\ manifest.operations <= Len(operations)
        /\ manifest.proposals <= proposals

\* A kill damages the snapshot that readers are sent to in one case only: a
\* batch that committed nothing was rewriting it in place.
PublishedSnapshotTornOnlyInPlace ==
    [][ /\ manifest # Torn /\ manifest.version \in DOMAIN snapshots
        /\ snapshots[manifest.version] # Torn
        /\ snapshots'[manifest.version] = Torn
        => committed = 0 ]_vars

\* The content readers are sent to exists, if a kill has not torn it.
LatestSnapshotExists ==
    manifest # Torn => manifest.version \in DOMAIN snapshots

-----------------------------------------------------------------------------
(* Without kills, a commit publishes its batch atomically: the manifest is  *)
(* the switch.                                                              *)

Published == INSTANCE AtomicCommit
                 WITH value  <- snapshots[manifest.version],
                      latest <- manifest.version

PublishesAtomically == Published!Spec
=============================================================================
