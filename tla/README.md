# A formal model of A.P.C. (Atomic Private Continuum)

This directory holds TLA+ modules that model the Rust crates under `crates/`,
the TLC configurations that check them on small instances, and theorems that
TLAPS checks for every instance. `PROJECT.json` is the index: components, runs,
the source lines behind each definition, the faults seeded to test the
properties, the hazards the properties are aimed at, and the theorems.

## 1. The system

A.P.C. keeps atoms of private information on several devices, edits them
offline, and synchronises them through a transport that nobody has to trust or
run. Nothing is ordered by clocks: merges are causal.

| Component | State | Operations | What makes it correct |
|---|---|---|---|
| Scalar register (`apc-core/scalar.rs`) | a map from revision identity to value and parents | assign, insert, merge, validate, frontier, ancestry, materialise | the traversals compute what their names say; merge refuses only conflicting statements |
| Working state (`working.rs`) | the register, at most one pending epoch with the frontier it was opened on | begin, update, seal, observe_remote, restore | an epoch claims exactly what its author had seen |
| Finalization ledger (`finalization.rs`) | local, finalized, exposed, handed-off identities | register, finalize, handoff, restore | exposure is closed under history, frozen, permanent |
| Local domain (`domain.rs`) | working state and ledger | the methods above in combination, snapshot, restore | every reachable snapshot can be restored; what left a replica can be observed by every other |
| Atom map and continuum (`state.rs`, `merge.rs`) | a register per atom | insert, merge | merges commute, associate and repeat without effect, in what they refuse too |
| Durability contract (`durability.rs`) | one committed state | `commit_durable`, `load_committed` | an acknowledged state survives |
| Filesystem store (`apc-storage-fs`) | candidate files, root manifest, next number | open, write, sync, rename, sync, load | it implements the contract through crashes and power loss at every system call |
| Durable sync record (`apc-sync/recovery.rs`, `session.rs`, `batch.rs`, `rebase.rs`, `record_store.rs`) | trusted state, applied cursor, outbox | stage, receive, reconcile, rebase: each clone, persist, swap | the cursor and the state it stands for move together; nothing staged is forgotten |
| Recovery runtime (`apc-runtime/*_set.rs`, `resume_recovery_*.rs`) | a container of domains and the record | stage a handoff, one resume cycle of one or two passes | nothing skipped, lost, sent too early or sent twice; everything arrives in the end |
| Single-domain runtime (`catchup.rs`, `receive.rs`, `publication.rs`, `resume*.rs`) | one domain and the record | stage, receive, one resume of one or of several publications, a report | a report is true of the durable record; a range it cannot read is never passed; otherwise it is the multi-domain runtime on one domain |
| Foreground gate (`foreground.rs`, `foreground_recovery.rs`) | one flag | enter, leave, refuse a call | leaving at any point of a cycle loses nothing |
| Multipart inbox (`protected.rs`, `wire.rs`) | pending parts per publication | ingest | a publication is delivered whole, unmixed, or not at all |
| Sync projections (`projection.rs`) | domains, dirty keys | set_local, export, acknowledge, import | nothing unpublished is clean; a half-done import loses nothing |
| Byte formats and content protection (`codec.rs`, `trusted_state*.rs`, `recovery.rs`, `wire.rs`, `apc-crypto`) | none | encode, decode, protect, unprotect | what is written is read back, what is damaged or misplaced is refused |
| Android bridge (`apc-android-bridge`) | two stores, a flag | four probes, two lifecycle calls | a force-stop anywhere leaves stores of which the local one claims no more than the remote one has; an alarm means an interrupted resume, never a loss |
| GitHub transport (`apc-transport-github`) | a branch, a commit limit | fetch_since, publish | no cursor passes an undelivered object |

Interactions. The application calls the local domain and the runtime. The
runtime calls the domain on clones, the record's transitions, the store
(`persist`) and the transport through the foreground gate. The store calls the
durability backend. Devices interact only through the transport: a fetch from
the applied cursor, and a publish that succeeds only if the head is still the
expected one. There are no threads inside the core; what is concurrent are the
devices, other writers of the repository, the platform's lifecycle calls, and
crashes.

What is hard here: the process or the power may end between any two steps of a
chain like *mark exposed, stage, persist, publish, retire*; a publish whose
answer is lost may have worked, or may work later; a stale publication can be
retired only on evidence that passes by once; a second pass reuses arguments
made for the first; remote work arrives under unsaved local work; a range of
commits is walked while the branch moves. The `hazards` of `PROJECT.json` give
each with its line.

## 2. Modules and code

| Module | Models | Variables and actions |
|---|---|---|
| `ScalarRegister` | `scalar.rs`, by definition | operators only: validity, frontier, closure, ancestry, merge |
| `ScalarAlgorithms` | the same functions as the code runs them | `Collect` builds every map of revisions; recursive walks with explicit stacks and the depth-first cycle visit are compared with the definitions |
| `LocalScalarDomain` | `working.rs`, `finalization.rs`, `domain.rs` | one operator per method: `CanX` when it returns Ok, `X` for what it leaves behind, `XFailed` when an error leaves a change |
| `CoreReplicas` | the core's callers | `domain`, `saved`, `wire`; one action per method, plus save, send, restart |
| `DurableCell` | `durability.rs` | the abstract cell: `visible`, `possible` after a power loss, `inflight`, `reply` |
| `FsStore` | `apc-storage-fs` | every system call of a commit is an action; `CommitFails`, `ProcessCrash`, `PowerLoss`, `ObjectsDirectoryLost`, `StoreDirectoryLost` |
| `SyncRecord` | `recovery.rs`, `projection.rs`, containers and what the codecs accept | operators on records, containers and projections |
| `SyncRuntime` | the runtime, the sessions, the gate | `live`, `record`, `disk`, `log`, `late`, `pass`, `foreground`; editing, staging, rebasing, the steps of a cycle, faults |
| `SingleDomainRuntime` | the single-domain runtime on some devices of a `SyncRuntime` fleet | adds single-domain steps to the same variables; a cycle ends in a report (what its last pass did, and the publications that either pass observed and retired) that stays until it is read |
| `MultipartInbox` | `protected.rs`, `wire.rs` and the two loops that read through an inbox | `pending`, `seen`, `completed`, `verdict`; one action per outcome of one object |
| `ProjectionExchange` | `DirtyDomainState` fed by the inbox, as the sync process worker does | adds `domains`, `dirty`, `exported` and the history of statements; edit, export, acknowledge, lose, import, stop half-way |
| `ByteFormats` | all codecs and the envelope, as sequences of fields | operators: writers in the order of the encoders, a reader in the order of the decoders |
| `ContinuumState` | `state.rs`, `merge.rs` | operators: insert and merge with their refusals, and the laws |
| `ContinuumLaws` | | the states on which `pure_functions` checks the laws |
| `RecoveryProbe` | `apc-android-bridge` | `local`, `remote`, `command`, `foreground`; one action per durable effect of a probe, force-stop, failed file operation |
| `GitHubTransport` | `apc-transport-github` | `commits`, `branch`, and per client `known`, `have`, `call`, `answer`; every API call of a walk is a step |
| `OperatorProofs` | | lemmas and theorems about the operators of `ScalarRegister`, `ContinuumState` and `LocalScalarDomain` |
| `CoreReplicasProofs`, `FsStoreProofs`, `ProjectionExchangeProofs`, `RecoveryProbeProofs`, `GitHubTransportProofs`, `SyncRuntimeProofs`, `SingleDomainRuntimeProofs` | | the theorems about the module each is named after |
| `MC...` | | the values of the constants |

`LocalScalarDomain` extends `ScalarRegister`; `CoreReplicas` and `SyncRecord`
extend `LocalScalarDomain`; `SyncRuntime` extends `SyncRecord`, and
`SingleDomainRuntime` extends `SyncRuntime`, which it also instantiates under a
refinement mapping (`Multi`). `FsStore` instantiates `DurableCell` under one.
`ProjectionExchange` extends `MultipartInbox`; `ByteFormats` and
`ContinuumLaws` extend `ScalarAlgorithms`, whose enumeration of registers they
are checked on. `ContinuumState` extends `ScalarRegister` alone, so that it can
be proved about: the walks of `ScalarAlgorithms` are recursive operators.
`SingleDomainRuntimeProofs` instantiates `SyncRuntimeProofs` (`M`) under the
mapping of `Multi`.

Choices that need a word:

- *Bytes.* Outside `ByteFormats`, identities, values, publications and objects
  are model values or small numbers, and a codec is a guard that says what it
  accepts. `ByteFormats` discharges that: it writes and reads the formats field
  by field (one word per field of fixed width, one per byte otherwise) and
  compares what the decoders accept with those guards. The cipher is ideal: its
  output opens under the key, nonce and associated data it was sealed with.
- *Identities as numbers.* `materialized_revision` compares identities, so they
  are numbers; nothing else depends on their order.
- *Steps of a cycle.* A pass stops before each transport call and each persist
  that follows one. Fetching and committing what was fetched is one step: what
  the fetch returned is fixed, and the commit touches only this device. The
  step may still end in a failed persist.
- *The disk.* `disk[d]` is the set of records a restart may find. `FsStore`
  shows that a store keeps this promise (`DurableCell`'s `possible`).
- *The transport in `SyncRuntime`* is a log and a cursor is its length. That
  there always is a known head, and that a baseline that is unavailable ends
  the pass (`TransportError`), are its two simplifications; `GitHubTransport`
  models the cases without a branch or a cursor.
- *What a commit lists.* A commit that adds a path again with the bytes it has
  changes no tree, and git lists nothing for it. The two implementations of
  `GitHubApi` in the repository, both in tests
  (`apc-transport-github/src/lib.rs:423`, `durable_github_session.rs:118`), list
  it as `Modified`, which `fetch_since` refuses. No client for the real service
  is in the repository, so the model has both (`Listings`). Hence a publication
  of an object that is there already may make the range unreadable to all, and
  `RefusedOnlyForCause` names that as a cause beside tampering. A retry after a
  lost answer is no such publication: it expects the old head and conflicts.
  That the runtime makes no other is `PublishedAtMostOnce` of `SyncRuntime`.
- *The application.* No code in the repository decides when to rebase a stale
  publication or which identities to mint. The model lets the application do
  anything the API accepts, within bounds: it mints fresh identities of its
  own, and selects its own revisions that are not handed off (with `Republish`
  also those that are). One thing the API accepts is left out: the one-domain
  receive (`commit_received_recovery_scalar_domain`, `receive_set.rs:85`) checks
  only that the domain exists and moves the cursor to whatever head it is given.
  The model's caller (`ReceiveOneDomain`) gives it a head only when the fetched
  range has no publication of another domain. `CursorNeverOutrunsState` rests on
  that obligation of the caller where the receive is called directly; the cycles
  do not use it.
- *Entries that open creates.* After a power loss the filesystem keeps what a
  sync has covered, and of the rest anything. `open` makes two entries with
  `create_dir_all`: the store's directory in its parent, which nothing in the
  backend syncs, and `objects/` in the store's directory, which is covered by the
  first `sync_committed_root`, after the first rename. `parentDurable` and
  `objectsDurable` say whether they are durable, and the start has every
  combination that a new or an older directory gives; `StoreDirectoryLost` and
  `ObjectsDirectoryLost` lose them. `orphaned` records that a root manifest came
  through a loss of `objects/`; the next successful commit ends it.
- *Half-removed stores.* A probe removes a store with `remove_dir_all`, which is
  not atomic: stopped, it leaves everything, a manifest without its candidate,
  or nothing that loads.
- *Seeded faults.* A definition that a comment calls a seeded fault is a
  plausible bug next to the definition it would replace. Each property was seen
  to fail with one of them; no run uses them.

## 3. Runs

| Run | Question | Bounds | States |
|---|---|---|---|
| `pure_functions` | do the walks compute frontier, closure, ancestry, validity; do the formats round-trip and refuse damage; do merges of continua obey their laws? | every map of up to 4 revisions, cyclic and dangling ones too; snapshots of up to `MaxSnapshotRevisions` = 2 revisions | 83,521 |
| `core_separate` | replicas with their own identities: restorable, dominated, frozen, durable, permanent | 2 replicas, 3 revisions (two of one author, so that there are successors and concurrency) | 36,679 |
| `core_shared` | the same when two replicas mint one identity and merges are refused | 1 identity, 2 values | 25,813 |
| `core_refused_merge` | *violated*: is work sealed by observe_remote always registered? | as above | finding 1 |
| `fs_store` | the store opens, loads unless a manifest has outlived `objects/`, and otherwise implements the cell in a directory that survives | 2 states, candidate numbers 0..3, so that they run out; durable and new directories | 60,271 |
| `fs_fresh_ack` | *violated*: does it implement the cell in any directory? | as above | finding 2 |
| `sync_devices` | safety and liveness of two devices in one domain | 1 revision and 3 publications each, 1 fault, 1 switch to the background | 119,397 |
| `sync_chain` | causally related revisions in overlapping publications | 2 and 1 revisions, 2 and 1 publications, 2 faults | 1,346,884 |
| `sync_fleet` | a single-domain device beside a multi-domain one that also knows another domain and receives by itself | 2 domains, publications of the same revision again (`Republish`), 1 fault, switch or foreign commit (`MaxDisturbances`) | 655,871 |
| `projection_exchange` | assembly in any order with repeats, losses and changed headers; imports among edits, exports and acknowledgements | lists of up to `MaxObjects` = 7 of 11 objects, 2 edits, `MaxExports` = 2 | 647,083 |
| `recovery_probe` | the Android probes in any order, stopped anywhere | `MaxStages` = 3 publications, `MaxStops` = 3 stops or failed operations | 4,796 |
| `github_transport` | walks while the branch moves, retries, other writers | 2 clients, 5 commits, limit 2, 2 outside steps | 3,880,146 |

Why the bounds are enough. Two devices give every race the protocol has: the
compare-and-swap orders all publications, and a third device is another
competitor. The second fault is what it takes to lose an answer *and* the
evidence of its arrival; with one, `PublishedAtMostOnce` cannot be put at risk.
Three publications for one revision allow two rebases. The commit limit of the
transport is 2 with up to 5 commits, so that ranges lie below, at and above it.
Candidate numbers end at 3, so that exhaustion happens. Two exports let the
older be acknowledged last, and two edits of one domain let one fall between an
export and its acknowledgement; the conflicting edit is in the second domain, so
that an import stops with the first one merged. Three publications of a probe
allow a staging after a resume that was itself stopped.

Deadlock is checked except where the program ends: the functions have nothing
to do once the map is built, and a list of objects has been read and imported.

The properties, by what they guard:

- `RestoreAccepts`, `CatchUpOnlyNeedsSeals`: no sequence of legal calls leaves
  a snapshot that cannot be restored, or a range that a device can never apply.
- `EpochDominatesObserved`, `MergeNeverRefused`, `OwnWorkIsLocal`: causality
  says what authors saw, in every order of arrival, and what arrives is a whole
  history that nothing at the receiver contradicts.
- `ExposedHistoryFrozen`, `ExposureIsDurable`, `ExposureIsForever`,
  `OneStatementPerId`, `ExposureBeforeWire`: what left a device is frozen and
  known to it in every state it may restart from.
- `CursorNeverOutrunsState`, `CursorIsCovered`: no cursor, in the record or at
  the transport, passes something that was not merged or delivered.
- `NoLostPublication`, `PublishedAtMostOnce`, `EventuallyDrained`,
  `PostConflictSealsUsable`: the outbox protocol.
- `ReportsAreDurable`, `ImplementsMultiDomain`: the single-domain runtime tells
  its caller the truth, and is the multi-domain one while only its domain is
  published. When another domain is, the device refuses the range for good:
  `CursorNeverOutrunsState` says that it does not pass it.
- `LoadNeverFails`, `ImplementsCell`, `OpenNeverExhausted`: the store, with the
  window of finding 3 as the one exception of the first two.
- `AcceptedIsWhole`, `RefusedForCause`, `PendingIsExact`: the inbox.
- `CleanIsPublished`, `ImportsLast`: the dirty state that exports and imports.
- `ValidateIsExact`, `WalksAreExact`, `RoundTrips`, `DamageIsRefused`,
  `MergeLaws`: pure functions against their definitions.
- `LocalNotAhead`, `AlarmOnlyAfterCatchUp`: the probes and what a force-stop
  leaves.
- `LimitIsExact`, `RefusedOnlyForCause`: the GitHub walk.

### Fairness

`EventuallyDrained` is checked under `FairSpec`. A started cycle runs on, since
it is straight-line code (weak fairness of `InCycle`), and the user comes back
to the foreground. The application keeps starting cycles, with an identity for
each dirty domain, and rebases what a cycle reports as `NeedsRebase`. These two
are strong fairness, because running cycles disable them again and again; they
are assumptions about the caller, since the library starts nothing by itself
(`foreground.rs`: it "does not create timers, workers or background tasks").
Faults, foreign commits and switches are bounded, hence end. No fairness is
assumed of edits, staging or late arrivals.

## 4. Findings

1. *A refused merge leaves sealed work unregistered* (`core_refused_merge`).
   `LocalScalarDomain::observe_remote` seals the dirty epoch inside
   `WorkingScalar::observe_remote`; when the merge that follows fails, the `?`
   at `domain.rs:79` returns before `register_local`. The comment at
   `domain.rs:71` promises the registration "before this method returns". It
   takes two statements under one identity, so it cannot happen while
   identities are unique; the runtime works on a clone and drops it.
2. *The store directory is never synced in its parent* (`fs_fresh_ack`). `open`
   creates it with `create_dir_all` (`apc-storage-fs/src/lib.rs:88`). A power
   loss after the first acknowledged commits may take the directory, against
   `docs/DURABILITY.md:23`. With a directory whose entry is durable,
   `fs_store` shows that what was acknowledged survives.
3. *`objects/` becomes durable after the first rename* (no run of its own: the
   exception stated by `LoadNeverFails` and `ImplementsCell`). `open`
   creates it at `apc-storage-fs/src/lib.rs:88`, and the first sync of the
   directory that holds it is `sync_committed_root` (line 206). A power loss
   between the first rename and that sync may keep the root manifest and lose
   `objects/`, with the candidate that was synced inside it; `load_committed`
   then fails (line 156), where `docs/DURABILITY.md:123` allows the old state or
   the new. TLC finds it with `LoadCommitted # LoadError` as an invariant of
   `fs_store`: a first commit up to `RenameRoot`, then `ObjectsDirectoryLost`.
   Nothing acknowledged is lost. The store stays unreadable until
   a later commit publishes; that commit may even reuse the number which the
   manifest names, so that a load finds its state before it is published. Once
   a commit has been acknowledged the entry is durable and the window is closed.

## 5. Proofs

TLC checks the instances of section 3. TLAPS checks the following for every
value of the constants: any devices, identities, values, domains, objects and
bounds. `PROJECT.json` lists the theorems; the lemmas they rest on are in the
same modules. An inductive invariant was given to TLC before it was proved.

### Registers, continua and domains (`OperatorProofs`)

`MergeOfValidIsValid`: the union of two valid registers that agree on common
identities is valid, so the final `validate` of `merge` can never fail. The
heart is acyclicity: a non-empty set of revisions that meets the first register
has there a revision without parents in the set, because all its parents are in
that register; otherwise the set lies in the second one.

`MergeAlwaysObeysLaws`: `merge_state` is idempotent, commutative and associative
on `ValidStates`, for any continua and atoms, and the three orders of a merge
are refused together. `merge.rs` asks for this "for valid states", and
`MergeLaws` checks it on the states that devices may hold of up to two
revisions. By `MergeOfValidIsValid` a merge of valid registers is refused for
conflicting statements only (`CanMergeIffCompatible`); so a merge of three, in
either grouping, is accepted exactly when each two of them agree, atom by atom.

The other lemmas say what each operator does: the closure is the least closed
set and does not change when the register grows, the frontier covers the
register, and every method of a domain keeps it well-formed (`WellFormed`: typed, and accepted by `restore`)
and adds exactly what it says (`Grown`). That a finite valid register has a
frontier is no induction over data here: a smallest set that would contradict it
is taken, with the theorems on finite sets, and shown to have a smaller one.

### The core (`CoreReplicasProofs`)

| Theorem | Property | Rests on |
|---|---|---|
| `TypeCorrect`, `RestoreAlwaysAccepts` | `TypeOK`, `RestoreAccepts` | `WellFormedInv`: every live and saved domain is well-formed. `RestoreAccepts` alone says nothing of types, which the methods need |
| `ExposureForever` | `ExposureIsForever` | `LedgerInv`: the live ledger extends the saved one. The property is about `saved`, but a save copies the live ledger over it |
| `EpochAlwaysDominates` | `EpochDominatesObserved` | `WellFormedInv`, and `HistoryInv` for the finiteness of registers, without which a frontier need not cover one |
| `ExposedHistoryStaysFrozen` | `ExposedHistoryFrozen` | `HistoryInv`: the local history of what is exposed is exposed and frozen |
| `ExposureAlwaysDurable`, `OwnWorkAlwaysLocal`, `OneStatementAlways`, `MergeAlwaysAccepted` | `ExposureIsDurable`, `OwnWorkIsLocal`, `OneStatementPerId`, `MergeNeverRefused` | `OriginInv`: what is on the wire is a valid register, exposed by its author as it was sent, and a replica holds, besides its own work, only what came from the wire. A revision sealed on arrival is then new to the wire, and `MergeOfValidIsValid` does the rest |

The last four have the hypothesis `SeparateIdentities`: no two replicas mint
one identity. `apc-core` leaves minting to its caller, `core_separate` satisfies
the hypothesis, and finding 1 shows what happens without it. The others assume
nothing about identities beyond `IdsOfAssumption`.

### The store (`FsStoreProofs`)

`StoreTypeCorrect`, `StoreAlwaysLoads` (`LoadNeverFails`), `StoreAlwaysOpens`
(`OpenNeverExhausted`) and `StoreImplementsCell` (`ImplementsCell`). The
invariant `StoreInv` says of every manifest that a power loss may leave, while
the store is not `orphaned`, that it names a candidate whose data and entry are
durable; to keep that across the rename, it also says what `commit_durable` has
done before each of its steps. The theorems state the exception of finding 3:
`LoadNeverFails` allows an error only of an orphaned store, and `ImplementsCell`
sets aside the loss that orphans a store, which needs an `objects/` that is not
durable yet, and the steps of an orphaned store.
For the refinement every step of the store is shown to be a step of
`DurableCell`, or to leave the cell alone; the cell has no fairness, so that is
all of the refinement.

### The inbox and the exchange (`ProjectionExchangeProofs`)

`AcceptedAlwaysWhole`, `PendingAlwaysExact`, `RefusalHasCause` follow each
object that was read (`InboxInv`): it is in the pending entry of its
publication, or that publication was completed with it. A pending entry never
has all its parts, so an empty inbox means that everything announced was read.
`ImportsAlwaysLast` and `CleanAlwaysPublished` follow each statement to the
domain of its identity (`DomainsInv`, and what is exported or acknowledged).
The assumptions say that a wire object has its fields and a projection that
makes one statement per identity (the register codec accepts no other), that
`Keys` lists the domains, and that every identity belongs to one of them.

### The probes (`RecoveryProbeProofs`)

`LocalNeverAhead`, `AlarmMeansCaughtUp`, for any number of stagings and stops.
`verify` and `resume_lost_ack` demand a record that is still pending at the
initial head (`validate_pending_committed`). So a resume stopped after its
catch-up commit, before or after the retirement, makes the later ones FAIL until
the probe is staged again. No document promises otherwise, so this is no
finding; `AlarmOnlyAfterCatchUp` says that it is the only failure after a
staging that passed, and that nothing is lost in it: the record is at the
accepted head with its exposure, and the remote has the publication once. The
two stores are in few shapes, and the invariant says which of them meet at
which step of which probe, and that what a stop leaves is such a pair.

### The GitHub transport (`GitHubTransportProofs`)

`CursorAlwaysCovered`, `LimitAlwaysExact`, `RefusedOnlyWithCause`, for any
limit and any number of commits. A repository only grows, so what a walk found
stays true. The invariant says of a walk that its range is the chain of parents
from the head, accounts for every file in which the head's tree differs from
the tree where the walk is, and adds no file twice unless another writer
touched one, or a client published one again. "Exactly" in `LimitIsExact` compares the walk with all sequences of
commits: a chain the walk missed would part from it at a first place.

### The runtime (`SyncRuntimeProofs`)

| Theorem | Property |
|---|---|
| `RuntimeTypeCorrect` | `TypeOK` |
| `CursorNeverOutruns` | `CursorNeverOutrunsState` |
| `ExposedBeforeSent` | `ExposureBeforeWire` |
| `NothingLost` | `NoLostPublication` |
| `PublishedOnce` | `PublishedAtMostOnce` |
| `SealsStayUsable` | `PostConflictSealsUsable` |
| `CatchUpNeedsOnlySeals` | `CatchUpOnlyNeedsSeals` |

They are proved of `Spec`, which `FairSpec` implies, and all come from one
inductive invariant, `RuntimeInv`, because none of them is inductive alone:

- `DurableInv`, of a container beside a cursor, an outbox and a log. It is
  required of *every* record on disk, since a restart may load any of them, and
  of the live container beside the record in memory, since the next persist
  will write that pair. The container holds every commit up to the cursor; its
  domains are well-formed, count their own revisions as local and took the
  others from the transport; each outbox entry is contained and exposed, and
  every domain it names carries a revision; what was handed off is in the outbox
  or on the transport at or below the cursor beside it, which is more than
  `NoLostPublication` asks and what reports rely on.
- `ClaimsInv`: an entry expects at most the record's cursor, and if its
  identity is on the transport, an earlier head than the present one. Hence no
  retry can be accepted twice; and a pass that applied a range finds no entry
  that targets its new cursor, hence publishes nothing, which is why the seal
  identities are intact after a conflict.
- `Grows`: a record on disk and the live container have all that the record in
  memory has. A failed persist may leave the newer record behind, never one that
  forgot something.
- `WireInv`: a revision that left a device is exposed by one device that mints
  its identity. With disjoint identities this gives one statement per identity
  on the transport, so that fetched ranges always combine and merge.
- `LateInv`, `PassInv`, `Distinct`: what a request under way, each step of a
  pass, and the log promise.

Each action has a lemma (`StageKeeps`, `CatchUpApplyKeeps`, `RestartKeeps`, ...),
with both outcomes of its persist; `StepOfOneDevice` carries the change to the
other devices. `CatchUpNeedsOnlySeals` then needs that a union of agreeing valid
registers is valid (`CombinedIsValid`) and that a domain agrees with a range
also after its dirty work is sealed (`DomainAgreesWithRange`). The assumption
about identities, `RuntimeAssumption`, is that no two devices mint the same
revision or publication identity. The code takes identities from its caller;
`docs/LOGIC.md:40` asks for at least 256 bits of collision-resistant space.

### The single-domain runtime (`SingleDomainRuntimeProofs`)

| Theorem | Property |
|---|---|
| `FleetInvariant` | `FleetInv`, the inductive invariant |
| `SingleImplementsMulti` | `ImplementsMultiDomain` |
| `ReportsStayDurable` | `ReportsAreDurable` |
| `FleetCursorNeverOutruns` | `CursorNeverOutrunsState`, of a mixed fleet |
| `FleetLosesNothing`, `FleetExposesFirst`, `FleetPublishesOnce` | `NoLostPublication`, `ExposureBeforeWire`, `PublishedAtMostOnce`, of a mixed fleet |

The results about the multi-domain runtime are used, not repeated. `M` is
`SyncRuntimeProofs` with the refinement mapping `MultiPass` for `pass`, so
`M!RuntimeInv` says of a fleet what it says of multi-domain devices.
`FleetSimulated`: a step of the fleet is a step of `M!Next` or leaves its
variables alone, except where a range is refused that has another domain in it
(below). Hence it keeps `M!RuntimeInv` (`RuntimeInvKept`), and what that
invariant implies holds of the fleet. There is a simulation lemma per action
(`StageScalarSimulated`, `SingleReceiveSimulated`, `SinglePublishSimulated`, ...).

`RuntimeInv` is not enough for them, since the two runtimes decide on different
data. `SingleInv` adds, of a single-domain device:

- its container and each record on its disk have its domain and no other; the
  outbox is finite, so that "at most one" (`Cardinality(...) <= 1`) means what
  it says;
- a cycle that takes one publication (`mode = "one"`) has no second one in the
  outbox, so the batch it publishes or retires is the whole outbox, as in the
  multi-domain resume;
- its flat evidence is held by the live domain. The multi-domain evidence is a
  set of registers; the register is the live one restricted to the identities
  (`Image`), which with one statement per identity is what the transport had.
  `SameEvidence`, `SameAfterStale` and `SameCandidate` then say that both
  runtimes retire and publish the same;
- what either pass of a cycle has observed and retired, and while a report is
  unread what it calls reconciled, is in the outbox of no record on disk.

A range with a publication of another domain is refused, where a multi-domain
device would go on; that is why `ImplementsMultiDomain` speaks of steps while
only the device's domain is published. The refusal only ends the cycle
(`RefusedEnds`), and `RuntimeInv` holds of an idle device where it held of one
in a cycle, so the invariant and the five safety properties hold of fleets that
publish any domains. Besides
`RuntimeAssumption` the theorems use `SingleAssumption`: a single-domain device
knows its own domain and does not use the multi-domain receive.

### Only model-checked

- `EventuallyDrained`: liveness and fairness are out of the prover's reach.
- `ValidateIsExact`, `WalksAreExact`, `RoundTrips`, `DamageIsRefused`: what
  recursive walks, writers and readers compute needs induction over data.
- `MergeLaws` as it stands quantifies over states built with a fold from the
  register that `ScalarAlgorithms` collects; `MergeAlwaysObeysLaws` is the same
  law (`ObeysMergeLaws`) for all valid states.

## 6. Not modelled

The cipher itself, keys and randomness (`apc-crypto`); the widths of lengths and
the host limits behind `LengthOverflow`; the JNI signatures and the Java side of
the Android bridge; the storage crash worker, which only stops the backend where
`FsStore` crashes anyway; identities and error texts; the Python labs, which
preceded the crates. That `resume_lost_ack` says "no second publish" also when
the publish it made itself was the first is not a property here: the text makes
a weaker claim than the checks of the probe, which `RecoveryProbe` has.

## 7. Plan

1. *Extend.* An abstract log transport that `GitHubTransport` is shown to
   implement, so that `SyncRuntime`'s assumption becomes a result.
2. *Prove.* With it, the refinement from the walks of `GitHubTransportProofs`.
   What stays with TLC is liveness and what recursive walks and codecs compute.
