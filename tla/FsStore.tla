------------------------------ MODULE FsStore ------------------------------
(***************************************************************************)
(* UnixFsDurabilityBackend driven by commit_durable: a candidate file per  *)
(* commit under objects/, and a root manifest that names one of them and   *)
(* is replaced by rename.                                                  *)
(*                                                                         *)
(* Each system call of commit_durable is a step; after any of them the     *)
(* call may fail, the process may be killed, or the power may go.  The     *)
(* filesystem (external, from how the code uses it) has a live view that   *)
(* survives the process, and promises after a power loss only what a sync  *)
(* has covered: the data of a file after its own sync_all, the entries of  *)
(* a directory after the directory's.  What no sync covers may be there or *)
(* not, whole or torn.                                                     *)
(***************************************************************************)
EXTENDS Integers, FiniteSets

CONSTANTS
    State,            \* states to commit: encoded sync records
    NoState,          \* load_committed returned None
    LoadError,        \* load_committed returned Err
    NoCommit,
    Torn,             \* file contents that do not decode: empty or partial
    NoRoot,           \* there is no root manifest
    MaxCandidate      \* the largest candidate number, u64::MAX in the code

ASSUME StoreAssumption ==
    /\ MaxCandidate \in Nat
    /\ NoState \notin State /\ NoCommit \notin State
    /\ Torn \notin State /\ LoadError \notin State
    /\ NoState # LoadError
    /\ NoRoot \notin Nat /\ Torn \notin Nat /\ NoRoot # Torn

VARIABLES
    parentDurable,    \* whether the store directory's own entry is durable
    objectsDurable,   \* whether the entry of objects/ in it is durable
    orphaned,         \* history: a root manifest has outlived its objects/
    objects,          \* candidate files: number -> contents, live view
    dataSynced,       \* candidates whose data is durable
    entrySynced,      \* candidates whose entry in objects/ is durable
    rootNext,         \* whether root.next's contents are durable
    root,             \* the candidate the live root manifest names
    rootMaybe,        \* what the durable root manifest may name
    nextCandidate,    \* next_candidate of the open backend
    pc,               \* the step commit_durable is about to take
    target,           \* the state being committed
    candidate,        \* the candidate write_candidate allocated
    reply             \* what the last commit_durable returned

directories == <<parentDurable, objectsDurable, orphaned>>
disk == <<directories, objects, dataSynced, entrySynced, root, rootMaybe>>
vars == <<disk, rootNext, nextCandidate, pc, target, candidate, reply>>

Candidates == 0 .. MaxCandidate
Manifests == Candidates \cup {NoRoot, Torn}
Steps == {"idle", "write", "sync_data", "sync_entry", "write_next", "sync_next",
          "rename", "sync_root"}

-----------------------------------------------------------------------------
(* Opening and loading *)

\* scan_next_candidate: one past the largest number in objects/.  CanOpen is
\* its checked_add.
CanOpen(files) == MaxCandidate \notin DOMAIN files

ScanNextCandidate(files) ==
    CHOOSE n \in Candidates :
        /\ \A c \in DOMAIN files : c < n
        /\ n > 0 => (n - 1) \in DOMAIN files

\* The recovery envelope: contents that are not complete do not decode (its
\* length and its checksum are there for nothing else).
Decodes(contents) == contents # Torn

\* load_committed with this root manifest.  A torn manifest is an
\* InvalidRootManifest, a missing file an Io error, and a torn candidate fails
\* the envelope's checks.
LoadFrom(manifest) ==
    IF manifest = NoRoot THEN NoState
    ELSE IF manifest \in DOMAIN objects /\ Decodes(objects[manifest])
    THEN objects[manifest]
    ELSE LoadError

LoadCommitted == LoadFrom(root)

NoFiles == [c \in {} |-> Torn]

\* open creates the store's directory and objects/ in it (create_dir_all), or
\* finds them, made and made durable before.  The entry of objects/ is covered
\* by the sync of the store's directory, which only sync_committed_root makes;
\* nothing in the backend ever syncs the parent.
Init ==
    /\ parentDurable \in BOOLEAN
    /\ objectsDurable \in {FALSE, parentDurable}
    /\ orphaned = FALSE
    /\ objects = NoFiles
    /\ dataSynced = {} /\ entrySynced = {}
    /\ rootNext = FALSE
    /\ root = NoRoot /\ rootMaybe = {NoRoot}
    /\ nextCandidate = 0
    /\ pc = "idle" /\ target = NoCommit /\ candidate = NoRoot
    /\ reply = "none"

-----------------------------------------------------------------------------
(* commit_durable *)

Goto(step) == pc' = step

\* The call returns, or the process ends and it never does.
Return(result) ==
    Goto("idle") /\ target' = NoCommit /\ candidate' = NoRoot /\ reply' = result

BeginCommit(state) ==
    /\ pc = "idle"
    /\ target' = state
    /\ reply' = "none"
    /\ Goto("write")
    /\ UNCHANGED <<disk, rootNext, nextCandidate, candidate>>

\* The numbers allocate_candidate may try before it finds a free one.
FreeFrom(n) == { c \in Candidates : c >= n /\ c \notin DOMAIN objects }

\* A seeded fault: the last number is handed out too.
AllocateLast ==
    /\ pc = "write" /\ candidate = NoRoot
    /\ \E c \in FreeFrom(nextCandidate) :
          /\ \A other \in FreeFrom(nextCandidate) : c <= other
          /\ objects' = [f \in DOMAIN objects \cup {c} |->
                            IF f = c THEN Torn ELSE objects[f]]
          /\ nextCandidate' = c + 1
          /\ candidate' = c
    /\ UNCHANGED <<directories, dataSynced, entrySynced, rootNext, root, rootMaybe,
                   pc, target, reply>>

\* write_candidate: allocate_candidate creates the file under the first free
\* number.  The number u64::MAX is never used: next_candidate is advanced
\* with checked_add before the file is created.
AllocateCandidate ==
    /\ pc = "write" /\ candidate = NoRoot
    /\ \E c \in FreeFrom(nextCandidate) :
          /\ c < MaxCandidate
          /\ \A other \in FreeFrom(nextCandidate) : c <= other
          /\ objects' = [f \in DOMAIN objects \cup {c} |->
                            IF f = c THEN Torn ELSE objects[f]]
          /\ nextCandidate' = c + 1
          /\ candidate' = c
    /\ UNCHANGED <<directories, dataSynced, entrySynced, rootNext, root, rootMaybe,
                   pc, target, reply>>

\* The file cannot be created: its number is spent all the same.
AllocateFails ==
    /\ pc = "write" /\ candidate = NoRoot
    /\ nextCandidate < MaxCandidate
    /\ nextCandidate' = nextCandidate + 1
    /\ Return("err")
    /\ UNCHANGED <<disk, rootNext>>

\* write_candidate: the envelope is written to the allocated file.
WriteCandidate ==
    /\ pc = "write" /\ candidate # NoRoot
    /\ objects' = [objects EXCEPT ![candidate] = target]
    /\ Goto("sync_data")
    /\ UNCHANGED <<directories, dataSynced, entrySynced, rootNext, root, rootMaybe,
                   nextCandidate, target, candidate, reply>>

\* sync_candidate: first the file, then the objects directory.
SyncCandidateData ==
    /\ pc = "sync_data"
    /\ dataSynced' = dataSynced \cup {candidate}
    /\ Goto("sync_entry")
    /\ UNCHANGED <<directories, objects, entrySynced, rootNext, root, rootMaybe,
                   nextCandidate, target, candidate, reply>>

\* A seeded fault: the objects directory is not synced.
SyncCandidateEntrySkipped ==
    /\ pc = "sync_entry"
    /\ Goto("write_next")
    /\ UNCHANGED <<disk, rootNext, nextCandidate, target, candidate, reply>>

SyncCandidateEntry ==
    /\ pc = "sync_entry"
    /\ entrySynced' = DOMAIN objects
    /\ Goto("write_next")
    /\ UNCHANGED <<directories, objects, dataSynced, rootNext, root, rootMaybe,
                   nextCandidate, target, candidate, reply>>

\* publish_candidate: write root.next, sync it, rename it over root.
WriteRootNext ==
    /\ pc = "write_next"
    /\ rootNext' = FALSE
    /\ Goto("sync_next")
    /\ UNCHANGED <<disk, nextCandidate, target, candidate, reply>>

\* A seeded fault: root.next is renamed without a sync.
SyncRootNextSkipped ==
    /\ pc = "sync_next"
    /\ Goto("rename")
    /\ UNCHANGED <<disk, rootNext, nextCandidate, target, candidate, reply>>

SyncRootNext ==
    /\ pc = "sync_next"
    /\ rootNext' = TRUE
    /\ Goto("rename")
    /\ UNCHANGED <<disk, nextCandidate, target, candidate, reply>>

RenameRoot ==
    /\ pc = "rename"
    /\ root' = candidate
    /\ rootMaybe' = rootMaybe \cup {candidate} \cup (IF rootNext THEN {} ELSE {Torn})
    /\ Goto("sync_root")
    /\ UNCHANGED <<directories, objects, dataSynced, entrySynced, rootNext,
                   nextCandidate, target, candidate, reply>>

\* A seeded fault: success is reported without syncing the root's directory.
SyncCommittedRootSkipped ==
    /\ pc = "sync_root"
    /\ Return("ok")
    /\ UNCHANGED <<disk, rootNext, nextCandidate>>

\* sync_committed_root, and commit_durable returns Ok.  The sync of the store's
\* directory covers root and objects/ alike.
SyncCommittedRoot ==
    /\ pc = "sync_root"
    /\ rootMaybe' = {root}
    /\ objectsDurable' = TRUE
    /\ orphaned' = FALSE
    /\ Return("ok")
    /\ UNCHANGED <<parentDurable, objects, dataSynced, entrySynced, rootNext, root,
                   nextCandidate>>

\* Any step may return Err, allocate_candidate also when numbers run out;
\* commit_durable stops there and undoes nothing.
CommitFails ==
    /\ pc # "idle"
    /\ Return("err")
    /\ UNCHANGED <<disk, rootNext, nextCandidate>>

-----------------------------------------------------------------------------
(* Crashes *)

\* UnixFsDurabilityBackend::open on the files that are there.
Reopen(files) ==
    /\ CanOpen(files)
    /\ nextCandidate' = ScanNextCandidate(files)
    /\ Return("none")

\* The process is killed; the operating system keeps its live view.
ProcessCrash ==
    /\ Reopen(objects)
    /\ UNCHANGED <<disk, rootNext>>

\* The power goes.  Entries and data without a sync may be lost, and the root
\* manifest is one of those that may be durable.  What is there afterwards, the
\* directories included, was read from the disk and so is durable.
PowerLoss ==
    \E kept \in SUBSET (DOMAIN objects \ entrySynced),
       torn \in SUBSET (DOMAIN objects \ dataSynced),
       manifest \in rootMaybe :
        LET files == [c \in entrySynced \cup kept |->
                        IF c \in torn THEN Torn ELSE objects[c]]
        IN  /\ Reopen(files)
            /\ objects' = files
            /\ dataSynced' = DOMAIN files
            /\ entrySynced' = DOMAIN files
            /\ root' = manifest
            /\ rootMaybe' = {manifest}
            /\ rootNext' = FALSE
            /\ parentDurable' = TRUE
            /\ objectsDurable' = TRUE
            /\ UNCHANGED orphaned

\* The power goes before a sync of the store's directory has covered objects/:
\* the directory vanishes with every candidate, whatever was synced inside it.
\* The next open creates it again.  The root manifest may have reached the disk
\* all the same, and then it names a file that is gone.
ObjectsDirectoryLost ==
    /\ ~objectsDurable
    /\ \E manifest \in rootMaybe :
          /\ root' = manifest
          /\ rootMaybe' = {manifest}
          /\ orphaned' = (manifest # NoRoot)
    /\ objects' = NoFiles
    /\ dataSynced' = {} /\ entrySynced' = {}
    /\ rootNext' = FALSE
    /\ parentDurable' = TRUE
    /\ UNCHANGED objectsDurable
    /\ Reopen(NoFiles)

\* open created the store directory and nothing has synced the directory it
\* was created in: the power loss takes the whole store, and the next open
\* creates an empty one.
StoreDirectoryLost ==
    /\ ~parentDurable
    /\ UNCHANGED parentDurable
    /\ objectsDurable' = FALSE
    /\ orphaned' = FALSE
    /\ objects' = NoFiles
    /\ dataSynced' = {} /\ entrySynced' = {}
    /\ rootNext' = FALSE
    /\ root' = NoRoot /\ rootMaybe' = {NoRoot}
    /\ Reopen(NoFiles)

Next ==
    \/ \E state \in State : BeginCommit(state)
    \/ AllocateCandidate
    \/ AllocateFails
    \/ WriteCandidate
    \/ SyncCandidateData
    \/ SyncCandidateEntry
    \/ WriteRootNext
    \/ SyncRootNext
    \/ RenameRoot
    \/ SyncCommittedRoot
    \/ CommitFails
    \/ ProcessCrash
    \/ PowerLoss
    \/ ObjectsDirectoryLost
    \/ StoreDirectoryLost

Spec == Init /\ [][Next]_vars
-----------------------------------------------------------------------------
(* Properties *)

\* Every variable keeps its shape.
TypeOK ==
    /\ parentDurable \in BOOLEAN
    /\ objectsDurable \in BOOLEAN /\ orphaned \in BOOLEAN
    /\ DOMAIN objects \subseteq Candidates
    /\ \A c \in DOMAIN objects : objects[c] \in State \cup {Torn}
    /\ dataSynced \subseteq Candidates /\ entrySynced \subseteq Candidates
    /\ rootNext \in BOOLEAN
    /\ root \in Manifests /\ rootMaybe \subseteq Manifests
    /\ nextCandidate \in Candidates
    /\ pc \in Steps
    /\ target \in State \cup {NoCommit}
    /\ candidate \in Candidates \cup {NoRoot}
    /\ reply \in {"none", "ok", "err"}

\* load_committed fails for one reason only: a power loss took objects/ after
\* a rename and before the first sync of the store's directory (lib.rs:206),
\* and no commit has succeeded since.  At every other moment, and after a crash
\* at any other moment, the root manifest is absent or names a candidate that
\* is there and decodes.
LoadNeverFails == LoadCommitted = LoadError => orphaned

\* Numbers may run out for commits, but the store can still be opened: the
\* scan of scan_next_candidate never meets the number it cannot exceed.
OpenNeverExhausted == CanOpen(objects)

Cell == INSTANCE DurableCell WITH
    visible <- LoadCommitted,
    possible <- {LoadFrom(manifest) : manifest \in rootMaybe},
    inflight <- target

\* The file protocol implements the contract of durability.rs in a directory
\* that survives: the committed state changes in one step, an acknowledged
\* state is what every later process crash or power loss recovers, and a commit
\* that was not acknowledged leaves the old state or the whole new one.  The
\* exception is a store whose manifest lost its objects/, from the power loss
\* that took it to the next commit that succeeds; and once objects/ is durable,
\* which the first acknowledged commit makes it, no power loss takes it.
ImplementsCell ==
    /\ Cell!CellInit
    /\ [][parentDurable /\ ~orphaned /\ (orphaned' => objectsDurable)
            => Cell!CellNext]_(Cell!cellVars)

\* The contract of commit_durable (durability.rs:34) in any directory, also one
\* that open created: an acknowledged state survives.  Steps of a store whose
\* objects/ was lost before the first acknowledgement are set apart.
AcknowledgedSurvives ==
    /\ Cell!CellInit
    /\ [][~orphaned /\ ~orphaned' => Cell!CellNext]_(Cell!cellVars)

=============================================================================
