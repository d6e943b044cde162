--------------------------- MODULE FsStoreProofs ---------------------------
(***************************************************************************)
(* Theorems about FsStore for any set of states and any range of candidate *)
(* numbers: the type invariant, that the store can always be opened and    *)
(* loaded, and that the file protocol implements DurableCell.              *)
(*                                                                         *)
(* The argument is about what a manifest may name.  A manifest that may be *)
(* the durable one names a candidate whose data and whose entry are both   *)
(* durable (ManifestsInv), so no power loss that leaves objects/ can take  *)
(* either away; a power loss that takes objects/ is what orphaned records. *)
(* It is inductive only with what commit_durable has done at each of its   *)
(* steps (CommitInv): the sync of the candidate comes before the rename,   *)
(* and the file that is written is never one that a manifest names.        *)
(***************************************************************************)
EXTENDS FsStore, TLAPS, WellFoundedInduction

\* The candidate numbers in use, and the syncs that cover some of them.
FilesInv ==
    /\ CanOpen(objects)
    /\ dataSynced \subseteq DOMAIN objects
    /\ entrySynced \subseteq DOMAIN objects

\* The manifest, if it is durable, names a complete state that is durable.
Sound(manifest) ==
    \/ manifest = NoRoot
    \/ /\ manifest \in dataSynced \cap entrySynced
       /\ objects[manifest] \in State

ManifestsInv ==
    /\ root \in rootMaybe
    /\ ~orphaned => \A manifest \in rootMaybe : Sound(manifest)

Written == {"sync_data", "sync_entry", "write_next", "sync_next", "rename", "sync_root"}
DataDurable == Written \ {"sync_data"}
EntryDurable == DataDurable \ {"sync_entry"}

\* What commit_durable has done when it is about to take a step.
CommitInv ==
    /\ pc = "idle" => target = NoCommit /\ candidate = NoRoot
    /\ pc # "idle" => target \in State
    /\ (pc = "write" /\ candidate # NoRoot) => candidate \in DOMAIN objects \ dataSynced
    /\ pc \in Written => candidate \in DOMAIN objects /\ objects[candidate] = target
    /\ pc \in DataDurable => candidate \in dataSynced
    /\ pc \in EntryDurable => candidate \in entrySynced
    /\ pc = "rename" => rootNext
    /\ pc = "sync_root" => root = candidate

StoreInv == TypeOK /\ FilesInv /\ ManifestsInv /\ CommitInv

-----------------------------------------------------------------------------
(* Opening *)

\* A set of numbers that is not empty has a smallest one.
LEMMA SmallestNumber ==
    ASSUME NEW S \in SUBSET Nat, S # {}
    PROVE  \E n \in S : \A m \in S : n <= m
<1> DEFINE Less == { p \in Nat \X Nat : p[1] < p[2] }
<1>1. IsWellFoundedOn(Less, Nat)
  BY NatLessThanWellFounded, Zenon DEF OpToRel
<1>2. PICK n \in S : \A m \in S : ~(<<m, n>> \in Less)
  <2> HIDE DEF Less
  <2> QED
    BY <1>1, WFMin
<1>3. \A m \in S : n <= m
  <2> SUFFICES ASSUME NEW m \in S, ~(n <= m)
               PROVE  FALSE
    OBVIOUS
  <2>1. m \in Nat /\ n \in Nat /\ m < n
    OBVIOUS
  <2>2. <<m, n>> \in Less
    BY <2>1
  <2> QED
    BY <1>2, <2>2
<1> QED
  BY <1>3

\* scan_next_candidate finds a number when no file has the last one: it is
\* one past the largest number in use, or zero.
LEMMA ScanFindsNumber ==
    ASSUME NEW files, DOMAIN files \subseteq Candidates, CanOpen(files)
    PROVE  ScanNextCandidate(files) \in Candidates
<1> DEFINE Above == { n \in Candidates : \A c \in DOMAIN files : c < n }
<1>1. MaxCandidate \in Above
  BY StoreAssumption DEF Candidates, CanOpen
<1>2. PICK n \in Above : \A m \in Above : n <= m
  <2>1. Above \in SUBSET Nat /\ Above # {}
    BY <1>1, StoreAssumption DEF Candidates
  <2> HIDE DEF Above
  <2> QED
    BY <2>1, SmallestNumber
<1>3. n > 0 => n - 1 \in DOMAIN files
  <2> SUFFICES ASSUME n > 0
               PROVE  n - 1 \in DOMAIN files
    OBVIOUS
  <2>1. n \in Nat /\ n - 1 \in Candidates /\ n - 1 \notin Above
    BY <1>2, StoreAssumption DEF Candidates
  <2>2. PICK c \in DOMAIN files : ~(c < n - 1)
    BY <2>1
  <2>3. c \in Nat /\ c < n
    BY StoreAssumption DEF Candidates
  <2> QED
    BY <2>1, <2>2, <2>3
<1> QED
  BY <1>3 DEF ScanNextCandidate

-----------------------------------------------------------------------------
(* The invariant *)

\* The process ends or a call returns: commit_durable holds nothing any more.
LEMMA ReturnKeepsCommit ==
    ASSUME NEW result, Return(result)
    PROVE  CommitInv'
BY DEF Return, Goto, CommitInv, Written, DataDurable, EntryDurable

\* A power loss with any outcome leaves every durable manifest sound, and a
\* store that can be opened.
LEMMA PowerLossKeeps ==
    ASSUME StoreInv, PowerLoss
    PROVE  StoreInv'
<1> USE DEF StoreInv
<1>1. PICK kept \in SUBSET (DOMAIN objects \ entrySynced),
           torn \in SUBSET (DOMAIN objects \ dataSynced),
           manifest \in rootMaybe :
        LET files == [c \in entrySynced \cup kept |->
                        IF c \in torn THEN Torn ELSE objects[c]]
        IN  /\ Reopen(files)
            /\ objects' = files
            /\ dataSynced' = DOMAIN files
            /\ entrySynced' = DOMAIN files
            /\ root' = manifest
            /\ rootMaybe' = {manifest}
            /\ rootNext' = FALSE
            /\ parentDurable' = TRUE
            /\ objectsDurable' = TRUE
            /\ UNCHANGED orphaned
  BY DEF PowerLoss
<1>2. /\ DOMAIN objects' \subseteq DOMAIN objects
      /\ dataSynced' = DOMAIN objects' /\ entrySynced' = DOMAIN objects'
      /\ entrySynced \subseteq DOMAIN objects'
      /\ \A c \in DOMAIN objects' : objects'[c] = objects[c] \/ objects'[c] = Torn
      /\ \A c \in dataSynced \cap entrySynced : objects'[c] = objects[c]
  BY <1>1 DEF FilesInv
<1>3. CanOpen(objects') /\ nextCandidate' = ScanNextCandidate(objects') /\ Return("none")
  BY <1>1 DEF Reopen
<1>4. nextCandidate' \in Candidates
  BY <1>2, <1>3, ScanFindsNumber DEF TypeOK
<1>5. TypeOK'
  BY <1>1, <1>2, <1>3, <1>4 DEF TypeOK, Return, Goto, Steps
<1>6. FilesInv'
  BY <1>2, <1>3 DEF FilesInv, CanOpen
<1>7. ManifestsInv'
  BY <1>1, <1>2 DEF ManifestsInv, Sound, FilesInv
<1> QED
  BY <1>3, <1>5, <1>6, <1>7, ReturnKeepsCommit

\* The file that allocate_candidate creates is new: no manifest names it.
LEMMA AllocateKeeps ==
    ASSUME StoreInv, AllocateCandidate
    PROVE  StoreInv'
<1> USE DEF StoreInv
<1>1. PICK c \in FreeFrom(nextCandidate) :
          /\ c < MaxCandidate
          /\ objects' = [f \in DOMAIN objects \cup {c} |->
                            IF f = c THEN Torn ELSE objects[f]]
          /\ nextCandidate' = c + 1
          /\ candidate' = c
  BY DEF AllocateCandidate
<1>2. c \in Candidates /\ c \notin DOMAIN objects
  BY DEF FreeFrom
<1>3. /\ DOMAIN objects' = DOMAIN objects \cup {c}
      /\ \A f \in DOMAIN objects : objects'[f] = objects[f]
      /\ objects'[c] = Torn
  BY <1>1, <1>2
<1>4. c # NoRoot /\ c + 1 \in Candidates
  BY <1>1, <1>2, StoreAssumption DEF Candidates
<1>5. TypeOK'
  BY <1>1, <1>2, <1>3, <1>4 DEF TypeOK, AllocateCandidate, directories
<1>6. FilesInv'
  BY <1>1, <1>2, <1>3, StoreAssumption DEF FilesInv, CanOpen, AllocateCandidate, Candidates
<1>7. ManifestsInv'
  BY <1>3 DEF ManifestsInv, Sound, FilesInv, AllocateCandidate, directories
<1>8. CommitInv'
  BY <1>1, <1>2, <1>3
  DEF CommitInv, FilesInv, AllocateCandidate, Written, DataDurable, EntryDurable
<1> QED
  BY <1>5, <1>6, <1>7, <1>8

\* StoreInv is inductive.
LEMMA StoreInvStep == StoreInv /\ [Next]_vars => StoreInv'
<1> SUFFICES ASSUME StoreInv, [Next]_vars
             PROVE  StoreInv'
  OBVIOUS
<1> USE DEF StoreInv
<1>0. CASE UNCHANGED vars
  BY <1>0 DEF vars, disk, directories, TypeOK, FilesInv, CanOpen, ManifestsInv, Sound, CommitInv
<1>1. ASSUME NEW state \in State, BeginCommit(state)
      PROVE  StoreInv'
  BY <1>1 DEF BeginCommit, Goto, disk, directories, TypeOK, Steps, FilesInv, CanOpen, ManifestsInv, Sound,
              CommitInv, Written, DataDurable, EntryDurable
<1>2. CASE AllocateCandidate
  BY <1>2, AllocateKeeps
<1>3. CASE AllocateFails
  <2>1. nextCandidate' \in Candidates
    BY <1>3, StoreAssumption DEF AllocateFails, TypeOK, Candidates
  <2> QED
    BY <1>3, <2>1, ReturnKeepsCommit
    DEF AllocateFails, Return, Goto, disk, directories, TypeOK, Steps, FilesInv, CanOpen, ManifestsInv, Sound
<1>4. CASE WriteCandidate
  <2>1. /\ candidate \in DOMAIN objects \ dataSynced
        /\ target \in State
        /\ DOMAIN objects' = DOMAIN objects
        /\ objects'[candidate] = target
        /\ \A c \in DOMAIN objects : c # candidate => objects'[c] = objects[c]
    BY <1>4 DEF WriteCandidate, CommitInv
  <2>2. TypeOK' /\ FilesInv'
    BY <1>4, <2>1 DEF WriteCandidate, Goto, directories, TypeOK, Steps, FilesInv, CanOpen
  <2>3. ManifestsInv'
    BY <1>4, <2>1 DEF WriteCandidate, directories, ManifestsInv, Sound, FilesInv
  <2>4. CommitInv'
    BY <1>4, <2>1 DEF WriteCandidate, Goto, CommitInv, Written, DataDurable, EntryDurable
  <2> QED
    BY <2>2, <2>3, <2>4
<1>5. CASE SyncCandidateData
  BY <1>5 DEF SyncCandidateData, Goto, directories, TypeOK, Steps, FilesInv, CanOpen, ManifestsInv, Sound,
              CommitInv, Written, DataDurable, EntryDurable
<1>6. CASE SyncCandidateEntry
  BY <1>6 DEF SyncCandidateEntry, Goto, directories, TypeOK, Steps, FilesInv, CanOpen, ManifestsInv, Sound,
              CommitInv, Written, DataDurable, EntryDurable
<1>7. CASE WriteRootNext
  BY <1>7 DEF WriteRootNext, Goto, disk, directories, TypeOK, Steps, FilesInv, CanOpen, ManifestsInv, Sound,
              CommitInv, Written, DataDurable, EntryDurable
<1>8. CASE SyncRootNext
  BY <1>8 DEF SyncRootNext, Goto, disk, directories, TypeOK, Steps, FilesInv, CanOpen, ManifestsInv, Sound,
              CommitInv, Written, DataDurable, EntryDurable
<1>9. CASE RenameRoot
  <2>1. Sound(candidate) /\ candidate \in Candidates
    BY <1>9 DEF RenameRoot, CommitInv, Sound, Written, DataDurable, EntryDurable, TypeOK
  <2>2. rootMaybe' = rootMaybe \cup {candidate} /\ root' = candidate
    BY <1>9 DEF RenameRoot, CommitInv
  <2>3. TypeOK' /\ FilesInv'
    BY <1>9, <2>1, <2>2 DEF RenameRoot, Goto, directories, TypeOK, Steps, Manifests, FilesInv, CanOpen
  <2>4. ManifestsInv'
    BY <1>9, <2>1, <2>2 DEF RenameRoot, directories, ManifestsInv, Sound
  <2>5. CommitInv'
    BY <1>9, <2>2 DEF RenameRoot, Goto, CommitInv, Written, DataDurable, EntryDurable
  <2> QED
    BY <2>3, <2>4, <2>5
<1>10. CASE SyncCommittedRoot
  <2>1. rootMaybe' = {root} /\ root' = root /\ Sound(root)
    BY <1>10 DEF SyncCommittedRoot, CommitInv, Sound, Written, DataDurable, EntryDurable
  <2>2. ManifestsInv'
    BY <1>10, <2>1 DEF SyncCommittedRoot, ManifestsInv, Sound
  <2> QED
    BY <1>10, <2>1, <2>2, ReturnKeepsCommit
    DEF SyncCommittedRoot, Return, Goto, TypeOK, Steps, FilesInv, CanOpen
<1>11. CASE CommitFails
  BY <1>11, ReturnKeepsCommit
  DEF CommitFails, Return, Goto, disk, directories, TypeOK, Steps, FilesInv, CanOpen, ManifestsInv, Sound
<1>12. CASE ProcessCrash
  <2>1. nextCandidate' \in Candidates
    BY <1>12, ScanFindsNumber DEF ProcessCrash, Reopen, TypeOK
  <2> QED
    BY <1>12, <2>1, ReturnKeepsCommit
    DEF ProcessCrash, Reopen, Return, Goto, disk, directories, TypeOK, Steps, FilesInv, CanOpen,
        ManifestsInv, Sound
<1>13. CASE PowerLoss
  BY <1>13, PowerLossKeeps
<1>14. CASE StoreDirectoryLost
  <2>1. DOMAIN objects' = {} /\ CanOpen(objects')
    BY <1>14 DEF StoreDirectoryLost, NoFiles, CanOpen
  <2>2. nextCandidate' \in Candidates
    BY <1>14, <2>1, ScanFindsNumber DEF StoreDirectoryLost, Reopen
  <2> QED
    BY <1>14, <2>1, <2>2, ReturnKeepsCommit
    DEF StoreDirectoryLost, Reopen, Return, Goto, TypeOK, Steps, Manifests, FilesInv, CanOpen,
        ManifestsInv, Sound
<1>15. CASE ObjectsDirectoryLost
  <2>1. DOMAIN objects' = {} /\ CanOpen(objects')
    BY <1>15 DEF ObjectsDirectoryLost, NoFiles, CanOpen
  <2>2. nextCandidate' \in Candidates
    BY <1>15, <2>1, ScanFindsNumber DEF ObjectsDirectoryLost, Reopen
  <2>3. PICK manifest \in rootMaybe :
          /\ root' = manifest
          /\ rootMaybe' = {manifest}
          /\ orphaned' = (manifest # NoRoot)
    BY <1>15 DEF ObjectsDirectoryLost
  <2>4. ManifestsInv'
    BY <2>3 DEF ManifestsInv, Sound
  <2>5. TypeOK'
    BY <1>15, <2>1, <2>2, <2>3 DEF ObjectsDirectoryLost, Reopen, Return, Goto, TypeOK, Steps
  <2> QED
    BY <1>15, <2>1, <2>4, <2>5, ReturnKeepsCommit DEF ObjectsDirectoryLost, Reopen, FilesInv
<1> QED
  BY <1>0, <1>1, <1>2, <1>3, <1>4, <1>5, <1>6, <1>7, <1>8, <1>9, <1>10, <1>11, <1>12, <1>13,
     <1>14, <1>15 DEF Next

\* StoreInv holds of every reachable state.
LEMMA StoreInvAlways == Spec => []StoreInv
<1>1. Init => StoreInv
  <2> SUFFICES ASSUME Init
               PROVE  StoreInv
    OBVIOUS
  <2>1. DOMAIN objects = {}
    BY DEF Init, NoFiles
  <2>2. 0 \in Candidates
    BY StoreAssumption DEF Candidates
  <2> QED
    BY <2>1, <2>2
    DEF Init, StoreInv, TypeOK, Steps, Manifests, FilesInv, CanOpen, ManifestsInv, Sound,
        CommitInv, Written, DataDurable, EntryDurable
<1> QED
  BY <1>1, StoreInvStep, PTL DEF Spec

\* Every variable of the backend and of the files keeps its shape, for any
\* set of states and any range of candidate numbers.
THEOREM StoreTypeCorrect == Spec => []TypeOK
<1>1. StoreInv => TypeOK
  BY DEF StoreInv
<1> QED
  BY <1>1, StoreInvAlways, PTL

\* A manifest that may be durable is absent or names a complete state, unless
\* the directory of its candidate was lost.
LEMMA ManifestLoads ==
    ASSUME StoreInv, ~orphaned, NEW manifest \in rootMaybe
    PROVE  LoadFrom(manifest) \in State \cup {NoState}
<1>1. Sound(manifest)
  BY DEF StoreInv, ManifestsInv
<1> QED
  BY <1>1, StoreAssumption DEF StoreInv, FilesInv, Sound, LoadFrom, Decodes

\* load_committed fails only in a store whose objects/ a power loss took before
\* the first sync of the store's directory: no other crash, at any moment of a
\* commit, leaves a store that cannot be read.
THEOREM StoreAlwaysLoads == Spec => []LoadNeverFails
<1>1. StoreInv => LoadNeverFails
  BY ManifestLoads, StoreAssumption DEF StoreInv, ManifestsInv, LoadNeverFails, LoadCommitted
<1> QED
  BY <1>1, StoreInvAlways, PTL

\* UnixFsDurabilityBackend::open never meets the number it cannot exceed,
\* however many candidates were spent: u64::MAX is never handed out.
THEOREM StoreAlwaysOpens == Spec => []OpenNeverExhausted
<1>1. StoreInv => OpenNeverExhausted
  BY DEF StoreInv, FilesInv, OpenNeverExhausted
<1> QED
  BY <1>1, StoreInvAlways, PTL

-----------------------------------------------------------------------------
(* The refinement *)

\* The states that a power loss which leaves objects/ may leave.
Possible == { LoadFrom(manifest) : manifest \in rootMaybe }

\* A sound manifest names what it named, if its file was left alone.
LEMMA SoundStays ==
    ASSUME StoreInv, StoreInv', ~orphaned, ~orphaned', NEW manifest \in rootMaybe,
           manifest \in rootMaybe',
           \A c \in dataSynced \cap entrySynced : objects'[c] = objects[c]
    PROVE  LoadFrom(manifest)' = LoadFrom(manifest)
<1>1. Sound(manifest) /\ Sound(manifest)'
  BY DEF StoreInv, ManifestsInv
<1> QED
  BY <1>1, StoreAssumption DEF StoreInv, FilesInv, Sound, LoadFrom, Decodes

\* A step that neither moves the root manifest nor changes a file that a
\* manifest may name leaves what the store holds alone.
LEMMA FilesAside ==
    ASSUME StoreInv, StoreInv', ~orphaned, ~orphaned', root' = root, rootMaybe' = rootMaybe,
           \A c \in dataSynced : objects'[c] = objects[c]
    PROVE  LoadCommitted' = LoadCommitted /\ Possible' = Possible
<1>1. \A manifest \in rootMaybe : LoadFrom(manifest)' = LoadFrom(manifest)
  BY SoundStays
<1>2. root \in rootMaybe
  BY DEF StoreInv, ManifestsInv
<1> QED
  BY <1>1, <1>2 DEF LoadCommitted, Possible

\* Every step of the file protocol but the loss of objects/ is a step of the
\* cell, or changes nothing that a caller of commit_durable and load_committed
\* can see; and that loss is one too if it takes the manifest along.
LEMMA StoreStepIsCellStep ==
    ASSUME StoreInv, StoreInv', [Next]_vars, parentDurable,
           ~orphaned, orphaned' => objectsDurable
    PROVE  Cell!CellNext \/ UNCHANGED <<LoadCommitted, Possible, target, reply>>
<1> USE DEF Possible
<1>0. CASE UNCHANGED vars
  BY <1>0 DEF vars, disk, LoadCommitted, LoadFrom
<1>1. ASSUME NEW state \in State, BeginCommit(state)
      PROVE  Cell!CellNext
  <2>1. LoadCommitted' = LoadCommitted /\ Possible' = Possible
    BY <1>1, FilesAside DEF BeginCommit, disk, directories
  <2>2. Cell!CellBegin(state)
    BY <1>1, <2>1 DEF BeginCommit, StoreInv, CommitInv, Cell!CellBegin
  <2> QED
    BY <2>2 DEF Cell!CellNext
<1>2. CASE AllocateCandidate
  <2>1. \A c \in dataSynced : objects'[c] = objects[c]
    BY <1>2 DEF AllocateCandidate, FreeFrom, StoreInv, FilesInv
  <2>2. LoadCommitted' = LoadCommitted /\ Possible' = Possible
    BY <1>2, <2>1, FilesAside DEF AllocateCandidate, directories
  <2> QED
    BY <1>2, <2>2 DEF AllocateCandidate
<1>3. CASE AllocateFails \/ CommitFails \/ ProcessCrash
  <2>0. UNCHANGED <<root, rootMaybe, objects, orphaned>>
    BY <1>3 DEF AllocateFails, CommitFails, ProcessCrash, disk, directories
  <2>1. LoadCommitted' = LoadCommitted /\ Possible' = Possible
    <3>1. ~orphaned'
      BY <2>0, Zenon
    <3> QED
      BY <2>0, <3>1, FilesAside
  <2>2. Cell!CellAbandon
    BY <1>3, <2>1
    DEF AllocateFails, CommitFails, ProcessCrash, Reopen, Return, Cell!CellAbandon
  <2> QED
    BY <2>2 DEF Cell!CellNext
<1>4. CASE WriteCandidate
  <2>1. \A c \in dataSynced : objects'[c] = objects[c]
    BY <1>4 DEF WriteCandidate, StoreInv, FilesInv, CommitInv
  <2>2. LoadCommitted' = LoadCommitted /\ Possible' = Possible
    BY <1>4, <2>1, FilesAside DEF WriteCandidate, directories
  <2> QED
    BY <1>4, <2>2 DEF WriteCandidate
<1>5. CASE SyncCandidateData \/ SyncCandidateEntry \/ WriteRootNext \/ SyncRootNext
  <2>0. UNCHANGED <<root, rootMaybe, objects, orphaned>>
    BY <1>5
    DEF SyncCandidateData, SyncCandidateEntry, WriteRootNext, SyncRootNext, disk, directories
  <2>1. LoadCommitted' = LoadCommitted /\ Possible' = Possible
    <3>1. ~orphaned'
      BY <2>0, Zenon
    <3> QED
      BY <2>0, <3>1, FilesAside
  <2> QED
    BY <1>5, <2>1 DEF SyncCandidateData, SyncCandidateEntry, WriteRootNext, SyncRootNext
<1>6. CASE RenameRoot
  <2>1. /\ target \in State
        /\ candidate # NoRoot
        /\ LoadFrom(candidate) = target
    BY <1>6, StoreAssumption
    DEF RenameRoot, StoreInv, CommitInv, Written, LoadFrom, Decodes, TypeOK, Candidates
  <2>2. /\ rootMaybe' = rootMaybe \cup {candidate}
        /\ root' = candidate
        /\ objects' = objects
    BY <1>6 DEF RenameRoot, StoreInv, CommitInv
  <2>3. LoadCommitted' = target
    BY <2>1, <2>2 DEF LoadCommitted, LoadFrom
  <2>4. Possible' = Possible \cup {target}
    BY <2>1, <2>2 DEF LoadFrom
  <2>5. Cell!CellPublish
    BY <1>6, <2>1, <2>3, <2>4 DEF RenameRoot, Cell!CellPublish
  <2> QED
    BY <2>5 DEF Cell!CellNext
<1>7. CASE SyncCommittedRoot
  <2>1. /\ target \in State
        /\ LoadCommitted = target
        /\ LoadFrom(root) = target
    BY <1>7, StoreAssumption
    DEF SyncCommittedRoot, StoreInv, CommitInv, Written, LoadCommitted, LoadFrom, Decodes,
        TypeOK, Candidates
  <2>2. LoadCommitted' = LoadCommitted /\ Possible' = {target}
    BY <1>7, <2>1 DEF SyncCommittedRoot, LoadCommitted, LoadFrom
  <2>3. Cell!CellAcknowledge
    BY <1>7, <2>1, <2>2 DEF SyncCommittedRoot, Return, Cell!CellAcknowledge
  <2> QED
    BY <2>3 DEF Cell!CellNext
<1>8. CASE PowerLoss
  <2>1. PICK manifest \in rootMaybe :
          /\ root' = manifest /\ rootMaybe' = {manifest}
          /\ \A c \in dataSynced \cap entrySynced : objects'[c] = objects[c]
          /\ Return("none")
          /\ ~orphaned'
    BY <1>8 DEF PowerLoss, Reopen, StoreInv, FilesInv
  <2>2. LoadFrom(manifest)' = LoadFrom(manifest)
    BY <2>1, SoundStays
  <2>3. /\ LoadCommitted' = LoadFrom(manifest)
        /\ Possible' = {LoadFrom(manifest)}
    BY <2>1, <2>2 DEF LoadCommitted, LoadFrom
  <2>4. Cell!CellPowerLoss
    BY <2>1, <2>3 DEF Return, Cell!CellPowerLoss
  <2> QED
    BY <2>4 DEF Cell!CellNext
<1>9. CASE StoreDirectoryLost
  BY <1>9 DEF StoreDirectoryLost
<1>10. CASE ObjectsDirectoryLost
  <2>1. root' = NoRoot /\ rootMaybe' = {NoRoot} /\ NoRoot \in rootMaybe /\ Return("none")
    BY <1>10 DEF ObjectsDirectoryLost, Reopen
  <2>2. /\ LoadCommitted' = NoState
        /\ Possible' = {NoState}
        /\ NoState \in Possible
    BY <2>1 DEF LoadCommitted, LoadFrom
  <2>3. Cell!CellPowerLoss
    BY <2>1, <2>2 DEF Return, Cell!CellPowerLoss
  <2> QED
    BY <2>3 DEF Cell!CellNext
<1> QED
  BY <1>0, <1>1, <1>2, <1>3, <1>4, <1>5, <1>6, <1>7, <1>8, <1>9, <1>10 DEF Next

\* The backend implements the contract of durability.rs in a directory that
\* survives: the committed state changes in one step, what was acknowledged
\* is what every later crash or power loss recovers, and a commit that was not
\* acknowledged leaves the old state or the whole new one, unless the power
\* goes before objects/ was ever synced and leaves the manifest behind.
THEOREM StoreImplementsCell == Spec => ImplementsCell
<1>1. Init => Cell!CellInit
  BY DEF Init, LoadCommitted, LoadFrom, Cell!CellInit
<1>2. ASSUME StoreInv, StoreInv', [Next]_vars
      PROVE  [parentDurable /\ ~orphaned /\ (orphaned' => objectsDurable)
                => Cell!CellNext]_(Cell!cellVars)
  BY <1>2, StoreStepIsCellStep DEF Possible, Cell!cellVars
<1> QED
  BY <1>1, <1>2, StoreInvAlways, PTL DEF Spec, ImplementsCell

=============================================================================
