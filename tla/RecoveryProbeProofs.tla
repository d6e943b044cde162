------------------------ MODULE RecoveryProbeProofs ------------------------
(***************************************************************************)
(* Theorems about the bridge's recovery probes, for any number of stagings *)
(* and of force-stops.                                                     *)
(*                                                                         *)
(* The two stores are in few shapes.  The local record is pending, caught  *)
(* up (applied or reconciled) or gone; the remote is empty, broken, or has *)
(* accepted one publication.  The invariant says which pairs may meet at   *)
(* which step of which probe (StepInv), what a stop may leave behind       *)
(* between the steps (StoresInv), and which of those shapes a probe that   *)
(* was expected to pass has failed on (AlarmInv).                          *)
(***************************************************************************)
EXTENDS RecoveryProbe, FiniteSetTheorems, TLAPS

FullRecovery == InitialRecovery \cup {"exposed", "handed_off"}

RecordWith(cursor, outbox) ==
    [store |-> "record", trusted_state |-> FullRecovery, applied_cursor |-> cursor, outbox |-> outbox]

\* The outbox of the n-th staging.
OutboxOf(n) == {[object |-> n, expected_cursor |-> InitialHead]}

PendingRecords == { RecordWith(InitialHead, OutboxOf(n)) : n \in Nat }
AppliedRecords == { RecordWith(AcceptedHead, OutboxOf(n)) : n \in Nat }
Reconciled == RecordWith(AcceptedHead, {})

\* What a resume that is stopped after its catch-up commit leaves behind.
CaughtUpRecords == AppliedRecords \cup {Reconciled}

AcceptedRemote(r) ==
    /\ r.store = "record"
    /\ r.head = AcceptedHead
    /\ r.publish_count = 1
    /\ r.objects # {}

StoresInv ==
    /\ local \in {NoStore, HalfRemoved, Reconciled} \cup PendingRecords \cup AppliedRecords
    /\ remote \in {NoStore, HalfRemoved} \/ AcceptedRemote(remote)
    /\ staged => local \in PendingRecords \cup CaughtUpRecords
    /\ (~cleared /\ local \in CaughtUpRecords) => AcceptedRemote(remote)
    /\ stages \in Nat /\ staged \in BOOLEAN /\ cleared \in BOOLEAN

StagingSteps == {"reset_remote", "reset_local", "stage"}
Steps == StagingSteps \cup {"load", "fetch", "apply", "publish", "lost", "retire", "check"}
Probes == {"stage", "verify", "stage_lost_ack", "resume_lost_ack"}

Commands ==
    {[name |-> "none"]} \cup [name : Probes, step : Steps, expected : BOOLEAN]

\* Where a probe is, and what the stores are like there.
StepInv ==
    /\ command \in Commands
    /\ ~Stopped =>
        /\ command.step \in {"fetch", "publish", "apply", "lost"} => local \in PendingRecords
        /\ command.step = "publish" => remote = NoStore
        /\ command.step \in {"apply", "lost", "retire", "check"} => AcceptedRemote(remote)
        /\ command.step = "retire" => local \in PendingRecords \cup AppliedRecords
        /\ command.step = "check" => local = Reconciled
        /\ command.expected =>
             /\ command.name \in {"verify", "resume_lost_ack"}
             /\ command.step \notin StagingSteps \cup {"lost"}
             /\ command.step = "load" => local \in PendingRecords \cup CaughtUpRecords
             /\ command.name = "resume_lost_ack" /\ command.step \in {"load", "fetch"} => RemoteLoads
             /\ command.name = "verify" => command.step = "load"

\* A probe that was expected to pass and did not found its record caught up.
\* Its result is shown until the next probe starts or the process is stopped.
AlarmInv ==
    /\ ~Stopped => ~result.expected
    /\ (result.expected /\ result.verdict # "PASS") => local \in CaughtUpRecords

ProbeInv == StoresInv /\ StepInv /\ AlarmInv

-----------------------------------------------------------------------------
(* The shapes *)

\* Retiring the outbox at the accepted head leaves nothing of what the outbox
\* and the cursor were.
LEMMA RetiredRecord ==
    ASSUME NEW r, NEW h, NEW b, r = RecordWith(h, b)
    PROVE  [r EXCEPT !.outbox = {}, !.applied_cursor = AcceptedHead] = Reconciled
<1> DEFINE once == [r EXCEPT !.outbox = {}]
           twice == [once EXCEPT !.applied_cursor = AcceptedHead]
<1>1. once = RecordWith(h, {})
  BY DEF RecordWith
<1>2. twice = Reconciled
  <2> HIDE DEF once
  <2>1. once = [store |-> "record", trusted_state |-> FullRecovery,
                applied_cursor |-> h, outbox |-> {}]
    BY <1>1 DEF RecordWith
  <2> QED
    BY <2>1 DEF RecordWith, Reconciled
<1> QED
  BY <1>2

\* The fields of a record, and what the probes' checks say of each shape.
LEMMA RecordShapes ==
    /\ \A r \in PendingRecords :
         /\ r.store = "record" /\ r.applied_cursor = InitialHead
         /\ r.outbox # {} /\ ValidatePending(r)
         /\ \A entry \in r.outbox : entry.expected_cursor = InitialHead
         /\ [r EXCEPT !.applied_cursor = AcceptedHead] \in AppliedRecords
    /\ \A r \in PendingRecords \cup AppliedRecords :
         /\ r.outbox # {}
         /\ [r EXCEPT !.outbox = {}, !.applied_cursor = AcceptedHead] = Reconciled
    /\ \A r \in AppliedRecords : r.store = "record" /\ r.applied_cursor = AcceptedHead
    /\ ValidateReconciled(Reconciled)
    /\ Reconciled.store = "record"
    /\ \A n \in Nat : StagedRecord(n) \in PendingRecords
<1>1. ASSUME NEW n
      PROVE  /\ Cardinality(OutboxOf(n)) = 1
             /\ OutboxOf(n) # {}
             /\ \A entry \in OutboxOf(n) : entry.expected_cursor = InitialHead
  <2> DEFINE e == [object |-> n, expected_cursor |-> InitialHead]
  <2>1. e.expected_cursor = InitialHead /\ OutboxOf(n) = {e}
    BY DEF OutboxOf
  <2> HIDE DEF e
  <2> QED
    BY <2>1, FS_Singleton
<1> USE DEF RecordWith
<1>2. {"exposed", "handed_off"} \subseteq FullRecovery
  BY DEF FullRecovery
<1>3. ASSUME NEW r \in PendingRecords
      PROVE  /\ r.store = "record" /\ r.applied_cursor = InitialHead
             /\ r.outbox # {} /\ ValidatePending(r)
             /\ \A entry \in r.outbox : entry.expected_cursor = InitialHead
  <2>1. PICK n \in Nat : r = RecordWith(InitialHead, OutboxOf(n))
    BY DEF PendingRecords
  <2>2. r.store = "record" /\ r.applied_cursor = InitialHead
        /\ r.trusted_state = FullRecovery /\ r.outbox = OutboxOf(n)
    BY <2>1
  <2> QED
    BY <1>1, <1>2, <2>2 DEF ValidatePending, ValidateExposure
<1>4. ASSUME NEW r \in PendingRecords
      PROVE  [r EXCEPT !.applied_cursor = AcceptedHead] \in AppliedRecords
  <2>1. PICK n \in Nat : r = RecordWith(InitialHead, OutboxOf(n))
    BY DEF PendingRecords
  <2>2. [r EXCEPT !.applied_cursor = AcceptedHead] = RecordWith(AcceptedHead, OutboxOf(n))
    BY <2>1
  <2> QED
    BY <2>2 DEF AppliedRecords
<1>5. ASSUME NEW r \in PendingRecords \cup AppliedRecords
      PROVE  /\ r.outbox # {}
             /\ [r EXCEPT !.outbox = {}, !.applied_cursor = AcceptedHead] = Reconciled
  <2>1. PICK n \in Nat, h \in {InitialHead, AcceptedHead} : r = RecordWith(h, OutboxOf(n))
    BY DEF PendingRecords, AppliedRecords
  <2>2. [r EXCEPT !.outbox = {}, !.applied_cursor = AcceptedHead] = Reconciled
    <3> HIDE DEF RecordWith
    <3> QED
      BY <2>1, RetiredRecord
  <2>3. r.outbox = OutboxOf(n)
    BY <2>1
  <2> QED
    BY <1>1, <2>2, <2>3
<1>6. \A r \in AppliedRecords : r.store = "record" /\ r.applied_cursor = AcceptedHead
  BY DEF AppliedRecords
<1>7. ValidateReconciled(Reconciled) /\ Reconciled.store = "record"
  BY <1>2 DEF ValidateReconciled, ValidateExposure, Reconciled
<1>8. \A n \in Nat : StagedRecord(n) \in PendingRecords
  <2>1. ASSUME NEW n \in Nat  PROVE StagedRecord(n) = RecordWith(InitialHead, OutboxOf(n))
    BY DEF StagedRecord, OutboxOf, FullRecovery
  <2> QED
    BY <2>1 DEF PendingRecords
<1> QED
  BY <1>3, <1>4, <1>5, <1>6, <1>7, <1>8

\* An empty remote is at its initial head; one that accepted a publication is
\* at the head that followed; a broken one does not load.
LEMMA RemoteShapes ==
    /\ remote = NoStore => /\ RemoteState.head = InitialHead /\ RemoteState.publish_count = 0
                           /\ RemoteLoads
    /\ AcceptedRemote(remote) => /\ RemoteState.head = AcceptedHead
                                 /\ RemoteState.publish_count = 1
                                 /\ RemoteState.objects # {}
                                 /\ RemoteLoads
    /\ remote = HalfRemoved => ~RemoteLoads
BY DEF NoStore, HalfRemoved, RemoteState, RemoteLoads, AcceptedRemote

\* A store's kind tells the shapes apart.
LEMMA ShapesApart ==
    /\ NoStore.store = "none" /\ HalfRemoved.store = "broken"
    /\ \A r \in PendingRecords \cup CaughtUpRecords : r.store = "record"
    /\ \A r \in PendingRecords : r \notin CaughtUpRecords
    /\ NoStore \notin CaughtUpRecords
    /\ HalfRemoved \notin CaughtUpRecords
<1>1. NoStore.store = "none" /\ HalfRemoved.store = "broken"
  BY DEF NoStore, HalfRemoved
<1>2. \A r \in PendingRecords \cup CaughtUpRecords : r.store = "record"
  BY RecordShapes DEF CaughtUpRecords
<1>3. AcceptedHead # InitialHead /\ Reconciled.applied_cursor = AcceptedHead
  BY DEF AcceptedHead, InitialHead, Reconciled, RecordWith
<1> QED
  BY <1>1, <1>2, <1>3, RecordShapes, Zenon DEF CaughtUpRecords

\* A probe goes on to another of its steps.
LEMMA GoesOn ==
    ASSUME command \in Commands, ~Stopped, NEW s \in Steps, GoTo(s)
    PROVE  /\ command' \in Commands /\ ~Stopped'
           /\ command'.step = s
           /\ command'.name = command.name
           /\ command'.expected = command.expected
<1>1. command \in [name : Probes, step : Steps, expected : BOOLEAN]
  BY DEF Commands, Stopped
<1>2. command' = [command EXCEPT !.step = s]
  BY DEF GoTo
<1>3. command' \in [name : Probes, step : Steps, expected : BOOLEAN]
  BY <1>1, <1>2
<1>4. command'.name # "none"
  BY <1>3 DEF Probes
<1> QED
  BY <1>1, <1>2, <1>3, <1>4 DEF Commands, Stopped

\* A probe that ended is at no step.
LEMMA Ends ==
    ASSUME command' = [name |-> "none"]
    PROVE  StepInv'
<1>1. command'.name = "none"
  OBVIOUS
<1> QED
  BY <1>1 DEF StepInv, Stopped, Commands

\* What a probe that ended reports.
LEMMA Reports ==
    ASSUME NEW passed \in BOOLEAN, Verdict(passed),
           command.expected => passed \/ local' \in CaughtUpRecords
    PROVE  StepInv' /\ AlarmInv'
<1>1. command' = [name |-> "none"]
  BY DEF Verdict, End
<1>2. result'.expected = command.expected /\ (passed => result'.verdict = "PASS")
  BY DEF Verdict, End
<1>3. Stopped'
  BY <1>1 DEF Stopped
<1> QED
  BY <1>1, <1>2, <1>3, Ends DEF AlarmInv

\* A probe under way shows no result.
LEMMA Quiet ==
    ASSUME AlarmInv, ~Stopped, UNCHANGED result
    PROVE  AlarmInv'
BY DEF AlarmInv

-----------------------------------------------------------------------------
(* The invariant *)

\* Nothing is stored at first.
LEMMA ProbeInvInit == Init => ProbeInv
<1> SUFFICES ASSUME Init PROVE ProbeInv
  OBVIOUS
<1>1. StoresInv
  BY ShapesApart DEF Init, StoresInv
<1>2. command.name = "none" /\ command \in Commands
  BY DEF Init, Commands
<1>3. result.expected = FALSE
  BY DEF Init
<1> QED
  BY <1>1, <1>2, <1>3 DEF ProbeInv, StepInv, Stopped, AlarmInv

\* The stores are as they were when nothing of them changed.
LEMMA StoresKept ==
    StoresInv /\ UNCHANGED <<local, remote, staged, cleared, stages>> => StoresInv'
BY DEF StoresInv

\* A record that validates as pending is pending.
LEMMA PendingOnly ==
    ASSUME StoresInv, ValidatePending(local)
    PROVE  local \in PendingRecords
<1>1. local.store = "record" /\ local.applied_cursor = InitialHead
  BY DEF ValidatePending
<1>2. AcceptedHead # InitialHead /\ Reconciled.applied_cursor = AcceptedHead
  BY DEF AcceptedHead, InitialHead, Reconciled, RecordWith
<1>3. local \notin CaughtUpRecords
  BY <1>1, <1>2, RecordShapes DEF CaughtUpRecords
<1>4. local \notin {NoStore, HalfRemoved}
  BY <1>1, ShapesApart
<1> QED
  BY <1>3, <1>4 DEF StoresInv, CaughtUpRecords

\* A probe starts at its first step, expected to pass only when a publication
\* is pending.
LEMMA BeginKeeps ==
    ASSUME ProbeInv, BeginStage \/ BeginVerify \/ BeginStageLostAck \/ BeginResumeLostAck
    PROVE  ProbeInv'
<1>1. PICK name \in Probes, step \in Steps, expected \in BOOLEAN :
        /\ Begin(name, step, expected)
        /\ step \in {"reset_local", "reset_remote", "load"}
        /\ expected => /\ staged /\ step = "load"
                       /\ name \in {"verify", "resume_lost_ack"}
                       /\ name = "resume_lost_ack" => RemoteLoads
  <2>1. staged \in BOOLEAN
    BY DEF ProbeInv, StoresInv
  <2> QED
    BY <2>1 DEF BeginStage, BeginVerify, BeginStageLostAck, BeginResumeLostAck, Probes, Steps, StagingSteps
<1>2. StoresInv'
  BY <1>1, StoresKept DEF Begin, ProbeInv
<1>3. /\ command' = [name |-> name, step |-> step, expected |-> expected]
      /\ result'.expected = FALSE
      /\ UNCHANGED <<local, remote>>
  BY <1>1 DEF Begin
<1>4. /\ command'.name = name /\ command'.step = step /\ command'.expected = expected
      /\ command' \in Commands
  BY <1>3 DEF Commands
<1>5. expected => local \in PendingRecords \cup CaughtUpRecords
  BY <1>1 DEF ProbeInv, StoresInv
<1>6. RemoteLoads' = RemoteLoads
  BY <1>3 DEF RemoteLoads
<1>7. StepInv'
  BY <1>1, <1>3, <1>4, <1>5, <1>6, Zenon DEF StepInv, StagingSteps
<1> QED
  BY <1>2, <1>3, <1>7 DEF ProbeInv, AlarmInv

\* The steps of stage_local_record: what is removed and what is staged is
\* never less than pending, and what was expected of the remote is not
\* expected any more.
LEMMA StagingKeeps ==
    ASSUME ProbeInv, ResetRemote \/ ResetLocal \/ StageRecord
    PROVE  ProbeInv'
<1> USE DEF ProbeInv
<1>1. ~Stopped /\ command \in Commands /\ command.step \in StagingSteps /\ ~command.expected
  <2>1. ~Stopped /\ command.step \in StagingSteps
    BY DEF ResetRemote, ResetLocal, StageRecord, At, StagingSteps
  <2> QED
    BY <2>1 DEF StepInv
<1>2. ASSUME ResetRemote  PROVE ProbeInv'
  <2>1. StoresInv'
    BY <1>2, ShapesApart DEF ResetRemote, StoresInv
  <2>2. GoTo("reset_local") /\ UNCHANGED result
    BY <1>2 DEF ResetRemote
  <2>3. /\ command' \in Commands /\ command'.step = "reset_local"
        /\ command'.expected = command.expected
    BY <1>1, <2>2, GoesOn DEF Steps, StagingSteps
  <2>4. StepInv'
    BY <1>1, <2>3, Zenon DEF StepInv
  <2> QED
    BY <1>1, <2>1, <2>2, <2>4, Quiet
<1>3. ASSUME ResetLocal  PROVE ProbeInv'
  <2>1. StoresInv'
    BY <1>3, ShapesApart DEF ResetLocal, StoresInv
  <2>2. GoTo("stage") /\ UNCHANGED result
    BY <1>3 DEF ResetLocal
  <2>3. /\ command' \in Commands /\ command'.step = "stage"
        /\ command'.expected = command.expected
    BY <1>1, <2>2, GoesOn DEF Steps, StagingSteps
  <2>4. StepInv'
    BY <1>1, <2>3, Zenon DEF StepInv
  <2> QED
    BY <1>1, <2>1, <2>2, <2>4, Quiet
<1>4. ASSUME StageRecord  PROVE ProbeInv'
  <2>1. local' \in PendingRecords /\ stages' \in Nat
    <3>1. stages \in Nat /\ stages' = stages + 1 /\ local' = StagedRecord(stages + 1)
      BY <1>4 DEF StageRecord, StoresInv
    <3>2. stages + 1 \in Nat
      BY <3>1
    <3>3. StagedRecord(stages + 1) \in PendingRecords
      BY <3>2, RecordShapes
    <3> QED
      BY <3>1, <3>2, <3>3
  <2>2. ValidatePending(local')
    BY <2>1, RecordShapes
  <2>3. CASE command.name = "stage"
    <3>1. Verdict(ValidatePending(local')) /\ staged' = ValidatePending(local')
      BY <1>4, <2>3 DEF StageRecord
    <3>2. ValidatePending(local') = TRUE
      BY <2>2 DEF ValidatePending
    <3>3. Verdict(TRUE) /\ staged' = TRUE
      BY <3>1, <3>2
    <3>4. StoresInv'
      BY <1>4, <2>1, <3>3, ShapesApart DEF StageRecord, StoresInv
    <3> QED
      BY <3>3, <3>4, Reports
  <2>4. CASE command.name # "stage"
    <3>1. GoTo("fetch") /\ UNCHANGED <<result, staged>>
      BY <1>4, <2>4 DEF StageRecord
    <3>2. StoresInv'
      BY <1>4, <2>1, <3>1, ShapesApart DEF StageRecord, StoresInv
    <3>3. /\ command' \in Commands /\ command'.step = "fetch"
          /\ command'.expected = command.expected
      BY <1>1, <3>1, GoesOn DEF Steps
    <3>4. StepInv'
      BY <1>1, <2>1, <3>3, Zenon DEF StepInv
    <3> QED
      BY <1>1, <3>1, <3>2, <3>4, Quiet
  <2> QED
    BY <2>3, <2>4
<1> QED
  BY <1>2, <1>3, <1>4

\* The checks that only read: verify, and the first step of resume_lost_ack.
LEMMA ReadingKeeps ==
    ASSUME ProbeInv, Verify \/ LoadLocal
    PROVE  ProbeInv'
<1> USE DEF ProbeInv
<1>1. ~Stopped /\ command \in Commands /\ command.step = "load"
  BY DEF Verify, LoadLocal, Running, StepInv, Stopped
<1>2. StoresInv' /\ UNCHANGED <<local, remote>>
  BY StoresKept DEF Verify, LoadLocal
<1>3. command.expected => ValidatePending(local) \/ local' \in CaughtUpRecords
  BY <1>1, <1>2, RecordShapes DEF StepInv
<1>4. ValidatePending(local) \in BOOLEAN
  BY DEF ValidatePending
<1>5. CASE Verdict(ValidatePending(local))
  BY <1>2, <1>3, <1>4, <1>5, Reports
<1>6. CASE ~ValidatePending(local) /\ Verdict(FALSE)
  BY <1>2, <1>3, <1>6, Reports
<1>7. CASE LoadLocal /\ ValidatePending(local)
  <2>1. GoTo("fetch") /\ UNCHANGED result /\ command.name = "resume_lost_ack"
    BY <1>7 DEF LoadLocal, Running
  <2>2. /\ command' \in Commands /\ command'.step = "fetch"
        /\ command'.name = command.name /\ command'.expected = command.expected
    BY <1>1, <2>1, GoesOn DEF Steps
  <2>3. local \in PendingRecords
    BY <1>7, PendingOnly
  <2>4. RemoteLoads' = RemoteLoads
    BY <1>2 DEF RemoteLoads
  <2>5. StepInv'
    BY <1>1, <1>2, <2>1, <2>2, <2>3, <2>4, Zenon DEF StepInv, StagingSteps
  <2> QED
    BY <1>1, <1>2, <2>1, <2>5, Quiet
<1> QED
  BY <1>5, <1>6, <1>7 DEF Verify, LoadLocal

\* The fetch decides: an empty remote is published to, an accepted one is
\* applied, one that does not load fails a probe nothing was expected of.
LEMMA FetchKeeps ==
    ASSUME ProbeInv, Fetch
    PROVE  ProbeInv'
<1> USE DEF ProbeInv
<1>1. ~Stopped /\ command \in Commands /\ command.step = "fetch" /\ local \in PendingRecords
  BY DEF Fetch, At, StepInv
<1>2. StoresInv' /\ UNCHANGED <<local, remote>>
  BY StoresKept DEF Fetch
<1>3. command.expected => RemoteLoads /\ command.name = "resume_lost_ack"
  BY <1>1 DEF StepInv
<1>4. local.applied_cursor = InitialHead /\ AcceptedHead # InitialHead
  <2>1. AcceptedHead # InitialHead
    BY DEF AcceptedHead, InitialHead
  <2> QED
    BY <1>1, <2>1, RecordShapes
<1>5. CASE remote = NoStore
  <2>1. RemoteLoads /\ FetchSince(local.applied_cursor) = "up_to_date"
    BY <1>4, <1>5, RemoteShapes DEF FetchSince
  <2>2. GoTo("publish") /\ UNCHANGED result
    BY <2>1 DEF Fetch
  <2>3. /\ command' \in Commands /\ command'.step = "publish"
        /\ command'.name = command.name /\ command'.expected = command.expected
    BY <1>1, <2>2, GoesOn DEF Steps
  <2>4. StepInv'
    BY <1>1, <1>2, <1>3, <1>5, <2>3, Zenon DEF StepInv, StagingSteps
  <2> QED
    BY <1>1, <1>2, <2>2, <2>4, Quiet
<1>6. CASE AcceptedRemote(remote)
  <2>1. RemoteLoads /\ FetchSince(local.applied_cursor) = "changed"
    BY <1>4, <1>6, RemoteShapes DEF FetchSince
  <2>2. GoTo("apply") /\ UNCHANGED result
    BY <2>1 DEF Fetch
  <2>3. /\ command' \in Commands /\ command'.step = "apply"
        /\ command'.name = command.name /\ command'.expected = command.expected
    BY <1>1, <2>2, GoesOn DEF Steps
  <2>4. StepInv'
    BY <1>1, <1>2, <1>3, <1>6, <2>3, Zenon DEF StepInv, StagingSteps
  <2> QED
    BY <1>1, <1>2, <2>2, <2>4, Quiet
<1>7. CASE remote = HalfRemoved
  <2>1. ~RemoteLoads
    BY <1>7, RemoteShapes
  <2>2. Verdict(FALSE)
    BY <2>1 DEF Fetch
  <2> QED
    BY <1>2, <1>3, <2>1, <2>2, Reports
<1> QED
  BY <1>5, <1>6, <1>7 DEF StoresInv

\* The catch-up commit moves the cursor to a head the remote has.
LEMMA ApplyKeeps ==
    ASSUME ProbeInv, Apply
    PROVE  ProbeInv'
<1> USE DEF ProbeInv
<1>1. /\ ~Stopped /\ command \in Commands /\ command.step = "apply"
      /\ local \in PendingRecords /\ AcceptedRemote(remote)
  BY DEF Apply, At, StepInv
<1>2. /\ local' = [local EXCEPT !.applied_cursor = AcceptedHead]
      /\ UNCHANGED <<remote, staged, cleared, stages, result>>
      /\ GoTo("retire")
  BY <1>1, RemoteShapes DEF Apply
<1>3. local' \in AppliedRecords
  BY <1>1, <1>2, RecordShapes
<1>4. StoresInv'
  BY <1>1, <1>2, <1>3 DEF StoresInv, CaughtUpRecords
<1>5. /\ command' \in Commands /\ command'.step = "retire"
      /\ command'.name = command.name /\ command'.expected = command.expected
  BY <1>1, <1>2, GoesOn DEF Steps
<1>6. command.expected => command.name = "resume_lost_ack"
  BY <1>1 DEF StepInv
<1>7. StepInv'
  BY <1>1, <1>2, <1>3, <1>5, <1>6, Zenon DEF StepInv, StagingSteps
<1> QED
  BY <1>1, <1>2, <1>4, <1>7, Quiet

\* A publication on the empty remote is the one it accepts.
LEMMA PublishKeeps ==
    ASSUME ProbeInv, Publish
    PROVE  ProbeInv'
<1> USE DEF ProbeInv
<1>1. /\ ~Stopped /\ command \in Commands /\ command.step = "publish"
      /\ local \in PendingRecords /\ remote = NoStore
  BY DEF Publish, At, StepInv
<1>2. AcceptedRemote(remote')
  <2>1. local.outbox # {}
    BY <1>1, RecordShapes
  <2>2. RemoteState.head = 1 /\ RemoteState.publish_count = 0
    BY <1>1, RemoteShapes DEF InitialHead
  <2>3. PICK entry : entry \in local.outbox
    BY <2>1
  <2>4. entry.object \in { e.object : e \in local.outbox }
    BY <2>3
  <2>5. /\ Published.store = "record" /\ Published.head = 2 /\ Published.publish_count = 1
        /\ Published.objects = { e.object : e \in local.outbox }
    BY <2>2 DEF Published
  <2> QED
    BY <2>4, <2>5 DEF Publish, AcceptedRemote, AcceptedHead
<1>3. UNCHANGED <<local, staged, cleared, stages, result>>
  BY DEF Publish
<1>4. StoresInv'
  BY <1>1, <1>2, <1>3 DEF StoresInv, CaughtUpRecords
<1>5. command.expected => command.name = "resume_lost_ack"
  BY <1>1 DEF StepInv
<1>6. PICK s \in {"lost", "retire"} : GoTo(s) /\ (s = "lost" => command.name = "stage_lost_ack")
  BY DEF Publish
<1>7. /\ command' \in Commands /\ command'.step = s
      /\ command'.name = command.name /\ command'.expected = command.expected
  BY <1>1, <1>6, GoesOn DEF Steps
<1>8. StepInv'
  BY <1>1, <1>2, <1>3, <1>5, <1>6, <1>7, Zenon DEF StepInv, StagingSteps
<1> QED
  BY <1>1, <1>3, <1>4, <1>8, Quiet

\* The end of stage_lost_ack: the pending record is what passed.
LEMMA CheckLostKeeps ==
    ASSUME ProbeInv, CheckLost
    PROVE  ProbeInv'
<1> USE DEF ProbeInv
<1>1. /\ ~Stopped /\ command.step = "lost" /\ local \in PendingRecords
      /\ ~command.expected
  BY DEF CheckLost, At, StepInv
<1>2. PICK passed \in BOOLEAN : Verdict(passed) /\ staged' = passed
  BY DEF CheckLost
<1>3. StoresInv'
  BY <1>1, <1>2 DEF CheckLost, StoresInv
<1> QED
  BY <1>1, <1>2, <1>3, Reports

\* The retirement follows a publication the remote accepted.
LEMMA RetireKeeps ==
    ASSUME ProbeInv, Retire
    PROVE  ProbeInv'
<1> USE DEF ProbeInv
<1>1. /\ ~Stopped /\ command \in Commands /\ command.step = "retire"
      /\ local \in PendingRecords \cup AppliedRecords /\ AcceptedRemote(remote)
  BY DEF Retire, At, StepInv
<1>2. /\ local' = [local EXCEPT !.outbox = {}, !.applied_cursor = AcceptedHead]
      /\ UNCHANGED <<remote, staged, cleared, stages, result>>
      /\ GoTo("check")
  BY DEF Retire
<1>3. local' = Reconciled
  BY <1>1, <1>2, RecordShapes
<1>4. StoresInv'
  BY <1>1, <1>2, <1>3 DEF StoresInv, CaughtUpRecords
<1>5. /\ command' \in Commands /\ command'.step = "check"
      /\ command'.name = command.name /\ command'.expected = command.expected
  BY <1>1, <1>2, GoesOn DEF Steps
<1>6. command.expected => command.name = "resume_lost_ack"
  BY <1>1 DEF StepInv
<1>7. StepInv'
  BY <1>1, <1>2, <1>3, <1>5, <1>6, Zenon DEF StepInv, StagingSteps
<1> QED
  BY <1>1, <1>2, <1>4, <1>7, Quiet

\* resume_lost_ack passes whenever it gets to its last check.
LEMMA CheckReconciledKeeps ==
    ASSUME ProbeInv, CheckReconciled
    PROVE  ProbeInv'
<1> USE DEF ProbeInv
<1>1. ~Stopped /\ local = Reconciled /\ AcceptedRemote(remote)
  BY DEF CheckReconciled, At, StepInv
<1>2. /\ ValidateReconciled(local)
      /\ RemoteState.head = AcceptedHead
      /\ RemoteState.publish_count = 1
  BY <1>1, RecordShapes, RemoteShapes
<1>3. Verdict(TRUE) /\ staged' = FALSE
  BY <1>2 DEF CheckReconciled
<1>4. StoresInv'
  BY <1>3 DEF CheckReconciled, StoresInv
<1> QED
  BY <1>3, <1>4, Reports

\* A stop leaves what was committed, or less of what was being removed.
LEMMA StopKeeps ==
    ASSUME ProbeInv, ForceStop \/ OperationFails
    PROVE  ProbeInv'
<1> USE DEF ProbeInv
<1>1. Stop /\ command' = [name |-> "none"] /\ result'.expected = FALSE
  BY DEF ForceStop, OperationFails
<1>2. /\ local' \in {local, HalfRemoved, NoStore}
      /\ remote' \in {remote, HalfRemoved, NoStore}
      /\ staged' = (staged /\ local' = local)
      /\ cleared' = (cleared \/ remote' # remote)
      /\ UNCHANGED stages
  BY <1>1 DEF Stop, Leftover
<1>3. StoresInv'
  <2>1. remote' \in {NoStore, HalfRemoved} \/ AcceptedRemote(remote')
    BY <1>2 DEF StoresInv
  <2>2. (~cleared' /\ local' \in CaughtUpRecords) => AcceptedRemote(remote')
    BY <1>2, ShapesApart DEF StoresInv
  <2> QED
    BY <1>2, <2>1, <2>2 DEF StoresInv
<1>4. StepInv'
  BY <1>1, Ends
<1> QED
  BY <1>1, <1>3, <1>4 DEF AlarmInv, Stopped

\* Between the probes only the gate moves, and a refused probe touches nothing.
LEMMA GateKeeps ==
    ASSUME ProbeInv, RefusedInBackground \/ EnterForeground \/ EnterBackground \/ UNCHANGED vars
    PROVE  ProbeInv'
<1> USE DEF ProbeInv
<1>1. /\ UNCHANGED <<local, remote, staged, cleared, stages, command>>
      /\ result' = result \/ result'.expected = FALSE
  BY DEF RefusedInBackground, EnterForeground, EnterBackground, vars
<1>2. StoresInv' /\ StepInv'
  BY <1>1, StoresKept DEF StepInv, Stopped, RemoteLoads
<1>3. Stopped' = Stopped
  BY <1>1 DEF Stopped
<1> QED
  BY <1>1, <1>2, <1>3 DEF AlarmInv

\* The invariant holds in every reachable state.
LEMMA ProbeAlways == Spec => []ProbeInv
<1>1. ASSUME ProbeInv, [Next]_vars  PROVE ProbeInv'
  BY <1>1, BeginKeeps, StagingKeeps, ReadingKeeps, FetchKeeps, ApplyKeeps, PublishKeeps,
     CheckLostKeeps, RetireKeeps, CheckReconciledKeeps, StopKeeps, GateKeeps
  DEF Next
<1> QED
  BY <1>1, ProbeInvInit, PTL DEF Spec

-----------------------------------------------------------------------------
(* The theorems *)

\* Whatever the probes do in whatever order, and wherever the process is
\* stopped, the local record never claims a publication the remote has not
\* accepted (recovery_probe.rs: stage_lost_ack, resume_lost_ack).
THEOREM LocalNeverAhead == Spec => []LocalNotAhead
<1>1. ProbeInv => LocalNotAhead
  <2> SUFFICES ASSUME ProbeInv, local.store = "record", ~cleared, RemoteLoads,
                      local.applied_cursor # InitialHead \/ local.outbox = {}
               PROVE  AcceptedRemote(remote)
    BY RemoteShapes DEF LocalNotAhead
  <2>1. local \notin {NoStore, HalfRemoved}
    BY ShapesApart
  <2>2. local \notin PendingRecords
    BY RecordShapes
  <2> QED
    BY <2>1, <2>2 DEF ProbeInv, StoresInv, CaughtUpRecords
<1> QED
  BY <1>1, ProbeAlways, PTL

\* A verification or a resumption after a staging that passed fails only when
\* an earlier resumption had committed its catch-up and was stopped, and then
\* the record has its exposure and the remote the publication, once
\* (recovery_probe.rs: validate_pending_committed, verify, resume_lost_ack).
THEOREM AlarmMeansCaughtUp == Spec => []AlarmOnlyAfterCatchUp
<1>1. ProbeInv => AlarmOnlyAfterCatchUp
  <2> SUFFICES ASSUME ProbeInv, result.expected, result.verdict # "PASS"
               PROVE  /\ local.store = "record"
                      /\ local.applied_cursor = AcceptedHead
                      /\ ValidateExposure(local)
                      /\ ~cleared => RemoteState.head = AcceptedHead /\ RemoteState.publish_count = 1
    BY DEF AlarmOnlyAfterCatchUp
  <2>1. local \in CaughtUpRecords
    BY DEF ProbeInv, AlarmInv
  <2>2. ~cleared => AcceptedRemote(remote)
    BY <2>1 DEF ProbeInv, StoresInv
  <2>3. PICK b : local = RecordWith(AcceptedHead, b)
    BY <2>1 DEF CaughtUpRecords, AppliedRecords, Reconciled
  <2>4. /\ local.store = "record" /\ local.applied_cursor = AcceptedHead
        /\ local.trusted_state = FullRecovery
    BY <2>3 DEF RecordWith
  <2>5. ValidateExposure(local)
    BY <2>4 DEF ValidateExposure, FullRecovery
  <2> QED
    BY <2>2, <2>4, <2>5, RemoteShapes
<1> QED
  BY <1>1, ProbeAlways, PTL

=============================================================================
