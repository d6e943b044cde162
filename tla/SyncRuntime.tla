---------------------------- MODULE SyncRuntime ----------------------------
(***************************************************************************)
(* Devices that edit, stage, publish and catch up through one opaque       *)
(* transport (apc-runtime over apc-sync), with crashes, failed persists    *)
(* and lost acknowledgements.                                              *)
(*                                                                         *)
(* A device keeps a live container, the record in memory, and on disk the  *)
(* records a restart may find: one, or several after a persist that failed *)
(* (DurableCell's "possible").  Every durable transition is clone, persist,*)
(* swap: memory follows only when persist returned Ok.                     *)
(*                                                                         *)
(* The transport (external) is a log of commits.  A cursor is the length   *)
(* of the log at a commit; publish is a compare-and-swap on it, and one    *)
(* whose answer never came may still take effect later.  A resume cycle    *)
(* (resume_scalar_recovery_outbox_set_bounded) is one pass, or two when    *)
(* the first lost the compare-and-swap, and each pass stops at every       *)
(* transport call and every persist, where others may step in.             *)
(***************************************************************************)
EXTENDS SyncRecord, Sequences, Functions

CONSTANTS
    Device,
    IdsOf,            \* IdsOf[d]: revision identities d's application mints
    PubsOf,           \* PubsOf[d]: publication identities it mints
    KeysOf,           \* KeysOf[d]: the domains d starts with
    DirectReceivers,  \* the devices whose application also receives by itself
    Republish,        \* bound: whether revisions are selected again after a handoff
    MaxForeign,       \* bound: commits without sync objects
    MaxFaults,        \* bound: crashes, failed persists, failed calls
    MaxSwitches,      \* bound: times an application leaves the foreground
    MaxDisturbances   \* bound: all of these together

ASSUME RuntimeAssumption ==
    /\ IdsOf \in [Device -> SUBSET RevisionId]
    /\ PubsOf \in [Device -> SUBSET PublicationId]
    /\ KeysOf \in [Device -> SUBSET DomainKey]
    /\ DirectReceivers \subseteq Device
    /\ \A d, e \in Device :
          d # e => IdsOf[d] \cap IdsOf[e] = {} /\ PubsOf[d] \cap PubsOf[e] = {}
    /\ Republish \in BOOLEAN
    /\ MaxForeign \in Nat /\ MaxFaults \in Nat /\ MaxSwitches \in Nat /\ MaxDisturbances \in Nat

VARIABLES
    live,             \* live[d]: the LocalScalarRecoveryState in memory
    record,           \* record[d]: the DurableSyncRecord in memory
    disk,             \* disk[d]: the records a restart may find
    log,              \* the transport: a sequence of sets of publications
    late,             \* publish requests that nobody waits for any more
    pass,             \* pass[d]: where d is in a resume cycle
    foreground,       \* the devices whose application is in the foreground
    foreign,          \* commits without sync objects so far
    faults,           \* faults so far
    switches          \* times an application left the foreground

vars == <<live, record, disk, log, late, pass, foreground, foreign, faults, switches>>

\* What only the environment's own actions change.
bounds == <<foreign, switches>>

LogHead == Len(log)

\* The publications in a range of commits, and the projections they carry.
Publications(range) == UNION { log[i] : i \in range }

\* fetch_from_durable_cursor: the commits after the durable cursor.
FetchedRange(d) == record[d].applied_cursor + 1 .. LogHead

Fetched(d) == { p.objects : p \in Publications(FetchedRange(d)) }

\* No resume cycle is running.
Idle == [step |-> "idle"]

InPass(d, step) == pass[d].step = step

Init ==
    /\ live = [d \in Device |-> [k \in KeysOf[d] |-> FromCausal(EmptyRegister)]]
    /\ record = [d \in Device |-> NewRecord(live[d], 0)]
    /\ disk = [d \in Device |-> {record[d]}]
    /\ log = <<>>
    /\ late = {}
    /\ pass = [d \in Device |-> Idle]
    /\ foreground = Device     \* each application has started and is in front
    /\ foreign = 0 /\ faults = 0 /\ switches = 0

-----------------------------------------------------------------------------
(* Persisting: SyncRecordStore::persist over commit_durable *)

Undisturbed == foreign + faults + switches < MaxDisturbances

Fault == Undisturbed /\ faults < MaxFaults /\ faults' = faults + 1

PersistOk(d, rec) ==
    /\ record' = [record EXCEPT ![d] = rec]
    /\ disk' = [disk EXCEPT ![d] = {rec}]
    /\ UNCHANGED faults

\* Err says nothing about the disk: the new record may have reached it.
PersistErr(d, rec) ==
    /\ Fault
    /\ disk' = [disk EXCEPT ![d] = @ \cup {rec}]
    /\ UNCHANGED record

SetLive(d, container) == live' = [live EXCEPT ![d] = container]

GoTo(d, where) == pass' = [pass EXCEPT ![d] = where]

-----------------------------------------------------------------------------
(* The application edits in memory, between cycles *)

Edit(d, k, domain) ==
    /\ InPass(d, "idle")
    /\ SetLive(d, [live[d] EXCEPT ![k] = domain])
    /\ UNCHANGED <<record, disk, log, late, pass, foreground, bounds, faults>>

\* Revision identities left to mint in a domain: a dirty epoch needs one to be sealed.
FreshIds(d, k) == IdsOf[d] \ DOMAIN live[d][k].causal

EditBegin(d, k, value) ==
    /\ FreshIds(d, k) # {}
    /\ CanBeginEpoch(live[d][k])
    /\ Edit(d, k, BeginEpoch(live[d][k], value))

EditSeal(d, k, id) ==
    /\ CanSeal(live[d][k], id)
    /\ Edit(d, k, SealLocal(live[d][k], id))

EditFinalize(d, k, id) ==
    /\ CanFinalize(live[d][k], id)
    /\ Edit(d, k, Finalize(live[d][k], id))

-----------------------------------------------------------------------------
(* Staging: prepare_recovery_handoff, then stage_prepared_recovery_handoff. *)
(* One step: the caller may do other things between the two, but what is    *)
(* prepared, the history of the selected revisions, never changes.          *)

\* Publication identities left to mint.  One whose stage failed may be tried
\* again; one that reached the transport is never drawn a second time.
FreshPubs(d) ==
    PubsOf[d] \ ( DOMAIN record[d].outbox \cup
                  { p.publication_id : p \in Publications(1 .. LogHead) } )

StagedRecord(d, pub, selected) ==
    PrepareOutbox(record[d], HandoffSelected(live[d], selected), pub,
        [expected_cursor |-> record[d].applied_cursor,
         objects |-> PreparedProjection(live[d], selected)])

CanStage(d, pub, selected) ==
    /\ InPass(d, "idle")
    /\ CanHandoffSelected(live[d], selected)
    /\ ProjectionEncodes(PreparedProjection(live[d], selected))
    /\ TrustedStateEncodes(HandoffSelected(live[d], selected))
    /\ CanPrepareOutbox(record[d], pub, StagedRecord(d, pub, selected).outbox[pub])

Stage(d, pub, selected) ==
    /\ CanStage(d, pub, selected)
    /\ \/ /\ PersistOk(d, StagedRecord(d, pub, selected))
          /\ SetLive(d, HandoffSelected(live[d], selected))
       \/ /\ PersistErr(d, StagedRecord(d, pub, selected))
          /\ UNCHANGED live
    /\ UNCHANGED <<log, late, pass, foreground, bounds>>

\* commit_rebased_outbox: the application replaces a stale publication by one
\* with the same revisions, another identity and the current cursor.
RebasedEntry(d, stale) ==
    [record[d].outbox[stale] EXCEPT !.expected_cursor = record[d].applied_cursor]

WithoutStale(d, stale) ==
    RetireOutbox(record[d], {stale}, live[d], record[d].applied_cursor)

RebasedRecord(d, stale, pub) ==
    PrepareOutbox(WithoutStale(d, stale), live[d], pub, RebasedEntry(d, stale))

\* A seeded fault: the stale identity may be used again.
CanRebaseInPlace(d, stale, pub) ==
    CanPrepareOutbox(WithoutStale(d, stale), pub, RebasedEntry(d, stale))

CanRebase(d, stale, pub) ==
    /\ stale # pub
    /\ CanPrepareOutbox(WithoutStale(d, stale), pub, RebasedEntry(d, stale))

Rebase(d, stale, pub) ==
    /\ InPass(d, "idle")
    /\ record[d].outbox[stale].expected_cursor # record[d].applied_cursor
    /\ CanRebase(d, stale, pub)
    /\ \/ PersistOk(d, RebasedRecord(d, stale, pub))
       \/ PersistErr(d, RebasedRecord(d, stale, pub))
    /\ UNCHANGED <<live, log, late, pass, foreground, bounds>>

-----------------------------------------------------------------------------
(* One resume cycle *)

Dirty(d) == { k \in DOMAIN live[d] : live[d][k].pending # NoEpoch }

\* The gate in front of the transport: a call may start.
MayCall(d) == d \in foreground

\* The caller names a revision identity for each dirty domain; both passes of
\* the cycle are given the same ones.  (In the background the first call would
\* be refused and nothing would change.)
StartCycle(d, seal) ==
    /\ InPass(d, "idle")
    /\ MayCall(d)
    /\ GoTo(d, [step |-> "fetch", attempt |-> 1, seal |-> seal])
    /\ UNCHANGED <<live, record, disk, log, late, foreground, bounds, faults>>

Classify(d, evidence) ==
    [step |-> "classify", attempt |-> pass[d].attempt, seal |-> pass[d].seal,
     evidence |-> evidence]

NoEvidence == [k \in {} |-> EmptyRegister]

\* catch_up_scalar_recovery_state: nothing new.
CatchUpUpToDate(d) ==
    /\ InPass(d, "fetch")
    /\ MayCall(d)
    /\ FetchedRange(d) = {}
    /\ GoTo(d, Classify(d, NoEvidence))
    /\ UNCHANGED <<live, record, disk, log, late, foreground, bounds, faults>>

\* commit_received: the container and the cursor it was made at, together.
ReceivedRecord(d, container) == ApplyReceived(record[d], container, LogHead)

\* The range holds no sync object: only the cursor moves, with the live state.
CatchUpEmpty(d) ==
    /\ InPass(d, "fetch")
    /\ MayCall(d)
    /\ FetchedRange(d) # {}
    /\ Fetched(d) = {}
    /\ TrustedStateEncodes(live[d])
    /\ \/ PersistOk(d, ReceivedRecord(d, live[d])) /\ GoTo(d, Classify(d, NoEvidence))
       \/ PersistErr(d, ReceivedRecord(d, live[d])) /\ GoTo(d, Idle)
    /\ UNCHANGED <<live, log, late, foreground, bounds>>

\* The container after the whole range is merged and observed, on a clone.
Candidate(d) == ObserveProjection(live[d], Combined(Fetched(d)), pass[d].seal)

CanCatchUp(d) ==
    /\ \A p \in Fetched(d) : ProjectionDecodes(p)
    /\ CanCombine(Fetched(d))
    /\ CanObserveProjection(live[d], Combined(Fetched(d)), pass[d].seal)
    /\ TrustedStateEncodes(Candidate(d))

\* It is committed together with the new cursor; the live state follows.
CatchUpApply(d) ==
    /\ InPass(d, "fetch")
    /\ MayCall(d)
    /\ Fetched(d) # {}
    /\ CanCatchUp(d)
    /\ \/ /\ PersistOk(d, ReceivedRecord(d, Candidate(d)))
          /\ SetLive(d, Candidate(d))
          /\ GoTo(d, Classify(d, Combined(Fetched(d))))
       \/ /\ PersistErr(d, ReceivedRecord(d, Candidate(d)))
          /\ GoTo(d, Idle)
          /\ UNCHANGED live
    /\ UNCHANGED <<log, late, foreground, bounds>>

\* commit_received_recovery_scalar_domain: a caller that fetched by itself commits
\* what it decoded for one domain of the container.  The function checks that the
\* container has the domain, and saves whatever state and new head it is given.
\* That they are all of one fetch from the durable cursor, and that the fetch
\* touched no second domain, is the caller's obligation: an assumption on the
\* application (README), without which the cursor would pass what was left out.
ReceiveOneDomain(d, seal) ==
    /\ d \in DirectReceivers
    /\ InPass(d, "idle")
    /\ MayCall(d)
    /\ \E k \in DOMAIN live[d] :
          /\ TouchedBy(Fetched(d)) = {k}
          /\ CanCombine(Fetched(d))
          /\ CanObserveProjection(live[d], Combined(Fetched(d)), seal)
          /\ LET observed == ObserveRemote(live[d][k], Combined(Fetched(d))[k], SealIdOf(seal, k))
                 container == [live[d] EXCEPT ![k] = observed]
             IN  /\ TrustedStateEncodes(container)
                 /\ \/ PersistOk(d, ReceivedRecord(d, container)) /\ SetLive(d, container)
                    \/ PersistErr(d, ReceivedRecord(d, container)) /\ UNCHANGED live
    /\ UNCHANGED <<log, late, pass, foreground, bounds>>

\* A touched domain cannot be observed, for one because its dirty work has no
\* identity to be sealed with: the pass ends and nothing changes.
CatchUpRefused(d) ==
    /\ InPass(d, "fetch")
    /\ MayCall(d)
    /\ FetchedRange(d) # {}
    /\ ~CanCatchUp(d)
    /\ GoTo(d, Idle)
    /\ UNCHANGED <<live, record, disk, log, late, foreground, bounds, faults>>

\* A seeded fault: only publications of a later cursor count as stale.
StaleIfAhead(d) ==
    { p \in DOMAIN record[d].outbox :
        record[d].outbox[p].expected_cursor > record[d].applied_cursor }

Stale(d) ==
    { p \in DOMAIN record[d].outbox :
        record[d].outbox[p].expected_cursor # record[d].applied_cursor }

Current(d) == DOMAIN record[d].outbox \ Stale(d)

\* Stale publications whose arrival this pass's evidence proves.
Observed(d) ==
    { p \in Stale(d) :
        ProjectionIsObserved(record[d].outbox[p].objects, pass[d].evidence) }

\* A seeded fault: the pass ends where it should publish the current set.
AfterStaleNeverPublishes(d, unresolved) == Idle

\* Where the pass goes once it knows which publications stay stale: it reports
\* NeedsRebase or that nothing is left, or it publishes the current set.
AfterStale(d, unresolved) ==
    IF unresolved # {} \/ Current(d) = {} THEN Idle
    ELSE [step |-> "publish", attempt |-> pass[d].attempt, seal |-> pass[d].seal,
          batch |-> Current(d)]

\* commit_reconciled_outbox_batch: retire publications at a known head.
ReconciledRecord(d, pubs, head) ==
    RetireOutbox(record[d], pubs, record[d].trusted_state, head)

ReconcileObserved(d) ==
    LET next == ReconciledRecord(d, Observed(d), record[d].applied_cursor)
    IN  /\ InPass(d, "classify")
        /\ Observed(d) # {}
        /\ \/ /\ PersistOk(d, next)
              /\ GoTo(d, AfterStale(d, Stale(d) \ Observed(d)))
           \/ PersistErr(d, next) /\ GoTo(d, Idle)
        /\ UNCHANGED <<live, log, late, foreground, bounds>>

NothingObserved(d) ==
    /\ InPass(d, "classify")
    /\ Observed(d) = {}
    /\ GoTo(d, AfterStale(d, Stale(d)))
    /\ UNCHANGED <<live, record, disk, log, late, foreground, bounds, faults>>

\* A seeded fault: one publication of the batch is sent.
BatchRequestOfOne(d) ==
    LET p == CHOOSE q \in pass[d].batch : TRUE
    IN  [ expected |-> {record[d].outbox[p].expected_cursor},
          publications |-> {[publication_id |-> p, objects |-> record[d].outbox[p].objects]} ]

\* publish_staged_batch: the exact staged objects, in one request.
BatchRequest(d) ==
    [ expected |-> { record[d].outbox[p].expected_cursor : p \in pass[d].batch },
      publications |-> { [publication_id |-> p, objects |-> record[d].outbox[p].objects] :
                            p \in pass[d].batch } ]

\* The transport still is where a request expects it.
Accepts(request) == request.expected = {LogHead}

PublishAccepted(d) ==
    /\ InPass(d, "publish")
    /\ MayCall(d)
    /\ Accepts(BatchRequest(d))
    /\ log' = Append(log, BatchRequest(d).publications)
    /\ GoTo(d, [step |-> "reconcile", batch |-> pass[d].batch, head |-> LogHead + 1])
    /\ UNCHANGED <<live, record, disk, late, foreground, bounds, faults>>

\* Another commit came first.  The first pass is followed by a second one,
\* the second by nothing.
PublishConflict(d) ==
    /\ InPass(d, "publish")
    /\ MayCall(d)
    /\ ~Accepts(BatchRequest(d))
    /\ GoTo(d, IF pass[d].attempt = 1
               THEN [step |-> "fetch", attempt |-> 2, seal |-> pass[d].seal]
               ELSE Idle)
    /\ UNCHANGED <<live, record, disk, log, late, foreground, bounds, faults>>

\* The request is sent and the answer is an error: the connection broke or
\* timed out.  Whether and when the request takes effect is open.
PublishUnanswered(d) ==
    /\ InPass(d, "publish")
    /\ MayCall(d)
    /\ Fault
    /\ late' = late \cup {BatchRequest(d)}
    /\ GoTo(d, Idle)
    /\ UNCHANGED <<live, record, disk, log, foreground, bounds>>

\* Such a request takes effect after all.
LateArrival(request) ==
    /\ Accepts(request)
    /\ log' = Append(log, request.publications)
    /\ late' = late \ {request}
    /\ UNCHANGED <<live, record, disk, pass, foreground, bounds, faults>>

\* A fetch fails or reports that the baseline is unavailable, or a publish
\* surely had no effect: the pass ends.
TransportError(d) ==
    /\ InPass(d, "fetch") \/ InPass(d, "publish")
    /\ MayCall(d)
    /\ Fault
    /\ GoTo(d, Idle)
    /\ UNCHANGED <<live, record, disk, log, late, foreground, bounds>>

\* The acknowledged batch is retired at the head that acknowledged it.
ReconcilePublished(d) ==
    LET next == ReconciledRecord(d, pass[d].batch, pass[d].head)
    IN  /\ InPass(d, "reconcile")
        /\ PersistOk(d, next) \/ PersistErr(d, next)
        /\ GoTo(d, Idle)
        /\ UNCHANGED <<live, log, late, foreground, bounds>>

-----------------------------------------------------------------------------
(* The foreground gate *)

\* A call is refused before it starts.
Backgrounded(d) ==
    /\ InPass(d, "fetch") \/ InPass(d, "publish")
    /\ ~MayCall(d)
    /\ GoTo(d, Idle)
    /\ UNCHANGED <<live, record, disk, log, late, foreground, bounds, faults>>

EnterForeground(d) ==
    /\ ~MayCall(d)
    /\ foreground' = foreground \cup {d}
    /\ UNCHANGED <<live, record, disk, log, late, pass, bounds, faults>>

\* At any time, also between two calls of a cycle.
EnterBackground(d) ==
    /\ MayCall(d)
    /\ Undisturbed /\ switches < MaxSwitches
    /\ switches' = switches + 1
    /\ foreground' = foreground \ {d}
    /\ UNCHANGED <<live, record, disk, log, late, pass, foreign, faults>>

-----------------------------------------------------------------------------
(* Environment *)

\* The process ends anywhere and restarts from a record the disk may hold.
Restart(d) ==
    /\ Fault
    /\ \E rec \in disk[d] :
          /\ RecordDecodes(rec) /\ TrustedStateDecodes(rec.trusted_state)
          /\ record' = [record EXCEPT ![d] = rec]
          /\ disk' = [disk EXCEPT ![d] = {rec}]
          /\ SetLive(d, rec.trusted_state)
    /\ GoTo(d, Idle)
    /\ foreground' = foreground \ {d}
    /\ UNCHANGED <<log, late, bounds>>

\* Somebody commits to the transport without adding sync objects.
ForeignCommit ==
    /\ Undisturbed /\ foreign < MaxForeign
    /\ foreign' = foreign + 1
    /\ log' = Append(log, {})
    /\ UNCHANGED <<live, record, disk, late, pass, foreground, faults, switches>>

\* The seal identities a caller may name: fresh ones, for some dirty domains.
SealChoices(d, keys) ==
    { s \in [keys -> IdsOf[d]] : \A k \in keys : s[k] \in FreshIds(d, k) }

\* A bound: a device selects its own revisions and, unless Republish, each only
\* until it is handed off.
Selectable(d, k, ids) == ids \subseteq IdsOf[d] /\ (Republish \/ ids \cap live[d][k].handed_off = {})

\* The selections a publication of d may carry.
Selections(d) ==
    { s \in UNION { [K -> SUBSET IdsOf[d]] : K \in SUBSET DOMAIN live[d] } :
        \A k \in DOMAIN s : Selectable(d, k, s[k]) }

\* A cycle that names an identity for every dirty domain.
StartReadyCycle(d) == \E seal \in SealChoices(d, Dirty(d)) : StartCycle(d, seal)

InCycle(d) ==
    \/ CatchUpUpToDate(d)
    \/ CatchUpEmpty(d)
    \/ CatchUpApply(d)
    \/ CatchUpRefused(d)
    \/ ReconcileObserved(d)
    \/ NothingObserved(d)
    \/ PublishAccepted(d)
    \/ PublishConflict(d)
    \/ ReconcilePublished(d)
    \/ Backgrounded(d)

\* The caller offers a fresh identity, or the one it means to replace.
Rebases(d) ==
    \E stale \in DOMAIN record[d].outbox :
        \E pub \in FreshPubs(d) \cup {stale} : Rebase(d, stale, pub)

\* The application's own calls between cycles.
Application(d) ==
    \/ \E k \in DOMAIN live[d] :
          \/ \E value \in Value : EditBegin(d, k, value)
          \/ \E id \in IdsOf[d] : EditSeal(d, k, id) \/ EditFinalize(d, k, id)
    \/ Rebases(d)

\* The calls of the multi-domain runtime.
MultiDomain(d) ==
    \/ \E pub \in FreshPubs(d), selected \in Selections(d) : Stage(d, pub, selected)
    \/ \E keys \in SUBSET Dirty(d) : \E seal \in SealChoices(d, keys) :
          \/ StartCycle(d, seal)
          \/ ReceiveOneDomain(d, seal)
    \/ InCycle(d)
    \/ PublishUnanswered(d)
    \/ TransportError(d)

\* What the platform and the network do.
Platform(d) == EnterForeground(d) \/ EnterBackground(d) \/ Restart(d)

Network == ForeignCommit \/ \E request \in late : LateArrival(request)

Next == Network \/ \E d \in Device : Application(d) \/ MultiDomain(d) \/ Platform(d)

Spec == Init /\ [][Next]_vars

\* The application keeps starting cycles, with identities for its dirty work,
\* and rebases what a cycle reports as stale; a started cycle runs on, and the
\* user comes back to the foreground.  Faults are bounded, so they stop.
Fairness ==
    \A d \in Device :
        /\ SF_vars(StartReadyCycle(d))
        /\ SF_vars(Rebases(d))
        /\ WF_vars(InCycle(d) \/ EnterForeground(d))

FairSpec == Spec /\ Fairness

-----------------------------------------------------------------------------
(* Properties *)

\* The records a device has: in memory, and any a restart may find.
RecordsOf(d) == disk[d] \cup {record[d]}

\* Container c holds the revision that a register states under id.
Holds(c, k, id, revision) ==
    /\ k \in DOMAIN c
    /\ id \in DOMAIN c[k].causal
    /\ c[k].causal[id] = revision

PassSteps == {"idle", "fetch", "classify", "publish", "reconcile"}

\* Every variable keeps its shape: records and their containers in memory and
\* on disk, the transport log, the bounds.
TypeOK ==
    /\ DOMAIN live = Device
    /\ \A d \in Device :
          /\ DOMAIN live[d] \subseteq DomainKey
          /\ \A k \in DOMAIN live[d] : live[d][k] \in Domains
          /\ disk[d] # {}
          /\ pass[d].step \in PassSteps
          /\ \A rec \in RecordsOf(d) :
                /\ \A k \in DOMAIN rec.trusted_state : rec.trusted_state[k] \in Domains
                /\ rec.applied_cursor \in 0 .. LogHead
                /\ DOMAIN rec.outbox \subseteq PubsOf[d]
    /\ foreign \in 0 .. MaxForeign /\ faults \in 0 .. MaxFaults /\ switches \in 0 .. MaxSwitches

\* The durable cursor never outruns the durable state: whatever record a
\* restart finds, its trusted state holds every revision of every commit up to
\* its cursor, with the same statement, so that nothing is skipped by a later
\* fetch (session.rs: commit_received pairs state and cursor).
CursorNeverOutrunsState ==
    \A d \in Device : \A rec \in RecordsOf(d) :
        \A p \in Publications(1 .. rec.applied_cursor) :
            \A k \in DOMAIN p.objects : \A id \in DOMAIN p.objects[k] :
                Holds(rec.trusted_state, k, id, p.objects[k][id])

\* Exposure is durable before bytes can leave: a revision in the transport, or
\* in a request still under way, is exposed and frozen with that statement in
\* every record its author may restart from (stage_prepared_recovery_handoff).
ExposureBeforeWire ==
    \A d \in Device :
        \A p \in Publications(1 .. LogHead) \cup UNION { q.publications : q \in late } :
            \A k \in DOMAIN p.objects : \A id \in DOMAIN p.objects[k] \cap IdsOf[d] :
                \A rec \in disk[d] :
                    /\ id \in rec.trusted_state[k].exposed
                    /\ id \in DOMAIN rec.trusted_state[k].finalized
                    /\ rec.trusted_state[k].finalized[id] = p.objects[k][id]

\* A revision that was handed off is never forgotten: in every record its
\* author may restart from it is still in the outbox, unless it is already in
\* the transport.  Lost answers, crashes between publish and retirement, and
\* stale publications never retire what nobody received.
NoLostPublication ==
    \A d \in Device : \A rec \in RecordsOf(d) : \A k \in DOMAIN rec.trusted_state :
        \A id \in rec.trusted_state[k].handed_off :
            \E objects \in { e.objects : e \in Range(rec.outbox) }
                           \cup { p.objects : p \in Publications(1 .. LogHead) } :
                k \in DOMAIN objects /\ id \in DOMAIN objects[k]

\* The exact bytes of a publication enter the transport at most once, although
\* an unanswered publish is retried and may itself take effect late.
PublishedAtMostOnce ==
    \A i, j \in 1 .. LogHead :
        i # j => { p.publication_id : p \in log[i] } \cap { p.publication_id : p \in log[j] } = {}

\* A fetched range can always be applied, once the caller names an identity
\* for each dirty domain it touches: what others published decodes and merges,
\* every domain can be restored and observed, and the result is a state that
\* the codec, which restores what it writes, agrees to write.  Otherwise the
\* device would be refused the same range for ever.
CatchUpOnlyNeedsSeals ==
    \A d \in Device :
        ( /\ InPass(d, "fetch")
          /\ Dirty(d) \cap TouchedBy(Fetched(d)) \subseteq DOMAIN pass[d].seal ) =>
            CanCatchUp(d)

\* The pass after a conflict gets the seal identities of the first pass, and
\* can use them: the first pass has not consumed them, because a pass that
\* applied anything has no publication left that targets the new cursor.
PostConflictSealsUsable ==
    \A d \in Device :
        (InPass(d, "fetch") /\ pass[d].attempt = 2) =>
            \A k \in DOMAIN pass[d].seal : CanSeal(live[d][k], pass[d].seal[k])

\* Nothing is pending and everything is read.
Drained ==
    \A d \in Device :
        /\ DOMAIN record[d].outbox = {}
        /\ record[d].applied_cursor = LogHead

\* Once faults and foreign commits stop, every staged publication reaches the
\* transport and every device reads all of it: conflicts, stale publications
\* and lost evidence all lead back to a publication that succeeds.
EventuallyDrained == <>[]Drained

=============================================================================
