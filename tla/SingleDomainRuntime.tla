------------------------ MODULE SingleDomainRuntime ------------------------
(***************************************************************************)
(* The single-domain runtime (catchup.rs, receive.rs, publication.rs,      *)
(* resume.rs, resume_batch.rs and their cycles), on devices that share a   *)
(* transport with devices that run the multi-domain one.                   *)
(*                                                                         *)
(* A single-domain device has one LocalScalarDomain: here a container with *)
(* that domain alone.  It understands publications of its domain only, its *)
(* evidence is a flat set of revision identities, and its caller chooses   *)
(* per cycle between a resume that takes at most one pending publication   *)
(* ("one") and one that takes any number ("set").  A cycle ends in a       *)
(* report, which the caller reads before it does anything else.            *)
(***************************************************************************)
EXTENDS SyncRuntime

CONSTANT DomainOf     \* DomainOf[d]: the domain of a single-domain device d

Single == DOMAIN DomainOf

ASSUME SingleAssumption ==
    /\ Single \subseteq Device
    /\ \A d \in Single : KeysOf[d] = {DomainOf[d]}
    /\ Single \cap DirectReceivers = {}

LocalDomain(d) == live[d][DomainOf[d]]

Container(d, domain) == [k \in {DomainOf[d]} |-> domain]

-----------------------------------------------------------------------------
(* Staging: prepare_scalar_handoff, stage_prepared_scalar_handoff *)

\* The wire object: the history of the chosen revisions, and nothing beside it.
PreparedScalar(d, ids) == Container(d, ExportedRegister(LocalDomain(d), ids))

CanPrepareScalar(d, ids) ==
    /\ ids # {}
    /\ CanHandoff(LocalDomain(d), ids)
    /\ ProjectionEncodes(PreparedScalar(d, ids))

\* Exposure, exact bytes and the cursor they expect, in one durable record.
StagedScalarRecord(d, pub, ids) ==
    PrepareOutbox(record[d], Container(d, Handoff(LocalDomain(d), ids)), pub,
        [expected_cursor |-> record[d].applied_cursor, objects |-> PreparedScalar(d, ids)])

StageScalar(d, pub, ids) ==
    /\ InPass(d, "idle")
    /\ CanPrepareScalar(d, ids)
    /\ SnapshotEncodes(Handoff(LocalDomain(d), ids))
    /\ CanPrepareOutbox(record[d], pub, StagedScalarRecord(d, pub, ids).outbox[pub])
    /\ \/ /\ PersistOk(d, StagedScalarRecord(d, pub, ids))
          /\ SetLive(d, Container(d, Handoff(LocalDomain(d), ids)))
       \/ PersistErr(d, StagedScalarRecord(d, pub, ids)) /\ UNCHANGED live
    /\ UNCHANGED <<log, late, pass, foreground, bounds>>

\* recover_scalar_domain, in a new process.
RecoverScalar(d) ==
    /\ Fault
    /\ \E rec \in disk[d] :
          /\ RecordDecodes(rec)
          /\ SnapshotDecodes(rec.trusted_state[DomainOf[d]])
          /\ record' = [record EXCEPT ![d] = rec]
          /\ disk' = [disk EXCEPT ![d] = {rec}]
          /\ SetLive(d, rec.trusted_state)
    /\ GoTo(d, Idle)
    /\ foreground' = foreground \ {d}
    /\ UNCHANGED <<log, late, bounds>>

-----------------------------------------------------------------------------
(* Catching up: catch_up_single_scalar_domain *)

\* The reports of a cycle: what became of the outbox, of which publications,
\* and which ones the cycle's passes had retired before that because their
\* arrival was observed (observed_reconciled, of both passes).
Report(action, pubs, observed) ==
    [step |-> "done", action |-> action, publications |-> pubs, observed |-> observed]

\* ScalarCatchUpSpec: the caller names the identity that dirty work is to be
\* sealed with.  Both passes of a cycle are given the same one.
StartSingle(d, mode, seal) ==
    /\ InPass(d, "idle")
    /\ MayCall(d)
    /\ mode = "one" => Cardinality(DOMAIN record[d].outbox) <= 1
    /\ GoTo(d, [step |-> "fetch", attempt |-> 1, seal |-> seal, mode |-> mode,
                observed |-> {}])
    /\ UNCHANGED <<live, record, disk, log, late, foreground, bounds, faults>>

\* MultiplePendingOutboxUnsupported: refused before any call.  The caller is
\* told and nothing else happens.
RefuseMultiple(d) ==
    /\ InPass(d, "idle")
    /\ Cardinality(DOMAIN record[d].outbox) > 1
    /\ GoTo(d, Report("Unsupported", DOMAIN record[d].outbox, {}))
    /\ UNCHANGED <<live, record, disk, log, late, foreground, bounds, faults>>

\* Classification follows; "evidence" are the identities that arrived in this
\* very pass.
ClassifySingle(d, evidence) ==
    [step |-> "classify", attempt |-> pass[d].attempt, seal |-> pass[d].seal,
     mode |-> pass[d].mode, evidence |-> evidence, observed |-> pass[d].observed]

SingleUpToDate(d) ==
    /\ InPass(d, "fetch")
    /\ MayCall(d)
    /\ FetchedRange(d) = {}
    /\ GoTo(d, ClassifySingle(d, {}))
    /\ UNCHANGED <<live, record, disk, log, late, foreground, bounds, faults>>

\* The transport no longer has the range.
SingleBaseline(d) ==
    /\ InPass(d, "fetch")
    /\ MayCall(d)
    /\ Fault
    /\ GoTo(d, Report("BlockedByBaseline", {}, pass[d].observed))
    /\ UNCHANGED <<live, record, disk, log, late, foreground, bounds>>

SingleEmpty(d) ==
    /\ InPass(d, "fetch")
    /\ MayCall(d)
    /\ FetchedRange(d) # {}
    /\ Fetched(d) = {}
    /\ SnapshotEncodes(LocalDomain(d))
    /\ \/ PersistOk(d, ReceivedRecord(d, live[d])) /\ GoTo(d, ClassifySingle(d, {}))
       \/ PersistErr(d, ReceivedRecord(d, live[d])) /\ GoTo(d, Idle)
    /\ UNCHANGED <<live, log, late, foreground, bounds>>

\* A seeded fault: publications of other domains are passed over.
OnlyExpectedIgnored(d, p) == TRUE

\* scalar_register_from_projection: one domain, the expected one.
OnlyExpected(d, p) == DOMAIN p = {DomainOf[d]}

\* The registers of the range, merged into one (empty if there is none).
RemoteRegister(d) ==
    LET mine == { p \in Fetched(d) : DomainOf[d] \in DOMAIN p }
    IN  IF mine = {} THEN EmptyRegister ELSE Combined(mine)[DomainOf[d]]

SealOf(d) == SealIdOf(pass[d].seal, DomainOf[d])

\* decode_complete_scalar_domain_objects, the merge of the range, and the
\* checks of commit_received_scalar_domain.
CanReceive(d) ==
    /\ \A p \in Fetched(d) : ProjectionDecodes(p) /\ OnlyExpected(d, p)
    /\ CanCombine(Fetched(d))
    /\ CanObserveRemote(LocalDomain(d), RemoteRegister(d), SealOf(d))
    /\ SnapshotEncodes(ObserveRemote(LocalDomain(d), RemoteRegister(d), SealOf(d)))

\* commit_received_scalar_domain
SingleReceive(d) ==
    LET received == Container(d, ObserveRemote(LocalDomain(d), RemoteRegister(d), SealOf(d)))
    IN  /\ InPass(d, "fetch")
        /\ MayCall(d)
        /\ Fetched(d) # {}
        /\ CanReceive(d)
        /\ \/ /\ PersistOk(d, ReceivedRecord(d, received))
              /\ SetLive(d, received)
              /\ GoTo(d, ClassifySingle(d, DOMAIN RemoteRegister(d)))
           \/ PersistErr(d, ReceivedRecord(d, received)) /\ GoTo(d, Idle) /\ UNCHANGED live
        /\ UNCHANGED <<log, late, foreground, bounds>>

\* Another domain is in the range, or dirty work has no identity: nothing
\* changes, and the next fetch meets the same range.
SingleRefused(d) ==
    /\ InPass(d, "fetch")
    /\ MayCall(d)
    /\ Fetched(d) # {}
    /\ ~CanReceive(d)
    /\ GoTo(d, Idle)
    /\ UNCHANGED <<live, record, disk, log, late, foreground, bounds, faults>>

-----------------------------------------------------------------------------
(* Resuming with at most one pending publication: resume_single_scalar_domain *)

\* A seeded fault: what the device already holds counts as evidence.
CarriedByLocal(d, pub) ==
    DOMAIN record[d].outbox[pub].objects[DomainOf[d]] \subseteq DOMAIN LocalDomain(d).causal

\* decode_single_scalar_domain_object of the staged bytes: every identity they
\* carry arrived in this pass.
Carried(d, pub) ==
    DOMAIN record[d].outbox[pub].objects[DomainOf[d]] \subseteq pass[d].evidence

InMode(d, mode) == InPass(d, "classify") /\ pass[d].mode = mode

Publishing(d, pubs, observed) ==
    [step |-> "publish", attempt |-> pass[d].attempt, seal |-> pass[d].seal,
     mode |-> pass[d].mode, batch |-> pubs, observed |-> observed]

OneDecided(d) ==
    /\ InMode(d, "one")
    /\ GoTo(d, CASE DOMAIN record[d].outbox = {} -> Report("None", {}, {})
                 [] Current(d) # {} -> Publishing(d, Current(d), {})
                 [] OTHER -> Report("NeedsRebase", Stale(d), {}))
    /\ \A pub \in Stale(d) : ~Carried(d, pub)
    /\ UNCHANGED <<live, record, disk, log, late, foreground, bounds, faults>>

\* commit_reconciled_outbox of one publication, with the trusted state as it is.
ReconciledOne(d, pub, head) == RetireOutbox(record[d], {pub}, record[d].trusted_state, head)

OneObserved(d) ==
    /\ InMode(d, "one")
    /\ \E pub \in Stale(d) :
          LET next == ReconciledOne(d, pub, record[d].applied_cursor)
          IN  /\ Carried(d, pub)
              /\ \/ PersistOk(d, next) /\ GoTo(d, Report("ObservedAndReconciled", {pub}, {pub}))
                 \/ PersistErr(d, next) /\ GoTo(d, Idle)
    /\ UNCHANGED <<live, log, late, foreground, bounds>>

-----------------------------------------------------------------------------
(* Resuming with any number: resume_scalar_outbox_set *)

ObservedSet(d) == { pub \in Stale(d) : Carried(d, pub) }

AfterStaleSet(d, unresolved, observed) ==
    CASE unresolved # {} -> Report("NeedsRebase", unresolved, observed)
      [] unresolved = {} /\ Current(d) = {} -> Report("None", {}, observed)
      [] OTHER -> Publishing(d, Current(d), observed)

\* A seeded fault: the publications are reported as retired although the record
\* was not saved.
SetObservedAnyway(d) ==
    LET next == ReconciledRecord(d, ObservedSet(d), record[d].applied_cursor)
    IN  /\ InMode(d, "set")
        /\ ObservedSet(d) # {}
        /\ PersistOk(d, next) \/ PersistErr(d, next)
        /\ GoTo(d, AfterStaleSet(d, Stale(d) \ ObservedSet(d),
                                 pass[d].observed \cup ObservedSet(d)))
        /\ UNCHANGED <<live, log, late, foreground, bounds>>

SetObserved(d) ==
    LET next == ReconciledRecord(d, ObservedSet(d), record[d].applied_cursor)
    IN  /\ InMode(d, "set")
        /\ ObservedSet(d) # {}
        /\ \/ /\ PersistOk(d, next)
              /\ GoTo(d, AfterStaleSet(d, Stale(d) \ ObservedSet(d),
                                       pass[d].observed \cup ObservedSet(d)))
           \/ PersistErr(d, next) /\ GoTo(d, Idle)
        /\ UNCHANGED <<live, log, late, foreground, bounds>>

SetDecided(d) ==
    /\ InMode(d, "set")
    /\ ObservedSet(d) = {}
    /\ GoTo(d, AfterStaleSet(d, Stale(d), pass[d].observed))
    /\ UNCHANGED <<live, record, disk, log, late, foreground, bounds, faults>>

-----------------------------------------------------------------------------
(* Publishing and the second pass *)

\* publish_staged: the bytes and the cursor of one staged publication.
StagedRequest(d, pub) ==
    [ expected |-> {record[d].outbox[pub].expected_cursor},
      publications |-> {[publication_id |-> pub, objects |-> record[d].outbox[pub].objects]} ]

RequestOf(d) ==
    IF pass[d].mode = "one" THEN StagedRequest(d, CHOOSE pub \in pass[d].batch : TRUE)
    ELSE BatchRequest(d)

SingleAccepted(d) ==
    /\ InPass(d, "publish")
    /\ MayCall(d)
    /\ Accepts(RequestOf(d))
    /\ log' = Append(log, RequestOf(d).publications)
    /\ GoTo(d, [step |-> "reconcile", batch |-> pass[d].batch, head |-> LogHead + 1,
                observed |-> pass[d].observed])
    /\ UNCHANGED <<live, record, disk, late, foreground, bounds, faults>>

\* resume_..._bounded: one more pass after the first conflict, none after the
\* second.
SingleConflict(d) ==
    /\ InPass(d, "publish")
    /\ MayCall(d)
    /\ ~Accepts(RequestOf(d))
    /\ GoTo(d, IF pass[d].attempt = 1
               THEN [step |-> "fetch", attempt |-> 2, seal |-> pass[d].seal,
                     mode |-> pass[d].mode, observed |-> pass[d].observed]
               ELSE Report("Conflict", pass[d].batch, pass[d].observed))
    /\ UNCHANGED <<live, record, disk, log, late, foreground, bounds, faults>>

SingleUnanswered(d) ==
    /\ InPass(d, "publish")
    /\ MayCall(d)
    /\ Fault
    /\ late' = late \cup {RequestOf(d)}
    /\ GoTo(d, Idle)
    /\ UNCHANGED <<live, record, disk, log, foreground, bounds>>

SingleReconciled(d) ==
    LET next == ReconciledRecord(d, pass[d].batch, pass[d].head)
    IN  /\ InPass(d, "reconcile")
        /\ \/ /\ PersistOk(d, next)
              /\ GoTo(d, Report("PublishedAndReconciled", pass[d].batch, pass[d].observed))
           \/ PersistErr(d, next) /\ GoTo(d, Idle)
        /\ UNCHANGED <<live, log, late, foreground, bounds>>

\* The caller has read the report.
Acknowledge(d) ==
    /\ InPass(d, "done")
    /\ GoTo(d, Idle)
    /\ UNCHANGED <<live, record, disk, log, late, foreground, bounds, faults>>

-----------------------------------------------------------------------------
(* A fleet of both kinds of devices *)

SingleDomain(d) ==
    \/ \E pub \in FreshPubs(d), ids \in SUBSET IdsOf[d] :
          Selectable(d, DomainOf[d], ids) /\ StageScalar(d, pub, ids)
    \/ \E mode \in {"one", "set"}, keys \in SUBSET Dirty(d) :
          \E seal \in SealChoices(d, keys) : StartSingle(d, mode, seal)
    \/ RefuseMultiple(d)
    \/ SingleUpToDate(d) \/ SingleBaseline(d) \/ SingleEmpty(d)
    \/ SingleReceive(d) \/ SingleRefused(d)
    \/ OneDecided(d) \/ OneObserved(d)
    \/ SetDecided(d) \/ SetObserved(d)
    \/ SingleAccepted(d) \/ SingleConflict(d) \/ SingleUnanswered(d)
    \/ SingleReconciled(d)
    \/ Acknowledge(d)
    \/ TransportError(d) \/ Backgrounded(d)
    \/ RecoverScalar(d)

FleetNext ==
    \/ Network
    \/ \E d \in Device : Application(d)
    \/ \E d \in Single : SingleDomain(d) \/ EnterForeground(d) \/ EnterBackground(d)
    \/ \E d \in Device \ Single : MultiDomain(d) \/ Platform(d)

FleetSpec == Init /\ [][FleetNext]_vars

-----------------------------------------------------------------------------
(* Properties *)

\* What a caller may conclude from a report (ScalarResumeOutboxOutcome,
\* ScalarBatchResumeReport).  A publication it says was observed and retired, in
\* either pass of the cycle and whatever became of the others afterwards, and one
\* it says was published and reconciled, is out of the outbox of every record a
\* restart may find; and in the second case, as when nothing is left to
\* publish, all that such a record counts as handed off and no longer keeps in
\* its outbox is in the transport, at or below that record's own cursor.  The
\* fleet's other publications, faults and lost answers do not change that.
ReportsAreDurable ==
    \A d \in Single : InPass(d, "done") =>
        LET reconciled == pass[d].action \in {"ObservedAndReconciled", "PublishedAndReconciled"}
            told == IF reconciled THEN RecordsOf(d)
                    ELSE IF pass[d].action = "None" THEN {record[d]} ELSE {}
        IN  /\ \A rec \in RecordsOf(d) : pass[d].observed \cap DOMAIN rec.outbox = {}
            /\ \A rec \in told :
                 /\ pass[d].publications \cap DOMAIN rec.outbox = {}
                 /\ \A id \in rec.trusted_state[DomainOf[d]].handed_off :
                      \E objects \in { e.objects : e \in Range(rec.outbox) } \cup
                                     { p.objects : p \in Publications(1 .. rec.applied_cursor) } :
                         DomainOf[d] \in DOMAIN objects /\ id \in DOMAIN objects[DomainOf[d]]

\* The transport holds publications of single devices' domains only.
OneDomainOnly ==
    \A p \in Publications(1 .. LogHead), d \in Single : OnlyExpected(d, p.objects)

\* The cycle as the multi-domain runtime would be in it: its evidence carries
\* registers, and it ends without a report.
MultiPass ==
    [d \in Device |->
        IF d \notin Single THEN pass[d]
        ELSE CASE InPass(d, "done") -> Idle
               [] InPass(d, "fetch") ->
                    [step |-> "fetch", attempt |-> pass[d].attempt, seal |-> pass[d].seal]
               [] InPass(d, "classify") ->
                    [step |-> "classify", attempt |-> pass[d].attempt, seal |-> pass[d].seal,
                     evidence |-> [k \in { x \in {DomainOf[d]} : pass[d].evidence # {} } |->
                                      Restriction(live[d][k].causal, pass[d].evidence)]]
               [] InPass(d, "publish") ->
                    [step |-> "publish", attempt |-> pass[d].attempt, seal |-> pass[d].seal,
                     batch |-> pass[d].batch]
               [] InPass(d, "reconcile") ->
                    [step |-> "reconcile", batch |-> pass[d].batch, head |-> pass[d].head]
               [] OTHER -> pass[d]]

Multi == INSTANCE SyncRuntime WITH pass <- MultiPass

\* As long as nobody publishes another domain, the single-domain runtime, in
\* either mode, is the multi-domain one on a container of one domain: every
\* step of it is one that the other could take, so that what is proved or
\* checked of the one holds of the other (resume.rs, resume_batch.rs against
\* resume_recovery_batch.rs).
ImplementsMultiDomain == Multi!Init /\ [][OneDomainOnly => Multi!Next]_(Multi!vars)

=============================================================================
