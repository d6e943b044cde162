----------------------------- MODULE SyncRecord -----------------------------
(***************************************************************************)
(* What a device recovers from: the container of local domains             *)
(* (LocalScalarRecoveryState), the projections it publishes and receives   *)
(* (SyncProjection), and the durable record that holds the container with  *)
(* the transport cursor and the outbox (DurableSyncRecord).                *)
(*                                                                         *)
(* Encoding and encryption are left out: trusted_state is the container it *)
(* decodes to, and an outbox entry's objects are the projection they carry *)
(* (prepare_recovery_handoff makes one single-part object of it).          *)
(***************************************************************************)
EXTENDS LocalScalarDomain, FiniteSets

CONSTANTS
    DomainKey,        \* merge domains: an atom and a field of it
    PublicationId

\* SyncProjection: some domains and the register each carries.
Projections == UNION { [K -> Registers] : K \in SUBSET DomainKey }

\* LocalScalarRecoveryState
Containers == UNION { [K -> Domains] : K \in SUBSET DomainKey }

Cursors == Nat

OutboxEntry == [expected_cursor : Cursors, objects : Projections]

Records ==
    [ trusted_state  : Containers,
      applied_cursor : Cursors,
      outbox         : UNION { [P -> OutboxEntry] : P \in SUBSET PublicationId } ]

-----------------------------------------------------------------------------
(* Projections *)

\* The domains a set of projections touches.
TouchedBy(projections) == UNION { DOMAIN p : p \in projections }

\* The codec of projections checks every register it writes and every one it
\* reads: each carried revision comes with its whole history.
ProjectionEncodes(p) == \A k \in DOMAIN p : Valid(p[k])

ProjectionDecodes(p) == \A k \in DOMAIN p : Valid(p[k])

\* SyncProjection::merge over a fetched range succeeds.
CanCombine(projections) ==
    \A p, q \in projections :
        \A k \in DOMAIN p \cap DOMAIN q : Compatible(p[k], q[k])

\* What it yields, in whatever order the projections are merged.
Combined(projections) ==
    [k \in TouchedBy(projections) |->
        LET regs == { p[k] : p \in { q \in projections : k \in DOMAIN q } }
        IN  [id \in UNION { DOMAIN g : g \in regs } |->
                (CHOOSE g \in regs : id \in DOMAIN g)[id]]]

\* Seeded faults: it is enough that the domain changed; it is enough that one
\* carried revision arrived.
ProjectionDomainObserved(p, evidence) == DOMAIN p \subseteq DOMAIN evidence

ProjectionPartlyObserved(p, evidence) ==
    \A k \in DOMAIN p : k \in DOMAIN evidence /\ DOMAIN p[k] \cap DOMAIN evidence[k] # {}

\* projection_is_observed: per domain, every carried revision identity is in
\* the evidence.
ProjectionIsObserved(p, evidence) ==
    \A k \in DOMAIN p : k \in DOMAIN evidence /\ DOMAIN p[k] \subseteq DOMAIN evidence[k]

-----------------------------------------------------------------------------
(* The container.  "seal" gives each dirty domain the revision identity it *)
(* is to be sealed with (pre_observation_revision_ids).                    *)

RestorableContainer(c) == \A k \in DOMAIN c : Restorable(c[k])

\* The snapshot codec restores every snapshot it writes, and every one it reads;
\* the container codec repeats that for each domain.
SnapshotEncodes(domain) == Restorable(domain)

SnapshotDecodes(domain) == Restorable(domain)

TrustedStateEncodes(c) == \A k \in DOMAIN c : SnapshotEncodes(c[k])

TrustedStateDecodes(c) == \A k \in DOMAIN c : SnapshotDecodes(c[k])

SealIdOf(seal, k) == IF k \in DOMAIN seal THEN {seal[k]} ELSE {}

\* Every touched domain can be restored, observed and put back.
CanObserveProjection(c, remote, seal) ==
    \A k \in DOMAIN remote :
        IF k \in DOMAIN c
        THEN Restorable(c[k]) /\ CanObserveRemote(c[k], remote[k], SealIdOf(seal, k))
        ELSE Valid(remote[k])

\* Seeded faults: dirty work is not sealed first; an unknown domain is skipped.
ObserveProjectionUnsealed(c, remote, seal) ==
    [k \in DOMAIN c \cup DOMAIN remote |->
        IF k \notin DOMAIN remote THEN c[k]
        ELSE IF k \in DOMAIN c THEN [c[k] EXCEPT !.causal = MergeUnion(@, remote[k])]
        ELSE FromCausal(remote[k])]

ObserveProjectionKnownOnly(c, remote, seal) ==
    [k \in DOMAIN c |->
        IF k \in DOMAIN remote THEN ObserveRemote(c[k], remote[k], SealIdOf(seal, k)) ELSE c[k]]

\* Each touched domain crosses its own observation boundary; a domain this
\* device never had starts from the remote register; the others are left.
ObserveProjection(c, remote, seal) ==
    [k \in DOMAIN c \cup DOMAIN remote |->
        IF k \notin DOMAIN remote THEN c[k]
        ELSE IF k \in DOMAIN c THEN ObserveRemote(c[k], remote[k], SealIdOf(seal, k))
        ELSE FromCausal(remote[k])]

\* prepare_recovery_handoff and stage_prepared_recovery_handoff: "selected"
\* gives for each domain of the publication the revisions to publish.
CanHandoffSelected(c, selected) ==
    /\ DOMAIN selected # {}
    /\ \A k \in DOMAIN selected :
          /\ k \in DOMAIN c
          /\ selected[k] # {}
          /\ Restorable(c[k])
          /\ CanHandoff(c[k], selected[k])

\* A seeded fault: bytes are staged and exposure is not recorded.
HandoffNotRecorded(c, selected) == c

HandoffSelected(c, selected) ==
    [k \in DOMAIN c |-> IF k \in DOMAIN selected THEN Handoff(c[k], selected[k]) ELSE c[k]]

PreparedProjection(c, selected) ==
    [k \in DOMAIN selected |-> ExportedRegister(c[k], selected[k])]

-----------------------------------------------------------------------------
(* The record *)

\* DurableSyncRecord::new
NewRecord(container, cursor) ==
    [ trusted_state |-> container, applied_cursor |-> cursor,
      outbox |-> [p \in {} |-> [expected_cursor |-> 0, objects |-> {}]] ]

\* EmptyOutbox, EmptyOutboxObject: an entry carries something.
ValidateObjects(entry) == DOMAIN entry.objects # {}

\* prepare_outbox returns Ok: the identity is free, or names this very entry.
CanPrepareOutbox(rec, pub, entry) ==
    /\ ValidateObjects(entry)
    /\ pub \in DOMAIN rec.outbox => rec.outbox[pub] = entry

\* decode_durable_sync_record accepts the bytes encode_durable_sync_record wrote.
RecordDecodes(rec) == \A p \in DOMAIN rec.outbox : ValidateObjects(rec.outbox[p])

PrepareOutbox(rec, state, pub, entry) ==
    [rec EXCEPT !.trusted_state = state,
                !.outbox = [p \in DOMAIN @ \cup {pub} |-> IF p = pub THEN entry ELSE @[p]]]

\* A seeded fault: the cursor is saved without the state it goes with.
ApplyReceivedCursorOnly(rec, state, cursor) == [rec EXCEPT !.applied_cursor = cursor]

ApplyReceived(rec, state, cursor) ==
    [rec EXCEPT !.trusted_state = state, !.applied_cursor = cursor]

\* A seeded fault: the cursor is one past the head that was acknowledged.
RetireOutboxPastHead(rec, pubs, state, cursor) ==
    [rec EXCEPT !.trusted_state = state, !.applied_cursor = cursor + 1,
                !.outbox = [p \in DOMAIN @ \ pubs |-> @[p]]]

\* retire_outbox of each of a set of pending publications.
RetireOutbox(rec, pubs, state, cursor) ==
    [rec EXCEPT !.trusted_state = state, !.applied_cursor = cursor,
                !.outbox = [p \in DOMAIN @ \ pubs |-> @[p]]]

=============================================================================
