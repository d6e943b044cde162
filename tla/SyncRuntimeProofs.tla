------------------------- MODULE SyncRuntimeProofs -------------------------
(***************************************************************************)
(* Theorems about SyncRuntime for any set of devices, domains, identities, *)
(* values and bounds, as long as no two devices mint the same identity     *)
(* (RuntimeAssumption).                                                    *)
(*                                                                         *)
(* A restart may replace the record in memory by any record the disk may   *)
(* hold, so the invariant is about each of these records on its own        *)
(* (DurableInv), and also about the live container, which the next persist *)
(* will put beside the cursor and the outbox.  What ties a device to the   *)
(* others is that the revisions it sees on the transport are exposed by    *)
(* their author (WireInv), and that the records on a disk have all that    *)
(* the record in memory has (Grows).                                       *)
(***************************************************************************)
EXTENDS SyncRuntime, OperatorProofs, TLAPS

-----------------------------------------------------------------------------
(* The invariant *)

\* The publications of the first n commits.
Prefix(L, n) == UNION { L[i] : i \in 1 .. n }

Everything(L) == Prefix(L, Len(L))

PublicationIds(pubs) == { p.publication_id : p \in pubs }

\* Every domain of the projection carries a revision.
CarriesAll(objects) == \A k \in DOMAIN objects : DOMAIN objects[k] # {}

GoodPublications(pubs) ==
    \A p \in pubs :
        /\ p \in [publication_id : PublicationId, objects : Projections]
        /\ ProjectionDecodes(p.objects)
        /\ CarriesAll(p.objects)

Carries(objects, k, id) == k \in DOMAIN objects /\ id \in DOMAIN objects[k]

\* One of the publications carries the revision with this statement.
States(pubs, k, id, revision) ==
    \E p \in pubs : Carries(p.objects, k, id) /\ p.objects[k][id] = revision

\* A domain of d: what it holds is restorable; what it exposed is frozen; its
\* own revisions are registered; the others came from the transport.
DomainInv(d, k, n, pubs) ==
    /\ WellFormed(n)
    /\ n.exposed \subseteq DOMAIN n.finalized
    /\ DOMAIN n.causal \cap IdsOf[d] \subseteq n.local
    /\ \A id \in DOMAIN n.causal \ IdsOf[d] : States(pubs, k, id, n.causal[id])

ContainerInv(d, c, pubs) ==
    /\ DOMAIN c \subseteq DomainKey
    /\ \A k \in DOMAIN c : DomainInv(d, k, c[k], pubs)

\* Container c holds every revision of the projection.
Contains(c, objects) ==
    \A k \in DOMAIN objects : k \in DOMAIN c /\ Extended(objects[k], c[k].causal)

\* A staged publication: whole, contained, and exposed where it is d's own.
EntryInv(d, c, entry) ==
    /\ entry \in OutboxEntry
    /\ ProjectionDecodes(entry.objects)
    /\ DOMAIN entry.objects # {}
    /\ CarriesAll(entry.objects)
    /\ Contains(c, entry.objects)
    /\ \A k \in DOMAIN entry.objects : DOMAIN entry.objects[k] \cap IdsOf[d] \subseteq c[k].exposed

OutboxInv(d, c, outbox) ==
    /\ DOMAIN outbox \subseteq PubsOf[d]
    /\ \A p \in DOMAIN outbox : EntryInv(d, c, outbox[p])

\* An entry whose identity is on the transport expects an earlier head, so
\* that it cannot be accepted again.
ClaimsInv(outbox, cursor, L) ==
    \A p \in DOMAIN outbox :
        /\ outbox[p].expected_cursor <= cursor
        /\ p \in PublicationIds(Everything(L)) => outbox[p].expected_cursor < Len(L)

\* What was handed off waits in the outbox or is in one of the publications.
HandedInv(c, outbox, pubs) ==
    \A k \in DOMAIN c : \A id \in c[k].handed_off :
        \/ \E p \in DOMAIN outbox : Carries(outbox[p].objects, k, id)
        \/ \E p \in pubs : Carries(p.objects, k, id)

\* What every durable record of d satisfies, and the live container beside the
\* cursor and the outbox in memory.
DurableInv(d, c, cursor, outbox, L) ==
    /\ cursor \in 0 .. Len(L)
    /\ ContainerInv(d, c, Everything(L))
    /\ \A p \in Prefix(L, cursor) : Contains(c, p.objects)
    /\ OutboxInv(d, c, outbox)
    /\ ClaimsInv(outbox, cursor, L)
    /\ HandedInv(c, outbox, Prefix(L, cursor))

\* rec has the fields of a DurableSyncRecord.
IsRecord(rec) ==
    rec = [trusted_state |-> rec.trusted_state, applied_cursor |-> rec.applied_cursor,
           outbox |-> rec.outbox]

RecordInv(d, rec, L) ==
    /\ IsRecord(rec)
    /\ DurableInv(d, rec.trusted_state, rec.applied_cursor, rec.outbox, L)

\* Container e has all of c: no revision, statement or exposure is lost.
Grows(c, e) ==
    /\ DOMAIN c \subseteq DOMAIN e
    /\ \A k \in DOMAIN c :
          Extended(c[k].causal, e[k].causal) /\ c[k].exposed \subseteq e[k].exposed

\* The identities the caller named can be used.
SealsUsable(d) ==
    \A k \in DOMAIN pass[d].seal :
        /\ k \in DOMAIN live[d]
        /\ pass[d].seal[k] \in IdsOf[d]
        /\ CanSeal(live[d][k], pass[d].seal[k])

\* What a pass relies on where it is.
PassInv(d) ==
    /\ pass[d].step \in PassSteps
    /\ InPass(d, "fetch") => SealsUsable(d)
    /\ InPass(d, "classify") =>
          /\ \A k \in DOMAIN pass[d].evidence : \A id \in DOMAIN pass[d].evidence[k] :
                \E p \in Prefix(log, record[d].applied_cursor) : Carries(p.objects, k, id)
          /\ Current(d) # {} => SealsUsable(d)
    /\ InPass(d, "publish") =>
          SealsUsable(d) /\ pass[d].batch \subseteq DOMAIN record[d].outbox
    /\ InPass(d, "reconcile") =>
          /\ pass[d].batch \subseteq DOMAIN record[d].outbox
          /\ pass[d].head = record[d].applied_cursor + 1
          /\ pass[d].head \in 1 .. LogHead
          /\ log[pass[d].head] =
                { [publication_id |-> p, objects |-> record[d].outbox[p].objects] :
                    p \in pass[d].batch }

DeviceInv(d) ==
    /\ record[d] \in disk[d]
    /\ \A rec \in disk[d] :
          RecordInv(d, rec, log) /\ Grows(record[d].trusted_state, rec.trusted_state)
    /\ DurableInv(d, live[d], record[d].applied_cursor, record[d].outbox, log)
    /\ Grows(record[d].trusted_state, live[d])
    /\ PassInv(d)

\* The publications that left a device.
Sent == Everything(log) \cup UNION { q.publications : q \in late }

\* d's memory exposes the revision with this statement.
Exposes(d, k, id, revision) ==
    /\ id \in IdsOf[d]
    /\ k \in DOMAIN record[d].trusted_state
    /\ id \in record[d].trusted_state[k].exposed
    /\ record[d].trusted_state[k].causal[id] = revision

\* Every revision that left a device is exposed by its author.
WireInv ==
    \A p \in Sent : \A k \in DOMAIN p.objects : \A id \in DOMAIN p.objects[k] :
        \E d \in Device : Exposes(d, k, id, p.objects[k][id])

\* No publication identity is in two commits.
Distinct(L) ==
    \A i, j \in 1 .. Len(L) :
        i # j => PublicationIds(L[i]) \cap PublicationIds(L[j]) = {}

\* A request under way would not publish an identity again.
LateInv(request) ==
    /\ GoodPublications(request.publications)
    /\ request.expected \subseteq 0 .. LogHead
    /\ Accepts(request) =>
          PublicationIds(request.publications) \cap PublicationIds(Everything(log)) = {}

TransportInv ==
    /\ log \in Seq(SUBSET [publication_id : PublicationId, objects : Projections])
    /\ GoodPublications(Everything(log))
    /\ Distinct(log)
    /\ \A q \in late : LateInv(q)
    /\ WireInv

ShapeInv ==
    /\ DOMAIN live = Device /\ DOMAIN record = Device
    /\ DOMAIN disk = Device /\ DOMAIN pass = Device
    /\ foreign \in 0 .. MaxForeign /\ faults \in 0 .. MaxFaults /\ switches \in 0 .. MaxSwitches

RuntimeInv ==
    /\ ShapeInv
    /\ TransportInv
    /\ \A d \in Device : DeviceInv(d)

-----------------------------------------------------------------------------
(* One domain *)

\* A method that seals own identities, registers them, merges revisions of the
\* transport and keeps the exposure frozen preserves the domain's invariant.
LEMMA DomainGrows ==
    ASSUME NEW d, NEW k, NEW m, NEW n, NEW pubs, NEW new, NEW remote,
           DomainInv(d, k, m, pubs), WellFormed(n), Grown(m, n, new, remote),
           new \subseteq IdsOf[d], new \subseteq n.local,
           DOMAIN remote \cap IdsOf[d] \subseteq m.local,
           \A id \in DOMAIN remote \ IdsOf[d] : States(pubs, k, id, remote[id]),
           n.exposed \subseteq DOMAIN n.finalized
    PROVE  DomainInv(d, k, n, pubs) /\ Extended(m.causal, n.causal)
<1>1. /\ Extended(m.causal, n.causal)
      /\ Extended(remote, n.causal)
      /\ DOMAIN n.causal = DOMAIN m.causal \cup new \cup DOMAIN remote
      /\ m.local \subseteq n.local
  BY DEF Grown
<1>2. DOMAIN n.causal \cap IdsOf[d] \subseteq n.local
  BY <1>1 DEF DomainInv
<1>3. ASSUME NEW id \in DOMAIN n.causal \ IdsOf[d]
      PROVE  States(pubs, k, id, n.causal[id])
  <2>1. CASE id \in DOMAIN m.causal
    BY <2>1, <1>1, <1>3 DEF DomainInv, Extended
  <2>2. CASE id \in DOMAIN remote
    BY <2>2, <1>1, <1>3 DEF Extended
  <2> QED
    BY <2>1, <2>2, <1>1, <1>3
<1> QED
  BY <1>1, <1>2, <1>3 DEF DomainInv

\* begin_epoch
LEMMA DomainBegin ==
    ASSUME NEW d, NEW k, NEW m, NEW pubs, DomainInv(d, k, m, pubs),
           NEW value \in Value, CanBeginEpoch(m)
    PROVE  /\ DomainInv(d, k, BeginEpoch(m, value), pubs)
           /\ Extended(m.causal, BeginEpoch(m, value).causal)
           /\ BeginEpoch(m, value).exposed = m.exposed
           /\ BeginEpoch(m, value).handed_off = m.handed_off
<1> DEFINE n == BeginEpoch(m, value)
<1>1. m \in Domains /\ WellFormed(m) /\ m.exposed \subseteq DOMAIN m.finalized
  BY DEF DomainInv, WellFormed
<1>2. n.exposed = m.exposed /\ n.handed_off = m.handed_off /\ n.finalized = m.finalized
  BY <1>1 DEF BeginEpoch, Domains
<1>3. Grown(m, n, {}, EmptyRegister)
  BY <1>1, LedgerMethodsGrowNothing
<1>4. WellFormed(n)
  BY <1>1, BeginEpochWellFormed
<1> HIDE DEF n
<1>5. DomainInv(d, k, n, pubs) /\ Extended(m.causal, n.causal)
  BY <1>1, <1>2, <1>3, <1>4, DomainGrows, EmptyRegisterValid
<1> QED
  BY <1>2, <1>5 DEF n

\* seal_local
LEMMA DomainSeal ==
    ASSUME NEW d, NEW k, NEW m, NEW pubs, DomainInv(d, k, m, pubs),
           IdsOf[d] \subseteq RevisionId, NEW id \in IdsOf[d], CanSeal(m, id)
    PROVE  /\ DomainInv(d, k, SealLocal(m, id), pubs)
           /\ Extended(m.causal, SealLocal(m, id).causal)
           /\ SealLocal(m, id).exposed = m.exposed
           /\ SealLocal(m, id).handed_off = m.handed_off
<1> DEFINE n == SealLocal(m, id)
<1>1. m \in Domains /\ WellFormed(m) /\ m.exposed \subseteq DOMAIN m.finalized
  BY DEF DomainInv, WellFormed
<1>2. n.exposed = m.exposed /\ n.handed_off = m.handed_off /\ n.finalized = m.finalized
  BY <1>1 DEF SealLocal, RegisterLocal, Seal, Domains
<1>3. Grown(m, n, {id}, EmptyRegister) /\ {id} \subseteq n.local
  BY <1>1, SealLocalGrows
<1>4. WellFormed(n)
  BY <1>1, SealLocalWellFormed
<1> HIDE DEF n
<1>5. DomainInv(d, k, n, pubs) /\ Extended(m.causal, n.causal)
  BY <1>1, <1>2, <1>3, <1>4, DomainGrows, EmptyRegisterValid
<1> QED
  BY <1>2, <1>5 DEF n

\* finalize
LEMMA DomainFinalize ==
    ASSUME NEW d, NEW k, NEW m, NEW pubs, DomainInv(d, k, m, pubs),
           NEW id \in RevisionId, CanFinalize(m, id)
    PROVE  /\ DomainInv(d, k, Finalize(m, id), pubs)
           /\ Extended(m.causal, Finalize(m, id).causal)
           /\ Finalize(m, id).exposed = m.exposed
           /\ Finalize(m, id).handed_off = m.handed_off
<1> DEFINE n == Finalize(m, id)
<1>1. m \in Domains /\ WellFormed(m) /\ m.exposed \subseteq DOMAIN m.finalized
  BY DEF DomainInv, WellFormed
<1>2. /\ n.exposed = m.exposed /\ n.handed_off = m.handed_off
      /\ DOMAIN m.finalized \subseteq DOMAIN n.finalized
  BY <1>1 DEF Finalize, InsertRevision, Domains
<1>3. Grown(m, n, {}, EmptyRegister)
  BY <1>1, LedgerMethodsGrowNothing
<1>4. WellFormed(n)
  BY <1>1, FinalizeWellFormed
<1> HIDE DEF n
<1>5. DomainInv(d, k, n, pubs) /\ Extended(m.causal, n.causal)
  BY <1>1, <1>2, <1>3, <1>4, DomainGrows, EmptyRegisterValid
<1> QED
  BY <1>2, <1>5 DEF n

\* handoff of a selection exposes the local part of its history, all of it
\* frozen.
LEMMA DomainHandoff ==
    ASSUME NEW d, NEW k, NEW m, NEW pubs, DomainInv(d, k, m, pubs),
           NEW ids, CanHandoff(m, ids)
    PROVE  /\ DomainInv(d, k, Handoff(m, ids), pubs)
           /\ Handoff(m, ids).causal = m.causal
           /\ m.exposed \subseteq Handoff(m, ids).exposed
           /\ DependencyClosure(m.causal, ids) \cap IdsOf[d] \subseteq Handoff(m, ids).exposed
           /\ Handoff(m, ids).handed_off = m.handed_off \cup (ids \cap m.local)
           /\ ids \subseteq DependencyClosure(m.causal, ids)
<1> DEFINE n == Handoff(m, ids)
           C == DependencyClosure(m.causal, ids)
<1>1. /\ m \in Domains /\ WellFormed(m) /\ m.exposed \subseteq DOMAIN m.finalized
      /\ DOMAIN m.causal \cap IdsOf[d] \subseteq m.local
  BY DEF DomainInv, WellFormed
<1>2. /\ n.causal = m.causal /\ n.finalized = m.finalized
      /\ n.exposed = m.exposed \cup (C \cap m.local)
      /\ n.handed_off = m.handed_off \cup (ids \cap m.local)
  BY <1>1 DEF Handoff, Domains
<1>3. Grown(m, n, {}, EmptyRegister)
  BY <1>1, LedgerMethodsGrowNothing
<1>4. WellFormed(n)
  BY <1>1, HandoffWellFormed
<1>5. C \cap m.local \subseteq DOMAIN m.finalized /\ ids \in SUBSET DOMAIN m.causal
  BY DEF CanHandoff
<1>6. C \subseteq DOMAIN m.causal /\ ids \subseteq C
  BY <1>1, <1>5, WellFormedFields, ClosureClosed
<1> HIDE DEF n, C
<1>7. n.exposed \subseteq DOMAIN n.finalized
  BY <1>1, <1>2, <1>5
<1>8. DomainInv(d, k, n, pubs)
  BY <1>3, <1>4, <1>7, DomainGrows, EmptyRegisterValid
<1>9. C \cap IdsOf[d] \subseteq n.exposed
  BY <1>1, <1>2, <1>6
<1> QED
  BY <1>2, <1>6, <1>8, <1>9 DEF n, C

\* observe_remote: dirty work is sealed and registered, the remote register
\* merged; exposure and handoff are left alone.
LEMMA DomainObserve ==
    ASSUME NEW d, NEW k, NEW m, NEW pubs, DomainInv(d, k, m, pubs),
           NEW remote \in Registers, NEW pre,
           pre = {} \/ \E id \in RevisionId : pre = {id},
           pre \subseteq IdsOf[d],
           CanObserveRemote(m, remote, pre),
           DOMAIN remote \cap IdsOf[d] \subseteq m.local,
           \A id \in DOMAIN remote \ IdsOf[d] : States(pubs, k, id, remote[id])
    PROVE  /\ DomainInv(d, k, ObserveRemote(m, remote, pre), pubs)
           /\ Extended(m.causal, ObserveRemote(m, remote, pre).causal)
           /\ Extended(remote, ObserveRemote(m, remote, pre).causal)
           /\ ObserveRemote(m, remote, pre).exposed = m.exposed
           /\ ObserveRemote(m, remote, pre).handed_off = m.handed_off
<1> DEFINE b == BeforeMerge(m, pre)
           n == ObserveRemote(m, remote, pre)
<1>1. m \in Domains /\ WellFormed(m) /\ m.exposed \subseteq DOMAIN m.finalized
  BY DEF DomainInv, WellFormed
<1>2. /\ b \in Domains
      /\ b.exposed = m.exposed /\ b.handed_off = m.handed_off /\ b.finalized = m.finalized
  <2>1. b \in Domains
    BY <1>1, BeforeMergeWellFormed DEF CanObserveRemote, WellFormed
  <2>2. CASE pre = {}
    BY <2>1, <2>2 DEF BeforeMerge
  <2>3. CASE pre # {}
    <3>1. b = Seal(m, CHOOSE id \in pre : TRUE)
      BY <2>3 DEF BeforeMerge
    <3> QED
      BY <2>1, <3>1, <1>1 DEF Seal, Domains
  <2> QED
    BY <2>2, <2>3
<1>3. Grown(m, n, pre, remote) /\ pre \subseteq n.local
  BY <1>1, ObserveRemoteGrows
<1>4. WellFormed(n)
  BY <1>1, ObserveRemoteWellFormed
<1>5. n.exposed = m.exposed /\ n.handed_off = m.handed_off /\ n.finalized = m.finalized
  <2> HIDE DEF b
  <2>1. n = RegisterLocal([b EXCEPT !.causal = MergeUnion(@, remote)], pre)
    BY DEF ObserveRemote, b
  <2> QED
    BY <1>2, <2>1 DEF RegisterLocal, Domains
<1> HIDE DEF n, b
<1>6. DomainInv(d, k, n, pubs) /\ Extended(m.causal, n.causal)
  BY <1>1, <1>3, <1>4, <1>5, DomainGrows
<1>7. Extended(remote, n.causal)
  BY <1>3 DEF Grown
<1> QED
  BY <1>5, <1>6, <1>7 DEF n

\* A domain that starts from a remote register with nothing of d's own.
LEMMA DomainFromCausal ==
    ASSUME NEW d, NEW k, NEW pubs, NEW remote \in Registers, Valid(remote),
           DOMAIN remote \cap IdsOf[d] = {},
           \A id \in DOMAIN remote \ IdsOf[d] : States(pubs, k, id, remote[id])
    PROVE  /\ DomainInv(d, k, FromCausal(remote), pubs)
           /\ FromCausal(remote).causal = remote
           /\ FromCausal(remote).handed_off = {}
<1> DEFINE n == FromCausal(remote)
<1>1. WellFormed(n)
  BY FromCausalWellFormed
<1>2. n.causal = remote /\ n.exposed = {} /\ n.handed_off = {}
  BY DEF FromCausal
<1> HIDE DEF n
<1>3. DomainInv(d, k, n, pubs)
  BY <1>1, <1>2 DEF DomainInv
<1> QED
  BY <1>2, <1>3 DEF n

\* A domain keeps its invariant when more is on the transport.
LEMMA DomainMorePublications ==
    ASSUME NEW d, NEW k, NEW m, NEW pubs, NEW more, pubs \subseteq more,
           DomainInv(d, k, m, pubs)
    PROVE  DomainInv(d, k, m, more)
BY DEF DomainInv, States

-----------------------------------------------------------------------------
(* Projections *)

\* A projection is a function from domains to registers.
LEMMA ProjectionType ==
    ASSUME NEW p \in Projections
    PROVE  /\ DOMAIN p \subseteq DomainKey
           /\ \A k \in DOMAIN p : p[k] \in Registers
BY DEF Projections

\* A function from some domains to registers is a projection.
LEMMA ProjectionIntro ==
    ASSUME NEW K \in SUBSET DomainKey, NEW p \in [K -> Registers]
    PROVE  p \in Projections
BY DEF Projections

\* SyncProjection::merge over a range: the domains and the revisions of all of
\* them, each with a statement that one of them makes.
LEMMA CombinedContents ==
    ASSUME NEW P, P \subseteq Projections
    PROVE  /\ DOMAIN Combined(P) = TouchedBy(P)
           /\ \A k \in TouchedBy(P) :
                 /\ Combined(P)[k] \in Registers
                 /\ \A id \in DOMAIN Combined(P)[k] :
                       \E p \in P : Carries(p, k, id) /\ Combined(P)[k][id] = p[k][id]
                 /\ \A p \in P : \A id : Carries(p, k, id) => id \in DOMAIN Combined(P)[k]
<1>1. DOMAIN Combined(P) = TouchedBy(P)
  BY DEF Combined
<1>2. ASSUME NEW k \in TouchedBy(P)
      PROVE  /\ Combined(P)[k] \in Registers
             /\ \A id \in DOMAIN Combined(P)[k] :
                   \E p \in P : Carries(p, k, id) /\ Combined(P)[k][id] = p[k][id]
             /\ \A p \in P : \A id : Carries(p, k, id) => id \in DOMAIN Combined(P)[k]
  <2> DEFINE regs == { p[k] : p \in { q \in P : k \in DOMAIN q } }
             all == UNION { DOMAIN g : g \in regs }
             u == [id \in all |-> (CHOOSE g \in regs : id \in DOMAIN g)[id]]
  <2>1. Combined(P)[k] = u
    BY <1>2 DEF Combined
  <2>2. \A g \in regs : g \in Registers
    BY ProjectionType
  <2>3. \A g \in regs : \E p \in P : k \in DOMAIN p /\ g = p[k]
    OBVIOUS
  <2>4. \A p \in P : k \in DOMAIN p => p[k] \in regs
    OBVIOUS
  <2> HIDE DEF regs
  <2>5. DOMAIN u = all
    OBVIOUS
  <2>6. ASSUME NEW id \in all
        PROVE  \E g \in regs : id \in DOMAIN g /\ u[id] = g[id]
    <3>1. \E g \in regs : id \in DOMAIN g
      BY <2>6
    <3> DEFINE h == CHOOSE g \in regs : id \in DOMAIN g
    <3>2. h \in regs /\ id \in DOMAIN h
      BY <3>1
    <3>3. u[id] = h[id]
      BY <2>6
    <3> QED
      BY <3>2, <3>3
  <2>7. \A g \in regs : \A id \in DOMAIN g : id \in all
    OBVIOUS
  <2>8. u \in Registers
    <3>1. all \in SUBSET RevisionId
      BY <2>2, RegisterType
    <3>2. ASSUME NEW id \in all PROVE u[id] \in Revision
      BY <2>2, <2>6, <3>2, RegisterType
    <3>3. u \in [all -> Revision]
      BY <3>2
    <3> HIDE DEF u, all
    <3> QED
      BY <3>1, <3>3, RegisterIntro
  <2> HIDE DEF u, all
  <2> QED
    BY <2>1, <2>3, <2>4, <2>5, <2>6, <2>7, <2>8 DEF Carries
<1> QED
  BY <1>1, <1>2

\* When the projections agree, the result makes the statement of each of them.
LEMMA CombinedAgrees ==
    ASSUME NEW P, P \subseteq Projections, CanCombine(P),
           NEW p \in P, NEW k \in DOMAIN p
    PROVE  k \in TouchedBy(P) /\ Extended(p[k], Combined(P)[k])
<1>1. k \in TouchedBy(P)
  BY DEF TouchedBy
<1>2. DOMAIN p[k] \subseteq DOMAIN Combined(P)[k]
  BY <1>1, CombinedContents DEF Carries
<1>3. ASSUME NEW id \in DOMAIN p[k] PROVE Combined(P)[k][id] = p[k][id]
  <2>1. PICK q \in P : Carries(q, k, id) /\ Combined(P)[k][id] = q[k][id]
    BY <1>1, <1>2, <1>3, CombinedContents
  <2> QED
    BY <2>1, <1>3 DEF CanCombine, Compatible, Carries
<1> QED
  BY <1>1, <1>2, <1>3 DEF Extended

-----------------------------------------------------------------------------
(* Containers and outboxes that grow *)

\* A container has all it has.
LEMMA GrowsReflexive ==
    ASSUME NEW c
    PROVE  Grows(c, c)
BY DEF Grows, Extended

\* Containers that grow step by step have grown.
LEMMA GrowsTransitive ==
    ASSUME NEW c, NEW e, NEW f, Grows(c, e), Grows(e, f)
    PROVE  Grows(c, f)
BY DEF Grows, Extended

\* What a container holds, a larger one holds.
LEMMA ContainsGrows ==
    ASSUME NEW c, NEW e, Grows(c, e), NEW objects, Contains(c, objects)
    PROVE  Contains(e, objects)
BY DEF Grows, Contains, Extended

\* A larger container still holds and exposes every staged publication.
LEMMA OutboxGrows ==
    ASSUME NEW d, NEW c, NEW e, Grows(c, e), NEW outbox, OutboxInv(d, c, outbox)
    PROVE  OutboxInv(d, e, outbox)
<1>1. ASSUME NEW p \in DOMAIN outbox PROVE EntryInv(d, e, outbox[p])
  <2>1. EntryInv(d, c, outbox[p])
    BY <1>1 DEF OutboxInv
  <2>2. Contains(e, outbox[p].objects)
    BY <2>1, ContainsGrows DEF EntryInv
  <2>3. ASSUME NEW k \in DOMAIN outbox[p].objects
        PROVE  DOMAIN outbox[p].objects[k] \cap IdsOf[d] \subseteq e[k].exposed
    <3>1. k \in DOMAIN c
      BY <2>1, <2>3 DEF EntryInv, Contains
    <3> QED
      BY <2>1, <2>3, <3>1 DEF EntryInv, Grows
  <2> QED
    BY <2>1, <2>2, <2>3 DEF EntryInv
<1> QED
  BY <1>1 DEF OutboxInv

\* A larger container beside the same cursor and outbox.
LEMMA DurableGrows ==
    ASSUME NEW d, NEW c, NEW e, NEW cursor, NEW outbox, NEW L,
           DurableInv(d, c, cursor, outbox, L), Grows(c, e),
           ContainerInv(d, e, Everything(L)), HandedInv(e, outbox, Prefix(L, cursor))
    PROVE  DurableInv(d, e, cursor, outbox, L)
<1>1. \A p \in Prefix(L, cursor) : Contains(e, p.objects)
  BY ContainsGrows DEF DurableInv
<1>2. OutboxInv(d, e, outbox)
  BY OutboxGrows DEF DurableInv
<1> QED
  BY <1>1, <1>2 DEF DurableInv

\* Editing one domain: no handoff happens.
LEMMA DurableEdit ==
    ASSUME NEW d, NEW c, NEW cursor, NEW outbox, NEW L,
           DurableInv(d, c, cursor, outbox, L),
           NEW k \in DOMAIN c, NEW n,
           DomainInv(d, k, n, Everything(L)), Extended(c[k].causal, n.causal),
           n.exposed = c[k].exposed, n.handed_off = c[k].handed_off
    PROVE  /\ DurableInv(d, [c EXCEPT ![k] = n], cursor, outbox, L)
           /\ Grows(c, [c EXCEPT ![k] = n])
<1> DEFINE e == [c EXCEPT ![k] = n]
<1>1. DOMAIN e = DOMAIN c /\ e[k] = n /\ \A j \in DOMAIN c : j # k => e[j] = c[j]
  OBVIOUS
<1> HIDE DEF e
<1>2. Grows(c, e)
  BY <1>1 DEF Grows, Extended
<1>3. ContainerInv(d, e, Everything(L))
  BY <1>1 DEF DurableInv, ContainerInv
<1>4. HandedInv(e, outbox, Prefix(L, cursor))
  BY <1>1 DEF DurableInv, HandedInv
<1>5. DurableInv(d, e, cursor, outbox, L)
  BY <1>2, <1>3, <1>4, DurableGrows
<1> QED
  BY <1>2, <1>5 DEF e

-----------------------------------------------------------------------------
(* Staging and rebasing *)

\* prepare_outbox: the outbox with one more entry.
WithEntry(outbox, pub, entry) ==
    [p \in DOMAIN outbox \cup {pub} |-> IF p = pub THEN entry ELSE outbox[p]]

Without(outbox, pubs) == [p \in DOMAIN outbox \ pubs |-> outbox[p]]

\* The register a publication carries of a domain: a valid part of it, with
\* all of d's own revisions exposed by the handoff.
LEMMA ExportedPart ==
    ASSUME NEW d, NEW k, NEW m, NEW pubs, DomainInv(d, k, m, pubs),
           NEW ids, CanHandoff(m, ids)
    PROVE  /\ ExportedRegister(m, ids) \in Registers
           /\ Valid(ExportedRegister(m, ids))
           /\ Extended(ExportedRegister(m, ids), Handoff(m, ids).causal)
           /\ DOMAIN ExportedRegister(m, ids) \cap IdsOf[d] \subseteq Handoff(m, ids).exposed
           /\ ids \subseteq DOMAIN ExportedRegister(m, ids)
<1>1. WellFormed(m) /\ ids \in SUBSET DOMAIN m.causal
  BY DEF DomainInv, CanHandoff
<1>2. m.causal \in Registers /\ Valid(m.causal)
  BY <1>1, WellFormedFields
<1>3. /\ ExportedRegister(m, ids) \in Registers
      /\ DOMAIN ExportedRegister(m, ids) = DependencyClosure(m.causal, ids)
      /\ Extended(ExportedRegister(m, ids), m.causal)
      /\ Valid(ExportedRegister(m, ids))
  BY <1>1, <1>2, ClosureRestriction DEF ExportedRegister
<1> QED
  BY <1>3, DomainHandoff

\* stage_prepared_recovery_handoff: the exposure is recorded together with the
\* entry, and what was selected is in the entry.
LEMMA DurableStage ==
    ASSUME NEW d, NEW c, NEW cursor \in Nat, NEW outbox, NEW L,
           DurableInv(d, c, cursor, outbox, L),
           NEW selected, CanHandoffSelected(c, selected),
           NEW pub \in PubsOf[d], pub \notin DOMAIN outbox,
           pub \notin PublicationIds(Everything(L)),
           NEW entry,
           entry = [expected_cursor |-> cursor, objects |-> PreparedProjection(c, selected)]
    PROVE  /\ DurableInv(d, HandoffSelected(c, selected), cursor,
                         WithEntry(outbox, pub, entry), L)
           /\ Grows(c, HandoffSelected(c, selected))
<1> DEFINE h == HandoffSelected(c, selected)
           o == PreparedProjection(c, selected)
           new == WithEntry(outbox, pub, entry)
           pubs == Everything(L)
           read == Prefix(L, cursor)
<1>1. /\ DOMAIN h = DOMAIN c
      /\ \A k \in DOMAIN c :
            h[k] = IF k \in DOMAIN selected THEN Handoff(c[k], selected[k]) ELSE c[k]
  BY DEF HandoffSelected
<1>2. /\ DOMAIN o = DOMAIN selected
      /\ \A k \in DOMAIN selected : o[k] = ExportedRegister(c[k], selected[k])
  BY DEF PreparedProjection
<1>3. /\ DOMAIN new = DOMAIN outbox \cup {pub}
      /\ new[pub] = entry
      /\ \A p \in DOMAIN outbox : new[p] = outbox[p]
  BY DEF WithEntry
<1>4. /\ DOMAIN selected # {}
      /\ \A k \in DOMAIN selected : k \in DOMAIN c /\ CanHandoff(c[k], selected[k])
  BY DEF CanHandoffSelected
<1>5. /\ DOMAIN c \subseteq DomainKey
      /\ \A k \in DOMAIN c : DomainInv(d, k, c[k], pubs)
  BY DEF DurableInv, ContainerInv
<1>6. entry.expected_cursor = cursor /\ entry.objects = o
  OBVIOUS
<1>7. o \in Projections
  <2>1. \A k \in DOMAIN selected : o[k] \in Registers
    BY <1>2, <1>4, <1>5, ExportedPart
  <2>2. o \in [DOMAIN selected -> Registers]
    BY <2>1 DEF PreparedProjection
  <2>3. DOMAIN selected \in SUBSET DomainKey
    BY <1>4, <1>5
  <2> HIDE DEF o
  <2> QED
    BY <2>2, <2>3, ProjectionIntro
<1>8. entry \in OutboxEntry
  BY <1>7 DEF OutboxEntry, Cursors
<1> HIDE DEF h, o, new, pubs, read
<1>9. Grows(c, h) /\ ContainerInv(d, h, pubs)
  <2>1. ASSUME NEW k \in DOMAIN c
        PROVE  /\ DomainInv(d, k, h[k], pubs)
               /\ Extended(c[k].causal, h[k].causal)
               /\ c[k].exposed \subseteq h[k].exposed
    <3>1. CASE k \in DOMAIN selected
      BY <2>1, <3>1, <1>1, <1>4, <1>5, DomainHandoff DEF Extended
    <3>2. CASE k \notin DOMAIN selected
      BY <2>1, <3>2, <1>1, <1>5 DEF Extended
    <3> QED
      BY <3>1, <3>2
  <2> QED
    BY <2>1, <1>1, <1>5 DEF Grows, ContainerInv
<1>10. EntryInv(d, h, entry)
  <2>1. ASSUME NEW k \in DOMAIN o
        PROVE  /\ k \in DOMAIN h
               /\ Extended(o[k], h[k].causal)
               /\ Valid(o[k])
               /\ DOMAIN o[k] # {}
               /\ DOMAIN o[k] \cap IdsOf[d] \subseteq h[k].exposed
    <3>1. k \in DOMAIN selected /\ k \in DOMAIN c
      BY <2>1, <1>2, <1>4
    <3>2. h[k] = Handoff(c[k], selected[k]) /\ o[k] = ExportedRegister(c[k], selected[k])
      BY <3>1, <1>1, <1>2
    <3>3. selected[k] # {} /\ selected[k] \subseteq DOMAIN o[k]
      BY <3>1, <3>2, <1>4, <1>5, ExportedPart DEF CanHandoffSelected
    <3> QED
      BY <3>1, <3>2, <3>3, <1>1, <1>4, <1>5, ExportedPart
  <2> QED
    BY <2>1, <1>2, <1>4, <1>6, <1>8
    DEF EntryInv, Contains, ProjectionDecodes, CarriesAll
<1>11. OutboxInv(d, h, new)
  <2>1. OutboxInv(d, h, outbox)
    BY <1>9, OutboxGrows DEF DurableInv
  <2> QED
    BY <2>1, <1>3, <1>10 DEF OutboxInv
<1>12. ClaimsInv(new, cursor, L)
  BY <1>3, <1>6 DEF DurableInv, ClaimsInv
<1>13. HandedInv(h, new, read)
  <2>1. HandedInv(c, outbox, read)
    BY DEF DurableInv, read
  <2>2. ASSUME NEW k \in DOMAIN h, NEW id \in h[k].handed_off
        PROVE  \/ \E p \in DOMAIN new : Carries(new[p].objects, k, id)
               \/ \E p \in read : Carries(p.objects, k, id)
    <3>1. CASE id \in c[k].handed_off
      BY <3>1, <2>1, <2>2, <1>1, <1>3 DEF HandedInv
    <3>2. CASE id \notin c[k].handed_off
      <4>1. k \in DOMAIN c /\ k \in DOMAIN selected
        BY <3>2, <2>2, <1>1
      <4>2. h[k] = Handoff(c[k], selected[k])
        BY <4>1, <1>1
      <4>3. id \in selected[k]
        BY <4>1, <4>2, <3>2, <2>2, <1>4, <1>5, DomainHandoff
      <4>4. id \in DOMAIN o[k]
        BY <4>1, <4>3, <1>2, <1>4, <1>5, ExportedPart
      <4>5. Carries(new[pub].objects, k, id) /\ pub \in DOMAIN new
        BY <4>1, <4>4, <1>2, <1>3, <1>6 DEF Carries
      <4> QED
        BY <4>5
    <3> QED
      BY <3>1, <3>2
  <2> QED
    BY <2>2 DEF HandedInv
<1>14. \A p \in Prefix(L, cursor) : Contains(h, p.objects)
  BY <1>9, ContainsGrows DEF DurableInv
<1>15. DurableInv(d, h, cursor, new, L)
  BY <1>9, <1>11, <1>12, <1>13, <1>14 DEF DurableInv, pubs, read
<1> QED
  BY <1>9, <1>15 DEF h, new

\* commit_rebased_outbox: the stale entry is replaced by one with the same
\* objects under a new identity.
LEMMA DurableRebase ==
    ASSUME NEW d, NEW c, NEW cursor \in Nat, NEW outbox, NEW L,
           DurableInv(d, c, cursor, outbox, L),
           NEW stale \in DOMAIN outbox,
           NEW pub \in PubsOf[d], pub \notin DOMAIN outbox,
           pub \notin PublicationIds(Everything(L))
    PROVE  DurableInv(d, c, cursor,
               WithEntry(Without(outbox, {stale}), pub,
                         [outbox[stale] EXCEPT !.expected_cursor = cursor]), L)
<1> DEFINE entry == [outbox[stale] EXCEPT !.expected_cursor = cursor]
           new == WithEntry(Without(outbox, {stale}), pub, entry)
<1>1. /\ DOMAIN new = (DOMAIN outbox \ {stale}) \cup {pub}
      /\ new[pub] = entry
      /\ \A p \in DOMAIN outbox \ {stale} : new[p] = outbox[p]
  BY DEF WithEntry, Without
<1>2. EntryInv(d, c, outbox[stale])
  BY DEF DurableInv, OutboxInv
<1>3. /\ entry \in OutboxEntry
      /\ entry.expected_cursor = cursor /\ entry.objects = outbox[stale].objects
  BY <1>2 DEF EntryInv, OutboxEntry, Cursors
<1> HIDE DEF entry, new
<1>4. EntryInv(d, c, entry)
  BY <1>2, <1>3 DEF EntryInv
<1>5. OutboxInv(d, c, new)
  BY <1>1, <1>4 DEF DurableInv, OutboxInv
<1>6. ClaimsInv(new, cursor, L)
  BY <1>1, <1>3 DEF DurableInv, ClaimsInv
<1>7. HandedInv(c, new, Prefix(L, cursor))
  <2>1. ASSUME NEW k \in DOMAIN c, NEW id \in c[k].handed_off,
               NEW p \in DOMAIN outbox, Carries(outbox[p].objects, k, id)
        PROVE  \E q \in DOMAIN new : Carries(new[q].objects, k, id)
    BY <2>1, <1>1, <1>3
  <2> QED
    BY <2>1 DEF HandedInv, DurableInv
<1>8. DurableInv(d, c, cursor, new, L)
  BY <1>5, <1>6, <1>7 DEF DurableInv
<1> QED
  BY <1>8 DEF new, entry

-----------------------------------------------------------------------------
(* Retiring and receiving *)

\* A longer part of the log has what a shorter one has.
LEMMA PrefixGrows ==
    ASSUME NEW L, NEW m \in Int, NEW n \in Int, m <= n
    PROVE  Prefix(L, m) \subseteq Prefix(L, n)
BY DEF Prefix

\* retire_outbox of publications whose revisions are on the transport, at a
\* head that they precede and up to which the container holds everything.
LEMMA DurableRetire ==
    ASSUME NEW d, NEW c, NEW cursor, NEW outbox, NEW L, NEW pubs, NEW head,
           DurableInv(d, c, cursor, outbox, L), Len(L) \in Nat,
           head \in 0 .. Len(L), cursor <= head,
           \A p \in Prefix(L, head) : Contains(c, p.objects),
           \A p \in pubs : p \in DOMAIN outbox =>
               \A k, id : Carries(outbox[p].objects, k, id) =>
                   \E q \in Prefix(L, head) : Carries(q.objects, k, id)
    PROVE  DurableInv(d, c, head, Without(outbox, pubs), L)
<1> DEFINE new == Without(outbox, pubs)
<1>1. /\ DOMAIN new = DOMAIN outbox \ pubs
      /\ \A p \in DOMAIN new : new[p] = outbox[p]
  BY DEF Without
<1> HIDE DEF new
<1>2. OutboxInv(d, c, new)
  BY <1>1 DEF DurableInv, OutboxInv
<1>3. ClaimsInv(new, head, L)
  <2>1. ASSUME NEW p \in DOMAIN new
        PROVE  /\ new[p].expected_cursor <= head
               /\ p \in PublicationIds(Everything(L)) => new[p].expected_cursor < Len(L)
    <3>1. p \in DOMAIN outbox /\ new[p] = outbox[p]
      BY <2>1, <1>1
    <3>2. outbox[p].expected_cursor \in Nat
      BY <3>1 DEF DurableInv, OutboxInv, EntryInv, OutboxEntry, Cursors
    <3>3. /\ outbox[p].expected_cursor <= cursor
          /\ p \in PublicationIds(Everything(L)) => outbox[p].expected_cursor < Len(L)
      BY <3>1 DEF DurableInv, ClaimsInv
    <3>4. cursor \in Int /\ head \in Int
      BY DEF DurableInv
    <3> QED
      BY <3>1, <3>2, <3>3, <3>4
  <2> QED
    BY <2>1 DEF ClaimsInv
<1>4. HandedInv(c, new, Prefix(L, head))
  <2>0. Prefix(L, cursor) \subseteq Prefix(L, head)
    BY PrefixGrows DEF DurableInv
  <2>1. ASSUME NEW k \in DOMAIN c, NEW id \in c[k].handed_off,
               NEW p \in DOMAIN outbox, Carries(outbox[p].objects, k, id)
        PROVE  \/ \E q \in DOMAIN new : Carries(new[q].objects, k, id)
               \/ \E q \in Prefix(L, head) : Carries(q.objects, k, id)
    BY <2>1, <1>1
  <2> QED
    BY <2>0, <2>1 DEF HandedInv, DurableInv
<1>5. DurableInv(d, c, head, new, L)
  BY <1>2, <1>3, <1>4 DEF DurableInv
<1> QED
  BY <1>5 DEF new

\* The whole of the log is the part up to the cursor and the part after it.
LEMMA PrefixAndRest ==
    ASSUME NEW L, Len(L) \in Nat, NEW cursor \in 0 .. Len(L), NEW p \in Everything(L)
    PROVE  p \in Prefix(L, cursor) \/ \E i \in cursor + 1 .. Len(L) : p \in L[i]
BY DEF Everything, Prefix

\* commit_received: a larger container that holds the whole range, with the
\* head the range was read to.
LEMMA DurableReceive ==
    ASSUME NEW d, NEW c, NEW e, NEW cursor, NEW outbox, NEW L,
           DurableInv(d, c, cursor, outbox, L), Len(L) \in Nat, Grows(c, e),
           ContainerInv(d, e, Everything(L)), HandedInv(e, outbox, Prefix(L, cursor)),
           \A i \in cursor + 1 .. Len(L) : \A p \in L[i] : Contains(e, p.objects)
    PROVE  DurableInv(d, e, Len(L), outbox, L)
<1>1. DurableInv(d, e, cursor, outbox, L)
  BY DurableGrows
<1>2. cursor \in 0 .. Len(L)
  BY DEF DurableInv
<1>3. \A p \in Prefix(L, Len(L)) : Contains(e, p.objects)
  BY <1>1, <1>2, PrefixAndRest DEF DurableInv, Everything
<1>4. ClaimsInv(outbox, Len(L), L)
  <2>1. ASSUME NEW p \in DOMAIN outbox
        PROVE  outbox[p].expected_cursor <= Len(L)
    <3>1. outbox[p].expected_cursor \in Nat /\ outbox[p].expected_cursor <= cursor
      BY <2>1 DEF DurableInv, OutboxInv, EntryInv, OutboxEntry, Cursors, ClaimsInv
    <3> QED
      BY <3>1, <1>2
  <2> QED
    BY <2>1 DEF DurableInv, ClaimsInv
<1>5. Len(L) \in 0 .. Len(L)
  OBVIOUS
<1>6. HandedInv(e, outbox, Prefix(L, Len(L)))
  <2>1. Prefix(L, cursor) \subseteq Prefix(L, Len(L))
    BY <1>2, PrefixGrows
  <2> QED
    BY <2>1 DEF HandedInv
<1> QED
  BY <1>1, <1>3, <1>4, <1>5, <1>6 DEF DurableInv

\* A commit is added to the transport.
LEMMA DurableAppend ==
    ASSUME NEW d, NEW c, NEW cursor, NEW outbox, NEW T, NEW L \in Seq(T), NEW pubs \in T,
           DurableInv(d, c, cursor, outbox, L)
    PROVE  DurableInv(d, c, cursor, outbox, Append(L, pubs))
<1> DEFINE M == Append(L, pubs)
<1>1. /\ Len(L) \in Nat /\ Len(M) = Len(L) + 1
      /\ \A i \in 1 .. Len(L) : M[i] = L[i]
  OBVIOUS
<1> HIDE DEF M
<1>2. Everything(L) \subseteq Everything(M)
  BY <1>1 DEF Everything, Prefix
<1>3. cursor \in 0 .. Len(L) /\ cursor \in 0 .. Len(M)
  BY <1>1 DEF DurableInv
<1>4. Prefix(M, cursor) = Prefix(L, cursor)
  BY <1>1, <1>3 DEF Prefix
<1>5. ContainerInv(d, c, Everything(M))
  <2>1. \A k \in DOMAIN c : DomainInv(d, k, c[k], Everything(L))
    BY DEF DurableInv, ContainerInv
  <2>2. \A k \in DOMAIN c : DomainInv(d, k, c[k], Everything(M))
    BY <2>1, <1>2, DomainMorePublications
  <2> QED
    BY <2>2 DEF DurableInv, ContainerInv
<1>6. ClaimsInv(outbox, cursor, M)
  <2>1. ASSUME NEW p \in DOMAIN outbox
        PROVE  /\ outbox[p].expected_cursor <= cursor
               /\ outbox[p].expected_cursor < Len(M)
    <3>1. outbox[p].expected_cursor \in Nat /\ outbox[p].expected_cursor <= cursor
      BY <2>1 DEF DurableInv, OutboxInv, EntryInv, OutboxEntry, Cursors, ClaimsInv
    <3> QED
      BY <3>1, <1>1, <1>3
  <2> QED
    BY <2>1 DEF ClaimsInv
<1>7. HandedInv(c, outbox, Prefix(M, cursor))
  BY <1>4 DEF DurableInv
<1>8. DurableInv(d, c, cursor, outbox, M)
  BY <1>3, <1>4, <1>5, <1>6, <1>7 DEF DurableInv
<1> QED
  BY <1>8 DEF M

\* The revisions of the projections are on the transport, and exposed by d
\* where they are its own.
Known(d, c, P, pubs) ==
    \A p \in P : \A k, id : Carries(p, k, id) =>
        /\ States(pubs, k, id, p[k][id])
        /\ id \in IdsOf[d] => k \in DOMAIN c /\ id \in c[k].exposed

\* The identities a caller names for sealing are its own.
SealsAreOwn(d, seal) == \A k \in DOMAIN seal : seal[k] \in IdsOf[d]

\* e is c after observing the projections, domain by domain.
ObservedAs(c, P, seal, e) ==
    /\ DOMAIN e = DOMAIN c \cup TouchedBy(P)
    /\ \A k \in DOMAIN e :
          e[k] = IF k \notin TouchedBy(P) THEN c[k]
                 ELSE IF k \in DOMAIN c
                      THEN ObserveRemote(c[k], Combined(P)[k], SealIdOf(seal, k))
                      ELSE FromCausal(Combined(P)[k])

\* Observing a range: each touched domain is observed or begun, the others are
\* left alone, and every revision of the range is held afterwards.
LEMMA ContainerObserve ==
    ASSUME NEW d, IdsOf[d] \subseteq RevisionId, NEW c, NEW pubs, ContainerInv(d, c, pubs),
           NEW P, P \subseteq Projections, CanCombine(P),
           Known(d, c, P, pubs),
           NEW seal, SealsAreOwn(d, seal), CanObserveProjection(c, Combined(P), seal),
           NEW e, ObservedAs(c, P, seal, e)
    PROVE  /\ Grows(c, e)
           /\ ContainerInv(d, e, pubs)
           /\ \A k \in DOMAIN e : \A id \in e[k].handed_off :
                 k \in DOMAIN c /\ id \in c[k].handed_off
           /\ \A p \in P : Contains(e, p)
<1> DEFINE R == Combined(P)
<1>1. /\ DOMAIN R = TouchedBy(P)
      /\ \A k \in TouchedBy(P) :
            /\ R[k] \in Registers
            /\ \A id \in DOMAIN R[k] :
                  \E p \in P : Carries(p, k, id) /\ R[k][id] = p[k][id]
  BY CombinedContents
<1>2. \A p \in P : \A k \in DOMAIN p : Extended(p[k], R[k]) /\ k \in TouchedBy(P)
  BY CombinedAgrees
<1>3. \A k \in TouchedBy(P) :
        IF k \in DOMAIN c THEN CanObserveRemote(c[k], R[k], SealIdOf(seal, k))
        ELSE Valid(R[k])
  BY <1>1 DEF CanObserveProjection
<1> HIDE DEF R
<1>4. TouchedBy(P) \subseteq DomainKey
  BY ProjectionType DEF TouchedBy
<1>5. \A k \in TouchedBy(P) : \A id \in DOMAIN R[k] :
         /\ States(pubs, k, id, R[k][id])
         /\ id \in IdsOf[d] => k \in DOMAIN c /\ id \in c[k].exposed
  BY <1>1 DEF Known
<1>6. ASSUME NEW k \in DOMAIN c
      PROVE  /\ DomainInv(d, k, e[k], pubs)
             /\ Extended(c[k].causal, e[k].causal)
             /\ e[k].exposed = c[k].exposed
             /\ e[k].handed_off = c[k].handed_off
             /\ k \in TouchedBy(P) => Extended(R[k], e[k].causal)
  <2>1. DomainInv(d, k, c[k], pubs)
    BY <1>6 DEF ContainerInv
  <2>2. CASE k \notin TouchedBy(P)
    BY <1>6, <2>1, <2>2 DEF Extended, ObservedAs
  <2>3. CASE k \in TouchedBy(P)
    <3> DEFINE pre == SealIdOf(seal, k)
    <3>1. e[k] = ObserveRemote(c[k], R[k], pre)
      BY <1>6, <2>3 DEF R, ObservedAs
    <3>2. pre \subseteq IdsOf[d] /\ (pre = {} \/ \E id \in RevisionId : pre = {id})
      BY DEF SealIdOf, SealsAreOwn
    <3>3. CanObserveRemote(c[k], R[k], pre)
      BY <1>3, <1>6, <2>3
    <3>4. DOMAIN R[k] \cap IdsOf[d] \subseteq c[k].local
      <4>1. c[k].exposed \subseteq c[k].local
        BY <2>1, WellFormedFields DEF DomainInv
      <4> QED
        BY <4>1, <1>5, <2>3
    <3>5. R[k] \in Registers /\ \A id \in DOMAIN R[k] \ IdsOf[d] : States(pubs, k, id, R[k][id])
      BY <1>1, <1>5, <2>3
    <3> HIDE DEF pre
    <3> QED
      BY <2>1, <3>1, <3>2, <3>3, <3>4, <3>5, DomainObserve
  <2> QED
    BY <2>2, <2>3
<1>7. ASSUME NEW k \in DOMAIN e, k \notin DOMAIN c
      PROVE  /\ DomainInv(d, k, e[k], pubs)
             /\ e[k].causal = R[k]
             /\ e[k].handed_off = {}
  <2>1. k \in TouchedBy(P) /\ e[k] = FromCausal(R[k])
    BY <1>7 DEF R, ObservedAs
  <2>2. R[k] \in Registers /\ Valid(R[k])
    BY <1>1, <1>3, <1>7, <2>1
  <2>3. DOMAIN R[k] \cap IdsOf[d] = {}
    BY <1>5, <1>7, <2>1
  <2>4. \A id \in DOMAIN R[k] \ IdsOf[d] : States(pubs, k, id, R[k][id])
    BY <1>5, <2>1
  <2> QED
    BY <2>1, <2>2, <2>3, <2>4, DomainFromCausal
<1>8. Grows(c, e)
  BY <1>6 DEF Grows, ObservedAs
<1>9. ContainerInv(d, e, pubs)
  <2>1. \A k \in DOMAIN e : DomainInv(d, k, e[k], pubs)
    BY <1>6, <1>7
  <2> QED
    BY <2>1, <1>4 DEF ContainerInv, ObservedAs
<1>10. \A k \in DOMAIN e : \A id \in e[k].handed_off :
          k \in DOMAIN c /\ id \in c[k].handed_off
  BY <1>6, <1>7
<1>11. \A k \in TouchedBy(P) : k \in DOMAIN e /\ Extended(R[k], e[k].causal)
  BY <1>6, <1>7 DEF Extended, ObservedAs
<1>12. ASSUME NEW p \in P PROVE Contains(e, p)
  BY <1>2, <1>11, <1>12 DEF Contains, Extended
<1> QED
  BY <1>8, <1>9, <1>10, <1>12

-----------------------------------------------------------------------------
(* From one device to all of them *)

\* The record with these fields satisfies the invariant of records.
LEMMA MadeRecord ==
    ASSUME NEW d, NEW c, NEW cursor, NEW outbox, NEW L, DurableInv(d, c, cursor, outbox, L)
    PROVE  RecordInv(d, [trusted_state |-> c, applied_cursor |-> cursor, outbox |-> outbox], L)
BY DEF RecordInv, IsRecord

\* The record transitions (recovery.rs), field by field.
LEMMA RecordTransitions ==
    ASSUME NEW rec, IsRecord(rec)
    PROVE  /\ \A state, pub, entry :
                 PrepareOutbox(rec, state, pub, entry) =
                     [trusted_state |-> state, applied_cursor |-> rec.applied_cursor,
                      outbox |-> WithEntry(rec.outbox, pub, entry)]
           /\ \A state, cursor :
                 ApplyReceived(rec, state, cursor) =
                     [trusted_state |-> state, applied_cursor |-> cursor, outbox |-> rec.outbox]
           /\ \A pubs, state, cursor :
                 RetireOutbox(rec, pubs, state, cursor) =
                     [trusted_state |-> state, applied_cursor |-> cursor,
                      outbox |-> Without(rec.outbox, pubs)]
<1> DEFINE c == rec.trusted_state
           n == rec.applied_cursor
           o == rec.outbox
<1>1. rec = [trusted_state |-> c, applied_cursor |-> n, outbox |-> o]
  BY DEF IsRecord
<1> HIDE DEF c, n, o
<1>2. ASSUME NEW state, NEW pub, NEW entry
      PROVE  PrepareOutbox(rec, state, pub, entry) =
                 [trusted_state |-> state, applied_cursor |-> n,
                  outbox |-> WithEntry(o, pub, entry)]
  <2> DEFINE w == WithEntry(o, pub, entry)
             R == [trusted_state : {c, state}, applied_cursor : {n}, outbox : {o, w}]
             r == PrepareOutbox(rec, state, pub, entry)
  <2>1. rec \in R /\ rec.outbox = o /\ rec.applied_cursor = n
    BY <1>1
  <2>2. r = [rec EXCEPT !.trusted_state = state, !.outbox = w]
    BY <2>1 DEF PrepareOutbox, WithEntry
  <2> HIDE DEF w
  <2>3. r \in R /\ r.trusted_state = state /\ r.applied_cursor = n /\ r.outbox = w
    BY <2>1, <2>2
  <2> HIDE DEF r
  <2>4. r = [trusted_state |-> state, applied_cursor |-> n, outbox |-> w]
    BY <2>3
  <2> QED
    BY <2>4 DEF r, w
<1>3. ASSUME NEW state, NEW cursor
      PROVE  ApplyReceived(rec, state, cursor) =
                 [trusted_state |-> state, applied_cursor |-> cursor, outbox |-> o]
  <2> DEFINE R == [trusted_state : {c, state}, applied_cursor : {n, cursor}, outbox : {o}]
             r == ApplyReceived(rec, state, cursor)
  <2>1. rec \in R /\ rec.outbox = o
    BY <1>1
  <2>2. r \in R /\ r.trusted_state = state /\ r.applied_cursor = cursor /\ r.outbox = o
    BY <2>1 DEF ApplyReceived
  <2> HIDE DEF r
  <2>3. r = [trusted_state |-> state, applied_cursor |-> cursor, outbox |-> o]
    BY <2>2
  <2> QED
    BY <2>3 DEF r
<1>4. ASSUME NEW pubs, NEW state, NEW cursor
      PROVE  RetireOutbox(rec, pubs, state, cursor) =
                 [trusted_state |-> state, applied_cursor |-> cursor,
                  outbox |-> Without(o, pubs)]
  <2> DEFINE w == Without(o, pubs)
             R == [trusted_state : {c, state}, applied_cursor : {n, cursor}, outbox : {o, w}]
             r == RetireOutbox(rec, pubs, state, cursor)
  <2>1. rec \in R /\ rec.outbox = o
    BY <1>1
  <2>2. r = [rec EXCEPT !.trusted_state = state, !.applied_cursor = cursor, !.outbox = w]
    BY <2>1 DEF RetireOutbox, Without
  <2> HIDE DEF w
  <2>3. r \in R /\ r.trusted_state = state /\ r.applied_cursor = cursor /\ r.outbox = w
    BY <2>1, <2>2
  <2> HIDE DEF r
  <2>4. r = [trusted_state |-> state, applied_cursor |-> cursor, outbox |-> w]
    BY <2>3
  <2> QED
    BY <2>4 DEF r, w
<1> QED
  BY <1>2, <1>3, <1>4 DEF c, n, o

\* A device between cycles relies on nothing.
LEMMA IdlePass ==
    ASSUME NEW d, pass'[d].step = "idle"
    PROVE  PassInv(d)'
BY DEF PassInv, InPass, PassSteps

\* A step touches the state of device d only.
Frame(d) ==
    /\ DOMAIN live' = Device /\ DOMAIN record' = Device
    /\ DOMAIN disk' = Device /\ DOMAIN pass' = Device
    /\ \A e \in Device \ {d} :
          /\ live'[e] = live[e] /\ record'[e] = record[e]
          /\ disk'[e] = disk[e] /\ pass'[e] = pass[e]

CountersInv ==
    /\ foreign \in 0 .. MaxForeign /\ faults \in 0 .. MaxFaults /\ switches \in 0 .. MaxSwitches

\* A device that nothing touched keeps its invariant.
LEMMA SameDevice ==
    ASSUME NEW e, DeviceInv(e), log' = log,
           live'[e] = live[e], record'[e] = record[e],
           disk'[e] = disk[e], pass'[e] = pass[e]
    PROVE  DeviceInv(e)'
<1>1. PassInv(e)'
  <2>1. SealsUsable(e) => SealsUsable(e)'
    BY DEF SealsUsable
  <2>2. Current(e)' = Current(e)
    BY DEF Current, Stale
  <2> QED
    BY <2>1, <2>2 DEF DeviceInv, PassInv, InPass, LogHead
<1> QED
  BY <1>1 DEF DeviceInv

\* A step of d that leaves the transport alone keeps what was sent exposed, if
\* the record in memory only grows.
LEMMA WireKept ==
    ASSUME WireInv, NEW d \in Device, Frame(d), log' = log, late' = late,
           RecordInv(d, record[d], log),
           Grows(record[d].trusted_state, record'[d].trusted_state)
    PROVE  WireInv'
<1>1. Sent' = Sent
  BY DEF Sent
<1>2. ASSUME NEW e \in Device, NEW k, NEW id, NEW revision, Exposes(e, k, id, revision)
      PROVE  Exposes(e, k, id, revision)'
  <2>1. CASE e # d
    BY <1>2, <2>1 DEF Exposes, Frame
  <2>2. CASE e = d
    <3>1. /\ k \in DOMAIN record[d].trusted_state
          /\ id \in record[d].trusted_state[k].exposed
      BY <1>2, <2>2 DEF Exposes
    <3>2. WellFormed(record[d].trusted_state[k])
      BY <3>1 DEF RecordInv, DurableInv, ContainerInv, DomainInv
    <3>3. id \in DOMAIN record[d].trusted_state[k].causal
      BY <3>1, <3>2, WellFormedFields
    <3> QED
      BY <1>2, <2>2, <3>1, <3>3 DEF Exposes, Grows, Extended
  <2> QED
    BY <2>1, <2>2
<1> QED
  BY <1>1, <1>2 DEF WireInv

\* The invariant is preserved by a step of d that leaves the transport alone
\* and preserves the invariant of d.
LEMMA StepOfOneDevice ==
    ASSUME RuntimeInv, NEW d \in Device, Frame(d), log' = log, late' = late,
           CountersInv', DeviceInv(d)',
           Grows(record[d].trusted_state, record'[d].trusted_state)
    PROVE  RuntimeInv'
<1>1. ShapeInv'
  BY DEF Frame, CountersInv, ShapeInv
<1>2. RecordInv(d, record[d], log)
  BY DEF RuntimeInv, DeviceInv
<1>3. WireInv'
  BY <1>2, WireKept DEF RuntimeInv, TransportInv
<1>4. TransportInv'
  <2>1. ASSUME NEW q \in late PROVE LateInv(q)'
    BY <2>1 DEF RuntimeInv, TransportInv, LateInv, LogHead, Accepts
  <2> QED
    BY <1>3, <2>1 DEF RuntimeInv, TransportInv
<1>5. ASSUME NEW e \in Device, e # d PROVE DeviceInv(e)'
  BY <1>5, SameDevice DEF RuntimeInv, Frame
<1> QED
  BY <1>1, <1>4, <1>5 DEF RuntimeInv

\* What the invariant says of one device.
LEMMA DeviceFacts ==
    ASSUME RuntimeInv, NEW d \in Device
    PROVE  /\ RecordInv(d, record[d], log)
           /\ DurableInv(d, record[d].trusted_state, record[d].applied_cursor,
                         record[d].outbox, log)
           /\ DurableInv(d, live[d], record[d].applied_cursor, record[d].outbox, log)
           /\ Grows(record[d].trusted_state, live[d])
           /\ PassInv(d)
           /\ Len(log) \in Nat
           /\ record[d].applied_cursor \in Nat
           /\ record[d].applied_cursor <= Len(log)
           /\ IdsOf[d] \subseteq RevisionId
           /\ PubsOf[d] \subseteq PublicationId
<1>1. DeviceInv(d) /\ TransportInv
  BY DEF RuntimeInv
<1>2. RecordInv(d, record[d], log)
  BY <1>1 DEF DeviceInv
<1>3. Len(log) \in Nat
  BY <1>1 DEF TransportInv
<1>4. record[d].applied_cursor \in 0 .. Len(log)
  BY <1>2 DEF RecordInv, DurableInv
<1>5. IdsOf[d] \subseteq RevisionId /\ PubsOf[d] \subseteq PublicationId
  BY RuntimeAssumption
<1> QED
  BY <1>1, <1>2, <1>3, <1>4, <1>5 DEF DeviceInv, RecordInv

\* A fault is counted and stays within its bound.
LEMMA FaultCounted ==
    ASSUME CountersInv, Fault, UNCHANGED bounds
    PROVE  CountersInv'
<1>1. MaxFaults \in Nat
  BY RuntimeAssumption
<1> QED
  BY <1>1 DEF CountersInv, Fault, bounds

\* A step of d that moves its pass and nothing else.
LEMMA QuietStep ==
    ASSUME RuntimeInv, NEW d \in Device,
           UNCHANGED <<live, record, disk, log, late>>, CountersInv',
           pass' = pass \/ \E where : pass' = [pass EXCEPT ![d] = where],
           PassInv(d)'
    PROVE  RuntimeInv'
<1>1. Frame(d)
  BY DEF Frame, RuntimeInv, ShapeInv
<1>2. DeviceInv(d)'
  BY DEF RuntimeInv, DeviceInv
<1>3. Grows(record[d].trusted_state, record'[d].trusted_state)
  BY GrowsReflexive
<1> QED
  BY <1>1, <1>2, <1>3, StepOfOneDevice

\* persist returned Ok: memory follows.
LEMMA Persisted ==
    ASSUME RuntimeInv, NEW d \in Device, NEW rec, NEW c,
           RecordInv(d, rec, log), Grows(record[d].trusted_state, rec.trusted_state),
           DurableInv(d, c, rec.applied_cursor, rec.outbox, log), Grows(rec.trusted_state, c),
           PersistOk(d, rec), UNCHANGED <<log, late, bounds>>,
           (live' = live /\ c = live[d]) \/ live' = [live EXCEPT ![d] = c],
           pass' = pass \/ \E where : pass' = [pass EXCEPT ![d] = where],
           PassInv(d)'
    PROVE  RuntimeInv'
<1>1. ShapeInv
  BY DEF RuntimeInv
<1>2. record'[d] = rec /\ disk'[d] = {rec} /\ live'[d] = c
  BY <1>1 DEF PersistOk, ShapeInv
<1>3. Frame(d)
  BY <1>1 DEF PersistOk, Frame, ShapeInv
<1>4. CountersInv'
  BY <1>1 DEF PersistOk, CountersInv, ShapeInv, bounds
<1>5. DeviceInv(d)'
  <2>1. \A r \in disk'[d] : RecordInv(d, r, log') /\ Grows(record'[d].trusted_state, r.trusted_state)
    BY <1>2, GrowsReflexive
  <2> QED
    BY <2>1, <1>2 DEF DeviceInv
<1> QED
  BY <1>2, <1>3, <1>4, <1>5, StepOfOneDevice

\* persist returned Err: the disk may hold the new record, memory stays.
LEMMA NotPersisted ==
    ASSUME RuntimeInv, NEW d \in Device, NEW rec,
           RecordInv(d, rec, log), Grows(record[d].trusted_state, rec.trusted_state),
           PersistErr(d, rec), UNCHANGED <<live, log, late, bounds>>,
           (pass' = pass /\ pass[d].step = "idle") \/ pass' = [pass EXCEPT ![d] = Idle]
    PROVE  RuntimeInv'
<1>1. ShapeInv
  BY DEF RuntimeInv
<1>2. record' = record /\ disk'[d] = disk[d] \cup {rec} /\ Fault
  BY <1>1 DEF PersistErr, ShapeInv
<1>3. Frame(d)
  BY <1>1 DEF PersistErr, Frame, ShapeInv
<1>4. CountersInv'
  <2>1. CountersInv
    BY <1>1 DEF CountersInv, ShapeInv
  <2> QED
    BY <1>2, <2>1, FaultCounted
<1>5. PassInv(d)'
  <2>1. pass'[d].step = "idle"
    BY <1>1 DEF ShapeInv, Idle
  <2> QED
    BY <2>1, IdlePass
<1>6. DeviceInv(d)'
  BY <1>2, <1>5 DEF RuntimeInv, DeviceInv
<1>7. Grows(record[d].trusted_state, record'[d].trusted_state)
  BY <1>2, GrowsReflexive
<1> QED
  BY <1>3, <1>4, <1>6, <1>7, StepOfOneDevice

-----------------------------------------------------------------------------
(* Editing, staging and rebasing preserve the invariant *)

\* An edit between cycles replaces one live domain and nothing durable.
LEMMA EditKeeps ==
    ASSUME RuntimeInv, NEW d \in Device, NEW k \in DOMAIN live[d], NEW n,
           DomainInv(d, k, n, Everything(log)), Extended(live[d][k].causal, n.causal),
           n.exposed = live[d][k].exposed, n.handed_off = live[d][k].handed_off,
           Edit(d, k, n)
    PROVE  RuntimeInv'
<1> DEFINE c == live[d]
           e == [c EXCEPT ![k] = n]
           cursor == record[d].applied_cursor
           outbox == record[d].outbox
<1>1. /\ ShapeInv
      /\ DurableInv(d, c, cursor, outbox, log)
      /\ Grows(record[d].trusted_state, c)
  BY DeviceFacts DEF RuntimeInv
<1>2. /\ live' = [live EXCEPT ![d] = e]
      /\ UNCHANGED <<record, disk, log, late, pass, bounds, faults>>
      /\ pass[d].step = "idle"
  BY DEF Edit, SetLive, InPass
<1>3. live'[d] = e
  BY <1>1, <1>2 DEF ShapeInv
<1>4. Frame(d)
  BY <1>1, <1>2 DEF ShapeInv, Frame
<1>5. CountersInv'
  BY <1>1, <1>2 DEF ShapeInv, CountersInv, bounds
<1>6. PassInv(d)'
  BY <1>2, IdlePass
<1> HIDE DEF cursor, outbox
<1>7. DurableInv(d, e, cursor, outbox, log) /\ Grows(c, e)
  BY <1>1, DurableEdit
<1> HIDE DEF e, c
<1>8. Grows(record[d].trusted_state, e)
  BY <1>1, <1>7, GrowsTransitive
<1>9. DeviceInv(d)'
  BY <1>2, <1>3, <1>6, <1>7, <1>8 DEF RuntimeInv, DeviceInv, cursor, outbox
<1>10. Grows(record[d].trusted_state, record'[d].trusted_state)
  BY <1>2, GrowsReflexive
<1> QED
  BY <1>2, <1>4, <1>5, <1>9, <1>10, StepOfOneDevice

\* begin_epoch, seal_local and finalize of a domain of the live container.
LEMMA EditsKeep ==
    ASSUME RuntimeInv, NEW d \in Device, NEW k \in DOMAIN live[d],
           \/ \E value \in Value : EditBegin(d, k, value)
           \/ \E id \in IdsOf[d] : EditSeal(d, k, id) \/ EditFinalize(d, k, id)
    PROVE  RuntimeInv'
<1>1. DomainInv(d, k, live[d][k], Everything(log)) /\ IdsOf[d] \subseteq RevisionId
  BY DeviceFacts DEF DurableInv, ContainerInv
<1>2. ASSUME NEW value \in Value, EditBegin(d, k, value) PROVE RuntimeInv'
  BY <1>1, <1>2, DomainBegin, EditKeeps DEF EditBegin
<1>3. ASSUME NEW id \in IdsOf[d], EditSeal(d, k, id) PROVE RuntimeInv'
  BY <1>1, <1>3, DomainSeal, EditKeeps DEF EditSeal
<1>4. ASSUME NEW id \in IdsOf[d], EditFinalize(d, k, id) PROVE RuntimeInv'
  BY <1>1, <1>4, DomainFinalize, EditKeeps DEF EditFinalize
<1> QED
  BY <1>2, <1>3, <1>4

\* A publication identity left to mint is neither pending nor on the transport.
LEMMA FreshPublication ==
    ASSUME NEW d, NEW pub \in FreshPubs(d)
    PROVE  /\ pub \in PubsOf[d]
           /\ pub \notin DOMAIN record[d].outbox
           /\ pub \notin PublicationIds(Everything(log))
BY DEF FreshPubs, PublicationIds, Everything, Prefix, Publications, LogHead

\* stage_prepared_recovery_handoff, whether its persist returned Ok or not.
LEMMA StageKeeps ==
    ASSUME RuntimeInv, NEW d \in Device, NEW pub \in FreshPubs(d), NEW selected,
           Stage(d, pub, selected)
    PROVE  RuntimeInv'
<1> DEFINE h == HandoffSelected(live[d], selected)
           entry == [expected_cursor |-> record[d].applied_cursor,
                     objects |-> PreparedProjection(live[d], selected)]
           cursor == record[d].applied_cursor
           new == WithEntry(record[d].outbox, pub, entry)
           rec == StagedRecord(d, pub, selected)
<1>1. /\ CanHandoffSelected(live[d], selected) /\ pass[d].step = "idle"
      /\ UNCHANGED <<log, late, pass, bounds>>
      /\ \/ PersistOk(d, rec) /\ live' = [live EXCEPT ![d] = h]
         \/ PersistErr(d, rec) /\ UNCHANGED live
  BY DEF Stage, CanStage, InPass, SetLive
<1>2. /\ RecordInv(d, record[d], log) /\ cursor \in Nat
      /\ DurableInv(d, live[d], cursor, record[d].outbox, log)
      /\ Grows(record[d].trusted_state, live[d])
  BY DeviceFacts
<1>3. DurableInv(d, h, cursor, new, log) /\ Grows(live[d], h)
  <2> HIDE DEF cursor
  <2>1. entry = [expected_cursor |-> cursor, objects |-> PreparedProjection(live[d], selected)]
    BY DEF cursor
  <2> HIDE DEF entry
  <2> QED
    BY <1>1, <1>2, <2>1, FreshPublication, DurableStage
<1>4. rec = [trusted_state |-> h, applied_cursor |-> cursor, outbox |-> new]
  <2> HIDE DEF h, entry
  <2>1. rec = PrepareOutbox(record[d], h, pub, entry)
    BY DEF StagedRecord, h, entry
  <2> QED
    BY <2>1, <1>2, RecordTransitions DEF RecordInv
<1> HIDE DEF rec, h, new, cursor, entry
<1>5. rec.trusted_state = h /\ rec.applied_cursor = cursor /\ rec.outbox = new
  BY <1>4
<1>6. RecordInv(d, rec, log)
  BY <1>3, <1>4, MadeRecord
<1>7. Grows(record[d].trusted_state, rec.trusted_state) /\ Grows(rec.trusted_state, h)
  BY <1>2, <1>3, <1>5, GrowsTransitive, GrowsReflexive
<1>8. PassInv(d)'
  BY <1>1, IdlePass
<1>9. CASE PersistOk(d, rec) /\ live' = [live EXCEPT ![d] = h]
  <2>1. DurableInv(d, h, rec.applied_cursor, rec.outbox, log)
    BY <1>3, <1>5
  <2> QED
    BY <1>1, <1>6, <1>7, <1>8, <1>9, <2>1, Persisted
<1>10. CASE PersistErr(d, rec) /\ UNCHANGED live
  BY <1>1, <1>6, <1>7, <1>10, NotPersisted
<1> QED
  BY <1>1, <1>9, <1>10

\* commit_rebased_outbox, whether its persist returned Ok or not.
LEMMA RebaseKeeps ==
    ASSUME RuntimeInv, NEW d \in Device, NEW stale \in DOMAIN record[d].outbox,
           NEW pub \in FreshPubs(d) \cup {stale}, Rebase(d, stale, pub)
    PROVE  RuntimeInv'
<1> DEFINE c == live[d]
           cursor == record[d].applied_cursor
           outbox == record[d].outbox
           entry == [outbox[stale] EXCEPT !.expected_cursor = cursor]
           new == WithEntry(Without(outbox, {stale}), pub, entry)
           rec == RebasedRecord(d, stale, pub)
<1>1. /\ pub \in FreshPubs(d) /\ pass[d].step = "idle"
      /\ UNCHANGED <<live, log, late, pass, bounds>>
      /\ PersistOk(d, rec) \/ PersistErr(d, rec)
  BY DEF Rebase, CanRebase, InPass
<1>2. /\ RecordInv(d, record[d], log) /\ cursor \in Nat
      /\ DurableInv(d, c, cursor, outbox, log)
      /\ Grows(record[d].trusted_state, c)
  BY DeviceFacts
<1>3. DurableInv(d, c, cursor, new, log)
  BY <1>1, <1>2, FreshPublication, DurableRebase
<1>4. rec = [trusted_state |-> c, applied_cursor |-> cursor, outbox |-> new]
  <2> DEFINE w == [trusted_state |-> c, applied_cursor |-> cursor,
                   outbox |-> Without(outbox, {stale})]
  <2>1. RetireOutbox(record[d], {stale}, c, cursor) = w
    <3>1. \A pubs, state, n :
             RetireOutbox(record[d], pubs, state, n) =
                 [trusted_state |-> state, applied_cursor |-> n, outbox |-> Without(outbox, pubs)]
      BY <1>2, RecordTransitions DEF RecordInv
    <3> HIDE DEF c, cursor, outbox
    <3> QED
      BY <3>1, Zenon
  <2>2. IsRecord(w) /\ w.applied_cursor = cursor /\ w.outbox = Without(outbox, {stale})
    BY DEF IsRecord
  <2>3. rec = PrepareOutbox(w, c, pub, entry)
    BY <2>1 DEF RebasedRecord, WithoutStale, RebasedEntry
  <2> HIDE DEF w, c, entry, rec, cursor, outbox
  <2> QED
    BY <2>2, <2>3, RecordTransitions
<1> HIDE DEF rec, new, c, cursor, outbox
<1>5. rec.trusted_state = c /\ rec.applied_cursor = cursor /\ rec.outbox = new
  BY <1>4
<1>6. RecordInv(d, rec, log)
  BY <1>3, <1>4, MadeRecord
<1>7. /\ Grows(record[d].trusted_state, rec.trusted_state)
      /\ Grows(rec.trusted_state, c)
      /\ DurableInv(d, c, rec.applied_cursor, rec.outbox, log)
  BY <1>2, <1>3, <1>5, GrowsReflexive
<1>8. PassInv(d)'
  BY <1>1, IdlePass
<1>9. CASE PersistOk(d, rec)
  BY <1>1, <1>6, <1>7, <1>8, <1>9, Persisted DEF c
<1>10. CASE PersistErr(d, rec)
  BY <1>1, <1>6, <1>7, <1>10, NotPersisted
<1> QED
  BY <1>1, <1>9, <1>10

-----------------------------------------------------------------------------
(* Catching up preserves the invariant *)

\* Fresh identities for dirty domains can be used: the epoch's frontier is held.
LEMMA SealChoicesUsable ==
    ASSUME RuntimeInv, NEW d \in Device, NEW keys \in SUBSET Dirty(d),
           NEW seal \in SealChoices(d, keys)
    PROVE  \A k \in DOMAIN seal :
               /\ k \in DOMAIN live[d]
               /\ seal[k] \in IdsOf[d]
               /\ CanSeal(live[d][k], seal[k])
<1> SUFFICES ASSUME NEW k \in DOMAIN seal
             PROVE  /\ k \in DOMAIN live[d]
                    /\ seal[k] \in IdsOf[d]
                    /\ CanSeal(live[d][k], seal[k])
  OBVIOUS
<1>1. seal \in [keys -> IdsOf[d]] /\ seal[k] \in FreshIds(d, k) /\ k \in keys
  BY DEF SealChoices
<1>2. k \in DOMAIN live[d] /\ live[d][k].pending # NoEpoch
  BY <1>1 DEF Dirty
<1>3. WellFormed(live[d][k])
  BY <1>2, DeviceFacts DEF DurableInv, ContainerInv, DomainInv
<1>4. live[d][k].pending.observed_frontier \subseteq DOMAIN live[d][k].causal
  BY <1>2, <1>3, WellFormedFields, FrontierHeld
<1>5. seal[k] \in IdsOf[d] /\ seal[k] \notin DOMAIN live[d][k].causal
  BY <1>1 DEF FreshIds
<1> QED
  BY <1>2, <1>4, <1>5 DEF CanSeal, CanInsert, SealedRevision

\* A cycle starts with identities that the dirty domains can be sealed with.
LEMMA StartCycleKeeps ==
    ASSUME RuntimeInv, NEW d \in Device, NEW keys \in SUBSET Dirty(d),
           NEW seal \in SealChoices(d, keys), StartCycle(d, seal)
    PROVE  RuntimeInv'
<1>1. ShapeInv
  BY DEF RuntimeInv
<1>2. /\ pass' = [pass EXCEPT ![d] = [step |-> "fetch", attempt |-> 1, seal |-> seal]]
      /\ UNCHANGED <<live, record, disk, log, late, bounds, faults>>
  BY DEF StartCycle, GoTo
<1>3. pass'[d] = [step |-> "fetch", attempt |-> 1, seal |-> seal]
  BY <1>1, <1>2 DEF ShapeInv
<1>4. pass'[d].step = "fetch" /\ pass'[d].seal = seal
  BY <1>3
<1>5. SealsUsable(d)'
  BY <1>2, <1>4, SealChoicesUsable DEF SealsUsable
<1>6. PassInv(d)'
  BY <1>4, <1>5 DEF PassInv, InPass, PassSteps
<1>7. CountersInv'
  BY <1>1, <1>2 DEF ShapeInv, CountersInv, bounds
<1> QED
  BY <1>2, <1>6, <1>7, QuietStep

\* What a device fetches: projections of the transport, whose revisions are
\* exposed here where they are the device's own.
LEMMA FetchedFacts ==
    ASSUME RuntimeInv, NEW d \in Device
    PROVE  /\ Fetched(d) \subseteq Projections
           /\ \A i \in FetchedRange(d) : \A p \in log[i] : p.objects \in Fetched(d)
           /\ \A o \in Fetched(d) : \A k, id : Carries(o, k, id) =>
                 /\ States(Everything(log), k, id, o[k][id])
                 /\ \E p \in Everything(log) : Carries(p.objects, k, id)
                 /\ id \in IdsOf[d] => k \in DOMAIN live[d] /\ id \in live[d][k].exposed
<1>1. Len(log) \in Nat /\ record[d].applied_cursor \in Nat
  BY DeviceFacts
<1>2. \A o \in Fetched(d) : \E p \in Everything(log) : o = p.objects
  BY <1>1 DEF Fetched, FetchedRange, Publications, Everything, Prefix, LogHead
<1>3. \A i \in FetchedRange(d) : \A p \in log[i] : p.objects \in Fetched(d)
  BY DEF Fetched, Publications
<1>4. Fetched(d) \subseteq Projections
  BY <1>2 DEF RuntimeInv, TransportInv, GoodPublications
<1>5. ASSUME NEW o \in Fetched(d), NEW k, NEW id, Carries(o, k, id)
      PROVE  /\ States(Everything(log), k, id, o[k][id])
             /\ \E p \in Everything(log) : Carries(p.objects, k, id)
             /\ id \in IdsOf[d] => k \in DOMAIN live[d] /\ id \in live[d][k].exposed
  <2>1. PICK p \in Everything(log) : o = p.objects
    BY <1>2, <1>5
  <2>2. PICK e \in Device : Exposes(e, k, id, o[k][id])
    BY <1>5, <2>1 DEF RuntimeInv, TransportInv, WireInv, Sent, Carries
  <2>3. id \in IdsOf[d] => e = d
    BY <2>2, RuntimeAssumption DEF Exposes
  <2>4. id \in IdsOf[d] => k \in DOMAIN live[d] /\ id \in live[d][k].exposed
    BY <2>2, <2>3, DeviceFacts DEF Exposes, Grows
  <2> QED
    BY <1>5, <2>1, <2>4 DEF States
<1> QED
  BY <1>3, <1>4, <1>5

\* Observing the fetched range and moving the cursor to the head it was read at.
LEMMA ObserveRange ==
    ASSUME RuntimeInv, NEW d \in Device, CanCombine(Fetched(d)),
           NEW seal, SealsAreOwn(d, seal),
           CanObserveProjection(live[d], Combined(Fetched(d)), seal),
           NEW e, ObservedAs(live[d], Fetched(d), seal, e)
    PROVE  /\ DurableInv(d, e, LogHead, record[d].outbox, log)
           /\ Grows(live[d], e)
<1> DEFINE c == live[d]
           P == Fetched(d)
           pubs == Everything(log)
           cursor == record[d].applied_cursor
           outbox == record[d].outbox
<1>1. DurableInv(d, c, cursor, outbox, log) /\ IdsOf[d] \subseteq RevisionId /\ Len(log) \in Nat
  BY DeviceFacts
<1>2. P \subseteq Projections /\ \A i \in cursor + 1 .. Len(log) : \A p \in log[i] : p.objects \in P
  BY FetchedFacts DEF FetchedRange, LogHead
<1>3. Known(d, c, P, pubs)
  BY FetchedFacts DEF Known
<1>4. ContainerInv(d, c, pubs)
  BY <1>1 DEF DurableInv
<1>5. /\ CanCombine(P)
      /\ CanObserveProjection(c, Combined(P), seal)
      /\ ObservedAs(c, P, seal, e)
  OBVIOUS
<1> HIDE DEF c, P, pubs, cursor, outbox
<1>6. /\ Grows(c, e)
      /\ ContainerInv(d, e, pubs)
      /\ \A k \in DOMAIN e : \A id \in e[k].handed_off :
            k \in DOMAIN c /\ id \in c[k].handed_off
      /\ \A p \in P : Contains(e, p)
  BY <1>1, <1>2, <1>3, <1>4, <1>5, ContainerObserve
<1>7. HandedInv(e, outbox, Prefix(log, cursor))
  BY <1>1, <1>6 DEF DurableInv, HandedInv
<1>8. \A i \in cursor + 1 .. Len(log) : \A p \in log[i] : Contains(e, p.objects)
  BY <1>2, <1>6
<1>9. DurableInv(d, e, Len(log), outbox, log)
  BY <1>1, <1>6, <1>7, <1>8, DurableReceive DEF pubs
<1> QED
  BY <1>6, <1>9 DEF c, outbox, LogHead

\* commit_received persists such a container with the head.
LEMMA ReceivedRecordFields ==
    ASSUME RuntimeInv, NEW d \in Device, NEW e
    PROVE  ReceivedRecord(d, e) =
               [trusted_state |-> e, applied_cursor |-> LogHead, outbox |-> record[d].outbox]
<1>1. IsRecord(record[d])
  BY DeviceFacts DEF RecordInv
<1> QED
  BY <1>1, RecordTransitions DEF ReceivedRecord

\* commit_received of a container that holds the range, whether its persist
\* returned Ok or not.
LEMMA ReceivedKeeps ==
    ASSUME RuntimeInv, NEW d \in Device, NEW e,
           DurableInv(d, e, LogHead, record[d].outbox, log), Grows(live[d], e),
           UNCHANGED <<log, late, bounds>>,
           \/ /\ PersistOk(d, ReceivedRecord(d, e))
              /\ (live' = live /\ e = live[d]) \/ live' = [live EXCEPT ![d] = e]
              /\ pass' = pass \/ \E where : pass' = [pass EXCEPT ![d] = where]
              /\ PassInv(d)'
           \/ /\ PersistErr(d, ReceivedRecord(d, e))
              /\ UNCHANGED live
              /\ (pass' = pass /\ pass[d].step = "idle") \/ pass' = [pass EXCEPT ![d] = Idle]
    PROVE  RuntimeInv'
<1> DEFINE rec == ReceivedRecord(d, e)
<1>1. rec = [trusted_state |-> e, applied_cursor |-> LogHead, outbox |-> record[d].outbox]
  BY ReceivedRecordFields
<1> HIDE DEF rec
<1>2. rec.trusted_state = e /\ rec.applied_cursor = LogHead /\ rec.outbox = record[d].outbox
  BY <1>1
<1>3. RecordInv(d, rec, log)
  BY <1>1, MadeRecord
<1>4. Grows(record[d].trusted_state, rec.trusted_state) /\ Grows(rec.trusted_state, e)
  BY <1>2, DeviceFacts, GrowsTransitive, GrowsReflexive
<1>5. DurableInv(d, e, rec.applied_cursor, rec.outbox, log)
  BY <1>2
<1>6. CASE /\ PersistOk(d, rec)
           /\ (live' = live /\ e = live[d]) \/ live' = [live EXCEPT ![d] = e]
           /\ pass' = pass \/ \E where : pass' = [pass EXCEPT ![d] = where]
           /\ PassInv(d)'
  BY <1>3, <1>4, <1>5, <1>6, Persisted
<1>7. CASE /\ PersistErr(d, rec)
           /\ UNCHANGED live
           /\ (pass' = pass /\ pass[d].step = "idle") \/ pass' = [pass EXCEPT ![d] = Idle]
  BY <1>3, <1>4, <1>7, NotPersisted
<1> QED
  BY <1>6, <1>7 DEF rec

\* A step that ends the pass and does nothing else.
LEMMA EndOfPassKeeps ==
    ASSUME RuntimeInv, NEW d \in Device, GoTo(d, Idle),
           UNCHANGED <<live, record, disk, log, late, bounds>>,
           Fault \/ UNCHANGED faults
    PROVE  RuntimeInv'
<1>1. ShapeInv /\ pass' = [pass EXCEPT ![d] = Idle]
  BY DEF RuntimeInv, GoTo
<1>2. PassInv(d)'
  BY <1>1, IdlePass DEF ShapeInv, Idle
<1>3. CountersInv'
  <2>1. CountersInv
    BY <1>1 DEF ShapeInv, CountersInv
  <2>2. CASE UNCHANGED faults
    BY <2>1, <2>2 DEF CountersInv, bounds
  <2> QED
    BY <2>1, <2>2, FaultCounted
<1> QED
  BY <1>1, <1>2, <1>3, QuietStep

\* A pass enters classification with evidence from the transport, and with
\* usable identities or nothing to publish.
LEMMA ClassifyPass ==
    ASSUME ShapeInv, NEW d \in Device, NEW evidence,
           pass' = [pass EXCEPT ![d] = Classify(d, evidence)],
           \A k \in DOMAIN evidence : \A id \in DOMAIN evidence[k] :
               \E p \in Prefix(log', record'[d].applied_cursor) : Carries(p.objects, k, id),
           Current(d)' = {} \/ (SealsUsable(d) /\ live' = live)
    PROVE  PassInv(d)'
<1>1. pass'[d] = Classify(d, evidence)
  BY DEF ShapeInv
<1>2. /\ pass'[d].step = "classify"
      /\ pass'[d].evidence = evidence
      /\ pass'[d].seal = pass[d].seal
  BY <1>1 DEF Classify
<1>3. Current(d)' # {} => SealsUsable(d)'
  BY <1>2 DEF SealsUsable
<1> QED
  BY <1>2, <1>3 DEF PassInv, InPass, PassSteps

\* catch_up_scalar_recovery_state with nothing to fetch.
LEMMA CatchUpUpToDateKeeps ==
    ASSUME RuntimeInv, NEW d \in Device, CatchUpUpToDate(d)
    PROVE  RuntimeInv'
<1>1. /\ ShapeInv /\ pass[d].step = "fetch"
      /\ pass' = [pass EXCEPT ![d] = Classify(d, NoEvidence)]
      /\ UNCHANGED <<live, record, disk, log, late, bounds, faults>>
  BY DEF CatchUpUpToDate, GoTo, RuntimeInv, InPass
<1>2. SealsUsable(d)
  BY <1>1, DeviceFacts DEF PassInv, InPass
<1>3. DOMAIN NoEvidence = {}
  BY DEF NoEvidence
<1>4. PassInv(d)'
  BY <1>1, <1>2, <1>3, ClassifyPass
<1>5. CountersInv'
  BY <1>1 DEF ShapeInv, CountersInv, bounds
<1> QED
  BY <1>1, <1>4, <1>5, QuietStep

\* catch_up_scalar_recovery_state over commits without sync objects.
LEMMA CatchUpEmptyKeeps ==
    ASSUME RuntimeInv, NEW d \in Device, CatchUpEmpty(d)
    PROVE  RuntimeInv'
<1>1. /\ ShapeInv /\ pass[d].step = "fetch" /\ Fetched(d) = {}
      /\ UNCHANGED <<live, log, late, bounds>>
      /\ \/ /\ PersistOk(d, ReceivedRecord(d, live[d]))
            /\ pass' = [pass EXCEPT ![d] = Classify(d, NoEvidence)]
         \/ /\ PersistErr(d, ReceivedRecord(d, live[d]))
            /\ pass' = [pass EXCEPT ![d] = Idle]
  BY DEF CatchUpEmpty, GoTo, RuntimeInv, InPass
<1>2. DurableInv(d, live[d], LogHead, record[d].outbox, log)
  <2>1. \A i \in record[d].applied_cursor + 1 .. Len(log) : \A p \in log[i] :
           Contains(live[d], p.objects)
    BY <1>1, FetchedFacts DEF FetchedRange, LogHead
  <2>2. /\ DurableInv(d, live[d], record[d].applied_cursor, record[d].outbox, log)
        /\ Len(log) \in Nat
    BY DeviceFacts
  <2>3. /\ ContainerInv(d, live[d], Everything(log))
        /\ HandedInv(live[d], record[d].outbox, Prefix(log, record[d].applied_cursor))
    BY <2>2 DEF DurableInv
  <2> QED
    BY <2>1, <2>2, <2>3, GrowsReflexive, DurableReceive DEF LogHead
<1>3. Grows(live[d], live[d])
  BY GrowsReflexive
<1>4. CASE /\ PersistOk(d, ReceivedRecord(d, live[d]))
           /\ pass' = [pass EXCEPT ![d] = Classify(d, NoEvidence)]
  <2>1. SealsUsable(d)
    BY <1>1, DeviceFacts DEF PassInv, InPass
  <2>2. DOMAIN NoEvidence = {}
    BY DEF NoEvidence
  <2>3. PassInv(d)'
    BY <1>1, <1>4, <2>1, <2>2, ClassifyPass
  <2> QED
    BY <1>1, <1>2, <1>3, <1>4, <2>3, ReceivedKeeps
<1>5. CASE /\ PersistErr(d, ReceivedRecord(d, live[d]))
           /\ pass' = [pass EXCEPT ![d] = Idle]
  BY <1>1, <1>2, <1>3, <1>5, ReceivedKeeps
<1> QED
  BY <1>1, <1>4, <1>5

\* catch_up_scalar_recovery_state over a range that is observed.
LEMMA CatchUpApplyKeeps ==
    ASSUME RuntimeInv, NEW d \in Device, CatchUpApply(d)
    PROVE  RuntimeInv'
<1> DEFINE e == Candidate(d)
           R == Combined(Fetched(d))
           rec == ReceivedRecord(d, e)
<1>1. /\ ShapeInv /\ pass[d].step = "fetch" /\ Fetched(d) # {} /\ CanCatchUp(d)
      /\ UNCHANGED <<log, late, bounds>>
      /\ \/ /\ PersistOk(d, rec)
            /\ live' = [live EXCEPT ![d] = e]
            /\ pass' = [pass EXCEPT ![d] = Classify(d, R)]
         \/ /\ PersistErr(d, rec)
            /\ UNCHANGED live
            /\ pass' = [pass EXCEPT ![d] = Idle]
  BY DEF CatchUpApply, GoTo, SetLive, RuntimeInv, InPass
<1>2. SealsUsable(d)
  BY <1>1, DeviceFacts DEF PassInv, InPass
<1>3. Fetched(d) \subseteq Projections
  BY FetchedFacts
<1>4. ObservedAs(live[d], Fetched(d), pass[d].seal, e)
  <2>1. DOMAIN R = TouchedBy(Fetched(d))
    BY <1>3, CombinedContents
  <2> QED
    BY <2>1 DEF ObservedAs, Candidate, ObserveProjection
<1>5. /\ CanCombine(Fetched(d))
      /\ CanObserveProjection(live[d], R, pass[d].seal)
      /\ SealsAreOwn(d, pass[d].seal)
  BY <1>1, <1>2 DEF CanCatchUp, SealsAreOwn, SealsUsable
<1>6. DurableInv(d, e, LogHead, record[d].outbox, log) /\ Grows(live[d], e)
  <2> HIDE DEF e
  <2> QED
    BY <1>4, <1>5, ObserveRange
<1>7. CASE /\ PersistOk(d, rec)
           /\ live' = [live EXCEPT ![d] = e]
           /\ pass' = [pass EXCEPT ![d] = Classify(d, R)]
  <2>1. \A k \in DOMAIN R : \A id \in DOMAIN R[k] :
           \E p \in Prefix(log', record'[d].applied_cursor) : Carries(p.objects, k, id)
    <3>1. \A k \in DOMAIN R : \A id \in DOMAIN R[k] :
             \E p \in Everything(log) : Carries(p.objects, k, id)
      BY <1>1, <1>3, CombinedContents, FetchedFacts
    <3>2. record'[d].applied_cursor = LogHead
      BY <1>1, <1>7, ReceivedRecordFields DEF PersistOk, ShapeInv
    <3> QED
      BY <1>1, <3>1, <3>2 DEF Everything, LogHead
  <2>2. Current(d)' = {}
    <3>1. record'[d] = rec
      BY <1>1, <1>7 DEF PersistOk, ShapeInv
    <3>2. record'[d].applied_cursor = LogHead /\ record'[d].outbox = record[d].outbox
      BY <3>1, ReceivedRecordFields
    <3>3. record[d].applied_cursor < LogHead
      <4>1. FetchedRange(d) # {}
        BY <1>1 DEF Fetched, Publications
      <4> QED
        BY <4>1, DeviceFacts DEF FetchedRange, LogHead
    <3>4. ASSUME NEW p \in DOMAIN record[d].outbox
          PROVE  record[d].outbox[p].expected_cursor # LogHead
      <4>1. /\ record[d].outbox[p].expected_cursor \in Nat
            /\ record[d].outbox[p].expected_cursor <= record[d].applied_cursor
        BY <3>4, DeviceFacts
        DEF DurableInv, OutboxInv, EntryInv, OutboxEntry, Cursors, ClaimsInv
      <4> QED
        BY <4>1, <3>3, DeviceFacts DEF LogHead
    <3> QED
      BY <3>2, <3>4 DEF Current, Stale
  <2> HIDE DEF R, e, rec
  <2>3. PassInv(d)'
    BY <1>1, <1>7, <2>1, <2>2, ClassifyPass
  <2> QED
    BY <1>1, <1>6, <1>7, <2>3, ReceivedKeeps DEF rec
<1>8. CASE /\ PersistErr(d, rec)
           /\ UNCHANGED live
           /\ pass' = [pass EXCEPT ![d] = Idle]
  <2> HIDE DEF e
  <2> QED
    BY <1>1, <1>6, <1>8, ReceivedKeeps
<1> QED
  BY <1>1, <1>7, <1>8

\* commit_received_recovery_scalar_domain by the application itself.
LEMMA ReceiveOneDomainKeeps ==
    ASSUME RuntimeInv, NEW d \in Device, NEW keys \in SUBSET Dirty(d),
           NEW seal \in SealChoices(d, keys), ReceiveOneDomain(d, seal)
    PROVE  RuntimeInv'
<1> DEFINE R == Combined(Fetched(d))
           E(k) == [live[d] EXCEPT ![k] = ObserveRemote(live[d][k], R[k], SealIdOf(seal, k))]
<1>1. PICK k \in DOMAIN live[d] :
        /\ TouchedBy(Fetched(d)) = {k}
        /\ CanCombine(Fetched(d))
        /\ CanObserveProjection(live[d], R, seal)
        /\ \/ PersistOk(d, ReceivedRecord(d, E(k))) /\ live' = [live EXCEPT ![d] = E(k)]
           \/ PersistErr(d, ReceivedRecord(d, E(k))) /\ UNCHANGED live
  BY DEF ReceiveOneDomain, SetLive
<1>2. UNCHANGED <<log, late, pass, bounds>> /\ pass[d].step = "idle"
  BY DEF ReceiveOneDomain, InPass
<1>3. SealsAreOwn(d, seal)
  BY SealChoicesUsable DEF SealsAreOwn
<1>4. ObservedAs(live[d], Fetched(d), seal, E(k))
  BY <1>1 DEF ObservedAs
<1> DEFINE e == E(k)
<1> HIDE DEF e
<1>5. DurableInv(d, e, LogHead, record[d].outbox, log) /\ Grows(live[d], e)
  BY <1>1, <1>3, <1>4, ObserveRange DEF e
<1>6. PassInv(d)'
  BY <1>2, IdlePass
<1>7. CASE PersistOk(d, ReceivedRecord(d, e)) /\ live' = [live EXCEPT ![d] = e]
  BY <1>2, <1>5, <1>6, <1>7, ReceivedKeeps
<1>8. CASE PersistErr(d, ReceivedRecord(d, e)) /\ UNCHANGED live
  BY <1>2, <1>5, <1>8, ReceivedKeeps
<1> QED
  BY <1>1, <1>7, <1>8 DEF e

-----------------------------------------------------------------------------
(* Reconciling preserves the invariant *)

\* Retiring publications in memory and on disk; the live container stays.
LEMMA RetireKeeps ==
    ASSUME RuntimeInv, NEW d \in Device, NEW pubs, NEW head,
           DurableInv(d, record[d].trusted_state, head, Without(record[d].outbox, pubs), log),
           DurableInv(d, live[d], head, Without(record[d].outbox, pubs), log),
           UNCHANGED <<live, log, late, bounds>>,
           \/ /\ PersistOk(d, ReconciledRecord(d, pubs, head))
              /\ \E where : pass' = [pass EXCEPT ![d] = where]
              /\ PassInv(d)'
           \/ /\ PersistErr(d, ReconciledRecord(d, pubs, head))
              /\ pass' = [pass EXCEPT ![d] = Idle]
    PROVE  RuntimeInv'
<1> DEFINE rec == ReconciledRecord(d, pubs, head)
           new == Without(record[d].outbox, pubs)
<1>1. rec = [trusted_state |-> record[d].trusted_state, applied_cursor |-> head, outbox |-> new]
  BY DeviceFacts, RecordTransitions DEF ReconciledRecord, RecordInv
<1> HIDE DEF rec, new
<1>2. rec.trusted_state = record[d].trusted_state /\ rec.applied_cursor = head /\ rec.outbox = new
  BY <1>1
<1>3. RecordInv(d, rec, log)
  BY <1>1, MadeRecord DEF new
<1>4. Grows(record[d].trusted_state, rec.trusted_state) /\ Grows(rec.trusted_state, live[d])
  BY <1>2, DeviceFacts, GrowsReflexive
<1>5. DurableInv(d, live[d], rec.applied_cursor, rec.outbox, log)
  BY <1>2 DEF new
<1>6. CASE /\ PersistOk(d, rec)
           /\ \E where : pass' = [pass EXCEPT ![d] = where]
           /\ PassInv(d)'
  BY <1>3, <1>4, <1>5, <1>6, Persisted
<1>7. CASE PersistErr(d, rec) /\ pass' = [pass EXCEPT ![d] = Idle]
  BY <1>3, <1>4, <1>7, NotPersisted
<1> QED
  BY <1>6, <1>7 DEF rec

\* The pass ends, or goes on to publish entries that are still pending.
LEMMA AfterStalePass ==
    ASSUME ShapeInv, NEW d \in Device, NEW unresolved,
           pass' = [pass EXCEPT ![d] = AfterStale(d, unresolved)],
           live' = live, Current(d) # {} => SealsUsable(d),
           Current(d) \subseteq DOMAIN record'[d].outbox
    PROVE  PassInv(d)'
<1>1. pass'[d] = AfterStale(d, unresolved)
  BY DEF ShapeInv
<1>2. CASE unresolved # {} \/ Current(d) = {}
  BY <1>1, <1>2, IdlePass DEF AfterStale, Idle
<1>3. CASE unresolved = {} /\ Current(d) # {}
  <2>1. /\ pass'[d].step = "publish"
        /\ pass'[d].seal = pass[d].seal
        /\ pass'[d].batch = Current(d)
    BY <1>1, <1>3 DEF AfterStale
  <2>2. SealsUsable(d)'
    BY <1>3, <2>1 DEF SealsUsable
  <2> QED
    BY <2>1, <2>2 DEF PassInv, InPass, PassSteps
<1> QED
  BY <1>2, <1>3

\* Stale publications whose revisions were all fetched are retired.
LEMMA ReconcileObservedKeeps ==
    ASSUME RuntimeInv, NEW d \in Device, ReconcileObserved(d)
    PROVE  RuntimeInv'
<1> DEFINE c == record[d].trusted_state
           cursor == record[d].applied_cursor
           outbox == record[d].outbox
           pubs == Observed(d)
           rec == ReconciledRecord(d, pubs, cursor)
<1>1. /\ ShapeInv /\ pass[d].step = "classify"
      /\ UNCHANGED <<live, log, late, bounds>>
      /\ \/ /\ PersistOk(d, rec)
            /\ pass' = [pass EXCEPT ![d] = AfterStale(d, Stale(d) \ Observed(d))]
         \/ PersistErr(d, rec) /\ pass' = [pass EXCEPT ![d] = Idle]
  BY DEF ReconcileObserved, GoTo, RuntimeInv, InPass
<1>2. /\ DurableInv(d, c, cursor, outbox, log)
      /\ DurableInv(d, live[d], cursor, outbox, log)
      /\ Len(log) \in Nat /\ cursor \in 0 .. Len(log) /\ cursor <= cursor
  BY DeviceFacts
<1>3. /\ \A k \in DOMAIN pass[d].evidence : \A id \in DOMAIN pass[d].evidence[k] :
            \E p \in Prefix(log, cursor) : Carries(p.objects, k, id)
      /\ Current(d) # {} => SealsUsable(d)
  BY <1>1, DeviceFacts DEF PassInv, InPass
<1>4. \A p \in pubs : p \in DOMAIN outbox =>
         \A k, id : Carries(outbox[p].objects, k, id) =>
             \E q \in Prefix(log, cursor) : Carries(q.objects, k, id)
  BY <1>3 DEF Observed, ProjectionIsObserved, Carries
<1>5. /\ \A p \in Prefix(log, cursor) : Contains(c, p.objects)
      /\ \A p \in Prefix(log, cursor) : Contains(live[d], p.objects)
  BY <1>2 DEF DurableInv
<1>6. /\ DurableInv(d, c, cursor, Without(outbox, pubs), log)
      /\ DurableInv(d, live[d], cursor, Without(outbox, pubs), log)
  <2> HIDE DEF c, cursor, outbox, pubs
  <2> QED
    BY <1>2, <1>4, <1>5, DurableRetire
<1>7. CASE /\ PersistOk(d, rec)
           /\ pass' = [pass EXCEPT ![d] = AfterStale(d, Stale(d) \ Observed(d))]
  <2>1. record'[d] = rec
    BY <1>1, <1>7 DEF PersistOk, ShapeInv
  <2>2. rec.outbox = Without(outbox, pubs)
    BY DeviceFacts, RecordTransitions DEF ReconciledRecord, RecordInv
  <2>3. Current(d) \subseteq DOMAIN record'[d].outbox
    BY <2>1, <2>2 DEF Without, Current, Observed
  <2>4. PassInv(d)'
    BY <1>1, <1>3, <1>7, <2>3, AfterStalePass
  <2> QED
    BY <1>1, <1>6, <1>7, <2>4, RetireKeeps
<1>8. CASE PersistErr(d, rec) /\ pass' = [pass EXCEPT ![d] = Idle]
  BY <1>1, <1>6, <1>8, RetireKeeps
<1> QED
  BY <1>1, <1>7, <1>8

\* No stale publication was observed.
LEMMA NothingObservedKeeps ==
    ASSUME RuntimeInv, NEW d \in Device, NothingObserved(d)
    PROVE  RuntimeInv'
<1>1. /\ ShapeInv /\ pass[d].step = "classify"
      /\ pass' = [pass EXCEPT ![d] = AfterStale(d, Stale(d))]
      /\ UNCHANGED <<live, record, disk, log, late, bounds, faults>>
  BY DEF NothingObserved, GoTo, RuntimeInv, InPass
<1>2. Current(d) # {} => SealsUsable(d)
  BY <1>1, DeviceFacts DEF PassInv, InPass
<1>3. Current(d) \subseteq DOMAIN record'[d].outbox
  BY <1>1 DEF Current
<1>4. PassInv(d)'
  BY <1>1, <1>2, <1>3, AfterStalePass
<1>5. CountersInv'
  BY <1>1 DEF ShapeInv, CountersInv, bounds
<1> QED
  BY <1>1, <1>4, <1>5, QuietStep

\* A lost compare-and-swap: the second pass gets the seal identities, which
\* nothing has used.
LEMMA PublishConflictKeeps ==
    ASSUME RuntimeInv, NEW d \in Device, PublishConflict(d)
    PROVE  RuntimeInv'
<1> DEFINE again == [step |-> "fetch", attempt |-> 2, seal |-> pass[d].seal]
<1>1. /\ ShapeInv /\ pass[d].step = "publish"
      /\ \/ pass' = [pass EXCEPT ![d] = again]
         \/ pass' = [pass EXCEPT ![d] = Idle]
      /\ UNCHANGED <<live, record, disk, log, late, bounds, faults>>
  BY DEF PublishConflict, GoTo, RuntimeInv, InPass
<1>2. CASE pass' = [pass EXCEPT ![d] = again]
  <2>1. pass'[d] = again
    BY <1>1, <1>2 DEF ShapeInv
  <2>2. pass'[d].step = "fetch" /\ pass'[d].seal = pass[d].seal
    BY <2>1
  <2>3. SealsUsable(d)
    BY <1>1, DeviceFacts DEF PassInv, InPass
  <2>4. SealsUsable(d)'
    BY <1>1, <2>2, <2>3 DEF SealsUsable
  <2>5. PassInv(d)'
    BY <2>2, <2>4 DEF PassInv, InPass, PassSteps
  <2>6. CountersInv'
    BY <1>1 DEF ShapeInv, CountersInv, bounds
  <2> QED
    BY <1>1, <1>2, <2>5, <2>6, QuietStep
<1>3. CASE pass' = [pass EXCEPT ![d] = Idle]
  BY <1>1, <1>3, EndOfPassKeeps DEF GoTo
<1> QED
  BY <1>1, <1>2, <1>3

\* The acknowledged batch: it is the commit after the cursor, and the container
\* holds what it carries.
LEMMA ReconcilePublishedKeeps ==
    ASSUME RuntimeInv, NEW d \in Device, ReconcilePublished(d)
    PROVE  RuntimeInv'
<1> DEFINE cursor == record[d].applied_cursor
           outbox == record[d].outbox
           pubs == pass[d].batch
           head == pass[d].head
           rec == ReconciledRecord(d, pubs, head)
<1>1. /\ ShapeInv /\ pass[d].step = "reconcile"
      /\ UNCHANGED <<live, log, late, bounds>>
      /\ pass' = [pass EXCEPT ![d] = Idle]
      /\ PersistOk(d, rec) \/ PersistErr(d, rec)
  BY DEF ReconcilePublished, GoTo, RuntimeInv, InPass
<1>2. /\ DurableInv(d, record[d].trusted_state, cursor, outbox, log)
      /\ DurableInv(d, live[d], cursor, outbox, log)
      /\ Len(log) \in Nat /\ cursor \in Nat
  BY DeviceFacts
<1>3. /\ pubs \subseteq DOMAIN outbox
      /\ head = cursor + 1
      /\ head \in 1 .. Len(log)
      /\ log[head] = { [publication_id |-> p, objects |-> outbox[p].objects] : p \in pubs }
  BY <1>1, DeviceFacts DEF PassInv, InPass, LogHead
<1> HIDE DEF cursor, outbox, pubs, head
<1>4. log[head] \subseteq Prefix(log, head)
  BY <1>2, <1>3 DEF Prefix
<1>5. \A p \in pubs : p \in DOMAIN outbox =>
         \A k, id : Carries(outbox[p].objects, k, id) =>
             \E q \in Prefix(log, head) : Carries(q.objects, k, id)
  <2>1. ASSUME NEW p \in pubs
        PROVE  \E q \in Prefix(log, head) : q.objects = outbox[p].objects
    <3> DEFINE q == [publication_id |-> p, objects |-> outbox[p].objects]
    <3>1. q \in log[head]
      BY <1>3, <2>1
    <3>2. q \in Prefix(log, head) /\ q.objects = outbox[p].objects
      BY <1>4, <3>1
    <3> QED
      BY <3>2
  <2> QED
    BY <2>1
<1>6. ASSUME NEW c, DurableInv(d, c, cursor, outbox, log)
      PROVE  DurableInv(d, c, head, Without(outbox, pubs), log)
  <2>1. ASSUME NEW p \in Prefix(log, head) PROVE Contains(c, p.objects)
    <3>1. p \in Prefix(log, cursor) \/ p \in log[head]
      BY <1>2, <1>3, <2>1 DEF Prefix
    <3>2. CASE p \in Prefix(log, cursor)
      BY <1>6, <3>2 DEF DurableInv
    <3>3. CASE p \in log[head]
      <4>1. PICK q \in pubs : p = [publication_id |-> q, objects |-> outbox[q].objects]
        BY <1>3, <3>3
      <4>2. EntryInv(d, c, outbox[q]) /\ p.objects = outbox[q].objects
        BY <1>3, <1>6, <4>1 DEF DurableInv, OutboxInv
      <4> QED
        BY <4>2 DEF EntryInv
    <3> QED
      BY <3>1, <3>2, <3>3
  <2>2. head \in 0 .. Len(log) /\ cursor <= head
    BY <1>2, <1>3
  <2> QED
    BY <1>2, <1>5, <1>6, <2>1, <2>2, DurableRetire
<1>7. PassInv(d)'
  BY <1>1, IdlePass DEF ShapeInv, Idle
<1>8. /\ DurableInv(d, record[d].trusted_state, head, Without(outbox, pubs), log)
      /\ DurableInv(d, live[d], head, Without(outbox, pubs), log)
  BY <1>2, <1>6
<1> QED
  BY <1>1, <1>7, <1>8, RetireKeeps DEF outbox

-----------------------------------------------------------------------------
(* The transport preserves the invariant *)

\* A device that did nothing while a commit was added.
LEMMA DeviceOnLongerLog ==
    ASSUME NEW e, DeviceInv(e), NEW T, log \in Seq(T), NEW pubs \in T,
           log' = Append(log, pubs), UNCHANGED <<live, record, disk>>,
           pass'[e] = pass[e] \/ PassInv(e)'
    PROVE  DeviceInv(e)'
<1>1. /\ Len(log) \in Nat /\ Len(log') = Len(log) + 1
      /\ \A i \in 1 .. Len(log) : log'[i] = log[i]
  OBVIOUS
<1>3. PassInv(e)'
  <2>1. CASE pass'[e] = pass[e]
    <3>1. SealsUsable(e) => SealsUsable(e)'
      BY <2>1 DEF SealsUsable
    <3>2. Current(e)' = Current(e)
      BY DEF Current, Stale
    <3>3. PassInv(e)
      BY DEF DeviceInv
    <3>4. InPass(e, "classify")' =>
             \A k \in DOMAIN pass'[e].evidence : \A id \in DOMAIN pass'[e].evidence[k] :
                 \E p \in Prefix(log', record'[e].applied_cursor) : Carries(p.objects, k, id)
      <4>1. Prefix(log', record'[e].applied_cursor) = Prefix(log, record[e].applied_cursor)
        <5>1. record[e].applied_cursor \in 0 .. Len(log)
          BY DEF DeviceInv, DurableInv
        <5> QED
          BY <1>1, <5>1 DEF Prefix
      <4> QED
        BY <2>1, <3>3, <4>1 DEF PassInv, InPass
    <3>5. InPass(e, "reconcile")' =>
             /\ pass'[e].head \in 1 .. LogHead'
             /\ log'[pass'[e].head] = log[pass[e].head]
      BY <1>1, <2>1, <3>3 DEF PassInv, InPass, LogHead
    <3> QED
      BY <2>1, <3>1, <3>2, <3>3, <3>4, <3>5 DEF PassInv, InPass
  <2> QED
    BY <2>1
<1>4. \A rec \in disk'[e] :
         RecordInv(e, rec, log') /\ Grows(record'[e].trusted_state, rec.trusted_state)
  BY DurableAppend DEF DeviceInv, RecordInv
<1>5. DurableInv(e, live'[e], record'[e].applied_cursor, record'[e].outbox, log')
  BY DurableAppend DEF DeviceInv
<1> QED
  BY <1>3, <1>4, <1>5 DEF DeviceInv

\* Adding a commit whose publications are whole, new and exposed.
LEMMA AppendKeeps ==
    ASSUME RuntimeInv, NEW pubs,
           pubs \subseteq [publication_id : PublicationId, objects : Projections],
           GoodPublications(pubs),
           PublicationIds(pubs) \cap PublicationIds(Everything(log)) = {},
           \A p \in pubs : \A k \in DOMAIN p.objects : \A id \in DOMAIN p.objects[k] :
               \E d \in Device : Exposes(d, k, id, p.objects[k][id]),
           log' = Append(log, pubs), late' \subseteq late,
           UNCHANGED <<live, record, disk>>, CountersInv', DOMAIN pass' = Device,
           \A e \in Device : pass'[e] = pass[e] \/ PassInv(e)'
    PROVE  RuntimeInv'
<1> DEFINE T == SUBSET [publication_id : PublicationId, objects : Projections]
<1>1. log \in Seq(T) /\ pubs \in T
  BY DEF RuntimeInv, TransportInv
<1> HIDE DEF T
<1>2. /\ Len(log) \in Nat /\ Len(log') = Len(log) + 1
      /\ \A i \in 1 .. Len(log) : log'[i] = log[i]
      /\ log'[Len(log) + 1] = pubs
      /\ log' \in Seq(T)
  BY <1>1
<1>3. Everything(log') = Everything(log) \cup pubs
  BY <1>2 DEF Everything, Prefix
<1>4. Distinct(log')
  <2>1. Distinct(log)
    BY DEF RuntimeInv, TransportInv
  <2>2. \A i \in 1 .. Len(log) : PublicationIds(log[i]) \cap PublicationIds(pubs) = {}
    <3>1. \A i \in 1 .. Len(log) : PublicationIds(log[i]) \subseteq PublicationIds(Everything(log))
      BY DEF PublicationIds, Everything, Prefix
    <3> QED
      BY <3>1
  <2>3. ASSUME NEW i \in 1 .. Len(log'), NEW j \in 1 .. Len(log'), i # j
        PROVE  PublicationIds(log'[i]) \cap PublicationIds(log'[j]) = {}
    <3>1. CASE i \in 1 .. Len(log) /\ j \in 1 .. Len(log)
      BY <1>2, <2>1, <2>3, <3>1 DEF Distinct
    <3>2. CASE i = Len(log) + 1
      <4>1. j \in 1 .. Len(log)
        BY <1>2, <2>3, <3>2
      <4> QED
        BY <1>2, <2>2, <3>2, <4>1
    <3>3. CASE j = Len(log) + 1
      <4>1. i \in 1 .. Len(log)
        BY <1>2, <2>3, <3>3
      <4> QED
        BY <1>2, <2>2, <3>3, <4>1
    <3>4. \/ i \in 1 .. Len(log) /\ j \in 1 .. Len(log)
          \/ i = Len(log) + 1
          \/ j = Len(log) + 1
      BY <1>2, <2>3
    <3> QED
      BY <3>1, <3>2, <3>3, <3>4
  <2> QED
    BY <2>3 DEF Distinct
<1>5. GoodPublications(Everything(log'))
  BY <1>3 DEF GoodPublications, RuntimeInv, TransportInv
<1>6. ASSUME NEW q \in late' PROVE LateInv(q)'
  <2>1. LateInv(q)
    BY <1>6 DEF RuntimeInv, TransportInv
  <2>2. q.expected \subseteq 0 .. LogHead' /\ q.expected # {LogHead'}
    <3>1. q.expected \subseteq 0 .. Len(log)
      BY <2>1 DEF LateInv, LogHead
    <3>2. Len(log') \notin 0 .. Len(log) /\ 0 .. Len(log) \subseteq 0 .. Len(log')
      BY <1>2
    <3> QED
      BY <3>1, <3>2 DEF LogHead
  <2> QED
    BY <2>1, <2>2 DEF LateInv, Accepts
<1>7. WireInv'
  <2>1. ASSUME NEW p \in Sent', NEW k \in DOMAIN p.objects, NEW id \in DOMAIN p.objects[k]
        PROVE  \E d \in Device : Exposes(d, k, id, p.objects[k][id])
    <3>1. p \in Sent \/ p \in pubs
      BY <1>3, <2>1 DEF Sent
    <3>2. WireInv
      BY DEF RuntimeInv, TransportInv
    <3> QED
      BY <2>1, <3>1, <3>2 DEF WireInv
  <2>2. \A d, k, id, revision : Exposes(d, k, id, revision)' <=> Exposes(d, k, id, revision)
    BY DEF Exposes
  <2> QED
    BY <2>1, <2>2 DEF WireInv
<1>8. TransportInv'
  BY <1>2, <1>4, <1>5, <1>6, <1>7 DEF TransportInv, T
<1>9. ASSUME NEW e \in Device PROVE DeviceInv(e)'
  BY <1>1, <1>9, DeviceOnLongerLog DEF RuntimeInv
<1>10. ShapeInv'
  BY DEF RuntimeInv, ShapeInv, CountersInv
<1> QED
  BY <1>8, <1>9, <1>10 DEF RuntimeInv

\* What publish_staged_batch sends: staged entries, whole and exposed; if the
\* transport is where they expect it, none of them was published before.
LEMMA BatchFacts ==
    ASSUME RuntimeInv, NEW d \in Device, InPass(d, "publish")
    PROVE  LET r == BatchRequest(d)
           IN  /\ r.publications \subseteq [publication_id : PublicationId, objects : Projections]
               /\ GoodPublications(r.publications)
               /\ r.expected \subseteq 0 .. LogHead
               /\ Accepts(r) =>
                     PublicationIds(r.publications) \cap PublicationIds(Everything(log)) = {}
               /\ \A p \in r.publications : \A k \in DOMAIN p.objects :
                     \A id \in DOMAIN p.objects[k] :
                         \E e \in Device : Exposes(e, k, id, p.objects[k][id])
<1> DEFINE c == record[d].trusted_state
           cursor == record[d].applied_cursor
           outbox == record[d].outbox
           batch == pass[d].batch
           P == { [publication_id |-> p, objects |-> outbox[p].objects] : p \in batch }
           E == { outbox[p].expected_cursor : p \in batch }
<1>1. BatchRequest(d).publications = P /\ BatchRequest(d).expected = E
  BY DEF BatchRequest
<1>2. batch \subseteq DOMAIN outbox
  BY DeviceFacts DEF PassInv
<1>3. /\ DurableInv(d, c, cursor, outbox, log) /\ Len(log) \in Nat /\ cursor \in Nat
      /\ cursor <= Len(log) /\ PubsOf[d] \subseteq PublicationId
  BY DeviceFacts
<1> HIDE DEF c, cursor, outbox, batch
<1>4. ASSUME NEW p \in batch
      PROVE  /\ p \in PublicationId
             /\ EntryInv(d, c, outbox[p])
             /\ outbox[p].objects \in Projections
             /\ outbox[p].expected_cursor \in 0 .. Len(log)
             /\ p \in PublicationIds(Everything(log)) => outbox[p].expected_cursor < Len(log)
  <2>1. p \in PublicationId /\ EntryInv(d, c, outbox[p])
    BY <1>2, <1>3, <1>4 DEF DurableInv, OutboxInv
  <2>2. outbox[p].objects \in Projections /\ outbox[p].expected_cursor \in Nat
    BY <2>1 DEF EntryInv, OutboxEntry, Cursors
  <2>3. /\ outbox[p].expected_cursor <= cursor
        /\ p \in PublicationIds(Everything(log)) => outbox[p].expected_cursor < Len(log)
    BY <1>2, <1>3, <1>4 DEF DurableInv, ClaimsInv
  <2> QED
    BY <1>3, <2>1, <2>2, <2>3
<1>5. \A q \in P : \E p \in batch :
         q.publication_id = p /\ q.objects = outbox[p].objects
         /\ q \in [publication_id : PublicationId, objects : Projections]
  BY <1>4
<1>6. GoodPublications(P)
  BY <1>4, <1>5 DEF GoodPublications, EntryInv
<1>7. E \subseteq 0 .. LogHead
  BY <1>4 DEF LogHead
<1>8. ASSUME E = {LogHead} PROVE PublicationIds(P) \cap PublicationIds(Everything(log)) = {}
  <2>1. ASSUME NEW p \in batch PROVE p \notin PublicationIds(Everything(log))
    <3>1. outbox[p].expected_cursor = Len(log)
      BY <1>8, <2>1 DEF LogHead
    <3> QED
      BY <1>3, <1>4, <2>1, <3>1
  <2>2. \A id \in PublicationIds(P) : id \in batch
    BY <1>5 DEF PublicationIds
  <2> QED
    BY <2>1, <2>2
<1>9. ASSUME NEW q \in P, NEW k \in DOMAIN q.objects, NEW id \in DOMAIN q.objects[k]
      PROVE  \E e \in Device : Exposes(e, k, id, q.objects[k][id])
  <2>1. PICK p \in batch : q.objects = outbox[p].objects
    BY <1>5, <1>9
  <2>2. /\ k \in DOMAIN c
        /\ Extended(q.objects[k], c[k].causal)
        /\ DOMAIN q.objects[k] \cap IdsOf[d] \subseteq c[k].exposed
    BY <1>4, <1>9, <2>1 DEF EntryInv, Contains
  <2>3. id \in DOMAIN c[k].causal /\ c[k].causal[id] = q.objects[k][id]
    BY <1>9, <2>2 DEF Extended
  <2>4. CASE id \in IdsOf[d]
    BY <1>9, <2>2, <2>3, <2>4 DEF Exposes, c
  <2>5. CASE id \notin IdsOf[d]
    <3>1. States(Everything(log), k, id, c[k].causal[id])
      BY <1>3, <2>2, <2>3, <2>5 DEF DurableInv, ContainerInv, DomainInv
    <3>2. PICK w \in Everything(log) :
             Carries(w.objects, k, id) /\ w.objects[k][id] = q.objects[k][id]
      BY <2>3, <3>1 DEF States
    <3> QED
      BY <3>2 DEF RuntimeInv, TransportInv, WireInv, Sent, Carries
  <2> QED
    BY <2>4, <2>5
<1> HIDE DEF P, E
<1>10. Accepts(BatchRequest(d)) => E = {LogHead}
  BY <1>1 DEF Accepts
<1>11. P \subseteq [publication_id : PublicationId, objects : Projections]
  BY <1>5
<1> QED
  BY <1>1, <1>6, <1>7, <1>8, <1>9, <1>10, <1>11

\* publish_staged_batch that the transport accepts.
LEMMA PublishAcceptedKeeps ==
    ASSUME RuntimeInv, NEW d \in Device, PublishAccepted(d)
    PROVE  RuntimeInv'
<1> DEFINE r == BatchRequest(d)
           cursor == record[d].applied_cursor
           batch == pass[d].batch
<1>1. /\ ShapeInv /\ InPass(d, "publish") /\ Accepts(r)
      /\ log' = Append(log, r.publications)
      /\ pass' = [pass EXCEPT ![d] =
                    [step |-> "reconcile", batch |-> batch, head |-> LogHead + 1]]
      /\ UNCHANGED <<live, record, disk, late, bounds, faults>>
  BY DEF PublishAccepted, GoTo, RuntimeInv
<1>2. /\ r.publications \subseteq [publication_id : PublicationId, objects : Projections]
      /\ GoodPublications(r.publications)
      /\ PublicationIds(r.publications) \cap PublicationIds(Everything(log)) = {}
      /\ \A p \in r.publications : \A k \in DOMAIN p.objects : \A id \in DOMAIN p.objects[k] :
            \E e \in Device : Exposes(e, k, id, p.objects[k][id])
  BY <1>1, BatchFacts
<1>3. cursor = Len(log)
  <2>1. PICK p \in batch : record[d].outbox[p].expected_cursor = Len(log)
    <3>1. Len(log) \in r.expected
      BY <1>1 DEF Accepts, LogHead
    <3> QED
      BY <3>1 DEF BatchRequest
  <2>2. p \in DOMAIN record[d].outbox
    BY <1>1, DeviceFacts DEF PassInv
  <2>3. record[d].outbox[p].expected_cursor <= cursor
    BY <2>2, DeviceFacts DEF DurableInv, ClaimsInv
  <2> QED
    BY <2>1, <2>3, DeviceFacts
<1>4. /\ Len(log) \in Nat /\ Len(log') = Len(log) + 1
      /\ log'[Len(log) + 1] = r.publications
  <2>1. log \in Seq(SUBSET [publication_id : PublicationId, objects : Projections])
    BY DEF RuntimeInv, TransportInv
  <2> HIDE DEF r
  <2> QED
    BY <1>1, <1>2, <2>1
<1>5. PassInv(d)'
  <2>1. pass'[d] = [step |-> "reconcile", batch |-> batch, head |-> LogHead + 1]
    BY <1>1 DEF ShapeInv
  <2>2. /\ pass'[d].step = "reconcile"
        /\ pass'[d].batch = batch
        /\ pass'[d].head = Len(log) + 1
    BY <2>1 DEF LogHead
  <2>3. batch \subseteq DOMAIN record'[d].outbox
    BY <1>1, DeviceFacts DEF PassInv
  <2>4. pass'[d].head = record'[d].applied_cursor + 1 /\ pass'[d].head \in 1 .. LogHead'
    BY <1>1, <1>3, <1>4, <2>2 DEF LogHead
  <2>5. log'[pass'[d].head] =
           { [publication_id |-> p, objects |-> record'[d].outbox[p].objects] :
               p \in pass'[d].batch }
    BY <1>1, <1>4, <2>2 DEF BatchRequest
  <2> QED
    BY <2>2, <2>3, <2>4, <2>5 DEF PassInv, InPass, PassSteps
<1>6. DOMAIN pass' = Device /\ \A e \in Device : pass'[e] = pass[e] \/ PassInv(e)'
  BY <1>1, <1>5 DEF ShapeInv
<1>7. CountersInv'
  BY <1>1 DEF ShapeInv, CountersInv, bounds
<1> HIDE DEF r
<1> QED
  BY <1>1, <1>2, <1>6, <1>7, AppendKeeps

\* The request joins those whose effect is open.
LEMMA PublishUnansweredKeeps ==
    ASSUME RuntimeInv, NEW d \in Device, PublishUnanswered(d)
    PROVE  RuntimeInv'
<1> DEFINE r == BatchRequest(d)
<1>1. /\ ShapeInv /\ InPass(d, "publish") /\ Fault
      /\ late' = late \cup {r}
      /\ pass' = [pass EXCEPT ![d] = Idle]
      /\ UNCHANGED <<live, record, disk, log, bounds>>
  BY DEF PublishUnanswered, GoTo, RuntimeInv
<1>2. /\ LateInv(r)
      /\ \A p \in r.publications : \A k \in DOMAIN p.objects : \A id \in DOMAIN p.objects[k] :
            \E e \in Device : Exposes(e, k, id, p.objects[k][id])
  BY <1>1, BatchFacts DEF LateInv
<1> HIDE DEF r
<1>3. PassInv(d)'
  BY <1>1, IdlePass DEF ShapeInv, Idle
<1>4. CountersInv'
  <2>1. CountersInv
    BY <1>1 DEF ShapeInv, CountersInv
  <2> QED
    BY <1>1, <2>1, FaultCounted
<1>5. ShapeInv'
  BY <1>1, <1>4 DEF ShapeInv, CountersInv
<1>6. WireInv'
  <2>1. \A e, k, id, revision : Exposes(e, k, id, revision)' <=> Exposes(e, k, id, revision)
    BY <1>1 DEF Exposes
  <2>2. \A p \in Sent' : p \in Sent \/ p \in r.publications
    BY <1>1 DEF Sent
  <2> QED
    BY <1>2, <2>1, <2>2 DEF WireInv, RuntimeInv, TransportInv
<1>7. TransportInv'
  <2>1. ASSUME NEW q \in late' PROVE LateInv(q)'
    <3>1. LateInv(q)
      BY <1>1, <1>2, <2>1 DEF RuntimeInv, TransportInv
    <3> QED
      BY <1>1, <3>1 DEF LateInv, LogHead, Accepts
  <2> QED
    BY <1>1, <1>6, <2>1 DEF RuntimeInv, TransportInv
<1>8. ASSUME NEW e \in Device PROVE DeviceInv(e)'
  <2>1. CASE e # d
    <3>1. pass'[e] = pass[e]
      BY <1>1, <2>1 DEF ShapeInv
    <3> QED
      BY <1>1, <3>1, SameDevice DEF RuntimeInv
  <2>2. CASE e = d
    BY <1>1, <1>3, <2>2 DEF RuntimeInv, DeviceInv
  <2> QED
    BY <2>1, <2>2
<1> QED
  BY <1>5, <1>7, <1>8 DEF RuntimeInv

\* A commit of somebody else, or a request whose answer nobody waits for.
LEMMA NetworkKeeps ==
    ASSUME RuntimeInv, Network
    PROVE  RuntimeInv'
<1>1. ShapeInv
  BY DEF RuntimeInv
<1>2. CASE ForeignCommit
  <2>1. /\ log' = Append(log, {}) /\ UNCHANGED <<live, record, disk, late, pass>>
        /\ UNCHANGED <<faults, switches>> /\ foreign < MaxForeign /\ foreign' = foreign + 1
    BY <1>2 DEF ForeignCommit
  <2>2. CountersInv'
    <3>1. MaxForeign \in Nat
      BY RuntimeAssumption
    <3> QED
      BY <1>1, <2>1, <3>1 DEF ShapeInv, CountersInv
  <2>3. PublicationIds({}) = {} /\ GoodPublications({})
    BY DEF PublicationIds, GoodPublications
  <2>4. DOMAIN pass' = Device /\ late' \subseteq late
    BY <1>1, <2>1 DEF ShapeInv
  <2> QED
    BY <2>1, <2>2, <2>3, <2>4, AppendKeeps
<1>3. ASSUME NEW request \in late, LateArrival(request)
      PROVE  RuntimeInv'
  <2>1. /\ Accepts(request) /\ log' = Append(log, request.publications)
        /\ late' \subseteq late /\ UNCHANGED <<live, record, disk, pass, bounds, faults>>
    BY <1>3 DEF LateArrival
  <2>2. LateInv(request)
    BY <1>3 DEF RuntimeInv, TransportInv
  <2>3. /\ GoodPublications(request.publications)
        /\ request.publications \subseteq [publication_id : PublicationId, objects : Projections]
        /\ PublicationIds(request.publications) \cap PublicationIds(Everything(log)) = {}
    BY <2>1, <2>2 DEF LateInv, GoodPublications
  <2>4. \A p \in request.publications : \A k \in DOMAIN p.objects :
           \A id \in DOMAIN p.objects[k] :
               \E d \in Device : Exposes(d, k, id, p.objects[k][id])
    <3>1. request.publications \subseteq Sent
      BY <1>3 DEF Sent
    <3> QED
      BY <3>1 DEF RuntimeInv, TransportInv, WireInv
  <2>5. CountersInv' /\ DOMAIN pass' = Device
    BY <1>1, <2>1 DEF ShapeInv, CountersInv, bounds
  <2> DEFINE pubs == request.publications
  <2> HIDE DEF pubs
  <2> QED
    BY <2>1, <2>3, <2>4, <2>5, AppendKeeps DEF pubs
<1> QED
  BY <1>2, <1>3 DEF Network

-----------------------------------------------------------------------------
(* The platform preserves the invariant *)

\* Any record the disk may hold is a good one to restart from.
LEMMA RestartKeeps ==
    ASSUME RuntimeInv, NEW d \in Device, Restart(d)
    PROVE  RuntimeInv'
<1>1. /\ ShapeInv /\ Fault
      /\ pass' = [pass EXCEPT ![d] = Idle]
      /\ UNCHANGED <<log, late, bounds>>
  BY DEF Restart, GoTo, RuntimeInv
<1>2. PICK rec \in disk[d] :
        /\ record' = [record EXCEPT ![d] = rec]
        /\ disk' = [disk EXCEPT ![d] = {rec}]
        /\ live' = [live EXCEPT ![d] = rec.trusted_state]
  BY DEF Restart, SetLive
<1>3. RecordInv(d, rec, log) /\ Grows(record[d].trusted_state, rec.trusted_state)
  BY <1>2 DEF RuntimeInv, DeviceInv
<1>4. record'[d] = rec /\ disk'[d] = {rec} /\ live'[d] = rec.trusted_state /\ Frame(d)
  BY <1>1, <1>2 DEF ShapeInv, Frame
<1>5. PassInv(d)'
  BY <1>1, IdlePass DEF ShapeInv, Idle
<1>6. CountersInv'
  <2>1. CountersInv
    BY <1>1 DEF ShapeInv, CountersInv
  <2> QED
    BY <1>1, <2>1, FaultCounted
<1>7. DeviceInv(d)'
  BY <1>1, <1>3, <1>4, <1>5, GrowsReflexive DEF DeviceInv, RecordInv
<1> QED
  BY <1>1, <1>3, <1>4, <1>6, <1>7, StepOfOneDevice

\* The foreground gate and restarts.
LEMMA PlatformKeeps ==
    ASSUME RuntimeInv, NEW d \in Device, Platform(d)
    PROVE  RuntimeInv'
<1>1. ASSUME UNCHANGED <<live, record, disk, log, late, pass>>, CountersInv'
      PROVE  RuntimeInv'
  <2>1. PassInv(d)'
    BY <1>1, SameDevice DEF RuntimeInv, DeviceInv
  <2> QED
    BY <1>1, <2>1, QuietStep
<1>2. CASE EnterForeground(d)
  BY <1>1, <1>2 DEF EnterForeground, RuntimeInv, ShapeInv, CountersInv, bounds
<1>3. CASE EnterBackground(d)
  <2>1. MaxSwitches \in Nat
    BY RuntimeAssumption
  <2>2. CountersInv'
    BY <1>3, <2>1 DEF EnterBackground, RuntimeInv, ShapeInv, CountersInv
  <2> QED
    BY <1>1, <1>3, <2>2 DEF EnterBackground
<1> QED
  BY <1>2, <1>3, RestartKeeps DEF Platform

-----------------------------------------------------------------------------
(* The invariant is inductive *)

\* The invariant holds of new devices and an empty transport.
LEMMA InitEstablishes ==
    ASSUME Init
    PROVE  RuntimeInv
<1> DEFINE none == [p \in {} |-> [expected_cursor |-> 0, objects |-> {}]]
<1>1. /\ log = <<>> /\ late = {} /\ Len(log) = 0
      /\ DOMAIN live = Device /\ DOMAIN record = Device
      /\ DOMAIN disk = Device /\ DOMAIN pass = Device
      /\ foreign = 0 /\ faults = 0 /\ switches = 0
  BY DEF Init
<1>2. Everything(log) = {} /\ Prefix(log, 0) = {}
  BY <1>1 DEF Everything, Prefix
<1>3. ShapeInv
  BY <1>1, RuntimeAssumption DEF ShapeInv
<1>4. TransportInv
  BY <1>1, <1>2 DEF TransportInv, GoodPublications, Distinct, WireInv, Sent
<1>5. ASSUME NEW d \in Device PROVE DeviceInv(d)
  <2> DEFINE c == [k \in KeysOf[d] |-> FromCausal(EmptyRegister)]
  <2>1. /\ live[d] = c
        /\ record[d] = [trusted_state |-> live[d], applied_cursor |-> 0, outbox |-> none]
        /\ disk[d] = {record[d]}
        /\ pass[d] = Idle
    BY <1>5 DEF Init, NewRecord
  <2>2. /\ record[d].trusted_state = c /\ record[d].applied_cursor = 0
        /\ record[d].outbox = none
    BY <2>1
  <2>3. DOMAIN none = {}
    OBVIOUS
  <2>4. /\ DOMAIN c \subseteq DomainKey
        /\ \A k \in DOMAIN c : c[k] = FromCausal(EmptyRegister)
    BY RuntimeAssumption
  <2> HIDE DEF none, c
  <2>5. DurableInv(d, c, 0, none, log)
    <3>1. ASSUME NEW k \in DOMAIN c
          PROVE  DomainInv(d, k, c[k], {}) /\ c[k].handed_off = {}
      <4> DEFINE E == EmptyRegister
      <4>1. /\ E \in Registers /\ Valid(E) /\ DOMAIN E \cap IdsOf[d] = {}
            /\ \A id \in DOMAIN E \ IdsOf[d] : States({}, k, id, E[id])
        BY EmptyRegisterValid
      <4>2. c[k] = FromCausal(E)
        BY <2>4, <3>1
      <4> HIDE DEF E
      <4> QED
        BY <4>1, <4>2, DomainFromCausal
    <3>2. 0 \in 0 .. Len(log)
      BY <1>1
    <3>3. ContainerInv(d, c, Everything(log))
      BY <1>2, <2>4, <3>1 DEF ContainerInv
    <3>4. OutboxInv(d, c, none) /\ ClaimsInv(none, 0, log)
      BY <2>3 DEF OutboxInv, ClaimsInv
    <3>5. HandedInv(c, none, Prefix(log, 0))
      BY <3>1 DEF HandedInv
    <3>6. \A p \in Prefix(log, 0) : Contains(c, p.objects)
      BY <1>2
    <3> QED
      BY <3>2, <3>3, <3>4, <3>5, <3>6 DEF DurableInv
  <2>6. RecordInv(d, record[d], log)
    BY <2>1, <2>2, <2>5, MadeRecord
  <2>7. PassInv(d)
    BY <2>1 DEF PassInv, InPass, PassSteps, Idle
  <2> QED
    BY <2>1, <2>2, <2>5, <2>6, <2>7, GrowsReflexive DEF DeviceInv
<1> QED
  BY <1>3, <1>4, <1>5 DEF RuntimeInv

\* Every step keeps the invariant: one lemma per action.
LEMMA NextPreserves ==
    ASSUME RuntimeInv, [Next]_vars
    PROVE  RuntimeInv'
<1>1. ASSUME NEW d \in Device, Application(d) PROVE RuntimeInv'
  BY <1>1, EditsKeep, RebaseKeeps DEF Application, Rebases
<1>2. ASSUME NEW d \in Device, InCycle(d) PROVE RuntimeInv'
  <2>1. CASE CatchUpRefused(d)
    BY <1>2, <2>1, EndOfPassKeeps DEF CatchUpRefused
  <2>2. CASE Backgrounded(d)
    BY <1>2, <2>2, EndOfPassKeeps DEF Backgrounded
  <2> QED
    BY <1>2, <2>1, <2>2, CatchUpUpToDateKeeps, CatchUpEmptyKeeps, CatchUpApplyKeeps,
       ReconcileObservedKeeps, NothingObservedKeeps, PublishAcceptedKeeps,
       PublishConflictKeeps, ReconcilePublishedKeeps DEF InCycle
<1>3. ASSUME NEW d \in Device, MultiDomain(d) PROVE RuntimeInv'
  <2>1. CASE TransportError(d)
    BY <1>3, <2>1, EndOfPassKeeps DEF TransportError
  <2> QED
    BY <1>2, <1>3, <2>1, StageKeeps, StartCycleKeeps, ReceiveOneDomainKeeps,
       PublishUnansweredKeeps DEF MultiDomain
<1>4. CASE UNCHANGED vars
  <2>1. ASSUME NEW e \in Device PROVE DeviceInv(e)'
    BY <1>4, <2>1, SameDevice DEF vars, RuntimeInv
  <2>2. TransportInv'
    BY <1>4 DEF vars, RuntimeInv, TransportInv, LateInv, LogHead, Accepts, WireInv, Sent,
                Exposes
  <2>3. ShapeInv'
    BY <1>4 DEF vars, RuntimeInv, ShapeInv
  <2> QED
    BY <2>1, <2>2, <2>3 DEF RuntimeInv
<1> QED
  BY <1>1, <1>3, <1>4, NetworkKeeps, PlatformKeeps DEF Next

\* SyncRuntime keeps the invariant in every reachable state.
THEOREM RuntimeInvariant == Spec => []RuntimeInv
<1>1. Init => RuntimeInv
  BY InitEstablishes
<1>2. RuntimeInv /\ [Next]_vars => RuntimeInv'
  BY NextPreserves
<1> QED
  BY <1>1, <1>2, PTL DEF Spec

-----------------------------------------------------------------------------
(* What the invariant says of the properties *)

\* The prefix of the log, in the words of the model.
LEMMA PrefixIsPublications ==
    ASSUME NEW n
    PROVE  Publications(1 .. n) = Prefix(log, n)
BY DEF Publications, Prefix

\* The record in memory is one of those a restart may find.
LEMMA RecordsOnDisk ==
    ASSUME RuntimeInv, NEW d \in Device, NEW rec \in RecordsOf(d)
    PROVE  rec \in disk[d] /\ RecordInv(d, rec, log)
BY DEF RuntimeInv, DeviceInv, RecordsOf

\* Every variable keeps its shape: containers in memory and on disk hold local
\* domains, a cursor never passes the head of the transport, an outbox holds the
\* device's own publications, and no bound is exceeded.
THEOREM RuntimeTypeCorrect == Spec => []TypeOK
<1>1. ASSUME RuntimeInv PROVE TypeOK
  <2>1. ASSUME NEW d \in Device
        PROVE  /\ DOMAIN live[d] \subseteq DomainKey
               /\ \A k \in DOMAIN live[d] : live[d][k] \in Domains
               /\ disk[d] # {}
               /\ pass[d].step \in PassSteps
    <3>1. DeviceInv(d)
      BY <1>1, <2>1 DEF RuntimeInv
    <3>2. ContainerInv(d, live[d], Everything(log)) /\ PassInv(d)
      BY <3>1 DEF DeviceInv, DurableInv
    <3>3. disk[d] # {}
      BY <3>1 DEF DeviceInv
    <3> QED
      BY <3>2, <3>3 DEF ContainerInv, DomainInv, WellFormed, PassInv
  <2>2. ASSUME NEW d \in Device, NEW rec \in RecordsOf(d)
        PROVE  /\ \A k \in DOMAIN rec.trusted_state : rec.trusted_state[k] \in Domains
               /\ rec.applied_cursor \in 0 .. LogHead
               /\ DOMAIN rec.outbox \subseteq PubsOf[d]
    <3>1. RecordInv(d, rec, log)
      BY <1>1, <2>2, RecordsOnDisk
    <3> QED
      BY <3>1 DEF RecordInv, DurableInv, ContainerInv, DomainInv, WellFormed, OutboxInv, LogHead
  <2>3. ShapeInv
    BY <1>1 DEF RuntimeInv
  <2> QED
    BY <2>1, <2>2, <2>3 DEF TypeOK, ShapeInv
<1> QED
  BY <1>1, RuntimeInvariant, PTL

\* In a state with the invariant the durable cursor does not outrun the durable state.
LEMMA CursorFromInvariant ==
    ASSUME RuntimeInv
    PROVE  CursorNeverOutrunsState
<1>1. ASSUME NEW d \in Device, NEW rec \in RecordsOf(d),
             NEW p \in Publications(1 .. rec.applied_cursor),
             NEW k \in DOMAIN p.objects, NEW id \in DOMAIN p.objects[k]
      PROVE  Holds(rec.trusted_state, k, id, p.objects[k][id])
  <2>1. RecordInv(d, rec, log)
    BY <1>1, RecordsOnDisk
  <2>2. p \in Prefix(log, rec.applied_cursor)
    BY <1>1, PrefixIsPublications
  <2>3. Contains(rec.trusted_state, p.objects)
    BY <2>1, <2>2 DEF RecordInv, DurableInv
  <2> QED
    BY <1>1, <2>3 DEF Contains, Extended, Holds
<1> QED
  BY <1>1 DEF CursorNeverOutrunsState

\* The durable cursor never outruns the durable state, whatever record a restart
\* finds: commit_received and the retirement of an acknowledged batch put a
\* cursor on disk only together with a container that holds every revision of
\* every commit up to it.
THEOREM CursorNeverOutruns == Spec => []CursorNeverOutrunsState
<1>1. RuntimeInv => CursorNeverOutrunsState
  BY CursorFromInvariant
<1> QED
  BY <1>1, RuntimeInvariant, PTL

\* A revision on the transport, or in a request still under way, is exposed with
\* that statement in the memory of its author.
LEMMA AuthorExposes ==
    ASSUME RuntimeInv, NEW d \in Device, NEW p \in Sent,
           NEW k \in DOMAIN p.objects, NEW id \in DOMAIN p.objects[k] \cap IdsOf[d]
    PROVE  Exposes(d, k, id, p.objects[k][id])
<1>1. PICK e \in Device : Exposes(e, k, id, p.objects[k][id])
  BY DEF RuntimeInv, TransportInv, WireInv
<1>2. e = d
  BY <1>1, RuntimeAssumption DEF Exposes
<1> QED
  BY <1>1, <1>2

\* What a device exposes, every container with all it has exposes and has frozen.
LEMMA ExposedInLarger ==
    ASSUME RuntimeInv, NEW d \in Device, NEW c,
           Grows(record[d].trusted_state, c), ContainerInv(d, c, Everything(log)),
           NEW k, NEW id, NEW revision, Exposes(d, k, id, revision)
    PROVE  /\ k \in DOMAIN c
           /\ id \in c[k].exposed
           /\ id \in DOMAIN c[k].causal /\ c[k].causal[id] = revision
           /\ id \in DOMAIN c[k].finalized /\ c[k].finalized[id] = revision
<1> DEFINE t == record[d].trusted_state
<1>1. ContainerInv(d, t, Everything(log))
  BY DeviceFacts DEF DurableInv
<1>2. k \in DOMAIN t /\ id \in t[k].exposed /\ t[k].causal[id] = revision
  BY DEF Exposes
<1>3. DomainInv(d, k, t[k], Everything(log))
  BY <1>1, <1>2 DEF ContainerInv
<1>4. id \in DOMAIN t[k].causal
  BY <1>2, <1>3, WellFormedFields DEF DomainInv
<1>5. k \in DOMAIN c /\ Extended(t[k].causal, c[k].causal) /\ t[k].exposed \subseteq c[k].exposed
  BY <1>2 DEF Grows
<1>6. DomainInv(d, k, c[k], Everything(log))
  BY <1>5 DEF ContainerInv
<1> HIDE DEF t
<1>7. id \in c[k].exposed /\ id \in DOMAIN c[k].causal /\ c[k].causal[id] = revision
  BY <1>2, <1>4, <1>5 DEF Extended
<1>8. id \in DOMAIN c[k].finalized /\ c[k].finalized[id] = c[k].causal[id]
  BY <1>6, <1>7, WellFormedFields DEF DomainInv
<1> QED
  BY <1>5, <1>7, <1>8

\* In a state with the invariant what left a device is exposed by its author.
LEMMA ExposureFromInvariant ==
    ASSUME RuntimeInv
    PROVE  ExposureBeforeWire
<1>1. ASSUME NEW d \in Device,
             NEW p \in Publications(1 .. LogHead) \cup UNION { q.publications : q \in late },
             NEW k \in DOMAIN p.objects, NEW id \in DOMAIN p.objects[k] \cap IdsOf[d],
             NEW rec \in disk[d]
      PROVE  /\ id \in rec.trusted_state[k].exposed
             /\ id \in DOMAIN rec.trusted_state[k].finalized
             /\ rec.trusted_state[k].finalized[id] = p.objects[k][id]
  <2>1. p \in Sent
    BY <1>1, PrefixIsPublications DEF Sent, Everything, LogHead
  <2>2. Exposes(d, k, id, p.objects[k][id])
    BY <1>1, <2>1, AuthorExposes
  <2>3. RecordInv(d, rec, log) /\ Grows(record[d].trusted_state, rec.trusted_state)
    BY <1>1 DEF RuntimeInv, DeviceInv
  <2>4. ContainerInv(d, rec.trusted_state, Everything(log))
    BY <2>3 DEF RecordInv, DurableInv
  <2> QED
    BY <2>2, <2>3, <2>4, ExposedInLarger
<1> QED
  BY <1>1 DEF ExposureBeforeWire

\* Exposure is durable before bytes can leave: whatever left a device, its
\* author finds exposed and frozen with that statement in every record a restart
\* may load, because stage_prepared_recovery_handoff persists the ledger and the
\* outbox in one record and a publish sends only what the outbox holds.
THEOREM ExposedBeforeSent == Spec => []ExposureBeforeWire
<1>1. RuntimeInv => ExposureBeforeWire
  BY ExposureFromInvariant
<1> QED
  BY <1>1, RuntimeInvariant, PTL

\* In a state with the invariant no handed-off revision is forgotten.
LEMMA HandoffFromInvariant ==
    ASSUME RuntimeInv
    PROVE  NoLostPublication
<1>1. ASSUME NEW d \in Device, NEW rec \in RecordsOf(d),
             NEW k \in DOMAIN rec.trusted_state,
             NEW id \in rec.trusted_state[k].handed_off
      PROVE  \E objects \in { e.objects : e \in Range(rec.outbox) }
                            \cup { p.objects : p \in Publications(1 .. LogHead) } :
                 k \in DOMAIN objects /\ id \in DOMAIN objects[k]
  <2>1. RecordInv(d, rec, log)
    BY <1>1, RecordsOnDisk
  <2>2. HandedInv(rec.trusted_state, rec.outbox, Everything(log))
    <3>1. /\ HandedInv(rec.trusted_state, rec.outbox, Prefix(log, rec.applied_cursor))
          /\ rec.applied_cursor \in 0 .. Len(log) /\ Len(log) \in Nat
      BY <1>1, <2>1, DeviceFacts DEF RecordInv, DurableInv
    <3>2. Prefix(log, rec.applied_cursor) \subseteq Everything(log)
      BY <3>1, PrefixGrows DEF Everything
    <3> QED
      BY <3>1, <3>2 DEF HandedInv
  <2>3. ASSUME NEW p \in DOMAIN rec.outbox
        PROVE  rec.outbox[p].objects \in { e.objects : e \in Range(rec.outbox) }
    BY <2>3 DEF Range
  <2>4. Everything(log) = Publications(1 .. LogHead)
    BY PrefixIsPublications DEF Everything, LogHead
  <2>5. CASE \E p \in DOMAIN rec.outbox : Carries(rec.outbox[p].objects, k, id)
    BY <2>3, <2>5 DEF Carries
  <2>6. CASE \E p \in Everything(log) : Carries(p.objects, k, id)
    BY <2>4, <2>6 DEF Carries
  <2> QED
    BY <1>1, <2>2, <2>5, <2>6 DEF HandedInv
<1> QED
  BY <1>1 DEF NoLostPublication

\* A revision that was handed off is never forgotten: in every record its author
\* may restart from it waits in the outbox or is already on the transport, also
\* after lost answers, crashes between publish and retirement, and retirements on
\* the evidence of a fetch.
THEOREM NothingLost == Spec => []NoLostPublication
<1>1. RuntimeInv => NoLostPublication
  BY HandoffFromInvariant
<1> QED
  BY <1>1, RuntimeInvariant, PTL

\* In a state with the invariant no publication identity is in two commits.
LEMMA OnceFromInvariant ==
    ASSUME RuntimeInv
    PROVE  PublishedAtMostOnce
BY DEF RuntimeInv, TransportInv, Distinct, PublicationIds, PublishedAtMostOnce, LogHead

\* No publication identity is in two commits: a retry carries the cursor the lost
\* request carried, so the transport refuses whichever of them comes second, and
\* a rebase takes a new identity.
THEOREM PublishedOnce == Spec => []PublishedAtMostOnce
<1>1. RuntimeInv => PublishedAtMostOnce
  BY OnceFromInvariant
<1> QED
  BY <1>1, RuntimeInvariant, PTL

\* The pass after a conflict can use the seal identities of the first pass: a
\* pass that sealed anything has moved its cursor, so that no publication of its
\* outbox targets it and it publishes nothing.
THEOREM SealsStayUsable == Spec => []PostConflictSealsUsable
<1>1. ASSUME RuntimeInv PROVE PostConflictSealsUsable
  BY <1>1, DeviceFacts DEF PostConflictSealsUsable, PassInv, SealsUsable
<1> QED
  BY <1>1, RuntimeInvariant, PTL

\* The transport makes one statement of an identity, that of its author.
LEMMA OneStatementOnWire ==
    ASSUME RuntimeInv, NEW k, NEW id, NEW r, NEW s,
           States(Everything(log), k, id, r), States(Everything(log), k, id, s)
    PROVE  r = s
<1>1. ASSUME NEW v, States(Everything(log), k, id, v)
      PROVE  \E e \in Device : Exposes(e, k, id, v)
  <2>1. PICK p \in Everything(log) : Carries(p.objects, k, id) /\ p.objects[k][id] = v
    BY <1>1 DEF States
  <2> QED
    BY <2>1 DEF RuntimeInv, TransportInv, WireInv, Sent, Carries
<1>2. PICK e \in Device : Exposes(e, k, id, r)
  BY <1>1
<1>3. PICK f \in Device : Exposes(f, k, id, s)
  BY <1>1
<1>4. e = f
  BY <1>2, <1>3, RuntimeAssumption DEF Exposes
<1> QED
  BY <1>2, <1>3, <1>4 DEF Exposes

\* Valid registers that agree have a valid union: the validate() at the end of
\* each SyncProjection::merge never fails.
LEMMA CombinedIsValid ==
    ASSUME NEW P, P \subseteq Projections, CanCombine(P),
           \A p \in P : ProjectionDecodes(p), NEW k \in TouchedBy(P)
    PROVE  Valid(Combined(P)[k])
<1> DEFINE R == Combined(P)[k]
<1>1. \A id \in DOMAIN R : \E p \in P : Carries(p, k, id)
  BY CombinedContents
<1>2. \A p \in P : k \in DOMAIN p => Extended(p[k], R) /\ Valid(p[k])
  BY CombinedAgrees DEF ProjectionDecodes
<1> HIDE DEF R
<1>3. ASSUME NEW id \in DOMAIN R PROVE R[id].parents \subseteq DOMAIN R
  <2>1. PICK p \in P : Carries(p, k, id)
    BY <1>1, <1>3
  <2>2. p[k][id].parents \subseteq DOMAIN p[k]
    BY <1>2, <2>1 DEF Carries, Valid, ParentsPresent
  <2> QED
    BY <1>2, <2>1, <2>2 DEF Carries, Extended
<1>4. ASSUME NEW S \in SUBSET DOMAIN R, S # {}
      PROVE  \E id \in S : R[id].parents \cap S = {}
  <2>1. PICK x \in S : TRUE
    BY <1>4
  <2>2. PICK p \in P : Carries(p, k, x)
    BY <1>1, <1>4, <2>1
  <2> DEFINE T == S \cap DOMAIN p[k]
  <2>3. Extended(p[k], R) /\ Valid(p[k])
    BY <1>2, <2>2 DEF Carries
  <2>4. T \in SUBSET DOMAIN p[k] /\ T # {}
    BY <2>1, <2>2 DEF Carries
  <2>5. PICK id \in T : p[k][id].parents \cap T = {}
    BY <2>3, <2>4 DEF Valid, Acyclic
  <2>6. p[k][id].parents \subseteq DOMAIN p[k] /\ R[id] = p[k][id]
    BY <2>3, <2>5 DEF Valid, ParentsPresent, Extended
  <2> QED
    BY <2>5, <2>6
<1>5. Valid(R)
  BY <1>3, <1>4 DEF Valid, ParentsPresent, Acyclic
<1> QED
  BY <1>5 DEF R

\* A fetched range decodes and its projections agree.
LEMMA FetchedRangeCombines ==
    ASSUME RuntimeInv, NEW d \in Device
    PROVE  /\ \A p \in Fetched(d) : ProjectionDecodes(p)
           /\ CanCombine(Fetched(d))
<1>1. Len(log) \in Nat /\ record[d].applied_cursor \in Nat
  BY DeviceFacts
<1>2. \A o \in Fetched(d) : \E p \in Everything(log) : o = p.objects
  BY <1>1 DEF Fetched, FetchedRange, Publications, Everything, Prefix, LogHead
<1>3. \A p \in Fetched(d) : ProjectionDecodes(p)
  BY <1>2 DEF RuntimeInv, TransportInv, GoodPublications
<1>4. ASSUME NEW p \in Fetched(d), NEW q \in Fetched(d),
             NEW k \in DOMAIN p \cap DOMAIN q, NEW id \in DOMAIN p[k] \cap DOMAIN q[k]
      PROVE  p[k][id] = q[k][id]
  <2>1. /\ States(Everything(log), k, id, p[k][id])
        /\ States(Everything(log), k, id, q[k][id])
    BY <1>4, FetchedFacts DEF Carries
  <2> QED
    BY <2>1, OneStatementOnWire
<1> QED
  BY <1>3, <1>4 DEF CanCombine, Compatible

\* A domain agrees with what the transport says of it, also after its dirty work
\* is sealed under a fresh identity of its own.
LEMMA DomainAgreesWithRange ==
    ASSUME RuntimeInv, NEW d \in Device, NEW k \in DOMAIN live[d],
           k \in TouchedBy(Fetched(d)),
           NEW b, NEW pre \in SUBSET IdsOf[d], Grown(live[d][k], b, pre, EmptyRegister)
    PROVE  Compatible(b.causal, Combined(Fetched(d))[k])
<1> DEFINE R == Combined(Fetched(d))[k]
           m == live[d][k]
<1>1. \A id \in DOMAIN R : States(Everything(log), k, id, R[id])
  BY FetchedFacts, CombinedContents
<1>2. ContainerInv(d, live[d], Everything(log)) /\ Grows(record[d].trusted_state, live[d])
  BY DeviceFacts DEF DurableInv
<1>3. DomainInv(d, k, m, Everything(log))
  BY <1>2 DEF ContainerInv
<1>4. /\ Extended(m.causal, b.causal)
      /\ DOMAIN b.causal = DOMAIN m.causal \cup pre
  BY EmptyRegisterValid DEF Grown
<1>5. \A id \in DOMAIN R \cap IdsOf[d] : id \in DOMAIN m.causal /\ m.causal[id] = R[id]
  <2>1. ASSUME NEW id \in DOMAIN R \cap IdsOf[d] PROVE Exposes(d, k, id, R[id])
    <3>1. PICK p \in Everything(log) : Carries(p.objects, k, id) /\ p.objects[k][id] = R[id]
      BY <1>1, <2>1 DEF States
    <3>2. p \in Sent /\ k \in DOMAIN p.objects /\ id \in DOMAIN p.objects[k] \cap IdsOf[d]
      BY <2>1, <3>1 DEF Sent, Carries
    <3> HIDE DEF R
    <3> QED
      BY <3>1, <3>2, AuthorExposes
  <2> HIDE DEF R
  <2> QED
    BY <1>2, <2>1, ExposedInLarger
<1> HIDE DEF R, m
<1>6. ASSUME NEW id \in DOMAIN b.causal \cap DOMAIN R PROVE b.causal[id] = R[id]
  <2>1. CASE id \in IdsOf[d]
    BY <1>4, <1>5, <1>6, <2>1 DEF Extended
  <2>2. CASE id \notin IdsOf[d]
    <3>1. id \in DOMAIN m.causal \ IdsOf[d]
      BY <1>4, <1>6, <2>2
    <3>2. States(Everything(log), k, id, m.causal[id])
      BY <1>3, <3>1 DEF DomainInv
    <3>3. m.causal[id] = R[id]
      BY <1>1, <1>6, <3>2, OneStatementOnWire
    <3> QED
      BY <1>4, <3>1, <3>3 DEF Extended
  <2> QED
    BY <2>1, <2>2
<1> QED
  BY <1>6 DEF Compatible, R

\* A domain can observe the range when it is clean or its work has an identity.
LEMMA DomainObserves ==
    ASSUME RuntimeInv, NEW d \in Device, InPass(d, "fetch"),
           Dirty(d) \cap TouchedBy(Fetched(d)) \subseteq DOMAIN pass[d].seal,
           NEW k \in DOMAIN live[d], k \in TouchedBy(Fetched(d))
    PROVE  /\ Restorable(live[d][k])
           /\ CanObserveRemote(live[d][k], Combined(Fetched(d))[k], SealIdOf(pass[d].seal, k))
<1> DEFINE R == Combined(Fetched(d))[k]
           m == live[d][k]
           pre == SealIdOf(pass[d].seal, k)
           b == BeforeMerge(m, pre)
<1>1. SealsUsable(d)
  BY DeviceFacts DEF PassInv
<1>2. IdsOf[d] \subseteq RevisionId
  BY DeviceFacts
<1>3. WellFormed(m) /\ m \in Domains /\ Restorable(m)
  BY DeviceFacts DEF DurableInv, ContainerInv, DomainInv, WellFormed
<1>4. R \in Registers
  BY FetchedFacts, CombinedContents
<1>5. Valid(R)
  BY FetchedFacts, FetchedRangeCombines, CombinedIsValid
<1>6. /\ pre \in SUBSET IdsOf[d]
      /\ pre = {} \/ \E id \in RevisionId : pre = {id}
      /\ \A id \in pre : CanSeal(m, id)
      /\ (m.pending = NoEpoch) <=> (pre = {})
  <2>1. CASE k \in DOMAIN pass[d].seal
    <3>1. pre = {pass[d].seal[k]}
      BY <2>1 DEF SealIdOf
    <3>2. pass[d].seal[k] \in IdsOf[d] /\ CanSeal(m, pass[d].seal[k])
      BY <1>1, <2>1 DEF SealsUsable
    <3>3. m.pending # NoEpoch
      BY <3>2 DEF CanSeal
    <3> HIDE DEF m, pre
    <3> QED
      BY <1>2, <3>1, <3>2, <3>3
  <2>2. CASE k \notin DOMAIN pass[d].seal
    <3>1. pre = {}
      BY <2>2 DEF SealIdOf
    <3>2. m.pending = NoEpoch
      BY <2>2 DEF Dirty
    <3> HIDE DEF m, pre
    <3> QED
      BY <3>1, <3>2
  <2> QED
    BY <2>1, <2>2
<1>7. Valid(R) /\ R \in Registers /\ WellFormed(m) /\ m \in Domains
  BY <1>3, <1>4, <1>5
<1> HIDE DEF R
<1>8. ObserveReady(m, R, pre)
  BY <1>5, <1>6 DEF ObserveReady
<1>9. Compatible(b.causal, R)
  <2>1. Grown(m, b, pre, EmptyRegister)
    <3> HIDE DEF m, pre
    <3> QED
      BY <1>6, <1>7, <1>8, BeforeMergeGrows
  <2> HIDE DEF b, pre
  <2> QED
    BY <1>6, <2>1, DomainAgreesWithRange DEF R
<1> HIDE DEF m, pre
<1>10. b.causal \in Registers /\ Valid(b.causal)
  <2>1. WellFormed(b)
    BY <1>6, <1>7, <1>8, BeforeMergeWellFormed
  <2> HIDE DEF b
  <2> QED
    BY <2>1, WellFormedFields
<1>11. CanMerge(b.causal, R)
  BY <1>7, <1>9, <1>10, MergeOfValidIsValid
<1>12. CanObserveRemote(m, R, pre)
  BY <1>8, <1>11 DEF CanObserveRemote
<1> QED
  BY <1>3, <1>12 DEF m, R, pre

\* A fetched range can always be applied, once the caller names an identity for
\* each dirty domain it touches: no publication that others made, no
\* interleaving and no restart leaves catch_up_scalar_recovery_state a range
\* that it would refuse for ever.
THEOREM CatchUpNeedsOnlySeals == Spec => []CatchUpOnlyNeedsSeals
<1>1. ASSUME RuntimeInv PROVE CatchUpOnlyNeedsSeals
  <2> SUFFICES ASSUME NEW d \in Device, InPass(d, "fetch"),
                      Dirty(d) \cap TouchedBy(Fetched(d)) \subseteq DOMAIN pass[d].seal
               PROVE  CanCatchUp(d)
    BY DEF CatchUpOnlyNeedsSeals
  <2> DEFINE P == Fetched(d)
             e == Candidate(d)
  <2>1. P \subseteq Projections /\ (\A p \in P : ProjectionDecodes(p)) /\ CanCombine(P)
    BY <1>1, FetchedFacts, FetchedRangeCombines
  <2>2. DOMAIN Combined(P) = TouchedBy(P) /\ \A k \in TouchedBy(P) : Valid(Combined(P)[k])
    <3> HIDE DEF P
    <3> QED
      BY <2>1, CombinedContents, CombinedIsValid
  <2>3. CanObserveProjection(live[d], Combined(P), pass[d].seal)
    BY <1>1, <2>2, DomainObserves DEF CanObserveProjection
  <2>4. SealsAreOwn(d, pass[d].seal)
    BY <1>1, DeviceFacts DEF PassInv, SealsUsable, SealsAreOwn
  <2>5. ObservedAs(live[d], P, pass[d].seal, e)
    BY <2>2 DEF ObservedAs, Candidate, ObserveProjection
  <2> HIDE DEF e
  <2>6. DurableInv(d, e, LogHead, record[d].outbox, log)
    BY <1>1, <2>1, <2>3, <2>4, <2>5, ObserveRange
  <2>7. \A k \in DOMAIN e : Restorable(e[k])
    BY <2>6 DEF DurableInv, ContainerInv, DomainInv, WellFormed
  <2> QED
    BY <2>1, <2>3, <2>7 DEF CanCatchUp, TrustedStateEncodes, SnapshotEncodes, e
<1> QED
  BY <1>1, RuntimeInvariant, PTL

=============================================================================
