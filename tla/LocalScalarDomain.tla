------------------------- MODULE LocalScalarDomain -------------------------
(***************************************************************************)
(* The local state machine of one scalar merge domain (apc-core: domain.rs,*)
(* working.rs, finalization.rs) as operators on domain records.            *)
(*                                                                         *)
(* A domain couples two parts.  WorkingScalar holds the causal register    *)
(* and at most one pending edit epoch; FinalizationLedger records which    *)
(* revisions this replica made, which are frozen, and which may be visible *)
(* outside.  For a method M the operator CanM is the condition under which *)
(* the code returns Ok and M the state it leaves.  A method that returns   *)
(* Err leaves the state alone, with one exception that is an operator of   *)
(* its own: ObserveRemoteFailed.                                           *)
(***************************************************************************)
EXTENDS ScalarRegister

CONSTANT NoEpoch        \* the None of WorkingScalar::pending

Epoch == [value : Value, observed_frontier : SUBSET RevisionId]

ASSUME NoEpochAssumption == NoEpoch \notin Epoch

\* LocalScalarDomain, and LocalScalarSnapshot: snapshot() copies every field.
Domains ==
    [ causal     : Registers,
      pending    : Epoch \cup {NoEpoch},
      local      : SUBSET RevisionId,
      finalized  : Registers,
      exposed    : SUBSET RevisionId,
      handed_off : SUBSET RevisionId ]

\* LocalScalarDomain::from_causal of a valid register.
FromCausal(reg) ==
    [ causal |-> reg, pending |-> NoEpoch, local |-> {},
      finalized |-> EmptyRegister, exposed |-> {}, handed_off |-> {} ]

-----------------------------------------------------------------------------
(* Working state *)

CanBeginEpoch(d) == d.pending = NoEpoch

\* Seeded faults: the frontier carries the all-zero identity; the epoch claims
\* to have seen only the visible revision.
BeginEpochZeroId(d, value) ==
    [d EXCEPT !.pending =
        [value |-> value, observed_frontier |-> FrontierIds(d.causal) \cup {0}]]

BeginEpochOnVisible(d, value) ==
    [d EXCEPT !.pending =
        [value |-> value,
         observed_frontier |-> { id \in FrontierIds(d.causal) : id = MaterializedId(d.causal) }]]

BeginEpoch(d, value) ==
    [d EXCEPT !.pending =
        [value |-> value, observed_frontier |-> FrontierIds(d.causal)]]

CanUpdatePending(d) == d.pending # NoEpoch

UpdatePending(d, value) == [d EXCEPT !.pending = [@ EXCEPT !.value = value]]

\* The statement WorkingScalar::seal makes of the pending epoch.
SealedRevision(d) ==
    [value |-> d.pending.value, parents |-> d.pending.observed_frontier]

CanSeal(d, id) ==
    /\ d.pending # NoEpoch
    /\ CanInsert(d.causal, id, SealedRevision(d))

\* WorkingScalar::seal: the working half only, nothing is registered.
Seal(d, id) ==
    [d EXCEPT !.causal = InsertRevision(@, id, SealedRevision(d)),
              !.pending = NoEpoch]

\* FinalizationLedger::register_local
RegisterLocal(d, ids) == [d EXCEPT !.local = @ \cup ids]

\* LocalScalarDomain::seal_local
SealLocal(d, id) == RegisterLocal(Seal(d, id), {id})

-----------------------------------------------------------------------------
(* Remote observation.  "pre" is the optional pre-observation revision     *)
(* identity: a set with at most one element.                               *)

\* A seeded fault: the dirty epoch is left open across the merge.
BeforeMergeUnsealed(d, pre) == d

\* The state WorkingScalar::observe_remote merges into: dirty work is sealed.
BeforeMerge(d, pre) ==
    IF pre = {} THEN d ELSE Seal(d, CHOOSE id \in pre : TRUE)

\* The checks that precede the merge: a valid remote register, a seal
\* identity exactly when there is dirty work, and a seal that succeeds.
ObserveReady(d, remote, pre) ==
    /\ Valid(remote)
    /\ (d.pending = NoEpoch) <=> (pre = {})
    /\ \A id \in pre : CanSeal(d, id)

CanObserveRemote(d, remote, pre) ==
    /\ ObserveReady(d, remote, pre)
    /\ CanMerge(BeforeMerge(d, pre).causal, remote)

\* A seeded fault: the sealed revision is not registered as local.
ObserveRemoteUnregistered(d, remote, pre) ==
    [BeforeMerge(d, pre) EXCEPT !.causal = MergeUnion(@, remote)]

ObserveRemote(d, remote, pre) ==
    RegisterLocal([BeforeMerge(d, pre) EXCEPT !.causal = MergeUnion(@, remote)], pre)

\* A seeded fault: the identity is registered although nothing was sealed.
ObserveRemoteFailedRegisters(d, remote, pre) == RegisterLocal(d, pre)

\* The merge is refused after the seal: WorkingScalar keeps the sealed
\* revision, and the "?" in LocalScalarDomain::observe_remote skips
\* register_local.
ObserveRemoteFailed(d, remote, pre) == BeforeMerge(d, pre)

-----------------------------------------------------------------------------
(* Finalization and exposure *)

CanFinalize(d, id) ==
    /\ id \in d.local
    /\ id \in DOMAIN d.causal
    /\ id \in DOMAIN d.finalized => d.finalized[id] = d.causal[id]

Finalize(d, id) ==
    [d EXCEPT !.finalized = InsertRevision(@, id, d.causal[id])]

\* FinalizationLedger::validate_against
ValidateAgainst(d) ==
    /\ Valid(d.causal)
    /\ \A id \in DOMAIN d.finalized :
          id \in DOMAIN d.causal /\ d.finalized[id] = d.causal[id]

CanHandoff(d, ids) ==
    /\ ValidateAgainst(d)
    /\ ids \subseteq DOMAIN d.causal
    /\ DependencyClosure(d.causal, ids) \cap d.local \subseteq DOMAIN d.finalized

\* Seeded faults: only the selected revisions are exposed, not their history;
\* exposure is not recorded; a later handoff replaces an earlier one.
HandoffSelectedOnly(d, ids) ==
    [d EXCEPT !.exposed = @ \cup (ids \cap d.local),
              !.handed_off = @ \cup (ids \cap d.local)]

HandoffUnexposed(d, ids) == [d EXCEPT !.handed_off = @ \cup (ids \cap d.local)]

HandoffReplaces(d, ids) ==
    [d EXCEPT !.exposed = DependencyClosure(d.causal, ids) \cap d.local,
              !.handed_off = ids \cap d.local]

Handoff(d, ids) ==
    [d EXCEPT !.exposed = @ \cup (DependencyClosure(d.causal, ids) \cap d.local),
              !.handed_off = @ \cup (ids \cap d.local)]

\* A seeded fault: a publication carries the selected revisions only.
ExportedSelectedOnly(d, ids) == Restriction(d.causal, ids)

\* The register a publication of ids carries (prepare_scalar_handoff).
ExportedRegister(d, ids) ==
    Restriction(d.causal, DependencyClosure(d.causal, ids))

-----------------------------------------------------------------------------
(* Recovery *)

\* WorkingScalar::restore
WorkingRestorable(s) ==
    /\ Valid(s.causal)
    /\ s.pending # NoEpoch => s.pending.observed_frontier = FrontierIds(s.causal)

\* FinalizationLedger::restore
LedgerRestorable(s) ==
    /\ s.exposed \subseteq s.local
    /\ s.handed_off \subseteq s.exposed
    /\ DOMAIN s.finalized \subseteq s.local
    /\ s.local \subseteq DOMAIN s.causal
    /\ ValidateAgainst(s)

\* LocalScalarDomain::restore accepts the snapshot.
Restorable(s) == WorkingRestorable(s) /\ LedgerRestorable(s)

=============================================================================
