--------------------- MODULE SingleDomainRuntimeProofs ---------------------
(***************************************************************************)
(* Theorems about a fleet in which some devices run the single-domain      *)
(* runtime, for any devices, domains, identities and bounds.               *)
(*                                                                         *)
(* Nothing that SyncRuntimeProofs proved is proved again.  The module is   *)
(* instantiated under the refinement mapping (M), and a step of the fleet  *)
(* is shown to be a step of the multi-domain runtime, or to do nothing     *)
(* there (FleetSimulated); only the refusal of a range with another domain *)
(* in it is neither, and it just ends a cycle.  So every step keeps        *)
(* M!RuntimeInv.  The simulation needs to know more of a single-domain     *)
(* device than RuntimeInv says (SingleInv); the steps keep that too, and   *)
(* together they are FleetInv.                                             *)
(***************************************************************************)
EXTENDS SingleDomainRuntime, FiniteSetTheorems, TLAPS

\* The lemmas about the multi-domain runtime, for the passes it would see.
M == INSTANCE SyncRuntimeProofs WITH pass <- MultiPass

-----------------------------------------------------------------------------
(* Operators that read no variable are the same in the model, in Multi, in M *)

\* The register's methods in the instance are the register's methods.
LEMMA SameRegisters ==
    /\ \A r : Multi!Valid(r) <=> Valid(r)
    /\ \A r, i, v : Multi!CanInsert(r, i, v) <=> CanInsert(r, i, v)
    /\ \A r, s : Multi!CanMerge(r, s) <=> CanMerge(r, s)
    /\ \A r, s : Multi!MergeUnion(r, s) = MergeUnion(r, s)
    /\ \A r, i, v : Multi!InsertRevision(r, i, v) = InsertRevision(r, i, v)
    /\ \A r : Multi!FrontierIds(r) = FrontierIds(r)
    /\ \A r, s : Multi!DependencyClosure(r, s) = DependencyClosure(r, s)
    /\ \A r, s : Multi!Restriction(r, s) = Restriction(r, s)
    /\ Multi!EmptyRegister = EmptyRegister
    /\ \A r, s : Multi!Compatible(r, s) <=> Compatible(r, s)
BY Zenon DEF Acyclic, Multi!Acyclic, CanInsert, Multi!CanInsert, CanMerge,
   Multi!CanMerge, Compatible, Multi!Compatible, DependencyClosure,
   Multi!DependencyClosure, EmptyRegister, Multi!EmptyRegister, FrontierIds,
   Multi!FrontierIds, InsertRevision, Multi!InsertRevision, IsParentClosed,
   Multi!IsParentClosed, MergeUnion, Multi!MergeUnion, ParentsPresent,
   Multi!ParentsPresent, Restriction, Multi!Restriction, Valid, Multi!Valid

\* So are the local domain's.
LEMMA SameDomains ==
    /\ \A n : Multi!Restorable(n) <=> Restorable(n)
    /\ \A r : Multi!FromCausal(r) = FromCausal(r)
    /\ \A n : Multi!CanBeginEpoch(n) <=> CanBeginEpoch(n)
    /\ \A n, v : Multi!BeginEpoch(n, v) = BeginEpoch(n, v)
    /\ \A n, i : Multi!CanSeal(n, i) <=> CanSeal(n, i)
    /\ \A n, i : Multi!Seal(n, i) = Seal(n, i)
    /\ \A n, i : Multi!SealLocal(n, i) = SealLocal(n, i)
    /\ \A n, s : Multi!BeforeMerge(n, s) = BeforeMerge(n, s)
    /\ \A n, r, s : Multi!ObserveRemote(n, r, s) = ObserveRemote(n, r, s)
    /\ \A n, r, s : Multi!CanObserveRemote(n, r, s) <=> CanObserveRemote(n, r, s)
    /\ \A n, i : Multi!CanFinalize(n, i) <=> CanFinalize(n, i)
    /\ \A n, i : Multi!Finalize(n, i) = Finalize(n, i)
    /\ \A n, s : Multi!CanHandoff(n, s) <=> CanHandoff(n, s)
    /\ \A n, s : Multi!Handoff(n, s) = Handoff(n, s)
    /\ \A n, s : Multi!ExportedRegister(n, s) = ExportedRegister(n, s)
<1>1. \A n, i : Multi!Seal(n, i) = Seal(n, i)
  BY SameRegisters, Zenon DEF Seal, Multi!Seal, SealedRevision,
     Multi!SealedRevision
<1>2. \A n, s : Multi!BeforeMerge(n, s) = BeforeMerge(n, s)
  BY <1>1 DEF BeforeMerge, Multi!BeforeMerge
<1> QED
  BY <1>1, <1>2, SameRegisters, Zenon DEF BeginEpoch, Multi!BeginEpoch,
     CanBeginEpoch, Multi!CanBeginEpoch, CanFinalize, Multi!CanFinalize,
     CanHandoff, Multi!CanHandoff, CanObserveRemote, Multi!CanObserveRemote,
     CanSeal, Multi!CanSeal, ExportedRegister, Multi!ExportedRegister, Finalize,
     Multi!Finalize, FromCausal, Multi!FromCausal, Handoff, Multi!Handoff,
     LedgerRestorable, Multi!LedgerRestorable, ObserveReady, Multi!ObserveReady,
     ObserveRemote, Multi!ObserveRemote, RegisterLocal, Multi!RegisterLocal,
     Restorable, Multi!Restorable, SealLocal, Multi!SealLocal, SealedRevision,
     Multi!SealedRevision, ValidateAgainst, Multi!ValidateAgainst,
     WorkingRestorable, Multi!WorkingRestorable

\* So are the container's, the projection's and the record's.
LEMMA SameRecords ==
    /\ \A P : Multi!TouchedBy(P) = TouchedBy(P)
    /\ \A s, k : Multi!SealIdOf(s, k) = SealIdOf(s, k)
    /\ \A P : Multi!Combined(P) = Combined(P)
    /\ \A P : Multi!CanCombine(P) <=> CanCombine(P)
    /\ \A p : Multi!ProjectionDecodes(p) <=> ProjectionDecodes(p)
    /\ \A p : Multi!ProjectionEncodes(p) <=> ProjectionEncodes(p)
    /\ \A p, e : Multi!ProjectionIsObserved(p, e) <=> ProjectionIsObserved(p, e)
    /\ \A c, r, s : Multi!ObserveProjection(c, r, s) = ObserveProjection(c, r, s)
    /\ \A c, r, s : Multi!CanObserveProjection(c, r, s) <=> CanObserveProjection(c, r, s)
    /\ \A c, s : Multi!HandoffSelected(c, s) = HandoffSelected(c, s)
    /\ \A c, s : Multi!CanHandoffSelected(c, s) <=> CanHandoffSelected(c, s)
    /\ \A c, s : Multi!PreparedProjection(c, s) = PreparedProjection(c, s)
    /\ \A c : Multi!TrustedStateEncodes(c) <=> TrustedStateEncodes(c)
    /\ \A c : Multi!TrustedStateDecodes(c) <=> TrustedStateDecodes(c)
    /\ \A r : Multi!RecordDecodes(r) <=> RecordDecodes(r)
    /\ \A r, c, p, e : Multi!PrepareOutbox(r, c, p, e) = PrepareOutbox(r, c, p, e)
    /\ \A r, p, e : Multi!CanPrepareOutbox(r, p, e) <=> CanPrepareOutbox(r, p, e)
    /\ \A r, P, c, n : Multi!RetireOutbox(r, P, c, n) = RetireOutbox(r, P, c, n)
    /\ \A r, c, n : Multi!ApplyReceived(r, c, n) = ApplyReceived(r, c, n)
    /\ \A c, n : Multi!NewRecord(c, n) = NewRecord(c, n)
<1>1. /\ \A P : Multi!TouchedBy(P) = TouchedBy(P)
      /\ \A s, k : Multi!SealIdOf(s, k) = SealIdOf(s, k)
  BY Zenon DEF SealIdOf, Multi!SealIdOf, TouchedBy, Multi!TouchedBy
<1> QED
  BY <1>1, SameRegisters, SameDomains, Zenon DEF ApplyReceived,
     Multi!ApplyReceived, CanCombine, Multi!CanCombine, CanHandoffSelected,
     Multi!CanHandoffSelected, CanObserveProjection, Multi!CanObserveProjection,
     CanPrepareOutbox, Multi!CanPrepareOutbox, Combined, Multi!Combined,
     HandoffSelected, Multi!HandoffSelected, NewRecord, Multi!NewRecord,
     ObserveProjection, Multi!ObserveProjection, PrepareOutbox,
     Multi!PrepareOutbox, PreparedProjection, Multi!PreparedProjection,
     ProjectionDecodes, Multi!ProjectionDecodes, ProjectionEncodes,
     Multi!ProjectionEncodes, ProjectionIsObserved, Multi!ProjectionIsObserved,
     RecordDecodes, Multi!RecordDecodes, RetireOutbox, Multi!RetireOutbox,
     SnapshotDecodes, Multi!SnapshotDecodes, SnapshotEncodes,
     Multi!SnapshotEncodes, TrustedStateDecodes, Multi!TrustedStateDecodes,
     TrustedStateEncodes, Multi!TrustedStateEncodes, ValidateObjects,
     Multi!ValidateObjects

\* The same of the instance of the proofs: the register's methods.
LEMMA ProvedRegisters ==
    /\ \A r : M!Valid(r) <=> Valid(r)
    /\ \A r, i, v : M!CanInsert(r, i, v) <=> CanInsert(r, i, v)
    /\ \A r, s : M!CanMerge(r, s) <=> CanMerge(r, s)
    /\ \A r, s : M!MergeUnion(r, s) = MergeUnion(r, s)
    /\ \A r, i, v : M!InsertRevision(r, i, v) = InsertRevision(r, i, v)
    /\ \A r : M!FrontierIds(r) = FrontierIds(r)
    /\ \A r, s : M!DependencyClosure(r, s) = DependencyClosure(r, s)
    /\ \A r, s : M!Restriction(r, s) = Restriction(r, s)
    /\ M!EmptyRegister = EmptyRegister
    /\ \A r, s : M!Compatible(r, s) <=> Compatible(r, s)
BY Zenon DEF Acyclic, M!Acyclic, CanInsert, M!CanInsert, CanMerge, M!CanMerge,
   Compatible, M!Compatible, DependencyClosure, M!DependencyClosure,
   EmptyRegister, M!EmptyRegister, FrontierIds, M!FrontierIds, InsertRevision,
   M!InsertRevision, IsParentClosed, M!IsParentClosed, MergeUnion, M!MergeUnion,
   ParentsPresent, M!ParentsPresent, Restriction, M!Restriction, Valid, M!Valid

\* The local domain's.
LEMMA ProvedDomains ==
    /\ \A n : M!Restorable(n) <=> Restorable(n)
    /\ \A r : M!FromCausal(r) = FromCausal(r)
    /\ \A n : M!CanBeginEpoch(n) <=> CanBeginEpoch(n)
    /\ \A n, v : M!BeginEpoch(n, v) = BeginEpoch(n, v)
    /\ \A n, i : M!CanSeal(n, i) <=> CanSeal(n, i)
    /\ \A n, i : M!Seal(n, i) = Seal(n, i)
    /\ \A n, i : M!SealLocal(n, i) = SealLocal(n, i)
    /\ \A n, s : M!BeforeMerge(n, s) = BeforeMerge(n, s)
    /\ \A n, r, s : M!ObserveRemote(n, r, s) = ObserveRemote(n, r, s)
    /\ \A n, r, s : M!CanObserveRemote(n, r, s) <=> CanObserveRemote(n, r, s)
    /\ \A n, i : M!CanFinalize(n, i) <=> CanFinalize(n, i)
    /\ \A n, i : M!Finalize(n, i) = Finalize(n, i)
    /\ \A n, s : M!CanHandoff(n, s) <=> CanHandoff(n, s)
    /\ \A n, s : M!Handoff(n, s) = Handoff(n, s)
    /\ \A n, s : M!ExportedRegister(n, s) = ExportedRegister(n, s)
<1>1. \A n, i : M!Seal(n, i) = Seal(n, i)
  BY ProvedRegisters, Zenon DEF Seal, M!Seal, SealedRevision, M!SealedRevision
<1>2. \A n, s : M!BeforeMerge(n, s) = BeforeMerge(n, s)
  BY <1>1 DEF BeforeMerge, M!BeforeMerge
<1> QED
  BY <1>1, <1>2, ProvedRegisters, Zenon DEF BeginEpoch, M!BeginEpoch,
     CanBeginEpoch, M!CanBeginEpoch, CanFinalize, M!CanFinalize, CanHandoff,
     M!CanHandoff, CanObserveRemote, M!CanObserveRemote, CanSeal, M!CanSeal,
     ExportedRegister, M!ExportedRegister, Finalize, M!Finalize, FromCausal,
     M!FromCausal, Handoff, M!Handoff, LedgerRestorable, M!LedgerRestorable,
     ObserveReady, M!ObserveReady, ObserveRemote, M!ObserveRemote,
     RegisterLocal, M!RegisterLocal, Restorable, M!Restorable, SealLocal,
     M!SealLocal, SealedRevision, M!SealedRevision, ValidateAgainst,
     M!ValidateAgainst, WorkingRestorable, M!WorkingRestorable

\* The container's, the projection's and the record's.
LEMMA ProvedRecords ==
    /\ \A P : M!TouchedBy(P) = TouchedBy(P)
    /\ \A s, k : M!SealIdOf(s, k) = SealIdOf(s, k)
    /\ \A P : M!Combined(P) = Combined(P)
    /\ \A P : M!CanCombine(P) <=> CanCombine(P)
    /\ \A p : M!ProjectionDecodes(p) <=> ProjectionDecodes(p)
    /\ \A p : M!ProjectionEncodes(p) <=> ProjectionEncodes(p)
    /\ \A p, e : M!ProjectionIsObserved(p, e) <=> ProjectionIsObserved(p, e)
    /\ \A c, r, s : M!ObserveProjection(c, r, s) = ObserveProjection(c, r, s)
    /\ \A c, r, s : M!CanObserveProjection(c, r, s) <=> CanObserveProjection(c, r, s)
    /\ \A c, s : M!HandoffSelected(c, s) = HandoffSelected(c, s)
    /\ \A c, s : M!CanHandoffSelected(c, s) <=> CanHandoffSelected(c, s)
    /\ \A c, s : M!PreparedProjection(c, s) = PreparedProjection(c, s)
    /\ \A c : M!TrustedStateEncodes(c) <=> TrustedStateEncodes(c)
    /\ \A c : M!TrustedStateDecodes(c) <=> TrustedStateDecodes(c)
    /\ \A r : M!RecordDecodes(r) <=> RecordDecodes(r)
    /\ \A r, c, p, e : M!PrepareOutbox(r, c, p, e) = PrepareOutbox(r, c, p, e)
    /\ \A r, p, e : M!CanPrepareOutbox(r, p, e) <=> CanPrepareOutbox(r, p, e)
    /\ \A r, P, c, n : M!RetireOutbox(r, P, c, n) = RetireOutbox(r, P, c, n)
    /\ \A r, c, n : M!ApplyReceived(r, c, n) = ApplyReceived(r, c, n)
    /\ \A c, n : M!NewRecord(c, n) = NewRecord(c, n)
<1>1. /\ \A P : M!TouchedBy(P) = TouchedBy(P)
      /\ \A s, k : M!SealIdOf(s, k) = SealIdOf(s, k)
  BY Zenon DEF SealIdOf, M!SealIdOf, TouchedBy, M!TouchedBy
<1> QED
  BY <1>1, ProvedRegisters, ProvedDomains, Zenon DEF ApplyReceived,
     M!ApplyReceived, CanCombine, M!CanCombine, CanHandoffSelected,
     M!CanHandoffSelected, CanObserveProjection, M!CanObserveProjection,
     CanPrepareOutbox, M!CanPrepareOutbox, Combined, M!Combined,
     HandoffSelected, M!HandoffSelected, NewRecord, M!NewRecord,
     ObserveProjection, M!ObserveProjection, PrepareOutbox, M!PrepareOutbox,
     PreparedProjection, M!PreparedProjection, ProjectionDecodes,
     M!ProjectionDecodes, ProjectionEncodes, M!ProjectionEncodes,
     ProjectionIsObserved, M!ProjectionIsObserved, RecordDecodes,
     M!RecordDecodes, RetireOutbox, M!RetireOutbox, SnapshotDecodes,
     M!SnapshotDecodes, SnapshotEncodes, M!SnapshotEncodes, TrustedStateDecodes,
     M!TrustedStateDecodes, TrustedStateEncodes, M!TrustedStateEncodes,
     ValidateObjects, M!ValidateObjects

\* What the two instances read off the state is the same.
LEMMA SameViews ==
    /\ Multi!LogHead = M!LogHead
    /\ \A d : Multi!FetchedRange(d) = M!FetchedRange(d)
    /\ \A d : Multi!Fetched(d) = M!Fetched(d)
    /\ \A d : Multi!FreshPubs(d) = M!FreshPubs(d)
    /\ \A d, k : Multi!FreshIds(d, k) = M!FreshIds(d, k)
    /\ \A d : Multi!Dirty(d) = M!Dirty(d)
    /\ \A d : Multi!Selections(d) = M!Selections(d)
    /\ \A d, K : Multi!SealChoices(d, K) = M!SealChoices(d, K)
    /\ \A d : Multi!Stale(d) = M!Stale(d)
    /\ \A d : Multi!Current(d) = M!Current(d)
    /\ \A d : Multi!Observed(d) = M!Observed(d)
    /\ \A d, S : Multi!AfterStale(d, S) = M!AfterStale(d, S)
    /\ \A d, e : Multi!Classify(d, e) = M!Classify(d, e)
    /\ \A d : Multi!BatchRequest(d) = M!BatchRequest(d)
    /\ \A d, c : Multi!ReceivedRecord(d, c) = M!ReceivedRecord(d, c)
    /\ \A d, P, n : Multi!ReconciledRecord(d, P, n) = M!ReconciledRecord(d, P, n)
    /\ \A d : Multi!Candidate(d) = M!Candidate(d)
    /\ \A d : Multi!CanCatchUp(d) <=> M!CanCatchUp(d)
    /\ \A d, stale, pub : Multi!RebasedRecord(d, stale, pub) = M!RebasedRecord(d, stale, pub)
    /\ \A d, stale, pub : Multi!CanRebase(d, stale, pub) <=> M!CanRebase(d, stale, pub)
    /\ \A d, p, s : Multi!StagedRecord(d, p, s) = M!StagedRecord(d, p, s)
    /\ \A d, pub, selected : Multi!CanStage(d, pub, selected) <=> M!CanStage(d, pub, selected)
<1>1. Multi!LogHead = M!LogHead
  BY Zenon DEF Multi!LogHead, M!LogHead
<1>2. \A d : Multi!FetchedRange(d) = M!FetchedRange(d)
  BY <1>1, Zenon DEF Multi!FetchedRange, M!FetchedRange
<1>3. \A d : Multi!Fetched(d) = M!Fetched(d)
  BY <1>2, Zenon DEF Multi!Fetched, M!Fetched, Multi!Publications,
     M!Publications
<1>4. \A d : Multi!FreshPubs(d) = M!FreshPubs(d)
  BY <1>1, Zenon DEF Multi!FreshPubs, M!FreshPubs, Multi!Publications,
     M!Publications
<1>5. \A d, k : Multi!FreshIds(d, k) = M!FreshIds(d, k)
  BY Zenon DEF Multi!FreshIds, M!FreshIds
<1>6. \A d : Multi!Dirty(d) = M!Dirty(d)
  BY Zenon DEF Multi!Dirty, M!Dirty
<1>7. \A d : Multi!Selections(d) = M!Selections(d)
  BY Zenon DEF Multi!Selectable, M!Selectable, Multi!Selections, M!Selections
<1>8. \A d, K : Multi!SealChoices(d, K) = M!SealChoices(d, K)
  BY <1>5, Zenon DEF Multi!SealChoices, M!SealChoices
<1>9. \A d : Multi!Stale(d) = M!Stale(d)
  BY Zenon DEF Multi!Stale, M!Stale
<1>10. \A d : Multi!Current(d) = M!Current(d)
  BY <1>9, Zenon DEF Multi!Current, M!Current
<1>11. \A d : Multi!Observed(d) = M!Observed(d)
  BY <1>9, SameRecords, ProvedRecords, Zenon DEF Multi!Observed, M!Observed
<1>12. \A d, S : Multi!AfterStale(d, S) = M!AfterStale(d, S)
  BY <1>10, Zenon DEF Multi!AfterStale, M!AfterStale, Multi!Idle, M!Idle
<1>13. \A d, e : Multi!Classify(d, e) = M!Classify(d, e)
  BY Zenon DEF Multi!Classify, M!Classify
<1>14. \A d : Multi!BatchRequest(d) = M!BatchRequest(d)
  BY Zenon DEF Multi!BatchRequest, M!BatchRequest
<1>15. \A d, c : Multi!ReceivedRecord(d, c) = M!ReceivedRecord(d, c)
  BY <1>1, SameRecords, ProvedRecords, Zenon DEF Multi!ReceivedRecord,
     M!ReceivedRecord
<1>16. \A d, P, n : Multi!ReconciledRecord(d, P, n) = M!ReconciledRecord(d, P, n)
  BY SameRecords, ProvedRecords, Zenon DEF Multi!ReconciledRecord,
     M!ReconciledRecord
<1>17. \A d : Multi!Candidate(d) = M!Candidate(d)
  BY <1>3, SameRecords, ProvedRecords, Zenon DEF Multi!Candidate, M!Candidate
<1>18. \A d : Multi!CanCatchUp(d) <=> M!CanCatchUp(d)
  BY <1>17, <1>3, SameRecords, ProvedRecords, Zenon DEF Multi!CanCatchUp,
     M!CanCatchUp
<1>19. \A d, stale, pub : Multi!RebasedRecord(d, stale, pub) = M!RebasedRecord(d, stale, pub)
  BY SameRecords, ProvedRecords, Zenon DEF Multi!RebasedEntry, M!RebasedEntry,
     Multi!RebasedRecord, M!RebasedRecord, Multi!WithoutStale, M!WithoutStale
<1>20. \A d, stale, pub : Multi!CanRebase(d, stale, pub) <=> M!CanRebase(d, stale, pub)
  BY SameRecords, ProvedRecords, Zenon DEF Multi!CanRebase, M!CanRebase,
     Multi!RebasedEntry, M!RebasedEntry, Multi!WithoutStale, M!WithoutStale
<1>21. \A d, p, s : Multi!StagedRecord(d, p, s) = M!StagedRecord(d, p, s)
  BY SameRecords, ProvedRecords, Zenon DEF Multi!StagedRecord, M!StagedRecord
<1>22. \A d, pub, selected : Multi!CanStage(d, pub, selected) <=> M!CanStage(d, pub, selected)
  BY <1>21, SameRecords, ProvedRecords, Zenon DEF Multi!CanStage, M!CanStage,
     Multi!InPass, M!InPass
<1> QED
  BY <1>1, <1>2, <1>3, <1>4, <1>5, <1>6, <1>7, <1>8, <1>9, <1>10, <1>11, <1>12,
     <1>13, <1>14, <1>15, <1>16, <1>17, <1>18, <1>19, <1>20, <1>21, <1>22, Zenon

\* The pieces of an action are the same in the two instances.
LEMMA SameMoves ==
    /\ \A d, rec : Multi!PersistOk(d, rec) <=> M!PersistOk(d, rec)
    /\ \A d, rec : Multi!PersistErr(d, rec) <=> M!PersistErr(d, rec)
    /\ \A d, c : Multi!SetLive(d, c) <=> M!SetLive(d, c)
    /\ \A d, step : Multi!InPass(d, step) <=> M!InPass(d, step)
    /\ \A d : Multi!MayCall(d) <=> M!MayCall(d)
    /\ Multi!bounds = M!bounds
BY Zenon DEF Multi!PersistOk, M!PersistOk, Multi!PersistErr, M!PersistErr, Multi!SetLive,
   M!SetLive, Multi!InPass, M!InPass, Multi!MayCall, M!MayCall, Multi!bounds, M!bounds,
   Multi!Fault, M!Fault, Multi!Undisturbed, M!Undisturbed

\* Every action of the one instance is that action of the other.
LEMMA SameActions ==
    /\ \A d, k, value : Multi!EditBegin(d, k, value) <=> M!EditBegin(d, k, value)
    /\ \A d, k, id : Multi!EditSeal(d, k, id) <=> M!EditSeal(d, k, id)
    /\ \A d, k, id : Multi!EditFinalize(d, k, id) <=> M!EditFinalize(d, k, id)
    /\ \A d, stale, pub : Multi!Rebase(d, stale, pub) <=> M!Rebase(d, stale, pub)
    /\ \A d, pub, selected : Multi!Stage(d, pub, selected) <=> M!Stage(d, pub, selected)
    /\ \A d, seal : Multi!StartCycle(d, seal) <=> M!StartCycle(d, seal)
    /\ \A d, seal : Multi!ReceiveOneDomain(d, seal) <=> M!ReceiveOneDomain(d, seal)
    /\ \A d : Multi!CatchUpUpToDate(d) <=> M!CatchUpUpToDate(d)
    /\ \A d : Multi!CatchUpEmpty(d) <=> M!CatchUpEmpty(d)
    /\ \A d : Multi!CatchUpApply(d) <=> M!CatchUpApply(d)
    /\ \A d : Multi!CatchUpRefused(d) <=> M!CatchUpRefused(d)
    /\ \A d : Multi!ReconcileObserved(d) <=> M!ReconcileObserved(d)
    /\ \A d : Multi!NothingObserved(d) <=> M!NothingObserved(d)
    /\ \A d : Multi!PublishAccepted(d) <=> M!PublishAccepted(d)
    /\ \A d : Multi!PublishConflict(d) <=> M!PublishConflict(d)
    /\ \A d : Multi!PublishUnanswered(d) <=> M!PublishUnanswered(d)
    /\ \A d : Multi!ReconcilePublished(d) <=> M!ReconcilePublished(d)
    /\ \A d : Multi!Backgrounded(d) <=> M!Backgrounded(d)
    /\ \A d : Multi!TransportError(d) <=> M!TransportError(d)
    /\ \A d : Multi!EnterForeground(d) <=> M!EnterForeground(d)
    /\ \A d : Multi!EnterBackground(d) <=> M!EnterBackground(d)
    /\ \A d : Multi!Restart(d) <=> M!Restart(d)
    /\ Multi!ForeignCommit <=> M!ForeignCommit
    /\ \A request : Multi!LateArrival(request) <=> M!LateArrival(request)
<1>1. \A d, k, value : Multi!EditBegin(d, k, value) <=> M!EditBegin(d, k, value)
  BY SameViews, SameDomains, ProvedDomains, Zenon DEF Multi!Edit, M!Edit,
     Multi!EditBegin, M!EditBegin, Multi!InPass, M!InPass, Multi!SetLive,
     M!SetLive, Multi!bounds, M!bounds
<1>2. \A d, k, id : Multi!EditSeal(d, k, id) <=> M!EditSeal(d, k, id)
  BY SameDomains, ProvedDomains, Zenon DEF Multi!Edit, M!Edit, Multi!EditSeal,
     M!EditSeal, Multi!InPass, M!InPass, Multi!SetLive, M!SetLive, Multi!bounds,
     M!bounds
<1>3. \A d, k, id : Multi!EditFinalize(d, k, id) <=> M!EditFinalize(d, k, id)
  BY SameDomains, ProvedDomains, Zenon DEF Multi!Edit, M!Edit,
     Multi!EditFinalize, M!EditFinalize, Multi!InPass, M!InPass, Multi!SetLive,
     M!SetLive, Multi!bounds, M!bounds
<1>4. \A d, stale, pub : Multi!Rebase(d, stale, pub) <=> M!Rebase(d, stale, pub)
  BY SameViews, SameMoves DEF Multi!Rebase, M!Rebase, Multi!bounds, M!bounds
<1>5. \A d, pub, selected : Multi!Stage(d, pub, selected) <=> M!Stage(d, pub, selected)
  BY SameViews, SameMoves, SameRecords, ProvedRecords
     DEF Multi!Stage, M!Stage, Multi!bounds, M!bounds
<1>6. \A d, seal : Multi!StartCycle(d, seal) <=> M!StartCycle(d, seal)
  BY Zenon DEF Multi!GoTo, M!GoTo, Multi!InPass, M!InPass, Multi!MayCall,
     M!MayCall, Multi!StartCycle, M!StartCycle, Multi!bounds, M!bounds
<1>7. \A d, seal : Multi!ReceiveOneDomain(d, seal) <=> M!ReceiveOneDomain(d, seal)
  BY SameViews, SameMoves, SameDomains, ProvedDomains, SameRecords, ProvedRecords
     DEF Multi!ReceiveOneDomain, M!ReceiveOneDomain, Multi!bounds, M!bounds
<1>8. \A d : Multi!CatchUpUpToDate(d) <=> M!CatchUpUpToDate(d)
  BY SameViews, Zenon DEF Multi!CatchUpUpToDate, M!CatchUpUpToDate, Multi!GoTo,
     M!GoTo, Multi!InPass, M!InPass, Multi!MayCall, M!MayCall, Multi!NoEvidence,
     M!NoEvidence, Multi!bounds, M!bounds
<1>9. \A d : Multi!CatchUpEmpty(d) <=> M!CatchUpEmpty(d)
  BY SameViews, SameRecords, ProvedRecords, Zenon DEF Multi!CatchUpEmpty,
     M!CatchUpEmpty, Multi!Fault, M!Fault, Multi!GoTo, M!GoTo, Multi!Idle,
     M!Idle, Multi!InPass, M!InPass, Multi!MayCall, M!MayCall, Multi!NoEvidence,
     M!NoEvidence, Multi!PersistErr, M!PersistErr, Multi!PersistOk, M!PersistOk,
     Multi!Undisturbed, M!Undisturbed, Multi!bounds, M!bounds
<1>10. \A d : Multi!CatchUpApply(d) <=> M!CatchUpApply(d)
  BY SameViews, SameRecords, ProvedRecords, Zenon DEF Multi!CatchUpApply,
     M!CatchUpApply, Multi!Fault, M!Fault, Multi!GoTo, M!GoTo, Multi!Idle,
     M!Idle, Multi!InPass, M!InPass, Multi!MayCall, M!MayCall, Multi!PersistErr,
     M!PersistErr, Multi!PersistOk, M!PersistOk, Multi!SetLive, M!SetLive,
     Multi!Undisturbed, M!Undisturbed, Multi!bounds, M!bounds
<1>11. \A d : Multi!CatchUpRefused(d) <=> M!CatchUpRefused(d)
  BY SameViews, Zenon DEF Multi!CatchUpRefused, M!CatchUpRefused, Multi!GoTo,
     M!GoTo, Multi!Idle, M!Idle, Multi!InPass, M!InPass, Multi!MayCall,
     M!MayCall, Multi!bounds, M!bounds
<1>12. \A d : Multi!ReconcileObserved(d) <=> M!ReconcileObserved(d)
  BY SameViews, Zenon DEF Multi!Fault, M!Fault, Multi!GoTo, M!GoTo, Multi!Idle,
     M!Idle, Multi!InPass, M!InPass, Multi!PersistErr, M!PersistErr,
     Multi!PersistOk, M!PersistOk, Multi!ReconcileObserved, M!ReconcileObserved,
     Multi!Undisturbed, M!Undisturbed, Multi!bounds, M!bounds
<1>13. \A d : Multi!NothingObserved(d) <=> M!NothingObserved(d)
  BY SameViews, Zenon DEF Multi!GoTo, M!GoTo, Multi!InPass, M!InPass,
     Multi!NothingObserved, M!NothingObserved, Multi!bounds, M!bounds
<1>14. \A d : Multi!PublishAccepted(d) <=> M!PublishAccepted(d)
  BY SameViews, Zenon DEF Multi!Accepts, M!Accepts, Multi!GoTo, M!GoTo,
     Multi!InPass, M!InPass, Multi!MayCall, M!MayCall, Multi!PublishAccepted,
     M!PublishAccepted, Multi!bounds, M!bounds
<1>15. \A d : Multi!PublishConflict(d) <=> M!PublishConflict(d)
  BY SameViews, Zenon DEF Multi!Accepts, M!Accepts, Multi!GoTo, M!GoTo,
     Multi!Idle, M!Idle, Multi!InPass, M!InPass, Multi!MayCall, M!MayCall,
     Multi!PublishConflict, M!PublishConflict, Multi!bounds, M!bounds
<1>16. \A d : Multi!PublishUnanswered(d) <=> M!PublishUnanswered(d)
  BY SameViews, Zenon DEF Multi!Fault, M!Fault, Multi!GoTo, M!GoTo, Multi!Idle,
     M!Idle, Multi!InPass, M!InPass, Multi!MayCall, M!MayCall,
     Multi!PublishUnanswered, M!PublishUnanswered, Multi!Undisturbed,
     M!Undisturbed, Multi!bounds, M!bounds
<1>17. \A d : Multi!ReconcilePublished(d) <=> M!ReconcilePublished(d)
  BY SameViews, Zenon DEF Multi!Fault, M!Fault, Multi!GoTo, M!GoTo, Multi!Idle,
     M!Idle, Multi!InPass, M!InPass, Multi!PersistErr, M!PersistErr,
     Multi!PersistOk, M!PersistOk, Multi!ReconcilePublished,
     M!ReconcilePublished, Multi!Undisturbed, M!Undisturbed, Multi!bounds,
     M!bounds
<1>18. \A d : Multi!Backgrounded(d) <=> M!Backgrounded(d)
  BY Zenon DEF Multi!Backgrounded, M!Backgrounded, Multi!GoTo, M!GoTo,
     Multi!Idle, M!Idle, Multi!InPass, M!InPass, Multi!MayCall, M!MayCall,
     Multi!bounds, M!bounds
<1>19. \A d : Multi!TransportError(d) <=> M!TransportError(d)
  BY Zenon DEF Multi!Fault, M!Fault, Multi!GoTo, M!GoTo, Multi!Idle, M!Idle,
     Multi!InPass, M!InPass, Multi!MayCall, M!MayCall, Multi!TransportError,
     M!TransportError, Multi!Undisturbed, M!Undisturbed, Multi!bounds, M!bounds
<1>20. \A d : Multi!EnterForeground(d) <=> M!EnterForeground(d)
  BY Zenon DEF Multi!EnterForeground, M!EnterForeground, Multi!MayCall,
     M!MayCall, Multi!bounds, M!bounds
<1>21. \A d : Multi!EnterBackground(d) <=> M!EnterBackground(d)
  BY Zenon DEF Multi!EnterBackground, M!EnterBackground, Multi!MayCall,
     M!MayCall, Multi!Undisturbed, M!Undisturbed
<1>22. \A d : Multi!Restart(d) <=> M!Restart(d)
  BY SameRecords, ProvedRecords, Zenon DEF Multi!Fault, M!Fault, Multi!GoTo,
     M!GoTo, Multi!Idle, M!Idle, Multi!Restart, M!Restart, Multi!SetLive,
     M!SetLive, Multi!Undisturbed, M!Undisturbed, Multi!bounds, M!bounds
<1>23. Multi!ForeignCommit <=> M!ForeignCommit
  BY Zenon DEF Multi!ForeignCommit, M!ForeignCommit, Multi!Undisturbed,
     M!Undisturbed
<1>24. \A request : Multi!LateArrival(request) <=> M!LateArrival(request)
  BY SameViews, Zenon DEF Multi!Accepts, M!Accepts, Multi!LateArrival,
     M!LateArrival, Multi!bounds, M!bounds
<1> QED
  BY <1>1, <1>2, <1>3, <1>4, <1>5, <1>6, <1>7, <1>8, <1>9, <1>10, <1>11, <1>12,
     <1>13, <1>14, <1>15, <1>16, <1>17, <1>18, <1>19, <1>20, <1>21, <1>22, <1>23,
     <1>24, Zenon

-----------------------------------------------------------------------------
(* The invariant *)

\* A set of no or one element, which the code tests by counting.
AtMostOne(S) == \A p, q \in S : p = q

\* The steps at which a cycle is under way, the actions a report calls
\* reconciled, and all steps a single-domain device may be at.
Working == {"fetch", "classify", "publish"}

Reconciled == {"ObservedAndReconciled", "PublishedAndReconciled"}

KnownSteps == Working \cup {"idle", "reconcile", "done"}

\* A record of the one domain, with an outbox whose size can be counted.
OfOneDomain(d, rec) == DOMAIN rec.trusted_state = {DomainOf[d]} /\ IsFiniteSet(DOMAIN rec.outbox)

\* A resume that takes one publication has at most one.
ModeInv(mode, rec) == mode = "set" \/ (mode = "one" /\ AtMostOne(DOMAIN rec.outbox))

\* Publications that none of the records has in its outbox.
Retired(pubs, recs) == \A r \in recs : pubs \cap DOMAIN r.outbox = {}

\* What a cycle relies on where it is: what it counts as evidence it holds, what
\* it has observed and retired is out of every record that a restart may find, it
\* publishes something, and the report of a retirement is true of those records.
PlaceInv(d, c, rec, recs, where) ==
    /\ where.step \in KnownSteps
    /\ where.step = "idle" => where = Idle
    /\ where.step \in Working => ModeInv(where.mode, rec)
    /\ where.step = "classify" => where.evidence \subseteq DOMAIN c[DomainOf[d]].causal
    /\ where.step = "publish" => where.batch # {}
    /\ where.step # "idle" => Retired(where.observed, recs)
    /\ where.step = "done" =>
          /\ where.action \in Reconciled => Retired(where.publications, recs)
          /\ where.action = "None" => where.publications = {}

\* What a single-domain device with container c, record rec and disk recs relies on.
SingleAt(d, c, rec, recs, where) ==
    /\ DOMAIN c = {DomainOf[d]}
    /\ \A r \in recs : OfOneDomain(d, r)
    /\ PlaceInv(d, c, rec, recs, where)

SingleInv(d) == SingleAt(d, live[d], record[d], disk[d], pass[d])

\* The invariant of the multi-domain runtime, of the pass as it would see it,
\* and what the single-domain devices rely on.
FleetInv ==
    /\ M!RuntimeInv
    /\ DOMAIN pass = Device
    /\ \A d \in Single : SingleInv(d)

-----------------------------------------------------------------------------
(* The model's own operators and those of the instance *)

\* What does not read the pass is the same in the model and in the instance.
LEMMA PlainViews ==
    /\ M!LogHead = LogHead
    /\ \A r : M!Publications(r) = Publications(r)
    /\ \A d : M!FetchedRange(d) = FetchedRange(d)
    /\ \A d : M!Fetched(d) = Fetched(d)
    /\ \A d : M!FreshPubs(d) = FreshPubs(d)
    /\ \A d, k : M!FreshIds(d, k) = FreshIds(d, k)
    /\ \A d : M!Dirty(d) = Dirty(d)
    /\ \A d, k, ids : M!Selectable(d, k, ids) <=> Selectable(d, k, ids)
    /\ \A d : M!Selections(d) = Selections(d)
    /\ \A d, K : M!SealChoices(d, K) = SealChoices(d, K)
    /\ \A d : M!Stale(d) = Stale(d)
    /\ \A d : M!Current(d) = Current(d)
    /\ \A d, c : M!ReceivedRecord(d, c) = ReceivedRecord(d, c)
    /\ \A d, P, n : M!ReconciledRecord(d, P, n) = ReconciledRecord(d, P, n)
    /\ \A d, stale, pub : M!RebasedRecord(d, stale, pub) = RebasedRecord(d, stale, pub)
    /\ \A d, stale, pub : M!CanRebase(d, stale, pub) <=> CanRebase(d, stale, pub)
    /\ \A d, p, s : M!StagedRecord(d, p, s) = StagedRecord(d, p, s)
    /\ M!Idle = Idle
    /\ M!NoEvidence = NoEvidence
<1>1. M!LogHead = LogHead /\ \A r : M!Publications(r) = Publications(r)
  BY Zenon DEF M!LogHead, LogHead, M!Publications, Publications
<1>2. \A d : M!FetchedRange(d) = FetchedRange(d)
  BY <1>1, Zenon DEF M!FetchedRange, FetchedRange
<1>3. \A d : M!Fetched(d) = Fetched(d)
  BY <1>1, <1>2, Zenon DEF M!Fetched, Fetched
<1>4. \A d : M!FreshPubs(d) = FreshPubs(d)
  BY <1>1, Zenon DEF M!FreshPubs, FreshPubs
<1>5. \A d, k : M!FreshIds(d, k) = FreshIds(d, k)
  BY Zenon DEF M!FreshIds, FreshIds
<1>6. \A d : M!Dirty(d) = Dirty(d)
  BY Zenon DEF M!Dirty, Dirty
<1>7. /\ \A d, k, ids : M!Selectable(d, k, ids) <=> Selectable(d, k, ids)
      /\ \A d : M!Selections(d) = Selections(d)
  BY Zenon DEF M!Selections, Selections, M!Selectable, Selectable
<1>8. \A d, K : M!SealChoices(d, K) = SealChoices(d, K)
  BY <1>5, Zenon DEF M!SealChoices, SealChoices
<1>9. \A d : M!Stale(d) = Stale(d) /\ M!Current(d) = Current(d)
  BY Zenon DEF M!Stale, Stale, M!Current, Current
<1>10. \A d, c : M!ReceivedRecord(d, c) = ReceivedRecord(d, c)
  BY <1>1, ProvedRecords, Zenon DEF M!ReceivedRecord, ReceivedRecord
<1>11. \A d, P, n : M!ReconciledRecord(d, P, n) = ReconciledRecord(d, P, n)
  BY ProvedRecords, Zenon DEF M!ReconciledRecord, ReconciledRecord
<1>12. \A d, stale, pub : M!RebasedRecord(d, stale, pub) = RebasedRecord(d, stale, pub)
  BY ProvedRecords, Zenon DEF M!RebasedRecord, RebasedRecord, M!WithoutStale, WithoutStale,
     M!RebasedEntry, RebasedEntry
<1>13. \A d, stale, pub : M!CanRebase(d, stale, pub) <=> CanRebase(d, stale, pub)
  BY ProvedRecords, Zenon DEF M!CanRebase, CanRebase, M!WithoutStale, WithoutStale,
     M!RebasedEntry, RebasedEntry
<1>14. \A d, p, s : M!StagedRecord(d, p, s) = StagedRecord(d, p, s)
  BY ProvedRecords, Zenon DEF M!StagedRecord, StagedRecord
<1>15. M!Idle = Idle /\ M!NoEvidence = NoEvidence
  BY ProvedRegisters, Zenon DEF M!Idle, Idle, M!NoEvidence, NoEvidence
<1> QED
  BY <1>1, <1>2, <1>3, <1>4, <1>5, <1>6, <1>7, <1>8, <1>9, <1>10, <1>11, <1>12, <1>13, <1>14,
     <1>15, Zenon

\* So are the pieces of an action that do not move the pass.
LEMMA PlainMoves ==
    /\ \A d, rec : M!PersistOk(d, rec) <=> PersistOk(d, rec)
    /\ \A d, rec : M!PersistErr(d, rec) <=> PersistErr(d, rec)
    /\ \A d, c : M!SetLive(d, c) <=> SetLive(d, c)
    /\ \A d : M!MayCall(d) <=> MayCall(d)
    /\ M!Fault <=> Fault
    /\ M!Undisturbed <=> Undisturbed
    /\ \A request : M!Accepts(request) <=> Accepts(request)
BY Zenon DEF M!PersistOk, PersistOk, M!PersistErr, PersistErr, M!SetLive, SetLive,
   M!MayCall, MayCall, M!Fault, Fault, M!Undisturbed, Undisturbed, M!Accepts, Accepts,
   M!LogHead, LogHead

-----------------------------------------------------------------------------
(* The pass as the multi-domain runtime would be in it *)

\* The place "where" of d, whose container is c.
Image(d, where, c) ==
    IF d \notin Single THEN where
    ELSE CASE where.step = "done" -> Idle
           [] where.step = "fetch" ->
                [step |-> "fetch", attempt |-> where.attempt, seal |-> where.seal]
           [] where.step = "classify" ->
                [step |-> "classify", attempt |-> where.attempt, seal |-> where.seal,
                 evidence |-> [k \in { x \in {DomainOf[d]} : where.evidence # {} } |->
                                  Restriction(c[k].causal, where.evidence)]]
           [] where.step = "publish" ->
                [step |-> "publish", attempt |-> where.attempt, seal |-> where.seal,
                 batch |-> where.batch]
           [] where.step = "reconcile" ->
                [step |-> "reconcile", batch |-> where.batch, head |-> where.head]
           [] OTHER -> where

\* MultiPass is the image of the pass.
LEMMA MultiPassAt ==
    /\ MultiPass = [d \in Device |-> Image(d, pass[d], live[d])]
    /\ MultiPass' = [d \in Device |-> Image(d, pass'[d], live'[d])]
BY Zenon DEF MultiPass, Image, InPass

\* Outside a cycle, or for a multi-domain device, the container does not matter.
LEMMA ImageIgnores ==
    ASSUME NEW d, NEW where, d \notin Single \/ where.step # "classify"
    PROVE  \A c, e : Image(d, where, c) = Image(d, where, e)
BY DEF Image

\* A step of d moves the instance's pass of d only.
LEMMA PassMoves ==
    ASSUME DOMAIN pass = Device, DOMAIN live = Device, NEW d \in Device, NEW where,
           GoTo(d, where), live' = live \/ \E c : SetLive(d, c)
    PROVE  M!GoTo(d, Image(d, where, live'[d])) /\ pass'[d] = where
<1>1. pass'[d] = where /\ \A e \in Device \ {d} : pass'[e] = pass[e] /\ live'[e] = live[e]
  BY DEF GoTo, SetLive
<1>2. MultiPass' = [MultiPass EXCEPT ![d] = Image(d, where, live'[d])]
  BY <1>1, MultiPassAt
<1> QED
  BY <1>1, <1>2 DEF M!GoTo

\* A step of the application or of the environment does not move it.
LEMMA PassStands ==
    ASSUME DOMAIN pass = Device, DOMAIN live = Device, NEW d \in Device, pass' = pass,
           live' = live \/ \E c : SetLive(d, c),
           d \notin Single \/ pass[d].step # "classify"
    PROVE  MultiPass' = MultiPass
<1>1. \A e \in Device \ {d} : live'[e] = live[e]
  BY DEF SetLive
<1>2. Image(d, pass[d], live'[d]) = Image(d, pass[d], live[d])
  BY ImageIgnores
<1> QED
  BY <1>1, <1>2, MultiPassAt

\* If no container changes either, wherever the devices are.
LEMMA PassKept ==
    ASSUME pass' = pass, live' = live
    PROVE  MultiPass' = MultiPass
BY MultiPassAt

-----------------------------------------------------------------------------
(* Steps of the multi-domain devices *)

\* The variables are functions on the devices.
LEMMA FleetShape ==
    ASSUME FleetInv
    PROVE  /\ DOMAIN pass = Device /\ DOMAIN live = Device
           /\ DOMAIN record = Device /\ DOMAIN disk = Device
BY DEF FleetInv, M!RuntimeInv, M!ShapeInv

\* A multi-domain device is, in the instance, where it is.
LEMMA PlainPass ==
    ASSUME NEW d \in Device \ Single
    PROVE  /\ MultiPass[d] = pass[d]
           /\ \A step : M!InPass(d, step) <=> InPass(d, step)
           /\ \A pub, selected : M!CanStage(d, pub, selected) <=> CanStage(d, pub, selected)
           /\ M!Candidate(d) = Candidate(d)
           /\ M!CanCatchUp(d) <=> CanCatchUp(d)
           /\ M!Observed(d) = Observed(d)
           /\ \A S : M!AfterStale(d, S) = AfterStale(d, S)
           /\ \A e : M!Classify(d, e) = Classify(d, e)
           /\ M!BatchRequest(d) = BatchRequest(d)
<1>1. MultiPass[d] = pass[d]
  BY MultiPassAt DEF Image
<1>2. \A step : M!InPass(d, step) <=> InPass(d, step)
  BY <1>1 DEF M!InPass, InPass
<1>3. \A pub, selected : M!CanStage(d, pub, selected) <=> CanStage(d, pub, selected)
  BY <1>2, PlainViews, ProvedRecords, Zenon DEF M!CanStage, CanStage
<1>4. M!Candidate(d) = Candidate(d)
  BY <1>1, PlainViews, ProvedRecords, Zenon DEF M!Candidate, Candidate
<1>5. M!CanCatchUp(d) <=> CanCatchUp(d)
  BY <1>1, <1>4, PlainViews, ProvedRecords, Zenon DEF M!CanCatchUp, CanCatchUp
<1>6. M!Observed(d) = Observed(d)
  BY <1>1, PlainViews, ProvedRecords, Zenon DEF M!Observed, Observed
<1>7. \A S : M!AfterStale(d, S) = AfterStale(d, S)
  BY <1>1, PlainViews DEF M!AfterStale, AfterStale
<1>8. \A e : M!Classify(d, e) = Classify(d, e)
  BY <1>1, Zenon DEF M!Classify, Classify
<1>9. M!BatchRequest(d) = BatchRequest(d)
  BY <1>1, Zenon DEF M!BatchRequest, BatchRequest
<1> QED
  BY <1>1, <1>2, <1>3, <1>4, <1>5, <1>6, <1>7, <1>8, <1>9

\* Where it goes, it goes in the instance.
LEMMA PlainGoTo ==
    ASSUME FleetInv, NEW d \in Device \ Single, NEW where,
           GoTo(d, where), live' = live \/ \E c : SetLive(d, c)
    PROVE  M!GoTo(d, where)
BY FleetShape, PassMoves DEF Image

\* The application's edits and rebases, on any device.
LEMMA ApplicationSimulated ==
    ASSUME FleetInv, NEW d \in Device, Application(d)
    PROVE  M!Application(d)
<1>1. ASSUME InPass(d, "idle") PROVE M!InPass(d, "idle")
  BY <1>1, MultiPassAt DEF M!InPass, InPass, Image
<1>2. ASSUME InPass(d, "idle"), pass' = pass, live' = live \/ \E c : SetLive(d, c)
      PROVE  MultiPass' = MultiPass
  BY <1>2, FleetShape, PassStands DEF InPass
<1>3. ASSUME NEW k, NEW domain, Edit(d, k, domain) PROVE M!Edit(d, k, domain)
  BY <1>1, <1>2, <1>3, PlainMoves DEF Edit, M!Edit, bounds, M!bounds
<1>4. ASSUME NEW k, NEW value, EditBegin(d, k, value) PROVE M!EditBegin(d, k, value)
  BY <1>3, <1>4, PlainViews, ProvedDomains DEF EditBegin, M!EditBegin
<1>5. ASSUME NEW k, NEW id, EditSeal(d, k, id) PROVE M!EditSeal(d, k, id)
  BY <1>3, <1>5, ProvedDomains DEF EditSeal, M!EditSeal
<1>6. ASSUME NEW k, NEW id, EditFinalize(d, k, id) PROVE M!EditFinalize(d, k, id)
  BY <1>3, <1>6, ProvedDomains DEF EditFinalize, M!EditFinalize
<1>7. ASSUME NEW stale, NEW pub, Rebase(d, stale, pub) PROVE M!Rebase(d, stale, pub)
  BY <1>1, <1>2, <1>7, PlainMoves, PlainViews DEF Rebase, M!Rebase, bounds, M!bounds
<1>8. Rebases(d) => M!Rebases(d)
  BY <1>7, PlainViews DEF Rebases, M!Rebases
<1> QED
  BY <1>4, <1>5, <1>6, <1>8 DEF Application, M!Application

\* The calls of the multi-domain runtime.
LEMMA MultiDomainSimulated ==
    ASSUME FleetInv, NEW d \in Device \ Single, MultiDomain(d)
    PROVE  M!MultiDomain(d)
<1> USE PlainPass, PlainMoves, PlainViews
<1>1. ASSUME pass' = pass, live' = live \/ \E c : SetLive(d, c)
      PROVE  MultiPass' = MultiPass
  BY <1>1, FleetShape, PassStands
<1>2. ASSUME NEW pub, NEW selected, Stage(d, pub, selected) PROVE M!Stage(d, pub, selected)
  BY <1>1, <1>2, ProvedRecords DEF Stage, M!Stage, bounds, M!bounds
<1>3. ASSUME NEW seal, StartCycle(d, seal) PROVE M!StartCycle(d, seal)
  BY <1>3, PlainGoTo DEF StartCycle, M!StartCycle, bounds, M!bounds
<1>4. ASSUME NEW seal, ReceiveOneDomain(d, seal) PROVE M!ReceiveOneDomain(d, seal)
  BY <1>1, <1>4, ProvedRecords, ProvedDomains
     DEF ReceiveOneDomain, M!ReceiveOneDomain, bounds, M!bounds
<1>5. CatchUpUpToDate(d) => M!CatchUpUpToDate(d)
  BY PlainGoTo DEF CatchUpUpToDate, M!CatchUpUpToDate, bounds, M!bounds
<1>6. CatchUpEmpty(d) => M!CatchUpEmpty(d)
  BY PlainGoTo, ProvedRecords DEF CatchUpEmpty, M!CatchUpEmpty, bounds, M!bounds
<1>7. CatchUpApply(d) => M!CatchUpApply(d)
  <2>1. SUFFICES ASSUME CatchUpApply(d) PROVE M!CatchUpApply(d)
    OBVIOUS
  <2>2. CASE /\ PersistOk(d, ReceivedRecord(d, Candidate(d)))
             /\ SetLive(d, Candidate(d))
             /\ GoTo(d, Classify(d, Combined(Fetched(d))))
    <3>1. M!GoTo(d, M!Classify(d, M!Combined(M!Fetched(d))))
      BY <2>2, PlainGoTo, ProvedRecords
    <3> QED
      BY <2>1, <2>2, <3>1 DEF CatchUpApply, M!CatchUpApply, bounds, M!bounds
  <2>3. CASE /\ PersistErr(d, ReceivedRecord(d, Candidate(d)))
             /\ GoTo(d, Idle) /\ UNCHANGED live
    BY <2>1, <2>3, PlainGoTo DEF CatchUpApply, M!CatchUpApply, bounds, M!bounds
  <2> QED
    BY <2>1, <2>2, <2>3 DEF CatchUpApply
<1>8. CatchUpRefused(d) => M!CatchUpRefused(d)
  BY PlainGoTo DEF CatchUpRefused, M!CatchUpRefused, bounds, M!bounds
<1>9. ReconcileObserved(d) => M!ReconcileObserved(d)
  BY PlainGoTo DEF ReconcileObserved, M!ReconcileObserved, bounds, M!bounds
<1>10. NothingObserved(d) => M!NothingObserved(d)
  BY PlainGoTo DEF NothingObserved, M!NothingObserved, bounds, M!bounds
<1>11. PublishAccepted(d) => M!PublishAccepted(d)
  BY PlainGoTo DEF PublishAccepted, M!PublishAccepted, bounds, M!bounds
<1>12. PublishConflict(d) => M!PublishConflict(d)
  BY PlainGoTo DEF PublishConflict, M!PublishConflict, bounds, M!bounds
<1>13. ReconcilePublished(d) => M!ReconcilePublished(d)
  BY PlainGoTo DEF ReconcilePublished, M!ReconcilePublished, bounds, M!bounds
<1>14. Backgrounded(d) => M!Backgrounded(d)
  BY PlainGoTo DEF Backgrounded, M!Backgrounded, bounds, M!bounds
<1>15. PublishUnanswered(d) => M!PublishUnanswered(d)
  BY PlainGoTo DEF PublishUnanswered, M!PublishUnanswered, bounds, M!bounds
<1>16. TransportError(d) => M!TransportError(d)
  BY PlainGoTo DEF TransportError, M!TransportError, bounds, M!bounds
<1>17. InCycle(d) => M!InCycle(d)
  BY <1>5, <1>6, <1>7, <1>8, <1>9, <1>10, <1>11, <1>12, <1>13, <1>14 DEF InCycle, M!InCycle
<1> QED
  BY <1>2, <1>3, <1>4, <1>15, <1>16, <1>17 DEF MultiDomain, M!MultiDomain

\* What the platform does, to any device that stays up.
LEMMA GateSimulated ==
    ASSUME FleetInv, NEW d \in Device, EnterForeground(d) \/ EnterBackground(d)
    PROVE  M!Platform(d)
<1>1. MultiPass' = MultiPass
  BY PassKept DEF EnterForeground, EnterBackground
<1>2. CASE EnterForeground(d)
  BY <1>1, <1>2, PlainMoves DEF EnterForeground, M!EnterForeground, M!Platform, bounds, M!bounds
<1>3. CASE EnterBackground(d)
  BY <1>1, <1>3, PlainMoves DEF EnterBackground, M!EnterBackground, M!Platform
<1> QED
  BY <1>2, <1>3

\* A restart of a multi-domain device.
LEMMA RestartSimulated ==
    ASSUME FleetInv, NEW d \in Device \ Single, Restart(d)
    PROVE  M!Restart(d)
BY PlainGoTo, PlainMoves, PlainViews, ProvedRecords DEF Restart, M!Restart, bounds, M!bounds

\* Commits of nobody, and requests that take effect late.
LEMMA NetworkSimulated ==
    ASSUME FleetInv, Network
    PROVE  M!Network
<1>1. MultiPass' = MultiPass
  BY PassKept DEF Network, ForeignCommit, LateArrival
<1> QED
  BY <1>1, PlainMoves
     DEF Network, M!Network, ForeignCommit, M!ForeignCommit, LateArrival, M!LateArrival,
         bounds, M!bounds

-----------------------------------------------------------------------------
(* Steps of the single-domain devices *)

\* The assumptions of the instance are those of the model.
LEMMA InstanceAssumptions ==
    NoEpoch \notin M!Epoch
BY NoEpochAssumption DEF Epoch, M!Epoch

\* The invariant of the instance, for one device.
LEMMA InstanceFacts ==
    ASSUME FleetInv, NEW d \in Device
    PROVE  /\ M!RuntimeInv
           /\ M!DeviceInv(d) /\ M!TransportInv
           /\ M!RecordInv(d, record[d], log)
           /\ M!DurableInv(d, live[d], record[d].applied_cursor, record[d].outbox, log)
           /\ M!PassInv(d)
           /\ record[d] \in disk[d]
           /\ Len(log) \in Nat
           /\ record[d].applied_cursor \in Nat
<1>1. M!RuntimeInv
  BY DEF FleetInv
<1>2. M!DeviceInv(d) /\ M!TransportInv
  BY <1>1 DEF M!RuntimeInv
<1> QED
  BY <1>1, <1>2, M!DeviceFacts, InstanceAssumptions, RuntimeAssumption, RevisionIdAssumption
     DEF M!DeviceInv

\* What a single-domain device relies on, spelled out; its domain and those of
\* its staged publications are whole.
LEMMA SingleFacts ==
    ASSUME FleetInv, NEW d \in Single
    PROVE  /\ d \in Device
           /\ SingleInv(d)
           /\ DOMAIN live[d] = {DomainOf[d]}
           /\ Restorable(LocalDomain(d))
           /\ IsFiniteSet(DOMAIN record[d].outbox)
           /\ \A p \in DOMAIN record[d].outbox :
                 /\ DOMAIN record[d].outbox[p].objects = {DomainOf[d]}
                 /\ DOMAIN record[d].outbox[p].objects[DomainOf[d]] # {}
<1>1. d \in Device /\ SingleInv(d)
  BY SingleAssumption DEF FleetInv
<1>2. /\ record[d] \in disk[d]
      /\ M!DurableInv(d, live[d], record[d].applied_cursor, record[d].outbox, log)
  BY <1>1, InstanceFacts
<1>3. DOMAIN live[d] = {DomainOf[d]} /\ IsFiniteSet(DOMAIN record[d].outbox)
  BY <1>1, <1>2 DEF SingleInv, SingleAt, OfOneDomain, PlaceInv, ModeInv
<1>4. Restorable(LocalDomain(d))
  <2>1. M!Restorable(live[d][DomainOf[d]])
    BY <1>2, <1>3 DEF M!DurableInv, M!ContainerInv, M!DomainInv, M!WellFormed
  <2> QED
    BY <2>1, ProvedDomains DEF LocalDomain
<1>5. ASSUME NEW p \in DOMAIN record[d].outbox
      PROVE  /\ DOMAIN record[d].outbox[p].objects = {DomainOf[d]}
             /\ DOMAIN record[d].outbox[p].objects[DomainOf[d]] # {}
  <2>1. M!EntryInv(d, live[d], record[d].outbox[p])
    BY <1>2, <1>5 DEF M!DurableInv, M!OutboxInv
  <2> QED
    BY <1>3, <2>1 DEF M!EntryInv, M!Contains, M!CarriesAll
<1> QED
  BY <1>1, <1>3, <1>4, <1>5

\* Where a single-domain device is, in the instance.
LEMMA SinglePass ==
    ASSUME NEW d \in Single, d \in Device
    PROVE  /\ \A step \in KnownSteps \ {"done"} : InPass(d, step) => M!InPass(d, step)
           /\ pass[d].step \in Working =>
                 MultiPass[d].attempt = pass[d].attempt /\ MultiPass[d].seal = pass[d].seal
           /\ InPass(d, "classify") =>
                 MultiPass[d].evidence =
                     [k \in { x \in {DomainOf[d]} : pass[d].evidence # {} } |->
                         Restriction(live[d][k].causal, pass[d].evidence)]
           /\ InPass(d, "publish") => MultiPass[d].batch = pass[d].batch
           /\ InPass(d, "reconcile") =>
                 MultiPass[d].batch = pass[d].batch /\ MultiPass[d].head = pass[d].head
           /\ InPass(d, "idle") => MultiPass[d] = pass[d]
           /\ InPass(d, "done") => MultiPass[d] = Idle
<1>1. MultiPass[d] = Image(d, pass[d], live[d])
  BY MultiPassAt
<1>2. CASE pass[d].step = "fetch"
  BY <1>1, <1>2 DEF Image, InPass, M!InPass, KnownSteps, Working
<1>3. CASE pass[d].step = "classify"
  BY <1>1, <1>3 DEF Image, InPass, M!InPass, KnownSteps, Working
<1>4. CASE pass[d].step = "publish"
  BY <1>1, <1>4 DEF Image, InPass, M!InPass, KnownSteps, Working
<1>5. CASE pass[d].step = "reconcile"
  BY <1>1, <1>5 DEF Image, InPass, M!InPass, KnownSteps, Working
<1>6. CASE pass[d].step \notin Working \cup {"reconcile"}
  BY <1>1, <1>6 DEF Image, InPass, M!InPass, KnownSteps, Working
<1> QED
  BY <1>2, <1>3, <1>4, <1>5, <1>6 DEF Working

\* Where the places it goes to are.
LEMMA SingleImage ==
    ASSUME NEW d \in Single, NEW c
    PROVE  /\ Image(d, Idle, c) = Idle
           /\ \A action, pubs, observed : Image(d, Report(action, pubs, observed), c) = Idle
           /\ \A attempt, seal, mode, observed :
                 Image(d, [step |-> "fetch", attempt |-> attempt, seal |-> seal, mode |-> mode,
                           observed |-> observed], c)
                     = [step |-> "fetch", attempt |-> attempt, seal |-> seal]
           /\ Image(d, ClassifySingle(d, {}), c) =
                 [step |-> "classify", attempt |-> pass[d].attempt, seal |-> pass[d].seal,
                  evidence |-> NoEvidence]
           /\ \A pubs, observed : Image(d, Publishing(d, pubs, observed), c) =
                 [step |-> "publish", attempt |-> pass[d].attempt, seal |-> pass[d].seal,
                  batch |-> pubs]
           /\ \A pubs, head, observed :
                 Image(d, [step |-> "reconcile", batch |-> pubs, head |-> head,
                           observed |-> observed], c)
                     = [step |-> "reconcile", batch |-> pubs, head |-> head]
<1>1. /\ Image(d, Idle, c) = Idle
      /\ \A action, pubs, observed : Image(d, Report(action, pubs, observed), c) = Idle
  BY DEF Image, Idle, Report
<1>2. \A attempt, seal, mode, observed :
         Image(d, [step |-> "fetch", attempt |-> attempt, seal |-> seal, mode |-> mode,
                   observed |-> observed], c)
             = [step |-> "fetch", attempt |-> attempt, seal |-> seal]
  BY DEF Image
<1>3. Image(d, ClassifySingle(d, {}), c) =
         [step |-> "classify", attempt |-> pass[d].attempt, seal |-> pass[d].seal,
          evidence |-> NoEvidence]
  BY DEF Image, ClassifySingle, NoEvidence
<1>4. \A pubs, observed : Image(d, Publishing(d, pubs, observed), c) =
         [step |-> "publish", attempt |-> pass[d].attempt, seal |-> pass[d].seal, batch |-> pubs]
  BY DEF Image, Publishing
<1>5. \A pubs, head, observed :
         Image(d, [step |-> "reconcile", batch |-> pubs, head |-> head, observed |-> observed], c)
             = [step |-> "reconcile", batch |-> pubs, head |-> head]
  BY DEF Image
<1> QED
  BY <1>1, <1>2, <1>3, <1>4, <1>5

\* stage_prepared_scalar_handoff is a stage of the one domain.
LEMMA StageScalarSimulated ==
    ASSUME FleetInv, NEW d \in Single, NEW pub \in FreshPubs(d), NEW ids \in SUBSET IdsOf[d],
           Selectable(d, DomainOf[d], ids), StageScalar(d, pub, ids)
    PROVE  M!MultiDomain(d)
<1> DEFINE selected == [k \in {DomainOf[d]} |-> ids]
           n == Handoff(LocalDomain(d), ids)
<1>1. /\ d \in Device /\ DOMAIN live[d] = {DomainOf[d]}
      /\ Restorable(live[d][DomainOf[d]])
  BY SingleFacts DEF LocalDomain
<1>2. /\ CanHandoff(live[d][DomainOf[d]], ids) /\ ids # {}
      /\ ProjectionEncodes(PreparedScalar(d, ids))
      /\ SnapshotEncodes(n)
      /\ CanPrepareOutbox(record[d], pub, StagedScalarRecord(d, pub, ids).outbox[pub])
  BY DEF StageScalar, CanPrepareScalar, LocalDomain
<1>3. CanHandoffSelected(live[d], selected)
  BY <1>1, <1>2 DEF CanHandoffSelected
<1>4. PreparedProjection(live[d], selected) = PreparedScalar(d, ids)
  BY DEF PreparedProjection, PreparedScalar, Container, LocalDomain
<1>5. HandoffSelected(live[d], selected) = Container(d, n)
  BY <1>1 DEF HandoffSelected, Container, LocalDomain
<1>6. StagedRecord(d, pub, selected) = StagedScalarRecord(d, pub, ids)
  BY <1>4, <1>5 DEF StagedRecord, StagedScalarRecord
<1>7. TrustedStateEncodes(Container(d, n))
  BY <1>2 DEF TrustedStateEncodes, Container
<1>8. selected \in Selections(d)
  BY <1>1 DEF Selections
<1>9. pass' = pass /\ InPass(d, "idle") /\ (live' = live \/ SetLive(d, Container(d, n)))
  BY DEF StageScalar
<1>10. MultiPass' = MultiPass
  BY <1>1, <1>9, FleetShape, PassStands DEF InPass
<1>11. M!InPass(d, "idle")
  BY <1>1, <1>9, SinglePass DEF KnownSteps
<1>12. /\ \/ PersistOk(d, StagedScalarRecord(d, pub, ids)) /\ SetLive(d, Container(d, n))
          \/ PersistErr(d, StagedScalarRecord(d, pub, ids)) /\ UNCHANGED live
       /\ UNCHANGED <<log, late, foreground, bounds>>
  BY DEF StageScalar
<1> HIDE DEF selected, n
<1>13. M!CanStage(d, pub, selected)
  BY <1>2, <1>3, <1>4, <1>5, <1>6, <1>7, <1>11, PlainViews, ProvedRecords DEF M!CanStage
<1>14. M!Stage(d, pub, selected)
  BY <1>5, <1>6, <1>10, <1>12, <1>13, PlainViews, PlainMoves, ProvedRecords
     DEF M!Stage, bounds, M!bounds
<1> QED
  BY <1>8, <1>14, PlainViews DEF M!MultiDomain

\* Where a single-domain device goes, it goes in the instance, to the image.
LEMMA SingleGoTo ==
    ASSUME FleetInv, NEW d \in Single, NEW where, GoTo(d, where),
           live' = live \/ \E c : SetLive(d, c)
    PROVE  M!GoTo(d, Image(d, where, live'[d]))
BY FleetShape, SingleFacts, PassMoves

\* It ends its pass, with or without a report.
LEMMA SingleEnds ==
    ASSUME FleetInv, NEW d \in Single,
           GoTo(d, Idle) \/ \E action, pubs, observed : GoTo(d, Report(action, pubs, observed)),
           live' = live \/ \E c : SetLive(d, c)
    PROVE  M!GoTo(d, M!Idle)
BY SingleGoTo, SingleImage, PlainViews

\* A cycle starts, in either mode.
LEMMA StartSingleSimulated ==
    ASSUME FleetInv, NEW d \in Single, NEW mode, NEW keys \in SUBSET Dirty(d),
           NEW seal \in SealChoices(d, keys), StartSingle(d, mode, seal)
    PROVE  M!MultiDomain(d)
<1>1. M!GoTo(d, [step |-> "fetch", attempt |-> 1, seal |-> seal])
  <2> DEFINE where == [step |-> "fetch", attempt |-> 1, seal |-> seal, mode |-> mode,
                       observed |-> {}]
  <2>1. GoTo(d, where) /\ live' = live
    BY DEF StartSingle
  <2>2. Image(d, where, live'[d]) = [step |-> "fetch", attempt |-> 1, seal |-> seal]
    BY SingleImage
  <2> HIDE DEF where
  <2> QED
    BY <2>1, <2>2, SingleGoTo
<1>2. M!InPass(d, "idle")
  BY SingleFacts, SinglePass DEF StartSingle, KnownSteps
<1>3. M!StartCycle(d, seal)
  BY <1>1, <1>2, PlainMoves DEF StartSingle, M!StartCycle, bounds, M!bounds
<1> QED
  BY <1>3, PlainViews DEF M!MultiDomain

\* A report that nothing changed, and the reading of a report, are no steps of
\* the multi-domain runtime.
LEMMA ReportSimulated ==
    ASSUME FleetInv, NEW d \in Single, RefuseMultiple(d) \/ Acknowledge(d)
    PROVE  UNCHANGED M!vars
<1>1. d \in Device /\ SingleInv(d)
  BY SingleFacts
<1>2. MultiPass[d] = Idle
  BY <1>1, SinglePass DEF SingleInv, SingleAt, OfOneDomain, PlaceInv, ModeInv, RefuseMultiple, Acknowledge, InPass
<1>3. M!GoTo(d, Idle)
  BY SingleEnds, PlainViews DEF RefuseMultiple, Acknowledge
<1>4. MultiPass' = MultiPass
  <2>1. MultiPass' = [MultiPass EXCEPT ![d] = MultiPass[d]]
    BY <1>2, <1>3 DEF M!GoTo
  <2> QED
    BY <2>1, MultiPassAt
<1> QED
  BY <1>4 DEF RefuseMultiple, Acknowledge, M!vars, bounds

\* Nothing new, or a range without sync objects.
LEMMA SingleUpToDateSimulated ==
    ASSUME FleetInv, NEW d \in Single, SingleUpToDate(d) \/ SingleEmpty(d)
    PROVE  M!InCycle(d)
<1>1. /\ d \in Device /\ DOMAIN live[d] = {DomainOf[d]}
      /\ M!InPass(d, "fetch")
      /\ MultiPass[d].attempt = pass[d].attempt /\ MultiPass[d].seal = pass[d].seal
  BY SingleFacts, SinglePass DEF SingleUpToDate, SingleEmpty, InPass, KnownSteps, Working
<1>2. ASSUME GoTo(d, ClassifySingle(d, {})), live' = live
      PROVE  M!GoTo(d, M!Classify(d, M!NoEvidence))
  BY <1>1, <1>2, SingleGoTo, SingleImage, PlainViews DEF M!Classify
<1>3. CASE SingleUpToDate(d)
  BY <1>1, <1>2, <1>3, PlainViews, PlainMoves
     DEF SingleUpToDate, M!CatchUpUpToDate, M!InCycle, bounds, M!bounds
<1>4. CASE SingleEmpty(d)
  <2>1. TrustedStateEncodes(live[d])
    BY <1>1, <1>4 DEF SingleEmpty, TrustedStateEncodes, LocalDomain
  <2>2. M!CatchUpEmpty(d)
    BY <1>1, <1>2, <1>4, <2>1, SingleEnds, PlainViews, PlainMoves, ProvedRecords
       DEF SingleEmpty, M!CatchUpEmpty, bounds, M!bounds
  <2> QED
    BY <2>2 DEF M!InCycle
<1> QED
  BY <1>3, <1>4

\* A call that fails, is refused in the background, or finds the range gone.
LEMMA SingleErrorSimulated ==
    ASSUME FleetInv, NEW d \in Single,
           SingleBaseline(d) \/ TransportError(d) \/ Backgrounded(d)
    PROVE  M!MultiDomain(d)
<1>1. d \in Device /\ \A step \in {"fetch", "publish"} : InPass(d, step) => M!InPass(d, step)
  BY SingleFacts, SinglePass DEF KnownSteps, Working
<1>2. M!GoTo(d, M!Idle)
  BY SingleEnds DEF SingleBaseline, TransportError, Backgrounded
<1>3. CASE SingleBaseline(d)
  BY <1>1, <1>2, <1>3, PlainMoves
     DEF SingleBaseline, M!TransportError, M!MultiDomain, bounds, M!bounds
<1>4. CASE TransportError(d)
  BY <1>1, <1>2, <1>4, PlainMoves
     DEF TransportError, M!TransportError, M!MultiDomain, bounds, M!bounds
<1>5. CASE Backgrounded(d)
  BY <1>1, <1>2, <1>5, PlainMoves
     DEF Backgrounded, M!Backgrounded, M!InCycle, M!MultiDomain, bounds, M!bounds
<1> QED
  BY <1>3, <1>4, <1>5

\* recover_scalar_domain is a restart.
LEMMA RecoverScalarSimulated ==
    ASSUME FleetInv, NEW d \in Single, RecoverScalar(d)
    PROVE  M!Restart(d)
<1>1. PICK rec \in disk[d] :
         /\ RecordDecodes(rec)
         /\ SnapshotDecodes(rec.trusted_state[DomainOf[d]])
         /\ record' = [record EXCEPT ![d] = rec]
         /\ disk' = [disk EXCEPT ![d] = {rec}]
         /\ SetLive(d, rec.trusted_state)
  BY DEF RecoverScalar
<1>2. DOMAIN rec.trusted_state = {DomainOf[d]}
  BY SingleFacts DEF SingleInv, SingleAt, OfOneDomain, PlaceInv, ModeInv
<1>3. TrustedStateDecodes(rec.trusted_state)
  BY <1>1, <1>2 DEF TrustedStateDecodes
<1>4. M!GoTo(d, M!Idle)
  BY <1>1, SingleEnds DEF RecoverScalar
<1>5. \E r \in disk[d] :
         /\ M!RecordDecodes(r) /\ M!TrustedStateDecodes(r.trusted_state)
         /\ record' = [record EXCEPT ![d] = r]
         /\ disk' = [disk EXCEPT ![d] = {r}]
         /\ M!SetLive(d, r.trusted_state)
  BY <1>1, <1>3, PlainMoves, ProvedRecords
<1> QED
  BY <1>4, <1>5, PlainMoves DEF RecoverScalar, M!Restart, bounds, M!bounds

\* An acknowledged publication is retired.
LEMMA SingleReconciledSimulated ==
    ASSUME FleetInv, NEW d \in Single, SingleReconciled(d)
    PROVE  M!InCycle(d)
<1>1. /\ d \in Device /\ M!InPass(d, "reconcile")
      /\ MultiPass[d].batch = pass[d].batch /\ MultiPass[d].head = pass[d].head
  BY SingleFacts, SinglePass DEF SingleReconciled, KnownSteps
<1>2. M!GoTo(d, M!Idle)
  BY SingleEnds DEF SingleReconciled
<1>3. M!ReconcilePublished(d)
  BY <1>1, <1>2, PlainViews, PlainMoves
     DEF SingleReconciled, M!ReconcilePublished, bounds, M!bounds
<1> QED
  BY <1>3 DEF M!InCycle

\* publish_staged sends what publish_staged_batch would send of one publication.
LEMMA SameRequest ==
    ASSUME FleetInv, NEW d \in Single, InPass(d, "publish")
    PROVE  RequestOf(d) = M!BatchRequest(d)
<1>1. /\ d \in Device /\ SingleInv(d) /\ M!InPass(d, "publish")
      /\ MultiPass[d].batch = pass[d].batch
  BY SingleFacts, SinglePass DEF KnownSteps, Working
<1>2. pass[d].batch \subseteq DOMAIN record[d].outbox
  BY <1>1, InstanceFacts DEF M!PassInv
<1>3. /\ pass[d].batch # {}
      /\ pass[d].mode = "set" \/ (pass[d].mode = "one" /\ AtMostOne(DOMAIN record[d].outbox))
  BY <1>1 DEF SingleInv, SingleAt, OfOneDomain, PlaceInv, ModeInv, InPass, Working
<1>4. M!BatchRequest(d) = BatchRequest(d)
  BY <1>1 DEF M!BatchRequest, BatchRequest
<1>5. CASE pass[d].mode = "set"
  BY <1>4, <1>5 DEF RequestOf
<1>6. CASE pass[d].mode = "one" /\ AtMostOne(DOMAIN record[d].outbox)
  <2> DEFINE pub == CHOOSE p \in pass[d].batch : TRUE
  <2>1. pub \in pass[d].batch
    BY <1>3
  <2>2. pass[d].batch = {pub}
    BY <1>2, <1>6, <2>1 DEF AtMostOne
  <2>3. RequestOf(d) = StagedRequest(d, pub)
    BY <1>6 DEF RequestOf
  <2> HIDE DEF pub
  <2>4. StagedRequest(d, pub) = BatchRequest(d)
    BY <2>2 DEF StagedRequest, BatchRequest
  <2> QED
    BY <1>4, <2>3, <2>4
<1> QED
  BY <1>3, <1>5, <1>6

\* The publish call: accepted, refused, or without an answer.
LEMMA SinglePublishSimulated ==
    ASSUME FleetInv, NEW d \in Single,
           SingleAccepted(d) \/ SingleConflict(d) \/ SingleUnanswered(d)
    PROVE  M!MultiDomain(d)
<1>1. /\ d \in Device /\ InPass(d, "publish") /\ M!InPass(d, "publish")
      /\ MultiPass[d].batch = pass[d].batch
      /\ MultiPass[d].attempt = pass[d].attempt /\ MultiPass[d].seal = pass[d].seal
  BY SingleFacts, SinglePass
     DEF SingleAccepted, SingleConflict, SingleUnanswered, KnownSteps, Working, InPass
<1>2. RequestOf(d) = M!BatchRequest(d)
  BY <1>1, SameRequest
<1>3. CASE SingleAccepted(d)
  <2> DEFINE where == [step |-> "reconcile", batch |-> pass[d].batch, head |-> LogHead + 1,
                       observed |-> pass[d].observed]
             image == [step |-> "reconcile", batch |-> pass[d].batch, head |-> LogHead + 1]
  <2>1. GoTo(d, where) /\ live' = live
    BY <1>3 DEF SingleAccepted
  <2>2. Image(d, where, live'[d]) = image
    BY DEF Image
  <2> HIDE DEF where
  <2>3. M!GoTo(d, image)
    BY <2>1, <2>2, SingleGoTo
  <2>4. M!PublishAccepted(d)
    BY <1>1, <1>2, <1>3, <2>3, PlainViews, PlainMoves
       DEF SingleAccepted, M!PublishAccepted, bounds, M!bounds
  <2> QED
    BY <2>4 DEF M!InCycle, M!MultiDomain
<1>4. CASE SingleConflict(d)
  <2>1. M!GoTo(d, IF pass[d].attempt = 1
                  THEN [step |-> "fetch", attempt |-> 2, seal |-> pass[d].seal]
                  ELSE M!Idle)
    <3>1. CASE pass[d].attempt = 1
      <4> DEFINE where == [step |-> "fetch", attempt |-> 2, seal |-> pass[d].seal,
                           mode |-> pass[d].mode, observed |-> pass[d].observed]
      <4>1. GoTo(d, where) /\ live' = live
        BY <1>4, <3>1 DEF SingleConflict
      <4>2. Image(d, where, live'[d]) = [step |-> "fetch", attempt |-> 2, seal |-> pass[d].seal]
        BY DEF Image
      <4> HIDE DEF where
      <4> QED
        BY <3>1, <4>1, <4>2, SingleGoTo
    <3>2. CASE pass[d].attempt # 1
      BY <1>4, <3>2, SingleEnds DEF SingleConflict
    <3> QED
      BY <3>1, <3>2
  <2>2. M!PublishConflict(d)
    BY <1>1, <1>2, <1>4, <2>1, PlainViews, PlainMoves
       DEF SingleConflict, M!PublishConflict, bounds, M!bounds
  <2> QED
    BY <2>2 DEF M!InCycle, M!MultiDomain
<1>5. CASE SingleUnanswered(d)
  <2>1. M!GoTo(d, M!Idle)
    BY <1>5, SingleEnds DEF SingleUnanswered
  <2>2. M!PublishUnanswered(d)
    BY <1>1, <1>2, <1>5, <2>1, PlainMoves
       DEF SingleUnanswered, M!PublishUnanswered, bounds, M!bounds
  <2> QED
    BY <2>2 DEF M!MultiDomain
<1> QED
  BY <1>3, <1>4, <1>5

\* The flat evidence proves the arrival of what the registers prove.
LEMMA SameEvidence ==
    ASSUME FleetInv, NEW d \in Single, InPass(d, "classify")
    PROVE  M!Observed(d) = ObservedSet(d)
<1> DEFINE D == DomainOf[d]
           objects(p) == record[d].outbox[p].objects
<1>1. /\ d \in Device /\ SingleInv(d)
      /\ \A p \in DOMAIN record[d].outbox : DOMAIN objects(p) = {D} /\ DOMAIN objects(p)[D] # {}
  BY SingleFacts
<1>2. MultiPass[d].evidence = [k \in { x \in {D} : pass[d].evidence # {} } |->
                                  Restriction(live[d][k].causal, pass[d].evidence)]
  BY <1>1, SinglePass
<1>3. pass[d].evidence \subseteq DOMAIN live[d][D].causal
  BY <1>1 DEF SingleInv, SingleAt, OfOneDomain, PlaceInv, ModeInv, InPass
<1>4. ASSUME NEW p \in DOMAIN record[d].outbox
      PROVE  ProjectionIsObserved(objects(p), MultiPass[d].evidence) <=> Carried(d, p)
  <2>1. Carried(d, p) <=> DOMAIN objects(p)[D] \subseteq pass[d].evidence
    BY DEF Carried
  <2>2. DOMAIN objects(p) = {D} /\ DOMAIN objects(p)[D] # {}
    BY <1>1, <1>4
  <2>3. CASE pass[d].evidence = {}
    <3>1. DOMAIN MultiPass[d].evidence = {}
      BY <1>2, <2>3
    <3> QED
      BY <2>1, <2>2, <2>3, <3>1 DEF ProjectionIsObserved
  <2>4. CASE pass[d].evidence # {}
    <3>1. DOMAIN MultiPass[d].evidence = {D}
      BY <1>2, <2>4
    <3>2. DOMAIN MultiPass[d].evidence[D] = pass[d].evidence
      <4>1. MultiPass[d].evidence[D] = Restriction(live[d][D].causal, pass[d].evidence)
        BY <1>2, <2>4
      <4>2. DOMAIN Restriction(live[d][D].causal, pass[d].evidence) = pass[d].evidence
        BY <1>3 DEF Restriction
      <4> QED
        BY <4>1, <4>2
    <3> QED
      BY <2>1, <2>2, <3>1, <3>2 DEF ProjectionIsObserved
  <2> QED
    BY <2>3, <2>4
<1>5. Stale(d) \subseteq DOMAIN record[d].outbox
  BY DEF Stale
<1> QED
  BY <1>4, <1>5, PlainViews, ProvedRecords DEF M!Observed, ObservedSet

\* Where a resume goes once it knows what stays stale, it goes in the instance.
LEMMA SameAfterStale ==
    ASSUME FleetInv, NEW d \in Single, InPass(d, "classify"), NEW unresolved, NEW observed,
           live' = live, GoTo(d, AfterStaleSet(d, unresolved, observed))
    PROVE  M!GoTo(d, M!AfterStale(d, unresolved))
<1>1. MultiPass[d].attempt = pass[d].attempt /\ MultiPass[d].seal = pass[d].seal
  BY SingleFacts, SinglePass DEF InPass, Working
<1>2. CASE unresolved # {} \/ Current(d) = {}
  <2>1. \/ AfterStaleSet(d, unresolved, observed) = Report("NeedsRebase", unresolved, observed)
        \/ AfterStaleSet(d, unresolved, observed) = Report("None", {}, observed)
    BY <1>2 DEF AfterStaleSet
  <2>2. M!AfterStale(d, unresolved) = M!Idle
    BY <1>2, PlainViews DEF M!AfterStale
  <2>3. M!GoTo(d, M!Idle)
    BY <2>1, SingleEnds
  <2> QED
    BY <2>2, <2>3
<1>3. CASE unresolved = {} /\ Current(d) # {}
  <2>1. GoTo(d, Publishing(d, Current(d), observed))
    BY <1>3 DEF AfterStaleSet
  <2>2. M!AfterStale(d, unresolved) =
           [step |-> "publish", attempt |-> pass[d].attempt, seal |-> pass[d].seal,
            batch |-> Current(d)]
    BY <1>1, <1>3, PlainViews DEF M!AfterStale
  <2>3. Image(d, Publishing(d, Current(d), observed), live'[d]) =
           [step |-> "publish", attempt |-> pass[d].attempt, seal |-> pass[d].seal,
            batch |-> Current(d)]
    BY DEF Image, Publishing
  <2> QED
    BY <2>1, <2>2, <2>3, SingleGoTo, Zenon
<1> QED
  BY <1>2, <1>3

\* resume_scalar_outbox_set classifies as the multi-domain resume does.
LEMMA SetSimulated ==
    ASSUME FleetInv, NEW d \in Single, SetDecided(d) \/ SetObserved(d)
    PROVE  M!InCycle(d)
<1>1. InPass(d, "classify") /\ M!InPass(d, "classify")
  BY SingleFacts, SinglePass DEF SetDecided, SetObserved, InMode, KnownSteps, Working
<1>2. M!Observed(d) = ObservedSet(d)
  BY <1>1, SameEvidence
<1>3. CASE SetDecided(d)
  <2>1. M!NothingObserved(d)
    BY <1>1, <1>2, <1>3, SameAfterStale, PlainViews
       DEF SetDecided, M!NothingObserved, bounds, M!bounds
  <2> QED
    BY <2>1 DEF M!InCycle
<1>4. CASE SetObserved(d)
  <2> DEFINE next == ReconciledRecord(d, ObservedSet(d), record[d].applied_cursor)
             both == pass[d].observed \cup ObservedSet(d)
  <2>1. /\ ObservedSet(d) # {} /\ live' = live
        /\ \/ PersistOk(d, next) /\ GoTo(d, AfterStaleSet(d, Stale(d) \ ObservedSet(d), both))
           \/ PersistErr(d, next) /\ GoTo(d, Idle)
        /\ UNCHANGED <<live, log, late, foreground, bounds>>
    BY <1>4 DEF SetObserved
  <2>2. next = M!ReconciledRecord(d, M!Observed(d), record[d].applied_cursor)
    BY <1>2, PlainViews
  <2> HIDE DEF next, both
  <2>3. \/ M!PersistOk(d, next) /\ M!GoTo(d, M!AfterStale(d, M!Stale(d) \ M!Observed(d)))
        \/ M!PersistErr(d, next) /\ M!GoTo(d, M!Idle)
    BY <1>1, <1>2, <2>1, SameAfterStale, SingleEnds, PlainViews, PlainMoves
  <2>4. M!ReconcileObserved(d)
    BY <1>1, <1>2, <2>1, <2>2, <2>3 DEF M!ReconcileObserved, bounds, M!bounds
  <2> QED
    BY <2>4 DEF M!InCycle
<1> QED
  BY <1>3, <1>4

\* With at most one publication there is nothing between "none", "one that is
\* current" and "one that is stale".
LEMMA OneStaleOrCurrent ==
    ASSUME NEW d, AtMostOne(DOMAIN record[d].outbox)
    PROVE  /\ Current(d) # {} => Stale(d) = {}
           /\ \A pub \in Stale(d) : Stale(d) = {pub} /\ Current(d) = {}
           /\ DOMAIN record[d].outbox = {} => Stale(d) = {} /\ Current(d) = {}
           /\ DOMAIN record[d].outbox # {} /\ Current(d) = {} => Stale(d) # {}
BY DEF AtMostOne, Current, Stale

\* So does resume_single_scalar_domain, of at most one publication.
LEMMA OneSimulated ==
    ASSUME FleetInv, NEW d \in Single, OneDecided(d) \/ OneObserved(d)
    PROVE  M!InCycle(d)
<1>1. /\ InPass(d, "classify") /\ M!InPass(d, "classify") /\ pass[d].mode = "one"
      /\ SingleInv(d)
  BY SingleFacts, SinglePass DEF OneDecided, OneObserved, InMode, KnownSteps, Working
<1>2. M!Observed(d) = ObservedSet(d)
  BY <1>1, SameEvidence
<1>3. AtMostOne(DOMAIN record[d].outbox)
  BY <1>1 DEF SingleInv, SingleAt, OfOneDomain, PlaceInv, ModeInv, InPass, Working
<1>4. CASE OneDecided(d)
  <2>1. ObservedSet(d) = {}
    BY <1>4 DEF OneDecided, ObservedSet
  <2>2. M!GoTo(d, M!AfterStale(d, Stale(d)))
    <3>1. CASE Current(d) # {}
      <4>1. GoTo(d, AfterStaleSet(d, Stale(d), {})) /\ live' = live
        BY <1>3, <1>4, <3>1, OneStaleOrCurrent DEF OneDecided, AfterStaleSet
      <4> QED
        BY <1>1, <4>1, SameAfterStale
    <3>2. CASE Current(d) = {}
      <4>1. GoTo(d, Report("None", {}, {})) \/ GoTo(d, Report("NeedsRebase", Stale(d), {}))
        BY <1>4, <3>2 DEF OneDecided
      <4>2. M!GoTo(d, M!Idle)
        BY <1>4, <4>1, SingleEnds DEF OneDecided
      <4>3. M!AfterStale(d, Stale(d)) = M!Idle
        BY <3>2, PlainViews DEF M!AfterStale
      <4> QED
        BY <4>2, <4>3
    <3> QED
      BY <3>1, <3>2
  <2>3. M!NothingObserved(d)
    BY <1>1, <1>2, <1>4, <2>1, <2>2, PlainViews
       DEF OneDecided, M!NothingObserved, bounds, M!bounds
  <2> QED
    BY <2>3 DEF M!InCycle
<1>5. CASE OneObserved(d)
  <2>1. PICK pub \in Stale(d) :
           /\ Carried(d, pub)
           /\ \/ /\ PersistOk(d, ReconciledOne(d, pub, record[d].applied_cursor))
                 /\ GoTo(d, Report("ObservedAndReconciled", {pub}, {pub}))
              \/ /\ PersistErr(d, ReconciledOne(d, pub, record[d].applied_cursor))
                 /\ GoTo(d, Idle)
    BY <1>5 DEF OneObserved
  <2>2. Stale(d) = {pub} /\ Current(d) = {} /\ ObservedSet(d) = {pub}
    BY <1>3, <2>1, OneStaleOrCurrent DEF ObservedSet
  <2>3. ReconciledOne(d, pub, record[d].applied_cursor)
            = M!ReconciledRecord(d, M!Observed(d), record[d].applied_cursor)
    BY <1>2, <2>2, PlainViews DEF ReconciledOne, ReconciledRecord
  <2>4. M!AfterStale(d, M!Stale(d) \ M!Observed(d)) = M!Idle
    BY <2>2, PlainViews DEF M!AfterStale
  <2>5. M!GoTo(d, M!Idle)
    BY <1>5, <2>1, SingleEnds DEF OneObserved
  <2>6. M!ReconcileObserved(d)
    BY <1>1, <1>2, <1>5, <2>1, <2>2, <2>3, <2>4, <2>5, PlainMoves
       DEF OneObserved, M!ReconcileObserved, bounds, M!bounds
  <2> QED
    BY <2>6 DEF M!InCycle
<1> QED
  BY <1>4, <1>5

\* A range of the one domain: its registers are all of the range, and carry a
\* revision.
LEMMA OneRange ==
    ASSUME FleetInv, NEW d \in Single, Fetched(d) # {},
           \A p \in Fetched(d) : OnlyExpected(d, p)
    PROVE  /\ DOMAIN Combined(Fetched(d)) = {DomainOf[d]}
           /\ RemoteRegister(d) = Combined(Fetched(d))[DomainOf[d]]
           /\ RemoteRegister(d) \in M!Registers
           /\ DOMAIN RemoteRegister(d) # {}
<1> DEFINE D == DomainOf[d]
           F == Fetched(d)
<1>1. d \in Device /\ M!RuntimeInv /\ M!TransportInv /\ Len(log) \in Nat
      /\ record[d].applied_cursor \in Nat
  BY SingleFacts, InstanceFacts
<1>2. \A p \in F : DOMAIN p = {D}
  BY DEF OnlyExpected
<1>3. TouchedBy(F) = {D}
  BY <1>2 DEF TouchedBy
<1>4. F \subseteq M!Projections
  BY <1>1, PlainViews, M!FetchedFacts, InstanceAssumptions, RuntimeAssumption,
     RevisionIdAssumption
<1>5. \A p \in F : M!CarriesAll(p)
  <2>1. \A p \in F : \E q \in M!Everything(log) : p = q.objects
    BY <1>1 DEF Fetched, FetchedRange, Publications, M!Everything, M!Prefix, LogHead
  <2> QED
    BY <1>1, <2>1 DEF M!TransportInv, M!GoodPublications
<1>6. RemoteRegister(d) = Combined(F)[D]
  <2>1. { p \in F : D \in DOMAIN p } = F
    BY <1>2
  <2> QED
    BY <2>1 DEF RemoteRegister
<1>7. M!Combined(F) = Combined(F) /\ M!TouchedBy(F) = TouchedBy(F)
  BY ProvedRecords
<1> HIDE DEF D, F
<1>8. /\ DOMAIN Combined(F) = {D}
      /\ Combined(F)[D] \in M!Registers
      /\ \A p \in F : \A id : M!Carries(p, D, id) => id \in DOMAIN Combined(F)[D]
  <2>1. /\ DOMAIN M!Combined(F) = M!TouchedBy(F)
        /\ \A k \in M!TouchedBy(F) :
              /\ M!Combined(F)[k] \in M!Registers
              /\ \A p \in F : \A id : M!Carries(p, k, id) => id \in DOMAIN M!Combined(F)[k]
    BY <1>4, M!CombinedContents, InstanceAssumptions, RuntimeAssumption, RevisionIdAssumption
  <2>2. M!TouchedBy(F) = {D} /\ D \in M!TouchedBy(F)
    BY <1>3, <1>7
  <2> QED
    BY <1>7, <2>1, <2>2
<1>9. DOMAIN Combined(F)[D] # {}
  <2>1. PICK p \in F : TRUE
    BY DEF F
  <2>2. PICK id : id \in DOMAIN p[D]
    BY <1>2, <1>5, <2>1 DEF M!CarriesAll
  <2> QED
    BY <1>2, <1>8, <2>1, <2>2 DEF M!Carries
<1> QED
  BY <1>6, <1>8, <1>9 DEF D, F

\* The receive that commit_received_scalar_domain makes is the candidate of the
\* multi-domain catch-up, and either refuses what the other refuses.
LEMMA SameCandidate ==
    ASSUME FleetInv, NEW d \in Single, InPass(d, "fetch"), Fetched(d) # {},
           \A p \in Fetched(d) : OnlyExpected(d, p)
    PROVE  /\ M!Candidate(d) =
                 Container(d, ObserveRemote(LocalDomain(d), RemoteRegister(d), SealOf(d)))
           /\ M!CanCatchUp(d) <=> CanReceive(d)
<1> DEFINE D == DomainOf[d]
           R == Combined(Fetched(d))
           n == ObserveRemote(LocalDomain(d), RemoteRegister(d), SealOf(d))
<1>1. /\ d \in Device /\ DOMAIN live[d] = {D} /\ Restorable(live[d][D])
      /\ MultiPass[d].seal = pass[d].seal
  BY SingleFacts, SinglePass DEF LocalDomain, InPass, Working
<1>2. DOMAIN R = {D} /\ RemoteRegister(d) = R[D]
  BY OneRange
<1>3. M!Candidate(d) = Container(d, n)
  <2>1. M!Candidate(d) = ObserveProjection(live[d], R, pass[d].seal)
    BY <1>1, PlainViews, ProvedRecords DEF M!Candidate
  <2> HIDE DEF R
  <2>2. ObserveProjection(live[d], R, pass[d].seal) =
           [k \in {D} |-> ObserveRemote(live[d][k], R[k], SealIdOf(pass[d].seal, k))]
    BY <1>1, <1>2 DEF ObserveProjection
  <2> QED
    BY <1>2, <2>1, <2>2 DEF Container, LocalDomain, SealOf
<1>4. M!CanObserveProjection(live[d], R, MultiPass[d].seal) <=>
         CanObserveRemote(LocalDomain(d), RemoteRegister(d), SealOf(d))
  <2>1. M!CanObserveProjection(live[d], R, MultiPass[d].seal) <=>
           CanObserveProjection(live[d], R, pass[d].seal)
    BY <1>1, ProvedRecords
  <2> HIDE DEF R
  <2> QED
    BY <1>1, <1>2, <2>1 DEF CanObserveProjection, LocalDomain, SealOf
<1>5. TrustedStateEncodes(Container(d, n)) <=> SnapshotEncodes(n)
  BY DEF TrustedStateEncodes, Container
<1> HIDE DEF n
<1>6. M!CanCatchUp(d) <=> CanReceive(d)
  BY <1>3, <1>4, <1>5, PlainViews, ProvedRecords DEF M!CanCatchUp, CanReceive, n
<1> QED
  BY <1>3, <1>6 DEF n

\* After the receive the device holds the registers of the range, so that the
\* flat evidence determines them.
LEMMA EvidenceHeld ==
    ASSUME FleetInv, NEW d \in Single, InPass(d, "fetch"), Fetched(d) # {}, CanReceive(d),
           NEW n, n = ObserveRemote(LocalDomain(d), RemoteRegister(d), SealOf(d))
    PROVE  /\ DOMAIN RemoteRegister(d) \subseteq DOMAIN n.causal
           /\ Image(d, ClassifySingle(d, DOMAIN RemoteRegister(d)), Container(d, n)) =
                 [step |-> "classify", attempt |-> pass[d].attempt, seal |-> pass[d].seal,
                  evidence |-> Combined(Fetched(d))]
<1> DEFINE D == DomainOf[d]
           r == RemoteRegister(d)
           m == LocalDomain(d)
           pre == SealOf(d)
<1>1. /\ d \in Device /\ DOMAIN live[d] = {D} /\ M!InPass(d, "fetch")
      /\ MultiPass[d].seal = pass[d].seal
  BY SingleFacts, SinglePass DEF InPass, Working, KnownSteps
<1>2. /\ DOMAIN Combined(Fetched(d)) = {D} /\ r = Combined(Fetched(d))[D]
      /\ r \in M!Registers /\ DOMAIN r # {}
  BY OneRange DEF CanReceive
<1>3. M!WellFormed(m)
  BY <1>1, InstanceFacts DEF M!DurableInv, M!ContainerInv, M!DomainInv, LocalDomain
<1>4. pre = {} \/ \E id \in RevisionId : pre = {id}
  <2>1. \A k \in DOMAIN pass[d].seal : pass[d].seal[k] \in IdsOf[d]
    BY <1>1, InstanceFacts DEF M!PassInv, M!SealsUsable
  <2>2. IdsOf[d] \subseteq RevisionId
    BY <1>1, RuntimeAssumption
  <2> QED
    BY <2>1, <2>2 DEF SealOf, SealIdOf
<1>5. M!CanObserveRemote(m, r, pre) /\ n = M!ObserveRemote(m, r, pre)
  BY ProvedDomains DEF CanReceive
<1> HIDE DEF r, m, pre
<1>6. M!Extended(r, n.causal)
  <2>1. M!Grown(m, n, pre, r)
    BY <1>2, <1>3, <1>4, <1>5, M!ObserveRemoteGrows, InstanceAssumptions, RuntimeAssumption,
       RevisionIdAssumption
  <2> QED
    BY <2>1 DEF M!Grown
<1>7. Restriction(n.causal, DOMAIN r) = r
  <2>1. r = [id \in DOMAIN r |-> r[id]]
    BY <1>2 DEF M!Registers
  <2>2. DOMAIN n.causal \cap DOMAIN r = DOMAIN r /\ \A id \in DOMAIN r : n.causal[id] = r[id]
    BY <1>6 DEF M!Extended
  <2>3. Restriction(n.causal, DOMAIN r) = [id \in DOMAIN r |-> r[id]]
    BY <2>2 DEF Restriction
  <2> QED
    BY <2>1, <2>3
<1>8. [k \in { x \in {D} : DOMAIN r # {} } |-> Restriction(Container(d, n)[k].causal, DOMAIN r)]
         = Combined(Fetched(d))
  <2> DEFINE C == Combined(Fetched(d))
  <2>1. C = [k \in {D} |-> C[k]]
    BY <1>2 DEF Combined
  <2>2. { x \in {D} : DOMAIN r # {} } = {D}
    BY <1>2
  <2>3. \A k \in {D} : Restriction(Container(d, n)[k].causal, DOMAIN r) = C[k]
    BY <1>2, <1>7 DEF Container
  <2> HIDE DEF C
  <2> QED
    BY <2>1, <2>2, <2>3 DEF C
<1>9. Image(d, ClassifySingle(d, DOMAIN r), Container(d, n)) =
         [step |-> "classify", attempt |-> pass[d].attempt, seal |-> pass[d].seal,
          evidence |-> [k \in { x \in {D} : DOMAIN r # {} } |->
                           Restriction(Container(d, n)[k].causal, DOMAIN r)]]
  BY DEF Image, ClassifySingle
<1> QED
  BY <1>6, <1>8, <1>9 DEF M!Extended, r

\* commit_received_scalar_domain is the multi-domain catch-up of one domain.
LEMMA SingleReceiveSimulated ==
    ASSUME FleetInv, NEW d \in Single, SingleReceive(d)
    PROVE  M!InCycle(d)
<1> DEFINE n == ObserveRemote(LocalDomain(d), RemoteRegister(d), SealOf(d))
           next == ReceivedRecord(d, Container(d, n))
<1>1. /\ d \in Device /\ InPass(d, "fetch") /\ M!InPass(d, "fetch")
      /\ MultiPass[d].attempt = pass[d].attempt /\ MultiPass[d].seal = pass[d].seal
      /\ Fetched(d) # {} /\ CanReceive(d) /\ MayCall(d)
      /\ DOMAIN live = Device
  BY SingleFacts, SinglePass, FleetShape DEF SingleReceive, InPass, Working, KnownSteps
<1>2. M!Candidate(d) = Container(d, n) /\ M!CanCatchUp(d)
  BY <1>1, SameCandidate DEF CanReceive
<1>3. Image(d, ClassifySingle(d, DOMAIN RemoteRegister(d)), Container(d, n)) =
         M!Classify(d, M!Combined(M!Fetched(d)))
  BY <1>1, EvidenceHeld, PlainViews, ProvedRecords DEF M!Classify
<1>4. /\ \/ /\ PersistOk(d, next) /\ SetLive(d, Container(d, n))
            /\ GoTo(d, ClassifySingle(d, DOMAIN RemoteRegister(d)))
         \/ PersistErr(d, next) /\ GoTo(d, Idle) /\ UNCHANGED live
      /\ UNCHANGED <<log, late, foreground, bounds>>
  BY DEF SingleReceive
<1>5. next = M!ReceivedRecord(d, M!Candidate(d))
  BY <1>2, PlainViews
<1> HIDE DEF next, n
<1>6. CASE /\ PersistOk(d, next) /\ SetLive(d, Container(d, n))
           /\ GoTo(d, ClassifySingle(d, DOMAIN RemoteRegister(d)))
  <2>1. live'[d] = Container(d, n)
    BY <1>1, <1>6 DEF SetLive
  <2>2. M!GoTo(d, M!Classify(d, M!Combined(M!Fetched(d))))
    BY <1>3, <1>6, <2>1, SingleGoTo
  <2>3. M!CatchUpApply(d)
    BY <1>1, <1>2, <1>4, <1>5, <1>6, <2>2, PlainViews, PlainMoves
       DEF M!CatchUpApply, bounds, M!bounds
  <2> QED
    BY <2>3 DEF M!InCycle
<1>7. CASE PersistErr(d, next) /\ GoTo(d, Idle) /\ UNCHANGED live
  <2>1. M!GoTo(d, M!Idle)
    BY <1>7, SingleEnds
  <2>2. M!CatchUpApply(d)
    BY <1>1, <1>2, <1>4, <1>5, <1>7, <2>1, PlainViews, PlainMoves
       DEF M!CatchUpApply, bounds, M!bounds
  <2> QED
    BY <2>2 DEF M!InCycle
<1> QED
  BY <1>4, <1>6, <1>7

\* A range that is refused ends the pass and changes nothing else.
LEMMA RefusedEnds ==
    ASSUME FleetInv, NEW d \in Single, SingleRefused(d)
    PROVE  /\ M!GoTo(d, M!Idle)
           /\ UNCHANGED <<live, record, disk, log, late, foreground, M!bounds, faults>>
BY SingleEnds DEF SingleRefused, bounds, M!bounds

\* While nobody publishes another domain, the multi-domain runtime would refuse
\* it too.
LEMMA SingleRefusedSimulated ==
    ASSUME FleetInv, NEW d \in Single, SingleRefused(d), OneDomainOnly
    PROVE  M!InCycle(d)
<1>1. /\ d \in Device /\ InPass(d, "fetch") /\ M!InPass(d, "fetch")
      /\ Fetched(d) # {} /\ ~CanReceive(d) /\ MayCall(d)
  BY SingleFacts, SinglePass DEF SingleRefused, Working, KnownSteps
<1>2. Len(log) \in Nat /\ record[d].applied_cursor \in Nat
  BY <1>1, InstanceFacts
<1>3. \A p \in Fetched(d) : OnlyExpected(d, p)
  BY <1>2 DEF OneDomainOnly, Fetched, FetchedRange, Publications, LogHead
<1>4. ~M!CanCatchUp(d)
  BY <1>1, <1>3, SameCandidate
<1>5. FetchedRange(d) # {}
  BY <1>1 DEF Fetched, Publications
<1>6. M!CatchUpRefused(d)
  BY <1>1, <1>4, <1>5, RefusedEnds, PlainViews, PlainMoves
     DEF M!CatchUpRefused, bounds, M!bounds
<1> QED
  BY <1>6 DEF M!InCycle

-----------------------------------------------------------------------------
(* The simulation *)

\* Every call of the single-domain runtime is one of the multi-domain runtime,
\* a restart, or nothing, unless a range is refused that has another domain.
LEMMA SingleDomainSimulated ==
    ASSUME FleetInv, NEW d \in Single, SingleDomain(d)
    PROVE  \/ M!MultiDomain(d) \/ M!Restart(d) \/ UNCHANGED M!vars
           \/ SingleRefused(d) /\ ~OneDomainOnly
<1>1. M!InCycle(d) => M!MultiDomain(d)
  BY DEF M!MultiDomain
<1>2. ASSUME NEW pub \in FreshPubs(d), NEW ids \in SUBSET IdsOf[d],
             Selectable(d, DomainOf[d], ids), StageScalar(d, pub, ids)
      PROVE  M!MultiDomain(d)
  BY <1>2, StageScalarSimulated
<1>3. ASSUME NEW mode, NEW keys \in SUBSET Dirty(d), NEW seal \in SealChoices(d, keys),
             StartSingle(d, mode, seal)
      PROVE  M!MultiDomain(d)
  BY <1>3, StartSingleSimulated
<1>4. RefuseMultiple(d) \/ Acknowledge(d) => UNCHANGED M!vars
  BY ReportSimulated
<1>5. SingleUpToDate(d) \/ SingleEmpty(d) => M!InCycle(d)
  BY SingleUpToDateSimulated
<1>6. SingleBaseline(d) \/ TransportError(d) \/ Backgrounded(d) => M!MultiDomain(d)
  BY SingleErrorSimulated
<1>7. SingleReceive(d) => M!InCycle(d)
  BY SingleReceiveSimulated
<1>8. SingleRefused(d) /\ OneDomainOnly => M!InCycle(d)
  BY SingleRefusedSimulated
<1>9. OneDecided(d) \/ OneObserved(d) => M!InCycle(d)
  BY OneSimulated
<1>10. SetDecided(d) \/ SetObserved(d) => M!InCycle(d)
  BY SetSimulated
<1>11. SingleAccepted(d) \/ SingleConflict(d) \/ SingleUnanswered(d) => M!MultiDomain(d)
  BY SinglePublishSimulated
<1>12. SingleReconciled(d) => M!InCycle(d)
  BY SingleReconciledSimulated
<1>13. RecoverScalar(d) => M!Restart(d)
  BY RecoverScalarSimulated
<1> QED
  BY <1>1, <1>2, <1>3, <1>4, <1>5, <1>6, <1>7, <1>8, <1>9, <1>10, <1>11, <1>12, <1>13
     DEF SingleDomain

\* Every step of the fleet is a step of the multi-domain runtime, or none, with
\* the same exception.
LEMMA FleetSimulated ==
    ASSUME FleetInv, [FleetNext]_vars
    PROVE  \/ [M!Next]_(M!vars)
           \/ (\E d \in Single : SingleRefused(d)) /\ ~OneDomainOnly
<1>1. CASE UNCHANGED vars
  <2>1. MultiPass' = MultiPass
    BY <1>1, PassKept DEF vars
  <2> QED
    BY <1>1, <2>1 DEF vars, M!vars
<1>2. CASE Network
  BY <1>2, NetworkSimulated DEF M!Next
<1>3. ASSUME NEW d \in Device, Application(d) PROVE M!Next
  BY <1>3, ApplicationSimulated DEF M!Next
<1>4. ASSUME NEW d \in Single, SingleDomain(d)
      PROVE  [M!Next]_(M!vars) \/ (SingleRefused(d) /\ ~OneDomainOnly)
  <2>1. d \in Device
    BY SingleFacts
  <2> QED
    BY <1>4, <2>1, SingleDomainSimulated DEF M!Next, M!Platform
<1>5. ASSUME NEW d \in Single, EnterForeground(d) \/ EnterBackground(d) PROVE M!Next
  <2>1. d \in Device
    BY SingleFacts
  <2> QED
    BY <1>5, <2>1, GateSimulated DEF M!Next
<1>6. ASSUME NEW d \in Device \ Single, MultiDomain(d) PROVE M!Next
  BY <1>6, MultiDomainSimulated DEF M!Next
<1>7. ASSUME NEW d \in Device \ Single, Platform(d) PROVE M!Next
  BY <1>7, GateSimulated, RestartSimulated DEF Platform, M!Platform, M!Next
<1> QED
  BY <1>1, <1>2, <1>3, <1>4, <1>5, <1>6, <1>7 DEF FleetNext

\* So the invariant of the multi-domain runtime is kept.
LEMMA RuntimeInvKept ==
    ASSUME FleetInv, [FleetNext]_vars
    PROVE  M!RuntimeInv'
<1>1. M!RuntimeInv
  BY DEF FleetInv
<1>2. CASE [M!Next]_(M!vars)
  BY <1>1, <1>2, M!NextPreserves, InstanceAssumptions, RuntimeAssumption, RevisionIdAssumption
<1>3. ASSUME NEW d \in Single, SingleRefused(d) PROVE M!RuntimeInv'
  <2>1. d \in Device
    BY SingleFacts
  <2>2. /\ M!GoTo(d, M!Idle)
        /\ UNCHANGED <<live, record, disk, log, late, foreground, M!bounds, faults>>
    BY <1>3, RefusedEnds
  <2> QED
    BY <1>1, <2>1, <2>2, M!EndOfPassKeeps, InstanceAssumptions, RuntimeAssumption,
       RevisionIdAssumption
<1> QED
  BY <1>2, <1>3, FleetSimulated

-----------------------------------------------------------------------------
(* A step is of one device *)

Confined(new, old, d) == DOMAIN new = DOMAIN old /\ \A e \in DOMAIN old \ {d} : new[e] = old[e]

\* A step leaves the other devices alone.
StepOf(d) ==
    /\ Confined(live', live, d) /\ Confined(record', record, d)
    /\ Confined(disk', disk, d) /\ Confined(pass', pass, d)

\* The pieces of an action do.
LEMMA Confines ==
    ASSUME NEW d
    PROVE  /\ \A c : SetLive(d, c) => Confined(live', live, d)
           /\ \A where : GoTo(d, where) => Confined(pass', pass, d)
           /\ \A rec : PersistOk(d, rec) \/ PersistErr(d, rec) =>
                 Confined(record', record, d) /\ Confined(disk', disk, d)
           /\ live' = live => Confined(live', live, d)
           /\ pass' = pass => Confined(pass', pass, d)
           /\ record' = record => Confined(record', record, d)
           /\ disk' = disk => Confined(disk', disk, d)
BY DEF SetLive, GoTo, PersistOk, PersistErr, Confined

\* So does every action of a multi-domain device, and every edit.
LEMMA PlainStepOf ==
    ASSUME NEW d, Application(d) \/ MultiDomain(d) \/ Platform(d)
    PROVE  StepOf(d)
<1> USE Confines DEF StepOf
<1>1. ASSUME NEW k, NEW domain, Edit(d, k, domain) PROVE StepOf(d)
  BY <1>1 DEF Edit
<1>2. ASSUME NEW stale, NEW pub, Rebase(d, stale, pub) PROVE StepOf(d)
  BY <1>2 DEF Rebase
<1>3. ASSUME NEW pub, NEW selected, Stage(d, pub, selected) PROVE StepOf(d)
  BY <1>3 DEF Stage
<1>4. ASSUME NEW seal, StartCycle(d, seal) PROVE StepOf(d)
  BY <1>4 DEF StartCycle
<1>5. ASSUME NEW seal, ReceiveOneDomain(d, seal) PROVE StepOf(d)
  BY <1>5 DEF ReceiveOneDomain
<1>6. CatchUpUpToDate(d) => StepOf(d)
  BY DEF CatchUpUpToDate
<1>7. CatchUpEmpty(d) => StepOf(d)
  BY DEF CatchUpEmpty
<1>8. CatchUpApply(d) => StepOf(d)
  BY DEF CatchUpApply
<1>9. CatchUpRefused(d) => StepOf(d)
  BY DEF CatchUpRefused
<1>10. ReconcileObserved(d) => StepOf(d)
  BY DEF ReconcileObserved
<1>11. NothingObserved(d) => StepOf(d)
  BY DEF NothingObserved
<1>12. PublishAccepted(d) => StepOf(d)
  BY DEF PublishAccepted
<1>13. PublishConflict(d) => StepOf(d)
  BY DEF PublishConflict
<1>14. ReconcilePublished(d) => StepOf(d)
  BY DEF ReconcilePublished
<1>15. Backgrounded(d) => StepOf(d)
  BY DEF Backgrounded
<1>16. PublishUnanswered(d) => StepOf(d)
  BY DEF PublishUnanswered
<1>17. TransportError(d) => StepOf(d)
  BY DEF TransportError
<1>18. EnterForeground(d) => StepOf(d)
  BY DEF EnterForeground
<1>19. EnterBackground(d) => StepOf(d)
  BY DEF EnterBackground
<1>20. Restart(d) => StepOf(d)
  BY DEF Restart, Confined
<1>21. Application(d) => StepOf(d)
  BY <1>1, <1>2 DEF Application, EditBegin, EditSeal, EditFinalize, Rebases
<1>22. InCycle(d) => StepOf(d)
  BY <1>6, <1>7, <1>8, <1>9, <1>10, <1>11, <1>12, <1>13, <1>14, <1>15 DEF InCycle
<1> QED
  BY <1>3, <1>4, <1>5, <1>16, <1>17, <1>18, <1>19, <1>20, <1>21, <1>22 DEF MultiDomain, Platform

\* And every call of the single-domain runtime.
LEMMA SingleStepOf ==
    ASSUME NEW d, SingleDomain(d)
    PROVE  StepOf(d)
<1> USE Confines DEF StepOf
<1>1. ASSUME NEW pub, NEW ids, StageScalar(d, pub, ids) PROVE StepOf(d)
  BY <1>1 DEF StageScalar
<1>2. ASSUME NEW mode, NEW seal, StartSingle(d, mode, seal) PROVE StepOf(d)
  BY <1>2 DEF StartSingle
<1>3. RefuseMultiple(d) => StepOf(d)
  BY DEF RefuseMultiple
<1>4. SingleUpToDate(d) => StepOf(d)
  BY DEF SingleUpToDate
<1>5. SingleBaseline(d) => StepOf(d)
  BY DEF SingleBaseline
<1>6. SingleEmpty(d) => StepOf(d)
  BY DEF SingleEmpty
<1>7. SingleReceive(d) => StepOf(d)
  BY DEF SingleReceive
<1>8. SingleRefused(d) => StepOf(d)
  BY DEF SingleRefused
<1>9. OneDecided(d) => StepOf(d)
  BY DEF OneDecided
<1>10. OneObserved(d) => StepOf(d)
  BY DEF OneObserved
<1>11. SetDecided(d) => StepOf(d)
  BY DEF SetDecided
<1>12. SetObserved(d) => StepOf(d)
  BY DEF SetObserved
<1>13. SingleAccepted(d) => StepOf(d)
  BY DEF SingleAccepted
<1>14. SingleConflict(d) => StepOf(d)
  BY DEF SingleConflict
<1>15. SingleUnanswered(d) => StepOf(d)
  BY DEF SingleUnanswered
<1>16. SingleReconciled(d) => StepOf(d)
  BY DEF SingleReconciled
<1>17. Acknowledge(d) => StepOf(d)
  BY DEF Acknowledge
<1>18. TransportError(d) => StepOf(d)
  BY DEF TransportError
<1>19. Backgrounded(d) => StepOf(d)
  BY DEF Backgrounded
<1>20. RecoverScalar(d) => StepOf(d)
  BY DEF RecoverScalar, Confined
<1> QED
  BY <1>1, <1>2, <1>3, <1>4, <1>5, <1>6, <1>7, <1>8, <1>9, <1>10, <1>11, <1>12, <1>13, <1>14, <1>15, <1>16, <1>17, <1>18, <1>19, <1>20 DEF SingleDomain

\* What the other devices rely on is left alone.
LEMMA OthersKept ==
    ASSUME FleetInv, NEW d, StepOf(d)
    PROVE  DOMAIN pass' = Device /\ \A e \in Single \ {d} : SingleInv(e)'
<1>1. ASSUME NEW e \in Single \ {d}
      PROVE  live'[e] = live[e] /\ record'[e] = record[e] /\ disk'[e] = disk[e] /\ pass'[e] = pass[e]
  BY <1>1, FleetShape, SingleFacts DEF StepOf, Confined
<1>2. ASSUME NEW e \in Single \ {d} PROVE SingleInv(e)'
  BY <1>1, <1>2, SingleFacts DEF SingleInv
<1> QED
  BY <1>2, FleetShape DEF StepOf, Confined

-----------------------------------------------------------------------------
(* What a single-domain device relies on, after its own steps *)

\* The records it makes are of its one domain; retiring takes publications out
\* of the outbox.
LEMMA SingleRecords ==
    ASSUME FleetInv, NEW d \in Single
    PROVE  /\ \A c : DOMAIN c = {DomainOf[d]} =>
                 /\ OfOneDomain(d, ReceivedRecord(d, c))
                 /\ ReceivedRecord(d, c).outbox = record[d].outbox
           /\ \A pubs, head :
                 /\ OfOneDomain(d, ReconciledRecord(d, pubs, head))
                 /\ DOMAIN ReconciledRecord(d, pubs, head).outbox = DOMAIN record[d].outbox \ pubs
           /\ \A pub, ids : OfOneDomain(d, StagedScalarRecord(d, pub, ids))
           /\ \A stale, pub : OfOneDomain(d, RebasedRecord(d, stale, pub))
<1> DEFINE r == record[d]
<1>1. /\ d \in Device /\ DOMAIN live[d] = {DomainOf[d]} /\ r \in disk[d] /\ M!IsRecord(r)
      /\ OfOneDomain(d, r)
  BY SingleFacts, InstanceFacts DEF SingleInv, SingleAt, M!RecordInv
<1>2. DOMAIN r.trusted_state = {DomainOf[d]} /\ IsFiniteSet(DOMAIN r.outbox)
  BY <1>1 DEF OfOneDomain
<1> HIDE DEF r
<1>3. ASSUME NEW rec, M!IsRecord(rec)
      PROVE  /\ \A state, pub, entry :
                   PrepareOutbox(rec, state, pub, entry) =
                       [trusted_state |-> state, applied_cursor |-> rec.applied_cursor,
                        outbox |-> M!WithEntry(rec.outbox, pub, entry)]
             /\ \A state, cursor :
                   ApplyReceived(rec, state, cursor) =
                       [trusted_state |-> state, applied_cursor |-> cursor, outbox |-> rec.outbox]
             /\ \A pubs, state, cursor :
                   RetireOutbox(rec, pubs, state, cursor) =
                       [trusted_state |-> state, applied_cursor |-> cursor,
                        outbox |-> M!Without(rec.outbox, pubs)]
  BY <1>3, M!RecordTransitions, ProvedRecords, InstanceAssumptions, RuntimeAssumption,
     RevisionIdAssumption
<1>4. \A outbox, pub, entry : IsFiniteSet(DOMAIN outbox) =>
         IsFiniteSet(DOMAIN M!WithEntry(outbox, pub, entry))
  BY FS_AddElement DEF M!WithEntry
<1>5. \A outbox, pubs :
         /\ DOMAIN M!Without(outbox, pubs) = DOMAIN outbox \ pubs
         /\ IsFiniteSet(DOMAIN outbox) => IsFiniteSet(DOMAIN M!Without(outbox, pubs))
  BY FS_Difference DEF M!Without
<1>6. ASSUME NEW c, DOMAIN c = {DomainOf[d]}
      PROVE  /\ OfOneDomain(d, ReceivedRecord(d, c))
             /\ ReceivedRecord(d, c).outbox = r.outbox
  BY <1>1, <1>2, <1>3, <1>6 DEF ReceivedRecord, OfOneDomain, r
<1>7. ASSUME NEW pubs, NEW head
      PROVE  /\ OfOneDomain(d, ReconciledRecord(d, pubs, head))
             /\ DOMAIN ReconciledRecord(d, pubs, head).outbox = DOMAIN r.outbox \ pubs
  <2> DEFINE next == ReconciledRecord(d, pubs, head)
  <2>1. next.trusted_state = r.trusted_state /\ next.outbox = M!Without(r.outbox, pubs)
    BY <1>1, <1>3 DEF ReconciledRecord, r
  <2> HIDE DEF next
  <2>2. OfOneDomain(d, next) /\ DOMAIN next.outbox = DOMAIN r.outbox \ pubs
    BY <1>2, <1>5, <2>1 DEF OfOneDomain
  <2> QED
    BY <2>2 DEF next
<1>8. ASSUME NEW pub, NEW ids PROVE OfOneDomain(d, StagedScalarRecord(d, pub, ids))
  <2> DEFINE c == Container(d, Handoff(LocalDomain(d), ids))
             entry == [expected_cursor |-> r.applied_cursor, objects |-> PreparedScalar(d, ids)]
  <2>1. DOMAIN c = {DomainOf[d]}
    BY DEF Container
  <2>2. StagedScalarRecord(d, pub, ids) = PrepareOutbox(r, c, pub, entry)
    BY DEF StagedScalarRecord, r
  <2> HIDE DEF c, entry
  <2> QED
    BY <1>1, <1>2, <1>3, <1>4, <2>1, <2>2 DEF OfOneDomain
<1>9. ASSUME NEW stale, NEW pub PROVE OfOneDomain(d, RebasedRecord(d, stale, pub))
  <2> DEFINE w == WithoutStale(d, stale)
             entry == RebasedEntry(d, stale)
  <2>1. w = [trusted_state |-> live[d], applied_cursor |-> r.applied_cursor,
             outbox |-> M!Without(r.outbox, {stale})]
    <3>1. w = RetireOutbox(r, {stale}, live[d], r.applied_cursor)
      BY DEF WithoutStale, r
    <3> QED
      BY <1>1, <1>3, <3>1
  <2>2. M!IsRecord(w) /\ w.outbox = M!Without(r.outbox, {stale})
    BY <2>1 DEF M!IsRecord
  <2>3. RebasedRecord(d, stale, pub) = PrepareOutbox(w, live[d], pub, entry)
    BY DEF RebasedRecord
  <2> HIDE DEF w, entry
  <2>4. IsFiniteSet(DOMAIN w.outbox)
    BY <1>2, <1>5, <2>2
  <2> QED
    BY <1>1, <1>3, <1>4, <2>2, <2>3, <2>4 DEF OfOneDomain
<1> QED
  BY <1>6, <1>7, <1>8, <1>9 DEF r

\* Where it may go.
LEMMA Places ==
    ASSUME NEW d, NEW c, NEW rec, NEW recs
    PROVE  /\ PlaceInv(d, c, rec, recs, Idle)
           /\ \A action, pubs, observed :
                 PlaceInv(d, c, rec, recs, Report(action, pubs, observed)) <=>
                    /\ Retired(observed, recs)
                    /\ action \in Reconciled => Retired(pubs, recs)
                    /\ action = "None" => pubs = {}
           /\ \A pubs, head, observed : Retired(observed, recs) =>
                 PlaceInv(d, c, rec, recs, [step |-> "reconcile", batch |-> pubs, head |-> head,
                                            observed |-> observed])
           /\ Retired({}, recs)
<1>1. PlaceInv(d, c, rec, recs, Idle)
  BY DEF PlaceInv, Idle, KnownSteps, Working
<1>2. \A action, pubs, observed : Report(action, pubs, observed) =
         [step |-> "done", action |-> action, publications |-> pubs, observed |-> observed]
  BY DEF Report
<1>3. \A action, pubs, observed :
         PlaceInv(d, c, rec, recs, Report(action, pubs, observed)) <=>
            /\ Retired(observed, recs)
            /\ action \in Reconciled => Retired(pubs, recs)
            /\ action = "None" => pubs = {}
  BY <1>2 DEF PlaceInv, KnownSteps, Working
<1>4. \A pubs, head, observed : Retired(observed, recs) =>
         PlaceInv(d, c, rec, recs, [step |-> "reconcile", batch |-> pubs, head |-> head,
                                    observed |-> observed])
  BY DEF PlaceInv, KnownSteps, Working
<1>5. Retired({}, recs)
  BY DEF Retired
<1> QED
  BY <1>1, <1>3, <1>4, <1>5

\* Where it may go on in a mode.
LEMMA WorkingPlaces ==
    ASSUME NEW d, NEW c, NEW rec, NEW recs
    PROVE  /\ \A attempt, seal, mode, observed : ModeInv(mode, rec) /\ Retired(observed, recs) =>
                 PlaceInv(d, c, rec, recs,
                     [step |-> "fetch", attempt |-> attempt, seal |-> seal, mode |-> mode,
                      observed |-> observed])
           /\ \A evidence : (/\ ModeInv(pass[d].mode, rec) /\ Retired(pass[d].observed, recs)
                             /\ evidence \subseteq DOMAIN c[DomainOf[d]].causal) =>
                 PlaceInv(d, c, rec, recs, ClassifySingle(d, evidence))
           /\ \A pubs, observed : (/\ ModeInv(pass[d].mode, rec) /\ Retired(observed, recs)
                                   /\ pubs # {}) =>
                 PlaceInv(d, c, rec, recs, Publishing(d, pubs, observed))
<1>1. \A attempt, seal, mode, observed : ModeInv(mode, rec) /\ Retired(observed, recs) =>
         PlaceInv(d, c, rec, recs,
             [step |-> "fetch", attempt |-> attempt, seal |-> seal, mode |-> mode,
              observed |-> observed])
  BY DEF PlaceInv, KnownSteps, Working
<1>2. \A evidence : (/\ ModeInv(pass[d].mode, rec) /\ Retired(pass[d].observed, recs)
                     /\ evidence \subseteq DOMAIN c[DomainOf[d]].causal) =>
         PlaceInv(d, c, rec, recs, ClassifySingle(d, evidence))
  BY DEF PlaceInv, KnownSteps, Working, ClassifySingle
<1>3. \A pubs, observed : (/\ ModeInv(pass[d].mode, rec) /\ Retired(observed, recs)
                           /\ pubs # {}) =>
         PlaceInv(d, c, rec, recs, Publishing(d, pubs, observed))
  BY DEF PlaceInv, KnownSteps, Working, Publishing
<1> QED
  BY <1>1, <1>2, <1>3

\* The values of a device's variables after the pieces of an action.
LEMMA OwnValues ==
    ASSUME FleetInv, NEW d \in Device
    PROVE  /\ \A c : SetLive(d, c) => live'[d] = c
           /\ \A where : GoTo(d, where) => pass'[d] = where
           /\ \A rec : PersistOk(d, rec) => record'[d] = rec /\ disk'[d] = {rec}
           /\ \A rec : PersistErr(d, rec) =>
                 record'[d] = record[d] /\ disk'[d] = disk[d] \cup {rec}
BY FleetShape DEF SetLive, GoTo, PersistOk, PersistErr

\* Nothing is persisted: only the place matters.
LEMMA SingleQuiet ==
    ASSUME FleetInv, NEW d \in Single, live' = live, record' = record, disk' = disk,
           NEW where, GoTo(d, where), PlaceInv(d, live[d], record[d], disk[d], where)
    PROVE  SingleInv(d)'
<1>1. SingleInv(d) /\ pass'[d] = where
  BY SingleFacts, OwnValues
<1> QED
  BY <1>1 DEF SingleInv, SingleAt

\* A record is persisted, or not.
LEMMA SinglePersists ==
    ASSUME FleetInv, NEW d \in Single, NEW next, OfOneDomain(d, next),
           PersistOk(d, next) \/ PersistErr(d, next),
           DOMAIN live'[d] = {DomainOf[d]},
           PlaceInv(d, live'[d], record'[d], disk'[d], pass'[d])
    PROVE  SingleInv(d)'
<1>1. SingleInv(d) /\ d \in Device
  BY SingleFacts
<1>2. \A r \in disk'[d] : OfOneDomain(d, r)
  BY <1>1, OwnValues DEF SingleInv, SingleAt
<1> QED
  BY <1>2 DEF SingleInv, SingleAt

\* An outbox with a count of at most one has at most one.
LEMMA CountedOnce ==
    ASSUME NEW S, IsFiniteSet(S), Cardinality(S) <= 1
    PROVE  AtMostOne(S)
<1>1. ASSUME NEW p \in S, NEW q \in S, p # q PROVE FALSE
  <2>1. IsFiniteSet({p}) /\ Cardinality({p}) = 1
    BY FS_Singleton
  <2>2. Cardinality({p} \cup {q}) = 2 /\ {p} \cup {q} \subseteq S
    BY <1>1, <2>1, FS_AddElement
  <2>3. Cardinality({p} \cup {q}) <= Cardinality(S)
    BY <2>2, FS_Subset
  <2>4. Cardinality(S) \in Nat
    BY FS_CardinalityType
  <2> QED
    BY <2>2, <2>3, <2>4
<1> QED
  BY <1>1 DEF AtMostOne

\* The application's edits and rebases, and staging, between cycles.
LEMMA BetweenCyclesKept ==
    ASSUME FleetInv, NEW d \in Single,
           Application(d) \/ \E pub, ids : StageScalar(d, pub, ids)
    PROVE  SingleInv(d)'
<1>1. d \in Device /\ SingleInv(d) /\ DOMAIN live[d] = {DomainOf[d]}
  BY SingleFacts
<1>2. ASSUME InPass(d, "idle"), pass' = pass
      PROVE  \A c, rec, recs : PlaceInv(d, c, rec, recs, pass'[d])
  <2>1. pass'[d] = Idle
    BY <1>1, <1>2 DEF SingleInv, SingleAt, PlaceInv, InPass
  <2> QED
    BY <2>1, Places
<1>3. ASSUME NEW k, NEW domain, Edit(d, k, domain) PROVE SingleInv(d)'
  <2>1. InPass(d, "idle") /\ pass' = pass /\ record' = record /\ disk' = disk
        /\ SetLive(d, [live[d] EXCEPT ![k] = domain])
    BY <1>3 DEF Edit
  <2>2. DOMAIN live'[d] = {DomainOf[d]}
    BY <1>1, <2>1, OwnValues
  <2> QED
    BY <1>1, <1>2, <2>1, <2>2 DEF SingleInv, SingleAt
<1>4. ASSUME NEW stale, NEW pub, Rebase(d, stale, pub) PROVE SingleInv(d)'
  <2>1. /\ InPass(d, "idle") /\ pass' = pass /\ live' = live
        /\ \/ PersistOk(d, RebasedRecord(d, stale, pub))
           \/ PersistErr(d, RebasedRecord(d, stale, pub))
    BY <1>4 DEF Rebase
  <2> QED
    BY <1>1, <1>2, <2>1, SingleRecords, SinglePersists
<1>5. ASSUME NEW pub, NEW ids, StageScalar(d, pub, ids) PROVE SingleInv(d)'
  <2> DEFINE c == Container(d, Handoff(LocalDomain(d), ids))
             next == StagedScalarRecord(d, pub, ids)
  <2>1. /\ InPass(d, "idle") /\ pass' = pass
        /\ PersistOk(d, next) \/ PersistErr(d, next)
        /\ SetLive(d, c) \/ live' = live
    BY <1>5 DEF StageScalar
  <2>2. DOMAIN c = {DomainOf[d]}
    BY DEF Container
  <2>3. OfOneDomain(d, next)
    BY SingleRecords
  <2> HIDE DEF c, next
  <2>4. DOMAIN live'[d] = {DomainOf[d]}
    BY <1>1, <2>1, <2>2, OwnValues
  <2> QED
    BY <1>2, <2>1, <2>3, <2>4, SinglePersists
<1> QED
  BY <1>3, <1>4, <1>5 DEF Application, EditBegin, EditSeal, EditFinalize, Rebases

\* The steps of a cycle that persist nothing.
LEMMA QuietKept ==
    ASSUME FleetInv, NEW d \in Single,
           \/ RefuseMultiple(d) \/ SingleUpToDate(d) \/ SingleBaseline(d) \/ SingleRefused(d)
           \/ SingleAccepted(d) \/ SingleConflict(d) \/ SingleUnanswered(d)
           \/ Acknowledge(d) \/ TransportError(d) \/ Backgrounded(d)
    PROVE  SingleInv(d)'
<1> DEFINE P(where) == PlaceInv(d, live[d], record[d], disk[d], where)
<1>1. SingleInv(d)
  BY SingleFacts
<1>2. pass[d].step \in Working =>
         ModeInv(pass[d].mode, record[d]) /\ Retired(pass[d].observed, disk[d])
  BY <1>1 DEF SingleInv, SingleAt, PlaceInv, Working
<1>3. live' = live /\ record' = record /\ disk' = disk
  BY DEF RefuseMultiple, SingleUpToDate, SingleBaseline, SingleRefused, SingleAccepted,
         SingleConflict, SingleUnanswered, Acknowledge, TransportError, Backgrounded
<1>4. P(Idle)
  BY Places
<1>5. ASSUME NEW action \in {"Unsupported", "BlockedByBaseline", "Conflict"}, NEW pubs,
             NEW observed, Retired(observed, disk[d])
      PROVE  P(Report(action, pubs, observed))
  BY <1>5, Places DEF Reconciled
<1>6. SingleUpToDate(d) => P(ClassifySingle(d, {}))
  BY <1>2, WorkingPlaces DEF SingleUpToDate, InPass, Working
<1>7. SingleAccepted(d) =>
         P([step |-> "reconcile", batch |-> pass[d].batch, head |-> LogHead + 1,
            observed |-> pass[d].observed])
  BY <1>2, Places DEF SingleAccepted, InPass, Working
<1>8. SingleConflict(d) =>
         P([step |-> "fetch", attempt |-> 2, seal |-> pass[d].seal, mode |-> pass[d].mode,
            observed |-> pass[d].observed])
  BY <1>2, WorkingPlaces DEF SingleConflict, InPass, Working
<1> HIDE DEF P
<1>9. \E where : GoTo(d, where) /\ P(where)
  <2>1. CASE SingleConflict(d)
    <3>1. CASE pass[d].attempt = 1
      BY <1>8, <2>1, <3>1 DEF SingleConflict
    <3>2. CASE pass[d].attempt # 1
      BY <1>2, <1>5, <2>1, <3>2 DEF SingleConflict, InPass, Working
    <3> QED
      BY <3>1, <3>2
  <2>2. CASE SingleAccepted(d)
    BY <1>7, <2>2 DEF SingleAccepted
  <2>3. CASE RefuseMultiple(d)
    BY <1>5, <2>3, Places DEF RefuseMultiple
  <2>4. CASE SingleBaseline(d)
    BY <1>2, <1>5, <2>4 DEF SingleBaseline, InPass, Working
  <2>5. CASE SingleUpToDate(d)
    BY <1>6, <2>5 DEF SingleUpToDate
  <2>6. CASE SingleRefused(d) \/ SingleUnanswered(d) \/ Acknowledge(d) \/ TransportError(d)
             \/ Backgrounded(d)
    BY <1>4, <2>6 DEF SingleRefused, SingleUnanswered, Acknowledge, TransportError, Backgrounded
  <2> QED
    BY <2>1, <2>2, <2>3, <2>4, <2>5, <2>6
<1> QED
  BY <1>3, <1>9, SingleQuiet DEF P

\* A cycle starts.
LEMMA StartSingleKept ==
    ASSUME FleetInv, NEW d \in Single, NEW mode \in {"one", "set"}, NEW seal,
           StartSingle(d, mode, seal)
    PROVE  SingleInv(d)'
<1> DEFINE where == [step |-> "fetch", attempt |-> 1, seal |-> seal, mode |-> mode,
                     observed |-> {}]
<1>1. IsFiniteSet(DOMAIN record[d].outbox)
  BY SingleFacts
<1>2. ModeInv(mode, record[d])
  BY <1>1, CountedOnce DEF ModeInv, StartSingle
<1>3. PlaceInv(d, live[d], record[d], disk[d], where)
  BY <1>2, Places, WorkingPlaces
<1>4. GoTo(d, where) /\ live' = live /\ record' = record /\ disk' = disk
  BY DEF StartSingle
<1> HIDE DEF where
<1> QED
  BY <1>3, <1>4, SingleQuiet

\* Catching up: the evidence is held afterwards, and the outbox is as it was.
LEMMA ReceiveKept ==
    ASSUME FleetInv, NEW d \in Single, SingleEmpty(d) \/ SingleReceive(d)
    PROVE  SingleInv(d)'
<1>1. /\ d \in Device /\ SingleInv(d) /\ DOMAIN live[d] = {DomainOf[d]}
      /\ InPass(d, "fetch")
  BY SingleFacts DEF SingleEmpty, SingleReceive
<1>2. /\ ModeInv(pass[d].mode, record[d]) /\ Retired(pass[d].observed, disk[d])
      /\ record[d] \in disk[d]
  BY <1>1, InstanceFacts DEF SingleInv, SingleAt, PlaceInv, InPass, Working
<1>3. ASSUME NEW c, DOMAIN c = {DomainOf[d]}, NEW evidence,
             evidence \subseteq DOMAIN c[DomainOf[d]].causal,
             \/ /\ PersistOk(d, ReceivedRecord(d, c)) /\ live'[d] = c
                /\ GoTo(d, ClassifySingle(d, evidence))
             \/ PersistErr(d, ReceivedRecord(d, c)) /\ live'[d] = live[d] /\ GoTo(d, Idle)
      PROVE  SingleInv(d)'
  <2> DEFINE next == ReceivedRecord(d, c)
  <2>1. OfOneDomain(d, next) /\ next.outbox = record[d].outbox
    BY <1>3, SingleRecords
  <2>2. ModeInv(pass[d].mode, next) /\ Retired(pass[d].observed, {next})
    BY <1>2, <2>1 DEF ModeInv, Retired
  <2> HIDE DEF next
  <2>3. CASE /\ PersistOk(d, next) /\ live'[d] = c /\ GoTo(d, ClassifySingle(d, evidence))
    <3>1. record'[d] = next /\ disk'[d] = {next} /\ pass'[d] = ClassifySingle(d, evidence)
      BY <1>1, <2>3, OwnValues
    <3>2. PlaceInv(d, c, next, disk'[d], ClassifySingle(d, evidence))
      BY <1>3, <2>2, <3>1, WorkingPlaces
    <3> QED
      BY <1>3, <2>1, <2>3, <3>1, <3>2, SinglePersists
  <2>4. CASE PersistErr(d, next) /\ live'[d] = live[d] /\ GoTo(d, Idle)
    <3>1. pass'[d] = Idle
      BY <1>1, <2>4, OwnValues
    <3> QED
      BY <1>1, <2>1, <2>4, <3>1, Places, SinglePersists
  <2> QED
    BY <1>3, <2>3, <2>4 DEF next
<1>4. CASE SingleEmpty(d)
  BY <1>1, <1>3, <1>4 DEF SingleEmpty
<1>5. CASE SingleReceive(d)
  <2> DEFINE n == ObserveRemote(LocalDomain(d), RemoteRegister(d), SealOf(d))
             c == Container(d, n)
             evidence == DOMAIN RemoteRegister(d)
  <2>1. DOMAIN c = {DomainOf[d]} /\ c[DomainOf[d]] = n
    BY DEF Container
  <2>2. evidence \subseteq DOMAIN n.causal
    BY <1>1, <1>5, EvidenceHeld DEF SingleReceive
  <2>3. \/ /\ PersistOk(d, ReceivedRecord(d, c)) /\ SetLive(d, c)
           /\ GoTo(d, ClassifySingle(d, evidence))
        \/ PersistErr(d, ReceivedRecord(d, c)) /\ live' = live /\ GoTo(d, Idle)
    BY <1>5 DEF SingleReceive
  <2> HIDE DEF n, c, evidence
  <2> QED
    BY <1>1, <1>3, <2>1, <2>2, <2>3, OwnValues
<1> QED
  BY <1>4, <1>5

\* Classification and retirement: a report of a retirement follows an Ok.
LEMMA RetireKept ==
    ASSUME FleetInv, NEW d \in Single,
           OneDecided(d) \/ OneObserved(d) \/ SetDecided(d) \/ SetObserved(d) \/ SingleReconciled(d)
    PROVE  SingleInv(d)'
<1>1. d \in Device /\ SingleInv(d) /\ DOMAIN live[d] = {DomainOf[d]}
  BY SingleFacts
<1>2. /\ pass[d].step \in Working => ModeInv(pass[d].mode, record[d])
      /\ pass[d].step # "idle" => Retired(pass[d].observed, disk[d])
      /\ record[d] \in disk[d]
  BY <1>1, InstanceFacts DEF SingleInv, SingleAt, PlaceInv
<1>3. ASSUME NEW pubs, NEW head, NEW where, live' = live,
             LET next == ReconciledRecord(d, pubs, head)
             IN  \/ /\ PersistOk(d, next) /\ GoTo(d, where)
                    /\ PlaceInv(d, live[d], next, {next}, where)
                 \/ PersistErr(d, next) /\ GoTo(d, Idle)
      PROVE  SingleInv(d)'
  <2> DEFINE next == ReconciledRecord(d, pubs, head)
  <2>1. OfOneDomain(d, next)
    BY SingleRecords
  <2> HIDE DEF next
  <2>2. CASE /\ PersistOk(d, next) /\ GoTo(d, where)
             /\ PlaceInv(d, live[d], next, {next}, where)
    <3>1. record'[d] = next /\ disk'[d] = {next} /\ pass'[d] = where
      BY <1>1, <2>2, OwnValues
    <3> QED
      BY <1>1, <1>3, <2>1, <2>2, <3>1, SinglePersists
  <2>3. CASE PersistErr(d, next) /\ GoTo(d, Idle)
    <3>1. pass'[d] = Idle
      BY <1>1, <2>3, OwnValues
    <3> QED
      BY <1>1, <1>3, <2>1, <2>3, <3>1, Places, SinglePersists
  <2> QED
    BY <1>3, <2>2, <2>3 DEF next
<1>4. ASSUME NEW pubs, NEW head, NEW observed, Retired(observed, disk[d])
      PROVE  Retired(observed \cup pubs, {ReconciledRecord(d, pubs, head)})
  <2> DEFINE next == ReconciledRecord(d, pubs, head)
  <2>1. DOMAIN next.outbox = DOMAIN record[d].outbox \ pubs
    BY SingleRecords
  <2> HIDE DEF next
  <2>2. Retired(observed \cup pubs, {next})
    BY <1>2, <1>4, <2>1 DEF Retired
  <2> QED
    BY <2>2 DEF next
<1>5. ASSUME NEW rec, NEW recs, NEW unresolved, NEW observed, ModeInv(pass[d].mode, rec),
             Retired(observed, recs)
      PROVE  PlaceInv(d, live[d], rec, recs, AfterStaleSet(d, unresolved, observed))
  <2>1. CASE unresolved # {}
    BY <1>5, <2>1, Places DEF AfterStaleSet, Reconciled
  <2>2. CASE unresolved = {} /\ Current(d) = {}
    BY <1>5, <2>2, Places DEF AfterStaleSet, Reconciled
  <2>3. CASE unresolved = {} /\ Current(d) # {}
    BY <1>5, <2>3, WorkingPlaces DEF AfterStaleSet
  <2> QED
    BY <2>1, <2>2, <2>3
<1>6. CASE OneDecided(d)
  <2>1. ModeInv(pass[d].mode, record[d])
    BY <1>2, <1>6 DEF OneDecided, InMode, InPass, Working
  <2>2. PICK where : GoTo(d, where) /\
           where = CASE DOMAIN record[d].outbox = {} -> Report("None", {}, {})
                     [] Current(d) # {} -> Publishing(d, Current(d), {})
                     [] OTHER -> Report("NeedsRebase", Stale(d), {})
    BY <1>6 DEF OneDecided
  <2>3. PlaceInv(d, live[d], record[d], disk[d], where)
    <3>1. CASE DOMAIN record[d].outbox = {}
      <4>1. Current(d) = {}
        BY <3>1 DEF Current, Stale
      <4> QED
        BY <2>2, <3>1, <4>1, Places DEF Reconciled
    <3>2. CASE DOMAIN record[d].outbox # {} /\ Current(d) # {}
      BY <2>1, <2>2, <3>2, Places, WorkingPlaces
    <3>3. CASE DOMAIN record[d].outbox # {} /\ Current(d) = {}
      <4>1. where = Report("NeedsRebase", Stale(d), {})
        BY <2>2, <3>3
      <4> QED
        BY <4>1, Places DEF Reconciled
    <3> QED
      BY <3>1, <3>2, <3>3
  <2> QED
    BY <1>6, <2>2, <2>3, SingleQuiet DEF OneDecided
<1>7. CASE SetDecided(d)
  <2>1. ModeInv(pass[d].mode, record[d]) /\ Retired(pass[d].observed, disk[d])
    BY <1>2, <1>7 DEF SetDecided, InMode, InPass, Working
  <2> QED
    BY <1>5, <1>7, <2>1, SingleQuiet DEF SetDecided
<1>8. CASE OneObserved(d)
  <2>1. PICK pub \in Stale(d) :
           \/ /\ PersistOk(d, ReconciledOne(d, pub, record[d].applied_cursor))
              /\ GoTo(d, Report("ObservedAndReconciled", {pub}, {pub}))
           \/ /\ PersistErr(d, ReconciledOne(d, pub, record[d].applied_cursor))
              /\ GoTo(d, Idle)
    BY <1>8 DEF OneObserved
  <2>2. ReconciledOne(d, pub, record[d].applied_cursor)
            = ReconciledRecord(d, {pub}, record[d].applied_cursor)
    BY DEF ReconciledOne, ReconciledRecord
  <2>3. live' = live
    BY <1>8 DEF OneObserved
  <2> DEFINE next == ReconciledRecord(d, {pub}, record[d].applied_cursor)
             where == Report("ObservedAndReconciled", {pub}, {pub})
  <2>4. Retired({pub}, {next})
    <3>1. DOMAIN next.outbox = DOMAIN record[d].outbox \ {pub}
      BY SingleRecords
    <3> HIDE DEF next
    <3> QED
      BY <3>1 DEF Retired
  <2>5. PlaceInv(d, live[d], next, {next}, where)
    BY <2>4, Places
  <2>6. \/ PersistOk(d, next) /\ GoTo(d, where)
        \/ PersistErr(d, next) /\ GoTo(d, Idle)
    BY <2>1, <2>2
  <2> HIDE DEF where
  <2> QED
    BY <1>3, <2>3, <2>5, <2>6
<1>9. CASE SetObserved(d)
  <2> DEFINE next == ReconciledRecord(d, ObservedSet(d), record[d].applied_cursor)
             both == pass[d].observed \cup ObservedSet(d)
             where == AfterStaleSet(d, Stale(d) \ ObservedSet(d), both)
  <2>1. ModeInv(pass[d].mode, next) /\ Retired(both, {next})
    <3>1. pass[d].step = "classify" /\ pass[d].mode = "set"
      BY <1>9 DEF SetObserved, InMode, InPass
    <3>2. Retired(both, {next})
      BY <1>2, <1>4, <3>1
    <3> QED
      BY <3>1, <3>2 DEF ModeInv
  <2>2. PlaceInv(d, live[d], next, {next}, where)
    BY <1>5, <2>1
  <2>3. /\ live' = live
        /\ \/ PersistOk(d, next) /\ GoTo(d, where)
           \/ PersistErr(d, next) /\ GoTo(d, Idle)
    BY <1>9 DEF SetObserved
  <2> HIDE DEF where
  <2> QED
    BY <1>3, <2>2, <2>3
<1>10. CASE SingleReconciled(d)
  <2> DEFINE next == ReconciledRecord(d, pass[d].batch, pass[d].head)
             where == Report("PublishedAndReconciled", pass[d].batch, pass[d].observed)
  <2>1. PlaceInv(d, live[d], next, {next}, where)
    <3>1. Retired(pass[d].observed \cup pass[d].batch, {next})
      BY <1>2, <1>4, <1>10 DEF SingleReconciled, InPass
    <3>2. Retired(pass[d].observed, {next}) /\ Retired(pass[d].batch, {next})
      BY <3>1 DEF Retired
    <3>3. ASSUME NEW rec, NEW recs, NEW pubs, NEW observed,
                 Retired(pubs, recs), Retired(observed, recs)
          PROVE  PlaceInv(d, live[d], rec, recs, Report("PublishedAndReconciled", pubs, observed))
      <4>1. "PublishedAndReconciled" # "None"
        OBVIOUS
      <4> QED
        BY <3>3, <4>1, Places
    <3> HIDE DEF next
    <3> QED
      BY <3>2, <3>3
  <2>2. /\ live' = live
        /\ \/ PersistOk(d, next) /\ GoTo(d, where)
           \/ PersistErr(d, next) /\ GoTo(d, Idle)
    BY <1>10 DEF SingleReconciled
  <2> HIDE DEF where
  <2> QED
    BY <1>3, <2>1, <2>2
<1> QED
  BY <1>6, <1>7, <1>8, <1>9, <1>10

\* recover_scalar_domain starts from one of the records.
LEMMA RecoverScalarKept ==
    ASSUME FleetInv, NEW d \in Single, RecoverScalar(d)
    PROVE  SingleInv(d)'
<1>1. PICK rec \in disk[d] :
         /\ record' = [record EXCEPT ![d] = rec]
         /\ disk' = [disk EXCEPT ![d] = {rec}]
         /\ SetLive(d, rec.trusted_state)
  BY DEF RecoverScalar
<1>2. d \in Device /\ OfOneDomain(d, rec)
  BY SingleFacts DEF SingleInv, SingleAt
<1>3. live'[d] = rec.trusted_state /\ disk'[d] = {rec} /\ pass'[d] = Idle
  BY <1>1, <1>2, FleetShape, OwnValues DEF RecoverScalar
<1> QED
  BY <1>2, <1>3, Places DEF SingleInv, SingleAt, OfOneDomain

\* Every call of the single-domain runtime keeps what the device relies on.
LEMMA SingleInvKept ==
    ASSUME FleetInv, NEW d \in Single, SingleDomain(d) \/ Application(d)
    PROVE  SingleInv(d)'
BY BetweenCyclesKept, QuietKept, StartSingleKept, ReceiveKept, RetireKept, RecoverScalarKept
   DEF SingleDomain

-----------------------------------------------------------------------------
(* The theorems *)

\* The fleet starts where the multi-domain runtime starts.
LEMMA FleetInit ==
    ASSUME Init
    PROVE  FleetInv /\ M!Init
<1>1. MultiPass = [d \in Device |-> Idle]
  <2>1. \A d \in Device : Image(d, pass[d], live[d]) = Idle
    BY DEF Init, Image, Idle
  <2> QED
    BY <2>1, MultiPassAt
<1>2. M!Init
  BY <1>1, PlainViews, ProvedRegisters, ProvedDomains, ProvedRecords DEF Init, M!Init
<1>3. M!RuntimeInv
  BY <1>2, M!InitEstablishes, InstanceAssumptions, RuntimeAssumption, RevisionIdAssumption
<1>4. ASSUME NEW d \in Single PROVE SingleInv(d)
  <2>1. d \in Device /\ KeysOf[d] = {DomainOf[d]}
    BY SingleAssumption
  <2>2. DOMAIN live[d] = {DomainOf[d]} /\ pass[d] = Idle /\ disk[d] = {NewRecord(live[d], 0)}
    BY <2>1 DEF Init
  <2>3. OfOneDomain(d, NewRecord(live[d], 0))
    BY <2>2, FS_EmptySet DEF OfOneDomain, NewRecord
  <2> QED
    BY <2>2, <2>3, Places DEF SingleInv, SingleAt
<1> QED
  BY <1>2, <1>3, <1>4 DEF FleetInv, Init

\* Every step of the fleet keeps the invariant.
LEMMA FleetNextKeeps ==
    ASSUME FleetInv, [FleetNext]_vars
    PROVE  FleetInv'
<1>1. ASSUME NEW d, StepOf(d), d \in Single => SingleInv(d)'
      PROVE  DOMAIN pass' = Device /\ \A e \in Single : SingleInv(e)'
  BY <1>1, OthersKept
<1>2. ASSUME live' = live, record' = record, disk' = disk, pass' = pass
      PROVE  DOMAIN pass' = Device /\ \A e \in Single : SingleInv(e)'
  BY <1>2, FleetShape, SingleFacts DEF SingleInv
<1>3. DOMAIN pass' = Device /\ \A e \in Single : SingleInv(e)'
  <2>1. CASE UNCHANGED vars
    BY <1>2, <2>1 DEF vars
  <2>2. CASE Network
    BY <1>2, <2>2 DEF Network, ForeignCommit, LateArrival
  <2>3. ASSUME NEW d \in Device, Application(d)
        PROVE  DOMAIN pass' = Device /\ \A e \in Single : SingleInv(e)'
    BY <1>1, <2>3, PlainStepOf, SingleInvKept
  <2>4. ASSUME NEW d \in Single, SingleDomain(d)
        PROVE  DOMAIN pass' = Device /\ \A e \in Single : SingleInv(e)'
    BY <1>1, <2>4, SingleStepOf, SingleInvKept
  <2>5. ASSUME NEW d \in Single, EnterForeground(d) \/ EnterBackground(d)
        PROVE  DOMAIN pass' = Device /\ \A e \in Single : SingleInv(e)'
    BY <1>2, <2>5 DEF EnterForeground, EnterBackground
  <2>6. ASSUME NEW d \in Device \ Single, MultiDomain(d) \/ Platform(d)
        PROVE  DOMAIN pass' = Device /\ \A e \in Single : SingleInv(e)'
    BY <1>1, <2>6, PlainStepOf
  <2> QED
    BY <2>1, <2>2, <2>3, <2>4, <2>5, <2>6 DEF FleetNext
<1> QED
  BY <1>3, RuntimeInvKept DEF FleetInv

\* In every state of a fleet the multi-domain invariant holds of all devices and
\* what the single-domain runtime relies on holds of the single-domain ones.
THEOREM FleetInvariant == FleetSpec => []FleetInv
<1>1. Init => FleetInv
  BY FleetInit
<1>2. FleetInv /\ [FleetNext]_vars => FleetInv'
  BY FleetNextKeeps
<1> QED
  BY <1>1, <1>2, PTL DEF FleetSpec

\* The two instances of the multi-domain runtime have the same steps.
LEMMA SameNext ==
    /\ M!Next => Multi!Next
    /\ M!Init => Multi!Init
    /\ M!vars = Multi!vars
<1>1. \A d : M!Rebases(d) => Multi!Rebases(d)
  BY SameActions, SameViews DEF M!Rebases, Multi!Rebases
<1>2. \A d : M!Application(d) => Multi!Application(d)
  BY <1>1, SameActions DEF M!Application, Multi!Application
<1>3. \A d : M!InCycle(d) => Multi!InCycle(d)
  BY SameActions DEF M!InCycle, Multi!InCycle
<1>4. \A d : M!MultiDomain(d) => Multi!MultiDomain(d)
  BY <1>3, SameActions, SameViews DEF M!MultiDomain, Multi!MultiDomain
<1>5. \A d : M!Platform(d) => Multi!Platform(d)
  BY SameActions DEF M!Platform, Multi!Platform
<1>6. M!Network => Multi!Network
  BY SameActions DEF M!Network, Multi!Network
<1>7. M!Next => Multi!Next
  BY <1>2, <1>4, <1>5, <1>6 DEF M!Next, Multi!Next
<1>8. M!Init => Multi!Init
  BY SameRegisters, SameDomains, SameRecords, ProvedRegisters, ProvedDomains, ProvedRecords
     DEF M!Init, Multi!Init, M!Idle, Multi!Idle
<1>9. M!vars = Multi!vars
  BY DEF M!vars, Multi!vars
<1> QED
  BY <1>7, <1>8, <1>9

\* As long as nobody publishes another domain, a fleet with single-domain
\* devices, in either mode of resume, is a fleet of multi-domain devices: every
\* step of catchup.rs, receive.rs, publication.rs, resume.rs and resume_batch.rs
\* is one that resume_recovery_batch.rs and its parts could take, a restart, or
\* the reading of a report.
THEOREM SingleImplementsMulti == FleetSpec => ImplementsMultiDomain
<1>1. Init => Multi!Init
  BY FleetInit, SameNext
<1>2. FleetInv /\ [FleetNext]_vars => [OneDomainOnly => Multi!Next]_(Multi!vars)
  <2>1. SUFFICES ASSUME FleetInv, [FleetNext]_vars, OneDomainOnly
                 PROVE  Multi!Next \/ UNCHANGED Multi!vars
    OBVIOUS
  <2>2. [M!Next]_(M!vars)
    BY <2>1, FleetSimulated
  <2>3. CASE M!Next
    BY <2>3, SameNext
  <2>4. CASE UNCHANGED M!vars
    BY <2>4 DEF M!vars, Multi!vars
  <2> QED
    BY <2>2, <2>3, <2>4
<1> QED
  BY <1>1, <1>2, FleetInvariant, PTL DEF FleetSpec, ImplementsMultiDomain

\* The instance's properties are the model's: none of them reads the pass.
LEMMA PlainProperties ==
    /\ M!CursorNeverOutrunsState => CursorNeverOutrunsState
    /\ M!NoLostPublication => NoLostPublication
    /\ M!ExposureBeforeWire => ExposureBeforeWire
    /\ M!PublishedAtMostOnce => PublishedAtMostOnce
<1>1. M!CursorNeverOutrunsState => CursorNeverOutrunsState
  BY Zenon DEF M!CursorNeverOutrunsState, CursorNeverOutrunsState, M!RecordsOf, RecordsOf,
     M!Publications, Publications, M!Holds, Holds
<1>2. M!NoLostPublication => NoLostPublication
  BY Zenon DEF M!NoLostPublication, NoLostPublication, M!RecordsOf, RecordsOf,
     M!Publications, Publications, M!LogHead, LogHead, M!Range, Range
<1>3. M!ExposureBeforeWire => ExposureBeforeWire
  BY Zenon DEF M!ExposureBeforeWire, ExposureBeforeWire, M!Publications, Publications,
     M!LogHead, LogHead
<1>4. M!PublishedAtMostOnce => PublishedAtMostOnce
  BY Zenon DEF M!PublishedAtMostOnce, PublishedAtMostOnce, M!LogHead, LogHead
<1> QED
  BY <1>1, <1>2, <1>3, <1>4

\* In a fleet too the durable cursor never outruns the durable state, also of a
\* single-domain device that shares its transport with devices of other domains:
\* commit_received_scalar_domain refuses a range it cannot hold, and its cursor
\* stays.
THEOREM FleetCursorNeverOutruns == FleetSpec => []CursorNeverOutrunsState
<1>1. ASSUME FleetInv PROVE CursorNeverOutrunsState
  <2>1. M!RuntimeInv
    BY <1>1 DEF FleetInv
  <2>2. M!CursorNeverOutrunsState
    BY <2>1, M!CursorFromInvariant, InstanceAssumptions, RuntimeAssumption, RevisionIdAssumption
  <2> QED
    BY <2>2, PlainProperties
<1> QED
  BY <1>1, FleetInvariant, PTL

\* A report of the single-domain runtime is true of every record a restart may
\* find: what it calls reconciled, or observed and retired in either pass of the
\* cycle, is out of the outbox, and after a reconciliation whatever the record
\* counts as handed off waits in its outbox or is in the transport at or below
\* its own cursor.
THEOREM ReportsStayDurable == FleetSpec => []ReportsAreDurable
<1>1. ASSUME FleetInv PROVE ReportsAreDurable
  <2>1. ASSUME NEW d \in Single, NEW rec \in RecordsOf(d),
               NEW id \in rec.trusted_state[DomainOf[d]].handed_off
        PROVE  \E objects \in { e.objects : e \in Range(rec.outbox) } \cup
                              { p.objects : p \in Publications(1 .. rec.applied_cursor) } :
                   DomainOf[d] \in DOMAIN objects /\ id \in DOMAIN objects[DomainOf[d]]
    <3>1. d \in Device /\ rec \in disk[d] /\ SingleInv(d)
      BY <1>1, <2>1, SingleFacts, InstanceFacts DEF RecordsOf
    <3>2. M!RecordInv(d, rec, log)
      BY <1>1, <3>1, InstanceFacts DEF M!DeviceInv
    <3>3. DomainOf[d] \in DOMAIN rec.trusted_state
      BY <3>1 DEF SingleInv, SingleAt, OfOneDomain
    <3>4. \/ \E p \in DOMAIN rec.outbox : M!Carries(rec.outbox[p].objects, DomainOf[d], id)
          \/ \E p \in M!Prefix(log, rec.applied_cursor) : M!Carries(p.objects, DomainOf[d], id)
      BY <2>1, <3>2, <3>3 DEF M!RecordInv, M!DurableInv, M!HandedInv
    <3>5. ASSUME NEW p \in DOMAIN rec.outbox
          PROVE  rec.outbox[p].objects \in { e.objects : e \in Range(rec.outbox) }
      BY <3>5 DEF Range
    <3>6. M!Prefix(log, rec.applied_cursor) = Publications(1 .. rec.applied_cursor)
      BY DEF M!Prefix, Publications
    <3>7. CASE \E p \in DOMAIN rec.outbox : M!Carries(rec.outbox[p].objects, DomainOf[d], id)
      BY <3>5, <3>7 DEF M!Carries
    <3>8. CASE \E p \in M!Prefix(log, rec.applied_cursor) : M!Carries(p.objects, DomainOf[d], id)
      BY <3>6, <3>8 DEF M!Carries
    <3> QED
      BY <3>4, <3>7, <3>8
  <2>2. ASSUME NEW d \in Single, InPass(d, "done")
        PROVE  /\ \A rec \in RecordsOf(d) : pass[d].observed \cap DOMAIN rec.outbox = {}
               /\ pass[d].action \in Reconciled =>
                     \A rec \in RecordsOf(d) : pass[d].publications \cap DOMAIN rec.outbox = {}
               /\ pass[d].action = "None" => pass[d].publications = {}
    <3>1. d \in Device /\ SingleInv(d) /\ RecordsOf(d) = disk[d]
      BY <1>1, <2>2, SingleFacts, InstanceFacts DEF RecordsOf
    <3> QED
      BY <2>2, <3>1 DEF SingleInv, SingleAt, PlaceInv, InPass, Retired
  <2>3. \A d : record[d] \in RecordsOf(d)
    BY DEF RecordsOf
  <2> QED
    BY <2>1, <2>2, <2>3 DEF ReportsAreDurable, Reconciled
<1> QED
  BY <1>1, FleetInvariant, PTL

\* Nor does a fleet forget a revision that was handed off.
THEOREM FleetLosesNothing == FleetSpec => []NoLostPublication
<1>1. ASSUME FleetInv PROVE NoLostPublication
  <2>1. M!RuntimeInv
    BY <1>1 DEF FleetInv
  <2>2. M!NoLostPublication
    BY <2>1, M!HandoffFromInvariant, InstanceAssumptions, RuntimeAssumption, RevisionIdAssumption
  <2> QED
    BY <2>2, PlainProperties
<1> QED
  BY <1>1, FleetInvariant, PTL

\* Nor does anything leave a device, of either kind, before its exposure is
\* durable (stage_prepared_scalar_handoff, stage_prepared_recovery_handoff).
THEOREM FleetExposesFirst == FleetSpec => []ExposureBeforeWire
<1>1. ASSUME FleetInv PROVE ExposureBeforeWire
  <2>1. M!RuntimeInv
    BY <1>1 DEF FleetInv
  <2>2. M!ExposureBeforeWire
    BY <2>1, M!ExposureFromInvariant, InstanceAssumptions, RuntimeAssumption, RevisionIdAssumption
  <2> QED
    BY <2>2, PlainProperties
<1> QED
  BY <1>1, FleetInvariant, PTL

\* Nor does a publication enter the transport twice.
THEOREM FleetPublishesOnce == FleetSpec => []PublishedAtMostOnce
<1>1. ASSUME FleetInv PROVE PublishedAtMostOnce
  <2>1. M!RuntimeInv
    BY <1>1 DEF FleetInv
  <2>2. M!PublishedAtMostOnce
    BY <2>1, M!OnceFromInvariant, InstanceAssumptions, RuntimeAssumption, RevisionIdAssumption
  <2> QED
    BY <2>2, PlainProperties
<1> QED
  BY <1>1, FleetInvariant, PTL

=============================================================================
