------------------------ MODULE CoreReplicasProofs ------------------------
(***************************************************************************)
(* Theorems about CoreReplicas for any set of replicas, identities (shared *)
(* between replicas or not) and values.                                    *)
(*                                                                         *)
(* The invariant has four parts.  WellFormedInv says that every live       *)
(* domain and every saved snapshot is one that restore accepts; each       *)
(* method preserves that (OperatorProofs).  LedgerInv and                  *)
(* HistoryInv relate each snapshot to the live domain, which extends it,   *)
(* so that the next Save cannot forget anything.  OriginInv says who made  *)
(* what, and is the only part that needs separate identities.              *)
(***************************************************************************)
EXTENDS CoreReplicas, OperatorProofs

WellFormedInv ==
    /\ domain \in [Replica -> Domains]
    /\ saved \in [Replica -> Domains]
    /\ wire \subseteq Registers
    /\ \A r \in Replica : WellFormed(domain[r]) /\ WellFormed(saved[r])

\* The ledger n keeps every exposure and every frozen statement of d.
LedgerExtends(d, n) ==
    /\ d.exposed \subseteq n.exposed
    /\ \A id \in DOMAIN d.finalized :
          id \in DOMAIN n.finalized /\ n.finalized[id] = d.finalized[id]

ExposedFrozen(d) == d.exposed \subseteq DOMAIN d.finalized

LedgerInv ==
    \A r \in Replica :
        /\ LedgerExtends(saved[r], domain[r])
        /\ ExposedFrozen(saved[r])
        /\ ExposedFrozen(domain[r])

-----------------------------------------------------------------------------

\* A step that only replaces one live domain by a well-formed one.
LEMMA BecomesWellFormed ==
    ASSUME WellFormedInv, NEW r \in Replica, NEW d, WellFormed(d), Becomes(r, d)
    PROVE  WellFormedInv'
<1>1. d \in Domains
  BY DEF WellFormed
<1> QED
  BY <1>1 DEF WellFormedInv, Becomes

\* The register a publication carries is a register.
LEMMA ExportedIsRegister ==
    ASSUME NEW d, WellFormed(d), NEW ids
    PROVE  ExportedRegister(d, ids) \in Registers
<1> DEFINE S == DOMAIN d.causal \cap DependencyClosure(d.causal, ids)
<1>1. /\ DOMAIN d.causal \subseteq RevisionId
      /\ \A x \in DOMAIN d.causal : d.causal[x] \in Revision
  BY WellFormedFields, RegisterType
<1>2. ExportedRegister(d, ids) \in [S -> Revision]
  BY <1>1 DEF ExportedRegister, Restriction
<1> QED
  BY <1>1, <1>2, RegisterIntro

\* WellFormedInv is inductive.
LEMMA WellFormedInvStep == WellFormedInv /\ [Next]_vars => WellFormedInv'
<1> SUFFICES ASSUME WellFormedInv, [Next]_vars
             PROVE  WellFormedInv'
  OBVIOUS
<1>1. CASE UNCHANGED vars
  BY <1>1 DEF WellFormedInv, vars
<1>2. CASE Next
  <2> PICK r \in Replica :
        \/ \E v \in Value : Begin(r, v) \/ Update(r, v)
        \/ \E id \in IdsOf[r] : SealWork(r, id)
        \/ \E remote \in wire, pre \in OptionalId(r) :
              Observe(r, remote, pre) \/ ObserveRefused(r, remote, pre)
        \/ \E id \in domain[r].local : Freeze(r, id)
        \/ \E ids \in SUBSET DOMAIN domain[r].causal : HandOff(r, ids)
        \/ \E ids \in SUBSET domain[r].handed_off : ids # {} /\ Send(r, ids)
        \/ Save(r)
        \/ Restart(r)
    BY <1>2 DEF Next
  <2>0. WellFormed(domain[r]) /\ WellFormed(saved[r])
    BY DEF WellFormedInv
  <2>1. ASSUME NEW v \in Value, Begin(r, v)
        PROVE  WellFormedInv'
    BY <2>0, <2>1, BeginEpochWellFormed, BecomesWellFormed DEF Begin
  <2>2. ASSUME NEW v \in Value, Update(r, v)
        PROVE  WellFormedInv'
    BY <2>0, <2>2, UpdatePendingWellFormed, BecomesWellFormed DEF Update
  <2>3. ASSUME NEW id \in IdsOf[r], SealWork(r, id)
        PROVE  WellFormedInv'
    <3>1. id \in RevisionId
      BY IdsOfAssumption
    <3> QED
      BY <2>0, <2>3, <3>1, SealLocalWellFormed, BecomesWellFormed DEF SealWork
  <2>4. ASSUME NEW remote \in wire, NEW pre \in OptionalId(r), Observe(r, remote, pre)
        PROVE  WellFormedInv'
    <3>1. remote \in Registers
      BY DEF WellFormedInv
    <3>2. pre = {} \/ \E id \in RevisionId : pre = {id}
      BY IdsOfAssumption DEF OptionalId
    <3> QED
      BY <2>0, <2>4, <3>1, <3>2, ObserveRemoteWellFormed, BecomesWellFormed DEF Observe
  <2>5. ASSUME NEW remote \in wire, NEW pre \in OptionalId(r), ObserveRefused(r, remote, pre)
        PROVE  WellFormedInv'
    <3>1. pre = {} \/ \E id \in RevisionId : pre = {id}
      BY IdsOfAssumption DEF OptionalId
    <3> QED
      BY <2>0, <2>5, <3>1, BeforeMergeWellFormed, BecomesWellFormed
      DEF ObserveRefused, ObserveRemoteFailed
  <2>6. ASSUME NEW id \in domain[r].local, Freeze(r, id)
        PROVE  WellFormedInv'
    <3>1. id \in RevisionId
      BY <2>0, WellFormedFields
    <3> QED
      BY <2>0, <2>6, <3>1, FinalizeWellFormed, BecomesWellFormed DEF Freeze
  <2>7. ASSUME NEW ids \in SUBSET DOMAIN domain[r].causal, HandOff(r, ids)
        PROVE  WellFormedInv'
    BY <2>0, <2>7, HandoffWellFormed, BecomesWellFormed DEF HandOff
  <2>8. ASSUME NEW ids \in SUBSET domain[r].handed_off, Send(r, ids)
        PROVE  WellFormedInv'
    <3>1. ExportedRegister(saved[r], ids) \in Registers
      BY <2>0, ExportedIsRegister
    <3> QED
      BY <2>8, <3>1 DEF Send, WellFormedInv
  <2>9. CASE Save(r)
    BY <2>0, <2>9 DEF Save, WellFormedInv
  <2>10. CASE Restart(r)
    BY <2>0, <2>10, BecomesWellFormed DEF Restart
  <2> QED
    BY <2>1, <2>2, <2>3, <2>4, <2>5, <2>6, <2>7, <2>8, <2>9, <2>10
<1> QED
  BY <1>1, <1>2

\* WellFormedInv holds of every reachable state.
LEMMA WellFormedAlways == Spec => []WellFormedInv
<1>1. Init => WellFormedInv
  <2>1. WellFormed(FromCausal(EmptyRegister))
    BY EmptyRegisterValid, FromCausalWellFormed
  <2>2. FromCausal(EmptyRegister) \in Domains
    BY <2>1 DEF WellFormed
  <2> QED
    BY <2>1, <2>2 DEF Init, WellFormedInv
<1> QED
  BY <1>1, WellFormedInvStep, PTL DEF Spec

\* The type invariant of the core: every live domain and snapshot stays a
\* LocalScalarDomain value, and only registers leave a replica.
THEOREM TypeCorrect == Spec => []TypeOK
<1>1. WellFormedInv => TypeOK
  BY DEF WellFormedInv, TypeOK
<1> QED
  BY <1>1, WellFormedAlways, PTL

\* LocalScalarDomain::restore never refuses a snapshot that the program can
\* take, whatever the callers do, for any number of replicas and identities,
\* and even when callers reuse identities and merges are refused half way.
THEOREM RestoreAlwaysAccepts == Spec => []RestoreAccepts
<1>1. WellFormedInv => RestoreAccepts
  BY DEF WellFormedInv, RestoreAccepts, WellFormed
<1> QED
  BY <1>1, WellFormedAlways, PTL

-----------------------------------------------------------------------------
(* The ledger *)

\* A live step of r that keeps the ledger keeps LedgerInv.
LEMMA BecomesLedger ==
    ASSUME WellFormedInv, LedgerInv, NEW r \in Replica, NEW d, Becomes(r, d),
           LedgerExtends(domain[r], d), ExposedFrozen(d)
    PROVE  LedgerInv'
<1>1. LedgerExtends(saved[r], d)
  BY DEF LedgerInv, LedgerExtends
<1>2. domain'[r] = d /\ saved' = saved
  BY DEF Becomes, WellFormedInv
<1>3. \A q \in Replica : q # r => domain'[q] = domain[q]
  BY DEF Becomes, WellFormedInv
<1> QED
  BY <1>1, <1>2, <1>3 DEF LedgerInv

\* A step that leaves the frozen statements and the exposures alone.
LEMMA SameLedger ==
    ASSUME NEW d, NEW n, ExposedFrozen(d),
           n.finalized = d.finalized, n.exposed = d.exposed
    PROVE  LedgerExtends(d, n) /\ ExposedFrozen(n)
BY DEF LedgerExtends, ExposedFrozen

\* The working half of the domain does not touch the ledger.
LEMMA WorkingKeepsLedger ==
    ASSUME NEW d \in Domains
    PROVE  /\ \A v : /\ BeginEpoch(d, v).finalized = d.finalized
                    /\ BeginEpoch(d, v).exposed = d.exposed
                    /\ UpdatePending(d, v).finalized = d.finalized
                    /\ UpdatePending(d, v).exposed = d.exposed
           /\ \A id : /\ Seal(d, id).finalized = d.finalized
                     /\ Seal(d, id).exposed = d.exposed
                     /\ SealLocal(d, id).finalized = d.finalized
                     /\ SealLocal(d, id).exposed = d.exposed
           /\ \A pre : /\ BeforeMerge(d, pre).finalized = d.finalized
                      /\ BeforeMerge(d, pre).exposed = d.exposed
           /\ \A pre, remote : /\ ObserveRemote(d, remote, pre).finalized = d.finalized
                              /\ ObserveRemote(d, remote, pre).exposed = d.exposed
<1>1. \A v : /\ BeginEpoch(d, v).finalized = d.finalized
            /\ BeginEpoch(d, v).exposed = d.exposed
            /\ UpdatePending(d, v).finalized = d.finalized
            /\ UpdatePending(d, v).exposed = d.exposed
  BY DEF BeginEpoch, UpdatePending, Domains
<1>2. \A id : /\ Seal(d, id).finalized = d.finalized
             /\ Seal(d, id).exposed = d.exposed
             /\ SealLocal(d, id).finalized = d.finalized
             /\ SealLocal(d, id).exposed = d.exposed
  BY DEF Seal, SealLocal, RegisterLocal, Domains
<1>3. \A pre : /\ BeforeMerge(d, pre).finalized = d.finalized
              /\ BeforeMerge(d, pre).exposed = d.exposed
  BY <1>2 DEF BeforeMerge
<1>4. ASSUME NEW pre, NEW remote
      PROVE  /\ ObserveRemote(d, remote, pre).finalized = d.finalized
             /\ ObserveRemote(d, remote, pre).exposed = d.exposed
  <2>1. \E c, p, l, f, e, h : BeforeMerge(d, pre) =
          [causal |-> c, pending |-> p, local |-> l, finalized |-> f,
           exposed |-> e, handed_off |-> h]
    BY DEF BeforeMerge, Seal, Domains
  <2> QED
    BY <1>3, <2>1 DEF ObserveRemote, RegisterLocal
<1> QED
  BY <1>1, <1>2, <1>3, <1>4

\* finalize adds a statement and rewrites none; handoff adds exposures, all
\* of them frozen: that is what its check of the closure is for.
LEMMA LedgerMethodsExtend ==
    ASSUME NEW d, WellFormed(d), ExposedFrozen(d)
    PROVE  /\ \A id : CanFinalize(d, id) =>
                  LedgerExtends(d, Finalize(d, id)) /\ ExposedFrozen(Finalize(d, id))
           /\ \A ids : CanHandoff(d, ids) =>
                  LedgerExtends(d, Handoff(d, ids)) /\ ExposedFrozen(Handoff(d, ids))
<1> USE DEF WellFormed
<1>1. ASSUME NEW id, CanFinalize(d, id)
      PROVE  LedgerExtends(d, Finalize(d, id)) /\ ExposedFrozen(Finalize(d, id))
  <2> DEFINE n == Finalize(d, id)
  <2>1. /\ n.exposed = d.exposed
        /\ n.finalized = InsertRevision(d.finalized, id, d.causal[id])
    BY DEF Finalize, Domains
  <2>2. /\ DOMAIN n.finalized = DOMAIN d.finalized \cup {id}
        /\ \A x \in DOMAIN d.finalized : n.finalized[x] = d.finalized[x]
    BY <1>1, <2>1 DEF InsertRevision, CanFinalize
  <2> QED
    BY <2>1, <2>2 DEF LedgerExtends, ExposedFrozen
<1>2. ASSUME NEW ids, CanHandoff(d, ids)
      PROVE  LedgerExtends(d, Handoff(d, ids)) /\ ExposedFrozen(Handoff(d, ids))
  <2> DEFINE n == Handoff(d, ids)
  <2>1. /\ n.finalized = d.finalized
        /\ n.exposed = d.exposed \cup (DependencyClosure(d.causal, ids) \cap d.local)
    BY DEF Handoff, Domains
  <2> QED
    BY <1>2, <2>1 DEF LedgerExtends, ExposedFrozen, CanHandoff
<1> QED
  BY <1>1, <1>2

\* LedgerInv is inductive relative to WellFormedInv.
LEMMA LedgerInvStep == WellFormedInv /\ LedgerInv /\ [Next]_vars => LedgerInv'
<1> SUFFICES ASSUME WellFormedInv, LedgerInv, [Next]_vars
             PROVE  LedgerInv'
  OBVIOUS
<1>1. CASE UNCHANGED vars
  BY <1>1 DEF LedgerInv, vars
<1>2. CASE Next
  <2> PICK r \in Replica :
        \/ \E v \in Value : Begin(r, v) \/ Update(r, v)
        \/ \E id \in IdsOf[r] : SealWork(r, id)
        \/ \E remote \in wire, pre \in OptionalId(r) :
              Observe(r, remote, pre) \/ ObserveRefused(r, remote, pre)
        \/ \E id \in domain[r].local : Freeze(r, id)
        \/ \E ids \in SUBSET DOMAIN domain[r].causal : HandOff(r, ids)
        \/ \E ids \in SUBSET domain[r].handed_off : ids # {} /\ Send(r, ids)
        \/ Save(r)
        \/ Restart(r)
    BY <1>2 DEF Next
  <2>0. /\ domain[r] \in Domains
        /\ WellFormed(domain[r])
        /\ ExposedFrozen(domain[r])
    BY DEF WellFormedInv, LedgerInv
  <2>1. ASSUME NEW v \in Value, Begin(r, v) \/ Update(r, v)
        PROVE  LedgerInv'
    BY <2>0, <2>1, WorkingKeepsLedger, SameLedger, BecomesLedger DEF Begin, Update
  <2>2. ASSUME NEW id \in IdsOf[r], SealWork(r, id)
        PROVE  LedgerInv'
    BY <2>0, <2>2, WorkingKeepsLedger, SameLedger, BecomesLedger DEF SealWork
  <2>3. ASSUME NEW remote \in wire, NEW pre \in OptionalId(r),
               Observe(r, remote, pre) \/ ObserveRefused(r, remote, pre)
        PROVE  LedgerInv'
    BY <2>0, <2>3, WorkingKeepsLedger, SameLedger, BecomesLedger
    DEF Observe, ObserveRefused, ObserveRemoteFailed
  <2>4. ASSUME NEW id \in domain[r].local, Freeze(r, id)
        PROVE  LedgerInv'
    BY <2>0, <2>4, LedgerMethodsExtend, BecomesLedger DEF Freeze
  <2>5. ASSUME NEW ids \in SUBSET DOMAIN domain[r].causal, HandOff(r, ids)
        PROVE  LedgerInv'
    BY <2>0, <2>5, LedgerMethodsExtend, BecomesLedger DEF HandOff
  <2>6. ASSUME NEW ids \in SUBSET domain[r].handed_off, Send(r, ids)
        PROVE  LedgerInv'
    BY <2>6 DEF Send, LedgerInv
  <2>7. CASE Save(r)
    <3>1. LedgerExtends(domain[r], domain[r])
      BY DEF LedgerExtends
    <3>2. /\ domain' = domain
          /\ saved'[r] = domain[r]
          /\ \A q \in Replica : q # r => saved'[q] = saved[q]
      BY <2>7 DEF Save, WellFormedInv
    <3> QED
      BY <3>1, <3>2 DEF LedgerInv
  <2>8. CASE Restart(r)
    <3>1. LedgerExtends(saved[r], saved[r])
      BY DEF LedgerExtends
    <3>2. /\ saved' = saved
          /\ domain'[r] = saved[r]
          /\ \A q \in Replica : q # r => domain'[q] = domain[q]
      BY <2>8 DEF Restart, Becomes, WellFormedInv
    <3> QED
      BY <3>1, <3>2 DEF LedgerInv
  <2> QED
    BY <2>1, <2>2, <2>3, <2>4, <2>5, <2>6, <2>7, <2>8
<1> QED
  BY <1>1, <1>2

\* LedgerInv holds of every reachable state.
LEMMA LedgerAlways == Spec => []LedgerInv
<1>1. Init => LedgerInv
  <2>1. /\ FromCausal(EmptyRegister).exposed = {}
        /\ FromCausal(EmptyRegister).finalized = EmptyRegister
    BY DEF FromCausal
  <2> QED
    BY <2>1 DEF Init, LedgerInv, LedgerExtends, ExposedFrozen
<1> QED
  BY <1>1, LedgerInvStep, WellFormedAlways, PTL DEF Spec

\* What the durable snapshot says of an exposed revision it says forever:
\* no later save drops the exposure or rewrites the frozen statement.
THEOREM ExposureForever == Spec => ExposureIsForever
<1>1. ASSUME WellFormedInv, LedgerInv, [Next]_vars
      PROVE  [\A r \in Replica : \A id \in saved[r].exposed :
                /\ id \in saved'[r].exposed
                /\ saved'[r].finalized[id] = saved[r].finalized[id]]_vars
  <2>1. ASSUME NEW r \in Replica
        PROVE  saved'[r] = saved[r] \/ saved'[r] = domain[r]
    BY <1>1 DEF Next, vars, WellFormedInv, Becomes, Begin, Update, SealWork, Observe,
                ObserveRefused, Freeze, HandOff, Save, Send, Restart
  <2>2. ASSUME NEW r \in Replica, NEW id \in saved[r].exposed
        PROVE  /\ id \in saved'[r].exposed
               /\ saved'[r].finalized[id] = saved[r].finalized[id]
    BY <1>1, <2>1 DEF LedgerInv, LedgerExtends, ExposedFrozen
  <2> QED
    BY <2>2
<1> QED
  BY <1>1, WellFormedAlways, LedgerAlways, PTL DEF Spec, ExposureIsForever

-----------------------------------------------------------------------------
(* How a step of Next changes one replica.  The invariants below look only *)
(* at this summary and not at the methods again.                           *)

\* r's domain becomes n: it seals new, merges remote and keeps its ledger.
LiveStep(r, n, new, remote) ==
    /\ Becomes(r, n)
    /\ new \in OptionalId(r)
    /\ remote \in wire \cup {EmptyRegister}
    /\ Grown(domain[r], n, new, remote)
    /\ LedgerExtends(domain[r], n)
    /\ \/ new \subseteq n.local
       \/ \E g \in wire : ObserveRefused(r, g, new)
    /\ \/ n.exposed = domain[r].exposed
       \/ \E ids : CanHandoff(domain[r], ids) /\ n = Handoff(domain[r], ids)

StepSummary ==
    \/ UNCHANGED vars
    \/ \E r \in Replica :
          \/ \E n, new, remote : LiveStep(r, n, new, remote)
          \/ \E ids \in SUBSET saved[r].handed_off : Send(r, ids)
          \/ Save(r)
          \/ Becomes(r, saved[r])

\* Every step is one of these.
LEMMA StepIsSummarised == WellFormedInv /\ LedgerInv /\ [Next]_vars => StepSummary
<1> SUFFICES ASSUME WellFormedInv, LedgerInv, Next
             PROVE  StepSummary
  BY DEF StepSummary
<1> PICK r \in Replica :
      \/ \E v \in Value : Begin(r, v) \/ Update(r, v)
      \/ \E id \in IdsOf[r] : SealWork(r, id)
      \/ \E remote \in wire, pre \in OptionalId(r) :
            Observe(r, remote, pre) \/ ObserveRefused(r, remote, pre)
      \/ \E id \in domain[r].local : Freeze(r, id)
      \/ \E ids \in SUBSET DOMAIN domain[r].causal : HandOff(r, ids)
      \/ \E ids \in SUBSET domain[r].handed_off : ids # {} /\ Send(r, ids)
      \/ Save(r)
      \/ Restart(r)
  BY DEF Next
<1> DEFINE d == domain[r]
<1>0. /\ d \in Domains
      /\ WellFormed(d)
      /\ ExposedFrozen(d)
      /\ {} \in OptionalId(r)
  BY DEF WellFormedInv, LedgerInv, OptionalId
<1> SUFFICES ASSUME ~(\E ids \in SUBSET domain[r].handed_off : ids # {} /\ Send(r, ids)),
                    ~Save(r), ~Restart(r)
             PROVE  \E n, new, remote : LiveStep(r, n, new, remote)
  BY DEF StepSummary, Send, Restart
<1>1. ASSUME NEW n, Becomes(r, n), Grown(d, n, {}, EmptyRegister), LedgerExtends(d, n),
             \/ n.exposed = d.exposed
             \/ \E ids : CanHandoff(d, ids) /\ n = Handoff(d, ids)
      PROVE  LiveStep(r, n, {}, EmptyRegister)
  BY <1>0, <1>1 DEF LiveStep
<1>2. ASSUME NEW v \in Value, Begin(r, v) \/ Update(r, v)
      PROVE  \E n : LiveStep(r, n, {}, EmptyRegister)
  <2>1. ASSUME NEW n \in {BeginEpoch(d, v), UpdatePending(d, v)}
        PROVE  /\ Grown(d, n, {}, EmptyRegister)
               /\ LedgerExtends(d, n)
               /\ n.exposed = d.exposed
    BY <1>0, LedgerMethodsGrowNothing, WorkingKeepsLedger, SameLedger
  <2>2. \E n \in {BeginEpoch(d, v), UpdatePending(d, v)} : Becomes(r, n)
    BY <1>2 DEF Begin, Update
  <2> QED
    BY <1>1, <2>1, <2>2
<1>3. ASSUME NEW id \in IdsOf[r], SealWork(r, id)
      PROVE  \E n : LiveStep(r, n, {id}, EmptyRegister)
  <2> DEFINE n == SealLocal(d, id)
  <2>1. Grown(d, n, {id}, EmptyRegister) /\ {id} \subseteq n.local
    BY <1>0, <1>3, SealLocalGrows DEF SealWork
  <2>2. LedgerExtends(d, n) /\ n.exposed = d.exposed
    BY <1>0, WorkingKeepsLedger, SameLedger
  <2>3. Becomes(r, n) /\ {id} \in OptionalId(r)
    BY <1>3 DEF SealWork, OptionalId
  <2> HIDE DEF n
  <2> QED
    BY <2>1, <2>2, <2>3 DEF LiveStep
<1>4. ASSUME NEW remote \in wire, NEW pre \in OptionalId(r)
      PROVE  /\ remote \in Registers
             /\ pre = {} \/ \E id \in RevisionId : pre = {id}
  BY IdsOfAssumption DEF WellFormedInv, OptionalId
<1>5. ASSUME NEW remote \in wire, NEW pre \in OptionalId(r), Observe(r, remote, pre)
      PROVE  \E n : LiveStep(r, n, pre, remote)
  <2> DEFINE n == ObserveRemote(d, remote, pre)
  <2>1. Grown(d, n, pre, remote) /\ pre \subseteq n.local
    BY <1>0, <1>4, <1>5, ObserveRemoteGrows DEF Observe
  <2>2. LedgerExtends(d, n) /\ n.exposed = d.exposed
    BY <1>0, WorkingKeepsLedger, SameLedger
  <2>3. Becomes(r, n)
    BY <1>5 DEF Observe
  <2> HIDE DEF n
  <2> QED
    BY <2>1, <2>2, <2>3 DEF LiveStep
<1>6. ASSUME NEW remote \in wire, NEW pre \in OptionalId(r), ObserveRefused(r, remote, pre)
      PROVE  \E n : LiveStep(r, n, pre, EmptyRegister)
  <2> DEFINE n == BeforeMerge(d, pre)
  <2>1. Grown(d, n, pre, EmptyRegister)
    BY <1>0, <1>4, <1>6, BeforeMergeGrows DEF ObserveRefused
  <2>2. LedgerExtends(d, n) /\ n.exposed = d.exposed
    BY <1>0, WorkingKeepsLedger, SameLedger
  <2>3. Becomes(r, n)
    BY <1>6 DEF ObserveRefused, ObserveRemoteFailed
  <2> HIDE DEF n
  <2> QED
    BY <1>6, <2>1, <2>2, <2>3 DEF LiveStep
<1>7. ASSUME NEW id \in domain[r].local, Freeze(r, id)
      PROVE  \E n : LiveStep(r, n, {}, EmptyRegister)
  <2> DEFINE n == Finalize(d, id)
  <2>1. Grown(d, n, {}, EmptyRegister) /\ LedgerExtends(d, n) /\ Becomes(r, n)
    BY <1>0, <1>7, LedgerMethodsGrowNothing, LedgerMethodsExtend DEF Freeze
  <2>2. n.exposed = d.exposed
    BY <1>0 DEF Finalize, Domains
  <2> HIDE DEF n
  <2> QED
    BY <1>1, <2>1, <2>2
<1>8. ASSUME NEW ids \in SUBSET DOMAIN domain[r].causal, HandOff(r, ids)
      PROVE  \E n : LiveStep(r, n, {}, EmptyRegister)
  <2> DEFINE n == Handoff(d, ids)
  <2>1. Grown(d, n, {}, EmptyRegister) /\ LedgerExtends(d, n) /\ Becomes(r, n)
    BY <1>0, <1>8, LedgerMethodsGrowNothing, LedgerMethodsExtend DEF HandOff
  <2>2. CanHandoff(d, ids)
    BY <1>8 DEF HandOff
  <2> QED
    BY <1>1, <2>1, <2>2
<1> QED
  BY <1>2, <1>3, <1>5, <1>6, <1>7, <1>8

-----------------------------------------------------------------------------
(* History: registers stay finite, a live register extends the saved one,  *)
(* and the local history of what is exposed is exposed and frozen.         *)

PastFrozen(d) ==
    DependencyClosure(d.causal, d.exposed) \cap d.local \subseteq d.exposed \cap DOMAIN d.finalized

HistoryInv ==
    /\ \A g \in wire : Valid(g) /\ IsFiniteSet(DOMAIN g)
    /\ \A r \in Replica :
          /\ IsFiniteSet(DOMAIN domain[r].causal)
          /\ Extended(saved[r].causal, domain[r].causal)
          /\ saved[r].local \subseteq domain[r].local
          /\ PastFrozen(domain[r])
          /\ PastFrozen(saved[r])

\* A handoff closes what it exposes under local history, and sealing or
\* merging adds nothing to the history of what was already exposed.
LEMMA PastStaysFrozen ==
    ASSUME NEW d, NEW n, NEW new, NEW remote, WellFormed(d), WellFormed(n),
           Grown(d, n, new, remote), LedgerExtends(d, n), PastFrozen(d),
           \/ n.exposed = d.exposed
           \/ \E ids : CanHandoff(d, ids) /\ n = Handoff(d, ids)
    PROVE  PastFrozen(n)
<1>1. /\ d.causal \in Registers
      /\ Valid(d.causal)
      /\ d.exposed \in SUBSET DOMAIN d.causal
      /\ d \in Domains
  BY WellFormedFields DEF WellFormed
<1>2. CASE n.exposed = d.exposed
  <2>1. DependencyClosure(n.causal, n.exposed) = DependencyClosure(d.causal, d.exposed)
    BY <1>1, <1>2, ClosureInExtension DEF Grown
  <2>2. DependencyClosure(d.causal, d.exposed) \subseteq DOMAIN d.causal
    BY <1>1, ClosureClosed
  <2>3. DependencyClosure(n.causal, n.exposed) \cap n.local
          \subseteq DependencyClosure(d.causal, d.exposed) \cap d.local
    BY <2>1, <2>2 DEF Grown
  <2> QED
    BY <1>2, <2>3 DEF PastFrozen, LedgerExtends
<1>3. ASSUME NEW ids, CanHandoff(d, ids), n = Handoff(d, ids)
      PROVE  PastFrozen(n)
  <2> DEFINE a == DependencyClosure(d.causal, d.exposed)
             c == DependencyClosure(d.causal, ids)
  <2>1. /\ n.causal = d.causal /\ n.local = d.local /\ n.finalized = d.finalized
        /\ n.exposed = d.exposed \cup (c \cap d.local)
    BY <1>1, <1>3 DEF Handoff, Domains
  <2>2. /\ ids \in SUBSET DOMAIN d.causal
        /\ c \cap d.local \subseteq DOMAIN d.finalized
    BY <1>3 DEF CanHandoff
  <2>3. /\ a \subseteq DOMAIN d.causal /\ d.exposed \subseteq a /\ IsParentClosed(d.causal, a)
        /\ c \subseteq DOMAIN d.causal /\ IsParentClosed(d.causal, c)
    BY <1>1, <2>2, ClosureClosed
  <2> HIDE DEF a, c
  <2>4. a \cup c \in SUBSET DOMAIN d.causal /\ IsParentClosed(d.causal, a \cup c)
    BY <2>3 DEF IsParentClosed
  <2>5. DependencyClosure(d.causal, n.exposed) \subseteq a \cup c
    BY <2>1, <2>3, <2>4, ClosureLeast
  <2>6. a \cap d.local \subseteq d.exposed \cap DOMAIN d.finalized
    BY DEF PastFrozen, a
  <2> QED
    BY <2>1, <2>2, <2>5, <2>6 DEF PastFrozen
<1> QED
  BY <1>2, <1>3

\* HistoryInv is inductive relative to WellFormedInv and LedgerInv.
LEMMA HistoryInvStep ==
    WellFormedInv /\ LedgerInv /\ HistoryInv /\ [Next]_vars => HistoryInv'
<1> SUFFICES ASSUME WellFormedInv, LedgerInv, HistoryInv, [Next]_vars
             PROVE  HistoryInv'
  OBVIOUS
<1>1. StepSummary /\ WellFormedInv'
  BY StepIsSummarised, WellFormedInvStep
<1>2. CASE UNCHANGED vars
  BY <1>2 DEF vars, HistoryInv
<1>3. ASSUME NEW r \in Replica, NEW n, NEW new, NEW remote, LiveStep(r, n, new, remote)
      PROVE  HistoryInv'
  <2> DEFINE d == domain[r]
  <2>1. /\ domain'[r] = n
        /\ \A q \in Replica : q # r => domain'[q] = domain[q]
        /\ saved' = saved
        /\ wire' = wire
    BY <1>3 DEF LiveStep, Becomes, WellFormedInv
  <2>2. IsFiniteSet(DOMAIN n.causal)
    <3>1. IsFiniteSet(new)
      BY <1>3, FS_EmptySet, FS_Singleton DEF LiveStep, OptionalId
    <3>2. IsFiniteSet(DOMAIN remote)
      BY <1>3, EmptyRegisterValid, FS_EmptySet DEF LiveStep, HistoryInv
    <3>3. IsFiniteSet(DOMAIN domain[r].causal)
      BY DEF HistoryInv
    <3>4. DOMAIN n.causal = DOMAIN domain[r].causal \cup new \cup DOMAIN remote
      BY <1>3 DEF LiveStep, Grown
    <3> QED
      BY <3>1, <3>2, <3>3, <3>4, FS_Union
  <2>3. Extended(saved[r].causal, n.causal)
    BY <1>3 DEF LiveStep, Grown, HistoryInv, Extended
  <2>4. saved[r].local \subseteq n.local
    BY <1>3 DEF LiveStep, Grown, HistoryInv
  <2>5. PastFrozen(n)
    <3>1. WellFormed(d) /\ WellFormed(n)
      BY <1>1, <2>1 DEF WellFormedInv
    <3>2. PastFrozen(d)
      BY DEF HistoryInv
    <3> HIDE DEF d
    <3>3. /\ Grown(d, n, new, remote)
          /\ LedgerExtends(d, n)
          /\ \/ n.exposed = d.exposed
             \/ \E ids : CanHandoff(d, ids) /\ n = Handoff(d, ids)
      BY <1>3 DEF LiveStep, d
    <3> QED
      BY <3>1, <3>2, <3>3, PastStaysFrozen
  <2> QED
    BY <2>1, <2>2, <2>3, <2>4, <2>5 DEF HistoryInv
<1>4. ASSUME NEW r \in Replica, NEW ids \in SUBSET saved[r].handed_off, Send(r, ids)
      PROVE  HistoryInv'
  <2> DEFINE s == saved[r]
             g == ExportedRegister(s, ids)
  <2>1. /\ s.causal \in Registers
        /\ Valid(s.causal)
        /\ ids \in SUBSET DOMAIN s.causal
    BY WellFormedFields DEF WellFormedInv
  <2>2. Valid(g) /\ DOMAIN g = DependencyClosure(s.causal, ids)
    BY <2>1, ClosureRestriction DEF ExportedRegister
  <2>3. IsFiniteSet(DOMAIN g)
    <3>1. DOMAIN g \subseteq DOMAIN domain[r].causal
      BY <2>1, <2>2, ClosureClosed DEF HistoryInv, Extended
    <3> QED
      BY <3>1, FS_Subset DEF HistoryInv
  <2>4. wire' = wire \cup {g} /\ domain' = domain /\ saved' = saved
    BY <1>4 DEF Send
  <2> HIDE DEF g
  <2> QED
    BY <2>2, <2>3, <2>4 DEF HistoryInv
<1>5. ASSUME NEW r \in Replica, Save(r)
      PROVE  HistoryInv'
  <2>1. /\ domain' = domain /\ wire' = wire
        /\ saved'[r] = domain[r]
        /\ \A q \in Replica : q # r => saved'[q] = saved[q]
    BY <1>5 DEF Save, WellFormedInv
  <2>2. Extended(domain[r].causal, domain[r].causal)
    BY DEF Extended
  <2> QED
    BY <2>1, <2>2 DEF HistoryInv
<1>6. ASSUME NEW r \in Replica, Becomes(r, saved[r])
      PROVE  HistoryInv'
  <2>1. /\ saved' = saved /\ wire' = wire
        /\ domain'[r] = saved[r]
        /\ \A q \in Replica : q # r => domain'[q] = domain[q]
    BY <1>6 DEF Becomes, WellFormedInv
  <2>2. Extended(saved[r].causal, saved[r].causal)
    BY DEF Extended
  <2>3. IsFiniteSet(DOMAIN saved[r].causal)
    BY FS_Subset DEF HistoryInv, Extended
  <2> QED
    BY <2>1, <2>2, <2>3 DEF HistoryInv
<1> QED
  BY <1>1, <1>2, <1>3, <1>4, <1>5, <1>6 DEF StepSummary

\* HistoryInv holds of every reachable state.
LEMMA HistoryAlways == Spec => []HistoryInv
<1>1. Init => HistoryInv
  <2> DEFINE d == FromCausal(EmptyRegister)
  <2>1. /\ d.causal = EmptyRegister /\ d.exposed = {} /\ d.local = {}
        /\ DOMAIN EmptyRegister = {}
    BY EmptyRegisterValid DEF FromCausal
  <2>2. PastFrozen(d) /\ Extended(d.causal, d.causal) /\ IsFiniteSet(DOMAIN d.causal)
    BY <2>1, FS_EmptySet DEF PastFrozen, Extended
  <2> HIDE DEF d
  <2>3. Init => /\ wire = {}
                /\ \A r \in Replica : domain[r] = d /\ saved[r] = d
    BY DEF Init, d
  <2> QED
    BY <2>2, <2>3 DEF HistoryInv
<1> QED
  BY <1>1, HistoryInvStep, WellFormedAlways, LedgerAlways, PTL DEF Spec

\* A pending epoch's observed frontier stands for the whole register, so a
\* revision sealed from it dominates everything its author saw.
THEOREM EpochAlwaysDominates == Spec => []EpochDominatesObserved
<1>1. WellFormedInv /\ HistoryInv => EpochDominatesObserved
  <2> SUFFICES ASSUME WellFormedInv, HistoryInv, NEW r \in Replica, domain[r].pending # NoEpoch
               PROVE  DependencyClosure(domain[r].causal, domain[r].pending.observed_frontier)
                        = DOMAIN domain[r].causal
    BY DEF EpochDominatesObserved
  <2>1. /\ domain[r].causal \in Registers
        /\ Valid(domain[r].causal)
        /\ domain[r].pending.observed_frontier = FrontierIds(domain[r].causal)
    BY WellFormedFields DEF WellFormedInv
  <2>2. IsFiniteSet(DOMAIN domain[r].causal)
    BY DEF HistoryInv
  <2> QED
    BY <2>1, <2>2, FrontierCovers
<1> QED
  BY <1>1, WellFormedAlways, HistoryAlways, PTL

\* Exposure stays closed under local history, and all of it stays frozen,
\* even where a refused merge left a sealed revision unregistered.
THEOREM ExposedHistoryStaysFrozen == Spec => []ExposedHistoryFrozen
<1>1. HistoryInv => ExposedHistoryFrozen
  BY DEF HistoryInv, PastFrozen, ExposedHistoryFrozen
<1> QED
  BY <1>1, HistoryAlways, PTL

-----------------------------------------------------------------------------
(* Who made what.  The rest needs callers that keep their identities apart: *)
(* apc-core leaves minting to its caller, and with a shared identity these  *)
(* properties fail.                                                         *)

SeparateIdentities ==
    \A q, r \in Replica : q # r => IdsOf[q] \cap IdsOf[r] = {}

OwnIsLocal(r, d) == DOMAIN d.causal \cap IdsOf[r] \subseteq d.local

\* What is outside is recorded as exposed by its author, as it left.
ExposedAsSent(g) ==
    \A r \in Replica : \A id \in DOMAIN g \cap IdsOf[r] :
        id \in saved[r].exposed /\ saved[r].causal[id] = g[id]

\* Every revision a replica holds is its own or came from outside.
ForeignFrom(r) ==
    \A id \in DOMAIN domain[r].causal \ IdsOf[r] :
        \E g \in wire : id \in DOMAIN g /\ g[id] = domain[r].causal[id]

OriginInv ==
    /\ \A g \in wire : ExposedAsSent(g)
    /\ \A g \in wire : \A id \in DOMAIN g : \E r \in Replica : id \in IdsOf[r]
    /\ \A r \in Replica : /\ OwnIsLocal(r, domain[r])
                          /\ OwnIsLocal(r, saved[r])
                          /\ ForeignFrom(r)

\* The fields of r's snapshot and live domain that the argument compares.
LEMMA SavedIsHeld ==
    ASSUME WellFormedInv, LedgerInv, HistoryInv, NEW r \in Replica, NEW id \in saved[r].exposed
    PROVE  /\ id \in DOMAIN saved[r].causal
           /\ id \in DOMAIN domain[r].causal
           /\ domain[r].causal[id] = saved[r].causal[id]
           /\ id \in saved[r].local /\ id \in domain[r].local
           /\ id \in domain[r].exposed
           /\ id \in DOMAIN saved[r].finalized
           /\ saved[r].finalized[id] = saved[r].causal[id]
<1>1. WellFormed(saved[r])
  BY DEF WellFormedInv
<1>2. id \in saved[r].local /\ id \in DOMAIN saved[r].causal
  BY <1>1, WellFormedFields
<1>3. id \in DOMAIN saved[r].finalized
  BY DEF LedgerInv, ExposedFrozen
<1>4. saved[r].finalized[id] = saved[r].causal[id]
  BY <1>1, <1>3, WellFormedFields
<1> QED
  BY <1>2, <1>3, <1>4 DEF HistoryInv, LedgerInv, LedgerExtends, Extended

\* A live register and a register from outside never disagree.
LEMMA LiveAgreesWithWire ==
    ASSUME WellFormedInv, LedgerInv, HistoryInv, OriginInv,
           NEW r \in Replica, NEW g \in wire
    PROVE  Compatible(domain[r].causal, g)
<1> SUFFICES ASSUME NEW id \in DOMAIN domain[r].causal \cap DOMAIN g
             PROVE  domain[r].causal[id] = g[id]
  BY DEF Compatible
<1>1. CASE id \in IdsOf[r]
  <2>1. id \in saved[r].exposed /\ saved[r].causal[id] = g[id]
    BY <1>1 DEF OriginInv, ExposedAsSent
  <2> QED
    BY <2>1, SavedIsHeld
<1>2. CASE id \notin IdsOf[r]
  <2>1. PICK h \in wire : id \in DOMAIN h /\ h[id] = domain[r].causal[id]
    BY <1>2 DEF OriginInv, ForeignFrom
  <2>2. PICK q \in Replica : id \in IdsOf[q]
    BY DEF OriginInv
  <2>3. saved[q].causal[id] = g[id] /\ saved[q].causal[id] = h[id]
    BY <2>1, <2>2 DEF OriginInv, ExposedAsSent
  <2> QED
    BY <2>1, <2>3
<1> QED
  BY <1>1, <1>2

\* With separate identities observe_remote is refused by no register from
\* outside, neither in the live domain nor in the one a restart would rebuild:
\* the merge that follows the seal finds no duplicate identity and a valid union.
LEMMA ObserveIsAccepted ==
    ASSUME WellFormedInv, LedgerInv, HistoryInv, OriginInv,
           NEW r \in Replica, NEW g \in wire, NEW pre \in OptionalId(r),
           NEW d \in {domain[r], saved[r]}, ObserveReady(d, g, pre)
    PROVE  CanMerge(BeforeMerge(d, pre).causal, g)
<1> DEFINE b == BeforeMerge(d, pre)
<1>1. WellFormed(d) /\ d \in Domains /\ g \in Registers /\ Valid(g)
  BY DEF WellFormedInv, HistoryInv
<1>2. pre = {} \/ \E id \in RevisionId : pre = {id}
  BY IdsOfAssumption DEF OptionalId
<1>4. WellFormed(b)
  BY <1>1, <1>2, BeforeMergeWellFormed
<1>5. Grown(d, b, pre, EmptyRegister)
  BY <1>1, <1>2, BeforeMergeGrows
<1>6. b.causal \in Registers /\ Valid(b.causal)
  BY <1>4, WellFormedFields
<1>7. Compatible(d.causal, g)
  <2>1. Compatible(domain[r].causal, g)
    BY LiveAgreesWithWire
  <2>2. Compatible(saved[r].causal, g)
    BY <2>1 DEF HistoryInv, Extended, Compatible
  <2> QED
    BY <2>1, <2>2
<1>8. pre \subseteq IdsOf[r]
  BY DEF OptionalId
<1>9. DOMAIN g \cap IdsOf[r] \subseteq DOMAIN d.causal
  BY SavedIsHeld DEF OriginInv, ExposedAsSent
<1> HIDE DEF b
<1>10. Compatible(b.causal, g)
  BY <1>5, <1>7, <1>8, <1>9, EmptyRegisterValid DEF Grown, Extended, Compatible
<1> QED
  BY <1>1, <1>6, <1>10, MergeOfValidIsValid, CanMergeIffCompatible DEF b

\* Hence the error path of observe_remote after its seal is never taken.
LEMMA MergeIsNeverRefused ==
    ASSUME WellFormedInv, LedgerInv, HistoryInv, OriginInv,
           NEW r \in Replica, NEW g \in wire, NEW pre \in OptionalId(r)
    PROVE  ~ObserveRefused(r, g, pre)
BY ObserveIsAccepted DEF ObserveRefused

\* OriginInv is inductive relative to the other invariants.
LEMMA OriginInvStep ==
    ASSUME SeparateIdentities
    PROVE  WellFormedInv /\ LedgerInv /\ HistoryInv /\ OriginInv /\ [Next]_vars => OriginInv'
<1> SUFFICES ASSUME WellFormedInv, LedgerInv, HistoryInv, OriginInv, [Next]_vars
             PROVE  OriginInv'
  OBVIOUS
<1>1. StepSummary
  BY StepIsSummarised
<1>2. CASE UNCHANGED vars
  BY <1>2 DEF vars, OriginInv, OwnIsLocal, ExposedAsSent, ForeignFrom
<1>3. ASSUME NEW r \in Replica, NEW n, NEW new, NEW remote, LiveStep(r, n, new, remote)
      PROVE  OriginInv'
  <2>1. /\ domain'[r] = n
        /\ \A q \in Replica : q # r => domain'[q] = domain[q]
        /\ saved' = saved
        /\ wire' = wire
    BY <1>3 DEF LiveStep, Becomes, WellFormedInv
  <2>2. /\ Grown(domain[r], n, new, remote)
        /\ remote \in wire \cup {EmptyRegister}
        /\ new \subseteq IdsOf[r]
    BY <1>3 DEF LiveStep, OptionalId
  <2>3. new \subseteq n.local
    BY <1>3, MergeIsNeverRefused DEF LiveStep
  <2>4. OwnIsLocal(r, n)
    <3>1. DOMAIN remote \cap IdsOf[r] \subseteq domain[r].local
      <4>1. CASE remote = EmptyRegister
        BY <4>1, EmptyRegisterValid
      <4>2. CASE remote \in wire
        BY <4>2, SavedIsHeld DEF OriginInv, ExposedAsSent
      <4> QED
        BY <2>2, <4>1, <4>2
    <3>2. DOMAIN domain[r].causal \cap IdsOf[r] \subseteq domain[r].local
      BY DEF OriginInv, OwnIsLocal
    <3> QED
      BY <2>2, <2>3, <3>1, <3>2 DEF OwnIsLocal, Grown
  <2>5. ForeignFrom(r)'
    <3> SUFFICES ASSUME NEW id \in DOMAIN n.causal \ IdsOf[r]
                 PROVE  \E g \in wire : id \in DOMAIN g /\ g[id] = n.causal[id]
      BY <2>1 DEF ForeignFrom
    <3>1. CASE id \in DOMAIN domain[r].causal
      <4>1. PICK g \in wire : id \in DOMAIN g /\ g[id] = domain[r].causal[id]
        BY <3>1 DEF OriginInv, ForeignFrom
      <4> QED
        BY <2>2, <3>1, <4>1 DEF Grown, Extended
    <3>2. CASE id \in DOMAIN remote
      <4>1. remote \in wire
        BY <2>2, <3>2, EmptyRegisterValid
      <4> QED
        BY <2>2, <3>2, <4>1 DEF Grown, Extended
    <3> QED
      BY <2>2, <3>1, <3>2 DEF Grown
  <2>6. \A q \in Replica : q # r => ForeignFrom(q)'
    BY <2>1 DEF OriginInv, ForeignFrom
  <2>7. \A g \in wire' : ExposedAsSent(g)'
    BY <2>1 DEF OriginInv, ExposedAsSent
  <2>8. \A q \in Replica : OwnIsLocal(q, domain[q])' /\ OwnIsLocal(q, saved[q])'
    BY <2>1, <2>4 DEF OriginInv, OwnIsLocal
  <2> QED
    BY <2>1, <2>5, <2>6, <2>7, <2>8 DEF OriginInv
<1>4. ASSUME NEW r \in Replica, NEW ids \in SUBSET saved[r].handed_off, Send(r, ids)
      PROVE  OriginInv'
  <2> DEFINE s == saved[r]
             g == ExportedRegister(s, ids)
             c == DependencyClosure(s.causal, ids)
  <2>1. /\ s.causal \in Registers
        /\ Valid(s.causal)
        /\ ids \subseteq s.exposed
        /\ s.exposed \in SUBSET DOMAIN s.causal
    BY WellFormedFields DEF WellFormedInv
  <2>2. DOMAIN g = c /\ Extended(g, s.causal)
    BY <2>1, ClosureRestriction DEF ExportedRegister
  <2>3. c \cap s.local \subseteq s.exposed
    <3>1. /\ DependencyClosure(s.causal, s.exposed) \in SUBSET DOMAIN s.causal
          /\ s.exposed \subseteq DependencyClosure(s.causal, s.exposed)
          /\ IsParentClosed(s.causal, DependencyClosure(s.causal, s.exposed))
      BY <2>1, ClosureClosed
    <3>2. c \subseteq DependencyClosure(s.causal, s.exposed)
      BY <2>1, <3>1, ClosureLeast
    <3> QED
      BY <3>2 DEF HistoryInv, PastFrozen
  <2>4. wire' = wire \cup {g} /\ domain' = domain /\ saved' = saved
    BY <1>4 DEF Send
  <2> HIDE DEF g, c
  <2>5. ASSUME NEW id \in DOMAIN g \ IdsOf[r]
        PROVE  \E h \in wire : id \in DOMAIN h /\ h[id] = g[id]
    <3>1. /\ id \in DOMAIN s.causal /\ g[id] = s.causal[id]
          /\ id \in DOMAIN domain[r].causal /\ domain[r].causal[id] = s.causal[id]
      BY <2>2 DEF Extended, HistoryInv
    <3> QED
      BY <3>1 DEF OriginInv, ForeignFrom
  <2>6. ExposedAsSent(g)
    <3> SUFFICES ASSUME NEW q \in Replica, NEW id \in DOMAIN g \cap IdsOf[q]
                 PROVE  id \in saved[q].exposed /\ saved[q].causal[id] = g[id]
      BY DEF ExposedAsSent
    <3>1. CASE q = r
      <4>1. id \in s.local
        BY <2>2, <3>1 DEF OriginInv, OwnIsLocal, Extended
      <4> QED
        BY <2>2, <2>3, <3>1, <4>1 DEF Extended
    <3>2. CASE q # r
      <4>1. id \notin IdsOf[r]
        BY <3>2 DEF SeparateIdentities
      <4>2. PICK h \in wire : id \in DOMAIN h /\ h[id] = g[id]
        BY <2>5, <4>1
      <4> QED
        BY <4>2 DEF OriginInv, ExposedAsSent
    <3> QED
      BY <3>1, <3>2
  <2>7. \A id \in DOMAIN g : \E q \in Replica : id \in IdsOf[q]
    BY <2>5 DEF OriginInv
  <2>8. \A h \in wire' : ExposedAsSent(h)'
    BY <2>4, <2>6 DEF OriginInv, ExposedAsSent
  <2>9. \A h \in wire' : \A id \in DOMAIN h : \E q \in Replica : id \in IdsOf[q]
    BY <2>4, <2>7 DEF OriginInv
  <2>10. \A q \in Replica : ForeignFrom(q)'
    BY <2>4 DEF OriginInv, ForeignFrom
  <2>11. \A q \in Replica : OwnIsLocal(q, domain[q])' /\ OwnIsLocal(q, saved[q])'
    BY <2>4 DEF OriginInv, OwnIsLocal
  <2> QED
    BY <2>8, <2>9, <2>10, <2>11 DEF OriginInv
<1>5. ASSUME NEW r \in Replica, Save(r)
      PROVE  OriginInv'
  <2>1. /\ domain' = domain /\ wire' = wire
        /\ saved'[r] = domain[r]
        /\ \A q \in Replica : q # r => saved'[q] = saved[q]
    BY <1>5 DEF Save, WellFormedInv
  <2>2. \A g \in wire' : ExposedAsSent(g)'
    <3> SUFFICES ASSUME NEW g \in wire, NEW q \in Replica, NEW id \in DOMAIN g \cap IdsOf[q]
                 PROVE  id \in saved'[q].exposed /\ saved'[q].causal[id] = g[id]
      BY <2>1 DEF ExposedAsSent
    <3>1. id \in saved[q].exposed /\ saved[q].causal[id] = g[id]
      BY DEF OriginInv, ExposedAsSent
    <3> QED
      BY <2>1, <3>1, SavedIsHeld
  <2> QED
    BY <2>1, <2>2 DEF OriginInv, OwnIsLocal, ForeignFrom
<1>6. ASSUME NEW r \in Replica, Becomes(r, saved[r])
      PROVE  OriginInv'
  <2>1. /\ saved' = saved /\ wire' = wire
        /\ domain'[r] = saved[r]
        /\ \A q \in Replica : q # r => domain'[q] = domain[q]
    BY <1>6 DEF Becomes, WellFormedInv
  <2>2. \A q \in Replica : ForeignFrom(q)'
    <3> SUFFICES ASSUME NEW q \in Replica, NEW id \in DOMAIN domain'[q].causal \ IdsOf[q]
                 PROVE  \E g \in wire : id \in DOMAIN g /\ g[id] = domain'[q].causal[id]
      BY <2>1 DEF ForeignFrom
    <3>1. id \in DOMAIN domain[q].causal /\ domain'[q].causal[id] = domain[q].causal[id]
      BY <2>1 DEF HistoryInv, Extended
    <3> QED
      BY <3>1 DEF OriginInv, ForeignFrom
  <2>3. \A g \in wire' : ExposedAsSent(g)'
    BY <2>1 DEF OriginInv, ExposedAsSent
  <2>4. \A q \in Replica : OwnIsLocal(q, domain[q])' /\ OwnIsLocal(q, saved[q])'
    BY <2>1 DEF OriginInv, OwnIsLocal
  <2> QED
    BY <2>1, <2>2, <2>3, <2>4 DEF OriginInv
<1> QED
  BY <1>1, <1>2, <1>3, <1>4, <1>5, <1>6 DEF StepSummary

\* OriginInv holds of every reachable state.
LEMMA OriginAlways ==
    ASSUME SeparateIdentities
    PROVE  Spec => []OriginInv
<1>1. Init => OriginInv
  <2> DEFINE d == FromCausal(EmptyRegister)
  <2>1. DOMAIN d.causal = {}
    BY EmptyRegisterValid DEF FromCausal
  <2> HIDE DEF d
  <2>2. Init => /\ wire = {}
                /\ \A r \in Replica : domain[r] = d /\ saved[r] = d
    BY DEF Init, d
  <2> QED
    BY <2>1, <2>2 DEF OriginInv, OwnIsLocal, ForeignFrom
<1>2. WellFormedInv /\ LedgerInv /\ HistoryInv /\ OriginInv /\ [Next]_vars => OriginInv'
  BY OriginInvStep
<1> QED
  BY <1>1, <1>2, WellFormedAlways, LedgerAlways, HistoryAlways, PTL DEF Spec

\* With separate identities, what is outside a replica is recorded by its
\* author's durable snapshot as exposed, with the statement that left.
THEOREM ExposureAlwaysDurable ==
    ASSUME SeparateIdentities
    PROVE  Spec => []ExposureIsDurable
<1>1. WellFormedInv /\ LedgerInv /\ HistoryInv /\ OriginInv => ExposureIsDurable
  BY SavedIsHeld DEF OriginInv, ExposedAsSent, ExposureIsDurable
<1> QED
  BY <1>1, WellFormedAlways, LedgerAlways, HistoryAlways, OriginAlways, PTL

\* With separate identities a replica registers all of its own work as local,
\* even work that a restart lost and that came back from outside.
THEOREM OwnWorkAlwaysLocal ==
    ASSUME SeparateIdentities
    PROVE  Spec => []OwnWorkIsLocal
<1>1. OriginInv => OwnWorkIsLocal
  BY DEF OriginInv, OwnIsLocal, OwnWorkIsLocal
<1> QED
  BY <1>1, OriginAlways, PTL

\* With separate identities one identity has one statement wherever it is seen
\* outside its replica, although lost identities may be minted again.
THEOREM OneStatementAlways ==
    ASSUME SeparateIdentities
    PROVE  Spec => []OneStatementPerId
<1>1. WellFormedInv /\ LedgerInv /\ HistoryInv /\ OriginInv => OneStatementPerId
  <2> SUFFICES ASSUME WellFormedInv, LedgerInv, HistoryInv, OriginInv,
                      NEW a \in wire \cup {domain[r].causal : r \in Replica}, NEW b \in wire
               PROVE  Compatible(a, b)
    BY DEF OneStatementPerId
  <2>1. CASE a \in wire
    BY <2>1 DEF OriginInv, ExposedAsSent, Compatible
  <2>2. ASSUME NEW r \in Replica, a = domain[r].causal
        PROVE  Compatible(a, b)
    BY <2>2, LiveAgreesWithWire
  <2> QED
    BY <2>1, <2>2
<1> QED
  BY <1>1, WellFormedAlways, LedgerAlways, HistoryAlways, OriginAlways, PTL

\* With separate identities every replica can observe whatever left any of
\* them, in its live domain and in the one a restart rebuilds, once its dirty
\* work has an identity to be sealed under.
THEOREM MergeAlwaysAccepted ==
    ASSUME SeparateIdentities
    PROVE  Spec => []MergeNeverRefused
<1>1. WellFormedInv /\ LedgerInv /\ HistoryInv /\ OriginInv => MergeNeverRefused
  <2> SUFFICES ASSUME WellFormedInv, LedgerInv, HistoryInv, OriginInv,
                      NEW r \in Replica, NEW g \in wire, NEW pre \in OptionalId(r),
                      NEW d \in {domain[r], saved[r]},
                      (d.pending = NoEpoch) <=> (pre = {}),
                      \A id \in pre : CanSeal(d, id)
               PROVE  CanObserveRemote(d, g, pre)
    BY DEF MergeNeverRefused
  <2>1. ObserveReady(d, g, pre)
    BY DEF HistoryInv, ObserveReady
  <2> QED
    BY <2>1, ObserveIsAccepted DEF CanObserveRemote
<1> QED
  BY <1>1, WellFormedAlways, LedgerAlways, HistoryAlways, OriginAlways, PTL

=============================================================================
