---------------------------- MODULE CoreReplicas ----------------------------
(***************************************************************************)
(* Replicas that each own a LocalScalarDomain, save snapshots of it, lose  *)
(* what they did not save, and exchange exported registers.                *)
(*                                                                         *)
(* The module asks of apc-core alone what every layer above relies on: is  *)
(* a saved snapshot always one that restore accepts, does a revision claim *)
(* exactly what its author had seen, and is what left the replica frozen.  *)
(* How snapshots and exports travel is left open: a snapshot may be saved  *)
(* at any time and an export delivered at any time, any number of times,   *)
(* in any order, or never.                                                 *)
(***************************************************************************)
EXTENDS LocalScalarDomain

CONSTANTS
    Replica,
    IdsOf         \* IdsOf[r]: the revision identities r's caller may mint

ASSUME IdsOfAssumption == IdsOf \in [Replica -> SUBSET RevisionId]

VARIABLES
    domain,       \* domain[r]: the live LocalScalarDomain of r
    saved,        \* saved[r]: the snapshot r finds when it restarts
    wire          \* the registers that have left some replica

vars == <<domain, saved, wire>>

Init ==
    /\ domain = [r \in Replica |-> FromCausal(EmptyRegister)]
    /\ saved = [r \in Replica |-> FromCausal(EmptyRegister)]
    /\ wire = {}

\* One method call of r that leaves the live domain at d.
Becomes(r, d) ==
    /\ domain' = [domain EXCEPT ![r] = d]
    /\ UNCHANGED <<saved, wire>>

Begin(r, value) ==
    /\ CanBeginEpoch(domain[r])
    /\ Becomes(r, BeginEpoch(domain[r], value))

Update(r, value) ==
    /\ CanUpdatePending(domain[r])
    /\ Becomes(r, UpdatePending(domain[r], value))

SealWork(r, id) ==
    /\ CanSeal(domain[r], id)
    /\ Becomes(r, SealLocal(domain[r], id))

Observe(r, remote, pre) ==
    /\ CanObserveRemote(domain[r], remote, pre)
    /\ Becomes(r, ObserveRemote(domain[r], remote, pre))

\* observe_remote returns an error from the merge.
ObserveRefused(r, remote, pre) ==
    /\ ObserveReady(domain[r], remote, pre)
    /\ ~CanMerge(BeforeMerge(domain[r], pre).causal, remote)
    /\ Becomes(r, ObserveRemoteFailed(domain[r], remote, pre))

Freeze(r, id) ==
    /\ CanFinalize(domain[r], id)
    /\ Becomes(r, Finalize(domain[r], id))

HandOff(r, ids) ==
    /\ CanHandoff(domain[r], ids)
    /\ Becomes(r, Handoff(domain[r], ids))

\* LocalScalarDomain::snapshot, made durable.
Save(r) ==
    /\ saved' = [saved EXCEPT ![r] = domain[r]]
    /\ UNCHANGED <<domain, wire>>

\* A seeded fault: bytes leave before the handoff is durable.
SendUnsaved(r, ids) ==
    /\ ids \subseteq domain[r].handed_off
    /\ wire' = wire \cup {ExportedRegister(domain[r], ids)}
    /\ UNCHANGED <<domain, saved>>

\* Bytes leave only for revisions whose handoff is already in the durable
\* snapshot: publication.rs commits exposure and bytes before it publishes.
Send(r, ids) ==
    /\ ids \subseteq saved[r].handed_off
    /\ wire' = wire \cup {ExportedRegister(saved[r], ids)}
    /\ UNCHANGED <<domain, saved>>

\* The process ends and LocalScalarDomain::restore rebuilds the domain.
Restart(r) ==
    /\ Restorable(saved[r])
    /\ Becomes(r, saved[r])

OptionalId(r) == {{}} \cup {{id} : id \in IdsOf[r]}

Next ==
    \E r \in Replica :
        \/ \E v \in Value : Begin(r, v) \/ Update(r, v)
        \/ \E id \in IdsOf[r] : SealWork(r, id)
        \/ \E remote \in wire, pre \in OptionalId(r) :
              Observe(r, remote, pre) \/ ObserveRefused(r, remote, pre)
        \/ \E id \in domain[r].local : Freeze(r, id)
        \/ \E ids \in SUBSET DOMAIN domain[r].causal : HandOff(r, ids)
        \/ \E ids \in SUBSET domain[r].handed_off : ids # {} /\ Send(r, ids)
        \/ Save(r)
        \/ Restart(r)

Spec == Init /\ [][Next]_vars

-----------------------------------------------------------------------------
(* Properties *)

\* Every variable keeps its shape: domains and snapshots are LocalScalarDomain
\* values, and the wire holds registers.
TypeOK ==
    /\ domain \in [Replica -> Domains]
    /\ saved \in [Replica -> Domains]
    /\ wire \subseteq Registers

\* Whatever a caller does and whenever it saves, LocalScalarDomain::restore
\* accepts the snapshot.  In particular a pending epoch's observed frontier is
\* still the frontier of its register, since observe_remote seals dirty work
\* before it merges (working.rs).
RestoreAccepts ==
    \A r \in Replica : Restorable(domain[r]) /\ Restorable(saved[r])

\* What a pending epoch claims to have observed is the whole register: a
\* revision sealed from it dominates everything its author saw and nothing
\* that arrived later (WorkingScalar::begin_epoch, seal, observe_remote).
EpochDominatesObserved ==
    \A r \in Replica :
        domain[r].pending # NoEpoch =>
            DependencyClosure(domain[r].causal, domain[r].pending.observed_frontier)
                = DOMAIN domain[r].causal

\* Exposure is closed under history: the local ancestors of an exposed
\* revision are exposed too, and all of them are frozen (handoff).
ExposedHistoryFrozen ==
    \A r \in Replica :
        LET d == domain[r]
            past == DependencyClosure(d.causal, d.exposed) \cap d.local
        IN  past \subseteq d.exposed \cap DOMAIN d.finalized

\* One identity never stands for two statements anywhere outside a replica,
\* although a replica that lost unsaved work may mint a lost identity again.
OneStatementPerId ==
    \A a \in wire \cup {domain[r].causal : r \in Replica}, b \in wire : Compatible(a, b)

\* Whatever left a replica, every replica can observe it, now and after a
\* restart: observe_remote needs a free seal identity for dirty work and nothing
\* else.  The register that arrives is whole, and neither what the receiver holds
\* nor the revision it seals first, under an identity that a lost process may
\* have used before, contradicts it (domain.rs, scalar.rs: merge).
MergeNeverRefused ==
    \A r \in Replica, remote \in wire :
        \A pre \in OptionalId(r), d \in {domain[r], saved[r]} :
            ( /\ (d.pending = NoEpoch) <=> (pre = {})
              /\ \A id \in pre : CanSeal(d, id) ) =>
            CanObserveRemote(d, remote, pre)

\* A revision that is outside its author's replica is recorded there as
\* exposed, with the very statement that left, in the snapshot that a restart
\* would find (finalization.rs: exposure begins at handoff).
ExposureIsDurable ==
    \A r \in Replica, g \in wire :
        \A id \in DOMAIN g \cap IdsOf[r] :
            /\ id \in saved[r].exposed
            /\ id \in DOMAIN saved[r].finalized
            /\ saved[r].finalized[id] = g[id]

\* A replica always knows its own work: a revision with one of its identities,
\* even one that comes back from outside after a restart, is registered local.
OwnWorkIsLocal ==
    \A r \in Replica : DOMAIN domain[r].causal \cap IdsOf[r] \subseteq domain[r].local

\* Observing, sealing or saving never un-exposes a revision or rewrites a
\* frozen statement, and neither does a restart: what the durable snapshot
\* says of an exposed revision it says forever.
ExposureIsForever ==
    [][\A r \in Replica : \A id \in saved[r].exposed :
          /\ id \in saved'[r].exposed
          /\ saved'[r].finalized[id] = saved[r].finalized[id]]_vars

\* What domain.rs says of observe_remote: dirty work that a call seals is
\* registered as local before the call returns.
SealedWorkIsRegistered ==
    [][\A r \in Replica :
          ( /\ domain[r].pending # NoEpoch
            /\ domain'[r].pending = NoEpoch
            /\ DOMAIN domain[r].causal # DOMAIN domain'[r].causal
            /\ DOMAIN domain[r].causal \subseteq DOMAIN domain'[r].causal ) =>
          \E id \in domain'[r].local : id \notin DOMAIN domain[r].causal]_vars

=============================================================================
