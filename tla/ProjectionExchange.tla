------------------------- MODULE ProjectionExchange -------------------------
(***************************************************************************)
(* A replica that publishes from a DirtyDomainState (projection.rs) and    *)
(* imports what its MultipartInbox completes, as apc-sync's process worker *)
(* does.  The local side edits a domain at any time, exports the dirty     *)
(* ones, and learns later, or never, that the export was accepted.  A      *)
(* projection that the inbox completed may be imported at any time, and    *)
(* again.                                                                  *)
(*                                                                         *)
(* The state of a domain is a set of <<identity, statement>> pairs, as in  *)
(* MultipartInbox.tla; every identity belongs to one domain.               *)
(***************************************************************************)
EXTENDS MultipartInbox, Sequences

CONSTANTS
    Keys,             \* the domain keys in their order, as a sequence
    KeyOf,            \* the domain of each identity
    Edits,            \* the statements this replica may make
    Baseline,         \* what it starts with
    MaxExports        \* bound: exports

ASSUME ExchangeAssumption ==
    /\ Keys \in Seq(Range(Keys))
    /\ \A id \in DOMAIN KeyOf : KeyOf[id] \in Range(Keys)
    /\ \A x \in Edits \cup Baseline : x[1] \in DOMAIN KeyOf
    /\ \A o \in Wire : \A x \in o.projection : x[1] \in DOMAIN KeyOf
    /\ Consistent(Baseline)
    /\ MaxExports \in Nat

VARIABLES
    domains,          \* DirtyDomainState.domains
    dirty,            \* DirtyDomainState.dirty
    exported,         \* exports whose acknowledgement is open
    exports,          \* the number of exports so far
    own,              \* the statements made here
    acknowledged,     \* the statements of all acknowledged exports
    imported,         \* the projections whose import returned Ok
    refused           \* and those whose import did not

exchange == <<domains, dirty, exported, exports, own, acknowledged, imported, refused>>

\* The domain states a projection carries, key by key.
DomainsOf(projection) ==
    [k \in { KeyOf[x[1]] : x \in projection } |-> { x \in projection : KeyOf[x[1]] = k }]

\* A new state with the baseline imported.
ExchangeInit ==
    /\ Init
    /\ domains = DomainsOf(Baseline)
    /\ dirty = {}
    /\ exported = {} /\ exports = 0
    /\ own = {} /\ acknowledged = {}
    /\ imported = {} /\ refused = {}

-----------------------------------------------------------------------------
(* The local side *)

StateOf(k) == IF k \in DOMAIN domains THEN domains[k] ELSE {}

SetDomain(k, state) ==
    [x \in DOMAIN domains \cup {k} |-> IF x = k THEN state ELSE domains[x]]

\* locally_edit: a revision is assigned to the domain's register, which is
\* refused for an identity it holds, and the register is put back by set_local.
LocallyEdit(x) ==
    LET k == KeyOf[x[1]]
    IN  /\ \A y \in StateOf(k) : y[1] # x[1]
        /\ domains' = SetDomain(k, StateOf(k) \cup {x})
        /\ dirty' = dirty \cup {k}
        /\ own' = own \cup {x}
        /\ UNCHANGED <<vars, exported, exports, acknowledged, imported, refused>>

\* export_dirty, then sealed and handed to the transport (emit).
ExportDirty ==
    /\ dirty # {}
    /\ exports < MaxExports
    /\ exports' = exports + 1
    /\ exported' = exported \cup {[k \in dirty |-> domains[k]]}
    /\ UNCHANGED <<vars, domains, dirty, own, acknowledged, imported, refused>>

\* A seeded fault: what was exported is clean.
AcknowledgedKeysAll(e) == DOMAIN e

\* The keys whose state is still the acknowledged one.
AcknowledgedKeys(e) == { k \in DOMAIN e : StateOf(k) = e[k] }

\* acknowledge
Acknowledge(e) ==
    /\ dirty' = dirty \ AcknowledgedKeys(e)
    /\ exported' = exported \ {e}
    /\ acknowledged' = acknowledged \cup UNION Range(e)
    /\ UNCHANGED <<vars, domains, exports, own, imported, refused>>

\* The export did not get through, or nobody learns whether it did.
ExportLost(e) ==
    /\ exported' = exported \ {e}
    /\ UNCHANGED <<vars, domains, dirty, exports, own, acknowledged, imported, refused>>

-----------------------------------------------------------------------------
(* The remote side *)

\* The places, in the order of the keys, at which the merge is refused.
RefusedAt(incoming) ==
    { i \in DOMAIN Keys :
        Keys[i] \in DOMAIN incoming /\ ~Consistent(StateOf(Keys[i]) \cup incoming[Keys[i]]) }

\* The keys merged before the first that is refused.
MergedKeys(incoming) ==
    { Keys[i] : i \in { j \in DOMAIN Keys :
        Keys[j] \in DOMAIN incoming /\ \A r \in RefusedAt(incoming) : j < r } }

\* A seeded fault: an incoming state replaces what is there.
ImportReplacing(incoming) ==
    [k \in DOMAIN domains \cup MergedKeys(incoming) |->
        IF k \in MergedKeys(incoming) THEN incoming[k] ELSE domains[k]]

\* The domains import_projection leaves, also when it returns an error.
ImportInto(incoming) ==
    [k \in DOMAIN domains \cup MergedKeys(incoming) |->
        IF k \in MergedKeys(incoming) THEN StateOf(k) \cup incoming[k] ELSE domains[k]]

\* import_projection returns Ok.
ImportProjection(projection) ==
    /\ RefusedAt(DomainsOf(projection)) = {}
    /\ domains' = ImportInto(DomainsOf(projection))
    /\ imported' = imported \cup {projection}
    /\ UNCHANGED <<vars, dirty, exported, exports, own, acknowledged, refused>>

\* It stops at the first domain that is refused and returns the error.
ImportStopped(projection) ==
    /\ RefusedAt(DomainsOf(projection)) # {}
    /\ domains' = ImportInto(DomainsOf(projection))
    /\ refused' = refused \cup {projection}
    /\ UNCHANGED <<vars, dirty, exported, exports, own, acknowledged, imported>>

ExchangeNext ==
    \/ Next /\ UNCHANGED exchange
    \/ \E x \in Edits : LocallyEdit(x)
    \/ ExportDirty
    \/ \E e \in exported : Acknowledge(e) \/ ExportLost(e)
    \/ \E c \in completed : ImportProjection(c.projection) \/ ImportStopped(c.projection)

ExchangeSpec == ExchangeInit /\ [][ExchangeNext]_<<vars, exchange>>

-----------------------------------------------------------------------------
(* Properties *)

\* The publication work is exactly known: a domain that is not dirty has
\* nothing of this replica's own that no acknowledged export carried, whatever
\* was edited or imported between the export and its acknowledgement and
\* whichever of several exports is acknowledged; and a domain is dirty only if
\* something was made there (DirtyDomainState::acknowledge, set_local).
CleanIsPublished ==
    /\ \A x \in own : KeyOf[x[1]] \notin dirty => x \in acknowledged
    /\ \A k \in dirty : \E x \in own : KeyOf[x[1]] = k

\* Imports last.  What was made here or imported as a whole stays in the
\* domains, through later imports that stop half-way and through repeated ones;
\* and a projection that was refused once is refused for good, so that its
\* import never turns from half done to done without its conflict being
\* resolved (DirtyDomainState::import_projection).
ImportsLast ==
    LET held == UNION Range(domains)
    IN  /\ own \subseteq held
        /\ \A projection \in imported : projection \subseteq held
        /\ \A projection \in refused : ~Consistent(held \cup projection)
        /\ Consistent(held)

=============================================================================
