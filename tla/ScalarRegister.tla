--------------------------- MODULE ScalarRegister ---------------------------
(***************************************************************************)
(* The state-based scalar register of apc-core (scalar.rs).                *)
(*                                                                         *)
(* A register is a function from the identities it holds to revisions: the *)
(* BTreeMap of ScalarRegister.  A revision names its direct causal parents *)
(* and carries a value; its identity is its key.  Nothing here has state:  *)
(* the operators say what the register's methods return, and the modules   *)
(* that do have state use them on the registers they keep.                 *)
(*                                                                         *)
(* The traversals of the code (an explicit stack, a depth-first visit) are *)
(* stated by what they compute.  ScalarAlgorithms.tla holds the traversals *)
(* themselves and TLC compares the two.                                    *)
(***************************************************************************)
EXTENDS Integers

CONSTANTS
    RevisionId,   \* revision identities, in their canonical byte order
    Value         \* the values a scalar may hold

ASSUME RevisionIdAssumption == RevisionId \subseteq Nat

Revision == [value : Value, parents : SUBSET RevisionId]

Registers == UNION { [S -> Revision] : S \in SUBSET RevisionId }

\* ScalarRegister::default
EmptyRegister == [id \in {} |-> [value |-> CHOOSE v \in Value : TRUE, parents |-> {}]]

-----------------------------------------------------------------------------
(* Validity *)

\* No revision names a parent that the register does not hold.
ParentsPresent(reg) ==
    \A id \in DOMAIN reg : reg[id].parents \subseteq DOMAIN reg

\* No causal cycle.  A finite parent relation has none exactly when every
\* non-empty set of revisions has a member with no parent in the set.
Acyclic(reg) ==
    \A S \in SUBSET DOMAIN reg :
        S # {} => { id \in S : reg[id].parents \cap S = {} } # {}

\* ScalarRegister::validate
Valid(reg) == ParentsPresent(reg) /\ Acyclic(reg)

-----------------------------------------------------------------------------
(* Causal structure *)

\* ScalarRegister::frontier_ids: the causally maximal identities.  The code
\* walks to every ancestor; removing the direct parents removes the same set,
\* because every ancestor is a direct parent of some held revision.
FrontierIds(reg) ==
    { id \in DOMAIN reg : \A other \in DOMAIN reg : id \notin reg[other].parents }

IsParentClosed(reg, S) == \A id \in S : reg[id].parents \subseteq S

\* The transitive dependency closure of a set of held identities: the least
\* parent-closed set that contains it.
DependencyClosure(reg, ids) ==
    { id \in DOMAIN reg :
        \A S \in SUBSET DOMAIN reg :
            (ids \subseteq S /\ IsParentClosed(reg, S)) => id \in S }

\* ScalarRegister::is_ancestor, strict.
IsAncestor(reg, ancestor, descendant) ==
    /\ descendant \in DOMAIN reg
    /\ ancestor \in DependencyClosure(reg, reg[descendant].parents)

\* ScalarRegister::materialized_revision: the largest identity of the
\* frontier.  Only asked of a register that is not empty.
MaterializedId(reg) ==
    CHOOSE id \in FrontierIds(reg) : \A other \in FrontierIds(reg) : other <= id

-----------------------------------------------------------------------------
(* Construction *)

\* ScalarRegister::insert_revision of an identity the register does not hold.
\* The code refuses it unless every parent is held (CanInsert).
CanInsert(reg, id, rev) == id \notin DOMAIN reg /\ rev.parents \subseteq DOMAIN reg

InsertRevision(reg, id, rev) ==
    [x \in DOMAIN reg \cup {id} |-> IF x = id THEN rev ELSE reg[x]]

\* The condition under which ScalarRegister::merge finds no identity that the
\* two registers use for different statements (DuplicateRevisionConflict).
Compatible(reg, other) ==
    \A id \in DOMAIN reg \cap DOMAIN other : reg[id] = other[id]

MergeUnion(reg, other) ==
    [id \in DOMAIN reg \cup DOMAIN other |->
        IF id \in DOMAIN reg THEN reg[id] ELSE other[id]]

\* ScalarRegister::merge returns Ok.
CanMerge(reg, other) == Compatible(reg, other) /\ Valid(MergeUnion(reg, other))

\* The part of a register a set of identities selects.
Restriction(reg, ids) == [id \in DOMAIN reg \cap ids |-> reg[id]]

=============================================================================
