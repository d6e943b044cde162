--------------------------- MODULE ContinuumState ---------------------------
(***************************************************************************)
(* The map of atoms and the continuum around it (apc-core: state.rs,       *)
(* merge.rs).  An atom is a scalar register, the only payload of the       *)
(* source that implements MergeState.                                      *)
(***************************************************************************)
EXTENDS ScalarRegister

\* AtomMap::new
NoAtoms == [a \in {} |-> EmptyRegister]

\* AtomMap::insert_new, which refuses an atom it holds (DuplicateAtomId).
CanInsertNew(atoms, a) == a \notin DOMAIN atoms

InsertNew(atoms, a, reg) ==
    [x \in DOMAIN atoms \cup {a} |-> IF x = a THEN reg ELSE atoms[x]]

\* ContinuumState::new
NewContinuum(c) == [continuum_id |-> c, atoms |-> NoAtoms]

\* atoms_mut().insert_new
WithAtom(state, a, reg) == [state EXCEPT !.atoms = InsertNew(@, a, reg)]

\* AtomMap::merge_state: atom by atom; the first that is refused refuses all.
CanMergeAtoms(left, right) ==
    \A a \in DOMAIN left \cap DOMAIN right : CanMerge(left[a], right[a])

\* A seeded fault: an atom that both sides hold stays as it is here.
MergeAtomsKeepingLeft(left, right) ==
    [a \in DOMAIN left \cup DOMAIN right |-> IF a \in DOMAIN left THEN left[a] ELSE right[a]]

MergeAtoms(left, right) ==
    [a \in DOMAIN left \cup DOMAIN right |->
        IF a \notin DOMAIN right THEN left[a]
        ELSE IF a \in DOMAIN left THEN MergeUnion(left[a], right[a])
        ELSE right[a]]

\* ContinuumState::merge_state: {} is an error (ContinuumMismatch, or an atom
\* that is refused), {state} the merged state.
MergeState(left, right) ==
    IF left.continuum_id = right.continuum_id /\ CanMergeAtoms(left.atoms, right.atoms)
    THEN {[left EXCEPT !.atoms = MergeAtoms(@, right.atoms)]}
    ELSE {}

\* merge_state of two results, where an error is passed on.
MergeResults(lefts, rights) == UNION { MergeState(l, r) : l \in lefts, r \in rights }

-----------------------------------------------------------------------------
(* What merge.rs asks of merge_state *)

\* The maps of valid registers over a set of atoms, and the states of the
\* continua of a set.
ValidAtoms(atomIds) ==
    UNION { [A -> { reg \in Registers : Valid(reg) }] : A \in SUBSET atomIds }

ValidStates(atomIds, continuumIds) == [continuum_id : continuumIds, atoms : ValidAtoms(atomIds)]

\* Idempotent, commutative and associative, and refused in one order exactly
\* when it is refused in the other.
ObeysMergeLaws(x, y, z) ==
    /\ MergeState(x, x) = {x}
    /\ MergeState(x, y) = MergeState(y, x)
    /\ MergeResults(MergeState(x, y), {z}) = MergeResults({x}, MergeState(y, z))

=============================================================================
