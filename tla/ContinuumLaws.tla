--------------------------- MODULE ContinuumLaws ---------------------------
(***************************************************************************)
(* The merge laws on the states that devices may hold of a continuum, made *)
(* from every register that ScalarAlgorithms collects.                     *)
(***************************************************************************)
EXTENDS ScalarAlgorithms, ContinuumState, FiniteSets

CONSTANTS AtomId, ContinuumId

\* A register two devices may hold of one atom: a part of the collected
\* revisions with its history, or that part with a statement replaced.
Replicas(reg) ==
    LET parts == { Restriction(reg, S) : S \in { T \in SUBSET DOMAIN reg : IsParentClosed(reg, T) } }
    IN  parts \cup UNION { { [part EXCEPT ![id].parents = {}] : id \in DOMAIN part } : part \in parts }

\* The devices' states: the same continuum or another, and one atom or two.
ReplicaStates(reg) ==
    LET held == { r \in Replicas(reg) : Valid(r) }
    IN  { WithAtom(NewContinuum(c), a, r) : c \in ContinuumId, a \in AtomId, r \in held }
        \cup { FoldLeft(LAMBDA st, a : WithAtom(st, a, r), NewContinuum(c), Ascending(AtomId)) :
                  c \in ContinuumId, r \in held }

\* merge_state is commutative, associative and idempotent on all states, the
\* refused ones included (merge.rs asks for it "for valid states"): devices
\* that merge in another order hold the same state, or are refused alike.
MergeLaws ==
    (Valid(revisions) /\ Cardinality(DOMAIN revisions) <= 2) =>
        \A x, y, z \in ReplicaStates(revisions) : ObeysMergeLaws(x, y, z)

=============================================================================
