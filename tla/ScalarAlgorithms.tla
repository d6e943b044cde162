-------------------------- MODULE ScalarAlgorithms --------------------------
(***************************************************************************)
(* The traversals of scalar.rs and finalization.rs as the code runs them:  *)
(* explicit stacks with a set of identities already met, and a depth-first *)
(* visit with "visiting" and "complete" sets.  TLC compares them with what *)
(* ScalarRegister.tla says they compute, on every map of revisions that    *)
(* from_revisions can collect: valid ones, ones with missing parents, and  *)
(* cyclic ones.                                                            *)
(***************************************************************************)
EXTENDS ScalarRegister, Sequences, SequencesExt

VARIABLE revisions          \* the map from_revisions has collected so far

Init == revisions = EmptyRegister

\* One revision of from_revisions' input.  One with an identity it already
\* holds is skipped when equal and refused otherwise.
Collect(id, rev) ==
    /\ id \notin DOMAIN revisions
    /\ revisions' = InsertRevision(revisions, id, rev)

Next == \E id \in RevisionId, rev \in Revision : Collect(id, rev)

Spec == Init /\ [][Next]_revisions

-----------------------------------------------------------------------------
(* The traversals *)

\* A BTreeSet as it is pushed on a stack: ascending, the last on top.
Ascending(S) == SetToSortSeq(S, <)

\* The parents of a revision, if the map holds it.
ParentsOf(reg, id) == IF id \in DOMAIN reg THEN reg[id].parents ELSE {}

\* A seeded fault: what is pushed is marked as met before it is popped.
RECURSIVE DrainMarkingEarly(_, _, _)
DrainMarkingEarly(reg, stack, met) ==
    IF stack = <<>> THEN met
    ELSE LET id == Last(stack)
             rest == Front(stack)
             parents == ParentsOf(reg, id)
         IN  IF id \in met THEN DrainMarkingEarly(reg, rest, met)
             ELSE DrainMarkingEarly(reg, rest \o Ascending(parents), met \cup {id} \cup parents)

\* "while let Some(id) = stack.pop()": the set of identities met at the end.
RECURSIVE Drain(_, _, _)
Drain(reg, stack, met) ==
    IF stack = <<>> THEN met
    ELSE LET id == Last(stack)
             rest == Front(stack)
         IN  IF id \in met THEN Drain(reg, rest, met)
             ELSE Drain(reg, rest \o Ascending(ParentsOf(reg, id)), met \cup {id})

\* A seeded fault: a walk starts at the revision, not at its parents.
FrontierWalkFromSelf(reg) ==
    DOMAIN reg \ FoldLeft(LAMBDA met, id : Drain(reg, <<id>>, met), {},
                          Ascending({ id \in DOMAIN reg : reg[id].parents # {} }))

\* frontier_ids: one "dominated" set for the walks from all revisions.
FrontierWalk(reg) ==
    DOMAIN reg \ FoldLeft(LAMBDA met, id : Drain(reg, Ascending(reg[id].parents), met),
                          {}, Ascending(DOMAIN reg))

\* handoff and dependency_closure.
ClosureWalk(reg, ids) == Drain(reg, Ascending(ids), {})

\* is_ancestor.
AncestorWalk(reg, ancestor, descendant) ==
    /\ descendant \in DOMAIN reg
    /\ ancestor \in Drain(reg, Ascending(reg[descendant].parents), {})

\* visit_for_cycle: the sets it leaves and whether it met a cycle.
RECURSIVE VisitForCycle(_, _, _)
VisitForCycle(reg, id, v) ==
    IF v.cycle \/ id \in v.complete THEN v
    ELSE IF id \in v.visiting THEN [v EXCEPT !.cycle = TRUE]
    ELSE LET after == FoldLeft(LAMBDA w, parent : VisitForCycle(reg, parent, w),
                               [v EXCEPT !.visiting = @ \cup {id}],
                               Ascending(ParentsOf(reg, id)))
         IN  IF after.cycle THEN after
             ELSE [after EXCEPT !.visiting = @ \ {id}, !.complete = @ \cup {id}]

Unvisited == [visiting |-> {}, complete |-> {}, cycle |-> FALSE]

\* A seeded fault: the visit starts at the maximal revisions only, which a
\* cycle that nothing else reaches does not have.
ValidateFromFrontier(reg) ==
    /\ ParentsPresent(reg)
    /\ ~FoldLeft(LAMBDA v, id : VisitForCycle(reg, id, v), Unvisited,
                 Ascending(FrontierWalk(reg))).cycle

\* validate.
Validate(reg) ==
    /\ ParentsPresent(reg)
    /\ ~FoldLeft(LAMBDA v, id : VisitForCycle(reg, id, v), Unvisited,
                 Ascending(DOMAIN reg)).cycle

-----------------------------------------------------------------------------
(* Properties *)

\* validate accepts exactly the maps with all parents and no cycle, whatever
\* order its depth-first visits run in and whatever earlier visits completed.
ValidateIsExact == Validate(revisions) <=> Valid(revisions)

\* On a valid register the shared walks of frontier_ids find exactly the
\* revisions that are nobody's parent, although a walk stops at identities an
\* earlier walk met; and the walks of handoff, dependency_closure and
\* is_ancestor find exactly the dependency closure.
WalksAreExact ==
    Valid(revisions) =>
        /\ FrontierWalk(revisions) = FrontierIds(revisions)
        /\ \A ids \in SUBSET DOMAIN revisions :
              ClosureWalk(revisions, ids) = DependencyClosure(revisions, ids)
        /\ \A a, b \in RevisionId :
              AncestorWalk(revisions, a, b) <=> IsAncestor(revisions, a, b)

=============================================================================
