--------------------------- MODULE OperatorProofs ---------------------------
(***************************************************************************)
(* What the operators of apc-core do, for any set of identities: registers *)
(* (ScalarRegister), states of a continuum (ContinuumState) and local      *)
(* domains (LocalScalarDomain).  Modules whose actions call the methods of *)
(* a domain cite these lemmas instead of repeating the argument.           *)
(***************************************************************************)
EXTENDS LocalScalarDomain, ContinuumState, FiniteSetTheorems, TLAPS

-----------------------------------------------------------------------------
(* Registers *)

\* A register's domain is a set of identities and it maps each to a revision
\* (the typing of ScalarRegister's map, restated for use in proofs).
LEMMA RegisterType ==
    ASSUME NEW reg \in Registers
    PROVE  /\ DOMAIN reg \subseteq RevisionId
           /\ reg \in [DOMAIN reg -> Revision]
           /\ \A id \in DOMAIN reg : /\ reg[id] \in Revision
                                     /\ reg[id].parents \subseteq RevisionId
<1>1. PICK S \in SUBSET RevisionId : reg \in [S -> Revision]
  BY DEF Registers
<1>2. DOMAIN reg = S
  BY <1>1
<1> QED
  BY <1>1, <1>2 DEF Revision

\* Any function from a set of identities to revisions is a register.
LEMMA RegisterIntro ==
    ASSUME NEW S \in SUBSET RevisionId, NEW reg \in [S -> Revision]
    PROVE  reg \in Registers
BY DEF Registers

\* ScalarRegister::default is a register, holds nothing and validates.
LEMMA EmptyRegisterValid ==
    /\ EmptyRegister \in Registers
    /\ DOMAIN EmptyRegister = {}
    /\ Valid(EmptyRegister)
<1>1. DOMAIN EmptyRegister = {}
  BY DEF EmptyRegister
<1>2. EmptyRegister \in [{} -> Revision]
  BY DEF EmptyRegister
<1>3. EmptyRegister \in Registers
  BY <1>2, RegisterIntro
<1>4. Valid(EmptyRegister)
  BY <1>1 DEF Valid, ParentsPresent, Acyclic
<1> QED
  BY <1>1, <1>3, <1>4

\* The frontier consists of held identities (frontier_ids filters the keys).
LEMMA FrontierHeld ==
    ASSUME NEW reg
    PROVE  FrontierIds(reg) \subseteq DOMAIN reg
BY DEF FrontierIds

\* insert_revision of a new identity whose parents are held keeps a register
\* valid and changes no revision that was there.
LEMMA InsertKeepsValid ==
    ASSUME NEW reg \in Registers, NEW id \in RevisionId, NEW rev \in Revision,
           Valid(reg), CanInsert(reg, id, rev)
    PROVE  /\ InsertRevision(reg, id, rev) \in Registers
           /\ DOMAIN InsertRevision(reg, id, rev) = DOMAIN reg \cup {id}
           /\ InsertRevision(reg, id, rev)[id] = rev
           /\ \A x \in DOMAIN reg : InsertRevision(reg, id, rev)[x] = reg[x]
           /\ Valid(InsertRevision(reg, id, rev))
<1> DEFINE new == InsertRevision(reg, id, rev)
<1>1. /\ DOMAIN reg \subseteq RevisionId
      /\ \A x \in DOMAIN reg : reg[x] \in Revision
  BY RegisterType
<1>2. DOMAIN new = DOMAIN reg \cup {id}
  BY DEF InsertRevision
<1>3. /\ new[id] = rev
      /\ id \notin DOMAIN reg
      /\ rev.parents \subseteq DOMAIN reg
  BY DEF InsertRevision, CanInsert
<1>4. \A x \in DOMAIN reg : new[x] = reg[x]
  BY <1>3 DEF InsertRevision
<1>5. new \in Registers
  <2>1. new \in [DOMAIN reg \cup {id} -> Revision]
    BY <1>1 DEF InsertRevision
  <2> QED
    BY <2>1, <1>1, RegisterIntro
<1>6. ParentsPresent(new)
  BY <1>2, <1>3, <1>4 DEF ParentsPresent, Valid
<1>7. Acyclic(new)
  <2> SUFFICES ASSUME NEW S \in SUBSET DOMAIN new, S # {}
               PROVE  \E x \in S : new[x].parents \cap S = {}
    BY DEF Acyclic
  <2>1. CASE S \cap DOMAIN reg = {}
    <3>1. S = {id}
      BY <2>1, <1>2
    <3> QED
      BY <3>1, <1>3
  <2>2. CASE S \cap DOMAIN reg # {}
    <3>1. PICK x \in S \cap DOMAIN reg : reg[x].parents \cap (S \cap DOMAIN reg) = {}
      BY <2>2 DEF Valid, Acyclic
    <3>2. reg[x].parents \subseteq DOMAIN reg
      BY <3>1 DEF Valid, ParentsPresent
    <3> QED
      BY <3>1, <3>2, <1>4
  <2> QED
    BY <2>1, <2>2
<1> QED
  BY <1>2, <1>3, <1>4, <1>5, <1>6, <1>7 DEF Valid

\* The domain of a merge and what it says of every identity, when the two
\* registers agree where they overlap.
LEMMA MergeContents ==
    ASSUME NEW reg \in Registers, NEW other \in Registers, Compatible(reg, other)
    PROVE  /\ MergeUnion(reg, other) \in Registers
           /\ DOMAIN MergeUnion(reg, other) = DOMAIN reg \cup DOMAIN other
           /\ \A id \in DOMAIN reg : MergeUnion(reg, other)[id] = reg[id]
           /\ \A id \in DOMAIN other : MergeUnion(reg, other)[id] = other[id]
<1>1. /\ DOMAIN reg \subseteq RevisionId
      /\ \A x \in DOMAIN reg : reg[x] \in Revision
      /\ DOMAIN other \subseteq RevisionId
      /\ \A x \in DOMAIN other : other[x] \in Revision
  BY RegisterType
<1>2. MergeUnion(reg, other) \in [DOMAIN reg \cup DOMAIN other -> Revision]
  BY <1>1 DEF MergeUnion
<1>3. MergeUnion(reg, other) \in Registers
  BY <1>1, <1>2, RegisterIntro
<1> QED
  BY <1>3 DEF MergeUnion, Compatible

\* The validate() that ends merge never fails: two valid registers that agree
\* where they overlap have a valid union, so a duplicate identity with another
\* statement is the only error a merge of valid registers can report.
THEOREM MergeOfValidIsValid ==
    ASSUME NEW reg \in Registers, NEW other \in Registers,
           Valid(reg), Valid(other), Compatible(reg, other)
    PROVE  CanMerge(reg, other)
<1> DEFINE new == MergeUnion(reg, other)
<1>1. /\ DOMAIN new = DOMAIN reg \cup DOMAIN other
      /\ \A id \in DOMAIN reg : new[id] = reg[id]
      /\ \A id \in DOMAIN other : new[id] = other[id]
  BY MergeContents
<1>2. ParentsPresent(new)
  BY <1>1 DEF Valid, ParentsPresent
<1>3. Acyclic(new)
  <2> SUFFICES ASSUME NEW S \in SUBSET DOMAIN new, S # {}
               PROVE  \E x \in S : new[x].parents \cap S = {}
    BY DEF Acyclic
  <2>1. CASE S \cap DOMAIN reg # {}
    <3>1. PICK x \in S \cap DOMAIN reg : reg[x].parents \cap (S \cap DOMAIN reg) = {}
      BY <2>1 DEF Valid, Acyclic
    <3>2. reg[x].parents \subseteq DOMAIN reg
      BY <3>1 DEF Valid, ParentsPresent
    <3> QED
      BY <3>1, <3>2, <1>1
  <2>2. CASE S \cap DOMAIN reg = {}
    <3>1. S \subseteq DOMAIN other
      BY <2>2, <1>1
    <3>2. PICK x \in S : other[x].parents \cap S = {}
      BY <3>1 DEF Valid, Acyclic
    <3> QED
      BY <3>1, <3>2, <1>1
  <2> QED
    BY <2>1, <2>2
<1> QED
  BY <1>2, <1>3 DEF CanMerge, Valid

\* A dependency closure holds the identities it starts from and all their
\* parents, and is held by the register (the walk of handoff).
LEMMA ClosureClosed ==
    ASSUME NEW reg \in Registers, NEW ids \in SUBSET DOMAIN reg
    PROVE  /\ DependencyClosure(reg, ids) \subseteq DOMAIN reg
           /\ ids \subseteq DependencyClosure(reg, ids)
           /\ Valid(reg) => IsParentClosed(reg, DependencyClosure(reg, ids))
<1>1. Valid(reg) => IsParentClosed(reg, DependencyClosure(reg, ids))
  <2> SUFFICES ASSUME Valid(reg), NEW x \in DependencyClosure(reg, ids),
                      NEW p \in reg[x].parents
               PROVE  p \in DependencyClosure(reg, ids)
    BY DEF IsParentClosed
  <2>1. x \in DOMAIN reg
    BY DEF DependencyClosure
  <2>2. p \in DOMAIN reg
    BY <2>1 DEF Valid, ParentsPresent
  <2>3. ASSUME NEW S \in SUBSET DOMAIN reg, ids \subseteq S, IsParentClosed(reg, S)
        PROVE  p \in S
    <3>1. x \in S
      BY <2>3 DEF DependencyClosure
    <3> QED
      BY <3>1, <2>3 DEF IsParentClosed
  <2> QED
    BY <2>2, <2>3 DEF DependencyClosure
<1> QED
  BY <1>1 DEF DependencyClosure

-----------------------------------------------------------------------------
(* Finite registers.  A BTreeMap is finite, and what the frontier says of a *)
(* register depends on it.  Each lemma argues about a smallest subset.      *)

\* A family of subsets of a finite set that is not empty has a smallest member.
LEMMA MinimalSubset ==
    ASSUME NEW S, IsFiniteSet(S), NEW F \in SUBSET SUBSET S, NEW T \in F
    PROVE  \E W \in F : \A V \in F : V \subseteq W => V = W
<1>1. IsWellFoundedOn(StrictSubsetOrdering(S), SUBSET S)
  BY FS_StrictSubsetOrderingWellFounded, FS_FiniteSubsetsOfFinite
<1>2. PICK W \in F : \A V \in F : ~(<<V, W>> \in StrictSubsetOrdering(S))
  BY <1>1, WFMin
<1>3. ASSUME NEW V \in F, V \subseteq W, V # W
      PROVE  FALSE
  <2>1. <<V, W>> \in (SUBSET S) \X (SUBSET S)
    BY <1>2
  <2>2. <<V, W>> \in StrictSubsetOrdering(S)
    BY <1>3, <2>1 DEF StrictSubsetOrdering
  <2> QED
    BY <1>2, <2>2
<1> QED
  BY <1>2, <1>3

\* Every revision of a finite valid register is a maximal one or an ancestor
\* of one: a set that holds the frontier and the parents of its members holds
\* the register.  This is what makes the frontier a summary of everything that
\* was seen (WorkingScalar::begin_epoch).
LEMMA FrontierCovers ==
    ASSUME NEW reg \in Registers, Valid(reg), IsFiniteSet(DOMAIN reg)
    PROVE  DependencyClosure(reg, FrontierIds(reg)) = DOMAIN reg
<1> SUFFICES ASSUME NEW S \in SUBSET DOMAIN reg, FrontierIds(reg) \subseteq S,
                    IsParentClosed(reg, S), NEW id \in DOMAIN reg, id \notin S
             PROVE  FALSE
  BY DEF DependencyClosure
<1> DEFINE HasChild(W) == \A x \in W : \E c \in W : x \in reg[c].parents
           F == { W \in SUBSET DOMAIN reg : W # {} /\ HasChild(W) }
<1>1. DOMAIN reg \ S \in F
  <2>1. ASSUME NEW x \in DOMAIN reg \ S
        PROVE  \E c \in DOMAIN reg \ S : x \in reg[c].parents
    BY <2>1 DEF FrontierIds, IsParentClosed
  <2> QED
    BY <2>1
<1>2. PICK W \in F : \A V \in F : V \subseteq W => V = W
  <2>1. F \in SUBSET SUBSET DOMAIN reg
    OBVIOUS
  <2> HIDE DEF F
  <2> QED
    BY <1>1, <2>1, MinimalSubset
<1>3. PICK x \in W : reg[x].parents \cap W = {}
  BY <1>2 DEF Valid, Acyclic
<1>4. HasChild(W \ {x})
  BY <1>2, <1>3
<1>5. W \ {x} # {}
  BY <1>2, <1>3
<1>6. W \ {x} \in F
  BY <1>2, <1>4, <1>5
<1> QED
  BY <1>2, <1>3, <1>6

-----------------------------------------------------------------------------
(* Closures *)

\* The dependency closure is the least parent-closed set with its identities.
LEMMA ClosureLeast ==
    ASSUME NEW reg, NEW ids, NEW S \in SUBSET DOMAIN reg,
           ids \subseteq S, IsParentClosed(reg, S)
    PROVE  DependencyClosure(reg, ids) \subseteq S
BY DEF DependencyClosure

\* The larger register holds every revision of the smaller one unchanged: what
\* insert_revision and merge do to a register.
Extended(reg, new) ==
    /\ DOMAIN reg \subseteq DOMAIN new
    /\ \A id \in DOMAIN reg : new[id] = reg[id]

\* Growing a valid register adds nothing to the history of what it held.
LEMMA ClosureInExtension ==
    ASSUME NEW reg \in Registers, NEW new, Valid(reg), Extended(reg, new),
           NEW ids \in SUBSET DOMAIN reg
    PROVE  DependencyClosure(new, ids) = DependencyClosure(reg, ids)
<1> DEFINE C == DependencyClosure(reg, ids)
<1>1. /\ C \subseteq DOMAIN reg
      /\ ids \subseteq C
      /\ IsParentClosed(reg, C)
  BY ClosureClosed
<1>2. DependencyClosure(new, ids) \subseteq C
  <2>1. C \subseteq DOMAIN new /\ IsParentClosed(new, C)
    BY <1>1 DEF Extended, IsParentClosed
  <2> QED
    BY <1>1, <2>1, ClosureLeast
<1>3. ASSUME NEW x \in C
      PROVE  x \in DependencyClosure(new, ids)
  <2>1. x \in DOMAIN new
    BY <1>1 DEF Extended
  <2>2. ASSUME NEW S \in SUBSET DOMAIN new, ids \subseteq S, IsParentClosed(new, S)
        PROVE  x \in S
    <3> DEFINE T == S \cap DOMAIN reg
    <3>1. T \in SUBSET DOMAIN reg /\ ids \subseteq T
      BY <2>2
    <3>2. IsParentClosed(reg, T)
      BY <2>2 DEF IsParentClosed, Extended, Valid, ParentsPresent
    <3>3. C \subseteq T
      BY <3>1, <3>2, ClosureLeast
    <3> QED
      BY <3>3
  <2> QED
    BY <2>1, <2>2 DEF DependencyClosure
<1> QED
  BY <1>2, <1>3

\* The part of a valid register that a closure selects is valid, and the
\* history of its identities is the same in the part (a publication carries
\* its whole dependency closure).
LEMMA ClosureRestriction ==
    ASSUME NEW reg \in Registers, Valid(reg), NEW ids \in SUBSET DOMAIN reg
    PROVE  /\ Restriction(reg, DependencyClosure(reg, ids)) \in Registers
           /\ DOMAIN Restriction(reg, DependencyClosure(reg, ids)) = DependencyClosure(reg, ids)
           /\ Extended(Restriction(reg, DependencyClosure(reg, ids)), reg)
           /\ Valid(Restriction(reg, DependencyClosure(reg, ids)))
<1> DEFINE C == DependencyClosure(reg, ids)
           part == Restriction(reg, C)
<1>1. C \subseteq DOMAIN reg /\ IsParentClosed(reg, C)
  BY ClosureClosed
<1>2. DOMAIN part = C /\ \A id \in C : part[id] = reg[id]
  BY <1>1 DEF Restriction
<1>3. part \in Registers
  <2>1. DOMAIN reg \subseteq RevisionId /\ \A x \in DOMAIN reg : reg[x] \in Revision
    BY RegisterType
  <2>2. part \in [DOMAIN reg \cap C -> Revision]
    BY <2>1 DEF Restriction
  <2>3. DOMAIN reg \cap C \in SUBSET RevisionId
    BY <2>1
  <2> HIDE DEF part, C
  <2> QED
    BY <2>2, <2>3, RegisterIntro
<1>4. Extended(part, reg)
  BY <1>1, <1>2 DEF Extended
<1>5. ParentsPresent(part)
  BY <1>1, <1>2 DEF ParentsPresent, IsParentClosed
<1>6. Acyclic(part)
  <2> SUFFICES ASSUME NEW S \in SUBSET C, S # {}
               PROVE  \E x \in S : part[x].parents \cap S = {}
    BY <1>2 DEF Acyclic
  <2>1. PICK x \in S : reg[x].parents \cap S = {}
    BY <1>1 DEF Valid, Acyclic
  <2> QED
    BY <1>2, <2>1
<1> QED
  BY <1>2, <1>3, <1>4, <1>5, <1>6 DEF Valid

-----------------------------------------------------------------------------
(* States of a continuum *)

\* A map of atoms holds, at each atom, a register that validates.
LEMMA AtomsType ==
    ASSUME NEW ids, NEW m \in ValidAtoms(ids)
    PROVE  /\ m = [a \in DOMAIN m |-> m[a]]
           /\ \A a \in DOMAIN m : m[a] \in Registers /\ Valid(m[a])
BY DEF ValidAtoms

\* A register is the map of what it holds.
LEMMA RegisterIsFunction ==
    ASSUME NEW reg \in Registers
    PROVE  reg = [id \in DOMAIN reg |-> reg[id]]
BY DEF Registers

\* For valid registers, merge reports conflicting statements and nothing else.
LEMMA CanMergeIffCompatible ==
    ASSUME NEW reg \in Registers, NEW other \in Registers, Valid(reg), Valid(other)
    PROVE  CanMerge(reg, other) <=> Compatible(reg, other)
BY MergeOfValidIsValid DEF CanMerge

\* A valid register merges with itself and stays as it is.
LEMMA RegisterMergeIdempotent ==
    ASSUME NEW reg \in Registers, Valid(reg)
    PROVE  CanMerge(reg, reg) /\ MergeUnion(reg, reg) = reg
<1>1. CanMerge(reg, reg)
  BY CanMergeIffCompatible DEF Compatible
<1> QED
  BY <1>1, RegisterIsFunction DEF MergeUnion

\* Two valid registers merge in both orders or in neither, to one register.
LEMMA RegisterMergeCommutes ==
    ASSUME NEW reg \in Registers, NEW other \in Registers, Valid(reg), Valid(other)
    PROVE  /\ CanMerge(reg, other) <=> CanMerge(other, reg)
           /\ CanMerge(reg, other) => MergeUnion(reg, other) = MergeUnion(other, reg)
<1>1. CanMerge(reg, other) <=> CanMerge(other, reg)
  BY CanMergeIffCompatible DEF Compatible
<1>2. ASSUME CanMerge(reg, other)
      PROVE  MergeUnion(reg, other) = MergeUnion(other, reg)
  BY <1>2 DEF MergeUnion, CanMerge, Compatible
<1> QED
  BY <1>1, <1>2

\* Three valid registers merge from the left exactly when they merge from the
\* right, to one register.
LEMMA RegisterMergeAssociates ==
    ASSUME NEW r \in Registers, NEW s \in Registers, NEW t \in Registers,
           Valid(r), Valid(s), Valid(t)
    PROVE  /\ (CanMerge(r, s) /\ CanMerge(MergeUnion(r, s), t))
                <=> (CanMerge(s, t) /\ CanMerge(r, MergeUnion(s, t)))
           /\ MergeUnion(MergeUnion(r, s), t) = MergeUnion(r, MergeUnion(s, t))
<1>1. ASSUME NEW p \in Registers, NEW q \in Registers, Compatible(p, q), Valid(p), Valid(q)
      PROVE  MergeUnion(p, q) \in Registers /\ Valid(MergeUnion(p, q))
  BY <1>1, MergeContents, MergeOfValidIsValid DEF CanMerge
<1>2. ASSUME Compatible(r, s)
      PROVE  Compatible(MergeUnion(r, s), t) <=> Compatible(r, t) /\ Compatible(s, t)
  BY <1>2 DEF Compatible, MergeUnion
<1>3. ASSUME Compatible(s, t)
      PROVE  Compatible(r, MergeUnion(s, t)) <=> Compatible(r, s) /\ Compatible(r, t)
  BY <1>3 DEF Compatible, MergeUnion
<1>4. CanMerge(r, s) /\ CanMerge(MergeUnion(r, s), t)
        <=> Compatible(r, s) /\ Compatible(r, t) /\ Compatible(s, t)
  BY <1>1, <1>2, CanMergeIffCompatible
<1>5. CanMerge(s, t) /\ CanMerge(r, MergeUnion(s, t))
        <=> Compatible(r, s) /\ Compatible(r, t) /\ Compatible(s, t)
  BY <1>1, <1>3, CanMergeIffCompatible
<1>6. MergeUnion(MergeUnion(r, s), t) = MergeUnion(r, MergeUnion(s, t))
  BY DEF MergeUnion
<1> QED
  BY <1>4, <1>5, <1>6

\* Maps with the same atoms and the same registers are one map.
LEMMA MergedAtomsEqual ==
    ASSUME NEW l1, NEW r1, NEW l2, NEW r2,
           DOMAIN l1 \cup DOMAIN r1 = DOMAIN l2 \cup DOMAIN r2,
           \A a \in DOMAIN l1 \cup DOMAIN r1 : MergeAtoms(l1, r1)[a] = MergeAtoms(l2, r2)[a]
    PROVE  MergeAtoms(l1, r1) = MergeAtoms(l2, r2)
<1>1. MergeAtoms(l1, r1) = [a \in DOMAIN l1 \cup DOMAIN r1 |-> MergeAtoms(l1, r1)[a]]
  BY DEF MergeAtoms
<1>2. MergeAtoms(l2, r2) = [a \in DOMAIN l2 \cup DOMAIN r2 |-> MergeAtoms(l2, r2)[a]]
  BY DEF MergeAtoms
<1> QED
  BY <1>1, <1>2

\* AtomMap::merge_state is idempotent.
LEMMA AtomsMergeIdempotent ==
    ASSUME NEW ids, NEW m \in ValidAtoms(ids)
    PROVE  CanMergeAtoms(m, m) /\ MergeAtoms(m, m) = m
<1>1. \A a \in DOMAIN m : CanMerge(m[a], m[a]) /\ MergeUnion(m[a], m[a]) = m[a]
  BY AtomsType, RegisterMergeIdempotent
<1>2. MergeAtoms(m, m) = [a \in DOMAIN m |-> m[a]]
  BY <1>1 DEF MergeAtoms
<1> QED
  BY <1>1, <1>2, AtomsType DEF CanMergeAtoms

\* AtomMap::merge_state is commutative, and refused alike in both orders.
LEMMA AtomsMergeCommutes ==
    ASSUME NEW ids, NEW m \in ValidAtoms(ids), NEW n \in ValidAtoms(ids)
    PROVE  /\ CanMergeAtoms(m, n) <=> CanMergeAtoms(n, m)
           /\ CanMergeAtoms(m, n) => MergeAtoms(m, n) = MergeAtoms(n, m)
<1>1. \A a \in DOMAIN m \cap DOMAIN n :
        /\ CanMerge(m[a], n[a]) <=> CanMerge(n[a], m[a])
        /\ CanMerge(m[a], n[a]) => MergeUnion(m[a], n[a]) = MergeUnion(n[a], m[a])
  BY AtomsType, RegisterMergeCommutes
<1>2. CanMergeAtoms(m, n) <=> CanMergeAtoms(n, m)
  BY <1>1 DEF CanMergeAtoms
<1>3. ASSUME CanMergeAtoms(m, n)
      PROVE  MergeAtoms(m, n) = MergeAtoms(n, m)
  <2>1. \A a \in DOMAIN m \cap DOMAIN n : MergeUnion(m[a], n[a]) = MergeUnion(n[a], m[a])
    BY <1>1, <1>3 DEF CanMergeAtoms
  <2>2. \A a \in DOMAIN m \cup DOMAIN n : MergeAtoms(m, n)[a] = MergeAtoms(n, m)[a]
    BY <2>1 DEF MergeAtoms
  <2> QED
    BY <2>2, MergedAtomsEqual
<1> QED
  BY <1>2, <1>3

\* Three maps of atoms merge from the left exactly when they merge from the
\* right, to one map.
LEMMA AtomsMergeAssociates ==
    ASSUME NEW ids, NEW l \in ValidAtoms(ids), NEW m \in ValidAtoms(ids), NEW n \in ValidAtoms(ids)
    PROVE  /\ (CanMergeAtoms(l, m) /\ CanMergeAtoms(MergeAtoms(l, m), n))
                <=> (CanMergeAtoms(m, n) /\ CanMergeAtoms(l, MergeAtoms(m, n)))
           /\ MergeAtoms(MergeAtoms(l, m), n) = MergeAtoms(l, MergeAtoms(m, n))
<1> DEFINE lm == MergeAtoms(l, m)
           mn == MergeAtoms(m, n)
<1>1. /\ DOMAIN lm = DOMAIN l \cup DOMAIN m
      /\ \A a \in DOMAIN l \ DOMAIN m : lm[a] = l[a]
      /\ \A a \in DOMAIN m \ DOMAIN l : lm[a] = m[a]
      /\ \A a \in DOMAIN l \cap DOMAIN m : lm[a] = MergeUnion(l[a], m[a])
  BY DEF MergeAtoms
<1>2. /\ DOMAIN mn = DOMAIN m \cup DOMAIN n
      /\ \A a \in DOMAIN m \ DOMAIN n : mn[a] = m[a]
      /\ \A a \in DOMAIN n \ DOMAIN m : mn[a] = n[a]
      /\ \A a \in DOMAIN m \cap DOMAIN n : mn[a] = MergeUnion(m[a], n[a])
  BY DEF MergeAtoms
<1>3. \A a \in DOMAIN l \cap DOMAIN m \cap DOMAIN n :
        /\ (CanMerge(l[a], m[a]) /\ CanMerge(MergeUnion(l[a], m[a]), n[a]))
             <=> (CanMerge(m[a], n[a]) /\ CanMerge(l[a], MergeUnion(m[a], n[a])))
        /\ MergeUnion(MergeUnion(l[a], m[a]), n[a]) = MergeUnion(l[a], MergeUnion(m[a], n[a]))
  BY AtomsType, RegisterMergeAssociates
<1>4. \A a \in DOMAIN l \cup DOMAIN m \cup DOMAIN n :
        MergeAtoms(lm, n)[a] = MergeAtoms(l, mn)[a]
  <2> HIDE DEF lm, mn
  <2> TAKE a \in DOMAIN l \cup DOMAIN m \cup DOMAIN n
  <2>1. CASE a \in DOMAIN l \cap DOMAIN m \cap DOMAIN n
    <3>1. /\ a \in DOMAIN lm \cap DOMAIN n
          /\ a \in DOMAIN l \cap DOMAIN mn
      BY <2>1, <1>1, <1>2
    <3>2. /\ MergeAtoms(lm, n)[a] = MergeUnion(lm[a], n[a])
          /\ MergeAtoms(l, mn)[a] = MergeUnion(l[a], mn[a])
      BY <3>1 DEF MergeAtoms
    <3>3. lm[a] = MergeUnion(l[a], m[a]) /\ mn[a] = MergeUnion(m[a], n[a])
      BY <2>1, <1>1, <1>2
    <3> QED
      BY <2>1, <3>2, <3>3, <1>3
  <2>2. CASE a \notin DOMAIN l
    BY <2>2, <1>1, <1>2 DEF MergeAtoms
  <2>3. CASE a \notin DOMAIN m
    BY <2>3, <1>1, <1>2 DEF MergeAtoms
  <2>4. CASE a \notin DOMAIN n
    BY <2>4, <1>1, <1>2 DEF MergeAtoms
  <2> QED
    BY <2>1, <2>2, <2>3, <2>4
<1>5. MergeAtoms(lm, n) = MergeAtoms(l, mn)
  <2> HIDE DEF lm, mn
  <2>1. /\ DOMAIN lm \cup DOMAIN n = DOMAIN l \cup DOMAIN m \cup DOMAIN n
        /\ DOMAIN l \cup DOMAIN mn = DOMAIN l \cup DOMAIN m \cup DOMAIN n
    BY <1>1, <1>2
  <2> QED
    BY <2>1, <1>4, MergedAtomsEqual
<1>6. CanMergeAtoms(l, m) /\ CanMergeAtoms(lm, n)
        <=> CanMergeAtoms(m, n) /\ CanMergeAtoms(l, mn)
  <2> HIDE DEF lm, mn
  <2> DEFINE FromLeft(a) ==
        /\ a \in DOMAIN l \cap DOMAIN m => CanMerge(l[a], m[a])
        /\ a \in DOMAIN lm \cap DOMAIN n => CanMerge(lm[a], n[a])
      FromRight(a) ==
        /\ a \in DOMAIN m \cap DOMAIN n => CanMerge(m[a], n[a])
        /\ a \in DOMAIN l \cap DOMAIN mn => CanMerge(l[a], mn[a])
  <2>1. \A a : FromLeft(a) <=> FromRight(a)
    <3> TAKE a
    <3>1. CASE a \in DOMAIN l \cap DOMAIN m \cap DOMAIN n
      <4>1. lm[a] = MergeUnion(l[a], m[a]) /\ mn[a] = MergeUnion(m[a], n[a])
        BY <3>1, <1>1, <1>2
      <4>2. a \in DOMAIN lm /\ a \in DOMAIN mn
        BY <3>1, <1>1, <1>2
      <4> QED
        BY <3>1, <4>1, <4>2, <1>3
    <3>2. CASE a \notin DOMAIN l
      BY <3>2, <1>1, <1>2
    <3>3. CASE a \notin DOMAIN m
      BY <3>3, <1>1, <1>2
    <3>4. CASE a \notin DOMAIN n
      BY <3>4, <1>1, <1>2
    <3> QED
      BY <3>1, <3>2, <3>3, <3>4
  <2>2. CanMergeAtoms(l, m) /\ CanMergeAtoms(lm, n) <=> \A a : FromLeft(a)
    BY DEF CanMergeAtoms
  <2>3. CanMergeAtoms(m, n) /\ CanMergeAtoms(l, mn) <=> \A a : FromRight(a)
    BY DEF CanMergeAtoms
  <2> QED
    BY <2>1, <2>2, <2>3
<1> QED
  BY <1>5, <1>6

\* ContinuumState::merge_state is idempotent, commutative and associative on
\* the valid states of any continua and atoms, and a merge that some atom or a
\* foreign continuum refuses is refused in every order: what merge.rs asks for.
THEOREM MergeAlwaysObeysLaws ==
    ASSUME NEW atomIds, NEW continuumIds,
           NEW x \in ValidStates(atomIds, continuumIds),
           NEW y \in ValidStates(atomIds, continuumIds),
           NEW z \in ValidStates(atomIds, continuumIds)
    PROVE  ObeysMergeLaws(x, y, z)
<1>1. /\ x.atoms \in ValidAtoms(atomIds)
      /\ y.atoms \in ValidAtoms(atomIds)
      /\ z.atoms \in ValidAtoms(atomIds)
  BY DEF ValidStates
<1>2. \A s \in ValidStates(atomIds, continuumIds) :
        s = [continuum_id |-> s.continuum_id, atoms |-> s.atoms]
  BY DEF ValidStates
<1> DEFINE State(c, m) == [continuum_id |-> c, atoms |-> m]
           Accepted(s, t) == s.continuum_id = t.continuum_id /\ CanMergeAtoms(s.atoms, t.atoms)
           Merged(s, t) == State(s.continuum_id, MergeAtoms(s.atoms, t.atoms))
<1>3. \A c1, m1, c2, m2 :
        MergeState(State(c1, m1), State(c2, m2))
          = IF c1 = c2 /\ CanMergeAtoms(m1, m2) THEN {State(c1, MergeAtoms(m1, m2))} ELSE {}
  BY DEF MergeState
<1>4. MergeState(x, x) = {x}
  <2>1. MergeState(x, x) = {State(x.continuum_id, MergeAtoms(x.atoms, x.atoms))}
    BY <1>1, <1>2, <1>3, AtomsMergeIdempotent
  <2> QED
    BY <2>1, <1>1, <1>2, AtomsMergeIdempotent
<1>5. MergeState(x, y) = MergeState(y, x)
  <2>1. x = State(x.continuum_id, x.atoms) /\ y = State(y.continuum_id, y.atoms)
    BY <1>2
  <2>2. MergeState(x, y) = IF Accepted(x, y) THEN {Merged(x, y)} ELSE {}
    BY <2>1, <1>3
  <2>3. MergeState(y, x) = IF Accepted(y, x) THEN {Merged(y, x)} ELSE {}
    BY <2>1, <1>3
  <2>4. /\ Accepted(x, y) <=> Accepted(y, x)
        /\ Accepted(x, y) => Merged(x, y) = Merged(y, x)
    BY <1>1, AtomsMergeCommutes
  <2> QED
    BY <2>2, <2>3, <2>4
<1>6. MergeResults(MergeState(x, y), {z}) = MergeResults({x}, MergeState(y, z))
  <2>1. /\ x = State(x.continuum_id, x.atoms)
        /\ y = State(y.continuum_id, y.atoms)
        /\ z = State(z.continuum_id, z.atoms)
    BY <1>2
  <2>2. MergeState(x, y) = IF Accepted(x, y) THEN {Merged(x, y)} ELSE {}
    BY <2>1, <1>3
  <2>3. MergeState(y, z) = IF Accepted(y, z) THEN {Merged(y, z)} ELSE {}
    BY <2>1, <1>3
  <2> DEFINE left == MergeAtoms(x.atoms, y.atoms)
             right == MergeAtoms(y.atoms, z.atoms)
  <2>4. MergeState(Merged(x, y), z)
          = IF x.continuum_id = z.continuum_id /\ CanMergeAtoms(left, z.atoms)
            THEN {State(x.continuum_id, MergeAtoms(left, z.atoms))} ELSE {}
    BY <2>1, <1>3
  <2>5. MergeState(x, Merged(y, z))
          = IF x.continuum_id = y.continuum_id /\ CanMergeAtoms(x.atoms, right)
            THEN {State(x.continuum_id, MergeAtoms(x.atoms, right))} ELSE {}
    BY <2>1, <1>3
  <2>6. /\ (CanMergeAtoms(x.atoms, y.atoms) /\ CanMergeAtoms(left, z.atoms))
             <=> (CanMergeAtoms(y.atoms, z.atoms) /\ CanMergeAtoms(x.atoms, right))
        /\ MergeAtoms(left, z.atoms) = MergeAtoms(x.atoms, right)
    BY <1>1, AtomsMergeAssociates
  <2> DEFINE agreed == x.continuum_id = y.continuum_id /\ y.continuum_id = z.continuum_id
                         /\ CanMergeAtoms(x.atoms, y.atoms) /\ CanMergeAtoms(left, z.atoms)
             all == {State(x.continuum_id, MergeAtoms(left, z.atoms))}
  <2>7. MergeResults(MergeState(x, y), {z}) = IF agreed THEN all ELSE {}
    <3>1. MergeResults(MergeState(x, y), {z})
            = IF Accepted(x, y) THEN MergeState(Merged(x, y), z) ELSE {}
      <4> HIDE DEF Accepted, Merged
      <4> QED
        BY <2>2 DEF MergeResults
    <3> QED
      BY <3>1, <2>4
  <2>8. MergeResults({x}, MergeState(y, z)) = IF agreed THEN all ELSE {}
    <3>1. MergeResults({x}, MergeState(y, z))
            = IF Accepted(y, z) THEN MergeState(x, Merged(y, z)) ELSE {}
      <4> HIDE DEF Accepted, Merged
      <4> QED
        BY <2>3 DEF MergeResults
    <3> QED
      BY <3>1, <2>5, <2>6
  <2> QED
    BY <2>7, <2>8
<1> QED
  BY <1>4, <1>5, <1>6 DEF ObeysMergeLaws

-----------------------------------------------------------------------------
(* Local domains.  Every method takes a well-formed domain to a well-formed *)
(* domain, where well-formed means that restore would accept its snapshot.  *)

WellFormed(d) == d \in Domains /\ Restorable(d)

\* The typing and the restore checks of a well-formed domain, field by field.
LEMMA WellFormedFields ==
    ASSUME NEW d, WellFormed(d)
    PROVE  /\ d.causal \in Registers
           /\ d.pending \in Epoch \cup {NoEpoch}
           /\ d.local \in SUBSET RevisionId
           /\ d.finalized \in Registers
           /\ d.exposed \in SUBSET RevisionId
           /\ d.handed_off \in SUBSET RevisionId
           /\ Valid(d.causal)
           /\ d.pending # NoEpoch =>
                d.pending.observed_frontier = FrontierIds(d.causal)
           /\ d.exposed \subseteq d.local
           /\ d.handed_off \subseteq d.exposed
           /\ DOMAIN d.finalized \subseteq d.local
           /\ d.local \subseteq DOMAIN d.causal
           /\ \A id \in DOMAIN d.finalized : d.finalized[id] = d.causal[id]
<1>1. d \in Domains
  BY DEF WellFormed
<1>2. Restorable(d)
  BY DEF WellFormed
<1>3. /\ d.causal \in Registers
      /\ d.pending \in Epoch \cup {NoEpoch}
      /\ d.local \in SUBSET RevisionId
      /\ d.finalized \in Registers
      /\ d.exposed \in SUBSET RevisionId
      /\ d.handed_off \in SUBSET RevisionId
  BY <1>1 DEF Domains
<1> QED
  BY <1>2, <1>3 DEF Restorable, WorkingRestorable, LedgerRestorable, ValidateAgainst

\* from_causal of a valid register is well-formed.
LEMMA FromCausalWellFormed ==
    ASSUME NEW reg \in Registers, Valid(reg)
    PROVE  WellFormed(FromCausal(reg))
<1>1. EmptyRegister \in Registers /\ DOMAIN EmptyRegister = {}
  BY EmptyRegisterValid
<1>2. FromCausal(reg) \in Domains
  BY <1>1 DEF FromCausal, Domains
<1>3. Restorable(FromCausal(reg))
  BY <1>1 DEF FromCausal, Restorable, WorkingRestorable, LedgerRestorable, ValidateAgainst
<1> QED
  BY <1>2, <1>3 DEF WellFormed

\* begin_epoch captures the current frontier, which is what restore asks for.
LEMMA BeginEpochWellFormed ==
    ASSUME NEW d, WellFormed(d), NEW value \in Value, CanBeginEpoch(d)
    PROVE  WellFormed(BeginEpoch(d, value))
<1> DEFINE e == [value |-> value, observed_frontier |-> FrontierIds(d.causal)]
           n == BeginEpoch(d, value)
<1>1. e \in Epoch
  BY WellFormedFields, RegisterType, FrontierHeld DEF Epoch
<1>2. /\ n \in Domains
      /\ n.causal = d.causal /\ n.pending = e /\ n.local = d.local
      /\ n.finalized = d.finalized /\ n.exposed = d.exposed
      /\ n.handed_off = d.handed_off
  BY <1>1 DEF WellFormed, BeginEpoch, Domains
<1>3. Restorable(n)
  BY <1>2 DEF WellFormed, Restorable, WorkingRestorable, LedgerRestorable, ValidateAgainst
<1> QED
  BY <1>2, <1>3 DEF WellFormed

\* update_pending replaces the value and leaves the causal context alone.
LEMMA UpdatePendingWellFormed ==
    ASSUME NEW d, WellFormed(d), NEW value \in Value, CanUpdatePending(d)
    PROVE  WellFormed(UpdatePending(d, value))
<1> DEFINE n == UpdatePending(d, value)
<1>1. d.pending \in Epoch
  BY WellFormedFields DEF CanUpdatePending
<1>2. /\ n.pending \in Epoch
      /\ n.pending.observed_frontier = d.pending.observed_frontier
      /\ n \in Domains
      /\ n.causal = d.causal /\ n.local = d.local
      /\ n.finalized = d.finalized /\ n.exposed = d.exposed
      /\ n.handed_off = d.handed_off
  BY <1>1 DEF WellFormed, UpdatePending, Domains, Epoch
<1>3. Restorable(n)
  BY <1>2 DEF WellFormed, Restorable, WorkingRestorable, LedgerRestorable,
              ValidateAgainst, CanUpdatePending
<1> QED
  BY <1>2, <1>3 DEF WellFormed

\* WorkingScalar::seal adds one revision, changes no other, and clears the
\* epoch; the result is well-formed even before the revision is registered.
LEMMA SealWellFormed ==
    ASSUME NEW d, WellFormed(d), NEW id \in RevisionId, CanSeal(d, id)
    PROVE  /\ WellFormed(Seal(d, id))
           /\ Seal(d, id).pending = NoEpoch
           /\ Seal(d, id).local = d.local
           /\ Seal(d, id).finalized = d.finalized
           /\ Seal(d, id).exposed = d.exposed
           /\ DOMAIN Seal(d, id).causal = DOMAIN d.causal \cup {id}
<1> DEFINE rev == SealedRevision(d)
           n == Seal(d, id)
<1>1. rev \in Revision
  BY WellFormedFields DEF CanSeal, SealedRevision, Epoch, Revision
<1>2. /\ InsertRevision(d.causal, id, rev) \in Registers
      /\ DOMAIN InsertRevision(d.causal, id, rev) = DOMAIN d.causal \cup {id}
      /\ \A x \in DOMAIN d.causal : InsertRevision(d.causal, id, rev)[x] = d.causal[x]
      /\ Valid(InsertRevision(d.causal, id, rev))
  <2>1. d.causal \in Registers /\ Valid(d.causal)
    BY WellFormedFields
  <2>2. CanInsert(d.causal, id, rev)
    BY DEF CanSeal
  <2> HIDE DEF rev
  <2> QED
    BY <1>1, <2>1, <2>2, InsertKeepsValid
<1>3. /\ n \in Domains
      /\ n.causal = InsertRevision(d.causal, id, rev)
      /\ n.pending = NoEpoch /\ n.local = d.local
      /\ n.finalized = d.finalized /\ n.exposed = d.exposed
      /\ n.handed_off = d.handed_off
  BY <1>2 DEF WellFormed, Seal, Domains
<1>4. Restorable(n)
  BY <1>2, <1>3, WellFormedFields
  DEF Restorable, WorkingRestorable, LedgerRestorable, ValidateAgainst
<1> QED
  BY <1>2, <1>3, <1>4 DEF WellFormed

\* register_local of held identities.
LEMMA RegisterLocalWellFormed ==
    ASSUME NEW d, WellFormed(d), NEW ids \in SUBSET DOMAIN d.causal
    PROVE  WellFormed(RegisterLocal(d, ids))
<1> DEFINE n == RegisterLocal(d, ids)
<1>1. ids \subseteq RevisionId
  BY WellFormedFields, RegisterType
<1>2. /\ n \in Domains
      /\ n.causal = d.causal /\ n.pending = d.pending
      /\ n.local = d.local \cup ids
      /\ n.finalized = d.finalized /\ n.exposed = d.exposed
      /\ n.handed_off = d.handed_off
  BY <1>1 DEF WellFormed, RegisterLocal, Domains
<1>3. Restorable(n)
  BY <1>2, WellFormedFields
  DEF Restorable, WorkingRestorable, LedgerRestorable, ValidateAgainst
<1> QED
  BY <1>2, <1>3 DEF WellFormed

\* seal_local
LEMMA SealLocalWellFormed ==
    ASSUME NEW d, WellFormed(d), NEW id \in RevisionId, CanSeal(d, id)
    PROVE  WellFormed(SealLocal(d, id))
<1>1. WellFormed(Seal(d, id)) /\ {id} \subseteq DOMAIN Seal(d, id).causal
  BY SealWellFormed
<1> QED
  BY <1>1, RegisterLocalWellFormed DEF SealLocal

\* The state observe_remote merges into is well-formed, holds the seal
\* identity if there is one, and has no pending epoch.
LEMMA BeforeMergeWellFormed ==
    ASSUME NEW d, WellFormed(d), NEW remote, NEW pre,
           pre = {} \/ \E id \in RevisionId : pre = {id},
           ObserveReady(d, remote, pre)
    PROVE  /\ WellFormed(BeforeMerge(d, pre))
           /\ BeforeMerge(d, pre).pending = NoEpoch
           /\ pre \subseteq DOMAIN BeforeMerge(d, pre).causal
<1>1. CASE pre = {}
  BY <1>1 DEF ObserveReady, BeforeMerge
<1>2. CASE \E id \in RevisionId : pre = {id}
  <2>1. PICK id \in RevisionId : pre = {id}
    BY <1>2
  <2>2. CanSeal(d, id)
    BY <2>1 DEF ObserveReady
  <2>3. BeforeMerge(d, pre) = Seal(d, id)
    BY <2>1 DEF BeforeMerge
  <2> QED
    BY <2>1, <2>2, <2>3, SealWellFormed
<1> QED
  BY <1>1, <1>2

\* observe_remote that succeeds: merging cannot disturb a pending epoch,
\* because none is left, nor a frozen statement, because the merge keeps
\* every revision that was held.
LEMMA ObserveRemoteWellFormed ==
    ASSUME NEW d, WellFormed(d), NEW remote \in Registers, NEW pre,
           pre = {} \/ \E id \in RevisionId : pre = {id},
           CanObserveRemote(d, remote, pre)
    PROVE  WellFormed(ObserveRemote(d, remote, pre))
<1> DEFINE b == BeforeMerge(d, pre)
           m == [b EXCEPT !.causal = MergeUnion(@, remote)]
<1>1. /\ WellFormed(b)
      /\ b.pending = NoEpoch
      /\ pre \subseteq DOMAIN b.causal
  BY BeforeMergeWellFormed DEF CanObserveRemote
<1>2. CanMerge(b.causal, remote)
  BY DEF CanObserveRemote
<1>3. /\ MergeUnion(b.causal, remote) \in Registers
      /\ DOMAIN MergeUnion(b.causal, remote) = DOMAIN b.causal \cup DOMAIN remote
      /\ \A id \in DOMAIN b.causal : MergeUnion(b.causal, remote)[id] = b.causal[id]
      /\ Valid(MergeUnion(b.causal, remote))
  BY <1>1, <1>2, WellFormedFields, MergeContents DEF CanMerge
<1>4. /\ m \in Domains
      /\ m.causal = MergeUnion(b.causal, remote)
      /\ m.pending = NoEpoch /\ m.local = b.local
      /\ m.finalized = b.finalized /\ m.exposed = b.exposed
      /\ m.handed_off = b.handed_off
  BY <1>1, <1>3 DEF WellFormed, Domains
<1>5. Restorable(m)
  BY <1>1, <1>3, <1>4, WellFormedFields
  DEF Restorable, WorkingRestorable, LedgerRestorable, ValidateAgainst
<1>6. WellFormed(m) /\ pre \subseteq DOMAIN m.causal
  BY <1>1, <1>3, <1>4, <1>5 DEF WellFormed
<1> QED
  BY <1>6, RegisterLocalWellFormed DEF ObserveRemote

\* finalize freezes the statement the register holds.
LEMMA FinalizeWellFormed ==
    ASSUME NEW d, WellFormed(d), NEW id \in RevisionId, CanFinalize(d, id)
    PROVE  WellFormed(Finalize(d, id))
<1> DEFINE f == InsertRevision(d.finalized, id, d.causal[id])
           n == Finalize(d, id)
<1>1. /\ f \in Registers
      /\ DOMAIN f = DOMAIN d.finalized \cup {id}
      /\ \A x \in DOMAIN f : f[x] = d.causal[x]
  <2>1. /\ DOMAIN d.finalized \subseteq RevisionId
        /\ \A x \in DOMAIN d.finalized : d.finalized[x] \in Revision
        /\ d.causal[id] \in Revision
    BY WellFormedFields, RegisterType DEF CanFinalize
  <2>2. f \in [DOMAIN d.finalized \cup {id} -> Revision]
    BY <2>1 DEF InsertRevision
  <2>3. f \in Registers
    BY <2>1, <2>2, RegisterIntro
  <2> QED
    BY <2>3, WellFormedFields DEF InsertRevision
<1>2. /\ n \in Domains
      /\ n.causal = d.causal /\ n.pending = d.pending /\ n.local = d.local
      /\ n.finalized = f /\ n.exposed = d.exposed
      /\ n.handed_off = d.handed_off
  BY <1>1 DEF WellFormed, Finalize, Domains
<1>3. Restorable(n)
  BY <1>1, <1>2, WellFormedFields
  DEF Restorable, WorkingRestorable, LedgerRestorable, ValidateAgainst, CanFinalize
<1> QED
  BY <1>2, <1>3 DEF WellFormed

\* handoff exposes the local part of the dependency closure.
LEMMA HandoffWellFormed ==
    ASSUME NEW d, WellFormed(d), NEW ids, CanHandoff(d, ids)
    PROVE  WellFormed(Handoff(d, ids))
<1> DEFINE c == DependencyClosure(d.causal, ids)
           n == Handoff(d, ids)
<1>1. ids \subseteq c /\ c \subseteq DOMAIN d.causal
  BY WellFormedFields, ClosureClosed DEF CanHandoff
<1>2. /\ n \in Domains
      /\ n.causal = d.causal /\ n.pending = d.pending /\ n.local = d.local
      /\ n.finalized = d.finalized
      /\ n.exposed = d.exposed \cup (c \cap d.local)
      /\ n.handed_off = d.handed_off \cup (ids \cap d.local)
  BY DEF WellFormed, Handoff, Domains
<1>3. Restorable(n)
  BY <1>1, <1>2, WellFormedFields
  DEF Restorable, WorkingRestorable, LedgerRestorable, ValidateAgainst
<1> QED
  BY <1>2, <1>3 DEF WellFormed

-----------------------------------------------------------------------------
(* What the methods do to the register and to the set of local identities  *)

\* n is d with the new identities sealed, the remote register merged, and
\* some of the new identities registered as local.
Grown(d, n, new, remote) ==
    /\ new \cap DOMAIN d.causal = {}
    /\ Extended(d.causal, n.causal)
    /\ Extended(remote, n.causal)
    /\ DOMAIN n.causal = DOMAIN d.causal \cup new \cup DOMAIN remote
    /\ d.local \subseteq n.local
    /\ n.local \subseteq d.local \cup new

\* A method that leaves the register and the local identities alone.
LEMMA NothingGrown ==
    ASSUME NEW d, NEW n, n.causal = d.causal, n.local = d.local
    PROVE  Grown(d, n, {}, EmptyRegister)
BY EmptyRegisterValid DEF Grown, Extended

\* begin_epoch, update_pending, finalize and handoff are such methods.
LEMMA LedgerMethodsGrowNothing ==
    ASSUME NEW d \in Domains
    PROVE  /\ \A v : Grown(d, BeginEpoch(d, v), {}, EmptyRegister)
           /\ \A v : Grown(d, UpdatePending(d, v), {}, EmptyRegister)
           /\ \A id : Grown(d, Finalize(d, id), {}, EmptyRegister)
           /\ \A ids : Grown(d, Handoff(d, ids), {}, EmptyRegister)
<1>1. \A v : /\ BeginEpoch(d, v).causal = d.causal
            /\ BeginEpoch(d, v).local = d.local
            /\ UpdatePending(d, v).causal = d.causal
            /\ UpdatePending(d, v).local = d.local
  BY DEF BeginEpoch, UpdatePending, Domains
<1>2. \A id : Finalize(d, id).causal = d.causal /\ Finalize(d, id).local = d.local
  BY DEF Finalize, Domains
<1>3. \A ids : Handoff(d, ids).causal = d.causal /\ Handoff(d, ids).local = d.local
  BY DEF Handoff, Domains
<1> QED
  BY <1>1, <1>2, <1>3, NothingGrown

\* Sealing adds the one identity and registers nothing.
LEMMA SealGrows ==
    ASSUME NEW d \in Domains, NEW id, CanSeal(d, id)
    PROVE  /\ Grown(d, Seal(d, id), {id}, EmptyRegister)
           /\ Seal(d, id).local = d.local
           /\ Seal(d, id).causal = InsertRevision(d.causal, id, SealedRevision(d))
<1> DEFINE n == Seal(d, id)
<1>1. /\ n.causal = InsertRevision(d.causal, id, SealedRevision(d))
      /\ n.local = d.local
  BY DEF Seal, Domains
<1>2. /\ id \notin DOMAIN d.causal
      /\ DOMAIN n.causal = DOMAIN d.causal \cup {id}
      /\ \A x \in DOMAIN d.causal : n.causal[x] = d.causal[x]
  BY <1>1 DEF CanSeal, CanInsert, InsertRevision
<1> HIDE DEF n
<1>3. Grown(d, n, {id}, EmptyRegister)
  BY <1>1, <1>2, EmptyRegisterValid DEF Grown, Extended
<1> QED
  BY <1>1, <1>3 DEF n

\* seal_local adds the identity and registers it.
LEMMA SealLocalGrows ==
    ASSUME NEW d \in Domains, NEW id, CanSeal(d, id)
    PROVE  /\ Grown(d, SealLocal(d, id), {id}, EmptyRegister)
           /\ {id} \subseteq SealLocal(d, id).local
<1> DEFINE b == Seal(d, id)
           n == SealLocal(d, id)
<1>1. Grown(d, b, {id}, EmptyRegister) /\ b.local = d.local
  BY SealGrows
<1>2. n.causal = b.causal /\ n.local = b.local \cup {id}
  BY DEF SealLocal, RegisterLocal, Seal, Domains
<1> HIDE DEF b, n
<1>3. Grown(d, n, {id}, EmptyRegister) /\ {id} \subseteq n.local
  BY <1>1, <1>2 DEF Grown
<1> QED
  BY <1>3 DEF n

\* observe_remote seals dirty work before it merges; the seal it needs is
\* exactly the identity it was given.
LEMMA BeforeMergeGrows ==
    ASSUME NEW d \in Domains, NEW remote, NEW pre,
           pre = {} \/ \E id : pre = {id},
           ObserveReady(d, remote, pre)
    PROVE  /\ Grown(d, BeforeMerge(d, pre), pre, EmptyRegister)
           /\ BeforeMerge(d, pre).local = d.local
<1>1. CASE pre = {}
  BY <1>1, NothingGrown DEF BeforeMerge
<1>2. CASE pre # {}
  <2>1. PICK id : pre = {id}
    BY <1>2
  <2>2. BeforeMerge(d, pre) = Seal(d, id)
    BY <2>1 DEF BeforeMerge
  <2>3. CanSeal(d, id)
    BY <2>1 DEF ObserveReady
  <2> QED
    BY <2>1, <2>2, <2>3, SealGrows
<1> QED
  BY <1>1, <1>2

\* observe_remote merges the remote register into that and registers the seal.
LEMMA ObserveRemoteGrows ==
    ASSUME NEW d, WellFormed(d), NEW remote \in Registers, NEW pre,
           pre = {} \/ \E id \in RevisionId : pre = {id},
           CanObserveRemote(d, remote, pre)
    PROVE  /\ Grown(d, ObserveRemote(d, remote, pre), pre, remote)
           /\ pre \subseteq ObserveRemote(d, remote, pre).local
<1> DEFINE b == BeforeMerge(d, pre)
           n == ObserveRemote(d, remote, pre)
<1>1. d \in Domains
  BY DEF WellFormed
<1>2. WellFormed(b) /\ b \in Domains
  BY BeforeMergeWellFormed DEF CanObserveRemote, WellFormed
<1>3. Grown(d, b, pre, EmptyRegister) /\ b.local = d.local
  BY <1>1, BeforeMergeGrows DEF CanObserveRemote
<1>4. Compatible(b.causal, remote)
  BY DEF CanObserveRemote, CanMerge
<1>5. n.causal = MergeUnion(b.causal, remote) /\ n.local = d.local \cup pre
  <2> HIDE DEF b
  <2>1. ObserveRemote(d, remote, pre)
          = RegisterLocal([b EXCEPT !.causal = MergeUnion(@, remote)], pre)
    BY DEF ObserveRemote, b
  <2> QED
    BY <1>2, <1>3, <2>1 DEF RegisterLocal, Domains
<1> HIDE DEF b, n
<1>6. b.causal \in Registers
  BY <1>2, WellFormedFields
<1>7. /\ DOMAIN n.causal = DOMAIN b.causal \cup DOMAIN remote
      /\ Extended(b.causal, n.causal)
      /\ Extended(remote, n.causal)
  <2> DEFINE m == MergeUnion(b.causal, remote)
  <2>1. /\ DOMAIN m = DOMAIN b.causal \cup DOMAIN remote
        /\ \A id \in DOMAIN b.causal : m[id] = b.causal[id]
        /\ \A id \in DOMAIN remote : m[id] = remote[id]
    BY <1>4, <1>6, MergeContents
  <2>2. n.causal = m
    BY <1>5
  <2> HIDE DEF m
  <2> QED
    BY <2>1, <2>2 DEF Extended
<1>8. Grown(d, n, pre, remote)
  <2>1. DOMAIN b.causal = DOMAIN d.causal \cup pre
    BY <1>3, EmptyRegisterValid DEF Grown
  <2>2. Extended(d.causal, n.causal)
    BY <1>3, <1>7 DEF Grown, Extended
  <2> QED
    BY <1>3, <1>5, <1>7, <2>1, <2>2 DEF Grown
<1> QED
  BY <1>5, <1>8 DEF n

=============================================================================
