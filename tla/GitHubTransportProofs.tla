----------------------- MODULE GitHubTransportProofs -----------------------
(***************************************************************************)
(* Theorems about the GitHub transport, for any clients, objects, limits   *)
(* and numbers of commits and of steps of other writers.                   *)
(*                                                                         *)
(* A repository only grows, so what a walk has found stays true while      *)
(* others commit (Extension).  The invariant says of the repository that a *)
(* publication which repeats nothing adds files under their digests and    *)
(* does nothing else (RepoInv), of a client that its cursor's tree is one  *)
(* whose files are under their digests and delivered (KnownInv), and of a  *)
(* walk that its range is the chain of parents from the head (Chain),      *)
(* accounts for every file by which the head differs from where the walk   *)
(* is (Delivered), and never adds a file twice unless another writer       *)
(* touched one or a client published one it had (Fresh).                   *)
(***************************************************************************)
EXTENDS GitHubTransport, FiniteSetTheorems, WellFoundedInduction, NaturalsInduction, TLAPS

-----------------------------------------------------------------------------
(* The invariant, of repositories C and walks w *)

SingleIn(C, o) == Len(C[o].parents) = 1
ParentIn(C, o) == C[o].parents[1]

\* A list of changes has everything by which two trees differ, and lists as
\* added only what is new.
Listed(before, after, changes) ==
    /\ Changes(before, after) \subseteq changes
    /\ \A change \in changes : change.kind = "Added" => change.path \in DOMAIN after \ DOMAIN before

\* What a commit k says of its parent in C, and what a publication may change.
CommitInv(C, k) ==
    /\ Len(k.parents) = 1 =>
         /\ k.parents[1] \in DOMAIN C
         /\ Listed(C[k.parents[1]].files, k.files, k.changes)
    /\ (k.message = "publication" /\ k.again = {}) =>
         \A change \in k.changes : change.kind = "Added" /\ k.files[change.path] = change.path

RepoInv(C) ==
    /\ IsFiniteSet(DOMAIN C) /\ DOMAIN C \subseteq Nat
    /\ \A o \in DOMAIN C : o <= Cardinality(DOMAIN C)
    /\ \A o \in DOMAIN C : CommitInv(C, C[o])

Extension(C, D) == DOMAIN C \subseteq DOMAIN D /\ \A o \in DOMAIN C : D[o] = C[o]

Clean(files) == \A p \in DOMAIN files : files[p] = p

AllAdded(C, range) == \A o \in Range(range) : \A change \in C[o].changes : change.kind = "Added"

Untampered(C, range) ==
    \A o \in Range(range) : (C[o].message = "publication" /\ C[o].again = {}) \/ C[o].changes = {}

\* The i-th commit of the walk; the last one is the cursor.
Trail(w, i) == IF i = Len(w.range) + 1 THEN w.cursor ELSE w.range[i]

Chain(C, k, w) ==
    /\ Trail(w, 1) = w.head
    /\ \A i \in 1 .. Len(w.range) :
         /\ w.range[i] # k
         /\ SingleIn(C, w.range[i])
         /\ Trail(w, i + 1) = ParentIn(C, w.range[i])

\* The file of path p at the head of the walk was added in the range.
Added(C, w, p) ==
    \E o \in Range(w.range) : \E change \in C[o].changes :
        change.path = p /\ C[o].files[p] = C[w.head].files[p]

Delivered(C, w) ==
    AllAdded(C, w.range) =>
        \A p \in DOMAIN C[w.head].files :
            \/ p \in DOMAIN C[w.cursor].files /\ C[w.cursor].files[p] = C[w.head].files[p]
            \/ Added(C, w, p)

Disjoint(C, range) ==
    \A i, j \in DOMAIN range : i # j => C[range[i]].changes \cap C[range[j]].changes = {}

Fresh(C, w) ==
    Untampered(C, w.range) =>
        /\ Disjoint(C, w.range)
        /\ \A o \in Range(w.range) : \A change \in C[o].changes :
             change.path \notin DOMAIN C[w.cursor].files

Walked(C, k, w) ==
    /\ k \in DOMAIN C /\ w.head \in DOMAIN C /\ w.cursor \in DOMAIN C
    /\ w.range \in Seq(DOMAIN C) /\ Len(w.range) <= MaxIncrementalCommits
    /\ Chain(C, k, w) /\ Delivered(C, w) /\ Fresh(C, w)

Walks(C) == [step : {"walk"}, head : DOMAIN C, cursor : DOMAIN C, range : Seq(DOMAIN C)]

KnownInv(C, k, h) ==
    k # NoHead => /\ k \in DOMAIN C
                  /\ Clean(C[k].files)
                  /\ Range(C[k].files) \subseteq h

CallInv(C, k, w) == w = Idle \/ (w \in Walks(C) /\ Walked(C, k, w))

ClientsInv ==
    /\ DOMAIN known = Client /\ DOMAIN have = Client
    /\ DOMAIN call = Client /\ DOMAIN answer = Client
    /\ \A c \in Client : /\ KnownInv(commits, known[c], have[c])
                         /\ CallInv(commits, known[c], call[c])

TransportInv ==
    /\ RepoInv(commits)
    /\ branch \in Oids \cup {NoHead}
    /\ ClientsInv

-----------------------------------------------------------------------------
(* Files and changes *)

\* What a list of changes says of the trees it lies between.
LEMMA ChangesSay ==
    ASSUME NEW before, NEW after
    PROVE  /\ \A p \in DOMAIN after :
                p \notin DOMAIN before => [path |-> p, kind |-> "Added"] \in Changes(before, after)
           /\ (\A change \in Changes(before, after) : change.kind = "Added") =>
                \A p \in DOMAIN before : p \in DOMAIN after /\ before[p] = after[p]
           /\ \A change \in Changes(before, after) :
                change.kind = "Added" => change.path \in DOMAIN after \ DOMAIN before
<1> DEFINE added == DOMAIN after \ DOMAIN before
           removed == DOMAIN before \ DOMAIN after
           modified == { q \in DOMAIN before \cap DOMAIN after : before[q] # after[q] }
<1>1. Changes(before, after) =
        { [path |-> p, kind |-> "Added"] : p \in added } \cup
        { [path |-> p, kind |-> "Removed"] : p \in removed } \cup
        { [path |-> p, kind |-> "Modified"] : p \in modified }
  BY DEF Changes
<1> HIDE DEF added, removed, modified
<1>2. \A p \in added : [path |-> p, kind |-> "Added"] \in Changes(before, after)
  BY <1>1
<1>3. \A change \in Changes(before, after) : change.kind = "Added" => change.path \in added
  BY <1>1
<1>4. ASSUME \A change \in Changes(before, after) : change.kind = "Added"
      PROVE  removed = {} /\ modified = {}
  <2>1. ASSUME NEW p \in removed PROVE FALSE
    <3>1. [path |-> p, kind |-> "Removed"] \in Changes(before, after)
      BY <1>1, <2>1
    <3> QED  BY <1>4, <3>1
  <2>2. ASSUME NEW p \in modified PROVE FALSE
    <3>1. [path |-> p, kind |-> "Modified"] \in Changes(before, after)
      BY <1>1, <2>2
    <3> QED  BY <1>4, <3>1
  <2> QED
    BY <2>1, <2>2
<1> QED
  BY <1>2, <1>3, <1>4 DEF added, removed, modified

\* The same of a list that may have more.
LEMMA ListedSay ==
    ASSUME NEW before, NEW after, NEW changes, Listed(before, after, changes)
    PROVE  /\ \A p \in DOMAIN after :
                p \notin DOMAIN before => [path |-> p, kind |-> "Added"] \in changes
           /\ (\A change \in changes : change.kind = "Added") =>
                \A p \in DOMAIN before : p \in DOMAIN after /\ before[p] = after[p]
           /\ \A change \in changes :
                change.kind = "Added" => change.path \in DOMAIN after \ DOMAIN before
<1>1. Changes(before, after) \subseteq changes
  BY DEF Listed
<1>2. \A p \in DOMAIN after :
        p \notin DOMAIN before => [path |-> p, kind |-> "Added"] \in changes
  BY <1>1, ChangesSay
<1>3. (\A change \in changes : change.kind = "Added") =>
        \A change \in Changes(before, after) : change.kind = "Added"
  BY <1>1
<1> QED
  BY <1>2, <1>3, ChangesSay DEF Listed

\* Every list of changes between two trees is one of them.
LEMMA ChangesListed ==
    ASSUME NEW before, NEW after
    PROVE  Listed(before, after, Changes(before, after))
BY ChangesSay DEF Listed

\* The files of a publication: those of its parent, and its objects under
\* their digests.
LEMMA PublicationFiles ==
    ASSUME NEW before, Clean(before), NEW objects, NEW after,
           DOMAIN after = DOMAIN before \cup objects,
           \A p \in objects : after[p] = p,
           \A p \in DOMAIN before \ objects : after[p] = before[p]
    PROVE  /\ Clean(after)
           /\ Range(after) \subseteq Range(before) \cup objects
           /\ \A change \in Changes(before, after) :
                change.kind = "Added" /\ after[change.path] = change.path
<1>1. \A p \in DOMAIN before : after[p] = p
  BY DEF Clean
<1>2. Clean(after)
  BY <1>1 DEF Clean
<1>3. Range(after) \subseteq Range(before) \cup objects
  BY <1>1 DEF Range, Clean
<1>4. ASSUME NEW change \in Changes(before, after)
      PROVE  change.kind = "Added" /\ after[change.path] = change.path
  <2>1. DOMAIN before \ DOMAIN after = {}
    OBVIOUS
  <2>2. { q \in DOMAIN before \cap DOMAIN after : before[q] # after[q] } = {}
    BY <1>1 DEF Clean
  <2>3. PICK p \in DOMAIN after \ DOMAIN before : change = [path |-> p, kind |-> "Added"]
    BY <2>1, <2>2 DEF Changes
  <2> QED
    BY <1>2, <2>3 DEF Clean
<1> QED
  BY <1>2, <1>3, <1>4

-----------------------------------------------------------------------------
(* A repository that grows *)

\* A commit is added under a name that no commit has, and keeps what was there.
LEMMA RepoGrows ==
    ASSUME NEW C, RepoInv(C), NEW k, CommitInv(C, k), NEW n, n = Cardinality(DOMAIN C) + 1,
           NEW D, D = [o \in DOMAIN C \cup {n} |-> IF o = n THEN k ELSE C[o]]
    PROVE  /\ RepoInv(D) /\ Extension(C, D)
           /\ n \in DOMAIN D /\ n # NoHead /\ n \notin DOMAIN C
           /\ D[n] = k
<1>1. Cardinality(DOMAIN C) \in Nat /\ n \in Nat /\ n \notin DOMAIN C
  <2>1. Cardinality(DOMAIN C) \in Nat
    BY FS_CardinalityType DEF RepoInv
  <2>2. \A o \in DOMAIN C : o \in Nat /\ o <= Cardinality(DOMAIN C)
    BY DEF RepoInv
  <2> QED
    BY <2>1, <2>2
<1>2. DOMAIN D = DOMAIN C \cup {n}
  OBVIOUS
<1>3. Extension(C, D) /\ D[n] = k
  BY <1>1, <1>2 DEF Extension
<1>4. IsFiniteSet(DOMAIN D) /\ Cardinality(DOMAIN D) = Cardinality(DOMAIN C) + 1
  BY <1>1, <1>2, FS_AddElement DEF RepoInv
<1>5. \A o \in DOMAIN D : o \in Nat /\ o <= Cardinality(DOMAIN D)
  <2>1. ASSUME NEW o \in DOMAIN C  PROVE o \in Nat /\ o <= Cardinality(DOMAIN D)
    <3>1. o \in Nat /\ o <= Cardinality(DOMAIN C)
      BY DEF RepoInv
    <3> QED
      BY <1>1, <1>4, <3>1
  <2> QED
    BY <1>1, <1>2, <1>4, <2>1
<1>6. ASSUME NEW j, CommitInv(C, j)  PROVE CommitInv(D, j)
  BY <1>3, <1>6 DEF CommitInv, Extension
<1>7. \A o \in DOMAIN D : CommitInv(D, D[o])
  BY <1>2, <1>3, <1>6 DEF RepoInv, Extension
<1>8. n # NoHead
  BY <1>1, TransportAssumption
<1> QED
  BY <1>1, <1>2, <1>3, <1>4, <1>5, <1>7, <1>8 DEF RepoInv

\* The elements of a range are commits.
LEMMA RangeOfSeq ==
    ASSUME NEW S, NEW s \in Seq(S)
    PROVE  /\ Range(s) \subseteq S
           /\ DOMAIN s = 1 .. Len(s) /\ Len(s) \in Nat
           /\ \A i \in DOMAIN s : s[i] \in S /\ s[i] \in Range(s)
BY DEF Range

\* What a walk has found stays true in a repository that grew.
LEMMA WalkedInExtension ==
    ASSUME NEW C, NEW D, Extension(C, D), NEW k, NEW w, Walked(C, k, w)
    PROVE  Walked(D, k, w)
<1>1. \A o \in DOMAIN C : o \in DOMAIN D /\ D[o] = C[o]
  BY DEF Extension
<1>2. Range(w.range) \subseteq DOMAIN C /\ (\A i \in DOMAIN w.range : w.range[i] \in DOMAIN C)
      /\ DOMAIN w.range = 1 .. Len(w.range)
  BY RangeOfSeq DEF Walked
<1>3. w.range \in Seq(DOMAIN D)
  BY <1>1 DEF Walked
<1>4. Chain(D, k, w)
  BY <1>1, <1>2 DEF Walked, Chain, SingleIn, ParentIn
<1>5. AllAdded(D, w.range) <=> AllAdded(C, w.range)
  BY <1>1, <1>2, Zenon DEF AllAdded
<1>6. \A p : Added(D, w, p) <=> Added(C, w, p)
  <2>1. D[w.head] = C[w.head]
    BY <1>1 DEF Walked
  <2> QED
    BY <1>1, <1>2, <2>1 DEF Added
<1>7. Delivered(D, w)
  BY <1>1, <1>5, <1>6 DEF Walked, Delivered
<1>8. Untampered(D, w.range) <=> Untampered(C, w.range)
  BY <1>1, <1>2 DEF Untampered
<1>9. Disjoint(C, w.range) => Disjoint(D, w.range)
  BY <1>1, <1>2 DEF Disjoint
<1>10. Fresh(D, w)
  BY <1>1, <1>2, <1>8, <1>9 DEF Walked, Fresh
<1> QED
  BY <1>1, <1>3, <1>4, <1>7, <1>10 DEF Walked

\* The clients' invariant survives the growth of the repository.
LEMMA ClientInExtension ==
    ASSUME NEW C, NEW D, Extension(C, D), NEW k, NEW h, NEW w,
           KnownInv(C, k, h), CallInv(C, k, w)
    PROVE  KnownInv(D, k, h) /\ CallInv(D, k, w)
<1>1. DOMAIN C \subseteq DOMAIN D /\ \A o \in DOMAIN C : D[o] = C[o]
  BY DEF Extension
<1>2. KnownInv(D, k, h)
  BY <1>1 DEF KnownInv
<1>3. w \in Walks(C) => w \in Walks(D)
  BY <1>1 DEF Walks
<1> QED
  BY <1>2, <1>3, WalkedInExtension DEF CallInv

-----------------------------------------------------------------------------
(* The walk *)

\* A walk begins at the head with nothing in its range.
LEMMA WalkBegins ==
    ASSUME NEW C, NEW k \in DOMAIN C, NEW head \in DOMAIN C, NEW w,
           w = [step |-> "walk", head |-> head, cursor |-> head, range |-> <<>>]
    PROVE  w \in Walks(C) /\ Walked(C, k, w)
<1>1. /\ w.step = "walk" /\ w.head = head /\ w.cursor = head /\ w.range = <<>>
      /\ w.range \in Seq(DOMAIN C) /\ Len(w.range) = 0
  OBVIOUS
<1>2. Range(w.range) = {} /\ DOMAIN w.range = {}
  BY <1>1 DEF Range
<1>3. Chain(C, k, w)
  BY <1>1 DEF Chain, Trail
<1>4. Delivered(C, w) /\ Fresh(C, w)
  BY <1>1, <1>2 DEF Delivered, Fresh, Disjoint
<1>5. 0 <= MaxIncrementalCommits
  BY TransportAssumption
<1> QED
  BY <1>1, <1>3, <1>4, <1>5 DEF Walks, Walked

\* What a range holds once the cursor was put at its end.
LEMMA RangeAppended ==
    ASSUME NEW S, NEW s \in Seq(S), NEW x \in S
    PROVE  /\ Append(s, x) \in Seq(S) /\ Len(Append(s, x)) = Len(s) + 1
           /\ Range(Append(s, x)) = Range(s) \cup {x}
           /\ \A i \in 1 .. Len(s) : Append(s, x)[i] = s[i]
           /\ Append(s, x)[Len(s) + 1] = x
<1>1. /\ Append(s, x) \in Seq(S) /\ Len(Append(s, x)) = Len(s) + 1
      /\ \A i \in 1 .. Len(s) : Append(s, x)[i] = s[i]
      /\ Append(s, x)[Len(s) + 1] = x
      /\ DOMAIN s = 1 .. Len(s) /\ DOMAIN Append(s, x) = 1 .. Len(s) + 1 /\ Len(s) \in Nat
  OBVIOUS
<1>2. DOMAIN Append(s, x) = DOMAIN s \cup {Len(s) + 1}
  BY <1>1
<1>3. \A i \in DOMAIN s : Append(s, x)[i] = s[i]
  BY <1>1
<1>4. Range(Append(s, x)) = Range(s) \cup {x}
  <2> DEFINE a == Append(s, x)
             l == Len(s) + 1
  <2>1. DOMAIN a = DOMAIN s \cup {l} /\ a[l] = x /\ \A i \in DOMAIN s : a[i] = s[i]
    BY <1>1, <1>2, <1>3
  <2> HIDE DEF a, l
  <2>2. Range(a) = Range(s) \cup {x}
    BY <2>1 DEF Range
  <2> QED
    BY <2>2 DEF a
<1> QED
  BY <1>1, <1>4

\* One step of the walk, from a commit with one parent that is not the one
\* the caller knows.
LEMMA WalkContinues ==
    ASSUME NEW C, RepoInv(C), NEW k, NEW w, Walked(C, k, w), w.cursor # k,
           SingleIn(C, w.cursor), Len(w.range) < MaxIncrementalCommits,
           NEW v, v.head = w.head, v.cursor = ParentIn(C, w.cursor),
           v.range = Append(w.range, w.cursor)
    PROVE  Walked(C, k, v)
<1> DEFINE o == w.cursor
           r == w.range
           before == C[v.cursor].files
           after == C[o].files
<1>1. /\ o \in DOMAIN C /\ r \in Seq(DOMAIN C) /\ Len(r) \in Nat
      /\ k \in DOMAIN C /\ w.head \in DOMAIN C
  BY DEF Walked
<1>2. v.cursor \in DOMAIN C /\ Listed(before, after, C[o].changes)
  BY <1>1 DEF RepoInv, CommitInv, SingleIn, ParentIn
<1>3. /\ v.range \in Seq(DOMAIN C) /\ Len(v.range) = Len(r) + 1
      /\ Range(v.range) = Range(r) \cup {o}
      /\ (\A i \in 1 .. Len(r) : v.range[i] = r[i]) /\ v.range[Len(r) + 1] = o
  BY <1>1, RangeAppended
<1>4. Len(v.range) <= MaxIncrementalCommits
  BY <1>1, <1>3, TransportAssumption
<1>5. Chain(C, k, v)
  <2>1. Trail(w, 1) = w.head
        /\ \A i \in 1 .. Len(r) : r[i] # k /\ SingleIn(C, r[i]) /\ Trail(w, i + 1) = ParentIn(C, r[i])
    BY DEF Walked, Chain
  <2>2. \A i \in 1 .. Len(r) + 1 : Trail(v, i) = Trail(w, i)
    <3> SUFFICES ASSUME NEW i \in 1 .. Len(r) + 1  PROVE Trail(v, i) = Trail(w, i)
      OBVIOUS
    <3>1. CASE i = Len(r) + 1
      BY <1>1, <1>3, <3>1 DEF Trail
    <3>2. CASE i \in 1 .. Len(r)
      BY <1>1, <1>3, <3>2 DEF Trail
    <3> QED
      BY <1>1, <3>1, <3>2
  <2>3. Trail(v, 1) = v.head
    BY <1>1, <2>1, <2>2
  <2>4. ASSUME NEW i \in 1 .. Len(v.range)
        PROVE  /\ v.range[i] # k /\ SingleIn(C, v.range[i])
               /\ Trail(v, i + 1) = ParentIn(C, v.range[i])
    <3>1. CASE i = Len(r) + 1
      BY <1>1, <1>3, <3>1 DEF Trail
    <3>2. CASE i \in 1 .. Len(r)
      <4>1. i + 1 \in 1 .. Len(r) + 1
        BY <1>1, <3>2
      <4> QED
        BY <1>3, <2>1, <2>2, <3>2, <4>1
    <3> QED
      BY <1>1, <1>3, <3>1, <3>2
  <2> QED
    BY <2>3, <2>4 DEF Chain
<1> HIDE DEF before, after, o, r
<1>6. Delivered(C, v)
  <2> SUFFICES ASSUME AllAdded(C, v.range), NEW p \in DOMAIN C[v.head].files
               PROVE  \/ p \in DOMAIN before /\ before[p] = C[v.head].files[p]
                      \/ Added(C, v, p)
    BY DEF Delivered, before
  <2>1. AllAdded(C, r) /\ \A change \in C[o].changes : change.kind = "Added"
    BY <1>3 DEF AllAdded
  <2>2. CASE Added(C, w, p)
    BY <1>3, <2>2 DEF Added, r
  <2>3. CASE p \in DOMAIN after /\ after[p] = C[w.head].files[p]
    <3>1. CASE p \in DOMAIN before
      BY <1>2, <2>1, <2>3, <3>1, ListedSay
    <3>2. CASE p \notin DOMAIN before
      <4>1. [path |-> p, kind |-> "Added"] \in C[o].changes
        BY <1>2, <2>3, <3>2, ListedSay
      <4>2. [path |-> p, kind |-> "Added"].path = p
        OBVIOUS
      <4> QED
        BY <1>3, <2>3, <4>1, <4>2, Zenon DEF Added, after
    <3> QED
      BY <3>1, <3>2
  <2> QED
    BY <2>1, <2>2, <2>3 DEF Walked, Delivered, after, o, r
<1>7. Fresh(C, v)
  <2> SUFFICES ASSUME Untampered(C, v.range)
               PROVE  /\ Disjoint(C, v.range)
                      /\ \A q \in Range(v.range) : \A change \in C[q].changes :
                           change.path \notin DOMAIN before
    BY DEF Fresh, before
  <2>1. Untampered(C, r) /\ ((C[o].message = "publication" /\ C[o].again = {}) \/ C[o].changes = {})
    BY <1>3 DEF Untampered
  <2>2. \A change \in C[o].changes : change.kind = "Added"
    BY <1>1, <2>1 DEF RepoInv, CommitInv, o
  <2>3. /\ \A p \in DOMAIN before : p \in DOMAIN after
        /\ \A change \in C[o].changes : change.path \in DOMAIN after \ DOMAIN before
    BY <1>2, <2>2, ListedSay
  <2>4. /\ Disjoint(C, r)
        /\ \A q \in Range(r) : \A change \in C[q].changes : change.path \notin DOMAIN after
    BY <2>1 DEF Walked, Fresh, after, o, r
  <2>5. \A q \in Range(v.range) : \A change \in C[q].changes : change.path \notin DOMAIN before
    BY <1>3, <2>3, <2>4
  <2>6. \A q \in Range(r) : C[q].changes \cap C[o].changes = {}
    BY <2>3, <2>4
  <2>7. ASSUME NEW i \in DOMAIN v.range, NEW j \in DOMAIN v.range, i # j
        PROVE  C[v.range[i]].changes \cap C[v.range[j]].changes = {}
    <3>1. DOMAIN v.range = 1 .. Len(r) + 1 /\ DOMAIN r = 1 .. Len(r) /\ Len(r) \in Nat
      BY <1>1, <1>3 DEF r
    <3>2. \A m \in 1 .. Len(r) : v.range[m] = r[m] /\ r[m] \in Range(r)
      BY <1>3, <3>1 DEF Range
    <3>3. CASE i \in 1 .. Len(r) /\ j \in 1 .. Len(r)
      BY <2>4, <2>7, <3>1, <3>2, <3>3 DEF Disjoint
    <3>4. CASE i = Len(r) + 1 /\ j \in 1 .. Len(r)
      BY <1>3, <2>6, <3>2, <3>4
    <3>5. CASE i \in 1 .. Len(r) /\ j = Len(r) + 1
      BY <1>3, <2>6, <3>2, <3>5
    <3>6. \A m \in DOMAIN v.range : m \in 1 .. Len(r) \/ m = Len(r) + 1
      BY <3>1
    <3> QED
      BY <2>7, <3>3, <3>4, <3>5, <3>6, Zenon
  <2> QED
    BY <2>5, <2>7 DEF Disjoint
<1> QED
  BY <1>1, <1>2, <1>3, <1>4, <1>5, <1>6, <1>7 DEF Walked

\* What a walk that ended delivers makes up, with what the client has, the
\* tree of the head it began at.
LEMMA WalkDelivers ==
    ASSUME NEW C, NEW k, k # NoHead, NEW h, KnownInv(C, k, h), NEW w, Walked(C, k, w), w.cursor = k,
           AllAdded(C, w.range),
           \A o \in Range(w.range) : \A change \in C[o].changes : C[o].files[change.path] = change.path,
           NEW objects,
           \A o \in Range(w.range) : \A change \in C[o].changes : C[o].files[change.path] \in objects
    PROVE  KnownInv(C, w.head, h \cup objects)
<1> DEFINE files == C[w.head].files
<1>1. ASSUME NEW p \in DOMAIN files
      PROVE  files[p] = p /\ files[p] \in h \cup objects
  <2>1. CASE p \in DOMAIN C[k].files /\ C[k].files[p] = files[p]
    <3>1. Clean(C[k].files) /\ Range(C[k].files) \subseteq h
      BY DEF KnownInv
    <3> QED
      BY <2>1, <3>1 DEF Clean, Range
  <2>2. CASE Added(C, w, p)
    BY <2>2 DEF Added
  <2> QED
    BY <2>1, <2>2 DEF Walked, Delivered
<1>2. w.head \in DOMAIN C
  BY DEF Walked
<1> QED
  BY <1>1, <1>2 DEF KnownInv, Clean, Range

-----------------------------------------------------------------------------
(* The invariant *)

\* A repository with one commit, or one that the branch does not show.
LEMMA TransportInvInit == Init => TransportInv
<1> SUFFICES ASSUME Init PROVE TransportInv
  OBVIOUS
<1>1. /\ DOMAIN commits = {1}
      /\ commits[1].parents = <<>> /\ commits[1].files = NoFiles
      /\ commits[1].message = "other" /\ commits[1].changes = {}
  BY DEF Init
<1>2. RepoInv(commits)
  <2>1. IsFiniteSet({1}) /\ Cardinality({1}) = 1
    BY FS_Singleton
  <2>2. CommitInv(commits, commits[1])
    BY <1>1 DEF CommitInv
  <2> QED
    BY <1>1, <2>1, <2>2 DEF RepoInv
<1>3. branch \in {1, NoHead} /\ \A c \in Client : known[c] \in {1, NoHead}
  BY DEF Init
<1>4. DOMAIN NoFiles = {}
  BY DEF NoFiles
<1>5. \A h : KnownInv(commits, 1, h) /\ KnownInv(commits, NoHead, h)
  BY <1>1, <1>4 DEF KnownInv, Clean, Range
<1>6. ClientsInv
  <2>1. /\ DOMAIN known = Client /\ DOMAIN have = Client
        /\ DOMAIN call = Client /\ DOMAIN answer = Client
        /\ \A c \in Client : call[c] = Idle
    BY DEF Init
  <2> QED
    BY <1>3, <1>5, <2>1 DEF ClientsInv, CallInv
<1> QED
  BY <1>1, <1>2, <1>3, <1>6 DEF TransportInv, Oids

\* A call that only answers leaves its client idle and the rest as it was.
LEMMA AnswerKeeps ==
    ASSUME TransportInv, NEW c \in Client, NEW result, Answer(c, result),
           UNCHANGED <<commits, branch, known, have>>
    PROVE  TransportInv'
<1>1. /\ call'[c] = Idle /\ \A d \in Client : d # c => call'[d] = call[d]
      /\ DOMAIN call' = Client /\ DOMAIN answer' = Client
  BY DEF Answer, TransportInv, ClientsInv
<1>2. ClientsInv'
  BY <1>1 DEF TransportInv, ClientsInv, CallInv
<1> QED
  BY <1>2 DEF TransportInv, Oids

\* A fetch answers at once, or begins a walk at the head it read.
LEMMA FetchStartKeeps ==
    ASSUME TransportInv, NEW c \in Client, FetchStart(c)
    PROVE  TransportInv'
<1>1. UNCHANGED <<commits, branch, known, have>>
  BY DEF FetchStart
<1>2. CASE \E result : Answer(c, result)
  BY <1>1, <1>2, AnswerKeeps
<1>3. CASE /\ known[c] # NoHead /\ branch # NoHead
           /\ call' = [call EXCEPT ![c] =
                 [step |-> "walk", head |-> branch, cursor |-> branch, range |-> <<>>]]
           /\ answer' = [answer EXCEPT ![c] = "none"]
  <2>1. branch \in DOMAIN commits /\ known[c] \in DOMAIN commits
    BY <1>3 DEF TransportInv, ClientsInv, KnownInv, Oids
  <2>2. /\ call'[c] = [step |-> "walk", head |-> branch, cursor |-> branch, range |-> <<>>]
        /\ \A d \in Client : d # c => call'[d] = call[d]
        /\ DOMAIN call' = Client /\ DOMAIN answer' = Client
    BY <1>3 DEF TransportInv, ClientsInv
  <2>3. CallInv(commits, known[c], call'[c])
    BY <2>1, <2>2, WalkBegins DEF CallInv
  <2>4. ClientsInv'
    BY <1>1, <2>2, <2>3 DEF TransportInv, ClientsInv
  <2> QED
    BY <1>1, <2>4 DEF TransportInv, Oids
<1> QED
  BY <1>2, <1>3 DEF FetchStart

\* A client that walks, and what is known of its walk.
LEMMA WalkingFacts ==
    ASSUME TransportInv, NEW c \in Client, call[c].step = "walk"
    PROVE  /\ call[c] \in Walks(commits) /\ Walked(commits, known[c], call[c])
           /\ known[c] \in Oids /\ known[c] # NoHead
<1>1. Idle.step # "walk"
  BY DEF Idle
<1>2. call[c] \in Walks(commits) /\ Walked(commits, known[c], call[c])
  BY <1>1 DEF TransportInv, ClientsInv, CallInv
<1>3. known[c] \in DOMAIN commits /\ DOMAIN commits \subseteq Nat
  BY <1>2 DEF Walked, TransportInv, RepoInv
<1> QED
  BY <1>2, <1>3, TransportAssumption DEF Oids

\* A step of the walk.
LEMMA WalkOnKeeps ==
    ASSUME TransportInv, NEW c \in Client, WalkOn(c)
    PROVE  TransportInv'
<1>1. /\ call[c].step = "walk" /\ call[c].cursor # known[c]
      /\ ~(Len(call[c].range) >= MaxIncrementalCommits)
      /\ SingleIn(commits, call[c].cursor)
      /\ UNCHANGED <<commits, branch, known, have, answer>>
  BY DEF WalkOn, Walking, LimitReached, SingleIn
<1>2. call[c] \in Walks(commits) /\ Walked(commits, known[c], call[c])
  BY <1>1, WalkingFacts
<1>3. /\ DOMAIN call' = Client
      /\ \A d \in Client : d # c => call'[d] = call[d]
      /\ call'[c].head = call[c].head /\ call'[c].step = "walk"
      /\ call'[c].cursor = ParentIn(commits, call[c].cursor)
      /\ call'[c].range = Append(call[c].range, call[c].cursor)
      /\ call'[c] = [step |-> "walk", head |-> call'[c].head,
                     cursor |-> call'[c].cursor, range |-> call'[c].range]
  <2> DEFINE w == call[c]
             x == commits[w.cursor].parents[1]
             y == Append(w.range, w.cursor)
             u == [w EXCEPT !.cursor = x]
             v == [u EXCEPT !.range = y]
  <2>1. w \in [step : {"walk"}, head : Oids, cursor : Oids, range : Seq(Oids)]
    BY <1>2 DEF Walks, Oids
  <2>2. call' = [call EXCEPT ![c].cursor = commits[@].parents[1],
                             ![c].range = Append(@, call[c].cursor)]
    BY DEF WalkOn
  <2>3. DOMAIN call = Client
    BY DEF TransportInv, ClientsInv
  <2>4. call'[c] = v /\ DOMAIN call' = Client /\ \A d \in Client : d # c => call'[d] = call[d]
    BY <2>1, <2>2, <2>3
  <2>5. /\ v.head = w.head /\ v.step = "walk" /\ v.cursor = x /\ v.range = y
        /\ v = [step |-> "walk", head |-> v.head, cursor |-> v.cursor, range |-> v.range]
    <3> HIDE DEF w, x, y
    <3>1. u = [step |-> "walk", head |-> w.head, cursor |-> x, range |-> w.range]
      BY <2>1
    <3> HIDE DEF u
    <3>2. v = [step |-> "walk", head |-> w.head, cursor |-> x, range |-> y]
      BY <3>1
    <3> HIDE DEF v
    <3> QED
      BY <3>2
  <2> HIDE DEF v
  <2> QED
    BY <2>4, <2>5 DEF ParentIn
<1>4. Len(call[c].range) < MaxIncrementalCommits
  BY <1>1, <1>2, TransportAssumption DEF Walked
<1>5. Walked(commits, known[c], call'[c])
  BY <1>1, <1>2, <1>3, <1>4, WalkContinues DEF TransportInv
<1>6. call'[c] \in Walks(commits)
  BY <1>3, <1>5 DEF Walks, Walked
<1>7. ClientsInv'
  BY <1>1, <1>3, <1>5, <1>6 DEF TransportInv, ClientsInv, CallInv
<1> QED
  BY <1>1, <1>7 DEF TransportInv, Oids

\* The delivery of a range.
LEMMA FetchChangedKeeps ==
    ASSUME TransportInv, NEW c \in Client, FetchChanged(c)
    PROVE  TransportInv'
<1>1. /\ call[c].step = "walk" /\ call[c].cursor = known[c] /\ Immutable(c) /\ PathsMatch(c)
      /\ have' = [have EXCEPT ![c] = @ \cup RangeObjects(c)]
      /\ known' = [known EXCEPT ![c] = call[c].head]
      /\ Answer(c, "Changed") /\ UNCHANGED <<commits, branch>>
  BY DEF FetchChanged, WalkEnded
<1>2. Walked(commits, known[c], call[c]) /\ known[c] # NoHead
  BY <1>1, WalkingFacts
<1>3. /\ DOMAIN call' = Client /\ DOMAIN answer' = Client
      /\ DOMAIN known' = Client /\ DOMAIN have' = Client
      /\ call'[c] = Idle /\ known'[c] = call[c].head /\ have'[c] = have[c] \cup RangeObjects(c)
      /\ \A d \in Client : d # c => call'[d] = call[d] /\ known'[d] = known[d] /\ have'[d] = have[d]
  BY <1>1 DEF Answer, TransportInv, ClientsInv
<1>4. AllAdded(commits, call[c].range)
  BY <1>1 DEF Immutable, RangeChanges, AllAdded
<1>5. \A o \in Range(call[c].range) : \A change \in commits[o].changes :
          /\ commits[o].files[change.path] = change.path
          /\ commits[o].files[change.path] \in RangeObjects(c)
  BY <1>1 DEF PathsMatch, ObjectPath, RangeObjects, ReadAt
<1>6. KnownInv(commits, known[c], have[c])
  BY DEF TransportInv, ClientsInv
<1>7. KnownInv(commits, call[c].head, have[c] \cup RangeObjects(c))
  BY <1>1, <1>2, <1>4, <1>5, <1>6, WalkDelivers
<1>8. ClientsInv'
  BY <1>1, <1>3, <1>7 DEF TransportInv, ClientsInv, CallInv
<1> QED
  BY <1>1, <1>8 DEF TransportInv, Oids

\* A commit is created and the branch moves to it.
LEMMA CommitAdded ==
    ASSUME TransportInv, NEW commit, CommitInv(commits, commit), AddCommit(commit)
    PROVE  /\ RepoInv(commits') /\ Extension(commits, commits')
           /\ branch' = NextOid /\ branch' \in Oids'
           /\ NextOid \in DOMAIN commits' /\ NextOid # NoHead
           /\ commits'[NextOid] = commit
<1>1. RepoInv(commits)
  BY DEF TransportInv
<1>2. NextOid = Cardinality(DOMAIN commits) + 1
  BY DEF NextOid, Oids
<1>3. commits' = [o \in DOMAIN commits \cup {NextOid} |-> IF o = NextOid THEN commit ELSE commits[o]]
  BY DEF AddCommit, Oids
<1>4. branch' = NextOid
  BY DEF AddCommit
<1>5. /\ RepoInv(commits') /\ Extension(commits, commits')
      /\ NextOid \in DOMAIN commits' /\ NextOid # NoHead
      /\ commits'[NextOid] = commit
  <2> HIDE DEF NextOid
  <2> QED
    BY <1>1, <1>2, <1>3, RepoGrows
<1> QED
  BY <1>4, <1>5 DEF Oids

\* A commit that is no publication is bound by nothing but its list of changes.
LEMMA OtherCommit ==
    ASSUME TransportInv, branch # NoHead, NEW files, NEW other
    PROVE  /\ CommitInv(commits, CommitOf("other", <<branch>>, files))
           /\ CommitInv(commits, CommitOf("other", <<branch, other>>, files))
<1>1. branch \in DOMAIN commits
  BY DEF TransportInv, Oids
<1>2. FilesAt(branch) = commits[branch].files
  BY DEF FilesAt
<1> QED
  BY <1>1, <1>2, ChangesListed DEF CommitInv, CommitOf

\* The same of a first commit.
LEMMA InitialCommit ==
    ASSUME NEW files
    PROVE  CommitInv(commits, CommitOf("other", <<>>, files))
BY DEF CommitInv, CommitOf

\* Another writer commits.
LEMMA OutsideKeeps ==
    ASSUME TransportInv, NEW commit, CommitInv(commits, commit), AddCommit(commit),
           UNCHANGED <<known, have, call, answer>>
    PROVE  TransportInv'
<1>1. RepoInv(commits') /\ Extension(commits, commits') /\ branch' \in Oids'
  BY CommitAdded
<1>2. ASSUME NEW c \in Client
      PROVE  KnownInv(commits', known[c], have[c]) /\ CallInv(commits', known[c], call[c])
  <2>1. KnownInv(commits, known[c], have[c]) /\ CallInv(commits, known[c], call[c])
    BY DEF TransportInv, ClientsInv
  <2> QED
    BY <1>1, <2>1, ClientInExtension
<1>3. ClientsInv'
  BY <1>2 DEF TransportInv, ClientsInv
<1> QED
  BY <1>1, <1>3 DEF TransportInv

\* Every kind of step that other writers take.
LEMMA OutsideStepsKeep ==
    ASSUME TransportInv,
           OutsideCommit \/ OutsideRemoves \/ OutsideWrites \/ OutsideMerges \/ OutsideResets
    PROVE  TransportInv'
<1>1. UNCHANGED <<known, have, call, answer>>
  BY DEF OutsideCommit, OutsideRemoves, OutsideWrites, OutsideMerges, OutsideResets, Outside
<1>2. ASSUME branch # NoHead, NEW files, NEW other,
             \/ AddCommit(CommitOf("other", <<branch>>, files))
             \/ AddCommit(CommitOf("other", <<branch, other>>, files))
      PROVE  TransportInv'
  BY <1>1, <1>2, OtherCommit, OutsideKeeps
<1>3. CASE OutsideCommit
  <2>1. CASE branch = NoHead
    BY <1>1, <1>3, <2>1, InitialCommit, OutsideKeeps DEF OutsideCommit
  <2>2. CASE branch # NoHead
    BY <1>2, <1>3, <2>2 DEF OutsideCommit
  <2> QED
    BY <2>1, <2>2
<1>4. CASE OutsideRemoves
  <2>1. branch # NoHead
    BY <1>4 DEF OutsideRemoves, FilesAt, NoFiles
  <2> QED
    BY <1>2, <1>4, <2>1 DEF OutsideRemoves
<1>5. CASE OutsideWrites
  BY <1>2, <1>5 DEF OutsideWrites
<1>6. CASE OutsideMerges
  BY <1>2, <1>6 DEF OutsideMerges
<1>7. CASE OutsideResets
  BY <1>1, <1>7 DEF OutsideResets, TransportInv, ClientsInv, Oids
<1> QED
  BY <1>3, <1>4, <1>5, <1>6, <1>7

\* A publication, whether its answer arrives or not: the commit goes on the
\* tree the client knows, whose files are under their digests and which the
\* client has, so it can change none of them, and adds none of them again
\* unless the client publishes what it has.
LEMMA PublishKeeps ==
    ASSUME TransportInv, NEW c \in Client, NEW objects,
           PublishCreated(c, objects) \/ PublishUnanswered(c, objects)
    PROVE  TransportInv'
<1> DEFINE files == WithObjects(known[c], objects)
<1>1. /\ call[c] = Idle /\ known[c] # NoHead
      /\ \E commit \in Publications(c, known[c], objects) : AddCommit(commit)
      /\ \E result : Answer(c, result)
  BY DEF PublishCreated, PublishUnanswered
<1>2. \/ /\ known' = [known EXCEPT ![c] = NextOid]
         /\ have' = [have EXCEPT ![c] = @ \cup objects]
      \/ UNCHANGED <<known, have>>
  BY DEF PublishCreated, PublishUnanswered
<1>3. /\ known[c] \in DOMAIN commits /\ Clean(commits[known[c]].files)
      /\ Range(commits[known[c]].files) \subseteq have[c]
  BY <1>1 DEF TransportInv, ClientsInv, KnownInv
<1>4. FilesAt(known[c]) = commits[known[c]].files
  BY <1>1 DEF FilesAt
<1>5. /\ Clean(files)
      /\ Range(files) \subseteq Range(commits[known[c]].files) \cup objects
      /\ \A change \in Changes(commits[known[c]].files, files) :
           change.kind = "Added" /\ files[change.path] = change.path
  <2> DEFINE before == commits[known[c]].files
  <2>1. /\ DOMAIN files = DOMAIN before \cup objects
        /\ \A p \in objects : files[p] = p
        /\ \A p \in DOMAIN before \ objects : files[p] = before[p]
    BY <1>4 DEF WithObjects, ObjectPath
  <2>2. Clean(before)
    BY <1>3
  <2> HIDE DEF before, files
  <2>3. /\ Clean(files)
        /\ Range(files) \subseteq Range(before) \cup objects
        /\ \A change \in Changes(before, files) :
             change.kind = "Added" /\ files[change.path] = change.path
    BY <2>1, <2>2, PublicationFiles
  <2> QED
    BY <2>3 DEF before
<1> HIDE DEF files
<1>6. PICK commit, relisted :
        /\ AddCommit(commit)
        /\ commit.files = files /\ commit.parents = <<known[c]>>
        /\ commit.again = objects \cap have[c]
        /\ relisted \in {{}, objects \cap DOMAIN commits[known[c]].files}
        /\ commit.changes = Changes(commits[known[c]].files, files) \cup
                            { [path |-> p, kind |-> "Modified"] : p \in relisted }
  <2>1. PICK commit \in Publications(c, known[c], objects) : AddCommit(commit)
    BY <1>1
  <2>2. { ObjectPath(o) : o \in objects } = objects
    BY DEF ObjectPath
  <2>3. PICK changes \in Listings(commits[known[c]].files, files, objects) :
          commit = [ message |-> "publication", parents |-> <<known[c]>>, files |-> files,
                     again |-> objects \cap have[c], changes |-> changes ]
    BY <1>4, <2>1, <2>2 DEF Publications, files
  <2>4. PICK relisted \in {{}, objects \cap DOMAIN commits[known[c]].files} :
          changes = Changes(commits[known[c]].files, files) \cup
                    { [path |-> p, kind |-> "Modified"] : p \in relisted }
    BY <2>3 DEF Listings
  <2>5. /\ commit.files = files /\ commit.parents = <<known[c]>>
        /\ commit.again = objects \cap have[c] /\ commit.changes = changes
    BY <2>3
  <2> QED
    BY <2>1, <2>4, <2>5
<1>7. CommitInv(commits, commit)
  <2> DEFINE before == commits[known[c]].files
             more == { [path |-> p, kind |-> "Modified"] : p \in relisted }
  <2>1. \A change \in more : change.kind # "Added"
    OBVIOUS
  <2>2. commit.again = {} => relisted = {}
    BY <1>3, <1>6 DEF Clean, Range
  <2>3. relisted = {} => more = {}
    OBVIOUS
  <2> HIDE DEF more
  <2>4. commit.changes = Changes(before, files) \cup more
    BY <1>6 DEF more
  <2>5. Listed(before, commit.files, commit.changes)
    BY <1>6, <2>1, <2>4, ChangesListed DEF Listed
  <2>6. commit.again = {} =>
          \A change \in commit.changes :
             change.kind = "Added" /\ commit.files[change.path] = change.path
    BY <1>5, <1>6, <2>2, <2>3, <2>4
  <2> QED
    BY <1>3, <1>6, <2>5, <2>6 DEF CommitInv
<1>8. /\ RepoInv(commits') /\ Extension(commits, commits') /\ branch' \in Oids'
      /\ NextOid \in DOMAIN commits' /\ commits'[NextOid] = commit
  BY <1>6, <1>7, CommitAdded
<1>9. KnownInv(commits', NextOid, have[c] \cup objects)
  BY <1>3, <1>5, <1>6, <1>8 DEF KnownInv
<1>10. \A d \in Client : KnownInv(commits', known[d], have[d]) /\ CallInv(commits', known[d], call[d])
  <2> TAKE d \in Client
  <2>1. KnownInv(commits, known[d], have[d]) /\ CallInv(commits, known[d], call[d])
    BY DEF TransportInv, ClientsInv
  <2> QED
    BY <1>8, <2>1, ClientInExtension
<1>11. /\ DOMAIN call' = Client /\ DOMAIN answer' = Client /\ call'[c] = Idle
       /\ \A d \in Client : d # c => call'[d] = call[d]
  BY <1>1 DEF Answer, TransportInv, ClientsInv
<1>12. /\ DOMAIN known' = Client /\ DOMAIN have' = Client
       /\ \A d \in Client : d # c => known'[d] = known[d] /\ have'[d] = have[d]
       /\ \/ known'[c] = NextOid /\ have'[c] = have[c] \cup objects
          \/ known'[c] = known[c] /\ have'[c] = have[c]
  BY <1>2 DEF TransportInv, ClientsInv
<1>13. ClientsInv'
  <2>1. \A d \in Client : KnownInv(commits', known'[d], have'[d]) /\ CallInv(commits', known'[d], call'[d])
    BY <1>9, <1>10, <1>11, <1>12, Zenon DEF CallInv
  <2> QED
    BY <1>11, <1>12, <2>1 DEF ClientsInv
<1> QED
  BY <1>8, <1>13 DEF TransportInv

\* The invariant holds in every reachable state.
LEMMA TransportAlways == Spec => []TransportInv
<1>1. ASSUME TransportInv, [Next]_vars  PROVE TransportInv'
  <2>1. ASSUME NEW c \in Client,
               \/ WalkGivesUp(c) \/ FetchRefused(c) \/ CallFails(c)
               \/ PublishWithoutCursor(c) \/ PublishConflict(c)
        PROVE  TransportInv'
    <3>1. UNCHANGED <<commits, branch, known, have>> /\ \E result : Answer(c, result)
      BY <2>1 DEF WalkGivesUp, FetchRefused, CallFails, PublishWithoutCursor, PublishConflict
    <3> QED
      BY <1>1, <3>1, AnswerKeeps
  <2>2. CASE UNCHANGED vars
    BY <1>1, <2>2 DEF vars, TransportInv, ClientsInv, Oids
  <2> QED
    BY <1>1, <2>1, <2>2, FetchStartKeeps, WalkOnKeeps, FetchChangedKeeps, PublishKeeps,
       OutsideStepsKeep DEF Next
<1> QED
  BY <1>1, TransportInvInit, PTL DEF Spec

-----------------------------------------------------------------------------
(* The limit *)

\* A set of numbers that is not empty has a smallest one.
LEMMA SmallestNumber ==
    ASSUME NEW S \in SUBSET Nat, S # {}
    PROVE  \E n \in S : \A m \in S : n <= m
<1> DEFINE Less == { p \in Nat \X Nat : p[1] < p[2] }
<1>1. IsWellFoundedOn(Less, Nat)
  BY NatLessThanWellFounded, Zenon DEF OpToRel
<1>2. PICK n \in S : \A m \in S : ~(<<m, n>> \in Less)
  <2> HIDE DEF Less
  <2> QED
    BY <1>1, WFMin
<1>3. \A m \in S : n <= m
  <2> SUFFICES ASSUME NEW m \in S, ~(n <= m)
               PROVE  FALSE
    OBVIOUS
  <2>1. m \in Nat /\ n \in Nat /\ m < n
    OBVIOUS
  <2>2. <<m, n>> \in Less
    BY <2>1
  <2> QED
    BY <1>2, <2>2
<1> QED
  BY <1>3

\* A walk that ended has followed a chain to the commit the caller knows.
LEMMA WalkIsChain ==
    ASSUME NEW k, NEW w, Walked(commits, k, w), w.cursor = k
    PROVE  \E n \in 0 .. MaxIncrementalCommits : LeadsTo(w.head, k, n)
<1> DEFINE n == Len(w.range)
           path == [i \in 0 .. n |-> Trail(w, i + 1)]
<1>1. /\ n \in Nat /\ n <= MaxIncrementalCommits /\ DOMAIN w.range = 1 .. n
      /\ w.cursor \in Oids /\ \A i \in 1 .. n : w.range[i] \in Oids
  BY DEF Walked, Oids
<1>2. n \in 0 .. MaxIncrementalCommits
  BY <1>1, TransportAssumption
<1>3. \A i \in 1 .. n + 1 : Trail(w, i) \in Oids
  BY <1>1 DEF Trail
<1>4. path \in [0 .. n -> Oids]
  BY <1>1, <1>3
<1>5. path[0] = w.head /\ path[n] = k
  BY <1>1 DEF Walked, Chain, Trail
<1>6. ASSUME NEW i \in 0 .. n - 1
      PROVE  Single(path[i]) /\ path[i + 1] = Parent(path[i])
  <2>1. i + 1 \in 1 .. n /\ i \in 0 .. n /\ i + 1 \in 0 .. n /\ i + 1 # n + 1
    BY <1>1
  <2>2. path[i] = w.range[i + 1] /\ path[i + 1] = Trail(w, (i + 1) + 1)
    BY <2>1 DEF Trail
  <2>3. SingleIn(commits, w.range[i + 1])
        /\ Trail(w, (i + 1) + 1) = ParentIn(commits, w.range[i + 1])
    BY <2>1 DEF Walked, Chain
  <2> QED
    BY <2>2, <2>3 DEF Single, Parent, SingleIn, ParentIn
<1> HIDE DEF path, n
<1>7. LeadsTo(w.head, k, n)
  BY <1>4, <1>5, <1>6 DEF LeadsTo
<1> QED
  BY <1>2, <1>7

\* A walk that gives up could have followed no chain within the limit.
LEMMA NoChainMissed ==
    ASSUME NEW k, NEW w, Walked(commits, k, w), w.cursor # k,
           Len(w.range) >= MaxIncrementalCommits \/ ~SingleIn(commits, w.cursor),
           NEW n \in 0 .. MaxIncrementalCommits, LeadsTo(w.head, k, n)
    PROVE  FALSE
<1> DEFINE l == Len(w.range)
<1>1. l \in Nat /\ n \in Nat /\ n <= MaxIncrementalCommits
  BY TransportAssumption DEF Walked
<1>2. PICK path \in [0 .. n -> Oids] :
        /\ path[0] = w.head /\ path[n] = k
        /\ \A i \in 0 .. n - 1 : Single(path[i]) /\ path[i + 1] = Parent(path[i])
  BY DEF LeadsTo
<1>3. /\ Trail(w, 1) = w.head
      /\ \A i \in 1 .. l : /\ w.range[i] # k
                           /\ Trail(w, i + 1) = Parent(w.range[i])
  BY DEF Walked, Chain, ParentIn, Parent
<1> DEFINE off == { i \in 0 .. n : i <= l /\ path[i] # Trail(w, i + 1) }
<1>4. off = {}
  <2> SUFFICES ASSUME off # {}  PROVE FALSE
    OBVIOUS
  <2>1. off \in SUBSET Nat
    BY <1>1
  <2>2. PICK m \in off : \A j \in off : m <= j
    <3> HIDE DEF off
    <3> QED
      BY <2>1, SmallestNumber
  <2>3. m \in 0 .. n /\ m <= l /\ path[m] # Trail(w, m + 1)
    OBVIOUS
  <2>4. m # 0
    <3> SUFFICES ASSUME m = 0  PROVE FALSE
      OBVIOUS
    <3>1. m + 1 = 1
      OBVIOUS
    <3> QED
      BY <1>2, <1>3, <2>3, <3>1
  <2>5. /\ m - 1 \in 0 .. n - 1 /\ m - 1 \in 0 .. n /\ m - 1 <= l /\ ~(m <= m - 1)
        /\ m \in 1 .. l /\ m # l + 1 /\ (m - 1) + 1 = m
    BY <1>1, <2>3, <2>4
  <2>6. path[m - 1] = Trail(w, m)
    BY <2>2, <2>5
  <2>7. Trail(w, m) = w.range[m]
    BY <2>5 DEF Trail
  <2>8. path[m] = Parent(path[m - 1])
    BY <1>2, <2>5
  <2> QED
    BY <1>3, <2>3, <2>5, <2>6, <2>7, <2>8
<1>5. \A i \in 0 .. n : i <= l => path[i] = Trail(w, i + 1)
  BY <1>4
<1> HIDE DEF off
<1>6. CASE n <= l
  <2>1. Trail(w, n + 1) = k
    BY <1>1, <1>2, <1>5, <1>6
  <2>2. n = l \/ n + 1 \in 1 .. l
    BY <1>1, <1>6
  <2>3. CASE n = l
    BY <2>1, <2>3 DEF Trail
  <2>4. CASE n + 1 \in 1 .. l
    <3>1. n + 1 # l + 1
      BY <1>1, <2>4
    <3> QED
      BY <1>3, <2>1, <2>4, <3>1 DEF Trail
  <2> QED
    BY <2>2, <2>3, <2>4
<1>7. CASE n > l
  <2>1. l \in 0 .. n /\ l <= l /\ l \in 0 .. n - 1 /\ ~(l >= MaxIncrementalCommits)
    BY <1>1, <1>7, TransportAssumption
  <2>2. path[l] = w.cursor
    BY <1>5, <2>1 DEF Trail
  <2>3. Single(path[l])
    BY <1>2, <2>1
  <2> QED
    BY <2>1, <2>2, <2>3 DEF Single, SingleIn
<1> QED
  BY <1>1, <1>6, <1>7

\* A walk has no answer yet.
AnswerInv == \A c \in Client : call[c].step = "walk" => answer[c] = "none"

\* The steps that touch a client that walks.
LEMMA WalkSteps ==
    ASSUME TransportInv, [Next]_vars, NEW c \in Client, call[c].step = "walk"
    PROVE  \/ WalkGivesUp(c) \/ WalkOn(c) \/ FetchChanged(c) \/ FetchRefused(c) \/ CallFails(c)
           \/ call'[c] = call[c] /\ answer'[c] = answer[c]
<1>1. DOMAIN call = Client /\ DOMAIN answer = Client /\ call[c] # Idle
  BY DEF TransportInv, ClientsInv, Idle
<1>2. ASSUME NEW d \in Client, d # c, NEW result, Answer(d, result)
      PROVE  call'[c] = call[c] /\ answer'[c] = answer[c]
  BY <1>1, <1>2 DEF Answer
<1>3. ASSUME NEW d \in Client, d # c,
             \/ FetchStart(d) \/ WalkGivesUp(d) \/ WalkOn(d) \/ FetchChanged(d) \/ FetchRefused(d)
             \/ CallFails(d) \/ PublishWithoutCursor(d) \/ PublishConflict(d)
             \/ \E objects : PublishCreated(d, objects) \/ PublishUnanswered(d, objects)
      PROVE  call'[c] = call[c] /\ answer'[c] = answer[c]
  <2>1. CASE \E result : Answer(d, result)
    BY <1>2, <1>3, <2>1
  <2>2. CASE WalkOn(d)
    BY <1>1, <1>3, <2>2 DEF WalkOn
  <2>3. CASE FetchStart(d)
    BY <1>1, <1>2, <1>3, <2>3 DEF FetchStart
  <2> QED
    BY <1>3, <2>1, <2>2, <2>3
    DEF WalkGivesUp, FetchChanged, FetchRefused, CallFails, PublishWithoutCursor,
        PublishConflict, PublishCreated, PublishUnanswered
<1>4. ASSUME \/ OutsideCommit \/ OutsideRemoves \/ OutsideWrites \/ OutsideMerges
             \/ OutsideResets \/ UNCHANGED vars
      PROVE  call'[c] = call[c] /\ answer'[c] = answer[c]
  BY <1>4 DEF OutsideCommit, OutsideRemoves, OutsideWrites, OutsideMerges, OutsideResets,
              Outside, vars
<1>5. /\ ~FetchStart(c) /\ ~PublishWithoutCursor(c) /\ ~PublishConflict(c)
      /\ \A objects : ~PublishCreated(c, objects) /\ ~PublishUnanswered(c, objects)
  BY <1>1 DEF FetchStart, PublishWithoutCursor, PublishConflict, PublishCreated, PublishUnanswered
<1> QED
  BY <1>3, <1>4, <1>5, Zenon DEF Next

\* A fetch that begins to walk forgets its last answer, and no step of a walk
\* but the last gives one.
LEMMA AnswerAlways == Spec => []AnswerInv
<1>1. Init => AnswerInv
  BY DEF Init, AnswerInv, Idle
<1>2. ASSUME TransportInv, AnswerInv, [Next]_vars  PROVE AnswerInv'
  <2>1. DOMAIN call = Client /\ DOMAIN answer = Client /\ Idle.step # "walk"
    BY <1>2 DEF TransportInv, ClientsInv, Idle
  <2>2. ASSUME NEW d \in Client, NEW result, Answer(d, result)  PROVE AnswerInv'
    BY <1>2, <2>1, <2>2 DEF Answer, AnswerInv
  <2>3. ASSUME NEW d \in Client, FetchStart(d)  PROVE AnswerInv'
    <3>1. CASE \E result : Answer(d, result)
      BY <2>2, <3>1
    <3>2. CASE answer' = [answer EXCEPT ![d] = "none"]
               /\ \A c \in Client : c # d => call'[c] = call[c]
      BY <1>2, <2>1, <3>2 DEF AnswerInv
    <3> QED
      BY <2>1, <2>3, <3>1, <3>2 DEF FetchStart
  <2>4. ASSUME NEW d \in Client, WalkOn(d)  PROVE AnswerInv'
    <3>1. call[d].step = "walk" /\ answer' = answer /\ \A c \in Client : c # d => call'[c] = call[c]
      BY <2>1, <2>4 DEF WalkOn, Walking
    <3> QED
      BY <1>2, <3>1 DEF AnswerInv
  <2>5. CASE UNCHANGED <<call, answer>>
    BY <1>2, <2>5 DEF AnswerInv
  <2> QED
    BY <1>2, <2>2, <2>3, <2>4, <2>5
    DEF Next, WalkGivesUp, FetchChanged, FetchRefused, CallFails, PublishWithoutCursor,
        PublishConflict, PublishCreated, PublishUnanswered, OutsideCommit, OutsideRemoves,
        OutsideWrites, OutsideMerges, OutsideResets, Outside, vars
<1> QED
  BY <1>1, <1>2, TransportAlways, PTL DEF Spec

-----------------------------------------------------------------------------
(* The theorems *)

\* Whatever other writers do between two API calls of a fetch, a client has
\* every object its cursor stands for (lib.rs: fetch_since, publish).
THEOREM CursorAlwaysCovered == Spec => []CursorIsCovered
<1>1. TransportInv => CursorIsCovered
  BY DEF TransportInv, ClientsInv, KnownInv, CursorIsCovered, FilesAt
<1> QED
  BY <1>1, TransportAlways, PTL

\* A walk gives up exactly when no chain of at most max_incremental_commits
\* commits with one parent leads to the caller's cursor (lib.rs: fetch_since).
THEOREM LimitAlwaysExact == Spec => LimitIsExact
<1> DEFINE Near(c) == \E n \in 0 .. MaxIncrementalCommits : LeadsTo(call[c].head, known[c], n)
           Exact == \A c \in Client :
                      (call[c].step = "walk" /\ call'[c] = Idle) =>
                         /\ answer'[c] = "BaselineUnavailable" => ~Near(c)
                         /\ answer'[c] \in {"Changed", "Refused"} => Near(c)
<1>1. ASSUME TransportInv, AnswerInv, [Next]_vars  PROVE Exact
  <2> SUFFICES ASSUME NEW c \in Client, call[c].step = "walk", call'[c] = Idle
               PROVE  /\ answer'[c] = "BaselineUnavailable" => ~Near(c)
                      /\ answer'[c] \in {"Changed", "Refused"} => Near(c)
    OBVIOUS
  <2>1. Walked(commits, known[c], call[c]) /\ DOMAIN answer = Client /\ call[c] # Idle
    BY <1>1, WalkingFacts DEF TransportInv, ClientsInv, Idle
  <2>2. CASE WalkGivesUp(c)
    <3>1. answer'[c] = "BaselineUnavailable"
      BY <2>1, <2>2 DEF WalkGivesUp, Answer
    <3>2. /\ call[c].cursor # known[c]
          /\ \/ Len(call[c].range) >= MaxIncrementalCommits
             \/ ~SingleIn(commits, call[c].cursor)
      BY <2>2 DEF WalkGivesUp, Walking, LimitReached, SingleIn
    <3>3. ~Near(c)
      BY <2>1, <3>2, NoChainMissed
    <3> QED
      BY <3>1, <3>3
  <2>3. CASE FetchChanged(c) \/ FetchRefused(c)
    <3>1. call[c].cursor = known[c] /\ answer'[c] \in {"Changed", "Refused"}
      BY <2>1, <2>3 DEF FetchChanged, FetchRefused, WalkEnded, Answer
    <3>2. Near(c)
      BY <2>1, <3>1, WalkIsChain
    <3> QED
      BY <3>1, <3>2
  <2>4. CASE CallFails(c)
    <3>1. answer'[c] = "Api"
      BY <2>1, <2>4 DEF CallFails, Answer
    <3> QED
      BY <3>1
  <2>5. CASE WalkOn(c)
    <3>1. answer'[c] = "none"
      BY <1>1, <2>5 DEF WalkOn, AnswerInv
    <3> QED
      BY <3>1
  <2> QED
    BY <1>1, <2>1, <2>2, <2>3, <2>4, <2>5, WalkSteps
<1>2. TransportInv /\ AnswerInv /\ [Next]_vars => [Exact]_vars
  BY <1>1
<1>3. LimitIsExact <=> [][Exact]_vars
  BY DEF LimitIsExact
<1> HIDE DEF Exact
<1> QED
  BY <1>2, <1>3, TransportAlways, AnswerAlways, PTL DEF Spec

\* No concurrent or unanswered publication makes a range that a fetch refuses:
\* a refusal shows that another writer touched an object in it or that a client
\* published one it already had (lib.rs: ImmutableObjectViolation,
\* ObjectPathMismatch).
THEOREM RefusedOnlyWithCause == Spec => RefusedOnlyForCause
<1> DEFINE Caused == \A c \in Client :
                       (call[c].step = "walk" /\ answer'[c] = "Refused") =>
                          \E o \in Range(call[c].range) : Tampered(o) \/ Repeated(o)
<1>1. ASSUME TransportInv, AnswerInv, [Next]_vars  PROVE Caused
  <2> SUFFICES ASSUME NEW c \in Client, call[c].step = "walk", answer'[c] = "Refused",
                      \A o \in Range(call[c].range) : ~Tampered(o) /\ ~Repeated(o)
               PROVE  FALSE
    OBVIOUS
  <2>1. Walked(commits, known[c], call[c]) /\ DOMAIN answer = Client
    BY <1>1, WalkingFacts DEF TransportInv, ClientsInv
  <2>2. answer[c] = "none"
    BY <1>1 DEF AnswerInv
  <2>3. FetchRefused(c)
    <3>1. ~WalkGivesUp(c) /\ ~FetchChanged(c) /\ ~CallFails(c)
      BY <2>1 DEF WalkGivesUp, FetchChanged, CallFails, Answer
    <3>2. ~WalkOn(c)
      BY <2>2 DEF WalkOn
    <3> QED
      BY <1>1, <2>2, <3>1, <3>2, WalkSteps
  <2> DEFINE r == call[c].range
  <2>4. Untampered(commits, r)
    BY DEF Tampered, Repeated, Untampered
  <2>5. Range(r) \subseteq DOMAIN commits
    BY <2>1, RangeOfSeq DEF Walked
  <2>6. \A o \in Range(r) : \A change \in commits[o].changes :
            change.kind = "Added" /\ commits[o].files[change.path] = change.path
    BY <1>1, <2>4, <2>5 DEF Untampered, TransportInv, RepoInv, CommitInv
  <2>7. Disjoint(commits, r)
    BY <2>1, <2>4 DEF Walked, Fresh
  <2>8. Immutable(c)
    BY <2>6, <2>7 DEF Immutable, RangeChanges, Disjoint
  <2>9. PathsMatch(c)
    BY <2>6 DEF PathsMatch, ObjectPath
  <2> QED
    BY <2>3, <2>8, <2>9 DEF FetchRefused
<1>2. TransportInv /\ AnswerInv /\ [Next]_vars => [Caused]_vars
  BY <1>1
<1>3. RefusedOnlyForCause <=> [][Caused]_vars
  BY DEF RefusedOnlyForCause
<1> HIDE DEF Caused
<1> QED
  BY <1>2, <1>3, TransportAlways, AnswerAlways, PTL DEF Spec

=============================================================================
