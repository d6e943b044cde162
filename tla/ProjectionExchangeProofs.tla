---------------------- MODULE ProjectionExchangeProofs ----------------------
(***************************************************************************)
(* Theorems about the multipart inbox and the exchange of projections, for *)
(* any set of wire objects, any list and any order.                        *)
(*                                                                         *)
(* The argument about the inbox follows each object that was read: it is   *)
(* in the pending entry of its publication, or that publication has been   *)
(* completed with the object in it (ReadInv).  A pending entry holds only  *)
(* parts that were read, and never all of them (PendingInv), so an empty   *)
(* inbox means that every announced part was read.  The argument about the *)
(* domains follows each statement to the domain of its identity.           *)
(***************************************************************************)
EXTENDS ProjectionExchange, FiniteSetTheorems, TLAPS

Projections == { o.projection : o \in Wire }

Entries == [total_parts : Nat, parts : UNION { [I -> Projections] : I \in SUBSET Nat }]

Inboxes == UNION { [P -> Entries] : P \in SUBSET PublicationId }

\* Every part of the entry was read under the entry's division.
PartsRead(p, entry, objects) ==
    \A i \in DOMAIN entry.parts :
        /\ i < entry.total_parts
        /\ \E o \in objects : /\ o.publication_id = p
                              /\ o.part_index = i
                              /\ o.total_parts = entry.total_parts
                              /\ o.projection = entry.parts[i]

PendingInv ==
    /\ seen \subseteq Wire
    /\ pending \in Inboxes
    /\ \A p \in DOMAIN pending :
          /\ DOMAIN pending[p].parts # {}
          /\ ~IsComplete(pending[p])
          /\ PartsRead(p, pending[p], seen)

\* What was handed out was read, all of it.
CompletedInv ==
    \A c \in completed :
        /\ c.publication_id \in PublicationId
        /\ c.projection \subseteq UNION { o.projection : o \in SeenOf(c.publication_id) }
        /\ \E o \in SeenOf(c.publication_id) : PlanIsWhole(o)

IsPending(o) ==
    /\ o.publication_id \in DOMAIN pending
    /\ o.total_parts = pending[o.publication_id].total_parts
    /\ o.part_index \in DOMAIN pending[o.publication_id].parts
    /\ o.projection = pending[o.publication_id].parts[o.part_index]

IsDelivered(o) ==
    /\ PlanIsWhole(o)
    /\ \E c \in completed : /\ c.publication_id = o.publication_id
                            /\ o.projection \subseteq c.projection

ReadInv == verdict # "refused" => \A o \in seen : IsPending(o) \/ IsDelivered(o)

\* A publication that was completed opens again only for an object that no
\* author who seals each part once would have made.
ReopenedInv ==
    \A c \in completed : c.publication_id \in DOMAIN pending => ~Orderly

ExpectedInv ==
    /\ expected = {} \/ \E p \in PublicationId : expected = {p}
    /\ expected # {} => \/ completed = {}
                        \/ \E p \in expected, projection \in { c.projection : c \in completed } :
                              completed = {[publication_id |-> p, projection |-> projection]}

VerdictInv ==
    /\ verdict \in {"reading", "accepted", "refused"}
    /\ verdict = "accepted" => DOMAIN pending = {} /\ (expected # {} => completed # {})

InboxInv == PendingInv /\ CompletedInv /\ ReadInv /\ ReopenedInv /\ ExpectedInv /\ VerdictInv

-----------------------------------------------------------------------------
(* Entries *)

\* There are n part indices below n.
LEMMA IndicesBelow ==
    ASSUME NEW n \in Nat
    PROVE  IsFiniteSet(0 .. n - 1) /\ Cardinality(0 .. n - 1) = n
<1>1. n - 1 \in Int /\ 0 \in Int
  OBVIOUS
<1>2. /\ IsFiniteSet(0 .. n - 1)
      /\ Cardinality(0 .. n - 1) = IF 0 > n - 1 THEN 0 ELSE (n - 1) - 0 + 1
  BY <1>1, FS_Interval
<1> QED
  BY <1>2

\* A part index set that stays below the number of parts is complete when it
\* has as many members, and only then (ingest compares the two numbers).
LEMMA CompleteIsAll ==
    ASSUME NEW entry \in Entries, \A i \in DOMAIN entry.parts : i < entry.total_parts
    PROVE  IsComplete(entry) <=> DOMAIN entry.parts = 0 .. entry.total_parts - 1
<1> DEFINE n == entry.total_parts
           S == 0 .. n - 1
           T == DOMAIN entry.parts
<1>1. n \in Nat
  BY DEF Entries
<1>2. T \subseteq Nat
  BY DEF Entries
<1>3. IsFiniteSet(S) /\ Cardinality(S) = n
  BY <1>1, IndicesBelow
<1>4. T \in SUBSET S
  BY <1>1, <1>2
<1> HIDE DEF n, S, T
<1>5. Cardinality(T) = n <=> T = S
  BY <1>3, <1>4, FS_Subset
<1> QED
  BY <1>5 DEF IsComplete, n, S, T

\* ingest adds the object's part to the entry of its publication.
LEMMA PartAdded ==
    ASSUME PendingInv, NEW o \in Wire, Admitted(o)
    PROVE  /\ WithPart(o) \in Entries
           /\ WithPart(o).total_parts = o.total_parts
           /\ WithPart(o).parts[o.part_index] = o.projection
           /\ DOMAIN WithPart(o).parts = DOMAIN Opened(o).parts \cup {o.part_index}
           /\ \A i \in DOMAIN Opened(o).parts : WithPart(o).parts[i] = Opened(o).parts[i]
           /\ PartsRead(o.publication_id, WithPart(o), seen \cup {o})
<1> DEFINE e == Opened(o)
           w == WithPart(o)
<1>1. o.part_index \in Nat /\ o.total_parts \in Nat /\ o.projection \in Projections
  BY WireAssumption DEF Projections
<1>2. /\ e.total_parts = o.total_parts
      /\ o.part_index \in DOMAIN e.parts => e.parts[o.part_index] = o.projection
      /\ o.part_index < o.total_parts
  BY DEF Admitted, Fits, Unprotects, ValidPartMetadata
<1>3. e \in Entries
  <2>1. CASE o.publication_id \in DOMAIN pending
    BY <2>1 DEF Opened, PendingInv, Inboxes
  <2>2. CASE o.publication_id \notin DOMAIN pending
    <3>1. [i \in {} |-> {}] \in [{} -> Projections]
      OBVIOUS
    <3>2. {} \in SUBSET Nat
      OBVIOUS
    <3> QED
      BY <1>1, <2>2, <3>1, <3>2 DEF Opened, Entries
  <2> QED
    BY <2>1, <2>2
<1>4. PICK I \in SUBSET Nat : e.parts \in [I -> Projections]
  BY <1>3 DEF Entries
<1> HIDE DEF e
<1>5. w = [e EXCEPT !.parts = [i \in DOMAIN e.parts \cup {o.part_index} |->
                                  IF i = o.part_index THEN o.projection ELSE e.parts[i]]]
  BY DEF WithPart, e
<1>6. /\ w.total_parts = e.total_parts
      /\ w.parts = [i \in DOMAIN e.parts \cup {o.part_index} |->
                       IF i = o.part_index THEN o.projection ELSE e.parts[i]]
      /\ w = [total_parts |-> w.total_parts, parts |-> w.parts]
  BY <1>3, <1>5 DEF Entries
<1> HIDE DEF w
<1>7. /\ DOMAIN w.parts = DOMAIN e.parts \cup {o.part_index}
      /\ w.parts[o.part_index] = o.projection
      /\ \A i \in DOMAIN e.parts : w.parts[i] = e.parts[i]
  BY <1>2, <1>6
<1>8. w \in Entries
  <2>1. w.parts \in [I \cup {o.part_index} -> Projections]
    BY <1>1, <1>4, <1>6
  <2>2. I \cup {o.part_index} \in SUBSET Nat
    BY <1>1, <1>4
  <2>3. w.parts \in UNION { [J -> Projections] : J \in SUBSET Nat }
    BY <2>1, <2>2
  <2>4. w.total_parts \in Nat
    BY <1>1, <1>2, <1>6
  <2> QED
    BY <1>6, <2>3, <2>4 DEF Entries
<1>9. PartsRead(o.publication_id, e, seen)
  BY DEF e, Opened, PendingInv, PartsRead
<1>10. PartsRead(o.publication_id, w, seen \cup {o})
  BY <1>2, <1>6, <1>7, <1>9 DEF PartsRead
<1> QED
  BY <1>2, <1>6, <1>7, <1>8, <1>10 DEF e, w

-----------------------------------------------------------------------------
(* Reading *)

\* A plan that was read stays read, and disorder stays visible.
LEMMA ReadingIsMonotone ==
    ASSUME seen \subseteq seen'
    PROVE  /\ \A o : PlanIsWhole(o) => PlanIsWhole(o)'
           /\ Orderly' => Orderly
<1>1. \A o : PlanIsWhole(o) => PlanIsWhole(o)'
  BY DEF PlanIsWhole, SeenOf
<1>2. Orderly' => Orderly
  BY DEF Orderly
<1> QED
  BY <1>1, <1>2

\* A further object of a completed publication repeats one of its parts.
LEMMA LateObjectIsDisorder ==
    ASSUME CompletedInv, NEW o \in Wire, o \notin seen, seen' = seen \cup {o}, Unprotects(o),
           NEW c \in completed, c.publication_id = o.publication_id
    PROVE  ~Orderly'
<1> SUFFICES ASSUME Orderly'
             PROVE  FALSE
  OBVIOUS
<1>1. PICK q \in SeenOf(o.publication_id) : PlanIsWhole(q)
  BY DEF CompletedInv
<1>2. q \in seen /\ q.publication_id = o.publication_id
  BY <1>1 DEF SeenOf
<1>3. q.total_parts = o.total_parts
  BY <1>2 DEF Orderly
<1>4. o.part_index \in 0 .. q.total_parts - 1
  BY <1>3, WireAssumption DEF Unprotects, ValidPartMetadata
<1>5. PICK other \in SeenOf(o.publication_id) : other.part_index = o.part_index
  BY <1>1, <1>2, <1>4 DEF PlanIsWhole
<1>6. other \in seen' /\ o \in seen' /\ other # o
  BY <1>5 DEF SeenOf
<1> QED
  BY <1>5, <1>6 DEF Orderly, SeenOf

\* What was handed out stays accounted for while more is read.
LEMMA CompletedKept ==
    ASSUME CompletedInv, seen \subseteq seen', NEW c \in completed
    PROVE  /\ c.publication_id \in PublicationId
           /\ c.projection \subseteq UNION { o.projection : o \in SeenOf(c.publication_id)' }
           /\ \E o \in SeenOf(c.publication_id)' : PlanIsWhole(o)'
<1>1. SeenOf(c.publication_id) \subseteq SeenOf(c.publication_id)'
  BY DEF SeenOf
<1>2. c.projection \subseteq UNION { o.projection : o \in SeenOf(c.publication_id) }
  BY DEF CompletedInv
<1>3. c.projection \subseteq UNION { o.projection : o \in SeenOf(c.publication_id)' }
  BY <1>1, <1>2
<1> QED
  BY <1>1, <1>3, ReadingIsMonotone DEF CompletedInv

\* One object that joins its entry without completing it.
LEMMA AccumulateStep ==
    ASSUME InboxInv, NEW o \in Wire, Accumulate(o)
    PROVE  InboxInv'
<1> DEFINE p == o.publication_id
           w == WithPart(o)
<1>1. /\ verdict = "reading" /\ o \notin seen /\ Admitted(o) /\ ~IsComplete(w)
      /\ seen' = seen \cup {o}
      /\ pending' = [x \in DOMAIN pending \cup {p} |-> IF x = p THEN w ELSE pending[x]]
      /\ expected' = expected /\ completed' = completed /\ verdict' = verdict
  BY DEF Accumulate, Take, AlreadySeen
<1>2. /\ w \in Entries
      /\ w.total_parts = o.total_parts
      /\ w.parts[o.part_index] = o.projection
      /\ DOMAIN w.parts = DOMAIN Opened(o).parts \cup {o.part_index}
      /\ \A i \in DOMAIN Opened(o).parts : w.parts[i] = Opened(o).parts[i]
      /\ PartsRead(p, w, seen \cup {o})
  BY <1>1, PartAdded DEF InboxInv
<1>3. p \in PublicationId /\ Unprotects(o)
  BY <1>1, WireAssumption DEF Admitted
<1>4. Opened(o).total_parts = o.total_parts
  BY <1>1 DEF Admitted, Fits
<1> HIDE DEF w
<1>5. /\ DOMAIN pending' = DOMAIN pending \cup {p}
      /\ pending'[p] = w
      /\ \A x \in DOMAIN pending : x # p => pending'[x] = pending[x]
  BY <1>1
<1>6. PendingInv'
  <2>1. pending' \in Inboxes
    <3>1. PICK P \in SUBSET PublicationId : pending \in [P -> Entries]
      BY DEF InboxInv, PendingInv, Inboxes
    <3>2. pending' \in [P \cup {p} -> Entries]
      BY <1>1, <1>2, <3>1
    <3>3. P \cup {p} \in SUBSET PublicationId
      BY <1>3, <3>1
    <3> QED
      BY <3>2, <3>3 DEF Inboxes
  <2>2. ASSUME NEW x \in DOMAIN pending, x # p
        PROVE  /\ DOMAIN pending'[x].parts # {}
               /\ ~IsComplete(pending'[x])
               /\ PartsRead(x, pending'[x], seen')
    BY <1>1, <1>5, <2>2 DEF InboxInv, PendingInv, PartsRead
  <2>3. /\ DOMAIN pending'[p].parts # {}
        /\ ~IsComplete(pending'[p])
        /\ PartsRead(p, pending'[p], seen')
    BY <1>1, <1>2, <1>5
  <2> QED
    BY <1>1, <1>5, <2>1, <2>2, <2>3 DEF InboxInv, PendingInv
<1>7. CompletedInv'
  BY <1>1, CompletedKept DEF InboxInv, CompletedInv
<1>8. ReadInv'
  <2>1. IsPending(o)'
    BY <1>2, <1>5 DEF IsPending
  <2>2. ASSUME NEW q \in seen, IsPending(q)
        PROVE  IsPending(q)'
    <3>1. CASE q.publication_id # p
      BY <1>5, <2>2, <3>1 DEF IsPending
    <3>2. CASE q.publication_id = p
      <4>1. Opened(o) = pending[p]
        BY <2>2, <3>2 DEF Opened, IsPending
      <4> QED
        BY <1>2, <1>4, <1>5, <2>2, <3>2, <4>1 DEF IsPending
    <3> QED
      BY <3>1, <3>2
  <2>3. ASSUME NEW q \in seen, IsDelivered(q)
        PROVE  IsDelivered(q)'
    BY <1>1, <2>3, ReadingIsMonotone DEF IsDelivered
  <2> QED
    BY <1>1, <2>1, <2>2, <2>3 DEF InboxInv, ReadInv
<1>9. ReopenedInv'
  <2> SUFFICES ASSUME NEW c \in completed, c.publication_id \in DOMAIN pending'
               PROVE  ~Orderly'
    BY <1>1 DEF ReopenedInv
  <2>1. CASE c.publication_id \in DOMAIN pending
    BY <1>1, <2>1, ReadingIsMonotone DEF InboxInv, ReopenedInv
  <2>2. CASE c.publication_id = p
    BY <1>1, <1>3, <2>2, LateObjectIsDisorder DEF InboxInv
  <2> QED
    BY <1>5, <2>1, <2>2
<1>10. ExpectedInv' /\ VerdictInv'
  BY <1>1 DEF InboxInv, ExpectedInv, VerdictInv
<1> QED
  BY <1>6, <1>7, <1>8, <1>9, <1>10 DEF InboxInv

\* One object that completes its publication.
LEMMA CompleteStep ==
    ASSUME InboxInv, NEW o \in Wire, Complete(o)
    PROVE  InboxInv'
<1> DEFINE p == o.publication_id
           w == WithPart(o)
           out == [publication_id |-> p, projection |-> Merged(w)]
<1>1. /\ verdict = "reading" /\ o \notin seen /\ Admitted(o) /\ IsComplete(w) /\ MayComplete
      /\ seen' = seen \cup {o}
      /\ pending' = [x \in DOMAIN pending \ {p} |-> pending[x]]
      /\ completed' = completed \cup {out}
      /\ expected' = expected /\ verdict' = verdict
  BY DEF Complete, Take, AlreadySeen
<1>2. /\ w \in Entries
      /\ w.total_parts = o.total_parts
      /\ w.parts[o.part_index] = o.projection
      /\ DOMAIN w.parts = DOMAIN Opened(o).parts \cup {o.part_index}
      /\ \A i \in DOMAIN Opened(o).parts : w.parts[i] = Opened(o).parts[i]
      /\ PartsRead(p, w, seen \cup {o})
  BY <1>1, PartAdded DEF InboxInv
<1>3. p \in PublicationId /\ Opened(o).total_parts = o.total_parts
  BY <1>1, WireAssumption DEF Admitted, Fits
<1> HIDE DEF w
<1>4. DOMAIN w.parts = 0 .. o.total_parts - 1
  BY <1>1, <1>2, CompleteIsAll DEF PartsRead
<1>5. /\ \A i \in DOMAIN w.parts : w.parts[i] \subseteq Merged(w)
      /\ \A x \in Merged(w) : \E i \in DOMAIN w.parts : x \in w.parts[i]
  BY DEF Merged, Range
<1>6. out.publication_id = p /\ out.projection = Merged(w)
  OBVIOUS
<1> HIDE DEF out
<1>7. /\ DOMAIN pending' = DOMAIN pending \ {p}
      /\ \A x \in DOMAIN pending' : pending'[x] = pending[x]
  BY <1>1
<1>8. ASSUME NEW q, q.publication_id = p, q.total_parts = o.total_parts
      PROVE  PlanIsWhole(q)'
  <2> SUFFICES ASSUME NEW i \in 0 .. o.total_parts - 1
               PROVE  \E x \in SeenOf(p)' : x.part_index = i /\ x.total_parts = o.total_parts
    BY <1>8 DEF PlanIsWhole
  <2>0. i \in DOMAIN w.parts
    BY <1>4
  <2>1. \A j \in DOMAIN w.parts :
          \E x \in seen' : /\ x.publication_id = p
                           /\ x.part_index = j
                           /\ x.total_parts = o.total_parts
    BY <1>1, <1>2 DEF PartsRead
  <2>2. PICK x \in seen' : /\ x.publication_id = p
                           /\ x.part_index = i
                           /\ x.total_parts = o.total_parts
    BY <2>0, <2>1
  <2> QED
    BY <2>2 DEF SeenOf
<1>9. PendingInv'
  <2>1. pending' \in Inboxes
    <3>1. PICK P \in SUBSET PublicationId : pending \in [P -> Entries]
      BY DEF InboxInv, PendingInv, Inboxes
    <3>2. pending' \in [P \ {p} -> Entries]
      BY <1>1, <3>1
    <3>3. P \ {p} \in SUBSET PublicationId
      BY <3>1
    <3> QED
      BY <3>2, <3>3 DEF Inboxes
  <2>2. ASSUME NEW x \in DOMAIN pending'
        PROVE  /\ DOMAIN pending'[x].parts # {}
               /\ ~IsComplete(pending'[x])
               /\ PartsRead(x, pending'[x], seen')
    BY <1>1, <1>7, <2>2 DEF InboxInv, PendingInv, PartsRead
  <2> QED
    BY <1>1, <2>1, <2>2 DEF InboxInv, PendingInv
<1>10. CompletedInv'
  <2>1. o \in SeenOf(p)' /\ PlanIsWhole(o)'
    BY <1>1, <1>8 DEF SeenOf
  <2>2. Merged(w) \subseteq UNION { q.projection : q \in SeenOf(p)' }
    <3> SUFFICES ASSUME NEW x \in Merged(w)
                 PROVE  \E q \in SeenOf(p)' : x \in q.projection
      OBVIOUS
    <3>1. PICK i \in DOMAIN w.parts : x \in w.parts[i]
      BY <1>5
    <3>2. PICK q \in seen' : q.publication_id = p /\ q.projection = w.parts[i]
      BY <1>1, <1>2, <3>1 DEF PartsRead
    <3> QED
      BY <3>1, <3>2 DEF SeenOf
  <2>3. ASSUME NEW c \in completed'
        PROVE  /\ c.publication_id \in PublicationId
               /\ c.projection \subseteq UNION { q.projection : q \in SeenOf(c.publication_id)' }
               /\ \E q \in SeenOf(c.publication_id)' : PlanIsWhole(q)'
    <3>1. CASE c \in completed
      BY <1>1, <3>1, CompletedKept DEF InboxInv
    <3>2. CASE c = out
      BY <1>3, <1>6, <2>1, <2>2, <3>2
    <3> QED
      BY <1>1, <3>1, <3>2
  <2> QED
    BY <2>3 DEF CompletedInv
<1>11. ReadInv'
  <2>1. ASSUME NEW q \in seen', q.publication_id = p, q.total_parts = o.total_parts,
               q.part_index \in DOMAIN w.parts, q.projection = w.parts[q.part_index]
        PROVE  IsDelivered(q)'
    <3>1. PlanIsWhole(q)'
      BY <1>8, <2>1
    <3>2. out \in completed' /\ q.projection \subseteq out.projection
      BY <1>1, <1>5, <1>6, <2>1
    <3> QED
      BY <1>6, <2>1, <3>1, <3>2 DEF IsDelivered
  <2>2. IsDelivered(o)'
    BY <1>1, <1>2, <2>1
  <2>3. ASSUME NEW q \in seen, IsPending(q)
        PROVE  IsPending(q)' \/ IsDelivered(q)'
    <3>1. CASE q.publication_id # p
      BY <1>7, <2>3, <3>1 DEF IsPending
    <3>2. CASE q.publication_id = p
      <4>1. Opened(o) = pending[p]
        BY <2>3, <3>2 DEF Opened, IsPending
      <4> QED
        BY <1>1, <1>2, <1>3, <2>1, <2>3, <3>2, <4>1 DEF IsPending
    <3> QED
      BY <3>1, <3>2
  <2>4. ASSUME NEW q \in seen, IsDelivered(q)
        PROVE  IsDelivered(q)'
    BY <1>1, <2>4, ReadingIsMonotone DEF IsDelivered
  <2> QED
    BY <1>1, <2>2, <2>3, <2>4 DEF InboxInv, ReadInv
<1>12. ReopenedInv'
  <2> SUFFICES ASSUME NEW c \in completed', c.publication_id \in DOMAIN pending'
               PROVE  ~Orderly'
    BY DEF ReopenedInv
  <2>1. c \in completed /\ c.publication_id \in DOMAIN pending
    BY <1>1, <1>6, <1>7
  <2> QED
    BY <1>1, <2>1, ReadingIsMonotone DEF InboxInv, ReopenedInv
<1>13. ExpectedInv'
  <2>1. ASSUME expected # {}
        PROVE  completed' = {out} /\ p \in expected
    BY <1>1, <2>1 DEF MayComplete, Admitted, RightPublication
  <2>2. expected # {} =>
          \E x \in expected, projection \in { c.projection : c \in completed' } :
             completed' = {[publication_id |-> x, projection |-> projection]}
    <3> SUFFICES ASSUME expected # {}
                 PROVE  \E x \in expected, projection \in { c.projection : c \in completed' } :
                          completed' = {[publication_id |-> x, projection |-> projection]}
      OBVIOUS
    <3>1. p \in expected /\ out.projection \in { c.projection : c \in completed' }
      BY <2>1
    <3>2. completed' = {[publication_id |-> p, projection |-> out.projection]}
      BY <2>1, <1>6 DEF out
    <3> QED
      BY <3>1, <3>2
  <2> QED
    BY <1>1, <2>2 DEF InboxInv, ExpectedInv
<1>14. VerdictInv'
  BY <1>1 DEF InboxInv, VerdictInv
<1> QED
  BY <1>9, <1>10, <1>11, <1>12, <1>13, <1>14 DEF InboxInv

\* InboxInv is inductive: objects join or complete their publication, a
\* refusal and the end of the list change only the verdict.
LEMMA InboxInvStep == InboxInv /\ [Next]_vars => InboxInv'
<1> SUFFICES ASSUME InboxInv, [Next]_vars
             PROVE  InboxInv'
  OBVIOUS
<1>0. ASSUME UNCHANGED <<expected, pending, seen, completed>>
      PROVE  /\ PendingInv' /\ CompletedInv' /\ ReopenedInv' /\ ExpectedInv'
             /\ \A o \in seen : (IsPending(o) \/ IsDelivered(o)) => (IsPending(o) \/ IsDelivered(o))'
  <2>1. PendingInv'
    BY <1>0 DEF InboxInv, PendingInv
  <2>2. CompletedInv'
    BY <1>0, CompletedKept DEF InboxInv, CompletedInv
  <2>3. ReopenedInv'
    BY <1>0, ReadingIsMonotone DEF InboxInv, ReopenedInv
  <2>4. ExpectedInv'
    BY <1>0 DEF InboxInv, ExpectedInv
  <2>5. \A o \in seen : (IsPending(o) \/ IsDelivered(o)) => (IsPending(o) \/ IsDelivered(o))'
    BY <1>0, ReadingIsMonotone DEF IsPending, IsDelivered
  <2> QED
    BY <2>1, <2>2, <2>3, <2>4, <2>5
<1>1. ASSUME UNCHANGED <<expected, pending, seen, completed, verdict>>
      PROVE  InboxInv'
  <2>1. ReadInv' /\ VerdictInv'
    BY <1>0, <1>1 DEF InboxInv, ReadInv, VerdictInv
  <2> QED
    BY <1>0, <1>1, <2>1 DEF InboxInv
<1>2. ASSUME NEW o \in Wire, Refuse(o)
      PROVE  InboxInv'
  <2>1. /\ seen' = seen \cup {o} /\ verdict' = "refused"
        /\ expected' = expected /\ pending' = pending /\ completed' = completed
    BY <1>2 DEF Refuse
  <2>2. PendingInv'
    BY <2>1 DEF InboxInv, PendingInv, PartsRead
  <2>3. CompletedInv'
    BY <2>1, CompletedKept DEF InboxInv, CompletedInv
  <2>4. ReopenedInv'
    BY <2>1, ReadingIsMonotone DEF InboxInv, ReopenedInv
  <2>5. ReadInv' /\ ExpectedInv' /\ VerdictInv'
    BY <2>1 DEF InboxInv, ReadInv, ExpectedInv, VerdictInv
  <2> QED
    BY <2>2, <2>3, <2>4, <2>5 DEF InboxInv
<1>3. CASE End
  <2>1. /\ UNCHANGED <<expected, pending, seen, completed>>
        /\ verdict = "reading"
        /\ verdict' \in {"accepted", "refused"}
        /\ verdict' = "accepted" => DOMAIN pending = {} /\ (expected # {} => completed # {})
    BY <1>3 DEF End
  <2>2. PendingInv' /\ CompletedInv' /\ ReopenedInv' /\ ExpectedInv'
    BY <1>0, <2>1
  <2>3. ReadInv'
    BY <1>0, <2>1 DEF InboxInv, ReadInv
  <2>4. VerdictInv'
    BY <2>1 DEF VerdictInv
  <2> QED
    BY <2>2, <2>3, <2>4 DEF InboxInv
<1>4. ASSUME NEW o \in Wire, Skip(o)
      PROVE  InboxInv'
  BY <1>1, <1>4 DEF Skip
<1>5. CASE UNCHANGED vars
  BY <1>1, <1>5 DEF vars
<1> QED
  BY <1>2, <1>3, <1>4, <1>5, AccumulateStep, CompleteStep DEF Next

\* InboxInv holds of every reachable state of the exchange.
LEMMA InboxAlways == ExchangeSpec => []InboxInv
<1>1. ExchangeInit => InboxInv
  <2> SUFFICES ASSUME Init
               PROVE  InboxInv
    BY DEF ExchangeInit
  <2>1. /\ DOMAIN pending = {} /\ seen = {} /\ completed = {} /\ verdict = "reading"
        /\ expected = {} \/ \E p \in PublicationId : expected = {p}
    BY DEF Init
  <2>2. pending \in Inboxes
    <3>1. pending \in [{} -> Entries]
      BY DEF Init
    <3>2. {} \in SUBSET PublicationId
      OBVIOUS
    <3> QED
      BY <3>1, <3>2 DEF Inboxes
  <2> QED
    BY <2>1, <2>2 DEF InboxInv, PendingInv, CompletedInv, ReadInv, ReopenedInv,
                      ExpectedInv, VerdictInv
<1>2. [ExchangeNext]_<<vars, exchange>> => [Next]_vars
  BY DEF ExchangeNext, LocallyEdit, ExportDirty, Acknowledge, ExportLost,
         ImportProjection, ImportStopped
<1> QED
  BY <1>1, <1>2, InboxInvStep, PTL DEF ExchangeSpec

\* What an accepted list yields is all of it and nothing else.
THEOREM AcceptedAlwaysWhole == ExchangeSpec => []AcceptedIsWhole
<1>1. InboxInv => AcceptedIsWhole
  <2> SUFFICES ASSUME InboxInv, verdict = "accepted"
               PROVE  /\ \A o \in seen : PlanIsWhole(o)
                      /\ \A p \in PublicationId :
                            UNION { c.projection : c \in { x \in completed : x.publication_id = p } }
                            = UNION { o.projection : o \in SeenOf(p) }
    BY DEF AcceptedIsWhole
  <2>1. \A o \in seen : IsDelivered(o)
    BY DEF InboxInv, VerdictInv, ReadInv, IsPending
  <2>2. \A o \in seen : PlanIsWhole(o)
    BY <2>1 DEF IsDelivered
  <2>3. ASSUME NEW p \in PublicationId
        PROVE  UNION { c.projection : c \in { x \in completed : x.publication_id = p } }
               = UNION { o.projection : o \in SeenOf(p) }
    <3>1. ASSUME NEW c \in completed, c.publication_id = p, NEW x \in c.projection
          PROVE  \E o \in SeenOf(p) : x \in o.projection
      BY <3>1 DEF InboxInv, CompletedInv
    <3>2. ASSUME NEW o \in SeenOf(p), NEW x \in o.projection
          PROVE  \E c \in completed : c.publication_id = p /\ x \in c.projection
      <4>1. o \in seen /\ o.publication_id = p
        BY DEF SeenOf
      <4> QED
        BY <2>1, <4>1 DEF IsDelivered
    <3> QED
      BY <3>1, <3>2
  <2> QED
    BY <2>2, <2>3
<1> QED
  BY <1>1, InboxAlways, PTL

\* A pending outbox entry that decodes yields one projection of its own
\* publication.
THEOREM PendingAlwaysExact == ExchangeSpec => []PendingIsExact
<1>1. InboxInv => PendingIsExact
  BY DEF InboxInv, ExpectedInv, VerdictInv, PendingIsExact
<1> QED
  BY <1>1, InboxAlways, PTL

\* An object that does not join its publication breaks the sealing rules or
\* belongs to another publication than the staged one.
LEMMA RefusedObject ==
    ASSUME InboxInv, NEW o \in Wire, Refuse(o)
    PROVE  ~Orderly' \/ (expected # {} /\ o.publication_id \notin expected)
<1> DEFINE p == o.publication_id
           w == WithPart(o)
<1> SUFFICES ASSUME Orderly', expected = {} \/ p \in expected
             PROVE  FALSE
  OBVIOUS
<1>1. o \notin seen /\ seen' = seen \cup {o}
  BY DEF Refuse, AlreadySeen
<1>2. o.well_formed /\ Unprotects(o)
  BY <1>1 DEF Orderly
<1>3. WireDecodes(o) /\ RightPublication(o)
  BY <1>2 DEF WireDecodes, Unprotects, RightPublication
<1>4. ASSUME NEW c \in completed
      PROVE  c.publication_id # p
  BY <1>1, <1>2, LateObjectIsDisorder DEF InboxInv
<1>5. ASSUME NEW q \in seen, q.publication_id = p
      PROVE  /\ q.total_parts = o.total_parts
             /\ q.part_index # o.part_index
             /\ Consistent(q.projection \cup o.projection)
  BY <1>1, <1>5 DEF Orderly
<1>6. Fits(o)
  <2>1. CASE p \notin DOMAIN pending
    BY <2>1 DEF Fits, Opened
  <2>2. CASE p \in DOMAIN pending
    <3>1. Opened(o) = pending[p]
      BY <2>2 DEF Opened
    <3>2. /\ DOMAIN pending[p].parts # {}
          /\ \A i \in DOMAIN pending[p].parts :
               \E q \in seen : /\ q.publication_id = p
                               /\ q.part_index = i
                               /\ q.total_parts = pending[p].total_parts
      BY <2>2 DEF InboxInv, PendingInv, PartsRead
    <3>3. pending[p].total_parts = o.total_parts
      BY <1>5, <3>2
    <3>4. o.part_index \notin DOMAIN pending[p].parts
      BY <1>5, <3>2
    <3> QED
      BY <3>1, <3>3, <3>4 DEF Fits
  <2> QED
    BY <2>1, <2>2
<1>7. Admitted(o)
  BY <1>2, <1>3, <1>6 DEF Admitted
<1>8. PartsRead(p, w, seen')
  BY <1>1, <1>7, PartAdded DEF InboxInv
<1>9. Consistent(Merged(w))
  <2> HIDE DEF w
  <2> SUFFICES ASSUME NEW x \in Merged(w), NEW y \in Merged(w), x[1] = y[1]
               PROVE  x[2] = y[2]
    BY DEF Consistent
  <2>1. PICK i \in DOMAIN w.parts, j \in DOMAIN w.parts : x \in w.parts[i] /\ y \in w.parts[j]
    BY DEF Merged, Range
  <2>2. PICK q \in seen' : q.publication_id = p /\ x \in q.projection
    BY <1>8, <2>1 DEF PartsRead
  <2>3. PICK r \in seen' : r.publication_id = p /\ y \in r.projection
    BY <1>8, <2>1 DEF PartsRead
  <2>4. CASE q = r
    <3>1. q \in Wire
      BY <1>1, <2>2 DEF InboxInv, PendingInv
    <3> QED
      BY <2>2, <2>3, <2>4, <3>1, WireAssumption DEF Consistent
  <2>5. CASE q # r
    <3>1. Consistent(q.projection \cup r.projection)
      BY <2>2, <2>3, <2>5 DEF Orderly
    <3> QED
      BY <2>2, <2>3, <3>1 DEF Consistent
  <2> QED
    BY <2>4, <2>5
<1>10. MayComplete
  <2>1. ASSUME expected # {}, completed # {}
        PROVE  FALSE
    <3>1. PICK x \in expected, projection \in { c.projection : c \in completed } :
             completed = {[publication_id |-> x, projection |-> projection]}
      BY <2>1 DEF InboxInv, ExpectedInv
    <3>2. p = x
      BY <2>1, <3>1 DEF InboxInv, ExpectedInv
    <3>3. PICK c \in completed : c.publication_id = x
      BY <3>1
    <3> QED
      BY <1>4, <3>2, <3>3
  <2> QED
    BY <2>1 DEF MayComplete
<1> QED
  BY <1>7, <1>9, <1>10 DEF Refuse

\* A list that ends with an object missing lacks an announced part, or its
\* objects break the sealing rules.
LEMMA RefusedEnd ==
    ASSUME InboxInv, verdict = "reading", Orderly, \A o \in seen : PlanIsWhole(o)
    PROVE  /\ DOMAIN pending = {}
           /\ seen # {} => completed # {}
<1>1. ASSUME NEW p \in DOMAIN pending
      PROVE  FALSE
  <2> DEFINE e == pending[p]
  <2>1. /\ e \in Entries
        /\ DOMAIN e.parts # {}
        /\ ~IsComplete(e)
        /\ PartsRead(p, e, seen)
    BY DEF InboxInv, PendingInv, Inboxes
  <2> HIDE DEF e
  <2>2. PICK o \in seen : o.publication_id = p /\ o.total_parts = e.total_parts
    BY <2>1 DEF PartsRead
  <2>3. \A q \in SeenOf(p) : q.part_index \in DOMAIN e.parts
    <3> SUFFICES ASSUME NEW q \in SeenOf(p)
                 PROVE  q.part_index \in DOMAIN e.parts
      OBVIOUS
    <3>1. q \in seen /\ q.publication_id = p
      BY DEF SeenOf
    <3>2. ~IsDelivered(q)
      BY <3>1 DEF InboxInv, ReopenedInv, IsDelivered
    <3>3. IsPending(q)
      BY <3>1, <3>2 DEF InboxInv, ReadInv
    <3> QED
      BY <3>1, <3>3 DEF IsPending, e
  <2>4. \A i \in 0 .. e.total_parts - 1 : i \in DOMAIN e.parts
    <3>1. PlanIsWhole(o)
      BY <2>2
    <3>2. \A i \in 0 .. e.total_parts - 1 : \E q \in SeenOf(p) : q.part_index = i
      BY <2>2, <3>1 DEF PlanIsWhole
    <3> QED
      BY <2>3, <3>2
  <2>5. \A i \in DOMAIN e.parts : i < e.total_parts
    BY <2>1 DEF PartsRead
  <2>6. \A i \in DOMAIN e.parts : i \in 0 .. e.total_parts - 1
    <3>1. e.total_parts \in Nat /\ DOMAIN e.parts \subseteq Nat
      BY <2>1 DEF Entries
    <3> QED
      BY <2>5, <3>1
  <2>7. DOMAIN e.parts = 0 .. e.total_parts - 1
    BY <2>4, <2>6
  <2> QED
    BY <2>1, <2>5, <2>7, CompleteIsAll
<1>2. seen # {} => completed # {}
  BY <1>1 DEF InboxInv, ReadInv, IsPending, IsDelivered
<1> QED
  BY <1>1, <1>2

\* A list is refused only for a cause; order and exact repetition are none.
THEOREM RefusalHasCause == ExchangeSpec => []RefusedForCause
<1>1. InboxInv /\ RefusedForCause /\ [Next]_vars => RefusedForCause'
  <2> SUFFICES ASSUME InboxInv, RefusedForCause, [Next]_vars, verdict' = "refused"
               PROVE  RefusedForCause'
    BY DEF RefusedForCause
  <2>1. CASE seen' = seen /\ expected' = expected /\ verdict = "refused"
    BY <2>1 DEF RefusedForCause, Orderly, PlanIsWhole, SeenOf
  <2>2. ASSUME NEW o \in Wire, Refuse(o)
        PROVE  RefusedForCause'
    <3>1. seen' = seen \cup {o} /\ expected' = expected
      BY <2>2 DEF Refuse
    <3>2. ~Orderly' \/ (expected' # {} /\ o.publication_id \notin expected')
      BY <2>2, <3>1, RefusedObject
    <3> QED
      BY <3>1, <3>2 DEF RefusedForCause
  <2>3. CASE End
    <3>1. /\ UNCHANGED <<expected, pending, seen, completed>>
          /\ verdict = "reading"
          /\ DOMAIN pending # {} \/ (expected # {} /\ completed = {})
      BY <2>3 DEF End
    <3>2. \/ ~Orderly
          \/ \E o \in seen : ~PlanIsWhole(o)
          \/ expected # {} /\ seen = {}
      BY <3>1, RefusedEnd
    <3>3. /\ Orderly' = Orderly
          /\ \A o \in seen : PlanIsWhole(o)' => PlanIsWhole(o)
      BY <3>1 DEF Orderly, PlanIsWhole, SeenOf
    <3> QED
      BY <3>1, <3>2, <3>3 DEF RefusedForCause
  <2>4. ASSUME NEW o \in Wire, Skip(o) \/ Accumulate(o) \/ Complete(o)
        PROVE  FALSE
    BY <2>4 DEF Skip, Accumulate, Complete, Take
  <2>5. CASE UNCHANGED vars
    BY <2>1, <2>5 DEF vars
  <2> QED
    BY <2>2, <2>3, <2>4, <2>5 DEF Next
<1>2. ExchangeInit => RefusedForCause
  BY DEF ExchangeInit, Init, RefusedForCause
<1>3. [ExchangeNext]_<<vars, exchange>> => [Next]_vars
  BY DEF ExchangeNext, LocallyEdit, ExportDirty, Acknowledge, ExportLost,
         ImportProjection, ImportStopped
<1> QED
  BY <1>1, <1>2, <1>3, InboxAlways, PTL DEF ExchangeSpec

-----------------------------------------------------------------------------
(* The domains *)

Held == UNION Range(domains)

\* A statement is where it belongs.
InPlace(x) == x[1] \in DOMAIN KeyOf /\ x \in StateOf(KeyOf[x[1]])

DomainsInv ==
    /\ \A k \in DOMAIN domains :
          /\ Consistent(domains[k])
          /\ \A x \in domains[k] : x[1] \in DOMAIN KeyOf /\ KeyOf[x[1]] = k
    /\ \A x \in own : InPlace(x)
    /\ \A projection \in imported : \A x \in projection : InPlace(x)
    /\ \A projection \in refused : ~Consistent(Held \cup projection)

\* Steps of the local and of the remote side only add statements.
LEMMA DomainsGrow ==
    ASSUME \A k : StateOf(k) \subseteq StateOf(k)'
    PROVE  /\ \A x : InPlace(x) => InPlace(x)'
           /\ \A projection : ~Consistent(Held \cup projection) =>
                              ~Consistent(Held' \cup projection)
<1>1. \A x : InPlace(x) => InPlace(x)'
  BY DEF InPlace
<1>2. Held \subseteq Held'
  <2> SUFFICES ASSUME NEW k \in DOMAIN domains, NEW x \in domains[k]
               PROVE  x \in Held'
    BY DEF Held, Range
  <2>1. x \in StateOf(k)'
    BY DEF StateOf
  <2> QED
    BY <2>1 DEF StateOf, Held, Range
<1>3. \A projection : ~Consistent(Held \cup projection) => ~Consistent(Held' \cup projection)
  BY <1>2 DEF Consistent
<1> QED
  BY <1>1, <1>3

\* Domains that are consistent one by one are consistent together, since an
\* identity belongs to one of them.
LEMMA HeldConsistent == DomainsInv => Consistent(Held)
<1> SUFFICES ASSUME DomainsInv, NEW x \in Held, NEW y \in Held, x[1] = y[1]
             PROVE  x[2] = y[2]
  BY DEF Consistent
<1>1. PICK j \in DOMAIN domains, k \in DOMAIN domains : x \in domains[j] /\ y \in domains[k]
  BY DEF Held, Range
<1>2. j = k
  BY <1>1 DEF DomainsInv
<1> QED
  BY <1>1, <1>2 DEF DomainsInv, Consistent

\* Identities of a completed projection have a domain.
LEMMA CompletedHasKeys ==
    ASSUME InboxInv, NEW c \in completed, NEW x \in c.projection
    PROVE  x[1] \in DOMAIN KeyOf
<1>1. PICK o \in SeenOf(c.publication_id) : x \in o.projection
  BY DEF InboxInv, CompletedInv
<1>2. o \in Wire
  BY <1>1 DEF SeenOf, InboxInv, PendingInv
<1> QED
  BY <1>1, <1>2, ExchangeAssumption

\* What import_projection does to the domains, whether it stops or not.
LEMMA ImportGrows ==
    ASSUME DomainsInv, NEW projection, \A x \in projection : x[1] \in DOMAIN KeyOf,
           domains' = ImportInto(DomainsOf(projection))
    PROVE  /\ \A k : StateOf(k) \subseteq StateOf(k)'
           /\ \A k \in DOMAIN domains' :
                 /\ Consistent(domains'[k])
                 /\ \A x \in domains'[k] : x[1] \in DOMAIN KeyOf /\ KeyOf[x[1]] = k
           /\ \A k \in MergedKeys(DomainsOf(projection)) :
                 { x \in projection : KeyOf[x[1]] = k } \subseteq StateOf(k)'
<1> DEFINE incoming == DomainsOf(projection)
           M == MergedKeys(incoming)
<1>1. /\ DOMAIN incoming = { KeyOf[x[1]] : x \in projection }
      /\ \A k \in DOMAIN incoming : incoming[k] = { x \in projection : KeyOf[x[1]] = k }
  BY DEF DomainsOf
<1>2. ASSUME NEW k \in M
      PROVE  k \in DOMAIN incoming /\ Consistent(StateOf(k) \cup incoming[k])
  <2>1. PICK j \in DOMAIN Keys :
          k = Keys[j] /\ k \in DOMAIN incoming /\ \A r \in RefusedAt(incoming) : j < r
    BY DEF MergedKeys
  <2>2. j \in Nat
    BY <2>1, ExchangeAssumption
  <2>3. j \notin RefusedAt(incoming)
    BY <2>1, <2>2
  <2> QED
    BY <2>1, <2>3 DEF RefusedAt
<1>3. domains' = [k \in DOMAIN domains \cup M |->
                    IF k \in M THEN StateOf(k) \cup incoming[k] ELSE domains[k]]
  BY DEF ImportInto
<1> HIDE DEF incoming, M
<1>4. /\ DOMAIN domains' = DOMAIN domains \cup M
      /\ \A k \in M : domains'[k] = StateOf(k) \cup incoming[k]
      /\ \A k \in DOMAIN domains \ M : domains'[k] = domains[k]
  BY <1>3
<1>5. \A k : StateOf(k) \subseteq StateOf(k)'
  BY <1>4 DEF StateOf
<1>6. ASSUME NEW k \in DOMAIN domains'
      PROVE  /\ Consistent(domains'[k])
             /\ \A x \in domains'[k] : x[1] \in DOMAIN KeyOf /\ KeyOf[x[1]] = k
  <2>1. CASE k \in M
    <3>1. \A x \in StateOf(k) : x[1] \in DOMAIN KeyOf /\ KeyOf[x[1]] = k
      BY DEF StateOf, DomainsInv
    <3>2. \A x \in incoming[k] : x[1] \in DOMAIN KeyOf /\ KeyOf[x[1]] = k
      BY <1>1, <1>2, <2>1
    <3> QED
      BY <1>2, <1>4, <2>1, <3>1, <3>2
  <2>2. CASE k \notin M
    BY <1>4, <2>2 DEF DomainsInv
  <2> QED
    BY <2>1, <2>2
<1>7. ASSUME NEW k \in M
      PROVE  { x \in projection : KeyOf[x[1]] = k } \subseteq StateOf(k)'
  BY <1>1, <1>2, <1>4 DEF StateOf
<1> QED
  BY <1>5, <1>6, <1>7 DEF M, incoming

\* DomainsInv is inductive relative to InboxInv.
LEMMA DomainsInvStep ==
    InboxInv /\ DomainsInv /\ [ExchangeNext]_<<vars, exchange>> => DomainsInv'
<1> SUFFICES ASSUME InboxInv, DomainsInv, [ExchangeNext]_<<vars, exchange>>
             PROVE  DomainsInv'
  OBVIOUS
<1>1. CASE UNCHANGED <<domains, own, imported, refused>>
  <2>1. \A k : StateOf(k) \subseteq StateOf(k)'
    BY <1>1 DEF StateOf
  <2> QED
    BY <1>1, <2>1, DomainsGrow DEF DomainsInv
<1>2. ASSUME NEW x \in Edits, LocallyEdit(x)
      PROVE  DomainsInv'
  <2> DEFINE k == KeyOf[x[1]]
  <2>1. /\ x[1] \in DOMAIN KeyOf
        /\ \A y \in StateOf(k) : y[1] # x[1]
        /\ domains' = [j \in DOMAIN domains \cup {k} |->
                          IF j = k THEN StateOf(k) \cup {x} ELSE domains[j]]
        /\ own' = own \cup {x} /\ imported' = imported /\ refused' = refused
    BY <1>2, ExchangeAssumption DEF LocallyEdit, SetDomain
  <2>2. /\ DOMAIN domains' = DOMAIN domains \cup {k}
        /\ domains'[k] = StateOf(k) \cup {x}
        /\ \A j \in DOMAIN domains : j # k => domains'[j] = domains[j]
    BY <2>1
  <2>3. \A j : StateOf(j) \subseteq StateOf(j)'
    BY <2>2 DEF StateOf
  <2>4. /\ Consistent(StateOf(k) \cup {x})
        /\ \A y \in StateOf(k) \cup {x} : y[1] \in DOMAIN KeyOf /\ KeyOf[y[1]] = k
    BY <2>1 DEF StateOf, DomainsInv, Consistent
  <2>5. InPlace(x)'
    BY <2>1, <2>2 DEF InPlace, StateOf
  <2>6. \A j \in DOMAIN domains' :
          /\ Consistent(domains'[j])
          /\ \A y \in domains'[j] : y[1] \in DOMAIN KeyOf /\ KeyOf[y[1]] = j
    BY <2>2, <2>4 DEF DomainsInv
  <2> QED
    BY <2>1, <2>3, <2>5, <2>6, DomainsGrow DEF DomainsInv
<1>3. ASSUME NEW c \in completed, ImportProjection(c.projection) \/ ImportStopped(c.projection)
      PROVE  DomainsInv'
  <2> DEFINE projection == c.projection
             incoming == DomainsOf(projection)
  <2>1. domains' = ImportInto(incoming) /\ own' = own
    BY <1>3 DEF ImportProjection, ImportStopped
  <2>2. \A x \in projection : x[1] \in DOMAIN KeyOf
    BY CompletedHasKeys
  <2> HIDE DEF projection
  <2>3. /\ \A k : StateOf(k) \subseteq StateOf(k)'
        /\ \A k \in DOMAIN domains' :
              /\ Consistent(domains'[k])
              /\ \A x \in domains'[k] : x[1] \in DOMAIN KeyOf /\ KeyOf[x[1]] = k
        /\ \A k \in MergedKeys(incoming) :
              { x \in projection : KeyOf[x[1]] = k } \subseteq StateOf(k)'
    BY <2>1, <2>2, ImportGrows
  <2>4. /\ \A x \in own : InPlace(x)'
        /\ \A p \in imported : \A x \in p : InPlace(x)'
        /\ \A p \in refused : ~Consistent(Held' \cup p)
    BY <2>3, DomainsGrow DEF DomainsInv
  <2>5. ASSUME RefusedAt(incoming) = {}, NEW x \in projection
        PROVE  InPlace(x)'
    <3>1. KeyOf[x[1]] \in DOMAIN incoming
      BY DEF DomainsOf
    <3>2. PICK i \in DOMAIN Keys : Keys[i] = KeyOf[x[1]]
      BY <2>2, ExchangeAssumption DEF Range
    <3>3. KeyOf[x[1]] \in MergedKeys(incoming)
      BY <2>5, <3>1, <3>2 DEF MergedKeys
    <3>4. x \in StateOf(KeyOf[x[1]])'
      BY <2>3, <3>3
    <3> QED
      BY <2>2, <3>4 DEF InPlace
  <2>6. ASSUME RefusedAt(incoming) # {}
        PROVE  ~Consistent(Held' \cup projection)
    <3>1. PICK i \in RefusedAt(incoming) : TRUE
      BY <2>6
    <3>2. /\ Keys[i] \in DOMAIN incoming
          /\ ~Consistent(StateOf(Keys[i]) \cup incoming[Keys[i]])
      BY <3>1 DEF RefusedAt
    <3>3. incoming[Keys[i]] \subseteq projection
      BY <3>2 DEF DomainsOf
    <3>4. StateOf(Keys[i]) \subseteq Held'
      <4>1. StateOf(Keys[i]) \subseteq StateOf(Keys[i])'
        BY <2>3
      <4> QED
        BY <4>1 DEF StateOf, Held, Range
    <3>5. StateOf(Keys[i]) \cup incoming[Keys[i]] \subseteq Held' \cup projection
      BY <3>3, <3>4
    <3> HIDE DEF incoming
    <3> QED
      BY <3>2, <3>5 DEF Consistent
  <2> HIDE DEF incoming
  <2>7. CASE ImportProjection(projection)
    <3>1. imported' = imported \cup {projection} /\ refused' = refused /\ RefusedAt(incoming) = {}
      BY <2>7 DEF ImportProjection, incoming
    <3> QED
      BY <2>1, <2>3, <2>4, <2>5, <3>1 DEF DomainsInv
  <2>8. CASE ImportStopped(projection)
    <3>1. refused' = refused \cup {projection} /\ imported' = imported /\ RefusedAt(incoming) # {}
      BY <2>8 DEF ImportStopped, incoming
    <3> QED
      BY <2>1, <2>3, <2>4, <2>6, <3>1 DEF DomainsInv
  <2> QED
    BY <1>3, <2>7, <2>8 DEF projection
<1>4. CASE \/ Next /\ UNCHANGED exchange
           \/ ExportDirty
           \/ \E e \in exported : Acknowledge(e) \/ ExportLost(e)
           \/ UNCHANGED <<vars, exchange>>
  BY <1>1, <1>4 DEF exchange, ExportDirty, Acknowledge, ExportLost
<1> QED
  BY <1>2, <1>3, <1>4 DEF ExchangeNext

\* DomainsInv holds of every reachable state.
LEMMA DomainsAlways == ExchangeSpec => []DomainsInv
<1>1. ExchangeInit => DomainsInv
  <2> SUFFICES ASSUME ExchangeInit
               PROVE  DomainsInv
    OBVIOUS
  <2>1. /\ domains = DomainsOf(Baseline)
        /\ own = {} /\ imported = {} /\ refused = {}
    BY DEF ExchangeInit
  <2>2. \A k \in DOMAIN domains : domains[k] = { x \in Baseline : KeyOf[x[1]] = k }
    BY <2>1 DEF DomainsOf
  <2>3. ASSUME NEW k \in DOMAIN domains
        PROVE  /\ Consistent(domains[k])
               /\ \A x \in domains[k] : x[1] \in DOMAIN KeyOf /\ KeyOf[x[1]] = k
    BY <2>2, ExchangeAssumption DEF Consistent
  <2> QED
    BY <2>1, <2>3 DEF DomainsInv
<1> QED
  BY <1>1, DomainsInvStep, InboxAlways, PTL DEF ExchangeSpec

\* What was made or imported stays, and a refused import is refused for good.
THEOREM ImportsAlwaysLast == ExchangeSpec => []ImportsLast
<1>1. DomainsInv => ImportsLast
  <2> SUFFICES ASSUME DomainsInv
               PROVE  /\ own \subseteq Held
                      /\ \A projection \in imported : projection \subseteq Held
                      /\ \A projection \in refused : ~Consistent(Held \cup projection)
                      /\ Consistent(Held)
    BY DEF ImportsLast, Held
  <2>1. \A x : InPlace(x) => x \in Held
    BY DEF InPlace, StateOf, Held, Range
  <2> QED
    BY <2>1, HeldConsistent DEF DomainsInv
<1> QED
  BY <1>1, DomainsAlways, PTL

\* A clean domain has nothing of this replica's own that no acknowledged
\* export carried, whatever happened between an export and its acknowledgement.
THEOREM CleanAlwaysPublished == ExchangeSpec => []CleanIsPublished
<1>1. DomainsInv /\ CleanIsPublished /\ [ExchangeNext]_<<vars, exchange>> => CleanIsPublished'
  <2> SUFFICES ASSUME DomainsInv, CleanIsPublished, [ExchangeNext]_<<vars, exchange>>
               PROVE  CleanIsPublished'
    OBVIOUS
  <2>1. CASE UNCHANGED <<dirty, own, acknowledged>>
    BY <2>1 DEF CleanIsPublished
  <2>2. ASSUME NEW x \in Edits, LocallyEdit(x)
        PROVE  CleanIsPublished'
    BY <2>2 DEF LocallyEdit, CleanIsPublished
  <2>3. ASSUME NEW e \in exported, Acknowledge(e)
        PROVE  CleanIsPublished'
    <3>1. /\ dirty' = dirty \ AcknowledgedKeys(e)
          /\ acknowledged' = acknowledged \cup UNION Range(e)
          /\ own' = own
      BY <2>3 DEF Acknowledge
    <3>2. ASSUME NEW x \in own, KeyOf[x[1]] \in AcknowledgedKeys(e)
          PROVE  x \in UNION Range(e)
      <4> DEFINE k == KeyOf[x[1]]
      <4>1. k \in DOMAIN e /\ StateOf(k) = e[k]
        BY <3>2 DEF AcknowledgedKeys
      <4>2. x \in StateOf(k)
        BY DEF DomainsInv, InPlace
      <4> QED
        BY <4>1, <4>2 DEF Range
    <3> QED
      BY <3>1, <3>2 DEF CleanIsPublished
  <2>4. CASE \/ Next /\ UNCHANGED exchange
             \/ ExportDirty
             \/ \E e \in exported : ExportLost(e)
             \/ \E c \in completed : ImportProjection(c.projection) \/ ImportStopped(c.projection)
             \/ UNCHANGED <<vars, exchange>>
    BY <2>1, <2>4 DEF exchange, ExportDirty, ExportLost, ImportProjection, ImportStopped
  <2> QED
    BY <2>2, <2>3, <2>4 DEF ExchangeNext
<1>2. ExchangeInit => CleanIsPublished
  BY DEF ExchangeInit, CleanIsPublished
<1> QED
  BY <1>1, <1>2, DomainsAlways, PTL DEF ExchangeSpec

=============================================================================
