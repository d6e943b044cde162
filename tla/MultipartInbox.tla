--------------------------- MODULE MultipartInbox ---------------------------
(***************************************************************************)
(* Publications in several parts (apc-sync/protected.rs, MultipartInbox)   *)
(* and the two loops that read a list of wire objects through a fresh      *)
(* inbox: decode_complete_scalar_projections over a fetched range          *)
(* (catchup_set.rs), and decode_pending_recovery_publication over the      *)
(* staged objects of one outbox entry (resume_recovery_batch.rs).          *)
(*                                                                         *)
(* An object on the wire is the part it decodes to: a header, the context  *)
(* it was sealed under, the projection inside, and a nonce that tells two  *)
(* sealings of one part apart.  The transport returns objects in any       *)
(* order, repeated or missing.  A projection is a set of <<identity,       *)
(* statement>> pairs; merging two fails when they disagree on an identity. *)
(***************************************************************************)
EXTENDS Integers, FiniteSets, Functions

CONSTANTS
    PublicationId,
    Continuum,        \* this device's continuum
    Wire,             \* the objects a transport may return
    MaxObjects        \* bound: objects in one list

\* One identity has one statement, as in a register's map.
Consistent(projection) == \A x, y \in projection : x[1] = y[1] => x[2] = y[2]

ASSUME WireAssumption ==
    /\ \A o \in Wire :
          /\ o.publication_id \in PublicationId
          /\ o.part_index \in Nat /\ o.total_parts \in Nat
          /\ o.well_formed \in BOOLEAN
          /\ Consistent(o.projection)
    /\ MaxObjects \in Nat

VARIABLES
    expected,         \* {p}: the objects staged for p are read; {}: a fetched range
    pending,          \* MultipartInbox.pending
    seen,             \* seen_wire_objects
    completed,        \* the projections handed out, each with its publication
    count,            \* objects taken from the list
    verdict           \* "reading", then what the loop returns

vars == <<expected, pending, seen, completed, count, verdict>>

Init ==
    /\ expected \in {{}} \cup { {p} : p \in PublicationId }
    /\ pending = [p \in {} |-> [total_parts |-> 0, parts |-> {}]]
    /\ seen = {}
    /\ completed = {}
    /\ count = 0
    /\ verdict = "reading"

-----------------------------------------------------------------------------
(* One part *)

ValidPartMetadata(o) == o.total_parts # 0 /\ o.part_index < o.total_parts

PartContext(o) == <<Continuum, o.publication_id, o.part_index, o.total_parts>>

\* unprotect_scalar_part: the header is the one the part was sealed under, and
\* what it holds is not empty (EmptyProjection).
Unprotects(o) == ValidPartMetadata(o) /\ o.context = PartContext(o) /\ o.projection # {}

\* The pending entry of o's publication, created when there is none.
Opened(o) ==
    IF o.publication_id \in DOMAIN pending THEN pending[o.publication_id]
    ELSE [total_parts |-> o.total_parts, parts |-> [i \in {} |-> {}]]

\* MultipartTotalMismatch, MultipartPartCollision
Fits(o) ==
    /\ Opened(o).total_parts = o.total_parts
    /\ o.part_index \in DOMAIN Opened(o).parts =>
          Opened(o).parts[o.part_index] = o.projection

WithPart(o) ==
    [Opened(o) EXCEPT !.parts =
        [i \in DOMAIN @ \cup {o.part_index} |-> IF i = o.part_index THEN o.projection ELSE @[i]]]

\* A seeded fault: the last part completes the publication.
EndsPublication(entry) == entry.total_parts - 1 \in DOMAIN entry.parts

IsComplete(entry) == Cardinality(DOMAIN entry.parts) = entry.total_parts

\* The fragments of a complete entry merge into one projection.
Merged(entry) == UNION Range(entry.parts)

-----------------------------------------------------------------------------
(* One object of the list *)

\* A seeded fault: the exact bytes are read again.
NeverSeen(o) == FALSE

AlreadySeen(o) == o \in seen

\* A seeded fault: any publication will do.
AnyPublication(o) == TRUE

\* PublicationIdMismatch, for the staged objects of one publication.
RightPublication(o) == expected = {} \/ o.publication_id \in expected

\* MultipleCompletedPublications, for the same.
MayComplete == expected = {} \/ completed = {}

\* decode_protected_sync_part: no truncated or trailing bytes, a known version
\* and a header that makes sense.
WireDecodes(o) == o.well_formed /\ ValidPartMetadata(o)

Admitted(o) == WireDecodes(o) /\ RightPublication(o) /\ Unprotects(o) /\ Fits(o)

Take == verdict = "reading" /\ count < MaxObjects /\ count' = count + 1

Skip(o) ==
    /\ Take
    /\ AlreadySeen(o)
    /\ UNCHANGED <<expected, pending, seen, completed, verdict>>

Accumulate(o) ==
    /\ Take
    /\ ~AlreadySeen(o)
    /\ Admitted(o)
    /\ ~IsComplete(WithPart(o))
    /\ seen' = seen \cup {o}
    /\ pending' = [p \in DOMAIN pending \cup {o.publication_id} |->
                      IF p = o.publication_id THEN WithPart(o) ELSE pending[p]]
    /\ UNCHANGED <<expected, completed, verdict>>

Complete(o) ==
    /\ Take
    /\ ~AlreadySeen(o)
    /\ Admitted(o)
    /\ IsComplete(WithPart(o))
    /\ Consistent(Merged(WithPart(o)))
    /\ MayComplete
    /\ seen' = seen \cup {o}
    /\ pending' = [p \in DOMAIN pending \ {o.publication_id} |-> pending[p]]
    /\ completed' = completed \cup
          {[publication_id |-> o.publication_id, projection |-> Merged(WithPart(o))]}
    /\ UNCHANGED <<expected, verdict>>

\* The loop returns an error and its inbox is dropped.
Refuse(o) ==
    /\ Take
    /\ ~AlreadySeen(o)
    /\ Admitted(o) /\ IsComplete(WithPart(o)) =>
          ~( Consistent(Merged(WithPart(o))) /\ MayComplete )
    /\ ~( Admitted(o) /\ ~IsComplete(WithPart(o)) )
    /\ seen' = seen \cup {o}
    /\ verdict' = "refused"
    /\ UNCHANGED <<expected, pending, completed>>

\* The list ends.  A fetched range needs an empty inbox; staged objects must
\* have yielded their publication too.
End ==
    /\ verdict = "reading"
    /\ verdict' = IF DOMAIN pending = {} /\ (expected # {} => completed # {})
                  THEN "accepted" ELSE "refused"
    /\ UNCHANGED <<expected, pending, seen, completed, count>>

Next ==
    \/ \E o \in Wire : Skip(o) \/ Accumulate(o) \/ Complete(o) \/ Refuse(o)
    \/ End

Spec == Init /\ [][Next]_vars

-----------------------------------------------------------------------------
(* Properties *)

SeenOf(p) == { o \in seen : o.publication_id = p }

\* All the parts that o's header announces have been read.
PlanIsWhole(o) ==
    \A i \in 0 .. o.total_parts - 1 :
        \E q \in SeenOf(o.publication_id) :
            q.part_index = i /\ q.total_parts = o.total_parts

\* What an accepted list yields is all of it and nothing else: every part any
\* object announces was read, and what each publication yields is the union of
\* its parts, whatever the order, the repetitions and the other publications in
\* between (MultipartInbox::ingest exposes nothing before it is complete).
AcceptedIsWhole ==
    verdict = "accepted" =>
        /\ \A o \in seen : PlanIsWhole(o)
        /\ \A p \in PublicationId :
              UNION { c.projection : c \in { x \in completed : x.publication_id = p } }
              = UNION { o.projection : o \in SeenOf(p) }

\* The objects read so far could come from authors that seal each part once,
\* under one division of the publication.
Orderly ==
    /\ \A o \in seen : o.well_formed /\ Unprotects(o)
    /\ \A o, q \in seen :
          (o # q /\ o.publication_id = q.publication_id) =>
              /\ o.total_parts = q.total_parts
              /\ o.part_index # q.part_index
              /\ Consistent(o.projection \cup q.projection)

\* A list is refused only for a cause: objects that break the sealing rules, a
\* part that is missing, or another publication than the staged one.  Order and
\* exact repetition, even after completion, are no cause.
RefusedForCause ==
    verdict = "refused" =>
        \/ ~Orderly
        \/ \E o \in seen : ~PlanIsWhole(o) \/ (expected # {} /\ o.publication_id \notin expected)
        \/ expected # {} /\ seen = {}

\* A pending outbox entry that decodes yields one projection, of its own
\* publication: classification never compares a mixture with the evidence.
PendingIsExact ==
    (verdict = "accepted" /\ expected # {}) =>
        \E p \in expected, projection \in { c.projection : c \in completed } :
            completed = {[publication_id |-> p, projection |-> projection]}

=============================================================================
