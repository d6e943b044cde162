---------------------------- MODULE ByteFormats ----------------------------
(***************************************************************************)
(* The byte formats: the clear projection (apc-sync/codec.rs), the         *)
(* snapshot of one domain and the container of all (apc-runtime:           *)
(* trusted_state.rs, trusted_state_set.rs), the durable record             *)
(* (recovery.rs), the protected envelope (apc-crypto), the wire part       *)
(* (wire.rs, protected.rs) and the remote image of the Android probe.      *)
(*                                                                         *)
(* A byte string is a sequence of words, one for each field of fixed width *)
(* (a magic, a version, a length, an identity, a flag) and one for each    *)
(* byte of a field of variable width.  What is written is written field by *)
(* field in the order of the encoders; what is read is read by a Reader    *)
(* that stops at the first field that is missing or wrong.  The two orders *)
(* are stated apart, so that TLC can compare them.                         *)
(*                                                                         *)
(* The formats are checked on the registers that ScalarAlgorithms.tla      *)
(* collects and on what SyncRecord.tla says the codecs accept.             *)
(***************************************************************************)
EXTENDS ScalarAlgorithms, SyncRecord

CONSTANT MaxSnapshotRevisions    \* bound: revisions in an enumerated snapshot

ASSUME FormatAssumption == MaxSnapshotRevisions \in Nat

\* The magics, the version and the algorithm; any distinct words would do.
ProjectionMagic == 91
SnapshotMagic   == 92
ContainerMagic  == 93
RecordMagic     == 94
PartMagic       == 95
EnvelopeMagic   == 96
RemoteMagic     == 97
Version         == 1
Algorithm       == 1

Accepted(value) == [ok |-> TRUE, value |-> value]

Refused == [ok |-> FALSE]

AndThen(result, Then(_)) == IF result.ok THEN Then(result.value) ELSE result

-----------------------------------------------------------------------------
(* Writing *)

\* write_bytes: a length and as many bytes.
WriteBytes(bytes) == <<Len(bytes)>> \o bytes

\* write_len and the members of a map or set, each written by Write.
WriteEach(members, Write(_)) ==
    <<Len(members)>> \o FlattenSeq([i \in DOMAIN members |-> Write(members[i])])

WriteId(id) == <<id>>

WriteIdSet(ids) == WriteEach(Ascending(ids), WriteId)

\* write_register, and the finalized statements of a snapshot.
WriteRegister(reg) ==
    LET WriteRevision(id) ==
            <<id>> \o WriteBytes(reg[id].value) \o WriteIdSet(reg[id].parents)
    IN  WriteEach(Ascending(DOMAIN reg), WriteRevision)

\* A domain key is an atom and the bytes of a field of it.
WriteKey(key) == <<key[1]>> \o WriteBytes(key[2])

-----------------------------------------------------------------------------
(* Reading: what is left of the bytes, and the fields read so far *)

Reader(bytes) == [rest |-> bytes, ok |-> TRUE, got |-> <<>>]

Failed == [rest |-> <<>>, ok |-> FALSE, got |-> <<>>]

\* The reader r after a field that left the reader "after" and means "value".
Yield(r, after, value) == [rest |-> after.rest, ok |-> TRUE, got |-> Append(r.got, value)]

\* read_exact of one field of fixed width; UnexpectedEof when there is none.
ReadWord(r) ==
    IF r.ok /\ r.rest # <<>>
    THEN [rest |-> Tail(r.rest), ok |-> TRUE, got |-> Append(r.got, Head(r.rest))]
    ELSE Failed

\* read_len and read_exact of that many.
ReadVec(r) ==
    LET len == ReadWord(r)
    IN  IF len.ok /\ Last(len.got) <= Len(len.rest)
        THEN [rest |-> SubSeq(len.rest, Last(len.got) + 1, Len(len.rest)), ok |-> TRUE,
              got |-> Append(r.got, SubSeq(len.rest, 1, Last(len.got)))]
        ELSE Failed

\* The field that some reading from r ended in, when it is Good; else an error.
Checked(r, field, Good(_), Meaning(_)) ==
    IF field.ok /\ Good(field.got) THEN Yield(r, field, Meaning(field.got)) ELSE Failed

Always(got) == TRUE

Same(got) == got

\* One more item behind the ones that r has.
OneMore(r, Item(_)) == Checked(r, Item([r EXCEPT !.got = <<>>]), Always, Same)

\* "for _ in 0..count", behind read_len: each item is the sequence of the
\* fields that Item reads, and the field is the sequence of the items.
ReadEach(r, Item(_), Good(_), Meaning(_)) ==
    LET len == ReadWord(r)
        Items[n \in Nat] ==
            IF n = 0 THEN [len EXCEPT !.got = <<>>]
            ELSE OneMore(Items[n - 1], Item)
    IN  IF len.ok THEN Checked(r, Items[Last(len.got)], Good, Meaning) ELSE Failed

\* No two items have the same Key: the map or set takes each of them.
Distinct(items, Key(_)) ==
    \A i, j \in DOMAIN items : Key(items[i]) = Key(items[j]) => i = j

\* The map that items with distinct keys fill.
MapOf(items, Key(_), Val(_)) ==
    [k \in { Key(item) : item \in Range(items) } |->
        Val(CHOOSE item \in Range(items) : Key(item) = k)]

FirstField(item) == item[1]

FirstFields(items) == [i \in DOMAIN items |-> items[i][1]]

NoneTwice(items) == Distinct(items, FirstField)

\* DuplicateRevisionInSet
ReadIdSet(r) ==
    LET Ids(items) == Range(FirstFields(items))
    IN  ReadEach(r, ReadWord, NoneTwice, Ids)

\* One revision, or one finalized statement (the fields innermost first).
ReadRevision(r) == ReadIdSet(ReadVec(ReadWord(r)))

Statement(item) == [value |-> item[2], parents |-> item[3]]

Statements(items) == MapOf(items, FirstField, Statement)

\* A seeded fault: the revisions are collected and not validated.
ReadRegisterUnchecked(r) == ReadEach(r, ReadRevision, Always, Statements)

\* read_register: from_revisions skips an exact repetition, refuses another
\* statement of an identity and validates the rest.
ReadRegister(r) ==
    LET Good(items) == /\ \A x, y \in Range(items) : x[1] = y[1] => x = y
                       /\ Validate(Statements(items))
    IN  ReadEach(r, ReadRevision, Good, Statements)

\* The finalized statements: here even an exact repetition is refused
\* (DuplicateFinalizedStatement).
ReadFinalized(r) == ReadEach(r, ReadRevision, NoneTwice, Statements)

\* A flag, and behind a flag of one the fields; InvalidBoolean for the others.
\* The field is the set of what was there, with at most one element.
ReadOptional(r, Item(_), Good(_)) ==
    LET flag == ReadWord(r)
        Some(got) == {got}
    IN  IF ~flag.ok THEN Failed
        ELSE CASE Last(flag.got) = 0 -> Yield(r, flag, {})
               [] Last(flag.got) = 1 ->
                    Checked(r, Item([flag EXCEPT !.got = <<>>]), Good, Some)
               [] OTHER -> Failed

ReadEpoch(r) == ReadOptional(r, ReadRevision, Always)

\* read_optional_cursor, where TransportCursor::new refuses no bytes.
ReadCursor(r) ==
    LET Good(got) == got # <<<<>>>>
    IN  ReadOptional(r, ReadVec, Good)

\* EmptyOutboxObject
NoneEmpty(items) == <<>> \notin Range(FirstFields(items))

\* EmptyOutbox too
ReadObjects(r) ==
    LET Good(items) == items # <<>> /\ NoneEmpty(items)
    IN  ReadEach(r, ReadVec, Good, FirstFields)

\* The reader behind the magic and the version.
ReadHeader(bytes, magic) ==
    LET header == ReadWord(ReadWord(Reader(bytes)))
    IN  IF header.ok /\ header.got = <<magic, Version>>
        THEN [header EXCEPT !.got = <<>>] ELSE Failed

\* A seeded fault: what follows the last field is ignored.
StoppedReading(r) == r.ok

\* TrailingBytes, LengthMismatch
Finished(r) == r.ok /\ r.rest = <<>>

\* What a decoder returns of the fields it read.
Decoded(r, Good(_), Meaning(_)) ==
    IF Finished(r) /\ Good(r.got) THEN Accepted(Meaning(r.got)) ELSE Refused

-----------------------------------------------------------------------------
(* The formats *)

KeyOf(item) == <<item[1], item[2]>>

\* DomainKey::new, DuplicateDomain
KeysAccepted(items) ==
    /\ \A item \in Range(items) : item[2] # <<>>
    /\ Distinct(items, KeyOf)

\* encode_scalar_projection writes this when ProjectionEncodes(p).
EncodeProjection(p) ==
    LET WriteDomain(key) == WriteKey(key) \o WriteRegister(p[key])
    IN  <<ProjectionMagic, Version>> \o WriteEach(SetToSeq(DOMAIN p), WriteDomain)

ThirdField(item) == item[3]

ReadDomain(r) == ReadRegister(ReadVec(ReadWord(r)))

DecodeProjection(bytes) ==
    LET Domain(items) == MapOf(items, KeyOf, ThirdField)
    IN  Decoded(ReadEach(ReadHeader(bytes, ProjectionMagic), ReadDomain, KeysAccepted, Domain),
                Always, FirstField)

EpochId == 5    \* WorkingEpoch::id, which nothing else depends on

WriteEpoch(epoch) ==
    IF epoch = NoEpoch THEN <<0>>
    ELSE <<1, EpochId>> \o WriteBytes(epoch.value) \o WriteIdSet(epoch.observed_frontier)

\* A seeded fault: the two exposure sets in the wrong order.
EncodeSnapshotSwapped(s) ==
    <<SnapshotMagic, Version>> \o WriteRegister(s.causal) \o WriteEpoch(s.pending)
        \o WriteIdSet(s.local) \o WriteRegister(s.finalized)
        \o WriteIdSet(s.handed_off) \o WriteIdSet(s.exposed)

\* encode_local_scalar_snapshot writes this when SnapshotEncodes(s).
EncodeSnapshot(s) ==
    <<SnapshotMagic, Version>> \o WriteRegister(s.causal) \o WriteEpoch(s.pending)
        \o WriteIdSet(s.local) \o WriteRegister(s.finalized)
        \o WriteIdSet(s.exposed) \o WriteIdSet(s.handed_off)

EpochOf(read) ==
    IF read = {} THEN NoEpoch
    ELSE LET fields == CHOOSE f \in read : TRUE
         IN  [value |-> fields[2], observed_frontier |-> fields[3]]

\* The six fields of a snapshot, innermost first.
ReadSnapshot(r) == ReadIdSet(ReadIdSet(ReadFinalized(ReadIdSet(ReadEpoch(ReadRegister(r))))))

SnapshotOf(got) ==
    [ causal |-> got[1], pending |-> EpochOf(got[2]), local |-> got[3],
      finalized |-> got[4], exposed |-> got[5], handed_off |-> got[6] ]

DecodeSnapshot(bytes) ==
    LET Good(got) == Restorable(SnapshotOf(got))
    IN  Decoded(ReadSnapshot(ReadHeader(bytes, SnapshotMagic)), Good, SnapshotOf)

\* encode_multi_scalar_recovery_state writes this when TrustedStateEncodes(c).
EncodeContainer(c) ==
    LET WriteDomain(key) == WriteKey(key) \o WriteBytes(EncodeSnapshot(c[key]))
    IN  <<ContainerMagic, Version>> \o WriteEach(SetToSeq(DOMAIN c), WriteDomain)

ReadNested(r) == ReadVec(ReadVec(ReadWord(r)))

DecodeContainer(bytes) ==
    LET Good(items) == KeysAccepted(items) /\ \A item \in Range(items) : DecodeSnapshot(item[3]).ok
        Nested(item) == DecodeSnapshot(item[3]).value
        Domain(items) == MapOf(items, KeyOf, Nested)
    IN  Decoded(ReadEach(ReadHeader(bytes, ContainerMagic), ReadNested, Good, Domain),
                Always, FirstField)

\* The two codecs of cursors.  ProbeCursorCodec: a revision is one word of
\* fixed width.  GitHubCursorCodec: a commit identity is its bytes, of which
\* decode accepts ASCII and no empty text.
EncodeProbeCursor(revision) == <<revision>>

DecodeProbeCursor(cursor) == IF Len(cursor) = 1 THEN Accepted(cursor[1]) ELSE Refused

EncodeGitHubCursor(oid) == oid

DecodeGitHubCursor(cursor) ==
    IF cursor # <<>> /\ Range(cursor) \subseteq 0 .. 127 THEN Accepted(cursor) ELSE Refused

WriteCursor(cursor) ==
    IF cursor = {} THEN <<0>> ELSE <<1>> \o WriteBytes(CHOOSE c \in cursor : TRUE)

\* encode_durable_sync_record; the trusted state and the objects are bytes.
EncodeRecord(rec) ==
    LET WriteEntry(pub) ==
            <<pub>> \o WriteCursor(rec.outbox[pub].expected_cursor)
                    \o WriteEach(rec.outbox[pub].objects, WriteBytes)
    IN  <<RecordMagic, Version>> \o WriteBytes(rec.trusted_state)
            \o WriteCursor(rec.applied_cursor)
            \o WriteEach(Ascending(DOMAIN rec.outbox), WriteEntry)

ReadEntry(r) == ReadObjects(ReadCursor(ReadWord(r)))

\* DuplicatePublication
DecodeRecord(bytes) ==
    LET Cursor(read) == { c[1] : c \in read }
        Entry(item) == [expected_cursor |-> Cursor(item[2]), objects |-> item[3]]
        Outbox(items) == MapOf(items, FirstField, Entry)
        Meaning(got) == [ trusted_state |-> got[1], applied_cursor |-> Cursor(got[2]),
                          outbox |-> got[3] ]
    IN  Decoded(ReadEach(ReadCursor(ReadVec(ReadHeader(bytes, RecordMagic))),
                         ReadEntry, NoneTwice, Outbox), Always, Meaning)

\* encode_remote_state, decode_remote_state: no version, and no empty object.
EncodeRemoteState(s) ==
    <<RemoteMagic, s.head, s.publish_count>> \o WriteEach(s.objects, WriteBytes)

DecodeRemoteState(bytes) ==
    LET Good(got) == got[1] = RemoteMagic
        Meaning(got) == [head |-> got[2], publish_count |-> got[3], objects |-> got[4]]
    IN  Decoded(ReadEach(ReadWord(ReadWord(ReadWord(Reader(bytes)))), ReadVec, NoneEmpty, FirstFields),
                Good, Meaning)

-----------------------------------------------------------------------------
(* Protection.  The cipher is ideal: its output is one word that opens     *)
(* under the key, the nonce and the associated data it was sealed with.    *)

CipherSeal(key, nonce, aad, plaintext) ==
    <<[key |-> key, nonce |-> nonce, aad |-> aad, plaintext |-> plaintext]>>

CipherOpens(key, nonce, aad, ciphertext) ==
    /\ Len(ciphertext) = 1
    /\ ciphertext[1].key = key /\ ciphertext[1].nonce = nonce /\ ciphertext[1].aad = aad

\* build_aad: the context behind a domain of its own.
BuildAad(context) == <<EnvelopeMagic>> \o context

\* EmptyContext, of protect and of unprotect
ContextPresent(context) == context # <<>>

\* protect_with_nonce
Protect(key, context, plaintext, nonce) ==
    <<EnvelopeMagic, Version, Algorithm, nonce>>
        \o WriteBytes(CipherSeal(key, nonce, BuildAad(context), plaintext))

\* unprotect: InvalidEnvelope, UnsupportedVersion, UnsupportedAlgorithm,
\* AuthenticationFailed
Unprotect(key, context, envelope) ==
    LET Good(got) == /\ ContextPresent(context)
                     /\ got[1] = Algorithm
                     /\ CipherOpens(key, got[2], BuildAad(context), got[3])
        Plaintext(got) == got[3][1].plaintext
    IN  Decoded(ReadVec(ReadWord(ReadWord(ReadHeader(envelope, EnvelopeMagic)))), Good, Plaintext)

ValidMetadata(part) == part.total_parts # 0 /\ part.part_index < part.total_parts

\* A seeded fault: the envelope does not depend on the place of the part.
PublicationContext(continuum, part) == <<continuum, part.publication_id>>

\* part_context: every field of the header, and the continuum.
PartContext(continuum, part) ==
    <<continuum, part.publication_id, part.part_index, part.total_parts>>

\* protect_scalar_part returns Ok: InvalidMultipartMetadata, EmptyProjection
CanProtectPart(continuum, header, p) ==
    /\ ValidMetadata(header)
    /\ DOMAIN p # {} /\ ProjectionEncodes(p)
    /\ ContextPresent(PartContext(continuum, header))

\* The part it makes of the header.
ProtectPart(key, continuum, header, p, nonce) ==
    [header EXCEPT !.payload =
        Protect(key, PartContext(continuum, header), EncodeProjection(p), nonce)]

\* encode_protected_sync_part
EncodePart(part) ==
    <<PartMagic, Version, part.publication_id, part.part_index, part.total_parts>>
        \o WriteBytes(part.payload)

\* decode_protected_sync_part: the payload is all that follows the header.
DecodePart(bytes) ==
    LET Part(got) == [ publication_id |-> got[1], part_index |-> got[2],
                       total_parts |-> got[3], payload |-> got[4] ]
        Good(got) == ValidMetadata(Part(got))
    IN  Decoded(ReadVec(ReadWord(ReadWord(ReadWord(ReadHeader(bytes, PartMagic))))), Good, Part)

\* EmptyProjection, of a part that somebody sealed around nothing
NotEmpty(p) == IF DOMAIN p = {} THEN Refused ELSE Accepted(p)

\* decode_protected_sync_part and unprotect_scalar_part.
OpenPart(key, continuum, bytes) ==
    LET Clear(part) == Unprotect(key, PartContext(continuum, part), part.payload)
        Open(part) == AndThen(AndThen(Clear(part), DecodeProjection), NotEmpty)
    IN  AndThen(DecodePart(bytes), Open)

\* protection_context: the store's own context behind a domain of its own.
ProtectionContext(context) == <<RecordMagic>> \o context

\* ProtectedSyncRecordStore::persist, of a store that new accepted: a context
\* that is not empty.
PersistedBytes(key, context, rec, nonce) ==
    Protect(key, ProtectionContext(context), EncodeRecord(rec), nonce)

\* ProtectedSyncRecordStore::load_committed
LoadCommitted(key, context, bytes) ==
    AndThen(Unprotect(key, ProtectionContext(context), bytes), DecodeRecord)

-----------------------------------------------------------------------------
(* What is enumerated *)

\* Every snapshot of a register that has its fields in their types.
Snapshots(reg) ==
    { [ causal |-> reg, pending |-> epoch, local |-> ids[1],
        finalized |-> Restriction(reg, ids[2]), exposed |-> ids[3], handed_off |-> ids[4] ] :
        epoch \in {NoEpoch} \cup
                  { [value |-> v, observed_frontier |-> FrontierIds(reg)] : v \in Value },
        ids \in [1 .. 4 -> SUBSET DOMAIN reg] }

\* The register under each of some keys.
Carrying(keys, reg) == [k \in keys |-> reg]

\* A part that is not sealed yet: the second of two.
Header(pub) == [publication_id |-> pub, part_index |-> 1, total_parts |-> 2, payload |-> <<>>]

\* A part of a publication of the register, under a key, a continuum and a nonce.
PartBytes(pub, reg) ==
    EncodePart(ProtectPart(1, 1, Header(pub), Carrying(DomainKey, reg), 4))

\* A container in which one domain is the given one.
ContainerWith(s) ==
    [Carrying(DomainKey, FromCausal(s.causal)) EXCEPT ![CHOOSE k \in DomainKey : TRUE] = s]

\* A record in which one of the two kinds of cursor is missing.
RecordWith(s, cursor) ==
    [ trusted_state |-> EncodeContainer(ContainerWith(s)),
      applied_cursor |-> cursor,
      outbox |-> [pub \in PublicationId |->
                     [expected_cursor |-> IF cursor = {} THEN {EncodeProbeCursor(pub)} ELSE {},
                      objects |-> <<PartBytes(pub, s.causal), PartBytes(pub, EmptyRegister)>>]] ]

RemoteWith(reg) ==
    [head |-> 2, publish_count |-> 1, objects |-> <<PartBytes(1, reg), PartBytes(2, reg)>>]

\* Bytes that were cut, or that something follows.
CutOrExtended(bytes) ==
    { SubSeq(bytes, 1, n) : n \in 0 .. Len(bytes) - 1 } \cup {Append(bytes, 0)}

\* Bytes with another word at one place.
Altered(bytes, places) ==
    { [bytes EXCEPT ![i] = word] : i \in places, word \in 0 .. 3 } \ {bytes}

Small == Valid(revisions) /\ Cardinality(DOMAIN revisions) <= MaxSnapshotRevisions

-----------------------------------------------------------------------------
(* Properties *)

\* What is written is read back as it was, field by field, through every
\* format down to the register inside the sealed part of a staged publication;
\* and the decoders accept exactly what SyncRecord.tla says they do: bytes of a
\* register with a missing parent or a cycle, or of a snapshot that cannot be
\* restored, are refused.
RoundTrips ==
    /\ LET p == Carrying({CHOOSE k \in DomainKey : TRUE}, revisions)
       IN  DecodeProjection(EncodeProjection(p)) =
              IF ProjectionDecodes(p) THEN Accepted(p) ELSE Refused
    /\ Small => \A s \in Snapshots(revisions) :
          DecodeSnapshot(EncodeSnapshot(s)) = IF SnapshotDecodes(s) THEN Accepted(s) ELSE Refused
    /\ Small => \A s \in { x \in Snapshots(revisions) : Restorable(x) },
                    cursor \in {{}, {EncodeGitHubCursor(<<102, 51>>)}} :
          LET rec == RecordWith(s, cursor)
          IN  /\ \A c \in cursor : DecodeGitHubCursor(c) = Accepted(<<102, 51>>)
              /\ \A pub \in PublicationId : \A c \in rec.outbox[pub].expected_cursor :
                    DecodeProbeCursor(c) = Accepted(pub)
              /\ LoadCommitted(1, <<1>>, PersistedBytes(1, <<1>>, rec, 4)) = Accepted(rec)
              /\ DecodeContainer(rec.trusted_state) = Accepted(ContainerWith(s))
    /\ Small => /\ CanProtectPart(1, Header(1), Carrying(DomainKey, revisions))
                /\ DecodeRemoteState(EncodeRemoteState(RemoteWith(revisions)))
                      = Accepted(RemoteWith(revisions))
                /\ OpenPart(1, 1, PartBytes(1, revisions)) = Accepted(Carrying(DomainKey, revisions))

\* A record, a snapshot, a container, a projection, a probe's cursor, a part
\* or a remote image that was cut anywhere or that something follows is
\* refused; so is a sealed part or a sealed record of which one word of the
\* header or the envelope was changed, or that is opened with another key, for
\* another continuum or for another store; and a part sealed around nothing.
DamageIsRefused ==
    LET s == CHOOSE x \in Snapshots(revisions) :
                x.pending # NoEpoch /\ x.local = DOMAIN revisions /\ Restorable(x)
        part == PartBytes(1, revisions)
        saved == PersistedBytes(1, <<1>>, RecordWith(s, {}), 4)
    IN  /\ Valid(revisions) =>
              \A b \in CutOrExtended(EncodeProjection(Carrying(DomainKey, revisions))) :
                  ~DecodeProjection(b).ok
        /\ \A b \in CutOrExtended(EncodeProbeCursor(2)) : ~DecodeProbeCursor(b).ok
        /\ ~DecodeGitHubCursor(<<>>).ok
        /\ Small =>
              /\ \A b \in CutOrExtended(EncodeSnapshot(s)) : ~DecodeSnapshot(b).ok
              /\ \A b \in CutOrExtended(EncodeContainer(ContainerWith(s))) : ~DecodeContainer(b).ok
              /\ \A b \in CutOrExtended(EncodeRecord(RecordWith(s, {}))) : ~DecodeRecord(b).ok
              /\ \A b \in CutOrExtended(EncodeRemoteState(RemoteWith(revisions))) :
                    ~DecodeRemoteState(b).ok
              /\ \A b \in CutOrExtended(part) \cup Altered(part, 1 .. Len(part) - 1) :
                    ~OpenPart(1, 1, b).ok
              /\ \A b \in CutOrExtended(saved) \cup Altered(saved, 1 .. Len(saved) - 1) :
                    ~LoadCommitted(1, <<1>>, b).ok
              /\ ~OpenPart(2, 1, part).ok /\ ~OpenPart(1, 2, part).ok
              /\ ~OpenPart(1, 1, EncodePart(ProtectPart(1, 1, Header(1), Carrying({}, revisions), 4))).ok
              /\ ~LoadCommitted(2, <<1>>, saved).ok /\ ~LoadCommitted(1, <<2>>, saved).ok

=============================================================================
