------------------------ MODULE MCProjectionExchange ------------------------
EXTENDS ProjectionExchange

CONSTANTS p1, p2, here, elsewhere, a, b, c, d, e, k1, k2

\* A part as its author seals it, and the same with something changed.
Sealed(p, i, n, projection, nonce) ==
    [publication_id |-> p, part_index |-> i, total_parts |-> n,
     context |-> <<here, p, i, n>>, projection |-> projection,
     nonce |-> nonce, well_formed |-> TRUE]

\* p1 in two parts, one of them sealed a second time and one with other
\* contents; a second division of p1; p2 in three parts, one alone and one
\* whose header was changed; an object of another continuum, one that is cut
\* and one that was sealed around nothing.
MCWire ==
    LET first == Sealed(p1, 0, 2, {<<a, 1>>}, 1)
    IN  { first, Sealed(p1, 1, 2, {<<b, 1>>}, 1),
          Sealed(p1, 0, 2, {<<a, 1>>}, 2), Sealed(p1, 0, 2, {<<b, 2>>}, 3),
          Sealed(p1, 0, 1, {<<c, 1>>}, 1),
          Sealed(p2, 0, 3, {<<a, 1>>}, 1), Sealed(p2, 1, 3, {<<b, 1>>}, 1),
          Sealed(p2, 2, 3, {<<c, 1>>}, 1),
          [Sealed(p2, 1, 3, {<<b, 1>>}, 1) EXCEPT !.part_index = 2],
          [first EXCEPT !.context[1] = elsewhere],
          [first EXCEPT !.well_formed = FALSE],
          [first EXCEPT !.projection = {}] }

MCKeys == <<k1, k2>>

MCKeyOf == [id \in {a, b, c, d, e} |-> IF id \in {a, e} THEN k1 ELSE k2]

\* Two edits of the second domain; one of them uses an identity that the
\* publications use for another statement, so that an import may stop there
\* with the first domain merged.
MCEdits == {<<d, 1>>, <<b, 9>>}

MCBaseline == {<<e, 1>>}

=============================================================================
