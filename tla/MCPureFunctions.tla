-------------------------- MODULE MCPureFunctions --------------------------
EXTENDS ByteFormats, ContinuumLaws

\* Values and domains of more than one byte, and two fields of one atom.
MCValue == {<<7, 8>>}

MCDomainKey == {<<1, <<1>>>>, <<1, <<1, 2>>>>}

=============================================================================
