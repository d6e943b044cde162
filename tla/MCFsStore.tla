----------------------------- MODULE MCFsStore -----------------------------
(* FsStore with two states to commit: an old and a new one to tell apart. *)
EXTENDS FsStore
CONSTANTS s1, s2
=============================================================================
