----------------------------- MODULE MCAuditLog -----------------------------
(***************************************************************************)
(* Instances of AuditLog: writers are alike, and so are files.              *)
(***************************************************************************)
EXTENDS AuditLog, TLC

Alike == Permutations(Writers) \cup Permutations(Files)
=============================================================================
