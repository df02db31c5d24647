---------------------------- MODULE MCAuditSession ----------------------------
(* TLC instances of AuditSession: agents, auditors and contents are interchangeable. *)
EXTENDS AuditSession, TLC

Symmetry == Permutations(Agents) \cup Permutations(Auditors) \cup Permutations(Products)
=============================================================================
