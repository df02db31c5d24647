---------------------------- MODULE MCEvidenceLog ----------------------------
(* TLC instances of EvidenceLog: the writers are interchangeable. *)
EXTENDS EvidenceLog, TLC

WriterSymmetry == Permutations(Writers)
=============================================================================
