--------------------------- MODULE MCAuditVerify ----------------------------
(***************************************************************************)
(* Model-checking instances of AuditVerify.                                *)
(***************************************************************************)
EXTENDS AuditVerify, TLC

\* Writers of either kind, queries and exports are each interchangeable.
Symmetry == Permutations(Writers \ Lossy) \cup Permutations(Lossy)
            \cup Permutations(Readers) \cup Permutations(Exports)

=============================================================================
