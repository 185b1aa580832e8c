---------------------------- MODULE MCAuditExport ---------------------------
(***************************************************************************)
(* Model-checking instances of AuditExport.                                *)
(***************************************************************************)
EXTENDS AuditExport, TLC

\* Calls of record_tool_call of either kind are interchangeable, and so are runs
\* of the job.
Symmetry == Permutations(Writers \ Lossy) \cup Permutations(Lossy) \cup Permutations(Jobs)

=============================================================================
