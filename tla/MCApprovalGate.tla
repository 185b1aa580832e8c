--------------------------- MODULE MCApprovalGate ---------------------------
(***************************************************************************)
(* Model-checking instances of ApprovalGate.                               *)
(***************************************************************************)
EXTENDS ApprovalGate, TLC

\* Approval ids and callback deliveries are interchangeable.
Symmetry == Permutations(Approvals) \cup Permutations(Callbacks)

=============================================================================
