----------------------------- MODULE MCGateway ------------------------------
(***************************************************************************)
(* Model-checking instances of Gateway.  The registry holds agent01, as in *)
(* app/middleware/auth.py, and an agent for each further role of           *)
(* policies/data.json, scoped to the role's tools as docs/rego-policies.md *)
(* ("Adding a role") asks for.                                             *)
(***************************************************************************)
EXTENDS Gateway, TLC

MCRole == [k \in Keys |-> IF k = "test_key" THEN "sre1" ELSE k]
MCScope == [k \in Keys |-> AllowedTools(MCRole[k])]

Symmetry == Permutations(Approvals) \cup Permutations(Callbacks)

=============================================================================
