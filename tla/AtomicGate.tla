----------------------------- MODULE AtomicGate -----------------------------
(***************************************************************************)
(* What the approval gate promises (the docstring of                       *)
(* approvals.decide_approval, and of app/tools/tools_spec.py): an approval *)
(* is decided once, the decision is final, and only an approved call       *)
(* reaches the executor, once.                                             *)
(***************************************************************************)
EXTENDS Naturals

CONSTANT Approvals

VARIABLES st,    \* the decision each approval is at
          runs   \* how often the executor ran for it

gate == <<st, runs>>

Init == /\ st = [a \in Approvals |-> "absent"]
        /\ runs = [a \in Approvals |-> 0]

Open(a) == /\ st[a] = "absent"
           /\ st' = [st EXCEPT ![a] = "pending"]
           /\ UNCHANGED runs

Decide(a) == /\ st[a] = "pending"
             /\ \E d \in {"approved", "denied"} : st' = [st EXCEPT ![a] = d]
             /\ UNCHANGED runs

Run(a) == /\ st[a] = "approved"
          /\ runs[a] = 0
          /\ runs' = [runs EXCEPT ![a] = 1]
          /\ UNCHANGED st

Next == \E a \in Approvals : Open(a) \/ Decide(a) \/ Run(a)

Spec == Init /\ [][Next]_gate

=============================================================================
