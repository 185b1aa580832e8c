---------------------------- MODULE SerialChain -----------------------------
(***************************************************************************)
(* What the writers of the audit log promise together (app/audit.py, the   *)
(* comment on the advisory lock): rows are appended one at a time, each    *)
(* hashed over the tip of the chain at that moment, each call at most once.*)
(***************************************************************************)
CONSTANT Writers

VARIABLES written,  \* the calls that have their row
          tip       \* the row_hash of the last row

chain == <<written, tip>>

Init == written = {} /\ tip = <<>>

Append(w) == /\ w \notin written
             /\ written' = written \cup {w}
             /\ tip' = <<tip, w, "written">>

Next == \E w \in Writers : Append(w)

Spec == Init /\ [][Next]_chain

=============================================================================
