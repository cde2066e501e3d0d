-------------------------- MODULE ApprovalRegister --------------------------
(***************************************************************************)
(* What the approval store promises to everybody who shares it: a request  *)
(* that is opened receives at most one decision, and that decision is      *)
(* final.  The orchestrator, the dashboard and the crash-recovery clean-up *)
(* are separate processes; this module says nothing of them, only of the   *)
(* status each request shows.  ApprovalGate implements it.                 *)
(***************************************************************************)
CONSTANT Request

VARIABLE verdict

\* The terminal statuses a request can be given (VALID_STATUSES).
Decision == {"approved", "auto_approved", "rejected", "timed_out"}

Status == {"absent", "pending"} \cup Decision

Init == verdict = [r \in Request |-> "absent"]

Open(r) ==
  /\ verdict[r] = "absent"
  /\ verdict' = [verdict EXCEPT ![r] = "pending"]

Settle(r, d) ==
  /\ verdict[r] = "pending"
  /\ verdict' = [verdict EXCEPT ![r] = d]

Next == \E r \in Request : Open(r) \/ \E d \in Decision : Settle(r, d)

Spec == Init /\ [][Next]_verdict

TypeOK == verdict \in [Request -> Status]
=============================================================================
