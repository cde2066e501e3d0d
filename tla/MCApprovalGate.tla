--------------------------- MODULE MCApprovalGate ---------------------------
(* ApprovalGate with two requests, and what is checked of it. *)
EXTENDS ApprovalGate, GateConfig, FiniteSetsExt

CONSTANTS r1, r2

MCRequest == {r1, r2}

\* Approval sections as they come out of a file: nothing set, the gate turned
\* off, a window of no length with automatic approval on, a threshold below zero,
\* and one that is .nan.  auto_approve is not looked at while the gate is disabled.
Section(on, window, threshold) ==
  [enabled |-> on, timeout_seconds |-> window,
   min_improvement_over_baseline |-> threshold, require_no_failure_flags |-> Malformed]
Sections == {Section(Malformed, Malformed, Malformed), Section(FALSE, Malformed, 1),
             Section(TRUE, 0, 0), Section(Malformed, -1, -1),
             Section(TRUE, 1, NaN)}
AllConfigs ==
  {[enabled |-> enabled(s), auto |-> enabled(s) /\ auto_configured(s)] : s \in Sections}
Window == Max({timeout_seconds(s) : s \in Sections})
=============================================================================
