------------------------------ MODULE GateConfig ------------------------------
(***************************************************************************)
(* What the approval gate makes of the approval section of a configuration *)
(* (approval/gate.py).  The section comes out of a YAML file unchecked: a  *)
(* value is Malformed when it is missing or of the wrong type, or when the *)
(* whole section, or auto_approve, is.                                     *)
(***************************************************************************)
EXTENDS Integers

CONSTANTS
  Malformed,
  NaN,           \* what .nan in the file is read as: a number, and less than none
  DEFAULT_TIMEOUT_SECONDS

ASSUME MalformedAssumption == Malformed \notin BOOLEAN \cup Int \cup {NaN}
ASSUME NaNAssumption == NaN \notin Int
ASSUME DefaultAssumption == DEFAULT_TIMEOUT_SECONDS \in Nat \ {0}

RawConfig == [enabled : BOOLEAN \cup {Malformed},
              timeout_seconds : Int \cup {Malformed},
              min_improvement_over_baseline : Int \cup {NaN, Malformed},
              require_no_failure_flags : BOOLEAN \cup {Malformed}]

\* Mutant of enabled: only an explicit true turns the gate on.
enabled_if_true(raw) == raw.enabled = TRUE

enabled(raw) == raw.enabled \notin BOOLEAN \/ raw.enabled

timeout_seconds(raw) ==
  IF raw.timeout_seconds \in Int /\ raw.timeout_seconds > 0
  THEN raw.timeout_seconds
  ELSE DEFAULT_TIMEOUT_SECONDS

\* A threshold that is no number, or less than 0, turns automatic approval off.
auto_configured(raw) ==
  \/ raw.min_improvement_over_baseline = NaN
  \/ raw.min_improvement_over_baseline \in Int /\ raw.min_improvement_over_baseline >= 0

require_no_failure_flags(raw) ==
  raw.require_no_failure_flags \notin BOOLEAN \/ raw.require_no_failure_flags

should_auto_approve(raw, delta_over_baseline, has_failure_flags) ==
  /\ auto_configured(raw)
  /\ \/ raw.min_improvement_over_baseline = NaN
     \/ delta_over_baseline >= raw.min_improvement_over_baseline
  /\ ~(require_no_failure_flags(raw) /\ has_failure_flags)
=============================================================================
