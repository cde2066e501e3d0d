----------------------------- MODULE MCCoreLoop -----------------------------
(* CoreLoop with two candidates over as many runs as it takes. *)
EXTENDS CoreLoop

CONSTANTS c1, c2, q1, q2, other

Two == {c1, c2}
Questions == {q1, q2}
Labels == (q1 :> 0) @@ (q2 :> 1)
Thresholds == <<0, 1>>

Row(q, p) == [id |-> q, pred |-> p]

\* All right (one answer corrected by a later row, one just below 1 in the
\* file), half right, one question missing, one answer that is neither 0 nor 1,
\* and a question nobody asked.
Written == {<<Row(q1, 2), Row(q2, 2), Row(q1, 1)>>,
            <<Row(q1, 2), Row(q2, 2)>>,
            <<Row(q2, 2)>>,
            <<Row(q1, 0), Row(q2, 4)>>,
            <<Row(q1, 0), Row(q2, 2), Row(other, 0)>>}

Section(on, min, strict) ==
  [enabled |-> on, timeout_seconds |-> Malformed,
   min_improvement_over_baseline |-> min, require_no_failure_flags |-> strict]

\* A gate nobody configured, one turned off, one with automatic approval, one
\* whose threshold is .nan, and one in which "off" is misspelt and flags are
\* explicitly no obstacle.
Sections == {Section(Malformed, -1, Malformed), Section(FALSE, Malformed, TRUE),
             Section(TRUE, 1, Malformed), Section(TRUE, NaN, Malformed),
             Section(Malformed, 2, FALSE)}
OneSection == {Section(TRUE, Malformed, TRUE)}
=============================================================================
