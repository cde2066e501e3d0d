----------------------------- MODULE EvalPipeline -----------------------------
(***************************************************************************)
(* The evaluator (eval/pipeline.py): a file of predictions is scored       *)
(* against the held-out labels.  A row has an id and a pred, the number in *)
(* the file in halves; a line that cannot be read is a row about no known  *)
(* id.  Scores count right answers, where the code divides by how many     *)
(* questions there are.                                                    *)
(***************************************************************************)
EXTENDS Integers, FiniteSets

CONSTANTS
  Id,        \* the questions of the test set
  label      \* the held-out answers

ASSUME IdAssumption == IsFiniteSet(Id) /\ Id # {}
ASSUME LabelAssumption == label \in [Id -> {0, 1}]

VARIABLE last_stage_flags   \* whether the last score it computed was misstated

Score == 0..Cardinality(Id)

\* int(): towards zero.
int(halves) == IF halves >= 0 THEN halves \div 2 ELSE -((-halves) \div 2)

Ids(rows) == {rows[k].id : k \in DOMAIN rows}

LastAbout(rows, i) ==
  CHOOSE k \in DOMAIN rows :
    rows[k].id = i /\ \A l \in DOMAIN rows : rows[l].id = i => l <= k

\* A dictionary filled row by row: of two rows about one id the later counts.
preds(rows) == [i \in Ids(rows) |-> int(rows[LastAbout(rows, i)].pred)]

\* Exactly the known ids, and nothing but 0 and 1.
accepted(rows) ==
  /\ Ids(rows) = Id
  /\ \A i \in Ids(rows) : preds(rows)[i] \in {0, 1}

Correct(rows) == {i \in Id : i \in Ids(rows) /\ preds(rows)[i] = label[i]}

score_predictions(rows) == IF accepted(rows) THEN Cardinality(Correct(rows)) ELSE 0

\* A script that crashed or was stopped: the flags stay as they are.
StageNotRun == UNCHANGED last_stage_flags

\* Mutant of StageScored: a mismatch is never taken back.
StageScoredSticky(mismatch) == last_stage_flags' = (last_stage_flags \/ mismatch)

StageScored(mismatch) == last_stage_flags' = mismatch
=============================================================================
