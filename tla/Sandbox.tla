------------------------------- MODULE Sandbox --------------------------------
(***************************************************************************)
(* The sandbox (sandbox/executor.py): one container per stage with out_dir *)
(* of the candidate's worktree mounted writable, in which the candidate    *)
(* leaves predictions.jsonl, the same file at every stage.  The wall-clock *)
(* limit ends the docker client; the container is then stopped by a second *)
(* command of which nobody looks at the result.                            *)
(***************************************************************************)
EXTENDS Integers, Sequences

CONSTANT PredictionFile   \* what a candidate may write, each a sequence of rows

ASSUME PredictionAssumption ==
  \A rows \in PredictionFile : Len(rows) \in Nat /\ DOMAIN rows = 1..Len(rows)

VARIABLES
  container,     \* a container of this candidate is running
  predictions    \* the file, and the stage whose container wrote it last

sandbox == <<container, predictions>>

NoPredictions == [stage |-> 0, rows |-> <<>>]

\* A fresh worktree.  A container that outlives an earlier candidate, or an
\* earlier run, has another worktree's out_dir mounted.
FreshSandbox == container' = FALSE /\ predictions' = NoPredictions

StartContainer == container' = TRUE /\ UNCHANGED predictions

WritePredictions(stage, rows) ==
  /\ container
  /\ predictions' = [stage |-> stage, rows |-> rows]
  /\ UNCHANGED container

\* The script ends, and docker run with it.
ContainerExits == container' = FALSE /\ UNCHANGED predictions

\* docker stop may fail, or come before the daemon has started the container.
StopContainer == container' \in BOOLEAN /\ UNCHANGED predictions
=============================================================================
