------------------------------- MODULE Dataset -------------------------------
(***************************************************************************)
(* The split of the data (eval/dataset.py) as three files on the host: the *)
(* rows to train on and the questions, which every sandbox gets, and the   *)
(* answers, which only the evaluator reads.  They are written once, one    *)
(* after another, and a run killed in between leaves them as they are; the *)
(* program that does so is CoreLoop's.                                     *)
(***************************************************************************)
VARIABLES train, test, truth   \* what a reader would find in each file

split == <<train, test, truth>>

\* "torn" is everything between open("w") and the close that flushes it.
FileState == {"absent", "torn", "whole"}

SplitType == train \in FileState /\ test \in FileState /\ truth \in FileState

SplitInit == train = "absent" /\ test = "absent" /\ truth = "absent"

\* The no-clobber contract looks at one of the three files.
Generated == train # "absent"

\* Mutant of OpenSplit: the answers are saved before the rows.
OpenSplitAnswersFirst == train' = "torn" /\ test' = "torn" /\ truth' = "whole"

\* Both files of rows are opened together, and closed together when every row
\* has been dealt to one of them.
OpenSplit == train' = "torn" /\ test' = "torn" /\ UNCHANGED truth

FillSplit == train' = "whole" /\ test' = "whole" /\ UNCHANGED truth

OpenTruth == truth' = "torn" /\ UNCHANGED <<train, test>>

SaveTruth == truth' = "whole" /\ UNCHANGED <<train, test>>

\* load_truth raises on a file that is missing or is not JSON.
Loadable == truth = "whole"
=============================================================================
