------------------------------ MODULE CoreLoop -------------------------------
(***************************************************************************)
(* The sequential orchestrator (orchestrator/run.py) with its durable      *)
(* state: the data, the line of development, the approval rows, the        *)
(* baseline file (eval/baseline.py), the experiment memory and the         *)
(* worktrees.  Each durable write is a step of its own, and the process    *)
(* may be killed, or unwound by an exception, before any of them; the next *)
(* run starts with crash recovery.  A candidate is generated file by file  *)
(* (PatchGenerator), run stage by stage (Sandbox) and scored               *)
(* (EvalPipeline) on data generated at the first start (Dataset); version  *)
(* control and the store appear through what they promise (MergeLedger,    *)
(* ApprovalRegister).                                                      *)
(***************************************************************************)
EXTENDS Dataset, PatchGenerator, Sandbox, EvalPipeline, GateConfig, SequencesExt

CONSTANTS
  Candidate,
  NoCandidate,
  stages,            \* the threshold of each stage
  min_improvement,
  max_iterations, target_score, patience,
  Configs,           \* approval sections an operator may run with
  MayCrash

ASSUME CandidateAssumption == NoCandidate \notin Candidate
ASSUME StagesAssumption == stages \in Seq(Score) /\ stages # <<>>
ASSUME ScoreAssumption == min_improvement \in Nat /\ target_score \in Nat
ASSUME LoopAssumption ==
  max_iterations \in Nat \ {0} /\ patience \in Nat \ {0}
ASSUME ConfigAssumption == Configs \subseteq RawConfig /\ MayCrash \in BOOLEAN

VARIABLES
  \* durable, beside the data
  row, history, discarded, worktrees, experiments, state_json,
  \* the running process, and its evaluator's last_stage_flags
  pc, config, cand, stage, scores, final_score, flagged, decision, result,
  \* its loop
  i, best_score, any_success, iterations_since_improvement,
  \* what the process does not know: whether the candidate misstated a score
  \* of its own, and what was merged before this run
  lied, landed_before

store == <<row, experiments, state_json>>
repo == <<history, discarded, worktrees>>
scoring == <<stage, final_score, flagged, lied, last_stage_flags>>
memory == <<cand, scoring, decision, result>>
loop == <<i, best_score, any_success, iterations_since_improvement, landed_before>>
iteration == <<generation, sandbox, memory>>
vars == <<split, store, repo, pc, config, scores, iteration, loop>>

Register == INSTANCE ApprovalRegister WITH Request <- Candidate, verdict <- row
Ledger == INSTANCE MergeLedger WITH Upstream <- {}

Consent == {"approved", "auto_approved", "skipped"}
Outcome == {"success", "failure", "conflict", "held"}
Empty == -1   \* state.json between open("w") and json.dump

Loading == {"dataset", "rows", "open_truth", "save_truth", "load_truth"}
Stopped == {"down", "raised", "exit_0", "exit_1", "no_truth", "unreadable"}
Working == {"read", "ask", "commit", "check", "launch", "sandbox", "score", "judge", "file",
            "auto", "poll", "expire", "decide", "update", "truncated", "record", "rollback",
            "return"}
PC == Loading \cup Stopped \cup Working \cup {"starting", "cleanup", "head"}

\* Where a candidate has passed its stages and is not merged yet.
Vetted == {"judge", "file", "auto", "poll", "expire", "decide"}

TypeOK ==
  /\ SplitType /\ GenerationType
  /\ Register!TypeOK
  /\ history \in Seq(Candidate) /\ discarded \subseteq Candidate
  /\ worktrees \subseteq Candidate
  /\ experiments \in [Candidate -> SUBSET Outcome]
  /\ state_json \in Score \cup {Empty}
  /\ pc \in PC /\ config \in Configs
  /\ cand \in Candidate \cup {NoCandidate}
  /\ container \in BOOLEAN
  /\ predictions \in [stage : 1..Len(stages), rows : PredictionFile] \cup {NoPredictions}
  /\ stage \in 1..Len(stages)
  /\ scores \in Score /\ final_score \in Score /\ best_score \in Score
  /\ flagged \in BOOLEAN /\ lied \in BOOLEAN /\ last_stage_flags \in BOOLEAN
  /\ any_success \in BOOLEAN
  /\ decision \in {"none", "skipped", "unreadable"} \cup Register!Decision
  /\ result \in Outcome
  /\ i \in 0..max_iterations /\ iterations_since_improvement \in 0..max_iterations
  /\ landed_before \in 0..Len(history)

Goto(l) == pc' = l

-----------------------------------------------------------------------------
(* Start-up *)

\* generate_split: the data is generated unless there is some already.
GenerateSplit ==
  /\ pc = "dataset"
  /\ IF Generated THEN Goto("load_truth") /\ UNCHANGED split ELSE Goto("rows") /\ OpenSplit
  /\ UNCHANGED <<store, repo, config, scores, iteration, loop>>

WriteSplit ==
  /\ \/ pc = "rows" /\ FillSplit /\ Goto("open_truth")
     \/ pc = "open_truth" /\ OpenTruth /\ Goto("save_truth")
     \/ pc = "save_truth" /\ SaveTruth /\ Goto("load_truth")
  /\ UNCHANGED <<store, repo, config, scores, iteration, loop>>

LoadTruth ==
  /\ pc = "load_truth"
  /\ Goto(IF Loadable THEN "starting" ELSE "no_truth")
  /\ UNCHANGED <<split, store, repo, config, scores, iteration, loop>>

\* BaselineStore.__init__ comes before crash recovery, and raises on a file
\* that is not JSON.
LoadBaseline ==
  /\ pc = "starting"
  /\ IF state_json = Empty
     THEN Goto("unreadable") /\ UNCHANGED scores
     ELSE Goto("cleanup") /\ scores' = state_json
  /\ UNCHANGED <<split, store, repo, config, iteration, loop>>

\* run_startup_cleanup: no candidate of ours exists yet, and of the pending
\* rows those older than the window are timed out.
RunStartupCleanup(stale) ==
  /\ pc = "cleanup"
  /\ worktrees' = {}
  /\ row' = [c \in Candidate |->
               IF c \in stale /\ row[c] = "pending" THEN "timed_out" ELSE row[c]]
  /\ Goto("head")
  /\ UNCHANGED <<split, history, discarded, experiments, state_json, config, scores, iteration,
                 loop>>

-----------------------------------------------------------------------------
(* run_iteration: generation *)

Fresh(c) ==
  c \notin worktrees \cup discarded \cup ToSet(history)
  /\ experiments[c] = {} /\ row[c] = "absent"

CreateBranch(c) ==
  /\ pc = "head" /\ i < max_iterations /\ Fresh(c)
  /\ cand' = c
  /\ worktrees' = worktrees \cup {c}
  /\ FreshGeneration /\ FreshSandbox
  /\ Goto("read")
  /\ UNCHANGED <<split, store, history, discarded, scores, config, scoring, decision, result,
                 loop>>

Concludes(r) == result' = r /\ Goto("record")

Read ==
  /\ pc = "read" /\ ReadFile /\ Goto("ask")
  /\ UNCHANGED <<split, store, repo, config, scores, sandbox, memory, loop>>

GenerateDiff(changes, applies) ==
  /\ pc = "ask" /\ Ask(changes, applies)
  /\ UNCHANGED <<split, store, repo, pc, config, scores, sandbox, memory, loop>>

\* What was generated last is applied, whether or not it applied in the
\* scratch repository.
Patch ==
  /\ pc = "ask" /\ ~MayAsk
  /\ ApplyPatch
  /\ Goto(IF LastFile THEN "commit" ELSE "read")
  /\ UNCHANGED <<split, store, repo, config, scores, sandbox, memory, loop>>

\* Mutant of PatchFails: the loop goes on to the next file.
PatchFailsUnheeded ==
  /\ pc = "ask" /\ ~MayAsk
  /\ nth' = (IF LastFile THEN nth ELSE nth + 1)
  /\ Goto(IF LastFile THEN "commit" ELSE "read")
  /\ UNCHANGED <<content, shown, attempts, touched, patched>>
  /\ UNCHANGED <<split, store, repo, config, scores, sandbox, memory, loop>>

\* git apply refuses: the files patched so far stay in the worktree.
PatchFails ==
  /\ pc = "ask" /\ ~MayAsk
  /\ Concludes("failure")
  /\ UNCHANGED <<split, store, repo, config, scores, generation, sandbox, cand, scoring, decision,
                 loop>>

\* commit_patch; from here on nothing reads what generation kept.
Commit ==
  /\ pc = "commit"
  /\ content' = [f \in 1..Files |-> 0] /\ nth' = 1
  /\ Goto("check")
  /\ UNCHANGED <<shown, attempts, touched, patched>>
  /\ UNCHANGED <<split, store, repo, config, scores, sandbox, memory, loop>>

StaticCheck ==
  /\ pc = "check"
  /\ \/ Goto("launch") /\ UNCHANGED result
     \/ Concludes("failure")
  /\ UNCHANGED <<split, store, repo, config, scores, generation, sandbox, cand, scoring, decision,
                 loop>>

-----------------------------------------------------------------------------
(* run_iteration: the stages *)

Launch ==
  /\ pc = "launch" /\ StartContainer /\ Goto("sandbox")
  /\ UNCHANGED <<split, store, repo, config, scores, generation, memory, loop>>

\* The candidate at work, for as long as its container runs.
CandidateWrites(rows) ==
  /\ pc \in Working /\ WritePredictions(stage, rows)
  /\ UNCHANGED <<split, store, repo, pc, config, scores, generation, memory, loop>>

ScriptEnds ==
  /\ pc = "sandbox" /\ ContainerExits /\ Goto("score")
  /\ UNCHANGED <<split, store, repo, config, scores, generation, memory, loop>>

\* The stage was not run to its end: no score, and the flags read are those of
\* whatever was scored last.
NoScore ==
  /\ StageNotRun
  /\ flagged' = (flagged \/ last_stage_flags)
  /\ final_score' = 0
  /\ Concludes("failure")
  /\ UNCHANGED <<cand, stage, lied, decision>>

ScriptCrashes ==
  /\ pc = "sandbox" /\ ContainerExits /\ NoScore
  /\ UNCHANGED <<split, store, repo, config, scores, generation, loop>>

\* Mutant of TimesOut: what is there is scored all the same.
TimesOutScored ==
  /\ pc = "sandbox" /\ StopContainer /\ Goto("score")
  /\ UNCHANGED <<split, store, repo, config, scores, generation, memory, loop>>

TimesOut ==
  /\ pc = "sandbox" /\ StopContainer /\ NoScore
  /\ UNCHANGED <<split, store, repo, config, scores, generation, loop>>

\* evaluate_stage and what run_iteration does with it.  What the script claims
\* on its standard output is or is not the score.
EvaluateStage(mismatch) ==
  /\ pc = "score"
  /\ StageScored(mismatch)
  /\ final_score' = score_predictions(predictions.rows)
  /\ flagged' = (flagged \/ last_stage_flags')
  /\ lied' = (lied \/ mismatch)
  /\ IF final_score' < stages[stage]
     THEN Concludes("failure") /\ UNCHANGED stage
     ELSE IF stage < Len(stages)
     THEN Goto("launch") /\ stage' = stage + 1 /\ UNCHANGED result
     ELSE Goto("judge") /\ UNCHANGED <<stage, result>>
  /\ UNCHANGED <<split, store, repo, config, scores, generation, sandbox, cand, decision, loop>>

\* Mutant of passes: at least as good is good enough.
passes_weakly(s) == s >= scores + min_improvement

passes(s) == s > scores + min_improvement

Judge ==
  /\ pc = "judge"
  /\ IF passes(final_score) THEN Goto("file") /\ UNCHANGED result ELSE Concludes("failure")
  /\ UNCHANGED <<split, store, repo, config, scores, generation, sandbox, cand, scoring, decision,
                 loop>>

-----------------------------------------------------------------------------
(* run_iteration: approval and merge *)

\* What these steps leave alone.
Elsewhere == UNCHANGED <<split, config, generation, cand, scoring, loop>>

\* request_and_await_approval.
File ==
  /\ pc = "file"
  /\ IF enabled(config)
     THEN Register!Open(cand) /\ Goto("auto") /\ UNCHANGED decision
     ELSE decision' = "skipped" /\ Goto("decide") /\ UNCHANGED row
  /\ Elsewhere /\ UNCHANGED <<experiments, state_json, repo, scores, sandbox, result>>

Decide(d) == IF row[cand] = "pending" THEN Register!Settle(cand, d) ELSE UNCHANGED row

AutoApprove ==
  /\ pc = "auto"
  /\ IF should_auto_approve(config, final_score - scores, flagged)
     THEN Decide("auto_approved") /\ decision' = "auto_approved" /\ Goto("decide")
     ELSE Goto("poll") /\ UNCHANGED <<row, decision>>
  /\ Elsewhere /\ UNCHANGED <<experiments, state_json, repo, scores, sandbox, result>>

\* Mutant of Poll: the status is returned without being looked at.
PollUnlooked ==
  /\ pc = "poll"
  /\ Goto("decide") /\ decision' = row[cand]
  /\ Elsewhere /\ UNCHANGED <<store, repo, scores, sandbox, result>>

Poll ==
  /\ pc = "poll"
  /\ IF row[cand] = "pending"
     THEN Goto("expire") /\ UNCHANGED decision
     ELSE Goto("decide") /\ decision' = row[cand]
  /\ Elsewhere /\ UNCHANGED <<store, repo, scores, sandbox, result>>

\* get_request raises: hold, without recording anything, so that the row stays
\* open.  The caller is told "timed_out"; the model calls that "unreadable".
PollFails ==
  /\ pc = "poll"
  /\ decision' = "unreadable" /\ Goto("decide")
  /\ Elsewhere /\ UNCHANGED <<store, repo, scores, sandbox, result>>

\* Mutants of Expire: the hold is not recorded, and the deadline is ignored.
ExpireUnrecorded ==
  /\ pc = "expire"
  /\ decision' = "timed_out" /\ Goto("decide")
  /\ Elsewhere /\ UNCHANGED <<store, repo, scores, sandbox, result>>

ExpireNever ==
  /\ pc = "expire" /\ Goto("poll")
  /\ Elsewhere /\ UNCHANGED <<store, repo, scores, sandbox, decision, result>>

Expire ==
  /\ pc = "expire"
  /\ Decide("timed_out")
  /\ decision' = "timed_out" /\ Goto("decide")
  /\ Elsewhere /\ UNCHANGED <<experiments, state_json, repo, scores, sandbox, result>>

Hold ==
  /\ pc = "decide" /\ decision \notin Consent
  /\ Concludes("held")
  /\ Elsewhere /\ UNCHANGED <<store, repo, scores, sandbox, decision>>

\* Mutant of Conflict: the exception is swallowed.
ConflictSwallowed ==
  /\ pc = "decide" /\ decision \in Consent
  /\ Concludes("success")
  /\ Elsewhere /\ UNCHANGED <<store, repo, scores, sandbox, decision>>

Conflict ==
  /\ pc = "decide" /\ decision \in Consent
  /\ Concludes("conflict")
  /\ Elsewhere /\ UNCHANGED <<store, repo, scores, sandbox, decision>>

\* The worktree goes, and out_dir with it.
Merge ==
  /\ pc = "decide" /\ decision \in Consent
  /\ Ledger!Land(cand)
  /\ worktrees' = worktrees \ {cand}
  /\ FreshSandbox
  /\ Goto("update")
  /\ Elsewhere /\ UNCHANGED <<store, scores, decision, result>>

\* update_if_better: memory, then the file, truncated before it is written.
UpdateIfBetter ==
  /\ pc = "update"
  /\ IF final_score > scores
     THEN /\ scores' = final_score
          /\ state_json' = Empty
          /\ Goto("truncated") /\ UNCHANGED result
     ELSE Concludes("success") /\ UNCHANGED <<scores, state_json>>
  /\ Elsewhere /\ UNCHANGED <<row, experiments, repo, sandbox, decision>>

Save ==
  /\ pc = "truncated"
  /\ state_json' = scores
  /\ Concludes("success")
  /\ Elsewhere /\ UNCHANGED <<row, experiments, repo, scores, sandbox, decision>>

\* store_experiment comes before the rollback, and after the merge.
Record ==
  /\ pc = "record"
  /\ experiments' = [experiments EXCEPT ![cand] = @ \cup {result}]
  /\ Goto(IF result = "success" THEN "return" ELSE "rollback")
  /\ Elsewhere /\ UNCHANGED <<row, state_json, repo, scores, sandbox, decision, result>>

Rollback ==
  /\ pc = "rollback"
  /\ Ledger!Discard(cand)
  /\ worktrees' = worktrees \ {cand}
  /\ FreshSandbox
  /\ Goto("return")
  /\ Elsewhere /\ UNCHANGED <<store, scores, decision, result>>

-----------------------------------------------------------------------------
(* The loop *)

\* What an iteration keeps in local variables is gone after it.
Forgotten ==
  /\ cand' = NoCandidate /\ stage' = 1 /\ final_score' = 0
  /\ flagged' = FALSE /\ lied' = FALSE
  /\ decision' = "none" /\ result' = "failure"
  /\ FreshGeneration

\* Mutant of succeeded: reaching the target counts as a success.
succeeded_by_score == any_success \/ best_score' >= target_score

\* run_iteration returns whether the candidate was merged.
succeeded == any_success \/ result = "success"

\* best_score counts every candidate, merged or not.
Return ==
  /\ pc = "return"
  /\ i' = i + 1
  /\ IF final_score > best_score
     THEN best_score' = final_score /\ iterations_since_improvement' = 0
     ELSE /\ iterations_since_improvement' = iterations_since_improvement + 1
          /\ UNCHANGED best_score
  /\ any_success' = succeeded
  /\ Goto(IF (any_success' /\ best_score' >= target_score)
             \/ iterations_since_improvement' >= patience \/ i' = max_iterations
          THEN IF any_success' THEN "exit_0" ELSE "exit_1"
          ELSE "head")
  /\ Forgotten
  /\ UNCHANGED <<split, store, repo, config, scores, sandbox, last_stage_flags, landed_before>>

\* The memory of a process that is no more, and an out_dir nobody reads again.
Emptied ==
  /\ Forgotten /\ FreshSandbox
  /\ scores' = 0 /\ last_stage_flags' = FALSE
  /\ i' = 0 /\ best_score' = 0 /\ any_success' = FALSE /\ iterations_since_improvement' = 0

\* A signal ends the process, or an exception nobody catches: from git, from a
\* write to a file or to a store, or from the report after the last iteration.
Crash ==
  /\ MayCrash /\ pc \notin Stopped
  /\ pc' \in {"down", "raised"}
  /\ Emptied
  /\ UNCHANGED <<split, store, repo, config, landed_before>>

\* The exit status of a process that has ended: 1 is what sys.exit(1) and an
\* uncaught exception leave, and a signal has one of its own.
Signalled == 130

exit_status ==
  IF pc = "exit_0" THEN 0 ELSE IF pc = "down" THEN Signalled ELSE 1

\* The operator runs it again, perhaps with another configuration: a new
\* process, with nothing in its memory.
RunAgain ==
  /\ pc \in Stopped
  /\ Goto("dataset")
  /\ config' \in Configs
  /\ Emptied /\ landed_before' = Len(history)
  /\ UNCHANGED <<split, store, repo>>

HumanDecides(c, d) ==
  /\ Register!Settle(c, d)
  /\ UNCHANGED <<split, experiments, state_json, repo, pc, config, scores, iteration, loop>>

-----------------------------------------------------------------------------
Init ==
  /\ SplitInit /\ GenerationInit
  /\ Register!Init /\ Ledger!Init
  /\ worktrees = {}
  /\ experiments = [c \in Candidate |-> {}]
  /\ state_json = 0   \* no file reads as 0
  /\ pc = "dataset" /\ config \in Configs
  /\ container = FALSE /\ predictions = NoPredictions
  /\ cand = NoCandidate /\ stage = 1
  /\ scores = 0 /\ final_score = 0
  /\ flagged = FALSE /\ lied = FALSE /\ last_stage_flags = FALSE
  /\ decision = "none" /\ result = "failure"
  /\ i = 0 /\ best_score = 0 /\ any_success = FALSE
  /\ iterations_since_improvement = 0 /\ landed_before = 0

Generate ==
  \/ Read \/ Patch \/ PatchFails \/ Commit \/ StaticCheck
  \/ \E changes \in SUBSET (1..Files), applies \in BOOLEAN : GenerateDiff(changes, applies)

Evaluate ==
  \/ Launch \/ ScriptEnds \/ ScriptCrashes \/ TimesOut
  \/ \E m \in BOOLEAN : EvaluateStage(m)
  \/ Judge

Settle ==
  \/ File \/ AutoApprove \/ Poll \/ PollFails \/ Expire
  \/ Hold \/ Conflict \/ Merge \/ UpdateIfBetter \/ Save
  \/ Record \/ Rollback

Iterate == Generate \/ Evaluate \/ Settle \/ Return

Startup ==
  \/ GenerateSplit \/ WriteSplit \/ LoadTruth \/ LoadBaseline
  \/ \E stale \in SUBSET Candidate : RunStartupCleanup(stale)

Next ==
  \/ Startup
  \/ \E c \in Candidate : CreateBranch(c)
  \/ Iterate
  \/ \E rows \in PredictionFile : CandidateWrites(rows)
  \/ Crash
  \/ RunAgain
  \/ \E c \in Candidate, d \in {"approved", "rejected"} : HumanDecides(c, d)

Spec == Init /\ [][Next]_vars

\* The process runs, and a sandbox ends by itself or is ended by its time
\* limit; nobody has to run the program again.
Fairness == WF_vars(Startup) /\ WF_vars(Iterate)

FairSpec == Spec /\ Fairness

-----------------------------------------------------------------------------
(* Properties *)

Merged == ToSet(history)

\* Wherever runs die while the data is written, whoever gets past load_truth
\* has all three files as they were generated together.
SplitIsWhole ==
  pc \notin Loading \cup Stopped => train = "whole" /\ test = "whole" /\ truth = "whole"

\* A diff is applied to the content its author was shown, also after the diff
\* of an earlier file has changed the file it is for.
AppliedToWhatWasShown ==
  [][\A f \in 1..Files : patched' \ patched = {f} => shown = content[f]]_vars

\* No part of a candidate is ever run, filed or merged: what gets that far has
\* the diff of every target file.
PatchedWhole ==
  pc \in Vetted \cup {"commit", "check", "launch", "sandbox", "score"} => patched = 1..Files

\* What a row says of question q, unless a later one says otherwise.
Answers(rows, q, v) ==
  \E k \in DOMAIN rows :
    /\ rows[k].id = q /\ int(rows[k].pred) = v
    /\ \A l \in DOMAIN rows : l > k => rows[l].id # q

Right(rows) == {q \in Id : Answers(rows, q, label[q])}

\* The score stands: what is shown to reviewers and merged is worth what the
\* predictions it left, unchanged since, are worth, and they answer everything.
ScoreStands ==
  pc \in Vetted \ {"judge"} =>
    /\ final_score = Cardinality(Right(predictions.rows))
    /\ \A q \in Id : \E v \in {0, 1} : Answers(predictions.rows, q, v)

\* What passes is flagged if and only if it misstated a score itself, whoever
\* else did in this run.
FlagsAreOwn == pc \in Vetted => flagged = lied

\* The memory never says of a candidate what did not happen to it, wherever
\* runs die: "success" only of what is in place, anything else only of what is
\* not, and never two things of one candidate.
RecordsAreTrue ==
  \A c \in Candidate :
    /\ "success" \in experiments[c] => c \in Merged
    /\ experiments[c] \ {"success"} # {} => c \notin Merged
    /\ Cardinality(experiments[c]) <= 1

\* An iteration that completes leaves the candidate merged or discarded, with
\* a record, no worktree and no open request, unless the store could not be read:
\* then the candidate is discarded as held and its request stays open, for a
\* later clean-up to close.
IterationSettles ==
  pc = "return" =>
    /\ experiments[cand] = {result}
    /\ cand \in Merged <=> result = "success"
    /\ worktrees = {}
    /\ row[cand] = "pending" => decision = "unreadable" /\ result = "held"

\* The exit status tells whoever started the run whether it merged anything,
\* whatever the scores of what it did not merge: 0 if it did, and 1 if it did
\* not, unless an exception ended the run, which leaves 1 after a merge as well.
ExitTellsWhatLanded ==
  pc \in Stopped =>
    /\ exit_status = 0 => Len(history) > landed_before
    /\ exit_status = 1 /\ Len(history) > landed_before => pc = "raised"

\* With a readable baseline file, whatever merges beats the score in that file
\* by the right answers it has in out_dir.
MergeBeatsBaseline ==
  [][\A c \in Candidate :
       c \in ToSet(history') \ Merged =>
         /\ state_json # Empty
         /\ Cardinality(Right(predictions.rows)) > state_json + min_improvement]_vars

\* Nothing merges that a human has not approved, unless the configuration says
\* in so many words that nobody need be asked: the gate is off, or there is a
\* threshold that the candidate meets, and it has not misstated a score where
\* that is not allowed for.  (A threshold that is not a number is met by every
\* candidate: the code takes .nan for a valid one.)
MergedWithConsent ==
  [][\A c \in Candidate :
       c \in ToSet(history') \ Merged =>
         \/ decision = "approved" /\ row[c] = "approved"
         \/ /\ decision = "auto_approved"
            /\ config.min_improvement_over_baseline \in {NaN} \cup 0..(final_score - scores)
            /\ lied => config.require_no_failure_flags = FALSE
         \/ decision = "skipped" /\ config.enabled = FALSE /\ row[c] = "absent"]_vars

\* Every iteration comes to an end, whatever the model, the script and the
\* humans do.
IterationEnds ==
  pc \in {"read", "launch", "file"} ~> pc \in {"return", "down", "raised"}

\* Said where the stages are run: each stage's score reflects that stage's own
\* subset.  A stage whose script writes nothing is scored on what the stage
\* before it left in out_dir.
ScoredOnOwnPredictions ==
  pc = "score" /\ predictions # NoPredictions => predictions.stage = stage

\* Said by the signal handler: what a killed run leaves is reclaimed the next
\* time the program is run.  A run killed while it saves the baseline leaves a
\* file with which no later run gets as far as crash recovery.
NextRunRecovers == pc # "unreadable"
=============================================================================
