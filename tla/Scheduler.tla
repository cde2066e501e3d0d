------------------------------ MODULE Scheduler ------------------------------
(***************************************************************************)
(* One generation of the evolutionary search                               *)
(* (evolution/scheduler.py: ConcurrentScheduler.execute_generation).       *)
(*                                                                         *)
(* Phase 1: a pool of threads evaluates the candidates, each in its own    *)
(* worktree, all through one EvalPipeline object.  Phase 2, one thread:    *)
(* every candidate that passed has its approval request filed, then the    *)
(* decisions are awaited in turn, each followed by a merge or a rollback.  *)
(*                                                                         *)
(* The approval store and version control appear through what they promise *)
(* (ApprovalRegister, MergeLedger; ApprovalGate and GitController show the *)
(* code keeps the promises), with the steps between a read of the store    *)
(* and the write that acts on it kept apart.                               *)
(***************************************************************************)
EXTENDS Integers, SequencesExt

CONSTANTS
  Candidate,
  Elite,           \* candidates carried over, which have no worktree yet
  Workers,         \* values max_workers may have
  Stages,          \* number of progressive-scaling stages
  MaxScore,        \* scores are 0..MaxScore
  Threshold,       \* the absolute threshold of each stage
  min_improvement,
  StartBaseline,   \* best score merged before this generation
  GateSettings,    \* values approval.enabled may have
  AutoThreshold,   \* auto_approve.min_improvement_over_baseline
  GitMayFail       \* a merge or rollback may raise something but MergeConflict

Score == 0..MaxScore

ASSUME CandidateAssumption == IsFiniteSet(Candidate)
ASSUME CountAssumption == Workers \subseteq Nat \ {0} /\ Stages \in Nat \ {0}
ASSUME ScoreAssumption ==
  /\ MaxScore \in Nat /\ StartBaseline \in Score /\ min_improvement \in Nat
  /\ Threshold \in [1..Stages -> Score] /\ AutoThreshold \in Nat
ASSUME FlagAssumption ==
  Elite \subseteq Candidate /\ GateSettings \subseteq BOOLEAN /\ GitMayFail \in BOOLEAN

VARIABLES
  \* each evaluation thread
  pc, stage, stage_success, final_score, has_failure_flags, eval_passed, delta,
  \* the shared evaluator, the baseline, the worktrees
  last_stage_flag, baseline, worktrees,
  \* phase 2
  phase, queue, current, decision, success,
  \* the store and the line of development
  row, history, discarded,
  \* an exception left a thread
  broken,
  \* the configuration
  max_workers, enabled,
  \* whether a candidate ever printed a score that was not its own
  lied

thread == <<pc, stage, stage_success, final_score, has_failure_flags, eval_passed, delta, lied>>
serial == <<phase, queue, current, decision, success>>
repo == <<history, discarded, worktrees>>
settings == <<max_workers, enabled>>
vars == <<thread, last_stage_flag, baseline, repo, serial, row, broken, settings>>

Register == INSTANCE ApprovalRegister WITH Request <- Candidate, verdict <- row
Ledger == INSTANCE MergeLedger WITH Upstream <- {}

\* Mutant of Consent: no answer is taken for consent.
SilenceConsents == {"approved", "auto_approved", "skipped", "timed_out"}

Consent == {"approved", "auto_approved", "skipped"}

TypeOK ==
  /\ pc \in [Candidate -> {"queued", "running", "evaluated", "judging", "returned"}]
  /\ stage \in [Candidate -> 1..Stages]
  /\ stage_success \in [Candidate -> BOOLEAN]
  /\ final_score \in [Candidate -> Score]
  /\ has_failure_flags \in [Candidate -> BOOLEAN]
  /\ eval_passed \in [Candidate -> BOOLEAN]
  /\ delta \in [Candidate -> -MaxScore..MaxScore]
  /\ lied \in [Candidate -> BOOLEAN]
  /\ last_stage_flag \in BOOLEAN
  /\ baseline \in Score
  /\ worktrees \subseteq Candidate
  /\ phase \in {"evaluate", "file", "auto", "drain", "expire", "settle", "done", "aborted"}
  /\ queue \in Seq(Candidate)
  /\ current \in 1..(Len(queue) + 1)
  /\ decision \in [Candidate -> {"none", "skipped", "unreadable"} \cup Register!Decision]
  /\ success \in [Candidate -> BOOLEAN]
  /\ Register!TypeOK
  /\ history \in Seq(Candidate) /\ discarded \subseteq Candidate
  /\ broken \in BOOLEAN
  /\ max_workers \in Workers /\ enabled \in GateSettings

-----------------------------------------------------------------------------
(* Phase 1: evaluate_only, one thread per candidate, max_workers at a time *)

Busy == {c \in Candidate : pc[c] \notin {"queued", "returned"}}

Goto(c, l) == pc' = [pc EXCEPT ![c] = l]

Start(c) ==
  /\ pc[c] = "queued" /\ Cardinality(Busy) < max_workers
  /\ Goto(c, "running")
  /\ worktrees' = worktrees \cup {c}
  /\ UNCHANGED <<stage, stage_success, final_score, has_failure_flags, eval_passed, delta,
                 lied, last_stage_flag, baseline, history, discarded, serial, row, broken, settings>>

rollback(c) == Ledger!Discard(c) /\ worktrees' = worktrees \ {c}

\* Under the lock.  If it raises, the handler rolls back once more if the
\* branch is still there; if that raises too, the future holds the exception.
RollBack(c) ==
  \/ rollback(c) /\ UNCHANGED broken
  \/ /\ GitMayFail
     /\ broken' = TRUE
     /\ UNCHANGED <<history, discarded, worktrees>>

\* The patch does not apply, or the sandbox cannot be run.  (An elite whose
\* create_branch raises has nothing to roll back and is given up the same way.)
Fail(c) ==
  /\ pc[c] = "running"
  /\ Goto(c, "returned")
  /\ RollBack(c)
  /\ final_score' = [final_score EXCEPT ![c] = 0]
  /\ UNCHANGED <<stage, stage_success, has_failure_flags, eval_passed, delta, lied,
                 last_stage_flag, baseline, serial, row, settings>>

\* evaluate_stage of a run that crashed or timed out returns before it sets
\* last_stage_flags, which keeps what some earlier call left there.
StageCrashes(c) ==
  /\ pc[c] = "running"
  /\ Goto(c, "evaluated")
  /\ stage_success' = [stage_success EXCEPT ![c] = FALSE]
  /\ final_score' = [final_score EXCEPT ![c] = 0]
  /\ UNCHANGED <<stage, has_failure_flags, eval_passed, delta, lied,
                 last_stage_flag, baseline, repo, serial, row, broken, settings>>

\* evaluate_stage: the real score, and whether the printed claim is off.
StageScored(c, s, mismatch) ==
  /\ pc[c] = "running"
  /\ Goto(c, "evaluated")
  /\ stage_success' = [stage_success EXCEPT ![c] = s >= Threshold[stage[c]]]
  /\ final_score' = [final_score EXCEPT ![c] = s]
  /\ last_stage_flag' = mismatch
  /\ lied' = [lied EXCEPT ![c] = @ \/ mismatch]
  /\ UNCHANGED <<stage, has_failure_flags, eval_passed, delta, baseline, repo, serial, row,
                 broken, settings>>

\* The flag is read in a statement of its own, after the call.
ReadFlags(c) ==
  /\ pc[c] = "evaluated"
  /\ has_failure_flags' = [has_failure_flags EXCEPT ![c] = @ \/ last_stage_flag]
  /\ IF stage_success[c] /\ stage[c] < Stages
     THEN Goto(c, "running") /\ stage' = [stage EXCEPT ![c] = @ + 1]
     ELSE Goto(c, "judging") /\ UNCHANGED stage
  /\ UNCHANGED <<stage_success, final_score, eval_passed, delta, lied,
                 last_stage_flag, baseline, repo, serial, row, broken, settings>>

\* The baseline gate, against what was merged before this generation.
passes(s) == s > baseline + min_improvement

Judge(c) ==
  /\ pc[c] = "judging"
  /\ Goto(c, "returned")
  /\ delta' = [delta EXCEPT ![c] = final_score[c] - baseline]
  /\ \/ /\ stage_success[c] /\ passes(final_score[c])
        /\ eval_passed' = [eval_passed EXCEPT ![c] = TRUE]
        /\ UNCHANGED <<repo, broken>>
     \/ /\ ~(stage_success[c] /\ passes(final_score[c]))
        /\ RollBack(c)
        /\ UNCHANGED eval_passed
  /\ UNCHANGED <<stage, stage_success, final_score, has_failure_flags, lied,
                 last_stage_flag, baseline, serial, row, settings>>

-----------------------------------------------------------------------------
(* Phase 2 *)

Here == queue[current]

Enter(ph, i) == phase' = ph /\ current' = i

\* The executor's block ends when every thread has; as_completed yields those
\* already finished in no particular order.
Barrier ==
  /\ phase = "evaluate" /\ \A c \in Candidate : pc[c] = "returned"
  /\ IF broken
     THEN Enter("aborted", 1) /\ UNCHANGED queue
     ELSE /\ Enter("file", 1)
          /\ queue' \in SetToSeqs({c \in Candidate : eval_passed[c]})
  /\ UNCHANGED <<thread, last_stage_flag, baseline, repo, decision, success, row, broken, settings>>

\* create_approval_request.
File ==
  /\ phase = "file" /\ current <= Len(queue)
  /\ IF enabled
     THEN /\ Register!Open(Here)
          /\ Enter("auto", current)
          /\ UNCHANGED decision
     ELSE /\ decision' = [decision EXCEPT ![Here] = "skipped"]
          /\ Enter("file", current + 1)
          /\ UNCHANGED row
  /\ UNCHANGED <<thread, last_stage_flag, baseline, repo, queue, success, broken, settings>>

\* ApprovalStore.decide.
Decide(c, d) == IF row[c] = "pending" THEN Register!Settle(c, d) ELSE UNCHANGED row

\* Mutant of should_auto_approve: the flags are not looked at.
approve_flagged(c) == delta[c] >= AutoThreshold

should_auto_approve(c) == delta[c] >= AutoThreshold /\ ~has_failure_flags[c]

\* maybe_auto_approve, which does not look at what decide returns.
AutoApprove ==
  /\ phase = "auto"
  /\ IF should_auto_approve(Here)
     THEN /\ Decide(Here, "auto_approved")
          /\ decision' = [decision EXCEPT ![Here] = "auto_approved"]
     ELSE UNCHANGED <<row, decision>>
  /\ Enter("file", current + 1)
  /\ UNCHANGED <<thread, last_stage_flag, baseline, repo, queue, success, broken, settings>>

\* Mutant of AllFiled: awaiting starts before everything is filed.
SomeFiled ==
  /\ phase = "file"
  /\ Enter("drain", 1)
  /\ UNCHANGED <<thread, last_stage_flag, baseline, repo, queue, decision, success, row,
                 broken, settings>>

AllFiled ==
  /\ phase = "file" /\ current > Len(queue)
  /\ Enter("drain", 1)
  /\ UNCHANGED <<thread, last_stage_flag, baseline, repo, queue, decision, success, row,
                 broken, settings>>

\* await_approval_decision: a poll that finds a decision ...
PollDecided ==
  /\ phase = "drain" /\ current <= Len(queue)
  /\ decision[Here] # "none" \/ row[Here] # "pending"
  /\ decision' = [decision EXCEPT ![Here] = IF @ = "none" THEN row[Here] ELSE @]
  /\ Enter("settle", current)
  /\ UNCHANGED <<thread, last_stage_flag, baseline, repo, queue, success, row, broken, settings>>

\* ... one whose read of the store raises: answered timed_out, which is recorded
\* nowhere, so that the request stays open ...
PollFails ==
  /\ phase = "drain" /\ current <= Len(queue)
  /\ decision[Here] = "none"
  /\ decision' = [decision EXCEPT ![Here] = "unreadable"]
  /\ Enter("settle", current)
  /\ UNCHANGED <<thread, last_stage_flag, baseline, repo, queue, success, row, broken, settings>>

\* Mutant of LastPoll: the loop never looks at its deadline.
PollForever ==
  /\ phase = "drain" /\ current <= Len(queue)
  /\ decision[Here] = "none" /\ row[Here] = "pending"
  /\ UNCHANGED vars

\* ... or the last poll before the deadline, which does not.
LastPoll ==
  /\ phase = "drain" /\ current <= Len(queue)
  /\ decision[Here] = "none" /\ row[Here] = "pending"
  /\ Enter("expire", current)
  /\ UNCHANGED <<thread, last_stage_flag, baseline, repo, queue, decision, success, row,
                 broken, settings>>

\* Mutants of Expire: a status the store does not know, and none at all.
ExpireMisspelt ==
  /\ phase = "expire"
  /\ Decide(Here, "timeout")
  /\ decision' = [decision EXCEPT ![Here] = "timed_out"]
  /\ Enter("settle", current)
  /\ UNCHANGED <<thread, last_stage_flag, baseline, repo, queue, success, broken, settings>>

ExpireUnrecorded ==
  /\ phase = "expire"
  /\ decision' = [decision EXCEPT ![Here] = "timed_out"]
  /\ Enter("settle", current)
  /\ UNCHANGED <<thread, last_stage_flag, baseline, repo, queue, success, row, broken, settings>>

Expire ==
  /\ phase = "expire"
  /\ Decide(Here, "timed_out")
  /\ decision' = [decision EXCEPT ![Here] = "timed_out"]
  /\ Enter("settle", current)
  /\ UNCHANGED <<thread, last_stage_flag, baseline, repo, queue, success, broken, settings>>

\* Mutant of update_if_better: the last score merged, not the best.
update_always(s) == baseline' = s

update_if_better(s) == baseline' = IF s > baseline THEN s ELSE baseline

\* merge, then update_if_better.  Nobody asks again whether the candidate
\* still beats the baseline.
Merge ==
  /\ phase = "settle" /\ decision[Here] \in Consent
  /\ Ledger!Land(Here)
  /\ worktrees' = worktrees \ {Here}
  /\ success' = [success EXCEPT ![Here] = TRUE]
  /\ update_if_better(final_score[Here])
  /\ Enter("drain", current + 1)
  /\ UNCHANGED <<thread, last_stage_flag, queue, decision, row, broken, settings>>

\* The rebase conflicts: rolled back, and no longer counted as passed.
Conflict ==
  /\ phase = "settle" /\ decision[Here] \in Consent
  /\ rollback(Here)
  /\ eval_passed' = [eval_passed EXCEPT ![Here] = FALSE]
  /\ Enter("drain", current + 1)
  /\ UNCHANGED <<pc, stage, stage_success, final_score, has_failure_flags, delta, lied,
                 last_stage_flag, baseline, queue, decision, success, row,
                 broken, settings>>

Hold ==
  /\ phase = "settle" /\ decision[Here] \notin Consent
  /\ rollback(Here)
  /\ Enter("drain", current + 1)
  /\ UNCHANGED <<thread, last_stage_flag, baseline, queue, decision, success, row,
                 broken, settings>>

\* Anything else git raises ends the generation, and the run, here: before the
\* commit landed or after.
Abort ==
  /\ GitMayFail /\ phase = "settle"
  /\ Enter("aborted", current)
  /\ \/ decision[Here] \in Consent /\ Ledger!Land(Here) /\ UNCHANGED worktrees
     \/ UNCHANGED repo
  /\ UNCHANGED <<thread, last_stage_flag, baseline, queue, decision, success, row,
                 broken, settings>>

Finish ==
  /\ phase = "drain" /\ current > Len(queue)
  /\ Enter("done", current)
  /\ UNCHANGED <<thread, last_stage_flag, baseline, repo, queue, decision, success, row,
                 broken, settings>>

\* The dashboard.
HumanDecides(c, d) ==
  /\ Register!Settle(c, d)
  /\ UNCHANGED <<thread, last_stage_flag, baseline, repo, serial, broken, settings>>

-----------------------------------------------------------------------------
Init ==
  /\ pc = [c \in Candidate |-> "queued"]
  /\ stage = [c \in Candidate |-> 1]
  /\ stage_success = [c \in Candidate |-> TRUE]
  /\ final_score = [c \in Candidate |-> 0]
  /\ has_failure_flags = [c \in Candidate |-> FALSE]
  /\ eval_passed = [c \in Candidate |-> FALSE]
  /\ delta = [c \in Candidate |-> 0]
  /\ lied = [c \in Candidate |-> FALSE]
  /\ last_stage_flag \in BOOLEAN   \* what the generation before left
  /\ baseline = StartBaseline
  /\ max_workers \in Workers /\ enabled \in GateSettings
  /\ worktrees = Candidate \ Elite
  /\ phase = "evaluate" /\ queue = <<>> /\ current = 1
  /\ decision = [c \in Candidate |-> "none"]
  /\ success = [c \in Candidate |-> FALSE]
  /\ Register!Init /\ Ledger!Init
  /\ broken = FALSE

Thread(c) ==
  \/ Start(c) \/ Fail(c) \/ StageCrashes(c) \/ ReadFlags(c) \/ Judge(c)
  \/ \E s \in Score, m \in BOOLEAN : StageScored(c, s, m)

Drain ==
  \/ Barrier \/ File \/ AutoApprove \/ AllFiled
  \/ PollDecided \/ LastPoll \/ Expire
  \/ Merge \/ Conflict \/ Hold \/ Abort \/ Finish

Next ==
  \/ \E c \in Candidate : Thread(c)
  \/ Drain \/ PollFails
  \/ \E c \in Candidate, d \in {"approved", "rejected"} : HumanDecides(c, d)

Spec == Init /\ [][Next]_vars

\* Threads are scheduled, sandboxes have a wall-clock limit, and the wait for
\* a human has a deadline (ApprovalGate!AwaitEnds).  No read needs to fail.
Fairness == WF_vars(Drain) /\ \A c \in Candidate : WF_vars(Thread(c))

FairSpec == Spec /\ Fairness

-----------------------------------------------------------------------------
(* Properties *)

Merged == ToSet(history)

\* Whatever is merged got past the last threshold, beat the baseline the
\* generation started from, and was let through by the gate.
MergedWasVetted ==
  \A c \in Merged :
    /\ final_score[c] >= Threshold[Stages]
    /\ final_score[c] > StartBaseline + min_improvement
    /\ enabled => row[c] = "approved" \/ decision[c] = "auto_approved"

\* The baseline is the best score ever merged, unless the generation died
\* between a merge and the update.
BaselineIsBestMerged ==
  phase # "aborted" =>
    baseline = Max({StartBaseline} \cup {final_score[c] : c \in Merged})

\* A generation that comes to its end leaves no worktree, every candidate merged
\* or discarded, and no open request but one whose store could not be read,
\* of a candidate that was then discarded.
EverythingSettled ==
  phase = "done" =>
    /\ worktrees = {}
    /\ \A c \in Candidate : row[c] = "pending" => decision[c] = "unreadable" /\ c \in discarded
    /\ \A c \in Candidate : success[c] <=> c \in Merged
    /\ Merged \cup discarded = Candidate

\* Nobody's decision is awaited, and nothing is merged, before the requests of
\* the whole generation are on the dashboard.
ReviewedTogether ==
  enabled /\ (phase \in {"drain", "expire", "settle"} \/ Merged # {}) =>
    \A c \in Candidate : pc[c] = "returned" /\ (c \in ToSet(queue) => row[c] # "absent")

\* With one worker, and auto_approve's default, no candidate that claimed a
\* score other than its own is approved without a human, although a crashed
\* stage leaves the flag of whichever stage came before.
AutoApprovedIsHonest ==
  max_workers = 1 => \A c \in Candidate : decision[c] = "auto_approved" => ~lied[c]

\* Every generation ends, whatever the humans do.
GenerationEnds == <>(phase \in {"done", "aborted"})

\* Said of the baseline gate: a merge requires beating the best score ever
\* actually merged.  The check is made before any of the generation is merged.
MergeBeatsBaseline ==
  [][\A c \in Candidate :
       c \in ToSet(history') \ Merged => final_score[c] > baseline + min_improvement]_vars

\* Said of last_stage_flags: read immediately after the call, it is the
\* candidate's own.  With two workers another evaluation comes in between.
FlagIsOwn ==
  \A c \in Candidate : decision[c] = "auto_approved" => ~lied[c]
=============================================================================
