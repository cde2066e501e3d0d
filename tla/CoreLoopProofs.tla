--------------------------- MODULE CoreLoopProofs ----------------------------
(***************************************************************************)
(* What is proved of CoreLoop for every set of candidates, questions,      *)
(* prediction files, stages, target files, configurations and bounds.      *)
(***************************************************************************)
EXTENDS CoreLoop, BoundedSets, FiniteSetTheorems

-----------------------------------------------------------------------------
(* Types.  Each part of the invariant has a lemma that says the steps keep it. *)

\* A score is a number of questions.
LEMMA ScoreIsScore ==
  ASSUME NEW rows
  PROVE  score_predictions(rows) \in Score
<1>1. Correct(rows) \in SUBSET Id
  BY DEF Correct
<1>2. IsFiniteSet(Correct(rows)) /\ Cardinality(Correct(rows)) <= Cardinality(Id)
  BY <1>1, IdAssumption, FS_Subset
<1>3. Cardinality(Id) \in Nat /\ Cardinality(Correct(rows)) \in Nat
  BY <1>2, IdAssumption, FS_CardinalityType
<1> QED BY <1>2, <1>3 DEF score_predictions, Score

\* Scores are natural numbers, and 0 is one.
LEMMA ScoreIsNat == Score \subseteq Nat /\ 0 \in Score
<1>1. Cardinality(Id) \in Nat
  BY IdAssumption, FS_CardinalityType
<1> QED BY <1>1 DEF Score

\* Each diff changes a file at most once.
DataTyped ==
  /\ SplitType /\ GenerationType
  /\ pc \in {"read", "ask"} => \A f \in 1..Files : content[f] <= nth - 1

\* A candidate is at work in an iteration, and the loop counts no further than
\* it may.
LoopTyped ==
  /\ pc \in PC /\ config \in Configs
  /\ cand \in Candidate \cup {NoCandidate}
  /\ pc \in Working => cand \in Candidate /\ i < max_iterations
  /\ best_score \in Score /\ any_success \in BOOLEAN
  /\ i \in 0..max_iterations
  /\ iterations_since_improvement \in 0..i

StoreTyped ==
  /\ Register!TypeOK
  /\ history \in Seq(Candidate) /\ discarded \subseteq Candidate
  /\ worktrees \subseteq Candidate
  /\ experiments \in [Candidate -> SUBSET Outcome]
  /\ state_json \in Score \cup {Empty}
  /\ landed_before \in 0..Len(history)

ScoringTyped ==
  /\ container \in BOOLEAN
  /\ predictions \in [stage : 1..Len(stages), rows : PredictionFile] \cup {NoPredictions}
  /\ stage \in 1..Len(stages)
  /\ scores \in Score /\ final_score \in Score
  /\ flagged \in BOOLEAN /\ lied \in BOOLEAN /\ last_stage_flags \in BOOLEAN
  /\ result \in Outcome

\* The row of the candidate at work, and what the process makes of it.
RowInOrder ==
  /\ decision \in {"none", "skipped", "unreadable"} \cup Register!Decision
  /\ pc \in {"read", "ask", "commit", "check", "launch", "sandbox", "score", "judge", "file"} =>
       row[cand] = "absent"
  /\ pc \in {"auto", "poll", "expire"} => row[cand] \in {"pending", "approved", "rejected"}
  /\ pc \in {"update", "truncated"} => row[cand] # "pending"
  /\ pc \in {"decide", "record", "rollback", "return"} /\ row[cand] = "pending" =>
       decision = "unreadable" /\ (pc # "decide" => result = "held")
  /\ pc = "decide" =>
       /\ decision = "approved" => row[cand] = "approved"
       /\ decision = "auto_approved" => should_auto_approve(config, final_score - scores, flagged)
       /\ decision = "skipped" => ~enabled(config) /\ row[cand] = "absent"

Typed == DataTyped /\ LoopTyped /\ StoreTyped /\ ScoringTyped /\ RowInOrder

\* The parts together are the type invariant the runs check.
LEMMA TypedIsTypeOK == Typed => TypeOK
<1> SUFFICES ASSUME Typed PROVE TypeOK
  OBVIOUS
<1>1. iterations_since_improvement \in 0..max_iterations
  BY LoopAssumption DEF Typed, LoopTyped
<1> QED BY <1>1 DEF Typed, DataTyped, LoopTyped, StoreTyped, ScoringTyped, RowInOrder, TypeOK

\* Generation never reads, shows or patches a file beyond the last, and no file
\* changes more often than there are diffs.
LEMMA DataTypedStays == DataTyped /\ [Next]_vars => DataTyped'
<1> SUFFICES ASSUME DataTyped, [Next]_vars PROVE DataTyped'
  OBVIOUS
<1> USE DEF DataTyped, SplitType, FileState, GenerationType, split, generation, iteration, Goto
<1>1. CASE Startup
  BY <1>1 DEF Startup, GenerateSplit, WriteSplit, LoadTruth, LoadBaseline, RunStartupCleanup,
              OpenSplit, FillSplit, OpenTruth, SaveTruth
<1>2. CASE Generate
  <2>1. CASE Read
    BY <2>1, RetriesAssumption DEF Read, ReadFile, current_content
  <2>2. ASSUME NEW changes \in SUBSET (1..Files), NEW applies \in BOOLEAN,
               GenerateDiff(changes, applies)
        PROVE  DataTyped'
    BY <2>2, RetriesAssumption DEF GenerateDiff, Ask, MayAsk
  <2>3. CASE Patch
    <3>1. nth \in 1..Files /\ Files \in Nat /\ content \in [1..Files -> 0..Files]
          /\ \A f \in 1..Files : content[f] <= nth - 1
      BY <2>3, FilesAssumption DEF Patch
    <3>2. content' = [f \in 1..Files |-> content[f] + (IF f \in touched THEN 1 ELSE 0)]
      BY <2>3 DEF Patch, ApplyPatch
    <3>3. \A f \in 1..Files : content'[f] \in 0..Files /\ content'[f] <= nth
      BY <3>1, <3>2
    <3>4. content' \in [1..Files -> 0..Files]
      BY <3>2, <3>3
    <3>5. nth' \in 1..Files /\ (pc' = "read" => nth' = nth + 1) /\ pc' # "ask"
      BY <2>3, <3>1 DEF Patch, ApplyPatch, LastFile
    <3>6. pc' \in {"read", "ask"} => \A f \in 1..Files : content'[f] <= nth' - 1
      BY <3>1, <3>3, <3>5
    <3> QED BY <2>3, <3>1, <3>4, <3>5, <3>6, RetriesAssumption DEF Patch, ApplyPatch
  <2>4. CASE Commit
    BY <2>4, FilesAssumption DEF Commit
  <2>5. CASE PatchFails \/ StaticCheck
    BY <2>5 DEF PatchFails, StaticCheck, Concludes
  <2> QED BY <1>2, <2>1, <2>2, <2>3, <2>4, <2>5 DEF Generate
<1>3. CASE Evaluate
  BY <1>3 DEF Evaluate, Launch, ScriptEnds, ScriptCrashes, TimesOut, NoScore, EvaluateStage,
              Judge, Concludes
<1>4. CASE Settle
  BY <1>4 DEF Settle, File, AutoApprove, Poll, PollFails, Expire, Hold, Conflict, Merge, UpdateIfBetter,
              Save, Record, Rollback, Elsewhere, Concludes
<1>5. CASE Return \/ Crash \/ RunAgain \/ \E c \in Candidate : CreateBranch(c)
  BY <1>5, FilesAssumption, RetriesAssumption
     DEF Return, Crash, RunAgain, CreateBranch, Emptied, Forgotten, FreshGeneration
<1>6. CASE \/ \E rows \in PredictionFile : CandidateWrites(rows)
           \/ \E c \in Candidate, d \in {"approved", "rejected"} : HumanDecides(c, d)
           \/ UNCHANGED vars
  BY <1>6 DEF CandidateWrites, HumanDecides, vars
<1> QED BY <1>1, <1>2, <1>3, <1>4, <1>5, <1>6 DEF Next, Iterate

\* A step that runs an iteration has a candidate, and a loop an iteration left.
LEMMA LoopTypedStays == LoopTyped /\ ScoringTyped /\ [Next]_vars => LoopTyped'
<1> SUFFICES ASSUME LoopTyped, ScoringTyped, [Next]_vars PROVE LoopTyped'
  OBVIOUS
<1>0. Score \subseteq Nat /\ 0 \in Score
  BY ScoreIsNat
<1> USE DEF LoopTyped, PC, Loading, Stopped, Working, Goto, loop, memory, iteration
<1>1. CASE Startup
  BY <1>1 DEF Startup, GenerateSplit, WriteSplit, LoadTruth, LoadBaseline, RunStartupCleanup
<1>2. CASE Generate
  BY <1>2 DEF Generate, Read, GenerateDiff, Patch, PatchFails, Commit, StaticCheck, Concludes
<1>3. CASE Evaluate
  BY <1>3 DEF Evaluate, Launch, ScriptEnds, ScriptCrashes, TimesOut, NoScore, EvaluateStage,
              Judge, Concludes
<1>4. CASE Settle
  BY <1>4 DEF Settle, File, AutoApprove, Poll, PollFails, Expire, Hold, Conflict, Merge, UpdateIfBetter,
              Save, Record, Rollback, Elsewhere, Concludes
<1>5. CASE Return
  <2>1. /\ i < max_iterations /\ i' = i + 1 /\ i' \in 0..max_iterations
        /\ iterations_since_improvement' \in 0..i'
    BY <1>5, LoopAssumption DEF Return
  <2>2. best_score' \in Score
    BY <1>5 DEF Return, ScoringTyped
  <2>3. any_success' \in BOOLEAN
    BY <1>5 DEF Return, succeeded
  <2>4. pc' \in {"exit_0", "exit_1", "head"} /\ cand' = NoCandidate /\ config' = config
    BY <1>5 DEF Return, Forgotten
  <2> QED BY <2>1, <2>2, <2>3, <2>4
<1>6. CASE Crash \/ RunAgain
  <2>1. /\ pc' \in {"dataset", "down", "raised"} /\ config' \in Configs
        /\ cand' = NoCandidate /\ any_success' = FALSE
    BY <1>6 DEF Crash, RunAgain, Emptied, Forgotten
  <2>2. i' = 0 /\ iterations_since_improvement' = 0 /\ best_score' = 0
    BY <1>6 DEF Crash, RunAgain, Emptied
  <2>3. 0 \in 0..max_iterations /\ 0 \in 0..0
    BY LoopAssumption
  <2> QED BY <1>0, <2>1, <2>2, <2>3
<1>7. ASSUME NEW c \in Candidate, CreateBranch(c) PROVE LoopTyped'
  BY <1>7 DEF CreateBranch
<1>8. CASE \/ \E rows \in PredictionFile : CandidateWrites(rows)
           \/ \E c \in Candidate, d \in {"approved", "rejected"} : HumanDecides(c, d)
           \/ UNCHANGED vars
  BY <1>8 DEF CandidateWrites, HumanDecides, vars, scoring
<1> QED BY <1>1, <1>2, <1>3, <1>4, <1>5, <1>6, <1>7, <1>8 DEF Next, Iterate

\* What is measured of a candidate is a score, a stage or a flag.
LEMMA ScoringTypedStays ==
  ScoringTyped /\ StoreTyped /\ [Next]_vars => ScoringTyped'
<1> SUFFICES ASSUME ScoringTyped, StoreTyped, [Next]_vars PROVE ScoringTyped'
  OBVIOUS
<1>0. Score \subseteq Nat /\ 0 \in Score
  BY ScoreIsNat
<1> USE DEF ScoringTyped, sandbox, scoring, memory, iteration
<1>1. CASE Startup
  BY <1>1, <1>0 DEF Startup, GenerateSplit, WriteSplit, LoadTruth, LoadBaseline, RunStartupCleanup,
              StoreTyped, Empty
<1>2. CASE Generate
  BY <1>2 DEF Generate, Read, GenerateDiff, Patch, PatchFails, Commit, StaticCheck, Concludes, Outcome
<1>3. CASE Evaluate
  <2>1. CASE Launch \/ ScriptEnds
    BY <2>1 DEF Launch, StartContainer, ScriptEnds, ContainerExits
  <2>2. CASE ScriptCrashes \/ TimesOut \/ Judge
    BY <1>0, <2>2 DEF ScriptCrashes, ContainerExits, TimesOut, StopContainer, NoScore, StageNotRun,
                      Judge, Concludes, Outcome
  <2>3. ASSUME NEW m \in BOOLEAN, EvaluateStage(m) PROVE ScoringTyped'
    <3>1. final_score' \in Score
      BY <2>3, ScoreIsScore DEF EvaluateStage
    <3>2. stage' \in 1..Len(stages)
      BY <2>3, StagesAssumption DEF EvaluateStage
    <3>3. flagged' \in BOOLEAN /\ lied' \in BOOLEAN /\ last_stage_flags' \in BOOLEAN
      BY <2>3 DEF EvaluateStage, StageScored
    <3>4. result' \in Outcome
      BY <2>3 DEF EvaluateStage, Concludes, Outcome
    <3> QED BY <2>3, <3>1, <3>2, <3>3, <3>4 DEF EvaluateStage
  <2> QED BY <1>3, <2>1, <2>2, <2>3 DEF Evaluate
<1>4. CASE Settle
  <2>1. CASE File \/ AutoApprove \/ Poll \/ PollFails \/ Expire \/ Hold \/ Conflict
    BY <2>1 DEF File, AutoApprove, Poll, PollFails, Expire, Hold, Conflict, Elsewhere, Concludes, Outcome
  <2>2. CASE Merge \/ UpdateIfBetter \/ Save \/ Record \/ Rollback
    BY <2>2 DEF Merge, UpdateIfBetter, Save, Record, Rollback, Elsewhere, Concludes, Outcome,
                FreshSandbox
  <2> QED BY <1>4, <2>1, <2>2 DEF Settle
<1>5. CASE Return \/ Crash \/ RunAgain \/ \E c \in Candidate : CreateBranch(c)
  <2>1. 1 \in 1..Len(stages)
    BY StagesAssumption
  <2> QED BY <1>0, <1>5, <2>1
          DEF Return, Crash, RunAgain, Emptied, Forgotten, FreshSandbox, CreateBranch, Outcome
<1>6. CASE \/ \E rows \in PredictionFile : CandidateWrites(rows)
           \/ \E c \in Candidate, d \in {"approved", "rejected"} : HumanDecides(c, d)
           \/ UNCHANGED vars
  BY <1>6 DEF CandidateWrites, WritePredictions, HumanDecides, vars
<1> QED BY <1>1, <1>2, <1>3, <1>4, <1>5, <1>6 DEF Next, Iterate

\* The durable state keeps its types, whoever writes to it.
LEMMA StoreTypedStays ==
  StoreTyped /\ LoopTyped /\ ScoringTyped /\ [Next]_vars => StoreTyped'
<1> SUFFICES ASSUME StoreTyped, LoopTyped, ScoringTyped, [Next]_vars PROVE StoreTyped'
  OBVIOUS
<1> USE DEF StoreTyped, Register!TypeOK, store, repo, loop
<1>1. CASE Startup
  <2>1. CASE GenerateSplit \/ WriteSplit \/ LoadTruth \/ LoadBaseline
    BY <2>1 DEF GenerateSplit, WriteSplit, LoadTruth, LoadBaseline
  <2>2. ASSUME NEW stale \in SUBSET Candidate, RunStartupCleanup(stale) PROVE StoreTyped'
    <3>1. row' \in [Candidate -> Register!Status]
      BY <2>2 DEF RunStartupCleanup, Register!Status, Register!Decision
    <3> QED BY <2>2, <3>1 DEF RunStartupCleanup
  <2> QED BY <1>1, <2>1, <2>2 DEF Startup
<1>2. CASE Generate
  BY <1>2 DEF Generate, Read, GenerateDiff, Patch, PatchFails, Commit, StaticCheck
<1>3. CASE Evaluate
  BY <1>3 DEF Evaluate, Launch, ScriptEnds, ScriptCrashes, TimesOut, EvaluateStage, Judge
<1>4. CASE Settle
  <2>0. cand \in Candidate
    BY <1>4 DEF Settle, File, AutoApprove, Poll, PollFails, Expire, Hold, Conflict, Merge, UpdateIfBetter,
                Save, Record, Rollback, LoopTyped, Working
  <2>1. CASE File \/ AutoApprove \/ Poll \/ PollFails \/ Expire
    <3>1. row' \in [Candidate -> Register!Status]
      BY <2>0, <2>1 DEF File, Register!Open, AutoApprove, Poll, PollFails, Expire, Elsewhere, Decide,
                        Register!Settle, Register!Status, Register!Decision
    <3> QED BY <2>1, <3>1 DEF File, AutoApprove, Poll, PollFails, Expire, Elsewhere
  <2>2. CASE Hold \/ Conflict
    BY <2>2 DEF Hold, Conflict, Elsewhere
  <2>3. CASE UpdateIfBetter \/ Save
    BY <2>3 DEF UpdateIfBetter, Save, Elsewhere, ScoringTyped
  <2>4. CASE Record
    <3>1. experiments' \in [Candidate -> SUBSET Outcome]
      BY <2>0, <2>4 DEF Record, ScoringTyped
    <3> QED BY <2>4, <3>1 DEF Record, Elsewhere
  <2>5. CASE Merge
    <3>1. history' = Append(history, cand) /\ UNCHANGED <<discarded, store, landed_before>>
      BY <2>5 DEF Merge, Ledger!Land, Elsewhere
    <3>2. history' \in Seq(Candidate) /\ Len(history') = Len(history) + 1
      BY <2>0, <3>1
    <3>3. landed_before' \in 0..Len(history')
      BY <3>1, <3>2
    <3> QED BY <2>5, <3>1, <3>2, <3>3 DEF Merge
  <2>6. CASE Rollback
    BY <2>0, <2>6 DEF Rollback, Ledger!Discard, Elsewhere
  <2> QED BY <1>4, <2>1, <2>2, <2>3, <2>4, <2>5, <2>6 DEF Settle
<1>5. CASE Return \/ Crash \/ RunAgain \/ \E c \in Candidate : CreateBranch(c)
  <2>1. Len(history) \in 0..Len(history)
    OBVIOUS
  <2> QED BY <1>5, <2>1 DEF Return, Crash, RunAgain, CreateBranch
<1>6. CASE UNCHANGED vars \/ \E rows \in PredictionFile : CandidateWrites(rows)
  BY <1>6 DEF CandidateWrites, vars
<1>7. ASSUME NEW c \in Candidate, NEW d \in {"approved", "rejected"}, HumanDecides(c, d)
      PROVE  StoreTyped'
  BY <1>7 DEF HumanDecides, Register!Settle, Register!Status, Register!Decision
<1> QED BY <1>1, <1>2, <1>3, <1>4, <1>5, <1>6, <1>7 DEF Next, Iterate

\* The row of the candidate at work opens once, and what the gate decides is what
\* the row, the rule or the configuration says.
LEMMA RowStays ==
  RowInOrder /\ LoopTyped /\ StoreTyped /\ [Next]_vars => RowInOrder'
<1> SUFFICES ASSUME RowInOrder, LoopTyped, StoreTyped, [Next]_vars PROVE RowInOrder'
  OBVIOUS
<1> USE DEF RowInOrder, Register!Decision, Goto, Concludes, store, memory, iteration
<1>0. pc \in Working => cand \in Candidate
  BY DEF LoopTyped
<1>1. CASE Startup
  <2>1. pc' \notin Working
    BY <1>1 DEF Startup, GenerateSplit, WriteSplit, LoadTruth, LoadBaseline, RunStartupCleanup,
                Working
  <2>2. UNCHANGED decision
    BY <1>1 DEF Startup, GenerateSplit, WriteSplit, LoadTruth, LoadBaseline, RunStartupCleanup
  <2> QED BY <2>1, <2>2 DEF Working
<1>2. CASE Generate
  BY <1>2 DEF Generate, Read, GenerateDiff, Patch, PatchFails, Commit, StaticCheck
<1>3. CASE Evaluate
  BY <1>3 DEF Evaluate, Launch, ScriptEnds, ScriptCrashes, TimesOut, NoScore, EvaluateStage, Judge
<1>4. CASE Settle
  <2>0. cand \in Candidate /\ row \in [Candidate -> Register!Status]
    BY <1>0, <1>4 DEF Settle, File, AutoApprove, Poll, PollFails, Expire, Hold, Conflict, Merge,
                      UpdateIfBetter, Save, Record, Rollback, Working, StoreTyped, Register!TypeOK
  <2>1. CASE File
    BY <2>0, <2>1 DEF File, Register!Open, Elsewhere
  <2>2. CASE AutoApprove
    BY <2>0, <2>2 DEF AutoApprove, Decide, Register!Settle, Elsewhere, scoring
  <2>3. CASE Poll \/ PollFails
    BY <2>0, <2>3 DEF Poll, PollFails, Elsewhere, Register!Status
  <2>4. CASE Expire
    BY <2>0, <2>4 DEF Expire, Decide, Register!Settle, Elsewhere
  <2>5. CASE Hold \/ Conflict \/ Merge \/ UpdateIfBetter \/ Save \/ Record \/ Rollback
    BY <2>5 DEF Hold, Conflict, Merge, UpdateIfBetter, Save, Record, Rollback, Elsewhere, Consent
  <2> QED BY <1>4, <2>1, <2>2, <2>3, <2>4, <2>5 DEF Settle
<1>5. CASE Return \/ Crash \/ RunAgain
  BY <1>5 DEF Return, Crash, RunAgain, Emptied, Forgotten
<1>6. CASE \E c \in Candidate : CreateBranch(c)
  BY <1>6 DEF CreateBranch, Fresh
<1>7. ASSUME NEW c \in Candidate, NEW d \in {"approved", "rejected"}, HumanDecides(c, d)
      PROVE  RowInOrder'
  <2>1. row[c] = "pending" /\ row' = [row EXCEPT ![c] = d]
        /\ UNCHANGED <<pc, config, cand, decision, result, scores, final_score, flagged>>
    BY <1>7 DEF HumanDecides, Register!Settle, scoring
  <2>2. row \in [Candidate -> Register!Status]
    BY DEF StoreTyped, Register!TypeOK
  <2>3. row'[c] = d /\ \A b \in Candidate \ {c} : row'[b] = row[b]
    BY <2>1, <2>2
  <2> QED BY <1>0, <2>1, <2>3 DEF Working
<1>8. CASE UNCHANGED vars \/ \E rows \in PredictionFile : CandidateWrites(rows)
  BY <1>8 DEF CandidateWrites, vars, scoring
<1> QED BY <1>1, <1>2, <1>3, <1>4, <1>5, <1>6, <1>7, <1>8 DEF Next, Iterate

\* A first run starts well typed.
LEMMA TypedInit == Init => Typed
<1> SUFFICES ASSUME Init PROVE Typed
  OBVIOUS
<1>0. 0 \in Score
  BY ScoreIsNat
<1>1. DataTyped
  <2>1. content \in [1..Files -> 0..Files] /\ 1 \in 1..Files /\ 0 \in 0..Files
    BY FilesAssumption DEF Init, GenerationInit
  <2>2. 0 \in 0..max_apply_retries
    BY RetriesAssumption
  <2>3. GenerationType /\ pc = "dataset"
    BY <2>1, <2>2 DEF Init, GenerationInit, GenerationType
  <2> QED BY <2>3 DEF DataTyped, Init, SplitInit, SplitType, FileState
<1>2. LoopTyped
  <2>1. 0 \in 0..max_iterations /\ 0 \in 0..0
    BY LoopAssumption
  <2> QED BY <1>0, <2>1 DEF Init, LoopTyped, PC, Loading, Working
<1>3. StoreTyped
  <2>1. Register!TypeOK
    BY DEF Init, Register!Init, Register!TypeOK, Register!Status
  <2>2. history = <<>> /\ discarded = {}
    BY DEF Init, Ledger!Init
  <2>3. history \in Seq(Candidate) /\ landed_before \in 0..Len(history)
    BY <2>2 DEF Init
  <2> QED BY <1>0, <2>1, <2>2, <2>3 DEF Init, StoreTyped
<1>4. ScoringTyped
  <2>1. 1 \in 1..Len(stages)
    BY StagesAssumption
  <2> QED BY <1>0, <2>1 DEF Init, ScoringTyped, Outcome
<1>5. RowInOrder
  BY DEF Init, RowInOrder
<1> QED BY <1>1, <1>2, <1>3, <1>4, <1>5 DEF Typed

\* The parts together are inductive.
LEMMA TypedStays == Typed /\ [Next]_vars => Typed'
BY DataTypedStays, LoopTypedStays, ScoringTypedStays, StoreTypedStays, RowStays DEF Typed

\* Every value the orchestrator and its durable state take has its type, and a
\* loop that has run its iterations does not start another.
THEOREM TypeCorrect == Spec => []TypeOK
BY TypedInit, TypedStays, TypedIsTypeOK, PTL DEF Spec

-----------------------------------------------------------------------------
(* The data *)

\* truth.json is opened when the rows are closed, and not before.
SplitInOrder ==
  /\ truth # "absent" \/ pc \in {"open_truth", "save_truth"} => train = "whole" /\ test = "whole"
  /\ SplitIsWhole

\* Whichever file exists was written after those it is tested by.
LEMMA SplitStays == SplitInOrder /\ [Next]_vars => SplitInOrder'
<1> SUFFICES ASSUME SplitInOrder, [Next]_vars PROVE SplitInOrder'
  OBVIOUS
<1> USE DEF SplitInOrder, SplitIsWhole, Loading, Stopped, Goto, split
<1>1. CASE Startup
  BY <1>1 DEF Startup, GenerateSplit, WriteSplit, LoadTruth, LoadBaseline, RunStartupCleanup,
              Generated, OpenSplit, FillSplit, OpenTruth, SaveTruth, Loadable
<1>2. CASE Generate
  BY <1>2 DEF Generate, Read, GenerateDiff, Patch, PatchFails, Commit, StaticCheck, Concludes
<1>3. CASE Evaluate
  BY <1>3 DEF Evaluate, Launch, ScriptEnds, ScriptCrashes, TimesOut, NoScore, EvaluateStage,
              Judge, Concludes
<1>4. CASE Settle
  BY <1>4 DEF Settle, File, AutoApprove, Poll, PollFails, Expire, Hold, Conflict, Merge, UpdateIfBetter,
              Save, Record, Rollback, Elsewhere, Concludes
<1>5. CASE Return \/ Crash \/ RunAgain
  BY <1>5 DEF Return, Crash, RunAgain
<1>6. CASE \/ \E c \in Candidate : CreateBranch(c)
           \/ \E rows \in PredictionFile : CandidateWrites(rows)
           \/ \E c \in Candidate, d \in {"approved", "rejected"} : HumanDecides(c, d)
  BY <1>6 DEF CreateBranch, CandidateWrites, HumanDecides
<1>7. CASE UNCHANGED vars
  BY <1>7 DEF vars
<1> QED BY <1>1, <1>2, <1>3, <1>4, <1>5, <1>6, <1>7 DEF Next, Iterate

\* No run gets past load_truth with files that were not written together.
THEOREM SplitStaysWhole == Spec => []SplitIsWhole
<1>1. Init => SplitInOrder
  BY DEF Init, SplitInit, SplitInOrder, SplitIsWhole, Loading
<1>2. SplitInOrder => SplitIsWhole
  BY DEF SplitInOrder
<1> QED BY <1>1, <1>2, SplitStays, PTL DEF Spec

-----------------------------------------------------------------------------
(* Flags *)

\* The flag is the candidate's until a stage is given up, and then nobody reads it.
FlagInOrder == pc \notin {"record", "rollback", "return"} \cup Stopped => flagged = lied

\* Flags are raised for a mismatch and cleared with the candidate.
LEMMA FlagStays == TypeOK /\ FlagInOrder /\ [Next]_vars => FlagInOrder'
<1> SUFFICES ASSUME TypeOK, FlagInOrder, [Next]_vars PROVE FlagInOrder'
  OBVIOUS
<1> USE DEF FlagInOrder, Stopped, Goto, scoring, memory, iteration
<1>1. CASE Startup
  BY <1>1 DEF Startup, GenerateSplit, WriteSplit, LoadTruth, LoadBaseline, RunStartupCleanup
<1>2. CASE Generate
  BY <1>2 DEF Generate, Read, GenerateDiff, Patch, PatchFails, Commit, StaticCheck, Concludes
<1>3. CASE Evaluate
  <2>1. CASE Launch \/ ScriptEnds \/ ScriptCrashes \/ TimesOut \/ Judge
    BY <2>1 DEF Launch, ScriptEnds, ScriptCrashes, TimesOut, NoScore, Judge, Concludes
  <2>2. ASSUME NEW m \in BOOLEAN, EvaluateStage(m) PROVE FlagInOrder'
    BY <2>2 DEF EvaluateStage, StageScored
  <2> QED BY <1>3, <2>1, <2>2 DEF Evaluate
<1>4. CASE Settle
  BY <1>4 DEF Settle, File, AutoApprove, Poll, PollFails, Expire, Hold, Conflict, Merge, UpdateIfBetter,
              Save, Record, Rollback, Elsewhere, Concludes
<1>5. CASE Return \/ Crash \/ RunAgain
  BY <1>5 DEF Return, Crash, RunAgain, Emptied, Forgotten
<1>6. CASE \/ \E c \in Candidate : CreateBranch(c)
           \/ \E rows \in PredictionFile : CandidateWrites(rows)
           \/ \E c \in Candidate, d \in {"approved", "rejected"} : HumanDecides(c, d)
  BY <1>6 DEF CreateBranch, CandidateWrites, HumanDecides
<1>7. CASE UNCHANGED vars
  BY <1>7 DEF vars
<1> QED BY <1>1, <1>2, <1>3, <1>4, <1>5, <1>6, <1>7 DEF Next, Iterate

\* What a reviewer or the rule for automatic approval sees as a flag is the
\* candidate's own, however the evaluator was left by the ones before.
THEOREM FlagsStayOwn == Spec => []FlagsAreOwn
<1>1. Init => FlagInOrder
  BY DEF Init, FlagInOrder
<1>2. FlagInOrder => FlagsAreOwn
  BY DEF FlagInOrder, FlagsAreOwn, Vetted, Stopped
<1> QED BY <1>1, <1>2, FlagStays, TypeCorrect, PTL DEF Spec

-----------------------------------------------------------------------------
(* Patches *)

\* The files before the one at work are patched, and it has been shown as it is.
PatchInOrder ==
  /\ pc \in {"read", "ask"} => patched = 1..(nth - 1)
  /\ pc \in Working \ {"read", "ask", "record", "rollback", "return"} => patched = 1..Files
  /\ pc = "ask" => shown = content[nth]

\* Files are read, shown and patched one after another.
LEMMA PatchStays == TypeOK /\ PatchInOrder /\ [Next]_vars => PatchInOrder'
<1> SUFFICES ASSUME TypeOK, PatchInOrder, [Next]_vars PROVE PatchInOrder'
  OBVIOUS
<1> USE DEF PatchInOrder, Working, Goto, generation, iteration
<1>1. CASE Startup
  BY <1>1 DEF Startup, GenerateSplit, WriteSplit, LoadTruth, LoadBaseline, RunStartupCleanup
<1>2. CASE Generate
  <2>1. CASE Read
    BY <2>1 DEF Read, ReadFile, current_content
  <2>2. CASE \E changes \in SUBSET (1..Files), applies \in BOOLEAN : GenerateDiff(changes, applies)
    BY <2>2 DEF GenerateDiff, Ask
  <2>3. CASE Patch
    <3>1. nth \in Nat /\ Files \in Nat
      BY FilesAssumption DEF TypeOK, GenerationType
    <3>2. patched = 1..(nth - 1) /\ patched' = patched \cup {nth}
      BY <2>3 DEF Patch, ApplyPatch
    <3>3. patched' = 1..nth
      <4>1. nth >= 1
        BY DEF TypeOK, GenerationType
      <4> QED BY <3>1, <3>2, <4>1
    <3>4. nth' = (IF nth = Files THEN nth ELSE nth + 1)
          /\ pc' = (IF nth = Files THEN "commit" ELSE "read")
      BY <2>3 DEF Patch, ApplyPatch, LastFile
    <3> QED BY <3>1, <3>3, <3>4
  <2>4. CASE PatchFails \/ Commit \/ StaticCheck
    BY <2>4 DEF PatchFails, Commit, StaticCheck, Concludes
  <2> QED BY <1>2, <2>1, <2>2, <2>3, <2>4 DEF Generate
<1>3. CASE Evaluate
  BY <1>3 DEF Evaluate, Launch, ScriptEnds, ScriptCrashes, TimesOut, NoScore, EvaluateStage,
              Judge, Concludes
<1>4. CASE Settle
  BY <1>4 DEF Settle, File, AutoApprove, Poll, PollFails, Expire, Hold, Conflict, Merge, UpdateIfBetter,
              Save, Record, Rollback, Elsewhere, Concludes
<1>5. CASE Return \/ Crash \/ RunAgain
  BY <1>5 DEF Return, Crash, RunAgain, Stopped
<1>6. CASE \E c \in Candidate : CreateBranch(c)
  BY <1>6 DEF CreateBranch, FreshGeneration
<1>7. CASE \/ \E rows \in PredictionFile : CandidateWrites(rows)
           \/ \E c \in Candidate, d \in {"approved", "rejected"} : HumanDecides(c, d)
           \/ UNCHANGED vars
  BY <1>7 DEF CandidateWrites, HumanDecides, vars
<1> QED BY <1>1, <1>2, <1>3, <1>4, <1>5, <1>6, <1>7 DEF Next, Iterate

\* Whatever is run, filed or merged has the diff of every target file.
THEOREM PatchedInFull == Spec => []PatchedWhole
<1>1. Init => PatchInOrder
  BY DEF Init, PatchInOrder, Working
<1>2. PatchInOrder => PatchedWhole
  BY DEF PatchInOrder, PatchedWhole, Vetted, Working
<1> QED BY <1>1, <1>2, PatchStays, TypeCorrect, PTL DEF Spec

\* No diff is applied to content other than what the model was shown.
THEOREM AppliedAsShown == Spec => AppliedToWhatWasShown
<1> DEFINE Fits == \A f \in 1..Files : patched' \ patched = {f} => shown = content[f]
<1>1. Init => PatchInOrder
  BY DEF Init, PatchInOrder, Working
<1>2. TypeOK /\ PatchInOrder /\ [Next]_vars => [Fits]_vars
  <2> SUFFICES ASSUME PatchInOrder, Next,
                      NEW f \in 1..Files, patched' \ patched = {f}
               PROVE  shown = content[f]
    BY DEF PatchInOrder, vars
  <2>1. CASE Patch
    BY <2>1 DEF Patch, ApplyPatch, PatchInOrder
  <2>2. CASE Startup
    BY <2>2 DEF Startup, GenerateSplit, WriteSplit, LoadTruth, LoadBaseline, RunStartupCleanup,
                iteration, generation
  <2>3. CASE Read \/ PatchFails \/ Commit \/ StaticCheck
             \/ \E changes \in SUBSET (1..Files), applies \in BOOLEAN : GenerateDiff(changes, applies)
    BY <2>3 DEF Read, ReadFile, PatchFails, Commit, StaticCheck, GenerateDiff, Ask, generation
  <2>4. CASE Evaluate
    BY <2>4 DEF Evaluate, Launch, ScriptEnds, ScriptCrashes, TimesOut, EvaluateStage, Judge,
                generation
  <2>5. CASE Settle
    BY <2>5 DEF Settle, File, AutoApprove, Poll, PollFails, Expire, Hold, Conflict, Merge, UpdateIfBetter,
                Save, Record, Rollback, Elsewhere, generation
  <2>6. CASE Return \/ Crash \/ RunAgain \/ \E c \in Candidate : CreateBranch(c)
    BY <2>6 DEF Return, Crash, RunAgain, CreateBranch, Emptied, Forgotten, FreshGeneration
  <2>7. CASE \/ \E rows \in PredictionFile : CandidateWrites(rows)
             \/ \E c \in Candidate, d \in {"approved", "rejected"} : HumanDecides(c, d)
    BY <2>7 DEF CandidateWrites, HumanDecides, generation, iteration
  <2> QED BY <2>1, <2>2, <2>3, <2>4, <2>5, <2>6, <2>7 DEF Next, Iterate, Generate
<1> QED BY <1>1, <1>2, PatchStays, TypeCorrect, PTL DEF Spec, AppliedToWhatWasShown

-----------------------------------------------------------------------------
(* Merges *)

\* What is appended is all that is added.
LEMMA ToSetOfAppend ==
  ASSUME NEW S, NEW s \in Seq(S), NEW e \in S
  PROVE  ToSet(Append(s, e)) = ToSet(s) \cup {e}
<1>1. DOMAIN Append(s, e) = 1..(Len(s) + 1) /\ DOMAIN s = 1..Len(s) /\ Len(s) \in Nat
  OBVIOUS
<1>2. \A k \in 1..(Len(s) + 1) : Append(s, e)[k] = IF k = Len(s) + 1 THEN e ELSE s[k]
  OBVIOUS
<1>3. ToSet(Append(s, e)) \subseteq ToSet(s) \cup {e}
  BY <1>1, <1>2 DEF ToSet
<1>4. e \in ToSet(Append(s, e))
  BY <1>1, <1>2 DEF ToSet
<1>5. ToSet(s) \subseteq ToSet(Append(s, e))
  BY <1>1, <1>2 DEF ToSet
<1> QED BY <1>3, <1>4, <1>5

\* The line of development grows at the merge and nowhere else.
LEMMA OnlyMergeLands == [Next]_vars => Merge \/ UNCHANGED history
<1> SUFFICES ASSUME [Next]_vars, ~Merge PROVE UNCHANGED history
  OBVIOUS
<1> USE DEF repo
<1>1. CASE Startup
  BY <1>1 DEF Startup, GenerateSplit, WriteSplit, LoadTruth, LoadBaseline, RunStartupCleanup
<1>2. CASE Generate
  BY <1>2 DEF Generate, Read, GenerateDiff, Patch, PatchFails, Commit, StaticCheck
<1>3. CASE Evaluate
  BY <1>3 DEF Evaluate, Launch, ScriptEnds, ScriptCrashes, TimesOut, EvaluateStage, Judge
<1>4. CASE Settle
  BY <1>4 DEF Settle, File, AutoApprove, Poll, PollFails, Expire, Hold, Conflict, UpdateIfBetter, Save,
              Record, Rollback, Ledger!Discard, Elsewhere
<1>5. CASE Return \/ RunAgain \/ \E c \in Candidate : CreateBranch(c)
  BY <1>5 DEF Return, RunAgain, CreateBranch
<1>6. CASE \/ \E rows \in PredictionFile : CandidateWrites(rows)
           \/ \E c \in Candidate, d \in {"approved", "rejected"} : HumanDecides(c, d)
           \/ Crash \/ UNCHANGED vars
  BY <1>6 DEF CandidateWrites, HumanDecides, Crash, vars
<1> QED BY <1>1, <1>2, <1>3, <1>4, <1>5, <1>6 DEF Next, Iterate

\* Nothing merges without a human's approval or a configuration that does
\* without one, whatever candidates claim and whenever runs die.
THEOREM NoMergeUnasked == Spec => MergedWithConsent
<1> DEFINE Consented ==
      \A c \in Candidate :
        c \in ToSet(history') \ Merged =>
          \/ decision = "approved" /\ row[c] = "approved"
          \/ /\ decision = "auto_approved"
             /\ config.min_improvement_over_baseline \in {NaN} \cup 0..(final_score - scores)
             /\ lied => config.require_no_failure_flags = FALSE
          \/ decision = "skipped" /\ config.enabled = FALSE /\ row[c] = "absent"
<1>1. Init => Typed /\ FlagInOrder
  BY TypedInit DEF Init, FlagInOrder
<1>2. Typed /\ FlagInOrder /\ [Next]_vars => Typed' /\ FlagInOrder'
  BY TypedStays, TypedIsTypeOK, FlagStays
<1>3. Typed /\ FlagInOrder /\ [Next]_vars => [Consented]_vars
  <2> SUFFICES ASSUME Typed, FlagInOrder, [Next]_vars,
                      NEW c \in Candidate, c \in ToSet(history') \ Merged
               PROVE  \/ decision = "approved" /\ row[c] = "approved"
                      \/ /\ decision = "auto_approved"
                         /\ config.min_improvement_over_baseline \in {NaN} \cup 0..(final_score - scores)
                         /\ lied => config.require_no_failure_flags = FALSE
                      \/ decision = "skipped" /\ config.enabled = FALSE /\ row[c] = "absent"
    OBVIOUS
  <2>1. Merge
    BY OnlyMergeLands DEF Merged
  <2>2. c = cand
    <3>1. cand \in Candidate /\ history \in Seq(Candidate) /\ history' = Append(history, cand)
      BY <2>1 DEF Merge, Ledger!Land, Typed, StoreTyped, LoopTyped, Working
    <3>2. ToSet(history') = Merged \cup {cand}
      BY <3>1, ToSetOfAppend DEF Merged
    <3> QED BY <3>2
  <2>3. pc = "decide" /\ decision \in Consent /\ flagged = lied
    BY <2>1 DEF Merge, FlagInOrder, Stopped
  <2>4. CASE decision = "approved"
    BY <2>2, <2>3, <2>4 DEF Typed, RowInOrder
  <2>5. CASE decision = "auto_approved"
    <3>1. should_auto_approve(config, final_score - scores, flagged)
      BY <2>3, <2>5 DEF Typed, RowInOrder
    <3>2. final_score - scores \in Int
      BY ScoreIsNat DEF Typed, ScoringTyped
    <3>3. \/ config.min_improvement_over_baseline = NaN
          \/ /\ config.min_improvement_over_baseline \in Int
             /\ config.min_improvement_over_baseline >= 0
             /\ final_score - scores >= config.min_improvement_over_baseline
      BY <3>1, Zenon DEF should_auto_approve, auto_configured
    <3>4. config.min_improvement_over_baseline \in {NaN} \cup 0..(final_score - scores)
      BY <3>2, <3>3
    <3>5. ~(require_no_failure_flags(config) /\ lied)
      BY <2>3, <3>1, Zenon DEF should_auto_approve
    <3>6. lied => config.require_no_failure_flags = FALSE
      BY <3>5, Zenon DEF require_no_failure_flags
    <3> QED BY <2>5, <3>4, <3>6
  <2>6. CASE decision = "skipped"
    BY <2>2, <2>3, <2>6 DEF Typed, RowInOrder, enabled
  <2> QED BY <2>3, <2>4, <2>5, <2>6 DEF Consent
<1> QED BY <1>1, <1>2, <1>3, PTL DEF Spec, MergedWithConsent

-----------------------------------------------------------------------------
(* Records *)

Settled == {"record", "rollback", "return"}
Landed == {"update", "truncated"}

\* What an iteration has done with its candidate, step by step.
Books ==
  /\ pc \in Working \ {"rollback", "return"} => experiments[cand] = {}
  /\ pc \in {"rollback", "return"} => experiments[cand] = {result}
  /\ pc \in Working \ (Landed \cup Settled) => cand \notin Merged
  /\ pc \in Landed => cand \in Merged
  /\ pc \in Settled => (cand \in Merged <=> result = "success")
  /\ pc = "rollback" => result # "success"

Tidy ==
  /\ pc \in Working => worktrees \subseteq {cand}
  /\ pc \in Landed \cup {"return", "head"} => worktrees = {}
  /\ pc = "record" /\ result = "success" => worktrees = {}

\* RecordsAreTrue, with no cardinality to reason about.
Truthful ==
  \A c \in Candidate :
    /\ "success" \in experiments[c] => c \in Merged
    /\ experiments[c] \ {"success"} # {} => c \notin Merged
    /\ \A r, s \in experiments[c] : r = s

\* A set whose elements are equal has at most one.
LEMMA TruthfulIsTrue == Truthful => RecordsAreTrue
<1> SUFFICES ASSUME Truthful, NEW c \in Candidate PROVE Cardinality(experiments[c]) <= 1
  BY DEF Truthful, RecordsAreTrue
<1>1. CASE experiments[c] = {}
  BY <1>1, FS_EmptySet
<1>2. CASE experiments[c] # {}
  <2>1. PICK r \in experiments[c] : TRUE
    BY <1>2
  <2>2. \A s \in experiments[c] : s = r
    BY DEF Truthful
  <2>3. experiments[c] = {r}
    BY <2>1, <2>2
  <2>4. Cardinality({r}) = 1
    BY FS_Singleton
  <2> QED BY <2>3, <2>4
<1> QED BY <1>1, <1>2

\* There is never more than the worktree of the candidate at work.
LEMMA TidyStays == Tidy /\ [Next]_vars => Tidy'
<1> SUFFICES ASSUME Tidy, [Next]_vars PROVE Tidy'
  OBVIOUS
<1> USE DEF Tidy, Working, Landed, Goto, Concludes, repo, memory, iteration
<1>1. CASE Startup
  BY <1>1 DEF Startup, GenerateSplit, WriteSplit, LoadTruth, LoadBaseline, RunStartupCleanup
<1>2. CASE Generate
  BY <1>2 DEF Generate, Read, GenerateDiff, Patch, PatchFails, Commit, StaticCheck
<1>3. CASE Evaluate
  BY <1>3 DEF Evaluate, Launch, ScriptEnds, ScriptCrashes, TimesOut, NoScore, EvaluateStage, Judge
<1>4. CASE Settle
  <2>1. CASE File \/ AutoApprove \/ Poll \/ PollFails \/ Expire \/ Hold \/ Conflict
    BY <2>1 DEF File, AutoApprove, Poll, PollFails, Expire, Hold, Conflict, Elsewhere
  <2>2. CASE Merge \/ UpdateIfBetter \/ Save \/ Record \/ Rollback
    BY <2>2 DEF Merge, UpdateIfBetter, Save, Record, Rollback, Elsewhere
  <2> QED BY <1>4, <2>1, <2>2 DEF Settle
<1>5. CASE Return \/ Crash \/ RunAgain
  BY <1>5 DEF Return, Crash, RunAgain, Emptied, Forgotten
<1>6. CASE \E c \in Candidate : CreateBranch(c)
  BY <1>6 DEF CreateBranch
<1>7. CASE \/ \E rows \in PredictionFile : CandidateWrites(rows)
           \/ \E c \in Candidate, d \in {"approved", "rejected"} : HumanDecides(c, d)
           \/ UNCHANGED vars
  BY <1>7 DEF CandidateWrites, HumanDecides, vars
<1> QED BY <1>1, <1>2, <1>3, <1>4, <1>5, <1>6, <1>7 DEF Next, Iterate

\* No step records a candidate for what it did not come to.
LEMMA BooksStay ==
  Books /\ Truthful /\ LoopTyped /\ StoreTyped /\ [Next]_vars => Books' /\ Truthful'
<1> SUFFICES ASSUME Books, Truthful, LoopTyped, StoreTyped, [Next]_vars
             PROVE  Books' /\ Truthful'
  OBVIOUS
<1> USE DEF Books, Truthful, Merged, Landed, Settled, Goto, Concludes, store, repo, memory,
            iteration
<1>0. /\ pc \in Working => cand \in Candidate
      /\ history \in Seq(Candidate) /\ experiments \in [Candidate -> SUBSET Outcome]
  BY DEF LoopTyped, StoreTyped
<1>1. CASE Startup
  <2>1. pc' \notin Working /\ UNCHANGED <<history, experiments>>
    BY <1>1 DEF Startup, GenerateSplit, WriteSplit, LoadTruth, LoadBaseline, RunStartupCleanup,
                Working
  <2> QED BY <2>1 DEF Working
<1>2. CASE Generate
  BY <1>2 DEF Generate, Read, GenerateDiff, Patch, PatchFails, Commit, StaticCheck, Working
<1>3. CASE Evaluate
  BY <1>3 DEF Evaluate, Launch, ScriptEnds, ScriptCrashes, TimesOut, NoScore, EvaluateStage,
              Judge, Working
<1>4. CASE Settle
  <2>1. CASE File \/ AutoApprove \/ Poll \/ PollFails \/ Expire
    BY <2>1 DEF File, AutoApprove, Poll, PollFails, Expire, Elsewhere, Working
  <2>2. CASE Hold \/ Conflict
    BY <2>2 DEF Hold, Conflict, Elsewhere, Working
  <2>3. CASE Merge
    <3>1. history' = Append(history, cand) /\ UNCHANGED <<experiments, cand, result>>
          /\ pc = "decide" /\ pc' = "update"
      BY <2>3 DEF Merge, Ledger!Land, Elsewhere
    <3>2. cand \in Candidate /\ experiments[cand] = {}
      BY <1>0, <3>1 DEF Working
    <3>3. ToSet(history') = ToSet(history) \cup {cand}
      BY <1>0, <3>1, <3>2, ToSetOfAppend
    <3>4. Books'
      BY <3>1, <3>2, <3>3 DEF Working
    <3>5. Truthful'
      BY <3>1, <3>2, <3>3
    <3> QED BY <3>4, <3>5
  <2>4. CASE UpdateIfBetter \/ Save
    BY <2>4 DEF UpdateIfBetter, Save, Elsewhere, Working
  <2>5. CASE Record
    <3>1. /\ pc = "record" /\ cand \in Candidate /\ experiments[cand] = {}
          /\ cand \in Merged <=> result = "success"
      BY <1>0, <2>5 DEF Record, Working
    <3>2. /\ UNCHANGED <<history, cand, result>>
          /\ pc' = IF result = "success" THEN "return" ELSE "rollback"
      BY <2>5 DEF Record, Elsewhere
    <3>3. experiments'[cand] = {result} /\ \A c \in Candidate \ {cand} : experiments'[c] = experiments[c]
      BY <1>0, <2>5, <3>1 DEF Record
    <3>4. Books'
      BY <3>1, <3>2, <3>3 DEF Working
    <3>5. Truthful'
      BY <3>1, <3>2, <3>3
    <3> QED BY <3>4, <3>5
  <2>6. CASE Rollback
    BY <2>6 DEF Rollback, Ledger!Discard, Elsewhere, Working
  <2> QED BY <1>4, <2>1, <2>2, <2>3, <2>4, <2>5, <2>6 DEF Settle
<1>5. CASE Return \/ Crash \/ RunAgain
  <2>1. pc' \notin Working /\ UNCHANGED <<history, experiments>>
    BY <1>5 DEF Return, Crash, RunAgain, Working
  <2> QED BY <2>1 DEF Working
<1>6. CASE \E c \in Candidate : CreateBranch(c)
  BY <1>6 DEF CreateBranch, Fresh, Working
<1>7. CASE \/ \E rows \in PredictionFile : CandidateWrites(rows)
           \/ \E c \in Candidate, d \in {"approved", "rejected"} : HumanDecides(c, d)
           \/ UNCHANGED vars
  BY <1>7 DEF CandidateWrites, HumanDecides, vars
<1> QED BY <1>1, <1>2, <1>3, <1>4, <1>5, <1>6, <1>7 DEF Next, Iterate

\* All that is kept about records holds throughout.
LEMMA BooksKept == Spec => [](Books /\ Tidy /\ Truthful /\ Typed)
<1>1. Init => Books /\ Tidy /\ Truthful
  BY DEF Init, Books, Tidy, Truthful, Working, Landed, Settled
<1>2. Typed => LoopTyped /\ StoreTyped
  BY DEF Typed
<1> QED BY <1>1, <1>2, BooksStay, TidyStays, TypedInit, TypedStays, PTL DEF Spec

\* The experiment memory never says of a candidate what did not happen to it,
\* though it is written after the merge and before the rollback.
THEOREM MemoryIsTrue == Spec => []RecordsAreTrue
BY BooksKept, TruthfulIsTrue, PTL

\* run_iteration leaves nothing of its candidate behind: merged or discarded,
\* recorded, without a worktree, and with no open request unless the store could
\* not be read, when the candidate is held.
THEOREM NothingLeftOpen == Spec => []IterationSettles
<1>1. Books /\ Tidy /\ Typed => IterationSettles
  BY DEF Books, Tidy, Typed, RowInOrder, IterationSettles, Working, Landed, Settled
<1> QED BY <1>1, BooksKept, PTL

-----------------------------------------------------------------------------
(* The exit status *)

MergedHere == Len(history) > landed_before

\* The loop knows whether its run has merged anything.
Counted ==
  /\ pc \in Loading \cup {"starting", "cleanup"} => any_success = FALSE /\ ~MergedHere
  /\ pc \in {"head"} \cup (Working \ (Landed \cup Settled)) => (any_success <=> MergedHere)
  /\ pc \in Landed => MergedHere
  /\ pc \in Settled => (any_success \/ result = "success" <=> MergedHere)
  /\ pc = "exit_0" => MergedHere
  /\ pc \in {"exit_1", "no_truth", "unreadable"} => ~MergedHere

\* any_success is about the merges of this run, on every way through it.
LEMMA CountedStays ==
  Counted /\ LoopTyped /\ StoreTyped /\ [Next]_vars => Counted'
<1> SUFFICES ASSUME Counted, LoopTyped, StoreTyped, [Next]_vars PROVE Counted'
  OBVIOUS
<1> USE DEF Counted, MergedHere, Loading, Working, Landed, Settled, Goto, Concludes, repo, memory,
            iteration, loop
<1>0. /\ pc \in Working => cand \in Candidate
      /\ any_success \in BOOLEAN
      /\ history \in Seq(Candidate) /\ landed_before \in 0..Len(history)
  BY DEF LoopTyped, StoreTyped
<1>1. CASE Startup
  <2>1. CASE GenerateSplit \/ WriteSplit \/ LoadTruth \/ LoadBaseline
    BY <2>1 DEF GenerateSplit, WriteSplit, LoadTruth, LoadBaseline
  <2>2. ASSUME NEW stale \in SUBSET Candidate, RunStartupCleanup(stale) PROVE Counted'
    <3>1. Len(history) \in Nat
      BY <1>0
    <3>2. /\ pc' = "head" /\ any_success' = FALSE
          /\ UNCHANGED <<landed_before, history>> /\ pc = "cleanup"
      BY <2>2 DEF RunStartupCleanup
    <3> QED BY <3>1, <3>2
  <2> QED BY <1>1, <2>1, <2>2 DEF Startup
<1>2. CASE Generate
  BY <1>2 DEF Generate, Read, GenerateDiff, Patch, PatchFails, Commit, StaticCheck
<1>3. CASE Evaluate
  BY <1>3 DEF Evaluate, Launch, ScriptEnds, ScriptCrashes, TimesOut, NoScore, EvaluateStage, Judge
<1>4. CASE Settle
  <2>1. CASE File \/ AutoApprove \/ Poll \/ PollFails \/ Expire \/ Hold \/ Conflict
    BY <2>1 DEF File, AutoApprove, Poll, PollFails, Expire, Hold, Conflict, Elsewhere
  <2>2. CASE Merge
    <3>1. pc = "decide" /\ pc' = "update" /\ history' = Append(history, cand)
          /\ landed_before' = landed_before
      BY <2>2 DEF Merge, Ledger!Land, Elsewhere
    <3>2. Len(history') = Len(history) + 1
      BY <1>0, <3>1
    <3>3. Len(history') > landed_before'
      BY <1>0, <3>1, <3>2
    <3> QED BY <3>1, <3>3
  <2>3. CASE UpdateIfBetter \/ Save
    BY <2>3 DEF UpdateIfBetter, Save, Elsewhere
  <2>4. CASE Record \/ Rollback
    BY <2>4 DEF Record, Rollback, Ledger!Discard, Elsewhere
  <2> QED BY <1>4, <2>1, <2>2, <2>3, <2>4 DEF Settle
<1>5. CASE Return
  <2>1. /\ any_success' = (any_success \/ result = "success")
        /\ any_success' <=> MergedHere'
    BY <1>5 DEF Return, succeeded
  <2>2. \/ pc' = "head"
        \/ pc' = "exit_0" /\ any_success'
        \/ pc' = "exit_1" /\ ~any_success'
    BY <1>5 DEF Return
  <2> QED BY <2>1, <2>2
<1>6. CASE Crash \/ RunAgain
  <2>1. Len(history) \in Nat
    BY <1>0
  <2> QED BY <1>6, <2>1 DEF Crash, RunAgain, Emptied, Stopped
<1>7. CASE \E c \in Candidate : CreateBranch(c)
  BY <1>7 DEF CreateBranch
<1>8. CASE \/ \E rows \in PredictionFile : CandidateWrites(rows)
           \/ \E c \in Candidate, d \in {"approved", "rejected"} : HumanDecides(c, d)
           \/ UNCHANGED vars
  BY <1>8 DEF CandidateWrites, HumanDecides, vars
<1> QED BY <1>1, <1>2, <1>3, <1>4, <1>5, <1>6, <1>7, <1>8 DEF Next, Iterate

\* main exits with 0 only if its run merged something, and with 1 only if it did
\* not or an exception ended it, wherever that was raised.
THEOREM ExitIsTold == Spec => []ExitTellsWhatLanded
<1>1. Init => Counted
  <2>1. Len(<<>>) = 0
    OBVIOUS
  <2> QED BY <2>1 DEF Init, Ledger!Init, Counted, MergedHere, Loading, Working, Landed, Settled
<1>2. Typed => LoopTyped /\ StoreTyped
  BY DEF Typed
<1>3. Typed /\ Counted => ExitTellsWhatLanded
  <2> SUFFICES ASSUME Typed, Counted PROVE ExitTellsWhatLanded
    OBVIOUS
  <2>1. Len(history) \in Nat /\ landed_before \in 0..Len(history)
    BY DEF Typed, StoreTyped
  <2> QED BY <2>1 DEF Counted, MergedHere, ExitTellsWhatLanded, exit_status, Signalled, Stopped
<1> QED BY <1>1, <1>2, <1>3, CountedStays, TypedInit, TypedStays, PTL DEF Spec

-----------------------------------------------------------------------------
(* Scores *)

\* What the evaluator reads off a file is what the file says: the last row
\* about each question, and every question has one.
LEMMA ScoreIsRight ==
  ASSUME NEW rows, Len(rows) \in Nat, DOMAIN rows = 1..Len(rows), accepted(rows)
  PROVE  /\ Correct(rows) = Right(rows)
         /\ \A q \in Id : \E v \in {0, 1} : Answers(rows, q, v)
<1>1. ASSUME NEW q \in Id
      PROVE  /\ LastAbout(rows, q) \in DOMAIN rows
             /\ rows[LastAbout(rows, q)].id = q
             /\ \A l \in DOMAIN rows : rows[l].id = q => l <= LastAbout(rows, q)
  <2> DEFINE T == {k \in DOMAIN rows : rows[k].id = q}
  <2>1. T # {} /\ T \subseteq Int /\ \A x \in T : x <= Len(rows)
    BY DEF accepted, Ids
  <2>2. Max(T) \in T /\ \A x \in T : x <= Max(T)
    <3>1. Len(rows) \in Int
      OBVIOUS
    <3> HIDE DEF T
    <3> QED BY <2>1, <3>1, MaxIsLargest
  <2>3. \E k \in DOMAIN rows :
          rows[k].id = q /\ \A l \in DOMAIN rows : rows[l].id = q => l <= k
    BY <2>2
  <2> QED BY <2>3 DEF LastAbout
<1>2. ASSUME NEW q \in Id, NEW v
      PROVE  Answers(rows, q, v) <=> int(rows[LastAbout(rows, q)].pred) = v
  <2> DEFINE last == LastAbout(rows, q)
  <2>0. last \in Int
    BY <1>1
  <2>1. \A l \in DOMAIN rows : l > last => rows[l].id # q
    BY <1>1, <2>0
  <2>2. ASSUME NEW k \in DOMAIN rows, rows[k].id = q,
               \A l \in DOMAIN rows : l > k => rows[l].id # q
        PROVE  k = last
    BY <1>1, <2>0, <2>2
  <2>3. last \in DOMAIN rows /\ rows[last].id = q
    BY <1>1
  <2> HIDE DEF last
  <2>4. Answers(rows, q, v) => int(rows[last].pred) = v
    BY <2>2 DEF Answers
  <2>5. int(rows[last].pred) = v => Answers(rows, q, v)
    BY <2>1, <2>3 DEF Answers
  <2> QED BY <2>4, <2>5 DEF last
<1>3. \A q \in Id : q \in Ids(rows) /\ preds(rows)[q] = int(rows[LastAbout(rows, q)].pred)
  BY DEF accepted, preds
<1>4. Correct(rows) = Right(rows)
  <2>1. \A q \in Id : Answers(rows, q, label[q]) <=> preds(rows)[q] = label[q]
    BY <1>2, <1>3
  <2> QED BY <1>3, <2>1 DEF Correct, Right
<1>5. ASSUME NEW q \in Id PROVE \E v \in {0, 1} : Answers(rows, q, v)
  <2>1. preds(rows)[q] \in {0, 1}
    BY <1>3 DEF accepted
  <2> QED BY <1>2, <1>3, <2>1
<1> QED BY <1>4, <1>5

\* Nothing writes to out_dir any more when a stage is scored, and what was
\* scored there last is better than the baseline by what it has to be.
Judged ==
  /\ pc \in {"score"} \cup Vetted => ~container
  /\ pc \in Vetted => final_score = score_predictions(predictions.rows)
  /\ pc \in Vetted \ {"judge"} => final_score > scores + min_improvement

\* A score is taken when the container is gone, and kept with what it is of.
LEMMA JudgedStays == Judged /\ [Next]_vars => Judged'
<1> SUFFICES ASSUME Judged, [Next]_vars PROVE Judged'
  OBVIOUS
<1> USE DEF Judged, Vetted, Goto, Concludes, sandbox, scoring, memory, iteration
<1>1. CASE Startup
  BY <1>1 DEF Startup, GenerateSplit, WriteSplit, LoadTruth, LoadBaseline, RunStartupCleanup
<1>2. CASE Generate
  BY <1>2 DEF Generate, Read, GenerateDiff, Patch, PatchFails, Commit, StaticCheck
<1>3. CASE Evaluate
  <2>1. CASE Launch \/ ScriptEnds \/ ScriptCrashes \/ TimesOut
    BY <2>1 DEF Launch, ScriptEnds, ContainerExits, ScriptCrashes, TimesOut, NoScore
  <2>2. ASSUME NEW m \in BOOLEAN, EvaluateStage(m) PROVE Judged'
    BY <2>2 DEF EvaluateStage
  <2>3. CASE Judge
    BY <2>3 DEF Judge, passes
  <2> QED BY <1>3, <2>1, <2>2, <2>3 DEF Evaluate
<1>4. CASE Settle
  BY <1>4 DEF Settle, File, AutoApprove, Poll, PollFails, Expire, Hold, Conflict, Merge, UpdateIfBetter,
              Save, Record, Rollback, Elsewhere
<1>5. CASE Return \/ Crash \/ RunAgain \/ \E c \in Candidate : CreateBranch(c)
  BY <1>5 DEF Return, Crash, RunAgain, CreateBranch
<1>6. CASE \/ \E rows \in PredictionFile : CandidateWrites(rows)
           \/ \E c \in Candidate, d \in {"approved", "rejected"} : HumanDecides(c, d)
           \/ UNCHANGED vars
  BY <1>6 DEF CandidateWrites, WritePredictions, HumanDecides, vars
<1> QED BY <1>1, <1>2, <1>3, <1>4, <1>5, <1>6 DEF Next, Iterate

\* The rows a file of predictions is read as, if there is one.
LEMMA RowsAreRows ==
  ScoringTyped => Len(predictions.rows) \in Nat
                  /\ DOMAIN predictions.rows = 1..Len(predictions.rows)
<1> SUFFICES ASSUME ScoringTyped
             PROVE  Len(predictions.rows) \in Nat
                    /\ DOMAIN predictions.rows = 1..Len(predictions.rows)
  OBVIOUS
<1>1. CASE predictions = NoPredictions
  <2>1. predictions.rows = <<>>
    BY <1>1, Zenon DEF NoPredictions
  <2>2. Len(<<>>) = 0 /\ DOMAIN <<>> = 1..0
    OBVIOUS
  <2> QED BY <2>1, <2>2
<1>2. CASE predictions.rows \in PredictionFile
  BY <1>2, PredictionAssumption
<1> QED BY <1>1, <1>2 DEF ScoringTyped

\* What passed was accepted row by row, for a file that is not scores 0.
LEMMA JudgedStands ==
  ScoringTyped /\ Judged /\ pc \in Vetted \ {"judge"} =>
    /\ final_score > scores + min_improvement
    /\ final_score = Cardinality(Right(predictions.rows))
    /\ \A q \in Id : \E v \in {0, 1} : Answers(predictions.rows, q, v)
<1> SUFFICES ASSUME ScoringTyped, Judged, pc \in Vetted \ {"judge"}
             PROVE  /\ final_score > scores + min_improvement
                    /\ final_score = Cardinality(Right(predictions.rows))
                    /\ \A q \in Id : \E v \in {0, 1} : Answers(predictions.rows, q, v)
  OBVIOUS
<1>1. /\ final_score = score_predictions(predictions.rows)
      /\ final_score > scores + min_improvement
  BY DEF Judged
<1>2. final_score # 0
  <2>1. scores \in Nat /\ final_score \in Nat /\ min_improvement \in Nat
    BY ScoreIsNat, ScoreAssumption DEF ScoringTyped
  <2> QED BY <1>1, <2>1
<1>3. accepted(predictions.rows) /\ final_score = Cardinality(Correct(predictions.rows))
  BY <1>1, <1>2 DEF score_predictions
<1> QED BY <1>1, <1>3, RowsAreRows, ScoreIsRight

\* What reviewers are shown and what is merged is worth what out_dir says.
THEOREM ScoreIsHonest == Spec => []ScoreStands
<1>1. Init => Judged
  BY DEF Init, Judged, Vetted
<1>2. Typed => ScoringTyped
  BY DEF Typed
<1>3. ScoringTyped /\ Judged => ScoreStands
  BY JudgedStands DEF ScoreStands
<1> QED BY <1>1, <1>2, <1>3, JudgedStays, TypedInit, TypedStays, PTL DEF Spec

\* Between two iterations, and all through one, the process and the file agree
\* on the baseline.
InStep == pc \in {"cleanup", "head"} \cup (Working \ {"truncated"}) => scores = state_json

\* Only between the truncation and the dump do the two differ.
LEMMA InStepStays == InStep /\ [Next]_vars => InStep'
<1> SUFFICES ASSUME InStep, [Next]_vars PROVE InStep'
  OBVIOUS
<1> USE DEF InStep, Working, Goto, Concludes, store, iteration
<1>1. CASE Startup
  BY <1>1 DEF Startup, GenerateSplit, WriteSplit, LoadTruth, LoadBaseline, RunStartupCleanup
<1>2. CASE Generate
  BY <1>2 DEF Generate, Read, GenerateDiff, Patch, PatchFails, Commit, StaticCheck
<1>3. CASE Evaluate
  BY <1>3 DEF Evaluate, Launch, ScriptEnds, ScriptCrashes, TimesOut, NoScore, EvaluateStage, Judge
<1>4. CASE Settle
  BY <1>4 DEF Settle, File, AutoApprove, Poll, PollFails, Expire, Hold, Conflict, Merge, UpdateIfBetter,
              Save, Record, Rollback, Elsewhere
<1>5. CASE Return \/ Crash \/ RunAgain \/ \E c \in Candidate : CreateBranch(c)
  BY <1>5 DEF Return, Crash, RunAgain, CreateBranch
<1>6. CASE \/ \E rows \in PredictionFile : CandidateWrites(rows)
           \/ \E c \in Candidate, d \in {"approved", "rejected"} : HumanDecides(c, d)
           \/ UNCHANGED vars
  BY <1>6 DEF CandidateWrites, HumanDecides, vars
<1> QED BY <1>1, <1>2, <1>3, <1>4, <1>5, <1>6 DEF Next, Iterate

\* Whatever merges beats the baseline file, wherever an earlier run died.
THEOREM MergeIsProgress == Spec => MergeBeatsBaseline
<1> DEFINE Better ==
      \A c \in Candidate :
        c \in ToSet(history') \ Merged =>
          /\ state_json # Empty
          /\ Cardinality(Right(predictions.rows)) > state_json + min_improvement
<1>1. Init => Typed /\ Judged /\ InStep
  BY TypedInit DEF Init, Judged, Vetted, InStep, Working
<1>2. Typed /\ Judged /\ InStep /\ [Next]_vars => Typed' /\ Judged' /\ InStep'
  BY TypedStays, JudgedStays, InStepStays
<1>3. Typed /\ Judged /\ InStep /\ [Next]_vars => [Better]_vars
  <2> SUFFICES ASSUME Typed, Judged, InStep, [Next]_vars, history' # history
               PROVE  /\ state_json # Empty
                      /\ Cardinality(Right(predictions.rows)) > state_json + min_improvement
    BY DEF Merged
  <2>1. pc = "decide"
    BY OnlyMergeLands DEF Merge
  <2>2. scores = state_json /\ scores \in Nat
    BY <2>1, ScoreIsNat DEF InStep, Working, Typed, ScoringTyped
  <2>3. Cardinality(Right(predictions.rows)) > scores + min_improvement
    BY <2>1, JudgedStands DEF Vetted, Typed
  <2> QED BY <2>2, <2>3 DEF Empty
<1> QED BY <1>1, <1>2, <1>3, PTL DEF Spec, MergeBeatsBaseline

-----------------------------------------------------------------------------
(* The calls *)

\* The orchestrator asks of version control and of the store only what they
\* promise to do: it files a candidate once, and merges or rolls back only while
\* the candidate's worktree is there and its fate is open.
CallsAreLegal ==
  /\ pc = "file" => row[cand] = "absent"
  /\ pc \in {"decide", "rollback"} =>
       cand \in worktrees /\ cand \notin Merged \cup discarded

\* From the head of the iteration until it is merged or rolled back a candidate
\* has its worktree and has not been discarded.
AtHand ==
  /\ pc \in Working \ (Landed \cup {"record", "return"}) =>
       cand \in worktrees /\ cand \notin discarded
  /\ pc = "record" /\ result # "success" => cand \in worktrees /\ cand \notin discarded

\* Only the merge and the rollback take the worktree, and each leaves it at that.
LEMMA AtHandStays == AtHand /\ [Next]_vars => AtHand'
<1> SUFFICES ASSUME AtHand, [Next]_vars PROVE AtHand'
  OBVIOUS
<1> USE DEF AtHand, Working, Landed, Goto, Concludes, repo, memory, iteration
<1>1. CASE Startup
  BY <1>1 DEF Startup, GenerateSplit, WriteSplit, LoadTruth, LoadBaseline, RunStartupCleanup
<1>2. CASE Generate
  BY <1>2 DEF Generate, Read, GenerateDiff, Patch, PatchFails, Commit, StaticCheck
<1>3. CASE Evaluate
  BY <1>3 DEF Evaluate, Launch, ScriptEnds, ScriptCrashes, TimesOut, NoScore, EvaluateStage, Judge
<1>4. CASE Settle
  <2>1. CASE File \/ AutoApprove \/ Poll \/ PollFails \/ Expire \/ Hold \/ Conflict
    BY <2>1 DEF File, AutoApprove, Poll, PollFails, Expire, Hold, Conflict, Elsewhere
  <2>2. CASE Merge \/ UpdateIfBetter \/ Save \/ Record \/ Rollback
    BY <2>2 DEF Merge, UpdateIfBetter, Save, Record, Rollback, Elsewhere
  <2> QED BY <1>4, <2>1, <2>2 DEF Settle
<1>5. CASE Return \/ Crash \/ RunAgain
  BY <1>5 DEF Return, Crash, RunAgain
<1>6. CASE \E c \in Candidate : CreateBranch(c)
  BY <1>6 DEF CreateBranch, Fresh
<1>7. CASE \/ \E rows \in PredictionFile : CandidateWrites(rows)
           \/ \E c \in Candidate, d \in {"approved", "rejected"} : HumanDecides(c, d)
           \/ UNCHANGED vars
  BY <1>7 DEF CandidateWrites, HumanDecides, vars
<1> QED BY <1>1, <1>2, <1>3, <1>4, <1>5, <1>6, <1>7 DEF Next, Iterate

\* The orchestrator keeps to what version control and the store ask of those who
\* call them, crashes and restarts included (run_iteration).
THEOREM CallsAreMade == Spec => []CallsAreLegal
<1>1. Init => AtHand
  BY DEF Init, AtHand, Working
<1>2. AtHand /\ Books /\ Typed => CallsAreLegal
  BY DEF AtHand, Books, Typed, RowInOrder, CallsAreLegal, Working, Landed, Settled
<1> QED BY <1>1, <1>2, AtHandStays, BooksKept, PTL DEF Spec

-----------------------------------------------------------------------------
(* The length of a run *)

\* The steps a run of the process still has in it: those of an iteration from
\* the present place on, and as many again for every iteration to come.
StepsPerFile == max_apply_retries + 2
StepsPerIteration == Files * StepsPerFile + 3 * Len(stages) + 17

StepsInIteration ==
  3 * (Len(stages) - stage) +
  (CASE pc = "read" -> (Files - nth + 1) * StepsPerFile + 17
     [] pc = "ask" -> (Files - nth) * StepsPerFile + (max_apply_retries - attempts) + 18
     [] pc = "commit" -> 16    [] pc = "check" -> 15
     [] pc = "launch" -> 14    [] pc = "sandbox" -> 13    [] pc = "score" -> 12
     [] pc = "judge" -> 11     [] pc = "file" -> 10       [] pc = "auto" -> 9
     [] pc = "poll" -> 8       [] pc = "expire" -> 7      [] pc = "decide" -> 6
     [] pc = "update" -> 5     [] pc = "truncated" -> 4   [] pc = "record" -> 3
     [] pc = "rollback" -> 2   [] OTHER -> 1)

StepsToHead ==
  CASE pc = "dataset" -> 8  [] pc = "rows" -> 7       [] pc = "open_truth" -> 6
    [] pc = "save_truth" -> 5  [] pc = "load_truth" -> 4  [] pc = "starting" -> 3
    [] pc = "cleanup" -> 2  [] OTHER -> 1

RunLeft ==
  CASE pc \in Stopped -> 0
    [] pc \in Working -> (max_iterations - i - 1) * StepsPerIteration + StepsInIteration + 1
    [] OTHER -> (max_iterations - i) * StepsPerIteration + StepsToHead

\* Every step brings the run nearer to its end, whatever is answered and whatever
\* fails, but for what the candidate does in its container and a human's answer
\* to a request still open, which leave the process where it is.
RunIsBounded ==
  [][pc \notin Stopped =>
       \/ RunLeft' \in 0..(RunLeft - 1)
       \/ /\ RunLeft' = RunLeft /\ pc' = pc
          /\ container \/ \E c \in Candidate : row[c] = "pending" /\ row'[c] # "pending"]_vars

\* What the bounds are counted in.
LEMMA StepsAreNat ==
  /\ StepsPerFile \in Nat /\ StepsPerFile = max_apply_retries + 2
  /\ Files * StepsPerFile \in Nat
  /\ StepsPerIteration \in Nat
  /\ StepsPerIteration = Files * StepsPerFile + 3 * Len(stages) + 17
  /\ Len(stages) \in Nat /\ Len(stages) >= 1
<1>1. Len(stages) \in Nat /\ Len(stages) >= 1
  BY StagesAssumption
<1>2. StepsPerFile \in Nat
  BY RetriesAssumption DEF StepsPerFile
<1>3. Files * StepsPerFile \in Nat
  BY <1>2, FilesAssumption
<1> QED BY <1>1, <1>2, <1>3 DEF StepsPerFile, StepsPerIteration

\* Every step inside an iteration costs at least one of those it has left.
LEMMA IterationAdvances ==
  ASSUME Typed, Generate \/ Evaluate \/ Settle
  PROVE  /\ pc \in Working /\ pc' \in Working /\ i' = i
         /\ StepsInIteration' \in 1..(StepsInIteration - 1)
<1> DEFINE P == StepsPerFile
<1>0. /\ nth \in 1..Files /\ attempts \in 0..max_apply_retries /\ stage \in 1..Len(stages)
      /\ Files \in Nat /\ max_apply_retries \in Nat /\ Len(stages) \in Nat
      /\ P \in Nat /\ P = max_apply_retries + 2
  BY FilesAssumption, RetriesAssumption, StepsAreNat
  DEF Typed, DataTyped, GenerationType, ScoringTyped
<1>1. (Files - nth) * P \in Nat /\ (Files - nth + 1) * P = (Files - nth) * P + P
  <2>1. Files - nth \in Nat
    BY <1>0
  <2> HIDE DEF P
  <2> QED BY <1>0, <2>1
<1> USE DEF StepsInIteration, Working
<1>2. CASE Read
  <2>1. pc = "read" /\ pc' = "ask" /\ UNCHANGED <<i, stage, nth>> /\ attempts' = 0
    BY <1>2 DEF Read, ReadFile, Goto, loop, memory, scoring
  <2>2. StepsInIteration = 3 * (Len(stages) - stage) + ((Files - nth + 1) * P + 17)
    BY <2>1
  <2>3. StepsInIteration' = 3 * (Len(stages) - stage) + ((Files - nth) * P + (max_apply_retries - 0) + 18)
    BY <2>1
  <2> HIDE DEF P, StepsInIteration
  <2> QED BY <1>0, <1>1, <2>1, <2>2, <2>3
<1>3. CASE \E changes \in SUBSET (1..Files), applies \in BOOLEAN : GenerateDiff(changes, applies)
  <2>1. /\ pc = "ask" /\ pc' = "ask" /\ UNCHANGED <<i, stage, nth>>
        /\ attempts < max_apply_retries /\ attempts' \in {max_apply_retries, attempts + 1}
    BY <1>3 DEF GenerateDiff, Ask, MayAsk, loop, memory, scoring
  <2>2. StepsInIteration = 3 * (Len(stages) - stage) + ((Files - nth) * P + (max_apply_retries - attempts) + 18)
    BY <2>1
  <2>3. StepsInIteration' = 3 * (Len(stages) - stage) + ((Files - nth) * P + (max_apply_retries - attempts') + 18)
    BY <2>1
  <2> HIDE DEF P, StepsInIteration
  <2> QED BY <1>0, <1>1, <2>1, <2>2, <2>3
<1>4. CASE Patch \/ PatchFails
  <2>1. pc = "ask" /\ UNCHANGED <<i, stage>>
    BY <1>4 DEF Patch, PatchFails, loop, memory, scoring
  <2>2. StepsInIteration = 3 * (Len(stages) - stage) + ((Files - nth) * P + (max_apply_retries - attempts) + 18)
    BY <2>1
  <2>3. \/ nth # Files /\ nth' = nth + 1 /\ pc' = "read"
        \/ pc' \in {"commit", "record"}
    BY <1>4 DEF Patch, PatchFails, ApplyPatch, LastFile, Goto, Concludes
  <2>4. CASE nth # Files /\ nth' = nth + 1 /\ pc' = "read"
    <3>1. StepsInIteration' = 3 * (Len(stages) - stage) + ((Files - (nth + 1) + 1) * P + 17)
      BY <2>1, <2>4
    <3>2. Files - (nth + 1) + 1 = Files - nth
      BY <1>0
    <3> HIDE DEF P, StepsInIteration
    <3> QED BY <1>0, <1>1, <2>1, <2>2, <2>4, <3>1, <3>2
  <2>5. CASE pc' \in {"commit", "record"}
    <3>1. StepsInIteration' \in {3 * (Len(stages) - stage) + 16, 3 * (Len(stages) - stage) + 3}
      BY <2>1, <2>5
    <3> HIDE DEF P, StepsInIteration
    <3> QED BY <1>0, <1>1, <2>1, <2>2, <2>5, <3>1
  <2> QED BY <2>3, <2>4, <2>5
<1> DEFINE left == 3 * (Len(stages) - stage)
<1>5. /\ pc = "commit" => StepsInIteration = left + 16
      /\ pc = "check" => StepsInIteration = left + 15
      /\ pc = "launch" => StepsInIteration = left + 14
      /\ pc = "sandbox" => StepsInIteration = left + 13
      /\ pc = "score" => StepsInIteration = left + 12
      /\ pc = "judge" => StepsInIteration = left + 11
      /\ pc = "file" => StepsInIteration = left + 10
      /\ pc = "auto" => StepsInIteration = left + 9
      /\ pc = "poll" => StepsInIteration = left + 8
      /\ pc = "expire" => StepsInIteration = left + 7
      /\ pc = "decide" => StepsInIteration = left + 6
      /\ pc = "update" => StepsInIteration = left + 5
      /\ pc = "truncated" => StepsInIteration = left + 4
      /\ pc = "record" => StepsInIteration = left + 3
      /\ pc = "rollback" => StepsInIteration = left + 2
      /\ pc = "return" => StepsInIteration = left + 1
  OBVIOUS
<1>6. /\ pc' = "commit" => StepsInIteration' = left' + 16
      /\ pc' = "check" => StepsInIteration' = left' + 15
      /\ pc' = "launch" => StepsInIteration' = left' + 14
      /\ pc' = "sandbox" => StepsInIteration' = left' + 13
      /\ pc' = "score" => StepsInIteration' = left' + 12
      /\ pc' = "judge" => StepsInIteration' = left' + 11
      /\ pc' = "file" => StepsInIteration' = left' + 10
      /\ pc' = "auto" => StepsInIteration' = left' + 9
      /\ pc' = "poll" => StepsInIteration' = left' + 8
      /\ pc' = "expire" => StepsInIteration' = left' + 7
      /\ pc' = "decide" => StepsInIteration' = left' + 6
      /\ pc' = "update" => StepsInIteration' = left' + 5
      /\ pc' = "truncated" => StepsInIteration' = left' + 4
      /\ pc' = "record" => StepsInIteration' = left' + 3
      /\ pc' = "rollback" => StepsInIteration' = left' + 2
      /\ pc' = "return" => StepsInIteration' = left' + 1
  OBVIOUS
<1>7. left \in Nat /\ (stage' = stage => left' = left)
  BY <1>0
<1> HIDE DEF StepsInIteration
<1>8. CASE Commit \/ StaticCheck \/ Launch \/ ScriptEnds \/ ScriptCrashes \/ TimesOut \/ Judge
  <2>1. /\ UNCHANGED <<i, stage>>
        /\ <<pc, pc'>> \in {<<"commit", "check">>, <<"check", "launch">>, <<"check", "record">>,
                            <<"launch", "sandbox">>, <<"sandbox", "score">>,
                            <<"sandbox", "record">>, <<"judge", "file">>, <<"judge", "record">>}
    BY <1>8 DEF Commit, StaticCheck, Launch, ScriptEnds, ScriptCrashes, TimesOut, NoScore, Judge,
                Goto, Concludes, loop, memory, scoring
  <2> HIDE DEF left
  <2> QED BY <1>5, <1>6, <1>7, <2>1
<1>9. CASE \E m \in BOOLEAN : EvaluateStage(m)
  <2>1. /\ i' = i /\ pc = "score"
        /\ \/ pc' = "launch" /\ stage' = stage + 1 /\ stage < Len(stages)
           \/ pc' \in {"record", "judge"} /\ stage' = stage
    BY <1>9 DEF EvaluateStage, Goto, Concludes, loop
  <2>2. pc' = "launch" => left' = left - 3 /\ left - 3 \in Nat
    BY <1>0, <2>1
  <2> HIDE DEF left
  <2> QED BY <1>5, <1>6, <1>7, <2>1, <2>2
<1>10. CASE Settle
  <2>1. /\ UNCHANGED <<i, stage>>
        /\ \/ <<pc, pc'>> \in {<<"file", "auto">>, <<"file", "decide">>, <<"auto", "decide">>,
                               <<"auto", "poll">>, <<"poll", "expire">>, <<"poll", "decide">>,
                               <<"expire", "decide">>}
           \/ <<pc, pc'>> \in {<<"decide", "record">>, <<"decide", "update">>,
                               <<"update", "truncated">>, <<"update", "record">>,
                               <<"truncated", "record">>, <<"record", "return">>,
                               <<"record", "rollback">>, <<"rollback", "return">>}
    <3>1. CASE File \/ AutoApprove \/ Poll \/ PollFails \/ Expire \/ Hold \/ Conflict
      BY <3>1 DEF File, AutoApprove, Poll, PollFails, Expire, Hold, Conflict, Elsewhere, Goto, Concludes, loop,
                  scoring
    <3>2. CASE Merge \/ UpdateIfBetter \/ Save \/ Record \/ Rollback
      BY <3>2 DEF Merge, UpdateIfBetter, Save, Record, Rollback, Elsewhere, Goto, Concludes, loop,
                  scoring
    <3> QED BY <1>10, <3>1, <3>2 DEF Settle
  <2> HIDE DEF left
  <2> QED BY <1>5, <1>6, <1>7, <2>1
<1> QED BY <1>2, <1>3, <1>4, <1>8, <1>9, <1>10 DEF Generate, Evaluate

\* Everything else a process does costs its run at least one of the steps left:
\* an iteration begun is worth as many as were set aside for it.
LEMMA RunAdvances ==
  ASSUME Typed, Typed', Startup \/ (\E c \in Candidate : CreateBranch(c)) \/ Iterate \/ Crash
  PROVE  RunLeft' \in 0..(RunLeft - 1)
<1> DEFINE P == StepsPerFile
           K == StepsPerIteration
<1>0. /\ i \in 0..max_iterations /\ max_iterations \in Nat /\ stage \in 1..Len(stages)
      /\ nth \in 1..Files /\ attempts \in 0..max_apply_retries /\ max_apply_retries \in Nat
      /\ P \in Nat /\ K \in Nat /\ K = Files * P + 3 * Len(stages) + 17
      /\ Files * P \in Nat /\ Len(stages) \in Nat /\ Files \in Nat
      /\ pc \in PC
  BY FilesAssumption, RetriesAssumption, LoopAssumption, StepsAreNat
  DEF Typed, DataTyped, GenerationType, ScoringTyped, LoopTyped
<1>1. /\ (max_iterations - i) * K \in Nat
      /\ i < max_iterations => /\ (max_iterations - i - 1) * K \in Nat
                               /\ (max_iterations - i) * K = (max_iterations - i - 1) * K + K
  <2>1. /\ max_iterations - i \in Nat
        /\ i < max_iterations => max_iterations - i - 1 \in Nat
    BY <1>0
  <2> HIDE DEF P, K
  <2> QED BY <1>0, <2>1
<1>2. /\ StepsToHead \in 1..8
      /\ pc \in Working => StepsInIteration \in Nat /\ StepsInIteration >= 1
  <2>1. StepsToHead \in 1..8
    BY DEF StepsToHead
  <2>2. (Files - nth) * P \in Nat /\ (Files - nth + 1) * P \in Nat
    <3>1. Files - nth \in Nat /\ Files - nth + 1 \in Nat
      BY <1>0
    <3> HIDE DEF P
    <3> QED BY <1>0, <3>1
  <2>3. 3 * (Len(stages) - stage) \in Nat /\ max_apply_retries - attempts \in Nat
    BY <1>0
  <2>4. pc = "read" => StepsInIteration = 3 * (Len(stages) - stage) + ((Files - nth + 1) * P + 17)
    BY DEF StepsInIteration
  <2>5. pc = "ask" => StepsInIteration = 3 * (Len(stages) - stage)
                        + ((Files - nth) * P + (max_apply_retries - attempts) + 18)
    BY DEF StepsInIteration
  <2>6. pc \notin {"read", "ask"} => \E n \in 1..16 : StepsInIteration = 3 * (Len(stages) - stage) + n
    BY DEF StepsInIteration
  <2>7. StepsInIteration \in Nat /\ StepsInIteration >= 1
    <3> DEFINE left == 3 * (Len(stages) - stage)
               here == (Files - nth) * P
               more == (Files - nth + 1) * P
               asks == max_apply_retries - attempts
    <3>1. left \in Nat /\ here \in Nat /\ more \in Nat /\ asks \in Nat
      BY <2>2, <2>3
    <3>2. CASE pc = "read"
      <4>1. StepsInIteration = left + (more + 17)
        BY <2>4, <3>2
      <4> HIDE DEF left, more
      <4> QED BY <3>1, <4>1
    <3>3. CASE pc = "ask"
      <4>1. StepsInIteration = left + (here + asks + 18)
        BY <2>5, <3>3
      <4> HIDE DEF left, here, asks
      <4> QED BY <3>1, <4>1
    <3>4. CASE pc \notin {"read", "ask"}
      <4>1. PICK n \in 1..16 : StepsInIteration = left + n
        BY <2>6, <3>4
      <4> HIDE DEF left
      <4> QED BY <3>1, <4>1
    <3> QED BY <3>2, <3>3, <3>4
  <2> QED BY <2>1, <2>7
<1>3. /\ pc \in Stopped => RunLeft = 0
      /\ pc \in Working => RunLeft = (max_iterations - i - 1) * K + StepsInIteration + 1
      /\ pc \notin Stopped \cup Working => RunLeft = (max_iterations - i) * K + StepsToHead
  BY DEF RunLeft, Stopped, Working
<1>4. /\ pc' \in Stopped => RunLeft' = 0
      /\ pc' \in Working => RunLeft' = (max_iterations - i' - 1) * K + StepsInIteration' + 1
      /\ pc' \notin Stopped \cup Working => RunLeft' = (max_iterations - i') * K + StepsToHead'
  BY DEF RunLeft, Stopped, Working
<1>5. pc \in Working => i < max_iterations
  BY DEF Typed, LoopTyped
<1>6. pc \notin Stopped => RunLeft \in Nat /\ RunLeft >= 1
  <2> HIDE DEF P, K
  <2> QED BY <1>0, <1>1, <1>2, <1>3, <1>5
<1>7. CASE Generate \/ Evaluate \/ Settle
  <2>1. /\ pc \in Working /\ pc' \in Working /\ i' = i
        /\ StepsInIteration' \in 1..(StepsInIteration - 1)
    BY <1>7, IterationAdvances
  <2> HIDE DEF P, K
  <2> QED BY <1>0, <1>1, <1>2, <1>3, <1>4, <1>5, <2>1
<1>8. CASE Return
  <2>1. pc = "return" /\ i' = i + 1 /\ pc' \in {"head", "exit_0", "exit_1"}
    BY <1>8 DEF Return, Goto
  <2>2. pc' = "head" => StepsToHead' = 1
    BY DEF StepsToHead
  <2>3. CASE pc' = "head"
    <3>1. RunLeft' = (max_iterations - (i + 1)) * K + 1
      BY <1>4, <2>1, <2>2, <2>3 DEF Stopped, Working
    <3>2. RunLeft = (max_iterations - i - 1) * K + StepsInIteration + 1 /\ i < max_iterations
      BY <1>3, <1>5, <2>1 DEF Working
    <3>3. max_iterations - (i + 1) = max_iterations - i - 1 /\ StepsInIteration \in Nat
          /\ StepsInIteration >= 1
      BY <1>0, <1>2, <2>1 DEF Working
    <3> HIDE DEF P, K
    <3> QED BY <1>1, <3>1, <3>2, <3>3
  <2>4. CASE pc' # "head"
    BY <1>4, <1>6, <2>1, <2>4 DEF Stopped
  <2> QED BY <2>3, <2>4
<1>9. CASE \E c \in Candidate : CreateBranch(c)
  <2>1. /\ pc = "head" /\ pc' = "read" /\ i' = i /\ i < max_iterations /\ nth' = 1
        /\ stage' = stage
    BY <1>9 DEF CreateBranch, FreshGeneration, Goto, loop, scoring
  <2>2. StepsInIteration' = 3 * (Len(stages) - stage) + ((Files - 1 + 1) * P + 17)
    BY <2>1 DEF StepsInIteration
  <2>3. RunLeft = (max_iterations - i) * K + StepsToHead
    BY <1>3, <2>1 DEF Stopped, Working
  <2>4. RunLeft' = (max_iterations - i - 1) * K + StepsInIteration' + 1
    BY <1>4, <2>1 DEF Working
  <2>5. StepsInIteration' \in Nat /\ StepsInIteration' < K
    <3>1. Files - 1 + 1 = Files
      BY <1>0
    <3> HIDE DEF P, K
    <3> QED BY <1>0, <2>2, <3>1
  <2> HIDE DEF P, K
  <2> QED BY <1>0, <1>1, <1>2, <2>1, <2>3, <2>4, <2>5
<1>10. CASE Crash
  <2>1. pc \notin Stopped /\ pc' \in {"down", "raised"}
    BY <1>10 DEF Crash, Goto
  <2> QED BY <1>4, <1>6, <2>1 DEF Stopped
<1>11. CASE Startup
  <2>1. /\ i' = i
        /\ \/ <<pc, pc'>> \in {<<"dataset", "load_truth">>, <<"dataset", "rows">>,
                               <<"rows", "open_truth">>, <<"open_truth", "save_truth">>,
                               <<"save_truth", "load_truth">>, <<"load_truth", "starting">>,
                               <<"starting", "cleanup">>, <<"cleanup", "head">>}
           \/ pc \in {"load_truth", "starting"} /\ pc' \in {"no_truth", "unreadable"}
    BY <1>11 DEF Startup, GenerateSplit, WriteSplit, LoadTruth, LoadBaseline, RunStartupCleanup,
                 Goto, loop
  <2>2. CASE pc' \in {"no_truth", "unreadable"}
    BY <1>4, <1>6, <2>1, <2>2 DEF Stopped
  <2>3. CASE pc' \notin {"no_truth", "unreadable"}
    <3>1. StepsToHead' \in 1..(StepsToHead - 1)
      BY <2>1, <2>3 DEF StepsToHead
    <3>2. pc \notin Stopped \cup Working /\ pc' \notin Stopped \cup Working
      BY <2>1, <2>3 DEF Stopped, Working
    <3> HIDE DEF P, K
    <3> QED BY <1>1, <1>2, <1>3, <1>4, <2>1, <3>1, <3>2
  <2> QED BY <2>2, <2>3
<1> QED BY <1>7, <1>8, <1>9, <1>10, <1>11 DEF Iterate

\* A run takes a bounded number of steps of its own, whatever the model, the
\* script, the sandbox and the humans do, and wherever it fails.  With the
\* fairness of FairSpec that is why every iteration ends.
THEOREM RunTakesBoundedSteps == Spec => RunIsBounded
<1> DEFINE Bounded ==
      pc \notin Stopped =>
        \/ RunLeft' \in 0..(RunLeft - 1)
        \/ /\ RunLeft' = RunLeft /\ pc' = pc
           /\ container \/ \E c \in Candidate : row[c] = "pending" /\ row'[c] # "pending"
<1>1. Typed /\ Typed' /\ [Next]_vars => [Bounded]_vars
  <2> SUFFICES ASSUME Typed, Typed', Next, pc \notin Stopped
               PROVE  Bounded
    OBVIOUS
  <2>1. CASE Startup \/ (\E c \in Candidate : CreateBranch(c)) \/ Iterate \/ Crash
    BY <2>1, RunAdvances
  <2>2. CASE RunAgain
    BY <2>2 DEF RunAgain
  <2>3. CASE \E rows \in PredictionFile : CandidateWrites(rows)
    <3>1. UNCHANGED <<pc, i, stage, nth, attempts>> /\ container
      BY <2>3 DEF CandidateWrites, WritePredictions, loop, memory, scoring, generation
    <3>2. RunLeft' = RunLeft
      BY <3>1 DEF RunLeft, StepsInIteration, StepsToHead
    <3> QED BY <3>1, <3>2
  <2>4. ASSUME NEW c \in Candidate, NEW d \in {"approved", "rejected"}, HumanDecides(c, d)
        PROVE  Bounded
    <3>1. UNCHANGED <<pc, i, stage, nth, attempts>>
      BY <2>4 DEF HumanDecides, loop, iteration, memory, scoring, generation
    <3>2. RunLeft' = RunLeft
      BY <3>1 DEF RunLeft, StepsInIteration, StepsToHead
    <3>3. row[c] = "pending" /\ row'[c] # "pending"
      BY <2>4 DEF HumanDecides, Register!Settle, Typed, StoreTyped, Register!TypeOK
    <3> QED BY <3>1, <3>2, <3>3
  <2> QED BY <2>1, <2>2, <2>3, <2>4 DEF Next
<1> HIDE DEF Bounded
<1>2. Spec => [][Bounded]_vars
  BY <1>1, TypedInit, TypedStays, PTL DEF Spec
<1> QED BY <1>2 DEF RunIsBounded, Bounded

-----------------------------------------------------------------------------
(* How far the refuted claim about recovery does hold *)

\* Only between the truncation and the dump is there no baseline to be read.
Readable == pc # "unreadable" /\ (state_json = Empty => pc = "truncated")

\* The file that can be read is what a run starts from, and Save writes it whole.
LEMMA ReadableStays ==
  Readable /\ Typed /\ [Next]_vars /\ [pc = "truncated" => pc' \notin {"down", "raised"}]_vars => Readable'
<1> SUFFICES ASSUME Readable, Typed, [Next]_vars, [pc = "truncated" => pc' \notin {"down", "raised"}]_vars
             PROVE  Readable'
  OBVIOUS
<1> USE DEF Readable, Goto, Concludes, store, iteration
<1>1. CASE Startup
  BY <1>1 DEF Startup, GenerateSplit, WriteSplit, LoadTruth, LoadBaseline, RunStartupCleanup
<1>2. CASE Generate
  BY <1>2 DEF Generate, Read, GenerateDiff, Patch, PatchFails, Commit, StaticCheck
<1>3. CASE Evaluate
  BY <1>3 DEF Evaluate, Launch, ScriptEnds, ScriptCrashes, TimesOut, NoScore, EvaluateStage, Judge
<1>4. CASE Settle
  <2>1. CASE Save
    <3>1. state_json' = scores /\ scores \in Nat
      BY <2>1, ScoreIsNat DEF Save, Typed, ScoringTyped
    <3>2. state_json' # Empty
      BY <3>1 DEF Empty
    <3> QED BY <2>1, <3>2 DEF Save
  <2>2. CASE File \/ AutoApprove \/ Poll \/ PollFails \/ Expire \/ Hold \/ Conflict
    BY <2>2 DEF File, AutoApprove, Poll, PollFails, Expire, Hold, Conflict, Elsewhere
  <2>3. CASE Merge \/ UpdateIfBetter \/ Record \/ Rollback
    BY <2>3 DEF Merge, UpdateIfBetter, Record, Rollback, Elsewhere
  <2> QED BY <1>4, <2>1, <2>2, <2>3 DEF Settle
<1>5. CASE Crash
  <2>1. pc' \in {"down", "raised"} /\ state_json' = state_json /\ pc \notin {"down", "raised"}
    BY <1>5 DEF Crash, Stopped
  <2>2. pc # "truncated"
    BY <2>1 DEF vars
  <2> QED BY <2>1, <2>2
<1>6. CASE Return \/ RunAgain \/ \E c \in Candidate : CreateBranch(c)
  BY <1>6 DEF Return, RunAgain, CreateBranch, Stopped
<1>7. CASE \/ \E rows \in PredictionFile : CandidateWrites(rows)
           \/ \E c \in Candidate, d \in {"approved", "rejected"} : HumanDecides(c, d)
           \/ UNCHANGED vars
  BY <1>7 DEF CandidateWrites, HumanDecides, vars
<1> QED BY <1>1, <1>2, <1>3, <1>4, <1>5, <1>6, <1>7 DEF Next, Iterate

\* Where no run dies between open("w") and json.dump (BaselineStore._save), every
\* later run gets past BaselineStore.__init__ to crash recovery: runs may die
\* anywhere else.
THEOREM RecoversUnlessTorn ==
  Spec /\ [][pc = "truncated" => pc' \notin {"down", "raised"}]_vars => []NextRunRecovers
<1>1. Init => Readable
  BY DEF Init, Readable, Empty
<1>2. Readable => NextRunRecovers
  BY DEF Readable, NextRunRecovers
<1> DEFINE NoTear == pc = "truncated" => pc' \notin {"down", "raised"}
<1>3. Readable /\ Typed /\ [Next]_vars /\ [NoTear]_vars => Readable'
  BY ReadableStays
<1> HIDE DEF NoTear
<1>4. Spec /\ [][NoTear]_vars => []NextRunRecovers
  BY <1>1, <1>2, <1>3, TypedInit, TypedStays, PTL DEF Spec
<1> QED BY <1>4 DEF NoTear

-----------------------------------------------------------------------------
(* How far the refuted claim about stages does hold *)

\* A script that a later stage ran to its end has written its predictions.
WritesAgain == pc = "sandbox" /\ pc' = "score" /\ stage > 1 => predictions.stage = stage

\* A first stage finds out_dir empty; what a stage is scored on is its own.
Traced ==
  /\ pc \in {"read", "ask", "commit", "check", "launch", "sandbox", "score"} /\ stage = 1 =>
       predictions.stage \in {0, 1}
  /\ ScoredOnOwnPredictions

\* Only a second stage can find something in out_dir it did not write.
LEMMA TracedStays ==
  Traced /\ Judged /\ Typed /\ Typed' /\ [Next]_vars /\ [WritesAgain]_vars => Traced'
<1> SUFFICES ASSUME Traced, Judged, Typed, Typed', [Next]_vars, [WritesAgain]_vars
             PROVE  Traced'
  OBVIOUS
<1>0. /\ predictions' = NoPredictions \/ predictions'.stage \in Nat \ {0}
      /\ NoPredictions.stage = 0 /\ stage \in Nat \ {0} /\ stage' \in Nat \ {0}
  BY StagesAssumption DEF Typed, ScoringTyped, NoPredictions
<1> USE DEF Traced, ScoredOnOwnPredictions, Goto, Concludes, sandbox, scoring, memory, iteration
<1>1. CASE Startup
  BY <1>1 DEF Startup, GenerateSplit, WriteSplit, LoadTruth, LoadBaseline, RunStartupCleanup
<1>2. CASE Generate
  BY <1>2 DEF Generate, Read, GenerateDiff, Patch, PatchFails, Commit, StaticCheck
<1>3. CASE Evaluate
  <2>1. CASE ScriptEnds
    <3>1. pc = "sandbox" /\ pc' = "score" /\ pc # pc' /\ UNCHANGED <<stage, predictions>>
      BY <2>1 DEF ScriptEnds, ContainerExits
    <3>2. stage > 1 => predictions.stage = stage
      BY <3>1 DEF WritesAgain, vars, iteration
    <3> QED BY <1>0, <3>1, <3>2
  <2>2. CASE Launch \/ ScriptCrashes \/ TimesOut \/ Judge
    BY <2>2 DEF Launch, StartContainer, ScriptCrashes, TimesOut, NoScore, Judge
  <2>3. ASSUME NEW m \in BOOLEAN, EvaluateStage(m) PROVE Traced'
    BY <1>0, <2>3 DEF EvaluateStage
  <2> QED BY <1>3, <2>1, <2>2, <2>3 DEF Evaluate
<1>4. CASE Settle
  BY <1>4 DEF Settle, File, AutoApprove, Poll, PollFails, Expire, Hold, Conflict, Merge, UpdateIfBetter,
              Save, Record, Rollback, Elsewhere
<1>5. CASE Return \/ Crash \/ RunAgain \/ \E c \in Candidate : CreateBranch(c)
  BY <1>0, <1>5 DEF Return, Crash, RunAgain, CreateBranch, Emptied, FreshSandbox
<1>6. CASE \E rows \in PredictionFile : CandidateWrites(rows)
  BY <1>0, <1>6 DEF CandidateWrites, WritePredictions, Judged
<1>7. CASE \/ \E c \in Candidate, d \in {"approved", "rejected"} : HumanDecides(c, d)
           \/ UNCHANGED vars
  BY <1>7 DEF HumanDecides, vars
<1> QED BY <1>1, <1>2, <1>3, <1>4, <1>5, <1>6, <1>7 DEF Next, Iterate

\* Where every script that ends by itself after the first stage has written its
\* predictions, each stage is scored on its own (run_candidate, then
\* evaluate_stage): the first always is, in whatever state an earlier candidate,
\* a container past its limit or a dead run left things.
THEOREM StagesAreOwnIfWritten ==
  Spec /\ [][WritesAgain]_vars => []ScoredOnOwnPredictions
<1>1. Init => Traced
  BY DEF Init, Traced, ScoredOnOwnPredictions
<1>2. Init => Judged
  BY DEF Init, Judged, Vetted
<1>3. Traced => ScoredOnOwnPredictions
  BY DEF Traced
<1> QED
  BY <1>1, <1>2, <1>3, JudgedStays, TracedStays, TypedInit, TypedStays, PTL DEF Spec

=============================================================================
