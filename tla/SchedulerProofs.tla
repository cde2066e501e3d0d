--------------------------- MODULE SchedulerProofs ---------------------------
(***************************************************************************)
(* What is proved of Scheduler for every set of candidates, any number of  *)
(* stages and threads, all scores, thresholds and settings.                *)
(***************************************************************************)
EXTENDS Scheduler, BoundedSets, FiniteSetTheorems

-----------------------------------------------------------------------------
(* Types.  Each part of the invariant has a lemma that says the steps keep it. *)

\* A thread, and what it knows of its candidate.
ThreadTyped ==
  /\ pc \in [Candidate -> {"queued", "running", "evaluated", "judging", "returned"}]
  /\ stage \in [Candidate -> 1..Stages]
  /\ stage_success \in [Candidate -> BOOLEAN]
  /\ final_score \in [Candidate -> Score]
  /\ has_failure_flags \in [Candidate -> BOOLEAN]
  /\ eval_passed \in [Candidate -> BOOLEAN]
  /\ delta \in [Candidate -> -MaxScore..MaxScore]
  /\ lied \in [Candidate -> BOOLEAN]
  /\ last_stage_flag \in BOOLEAN
  /\ baseline \in Score
  /\ worktrees \subseteq Candidate
  /\ discarded \subseteq Candidate
  /\ broken \in BOOLEAN
  /\ max_workers \in Workers /\ enabled \in GateSettings

\* Phase 2 is at a place of the queue, or past its end where a loop ends.
QueueTyped ==
  /\ phase \in {"evaluate", "file", "auto", "drain", "expire", "settle", "done", "aborted"}
  /\ queue \in Seq(Candidate)
  /\ current \in 1..(Len(queue) + 1)
  /\ phase \in {"auto", "expire", "settle"} => current <= Len(queue)
  /\ phase = "done" => current > Len(queue)
  /\ phase = "evaluate" => queue = <<>>
  /\ phase # "evaluate" => \A c \in Candidate : pc[c] = "returned"
  /\ history \in Seq(Candidate)
  /\ success \in [Candidate -> BOOLEAN]

\* Every row and every decision has its type, and phase 2 finds a row, or a
\* gate that is off, for everything it has filed.
Filed(k) ==
  IF enabled THEN row[queue[k]] # "absent" ELSE decision[queue[k]] = "skipped"

RowTyped ==
  /\ Register!TypeOK
  /\ decision \in [Candidate -> {"none", "skipped", "unreadable"} \cup Register!Decision]
  /\ phase = "auto" => enabled
  /\ phase \in {"file", "auto"} => \A k \in 1..(current - 1) : Filed(k)
  /\ phase = "auto" => Filed(current)
  /\ phase = "expire" => decision[Here] = "none"
  /\ phase \notin {"evaluate", "file", "auto"} => \A k \in DOMAIN queue : Filed(k)

Typed == ThreadTyped /\ QueueTyped /\ RowTyped

\* Which is more than the module's type invariant.
LEMMA TypedIsTypeOK == Typed => TypeOK
BY DEF Typed, ThreadTyped, QueueTyped, RowTyped, TypeOK

\* The place phase 2 is at is a candidate.
LEMMA HereIsCandidate ==
  QueueTyped /\ current <= Len(queue) => Here \in Candidate
BY DEF QueueTyped, Here

\* What is judged is scored, from 0 to the best there is.
LEMMA ScoreBounds == /\ Score \subseteq Int /\ 0 \in Score
                     /\ \A s, t \in Score : s - t \in -MaxScore..MaxScore
BY ScoreAssumption DEF Score

\* What the queue holds after the barrier: every candidate that passed, once.
LEMMA QueueIsWhole ==
  ASSUME NEW S, IsFiniteSet(S), NEW q \in SetToSeqs(S)
  PROVE  /\ q \in Seq(S) /\ ToSet(q) = S
         /\ \A i, j \in DOMAIN q : q[i] = q[j] => i = j
<1> DEFINE D == 1..Cardinality(S)
<1>1. Cardinality(S) \in Nat
  BY FS_CardinalityType
<1>2. q \in [D -> S] /\ \A i, j \in D : i # j => q[i] # q[j]
  BY DEF SetToSeqs
<1>3. Cardinality(D) = Cardinality(S)
  BY <1>1, FS_Interval
<1>4. q \in Injection(D, S)
  BY <1>2 DEF Injection, IsInjective
<1>5. q \in Surjection(D, S)
  BY <1>3, <1>4, FS_Injection
<1>6. \A e \in S : \E i \in D : q[i] = e
  BY <1>5 DEF Surjection
<1> QED BY <1>1, <1>2, <1>6 DEF ToSet

\* Threads go about their business before the barrier, and touch no queue, no
\* row and no line of development.
LEMMA ThreadLeaves ==
  ASSUME NEW c \in Candidate, Thread(c)
  PROVE  /\ pc[c] # "returned"
         /\ UNCHANGED <<serial, row, settings, history, baseline>>
BY DEF Thread, Start, Fail, StageCrashes, ReadFlags, Judge, StageScored, RollBack, rollback,
       Ledger!Discard, repo, serial, settings

\* A thread's scores, stages and places stay what they are, whatever phase 2 does.
LEMMA ThreadTypedStays == ThreadTyped /\ QueueTyped /\ [Next]_vars => ThreadTyped'
<1> SUFFICES ASSUME ThreadTyped, QueueTyped, [Next]_vars PROVE ThreadTyped'
  OBVIOUS
<1> USE DEF ThreadTyped, thread, repo, settings, serial
<1>1. ASSUME NEW c \in Candidate, Start(c) PROVE ThreadTyped'
  BY <1>1 DEF Start, Goto
<1>2. ASSUME NEW c \in Candidate, Fail(c) PROVE ThreadTyped'
  BY <1>2, ScoreBounds DEF Fail, Goto, RollBack, rollback, Ledger!Discard
<1>3. ASSUME NEW c \in Candidate, StageCrashes(c) PROVE ThreadTyped'
  BY <1>3, ScoreBounds DEF StageCrashes, Goto
<1>4. ASSUME NEW c \in Candidate, NEW s \in Score, NEW m \in BOOLEAN, StageScored(c, s, m)
      PROVE  ThreadTyped'
  <2>1. (s >= Threshold[stage[c]]) \in BOOLEAN
    OBVIOUS
  <2> QED BY <1>4, <2>1 DEF StageScored, Goto
<1>5. ASSUME NEW c \in Candidate, ReadFlags(c) PROVE ThreadTyped'
  <2>1. stage' \in [Candidate -> 1..Stages]
    <3>1. stage[c] \in 1..Stages /\ Stages \in Nat
      BY CountAssumption
    <3> QED BY <1>5, <3>1 DEF ReadFlags
  <2>2. pc' \in [Candidate -> {"queued", "running", "evaluated", "judging", "returned"}]
    BY <1>5 DEF ReadFlags, Goto
  <2> QED BY <1>5, <2>1, <2>2 DEF ReadFlags
<1>6. ASSUME NEW c \in Candidate, Judge(c) PROVE ThreadTyped'
  <2>1. delta' \in [Candidate -> -MaxScore..MaxScore]
    <3>1. final_score[c] - baseline \in -MaxScore..MaxScore
      BY ScoreBounds
    <3> QED BY <1>6, <3>1 DEF Judge
  <2>2. /\ eval_passed' \in [Candidate -> BOOLEAN] /\ broken' \in BOOLEAN
        /\ worktrees' \subseteq Candidate /\ discarded' \subseteq Candidate
    BY <1>6 DEF Judge, RollBack, rollback, Ledger!Discard
  <2> QED BY <1>6, <2>1, <2>2 DEF Judge, Goto
<1>7. CASE \/ Barrier \/ File \/ AutoApprove \/ AllFiled \/ PollDecided \/ PollFails
           \/ LastPoll \/ Expire \/ Finish
  BY <1>7 DEF Barrier, File, AutoApprove, AllFiled, PollDecided, PollFails, LastPoll, Expire,
              Finish
<1>8. CASE Merge
  <2>1. baseline' \in Score
    <3>1. Here \in Candidate
      BY <1>8, HereIsCandidate DEF Merge, QueueTyped
    <3> QED BY <1>8, <3>1 DEF Merge, update_if_better
  <2> QED BY <1>8, <2>1 DEF Merge, Ledger!Land
<1>9. CASE Conflict \/ Hold \/ Abort
  <2>1. Here \in Candidate
    BY <1>9, HereIsCandidate DEF Conflict, Hold, Abort, QueueTyped
  <2>2. CASE Conflict
    BY <2>1, <2>2 DEF Conflict, rollback, Ledger!Discard
  <2>3. CASE Hold
    BY <2>1, <2>3 DEF Hold, rollback, Ledger!Discard
  <2>4. CASE Abort
    BY <2>4 DEF Abort, Ledger!Land
  <2> QED BY <1>9, <2>2, <2>3, <2>4
<1>10. CASE UNCHANGED vars \/ \E c \in Candidate, d \in {"approved", "rejected"} : HumanDecides(c, d)
  BY <1>10 DEF HumanDecides, vars
<1> QED BY <1>1, <1>2, <1>3, <1>4, <1>5, <1>6, <1>7, <1>8, <1>9, <1>10 DEF Next, Thread, Drain

\* No loop of phase 2 runs past its queue, and no thread runs once phase 2 has begun.
LEMMA QueueTypedStays == ThreadTyped /\ QueueTyped /\ [Next]_vars => QueueTyped'
<1> SUFFICES ASSUME ThreadTyped, QueueTyped, [Next]_vars PROVE QueueTyped'
  OBVIOUS
<1>0. Len(queue) \in Nat /\ current \in Nat /\ current >= 1
  BY DEF QueueTyped
<1> USE DEF QueueTyped, thread, repo, settings, serial, Enter
<1>1. ASSUME NEW c \in Candidate, Thread(c) PROVE QueueTyped'
  <2>1. phase = "evaluate"
    BY <1>1, ThreadLeaves
  <2> QED BY <1>1, <2>1, ThreadLeaves
<1>2. CASE Barrier
  <2>1. UNCHANGED <<pc, history, success>> /\ phase = "evaluate"
        /\ \A c \in Candidate : pc[c] = "returned"
    BY <1>2 DEF Barrier
  <2>2. CASE broken
    BY <1>2, <2>1, <2>2 DEF Barrier
  <2>3. CASE ~broken
    <3> DEFINE passed == {c \in Candidate : eval_passed[c]}
    <3>1. IsFiniteSet(passed)
      BY CandidateAssumption, FS_Subset
    <3>2. queue' \in SetToSeqs(passed) /\ phase' = "file" /\ current' = 1
      BY <1>2, <2>3 DEF Barrier
    <3>3. queue' \in Seq(passed)
      BY <3>1, <3>2, QueueIsWhole
    <3>4. queue' \in Seq(Candidate) /\ Len(queue') \in Nat
      BY <3>3
    <3> QED BY <2>1, <3>2, <3>4
  <2> QED BY <2>2, <2>3
<1>3. CASE \/ File \/ AutoApprove \/ AllFiled \/ PollDecided \/ PollFails \/ LastPoll
           \/ Expire \/ Finish
  <2>1. UNCHANGED <<pc, queue, history, success>>
    BY <1>3 DEF File, AutoApprove, AllFiled, PollDecided, PollFails, LastPoll, Expire, Finish
  <2>2. phase # "evaluate" /\ phase' # "evaluate"
    BY <1>3 DEF File, AutoApprove, AllFiled, PollDecided, PollFails, LastPoll, Expire, Finish
  <2>3. phase' \in {"file", "auto", "drain", "expire", "settle", "done"}
    BY <1>3 DEF File, AutoApprove, AllFiled, PollDecided, PollFails, LastPoll, Expire, Finish
  <2>4. /\ current' \in 1..(Len(queue) + 1)
        /\ phase' \in {"auto", "expire", "settle"} => current' <= Len(queue)
        /\ phase' = "done" => current' > Len(queue)
    BY <1>0, <1>3 DEF File, AutoApprove, AllFiled, PollDecided, PollFails, LastPoll, Expire,
                      Finish
  <2> QED BY <2>1, <2>2, <2>3, <2>4
<1>4. CASE Merge \/ Conflict \/ Hold \/ Abort
  <2>1. phase = "settle" /\ current <= Len(queue) /\ Here \in Candidate
    BY <1>4, HereIsCandidate DEF Merge, Conflict, Hold, Abort
  <2>2. UNCHANGED <<pc, queue>>
    BY <1>4 DEF Merge, Conflict, Hold, Abort
  <2>3. history' \in Seq(Candidate)
    <3>1. history' = history \/ history' = Append(history, Here)
      BY <1>4 DEF Merge, Conflict, Hold, Abort, rollback, Ledger!Land, Ledger!Discard
    <3> QED BY <2>1, <3>1
  <2>4. success' \in [Candidate -> BOOLEAN]
    BY <1>4 DEF Merge, Conflict, Hold, Abort
  <2>5. phase' \in {"drain", "aborted"} /\ current' \in 1..(Len(queue) + 1)
    BY <1>0, <1>4, <2>1 DEF Merge, Conflict, Hold, Abort
  <2> QED BY <2>1, <2>2, <2>3, <2>4, <2>5
<1>5. CASE UNCHANGED vars \/ \E c \in Candidate, d \in {"approved", "rejected"} : HumanDecides(c, d)
  BY <1>5 DEF HumanDecides, vars
<1> QED BY <1>1, <1>2, <1>3, <1>4, <1>5 DEF Next, Drain

\* Phase 2 files the queue in order, and forgets nothing it has filed.
LEMMA RowTypedStays == ThreadTyped /\ QueueTyped /\ RowTyped /\ [Next]_vars => RowTyped'
<1> SUFFICES ASSUME ThreadTyped, QueueTyped, RowTyped, [Next]_vars PROVE RowTyped'
  OBVIOUS
<1>0. /\ Len(queue) \in Nat /\ current \in Nat /\ current >= 1 /\ DOMAIN queue = 1..Len(queue)
      /\ \A k \in DOMAIN queue : queue[k] \in Candidate
      /\ current <= Len(queue) => Here \in Candidate
  BY DEF QueueTyped, Here
<1> USE DEF RowTyped, Register!TypeOK, Register!Status, Register!Decision, settings, serial, Enter
<1>1. ASSUME NEW c \in Candidate, Thread(c) PROVE RowTyped'
  BY <1>1, ThreadLeaves DEF Filed, Here
<1>2. CASE Barrier
  <2>1. UNCHANGED <<row, decision, enabled>> /\ phase = "evaluate" /\ queue = <<>>
    BY <1>2 DEF Barrier, QueueTyped
  <2>2. \/ phase' = "file" /\ current' = 1
        \/ phase' = "aborted" /\ queue' = <<>>
    BY <1>2, <2>1 DEF Barrier
  <2> QED BY <2>1, <2>2 DEF Filed
<1>3. CASE File
  <2>1. /\ phase = "file" /\ current <= Len(queue) /\ Here \in Candidate
        /\ UNCHANGED <<queue, enabled>>
    BY <1>0, <1>3 DEF File
  <2>2. CASE enabled
    <3>1. row' = [row EXCEPT ![Here] = "pending"] /\ UNCHANGED decision
          /\ phase' = "auto" /\ current' = current
      BY <1>3, <2>2 DEF File, Register!Open
    <3>2. \A c \in Candidate : row[c] # "absent" => row'[c] # "absent"
      BY <3>1
    <3>3. row'[queue[current]] # "absent"
      BY <2>1, <3>1 DEF Here
    <3>4. \A k \in 1..(current - 1) : row'[queue[k]] # "absent"
      <4> SUFFICES ASSUME NEW k \in 1..(current - 1) PROVE row'[queue[k]] # "absent"
        OBVIOUS
      <4>1. row[queue[k]] # "absent"
        BY <2>1, <2>2 DEF Filed
      <4>2. queue[k] \in Candidate
        BY <1>0, <2>1
      <4> QED BY <3>2, <4>1, <4>2
    <3>5. row' \in [Candidate -> Register!Status]
      BY <2>1, <3>1
    <3> QED BY <2>1, <2>2, <3>1, <3>3, <3>4, <3>5 DEF Filed
  <2>3. CASE ~enabled
    <3>1. decision' = [decision EXCEPT ![Here] = "skipped"] /\ UNCHANGED row
          /\ phase' = "file" /\ current' = current + 1
      BY <1>3, <2>3 DEF File
    <3>2. decision'[queue[current]] = "skipped"
      BY <2>1, <3>1 DEF Here
    <3>3. \A k \in 1..(current - 1) : decision'[queue[k]] = "skipped"
      BY <1>0, <2>1, <2>3, <3>1 DEF Filed
    <3>4. \A k \in 1..(current' - 1) : decision'[queue[k]] = "skipped"
      BY <1>0, <3>1, <3>2, <3>3
    <3> QED BY <2>1, <2>3, <3>1, <3>4 DEF Filed
  <2> QED BY <2>2, <2>3
<1>4. CASE AutoApprove
  <2>1. /\ phase = "auto" /\ enabled /\ Here \in Candidate /\ current <= Len(queue)
        /\ UNCHANGED <<queue, enabled>>
        /\ phase' = "file" /\ current' = current + 1
    BY <1>0, <1>4 DEF AutoApprove, QueueTyped
  <2>2. /\ row' \in [Candidate -> Register!Status]
        /\ \A c \in Candidate : row[c] # "absent" => row'[c] # "absent"
        /\ decision' \in [Candidate -> {"none", "skipped", "unreadable"} \cup Register!Decision]
    BY <1>4, <2>1 DEF AutoApprove, Decide, Register!Settle
  <2>3. \A k \in 1..(current' - 1) : row'[queue[k]] # "absent"
    <3> SUFFICES ASSUME NEW k \in 1..current PROVE row'[queue[k]] # "absent"
      BY <1>0, <2>1
    <3>1. Filed(k) /\ queue[k] \in Candidate
      BY <1>0, <2>1
    <3> QED BY <2>1, <2>2, <3>1 DEF Filed
  <2> QED BY <2>1, <2>2, <2>3 DEF Filed
<1>5. CASE AllFiled \/ LastPoll \/ Finish
  <2>1. UNCHANGED <<row, decision, queue, enabled>> /\ phase' \in {"drain", "expire", "done"}
    BY <1>5 DEF AllFiled, LastPoll, Finish
  <2>2. \A k \in DOMAIN queue : Filed(k)
    BY <1>0, <1>5 DEF AllFiled, LastPoll, Finish
  <2>3. phase' = "expire" => decision'[Here'] = "none"
    BY <1>5, <2>1 DEF AllFiled, LastPoll, Finish, Here
  <2> QED BY <2>1, <2>2, <2>3 DEF Filed
<1>6. CASE PollDecided
  <2>1. /\ phase = "drain" /\ phase' = "settle" /\ Here \in Candidate
        /\ UNCHANGED <<row, queue, enabled>>
        /\ current \in DOMAIN queue
    BY <1>0, <1>6 DEF PollDecided
  <2>2. \A k \in DOMAIN queue : Filed(k)
    BY <2>1
  <2>3. decision[Here] = "none" => row[Here] \in Register!Decision
    <3>1. Filed(current)
      BY <2>1, <2>2
    <3> QED BY <1>6, <2>1, <3>1 DEF PollDecided, Filed, Here
  <2>4. /\ decision' \in [Candidate -> {"none", "skipped", "unreadable"} \cup Register!Decision]
        /\ \A c \in Candidate : decision[c] = "skipped" => decision'[c] = "skipped"
    BY <1>6, <2>1, <2>3 DEF PollDecided
  <2> QED BY <1>0, <2>1, <2>2, <2>4 DEF Filed
<1>7. CASE PollFails
  <2>1. /\ phase = "drain" /\ phase' = "settle" /\ Here \in Candidate
        /\ UNCHANGED <<row, queue, enabled>>
        /\ current \in DOMAIN queue /\ decision[Here] = "none"
        /\ decision' = [decision EXCEPT ![Here] = "unreadable"]
    BY <1>0, <1>7 DEF PollFails
  <2>2. enabled
    BY <2>1 DEF Filed, Here
  <2> QED BY <1>0, <2>1, <2>2 DEF Filed
<1>8. CASE Expire
  <2>1. /\ phase = "expire" /\ phase' = "settle" /\ Here \in Candidate
        /\ UNCHANGED <<queue, enabled>>
    BY <1>0, <1>8 DEF Expire, QueueTyped
  <2>2. /\ row' \in [Candidate -> Register!Status]
        /\ \A c \in Candidate : row[c] # "absent" => row'[c] # "absent"
        /\ decision' = [decision EXCEPT ![Here] = "timed_out"]
    BY <1>8, <2>1 DEF Expire, Decide, Register!Settle
  <2>3. enabled
    BY <1>0, <2>1 DEF Filed, Here, QueueTyped
  <2> QED BY <1>0, <2>1, <2>2, <2>3 DEF Filed
<1>9. CASE Merge \/ Conflict \/ Hold \/ Abort
  <2>1. UNCHANGED <<row, decision, queue, enabled>> /\ phase = "settle"
        /\ phase' \in {"drain", "aborted"}
    BY <1>9 DEF Merge, Conflict, Hold, Abort, thread
  <2> QED BY <2>1 DEF Filed
<1>10. ASSUME NEW c \in Candidate, NEW d \in {"approved", "rejected"}, HumanDecides(c, d)
      PROVE  RowTyped'
  <2>1. /\ UNCHANGED <<serial, enabled>>
        /\ row' \in [Candidate -> Register!Status]
        /\ \A b \in Candidate : row[b] # "absent" => row'[b] # "absent"
    BY <1>10 DEF HumanDecides, Register!Settle
  <2>2. \A k \in DOMAIN queue : Filed(k) => Filed(k)'
    BY <1>0, <2>1 DEF Filed
  <2>3. /\ phase = "auto" => current \in DOMAIN queue
        /\ \A k \in 1..(current - 1) : k \in DOMAIN queue
    BY <1>0 DEF QueueTyped
  <2> QED BY <2>1, <2>2, <2>3 DEF Here
<1>11. CASE UNCHANGED vars
  BY <1>11 DEF vars, Filed, Here
<1> QED BY <1>1, <1>2, <1>3, <1>4, <1>5, <1>6, <1>7, <1>8, <1>9, <1>10, <1>11 DEF Next, Drain

\* The generation starts well typed.
LEMMA TypedInit == Init => Typed
<1> SUFFICES ASSUME Init PROVE Typed
  OBVIOUS
<1>1. ThreadTyped
  <2>1. 1 \in 1..Stages
    BY CountAssumption
  <2>2. 0 \in Score /\ StartBaseline \in Score
    BY ScoreAssumption, ScoreBounds
  <2>3. 0 \in -MaxScore..MaxScore
    BY ScoreAssumption
  <2>4. discarded = {}
    BY DEF Init, Ledger!Init
  <2> QED BY <2>1, <2>2, <2>3, <2>4 DEF Init, ThreadTyped
<1>2. QueueTyped
  <2>1. queue = <<>> /\ history = <<>>
    BY DEF Init, Ledger!Init
  <2>2. queue \in Seq(Candidate) /\ history \in Seq(Candidate) /\ Len(queue) = 0
    BY <2>1
  <2> QED BY <2>1, <2>2 DEF Init, QueueTyped
<1>3. RowTyped
  BY DEF Init, RowTyped, Register!Init, Register!TypeOK, Register!Status
<1> QED BY <1>1, <1>2, <1>3 DEF Typed

\* The parts together are inductive.
LEMMA TypedStays == Typed /\ [Next]_vars => Typed'
BY ThreadTypedStays, QueueTypedStays, RowTypedStays DEF Typed

\* Every value has its type, and phase 2 never looks past the end of its queue.
THEOREM TypeCorrect == Spec => []TypeOK
BY TypedInit, TypedStays, TypedIsTypeOK, PTL DEF Spec

-----------------------------------------------------------------------------
(* What passes *)

\* What evaluate_only demands of a candidate, said of its present score.
Passed(c) ==
  final_score[c] >= Threshold[Stages] /\ final_score[c] > StartBaseline + min_improvement

\* A thread's verdict is about the score its candidate has, and no baseline but
\* the first is known before the barrier.
Vetting ==
  /\ \A c \in Candidate :
       /\ pc[c] = "evaluated" /\ stage_success[c] => final_score[c] >= Threshold[stage[c]]
       /\ pc[c] = "judging" /\ stage_success[c] => final_score[c] >= Threshold[Stages]
       /\ eval_passed[c] => pc[c] = "returned" /\ Passed(c)
  /\ phase = "evaluate" => baseline = StartBaseline

\* Nothing a thread does disturbs the verdict on another candidate.
LEMMA VettingStays == Vetting /\ Typed /\ [Next]_vars => Vetting'
<1> SUFFICES ASSUME Vetting, Typed, [Next]_vars PROVE Vetting'
  OBVIOUS
<1> USE DEF Vetting, Typed, ThreadTyped, Goto, Passed, thread, repo, settings, serial
<1>1. ASSUME NEW c \in Candidate, Thread(c) PROVE Vetting'
  <2>0. phase' = "evaluate" => baseline' = StartBaseline
    BY <1>1, ThreadLeaves
  <2>1. CASE Start(c)
    BY <2>0, <2>1 DEF Start
  <2>2. CASE Fail(c)
    BY <2>0, <2>2 DEF Fail
  <2>3. CASE StageCrashes(c)
    BY <2>0, <2>3 DEF StageCrashes
  <2>4. ASSUME NEW s \in Score, NEW m \in BOOLEAN, StageScored(c, s, m) PROVE Vetting'
    BY <2>0, <2>4 DEF StageScored
  <2>5. CASE ReadFlags(c)
    <3>1. stage[c] \in 1..Stages /\ Stages \in Nat
      BY CountAssumption
    <3>2. stage[c] < Stages \/ stage[c] = Stages
      BY <3>1
    <3> QED BY <2>0, <2>5, <3>2 DEF ReadFlags
  <2>6. CASE Judge(c)
    <3>1. baseline = StartBaseline
      BY <1>1, ThreadLeaves DEF QueueTyped
    <3>2. pc[c] = "judging" /\ pc' = [pc EXCEPT ![c] = "returned"]
          /\ UNCHANGED <<stage, stage_success, final_score>>
      BY <2>6 DEF Judge
    <3>3. \/ /\ eval_passed' = [eval_passed EXCEPT ![c] = TRUE]
             /\ stage_success[c] /\ passes(final_score[c])
          \/ UNCHANGED eval_passed
      BY <2>6 DEF Judge
    <3>4. \A b \in Candidate : eval_passed'[b] => pc'[b] = "returned" /\ Passed(b)
      BY <3>1, <3>2, <3>3 DEF passes
    <3> QED BY <2>0, <3>2, <3>4
  <2> QED BY <1>1, <2>1, <2>2, <2>3, <2>4, <2>5, <2>6 DEF Thread
<1>2. CASE \/ Barrier \/ File \/ AutoApprove \/ AllFiled \/ PollDecided \/ PollFails
           \/ LastPoll \/ Expire
           \/ Abort \/ Finish \/ Merge \/ Hold
  <2>1. UNCHANGED thread
    BY <1>2 DEF Barrier, File, AutoApprove, AllFiled, PollDecided, PollFails, LastPoll, Expire,
                Abort, Finish,
                Merge, Hold
  <2>2. phase' # "evaluate"
    BY <1>2 DEF Barrier, File, AutoApprove, AllFiled, PollDecided, PollFails, LastPoll, Expire,
                Abort, Finish,
                Merge, Hold, Enter
  <2> QED BY <2>1, <2>2
<1>3. CASE Conflict
  BY <1>3 DEF Conflict, Enter
<1>4. CASE UNCHANGED vars \/ \E c \in Candidate, d \in {"approved", "rejected"} : HumanDecides(c, d)
  BY <1>4 DEF HumanDecides, vars
<1> QED BY <1>1, <1>2, <1>3, <1>4 DEF Next, Drain

\* Nobody is in the queue twice, and nobody who did not pass.
Queued ==
  /\ \A i, j \in DOMAIN queue : queue[i] = queue[j] => i = j
  /\ \A c \in ToSet(queue) : Passed(c)

\* The queue is filled once, from what passed, and never again.
LEMMA QueuedStays == Queued /\ Vetting /\ Typed /\ [Next]_vars => Queued'
<1> SUFFICES ASSUME Queued, Vetting, Typed, [Next]_vars PROVE Queued'
  OBVIOUS
<1> USE DEF Queued, Passed, thread, serial
<1>1. ASSUME NEW c \in Candidate, Thread(c) PROVE Queued'
  <2>1. phase = "evaluate" /\ UNCHANGED queue
    BY <1>1, ThreadLeaves DEF Typed, QueueTyped, serial
  <2>2. queue' = <<>>
    BY <2>1 DEF Typed, QueueTyped
  <2> QED BY <2>2 DEF ToSet
<1>2. CASE Barrier
  <2> DEFINE passed == {c \in Candidate : eval_passed[c]}
  <2>1. UNCHANGED final_score
    BY <1>2 DEF Barrier
  <2>2. CASE broken
    BY <1>2, <2>1, <2>2 DEF Barrier
  <2>3. CASE ~broken
    <3>1. IsFiniteSet(passed) /\ queue' \in SetToSeqs(passed)
      BY <1>2, <2>3, CandidateAssumption, FS_Subset DEF Barrier
    <3>2. /\ ToSet(queue') = passed
          /\ \A i, j \in DOMAIN queue' : queue'[i] = queue'[j] => i = j
      BY <3>1, QueueIsWhole
    <3> QED BY <2>1, <3>2 DEF Vetting
  <2> QED BY <2>2, <2>3
<1>3. CASE \/ File \/ AutoApprove \/ AllFiled \/ PollDecided \/ PollFails \/ LastPoll \/ Expire
           \/ Abort \/ Finish \/ Merge \/ Hold \/ Conflict
  BY <1>3 DEF File, AutoApprove, AllFiled, PollDecided, PollFails, LastPoll, Expire, Abort,
              Finish,
              Merge, Hold, Conflict
<1>4. CASE UNCHANGED vars \/ \E c \in Candidate, d \in {"approved", "rejected"} : HumanDecides(c, d)
  BY <1>4 DEF HumanDecides, vars
<1> QED BY <1>1, <1>2, <1>3, <1>4 DEF Next, Drain

-----------------------------------------------------------------------------
(* Decisions *)

\* What is decided of a candidate agrees with its row as far as anybody looks:
\* an approval is on record, a skipped candidate has no row, and nothing that
\* is decided is still pending, unless the store could not be read.
Decided ==
  /\ \A c \in Candidate :
       /\ row[c] # "absent" => enabled /\ c \in ToSet(queue)
       /\ decision[c] \notin {"none", "unreadable"} => row[c] # "pending"
       /\ decision[c] # "none" /\ enabled => row[c] # "absent"
       /\ decision[c] = "approved" => row[c] = "approved"
       /\ decision[c] = "skipped" => ~enabled
       /\ row[c] = "auto_approved" => decision[c] = "auto_approved"
  /\ phase = "settle" => decision[Here] # "none"
  /\ phase \in {"drain", "expire", "settle", "done"} =>
       \A k \in 1..(current - 1) : decision[queue[k]] # "none"

\* Nothing that is decided is decided otherwise.
LEMMA DecidedStays == Decided /\ Typed /\ [Next]_vars => Decided'
<1> SUFFICES ASSUME Decided, Typed, [Next]_vars PROVE Decided'
  OBVIOUS
<1>0. /\ Len(queue) \in Nat /\ current \in Nat /\ current >= 1 /\ DOMAIN queue = 1..Len(queue)
      /\ \A k \in DOMAIN queue : queue[k] \in Candidate /\ queue[k] \in ToSet(queue)
      /\ current <= Len(queue) => Here \in Candidate /\ Here \in ToSet(queue)
      /\ current <= Len(queue) + 1
  BY DEF Typed, QueueTyped, Here, ToSet
<1>00. /\ row \in [Candidate -> Register!Status]
       /\ decision \in [Candidate -> {"none", "skipped", "unreadable"} \cup Register!Decision]
  BY DEF Typed, RowTyped, Register!TypeOK
<1> USE DEF Decided, settings, serial, Enter
<1>1. ASSUME NEW c \in Candidate, Thread(c) PROVE Decided'
  BY <1>1, ThreadLeaves DEF Here
<1>2. CASE Barrier
  <2>1. UNCHANGED <<row, decision, enabled>> /\ phase = "evaluate" /\ queue = <<>>
        /\ phase' \in {"file", "aborted"}
    BY <1>2 DEF Barrier, Typed, QueueTyped
  <2>2. \A c \in Candidate : row[c] = "absent"
    BY <2>1 DEF ToSet
  <2> QED BY <2>1, <2>2
<1>3. CASE File
  <2>1. /\ Here \in Candidate /\ Here \in ToSet(queue)
        /\ UNCHANGED <<queue, enabled>> /\ phase' \in {"file", "auto"}
    BY <1>0, <1>3 DEF File
  <2>2. CASE enabled
    <3>1. row[Here] = "absent" /\ row' = [row EXCEPT ![Here] = "pending"] /\ UNCHANGED decision
      BY <1>3, <2>2 DEF File, Register!Open
    <3>2. decision[Here] = "none"
      BY <2>1, <2>2, <3>1
    <3> QED BY <1>00, <2>1, <2>2, <3>1, <3>2
  <2>3. CASE ~enabled
    <3>1. decision' = [decision EXCEPT ![Here] = "skipped"] /\ UNCHANGED row
      BY <1>3, <2>3 DEF File
    <3> QED BY <1>00, <2>1, <2>3, <3>1
  <2> QED BY <2>2, <2>3

<1>4. CASE AutoApprove
  <2>1. /\ Here \in Candidate /\ Here \in ToSet(queue) /\ enabled /\ row[Here] # "absent"
        /\ UNCHANGED <<queue, enabled>> /\ phase' = "file"
    BY <1>0, <1>4 DEF AutoApprove, Typed, QueueTyped, RowTyped, Filed, Here
  <2>2. CASE should_auto_approve(Here)
    <3>1. /\ decision' = [decision EXCEPT ![Here] = "auto_approved"]
          /\ row' = IF row[Here] = "pending" THEN [row EXCEPT ![Here] = "auto_approved"] ELSE row
      BY <1>4, <2>2 DEF AutoApprove, Decide, Register!Settle
    <3> QED BY <1>00, <2>1, <3>1
  <2>3. CASE ~should_auto_approve(Here)
    BY <1>4, <2>1, <2>3 DEF AutoApprove
  <2> QED BY <2>2, <2>3
<1>5. CASE AllFiled \/ LastPoll \/ Finish
  <2>1. /\ UNCHANGED <<row, decision, queue, enabled>> /\ phase' # "settle"
        /\ phase \in {"file", "drain"}
        /\ phase = "file" => current' = 1
        /\ phase = "drain" => current' = current
    BY <1>5 DEF AllFiled, LastPoll, Finish
  <2> QED BY <1>0, <2>1
<1>6. CASE PollDecided
  <2>1. /\ phase = "drain" /\ phase' = "settle" /\ Here \in Candidate /\ current' = current
        /\ UNCHANGED <<row, queue, enabled>>
        /\ decision' = [decision EXCEPT ![Here] = IF @ = "none" THEN row[Here] ELSE @]
        /\ decision[Here] # "none" \/ row[Here] # "pending"
        /\ Here' = Here
    BY <1>0, <1>6 DEF PollDecided, Here
  <2>2. enabled => row[Here] # "absent"
    BY <1>0, <1>6 DEF PollDecided, Typed, RowTyped, Filed, Here
  <2>3. ~enabled => decision[Here] = "skipped"
    BY <1>0, <1>6 DEF PollDecided, Typed, RowTyped, Filed, Here
  <2>4. \A c \in Candidate : decision'[c] = IF c = Here /\ decision[c] = "none" THEN row[c] ELSE decision[c]
    BY <1>00, <2>1
  <2>5. decision'[Here] # "none" /\ \A c \in Candidate : decision[c] # "none" => decision'[c] # "none"
    BY <1>00, <2>1, <2>2, <2>3, <2>4 DEF Register!Status, Register!Decision
  <2>6. \A c \in Candidate : row[c] = "skipped" => FALSE
    BY <1>00 DEF Register!Status, Register!Decision
  <2> QED BY <1>0, <2>1, <2>2, <2>3, <2>4, <2>5, <2>6
<1>7. CASE PollFails
  <2>1. /\ phase = "drain" /\ phase' = "settle" /\ Here \in Candidate /\ current' = current
        /\ UNCHANGED <<row, queue, enabled>> /\ Here' = Here
        /\ decision' = [decision EXCEPT ![Here] = "unreadable"]
        /\ decision[Here] = "none"
    BY <1>0, <1>7 DEF PollFails, Here
  <2>2. enabled => row[Here] # "absent"
    BY <1>0, <1>7 DEF PollFails, Typed, RowTyped, Filed, Here
  <2> QED BY <1>0, <1>00, <2>1, <2>2
<1>8. CASE Expire
  <2>1. /\ phase = "expire" /\ phase' = "settle" /\ Here \in Candidate /\ current' = current
        /\ UNCHANGED <<queue, enabled>> /\ Here' = Here
        /\ decision' = [decision EXCEPT ![Here] = "timed_out"]
        /\ row' = IF row[Here] = "pending" THEN [row EXCEPT ![Here] = "timed_out"] ELSE row
    BY <1>0, <1>8 DEF Expire, Typed, QueueTyped, Decide, Register!Settle, Here
  <2>2. decision[Here] = "none" /\ (enabled => row[Here] # "absent")
    BY <1>0, <2>1 DEF Typed, RowTyped, QueueTyped, Filed, Here
  <2> QED BY <1>0, <1>00, <2>1, <2>2
<1>9. CASE Merge \/ Conflict \/ Hold \/ Abort
  <2>1. /\ UNCHANGED <<row, decision, queue, enabled>> /\ phase = "settle"
        /\ \/ phase' = "drain" /\ current' = current + 1
           \/ phase' = "aborted"
    BY <1>9 DEF Merge, Conflict, Hold, Abort, thread
  <2>2. \A k \in 1..current : decision[queue[k]] # "none"
    BY <1>0, <2>1 DEF Here
  <2> QED BY <1>0, <2>1, <2>2
<1>10. ASSUME NEW c \in Candidate, NEW d \in {"approved", "rejected"}, HumanDecides(c, d)
      PROVE  Decided'
  <2>1. /\ UNCHANGED <<serial, enabled>> /\ Here' = Here
        /\ row[c] = "pending" /\ row' = [row EXCEPT ![c] = d]
    BY <1>10 DEF HumanDecides, Register!Settle, Here
  <2> QED BY <1>00, <2>1
<1>11. CASE UNCHANGED vars
  BY <1>11 DEF vars, Here
<1> QED BY <1>1, <1>2, <1>3, <1>4, <1>5, <1>6, <1>7, <1>8, <1>9, <1>10, <1>11 DEF Next, Drain

-----------------------------------------------------------------------------
(* Merges *)

\* What is appended is all that is added.
LEMMA ToSetOfAppend ==
  ASSUME NEW S, NEW s \in Seq(S), NEW e \in S
  PROVE  ToSet(Append(s, e)) = ToSet(s) \cup {e}
<1>1. DOMAIN Append(s, e) = 1..(Len(s) + 1) /\ DOMAIN s = 1..Len(s) /\ Len(s) \in Nat
  OBVIOUS
<1>2. \A k \in 1..(Len(s) + 1) : Append(s, e)[k] = IF k = Len(s) + 1 THEN e ELSE s[k]
  OBVIOUS
<1>3. ToSet(Append(s, e)) \subseteq ToSet(s) \cup {e}
  BY <1>1, <1>2 DEF ToSet
<1>4. e \in ToSet(Append(s, e))
  BY <1>1, <1>2 DEF ToSet
<1>5. ToSet(s) \subseteq ToSet(Append(s, e))
  BY <1>1, <1>2 DEF ToSet
<1> QED BY <1>3, <1>4, <1>5

\* Settling the candidate at hand, what becomes of it is all that changes.
LEMMA SettleStep ==
  ASSUME Typed, Merge \/ Conflict \/ Hold \/ Abort
  PROVE  /\ phase = "settle" /\ Here \in Candidate /\ Here \in ToSet(queue)
         /\ UNCHANGED <<queue, row, decision, final_score, enabled, pc, lied, has_failure_flags>>
         /\ \/ Merged' = Merged \cup {Here} /\ decision[Here] \in Consent
            \/ Merged' = Merged
<1>1. phase = "settle" /\ current \in 1..Len(queue) /\ Here = queue[current]
  <2>1. phase = "settle"
    BY DEF Merge, Conflict, Hold, Abort
  <2> QED BY <2>1 DEF Typed, QueueTyped, Here
<1>2. Here \in Candidate /\ Here \in ToSet(queue)
  BY <1>1 DEF Typed, QueueTyped, ToSet
<1>3. \/ history' = Append(history, Here) /\ decision[Here] \in Consent
      \/ UNCHANGED history
  <2>1. CASE Merge
    BY <2>1 DEF Merge, Ledger!Land
  <2>2. CASE Conflict
    BY <2>2 DEF Conflict, rollback, Ledger!Discard
  <2>3. CASE Hold
    BY <2>3 DEF Hold, rollback, Ledger!Discard
  <2>4. CASE Abort
    BY <2>4 DEF Abort, Ledger!Land, repo
  <2> QED BY <2>1, <2>2, <2>3, <2>4
<1>4. history \in Seq(Candidate)
  BY DEF Typed, QueueTyped
<1>5. \/ Merged' = Merged \cup {Here} /\ decision[Here] \in Consent
      \/ Merged' = Merged
  <2>1. ToSet(Append(history, Here)) = ToSet(history) \cup {Here}
    BY <1>2, <1>4, ToSetOfAppend
  <2> QED BY <1>3, <2>1 DEF Merged
<1> QED BY <1>1, <1>2, <1>5 DEF Merge, Conflict, Hold, Abort, thread, settings

\* What is merged is of this generation's queue, with the consent it needs, and
\* counted as a success unless the run ends over it.
Landing ==
  /\ Merged \subseteq ToSet(queue)
  /\ phase \in {"evaluate", "file", "auto"} => Merged = {}
  /\ phase # "aborted" => \A c \in Candidate : success[c] <=> c \in Merged
  /\ enabled => \A c \in Merged : row[c] = "approved" \/ decision[c] = "auto_approved"

\* Nothing lands but the candidate at hand, once its decision is consent.
LEMMA LandingStays == Landing /\ Decided /\ Typed /\ [Next]_vars => Landing'
<1> SUFFICES ASSUME Landing, Decided, Typed, [Next]_vars PROVE Landing'
  OBVIOUS
<1>0. /\ row \in [Candidate -> Register!Status]
      /\ decision \in [Candidate -> {"none", "skipped", "unreadable"} \cup Register!Decision]
      /\ success \in [Candidate -> BOOLEAN]
      /\ queue \in Seq(Candidate) /\ ToSet(queue) \subseteq Candidate
  BY DEF Typed, RowTyped, QueueTyped, Register!TypeOK, ToSet
<1>00. current <= Len(queue) => Here \in Candidate
  BY HereIsCandidate DEF Typed
<1> USE DEF Landing, settings, serial, Enter, repo
<1>1. ASSUME NEW c \in Candidate, Thread(c) PROVE Landing'
  BY <1>1, ThreadLeaves DEF Merged
<1>2. CASE Barrier
  <2>1. UNCHANGED <<history, success, row, decision, enabled>> /\ Merged = {}
        /\ phase = "evaluate"
    BY <1>2 DEF Barrier
  <2> QED BY <2>1 DEF Merged
<1>3. CASE File \/ AutoApprove
  <2>1. UNCHANGED <<queue, history, success, enabled>> /\ Merged = {} /\ phase' # "aborted"
        /\ phase # "aborted"
    BY <1>3 DEF File, AutoApprove
  <2> QED BY <2>1 DEF Merged
<1>4. CASE AllFiled \/ LastPoll \/ Finish
  BY <1>4 DEF AllFiled, LastPoll, Finish, Merged
<1>5. CASE PollDecided
  <2>1. /\ UNCHANGED <<queue, history, success, enabled, row>> /\ Here \in Candidate
        /\ phase = "drain" /\ phase' = "settle"
        /\ decision' = [decision EXCEPT ![Here] = IF @ = "none" THEN row[Here] ELSE @]
    BY <1>00, <1>5 DEF PollDecided
  <2>2. \A c \in Candidate : decision[c] = "auto_approved" => decision'[c] = "auto_approved"
    BY <1>0, <2>1
  <2> QED BY <1>0, <2>1, <2>2 DEF Merged
<1>6. CASE PollFails
  <2>1. /\ UNCHANGED <<queue, history, success, enabled, row>> /\ Here \in Candidate
        /\ phase = "drain" /\ phase' = "settle" /\ decision[Here] = "none"
        /\ decision' = [decision EXCEPT ![Here] = "unreadable"]
    BY <1>00, <1>6 DEF PollFails
  <2>2. \A c \in Candidate : decision[c] = "auto_approved" => decision'[c] = "auto_approved"
    BY <1>0, <2>1
  <2> QED BY <1>0, <2>1, <2>2 DEF Merged
<1>7. CASE Expire
  <2>1. /\ UNCHANGED <<queue, history, success, enabled>> /\ Here \in Candidate
        /\ phase = "expire" /\ phase' = "settle"
        /\ decision' = [decision EXCEPT ![Here] = "timed_out"]
        /\ row' = IF row[Here] = "pending" THEN [row EXCEPT ![Here] = "timed_out"] ELSE row
    BY <1>00, <1>7 DEF Expire, Decide, Register!Settle, Typed, QueueTyped
  <2>2. decision[Here] = "none"
    BY <2>1 DEF Typed, RowTyped
  <2>3. \A c \in Candidate :
          row[c] = "approved" \/ decision[c] = "auto_approved" =>
            row'[c] = "approved" \/ decision'[c] = "auto_approved"
    BY <1>0, <2>1, <2>2
  <2> QED BY <1>0, <2>1, <2>3 DEF Merged
<1>8. CASE Merge \/ Conflict \/ Hold \/ Abort
  <2>1. /\ phase = "settle" /\ Here \in Candidate /\ Here \in ToSet(queue)
        /\ UNCHANGED <<queue, row, decision, enabled>>
        /\ \/ Merged' = Merged \cup {Here} /\ decision[Here] \in Consent
           \/ Merged' = Merged
    BY <1>8, SettleStep
  <2>2. \/ phase' = "drain" /\ Merged' = Merged \cup {Here} /\ success' = [success EXCEPT ![Here] = TRUE]
        \/ phase' = "drain" /\ Merged' = Merged /\ UNCHANGED success
        \/ phase' = "aborted"
    <3>1. CASE Merge
      <4>1. history' = Append(history, Here) /\ history \in Seq(Candidate)
        BY <3>1 DEF Merge, Ledger!Land, Typed, QueueTyped
      <4>2. Merged' = Merged \cup {Here}
        BY <2>1, <4>1, ToSetOfAppend DEF Merged
      <4> QED BY <3>1, <4>2 DEF Merge
    <3>2. CASE Conflict \/ Hold
      BY <3>2 DEF Conflict, Hold, rollback, Ledger!Discard, Merged
    <3>3. CASE Abort
      BY <3>3 DEF Abort
    <3> QED BY <1>8, <3>1, <3>2, <3>3
  <2>3. \A c \in Candidate : phase' # "aborted" => (success'[c] <=> c \in Merged')
    BY <1>0, <2>1, <2>2
  <2>4. enabled /\ decision[Here] \in Consent =>
          row[Here] = "approved" \/ decision[Here] = "auto_approved"
    BY <2>1 DEF Decided, Consent
  <2>5. enabled' => \A c \in Merged' : row'[c] = "approved" \/ decision'[c] = "auto_approved"
    BY <2>1, <2>4
  <2>6. phase' \in {"drain", "aborted"}
    BY <2>2
  <2> QED BY <2>1, <2>3, <2>5, <2>6
<1>9. ASSUME NEW c \in Candidate, NEW d \in {"approved", "rejected"}, HumanDecides(c, d)
      PROVE  Landing'
  <2>1. /\ UNCHANGED <<queue, history, success, enabled, decision, phase>>
        /\ row[c] = "pending" /\ row' = [row EXCEPT ![c] = d]
    BY <1>9 DEF HumanDecides, Register!Settle
  <2> QED BY <1>0, <2>1 DEF Merged
<1>10. CASE UNCHANGED vars
  BY <1>10 DEF vars, Merged
<1> QED BY <1>1, <1>2, <1>3, <1>4, <1>5, <1>6, <1>7, <1>8, <1>9, <1>10 DEF Next, Drain

\* All of this holds throughout.
IInv == Typed /\ Vetting /\ Queued /\ Decided /\ Landing

\* A generation begins with it.
LEMMA InitIInv == Init => IInv
<1> SUFFICES ASSUME Init PROVE Vetting /\ Queued /\ Decided /\ Landing
  BY TypedInit DEF IInv
<1>1. ToSet(queue) = {} /\ Merged = {} /\ DOMAIN queue = {}
  BY DEF Init, Ledger!Init, ToSet, Merged
<1>2. \A c \in Candidate : row[c] = "absent" /\ decision[c] = "none" /\ ~eval_passed[c]
  BY DEF Init, Register!Init
<1> QED BY <1>1, <1>2 DEF Init, Vetting, Queued, Decided, Landing

\* Every step keeps it.
LEMMA IInvStays == IInv /\ [Next]_vars => IInv'
BY TypedStays, VettingStays, QueuedStays, DecidedStays, LandingStays DEF IInv

\* So it holds throughout.
LEMMA Invariant == Spec => []IInv
BY InitIInv, IInvStays, PTL DEF Spec

\* Whatever merges got past the last threshold, beat the baseline the
\* generation started from, and was let through by the gate (execute_generation).
THEOREM MergesAreVetted == Spec => []MergedWasVetted
<1>1. IInv => MergedWasVetted
  BY DEF IInv, Queued, Landing, Passed, MergedWasVetted
<1> QED BY <1>1, Invariant, PTL

\* No decision is awaited and nothing is merged before every request of the
\* generation is on the dashboard.
THEOREM AllReviewedTogether == Spec => []ReviewedTogether
<1>1. IInv => ReviewedTogether
  <2> SUFFICES ASSUME IInv, enabled,
                      phase \in {"drain", "expire", "settle"} \/ Merged # {},
                      NEW c \in Candidate
               PROVE  pc[c] = "returned" /\ (c \in ToSet(queue) => row[c] # "absent")
    BY DEF ReviewedTogether
  <2>1. phase \notin {"evaluate", "file", "auto"}
    BY DEF IInv, Landing
  <2>2. \A k \in DOMAIN queue : row[queue[k]] # "absent"
    BY <2>1 DEF IInv, Typed, RowTyped, Filed
  <2> QED BY <2>1, <2>2 DEF IInv, Typed, QueueTyped, ToSet
<1> QED BY <1>1, Invariant, PTL

-----------------------------------------------------------------------------
(* The baseline *)

\* The baseline is where it started or the score of something merged, and
\* nothing merged is better.
Best ==
  phase # "aborted" =>
    /\ baseline >= StartBaseline
    /\ \A c \in Merged : final_score[c] <= baseline
    /\ baseline = StartBaseline \/ \E c \in Merged : baseline = final_score[c]

\* Merge and update_if_better are one step to everybody else in the generation.
LEMMA BestStays == Best /\ IInv /\ [Next]_vars => Best'
<1> SUFFICES ASSUME Best, IInv, [Next]_vars PROVE Best'
  OBVIOUS
<1>0. /\ StartBaseline \in Int /\ baseline \in Int
      /\ \A c \in Candidate : final_score[c] \in Int
      /\ Merged \subseteq Candidate
  <2>1. Merged \subseteq Candidate
    BY DEF IInv, Typed, QueueTyped, Merged, ToSet
  <2> QED BY <2>1, ScoreBounds, ScoreAssumption DEF IInv, Typed, ThreadTyped
<1> USE DEF Best, thread, repo, serial, settings, Enter
<1>1. ASSUME NEW c \in Candidate, Thread(c) PROVE Best'
  <2>1. UNCHANGED <<phase, history, baseline>> /\ phase = "evaluate"
    BY <1>1, ThreadLeaves DEF IInv, Typed, QueueTyped
  <2>2. Merged = {} /\ Merged' = {} /\ baseline = StartBaseline
    BY <2>1 DEF Merged, IInv, Landing, Vetting
  <2> QED BY <1>0, <2>1, <2>2
<1>2. CASE \/ Barrier \/ File \/ AutoApprove \/ AllFiled \/ PollDecided \/ PollFails
           \/ LastPoll \/ Expire
           \/ Finish
  <2>1. UNCHANGED <<history, baseline, final_score>> /\ phase # "aborted"
    BY <1>2 DEF Barrier, File, AutoApprove, AllFiled, PollDecided, PollFails, LastPoll, Expire,
                Finish
  <2> QED BY <2>1 DEF Merged
<1>3. CASE Merge
  <2>1. phase = "settle" /\ Here \in Candidate /\ UNCHANGED final_score
    BY <1>3, SettleStep DEF IInv
  <2>2. Merged' = Merged \cup {Here}
    <3>1. history' = Append(history, Here) /\ history \in Seq(Candidate)
      BY <1>3 DEF Merge, Ledger!Land, IInv, Typed, QueueTyped
    <3>2. ToSet(Append(history, Here)) = ToSet(history) \cup {Here}
      BY <2>1, <3>1, ToSetOfAppend
    <3> QED BY <3>1, <3>2 DEF Merged
  <2>3. baseline' = IF final_score[Here] > baseline THEN final_score[Here] ELSE baseline
    BY <1>3 DEF Merge, update_if_better
  <2> QED BY <1>0, <2>1, <2>2, <2>3
<1>4. CASE Conflict \/ Hold
  <2>1. UNCHANGED <<history, baseline, final_score>> /\ phase = "settle"
    BY <1>4 DEF Conflict, Hold, rollback, Ledger!Discard
  <2> QED BY <2>1 DEF Merged
<1>5. CASE Abort
  BY <1>5 DEF Abort
<1>6. CASE UNCHANGED vars \/ \E c \in Candidate, d \in {"approved", "rejected"} : HumanDecides(c, d)
  BY <1>6 DEF HumanDecides, vars, Merged
<1> QED BY <1>1, <1>2, <1>3, <1>4, <1>5, <1>6 DEF Next, Drain

\* Nothing is merged yet, and the baseline is the one handed over.
LEMMA BestInit == Init => Best
<1> SUFFICES ASSUME Init PROVE Best
  OBVIOUS
<1>1. Merged = {} /\ baseline = StartBaseline /\ StartBaseline \in Int
  BY ScoreBounds, ScoreAssumption DEF Init, Ledger!Init, ToSet, Merged
<1> QED BY <1>1 DEF Best

\* As long as a generation goes on, the baseline is the best score ever merged.
THEOREM BaselineIsKept == Spec => []BaselineIsBestMerged
<1>1. Init => Best
  BY BestInit
<1>2. IInv /\ Best => BaselineIsBestMerged
  <2> SUFFICES ASSUME IInv, Best, phase # "aborted"
               PROVE  baseline = Max({StartBaseline} \cup {final_score[c] : c \in Merged})
    BY DEF BaselineIsBestMerged
  <2> DEFINE T == {StartBaseline} \cup {final_score[c] : c \in Merged}
  <2>0. Merged \subseteq Candidate
    BY DEF IInv, Typed, QueueTyped, Merged, ToSet
  <2>1. T \subseteq Int /\ baseline \in Int
    BY <2>0, ScoreBounds, ScoreAssumption DEF IInv, Typed, ThreadTyped
  <2>2. baseline \in T /\ \A x \in T : x <= baseline
    BY <2>1 DEF Best
  <2>3. Max(T) \in T /\ \A x \in T : x <= Max(T)
    <3> HIDE DEF T
    <3> QED BY <2>1, <2>2, MaxIsLargest
  <2>4. baseline <= Max(T) /\ Max(T) <= baseline
    BY <2>2, <2>3
  <2> QED BY <2>1, <2>3, <2>4
<1> QED BY <1>1, <1>2, BestStays, Invariant, PTL DEF Spec

-----------------------------------------------------------------------------
(* The end of a generation *)

\* Who is done with is merged or discarded, and has no worktree: before the
\* barrier the candidates that did not pass, after it those that are not in the
\* queue or come before the present place in it.
Gone(c) == c \in discarded /\ c \notin worktrees

Accounted ==
  /\ phase = "evaluate" /\ ~broken =>
       \A c \in Candidate : pc[c] = "returned" => eval_passed[c] \/ Gone(c)
  /\ phase \notin {"evaluate", "aborted"} =>
       \A c \in Candidate : c \in ToSet(queue) \/ Gone(c)
  /\ phase \in {"drain", "expire", "settle", "done"} =>
       \A k \in 1..(current - 1) :
         queue[k] \in Merged \cup discarded /\ queue[k] \notin worktrees

\* Whoever drops out takes its worktree along.
LEMMA AccountedStays == Accounted /\ IInv /\ [Next]_vars => Accounted'
<1> SUFFICES ASSUME Accounted, IInv, [Next]_vars PROVE Accounted'
  OBVIOUS
<1>0. /\ Len(queue) \in Nat /\ current \in Nat /\ current >= 1
      /\ current <= Len(queue) + 1
      /\ pc \in [Candidate -> {"queued", "running", "evaluated", "judging", "returned"}]
      /\ eval_passed \in [Candidate -> BOOLEAN]
  BY DEF IInv, Typed, QueueTyped, ThreadTyped
<1> USE DEF Accounted, Gone, thread, repo, serial, settings, Enter
<1>1. ASSUME NEW c \in Candidate, Thread(c) PROVE Accounted'
  <2>0. phase = "evaluate" /\ phase' = "evaluate"
    BY <1>1, ThreadLeaves DEF IInv, Typed, QueueTyped
  <2>1. CASE Start(c)
    BY <1>0, <2>0, <2>1 DEF Start, Goto
  <2>2. CASE Fail(c)
    BY <1>0, <2>0, <2>2 DEF Fail, Goto, RollBack, rollback, Ledger!Discard
  <2>3. CASE StageCrashes(c)
    BY <1>0, <2>0, <2>3 DEF StageCrashes, Goto
  <2>4. ASSUME NEW s \in Score, NEW m \in BOOLEAN, StageScored(c, s, m) PROVE Accounted'
    BY <1>0, <2>0, <2>4 DEF StageScored, Goto
  <2>5. CASE ReadFlags(c)
    <3>1. \A b \in Candidate : pc'[b] = "returned" => pc[b] = "returned"
      BY <1>0, <2>5 DEF ReadFlags, Goto
    <3> QED BY <2>0, <2>5, <3>1 DEF ReadFlags
  <2>6. CASE Judge(c)
    <3>1. \A b \in Candidate \ {c} : pc'[b] = pc[b] /\ eval_passed'[b] = eval_passed[b]
      BY <1>0, <2>6 DEF Judge, Goto
    <3>2. \/ eval_passed'[c] /\ UNCHANGED <<repo, broken>>
          \/ RollBack(c)
      BY <1>0, <2>6 DEF Judge
    <3>3. /\ \A b \in Candidate \ {c} : Gone(b) => Gone(b)'
          /\ ~broken' => ~broken /\ (eval_passed'[c] \/ Gone(c)')
      BY <3>2 DEF RollBack, rollback, Ledger!Discard
    <3> QED BY <2>0, <3>1, <3>3
  <2> QED BY <1>1, <2>1, <2>2, <2>3, <2>4, <2>5, <2>6 DEF Thread
<1>2. CASE Barrier
  <2> DEFINE passed == {c \in Candidate : eval_passed[c]}
  <2>1. CASE broken
    BY <1>2, <2>1 DEF Barrier
  <2>2. CASE ~broken
    <3>1. IsFiniteSet(passed) /\ queue' \in SetToSeqs(passed) /\ phase' = "file"
      BY <1>2, <2>2, CandidateAssumption, FS_Subset DEF Barrier
    <3>2. ToSet(queue') = passed
      BY <3>1, QueueIsWhole
    <3>3. \A c \in Candidate : c \in passed \/ Gone(c)'
      BY <1>2, <2>2 DEF Barrier
    <3> QED BY <3>1, <3>2, <3>3
  <2> QED BY <2>1, <2>2
<1>3. CASE \/ File \/ AutoApprove \/ AllFiled \/ PollDecided \/ PollFails \/ LastPoll
           \/ Expire \/ Finish
  <2>1. UNCHANGED <<repo, queue>> /\ phase \notin {"evaluate", "aborted"} /\ phase' # "evaluate"
    BY <1>3 DEF File, AutoApprove, AllFiled, PollDecided, PollFails, LastPoll, Expire, Finish
  <2>2. phase' \in {"drain", "expire", "settle", "done"} =>
          \/ phase \in {"drain", "expire", "settle", "done"} /\ current' = current
          \/ current' = 1
    BY <1>3 DEF File, AutoApprove, AllFiled, PollDecided, PollFails, LastPoll, Expire, Finish
  <2> QED BY <1>0, <2>1, <2>2 DEF Merged
<1>4. CASE Merge \/ Conflict \/ Hold
  <2>1. phase = "settle" /\ Here \in Candidate /\ Here = queue[current] /\ UNCHANGED queue
    BY <1>4, SettleStep DEF IInv, Here
  <2>2. phase' = "drain" /\ current' = current + 1
    BY <1>4 DEF Merge, Conflict, Hold
  <2>3. /\ Merged \cup discarded \subseteq Merged' \cup discarded'
        /\ discarded \subseteq discarded'
        /\ Here \in Merged' \cup discarded'
        /\ worktrees' = worktrees \ {Here}
    <3>1. CASE Merge
      <4>1. history' = Append(history, Here) /\ history \in Seq(Candidate)
        BY <3>1 DEF Merge, Ledger!Land, IInv, Typed, QueueTyped
      <4>2. ToSet(Append(history, Here)) = ToSet(history) \cup {Here}
        BY <2>1, <4>1, ToSetOfAppend
      <4> QED BY <3>1, <4>1, <4>2 DEF Merge, Ledger!Land, Merged
    <3>2. CASE Conflict \/ Hold
      BY <3>2 DEF Conflict, Hold, rollback, Ledger!Discard, Merged
    <3> QED BY <1>4, <3>1, <3>2
  <2>4. \A k \in 1..current :
          queue[k] \in Merged' \cup discarded' /\ queue[k] \notin worktrees'
    BY <1>0, <2>1, <2>3
  <2>5. \A c \in Candidate : Gone(c) => Gone(c)'
    BY <2>3
  <2> QED BY <1>0, <2>1, <2>2, <2>4, <2>5
<1>5. CASE Abort
  BY <1>5 DEF Abort
<1>6. CASE UNCHANGED vars \/ \E c \in Candidate, d \in {"approved", "rejected"} : HumanDecides(c, d)
  BY <1>6 DEF HumanDecides, vars, Merged
<1> QED BY <1>1, <1>2, <1>3, <1>4, <1>5, <1>6 DEF Next, Drain

\* A generation that comes to its end leaves no worktree, every candidate merged
\* or discarded, and no request open but of a candidate that was discarded
\* because the store could not be read (await_approval_decision).
THEOREM GenerationSettles == Spec => []EverythingSettled
<1>1. Init => Accounted
  BY DEF Init, Accounted
<1>2. IInv /\ Accounted => EverythingSettled
  <2> SUFFICES ASSUME IInv, Accounted, phase = "done"
               PROVE  /\ worktrees = {}
                      /\ \A c \in Candidate :
                           row[c] = "pending" => decision[c] = "unreadable" /\ c \in discarded
                      /\ \A c \in Candidate : success[c] <=> c \in Merged
                      /\ Merged \cup discarded = Candidate
    BY DEF EverythingSettled
  <2>1. /\ current > Len(queue) /\ current \in Nat /\ Len(queue) \in Nat
        /\ DOMAIN queue = 1..Len(queue)
    BY DEF IInv, Typed, QueueTyped
  <2>2. \A k \in DOMAIN queue : k \in 1..(current - 1)
    BY <2>1
  <2>3. \A c \in Candidate : c \notin worktrees /\ c \in Merged \cup discarded
    BY <2>2 DEF Accounted, Gone, ToSet
  <2>4. worktrees \subseteq Candidate /\ discarded \subseteq Candidate /\ Merged \subseteq Candidate
    BY DEF IInv, Typed, ThreadTyped, QueueTyped, Merged, ToSet
  <2>5. ASSUME NEW c \in Candidate, row[c] = "pending"
        PROVE  decision[c] = "unreadable" /\ c \in discarded
    <3>1. PICK k \in DOMAIN queue : queue[k] = c
      BY <2>5 DEF IInv, Decided, ToSet
    <3>2. enabled /\ decision[c] = "unreadable"
      BY <2>2, <2>5, <3>1 DEF IInv, Decided
    <3>3. c \notin Merged
      BY <2>5, <3>2 DEF IInv, Landing
    <3> QED BY <2>3, <3>2, <3>3
  <2>6. \A c \in Candidate : success[c] <=> c \in Merged
    BY DEF IInv, Landing
  <2> QED BY <2>3, <2>4, <2>5, <2>6
<1> QED BY <1>1, <1>2, AccountedStays, Invariant, PTL DEF Spec

-----------------------------------------------------------------------------
(* The calls *)

\* The scheduler asks of version control and of the store only what they
\* promise to do: it rolls back, and merges, candidates whose worktree is there
\* and whose fate is open, and files nobody twice.
CallsAreLegal ==
  /\ \A c \in Candidate :
       pc[c] \in {"running", "evaluated", "judging"} \/ (phase = "settle" /\ c = Here) =>
         c \in worktrees /\ c \notin Merged \cup discarded
  /\ phase = "file" /\ current <= Len(queue) => row[Here] = "absent"

\* The candidate is where it was built, and its fate is open.
Held(c) == c \in worktrees /\ c \notin discarded

\* A candidate is held from its thread's first step until the thread gives it
\* up, and from the barrier until its turn in the drain has come; and who comes
\* behind the place filing has reached has no row.
AtHand ==
  /\ \A c \in Candidate :
       /\ pc[c] = "queued" => c \notin discarded
       /\ pc[c] \in {"running", "evaluated", "judging"} => Held(c)
       /\ phase = "evaluate" /\ eval_passed[c] => Held(c)
  /\ phase \in {"file", "auto"} => \A k \in DOMAIN queue : Held(queue[k])
  /\ phase \in {"drain", "expire", "settle"} =>
       \A k \in current..Len(queue) : Held(queue[k]) /\ queue[k] \notin Merged
  /\ phase = "file" => \A k \in current..Len(queue) : row[queue[k]] = "absent"
  /\ phase = "auto" => \A k \in (current + 1)..Len(queue) : row[queue[k]] = "absent"

\* Before the barrier a thread gives up no candidate but its own.
LEMMA AtHandThread ==
  ASSUME AtHand, IInv, NEW c \in Candidate, Thread(c)
  PROVE  AtHand'
<1>0. /\ pc \in [Candidate -> {"queued", "running", "evaluated", "judging", "returned"}]
      /\ eval_passed \in [Candidate -> BOOLEAN]
      /\ \A b \in Candidate : eval_passed[b] => pc[b] = "returned"
      /\ phase = "evaluate" /\ phase' = "evaluate"
  BY ThreadLeaves DEF IInv, Typed, QueueTyped, ThreadTyped, Vetting, serial
<1> USE DEF AtHand, Held
<1>1. CASE Start(c)
  BY <1>0, <1>1 DEF Start, Goto
<1>2. CASE Fail(c)
  <2>1. pc[c] = "running" /\ pc' = [pc EXCEPT ![c] = "returned"] /\ UNCHANGED eval_passed
    BY <1>2 DEF Fail, Goto
  <2>2. \A b \in Candidate \ {c} : Held(b) => Held(b)'
    BY <1>2 DEF Fail, RollBack, rollback, Ledger!Discard
  <2>3. \A b \in Candidate \ {c} : b \notin discarded => b \notin discarded'
    BY <1>2 DEF Fail, RollBack, rollback, Ledger!Discard
  <2> QED BY <1>0, <2>1, <2>2, <2>3
<1>3. CASE StageCrashes(c)
  BY <1>0, <1>3 DEF StageCrashes, Goto, repo
<1>4. ASSUME NEW s \in Score, NEW m \in BOOLEAN, StageScored(c, s, m) PROVE AtHand'
  BY <1>0, <1>4 DEF StageScored, Goto, repo
<1>5. CASE ReadFlags(c)
  <2>1. /\ UNCHANGED <<repo, eval_passed>> /\ pc[c] = "evaluated"
        /\ \A b \in Candidate \ {c} : pc'[b] = pc[b]
        /\ pc'[c] \in {"running", "judging"}
    BY <1>0, <1>5 DEF ReadFlags, Goto
  <2> QED BY <1>0, <2>1 DEF repo
<1>6. CASE Judge(c)
  <2>1. pc[c] = "judging" /\ pc' = [pc EXCEPT ![c] = "returned"]
    BY <1>6 DEF Judge, Goto
  <2>2. /\ \A b \in Candidate \ {c} :
             /\ Held(b) => Held(b)'
             /\ b \notin discarded => b \notin discarded'
             /\ eval_passed'[b] = eval_passed[b]
        /\ eval_passed'[c] => Held(c)'
    <3>1. CASE UNCHANGED <<repo, broken>> /\ eval_passed' = [eval_passed EXCEPT ![c] = TRUE]
      BY <1>0, <2>1, <3>1 DEF repo
    <3>2. CASE RollBack(c) /\ UNCHANGED eval_passed
      BY <1>0, <2>1, <3>2 DEF RollBack, rollback, Ledger!Discard
    <3> QED BY <1>6, <3>1, <3>2 DEF Judge
  <2> QED BY <1>0, <2>1, <2>2
<1> QED BY <1>1, <1>2, <1>3, <1>4, <1>5, <1>6 DEF Thread

\* After it, each place of the queue is settled in its turn, and no place twice.
LEMMA AtHandStays == AtHand /\ IInv /\ [Next]_vars => AtHand'
<1> SUFFICES ASSUME AtHand, IInv, [Next]_vars PROVE AtHand'
  OBVIOUS
<1>0. /\ Len(queue) \in Nat /\ current \in Nat /\ current >= 1 /\ DOMAIN queue = 1..Len(queue)
      /\ current <= Len(queue) + 1
      /\ \A k \in DOMAIN queue : queue[k] \in Candidate
      /\ phase # "evaluate" => \A c \in Candidate : pc[c] = "returned"
  BY DEF IInv, Typed, QueueTyped
<1> USE DEF AtHand, Held, thread, repo, serial, settings, Enter
<1>1. ASSUME NEW c \in Candidate, Thread(c) PROVE AtHand'
  BY <1>1, AtHandThread
<1>2. CASE Barrier
  <2>0. /\ \A c \in Candidate : pc'[c] = "returned"
        /\ UNCHANGED <<worktrees, discarded, row, eval_passed>> /\ phase = "evaluate"
    BY <1>2 DEF Barrier
  <2>1. CASE broken
    BY <1>2, <2>0, <2>1 DEF Barrier
  <2>2. CASE ~broken
    <3> DEFINE passed == {c \in Candidate : eval_passed[c]}
    <3>1. /\ IsFiniteSet(passed) /\ queue' \in SetToSeqs(passed)
          /\ phase' = "file" /\ current' = 1
      BY <1>2, <2>2, CandidateAssumption, FS_Subset DEF Barrier
    <3>2. queue' \in Seq(passed)
      BY <3>1, QueueIsWhole
    <3>3. \A k \in DOMAIN queue' : queue'[k] \in passed
      BY <3>2
    <3>4. DOMAIN queue' = 1..Len(queue')
      BY <3>2
    <3>5. \A c \in Candidate : row[c] = "absent"
      <4>1. ToSet(queue) = {}
        BY <2>0 DEF IInv, Typed, QueueTyped, ToSet
      <4> QED BY <4>1 DEF IInv, Decided
    <3>6. \A k \in DOMAIN queue' : Held(queue[k])' /\ row'[queue'[k]] = "absent"
      BY <2>0, <3>3, <3>5
    <3>7. \A k \in current'..Len(queue') : row'[queue'[k]] = "absent"
      BY <3>1, <3>4, <3>6
    <3> QED BY <2>0, <3>1, <3>6, <3>7
  <2> QED BY <2>1, <2>2
<1>3. CASE File \/ AutoApprove
  <2>1. /\ UNCHANGED <<pc, eval_passed, worktrees, discarded, queue>> /\ phase \in {"file", "auto"}
        /\ current \in DOMAIN queue /\ Here \in Candidate /\ Here = queue[current]
    BY <1>0, <1>3 DEF File, AutoApprove, IInv, Typed, QueueTyped, Here
  <2>2. \/ phase = "file" /\ phase' = "auto" /\ current' = current
        \/ phase' = "file" /\ current' = current + 1
    BY <1>3 DEF File, AutoApprove
  <2>3. \A c \in Candidate \ {Here} : row'[c] = row[c]
    <3>1. row \in [Candidate -> Register!Status]
      BY DEF IInv, Typed, RowTyped, Register!TypeOK
    <3> QED BY <1>3, <3>1 DEF File, AutoApprove, Register!Open, Decide, Register!Settle
  <2>4. \A k \in (current + 1)..Len(queue) : row'[queue[k]] = "absent"
    <3> SUFFICES ASSUME NEW k \in (current + 1)..Len(queue) PROVE row'[queue[k]] = "absent"
      OBVIOUS
    <3>1. k \in DOMAIN queue /\ k # current /\ row[queue[k]] = "absent"
      BY <1>0, <2>1
    <3>2. queue[k] # Here
      BY <2>1, <3>1 DEF IInv, Queued
    <3> QED BY <1>0, <2>3, <3>1, <3>2
  <2> QED BY <1>0, <2>1, <2>2, <2>4
<1>4. CASE AllFiled
  <2>1. /\ UNCHANGED <<pc, eval_passed, worktrees, discarded, queue, history>>
        /\ phase = "file" /\ phase' = "drain" /\ current' = 1
    BY <1>4 DEF AllFiled
  <2>2. Merged = {} /\ Merged' = {}
    BY <2>1 DEF IInv, Landing, Merged
  <2> QED BY <1>0, <2>1, <2>2
<1>5. CASE PollDecided \/ PollFails \/ LastPoll \/ Expire \/ Finish
  <2>1. /\ UNCHANGED <<pc, eval_passed, worktrees, discarded, queue, history>>
        /\ phase \in {"drain", "expire"} /\ phase' \in {"expire", "settle", "done"}
        /\ current' = current
    BY <1>5 DEF PollDecided, PollFails, LastPoll, Expire, Finish
  <2> QED BY <1>0, <2>1 DEF Merged
<1>6. CASE Merge \/ Conflict \/ Hold
  <2>1. /\ phase = "settle" /\ phase' = "drain" /\ current' = current + 1
        /\ UNCHANGED <<pc, queue>> /\ Here \in Candidate /\ Merged' \subseteq Merged \cup {Here}
    <3>1. phase' = "drain" /\ current' = current + 1
      BY <1>6 DEF Merge, Conflict, Hold
    <3> QED BY <1>6, <3>1, SettleStep DEF IInv
  <2>2. /\ worktrees' = worktrees \ {Here} /\ discarded' \subseteq discarded \cup {Here}
    BY <1>6 DEF Merge, Conflict, Hold, rollback, Ledger!Land, Ledger!Discard
  <2>3. Here = queue[current] /\ current \in DOMAIN queue
    BY <1>0, <2>1 DEF IInv, Typed, QueueTyped, Here
  <2>4. \A k \in (current + 1)..Len(queue) : Held(queue[k])' /\ queue[k] \notin Merged'
    <3> SUFFICES ASSUME NEW k \in (current + 1)..Len(queue)
                 PROVE  Held(queue[k])' /\ queue[k] \notin Merged'
      OBVIOUS
    <3>1. k \in DOMAIN queue /\ k # current /\ Held(queue[k]) /\ queue[k] \notin Merged
      BY <1>0, <2>1
    <3>2. queue[k] # Here
      BY <2>3, <3>1 DEF IInv, Queued
    <3> QED BY <2>1, <2>2, <3>1, <3>2
  <2> QED BY <1>0, <2>1, <2>4
<1>7. CASE Abort
  <2>1. phase = "settle" /\ phase' = "aborted" /\ UNCHANGED pc
    BY <1>7 DEF Abort
  <2> QED BY <1>0, <2>1
<1>8. ASSUME NEW c \in Candidate, NEW d \in {"approved", "rejected"}, HumanDecides(c, d)
      PROVE  AtHand'
  <2>1. /\ UNCHANGED <<pc, eval_passed, worktrees, discarded, history, phase, queue, current>>
        /\ \A b \in Candidate : row[b] = "absent" => row'[b] = "absent"
    BY <1>8 DEF HumanDecides, Register!Settle
  <2>2. \A k \in current..Len(queue) : queue[k] \in Candidate
    BY <1>0
  <2>3. \A k \in (current + 1)..Len(queue) : queue[k] \in Candidate
    BY <1>0
  <2> QED BY <2>1, <2>2, <2>3 DEF Merged
<1>9. CASE UNCHANGED vars
  BY <1>9 DEF vars, Merged
<1> QED BY <1>1, <1>2, <1>3, <1>4, <1>5, <1>6, <1>7, <1>8, <1>9 DEF Next, Drain

\* The scheduler keeps to what version control and the store ask of those who
\* call them (evaluate_only, execute_generation).
THEOREM CallsAreMade == Spec => []CallsAreLegal
<1>1. Init => AtHand
  BY DEF Init, AtHand, Ledger!Init
<1>2. IInv /\ AtHand => CallsAreLegal
  <2> SUFFICES ASSUME IInv, AtHand
               PROVE  /\ \A c \in Candidate :
                           pc[c] \in {"running", "evaluated", "judging"} =>
                             c \in worktrees /\ c \notin Merged \cup discarded
                      /\ phase = "settle" => Here \in worktrees /\ Here \notin Merged \cup discarded
                      /\ phase = "file" /\ current <= Len(queue) => row[Here] = "absent"
    BY DEF CallsAreLegal
  <2>1. ASSUME NEW c \in Candidate, pc[c] \in {"running", "evaluated", "judging"}
        PROVE  c \in worktrees /\ c \notin Merged \cup discarded
    <3>1. Merged = {}
      BY <2>1 DEF IInv, Typed, QueueTyped, Landing
    <3> QED BY <2>1, <3>1 DEF AtHand, Held
  <2>2. current <= Len(queue) => current \in current..Len(queue)
    BY DEF IInv, Typed, QueueTyped
  <2>3. phase = "settle" => Here \in worktrees /\ Here \notin Merged \cup discarded
    BY <2>2 DEF AtHand, Held, Here, IInv, Typed, QueueTyped
  <2>4. phase = "file" /\ current <= Len(queue) => row[Here] = "absent"
    BY <2>2 DEF AtHand, Here
  <2> QED BY <2>1, <2>3, <2>4
<1> QED BY <1>1, <1>2, AtHandStays, Invariant, PTL DEF Spec

-----------------------------------------------------------------------------
(* The length of a generation *)

\* The steps a thread still has in it: two to a stage, one to judge.
ThreadLeft(c) ==
  CASE pc[c] = "queued" -> 2 * Stages + 2
    [] pc[c] = "running" -> 2 * (Stages - stage[c]) + 3
    [] pc[c] = "evaluated" -> 2 * (Stages - stage[c]) + 2
    [] pc[c] = "judging" -> 1
    [] OTHER -> 0

\* And those of phase 2: two to file, at most three to settle a candidate.
DrainLeft ==
  LET toSettle == 3 * Len(queue)
      behind == Len(queue) + 1 - current IN
  CASE phase = "evaluate" -> 5 * Cardinality(Candidate) + 3
    [] phase = "file" -> toSettle + 2 * behind + 2
    [] phase = "auto" -> toSettle + 2 * behind + 1
    [] phase = "drain" -> 3 * behind + 1
    [] phase = "expire" -> 3 * behind
    [] phase = "settle" -> 3 * behind - 1
    [] OTHER -> 0

\* Every step brings one thread nearer to its end, or phase 2, or is a human's
\* answer to a request still open; and nobody's step sets anybody else back.
\* With as many reviewers silent as there are requests it is no different.
GenerationIsBounded ==
  [][\/ /\ \E c \in Candidate :
             /\ ThreadLeft(c)' \in 0..(ThreadLeft(c) - 1)
             /\ \A d \in Candidate \ {c} : ThreadLeft(d)' = ThreadLeft(d)
        /\ DrainLeft' = DrainLeft
     \/ /\ DrainLeft' \in 0..(DrainLeft - 1)
        /\ \A c \in Candidate : ThreadLeft(c)' = ThreadLeft(c)
     \/ /\ \E c \in Candidate : row[c] = "pending" /\ row'[c] # "pending"
        /\ DrainLeft' = DrainLeft
        /\ \A c \in Candidate : ThreadLeft(c)' = ThreadLeft(c)]_vars

\* A thread's step costs it at least one of the steps it has left, and nobody
\* else any.
LEMMA ThreadAdvances ==
  ASSUME Typed, NEW c \in Candidate, Thread(c)
  PROVE  /\ ThreadLeft(c)' \in 0..(ThreadLeft(c) - 1)
         /\ \A d \in Candidate \ {c} : ThreadLeft(d)' = ThreadLeft(d)
         /\ DrainLeft' = DrainLeft
<1>0. /\ pc \in [Candidate -> {"queued", "running", "evaluated", "judging", "returned"}]
      /\ stage \in [Candidate -> 1..Stages] /\ Stages \in Nat
      /\ stage[c] \in Int /\ 1 <= stage[c] /\ stage[c] <= Stages
  BY CountAssumption DEF Typed, ThreadTyped
<1>1. DrainLeft' = DrainLeft
  BY ThreadLeaves DEF DrainLeft, serial
<1>2. CASE Start(c)
  <2>1. pc[c] = "queued" /\ pc' = [pc EXCEPT ![c] = "running"] /\ UNCHANGED stage
    BY <1>2 DEF Start, Goto
  <2> QED BY <1>0, <1>1, <2>1 DEF ThreadLeft
<1>3. CASE StageCrashes(c) \/ \E s \in Score, m \in BOOLEAN : StageScored(c, s, m)
  <2>1. pc[c] = "running" /\ pc' = [pc EXCEPT ![c] = "evaluated"] /\ UNCHANGED stage
    BY <1>3 DEF StageCrashes, StageScored, Goto
  <2> QED BY <1>0, <1>1, <2>1 DEF ThreadLeft
<1>4. CASE Fail(c) \/ Judge(c)
  <2>1. pc[c] \in {"running", "judging"} /\ pc' = [pc EXCEPT ![c] = "returned"] /\ UNCHANGED stage
    BY <1>4 DEF Fail, Judge, Goto
  <2> QED BY <1>0, <1>1, <2>1 DEF ThreadLeft
<1>5. CASE ReadFlags(c)
  <2>1. CASE stage_success[c] /\ stage[c] < Stages
    <3>1. /\ pc[c] = "evaluated" /\ pc' = [pc EXCEPT ![c] = "running"]
          /\ stage' = [stage EXCEPT ![c] = stage[c] + 1]
      BY <1>5, <2>1 DEF ReadFlags, Goto
    <3> QED BY <1>0, <1>1, <2>1, <3>1 DEF ThreadLeft
  <2>2. CASE ~(stage_success[c] /\ stage[c] < Stages)
    <3>1. pc[c] = "evaluated" /\ pc' = [pc EXCEPT ![c] = "judging"] /\ UNCHANGED stage
      BY <1>5, <2>2 DEF ReadFlags, Goto
    <3> QED BY <1>0, <1>1, <3>1 DEF ThreadLeft
  <2> QED BY <2>1, <2>2
<1> QED BY <1>2, <1>3, <1>4, <1>5 DEF Thread

\* A step of phase 2 costs it at least one of its own, and no thread any: the
\* queue it is given is no longer than there are candidates.
LEMMA DrainAdvances ==
  ASSUME Typed, Drain \/ PollFails
  PROVE  DrainLeft' \in 0..(DrainLeft - 1) /\ \A c \in Candidate : ThreadLeft(c)' = ThreadLeft(c)
<1>0. /\ Len(queue) \in Nat /\ current \in Nat /\ current >= 1 /\ current <= Len(queue) + 1
      /\ phase \in {"auto", "expire", "settle"} => current <= Len(queue)
  BY DEF Typed, QueueTyped
<1>1. \A c \in Candidate : ThreadLeft(c)' = ThreadLeft(c)
  <2>1. UNCHANGED <<pc, stage>>
    <3>1. CASE \/ Barrier \/ File \/ AutoApprove \/ AllFiled \/ PollDecided \/ PollFails
               \/ LastPoll \/ Expire
      BY <3>1 DEF Barrier, File, AutoApprove, AllFiled, PollDecided, PollFails, LastPoll, Expire,
                  thread
    <3>2. CASE Merge \/ Conflict \/ Hold \/ Abort \/ Finish
      BY <3>2 DEF Merge, Conflict, Hold, Abort, Finish, thread
    <3> QED BY <3>1, <3>2 DEF Drain
  <2> QED BY <2>1 DEF ThreadLeft
<1> USE DEF DrainLeft, Enter
<1>2. CASE Barrier
  <2>0. Cardinality(Candidate) \in Nat
    BY CandidateAssumption, FS_CardinalityType
  <2>1. CASE broken
    <3>1. phase = "evaluate" /\ phase' = "aborted"
      BY <1>2, <2>1 DEF Barrier
    <3>2. DrainLeft = 5 * Cardinality(Candidate) + 3 /\ DrainLeft' = 0
      BY <3>1
    <3> QED BY <1>1, <2>0, <3>2
  <2>2. CASE ~broken
    <3> DEFINE passed == {c \in Candidate : eval_passed[c]}
    <3>1. /\ phase = "evaluate" /\ phase' = "file" /\ current' = 1
          /\ queue' \in SetToSeqs(passed)
      BY <1>2, <2>2 DEF Barrier
    <3>2. IsFiniteSet(passed) /\ Cardinality(passed) <= Cardinality(Candidate)
      BY CandidateAssumption, FS_Subset
    <3>3. Cardinality(passed) \in Nat
      BY <3>2, FS_CardinalityType
    <3>4. queue' \in Seq(passed) /\ DOMAIN queue' = 1..Cardinality(passed)
      BY <3>1, <3>2, QueueIsWhole DEF SetToSeqs
    <3>5. Len(queue') = Cardinality(passed)
      <4>1. DOMAIN queue' = 1..Len(queue') /\ Len(queue') \in Nat
        BY <3>4
      <4> QED BY <3>3, <3>4, <4>1
    <3>6. DrainLeft = 5 * Cardinality(Candidate) + 3
      BY <3>1
    <3>7. DrainLeft' = 3 * Len(queue') + 2 * (Len(queue') + 1 - 1) + 2
      BY <3>1
    <3> HIDE DEF passed
    <3> QED BY <1>1, <2>0, <3>2, <3>3, <3>5, <3>6, <3>7
  <2> QED BY <2>1, <2>2
<1>3. CASE File
  <2>1. /\ phase = "file" /\ current <= Len(queue) /\ queue' = queue
        /\ \/ phase' = "auto" /\ current' = current
           \/ phase' = "file" /\ current' = current + 1
    BY <1>3 DEF File
  <2>2. CASE phase' = "auto" /\ current' = current
    BY <1>0, <1>1, <2>1, <2>2
  <2>3. CASE phase' = "file" /\ current' = current + 1
    BY <1>0, <1>1, <2>1, <2>3
  <2> QED BY <2>1, <2>2, <2>3
<1>4. CASE AutoApprove
  <2>1. phase = "auto" /\ phase' = "file" /\ current' = current + 1 /\ queue' = queue
    BY <1>4 DEF AutoApprove
  <2> QED BY <1>0, <1>1, <2>1
<1>5. CASE AllFiled
  BY <1>0, <1>1, <1>5 DEF AllFiled
<1>6. CASE PollDecided \/ PollFails \/ LastPoll \/ Expire \/ Finish
  <2>1. /\ UNCHANGED <<queue, current>>
        /\ \/ phase = "drain" /\ current <= Len(queue) /\ phase' \in {"settle", "expire"}
           \/ phase = "drain" /\ phase' = "done"
           \/ phase = "expire" /\ phase' = "settle"
    BY <1>6 DEF PollDecided, PollFails, LastPoll, Expire, Finish
  <2> QED BY <1>0, <1>1, <2>1
<1>7. CASE Merge \/ Conflict \/ Hold \/ Abort
  <2>1. /\ phase = "settle" /\ current <= Len(queue) /\ UNCHANGED queue
        /\ \/ phase' = "drain" /\ current' = current + 1
           \/ phase' = "aborted"
    BY <1>0, <1>7 DEF Merge, Conflict, Hold, Abort
  <2> QED BY <1>0, <1>1, <2>1
<1> QED BY <1>2, <1>3, <1>4, <1>5, <1>6, <1>7 DEF Drain

\* A generation takes a bounded number of steps, whatever the scores and the
\* reviewers: what the threads and phase 2 have left only goes down.  With the
\* fairness of FairSpec that is why it ends.
THEOREM GenerationTakesBoundedSteps == Spec => GenerationIsBounded
<1>1. IInv /\ [Next]_vars =>
        [\/ /\ \E c \in Candidate :
                 /\ ThreadLeft(c)' \in 0..(ThreadLeft(c) - 1)
                 /\ \A d \in Candidate \ {c} : ThreadLeft(d)' = ThreadLeft(d)
            /\ DrainLeft' = DrainLeft
         \/ /\ DrainLeft' \in 0..(DrainLeft - 1)
            /\ \A c \in Candidate : ThreadLeft(c)' = ThreadLeft(c)
         \/ /\ \E c \in Candidate : row[c] = "pending" /\ row'[c] # "pending"
            /\ DrainLeft' = DrainLeft
            /\ \A c \in Candidate : ThreadLeft(c)' = ThreadLeft(c)]_vars
  <2> SUFFICES ASSUME IInv, [Next]_vars
               PROVE  [\/ /\ \E c \in Candidate :
                               /\ ThreadLeft(c)' \in 0..(ThreadLeft(c) - 1)
                               /\ \A d \in Candidate \ {c} : ThreadLeft(d)' = ThreadLeft(d)
                          /\ DrainLeft' = DrainLeft
                       \/ /\ DrainLeft' \in 0..(DrainLeft - 1)
                          /\ \A c \in Candidate : ThreadLeft(c)' = ThreadLeft(c)
                       \/ /\ \E c \in Candidate : row[c] = "pending" /\ row'[c] # "pending"
                          /\ DrainLeft' = DrainLeft
                          /\ \A c \in Candidate : ThreadLeft(c)' = ThreadLeft(c)]_vars
    OBVIOUS
  <2>1. CASE \E c \in Candidate : Thread(c)
    BY <2>1, ThreadAdvances DEF IInv
  <2>2. CASE Drain \/ PollFails
    BY <2>2, DrainAdvances DEF IInv
  <2>3. ASSUME NEW c \in Candidate, NEW d \in {"approved", "rejected"}, HumanDecides(c, d)
        PROVE  /\ \E b \in Candidate : row[b] = "pending" /\ row'[b] # "pending"
               /\ DrainLeft' = DrainLeft
               /\ \A b \in Candidate : ThreadLeft(b)' = ThreadLeft(b)
    <3>1. row[c] = "pending" /\ row'[c] # "pending"
      BY <2>3 DEF HumanDecides, Register!Settle, IInv, Typed, RowTyped, Register!TypeOK
    <3>2. UNCHANGED <<phase, queue, current, pc, stage>>
      BY <2>3 DEF HumanDecides, serial, thread
    <3> QED BY <3>1, <3>2 DEF DrainLeft, ThreadLeft
  <2> QED BY <2>1, <2>2, <2>3 DEF Next
<1> QED BY <1>1, Invariant, PTL DEF Spec, GenerationIsBounded

-----------------------------------------------------------------------------
(* The flags *)

\* No two threads stand between the call of evaluate_stage and the read of the
\* flag that follows it.  With one worker they cannot.
ReadAlone ==
  \A c, d \in Candidate : pc[c] = "evaluated" /\ pc[d] = "evaluated" => c = d

OneAtATime == max_workers = 1 => \A c, d \in Busy : c = d

\* Then the flag that waits to be read is the candidate's own, and whoever lied
\* is flagged once it is read.
Flagged ==
  /\ phase = "evaluate" => \A c \in Candidate : decision[c] # "auto_approved"
  /\ \A c \in Candidate :
       /\ lied[c] => has_failure_flags[c] \/ (pc[c] = "evaluated" /\ last_stage_flag)
       /\ decision[c] = "auto_approved" => ~lied[c]

\* A thread of a pool of one starts when no other is under way.
LEMMA OneAtATimeStays == OneAtATime /\ IInv /\ [Next]_vars => OneAtATime'
<1> SUFFICES ASSUME OneAtATime, IInv, [Next]_vars, max_workers' = 1 PROVE \A c, d \in Busy' : c = d
  BY DEF OneAtATime
<1>0. pc \in [Candidate -> {"queued", "running", "evaluated", "judging", "returned"}]
  BY DEF IInv, Typed, ThreadTyped
<1> USE DEF thread, settings
<1>1. ASSUME NEW c \in Candidate, Start(c) PROVE \A a, b \in Busy' : a = b
  <2>1. max_workers = 1 /\ Cardinality(Busy) < 1 /\ pc' = [pc EXCEPT ![c] = "running"]
    BY <1>1 DEF Start, Goto
  <2>2. IsFiniteSet(Busy)
    BY CandidateAssumption, FS_Subset DEF Busy
  <2>3. Busy = {}
    <3>1. Cardinality(Busy) \in Nat
      BY <2>2, FS_CardinalityType
    <3>2. Cardinality(Busy) = 0
      BY <2>1, <3>1
    <3> QED BY <2>2, <3>2, FS_EmptySet
  <2>4. Busy' \subseteq Busy \cup {c}
    BY <1>0, <2>1 DEF Busy
  <2> QED BY <2>3, <2>4
<1>2. ASSUME NEW c \in Candidate, Thread(c), ~Start(c) PROVE \A a, b \in Busy' : a = b
  <2>1. /\ max_workers = 1 /\ c \in Busy
        /\ \E l \in {"running", "evaluated", "judging", "returned"} : pc' = [pc EXCEPT ![c] = l]
    BY <1>2 DEF Thread, Fail, StageCrashes, StageScored, ReadFlags, Judge, Goto, Busy
  <2>2. Busy' \subseteq Busy
    BY <1>0, <2>1 DEF Busy
  <2> QED BY <2>1, <2>2 DEF OneAtATime
<1>3. CASE Drain \/ PollFails
  <2>1. UNCHANGED <<pc, max_workers>>
    BY <1>3 DEF Drain, Barrier, File, AutoApprove, AllFiled, PollDecided, PollFails, LastPoll,
                Expire, Merge,
                Conflict, Hold, Abort, Finish
  <2> QED BY <2>1 DEF OneAtATime, Busy
<1>4. CASE UNCHANGED vars \/ \E c \in Candidate, d \in {"approved", "rejected"} : HumanDecides(c, d)
  <2>1. UNCHANGED <<pc, max_workers>>
    BY <1>4 DEF HumanDecides, vars
  <2> QED BY <2>1 DEF OneAtATime, Busy
<1> QED BY <1>1, <1>2, <1>3, <1>4 DEF Next

\* A crash leaves the flag of the stage before, which is read once more and
\* hides nothing.
LEMMA FlaggedStays == Flagged /\ ReadAlone' /\ IInv /\ [Next]_vars => Flagged'
<1> SUFFICES ASSUME Flagged, ReadAlone', IInv, [Next]_vars PROVE Flagged'
  OBVIOUS
<1>0. /\ pc \in [Candidate -> {"queued", "running", "evaluated", "judging", "returned"}]
      /\ has_failure_flags \in [Candidate -> BOOLEAN]
      /\ lied \in [Candidate -> BOOLEAN]
      /\ decision \in [Candidate -> {"none", "skipped", "unreadable"} \cup Register!Decision]
  BY DEF IInv, Typed, ThreadTyped, RowTyped
<1> USE DEF Flagged, thread, serial, settings, repo, Enter
<1>1. ASSUME NEW c \in Candidate, Thread(c) PROVE Flagged'
  <2>0. /\ UNCHANGED <<phase, decision>> /\ phase = "evaluate"
        /\ \A b \in Candidate : decision[b] # "auto_approved"
    BY <1>1, ThreadLeaves DEF IInv, Typed, QueueTyped
  <2>1. CASE Start(c) \/ Fail(c) \/ Judge(c)
    <3>1. /\ UNCHANGED <<lied, has_failure_flags, last_stage_flag>> /\ pc[c] # "evaluated"
          /\ \A b \in Candidate \ {c} : pc'[b] = pc[b]
      BY <1>0, <2>1 DEF Start, Fail, Judge, Goto
    <3> QED BY <2>0, <3>1
  <2>2. CASE StageCrashes(c)
    <3>1. /\ UNCHANGED <<lied, has_failure_flags, last_stage_flag>> /\ pc[c] = "running"
          /\ pc' = [pc EXCEPT ![c] = "evaluated"]
      BY <2>2 DEF StageCrashes, Goto
    <3> QED BY <1>0, <2>0, <3>1
  <2>3. ASSUME NEW s \in Score, NEW m \in BOOLEAN, StageScored(c, s, m) PROVE Flagged'
    <3>1. /\ UNCHANGED has_failure_flags /\ last_stage_flag' = m /\ pc[c] = "running"
          /\ lied' = [lied EXCEPT ![c] = @ \/ m]
          /\ pc' = [pc EXCEPT ![c] = "evaluated"]
      BY <2>3 DEF StageScored, Goto
    <3>2. /\ \A b \in Candidate \ {c} : lied'[b] = lied[b] /\ pc'[b] = pc[b]
          /\ lied'[c] => lied[c] \/ m
          /\ pc'[c] = "evaluated"
      BY <1>0, <3>1
    <3>3. \A b \in Candidate \ {c} : pc[b] # "evaluated"
      BY <3>2 DEF ReadAlone
    <3> QED BY <2>0, <3>1, <3>2, <3>3
  <2>4. CASE ReadFlags(c)
    <3>1. /\ UNCHANGED <<lied, last_stage_flag>> /\ pc[c] = "evaluated"
          /\ \A b \in Candidate \ {c} : pc'[b] = pc[b] /\ has_failure_flags'[b] = has_failure_flags[b]
          /\ has_failure_flags[c] \/ last_stage_flag => has_failure_flags'[c]
      BY <1>0, <2>4 DEF ReadFlags, Goto
    <3> QED BY <2>0, <3>1
  <2> QED BY <1>1, <2>1, <2>2, <2>3, <2>4 DEF Thread
<1>2. CASE Drain \/ PollFails
  <2>1. /\ UNCHANGED <<pc, lied, has_failure_flags, last_stage_flag>>
        /\ phase' # "evaluate"
        /\ \A c \in Candidate : pc[c] = "returned"
    <3>1. CASE \/ Barrier \/ File \/ AutoApprove \/ AllFiled \/ PollDecided \/ PollFails
               \/ LastPoll \/ Expire
      BY <3>1 DEF Barrier, File, AutoApprove, AllFiled, PollDecided, PollFails, LastPoll, Expire,
                  IInv, Typed,
                  QueueTyped
    <3>2. CASE Merge \/ Conflict \/ Hold \/ Abort \/ Finish
      BY <3>2 DEF Merge, Conflict, Hold, Abort, Finish, IInv, Typed, QueueTyped
    <3> QED BY <1>2, <3>1, <3>2 DEF Drain
  <2>2. ASSUME NEW c \in Candidate, decision'[c] = "auto_approved" PROVE ~lied[c]
    <3>1. CASE decision[c] = "auto_approved"
      BY <2>2, <3>1
    <3>2. CASE decision[c] # "auto_approved"
      <4>1. CASE AutoApprove
        BY <1>0, <2>1, <2>2, <3>2, <4>1 DEF AutoApprove, should_auto_approve
      <4>2. CASE PollDecided
        <5>1. decision[c] = "auto_approved" \/ row[c] = "auto_approved"
          BY <1>0, <2>2, <4>2 DEF PollDecided
        <5> QED BY <3>2, <5>1 DEF IInv, Decided
      <4>3. CASE File
        BY <1>0, <2>2, <3>2, <4>3 DEF File
      <4>4. CASE Expire
        BY <1>0, <2>2, <3>2, <4>4 DEF Expire
      <4>5. CASE PollFails
        BY <1>0, <2>2, <3>2, <4>5 DEF PollFails
      <4>6. CASE \/ Barrier \/ AllFiled \/ LastPoll \/ Merge \/ Conflict \/ Hold \/ Abort \/ Finish
        BY <2>2, <3>2, <4>6 DEF Barrier, AllFiled, LastPoll, Merge, Conflict, Hold, Abort, Finish
      <4> QED BY <1>2, <4>1, <4>2, <4>3, <4>4, <4>5, <4>6 DEF Drain
    <3> QED BY <3>1, <3>2
  <2> QED BY <2>1, <2>2
<1>3. CASE UNCHANGED vars \/ \E c \in Candidate, d \in {"approved", "rejected"} : HumanDecides(c, d)
  BY <1>3 DEF HumanDecides, vars
<1> QED BY <1>1, <1>2, <1>3 DEF Next

\* The generation starts with nobody flagged and nobody to be flagged.
LEMMA FlaggedInit == Init => OneAtATime /\ Flagged
BY DEF Init, OneAtATime, Flagged, Busy

\* With one worker nobody who claimed a score other than its own is approved
\* without a human (evaluate_only, maybe_auto_approve).
THEOREM AutoApprovalsAreHonest == Spec => []AutoApprovedIsHonest
<1> DEFINE Alone == max_workers = 1 => Flagged
<1>1. Init => OneAtATime /\ Alone
  BY FlaggedInit
<1>2. OneAtATime' => (max_workers = 1 => ReadAlone)'
  BY DEF OneAtATime, ReadAlone, Busy
<1>3. [Next]_vars => UNCHANGED max_workers
  <2>1. ASSUME NEW c \in Candidate, Thread(c) PROVE UNCHANGED max_workers
    BY <2>1, ThreadLeaves DEF settings
  <2>2. CASE Drain \/ PollFails
    BY <2>2 DEF Drain, Barrier, File, AutoApprove, AllFiled, PollDecided, PollFails, LastPoll,
                Expire, Merge,
                Conflict, Hold, Abort, Finish, settings
  <2>3. CASE UNCHANGED vars \/ \E c \in Candidate, d \in {"approved", "rejected"} : HumanDecides(c, d)
    BY <2>3 DEF HumanDecides, vars, settings
  <2> QED BY <2>1, <2>2, <2>3 DEF Next
<1>4. Alone /\ OneAtATime' /\ IInv /\ [Next]_vars => Alone'
  BY <1>2, <1>3, FlaggedStays
<1>5. Alone => AutoApprovedIsHonest
  BY DEF Flagged, AutoApprovedIsHonest
<1> HIDE DEF Alone
<1> QED BY <1>1, <1>4, <1>5, OneAtATimeStays, Invariant, PTL DEF Spec

-----------------------------------------------------------------------------
(* How far the two refuted claims do hold *)

\* Whatever max_workers is, the flag is misread only when two threads are
\* between the call and the read at once: where no two ever are, no candidate
\* that lied is approved without a human (evaluate_only, last_stage_flags).
THEOREM FlagIsOwnWhenReadAlone == Spec /\ []ReadAlone => []FlagIsOwn
<1>1. Flagged => FlagIsOwn
  BY DEF Flagged, FlagIsOwn
<1> QED BY <1>1, FlaggedInit, FlaggedStays, Invariant, PTL DEF Spec

\* Only the settling of a candidate adds to what is merged.
LEMMA OnlySettlingMerges ==
  ASSUME IInv, [Next]_vars
  PROVE  Merged' = Merged \/ Merge \/ Conflict \/ Hold \/ Abort
<1>1. ASSUME NEW b \in Candidate, Thread(b) PROVE Merged' = Merged
  BY <1>1, ThreadLeaves DEF Merged
<1>2. CASE \/ Barrier \/ File \/ AutoApprove \/ AllFiled \/ PollDecided \/ PollFails
           \/ LastPoll \/ Expire \/ Finish
  BY <1>2 DEF Barrier, File, AutoApprove, AllFiled, PollDecided, PollFails, LastPoll, Expire,
              Finish,
              Merged, repo
<1>3. CASE UNCHANGED vars \/ \E b \in Candidate, d \in {"approved", "rejected"} : HumanDecides(b, d)
  BY <1>3 DEF HumanDecides, vars, Merged, repo
<1> QED BY <1>1, <1>2, <1>3 DEF Next, Drain

\* The first candidate a generation merges does beat the best score merged so
\* far (execute_generation, the baseline gate of evaluate_only).
LEMMA FirstMergeBeats ==
  ASSUME IInv, Best, [Next]_vars, Merged = {}, NEW c \in Candidate, c \in Merged'
  PROVE  final_score[c] > baseline + min_improvement
<1>1. phase = "settle" /\ c \in ToSet(queue)
  BY OnlySettlingMerges, SettleStep DEF IInv
<1>2. baseline = StartBaseline
  BY <1>1 DEF Best
<1> QED BY <1>1, <1>2 DEF IInv, Queued, Passed

\* What is refuted is said of the second: with one merge to a generation every
\* merge beats the best score ever merged.
THEOREM OneMergeBeatsBaseline ==
  Spec /\ [](\A c, d \in Merged : c = d) => MergeBeatsBaseline
<1> DEFINE Once == \A c, d \in Merged : c = d
           Beats == \A c \in Candidate :
                      c \in ToSet(history') \ Merged => final_score[c] > baseline + min_improvement
<1>1. Once' /\ IInv /\ Best /\ [Next]_vars => [Beats]_vars
  <2> SUFFICES ASSUME Once', IInv, Best, [Next]_vars,
                      NEW c \in Candidate, c \in Merged', c \notin Merged
               PROVE  final_score[c] > baseline + min_improvement
    BY DEF Merged
  <2>1. Merged \subseteq Merged'
    BY OnlySettlingMerges, SettleStep DEF IInv
  <2>2. Merged = {}
    BY <2>1
  <2> QED BY <2>2, FirstMergeBeats
<1>2. Init => Best
  BY BestInit
<1> HIDE DEF Once, Beats
<1> QED BY <1>1, <1>2, BestStays, Invariant, PTL DEF Spec, MergeBeatsBaseline, Once, Beats
=============================================================================
