------------------------ MODULE ApprovalGateProofs -------------------------
(***************************************************************************)
(* What is proved of ApprovalGate for every set of requests, every window  *)
(* and every set of configurations.                                        *)
(***************************************************************************)
EXTENDS ApprovalGate, TLAPS

\* A request is filed before anything else happens to it, and filed once.
Filed ==
  \A r \in Request :
    /\ pc[r] = "idle" => row[r] = "absent"
    /\ pc[r] \in {"created", "polling", "checked"} => row[r] # "absent"

\* The caller's clock never runs ahead of the row's.
WaitWithinAge ==
  \A r \in Request : pc[r] \in {"polling", "checked"} => waited[r] <= age[r]

\* A clean-up only ever holds rows whose whole window has passed.
SelectedAreStale ==
  \A p \in Sweeper : \A r \in todo[p] : row[r] # "absent" /\ age[r] >= Timeout

IInv ==
  /\ TypeOK
  /\ Filed
  /\ WaitWithinAge
  /\ SelectedAreStale
  /\ AnswerIsRecorded
  /\ NothingLeftOpen

-----------------------------------------------------------------------------
\* Every variable of the gate, the store and the clean-ups keeps its type; the
\* type invariant is inductive on its own.
THEOREM TypeCorrect == Spec => []TypeOK
<1> USE TimeoutAssumption, ConfigAssumption
<1>1. Init => TypeOK
  BY DEF Init, TypeOK, Status, PC, Sweeper
<1>2. TypeOK /\ [Next]_vars => TypeOK'
  <2> SUFFICES ASSUME TypeOK, [Next]_vars PROVE TypeOK'
    OBVIOUS
  <2> USE DEF TypeOK, Status, PC, Decision, Sweeper, store, caller, sweeps
  <2>1. ASSUME NEW r \in Request, Gate(r) PROVE TypeOK'
    <3>1. CASE Create(r)
      BY <3>1 DEF Create
    <3>2. CASE Skip(r)
      BY <3>2 DEF Skip, Answer
    <3>3. CASE AutoApprove(r)
      BY <3>3 DEF AutoApprove, Answer, Decided
    <3>4. CASE StartAwait(r)
      BY <3>4 DEF StartAwait
    <3>5. CASE PollDecided(r)
      BY <3>5 DEF PollDecided, Answer
    <3>6. CASE PollPending(r)
      BY <3>6 DEF PollPending
    <3>7. CASE PollFails(r)
      BY <3>7 DEF PollFails, Answer
    <3>8. CASE Expire(r)
      BY <3>8 DEF Expire, Answer, Decided
    <3>9. CASE Sleep(r)
      BY <3>9 DEF Sleep
    <3> QED
      BY <2>1, <3>1, <3>2, <3>3, <3>4, <3>5, <3>6, <3>7, <3>8, <3>9 DEF Gate
  <2>2. ASSUME NEW r \in Request, Human(r) PROVE TypeOK'
    BY <2>2 DEF Human, HumanDecides, Decided
  <2>3. CASE Recovery
    <3>1. ASSUME NEW c \in Configs, Restart(c) PROVE TypeOK'
      BY <3>1 DEF Restart, BeginSweep, Stale
    <3>2. CASE StartCommand
      BY <3>2 DEF StartCommand, BeginSweep, Stale
    <3>3. CASE KillCommand
      BY <3>3 DEF KillCommand
    <3>4. ASSUME NEW p \in Sweeper, FinishSweep(p) PROVE TypeOK'
      BY <3>4 DEF FinishSweep
    <3>5. ASSUME NEW p \in Sweeper, NEW r \in Request, SweepRow(p, r) PROVE TypeOK'
      BY <3>5 DEF SweepRow, Decided
    <3> QED
      BY <2>3, <3>1, <3>2, <3>3, <3>4, <3>5 DEF Recovery
  <2>4. CASE Crash
    <3>1. waited' \in [Request -> 0..Timeout]
      BY <2>4 DEF Crash
    <3>2. pc' \in [Request -> PC]
      BY <2>4 DEF Crash
    <3>3. todo' \in [Sweeper -> SUBSET Request] /\ active' \subseteq Sweeper
      BY <2>4 DEF Crash
    <3> QED
      BY <2>4, <3>1, <3>2, <3>3 DEF Crash
  <2>5. CASE Tick
    BY <2>5 DEF Tick, Ageing, Waiting
  <2>6. CASE UNCHANGED vars
    BY <2>6 DEF vars
  <2> QED
    BY <2>1, <2>2, <2>3, <2>4, <2>5, <2>6 DEF Next
<1> QED
  BY <1>1, <1>2, PTL DEF Spec

-----------------------------------------------------------------------------
\* The remaining conjuncts need each other, and the types.
LEMMA Inductive == Spec => []IInv
<1> USE TimeoutAssumption
<1>1. Init => Filed /\ WaitWithinAge /\ SelectedAreStale
                /\ AnswerIsRecorded /\ NothingLeftOpen
  BY DEF Init, Filed, WaitWithinAge, SelectedAreStale, AnswerIsRecorded, NothingLeftOpen
<1>2. TypeOK' /\ IInv /\ [Next]_vars => IInv'
  <2> SUFFICES ASSUME TypeOK', IInv, [Next]_vars PROVE IInv'
    OBVIOUS
  <2> USE DEF IInv, Filed, WaitWithinAge, SelectedAreStale, AnswerIsRecorded,
              NothingLeftOpen, TypeOK, Status, PC, Decision, store, caller, sweeps
  <2>1. ASSUME NEW r \in Request, Gate(r) PROVE IInv'
    <3>1. CASE Create(r)
      BY <3>1 DEF Create
    <3>2. CASE Skip(r)
      BY <3>2 DEF Skip, Answer
    <3>3. CASE AutoApprove(r)
      BY <3>3 DEF AutoApprove, Answer, Decided
    <3>4. CASE StartAwait(r)
      BY <3>4 DEF StartAwait
    <3>5. CASE PollDecided(r)
      BY <3>5 DEF PollDecided, Answer
    <3>6. CASE PollPending(r)
      BY <3>6 DEF PollPending
    <3>7. CASE PollFails(r)
      BY <3>7 DEF PollFails, Answer
    <3>8. CASE Expire(r)
      BY <3>8 DEF Expire, Answer, Decided
    <3>9. CASE Sleep(r)
      BY <3>9 DEF Sleep
    <3> QED
      BY <2>1, <3>1, <3>2, <3>3, <3>4, <3>5, <3>6, <3>7, <3>8, <3>9 DEF Gate
  <2>2. ASSUME NEW r \in Request, Human(r) PROVE IInv'
    BY <2>2 DEF Human, HumanDecides, Decided
  <2>3. CASE Recovery
    <3>1. ASSUME NEW c \in Configs, Restart(c) PROVE IInv'
      BY <3>1 DEF Restart, BeginSweep, Stale
    <3>2. CASE StartCommand
      BY <3>2 DEF StartCommand, BeginSweep, Stale
    <3>3. CASE KillCommand
      BY <3>3 DEF KillCommand
    <3>4. ASSUME NEW p \in Sweeper, FinishSweep(p) PROVE IInv'
      BY <3>4 DEF FinishSweep
    <3>5. ASSUME NEW p \in Sweeper, NEW r \in Request, SweepRow(p, r) PROVE IInv'
      BY <3>5 DEF SweepRow, Decided
    <3> QED
      BY <2>3, <3>1, <3>2, <3>3, <3>4, <3>5 DEF Recovery
  <2>4. CASE Crash
    BY <2>4 DEF Crash
  <2>5. CASE Tick
    BY <2>5 DEF Tick, Ageing, Waiting
  <2>6. CASE UNCHANGED vars
    BY <2>6 DEF vars
  <2> QED
    BY <2>1, <2>2, <2>3, <2>4, <2>5, <2>6 DEF Next
<1> QED
  BY TypeCorrect, <1>1, <1>2, PTL DEF Spec, IInv

-----------------------------------------------------------------------------
\* A caller told "approved" or "rejected" was told what the store records, for
\* good: no merge on "approved" without a recorded human approval.
THEOREM AnswersAreRecorded == Spec => []AnswerIsRecorded
  BY Inductive, PTL DEF IInv

\* With a readable store, a caller that has its answer leaves no open row.
THEOREM AnsweredIsClosed == Spec => []NothingLeftOpen
  BY Inductive, PTL DEF IInv

\* Only rows whose whole window has passed are ever timed out, by the caller,
\* by start-up recovery, or by a clean-up run beside it.
THEOREM ReviewersHaveTheWindow == Spec => FullWindow
<1>1. IInv /\ [Next]_vars =>
        [\A r \in Request :
           row[r] = "pending" /\ row'[r] = "timed_out" => age[r] >= Timeout]_vars
  <2> SUFFICES ASSUME IInv, Next, NEW s \in Request,
                      row[s] = "pending", row'[s] = "timed_out"
               PROVE  age[s] >= Timeout
    OBVIOUS
  <2> USE TimeoutAssumption
  <2> USE DEF IInv, TypeOK, store
  <2>1. ASSUME NEW r \in Request, Gate(r) PROVE age[s] >= Timeout
    <3>1. CASE Expire(r)
      BY <3>1 DEF Expire, Decided, WaitWithinAge
    <3>2. CASE PollDecided(r) \/ PollPending(r) \/ PollFails(r) \/ Sleep(r)
      BY <3>2 DEF PollDecided, PollPending, PollFails, Sleep
    <3>3. CASE Create(r) \/ Skip(r) \/ AutoApprove(r) \/ StartAwait(r)
      BY <3>3 DEF Create, Skip, AutoApprove, StartAwait, Decided
    <3> QED
      BY <2>1, <3>1, <3>2, <3>3 DEF Gate
  <2>2. ASSUME NEW r \in Request, Human(r) PROVE age[s] >= Timeout
    BY <2>2 DEF Human, HumanDecides, Decided
  <2>3. CASE Recovery
    <3>1. ASSUME NEW p \in Sweeper, NEW r \in Request, SweepRow(p, r)
          PROVE  age[s] >= Timeout
      BY <3>1 DEF SweepRow, Decided, SelectedAreStale
    <3>2. ASSUME row' = row PROVE age[s] >= Timeout
      BY <3>2
    <3> QED
      BY <2>3, <3>1, <3>2
         DEF Recovery, Restart, StartCommand, KillCommand, FinishSweep
  <2>4. CASE Crash
    BY <2>4 DEF Crash
  <2>5. CASE Tick
    BY <2>5 DEF Tick
  <2> QED
    BY <2>1, <2>2, <2>3, <2>4, <2>5 DEF Next
<1> QED
  BY <1>1, Inductive, PTL DEF Spec, FullWindow

\* The gate, the dashboard and the clean-ups together implement the write-once
\* register: every step opens one request, settles one pending request, or
\* leaves the status column alone.
THEOREM GateImplementsRegister == Spec => ImplementsRegister
<1>1. Init => Register!Init
  BY DEF Init, Register!Init
<1>2. IInv /\ [Next]_vars => [Register!Next]_row
  <2> SUFFICES ASSUME IInv, Next PROVE Register!Next \/ UNCHANGED row
    BY DEF vars, store
  <2> USE DEF IInv, TypeOK, store
  <2>1. ASSUME NEW r \in Request, NEW d \in Decision, row' = Decided(r, d)
        PROVE  Register!Next \/ UNCHANGED row
    <3>1. CASE row[r] = "pending"
      BY <2>1, <3>1 DEF Decided, Decision, Register!Next, Register!Settle, Register!Decision
    <3>2. CASE row[r] # "pending"
      BY <2>1, <3>2 DEF Decided
    <3> QED
      BY <3>1, <3>2
  <2>2. ASSUME NEW r \in Request, Gate(r) PROVE Register!Next \/ UNCHANGED row
    <3>1. CASE Create(r)
      BY <3>1 DEF Create, Filed, Register!Next, Register!Open
    <3>2. CASE AutoApprove(r) \/ Expire(r)
      BY <3>2, <2>1 DEF AutoApprove, Expire, Decision
    <3>3. CASE row' = row
      BY <3>3
    <3> QED
      BY <2>2, <3>1, <3>2, <3>3
         DEF Gate, Skip, StartAwait, PollDecided, PollPending, PollFails, Sleep
  <2>3. ASSUME NEW r \in Request, Human(r) PROVE Register!Next \/ UNCHANGED row
    BY <2>3, <2>1 DEF Human, HumanDecides, Decision
  <2>4. CASE Recovery
    <3>1. ASSUME NEW p \in Sweeper, NEW r \in Request, SweepRow(p, r)
          PROVE  Register!Next \/ UNCHANGED row
      BY <3>1, <2>1 DEF SweepRow, Decision
    <3>2. CASE row' = row
      BY <3>2
    <3> QED
      BY <2>4, <3>1, <3>2
         DEF Recovery, Restart, StartCommand, KillCommand, FinishSweep
  <2>5. CASE Crash \/ Tick
    BY <2>5 DEF Crash, Tick
  <2> QED
    BY <2>2, <2>3, <2>4, <2>5 DEF Next
<1> QED
  BY <1>1, <1>2, Inductive, PTL DEF Spec, ImplementsRegister, Register!Spec

-----------------------------------------------------------------------------
(* How far AutoApprovedNotRejected is from holding *)

\* No row is decided between its filing and the caller's own decision.
Undisturbed ==
  [][\A r \in Request : pc[r] = "created" => row'[r] = row[r] \/ pc'[r] # "created"]_vars

\* An automatic approval is in the store.
AutoApprovedIsRecorded ==
  \A r \in Request : answer[r] = "auto_approved" => row[r] = "auto_approved"

\* What was just filed is open, and an automatic approval is in the store.
Settled ==
  AutoApprovedIsRecorded /\ \A r \in Request : pc[r] = "created" => row[r] = "pending"

\* Settled is kept by every step that decides no row just filed.
LEMMA SettledStays ==
  ASSUME IInv, Settled, [Next]_vars,
         \A r \in Request : pc[r] = "created" => row'[r] = row[r] \/ pc'[r] # "created"
  PROVE  Settled'
<1> USE DEF IInv, TypeOK, Settled, AutoApprovedIsRecorded, store, caller
<1>1. ASSUME NEW r \in Request, Gate(r) PROVE Settled'
  <2>1. CASE Create(r)
    BY <1>1, <2>1 DEF Create, Filed
  <2>2. CASE AutoApprove(r) \/ Expire(r)
    BY <1>1, <2>2 DEF AutoApprove, Expire, Answer, Decided
  <2>3. CASE Skip(r) \/ StartAwait(r) \/ PollDecided(r) \/ PollPending(r) \/ PollFails(r) \/ Sleep(r)
    BY <1>1, <2>3 DEF Skip, StartAwait, PollDecided, PollPending, PollFails, Sleep, Answer
  <2> QED BY <1>1, <2>1, <2>2, <2>3 DEF Gate
<1>2. ASSUME NEW r \in Request, NEW d \in Decision, row' = Decided(r, d), UNCHANGED <<pc, answer>>
      PROVE  Settled'
  BY <1>2 DEF Decided
<1>3. CASE UNCHANGED <<row, pc, answer>>
  BY <1>3
<1>4. ASSUME NEW r \in Request, Human(r) PROVE Settled'
  BY <1>2, <1>4 DEF Human, HumanDecides, Decision
<1>5. CASE Recovery
  <2>1. ASSUME NEW p \in Sweeper, NEW r \in Request, SweepRow(p, r) PROVE Settled'
    BY <1>2, <2>1 DEF SweepRow, Decision
  <2> QED BY <1>3, <1>5, <2>1 DEF Recovery, Restart, StartCommand, KillCommand, FinishSweep
<1>6. CASE Crash
  BY <1>6 DEF Crash
<1>7. CASE Tick \/ UNCHANGED vars
  BY <1>3, <1>7 DEF Tick, vars
<1> QED BY <1>1, <1>4, <1>5, <1>6, <1>7 DEF Next

\* Where nobody decides a request between the INSERT and the UPDATE, the caller
\* is told "auto_approved" only of what was (maybe_auto_approve), hence of nothing
\* rejected: the outcome it ignores matters in that gap and nowhere else.
THEOREM AutoApprovalsAreDecided ==
  Spec /\ Undisturbed => [](AutoApprovedIsRecorded /\ AutoApprovedNotRejected)
<1> DEFINE Quiet == \A r \in Request : pc[r] = "created" => row'[r] = row[r] \/ pc'[r] # "created"
<1>1. Init => Settled
  BY DEF Init, Settled, AutoApprovedIsRecorded
<1>2. IInv /\ Settled /\ [Next]_vars /\ [Quiet]_vars => Settled'
  <2>1. CASE UNCHANGED vars
    BY <2>1 DEF vars, store, caller, Settled, AutoApprovedIsRecorded
  <2>2. CASE Quiet
    BY <2>2, SettledStays
  <2> QED BY <2>1, <2>2
<1>3. Settled => AutoApprovedIsRecorded /\ AutoApprovedNotRejected
  BY DEF Settled, AutoApprovedIsRecorded, AutoApprovedNotRejected
<1> HIDE DEF Quiet
<1>4. Spec /\ [][Quiet]_vars => [](AutoApprovedIsRecorded /\ AutoApprovedNotRejected)
  BY <1>1, <1>2, <1>3, Inductive, PTL DEF Spec
<1> QED BY <1>4 DEF Undisturbed, Quiet
=============================================================================
