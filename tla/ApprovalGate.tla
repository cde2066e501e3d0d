---------------------------- MODULE ApprovalGate ----------------------------
(***************************************************************************)
(* The human-approval gate (approval/gate.py) over the SQLite store shared *)
(* by three kinds of process (approval/store.py):                          *)
(*                                                                         *)
(*   - the orchestrator, which creates a request per candidate and polls   *)
(*     it until somebody decides or the window elapses;                    *)
(*   - the dashboard (api/main.py), where a human approves or rejects;     *)
(*   - crash recovery, at start-up and as the `cleanup` subcommand, which  *)
(*     times out the rows a dead orchestrator left behind.                 *)
(*                                                                         *)
(* A read of the store and the write that acts on it are separate steps,   *)
(* as they are separate transactions.  Time is kept as the age of a row    *)
(* and the time a caller has waited, both capped at Timeout: the code only *)
(* ever asks whether they have reached it.                                 *)
(***************************************************************************)
EXTENDS Integers

CONSTANTS
  Request,       \* the candidates that reach the gate; each is filed once
  Timeout,       \* approval.timeout_seconds, in ticks
  Configs        \* resolved configurations an operator may start a run with

Sweeper == {"startup", "command"}

\* approval.enabled, and whether auto_approve has a valid threshold.  Which
\* candidates clear the threshold is GateConfig's subject; here any may.
ConfigType == [enabled: BOOLEAN, auto: BOOLEAN]

ASSUME TimeoutAssumption == Timeout \in Nat \ {0}
ASSUME ConfigAssumption == Configs \subseteq ConfigType

VARIABLES
  row,       \* the status column of each request, "absent" before the INSERT
  age,       \* ticks since created_at, capped at Timeout
  pc,        \* where the caller is with the request
  waited,    \* ticks since await_approval_decision computed its deadline
  answer,    \* what the gate returned to its caller
  config,    \* the configuration of the present orchestrator run
  up,        \* the orchestrator process is alive
  active,    \* the clean-ups in progress
  todo       \* rows each clean-up has selected and not yet visited

store == <<row, age>>
caller == <<pc, waited, answer, config, up>>
sweeps == <<active, todo>>
vars == <<store, caller, sweeps>>

Decision == {"approved", "auto_approved", "rejected", "timed_out"}
Status == {"absent", "pending"} \cup Decision
PC == {"idle", "created", "polling", "checked", "answered", "lost"}

TypeOK ==
  /\ row \in [Request -> Status]
  /\ age \in [Request -> 0..Timeout]
  /\ pc \in [Request -> PC]
  /\ waited \in [Request -> 0..Timeout]
  /\ answer \in [Request -> Decision \cup {"none", "skipped", "unreadable"}]
  /\ config \in Configs
  /\ up \in BOOLEAN
  /\ active \subseteq Sweeper
  /\ todo \in [Sweeper -> SUBSET Request]

-----------------------------------------------------------------------------
(* The store *)

\* Mutant of Decided: the UPDATE without its status test.
DecidedAnyway(r, d) == [row EXCEPT ![r] = d]

\* ApprovalStore.decide: UPDATE ... WHERE id = ? AND status = 'pending'.
Decided(r, d) == [row EXCEPT ![r] = IF @ = "pending" THEN d ELSE @]

-----------------------------------------------------------------------------
(* The orchestrator's side *)

\* Start-up cleanup has to end before the run loop creates a request.
Running == up /\ "startup" \notin active

\* The gate returns: its deadline is forgotten.
Answer(r, a) ==
  /\ pc' = [pc EXCEPT ![r] = "answered"]
  /\ answer' = [answer EXCEPT ![r] = a]
  /\ waited' = [waited EXCEPT ![r] = 0]

\* create_approval_request with the gate enabled.
Create(r) ==
  /\ Running /\ config.enabled /\ pc[r] = "idle"
  /\ row' = [row EXCEPT ![r] = "pending"]
  /\ age' = [age EXCEPT ![r] = 0]
  /\ pc' = [pc EXCEPT ![r] = "created"]
  /\ UNCHANGED <<waited, answer, config, up, sweeps>>

\* The gate explicitly disabled: no row, the caller is told "skipped".
Skip(r) ==
  /\ Running /\ ~config.enabled /\ pc[r] = "idle"
  /\ Answer(r, "skipped")
  /\ UNCHANGED <<store, config, up, sweeps>>

\* maybe_auto_approve: what decide returns is not looked at.
AutoApprove(r) ==
  /\ Running /\ pc[r] = "created" /\ config.auto
  /\ row' = Decided(r, "auto_approved")
  /\ Answer(r, "auto_approved")
  /\ UNCHANGED <<age, config, up, sweeps>>

\* The candidate does not clear the threshold, if there is one, and
\* await_approval_decision starts: its deadline counts from here, not from
\* created_at.
StartAwait(r) ==
  /\ Running /\ pc[r] = "created"
  /\ waited' = [waited EXCEPT ![r] = 0]
  /\ pc' = [pc EXCEPT ![r] = "polling"]
  /\ UNCHANGED <<store, answer, config, up, sweeps>>

\* Mutant of PollDecided: the status is returned without being looked at.
PollUnlooked(r) ==
  /\ Running /\ pc[r] = "polling"
  /\ Answer(r, row[r])
  /\ UNCHANGED <<store, config, up, sweeps>>

\* A row that cannot be found counts as timed out.
PollDecided(r) ==
  /\ Running /\ pc[r] = "polling" /\ row[r] # "pending"
  /\ Answer(r, IF row[r] = "absent" THEN "timed_out" ELSE row[r])
  /\ UNCHANGED <<store, config, up, sweeps>>

PollPending(r) ==
  /\ Running /\ pc[r] = "polling" /\ row[r] = "pending"
  /\ pc' = [pc EXCEPT ![r] = "checked"]
  /\ UNCHANGED <<store, waited, answer, config, up, sweeps>>

\* get_request raises: hold, without recording anything.  The caller is told
\* "timed_out"; the model calls that answer "unreadable".
PollFails(r) ==
  /\ Running /\ pc[r] = "polling"
  /\ Answer(r, "unreadable")
  /\ UNCHANGED <<store, config, up, sweeps>>

\* Mutant of Expire: the hold is not recorded.
ExpireUnrecorded(r) ==
  /\ Running /\ pc[r] = "checked" /\ waited[r] >= Timeout
  /\ Answer(r, "timed_out")
  /\ UNCHANGED <<store, config, up, sweeps>>

\* Past the deadline the caller is told "timed_out" whatever decide returned.
Expire(r) ==
  /\ Running /\ pc[r] = "checked" /\ waited[r] >= Timeout
  /\ row' = Decided(r, "timed_out")
  /\ Answer(r, "timed_out")
  /\ UNCHANGED <<age, config, up, sweeps>>

\* Mutant of Sleep: the deadline is not looked at.
SleepAnyway(r) ==
  /\ Running /\ pc[r] = "checked"
  /\ pc' = [pc EXCEPT ![r] = "polling"]
  /\ UNCHANGED <<store, waited, answer, config, up, sweeps>>

Sleep(r) ==
  /\ Running /\ pc[r] = "checked" /\ waited[r] < Timeout
  /\ pc' = [pc EXCEPT ![r] = "polling"]
  /\ UNCHANGED <<store, waited, answer, config, up, sweeps>>

\* The process is killed, or an exception unwinds it: nobody awaits any more.
Crash ==
  /\ up
  /\ up' = FALSE
  /\ pc' = [r \in Request |->
              IF pc[r] \in {"created", "polling", "checked"} THEN "lost" ELSE pc[r]]
  /\ waited' = [r \in Request |-> 0]
  /\ active' = active \ {"startup"}
  /\ todo' = [todo EXCEPT !["startup"] = {}]
  /\ UNCHANGED <<store, answer, config>>

-----------------------------------------------------------------------------
(* Crash recovery *)

\* Mutants of Stale: the cutoff forgotten, and the cutoff missed.
StaleAnyAge == {r \in Request : row[r] = "pending"}
StaleNever == {r \in Request : row[r] = "pending" /\ age[r] > Timeout}

\* timeout_stale_requests: the cutoff is taken once, and the rows selected by
\* it are then decided one transaction at a time.
Stale == {r \in Request : row[r] = "pending" /\ age[r] >= Timeout}

BeginSweep(p) ==
  /\ active' = active \cup {p}
  /\ todo' = [todo EXCEPT ![p] = Stale]

\* A new run starts, perhaps with another configuration, and cleans up first.
Restart(c) ==
  /\ ~up
  /\ up' = TRUE
  /\ config' = c
  /\ BeginSweep("startup")
  /\ UNCHANGED <<store, pc, waited, answer>>

\* The `cleanup` subcommand, at any time, beside a live run too.
StartCommand ==
  /\ "command" \notin active
  /\ BeginSweep("command")
  /\ UNCHANGED <<store, caller>>

KillCommand ==
  /\ "command" \in active
  /\ active' = active \ {"command"}
  /\ todo' = [todo EXCEPT !["command"] = {}]
  /\ UNCHANGED <<store, caller>>

SweepRow(p, r) ==
  /\ p \in active /\ r \in todo[p]
  /\ row' = Decided(r, "timed_out")
  /\ todo' = [todo EXCEPT ![p] = @ \ {r}]
  /\ UNCHANGED <<age, caller, active>>

FinishSweep(p) ==
  /\ p \in active /\ todo[p] = {}
  /\ active' = active \ {p}
  /\ UNCHANGED <<store, caller, todo>>

-----------------------------------------------------------------------------
(* The dashboard, and the clock *)

\* POST /approvals/{id}/approve and /reject: the outcome of decide is not
\* looked at, the page is simply shown again.
HumanDecides(r, d) ==
  /\ row[r] # "absent"
  /\ row' = Decided(r, d)
  /\ UNCHANGED <<age, caller, sweeps>>

Ageing == {r \in Request : row[r] # "absent" /\ age[r] < Timeout}
Waiting == {r \in Request : pc[r] \in {"polling", "checked"} /\ waited[r] < Timeout}

Tick ==
  /\ Ageing \cup Waiting # {}
  /\ age' = [r \in Request |-> IF r \in Ageing THEN age[r] + 1 ELSE age[r]]
  /\ waited' = [r \in Request |-> IF r \in Waiting THEN waited[r] + 1 ELSE waited[r]]
  /\ UNCHANGED <<row, pc, answer, config, up, sweeps>>

-----------------------------------------------------------------------------
Init ==
  /\ row = [r \in Request |-> "absent"]
  /\ age = [r \in Request |-> 0]
  /\ pc = [r \in Request |-> "idle"]
  /\ waited = [r \in Request |-> 0]
  /\ answer = [r \in Request |-> "none"]
  /\ config \in Configs
  /\ up = TRUE
  /\ active = {"startup"}
  /\ todo = [p \in Sweeper |-> {}]

Gate(r) ==
  \/ Create(r)
  \/ Skip(r)
  \/ AutoApprove(r)
  \/ StartAwait(r)
  \/ PollDecided(r)
  \/ PollPending(r)
  \/ PollFails(r)
  \/ Expire(r)
  \/ Sleep(r)

Human(r) == \E d \in {"approved", "rejected"} : HumanDecides(r, d)

Recovery ==
  \/ \E c \in Configs : Restart(c)
  \/ StartCommand
  \/ KillCommand
  \/ \E p \in Sweeper : FinishSweep(p) \/ \E r \in Request : SweepRow(p, r)

Next ==
  \/ \E r \in Request : Gate(r) \/ Human(r)
  \/ Recovery
  \/ Crash
  \/ Tick

Spec == Init /\ [][Next]_vars

\* Time passes, and a live caller keeps going round its polling loop.  Nothing
\* obliges a human to answer, an operator to restart, or a run to survive.
Polls(r) ==
  AutoApprove(r) \/ StartAwait(r) \/ PollDecided(r) \/ PollPending(r) \/ Expire(r) \/ Sleep(r)

Fairness == WF_vars(Tick) /\ \A r \in Request : WF_vars(Polls(r))

FairSpec == Spec /\ Fairness
-----------------------------------------------------------------------------
(* Properties *)

\* Whatever the orchestrator, the dashboard and the clean-ups do in whatever
\* order, the status column behaves as a write-once register: ApprovalStore.
\* decide never lets a late click override a timeout, or a timeout a click.
Register == INSTANCE ApprovalRegister WITH verdict <- row
ImplementsRegister == Register!Spec

\* A reviewer always gets the whole window: neither the waiting caller, whose
\* clock starts later than the row's, nor a clean-up running beside it ever
\* times out a row younger than timeout_seconds.
FullWindow ==
  [][\A r \in Request :
       row[r] = "pending" /\ row'[r] = "timed_out" => age[r] >= Timeout]_vars

\* A caller told "approved" or "rejected" was told what the store says, then
\* and ever after: a merge on "approved" is backed by a recorded approval.
AnswerIsRecorded ==
  \A r \in Request : answer[r] \in {"approved", "rejected"} => row[r] = answer[r]

\* Once the caller has its answer, and so goes on to merge or roll back, the
\* row is closed: no later click can approve a candidate already discarded.
\* (A failing read of the store is the exception the code accepts.)
NothingLeftOpen ==
  \A r \in Request :
    pc[r] = "answered" /\ answer[r] # "unreadable" => row[r] # "pending"

\* An awaited request is answered, or its run dies: the wait is bounded even
\* if no human ever comes.
AwaitEnds ==
  \A r \in Request :
    pc[r] \in {"created", "polling", "checked"} ~> pc[r] \in {"answered", "lost"}

\* If clean-ups keep completing, no row stays pending for ever, however many
\* runs died awaiting it.
AbandonedRowsReclaimed ==
  []<><<\E p \in Sweeper : FinishSweep(p)>>_vars =>
    \A r \in Request : row[r] = "pending" ~> row[r] \in Decision

\* Said of maybe_auto_approve: "auto_approved" is returned if it decided the
\* request, so never of one a human has rejected.  A rejection between the
\* INSERT and the UPDATE refutes it.
AutoApprovedNotRejected ==
  \A r \in Request : answer[r] = "auto_approved" => row[r] # "rejected"
=============================================================================
