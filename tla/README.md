# Verification of autoresearch_lite

TLA+ specifications of the control logic of autoresearch_lite: an orchestrator
that lets a language model patch a script, runs each candidate in a sandbox,
scores it against held-out labels, asks a human, and merges what survives into
a git repository. TLC checks the specifications on small instances; TLAPS
proves every safety property of them for every value of the constants.

`PROJECT.json` lists components, runs, findings, hazards, theorems, and for
every definition the lines of the source it models.

## 1. The system

| part | source | state it keeps | operations | talks to |
|---|---|---|---|---|
| approval store | `approval/store.py` | SQLite rows, `status` and `created_at` | `create_request`, `get_request`, `list_pending`, `decide`, `timeout_stale_requests` | gate, dashboard, clean-up: separate processes on one file |
| approval gate | `approval/gate.py` | none; reads the configuration | file, auto-approve, poll until decided or expired | store |
| dashboard | `api/main.py` | none | approve, reject, pages | store |
| version control | `vcs/git_controller.py` | branches, worktrees, main checkout, `original_branch` | `create_branch`, `commit_patch`, `merge`, `rollback`, `cleanup_orphans` | git, other committers |
| scheduler | `evolution/scheduler.py` | a thread pool, `git_lock` | `execute_generation` in two phases | everything above, evaluator, sandbox |
| sequential loop | `orchestrator/run.py` | best score, patience | start-up recovery, `run_iteration`, `cleanup` | everything |
| baseline | `eval/baseline.py` | scores in memory and in `state.json` | `passes`, `update_if_better` | both orchestrators |
| evaluation | `eval/pipeline.py` | `last_stage_flags`, shared | `evaluate_stage`, `score_predictions` | predictions file, labels |
| evolution engine | `evolution/population.py` | population, counters, best scores | generate, select, loop | scheduler, memory |
| scoring, duplicates, reports | `evolution/*.py`, `reporting/` | none | pure functions, formatting | engine |
| patch generation | `generation/*.py` | the worktree's files, file by file | generate, dry-run, apply, retry | model API, `git apply` |
| sandbox | `sandbox/executor.py` | a container, files in `out_dir` | `run_candidate` | docker |
| dataset | `eval/dataset.py` | `train.jsonl`, `test.jsonl`, the truth file | `generate_split`, `load_truth` | disk, sandbox, evaluator |
| memory | `memory/db.py` | experiment documents in ChromaDB | `store_experiment`, `has_exact_diff`, similarity queries | orchestrators, prompts, duplicate check |

What is hard to get right here:

- *Processes that share a file.* Orchestrator, dashboard and clean-up each read
  the store and write it in separate transactions, and the reader rarely looks
  at what the write returned.
- *A sequence of git commands is not a transaction.* `merge` is a rebase in one
  worktree, then a checkout, a fast-forward, a removal and a deletion in
  another; the process can die, and somebody else can commit, between any two.
- *Durable writes in a row.* Merge, baseline, memory, rollback: a crash between
  two of them is what the next start has to live with.
- *Threads over one object.* All evaluation threads share one `EvalPipeline`,
  whose result is partly returned and partly left in an attribute.
- *Checked early, used late.* The baseline gate is evaluated before, and the
  merge happens after, a wait for humans and the merges of others.
- *One directory for several stages.* `out_dir` belongs to the candidate; each
  stage's container writes there, and one that is not stopped may write later.
- *Diffs that meet files they were not written for.* Several target files are
  patched one after another, and a diff may change a file other than its own.
- *Untrusted input that is scored and configured.* Predictions come from a
  generated script, the approval section from a file nobody validates.
- *Waiting for people.* Nobody is obliged to answer, yet everything must end.

For each part, what makes it correct:

- store and gate: one final decision per request; what the caller was told is
  what the store says; a reviewer gets the whole window; waits end; abandoned
  rows are reclaimed;
- version control: the line of development only grows, by vetted candidates,
  each at most once; a rolled-back candidate never lands; candidates are
  isolated from each other; nothing is left behind;
- data and evaluation: no run works on half a split; a score is what the
  predictions deserve, answers every question, and cannot change afterwards;
- patch generation: a candidate is all of its diffs or nothing, each applied to
  what its author saw;
- search: sizes, records and worktrees balance; the elite is the best there is;
- scheduler and loop: they ask of the store and of version control only what
  those promise to do, and get to an end in a bounded number of steps; what merges passed the thresholds, beat the baseline and
  had consent; a finished generation or iteration leaves nothing open; the
  memory says only what happened.

## 2. Modules

    ApprovalRegister            MergeLedger            abstract promises
          ^        ^             ^      ^
     refines    INSTANCE      INSTANCE  refines
          |        |             |      |
    ApprovalGate   Scheduler  CoreLoop  GitController
                                 |
                      EXTENDS    +-- Dataset         the split, file by file
                                 +-- PatchGenerator  diff by diff
                                 +-- Sandbox         container and out_dir
                                 +-- EvalPipeline    scoring, shared flags
                                 +-- GateConfig      what a section resolves to

    EvolutionEngine  -- EXTENDS -->  Scoring

    ApprovalGateProofs, GitControllerProofs, SchedulerProofs, CoreLoopProofs,
    EvolutionEngineProofs, ScoringProofs: about the module of that name
    EliteProofs: what scores make of the engine's elite
    BoundedSets: largest and least elements, for the other proofs

**ApprovalRegister** is the promise of the store: a request is opened, then
settled once. **ApprovalGate** is the code: `row` is the `status` column, `age`
the time since `created_at`, `pc`, `waited` and `answer` the caller inside
`request_and_await_approval`, `active` and `todo` the two places where
`timeout_stale_requests` runs (start-up, and the `cleanup` command). One action
is one transaction, or one decision between two. `Decided` is the conditional
UPDATE; the actions that use it ignore its outcome exactly where the code does.

**MergeLedger** is the promise of version control: `history` grows by one
commit at a time, no candidate lands twice, a discarded one never lands.
**GitController** is the code, one action per git command. A commit is the
sequence of patches that leads to it; equality of commits and ancestry
(`IsPrefix`) are then git's own. `step` says what each of the two processes is
about to do, `cand` which candidate its operation is about, `left` what a
clean-up has listed and not yet visited. What git itself does (when `branch -D`
or `merge --ff-only` refuses, what a worktree that is mid-rebase looks like in
`worktree list`) is marked external in the map.

**Scheduler** is `execute_generation`: threads evaluate (`pc`, one step per call
of the shared evaluator and one for the statement that reads its flag), a
barrier, then filing, draining and settling in `phase`. Approval rows and
the repository are instances of the two abstract modules, so the scheduler is
checked against what those promise, and ApprovalGate and GitController are
checked to keep the promises.

**CoreLoop** is the sequential orchestrator with everything durable, killed and
restarted at any point: `state_json` is the baseline file, `Empty` while it is
truncated, `scores` its copy in memory; `experiments` is the memory; `i`,
`best_score`, `iterations_since_improvement` and `any_success` are the loop's
variables. Each durable write is a step of its own, and so is every other step
after which the process can be found dead with a difference. Five modules it
extends hold the parts it drives; each declares its own variables and gives one
operator per operation, and CoreLoop says when the operation happens and what
the orchestrator makes of it:

- **Dataset**: each of three files is absent, torn or whole; whether to generate
  is asked of `train` alone, whether to go on of `truth` alone.
- **PatchGenerator**: `nth` is the target file the loop has reached, `shown` the
  content the model was given, `attempts` the answers so far, `touched` what the
  last diff changes. The content of a file is the number of diffs that changed
  it, which is all that "shown is current" needs.
- **Sandbox**: `container` says whether one is running, also past the time limit
  when the unchecked `docker stop` failed; `predictions` is the file in
  `out_dir` with the stage that wrote it, which the code does not know.
- **EvalPipeline**: predictions are sequences of rows; later rows overwrite,
  numbers are truncated towards zero (they are in halves here so that there is
  something to truncate), the ids must be exactly the known ones, the answers 0
  or 1. `last_stage_flags` is kept from call to call.
- **GateConfig**: every setting may be `Malformed`; pure operators. The gate's
  run takes its configurations from them, CoreLoop uses them as they are.

**EvolutionEngine** is the loop over generations: `slots` still to fill,
`attempt` within a slot, `generation` the candidates so far (`fresh` unless an
elite), `memory` the diffs on record and `records` how many records there are.
A generation in the scheduler is one step with any metrics and any successes,
which is what Scheduler allows; a slot is not, since each can fail on its own.
`tried` counts slots and is read by properties only. **Scoring** is how metrics
become composite scores: dominance, the count of dominators as `pareto_rank`,
the weighted sum, and the shift that puts failures below successes.

A module ends with its properties; those of a run are named in its `.cfg`.
Beside some definitions stands a second one commented as a mutant: the same
operation as a plausible bug would write it. Each property is shown to notice
at least one of them.

## 3. Runs

Two requests or candidates are enough for the properties, which relate one
candidate to itself, to one other, or to the baseline one other leaves. The
window is two ticks, so that a caller that starts late, a row half through its
window and one past it all occur. In `generation` scores are 0..3 around
threshold and baseline 1: failing, passing without improving, improving, and
improving enough to be approved automatically. In `core_loop` there are two
questions, so scores 0..2, thresholds 0 and 1 for two stages, and the baseline
moves as runs go on. Five prediction files are enough for every verdict of
`score_predictions`: all right with a row that is overwritten and a number that
is truncated, half right, a question unanswered, an answer that is no label, a
question nobody asked. Two target files and two answers of the model per file
let a diff change the other file before or after that one was read, and let a
retry succeed or not. Five approval sections stand for the resolved behaviours:
unset, off, automatic, misspelt but lenient about flags, and a threshold of `.nan`.

| run | module | instance | shows |
|---|---|---|---|
| `gate` | MCApprovalGate | 2 requests, 4 configuration sections resolved by GateConfig, failing reads, crashes | the register's promise, answers that match the store, nothing left open, whole windows; waits end and abandoned rows are reclaimed |
| `git` | MCGitController | 2 candidates, 1 other commit, named branch and detached HEAD, rebases and aborts that fail, crashes, a clean-up beside the run | the ledger's promise, merged is landed, isolation, no leftovers, live candidates lost to nothing but that clean-up |
| `generation` | MCScheduler | 2 candidates, one an elite, 1 or 2 workers, 2 stages, gate on or off, git and store reads that fail | vetted merges, an exact baseline, everything settled but requests that could not be read, the generation reviewed together, honest automatic approval with one worker; the generation ends |
| `core_loop` | MCCoreLoop | 2 candidates of 2 files and 2 stages, containers past their limit, any number of runs, each killed or ended by an exception anywhere, reads of the store that fail, another configuration per run | whole splits, whole patches applied to what was shown, scores that stand, own flags, truthful memory and exit status, settled iterations, baseline and consent; iterations end |
| `engine` | MCEvolutionEngine | 3 diffs, 3 generations of 1 to 3 candidates, top-k and tournament, pareto and weighted scores of 2 metrics, exceptions | population bound, one record per slot, only elites repeat, worktrees accounted for, elites from what succeeded and undominated; the search ends |

Bounds: `Timeout`, `max_iterations`, `patience` and `Stages` are parameters of
the code with small values; ages are capped at `Timeout` because the code only
asks whether they have reached it; the supply of candidates is finite, which is
also why the Scheduler, CoreLoop and EvolutionEngine runs do not check deadlock
(a generation or a search that is done, or a loop out of fresh candidates,
stops). Three generations are the fewest in which a size adapted to two best
scores is bred with. The git run is
symmetric in the candidates and checks no liveness; the others check liveness
without symmetry. Metrics are 0 or 1, one to maximize and one to minimize, so
dominance, incomparability and equality all occur; the weighted strategy only
penalises energy above 1 and ignores it at this size, as the logarithm does in
the code. What the bounds leave open the proofs cover.

Fairness: in ApprovalGate time passes and a live caller goes on polling; in
Scheduler threads are scheduled, since sandboxes have a wall-clock limit, and
phase 2 is a plain loop; in CoreLoop a sandbox ends by itself or at its limit
and the model is asked a bounded number of times; there and in EvolutionEngine
the process runs, the model answers, and the scheduler returns (which
`GenerationEnds` is about). None is assumed of humans, operators, crashes or
failures. `AbandonedRowsReclaimed` carries its own assumption: that clean-ups
complete again and again.

### Where the code does less than it says

Each of these runs ends in a counterexample, and `findings` quotes the claim.
That a claim fails says little of how far it fails, so for each one the same
claim is proved, for every value of the constants, under the condition in the
last column: the run shows that the condition cannot be dropped, the theorem
that nothing else is wrong with the claim.

| run | what happens | proved where |
|---|---|---|
| `gate_auto_race` | a rejection between INSERT and automatic approval is lost: the caller is told `auto_approved` | no row is decided between its filing and the caller's decision (`AutoApprovalsAreDecided`) |
| `git_mid_rebase` | a run that ends mid-rebase leaves a branch that makes every later start-up raise | no run ends, killed or past a failed abort, while a worktree is mid-rebase, and `cleanup` waits for the run (`CleanupWorksUnlessMidRebase`) |
| `generation_flag_race` | one thread's flag is overwritten by another's evaluation | no two threads at once stand between the call and the read (`FlagIsOwnWhenReadAlone`) |
| `generation_stale_baseline` | a generation merges a worse candidate after a better one | a generation merges at most one candidate (`OneMergeBeatsBaseline`) |
| `core_loop_stale_predictions` | a script that writes nothing at its second stage is scored on what the first stage left | a script that ends by itself after the first stage has written its predictions (`StagesAreOwnIfWritten`) |
| `core_loop_torn_baseline` | a crash while saving the baseline stops every later run before recovery | no run ends, killed or by an exception, between truncating the file and writing it (`RecoversUnlessTorn`) |
| `engine_empty_generation` | every slot of the first generation is exhausted and tournament selection raises | the strategy is not tournament (`SortingSurvives`), and after the first generation with any (`OnlyTheFirstRaises`) |

The models contain further behaviours a reader of the code should know, which
the properties above are stated to allow. In the gate and the orchestrators:

- An approval may be recorded at the deadline of a caller that rolls back all the
  same: `NothingLeftOpen` asks for a closed row, not for a particular one.
- A caller whose read of the store fails is told `timed_out`, while nothing is
  recorded: its candidate is rolled back, and its row stays open and clickable
  until a clean-up. `NothingLeftOpen`, `IterationSettles` and `EverythingSettled`
  except it; `AbandonedRowsReclaimed` says it does not last.
- `sys.exit(1)` gives status 1 to a run that merged nothing, and Python gives it
  to one that an exception ended, also after a merge: `ExitTellsWhatLanded` says
  1 means one or the other.
- A threshold of `.nan` is a number and not less than 0, so the gate takes it for
  a valid one, and every candidate that its flags do not exclude meets it,
  although the docstring (`approval/gate.py:39`) wants nothing malformed to mean
  "auto-approve everything". `MergedWithConsent` excepts it by name.
- A run restarted at once does not reclaim the fresh row of the one before:
  `AbandonedRowsReclaimed` is a liveness property.
- The `cleanup` command removes the candidates of a live run
  (`LiveCandidatesKept` excepts it), and `merge` moves the caller's checkout and
  fails on a commit made between rebase and fast-forward (`FastForward` raises).
- A crash between merge and baseline update lets a worse candidate land later:
  `MergeBeatsBaseline` speaks of the saved baseline, so it is no help against one
  that missed a merge.
- In the sequential loop a diff may change any file, though the configuration
  speaks of the target files (`GenerateDiff`, whose `changes` need not be the file
  asked for); a fractional prediction is truncated and so may count as an answer
  (`int`); and a score is taken over from an earlier stage when a later one writes
  nothing, for which reason `ScoreStands` speaks of what is in `out_dir` and not
  of who wrote it.

In the engine:

- Two slots of one generation may carry the same diff, since neither is on record
  yet: `FreshIsNew` compares with earlier generations.
- The counters of exhausted slots are reset before the report, which therefore
  never counts anything (`BeginGeneration`).
- `pareto_rank` is how many candidates dominate one, not the number of the front
  `calculate_pareto_fronts` is named for; `RanksRespectDominance` says why an
  elite chosen by it is undominated all the same.

Three things are outside the models altogether:

- `last_usage` reports only the tokens of the last file patched
  (`generation/patch_generator.py:221`).
- An infinite number among the predictions makes `int()` raise, although
  `score_predictions` says it never does (`eval/pipeline.py:90`). That ends the
  run as `Crash` would.
- A `timeout_seconds` of `.nan` or `.inf` is taken for a valid one
  (`approval/gate.py:26`), and no clock reaches its deadline, so a request nobody
  answers is awaited, and kept from every clean-up, for ever. `AwaitEnds` and
  `AbandonedRowsReclaimed` are about windows that have an end.

## 4. Proofs

Every safety property of every passing run is proved, for every value of the
constants that the named assumptions of its module allow. The assumptions are
what the code or its schema guarantees: positive bounds and windows, at least
one stage and one target file, finitely many questions, metrics and candidates
of a generation, other people's commits distinct from candidates, well-typed
configurations. Liveness stays with TLC, for good: the proof system does not
reason about fairness and ENABLED.

Termination has a safety half, however, and that is proved. `RunLeft` in
CoreLoopProofs, `ThreadLeft` and `DrainLeft` in SchedulerProofs, and `StepsLeft`
in EliteProofs count the steps that are left, from the configuration alone;
`RunIsBounded`, `GenerationIsBounded` and `SearchIsBounded` say that every step
uses some up, or is somebody else's (a human's answer, of which a request takes
one; a write of a running container). What TLC adds in `IterationEnds`,
`GenerationEnds` and `SearchEnds` is that a step is always there to be taken.
These, `CallsAreLegal` and `RaisesOnlyAtTheStart` are stated beside their proofs
and belong to no run.

The composition has two sides. ApprovalGate and GitController are proved to keep
what ApprovalRegister and MergeLedger promise. Scheduler and CoreLoop, which are
built on the promises, are proved never to ask for what is not promised
(`CallsAreLegal`): to merge or roll back a candidate whose worktree is gone or
whose fate is sealed, or to file one twice. Without that, an action of theirs
would be disabled by the abstract module exactly where the code raises.

The theorems on the refuted claims (section 3) assume an action property of
the environment and are proved as the others are, by an invariant that holds as
long as the assumption does.

**ApprovalGateProofs.** The types are inductive by themselves. `AnswerIsRecorded`
and `NothingLeftOpen` are not. That an expiry is never early needs
`WaitWithinAge`: the caller's clock starts after the row's, so it never runs
ahead of it. That a clean-up is never early needs `SelectedAreStale`: the rows
it has listed were old enough then, and rows only age. That an answer is in the
store, and that opening a row never reopens one, needs `Filed`: before it is
filed a request has no row, and while it is awaited it has one. The refinement
then maps `Create` to `Open`, every use of `Decided` to `Settle` or a stutter,
and everything else to a stutter (`GateImplementsRegister`). `Settled` (what was just
filed is open) is the one fact the race of `gate_auto_race` breaks.

**GitControllerProofs.** Commits are sequences, so the module starts with
lemmas on prefixes; the one that carries the weight is `NothingBetween`: between
a commit and the one on top of it there is no third. The invariant adds to the
types three parts: `Placed` (whose operation is under way; a worktree always
has its branch), `Pointed` (what the run takes for the line of development is
the line, but for the moment between a detached fast-forward and the
re-pointing) and `Rooted` (a branch forks from a point of the line that does not
hold its candidate; a candidate is on the line only if a merge came that far).
`Rooted` is what a fast-forward needs: that git accepts it means the tip extends
the line, so the line grows by this candidate or not at all. `KeepsTheLedger`
maps every step to a step of MergeLedger or a stutter by two lemmas, one for how
the line moves and one for how candidates are given up. `InPlace` then gives
`MergedIsLanded`, and `Tidy` (what the start-up clean-up has yet to visit is on
its list) gives `NothingLeftBehind`. `Swept` says the same of a clean-up that runs
when no worktree was left mid-rebase, with `OneProcess` for the command that
waits: then every branch is free to be deleted when its turn comes. `NotMidRebase`
is the assumption: a rebase may fail for any reason, but a run does not end
while `MidRebase` holds, whether it was killed there or its abort failed.

**SchedulerProofs.** `Typed` already says more than the types: no loop of the
second phase runs past its queue, and what is filed has a row or a gate that is
off. `Vetting` (a verdict is about the score the candidate has, and about the
baseline at the start), `Queued` (nobody twice, nobody who did not pass),
`Decided` (decisions agree with rows as far as anybody looks) and `Landing` (what
is merged is of the queue, with its consent) make the invariant. On top of it,
`Best` gives `BaselineIsBestMerged` (which needs that a set of integers with a
bound has a maximum, BoundedSets), `Accounted` gives `EverythingSettled`, and
`OneAtATime` with `Flagged` gives `AutoApprovedIsHonest`: with one worker the
flag waiting to be read is always the reader's. `Flagged` does not need the one
worker, only `ReadAlone`, and is proved from that. `AtHand` (a candidate is held
from its thread's first step to its turn in the drain, and who comes behind the
place filing has reached has no row) gives `CallsAreLegal`; `ThreadAdvances` and
`DrainAdvances` give `GenerationIsBounded`, one thread and one phase at a time.

**CoreLoopProofs.** The types fall into what each extended module contributes
(`DataTyped`, `LoopTyped`, `StoreTyped`, `ScoringTyped`) and `RowInOrder`, which
follows the candidate's row through the iteration. Each property then has its
own strengthening: `SplitInOrder` (the truth file is not opened before the rows
are closed), `FlagInOrder` (the flag is the candidate's until a stage is given
up, and nobody reads it after that), `PatchInOrder` (the files before the one at
work are patched, and it is shown as it is), `Books`, `Tidy` and `Truthful`
(what an iteration has done so far with its candidate, which is where the order
of merge, record and rollback matters), `Counted` (the loop knows whether its
run merged, from which what each exit status means follows, since a signal and
an exception end a run in states of their own), `Judged` (nothing writes to
`out_dir` any more when a score is kept), `InStep` (process and file agree on the
baseline) and `AtHand` (the candidate at work has its worktree). `IterationAdvances` and `RunAdvances` go
through the steps of an iteration and of a run for `RunIsBounded`; files,
retries, stages and iterations multiply, which is why the arithmetic is done in
lemmas of its own. `Readable` and `Traced` belong to the two refuted claims: a
file that is empty only between its truncation and the dump, and predictions
that only a second stage can find without having written them.

**EvolutionEngineProofs.** Each property speaks of a moment at which the books
must balance; its inductive form (`Sized`, `Counted`, `New`, `Housed`) says how
they stand in between, with the slot being tried counted apart (`Trying`). That
a bred generation fits needs the size to stay positive, because the elite takes
a place unconditionally, and so the bounds of the configuration to be positive,
as the defaults are.

**ScoringProofs, EliteProofs.** Dominance is a strict partial order, so a
dominating candidate has strictly fewer dominators (`RanksRespectDominance`).
Weighted scores are integers because finite sums are; the library's theorems on
recursively defined functions cannot be used here, and a least counterexample
does instead (`PartialSums`, `SumIsInteger`). The shift then puts every failure
below every success (`FailuresBelowSuccesses`), whatever the raw scores. With
`Scored` (between scoring and selection nothing changes what scores were
computed from) the elite is a candidate with the highest composite score
(`EliteIsBest`), hence one that succeeded if any did (`EliteIsSucceeded`) and
one that nothing comparable dominates (`EliteIsUndominated`). `TypeCorrect`
needs all of this, since it says that scores are integers and best scores exist.
The theorems of the engine that need its types follow it in EliteProofs:
`Carried` (a tournament always carries an elite into the next generation) gives
`OnlyTheFirstRaises`, and `Retried` (a slot starts with its first attempt) gives
`SearchTakesBoundedSteps`.

Recursive computation over data (what a sum *is*, beyond being an integer) is
not proved: the library's induction theorems take operators as parameters.

## 5. What the models leave out

- Text: diffs, prompts, error messages, what a report says.
- A store *write* that raises is no action of its own. In CoreLoop it is a
  `Crash` into `raised`, with the exit status of an exception; ApprovalGate does
  not tell it from being killed there; in Scheduler only git failures end a
  generation. *Reads* that raise while a decision is awaited are modelled in all
  three (`PollFails`).
- One `Timeout` serves caller and clean-ups in ApprovalGate. A clean-up under
  another configuration uses its own `timeout_seconds`: `FullWindow` promises the
  window of whoever closes the row, which need not be the caller's.
- `git worktree remove` and `git worktree add` are atomic; a crash inside them
  is outside the models, as are repositories damaged by hand.
- One configuration per run of the program, chosen at its start. A `base_ref`
  that is a commit sha is left out: every run pins it anew and leaves the merges
  of the run before on no branch.
- Several keys of the baseline file: the models have that of the last stage.
- Docker's resource limits, mounts and file modes, which are arguments of a
  command; the model client's prices and token counts.
- Ending of a container between two candidates: a container that outlives its
  candidate has another worktree mounted and touches nothing that is scored.
- Wall-clock adjustments: the store stamps rows with UTC time, the gate waits
  on a monotonic clock, the model has one clock.
- Authentication and CSRF of the dashboard, rendering, logging, reports.
- Parts listed as `not_modelled` in `PROJECT.json`, with the reason.

## 6. Plan

The modules, runs and proofs above cover the control of the program. What would
add to them, in this order:

1. A timed composition of Scheduler and ApprovalGate, in which N silent
   reviewers make the serial waits of phase 2 visible as time.
2. Several keys of the baseline file, for a configuration whose stages change
   from run to run.
3. The text of a diff far enough to say that an elite that was merged cannot be
   applied again.

## 7. Not modelled

- *Prompt builder, static check*: assembly of text and a call of the compiler,
  without state. CoreLoop takes the verdict of the check as a choice.
- *Configuration schema*: declarative validation by a library. What it
  guarantees is assumed by name where it is used (`StagesAssumption`,
  `FilesAssumption`).
- *Failure analysis, reports, metrics, logging*: they format what other parts
  have recorded, and nothing reads it back.
- *Dashboard pages, authentication*: reads and rendering; the two routes that
  change state are in ApprovalGate.
- *Similarity search*: an embedding distance; the engine takes its verdict as a
  choice and models the exact match that backs it.
