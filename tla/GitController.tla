---------------------------- MODULE GitController ----------------------------
(***************************************************************************)
(* Candidate branches in git worktrees (vcs/git_controller.py).            *)
(*                                                                         *)
(* Process "run" is the orchestrator; the scheduler's git_lock, or its     *)
(* being sequential, makes it execute one repository operation at a time,  *)
(* while commits inside a candidate's own worktree go on beside it.        *)
(* Process "command" is the `cleanup` subcommand.  Each git command is one *)
(* step: a process may die, and the other may act, between any two.        *)
(*                                                                         *)
(* A commit is the sequence of patches that leads to it, so two commits    *)
(* are equal exactly when git would give them one sha, and one is an       *)
(* ancestor of another exactly when it is a prefix of it.                  *)
(***************************************************************************)
EXTENDS SequencesExt

CONSTANTS
  Candidate,     \* candidates, each with one patch
  Upstream,      \* commits other people make on the target branch
  SideCommand    \* `cleanup` may be run beside a live orchestrator

ASSUME FlagAssumption == SideCommand \in BOOLEAN
ASSUME DistinctAssumption == Candidate \cap Upstream = {}

VARIABLES
  tracks,     \* _tracks_named_branch: base_ref, or what is checked out, is a
              \* branch; if not, HEAD is detached and original_branch a sha
  target,     \* tip of the named target branch
  head,       \* commit the caller's main checkout is at
  headOn,     \* what HEAD names there: "target", "other" or "detached"
  branch,     \* each candidate's branch and worktree
  pinned,     \* original_branch of the present run, when it is a sha
  life,       \* what became of each candidate, as its caller sees it
  step,       \* what each process is about to do
  cand,       \* the candidate the run's operation is about
  left        \* what each clean-up has listed and not yet removed

main == <<tracks, target, head, headOn>>
vars == <<main, branch, pinned, life, step, cand, left>>

Process == {"run", "command"}
Commit == Seq(Candidate \cup Upstream)

\* Where a branch was last based, whether it holds the candidate's commit, and
\* its worktree: "rebasing" while git has detached it for a rebase.
Branch == [exists: BOOLEAN, fork: Commit, patched: BOOLEAN,
           worktree: {"none", "on_branch", "rebasing"}]

Life == {"new", "open", "merging", "conflict", "discarded", "merged", "orphan"}
MergeStep == {"rebase", "resolve", "abort", "checkout", "ff", "repoint"}
DropStep == {"remove", "delete"}
CleanStep == {"list", "worktrees", "branches"}
Down == {"dead", "raised"}

TypeOK ==
  /\ tracks \in BOOLEAN
  /\ target \in Commit /\ head \in Commit /\ pinned \in Commit
  /\ headOn \in {"target", "other", "detached"}
  /\ branch \in [Candidate -> Branch]
  /\ life \in [Candidate -> Life]
  /\ step \in [Process -> {"idle"} \cup MergeStep \cup DropStep \cup CleanStep \cup Down]
  /\ cand \in Candidate
  /\ left \in [Process -> SUBSET Candidate]

-----------------------------------------------------------------------------
Tip(c) == IF branch[c].patched THEN Append(branch[c].fork, c) ELSE branch[c].fork

\* Mutant of Base: whatever the last candidate left.
LastTip == Tip(cand)

\* The commit original_branch resolves to.
Base == IF tracks THEN target ELSE pinned

\* The line of development as the caller finds it.
Landed == IF tracks THEN target ELSE head

HasWorktree(c) == branch[c].worktree # "none"
SetWorktree(c, w) == branch' = [branch EXCEPT ![c].worktree = w]
Judged(c, l) == life' = [life EXCEPT ![c] = l]

At(s) == step["run"] = s
Goto(p, s) == step' = [step EXCEPT ![p] = s]
Then(s) == Goto("run", s) /\ UNCHANGED <<pinned, life, cand, left>>

\* A git command other than the rebase fails: the exception leaves the operation,
\* and with it the process.
Raise(p) == Goto(p, "raised") /\ UNCHANGED <<main, branch, pinned, life, cand, left>>

-----------------------------------------------------------------------------
(* The calls.  git_lock lets the run into one at a time. *)

create_branch(c) ==
  /\ At("idle") /\ life[c] = "new"
  /\ branch' = [branch EXCEPT ![c] = [exists |-> TRUE, fork |-> Base, patched |-> FALSE,
                                      worktree |-> "on_branch"]]
  /\ Judged(c, "open")
  /\ UNCHANGED <<main, pinned, step, cand, left>>

\* Not under the lock.  A candidate that changed nothing is never committed.
commit_patch(c) ==
  /\ step["run"] \notin Down /\ life[c] = "open"
  /\ branch[c].exists /\ branch[c].worktree = "on_branch"
  /\ branch' = [branch EXCEPT ![c].patched = TRUE]
  /\ UNCHANGED <<main, pinned, life, step, cand, left>>

Call(c, s, l) ==
  /\ At("idle") /\ Goto("run", s)
  /\ cand' = c /\ Judged(c, l)
  /\ UNCHANGED <<main, branch, pinned, left>>

merge(c) == life[c] = "open" /\ Call(c, "rebase", "merging")

rollback(c) == life[c] \in {"open", "conflict"} /\ Call(c, "remove", "discarded")

-----------------------------------------------------------------------------
(* merge: rebase in the worktree, fast-forward the target, drop the branch *)

\* Opening the worktree's repository fails if the directory has gone.
Rebase ==
  /\ At("rebase")
  /\ IF HasWorktree(cand) /\ branch[cand].exists
     THEN SetWorktree(cand, "rebasing") /\ Then("resolve") /\ UNCHANGED main
     ELSE Raise("run")

RebaseClean ==
  /\ At("resolve") /\ HasWorktree(cand)
  /\ branch' = [branch EXCEPT ![cand].fork = Base, ![cand].worktree = "on_branch"]
  /\ Then("checkout")
  /\ UNCHANGED main

\* Any failure of git counts as a conflict, one to start the rebase too.
RebaseFails ==
  /\ \/ At("rebase") /\ HasWorktree(cand) /\ branch[cand].exists
     \/ At("resolve")
  /\ Then("abort")
  /\ UNCHANGED <<main, branch>>

\* Mutant of aborted: the worktree is dropped.
discarded_worktree(w) == "none"

aborted(w) == IF w = "none" THEN w ELSE "on_branch"

\* rebase --abort, then MergeConflict.  That the abort has failed is ignored: the
\* worktree is left as it is.
Abort ==
  /\ At("abort")
  /\ \E w \in {branch[cand].worktree, aborted(branch[cand].worktree)} : SetWorktree(cand, w)
  /\ Judged(cand, "conflict")
  /\ Goto("run", "idle")
  /\ UNCHANGED <<main, pinned, cand, left>>

Checkout ==
  /\ At("checkout")
  /\ head' = Base /\ headOn' = IF tracks THEN "target" ELSE "detached"
  /\ Then("ff")
  /\ UNCHANGED <<tracks, target, branch>>

\* Mutant of Forwarded: a reset instead.
ResetTo(c) == Tip(c)

\* git merge --ff-only: forward, or already up to date; else refused.
CanForward(c) ==
  branch[c].exists /\ (IsPrefix(head, Tip(c)) \/ IsPrefix(Tip(c), head))

Forwarded(c) == IF IsPrefix(head, Tip(c)) THEN Tip(c) ELSE head

FastForward ==
  /\ At("ff")
  /\ IF CanForward(cand)
     THEN /\ head' = Forwarded(cand) /\ target' = IF tracks THEN head' ELSE target
          /\ Then("repoint") /\ UNCHANGED <<tracks, headOn, branch>>
     ELSE Raise("run")

\* The caller's uncommitted work would be overwritten.
CallerInTheWay == step["run"] \in {"checkout", "ff"} /\ Raise("run")

\* Mutant of Repointed: the pinned commit is left where it was.
NotRepointed == pinned

\* A detached HEAD has no branch to advance by itself.
Repointed == IF tracks THEN pinned ELSE head

Repoint ==
  /\ At("repoint")
  /\ pinned' = Repointed
  /\ Goto("run", "remove")
  /\ UNCHANGED <<main, branch, life, cand, left>>

\* rollback starts here; it looks first whether the directory is there.
RemoveWorktree ==
  /\ At("remove")
  /\ IF ~HasWorktree(cand) /\ life[cand] = "merging"
     THEN Raise("run")
     ELSE SetWorktree(cand, "none") /\ Then("delete") /\ UNCHANGED main

\* git branch -D refuses a branch that is missing, checked out or being rebased.
Deletable(c) == branch[c].exists /\ ~HasWorktree(c)

\* Mutant of Delete: the branch is kept.
KeepBranch(c) == UNCHANGED branch

Delete(c) == branch' = [branch EXCEPT ![c].exists = FALSE]

DeleteBranch ==
  /\ At("delete")
  /\ IF Deletable(cand)
     THEN /\ Delete(cand)
          /\ Judged(cand, IF life[cand] = "merging" THEN "merged" ELSE life[cand])
          /\ Goto("run", "idle")
          /\ UNCHANGED <<main, pinned, cand, left>>
     ELSE Raise("run")

-----------------------------------------------------------------------------
(* cleanup_orphans, at start-up and as a subcommand *)

Listed(p, cs, s) ==
  /\ left' = [left EXCEPT ![p] = cs]
  /\ Goto(p, s)
  /\ UNCHANGED <<main, branch, pinned, life, cand>>

\* `git worktree list` shows no branch for a worktree that is mid-rebase.
ListWorktrees(p) ==
  step[p] = "list"
  /\ Listed(p, {c \in Candidate : branch[c].worktree = "on_branch"}, "worktrees")

Visited(p, c) ==
  left' = [left EXCEPT ![p] = @ \ {c}] /\ UNCHANGED <<main, pinned, life, step, cand>>

RemoveOrphan(p, c) ==
  /\ step[p] = "worktrees" /\ c \in left[p]
  /\ IF HasWorktree(c) THEN SetWorktree(c, "none") /\ Visited(p, c) ELSE Raise(p)

\* Mutant of Heads: every head, not only those named candidate-*.
AllHeads == {c \in Candidate : branch[c].exists} \cup {"main"}

Heads == {c \in Candidate : branch[c].exists}

\* Every candidate-* head, whoever made it.
ListHeads(p) == step[p] = "worktrees" /\ left[p] = {} /\ Listed(p, Heads, "branches")

DeleteOrphan(p, c) ==
  /\ step[p] = "branches" /\ c \in left[p]
  /\ IF Deletable(c) THEN Delete(c) /\ Visited(p, c) ELSE Raise(p)

\* Start-up goes on to the run, the subcommand exits.
CleanupDone(p) ==
  step[p] = "branches" /\ left[p] = {} /\ Listed(p, {}, IF p = "run" THEN "idle" ELSE "dead")

-----------------------------------------------------------------------------
(* Processes, and other people *)

\* Killed, at any point.  What git has done stays done.
Crash(p) ==
  /\ step[p] \notin Down
  /\ Goto(p, "dead")
  /\ UNCHANGED <<main, branch, pinned, life, cand, left>>

\* GitController.__init__, then cleanup_orphans.
Restart ==
  /\ step["run"] \in Down /\ (SideCommand \/ step["command"] \in Down)
  /\ pinned' = IF tracks THEN pinned ELSE head
  /\ life' = [c \in Candidate |->
                IF life[c] \in {"open", "merging", "conflict"} THEN "orphan" ELSE life[c]]
  /\ Goto("run", "list")
  /\ UNCHANGED <<main, branch, cand, left>>

StartCommand ==
  /\ SideCommand \/ step["run"] \in Down
  /\ step["command"] \in Down
  /\ Goto("command", "list")
  /\ UNCHANGED <<main, branch, pinned, life, cand, left>>

\* Somebody commits or pulls on the target branch, in the main checkout if
\* that is where HEAD is.
Pull(u) ==
  /\ tracks /\ u \notin ToSet(target)
  /\ target' = Append(target, u)
  /\ head' = IF headOn = "target" THEN target' ELSE head
  /\ UNCHANGED <<tracks, headOn, branch, pinned, life, step, cand, left>>

-----------------------------------------------------------------------------
\* base_ref, if it names a branch, need not be the one checked out.
Init ==
  /\ tracks \in BOOLEAN
  /\ target = <<>> /\ head = <<>> /\ pinned = <<>>
  /\ headOn \in IF tracks THEN {"target", "other"} ELSE {"detached"}
  /\ branch = [c \in Candidate |-> [exists |-> FALSE, fork |-> <<>>, patched |-> FALSE,
                                    worktree |-> "none"]]
  /\ life = [c \in Candidate |-> "new"]
  /\ step = [p \in Process |-> IF p = "run" THEN "list" ELSE "dead"]
  /\ cand \in Candidate
  /\ left = [p \in Process |-> {}]

Caller(c) == create_branch(c) \/ commit_patch(c) \/ merge(c) \/ rollback(c)

GitStep ==
  \/ Rebase \/ RebaseClean \/ RebaseFails \/ Abort
  \/ Checkout \/ FastForward \/ CallerInTheWay \/ Repoint
  \/ RemoveWorktree \/ DeleteBranch

Cleanup(p) ==
  \/ ListWorktrees(p) \/ ListHeads(p) \/ CleanupDone(p)
  \/ \E c \in Candidate : RemoveOrphan(p, c) \/ DeleteOrphan(p, c)

Next ==
  \/ \E c \in Candidate : Caller(c)
  \/ GitStep
  \/ \E p \in Process : Cleanup(p) \/ Crash(p)
  \/ Restart
  \/ StartCommand
  \/ \E u \in Upstream : Pull(u)

Spec == Init /\ [][Next]_vars

-----------------------------------------------------------------------------
(* Properties *)

\* Through rebases, refused fast-forwards, crashes and clean-ups, the line of
\* development only grows, by one commit of one candidate at a time; no
\* candidate lands twice, and none that is being rolled back ever lands.
Ledger == INSTANCE MergeLedger WITH
  history <- Landed,
  discarded <- {c \in Candidate : life[c] = "discarded"}
ImplementsLedger == Ledger!Spec

\* merge returning normally means the candidate's commit is in place for good.
MergedIsLanded ==
  \A c \in Candidate : life[c] = "merged" /\ branch[c].patched => c \in ToSet(Landed)

\* A candidate's worktree never holds another candidate's work unless that one
\* was merged: forks and rebases start from the line of development only.
Isolated ==
  \A c, d \in Candidate :
    c # d /\ branch[c].exists /\ d \in ToSet(branch[c].fork) => d \in ToSet(Landed)

\* Between operations the only branches and worktrees about are those of
\* candidates still being worked on: merge, rollback and start-up clean-up
\* leave nothing behind, wherever the run before was killed.
NothingLeftBehind ==
  At("idle") =>
    \A c \in Candidate :
      branch[c].exists \/ HasWorktree(c) => life[c] \in {"open", "conflict"}

\* While the run is alive, a candidate whose work may still be merged loses
\* its branch or worktree to nothing but a clean-up run beside it.
LiveCandidatesKept ==
  [][\A c \in Candidate :
       /\ step["run"] \notin Down
       /\ life[c] \in {"open", "merging", "conflict"} /\ life'[c] \in {"open", "conflict"}
       /\ branch[c].exists /\ HasWorktree(c)
       => (branch'[c].exists /\ HasWorktree(c)') \/ step["command"] \in CleanStep]_vars

\* Said of cleanup_orphans: it removes every candidate worktree and branch a
\* killed run left behind, and is safe to call unconditionally at start-up.  A
\* run that ends in the middle of a rebase leaves a worktree that it does not see
\* and a branch that git then refuses to delete.
CleanupNeverRaises ==
  [][\A p \in Process : step[p] \in CleanStep => step'[p] # "raised"]_vars
=============================================================================
