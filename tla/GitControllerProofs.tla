------------------------ MODULE GitControllerProofs ------------------------
(***************************************************************************)
(* What is proved of GitController for every set of candidates and every   *)
(* set of other people's commits, a clean-up command beside the run or     *)
(* not: its invariants, and that it implements MergeLedger.                *)
(***************************************************************************)
EXTENDS GitController, Integers, TLAPS

-----------------------------------------------------------------------------
(* Prefixes: who is an ancestor of whom *)

\* A prefix agrees with the whole as far as it goes.
LEMMA PrefixMeans ==
  ASSUME NEW S, NEW s \in Seq(S), NEW t \in Seq(S)
  PROVE  IsPrefix(s, t) <=> Len(s) <= Len(t) /\ \A i \in 1..Len(s) : s[i] = t[i]
<1>1. Len(s) \in Nat /\ Len(t) \in Nat
  OBVIOUS
<1>2. ASSUME Len(s) <= Len(t)
      PROVE  SubSeq(t, 1, Len(s)) = s <=> \A i \in 1..Len(s) : s[i] = t[i]
  <2>1. /\ SubSeq(t, 1, Len(s)) \in Seq(S) /\ Len(SubSeq(t, 1, Len(s))) = Len(s)
        /\ \A i \in 1..Len(s) : SubSeq(t, 1, Len(s))[i] = t[i]
    BY <1>1, <1>2
  <2> QED BY <2>1
<1>3. SubSeq(s, 1, Len(s)) = s
  <2>1. /\ SubSeq(s, 1, Len(s)) \in Seq(S) /\ Len(SubSeq(s, 1, Len(s))) = Len(s)
        /\ \A i \in 1..Len(s) : SubSeq(s, 1, Len(s))[i] = s[i]
    BY <1>1
  <2> QED BY <2>1
<1> QED BY <1>2, <1>3 DEF IsPrefix

\* What is appended is all that is added.
LEMMA ToSetOfAppend ==
  ASSUME NEW S, NEW s \in Seq(S), NEW e \in S
  PROVE  ToSet(Append(s, e)) = ToSet(s) \cup {e}
<1>1. DOMAIN Append(s, e) = 1..(Len(s) + 1) /\ DOMAIN s = 1..Len(s) /\ Len(s) \in Nat
  OBVIOUS
<1>2. \A k \in 1..(Len(s) + 1) : Append(s, e)[k] = IF k = Len(s) + 1 THEN e ELSE s[k]
  OBVIOUS
<1>3. ToSet(Append(s, e)) \subseteq ToSet(s) \cup {e}
  BY <1>1, <1>2 DEF ToSet
<1>4. e \in ToSet(Append(s, e))
  BY <1>1, <1>2 DEF ToSet
<1>5. ToSet(s) \subseteq ToSet(Append(s, e))
  BY <1>1, <1>2 DEF ToSet
<1> QED BY <1>3, <1>4, <1>5

\* An ancestor stays one when the line grows, and holds nothing the line does not.
LEMMA PrefixGrows ==
  ASSUME NEW S, NEW s \in Seq(S), NEW t \in Seq(S), NEW e \in S, IsPrefix(s, t)
  PROVE  IsPrefix(s, Append(t, e)) /\ ToSet(s) \subseteq ToSet(t)
<1>1. Len(s) \in Nat /\ Len(t) \in Nat /\ Len(s) <= Len(t) /\ \A i \in 1..Len(s) : s[i] = t[i]
  BY PrefixMeans
<1>2. /\ Append(t, e) \in Seq(S) /\ Len(Append(t, e)) = Len(t) + 1
      /\ \A i \in 1..Len(t) : Append(t, e)[i] = t[i]
  OBVIOUS
<1>3. IsPrefix(s, Append(t, e))
  <2> DEFINE u == Append(t, e)
  <2>1. u \in Seq(S) /\ Len(s) <= Len(u) /\ \A i \in 1..Len(s) : s[i] = u[i]
    BY <1>1, <1>2
  <2> HIDE DEF u
  <2>2. IsPrefix(s, u)
    BY <2>1, PrefixMeans
  <2> QED BY <2>2 DEF u
<1>4. ToSet(s) \subseteq ToSet(t)
  BY <1>1 DEF ToSet
<1> QED BY <1>3, <1>4

\* Everything is its own ancestor, and the empty history everything's.
LEMMA PrefixOfItself ==
  ASSUME NEW S, NEW s \in Seq(S)
  PROVE  IsPrefix(s, s)
BY PrefixMeans

\* Between a commit and the one on top of it there is no third.
LEMMA NothingBetween ==
  ASSUME NEW S, NEW f \in Seq(S), NEW h \in Seq(S), NEW e \in S,
         IsPrefix(f, h), IsPrefix(h, Append(f, e))
  PROVE  h = f \/ h = Append(f, e)
<1>1. /\ Append(f, e) \in Seq(S) /\ Len(f) \in Nat /\ Len(h) \in Nat
      /\ Len(Append(f, e)) = Len(f) + 1
  OBVIOUS
<1> DEFINE g == Append(f, e)
<1>2. /\ Len(f) <= Len(h) /\ \A i \in 1..Len(f) : f[i] = h[i]
      /\ Len(h) <= Len(f) + 1 /\ \A i \in 1..Len(h) : h[i] = g[i]
  <2>1. g \in Seq(S) /\ IsPrefix(h, g) /\ Len(g) = Len(f) + 1
    BY <1>1
  <2> HIDE DEF g
  <2>2. Len(h) <= Len(g) /\ \A i \in 1..Len(h) : h[i] = g[i]
    BY <2>1, PrefixMeans
  <2>3. Len(f) <= Len(h) /\ \A i \in 1..Len(f) : f[i] = h[i]
    BY PrefixMeans
  <2> QED BY <2>1, <2>2, <2>3
<1>3. CASE Len(h) = Len(f)
  <2>1. h = f
    BY <1>1, <1>2, <1>3
  <2> QED BY <2>1
<1>4. CASE Len(h) = Len(f) + 1
  <2>1. h = Append(f, e)
    BY <1>1, <1>2, <1>4
  <2> QED BY <2>1
<1> QED BY <1>1, <1>2, <1>3, <1>4

-----------------------------------------------------------------------------
(* Types *)

\* Tips and bases are commits.
LEMMA Commits ==
  ASSUME TypeOK
  PROVE  /\ Base \in Commit /\ Landed \in Commit
         /\ \A c \in Candidate : Tip(c) \in Commit /\ Forwarded(c) \in Commit
BY DEF TypeOK, Base, Landed, Tip, Forwarded, Commit, Branch

\* The parts of a branch that the steps change.
LEMMA BranchFields ==
  ASSUME TypeOK, NEW c \in Candidate,
         \/ \E b \in BOOLEAN : branch' = [branch EXCEPT ![c].exists = b]
         \/ \E b \in BOOLEAN : branch' = [branch EXCEPT ![c].patched = b]
         \/ \E w \in {"none", "on_branch", "rebasing"} : branch' = [branch EXCEPT ![c].worktree = w]
         \/ \E f \in Commit, w \in {"none", "on_branch", "rebasing"} :
              branch' = [branch EXCEPT ![c].fork = f, ![c].worktree = w]
  PROVE  branch' \in [Candidate -> Branch]
<1>1. branch \in [Candidate -> Branch]
  BY DEF TypeOK
<1>2. branch[c] \in Branch
  BY <1>1
<1>3. CASE \E b \in BOOLEAN : branch' = [branch EXCEPT ![c].exists = b]
  <2>1. PICK b \in BOOLEAN : branch' = [branch EXCEPT ![c] = [@ EXCEPT !.exists = b]]
    BY <1>3
  <2>2. [branch[c] EXCEPT !.exists = b] \in Branch
    BY <1>2 DEF Branch
  <2> QED BY <1>1, <2>1, <2>2
<1>4. CASE \E b \in BOOLEAN : branch' = [branch EXCEPT ![c].patched = b]
  <2>1. PICK b \in BOOLEAN : branch' = [branch EXCEPT ![c] = [@ EXCEPT !.patched = b]]
    BY <1>4
  <2>2. [branch[c] EXCEPT !.patched = b] \in Branch
    BY <1>2 DEF Branch
  <2> QED BY <1>1, <2>1, <2>2
<1>5. CASE \E w \in {"none", "on_branch", "rebasing"} : branch' = [branch EXCEPT ![c].worktree = w]
  <2>1. PICK w \in {"none", "on_branch", "rebasing"} :
          branch' = [branch EXCEPT ![c] = [@ EXCEPT !.worktree = w]]
    BY <1>5
  <2>2. [branch[c] EXCEPT !.worktree = w] \in Branch
    BY <1>2 DEF Branch
  <2> QED BY <1>1, <2>1, <2>2
<1>6. CASE \E f \in Commit, w \in {"none", "on_branch", "rebasing"} :
             branch' = [branch EXCEPT ![c].fork = f, ![c].worktree = w]
  <2>1. PICK f \in Commit, w \in {"none", "on_branch", "rebasing"} :
          branch' = [branch EXCEPT ![c].fork = f, ![c].worktree = w]
    BY <1>6
  <2> DEFINE moved == [branch EXCEPT ![c] = [@ EXCEPT !.fork = f]]
  <2>2. [branch[c] EXCEPT !.fork = f] \in Branch
    BY <1>2 DEF Branch
  <2>3. moved \in [Candidate -> Branch]
    BY <1>1, <2>2
  <2>4. branch' = [moved EXCEPT ![c] = [@ EXCEPT !.worktree = w]]
    BY <2>1, Zenon
  <2>5. [moved[c] EXCEPT !.worktree = w] \in Branch
    <3> HIDE DEF moved
    <3> QED BY <2>3 DEF Branch
  <2> QED
    <3> HIDE DEF moved
    <3> QED BY <2>3, <2>4, <2>5
<1> QED BY <1>3, <1>4, <1>5, <1>6

\* Every step of git keeps the types of what it moves.
LEMMA GitStepTyped == TypeOK /\ GitStep => TypeOK'
<1> SUFFICES ASSUME TypeOK, GitStep PROVE TypeOK'
  OBVIOUS
<1>0. /\ cand \in Candidate /\ branch \in [Candidate -> Branch]
      /\ step \in [Process -> {"idle"} \cup MergeStep \cup DropStep \cup CleanStep \cup Down]
      /\ \A s \in {"idle"} \cup MergeStep \cup DropStep \cup CleanStep \cup Down :
           \A p \in Process : [step EXCEPT ![p] = s]
               \in [Process -> {"idle"} \cup MergeStep \cup DropStep \cup CleanStep \cup Down]
      /\ \A l \in Life : [life EXCEPT ![cand] = l] \in [Candidate -> Life]
  BY DEF TypeOK
<1> USE DEF TypeOK, main, Goto, Then, Raise, Judged, SetWorktree
<1> USE DEF MergeStep, DropStep, CleanStep, Down, Process
<1>1. CASE Rebase
  <2>1. branch' = branch \/ branch' = [branch EXCEPT ![cand].worktree = "rebasing"]
    BY <1>1 DEF Rebase
  <2>2. branch' \in [Candidate -> Branch]
    BY <1>0, <2>1, BranchFields
  <2> QED BY <1>0, <1>1, <2>2 DEF Rebase
<1>2. CASE RebaseClean
  <2>1. branch' \in [Candidate -> Branch]
    <3>1. branch' = [branch EXCEPT ![cand].fork = Base, ![cand].worktree = "on_branch"]
      BY <1>2 DEF RebaseClean
    <3> QED BY <1>0, <3>1, Commits, BranchFields
  <2> QED BY <1>0, <1>2, <2>1 DEF RebaseClean
<1>3. CASE RebaseFails
  BY <1>0, <1>3 DEF RebaseFails
<1>4. CASE Abort
  <2>1. PICK w \in {branch[cand].worktree, aborted(branch[cand].worktree)} :
          branch' = [branch EXCEPT ![cand].worktree = w]
    BY <1>4 DEF Abort
  <2> branch[cand] \in Branch
    BY <1>0
  <2>3. w \in {"none", "on_branch", "rebasing"}
    BY DEF aborted, Branch
  <2>2. branch' \in [Candidate -> Branch]
    BY <1>0, <2>1, <2>3, BranchFields
  <2> QED BY <1>0, <1>4, <2>2 DEF Abort, Life
<1>5. CASE Checkout
  BY <1>0, <1>5, Commits DEF Checkout
<1>6. CASE FastForward
  BY <1>0, <1>6, Commits DEF FastForward
<1>7. CASE CallerInTheWay
  BY <1>0, <1>7 DEF CallerInTheWay
<1>8. CASE Repoint
  BY <1>0, <1>8 DEF Repoint, Repointed
<1>9. CASE RemoveWorktree
  <2>1. branch' = branch \/ branch' = [branch EXCEPT ![cand].worktree = "none"]
    BY <1>9 DEF RemoveWorktree
  <2>2. branch' \in [Candidate -> Branch]
    BY <1>0, <2>1, BranchFields
  <2> QED BY <1>0, <1>9, <2>2 DEF RemoveWorktree
<1>10. CASE DeleteBranch
  <2>1. branch' = branch \/ branch' = [branch EXCEPT ![cand].exists = FALSE]
    BY <1>10 DEF DeleteBranch, Delete
  <2>2. branch' \in [Candidate -> Branch]
    BY <1>0, <2>1, BranchFields
  <2>3. life' \in [Candidate -> Life]
    BY <1>0, <1>10 DEF DeleteBranch, Life
  <2> QED BY <1>0, <1>10, <2>2, <2>3 DEF DeleteBranch
<1> QED BY <1>1, <1>2, <1>3, <1>4, <1>5, <1>6, <1>7, <1>8, <1>9, <1>10 DEF GitStep

\* And so do the calls, the clean-ups, crashes, restarts and other people.
LEMMA TypeStays == TypeOK /\ [Next]_vars => TypeOK'
<1> SUFFICES ASSUME TypeOK, [Next]_vars PROVE TypeOK'
  OBVIOUS
<1> DEFINE Steps == {"idle"} \cup MergeStep \cup DropStep \cup CleanStep \cup Down
<1>0. /\ branch \in [Candidate -> Branch] /\ step \in [Process -> Steps]
      /\ \A s \in Steps : \A p \in Process : [step EXCEPT ![p] = s] \in [Process -> Steps]
      /\ \A p \in Process : left[p] \subseteq Candidate
      /\ \A s \in SUBSET Candidate : \A p \in Process :
           [left EXCEPT ![p] = s] \in [Process -> SUBSET Candidate]
      /\ \A l \in Life : \A c \in Candidate : [life EXCEPT ![c] = l] \in [Candidate -> Life]
  BY DEF TypeOK
<1> USE DEF TypeOK, main, Goto, Raise, Judged, SetWorktree, Steps
<1> USE DEF MergeStep, DropStep, CleanStep, Down
<1>1. ASSUME NEW c \in Candidate, Caller(c) PROVE TypeOK'
  <2>1. CASE create_branch(c)
    <3>1. branch' \in [Candidate -> Branch]
      BY <1>0, <2>1, Commits DEF create_branch, Branch
    <3> QED BY <1>0, <2>1, <3>1 DEF create_branch, Life
  <2>2. CASE commit_patch(c)
    BY <1>0, <2>2, BranchFields DEF commit_patch
  <2>3. CASE merge(c) \/ rollback(c)
    BY <1>0, <2>3 DEF merge, rollback, Call, Life, Process
  <2> QED BY <1>1, <2>1, <2>2, <2>3 DEF Caller
<1>2. CASE GitStep
  BY <1>2, GitStepTyped
<1>3. ASSUME NEW p \in Process, Cleanup(p) PROVE TypeOK'
  <2>1. CASE ListWorktrees(p) \/ ListHeads(p) \/ CleanupDone(p)
    <3>1. \E cs \in SUBSET Candidate, s \in Steps : Listed(p, cs, s)
      BY <2>1 DEF ListWorktrees, ListHeads, CleanupDone, Heads
    <3> QED BY <1>0, <3>1 DEF Listed
  <2>2. ASSUME NEW c \in Candidate, RemoveOrphan(p, c) PROVE TypeOK'
    <3>1. branch' = branch \/ branch' = [branch EXCEPT ![c].worktree = "none"]
      BY <2>2 DEF RemoveOrphan
    <3>2. branch' \in [Candidate -> Branch]
      BY <1>0, <3>1, BranchFields
    <3>3. step' \in [Process -> Steps] /\ left' \in [Process -> SUBSET Candidate]
      <4>1. \/ left' = [left EXCEPT ![p] = left[p] \ {c}] /\ UNCHANGED step
            \/ UNCHANGED left /\ step' = [step EXCEPT ![p] = "raised"]
        BY <2>2 DEF RemoveOrphan, Visited
      <4>2. left[p] \ {c} \in SUBSET Candidate
        BY <1>0
      <4> QED BY <1>0, <4>1, <4>2
    <3> QED BY <2>2, <3>2, <3>3 DEF RemoveOrphan, Visited
  <2>3. ASSUME NEW c \in Candidate, DeleteOrphan(p, c) PROVE TypeOK'
    <3>1. branch' = branch \/ branch' = [branch EXCEPT ![c].exists = FALSE]
      BY <2>3 DEF DeleteOrphan, Delete
    <3>2. branch' \in [Candidate -> Branch]
      BY <1>0, <3>1, BranchFields
    <3>3. step' \in [Process -> Steps] /\ left' \in [Process -> SUBSET Candidate]
      <4>1. \/ left' = [left EXCEPT ![p] = left[p] \ {c}] /\ UNCHANGED step
            \/ UNCHANGED left /\ step' = [step EXCEPT ![p] = "raised"]
        BY <2>3 DEF DeleteOrphan, Visited
      <4>2. left[p] \ {c} \in SUBSET Candidate
        BY <1>0
      <4> QED BY <1>0, <4>1, <4>2
    <3> QED BY <2>3, <3>2, <3>3 DEF DeleteOrphan, Visited
  <2> QED BY <1>3, <2>1, <2>2, <2>3 DEF Cleanup
<1>4. ASSUME NEW p \in Process, Crash(p) PROVE TypeOK'
  BY <1>0, <1>4 DEF Crash
<1>5. CASE Restart
  BY <1>0, <1>5 DEF Restart, Life, Process
<1>6. CASE StartCommand
  BY <1>0, <1>6 DEF StartCommand, Process
<1>7. ASSUME NEW u \in Upstream, Pull(u) PROVE TypeOK'
  BY <1>0, <1>7 DEF Pull, Commit
<1>8. CASE UNCHANGED vars
  BY <1>8 DEF vars
<1> QED BY <1>1, <1>2, <1>3, <1>4, <1>5, <1>6, <1>7, <1>8 DEF Next

-----------------------------------------------------------------------------
(* The candidates *)

\* Whose operation is under way, and that no operation is under way while the
\* start-up clean-up runs; a worktree always has its branch.
Placed ==
  /\ \A c \in Candidate :
       /\ life[c] = "merging" => c = cand /\ step["run"] \in MergeStep \cup DropStep \cup Down
       /\ step["run"] \in CleanStep => life[c] \notin {"open", "merging", "conflict"}
       /\ HasWorktree(c) => branch[c].exists
  /\ step["run"] \in MergeStep => life[cand] = "merging"
  /\ step["run"] \in DropStep => life[cand] \in {"merging", "discarded"}

\* A branch is deleted only once its worktree has gone, and everything else
\* that happens leaves the pair as it is, or creates both.
LEMMA WorktreeHasBranch ==
  ASSUME TypeOK, Placed, [Next]_vars
  PROVE  \A c \in Candidate : HasWorktree(c)' => branch'[c].exists
<1> SUFFICES ASSUME NEW d \in Candidate, HasWorktree(d)' PROVE branch'[d].exists
  OBVIOUS
<1>0. branch \in [Candidate -> Branch] /\ cand \in Candidate /\ (HasWorktree(d) => branch[d].exists)
  BY DEF TypeOK, Placed
<1> USE DEF HasWorktree, SetWorktree, Branch
<1>1. ASSUME NEW c \in Candidate, Caller(c) PROVE branch'[d].exists
  BY <1>0, <1>1 DEF Caller, create_branch, commit_patch, merge, rollback, Call
<1>2. CASE GitStep
  <2>1. CASE Rebase
    BY <1>0, <2>1 DEF Rebase, Then, Raise
  <2>2. CASE RebaseClean
    BY <1>0, <2>2 DEF RebaseClean
  <2>3. CASE Abort
    BY <1>0, <2>3 DEF Abort, aborted
  <2>4. CASE RebaseFails \/ Checkout \/ FastForward \/ CallerInTheWay \/ Repoint
    BY <1>0, <2>4 DEF RebaseFails, Checkout, FastForward, CallerInTheWay, Repoint, Raise
  <2>5. CASE RemoveWorktree
    BY <1>0, <2>5 DEF RemoveWorktree, Raise
  <2>6. CASE DeleteBranch
    BY <1>0, <2>6 DEF DeleteBranch, Delete, Deletable, Raise
  <2> QED BY <1>2, <2>1, <2>2, <2>3, <2>4, <2>5, <2>6 DEF GitStep
<1>3. ASSUME NEW p \in Process, Cleanup(p) PROVE branch'[d].exists
  <2>1. CASE ListWorktrees(p) \/ ListHeads(p) \/ CleanupDone(p)
    BY <1>0, <2>1 DEF ListWorktrees, ListHeads, CleanupDone, Listed
  <2>2. ASSUME NEW c \in Candidate, RemoveOrphan(p, c) PROVE branch'[d].exists
    BY <1>0, <2>2 DEF RemoveOrphan, Raise
  <2>3. ASSUME NEW c \in Candidate, DeleteOrphan(p, c) PROVE branch'[d].exists
    BY <1>0, <2>3 DEF DeleteOrphan, Delete, Deletable, Raise
  <2> QED BY <1>3, <2>1, <2>2, <2>3 DEF Cleanup
<1>4. CASE \/ \E p \in Process : Crash(p)
           \/ Restart \/ StartCommand
           \/ \E u \in Upstream : Pull(u)
           \/ UNCHANGED vars
  BY <1>0, <1>4 DEF Crash, Restart, StartCommand, Pull, vars
<1> QED BY <1>1, <1>2, <1>3, <1>4 DEF Next

\* One operation at a time: each leaves its candidate where it says.
LEMMA PlacedStays == TypeOK /\ Placed /\ [Next]_vars => Placed'
<1> SUFFICES ASSUME TypeOK, Placed, [Next]_vars PROVE Placed'
  OBVIOUS
<1>0. /\ cand \in Candidate /\ "run" \in Process /\ life \in [Candidate -> Life]
      /\ step \in [Process -> {"idle"} \cup MergeStep \cup DropStep \cup CleanStep \cup Down]
  BY DEF TypeOK, Process
<1> DEFINE
     InOrder ==
       /\ \A c \in Candidate :
            /\ life[c] = "merging" => c = cand /\ step["run"] \in MergeStep \cup DropStep \cup Down
            /\ step["run"] \in CleanStep => life[c] \notin {"open", "merging", "conflict"}
       /\ step["run"] \in MergeStep => life[cand] = "merging"
       /\ step["run"] \in DropStep => life[cand] \in {"merging", "discarded"}
<1>00. InOrder
  BY DEF Placed
<1> SUFFICES InOrder'
  BY WorktreeHasBranch DEF Placed
<1> USE DEF MergeStep, DropStep, CleanStep, Down, At, Goto, Then, Raise, Judged, Life
<1>1. ASSUME NEW c \in Candidate, Caller(c) PROVE InOrder'
  <2>1. CASE create_branch(c) \/ commit_patch(c)
    BY <1>0, <1>00, <2>1 DEF create_branch, commit_patch
  <2>2. CASE merge(c) \/ rollback(c)
    <3>1. /\ step["run"] = "idle" /\ cand' = c
          /\ \/ life[c] = "open" /\ step'["run"] = "rebase" /\ life' = [life EXCEPT ![c] = "merging"]
             \/ step'["run"] = "remove" /\ life' = [life EXCEPT ![c] = "discarded"]
      BY <1>0, <2>2 DEF merge, rollback, Call
    <3>2. \A d \in Candidate : life[d] # "merging"
      BY <1>00, <3>1
    <3> QED BY <1>0, <3>1, <3>2
  <2> QED BY <1>1, <2>1, <2>2 DEF Caller
<1>2. CASE GitStep
  <2>1. CASE Rebase \/ RebaseClean \/ RebaseFails \/ Checkout \/ FastForward \/ CallerInTheWay
    <3>1. UNCHANGED <<life, cand>> /\ step["run"] \in MergeStep /\ step'["run"] \in MergeStep \cup Down
      BY <1>0, <2>1 DEF Rebase, RebaseClean, RebaseFails, Checkout, FastForward, CallerInTheWay
    <3> QED BY <1>0, <1>00, <3>1
  <2>2. CASE Abort
    BY <1>0, <1>00, <2>2 DEF Abort
  <2>3. CASE Repoint
    BY <1>0, <1>00, <2>3 DEF Repoint
  <2>4. CASE RemoveWorktree
    BY <1>0, <1>00, <2>4 DEF RemoveWorktree
  <2>5. CASE DeleteBranch
    BY <1>0, <1>00, <2>5 DEF DeleteBranch
  <2> QED BY <1>2, <2>1, <2>2, <2>3, <2>4, <2>5 DEF GitStep
<1>3. ASSUME NEW p \in Process, Cleanup(p) \/ Crash(p) PROVE InOrder'
  <2>1. UNCHANGED <<life, cand>>
    BY <1>3 DEF Cleanup, Crash, ListWorktrees, ListHeads, CleanupDone, Listed, RemoveOrphan,
                DeleteOrphan, Visited
  <2>2. \/ p = "run" /\ step["run"] \in CleanStep
           /\ step'["run"] \in CleanStep \cup Down \cup {"idle"}
        \/ p = "run" /\ step'["run"] \in Down
        \/ p # "run" /\ step'["run"] = step["run"]
    BY <1>0, <1>3 DEF Cleanup, Crash, ListWorktrees, ListHeads, CleanupDone, Listed, RemoveOrphan,
                DeleteOrphan, Visited
  <2> QED BY <1>0, <1>00, <2>1, <2>2
<1>4. CASE Restart
  BY <1>0, <1>00, <1>4 DEF Restart
<1>5. CASE StartCommand
  <2>1. UNCHANGED <<life, cand>> /\ step'["run"] = step["run"]
    BY <1>0, <1>5 DEF StartCommand
  <2> QED BY <1>00, <2>1
<1>6. CASE (\E u \in Upstream : Pull(u)) \/ UNCHANGED vars
  BY <1>00, <1>6 DEF Pull, vars
<1> QED BY <1>1, <1>2, <1>3, <1>4, <1>5, <1>6 DEF Next

-----------------------------------------------------------------------------
(* The line of development *)

\* What the run takes for the line of development is the line of development,
\* except for the moment between a detached fast-forward and the re-pointing.
Pointed ==
  /\ tracks => /\ headOn = "target" => head = target
               /\ step["run"] \in {"ff", "repoint"} => headOn = "target"
  /\ ~tracks /\ step["run"] \notin Down \cup {"repoint"} => pinned = head

\* A fork starts from a commit of the line, which does not yet hold the
\* candidate, and a candidate is on the line only when it is merged or a merge
\* came that far.
OnLine(c) ==
  \/ life[c] \in {"merged", "orphan"}
  \/ life[c] = "merging" /\ step["run"] \in {"repoint"} \cup DropStep \cup Down

Rooted ==
  \A c \in Candidate :
    /\ IsPrefix(branch[c].fork, Landed)
    /\ c \notin ToSet(branch[c].fork)
    /\ c \in ToSet(Landed) => OnLine(c)

\* While the run is up, a branch is based on the line itself.
LEMMA BaseIsLanded ==
  Pointed /\ step["run"] \notin Down \cup {"repoint"} => Base = Landed
BY DEF Pointed, Base, Landed

\* The line moves only when a merge fast-forwards it by the candidate's one
\* commit, or somebody else commits.
LEMMA LineMoves ==
  ASSUME TypeOK, Placed, Pointed, Rooted, [Next]_vars
  PROVE  \/ UNCHANGED Landed
         \/ /\ FastForward /\ Landed' = Append(Landed, cand)
            /\ cand \notin ToSet(Landed) /\ life[cand] = "merging"
         \/ \E u \in Upstream : Pull(u) /\ Landed' = Append(Landed, u) /\ u \notin ToSet(Landed)
<1> SUFFICES ASSUME ~UNCHANGED Landed
             PROVE  \/ /\ FastForward /\ Landed' = Append(Landed, cand)
                       /\ cand \notin ToSet(Landed) /\ life[cand] = "merging"
                    \/ \E u \in Upstream :
                         Pull(u) /\ Landed' = Append(Landed, u) /\ u \notin ToSet(Landed)
  OBVIOUS
<1> USE DEF Landed, main
<1>1. CASE \E c \in Candidate : Caller(c)
  BY <1>1 DEF Caller, create_branch, commit_patch, merge, rollback, Call
<1>2. CASE GitStep
  <2>1. CASE Rebase \/ RebaseClean \/ RebaseFails \/ Abort \/ CallerInTheWay \/ Repoint
             \/ RemoveWorktree \/ DeleteBranch
    BY <2>1 DEF Rebase, RebaseClean, RebaseFails, Abort, CallerInTheWay, Repoint,
                RemoveWorktree, DeleteBranch, Raise, Then
  <2>2. CASE Checkout
    BY <2>2 DEF Checkout, At, Pointed, Base, Down
  <2>3. CASE FastForward
    <3>0. /\ step["run"] = "ff" /\ cand \in Candidate
          /\ target \in Commit /\ head \in Commit /\ branch[cand].fork \in Commit
          /\ life[cand] = "merging"
      BY <2>3 DEF FastForward, At, TypeOK, Branch, Placed, MergeStep
    <3>1. CanForward(cand) /\ head' = Forwarded(cand) /\ target' = (IF tracks THEN head' ELSE target)
      BY <2>3 DEF FastForward, Raise
    <3>2. Landed = head /\ Landed' = head' /\ head' # head
      BY <2>3, <3>0, <3>1 DEF Pointed, FastForward
    <3>3. IsPrefix(head, Tip(cand)) /\ head' = Tip(cand)
      BY <3>1, <3>2 DEF Forwarded
    <3>4. IsPrefix(branch[cand].fork, head)
      BY <3>0, <3>2 DEF Rooted
    <3>5. head' = Append(head, cand)
      <4> DEFINE f == branch[cand].fork
      <4>1. f \in Seq(Candidate \cup Upstream) /\ head \in Seq(Candidate \cup Upstream)
        BY <3>0 DEF Commit
      <4>2. CASE branch[cand].patched
        <5>1. IsPrefix(head, Append(f, cand))
          BY <3>3, <4>2 DEF Tip
        <5>2. head = f \/ head = Append(f, cand)
          BY <3>0, <3>4, <4>1, <5>1, NothingBetween
        <5> QED BY <3>2, <3>3, <4>2, <5>2 DEF Tip
      <4>3. CASE ~branch[cand].patched
        <5>1. IsPrefix(head, f) /\ head' = f
          BY <3>3, <4>3 DEF Tip
        <5>2. Len(f) = Len(head) /\ \A i \in 1..Len(f) : f[i] = head[i]
          <6>1. /\ Len(f) <= Len(head) /\ Len(head) <= Len(f)
                /\ \A i \in 1..Len(f) : f[i] = head[i]
            BY <3>4, <4>1, <5>1, PrefixMeans
          <6>2. Len(f) \in Nat /\ Len(head) \in Nat
            BY <4>1
          <6> QED BY <6>1, <6>2
        <5>3. f = head
          BY <4>1, <5>2
        <5> QED BY <3>2, <5>1, <5>3
      <4> QED BY <4>2, <4>3
    <3>6. cand \notin ToSet(Landed)
      BY <3>0 DEF Rooted, OnLine, DropStep, Down
    <3> QED BY <2>3, <3>0, <3>2, <3>5, <3>6
  <2> QED BY <1>2, <2>1, <2>2, <2>3 DEF GitStep
<1>3. CASE \/ \E p \in Process : Cleanup(p) \/ Crash(p)
           \/ Restart \/ StartCommand \/ UNCHANGED vars
  BY <1>3 DEF Cleanup, Crash, ListWorktrees, ListHeads, CleanupDone, Listed, RemoveOrphan,
              DeleteOrphan, Visited, Raise, Restart, StartCommand, vars
<1>4. ASSUME NEW u \in Upstream, Pull(u)
      PROVE  Landed' = Append(Landed, u) /\ u \notin ToSet(Landed)
  BY <1>4 DEF Pull
<1> QED BY <1>1, <1>2, <1>3, <1>4 DEF Next

\* Checking out the line puts the caller on it, and every merge moves both.
LEMMA PointedStays == TypeOK /\ Pointed /\ [Next]_vars => Pointed'
<1> SUFFICES ASSUME TypeOK, Pointed, [Next]_vars PROVE Pointed'
  OBVIOUS
<1>0. step \in [Process -> {"idle"} \cup MergeStep \cup DropStep \cup CleanStep \cup Down]
      /\ "run" \in Process
  BY DEF TypeOK, Process
<1> USE DEF Pointed, main, At, Goto, Then, Raise, MergeStep, DropStep, CleanStep, Down
<1>1. ASSUME NEW c \in Candidate, Caller(c) PROVE Pointed'
  BY <1>0, <1>1 DEF Caller, create_branch, commit_patch, merge, rollback, Call
<1>2. CASE GitStep
  <2>1. CASE \/ Rebase \/ RebaseClean \/ RebaseFails \/ Abort \/ CallerInTheWay
             \/ RemoveWorktree \/ DeleteBranch
    <3>1. /\ UNCHANGED <<main, pinned>> /\ step["run"] \notin Down \cup {"repoint"}
          /\ step'["run"] \notin {"ff", "repoint"}
      BY <1>0, <2>1 DEF Rebase, RebaseClean, RebaseFails, Abort, CallerInTheWay,
                        RemoveWorktree, DeleteBranch
    <3> QED BY <3>1
  <2>2. CASE Checkout
    BY <1>0, <2>2 DEF Checkout, Base
  <2>3. CASE FastForward
    BY <1>0, <2>3 DEF FastForward
  <2>4. CASE Repoint
    BY <1>0, <2>4 DEF Repoint, Repointed
  <2> QED BY <1>2, <2>1, <2>2, <2>3, <2>4 DEF GitStep
<1>3. ASSUME NEW p \in Process, Cleanup(p) \/ Crash(p) PROVE Pointed'
  <2>1. UNCHANGED <<main, pinned>>
    BY <1>3 DEF Cleanup, Crash, ListWorktrees, ListHeads, CleanupDone, Listed, RemoveOrphan,
                DeleteOrphan, Visited
  <2>2. \/ p = "run" /\ step["run"] \in CleanStep
           /\ step'["run"] \in CleanStep \cup Down \cup {"idle"}
        \/ p = "run" /\ step'["run"] \in Down
        \/ p # "run" /\ step'["run"] = step["run"]
    BY <1>0, <1>3 DEF Cleanup, Crash, ListWorktrees, ListHeads, CleanupDone, Listed, RemoveOrphan,
                DeleteOrphan, Visited
  <2> QED BY <1>0, <2>1, <2>2
<1>4. CASE Restart
  BY <1>0, <1>4 DEF Restart
<1>5. CASE StartCommand
  <2>1. UNCHANGED <<main, pinned>> /\ step'["run"] = step["run"]
    BY <1>0, <1>5 DEF StartCommand
  <2> QED BY <2>1
<1>6. CASE (\E u \in Upstream : Pull(u)) \/ UNCHANGED vars
  BY <1>6 DEF Pull, vars
<1> QED BY <1>1, <1>2, <1>3, <1>4, <1>5, <1>6 DEF Next

\* A branch is forked, or rebased, from the line as it is, by a candidate that
\* is not on it; nothing else moves a fork.
LEMMA ForkMoves ==
  ASSUME TypeOK, Placed, Pointed, Rooted, [Next]_vars, NEW d \in Candidate
  PROVE  \/ branch'[d].fork = branch[d].fork
         \/ branch'[d].fork = Landed /\ UNCHANGED Landed /\ d \notin ToSet(Landed)
<1>0. branch \in [Candidate -> Branch] /\ cand \in Candidate
  BY DEF TypeOK
<1> USE DEF SetWorktree, Branch
<1>1. ASSUME NEW c \in Candidate, Caller(c)
      PROVE  \/ branch'[d].fork = branch[d].fork
             \/ branch'[d].fork = Landed /\ UNCHANGED Landed /\ d \notin ToSet(Landed)
  <2>1. CASE create_branch(c)
    <3>1. Base = Landed
      BY <2>1, BaseIsLanded DEF create_branch, At, Down
    <3>2. c \notin ToSet(Landed)
      BY <2>1 DEF create_branch, Rooted, OnLine
    <3> QED BY <1>0, <2>1, <3>1, <3>2 DEF create_branch, main, Landed
  <2>2. CASE commit_patch(c) \/ merge(c) \/ rollback(c)
    BY <1>0, <2>2 DEF commit_patch, merge, rollback, Call
  <2> QED BY <1>1, <2>1, <2>2 DEF Caller
<1>2. CASE GitStep
  <2>1. CASE RebaseClean
    <3>1. Base = Landed /\ step["run"] = "resolve" /\ life[cand] = "merging"
      BY <2>1, BaseIsLanded DEF RebaseClean, At, Down, Placed, MergeStep
    <3>2. cand \notin ToSet(Landed)
      BY <1>0, <3>1 DEF Rooted, OnLine, DropStep, Down
    <3>3. branch' = [branch EXCEPT ![cand].fork = Base, ![cand].worktree = "on_branch"]
      BY <2>1 DEF RebaseClean
    <3>4. branch'[d].fork = IF d = cand THEN Base ELSE branch[d].fork
      BY <1>0, <3>3
    <3> QED BY <2>1, <3>1, <3>2, <3>4 DEF RebaseClean, main, Landed
  <2>2. CASE Rebase \/ RebaseFails \/ Checkout \/ FastForward \/ CallerInTheWay \/ Repoint
    BY <1>0, <2>2 DEF Rebase, RebaseFails, Checkout, FastForward, CallerInTheWay, Repoint, Raise
  <2>3. CASE Abort \/ RemoveWorktree \/ DeleteBranch
    BY <1>0, <2>3 DEF Abort, RemoveWorktree, DeleteBranch, Delete, Raise
  <2> QED BY <1>2, <2>1, <2>2, <2>3 DEF GitStep
<1>3. ASSUME NEW p \in Process, Cleanup(p) PROVE branch'[d].fork = branch[d].fork
  <2>1. CASE ListWorktrees(p) \/ ListHeads(p) \/ CleanupDone(p)
    BY <1>0, <2>1 DEF ListWorktrees, ListHeads, CleanupDone, Listed
  <2>2. ASSUME NEW c \in Candidate, RemoveOrphan(p, c) PROVE branch'[d].fork = branch[d].fork
    BY <1>0, <2>2 DEF RemoveOrphan, Raise
  <2>3. ASSUME NEW c \in Candidate, DeleteOrphan(p, c) PROVE branch'[d].fork = branch[d].fork
    BY <1>0, <2>3 DEF DeleteOrphan, Delete, Raise
  <2> QED BY <1>3, <2>1, <2>2, <2>3 DEF Cleanup
<1>4. CASE \/ \E p \in Process : Crash(p)
           \/ Restart \/ StartCommand
           \/ \E u \in Upstream : Pull(u)
           \/ UNCHANGED vars
  BY <1>0, <1>4 DEF Crash, Restart, StartCommand, Pull, vars
<1> QED BY <1>1, <1>2, <1>3, <1>4 DEF Next

\* A candidate that is on the line is never open, conflicting or discarded again.
LEMMA OnLineStays ==
  ASSUME TypeOK, Placed, [Next]_vars, NEW d \in Candidate, OnLine(d)
  PROVE  OnLine(d)'
<1>0. /\ life \in [Candidate -> Life] /\ cand \in Candidate /\ "run" \in Process
      /\ step \in [Process -> {"idle"} \cup MergeStep \cup DropStep \cup CleanStep \cup Down]
      /\ life[d] = "merging" => d = cand
  BY DEF TypeOK, Process, Placed
<1> USE DEF OnLine, DropStep, Down, MergeStep, CleanStep, At, Goto, Then, Raise, Judged
<1>1. ASSUME NEW c \in Candidate, Caller(c) PROVE OnLine(d)'
  BY <1>0, <1>1 DEF Caller, create_branch, commit_patch, merge, rollback, Call
<1>2. CASE GitStep
  <2>1. CASE \/ Rebase \/ RebaseClean \/ RebaseFails \/ Checkout \/ FastForward
             \/ CallerInTheWay \/ Repoint \/ RemoveWorktree
    BY <1>0, <2>1 DEF Rebase, RebaseClean, RebaseFails, Checkout, FastForward, CallerInTheWay,
                      Repoint, RemoveWorktree
  <2>2. CASE Abort
    BY <1>0, <2>2 DEF Abort, Placed
  <2>3. CASE DeleteBranch
    BY <1>0, <2>3 DEF DeleteBranch
  <2> QED BY <1>2, <2>1, <2>2, <2>3 DEF GitStep
<1>3. ASSUME NEW p \in Process, Cleanup(p) \/ Crash(p) PROVE OnLine(d)'
  <2>1. UNCHANGED life
    BY <1>3 DEF Cleanup, Crash, ListWorktrees, ListHeads, CleanupDone, Listed, RemoveOrphan,
                DeleteOrphan, Visited
  <2>2. \/ p = "run" /\ step["run"] \in CleanStep
        \/ p = "run" /\ step'["run"] \in Down
        \/ p # "run" /\ step'["run"] = step["run"]
    BY <1>0, <1>3 DEF Cleanup, Crash, ListWorktrees, ListHeads, CleanupDone, Listed, RemoveOrphan,
                DeleteOrphan, Visited
  <2> QED BY <1>0, <2>1, <2>2
<1>4. CASE Restart
  BY <1>0, <1>4 DEF Restart
<1>5. CASE StartCommand
  <2>1. UNCHANGED life /\ step'["run"] = step["run"]
    BY <1>0, <1>5 DEF StartCommand
  <2> QED BY <2>1
<1>6. CASE (\E u \in Upstream : Pull(u)) \/ UNCHANGED vars
  BY <1>6 DEF Pull, vars
<1> QED BY <1>1, <1>2, <1>3, <1>4, <1>5, <1>6 DEF Next

\* However the line moves, every fork stays rooted in it.
LEMMA RootedStays == TypeOK /\ Placed /\ Pointed /\ Rooted /\ [Next]_vars => Rooted'
<1> SUFFICES ASSUME TypeOK, Placed, Pointed, Rooted, [Next]_vars, NEW c \in Candidate
             PROVE  /\ IsPrefix(branch'[c].fork, Landed')
                    /\ c \notin ToSet(branch'[c].fork)
                    /\ c \in ToSet(Landed') => OnLine(c)'
  BY DEF Rooted
<1> DEFINE S == Candidate \cup Upstream
<1>0. Landed \in Seq(S) /\ branch[c].fork \in Seq(S) /\ cand \in Candidate
  BY Commits DEF Commit, TypeOK, Branch
<1>1. /\ IsPrefix(branch[c].fork, Landed) /\ c \notin ToSet(branch[c].fork)
      /\ c \in ToSet(Landed) => OnLine(c)
  BY DEF Rooted
<1>2. CASE UNCHANGED Landed
  <2>1. IsPrefix(Landed, Landed)
    BY <1>0, PrefixOfItself
  <2> QED BY <1>1, <1>2, <2>1, ForkMoves, OnLineStays
<1>3. ASSUME NEW e \in S, Landed' = Append(Landed, e), c = e => OnLine(c)',
             branch'[c].fork = branch[c].fork
      PROVE  /\ IsPrefix(branch'[c].fork, Landed')
             /\ c \notin ToSet(branch'[c].fork)
             /\ c \in ToSet(Landed') => OnLine(c)'
  <2>1. ToSet(Landed') = ToSet(Landed) \cup {e}
    BY <1>0, <1>3, ToSetOfAppend
  <2>2. IsPrefix(branch[c].fork, Append(Landed, e))
    BY <1>0, <1>1, PrefixGrows
  <2> QED BY <1>1, <1>3, <2>1, <2>2, OnLineStays
<1>4. ASSUME FastForward, Landed' = Append(Landed, cand), life[cand] = "merging",
             ~UNCHANGED Landed
      PROVE  /\ IsPrefix(branch'[c].fork, Landed')
             /\ c \notin ToSet(branch'[c].fork)
             /\ c \in ToSet(Landed') => OnLine(c)'
  <2>1. OnLine(cand)'
    <3>1. UNCHANGED <<life, cand>> /\ step'["run"] \in {"repoint"} \cup Down
      BY <1>4 DEF FastForward, Then, Raise, Goto, Down, TypeOK, Process
    <3> QED BY <1>4, <3>1 DEF OnLine
  <2>2. cand' = cand
    BY <1>4 DEF FastForward, Then, Raise
  <2>3. OnLine(cand)' => (c = cand => OnLine(c)')
    BY <2>2 DEF OnLine
  <2> QED BY <1>0, <1>3, <1>4, <2>1, <2>3, ForkMoves
<1>5. ASSUME NEW u \in Upstream, Pull(u), Landed' = Append(Landed, u), ~UNCHANGED Landed
      PROVE  /\ IsPrefix(branch'[c].fork, Landed')
             /\ c \notin ToSet(branch'[c].fork)
             /\ c \in ToSet(Landed') => OnLine(c)'
  <2>1. c # u
    BY DistinctAssumption
  <2> QED BY <1>3, <1>5, <2>1, ForkMoves
<1> QED BY <1>2, <1>4, <1>5, LineMoves

\* The four together.
IInv == TypeOK /\ Placed /\ Pointed /\ Rooted

\* A fresh harness has nothing in any place.
LEMMA InitIInv == Init => IInv
<1> SUFFICES ASSUME Init PROVE IInv
  OBVIOUS
<1>1. <<>> \in Commit /\ ToSet(<<>>) = {} /\ IsPrefix(<<>>, <<>>)
  <2>1. <<>> \in Seq(Candidate \cup Upstream)
    OBVIOUS
  <2>2. IsPrefix(<<>>, <<>>)
    BY <2>1, PrefixOfItself
  <2>3. ToSet(<<>>) = {}
    BY DEF ToSet
  <2> QED BY <2>1, <2>2, <2>3 DEF Commit
<1>2. Landed = <<>> /\ step["run"] = "list"
  BY DEF Init, Landed, Process
<1>3. TypeOK
  BY <1>1 DEF Init, TypeOK, Branch, Life, Process, MergeStep, DropStep, CleanStep, Down
<1>4. Placed
  BY <1>2 DEF Init, Placed, HasWorktree, MergeStep, DropStep, CleanStep
<1>5. Pointed
  BY <1>2 DEF Init, Pointed
<1>6. Rooted
  BY <1>1, <1>2 DEF Init, Rooted
<1> QED BY <1>3, <1>4, <1>5, <1>6 DEF IInv

\* All of it holds throughout.
LEMMA Invariant == Spec => []IInv
<1>1. IInv /\ [Next]_vars => IInv'
  BY TypeStays, PlacedStays, PointedStays, RootedStays DEF IInv
<1> QED BY <1>1, InitIInv, PTL DEF Spec

\* Every variable of the git controller has its type.
THEOREM TypeCorrect == Spec => []TypeOK
<1>1. IInv => TypeOK
  BY DEF IInv
<1> QED BY <1>1, Invariant, PTL

\* A worktree never holds another candidate's work unless that was merged
\* (create_branch, merge: everything starts from original_branch).
THEOREM CandidatesAreIsolated == Spec => []Isolated
<1>1. IInv => Isolated
  <2> SUFFICES ASSUME IInv, NEW c \in Candidate, NEW d \in ToSet(branch[c].fork)
               PROVE  d \in ToSet(Landed)
    BY DEF Isolated
  <2>1. IsPrefix(branch[c].fork, Landed)
    BY DEF IInv, Rooted
  <2>2. Landed \in Seq(Candidate \cup Upstream) /\ branch[c].fork \in Seq(Candidate \cup Upstream)
    BY Commits DEF IInv, TypeOK, Branch, Commit
  <2>3. ToSet(branch[c].fork) \subseteq ToSet(Landed)
    <3>1. \A e \in Candidate \cup Upstream : ToSet(branch[c].fork) \subseteq ToSet(Landed)
      BY <2>1, <2>2, PrefixGrows
    <3> QED BY <3>1
  <2> QED BY <2>3
<1> QED BY <1>1, Invariant, PTL

-----------------------------------------------------------------------------
(* The ledger *)

\* A rollback is the only call that gives a candidate up, and gives up only
\* what never landed.
LEMMA DiscardMoves ==
  ASSUME IInv, [Next]_vars
  PROVE  \/ {c \in Candidate : life'[c] = "discarded"} = {c \in Candidate : life[c] = "discarded"}
         \/ \E c \in Candidate :
              /\ rollback(c) /\ c \notin ToSet(Landed)
              /\ {d \in Candidate : life'[d] = "discarded"}
                   = {d \in Candidate : life[d] = "discarded"} \cup {c}
<1>0. life \in [Candidate -> Life] /\ cand \in Candidate
  BY DEF IInv, TypeOK
<1>1. ASSUME NEW c \in Candidate, rollback(c)
      PROVE  /\ c \notin ToSet(Landed)
             /\ {d \in Candidate : life'[d] = "discarded"}
                  = {d \in Candidate : life[d] = "discarded"} \cup {c}
  <2>1. life[c] \in {"open", "conflict"} /\ life' = [life EXCEPT ![c] = "discarded"]
    BY <1>1 DEF rollback, Call, Judged
  <2>2. c \notin ToSet(Landed)
    BY <2>1 DEF IInv, Rooted, OnLine
  <2> QED BY <1>0, <2>1, <2>2
<1>2. ASSUME \A c \in Candidate : ~rollback(c)
      PROVE  \A d \in Candidate : life'[d] = "discarded" <=> life[d] = "discarded"
  <2>1. ASSUME NEW c \in Candidate, Caller(c)
        PROVE  \A d \in Candidate : life'[d] = "discarded" <=> life[d] = "discarded"
    BY <1>0, <1>2, <2>1 DEF Caller, create_branch, commit_patch, merge, Call, Judged
  <2>2. CASE GitStep
    <3>1. CASE Abort
      <4>1. life[cand] = "merging" /\ life' = [life EXCEPT ![cand] = "conflict"]
        BY <3>1 DEF Abort, At, Judged, IInv, Placed, MergeStep
      <4> QED BY <1>0, <4>1
    <3>2. CASE DeleteBranch
      BY <1>0, <3>2 DEF DeleteBranch, Judged, Raise
    <3>3. CASE \/ Rebase \/ RebaseClean \/ RebaseFails \/ Checkout \/ FastForward
               \/ CallerInTheWay \/ Repoint \/ RemoveWorktree
      BY <3>3 DEF Rebase, RebaseClean, RebaseFails, Checkout, FastForward, CallerInTheWay,
                  Repoint, RemoveWorktree, Then, Raise
    <3> QED BY <2>2, <3>1, <3>2, <3>3 DEF GitStep
  <2>3. CASE Restart
    BY <1>0, <2>3 DEF Restart
  <2>4. CASE \/ \E p \in Process : Cleanup(p) \/ Crash(p)
             \/ StartCommand
             \/ \E u \in Upstream : Pull(u)
             \/ UNCHANGED vars
    BY <2>4 DEF Cleanup, Crash, ListWorktrees, ListHeads, CleanupDone, Listed, RemoveOrphan,
                DeleteOrphan, Visited, Raise, StartCommand, Pull, vars
  <2> QED BY <2>1, <2>2, <2>3, <2>4 DEF Next
<1> QED BY <1>1, <1>2

\* Every step lands one candidate, gives one up, takes one commit of somebody
\* else's, or is none of the ledger's business.
LEMMA LedgerStep ==
  ASSUME IInv, [Next]_vars
  PROVE  [Ledger!Next]_(<<Landed, {c \in Candidate : life[c] = "discarded"}>>)
<1> DEFINE discarded == {c \in Candidate : life[c] = "discarded"}
<1>1. CASE UNCHANGED Landed
  <2>1. CASE UNCHANGED discarded
    BY <1>1, <2>1
  <2>2. CASE ~UNCHANGED discarded
    <3>1. PICK c \in Candidate : c \notin ToSet(Landed) /\ discarded' = discarded \cup {c}
      BY <2>2, DiscardMoves
    <3>2. Ledger!Discard(c)
      BY <1>1, <3>1 DEF Ledger!Discard, Ledger!ToSet, ToSet
    <3> QED BY <3>2 DEF Ledger!Next
  <2> QED BY <2>1, <2>2
<1>2. CASE /\ FastForward /\ Landed' = Append(Landed, cand)
           /\ cand \notin ToSet(Landed) /\ life[cand] = "merging"
  <2>1. UNCHANGED discarded
    BY <1>2 DEF FastForward, Then, Raise
  <2>2. cand \in Candidate /\ cand \notin discarded
    BY <1>2 DEF IInv, TypeOK
  <2>3. Ledger!Land(cand)
    BY <1>2, <2>1, <2>2 DEF Ledger!Land, Ledger!ToSet, ToSet
  <2> QED BY <2>2, <2>3 DEF Ledger!Next
<1>3. ASSUME NEW u \in Upstream, Pull(u), Landed' = Append(Landed, u), u \notin ToSet(Landed)
      PROVE  Ledger!Next
  <2>1. UNCHANGED discarded
    BY <1>3 DEF Pull
  <2>2. Ledger!Pull(u)
    BY <1>3, <2>1 DEF Ledger!Pull, Ledger!ToSet, ToSet
  <2> QED BY <2>2 DEF Ledger!Next
<1> QED BY <1>1, <1>2, <1>3, LineMoves DEF IInv

\* Worktrees, rebases, refused fast-forwards, crashes and clean-ups included,
\* the controller keeps the ledger's promise.
THEOREM KeepsTheLedger == Spec => ImplementsLedger
<1>1. Init => Ledger!Init
  BY DEF Init, Ledger!Init, Landed
<1> QED BY <1>1, LedgerStep, Invariant, PTL DEF Spec, ImplementsLedger, Ledger!Spec

-----------------------------------------------------------------------------
(* What merge, rollback and the clean-up leave *)

\* From the fast-forward on, what the merge was about is in place.
PastForward(c) ==
  life[c] = "merged" \/ (life[c] = "merging" /\ step["run"] \in {"repoint"} \cup DropStep)

InPlace == \A c \in Candidate : PastForward(c) /\ branch[c].patched => c \in ToSet(Landed)

\* Only an open candidate is ever committed.
LEMMA PatchedMoves ==
  ASSUME TypeOK, [Next]_vars, NEW d \in Candidate
  PROVE  branch'[d].patched = branch[d].patched \/ life'[d] = "open"
<1>0. branch \in [Candidate -> Branch] /\ cand \in Candidate /\ life \in [Candidate -> Life]
  BY DEF TypeOK
<1> USE DEF SetWorktree, Branch
<1>1. ASSUME NEW c \in Candidate, Caller(c)
      PROVE  branch'[d].patched = branch[d].patched \/ life'[d] = "open"
  BY <1>0, <1>1 DEF Caller, create_branch, commit_patch, merge, rollback, Call, Judged
<1>2. CASE GitStep
  <2>1. CASE RebaseClean
    <3>1. branch' = [branch EXCEPT ![cand].fork = Base, ![cand].worktree = "on_branch"]
      BY <2>1 DEF RebaseClean
    <3> QED BY <1>0, <3>1
  <2>2. CASE Rebase \/ RebaseFails \/ Checkout \/ FastForward \/ CallerInTheWay \/ Repoint
    BY <1>0, <2>2 DEF Rebase, RebaseFails, Checkout, FastForward, CallerInTheWay, Repoint, Raise
  <2>3. CASE Abort \/ RemoveWorktree \/ DeleteBranch
    BY <1>0, <2>3 DEF Abort, RemoveWorktree, DeleteBranch, Delete, Raise
  <2> QED BY <1>2, <2>1, <2>2, <2>3 DEF GitStep
<1>3. ASSUME NEW p \in Process, Cleanup(p) PROVE branch'[d].patched = branch[d].patched
  <2>1. CASE ListWorktrees(p) \/ ListHeads(p) \/ CleanupDone(p)
    BY <1>0, <2>1 DEF ListWorktrees, ListHeads, CleanupDone, Listed
  <2>2. ASSUME NEW c \in Candidate, RemoveOrphan(p, c) \/ DeleteOrphan(p, c)
        PROVE  branch'[d].patched = branch[d].patched
    BY <1>0, <2>2 DEF RemoveOrphan, DeleteOrphan, Delete, Raise
  <2> QED BY <1>3, <2>1, <2>2 DEF Cleanup
<1>4. CASE \/ \E p \in Process : Crash(p)
           \/ Restart \/ StartCommand
           \/ \E u \in Upstream : Pull(u)
           \/ UNCHANGED vars
  BY <1>0, <1>4 DEF Crash, Restart, StartCommand, Pull, vars
<1> QED BY <1>1, <1>2, <1>3, <1>4 DEF Next

\* A merge gets past the fast-forward only by it, and is called merged only
\* from there.
LEMMA ForwardMoves ==
  ASSUME TypeOK, Placed, [Next]_vars, NEW d \in Candidate, PastForward(d)', ~PastForward(d)
  PROVE  d = cand /\ FastForward /\ CanForward(cand)
<1>0. /\ life \in [Candidate -> Life] /\ cand \in Candidate /\ "run" \in Process
      /\ step \in [Process -> {"idle"} \cup MergeStep \cup DropStep \cup CleanStep \cup Down]
      /\ life[d] = "merging" => d = cand
  BY DEF TypeOK, Process, Placed
<1> USE DEF PastForward, DropStep, Down, MergeStep, CleanStep, At, Goto, Then, Raise, Judged
<1>1. ASSUME NEW c \in Candidate, Caller(c) PROVE FALSE
  <2>1. CASE create_branch(c) \/ commit_patch(c)
    BY <1>0, <2>1 DEF create_branch, commit_patch
  <2>2. CASE merge(c) \/ rollback(c)
    <3>1. /\ step["run"] = "idle"
          /\ \/ step'["run"] = "rebase" /\ life' = [life EXCEPT ![c] = "merging"]
             \/ step'["run"] = "remove" /\ life' = [life EXCEPT ![c] = "discarded"]
      BY <1>0, <2>2 DEF merge, rollback, Call
    <3>2. life[d] # "merging"
      BY <3>1 DEF Placed
    <3> QED BY <1>0, <3>1, <3>2
  <2> QED BY <1>1, <2>1, <2>2 DEF Caller
<1>2. CASE GitStep
  <2>1. CASE Rebase \/ RebaseClean \/ RebaseFails \/ Checkout \/ CallerInTheWay
    BY <1>0, <2>1 DEF Rebase, RebaseClean, RebaseFails, Checkout, CallerInTheWay
  <2>2. CASE Abort \/ Repoint \/ RemoveWorktree
    BY <1>0, <2>2 DEF Abort, Repoint, RemoveWorktree
  <2>3. CASE DeleteBranch
    BY <1>0, <2>3 DEF DeleteBranch
  <2>4. CASE FastForward
    BY <1>0, <2>4 DEF FastForward
  <2> QED BY <1>2, <2>1, <2>2, <2>3, <2>4 DEF GitStep
<1>3. ASSUME NEW p \in Process, Cleanup(p) \/ Crash(p) PROVE FALSE
  <2>1. UNCHANGED life
    BY <1>3 DEF Cleanup, Crash, ListWorktrees, ListHeads, CleanupDone, Listed, RemoveOrphan,
                DeleteOrphan, Visited
  <2>2. \/ step'["run"] \in CleanStep \cup Down \cup {"idle"}
        \/ step'["run"] = step["run"]
    BY <1>0, <1>3 DEF Cleanup, Crash, ListWorktrees, ListHeads, CleanupDone, Listed, RemoveOrphan,
                DeleteOrphan, Visited
  <2> QED BY <1>0, <2>1, <2>2
<1>4. CASE Restart
  BY <1>0, <1>4 DEF Restart
<1>5. CASE StartCommand
  <2>1. UNCHANGED life /\ step'["run"] = step["run"]
    BY <1>0, <1>5 DEF StartCommand
  <2> QED BY <2>1
<1>6. CASE (\E u \in Upstream : Pull(u)) \/ UNCHANGED vars
  BY <1>6 DEF Pull, vars
<1> QED BY <1>1, <1>2, <1>3, <1>4, <1>5, <1>6 DEF Next

\* What is on the line stays on it.
LEMMA LandedGrows ==
  ASSUME IInv, [Next]_vars
  PROVE  ToSet(Landed) \subseteq ToSet(Landed')
<1> DEFINE S == Candidate \cup Upstream
<1>1. Landed \in Seq(S)
  BY Commits DEF IInv, Commit
<1>2. UNCHANGED Landed \/ \E e \in S : Landed' = Append(Landed, e)
  <2>1. cand \in Candidate
    BY DEF IInv, TypeOK
  <2> QED BY <2>1, LineMoves DEF IInv
<1>3. \A e \in S : ToSet(Append(Landed, e)) = ToSet(Landed) \cup {e}
  BY <1>1, ToSetOfAppend
<1> QED BY <1>2, <1>3

\* A fast-forward that git accepts puts the commit in, or finds it there.
LEMMA InPlaceStays == InPlace /\ IInv /\ [Next]_vars => InPlace'
<1> SUFFICES ASSUME InPlace, IInv, [Next]_vars, NEW c \in Candidate,
                    PastForward(c)', branch'[c].patched
             PROVE  c \in ToSet(Landed')
  BY DEF InPlace
<1>1. life'[c] # "open" /\ branch[c].patched
  <2>1. life'[c] # "open"
    BY DEF PastForward
  <2> QED BY <2>1, PatchedMoves DEF IInv
<1>2. CASE PastForward(c)
  BY <1>1, <1>2, LandedGrows DEF InPlace
<1>3. CASE ~PastForward(c)
  <2>1. c = cand /\ FastForward /\ CanForward(cand)
    BY <1>3, ForwardMoves DEF IInv
  <2>2. step["run"] = "ff" /\ head' = Forwarded(cand) /\ target' = (IF tracks THEN head' ELSE target)
        /\ UNCHANGED tracks
    BY <2>1 DEF FastForward, At, Raise, main
  <2>3. Landed' = Forwarded(cand)
    BY <2>2 DEF Landed
  <2> DEFINE S == Candidate \cup Upstream
             f == branch[cand].fork
  <2>4. f \in Seq(S) /\ head \in Seq(S) /\ cand \in S
    BY DEF IInv, TypeOK, Branch, Commit
  <2>5. Tip(cand) = Append(f, cand)
    BY <1>1, <2>1 DEF Tip
  <2>6. cand \in ToSet(Tip(cand)) /\ Tip(cand) \in Seq(S)
    BY <2>4, <2>5, ToSetOfAppend
  <2>7. CASE IsPrefix(head, Tip(cand))
    BY <2>1, <2>3, <2>6, <2>7 DEF Forwarded
  <2>8. CASE ~IsPrefix(head, Tip(cand))
    <3>1. IsPrefix(Tip(cand), head) /\ Landed' = head
      BY <2>1, <2>3, <2>8 DEF CanForward, Forwarded
    <3>2. ToSet(Tip(cand)) \subseteq ToSet(head)
      BY <2>4, <2>6, <3>1, PrefixGrows
    <3> QED BY <2>1, <2>6, <3>1, <3>2
  <2> QED BY <2>7, <2>8
<1> QED BY <1>2, <1>3

\* merge returning normally means the candidate's commit is in place for good.
THEOREM MergesLand == Spec => []MergedIsLanded
<1>1. Init => InPlace
  BY DEF Init, InPlace, PastForward, Process
<1>2. InPlace => MergedIsLanded
  BY DEF InPlace, PastForward, MergedIsLanded
<1> QED BY <1>1, <1>2, InPlaceStays, Invariant, PTL DEF Spec

\* Once the start-up clean-up is through, a branch belongs to a candidate being
\* worked on, or to the operation under way; until then the clean-up has it on
\* its list.
Tidy ==
  \A c \in Candidate :
    branch[c].exists =>
      /\ step["run"] \in {"idle"} \cup MergeStep \cup DropStep =>
           life[c] \in {"open", "conflict"} \/ (c = cand /\ step["run"] # "idle")
      /\ step["run"] = "branches" => c \in left["run"]

\* Branches come only from create_branch.
LEMMA BranchesMove ==
  ASSUME TypeOK, [Next]_vars, NEW d \in Candidate, branch'[d].exists
  PROVE  branch[d].exists \/ (create_branch(d) /\ life'[d] = "open")
<1>0. branch \in [Candidate -> Branch] /\ cand \in Candidate /\ life \in [Candidate -> Life]
  BY DEF TypeOK
<1> USE DEF SetWorktree, Branch
<1>1. ASSUME NEW c \in Candidate, Caller(c)
      PROVE  branch[d].exists \/ (create_branch(d) /\ life'[d] = "open")
  <2>1. CASE create_branch(c)
    BY <1>0, <2>1 DEF create_branch, Judged
  <2>2. CASE commit_patch(c) \/ merge(c) \/ rollback(c)
    BY <1>0, <2>2 DEF commit_patch, merge, rollback, Call
  <2> QED BY <1>1, <2>1, <2>2 DEF Caller
<1>2. CASE GitStep
  <2>1. CASE RebaseClean
    <3>1. branch' = [branch EXCEPT ![cand].fork = Base, ![cand].worktree = "on_branch"]
      BY <2>1 DEF RebaseClean
    <3> QED BY <1>0, <3>1
  <2>2. CASE Rebase \/ RebaseFails \/ Checkout \/ FastForward \/ CallerInTheWay \/ Repoint
    BY <1>0, <2>2 DEF Rebase, RebaseFails, Checkout, FastForward, CallerInTheWay, Repoint, Raise
  <2>3. CASE Abort \/ RemoveWorktree \/ DeleteBranch
    BY <1>0, <2>3 DEF Abort, RemoveWorktree, DeleteBranch, Delete, Raise
  <2> QED BY <1>2, <2>1, <2>2, <2>3 DEF GitStep
<1>3. ASSUME NEW p \in Process, Cleanup(p) PROVE branch[d].exists
  <2>1. CASE ListWorktrees(p) \/ ListHeads(p) \/ CleanupDone(p)
    BY <1>0, <2>1 DEF ListWorktrees, ListHeads, CleanupDone, Listed
  <2>2. ASSUME NEW c \in Candidate, RemoveOrphan(p, c) \/ DeleteOrphan(p, c) PROVE branch[d].exists
    BY <1>0, <2>2 DEF RemoveOrphan, DeleteOrphan, Delete, Raise
  <2> QED BY <1>3, <2>1, <2>2 DEF Cleanup
<1>4. CASE \/ \E p \in Process : Crash(p)
           \/ Restart \/ StartCommand
           \/ \E u \in Upstream : Pull(u)
           \/ UNCHANGED vars
  BY <1>0, <1>4 DEF Crash, Restart, StartCommand, Pull, vars
<1> QED BY <1>1, <1>2, <1>3, <1>4 DEF Next

\* Merge and rollback drop the branch they are about, and the clean-up every
\* one that it lists; a branch that it cannot delete stops it.
LEMMA TidyStays == Tidy /\ IInv /\ [Next]_vars => Tidy'
<1> SUFFICES ASSUME Tidy, IInv, [Next]_vars, NEW d \in Candidate, branch'[d].exists
             PROVE  /\ step'["run"] \in {"idle"} \cup MergeStep \cup DropStep =>
                         \/ life'[d] \in {"open", "conflict"}
                         \/ d = cand' /\ step'["run"] # "idle"
                    /\ step'["run"] = "branches" => d \in left'["run"]
  BY DEF Tidy
<1> DEFINE Kept == /\ step["run"] \in {"idle"} \cup MergeStep \cup DropStep =>
                        \/ life[d] \in {"open", "conflict"}
                        \/ d = cand /\ step["run"] # "idle"
                   /\ step["run"] = "branches" => d \in left["run"]
<1> SUFFICES Kept'
  OBVIOUS
<1>0. /\ branch \in [Candidate -> Branch] /\ life \in [Candidate -> Life] /\ cand \in Candidate
      /\ step \in [Process -> {"idle"} \cup MergeStep \cup DropStep \cup CleanStep \cup Down]
      /\ left \in [Process -> SUBSET Candidate] /\ "run" \in Process
  BY DEF IInv, TypeOK, Process
<1> USE DEF MergeStep, DropStep, CleanStep, Down, At, Goto, Then, Raise, Judged
<1>1. CASE create_branch(d) /\ life'[d] = "open"
  BY <1>0, <1>1 DEF create_branch
<1>2. CASE branch[d].exists
  <2>0. Kept
    BY <1>2 DEF Tidy
  <2>1. ASSUME NEW c \in Candidate, Caller(c) PROVE Kept'
    <3>1. CASE create_branch(c) \/ commit_patch(c)
      BY <1>0, <2>0, <3>1 DEF create_branch, commit_patch
    <3>2. CASE merge(c) \/ rollback(c)
      BY <1>0, <2>0, <3>2 DEF merge, rollback, Call
    <3> QED BY <2>1, <3>1, <3>2 DEF Caller
  <2>2. CASE GitStep
    <3>1. CASE \/ Rebase \/ RebaseClean \/ RebaseFails \/ Checkout \/ FastForward
               \/ CallerInTheWay \/ Repoint \/ RemoveWorktree
      <4>1. /\ UNCHANGED <<life, cand>> /\ step["run"] \in MergeStep \cup DropStep
            /\ step'["run"] \in MergeStep \cup DropStep \cup Down
        BY <1>0, <3>1 DEF Rebase, RebaseClean, RebaseFails, Checkout, FastForward,
                          CallerInTheWay, Repoint, RemoveWorktree
      <4> QED BY <2>0, <4>1
    <3>2. CASE Abort
      BY <1>0, <2>0, <3>2 DEF Abort
    <3>3. CASE DeleteBranch
      <4>1. CASE Deletable(cand)
        <5>1. branch' = [branch EXCEPT ![cand].exists = FALSE] /\ step["run"] = "delete"
              /\ step'["run"] = "idle"
              /\ \A c \in Candidate \ {cand} : life'[c] = life[c]
          BY <1>0, <3>3, <4>1 DEF DeleteBranch, Delete
        <5>2. d # cand
          BY <1>0, <5>1 DEF Branch
        <5> QED BY <2>0, <5>1, <5>2
      <4>2. CASE ~Deletable(cand)
        BY <1>0, <3>3, <4>2 DEF DeleteBranch
      <4> QED BY <4>1, <4>2
    <3> QED BY <2>2, <3>1, <3>2, <3>3 DEF GitStep
  <2>3. CASE Cleanup("run")
    <3>1. CASE ListWorktrees("run")
      BY <1>0, <3>1 DEF ListWorktrees, Listed
    <3>2. CASE ListHeads("run")
      BY <1>0, <1>2, <3>2 DEF ListHeads, Listed, Heads
    <3>3. CASE CleanupDone("run")
      BY <2>0, <3>3 DEF CleanupDone
    <3>4. ASSUME NEW c \in Candidate, RemoveOrphan("run", c) PROVE Kept'
      <4>1. step["run"] = "worktrees" /\ step'["run"] \in {"worktrees", "raised"}
        BY <1>0, <3>4 DEF RemoveOrphan, Visited
      <4> QED BY <4>1
    <3>5. ASSUME NEW c \in Candidate, DeleteOrphan("run", c) PROVE Kept'
      <4>1. CASE Deletable(c)
        <5>1. /\ branch' = [branch EXCEPT ![c].exists = FALSE]
              /\ UNCHANGED <<step, life, cand>> /\ step["run"] = "branches"
              /\ left' = [left EXCEPT ![("run")] = left["run"] \ {c}]
          BY <3>5, <4>1 DEF DeleteOrphan, Delete, Visited
        <5>2. d # c
          BY <1>0, <5>1 DEF Branch
        <5>3. d \in left'["run"]
          BY <1>0, <2>0, <5>1, <5>2
        <5> QED BY <5>1, <5>3
      <4>2. CASE ~Deletable(c)
        BY <1>0, <3>5, <4>2 DEF DeleteOrphan
      <4> QED BY <4>1, <4>2
    <3> QED BY <2>3, <3>1, <3>2, <3>3, <3>4, <3>5 DEF Cleanup
  <2>4. ASSUME NEW p \in Process, Cleanup(p), p # "run" PROVE Kept'
    <3>1. UNCHANGED <<life, cand>> /\ step'["run"] = step["run"] /\ left'["run"] = left["run"]
      BY <1>0, <2>4 DEF Cleanup, ListWorktrees, ListHeads, CleanupDone, Listed, RemoveOrphan,
                        DeleteOrphan, Visited
    <3> QED BY <2>0, <3>1
  <2>5. ASSUME NEW p \in Process, Crash(p) PROVE Kept'
    <3>1. /\ UNCHANGED <<life, cand, left>>
          /\ step'["run"] = step["run"] \/ step'["run"] \in Down
      BY <1>0, <2>5 DEF Crash
    <3> QED BY <2>0, <3>1
  <2>6. CASE Restart
    BY <1>0, <2>6 DEF Restart
  <2>7. CASE StartCommand
    <3>1. UNCHANGED <<life, cand, left>> /\ step'["run"] = step["run"]
      BY <1>0, <2>7 DEF StartCommand
    <3> QED BY <2>0, <3>1
  <2>8. CASE (\E u \in Upstream : Pull(u)) \/ UNCHANGED vars
    BY <2>0, <2>8 DEF Pull, vars
  <2> QED BY <2>1, <2>2, <2>3, <2>4, <2>5, <2>6, <2>7, <2>8 DEF Next
<1> QED BY <1>1, <1>2, BranchesMove DEF IInv

\* Between operations the only branches and worktrees about are those of
\* candidates still being worked on.
THEOREM NothingIsLeftBehind == Spec => []NothingLeftBehind
<1>1. Init => Tidy
  BY DEF Init, Tidy
<1>2. IInv /\ Tidy => NothingLeftBehind
  BY DEF IInv, Placed, Tidy, NothingLeftBehind, At
<1> QED BY <1>1, <1>2, TidyStays, Invariant, PTL DEF Spec

\* A run that is alive takes the branch or worktree of no candidate that may
\* still be merged; only a clean-up run beside it does.
LEMMA KeptStep ==
  ASSUME IInv, [Next]_vars, NEW d \in Candidate,
         life[d] \in {"open", "merging", "conflict"}, life'[d] \in {"open", "conflict"},
         branch[d].exists, HasWorktree(d), step["command"] \notin CleanStep
  PROVE  branch'[d].exists /\ HasWorktree(d)'
<1>0. /\ branch \in [Candidate -> Branch] /\ life \in [Candidate -> Life] /\ cand \in Candidate
  BY DEF IInv, TypeOK
<1> USE DEF SetWorktree, HasWorktree, Branch
<1>1. ASSUME NEW c \in Candidate, Caller(c) PROVE branch'[d].exists /\ HasWorktree(d)'
  <2>1. CASE create_branch(c)
    <3>1. c # d
      BY <2>1 DEF create_branch
    <3> QED BY <1>0, <2>1, <3>1 DEF create_branch
  <2>2. CASE commit_patch(c) \/ merge(c) \/ rollback(c)
    BY <1>0, <2>2 DEF commit_patch, merge, rollback, Call
  <2> QED BY <1>1, <2>1, <2>2 DEF Caller
<1>2. CASE GitStep
  <2>1. CASE RebaseClean
    <3>1. branch' = [branch EXCEPT ![cand].fork = Base, ![cand].worktree = "on_branch"]
      BY <2>1 DEF RebaseClean
    <3> QED BY <1>0, <3>1
  <2>2. CASE Rebase \/ RebaseFails \/ Checkout \/ FastForward \/ CallerInTheWay \/ Repoint
    BY <1>0, <2>2 DEF Rebase, RebaseFails, Checkout, FastForward, CallerInTheWay, Repoint,
                      Then, Raise
  <2>3. CASE Abort
    BY <1>0, <2>3 DEF Abort, aborted
  <2>4. CASE RemoveWorktree
    <3>1. UNCHANGED life /\ life[cand] \in {"merging", "discarded"}
      BY <2>4 DEF RemoveWorktree, At, Then, Raise, IInv, Placed, DropStep
    <3>2. d # cand
      BY <3>1
    <3> QED BY <1>0, <2>4, <3>2 DEF RemoveWorktree, Then, Raise
  <2>5. CASE DeleteBranch
    BY <1>0, <2>5 DEF DeleteBranch, Delete, Deletable, Raise
  <2> QED BY <1>2, <2>1, <2>2, <2>3, <2>4, <2>5 DEF GitStep
<1>3. ASSUME NEW p \in Process, Cleanup(p) PROVE FALSE
  <2>1. step[p] \in CleanStep
    BY <1>3 DEF Cleanup, ListWorktrees, ListHeads, CleanupDone, RemoveOrphan, DeleteOrphan, CleanStep
  <2>2. p = "run"
    BY <2>1 DEF Process
  <2> QED BY <2>1, <2>2 DEF IInv, Placed
<1>4. CASE \/ \E p \in Process : Crash(p)
           \/ Restart \/ StartCommand
           \/ \E u \in Upstream : Pull(u)
           \/ UNCHANGED vars
  BY <1>0, <1>4 DEF Crash, Restart, StartCommand, Pull, vars
<1> QED BY <1>1, <1>2, <1>3, <1>4 DEF Next

\* So no run that is alive loses a live candidate by its own doing.
THEOREM LiveCandidatesStay == Spec => LiveCandidatesKept
<1> DEFINE Kept ==
      \A c \in Candidate :
        /\ step["run"] \notin Down
        /\ life[c] \in {"open", "merging", "conflict"} /\ life'[c] \in {"open", "conflict"}
        /\ branch[c].exists /\ HasWorktree(c)
        => (branch'[c].exists /\ HasWorktree(c)') \/ step["command"] \in CleanStep
<1>1. IInv /\ [Next]_vars => [Kept]_vars
  BY KeptStep
<1>2. [][Kept]_vars => LiveCandidatesKept
  BY PTL DEF LiveCandidatesKept
<1> QED BY <1>1, <1>2, Invariant, PTL DEF Spec

-----------------------------------------------------------------------------
(* How far the refuted claim about clean-up does hold *)

\* Where `cleanup` waits for the run to end, there is one process at a time.
OneProcess == step["run"] \in Down \/ step["command"] \in Down

\* A worktree is in the middle of a rebase, perhaps of one that neither ended nor
\* could be aborted.
MidRebase == \E c \in Candidate : branch[c].worktree = "rebasing"

\* The run does not end while that is so, killed or by an exception.
NotMidRebase == step["run"] \notin Down /\ MidRebase => step'["run"] \notin Down

\* Then every worktree a clean-up finds is on its branch, and what it has still to
\* remove is what there is.
Swept ==
  /\ MidRebase => step["run"] \notin CleanStep \cup Down
  /\ \A p \in Process : \A c \in Candidate :
       /\ step[p] = "worktrees" => (c \in left[p] <=> HasWorktree(c))
       /\ step[p] = "branches" => ~HasWorktree(c) /\ (c \in left[p] <=> branch[c].exists)

\* Each process is started once the other is down.
LEMMA OneProcessStays ==
  ASSUME ~SideCommand
  PROVE  OneProcess /\ TypeOK /\ [Next]_vars => OneProcess'
<1> SUFFICES ASSUME OneProcess, TypeOK, [Next]_vars PROVE OneProcess'
  OBVIOUS
<1>0. step \in [Process -> {"idle"} \cup MergeStep \cup DropStep \cup CleanStep \cup Down]
      /\ Process = {"run", "command"}
  BY DEF TypeOK, Process
<1> USE DEF OneProcess, Down, Goto, Then, Raise, At
<1>1. ASSUME NEW c \in Candidate, Caller(c) PROVE OneProcess'
  BY <1>0, <1>1 DEF Caller, create_branch, commit_patch, merge, rollback, Call
<1>2. CASE GitStep
  <2>1. step["run"] \notin Down /\ step'["command"] = step["command"]
    BY <1>0, <1>2 DEF GitStep, Rebase, RebaseClean, RebaseFails, Abort, Checkout, FastForward,
                      CallerInTheWay, Repoint, RemoveWorktree, DeleteBranch
  <2> QED BY <2>1
<1>3. ASSUME NEW p \in Process, Cleanup(p) \/ Crash(p) PROVE OneProcess'
  <2>1. step[p] \notin Down /\ \A q \in Process \ {p} : step'[q] = step[q]
    BY <1>0, <1>3 DEF Cleanup, ListWorktrees, ListHeads, CleanupDone, Listed, RemoveOrphan,
                      DeleteOrphan, Visited, Crash
  <2> QED BY <1>0, <2>1
<1>4. CASE Restart \/ StartCommand
  BY <1>0, <1>4 DEF Restart, StartCommand
<1>5. CASE (\E u \in Upstream : Pull(u)) \/ UNCHANGED vars
  BY <1>5 DEF Pull, vars
<1> QED BY <1>1, <1>2, <1>3, <1>4, <1>5 DEF Next

\* No process takes away what the other has listed, and no run leaves a rebase
\* behind.
LEMMA SweptStays ==
  Swept /\ OneProcess /\ IInv /\ [Next]_vars /\ [NotMidRebase]_vars => Swept'
<1> SUFFICES ASSUME Swept, OneProcess, IInv, [Next]_vars, [NotMidRebase]_vars
             PROVE  Swept'
  OBVIOUS
<1>0. /\ step \in [Process -> {"idle"} \cup MergeStep \cup DropStep \cup CleanStep \cup Down]
      /\ Process = {"run", "command"} /\ cand \in Candidate
      /\ branch \in [Candidate -> Branch] /\ left \in [Process -> SUBSET Candidate]
      /\ \A c \in Candidate : branch[c] \in Branch
  BY DEF IInv, TypeOK, Process
<1>00. /\ step["run"] \notin Down => step["command"] \notin {"worktrees", "branches"}
       /\ step["command"] \notin Down => step["run"] \in Down
  BY DEF OneProcess, Down
<1> USE DEF Swept, MidRebase, HasWorktree, CleanStep, Down, Goto, Then, Raise, At, SetWorktree
<1>1. ASSUME NEW c \in Candidate, Caller(c) PROVE Swept'
  <2>1. CASE create_branch(c)
    <3>1. /\ step["run"] = "idle" /\ UNCHANGED <<step, cand, left>>
          /\ branch'[c].worktree = "on_branch"
          /\ \A d \in Candidate \ {c} : branch'[d] = branch[d]
      BY <1>0, <2>1 DEF create_branch
    <3> QED BY <1>0, <1>00, <3>1
  <2>2. CASE commit_patch(c)
    <3>1. /\ UNCHANGED <<step, cand, left>>
          /\ \A d \in Candidate : branch'[d].worktree = branch[d].worktree
                                  /\ branch'[d].exists = branch[d].exists
      BY <1>0, <2>2 DEF commit_patch, Branch
    <3> QED BY <3>1
  <2>3. CASE merge(c) \/ rollback(c)
    <3>1. /\ UNCHANGED <<branch, left>> /\ step["run"] = "idle"
          /\ step'["run"] \in {"rebase", "remove"} /\ step'["command"] = step["command"]
      BY <1>0, <2>3 DEF merge, rollback, Call
    <3> QED BY <1>0, <1>00, <3>1
  <2> QED BY <1>1, <2>1, <2>2, <2>3 DEF Caller
<1>2. CASE GitStep
  <2>0. /\ UNCHANGED <<cand, left>> /\ step["run"] \in MergeStep \cup DropStep
        /\ step'["command"] = step["command"]
        /\ step'["run"] \in {"idle", "raised"} \cup MergeStep \cup DropStep
    BY <1>0, <1>2 DEF GitStep, Rebase, RebaseClean, RebaseFails, Abort, Checkout, FastForward,
                      CallerInTheWay, Repoint, RemoveWorktree, DeleteBranch, MergeStep, DropStep
  <2>1. \A p \in Process : step'[p] \notin {"worktrees", "branches"}
    BY <1>0, <1>00, <2>0 DEF MergeStep, DropStep
  <2>2. step'["run"] = "raised" => ~MidRebase'
    <3>1. step'["run"] = "raised" => UNCHANGED branch
      BY <1>0, <1>2 DEF GitStep, Rebase, RebaseClean, RebaseFails, Abort, Checkout, FastForward,
                        CallerInTheWay, Repoint, RemoveWorktree, DeleteBranch
    <3>2. step'["run"] = "raised" => ~MidRebase
      BY <1>0, <2>0 DEF NotMidRebase, MergeStep, DropStep, vars
    <3> QED BY <3>1, <3>2
  <2>3. MidRebase' => step'["run"] \notin CleanStep \cup Down
    BY <2>0, <2>2 DEF MergeStep, DropStep
  <2> QED BY <2>0, <2>1, <2>3
<1>3. ASSUME NEW p \in Process, Cleanup(p) PROVE Swept'
  <2>0. /\ UNCHANGED cand /\ step[p] \in CleanStep
        /\ \A q \in Process \ {p} : step'[q] = step[q] /\ left'[q] = left[q]
        /\ step["run"] \notin {"resolve", "abort"}
        /\ \A q \in Process \ {p} : step[q] \in Down
    <3>1. UNCHANGED cand /\ step[p] \in CleanStep
          /\ \A q \in Process \ {p} : step'[q] = step[q] /\ left'[q] = left[q]
      BY <1>0, <1>3 DEF Cleanup, ListWorktrees, ListHeads, CleanupDone, Listed, RemoveOrphan,
                        DeleteOrphan, Visited, CleanStep
    <3>2. \A q \in Process \ {p} : step[q] \in Down
      BY <1>0, <3>1 DEF OneProcess, CleanStep
    <3> QED BY <1>0, <3>1, <3>2 DEF CleanStep
  <2>00. \A d \in Candidate : branch[d].worktree \in {"none", "on_branch"}
    BY <1>0, <2>0 DEF Branch
  <2>1. CASE ListWorktrees(p)
    <3>1. /\ step'[p] = "worktrees" /\ UNCHANGED branch
          /\ left'[p] = {c \in Candidate : branch[c].worktree = "on_branch"}
      BY <1>0, <2>1 DEF ListWorktrees, Listed
    <3> QED BY <1>0, <2>0, <2>00, <3>1
  <2>2. CASE ListHeads(p)
    <3>1. /\ step[p] = "worktrees" /\ left[p] = {} /\ step'[p] = "branches" /\ UNCHANGED branch
          /\ left'[p] = {c \in Candidate : branch[c].exists}
      BY <1>0, <2>2 DEF ListHeads, Listed, Heads
    <3> QED BY <1>0, <2>0, <2>00, <3>1
  <2>3. CASE CleanupDone(p)
    <3>1. step'[p] \in {"idle", "dead"} /\ UNCHANGED branch
      BY <1>0, <2>3 DEF CleanupDone, Listed
    <3> QED BY <1>0, <2>0, <2>00, <3>1
  <2>4. ASSUME NEW c \in Candidate, RemoveOrphan(p, c) PROVE Swept'
    <3>1. step[p] = "worktrees" /\ c \in left[p] /\ HasWorktree(c)
      BY <2>4 DEF RemoveOrphan
    <3>2. /\ UNCHANGED step /\ left'[p] = left[p] \ {c}
          /\ branch'[c].worktree = "none"
          /\ \A d \in Candidate \ {c} : branch'[d] = branch[d]
      BY <1>0, <2>4, <3>1 DEF RemoveOrphan, Visited, Branch
    <3> QED BY <1>0, <2>0, <2>00, <3>1, <3>2
  <2>5. ASSUME NEW c \in Candidate, DeleteOrphan(p, c) PROVE Swept'
    <3>1. step[p] = "branches" /\ c \in left[p] /\ Deletable(c)
      BY <2>5 DEF DeleteOrphan, Deletable
    <3>2. /\ UNCHANGED step /\ left'[p] = left[p] \ {c}
          /\ branch'[c].exists = FALSE /\ branch'[c].worktree = branch[c].worktree
          /\ \A d \in Candidate \ {c} : branch'[d] = branch[d]
      BY <1>0, <2>5, <3>1 DEF DeleteOrphan, Visited, Delete, Branch
    <3> QED BY <1>0, <2>0, <2>00, <3>1, <3>2
  <2> QED BY <1>3, <2>1, <2>2, <2>3, <2>4, <2>5 DEF Cleanup
<1>4. ASSUME NEW p \in Process, Crash(p) PROVE Swept'
  <2>1. /\ step'[p] = "dead" /\ step[p] \notin Down /\ UNCHANGED <<branch, cand, left>>
        /\ \A q \in Process \ {p} : step'[q] = step[q]
    BY <1>0, <1>4 DEF Crash
  <2>2. p = "run" => ~MidRebase
    <3>1. step' # step
      BY <2>1
    <3> QED BY <2>1, <3>1 DEF NotMidRebase, vars
  <2> QED BY <1>0, <2>1, <2>2
<1>5. CASE Restart \/ StartCommand
  <2>1. /\ UNCHANGED <<branch, cand, left>>
        /\ \E p \in Process : /\ step[p] \in Down /\ step'[p] = "list"
                              /\ \A q \in Process \ {p} : step'[q] = step[q]
    BY <1>0, <1>5 DEF Restart, StartCommand
  <2> QED BY <1>0, <2>1
<1>6. CASE (\E u \in Upstream : Pull(u)) \/ UNCHANGED vars
  BY <1>6 DEF Pull, vars
<1> QED BY <1>1, <1>2, <1>3, <1>4, <1>5, <1>6 DEF Next

\* Where the command waits for the run, and no run ends while a worktree is mid-
\* rebase, clean-up removes everything a killed run left and never raises
\* (cleanup_orphans): a kill, a failing git or a failing rebase anywhere else does
\* it no harm.
THEOREM CleanupWorksUnlessMidRebase ==
  ASSUME ~SideCommand
  PROVE  Spec /\ [][NotMidRebase]_vars => CleanupNeverRaises
<1> DEFINE Works == \A p \in Process : step[p] \in CleanStep => step'[p] # "raised"
<1>1. Init => OneProcess /\ Swept
  BY DEF Init, OneProcess, Swept, MidRebase, Down, Process, HasWorktree
<1>2. OneProcess /\ IInv /\ [Next]_vars => OneProcess'
  BY OneProcessStays DEF IInv
<1>3. Swept /\ OneProcess /\ IInv /\ [Next]_vars /\ [NotMidRebase]_vars => Swept'
  BY SweptStays
<1>4. Swept /\ IInv /\ [Next]_vars => [Works]_vars
  <2> SUFFICES ASSUME Swept, IInv, Next, NEW p \in Process, step[p] \in CleanStep,
                      step'[p] = "raised"
               PROVE  FALSE
    BY DEF Works
  <2>0. step \in [Process -> {"idle"} \cup MergeStep \cup DropStep \cup CleanStep \cup Down]
        /\ Process = {"run", "command"}
    BY DEF IInv, TypeOK, Process
  <2> USE DEF Goto, Then, Raise, At, CleanStep
  <2>1. ASSUME NEW q \in Process, Cleanup(q) PROVE FALSE
    <3>1. q = p
      BY <2>0, <2>1 DEF Cleanup, ListWorktrees, ListHeads, CleanupDone, Listed, RemoveOrphan,
                        DeleteOrphan, Visited
    <3>2. CASE ListWorktrees(q) \/ ListHeads(q) \/ CleanupDone(q)
      BY <2>0, <3>1, <3>2 DEF ListWorktrees, ListHeads, CleanupDone, Listed
    <3>3. ASSUME NEW c \in Candidate, RemoveOrphan(q, c) PROVE FALSE
      BY <2>0, <3>1, <3>3 DEF RemoveOrphan, Visited, Swept
    <3>4. ASSUME NEW c \in Candidate, DeleteOrphan(q, c) PROVE FALSE
      BY <2>0, <3>1, <3>4 DEF DeleteOrphan, Visited, Deletable, Swept
    <3> QED BY <2>1, <3>2, <3>3, <3>4 DEF Cleanup
  <2>2. CASE GitStep
    <3>1. step["run"] \notin CleanStep /\ step'["command"] = step["command"]
      BY <2>0, <2>2 DEF GitStep, Rebase, RebaseClean, RebaseFails, Abort, Checkout, FastForward,
                        CallerInTheWay, Repoint, RemoveWorktree, DeleteBranch
    <3> QED BY <2>0, <3>1
  <2>3. ASSUME NEW c \in Candidate, Caller(c) PROVE FALSE
    BY <2>0, <2>3 DEF Caller, create_branch, commit_patch, merge, rollback, Call
  <2>4. CASE \/ \E q \in Process : Crash(q)
             \/ Restart \/ StartCommand
             \/ \E u \in Upstream : Pull(u)
    BY <2>0, <2>4 DEF Crash, Restart, StartCommand, Pull
  <2> QED BY <2>1, <2>2, <2>3, <2>4 DEF Next
<1> HIDE DEF Works
<1>5. Spec /\ [][NotMidRebase]_vars => [][Works]_vars
  BY <1>1, <1>2, <1>3, <1>4, Invariant, PTL DEF Spec
<1> QED BY <1>5 DEF Works, CleanupNeverRaises

=============================================================================
