---------------------------- MODULE PatchGenerator ----------------------------
(***************************************************************************)
(* Patch generation (generation/patch_generator.py): for each target file  *)
(* in turn the model is shown its current content, asked for a diff until  *)
(* one applies in a scratch repository that holds this file alone, and     *)
(* whatever came last is applied in the candidate's worktree.  A diff is   *)
(* what it changes, which need not be the file it was asked for, and the   *)
(* content of a file is how many diffs have changed it.                    *)
(***************************************************************************)
EXTENDS Integers

CONSTANTS
  Files,               \* how many target files there are
  max_apply_retries    \* 1 for a client that does not check its diffs

ASSUME FilesAssumption == Files \in Nat \ {0}
ASSUME RetriesAssumption == max_apply_retries \in Nat \ {0}

VARIABLES
  content,     \* of each target file in the worktree
  nth,         \* the file the loop has reached
  shown,       \* the content of it the model was given
  attempts,    \* what generate_diff has asked for so far
  touched,     \* the target files the last diff changes
  patched      \* files whose own diff has been applied

generation == <<content, nth, shown, attempts, touched, patched>>

GenerationType ==
  /\ content \in [1..Files -> 0..Files]
  /\ nth \in 1..Files
  /\ shown \in 0..Files
  /\ attempts \in 0..max_apply_retries
  /\ touched \subseteq 1..Files
  /\ patched \subseteq 1..Files

GenerationInit ==
  /\ content = [f \in 1..Files |-> 0] /\ nth = 1 /\ shown = 0
  /\ attempts = 0 /\ touched = {} /\ patched = {}

\* A new worktree.
FreshGeneration ==
  /\ content' = [f \in 1..Files |-> 0] /\ nth' = 1 /\ shown' = 0
  /\ attempts' = 0 /\ touched' = {} /\ patched' = {}

\* Mutant of current_content: every file was read before the first diff.
content_at_start(f) == 0

current_content(f) == content[f]

ReadFile ==
  /\ shown' = current_content(nth)
  /\ attempts' = 0 /\ touched' = {}
  /\ UNCHANGED <<content, nth, patched>>

MayAsk == attempts < max_apply_retries

\* One answer of the model.  What applies in the scratch repository changes no
\* other target file: none is there.
Ask(changes, applies) ==
  /\ MayAsk
  /\ applies => changes \subseteq {nth}
  /\ touched' = changes
  /\ attempts' = IF applies THEN max_apply_retries ELSE attempts + 1
  /\ UNCHANGED <<content, nth, shown, patched>>

LastFile == nth = Files

\* git apply --check, then git apply.
ApplyPatch ==
  /\ content' = [f \in 1..Files |-> content[f] + (IF f \in touched THEN 1 ELSE 0)]
  /\ patched' = patched \cup {nth}
  /\ nth' = IF LastFile THEN nth ELSE nth + 1
  /\ shown' = 0 /\ attempts' = 0 /\ touched' = {}
=============================================================================
