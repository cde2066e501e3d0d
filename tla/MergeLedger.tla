---------------------------- MODULE MergeLedger ----------------------------
(***************************************************************************)
(* What version control promises the rest of the harness: the line of      *)
(* development under evolution only ever grows, one commit at a time; a    *)
(* candidate lands on it at most once; and one that was discarded never    *)
(* does.  Other people's commits may land between those of the candidates. *)
(* GitController implements it, worktrees, rebases and crashes included.   *)
(***************************************************************************)
EXTENDS SequencesExt

CONSTANTS Candidate, Upstream

VARIABLES history, discarded

Init == history = <<>> /\ discarded = {}

Land(c) ==
  /\ c \notin ToSet(history) /\ c \notin discarded
  /\ history' = Append(history, c)
  /\ UNCHANGED discarded

Discard(c) ==
  /\ c \notin ToSet(history)
  /\ discarded' = discarded \cup {c}
  /\ UNCHANGED history

Pull(u) ==
  /\ u \notin ToSet(history)
  /\ history' = Append(history, u)
  /\ UNCHANGED discarded

Next ==
  \/ \E c \in Candidate : Land(c) \/ Discard(c)
  \/ \E u \in Upstream : Pull(u)

Spec == Init /\ [][Next]_<<history, discarded>>
=============================================================================
