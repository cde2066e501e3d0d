------------------------- MODULE MCEvolutionEngine -------------------------
(* EvolutionEngine with three diffs and populations of one to three. *)
EXTENDS EvolutionEngine

CONSTANTS d1, d2, d3, accuracy, energy

MCDiff == {d1, d2, d3}
Measured == {accuracy, energy}
MoreAccurate == (accuracy :> TRUE) @@ (energy :> FALSE)
OneToThree == [enabled |-> TRUE, convergence_generations |-> 1,
               min_population |-> 1, max_population |-> 3]
=============================================================================
