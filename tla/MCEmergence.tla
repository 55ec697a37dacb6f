---------------------------- MODULE MCEmergence ----------------------------
(***************************************************************************)
(* Model checking of Emergence with short histories and cooldowns, in the  *)
(* proportions of the C constants.                                         *)
(***************************************************************************)
EXTENDS Emergence, TLC

\* 70 and 90 are near enough for a stable history whose halves differ; 20 and
\* 90 are beyond the limits of a phase transition.
MCLevels == {20, 70, 90}

MCCooldown == [type \in Types |->
    CASE type = "Convergent" -> 3 [] type = "SpontaneousOptimization" -> 2
      [] type = "EmergentCooperation" -> 3 [] type = "PhaseTransition" -> 4]

\* No operator tells one name from another.
NameSymmetry == Permutations(Names)

=============================================================================
