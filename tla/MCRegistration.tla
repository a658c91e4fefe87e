--------------------------- MODULE MCRegistration ---------------------------
(* Small instances of Registration for TLC.                                 *)
EXTENDS Registration, TLC

CONSTANTS a1, a2, a3, p

\* Two workers of one project.
MCOneProject == a1 :> p @@ a2 :> p

\* The two differ in their names alone.
MCAgents == Permutations({a1, a2})

\* And one more, whose agent runs with an override.
MCTwoAndOverride == a1 :> p @@ a2 :> p @@ a3 :> p
=============================================================================
