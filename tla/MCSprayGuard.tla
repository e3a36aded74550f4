---------------------------- MODULE MCSprayGuard ----------------------------
(* The water budget on small settings.                                       *)
EXTENDS SprayGuard, TLC

Config(default, max, interval, budget, window) ==
    [enabled |-> TRUE, default |-> default, max |-> max, interval |-> interval,
     budget |-> budget, window |-> window]

\* A tight budget that bursts of the default length divide, one they do not.
UsualConfigs == {Config(2, 3, 1, 4, 2), Config(2, 3, 2, 3, 3), Config(2, 2, 2, 4, 1)}

\* The operators are alike.
Alike == Permutations(Operators)
=============================================================================
