---------------------------- MODULE MCTargeting ----------------------------
(* Two birds, with and without continuous tracking.                        *)
EXTENDS Targeting

VARIABLES
    continuous,   \* continuous_tracking, which no step changes
    beat          \* turns with every step, so that one that changes nothing is none of
                  \* TLC's stuttering

\* No minimum interval: only the machine paces itself, until a third burst
\* in a window is refused.
TwoBursts ==
    [enabled |-> TRUE, default |-> 1, max |-> 1, interval |-> 0, window |-> 4, budget |-> 2]

OnceAimed == INSTANCE Targeting WITH ContinuousTracking <- FALSE

ScenarioInit == Init /\ continuous \in BOOLEAN /\ beat = FALSE

ScenarioNext ==
    /\ UNCHANGED continuous /\ beat' = ~beat
    /\ \/ continuous /\ Next
       \/ ~continuous /\ OnceAimed!Next

\* _targeting_loop calls step() for ever, whatever it finds.
Scenarios ==
    /\ ScenarioInit /\ [][ScenarioNext]_<<vars, continuous, beat>>
    /\ WF_<<vars, continuous, beat>>(ScenarioNext)
=============================================================================
