--------------------------- MODULE TurretContract ---------------------------
(***************************************************************************)
(* What the server may rely on of whatever plays the controller: the       *)
(* output latch, the valve, the emergency stop and the homed flag of its   *)
(* status frames (server/app/turret/protocol.py, Status).  The simulators  *)
(* of the repository are shown to implement it.                            *)
(***************************************************************************)
VARIABLES homed, armed, valve, estop

contract == <<homed, armed, valve, estop>>

Init == homed = FALSE /\ armed = FALSE /\ valve = FALSE /\ estop = FALSE

Arm == ~estop /\ armed' = TRUE /\ UNCHANGED <<homed, valve, estop>>

\* The latch never opens over open water.
Disarm == armed' = FALSE /\ valve' = FALSE /\ homed' \in {homed, FALSE} /\ UNCHANGED estop

Spray == armed /\ ~estop /\ valve' = TRUE /\ UNCHANGED <<homed, armed, estop>>

Close == valve' = FALSE /\ UNCHANGED <<homed, armed, estop>>

\* Homing ends with a reference only while no emergency stop is latched.
Homed == ~estop /\ homed' = TRUE /\ UNCHANGED <<armed, valve, estop>>

Stop == estop' = TRUE /\ homed' = FALSE /\ armed' = FALSE /\ valve' = FALSE

\* Cleared by a plain stop or a reboot, with the water off and nothing homed.
Clear == estop' = FALSE /\ valve' = FALSE /\ armed' \in {armed, FALSE} /\ homed' \in {homed, FALSE}

Next == Arm \/ Disarm \/ Spray \/ Close \/ Homed \/ Stop \/ Clear

Spec == Init /\ [][Next]_contract

=============================================================================
