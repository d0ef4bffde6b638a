------------------------ MODULE MCHardwareInterface ------------------------
(***************************************************************************)
(* HardwareInterface for TLC: an arm motor, the gripper, two positions     *)
(* inside the limits; what lies outside is 999.0                           *)
(***************************************************************************)
EXTENDS HardwareInterface

CONSTANTS a1, here, there

MCArm      == {a1}
MCMotor    == MCArm \cup {Gripper}
MCLegal    == {here, there}
MCSetpoint == {here, there, Unread}
MCLinks    == {MCMotor}    \* the one port of the shipped configuration
=============================================================================
