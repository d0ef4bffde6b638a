----------------------------- MODULE Actuators -----------------------------
(***************************************************************************)
(* What the SDK promises of its commands, with no word of frames, buffers  *)
(* and ports: a call orders the motors it names and nobody else, an order  *)
(* reaches the motors whose link is up, a latched limit refuses every new  *)
(* motion but no halt.  MotorBus is shown to implement it; the nodes are   *)
(* modelled on top of it.                                                  *)
(***************************************************************************)
EXTENDS Naturals

CONSTANTS
    Motor,      \* robot::Motors
    Arm,        \* the motors the arm calls name
    Gripper,    \* the motor the gripper calls name
    Setpoint,   \* what a motor may be told to hold
    Legal,      \* ... inside the joint limits
    Zero,       \* the setpoint of a zero velocity
    NOP,        \* no setpoint
    FunV        \* the function version of the motors

VARIABLES
    order,      \* what each motor was last told to do
    reach,      \* the motors whose link is up
    latched,    \* a limit was exceeded and detected
    running     \* the robot object is alive

vars == <<order, reach, latched, running>>

Order(mode, val) == [mode |-> mode, val |-> val]

PositionMode == {"POS_VEL_TQE", "POS_VEL_TQE_KP_KD_2"}
HaltMode     == {"STOP", "BRAKE", "RESET"}

\* Every motor of S that can be reached is told val in mode md.
Told(S, md, val) ==
    [m \in Motor |-> IF m \in S /\ m \in reach THEN Order(md, val[m]) ELSE order[m]]

\* A motion call: refused as a whole once a limit is latched.
Drive(S, md, val) ==
    /\ running
    /\ order' = IF latched THEN order ELSE Told(S, md, val)
    /\ UNCHANGED <<reach, latched, running>>

\* An arm position, in either control mode: never outside the joint limits.
MoveArm(md, pos) ==
    /\ \A m \in Arm : pos[m] \in Legal
    /\ Drive(Arm, md, pos)

MoveGripper(md, v) == Drive({Gripper}, md, [m \in {Gripper} |-> v])

\* A halt is never refused.
HaltAll(md) == order' = Told(Motor, md, [m \in Motor |-> NOP])

Halt(md) ==
    /\ running
    /\ HaltAll(md)
    /\ UNCHANGED <<reach, latched, running>>

\* The state poll of motors that know no query: a zero velocity.
LegacyPoll ==
    /\ FunV < 2
    /\ Drive(Motor, "VELOCITY", [m \in Motor |-> Zero])

\* A limit is found exceeded: stop, and refuse motion from now on.
LatchLimit ==
    /\ running
    /\ ~latched
    /\ HaltAll("STOP")
    /\ latched' = TRUE
    /\ UNCHANGED <<reach, running>>

\* The robot object goes: its motors are left halted.
Exit ==
    /\ running
    /\ \E md \in {"BRAKE", "RESET"} : HaltAll(md)
    /\ running' = FALSE
    /\ UNCHANGED <<reach, latched>>

\* Links go down.
Unreach(S) ==
    /\ reach' = reach \ S
    /\ UNCHANGED <<order, latched, running>>

\* All of them are opened anew, to the motors in S.  Nothing is sent that would
\* halt a motor: one that missed its stop still does what it was told before.
Regain(S) ==
    /\ running
    /\ reach = {}
    /\ reach' = S
    /\ UNCHANGED <<order, latched, running>>

Init ==
    /\ reach = Motor
    /\ latched = FALSE
    /\ running = TRUE
    /\ order = IF FunV < 2 THEN [m \in Motor |-> Order("VELOCITY", Zero)]
                           ELSE [m \in Motor |-> Order("RESET", NOP)]

Next ==
    \/ \E md \in PositionMode, pos \in [Arm -> Setpoint] : MoveArm(md, pos)
    \/ \E md \in PositionMode, v \in Setpoint : MoveGripper(md, v)
    \/ \E md \in HaltMode : Halt(md)
    \/ LegacyPoll
    \/ LatchLimit
    \/ Exit
    \/ \E S \in SUBSET Motor : Unreach(S) \/ Regain(S)

Spec == Init /\ [][Next]_vars
=============================================================================
