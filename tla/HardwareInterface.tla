------------------------- MODULE HardwareInterface -------------------------
(***************************************************************************)
(* PantheraHardwareInterface, the ros2_control system MoveIt drives the    *)
(* arm with: its lifecycle callbacks, and the cycle read - update - write  *)
(* the controller manager runs while it is inactive or active.  A callback *)
(* runs between two cycles.  The controllers are the environment: in       *)
(* update they may set the command of any joint while it is active.        *)
(*                                                                         *)
(* The calls of the SDK are those of Actuators.  detect_motor_limit is     *)
(* never called here, so no limit is ever latched.                         *)
(***************************************************************************)
EXTENDS Naturals, FiniteSets

CONSTANTS
    Motor, Arm, Gripper, Setpoint, Legal, Zero, NOP, FunV,  \* see Actuators
    Unread,         \* 999.0, the position of a motor that never answered
    Links           \* the motors behind each serial link

ASSUME HardwareAssumption ==
    /\ Arm \subseteq Motor
    /\ Gripper \in Motor \ Arm
    /\ Legal \subseteq Setpoint
    /\ Zero \in Setpoint \ {Unread}
    /\ Unread \in Setpoint \ Legal
    /\ NOP \notin Setpoint
    /\ FunV \in 1 .. 5
    /\ Links \subseteq SUBSET Motor

VARIABLES
    order, reach, latched, running,  \* Actuators, of the robot in robot_
    mode,     \* control_mode_
    built,    \* robot_ holds an object
    life,     \* the lifecycle state
    step,     \* how far the cycle is
    pos,      \* where each motor is
    data,     \* motor::data.position, as last answered
    cmd,      \* hw_commands_positions_
    stood     \* (history) where a motor that answered stood when its command was
              \* taken from it, NOP when a controller has commanded it since

M == INSTANCE Actuators

motors == <<order, reach, latched, running>>
vars   == <<order, reach, latched, running, mode, built, life, step, pos, data, cmd, stood>>

ControlMode == {"full_control", "position_velocity", "pd_control", "other"}

TypeOK ==
    /\ order \in [Motor -> [mode : M!PositionMode \cup {"VELOCITY"}, val : Setpoint]
                          \cup [mode : M!HaltMode, val : {NOP}]]
    /\ reach \subseteq Motor /\ latched = FALSE /\ running \in BOOLEAN
    /\ mode \in ControlMode /\ built \in BOOLEAN
    /\ life \in {"unconfigured", "inactive", "active", "finalized"}
    /\ step \in {"read", "update", "arm", "gripper"}
    /\ pos \in [Motor -> Setpoint \ {Unread}]
    /\ data \in [Motor -> Setpoint] /\ cmd \in [Motor -> Setpoint]
    /\ stood \in [Motor -> Setpoint \cup {NOP}]

\* on_init: commands and states are NaN until on_configure, nobody reads them.
Init ==
    /\ M!Init
    /\ mode \in ControlMode
    /\ built = FALSE
    /\ life = "unconfigured"
    /\ step = "read"
    /\ pos \in [Motor -> Setpoint \ {Unread}]
    /\ data = [m \in Motor |-> Unread]
    /\ cmd = data
    /\ stood = [m \in Motor |-> NOP]

Cycling == life \in {"inactive", "active"}

\* The motors in S answer a poll: their positions, over what there was before.
Answer(S, old) == data' = [m \in Motor |-> IF m \in S THEN pos[m] ELSE old[m]]

\* The commands become the positions last answered.
Seed(S) ==
    /\ cmd' = data'
    /\ stood' = [m \in Motor |-> IF m \in S THEN pos[m] ELSE NOP]

-----------------------------------------------------------------------------
(* The lifecycle callbacks.                                                *)

\* The new robot object is built first.  The one of an earlier configuration is
\* destroyed after that and leaves the motors halted, under the new one, which
\* then polls them.
OnConfigure(S) ==
    /\ life = "unconfigured"
    /\ S \subseteq reach
    /\ Answer(S, [m \in Motor |-> Unread])
    /\ Seed(S)
    /\ life' = "inactive"
    /\ built' = TRUE
    /\ IF FunV < 2 THEN M!LegacyPoll
       ELSE /\ IF built THEN \E md \in {"BRAKE", "RESET"} : M!HaltAll(md)
                        ELSE UNCHANGED order
            /\ UNCHANGED <<reach, latched, running>>
    /\ UNCHANGED <<mode, step, pos>>

\* The constructor throws, or reading the states does: on_error does the rest.
ConfigureFails ==
    /\ life = "unconfigured"
    /\ life' = "finalized"
    /\ UNCHANGED <<motors, mode, built, step, pos, data, cmd, stood>>

\* The poll that every reading of the states begins with.
Poll == IF FunV < 2 THEN M!LegacyPoll ELSE UNCHANGED motors

\* Mutant of OnActivate: the commands of the last activation are kept.
ActivateKeeps(S) ==
    /\ life = "inactive" /\ step = "read"
    /\ S \subseteq reach
    /\ Answer(S, data)
    /\ cmd' = cmd
    /\ stood' = [m \in Motor |-> IF m \in S THEN pos[m] ELSE NOP]
    /\ life' = "active"
    /\ Poll
    /\ UNCHANGED <<mode, built, step, pos>>

OnActivate(S) ==
    /\ life = "inactive" /\ step = "read"
    /\ S \subseteq reach
    /\ Answer(S, data)
    /\ Seed(S)
    /\ life' = "active"
    /\ Poll
    /\ UNCHANGED <<mode, built, step, pos>>

\* on_deactivate sends nothing and changes nothing.
OnDeactivate ==
    /\ life = "active" /\ step = "read"
    /\ life' = "inactive"
    /\ UNCHANGED <<motors, mode, built, step, pos, data, cmd, stood>>

\* on_cleanup is the default one: robot_ stays.
OnCleanup ==
    /\ life = "inactive" /\ step = "read"
    /\ life' = "unconfigured"
    /\ UNCHANGED <<motors, mode, built, step, pos, data, cmd, stood>>

\* The interface goes, and robot_ with it.
Unload ==
    /\ step = "read" /\ running
    /\ IF built THEN M!Exit ELSE running' = FALSE /\ UNCHANGED <<order, reach, latched>>
    /\ life' = "finalized"
    /\ built' = FALSE
    /\ UNCHANGED <<mode, step, pos, data, cmd, stood>>

-----------------------------------------------------------------------------
(* The cycle.                                                              *)

\* read: a poll, and whatever positions are there without waiting for its answer.
Read(S) ==
    /\ Cycling /\ step = "read"
    /\ S \subseteq reach
    /\ Poll
    /\ Answer(S, data)
    /\ step' = "update"
    /\ UNCHANGED <<mode, built, life, pos, cmd, stood>>

\* The controllers set a command.
Update(m, v) ==
    /\ life = "active" /\ step = "update"
    /\ cmd' = [cmd EXCEPT ![m] = v]
    /\ stood' = [stood EXCEPT ![m] = NOP]
    /\ step' = "arm"
    /\ UNCHANGED <<motors, mode, built, life, pos, data>>

UpdateNothing ==
    /\ Cycling /\ step = "update"
    /\ step' = "arm"
    /\ UNCHANGED <<motors, mode, built, life, pos, data, cmd, stood>>

ArmMode     == IF mode = "position_velocity" THEN "POS_VEL_TQE" ELSE "POS_VEL_TQE_KP_KD_2"
GripperMode == IF mode = "full_control" THEN "POS_VEL_TQE_KP_KD_2" ELSE "POS_VEL_TQE"

\* Mutant of ArmLegal: a position that was never read is let through.
LegalOrUnread == \A m \in Arm : cmd[m] \in Legal \cup {Unread}

\* checkJointLimits refuses the command of the whole arm for one joint.
ArmLegal == \A m \in Arm : cmd[m] \in Legal

\* Mutant of WriteArm: the arm waits until the motors have been read again.
WriteWhenFresh ==
    /\ Cycling /\ step = "arm" /\ mode # "other"
    /\ IF ArmLegal /\ data = pos THEN M!Drive(Arm, ArmMode, cmd) ELSE UNCHANGED motors
    /\ step' = "gripper"
    /\ UNCHANGED <<mode, built, life, pos, data, cmd, stood>>

\* write: the arm, whose refusal it does not look at ...
WriteArm ==
    /\ Cycling /\ step = "arm" /\ mode # "other"
    /\ IF ArmLegal THEN M!Drive(Arm, ArmMode, cmd) ELSE UNCHANGED motors
    /\ step' = "gripper"
    /\ UNCHANGED <<mode, built, life, pos, data, cmd, stood>>

\* ... and the gripper, whose target nobody checks.
WriteGripper ==
    /\ Cycling /\ step = "gripper"
    /\ M!MoveGripper(GripperMode, cmd[Gripper])
    /\ step' = "read"
    /\ UNCHANGED <<mode, built, life, pos, data, cmd, stood>>

\* An unknown control mode is an error of write, which ends the hardware.
WriteFails ==
    /\ Cycling /\ step = "arm" /\ mode = "other"
    /\ life' = "finalized"
    /\ UNCHANGED <<motors, mode, built, step, pos, data, cmd, stood>>

-----------------------------------------------------------------------------
(* The arm.                                                                *)

\* A motor gets where it was told to go; one that is told no position, or one it
\* cannot reach, may be anywhere.
Moves(m, p) ==
    /\ p # pos[m]
    /\ order[m].mode \in M!PositionMode /\ order[m].val # Unread => p = order[m].val
    /\ pos' = [pos EXCEPT ![m] = p]
    /\ UNCHANGED <<motors, mode, built, life, step, data, cmd, stood>>

LinkDown(L) ==
    /\ L \cap reach # {}
    /\ M!Unreach(L)
    /\ UNCHANGED <<mode, built, life, step, pos, data, cmd, stood>>

\* Case error_reconnect of the check thread: the links in U come back, to motor objects
\* that have not been answered yet, and the motors do what they did.
Reconnect(U) ==
    /\ built
    /\ M!Regain(UNION U)
    /\ data' = [m \in Motor |-> Unread]
    /\ UNCHANGED <<mode, built, life, step, pos, cmd, stood>>

Cycle ==
    \/ \E S \in SUBSET Motor : Read(S)
    \/ UpdateNothing
    \/ \E m \in Motor, v \in Setpoint \ {Unread} : Update(m, v)
    \/ WriteArm \/ WriteGripper \/ WriteFails

Lifecycle ==
    \/ \E S \in SUBSET Motor : OnActivate(S) \/ OnConfigure(S)
    \/ ConfigureFails \/ OnDeactivate \/ OnCleanup \/ Unload

Next ==
    \/ Cycle
    \/ Lifecycle
    \/ \E U \in SUBSET Links : Reconnect(U)
    \/ \E L \in Links : LinkDown(L)
    \/ \E m \in Motor, p \in Setpoint \ {Unread} : Moves(m, p)

Spec == Init /\ [][Next]_vars

\* The controller manager goes on with its cycles.
FairSpec == Spec /\ WF_vars(Cycle)

-----------------------------------------------------------------------------
\* The 999.0 of a motor that was never read is a command after every seeding; no
\* sequence of callbacks, link losses and cycles gets it to an arm motor.  (It
\* does get to the gripper.)
UnreadNeverReachesArm == \A m \in Arm : order[m].val # Unread

\* A motor that answered when its command was seeded and that no controller has
\* commanded since is told to stay where it stood, whatever it was told to do
\* before a deactivation or before the robot object was built anew.
UncommandedStaysPut ==
    [][\A m \in Motor :
          stood[m] # NOP /\ order'[m] # order[m] /\ order'[m].mode \in M!PositionMode
             => order'[m].val = stood[m]]_vars

\* A refused arm is not refused for good: while the hardware stays active with
\* all links up and the commands stay inside the limits, the motors are told
\* what the controllers command, again and again.
ArmThaws ==
    <>[](life = "active" /\ reach = Motor /\ ArmLegal /\ mode # "other")
        => []<>(\A m \in Arm : order[m] = M!Order(ArmMode, cmd[m]))

\* "Initialize commands to current position": a motor that no controller has
\* commanded is commanded to a position it has had.
SeededFromPosition == life \in {"inactive", "active"} => \A m \in Motor : cmd[m] # Unread
=============================================================================
