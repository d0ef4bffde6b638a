----------------------------- MODULE ArmControl -----------------------------
(***************************************************************************)
(* arm_control_node: four topics, eight services and a status timer, all   *)
(* served by the ONE thread of rclcpp::spin.  A callback runs to its end   *)
(* before the next one is taken; a motion callback holds the thread while  *)
(* Panthera::waitForPosition watches the feedback, up to 15 seconds for    *)
(* every waypoint.  Meanwhile the clients go on sending: a topic keeps the *)
(* newest message (queue depth 1), a service client waits for its answer.  *)
(*                                                                         *)
(* The calls of the SDK are those of Actuators.  detect_motor_limit is     *)
(* never called here, so no limit is ever latched.  Links come back too:   *)
(* the check thread reconnects between two calls (Recovery has the races). *)
(***************************************************************************)
EXTENDS Naturals, FiniteSets

CONSTANTS
    Motor, Arm, Gripper, Setpoint, Legal, Zero, NOP, FunV,  \* see Actuators
    Home,               \* the arm's zero position
    Open, Half, Closed, \* gripper positions
    None,               \* nothing there
    Malformed,          \* a joint command with a wrong number of values
    Unknown,            \* a gripper action that is none of the three
    SetZero,            \* a gripper_srv request with set_zero
    Offered,            \* what the clients may send to a topic or service
    MaxSteps,           \* bound on the waypoints of a Cartesian path
    MaxPending,         \* bound on the messages and requests under way
    LinkFails           \* may links go down?

Topic   == {"arm_joint_cmd", "gripper_cmd", "enable_flag", "pos_cmd"}
Service == {"move_to_joint", "move_to_pose", "gripper_control", "enable_srv",
            "go_zero_srv", "stop_srv", "reset_srv", "gripper_srv"}
Callee  == Topic \cup Service

JointTarget == [Arm -> Setpoint]
GripperPos  == {Open, Half, Closed}

\* What can be sent to each of them at all.  A pose is not told apart from
\* another: what matters of it is which joint targets IK makes of it.
ASSUME OfferAssumption ==
    /\ DOMAIN Offered = Callee
    /\ Offered["arm_joint_cmd"] \subseteq JointTarget \cup {Malformed}
    /\ Offered["move_to_joint"] \subseteq JointTarget
    /\ Offered["gripper_cmd"] \subseteq BOOLEAN
    /\ Offered["enable_flag"] \subseteq BOOLEAN
    /\ Offered["enable_srv"] \subseteq BOOLEAN
    /\ Offered["pos_cmd"] \subseteq [cartesian : BOOLEAN, gripper : {Open, Closed, None}]
    /\ Offered["move_to_pose"] \subseteq BOOLEAN
    /\ Offered["gripper_control"] \subseteq GripperPos \cup {Unknown}
    /\ Offered["gripper_srv"] \subseteq Setpoint \cup {SetZero}
    /\ \A c \in Callee : None \notin Offered[c]

ASSUME ArmAssumption ==
    /\ Arm \subseteq Motor
    /\ Gripper \in Motor \ Arm
    /\ Legal \subseteq Setpoint
    /\ Home \in Legal
    /\ GripperPos \subseteq Setpoint
    /\ Zero \in Setpoint
    /\ NOP \notin Setpoint
    /\ None \notin Setpoint /\ None \notin JointTarget
    /\ Malformed \notin JointTarget /\ Unknown \notin GripperPos /\ SetZero \notin Setpoint
    /\ MaxSteps \in Nat /\ MaxSteps >= 2
    /\ MaxPending \in Nat
    /\ FunV \in {1, 2, 3, 4, 5}
    /\ LinkFails \in BOOLEAN

VARIABLES
    order, reach, latched, running,  \* Actuators
    heard,      \* (history) the arm motors that got the last call meant for the arm
    pos,        \* where each arm motor is
    fb,         \* motor::data.position as last received, None before that
    pending,    \* the message or request waiting at each topic and service
    job,        \* the motion callback that holds the thread
    enabled,    \* arm_enabled_
    moving,     \* is_moving_
    lastError,  \* last_error_message_ is not empty
    status,     \* motion_status as last published
    confirmed   \* (history) the target last reported as reached

M == INSTANCE Actuators

motors == <<order, reach, latched, running, heard>>
node == <<enabled, moving, lastError, status, confirmed>>
vars == <<motors, pos, fb, pending, job, node>>

Idle  == [phase |-> "idle", by |-> None, left |-> 0, goal |-> None, grip |-> None]
Phase == {"idle", "plan", "wait", "grip"}

\* A new motion callback: left waypoints to plan and go to, then the gripper.
Job(c, left, g) == [phase |-> "plan", by |-> c, left |-> left, goal |-> None, grip |-> g]

TypeOK ==
    /\ order \in [Motor -> [mode : M!PositionMode \cup {"VELOCITY"}, val : Setpoint]
                          \cup [mode : M!HaltMode, val : {NOP}]]
    /\ reach \subseteq Motor
    /\ latched = FALSE
    /\ running \in BOOLEAN
    /\ heard \subseteq Arm
    /\ pos \in [Arm -> Setpoint]
    /\ fb \in [Arm -> Setpoint \cup {None}]
    /\ DOMAIN pending = Callee
    /\ \A c \in Callee : pending[c] \in Offered[c] \cup {None}
    /\ job \in [phase : Phase, by : Callee \cup {None}, left : 0 .. MaxSteps,
                goal : JointTarget \cup {None}, grip : {Open, Closed, None}]
    /\ job.phase = "plan" => job.left > 0
    /\ job.phase = "wait" => job.goal # None
    /\ job.phase = "grip" => job.grip # None
    /\ enabled \in BOOLEAN /\ moving \in BOOLEAN /\ lastError \in BOOLEAN
    /\ status \in {"idle", "moving", "error"}
    /\ confirmed \in JointTarget \cup {None}

-----------------------------------------------------------------------------
(* The calls of the SDK, and who hears them.                               *)

MoveArm(t)     == M!MoveArm("POS_VEL_TQE", t) /\ heard' = Arm \cap reach
Halt(md)       == M!Halt(md) /\ heard' = Arm \cap reach
MoveGripper(g) == M!MoveGripper("POS_VEL_TQE", g) /\ UNCHANGED heard

\* The query for the motors' states, a zero velocity for old firmware.
Poll == IF FunV < 2 THEN M!LegacyPoll /\ UNCHANGED heard ELSE running /\ UNCHANGED motors

-----------------------------------------------------------------------------
(* What a motion callback is made of.                                      *)

\* The arm's part of callback j is over: pos_cmd goes on to the gripper.
EndMotion(j) ==
    job' = IF j.grip = None THEN Idle ELSE [j EXCEPT !.phase = "grip"]

\* Mutant of ExecuteJointTarget: no look at arm_enabled_.
ExecuteRegardless(j, t) ==
    /\ MoveArm(t)
    /\ moving' = TRUE
    /\ job' = [j EXCEPT !.phase = "wait", !.goal = t, !.left = @ - 1]
    /\ UNCHANGED lastError

\* executeJointTarget up to the wait, on behalf of callback j.
ExecuteJointTarget(j, t) ==
    \/ /\ ~enabled
       /\ EndMotion(j)
       /\ UNCHANGED <<motors, moving, lastError>>
    \/ /\ enabled
       /\ \E m \in Arm : t[m] \notin Legal               \* checkJointLimits
       /\ lastError' = TRUE
       /\ EndMotion(j)
       /\ UNCHANGED <<motors, moving>>
    \/ /\ enabled
       /\ MoveArm(t)
       /\ moving' = TRUE
       /\ job' = [j EXCEPT !.phase = "wait", !.goal = t, !.left = @ - 1]
       /\ UNCHANGED lastError

\* executeCartesianPath, posCmdCallback, moveToPoseService: IK for the next
\* waypoint, seeded by the one before.  It fails or its result is legal.
PlanWaypoint ==
    /\ running
    /\ job.phase = "plan"
    /\ \/ EndMotion(job)
          /\ UNCHANGED <<motors, moving, lastError>>
       \/ \E t \in [Arm -> Legal] : ExecuteJointTarget(job, t)
    /\ UNCHANGED <<pos, fb, pending, enabled, status, confirmed>>

AtGoal == \A m \in Arm : fb[m] = job.goal[m]

\* One round of waitForPosition: poll, then read what has been received.
CheckPosition ==
    /\ running
    /\ job.phase = "wait"
    /\ Poll
    /\ IF AtGoal
       THEN /\ moving' = FALSE
            /\ lastError' = FALSE                        \* clearError
            /\ confirmed' = job.goal
            /\ IF job.left = 0
               THEN EndMotion(job)
               ELSE job' = [job EXCEPT !.phase = "plan"]
       ELSE UNCHANGED <<moving, lastError, confirmed, job>>
    /\ UNCHANGED <<pos, fb, pending, enabled, status>>

\* Mutant of GiveUp: the path goes on after a waypoint timed out.
GiveUpOneWaypoint ==
    /\ running
    /\ job.phase = "wait"
    /\ moving' = FALSE
    /\ lastError' = TRUE
    /\ IF job.left = 0 THEN EndMotion(job)
       ELSE job' = [job EXCEPT !.phase = "plan"]
    /\ UNCHANGED <<motors, pos, fb, pending, enabled, status, confirmed>>

\* Mutant of GiveUp: waitForPosition without a timeout.
GiveUpNever == FALSE /\ UNCHANGED vars

\* waitForPosition times out; the motors keep their orders.
GiveUp ==
    /\ running
    /\ job.phase = "wait"
    /\ moving' = FALSE
    /\ lastError' = TRUE                                 \* setError
    /\ EndMotion(job)
    /\ UNCHANGED <<motors, pos, fb, pending, enabled, status, confirmed>>

\* The gripper's part of posCmdCallback, whatever became of the arm's.
PosCmdGripper ==
    /\ running
    /\ job.phase = "grip"
    /\ MoveGripper(job.grip)
    /\ job' = Idle
    /\ UNCHANGED <<pos, fb, pending, enabled, moving, lastError, status, confirmed>>

-----------------------------------------------------------------------------
(* The callbacks.                                                          *)

\* The thread is free and takes what waits at c.
Ready(c) == running /\ job = Idle /\ pending[c] # None
Take(c)  == Ready(c) /\ pending' = [pending EXCEPT ![c] = None]

Refuse == UNCHANGED motors

\* armJointCallback and moveToJointService.
JointCommand(c) ==
    /\ Take(c)
    /\ IF pending[c] = Malformed
       THEN Refuse /\ UNCHANGED <<job, moving, lastError>>
       ELSE ExecuteJointTarget(Job(c, 1, None), pending[c])
    /\ UNCHANGED <<pos, fb, enabled, status, confirmed>>

GoZeroService ==
    /\ Take("go_zero_srv")
    /\ ExecuteJointTarget(Job("go_zero_srv", 1, None), [m \in Arm |-> Home])
    /\ UNCHANGED <<pos, fb, enabled, status, confirmed>>

\* posCmdCallback and moveToPoseService: one waypoint in joint space, one per
\* centimetre and at least two on a Cartesian path.
StartPose(c, cartesian, g) ==
    /\ \E n \in IF cartesian THEN 2 .. MaxSteps ELSE {1} : job' = Job(c, n, g)
    /\ UNCHANGED <<motors, pos, fb, enabled, moving, lastError, status, confirmed>>

PosCmdCallback ==
    /\ Take("pos_cmd")
    /\ StartPose("pos_cmd", pending["pos_cmd"].cartesian, pending["pos_cmd"].gripper)

MoveToPoseService ==
    /\ Take("move_to_pose")
    /\ StartPose("move_to_pose", pending["move_to_pose"], None)

\* A gripper command, ignored while the arm is disabled.
DriveGripper(g) ==
    \/ ~enabled /\ Refuse
    \/ enabled /\ MoveGripper(g)

GripperCallback ==
    /\ Take("gripper_cmd")
    /\ DriveGripper(IF pending["gripper_cmd"] THEN Open ELSE Closed)
    /\ UNCHANGED <<pos, fb, job, enabled, moving, lastError, status, confirmed>>

GripperControlService ==
    /\ Take("gripper_control")
    /\ IF pending["gripper_control"] = Unknown THEN Refuse
       ELSE DriveGripper(pending["gripper_control"])
    /\ UNCHANGED <<pos, fb, job, enabled, moving, lastError, status, confirmed>>

GripperDetailService ==
    /\ Take("gripper_srv")
    /\ \/ pending["gripper_srv"] # SetZero /\ DriveGripper(pending["gripper_srv"])
       \/ pending["gripper_srv"] = SetZero /\ ~enabled /\ Refuse
       \/ pending["gripper_srv"] = SetZero /\ enabled /\ Halt("RESET")
    /\ UNCHANGED <<pos, fb, job, enabled, moving, lastError, status, confirmed>>

\* gripperDetailService with set_zero names motor getMotorCount() + 1, counted
\* from 0: one past the gripper, the last of Motors.  What robot::
\* set_reset_zero finds there is undefined.  It may look like a motor, as
\* above, and the robot is reset; or the process dies with no answer given.
GripperZeroDies ==
    /\ Ready("gripper_srv")
    /\ pending["gripper_srv"] = SetZero
    /\ enabled
    /\ running' = FALSE
    /\ UNCHANGED <<order, reach, latched, heard, pos, fb, pending, job, node>>

\* enableFlagCallback and enableService.
Enable(c) ==
    /\ Take(c)
    /\ enabled' = pending[c]
    /\ IF pending[c] THEN UNCHANGED motors ELSE Halt("STOP")
    /\ UNCHANGED <<pos, fb, job, moving, lastError, status, confirmed>>

StopService ==
    /\ Take("stop_srv")
    /\ Halt("STOP")
    /\ moving' = FALSE
    /\ UNCHANGED <<pos, fb, job, enabled, lastError, status, confirmed>>

\* Mutant of ResetService: the flags are reset, the motors are not.
ResetFlags ==
    /\ Take("reset_srv")
    /\ lastError' = FALSE /\ enabled' = TRUE /\ moving' = FALSE
    /\ UNCHANGED <<motors, pos, fb, job, status, confirmed>>

ResetService ==
    /\ Take("reset_srv")
    /\ Halt("RESET")
    /\ lastError' = FALSE
    /\ enabled' = TRUE
    /\ moving' = FALSE
    /\ UNCHANGED <<pos, fb, job, status, confirmed>>

\* publishStatus, on the timer.
PublishStatus ==
    /\ job = Idle
    /\ Poll
    /\ status' = IF moving THEN "moving" ELSE IF lastError THEN "error" ELSE "idle"
    /\ UNCHANGED <<pos, fb, pending, job, enabled, moving, lastError, confirmed>>

Serve(c) ==
    \/ c \in {"arm_joint_cmd", "move_to_joint"} /\ JointCommand(c)
    \/ c = "go_zero_srv" /\ GoZeroService
    \/ c = "pos_cmd" /\ PosCmdCallback
    \/ c = "move_to_pose" /\ MoveToPoseService
    \/ c = "gripper_cmd" /\ GripperCallback
    \/ c = "gripper_control" /\ GripperControlService
    \/ c = "gripper_srv" /\ (GripperDetailService \/ GripperZeroDies)
    \/ c \in {"enable_flag", "enable_srv"} /\ Enable(c)
    \/ c = "stop_srv" /\ StopService
    \/ c = "reset_srv" /\ ResetService

JobStep == PlanWaypoint \/ CheckPosition \/ GiveUp \/ PosCmdGripper

-----------------------------------------------------------------------------
(* The clients and the motors.                                             *)

\* A topic replaces the message it holds, a service has one call under way.
Send(c, a) ==
    /\ running
    /\ Cardinality({d \in Callee : pending[d] # None}) < MaxPending \/ pending[c] # None
    /\ c \in Service => pending[c] = None /\ job.by # c
    /\ pending' = [pending EXCEPT ![c] = a]
    /\ UNCHANGED <<motors, pos, fb, job, node>>

\* An arm motor gets where it was told to go.
Arrive(m) ==
    /\ order[m].mode \in M!PositionMode
    /\ pos' = [pos EXCEPT ![m] = order[m].val]
    /\ UNCHANGED <<motors, fb, pending, job, node>>

\* Its state frame is received.
Feedback(m) ==
    /\ m \in reach
    /\ fb' = [fb EXCEPT ![m] = pos[m]]
    /\ UNCHANGED <<motors, pos, pending, job, node>>

LinkDown ==
    /\ LinkFails
    /\ \E S \in SUBSET reach : M!Unreach(S)
    /\ UNCHANGED <<heard, pos, fb, pending, job, node>>

\* Case error_reconnect of the check thread: links come back, to motor objects
\* that have received nothing yet, and the motors do what they did.  The node is
\* not told.
Reconnect ==
    /\ LinkFails
    /\ \E S \in SUBSET Motor : M!Regain(S)
    /\ fb' = [m \in Arm |-> None]
    /\ UNCHANGED <<heard, pos, pending, job, node>>

-----------------------------------------------------------------------------
\* The constructor: Panthera's initialisation ends with reset motors or, with
\* old firmware, motors at zero velocity; it goes on without those that never
\* answered.
Init ==
    /\ M!Init
    /\ heard = Arm
    /\ pos \in [Arm -> Legal]
    /\ fb \in {f \in [Arm -> Legal \cup {None}] : \A m \in Arm : f[m] \in {pos[m], None}}
    /\ pending = [c \in Callee |-> None]
    /\ job = Idle
    /\ enabled = TRUE
    /\ moving = FALSE
    /\ lastError = FALSE
    /\ status = "idle"
    /\ confirmed = None

Next ==
    \/ JobStep
    \/ \E c \in Callee : Serve(c)
    \/ PublishStatus
    \/ \E c \in Callee : \E a \in Offered[c] : Send(c, a)
    \/ \E m \in Arm : Arrive(m) \/ Feedback(m)
    \/ LinkDown
    \/ Reconnect

Spec == Init /\ [][Next]_vars

\* The services that somebody calls at all.
Called == {c \in Service : Offered[c] # {}}

\* The callback that holds the thread runs on (waitForPosition ends, if only
\* at its timeout), and spin serves every request in its turn: a wait set is
\* worked off, timer, topics and services, before the next one is collected.
FairSpec ==
    /\ Spec
    /\ WF_vars(JobStep)
    /\ \A c \in Called : SF_vars(Serve(c))

-----------------------------------------------------------------------------
(* Properties.                                                             *)

\* From the step on in which the arm is disabled no arm motor gets a position
\* order, whatever was being done, asked for or left over, and none keeps one but
\* those out of reach in that step (enableFlagCallback, enableService,
\* executeJointTarget).  Those keep it when their link is back: error_reconnect
\* sends no halt and the node does not repeat its own.
DisabledArmHalted ==
    [][~enabled' =>
         \A m \in Arm : order'[m].mode \in M!PositionMode =>
            order'[m] = order[m] /\ (m \in reach => ~enabled)]_vars

\* With no error on record and no wait under way, a position order in force is
\* one that was reported as reached, on every motor that got the last call meant
\* for the arm: motion_status never says idle of an arm that is still on its way
\* there (setError, clearError, publishStatus).
IdleIsSettled ==
    ~lastError /\ job.phase # "wait" =>
        \A m \in heard :
            order[m].mode \in M!PositionMode => confirmed # None /\ order[m].val = confirmed[m]

\* A Cartesian path goes on to its next waypoint only from one it has reached
\* (executeCartesianPath, executeJointTarget).
NoSkippedWaypoint ==
    [][job.phase = "plan" /\ job.goal # None /\ job'.phase = "wait" => confirmed = job.goal]_vars

\* Every service request is answered, however many messages and other
\* requests keep arriving (rclcpp::spin, waitForPosition's timeout).
RequestsAnswered ==
    \A c \in Called : pending[c] # None ~> pending[c] = None /\ job.by # c

\* While the arm is disabled the gripper accepts no commands either
\* (arm_status.arm_enabled).
DisabledGripperHolds ==
    [][~enabled /\ order'[Gripper] # order[Gripper] =>
          order'[Gripper].mode \notin M!PositionMode]_vars

\* A move that lasts until its 15 s timeout has been published as moving by the
\* 20 Hz status (publishStatus, arm_status.motion_status).
LongMoveIsPublished == [][GiveUp => status = "moving"]_vars

\* From the moment an emergency stop is asked for, no arm motor is sent on to
\* another position (stop_srv).
StopComesFirst ==
    [][pending["stop_srv"] # None =>
          \A m \in Arm : order'[m] # order[m] => order'[m].mode \notin M!PositionMode]_vars

\* A move reported as reached has every arm motor at its target or at least
\* under the order to go there (Panthera::checkPositionReached).
ReachedIsThere ==
    [][job.phase = "wait" /\ job'.phase # "wait" /\ ~lastError' =>
          \A m \in Arm : \/ pos[m] = job.goal[m]
                         \/ order[m] = M!Order("POS_VEL_TQE", job.goal[m])]_vars
=============================================================================
