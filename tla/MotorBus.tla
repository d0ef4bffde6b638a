------------------------------ MODULE MotorBus ------------------------------
(***************************************************************************)
(* The command path of the SDK: what a call of the robot / Panthera API    *)
(* leaves in the transmit buffers and what the motors are told to do.      *)
(*                                                                         *)
(* Every CAN port owns ONE transmit buffer (canport::cdc_tr_message) that  *)
(* all its motors share.  A motor method writes only the slot of its motor *)
(* and, when the buffer holds a frame of another mode, first turns it into *)
(* an empty frame of its own mode (every slot the NOP marker 0x8000).      *)
(* robot::motor_send_cmd then sends the buffers of ALL ports, as they are. *)
(* So a frame carries more than the call that sends it wrote: whatever the *)
(* buffers still hold goes out again.                                      *)
(*                                                                         *)
(* The calls are the public ones of robot and Panthera that the nodes of   *)
(* the repository and the destructor make, and detect_motor_limit, which   *)
(* the library offers and no node calls.  One user thread makes them, one  *)
(* after the other (arm_control_node is spun by one thread, the controller *)
(* manager calls read and write in turn).  The receive threads (FreshData) *)
(* the check thread and the USB links (LinkDown, Reconnect) act between any*)
(* two calls; Recovery has the threads.                                    *)
(***************************************************************************)
EXTENDS Naturals

CONSTANTS
    Motor,        \* robot::Motors
    Arm,          \* Motors[0 .. motor_count_ - 1]
    Gripper,      \* Motors[gripper_id_ - 1]
    Port,         \* robot::CANPorts
    PortOf,       \* the port a motor hangs on
    Setpoint,     \* what a slot may ask for
    Legal,        \* the setpoints inside the joint limits
    Zero,         \* the setpoint of velocity(0.0)
    NOP,          \* 0x8000, "no command for this motor"
    PosLimited,   \* the motors with pos_limit_enable
    TorLimited,   \* the motors with tor_limit_enable
    FunV,         \* the function version negotiated, the same after a Reconnect
    ExitBrake     \* exit_motor_brake_flag

ASSUME BusAssumption ==
    /\ Arm \subseteq Motor
    /\ Gripper \in Motor \ Arm
    /\ PortOf \in [Motor -> Port]
    /\ Legal \subseteq Setpoint
    /\ Zero \in Setpoint
    /\ NOP \notin Setpoint
    /\ PosLimited \subseteq Motor
    /\ TorLimited \subseteq Motor
    /\ FunV \in {1, 2, 3, 4, 5}
    /\ ExitBrake \in BOOLEAN

\* Frames that carry a slot per motor and drive the motors.
MotionMode == {"VELOCITY", "POS_VEL_TQE", "POS_VEL_TQE_KP_KD_2"}
\* One-byte broadcasts that take every motor of the port out of motion.
HaltMode   == {"STOP", "BRAKE", "RESET"}
\* Frames that query or configure and leave the motion as it is.
\* VERSION: MODE_MOTOR_VERSION or MODE_TQE_ADJS_FLAG, which negotiation ends with.
OtherMode  == {"MOTOR_STATE", "MOTOR_STATE2", "VERSION", "TIME_OUT", "RESET_ZERO", "CONF_WRITE"}
Mode       == MotionMode \cup HaltMode \cup OtherMode

\* What a motor was last told to do.
Order(mode, val) == [mode |-> mode, val |-> val]
Driven(o)        == o.mode \in MotionMode

VARIABLES
    cmd,        \* head.s.cmd of each port's buffer
    slot,       \* the slot of each motor, read only while cmd is a motion mode
    act,        \* the order each motor is executing
    link,       \* is the port's serial device open?
    posFlag,    \* motor::pos_limit_flag # 0
    torFlag,    \* motor::tor_limit_flag # 0
    posLatch,   \* robot::motor_position_limit_flag # 0
    torLatch,   \* robot::motor_torque_limit_flag # 0
    running     \* the robot object has not been destroyed

vars == <<cmd, slot, act, link, posFlag, torFlag, posLatch, torLatch, running>>

TypeOK ==
    /\ cmd \in [Port -> Mode]
    /\ slot \in [Motor -> Setpoint \cup {NOP}]
    /\ act \in [Motor -> [mode : Mode, val : Setpoint \cup {NOP}]]
    /\ link \in [Port -> BOOLEAN]
    /\ posFlag \in [Motor -> BOOLEAN]
    /\ torFlag \in [Motor -> BOOLEAN]
    /\ posLatch \in BOOLEAN
    /\ torLatch \in BOOLEAN
    /\ running \in BOOLEAN

Latched == posLatch \/ torLatch

-----------------------------------------------------------------------------
(* Frames.                                                                 *)

\* What a motor that executes o makes of a frame of mode c whose slot for it
\* is s: motion frames with a command replace the order, halting broadcasts
\* end it, every other frame leaves it alone.
Obey(c, s, o) ==
    IF c \in MotionMode /\ s # NOP THEN Order(c, s)
    ELSE IF c \in HaltMode THEN Order(c, NOP)
    ELSE o

\* canport::motor_send_cmd on every port: send_2 writes to the open devices.
Sent(c, s, a) ==
    [m \in Motor |-> IF link[PortOf[m]] THEN Obey(c[PortOf[m]], s[m], a[m]) ELSE a[m]]

\* Mutant of GatedSent: motor_send_cmd forgets to look at the limit flags.
UngatedSent(c, s, a) == Sent(c, s, a)

\* robot::motor_send_cmd: the same, unless a limit has been latched.
GatedSent(c, s, a) == IF Latched THEN a ELSE Sent(c, s, a)

\* The ports whose buffer a call that writes the slots of the motors S touches.
Touched(S) == {PortOf[m] : m \in S}

\* The buffers' modes after motor methods of mode md wrote the slots of S ...
ModeAfter(md, S) == [p \in Port |-> IF p \in Touched(S) THEN md ELSE cmd[p]]

\* Mutant of SlotAfter: the buffer keeps the words of the old mode.
UnfilledSlot(md, S, val) == [m \in Motor |-> IF m \in S THEN val[m] ELSE slot[m]]

\* ... and their slots: a buffer that changes mode is first filled with NOP.
SlotAfter(md, S, val) ==
    [m \in Motor |->
        IF m \in S THEN val[m]
        ELSE IF PortOf[m] \in Touched(S) /\ cmd[PortOf[m]] # md THEN NOP
        ELSE slot[m]]

\* Mutant of Command: the buffers are sent before the slots are written.
SendThenWrite(md, S, val) ==
    /\ cmd' = ModeAfter(md, S)
    /\ slot' = SlotAfter(md, S, val)
    /\ act' = GatedSent(cmd, slot, act)
    /\ UNCHANGED <<link, posFlag, torFlag, posLatch, torLatch, running>>

\* Write the slots of S in mode md and call robot::motor_send_cmd.
Command(md, S, val) ==
    /\ cmd' = ModeAfter(md, S)
    /\ slot' = SlotAfter(md, S, val)
    /\ act' = GatedSent(cmd', slot', act)
    /\ UNCHANGED <<link, posFlag, torFlag, posLatch, torLatch, running>>

\* A one-byte broadcast on every port.  It is written to the devices by
\* canport::motor_send_cmd, which knows nothing of the limits.
BroadcastMode(md) == [p \in Port |-> md]

-----------------------------------------------------------------------------
(* The calls of the user thread.                                           *)

\* Mutant of PosVelMaxTorque: the joint limits are not checked.
UncheckedPosVel(pos) == running /\ Command("POS_VEL_TQE", Arm, pos)

PosVelMaxTorque(pos) ==
    /\ running
    /\ \A m \in Arm : pos[m] \in Legal           \* checkJointLimits
    /\ Command("POS_VEL_TQE", Arm, pos)

PosVelTorqueKpKd(pos) ==
    /\ running
    /\ \A m \in Arm : pos[m] \in Legal
    /\ Command("POS_VEL_TQE_KP_KD_2", Arm, pos)

GripperControl(v) ==
    /\ running
    /\ Command("POS_VEL_TQE", {Gripper}, [m \in {Gripper} |-> v])

GripperControlMIT(v) ==
    /\ running
    /\ Command("POS_VEL_TQE_KP_KD_2", {Gripper}, [m \in {Gripper} |-> v])

\* robot::send_get_motor_state_cmd.  Before function version 2 there is no
\* query frame: the motors are sent a zero velocity and answer that.
SendGetMotorStateCmd ==
    /\ running
    /\ IF FunV >= 2
       THEN /\ cmd' = BroadcastMode(IF FunV >= 4 THEN "MOTOR_STATE2" ELSE "MOTOR_STATE")
            /\ act' = Sent(cmd', slot, act)
            /\ UNCHANGED <<slot, link, posFlag, torFlag, posLatch, torLatch, running>>
       ELSE Command("VELOCITY", Motor, [m \in Motor |-> Zero])

\* robot::motor_send_cmd on its own: the nodes call it after other calls.
MotorSendCmd ==
    /\ running
    /\ act' = GatedSent(cmd, slot, act)
    /\ UNCHANGED <<cmd, slot, link, posFlag, torFlag, posLatch, torLatch, running>>

\* robot::set_stop and robot::set_brake: every port broadcasts three times,
\* then robot::motor_send_cmd repeats the frame.
StopAll(md) ==
    /\ cmd' = BroadcastMode(md)
    /\ act' = GatedSent(cmd', slot, Sent(cmd', slot, act))

SetStop ==
    /\ running
    /\ StopAll("STOP")
    /\ UNCHANGED <<slot, link, posFlag, torFlag, posLatch, torLatch, running>>

SetBrake ==
    /\ running
    /\ StopAll("BRAKE")
    /\ UNCHANGED <<slot, link, posFlag, torFlag, posLatch, torLatch, running>>

SetReset ==
    /\ running
    /\ cmd' = BroadcastMode("RESET")
    /\ act' = Sent(cmd', slot, act)
    /\ UNCHANGED <<slot, link, posFlag, torFlag, posLatch, torLatch, running>>

\* robot::set_timeout: a TIME_OUT frame on every port.
SetTimeout ==
    /\ running
    /\ cmd' = BroadcastMode("TIME_OUT")
    /\ act' = Sent(cmd', slot, act)
    /\ UNCHANGED <<slot, link, posFlag, torFlag, posLatch, torLatch, running>>

\* robot::set_reset_zero({m}): reset every motor, then the port of m repeats
\* RESET_ZERO until it is answered (or gives up) and, if it was, CONF_WRITE.
SetResetZero(m) ==
    /\ running
    /\ \E last \in {"RESET_ZERO", "CONF_WRITE"} :
          cmd' = [BroadcastMode("RESET") EXCEPT ![PortOf[m]] = last]
    /\ act' = Sent(cmd', slot, Sent(BroadcastMode("RESET"), slot, act))
    /\ UNCHANGED <<slot, link, posFlag, torFlag, posLatch, torLatch, running>>

\* robot::detect_motor_limit: the first motor found over a limit stops the
\* robot and latches; the stop goes out before the latch closes the gate.
DetectMotorLimit ==
    /\ running
    /\ ~Latched
    /\ \E m \in Motor :
          /\ posFlag[m] \/ torFlag[m]
          /\ StopAll("STOP")
          /\ IF posFlag[m]
             THEN posLatch' = TRUE /\ UNCHANGED torLatch
             ELSE torLatch' = TRUE /\ UNCHANGED posLatch
    /\ UNCHANGED <<slot, link, posFlag, torFlag, running>>

\* Mutant of Destroy: the devices are closed and the motors are told nothing.
SilentDestroy ==
    /\ running
    /\ running' = FALSE
    /\ UNCHANGED <<cmd, slot, act, link, posFlag, torFlag, posLatch, torLatch>>

\* robot::~robot: brake, or stop and reset, then the devices are closed.
Destroy ==
    /\ running
    /\ IF ExitBrake
       THEN StopAll("BRAKE")
       ELSE /\ cmd' = BroadcastMode("RESET")
            /\ act' = Sent(cmd', slot,
                           GatedSent(BroadcastMode("STOP"), slot,
                                     Sent(BroadcastMode("STOP"), slot, act)))
    /\ running' = FALSE
    /\ UNCHANGED <<slot, link, posFlag, torFlag, posLatch, torLatch>>

-----------------------------------------------------------------------------
(* The receive threads and the links.                                      *)

\* motor::fresh_data: a state frame arrived; overPos and overTor say whether its
\* values are outside limits that the configuration enables.
FreshData(m, overPos, overTor) ==
    /\ running
    /\ link[PortOf[m]]
    /\ overPos => m \in PosLimited
    /\ overTor => m \in TorLimited
    /\ posFlag' = [posFlag EXCEPT ![m] = @ \/ overPos]
    /\ torFlag' = [torFlag EXCEPT ![m] = @ \/ overTor]
    /\ UNCHANGED <<cmd, slot, act, link, posLatch, torLatch, running>>

\* The device of a port disappears: read or write throws and closes it.  The
\* check thread then deletes the drivers of the other ports with it.
LinkDown(p) ==
    /\ running /\ link[p]
    /\ link' = [link EXCEPT ![p] = FALSE]
    /\ UNCHANGED <<cmd, slot, act, posFlag, torFlag, posLatch, torLatch, running>>

\* Case error_reconnect of the check thread opens what devices there are, builds
\* new boards, ports and motors, and asks for versions.  It sends no halt and no
\* timeout, and keeps the latches: the motors do what they were told before.
Reconnect(U) ==
    /\ running
    /\ \A p \in Port : ~link[p]
    /\ link' = [p \in Port |-> p \in U]
    /\ cmd' = BroadcastMode("VERSION")
    /\ \E s \in Setpoint \cup {NOP} : slot' = [m \in Motor |-> s]   \* not initialized
    /\ posFlag' = [m \in Motor |-> FALSE] /\ torFlag' = [m \in Motor |-> FALSE]
    /\ UNCHANGED <<act, posLatch, torLatch, running>>

-----------------------------------------------------------------------------
\* After robot::init_robot: its last frame is the state poll.  With a query
\* poll the slots hold whatever the allocation of the buffer held.
Init ==
    /\ link = [p \in Port |-> TRUE]
    /\ posFlag = [m \in Motor |-> FALSE]
    /\ torFlag = [m \in Motor |-> FALSE]
    /\ posLatch = FALSE
    /\ torLatch = FALSE
    /\ running = TRUE
    /\ IF FunV >= 2
       THEN /\ cmd = [p \in Port |-> IF FunV >= 4 THEN "MOTOR_STATE2" ELSE "MOTOR_STATE"]
            /\ slot \in [Motor -> Setpoint \cup {NOP}]
            /\ act = [m \in Motor |-> Order("RESET", NOP)]
       ELSE /\ cmd = [p \in Port |-> IF p \in Touched(Motor) THEN "VELOCITY" ELSE "TIME_OUT"]
            /\ slot = [m \in Motor |-> Zero]
            /\ act = [m \in Motor |-> Order("VELOCITY", Zero)]

ArmCommand == \E pos \in [Arm -> Setpoint] : PosVelMaxTorque(pos) \/ PosVelTorqueKpKd(pos)
GripperCommand == \E v \in Setpoint : GripperControl(v) \/ GripperControlMIT(v)
Halt == SetStop \/ SetBrake \/ SetReset \/ \E m \in Motor : SetResetZero(m)

Next ==
    \/ ArmCommand
    \/ GripperCommand
    \/ SendGetMotorStateCmd
    \/ MotorSendCmd
    \/ Halt
    \/ SetTimeout
    \/ DetectMotorLimit
    \/ Destroy
    \/ \E m \in Motor, overPos, overTor \in BOOLEAN : FreshData(m, overPos, overTor)
    \/ \E p \in Port : LinkDown(p)
    \/ \E U \in SUBSET Port : Reconnect(U)

Spec == Init /\ [][Next]_vars

-----------------------------------------------------------------------------
(* Properties.                                                             *)

\* Sending the buffers once more changes nothing for any motor that can still
\* be reached: what a buffer holds is what its motors are already doing.  The
\* nodes rely on it, they call motor_send_cmd again after set_stop, set_reset
\* and the state poll (robot::motor_send_cmd, canport::motor_send_cmd).
ResendIsHarmless == running /\ ~Latched => GatedSent(cmd, slot, act) = act

\* From the step on in which detect_motor_limit latches a limit, no motor gets a
\* motion, whatever is called and whatever links go and come back, and no motor
\* keeps one but those out of reach in that step (robot::detect_motor_limit stops
\* the motors once, robot::motor_send_cmd refuses every later frame).  Those stay
\* driven, also when their link is back: error_reconnect sends no halt.
LatchedMeansHalted ==
    [][Latched' =>
         \A m \in Motor : Driven(act'[m]) =>
            act'[m] = act[m] /\ (Latched \/ ~link[PortOf[m]])]_vars

\* An arm motor under position control is never driven to a position outside
\* the joint limits (Panthera::checkJointLimits), not by the frame of another
\* call either.
ArmWithinLimits ==
    \A m \in Arm : act[m].mode \in {"POS_VEL_TQE", "POS_VEL_TQE_KP_KD_2"} => act[m].val \in Legal

\* A motor gets a new motion order only from a call that commands it: a gripper
\* command never wakes the arm, nor an arm command the gripper, nor a poll, a
\* halt or a plain resend either of them (except for the zero velocity that
\* stands in for the poll before function version 2).
OnlyCommandedMotorsMove ==
    [][\A m \in Motor :
         act'[m] # act[m] /\ Driven(act'[m]) =>
            \/ m \in Arm /\ ArmCommand
            \/ m = Gripper /\ GripperCommand
            \/ FunV < 2 /\ SendGetMotorStateCmd]_vars

\* Destroying the robot object leaves no reachable motor driven, latched or not
\* (robot::~robot).
ExitMeansHalted == [][running /\ ~running' => \A m \in Motor : link[PortOf[m]] => ~Driven(act'[m])]_vars

\* With exit_motor_brake_flag set, destroying the robot object leaves every
\* reachable motor free to be moved by hand, that is, not braked (robot::~robot).
ExitReleasesBrake ==
    [][ExitBrake /\ running /\ ~running' =>
         \A m \in Motor : link[PortOf[m]] => act'[m].mode # "BRAKE"]_vars

-----------------------------------------------------------------------------
(* The buffers are an implementation detail: seen from the motors, the      *)
(* calls do what Actuators says.                                            *)

Reach == {m \in Motor : link[PortOf[m]]}

Act == INSTANCE Actuators WITH order <- act, reach <- Reach, latched <- Latched

\* Whatever the shared buffers hold and resend, every call does to the motors
\* exactly what it says and nothing more (robot, canboard, canport, motor).
ImplementsActuators == Act!Spec
=============================================================================
