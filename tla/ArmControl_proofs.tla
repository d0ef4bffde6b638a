------------------------- MODULE ArmControl_proofs -------------------------
(***************************************************************************)
(* What is proved of arm_control_node, for any motors, clients, links and  *)
(* function version: types, that a disabled arm gets no motion, that a     *)
(* status without error means a settled arm, that no path skips a          *)
(* waypoint, that its callbacks do to the motors only what Actuators       *)
(* offers, and that the arm is told legal positions only.                  *)
(***************************************************************************)
EXTENDS ArmControl, TLAPS

OrderType == [mode : M!PositionMode \cup {"VELOCITY"}, val : Setpoint] \cup [mode : M!HaltMode, val : {NOP}]

\* Position orders and halting ones are told apart by their mode.
LEMMA ModesApart ==
    /\ "POS_VEL_TQE" \in M!PositionMode
    /\ "VELOCITY" \notin M!PositionMode
    /\ \A md \in M!HaltMode : md \notin M!PositionMode
    /\ "STOP" \in M!HaltMode /\ "RESET" \in M!HaltMode
  BY DEF M!PositionMode, M!HaltMode

LEMMA CalleeNames ==
    /\ "arm_joint_cmd" \in Callee /\ "move_to_joint" \in Callee /\ "pos_cmd" \in Callee
    /\ "move_to_pose" \in Callee /\ "gripper_cmd" \in Callee /\ "enable_flag" \in Callee
    /\ "enable_srv" \in Callee /\ "gripper_control" \in Callee /\ "gripper_srv" \in Callee
    /\ "go_zero_srv" \in Callee /\ "stop_srv" \in Callee /\ "reset_srv" \in Callee
  BY DEF Callee, Topic, Service

\* What waits at a topic or service is something a client may send to it.
LEMMA PendingOffered ==
    ASSUME TypeOK, NEW c \in Callee, pending[c] # None
    PROVE  pending[c] \in Offered[c]
  BY DEF TypeOK

-----------------------------------------------------------------------------
(* What the calls of Actuators do.                                         *)

\* A motion call tells the reachable motors it names and no other.
LEMMA DriveEffect ==
    ASSUME TypeOK, NEW S \in SUBSET Motor, NEW val \in [S -> Setpoint],
           NEW md \in M!PositionMode \cup {"VELOCITY"}, M!Drive(S, md, val)
    PROVE  /\ order' \in [Motor -> OrderType]
           /\ \A m \in Motor : order'[m] = IF m \in S /\ m \in reach
                                           THEN M!Order(md, val[m]) ELSE order[m]
           /\ UNCHANGED <<reach, latched, running>>
  <1>1. order \in [Motor -> OrderType] /\ latched = FALSE
    BY DEF TypeOK, OrderType
  <1>2. order' = M!Told(S, md, val) /\ UNCHANGED <<reach, latched, running>>
    BY <1>1 DEF M!Drive
  <1>3. \A m \in S : M!Order(md, val[m]) \in OrderType
    BY DEF M!Order, OrderType
  <1>4. \A m \in Motor : order'[m] = IF m \in S /\ m \in reach
                                     THEN M!Order(md, val[m]) ELSE order[m]
    BY <1>2 DEF M!Told
  <1>5. order' = [m \in Motor |-> IF m \in S /\ m \in reach THEN M!Order(md, val[m]) ELSE order[m]]
    BY <1>2 DEF M!Told
  <1> QED
    BY <1>1, <1>2, <1>3, <1>4, <1>5

LEMMA MoveArmEffect ==
    ASSUME TypeOK, NEW t \in JointTarget, MoveArm(t)
    PROVE  /\ order' \in [Motor -> OrderType]
           /\ \A m \in Motor : order'[m] = IF m \in Arm /\ m \in reach
                                           THEN M!Order("POS_VEL_TQE", t[m]) ELSE order[m]
           /\ UNCHANGED <<reach, latched, running>> /\ heard' = Arm \cap reach
  BY ModesApart, ArmAssumption, DriveEffect DEF MoveArm, M!MoveArm, JointTarget

\* A gripper call leaves the arm alone.
LEMMA MoveGripperEffect ==
    ASSUME TypeOK, NEW g \in Setpoint, MoveGripper(g)
    PROVE  /\ order' \in [Motor -> OrderType]
           /\ \A m \in Arm : order'[m] = order[m]
           /\ UNCHANGED <<reach, latched, running, heard>>
  <1> DEFINE val == [m \in {Gripper} |-> g]
  <1>1. /\ M!Drive({Gripper}, "POS_VEL_TQE", val) /\ val \in [{Gripper} -> Setpoint]
        /\ {Gripper} \in SUBSET Motor
    BY ArmAssumption DEF MoveGripper, M!MoveGripper
  <1> HIDE DEF val
  <1>2. /\ order' \in [Motor -> OrderType]
        /\ \A m \in Motor : order'[m] = IF m \in {Gripper} /\ m \in reach
                                        THEN M!Order("POS_VEL_TQE", val[m]) ELSE order[m]
        /\ UNCHANGED <<reach, latched, running>>
    BY <1>1, ModesApart, DriveEffect
  <1> QED
    BY <1>2, ArmAssumption DEF MoveGripper

\* After a halt no reachable motor is under a position order.
LEMMA HaltEffect ==
    ASSUME TypeOK, NEW md \in M!HaltMode, Halt(md)
    PROVE  /\ order' \in [Motor -> OrderType]
           /\ \A m \in reach : order'[m].mode \notin M!PositionMode
           /\ \A m \in Motor \ reach : order'[m] = order[m]
           /\ UNCHANGED <<reach, latched, running>> /\ heard' = Arm \cap reach
  <1>1. order \in [Motor -> OrderType] /\ reach \subseteq Motor
    BY DEF TypeOK, OrderType
  <1>2. M!Order(md, NOP) \in OrderType /\ M!Order(md, NOP).mode = md
    BY DEF M!Order, OrderType
  <1>3. /\ order' = [m \in Motor |-> IF m \in Motor /\ m \in reach
                                     THEN M!Order(md, [n \in Motor |-> NOP][m]) ELSE order[m]]
        /\ UNCHANGED <<reach, latched, running>>
    BY DEF Halt, M!Halt, M!HaltAll, M!Told
  <1>4. \A m \in Motor : order'[m] = IF m \in reach THEN M!Order(md, NOP) ELSE order[m]
    BY <1>3
  <1>5. order' \in [Motor -> OrderType]
    BY <1>1, <1>2, <1>3, <1>4
  <1> QED
    BY <1>1, <1>2, <1>3, <1>4, <1>5, ModesApart DEF Halt

\* A poll leaves the motors alone or ends the position orders it reaches.
LEMMA PollEffect ==
    ASSUME TypeOK, Poll
    PROVE  /\ order' \in [Motor -> OrderType]
           /\ \A m \in Arm : order'[m] = order[m] \/ order'[m].mode \notin M!PositionMode
           /\ UNCHANGED <<reach, latched, running, heard>>
  <1>1. CASE FunV < 2
    <2> DEFINE val == [m \in Motor |-> Zero]
    <2>1. M!Drive(Motor, "VELOCITY", val) /\ val \in [Motor -> Setpoint]
      BY <1>1, ArmAssumption DEF Poll, M!LegacyPoll
    <2> HIDE DEF val
    <2>2. /\ order' \in [Motor -> OrderType]
          /\ \A m \in Motor : order'[m] = IF m \in Motor /\ m \in reach
                                          THEN M!Order("VELOCITY", val[m]) ELSE order[m]
          /\ UNCHANGED <<reach, latched, running>>
      BY <2>1, DriveEffect
    <2>3. \A v : M!Order("VELOCITY", v).mode = "VELOCITY"
      BY DEF M!Order
    <2> QED
      BY <1>1, <2>2, <2>3, ModesApart, ArmAssumption DEF Poll
  <1>2. CASE ~(FunV < 2)
    BY <1>2 DEF Poll, motors, TypeOK, OrderType
  <1> QED
    BY <1>1, <1>2

-----------------------------------------------------------------------------
(* The inductive invariant.  What the invariant of the runs leaves out     *)
(* is the move under way: it was begun enabled, its orders are its goal,    *)
(* and a path between two waypoints has confirmed the last one.             *)

JobType == [phase : Phase, by : Callee \cup {None}, left : 0 .. MaxSteps,
            goal : JointTarget \cup {None}, grip : {Open, Closed, None}]

InFlight ==
    job.phase = "wait" =>
        /\ enabled
        /\ \A m \in heard :
              order[m].mode \in M!PositionMode => order[m].val = job.goal[m]

OnPath == job.phase = "plan" /\ job.goal # None => confirmed = job.goal

Safe == IdleIsSettled /\ InFlight /\ OnPath

IInv == TypeOK /\ Safe

\* Nothing happens to the arm, and the thread is not left waiting for it.
LEMMA ArmUntouched ==
    ASSUME IInv, UNCHANGED <<enabled, lastError, confirmed, heard>>,
           \A m \in Arm : order'[m] = order[m],
           job.phase # "wait", job'.phase # "wait",
           job'.phase = "plan" => job'.goal = None
    PROVE  Safe'
  BY DEF IInv, TypeOK, Safe, IdleIsSettled, InFlight, OnPath

\* The arm is halted and the thread free.
LEMMA ArmHalted ==
    ASSUME \A m \in reach : order'[m].mode \notin M!PositionMode, heard' = Arm \cap reach,
           job'.phase = "idle"
    PROVE  Safe'
  BY DEF Safe, IdleIsSettled, InFlight, OnPath

\* Steps of the world outside the node.
LEMMA Outside ==
    ASSUME IInv, UNCHANGED <<order, heard, enabled, lastError, confirmed, job>>
    PROVE  Safe'
  BY DEF IInv, TypeOK, Safe, IdleIsSettled, InFlight, OnPath

LEMMA IdleType ==
    /\ Idle \in JobType
    /\ Idle.phase = "idle"
    /\ \A c \in Callee, n \in 1 .. MaxSteps, g \in {Open, Closed, None} :
          /\ Job(c, n, g) \in JobType
          /\ Job(c, n, g).phase = "plan" /\ Job(c, n, g).left > 0 /\ Job(c, n, g).goal = None
  <1>1. 0 \in 0 .. MaxSteps /\ \A n \in 1 .. MaxSteps : n \in 0 .. MaxSteps /\ n > 0
    BY ArmAssumption
  <1> QED
    BY <1>1 DEF Idle, Job, JobType, Phase

LEMMA EndMotionType ==
    ASSUME NEW j \in JobType, EndMotion(j)
    PROVE  /\ job' \in JobType
           /\ job'.phase \in {"idle", "grip"}
           /\ job'.phase = "grip" => job'.grip # None
  <1>1. CASE j.grip = None
    BY <1>1, IdleType DEF EndMotion
  <1>2. CASE j.grip # None
    <2>1. job' = [j EXCEPT !.phase = "grip"]
      BY <1>2 DEF EndMotion
    <2> QED
      BY <1>2, <2>1 DEF JobType, Phase
  <1> QED
    BY <1>1, <1>2

\* executeJointTarget refuses, or sends the arm off.
LEMMA ExecuteStep ==
    ASSUME IInv, job.phase # "wait",
           NEW j \in JobType, j.phase = "plan", j.left > 0,
           NEW t \in JointTarget, ExecuteJointTarget(j, t),
           UNCHANGED <<enabled, confirmed>>
    PROVE  /\ order' \in [Motor -> OrderType] /\ UNCHANGED <<reach, latched, running>>
           /\ heard' \subseteq Arm
           /\ job' \in JobType /\ job'.phase # "plan"
           /\ job'.phase = "wait" => job'.goal # None
           /\ job'.phase = "grip" => job'.grip # None
           /\ moving' \in BOOLEAN /\ lastError' \in BOOLEAN
           /\ Safe'
  <1>1. /\ order \in [Motor -> OrderType] /\ heard \subseteq Arm
        /\ moving \in BOOLEAN /\ lastError \in BOOLEAN
    BY DEF IInv, TypeOK, OrderType
  <1>2. CASE ~enabled /\ EndMotion(j) /\ UNCHANGED <<motors, moving, lastError>>
    <2>1. /\ job' \in JobType /\ job'.phase \in {"idle", "grip"}
          /\ job'.phase = "grip" => job'.grip # None
      BY <1>2, EndMotionType
    <2>2. UNCHANGED <<order, reach, latched, running, heard>>
      BY <1>2 DEF motors
    <2>3. Safe'
      BY <1>2, <2>1, <2>2, ArmUntouched
    <2> QED
      BY <1>1, <1>2, <2>1, <2>2, <2>3
  <1>3. CASE enabled /\ lastError' = TRUE /\ EndMotion(j) /\ UNCHANGED <<motors, moving>>
    <2>1. /\ job' \in JobType /\ job'.phase \in {"idle", "grip"}
          /\ job'.phase = "grip" => job'.grip # None
      BY <1>3, EndMotionType
    <2>2. UNCHANGED <<order, reach, latched, running, heard>>
      BY <1>3 DEF motors
    <2>3. Safe'
      BY <1>3, <2>1 DEF Safe, IdleIsSettled, InFlight, OnPath
    <2> QED
      BY <1>1, <1>3, <2>1, <2>2, <2>3
  <1>4. CASE /\ enabled /\ MoveArm(t) /\ moving' = TRUE /\ UNCHANGED lastError
             /\ job' = [j EXCEPT !.phase = "wait", !.goal = t, !.left = @ - 1]
    <2>1. /\ order' \in [Motor -> OrderType] /\ UNCHANGED <<reach, latched, running>>
          /\ heard' = Arm \cap reach
          /\ \A m \in Motor : order'[m] = IF m \in Arm /\ m \in reach
                                          THEN M!Order("POS_VEL_TQE", t[m]) ELSE order[m]
      BY <1>4, MoveArmEffect DEF IInv
    <2>2. j.left - 1 \in 0 .. MaxSteps
      BY ArmAssumption DEF JobType
    <2>3. job' \in JobType /\ job'.phase = "wait" /\ job'.goal = t /\ t # None
      BY <1>4, <2>2, ArmAssumption DEF JobType, Phase
    <2>4. \A m \in heard' : order'[m].val = t[m]
      BY <2>1, ArmAssumption DEF M!Order
    <2>5. Safe'
      BY <1>4, <2>1, <2>3, <2>4 DEF Safe, IdleIsSettled, InFlight, OnPath
    <2> QED
      BY <1>1, <1>4, <2>1, <2>3, <2>5
  <1> QED
    BY <1>2, <1>3, <1>4 DEF ExecuteJointTarget

\* Taking what waits leaves the others waiting.
LEMMA TakeType ==
    ASSUME TypeOK, NEW c \in Callee, Take(c)
    PROVE  /\ DOMAIN pending' = Callee
           /\ \A d \in Callee : pending'[d] \in Offered[d] \cup {None}
           /\ job = Idle /\ job.phase = "idle" /\ running
           /\ pending[c] \in Offered[c]
  BY IdleType, PendingOffered DEF TypeOK, Take, Ready

-----------------------------------------------------------------------------
LEMMA InitInv == Init => IInv
  <1> SUFFICES ASSUME Init PROVE IInv
    OBVIOUS
  <1>1. /\ reach = Motor /\ heard = Arm /\ latched = FALSE /\ running = TRUE /\ confirmed = None
        /\ job = Idle /\ enabled = TRUE /\ moving = FALSE /\ lastError = FALSE /\ status = "idle"
        /\ pending = [c \in Callee |-> None]
    BY DEF Init, M!Init
  <1>2. /\ order \in [Motor -> OrderType]
        /\ \A m \in Motor : order[m].mode \notin M!PositionMode
    <2>1. CASE FunV < 2
      <3>1. order = [m \in Motor |-> M!Order("VELOCITY", Zero)]
        BY <2>1 DEF Init, M!Init
      <3>2. M!Order("VELOCITY", Zero) \in OrderType /\ M!Order("VELOCITY", Zero).mode = "VELOCITY"
        BY ArmAssumption DEF M!Order, OrderType
      <3> QED
        BY <3>1, <3>2, ModesApart
    <2>2. CASE ~(FunV < 2)
      <3>1. order = [m \in Motor |-> M!Order("RESET", NOP)]
        BY <2>2 DEF Init, M!Init
      <3>2. M!Order("RESET", NOP) \in OrderType /\ M!Order("RESET", NOP).mode = "RESET"
        BY ModesApart DEF M!Order, OrderType
      <3> QED
        BY <3>1, <3>2, ModesApart
    <2> QED
      BY <2>1, <2>2
  <1>3. pos \in [Arm -> Setpoint] /\ fb \in [Arm -> Setpoint \cup {None}]
    BY ArmAssumption DEF Init
  <1>4. TypeOK
    BY <1>1, <1>2, <1>3, IdleType DEF TypeOK, JobType, OrderType
  <1>5. Safe
    BY <1>1, <1>2, IdleType, ArmAssumption
    DEF Safe, IdleIsSettled, InFlight, OnPath
  <1> QED
    BY <1>4, <1>5 DEF IInv

\* One round of the callback that holds the thread.
LEMMA JobInv == IInv /\ JobStep => IInv'
  <1> SUFFICES ASSUME IInv, JobStep PROVE IInv'
    OBVIOUS
  <1> USE DEF JobType, OrderType
  <1>0. /\ order \in [Motor -> OrderType] /\ job \in JobType
        /\ job.phase = "plan" => job.left > 0
        /\ job.phase = "wait" => job.goal # None
        /\ job.phase = "grip" => job.grip # None
    BY DEF IInv, TypeOK
  <1>1. CASE PlanWaypoint
    <2>1. /\ job.phase = "plan" /\ UNCHANGED <<pos, fb, pending, enabled, status, confirmed>>
      BY <1>1 DEF PlanWaypoint
    <2>2. CASE EndMotion(job) /\ UNCHANGED <<motors, moving, lastError>>
      <3>1. /\ job' \in JobType /\ job'.phase \in {"idle", "grip"}
            /\ job'.phase = "grip" => job'.grip # None
        BY <1>0, <2>2, EndMotionType
      <3>2. Safe'
        BY <2>1, <2>2, <3>1, ArmUntouched DEF motors
      <3> QED
        BY <2>1, <2>2, <3>1, <3>2 DEF IInv, TypeOK, motors
    <2>3. ASSUME NEW t \in [Arm -> Legal], ExecuteJointTarget(job, t) PROVE IInv'
      <3>1. t \in JointTarget
        BY ArmAssumption DEF JointTarget
      <3>2. /\ order' \in [Motor -> OrderType] /\ UNCHANGED <<reach, latched, running>>
            /\ heard' \subseteq Arm
            /\ job' \in JobType /\ job'.phase # "plan"
            /\ job'.phase = "wait" => job'.goal # None
            /\ job'.phase = "grip" => job'.grip # None
            /\ moving' \in BOOLEAN /\ lastError' \in BOOLEAN
            /\ Safe'
        BY <1>0, <2>1, <2>3, <3>1, ExecuteStep
      <3> QED
        BY <2>1, <3>2 DEF IInv, TypeOK
    <2> QED
      BY <1>1, <2>2, <2>3 DEF PlanWaypoint
  <1>2. CASE CheckPosition
    <2>1. /\ job.phase = "wait" /\ Poll /\ UNCHANGED <<pos, fb, pending, enabled, status>>
      BY <1>2 DEF CheckPosition
    <2>2. /\ order' \in [Motor -> OrderType]
          /\ \A m \in Arm : order'[m] = order[m] \/ order'[m].mode \notin M!PositionMode
          /\ UNCHANGED <<reach, latched, running, heard>>
      BY <2>1, PollEffect DEF IInv
    <2>3. CASE AtGoal
      <3>1. moving' = FALSE /\ lastError' = FALSE /\ confirmed' = job.goal
        BY <1>2, <2>3 DEF CheckPosition
      <3>2. /\ job' \in JobType /\ job'.phase \in {"idle", "grip", "plan"}
            /\ job'.phase = "grip" => job'.grip # None
            /\ job'.phase = "plan" => job'.left > 0 /\ job'.goal = job.goal
        <4>1. CASE job.left = 0
          <5>1. EndMotion(job)
            BY <1>2, <2>3, <4>1 DEF CheckPosition
          <5> QED
            BY <1>0, <5>1, EndMotionType
        <4>2. CASE job.left # 0
          <5>1. job' = [job EXCEPT !.phase = "plan"]
            BY <1>2, <2>3, <4>2 DEF CheckPosition
          <5>2. job.left > 0
            BY <1>0, <4>2, ArmAssumption
          <5> QED
            BY <1>0, <5>1, <5>2 DEF Phase
        <4> QED
          BY <4>1, <4>2
      <3>3. job.goal \in JointTarget
        BY <1>0, <2>1
      <3>4. Safe'
        BY <1>0, <2>1, <2>2, <3>1, <3>2
        DEF IInv, TypeOK, Safe, IdleIsSettled, InFlight, OnPath
      <3> QED
        BY <2>1, <2>2, <3>1, <3>2, <3>3, <3>4 DEF IInv, TypeOK
    <2>4. CASE ~AtGoal
      <3>1. UNCHANGED <<moving, lastError, confirmed, job>>
        BY <1>2, <2>4 DEF CheckPosition
      <3>2. Safe'
        BY <2>1, <2>2, <3>1 DEF IInv, TypeOK, Safe, IdleIsSettled, InFlight, OnPath
      <3> QED
        BY <2>1, <2>2, <3>1, <3>2 DEF IInv, TypeOK
    <2> QED
      BY <2>3, <2>4
  <1>3. CASE GiveUp
    <2>1. /\ job.phase = "wait" /\ moving' = FALSE /\ lastError' = TRUE /\ EndMotion(job)
          /\ UNCHANGED <<order, reach, latched, running, heard, pos, fb, pending, enabled, status,
                         confirmed>>
      BY <1>3 DEF GiveUp, motors
    <2>2. /\ job' \in JobType /\ job'.phase \in {"idle", "grip"}
          /\ job'.phase = "grip" => job'.grip # None
      BY <1>0, <2>1, EndMotionType
    <2>3. Safe'
      BY <2>1, <2>2 DEF IInv, TypeOK, Safe, IdleIsSettled, InFlight, OnPath
    <2> QED
      BY <2>1, <2>2, <2>3 DEF IInv, TypeOK
  <1>4. CASE PosCmdGripper
    <2>1. /\ job.phase = "grip" /\ MoveGripper(job.grip) /\ job' = Idle
          /\ UNCHANGED <<pos, fb, pending, enabled, moving, lastError, status, confirmed>>
      BY <1>4 DEF PosCmdGripper
    <2>2. job.grip \in Setpoint
      BY <1>0, <2>1, ArmAssumption DEF GripperPos
    <2>3. /\ order' \in [Motor -> OrderType] /\ \A m \in Arm : order'[m] = order[m]
          /\ UNCHANGED <<reach, latched, running, heard>>
      BY <2>1, <2>2, MoveGripperEffect DEF IInv
    <2>4. Safe'
      BY <2>1, <2>3, IdleType, ArmUntouched
    <2> QED
      BY <2>1, <2>3, <2>4, IdleType DEF IInv, TypeOK
  <1> QED
    BY <1>1, <1>2, <1>3, <1>4 DEF JobStep

\* Callbacks that start a motion.
LEMMA StartInv ==
    ASSUME IInv, NEW c \in Callee, Take(c), NEW t \in JointTarget,
           ExecuteJointTarget(Job(c, 1, None), t),
           UNCHANGED <<pos, fb, enabled, status, confirmed>>
    PROVE  IInv'
  <1>1. /\ DOMAIN pending' = Callee
        /\ \A d \in Callee : pending'[d] \in Offered[d] \cup {None}
        /\ job.phase = "idle"
    BY TakeType DEF IInv
  <1>2. /\ Job(c, 1, None) \in JobType /\ Job(c, 1, None).phase = "plan"
        /\ Job(c, 1, None).left > 0
    BY IdleType, ArmAssumption
  <1> DEFINE j == Job(c, 1, None)
  <1> HIDE DEF j
  <1>3. /\ order' \in [Motor -> OrderType] /\ UNCHANGED <<reach, latched, running>>
        /\ heard' \subseteq Arm
        /\ job' \in JobType /\ job'.phase # "plan"
        /\ job'.phase = "wait" => job'.goal # None
        /\ job'.phase = "grip" => job'.grip # None
        /\ moving' \in BOOLEAN /\ lastError' \in BOOLEAN
        /\ Safe'
    BY <1>1, <1>2, ExecuteStep
  <1> QED
    BY <1>1, <1>3 DEF IInv, TypeOK, JobType, OrderType

\* Callbacks that only speak to the gripper, or refuse, or put a path on the
\* thread.
LEMMA LightInv ==
    ASSUME IInv, NEW c \in Callee, Take(c),
           order' \in [Motor -> OrderType], \A m \in Arm : order'[m] = order[m],
           UNCHANGED <<reach, latched, running, heard, pos, fb, enabled, moving, lastError,
                       status, confirmed>>,
           job' \in JobType, job'.phase \in {"idle", "plan"},
           job'.phase = "plan" => job'.left > 0 /\ job'.goal = None
    PROVE  IInv'
  <1>1. /\ DOMAIN pending' = Callee
        /\ \A d \in Callee : pending'[d] \in Offered[d] \cup {None}
        /\ job.phase = "idle"
    BY TakeType DEF IInv
  <1>2. Safe'
    BY <1>1, ArmUntouched
  <1> QED
    BY <1>1, <1>2 DEF IInv, TypeOK, JobType, OrderType

\* Callbacks that halt the motors.
LEMMA HaltInv ==
    ASSUME IInv, NEW c \in Callee, Take(c), NEW md \in M!HaltMode, Halt(md),
           UNCHANGED <<pos, fb, job, status, confirmed>>,
           enabled' \in BOOLEAN, moving' \in BOOLEAN, lastError' \in BOOLEAN
    PROVE  IInv'
  <1>1. /\ DOMAIN pending' = Callee
        /\ \A d \in Callee : pending'[d] \in Offered[d] \cup {None}
        /\ job.phase = "idle"
    BY TakeType DEF IInv
  <1>2. /\ order' \in [Motor -> OrderType] /\ UNCHANGED <<reach, latched, running>>
        /\ heard' = Arm \cap reach
        /\ \A m \in reach : order'[m].mode \notin M!PositionMode
    BY HaltEffect DEF IInv
  <1>3. Safe'
    BY <1>1, <1>2, ArmHalted
  <1> QED
    BY <1>1, <1>2, <1>3 DEF IInv, TypeOK, JobType, OrderType

\* A gripper command is ignored or reaches the gripper alone.
LEMMA DriveGripperEffect ==
    ASSUME IInv, NEW g \in Setpoint, DriveGripper(g)
    PROVE  /\ order' \in [Motor -> OrderType] /\ \A m \in Arm : order'[m] = order[m]
           /\ UNCHANGED <<reach, latched, running, heard>>
  <1>1. CASE Refuse
    BY <1>1 DEF Refuse, motors, IInv, TypeOK, OrderType
  <1>2. CASE MoveGripper(g)
    BY <1>2, MoveGripperEffect DEF IInv
  <1> QED
    BY <1>1, <1>2 DEF DriveGripper

LEMMA ServeInv ==
    ASSUME IInv, NEW c \in Callee, Serve(c)
    PROVE  IInv'
  <1>0. /\ job \in JobType /\ order \in [Motor -> OrderType]
        /\ enabled \in BOOLEAN /\ moving \in BOOLEAN /\ lastError \in BOOLEAN
        /\ \A d \in Callee : (Take(d) /\ job' = job) => job' \in JobType /\ job'.phase = "idle"
    BY TakeType, IdleType DEF IInv, TypeOK, JobType, OrderType
  <1>1. ASSUME c \in {"arm_joint_cmd", "move_to_joint"}, JointCommand(c) PROVE IInv'
    <2>1. /\ Take(c) /\ UNCHANGED <<pos, fb, enabled, status, confirmed>>
      BY <1>1 DEF JointCommand
    <2>2. CASE pending[c] = Malformed
      <3>1. UNCHANGED <<motors, job, moving, lastError>>
        BY <1>1, <2>2 DEF JointCommand, Refuse
      <3> QED
        BY <1>0, <2>1, <3>1, LightInv DEF motors
    <2>3. CASE pending[c] # Malformed
      <3>1. ExecuteJointTarget(Job(c, 1, None), pending[c])
        BY <1>1, <2>3 DEF JointCommand
      <3>2. pending[c] \in JointTarget
        BY <1>1, <2>1, <2>3, TakeType, OfferAssumption DEF IInv
      <3> QED
        BY <2>1, <3>1, <3>2, StartInv
    <2> QED
      BY <2>2, <2>3
  <1>2. CASE GoZeroService
    <2>1. /\ Take("go_zero_srv") /\ UNCHANGED <<pos, fb, enabled, status, confirmed>>
          /\ ExecuteJointTarget(Job("go_zero_srv", 1, None), [m \in Arm |-> Home])
      BY <1>2 DEF GoZeroService
    <2>2. [m \in Arm |-> Home] \in JointTarget
      BY ArmAssumption DEF JointTarget
    <2> QED
      BY <2>1, <2>2, CalleeNames, StartInv
  <1>3. ASSUME NEW d \in Callee, Take(d), NEW cart \in BOOLEAN, NEW g \in {Open, Closed, None},
               StartPose(d, cart, g)
        PROVE  IInv'
    <2>1. PICK n \in IF cart THEN 2 .. MaxSteps ELSE {1} : job' = Job(d, n, g)
      BY <1>3 DEF StartPose
    <2>2. n \in 1 .. MaxSteps
      BY <2>1, ArmAssumption
    <2>3. /\ job' \in JobType /\ job'.phase = "plan" /\ job'.left > 0 /\ job'.goal = None
      BY <1>3, <2>1, <2>2, IdleType
    <2> QED
      BY <1>0, <1>3, <2>3, LightInv DEF StartPose, motors
  <1>4. CASE PosCmdCallback
    <2>1. /\ Take("pos_cmd")
          /\ StartPose("pos_cmd", pending["pos_cmd"].cartesian, pending["pos_cmd"].gripper)
      BY <1>4 DEF PosCmdCallback
    <2>2. pending["pos_cmd"] \in [cartesian : BOOLEAN, gripper : {Open, Closed, None}]
      BY <2>1, CalleeNames, TakeType, OfferAssumption DEF IInv
    <2> QED
      BY <1>3, <2>1, <2>2, CalleeNames
  <1>5. CASE MoveToPoseService
    <2>1. Take("move_to_pose") /\ StartPose("move_to_pose", pending["move_to_pose"], None)
      BY <1>5 DEF MoveToPoseService
    <2>2. pending["move_to_pose"] \in BOOLEAN
      BY <2>1, CalleeNames, TakeType, OfferAssumption DEF IInv
    <2> QED
      BY <1>3, <2>1, <2>2, CalleeNames
  <1>6. CASE GripperCallback
    <2>1. /\ Take("gripper_cmd") /\ DriveGripper(IF pending["gripper_cmd"] THEN Open ELSE Closed)
          /\ UNCHANGED <<pos, fb, job, enabled, moving, lastError, status, confirmed>>
      BY <1>6 DEF GripperCallback
    <2>2. Open \in Setpoint /\ Closed \in Setpoint
      BY ArmAssumption DEF GripperPos
    <2>3. /\ order' \in [Motor -> OrderType] /\ \A m \in Arm : order'[m] = order[m]
          /\ UNCHANGED <<reach, latched, running, heard>>
      BY <2>1, <2>2, DriveGripperEffect
    <2> QED
      BY <1>0, <2>1, <2>3, CalleeNames, LightInv
  <1>7. CASE GripperControlService
    <2>1. /\ Take("gripper_control")
          /\ UNCHANGED <<pos, fb, job, enabled, moving, lastError, status, confirmed>>
      BY <1>7 DEF GripperControlService
    <2>2. /\ order' \in [Motor -> OrderType] /\ \A m \in Arm : order'[m] = order[m]
          /\ UNCHANGED <<reach, latched, running, heard>>
      <3>1. CASE pending["gripper_control"] = Unknown
        BY <1>0, <1>7, <3>1 DEF GripperControlService, Refuse, motors
      <3>2. CASE pending["gripper_control"] # Unknown
        <4>1. pending["gripper_control"] \in GripperPos
          BY <2>1, <3>2, CalleeNames, TakeType, OfferAssumption DEF IInv
        <4>2. DriveGripper(pending["gripper_control"])
          BY <1>7, <3>2 DEF GripperControlService
        <4> QED
          BY <4>1, <4>2, ArmAssumption, DriveGripperEffect
      <3> QED
        BY <3>1, <3>2
    <2> QED
      BY <1>0, <2>1, <2>2, CalleeNames, LightInv
  <1>8. CASE GripperDetailService
    <2>1. /\ Take("gripper_srv")
          /\ UNCHANGED <<pos, fb, job, enabled, moving, lastError, status, confirmed>>
      BY <1>8 DEF GripperDetailService
    <2>2. CASE Halt("RESET")
      BY <1>0, <2>1, <2>2, CalleeNames, ModesApart, HaltInv
    <2>3. CASE Refuse
      BY <1>0, <2>1, <2>3, CalleeNames, LightInv DEF Refuse, motors
    <2>4. CASE pending["gripper_srv"] # SetZero /\ DriveGripper(pending["gripper_srv"])
      <3>1. pending["gripper_srv"] \in Setpoint
        BY <2>1, <2>4, CalleeNames, TakeType, OfferAssumption DEF IInv
      <3>2. /\ order' \in [Motor -> OrderType] /\ \A m \in Arm : order'[m] = order[m]
            /\ UNCHANGED <<reach, latched, running, heard>>
        BY <2>4, <3>1, DriveGripperEffect
      <3> QED
        BY <1>0, <2>1, <3>2, CalleeNames, LightInv
    <2> QED
      BY <1>8, <2>2, <2>3, <2>4 DEF GripperDetailService
  <1>9. CASE GripperZeroDies
    <2>1. /\ UNCHANGED <<order, reach, latched, heard, pos, fb, pending, job, enabled, moving,
                         lastError, status, confirmed>>
          /\ running' = FALSE
      BY <1>9 DEF GripperZeroDies, node
    <2>2. Safe'
      BY <2>1, Outside DEF IInv, TypeOK
    <2>3. running' \in BOOLEAN
      BY <2>1
    <2>4. UNCHANGED <<order, reach, latched, heard, pos, fb, pending, job, enabled, moving,
                      lastError, status, confirmed>>
      BY <2>1
    <2> QED
      BY <2>2, <2>3, <2>4 DEF IInv, TypeOK
  <1>10. ASSUME c \in {"enable_flag", "enable_srv"}, Enable(c) PROVE IInv'
    <2>1. /\ Take(c) /\ enabled' = pending[c]
          /\ UNCHANGED <<pos, fb, job, moving, lastError, status, confirmed>>
      BY <1>10 DEF Enable
    <2>2. pending[c] \in BOOLEAN
      BY <1>10, <2>1, TakeType, OfferAssumption DEF IInv
    <2>3. CASE pending[c]
      <3>1. UNCHANGED <<order, reach, latched, running, heard>> /\ enabled' = TRUE
        BY <1>10, <2>1, <2>2, <2>3 DEF Enable, motors
      <3>2. job.phase = "idle"
        BY <2>1, TakeType DEF IInv
      <3>3. Safe'
        BY <2>1, <3>1, <3>2 DEF IInv, TypeOK, Safe, IdleIsSettled, InFlight, OnPath
      <3>4. /\ DOMAIN pending' = Callee
            /\ \A d \in Callee : pending'[d] \in Offered[d] \cup {None}
        BY <2>1, TakeType DEF IInv
      <3> QED
        BY <2>1, <3>1, <3>3, <3>4 DEF IInv, TypeOK
    <2>4. CASE ~pending[c]
      <3>1. Halt("STOP")
        BY <1>10, <2>4 DEF Enable
      <3> QED
        BY <1>0, <2>1, <2>2, <3>1, ModesApart, HaltInv
    <2> QED
      BY <2>3, <2>4
  <1>11. CASE StopService
    <2>1. /\ Take("stop_srv") /\ Halt("STOP") /\ moving' = FALSE
          /\ UNCHANGED <<pos, fb, job, enabled, lastError, status, confirmed>>
      BY <1>11 DEF StopService
    <2> QED
      BY <1>0, <2>1, CalleeNames, ModesApart, HaltInv
  <1>12. CASE ResetService
    <2>1. /\ Take("reset_srv") /\ Halt("RESET")
          /\ lastError' = FALSE /\ enabled' = TRUE /\ moving' = FALSE
          /\ UNCHANGED <<pos, fb, job, status, confirmed>>
      BY <1>12 DEF ResetService
    <2> QED
      BY <2>1, CalleeNames, ModesApart, HaltInv
  <1> QED
    BY <1>1, <1>2, <1>4, <1>5, <1>6, <1>7, <1>8, <1>9, <1>10, <1>11, <1>12 DEF Serve

LEMMA StepInv == IInv /\ [Next]_vars => IInv'
  <1> SUFFICES ASSUME IInv, [Next]_vars PROVE IInv'
    OBVIOUS
  <1>1. CASE JobStep
    BY <1>1, JobInv
  <1>2. ASSUME NEW c \in Callee, Serve(c) PROVE IInv'
    BY <1>2, ServeInv
  <1>3. CASE PublishStatus
    <2>1. /\ job = Idle /\ Poll
          /\ status' = IF moving THEN "moving" ELSE IF lastError THEN "error" ELSE "idle"
          /\ UNCHANGED <<pos, fb, pending, job, enabled, moving, lastError, confirmed>>
      BY <1>3 DEF PublishStatus
    <2>2. /\ order' \in [Motor -> OrderType]
          /\ \A m \in Arm : order'[m] = order[m] \/ order'[m].mode \notin M!PositionMode
          /\ UNCHANGED <<reach, latched, running, heard>>
      BY <2>1, PollEffect DEF IInv
    <2>3. Safe'
      BY <2>1, <2>2, IdleType DEF IInv, TypeOK, Safe, IdleIsSettled, InFlight, OnPath
    <2> QED
      BY <2>1, <2>2, <2>3 DEF IInv, TypeOK, OrderType
  <1>4. ASSUME NEW c \in Callee, NEW a \in Offered[c], Send(c, a) PROVE IInv'
    <2>1. /\ pending' = [pending EXCEPT ![c] = a]
          /\ UNCHANGED <<order, reach, latched, running, heard, pos, fb, job, enabled, moving, lastError,
                         status, confirmed>>
      BY <1>4 DEF Send, motors, node
    <2>2. Safe'
      BY <2>1, Outside DEF IInv, TypeOK
    <2> QED
      BY <2>1, <2>2 DEF IInv, TypeOK
  <1>5. ASSUME NEW m \in Arm, Arrive(m) PROVE IInv'
    <2>1. /\ order[m].mode \in M!PositionMode /\ pos' = [pos EXCEPT ![m] = order[m].val]
          /\ UNCHANGED <<order, reach, latched, running, heard, fb, pending, job, enabled, moving,
                         lastError, status, confirmed>>
      BY <1>5 DEF Arrive, motors, node
    <2>2. Safe'
      BY <2>1, Outside DEF IInv, TypeOK
    <2>3. order[m].val \in Setpoint
      <3>1. order[m] \in OrderType
        BY ArmAssumption DEF IInv, TypeOK, OrderType
      <3> QED
        BY <2>1, <3>1, ModesApart DEF OrderType
    <2> QED
      BY <2>1, <2>2, <2>3 DEF IInv, TypeOK
  <1>6. ASSUME NEW m \in Arm, Feedback(m) PROVE IInv'
    <2>1. /\ fb' = [fb EXCEPT ![m] = pos[m]]
          /\ UNCHANGED <<order, reach, latched, running, heard, pos, pending, job, enabled, moving,
                         lastError, status, confirmed>>
      BY <1>6 DEF Feedback, motors, node
    <2>2. Safe'
      BY <2>1, Outside DEF IInv, TypeOK
    <2> QED
      BY <2>1, <2>2 DEF IInv, TypeOK
  <1>7. CASE LinkDown
    <2>1. PICK S \in SUBSET reach : M!Unreach(S)
      BY <1>7 DEF LinkDown
    <2>2. /\ reach' = reach \ S
          /\ UNCHANGED <<order, latched, running, heard, pos, fb, pending, job, enabled, moving,
                         lastError, status, confirmed>>
      BY <1>7, <2>1 DEF LinkDown, M!Unreach, node
    <2>3. Safe'
      BY <2>2, Outside
    <2> QED
      BY <2>2, <2>3 DEF IInv, TypeOK
  <1>8. CASE Reconnect
    <2>1. PICK S \in SUBSET Motor : M!Regain(S)
      BY <1>8 DEF Reconnect
    <2>2. /\ reach' = S /\ fb' = [m \in Arm |-> None]
          /\ UNCHANGED <<order, latched, running, heard, pos, pending, job, enabled, moving,
                         lastError, status, confirmed>>
      BY <1>8, <2>1 DEF Reconnect, M!Regain, node
    <2>3. Safe'
      BY <2>2, Outside
    <2> QED
      BY <2>2, <2>3 DEF IInv, TypeOK
  <1>9. CASE UNCHANGED vars
    <2>1. UNCHANGED <<order, reach, latched, running, heard, pos, fb, pending, job, enabled, moving,
                      lastError, status, confirmed>>
      BY <1>9 DEF vars, motors, node
    <2>2. Safe'
      BY <2>1, Outside
    <2> QED
      BY <2>1, <2>2 DEF IInv, TypeOK
  <1> QED
    BY <1>1, <1>2, <1>3, <1>4, <1>5, <1>6, <1>7, <1>8, <1>9 DEF Next

LEMMA SpecInv == Spec => []IInv
  BY InitInv, StepInv, PTL DEF Spec

\* The node's variables keep their types (arm_control_node).
THEOREM ArmTypeCorrect == Spec => []TypeOK
  <1>1. IInv => TypeOK
    BY DEF IInv
  <1> QED
    BY <1>1, SpecInv, PTL

\* No error on record means that the orders in force were reported as reached
\* (setError, clearError, publishStatus).
THEOREM IdleMeansSettled == Spec => []IdleIsSettled
  <1>1. IInv => IdleIsSettled
    BY DEF IInv, Safe
  <1> QED
    BY <1>1, SpecInv, PTL

\* What DisabledArmHalted asks of a step that leaves the arm disabled.
Undriven ==
    \A m \in Arm : order'[m].mode \in M!PositionMode =>
        order'[m] = order[m] /\ (m \in reach => ~enabled)

LEMMA UnmovedUndriven ==
    ASSUME ~enabled, \A m \in Arm : order'[m] = order[m] \/ order'[m].mode \notin M!PositionMode
    PROVE  Undriven
  BY DEF Undriven

LEMMA HaltUndriven ==
    ASSUME IInv, NEW md \in M!HaltMode, Halt(md)
    PROVE  Undriven
  BY HaltEffect, ArmAssumption DEF IInv, Undriven

\* A disabled arm refuses its target.
LEMMA ExecuteUndriven ==
    ASSUME ~enabled, NEW j, NEW t, ExecuteJointTarget(j, t)
    PROVE  Undriven
  <1>1. UNCHANGED motors
    BY DEF ExecuteJointTarget
  <1> QED
    BY <1>1, UnmovedUndriven DEF motors

LEMMA ServeUndriven ==
    ASSUME IInv, ~enabled', NEW c \in Callee, Serve(c)
    PROVE  Undriven
  <1>1. CASE c \in {"arm_joint_cmd", "move_to_joint"} /\ JointCommand(c)
    BY <1>1, ExecuteUndriven, UnmovedUndriven DEF JointCommand, Refuse, motors
  <1>2. CASE GoZeroService
    BY <1>2, ExecuteUndriven DEF GoZeroService
  <1>3. CASE PosCmdCallback \/ MoveToPoseService
    BY <1>3, UnmovedUndriven DEF PosCmdCallback, MoveToPoseService, StartPose, motors
  <1>4. ASSUME UNCHANGED enabled, NEW g, DriveGripper(g) PROVE Undriven
    BY <1>4, UnmovedUndriven DEF DriveGripper, Refuse, motors
  <1>5. CASE GripperCallback
    BY <1>4, <1>5 DEF GripperCallback
  <1>6. CASE GripperControlService
    BY <1>4, <1>6, UnmovedUndriven DEF GripperControlService, Refuse, motors
  <1>7. CASE GripperDetailService
    BY <1>4, <1>7, UnmovedUndriven DEF GripperDetailService, Refuse, motors
  <1>8. CASE GripperZeroDies
    BY <1>8 DEF GripperZeroDies, node
  <1>9. CASE c \in {"enable_flag", "enable_srv"} /\ Enable(c)
    <2>1. Halt("STOP")
      BY <1>9 DEF Enable
    <2> QED
      BY <2>1, ModesApart, HaltUndriven
  <1>10. CASE StopService
    BY <1>10, ModesApart, HaltUndriven DEF StopService
  <1>11. CASE ResetService
    BY <1>11 DEF ResetService
  <1> QED
    BY <1>1, <1>2, <1>3, <1>5, <1>6, <1>7, <1>8, <1>9, <1>10, <1>11 DEF Serve

LEMMA StepUndriven ==
    ASSUME IInv, [Next]_vars, ~enabled'
    PROVE  Undriven
  <1>1. CASE PlanWaypoint
    BY <1>1, ExecuteUndriven, UnmovedUndriven DEF PlanWaypoint, motors
  <1>2. CASE CheckPosition \/ PublishStatus
    <2>1. Poll /\ ~enabled
      BY <1>2 DEF CheckPosition, PublishStatus
    <2> QED
      BY <2>1, PollEffect, UnmovedUndriven DEF IInv
  <1>3. CASE PosCmdGripper
    <2>1. MoveGripper(job.grip) /\ ~enabled /\ job.grip \in Setpoint
      BY <1>3, ArmAssumption DEF PosCmdGripper, IInv, TypeOK, GripperPos
    <2> QED
      BY <2>1, MoveGripperEffect, UnmovedUndriven DEF IInv
  <1>4. ASSUME NEW c \in Callee, Serve(c) PROVE Undriven
    BY <1>4, ServeUndriven
  <1>5. ASSUME UNCHANGED <<order, enabled>> PROVE Undriven
    BY <1>5, UnmovedUndriven
  <1>6. CASE \/ GiveUp \/ LinkDown \/ Reconnect \/ UNCHANGED vars
             \/ \E c \in Callee : \E a \in Offered[c] : Send(c, a)
             \/ \E m \in Arm : Arrive(m) \/ Feedback(m)
    <2>1. UNCHANGED <<order, enabled>>
      BY <1>6 DEF GiveUp, LinkDown, Reconnect, vars, Send, Arrive, Feedback, motors, node,
                  M!Unreach, M!Regain
    <2> QED
      BY <1>5, <2>1
  <1> QED
    BY <1>1, <1>2, <1>3, <1>4, <1>6 DEF Next, JobStep

\* Disabling halts the arm motors in reach, and from then on no arm motor gets a
\* position order, by no callback and by no link that comes back
\* (enableFlagCallback, enableService, executeJointTarget).
THEOREM DisabledMeansHalted == Spec => DisabledArmHalted
  <1>1. IInv /\ [Next]_vars =>
          [~enabled' =>
             \A m \in Arm : order'[m].mode \in M!PositionMode =>
                order'[m] = order[m] /\ (m \in reach => ~enabled)]_vars
    BY StepUndriven DEF Undriven
  <1> QED
    BY <1>1, SpecInv, PTL DEF Spec, DisabledArmHalted

\* A Cartesian path never skips a waypoint (executeCartesianPath).
THEOREM PathSkipsNothing == Spec => NoSkippedWaypoint
  <1>1. IInv => (job.phase = "plan" /\ job.goal # None /\ job'.phase = "wait"
                   => confirmed = job.goal)
    BY DEF IInv, Safe, OnPath
  <1> QED
    BY <1>1, SpecInv, PTL DEF Spec, NoSkippedWaypoint

-----------------------------------------------------------------------------
(* How long a callback holds the thread.                                   *)

\* The rounds of the callback that are yet to come: two per waypoint, to plan it
\* and to wait for it, and one for the gripper.
Rounds ==
    CASE job.phase = "grip" -> 1
      [] job.phase = "plan" -> 2 * job.left + 1
      [] job.phase = "wait" -> 2 * job.left + 2
      [] OTHER              -> 0

\* The thread is held or it is free, nothing else.
FreeIsIdle == job.phase = "idle" => job = Idle

\* Only the callback that holds the thread goes on, towards its end; the timer, the
\* topics, the other services and the links neither end nor prolong it.
EndComesNearer ==
    [][job # Idle => job' = job \/ (JobStep /\ Rounds' < Rounds)]_vars

\* A request waits until its own callback takes it: no message and no other request
\* displaces it.
RequestsAreKept ==
    [][\A c \in Service : pending[c] # None => pending'[c] = pending[c] \/ Serve(c)]_vars

LEMMA RoundsAreCounted ==
    IInv /\ FreeIsIdle => Rounds \in 0 .. (2 * MaxSteps + 2) /\ (Rounds = 0 <=> job = Idle)
  <1> SUFFICES ASSUME IInv, FreeIsIdle
               PROVE  Rounds \in 0 .. (2 * MaxSteps + 2) /\ (Rounds = 0 <=> job = Idle)
    OBVIOUS
  <1>1. job.phase \in {"idle", "plan", "wait", "grip"} /\ job.left \in 0 .. MaxSteps
    BY DEF IInv, TypeOK, Phase
  <1>2. MaxSteps \in Nat /\ MaxSteps >= 2
    BY ArmAssumption
  <1>3. Rounds \in 0 .. (2 * MaxSteps + 2) /\ (Rounds = 0 <=> job.phase = "idle")
    BY <1>1, <1>2 DEF Rounds
  <1> QED
    BY <1>3, IdleType DEF FreeIsIdle

\* Where the arm's part of callback j leaves it: free, or with the gripper to move.
LEMMA EndMotionEnds ==
    ASSUME NEW j \in JobType, EndMotion(j)
    PROVE  Rounds' \in {0, 1} /\ FreeIsIdle'
  <1>1. CASE j.grip = None
    <2>1. job' = Idle /\ job'.phase = "idle"
      BY <1>1, IdleType DEF EndMotion
    <2> QED
      BY <2>1 DEF Rounds, FreeIsIdle
  <1>2. CASE j.grip # None
    <2>1. job' = [j EXCEPT !.phase = "grip"]
      BY <1>2 DEF EndMotion
    <2>2. job'.phase = "grip"
      BY <2>1 DEF JobType
    <2> QED
      BY <2>2 DEF Rounds, FreeIsIdle
  <1> QED
    BY <1>1, <1>2

\* executeJointTarget ends the callback, or leaves it one round less.
LEMMA ExecuteNears ==
    ASSUME NEW j \in JobType, j.left > 0, NEW t \in JointTarget, ExecuteJointTarget(j, t)
    PROVE  Rounds' \in Nat /\ Rounds' < 2 * j.left + 1 /\ FreeIsIdle'
  <1>0. j.left \in Nat
    BY ArmAssumption DEF JobType
  <1>1. CASE EndMotion(j)
    BY <1>0, <1>1, EndMotionEnds
  <1>2. CASE job' = [j EXCEPT !.phase = "wait", !.goal = t, !.left = @ - 1]
    <2>1. job'.phase = "wait" /\ job'.left = j.left - 1
      BY <1>2 DEF JobType
    <2> QED
      BY <1>0, <2>1 DEF Rounds, FreeIsIdle
  <1> QED
    BY <1>1, <1>2 DEF ExecuteJointTarget

LEMMA JobNears ==
    ASSUME IInv, FreeIsIdle, JobStep
    PROVE  (job' = job \/ Rounds' < Rounds) /\ FreeIsIdle'
  <1>1. /\ job \in JobType /\ job.left \in Nat
        /\ job.phase = "plan" => job.left > 0
    BY ArmAssumption DEF IInv, TypeOK, JobType
  <1>2. CASE PlanWaypoint
    <2>1. job.phase = "plan" /\ Rounds = 2 * job.left + 1
      BY <1>2 DEF PlanWaypoint, Rounds
    <2>2. CASE EndMotion(job)
      BY <1>1, <2>1, <2>2, EndMotionEnds
    <2>3. ASSUME NEW t \in [Arm -> Legal], ExecuteJointTarget(job, t)
          PROVE  Rounds' < Rounds /\ FreeIsIdle'
      <3>1. t \in JointTarget
        BY ArmAssumption DEF JointTarget
      <3> QED
        BY <1>1, <2>1, <2>3, <3>1, ExecuteNears
    <2> QED
      BY <1>2, <2>2, <2>3 DEF PlanWaypoint
  <1>3. CASE CheckPosition
    <2>1. job.phase = "wait" /\ Rounds = 2 * job.left + 2
      BY <1>3 DEF CheckPosition, Rounds
    <2>2. CASE job' = job
      BY <2>2 DEF FreeIsIdle
    <2>3. CASE EndMotion(job)
      BY <1>1, <2>1, <2>3, EndMotionEnds
    <2>4. CASE job' = [job EXCEPT !.phase = "plan"]
      <3>1. job'.phase = "plan" /\ job'.left = job.left
        BY <1>1, <2>4 DEF JobType
      <3> QED
        BY <1>1, <2>1, <3>1 DEF Rounds, FreeIsIdle
    <2> QED
      BY <1>3, <2>2, <2>3, <2>4 DEF CheckPosition
  <1>4. CASE GiveUp
    <2>1. job.phase = "wait" /\ Rounds = 2 * job.left + 2 /\ EndMotion(job)
      BY <1>4 DEF GiveUp, Rounds
    <2> QED
      BY <1>1, <2>1, EndMotionEnds
  <1>5. CASE PosCmdGripper
    <2>1. job.phase = "grip" /\ job' = Idle /\ job'.phase = "idle"
      BY <1>5, IdleType DEF PosCmdGripper
    <2> QED
      BY <2>1 DEF Rounds, FreeIsIdle
  <1> QED
    BY <1>2, <1>3, <1>4, <1>5 DEF JobStep

\* A callback is begun on a free thread, and takes what it is for.
LEMMA ServeBegins ==
    ASSUME IInv, FreeIsIdle, NEW c \in Callee, Serve(c)
    PROVE  /\ job = Idle /\ FreeIsIdle'
           /\ \A d \in Callee \ {c} : pending'[d] = pending[d]
  <1>1. DOMAIN pending = Callee
    BY DEF IInv, TypeOK
  <1>2. CASE Take(c) /\ UNCHANGED job
    BY <1>1, <1>2 DEF Take, Ready, FreeIsIdle
  <1>3. CASE GripperZeroDies
    BY <1>3 DEF GripperZeroDies, Ready, FreeIsIdle
  <1>4. ASSUME NEW d \in {"arm_joint_cmd", "move_to_joint"}, c = d, JointCommand(d)
        PROVE  Take(c) /\ FreeIsIdle'
    <2>1. CASE UNCHANGED job
      BY <1>4, <2>1 DEF JointCommand, FreeIsIdle
    <2>2. CASE /\ pending[c] # Malformed
               /\ ExecuteJointTarget(Job(c, 1, None), pending[c])
      <3>1. pending[c] \in JointTarget
        BY <1>4, <2>2, OfferAssumption, PendingOffered DEF IInv, JointCommand, Take, Ready
      <3>2. Job(c, 1, None) \in JobType /\ Job(c, 1, None).left > 0
        BY ArmAssumption, IdleType
      <3> QED
        BY <1>4, <2>2, <3>1, <3>2, ExecuteNears DEF JointCommand
    <2> QED
      BY <1>4, <2>1, <2>2 DEF JointCommand
  <1>5. CASE c = "go_zero_srv" /\ GoZeroService
    <2>1. [m \in Arm |-> Home] \in JointTarget
      BY ArmAssumption DEF JointTarget
    <2>2. Job(c, 1, None) \in JobType /\ Job(c, 1, None).left > 0
      BY ArmAssumption, IdleType
    <2> QED
      BY <1>1, <1>5, <2>1, <2>2, ExecuteNears DEF GoZeroService, Take, Ready
  <1>6. ASSUME NEW n \in 1 .. MaxSteps, NEW g \in {Open, Closed, None}, job' = Job(c, n, g)
        PROVE  FreeIsIdle'
    BY <1>6, IdleType DEF FreeIsIdle
  <1>7. CASE c = "pos_cmd" /\ PosCmdCallback
    <2>1. Take(c) /\ pending[c].gripper \in {Open, Closed, None}
      BY <1>7, OfferAssumption, PendingOffered DEF IInv, PosCmdCallback, Take, Ready
    <2>2. PICK n \in 1 .. MaxSteps : job' = Job(c, n, pending[c].gripper)
      BY <1>7, ArmAssumption DEF PosCmdCallback, StartPose
    <2> QED
      BY <1>1, <1>6, <2>1, <2>2 DEF Take, Ready
  <1>8. CASE c = "move_to_pose" /\ MoveToPoseService
    <2>1. PICK n \in 1 .. MaxSteps : job' = Job(c, n, None)
      BY <1>8, ArmAssumption DEF MoveToPoseService, StartPose
    <2> QED
      BY <1>1, <1>6, <1>8, <2>1 DEF MoveToPoseService, Take, Ready
  <1>9. CASE \/ c = "gripper_cmd" /\ GripperCallback
             \/ c = "gripper_control" /\ GripperControlService
             \/ c = "gripper_srv" /\ GripperDetailService
             \/ c \in {"enable_flag", "enable_srv"} /\ Enable(c)
             \/ c = "stop_srv" /\ StopService
             \/ c = "reset_srv" /\ ResetService
    BY <1>2, <1>9 DEF GripperCallback, GripperControlService, GripperDetailService, Enable,
                      StopService, ResetService
  <1> QED
    BY <1>1, <1>3, <1>4, <1>5, <1>7, <1>8, <1>9 DEF Serve, Take, Ready

LEMMA StepNears ==
    IInv /\ FreeIsIdle /\ [Next]_vars =>
        /\ FreeIsIdle'
        /\ job # Idle => job' = job \/ (JobStep /\ Rounds' < Rounds)
        /\ \A c \in Service : pending[c] # None => pending'[c] = pending[c] \/ Serve(c)
  <1> SUFFICES ASSUME IInv, FreeIsIdle, [Next]_vars
               PROVE  /\ FreeIsIdle'
                      /\ job # Idle => job' = job \/ (JobStep /\ Rounds' < Rounds)
                      /\ \A c \in Service :
                            pending[c] # None => pending'[c] = pending[c] \/ Serve(c)
    OBVIOUS
  <1>0. DOMAIN pending = Callee /\ Service \subseteq Callee
    BY DEF IInv, TypeOK, Callee
  <1>1. CASE JobStep
    <2>1. UNCHANGED pending
      BY <1>1 DEF JobStep, PlanWaypoint, CheckPosition, GiveUp, PosCmdGripper
    <2> QED
      BY <1>1, <2>1, JobNears
  <1>2. ASSUME NEW c \in Callee, Serve(c)
        PROVE  /\ FreeIsIdle' /\ job = Idle
               /\ \A d \in Service : pending'[d] = pending[d] \/ Serve(d)
    BY <1>0, <1>2, ServeBegins
  <1>3. ASSUME NEW c \in Callee, NEW a \in Offered[c], Send(c, a)
        PROVE  /\ job' = job
               /\ \A d \in Service : pending[d] # None => pending'[d] = pending[d]
    BY <1>0, <1>3 DEF Send
  <1>4. CASE PublishStatus \/ LinkDown \/ Reconnect \/ \E m \in Arm : Arrive(m) \/ Feedback(m)
    <2>1. UNCHANGED <<job, pending>>
      BY <1>4 DEF PublishStatus, LinkDown, Reconnect, Arrive, Feedback
    <2> QED
      BY <2>1 DEF FreeIsIdle
  <1>5. CASE UNCHANGED vars
    BY <1>5 DEF vars, FreeIsIdle
  <1> QED
    BY <1>1, <1>2, <1>3, <1>4, <1>5 DEF Next, FreeIsIdle

\* A callback holds the thread for at most 2 * MaxSteps + 2 rounds, of which only a
\* wait may repeat (and that ends by waitForPosition's timeout), and meanwhile no
\* request that waits is lost: the safety half of RequestsAnswered, whose other half
\* is that the callback goes on and that spin is fair.
THEOREM CallbackIsBounded ==
    Spec => /\ [](Rounds \in 0 .. (2 * MaxSteps + 2) /\ (Rounds = 0 <=> job = Idle))
            /\ EndComesNearer
            /\ RequestsAreKept
  <1>1. Init => FreeIsIdle
    BY DEF Init, FreeIsIdle
  <1> QED
    BY <1>1, SpecInv, StepNears, RoundsAreCounted, PTL DEF Spec, EndComesNearer, RequestsAreKept

-----------------------------------------------------------------------------
(* The node on top of the SDK: its callbacks do nothing to the motors but   *)
(* call what Actuators offers.  MotorBus is shown to implement Actuators.   *)

\* A step that is a call Actuators offers, or nothing for the motors.
SdkCall == M!Next \/ UNCHANGED motors

LEMMA PollCalls == Poll => SdkCall
  BY DEF Poll, SdkCall, M!Next

LEMMA HaltCalls ==
    ASSUME NEW md \in {"STOP", "RESET"}, Halt(md)
    PROVE  SdkCall
  BY DEF Halt, M!HaltMode, SdkCall, M!Next

LEMMA ExecuteCalls ==
    ASSUME NEW j, NEW t \in JointTarget, ExecuteJointTarget(j, t)
    PROVE  SdkCall
  <1>1. CASE UNCHANGED motors
    BY <1>1 DEF SdkCall
  <1>2. CASE MoveArm(t)
    <2>1. t \in [Arm -> Setpoint] /\ "POS_VEL_TQE" \in M!PositionMode
      BY ModesApart DEF JointTarget
    <2>2. M!Next
      BY <1>2, <2>1 DEF MoveArm, M!Next
    <2> QED
      BY <2>2 DEF SdkCall
  <1> QED
    BY <1>1, <1>2 DEF ExecuteJointTarget

LEMMA GripperCalls ==
    ASSUME NEW g \in Setpoint, MoveGripper(g)
    PROVE  SdkCall
  <1>1. M!Next
    BY ModesApart DEF MoveGripper, M!Next
  <1> QED
    BY <1>1 DEF SdkCall

LEMMA DriveGripperCalls ==
    ASSUME NEW g \in Setpoint, DriveGripper(g)
    PROVE  SdkCall
  <1>1. CASE Refuse
    BY <1>1 DEF Refuse, SdkCall
  <1>2. CASE MoveGripper(g)
    BY <1>2, GripperCalls
  <1> QED
    BY <1>1, <1>2 DEF DriveGripper

LEMMA JobCalls == TypeOK /\ JobStep => SdkCall
  <1> SUFFICES ASSUME TypeOK, JobStep PROVE SdkCall
    OBVIOUS
  <1>1. CASE PlanWaypoint
    <2>1. CASE UNCHANGED motors
      BY <2>1 DEF SdkCall
    <2>2. ASSUME NEW t \in [Arm -> Legal], ExecuteJointTarget(job, t) PROVE SdkCall
      <3>1. t \in JointTarget
        BY ArmAssumption DEF JointTarget
      <3> QED
        BY <2>2, <3>1, ExecuteCalls
    <2> QED
      BY <1>1, <2>1, <2>2 DEF PlanWaypoint
  <1>2. CASE CheckPosition
    BY <1>2, PollCalls DEF CheckPosition
  <1>3. CASE GiveUp
    BY <1>3 DEF GiveUp, SdkCall
  <1>4. CASE PosCmdGripper
    <2>1. job.grip \in Setpoint /\ MoveGripper(job.grip)
      BY <1>4, ArmAssumption DEF PosCmdGripper, TypeOK, GripperPos
    <2> QED
      BY <2>1, GripperCalls
  <1> QED
    BY <1>1, <1>2, <1>3, <1>4 DEF JobStep

LEMMA ServeCalls ==
    ASSUME TypeOK, NEW c \in Callee, Serve(c)
    PROVE  SdkCall \/ GripperZeroDies
  <1>1. CASE c \in {"arm_joint_cmd", "move_to_joint"} /\ JointCommand(c)
    <2>1. pending[c] \in Offered[c]
      BY <1>1, TakeType DEF JointCommand
    <2>2. CASE pending[c] = Malformed
      BY <1>1, <2>2 DEF JointCommand, Refuse, SdkCall
    <2>3. CASE pending[c] # Malformed
      <3>1. pending[c] \in JointTarget
        BY <1>1, <2>1, <2>3, OfferAssumption
      <3>2. ExecuteJointTarget(Job(c, 1, None), pending[c])
        BY <1>1, <2>3 DEF JointCommand
      <3> QED
        BY <3>1, <3>2, ExecuteCalls
    <2> QED
      BY <2>2, <2>3
  <1>2. CASE c = "go_zero_srv" /\ GoZeroService
    <2> DEFINE t == [m \in Arm |-> Home]
    <2>1. t \in JointTarget /\ ExecuteJointTarget(Job("go_zero_srv", 1, None), t)
      BY <1>2, ArmAssumption DEF GoZeroService, JointTarget
    <2> HIDE DEF t
    <2> QED
      BY <2>1, ExecuteCalls
  <1>3. CASE PosCmdCallback \/ MoveToPoseService
    BY <1>3 DEF PosCmdCallback, MoveToPoseService, StartPose, SdkCall
  <1>4. CASE c = "gripper_cmd" /\ GripperCallback
    <2> DEFINE g == IF pending["gripper_cmd"] THEN Open ELSE Closed
    <2>1. g \in Setpoint /\ DriveGripper(g)
      BY <1>4, ArmAssumption DEF GripperCallback, GripperPos
    <2> HIDE DEF g
    <2> QED
      BY <2>1, DriveGripperCalls
  <1>5. CASE c = "gripper_control" /\ GripperControlService
    <2>1. pending[c] \in Offered[c]
      BY <1>5, TakeType DEF GripperControlService
    <2>2. CASE pending[c] = Unknown
      BY <1>5, <2>2 DEF GripperControlService, Refuse, SdkCall
    <2>3. CASE pending[c] # Unknown
      <3>1. pending[c] \in Setpoint /\ DriveGripper(pending[c])
        BY <1>5, <2>1, <2>3, OfferAssumption, ArmAssumption DEF GripperControlService
      <3> QED
        BY <3>1, DriveGripperCalls
    <2> QED
      BY <2>2, <2>3
  <1>6. CASE c = "gripper_srv" /\ GripperDetailService
    <2>1. pending[c] \in Setpoint \cup {SetZero}
      BY <1>6, TakeType, OfferAssumption DEF GripperDetailService
    <2>2. CASE pending[c] # SetZero /\ DriveGripper(pending[c])
      BY <2>1, <2>2, DriveGripperCalls
    <2>3. CASE Refuse
      BY <2>3 DEF Refuse, SdkCall
    <2>4. CASE Halt("RESET")
      BY <2>4, HaltCalls
    <2> QED
      BY <1>6, <2>2, <2>3, <2>4 DEF GripperDetailService
  <1>7. CASE Enable(c)
    <2>1. CASE Halt("STOP")
      BY <2>1, HaltCalls
    <2> QED
      BY <1>7, <2>1 DEF Enable, SdkCall
  <1>8. CASE StopService \/ ResetService
    BY <1>8, HaltCalls DEF StopService, ResetService
  <1> QED
    BY <1>1, <1>2, <1>3, <1>4, <1>5, <1>6, <1>7, <1>8 DEF Serve

LEMMA StepCalls == TypeOK /\ [Next]_vars => [M!Next \/ GripperZeroDies]_motors
  <1> SUFFICES ASSUME TypeOK, [Next]_vars PROVE SdkCall \/ GripperZeroDies
    BY DEF SdkCall
  <1>1. CASE JobStep
    BY <1>1, JobCalls
  <1>2. ASSUME NEW c \in Callee, Serve(c) PROVE SdkCall \/ GripperZeroDies
    BY <1>2, ServeCalls
  <1>3. CASE PublishStatus
    BY <1>3, PollCalls DEF PublishStatus
  <1>4. CASE \/ \E c \in Callee : \E a \in Offered[c] : Send(c, a)
             \/ \E m \in Arm : Arrive(m) \/ Feedback(m)
    BY <1>4 DEF Send, Arrive, Feedback, SdkCall
  <1>5. CASE LinkDown
    <2>1. PICK S \in SUBSET reach : M!Unreach(S)
      BY <1>5 DEF LinkDown
    <2>2. S \in SUBSET Motor
      BY DEF TypeOK
    <2>3. M!Next
      BY <2>1, <2>2 DEF M!Next
    <2> QED
      BY <2>3 DEF SdkCall
  <1>6. CASE Reconnect
    BY <1>6 DEF Reconnect, M!Next, SdkCall
  <1>7. CASE UNCHANGED vars
    BY <1>7 DEF vars, SdkCall
  <1> QED
    BY <1>1, <1>2, <1>3, <1>4, <1>5, <1>6, <1>7 DEF Next

\* arm_control_node is a user of the SDK: it starts with the motors as Panthera
\* leaves them, and every step of a callback is one call that Actuators offers, a
\* link lost or regained or nothing for the motors; the one exception is the process that dies in
\* gripperDetailService's set_zero.  With MotorBus' theorem that the command path
\* implements Actuators, what is shown of the node here is shown of it on top of the
\* frames, ports and threads of the driver.
THEOREM NodeUsesTheSdk == Spec => M!Init /\ [][M!Next \/ GripperZeroDies]_motors
  <1>1. Init => M!Init
    BY DEF Init
  <1>2. IInv => TypeOK
    BY DEF IInv
  <1> QED
    BY <1>1, <1>2, SpecInv, StepCalls, PTL DEF Spec

\* An arm motor under a position order is told a position inside the joint limits
\* (checkJointLimits, the bounds of the inverse kinematics).
OrdersAreLegal ==
    \A m \in Arm : order[m].mode \in M!PositionMode => order[m].val \in Legal

\* Whatever uses the SDK: MoveArm is the one call that gives an arm motor a position.
LEMMA CallsKeepLegal ==
    ASSUME OrdersAreLegal, M!Next
    PROVE  OrdersAreLegal'
  <1>0. Arm \subseteq Motor /\ Gripper \notin Arm /\ \A md, v : M!Order(md, v).mode = md /\ M!Order(md, v).val = v
    BY ArmAssumption DEF M!Order
  <1>1. ASSUME NEW md \in M!PositionMode, NEW p \in [Arm -> Setpoint], M!MoveArm(md, p)
        PROVE  OrdersAreLegal'
    <2>1. order' = order \/ order' = M!Told(Arm, md, p)
      BY <1>1 DEF M!MoveArm, M!Drive
    <2>2. \A m \in Arm : order'[m] = order[m] \/ order'[m] = M!Order(md, p[m])
      BY <1>0, <2>1 DEF M!Told
    <2>3. \A m \in Arm : p[m] \in Legal
      BY <1>1 DEF M!MoveArm
    <2> QED
      BY <1>0, <2>2, <2>3 DEF OrdersAreLegal
  <1>2. ASSUME NEW md \in M!PositionMode, NEW v \in Setpoint, M!MoveGripper(md, v)
        PROVE  OrdersAreLegal'
    <2>1. \A m \in Arm : order'[m] = order[m]
      BY <1>0, <1>2 DEF M!MoveGripper, M!Drive, M!Told
    <2> QED
      BY <2>1 DEF OrdersAreLegal
  <1>3. ASSUME NEW md \in M!HaltMode, M!HaltAll(md) PROVE OrdersAreLegal'
    <2>1. \A m \in Arm : order'[m] = order[m] \/ order'[m].mode = md
      BY <1>0, <1>3 DEF M!HaltAll, M!Told
    <2> QED
      BY <2>1, <1>3, ModesApart DEF OrdersAreLegal
  <1>4. CASE M!LegacyPoll
    <2>1. \A m \in Arm : order'[m] = order[m] \/ order'[m].mode = "VELOCITY"
      BY <1>0, <1>4 DEF M!LegacyPoll, M!Drive, M!Told
    <2> QED
      BY <2>1, ModesApart DEF OrdersAreLegal
  <1>5. CASE \E S \in SUBSET Motor : M!Unreach(S) \/ M!Regain(S)
    BY <1>5 DEF M!Unreach, M!Regain, OrdersAreLegal
  <1>6. M!LatchLimit => M!HaltAll("STOP")
    BY DEF M!LatchLimit
  <1>7. M!Exit => \E md \in M!HaltMode : M!HaltAll(md)
    BY DEF M!Exit, M!HaltMode
  <1> QED
    BY <1>1, <1>2, <1>3, <1>4, <1>5, <1>6, <1>7, ModesApart DEF M!Next, M!Halt

\* No arm motor is ever under an order to a position outside the joint limits, whichever
\* callback asked for it and whatever was disabled, stopped or timed out in between
\* (checkJointLimits, the bounds of the inverse kinematics, go_zero_srv).
THEOREM OrdersStayLegal == Spec => []OrdersAreLegal
  <1>1. Init => OrdersAreLegal
    BY ModesApart, ArmAssumption DEF Init, M!Init, M!Order, OrdersAreLegal
  <1>2. TypeOK /\ OrdersAreLegal /\ [M!Next \/ GripperZeroDies]_motors => OrdersAreLegal'
    BY CallsKeepLegal DEF GripperZeroDies, motors, OrdersAreLegal
  <1>3. IInv => TypeOK
    BY DEF IInv
  <1> QED
    BY <1>1, <1>2, <1>3, SpecInv, StepCalls, PTL DEF Spec
=============================================================================
