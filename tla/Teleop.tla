------------------------------- MODULE Teleop -------------------------------
(***************************************************************************)
(* arm_joy_teleop_node driving arm_control_node.                           *)
(*                                                                         *)
(* The teleoperation node keeps a target pose of its own.  At every tick   *)
(* of its timer it moves the target by a step in the direction of the      *)
(* sticks, while one of two deadman buttons is held, and publishes it as a *)
(* pos_cmd; pressing a deadman sets the target to the pose last received.  *)
(* Buttons open and close the gripper and send the arm home, by requests   *)
(* to services, when they go down.                                         *)
(*                                                                         *)
(* The arm's node executes one motion at a time on its only thread.        *)
(* Meanwhile pos_cmd keeps the newest target (queue depth 1), requests for *)
(* home wait, and no end_pose_euler is published.                          *)
(*                                                                         *)
(* A pose is one coordinate, a step of the sticks is 1, the axes are the   *)
(* stick and the trigger.                                                  *)
(***************************************************************************)
EXTENDS Integers, Sequences

CONSTANTS
    MaxPose,    \* bound on how far the operator steers
    Pad,        \* what the pad may report
    MaxHome     \* bound on the requests for home under way

Button  == {"open", "close", "home"}
Deadman == {"none", "world", "local"}

\* A Joy message.  The trigger is in signed mode: 1 released, -1 pressed, and
\* 0 half way, or never touched since the driver was started.
Joy == [deadman : Deadman, stick : -1 .. 1, trigger : -1 .. 1, buttons : SUBSET Button]

ASSUME TeleopAssumption ==
    /\ MaxPose \in Nat
    /\ Pad \subseteq Joy
    /\ MaxHome \in Nat

VARIABLES
    \* arm_joy_teleop_node
    joy,        \* last_joy_, <<>> before the first
    triggerOn,  \* trigger_up_initialized_
    pose,       \* current_pose_, <<>> before the first
    target,     \* target_pose_, <<>> until target_initialized_
    filt,       \* the filtered axes
    heldPrev,   \* deadman_prev_
    downPrev,   \* home_button_prev_, gripper_open_prev_, gripper_close_prev_
    \* between the nodes
    cmds,       \* pos_cmd, not yet taken
    homes,      \* go_zero_srv requests, not yet taken
    poses,      \* end_pose_euler, not yet taken
    \* arm_control_node and the arm
    busy,       \* a motion callback holds the thread
    goal,       \* where the arm was last told to go
    arm,        \* where it is
    \* history
    touched,    \* someone has touched a stick or a trigger
    fresh,      \* buttons that went down and were not acted on since
    sent,       \* the requests of the last step
    late,       \* motions begun since the operator last asked for one
    waited      \* requests for home that waited then

teleop   == <<joy, triggerOn, pose, target, filt, heldPrev, downPrev>>
channels == <<cmds, homes, poses>>
armNode  == <<busy, goal, arm>>
history  == <<touched, fresh, sent, late, waited>>
quiet    == <<touched, fresh, late, waited>>
vars     == <<teleop, channels, armNode, history>>

Pose  == 0 .. MaxPose
Maybe(S) == {<<>>} \cup {<<x>> : x \in S}

TypeOK ==
    /\ joy \in Maybe(Pad)
    /\ triggerOn \in BOOLEAN
    /\ pose \in Maybe(Pose)
    /\ target \in Maybe(Pose)
    /\ filt \in -1 .. 1
    /\ heldPrev \in BOOLEAN
    /\ downPrev \subseteq Button
    /\ cmds \in Seq(Pose)
    /\ homes \in 0 .. MaxHome
    /\ poses \in Maybe(Pose)
    /\ busy \in BOOLEAN
    /\ goal \in Pose
    /\ arm \in Pose
    /\ touched \in BOOLEAN
    /\ fresh \subseteq Button
    /\ sent \subseteq Button
    /\ late \in Nat
    /\ waited \in 0 .. MaxHome

-----------------------------------------------------------------------------
(* arm_joy_teleop_node.                                                    *)

\* joyCallback.  hand says whether the operator has touched the axes by now; a
\* pad nobody has touched reports zeros.
JoyCallback(j, hand) ==
    /\ touched => hand
    /\ hand \/ (j.stick = 0 /\ j.trigger = 0)
    /\ joy' = <<j>>
    /\ triggerOn' = (triggerOn \/ j.trigger # 0)
    /\ touched' = hand
    /\ fresh' = (fresh \cap j.buttons)
                    \cup (j.buttons \ IF joy = <<>> THEN {} ELSE joy[1].buttons)
    /\ sent' = {}
    /\ UNCHANGED <<pose, target, filt, heldPrev, downPrev, channels, armNode, late, waited>>

\* poseCallback.
PoseCallback ==
    /\ poses # <<>>
    /\ pose' = poses
    /\ target' = IF target = <<>> THEN poses ELSE target
    /\ poses' = <<>>
    /\ sent' = {}
    /\ UNCHANGED <<joy, triggerOn, filt, heldPrev, downPrev, cmds, homes, armNode, quiet>>

\* Mutant of Lift: the untouched trigger is taken at its word.
LiftAnyway(j) == IF j.trigger = 1 THEN 0 ELSE 1

\* getNormalizedTrigger: 0 when released, more when half or wholly pressed.
Lift(j) == IF triggerOn /\ j.trigger # 1 THEN 1 ELSE 0

\* Where the operator points.
Input(j) == IF j.stick # 0 THEN j.stick ELSE Lift(j)

\* lowPass, from f towards s: what exceeds motion_epsilon_ was asked for by the
\* axes, now or before.
Filtered(f, s) == IF f = s THEN {s} ELSE {f, 0, s}

Held(j) == j.deadman # "none"

\* Mutant of Base: the filters keep what they hold when the deadman is released.
BaseOnClutch(j, down) == IF (Held(j) /\ ~heldPrev) \/ "home" \in down THEN 0 ELSE filt

\* resetFilteredAxes, when a deadman or the home button goes down and while no
\* deadman is held.
Base(j, down) == IF ~Held(j) \/ ~heldPrev \/ "home" \in down THEN 0 ELSE filt

\* syncTargetToCurrentPose, likewise.
Synced(j, down) == IF (Held(j) /\ ~heldPrev) \/ "home" \in down THEN pose ELSE target

\* The translation of a tick, turned by the arm's orientation with the local
\* deadman.
Turned(j, f) == IF j.deadman = "local" /\ f # 0 THEN -1 .. 1 ELSE {f}

\* Mutant of Publish: pos_cmd with a queue.
PublishQueued(p) == cmds' = Append(cmds, p)

\* The topic keeps the newest command.
Publish(p) == cmds' = <<p>>

\* Mutant of Remember: the buttons are remembered only at ticks that return early.
RememberIdle(j, publishes) == downPrev' = IF publishes THEN downPrev ELSE j.buttons

\* home_button_prev_ and its siblings.
Remember(j, publishes) == downPrev' = j.buttons

\* controlLoop.  Services may be unknown as yet: the request is then dropped.
ControlLoop ==
    /\ joy # <<>> /\ pose # <<>> /\ target # <<>>
    /\ LET j       == joy[1]
           down    == j.buttons \ downPrev
           gripper == down \cap {"open", "close"}
       IN \E f \in Filtered(Base(j, down), Input(j)) :
             LET publishes == (Held(j) /\ f # 0) \/ gripper # {}
             IN /\ filt' = f
                /\ heldPrev' = Held(j)
                /\ Remember(j, publishes)
                /\ IF publishes
                   THEN \E d \in Turned(j, f) :
                          LET next == Synced(j, down)[1] + d
                          IN /\ next \in Pose
                             /\ Publish(next)
                             /\ target' = <<next>>
                   ELSE target' = Synced(j, down) /\ UNCHANGED cmds
                /\ \E known \in SUBSET down :
                     LET asked == IF "open" \in known THEN known \ {"close"} ELSE known
                     IN /\ homes' = homes + IF "home" \in asked THEN 1 ELSE 0
                        /\ homes' <= MaxHome
                        /\ sent' = asked
                        /\ fresh' = fresh \ j.buttons
                        /\ IF publishes \/ "home" \in asked
                           THEN late' = 0 /\ waited' = homes'
                           ELSE UNCHANGED <<late, waited>>
    /\ UNCHANGED <<joy, triggerOn, pose, poses, armNode, touched>>

-----------------------------------------------------------------------------
(* arm_control_node, as far as the operator sees it (see ArmControl).      *)

\* posCmdCallback: refused, or the motion begins.
PosCmd ==
    /\ ~busy
    /\ cmds # <<>>
    /\ cmds' = Tail(cmds)
    /\ \/ UNCHANGED <<busy, goal, late>>
       \/ busy' = TRUE /\ goal' = Head(cmds) /\ late' = late + 1
    /\ sent' = {}
    /\ UNCHANGED <<teleop, homes, poses, arm, touched, fresh, waited>>

\* goZeroService.
GoZero ==
    /\ ~busy
    /\ homes > 0
    /\ homes' = homes - 1
    /\ \/ UNCHANGED <<busy, goal, late>>
       \/ busy' = TRUE /\ goal' = 0 /\ late' = late + 1
    /\ sent' = {}
    /\ UNCHANGED <<teleop, cmds, poses, arm, touched, fresh, waited>>

\* A motion some other client asks for.
OtherMove(p) ==
    /\ ~busy
    /\ busy' = TRUE
    /\ goal' = p
    /\ sent' = {}
    /\ UNCHANGED <<teleop, channels, arm, quiet>>

\* waitForPosition returns, the target reached or the time over.
EndMotion ==
    /\ busy
    /\ busy' = FALSE
    /\ sent' = {}
    /\ UNCHANGED <<teleop, channels, goal, arm, quiet>>

Arrive ==
    /\ arm' = goal
    /\ sent' = {}
    /\ UNCHANGED <<teleop, channels, busy, goal, quiet>>

\* publishStatus, on the timer of the same thread.
PublishStatus ==
    /\ ~busy
    /\ poses' = <<arm>>
    /\ sent' = {}
    /\ UNCHANGED <<teleop, cmds, homes, armNode, quiet>>

-----------------------------------------------------------------------------
Init ==
    /\ joy = <<>>
    /\ triggerOn = FALSE
    /\ pose = <<>>
    /\ target = <<>>
    /\ filt = 0
    /\ heldPrev = FALSE
    /\ downPrev = {}
    /\ cmds = <<>>
    /\ homes = 0
    /\ poses = <<>>
    /\ busy = FALSE
    /\ arm \in Pose
    /\ goal = arm
    /\ touched = FALSE
    /\ fresh = {}
    /\ sent = {}
    /\ late = 0
    /\ waited = 0

Next ==
    \/ \E j \in Pad, hand \in BOOLEAN : JoyCallback(j, hand)
    \/ PoseCallback
    \/ ControlLoop
    \/ PosCmd
    \/ GoZero
    \/ \E p \in Pose : OtherMove(p)
    \/ EndMotion
    \/ Arrive
    \/ PublishStatus

Spec == Init /\ [][Next]_vars

-----------------------------------------------------------------------------
(* Properties.                                                             *)

\* As long as nobody has touched a stick or a trigger the filters are at rest,
\* though an untouched signed trigger reports the value of a half pressed one
\* (joyCallback, getNormalizedTrigger).
UntouchedPadIsStill == ~touched => filt = 0

\* Without the deadman, or with one just pressed, and with the axes released
\* nothing is left in the filters that would move the target: it stays or is
\* set to the pose received last (controlLoop, resetFilteredAxes).
ReleasedStickStops ==
    [][target' # target /\ target # <<>> =>
          \/ Held(joy[1]) /\ heldPrev
          \/ Input(joy[1]) # 0
          \/ target' = pose]_vars

\* A button that is held down is acted on once: no tick sends a request for a
\* button that was not pressed since the last (controlLoop, the _prev_ flags).
NoGhostPress == [][sent' \subseteq fresh]_vars

\* Once the operator asks for nothing more, the motions that still begin for him
\* are those to home he asked for and one to the newest target, however many
\* targets he published while the arm was busy (the depth of pos_cmd).
OneMoreMotion == late <= waited + 1

\* "Clutch behavior: start from measured pose when deadman is re-engaged": the
\* first target after that is a step from where the arm is (controlLoop).
ClutchStartsHere ==
    [][cmds' # cmds /\ cmds' # <<>> /\ Held(joy[1]) /\ ~heldPrev =>
          cmds'[1] - arm \in -1 .. 1]_vars
=============================================================================
