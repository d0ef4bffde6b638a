---------------------------- MODULE MCArmControl ----------------------------
(* The arm is driven between home and away, out lies outside its limits.    *)
EXTENDS ArmControl

CONSTANTS a1, home, away, out, open, half, closed

OneMotor   == {a1}
MCMotor    == Arm \cup {Gripper}
MCSetpoint == {home, away, out, open, half, closed}
MCLegal    == {home, away}

Quiet == [c \in Callee |-> {}]
All(p) == [m \in Arm |-> p]

\* Every topic and service.  The gripper is only ever told to close.
Everything ==
    [c \in Callee |->
        CASE c = "pos_cmd"                        -> [cartesian : BOOLEAN, gripper : {closed}]
          [] c = "move_to_pose"                   -> BOOLEAN
          [] c = "arm_joint_cmd"                  -> {All(away), Malformed}
          [] c = "move_to_joint"                  -> {All(away), All(out)}
          [] c = "gripper_cmd"                    -> {FALSE}
          [] c = "gripper_control"                -> {closed, Unknown}
          [] c = "gripper_srv"                    -> {closed, SetZero}
          [] c \in {"enable_flag", "enable_srv"}  -> BOOLEAN
          [] OTHER                                -> {"call"}]

\* Someone drives the arm by poses and by joints while it is disabled,
\* enabled, stopped and reset.
Moves ==
    [Quiet EXCEPT
        !["pos_cmd"]       = [cartesian : BOOLEAN, gripper : {open}],
        !["move_to_joint"] = {All(away), All(out)},
        !["enable_flag"]   = BOOLEAN,
        !["stop_srv"]      = {"call"},
        !["reset_srv"]     = {"call"}]

\* Two topics that keep the thread busy and two requests that wait for it.
Busy ==
    [Quiet EXCEPT
        !["pos_cmd"]       = {[cartesian |-> TRUE, gripper |-> open]},
        !["gripper_cmd"]   = {TRUE},
        !["move_to_joint"] = {All(away)},
        !["stop_srv"]      = {"call"}]

\* For TLC a state is what it is for the arm: how the gripper is driven and what
\* status was published last decide nothing.
Seen == <<[m \in Arm |-> order[m]], reach, running, heard, pos, fb, pending, job,
          enabled, moving, lastError, confirmed>>

\* What error_reconnect costs: that no arm motor within reach of a disabled arm is
\* under a position order is refuted, ArmReconnect.cfg shows how.
ReachedIsHalted == ~enabled => \A m \in Arm \cap reach : order[m].mode \notin M!PositionMode
=============================================================================
