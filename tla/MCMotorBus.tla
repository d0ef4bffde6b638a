---------------------------- MODULE MCMotorBus ----------------------------
(* Two ports: one arm motor alone on the first, the other arm motor and the *)
(* gripper sharing the second, so that a command finds a buffer of its own, *)
(* a shared one and one it does not touch.                                  *)
EXTENDS MotorBus

CONSTANTS m1, m2, grip, p1, p2, inside, outside

MCMotor    == {m1, m2, grip}
MCArm      == {m1, m2}
MCPort     == {p1, p2}
MCPortOf   == [m \in MCMotor |-> IF m = m1 THEN p1 ELSE p2]
MCSetpoint == {inside, outside}
MCLegal    == {inside}
MCPosLim   == {grip}
MCTorLim   == {m2}

\* For TLC a state is what matters of it: which of the other modes a buffer holds
\* does not, nor its slots before they are filled for a motion frame.
Seen ==
    <<[p \in Port |-> IF cmd[p] \in OtherMode THEN "other" ELSE cmd[p]],
      [m \in Motor |-> IF cmd[PortOf[m]] \in MotionMode THEN slot[m] ELSE NOP],
      act, link, posFlag, torFlag, posLatch, torLatch, running>>

\* What error_reconnect costs: that no motor within reach of a latched robot is
\* driven is refuted, MotorBusLatch.cfg shows how.
ReachedIsHalted == Latched => \A m \in Motor : link[PortOf[m]] => ~Driven(act[m])
=============================================================================
