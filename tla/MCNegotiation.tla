--------------------------- MODULE MCNegotiation ---------------------------
(***************************************************************************)
(* Negotiation for TLC: two ports with a motor each, two tries per loop.   *)
(* The firmwares stand on either side of each version the code compares    *)
(* with, and the last pair of boards differs; the motors are older than    *)
(* every function version, in between, or have the torque flag.            *)
(***************************************************************************)
EXTENDS Negotiation

MCMotor == {1, 2}
MCAt == [m \in MCMotor |-> m]
MCBoards ==
    {[p \in 1 .. 2 |-> v] : v \in {V(3, 5, 0), V(4, 0, 0), V(4, 1, 0), V(4, 7, 0)}}
        \cup {<<V(3, 5, 0), V(4, 7, 0)>>}
MCMotorVersions == {V(4, 1, 0), V(4, 2, 3), V(4, 6, 0)}
=============================================================================
