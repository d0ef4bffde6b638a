-------------------------- MODULE MCConfHandshake --------------------------
(* Three motors on the port, so that some but not all can have answered.    *)
EXTENDS ConfHandshake, TLC

CONSTANTS m1, m2, m3

MCMotor == {m1, m2, m3}
Both    == {ZERO, CONF}
Before  == {ZERO}

\* The motors are interchangeable.
Swap == Permutations(MCMotor)
=============================================================================
