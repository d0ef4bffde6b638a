----------------------------- MODULE MCRecovery -----------------------------
(***************************************************************************)
(* Recovery for TLC.  Two ports and two other ttyACM nodes: the count of   *)
(* check_error is reached exactly when both boards are there.  The second  *)
(* configuration has the one port of config/6dof_panthera_motor_params.yaml*)
(***************************************************************************)
EXTENDS Recovery

\* What the static state of robot::check_error costs: that links are torn down
\* only for a failure of their own is refuted, RecoveryOther.cfg shows how.
OwnFailuresOnly == [][chk = "clear" /\ chk' = "join" => fault \/ Ending]_vars
=============================================================================
