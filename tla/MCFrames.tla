------------------------------ MODULE MCFrames ------------------------------
(***************************************************************************)
(* Frames for ports of one motor, of the shipped number and of the most,   *)
(* with one mode of each layout and a number that is no int16_t command.   *)
(***************************************************************************)
EXTENDS Frames

MCNums == {1, 7, 25}
MCCallable == {1, 7, 25}
MCModes == {"TIME_OUT", "POS_VEL_TQE", "POS_VEL_KP_KD", "POS_VEL_TQE_KP_KD_2",
            "STOP", "TQE_ADJS_FLAG"}
MCNumbers == {-32768}
=============================================================================
