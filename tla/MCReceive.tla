------------------------------ MODULE MCReceive ------------------------------
(***************************************************************************)
(* Receive on three frames: the states of two motors, the answer to        *)
(* CONF_WRITE, of the same length, and a state frame whose payload has a   *)
(* head in its last four bytes, where the thread can miss the next frame   *)
(* for it, names motors of other ports and ends in half an entry.          *)
(***************************************************************************)
EXTENDS Receive

MCMotors == {1, 2}

MCFrame(cmd, code, payload) ==
    [cmd |-> cmd, crc8 |-> 30 + 10 * Len(payload) + cmd,
     crc16 |-> <<200 + code, 220 + code>>, data |-> payload]

MCSendable ==
    {MCFrame(MODE_MOTOR_STATE2, 1, <<1, 100, 2, 101>>),
     MCFrame(MODE_MOTOR_STATE2, 2, <<1, 103, 3, HeadByte, 4, 100, 2>>),
     MCFrame(MODE_CONF_WRITE, 3, <<1, 2, 3, 4>>)}
=============================================================================
