------------------------------- MODULE Frames -------------------------------
(***************************************************************************)
(* The transmit buffer of a port, byte by byte: the layout the motor       *)
(* methods and the broadcasts of canport give it, the length they send     *)
(* (motor::get_data_len), and the numbers they write (int16_limit).        *)
(* MotorBus speaks of slots that are written, emptied and sent; this is    *)
(* what a slot is.  The payload goes on to the motors in FDCAN frames that *)
(* hold ChunkLen bytes of it.                                              *)
(***************************************************************************)
EXTENDS Integers

CONSTANT Nums,       \* the greatest motor id of a port (id_max)
         Callable,   \* the ids whose methods are called
         Modes,      \* the modes that are used
         Numbers     \* results of the scaling of a value, int32_t; timeouts in ms

MaxIds == 25         \* one more and a 10-byte mode overruns the buffer

ASSUME NumsAssumption == Nums \subseteq 1 .. MaxIds
ASSUME NumbersAssumption == Numbers \subseteq Int

VARIABLES num,       \* id_max
          buf,       \* cdc_tr_message: cmd, len, data
          given      \* history: the ids ordered since the buffer changed mode

vars == <<num, buf, given>>

BufferBytes == 256   \* CDC_TR_MESSAGE_DATA_LEN
Int16 == -32768 .. 32767
NopWord == -32768    \* 0x8000 as int16_t: no command

MotionMode == {"POSITION", "VELOCITY", "TORQUE", "VOLTAGE", "CURRENT", "TIME_OUT",
               "POS_VEL_TQE", "POS_VEL_ACC", "POS_VEL_KP_KD", "POS_VEL_TQE_KP_KD_2"}
ByteMode == {"STOP", "BRAKE", "RESET", "MOTOR_STATE2"}
BroadcastMode == {"STOP", "BRAKE", "RESET", "TQE_ADJS_FLAG", "CONF_WRITE"}
Mode == MotionMode \cup ByteMode \cup BroadcastMode \cup {"NULL"}

ASSUME ModesAssumption == Modes \subseteq Mode

\* The ids of the port, and those whose methods are called.
Ids == 1 .. num
Called == Ids \cap Callable

-----------------------------------------------------------------------------
(* motor::get_data_len                                                     *)

OneLen(md) ==
    CASE md \in {"POS_VEL_TQE", "POS_VEL_ACC"} -> 6
      [] md = "POS_VEL_KP_KD"                  -> 8
      [] md = "POS_VEL_TQE_KP_KD_2"            -> 10
      [] OTHER                                 -> 2

\* Mutant of ChunkLen: the FDCAN frames of all modes hold 60 bytes.
ChunkAlways60(md) == 60

\* The bytes of an FDCAN frame that whole motors fill.
ChunkLen(md) == IF md = "POS_VEL_KP_KD" THEN 56 ELSE 60

\* Mutant of Rounded: the last FDCAN frame always goes out full.
RoundedFull(rem, chunk) == IF rem = 0 THEN 0 ELSE chunk

\* The bytes of the last FDCAN frame when rem of them are needed.
Rounded(rem, chunk) ==
    CASE rem <= 6              -> rem
      [] rem > 6 /\ rem <= 10  -> 10
      [] rem > 10 /\ rem <= 14 -> 14
      [] rem > 14 /\ rem <= 18 -> 18
      [] rem > 18 /\ rem <= 22 -> 22
      [] rem > 22 /\ rem <= 30 -> 30
      [] rem > 30 /\ rem <= 46 -> 46
      [] OTHER                 -> chunk

\* The length of a frame for the ids 1 .. n.
DataLen(md, n) ==
    LET len == OneLen(md) * n
        chunk == ChunkLen(md)
    IN (len \div chunk) * chunk + Rounded(len % chunk, chunk)

-----------------------------------------------------------------------------
(* Numbers and slots.                                                      *)

\* Mutant of Limited: the limits are those of the type.
LimitedToType(n) ==
    IF n >= 32767 THEN 32767 ELSE IF n <= -32768 THEN -32768 ELSE n

\* int16_limit.  A float that int32_t cannot hold, or NaN, may be any n.
Limited(n) ==
    IF n >= 32700 THEN 32700 ELSE IF n <= -32700 THEN -32700 ELSE n

\* What the two bytes of a word are, as far as it matters.
Word(n) == IF n = NopWord THEN "nop" ELSE "value"

Byte == 0 .. (BufferBytes - 1)

\* MEM_INDEX_ID: the slot of a motor in a mode of OneLen bytes per motor.
Slot(md, id) == ((id - 1) * OneLen(md)) .. (id * OneLen(md) - 1)

-----------------------------------------------------------------------------
(* The methods.                                                            *)

Init ==
    /\ num \in Nums
    /\ buf = [cmd |-> "NULL", len |-> 0, data |-> [b \in Byte |-> "zero"]]
    /\ given = {}

\* Mutant of Emptied: the fill stops at a word per motor.
EmptiedShort(md) ==
    [b \in Byte |-> IF b < 2 * num THEN "nop" ELSE buf.data[b]]

\* The buffer on a change to a motion mode: NOP as far as the frame reaches.
Emptied(md) ==
    LET words == DataLen(md, num) \div 2
    IN [b \in Byte |-> IF b < 2 * words THEN "nop" ELSE buf.data[b]]

\* The ids ordered so far, a frame of another mode's forgotten.
Given(md) == IF buf.cmd = md THEN given ELSE {}

\* Writing the words w of a motor, in a frame under way or in a fresh one.
Write(md, id, w) ==
    LET data == IF buf.cmd = md THEN buf.data ELSE Emptied(md)
    IN /\ given' = Given(md) \cup {id}
       /\ buf' = [cmd  |-> md,
                  len  |-> IF buf.cmd = md THEN buf.len ELSE DataLen(md, num),
                  data |-> [b \in Byte |-> IF b \in Slot(md, id) THEN w ELSE data[b]]]
       /\ UNCHANGED num

\* motor::position and its siblings: every number goes through int16_limit.
Order(md, id, n) == md # "TIME_OUT" /\ Write(md, id, Word(Limited(n)))

\* motor::set_motorout: the int16_t it is given is stored as it is.
SetMotorOut(id, ms) == Write("TIME_OUT", id, Word(ms))

\* motor::stop, brake, reset and send_state_cmd.
ByteOrder(md, id) ==
    LET data == IF buf.cmd = md THEN buf.data
                ELSE [b \in Byte |-> IF b < num THEN "zero" ELSE buf.data[b]]
    IN /\ buf' = [cmd  |-> md,
                  len  |-> IF buf.cmd = md THEN buf.len ELSE num,
                  data |-> [data EXCEPT ![id - 1] = "value"]]
       /\ given' = Given(md) \cup {id}
       /\ UNCHANGED num

\* canport::set_stop, set_brake, set_reset, send_get_tqe_adjust_flag_cmd and
\* set_conf_write: one byte of 0x7f for all motors, unless the mode is the same.
Broadcast(md) ==
    /\ buf' = [cmd  |-> md,
               len  |-> IF buf.cmd = md THEN buf.len ELSE 1,
               data |-> [buf.data EXCEPT ![0] = "all"]]
    /\ given' = Ids
    /\ UNCHANGED num

\* canport::set_time_out: a word for each of the motors, here one per id.
SetTimeOut ==
    /\ buf' = [cmd  |-> "TIME_OUT",
               len  |-> IF buf.cmd = "TIME_OUT" THEN buf.len ELSE 2 * num,
               data |-> [b \in Byte |-> IF b < 2 * num THEN "value" ELSE buf.data[b]]]
    /\ given' = Ids
    /\ UNCHANGED num

Next ==
    \/ \E md \in MotionMode \cap Modes, id \in Called, n \in Numbers : Order(md, id, n)
    \/ "TIME_OUT" \in Modes /\ \E id \in Called, ms \in Numbers \cap Int16 : SetMotorOut(id, ms)
    \/ \E md \in ByteMode \cap Modes, id \in Called : ByteOrder(md, id)
    \/ \E md \in BroadcastMode \cap Modes : Broadcast(md)
    \/ "TIME_OUT" \in Modes /\ SetTimeOut

Spec == Init /\ [][Next]_vars

-----------------------------------------------------------------------------
\* The type of the buffer; no frame is longer than the array it is sent from,
\* with up to MaxIds motors on the port (motor.cpp:297).
TypeOK ==
    /\ num \in Nums
    /\ buf \in [cmd  : Mode,
                len  : 0 .. BufferBytes,
                data : [Byte -> {"zero", "nop", "value", "all"}]]
    /\ given \subseteq Ids

\* What motor id finds in a frame the buffer is sent as.
Finds(id) ==
    IF buf.cmd \in MotionMode
    THEN \E b \in Slot(buf.cmd, id) : b < buf.len /\ buf.data[b] # "nop"
    ELSE buf.len > 0 /\ (buf.data[0] = "all" \/ (id <= buf.len /\ buf.data[id - 1] # "zero"))

\* However the modes alternate, a frame orders nothing of a motor that none of
\* the calls since the last change of mode was for: what longer frames left in
\* the buffer is never sent again as an order (motor.cpp:403 and its siblings).
NoUncalledMotor == \A id \in Ids : Finds(id) => id \in given

\* A motor that was given an order finds all of it in the frame, inside its
\* length, and no word of it reads as "no command" (motor.cpp:33, 259-297).  The
\* timeout of motor::set_motorout passes no limit (motor.cpp:393): it is inside
\* the frame, and one of -32768 ms does read as no command.
OrderIsInFrame ==
    buf.cmd \in MotionMode =>
        \A id \in given : \A b \in Slot(buf.cmd, id) :
            /\ b < buf.len
            /\ buf.cmd # "TIME_OUT" => buf.data[b] = "value"

\* The boundaries of the FDCAN frames fall between motors: none gets one half of
\* an order in one frame and the rest in another (motor.cpp:253-257).
NoMotorIsSplit ==
    buf.cmd \in MotionMode =>
        \A id \in Ids : \A b, c \in Slot(buf.cmd, id) :
            b \div ChunkLen(buf.cmd) = c \div ChunkLen(buf.cmd)

-----------------------------------------------------------------------------
(* The slots of MotorBus, as this port's bytes.                            *)

\* What the frame holds for each motor: a value, or no command.
SlotSeen ==
    [id \in 1 .. MaxIds |->
        IF buf.cmd \in MotionMode /\ \E b \in Slot(buf.cmd, id) : b < buf.len /\ buf.data[b] # "nop"
        THEN "value" ELSE "nop"]

Bus == INSTANCE MotorBus WITH
    Motor <- 1 .. MaxIds, Arm <- {}, Gripper <- 1, Port <- {1}, PortOf <- [id \in 1 .. MaxIds |-> 1],
    Setpoint <- {"value"}, Legal <- {"value"}, Zero <- "value", NOP <- "nop",
    PosLimited <- {}, TorLimited <- {}, FunV <- 5, ExitBrake <- FALSE,
    cmd <- [p \in {1} |-> buf.cmd], slot <- SlotSeen,
    act <- [id \in 1 .. MaxIds |-> "any"], link <- [p \in {1} |-> TRUE],
    posFlag <- [id \in 1 .. MaxIds |-> FALSE], torFlag <- [id \in 1 .. MaxIds |-> FALSE],
    posLatch <- FALSE, torLatch <- FALSE, running <- TRUE

\* What MotorBus takes a motion method to do to the slots is what its writes do
\* to the bytes that are sent, whatever was in the buffer: the motor's slot
\* holds the value, the others what they held in a frame of the same mode and
\* nothing after a change of mode (motor.cpp:403-419 and its siblings).
WritesAreSlots ==
    [][LET md == buf'.cmd IN
       \A id \in Called, k \in Numbers : md \in MotionMode /\ Order(md, id, k) =>
          \A i \in Ids :
             SlotSeen'[i] = Bus!SlotAfter(md, {id}, [m \in {id} |-> "value"])[i]]_vars
=============================================================================
