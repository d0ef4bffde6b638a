---------------------------- MODULE Wire_proofs ----------------------------
(***************************************************************************)
(* What is proved of the bytes on the wire, in both directions.            *)
(*                                                                         *)
(* Of the transmit buffer (Frames), for ports of any number of motors up   *)
(* to MaxIds, any modes and any numbers: no frame overruns the buffer, an  *)
(* order given is whole in the frame, a frame orders nothing of a motor    *)
(* that was not called, and no FDCAN frame splits an order.                *)
(*                                                                         *)
(* Of the receive thread (Receive), for any frames and any bound on the    *)
(* faults: no read overruns its buffer, no motor is taken for what no      *)
(* frame said of it, and without faults every frame is taken.              *)
(***************************************************************************)
EXTENDS Frames, Receive, SequenceTheorems, WellFoundedInduction, NaturalsInduction, TLAPS

-----------------------------------------------------------------------------
(* Lengths.                                                                *)

\* The sizes of an order; the fifth kind of frame does not exist.
LEMMA OneLenCases == \A md : OneLen(md) \in {2, 6, 8, 10}
  BY DEF OneLen

LEMMA ChunkHoldsWholeOrders ==
    \A md : \/ OneLen(md) = 2 /\ ChunkLen(md) = 60
            \/ OneLen(md) = 6 /\ ChunkLen(md) = 60
            \/ OneLen(md) = 8 /\ ChunkLen(md) = 56
            \/ OneLen(md) = 10 /\ ChunkLen(md) = 60
  BY DEF OneLen, ChunkLen

\* The last FDCAN frame is long enough and no longer than a full one.
LEMMA RoundedBounds ==
    ASSUME NEW chunk \in {56, 60}, NEW rem \in 0 .. (chunk - 1)
    PROVE  Rounded(rem, chunk) \in rem .. chunk
  BY DEF Rounded

\* A length splits into full FDCAN frames and a rest.
LEMMA Division ==
    ASSUME NEW chunk \in {56, 60}, NEW len \in Nat
    PROVE  /\ len \div chunk \in Nat
           /\ len % chunk \in 0 .. (chunk - 1)
           /\ len = (len \div chunk) * chunk + (len % chunk)
  <1>1. CASE chunk = 56
    BY <1>1
  <1>2. CASE chunk = 60
    BY <1>2
  <1> QED
    BY <1>1, <1>2

\* A frame holds all the orders of its motors, and fits the buffer as long as
\* the port has at most MaxIds of them.
LEMMA DataLenBounds ==
    ASSUME NEW md, NEW k \in 1 .. MaxIds
    PROVE  /\ DataLen(md, k) \in Nat
           /\ OneLen(md) * k <= DataLen(md, k)
           /\ DataLen(md, k) <= BufferBytes
  <1> DEFINE len == OneLen(md) * k
             chunk == ChunkLen(md)
             q == len \div chunk
             r == len % chunk
  <1>1. len \in Nat /\ len <= 250 /\ chunk \in {56, 60}
    BY ChunkHoldsWholeOrders DEF MaxIds
  <1>2. chunk = 56 => len <= 200
    BY ChunkHoldsWholeOrders DEF MaxIds
  <1>3. DataLen(md, k) = q * chunk + Rounded(r, chunk)
    BY DEF DataLen
  <1> HIDE DEF len, chunk
  <1>4. q \in Nat /\ r \in 0 .. (chunk - 1) /\ len = q * chunk + r
    BY <1>1, Division
  <1> HIDE DEF q, r
  <1>5. Rounded(r, chunk) \in r .. chunk
    BY <1>1, <1>4, RoundedBounds
  <1>6. CASE chunk = 60
    <2>1. q <= 3 \/ (q = 4 /\ r <= 10)
      BY <1>1, <1>4, <1>6
    <2>2. r <= 10 => Rounded(r, chunk) <= 10
      BY <1>4, <1>6 DEF Rounded
    <2> QED
      BY <1>3, <1>4, <1>5, <1>6, <2>1, <2>2 DEF BufferBytes, len
  <1>7. CASE chunk = 56
    <2>1. q <= 3
      BY <1>2, <1>1, <1>4, <1>7
    <2> QED
      BY <1>3, <1>4, <1>5, <1>7, <2>1 DEF BufferBytes, len
  <1> QED
    BY <1>1, <1>6, <1>7

-----------------------------------------------------------------------------
(* Slots.                                                                  *)

\* The slots of a port lie one behind the other.
LEMMA SlotsDisjoint ==
    ASSUME NEW md, NEW i \in Nat, NEW j \in Nat, NEW b \in Slot(md, i), b \in Slot(md, j)
    PROVE  i = j
  <1>1. CASE OneLen(md) = 2
    BY <1>1 DEF Slot
  <1>2. CASE OneLen(md) = 6
    BY <1>2 DEF Slot
  <1>3. CASE OneLen(md) = 8
    BY <1>3 DEF Slot
  <1>4. CASE OneLen(md) = 10
    BY <1>4 DEF Slot
  <1> QED
    BY <1>1, <1>2, <1>3, <1>4, OneLenCases

\* A slot lies in the words of the port, and so in the buffer.
LEMMA SlotInWords ==
    ASSUME NEW md, NEW k \in 1 .. MaxIds, NEW id \in 1 .. k, NEW b \in Slot(md, id)
    PROVE  b \in Byte /\ b < OneLen(md) * k
  <1>1. CASE OneLen(md) = 2
    BY <1>1 DEF Slot, Byte, BufferBytes, MaxIds
  <1>2. CASE OneLen(md) = 6
    BY <1>2 DEF Slot, Byte, BufferBytes, MaxIds
  <1>3. CASE OneLen(md) = 8
    BY <1>3 DEF Slot, Byte, BufferBytes, MaxIds
  <1>4. CASE OneLen(md) = 10
    BY <1>4 DEF Slot, Byte, BufferBytes, MaxIds
  <1> QED
    BY <1>1, <1>2, <1>3, <1>4, OneLenCases

\* When per orders of k bytes fill an FDCAN frame, the bytes of the order
\* number i all lie in the frame number i \div per.
LEMMA SlotInOneChunk ==
    ASSUME NEW md, NEW id \in Nat \ {0}, NEW b \in Slot(md, id), NEW c \in Slot(md, id)
    PROVE  b \div ChunkLen(md) = c \div ChunkLen(md)
  <1> DEFINE i == id - 1
  <1>0. i \in Nat /\ id = i + 1
    OBVIOUS
  <1> HIDE DEF i
  <1>1. CASE OneLen(md) = 2 /\ ChunkLen(md) = 60
    <2>1. ASSUME NEW x \in Slot(md, id) PROVE x \div 60 = i \div 30
      BY <1>0, <1>1 DEF Slot
    <2> QED
      BY <1>1, <2>1
  <1>2. CASE OneLen(md) = 6 /\ ChunkLen(md) = 60
    <2>1. ASSUME NEW x \in Slot(md, id) PROVE x \div 60 = i \div 10
      BY <1>0, <1>2 DEF Slot
    <2> QED
      BY <1>2, <2>1
  <1>3. CASE OneLen(md) = 8 /\ ChunkLen(md) = 56
    <2>1. ASSUME NEW x \in Slot(md, id) PROVE x \div 56 = i \div 7
      BY <1>0, <1>3 DEF Slot
    <2> QED
      BY <1>3, <2>1
  <1>4. CASE OneLen(md) = 10 /\ ChunkLen(md) = 60
    <2>1. ASSUME NEW x \in Slot(md, id) PROVE x \div 60 = i \div 6
      BY <1>0, <1>4 DEF Slot
    <2> QED
      BY <1>4, <2>1
  <1> QED
    BY <1>1, <1>2, <1>3, <1>4, ChunkHoldsWholeOrders

\* What int16_limit lets through is never the word for "no command".
LEMMA LimitedIsNoNop == \A k \in Int : Word(Limited(k)) = "value"
  BY DEF Word, Limited, NopWord

\* A fresh frame of a motion mode says NOP to every motor of the port.
LEMMA EmptiedSaysNop ==
    ASSUME NEW md, num \in 1 .. MaxIds, NEW id \in Ids, NEW b \in Slot(md, id)
    PROVE  Emptied(md)[b] = "nop"
  <1>1. b \in Byte /\ b < OneLen(md) * num
    BY SlotInWords DEF Ids
  <1>2. DataLen(md, num) \in Nat /\ OneLen(md) * num <= DataLen(md, num)
    BY DataLenBounds
  <1> DEFINE total == DataLen(md, num)
  <1>3. \E j \in Nat : OneLen(md) * num = 2 * j
    <2>1. PICK k \in {1, 3, 4, 5} : OneLen(md) = 2 * k
      BY OneLenCases
    <2> QED
      BY <2>1 DEF MaxIds
  <1>4. PICK j \in Nat : OneLen(md) * num = 2 * j
    BY <1>3
  <1>5. total \in Nat /\ 2 * j <= total
    BY <1>2, <1>4
  <1> HIDE DEF total
  <1>6. 2 * j <= 2 * (total \div 2)
    BY <1>5
  <1>7. b < 2 * (DataLen(md, num) \div 2)
    BY <1>1, <1>2, <1>4, <1>6 DEF total, Byte
  <1> QED
    BY <1>1, <1>2, <1>7 DEF Emptied

-----------------------------------------------------------------------------
(* The invariant.                                                          *)

\* A motion frame holds the words of all the motors of the port: those that
\* were called their order, the others NOP.  A timeout may read as NOP too.
MotionFrame ==
    buf.cmd \in MotionMode =>
        /\ OneLen(buf.cmd) * num <= buf.len
        /\ \A id \in Ids : \A b \in Slot(buf.cmd, id) :
              /\ id \notin given => buf.data[b] = "nop"
              /\ id \in given /\ buf.cmd # "TIME_OUT" => buf.data[b] = "value"

\* A frame of bytes speaks to all motors, or to those that were called.
ByteFrame ==
    buf.cmd \notin MotionMode =>
        \/ given = Ids
        \/ /\ buf.data[0] # "all"
           /\ \A id \in Ids \ given : buf.len < id \/ buf.data[id - 1] = "zero"

FrameInv == TypeOK /\ MotionFrame /\ ByteFrame

LEMMA NumIsBounded == TypeOK => num \in 1 .. MaxIds
  BY NumsAssumption DEF TypeOK

LEMMA InitInv == Init => FrameInv
  <1> SUFFICES ASSUME Init PROVE FrameInv
    OBVIOUS
  <1>1. "NULL" \notin MotionMode /\ "NULL" \in Mode
    BY DEF MotionMode, Mode
  <1>2. num \in 1 .. MaxIds
    BY NumsAssumption DEF Init
  <1>3. TypeOK
    BY <1>1 DEF Init, TypeOK, BufferBytes
  <1>4. ByteFrame
    BY <1>1, <1>2 DEF Init, ByteFrame, Ids, Byte, BufferBytes, MaxIds
  <1> QED
    BY <1>1, <1>3, <1>4 DEF Init, FrameInv, MotionFrame

\* Writing the words of a motor, in a frame under way or in a fresh one.
LEMMA WriteKeeps ==
    ASSUME FrameInv, NEW md \in MotionMode, NEW id \in Ids, NEW w \in {"nop", "value"},
           md # "TIME_OUT" => w = "value", Write(md, id, w)
    PROVE  FrameInv'
  <1>0. num \in 1 .. MaxIds /\ num' = num /\ md \in Mode /\ Ids' = Ids
    BY NumIsBounded DEF FrameInv, Write, Mode, Ids
  <1> DEFINE words == IF buf.cmd = md THEN buf.data ELSE Emptied(md)
             len == IF buf.cmd = md THEN buf.len ELSE DataLen(md, num)
  <1>1. words \in [Byte -> {"zero", "nop", "value", "all"}]
    BY DEF FrameInv, TypeOK, Emptied
  <1>2. len \in 0 .. BufferBytes /\ OneLen(md) * num <= len
    BY <1>0, DataLenBounds DEF FrameInv, TypeOK, MotionFrame, BufferBytes
  <1>3. \A i \in Ids : \A b \in Slot(md, i) :
           /\ i \notin Given(md) => words[b] = "nop"
           /\ i \in Given(md) /\ md # "TIME_OUT" => words[b] = "value"
    BY <1>0, EmptiedSaysNop DEF FrameInv, MotionFrame, Given
  <1>4. given' = Given(md) \cup {id} /\ Given(md) \subseteq Ids
    BY DEF Write, Given, FrameInv, TypeOK
  <1>5. buf' = [cmd  |-> md, len |-> len,
                data |-> [b \in Byte |-> IF b \in Slot(md, id) THEN w ELSE words[b]]]
    BY DEF Write
  <1> HIDE DEF words, len
  <1>6. TypeOK'
    BY <1>0, <1>1, <1>2, <1>4, <1>5 DEF FrameInv, TypeOK
  <1>7. ASSUME NEW i \in Ids, NEW b \in Slot(md, i)
        PROVE  /\ i \notin given' => buf'.data[b] = "nop"
               /\ i \in given' /\ md # "TIME_OUT" => buf'.data[b] = "value"
    <2>1. b \in Byte
      BY <1>0, SlotInWords DEF Ids
    <2>2. b \in Slot(md, id) <=> i = id
      BY SlotsDisjoint DEF Ids
    <2> QED
      BY <1>3, <1>4, <1>5, <2>1, <2>2
  <1>8. MotionFrame'
    BY <1>0, <1>2, <1>5, <1>7 DEF MotionFrame
  <1>9. ByteFrame'
    BY <1>5 DEF ByteFrame
  <1> QED
    BY <1>6, <1>8, <1>9 DEF FrameInv

\* A motion order is limited, and so never reads as "no command".
LEMMA OrderKeeps ==
    ASSUME FrameInv, NEW md \in MotionMode, NEW id \in Ids, NEW v \in Int, Order(md, id, v)
    PROVE  FrameInv'
  BY LimitedIsNoNop, WriteKeeps DEF Order

\* A timeout is not.
LEMMA SetMotorOutKeeps ==
    ASSUME FrameInv, NEW id \in Ids, NEW ms, SetMotorOut(id, ms)
    PROVE  FrameInv'
  BY WriteKeeps DEF SetMotorOut, Word, MotionMode

\* Writing the byte of a motor.
LEMMA ByteOrderKeeps ==
    ASSUME FrameInv, NEW md \in ByteMode, NEW id \in Ids, ByteOrder(md, id)
    PROVE  FrameInv'
  <1>0. num \in 1 .. MaxIds /\ num' = num /\ md \in Mode /\ md \notin MotionMode /\ Ids' = Ids
    BY NumIsBounded DEF FrameInv, ByteOrder, Mode, ByteMode, MotionMode, Ids
  <1> DEFINE words == IF buf.cmd = md THEN buf.data
                     ELSE [b \in Byte |-> IF b < num THEN "zero" ELSE buf.data[b]]
             len == IF buf.cmd = md THEN buf.len ELSE num
  <1>1. words \in [Byte -> {"zero", "nop", "value", "all"}] /\ len \in 0 .. BufferBytes
    BY <1>0 DEF FrameInv, TypeOK, BufferBytes, MaxIds
  <1>2. given' = Given(md) \cup {id} /\ Given(md) \subseteq Ids
    BY DEF ByteOrder, Given, FrameInv, TypeOK
  <1>3. buf' = [cmd |-> md, len |-> len, data |-> [words EXCEPT ![id - 1] = "value"]]
    BY DEF ByteOrder
  <1>4. \/ Given(md) = Ids
        \/ /\ words[0] # "all"
           /\ \A i \in Ids \ Given(md) : len < i \/ words[i - 1] = "zero"
    <2>1. CASE buf.cmd = md
      BY <1>0, <2>1 DEF FrameInv, ByteFrame, Given
    <2>2. CASE buf.cmd # md
      BY <1>0, <2>2 DEF Given, Ids, Byte, BufferBytes, MaxIds
    <2> QED
      BY <2>1, <2>2
  <1> HIDE DEF words, len
  <1>5. TypeOK'
    BY <1>0, <1>1, <1>2, <1>3 DEF FrameInv, TypeOK
  <1>6. ByteFrame'
    <2>1. CASE Given(md) = Ids
      BY <1>0, <1>2, <2>1 DEF ByteFrame
    <2>2. CASE Given(md) # Ids
      <3>1. buf'.data[0] # "all"
        BY <1>1, <1>3, <1>4, <2>2 DEF Ids
      <3>2. ASSUME NEW i \in Ids \ given' PROVE buf'.len < i \/ buf'.data[i - 1] = "zero"
        <4>1. i # id /\ i \notin Given(md)
          BY <1>2
        <4>2. i - 1 # id - 1
          BY <4>1 DEF Ids
        <4> QED
          BY <1>1, <1>3, <1>4, <2>2, <4>1, <4>2
      <3> QED
        BY <1>0, <3>1, <3>2 DEF ByteFrame
    <2> QED
      BY <2>1, <2>2
  <1>7. MotionFrame'
    BY <1>0, <1>3 DEF MotionFrame
  <1> QED
    BY <1>5, <1>6, <1>7 DEF FrameInv

\* A broadcast: one byte for all motors.
LEMMA BroadcastKeeps ==
    ASSUME FrameInv, NEW md \in BroadcastMode, Broadcast(md)
    PROVE  FrameInv'
  <1>0. num' = num /\ md \in Mode /\ md \notin MotionMode /\ Ids' = Ids /\ given' = Ids
    BY DEF Broadcast, Mode, BroadcastMode, MotionMode, Ids
  <1>1. buf'.cmd = md /\ buf'.len \in 0 .. BufferBytes
        /\ buf' = [cmd |-> md, len |-> buf'.len, data |-> buf'.data]
    BY DEF Broadcast, FrameInv, TypeOK, BufferBytes
  <1>2. buf'.data \in [Byte -> {"zero", "nop", "value", "all"}]
    BY DEF Broadcast, FrameInv, TypeOK
  <1>3. TypeOK'
    BY <1>0, <1>1, <1>2 DEF FrameInv, TypeOK
  <1> QED
    BY <1>0, <1>1, <1>3 DEF FrameInv, MotionFrame, ByteFrame

\* The timeout for all motors: a frame of words, each of them a value.
LEMMA SetTimeOutKeeps ==
    ASSUME FrameInv, SetTimeOut
    PROVE  FrameInv'
  <1>0. num \in 1 .. MaxIds /\ num' = num /\ Ids' = Ids /\ given' = Ids
        /\ "TIME_OUT" \in Mode /\ "TIME_OUT" \in MotionMode
    BY NumIsBounded DEF FrameInv, SetTimeOut, Mode, MotionMode, Ids
  <1>1. OneLen("TIME_OUT") = 2
    BY DEF OneLen
  <1> DEFINE len == IF buf.cmd = "TIME_OUT" THEN buf.len ELSE 2 * num
  <1>2. len \in 0 .. BufferBytes /\ 2 * num <= len
    BY <1>0, <1>1 DEF FrameInv, TypeOK, MotionFrame, BufferBytes, MaxIds
  <1>3. buf' = [cmd  |-> "TIME_OUT", len |-> len,
                data |-> [b \in Byte |-> IF b < 2 * num THEN "value" ELSE buf.data[b]]]
    BY DEF SetTimeOut
  <1> HIDE DEF len
  <1>4. TypeOK'
    BY <1>0, <1>2, <1>3 DEF FrameInv, TypeOK
  <1>5. ASSUME NEW i \in Ids, NEW b \in Slot("TIME_OUT", i) PROVE buf'.data[b] = "value"
    BY <1>0, <1>1, <1>3, SlotInWords DEF Ids
  <1> QED
    BY <1>0, <1>1, <1>2, <1>3, <1>4, <1>5 DEF FrameInv, MotionFrame, ByteFrame

LEMMA StepInv == FrameInv /\ [Next]_vars => FrameInv'
  <1> SUFFICES ASSUME FrameInv, [Next]_vars PROVE FrameInv'
    OBVIOUS
  <1>0. Called \subseteq Ids
    BY DEF Called
  <1>1. ASSUME NEW md \in MotionMode \cap Modes, NEW id \in Called, NEW v \in Numbers,
               Order(md, id, v)
        PROVE  FrameInv'
    BY <1>0, <1>1, NumbersAssumption, OrderKeeps
  <1>2. ASSUME NEW md \in ByteMode \cap Modes, NEW id \in Called, ByteOrder(md, id)
        PROVE  FrameInv'
    BY <1>0, <1>2, ByteOrderKeeps
  <1>3. ASSUME NEW md \in BroadcastMode \cap Modes, Broadcast(md) PROVE FrameInv'
    BY <1>3, BroadcastKeeps
  <1>4. CASE SetTimeOut
    BY <1>4, SetTimeOutKeeps
  <1>5. ASSUME NEW id \in Called, NEW ms, SetMotorOut(id, ms) PROVE FrameInv'
    BY <1>0, <1>5, SetMotorOutKeeps
  <1>6. CASE UNCHANGED vars
    BY <1>6 DEF vars, FrameInv, TypeOK, MotionFrame, ByteFrame, Ids
  <1> QED
    BY <1>1, <1>2, <1>3, <1>4, <1>5, <1>6 DEF Next

LEMMA SpecInv == Spec => []FrameInv
  BY InitInv, StepInv, PTL DEF Spec

-----------------------------------------------------------------------------
\* The buffer keeps its type: with up to MaxIds motors on a port no frame is
\* longer than the array it is sent from (motor::get_data_len).
THEOREM FramesTypeCorrect == Spec => []TypeOK
  <1>1. FrameInv => TypeOK
    BY DEF FrameInv
  <1> QED
    BY <1>1, SpecInv, PTL

\* A frame orders nothing of a motor that no call since the last change of mode
\* was for (motor.cpp, the methods that fill the buffer).
THEOREM NobodyElseIsOrdered == Spec => []NoUncalledMotor
  <1>1. FrameInv => NoUncalledMotor
    <2> SUFFICES ASSUME FrameInv, NEW id \in Ids, Finds(id) PROVE id \in given
      BY DEF NoUncalledMotor
    <2>1. CASE buf.cmd \in MotionMode
      BY <2>1 DEF FrameInv, MotionFrame, Finds
    <2>2. CASE buf.cmd \notin MotionMode
      <3> SUFFICES ASSUME given # Ids, id \notin given PROVE FALSE
        OBVIOUS
      <3>1. buf.data[0] # "all" /\ (buf.len < id \/ buf.data[id - 1] = "zero")
        BY <2>2 DEF FrameInv, ByteFrame
      <3>2. id <= buf.len /\ buf.data[id - 1] # "zero"
        BY <2>2, <3>1 DEF Finds
      <3> QED
        BY <3>1, <3>2 DEF FrameInv, TypeOK, Ids
    <2> QED
      BY <2>1, <2>2
  <1> QED
    BY <1>1, SpecInv, PTL

\* An order given is whole in the frame, and a motion order never reads as no
\* command (motor::get_data_len, int16_limit); a timeout given is inside it.
THEOREM OrdersAreWhole == Spec => []OrderIsInFrame
  <1>1. FrameInv => OrderIsInFrame
    <2> SUFFICES ASSUME FrameInv, buf.cmd \in MotionMode,
                        NEW id \in given, NEW b \in Slot(buf.cmd, id)
                 PROVE  b < buf.len /\ (buf.cmd # "TIME_OUT" => buf.data[b] = "value")
      BY DEF OrderIsInFrame
    <2>1. id \in Ids /\ (buf.cmd # "TIME_OUT" => buf.data[b] = "value")
      BY DEF FrameInv, TypeOK, MotionFrame
    <2>2. b \in Byte /\ b < OneLen(buf.cmd) * num
      BY <2>1, NumIsBounded, SlotInWords DEF FrameInv, Ids
    <2>3. OneLen(buf.cmd) * num <= buf.len /\ OneLen(buf.cmd) * num \in Int /\ buf.len \in Int
      BY NumIsBounded, OneLenCases DEF FrameInv, TypeOK, MotionFrame
    <2> QED
      BY <2>1, <2>2, <2>3 DEF Byte
  <1> QED
    BY <1>1, SpecInv, PTL

\* A motion frame shows a value for the motors that were called and no other.
ShowsGiven ==
    buf.cmd # "TIME_OUT" => \A i \in Ids : SlotSeen[i] = IF buf.cmd \in MotionMode /\ i \in given THEN "value" ELSE "nop"

LEMMA SeenIsGiven == FrameInv => ShowsGiven
  <1> SUFFICES ASSUME FrameInv, buf.cmd # "TIME_OUT", NEW i \in Ids
               PROVE  SlotSeen[i] = IF buf.cmd \in MotionMode /\ i \in given THEN "value" ELSE "nop"
    BY DEF ShowsGiven
  <1>1. num \in 1 .. MaxIds /\ i \in 1 .. MaxIds
    BY NumIsBounded DEF FrameInv, Ids, MaxIds
  <1>2. CASE buf.cmd \notin MotionMode
    BY <1>1, <1>2 DEF SlotSeen
  <1>3. CASE buf.cmd \in MotionMode /\ i \notin given
    <2>1. \A b \in Slot(buf.cmd, i) : buf.data[b] = "nop"
      BY <1>3 DEF FrameInv, MotionFrame
    <2> QED
      BY <1>1, <1>3, <2>1 DEF SlotSeen
  <1>4. CASE buf.cmd \in MotionMode /\ i \in given
    <2> DEFINE b == (i - 1) * OneLen(buf.cmd)
    <2>1. b \in Slot(buf.cmd, i)
      <3>1. OneLen(buf.cmd) \in {2, 6, 8, 10}
        BY OneLenCases
      <3> QED
        BY <1>1, <3>1 DEF Slot
    <2>2. b \in Byte /\ b < OneLen(buf.cmd) * num
      BY <1>1, <2>1, SlotInWords DEF Ids
    <2>3. OneLen(buf.cmd) * num <= buf.len /\ OneLen(buf.cmd) * num \in Int /\ buf.len \in Int
      BY <1>1, <1>4, OneLenCases DEF FrameInv, TypeOK, MotionFrame
    <2>4. buf.data[b] = "value"
      BY <1>4, <2>1 DEF FrameInv, MotionFrame
    <2> HIDE DEF b
    <2>5. b < buf.len
      BY <2>2, <2>3 DEF Byte
    <2>6. \E c \in Slot(buf.cmd, i) : c < buf.len /\ buf.data[c] # "nop"
      BY <2>1, <2>4, <2>5
    <2> QED
      BY <1>1, <1>4, <2>6 DEF SlotSeen
  <1> QED
    BY <1>2, <1>3, <1>4

\* What MotorBus says of slots is what the bytes do: the operator SlotAfter there
\* describes every write of a motor method here (motor.cpp:403-419).
THEOREM SlotsAreBytes == Spec => WritesAreSlots
  <1> DEFINE Written(md, id) == \A i \in Ids :
               SlotSeen'[i] = Bus!SlotAfter(md, {id}, [m \in {id} |-> "value"])[i]
  <1>0. FrameInv' => ShowsGiven'
    BY SeenIsGiven, PTL
  <1>1. ASSUME FrameInv, NEW md \in MotionMode, NEW id \in Called, NEW k \in Numbers,
               Order(md, id, k)
        PROVE  Written(md, id)
    <2>1. id \in Ids /\ k \in Int /\ num \in 1 .. MaxIds
      BY <1>1, NumbersAssumption, NumIsBounded DEF Called, FrameInv
    <2>2. FrameInv'
      BY <1>1, <2>1, OrderKeeps
    <2>3. /\ buf'.cmd = md /\ given' = Given(md) \cup {id} /\ Ids' = Ids
          /\ md # "TIME_OUT"
      BY <1>1 DEF Order, Write, Ids
    <2> SUFFICES ASSUME NEW i \in Ids
                 PROVE  SlotSeen'[i] = Bus!SlotAfter(md, {id}, [m \in {id} |-> "value"])[i]
      OBVIOUS
    <2>4. i \in 1 .. MaxIds /\ id \in 1 .. MaxIds
      BY <2>1 DEF Ids, MaxIds
    <2>5. SlotSeen'[i] = IF i \in Given(md) \cup {id} THEN "value" ELSE "nop"
      <3>1. ShowsGiven'
        BY <1>0, <2>2
      <3> QED
        BY <1>1, <2>3, <3>1 DEF ShowsGiven
    <2>6. Bus!SlotAfter(md, {id}, [m \in {id} |-> "value"])[i]
            = IF i = id THEN "value" ELSE IF buf.cmd # md THEN "nop" ELSE SlotSeen[i]
      BY <2>1, <2>4 DEF Bus!SlotAfter, Bus!Touched
    <2>7. buf.cmd = md => SlotSeen[i] = IF i \in given THEN "value" ELSE "nop"
      BY <1>1, <2>3, SeenIsGiven DEF ShowsGiven
    <2> QED
      BY <1>1, <2>5, <2>6, <2>7 DEF Given
  <1>2. FrameInv => LET md == buf'.cmd IN
          \A id \in Called, k \in Numbers : md \in MotionMode /\ Order(md, id, k) => Written(md, id)
    BY <1>1
  <1> QED
    BY <1>2, SpecInv, PTL DEF WritesAreSlots

\* No FDCAN frame ends inside an order (motor.cpp:253-257).
THEOREM OrdersAreNotSplit == Spec => []NoMotorIsSplit
  <1>1. FrameInv => NoMotorIsSplit
    BY NumIsBounded, SlotInOneChunk DEF FrameInv, NoMotorIsSplit, Ids
  <1> QED
    BY <1>1, SpecInv, PTL

-----------------------------------------------------------------------------
(* The receive thread: its types.                                          *)

\* A header that passes is one the board sends, with the length of its payload.
HeaderInHand ==
    stage \in {"crc16", "payload"} => /\ HeaderPasses(sof)
                                      /\ stage = "payload" => n < sof[2]

\* A header or CRC16 is read up to its last byte and no further.
ReadsInBounds ==
    /\ stage = "header" => n \in 0 .. 3
    /\ stage = "crc16" => n \in 0 .. 1

ReadInv == RxTypeOK /\ HeaderInHand /\ ReadsInBounds

\* What is behind what in two sequences joined.
LEMMA Joined ==
    ASSUME NEW S, NEW a \in Seq(S), NEW b \in Seq(S)
    PROVE  /\ a \o b \in Seq(S) /\ Len(a \o b) = Len(a) + Len(b)
           /\ \A i \in 1 .. Len(a) : (a \o b)[i] = a[i]
           /\ \A i \in 1 .. Len(b) : (a \o b)[Len(a) + i] = b[i]
  OBVIOUS

\* Everything the board sends is bytes, and this is where they stand.
LEMMA FrameBytes ==
    ASSUME NEW f \in Sendable
    PROVE  /\ f.data \in Seq(ByteSet) /\ f.crc16 \in Seq(ByteSet) /\ Len(f.crc16) = 2
           /\ Header(f) \in Seq(ByteSet) /\ Len(Header(f)) = 4 /\ Header(f)[2] = Len(f.data)
           /\ Len(f.data) \in 1 .. BufLen
           /\ Bytes(f) \in Seq(ByteSet) /\ Len(Bytes(f)) = 7 + Len(f.data)
           /\ Bytes(f)[1] = HeadByte
           /\ \A i \in 1 .. 4 : Bytes(f)[1 + i] = Header(f)[i]
           /\ \A i \in 1 .. 2 : Bytes(f)[5 + i] = f.crc16[i]
           /\ \A i \in 1 .. Len(f.data) : Bytes(f)[7 + i] = f.data[i]
  <1>1. f \in Frame /\ Len(f.data) \in 1 .. BufLen /\ Len(f.data) \in ByteSet
    BY SendableAssumption
  <1>2. f.data \in Seq(ByteSet) /\ f.crc16 \in Seq(ByteSet) /\ Len(f.crc16) = 2
    <2>1. PICK p \in ByteSet, q \in ByteSet : f.crc16 = <<p, q>>
      BY <1>1 DEF Frame
    <2> QED
      BY <1>1, <2>1 DEF Frame
  <1>3. Header(f) \in Seq(ByteSet) /\ Len(Header(f)) = 4 /\ Header(f)[2] = Len(f.data)
    BY <1>1 DEF Frame, Header, ByteSet
  <1>4. <<HeadByte>> \in Seq(ByteSet) /\ Len(<<HeadByte>>) = 1 /\ <<HeadByte>>[1] = HeadByte
    BY DEF HeadByte, ByteSet
  <1> DEFINE h == <<HeadByte>>
             a == h \o Header(f)
             b == a \o f.crc16
             c == b \o f.data
  <1> HIDE DEF h, a, b, c
  <1>5. /\ a \in Seq(ByteSet) /\ Len(a) = 5 /\ a[1] = HeadByte
        /\ \A i \in 1 .. 4 : a[1 + i] = Header(f)[i]
    <2>1. h \in Seq(ByteSet) /\ Header(f) \in Seq(ByteSet)
      BY <1>3, <1>4 DEF h
    <2>2. /\ h \o Header(f) \in Seq(ByteSet) /\ Len(h \o Header(f)) = Len(h) + Len(Header(f))
          /\ \A i \in 1 .. Len(h) : (h \o Header(f))[i] = h[i]
          /\ \A i \in 1 .. Len(Header(f)) : (h \o Header(f))[Len(h) + i] = Header(f)[i]
      BY <2>1, Joined
    <2> QED
      BY <1>3, <1>4, <2>2 DEF h, a
  <1>6. /\ b \in Seq(ByteSet) /\ Len(b) = 7
        /\ \A i \in 1 .. 5 : b[i] = a[i]
        /\ \A i \in 1 .. 2 : b[5 + i] = f.crc16[i]
    <2>1. a \in Seq(ByteSet) /\ f.crc16 \in Seq(ByteSet)
      BY <1>2, <1>5
    <2>2. /\ a \o f.crc16 \in Seq(ByteSet) /\ Len(a \o f.crc16) = Len(a) + Len(f.crc16)
          /\ \A i \in 1 .. Len(a) : (a \o f.crc16)[i] = a[i]
          /\ \A i \in 1 .. Len(f.crc16) : (a \o f.crc16)[Len(a) + i] = f.crc16[i]
      BY <2>1, Joined
    <2> QED
      BY <1>2, <1>5, <2>2 DEF b
  <1>7. /\ c \in Seq(ByteSet) /\ Len(c) = 7 + Len(f.data)
        /\ \A i \in 1 .. 7 : c[i] = b[i]
        /\ \A i \in 1 .. Len(f.data) : c[7 + i] = f.data[i]
    <2>1. b \in Seq(ByteSet) /\ f.data \in Seq(ByteSet)
      BY <1>2, <1>6
    <2>2. /\ b \o f.data \in Seq(ByteSet) /\ Len(b \o f.data) = Len(b) + Len(f.data)
          /\ \A i \in 1 .. Len(b) : (b \o f.data)[i] = b[i]
          /\ \A i \in 1 .. Len(f.data) : (b \o f.data)[Len(b) + i] = f.data[i]
      BY <2>1, Joined
    <2> QED
      BY <1>6, <2>2 DEF c
  <1>8. c = Bytes(f)
    BY DEF Bytes, a, b, c, h
  <1>9. /\ c[1] = HeadByte
        /\ \A i \in 1 .. 4 : c[1 + i] = Header(f)[i]
        /\ \A i \in 1 .. 2 : c[5 + i] = f.crc16[i]
    BY <1>5, <1>6, <1>7
  <1> QED
    BY <1>1, <1>2, <1>3, <1>7, <1>8, <1>9

\* A set of naturals that is not empty has a least member.
LEMMA LeastExists ==
    ASSUME NEW T \in SUBSET Nat, T # {}
    PROVE  \E t \in T : \A w \in T : t <= w
  <1> DEFINE R == OpToRel(<, Nat)
  <1>1. IsWellFoundedOn(R, Nat)
    BY NatLessThanWellFounded
  <1>2. PICK t \in T : \A w \in T : ~ (<<w, t>> \in R)
    BY <1>1, WFMin
  <1>3. ASSUME NEW w \in T PROVE t <= w
    <2>1. ~ (w < t)
      BY <1>2 DEF OpToRel
    <2> QED
      BY <2>1
  <1> QED
    BY <1>3

\* Of the entries that name a motor there is a last one.
LEMMA LastEntry ==
    ASSUME NEW k \in Nat, NEW I \in SUBSET (1 .. k), I # {}
    PROVE  \E i \in I : \A j \in I : j <= i
  <1> DEFINE T == {k - i : i \in I}
  <1>1. \A i \in I : k - i \in Nat
    OBVIOUS
  <1>2. PICK t \in T : \A w \in T : t <= w
    <2>1. T \in SUBSET Nat
      BY <1>1
    <2>2. T # {}
      OBVIOUS
    <2> QED
      BY <2>1, <2>2, LeastExists
  <1>3. PICK i \in I : t = k - i
    BY <1>2
  <1>4. ASSUME NEW j \in I PROVE j <= i
    <2>1. t <= k - j
      BY <1>2
    <2> QED
      BY <1>3, <2>1
  <1> QED
    BY <1>4

\* A header that passes announces a payload that fits.
LEMMA HeaderFits ==
    ASSUME NEW h, HeaderPasses(h)
    PROVE  h[2] \in 1 .. BufLen
  BY FrameBytes DEF HeaderPasses

\* What a motor is refreshed with is a byte of the payload.
LEMMA FreshBytes ==
    ASSUME NEW len \in 1 .. BufLen, NEW d \in Seq(ByteSet), Len(d) = BufLen,
           feedback \in [Motors -> ByteSet \cup {None}]
    PROVE  Fresh(len, d) \in [Motors -> ByteSet \cup {None}]
  <1>1. ASSUME NEW i \in Entries(len) PROVE ValueOf(d, i) \in ByteSet
    <2>1. EntryLen * i \in 1 .. Len(d)
      BY <1>1, BoundsAssumption DEF Entries, EntryLen
    <2> QED
      BY <2>1, ElementOfSeq DEF ValueOf
  <1>2. ASSUME NEW m \in Motors,
               NEW I \in SUBSET Entries(len), I # {}
        PROVE  (CHOOSE i \in I : \A j \in I : j <= i) \in I
    <2>1. Entries(len) = 1 .. (len \div EntryLen) /\ len \div EntryLen \in Nat
      BY BoundsAssumption DEF Entries, EntryLen
    <2> QED
      BY <2>1, <1>2, LastEntry
  <1> QED
    BY <1>1, <1>2 DEF Fresh

\* The verdict on a payload leaves all variables with their types.
LEMMA JudgeKeeps ==
    ASSUME ReadInv, stage = "payload", NEW d \in Seq(ByteSet), Len(d) = BufLen, Judge(d)
    PROVE  /\ stage' = "head" /\ n' = 0 /\ UNCHANGED <<sof, crc>>
           /\ data' \in Seq(ByteSet) /\ Len(data') = BufLen
           /\ verdict'.is \in {"none", "accepted", "refused"}
           /\ mode_flag' \in {0, MODE_CONF_WRITE} /\ motors_id' \subseteq ByteSet
           /\ feedback' \in [Motors -> ByteSet \cup {None}]
  <1>0. RxTypeOK /\ sof[2] \in 1 .. BufLen
    BY HeaderFits DEF ReadInv, HeaderInHand
  <1>1. stage' = "head" /\ n' = 0 /\ UNCHANGED <<sof, crc>>
    BY DEF Judge
  <1> DEFINE p == SubSeq(d, 1, sof[2])
  <1> HIDE DEF p
  <1>2. CASE PayloadPasses(crc, p)
    <2>1. /\ data' = d /\ Dispatch(sof[1], sof[2], d)
          /\ verdict' = [is |-> "accepted", frame |-> [cmd |-> sof[1], data |-> p]]
      BY <1>2 DEF Judge, p
    <2>2. {d[i] : i \in 1 .. sof[2]} \subseteq ByteSet
      BY <1>0, BoundsAssumption, ElementOfSeq
    <2>3. Fresh(sof[2], d) \in [Motors -> ByteSet \cup {None}]
      BY <1>0, FreshBytes DEF RxTypeOK
    <2>4. mode_flag' \in {0, MODE_CONF_WRITE} /\ motors_id' \subseteq ByteSet
      BY <1>0, <2>1, <2>2 DEF Dispatch, RxTypeOK
    <2>5. feedback' \in [Motors -> ByteSet \cup {None}]
      BY <1>0, <2>1, <2>3 DEF Dispatch, RxTypeOK
    <2> QED
      BY <1>1, <2>1, <2>4, <2>5
  <1>3. CASE ~PayloadPasses(crc, p)
    <2>1. /\ data' = [i \in 1 .. BufLen |-> IF i <= Cleared THEN 0 ELSE d[i]]
          /\ verdict' = [is |-> "refused", frame |-> Nothing]
          /\ UNCHANGED <<mode_flag, motors_id, feedback>>
      BY <1>3 DEF Judge, p
    <2>2. ASSUME NEW i \in 1 .. BufLen
          PROVE  (IF i <= Cleared THEN 0 ELSE d[i]) \in ByteSet
      <3>1. d[i] \in ByteSet
        BY ElementOfSeq
      <3> QED
        BY <3>1 DEF ByteSet
    <2>3. data' \in Seq(ByteSet) /\ Len(data') = BufLen
      BY <2>1, <2>2, BoundsAssumption
    <2> QED
      BY <1>0, <1>1, <2>1, <2>3 DEF RxTypeOK
  <1> QED
    BY <1>2, <1>3

\* A byte stored in what has been read.
LEMMA PutByte ==
    ASSUME NEW s \in Seq(ByteSet), NEW i \in 1 .. Len(s), NEW b \in ByteSet
    PROVE  [s EXCEPT ![i] = b] \in Seq(ByteSet) /\ Len([s EXCEPT ![i] = b]) = Len(s)
  BY ExceptSeq

LEMMA ByteIsPut ==
    ASSUME NEW s \in Seq(ByteSet), NEW i \in 1 .. Len(s), NEW b \in ByteSet,
           NEW t, t = [s EXCEPT ![i] = b]
    PROVE  /\ t \in Seq(ByteSet) /\ Len(t) = Len(s)
           /\ \A j \in 1 .. Len(s) : t[j] = IF j = i THEN b ELSE s[j]
  BY ExceptSeq

\* One byte of the wire has been taken.
LEMMA ArrivesKeeps ==
    ASSUME RxTypeOK, Arrives
    PROVE  Head(rest) \in ByteSet /\ rest' \in Seq(ByteSet) /\ UNCHANGED <<cur, lost, stalls>>
  BY HeadTailProperties DEF RxTypeOK, Arrives

\* The end of the read of a header, complete or not.
LEMMA HeaderReadKeeps ==
    ASSUME NEW h \in Seq(ByteSet), Len(h) = 4, HeaderRead(h)
    PROVE  /\ sof' = h /\ n' = 0 /\ stage' \in {"crc16", "head"}
           /\ stage' = "crc16" => HeaderPasses(h)
  BY DEF HeaderRead

LEMMA ReadInitInv == RxInit => ReadInv
  <1> SUFFICES ASSUME RxInit PROVE ReadInv
    OBVIOUS
  <1>1. \A k \in Nat : Zeros(k) \in Seq(ByteSet) /\ Len(Zeros(k)) = k
    BY DEF Zeros, ByteSet
  <1>2. rest \in Seq(ByteSet)
    BY FrameBytes DEF RxInit
  <1>3. feedback \in [Motors -> ByteSet \cup {None}]
    BY DEF RxInit
  <1>4. RxTypeOK
    <2>1. /\ {cur, from} \subseteq Sendable /\ stage = "head" /\ n \in 0 .. BufLen
          /\ {lost, stalls} \subseteq 0 .. MaxFaults /\ mode_flag = 0 /\ motors_id = {}
      BY BoundsAssumption DEF RxInit
    <2>3. verdict.is = "none" /\ short \in BOOLEAN
      BY DEF RxInit
    <2>2. /\ sof \in Seq(ByteSet) /\ Len(sof) = 4
          /\ crc \in Seq(ByteSet) /\ Len(crc) = 2
          /\ data \in Seq(ByteSet) /\ Len(data) = BufLen
      BY <1>1, BoundsAssumption DEF RxInit
    <2> QED
      BY <1>2, <1>3, <2>1, <2>2, <2>3 DEF RxTypeOK
  <1> QED
    BY <1>4 DEF RxInit, ReadInv, HeaderInHand, ReadsInBounds

LEMMA ReadStepInv == ReadInv /\ [RxNext]_rxVars => ReadInv'
  <1> SUFFICES ASSUME ReadInv, [RxNext]_rxVars PROVE ReadInv'
    OBVIOUS
  <1>0. RxTypeOK /\ n \in Nat
    BY BoundsAssumption DEF ReadInv, RxTypeOK
  <1> USE DEF rxVars, io, read, effects
  <1>1. CASE Transmit
    <2>1. rest' \in Seq(ByteSet) /\ cur' \in Sendable
      BY <1>1, FrameBytes DEF Transmit
    <2> QED
      BY <1>1, <2>1 DEF Transmit, ReadInv, RxTypeOK, HeaderInHand, ReadsInBounds
  <1>2. CASE LoseByte
    <2>1. rest' \in Seq(ByteSet)
      BY <1>0, <1>2, HeadTailProperties DEF LoseByte, RxTypeOK
    <2>2. lost' \in 0 .. MaxFaults
      BY <1>0, <1>2, BoundsAssumption DEF LoseByte, RxTypeOK
    <2> QED
      BY <1>2, <2>1, <2>2 DEF LoseByte, ReadInv, RxTypeOK, HeaderInHand, ReadsInBounds
  <1>3. CASE ReadHead
    <2>1. Head(rest) \in ByteSet /\ rest' \in Seq(ByteSet) /\ UNCHANGED <<cur, lost, stalls>>
      BY <1>0, <1>3, ArrivesKeeps DEF ReadHead
    <2>2. Zeros(4) \in Seq(ByteSet) /\ Len(Zeros(4)) = 4
      BY DEF Zeros, ByteSet
    <2>3. RxTypeOK'
      <3>1. /\ stage' \in {"head", "header"} /\ n' \in 0 .. BufLen
            /\ sof' = Zeros(4) /\ UNCHANGED <<crc, data, from, mode_flag, motors_id, feedback>>
        BY <1>3, BoundsAssumption DEF ReadHead
      <3>2. verdict'.is = "none" /\ short' \in BOOLEAN
        BY <1>3 DEF ReadHead
      <3> QED
        BY <1>0, <2>1, <2>2, <3>1, <3>2 DEF RxTypeOK
    <2> QED
      BY <1>3, <2>3 DEF ReadHead, ReadInv, HeaderInHand, ReadsInBounds
  <1>4. CASE ReadHeader
    <2> DEFINE h == [sof EXCEPT ![n + 1] = Head(rest)]
    <2>1. Head(rest) \in ByteSet /\ rest' \in Seq(ByteSet) /\ UNCHANGED <<cur, lost, stalls>>
      BY <1>0, <1>4, ArrivesKeeps DEF ReadHeader
    <2>2. stage = "header" /\ n \in 0 .. 3
      BY <1>4 DEF ReadHeader, ReadInv, ReadsInBounds
    <2>3. h \in Seq(ByteSet) /\ Len(h) = 4
      <3>1. sof \in Seq(ByteSet) /\ Len(sof) = 4 /\ n + 1 \in 1 .. Len(sof)
        BY <1>0, <2>2 DEF RxTypeOK
      <3>2. Head(rest) \in ByteSet
        BY <2>1
      <3> QED
        BY <3>1, <3>2, PutByte
    <2>4. from' \in Sendable /\ UNCHANGED <<crc, data, short, effects>>
      BY <1>0, <1>4 DEF ReadHeader, RxTypeOK
    <2> HIDE DEF h
    <2>5. CASE n + 1 = 4
      <3>1. HeaderRead(h)
        BY <1>4, <2>5 DEF ReadHeader, h
      <3>2. sof' = h /\ n' = 0 /\ stage' \in {"crc16", "head"}
            /\ (stage' = "crc16" => HeaderPasses(h))
        BY <2>3, <3>1, HeaderReadKeeps
      <3>3. RxTypeOK'
        BY <1>0, <2>1, <2>3, <2>4, <3>2, BoundsAssumption DEF RxTypeOK
      <3> QED
        BY <3>2, <3>3 DEF ReadInv, HeaderInHand, ReadsInBounds
    <2>6. CASE n + 1 # 4
      <3>1. sof' = h /\ n' = n + 1 /\ stage' = stage
        BY <1>4, <2>6 DEF ReadHeader, h
      <3>2. n' \in 0 .. 3
        BY <2>2, <2>6, <3>1
      <3> QED
        BY <1>0, <2>1, <2>2, <2>3, <2>4, <3>1, <3>2, BoundsAssumption
           DEF ReadInv, RxTypeOK, HeaderInHand, ReadsInBounds
    <2> QED
      BY <2>5, <2>6
  <1>5. CASE ReadCrc16
    <2>1. Head(rest) \in ByteSet /\ rest' \in Seq(ByteSet) /\ UNCHANGED <<cur, lost, stalls>>
      BY <1>0, <1>5, ArrivesKeeps DEF ReadCrc16
    <2>2. stage = "crc16" /\ n \in 0 .. 1 /\ sof[2] \in 1 .. BufLen /\ HeaderPasses(sof)
      BY <1>5, HeaderFits DEF ReadCrc16, ReadInv, ReadsInBounds, HeaderInHand
    <2>3. crc' \in Seq(ByteSet) /\ Len(crc') = 2
      <3>1. crc \in Seq(ByteSet) /\ Len(crc) = 2 /\ n + 1 \in 1 .. Len(crc)
        BY <1>0, <2>2 DEF RxTypeOK
      <3>2. Head(rest) \in ByteSet /\ crc' = [crc EXCEPT ![n + 1] = Head(rest)]
        BY <1>5, <2>1 DEF ReadCrc16
      <3> QED
        BY <3>1, <3>2, PutByte
    <2>4. /\ stage' = IF n + 1 = 2 THEN "payload" ELSE "crc16"
          /\ n' = (n + 1) % 2
          /\ UNCHANGED <<sof, data, from, short, effects>>
      BY <1>5 DEF ReadCrc16
    <2>5. n' \in 0 .. 1 /\ (stage' = "payload" => n' = 0)
      BY <2>2, <2>4
    <2> QED
      BY <1>0, <2>1, <2>2, <2>3, <2>4, <2>5, BoundsAssumption
         DEF ReadInv, RxTypeOK, HeaderInHand, ReadsInBounds, HeaderPasses
  <1>6. CASE ReadPayload
    <2> DEFINE d == [data EXCEPT ![n + 1] = Head(rest)]
    <2>1. Head(rest) \in ByteSet /\ rest' \in Seq(ByteSet) /\ UNCHANGED <<cur, lost, stalls>>
      BY <1>0, <1>6, ArrivesKeeps DEF ReadPayload
    <2>2. stage = "payload" /\ n < sof[2] /\ sof[2] \in 1 .. BufLen /\ HeaderPasses(sof)
      BY <1>6, HeaderFits DEF ReadPayload, ReadInv, HeaderInHand
    <2>3. d \in Seq(ByteSet) /\ Len(d) = BufLen
      <3>1. data \in Seq(ByteSet) /\ Len(data) = BufLen /\ n + 1 \in 1 .. Len(data)
        BY <1>0, <2>2, BoundsAssumption DEF RxTypeOK
      <3>2. Head(rest) \in ByteSet
        BY <2>1
      <3> QED
        BY <3>1, <3>2, PutByte
    <2>4. UNCHANGED <<from, short>>
      BY <1>6 DEF ReadPayload
    <2> HIDE DEF d
    <2>5. CASE n + 1 = sof[2]
      <3>1. Judge(d)
        BY <1>6, <2>5 DEF ReadPayload, d
      <3> QED
        BY <1>0, <2>1, <2>2, <2>3, <2>4, <3>1, JudgeKeeps, BoundsAssumption
           DEF ReadInv, RxTypeOK, HeaderInHand, ReadsInBounds
    <2>6. CASE n + 1 # sof[2]
      <3>1. data' = d /\ n' = n + 1 /\ UNCHANGED <<stage, sof, crc, effects>>
        BY <1>6, <2>6 DEF ReadPayload, d
      <3>2. n' < sof[2] /\ n' \in 0 .. BufLen
        BY <1>0, <2>2, <2>6, <3>1, BoundsAssumption
      <3> QED
        BY <1>0, <2>1, <2>2, <2>3, <2>4, <3>1, <3>2
           DEF ReadInv, RxTypeOK, HeaderInHand, ReadsInBounds, HeaderPasses
    <2> QED
      BY <2>5, <2>6
  <1>7. CASE TimeOut
    <2>1. stalls' \in 0 .. MaxFaults /\ UNCHANGED <<cur, rest, from, lost>>
      BY <1>0, <1>7, BoundsAssumption DEF TimeOut, RxTypeOK
    <2>2. CASE stage = "header" /\ HeaderRead(sof) /\ UNCHANGED <<crc, data, short, effects>>
      <3>1. sof \in Seq(ByteSet) /\ Len(sof) = 4
        BY <1>0 DEF RxTypeOK
      <3>2. sof' = sof /\ n' = 0 /\ stage' \in {"crc16", "head"}
            /\ (stage' = "crc16" => HeaderPasses(sof))
        BY <2>2, <3>1, HeaderReadKeeps
      <3> QED
        BY <1>0, <2>1, <2>2, <3>2, BoundsAssumption
           DEF ReadInv, RxTypeOK, HeaderInHand, ReadsInBounds, HeaderPasses
    <2>3. CASE /\ stage = "crc16" /\ stage' = "payload" /\ n' = 0 /\ short' = TRUE
               /\ UNCHANGED <<sof, crc, data, effects>>
      <3>1. sof[2] \in 1 .. BufLen /\ HeaderPasses(sof)
        BY <2>3, HeaderFits DEF ReadInv, HeaderInHand
      <3> QED
        BY <1>0, <2>1, <2>3, <3>1, BoundsAssumption
           DEF ReadInv, RxTypeOK, HeaderInHand, ReadsInBounds, HeaderPasses
    <2>4. CASE stage = "payload" /\ Judge(data) /\ short' = TRUE
      <3>1. data \in Seq(ByteSet) /\ Len(data) = BufLen
        BY <1>0 DEF RxTypeOK
      <3> QED
        BY <1>0, <2>1, <2>4, <3>1, JudgeKeeps, BoundsAssumption
           DEF ReadInv, RxTypeOK, HeaderInHand, ReadsInBounds
    <2> QED
      BY <1>7, <2>2, <2>3, <2>4 DEF TimeOut
  <1>8. CASE UNCHANGED rxVars
    BY <1>8 DEF ReadInv, RxTypeOK, HeaderInHand, ReadsInBounds, HeaderPasses
  <1> QED
    BY <1>1, <1>2, <1>3, <1>4, <1>5, <1>6, <1>7, <1>8 DEF RxNext, Step

LEMMA ReadSpecInv == RxSpec => []ReadInv
  BY ReadInitInv, ReadStepInv, PTL DEF RxSpec

\* The thread's variables keep their types, whatever arrives and is lost: no read
\* and no dispatch runs past the buffer of the payload (serial_driver.cpp:56-135).
THEOREM ReceiveTypeCorrect == RxSpec => []RxTypeOK
  <1>1. ReadInv => RxTypeOK
    BY DEF ReadInv
  <1> QED
    BY <1>1, ReadSpecInv, PTL

-----------------------------------------------------------------------------
(* The receive thread: what it makes of the frames.                        *)

\* A payload as long as that of a frame of this command is one of the command.
LengthTells(cmd) ==
    \A f, g \in Sendable : f.cmd = cmd /\ Len(g.data) = Len(f.data) => g.cmd = cmd

\* The bytes of the frame behind the first k are those yet to be read.
Behind(k) ==
    /\ Len(rest) = Len(Bytes(cur)) - k
    /\ \A i \in 1 .. Len(rest) : rest[i] = Bytes(cur)[k + i]

\* Between frames: no byte of the one before is left, or the next one has begun.
AtHead == rest = <<>> \/ Behind(0)

AtHeader == n < 4 /\ Behind(1 + n) /\ \A i \in 1 .. n : sof[i] = Header(cur)[i]

AtCrc16 ==
    n < 2 /\ Behind(5 + n) /\ sof = Header(cur) /\ \A i \in 1 .. n : crc[i] = cur.crc16[i]

AtPayload ==
    /\ n < Len(cur.data) /\ Behind(7 + n) /\ sof = Header(cur) /\ crc = cur.crc16
    /\ \A i \in 1 .. n : data[i] = cur.data[i]

\* The thread reads what the board sends where the board sends it.
Aligned ==
    /\ stage = "head"    => AtHead
    /\ stage = "header"  => AtHeader
    /\ stage = "crc16"   => AtCrc16
    /\ stage = "payload" => AtPayload

\* A payload that is dispatched was sent, and is as long as that of a frame of the
\* command it is dispatched as.
LEMMA DispatchedAsLong ==
    ASSUME ReadInv, stage = "payload", NEW d \in Seq(ByteSet), Len(d) = BufLen,
           PayloadPasses(crc, SubSeq(d, 1, sof[2]))
    PROVE  \E f, g \in Sendable : /\ sof = Header(g) /\ g.cmd = sof[1] /\ Len(g.data) = sof[2]
                                  /\ f.crc16 = crc /\ Len(f.data) = sof[2]
                                  /\ \A i \in 1 .. sof[2] : d[i] = f.data[i]
  <1>1. PICK g \in Sendable : sof = Header(g)
    BY DEF ReadInv, HeaderInHand, HeaderPasses
  <1>2. sof[1] = g.cmd /\ sof[2] = Len(g.data)
    BY <1>1 DEF Header
  <1>3. PICK f \in Sendable : crc = f.crc16 /\ SubSeq(d, 1, sof[2]) = f.data
    BY DEF PayloadPasses
  <1>4. sof[2] \in 1 .. BufLen
    BY <1>1, <1>2, FrameBytes
  <1>5. /\ Len(SubSeq(d, 1, sof[2])) = sof[2]
        /\ \A i \in 1 .. sof[2] : SubSeq(d, 1, sof[2])[i] = d[i]
    BY <1>4, BoundsAssumption
  <1> QED
    BY <1>1, <1>2, <1>3, <1>5

\* It was sent under that command if its length tells, or if the thread is in step:
\* then the header and the CRC16 in hand are those of one frame.
LEMMA DispatchedAsSent ==
    ASSUME ReadInv, stage = "payload", NEW d \in Seq(ByteSet), Len(d) = BufLen,
           PayloadPasses(crc, SubSeq(d, 1, sof[2])), LengthTells(sof[1]) \/ Aligned
    PROVE  \E f \in Sendable : /\ f.cmd = sof[1] /\ Len(f.data) = sof[2]
                               /\ \A i \in 1 .. sof[2] : d[i] = f.data[i]
  <1>1. PICK f \in Sendable, g \in Sendable :
             /\ g.cmd = sof[1] /\ Len(g.data) = sof[2] /\ f.crc16 = crc /\ Len(f.data) = sof[2]
             /\ \A i \in 1 .. sof[2] : d[i] = f.data[i]
    BY DispatchedAsLong
  <1>2. CASE LengthTells(sof[1])
    BY <1>1, <1>2 DEF LengthTells
  <1>3. CASE Aligned
    <2>1. cur \in Sendable /\ sof = Header(cur) /\ crc = cur.crc16
      BY <1>3 DEF Aligned, AtPayload, ReadInv, RxTypeOK
    <2>2. cur.cmd = sof[1]
      BY <2>1 DEF Header
    <2>3. f.data = cur.data
      BY <1>1, <2>1, SendableAssumption
    <2> QED
      BY <1>1, <2>1, <2>2, <2>3
  <1> QED
    BY <1>2, <1>3

\* What a state frame says of a motor is what the motor is refreshed with.
LEMMA FreshAsSent ==
    ASSUME FeedbackAsSent, NEW len \in 1 .. BufLen, NEW d, NEW f \in Sendable,
           f.cmd = MODE_MOTOR_STATE2, Len(f.data) = len,
           \A i \in 1 .. len : d[i] = f.data[i],
           NEW m \in Motors
    PROVE  Fresh(len, d)[m] \in Reported(m) \cup {None}
  <1> DEFINE named == {i \in Entries(len) : IdOf(d, i) = m}
  <1>1. Fresh(len, d)[m] = IF named = {} THEN feedback[m]
                           ELSE ValueOf(d, CHOOSE i \in named : \A j \in named : j <= i)
    BY DEF Fresh
  <1>2. ASSUME NEW i \in named PROVE ValueOf(d, i) \in Reported(m)
    <2>1. i \in 1 .. BufLen /\ EntryLen * i <= len
      BY BoundsAssumption DEF Entries, EntryLen
    <2>2. EntryLen * i \in 1 .. len /\ EntryLen * (i - 1) + 1 \in 1 .. len
      BY <2>1, BoundsAssumption DEF EntryLen
    <2>3. ValueOf(d, i) = ValueOf(f.data, i) /\ IdOf(f.data, i) = m
      BY <2>2 DEF ValueOf, IdOf
    <2> QED
      BY <2>1, <2>3 DEF Reported
  <1>3. named # {} => (CHOOSE i \in named : \A j \in named : j <= i) \in named
    <2>1. Entries(len) = 1 .. (len \div EntryLen) /\ len \div EntryLen \in Nat
      BY BoundsAssumption DEF Entries, EntryLen
    <2>2. named \in SUBSET (1 .. (len \div EntryLen))
      BY <2>1
    <2> HIDE DEF named
    <2> QED
      BY <2>1, <2>2, LastEntry
  <1> QED
    BY <1>1, <1>2, <1>3 DEF FeedbackAsSent

\* Only a payload that passes changes what the rest of the program sees.
LEMMA OnlyDispatchReports ==
    ASSUME ReadInv, [RxNext]_rxVars, ~ UNCHANGED <<feedback, motors_id>>
    PROVE  /\ stage = "payload"
           /\ \E d \in Seq(ByteSet) : /\ Len(d) = BufLen
                                     /\ PayloadPasses(crc, SubSeq(d, 1, sof[2]))
                                     /\ Dispatch(sof[1], sof[2], d)
  <1>1. ASSUME stage = "payload", NEW d \in Seq(ByteSet), Len(d) = BufLen, Judge(d)
        PROVE  /\ PayloadPasses(crc, SubSeq(d, 1, sof[2]))
               /\ Dispatch(sof[1], sof[2], d)
    BY <1>1 DEF Judge
  <1>2. CASE ReadPayload
    <2> DEFINE d == [data EXCEPT ![n + 1] = Head(rest)]
    <2>1. stage = "payload" /\ Judge(d)
      BY <1>2 DEF ReadPayload, effects
    <2>2. d \in Seq(ByteSet) /\ Len(d) = BufLen
      <3>1. data \in Seq(ByteSet) /\ Len(data) = BufLen /\ n + 1 \in 1 .. Len(data)
        BY <2>1, HeaderFits, BoundsAssumption DEF ReadInv, RxTypeOK, HeaderInHand
      <3>2. Head(rest) \in ByteSet
        BY <1>2, ArrivesKeeps DEF ReadPayload, ReadInv
      <3> QED
        BY <3>1, <3>2, PutByte
    <2> HIDE DEF d
    <2> QED
      BY <1>1, <2>1, <2>2
  <1>3. CASE TimeOut
    <2>1. stage = "payload" /\ Judge(data)
      BY <1>3 DEF TimeOut, effects
    <2> QED
      BY <1>1, <2>1 DEF ReadInv, RxTypeOK
  <1>4. ASSUME Transmit \/ LoseByte \/ ReadHead \/ ReadHeader \/ ReadCrc16 \/ UNCHANGED rxVars
        PROVE  UNCHANGED <<feedback, motors_id>>
    BY <1>4 DEF Transmit, LoseByte, ReadHead, ReadHeader, ReadCrc16, rxVars, effects
  <1> QED
    BY <1>2, <1>3, <1>4 DEF RxNext, Step

\* A dispatch of what was sent leaves the motors with what was sent of them.
LEMMA FeedbackStep ==
    ASSUME ReadInv, FeedbackAsSent, [RxNext]_rxVars,
           LengthTells(MODE_MOTOR_STATE2) \/ Aligned
    PROVE  FeedbackAsSent'
  <1>1. CASE UNCHANGED <<feedback, motors_id>>
    BY <1>1 DEF FeedbackAsSent
  <1>2. CASE ~ UNCHANGED <<feedback, motors_id>>
    <2>1. stage = "payload"
      BY <1>2, OnlyDispatchReports
    <2>2. PICK d \in Seq(ByteSet) : /\ Len(d) = BufLen
                                   /\ PayloadPasses(crc, SubSeq(d, 1, sof[2]))
                                   /\ Dispatch(sof[1], sof[2], d)
      BY <1>2, OnlyDispatchReports
    <2>3. CASE sof[1] = MODE_MOTOR_STATE2
      <3>1. PICK f \in Sendable : /\ f.cmd = sof[1] /\ Len(f.data) = sof[2]
                                 /\ \A i \in 1 .. sof[2] : d[i] = f.data[i]
        BY <2>1, <2>2, <2>3, DispatchedAsSent
      <3>2. sof[2] \in 1 .. BufLen
        BY <3>1, FrameBytes
      <3>3. feedback' = Fresh(sof[2], d)
        BY <2>2, <2>3 DEF Dispatch
      <3>4. ASSUME NEW m \in Motors PROVE feedback'[m] \in Reported(m) \cup {None}
        BY <2>3, <3>1, <3>2, <3>3, FreshAsSent
      <3> QED
        BY <3>4 DEF FeedbackAsSent
    <2>4. CASE sof[1] # MODE_MOTOR_STATE2
      BY <2>2, <2>4 DEF Dispatch, FeedbackAsSent
    <2> QED
      BY <2>3, <2>4
  <1> QED
    BY <1>1, <1>2

\* A dispatch of what was sent in step confirms ids that were confirmed.
LEMMA IdsStep ==
    ASSUME ReadInv, IdsAsSent, [RxNext]_rxVars, Aligned
    PROVE  IdsAsSent'
  <1>1. CASE UNCHANGED <<feedback, motors_id>>
    BY <1>1 DEF IdsAsSent
  <1>2. CASE ~ UNCHANGED <<feedback, motors_id>>
    <2>1. stage = "payload"
      BY <1>2, OnlyDispatchReports
    <2>2. PICK d \in Seq(ByteSet) : /\ Len(d) = BufLen
                                   /\ PayloadPasses(crc, SubSeq(d, 1, sof[2]))
                                   /\ Dispatch(sof[1], sof[2], d)
      BY <1>2, OnlyDispatchReports
    <2>3. CASE sof[1] = MODE_CONF_WRITE
      <3>1. PICK f \in Sendable : /\ f.cmd = sof[1] /\ Len(f.data) = sof[2]
                                 /\ \A i \in 1 .. sof[2] : d[i] = f.data[i]
        BY <2>1, <2>2, <2>3, DispatchedAsSent
      <3>2. motors_id' = motors_id \cup {d[i] : i \in 1 .. sof[2]}
        BY <2>2, <2>3 DEF Dispatch
      <3>3. ASSUME NEW i \in 1 .. sof[2] PROVE d[i] \in Confirmed
        BY <2>3, <3>1 DEF Confirmed
      <3> QED
        BY <3>2, <3>3 DEF IdsAsSent
    <2>4. CASE sof[1] # MODE_CONF_WRITE
      BY <2>2, <2>4 DEF Dispatch, IdsAsSent
    <2> QED
      BY <2>3, <2>4
  <1> QED
    BY <1>1, <1>2

\* If a payload as long as a state frame's is one, what a motor is taken to be doing
\* is what the board once said of it, whatever bytes are lost and whatever reads
\* time out (motor::fresh_data, called from recv_1for6_42).
THEOREM FeedbackIsReported ==
    ASSUME LengthTells(MODE_MOTOR_STATE2)
    PROVE  RxSpec => []FeedbackAsSent
  <1>1. RxInit => FeedbackAsSent
    BY DEF RxInit, FeedbackAsSent
  <1>2. ReadInv /\ FeedbackAsSent /\ [RxNext]_rxVars => FeedbackAsSent'
    BY FeedbackStep
  <1> QED
    BY <1>1, <1>2, ReadSpecInv, PTL DEF RxSpec

\* The ids that payloads as long as an answer to CONF_WRITE hold: those of the
\* answers to RESET_ZERO among them.
NamedAsLong ==
    UNION {{f.data[i] : i \in 1 .. Len(f.data)} :
              f \in {h \in Sendable : \E g \in Sendable :
                        g.cmd = MODE_CONF_WRITE /\ Len(g.data) = Len(h.data)}}

\* Whatever is lost and times out, a motor counts as saved only if an answer as long
\* as one to CONF_WRITE named it: a reading out of step can take an answer to
\* RESET_ZERO for one, and nothing else (serial_driver.cpp:76-91).
THEOREM IdsAreNamed == RxSpec => [](motors_id \subseteq NamedAsLong)
  <1> DEFINE Named == motors_id \subseteq NamedAsLong
  <1>1. RxInit => Named
    BY DEF RxInit
  <1>2. ASSUME ReadInv, Named, [RxNext]_rxVars PROVE Named'
    <2>1. CASE UNCHANGED <<feedback, motors_id>>
      BY <1>2, <2>1 DEF NamedAsLong
    <2>2. CASE ~ UNCHANGED <<feedback, motors_id>>
      <3>1. stage = "payload"
        BY <1>2, <2>2, OnlyDispatchReports
      <3>2. PICK d \in Seq(ByteSet) : /\ Len(d) = BufLen
                                     /\ PayloadPasses(crc, SubSeq(d, 1, sof[2]))
                                     /\ Dispatch(sof[1], sof[2], d)
        BY <1>2, <2>2, OnlyDispatchReports
      <3>3. PICK f \in Sendable, g \in Sendable :
               /\ g.cmd = sof[1] /\ Len(g.data) = sof[2] /\ Len(f.data) = sof[2]
               /\ \A i \in 1 .. sof[2] : d[i] = f.data[i]
        BY <1>2, <3>1, <3>2, DispatchedAsLong
      <3>4. CASE sof[1] = MODE_CONF_WRITE
        <4>1. motors_id' = motors_id \cup {d[i] : i \in 1 .. sof[2]}
          BY <3>2, <3>4 DEF Dispatch
        <4>2. ASSUME NEW i \in 1 .. sof[2] PROVE d[i] \in NamedAsLong
          BY <3>3, <3>4 DEF NamedAsLong
        <4> QED
          BY <1>2, <4>1, <4>2 DEF NamedAsLong
      <3>5. CASE sof[1] # MODE_CONF_WRITE
        BY <1>2, <3>2, <3>5 DEF Dispatch, NamedAsLong
      <3> QED
        BY <3>4, <3>5
    <2> QED
      BY <2>1, <2>2
  <1> HIDE DEF Named
  <1>3. ReadInv /\ Named /\ [RxNext]_rxVars => Named'
    BY <1>2
  <1>4. RxSpec => []Named
    BY <1>1, <1>3, ReadSpecInv, PTL DEF RxSpec
  <1> QED
    BY <1>4 DEF Named

\* A frame that is dispatched has the command of one frame the board sends and the
\* payload of one as long (serial_driver.cpp:59-69); if the length tells the command,
\* it is one the board sends.
AcceptedFits ==
    verdict.is = "accepted" =>
        \E f, g \in Sendable :
            /\ verdict.frame = [cmd |-> f.cmd, data |-> g.data]
            /\ Len(f.data) = Len(g.data)
            /\ LengthTells(f.cmd) => g.cmd = f.cmd

LEMMA JudgeFits ==
    ASSUME ReadInv, stage = "payload", NEW d \in Seq(ByteSet), Len(d) = BufLen, Judge(d)
    PROVE  AcceptedFits'
  <1> DEFINE p == SubSeq(d, 1, sof[2])
  <1>1. PICK f \in Sendable : sof = Header(f)
    BY DEF ReadInv, HeaderInHand, HeaderPasses
  <1>2. sof[1] = f.cmd /\ sof[2] = Len(f.data)
    BY <1>1 DEF Header
  <1>3. sof[2] \in 1 .. BufLen
    BY <1>1, <1>2, FrameBytes
  <1>4. Len(p) = sof[2]
    BY <1>3, BoundsAssumption
  <1>5. CASE PayloadPasses(crc, p)
    <2>1. PICK g \in Sendable : p = g.data
      BY <1>5 DEF PayloadPasses
    <2>2. verdict' = [is |-> "accepted", frame |-> [cmd |-> sof[1], data |-> p]]
      BY <1>5 DEF Judge
    <2>3. verdict'.frame = [cmd |-> f.cmd, data |-> g.data]
      BY <1>2, <2>1, <2>2
    <2>4. Len(f.data) = Len(g.data)
      BY <1>2, <1>4, <2>1
    <2>5. LengthTells(f.cmd) => g.cmd = f.cmd
      BY <2>4 DEF LengthTells
    <2> QED
      BY <2>3, <2>4, <2>5 DEF AcceptedFits
  <1>6. CASE ~PayloadPasses(crc, p)
    <2>1. verdict' = [is |-> "refused", frame |-> Nothing]
      BY <1>6 DEF Judge
    <2> QED
      BY <2>1 DEF AcceptedFits
  <1> QED
    BY <1>5, <1>6

LEMMA AcceptedStep == ReadInv /\ AcceptedFits /\ [RxNext]_rxVars => AcceptedFits'
  <1> SUFFICES ASSUME ReadInv, AcceptedFits, [RxNext]_rxVars PROVE AcceptedFits'
    OBVIOUS
  <1>0. UNCHANGED verdict => AcceptedFits'
    BY DEF AcceptedFits
  <1>1. CASE Transmit \/ LoseByte \/ ReadHeader \/ ReadCrc16 \/ UNCHANGED rxVars
    BY <1>0, <1>1 DEF Transmit, LoseByte, ReadHeader, ReadCrc16, rxVars, effects
  <1>2. CASE ReadHead
    <2>1. verdict' = [is |-> "none", frame |-> Nothing]
      BY <1>2 DEF ReadHead
    <2> QED
      BY <2>1 DEF AcceptedFits
  <1>3. CASE ReadPayload
    <2> DEFINE d == [data EXCEPT ![n + 1] = Head(rest)]
    <2>1. stage = "payload" /\ (Judge(d) \/ UNCHANGED verdict)
      BY <1>3 DEF ReadPayload, effects
    <2>2. d \in Seq(ByteSet) /\ Len(d) = BufLen
      <3>1. data \in Seq(ByteSet) /\ Len(data) = BufLen /\ n + 1 \in 1 .. Len(data)
        BY <2>1, HeaderFits, BoundsAssumption DEF ReadInv, RxTypeOK, HeaderInHand
      <3>2. Head(rest) \in ByteSet
        BY <1>3, ArrivesKeeps DEF ReadPayload, ReadInv
      <3> QED
        BY <3>1, <3>2, PutByte
    <2> HIDE DEF d
    <2> QED
      BY <1>0, <2>1, <2>2, JudgeFits
  <1>4. CASE TimeOut
    <2>1. UNCHANGED verdict \/ (stage = "payload" /\ Judge(data))
      BY <1>4 DEF TimeOut, effects
    <2> QED
      BY <1>0, <2>1, JudgeFits DEF ReadInv, RxTypeOK
  <1> QED
    BY <1>1, <1>2, <1>3, <1>4 DEF RxNext, Step

\* Whatever bytes are lost and whatever reads time out, and for any frames, nothing is
\* dispatched but a payload the board sends, under a command it sends with that length:
\* what AcceptedAsSent adds, that both are of the frame whose header was read, is not
\* so for every frame and every number of lost bytes.
THEOREM AcceptedIsOfTheBoard == RxSpec => []AcceptedFits
  <1>1. RxInit => AcceptedFits
    BY DEF RxInit, AcceptedFits
  <1> QED
    BY <1>1, ReadSpecInv, AcceptedStep, PTL DEF RxSpec

-----------------------------------------------------------------------------
(* The receive thread: without further faults it stays in step.            *)

\* The frame the board sent last has been dispatched as it was sent.
Taken == verdict = [is |-> "accepted", frame |-> [cmd |-> cur.cmd, data |-> cur.data]]

\* The next byte of the frame is taken.
LEMMA TakeByte ==
    ASSUME RxTypeOK, NEW k \in Nat, k < Len(Bytes(cur)), Behind(k), Arrives
    PROVE  /\ Head(rest) = Bytes(cur)[k + 1] /\ cur' = cur
           /\ Len(rest') = Len(Bytes(cur)) - (k + 1)
           /\ \A i \in 1 .. Len(rest') : rest'[i] = Bytes(cur)[(k + 1) + i]
  <1>1. rest \in Seq(ByteSet) /\ rest # <<>> /\ rest' = Tail(rest) /\ cur' = cur
    BY DEF RxTypeOK, Arrives
  <1>2. cur \in Sendable /\ Len(Bytes(cur)) \in Nat
    BY FrameBytes DEF RxTypeOK
  <1>3. Head(rest) = rest[1] /\ Len(rest') = Len(rest) - 1
        /\ \A i \in 1 .. Len(rest') : rest'[i] = rest[i + 1]
    BY <1>1, HeadTailProperties
  <1>4. Len(rest) \in Nat /\ Len(rest) >= 1
    BY <1>1, <1>2 DEF Behind
  <1>5. Head(rest) = Bytes(cur)[k + 1]
    BY <1>3, <1>4 DEF Behind
  <1>6. ASSUME NEW i \in 1 .. Len(rest') PROVE rest'[i] = Bytes(cur)[(k + 1) + i]
    <2>1. i + 1 \in 1 .. Len(rest) /\ k + (i + 1) = (k + 1) + i
      BY <1>3, <1>4
    <2>2. rest[i + 1] = Bytes(cur)[k + (i + 1)]
      BY <2>1 DEF Behind
    <2> QED
      BY <1>3, <2>1, <2>2
  <1> QED
    BY <1>1, <1>2, <1>3, <1>5, <1>6 DEF Behind

\* A frame begins, whatever the one before was.
LEMMA FrameBegins ==
    ASSUME NEW f \in Sendable, cur' = f, rest' = Bytes(f)
    PROVE  Behind(0)'
  BY FrameBytes DEF Behind

\* The payload of the frame, read whole, passes and is dispatched as it was sent.
LEMMA JudgeInStep ==
    ASSUME ReadInv, NEW d \in Seq(ByteSet), Len(d) = BufLen, Judge(d),
           sof = Header(cur), crc = cur.crc16,
           \A i \in 1 .. Len(cur.data) : d[i] = cur.data[i]
    PROVE  /\ stage' = "head"
           /\ verdict' = [is |-> "accepted", frame |-> [cmd |-> cur.cmd, data |-> cur.data]]
  <1>1. cur \in Sendable /\ sof[1] = cur.cmd /\ sof[2] = Len(cur.data)
    BY DEF ReadInv, RxTypeOK, Header
  <1>2. cur.data \in Seq(ByteSet) /\ Len(cur.data) \in 1 .. BufLen
    BY <1>1, FrameBytes
  <1> DEFINE p == SubSeq(d, 1, sof[2])
  <1>3. p = cur.data
    <2>1. p \in Seq(ByteSet) /\ Len(p) = Len(cur.data)
          /\ \A i \in 1 .. Len(p) : p[i] = d[i]
      BY <1>1, <1>2, BoundsAssumption
    <2> HIDE DEF p
    <2>2. \A i \in 1 .. Len(p) : p[i] = cur.data[i]
      BY <2>1
    <2> QED
      BY <1>2, <2>1, <2>2, SeqEqual
  <1>4. PayloadPasses(crc, p)
    BY <1>1, <1>3 DEF PayloadPasses
  <1> HIDE DEF p
  <1> QED
    BY <1>1, <1>3, <1>4 DEF Judge, p

LEMMA StaysAligned ==
    ReadInv /\ Aligned /\ [RxNext]_rxVars /\ UNCHANGED <<lost, stalls>> =>
        /\ Aligned'
        /\ stage' = "head" /\ rest' = <<>> => Taken' \/ UNCHANGED <<stage, rest, cur, verdict>>
  <1> DEFINE Goal ==
        /\ Aligned'
        /\ stage' = "head" /\ rest' = <<>> => Taken' \/ UNCHANGED <<stage, rest, cur, verdict>>
  <1> SUFFICES ASSUME ReadInv, Aligned, [RxNext]_rxVars, UNCHANGED <<lost, stalls>> PROVE Goal
    OBVIOUS
  <1>0. RxTypeOK /\ cur \in Sendable /\ n \in Nat /\ lost \in Nat /\ stalls \in Nat
    BY BoundsAssumption DEF ReadInv, RxTypeOK
  <1> DEFINE L == Len(cur.data)
  <1>f. /\ L \in 1 .. BufLen /\ L \in Nat /\ Len(Bytes(cur)) = 7 + L
        /\ Header(cur) \in Seq(ByteSet) /\ Len(Header(cur)) = 4 /\ Header(cur)[2] = L
        /\ cur.crc16 \in Seq(ByteSet) /\ Len(cur.crc16) = 2
        /\ Bytes(cur)[1] = HeadByte
        /\ \A i \in 1 .. 4 : Bytes(cur)[1 + i] = Header(cur)[i]
        /\ \A i \in 1 .. 2 : Bytes(cur)[5 + i] = cur.crc16[i]
        /\ \A i \in 1 .. L : Bytes(cur)[7 + i] = cur.data[i]
    BY <1>0, FrameBytes, BoundsAssumption
  <1> HIDE DEF L
  <1>1. CASE Transmit
    <2>1. PICK f \in Sendable : cur' = f /\ rest' = Bytes(f)
      BY <1>1 DEF Transmit
    <2>2. Behind(0)' /\ rest = <<>> /\ stage' = stage
      BY <1>1, <2>1, FrameBegins DEF Transmit, read
    <2>3. Len(rest) = 0
      BY <2>2
    <2>4. ~ AtHeader /\ ~ AtCrc16 /\ ~ AtPayload
      BY <1>0, <1>f, <2>3 DEF AtHeader, AtCrc16, AtPayload, Behind, L
    <2>5. stage = "head"
      BY <1>0, <2>2, <2>4 DEF Aligned, RxTypeOK
    <2>6. rest' # <<>>
      <3>1. Len(Bytes(f)) >= 7
        BY FrameBytes, BoundsAssumption
      <3> QED
        BY <2>1, <3>1
    <2> QED
      BY <2>2, <2>5, <2>6 DEF Aligned, AtHead
  <1>2. CASE LoseByte
    BY <1>0, <1>2 DEF LoseByte
  <1>3. CASE ReadHead
    <2>1. /\ stage = "head" /\ Arrives /\ n' = 0
          /\ stage' = IF IsHead(Head(rest)) THEN "header" ELSE "head"
      BY <1>3 DEF ReadHead
    <2>2. rest # <<>>
      BY <2>1 DEF Arrives
    <2>3. Behind(0)
      BY <2>1, <2>2 DEF Aligned, AtHead
    <2>4. /\ Head(rest) = Bytes(cur)[1] /\ cur' = cur
          /\ Len(rest') = Len(Bytes(cur)) - 1
          /\ \A i \in 1 .. Len(rest') : rest'[i] = Bytes(cur)[1 + i]
      <3>1. 0 \in Nat /\ 0 < Len(Bytes(cur)) /\ 0 + 1 = 1
        BY <1>f
      <3> QED
        BY <1>0, <2>1, <2>3, <3>1, TakeByte
    <2>5. stage' = "header"
      BY <1>f, <2>1, <2>4 DEF IsHead
    <2>6. AtHeader'
      BY <2>1, <2>4 DEF AtHeader, Behind
    <2> QED
      BY <2>5, <2>6 DEF Aligned
  <1>4. CASE ReadHeader
    <2> DEFINE h == [sof EXCEPT ![n + 1] = Head(rest)]
    <2>1. stage = "header" /\ Arrives
      BY <1>4 DEF ReadHeader
    <2>2. n < 4 /\ Behind(1 + n) /\ \A i \in 1 .. n : sof[i] = Header(cur)[i]
      BY <2>1 DEF Aligned, AtHeader
    <2>3. /\ Head(rest) = Bytes(cur)[(1 + n) + 1] /\ cur' = cur
          /\ Len(rest') = Len(Bytes(cur)) - ((1 + n) + 1)
          /\ \A i \in 1 .. Len(rest') : rest'[i] = Bytes(cur)[((1 + n) + 1) + i]
      <3>1. 1 + n \in Nat /\ 1 + n < Len(Bytes(cur))
        BY <1>0, <1>f, <2>2
      <3>2. RxTypeOK /\ Behind(1 + n) /\ Arrives
        BY <1>0, <2>1, <2>2
      <3> QED
        BY <3>1, <3>2, TakeByte
    <2>4. h \in Seq(ByteSet) /\ Len(h) = 4 /\ \A i \in 1 .. n + 1 : h[i] = Header(cur)[i]
      <3>1. sof \in Seq(ByteSet) /\ Len(sof) = 4 /\ n + 1 \in 1 .. Len(sof)
        BY <1>0, <2>2 DEF RxTypeOK
      <3>2. Head(rest) \in ByteSet
        BY <1>0, <2>1, ArrivesKeeps
      <3> HIDE DEF h
      <3>3. /\ h \in Seq(ByteSet) /\ Len(h) = Len(sof)
            /\ \A j \in 1 .. Len(sof) : h[j] = IF j = n + 1 THEN Head(rest) ELSE sof[j]
        <4>1. h = [sof EXCEPT ![n + 1] = Head(rest)]
          BY DEF h
        <4>2. sof \in Seq(ByteSet) /\ n + 1 \in 1 .. Len(sof)
          BY <3>1
        <4> QED
          BY <3>2, <4>1, <4>2, ByteIsPut
      <3>4. Head(rest) = Header(cur)[n + 1]
        <4>1. n + 1 \in 1 .. 4 /\ (1 + n) + 1 = 1 + (n + 1)
          BY <1>0, <2>2
        <4> QED
          BY <1>f, <2>3, <4>1
      <3> QED
        BY <1>0, <2>2, <3>1, <3>3, <3>4
    <2>5. CASE n + 1 = 4
      <3>1. HeaderRead(h)
        BY <1>4, <2>5 DEF ReadHeader
      <3> HIDE DEF h
      <3>2. h = Header(cur)
        <4>1. \A i \in 1 .. Len(h) : h[i] = Header(cur)[i]
          BY <2>4, <2>5
        <4> QED
          BY <1>f, <2>4, <4>1, SeqEqual
      <3>3. HeaderPasses(h)
        BY <1>0, <3>2 DEF HeaderPasses
      <3>4. sof' = Header(cur) /\ n' = 0 /\ stage' = "crc16"
        BY <3>1, <3>2, <3>3 DEF HeaderRead
      <3>5. (1 + n) + 1 = 5 + n' /\ n' < 2 /\ 1 .. n' = {}
        BY <1>0, <2>5, <3>4
      <3>6. AtCrc16'
        BY <2>3, <3>4, <3>5 DEF AtCrc16, Behind
      <3> QED
        BY <3>4, <3>6 DEF Aligned
    <2>6. CASE n + 1 # 4
      <3>1. sof' = h /\ n' = n + 1 /\ stage' = "header"
        BY <1>4, <2>1, <2>6 DEF ReadHeader
      <3> HIDE DEF h
      <3>2. (1 + n) + 1 = 1 + n' /\ n' < 4
        BY <1>0, <2>2, <2>6, <3>1
      <3>3. AtHeader'
        BY <2>3, <2>4, <3>1, <3>2 DEF AtHeader, Behind
      <3> QED
        BY <3>1, <3>3 DEF Aligned
    <2> QED
      BY <2>5, <2>6
  <1>5. CASE ReadCrc16
    <2>1. /\ stage = "crc16" /\ Arrives /\ sof' = sof /\ data' = data
          /\ crc' = [crc EXCEPT ![n + 1] = Head(rest)] /\ n' = (n + 1) % 2
          /\ stage' = IF n + 1 = 2 THEN "payload" ELSE "crc16"
      BY <1>5 DEF ReadCrc16, Arrives
    <2>2. n < 2 /\ Behind(5 + n) /\ sof = Header(cur) /\ \A i \in 1 .. n : crc[i] = cur.crc16[i]
      BY <2>1 DEF Aligned, AtCrc16
    <2>3. /\ Head(rest) = Bytes(cur)[(5 + n) + 1] /\ cur' = cur
          /\ Len(rest') = Len(Bytes(cur)) - ((5 + n) + 1)
          /\ \A i \in 1 .. Len(rest') : rest'[i] = Bytes(cur)[((5 + n) + 1) + i]
      <3>1. 5 + n \in Nat /\ 5 + n < Len(Bytes(cur))
        BY <1>0, <1>f, <2>2
      <3>2. RxTypeOK /\ Behind(5 + n) /\ Arrives
        BY <1>0, <2>1, <2>2
      <3> QED
        BY <3>1, <3>2, TakeByte
    <2>4. /\ crc' \in Seq(ByteSet) /\ Len(crc') = 2
          /\ \A i \in 1 .. n + 1 : crc'[i] = cur.crc16[i]
      <3>1. crc \in Seq(ByteSet) /\ Len(crc) = 2 /\ n + 1 \in 1 .. Len(crc)
        BY <1>0, <2>2 DEF RxTypeOK
      <3>2. Head(rest) \in ByteSet
        BY <1>0, <2>1, ArrivesKeeps
      <3>3. /\ crc' \in Seq(ByteSet) /\ Len(crc') = Len(crc)
            /\ \A j \in 1 .. Len(crc) : crc'[j] = IF j = n + 1 THEN Head(rest) ELSE crc[j]
        <4>1. crc' = [crc EXCEPT ![n + 1] = Head(rest)]
          BY <2>1
        <4> QED
          BY <3>1, <3>2, <4>1, ByteIsPut
      <3>4. Head(rest) = cur.crc16[n + 1]
        <4>1. n + 1 \in 1 .. 2 /\ (5 + n) + 1 = 5 + (n + 1)
          BY <1>0, <2>2
        <4> QED
          BY <1>f, <2>3, <4>1
      <3> QED
        BY <1>0, <2>2, <3>1, <3>3, <3>4
    <2>5. CASE n = 1
      <3>1. stage' = "payload" /\ n' = 0
        BY <2>1, <2>5
      <3>2. crc' = cur.crc16
        <4>1. \A i \in 1 .. Len(crc') : crc'[i] = cur.crc16[i]
          BY <2>4, <2>5
        <4>2. crc' \in Seq(ByteSet) /\ cur.crc16 \in Seq(ByteSet) /\ Len(crc') = Len(cur.crc16)
          BY <1>f, <2>4
        <4> QED
          BY <4>1, <4>2, SeqEqual
      <3>3. (5 + n) + 1 = 7 + n' /\ n' < L /\ 1 .. n' = {}
        BY <1>f, <2>5, <3>1
      <3>4. AtPayload'
        BY <2>1, <2>2, <2>3, <3>2, <3>3 DEF AtPayload, Behind, L
      <3> QED
        BY <3>1, <3>4 DEF Aligned
    <2>6. CASE n = 0
      <3>1. stage' = "crc16" /\ n' = 1
        BY <2>1, <2>6
      <3>2. AtCrc16'
        BY <2>1, <2>2, <2>3, <2>4, <2>6, <3>1 DEF AtCrc16, Behind
      <3> QED
        BY <3>1, <3>2 DEF Aligned
    <2> QED
      BY <1>0, <2>2, <2>5, <2>6
  <1>6. CASE ReadPayload
    <2> DEFINE d == [data EXCEPT ![n + 1] = Head(rest)]
    <2>1. stage = "payload" /\ Arrives
      BY <1>6 DEF ReadPayload
    <2>2. /\ n < L /\ Behind(7 + n) /\ sof = Header(cur) /\ crc = cur.crc16
          /\ \A i \in 1 .. n : data[i] = cur.data[i]
      BY <2>1 DEF Aligned, AtPayload, L
    <2>3. /\ Head(rest) = Bytes(cur)[(7 + n) + 1] /\ cur' = cur
          /\ Len(rest') = Len(Bytes(cur)) - ((7 + n) + 1)
          /\ \A i \in 1 .. Len(rest') : rest'[i] = Bytes(cur)[((7 + n) + 1) + i]
      <3>1. 7 + n \in Nat /\ 7 + n < Len(Bytes(cur))
        BY <1>0, <1>f, <2>2
      <3>2. RxTypeOK /\ Behind(7 + n) /\ Arrives
        BY <1>0, <2>1, <2>2
      <3> QED
        BY <3>1, <3>2, TakeByte
    <2>4. d \in Seq(ByteSet) /\ Len(d) = BufLen /\ \A i \in 1 .. n + 1 : d[i] = cur.data[i]
      <3>1. data \in Seq(ByteSet) /\ Len(data) = BufLen /\ n + 1 \in 1 .. Len(data)
        BY <1>0, <1>f, <2>2, BoundsAssumption DEF RxTypeOK
      <3>2. Head(rest) \in ByteSet
        BY <1>0, <2>1, ArrivesKeeps
      <3> HIDE DEF d
      <3>3. /\ d \in Seq(ByteSet) /\ Len(d) = Len(data)
            /\ \A j \in 1 .. Len(data) : d[j] = IF j = n + 1 THEN Head(rest) ELSE data[j]
        BY <3>1, <3>2, ByteIsPut DEF d
      <3>4. Head(rest) = cur.data[n + 1]
        <4>1. n + 1 \in 1 .. L /\ (7 + n) + 1 = 7 + (n + 1)
          BY <1>0, <1>f, <2>2
        <4> QED
          BY <1>f, <2>3, <4>1
      <3>5. \A i \in 1 .. n + 1 : i \in 1 .. Len(data) /\ (i = n + 1 \/ i \in 1 .. n)
        BY <1>0, <3>1, BoundsAssumption
      <3> QED
        BY <2>2, <3>1, <3>3, <3>4, <3>5
    <2>5. CASE n + 1 = sof[2]
      <3>1. Judge(d) /\ n + 1 = L
        BY <1>6, <1>f, <2>2, <2>5 DEF ReadPayload
      <3> HIDE DEF d
      <3>2. /\ stage' = "head"
            /\ verdict' = [is |-> "accepted", frame |-> [cmd |-> cur.cmd, data |-> cur.data]]
        BY <2>2, <2>4, <3>1, JudgeInStep DEF L
      <3>3. rest' = <<>>
        <4>1. rest' \in Seq(ByteSet) /\ Len(rest') = 0
          BY <1>0, <1>f, <2>1, <2>3, <3>1, ArrivesKeeps
        <4> QED
          BY <4>1, EmptySeq
      <3> QED
        BY <2>3, <3>2, <3>3 DEF Aligned, AtHead, Taken
    <2>6. CASE n + 1 # sof[2]
      <3>1. data' = d /\ n' = n + 1 /\ UNCHANGED <<stage, sof, crc>>
        BY <1>6, <2>6 DEF ReadPayload
      <3> HIDE DEF d
      <3>2. (7 + n) + 1 = 7 + n' /\ n' < L
        BY <1>0, <1>f, <2>2, <2>6, <3>1
      <3>3. AtPayload'
        BY <2>2, <2>3, <2>4, <3>1, <3>2 DEF AtPayload, Behind, L
      <3> QED
        BY <2>1, <3>1, <3>3 DEF Aligned
    <2> QED
      BY <2>5, <2>6
  <1>7. CASE TimeOut
    BY <1>0, <1>7 DEF TimeOut
  <1>8. CASE UNCHANGED rxVars
    BY <1>8 DEF rxVars, io, read, effects, Aligned, AtHead, AtHeader, AtCrc16, AtPayload, Behind
  <1> QED
    BY <1>1, <1>2, <1>3, <1>4, <1>5, <1>6, <1>7, <1>8 DEF RxNext, Step

\* An aligned thread that has read all there is waits for a head.
LEMMA AllReadIsHead == ReadInv /\ Aligned => (rest = <<>> => stage = "head")
  <1> SUFFICES ASSUME ReadInv, Aligned, rest = <<>> PROVE stage = "head"
    OBVIOUS
  <1>1. Len(rest) = 0 /\ Len(Bytes(cur)) = 7 + Len(cur.data) /\ Len(cur.data) \in Nat /\ n \in Nat
    BY FrameBytes, BoundsAssumption DEF ReadInv, RxTypeOK
  <1>2. ~ AtHeader /\ ~ AtCrc16 /\ ~ AtPayload
    BY <1>1 DEF Behind, AtHeader, AtCrc16, AtPayload
  <1> QED
    BY <1>2 DEF Aligned, ReadInv, RxTypeOK

\* Once the thread is aligned, only a further fault can misalign it: every frame
\* that ends before that has been dispatched as it was sent, whatever was lost
\* and left in the buffers before (serial_driver.cpp:50-69).  The alignment is
\* there as soon as the thread waits for a head and no byte is pending.
THEOREM AlignmentIsKept ==
    RxSpec =>
      /\ [](stage = "head" /\ rest = <<>> => Aligned)
      /\ [][Aligned /\ UNCHANGED <<lost, stalls>> =>
             /\ Aligned'
             /\ rest # <<>> /\ rest' = <<>> => Taken']_rxVars
  <1>1. stage = "head" /\ rest = <<>> => Aligned
    BY DEF Aligned, AtHead
  <1>2. ReadInv' /\ Aligned' => (rest = <<>> => stage = "head")'
    BY AllReadIsHead, PTL
  <1>3. ReadInv /\ ReadInv' /\ [RxNext]_rxVars =>
          [Aligned /\ UNCHANGED <<lost, stalls>> =>
             /\ Aligned'
             /\ rest # <<>> /\ rest' = <<>> => Taken']_rxVars
    BY <1>2, StaysAligned
  <1> QED
    BY <1>1, <1>3, ReadSpecInv, PTL DEF RxSpec

\* Without faults the thread is in step, and what the board sent last is taken.
InStep == lost = 0 /\ stalls = 0 => Aligned /\ (stage = "head" /\ rest = <<>> => Taken)

LEMMA InStepKept == RxSpec => []InStep
  <1>1. RxInit => InStep
    <2> SUFFICES ASSUME RxInit PROVE InStep
      OBVIOUS
    <2>1. Behind(0)
      BY FrameBytes DEF RxInit, Behind
    <2>2. rest # <<>>
      <3>1. cur \in Sendable /\ rest = Bytes(cur)
        BY DEF RxInit
      <3>2. Len(Bytes(cur)) >= 7
        BY <3>1, FrameBytes, BoundsAssumption
      <3> QED
        BY <3>1, <3>2
    <2> QED
      BY <2>1, <2>2 DEF RxInit, Aligned, AtHead, InStep
  <1>2. ReadInv /\ InStep /\ [RxNext]_rxVars => InStep'
    <2> SUFFICES ASSUME ReadInv, InStep, [RxNext]_rxVars, lost' = 0, stalls' = 0 PROVE InStep'
      BY DEF InStep
    <2>1. UNCHANGED <<lost, stalls>>
      <3>1. lost \in Nat /\ stalls \in Nat
        BY BoundsAssumption DEF ReadInv, RxTypeOK
      <3> QED
        BY <3>1 DEF RxNext, Transmit, LoseByte, Step, ReadHead, ReadHeader, ReadCrc16,
                    ReadPayload, TimeOut, Arrives, rxVars, io
    <2>2. Aligned /\ (stage = "head" /\ rest = <<>> => Taken)
      BY <2>1 DEF InStep
    <2>3. /\ Aligned'
          /\ stage' = "head" /\ rest' = <<>> => Taken' \/ UNCHANGED <<stage, rest, cur, verdict>>
      BY <2>1, <2>2, StaysAligned
    <2> QED
      BY <2>2, <2>3 DEF Taken, InStep
  <1> QED
    BY <1>1, <1>2, ReadSpecInv, PTL DEF RxSpec

\* Without faults every frame is dispatched as it was sent, heads in its payload or
\* not, by the time its last byte has been read (serial_driver.cpp:55-69).
THEOREM FramesAreTaken == RxSpec => []EveryFrameIsTaken
  <1>1. ReadInv /\ InStep => EveryFrameIsTaken
    <2> SUFFICES ASSUME ReadInv, InStep, lost = 0, stalls = 0, rest = <<>> PROVE Taken
      BY DEF EveryFrameIsTaken, Taken
    <2> QED
      BY AllReadIsHead DEF InStep
  <1> QED
    BY <1>1, ReadSpecInv, InStepKept, PTL

\* In step, the numbers and the saved ids are as the board sent them, and a fault
\* then adds nothing it did not send: so they are as long as there is no fault at
\* all, and for the whole of the first step that has one (serial_driver.cpp:76-135).
THEOREM EffectsAreSent ==
    RxSpec =>
      /\ [](lost = 0 /\ stalls = 0 => FeedbackAsSent /\ IdsAsSent)
      /\ [][Aligned /\ FeedbackAsSent /\ IdsAsSent => FeedbackAsSent' /\ IdsAsSent']_rxVars
  <1> DEFINE Sent == lost = 0 /\ stalls = 0 => FeedbackAsSent /\ IdsAsSent
  <1>1. RxInit => Sent
    BY DEF RxInit, FeedbackAsSent, IdsAsSent
  <1>2. ReadInv /\ [RxNext]_rxVars =>
          [Aligned /\ FeedbackAsSent /\ IdsAsSent => FeedbackAsSent' /\ IdsAsSent']_rxVars
    BY FeedbackStep, IdsStep
  <1>3. ReadInv /\ InStep /\ Sent /\ [RxNext]_rxVars => Sent'
    <2> SUFFICES ASSUME ReadInv, InStep, Sent, [RxNext]_rxVars, lost' = 0, stalls' = 0
                 PROVE  FeedbackAsSent' /\ IdsAsSent'
      OBVIOUS
    <2>1. lost = 0 /\ stalls = 0
      <3>1. lost \in Nat /\ stalls \in Nat
        BY BoundsAssumption DEF ReadInv, RxTypeOK
      <3> QED
        BY <3>1 DEF RxNext, Transmit, LoseByte, Step, ReadHead, ReadHeader, ReadCrc16,
                    ReadPayload, TimeOut, Arrives, rxVars, io
    <2>2. Aligned
      BY <2>1 DEF InStep
    <2> QED
      BY <2>1, <2>2, FeedbackStep, IdsStep
  <1> HIDE DEF Sent
  <1>4. RxSpec => []Sent
    BY <1>1, <1>3, ReadSpecInv, InStepKept, PTL DEF RxSpec
  <1>5. RxSpec => []Sent /\ [][Aligned /\ FeedbackAsSent /\ IdsAsSent => FeedbackAsSent' /\ IdsAsSent']_rxVars
    BY <1>2, <1>4, ReadSpecInv, PTL DEF RxSpec
  <1> QED
    BY <1>5 DEF Sent
=============================================================================
