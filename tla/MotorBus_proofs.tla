-------------------------- MODULE MotorBus_proofs --------------------------
(***************************************************************************)
(* What is proved of the command path, for any motors, ports, setpoints    *)
(* and function version: the type invariant, that resending the buffers is *)
(* harmless, that a latched limit lets no motor be given a motion, that the *)
(* arm stays within its limits, that only commanded motors move, that the  *)
(* exit halts them, and that the whole implements Actuators.               *)
(***************************************************************************)
EXTENDS MotorBus, TLAPS

\* The mode of the state poll; all the steps below need of it.
LEMMA PollModeIsQuery ==
    ASSUME NEW md, md = IF FunV >= 4 THEN "MOTOR_STATE2" ELSE "MOTOR_STATE"
    PROVE  md \in Mode /\ md \notin MotionMode /\ md \notin HaltMode
  BY DEF Mode, MotionMode, HaltMode, OtherMode

LEMMA ModesDisjoint ==
    /\ \A md \in MotionMode : md \in Mode /\ md \notin HaltMode
    /\ \A md \in HaltMode : md \in Mode /\ md \notin MotionMode
    /\ \A md \in OtherMode : md \in Mode /\ md \notin MotionMode /\ md \notin HaltMode
  BY DEF Mode, MotionMode, HaltMode, OtherMode

\* Sending keeps act a function from motors to orders.
LEMMA SentType ==
    ASSUME TypeOK,
           NEW c \in [Port -> Mode],
           NEW s \in [Motor -> Setpoint \cup {NOP}],
           NEW a \in [Motor -> [mode : Mode, val : Setpoint \cup {NOP}]]
    PROVE  /\ Sent(c, s, a) \in [Motor -> [mode : Mode, val : Setpoint \cup {NOP}]]
           /\ GatedSent(c, s, a) \in [Motor -> [mode : Mode, val : Setpoint \cup {NOP}]]
  <1>1. ASSUME NEW m \in Motor
        PROVE  Obey(c[PortOf[m]], s[m], a[m]) \in [mode : Mode, val : Setpoint \cup {NOP}]
    <2>1. c[PortOf[m]] \in Mode
      BY <1>1, BusAssumption
    <2>2. s[m] \in Setpoint \cup {NOP} /\ NOP \in Setpoint \cup {NOP}
      BY <1>1
    <2> QED
      BY <1>1, <2>1, <2>2 DEF Obey, Order
  <1> QED
    BY <1>1 DEF Sent, GatedSent

LEMMA BroadcastType ==
    ASSUME NEW md \in Mode
    PROVE  BroadcastMode(md) \in [Port -> Mode]
  BY DEF BroadcastMode

\* A call that writes slots and sends keeps the types.
LEMMA CommandType ==
    ASSUME TypeOK,
           NEW md \in Mode, NEW S \in SUBSET Motor, NEW val \in [S -> Setpoint],
           Command(md, S, val)
    PROVE  TypeOK'
  <1>1. cmd' \in [Port -> Mode]
    BY DEF TypeOK, Command, ModeAfter
  <1>2. slot' \in [Motor -> Setpoint \cup {NOP}]
    BY DEF TypeOK, Command, SlotAfter
  <1>3. act' \in [Motor -> [mode : Mode, val : Setpoint \cup {NOP}]]
    <2>1. act \in [Motor -> [mode : Mode, val : Setpoint \cup {NOP}]]
      BY DEF TypeOK
    <2>2. GatedSent(cmd', slot', act) \in [Motor -> [mode : Mode, val : Setpoint \cup {NOP}]]
      BY <1>1, <1>2, <2>1, SentType
    <2> QED
      BY <2>2 DEF Command
  <1> QED
    BY <1>1, <1>2, <1>3 DEF TypeOK, Command

\* So does a broadcast that is sent twice.
LEMMA StopAllType ==
    ASSUME TypeOK, NEW md \in Mode, StopAll(md)
    PROVE  /\ cmd' \in [Port -> Mode]
           /\ act' \in [Motor -> [mode : Mode, val : Setpoint \cup {NOP}]]
  <1>1. cmd' \in [Port -> Mode]
    BY BroadcastType DEF StopAll
  <1>2. slot \in [Motor -> Setpoint \cup {NOP}]
        /\ act \in [Motor -> [mode : Mode, val : Setpoint \cup {NOP}]]
    BY DEF TypeOK
  <1>3. Sent(cmd', slot, act) \in [Motor -> [mode : Mode, val : Setpoint \cup {NOP}]]
    BY <1>1, <1>2, SentType
  <1>4. GatedSent(cmd', slot, Sent(cmd', slot, act))
          \in [Motor -> [mode : Mode, val : Setpoint \cup {NOP}]]
    BY <1>1, <1>2, <1>3, SentType
  <1> QED
    BY <1>1, <1>4 DEF StopAll

\* A broadcast sent once keeps the types of what it changes.
LEMMA BroadcastSentType ==
    ASSUME TypeOK, NEW md \in Mode, cmd' = BroadcastMode(md), act' = Sent(cmd', slot, act)
    PROVE  /\ cmd' \in [Port -> Mode]
           /\ act' \in [Motor -> [mode : Mode, val : Setpoint \cup {NOP}]]
  <1>1. cmd' \in [Port -> Mode]
    BY BroadcastType
  <1>2. slot \in [Motor -> Setpoint \cup {NOP}]
        /\ act \in [Motor -> [mode : Mode, val : Setpoint \cup {NOP}]]
    BY DEF TypeOK
  <1> QED
    BY <1>1, <1>2, SentType

-----------------------------------------------------------------------------
LEMMA InitType == Init => TypeOK
  <1> SUFFICES ASSUME Init PROVE TypeOK
    OBVIOUS
  <1>1. CASE FunV >= 2
    <2>1. cmd \in [Port -> Mode]
      BY <1>1, PollModeIsQuery DEF Init
    <2>2. act \in [Motor -> [mode : Mode, val : Setpoint \cup {NOP}]]
      BY <1>1, ModesDisjoint DEF Init, Order, HaltMode
    <2> QED
      BY <1>1, <2>1, <2>2 DEF Init, TypeOK
  <1>2. CASE ~(FunV >= 2)
    <2>1. cmd \in [Port -> Mode]
      BY <1>2 DEF Init, Mode, MotionMode, OtherMode
    <2>2. act \in [Motor -> [mode : Mode, val : Setpoint \cup {NOP}]]
      BY <1>2, ModesDisjoint, BusAssumption DEF Init, Order, MotionMode
    <2>3. slot \in [Motor -> Setpoint \cup {NOP}]
      BY <1>2, BusAssumption DEF Init
    <2> QED
      BY <2>1, <2>2, <2>3 DEF Init, TypeOK
  <1> QED
    BY <1>1, <1>2

LEMMA StepType == TypeOK /\ [Next]_vars => TypeOK'
  <1> SUFFICES ASSUME TypeOK, [Next]_vars PROVE TypeOK'
    OBVIOUS
  <1> USE DEF MotionMode, HaltMode, OtherMode, Mode
  <1>1. CASE ArmCommand
    <2>1. PICK pos \in [Arm -> Setpoint] : PosVelMaxTorque(pos) \/ PosVelTorqueKpKd(pos)
      BY <1>1 DEF ArmCommand
    <2>2. Command("POS_VEL_TQE", Arm, pos) \/ Command("POS_VEL_TQE_KP_KD_2", Arm, pos)
      BY <2>1 DEF PosVelMaxTorque, PosVelTorqueKpKd
    <2>3. Arm \in SUBSET Motor
      BY BusAssumption
    <2> QED
      BY <2>2, <2>3, CommandType
  <1>2. CASE GripperCommand
    <2>1. PICK v \in Setpoint : GripperControl(v) \/ GripperControlMIT(v)
      BY <1>2 DEF GripperCommand
    <2> DEFINE val == [m \in {Gripper} |-> v]
    <2>2. val \in [{Gripper} -> Setpoint] /\ {Gripper} \in SUBSET Motor
      BY BusAssumption
    <2>3. Command("POS_VEL_TQE", {Gripper}, val) \/ Command("POS_VEL_TQE_KP_KD_2", {Gripper}, val)
      BY <2>1 DEF GripperControl, GripperControlMIT
    <2> HIDE DEF val
    <2> QED
      BY <2>2, <2>3, CommandType
  <1>3. CASE SendGetMotorStateCmd
    <2>1. CASE FunV >= 2
      <3> DEFINE md == IF FunV >= 4 THEN "MOTOR_STATE2" ELSE "MOTOR_STATE"
      <3>1. /\ cmd' = BroadcastMode(md) /\ act' = Sent(cmd', slot, act)
            /\ UNCHANGED <<slot, link, posFlag, torFlag, posLatch, torLatch, running>>
        BY <1>3, <2>1 DEF SendGetMotorStateCmd
      <3>2. md \in Mode
        OBVIOUS
      <3> HIDE DEF md
      <3>3. cmd' \in [Port -> Mode] /\ act' \in [Motor -> [mode : Mode, val : Setpoint \cup {NOP}]]
        BY <3>1, <3>2, BroadcastSentType
      <3> QED
        BY <3>1, <3>3 DEF TypeOK
    <2>2. CASE ~(FunV >= 2)
      <3> DEFINE val == [m \in Motor |-> Zero]
      <3>1. Command("VELOCITY", Motor, val)
        BY <1>3, <2>2 DEF SendGetMotorStateCmd
      <3>2. val \in [Motor -> Setpoint]
        BY BusAssumption
      <3> HIDE DEF val
      <3> QED
        BY <3>1, <3>2, CommandType
    <2> QED
      BY <2>1, <2>2
  <1>4. CASE MotorSendCmd
    <2>1. /\ cmd \in [Port -> Mode] /\ slot \in [Motor -> Setpoint \cup {NOP}]
          /\ act \in [Motor -> [mode : Mode, val : Setpoint \cup {NOP}]]
      BY DEF TypeOK
    <2>2. act' \in [Motor -> [mode : Mode, val : Setpoint \cup {NOP}]]
      BY <1>4, <2>1, SentType DEF MotorSendCmd
    <2> QED
      BY <1>4, <2>2 DEF MotorSendCmd, TypeOK
  <1>5. CASE SetStop \/ SetBrake
    <2>1. StopAll("STOP") \/ StopAll("BRAKE")
      BY <1>5 DEF SetStop, SetBrake
    <2>2. cmd' \in [Port -> Mode] /\ act' \in [Motor -> [mode : Mode, val : Setpoint \cup {NOP}]]
      BY <2>1, StopAllType
    <2> QED
      BY <1>5, <2>2 DEF SetStop, SetBrake, TypeOK
  <1>6. CASE SetReset \/ SetTimeout
    <2>1. /\ cmd' = BroadcastMode("RESET") \/ cmd' = BroadcastMode("TIME_OUT")
          /\ act' = Sent(cmd', slot, act)
      BY <1>6 DEF SetReset, SetTimeout
    <2>2. cmd' \in [Port -> Mode] /\ act' \in [Motor -> [mode : Mode, val : Setpoint \cup {NOP}]]
      BY <2>1, BroadcastSentType
    <2> QED
      BY <1>6, <2>2 DEF SetReset, SetTimeout, TypeOK
  <1>7. ASSUME NEW m \in Motor, SetResetZero(m) PROVE TypeOK'
    <2>1. BroadcastMode("RESET") \in [Port -> Mode]
      BY BroadcastType
    <2>2. PICK last \in {"RESET_ZERO", "CONF_WRITE"} :
            cmd' = [BroadcastMode("RESET") EXCEPT ![PortOf[m]] = last]
      BY <1>7 DEF SetResetZero
    <2>3. cmd' \in [Port -> Mode]
      BY <2>1, <2>2
    <2>4. /\ slot \in [Motor -> Setpoint \cup {NOP}]
          /\ act \in [Motor -> [mode : Mode, val : Setpoint \cup {NOP}]]
      BY DEF TypeOK
    <2>5. Sent(BroadcastMode("RESET"), slot, act) \in [Motor -> [mode : Mode, val : Setpoint \cup {NOP}]]
      BY <2>1, <2>4, SentType
    <2>6. act' \in [Motor -> [mode : Mode, val : Setpoint \cup {NOP}]]
      BY <1>7, <2>3, <2>4, <2>5, SentType DEF SetResetZero
    <2> QED
      BY <1>7, <2>3, <2>6 DEF SetResetZero, TypeOK
  <1>8. CASE DetectMotorLimit
    <2>1. StopAll("STOP")
      BY <1>8 DEF DetectMotorLimit
    <2>2. cmd' \in [Port -> Mode] /\ act' \in [Motor -> [mode : Mode, val : Setpoint \cup {NOP}]]
      BY <2>1, StopAllType
    <2>3. posLatch' \in BOOLEAN /\ torLatch' \in BOOLEAN
      BY <1>8 DEF DetectMotorLimit, TypeOK
    <2> QED
      BY <1>8, <2>2, <2>3 DEF DetectMotorLimit, TypeOK
  <1>9. CASE Destroy
    <2>1. CASE ExitBrake
      <3>1. StopAll("BRAKE")
        BY <1>9, <2>1 DEF Destroy
      <3>2. cmd' \in [Port -> Mode] /\ act' \in [Motor -> [mode : Mode, val : Setpoint \cup {NOP}]]
        BY <3>1, StopAllType
      <3> QED
        BY <1>9, <3>2 DEF Destroy, TypeOK
    <2>2. CASE ~ExitBrake
      <3> DEFINE c == BroadcastMode("STOP")
                 a1 == Sent(c, slot, act)
                 a2 == GatedSent(c, slot, a1)
      <3>1. c \in [Port -> Mode] /\ BroadcastMode("RESET") \in [Port -> Mode]
        BY BroadcastType
      <3>2. cmd' = BroadcastMode("RESET") /\ act' = Sent(cmd', slot, a2)
        BY <1>9, <2>2 DEF Destroy
      <3>3. /\ slot \in [Motor -> Setpoint \cup {NOP}]
            /\ act \in [Motor -> [mode : Mode, val : Setpoint \cup {NOP}]]
        BY DEF TypeOK
      <3> HIDE DEF c
      <3>4. a1 \in [Motor -> [mode : Mode, val : Setpoint \cup {NOP}]]
        BY <3>1, <3>3, SentType
      <3> HIDE DEF a1
      <3>5. a2 \in [Motor -> [mode : Mode, val : Setpoint \cup {NOP}]]
        BY <3>1, <3>3, <3>4, SentType
      <3> HIDE DEF a2
      <3>6. act' \in [Motor -> [mode : Mode, val : Setpoint \cup {NOP}]]
        BY <3>1, <3>2, <3>3, <3>5, SentType
      <3> QED
        BY <1>9, <3>1, <3>2, <3>6 DEF Destroy, TypeOK
    <2> QED
      BY <2>1, <2>2
  <1>10. ASSUME NEW m \in Motor, NEW op \in BOOLEAN, NEW ot \in BOOLEAN, FreshData(m, op, ot)
         PROVE  TypeOK'
    BY <1>10 DEF FreshData, TypeOK
  <1>11. ASSUME NEW p \in Port, LinkDown(p) PROVE TypeOK'
    BY <1>11 DEF LinkDown, TypeOK
  <1>12. ASSUME NEW U \in SUBSET Port, Reconnect(U) PROVE TypeOK'
    <2>1. cmd' \in [Port -> Mode]
      BY <1>12, BroadcastType DEF Reconnect
    <2>2. slot' \in [Motor -> Setpoint \cup {NOP}]
      BY <1>12 DEF Reconnect
    <2> QED
      BY <1>12, <2>1, <2>2 DEF Reconnect, TypeOK
  <1>13. CASE UNCHANGED vars
    BY <1>13 DEF vars, TypeOK
  <1> QED
    BY <1>1, <1>2, <1>3, <1>4, <1>5, <1>6, <1>7, <1>8, <1>9, <1>10, <1>11, <1>12, <1>13
    DEF Next, Halt

\* The variables of the command path keep their types (robot, canport, motor).
THEOREM TypeCorrect == Spec => []TypeOK
  BY InitType, StepType, PTL DEF Spec

-----------------------------------------------------------------------------
(* The inductive invariant.  ArmWithinLimits alone is not inductive: the   *)
(* frame of a gripper command carries the arm's slots too.  What makes it  *)
(* harmless is that those slots only repeat what the arm is already doing. *)

Mirrored ==
    running /\ ~Latched =>
        \A m \in Motor : link[PortOf[m]] => Obey(cmd[PortOf[m]], slot[m], act[m]) = act[m]

IInv == TypeOK /\ Mirrored /\ ArmWithinLimits

LEMMA MirroredMeansHarmless == TypeOK /\ Mirrored => ResendIsHarmless
  <1> SUFFICES ASSUME TypeOK, Mirrored, running, ~Latched
               PROVE  GatedSent(cmd, slot, act) = act
    BY DEF ResendIsHarmless
  <1>1. act = [m \in Motor |-> act[m]]
    BY DEF TypeOK
  <1>2. \A m \in Motor :
          (IF link[PortOf[m]] THEN Obey(cmd[PortOf[m]], slot[m], act[m]) ELSE act[m]) = act[m]
    BY DEF Mirrored
  <1> QED
    BY <1>1, <1>2 DEF GatedSent, Sent

\* A motor that gets the same frame twice ends where the first one left it.
LEMMA ObeyTwice ==
    ASSUME NEW c, NEW s, NEW o
    PROVE  Obey(c, s, Obey(c, s, o)) = Obey(c, s, o)
  BY DEF Obey

\* Motor by motor, a command reaches the motors it addresses and no other.
LEMMA CommandEffect ==
    ASSUME IInv, running, NEW md \in MotionMode,
           NEW S \in SUBSET Motor, NEW val \in [S -> Setpoint], Command(md, S, val),
           NEW m \in Motor
    PROVE  /\ m \notin S => act'[m] = act[m]
           /\ m \in S => act'[m] = IF link[PortOf[m]] /\ ~Latched
                                  THEN Order(md, val[m]) ELSE act[m]
           /\ Latched => act'[m] = act[m]
  <1> DEFINE p == PortOf[m]
  <1>1. p \in Port
    BY BusAssumption
  <1>2. CASE Latched
    BY <1>2 DEF Command, GatedSent
  <1>3. CASE ~Latched
    <2>1. act'[m] = IF link[p] THEN Obey(cmd'[p], slot'[m], act[m]) ELSE act[m]
      BY <1>3 DEF Command, GatedSent, Sent
    <2>2. cmd'[p] = (IF p \in Touched(S) THEN md ELSE cmd[p])
      BY <1>1 DEF Command, ModeAfter
    <2>3. CASE m \in S
      <3>1. p \in Touched(S)
        BY <2>3 DEF Touched
      <3>2. slot'[m] = val[m] /\ val[m] # NOP
        BY <2>3, BusAssumption DEF Command, SlotAfter
      <3> QED
        BY <1>3, <2>1, <2>2, <2>3, <3>1, <3>2 DEF Obey
    <2>4. CASE m \notin S
      <3>1. link[p] => Obey(cmd[p], slot[m], act[m]) = act[m]
        BY <1>3 DEF IInv, Mirrored
      <3>2. slot'[m] = (IF p \in Touched(S) /\ cmd[p] # md THEN NOP ELSE slot[m])
        BY <2>4 DEF Command, SlotAfter
      <3>3. CASE p \in Touched(S) /\ cmd[p] # md
        <4>1. cmd'[p] = md /\ slot'[m] = NOP
          BY <2>2, <3>2, <3>3
        <4>2. Obey(md, NOP, act[m]) = act[m]
          BY ModesDisjoint DEF Obey
        <4> QED
          BY <1>3, <2>1, <2>4, <4>1, <4>2
      <3>4. CASE ~(p \in Touched(S) /\ cmd[p] # md)
        <4>1. cmd'[p] = cmd[p] /\ slot'[m] = slot[m]
          BY <2>2, <3>2, <3>4
        <4> QED
          BY <1>3, <2>1, <2>4, <3>1, <4>1
      <3> QED
        BY <3>3, <3>4
    <2> QED
      BY <2>3, <2>4
  <1> QED
    BY <1>2, <1>3

\* After a command the buffers mirror the motors again.
LEMMA CommandMirrored ==
    ASSUME IInv, running, NEW md \in MotionMode,
           NEW S \in SUBSET Motor, NEW val \in [S -> Setpoint], Command(md, S, val)
    PROVE  Mirrored'
  <1>1. link' = link /\ (Latched' <=> Latched) /\ running' = running
    BY DEF Command, Latched
  <1> SUFFICES ASSUME ~Latched, NEW m \in Motor, link[PortOf[m]]
               PROVE  Obey(cmd'[PortOf[m]], slot'[m], act'[m]) = act'[m]
    BY <1>1 DEF Mirrored
  <1>2. act'[m] = Obey(cmd'[PortOf[m]], slot'[m], act[m])
    BY DEF Command, GatedSent, Sent
  <1> QED
    BY <1>2, ObeyTwice

\* A halting broadcast, once or twice, halts every motor it reaches.
LEMMA StopAllEffect ==
    ASSUME NEW md \in HaltMode, StopAll(md), NEW m \in Motor
    PROVE  /\ cmd'[PortOf[m]] = md
           /\ act'[m] = IF link[PortOf[m]] THEN Order(md, NOP) ELSE act[m]
  <1>1. cmd'[PortOf[m]] = md
    BY BusAssumption DEF StopAll, BroadcastMode
  <1>2. \A s, o : Obey(md, s, o) = Order(md, NOP)
    BY ModesDisjoint DEF Obey
  <1> DEFINE a1 == Sent(cmd', slot, act)
  <1>3. a1[m] = IF link[PortOf[m]] THEN Order(md, NOP) ELSE act[m]
    BY <1>1, <1>2 DEF Sent
  <1>4. act' = GatedSent(cmd', slot, a1)
    BY DEF StopAll
  <1> HIDE DEF a1
  <1>5. act'[m] = IF link[PortOf[m]] THEN Order(md, NOP) ELSE a1[m]
    BY <1>1, <1>2, <1>3, <1>4 DEF GatedSent, Sent
  <1> QED
    BY <1>1, <1>3, <1>5

\* A broadcast sent once: query and configuration frames leave the motors
\* alone, halting ones halt them.
LEMMA BroadcastEffect ==
    ASSUME NEW md \in HaltMode \cup OtherMode,
           cmd' = BroadcastMode(md), act' = Sent(cmd', slot, act), NEW m \in Motor
    PROVE  /\ cmd'[PortOf[m]] = md
           /\ act'[m] = IF link[PortOf[m]] /\ md \in HaltMode THEN Order(md, NOP) ELSE act[m]
  <1>1. cmd'[PortOf[m]] = md
    BY BusAssumption DEF BroadcastMode
  <1>2. Obey(md, slot[m], act[m]) = IF md \in HaltMode THEN Order(md, NOP) ELSE act[m]
    BY ModesDisjoint DEF Obey
  <1> QED
    BY <1>1, <1>2 DEF Sent

\* The three ways a call can leave the motors, with the buffers to match:
\* halted where reached ...
LEMMA HaltStep ==
    ASSUME IInv, NEW md \in HaltMode, link' = link,
           \A m \in Motor :
              /\ cmd'[PortOf[m]] \in {md} \cup OtherMode
              /\ act'[m] = IF link[PortOf[m]] THEN Order(md, NOP) ELSE act[m]
    PROVE  Mirrored' /\ ArmWithinLimits'
  <1>1. Order(md, NOP).mode = md /\ md \notin MotionMode
    BY ModesDisjoint DEF Order
  <1>2. ASSUME NEW m \in Motor, link[PortOf[m]]
        PROVE  Obey(cmd'[PortOf[m]], slot'[m], act'[m]) = act'[m]
    BY <1>2, ModesDisjoint DEF Obey
  <1>3. ASSUME NEW m \in Arm, act'[m].mode \in {"POS_VEL_TQE", "POS_VEL_TQE_KP_KD_2"}
        PROVE  act'[m].val \in Legal
    <2>1. m \in Motor /\ act'[m].mode \in MotionMode
      BY <1>3, BusAssumption DEF MotionMode
    <2>2. ~link[PortOf[m]] /\ act'[m] = act[m]
      BY <1>1, <2>1
    <2> QED
      BY <1>3, <2>2 DEF IInv, ArmWithinLimits
  <1> QED
    BY <1>2, <1>3 DEF Mirrored, ArmWithinLimits

\* ... undisturbed ...
LEMMA QuietStep ==
    ASSUME IInv, \A m \in Motor : cmd'[PortOf[m]] \in OtherMode /\ act'[m] = act[m]
    PROVE  Mirrored' /\ ArmWithinLimits'
  <1>1. ASSUME NEW m \in Motor PROVE Obey(cmd'[PortOf[m]], slot'[m], act'[m]) = act'[m]
    BY ModesDisjoint DEF Obey
  <1>2. \A m \in Arm : m \in Motor
    BY BusAssumption
  <1> QED
    BY <1>1, <1>2 DEF IInv, Mirrored, ArmWithinLimits

\* ... or commanded, the arm only to legal positions.
LEMMA CommandStep ==
    ASSUME IInv, running, NEW md \in MotionMode,
           NEW S \in SUBSET Motor, NEW val \in [S -> Setpoint], Command(md, S, val),
           md = "VELOCITY" \/ \A m \in S \cap Arm : val[m] \in Legal
    PROVE  Mirrored' /\ ArmWithinLimits'
  <1>1. ASSUME NEW m \in Arm, act'[m].mode \in {"POS_VEL_TQE", "POS_VEL_TQE_KP_KD_2"}
        PROVE  act'[m].val \in Legal
    <2>1. m \in Motor
      BY BusAssumption
    <2>2. CASE act'[m] = act[m]
      BY <1>1, <2>2 DEF IInv, ArmWithinLimits
    <2>3. CASE act'[m] # act[m]
      <3>1. m \in S /\ act'[m] = Order(md, val[m])
        BY <2>1, <2>3, CommandEffect
      <3>2. md # "VELOCITY"
        BY <1>1, <3>1 DEF Order
      <3> QED
        BY <3>1, <3>2 DEF Order
    <2> QED
      BY <2>2, <2>3
  <1>2. Mirrored'
    BY CommandMirrored
  <1> QED
    BY <1>1, <1>2 DEF ArmWithinLimits

LEMMA InitInv == Init => IInv
  <1> SUFFICES ASSUME Init PROVE Mirrored /\ ArmWithinLimits
    BY InitType DEF IInv
  <1>1. ~Latched
    BY DEF Init, Latched
  <1>2. CASE FunV >= 2
    <2>1. \A m \in Motor : cmd[PortOf[m]] \notin MotionMode /\ cmd[PortOf[m]] \notin HaltMode
      BY <1>2, PollModeIsQuery, BusAssumption DEF Init
    <2>2. ASSUME NEW m \in Motor PROVE act[m].mode = "RESET"
      <3>1. act[m] = Order("RESET", NOP)
        BY <1>2 DEF Init
      <3> QED
        BY <3>1 DEF Order
    <2>3. Arm \subseteq Motor
      BY BusAssumption
    <2>4. Mirrored
      BY <2>1 DEF Mirrored, Obey
    <2>5. ArmWithinLimits
      BY <2>2, <2>3 DEF ArmWithinLimits
    <2> QED
      BY <2>4, <2>5
  <1>3. CASE ~(FunV >= 2)
    <2>1. ASSUME NEW m \in Motor PROVE cmd[PortOf[m]] = "VELOCITY" /\ slot[m] = Zero
      <3>1. PortOf[m] \in Port /\ PortOf[m] \in Touched(Motor)
        BY BusAssumption DEF Touched
      <3> QED
        BY <1>3, <3>1 DEF Init
    <2>2. \A m \in Motor : act[m] = Order("VELOCITY", Zero)
      BY <1>3 DEF Init
    <2>3. Arm \subseteq Motor /\ \A o : o = Order("VELOCITY", Zero) => o.mode = "VELOCITY"
      BY BusAssumption DEF Order
    <2>4. Obey("VELOCITY", Zero, Order("VELOCITY", Zero)) = Order("VELOCITY", Zero)
      BY BusAssumption DEF Obey, MotionMode
    <2> QED
      BY <1>1, <2>1, <2>2, <2>3, <2>4 DEF Mirrored, ArmWithinLimits
  <1> QED
    BY <1>2, <1>3

LEMMA StepInv == IInv /\ [Next]_vars => IInv'
  <1> SUFFICES ASSUME IInv, [Next]_vars
               PROVE  Mirrored' /\ ArmWithinLimits'
    BY StepType DEF IInv
  <1>0. /\ "STOP" \in HaltMode /\ "BRAKE" \in HaltMode /\ "RESET" \in HaltMode
        /\ "TIME_OUT" \in OtherMode /\ "MOTOR_STATE" \in OtherMode /\ "MOTOR_STATE2" \in OtherMode
        /\ "RESET_ZERO" \in OtherMode /\ "CONF_WRITE" \in OtherMode /\ "VERSION" \in OtherMode
        /\ "VELOCITY" \in MotionMode /\ "POS_VEL_TQE" \in MotionMode
        /\ "POS_VEL_TQE_KP_KD_2" \in MotionMode
    BY DEF HaltMode, OtherMode, MotionMode
  <1>1. CASE ArmCommand
    <2>1. PICK pos \in [Arm -> Setpoint] : PosVelMaxTorque(pos) \/ PosVelTorqueKpKd(pos)
      BY <1>1 DEF ArmCommand
    <2>2. /\ running /\ \A m \in Arm : pos[m] \in Legal
          /\ Command("POS_VEL_TQE", Arm, pos) \/ Command("POS_VEL_TQE_KP_KD_2", Arm, pos)
      BY <2>1 DEF PosVelMaxTorque, PosVelTorqueKpKd
    <2>3. Arm \in SUBSET Motor
      BY BusAssumption
    <2> QED
      BY <1>0, <2>2, <2>3, CommandStep
  <1>2. CASE GripperCommand
    <2>1. PICK v \in Setpoint : GripperControl(v) \/ GripperControlMIT(v)
      BY <1>2 DEF GripperCommand
    <2> DEFINE val == [m \in {Gripper} |-> v]
    <2>2. /\ val \in [{Gripper} -> Setpoint] /\ {Gripper} \in SUBSET Motor
          /\ {Gripper} \cap Arm = {}
      BY BusAssumption
    <2>3. /\ running
          /\ Command("POS_VEL_TQE", {Gripper}, val) \/ Command("POS_VEL_TQE_KP_KD_2", {Gripper}, val)
      BY <2>1 DEF GripperControl, GripperControlMIT
    <2> HIDE DEF val
    <2> QED
      BY <1>0, <2>2, <2>3, CommandStep
  <1>3. CASE SendGetMotorStateCmd
    <2>1. CASE FunV >= 2
      <3> DEFINE md == IF FunV >= 4 THEN "MOTOR_STATE2" ELSE "MOTOR_STATE"
      <3>1. /\ cmd' = BroadcastMode(md) /\ act' = Sent(cmd', slot, act)
            /\ link' = link /\ (Latched' <=> Latched)
        BY <1>3, <2>1 DEF SendGetMotorStateCmd, Latched
      <3>2. md \in OtherMode /\ md \notin HaltMode
        BY <1>0, ModesDisjoint
      <3> HIDE DEF md
      <3>3. \A m \in Motor : cmd'[PortOf[m]] \in OtherMode /\ act'[m] = act[m]
        BY <3>1, <3>2, BroadcastEffect
      <3> QED
        BY <3>1, <3>3, QuietStep
    <2>2. CASE ~(FunV >= 2)
      <3> DEFINE val == [m \in Motor |-> Zero]
      <3>1. running /\ Command("VELOCITY", Motor, val)
        BY <1>3, <2>2 DEF SendGetMotorStateCmd
      <3>2. val \in [Motor -> Setpoint]
        BY BusAssumption
      <3> HIDE DEF val
      <3> QED
        BY <1>0, <3>1, <3>2, CommandStep
    <2> QED
      BY <2>1, <2>2
  <1>4. CASE MotorSendCmd
    <2>1. act' = act
      BY <1>4, MirroredMeansHarmless DEF MotorSendCmd, IInv, ResendIsHarmless, GatedSent
    <2> QED
      BY <1>4, <2>1 DEF MotorSendCmd, IInv, Mirrored, ArmWithinLimits, Latched
  <1>5. CASE SetStop \/ SetBrake
    <2>1. (StopAll("STOP") \/ StopAll("BRAKE")) /\ link' = link
      BY <1>5 DEF SetStop, SetBrake
    <2> QED
      BY <1>0, <2>1, StopAllEffect, HaltStep
  <1>6. CASE SetReset
    <2>1. cmd' = BroadcastMode("RESET") /\ act' = Sent(cmd', slot, act) /\ link' = link
      BY <1>6 DEF SetReset
    <2> QED
      BY <1>0, <2>1, BroadcastEffect, HaltStep
  <1>7. CASE SetTimeout
    <2>1. /\ cmd' = BroadcastMode("TIME_OUT") /\ act' = Sent(cmd', slot, act)
          /\ link' = link /\ (Latched' <=> Latched)
      BY <1>7 DEF SetTimeout, Latched
    <2>2. \A m \in Motor : cmd'[PortOf[m]] \in OtherMode /\ act'[m] = act[m]
      BY <1>0, <2>1, ModesDisjoint, BroadcastEffect
    <2> QED
      BY <2>1, <2>2, QuietStep
  <1>8. ASSUME NEW r \in Motor, SetResetZero(r)
        PROVE  Mirrored' /\ ArmWithinLimits'
    <2>1. PICK last \in {"RESET_ZERO", "CONF_WRITE"} :
            cmd' = [BroadcastMode("RESET") EXCEPT ![PortOf[r]] = last]
      BY <1>8 DEF SetResetZero
    <2> DEFINE a1 == Sent(BroadcastMode("RESET"), slot, act)
    <2>2. act' = Sent(cmd', slot, a1) /\ link' = link
      BY <1>8 DEF SetResetZero
    <2>3. ASSUME NEW m \in Motor
          PROVE  /\ cmd'[PortOf[m]] \in {"RESET"} \cup OtherMode
                 /\ act'[m] = IF link[PortOf[m]] THEN Order("RESET", NOP) ELSE act[m]
      <3>1. PortOf[m] \in Port /\ BroadcastMode("RESET")[PortOf[m]] = "RESET"
        BY BusAssumption DEF BroadcastMode
      <3>2. cmd'[PortOf[m]] \in {"RESET"} \cup OtherMode
        BY <1>0, <2>1, <3>1 DEF BroadcastMode
      <3>3. a1[m] = IF link[PortOf[m]] THEN Order("RESET", NOP) ELSE act[m]
        BY <1>0, <3>1, ModesDisjoint DEF Sent, Obey
      <3>4. Obey(cmd'[PortOf[m]], slot[m], Order("RESET", NOP)) = Order("RESET", NOP)
        BY <1>0, <3>2, ModesDisjoint DEF Obey
      <3> HIDE DEF a1
      <3>5. act'[m] = IF link[PortOf[m]] THEN Obey(cmd'[PortOf[m]], slot[m], a1[m]) ELSE a1[m]
        BY <2>2 DEF Sent
      <3> QED
        BY <3>2, <3>3, <3>4, <3>5
    <2> QED
      BY <1>0, <2>2, <2>3, HaltStep
  <1>9. CASE DetectMotorLimit
    <2>1. StopAll("STOP") /\ link' = link
      BY <1>9 DEF DetectMotorLimit
    <2> QED
      BY <1>0, <2>1, StopAllEffect, HaltStep
  <1>10. CASE Destroy
    <2>1. link' = link
      BY <1>10 DEF Destroy
    <2>2. CASE ExitBrake
      <3>1. StopAll("BRAKE")
        BY <1>10, <2>2 DEF Destroy
      <3> QED
        BY <1>0, <2>1, <3>1, StopAllEffect, HaltStep
    <2>3. CASE ~ExitBrake
      <3> DEFINE c == BroadcastMode("STOP")
                 a1 == Sent(c, slot, act)
                 a2 == GatedSent(c, slot, a1)
      <3>1. cmd' = BroadcastMode("RESET") /\ act' = Sent(cmd', slot, a2)
        BY <1>10, <2>3 DEF Destroy
      <3>2. ASSUME NEW m \in Motor
            PROVE  /\ cmd'[PortOf[m]] = "RESET"
                   /\ act'[m] = IF link[PortOf[m]] THEN Order("RESET", NOP) ELSE act[m]
        <4>1. cmd'[PortOf[m]] = "RESET"
          BY <3>1, BusAssumption DEF BroadcastMode
        <4>2. ~link[PortOf[m]] => a1[m] = act[m]
          BY DEF Sent
        <4> HIDE DEF a1
        <4>3. ~link[PortOf[m]] => a2[m] = act[m]
          BY <4>2 DEF GatedSent, Sent
        <4> HIDE DEF a2
        <4>4. act'[m] = IF link[PortOf[m]] THEN Obey("RESET", slot[m], a2[m]) ELSE a2[m]
          BY <3>1, <4>1 DEF Sent
        <4>5. Obey("RESET", slot[m], a2[m]) = Order("RESET", NOP)
          BY <1>0, ModesDisjoint DEF Obey
        <4> QED
          BY <4>1, <4>3, <4>4, <4>5
      <3> QED
        BY <1>0, <2>1, <3>2, HaltStep
    <2> QED
      BY <2>2, <2>3
  <1>11. ASSUME NEW m \in Motor, NEW op \in BOOLEAN, NEW ot \in BOOLEAN, FreshData(m, op, ot)
         PROVE  Mirrored' /\ ArmWithinLimits'
    BY <1>11 DEF FreshData, IInv, Mirrored, ArmWithinLimits, Latched
  <1>12. ASSUME NEW p \in Port, LinkDown(p)
         PROVE  Mirrored' /\ ArmWithinLimits'
    <2>1. \A m \in Motor : link'[PortOf[m]] => link[PortOf[m]]
      BY <1>12, BusAssumption DEF LinkDown, IInv, TypeOK
    <2> QED
      BY <1>12, <2>1 DEF LinkDown, IInv, Mirrored, ArmWithinLimits, Latched
  <1>13. CASE UNCHANGED vars
    BY <1>13 DEF vars, IInv, Mirrored, ArmWithinLimits, Latched
  <1>14. ASSUME NEW U \in SUBSET Port, Reconnect(U) PROVE Mirrored' /\ ArmWithinLimits'
    <2>1. \A m \in Motor : cmd'[PortOf[m]] \in OtherMode /\ act'[m] = act[m]
      BY <1>0, <1>14, BusAssumption DEF Reconnect, BroadcastMode
    <2> QED
      BY <2>1, QuietStep
  <1> QED
    BY <1>1, <1>2, <1>3, <1>4, <1>5, <1>6, <1>7, <1>8, <1>9, <1>10, <1>11, <1>12, <1>13, <1>14
    DEF Next, Halt

LEMMA SpecInv == Spec => []IInv
  BY InitInv, StepInv, PTL DEF Spec

\* Resending the buffers never changes what a reachable motor is doing
\* (robot::motor_send_cmd after any sequence of calls).
THEOREM ResendHarmless == Spec => []ResendIsHarmless
  <1>1. IInv => ResendIsHarmless
    BY MirroredMeansHarmless DEF IInv
  <1> QED
    BY <1>1, SpecInv, PTL

\* The arm is never driven outside its joint limits (Panthera::checkJointLimits).
THEOREM ArmStaysWithinLimits == Spec => []ArmWithinLimits
  <1>1. IInv => ArmWithinLimits
    BY DEF IInv
  <1> QED
    BY <1>1, SpecInv, PTL

-----------------------------------------------------------------------------
(* Which motors a step may set moving.                                     *)

CommandsIt(m) ==
    \/ m \in Arm /\ ArmCommand
    \/ m = Gripper /\ GripperCommand
    \/ FunV < 2 /\ SendGetMotorStateCmd

\* A halting broadcast gives no motor a motion order.
LEMMA HaltDrivesNone ==
    ASSUME NEW md \in HaltMode, NEW m \in Motor,
           act'[m] = IF link[PortOf[m]] THEN Order(md, NOP) ELSE act[m]
    PROVE  act'[m] = act[m] \/ ~Driven(act'[m])
  BY ModesDisjoint DEF Order, Driven

LEMMA StepOnlyCommanded ==
    ASSUME IInv, [Next]_vars, NEW m \in Motor
    PROVE  act'[m] = act[m] \/ ~Driven(act'[m]) \/ CommandsIt(m)
  <1>0. /\ "STOP" \in HaltMode /\ "BRAKE" \in HaltMode /\ "RESET" \in HaltMode
        /\ "TIME_OUT" \in OtherMode /\ "MOTOR_STATE" \in OtherMode /\ "MOTOR_STATE2" \in OtherMode
        /\ "RESET_ZERO" \in OtherMode /\ "CONF_WRITE" \in OtherMode
        /\ "POS_VEL_TQE" \in MotionMode /\ "POS_VEL_TQE_KP_KD_2" \in MotionMode
    BY DEF HaltMode, OtherMode, MotionMode
  <1>1. CASE ArmCommand
    <2>1. PICK pos \in [Arm -> Setpoint] : PosVelMaxTorque(pos) \/ PosVelTorqueKpKd(pos)
      BY <1>1 DEF ArmCommand
    <2>2. /\ running /\ Arm \in SUBSET Motor
          /\ Command("POS_VEL_TQE", Arm, pos) \/ Command("POS_VEL_TQE_KP_KD_2", Arm, pos)
      BY <2>1, BusAssumption DEF PosVelMaxTorque, PosVelTorqueKpKd
    <2>3. m \notin Arm => act'[m] = act[m]
      BY <1>0, <2>2, CommandEffect
    <2> QED
      BY <1>1, <2>3 DEF CommandsIt
  <1>2. CASE GripperCommand
    <2>1. PICK v \in Setpoint : GripperControl(v) \/ GripperControlMIT(v)
      BY <1>2 DEF GripperCommand
    <2> DEFINE val == [g \in {Gripper} |-> v]
    <2>2. /\ running /\ val \in [{Gripper} -> Setpoint] /\ {Gripper} \in SUBSET Motor
          /\ Command("POS_VEL_TQE", {Gripper}, val) \/ Command("POS_VEL_TQE_KP_KD_2", {Gripper}, val)
      BY <2>1, BusAssumption DEF GripperControl, GripperControlMIT
    <2> HIDE DEF val
    <2>3. m \notin {Gripper} => act'[m] = act[m]
      BY <1>0, <2>2, CommandEffect
    <2> QED
      BY <1>2, <2>3 DEF CommandsIt
  <1>3. CASE SendGetMotorStateCmd
    <2>1. CASE FunV >= 2
      <3> DEFINE md == IF FunV >= 4 THEN "MOTOR_STATE2" ELSE "MOTOR_STATE"
      <3>1. cmd' = BroadcastMode(md) /\ act' = Sent(cmd', slot, act)
        BY <1>3, <2>1 DEF SendGetMotorStateCmd
      <3>2. md \in OtherMode /\ md \notin HaltMode
        BY <1>0, ModesDisjoint
      <3> HIDE DEF md
      <3> QED
        BY <3>1, <3>2, BroadcastEffect
    <2>2. CASE ~(FunV >= 2)
      <3>1. FunV < 2
        BY <2>2, BusAssumption
      <3> QED
        BY <1>3, <3>1 DEF CommandsIt
    <2> QED
      BY <2>1, <2>2
  <1>4. CASE MotorSendCmd
    BY <1>4, MirroredMeansHarmless DEF MotorSendCmd, IInv, ResendIsHarmless, GatedSent
  <1>5. CASE SetStop \/ SetBrake \/ DetectMotorLimit
    <2>1. StopAll("STOP") \/ StopAll("BRAKE")
      BY <1>5 DEF SetStop, SetBrake, DetectMotorLimit
    <2> QED
      BY <1>0, <2>1, StopAllEffect, HaltDrivesNone
  <1>6. CASE SetReset
    <2>1. cmd' = BroadcastMode("RESET") /\ act' = Sent(cmd', slot, act)
      BY <1>6 DEF SetReset
    <2>2. act'[m] = IF link[PortOf[m]] THEN Order("RESET", NOP) ELSE act[m]
      BY <1>0, <2>1, BroadcastEffect
    <2> QED
      BY <1>0, <2>2, HaltDrivesNone
  <1>7. CASE SetTimeout
    <2>1. cmd' = BroadcastMode("TIME_OUT") /\ act' = Sent(cmd', slot, act)
      BY <1>7 DEF SetTimeout
    <2> QED
      BY <1>0, <2>1, ModesDisjoint, BroadcastEffect
  <1>8. ASSUME NEW r \in Motor, SetResetZero(r)
        PROVE  act'[m] = act[m] \/ ~Driven(act'[m])
    <2> DEFINE a1 == Sent(BroadcastMode("RESET"), slot, act)
    <2>1. PICK last \in {"RESET_ZERO", "CONF_WRITE"} :
            cmd' = [BroadcastMode("RESET") EXCEPT ![PortOf[r]] = last]
      BY <1>8 DEF SetResetZero
    <2>2. PortOf[m] \in Port /\ BroadcastMode("RESET")[PortOf[m]] = "RESET"
      BY BusAssumption DEF BroadcastMode
    <2>3. cmd'[PortOf[m]] \in {"RESET"} \cup OtherMode
      BY <1>0, <2>1, <2>2 DEF BroadcastMode
    <2>4. a1[m] = IF link[PortOf[m]] THEN Order("RESET", NOP) ELSE act[m]
      BY <1>0, <2>2, ModesDisjoint DEF Sent, Obey
    <2>5. act' = Sent(cmd', slot, a1)
      BY <1>8 DEF SetResetZero
    <2> HIDE DEF a1
    <2>6. act'[m] = IF link[PortOf[m]] THEN Obey(cmd'[PortOf[m]], slot[m], a1[m]) ELSE a1[m]
      BY <2>5 DEF Sent
    <2>7. Obey(cmd'[PortOf[m]], slot[m], Order("RESET", NOP)) = Order("RESET", NOP)
      BY <1>0, <2>3, ModesDisjoint DEF Obey
    <2> QED
      BY <1>0, <2>4, <2>6, <2>7, HaltDrivesNone
  <1>9. CASE Destroy
    <2>1. CASE ExitBrake
      <3>1. StopAll("BRAKE")
        BY <1>9, <2>1 DEF Destroy
      <3> QED
        BY <1>0, <3>1, StopAllEffect, HaltDrivesNone
    <2>2. CASE ~ExitBrake
      <3> DEFINE a1 == Sent(BroadcastMode("STOP"), slot, act)
                 a2 == GatedSent(BroadcastMode("STOP"), slot, a1)
      <3>1. cmd' = BroadcastMode("RESET") /\ act' = Sent(cmd', slot, a2)
        BY <1>9, <2>2 DEF Destroy
      <3>2. cmd'[PortOf[m]] = "RESET"
        BY <3>1, BusAssumption DEF BroadcastMode
      <3>3. ~link[PortOf[m]] => a1[m] = act[m]
        BY DEF Sent
      <3> HIDE DEF a1
      <3>4. ~link[PortOf[m]] => a2[m] = act[m]
        BY <3>3 DEF GatedSent, Sent
      <3> HIDE DEF a2
      <3>5. act'[m] = IF link[PortOf[m]] THEN Obey("RESET", slot[m], a2[m]) ELSE a2[m]
        BY <3>1, <3>2 DEF Sent
      <3>6. Obey("RESET", slot[m], a2[m]) = Order("RESET", NOP)
        BY <1>0, ModesDisjoint DEF Obey
      <3> QED
        BY <1>0, <3>4, <3>5, <3>6, HaltDrivesNone
    <2> QED
      BY <2>1, <2>2
  <1>10. ASSUME NEW r \in Motor, NEW op \in BOOLEAN, NEW ot \in BOOLEAN, FreshData(r, op, ot)
         PROVE  act'[m] = act[m]
    BY <1>10 DEF FreshData
  <1>11. ASSUME NEW p \in Port, LinkDown(p) PROVE act'[m] = act[m]
    BY <1>11 DEF LinkDown
  <1>12. ASSUME NEW U \in SUBSET Port, Reconnect(U) PROVE act'[m] = act[m]
    BY <1>12 DEF Reconnect
  <1>13. CASE UNCHANGED vars
    BY <1>13 DEF vars
  <1> QED
    BY <1>1, <1>2, <1>3, <1>4, <1>5, <1>6, <1>7, <1>8, <1>9, <1>10, <1>11, <1>12, <1>13
    DEF Next, Halt

\* A motor is set moving only by a call that commands it, never by the frame
\* of a call for other motors that carries its slot along
\* (motor::pos_vel_MAXtqe, robot::motor_send_cmd).
THEOREM OnlyCommandedMove == Spec => OnlyCommandedMotorsMove
  <1>1. IInv /\ [Next]_vars =>
          [\A m \in Motor :
             act'[m] # act[m] /\ Driven(act'[m]) =>
                \/ m \in Arm /\ ArmCommand
                \/ m = Gripper /\ GripperCommand
                \/ FunV < 2 /\ SendGetMotorStateCmd]_vars
    BY StepOnlyCommanded DEF CommandsIt
  <1> QED
    BY <1>1, SpecInv, PTL DEF Spec, OnlyCommandedMotorsMove

-----------------------------------------------------------------------------
(* The limits.                                                             *)

\* A latched limit refuses whatever a call would have a motor do.
LEMMA LatchRefuses ==
    ASSUME IInv, Latched, NEW m \in Motor, CommandsIt(m)
    PROVE  act'[m] = act[m]
  <1>1. ASSUME NEW md, NEW S, NEW val, Command(md, S, val) PROVE act'[m] = act[m]
    BY <1>1 DEF Command, GatedSent
  <1>2. ASSUME ArmCommand \/ GripperCommand PROVE act'[m] = act[m]
    BY <1>1, <1>2 DEF ArmCommand, GripperCommand, PosVelMaxTorque, PosVelTorqueKpKd,
                      GripperControl, GripperControlMIT
  <1>3. ASSUME FunV < 2, SendGetMotorStateCmd PROVE act'[m] = act[m]
    <2>1. ~(FunV >= 2)
      BY <1>3, BusAssumption
    <2>2. Command("VELOCITY", Motor, [g \in Motor |-> Zero])
      BY <1>3, <2>1 DEF SendGetMotorStateCmd
    <2> QED
      BY <1>1, <2>2
  <1> QED
    BY <1>2, <1>3 DEF CommandsIt

\* Nothing but detect_motor_limit latches a limit.
LEMMA OnlyDetectLatches == ~Latched /\ Latched' /\ [Next]_vars => DetectMotorLimit
  <1> SUFFICES ASSUME ~(Latched' <=> Latched), [Next]_vars PROVE DetectMotorLimit
    OBVIOUS
  <1> USE DEF Latched
  <1>1. ASSUME NEW md, NEW S, NEW val, Command(md, S, val) PROVE FALSE
    BY <1>1 DEF Command
  <1>2. ~ArmCommand /\ ~GripperCommand
    BY <1>1 DEF ArmCommand, GripperCommand, PosVelMaxTorque, PosVelTorqueKpKd,
                GripperControl, GripperControlMIT
  <1>3. ~SendGetMotorStateCmd /\ ~MotorSendCmd /\ ~SetTimeout /\ ~Destroy
    BY <1>1 DEF SendGetMotorStateCmd, MotorSendCmd, SetTimeout, Destroy
  <1>4. ~Halt
    BY DEF Halt, SetStop, SetBrake, SetReset, SetResetZero
  <1>5. ASSUME NEW m \in Motor, NEW op \in BOOLEAN, NEW ot \in BOOLEAN, FreshData(m, op, ot)
        PROVE  FALSE
    BY <1>5 DEF FreshData
  <1>6. ASSUME NEW p \in Port, LinkDown(p) PROVE FALSE
    BY <1>6 DEF LinkDown
  <1>7. ASSUME NEW U \in SUBSET Port, Reconnect(U) PROVE FALSE
    BY <1>7 DEF Reconnect
  <1>8. ~UNCHANGED vars
    BY DEF vars
  <1> QED
    BY <1>2, <1>3, <1>4, <1>5, <1>6, <1>7, <1>8 DEF Next

\* From the latching of a limit on no motor is given a motion, by no call and by
\* no link that comes back, and the motors in reach at the latching lose theirs
\* (robot::detect_motor_limit, robot::motor_send_cmd).
THEOREM LatchHalts == Spec => LatchedMeansHalted
  <1>1. IInv /\ [Next]_vars =>
          [Latched' => \A m \in Motor : Driven(act'[m]) =>
              act'[m] = act[m] /\ (Latched \/ ~link[PortOf[m]])]_vars
    <2> SUFFICES ASSUME IInv, [Next]_vars, Latched', NEW m \in Motor, Driven(act'[m])
                 PROVE  act'[m] = act[m] /\ (Latched \/ ~link[PortOf[m]])
      OBVIOUS
    <2>1. CASE Latched
      BY <2>1, StepOnlyCommanded, LatchRefuses
    <2>2. CASE ~Latched
      <3>1. StopAll("STOP") /\ "STOP" \in HaltMode
        BY <2>2, OnlyDetectLatches DEF DetectMotorLimit, HaltMode
      <3>2. act'[m] = IF link[PortOf[m]] THEN Order("STOP", NOP) ELSE act[m]
        BY <3>1, StopAllEffect
      <3>3. ~Driven(Order("STOP", NOP))
        BY <3>1, ModesDisjoint DEF Driven, Order
      <3> QED
        BY <3>2, <3>3
    <2> QED
      BY <2>1, <2>2
  <1> QED
    BY <1>1, SpecInv, PTL DEF Spec, LatchedMeansHalted

-----------------------------------------------------------------------------
(* The end of the robot object.                                            *)

\* Destroying the robot object halts whoever can be reached, whatever the
\* buffers, the slots and the limit latch were.
LEMMA DestroyEffect ==
    ASSUME Destroy
    PROVE  \E md \in {"BRAKE", "RESET"} : \A m \in Motor :
             act'[m] = IF link[PortOf[m]] THEN Order(md, NOP) ELSE act[m]
  <1>0. "BRAKE" \in HaltMode /\ "RESET" \in HaltMode
    BY DEF HaltMode
  <1>1. CASE ExitBrake
    <2>1. StopAll("BRAKE")
      BY <1>1 DEF Destroy
    <2> QED
      BY <1>0, <2>1, StopAllEffect
  <1>2. CASE ~ExitBrake
    <2> DEFINE b1 == Sent(BroadcastMode("STOP"), slot, act)
               b2 == GatedSent(BroadcastMode("STOP"), slot, b1)
    <2>1. cmd' = BroadcastMode("RESET") /\ act' = Sent(cmd', slot, b2)
      BY <1>2 DEF Destroy
    <2>2. ASSUME NEW m \in Motor
          PROVE  act'[m] = IF link[PortOf[m]] THEN Order("RESET", NOP) ELSE act[m]
      <3>1. cmd'[PortOf[m]] = "RESET"
        BY <2>1, BusAssumption DEF BroadcastMode
      <3>2. ~link[PortOf[m]] => b1[m] = act[m]
        BY DEF Sent
      <3> HIDE DEF b1
      <3>3. ~link[PortOf[m]] => b2[m] = act[m]
        BY <3>2 DEF GatedSent, Sent
      <3> HIDE DEF b2
      <3>4. act'[m] = IF link[PortOf[m]] THEN Obey("RESET", slot[m], b2[m]) ELSE b2[m]
        BY <2>1, <3>1 DEF Sent
      <3>5. Obey("RESET", slot[m], b2[m]) = Order("RESET", NOP)
        BY <1>0, ModesDisjoint DEF Obey
      <3> QED
        BY <3>3, <3>4, <3>5
    <2> QED
      BY <2>2
  <1> QED
    BY <1>1, <1>2

\* Nothing but its destructor ends the robot object.
LEMMA OnlyDestroyEnds == running /\ ~running' /\ [Next]_vars => Destroy
  <1> SUFFICES ASSUME running, ~running', [Next]_vars PROVE Destroy
    OBVIOUS
  <1>1. ASSUME NEW md, NEW S, NEW val, Command(md, S, val) PROVE FALSE
    BY <1>1 DEF Command
  <1>2. ~ArmCommand /\ ~GripperCommand
    BY <1>1 DEF ArmCommand, GripperCommand, PosVelMaxTorque, PosVelTorqueKpKd,
                GripperControl, GripperControlMIT
  <1>3. ~SendGetMotorStateCmd /\ ~MotorSendCmd /\ ~SetTimeout /\ ~DetectMotorLimit
    BY <1>1 DEF SendGetMotorStateCmd, MotorSendCmd, SetTimeout, DetectMotorLimit
  <1>4. ~Halt
    BY DEF Halt, SetStop, SetBrake, SetReset, SetResetZero
  <1>5. ASSUME NEW m \in Motor, NEW op \in BOOLEAN, NEW ot \in BOOLEAN, FreshData(m, op, ot)
        PROVE  FALSE
    BY <1>5 DEF FreshData
  <1>6. ASSUME NEW p \in Port, LinkDown(p) PROVE FALSE
    BY <1>6 DEF LinkDown
  <1>7. ASSUME NEW U \in SUBSET Port, Reconnect(U) PROVE FALSE
    BY <1>7 DEF Reconnect
  <1>8. ~UNCHANGED vars
    BY DEF vars
  <1> QED
    BY <1>2, <1>3, <1>4, <1>5, <1>6, <1>7, <1>8 DEF Next

\* Whatever was going on, the destructor leaves no motor that can be reached
\* driven (robot::~robot).
THEOREM ExitHalts == Spec => ExitMeansHalted
  <1>1. [Next]_vars =>
          [running /\ ~running' => \A m \in Motor : link[PortOf[m]] => ~Driven(act'[m])]_vars
    <2> SUFFICES ASSUME [Next]_vars, running, ~running',
                        NEW m \in Motor, link[PortOf[m]]
                 PROVE  ~Driven(act'[m])
      OBVIOUS
    <2>1. PICK md \in {"BRAKE", "RESET"} : act'[m] = Order(md, NOP)
      BY OnlyDestroyEnds, DestroyEffect
    <2> QED
      BY <2>1, ModesDisjoint DEF HaltMode, Order, Driven
  <1> QED
    BY <1>1, PTL DEF Spec, ExitMeansHalted

-----------------------------------------------------------------------------
(* The command path implements Actuators: whatever the shared buffers hold *)
(* and send again, every call does to the motors what it says.  The proof  *)
(* rests on Mirrored, that the buffers hold what the motors are doing.     *)

\* A motor is reached exactly when the link of its port is up.
LEMMA ReachIsLink == \A m \in Motor : m \in Reach <=> link[PortOf[m]]
  BY DEF Reach

LEMMA InitRefines == Init => Act!Init
  <1> SUFFICES ASSUME Init PROVE Act!Init
    OBVIOUS
  <1>1. Reach = Motor
    BY BusAssumption DEF Init, Reach
  <1>2. ~Latched /\ Latched \in BOOLEAN
    BY DEF Init, Latched
  <1>3. running = TRUE
    BY DEF Init
  <1>4. act = IF FunV < 2 THEN [m \in Motor |-> Order("VELOCITY", Zero)]
                          ELSE [m \in Motor |-> Order("RESET", NOP)]
    BY BusAssumption DEF Init
  <1> QED
    BY <1>1, <1>2, <1>3, <1>4 DEF Act!Init, Act!Order, Order

\* A command of the bus is a motion call of the abstract motors.
LEMMA CommandIsDrive ==
    ASSUME IInv, running, NEW md \in MotionMode,
           NEW S \in SUBSET Motor, NEW val \in [S -> Setpoint], Command(md, S, val)
    PROVE  Act!Drive(S, md, val)
  <1>1. Reach' = Reach /\ Latched' = Latched /\ running' = running
    BY DEF Command, Reach, Latched
  <1>2. act' \in [Motor -> [mode : Mode, val : Setpoint \cup {NOP}]]
        /\ act \in [Motor -> [mode : Mode, val : Setpoint \cup {NOP}]]
    <2>1. TypeOK /\ md \in Mode
      BY ModesDisjoint DEF IInv
    <2> QED
      BY <2>1, CommandType DEF TypeOK
  <1>3. CASE Latched
    <2>1. act' = act
      BY <1>3 DEF Command, GatedSent
    <2> QED
      BY <1>1, <1>3, <2>1 DEF Act!Drive
  <1>4. CASE ~Latched
    <2>1. ASSUME NEW m \in Motor
          PROVE  act'[m] = IF m \in S /\ m \in Reach THEN Order(md, val[m]) ELSE act[m]
      BY <1>4, CommandEffect, ReachIsLink
    <2>2. act' = Act!Told(S, md, val)
      BY <1>2, <2>1 DEF Act!Told, Act!Order, Order
    <2> QED
      BY <1>1, <1>4, <2>2 DEF Act!Drive
  <1> QED
    BY <1>3, <1>4

\* Motors halted where reached are halted by the abstract call.
LEMMA HaltedIsHaltAll ==
    ASSUME NEW md,
           act' \in [Motor -> [mode : Mode, val : Setpoint \cup {NOP}]],
           \A m \in Motor : act'[m] = IF link[PortOf[m]] THEN Order(md, NOP) ELSE act[m]
    PROVE  Act!HaltAll(md)
  BY ReachIsLink DEF Act!HaltAll, Act!Told, Act!Order, Order

\* Steps that leave the motors alone are invisible.
LEMMA QuietIsStutter ==
    ASSUME act' = act, UNCHANGED <<link, posLatch, torLatch, running>>
    PROVE  UNCHANGED Act!vars
  BY DEF Act!vars, Reach, Latched

LEMMA StepRefines == IInv /\ IInv' /\ [Next]_vars => [Act!Next]_(Act!vars)
  <1> SUFFICES ASSUME IInv, IInv', [Next]_vars PROVE Act!Next \/ UNCHANGED Act!vars
    OBVIOUS
  <1>0. /\ "POS_VEL_TQE" \in MotionMode /\ "POS_VEL_TQE_KP_KD_2" \in MotionMode
        /\ "VELOCITY" \in MotionMode
        /\ "STOP" \in HaltMode /\ "BRAKE" \in HaltMode /\ "RESET" \in HaltMode
        /\ "TIME_OUT" \in OtherMode /\ "MOTOR_STATE" \in OtherMode /\ "MOTOR_STATE2" \in OtherMode
        /\ "RESET_ZERO" \in OtherMode /\ "CONF_WRITE" \in OtherMode
        /\ "POS_VEL_TQE" \in Act!PositionMode /\ "POS_VEL_TQE_KP_KD_2" \in Act!PositionMode
        /\ "STOP" \in Act!HaltMode /\ "BRAKE" \in Act!HaltMode /\ "RESET" \in Act!HaltMode
    BY DEF MotionMode, HaltMode, OtherMode, Act!PositionMode, Act!HaltMode
  <1>a. /\ act \in [Motor -> [mode : Mode, val : Setpoint \cup {NOP}]]
        /\ act' \in [Motor -> [mode : Mode, val : Setpoint \cup {NOP}]]
        /\ posLatch \in BOOLEAN /\ torLatch \in BOOLEAN
    BY DEF IInv, TypeOK
  <1>1. CASE ArmCommand
    <2>1. PICK pos \in [Arm -> Setpoint] : PosVelMaxTorque(pos) \/ PosVelTorqueKpKd(pos)
      BY <1>1 DEF ArmCommand
    <2>2. PICK md \in {"POS_VEL_TQE", "POS_VEL_TQE_KP_KD_2"} :
             running /\ (\A m \in Arm : pos[m] \in Legal) /\ Command(md, Arm, pos)
      BY <2>1 DEF PosVelMaxTorque, PosVelTorqueKpKd
    <2>3. Act!Drive(Arm, md, pos)
      BY <1>0, <2>2, BusAssumption, CommandIsDrive
    <2> QED
      BY <1>0, <2>2, <2>3 DEF Act!Next, Act!MoveArm
  <1>2. CASE GripperCommand
    <2>1. PICK v \in Setpoint : GripperControl(v) \/ GripperControlMIT(v)
      BY <1>2 DEF GripperCommand
    <2> DEFINE val == [m \in {Gripper} |-> v]
    <2>2. PICK md \in {"POS_VEL_TQE", "POS_VEL_TQE_KP_KD_2"} :
             running /\ Command(md, {Gripper}, val)
      BY <2>1 DEF GripperControl, GripperControlMIT
    <2>3. val \in [{Gripper} -> Setpoint] /\ {Gripper} \in SUBSET Motor
      BY BusAssumption
    <2>4. Act!Drive({Gripper}, md, val)
      <3> HIDE DEF val
      <3> QED
        BY <1>0, <2>2, <2>3, CommandIsDrive
    <2>5. Act!MoveGripper(md, v)
      BY <2>4 DEF Act!MoveGripper
    <2> QED
      BY <1>0, <2>5 DEF Act!Next
  <1>3. CASE SendGetMotorStateCmd
    <2>1. CASE FunV >= 2
      <3> DEFINE md == IF FunV >= 4 THEN "MOTOR_STATE2" ELSE "MOTOR_STATE"
      <3>1. /\ cmd' = BroadcastMode(md) /\ act' = Sent(cmd', slot, act)
            /\ UNCHANGED <<link, posLatch, torLatch, running>>
        BY <1>3, <2>1 DEF SendGetMotorStateCmd
      <3>2. md \in OtherMode /\ md \notin HaltMode
        BY <1>0, ModesDisjoint
      <3> HIDE DEF md
      <3>3. \A m \in Motor : act'[m] = act[m]
        BY <3>1, <3>2, BroadcastEffect
      <3>4. act' = act
        BY <1>a, <3>3
      <3> QED
        BY <3>1, <3>4, QuietIsStutter
    <2>2. CASE ~(FunV >= 2)
      <3> DEFINE val == [m \in Motor |-> Zero]
      <3>1. running /\ Command("VELOCITY", Motor, val) /\ FunV < 2
        BY <1>3, <2>2, BusAssumption DEF SendGetMotorStateCmd
      <3>2. val \in [Motor -> Setpoint]
        BY BusAssumption
      <3>3. Act!Drive(Motor, "VELOCITY", val)
        <4> HIDE DEF val
        <4> QED
          BY <1>0, <3>1, <3>2, CommandIsDrive
      <3>4. Act!LegacyPoll
        BY <3>1, <3>3 DEF Act!LegacyPoll
      <3> QED
        BY <3>4 DEF Act!Next
    <2> QED
      BY <2>1, <2>2
  <1>4. CASE MotorSendCmd
    <2>1. act' = act
      BY <1>4, MirroredMeansHarmless DEF MotorSendCmd, IInv, ResendIsHarmless, GatedSent
    <2> QED
      BY <1>4, <2>1, QuietIsStutter DEF MotorSendCmd
  <1>5. CASE SetStop \/ SetBrake
    <2>1. PICK md \in {"STOP", "BRAKE"} : StopAll(md)
      BY <1>5 DEF SetStop, SetBrake
    <2>2. running /\ UNCHANGED <<link, posLatch, torLatch, running>>
      BY <1>5 DEF SetStop, SetBrake
    <2>3. Act!HaltAll(md)
      BY <1>0, <1>a, <2>1, StopAllEffect, HaltedIsHaltAll
    <2>4. Act!Halt(md)
      BY <2>2, <2>3 DEF Act!Halt, Reach, Latched
    <2> QED
      BY <1>0, <2>4 DEF Act!Next
  <1>6. CASE SetReset
    <2>1. /\ cmd' = BroadcastMode("RESET") /\ act' = Sent(cmd', slot, act)
          /\ running /\ UNCHANGED <<link, posLatch, torLatch, running>>
      BY <1>6 DEF SetReset
    <2>2. Act!HaltAll("RESET")
      BY <1>0, <1>a, <2>1, BroadcastEffect, HaltedIsHaltAll
    <2>3. Act!Halt("RESET")
      BY <2>1, <2>2 DEF Act!Halt, Reach, Latched
    <2> QED
      BY <1>0, <2>3 DEF Act!Next
  <1>7. CASE SetTimeout
    <2>1. /\ cmd' = BroadcastMode("TIME_OUT") /\ act' = Sent(cmd', slot, act)
          /\ UNCHANGED <<link, posLatch, torLatch, running>>
      BY <1>7 DEF SetTimeout
    <2>2. \A m \in Motor : act'[m] = act[m]
      BY <1>0, <2>1, ModesDisjoint, BroadcastEffect
    <2>3. act' = act
      BY <1>a, <2>2
    <2> QED
      BY <2>1, <2>3, QuietIsStutter
  <1>8. ASSUME NEW r \in Motor, SetResetZero(r) PROVE Act!Next
    <2> DEFINE a1 == Sent(BroadcastMode("RESET"), slot, act)
    <2>1. PICK last \in {"RESET_ZERO", "CONF_WRITE"} :
            cmd' = [BroadcastMode("RESET") EXCEPT ![PortOf[r]] = last]
      BY <1>8 DEF SetResetZero
    <2>2. /\ act' = Sent(cmd', slot, a1)
          /\ running /\ UNCHANGED <<link, posLatch, torLatch, running>>
      BY <1>8 DEF SetResetZero
    <2>3. ASSUME NEW m \in Motor
          PROVE  act'[m] = IF link[PortOf[m]] THEN Order("RESET", NOP) ELSE act[m]
      <3>1. PortOf[m] \in Port /\ BroadcastMode("RESET")[PortOf[m]] = "RESET"
        BY BusAssumption DEF BroadcastMode
      <3>2. cmd'[PortOf[m]] \in {"RESET"} \cup OtherMode
        BY <1>0, <2>1, <3>1 DEF BroadcastMode
      <3>3. a1[m] = IF link[PortOf[m]] THEN Order("RESET", NOP) ELSE act[m]
        BY <1>0, <3>1, ModesDisjoint DEF Sent, Obey
      <3>4. Obey(cmd'[PortOf[m]], slot[m], Order("RESET", NOP)) = Order("RESET", NOP)
        BY <1>0, <3>2, ModesDisjoint DEF Obey
      <3> HIDE DEF a1
      <3>5. act'[m] = IF link[PortOf[m]] THEN Obey(cmd'[PortOf[m]], slot[m], a1[m]) ELSE a1[m]
        BY <2>2 DEF Sent
      <3> QED
        BY <3>3, <3>4, <3>5
    <2>4. Act!HaltAll("RESET")
      BY <1>a, <2>3, HaltedIsHaltAll
    <2>5. Act!Halt("RESET")
      BY <2>2, <2>4 DEF Act!Halt, Reach, Latched
    <2> QED
      BY <1>0, <2>5 DEF Act!Next
  <1>9. CASE DetectMotorLimit
    <2>1. StopAll("STOP") /\ running /\ ~Latched /\ UNCHANGED <<link, running>>
      BY <1>9 DEF DetectMotorLimit
    <2>2. Latched' = TRUE /\ Reach' = Reach
      BY <1>9 DEF DetectMotorLimit, Latched, Reach
    <2>3. Act!HaltAll("STOP")
      BY <1>0, <1>a, <2>1, StopAllEffect, HaltedIsHaltAll
    <2>4. Act!LatchLimit
      BY <2>1, <2>2, <2>3 DEF Act!LatchLimit
    <2> QED
      BY <2>4 DEF Act!Next
  <1>10. CASE Destroy
    <2>1. running /\ running' = FALSE /\ UNCHANGED <<link, posLatch, torLatch>>
      BY <1>10 DEF Destroy
    <2>2. PICK md \in {"BRAKE", "RESET"} :
             \A m \in Motor : act'[m] = IF link[PortOf[m]] THEN Order(md, NOP) ELSE act[m]
      BY <1>10, DestroyEffect
    <2>3. Act!HaltAll(md)
      BY <1>0, <1>a, <2>2, HaltedIsHaltAll
    <2>4. Act!Exit
      BY <2>1, <2>3 DEF Act!Exit, Reach, Latched
    <2> QED
      BY <2>4 DEF Act!Next
  <1>11. ASSUME NEW m \in Motor, NEW op \in BOOLEAN, NEW ot \in BOOLEAN, FreshData(m, op, ot)
         PROVE  UNCHANGED Act!vars
    BY <1>11, QuietIsStutter DEF FreshData
  <1>12. ASSUME NEW p \in Port, LinkDown(p) PROVE Act!Next
    <2> DEFINE S == {m \in Motor : PortOf[m] = p}
    <2>1. link' = [link EXCEPT ![p] = FALSE] /\ link \in [Port -> BOOLEAN]
      BY <1>12 DEF LinkDown, IInv, TypeOK
    <2>2. Reach' = Reach \ S
      BY <2>1, BusAssumption DEF Reach
    <2>3. Act!Unreach(S)
      BY <1>12, <2>2 DEF LinkDown, Act!Unreach, Latched
    <2>4. S \in SUBSET Motor
      OBVIOUS
    <2> QED
      BY <2>3, <2>4 DEF Act!Next
  <1>13. ASSUME NEW U \in SUBSET Port, Reconnect(U) PROVE Act!Next
    <2>1. Reach = {}
      BY <1>13, BusAssumption DEF Reconnect, Reach
    <2>2. Act!Regain(Reach')
      BY <1>13, <2>1 DEF Reconnect, Act!Regain, Latched
    <2>3. Reach' \in SUBSET Motor
      BY DEF Reach
    <2> QED
      BY <2>2, <2>3 DEF Act!Next
  <1>14. CASE UNCHANGED vars
    BY <1>14, QuietIsStutter DEF vars
  <1> QED
    BY <1>1, <1>2, <1>3, <1>4, <1>5, <1>6, <1>7, <1>8, <1>9, <1>10, <1>11, <1>12, <1>13, <1>14
    DEF Next, Halt

\* Every behaviour of the command path is one of the abstract motors: the
\* shared buffers never show (robot, canboard, canport, motor).
THEOREM BusImplementsActuators == Spec => ImplementsActuators
  <1>1. Spec => []IInv
    BY SpecInv
  <1> QED
    BY <1>1, InitRefines, StepRefines, PTL DEF Spec, ImplementsActuators, Act!Spec
=============================================================================
