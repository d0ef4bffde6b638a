---------------------- MODULE HardwareInterface_proofs ----------------------
(***************************************************************************)
(* What the hardware interface tells its motors, for any joints, limits    *)
(* and positions.  An order comes from the commands or is a poll or a halt;*)
(* a command that no controller has set is what its motor last answered.   *)
(* What it does to the motors is what Actuators offers, and no more.       *)
(***************************************************************************)
EXTENDS HardwareInterface, TLAPS

\* A command taken from a motor that answered is the position it answered.
Seeded == \A m \in Motor : stood[m] # NOP => cmd[m] = stood[m]

IInv == TypeOK /\ UnreadNeverReachesArm /\ Seeded

AnOrder == [mode : M!PositionMode \cup {"VELOCITY"}, val : Setpoint] \cup [mode : M!HaltMode, val : {NOP}]

-----------------------------------------------------------------------------
(* Orders.                                                                 *)

\* An order a motor of the arm may be left with.
Fine(o) == \A m \in Arm : o[m].val # Unread

LEMMA ToldKeeps ==
  ASSUME NEW S \in SUBSET Motor, NEW md, NEW val,
         order \in [Motor -> AnOrder], Fine(order),
         \A m \in S : M!Order(md, val[m]) \in AnOrder,
         \A m \in S \cap Arm : val[m] # Unread
  PROVE  M!Told(S, md, val) \in [Motor -> AnOrder] /\ Fine(M!Told(S, md, val))
<1> DEFINE o == M!Told(S, md, val)
<1>1. o = [m \in Motor |-> IF m \in S /\ m \in reach THEN M!Order(md, val[m]) ELSE order[m]]
  BY DEF M!Told
<1>2. ASSUME NEW m \in Motor PROVE o[m] \in AnOrder
  BY <1>1, <1>2
<1>3. o \in [Motor -> AnOrder]
  BY <1>1, <1>2
<1>4. ASSUME NEW m \in Arm PROVE o[m].val # Unread
  <2>1. m \in Motor
    BY HardwareAssumption
  <2>2. CASE m \in S /\ m \in reach
    <3>1. o[m] = [mode |-> md, val |-> val[m]]
      BY <1>1, <2>1, <2>2 DEF M!Order
    <3> QED BY <2>2, <3>1
  <2>3. CASE ~(m \in S /\ m \in reach)
    <3>1. o[m] = order[m]
      BY <1>1, <2>1, <2>3
    <3> QED BY <3>1 DEF Fine
  <2> QED BY <2>2, <2>3
<1> QED BY <1>3, <1>4 DEF Fine

LEMMA HaltKeeps ==
  ASSUME order \in [Motor -> AnOrder], Fine(order), NEW md \in {"BRAKE", "RESET"}, M!HaltAll(md)
  PROVE  /\ order' \in [Motor -> AnOrder] /\ Fine(order')
         /\ \A m \in Motor : order'[m] # order[m] => order'[m].mode = md
<1> DEFINE val == [m \in Motor |-> NOP]
<1>1. order' = M!Told(Motor, md, val)
  BY DEF M!HaltAll
<1>2. NOP # Unread
  BY HardwareAssumption
<1>3. \A m \in Motor : M!Order(md, val[m]) \in AnOrder
  BY DEF M!Order, AnOrder, M!HaltMode
<1>4. order' \in [Motor -> AnOrder] /\ Fine(order')
  BY <1>1, <1>2, <1>3, HardwareAssumption, ToldKeeps
<1>5. \A m \in Motor : order'[m] # order[m] => order'[m].mode = md
  BY <1>1 DEF M!Told, M!Order
<1> QED BY <1>4, <1>5

LEMMA PollKeeps ==
  ASSUME IInv, M!LegacyPoll
  PROVE  /\ order' \in [Motor -> AnOrder] /\ Fine(order') /\ UNCHANGED <<reach, latched, running>>
         /\ \A m \in Motor : order'[m] # order[m] => order'[m].mode = "VELOCITY"
<1> DEFINE val == [m \in Motor |-> Zero]
<1>1. /\ order' = IF latched THEN order ELSE M!Told(Motor, "VELOCITY", val)
      /\ UNCHANGED <<reach, latched, running>>
  BY DEF M!LegacyPoll, M!Drive
<1>2. order \in [Motor -> AnOrder] /\ Fine(order) /\ latched = FALSE
  BY DEF IInv, TypeOK, AnOrder, UnreadNeverReachesArm, Fine
<1>3. \A m \in Motor : M!Order("VELOCITY", val[m]) \in AnOrder /\ val[m] # Unread
  BY HardwareAssumption DEF M!Order, AnOrder
<1>4. order' = M!Told(Motor, "VELOCITY", val)
  BY <1>1, <1>2
<1>5. order' \in [Motor -> AnOrder] /\ Fine(order')
  BY <1>2, <1>3, <1>4, HardwareAssumption, ToldKeeps
<1>6. \A m \in Motor : order'[m] # order[m] => order'[m].mode = "VELOCITY"
  BY <1>4 DEF M!Told, M!Order
<1> QED BY <1>1, <1>5, <1>6

\* A motion call that takes its targets from the commands.
LEMMA DriveKeeps ==
  ASSUME IInv, NEW S \in SUBSET Motor, NEW md \in M!PositionMode, NEW val,
         \A m \in S : val[m] = cmd[m], M!Drive(S, md, val),
         \A m \in S \cap Arm : cmd[m] # Unread
  PROVE  /\ order' \in [Motor -> AnOrder] /\ Fine(order') /\ UNCHANGED <<reach, latched, running>>
         /\ \A m \in Motor : order'[m] # order[m] => order'[m].val = cmd[m]
<1>1. /\ order' = IF latched THEN order ELSE M!Told(S, md, val)
      /\ UNCHANGED <<reach, latched, running>>
  BY DEF M!Drive
<1>2. order \in [Motor -> AnOrder] /\ Fine(order) /\ latched = FALSE /\ cmd \in [Motor -> Setpoint]
  BY DEF IInv, TypeOK, AnOrder, UnreadNeverReachesArm, Fine
<1>3. \A m \in S : M!Order(md, val[m]) \in AnOrder
  BY <1>2 DEF M!Order, AnOrder
<1>4. order' = M!Told(S, md, val)
  BY <1>1, <1>2
<1>5. order' \in [Motor -> AnOrder] /\ Fine(order')
  BY <1>2, <1>3, <1>4, ToldKeeps
<1>6. \A m \in Motor : order'[m] # order[m] => order'[m].val = cmd[m]
  BY <1>4 DEF M!Told, M!Order
<1> QED BY <1>1, <1>5, <1>6

-----------------------------------------------------------------------------
(* Steps.                                                                  *)

\* What a step does to the orders, and to the rest.
StaysPut ==
    \A m \in Motor :
        stood[m] # NOP /\ order'[m] # order[m] /\ order'[m].mode \in M!PositionMode
           => order'[m].val = stood[m]

MotorsFine ==
    /\ order' \in [Motor -> AnOrder] /\ Fine(order') /\ StaysPut
    /\ reach' \subseteq Motor /\ latched' = FALSE /\ running' \in BOOLEAN

RestType ==
    /\ mode \in ControlMode /\ built \in BOOLEAN
    /\ life \in {"unconfigured", "inactive", "active", "finalized"}
    /\ step \in {"read", "update", "arm", "gripper"}
    /\ pos \in [Motor -> Setpoint \ {Unread}]
    /\ data \in [Motor -> Setpoint] /\ cmd \in [Motor -> Setpoint]
    /\ stood \in [Motor -> Setpoint \cup {NOP}]

LEMMA StepParts ==
  ASSUME MotorsFine, RestType', Seeded'
  PROVE  IInv'
<1>1. TypeOK'
  BY DEF MotorsFine, RestType, TypeOK, AnOrder
<1>2. UnreadNeverReachesArm'
  BY DEF MotorsFine, Fine, UnreadNeverReachesArm
<1> QED BY <1>1, <1>2 DEF IInv

LEMMA StillMotors ==
  ASSUME IInv, UNCHANGED motors
  PROVE  MotorsFine
BY DEF IInv, TypeOK, AnOrder, UnreadNeverReachesArm, Fine, MotorsFine, StaysPut, motors

LEMMA PolledMotors ==
  ASSUME IInv, M!LegacyPoll \/ UNCHANGED motors
  PROVE  MotorsFine
<1>1. CASE UNCHANGED motors
  BY <1>1, StillMotors
<1>2. CASE M!LegacyPoll
  <2>1. "VELOCITY" \notin M!PositionMode
    BY DEF M!PositionMode
  <2>2. StaysPut
    BY <1>2, <2>1, PollKeeps DEF StaysPut
  <2> QED BY <1>2, <2>2, PollKeeps DEF MotorsFine, IInv, TypeOK
<1> QED BY <1>1, <1>2

LEMMA HaltedMotors ==
  ASSUME IInv, NEW md \in {"BRAKE", "RESET"}, M!HaltAll(md),
         UNCHANGED <<reach, latched>>, running' \in BOOLEAN
  PROVE  MotorsFine
<1>1. order \in [Motor -> AnOrder] /\ Fine(order)
  BY DEF IInv, TypeOK, AnOrder, UnreadNeverReachesArm, Fine
<1>2. md \notin M!PositionMode
  BY DEF M!PositionMode
<1>3. order' \in [Motor -> AnOrder] /\ Fine(order')
  BY <1>1, HaltKeeps
<1>4. StaysPut
  BY <1>1, <1>2, HaltKeeps DEF StaysPut
<1> QED BY <1>3, <1>4 DEF MotorsFine, IInv, TypeOK

\* A motion call for motors whose commands may go out.
LEMMA DrivenMotors ==
  ASSUME IInv, NEW S \in SUBSET Motor, NEW md \in M!PositionMode, NEW val,
         \A m \in S : val[m] = cmd[m], M!Drive(S, md, val),
         \A m \in S \cap Arm : cmd[m] # Unread
  PROVE  MotorsFine
<1>1. /\ order' \in [Motor -> AnOrder] /\ Fine(order') /\ UNCHANGED <<reach, latched, running>>
      /\ \A m \in Motor : order'[m] # order[m] => order'[m].val = cmd[m]
  BY DriveKeeps
<1>2. StaysPut
  BY <1>1 DEF StaysPut, IInv, Seeded
<1> QED BY <1>1, <1>2 DEF MotorsFine, IInv, TypeOK

\* The commands become the positions of the motors in S, and of the others
\* what was read before.
LEMMA SeedKeeps ==
  ASSUME IInv, NEW S \in SUBSET Motor, NEW old \in [Motor -> Setpoint], Answer(S, old), Seed(S)
  PROVE  /\ data' \in [Motor -> Setpoint] /\ cmd' \in [Motor -> Setpoint]
         /\ stood' \in [Motor -> Setpoint \cup {NOP}] /\ Seeded'
<1>1. /\ data' = [m \in Motor |-> IF m \in S THEN pos[m] ELSE old[m]]
      /\ cmd' = data'
      /\ stood' = [m \in Motor |-> IF m \in S THEN pos[m] ELSE NOP]
  BY DEF Answer, Seed
<1>2. pos \in [Motor -> Setpoint \ {Unread}]
  BY DEF IInv, TypeOK
<1>3. data' \in [Motor -> Setpoint] /\ stood' \in [Motor -> Setpoint \cup {NOP}]
  BY <1>1, <1>2
<1>4. Seeded'
  BY <1>1 DEF Seeded
<1> QED BY <1>1, <1>3, <1>4

LEMMA InitHolds == Init => IInv
<1> SUFFICES ASSUME Init PROVE IInv
  OBVIOUS
<1>1. order = IF FunV < 2 THEN [m \in Motor |-> M!Order("VELOCITY", Zero)]
                         ELSE [m \in Motor |-> M!Order("RESET", NOP)]
  BY DEF Init, M!Init
<1>2. order \in [Motor -> AnOrder] /\ Fine(order)
  <2>1. M!Order("VELOCITY", Zero) \in AnOrder /\ M!Order("RESET", NOP) \in AnOrder
    BY HardwareAssumption DEF M!Order, AnOrder, M!HaltMode
  <2>2. M!Order("VELOCITY", Zero).val # Unread /\ M!Order("RESET", NOP).val # Unread
    BY HardwareAssumption DEF M!Order
  <2> QED BY <1>1, <2>1, <2>2, HardwareAssumption DEF Fine
<1>3. RestType
  BY HardwareAssumption DEF Init, RestType
<1>4. TypeOK
  BY <1>2, <1>3 DEF Init, M!Init, TypeOK, RestType, AnOrder
<1>5. Seeded
  BY DEF Init, Seeded
<1> QED BY <1>2, <1>4, <1>5 DEF IInv, UnreadNeverReachesArm, Fine

LEMMA LifecycleKeeps ==
  ASSUME IInv, Lifecycle
  PROVE  IInv' /\ StaysPut
<1>0. RestType /\ Seeded
  BY DEF IInv, TypeOK, RestType
<1>1. ASSUME NEW S \in SUBSET Motor, OnConfigure(S)
      PROVE  MotorsFine /\ RestType' /\ Seeded'
  <2>1. /\ Answer(S, [m \in Motor |-> Unread]) /\ Seed(S)
        /\ life' = "inactive" /\ built' = TRUE /\ UNCHANGED <<mode, step, pos>>
    BY <1>1 DEF OnConfigure
  <2>2. [m \in Motor |-> Unread] \in [Motor -> Setpoint]
    BY HardwareAssumption
  <2>3. /\ data' \in [Motor -> Setpoint] /\ cmd' \in [Motor -> Setpoint]
        /\ stood' \in [Motor -> Setpoint \cup {NOP}] /\ Seeded'
    BY <2>1, <2>2, SeedKeeps
  <2>4. RestType'
    BY <1>0, <2>1, <2>3 DEF RestType
  <2>5. CASE FunV < 2
    <3>1. M!LegacyPoll
      BY <1>1, <2>5 DEF OnConfigure
    <3> QED BY <2>3, <2>4, <3>1, PolledMotors
  <2>6. CASE ~(FunV < 2) /\ built
    <3>1. \E md \in {"BRAKE", "RESET"} : M!HaltAll(md)
      BY <1>1, <2>6 DEF OnConfigure
    <3>2. UNCHANGED <<reach, latched, running>> /\ running \in BOOLEAN
      BY <1>1, <2>6 DEF OnConfigure, IInv, TypeOK
    <3> QED BY <2>3, <2>4, <3>1, <3>2, HaltedMotors
  <2>7. CASE ~(FunV < 2) /\ ~built
    <3>1. UNCHANGED motors
      BY <1>1, <2>7 DEF OnConfigure, motors
    <3> QED BY <2>3, <2>4, <3>1, StillMotors
  <2> QED BY <2>5, <2>6, <2>7
<1>2. ASSUME NEW S \in SUBSET Motor, OnActivate(S)
      PROVE  MotorsFine /\ RestType' /\ Seeded'
  <2>1. /\ Answer(S, data) /\ Seed(S) /\ life' = "active" /\ Poll
        /\ UNCHANGED <<mode, built, step, pos>>
    BY <1>2 DEF OnActivate
  <2>2. /\ data' \in [Motor -> Setpoint] /\ cmd' \in [Motor -> Setpoint]
        /\ stood' \in [Motor -> Setpoint \cup {NOP}] /\ Seeded'
    BY <1>0, <2>1, SeedKeeps DEF RestType
  <2>3. RestType'
    BY <1>0, <2>1, <2>2 DEF RestType
  <2>4. M!LegacyPoll \/ UNCHANGED motors
    BY <2>1 DEF Poll
  <2> QED BY <2>2, <2>3, <2>4, PolledMotors
<1>3. CASE ConfigureFails \/ OnDeactivate \/ OnCleanup
  <2>1. /\ UNCHANGED <<motors, mode, built, step, pos, data, cmd, stood>>
        /\ life' \in {"unconfigured", "inactive", "active", "finalized"}
    BY <1>3 DEF ConfigureFails, OnDeactivate, OnCleanup
  <2>2. RestType' /\ Seeded'
    BY <1>0, <2>1 DEF RestType, Seeded
  <2> QED BY <2>1, <2>2, StillMotors, StepParts DEF MotorsFine
<1>4. CASE Unload
  <2>1. /\ IF built THEN M!Exit ELSE running' = FALSE /\ UNCHANGED <<order, reach, latched>>
        /\ life' = "finalized" /\ built' = FALSE
        /\ UNCHANGED <<mode, step, pos, data, cmd, stood>>
    BY <1>4 DEF Unload
  <2>2. RestType' /\ Seeded'
    BY <1>0, <2>1 DEF RestType, Seeded
  <2>3. CASE built
    <3>1. /\ \E md \in {"BRAKE", "RESET"} : M!HaltAll(md)
          /\ running' = FALSE /\ UNCHANGED <<reach, latched>>
      BY <2>1, <2>3 DEF M!Exit
    <3> QED BY <2>2, <3>1, HaltedMotors, StepParts DEF MotorsFine
  <2>4. CASE ~built
    <3>1. running' = FALSE /\ UNCHANGED <<order, reach, latched>>
      BY <2>1, <2>4
    <3>2. MotorsFine
      BY <3>1 DEF IInv, TypeOK, AnOrder, UnreadNeverReachesArm, Fine, MotorsFine, StaysPut
    <3> QED BY <2>2, <3>2, StepParts DEF MotorsFine
  <2> QED BY <2>3, <2>4
<1> QED BY <1>1, <1>2, <1>3, <1>4, StepParts DEF Lifecycle, MotorsFine

LEMMA CycleKeeps ==
  ASSUME IInv, Cycle
  PROVE  IInv' /\ StaysPut
<1>0. RestType /\ Seeded
  BY DEF IInv, TypeOK, RestType
<1>1. ASSUME NEW S \in SUBSET Motor, Read(S)
      PROVE  MotorsFine /\ RestType' /\ Seeded'
  <2>1. /\ data' = [m \in Motor |-> IF m \in S THEN pos[m] ELSE data[m]]
        /\ step' = "update" /\ Poll /\ UNCHANGED <<mode, built, life, pos, cmd, stood>>
    BY <1>1 DEF Read, Answer
  <2>2. data' \in [Motor -> Setpoint]
    BY <1>0, <2>1 DEF RestType
  <2>3. RestType' /\ Seeded'
    BY <1>0, <2>1, <2>2 DEF RestType, Seeded
  <2>4. M!LegacyPoll \/ UNCHANGED motors
    BY <2>1 DEF Poll
  <2> QED BY <2>3, <2>4, PolledMotors
<1>2. CASE UpdateNothing \/ WriteFails
  <2>1. /\ UNCHANGED <<motors, mode, built, pos, data, cmd, stood>>
        /\ step' \in {step, "arm"} /\ life' \in {life, "finalized"}
    BY <1>2 DEF UpdateNothing, WriteFails
  <2>2. RestType' /\ Seeded'
    BY <1>0, <2>1 DEF RestType, Seeded
  <2> QED BY <2>1, <2>2, StillMotors, StepParts DEF MotorsFine
<1>3. ASSUME NEW m \in Motor, NEW v \in Setpoint, Update(m, v)
      PROVE  MotorsFine /\ RestType' /\ Seeded'
  <2>1. /\ cmd' = [cmd EXCEPT ![m] = v] /\ stood' = [stood EXCEPT ![m] = NOP]
        /\ step' = "arm" /\ UNCHANGED <<motors, mode, built, life, pos, data>>
    BY <1>3 DEF Update
  <2>2. cmd' \in [Motor -> Setpoint] /\ stood' \in [Motor -> Setpoint \cup {NOP}]
    BY <1>0, <2>1 DEF RestType
  <2>3. RestType'
    BY <1>0, <2>1, <2>2 DEF RestType
  <2>4. Seeded'
    BY <1>0, <2>1 DEF RestType, Seeded
  <2> QED BY <2>1, <2>3, <2>4, StillMotors
<1>4. CASE WriteArm
  <2>1. /\ IF ArmLegal THEN M!Drive(Arm, ArmMode, cmd) ELSE UNCHANGED motors
        /\ step' = "gripper" /\ UNCHANGED <<mode, built, life, pos, data, cmd, stood>>
    BY <1>4 DEF WriteArm
  <2>2. RestType' /\ Seeded'
    BY <1>0, <2>1 DEF RestType, Seeded
  <2>3. CASE ArmLegal
    <3>1. Arm \in SUBSET Motor /\ \A m \in Arm : cmd[m] # Unread
      BY <2>3, HardwareAssumption DEF ArmLegal
    <3>2. ArmMode \in M!PositionMode
      BY DEF ArmMode, M!PositionMode
    <3>3. M!Drive(Arm, ArmMode, cmd)
      BY <2>1, <2>3
    <3>4. MotorsFine
      BY <3>1, <3>2, <3>3, DrivenMotors
    <3> QED BY <2>2, <3>4, StepParts DEF MotorsFine
  <2>4. CASE ~ArmLegal
    BY <2>1, <2>2, <2>4, StillMotors, StepParts DEF MotorsFine
  <2> QED BY <2>3, <2>4
<1>5. CASE WriteGripper
  <2>1. /\ M!Drive({Gripper}, GripperMode, [m \in {Gripper} |-> cmd[Gripper]])
        /\ step' = "read" /\ UNCHANGED <<mode, built, life, pos, data, cmd, stood>>
    BY <1>5 DEF WriteGripper, M!MoveGripper
  <2>2. RestType' /\ Seeded'
    BY <1>0, <2>1 DEF RestType, Seeded
  <2>3. GripperMode \in M!PositionMode
    BY DEF GripperMode, M!PositionMode
  <2>4. {Gripper} \in SUBSET Motor /\ {Gripper} \cap Arm = {}
    BY HardwareAssumption
  <2>5. \A m \in {Gripper} : [n \in {Gripper} |-> cmd[Gripper]][m] = cmd[m]
    OBVIOUS
  <2>6. MotorsFine
    BY <2>1, <2>3, <2>4, <2>5, DrivenMotors
  <2> QED BY <2>2, <2>6, StepParts DEF MotorsFine
<1> QED BY <1>1, <1>2, <1>3, <1>4, <1>5, StepParts DEF Cycle, MotorsFine

LEMMA StepKeeps ==
  ASSUME IInv, [Next]_vars
  PROVE  IInv' /\ [StaysPut]_vars
<1>0. RestType /\ Seeded
  BY DEF IInv, TypeOK, RestType
<1>1. CASE Cycle
  BY <1>1, CycleKeeps
<1>2. CASE Lifecycle
  BY <1>2, LifecycleKeeps
<1>3. ASSUME NEW L \in Links, LinkDown(L)
      PROVE  MotorsFine /\ RestType' /\ Seeded'
  <2>1. reach' = reach \ L /\ UNCHANGED <<order, latched, running, mode, built, life, step, pos, data, cmd, stood>>
    BY <1>3 DEF LinkDown, M!Unreach
  <2>2. MotorsFine
    BY <2>1 DEF IInv, TypeOK, AnOrder, UnreadNeverReachesArm, Fine, MotorsFine, StaysPut
  <2>3. RestType' /\ Seeded'
    BY <1>0, <2>1 DEF RestType, Seeded
  <2> QED BY <2>2, <2>3
<1>4. ASSUME NEW m \in Motor, NEW p \in Setpoint \ {Unread}, Moves(m, p)
      PROVE  MotorsFine /\ RestType' /\ Seeded'
  <2>1. /\ pos' = [pos EXCEPT ![m] = p]
        /\ UNCHANGED <<motors, mode, built, life, step, data, cmd, stood>>
    BY <1>4 DEF Moves
  <2>2. pos' \in [Motor -> Setpoint \ {Unread}]
    BY <1>0, <2>1 DEF RestType
  <2>3. RestType' /\ Seeded'
    BY <1>0, <2>1, <2>2 DEF RestType, Seeded
  <2> QED BY <2>1, <2>3, StillMotors
<1>5. ASSUME NEW U \in SUBSET Links, Reconnect(U)
      PROVE  MotorsFine /\ RestType' /\ Seeded'
  <2>0. UNION U \subseteq Motor
    BY HardwareAssumption
  <2>1. /\ reach' = UNION U /\ data' = [m \in Motor |-> Unread]
        /\ UNCHANGED <<order, latched, running, mode, built, life, step, pos, cmd, stood>>
    BY <1>5 DEF Reconnect, M!Regain
  <2>2. MotorsFine
    BY <2>0, <2>1 DEF IInv, TypeOK, AnOrder, UnreadNeverReachesArm, Fine, MotorsFine, StaysPut
  <2>3. RestType' /\ Seeded'
    BY <1>0, <2>1, HardwareAssumption DEF RestType, Seeded
  <2> QED BY <2>2, <2>3
<1>6. CASE UNCHANGED vars
  <2>1. RestType' /\ Seeded'
    BY <1>0, <1>6 DEF RestType, Seeded, vars
  <2>2. MotorsFine
    BY <1>6, StillMotors DEF vars, motors
  <2> QED BY <2>1, <2>2, StepParts DEF MotorsFine
<1> QED BY <1>1, <1>2, <1>3, <1>4, <1>5, <1>6, StepParts DEF Next, MotorsFine

-----------------------------------------------------------------------------
(* The theorems.                                                           *)

LEMMA Invariance == Spec => []IInv
BY InitHolds, StepKeeps, PTL DEF Spec

\* Every variable of the interface keeps its type, and no limit is ever latched.
THEOREM HardwareTypeCorrect == Spec => []TypeOK
<1>1. IInv => TypeOK
  BY DEF IInv
<1> QED BY <1>1, Invariance, PTL

\* The position of a motor that never answered is not told to the arm.
THEOREM UnreadStaysOut == Spec => []UnreadNeverReachesArm
<1>1. IInv => UnreadNeverReachesArm
  BY DEF IInv
<1> QED BY <1>1, Invariance, PTL

\* A motor nobody commanded is told to stay where it stood when it was seeded.
THEOREM UncommandedMotorsStay == Spec => UncommandedStaysPut
<1>1. IInv /\ [Next]_vars => [StaysPut]_vars
  BY StepKeeps
<1> QED BY <1>1, Invariance, PTL DEF Spec, UncommandedStaysPut, StaysPut

-----------------------------------------------------------------------------
(* The interface on top of the SDK.                                        *)

\* The robot object lives as long as the interface: every callback that calls it finds it.
Alive == life # "finalized" => running

\* A step that is a call Actuators offers, or nothing for the motors.
SdkCall == M!Next \/ UNCHANGED motors

LEMMA PollCalls == Poll => SdkCall
  BY DEF Poll, SdkCall, M!Next

LEMMA ModesFit ==
  /\ ArmMode \in M!PositionMode /\ GripperMode \in M!PositionMode
  /\ \A md \in {"BRAKE", "RESET"} : md \in M!HaltMode
  /\ \A md \in M!HaltMode : md \notin M!PositionMode
  /\ "VELOCITY" \notin M!PositionMode /\ "STOP" \in M!HaltMode
BY DEF ArmMode, GripperMode, M!PositionMode, M!HaltMode

\* The arm's part of the commands, as the call takes them.
LEMMA WriteArmCalls ==
  ASSUME TypeOK, ArmLegal, M!Drive(Arm, ArmMode, cmd)
  PROVE  SdkCall
<1> DEFINE p == [m \in Arm |-> cmd[m]]
<1>1. Arm \subseteq Motor /\ cmd \in [Motor -> Setpoint]
  BY HardwareAssumption DEF TypeOK
<1>2. p \in [Arm -> Setpoint] /\ \A m \in Arm : p[m] = cmd[m]
  BY <1>1
<1>3. \A m \in Arm : p[m] \in Legal
  BY <1>2 DEF ArmLegal
<1> HIDE DEF p
<1>4. M!Told(Arm, ArmMode, p) = M!Told(Arm, ArmMode, cmd)
  <2> DEFINE One(val, m) == IF m \in Arm /\ m \in reach THEN M!Order(ArmMode, val[m]) ELSE order[m]
  <2>1. \A m \in Motor : One(p, m) = One(cmd, m)
    BY <1>2
  <2>2. /\ M!Told(Arm, ArmMode, p) = [m \in Motor |-> One(p, m)]
        /\ M!Told(Arm, ArmMode, cmd) = [m \in Motor |-> One(cmd, m)]
    BY DEF M!Told
  <2> HIDE DEF One
  <2> QED BY <2>1, <2>2
<1>5. M!MoveArm(ArmMode, p)
  BY <1>3, <1>4 DEF M!MoveArm, M!Drive
<1>6. M!Next
  BY <1>2, <1>5, ModesFit DEF M!Next
<1> QED BY <1>6 DEF SdkCall

LEMMA CycleCalls == TypeOK /\ Cycle => SdkCall
<1> SUFFICES ASSUME TypeOK, Cycle PROVE SdkCall
  OBVIOUS
<1>1. CASE \E S \in SUBSET Motor : Read(S)
  BY <1>1, PollCalls DEF Read
<1>2. CASE \/ UpdateNothing \/ WriteFails
           \/ \E m \in Motor, v \in Setpoint \ {Unread} : Update(m, v)
  BY <1>2 DEF UpdateNothing, WriteFails, Update, SdkCall
<1>3. CASE WriteArm
  <2>1. CASE ArmLegal
    BY <1>3, <2>1, WriteArmCalls DEF WriteArm
  <2>2. CASE ~ArmLegal
    BY <1>3, <2>2 DEF WriteArm, SdkCall
  <2> QED BY <2>1, <2>2
<1>4. CASE WriteGripper
  <2>1. cmd[Gripper] \in Setpoint /\ M!MoveGripper(GripperMode, cmd[Gripper])
    BY <1>4, HardwareAssumption DEF WriteGripper, TypeOK
  <2>2. M!Next
    BY <2>1, ModesFit DEF M!Next
  <2> QED BY <2>2 DEF SdkCall
<1> QED BY <1>1, <1>2, <1>3, <1>4 DEF Cycle

LEMMA LifecycleCalls ==
  TypeOK /\ Alive /\ Lifecycle => /\ SdkCall \/ (Unload /\ ~built)
                                  /\ Alive'
<1> SUFFICES ASSUME TypeOK, Alive, Lifecycle
             PROVE  (SdkCall \/ (Unload /\ ~built)) /\ Alive'
  OBVIOUS
<1>1. ASSUME NEW S \in SUBSET Motor, OnActivate(S) PROVE SdkCall /\ Alive'
  <2>1. running' = running
    BY <1>1 DEF OnActivate, Poll, M!LegacyPoll, M!Drive, motors
  <2> QED BY <1>1, <2>1, PollCalls DEF OnActivate, Alive
<1>2. ASSUME NEW S \in SUBSET Motor, OnConfigure(S) PROVE SdkCall /\ Alive'
  <2>1. running
    BY <1>2 DEF OnConfigure, Alive
  <2>2. CASE M!LegacyPoll
    BY <2>1, <2>2 DEF M!LegacyPoll, M!Drive, M!Next, SdkCall, Alive
  <2>3. CASE /\ UNCHANGED <<reach, latched, running>>
             /\ \E md \in {"BRAKE", "RESET"} : M!HaltAll(md)
    <3>1. M!Next
      BY <2>1, <2>3, ModesFit DEF M!Halt, M!Next
    <3> QED BY <2>1, <2>3, <3>1 DEF SdkCall, Alive
  <2>4. CASE UNCHANGED motors
    BY <2>1, <2>4 DEF motors, SdkCall, Alive
  <2> QED BY <1>2, <2>2, <2>3, <2>4 DEF OnConfigure, motors
<1>3. CASE ConfigureFails \/ OnDeactivate \/ OnCleanup
  BY <1>3 DEF ConfigureFails, OnDeactivate, OnCleanup, SdkCall, Alive, motors
<1>4. CASE Unload
  <2>1. CASE built
    BY <1>4, <2>1 DEF Unload, SdkCall, M!Next, Alive
  <2>2. CASE ~built
    BY <1>4, <2>2 DEF Unload, Alive
  <2> QED BY <2>1, <2>2
<1> QED BY <1>1, <1>2, <1>3, <1>4 DEF Lifecycle

LEMMA StepCalls ==
  TypeOK /\ Alive /\ [Next]_vars => [M!Next \/ (Unload /\ ~built)]_motors /\ Alive'
<1> SUFFICES ASSUME TypeOK, Alive, [Next]_vars
             PROVE  (SdkCall \/ (Unload /\ ~built)) /\ Alive'
  BY DEF SdkCall
<1>1. CASE Cycle
  <2>1. running' = running /\ (life' = life \/ life' = "finalized")
    BY <1>1 DEF Cycle, Read, UpdateNothing, Update, WriteArm, WriteGripper, WriteFails,
                Poll, M!LegacyPoll, M!MoveGripper, M!Drive, motors
  <2> QED BY <1>1, <2>1, CycleCalls DEF Alive
<1>2. CASE Lifecycle
  BY <1>2, LifecycleCalls
<1>3. ASSUME NEW L \in Links, LinkDown(L) PROVE SdkCall /\ Alive'
  <2>1. M!Next
    BY <1>3, HardwareAssumption DEF LinkDown, M!Next
  <2> QED BY <1>3, <2>1 DEF LinkDown, M!Unreach, SdkCall, Alive
<1>4. ASSUME NEW m \in Motor, NEW p \in Setpoint \ {Unread}, Moves(m, p) PROVE SdkCall /\ Alive'
  BY <1>4 DEF Moves, SdkCall, Alive, motors
<1>5. ASSUME NEW U \in SUBSET Links, Reconnect(U) PROVE SdkCall /\ Alive'
  <2>0. UNION U \subseteq Motor
    BY HardwareAssumption
  <2>1. M!Next
    BY <1>5, <2>0 DEF Reconnect, M!Next
  <2> QED BY <1>5, <2>1 DEF Reconnect, M!Regain, SdkCall, Alive
<1>6. CASE UNCHANGED vars
  BY <1>6 DEF vars, SdkCall, Alive, motors
<1> QED BY <1>1, <1>2, <1>3, <1>4, <1>5, <1>6 DEF Next

\* An arm motor under a position order is told a position inside the joint limits
\* (checkJointLimits, write).
OrdersAreLegal ==
    \A m \in Arm : order[m].mode \in M!PositionMode => order[m].val \in Legal

\* Whatever uses the SDK: MoveArm is the one call that gives an arm motor a position.
LEMMA CallsKeepLegal ==
  ASSUME OrdersAreLegal, M!Next
  PROVE  OrdersAreLegal'
<1>0. /\ Arm \subseteq Motor /\ Gripper \notin Arm
      /\ \A md, v : M!Order(md, v).mode = md /\ M!Order(md, v).val = v
  BY HardwareAssumption DEF M!Order
<1>1. ASSUME NEW md \in M!PositionMode, NEW p \in [Arm -> Setpoint], M!MoveArm(md, p)
      PROVE  OrdersAreLegal'
  <2>1. order' = order \/ order' = M!Told(Arm, md, p)
    BY <1>1 DEF M!MoveArm, M!Drive
  <2>2. \A m \in Arm : order'[m] = order[m] \/ order'[m] = M!Order(md, p[m])
    BY <1>0, <2>1 DEF M!Told
  <2>3. \A m \in Arm : p[m] \in Legal
    BY <1>1 DEF M!MoveArm
  <2> QED BY <1>0, <2>2, <2>3 DEF OrdersAreLegal
<1>2. ASSUME NEW md \in M!PositionMode, NEW v \in Setpoint, M!MoveGripper(md, v)
      PROVE  OrdersAreLegal'
  <2>1. \A m \in Arm : order'[m] = order[m]
    BY <1>0, <1>2 DEF M!MoveGripper, M!Drive, M!Told
  <2> QED BY <2>1 DEF OrdersAreLegal
<1>3. ASSUME NEW md \in M!HaltMode, M!HaltAll(md) PROVE OrdersAreLegal'
  <2>1. \A m \in Arm : order'[m] = order[m] \/ order'[m].mode = md
    BY <1>0, <1>3 DEF M!HaltAll, M!Told
  <2> QED BY <2>1, <1>3, ModesFit DEF OrdersAreLegal
<1>4. CASE M!LegacyPoll
  <2>1. \A m \in Arm : order'[m] = order[m] \/ order'[m].mode = "VELOCITY"
    BY <1>0, <1>4 DEF M!LegacyPoll, M!Drive, M!Told
  <2> QED BY <2>1, ModesFit DEF OrdersAreLegal
<1>5. CASE \E S \in SUBSET Motor : M!Unreach(S) \/ M!Regain(S)
  BY <1>5 DEF M!Unreach, M!Regain, OrdersAreLegal
<1>6. M!LatchLimit => M!HaltAll("STOP")
  BY DEF M!LatchLimit
<1>7. M!Exit => \E md \in M!HaltMode : M!HaltAll(md)
  BY DEF M!Exit, M!HaltMode
<1> QED BY <1>1, <1>2, <1>3, <1>4, <1>5, <1>6, <1>7, ModesFit DEF M!Next, M!Halt

LEMMA AliveInit == Init => Alive /\ OrdersAreLegal
<1>1. Init => \A m \in Motor : order[m].mode \notin M!PositionMode
  BY DEF Init, M!Init, M!Order, M!PositionMode
<1> QED BY <1>1, HardwareAssumption DEF Init, M!Init, Alive, OrdersAreLegal

\* PantheraHardwareInterface is a user of the SDK: every step of its lifecycle and of its
\* cycle is one call that Actuators offers, a link lost or regained or nothing for the motors, and it
\* never calls a robot object that is gone; the one exception is an interface unloaded
\* before it was ever configured, with no robot object to halt anything.
THEOREM InterfaceUsesTheSdk == Spec => M!Init /\ [][M!Next \/ (Unload /\ ~built)]_motors
<1>1. Init => M!Init
  BY DEF Init
<1>2. IInv => TypeOK
  BY DEF IInv
<1> QED BY <1>1, <1>2, AliveInit, Invariance, StepCalls, PTL DEF Spec

\* Whatever the controllers command and whichever motors answer, no arm motor is ever
\* under an order to a position outside the joint limits (checkJointLimits in write).
THEOREM OrdersStayLegal == Spec => []OrdersAreLegal
<1>1. OrdersAreLegal /\ [M!Next \/ (Unload /\ ~built)]_motors => OrdersAreLegal'
  BY CallsKeepLegal DEF Unload, motors, OrdersAreLegal
<1>2. IInv => TypeOK
  BY DEF IInv
<1> QED BY <1>1, <1>2, AliveInit, Invariance, StepCalls, PTL DEF Spec
=============================================================================
