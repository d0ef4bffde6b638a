---------------------------- MODULE Teleop_proofs ----------------------------
(***************************************************************************)
(* What is proved of the teleoperation, for any pad and any range of       *)
(* poses: types, that an untouched pad leaves the filters at rest, that    *)
(* few motions begin after the last request, and that a held button is     *)
(* acted on once.                                                          *)
(***************************************************************************)
EXTENDS Teleop, TLAPS

\* The one element of a value that is there.
LEMMA MaybeElement ==
    ASSUME NEW S, NEW x \in Maybe(S), x # <<>>
    PROVE  x[1] \in S /\ x = <<x[1]>>
  BY DEF Maybe

LEMMA MaybeOne ==
    ASSUME NEW S, NEW y \in S
    PROVE  <<y>> \in Maybe(S) /\ <<y>> # <<>>
  BY DEF Maybe

-----------------------------------------------------------------------------
(* The inductive invariant: each of the three properties needs the memory   *)
(* its actions go by.                                                       *)

\* A pad nobody has touched has not reported anything else than zeros, so the
\* trigger's flag is down and no axis asks for anything.
UntouchedPad ==
    ~touched => /\ ~triggerOn
                /\ joy # <<>> => joy[1].stick = 0
                /\ filt = 0

\* The motions that began and those that are still to begin.
Due == late + homes + IF cmds = <<>> THEN 0 ELSE 1

\* The topic holds one command, so no motion is due but that and those to home.
NewestOnly == cmds \in Maybe(Pose) /\ Due <= waited + 1

\* A button that is down and not remembered went down since the last tick.
EdgesAreFresh == joy # <<>> => joy[1].buttons \ downPrev \subseteq fresh

IInv == TypeOK /\ UntouchedPad /\ NewestOnly /\ EdgesAreFresh

LEMMA InitInv == Init => IInv
  <1> SUFFICES ASSUME Init PROVE IInv
    OBVIOUS
  <1>1. cmds \in Seq(Pose) /\ cmds \in Maybe(Pose)
    BY DEF Init, Maybe
  <1>2. TypeOK
    <2>1. joy \in Maybe(Pad) /\ pose \in Maybe(Pose) /\ target \in Maybe(Pose) /\ poses \in Maybe(Pose)
      BY Zenon DEF Init, Maybe
    <2>2. filt \in -1 .. 1 /\ homes \in 0 .. MaxHome /\ late \in Nat /\ waited \in 0 .. MaxHome
      BY TeleopAssumption DEF Init
    <2> QED
      BY <1>1, <2>1, <2>2 DEF Init, TypeOK
  <1>3. UntouchedPad /\ EdgesAreFresh
    BY DEF Init, UntouchedPad, EdgesAreFresh
  <1>4. NewestOnly
    BY <1>1 DEF Init, NewestOnly, Due
  <1> QED
    BY <1>2, <1>3, <1>4 DEF IInv

-----------------------------------------------------------------------------
(* A tick, apart from the question what it publishes.                      *)

\* The reports of the pad are reports of a pad.
LEMMA LastReport ==
    ASSUME TypeOK, joy # <<>>
    PROVE  /\ joy[1] \in Pad
           /\ joy[1].deadman \in Deadman
           /\ joy[1].stick \in -1 .. 1
           /\ joy[1].trigger \in -1 .. 1
           /\ joy[1].buttons \subseteq Button
  <1>1. joy[1] \in Pad
    BY MaybeElement DEF TypeOK
  <1>2. joy[1] \in Joy
    BY <1>1, TeleopAssumption
  <1> QED
    BY <1>1, <1>2 DEF Joy

\* What passes the filters has been asked for.
LEMMA FilterType ==
    ASSUME TypeOK, joy # <<>>, NEW down,
           NEW f \in Filtered(Base(joy[1], down), Input(joy[1]))
    PROVE  /\ f \in -1 .. 1
           /\ Input(joy[1]) = 0 /\ filt = 0 => f = 0
  <1>1. Input(joy[1]) \in -1 .. 1
    BY LastReport DEF Input, Lift
  <1>2. Base(joy[1], down) \in {0, filt}
    BY DEF Base
  <1>3. f \in {Base(joy[1], down), 0, Input(joy[1])}
    BY DEF Filtered
  <1>4. 0 \in -1 .. 1 /\ filt \in -1 .. 1
    BY DEF TypeOK
  <1> QED
    BY <1>1, <1>2, <1>3, <1>4

\* One tick: f is what passes the filters, the axes at rest let nothing pass.
LEMMA TickInv == IInv /\ ControlLoop => IInv'
  <1> SUFFICES ASSUME IInv, ControlLoop PROVE IInv'
    OBVIOUS
  <1> DEFINE j    == joy[1]
             down == j.buttons \ downPrev
             pub(f) == (Held(j) /\ f # 0) \/ down \cap {"open", "close"} # {}
  <1>0. /\ TypeOK /\ joy # <<>> /\ pose # <<>> /\ target # <<>>
        /\ UNCHANGED <<joy, triggerOn, pose, poses, armNode, touched>>
    BY DEF ControlLoop, IInv
  <1>1. PICK f \in Filtered(Base(j, down), Input(j)) :
           /\ filt' = f
           /\ heldPrev' = Held(j)
           /\ downPrev' = j.buttons
           /\ IF pub(f)
              THEN \E d \in Turned(j, f) :
                     /\ Synced(j, down)[1] + d \in Pose
                     /\ cmds' = <<Synced(j, down)[1] + d>>
                     /\ target' = <<Synced(j, down)[1] + d>>
              ELSE target' = Synced(j, down) /\ UNCHANGED cmds
           /\ \E known \in SUBSET down :
                LET asked == IF "open" \in known THEN known \ {"close"} ELSE known
                IN /\ homes' = homes + IF "home" \in asked THEN 1 ELSE 0
                   /\ homes' <= MaxHome
                   /\ sent' = asked
                   /\ fresh' = fresh \ j.buttons
                   /\ IF pub(f) \/ "home" \in asked
                      THEN late' = 0 /\ waited' = homes'
                      ELSE UNCHANGED <<late, waited>>
    BY Zenon DEF ControlLoop, Remember, Publish
  <1>2. f \in -1 .. 1 /\ (Input(j) = 0 /\ filt = 0 => f = 0)
    BY <1>0, FilterType
  <1>3. j.buttons \subseteq Button
    BY <1>0, LastReport
  <1> HIDE DEF j, down, pub
  <1>4. /\ target' \in Maybe(Pose)
        /\ cmds' \in Maybe(Pose) /\ cmds' \in Seq(Pose)
        /\ ~pub(f) => UNCHANGED cmds
    <2>1. CASE pub(f)
      <3>1. PICK p \in Pose : cmds' = <<p>> /\ target' = <<p>>
        BY <1>1, <2>1
      <3> QED
        BY <2>1, <3>1, MaybeOne
    <2>2. CASE ~pub(f)
      <3>1. target' = Synced(j, down) /\ UNCHANGED cmds
        BY <1>1, <2>2
      <3>2. Synced(j, down) \in {pose, target}
        BY DEF Synced
      <3> QED
        BY <3>1, <3>2, <1>0 DEF IInv, NewestOnly, TypeOK
    <2> QED
      BY <2>1, <2>2
  <1>5. /\ homes' \in 0 .. MaxHome /\ sent' \subseteq Button /\ fresh' \subseteq Button
        /\ late' \in Nat /\ waited' \in 0 .. MaxHome /\ Due' <= waited' + 1
    <2>1. PICK known \in SUBSET down :
             LET asked == IF "open" \in known THEN known \ {"close"} ELSE known
             IN /\ homes' = homes + IF "home" \in asked THEN 1 ELSE 0
                /\ homes' <= MaxHome
                /\ sent' = asked
                /\ fresh' = fresh \ j.buttons
                /\ IF pub(f) \/ "home" \in asked
                   THEN late' = 0 /\ waited' = homes'
                   ELSE UNCHANGED <<late, waited>>
      BY <1>1, Zenon
    <2>2. sent' \subseteq known
      BY <2>1
    <2>3. homes \in Nat /\ late \in Nat /\ waited \in 0 .. MaxHome
      BY <1>0, TeleopAssumption DEF TypeOK
    <2>4. \/ /\ homes' = homes \/ homes' = homes + 1
             /\ late' = 0 /\ waited' = homes'
          \/ /\ homes' = homes /\ UNCHANGED <<late, waited>>
             /\ ~pub(f)
      <3>1. homes + 0 = homes
        BY <2>3
      <3> QED
        BY <2>1, <3>1
    <2>5. homes' <= MaxHome
      BY <2>1
    <2>6. homes' \in 0 .. MaxHome /\ late' \in Nat /\ waited' \in 0 .. MaxHome
      BY <2>3, <2>4, <2>5, TeleopAssumption
    <2>7. Due' <= waited' + 1
      <3> DEFINE more  == IF cmds = <<>> THEN 0 ELSE 1
                 more1 == IF cmds' = <<>> THEN 0 ELSE 1
      <3>1. more \in {0, 1} /\ more1 \in {0, 1}
        OBVIOUS
      <3>2. Due = late + homes + more /\ Due' = late' + homes' + more1
        BY DEF Due
      <3>3. ~pub(f) => more1 = more
        BY <1>4
      <3>4. Due <= waited + 1
        BY DEF IInv, NewestOnly
      <3> HIDE DEF more, more1
      <3> QED
        BY <2>3, <2>4, <3>1, <3>2, <3>3, <3>4
    <2>8. down \subseteq Button
      BY <1>3 DEF down
    <2>9. sent' \subseteq Button /\ fresh' \subseteq Button
      BY <2>1, <2>2, <2>8, <1>0 DEF TypeOK
    <2> QED
      BY <2>6, <2>7, <2>9
  <1>6. TypeOK'
    <2>1. heldPrev' \in BOOLEAN /\ filt' \in -1 .. 1 /\ downPrev' \subseteq Button
      BY <1>1, <1>2, <1>3 DEF Held
    <2> QED
      BY <1>0, <1>4, <1>5, <2>1 DEF TypeOK, armNode
  <1>7. UntouchedPad'
    <2> SUFFICES ASSUME ~touched PROVE ~triggerOn /\ joy[1].stick = 0 /\ f = 0
      BY <1>0, <1>1 DEF UntouchedPad
    <2>1. ~triggerOn /\ joy[1].stick = 0 /\ filt = 0
      BY <1>0 DEF IInv, UntouchedPad
    <2>2. Input(j) = 0
      BY <2>1 DEF Input, Lift, j
    <2> QED
      BY <2>1, <2>2, <1>2
  <1>8. EdgesAreFresh'
    BY <1>0, <1>1 DEF EdgesAreFresh, j
  <1> QED
    BY <1>4, <1>5, <1>6, <1>7, <1>8 DEF IInv, NewestOnly

-----------------------------------------------------------------------------
(* The other actions.                                                      *)

LEMMA JoyInv ==
    ASSUME IInv, NEW j \in Pad, NEW hand \in BOOLEAN, JoyCallback(j, hand)
    PROVE  IInv'
  <1>0. TypeOK /\ j \in Joy /\ joy' = <<j>> /\ joy' # <<>>
    BY TeleopAssumption, MaybeOne DEF IInv, JoyCallback
  <1>1. j.buttons \subseteq Button
    BY <1>0 DEF Joy
  <1>2. TypeOK'
    <2>1. joy' \in Maybe(Pad) /\ triggerOn' \in BOOLEAN /\ touched' \in BOOLEAN /\ sent' = {}
      BY <1>0, MaybeOne DEF JoyCallback, TypeOK
    <2>2. fresh' \subseteq Button
      BY <1>0, <1>1 DEF JoyCallback, TypeOK
    <2> QED
      BY <1>0, <2>1, <2>2 DEF JoyCallback, TypeOK, channels, armNode
  <1>3. UntouchedPad'
    BY <1>0 DEF IInv, UntouchedPad, JoyCallback
  <1>4. NewestOnly'
    BY DEF IInv, NewestOnly, Due, JoyCallback, channels
  <1>5. EdgesAreFresh'
    <2> SUFFICES ASSUME NEW b \in j.buttons, b \notin downPrev PROVE b \in fresh'
      BY <1>0 DEF EdgesAreFresh, JoyCallback
    <2>1. CASE joy # <<>> /\ b \in joy[1].buttons
      BY <2>1 DEF IInv, EdgesAreFresh, JoyCallback
    <2>2. CASE ~(joy # <<>> /\ b \in joy[1].buttons)
      BY <2>2 DEF JoyCallback
    <2> QED
      BY <2>1, <2>2
  <1> QED
    BY <1>2, <1>3, <1>4, <1>5 DEF IInv

LEMMA PoseInv == IInv /\ PoseCallback => IInv'
  <1> SUFFICES ASSUME IInv, PoseCallback PROVE IInv'
    OBVIOUS
  <1>1. /\ pose' \in Maybe(Pose) /\ target' \in Maybe(Pose) /\ poses' \in Maybe(Pose) /\ sent' = {}
    BY DEF IInv, TypeOK, PoseCallback, Maybe
  <1>2. UNCHANGED <<joy, triggerOn, filt, heldPrev, downPrev, cmds, homes, armNode, quiet>>
    BY DEF PoseCallback
  <1> QED
    BY <1>1, <1>2 DEF IInv, TypeOK, armNode, quiet, UntouchedPad, NewestOnly, Due, EdgesAreFresh

\* The arm's node touches neither the pad nor what the teleoperation remembers.
LEMMA ArmSide ==
    ASSUME IInv, UNCHANGED <<teleop, touched, fresh, waited>>, sent' = {},
           homes' \in 0 .. MaxHome, poses' \in Maybe(Pose),
           busy' \in BOOLEAN, goal' \in Pose, arm' \in Pose, NewestOnly', late' \in Nat,
           cmds' \in Seq(Pose)
    PROVE  IInv'
  BY DEF IInv, TypeOK, teleop, UntouchedPad, EdgesAreFresh

LEMMA PosCmdInv == IInv /\ PosCmd => IInv'
  <1> SUFFICES ASSUME IInv, PosCmd PROVE IInv'
    OBVIOUS
  <1>0. /\ TypeOK /\ cmds \in Maybe(Pose) /\ cmds # <<>> /\ Due <= waited + 1
        /\ late \in Nat /\ homes \in Nat /\ waited \in Nat
    BY TeleopAssumption DEF IInv, NewestOnly, PosCmd, TypeOK
  <1>1. PICK p \in Pose : cmds = <<p>>
    BY <1>0 DEF Maybe
  <1>2. cmds' = <<>> /\ Head(cmds) = p /\ UNCHANGED <<homes, waited>>
    BY <1>1 DEF PosCmd
  <1>3. /\ late' \in {late, late + 1} /\ busy' \in BOOLEAN /\ goal' \in Pose
    <2>1. \/ UNCHANGED <<busy, goal, late>>
          \/ busy' = TRUE /\ goal' = p /\ late' = late + 1
      BY <1>0, <1>2 DEF PosCmd
    <2> QED
      BY <1>0, <2>1 DEF TypeOK
  <1>4. Due' <= waited' + 1 /\ late' \in Nat
    <2>1. Due = late + homes + 1
      BY <1>0 DEF Due
    <2>2. Due' = late' + homes + 0 /\ waited' = waited
      BY <1>2 DEF Due
    <2>3. late' = late \/ late' = late + 1
      BY <1>3
    <2>4. late \in Nat /\ homes \in Nat /\ waited \in Nat /\ Due <= waited + 1
      BY <1>0
    <2> QED
      BY <2>1, <2>2, <2>3, <2>4
  <1>5. NewestOnly' /\ cmds' \in Seq(Pose)
    BY <1>2, <1>4 DEF NewestOnly, Maybe
  <1> QED
    BY <1>0, <1>3, <1>4, <1>5, ArmSide DEF PosCmd, TypeOK

LEMMA ArmInv ==
    IInv /\ (GoZero \/ (\E p \in Pose : OtherMove(p)) \/ EndMotion \/ Arrive \/ PublishStatus)
      => IInv'
  <1> SUFFICES ASSUME IInv,
                      GoZero \/ (\E p \in Pose : OtherMove(p)) \/ EndMotion \/ Arrive \/ PublishStatus
               PROVE  IInv'
    OBVIOUS
  <1>0. TypeOK /\ NewestOnly /\ 0 \in Pose
    BY TeleopAssumption DEF IInv, Pose
  <1>1. CASE GoZero
    <2>0. late \in Nat /\ homes \in Nat /\ waited \in Nat /\ homes > 0 /\ homes' = homes - 1
      BY <1>0, <1>1, TeleopAssumption DEF GoZero, TypeOK
    <2>1. homes' \in 0 .. MaxHome
      BY <1>0, <2>0, TeleopAssumption DEF TypeOK
    <2>2. \/ UNCHANGED <<busy, goal, late>>
          \/ busy' = TRUE /\ goal' = 0 /\ late' = late + 1
      BY <1>1 DEF GoZero
    <2>3. busy' \in BOOLEAN /\ goal' \in Pose
      BY <1>0, <2>2 DEF TypeOK
    <2>4. late' \in Nat /\ UNCHANGED <<cmds, waited>>
      BY <1>1, <2>0, <2>2 DEF GoZero
    <2>5. Due' <= waited' + 1
      <3> DEFINE more == IF cmds = <<>> THEN 0 ELSE 1
      <3>1. more \in {0, 1} /\ Due = late + homes + more /\ Due' = late' + homes' + more
        BY <2>4 DEF Due
      <3>2. Due <= waited + 1 /\ (late' = late \/ late' = late + 1) /\ waited' = waited
        BY <1>0, <2>2, <2>4 DEF NewestOnly
      <3> HIDE DEF more
      <3> QED
        BY <2>0, <3>1, <3>2
    <2>6. NewestOnly'
      BY <1>0, <2>4, <2>5 DEF NewestOnly
    <2> QED
      BY <1>0, <1>1, <2>1, <2>3, <2>4, <2>6, ArmSide DEF GoZero, TypeOK
  <1>2. CASE \E p \in Pose : OtherMove(p)
    BY <1>0, <1>2, ArmSide DEF OtherMove, quiet, channels, NewestOnly, Due, TypeOK
  <1>3. CASE EndMotion
    BY <1>0, <1>3, ArmSide DEF EndMotion, quiet, channels, NewestOnly, Due, TypeOK
  <1>4. CASE Arrive
    BY <1>0, <1>4, ArmSide DEF Arrive, quiet, channels, NewestOnly, Due, TypeOK
  <1>5. CASE PublishStatus
    <2>1. poses' \in Maybe(Pose)
      BY <1>0, <1>5, MaybeOne DEF PublishStatus, TypeOK
    <2> QED
      BY <1>0, <1>5, <2>1, ArmSide DEF PublishStatus, quiet, armNode, NewestOnly, Due, TypeOK
  <1> QED
    BY <1>1, <1>2, <1>3, <1>4, <1>5

LEMMA StepInv == IInv /\ [Next]_vars => IInv'
  <1>1. IInv /\ UNCHANGED vars => IInv'
    BY DEF vars, teleop, channels, armNode, history,
           IInv, TypeOK, UntouchedPad, NewestOnly, Due, EdgesAreFresh
  <1> QED
    BY <1>1, TickInv, JoyInv, PoseInv, PosCmdInv, ArmInv DEF Next

LEMMA SpecInv == Spec => []IInv
  BY InitInv, StepInv, PTL DEF Spec

-----------------------------------------------------------------------------
\* Every variable of the two nodes keeps its type (arm_joy_teleop_node).
THEOREM TeleopTypeCorrect == Spec => []TypeOK
  <1>1. IInv => TypeOK
    BY DEF IInv
  <1> QED
    BY <1>1, SpecInv, PTL

\* An untouched pad leaves the filters at rest, whatever its triggers report
\* (joyCallback, getNormalizedTrigger).
THEOREM UntouchedIsStill == Spec => []UntouchedPadIsStill
  <1>1. IInv => UntouchedPadIsStill
    BY DEF IInv, UntouchedPad, UntouchedPadIsStill
  <1> QED
    BY <1>1, SpecInv, PTL

\* Once the operator asks for nothing more, no more motions begin for him than the
\* requests for home that waited and one (the depth of pos_cmd).
THEOREM OneMoreThanAsked == Spec => []OneMoreMotion
  <1>1. IInv => OneMoreMotion
    <2> SUFFICES ASSUME IInv PROVE late <= waited + 1
      BY DEF OneMoreMotion
    <2>1. late \in Nat /\ homes \in Nat /\ waited \in Nat
      BY TeleopAssumption DEF IInv, TypeOK
    <2> QED
      BY <2>1 DEF IInv, NewestOnly, Due
  <1> QED
    BY <1>1, SpecInv, PTL

\* Only a tick sends requests, and only for buttons that went down since the
\* last (controlLoop).
LEMMA StepSends == IInv /\ [Next]_vars => sent' \subseteq fresh \/ UNCHANGED vars
  <1> SUFFICES ASSUME IInv, Next PROVE sent' \subseteq fresh
    BY DEF vars
  <1>1. CASE ControlLoop
    <2>1. joy # <<>> /\ sent' \subseteq joy[1].buttons \ downPrev
      BY <1>1 DEF ControlLoop
    <2> QED
      BY <2>1 DEF IInv, EdgesAreFresh
  <1>2. CASE ~ControlLoop
    BY <1>2 DEF Next, JoyCallback, PoseCallback, PosCmd, GoZero, OtherMove, EndMotion,
                Arrive, PublishStatus
  <1> QED
    BY <1>1, <1>2

\* A held button is acted on once (controlLoop, the _prev_ flags).
THEOREM PressedOnce == Spec => NoGhostPress
  <1> QED
    BY SpecInv, StepSends, PTL DEF Spec, NoGhostPress

\* A target that a tick changes with the axes released and the filters reset is
\* the pose received last.
LEMMA StepReleased ==
    IInv /\ [Next]_vars =>
        (target' # target /\ target # <<>> =>
            \/ Held(joy[1]) /\ heldPrev
            \/ Input(joy[1]) # 0
            \/ target' = pose)
  <1> SUFFICES ASSUME IInv, [Next]_vars, target' # target, target # <<>>,
                      ~(Held(joy[1]) /\ heldPrev), Input(joy[1]) = 0
               PROVE  target' = pose
    OBVIOUS
  <1>1. ControlLoop
    BY DEF Next, vars, teleop, JoyCallback, PoseCallback, PosCmd, GoZero, OtherMove,
           EndMotion, Arrive, PublishStatus
  <1> DEFINE down == joy[1].buttons \ downPrev
  <1>2. PICK f \in Filtered(Base(joy[1], down), Input(joy[1])) :
           \/ \E d \in Turned(joy[1], f) : target' = <<Synced(joy[1], down)[1] + d>>
           \/ target' = Synced(joy[1], down)
    BY <1>1, Zenon DEF ControlLoop
  <1>3. f = 0
    BY DEF Base, Filtered
  <1>4. Turned(joy[1], f) = {0}
    BY <1>3 DEF Turned
  <1> HIDE DEF down
  <1>5. Synced(joy[1], down) \in {pose, target}
    BY DEF Synced
  <1>6. pose \in Maybe(Pose) /\ pose # <<>> /\ target \in Maybe(Pose)
    BY <1>1 DEF IInv, TypeOK, ControlLoop
  <1>7. PICK p \in Pose : Synced(joy[1], down) = <<p>>
    BY <1>5, <1>6 DEF Maybe
  <1>8. p + 0 = p
    BY TeleopAssumption DEF Pose
  <1>9. target' = Synced(joy[1], down)
    BY <1>2, <1>4, <1>7, <1>8
  <1> QED
    BY <1>5, <1>9

\* Nothing is left in the filters that would move the target once the deadman is
\* released or pressed anew (controlLoop, resetFilteredAxes).
THEOREM ReleasedIsStill == Spec => ReleasedStickStops
  <1> QED
    BY SpecInv, StepReleased, PTL DEF Spec, ReleasedStickStops
=============================================================================
