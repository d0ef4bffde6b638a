------------------------ MODULE ConfHandshake_proofs ------------------------
(***************************************************************************)
(* What the calibration handshake guarantees for every number of motors,   *)
(* calibrations and tries: with pauses that outlast the answers, where the *)
(* code has one, a reported success is a success, and the whole implements *)
(* Calibration; in any case it ends in so many steps.                      *)
(***************************************************************************)
EXTENDS ConfHandshake, TLAPS

\* The pauses of the code suffice: before every calibration, and before the
\* second handshake of a broadcast.
Careful == ZERO \in SettledAt /\ (CONF \in SettledAt \/ ~Broadcasts)

-----------------------------------------------------------------------------
(* Type correctness.                                                       *)

LEMMA InitType == Init => TypeOK
<1> SUFFICES ASSUME Init PROVE TypeOK
  OBVIOUS
<1>1. pending \in [Code -> [Motor -> Nat]]
  BY DEF Init
<1>2. tries \in 0 .. MaxTries /\ calls \in 0 .. MaxCalls
  BY ConfAssumption DEF Init
<1>3. target \subseteq Motor /\ zeroed \subseteq Motor /\ saved \subseteq Motor
      /\ ids \subseteq Motor /\ rxLeft \subseteq Motor
  BY DEF Init
<1>4. broad \in BOOLEAN /\ step \in Step /\ code \in Code /\ outcome \in Outcome
      /\ modeFlag \in Code \cup {"none"}
  BY DEF Init, Step, Code, Outcome
<1> QED
  BY <1>1, <1>2, <1>3, <1>4 DEF TypeOK

LEMMA NextType == TypeOK /\ [Next]_vars => TypeOK'
<1> SUFFICES ASSUME TypeOK, [Next]_vars PROVE TypeOK'
  OBVIOUS
<1> USE ConfAssumption DEF TypeOK, Step, Code, Outcome, ZERO, CONF
<1>1. ASSUME NEW T \in Target, NEW whole \in BOOLEAN, StartCalibration(T, whole) PROVE TypeOK'
  BY <1>1 DEF StartCalibration, Target, shared
<1>2. CASE ClearIds
  BY <1>2 DEF ClearIds, motors
<1>3. CASE ClearFlag
  BY <1>3 DEF ClearFlag, motors
<1>4. CASE SendRequest
  <2> PICK heard \in SUBSET target :
        /\ pending' = [pending EXCEPT ![code] =
                          [m \in Motor |-> @[m] + IF m \in heard THEN 1 ELSE 0]]
        /\ zeroed' = IF code = ZERO THEN zeroed \cup heard ELSE zeroed
        /\ saved'  = IF code = CONF THEN saved \cup (heard \cap zeroed) ELSE saved
    BY <1>4 DEF SendRequest, TriesLeft
  <2>1. pending' \in [Code -> [Motor -> Nat]]
    OBVIOUS
  <2> QED
    BY <1>4, <2>1 DEF SendRequest, TriesLeft, shared
<1>5. CASE CheckNotYet
  BY <1>5 DEF CheckNotYet, shared, motors
<1>6. CASE ZeroAnswered
  BY <1>6 DEF ZeroAnswered, shared, motors
<1>7. CASE ConfAnswered
  BY <1>7 DEF ConfAnswered, shared, motors
<1>8. CASE GiveUp
  BY <1>8 DEF GiveUp, TriesLeft, shared, motors
<1>9. ASSUME NEW c \in Code, NEW S \in SUBSET Motor, Receive(c, S) PROVE TypeOK'
  <2>1. pending' \in [Code -> [Motor -> Nat]]
    BY <1>9 DEF Receive
  <2> QED
    BY <1>9, <2>1 DEF Receive, user
<1>10. ASSUME NEW m \in Motor, Insert(m) PROVE TypeOK'
  BY <1>10 DEF Insert, user, motors
<1>11. ASSUME NEW c \in Code, NEW m \in Motor, Lose(c, m) PROVE TypeOK'
  BY <1>11 DEF Lose, user, shared
<1>12. CASE UNCHANGED vars
  BY <1>12 DEF vars, user, shared, motors
<1> QED
  BY <1>1, <1>2, <1>3, <1>4, <1>5, <1>6, <1>7, <1>8, <1>9, <1>10, <1>11, <1>12
     DEF Next, UserStep, ReceiveStep, LoseStep

\* Every variable of the handshake keeps its type.
THEOREM HandshakeType == Spec => []TypeOK
BY InitType, NextType, PTL DEF Spec

-----------------------------------------------------------------------------
(* The inductive invariant.                                                *)

\* The leftovers of the calibration before have been waited for.
Fresh == ~(step = "clear_ids" /\ code = ZERO)

\* An answer on its way tells the truth about the motor that sent it.
Truthful ==
    Fresh => \A m \in Motor : /\ pending[ZERO][m] > 0 => m \in zeroed
                              /\ pending[CONF][m] > 0 => m \in saved /\ m \in target

\* What is known of the motors while the answers to RESET_ZERO are gathered:
\* nobody has been asked to store anything, so every answer is one of those.
ZeroPhase ==
    Fresh /\ code = ZERO =>
        /\ \A m \in Motor : pending[CONF][m] = 0
        /\ rxLeft \subseteq zeroed
        /\ ids \subseteq zeroed

\* Once a motor has answered CONF_WRITE: of a port because the pause outlasted all
\* answers to RESET_ZERO, of a single motor because no other could have answered.
ConfPhase ==
    /\ broad /\ code = CONF /\ step # "clear_ids" =>
          /\ \A m \in Motor : pending[ZERO][m] = 0
          /\ ids \cup rxLeft \subseteq saved
    /\ ~broad /\ code = CONF =>
          /\ modeFlag = CONF /\ step \notin {"clear_ids", "clear_flag"} => target \subseteq saved
          /\ step \in {"clear_ids", "clear_flag"} => \A m \in Motor : pending[CONF][m] = 0

\* A calibration has begun only with one of the target sets; the flags say
\* what the last one came to.
Bookkeeping ==
    /\ broad => Broadcasts /\ target = Motor
    /\ ~broad /\ target # {} => \E m \in Motor : target = {m}
    /\ outcome = "saved" => step = "idle" /\ target \subseteq saved

IInv ==
    /\ TypeOK
    /\ Truthful
    /\ ZeroPhase
    /\ ZeroedBeforeSaving
    /\ ConfPhase
    /\ Bookkeeping

\* One motor at a time: a nonempty set of motors of the target is the target.
LEMMA SingleTarget ==
    ASSUME Bookkeeping, ~broad, NEW m \in target
    PROVE  target = {m}
BY DEF Bookkeeping

LEMMA InitInv == Init => IInv
BY InitType DEF Init, IInv, Truthful, ZeroPhase, ZeroedBeforeSaving, ConfPhase,
   Bookkeeping, Code, ZERO, CONF

LEMMA NextInv == Careful /\ IInv /\ [Next]_vars => IInv'
<1> SUFFICES ASSUME Careful, IInv, [Next]_vars PROVE IInv'
  OBVIOUS
<1> USE DEF IInv, TypeOK, Code, ZERO, CONF
<1>0. TypeOK'
  BY NextType
<1>1. ASSUME NEW T \in Target, NEW whole \in BOOLEAN, StartCalibration(T, whole) PROVE IInv'
  <2>1. Truthful' /\ ZeroPhase' /\ ZeroedBeforeSaving' /\ ConfPhase'
    BY <1>1 DEF StartCalibration, Truthful, ZeroPhase, ZeroedBeforeSaving, ConfPhase, Fresh
  <2>2. Bookkeeping'
    BY <1>1 DEF StartCalibration, Bookkeeping
  <2> QED
    BY <1>0, <2>1, <2>2
<1>2. CASE ClearIds
  <2>1. code = ZERO \/ broad => Settled
    BY <1>2 DEF ClearIds, Paused, Careful, Bookkeeping
  <2>2. Truthful' /\ ZeroPhase' /\ ZeroedBeforeSaving'
    BY <1>2, <2>1 DEF ClearIds, Settled, motors, Truthful, ZeroPhase, ZeroedBeforeSaving, Fresh
  <2>3. ConfPhase'
    BY <1>2, <2>1 DEF ClearIds, Settled, motors, ConfPhase
  <2>4. Bookkeeping'
    BY <1>2 DEF ClearIds, motors, Bookkeeping
  <2> QED
    BY <1>0, <2>2, <2>3, <2>4
<1>3. CASE ClearFlag
  <2>1. Truthful' /\ ZeroPhase' /\ ZeroedBeforeSaving'
    BY <1>3 DEF ClearFlag, motors, Truthful, ZeroPhase, ZeroedBeforeSaving, Fresh
  <2>2. ConfPhase' /\ Bookkeeping'
    BY <1>3 DEF ClearFlag, motors, ConfPhase, Bookkeeping
  <2> QED
    BY <1>0, <2>1, <2>2
<1>4. CASE SendRequest
  <2>0. PICK heard \in SUBSET target :
        /\ pending' = [pending EXCEPT ![code] =
                          [m \in Motor |-> @[m] + IF m \in heard THEN 1 ELSE 0]]
        /\ zeroed' = IF code = ZERO THEN zeroed \cup heard ELSE zeroed
        /\ saved'  = IF code = CONF THEN saved \cup (heard \cap zeroed) ELSE saved
    BY <1>4 DEF SendRequest, TriesLeft
  <2>1. /\ step = "send" /\ step' = "check"
        /\ UNCHANGED <<code, target, broad, outcome, ids, modeFlag, rxLeft>>
    BY <1>4 DEF SendRequest, shared
  <2>2. \A c \in Code, m \in Motor :
           pending'[c][m] = IF c = code /\ m \in heard THEN pending[c][m] + 1 ELSE pending[c][m]
    BY <2>0
  <2>3. zeroed \subseteq zeroed' /\ saved \subseteq saved'
    BY <2>0
  <2>4. code = CONF => target \subseteq zeroed
    BY DEF ZeroedBeforeSaving
  <2>5. Truthful'
    BY <2>0, <2>1, <2>2, <2>3, <2>4 DEF Truthful, Fresh
  <2>6. ZeroPhase' /\ ZeroedBeforeSaving'
    BY <2>0, <2>1, <2>2, <2>3 DEF ZeroPhase, ZeroedBeforeSaving, Fresh
  <2>7. ConfPhase'
    BY <2>0, <2>1, <2>2, <2>3 DEF ConfPhase
  <2>8. Bookkeeping'
    BY <2>1, <2>3 DEF Bookkeeping
  <2> QED
    BY <1>0, <2>5, <2>6, <2>7, <2>8
<1>5. CASE CheckNotYet
  BY <1>0, <1>5 DEF CheckNotYet, shared, motors, Truthful, ZeroPhase, ZeroedBeforeSaving,
     ConfPhase, Bookkeeping, Fresh
<1>6. CASE ZeroAnswered
  <2>1. target \subseteq zeroed /\ \A m \in Motor : pending[CONF][m] = 0
    BY <1>6 DEF ZeroAnswered, Answered, ZeroPhase, Fresh
  <2>2. Truthful' /\ ZeroPhase' /\ ZeroedBeforeSaving'
    BY <1>6, <2>1 DEF ZeroAnswered, shared, motors, Truthful, ZeroPhase, ZeroedBeforeSaving, Fresh
  <2>3. ConfPhase' /\ Bookkeeping'
    BY <1>6, <2>1 DEF ZeroAnswered, shared, motors, ConfPhase, Bookkeeping
  <2> QED
    BY <1>0, <2>2, <2>3
<1>7. CASE ConfAnswered
  <2>1. target \subseteq saved
    BY <1>7 DEF ConfAnswered, Answered, ConfPhase, Careful
  <2>2. Truthful' /\ ZeroPhase' /\ ZeroedBeforeSaving' /\ ConfPhase'
    BY <1>7 DEF ConfAnswered, shared, motors, Truthful, ZeroPhase, ZeroedBeforeSaving,
       ConfPhase, Fresh
  <2>3. Bookkeeping'
    BY <1>7, <2>1 DEF ConfAnswered, shared, motors, Bookkeeping
  <2> QED
    BY <1>0, <2>2, <2>3
<1>8. CASE GiveUp
  BY <1>0, <1>8 DEF GiveUp, shared, motors, Truthful, ZeroPhase, ZeroedBeforeSaving,
     ConfPhase, Bookkeeping, Fresh
<1>9. ASSUME NEW c \in Code, NEW S \in SUBSET Motor, Receive(c, S) PROVE IInv'
  <2>1. /\ rxLeft = {} /\ S # {} /\ modeFlag' = c /\ rxLeft' = S
        /\ UNCHANGED <<step, code, target, broad, outcome, ids, zeroed, saved>>
    BY <1>9 DEF Receive, user
  <2>2. \A d \in Code, m \in Motor :
           pending'[d][m] = IF d = c /\ m \in S THEN pending[d][m] - 1 ELSE pending[d][m]
    BY <1>9 DEF Receive
  <2>3. \A m \in S : pending[c][m] > 0
    BY <1>9 DEF Receive
  <2>4. Truthful' /\ ZeroedBeforeSaving' /\ Bookkeeping'
    BY <2>1, <2>2, <2>3 DEF Truthful, ZeroedBeforeSaving, Bookkeeping, Fresh
  <2>5. ZeroPhase'
    BY <2>1, <2>2, <2>3 DEF Truthful, ZeroPhase, Fresh
  <2>6. broad /\ code = CONF /\ step # "clear_ids" =>
           /\ \A m \in Motor : pending'[ZERO][m] = 0
           /\ ids \cup S \subseteq saved
    BY <2>2, <2>3 DEF ConfPhase, Truthful, Fresh
  <2>7. ASSUME ~broad, code = CONF, c = CONF PROVE target \subseteq saved
    <3> PICK m \in S : TRUE
      BY <2>1
    <3>1. m \in saved /\ m \in target
      BY <2>3, <2>7 DEF Truthful, Fresh
    <3> QED
      BY <2>7, <3>1, SingleTarget
  <2>8. ConfPhase'
    BY <2>1, <2>2, <2>3, <2>6, <2>7 DEF ConfPhase
  <2> QED
    BY <1>0, <2>4, <2>5, <2>8
<1>10. ASSUME NEW m \in Motor, Insert(m) PROVE IInv'
  BY <1>0, <1>10 DEF Insert, user, motors, Truthful, ZeroPhase, ZeroedBeforeSaving,
     ConfPhase, Bookkeeping, Fresh
<1>11. ASSUME NEW c \in Code, NEW m \in Motor, Lose(c, m) PROVE IInv'
  <2>1. \A d \in Code, n \in Motor :
           pending'[d][n] = IF d = c /\ n = m THEN pending[d][n] - 1 ELSE pending[d][n]
    BY <1>11 DEF Lose
  <2>2. pending[c][m] > 0 /\ UNCHANGED <<step, code, target, broad, outcome, ids, modeFlag, rxLeft, zeroed, saved>>
    BY <1>11 DEF Lose, user, shared
  <2> QED
    BY <1>0, <2>1, <2>2 DEF Truthful, ZeroPhase, ZeroedBeforeSaving, ConfPhase, Bookkeeping, Fresh
<1>12. CASE UNCHANGED vars
  BY <1>0, <1>12 DEF vars, user, shared, motors, Truthful, ZeroPhase, ZeroedBeforeSaving,
     ConfPhase, Bookkeeping, Fresh
<1> QED
  BY <1>1, <1>2, <1>3, <1>4, <1>5, <1>6, <1>7, <1>8, <1>9, <1>10, <1>11, <1>12
     DEF Next, UserStep, ReceiveStep, LoseStep

-----------------------------------------------------------------------------
(* What follows.                                                           *)

\* With the pauses that there are long enough, "Settings saved
\* successfully" is true: every motor asked has taken and stored its zero
\* (canport::set_reset_zero, canport::set_conf_write).
THEOREM SavedIsSaved ==
    ASSUME Careful
    PROVE  Spec => []SavedMeansSaved
<1>1. IInv /\ [Next]_vars => IInv'
  BY NextInv
<1>2. IInv => SavedMeansSaved
  BY DEF IInv, Bookkeeping, SavedMeansSaved
<1> QED
  BY <1>1, <1>2, InitInv, PTL DEF Spec

\* Under the same condition no motor is asked to store before all have taken
\* the zero (canport::set_reset_zero returns 0 only then).
THEOREM ZeroedFirst ==
    ASSUME Careful
    PROVE  Spec => []ZeroedBeforeSaving
<1>1. IInv /\ [Next]_vars => IInv'
  BY NextInv
<1>2. IInv => ZeroedBeforeSaving
  BY DEF IInv
<1> QED
  BY <1>1, <1>2, InitInv, PTL DEF Spec

-----------------------------------------------------------------------------
(* The handshake implements Calibration.  Only three steps of the user     *)
(* thread and the start show; that they are steps of Calibration is what   *)
(* the invariant says of the answers.                                      *)

LEMMA InitRefines == Init => Cal!Init
BY DEF Init, Cal!Init, Phase

\* A step that leaves the motors and the phase alone is invisible.
LEMMA SameIsStutter ==
    ASSUME UNCHANGED <<step, code, target, zeroed, saved, outcome>>
    PROVE  UNCHANGED Cal!vars
BY DEF Cal!vars, Phase

LEMMA StepRefines == Careful /\ IInv /\ [Next]_vars => [Cal!Next]_(Cal!vars)
<1> SUFFICES ASSUME Careful, IInv, [Next]_vars PROVE Cal!Next \/ UNCHANGED Cal!vars
  OBVIOUS
<1>0. code \in Code /\ target \subseteq Motor /\ ZERO # CONF
  BY DEF IInv, TypeOK, ZERO, CONF
<1>1. ASSUME NEW T \in Target, NEW whole \in BOOLEAN, StartCalibration(T, whole) PROVE Cal!Next
  <2>1. Phase = "idle" /\ Phase' = "zeroing"
    BY <1>1 DEF StartCalibration, Phase
  <2>2. Cal!Begin(T)
    BY <1>1, <2>1 DEF StartCalibration, Cal!Begin
  <2> QED
    BY <2>2 DEF Cal!Next
<1>2. CASE ClearIds \/ ClearFlag \/ CheckNotYet
  <2>1. UNCHANGED <<code, target, zeroed, saved, outcome>>
    BY <1>2 DEF ClearIds, ClearFlag, CheckNotYet, motors
  <2>2. step \notin {"idle", "exited"} /\ step' \notin {"idle", "exited"}
    BY <1>2 DEF ClearIds, ClearFlag, CheckNotYet
  <2>3. Phase' = Phase
    BY <2>1, <2>2 DEF Phase
  <2> QED
    BY <2>1, <2>3 DEF Cal!vars
<1>3. CASE SendRequest
  <2>1. PICK heard \in SUBSET target :
        /\ zeroed' = IF code = ZERO THEN zeroed \cup heard ELSE zeroed
        /\ saved'  = IF code = CONF THEN saved \cup (heard \cap zeroed) ELSE saved
    BY <1>3 DEF SendRequest
  <2>2. step = "send" /\ step' = "check" /\ UNCHANGED <<code, target, broad, outcome>>
    BY <1>3 DEF SendRequest
  <2>3. Phase' = Phase /\ Phase = IF code = ZERO THEN "zeroing" ELSE "storing"
    BY <2>2 DEF Phase
  <2>4. CASE code = ZERO
    <3>1. Cal!TakeZero(heard)
      BY <1>0, <2>1, <2>2, <2>3, <2>4 DEF Cal!TakeZero
    <3> QED
      BY <3>1 DEF Cal!Next
  <2>5. CASE code = CONF
    <3>1. Cal!Store(heard \cap zeroed)
      BY <1>0, <2>1, <2>2, <2>3, <2>5 DEF Cal!Store
    <3>2. heard \cap zeroed \in SUBSET target
      OBVIOUS
    <3> QED
      BY <3>1, <3>2 DEF Cal!Next
  <2> QED
    BY <1>0, <2>4, <2>5 DEF Code
<1>4. CASE ZeroAnswered
  <2>1. target \subseteq zeroed
    BY <1>4 DEF ZeroAnswered, Answered, IInv, ZeroPhase, Fresh
  <2>2. Phase = "zeroing" /\ Phase' = "storing"
    BY <1>0, <1>4 DEF ZeroAnswered, Phase
  <2>3. Cal!AllZeroed
    BY <1>4, <2>1, <2>2 DEF ZeroAnswered, motors, Cal!AllZeroed
  <2> QED
    BY <2>3 DEF Cal!Next
<1>5. CASE ConfAnswered
  <2>1. target \subseteq saved
    BY <1>5 DEF ConfAnswered, Answered, IInv, ConfPhase, Careful
  <2>2. Phase = "storing" /\ Phase' = "idle"
    BY <1>0, <1>5 DEF ConfAnswered, Phase
  <2>3. Cal!Succeed
    BY <1>5, <2>1, <2>2 DEF ConfAnswered, motors, Cal!Succeed
  <2> QED
    BY <2>3 DEF Cal!Next
<1>6. CASE GiveUp
  <2>1. /\ step = "send" /\ UNCHANGED <<code, target, zeroed, saved>>
        /\ outcome' = IF code = ZERO THEN "zero_failed" ELSE "save_failed"
        /\ step' = IF code = CONF /\ broad THEN "exited" ELSE "idle"
        /\ broad => target = Motor
    BY <1>6 DEF GiveUp, motors, IInv, Bookkeeping
  <2>2. Phase = (IF code = ZERO THEN "zeroing" ELSE "storing") /\ Phase' = step'
    BY <2>1 DEF Phase
  <2>3. Cal!Fail
    BY <1>0, <2>1, <2>2 DEF Cal!Fail, Code
  <2> QED
    BY <2>3 DEF Cal!Next
<1>7. CASE ReceiveStep \/ LoseStep
  <2>1. UNCHANGED <<step, code, target, zeroed, saved, outcome>>
    BY <1>7 DEF ReceiveStep, LoseStep, Receive, Insert, Lose, user, motors
  <2> QED
    BY <2>1, SameIsStutter
<1>8. CASE UNCHANGED vars
  BY <1>8, SameIsStutter DEF vars, user, motors
<1> QED
  BY <1>1, <1>2, <1>3, <1>4, <1>5, <1>6, <1>7, <1>8 DEF Next, UserStep

\* With the pauses that there are long enough, every behaviour of the
\* handshake is one of Calibration: nothing of the retries, the late answers and
\* the shared variables shows (canboard::set_reset_zero, canport::set_conf_write).
THEOREM HandshakeImplementsCalibration ==
    ASSUME Careful
    PROVE  Spec => ImplementsCalibration
<1>1. IInv /\ [Next]_vars => IInv' /\ [Cal!Next]_(Cal!vars)
  BY NextInv, StepRefines
<1> QED
  BY <1>1, InitInv, InitRefines, PTL DEF Spec, ImplementsCalibration, Cal!Spec

-----------------------------------------------------------------------------
(* How long a calibration takes.                                           *)

\* The steps the user thread may still take in this calibration: a handshake
\* clears twice, sends and looks once per try, and gives up.
StepsLeft ==
    LET left == MaxTries - tries
        later == IF code = ZERO THEN 2 * MaxTries + 3 ELSE 0
    IN CASE step = "clear_ids"  -> later + 2 * left + 3
         [] step = "clear_flag" -> later + 2 * left + 2
         [] step = "send"       -> later + 2 * left + 1
         [] step = "check"      -> later + 2 * left + 2
         [] OTHER               -> 0

\* Every step of the user thread brings the end of the calibration nearer, and
\* nothing that is received or lost takes it further away.
EndComesNearer ==
    [][\/ \E T \in Target, whole \in BOOLEAN : StartCalibration(T, whole)
       \/ UserStep /\ StepsLeft' < StepsLeft
       \/ UNCHANGED StepsLeft]_vars

LEMMA StepsAreCounted == TypeOK => StepsLeft \in 0 .. (4 * MaxTries + 6)
BY ConfAssumption DEF TypeOK, StepsLeft

LEMMA StepNears ==
    ASSUME TypeOK, UserStep
    PROVE  StepsLeft' < StepsLeft
<1> USE ConfAssumption DEF TypeOK, StepsLeft
<1>0. ZERO # CONF
  BY DEF ZERO, CONF
<1>1. CASE ClearIds
  BY <1>1 DEF ClearIds
<1>2. CASE ClearFlag
  BY <1>2 DEF ClearFlag
<1>3. CASE SendRequest
  BY <1>3 DEF SendRequest, TriesLeft
<1>4. CASE CheckNotYet
  BY <1>4 DEF CheckNotYet
<1>5. CASE ZeroAnswered
  BY <1>0, <1>5 DEF ZeroAnswered
<1>6. CASE ConfAnswered
  BY <1>0, <1>6 DEF ConfAnswered
<1>7. CASE GiveUp
  BY <1>7 DEF GiveUp
<1> QED
  BY <1>1, <1>2, <1>3, <1>4, <1>5, <1>6, <1>7 DEF UserStep

\* A calibration takes the user thread at most 4 * MaxTries + 6 steps, whatever the
\* link does, with pauses or without: the safety half of CalibrationEnds, whose
\* other half is that the thread is scheduled (while (t++ < max_delay)).
THEOREM CalibrationIsBounded ==
    Spec => [](StepsLeft \in 0 .. (4 * MaxTries + 6)) /\ EndComesNearer
<1>1. TypeOK /\ [Next]_vars =>
        [\/ \E T \in Target, whole \in BOOLEAN : StartCalibration(T, whole)
         \/ UserStep /\ StepsLeft' < StepsLeft
         \/ UNCHANGED StepsLeft]_vars
  <2>1. ReceiveStep \/ LoseStep => UNCHANGED StepsLeft
    BY DEF ReceiveStep, LoseStep, Receive, Insert, Lose, user, StepsLeft
  <2> QED
    BY <2>1, StepNears DEF Next
<1> QED
  BY <1>1, HandshakeType, StepsAreCounted, PTL DEF Spec, EndComesNearer
=============================================================================
