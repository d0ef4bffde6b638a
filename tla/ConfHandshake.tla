--------------------------- MODULE ConfHandshake ---------------------------
(***************************************************************************)
(* Zero calibration of the motors of one CAN port, and the handshake it is *)
(* made of.                                                                *)
(*                                                                         *)
(* set_reset_zero and set_conf_write repeat a request every 20 ms until    *)
(* the motors it is addressed to have answered, or give up.  An answer     *)
(* names a request code and the motors that answer it.  The receive thread *)
(* stores the code in canport::mode_flag and adds the motors to            *)
(* canport::motors_id, one by one, with no lock; the user thread clears    *)
(* both before a handshake, one after the other, and looks at both to see  *)
(* whether it is over.  Nothing ties a member of motors_id to the request  *)
(* it answered: an answer to an earlier request counts for a later one.    *)
(*                                                                         *)
(* The calibration of a port (canboard::set_reset_zero) pauses for a       *)
(* second and more before it starts and for 100 ms between its two         *)
(* requests.  The calibration of single motors (robot::set_reset_zero of a *)
(* list) resets the motors and sleeps 200 ms before each (robot::set_reset)*)
(* and goes straight from RESET_ZERO to CONF_WRITE.                        *)
(***************************************************************************)
EXTENDS Naturals, FiniteSets

CONSTANTS
    Motor,      \* the motors of the port
    Singles,    \* may motors be calibrated one by one?
    Broadcasts, \* may the whole port be calibrated?
    MaxCalls,   \* bound: calibrations
    MaxTries,   \* max_delay: requests before a handshake gives up
    SettledAt   \* the requests whose pause, where there is one, outlasts every answer

ZERO == "RESET_ZERO"
CONF == "CONF_WRITE"
Code == {ZERO, CONF}

ASSUME ConfAssumption ==
    /\ IsFiniteSet(Motor) /\ Motor # {}
    /\ Singles \in BOOLEAN /\ Broadcasts \in BOOLEAN
    /\ MaxCalls \in Nat
    /\ MaxTries \in Nat
    /\ SettledAt \subseteq Code

VARIABLES
    \* the user thread
    step,       \* where it is in the handshake
    code,       \* the request of the handshake
    target,     \* the motors it is addressed to
    broad,      \* it is addressed to the whole port
    tries,      \* t
    calls,      \* calibrations started
    outcome,    \* what the last calibration printed
    \* shared with the receive thread
    ids,        \* canport::motors_id
    modeFlag,   \* canport::mode_flag
    \* the receive thread
    rxLeft,     \* motors of the answer at hand not yet inserted
    \* the motors and the link
    pending,    \* answers on their way, by code and motor
    zeroed,     \* motors that took the zero of this calibration
    saved       \* ... and then stored it

user   == <<step, code, target, broad, tries, calls, outcome>>
shared == <<ids, modeFlag>>
motors == <<pending, zeroed, saved>>
vars   == <<user, shared, rxLeft, motors>>

Step == {"idle", "clear_ids", "clear_flag", "send", "check", "exited"}
Outcome == {"none", "zero_failed", "save_failed", "saved"}
Target ==
    (IF Broadcasts THEN {Motor} ELSE {}) \cup (IF Singles THEN {{m} : m \in Motor} ELSE {})

TypeOK ==
    /\ step \in Step
    /\ code \in Code
    /\ target \subseteq Motor
    /\ broad \in BOOLEAN
    /\ tries \in 0..MaxTries
    /\ calls \in 0..MaxCalls
    /\ outcome \in Outcome
    /\ ids \subseteq Motor
    /\ modeFlag \in Code \cup {"none"}
    /\ rxLeft \subseteq Motor
    /\ pending \in [Code -> [Motor -> Nat]]
    /\ zeroed \subseteq Motor
    /\ saved \subseteq Motor

\* Nothing is left of the answers to earlier requests.
Settled == rxLeft = {} /\ \A c \in Code, m \in Motor : pending[c][m] = 0

\* The pause before a request c is over.  There is none between the two requests
\* to a single motor (robot.cpp:913-916).
Paused(c) == c \in SettledAt /\ (c = ZERO \/ broad) => Settled

-----------------------------------------------------------------------------
(* The user thread.                                                        *)

\* canboard::set_reset_zero of the port, or one round of robot::set_reset_zero(list).
StartCalibration(T, whole) ==
    /\ whole => Broadcasts /\ T = Motor
    /\ ~whole => Singles /\ \E m \in Motor : T = {m}
    /\ step = "idle"
    /\ calls < MaxCalls
    /\ step' = "clear_ids"
    /\ code' = ZERO
    /\ target' = T
    /\ broad' = whole
    /\ tries' = 0
    /\ calls' = calls + 1
    /\ outcome' = "none"
    /\ zeroed' = {}
    /\ saved' = {}
    /\ UNCHANGED <<shared, rxLeft, pending>>

\* Mutant of ClearIds: motors_id keeps the answers to the request before.
KeepIds ==
    /\ step = "clear_ids"
    /\ Paused(code)
    /\ step' = "clear_flag"
    /\ UNCHANGED <<code, target, broad, tries, calls, outcome, shared, rxLeft, motors>>

\* After the pause, motors_id.clear()
ClearIds ==
    /\ step = "clear_ids"
    /\ Paused(code)
    /\ ids' = {}
    /\ step' = "clear_flag"
    /\ UNCHANGED <<code, target, broad, tries, calls, outcome, modeFlag, rxLeft, motors>>

\* mode_flag = 0
ClearFlag ==
    /\ step = "clear_flag"
    /\ modeFlag' = "none"
    /\ step' = "send"
    /\ UNCHANGED <<code, target, broad, tries, calls, outcome, ids, rxLeft, motors>>

\* t++ < max_delay
TriesLeft == tries < MaxTries

\* Mutant of SendRequest: a request to one motor goes out to all.
SendToAll ==
    /\ step = "send"
    /\ TriesLeft
    /\ \E heard \in SUBSET Motor :
          /\ pending' = [pending EXCEPT ![code] =
                            [m \in Motor |-> @[m] + IF m \in heard THEN 1 ELSE 0]]
          /\ zeroed' = IF code = ZERO THEN zeroed \cup heard ELSE zeroed
          /\ saved'  = IF code = CONF THEN saved \cup (heard \cap zeroed) ELSE saved
    /\ tries' = tries + 1
    /\ step' = "check"
    /\ UNCHANGED <<code, target, broad, calls, outcome, shared, rxLeft>>

\* while (t++ < max_delay) motor_send_cmd(): some of the motors hear it.
SendRequest ==
    /\ step = "send"
    /\ TriesLeft
    /\ \E heard \in SUBSET target :
          /\ pending' = [pending EXCEPT ![code] =
                            [m \in Motor |-> @[m] + IF m \in heard THEN 1 ELSE 0]]
          /\ zeroed' = IF code = ZERO THEN zeroed \cup heard ELSE zeroed
          /\ saved'  = IF code = CONF THEN saved \cup (heard \cap zeroed) ELSE saved
    /\ tries' = tries + 1
    /\ step' = "check"
    /\ UNCHANGED <<code, target, broad, calls, outcome, shared, rxLeft>>

\* Mutant of Answered: one motor's answer does for all.
AnsweredByOne == modeFlag = code /\ ids # {}

\* The test that ends both loops.
Answered == modeFlag = code /\ target \subseteq ids

\* Mutant of CheckNotYet: a try that is not answered is not counted.
CheckForever ==
    /\ step = "check"
    /\ ~Answered
    /\ step' = "send"
    /\ tries' = tries - 1
    /\ UNCHANGED <<code, target, broad, calls, outcome, shared, rxLeft, motors>>

CheckNotYet ==
    /\ step = "check"
    /\ ~Answered
    /\ step' = "send"
    /\ UNCHANGED <<code, target, broad, tries, calls, outcome, shared, rxLeft, motors>>

\* set_reset_zero returned 0: on to set_conf_write.
ZeroAnswered ==
    /\ step = "check"
    /\ code = ZERO
    /\ Answered
    /\ code' = CONF
    /\ tries' = 0
    /\ step' = "clear_ids"
    /\ UNCHANGED <<target, broad, calls, outcome, shared, rxLeft, motors>>

\* "Settings saved successfully."
ConfAnswered ==
    /\ step = "check"
    /\ code = CONF
    /\ Answered
    /\ outcome' = "saved"
    /\ step' = "idle"
    /\ UNCHANGED <<code, target, broad, tries, calls, shared, rxLeft, motors>>

\* The tries are used up.  A broadcast that cannot be saved ends the process:
\* canport::set_conf_write() calls exit(0).
GiveUp ==
    /\ step = "send"
    /\ ~TriesLeft
    /\ outcome' = IF code = ZERO THEN "zero_failed" ELSE "save_failed"
    /\ step' = IF code = CONF /\ broad THEN "exited" ELSE "idle"
    /\ UNCHANGED <<code, target, broad, tries, calls, shared, rxLeft, motors>>

-----------------------------------------------------------------------------
(* The receive thread and the link.                                        *)

\* A frame with the answers of the motors S to the request c.
Receive(c, S) ==
    /\ step # "exited"
    /\ rxLeft = {}
    /\ S # {}
    /\ \A m \in S : pending[c][m] > 0
    /\ pending' = [pending EXCEPT ![c] = [m \in Motor |-> @[m] - IF m \in S THEN 1 ELSE 0]]
    /\ modeFlag' = c
    /\ rxLeft' = S
    /\ UNCHANGED <<user, ids, zeroed, saved>>

\* p_motor_id->insert(...), in any order.
Insert(m) ==
    /\ step # "exited"
    /\ m \in rxLeft
    /\ ids' = ids \cup {m}
    /\ rxLeft' = rxLeft \ {m}
    /\ UNCHANGED <<user, modeFlag, motors>>

\* An answer is lost (a bad checksum, a CAN error).
Lose(c, m) ==
    /\ pending[c][m] > 0
    /\ pending' = [pending EXCEPT ![c][m] = @ - 1]
    /\ UNCHANGED <<user, shared, rxLeft, zeroed, saved>>

-----------------------------------------------------------------------------
Init ==
    /\ step = "idle"
    /\ code = ZERO
    /\ target = {}
    /\ broad = FALSE
    /\ tries = 0
    /\ calls = 0
    /\ outcome = "none"
    /\ ids = {}
    /\ modeFlag = "none"
    /\ rxLeft = {}
    /\ pending = [c \in Code |-> [m \in Motor |-> 0]]
    /\ zeroed = {}
    /\ saved = {}

UserStep ==
    \/ ClearIds \/ ClearFlag \/ SendRequest \/ CheckNotYet
    \/ ZeroAnswered \/ ConfAnswered \/ GiveUp

ReceiveStep ==
    \/ \E c \in Code, S \in SUBSET Motor : Receive(c, S)
    \/ \E m \in Motor : Insert(m)

LoseStep == \E c \in Code, m \in Motor : Lose(c, m)

Next ==
    \/ \E T \in Target, whole \in BOOLEAN : StartCalibration(T, whole)
    \/ UserStep
    \/ ReceiveStep
    \/ LoseStep

Spec == Init /\ [][Next]_vars

\* The user thread and the receive thread are scheduled and what is on the link
\* arrives or is lost.
FairSpec == Spec /\ WF_vars(UserStep) /\ WF_vars(ReceiveStep)

-----------------------------------------------------------------------------
(* Properties.                                                             *)

\* "Settings saved successfully" is true: every motor the calibration was for
\* has taken the zero and stored it (canport::set_conf_write).
SavedMeansSaved == outcome = "saved" => target \subseteq saved

\* No request to store goes out before every motor it is for has taken the zero
\* of this calibration, otherwise an old zero is stored (canport::set_reset_zero).
ZeroedBeforeSaving == code = CONF => target \subseteq zeroed

\* Every calibration ends, whatever the motors answer and the link loses
\* (while (t++ < max_delay)).
CalibrationEnds == step = "clear_ids" ~> step \in {"idle", "exited"}

-----------------------------------------------------------------------------
(* Requests, answers and retries are an implementation detail.             *)

\* How far the calibration is, whatever became of single requests.
Phase ==
    CASE step \in {"idle", "exited"}                   -> step
      [] step \notin {"idle", "exited"} /\ code = ZERO -> "zeroing"
      [] OTHER                                         -> "storing"

Cal == INSTANCE Calibration WITH phase <- Phase

\* Whatever is repeated, lost, late or half inserted, the motors and the messages
\* go through one calibration after another: only motors it is for take a zero,
\* all have it before any is asked to store it, and success is printed when all
\* have stored it (canboard::set_reset_zero, robot::set_reset_zero).
ImplementsCalibration == Cal!Spec
=============================================================================
