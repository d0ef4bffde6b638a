----------------------------- MODULE Calibration -----------------------------
(***************************************************************************)
(* What a zero calibration of a port promises, with no word of requests,   *)
(* answers, retries and the variables two threads share: the motors it is  *)
(* for take a zero, and no others; when all of them have it they are asked *)
(* to store it; it is called a success when all of them did.               *)
(* ConfHandshake is shown to implement it.                                 *)
(***************************************************************************)
CONSTANTS
    Motor,      \* the motors of the port
    Target      \* the sets of motors that are calibrated together

VARIABLES
    phase,      \* "idle", "zeroing", "storing", or "exited" with the process
    target,     \* the motors the calibration is for
    zeroed,     \* ... that took the zero
    saved,      \* ... that stored it
    outcome     \* what the last calibration printed

vars == <<phase, target, zeroed, saved, outcome>>

Init ==
    /\ phase = "idle"
    /\ target = {} /\ zeroed = {} /\ saved = {}
    /\ outcome = "none"

Begin(T) ==
    /\ phase = "idle" /\ phase' = "zeroing"
    /\ target' = T /\ zeroed' = {} /\ saved' = {}
    /\ outcome' = "none"

\* Motors of the target take the zero; one may be asked several times.
TakeZero(S) ==
    /\ phase = "zeroing"
    /\ zeroed' = zeroed \cup S
    /\ UNCHANGED <<phase, target, saved, outcome>>

AllZeroed ==
    /\ phase = "zeroing" /\ phase' = "storing"
    /\ target \subseteq zeroed
    /\ UNCHANGED <<target, zeroed, saved, outcome>>

\* They store it.
Store(S) ==
    /\ phase = "storing"
    /\ saved' = saved \cup S
    /\ UNCHANGED <<phase, target, zeroed, outcome>>

Succeed ==
    /\ phase = "storing" /\ phase' = "idle"
    /\ target \subseteq saved
    /\ outcome' = "saved"
    /\ UNCHANGED <<target, zeroed, saved>>

\* It may fail at any time; a port that cannot be saved as a whole ends the process.
Fail ==
    /\ \/ phase = "zeroing" /\ phase' = "idle" /\ outcome' = "zero_failed"
       \/ /\ phase = "storing" /\ outcome' = "save_failed"
          /\ phase' = "idle" \/ (phase' = "exited" /\ target = Motor)
    /\ UNCHANGED <<target, zeroed, saved>>

Next ==
    \/ \E T \in Target : Begin(T)
    \/ \E S \in SUBSET target : TakeZero(S) \/ Store(S)
    \/ AllZeroed \/ Succeed \/ Fail

Spec == Init /\ [][Next]_vars
=============================================================================
