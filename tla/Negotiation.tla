---------------------------- MODULE Negotiation ----------------------------
(***************************************************************************)
(* What init_robot, and error_reconnect after it, ask of the boards before *)
(* the robot is used: the firmware version of each port, the version of    *)
(* each motor, the function version to run (set_fun_v) and the torque      *)
(* adjustment flags.                                                       *)
(*                                                                         *)
(* Every question is asked up to Tries times by a loop that sends, sleeps  *)
(* and looks at what the receive thread has stored.  A request or answer   *)
(* can be lost or late: an answer is an action of its own, which happens   *)
(* at any time after the first request, or never.                          *)
(***************************************************************************)
EXTENDS Naturals, FiniteSets

CONSTANTS
    NPorts,          \* CAN ports, of all boards
    Motor,
    At,              \* the port of each motor
    Boards,          \* the firmware versions the ports may have together
    MotorVersions,   \* the versions a motor may have
    Tries            \* MAX_DALAY, and the 20 or 2000 of the checks

Port == 1 .. NPorts

\* COMBINE_VERSION, for a patch number that fits its four bits.
V(major, minor, patch) == 4096 * major + 16 * minor + patch
NoVersion == 0
Unset     == 65535  \* v_min before any motor was looked at

FunV == 1 .. 5      \* fun_v1 ... fun_v5

ASSUME NegotiationAssumption ==
    /\ NPorts \in Nat \ {0}
    /\ IsFiniteSet(Motor)
    /\ At \in [Motor -> Port]
    /\ Boards \subseteq [Port -> V(3, 0, 0) .. Unset - 1]
    /\ MotorVersions \subseteq V(1, 0, 0) .. Unset - 1
    /\ Tries \in Nat \ {0}

VARIABLES
    firm,       \* the firmware of each port (of the hardware)
    mver,       \* the version of each motor (of the hardware)
    adjusts,    \* the motors that scale their torque themselves (of the hardware)
    boardFun,   \* the function version each port of the boards runs
    again,      \* the objects were built by error_reconnect, not by init_robot
    phase,      \* the loop the robot is in
    port,       \* the port that loop is at
    t,          \* the tries it has made
    asked,      \* the requests sent on each port
    portV,      \* canport::port_version
    portFun,    \* canport::fun_v
    slaveV,     \* robot::slave_v
    fun,        \* robot::fun_v
    seen,       \* the motors with a position other than 999.0
    motorV,     \* motor::version
    flag,       \* motor::tqe_adjust_flag
    noFactor,   \* the motors whose type has become mNone
    reported,   \* the motors an error message has named
    portErr     \* the ports an error message has named

hardware == <<firm, mver, adjusts, again>>
heard    == <<boardFun, portV, portFun, seen, motorV, flag>>
told     == <<noFactor, reported, portErr>>
vars == <<firm, mver, adjusts, boardFun, again, phase, port, t, asked, portV, portFun,
          slaveV, fun, seen, motorV, flag, noFactor, reported, portErr>>

\* The requests, with the firmware from which on the boards know them.
Since == [num |-> 0, state |-> 0, versions |-> V(4, 0, 0), fun |-> V(4, 0, 0),
          fdcan_reset |-> V(4, 1, 0), flags |-> V(4, 7, 0)]
Kinds == DOMAIN Since

TypeOK ==
    /\ firm \in Boards /\ mver \in [Motor -> MotorVersions]
    /\ adjusts \subseteq Motor /\ again \in BOOLEAN
    /\ boardFun \in [Port -> FunV] /\ portFun \in [Port -> FunV] /\ fun \in FunV
    /\ phase \in {"num", "positions", "versions", "fun", "flags", "done", "exit"}
    /\ port \in Port /\ t \in 1 .. Tries
    /\ asked \in [Port -> SUBSET Kinds]
    /\ portV \in [Port -> Nat] /\ slaveV \in Nat /\ motorV \in [Motor -> Nat]
    /\ flag \in [Motor -> {"unread", "no", "yes"}]
    /\ seen \subseteq Motor /\ noFactor \subseteq Motor /\ reported \subseteq Motor
    /\ portErr \subseteq Port

\* The objects of the ports and motors are new; the robot is new too, or keeps
\* its function version (again).  The boards may run that of another session.
Init ==
    /\ firm \in Boards
    /\ mver \in [Motor -> MotorVersions]
    /\ adjusts \in SUBSET {m \in Motor : mver[m] >= V(4, 6, 0)}
    /\ again \in BOOLEAN
    /\ \E f \in {1, 5} : boardFun = [p \in Port |-> f]
    /\ fun \in IF again THEN {1, 5} ELSE {1}
    /\ phase = "num" /\ port = 1 /\ t = 1
    /\ asked = [p \in Port |-> IF p = 1 THEN {"num"} ELSE {}]
    /\ portV = [p \in Port |-> NoVersion]
    /\ portFun = [p \in Port |-> 1]
    /\ slaveV = V(3, 0, 0)
    /\ motorV = [m \in Motor |-> NoVersion]
    /\ flag = [m \in Motor |-> "unread"]
    /\ seen = {} /\ noFactor = {} /\ reported = {} /\ portErr = {}

-----------------------------------------------------------------------------
(* The boards and the receive threads.                                     *)

Asked(p, k) == k \in asked[p] /\ firm[p] >= Since[k]

Answered(changed) ==
    UNCHANGED <<hardware, changed, phase, port, t, asked, slaveV, fun, told>>

AnswerNum(p) ==
    /\ Asked(p, "num")
    /\ portV' = [portV EXCEPT ![p] = firm[p]]
    /\ Answered(<<boardFun, portFun, seen, motorV, flag>>)

AnswerState(m) ==
    /\ Asked(At[m], "state")
    /\ seen' = seen \cup {m}
    /\ Answered(<<boardFun, portV, portFun, motorV, flag>>)

AnswerVersion(m) ==
    /\ Asked(At[m], "versions")
    /\ motorV' = [motorV EXCEPT ![m] = mver[m]]
    /\ Answered(<<boardFun, portV, portFun, seen, flag>>)

\* The board takes the function version; its answer may get lost.
TakeFun(p) ==
    /\ Asked(p, "fun")
    /\ boardFun' = [boardFun EXCEPT ![p] = fun]
    /\ portFun' \in {portFun, [portFun EXCEPT ![p] = fun]}
    /\ Answered(<<portV, seen, motorV, flag>>)

AnswerFlag(m) ==
    /\ Asked(At[m], "flags")
    /\ mver[m] >= V(4, 6, 0)
    /\ flag' = [flag EXCEPT ![m] = IF m \in adjusts THEN "yes" ELSE "no"]
    /\ Answered(<<boardFun, portV, portFun, seen, motorV>>)

-----------------------------------------------------------------------------
(* The robot.                                                              *)

Ask(S, K) == asked' = [p \in Port |-> IF p \in S THEN asked[p] \cup K ELSE asked[p]]

\* Mutant of Missing: the motors with exactly version 4.6.0 are left out.
MissingNewer == {m \in Motor : motorV[m] > V(4, 6, 0) /\ flag[m] = "unread"}

Missing == {m \in Motor : motorV[m] >= V(4, 6, 0) /\ flag[m] = "unread"}

\* What ends a loop before its tries are used up.
Heard ==
    CASE phase = "num"       -> portV[port] >= V(3, 0, 0)
      [] phase = "positions" -> seen = Motor
      [] phase = "versions"  -> \A m \in Motor : motorV[m] # NoVersion
      [] phase = "fun"       -> portFun[port] = fun
      [] phase = "flags"     -> Missing = {}
      [] OTHER               -> FALSE

LoopEnds(ph) == phase = ph /\ (Heard \/ t = Tries)

\* A look at the torque flags, in every round of check_tqe_adjust_flag.
SetTypes ==
    noFactor' = IF phase = "flags" THEN noFactor \cup {m \in Motor : flag[m] = "yes"}
                ELSE noFactor

\* Mutant of AskAgain: the tries are not counted.
AskForever ==
    /\ phase \notin {"done", "exit"} /\ ~Heard /\ t < Tries
    /\ SetTypes
    /\ UNCHANGED <<hardware, heard, phase, port, t, asked, slaveV, fun, reported, portErr>>

AskAgain ==
    /\ phase \notin {"done", "exit"} /\ ~Heard /\ t < Tries
    /\ t' = t + 1
    /\ SetTypes
    /\ UNCHANGED <<hardware, heard, phase, port, asked, slaveV, fun, reported, portErr>>

\* set_motor_num tells the version when t < MAX_DALAY, and else an error.
PortErrNum == portErr' = IF t < Tries THEN portErr ELSE portErr \cup {port}

NextPort(ph, k) ==
    /\ LoopEnds(ph)
    /\ port < NPorts
    /\ port' = port + 1
    /\ t' = 1
    /\ Ask({port + 1}, {k})
    /\ UNCHANGED <<hardware, heard, phase, slaveV, fun, noFactor, reported>>

NumNext == NextPort("num", "num") /\ PortErrNum

\* Mutant of OldFirmware: an unanswered port passes for new firmware.
SilentIsNew(v) == v < V(4, 0, 0) /\ v # NoVersion

OldFirmware(v) == v < V(4, 0, 0)

\* The version of the last port becomes slave_v and decides on what follows.
\* error_reconnect asks for the motor versions in any case, which ends the
\* process when the firmware is older than 4.0.0 or the port has not answered.
NumDone ==
    /\ LoopEnds("num")
    /\ port = NPorts
    /\ slaveV' = portV[port]
    /\ PortErrNum
    /\ t' = 1
    /\ LET old   == OldFirmware(slaveV')
           reset == IF ~again /\ slaveV' >= V(4, 1, 0) THEN {"fdcan_reset"} ELSE {}
       IN \/ /\ again /\ old
             /\ phase' = "exit"
             /\ UNCHANGED <<asked, fun>>
          \/ /\ ~again /\ old
             /\ phase' = "positions"
             /\ fun' = 1
             /\ Ask(Port, {"state"})
          \/ /\ ~old
             /\ phase' = "versions"
             /\ fun' = IF again THEN fun ELSE 2
             /\ Ask(Port, {"versions"} \cup reset)
    /\ UNCHANGED <<hardware, heard, port, noFactor, reported>>

PositionsDone ==
    /\ LoopEnds("positions")
    /\ phase' = "done"
    /\ reported' = Motor \ seen
    /\ UNCHANGED <<hardware, heard, port, t, asked, slaveV, fun, noFactor, portErr>>

\* motor_version_detection: the function version for a least motor version.
FunOf(v) ==
    IF v >= V(4, 4, 6) THEN 5
    ELSE IF v >= V(4, 2, 3) THEN 4
    ELSE IF v >= V(4, 2, 2) THEN 3
    ELSE IF v >= V(4, 2, 0) THEN 2
    ELSE 1

HeardVersions == {motorV[m] : m \in Motor} \ {NoVersion}

\* Mutant of VMin: the comparison is the wrong way round.
VMinWrong == CHOOSE v \in HeardVersions \cup {NoVersion} : \A w \in HeardVersions : v >= w

VMin == CHOOSE v \in HeardVersions \cup {Unset} : \A w \in HeardVersions : v <= w

VersionsDone ==
    /\ LoopEnds("versions")
    /\ phase' = "fun"
    /\ port' = 1
    /\ t' = 1
    /\ fun' = FunOf(VMin)
    /\ reported' = {m \in Motor : motorV[m] = NoVersion}
    /\ Ask({1}, {"fun"})
    /\ UNCHANGED <<hardware, heard, slaveV, noFactor, portErr>>

\* set_fun_v compares t with MAX_DALAY after a loop that leaves it one higher
\* when no answer came: the error is told when the last try was answered.
PortErrFun == portErr' = IF t = Tries /\ Heard THEN portErr \cup {port} ELSE portErr

FunNext == NextPort("fun", "fun") /\ PortErrFun

\* v_max is taken in motor_version_detection before set_fun_v: it may be lower
\* than what has been heard since.
FunDone(flagsToo) ==
    /\ LoopEnds("fun")
    /\ port = NPorts
    /\ PortErrFun
    /\ LET known == {m \in Motor : m \notin reported /\ motorV[m] >= V(4, 6, 0)}
       IN flagsToo = (slaveV >= V(4, 7, 0) /\ known # {})
    /\ t' = 1
    /\ phase' = IF flagsToo THEN "flags" ELSE "done"
    /\ Ask(IF flagsToo THEN Port ELSE {}, {"flags"})
    /\ UNCHANGED <<hardware, heard, port, slaveV, fun, noFactor, reported>>

FlagsDone ==
    /\ LoopEnds("flags")
    /\ phase' = "done"
    /\ SetTypes
    /\ reported' = reported \cup Missing
    /\ UNCHANGED <<hardware, heard, port, t, asked, slaveV, fun, portErr>>

Robot ==
    \/ AskAgain \/ NumNext \/ NumDone \/ PositionsDone \/ VersionsDone
    \/ FunNext \/ (\E flagsToo \in BOOLEAN : FunDone(flagsToo)) \/ FlagsDone

Next ==
    \/ Robot
    \/ \E p \in Port : AnswerNum(p) \/ TakeFun(p)
    \/ \E m \in Motor : AnswerState(m) \/ AnswerVersion(m) \/ AnswerFlag(m)

Spec == Init /\ [][Next]_vars

\* The loops sleep and go on, whatever the boards answer.
FairSpec == Spec /\ WF_vars(Robot)

-----------------------------------------------------------------------------
Uniform == \A p, q \in Port : firm[p] = firm[q]

\* When all boards have the same firmware none of them is sent a request it does
\* not know, whichever answers came late or never: the version the robot acts on
\* is the one the last port has answered, and an unanswered one counts as old.
SupportedRequests ==
    Uniform => \A p \in Port : \A k \in asked[p] : firm[p] >= Since[k]

\* When no motor was reported, a port that confirmed a function version above
\* fun_v1 runs it, and every motor on it can: what motor_version_detection chose
\* from the answers is common to all.  (fun_v1 is "confirmed" by the initial
\* value of canport::fun_v, and nobody need have answered.)
FunctionAgreed ==
    phase \in {"flags", "done"} /\ reported = {} /\ fun # 1 =>
        /\ \A m \in Motor : fun <= FunOf(mver[m])
        /\ \A p \in Port : portFun[p] = fun => boardFun[p] = fun

\* When the robot takes its boards for ones that know the torque flags, a motor
\* that scales its torque itself and is scaled by this program once more has been
\* named in an error message.
TorqueFactorReported ==
    phase = "done" /\ slaveV >= V(4, 7, 0) => adjusts \ noFactor \subseteq reported

\* The negotiation comes to an end, however silent the boards are.
NegotiationEnds == <>(phase \in {"done", "exit"})

\* "fun_v err!!!": a port that does not run the function version the robot has
\* chosen is named by set_fun_v.
UnsetFunctionReported ==
    phase = "done" /\ slaveV >= V(4, 0, 0) /\ fun # 1 =>
        \A p \in Port : boardFun[p] # fun => p \in portErr
=============================================================================
