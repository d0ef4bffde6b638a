------------------------------ MODULE Recovery ------------------------------
(***************************************************************************)
(* The life of the serial links of one robot object: init_robot opens a    *)
(* serial_driver per CAN port and starts a receive thread on it, the check *)
(* thread (robot::check_error) watches the drivers, tears everything down  *)
(* when one of them failed and builds it again, the user thread calls the  *)
(* API and finally runs the destructor.                                    *)
(*                                                                         *)
(* Nothing orders these threads but the joins: the mutex of check_error is *)
(* local to it.  Where two of them use a vector or a descriptor at the same*)
(* time the outcome is undefined: here it may go well or end the process.  *)
(*                                                                         *)
(* The state of check_error is static: the check threads of all the robots *)
(* of the process share one.  The others are here by what they write to it.*)
(*                                                                         *)
(* What is sent is left to MotorBus and Negotiation, the bytes to Receive. *)
(***************************************************************************)
EXTENDS Naturals, FiniteSets

CONSTANTS
    N,           \* CAN ports: one board with a serial device for each
    OtherNodes   \* how many /dev/ttyACM nodes belong to other devices

ASSUME RecoveryAssumption == N \in Nat \ {0} /\ OtherNodes \in Nat

Port  == 1 .. N     \* as numbered by serial_id
Board == 1 .. N
NeededNodes == 4    \* check_error goes on when it finds this many nodes

VARIABLES
    plugged,    \* the boards whose device node exists
    fault,      \* a board has vanished or was missing (history)
    shared,     \* another robot of the process has run check_error (history)
    str,        \* the devices init_ser has listed, in the order of readdir
    drv,        \* the driver of each port, see DrvState
    handles,    \* descriptors this robot holds on the device of each board
    rx,         \* the receive thread of each port
    runFlag,    \* serial_driver::init_flag, the loop condition of that thread
    built,      \* CANboards, CANPorts and Motors are filled
    user,       \* what the user thread is doing
    chk,        \* what the check thread is doing
    checking,   \* robot::error_check_flag
    alive       \* the process has neither exited nor crashed

world   == <<plugged, fault, shared>>
link    == <<str, drv, handles, rx, runFlag>>
threads == <<built, user, chk, checking, alive>>
vars    == <<plugged, fault, shared, str, drv, handles, rx, runFlag, built, user, chk, checking, alive>>

\* dead: open, but the device is gone; failed: closed, with error_flag set;
\* closed: closed by the destructor, error_flag not set.
DrvState  == {"none", "open", "dead", "failed", "closed"}
UserState == {"list", "open", "build", "setup", "idle", "call",
              "halt", "close", "join", "stop", "wait", "gone"}
\* The cases of check_error, and the stages of error_clear and error_reconnect.
ChkState  == {"off", "check", "clear", "join", "delete", "wait_dev",
              "reconnect", "open", "build", "setup", "overrun", "done"}
\* Between two turns of the thread: what error_run_state holds.
Turn == {"check", "clear", "wait_dev", "reconnect"}

TypeOK ==
    /\ plugged \subseteq Board /\ fault \in BOOLEAN /\ shared \in BOOLEAN
    /\ \E n \in 0 .. N : str \in [1 .. n -> Board]
    /\ drv \in [Port -> DrvState]
    /\ handles \in [Board -> Nat]
    /\ rx \in [Port -> {"none", "running", "ended"}]
    /\ runFlag \in [Port -> BOOLEAN]
    /\ user \in UserState /\ chk \in ChkState
    /\ built \in BOOLEAN /\ checking \in BOOLEAN /\ alive \in BOOLEAN

Ending   == user \in {"halt", "close", "join", "stop", "wait", "gone"}
Holding  == {p \in Port : drv[p] \in {"open", "dead"}}   \* with a descriptor
Healthy  == built /\ \A p \in Port : drv[p] = "open"

\* exit(0), an exception nobody catches, or a crash.
Dies == alive' = FALSE /\ UNCHANGED <<world, link, built, user, chk, checking>>

Init ==
    /\ plugged \in SUBSET Board
    /\ fault = (plugged # Board)
    /\ shared = FALSE
    /\ str = <<>>
    /\ drv = [p \in Port |-> "none"]
    /\ handles = [b \in Board |-> 0]
    /\ rx = [p \in Port |-> "none"]
    /\ runFlag = [p \in Port |-> FALSE]
    /\ built = FALSE
    /\ user = "list"
    /\ chk = "off"
    /\ checking = FALSE
    /\ alive = TRUE

-----------------------------------------------------------------------------
(* Devices.                                                                *)

Plug(b) ==
    /\ b \notin plugged
    /\ plugged' = plugged \cup {b}
    /\ UNCHANGED <<fault, shared, link, threads>>

Unplug(b) ==
    /\ b \in plugged
    /\ plugged' = plugged \ {b}
    /\ fault' = TRUE
    /\ drv' = [p \in Port |-> IF drv[p] = "open" /\ str[p] = b THEN "dead" ELSE drv[p]]
    /\ UNCHANGED <<shared, str, handles, rx, runFlag, threads>>

-----------------------------------------------------------------------------
(* Drivers and receive threads.                                            *)

\* The orders in which readdir can list the devices in S.
Listings(S) ==
    {s \in [1 .. Cardinality(S) -> S] : \A i, j \in DOMAIN s : s[i] = s[j] => i = j}

\* init_ser lists the devices with the boards' USB ids.
ListDevices ==
    /\ str' \in Listings(plugged)
    /\ UNCHANGED <<world, drv, handles, rx, runFlag, built, alive>>

\* One turn of its loop: a driver on str[serial_id - 1], which is open if the
\* device is still there, and its receive thread.  With fewer devices than
\* ports the name is read past the end of the vector.
OpenDriver(p) ==
    /\ drv[p] = "none"
    /\ \A q \in 1 .. p - 1 : drv[q] # "none"
    /\ LET ok == p \in DOMAIN str /\ str[p] \in plugged IN
       /\ drv' = [drv EXCEPT ![p] = IF ok THEN "open" ELSE "failed"]
       /\ handles' = IF ok THEN [handles EXCEPT ![str[p]] = @ + 1] ELSE handles
    /\ rx' = [rx EXCEPT ![p] = "running"]
    /\ runFlag' = [runFlag EXCEPT ![p] = TRUE]
    /\ UNCHANGED <<world, str, built, alive>>

NameMissing == \E p \in Port : drv[p] = "none" /\ p \notin DOMAIN str

\* Closing the ports in S; st is the state their drivers are left in.
CloseAs(S, st) ==
    /\ drv' = [p \in Port |-> IF p \in S THEN st ELSE drv[p]]
    /\ handles' = [b \in Board |-> IF \E p \in S \cap Holding : str[p] = b
                                   THEN handles[b] - 1 ELSE handles[b]]

\* SerialImpl::close takes no lock: two threads that close a dead port close
\* its descriptor twice, and the second close throws.
DoubleClose(S) == \E p \in S : drv[p] = "dead" /\ rx[p] = "running"

\* Mutant of ReadThrows: a read that times out is a failure too.
ReadTimesOut(p) == drv[p] # "none"

\* SerialImpl::read throws when the port is not open, and when the device is
\* readable and yields nothing; when time is out it returns what there is.
ReadThrows(p) == drv[p] \in {"dead", "failed", "closed"}

\* Mutant of ReceiveFails: the handler closes the port and raises no error_flag.
ReceiveFailsSilently(p) ==
    /\ rx[p] = "running"
    /\ ReadThrows(p)
    /\ CloseAs({p}, "closed")
    /\ rx' = [rx EXCEPT ![p] = "ended"]
    /\ UNCHANGED <<world, str, runFlag, threads>>

\* recv_1for6_42 leaves its loop by an exception, whose handler closes the port
\* and raises error_flag, ...
ReceiveFails(p) ==
    /\ rx[p] = "running"
    /\ ReadThrows(p)
    /\ CloseAs({p}, "failed")
    /\ rx' = [rx EXCEPT ![p] = "ended"]
    /\ UNCHANGED <<world, str, runFlag, threads>>

\* ... or because init_flag is down.
ReceiveEnds(p) ==
    /\ rx[p] = "running"
    /\ ~runFlag[p]
    /\ rx' = [rx EXCEPT ![p] = "ended"]
    /\ UNCHANGED <<world, str, drv, handles, runFlag, threads>>

-----------------------------------------------------------------------------
(* The check thread: one case of check_error per turn, and between turns a *)
(* wait of a second that ends the thread when error_check_flag is down.    *)

CheckGoes(from, to) == chk = from /\ chk' = to

\* A turn of another robot's check thread.  It reads the state, takes its time,
\* and writes the case that follows, so any of them may appear; within a turn of
\* this thread what the others write is lost, it ends by writing its own.
OtherTurn ==
    /\ shared' = TRUE
    /\ IF chk \in Turn THEN chk' \in Turn ELSE UNCHANGED chk
    /\ UNCHANGED <<plugged, fault, link, built, user, checking, alive>>

CheckStops ==
    /\ chk \in Turn
    /\ ~checking
    /\ chk' = "done"
    /\ UNCHANGED <<world, link, built, user, checking, alive>>

\* Mutant of CheckScan: the loop stops at the first driver.
CheckFirst ==
    /\ checking
    /\ CheckGoes("check", "clear")
    /\ drv[1] = "failed"
    /\ UNCHANGED <<world, link, built, user, checking, alive>>

CheckScan ==
    /\ checking
    /\ CheckGoes("check", "clear")
    /\ \E p \in Port : drv[p] = "failed"
    /\ UNCHANGED <<world, link, built, user, checking, alive>>

\* Mutant of ClearFlags: the receive threads are not told to end.
ClearNothing ==
    /\ checking
    /\ CheckGoes("clear", "join")
    /\ UNCHANGED <<world, link, built, user, checking, alive>>

ClearFlags ==
    /\ checking
    /\ CheckGoes("clear", "join")
    /\ runFlag' = [p \in Port |-> FALSE]
    /\ UNCHANGED <<world, str, drv, handles, rx, built, user, checking, alive>>

\* Mutant of ClearJoin: the vectors are cleared without joining the threads.
ClearUnjoined ==
    /\ CheckGoes("join", "delete")
    /\ built' = FALSE
    /\ UNCHANGED <<world, link, user, checking, alive>>

\* The threads are joined and the objects cleared, under a user thread that may
\* be walking or filling the vectors, or joining the same threads.
ClearJoin ==
    /\ chk = "join"
    /\ \A p \in Port : rx[p] # "running"
    /\ \/ /\ chk' = "delete"
          /\ rx' = [p \in Port |-> "none"]
          /\ built' = FALSE
          /\ UNCHANGED <<world, str, drv, handles, runFlag, user, checking, alive>>
       \/ user \in {"build", "setup", "call", "halt", "join"} /\ Dies

\* Mutant of ClearDelete: the drivers are dropped and not deleted.
ClearForget ==
    /\ CheckGoes("delete", "wait_dev")
    /\ drv' = [p \in Port |-> "none"]
    /\ UNCHANGED <<world, str, handles, rx, runFlag, built, user, checking, alive>>

\* delete s: ~serial_driver closes the ports that are still open.
ClearDelete ==
    /\ chk = "delete"
    /\ \/ /\ chk' = "wait_dev"
          /\ CloseAs(Port, "none")
          /\ UNCHANGED <<world, str, rx, runFlag, built, user, checking, alive>>
       \/ user \in {"call", "halt", "close"} /\ Dies

WaitDevice ==
    /\ checking
    /\ CheckGoes("wait_dev", "reconnect")
    /\ Cardinality(plugged) + OtherNodes >= NeededNodes
    /\ UNCHANGED <<world, link, built, user, checking, alive>>

Cleared == \A p \in Port : drv[p] = "none"

\* init_ser drops the drivers it finds and their threads.  There are none after
\* error_clear; where another robot has moved the state past it there are, and a
\* thread nobody has joined ends the process when it is dropped (std::terminate).
\* Which of them a destructor under way has joined is left open.
ReconnectList ==
    /\ checking
    /\ \/ /\ CheckGoes("reconnect", "open")
          /\ Cleared
          /\ ListDevices
          /\ UNCHANGED <<user, checking>>
       \/ /\ CheckGoes("reconnect", "open")
          /\ ~Cleared
          /\ user \in {"join", "stop", "wait"} /\ \A p \in Port : rx[p] # "running"
          /\ str' \in Listings(plugged)
          /\ drv' = [p \in Port |-> "none"] /\ rx' = [p \in Port |-> "none"]
          /\ UNCHANGED <<world, handles, runFlag, built, user, checking, alive>>
       \/ /\ chk = "reconnect"
          /\ \E p \in Port : rx[p] # "none"
          /\ Dies

ReconnectOpen ==
    /\ chk = "open"
    /\ \/ /\ \E p \in Port : OpenDriver(p) /\ chk' = IF p = N THEN "build" ELSE chk
          /\ UNCHANGED <<user, checking>>
       \/ NameMissing /\ Dies

ReconnectBuild ==
    /\ CheckGoes("build", "setup")
    /\ built' = TRUE
    /\ UNCHANGED <<world, link, user, checking, alive>>

\* set_port_motor_num and check_motor_connection_version.  Without the answer of
\* the last port slave_v is 0 and send_get_motor_version_cmd calls exit(0).  The
\* requests go through the buffers the user thread writes: once it has, they
\* may all have been its frames (overrun).
ReconnectSetup ==
    /\ chk \in {"setup", "overrun"}
    /\ \/ /\ drv[N] = "open"
          /\ chk' = "check"
          /\ UNCHANGED <<world, link, built, user, checking, alive>>
       \/ (drv[N] # "open" \/ chk = "overrun") /\ Dies

CheckThread ==
    \/ CheckStops \/ CheckScan \/ ClearFlags \/ ClearJoin \/ ClearDelete
    \/ WaitDevice \/ ReconnectList \/ ReconnectOpen \/ ReconnectBuild \/ ReconnectSetup

-----------------------------------------------------------------------------
(* The user thread.                                                        *)

UserGoes(from, to) == user = from /\ user' = to

InitList ==
    /\ UserGoes("list", "open")
    /\ ListDevices
    /\ UNCHANGED <<chk, checking>>

\* init_robot opens the drivers, and starts the check thread before it builds
\* the objects on top of them.  The thread begins in the state it finds.
InitOpen ==
    /\ user = "open"
    /\ \/ \E p \in Port :
            /\ OpenDriver(p)
            /\ user' = IF p = N THEN "build" ELSE user
            /\ chk' \in IF p < N THEN {chk} ELSE IF shared THEN Turn ELSE {"check"}
            /\ checking' = (p = N)
       \/ NameMissing /\ Dies

InitBuild ==
    /\ UserGoes("build", "setup")
    /\ built' = TRUE
    /\ UNCHANGED <<world, link, chk, checking, alive>>

\* The negotiation: without the last port's answer slave_v is 0, which init_robot
\* takes for old firmware, and it goes on.
InitSetup ==
    /\ UserGoes("setup", "idle")
    /\ UNCHANGED <<world, link, built, chk, checking, alive>>

CallBegins ==
    /\ UserGoes("idle", "call")
    /\ UNCHANGED <<world, link, built, chk, checking, alive>>

\* A call sends on every port, the writes on the dead ports in S throw.
CallEnds(S) ==
    /\ user = "call"
    /\ S \subseteq {p \in Port : built /\ drv[p] = "dead"}
    /\ \/ /\ CloseAs(S, "failed")
          /\ user' = "idle"
          /\ chk' = IF chk = "setup" /\ built THEN "overrun" ELSE chk
          /\ UNCHANGED <<world, str, rx, runFlag, built, checking, alive>>
       \/ DoubleClose(S) /\ Dies

Destroy ==
    /\ UserGoes("idle", "halt")
    /\ UNCHANGED <<world, link, built, chk, checking, alive>>

DestroyHalts ==
    /\ UserGoes("halt", "close")
    /\ UNCHANGED <<world, link, built, chk, checking, alive>>

DestroyCloses ==
    /\ user = "close"
    /\ \/ /\ user' = "join"
          /\ runFlag' = [p \in Port |-> runFlag[p] /\ drv[p] = "none"]
          /\ CloseAs(Holding, "closed")
          /\ UNCHANGED <<world, str, rx, built, chk, checking, alive>>
       \/ DoubleClose(Port) /\ Dies

DestroyJoins ==
    /\ UserGoes("join", "stop")
    /\ \A p \in Port : rx[p] # "running"
    /\ UNCHANGED <<world, link, built, chk, checking, alive>>

DestroyStops ==
    /\ UserGoes("stop", "wait")
    /\ checking' = FALSE
    /\ UNCHANGED <<world, link, built, chk, alive>>

\* The check thread is joined; a receive thread that it has started in the
\* meantime is destroyed unjoined: std::terminate.
DestroyEnds ==
    /\ user = "wait"
    /\ chk = "done"
    /\ \/ /\ \A p \in Port : rx[p] # "running"
          /\ user' = "gone"
          /\ UNCHANGED <<world, link, built, chk, checking, alive>>
       \/ (\E p \in Port : rx[p] = "running") /\ Dies

UserGoesOn ==
    \/ InitList \/ InitOpen \/ InitBuild \/ InitSetup
    \/ \E S \in SUBSET Port : CallEnds(S)
    \/ DestroyHalts \/ DestroyCloses \/ DestroyJoins \/ DestroyStops \/ DestroyEnds

-----------------------------------------------------------------------------
Receive(p) == ReceiveFails(p) \/ ReceiveEnds(p)

Next ==
    \/ \E b \in Board : Plug(b) \/ Unplug(b)
    \/ alive /\ (CheckThread \/ OtherTurn \/ UserGoesOn \/ CallBegins \/ Destroy \/ \E p \in Port : Receive(p))

Spec == Init /\ [][Next]_vars

\* The threads run: a read lasts a second at most, a turn of the check thread
\* little more, and a call ends.  The user need not call or destroy anything,
\* and nothing is assumed of the cables.
FairSpec ==
    /\ Spec
    /\ WF_vars(alive /\ CheckThread)
    /\ WF_vars(alive /\ UserGoesOn)
    /\ \A p \in Port : WF_vars(alive /\ Receive(p))

-----------------------------------------------------------------------------
\* No receive thread runs on a driver that was deleted under it: error_clear
\* joins before it deletes, whatever the destructor and the cables do.
ReceiverHasDriver == \A p \in Port : rx[p] = "running" => drv[p] # "none"

\* A device is never opened while this robot still holds a descriptor of it,
\* over any number of recoveries: what is deleted has closed its port.
OneOpenPerDevice == \A b \in Board : handles[b] <= 1

\* Until the destructor ends it all, no failure goes unnoticed: a driver whose
\* device is gone has a receive thread that will run into it, or is about to be
\* deleted, a driver with error_flag set has the check thread, and none is closed
\* without the flag (serial_driver.cpp:226-236, robot.cpp:424-450).
NoFailureIsMissed ==
    ~Ending => \A p \in Port :
        /\ drv[p] = "dead" => rx[p] = "running" \/ chk \in {"join", "delete"}
        /\ drv[p] = "failed" => user = "open" \/ (checking /\ chk # "done")
        /\ drv[p] # "closed"

\* The links are torn down only after a device was missing, after the destructor
\* has closed them, or where another robot has had the state: a board that is
\* merely silent is a read that times out, no error.
ClearsOnlyAfterFailure ==
    [][chk = "clear" /\ chk' = "join" => fault \/ Ending \/ shared]_vars

\* The driver of a device that vanished does not stay: the read throws, the check
\* thread sees the flag, joins and deletes, unless the process ends.  Another
\* robot may take the state on under this thread, which then may never clear.
LostDeviceIsDropped ==
    \A p \in Port : drv[p] = "dead" ~> (drv[p] = "none" \/ Ending \/ ~alive \/ shared)

\* When the cables are in place for good, the robot has all its links again, or
\* the process is over, or the state is not this robot's alone.
RecoversOrExits ==
    <>[](plugged = Board) => <>[](Healthy \/ Ending \/ ~alive \/ shared)
=============================================================================
