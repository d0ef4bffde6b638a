# TLA+ models of panthera_ht_ros

The repository drives the HighTorque Panthera arm: six joints and a gripper,
seven motors on a CAN port behind a USB adapter. It holds a C++ SDK
(`src/hightorque_robot`), a ROS 2 node that offers motions as topics and
services (`src/panthera_arm_control/src/arm_control_node.cpp`), a joystick
node on top of it (`arm_joy_teleop_node.cpp`) and a ros2_control hardware
interface (`src/panthera_moveit`). The directory you are reading holds TLA+
modules of the parts where several actors meet, the TLC configurations that
check them and the TLAPS proofs about them.

Abbreviations for sources: RB, CB, CP, MOT are `robot.cpp`, `canboard.cpp`,
`canport.cpp`, `motor.cpp` of `hightorque_robot/src/hardware`, SD is
`serial_driver.cpp`, PAN is `panthera/Panthera.cpp`, ACN, TEL and HW are
`arm_control_node.cpp`, `arm_joy_teleop_node.cpp` and
`panthera_hardware_interface.cpp`.

## 1. The system

```
 joystick --Joy--> arm_joy_teleop_node --pos_cmd, go_zero_srv, gripper--+
                        ^                                               v
                        +---------- end_pose_euler -------- arm_control_node
 MoveIt / ros2_control --> PantheraHardwareInterface            |  (one thread)
                                   |                            v
                                   +--------> Panthera / robot (user thread)
                                                |  one buffer per CAN port
                               send_2           v            receive threads
                               serial_driver <=====USB=====> serial_driver
                                                |
                                             motors
```

| Component | State it keeps | Operations | Who else touches it |
|---|---|---|---|
| Command path: `robot`, `canboard`, `canport`, `motor`, `send_2` | one transmit buffer per port (mode and a slot per motor); the latched limits | arm and gripper commands, state poll, resend, stop, brake, reset, zeroing, timeout, limit detection, destruction | the links close themselves when a write throws; the receive threads raise limit flags |
| Calibration handshake: `set_reset_zero`, `set_conf_write` | `motors_id`, `mode_flag` | broadcast and single calibration | the receive thread writes both, with no lock |
| Frame layout: the methods of `motor`, the broadcasts of `canport`, `get_data_len` | the 256 bytes of the transmit buffer | write a word, fill, broadcast | - |
| Receive path: `recv_1for6_42`, `fresh_data` | SOF, CRC16 and payload of the frame being read; `motor::data`, the limit flags | read and dispatch a frame | the results are read by the user thread |
| Serial errors and reconnection: `check_error`, `error_clear`, `error_reconnect`, `~robot` | the lists of drivers, boards, ports, motors; a thread per driver; the descriptors | detect, tear down, wait, reopen, destroy | deletes what the user and receive threads use |
| Start-up and versions: `init_robot`, `set_motor_num`, `motor_version_detection`, `set_fun_v`, `check_tqe_adjust_flag` | `slave_v`, `fun_v`, the versions and flags of ports and motors | five questions with retries | the receive threads store the answers |
| `arm_control_node` | `arm_enabled_`, `is_moving_`, `last_error_message_` | 4 topics, 8 services, a 20 Hz status timer | one thread for all of them |
| `arm_joy_teleop_node` | target pose, filters, previous buttons | joystick and pose callbacks, a 60 Hz tick | works against `arm_control_node` |
| MoveIt hardware interface | command and state vectors | the ros2_control lifecycle, read, write | the controller manager |
| Kinematics, value scaling, configuration, CRC, LCM | none that outlives a call | pure functions, start-up | - |

### What is hard in it

* **Shared buffers.** All motors of a port share one buffer, and
  `robot::motor_send_cmd` sends the buffers of all ports whatever the call was
  about. A gripper command resends what the arm's port holds. Whether that is
  harmless depends on every call leaving a buffer behind that says what its
  motors are doing anyway.
* **Stop against latch.** `detect_motor_limit` stops the motors and then latches
  a flag that makes `motor_send_cmd` refuse; halts go past that refusal.
* **Handshakes over a lossy link with no sequence numbers.** Requests are
  repeated, an answer names a request code but not which repetition it
  answers, and the receive thread writes the two variables the user thread
  tests.
* **One thread for everything.** `rclcpp::spin` serves `arm_control_node`. A
  motion holds the thread for up to 15 s per waypoint; the status timer, the
  emergency stop and the disabling of the arm wait for it.
* **Feedback of unknown age.** A closed device freezes `motor::data`; nobody
  looks at its time.
* **Links that come back.** `error_reconnect` (RB:498-522) builds new ports and
  motors and sends no halt. Motors whose link was down when they were told to
  stop go on with their old order within reach of a robot that takes them for
  stopped. With the shipped `motor_timeout_ms` of 0 no timeout of the firmware
  ends that.
* **A watchdog that deletes.** `check_error` joins the receive threads, clears
  the vectors and deletes the drivers while the user thread may be anywhere,
  `init_robot` and the destructor included; its mutex protects nothing. Its
  state is `static` (RB:429-430): the check threads of two robots, which a
  second `on_configure` makes (HW:144), share it.
* **Answers that may never come.** Start-up decides what it asks next from what
  happens to have been answered.
* **A byte stream that loses bytes.** The receive thread's CRC16 and payload
  outlive the frame, and short reads go unnoticed.
* **Commands seeded from feedback.** The hardware interface writes back as a
  command what it last read, or the 999.0 of a motor that never answered.
* **Clutch, edges and filters** of the teleoperation: three memories (target,
  filters, previous buttons) that must be reset at the right ticks, and a queue
  of depth one between two nodes of very different speeds.

### What makes the components correct

* Command path: a call moves the motors it names and nobody else; the latching
  of a limit halts every motor in reach, and none is given a motion after it;
  nothing in reach is driven after the exit; the arm never leaves its joint
  limits.
* Handshake: a reported success is one; nothing is stored before it was set;
  every calibration ends.
* `arm_control_node`: disabling halts the arm motors in reach, and none is given
  a motion while the arm is disabled; a status of idle means a settled arm; a
  path skips no waypoint; every request is answered.
* Recovery: no thread reads through a deleted driver, no device is opened twice,
  links are torn down only for a cause, and come back.
* Negotiation: no board is asked what it does not know, the function version is
  one that all motors have, start-up ends.
* Hardware interface: what was never read is never a command to the arm, and a
  motor nobody commanded stays where it is.
* Frames: an order given is whole in the frame that goes out, and no other is.
  Reception: what is dispatched is what was sent.
* Teleoperation: nothing moves without the operator asking for it, and once the
  operator stops asking at most the requests for home that wait and one motion
  more begin.

The list of hazards, line by line, with the properties that cover them, is
`PROJECT.json` under `hazards`.

## 2. The modules

| Module | Models | Composes |
|---|---|---|
| `Actuators` | what the SDK promises of its commands: no frames, no ports | |
| `MotorBus` | the command path as it is written | refines `Actuators` |
| `Calibration` | what a calibration of a port promises: asked, zeroed, stored, reported | |
| `ConfHandshake` | the handshake as it is written | refines `Calibration` |
| `ArmControl` | `arm_control_node` | uses `Actuators` for every SDK call |
| `Teleop` | `arm_joy_teleop_node` and the part of `arm_control_node` it works against | |
| `Recovery` | the drivers, their receive threads, the check thread and the destructor | |
| `Negotiation` | what `init_robot` and `error_reconnect` ask of boards and motors | |
| `HardwareInterface` | `PantheraHardwareInterface` under the controller manager | uses `Actuators` for every SDK call |
| `Frames` | the transmit buffer of a port, byte by byte | its writes are those of `MotorBus` to its slots |
| `Receive` | the receive thread on the bytes of the tty | |
| `MotorBus_proofs` | invariants and action properties of `MotorBus`, and that it implements `Actuators` | |
| `ConfHandshake_proofs` | its invariants, that it implements `Calibration`, that it ends | |
| `Wire_proofs` | invariants of `Frames` and of `Receive` | both |
| `ArmControl_proofs`, `Teleop_proofs`, `Recovery_proofs`, `Negotiation_proofs`, `HardwareInterface_proofs` | invariants, action properties and bounds | |
| `MC...` | instances for TLC | |

`PROJECT.json` under `map` names the lines of each definition.

### MotorBus

State: `cmd[p]` and `slot[m]` are the transmit buffers (`head.s.cmd` and the
motors' words, NOP is 0x8000), `act[m]` is what motor `m` was last told to do,
`link[p]` whether the port's device is open, `posFlag`/`torFlag` the motors'
limit flags and `posLatch`/`torLatch` the robot's.

Each public call of `robot` or `Panthera` is one action, buffers, sends and
repetitions included: `PosVelMaxTorque`, `PosVelTorqueKpKd`, `GripperControl`,
`GripperControlMIT`, `SendGetMotorStateCmd`, `MotorSendCmd`, `SetStop`,
`SetBrake`, `SetReset`, `SetResetZero`, `SetTimeout`, `DetectMotorLimit`,
`Destroy`. `FreshData` is the receive thread, `LinkDown` the loss of a device.
`Reconnect(U)` is `error_reconnect`: the devices of the ports `U` are open again,
all buffers are new and in the mode of a version request, their slots whatever
was in memory, the flags of the motors are down, the latches stay, and the motors obey what they obeyed. No halt and no timeout is
sent, so `LatchedMeansHalted` speaks of steps: the one that latches halts whom
it reaches, and later ones give no motor a motion. That a motor in reach of a
latched robot may still be driven is what `MotorBusLatch.cfg` shows.
The calls are atomic towards each other because one user thread makes them; what
happens when `error_reconnect` falls into one of them is left to `Recovery`.
The firmware is external: a motion frame with a word for the motor replaces
its order, a halting broadcast ends it, any other frame leaves it alone.
Positions are symbols, some of them legal.

### Actuators

The same calls with the buffers gone: `order[m]`, the set of reachable motors,
one latch. A motion call is refused once a limit is latched, a halt never is.
Motors leave reach (`Unreach`) and come back (`Regain`) under the order they had.
`MotorBus` maps to it with `order <- act`, `reach <- the motors behind open
links`, `latched <- posLatch \/ torLatch`.

### ConfHandshake

The user thread goes through `clear_ids`, `clear_flag`, `send`, `check`, each an
action, so that the receive thread's `Receive` (the code is stored) and `Insert`
(one id at a time) fall between any two of them. `pending[c][m]` counts the
answers of motor `m` to request `c` that are on their way: answers are delayed,
merged and lost at will. `SettledAt` says before which requests a pause outlasts
the answers to earlier requests; `{ZERO, CONF}` is what the code counts on,
`{ZERO}` drops it for the 100 ms between the two requests of
`canboard::set_reset_zero`. Pauses are only where the code has them: `broad`
says that a broadcast is under way, and the calibration of a single motor, which
starts with the 200 ms of `robot::set_reset` (RB:887), goes on to CONF_WRITE
with none (RB:913-916), late answers to RESET_ZERO or not. `set_conf_write()`
that gives up calls `exit(0)`.

### Calibration

A calibration without requests and answers: motors of the target take the zero,
when all have it they store it, and success is what is printed when all stored it.
`ConfHandshake` maps to it with `phase <- Phase`, which forgets the steps and the
retries; `target`, `zeroed`, `saved` and `outcome` are its own.

### ArmControl

`pending[c]` is the message or request waiting at a topic or service, `job` the
callback that holds the thread (`plan`: IK for the next waypoint, `wait`: inside
`waitForPosition`, `grip`: the last part of `posCmdCallback`). Callbacks that do
not wait are one action. `pos` is where the arm's motors are, `fb` the feedback
last received, `heard` (history) the arm motors that got the last call meant for
the arm. `Reconnect` makes motors reachable again with no feedback yet and tells
the node nothing; it falls between two calls of the SDK. A pose is abstracted to
the joint targets IK may make of it: any legal one, or a failure. `gripper_srv`
with `set_zero` indexes one past the last motor (ACN:686): what it finds is
undefined, so it either resets the robot (`GripperDetailService`) or ends the
process (`GripperZeroDies`).

### Teleop

A pose is one coordinate, the inputs are a stick and a trigger, the filters one
variable that is 0 while nothing exceeds `motion_epsilon_`. `ControlLoop` is the
whole timer callback with its requests. Of `arm_control_node` it has the one
thread (`busy`), the queue of depth one (`cmds`), the requests for home and the
poses it publishes while it is free. `touched`, `fresh`, `sent`, `late` and
`waited` are history variables: `late` counts the motions of either kind begun
since the operator last asked for one, `waited` is how many requests for home
waited then.

### Recovery

`drv[p]` is the driver of a port (none, open, open on a device that is gone,
failed, closed), `rx[p]` its receive thread, `handles[b]` the descriptors the
robot holds on a board's device, `str` the devices as `readdir` listed them.
`user` is where the user thread is, in `init_robot`, a call or the destructor;
`chk` which case of `check_error` comes next, its stages taken apart where another
thread can step between. An exception nobody catches, `exit`, and undefined
behaviour (vectors cleared under a walk, a descriptor closed twice, a name past
the end of `str`) may set `alive` to FALSE, and where it is undefined they may
also go well.

All this is about one robot object. The state of `check_error` is `static`, so
that every robot of the process runs on it: `OtherTurn` is another robot's check
thread, which sets it to anything once this one's has begun, and `shared`
remembers that it did. `ReceiverHasDriver`, `OneOpenPerDevice` and
`NoFailureIsMissed` hold for this robot all the same. That links are torn down
only for a cause of their own and come back holds for a robot alone in its
process: `RecoveryOther.cfg` shows one that clears healthy links because another
failed or was destroyed. Descriptors a second robot opens on the same device are
not counted in `handles`.

### Negotiation

`phase` is the loop the robot is in, `port` and `t` its counters, `asked[p]` what
has been sent on a port. An answer is an action of its own that may happen at any
time after its question, or never. `again` says that `error_reconnect` asks
rather than `init_robot`. What boards and motors really are (`firm`, `mver`,
`adjusts`, `boardFun`) are variables next to what the robot has stored of them.

### HardwareInterface

The cycle is `Read`, `Update`, `WriteArm`, `WriteGripper`; a lifecycle callback
runs between two cycles. Setpoints include `Unread`, the 999.0 of MOT:26.
`on_configure` after `on_cleanup` builds a second robot and then destroys the
first, which halts the motors. `Reconnect` is that of `ArmControl`: the command is
kept and the feedback `Unread` again. That the second robot opens the tty the
first still holds, and what their check threads then do to each other, is not
here but in `Recovery` (`OtherTurn`). `stood` remembers where a motor stood when its
command was taken from it.

### Frames

One buffer with its mode and length, the methods that write it, `DataLen` with
the FDCAN rounding, `Limited` for `int16_limit`. `SetMotorOut` is apart from the
others, because MOT:393 stores its milliseconds with no limit: -32768 is there a
word that reads as no command, so `OrderIsInFrame` leaves that mode out. `given`
is which motors were called since the buffer changed its mode. A byte is zero,
part of a NOP, part of a value or the broadcast byte. `SlotSeen` is what a motor
reads in its slot; with it an instance of `MotorBus` for one port (`Bus`) says
what each write should do.

### Receive

`rest` is what the board has sent and nobody has read, `stage` the read the thread
is in, `sof`, `crc` and `data` its variables, which keep old bytes as the code's do.
`LoseByte` and `TimeOut` are the faults. The CRCs are ideal: what was sent passes
and nothing else. `BufLen` is 256 in the code. Names that `Frames` has too begin
with `Rx`, because `Wire_proofs` extends both modules.

## 3. The runs

| Run | Checks | Shows |
|---|---|---|
| `bus` | `ResendIsHarmless`, `LatchedMeansHalted`, `ArmWithinLimits`, `OnlyCommandedMotorsMove`, `ExitMeansHalted`, `ImplementsActuators` | in no order of calls, link failures, reconnections and limits does a frame do more than its call says |
| `calibrate` | `SavedMeansSaved`, `ZeroedBeforeSaving`, `ImplementsCalibration`, `CalibrationEnds` | broadcast and single calibrations are sound when the pauses outlast the answers, show nothing of the retries, and end whatever is lost |
| `arm` | `DisabledArmHalted`, `IdleIsSettled`, `NoSkippedWaypoint` | with every topic and service in use and links failing and coming back |
| `arm_live` | `RequestsAnswered` | service requests are answered while topics keep the thread busy |
| `arm_stop` | `StopComesFirst` **violated** | the emergency stop waits for the remaining waypoints |
| `arm_stale` | `ReachedIsThere` **violated** | old feedback of a dead link is taken for the arm's position |
| `teleop` | `UntouchedPadIsStill`, `OneMoreMotion`, `ReleasedStickStops`, `NoGhostPress` | the operator's clutch, filters and buttons against a slow arm |
| `recovery` | `ReceiverHasDriver`, `OneOpenPerDevice`, `NoFailureIsMissed`, `ClearsOnlyAfterFailure`, `LostDeviceIsDropped`, `RecoversOrExits` | cables pulled and plugged at any moment, against start-up, calls, destruction and another robot's check thread |
| `negotiate` | `SupportedRequests`, `FunctionAgreed`, `TorqueFactorReported`, `NegotiationEnds` | with firmware on either side of every version the code compares with, and answers late or lost |
| `hardware` | `UnreadNeverReachesArm`, `UncommandedStaysPut`, `ArmThaws` | any order of lifecycle callbacks and cycles, with motors that stop answering and start again |
| `frames` | types (no overrun), `NoUncalledMotor`, `OrderIsInFrame`, `NoMotorIsSplit`, `WritesAreSlots` | any order of the methods that share a buffer, and that their bytes are the slots of `MotorBus` |
| `receive` | `AcceptedAsSent`, `EffectsAsSent`, `EveryFrameIsTaken`, `FindsFramesAgain` | bytes lost and reads that time out anywhere, and what happens without either |

The violated properties are what a comment, a header or a configuration file
says; `PROJECT.json` under `findings` quotes the lines. Every property of a
passing run is also checked against a mutant of the code it is about
(`PROJECT.json`, `mutants`; the mutated definitions stand before the originals
in the modules). The type invariants that are not among the runs' properties are
theorems.

### Further counterexamples

These configurations, run by hand, each end in a counterexample that shows how a
hazard comes about (for `M.cfg` of module `MCx`: `tlc -config M.cfg MCx`):

| Configuration, module | Property | What its trace shows |
|---|---|---|
| `MotorBusExit`, `MCMotorBus` | `ExitReleasesBrake` | the exit with `exit_motor_brake_flag` brakes the motors, where the configuration file speaks of releasing them |
| `MotorBusLatch`, `MCMotorBus` | `ReachedIsHalted` | a limit is latched while a link is down; after the reconnection a motor in reach is driven |
| `ConfHandshakeLate`, `MCConfHandshake` | `SavedMeansSaved` | with answers later than the 100 ms pause one motor's answer counts for all |
| `ArmReconnect`, `MCArmControl` | `ReachedIsHalted` | the same for the arm disabled while its link is down |
| `ArmGripper`, `MCArmControl` | `DisabledGripperHolds` | `pos_cmd` moves the gripper of a disabled arm |
| `ArmLongMove`, `MCArmControl` | `LongMoveIsPublished` | `motion_status` 1 is never published |
| `TeleopClutch`, `MCTeleop` | `ClutchStartsHere` | a deadman pressed during a motion starts from where the arm was before it |
| `RecoveryOnePort`, `MCRecovery` | `RecoversOrExits` | with the one port of the shipped configuration the wait for four ttyACM nodes (RB:486) never ends |
| `RecoveryOther`, `MCRecovery` | `OwnFailuresOnly` | another robot writes the shared state, and links that work are torn down |
| `NegotiationError`, `MCNegotiation` | `UnsetFunctionReported` | a port that does not run the chosen version is not named: the loop leaves `t` one higher than the test of CP:387 |
| `HardwareSeed`, `MCHardwareInterface` | `SeededFromPosition` | a command starts as the 999.0 of a motor that has not answered; the arm refuses it, the gripper does not |

### Bounds, and why they are enough

* `MCMotorBus`: two ports, one with an arm motor alone, one shared by the other
  arm motor and the gripper. A call finds a buffer it fills, one it fills in
  part and one it does not touch; more motors or ports repeat these three. Two
  setpoints, one of them illegal. One motor may report a position and another
  a torque out of limits. Function version 5 without the exit brake; all other
  versions and the brake are covered by the theorems, which hold for all
  constants. The view `Seen` makes one state of those that differ in which of the
  modes without motion a buffer holds, or in slots that hold no motion: a frame
  that is not of a motion mode leaves the motors alone or halts them, a call fills
  the slots before it turns a buffer into a motion frame, and no property reads
  either.
* `MCConfHandshake`: three motors, so that a set of answers can be empty, some,
  all but one, all; two calibrations, so that the second meets the leftovers of
  the first; three requests per handshake.
* `MCArmControl`: one arm motor and the gripper, two legal positions and one
  illegal; paths of two waypoints, so that there is one to skip. `MaxPending`
  1: one message waits while another job holds the thread; since every callback
  takes one message and runs to its end, the order in which two waiting
  messages are taken is covered by sending the second one later. In `arm_live`
  three wait at once, because there the competition is the point. `Everything`
  offers each topic and service at least one argument of each kind it tells
  apart; the gripper is only closed, since opening it is the same call. The
  view `Seen` leaves out the gripper's order and the status last published,
  which no guard and no property of the run reads. The theorems hold for any
  number of motors, waypoints and messages.
* `MCTeleop`: poses 0 to 2, the operator stops at the ends; eleven reports of
  the pad: each deadman, each direction, the trigger at rest and half way, each
  button alone and with the others it competes with; one request for home under
  way. Both triggers of the code are one here, since each has its own flag and
  nothing is shared but the sum.
* `MCRecovery`: two ports, the least number at which one driver fails while
  another works, listings come in two orders, and the last port (whose version
  decides) differs from the first; two foreign ttyACM nodes, so that the count of
  four is reached exactly when both boards are there. The theorems hold for any
  number of either.
* `MCNegotiation`: two ports with a motor each, two tries per loop (one that goes
  unanswered and a last one). The firmwares are on either side of 4.0.0, 4.1.0 and
  4.7.0, with one pair that differs; the motors have function version 1, 4 or 5
  and some the torque flag. The theorems hold for all.
* `MCHardwareInterface`: one arm motor and the gripper behind one link, as all
  motors of the shipped configuration are, two legal positions and 999.0, motors
  of function version 5. A motor that does not answer while the other does is
  there through `Read`. The theorems cover any links and versions.
* `MCFrames`: ports of 1, 7 and 25 motors (one slot, the shipped number, the most
  that fit), one mode of each layout, calls for motors 1, 7 and 25 (the first, the
  last, and one in between), and the one number that would read as NOP, which
  `int16_limit` keeps out and `set_motorout` does not. From 26 motors a
  10-byte mode runs past the buffer, and the model stops there.
* `MCReceive`: three frames, among them one with a head byte in its payload, with
  ids of other ports and half an entry at its end; eight bytes of payload instead
  of 256, entries of two bytes; two faults in a behaviour, each anywhere. Two are
  needed: one to get out of step and one to hit the frame the thread then takes
  hold of. `FindsFramesAgain` promises to find the frames again if one with no
  head in its last four bytes is sent again and again (`Findable`); one of the
  three is not so, and a run of it alone is not promised anything: a motor that
  stands still with a 0xF7 there can keep the thread out of step for as long as
  it stands. It also supposes that no payload holds a header that passes
  (`NoFalseHeader`), as none of the three does. If both reads behind a good header
  time out, the payload of the frame before is dispatched under the new command,
  and passes; `AcceptedAsSent` and `EffectsAsSent` exempt frames a read timed out
  for, because of that.

### Fairness

* `ConfHandshake!FairSpec`: weak fairness of the user thread and of the receive
  thread, which the operating system schedules. Nothing is assumed of the link.
* `ArmControl!FairSpec`: weak fairness of the callback that runs, justified by
  the 15 s timeout in `waitForPosition`; strong fairness of serving each
  service, because `rclcpp::spin` works a wait set off before it collects the
  next one. A motion that comes to an end makes the thread free again and again
  but not forever, so weak fairness of a service would promise nothing.
  `arm_live` offers no `set_zero`, whose undefined behaviour may end the process.
* `Recovery!FairSpec`: weak fairness of the receive threads (a read lasts a second
  at most), of the check thread (a turn per second) and of a user thread inside a
  call. Nobody need call, destroy, plug or unplug anything.
* `Negotiation!FairSpec`: weak fairness of the loops, which sleep and go on; none
  of the answers.
* `HardwareInterface!FairSpec`: weak fairness of the cycle, which the controller
  manager runs at its rate; none of the controllers, links or motors.
* `Receive!FairSpec`: weak fairness of the board, which is polled, and of the
  thread.

Deadlock checking is off only where the system stops by itself: in `bus` after the
destructor, in `calibrate` after the last calibration or `exit`, in `negotiate`
when the negotiation is over and everything answered, in `hardware` when the
interface is gone and no motor can move.

## 4. The proofs

All theorems hold for every value of the constants under the assumptions the
modules name (`BusAssumption`, `ConfAssumption`, `OfferAssumption`,
`ArmAssumption`, `TeleopAssumption`, `RecoveryAssumption`, `NegotiationAssumption`,
`HardwareAssumption`, `NumsAssumption`, `NumbersAssumption`, `ModesAssumption`,
`SendableAssumption`, `BoundsAssumption`). Hypotheses beyond those are in the
statements: `Careful` (pauses that outlast the answers, or motors calibrated one by
one), and in `FeedbackIsReported` that a state frame is told by its length. Every
invariant and action property of the passing runs is a theorem but two,
`AcceptedAsSent` and `EffectsAsSent`; both refinements are.

* `MotorBus_proofs`: `TypeCorrect`, `ResendHarmless`, `LatchHalts`,
  `ArmStaysWithinLimits`, `OnlyCommandedMove`, `ExitHalts`. `ArmWithinLimits`
  is not inductive: the frame of a gripper command carries the arm's slots too.
  What makes it harmless is `Mirrored`, that as long as the robot runs and no
  limit is latched, obeying its buffer once more changes nothing for a motor
  behind an open link; a reconnection keeps it because its new buffers are in
  no motion mode. The invariant is `TypeOK`, `Mirrored` and `ArmWithinLimits`.
  `LatchHalts` is proved of the steps: a latched robot refuses motions
  (`LatchRefuses`), and only the call that halts the motors latches
  (`OnlyDetectLatches`). `CommandEffect`, `StopAllEffect` and `BroadcastEffect`
  say what the three kinds of calls do to a motor, and every action is one of
  them. `BusImplementsActuators`: initial states map to initial states and
  every step to a step of `Actuators` or a stutter. Given `Mirrored`, sending
  all buffers equals telling the commanded motors, which is the step of
  `Actuators`.
* `ConfHandshake_proofs`: `HandshakeType`, `SavedIsSaved`, `ZeroedFirst`, the
  last two under `Careful`. The invariant follows the answers: one on its way tells
  the truth about its motor (`Truthful`); while answers to RESET_ZERO are gathered
  nothing else can be in `motors_id` (`ZeroPhase`); once CONF_WRITE is asked for,
  either no old answer is left, or there is only one motor that could have answered
  (`ConfPhase`). `HandshakeImplementsCalibration`, also under `Careful`: of the
  user thread's steps only the start, the check that ends a phase and the failures
  show, and the invariant is what makes them steps of `Calibration`; without
  `Careful`, `ConfHandshakeLate` is a counterexample. `CalibrationIsBounded`, with
  no such condition: a calibration takes at most `4 * MaxTries + 6` steps, because a
  measure of what is left falls with every step of the user thread.
* `ArmControl_proofs`: `ArmTypeCorrect`, `DisabledMeansHalted`,
  `IdleMeansSettled`, `PathSkipsNothing`. `IdleIsSettled` says nothing of the
  move under way; added to it are `InFlight` (it was begun enabled, and the
  motors that heard it have its goal for an order) and `OnPath` (between two
  waypoints the last one has been confirmed). `DisabledMeansHalted` is proved
  of the steps: those of a disabled node, and the one that disables it, leave
  no motor with a motion it did not have (`Undriven`). `NodeUsesTheSdk`: each
  step of the node is for the motors a step of `Actuators` or none, apart from
  the undefined `set_zero` that ends the process (`GripperZeroDies`); one lemma
  per callback says which call it is. With `BusImplementsActuators` this puts
  the node on top of the frames and ports that `MotorBus` models.
  `OrdersStayLegal` follows from it: of the calls of `Actuators` only `MoveArm`
  gives an arm motor a position. `CallbackIsBounded`: a callback has at
  most `2 * MaxSteps + 2` rounds (`Rounds`), nobody but the callback itself
  changes them, only a wait may repeat one, and a request that waits is
  displaced by none.
* `Teleop_proofs`: `TeleopTypeCorrect`, `UntouchedIsStill`, `OneMoreThanAsked`,
  `PressedOnce`, `ReleasedIsStill`. Each property needs the memory its actions
  go by: the trigger's flag and the last report of an untouched pad
  (`UntouchedPad`), that a command still in the topic was published after the
  last motion began (`NewestOnly`), that a button down and not remembered went
  down since the last tick (`EdgesAreFresh`).
* `Recovery_proofs`: `RecoveryTypeCorrect`, `ReceiversKeepTheirDriver`,
  `DevicesOpenOnce`, `FailuresAreNoticed`, `ClearingHasACause`. That a receiver
  has a driver needs `Joined` (no thread starts between the join and the
  deletion) and `CheckLater` (the check thread starts when the drivers are
  open), both of which another robot's turn leaves alone (`OtherKeeps`). That a
  device is open once needs the count of descriptors to be exactly what the
  drivers hold (`HandleCount`), and that devices are listed only when no driver
  is left (`Unopened`). That tearing down has a cause needs one for every way
  to fail (`FaultKnown`, `NamesKnown`, `FailedKnown`). That no failure is
  missed needs who watches whom (`WatchInv`): a driver that holds a descriptor
  is read by its thread (`Served`), a thread is told to end only when its
  driver is about to be deleted (`Told`), and the check thread runs from the
  opening of the drivers to the destructor (`Watching`). Three lemmas say what
  listing, opening and closing keep of the links; each step of a thread cites
  one.
* `Negotiation_proofs`: `NegotiationTypeCorrect`, `RequestsAreSupported`,
  `FunctionIsAgreed`, `TorqueFactorIsReported`. What was heard is true
  (`VersionsHeard`); the phase tells what the last port has answered
  (`SlaveKnown`); nobody confirms a function version before it is asked to take
  one (`FunConfirmed`); the least version heard exists, because the naturals are
  well-founded, and `FunOf` is monotone (`FunCommon`); who was not reported was
  heard (`FlagsTrue`). `NegotiationIsBounded`: every step of the robot counts a try
  or ends one of at most `2 * NPorts + 2` loops, and no answer changes either.
* `HardwareInterface_proofs`: `HardwareTypeCorrect`, `UnreadStaysOut`,
  `UncommandedMotorsStay`. Added to the invariants is `Seeded`: a command taken
  from a motor that answered is still where it stood. One lemma for each kind of
  call (poll, halt, motion) says what it leaves the motors with. `InterfaceUsesTheSdk`
  and `OrdersStayLegal` are the same layering for this user of the SDK; they need
  `Alive`, that every callback that calls the robot finds one that has not been
  destroyed. The step of `Unload` before any configuration, where there is no robot
  to halt, is the one exception.
* `Wire_proofs`, `Frames`: `FramesTypeCorrect` (no overrun with 25 motors),
  `NobodyElseIsOrdered`, `OrdersAreWhole`, `OrdersAreNotSplit`,
  `SlotsAreBytes`. Lemmas on the arithmetic come first: the length of a frame
  covers every slot and stays in the buffer (`DataLenBounds`), slots are
  disjoint (`SlotsDisjoint`), consist of words (`SlotInWords`) and lie in one
  FDCAN frame (`SlotInOneChunk`). The invariant says what every slot of a
  motion frame holds (`MotionFrame`) and whom a frame of bytes speaks to
  (`ByteFrame`); what is behind the slots is left open, as the code leaves it.
  For `SlotsAreBytes` the invariant gives that a motor reads a value in its
  slot exactly if it was given one (`SeenIsGiven`), which is what `SlotAfter`
  of `MotorBus` counts on.
* `Wire_proofs`, `Receive`: `ReceiveTypeCorrect` needs `HeaderInHand`, that behind
  the header the thread holds one that passed, so that the payload it announces fits
  the buffer, and `ReadsInBounds`. `AlignmentIsKept` follows the thread through
  a frame (`Aligned`): what it has read is a prefix of what was sent, and what is left
  on the wire the rest. The thread is aligned whenever it waits for a head with nothing
  on its way, whatever was lost before, and stays so until the next fault; every frame
  that ends meanwhile is taken. `FramesAreTaken` is the case of no fault at all, and the
  theorem is the safety half of `FindsFramesAgain`. `AcceptedIsOfTheBoard`: with any
  faults, what is dispatched is the payload of one frame under the command of one as
  long. `FeedbackIsReported`: with any
  number of lost bytes and reads that time out, what a motor is taken to be doing
  the board has said of it, if state frames are told by their length, as on a port
  whose answers to configuration requests are shorter. `IdsAreNamed`: with any faults,
  a motor counts as saved only if an answer as long as one to CONF_WRITE named it.
  Answers to RESET_ZERO are as long (SD:78-85), so no more can be said of a thread
  that is out of step. `EffectsAreSent` says what holds of one in step, with no
  hypothesis: numbers and ids are as the board sent them as long as there was no
  fault, and each step from an aligned state keeps them so, the first with a fault
  included. That they stay so out of step, with two faults, is `EffectsAsSent`, which
  TLC checks for the frames of `MCReceive`, two of one length and different commands
  among them.

Only model-checked: liveness (`CalibrationEnds`, `RequestsAnswered`,
`LostDeviceIsDropped`, `RecoversOrExits`, `NegotiationEnds`, `ArmThaws`,
`FindsFramesAgain`), because the prover knows neither ENABLED nor fairness. Of
`CalibrationEnds`, `RequestsAnswered` and `NegotiationEnds` the bound they rest
on is proved, of `LostDeviceIsDropped` and `FindsFramesAgain` the safety half
(`FailuresAreNoticed`, `AlignmentIsKept`). `AcceptedAsSent` and `EffectsAsSent`
are checked for the frames of `MCReceive` with two faults and are no theorems:
with payloads that look like headers, or six lost bytes that join the header of
one frame to the CRC16 and payload of another, the thread accepts what was never
sent that way.

## 5. Not modelled, and why

* Values: scaling and units are multiplications by constants; `Frames` takes any
  number they may yield. NaN, which passes `checkJointLimits` (PAN:115), would be
  a setpoint outside every order, and no node produces one.
* Kinematics: a solution is any legal joint target. The geometry is KDL's.
* The modes no node uses (torque, voltage, current, acceleration) are in `Frames`
  and not in `MotorBus`: they fill the same slots by the same method. Bootloader
  and FDCAN frames keep no state.
* CRC8 and CRC16: tables of constants, taken as ideal. The serial library: opening,
  closing, exceptions and short reads are in `Recovery` and `Receive`; its terminal
  settings and the Windows part hold no logic of this program.
* LCM (`lcm_enable` is never called), the YAML configuration (read once, no state
  after it), launch files, robot descriptions.
* Time: timeouts may strike at any moment, timers fire at any time. The timeout
  of the firmware, which would end an order no call renews, is off as shipped
  (`motor_timeout_ms` is 0); a robot that sets it does less than the models
  allow. A joystick that disconnects with the deadman held (TEL:258) needs a
  clock to be told from one that is silent.
* `exit(0)` inside `set_conf_write` (CP:278) skips the destructor: `ConfHandshake`
  ends there, and what the motors do without the halt would take it and `MotorBus`
  in one state space.

## 6. Plan

Done, in this order: (1) `MotorBus`, `Actuators` and the refinement, since every
command goes through them; (2) `ConfHandshake`; (3) `ArmControl` on `Actuators`;
(4) `Teleop`; (5) `Recovery`; (6) `Negotiation`; (7) `HardwareInterface` on
`Actuators`; (8) `Frames`; (9) `Receive`; the proofs of each; (10) `Calibration` and
the refinement; (11) the bounds behind three of the liveness properties;
(12) the layers joined: `ArmControl` and `HardwareInterface` on `Actuators`, `Frames`
under `MotorBus`; what the liveness of `Recovery` and `Receive` rests on.

Left: `MotorBus` and `ConfHandshake` in one state space, for the halt that `exit(0)`
skips (CP:278); a clock, for the age of the last joystick message (TEL:258).
