--------------------------- MODULE Recovery_proofs ---------------------------
(***************************************************************************)
(* What holds of the links for any number of ports and of foreign nodes.   *)
(* None of the invariants is inductive alone: that a receiver has a driver *)
(* rests on what the join left behind, that a device is open once on what  *)
(* the drivers hold, and that in turn on when the devices are listed.      *)
(***************************************************************************)
EXTENDS Recovery, FiniteSetTheorems, TLAPS

LinkType ==
    /\ plugged \subseteq Board /\ fault \in BOOLEAN /\ shared \in BOOLEAN
    /\ \E n \in 0 .. N : str \in [1 .. n -> Board]
    /\ drv \in [Port -> DrvState]
    /\ handles \in [Board -> Nat]
    /\ rx \in [Port -> {"none", "running", "ended"}]
    /\ runFlag \in [Port -> BOOLEAN]

\* No device is listed twice, and only listed devices are held.
ListedOnce == \A i, j \in DOMAIN str : str[i] = str[j] => i = j
HeldListed == \A p \in Holding : p \in DOMAIN str

\* A descriptor belongs to one driver.
HandleCount ==
    \A b \in Board : handles[b] = IF \E p \in Holding : str[p] = b THEN 1 ELSE 0

\* A board that is missing, or was under an open driver, is a fault.
FaultKnown ==
    /\ plugged # Board => fault
    /\ \A p \in Port : drv[p] = "dead" => fault

LinkInv ==
    LinkType /\ ListedOnce /\ HeldListed /\ HandleCount /\ FaultKnown /\ ReceiverHasDriver

ThreadType ==
    /\ user \in UserState /\ chk \in ChkState
    /\ built \in BOOLEAN /\ checking \in BOOLEAN /\ alive \in BOOLEAN

\* The check thread starts when init_robot has opened the drivers.
CheckLater == user \in {"list", "open"} => chk = "off"

\* init_robot begins without a driver.
Unopened == user = "list" => Cleared

\* No thread is started between the join and the deletion.
Joined == chk = "delete" => \A p \in Port : rx[p] # "running"

\* A port without a name, and a driver that failed, have a cause.
NamesKnown == user # "list" /\ DOMAIN str # Port => fault
FailedKnown ==
    \A p \in Port : /\ drv[p] = "failed" => fault \/ Ending
                    /\ drv[p] = "closed" => Ending

\* So has the state error_clear.
ClearKnown == chk = "clear" => fault \/ Ending \/ shared

ThreadInv ==
    ThreadType /\ CheckLater /\ Unopened /\ Joined /\ NamesKnown /\ FailedKnown /\ ClearKnown

IInv == LinkInv /\ ThreadInv

\* Who watches whom.  A driver with a descriptor is read by its thread, and a
\* thread is told to end only when its driver is about to be closed.
Served ==
    \A p \in Holding : rx[p] = "running" \/ chk \in {"join", "delete"}
Told ==
    \A p \in Holding : ~runFlag[p] => chk \in {"join", "delete"}

\* The check thread runs from the opening of the drivers to the destructor.
Watching ==
    /\ chk = "off" => user \in {"list", "open"}
    /\ chk = "done" => Ending
    /\ ~Ending /\ user \notin {"list", "open"} => checking

WatchInv == Served /\ Told /\ Watching

-----------------------------------------------------------------------------
(* What the links keep under each of the operations on them.               *)

\* A listing names each plugged board once, and all boards when none is missing.
LEMMA ListingIsWhole ==
  ASSUME plugged \subseteq Board, NEW s \in Listings(plugged)
  PROVE  /\ \E n \in 0 .. N : s \in [1 .. n -> Board]
         /\ \A i, j \in DOMAIN s : s[i] = s[j] => i = j
         /\ plugged = Board => DOMAIN s = Port
<1>1. IsFiniteSet(Board) /\ Cardinality(Board) = N
  BY FS_Interval, RecoveryAssumption DEF Board
<1>2. IsFiniteSet(plugged) /\ Cardinality(plugged) <= N
  BY <1>1, FS_Subset
<1>3. Cardinality(plugged) \in Nat
  BY <1>2, FS_CardinalityType
<1>4. s \in [1 .. Cardinality(plugged) -> plugged]
  BY DEF Listings
<1>5. Cardinality(plugged) \in 0 .. N
  BY <1>2, <1>3, RecoveryAssumption
<1>6. s \in [1 .. Cardinality(plugged) -> Board]
  BY <1>4
<1>7. plugged = Board => DOMAIN s = Port
  BY <1>1, <1>4 DEF Port
<1>8. \A i, j \in DOMAIN s : s[i] = s[j] => i = j
  BY DEF Listings
<1> QED BY <1>5, <1>6, <1>7, <1>8

\* Listing the devices while no driver is left.
LEMMA ListKeepsLinks ==
  ASSUME LinkInv, ListDevices, Cleared
  PROVE  LinkInv' /\ (DOMAIN str' # Port => fault')
<1>1. plugged \subseteq Board
  BY DEF LinkInv, LinkType
<1>2. /\ \E n \in 0 .. N : str' \in [1 .. n -> Board]
      /\ \A i, j \in DOMAIN str' : str'[i] = str'[j] => i = j
      /\ plugged = Board => DOMAIN str' = Port
  BY <1>1, ListingIsWhole DEF ListDevices
<1>3. UNCHANGED <<plugged, fault, shared, drv, handles, rx, runFlag>>
  BY DEF ListDevices, world
<1>4. Holding = {} /\ Holding' = {}
  BY <1>3 DEF Holding, Cleared
<1>5. LinkType'
  BY <1>2, <1>3 DEF LinkInv, LinkType
<1>6. ListedOnce'
  BY <1>2 DEF ListedOnce
<1>7. HeldListed' /\ HandleCount'
  BY <1>3, <1>4 DEF LinkInv, HeldListed, HandleCount
<1>8. FaultKnown' /\ ReceiverHasDriver'
  BY <1>3 DEF LinkInv, FaultKnown, ReceiverHasDriver
<1>9. DOMAIN str' # Port => fault'
  BY <1>2, <1>3 DEF LinkInv, FaultKnown
<1> QED BY <1>5, <1>6, <1>7, <1>8, <1>9 DEF LinkInv

\* Listing them over drivers that are dropped, none of which has a descriptor.
LEMMA DropKeepsLinks ==
  ASSUME LinkInv, Holding = {}, str' \in Listings(plugged),
         drv' = [p \in Port |-> "none"], rx' = [p \in Port |-> "none"],
         UNCHANGED <<world, handles, runFlag>>
  PROVE  LinkInv' /\ (DOMAIN str' # Port => fault')
<1>1. plugged \subseteq Board /\ UNCHANGED <<plugged, fault, shared>>
  BY DEF LinkInv, LinkType, world
<1>2. /\ \E n \in 0 .. N : str' \in [1 .. n -> Board]
      /\ \A i, j \in DOMAIN str' : str'[i] = str'[j] => i = j
      /\ plugged = Board => DOMAIN str' = Port
  BY <1>1, ListingIsWhole
<1>3. Holding' = {}
  BY DEF Holding
<1>4. LinkType'
  BY <1>1, <1>2 DEF LinkInv, LinkType, DrvState
<1>5. ListedOnce' /\ HeldListed'
  BY <1>2, <1>3 DEF ListedOnce, HeldListed
<1>6. HandleCount'
  BY <1>3 DEF LinkInv, HandleCount
<1>7. FaultKnown' /\ ReceiverHasDriver'
  BY <1>1 DEF LinkInv, FaultKnown, ReceiverHasDriver
<1>8. DOMAIN str' # Port => fault'
  BY <1>1, <1>2 DEF LinkInv, FaultKnown
<1> QED BY <1>4, <1>5, <1>6, <1>7, <1>8 DEF LinkInv

\* Opening a driver takes a descriptor of a device nobody else holds.
LEMMA OpenKeepsLinks ==
  ASSUME LinkInv, NEW p \in Port, OpenDriver(p)
  PROVE  LinkInv'
<1> DEFINE ok == p \in DOMAIN str /\ str[p] \in plugged
<1>1. /\ drv[p] = "none"
      /\ drv' = [drv EXCEPT ![p] = IF ok THEN "open" ELSE "failed"]
      /\ handles' = IF ok THEN [handles EXCEPT ![str[p]] = @ + 1] ELSE handles
      /\ rx' = [rx EXCEPT ![p] = "running"]
      /\ runFlag' = [runFlag EXCEPT ![p] = TRUE]
      /\ UNCHANGED <<plugged, fault, shared, str>>
  BY DEF OpenDriver, world
<1>2. LinkType /\ ListedOnce /\ HeldListed /\ HandleCount /\ FaultKnown /\ ReceiverHasDriver
  BY DEF LinkInv
<1>3. drv' \in [Port -> DrvState]
  BY <1>1, <1>2 DEF LinkType, DrvState
<1>4. rx' \in [Port -> {"none", "running", "ended"}] /\ runFlag' \in [Port -> BOOLEAN]
  BY <1>1, <1>2 DEF LinkType
<1>5. p \notin Holding
  BY <1>1 DEF Holding
<1>6. Holding' = IF ok THEN Holding \cup {p} ELSE Holding
  BY <1>1, <1>2 DEF Holding, LinkType
<1>7. handles' \in [Board -> Nat] /\ HandleCount'
  <2>1. CASE ~ok
    BY <2>1, <1>1, <1>2, <1>6 DEF LinkType, HandleCount
  <2>2. CASE ok
    <3>1. str[p] \in Board /\ handles[str[p]] \in Nat
      BY <2>2, <1>2 DEF LinkType
    <3>2. \A q \in Holding : str[q] # str[p]
      BY <2>2, <1>2, <1>5 DEF ListedOnce, HeldListed
    <3>3. handles[str[p]] = 0
      BY <3>1, <3>2, <1>2 DEF HandleCount
    <3>4. handles' = [handles EXCEPT ![str[p]] = 1]
      BY <2>2, <1>1, <3>3
    <3>5. handles' \in [Board -> Nat]
      BY <3>4, <1>2 DEF LinkType
    <3>6. ASSUME NEW b \in Board
          PROVE  handles'[b] = IF \E q \in Holding' : str'[q] = b THEN 1 ELSE 0
      <4>1. CASE b = str[p]
        <5>1. p \in Holding'
          BY <1>6, <2>2
        <5>2. handles'[b] = 1
          BY <3>1, <3>4, <4>1, <1>2 DEF LinkType
        <5> QED BY <4>1, <5>1, <5>2, <1>1
      <4>2. CASE b # str[p]
        <5>1. handles'[b] = handles[b]
          BY <3>4, <4>2, <1>2 DEF LinkType
        <5>2. (\E q \in Holding' : str'[q] = b) <=> (\E q \in Holding : str[q] = b)
          BY <1>1, <1>6, <2>2, <4>2
        <5> QED BY <5>1, <5>2, <1>2 DEF HandleCount
      <4> QED BY <4>1, <4>2
    <3> QED BY <3>5, <3>6 DEF HandleCount
  <2> QED BY <2>1, <2>2
<1>8. HeldListed'
  BY <1>1, <1>2, <1>6 DEF HeldListed
<1>9. ReceiverHasDriver' /\ FaultKnown'
  BY <1>1, <1>2 DEF ReceiverHasDriver, FaultKnown, LinkType
<1>10. LinkType' /\ ListedOnce'
  BY <1>1, <1>2, <1>3, <1>4, <1>7 DEF LinkType, ListedOnce
<1> QED BY <1>7, <1>8, <1>9, <1>10 DEF LinkInv

\* Closing gives back each descriptor it takes from a driver.
LEMMA CloseKeepsLinks ==
  ASSUME LinkInv, NEW S \in SUBSET Port, NEW st \in {"none", "failed", "closed"},
         CloseAs(S, st), UNCHANGED <<plugged, fault, shared, str>>,
         rx' \in [Port -> {"none", "running", "ended"}], runFlag' \in [Port -> BOOLEAN],
         \A p \in Port : rx'[p] = "running" => drv'[p] # "none"
  PROVE  LinkInv'
<1>1. LinkType /\ ListedOnce /\ HeldListed /\ HandleCount /\ FaultKnown
  BY DEF LinkInv
<1>2. /\ drv' = [p \in Port |-> IF p \in S THEN st ELSE drv[p]]
      /\ handles' = [b \in Board |-> IF \E p \in S \cap Holding : str[p] = b
                                     THEN handles[b] - 1 ELSE handles[b]]
  BY DEF CloseAs
<1>3. drv' \in [Port -> DrvState]
  BY <1>1, <1>2 DEF LinkType, DrvState
<1>4. Holding' = Holding \ S
  BY <1>2 DEF Holding
<1>5. ASSUME NEW b \in Board
      PROVE  /\ handles'[b] \in Nat
             /\ handles'[b] = IF \E q \in Holding' : str'[q] = b THEN 1 ELSE 0
  <2>1. CASE \E p \in S \cap Holding : str[p] = b
    <3>1. PICK p \in S \cap Holding : str[p] = b
      BY <2>1
    <3>2. handles[b] = 1
      BY <3>1, <1>1 DEF HandleCount
    <3>3. handles'[b] = 0
      BY <2>1, <3>2, <1>2
    <3>4. \A q \in Holding' : str'[q] # b
      BY <3>1, <1>1, <1>4 DEF ListedOnce, HeldListed
    <3> QED BY <3>3, <3>4
  <2>2. CASE ~ \E p \in S \cap Holding : str[p] = b
    <3>1. handles'[b] = handles[b]
      BY <2>2, <1>2
    <3>2. (\E q \in Holding' : str'[q] = b) <=> (\E q \in Holding : str[q] = b)
      BY <2>2, <1>4
    <3> QED BY <3>1, <3>2, <1>1 DEF HandleCount
  <2> QED BY <2>1, <2>2
<1>6. handles' \in [Board -> Nat] /\ HandleCount'
  BY <1>2, <1>5 DEF HandleCount
<1>7. LinkType'
  BY <1>1, <1>3, <1>6 DEF LinkType
<1>8. ListedOnce' /\ HeldListed'
  BY <1>1, <1>4 DEF ListedOnce, HeldListed
<1>9. FaultKnown' /\ ReceiverHasDriver'
  BY <1>1, <1>2 DEF FaultKnown, ReceiverHasDriver
<1> QED BY <1>6, <1>7, <1>8, <1>9 DEF LinkInv

\* A cable that is pulled leaves the descriptors where they are.
LEMMA UnplugKeepsLinks ==
  ASSUME LinkInv, NEW b \in Board, Unplug(b)
  PROVE  LinkInv'
<1>1. LinkType /\ ListedOnce /\ HeldListed /\ HandleCount /\ ReceiverHasDriver
  BY DEF LinkInv
<1>2. /\ plugged' = plugged \ {b} /\ fault' = TRUE
      /\ drv' = [p \in Port |-> IF drv[p] = "open" /\ str[p] = b THEN "dead" ELSE drv[p]]
      /\ UNCHANGED <<shared, str, handles, rx, runFlag>>
  BY DEF Unplug
<1>3. Holding' = Holding
  BY <1>2 DEF Holding
<1>4. drv' \in [Port -> DrvState]
  BY <1>1, <1>2 DEF LinkType, DrvState
<1>5. LinkType'
  BY <1>1, <1>2, <1>4 DEF LinkType
<1>6. ListedOnce' /\ HeldListed' /\ HandleCount'
  BY <1>1, <1>2, <1>3 DEF ListedOnce, HeldListed, HandleCount
<1>7. FaultKnown' /\ ReceiverHasDriver'
  BY <1>1, <1>2 DEF FaultKnown, ReceiverHasDriver
<1> QED BY <1>5, <1>6, <1>7 DEF LinkInv

\* What touches neither the cables nor the links.
LEMMA IdleKeepsLinks ==
  ASSUME LinkInv, UNCHANGED <<world, link>>
  PROVE  LinkInv'
BY DEF LinkInv, LinkType, ListedOnce, HeldListed, HandleCount, Holding, FaultKnown,
       ReceiverHasDriver, world, link

\* A turn of a loop over the ports.
LEMMA OpenIsOneDriver ==
  ASSUME LinkInv, NEW p \in Port, OpenDriver(p)
  PROVE  /\ UNCHANGED <<world, str, built, alive>>
         /\ drv'[p] \in {"open", "failed"}
         /\ drv'[p] = "failed" => fault \/ DOMAIN str # Port
         /\ \A q \in Port \ {p} : drv'[q] = drv[q]
<1> DEFINE ok == p \in DOMAIN str /\ str[p] \in plugged
<1>1. /\ drv' = [drv EXCEPT ![p] = IF ok THEN "open" ELSE "failed"]
      /\ UNCHANGED <<world, str, built, alive>>
  BY DEF OpenDriver
<1>2. drv \in [Port -> DrvState]
  BY DEF LinkInv, LinkType
<1>3. drv'[p] = (IF ok THEN "open" ELSE "failed") /\ \A q \in Port \ {p} : drv'[q] = drv[q]
  BY <1>1, <1>2
<1>4. ~ok => fault \/ DOMAIN str # Port
  <2>1. CASE plugged # Board
    BY <2>1 DEF LinkInv, FaultKnown
  <2>2. CASE plugged = Board /\ DOMAIN str = Port
    BY <2>2 DEF LinkInv, LinkType
  <2> QED BY <2>1, <2>2
<1> QED BY <1>1, <1>3, <1>4

\* What a close leaves of the drivers.
LEMMA CloseIsOf ==
  ASSUME LinkInv, NEW S \in SUBSET Port, NEW st, CloseAs(S, st)
  PROVE  \A p \in Port : drv'[p] = IF p \in S THEN st ELSE drv[p]
BY DEF CloseAs

-----------------------------------------------------------------------------
(* The invariant.                                                          *)

LEMMA InitHolds == Init => IInv
<1> SUFFICES ASSUME Init PROVE IInv
  OBVIOUS
<1>1. Holding = {}
  BY DEF Init, Holding
<1>2. str \in [1 .. 0 -> Board] /\ 0 \in 0 .. N
  BY RecoveryAssumption DEF Init
<1>3. LinkType
  BY <1>2 DEF Init, LinkType, DrvState
<1>4. LinkInv
  <2>1. DOMAIN str = {}
    BY <1>2
  <2>2. ListedOnce /\ HeldListed /\ HandleCount
    BY <1>1, <2>1 DEF Init, ListedOnce, HeldListed, HandleCount
  <2>3. ReceiverHasDriver /\ \A p \in Port : drv[p] # "dead"
    BY DEF Init, ReceiverHasDriver
  <2>4. plugged # Board => fault
    BY Zenon DEF Init
  <2> QED BY <1>3, <2>2, <2>3, <2>4 DEF LinkInv, FaultKnown
<1>5. ThreadInv
  BY DEF Init, ThreadInv, ThreadType, CheckLater, Unopened, Cleared, Joined, NamesKnown, FailedKnown, ClearKnown, Ending, UserState, ChkState
<1> QED BY <1>4, <1>5 DEF IInv

\* A process that ends changes nothing else.
LEMMA DyingKeeps ==
  ASSUME IInv, Dies
  PROVE  IInv'
<1>1. alive' = FALSE /\ UNCHANGED <<world, link, built, user, chk, checking>>
  BY DEF Dies
<1>2. LinkInv'
  BY <1>1, IdleKeepsLinks DEF IInv
<1>3. ThreadInv'
  BY <1>1 DEF IInv, ThreadInv, ThreadType, CheckLater, Unopened, Cleared, Joined, NamesKnown, FailedKnown, ClearKnown, Ending, world, link
<1> QED BY <1>2, <1>3 DEF IInv

LEMMA CablesKeep ==
  ASSUME IInv, NEW b \in Board, Plug(b) \/ Unplug(b)
  PROVE  IInv'
<1>0. LinkInv /\ ThreadInv
  BY DEF IInv
<1>1. CASE Plug(b)
  <2>1. plugged' = plugged \cup {b} /\ UNCHANGED <<fault, shared, link, threads>>
    BY <1>1 DEF Plug
  <2>2. LinkType' /\ ListedOnce' /\ HeldListed' /\ HandleCount' /\ ReceiverHasDriver'
    BY <1>0, <2>1 DEF LinkInv, LinkType, ListedOnce, HeldListed, HandleCount, Holding,
                      ReceiverHasDriver, link
  <2>3. FaultKnown'
    BY <1>0, <2>1 DEF LinkInv, LinkType, FaultKnown, link
  <2>4. ThreadInv'
    BY <1>0, <2>1 DEF ThreadInv, ThreadType, CheckLater, Unopened, Cleared, Joined, NamesKnown, FailedKnown, ClearKnown, Ending, link, threads
  <2> QED BY <2>2, <2>3, <2>4 DEF IInv, LinkInv
<1>2. CASE Unplug(b)
  <2>1. /\ fault' = TRUE /\ UNCHANGED <<shared, str, rx, threads>>
        /\ drv' = [p \in Port |-> IF drv[p] = "open" /\ str[p] = b THEN "dead" ELSE drv[p]]
    BY <1>2 DEF Unplug
  <2>2. LinkInv'
    BY <1>0, <1>2, UnplugKeepsLinks
  <2>3. ThreadInv'
    BY <1>0, <2>1 DEF ThreadInv, ThreadType, CheckLater, Unopened, Cleared, Joined, NamesKnown, FailedKnown, ClearKnown, Ending, threads
  <2> QED BY <2>2, <2>3 DEF IInv
<1> QED BY <1>1, <1>2

LEMMA ReceiverKeeps ==
  ASSUME IInv, NEW p \in Port, Receive(p)
  PROVE  IInv'
<1>0. LinkInv /\ ThreadInv
  BY DEF IInv
<1>1. rx \in [Port -> {"none", "running", "ended"}] /\ runFlag \in [Port -> BOOLEAN]
  BY <1>0 DEF LinkInv, LinkType
<1>2. CASE ReceiveFails(p)
  <2>1. /\ drv[p] \in {"dead", "failed", "closed"}
        /\ CloseAs({p}, "failed") /\ rx' = [rx EXCEPT ![p] = "ended"]
        /\ UNCHANGED <<world, str, runFlag, threads>>
    BY <1>2 DEF ReceiveFails, ReadThrows
  <2>2. \A q \in Port : drv'[q] = IF q = p THEN "failed" ELSE drv[q]
    BY <1>0, <2>1, CloseIsOf
  <2>3. rx' \in [Port -> {"none", "running", "ended"}] /\ runFlag' \in [Port -> BOOLEAN]
    BY <1>1, <2>1
  <2>4. \A q \in Port : rx'[q] = "running" => rx[q] = "running" /\ drv'[q] # "none"
    BY <1>0, <1>1, <2>1, <2>2 DEF LinkInv, ReceiverHasDriver
  <2>5. LinkInv'
    BY <1>0, <2>1, <2>3, <2>4, CloseKeepsLinks, "failed" \in {"none", "failed", "closed"} DEF world
  <2>6. drv[p] = "dead" => fault
    BY <1>0 DEF LinkInv, FaultKnown
  <2>7. ThreadInv'
    BY <1>0, <2>1, <2>2, <2>4, <2>6 DEF ThreadInv, ThreadType, CheckLater, Unopened, Cleared, Joined, NamesKnown, FailedKnown, ClearKnown, Ending, world, threads
  <2> QED BY <2>5, <2>7 DEF IInv
<1>3. CASE ReceiveEnds(p)
  <2>1. rx' = [rx EXCEPT ![p] = "ended"] /\ UNCHANGED <<world, str, drv, handles, runFlag, threads>>
    BY <1>3 DEF ReceiveEnds
  <2>2. rx' \in [Port -> {"none", "running", "ended"}]
    BY <1>1, <2>1
  <2>3. \A q \in Port : rx'[q] = "running" => rx[q] = "running"
    BY <1>1, <2>1
  <2>4. LinkInv'
    BY <1>0, <2>1, <2>2, <2>3 DEF LinkInv, LinkType, ListedOnce, HeldListed, HandleCount, Holding,
                                  FaultKnown, ReceiverHasDriver, world
  <2>5. ThreadInv'
    BY <1>0, <2>1, <2>3 DEF ThreadInv, ThreadType, CheckLater, Unopened, Cleared, Joined, NamesKnown, FailedKnown, ClearKnown, Ending, world, threads
  <2> QED BY <2>4, <2>5 DEF IInv
<1> QED BY <1>2, <1>3 DEF Receive

\* The steps of the check thread that only pass from one case to the next.
LEMMA CheckGoesOn ==
  ASSUME IInv, UNCHANGED <<world, link, user, checking, alive>>,
         \/ chk' = "done" /\ UNCHANGED built
         \/ CheckGoes("check", "clear") /\ UNCHANGED built /\ (fault \/ Ending)
         \/ CheckGoes("wait_dev", "reconnect") /\ UNCHANGED built
         \/ CheckGoes("build", "setup") /\ built' = TRUE
         \/ chk \in {"setup", "overrun"} /\ chk' = "check" /\ UNCHANGED built
  PROVE  user \notin {"list", "open"} => IInv'
<1> SUFFICES ASSUME user \notin {"list", "open"} PROVE IInv'
  OBVIOUS
<1>1. LinkInv'
  BY IdleKeepsLinks DEF IInv
<1>2. ThreadInv'
  BY DEF IInv, CheckGoes, UserState, ChkState, ThreadInv, ThreadType, CheckLater, Unopened, Cleared, Joined, NamesKnown, FailedKnown, ClearKnown, Ending, world, link
<1> QED BY <1>1, <1>2 DEF IInv

\* The turns of other robots.
LEMMA OtherKeeps ==
  ASSUME IInv, WatchInv, OtherTurn
  PROVE  IInv' /\ WatchInv'
<1>1. /\ shared' = TRUE /\ UNCHANGED <<plugged, fault, link, built, user, checking, alive>>
      /\ (chk \in Turn /\ chk' \in Turn) \/ UNCHANGED chk
  BY DEF OtherTurn
<1>2. LinkInv /\ ThreadInv
  BY DEF IInv
<1>3. LinkInv'
  BY <1>1, <1>2 DEF LinkInv, LinkType, ListedOnce, HeldListed, HandleCount, Holding, FaultKnown,
                    ReceiverHasDriver, link
<1>4. /\ chk' \in ChkState
      /\ chk = "off" <=> chk' = "off"
      /\ chk = "done" <=> chk' = "done"
      /\ chk \in {"join", "delete"} => chk' = chk
      /\ chk' = "delete" => chk = "delete"
  BY <1>1, <1>2 DEF Turn, ChkState, ThreadInv, ThreadType
<1>5. ThreadInv'
  BY <1>1, <1>2, <1>4 DEF ThreadInv, ThreadType, CheckLater, Unopened, Cleared, Joined,
     NamesKnown, FailedKnown, ClearKnown, Ending, link
<1>6. WatchInv'
  BY <1>1, <1>4 DEF WatchInv, Served, Told, Holding, Watching, Ending, Holding, link
<1> QED BY <1>3, <1>5, <1>6 DEF IInv

LEMMA CheckKeeps ==
  ASSUME IInv, WatchInv, CheckThread
  PROVE  IInv'
<1>0. LinkInv /\ ThreadInv
  BY DEF IInv
<1>1. chk # "off"
  BY DEF CheckThread, CheckStops, CheckScan, ClearFlags, ClearJoin, ClearDelete, WaitDevice,
         ReconnectList, ReconnectOpen, ReconnectBuild, ReconnectSetup, CheckGoes, Turn
<1>2. user \notin {"list", "open"}
  BY <1>0, <1>1 DEF ThreadInv, CheckLater
<1>3. rx \in [Port -> {"none", "running", "ended"}] /\ runFlag \in [Port -> BOOLEAN]
  BY <1>0 DEF LinkInv, LinkType
<1>4. CASE CheckStops \/ CheckScan \/ WaitDevice \/ ReconnectBuild
  <2>1. CheckScan => fault \/ Ending
    BY <1>0 DEF CheckScan, ThreadInv, FailedKnown
  <2> QED BY <1>2, <1>4, <2>1, CheckGoesOn DEF CheckStops, CheckScan, WaitDevice, ReconnectBuild
<1>5. CASE ReconnectSetup
  BY <1>2, <1>5, CheckGoesOn, DyingKeeps DEF ReconnectSetup
<1>6. CASE ClearFlags
  <2>1. /\ chk = "clear" /\ chk' = "join" /\ runFlag' = [p \in Port |-> FALSE]
        /\ UNCHANGED <<world, str, drv, handles, rx, built, user, checking, alive>>
    BY <1>6 DEF ClearFlags, CheckGoes
  <2>2. LinkInv'
    BY <1>0, <2>1 DEF LinkInv, LinkType, ListedOnce, HeldListed, HandleCount, Holding, FaultKnown,
                      ReceiverHasDriver, world
  <2>3. ThreadInv'
    BY <1>0, <1>2, <2>1 DEF ThreadInv, ThreadType, CheckLater, Unopened, Cleared, Joined, NamesKnown, FailedKnown, ClearKnown, Ending, UserState, ChkState, world
  <2> QED BY <2>2, <2>3 DEF IInv
<1>7. CASE ClearJoin /\ ~Dies
  <2>1. /\ chk = "join" /\ chk' = "delete" /\ rx' = [p \in Port |-> "none"] /\ built' = FALSE
        /\ UNCHANGED <<world, str, drv, handles, runFlag, user, checking, alive>>
    BY <1>7 DEF ClearJoin
  <2>2. LinkInv'
    BY <1>0, <2>1 DEF LinkInv, LinkType, ListedOnce, HeldListed, HandleCount, Holding, FaultKnown,
                      ReceiverHasDriver, world
  <2>3. ThreadInv'
    BY <1>0, <1>2, <2>1 DEF ThreadInv, ThreadType, CheckLater, Unopened, Cleared, Joined, NamesKnown, FailedKnown, ClearKnown, Ending, UserState, ChkState, world
  <2> QED BY <2>2, <2>3 DEF IInv
<1>8. CASE ClearDelete /\ ~Dies
  <2>1. /\ chk = "delete" /\ chk' = "wait_dev" /\ CloseAs(Port, "none")
        /\ UNCHANGED <<world, str, rx, runFlag, built, user, checking, alive>>
    BY <1>8 DEF ClearDelete
  <2>2. \A p \in Port : rx[p] # "running"
    BY <1>0, <2>1 DEF ThreadInv, Joined
  <2>3. \A p \in Port : drv'[p] = "none"
    BY <1>0, <2>1, CloseIsOf
  <2>4. LinkInv'
    BY <1>0, <1>3, <2>1, <2>2, CloseKeepsLinks, "none" \in {"none", "failed", "closed"} DEF world
  <2>5. ThreadInv'
    BY <1>0, <1>2, <2>1, <2>3 DEF ThreadInv, ThreadType, CheckLater, Unopened, Cleared, Joined, NamesKnown, FailedKnown, ClearKnown, Ending, UserState, ChkState, world
  <2> QED BY <2>4, <2>5 DEF IInv
<1>9. CASE ReconnectList /\ ~Dies
  <2>1. chk = "reconnect" /\ chk' = "open" /\ UNCHANGED <<world, user, checking, built, alive>>
    BY <1>9 DEF ReconnectList, CheckGoes, ListDevices
  <2>2. /\ LinkInv' /\ (DOMAIN str' # Port => fault')
        /\ \A p \in Port : drv'[p] = "none"
    <3>1. CASE Cleared /\ ListDevices
      BY <1>0, <3>1, ListKeepsLinks DEF Cleared, ListDevices
    <3>2. CASE ~(Cleared /\ ListDevices)
      <4>1. /\ \A p \in Port : rx[p] # "running"
            /\ str' \in Listings(plugged) /\ UNCHANGED <<world, handles, runFlag>>
            /\ drv' = [p \in Port |-> "none"] /\ rx' = [p \in Port |-> "none"]
        BY <1>9, <3>2 DEF ReconnectList
      <4>2. Holding = {}
        BY <2>1, <4>1 DEF WatchInv, Served, Holding
      <4> QED BY <1>0, <4>1, <4>2, DropKeepsLinks
    <3> QED BY <3>1, <3>2
  <2>3. ThreadInv'
    BY <1>0, <1>2, <2>1, <2>2 DEF ThreadInv, ThreadType, CheckLater, Unopened, Cleared, Joined, NamesKnown, FailedKnown, ClearKnown, Ending, UserState, ChkState, world
  <2> QED BY <2>2, <2>3 DEF IInv
<1>10. CASE ReconnectOpen /\ ~Dies
  <2>1. PICK p \in Port : OpenDriver(p) /\ chk' = IF p = N THEN "build" ELSE chk
    BY <1>10 DEF ReconnectOpen
  <2>2. chk = "open" /\ UNCHANGED <<user, checking>>
    BY <1>10 DEF ReconnectOpen
  <2>3. /\ UNCHANGED <<world, str, built, alive>>
        /\ drv'[p] \in {"open", "failed"}
        /\ drv'[p] = "failed" => fault \/ DOMAIN str # Port
        /\ \A q \in Port \ {p} : drv'[q] = drv[q]
    BY <1>0, <2>1, OpenIsOneDriver
  <2>4. LinkInv'
    BY <1>0, <2>1, OpenKeepsLinks
  <2>5. chk' \in {"open", "build"}
    BY <2>1, <2>2
  <2>6. ThreadInv'
    BY <1>0, <1>2, <2>2, <2>3, <2>5 DEF ThreadInv, ThreadType, CheckLater, Unopened, Cleared, Joined, NamesKnown, FailedKnown, ClearKnown, Ending, UserState, ChkState, world
  <2> QED BY <2>4, <2>6 DEF IInv
<1> QED BY <1>4, <1>5, <1>6, <1>7, <1>8, <1>9, <1>10, DyingKeeps DEF CheckThread

\* The steps of the user thread that only pass from one stage to the next.
LEMMA UserGoesOnward ==
  ASSUME IInv, UNCHANGED <<world, link, chk, alive>>,
         \/ UserGoes("build", "setup") /\ built' = TRUE /\ UNCHANGED checking
         \/ UserGoes("setup", "idle") /\ UNCHANGED <<built, checking>>
         \/ UserGoes("idle", "call") /\ UNCHANGED <<built, checking>>
         \/ UserGoes("idle", "halt") /\ UNCHANGED <<built, checking>>
         \/ UserGoes("halt", "close") /\ UNCHANGED <<built, checking>>
         \/ UserGoes("join", "stop") /\ UNCHANGED <<built, checking>>
         \/ UserGoes("stop", "wait") /\ checking' = FALSE /\ UNCHANGED built
         \/ UserGoes("wait", "gone") /\ UNCHANGED <<built, checking>>
  PROVE  IInv'
<1>1. LinkInv'
  BY IdleKeepsLinks DEF IInv
<1>2. /\ user \notin {"list", "open"} /\ user' \in UserState \ {"list", "open"}
      /\ Ending => Ending'
  BY DEF UserGoes, UserState, Ending
<1>3. ThreadType
  BY DEF IInv, ThreadInv
<1>4. built' \in BOOLEAN /\ checking' \in BOOLEAN
  BY <1>3 DEF ThreadType
<1>5. ThreadType'
  BY <1>2, <1>3, <1>4 DEF ThreadType
<1>6. CheckLater' /\ Unopened' /\ Joined' /\ NamesKnown' /\ FailedKnown' /\ ClearKnown'
  BY <1>2 DEF IInv, ThreadInv, CheckLater, Unopened, Cleared, Joined, NamesKnown, FailedKnown, ClearKnown, world, link
<1> QED BY <1>1, <1>5, <1>6 DEF IInv, ThreadInv

LEMMA UserKeeps ==
  ASSUME IInv, UserGoesOn \/ CallBegins \/ Destroy
  PROVE  IInv'
<1>0. LinkInv /\ ThreadInv
  BY DEF IInv
<1>1. rx \in [Port -> {"none", "running", "ended"}] /\ runFlag \in [Port -> BOOLEAN]
  BY <1>0 DEF LinkInv, LinkType
<1>2. CASE InitBuild \/ InitSetup \/ CallBegins \/ Destroy \/ DestroyHalts \/ DestroyJoins \/ DestroyStops
  BY <1>2, UserGoesOnward
     DEF InitBuild, InitSetup, CallBegins, Destroy, DestroyHalts, DestroyJoins, DestroyStops
<1>3. CASE DestroyEnds
  BY <1>3, UserGoesOnward, DyingKeeps DEF DestroyEnds, UserGoes
<1>4. CASE InitList
  <2>1. user = "list" /\ user' = "open" /\ ListDevices /\ UNCHANGED <<chk, checking>>
    BY <1>4 DEF InitList, UserGoes
  <2>2. UNCHANGED <<world, drv, handles, rx, runFlag, built, alive>>
    BY <2>1 DEF ListDevices
  <2>3. LinkInv' /\ (DOMAIN str' # Port => fault')
    BY <1>0, <2>1, ListKeepsLinks DEF ThreadInv, Unopened
  <2>4. ThreadInv'
    BY <1>0, <2>1, <2>2, <2>3 DEF ThreadInv, ThreadType, CheckLater, Unopened, Cleared, Joined, NamesKnown, FailedKnown, ClearKnown, Ending, UserState, ChkState, world
  <2> QED BY <2>3, <2>4 DEF IInv
<1>5. CASE InitOpen /\ ~Dies
  <2>1. PICK p \in Port : /\ OpenDriver(p)
                          /\ user' = IF p = N THEN "build" ELSE user
                          /\ chk' \in IF p < N THEN {chk} ELSE IF shared THEN Turn ELSE {"check"}
                          /\ checking' = (p = N)
    BY <1>5 DEF InitOpen
  <2>2. user = "open" /\ chk = "off"
    BY <1>0, <1>5 DEF InitOpen, ThreadInv, CheckLater
  <2>3. /\ UNCHANGED <<world, str, built, alive>>
        /\ drv'[p] \in {"open", "failed"}
        /\ drv'[p] = "failed" => fault \/ DOMAIN str # Port
        /\ \A q \in Port \ {p} : drv'[q] = drv[q]
    BY <1>0, <2>1, OpenIsOneDriver
  <2>4. LinkInv'
    BY <1>0, <2>1, OpenKeepsLinks
  <2>5. \/ user' = "build" /\ chk' \in Turn /\ (shared \/ chk' = "check")
        \/ user' = "open" /\ chk' = "off"
    BY <2>1, <2>2, RecoveryAssumption DEF Port, Turn
  <2>6. checking' \in BOOLEAN
    BY <2>1
  <2>7. ThreadInv'
    BY <1>0, <2>2, <2>3, <2>5, <2>6 DEF ThreadInv, ThreadType, CheckLater, Unopened, Cleared, Joined, NamesKnown, FailedKnown, ClearKnown, Ending, UserState, ChkState, Turn, world
  <2> QED BY <2>4, <2>7 DEF IInv
<1>6. ASSUME NEW S \in SUBSET Port, CallEnds(S), ~Dies
      PROVE  IInv'
  <2>1. /\ user = "call" /\ user' = "idle"
        /\ S \subseteq {p \in Port : built /\ drv[p] = "dead"}
        /\ CloseAs(S, "failed")
        /\ chk' = IF chk = "setup" /\ built THEN "overrun" ELSE chk
        /\ UNCHANGED <<world, str, rx, runFlag, built, checking, alive>>
    BY <1>6 DEF CallEnds
  <2>2. \A p \in Port : drv'[p] = IF p \in S THEN "failed" ELSE drv[p]
    BY <1>0, <2>1, CloseIsOf
  <2>3. LinkInv'
    BY <1>0, <1>1, <2>1, <2>2, CloseKeepsLinks, "failed" \in {"none", "failed", "closed"}
       DEF world, LinkInv, ReceiverHasDriver
  <2>4. \A p \in S : fault /\ drv[p] # "none"
    BY <1>0, <2>1 DEF LinkInv, FaultKnown
  <2>5. ThreadInv'
    BY <1>0, <2>1, <2>2, <2>4 DEF ThreadInv, ThreadType, CheckLater, Unopened, Cleared, Joined, NamesKnown, FailedKnown, ClearKnown, Ending, UserState, ChkState, world
  <2> QED BY <2>3, <2>5 DEF IInv
<1>7. CASE DestroyCloses /\ ~Dies
  <2>1. /\ user = "close" /\ user' = "join"
        /\ runFlag' = [p \in Port |-> runFlag[p] /\ drv[p] = "none"]
        /\ CloseAs(Holding, "closed")
        /\ UNCHANGED <<world, str, rx, built, chk, checking, alive>>
    BY <1>7 DEF DestroyCloses
  <2>2. Holding \in SUBSET Port /\ \A p \in Holding : drv[p] # "none"
    BY DEF Holding
  <2>3. \A p \in Port : drv'[p] = IF p \in Holding THEN "closed" ELSE drv[p]
    BY <1>0, <2>1, <2>2, CloseIsOf
  <2>4. runFlag' \in [Port -> BOOLEAN]
    BY <2>1
  <2>5. LinkInv'
    BY <1>0, <1>1, <2>1, <2>2, <2>3, <2>4, CloseKeepsLinks, "closed" \in {"none", "failed", "closed"}
       DEF world, LinkInv, ReceiverHasDriver
  <2>6. ThreadInv'
    BY <1>0, <2>1, <2>2, <2>3 DEF ThreadInv, ThreadType, CheckLater, Unopened, Cleared, Joined, NamesKnown, FailedKnown, ClearKnown, Ending, UserState, ChkState, world
  <2> QED BY <2>5, <2>6 DEF IInv
<1> QED BY <1>2, <1>3, <1>4, <1>5, <1>6, <1>7, DyingKeeps DEF UserGoesOn

LEMMA StepKeeps == IInv /\ WatchInv /\ [Next]_vars => IInv'
<1> SUFFICES ASSUME IInv, WatchInv, [Next]_vars PROVE IInv'
  OBVIOUS
<1>1. CASE Next
  BY <1>1, CablesKeep, CheckKeeps, OtherKeeps, UserKeeps, ReceiverKeeps DEF Next
<1>2. CASE UNCHANGED vars
  <2>1. UNCHANGED <<world, link, threads>>
    BY <1>2 DEF vars, world, link, threads
  <2>2. LinkInv'
    BY <2>1, IdleKeepsLinks DEF IInv
  <2>3. ThreadInv'
    BY <2>1 DEF IInv, ThreadInv, ThreadType, CheckLater, Unopened, Cleared, Joined, NamesKnown, FailedKnown, ClearKnown, Ending, world, link, threads
  <2> QED BY <2>2, <2>3 DEF IInv
<1> QED BY <1>1, <1>2

-----------------------------------------------------------------------------
(* The watch is kept.                                                      *)

\* A step that leaves drivers, receivers and flags alone and does not end the
\* clearing keeps the receivers watched.
LEMMA IdleKeepsServed ==
  ASSUME Served, Told, UNCHANGED <<drv, rx, runFlag>>,
         chk \in {"join", "delete"} => chk' \in {"join", "delete"}
  PROVE  Served' /\ Told'
BY DEF Served, Told, Holding

LEMMA CablesKeepWatch ==
  ASSUME IInv, WatchInv, NEW b \in Board, Plug(b) \/ Unplug(b)
  PROVE  WatchInv'
<1>1. UNCHANGED <<rx, runFlag, user, chk, checking>>
  BY DEF Plug, Unplug, link, threads
<1>2. \A p \in Port : /\ drv'[p] \in {"open", "dead"} => drv[p] \in {"open", "dead"}
                      /\ drv'[p] # "none" => drv[p] # "none"
  BY DEF Plug, Unplug, link
<1>3. Served' /\ Told'
  BY <1>1, <1>2 DEF WatchInv, Served, Told, Holding
<1>4. Watching'
  BY <1>1 DEF WatchInv, Watching, Ending
<1> QED BY <1>3, <1>4 DEF WatchInv

LEMMA ReceiverKeepsWatch ==
  ASSUME IInv, WatchInv, NEW p \in Port, Receive(p)
  PROVE  WatchInv'
<1>1. UNCHANGED <<runFlag, user, chk, checking>> /\ rx' = [rx EXCEPT ![p] = "ended"]
  BY DEF Receive, ReceiveFails, ReceiveEnds, threads
<1>2. Watching'
  BY <1>1 DEF WatchInv, Watching, Ending
<1>3. \A q \in Port \ {p} : rx'[q] = rx[q]
  BY <1>1 DEF IInv, LinkInv, LinkType
<1>4. CASE ReceiveFails(p)
  <2>1. drv[p] # "none" /\ CloseAs({p}, "failed")
    BY <1>4 DEF ReceiveFails, ReadThrows
  <2>2. drv'[p] = "failed" /\ \A q \in Port \ {p} : drv'[q] = drv[q]
    BY <2>1 DEF CloseAs
  <2>3. Served' /\ Told'
    BY <1>1, <1>3, <2>1, <2>2 DEF WatchInv, Served, Told, Holding
  <2> QED BY <1>2, <2>3 DEF WatchInv
<1>5. CASE ReceiveEnds(p)
  <2>1. ~runFlag[p] /\ UNCHANGED drv
    BY <1>5 DEF ReceiveEnds
  <2>2. Served' /\ Told'
    BY <1>1, <1>3, <2>1 DEF WatchInv, Served, Told, Holding
  <2> QED BY <1>2, <2>2 DEF WatchInv
<1> QED BY <1>4, <1>5 DEF Receive

\* Opening starts the thread that reads the driver.
LEMMA OpenStartsReceiver ==
  ASSUME IInv, NEW p \in Port, OpenDriver(p)
  PROVE  /\ rx'[p] = "running" /\ runFlag'[p]
         /\ \A q \in Port \ {p} : /\ drv'[q] = drv[q] /\ rx'[q] = rx[q]
                                  /\ runFlag'[q] = runFlag[q]
<1>1. rx' = [rx EXCEPT ![p] = "running"] /\ runFlag' = [runFlag EXCEPT ![p] = TRUE]
  BY DEF OpenDriver
<1>2. \A q \in Port \ {p} : drv'[q] = drv[q]
  BY OpenIsOneDriver DEF IInv
<1> QED BY <1>1, <1>2 DEF IInv, LinkInv, LinkType

LEMMA CheckKeepsWatch ==
  ASSUME IInv, WatchInv, CheckThread
  PROVE  WatchInv'
<1>0. Served /\ Told /\ Watching
  BY DEF WatchInv
<1>1. UNCHANGED <<user, checking>> /\ (Ending <=> Ending')
  BY DEF CheckThread, CheckStops, CheckScan, ClearFlags, ClearJoin, ClearDelete, WaitDevice,
         ReconnectList, ReconnectOpen, ReconnectBuild, ReconnectSetup, Dies, Ending
<1>2. chk # "off" /\ user \notin {"list", "open"}
  <2>1. chk # "off"
    BY DEF CheckThread, CheckStops, CheckScan, ClearFlags, ClearJoin, ClearDelete, WaitDevice,
           ReconnectList, ReconnectOpen, ReconnectBuild, ReconnectSetup, CheckGoes, Turn
  <2> QED BY <2>1 DEF IInv, ThreadInv, CheckLater
<1>3. chk' # "off" /\ (chk' = "done" => Ending)
  BY <1>0, <1>2 DEF CheckThread, CheckStops, CheckScan, ClearFlags, ClearJoin, ClearDelete,
     WaitDevice, ReconnectList, ReconnectOpen, ReconnectBuild, ReconnectSetup, CheckGoes, Dies,
     Watching
<1>4. Watching'
  BY <1>0, <1>1, <1>2, <1>3 DEF Watching
<1>5. CASE CheckStops \/ CheckScan \/ WaitDevice \/ ReconnectBuild \/ ReconnectSetup \/ Dies
  <2>1. UNCHANGED <<drv, rx, runFlag>>
    BY <1>5 DEF CheckStops, CheckScan, WaitDevice, ReconnectBuild, ReconnectSetup, Dies, link
  <2>2. chk \notin {"join", "delete"} \/ chk' = chk
    BY <1>5 DEF CheckStops, CheckScan, WaitDevice, ReconnectBuild, ReconnectSetup,
                CheckGoes, Dies, Turn
  <2> QED BY <1>0, <1>4, <2>1, <2>2, IdleKeepsServed DEF WatchInv
<1>6. CASE ClearFlags \/ (ClearJoin /\ ~Dies)
  <2>1. chk' \in {"join", "delete"}
    BY <1>6 DEF ClearFlags, ClearJoin, CheckGoes
  <2> QED BY <1>4, <2>1 DEF WatchInv, Served, Told, Holding
<1>7. CASE ClearDelete /\ ~Dies
  <2>1. CloseAs(Port, "none")
    BY <1>7 DEF ClearDelete
  <2>2. \A p \in Port : drv'[p] = "none"
    BY <2>1 DEF CloseAs
  <2> QED BY <1>4, <2>2 DEF WatchInv, Served, Told, Holding
<1>8. CASE ReconnectOpen /\ ~Dies
  <2>1. chk = "open"
    BY <1>8 DEF ReconnectOpen
  <2>2. PICK p \in Port : OpenDriver(p)
    BY <1>8 DEF ReconnectOpen
  <2> QED BY <1>0, <1>1, <1>4, <2>1, <2>2, OpenStartsReceiver DEF WatchInv, Served, Told, Holding
<1>9. CASE ReconnectList /\ ~Dies
  <2>1. chk = "reconnect" /\ chk' = "open"
    BY <1>9 DEF ReconnectList, CheckGoes
  <2>2. UNCHANGED <<drv, rx, runFlag>> \/ drv' = [p \in Port |-> "none"]
    BY <1>9 DEF ReconnectList, ListDevices
  <2>3. CASE UNCHANGED <<drv, rx, runFlag>>
    BY <1>0, <1>4, <2>1, <2>3, IdleKeepsServed DEF WatchInv
  <2>4. CASE drv' = [p \in Port |-> "none"]
    BY <1>4, <2>4 DEF WatchInv, Served, Told, Holding
  <2> QED BY <2>2, <2>3, <2>4
<1> QED BY <1>5, <1>6, <1>7, <1>8, <1>9 DEF CheckThread

LEMMA UserKeepsWatch ==
  ASSUME IInv, WatchInv, UserGoesOn \/ CallBegins \/ Destroy
  PROVE  WatchInv'
<1>0. Served /\ Told /\ Watching /\ CheckLater
  BY DEF WatchInv, IInv, ThreadInv
<1>1. CASE InitOpen /\ ~Dies
  <2> SUFFICES Served' /\ Told' /\ Watching'
    BY DEF WatchInv
  <2>1. PICK p \in Port : /\ OpenDriver(p)
                          /\ user' = IF p = N THEN "build" ELSE user
                          /\ chk' \in IF p < N THEN {chk} ELSE IF shared THEN Turn ELSE {"check"}
                          /\ checking' = (p = N)
    BY <1>1 DEF InitOpen
  <2>2. user = "open" /\ chk = "off"
    BY <1>0, <1>1 DEF InitOpen, CheckLater
  <2>3. p = N => Watching'
    <3> SUFFICES ASSUME p = N PROVE Watching'
      OBVIOUS
    <3>1. user' = "build" /\ chk' \in Turn
      BY <2>1, RecoveryAssumption DEF Turn
    <3>2. checking'
      BY <2>1, Zenon
    <3> QED BY <3>1, <3>2 DEF Watching, Ending, Turn
  <2>4. p # N => Watching'
    <3> SUFFICES ASSUME p # N PROVE Watching'
      OBVIOUS
    <3>1. user' = "open" /\ chk' = "off"
      BY <2>1, <2>2, RecoveryAssumption DEF Port
    <3> QED BY <3>1 DEF Watching
  <2>5. Served' /\ Told'
    BY <1>0, <2>1, <2>2, OpenStartsReceiver DEF Served, Told, Holding
  <2>6. Watching'
    BY <2>3, <2>4
  <2> QED BY <2>5, <2>6
<1>2. ASSUME NEW S \in SUBSET Port, CallEnds(S), ~Dies
      PROVE  WatchInv'
  <2>1. /\ user = "call" /\ user' = "idle"
        /\ S \subseteq {p \in Port : built /\ drv[p] = "dead"}
        /\ CloseAs(S, "failed")
        /\ chk' = IF chk = "setup" /\ built THEN "overrun" ELSE chk
        /\ UNCHANGED <<rx, runFlag, checking>>
    BY <1>2 DEF CallEnds
  <2>2. \A p \in Port : drv'[p] = IF p \in S THEN "failed" ELSE drv[p]
    BY <2>1 DEF CloseAs
  <2>3. Served' /\ Told'
    BY <1>0, <2>1, <2>2 DEF Served, Told, Holding
  <2>4. Watching'
    BY <1>0, <2>1 DEF Watching, Ending
  <2> QED BY <2>3, <2>4 DEF WatchInv
<1>3. CASE DestroyCloses /\ ~Dies
  <2>1. user' = "join" /\ UNCHANGED chk /\ CloseAs(Holding, "closed")
    BY <1>3 DEF DestroyCloses
  <2>2. chk = "off" => user \in {"list", "open"}
    BY <1>0 DEF Watching
  <2>3. user = "close"
    BY <1>3 DEF DestroyCloses
  <2>4. Holding' = {}
    BY <2>1 DEF CloseAs, Holding
  <2>5. Served' /\ Told'
    BY <2>4 DEF Served, Told
  <2>6. Watching'
    BY <2>1, <2>2, <2>3 DEF Watching, Ending
  <2> QED BY <2>5, <2>6 DEF WatchInv
<1>4. CASE \/ InitList \/ InitBuild \/ InitSetup \/ CallBegins \/ Destroy \/ DestroyHalts
           \/ DestroyJoins \/ DestroyStops \/ DestroyEnds \/ Dies
  <2>1. UNCHANGED <<drv, rx, runFlag, chk>>
    BY <1>4 DEF InitList, InitBuild, InitSetup, CallBegins, Destroy, DestroyHalts, DestroyJoins,
                DestroyStops, DestroyEnds, Dies, ListDevices, link
  <2>2. /\ Ending => Ending'
        /\ user' \in {"list", "open"} <=> user \in {"list", "open"}
        /\ UNCHANGED checking \/ Ending'
    BY <1>4 DEF InitList, InitBuild, InitSetup, CallBegins, Destroy, DestroyHalts, DestroyJoins,
                DestroyStops, DestroyEnds, Dies, UserGoes, Ending
  <2>3. Served' /\ Told'
    BY <1>0, <2>1, <2>2, IdleKeepsServed
  <2>4. Watching'
    BY <1>0, <2>1, <2>2 DEF Watching
  <2> QED BY <2>3, <2>4 DEF WatchInv
<1> QED BY <1>1, <1>2, <1>3, <1>4 DEF UserGoesOn

LEMMA StepKeepsWatch == IInv /\ WatchInv /\ [Next]_vars => WatchInv'
<1> SUFFICES ASSUME IInv, WatchInv, [Next]_vars PROVE WatchInv'
  OBVIOUS
<1>1. CASE Next
  BY <1>1, CablesKeepWatch, CheckKeepsWatch, OtherKeeps, UserKeepsWatch, ReceiverKeepsWatch DEF Next
<1>2. CASE UNCHANGED vars
  BY <1>2 DEF vars, WatchInv, Served, Told, Holding, Watching, Ending
<1> QED BY <1>1, <1>2

-----------------------------------------------------------------------------
(* The theorems.                                                           *)

LEMMA Invariance == Spec => [](IInv /\ WatchInv)
<1>1. Init => WatchInv
  BY DEF Init, WatchInv, Served, Told, Holding, Watching
<1> QED BY <1>1, InitHolds, StepKeeps, StepKeepsWatch, PTL DEF Spec

\* Every variable of the links and of the threads keeps its type: above all no
\* descriptor is closed that is not held.
THEOREM RecoveryTypeCorrect == Spec => []TypeOK
<1>1. IInv => TypeOK
  BY DEF IInv, LinkInv, LinkType, ThreadInv, ThreadType, TypeOK
<1> QED BY <1>1, Invariance, PTL

\* error_clear, the destructor and the cables never leave a receive thread
\* running on a driver that was deleted.
THEOREM ReceiversKeepTheirDriver == Spec => []ReceiverHasDriver
<1>1. IInv => ReceiverHasDriver
  BY DEF IInv, LinkInv
<1> QED BY <1>1, Invariance, PTL

\* However many recoveries there have been, a device has one descriptor.
THEOREM DevicesOpenOnce == Spec => []OneOpenPerDevice
<1>1. IInv => OneOpenPerDevice
  BY DEF IInv, LinkInv, HandleCount, OneOpenPerDevice
<1> QED BY <1>1, Invariance, PTL

\* Until the destructor every lost device and every error_flag has a thread that
\* will come upon it, and nothing is closed without the flag.
THEOREM FailuresAreNoticed == Spec => []NoFailureIsMissed
<1>1. IInv /\ WatchInv => NoFailureIsMissed
  <2> SUFFICES ASSUME IInv, WatchInv, ~Ending, NEW p \in Port
               PROVE  /\ drv[p] = "dead" => rx[p] = "running" \/ chk \in {"join", "delete"}
                      /\ drv[p] = "failed" => user = "open" \/ (checking /\ chk # "done")
                      /\ drv[p] # "closed"
    BY DEF NoFailureIsMissed
  <2>1. drv[p] = "dead" => rx[p] = "running" \/ chk \in {"join", "delete"}
    BY DEF WatchInv, Served, Holding
  <2>2. drv[p] # "closed"
    BY DEF IInv, ThreadInv, FailedKnown
  <2>3. user = "list" => drv[p] = "none"
    BY DEF IInv, ThreadInv, Unopened, Cleared
  <2>4. chk # "done" /\ (user \notin {"list", "open"} => checking)
    BY DEF WatchInv, Watching
  <2> QED BY <2>1, <2>2, <2>3, <2>4
<1> QED BY <1>1, Invariance, PTL

\* error_clear runs only with a cause: a board was missing, the destructor has
\* closed the links, or another robot has moved the state they share.
THEOREM ClearingHasACause == Spec => ClearsOnlyAfterFailure
<1>1. IInv /\ [Next]_vars => [chk = "clear" /\ chk' = "join" => fault \/ Ending \/ shared]_vars
  BY DEF IInv, ThreadInv, ClearKnown
<1> QED BY <1>1, Invariance, PTL DEF Spec, ClearsOnlyAfterFailure
=============================================================================
