-------------------------- MODULE Negotiation_proofs --------------------------
(***************************************************************************)
(* What the negotiation has settled when it is over, for any number of     *)
(* ports, motors, firmware versions and tries.  The arguments rest on what *)
(* an answer is (Heard below) and on when each request is first made.      *)
(***************************************************************************)
EXTENDS Negotiation, WellFoundedInduction, NaturalsInduction, TLAPS

\* What was heard of a port or a motor is its version.
VersionsHeard ==
    /\ \A p \in Port : portV[p] \in {NoVersion, firm[p]}
    /\ \A m \in Motor : motorV[m] \in {NoVersion, mver[m]}

\* slave_v is that of the last port, and new enough for what the phase asks.
SlaveKnown ==
    /\ phase # "num" => slaveV \in {NoVersion, firm[NPorts]}
    /\ phase = "positions" => slaveV < V(4, 0, 0)
    /\ phase \in {"versions", "fun", "flags"} => slaveV >= V(4, 0, 0)

\* No port confirms a function version before it is asked to take one, and it
\* confirms the one it was asked to take.
FunConfirmed ==
    /\ phase \in {"num", "positions", "versions", "exit"} =>
          \A p \in Port : portFun[p] = 1 /\ "fun" \notin asked[p]
    /\ \A p \in Port : portFun[p] # 1 => portFun[p] = fun /\ boardFun[p] = fun

\* The function version is one that every motor has.
FunCommon ==
    /\ phase = "positions" => fun = 1
    /\ phase \in {"fun", "flags", "done"} /\ reported = {} /\ fun # 1 =>
          \A m \in Motor : fun <= FunOf(mver[m])

\* A motor that no message named was heard, and its flag is what it said.
FlagsTrue ==
    /\ \A m \in adjusts : m \in Motor /\ mver[m] >= V(4, 6, 0)
    /\ \A m \in Motor : flag[m] = "no" => m \notin adjusts
    /\ phase \in {"fun", "flags"} => \A m \in Motor \ reported : motorV[m] = mver[m]

IInv ==
    /\ TypeOK /\ VersionsHeard /\ SlaveKnown /\ FunConfirmed /\ FunCommon /\ FlagsTrue
    /\ SupportedRequests /\ TorqueFactorReported

-----------------------------------------------------------------------------
(* The least version.                                                      *)

LEMMA LeastExists ==
  ASSUME NEW T \in SUBSET Nat, T # {}
  PROVE  \E v \in T : \A w \in T : v <= w
<1> DEFINE R == OpToRel(<, Nat)
<1>1. IsWellFoundedOn(R, Nat)
  BY NatLessThanWellFounded
<1>2. PICK v \in T : \A w \in T : ~ (<<w, v>> \in R)
  BY <1>1, WFMin
<1>3. ASSUME NEW w \in T PROVE v <= w
  <2>1. ~ (w < v)
    BY <1>2 DEF OpToRel
  <2> QED BY <2>1
<1> QED BY <1>3

\* v_min is at most every version heard.
LEMMA VMinIsLeast ==
  ASSUME TypeOK
  PROVE  VMin \in Nat /\ \A w \in HeardVersions : VMin <= w
<1> DEFINE T == HeardVersions \cup {Unset}
<1>1. HeardVersions \subseteq Nat
  BY DEF HeardVersions, TypeOK
<1>2. T \in SUBSET Nat /\ T # {}
  BY <1>1 DEF Unset
<1>3. \E v \in T : \A w \in HeardVersions : v <= w
  BY <1>2, LeastExists
<1>4. VMin \in T /\ \A w \in HeardVersions : VMin <= w
  BY <1>3 DEF VMin
<1> QED BY <1>2, <1>4

\* A newer motor has every function version an older one has.
LEMMA FunOfGrows ==
  ASSUME NEW v \in Nat, NEW w \in Nat, v <= w
  PROVE  FunOf(v) \in FunV /\ FunOf(v) <= FunOf(w)
BY DEF FunOf, V, FunV

-----------------------------------------------------------------------------
(* Requests.                                                               *)

LEMMA KindsAre ==
  /\ Kinds = {"num", "state", "versions", "fun", "fdcan_reset", "flags"}
  /\ Since["num"] = 0 /\ Since["state"] = 0 /\ Since["versions"] = V(4, 0, 0)
  /\ Since["fun"] = V(4, 0, 0) /\ Since["fdcan_reset"] = V(4, 1, 0) /\ Since["flags"] = V(4, 7, 0)
BY DEF Kinds, Since

LEMMA VersionNumbers ==
  /\ V(3, 0, 0) = 12288 /\ V(4, 0, 0) = 16384 /\ V(4, 1, 0) = 16400
  /\ V(4, 6, 0) = 16480 /\ V(4, 7, 0) = 16496
BY DEF V

LEMMA FirmIsNat ==
  ASSUME TypeOK
  PROVE  firm \in [Port -> Nat]
<1>1. firm \in [Port -> V(3, 0, 0) .. Unset - 1]
  BY NegotiationAssumption DEF TypeOK
<1> QED BY <1>1, VersionNumbers DEF Unset

LEMMA MverIsNat ==
  ASSUME TypeOK
  PROVE  mver \in [Motor -> Nat] /\ \A m \in Motor : mver[m] # NoVersion
<1>1. MotorVersions \subseteq V(1, 0, 0) .. Unset - 1
  BY NegotiationAssumption
<1>2. V(1, 0, 0) = 4096
  BY DEF V
<1>3. ASSUME NEW v \in MotorVersions PROVE v \in Nat /\ v # 0
  BY <1>1, <1>2, <1>3 DEF Unset
<1> QED BY <1>3 DEF TypeOK, NoVersion

\* A request that all boards know when they are alike.
LEMMA AskKeeps ==
  ASSUME TypeOK, SupportedRequests, NEW S \in SUBSET Port, NEW K \in SUBSET Kinds, Ask(S, K),
         UNCHANGED firm, Uniform => \A k \in K : \E p \in Port : firm[p] >= Since[k]
  PROVE  /\ asked' \in [Port -> SUBSET Kinds]
         /\ SupportedRequests'
         /\ \A p \in Port, k \in Kinds \ K : k \in asked'[p] => k \in asked[p]
<1>1. asked \in [Port -> SUBSET Kinds]
  BY DEF TypeOK
<1>2. asked' = [p \in Port |-> IF p \in S THEN asked[p] \cup K ELSE asked[p]]
  BY DEF Ask
<1>3. asked' \in [Port -> SUBSET Kinds]
  BY <1>1, <1>2
<1>4. ASSUME Uniform', NEW p \in Port, NEW k \in asked'[p]
      PROVE  firm'[p] >= Since[k]
  <2>1. Uniform
    BY <1>4 DEF Uniform
  <2>2. CASE k \in asked[p]
    BY <2>1, <2>2 DEF SupportedRequests
  <2>3. CASE k \in K
    <3>1. PICK q \in Port : firm[q] >= Since[k]
      BY <2>1, <2>3
    <3>2. firm[p] = firm[q]
      BY <2>1 DEF Uniform
    <3> QED BY <3>1, <3>2
  <2> QED BY <1>2, <2>2, <2>3
<1>5. SupportedRequests'
  BY <1>4 DEF SupportedRequests
<1> QED BY <1>2, <1>3, <1>5

LEMMA NoAskKeeps ==
  ASSUME SupportedRequests, UNCHANGED <<firm, asked>>
  PROVE  SupportedRequests'
BY DEF SupportedRequests, Uniform

-----------------------------------------------------------------------------
(* The invariant.                                                          *)

LEMMA InitHolds == Init => IInv
<1> SUFFICES ASSUME Init PROVE IInv
  OBVIOUS
<1>1. 1 \in Port /\ 1 \in 1 .. Tries /\ 1 \in FunV
  BY NegotiationAssumption DEF Port, FunV
<1>2. asked \in [Port -> SUBSET Kinds] /\ \A p \in Port : asked[p] \subseteq {"num"}
  BY KindsAre DEF Init
<1>3. boardFun \in [Port -> FunV] /\ fun \in FunV
  BY DEF Init, FunV
<1>4. portV \in [Port -> Nat] /\ slaveV \in Nat /\ motorV \in [Motor -> Nat]
  BY VersionNumbers DEF Init, NoVersion
<1>5. TypeOK
  BY <1>1, <1>2, <1>3, <1>4 DEF Init, TypeOK
<1>6. VersionsHeard /\ SlaveKnown
  BY DEF Init, VersionsHeard, SlaveKnown
<1>7. FunConfirmed /\ FunCommon
  BY <1>2 DEF Init, FunConfirmed, FunCommon
<1>8. FlagsTrue /\ TorqueFactorReported
  BY DEF Init, FlagsTrue, TorqueFactorReported
<1>9. SupportedRequests
  <2>1. \A p \in Port : firm[p] >= 0
    BY <1>5, FirmIsNat
  <2> QED BY <1>2, <2>1, KindsAre DEF SupportedRequests
<1> QED BY <1>5, <1>6, <1>7, <1>8, <1>9 DEF IInv

\* Every answer leaves the requests and what the robot has decided alone.
LEMMA AnswerKeeps ==
  ASSUME IInv, UNCHANGED <<hardware, phase, port, t, asked, slaveV, fun, told>>,
         TypeOK', VersionsHeard', FunConfirmed',
         \A m \in Motor : motorV'[m] \in {motorV[m], mver[m]},
         \A m \in Motor : flag'[m] = "no" => m \notin adjusts
  PROVE  IInv'
<1>1. UNCHANGED <<firm, mver, adjusts, again, phase, asked, slaveV, fun, noFactor, reported>>
  BY DEF hardware, told
<1>2. SlaveKnown' /\ FunCommon' /\ FlagsTrue' /\ TorqueFactorReported'
  BY <1>1 DEF IInv, SlaveKnown, FunCommon, FlagsTrue, TorqueFactorReported
<1>3. SupportedRequests'
  BY <1>1, NoAskKeeps DEF IInv
<1> QED BY <1>2, <1>3 DEF IInv

LEMMA AnswersKeep ==
  ASSUME IInv, \/ \E p \in Port : AnswerNum(p) \/ TakeFun(p)
               \/ \E m \in Motor : AnswerState(m) \/ AnswerVersion(m) \/ AnswerFlag(m)
  PROVE  IInv'
<1>0. TypeOK /\ VersionsHeard /\ FunConfirmed /\ FlagsTrue
  BY DEF IInv
<1>1. ASSUME NEW p \in Port, AnswerNum(p) PROVE IInv'
  <2>1. /\ portV' = [portV EXCEPT ![p] = firm[p]]
        /\ UNCHANGED <<boardFun, portFun, seen, motorV, flag>>
        /\ UNCHANGED <<hardware, phase, port, t, asked, slaveV, fun, told>>
    BY <1>1 DEF AnswerNum, Answered
  <2>2. portV' \in [Port -> Nat]
    BY <1>0, <2>1, FirmIsNat DEF TypeOK
  <2>3. TypeOK'
    BY <1>0, <2>1, <2>2 DEF TypeOK, hardware, told
  <2>4. VersionsHeard' /\ FunConfirmed'
    BY <1>0, <2>1 DEF TypeOK, VersionsHeard, FunConfirmed, hardware
  <2> QED BY <1>0, <2>1, <2>3, <2>4, AnswerKeeps DEF FlagsTrue
<1>2. ASSUME NEW p \in Port, TakeFun(p) PROVE IInv'
  <2>1. /\ boardFun' = [boardFun EXCEPT ![p] = fun]
        /\ portFun' = portFun \/ portFun' = [portFun EXCEPT ![p] = fun]
        /\ UNCHANGED <<portV, seen, motorV, flag>>
        /\ UNCHANGED <<hardware, phase, port, t, asked, slaveV, fun, told>>
        /\ "fun" \in asked[p]
    BY <1>2 DEF TakeFun, Answered, Asked
  <2>2. boardFun' \in [Port -> FunV] /\ portFun' \in [Port -> FunV]
    BY <1>0, <2>1 DEF TypeOK
  <2>3. TypeOK'
    BY <1>0, <2>1, <2>2 DEF TypeOK, hardware, told
  <2>4. phase \notin {"num", "positions", "versions", "exit"}
    BY <1>0, <2>1 DEF FunConfirmed
  <2>5. ASSUME NEW q \in Port, portFun'[q] # 1
        PROVE  portFun'[q] = fun' /\ boardFun'[q] = fun'
    BY <1>0, <2>1, <2>5 DEF TypeOK, FunConfirmed
  <2>6. VersionsHeard' /\ FunConfirmed'
    BY <1>0, <2>1, <2>4, <2>5 DEF VersionsHeard, FunConfirmed, hardware
  <2> QED BY <1>0, <2>1, <2>3, <2>6, AnswerKeeps DEF FlagsTrue
<1>3. ASSUME NEW m \in Motor, AnswerState(m) PROVE IInv'
  <2>1. /\ seen' = seen \cup {m}
        /\ UNCHANGED <<boardFun, portV, portFun, motorV, flag>>
        /\ UNCHANGED <<hardware, phase, port, t, asked, slaveV, fun, told>>
    BY <1>3 DEF AnswerState, Answered
  <2>2. TypeOK'
    BY <1>0, <2>1 DEF TypeOK, hardware, told
  <2>3. VersionsHeard' /\ FunConfirmed'
    BY <1>0, <2>1 DEF VersionsHeard, FunConfirmed, hardware
  <2> QED BY <1>0, <2>1, <2>2, <2>3, AnswerKeeps DEF FlagsTrue
<1>4. ASSUME NEW m \in Motor, AnswerVersion(m) PROVE IInv'
  <2>1. /\ motorV' = [motorV EXCEPT ![m] = mver[m]]
        /\ UNCHANGED <<boardFun, portV, portFun, seen, flag>>
        /\ UNCHANGED <<hardware, phase, port, t, asked, slaveV, fun, told>>
    BY <1>4 DEF AnswerVersion, Answered
  <2>2. motorV' \in [Motor -> Nat]
    BY <1>0, <2>1, MverIsNat DEF TypeOK
  <2>3. TypeOK'
    BY <1>0, <2>1, <2>2 DEF TypeOK, hardware, told
  <2>4. \A n \in Motor : motorV'[n] \in {motorV[n], mver[n]}
    BY <1>0, <2>1 DEF TypeOK
  <2>5. VersionsHeard' /\ FunConfirmed'
    BY <1>0, <2>1, <2>4 DEF VersionsHeard, FunConfirmed, hardware
  <2> QED BY <1>0, <2>1, <2>3, <2>4, <2>5, AnswerKeeps DEF FlagsTrue
<1>5. ASSUME NEW m \in Motor, AnswerFlag(m) PROVE IInv'
  <2>1. /\ flag' = [flag EXCEPT ![m] = IF m \in adjusts THEN "yes" ELSE "no"]
        /\ UNCHANGED <<boardFun, portV, portFun, seen, motorV>>
        /\ UNCHANGED <<hardware, phase, port, t, asked, slaveV, fun, told>>
    BY <1>5 DEF AnswerFlag, Answered
  <2>2. flag' \in [Motor -> {"unread", "no", "yes"}]
    BY <1>0, <2>1 DEF TypeOK
  <2>3. TypeOK'
    BY <1>0, <2>1, <2>2 DEF TypeOK, hardware, told
  <2>4. VersionsHeard' /\ FunConfirmed'
    BY <1>0, <2>1 DEF VersionsHeard, FunConfirmed, hardware
  <2>5. \A n \in Motor : flag'[n] = "no" => n \notin adjusts
    BY <1>0, <2>1 DEF TypeOK, FlagsTrue
  <2> QED BY <2>1, <2>3, <2>4, <2>5, AnswerKeeps
<1> QED BY <1>1, <1>2, <1>3, <1>4, <1>5

\* A round of a loop, and going on to the next port, decide nothing.
LEMMA LoopKeeps ==
  ASSUME IInv, AskAgain \/ NumNext \/ FunNext
  PROVE  IInv'
<1>0. /\ TypeOK /\ VersionsHeard /\ SlaveKnown /\ FunConfirmed /\ FunCommon /\ FlagsTrue
      /\ SupportedRequests /\ TorqueFactorReported
  BY DEF IInv
<1>1. CASE AskAgain
  <2>1. /\ phase \notin {"done", "exit"} /\ t < Tries /\ t' = t + 1
        /\ noFactor' \subseteq Motor
        /\ UNCHANGED <<hardware, heard, phase, port, asked, slaveV, fun, reported, portErr>>
    BY <1>0, <1>1 DEF AskAgain, SetTypes, TypeOK
  <2>2. t' \in 1 .. Tries
    BY <1>0, <2>1, NegotiationAssumption DEF TypeOK
  <2>3. TypeOK'
    BY <1>0, <2>1, <2>2 DEF TypeOK, hardware, heard
  <2>4. VersionsHeard' /\ SlaveKnown' /\ FunConfirmed' /\ FunCommon' /\ FlagsTrue'
    BY <1>0, <2>1 DEF VersionsHeard, SlaveKnown, FunConfirmed, FunCommon, FlagsTrue, hardware, heard
  <2>5. SupportedRequests' /\ TorqueFactorReported'
    BY <1>0, <2>1, NoAskKeeps DEF TorqueFactorReported, hardware
  <2> QED BY <2>3, <2>4, <2>5 DEF IInv
<1>2. ASSUME NEW k \in {"num", "fun"}, phase = k, NextPort(k, k), portErr' \subseteq Port
      PROVE  IInv'
  <2>1. /\ port < NPorts /\ port' = port + 1 /\ t' = 1 /\ Ask({port + 1}, {k})
        /\ UNCHANGED <<hardware, heard, phase, slaveV, fun, noFactor, reported>>
    BY <1>2 DEF NextPort
  <2>2. port' \in Port /\ t' \in 1 .. Tries
    BY <1>0, <2>1, NegotiationAssumption DEF TypeOK, Port
  <2>3. {port + 1} \in SUBSET Port /\ {k} \in SUBSET Kinds
    BY <2>1, <2>2, KindsAre
  <2>4. Uniform => \E p \in Port : firm[p] >= Since[k]
    <3>1. NPorts \in Port
      BY NegotiationAssumption DEF Port
    <3>2. firm[NPorts] >= 0
      BY <1>0, <3>1, FirmIsNat
    <3>3. CASE k = "num"
      BY <3>1, <3>2, <3>3, KindsAre
    <3>4. CASE k = "fun"
      <4>1. slaveV >= V(4, 0, 0) /\ slaveV \in {NoVersion, firm[NPorts]}
        BY <1>0, <1>2, <3>4 DEF SlaveKnown
      <4>2. firm[NPorts] >= V(4, 0, 0)
        BY <4>1, VersionNumbers DEF NoVersion
      <4> QED BY <3>1, <3>4, <4>2, KindsAre
    <3> QED BY <3>3, <3>4
  <2>5. UNCHANGED firm
    BY <2>1 DEF hardware
  <2>6. /\ asked' \in [Port -> SUBSET Kinds] /\ SupportedRequests'
        /\ \A p \in Port, j \in Kinds \ {k} : j \in asked'[p] => j \in asked[p]
    BY <1>0, <2>1, <2>3, <2>4, <2>5, AskKeeps
  <2>7. TypeOK'
    BY <1>0, <1>2, <2>1, <2>2, <2>6 DEF TypeOK, hardware, heard
  <2>8. FunConfirmed'
    BY <1>0, <1>2, <2>1, <2>6, KindsAre DEF FunConfirmed, heard
  <2>9. VersionsHeard' /\ SlaveKnown' /\ FunCommon' /\ FlagsTrue' /\ TorqueFactorReported'
    BY <1>0, <1>2, <2>1 DEF VersionsHeard, SlaveKnown, FunCommon, FlagsTrue, TorqueFactorReported,
                            hardware, heard
  <2> QED BY <2>6, <2>7, <2>8, <2>9 DEF IInv
<1>3. CASE NumNext
  <2>1. phase = "num" /\ NextPort("num", "num")
    BY <1>3 DEF NumNext, NextPort, LoopEnds
  <2>2. portErr' \subseteq Port
    BY <1>0, <1>3 DEF NumNext, PortErrNum, TypeOK
  <2> QED BY <1>2, <2>1, <2>2
<1>4. CASE FunNext
  <2>1. phase = "fun" /\ NextPort("fun", "fun")
    BY <1>4 DEF FunNext, NextPort, LoopEnds
  <2>2. portErr' \subseteq Port
    BY <1>0, <1>4 DEF FunNext, PortErrFun, TypeOK
  <2> QED BY <1>2, <2>1, <2>2
<1> QED BY <1>1, <1>3, <1>4

\* The version of the last port decides what is asked next.
LEMMA NumDoneKeeps ==
  ASSUME IInv, NumDone
  PROVE  IInv'
<1>0. /\ TypeOK /\ VersionsHeard /\ SlaveKnown /\ FunConfirmed /\ FunCommon /\ FlagsTrue
      /\ SupportedRequests /\ TorqueFactorReported
  BY DEF IInv
<1> DEFINE old   == OldFirmware(slaveV')
           reset == IF ~again /\ slaveV' >= V(4, 1, 0) THEN {"fdcan_reset"} ELSE {}
<1>1. /\ phase = "num" /\ port = NPorts /\ slaveV' = portV[port] /\ t' = 1
      /\ UNCHANGED <<hardware, heard, port, noFactor, reported>>
      /\ \/ again /\ old /\ phase' = "exit" /\ UNCHANGED <<asked, fun>>
         \/ ~again /\ old /\ phase' = "positions" /\ fun' = 1 /\ Ask(Port, {"state"})
         \/ /\ ~old /\ phase' = "versions" /\ fun' = IF again THEN fun ELSE 2
            /\ Ask(Port, {"versions"} \cup reset)
  BY DEF NumDone, LoopEnds
<1>2. portErr' \subseteq Port
  BY <1>0 DEF NumDone, PortErrNum, TypeOK
<1>3. NPorts \in Port /\ 1 \in 1 .. Tries
  BY NegotiationAssumption DEF Port
<1>4. slaveV' \in {NoVersion, firm[NPorts]} /\ slaveV' \in Nat
  BY <1>0, <1>1, <1>3 DEF VersionsHeard, TypeOK
<1>5. old <=> slaveV' < V(4, 0, 0)
  BY DEF OldFirmware
<1>6. firm[NPorts] \in Nat /\ UNCHANGED firm
  BY <1>0, <1>1, <1>3, FirmIsNat DEF hardware
<1>7. fun' \in FunV /\ (phase' = "positions" => fun' = 1)
      /\ phase' \in {"exit", "positions", "versions"}
  BY <1>0, <1>1 DEF TypeOK, FunV
<1>8. /\ asked' \in [Port -> SUBSET Kinds] /\ SupportedRequests'
      /\ \A p \in Port : "fun" \in asked'[p] => "fun" \in asked[p]
  <2>1. CASE old /\ again
    BY <1>0, <1>1, <1>6, <2>1, NoAskKeeps DEF TypeOK
  <2>2. CASE old /\ ~again
    <3>1. Ask(Port, {"state"})
      BY <1>1, <2>2
    <3>2. {"state"} \in SUBSET Kinds /\ "fun" \in Kinds \ {"state"} /\ Port \in SUBSET Port
      BY KindsAre
    <3>3. \A k \in {"state"} : \E p \in Port : firm[p] >= Since[k]
      BY <1>3, <1>6, KindsAre
    <3> QED BY <1>0, <1>6, <3>1, <3>2, <3>3, AskKeeps
  <2>3. CASE ~old
    <3> DEFINE K == {"versions"} \cup reset
    <3>1. Ask(Port, K)
      BY <1>1, <2>3
    <3>2. K \in SUBSET Kinds /\ "fun" \in Kinds \ K /\ Port \in SUBSET Port
      BY KindsAre
    <3>3. slaveV' = firm[NPorts] /\ firm[NPorts] >= V(4, 0, 0)
      BY <1>4, <1>5, <1>6, <2>3, VersionNumbers DEF NoVersion
    <3>4. firm[NPorts] >= Since["versions"]
          /\ ("fdcan_reset" \in K => firm[NPorts] >= Since["fdcan_reset"])
      BY <3>3, KindsAre
    <3>5. \A k \in K : firm[NPorts] >= Since[k]
      BY <3>4
    <3>6. \A k \in K : \E p \in Port : firm[p] >= Since[k]
      BY <1>3, <3>5
    <3> HIDE DEF K
    <3> QED BY <1>0, <1>6, <3>1, <3>2, <3>6, AskKeeps
  <2> QED BY <2>1, <2>2, <2>3
<1>9. TypeOK'
  BY <1>0, <1>1, <1>2, <1>3, <1>4, <1>7, <1>8 DEF TypeOK, hardware, heard
<1>10. VersionsHeard' /\ FlagsTrue' /\ TorqueFactorReported'
  BY <1>0, <1>1, <1>7 DEF VersionsHeard, FlagsTrue, TorqueFactorReported, hardware, heard
<1>11. SlaveKnown'
  <2>1. V(4, 0, 0) \in Nat
    BY VersionNumbers
  <2> QED BY <1>1, <1>4, <1>5, <1>6, <1>7, <2>1 DEF SlaveKnown
<1>12. FunConfirmed' /\ FunCommon'
  BY <1>0, <1>1, <1>7, <1>8 DEF FunConfirmed, FunCommon, heard
<1> QED BY <1>8, <1>9, <1>10, <1>11, <1>12 DEF IInv

LEMMA PositionsDoneKeeps ==
  ASSUME IInv, PositionsDone
  PROVE  IInv'
<1>0. /\ TypeOK /\ VersionsHeard /\ SlaveKnown /\ FunConfirmed /\ FunCommon /\ FlagsTrue
      /\ SupportedRequests
  BY DEF IInv
<1>1. /\ phase = "positions" /\ phase' = "done" /\ reported' = Motor \ seen
      /\ UNCHANGED <<hardware, heard, port, t, asked, slaveV, fun, noFactor, portErr>>
  BY DEF PositionsDone, LoopEnds
<1>2. TypeOK'
  BY <1>0, <1>1 DEF TypeOK, hardware, heard
<1>3. VersionsHeard' /\ SlaveKnown' /\ FunConfirmed' /\ FunCommon' /\ FlagsTrue'
  BY <1>0, <1>1 DEF VersionsHeard, SlaveKnown, FunConfirmed, FunCommon, FlagsTrue, hardware, heard
<1>4. SupportedRequests'
  BY <1>0, <1>1, NoAskKeeps DEF hardware
<1>5. TorqueFactorReported'
  <2>1. slaveV \in Nat /\ slaveV < V(4, 0, 0)
    BY <1>0, <1>1 DEF SlaveKnown, TypeOK
  <2> QED BY <1>1, <2>1, VersionNumbers DEF TorqueFactorReported
<1> QED BY <1>2, <1>3, <1>4, <1>5 DEF IInv

\* The function version is chosen from what has been heard.
LEMMA VersionsDoneKeeps ==
  ASSUME IInv, VersionsDone
  PROVE  IInv'
<1>0. /\ TypeOK /\ VersionsHeard /\ SlaveKnown /\ FunConfirmed /\ FunCommon /\ FlagsTrue
      /\ SupportedRequests
  BY DEF IInv
<1>1. /\ phase = "versions" /\ phase' = "fun" /\ port' = 1 /\ t' = 1 /\ fun' = FunOf(VMin)
      /\ reported' = {m \in Motor : motorV[m] = NoVersion} /\ Ask({1}, {"fun"})
      /\ UNCHANGED <<hardware, heard, slaveV, noFactor, portErr>>
  BY DEF VersionsDone, LoopEnds
<1>2. 1 \in Port /\ NPorts \in Port /\ 1 \in 1 .. Tries
  BY NegotiationAssumption DEF Port
<1>3. VMin \in Nat /\ \A w \in HeardVersions : VMin <= w
  BY <1>0, VMinIsLeast
<1>4. fun' \in FunV
  BY <1>1, <1>3, FunOfGrows
<1>5. /\ asked' \in [Port -> SUBSET Kinds] /\ SupportedRequests'
  <2>1. slaveV >= V(4, 0, 0) /\ slaveV \in {NoVersion, firm[NPorts]}
    BY <1>0, <1>1 DEF SlaveKnown
  <2>2. firm[NPorts] >= Since["fun"]
    BY <2>1, VersionNumbers, KindsAre DEF NoVersion
  <2>3. \A k \in {"fun"} : \E p \in Port : firm[p] >= Since[k]
    BY <1>2, <2>2
  <2>4. {1} \in SUBSET Port /\ {"fun"} \in SUBSET Kinds /\ UNCHANGED firm
    BY <1>1, <1>2, KindsAre DEF hardware
  <2> QED BY <1>0, <1>1, <2>3, <2>4, AskKeeps
<1>6. TypeOK'
  BY <1>0, <1>1, <1>2, <1>4, <1>5 DEF TypeOK, hardware, heard
<1>7. VersionsHeard' /\ SlaveKnown' /\ TorqueFactorReported'
  BY <1>0, <1>1 DEF VersionsHeard, SlaveKnown, TorqueFactorReported, hardware, heard
<1>8. FunConfirmed'
  BY <1>0, <1>1 DEF FunConfirmed, heard
<1>9. FunCommon'
  <2>1. ASSUME reported' = {}, NEW m \in Motor
        PROVE  fun' <= FunOf(mver'[m])
    <3>1. motorV[m] = mver[m] /\ motorV[m] # NoVersion
      BY <1>0, <1>1, <2>1 DEF VersionsHeard
    <3>2. mver[m] \in HeardVersions /\ mver[m] \in Nat
      BY <1>0, <3>1 DEF HeardVersions, TypeOK
    <3>3. UNCHANGED mver
      BY <1>1 DEF hardware
    <3> QED BY <1>1, <1>3, <3>2, <3>3, FunOfGrows
  <2> QED BY <1>1, <2>1 DEF FunCommon
<1>10. FlagsTrue'
  <2>1. \A m \in Motor \ reported' : motorV[m] = mver[m]
    BY <1>0, <1>1 DEF VersionsHeard
  <2> QED BY <1>0, <1>1, <2>1 DEF FlagsTrue, hardware, heard
<1> QED BY <1>5, <1>6, <1>7, <1>8, <1>9, <1>10 DEF IInv

\* Without a motor known to have the flag there is none to be missed.
LEMMA FunDoneKeeps ==
  ASSUME IInv, NEW flagsToo \in BOOLEAN, FunDone(flagsToo)
  PROVE  IInv'
<1>0. /\ TypeOK /\ VersionsHeard /\ SlaveKnown /\ FunConfirmed /\ FunCommon /\ FlagsTrue
      /\ SupportedRequests
  BY DEF IInv
<1> DEFINE known == {m \in Motor : m \notin reported /\ motorV[m] >= V(4, 6, 0)}
           S     == IF flagsToo THEN Port ELSE {}
<1>1. /\ phase = "fun" /\ flagsToo = (slaveV >= V(4, 7, 0) /\ known # {}) /\ t' = 1
      /\ phase' = (IF flagsToo THEN "flags" ELSE "done") /\ Ask(S, {"flags"})
      /\ UNCHANGED <<hardware, heard, port, slaveV, fun, noFactor, reported>>
  BY DEF FunDone, LoopEnds
<1>2. portErr' \subseteq Port
  BY <1>0 DEF FunDone, PortErrFun, TypeOK
<1>3. NPorts \in Port /\ 1 \in 1 .. Tries
  BY NegotiationAssumption DEF Port
<1>4. slaveV >= V(4, 0, 0) /\ slaveV \in {NoVersion, firm[NPorts]} /\ slaveV \in Nat
  BY <1>0, <1>1 DEF SlaveKnown, TypeOK
<1>5. UNCHANGED firm /\ {"flags"} \in SUBSET Kinds
  BY <1>1, KindsAre DEF hardware
<1>6. asked' \in [Port -> SUBSET Kinds] /\ SupportedRequests'
  <2>1. CASE flagsToo
    <3>1. slaveV >= V(4, 7, 0)
      BY <1>1, <2>1
    <3>2. firm[NPorts] >= Since["flags"]
      BY <1>4, <3>1, VersionNumbers, KindsAre DEF NoVersion
    <3>3. \A k \in {"flags"} : \E p \in Port : firm[p] >= Since[k]
      BY <1>3, <3>2
    <3>4. S \in SUBSET Port
      BY <2>1
    <3> QED BY <1>0, <1>1, <1>5, <3>3, <3>4, AskKeeps
  <2>2. CASE ~flagsToo
    <3>1. S = {}
      BY <2>2
    <3>2. asked' = asked
      BY <1>0, <1>1, <3>1 DEF Ask, TypeOK
    <3> QED BY <1>0, <1>5, <3>2, NoAskKeeps DEF TypeOK
  <2> QED BY <2>1, <2>2
<1>7. phase' \in {"flags", "done"}
  BY <1>1
<1>8. TypeOK'
  BY <1>0, <1>1, <1>2, <1>3, <1>6, <1>7 DEF TypeOK, hardware, heard
<1>9. UNCHANGED <<firm, mver, adjusts, again, boardFun, portV, portFun, motorV, flag,
                  slaveV, fun, noFactor, reported>>
  BY <1>1 DEF hardware, heard
<1>10. VersionsHeard' /\ SlaveKnown' /\ FunConfirmed' /\ FunCommon' /\ FlagsTrue'
  BY <1>0, <1>1, <1>4, <1>7, <1>9 DEF VersionsHeard, SlaveKnown, FunConfirmed, FunCommon, FlagsTrue
<1>11. TorqueFactorReported'
  <2>1. ASSUME phase' = "done", slaveV >= V(4, 7, 0), NEW m \in adjusts, m \notin reported
        PROVE  FALSE
    <3>1. ~flagsToo
      BY <1>1, <2>1
    <3>2. known = {}
      BY <1>1, <2>1, <3>1
    <3>3. m \in Motor /\ mver[m] >= V(4, 6, 0) /\ motorV[m] = mver[m]
      BY <1>0, <1>1, <2>1 DEF FlagsTrue
    <3> QED BY <2>1, <3>2, <3>3
  <2> QED BY <1>9, <2>1 DEF TorqueFactorReported
<1> QED BY <1>6, <1>8, <1>10, <1>11 DEF IInv

LEMMA FlagsDoneKeeps ==
  ASSUME IInv, FlagsDone
  PROVE  IInv'
<1>0. /\ TypeOK /\ VersionsHeard /\ SlaveKnown /\ FunConfirmed /\ FunCommon /\ FlagsTrue
      /\ SupportedRequests
  BY DEF IInv
<1>1. /\ phase = "flags" /\ phase' = "done" /\ reported' = reported \cup Missing
      /\ noFactor' = noFactor \cup {m \in Motor : flag[m] = "yes"}
      /\ UNCHANGED <<hardware, heard, port, t, asked, slaveV, fun, portErr>>
  BY DEF FlagsDone, LoopEnds, SetTypes
<1>2. TypeOK'
  BY <1>0, <1>1 DEF TypeOK, Missing, hardware, heard
<1>3. VersionsHeard' /\ SlaveKnown' /\ FunConfirmed' /\ FunCommon' /\ FlagsTrue'
  BY <1>0, <1>1 DEF VersionsHeard, SlaveKnown, FunConfirmed, FunCommon, FlagsTrue, hardware, heard
<1>4. SupportedRequests'
  BY <1>0, <1>1, NoAskKeeps DEF hardware
<1>5. ASSUME NEW m \in adjusts, m \notin reported'
      PROVE  m \in noFactor'
  <2>1. m \in Motor /\ motorV[m] = mver[m] /\ mver[m] >= V(4, 6, 0) /\ m \notin Missing
    BY <1>0, <1>1, <1>5 DEF FlagsTrue
  <2>2. flag[m] # "unread"
    BY <2>1 DEF Missing
  <2>3. flag[m] = "yes"
    BY <1>0, <1>5, <2>1, <2>2 DEF FlagsTrue, TypeOK
  <2> QED BY <1>1, <2>1, <2>3
<1>6. TorqueFactorReported'
  BY <1>1, <1>5 DEF TorqueFactorReported, hardware
<1> QED BY <1>2, <1>3, <1>4, <1>6 DEF IInv

LEMMA StepKeeps == IInv /\ [Next]_vars => IInv'
<1> SUFFICES ASSUME IInv, [Next]_vars PROVE IInv'
  OBVIOUS
<1>1. CASE Robot
  BY <1>1, LoopKeeps, NumDoneKeeps, PositionsDoneKeeps, VersionsDoneKeeps, FunDoneKeeps,
     FlagsDoneKeeps DEF Robot
<1>2. CASE Next /\ ~Robot
  BY <1>2, AnswersKeep DEF Next
<1>3. CASE UNCHANGED vars
  BY <1>3 DEF vars, IInv, TypeOK, VersionsHeard, SlaveKnown, FunConfirmed, FunCommon, FlagsTrue, SupportedRequests, Uniform, TorqueFactorReported
<1> QED BY <1>1, <1>2, <1>3

-----------------------------------------------------------------------------
(* The theorems.                                                           *)

LEMMA Invariance == Spec => []IInv
BY InitHolds, StepKeeps, PTL DEF Spec

\* Every variable of the negotiation keeps its type, the tries their bound.
THEOREM NegotiationTypeCorrect == Spec => []TypeOK
<1>1. IInv => TypeOK
  BY DEF IInv
<1> QED BY <1>1, Invariance, PTL

\* init_robot and error_reconnect ask boards of one firmware nothing they do not
\* know.
THEOREM RequestsAreSupported == Spec => []SupportedRequests
<1>1. IInv => SupportedRequests
  BY DEF IInv
<1> QED BY <1>1, Invariance, PTL

\* What motor_version_detection chooses is common to all motors, and a port that
\* confirmed it to set_fun_v runs it.
THEOREM FunctionIsAgreed == Spec => []FunctionAgreed
<1>1. IInv => FunctionAgreed
  BY DEF IInv, FunCommon, FunConfirmed, FunctionAgreed
<1> QED BY <1>1, Invariance, PTL

\* check_tqe_adjust_flag leaves no motor scaled twice without a message.
THEOREM TorqueFactorIsReported == Spec => []TorqueFactorReported
<1>1. IInv => TorqueFactorReported
  BY DEF IInv
<1> QED BY <1>1, Invariance, PTL

-----------------------------------------------------------------------------
(* How long the negotiation takes.                                         *)

\* The loops the robot is yet to go through, the one it is in among them: one per
\* port for the numbers and for the function version, one for the motor versions
\* and one for the flags; or one for the positions, with old firmware.
LoopsLeft ==
    CASE phase = "num"       -> (NPorts - port) + NPorts + 3
      [] phase = "positions" -> 1
      [] phase = "versions"  -> NPorts + 2
      [] phase = "fun"       -> (NPorts - port) + 2
      [] phase = "flags"     -> 1
      [] OTHER               -> 0

\* Every step of the robot ends a loop, or counts a try of the one it is in; what
\* the boards answer does neither.
EndComesNearer ==
    [][\/ Robot /\ LoopsLeft' < LoopsLeft
       \/ Robot /\ LoopsLeft' = LoopsLeft /\ t' = t + 1
       \/ UNCHANGED <<LoopsLeft, t>>]_vars

LEMMA LoopsAreCounted == TypeOK => LoopsLeft \in 0 .. (2 * NPorts + 2) /\ t \in 1 .. Tries
BY NegotiationAssumption DEF TypeOK, LoopsLeft, Port

LEMMA RobotNears ==
    ASSUME TypeOK, Robot
    PROVE  LoopsLeft' < LoopsLeft \/ (LoopsLeft' = LoopsLeft /\ t' = t + 1)
<1>0. /\ port \in 1 .. NPorts /\ NPorts \in Nat \ {0}
      /\ phase \in {"num", "positions", "versions", "fun", "flags", "done", "exit"}
  BY NegotiationAssumption DEF TypeOK, Port
<1> USE DEF LoopsLeft
<1>1. CASE AskAgain
  BY <1>1 DEF AskAgain
<1>2. CASE NumNext \/ FunNext
  BY <1>0, <1>2 DEF NumNext, FunNext, NextPort, LoopEnds
<1>3. CASE NumDone
  <2>1. phase = "num" /\ port = NPorts /\ phase' \in {"exit", "positions", "versions"}
    BY <1>3 DEF NumDone, LoopEnds
  <2> QED
    BY <1>0, <2>1
<1>4. CASE PositionsDone \/ FlagsDone
  BY <1>4 DEF PositionsDone, FlagsDone, LoopEnds
<1>5. CASE VersionsDone
  BY <1>0, <1>5 DEF VersionsDone, LoopEnds
<1>6. ASSUME NEW flagsToo \in BOOLEAN, FunDone(flagsToo)
      PROVE  LoopsLeft' < LoopsLeft
  <2>1. phase = "fun" /\ port = NPorts /\ phase' \in {"flags", "done"}
    BY <1>6 DEF FunDone, LoopEnds
  <2> QED
    BY <1>0, <2>1
<1> QED
  BY <1>1, <1>2, <1>3, <1>4, <1>5, <1>6 DEF Robot

\* However silent the boards are, the negotiation is over after at most
\* 2 * NPorts + 2 loops of Tries tries: the safety half of NegotiationEnds, whose
\* other half is that the robot goes on (while (t++ < MAX_DALAY) in each of them).
THEOREM NegotiationIsBounded ==
    Spec => [](LoopsLeft \in 0 .. (2 * NPorts + 2) /\ t \in 1 .. Tries) /\ EndComesNearer
<1>1. TypeOK /\ [Next]_vars =>
        [\/ Robot /\ LoopsLeft' < LoopsLeft
         \/ Robot /\ LoopsLeft' = LoopsLeft /\ t' = t + 1
         \/ UNCHANGED <<LoopsLeft, t>>]_vars
  <2>1. ASSUME NEW p \in Port, AnswerNum(p) \/ TakeFun(p) PROVE UNCHANGED <<LoopsLeft, t>>
    BY <2>1 DEF AnswerNum, TakeFun, Answered, LoopsLeft
  <2>2. ASSUME NEW m \in Motor, AnswerState(m) \/ AnswerVersion(m) \/ AnswerFlag(m)
        PROVE  UNCHANGED <<LoopsLeft, t>>
    BY <2>2 DEF AnswerState, AnswerVersion, AnswerFlag, Answered, LoopsLeft
  <2> QED
    BY <2>1, <2>2, RobotNears DEF Next
<1> QED
  BY <1>1, NegotiationTypeCorrect, LoopsAreCounted, PTL DEF Spec, EndComesNearer
=============================================================================
