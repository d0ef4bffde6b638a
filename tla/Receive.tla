------------------------------- MODULE Receive -------------------------------
(***************************************************************************)
(* The receive thread of a port (serial_driver::recv_1for6_42) on the      *)
(* bytes of the tty: it looks for a head, reads a header, a CRC16 and a    *)
(* payload, and dispatches what passes both checks.  A read returns short  *)
(* after a second (serial::Serial::read) and the thread goes on with what  *)
(* it has: the CRC16 and the payload are variables outside its loop and    *)
(* keep the bytes of earlier frames.  Bytes are lost when nobody reads.    *)
(*                                                                         *)
(* The checks are ideal: only bytes sent as a header pass as one, and only *)
(* the payload a CRC16 was sent with passes it.  Exceptions of the port,   *)
(* which end the thread, are in Recovery.  Names that Frames has too are   *)
(* prefixed with Rx, for Wire_proofs, which is about both.                 *)
(***************************************************************************)
EXTENDS Integers, Sequences

CONSTANTS Sendable,    \* frames of the board: [cmd, crc8, crc16, data]
          BufLen,      \* bytes of cdc_rx_message_data, 256 in the code
          Motors,      \* Map_Motors_p: the motors of the port by id
          MaxFaults    \* bound on lost bytes and reads that time out

HeadByte == 247        \* 0xF7
ByteSet == 0 .. 255
Cleared == BufLen \div 4    \* sizeof(cdc_rx_message_data) / sizeof(int)

MODE_CONF_WRITE == 2
MODE_MOTOR_STATE2 == 10
EntryLen == 2          \* an id and its values

Header(f) == <<f.cmd, Len(f.data), 0, f.crc8>>
Bytes(f)  == <<HeadByte>> \o Header(f) \o f.crc16 \o f.data

Frame == [cmd : ByteSet, crc8 : ByteSet, crc16 : ByteSet \X ByteSet, data : Seq(ByteSet)]

ASSUME SendableAssumption ==
    /\ Sendable \subseteq Frame
    /\ \A f \in Sendable : Len(f.data) \in 1 .. BufLen /\ Len(f.data) \in ByteSet
    /\ \A f, g \in Sendable : f.crc16 = g.crc16 => f.data = g.data

ASSUME BoundsAssumption == BufLen \in Nat /\ BufLen >= 4 /\ MaxFaults \in Nat

VARIABLES cur,        \* the frame the board transmits
          rest,       \* its bytes that have not been read
          stage,      \* the read the thread is in
          n,          \* bytes this read has got
          sof,        \* SOF.cmd, len and crc8, zero in every turn of the loop
          crc,        \* CRC16
          data,       \* cdc_rx_message_data
          from,       \* history: the frame its header was read from
          short,      \* history: a read behind this header timed out
          lost, stalls, \* lost bytes and reads timed out so far
          verdict,    \* what became of the frame read last
          mode_flag, motors_id, \* canport's, written through pointers
          feedback    \* motor -> its values, "none" before it was heard

io == <<cur, rest, lost, stalls>>
read == <<stage, n, sof, crc, data, from, short>>
effects == <<verdict, mode_flag, motors_id, feedback>>
rxVars == <<io, read, effects>>

Zeros(k) == [i \in 1 .. k |-> 0]
None == -1

Nothing == [cmd |-> 0, data |-> <<>>]

RxInit ==
    /\ cur \in Sendable /\ rest = Bytes(cur)
    /\ stage = "head" /\ n = 0 /\ sof = Zeros(4)
    /\ crc = Zeros(2) /\ data = Zeros(BufLen)
    /\ from = cur /\ short = FALSE /\ lost = 0 /\ stalls = 0
    /\ verdict = [is |-> "none", frame |-> Nothing]
    /\ mode_flag = 0 /\ motors_id = {}
    /\ feedback = [m \in Motors |-> None]

-----------------------------------------------------------------------------
(* The wire.                                                               *)

Transmit ==
    /\ rest = <<>>
    /\ \E f \in Sendable : cur' = f /\ rest' = Bytes(f)
    /\ UNCHANGED <<lost, stalls, read, effects>>

LoseByte ==
    /\ rest # <<>> /\ lost + stalls < MaxFaults
    /\ rest' = Tail(rest)
    /\ lost' = lost + 1
    /\ UNCHANGED <<cur, stalls, read, effects>>

\* A byte arrives for the read that is going on.
Arrives == rest # <<>> /\ rest' = Tail(rest) /\ UNCHANGED <<cur, lost, stalls>>

-----------------------------------------------------------------------------
(* The dispatch.                                                           *)

HeaderPasses(h) == \E f \in Sendable : h = Header(f)

\* Mutant of PayloadPasses: the CRC16 is not looked at.
PayloadUnchecked(c, p) == TRUE

\* Mutant of PayloadPasses: the bytes of the CRC16 are taken in the wrong order.
CrcSwapped(c, p) == \E f \in Sendable : c = <<f.crc16[2], f.crc16[1]>> /\ p = f.data

PayloadPasses(c, p) == \E f \in Sendable : c = f.crc16 /\ p = f.data

\* Mutant of Entries: an incomplete entry counts.
EntriesRoundedUp(len) == 1 .. ((len + EntryLen - 1) \div EntryLen)

\* The entries of a state frame, an incomplete one at the end left out.
Entries(len) == 1 .. (len \div EntryLen)
IdOf(d, i) == d[EntryLen * (i - 1) + 1]
ValueOf(d, i) == d[EntryLen * i]

\* fresh_data of every motor the frame names, the last entry of it last; ids of
\* other ports are passed over.
Fresh(len, d) ==
    [m \in Motors |->
        LET named == {i \in Entries(len) : IdOf(d, i) = m}
        IN IF named = {} THEN feedback[m]
           ELSE ValueOf(d, CHOOSE i \in named : \A j \in named : j <= i)]

\* The switch over SOF.cmd.
Dispatch(cmd, len, d) ==
    /\ IF cmd = MODE_CONF_WRITE
       THEN /\ mode_flag' = cmd
            /\ motors_id' = motors_id \cup {d[i] : i \in 1 .. len}
       ELSE UNCHANGED <<mode_flag, motors_id>>
    /\ feedback' = IF cmd = MODE_MOTOR_STATE2 THEN Fresh(len, d) ELSE feedback

\* The payload is read as far as it will be: check it, and use or clear it.
Judge(d) ==
    LET p == SubSeq(d, 1, sof[2])
    IN /\ IF PayloadPasses(crc, p)
          THEN /\ data' = d
               /\ verdict' = [is |-> "accepted", frame |-> [cmd |-> sof[1], data |-> p]]
               /\ Dispatch(sof[1], sof[2], d)
          ELSE /\ data' = [i \in 1 .. BufLen |-> IF i <= Cleared THEN 0 ELSE d[i]]
               /\ verdict' = [is |-> "refused", frame |-> Nothing]
               /\ UNCHANGED <<mode_flag, motors_id, feedback>>
       /\ stage' = "head"
       /\ n' = 0
       /\ UNCHANGED <<sof, crc>>

-----------------------------------------------------------------------------
(* The thread.                                                             *)

\* Mutant of IsHead: any byte begins a frame.
AnyIsHead(b) == TRUE

IsHead(b) == b = HeadByte

\* The turn of the loop: one byte, which is a head or passed over.
ReadHead ==
    /\ stage = "head" /\ Arrives
    /\ stage' = IF IsHead(Head(rest)) THEN "header" ELSE "head"
    /\ sof' = Zeros(4)
    /\ short' = FALSE
    /\ verdict' = [is |-> "none", frame |-> Nothing]
    /\ n' = 0
    /\ UNCHANGED <<crc, data, from, mode_flag, motors_id, feedback>>

\* The end of the read of the header, complete or not.
HeaderRead(h) ==
    /\ sof' = h
    /\ n' = 0
    /\ stage' = IF HeaderPasses(h) THEN "crc16" ELSE "head"

ReadHeader ==
    LET h == [sof EXCEPT ![n + 1] = Head(rest)]
    IN /\ stage = "header" /\ Arrives
       /\ IF n + 1 = 4 THEN HeaderRead(h) ELSE sof' = h /\ n' = n + 1 /\ UNCHANGED stage
       /\ from' = IF n = 0 THEN cur ELSE from
       /\ UNCHANGED <<crc, data, short, effects>>

ReadCrc16 ==
    /\ stage = "crc16" /\ Arrives
    /\ crc' = [crc EXCEPT ![n + 1] = Head(rest)]
    /\ n' = (n + 1) % 2
    /\ stage' = IF n + 1 = 2 THEN "payload" ELSE "crc16"
    /\ UNCHANGED <<sof, data, from, short, effects>>

ReadPayload ==
    LET d == [data EXCEPT ![n + 1] = Head(rest)]
    IN /\ stage = "payload" /\ Arrives
       /\ IF n + 1 = sof[2] THEN Judge(d)
          ELSE data' = d /\ n' = n + 1 /\ UNCHANGED <<stage, sof, crc, effects>>
       /\ UNCHANGED <<from, short>>

\* A second without the bytes asked for: the read returns what it has.  (A read
\* of a head that does returns nothing, and the loop turns.)
TimeOut ==
    /\ lost + stalls < MaxFaults /\ stalls' = stalls + 1
    /\ \/ /\ stage = "header"
          /\ HeaderRead(sof)
          /\ UNCHANGED <<crc, data, short, effects>>
       \/ /\ stage = "crc16"
          /\ stage' = "payload" /\ n' = 0 /\ short' = TRUE
          /\ UNCHANGED <<sof, crc, data, effects>>
       \/ /\ stage = "payload"
          /\ Judge(data) /\ short' = TRUE
    /\ UNCHANGED <<cur, rest, from, lost>>

Step == ReadHead \/ ReadHeader \/ ReadCrc16 \/ ReadPayload

RxNext == Transmit \/ LoseByte \/ Step \/ TimeOut

RxSpec == RxInit /\ [][RxNext]_rxVars

\* The motors are polled, so the board keeps answering, and the thread runs.
FairSpec == RxSpec /\ WF_rxVars(Transmit) /\ WF_rxVars(Step)

-----------------------------------------------------------------------------
\* The type of the thread's variables; no payload is longer than the buffer.
RxTypeOK ==
    /\ {cur, from} \subseteq Sendable /\ rest \in Seq(ByteSet)
    /\ stage \in {"head", "header", "crc16", "payload"}
    /\ n \in 0 .. BufLen
    /\ sof \in Seq(ByteSet) /\ Len(sof) = 4
    /\ crc \in Seq(ByteSet) /\ Len(crc) = 2
    /\ data \in Seq(ByteSet) /\ Len(data) = BufLen
    /\ short \in BOOLEAN /\ {lost, stalls} \subseteq 0 .. MaxFaults
    /\ verdict.is \in {"none", "accepted", "refused"}
    /\ mode_flag \in {0, MODE_CONF_WRITE} /\ motors_id \subseteq ByteSet
    /\ feedback \in [Motors -> ByteSet \cup {None}]

\* Whatever bytes were lost before or inside it, a frame that is dispatched is
\* the one whose header was read, command and payload, unless a read behind its
\* header timed out (serial_driver.cpp:59-63).  Six lost bytes could
\* join the header of one frame and the rest of another.
AcceptedAsSent ==
    verdict.is = "accepted" /\ ~short =>
        verdict.frame = [cmd |-> from.cmd, data |-> from.data]

\* The values a frame of the board has for a motor, and the ids it confirms.
Reported(m) ==
    UNION {{ValueOf(f.data, i) :
               i \in {j \in 1 .. BufLen : EntryLen * j <= Len(f.data) /\ IdOf(f.data, j) = m}} :
              f \in {g \in Sendable : g.cmd = MODE_MOTOR_STATE2}}
Confirmed ==
    UNION {{f.data[i] : i \in 1 .. Len(f.data)} :
              f \in {g \in Sendable : g.cmd = MODE_CONF_WRITE}}

FeedbackAsSent == \A m \in Motors : feedback[m] \in Reported(m) \cup {None}
IdsAsSent == motors_id \subseteq Confirmed

\* As long as no read has timed out, what a motor is taken to be doing is what
\* the board once said of that motor, and no motor counts as saved that no answer
\* named, whatever was lost and left in the buffer (serial_driver.cpp:76-135).
EffectsAsSent == stalls = 0 => FeedbackAsSent /\ IdsAsSent

\* As long as no byte is lost and no read times out, every frame of the board is
\* dispatched as it was sent when its last byte is read, whatever heads its
\* payload holds: nothing is skipped or refused (serial_driver.cpp:55-69).
EveryFrameIsTaken ==
    lost = 0 /\ stalls = 0 /\ rest = <<>> =>
        verdict = [is |-> "accepted", frame |-> [cmd |-> cur.cmd, data |-> cur.data]]

\* No bytes but a header of the board pass as one when a read begins at another
\* head, in a payload or across the end of a frame.
NoFalseHeader ==
    \A f, g \in Sendable : \A i \in 2 .. Len(Bytes(f)) :
        LET s == Bytes(f) \o Bytes(g) IN s[i] = HeadByte => ~HeaderPasses(SubSeq(s, i + 1, i + 4))

\* A read that begins at a head inside this frame ends inside it.
Findable(f) == \A i \in (Len(Bytes(f)) - 3) .. Len(Bytes(f)) : Bytes(f)[i] # HeadByte

\* Once no more bytes are lost the thread finds the frames again, if the board
\* sends one without a head in its last four bytes again and again.  While all
\* its frames have one there, as those of a motor at rest may, each read of a
\* false header can eat the head of the next frame for good (serial_driver.cpp:55-60).
FindsFramesAgain ==
    NoFalseHeader /\ []<>(rest = <<>> /\ Findable(cur)) => []<>(verdict.is = "accepted")
=============================================================================
