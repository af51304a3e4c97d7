---------------------------- MODULE PipeLinkProofs ----------------------------
(***************************************************************************)
(* What the run pipe_link checks of the component and its PIPE client, for *)
(* frames, numbers, windows, cadences and queues of any size, and for any  *)
(* number of local aborts and updates: no chunk is misplaced, SACKs are    *)
(* true, the END ACK comes last.                                           *)
(***************************************************************************)
EXTENDS PipeLink, EntitiesProofs

------------------------------------------------------------------------------
(* Sequence numbers that wrap. *)

LEMMA OnlyMultiple ==
    ASSUME NEW k \in Int, SeqMod * k < SeqMod, -SeqMod < SeqMod * k
    PROVE  k = 0
  <1>1. CASE k >= 1
    <2>1. SeqMod * k >= SeqMod
      BY <1>1, EngineAssumption
    <2>2. QED
      BY <2>1, EngineAssumption
  <1>2. CASE k <= -1
    <2>1. SeqMod * k <= -SeqMod
      BY <1>2, EngineAssumption
    <2>2. QED
      BY <2>1, EngineAssumption
  <1>3. QED
    BY <1>1, <1>2

LEMMA DivisionWithRest ==
    ASSUME NEW a \in Nat
    PROVE  /\ a \div SeqMod \in Nat /\ a % SeqMod \in 0 .. SeqMod - 1
           /\ a = SeqMod * (a \div SeqMod) + (a % SeqMod)
  BY EngineAssumption

LEMMA NearNumbersDiffer ==
    ASSUME NEW a \in Nat, NEW b \in Nat, a % SeqMod = b % SeqMod,
           a < b + SeqMod, b < a + SeqMod
    PROVE  a = b
  <1> DEFINE p == a \div SeqMod
             q == b \div SeqMod
  <1>1. /\ p \in Nat /\ q \in Nat
        /\ a = SeqMod * p + (a % SeqMod) /\ b = SeqMod * q + (b % SeqMod)
        /\ a % SeqMod \in Int
    BY DivisionWithRest
  <1> HIDE DEF p, q
  <1>2. a - b = SeqMod * p - SeqMod * q
    BY <1>1, EngineAssumption
  <1>3. SeqMod * p - SeqMod * q = SeqMod * (p - q)
    BY <1>1, EngineAssumption
  <1>4. p - q = 0
    BY <1>1, <1>2, <1>3, OnlyMultiple, EngineAssumption
  <1>5. QED
    BY <1>1, <1>4

LEMMA NumberZero == 0 % SeqMod = 0
  BY EngineAssumption

LEMMA RestIsUnique ==
    ASSUME NEW a \in Nat, NEW k \in Int, NEW d \in 0 .. SeqMod - 1, a = SeqMod * k + d
    PROVE  a % SeqMod = d
  <1> DEFINE p == a \div SeqMod
             e == a % SeqMod
  <1>1. p \in Nat /\ e \in 0 .. SeqMod - 1 /\ a = SeqMod * p + e
    BY DivisionWithRest
  <1> HIDE DEF p, e
  <1>2. SeqMod * p - SeqMod * k = d - e
    BY <1>1, EngineAssumption
  <1>3. SeqMod * p - SeqMod * k = SeqMod * (p - k)
    BY <1>1, EngineAssumption
  <1>4. p - k = 0
    BY <1>1, <1>2, <1>3, OnlyMultiple, EngineAssumption
  <1>5. SeqMod * (p - k) = 0
    BY <1>4, EngineAssumption
  <1>6. e = d
    BY <1>1, <1>2, <1>3, <1>5, EngineAssumption
  <1>7. QED
    BY <1>6 DEF e

LEMMA NextNumber == ASSUME NEW a \in Nat PROVE ((a % SeqMod) + 1) % SeqMod = (a + 1) % SeqMod
  <1> DEFINE p == a \div SeqMod
             e == a % SeqMod
  <1>1. p \in Nat /\ e \in 0 .. SeqMod - 1 /\ a = SeqMod * p + e
    BY DivisionWithRest
  <1> HIDE DEF p, e
  <1>2. CASE e + 1 < SeqMod
    <2>1. a + 1 = SeqMod * p + (e + 1) /\ e + 1 = SeqMod * 0 + (e + 1)
      BY <1>1, EngineAssumption
    <2>2. (a + 1) % SeqMod = e + 1 /\ (e + 1) % SeqMod = e + 1
      BY <1>1, <1>2, <2>1, RestIsUnique, EngineAssumption
    <2>3. QED
      BY <2>2 DEF e
  <1>3. CASE e + 1 = SeqMod
    <2>1. a + 1 = SeqMod * (p + 1) + 0 /\ e + 1 = SeqMod * 1 + 0
      BY <1>1, <1>3, EngineAssumption
    <2>2. (a + 1) % SeqMod = 0 /\ (e + 1) % SeqMod = 0
      BY <1>1, <1>3, <2>1, RestIsUnique, EngineAssumption
    <2>3. QED
      BY <2>2 DEF e
  <1>4. QED
    BY <1>1, <1>2, <1>3, EngineAssumption

LEMMA RelativeNumber ==
    ASSUME NEW a \in Nat, NEW b \in Nat, NEW d \in 0 .. SeqMod - 1,
           a = b + d \/ a = b + d - SeqMod
    PROVE  ((a % SeqMod) + SeqMod - (b % SeqMod)) % SeqMod = d
  <1> DEFINE p == a \div SeqMod
             e == a % SeqMod
             q == b \div SeqMod
             f == b % SeqMod
  <1>1. /\ p \in Nat /\ e \in 0 .. SeqMod - 1 /\ a = SeqMod * p + e
        /\ q \in Nat /\ f \in 0 .. SeqMod - 1 /\ b = SeqMod * q + f
    BY DivisionWithRest
  <1> HIDE DEF p, e, q, f
  <1>2. e + SeqMod - f \in Nat
    BY <1>1, EngineAssumption
  <1>3. CASE a = b + d
    <2>1. e + SeqMod - f = SeqMod * q - SeqMod * p + SeqMod + d
      BY <1>1, <1>3, EngineAssumption
    <2>2. SeqMod * q - SeqMod * p + SeqMod = SeqMod * (q - p + 1)
      BY <1>1, EngineAssumption
    <2>3. QED
      BY <1>1, <1>2, <2>1, <2>2, RestIsUnique DEF e, f
  <1>4. CASE a = b + d - SeqMod
    <2>1. e + SeqMod - f = SeqMod * q - SeqMod * p + d
      BY <1>1, <1>4, EngineAssumption
    <2>2. SeqMod * q - SeqMod * p = SeqMod * (q - p)
      BY <1>1, EngineAssumption
    <2>3. QED
      BY <1>1, <1>2, <2>1, <2>2, RestIsUnique DEF e, f
  <1>5. QED
    BY <1>3, <1>4
------------------------------------------------------------------------------
(* The inductive invariant. *)

(* The answers on their way to the client, in the order it will hear them in. *)
Pending == air \o tx

Packet(c) == [session |-> session, command |-> c]
Setup == {"off", "config", "msd", "start"}
Transfer == Phases \ Setup

QueueTypes ==
    /\ tx \in Seq(AnyFrame) /\ Len(tx) < TxSlots
    /\ air \in Seq(AnyFrame)

ClientTypes ==
    /\ phase \in Phases
    /\ window \in 0 .. MaxWindow
    /\ unsent \in 0 .. FullFrameBytes
    /\ resends \in 0 .. MaxResends
    /\ blob \subseteq 0 .. ConfigBlobLength - 1

(* One connection, whose packets are all in the ring under its own number. *)
ConnectionInv ==
    /\ ~connected \/ linking # "no" => phase = "off"
    /\ \A i \in 1 .. Len(rx) : rx[i].session = session

(* Before the transfer the client waits for one answer at a time. *)
ConfigFresh(frames, read) ==
    \A i \in 1 .. Len(frames) :
        /\ frames[i].kind = "CONFIG"
        /\ frames[i].bytes # {} /\ frames[i].bytes \subseteq 0 .. ConfigBlobLength - 1
        /\ frames[i].bytes \cap read = {}
        /\ \A j \in 1 .. Len(frames) : i # j => frames[i].bytes \cap frames[j].bytes = {}

ReadingConfig ==
    \/ rx = <<Packet([op |-> "CONFIG_READ"])>> /\ Pending = <<>> /\ blob = {}
    \/ rx = <<>> /\ Pending = <<Nack("CONFIG_READ")>>
    \/ rx = <<>> /\ ConfigFresh(Pending, blob)

ReadingMsd ==
    \/ rx = <<Packet([op |-> "READ_MSD"])>> /\ Pending = <<>>
    \/ rx = <<>> /\ \E status \in MsdStatuses : Pending = <<MsdFrame(status)>>

Starting ==
    \/ /\ \E request \in PipeRequests :
             rx = <<Packet([op |-> "PIPE_START", request |-> request])>>
       /\ Pending = <<>> /\ txn.state = "IDLE"
    \/ /\ rx = <<>> /\ txn.state # "REFRESHING"
       /\ \/ Pending = <<Nack("PIPE_START")>>
          \/ \E granted \in 1 .. MaxWindow, every \in 1 .. MaxAckEvery :
                Pending = <<StartAck(granted, every)>>

SetupInv ==
    /\ phase \in Setup => unsent = 0 /\ acked = {} /\ loaded = {}
    /\ phase \in {"off", "config", "msd"} => txn.state = "IDLE"
    /\ phase = "off" => rx = <<>> /\ Pending = <<>> /\ blob = {}
    /\ phase = "config" => ReadingConfig
    /\ phase = "msd" => ReadingMsd
    /\ phase = "start" => Starting

(* The engine has counted what it accepted, chunk by chunk. *)
PipeInv ==
    /\ txn.state # "IDLE" => txn.mode = "PIPE"
    /\ txn.state = "RECEIVING" =>
          /\ ~txn.pipe_fatal
          /\ txn.next_pipe_sequence = txn.accepted_bytes % SeqMod
          /\ txn.accepted_packets = Lesser(txn.accepted_bytes, AckMaskBits + 1)
          /\ txn.accepted_bytes > 0 => txn.highest_seen = (txn.accepted_bytes - 1) % SeqMod

(* The chunks in the ring: each was sent, and whatever was accepted, or will be   *)
(* before it, is less than a window ahead of it. Chunk 0 comes first.             *)
Number(packet) == packet.command.chunk

InFlight ==
    /\ \A i \in 1 .. Len(rx) :
          /\ Number(rx[i]) \in 0 .. unsent - 1
          /\ rx[i].command = Chunk(Number(rx[i]))
          /\ \A n \in loaded : n < Number(rx[i]) + MaxWindow
    /\ \A i, j \in 1 .. Len(rx) : i < j => Number(rx[i]) < Number(rx[j]) + MaxWindow
    /\ txn.state = "RECEIVING" /\ loaded = {} /\ unsent > 0 => rx # <<>> /\ Number(rx[1]) = 0

(* What the client knows: the chunks up to the first that is open, all of them    *)
(* received, and it has sent no more than a window behind that one.               *)
WindowInv ==
    /\ acked \subseteq loaded /\ loaded \subseteq 0 .. unsent - 1
    /\ \E base \in 0 .. FullFrameBytes : acked = 0 .. base - 1 /\ unsent <= base + MaxWindow
    /\ phase \in {"refreshing", "shown", "timeout"} => acked = Chunks

(* The answers on their way: `counts' tells for each SACK how many chunks had been *)
(* accepted when it was sent. What was received since, and what the client         *)
(* believes already, are the chunks `received' and `believed'.                     *)
IsSack(frame) == frame.kind = "SACK"

TrueSack(frame, count, received, believed) ==
    /\ count > 0 /\ 0 .. count - 1 \subseteq received /\ believed \subseteq 0 .. count - 1
    /\ frame.highest = (count - 1) % SeqMod
    /\ frame.mask = InorderAckMask(count)

SackAfter(count) == Sack((count - 1) % SeqMod, InorderAckMask(count))

EndHeardLast(frames, i, counts, believed) ==
    \/ believed = Chunks
    \/ \E j \in 1 .. i - 1 : IsSack(frames[j]) /\ counts[j] = FullFrameBytes

Counted(frames, counts, received, believed) ==
    /\ \A i \in 1 .. Len(frames) :
          IsSack(frames[i]) => TrueSack(frames[i], counts[i], received, believed)
    /\ \A i, j \in 1 .. Len(frames) :
          i < j /\ IsSack(frames[i]) /\ IsSack(frames[j]) => counts[i] <= counts[j]
    /\ \A i \in 1 .. Len(frames) :
          frames[i] = Ack("PIPE_END") => EndHeardLast(frames, i, counts, believed)

TransferFrame(frame) ==
    \/ frame.kind \in {"SACK", "PIPE_NACK", "NACK"}
    \/ frame \in {Ack("PIPE_END"), RefreshSuccess, RefreshTimeout}

Answered(frames, received, believed) ==
    /\ \A i \in 1 .. Len(frames) : TransferFrame(frames[i])
    /\ \E counts \in [1 .. Len(frames) -> Nat] : Counted(frames, counts, received, believed)

TransferInv ==
    phase \in Transfer => InFlight /\ WindowInv /\ Answered(Pending, loaded, acked)

LocalTypes == locals \in 0 .. MaxLocals /\ silenced \in BOOLEAN

LinkIInv ==
    /\ IInv /\ LinkInv /\ LoopInv /\ QueueTypes
    /\ EntityIInv /\ ClientTypes /\ LocalTypes
    /\ ConnectionInv /\ SetupInv /\ PipeInv /\ TransferInv

------------------------------------------------------------------------------
(* Answers that are queued, and heard. *)

LEMMA AnsweredMore ==
    ASSUME NEW frames, NEW received, NEW later, NEW believed, received \subseteq later,
           Answered(frames, received, believed)
    PROVE  Answered(frames, later, believed)
  BY DEF Answered, Counted, TrueSack

(* One more answer, a SACK only with a count that is true and no less than before. *)
LEMMA CountedAppend ==
    ASSUME NEW frames \in Seq(AnyFrame), NEW frame \in AnyFrame,
           NEW received, NEW believed, NEW counts \in [1 .. Len(frames) -> Nat], NEW count \in Nat,
           Counted(frames, counts, received, believed),
           IsSack(frame) => TrueSack(frame, count, received, believed),
           IsSack(frame) => \A i \in 1 .. Len(frames) : IsSack(frames[i]) => counts[i] <= count,
           frame = Ack("PIPE_END") =>
              \/ believed = Chunks
              \/ \E j \in 1 .. Len(frames) : IsSack(frames[j]) /\ counts[j] = FullFrameBytes
    PROVE  \E more \in [1 .. Len(Append(frames, frame)) -> Nat] :
              /\ Counted(Append(frames, frame), more, received, believed)
              /\ more[Len(frames) + 1] = count
  <1> DEFINE n == Len(frames)
             longer == Append(frames, frame)
             more == [i \in 1 .. n + 1 |-> IF i <= n THEN counts[i] ELSE count]
  <1>1. /\ n \in Nat /\ Len(longer) = n + 1
        /\ \A i \in 1 .. n : longer[i] = frames[i]
        /\ longer[n + 1] = frame
    BY AppendProperties, LenProperties
  <1>2. /\ more \in [1 .. n + 1 -> Nat]
        /\ \A i \in 1 .. n : more[i] = counts[i]
        /\ more[n + 1] = count
    BY <1>1
  <1>3. \A i \in 1 .. n + 1 : i \in 1 .. n \/ i = n + 1
    BY <1>1
  <1> HIDE DEF n, longer, more
  <1>4. \A i \in 1 .. n + 1 : IsSack(longer[i]) => TrueSack(longer[i], more[i], received, believed)
    BY <1>1, <1>2, <1>3 DEF Counted, n
  <1>5. \A i, j \in 1 .. n + 1 :
           i < j /\ IsSack(longer[i]) /\ IsSack(longer[j]) => more[i] <= more[j]
    BY <1>1, <1>2, <1>3 DEF Counted, n
  <1>6. ASSUME NEW i \in 1 .. n + 1, longer[i] = Ack("PIPE_END")
        PROVE  EndHeardLast(longer, i, more, believed)
    <2>1. CASE i \in 1 .. n
      <3>1. EndHeardLast(frames, i, counts, believed)
        BY <1>1, <1>6, <2>1 DEF Counted, n
      <3>2. \A j \in 1 .. i - 1 : j \in 1 .. n
        BY <1>1, <2>1
      <3>3. QED
        BY <1>1, <1>2, <3>1, <3>2 DEF EndHeardLast
    <2>2. CASE i = n + 1
      BY <1>1, <1>2, <1>6, <2>2 DEF EndHeardLast, n
    <2>3. QED
      BY <1>3, <2>1, <2>2
  <1>7. Counted(longer, more, received, believed)
    BY <1>1, <1>4, <1>5, <1>6 DEF Counted
  <1>8. more \in [1 .. Len(longer) -> Nat]
    BY <1>1, <1>2
  <1>9. QED
    BY <1>2, <1>7, <1>8 DEF n, longer

LEMMA TransferAppend ==
    ASSUME NEW frames \in Seq(AnyFrame), NEW frame \in AnyFrame,
           \A i \in 1 .. Len(frames) : TransferFrame(frames[i]), TransferFrame(frame)
    PROVE  \A i \in 1 .. Len(Append(frames, frame)) : TransferFrame(Append(frames, frame)[i])
  BY AppendProperties, LenProperties

LEMMA AnsweredOther ==
    ASSUME NEW frames \in Seq(AnyFrame), NEW frame \in AnyFrame, NEW received, NEW believed,
           Answered(frames, received, believed),
           TransferFrame(frame), ~IsSack(frame), frame # Ack("PIPE_END")
    PROVE  Answered(Append(frames, frame), received, believed)
  <1>1. PICK counts \in [1 .. Len(frames) -> Nat] : Counted(frames, counts, received, believed)
    BY DEF Answered
  <1>2. \E more \in [1 .. Len(Append(frames, frame)) -> Nat] :
            Counted(Append(frames, frame), more, received, believed)
    BY <1>1, CountedAppend
  <1>3. QED
    BY <1>2, TransferAppend DEF Answered

LEMMA SackIsTrue ==
    ASSUME NEW count \in Nat \ {0}, NEW received, 0 .. count - 1 \subseteq received,
           NEW believed, believed \subseteq 0 .. count - 1
    PROVE  LET frame == SackAfter(count)
           IN  /\ frame \in AnyFrame /\ TransferFrame(frame) /\ IsSack(frame)
               /\ TrueSack(frame, count, received, believed)
  <1>1. (count - 1) % SeqMod \in Seqs
    BY EngineAssumption DEF Seqs
  <1>2. Sack((count - 1) % SeqMod, InorderAckMask(count)) \in Frames
    BY <1>1, FrameTypes
  <1>3. QED
    BY <1>2 DEF AnyFrame, SackAfter, Sack, TransferFrame, IsSack, TrueSack

(* A SACK of all that was accepted, and the ACK that ends a whole frame behind it. *)
LEMMA AnsweredSack ==
    ASSUME NEW frames \in Seq(AnyFrame), NEW count \in Nat \ {0},
           NEW believed, believed \subseteq 0 .. count - 1,
           Answered(frames, 0 .. count - 1, believed)
    PROVE  LET sacked == Append(frames, SackAfter(count))
           IN  /\ sacked \in Seq(AnyFrame)
               /\ Answered(sacked, 0 .. count - 1, believed)
               /\ count = FullFrameBytes =>
                     Answered(Append(sacked, Ack("PIPE_END")), 0 .. count - 1, believed)
  <1> DEFINE frame == SackAfter(count)
             received == 0 .. count - 1
             sacked == Append(frames, frame)
  <1>1. /\ frame \in AnyFrame /\ TransferFrame(frame) /\ IsSack(frame)
        /\ TrueSack(frame, count, received, believed)
    BY SackIsTrue
  <1>2. /\ Answered(frames, received, believed)
        /\ \A n \in Nat : 0 .. n - 1 \subseteq received => n <= count
    OBVIOUS
  <1> HIDE DEF frame, received
  <1>3. PICK counts \in [1 .. Len(frames) -> Nat] : Counted(frames, counts, received, believed)
    BY <1>2 DEF Answered
  <1>4. \A i \in 1 .. Len(frames) : IsSack(frames[i]) => counts[i] <= count
    BY <1>2, <1>3 DEF Counted, TrueSack
  <1>5. frame # Ack("PIPE_END")
    BY <1>1 DEF IsSack, Ack
  <1>6. PICK more \in [1 .. Len(sacked) -> Nat] :
            Counted(sacked, more, received, believed) /\ more[Len(frames) + 1] = count
    BY <1>1, <1>3, <1>4, <1>5, CountedAppend
  <1>7. /\ sacked \in Seq(AnyFrame) /\ Len(sacked) = Len(frames) + 1 /\ Len(frames) \in Nat
        /\ sacked[Len(frames) + 1] = frame
    BY <1>1, AppendProperties, LenProperties
  <1>8. \A i \in 1 .. Len(sacked) : TransferFrame(sacked[i])
    BY <1>1, <1>2, TransferAppend DEF Answered
  <1>9. Answered(sacked, received, believed)
    BY <1>6, <1>8 DEF Answered
  <1> HIDE DEF sacked
  <1>10. ASSUME count = FullFrameBytes
         PROVE  Answered(Append(sacked, Ack("PIPE_END")), received, believed)
    <2>1. /\ Ack("PIPE_END") \in AnyFrame /\ TransferFrame(Ack("PIPE_END"))
          /\ ~IsSack(Ack("PIPE_END"))
      <3>1. Ack("PIPE_END") \in Frames
        BY FrameTypes DEF Opcodes
      <3>2. QED
        BY <3>1 DEF AnyFrame, TransferFrame, IsSack, Ack
    <2>2. \E j \in 1 .. Len(sacked) : IsSack(sacked[j]) /\ more[j] = FullFrameBytes
      <3>1. Len(frames) + 1 \in 1 .. Len(sacked)
        BY <1>7
      <3>2. QED
        BY <1>1, <1>6, <1>7, <1>10, <3>1
    <2>3. \E counts2 \in [1 .. Len(Append(sacked, Ack("PIPE_END"))) -> Nat] :
              Counted(Append(sacked, Ack("PIPE_END")), counts2, received, believed)
      BY <1>6, <1>7, <2>1, <2>2, CountedAppend
    <2>4. QED
      BY <1>7, <1>8, <2>1, <2>3, TransferAppend DEF Answered
  <1>11. QED
    BY <1>7, <1>9, <1>10 DEF frame, received, sacked

(* One answer is heard: a SACK makes the client believe all that it counts. *)
LEMMA CountedTail ==
    ASSUME NEW frames \in Seq(AnyFrame), frames # <<>>, NEW received, received \subseteq Chunks,
           NEW believed, NEW counts \in [1 .. Len(frames) -> Nat],
           Counted(frames, counts, received, believed), NEW after,
           after = IF IsSack(frames[1]) THEN 0 .. counts[1] - 1 ELSE believed
    PROVE  \E fewer \in [1 .. Len(Tail(frames)) -> Nat] :
               Counted(Tail(frames), fewer, received, after)
  <1> DEFINE n == Len(Tail(frames))
             rest == Tail(frames)
             fewer == [i \in 1 .. n |-> counts[i + 1]]
  <1>1. /\ n \in Nat /\ Len(frames) = n + 1
        /\ \A i \in 1 .. n : rest[i] = frames[i + 1]
    BY HeadTailProperties, LenProperties
  <1>2. /\ fewer \in [1 .. n -> Nat]
        /\ \A i \in 1 .. n : fewer[i] = counts[i + 1]
    BY <1>1
  <1>3. /\ 1 \in 1 .. Len(frames) /\ \A i \in 1 .. n : i + 1 \in 1 .. Len(frames)
        /\ counts[1] \in Nat
    BY <1>1
  <1> HIDE DEF n, rest, fewer
  <1>4. \A i \in 1 .. n :
           IsSack(rest[i]) => TrueSack(rest[i], fewer[i], received, believed)
    BY <1>1, <1>2, <1>3 DEF Counted
  <1>5. \A i \in 1 .. n : IsSack(rest[i]) => after \subseteq 0 .. fewer[i] - 1
    <2>1. SUFFICES ASSUME NEW i \in 1 .. n, IsSack(rest[i])
                   PROVE  after \subseteq 0 .. fewer[i] - 1
      OBVIOUS
    <2>2. CASE ~IsSack(frames[1])
      BY <1>4, <2>1, <2>2 DEF TrueSack
    <2>3. CASE IsSack(frames[1])
      <3>1. counts[1] <= counts[i + 1]
        BY <1>1, <1>3, <2>1, <2>3 DEF Counted
      <3>2. QED
        BY <1>2, <1>3, <2>3, <3>1
    <2>4. QED
      BY <2>2, <2>3
  <1>6. \A i, j \in 1 .. n :
           i < j /\ IsSack(rest[i]) /\ IsSack(rest[j]) => fewer[i] <= fewer[j]
    <2>1. \A i, j \in 1 .. n : i < j => i + 1 < j + 1
      BY <1>1
    <2>2. QED
      BY <1>1, <1>2, <1>3, <2>1 DEF Counted
  <1>7. ASSUME NEW i \in 1 .. n, rest[i] = Ack("PIPE_END")
        PROVE  EndHeardLast(rest, i, fewer, after)
    <2>1. EndHeardLast(frames, i + 1, counts, believed)
      BY <1>1, <1>3, <1>7 DEF Counted
    <2>2. CASE believed = Chunks \/ (IsSack(frames[1]) /\ counts[1] = FullFrameBytes)
      <3>1. CASE ~IsSack(frames[1])
        BY <2>2, <3>1 DEF EndHeardLast
      <3>2. CASE IsSack(frames[1])
        <4>1. /\ 0 .. counts[1] - 1 \subseteq Chunks /\ believed \subseteq 0 .. counts[1] - 1
          BY <1>3, <3>2 DEF Counted, TrueSack
        <4>2. after = Chunks
          BY <2>2, <3>2, <4>1 DEF Chunks, FrameOffsets
        <4>3. QED
          BY <4>2 DEF EndHeardLast
      <3>3. QED
        BY <3>1, <3>2
    <2>3. ASSUME NEW j \in 1 .. i, IsSack(frames[j]), counts[j] = FullFrameBytes, j # 1
          PROVE  EndHeardLast(rest, i, fewer, after)
      <3>1. j - 1 \in 1 .. i - 1 /\ j - 1 \in 1 .. n /\ (j - 1) + 1 = j
        BY <1>1, <2>3
      <3>2. IsSack(rest[j - 1]) /\ fewer[j - 1] = FullFrameBytes
        BY <1>1, <1>2, <2>3, <3>1
      <3>3. QED
        BY <3>1, <3>2 DEF EndHeardLast
    <2>4. (i + 1) - 1 = i
      BY <1>1
    <2>5. QED
      BY <2>1, <2>2, <2>3, <2>4 DEF EndHeardLast
  <1>8. Counted(rest, fewer, received, after)
    BY <1>4, <1>5, <1>6, <1>7 DEF Counted, TrueSack, n, rest
  <1>9. QED
    BY <1>2, <1>8 DEF n, rest

LEMMA OtherHeard ==
    ASSUME NEW frames \in Seq(AnyFrame), frames # <<>>, NEW received, received \subseteq Chunks,
           NEW believed, Answered(frames, received, believed), ~IsSack(frames[1])
    PROVE  /\ Answered(Tail(frames), received, believed)
           /\ frames[1] = Ack("PIPE_END") => believed = Chunks
  <1>1. PICK counts \in [1 .. Len(frames) -> Nat] : Counted(frames, counts, received, believed)
    BY DEF Answered
  <1>2. /\ 1 \in 1 .. Len(frames)
        /\ \A i \in 1 .. Len(Tail(frames)) :
              Tail(frames)[i] = frames[i + 1] /\ i + 1 \in 1 .. Len(frames)
    BY HeadTailProperties, LenProperties
  <1>3. frames[1] = Ack("PIPE_END") => EndHeardLast(frames, 1, counts, believed)
    BY <1>1, <1>2 DEF Counted
  <1>4. frames[1] = Ack("PIPE_END") => believed = Chunks
    BY <1>3 DEF EndHeardLast
  <1>5. \E fewer \in [1 .. Len(Tail(frames)) -> Nat] :
            Counted(Tail(frames), fewer, received, believed)
    BY <1>1, CountedTail
  <1>6. QED
    BY <1>2, <1>4, <1>5 DEF Answered

LEMMA SackHeard ==
    ASSUME NEW frames \in Seq(AnyFrame), frames # <<>>, NEW received, received \subseteq Chunks,
           NEW believed, Answered(frames, received, believed), IsSack(frames[1])
    PROVE  \E count \in Nat \ {0} :
              /\ TrueSack(frames[1], count, received, believed)
              /\ Answered(Tail(frames), received, 0 .. count - 1)
  <1>1. PICK counts \in [1 .. Len(frames) -> Nat] : Counted(frames, counts, received, believed)
    BY DEF Answered
  <1>2. /\ 1 \in 1 .. Len(frames)
        /\ \A i \in 1 .. Len(Tail(frames)) :
              Tail(frames)[i] = frames[i + 1] /\ i + 1 \in 1 .. Len(frames)
    BY HeadTailProperties, LenProperties
  <1>3. TrueSack(frames[1], counts[1], received, believed) /\ counts[1] \in Nat \ {0}
    BY <1>1, <1>2 DEF Counted, TrueSack
  <1>4. \E fewer \in [1 .. Len(Tail(frames)) -> Nat] :
            Counted(Tail(frames), fewer, received, 0 .. counts[1] - 1)
    BY <1>1, CountedTail
  <1>5. Answered(Tail(frames), received, 0 .. counts[1] - 1)
    BY <1>2, <1>4 DEF Answered
  <1>6. QED
    BY <1>3, <1>5

------------------------------------------------------------------------------
(* What the client makes of a SACK. *)

LEMMA BaseIsFirstOpen ==
    ASSUME NEW base \in 0 .. FullFrameBytes, acked = 0 .. base - 1
    PROVE  Base = base
  <1>1. base \notin acked /\ \A k \in 0 .. base - 1 : k \in acked
    BY BackendAssumption
  <1>2. ASSUME NEW n \in 0 .. FullFrameBytes, n \notin acked, \A k \in 0 .. n - 1 : k \in acked
        PROVE  n = base
    <2>1. CASE n < base
      BY <1>2, <2>1, BackendAssumption
    <2>2. CASE base < n
      <3>1. base \in 0 .. n - 1
        BY <2>2, BackendAssumption
      <3>2. QED
        BY <1>1, <1>2, <3>1
    <2>3. QED
      BY <2>1, <2>2, BackendAssumption
  <1>3. QED
    BY <1>1, <1>2 DEF Base

(* It believes exactly the chunks that the SACK counts, whether the SACK is news or  *)
(* names none but chunks the client knows of.                                       *)
LEMMA SackBelieved ==
    ASSUME NEW base \in 0 .. FullFrameBytes, acked = 0 .. base - 1,
           unsent \in Nat, unsent <= base + MaxWindow,
           NEW count \in Nat \ {0}, count <= unsent, acked \subseteq 0 .. count - 1,
           NEW frame, frame.highest = (count - 1) % SeqMod, frame.mask = InorderAckMask(count)
    PROVE  acked \cup Named(frame) = 0 .. count - 1
  <1> DEFINE relative == (frame.highest + SeqMod - (Base % SeqMod)) % SeqMod
  <1>0. /\ FullFrameBytes \in Nat /\ SeqMod \in Nat \ {0} /\ AckMaskBits \in Nat
        /\ MaxWindow \in Nat \ {0} /\ MaxWindow < SeqMod /\ MaxWindow <= AckMaskBits + 1
    BY BackendAssumption, EngineAssumption, LinkAssumption
  <1>1. Base = base
    BY BaseIsFirstOpen
  <1>2. base <= count
    <2>1. CASE base = 0
      BY <2>1
    <2>2. CASE base > 0
      <3>1. base - 1 \in acked
        BY <1>0, <2>2
      <3>2. QED
        BY <1>0, <3>1
    <2>3. QED
      BY <1>0, <2>1, <2>2
  <1>3. CASE base = count
    <2>1. /\ SeqMod - 1 \in 0 .. SeqMod - 1 /\ count - 1 \in Nat /\ base \in Nat
          /\ count - 1 = base + (SeqMod - 1) - SeqMod
      BY <1>0, <1>3
    <2>2. relative = SeqMod - 1
      BY <1>1, <2>1, RelativeNumber
    <2>3. ~(Base + relative < unsent)
      BY <1>0, <1>1, <2>2
    <2>4. Named(frame) = {}
      BY <2>3 DEF Named
    <2>5. QED
      BY <1>3, <2>4
  <1>4. CASE base < count
    <2>1. /\ count - 1 - base \in 0 .. SeqMod - 1 /\ count - 1 \in Nat /\ base \in Nat
          /\ count - 1 = base + (count - 1 - base)
      BY <1>0, <1>4
    <2>2. relative = count - 1 - base
      BY <1>1, <2>1, RelativeNumber
    <2>3. Base + relative = count - 1
      BY <1>0, <1>1, <2>2
    <2>4. Named(frame) = {count - 1} \cup {count - 2 - i : i \in {i \in InorderAckMask(count) : i < count - 1}}
      <3>1. \A i \in InorderAckMask(count) : count - 1 - 1 - i = count - 2 - i
        BY <1>0 DEF InorderAckMask
      <3>2. count - 1 < unsent
        BY <1>0
      <3> HIDE DEF relative
      <3>3. Named(frame) = {count - 1} \cup {count - 1 - 1 - i : i \in {i \in InorderAckMask(count) : i < count - 1}}
        BY <2>3, <3>2 DEF Named, relative
      <3>4. QED
        BY <3>1, <3>3
    <2>5. \A n \in base .. count - 2 :
             /\ count - 2 - n \in InorderAckMask(count) /\ count - 2 - n < count - 1
             /\ n = count - 2 - (count - 2 - n)
      BY <1>0 DEF InorderAckMask
    <2>6. 0 .. count - 1 \subseteq acked \cup Named(frame)
      <3>1. \A n \in 0 .. count - 1 : n \in acked \/ n \in base .. count - 2 \/ n = count - 1
        BY <1>0
      <3>2. \A n \in base .. count - 2 : n \in Named(frame)
        BY <2>4, <2>5
      <3>3. QED
        BY <2>4, <3>1, <3>2
    <2>7. Named(frame) \subseteq 0 .. count - 1
      BY <1>0, <2>4 DEF InorderAckMask
    <2>8. QED
      BY <2>6, <2>7
  <1>5. QED
    BY <1>0, <1>2, <1>3, <1>4

------------------------------------------------------------------------------
(* What is sent, notified and heard leaves the order of the answers alone. *)

LEMMA PendingTyped == ASSUME QueueTypes PROVE Pending \in Seq(AnyFrame)
  BY ConcatProperties DEF QueueTypes, Pending

LEMMA PendingGrows ==
    ASSUME QueueTypes, NEW more \in Seq(AnyFrame), tx' = tx \o more, air' = air
    PROVE  Pending' = Pending \o more
  BY ConcatAssociative, SMTT(60) DEF QueueTypes, Pending

LEMMA PendingAppend ==
    ASSUME QueueTypes, NEW frame \in AnyFrame, tx' = Append(tx, frame), air' = air
    PROVE  Pending' = Append(Pending, frame)
  <1>1. <<frame>> \in Seq(AnyFrame) /\ tx \in Seq(AnyFrame) /\ Pending \in Seq(AnyFrame)
    BY PendingTyped DEF QueueTypes
  <1>2. tx' = tx \o <<frame>>
    BY <1>1, AppendIsConcat
  <1>3. Pending' = Pending \o <<frame>>
    BY <1>1, <1>2, PendingGrows
  <1>4. QED
    BY <1>1, <1>3, AppendIsConcat

LEMMA PendingAppendTwo ==
    ASSUME QueueTypes, NEW frame \in AnyFrame, NEW last \in AnyFrame,
           tx' = Append(Append(tx, frame), last), air' = air
    PROVE  Pending' = Append(Append(Pending, frame), last)
  <1>1. /\ <<frame>> \in Seq(AnyFrame) /\ <<last>> \in Seq(AnyFrame)
        /\ tx \in Seq(AnyFrame) /\ air \in Seq(AnyFrame) /\ Pending \in Seq(AnyFrame)
    BY PendingTyped DEF QueueTypes
  <1>2. Append(tx, frame) = tx \o <<frame>> /\ tx \o <<frame>> \in Seq(AnyFrame)
    BY <1>1, AppendIsConcat, ConcatProperties
  <1>3. tx' = (tx \o <<frame>>) \o <<last>>
    BY <1>1, <1>2, AppendIsConcat
  <1>4. Pending' = (Pending \o <<frame>>) \o <<last>>
    BY <1>1, <1>2, <1>3, ConcatAssociative DEF Pending
  <1>5. Pending \o <<frame>> = Append(Pending, frame) /\ Pending \o <<frame>> \in Seq(AnyFrame)
    BY <1>1, AppendIsConcat, ConcatProperties
  <1>6. QED
    BY <1>1, <1>4, <1>5, AppendIsConcat

LEMMA PendingDrained ==
    ASSUME QueueTypes, NEW n \in 0 .. Len(tx),
           tx' = SubSeq(tx, n + 1, Len(tx)), air' = air \o SubSeq(tx, 1, n)
    PROVE  /\ Pending' = Pending
           /\ tx' \in Seq(AnyFrame) /\ air' \in Seq(AnyFrame) /\ Len(tx') = Len(tx) - n
  <1>1. tx \in Seq(AnyFrame) /\ air \in Seq(AnyFrame) /\ Len(tx) \in Nat
    BY DEF QueueTypes
  <1>2. /\ SubSeq(tx, 1, n) \in Seq(AnyFrame) /\ SubSeq(tx, n + 1, Len(tx)) \in Seq(AnyFrame)
        /\ Len(SubSeq(tx, n + 1, Len(tx))) = Len(tx) - n
    BY <1>1
  <1>3. SubSeq(tx, 1, n) \o SubSeq(tx, n + 1, Len(tx)) = tx
    <2>1. /\ 1 \in 1 .. Len(tx) + 1 /\ n \in 1 - 1 .. Len(tx)
          /\ Len(tx) \in n .. Len(tx)
      BY <1>1
    <2>2. SubSeq(tx, 1, n) \o SubSeq(tx, n + 1, Len(tx)) = SubSeq(tx, 1, Len(tx))
      BY <1>1, <2>1, ConcatAdjacentSubSeq
    <2>3. QED
      BY <1>1, <2>2, SubSeqFull
  <1> DEFINE sent == SubSeq(tx, 1, n)
             left == SubSeq(tx, n + 1, Len(tx))
  <1>4. /\ sent \in Seq(AnyFrame) /\ left \in Seq(AnyFrame) /\ sent \o left = tx
        /\ tx' = left /\ air' = air \o sent
    BY <1>2, <1>3
  <1> HIDE DEF sent, left
  <1>5. (air \o sent) \o left = air \o (sent \o left)
    <2>1. \A u, v, w \in Seq(AnyFrame) : (u \o v) \o w = u \o (v \o w)
      BY ConcatAssociative
    <2>2. air \in Seq(AnyFrame) /\ sent \in Seq(AnyFrame) /\ left \in Seq(AnyFrame)
      BY <1>1, <1>4
    <2>3. QED
      BY <2>1, <2>2
  <1>6. air \o sent \in Seq(AnyFrame)
    BY <1>1, <1>4, ConcatProperties
  <1>7. QED
    BY <1>2, <1>4, <1>5, <1>6 DEF Pending, left

LEMMA PendingHeard ==
    ASSUME QueueTypes, air # <<>>, air' = Tail(air), tx' = tx
    PROVE  /\ Pending # <<>> /\ Head(air) = Pending[1] /\ Pending[1] \in AnyFrame
           /\ Pending' = Tail(Pending) /\ Pending' \in Seq(AnyFrame)
           /\ Len(Pending) \in Nat \ {0} /\ Len(Pending') = Len(Pending) - 1
           /\ \A i \in 1 .. Len(Pending') : Pending'[i] = Pending[i + 1]
           /\ air' \in Seq(AnyFrame)
  <1>1. /\ tx \in Seq(AnyFrame) /\ air \in Seq(AnyFrame) /\ air' \in Seq(AnyFrame)
        /\ Len(air') = Len(air) - 1 /\ Len(air) \in Nat \ {0} /\ Len(tx) \in Nat
        /\ \A i \in 1 .. Len(air') : air'[i] = air[i + 1]
    BY HeadTailProperties DEF QueueTypes
  <1>2. /\ Pending \in Seq(AnyFrame) /\ Len(Pending) = Len(air) + Len(tx)
        /\ \A i \in 1 .. Len(air) + Len(tx) :
              Pending[i] = IF i <= Len(air) THEN air[i] ELSE tx[i - Len(air)]
    BY <1>1, ConcatProperties DEF Pending
  <1>3. /\ Pending' \in Seq(AnyFrame) /\ Len(Pending') = Len(air') + Len(tx)
        /\ \A i \in 1 .. Len(air') + Len(tx) :
              Pending'[i] = IF i <= Len(air') THEN air'[i] ELSE tx[i - Len(air')]
    BY <1>1, ConcatProperties DEF Pending
  <1>4. Pending # <<>> /\ Head(air) = Pending[1] /\ Pending[1] \in AnyFrame
    BY <1>1, <1>2, ElementOfSeq
  <1>5. /\ Tail(Pending) \in Seq(AnyFrame) /\ Len(Tail(Pending)) = Len(Pending) - 1
        /\ \A i \in 1 .. Len(Tail(Pending)) : Tail(Pending)[i] = Pending[i + 1]
    BY <1>2, <1>4, HeadTailProperties
  <1>6. \A i \in 1 .. Len(Pending') : Pending'[i] = Pending[i + 1]
    <2>1. SUFFICES ASSUME NEW i \in 1 .. Len(Pending') PROVE Pending'[i] = Pending[i + 1]
      OBVIOUS
    <2>2. i \in 1 .. Len(air') + Len(tx) /\ i + 1 \in 1 .. Len(air) + Len(tx)
      BY <1>1, <1>3
    <2>3. CASE i <= Len(air')
      BY <1>1, <1>2, <1>3, <2>2, <2>3
    <2>4. CASE i > Len(air')
      <3>1. i - Len(air') = (i + 1) - Len(air)
        BY <1>1, <2>2
      <3>2. QED
        BY <1>1, <1>2, <1>3, <2>2, <2>4, <3>1
    <2>5. QED
      BY <1>1, <2>2, <2>3, <2>4
  <1>7. Pending' = Tail(Pending)
    BY <1>1, <1>2, <1>3, <1>5, <1>6, SeqEqual
  <1>8. QED
    BY <1>1, <1>2, <1>3, <1>4, <1>6, <1>7

(* What apply_result_ queues of a reply.                                         *)
LEMMA NothingApplied == ASSUME NEW r, r.frames = <<>>, ApplyResult(r) PROVE tx' = tx
  BY DEF ApplyResult, SendFrame

LEMMA OneApplied ==
    ASSUME tx \in Seq(AnyFrame), NEW r, NEW frame, r.frames = <<frame>>, ApplyResult(r)
    PROVE  tx' \in {tx, Append(tx, frame)} /\ (tx = <<>> => tx' = <<frame>>)
  <1>1. SendFrame(tx, r, 1) = Send(tx, frame, Terminal(r, 1))
    BY DEF SendFrame
  <1>2. \A q : SendFrame(q, r, 2) = q
    BY DEF SendFrame
  <1>3. tx' = Send(tx, frame, Terminal(r, 1))
    BY <1>1, <1>2 DEF ApplyResult
  <1>4. tx = <<>> => TxAccepts(Len(tx), Terminal(r, 1))
    BY ComponentAssumption DEF TxAccepts
  <1>5. tx = <<>> => Append(tx, frame) = <<frame>>
    OBVIOUS
  <1>6. QED
    BY <1>3, <1>4, <1>5 DEF Send

(* The first of two frames is a terminal one: where it finds no room, the second  *)
(* does not either.                                                               *)
LEMMA TwoApplied ==
    ASSUME tx \in Seq(AnyFrame), NEW r, NEW frame, NEW last,
           r.frames = <<frame, last>>, ApplyResult(r)
    PROVE  tx' \in {tx, Append(tx, frame), Append(Append(tx, frame), last)}
  <1>1. /\ SendFrame(tx, r, 1) = Send(tx, frame, TRUE)
        /\ \A q : SendFrame(q, r, 2) = Send(q, last, Terminal(r, 2))
    BY DEF SendFrame, Terminal
  <1>2. CASE TxAccepts(Len(tx), TRUE)
    BY <1>1, <1>2 DEF ApplyResult, Send
  <1>3. CASE ~TxAccepts(Len(tx), TRUE)
    <2>1. ~TxAccepts(Len(tx), Terminal(r, 2))
      BY <1>3 DEF TxAccepts
    <2>2. QED
      BY <1>1, <1>3, <2>1 DEF ApplyResult, Send
  <1>4. QED
    BY <1>2, <1>3

------------------------------------------------------------------------------
(* What the engine does with a chunk. *)

(* SackOf names what was accepted: the mask does not change any more where the   *)
(* counter of the packets stops.                                                 *)
LEMMA MaskOfCount ==
    ASSUME NEW count \in Nat
    PROVE  InorderAckMask(Lesser(count, AckMaskBits + 1)) = InorderAckMask(count)
  BY EngineAssumption DEF InorderAckMask, Lesser

LEMMA SackOfAccepted ==
    ASSUME NEW t, NEW count \in Nat, t.highest_seen = (count - 1) % SeqMod,
           t.accepted_packets = Lesser(count, AckMaskBits + 1)
    PROVE  SackOf(t) = SackAfter(count)
  BY MaskOfCount DEF SackOf, SackAfter

(* The three things that can happen: outside of a transfer, or where the chunk ends *)
(* it, nothing is accepted; a chunk that is not the expected one is answered; or the *)
(* frame grows by its one byte.                                                     *)
Ignored ==
    /\ loaded' = loaded
    /\ txn'.state # "RECEIVING"
    /\ \/ reply'.frames = <<>>
       \/ \E frame \in Frames : frame.kind = "PIPE_NACK" /\ reply'.frames = <<frame>>

Repeated(m) ==
    /\ UNCHANGED <<txn, loaded>>
    /\ txn.state = "RECEIVING"
    /\ m % SeqMod # txn.accepted_bytes % SeqMod
    /\ reply'.frames = <<SackOf(txn)>>

Accepted(m) ==
    LET n == txn.accepted_bytes
    IN  /\ txn.state = "RECEIVING"
        /\ n \in Nat /\ n < FullFrameBytes /\ m % SeqMod = n % SeqMod
        /\ loaded = 0 .. n - 1 /\ loaded' = 0 .. n
        /\ \/ reply'.frames = <<>>
           \/ reply'.frames = <<SackAfter(n + 1)>>
           \/ reply'.frames = <<SackAfter(n + 1), Nack("PIPE_END")>>
           \/ n + 1 = FullFrameBytes /\ reply'.frames = <<SackAfter(n + 1), Ack("PIPE_END")>>

LEMMA PairOfFrames == ASSUME NEW a, NEW b PROVE Append(<<a>>, b) = <<a, b>>
  <1>1. <<a>> \in Seq({a, b}) /\ <<a, b>> \in Seq({a, b}) /\ b \in {a, b}
    OBVIOUS
  <1>2. /\ Append(<<a>>, b) \in Seq({a, b}) /\ Len(Append(<<a>>, b)) = 2
        /\ Append(<<a>>, b)[1] = a /\ Append(<<a>>, b)[2] = b
    BY <1>1, AppendProperties
  <1> DEFINE built == Append(<<a>>, b)
             pair == <<a, b>>
  <1>3. /\ built \in Seq({a, b}) /\ pair \in Seq({a, b}) /\ Len(built) = 2 /\ Len(pair) = 2
        /\ built[1] = pair[1] /\ built[2] = pair[2]
    BY <1>1, <1>2
  <1> HIDE DEF built, pair
  <1>4. Len(built) = Len(pair) /\ \A i \in 1 .. Len(built) : built[i] = pair[i]
    BY <1>3
  <1>5. built = pair
    BY <1>3, <1>4, SeqEqual
  <1>6. QED
    BY <1>5 DEF built, pair

LEMMA AcceptedChunk ==
    ASSUME IInv, PipeInv, NEW m \in Nat, InOrderPipeData(<<m % SeqMod, 1>>)
    PROVE  PipeInv' /\ Accepted(m)
  <1> DEFINE n == txn.accepted_bytes
             seq == m % SeqMod
  <1>1. /\ Receiving("PIPE") /\ seq = txn.next_pipe_sequence /\ ~TooLong(1)
        /\ loaded' = Written(n, 1)
    BY DEF InOrderPipeData
  <1>2. PICK d \in ArmedDeadlines : AfterChunk(WithChunk(seq, 1, d))
    BY DEF InOrderPipeData
  <1>3. d \in Deadlines
    BY DEF ArmedDeadlines, Deadlines
  <1>4. /\ txn \in Transactions /\ txn.state = "RECEIVING" /\ txn.mode = "PIPE"
        /\ n \in Nat /\ loaded = 0 .. n - 1 /\ txn.expected_frame_bytes = FullFrameBytes
        /\ seq = n % SeqMod /\ txn.accepted_packets = Lesser(n, AckMaskBits + 1)
        /\ ~txn.pipe_fatal
    BY <1>1 DEF Receiving, IInv, TypeOK, FrameAccounting, Transactions, PipeInv
  <1>5. n < FullFrameBytes /\ loaded' = 0 .. n
    <2>1. n < FullFrameBytes
      BY <1>1, <1>4, BackendAssumption DEF TooLong
    <2>2. Written(n, 1) = 0 .. n + 1 - 1
      BY <1>4, WrittenExtends
    <2>3. n + 1 - 1 = n
      BY <1>4
    <2>4. QED
      BY <1>1, <2>1, <2>2, <2>3
  <1> DEFINE t == WithChunk(seq, 1, d)
             u == [t EXCEPT !.accepted_since_ack = 0]
  <1>6. /\ t \in Transactions /\ t.mode = "PIPE" /\ t.state = "RECEIVING"
        /\ t.accepted_bytes = n + 1 /\ t.expected_frame_bytes = FullFrameBytes
    BY <1>1, <1>3, WithChunkType
  <1>7. /\ t.highest_seen = n % SeqMod /\ t.next_pipe_sequence = (n + 1) % SeqMod
        /\ t.accepted_packets = Lesser(n + 1, AckMaskBits + 1)
        /\ ~t.pipe_fatal
    <2>1. /\ t.highest_seen = seq /\ t.next_pipe_sequence = (seq + 1) % SeqMod
          /\ t.accepted_packets = CountPacket(txn.accepted_packets)
          /\ t.pipe_fatal = txn.pipe_fatal
      BY <1>4 DEF WithChunk, Transactions
    <2>2. (seq + 1) % SeqMod = (n + 1) % SeqMod
      BY <1>4, NextNumber
    <2>3. CountPacket(Lesser(n, AckMaskBits + 1)) = Lesser(n + 1, AckMaskBits + 1)
      BY <1>4, EngineAssumption DEF CountPacket, Lesser
    <2>4. QED
      BY <1>4, <2>1, <2>2, <2>3
  <1> HIDE DEF t
  <1>8. SackOf(t) = SackAfter(n + 1)
    <2>1. (n + 1) - 1 = n
      BY <1>4
    <2>2. QED
      BY <1>4, <1>7, <2>1, SackOfAccepted
  <1>9. /\ u.mode = "PIPE" /\ u.state = "RECEIVING" /\ u.accepted_bytes = n + 1
        /\ u.highest_seen = n % SeqMod /\ u.next_pipe_sequence = (n + 1) % SeqMod
        /\ u.accepted_packets = Lesser(n + 1, AckMaskBits + 1) /\ ~u.pipe_fatal
        /\ u \in Transactions /\ u.expected_frame_bytes = FullFrameBytes
    BY <1>6, <1>7, EngineAssumption DEF Transactions
  <1> HIDE DEF u, n, seq
  <1>10. (n + 1) - 1 = n /\ n + 1 \in Nat
    BY <1>4
  <1>11. ASSUME txn' = t \/ txn' = u
         PROVE  PipeInv'
    <2>1. /\ txn'.mode = "PIPE" /\ ~txn'.pipe_fatal /\ txn'.accepted_bytes = n + 1
          /\ txn'.highest_seen = n % SeqMod /\ txn'.next_pipe_sequence = (n + 1) % SeqMod
          /\ txn'.accepted_packets = Lesser(n + 1, AckMaskBits + 1)
      BY <1>6, <1>7, <1>9, <1>11
    <2>2. txn'.accepted_bytes - 1 = n
      BY <1>10, <2>1
    <2>3. QED
      BY <2>1, <2>2 DEF PipeInv
  <1>12. AfterChunk(t)
    BY <1>2 DEF t
  <1>13. CASE /\ n + 1 >= FullFrameBytes
              /\ FinishAndRefresh(u, <<SackAfter(n + 1)>>, "PIPE_END")
    <2>1. n + 1 = FullFrameBytes
      BY <1>4, <1>5, <1>13, BackendAssumption
    <2>2. Append(<<SackAfter(n + 1)>>, Nack("PIPE_END")) = <<SackAfter(n + 1), Nack("PIPE_END")>>
          /\ Append(<<SackAfter(n + 1)>>, Ack("PIPE_END")) = <<SackAfter(n + 1), Ack("PIPE_END")>>
      BY PairOfFrames
    <2>3. CASE Abort /\ reply' = Failure(Append(<<SackAfter(n + 1)>>, Nack("PIPE_END")))
      <3>1. PipeInv'
        BY <2>3 DEF Abort, NoTxn, PipeInv
      <3>2. reply'.frames = <<SackAfter(n + 1), Nack("PIPE_END")>>
        BY <2>2, <2>3 DEF Failure, Reply
      <3>3. QED
        BY <1>4, <1>5, <3>1, <3>2 DEF Accepted, n, seq
    <2>4. ASSUME NEW e, txn' = [u EXCEPT !.state = "REFRESHING", !.deadline = e],
                 reply' = Answer(Append(<<SackAfter(n + 1)>>, Ack("PIPE_END")))
          PROVE  PipeInv' /\ Accepted(m)
      <3>1. PipeInv'
        BY <1>9, <2>4 DEF PipeInv, Transactions
      <3>2. reply'.frames = <<SackAfter(n + 1), Ack("PIPE_END")>>
        BY <2>2, <2>4 DEF Answer, Reply
      <3>3. QED
        BY <1>4, <1>5, <2>1, <3>1, <3>2 DEF Accepted, n, seq
    <2>5. QED
      BY <1>13, <2>3, <2>4 DEF FinishAndRefresh
  <1>14. CASE (txn' = t \/ txn' = u) /\ reply' \in {Silence, Answer(<<SackAfter(n + 1)>>)}
    <2>1. reply'.frames \in {<<>>, <<SackAfter(n + 1)>>}
      BY <1>14 DEF Silence, Answer, Reply
    <2>2. QED
      BY <1>4, <1>5, <1>11, <1>14, <2>1 DEF Accepted, n, seq
  <1>15. QED
    BY <1>6, <1>8, <1>12, <1>13, <1>14 DEF AfterChunk, u

LEMMA ChunkHandled ==
    ASSUME IInv, PipeInv, NEW m \in Nat, OnPipeData(<<m % SeqMod, 1>>)
    PROVE  PipeInv' /\ (Ignored \/ Repeated(m) \/ Accepted(m))
  <1>1. txn \in Transactions
    BY DEF IInv, TypeOK
  <1>2. CASE txn.pipe_fatal /\ Refuse(Silence)
    BY <1>2 DEF Refuse, backendVars, Ignored, PipeInv, Silence, Answer, Reply
  <1>3. CASE StrayPipeData
    <2>1. PipeNack(txn.highest_seen, InorderAckMask(txn.accepted_packets)) \in Frames
          /\ PipeNack(txn.highest_seen, InorderAckMask(txn.accepted_packets)).kind = "PIPE_NACK"
      <3>1. txn.highest_seen \in Seqs /\ txn.accepted_packets \in Nat
        BY <1>1, EngineAssumption DEF Transactions
      <3>2. QED
        BY <3>1, FrameTypes DEF PipeNack
    <2>2. txn.state # "RECEIVING" /\ txn'.state = txn.state /\ txn'.mode = txn.mode
      BY <1>1, <1>3 DEF StrayPipeData, Receiving, PipeInv, Transactions
    <2>3. reply'.frames = <<PipeNack(txn.highest_seen, InorderAckMask(txn.accepted_packets))>>
          /\ loaded' = loaded
      BY <1>3 DEF StrayPipeData, Answer, Reply, backendVars
    <2>4. QED
      BY <2>1, <2>2, <2>3 DEF Ignored, PipeInv
  <1>4. CASE BadPipeData(<<m % SeqMod, 1>>)
    <2>1. /\ txn' = NoTxn /\ loaded' = loaded
          /\ reply' = Failure(<<PipeNack(NoTxn.highest_seen, {})>>)
      BY <1>4 DEF BadPipeData, AbortWith, Abort
    <2>2. PipeNack(NoTxn.highest_seen, {}) \in Frames
          /\ PipeNack(NoTxn.highest_seen, {}).kind = "PIPE_NACK"
      <3>1. NoTxn.highest_seen \in Seqs
        BY EngineAssumption DEF NoTxn, Seqs
      <3>2. QED
        BY <3>1, FrameTypes DEF PipeNack
    <2>3. reply'.frames = <<PipeNack(NoTxn.highest_seen, {})>>
      BY <2>1 DEF Failure, Reply
    <2>4. txn'.state = "IDLE"
      BY <2>1 DEF NoTxn
    <2>5. QED
      BY <2>1, <2>2, <2>3, <2>4 DEF Ignored, PipeInv
  <1>5. CASE OutOfOrderPipeData(<<m % SeqMod, 1>>)
    <2>1. /\ Receiving("PIPE") /\ m % SeqMod # txn.next_pipe_sequence
          /\ reply' = Answer(<<SackOf(txn)>>) /\ UNCHANGED <<txn, loaded>>
      BY <1>5 DEF OutOfOrderPipeData, Refuse, backendVars
    <2>2. QED
      BY <2>1 DEF Receiving, Answer, Reply, PipeInv, Repeated
  <1>6. CASE InOrderPipeData(<<m % SeqMod, 1>>)
    BY <1>6, AcceptedChunk
  <1>7. QED
    BY <1>2, <1>3, <1>4, <1>5, <1>6 DEF OnPipeData

------------------------------------------------------------------------------
(* Every step is one of the component, or a write of the client's.               *)

LEMMA BaseIsChunk ==
    ASSUME LinkIInv, phase = "sending"
    PROVE  /\ Base \in 0 .. FullFrameBytes /\ acked = 0 .. Base - 1
           /\ unsent <= Base + MaxWindow
  <1>1. PICK base \in 0 .. FullFrameBytes : acked = 0 .. base - 1 /\ unsent <= base + MaxWindow
    BY DEF LinkIInv, TransferInv, Transfer, Phases, Setup, WindowInv
  <1>2. QED
    BY <1>1, BaseIsFirstOpen

LEMMA SendingWritesChunk ==
    ASSUME LinkIInv, SendNext \/ ResendBase \/ ResendEarly
    PROVE  \E m \in Chunks :
              /\ Writes(Chunk(m))
              /\ Base <= m /\ m < unsent' /\ unsent' \in {unsent, unsent + 1}
              /\ unsent = 0 => m = 0
  <1>1. /\ unsent \in 0 .. FullFrameBytes /\ FullFrameBytes \in Nat \ {0}
        /\ \A m : m \in Chunks <=> m \in Nat /\ m < FullFrameBytes
    BY BackendAssumption DEF LinkIInv, ClientTypes, Chunks, FrameOffsets
  <1>2. phase = "sending"
    BY DEF SendNext, ResendBase, ResendEarly
  <1>3. Base \in 0 .. FullFrameBytes /\ acked = 0 .. Base - 1 /\ acked \subseteq 0 .. unsent - 1
    BY <1>2, BaseIsChunk DEF LinkIInv, TransferInv, Transfer, Phases, Setup, WindowInv
  <1>4. Base <= unsent
    <2>1. CASE Base = 0
      BY <1>1, <2>1
    <2>2. CASE Base > 0
      <3>1. Base - 1 \in acked
        BY <1>1, <1>3, <2>2
      <3>2. QED
        BY <1>1, <1>3, <3>1
    <2>3. QED
      BY <1>1, <1>3, <2>1, <2>2
  <1>5. CASE SendNext
    BY <1>1, <1>3, <1>4, <1>5 DEF SendNext
  <1>6. CASE ResendBase
    <2>1. Writes(Chunk(Base)) /\ Base < unsent /\ unsent' = unsent
      BY <1>6 DEF ResendBase, clientVars
    <2>2. Base \in Chunks
      BY <1>1, <1>3, <2>1
    <2>3. QED
      BY <1>1, <1>3, <2>1, <2>2
  <1>7. CASE ResendEarly
    <2>1. PICK m \in 0 .. unsent - 1 : m \notin acked /\ Writes(Chunk(m))
      BY <1>7 DEF ResendEarly
    <2>2. Base <= m /\ m \in Chunks /\ m < unsent
      BY <1>1, <1>3, <2>1
    <2>3. unsent' = unsent
      BY <1>7 DEF ResendEarly
    <2>4. QED
      BY <1>1, <2>1, <2>2, <2>3
  <1>8. QED
    BY <1>5, <1>6, <1>7

(* Client and automations do nothing to the component that Entities does not allow. *)
LEMMA LinkKeepsEntities ==
    ASSUME LinkIInv, [LinkNext]_linkVars
    PROVE  [EntitiesNext]_entitiesVars
  <1>1. ASSUME NEW c \in Commands, Writes(c) PROVE EntitiesNext
    BY <1>1 DEF Writes, EntitiesNext, QuietStep, Ble, ClientWrites
  <1>2. CASE Connect \/ Connecting
    BY <1>2 DEF Connect, Connecting, EntitiesNext, QuietStep, Ble
  <1>3. CASE AskConfig
    BY <1>1, <1>3, ClientAssumption DEF AskConfig
  <1>4. CASE SendNext \/ ResendBase \/ ResendEarly
    BY <1>1, <1>4, SendingWritesChunk, ClientAssumption
  <1>5. CASE Hear
    BY <1>1, <1>5, ClientAssumption
       DEF Hear, HearConfig, HearMsd, HearStartAck, HearSack, HearResult, entitiesVars
  <1>6. CASE LinkLoop
    BY <1>6 DEF LinkLoop, EntitiesNext
  <1>7. CASE Finishes \/ DriverBreaks \/ World(DeadlinePasses)
    BY <1>7 DEF Finishes, DriverBreaks, World, EntitiesNext, QuietStep, EnvironmentStep
  <1>8. CASE Automation
    BY <1>8 DEF Automation, Aborts, Updates, World, EntitiesNext, QuietStep, AbortAction,
                EnvironmentStep
  <1>9. CASE UNCHANGED linkVars
    BY <1>9 DEF linkVars
  <1>10. QED
    BY <1>2, <1>3, <1>4, <1>5, <1>6, <1>7, <1>8, <1>9 DEF LinkNext, Undisturbed, Client

LEMMA LinkKeepsComponent ==
    ASSUME LinkIInv, [LinkNext]_linkVars
    PROVE  [ComponentNext]_allVars
  BY LinkKeepsEntities, EntitiesKeepComponent DEF LinkIInv, EntityIInv

LEMMA WriteKeeps ==
    ASSUME LinkIInv, NEW c \in Commands, Writes(c)
    PROVE  /\ UNCHANGED <<vars, tx, connected, linking, session, entityVars>>
           /\ connected /\ linking = "no"
           /\ rx' \in {rx, Append(rx, Packet(c))} /\ (rx = <<>> => rx' = <<Packet(c)>>)
           /\ ConnectionInv'
  <1>1. /\ UNCHANGED <<vars, tx, connected, linking, session, entityVars>>
        /\ connected /\ linking = "no"
        /\ rx' = IF Len(rx) < RxSlots - 1 THEN Append(rx, Packet(c)) ELSE rx
    BY DEF Writes, OnBleWrite, Packet
  <1>2. rx = <<>> => rx' = <<Packet(c)>>
    <2>1. SUFFICES ASSUME rx = <<>> PROVE rx' = <<Packet(c)>>
      OBVIOUS
    <2>2. Len(rx) < RxSlots - 1
      BY <2>1, ComponentAssumption
    <2>3. rx' = Append(<<>>, Packet(c))
      BY <1>1, <2>1, <2>2
    <2>4. \A p : Append(<<>>, p) = <<p>>
      OBVIOUS
    <2>5. QED
      BY <2>3, <2>4
  <1>3. ConnectionInv'
    <2>1. CASE rx' = rx
      BY <1>1, <2>1 DEF LinkIInv, ConnectionInv
    <2>2. CASE rx' = Append(rx, Packet(c))
      <3> DEFINE S == [session : 0 .. MaxGeneration, command : Commands]
      <3>1. rx \in Seq(S) /\ Packet(c) \in S /\ Packet(c).session = session
        BY DEF LinkIInv, LinkInv, Packet
      <3> HIDE DEF S
      <3>2. /\ Len(rx') = Len(rx) + 1 /\ Len(rx) \in Nat /\ rx'[Len(rx) + 1] = Packet(c)
            /\ \A i \in 1 .. Len(rx) : rx'[i] = rx[i]
        BY <2>2, <3>1, AppendProperties, LenProperties
      <3>3. \A i \in 1 .. Len(rx) : rx[i].session = session
        BY DEF LinkIInv, ConnectionInv
      <3>4. \A i \in 1 .. Len(rx') : rx'[i].session = session
        BY <3>1, <3>2, <3>3
      <3>5. QED
        BY <1>1, <3>4 DEF ConnectionInv
    <2>3. QED
      BY <1>1, <2>1, <2>2
  <1>4. QED
    BY <1>1, <1>2, <1>3

(* What was proved of the component, its engine and its entities holds on.       *)
LEMMA CoreStep ==
    ASSUME LinkIInv, [LinkNext]_linkVars
    PROVE  IInv' /\ LinkInv' /\ LoopInv' /\ TxInv' /\ EntityIInv'
  <1>1. TxInv
    BY DEF LinkIInv, QueueTypes, TxInv
  <1>2. [ComponentNext]_allVars /\ [EntitiesNext]_entitiesVars
    BY LinkKeepsComponent, LinkKeepsEntities
  <1>3. IInv' /\ LinkInv' /\ EntityIInv'
    BY <1>2, LinkStep, EngineStep, StepIInv, EntityIInvStep DEF LinkIInv
  <1>4. QED
    BY <1>1, <1>2, <1>3, TxStep, LoopStep DEF LinkIInv

------------------------------------------------------------------------------
(* The client's writes. *)

(* What the steps below have to establish; CoreStep gives the rest.               *)
ClientInv ==
    ClientTypes /\ ConnectionInv /\ SetupInv /\ PipeInv /\ TransferInv

LEMMA AskConfigStep ==
    ASSUME LinkIInv, AskConfig
    PROVE  ClientInv' /\ Pending' = Pending
  <1> DEFINE c == [op |-> "CONFIG_READ"]
  <1>1. /\ c \in Commands /\ Writes(c)
        /\ phase = "off" /\ phase' = "config"
        /\ UNCHANGED <<window, unsent, acked, resends, blob, air>>
    BY ClientAssumption DEF AskConfig
  <1> HIDE DEF c
  <1>2. /\ UNCHANGED <<vars, tx, session>> /\ ConnectionInv'
        /\ rx = <<>> => rx' = <<Packet(c)>>
    BY <1>1, WriteKeeps
  <1>3. Pending' = Pending
    BY <1>1, <1>2 DEF Pending
  <1>4. /\ rx = <<>> /\ Pending = <<>> /\ blob = {} /\ txn.state = "IDLE"
        /\ unsent = 0 /\ acked = {} /\ loaded = {}
    BY <1>1 DEF LinkIInv, SetupInv, Setup
  <1>5. ReadingConfig'
    BY <1>1, <1>2, <1>3, <1>4 DEF ReadingConfig, Packet, c
  <1>6. SetupInv'
    BY <1>1, <1>2, <1>4, <1>5 DEF SetupInv, vars
  <1>7. ClientTypes' /\ PipeInv' /\ TransferInv'
    BY <1>1, <1>2 DEF LinkIInv, ClientTypes, Phases, PipeInv, TransferInv, Transfer, Setup, vars
  <1>8. QED
    BY <1>2, <1>3, <1>6, <1>7 DEF ClientInv

(* A chunk that goes into the ring is less than a window behind whatever the engine  *)
(* has accepted, or will have, when it comes to it.                                 *)
LEMMA InFlightWrite ==
    ASSUME LinkIInv, InFlight, unsent \in Nat, loaded \subseteq 0 .. unsent - 1,
           NEW m \in Nat, unsent <= m + MaxWindow, m < unsent', unsent' \in {unsent, unsent + 1},
           unsent = 0 => m = 0,
           rx' \in {rx, Append(rx, Packet(Chunk(m)))}, rx = <<>> => rx' = <<Packet(Chunk(m))>>,
           Chunk(m) \in Commands, UNCHANGED <<txn, loaded, session>>
    PROVE  InFlight'
  <1> DEFINE S == [session : 0 .. MaxGeneration, command : Commands]
             k == Len(rx)
  <1>1. rx \in Seq(S) /\ Packet(Chunk(m)) \in S /\ MaxWindow \in Nat \ {0}
    BY EngineAssumption DEF LinkIInv, LinkInv, Packet
  <1>2. Packet(Chunk(m)).command = Chunk(m) /\ Packet(Chunk(m)).command.chunk = m
    BY DEF Packet, Chunk
  <1> HIDE DEF S
  <1>3. k \in Nat /\ (rx = <<>> <=> k = 0)
    BY <1>1, LenProperties, EmptySeq
  <1>4. \A i \in 1 .. k :
           /\ Number(rx[i]) \in Nat /\ Number(rx[i]) < unsent
           /\ rx[i].command = Chunk(Number(rx[i]))
           /\ \A n \in loaded : n < Number(rx[i]) + MaxWindow
    BY DEF InFlight
  <1>5. CASE rx' = rx
    <2>1. rx # <<>>
      <3>1. Len(<<Packet(Chunk(m))>>) = 1 /\ Len(<<>>) = 0
        OBVIOUS
      <3>2. QED
        BY <1>5, <3>1
    <2>2. k > 0
      BY <1>3, <2>1
    <2>3. 1 \in 1 .. k
      BY <1>3, <2>2
    <2>4. unsent > 0
      BY <1>4, <2>3
    <2>5. \A i \in 1 .. k : Number(rx'[i]) = Number(rx[i])
      BY <1>5 DEF Number
    <2>6. \A i \in 1 .. k : Number(rx[i]) \in 0 .. unsent' - 1
      BY <1>4
    <2>7. UNCHANGED <<txn, loaded>>
      OBVIOUS
    <2>8. QED
      BY <1>5, <2>1, <2>3, <2>4, <2>5, <2>6, <2>7 DEF InFlight
  <1>6. CASE rx' = Append(rx, Packet(Chunk(m)))
    <2>1. /\ Len(rx') = k + 1 /\ rx'[k + 1] = Packet(Chunk(m)) /\ rx' # <<>>
          /\ \A i \in 1 .. k : rx'[i] = rx[i]
      BY <1>1, <1>6, AppendProperties
    <2>2. /\ Number(rx'[k + 1]) = m
          /\ \A i \in 1 .. k : Number(rx'[i]) = Number(rx[i])
      BY <1>2, <2>1 DEF Number
    <2>3. \A i \in 1 .. k + 1 : i \in 1 .. k \/ i = k + 1
      BY <1>3
    <2>4. ASSUME NEW i \in 1 .. k + 1
          PROVE  /\ Number(rx'[i]) \in 0 .. unsent' - 1
                 /\ rx'[i].command = Chunk(Number(rx'[i]))
                 /\ \A n \in loaded : n < Number(rx'[i]) + MaxWindow
      <3>1. CASE i \in 1 .. k
        BY <1>4, <2>1, <2>2, <3>1
      <3>2. CASE i = k + 1
        BY <1>1, <1>2, <2>1, <2>2, <3>2
      <3>3. QED
        BY <2>3, <3>1, <3>2
    <2>5. ASSUME NEW i \in 1 .. k + 1, NEW j \in 1 .. k + 1, i < j
          PROVE  Number(rx'[i]) < Number(rx'[j]) + MaxWindow
      <3>1. i \in 1 .. k
        BY <1>3, <2>5
      <3>2. CASE j \in 1 .. k
        BY <2>2, <2>5, <3>1, <3>2 DEF InFlight
      <3>3. CASE j = k + 1
        BY <1>1, <1>4, <2>2, <3>1, <3>3
      <3>4. QED
        BY <2>3, <3>2, <3>3
    <2>6. ASSUME txn.state = "RECEIVING", loaded = {}
          PROVE  Number(rx'[1]) = 0
      <3>1. CASE k = 0
        <4>1. ~(unsent > 0)
          BY <1>3, <2>6, <3>1 DEF InFlight
        <4>2. QED
          BY <2>2, <3>1, <4>1
      <3>2. CASE k > 0
        <4>1. 1 \in 1 .. k
          BY <1>3, <3>2
        <4>2. unsent > 0
          BY <1>4, <4>1
        <4>3. QED
          BY <2>2, <2>6, <4>1, <4>2 DEF InFlight
      <3>3. QED
        BY <1>3, <3>1, <3>2
    <2>7. UNCHANGED <<txn, loaded>>
      OBVIOUS
    <2>8. QED
      BY <2>1, <2>4, <2>5, <2>6, <2>7 DEF InFlight
  <1>7. QED
    BY <1>5, <1>6

LEMMA SendingStep ==
    ASSUME LinkIInv, SendNext \/ ResendBase \/ ResendEarly
    PROVE  ClientInv' /\ Pending' = Pending
  <1>1. /\ phase = "sending" /\ phase' = "sending"
        /\ UNCHANGED <<window, acked, blob, air>>
        /\ resends' \in 0 .. MaxResends
    <2>1. resends \in 0 .. MaxResends /\ MaxResends \in Nat
      BY LinkAssumption DEF LinkIInv, ClientTypes
    <2>2. QED
      BY <2>1 DEF SendNext, ResendBase, ResendEarly, clientVars
  <1>2. PICK m \in Chunks : /\ Writes(Chunk(m))
                            /\ Base <= m /\ m < unsent' /\ unsent' \in {unsent, unsent + 1}
                            /\ unsent = 0 => m = 0
    BY SendingWritesChunk
  <1>3. Chunk(m) \in Commands
    BY ClientAssumption
  <1>4. /\ UNCHANGED <<vars, tx, session>> /\ ConnectionInv'
        /\ rx' \in {rx, Append(rx, Packet(Chunk(m)))}
        /\ rx = <<>> => rx' = <<Packet(Chunk(m))>>
    BY <1>2, <1>3, WriteKeeps
  <1>5. UNCHANGED <<txn, loaded>>
    BY <1>4 DEF vars
  <1>6. Pending' = Pending
    BY <1>1, <1>4 DEF Pending
  <1>7. /\ Base \in 0 .. FullFrameBytes /\ acked = 0 .. Base - 1 /\ unsent <= Base + MaxWindow
        /\ unsent \in 0 .. FullFrameBytes /\ window \in 0 .. MaxWindow
        /\ InFlight /\ WindowInv /\ Answered(Pending, loaded, acked)
    BY <1>1, BaseIsChunk DEF LinkIInv, ClientTypes, TransferInv, Transfer, Phases, Setup
  <1>8. FullFrameBytes \in Nat \ {0} /\ MaxWindow \in Nat \ {0} /\ m \in Nat /\ m < FullFrameBytes
    BY BackendAssumption, EngineAssumption DEF Chunks, FrameOffsets
  <1>9. unsent' \in 0 .. FullFrameBytes /\ unsent' <= Base + MaxWindow
    <2>1. CASE SendNext
      BY <1>7, <1>8, <2>1 DEF SendNext, Chunks, FrameOffsets
    <2>2. CASE unsent' = unsent
      BY <1>7, <2>2
    <2>3. QED
      BY <2>1, <2>2 DEF ResendBase, ResendEarly, clientVars
  <1>10. WindowInv'
    <2>1. loaded \subseteq 0 .. unsent - 1
      BY <1>7 DEF WindowInv
    <2>2. \A n \in loaded : n \in Nat /\ n < unsent
      BY <1>7, <2>1
    <2>3. unsent \in Nat /\ unsent' \in Nat /\ unsent <= unsent'
      BY <1>2, <1>7
    <2>4. loaded \subseteq 0 .. unsent' - 1
      BY <2>2, <2>3
    <2>5. QED
      BY <1>1, <1>5, <1>7, <1>9, <2>4 DEF WindowInv
  <1>11. InFlight'
    <2>1. /\ unsent \in Nat /\ m \in Nat /\ unsent <= m + MaxWindow
          /\ loaded \subseteq 0 .. unsent - 1
      BY <1>2, <1>7, <1>8 DEF WindowInv
    <2>2. QED
      BY <1>2, <1>3, <1>4, <1>5, <1>7, <2>1, InFlightWrite
  <1>12. TransferInv'
    BY <1>1, <1>5, <1>6, <1>7, <1>10, <1>11 DEF TransferInv
  <1>13. SetupInv' /\ PipeInv' /\ ClientTypes'
    BY <1>1, <1>5, <1>9 DEF LinkIInv, SetupInv, Setup, PipeInv, ClientTypes
  <1>14. QED
    BY <1>4, <1>6, <1>12, <1>13 DEF ClientInv

------------------------------------------------------------------------------
(* What the client hears. *)

(* An answer is heard and nothing else moves but the client.                     *)
LEMMA HeardOnly ==
    ASSUME LinkIInv, UNCHANGED allVars, phase # "off"
    PROVE  /\ ConnectionInv' /\ PipeInv'
           /\ UNCHANGED <<txn, loaded, rx, tx, session>>
  BY DEF LinkIInv, ConnectionInv, PipeInv, allVars, vars, componentVars

(* Frames are told apart by their kind.                                          *)
LEMMA OwnKinds ==
    /\ \A op : Nack(op).kind = "NACK" /\ Ack(op).kind = "ACK"
    /\ \A status : MsdFrame(status).kind = "MSD"
    /\ \A granted, every : StartAck(granted, every).kind = "START_ACK"
    /\ RefreshSuccess.kind = "ACK" /\ RefreshTimeout.kind = "ACK"
    /\ Ack("PIPE_END") # RefreshSuccess /\ Ack("PIPE_END") # RefreshTimeout
    /\ RefreshSuccess # RefreshTimeout
  <1>1. Ack("PIPE_END").op = "PIPE_END" /\ RefreshSuccess.op = "REFRESH_SUCCESS"
        /\ RefreshTimeout.op = "REFRESH_TIMEOUT"
    BY DEF Ack, RefreshSuccess, RefreshTimeout
  <1>2. QED
    BY <1>1 DEF Nack, Ack, MsdFrame, StartAck, RefreshSuccess, RefreshTimeout

(* With one answer on its way, none is left behind it.                           *)
LEMMA OnlyAnswer ==
    ASSUME QueueTypes, NEW frame, Pending = <<frame>>, air # <<>>, air' = Tail(air), tx' = tx
    PROVE  Head(air) = frame /\ Pending' = <<>>
  <1>1. Pending' = Tail(Pending) /\ Head(air) = Pending[1]
    BY PendingHeard
  <1>2. QED
    BY <1>1

LEMMA HearWhileOff ==
    ASSUME LinkIInv, Hear
    PROVE  phase # "off"
  <1>1. phase = "off" => Pending = <<>>
    BY DEF LinkIInv, SetupInv
  <1>2. air # <<>> /\ air' = Tail(air)
    BY DEF Hear
  <1>3. air \in Seq(AnyFrame) /\ tx \in Seq(AnyFrame)
    BY DEF LinkIInv, QueueTypes
  <1>4. Pending = <<>> => air = <<>>
    BY <1>3, ConcatEmptySeq, ConcatProperties, EmptySeq DEF Pending
  <1>5. QED
    BY <1>1, <1>2, <1>4

LEMMA AirImpliesPending == ASSUME QueueTypes, air # <<>> PROVE Pending # <<>>
  BY ConcatEmptySeq, ConcatProperties, EmptySeq DEF QueueTypes, Pending

LEMMA HearInConfig ==
    ASSUME LinkIInv, Hear, phase = "config"
    PROVE  ClientInv'
  <1>1. /\ air # <<>> /\ air' = Tail(air) /\ QueueTypes /\ ClientTypes
        /\ unsent = 0 /\ acked = {} /\ loaded = {} /\ txn.state = "IDLE"
        /\ ReadingConfig
    BY DEF Hear, LinkIInv, SetupInv, Setup
  <1>2. Pending # <<>>
    BY <1>1, AirImpliesPending
  <1>3. CASE rx = <<>> /\ Pending = <<Nack("CONFIG_READ")>>
    <2>1. tx' = tx
      BY <1>1 DEF Hear, HearConfig, HearMsd, HearStartAck, HearSack, HearResult, Writes, OnBleWrite,
                  allVars, componentVars
    <2>2. Head(air) = Nack("CONFIG_READ") /\ Pending' = <<>>
      BY <1>1, <1>3, <2>1, OnlyAnswer
    <2>3. HearResult(Head(air))
      BY <1>1, <2>2, OwnKinds DEF Hear, HearConfig, HearMsd, HearStartAck, HearSack
    <2>4. /\ UNCHANGED allVars /\ phase' = phase
          /\ UNCHANGED <<window, unsent, acked, resends, blob>>
      BY <1>1, <2>2, <2>3, OwnKinds DEF HearResult
    <2>5. ReadingConfig'
      <3>1. Len(<<>>) = 0
        OBVIOUS
      <3>2. ConfigFresh(Pending', blob')
        BY <2>2, <3>1 DEF ConfigFresh
      <3>3. rx' = <<>>
        BY <1>3, <2>4 DEF allVars, componentVars
      <3>4. QED
        BY <3>2, <3>3 DEF ReadingConfig
    <2>6. /\ UNCHANGED <<txn, loaded, rx, tx, session>> /\ ConnectionInv' /\ PipeInv'
      BY <1>1, <2>4, HeardOnly
    <2>7. SetupInv' /\ ClientTypes' /\ TransferInv'
      BY <1>1, <2>4, <2>5, <2>6
         DEF SetupInv, Setup, ClientTypes, TransferInv, Transfer
    <2>8. QED
      BY <2>6, <2>7 DEF ClientInv
  <1>4. CASE rx = <<>> /\ ConfigFresh(Pending, blob)
    <2> DEFINE frame == Pending[1]
    <2>1. tx' = tx
      BY <1>1 DEF Hear, HearConfig, HearMsd, HearStartAck, HearSack, HearResult, Writes, OnBleWrite,
                  allVars, componentVars
    <2>2. /\ Head(air) = frame /\ Len(Pending) \in Nat \ {0} /\ Len(Pending') = Len(Pending) - 1
          /\ \A i \in 1 .. Len(Pending') : Pending'[i] = Pending[i + 1]
      BY <1>1, <2>1, PendingHeard
    <2>3. 1 \in 1 .. Len(Pending) /\ frame.kind = "CONFIG"
          /\ \A i \in 1 .. Len(Pending) : Pending[i].kind = "CONFIG"
      BY <1>4, <2>2 DEF ConfigFresh
    <2>4. HearConfig(frame)
      BY <1>1, <2>2, <2>3, OwnKinds DEF Hear, HearMsd, HearStartAck, HearSack, HearResult
    <2> HIDE DEF frame
    <2>5. /\ blob' = blob \cup frame.bytes /\ UNCHANGED <<window, unsent, acked, resends>>
          /\ blob' \subseteq 0 .. ConfigBlobLength - 1
      BY <1>1, <1>4, <2>3, <2>4 DEF HearConfig, ConfigFresh, ClientTypes, frame
    <2>6. ASSUME NEW i \in 1 .. Len(Pending')
          PROVE  /\ Pending'[i] = Pending[i + 1] /\ i + 1 \in 1 .. Len(Pending)
                 /\ Pending'[i].kind = "CONFIG"
                 /\ Pending'[i].bytes # {} /\ Pending'[i].bytes \subseteq 0 .. ConfigBlobLength - 1
                 /\ Pending'[i].bytes \cap blob' = {}
      <3>1. Pending'[i] = Pending[i + 1] /\ i + 1 \in 1 .. Len(Pending) /\ i + 1 # 1
        BY <2>2
      <3>2. /\ Pending[i + 1].bytes \cap blob = {} /\ Pending[i + 1].bytes \cap frame.bytes = {}
            /\ Pending[i + 1].kind = "CONFIG" /\ Pending[i + 1].bytes # {}
            /\ Pending[i + 1].bytes \subseteq 0 .. ConfigBlobLength - 1
        BY <1>4, <2>3, <3>1 DEF ConfigFresh, frame
      <3>3. QED
        BY <2>5, <3>1, <3>2
    <2>7. CASE blob' = 0 .. ConfigBlobLength - 1
      <3> DEFINE c == [op |-> "READ_MSD"]
      <3>1. /\ c \in Commands /\ Writes(c) /\ phase' = "msd"
        BY <2>4, <2>7, ClientAssumption DEF HearConfig
      <3> HIDE DEF c
      <3>2. Pending' = <<>>
        <4>1. ~(1 \in 1 .. Len(Pending'))
          BY <2>6, <2>7
        <4>2. Len(Pending') = 0
          BY <2>2, <4>1
        <4>3. Pending' \in Seq(AnyFrame)
          BY <1>1, <2>1, PendingHeard
        <4>4. QED
          BY <4>2, <4>3, EmptySeq
      <3>3. /\ UNCHANGED <<vars, tx, session>> /\ ConnectionInv' /\ rx' = <<Packet(c)>>
        BY <1>4, <3>1, WriteKeeps
      <3>4. ReadingMsd'
        BY <3>2, <3>3 DEF ReadingMsd, Packet, c
      <3>5. UNCHANGED <<txn, loaded>>
        BY <3>3 DEF vars
      <3>6. SetupInv' /\ ClientTypes' /\ TransferInv'
        BY <1>1, <2>5, <3>1, <3>4, <3>5
           DEF SetupInv, Setup, ClientTypes, Phases, TransferInv, Transfer
      <3>7. QED
        BY <3>3, <3>5, <3>6 DEF ClientInv, LinkIInv, PipeInv
    <2>8. CASE blob' # 0 .. ConfigBlobLength - 1
      <3>1. UNCHANGED <<phase, allVars>>
        BY <2>4, <2>8 DEF HearConfig
      <3>2. /\ UNCHANGED <<txn, loaded, rx, tx, session>> /\ ConnectionInv' /\ PipeInv'
        BY <1>1, <3>1, HeardOnly
      <3>3. ASSUME NEW i \in 1 .. Len(Pending'), NEW j \in 1 .. Len(Pending'), i # j
            PROVE  Pending'[i].bytes \cap Pending'[j].bytes = {}
        <4>1. i + 1 # j + 1
          BY <2>2, <3>3
        <4>2. /\ Pending'[i] = Pending[i + 1] /\ i + 1 \in 1 .. Len(Pending)
              /\ Pending'[j] = Pending[j + 1] /\ j + 1 \in 1 .. Len(Pending)
          BY <2>6, <3>3
        <4>3. Pending[i + 1].bytes \cap Pending[j + 1].bytes = {}
          BY <1>4, <4>1, <4>2 DEF ConfigFresh
        <4>4. QED
          BY <4>2, <4>3
      <3>4. ConfigFresh(Pending', blob')
        BY <2>6, <3>3 DEF ConfigFresh
      <3>5. ReadingConfig'
        BY <1>4, <3>2, <3>4 DEF ReadingConfig
      <3>6. SetupInv' /\ ClientTypes' /\ TransferInv'
        BY <1>1, <2>5, <3>1, <3>2, <3>5
           DEF SetupInv, Setup, ClientTypes, TransferInv, Transfer
      <3>7. QED
        BY <3>2, <3>6 DEF ClientInv
    <2>9. QED
      BY <2>7, <2>8
  <1>5. QED
    BY <1>1, <1>2, <1>3, <1>4 DEF ReadingConfig

(* Whichever answer is heard, the queue behind it stays.                         *)
LEMMA HearKeepsQueue == Hear => air # <<>> /\ air' = Tail(air) /\ tx' = tx
  BY DEF Hear, HearConfig, HearMsd, HearStartAck, HearSack, HearResult, Writes, OnBleWrite,
         allVars, componentVars

LEMMA HearInMsd ==
    ASSUME LinkIInv, Hear, phase = "msd"
    PROVE  ClientInv'
  <1>1. /\ air # <<>> /\ air' = Tail(air) /\ tx' = tx /\ QueueTypes /\ ClientTypes
        /\ unsent = 0 /\ acked = {} /\ loaded = {} /\ txn.state = "IDLE"
        /\ ReadingMsd
    BY HearKeepsQueue DEF LinkIInv, SetupInv, Setup
  <1>2. PICK status \in MsdStatuses : rx = <<>> /\ Pending = <<MsdFrame(status)>>
    BY <1>1, AirImpliesPending DEF ReadingMsd
  <1>3. Head(air) = MsdFrame(status) /\ Pending' = <<>>
    BY <1>1, <1>2, OnlyAnswer
  <1>4. HearMsd(MsdFrame(status))
    BY <1>3, OwnKinds DEF Hear, HearConfig, HearStartAck, HearSack, HearResult
  <1>5. /\ phase' = "start"
        /\ UNCHANGED <<window, unsent, acked, resends, blob>>
    BY <1>4 DEF HearMsd, MsdFrame
  <1>6. PICK request \in PipeRequests : Writes([op |-> "PIPE_START", request |-> request])
    BY <1>4 DEF HearMsd
  <1> DEFINE c == [op |-> "PIPE_START", request |-> request]
  <1>7. c \in Commands /\ Writes(c)
    BY <1>6, ClientAssumption
  <1> HIDE DEF c
  <1>8. UNCHANGED <<vars, session>> /\ ConnectionInv' /\ rx' = <<Packet(c)>>
    BY <1>2, <1>7, WriteKeeps
  <1>9. UNCHANGED <<txn, loaded>>
    BY <1>8 DEF vars
  <1>10. Starting'
    <2>1. rx' = <<Packet([op |-> "PIPE_START", request |-> request])>>
      BY <1>8 DEF c
    <2>2. Pending' = <<>> /\ txn'.state = "IDLE"
      BY <1>1, <1>3, <1>9
    <2>3. QED
      BY <1>8, <2>1, <2>2 DEF Starting, Packet
  <1>11. SetupInv' /\ ClientTypes' /\ TransferInv' /\ PipeInv'
    BY <1>1, <1>5, <1>9, <1>10
       DEF SetupInv, Setup, ClientTypes, Phases, TransferInv, Transfer, LinkIInv, PipeInv
  <1>12. QED
    BY <1>8, <1>11 DEF ClientInv

LEMMA HearInStart ==
    ASSUME LinkIInv, Hear, phase = "start"
    PROVE  ClientInv'
  <1>1. /\ air # <<>> /\ air' = Tail(air) /\ tx' = tx /\ QueueTypes /\ ClientTypes
        /\ unsent = 0 /\ acked = {} /\ loaded = {}
        /\ Starting /\ MaxWindow \in Nat \ {0} /\ FullFrameBytes \in Nat \ {0}
    BY HearKeepsQueue, EngineAssumption, BackendAssumption DEF LinkIInv, SetupInv, Setup
  <1>2. /\ rx = <<>> /\ txn.state # "REFRESHING"
        /\ \/ Pending = <<Nack("PIPE_START")>>
           \/ \E granted \in 1 .. MaxWindow, every \in 1 .. MaxAckEvery :
                 Pending = <<StartAck(granted, every)>>
    BY <1>1, AirImpliesPending DEF Starting
  <1>3. ASSUME UNCHANGED allVars, phase' \in {"failed", "sending"}, Pending' = <<>>,
               window' \in 0 .. MaxWindow, UNCHANGED <<unsent, acked, resends, blob>>
        PROVE  ClientInv'
    <2>1. ConnectionInv' /\ PipeInv' /\ UNCHANGED <<txn, loaded, rx>>
      BY <1>1, <1>3, HeardOnly
    <2>2. InFlight'
      BY <1>1, <1>2, <1>3, <2>1 DEF InFlight
    <2>3. WindowInv'
      <3>1. 0 \in 0 .. FullFrameBytes /\ 0 .. 0 - 1 = {} /\ 0 <= 0 + MaxWindow
        BY <1>1
      <3>2. QED
        BY <1>1, <1>3, <2>1, <3>1 DEF WindowInv
    <2>4. Answered(<<>>, {}, {})
      <3> DEFINE none == <<>>
                 counts == [i \in 1 .. Len(none) |-> 0]
      <3>1. Len(none) = 0
        OBVIOUS
      <3>2. counts \in [1 .. Len(none) -> Nat]
        OBVIOUS
      <3> HIDE DEF none, counts
      <3>3. \A i \in 1 .. Len(none) : FALSE
        BY <3>1
      <3>4. Counted(none, counts, {}, {})
        BY <3>3 DEF Counted
      <3>5. Answered(none, {}, {})
        BY <3>2, <3>3, <3>4 DEF Answered
      <3>6. QED
        BY <3>5 DEF none
    <2>5. TransferInv'
      BY <1>1, <1>3, <2>1, <2>2, <2>3, <2>4 DEF TransferInv
    <2>6. SetupInv' /\ ClientTypes'
      BY <1>1, <1>3 DEF SetupInv, Setup, ClientTypes, Phases, Ends
    <2>7. QED
      BY <2>1, <2>5, <2>6 DEF ClientInv
  <1>4. CASE Pending = <<Nack("PIPE_START")>>
    <2>1. Head(air) = Nack("PIPE_START") /\ Pending' = <<>>
      BY <1>1, <1>4, OnlyAnswer
    <2>2. HearResult(Nack("PIPE_START"))
      BY <2>1, OwnKinds DEF Hear, HearConfig, HearMsd, HearStartAck, HearSack
    <2>3. /\ UNCHANGED allVars /\ phase' = "failed"
          /\ UNCHANGED <<window, unsent, acked, resends, blob>>
      BY <2>2, OwnKinds DEF HearResult
    <2>4. window' \in 0 .. MaxWindow
      BY <1>1, <2>3 DEF ClientTypes
    <2>5. QED
      BY <1>3, <2>1, <2>3, <2>4
  <1>5. ASSUME NEW granted \in 1 .. MaxWindow, NEW every \in 1 .. MaxAckEvery,
               Pending = <<StartAck(granted, every)>>
        PROVE  ClientInv'
    <2>1. Head(air) = StartAck(granted, every) /\ Pending' = <<>>
      BY <1>1, <1>5, OnlyAnswer
    <2>2. HearStartAck(StartAck(granted, every))
      BY <2>1, OwnKinds DEF Hear, HearConfig, HearMsd, HearResult, HearSack
    <2>3. /\ UNCHANGED allVars /\ phase' = "sending" /\ window' = granted
          /\ UNCHANGED <<unsent, acked, resends, blob>>
      BY <2>2 DEF HearStartAck, StartAck
    <2>4. window' \in 0 .. MaxWindow
      BY <1>1, <2>3
    <2>5. QED
      BY <1>3, <2>1, <2>3, <2>4
  <1>6. QED
    BY <1>2, <1>4, <1>5

(* In a transfer an answer changes what the client believes only if it is a SACK,  *)
(* and every SACK is believed for what it counts.                                  *)
LEMMA HearSackInTransfer ==
    ASSUME LinkIInv, phase \in Transfer, HearSack(Pending[1]), air # <<>>,
           air' = Tail(air), tx' = tx, Pending[1] = Head(air)
    PROVE  TransferInv'
  <1>1. /\ QueueTypes /\ InFlight /\ WindowInv /\ Answered(Pending, loaded, acked)
        /\ unsent \in 0 .. FullFrameBytes /\ FullFrameBytes \in Nat \ {0}
        /\ loaded \subseteq 0 .. unsent - 1
    BY BackendAssumption DEF LinkIInv, TransferInv, ClientTypes, WindowInv
  <1>2. Pending \in Seq(AnyFrame) /\ Pending # <<>> /\ Pending' = Tail(Pending)
    BY <1>1, PendingTyped, PendingHeard
  <1>3. /\ IsSack(Pending[1]) /\ acked' = acked \cup Named(Pending[1])
        /\ UNCHANGED <<allVars, phase, window, unsent>>
    BY DEF HearSack, IsSack
  <1>4. UNCHANGED <<txn, loaded, rx>>
    BY <1>3 DEF allVars, vars, componentVars
  <1>5. loaded \subseteq Chunks
    BY <1>1 DEF Chunks, FrameOffsets
  <1>6. PICK count \in Nat \ {0} :
           /\ TrueSack(Pending[1], count, loaded, acked)
           /\ Answered(Tail(Pending), loaded, 0 .. count - 1)
    BY <1>1, <1>2, <1>3, <1>5, SackHeard
  <1>7. /\ 0 .. count - 1 \subseteq loaded /\ acked \subseteq 0 .. count - 1
        /\ Pending[1].highest = (count - 1) % SeqMod
        /\ Pending[1].mask = InorderAckMask(count)
    BY <1>6 DEF TrueSack
  <1>8. count <= unsent
    <2>1. count - 1 \in loaded
      BY <1>7
    <2>2. QED
      BY <1>1, <2>1
  <1>9. PICK base \in 0 .. FullFrameBytes : acked = 0 .. base - 1 /\ unsent <= base + MaxWindow
    BY <1>1 DEF WindowInv
  <1>10. acked \cup Named(Pending[1]) = 0 .. count - 1
    <2>1. unsent \in Nat
      BY <1>1
    <2>2. QED
      BY <1>7, <1>8, <1>9, <2>1, SackBelieved
  <1>11. acked' = 0 .. count - 1
    BY <1>3, <1>10
  <1>12. base <= count
    <2>1. CASE base = 0
      BY <2>1
    <2>2. CASE base > 0
      <3>1. base - 1 \in acked
        BY <1>9, <2>2
      <3>2. QED
        BY <1>7, <3>1
    <2>3. QED
      BY <2>1, <2>2
  <1>13. WindowInv'
    <2>1. count \in 0 .. FullFrameBytes /\ unsent <= count + MaxWindow
      BY <1>1, <1>8, <1>9, <1>12, EngineAssumption
    <2>2. acked = Chunks => acked' = Chunks
      <3>1. Chunks = 0 .. FullFrameBytes - 1
        BY DEF Chunks, FrameOffsets
      <3>2. ASSUME acked = Chunks PROVE acked' = Chunks
        <4>1. 0 .. count - 1 \subseteq Chunks /\ Chunks \subseteq 0 .. count - 1
          BY <1>5, <1>7, <3>2
        <4>2. QED
          BY <1>11, <4>1
      <3>3. QED
        BY <3>2
    <2>3. /\ acked' \subseteq loaded' /\ loaded' \subseteq 0 .. unsent' - 1
      BY <1>1, <1>3, <1>4, <1>7, <1>11
    <2>4. \E b \in 0 .. FullFrameBytes : acked' = 0 .. b - 1 /\ unsent' <= b + MaxWindow
      BY <1>3, <1>11, <2>1
    <2>5. QED
      BY <1>1, <1>3, <2>2, <2>3, <2>4 DEF WindowInv
  <1>14. InFlight'
    BY <1>1, <1>3, <1>4 DEF InFlight
  <1>15. Answered(Pending', loaded', acked')
    BY <1>2, <1>4, <1>6, <1>11
  <1>16. QED
    BY <1>13, <1>14, <1>15 DEF TransferInv

LEMMA HearResultInTransfer ==
    ASSUME LinkIInv, phase \in Transfer, HearResult(Pending[1]), air # <<>>,
           air' = Tail(air), tx' = tx, Pending[1] = Head(air)
    PROVE  TransferInv' /\ phase' \in Transfer
  <1>1. /\ QueueTypes /\ InFlight /\ WindowInv /\ Answered(Pending, loaded, acked)
        /\ unsent \in 0 .. FullFrameBytes /\ loaded \subseteq 0 .. unsent - 1
    BY DEF LinkIInv, TransferInv, ClientTypes, WindowInv
  <1>2. Pending \in Seq(AnyFrame) /\ Pending # <<>> /\ Pending' = Tail(Pending)
    BY <1>1, PendingTyped, PendingHeard
  <1>3. /\ ~IsSack(Pending[1]) /\ UNCHANGED <<allVars, window, unsent, acked>>
    BY OwnKinds DEF HearResult, IsSack
  <1>4. UNCHANGED <<txn, loaded, rx>>
    BY <1>3 DEF allVars, vars, componentVars
  <1>5. loaded \subseteq Chunks
    BY <1>1, BackendAssumption DEF Chunks, FrameOffsets
  <1>6. /\ Answered(Tail(Pending), loaded, acked)
        /\ Pending[1] = Ack("PIPE_END") => acked = Chunks
    BY <1>1, <1>2, <1>3, <1>5, OtherHeard
  <1>7. /\ phase' \in Transfer
        /\ phase' \in {"refreshing", "shown", "timeout"} =>
              phase \in {"refreshing", "shown", "timeout"} \/ Pending[1] = Ack("PIPE_END")
    <2>1. phase \in {"sending", "refreshing", "shown", "timeout", "failed"}
      BY DEF Transfer, Phases, Setup, Ends
    <2>2. /\ phase' \in {"sending", "refreshing", "shown", "timeout", "failed"}
          /\ phase' \in {"refreshing", "shown", "timeout"} =>
                phase \in {"refreshing", "shown", "timeout"} \/ Pending[1] = Ack("PIPE_END")
      BY <2>1 DEF HearResult
    <2>3. QED
      BY <2>2 DEF Transfer, Phases, Setup, Ends
  <1>8. WindowInv'
    <2>1. phase' \in {"refreshing", "shown", "timeout"} => acked' = Chunks
      BY <1>1, <1>3, <1>6, <1>7 DEF WindowInv
    <2>2. QED
      BY <1>1, <1>3, <1>4, <2>1 DEF WindowInv
  <1>9. InFlight'
    BY <1>1, <1>3, <1>4 DEF InFlight
  <1>10. Answered(Pending', loaded', acked')
    BY <1>2, <1>3, <1>4, <1>6
  <1>11. QED
    BY <1>7, <1>8, <1>9, <1>10 DEF TransferInv

LEMMA HearInTransfer ==
    ASSUME LinkIInv, Hear, phase \in Transfer
    PROVE  ClientInv'
  <1>1. /\ air # <<>> /\ air' = Tail(air) /\ tx' = tx /\ QueueTypes
        /\ \A i \in 1 .. Len(Pending) : TransferFrame(Pending[i])
    BY HearKeepsQueue DEF LinkIInv, TransferInv, Answered
  <1>2. Head(air) = Pending[1] /\ Len(Pending) \in Nat \ {0}
    BY <1>1, PendingHeard
  <1>3. \A i \in 1 .. Len(Pending) : Pending[i].kind \in {"SACK", "PIPE_NACK", "NACK", "ACK"}
    BY <1>1, OwnKinds DEF TransferFrame
  <1>4. Pending[1].kind \in {"SACK", "PIPE_NACK", "NACK", "ACK"}
    BY <1>2, <1>3
  <1>5. HearSack(Pending[1]) \/ HearResult(Pending[1])
    BY <1>2, <1>4 DEF Hear, HearConfig, HearMsd, HearStartAck
  <1>6. /\ UNCHANGED <<allVars, window, unsent, resends, blob>>
    BY <1>5 DEF HearSack, HearResult
  <1>7. phase' \in Transfer /\ TransferInv'
    BY <1>1, <1>2, <1>5, HearSackInTransfer, HearResultInTransfer DEF HearSack
  <1>8. phase # "off" /\ phase' \in Phases \ Setup
    BY <1>7 DEF Transfer, Setup
  <1>9. ConnectionInv' /\ PipeInv'
    BY <1>6, <1>8, HeardOnly
  <1>10. SetupInv' /\ ClientTypes'
    BY <1>6, <1>8 DEF SetupInv, Setup, LinkIInv, ClientTypes
  <1>11. QED
    BY <1>7, <1>9, <1>10 DEF ClientInv

(* What the client hears keeps the invariant.                                    *)
LEMMA HearStep ==
    ASSUME LinkIInv, Hear
    PROVE  /\ ClientInv'
           /\ tx' = tx /\ air' \in Seq(AnyFrame) /\ UNCHANGED entityVars
  <1>1. phase \in {"config", "msd", "start"} \cup Transfer
    BY HearWhileOff DEF LinkIInv, ClientTypes, Transfer, Setup
  <1>2. air # <<>> /\ air' = Tail(air) /\ tx' = tx /\ QueueTypes
    BY HearKeepsQueue DEF LinkIInv
  <1>3. air' \in Seq(AnyFrame)
    BY <1>2, PendingHeard
  <1>4. UNCHANGED entityVars
    BY DEF Hear, HearConfig, HearMsd, HearStartAck, HearSack, HearResult, Writes
  <1>5. QED
    BY <1>1, <1>2, <1>3, <1>4, HearInConfig, HearInMsd, HearInStart, HearInTransfer

------------------------------------------------------------------------------
(* The steps that bring no packet to the engine. *)

(* The transaction stays what it was, but for its deadline, or ends.             *)
Calm == txn'.state = "IDLE" \/ \E d : txn' = [txn EXCEPT !.deadline = d]

LEMMA CalmEngine ==
    ASSUME LinkIInv, Calm, UNCHANGED <<loaded, rx, unsent>>
    PROVE  /\ PipeInv' /\ (InFlight => InFlight')
           /\ txn.state = "IDLE" => txn'.state = "IDLE"
           /\ txn.state # "REFRESHING" => txn'.state # "REFRESHING"
  <1>1. txn \in Transactions
    BY DEF LinkIInv, IInv, TypeOK
  <1>2. CASE txn'.state = "IDLE"
    BY <1>2 DEF PipeInv, InFlight
  <1>3. ASSUME NEW d, txn' = [txn EXCEPT !.deadline = d]
        PROVE  /\ PipeInv' /\ (InFlight => InFlight')
               /\ txn'.state = txn.state
    <2>1. /\ txn'.state = txn.state /\ txn'.mode = txn.mode /\ txn'.pipe_fatal = txn.pipe_fatal
          /\ txn'.next_pipe_sequence = txn.next_pipe_sequence
          /\ txn'.accepted_bytes = txn.accepted_bytes
          /\ txn'.accepted_packets = txn.accepted_packets
          /\ txn'.highest_seen = txn.highest_seen
      BY <1>1, <1>3 DEF Transactions
    <2>2. PipeInv'
      BY <2>1 DEF LinkIInv, PipeInv
    <2>3. InFlight => InFlight'
      BY <2>1 DEF InFlight
    <2>4. QED
      BY <2>1, <2>2, <2>3
  <1>4. QED
    BY <1>2, <1>3 DEF Calm

LEMMA CalmStep ==
    ASSUME LinkIInv, Calm, ConnectionInv', UNCHANGED <<loaded, rx, session>>,
           UNCHANGED <<phase, window, unsent, acked, resends, blob>>,
           phase \in Setup => Pending' = Pending,
           phase \in Transfer => Answered(Pending', loaded, acked)
    PROVE  ClientInv'
  <1>1. /\ PipeInv' /\ (InFlight => InFlight')
        /\ txn.state = "IDLE" => txn'.state = "IDLE"
        /\ txn.state # "REFRESHING" => txn'.state # "REFRESHING"
    BY CalmEngine
  <1>2. ClientTypes'
    BY DEF LinkIInv, ClientTypes
  <1>3. TransferInv'
    <2>1. WindowInv => WindowInv'
      BY DEF WindowInv
    <2>2. QED
      BY <1>1, <2>1 DEF LinkIInv, TransferInv
  <1>4. SetupInv'
    <2>1. /\ phase = "config" => ReadingConfig'
          /\ phase = "msd" => ReadingMsd'
      <3>1. Pending' = Pending /\ ReadingConfig => ReadingConfig'
        BY DEF ReadingConfig, Packet
      <3>2. Pending' = Pending /\ ReadingMsd => ReadingMsd'
        BY DEF ReadingMsd, Packet
      <3>3. QED
        BY <3>1, <3>2 DEF LinkIInv, SetupInv, Setup
    <2>2. phase = "start" => Starting'
      <3>1. Pending' = Pending /\ Starting => Starting'
        BY <1>1 DEF Starting, Packet
      <3>2. QED
        BY <3>1 DEF LinkIInv, SetupInv, Setup
    <2>3. phase = "off" => rx' = <<>> /\ Pending' = <<>> /\ blob' = {}
      BY DEF LinkIInv, SetupInv, Setup
    <2>4. /\ phase \in Setup => unsent = 0 /\ acked = {} /\ loaded = {}
          /\ phase \in {"off", "config", "msd"} => txn.state = "IDLE"
      BY DEF LinkIInv, SetupInv
    <2>5. QED
      BY <1>1, <2>1, <2>2, <2>3, <2>4 DEF SetupInv
  <1>5. QED
    BY <1>1, <1>2, <1>3, <1>4 DEF ClientInv

LEMMA UnchangedIsCalm == ASSUME LinkIInv, txn' = txn PROVE Calm
  <1>1. txn \in Transactions
    BY DEF LinkIInv, IInv, TypeOK
  <1>2. txn = [txn EXCEPT !.deadline = txn.deadline]
    BY <1>1 DEF Transactions
  <1>3. QED
    BY <1>2 DEF Calm

LEMMA StillStep ==
    ASSUME LinkIInv, Calm, ConnectionInv', UNCHANGED <<loaded, rx, session>>,
           UNCHANGED <<phase, window, unsent, acked, resends, blob>>, Pending' = Pending
    PROVE  ClientInv'
  <1>1. phase \in Transfer => Answered(Pending', loaded, acked)
    BY DEF LinkIInv, TransferInv
  <1>2. QED
    BY <1>1, CalmStep

(* A connection comes up before the client has asked for anything.               *)
LEMMA ConnectStep ==
    ASSUME LinkIInv, Connect \/ Connecting
    PROVE  ClientInv' /\ Pending' = Pending
  <1>1. /\ UNCHANGED <<clientVars, rx, tx, txn, loaded>>
        /\ phase = "off"
    BY DEF Connect, Connecting, OnBleConnect, CountConnection, TellEngine, LinkIInv,
           ConnectionInv, SetConnectionGeneration, vars, backendVars
  <1>2. rx = <<>> /\ Pending = <<>> /\ txn.state = "IDLE" /\ loaded = {}
        /\ unsent = 0 /\ acked = {} /\ blob = {}
    BY <1>1 DEF LinkIInv, SetupInv, Setup
  <1>3. Pending' = Pending /\ phase' = phase
    BY <1>1 DEF Pending, clientVars
  <1>4. ConnectionInv'
    <2>1. \A i \in 1 .. Len(<<>>) : FALSE
      OBVIOUS
    <2>2. QED
      BY <1>1, <1>2, <1>3, <2>1 DEF ConnectionInv
  <1>5. SetupInv' /\ ClientTypes' /\ TransferInv' /\ PipeInv'
    BY <1>1, <1>2, <1>3
       DEF SetupInv, Setup, TransferInv, Transfer, PipeInv, LinkIInv, ClientTypes, clientVars
  <1>6. QED
    BY <1>3, <1>4, <1>5 DEF ClientInv

LEMMA WorldStep ==
    ASSUME LinkIInv, Finishes \/ DriverBreaks \/ World(DeadlinePasses) \/ UNCHANGED linkVars
    PROVE  ClientInv' /\ Pending' = Pending
  <1>1. UNCHANGED <<componentVars, clientVars, loaded>>
    BY DEF Finishes, DriverBreaks, World, DriverFinishes, DriverFails, DeadlinePasses,
           backendVars, linkVars, entitiesVars, allVars, vars
  <1>2. txn' = txn \/ txn' = [txn EXCEPT !.deadline = "passed"]
    BY DEF Finishes, DriverBreaks, World, engineVars, DeadlinePasses, linkVars, entitiesVars,
           allVars, vars
  <1>3. Calm
    BY <1>2, UnchangedIsCalm DEF Calm
  <1>4. Pending' = Pending /\ UNCHANGED <<rx, session>>
        /\ UNCHANGED <<phase, window, unsent, acked, resends, blob>>
    BY <1>1 DEF Pending, componentVars, clientVars
  <1>5. ConnectionInv'
    BY <1>1, <1>4 DEF LinkIInv, ConnectionInv, componentVars
  <1>6. QED
    BY <1>1, <1>3, <1>4, <1>5, StillStep

(* Nobody disconnects, so loop() has no transfer to end.                         *)
LEMMA LoopStartsStep ==
    ASSUME LinkIInv, LoopStarts \/ PacketsHandled, air' = air,
           UNCHANGED <<phase, window, unsent, acked, resends, blob>>
    PROVE  ClientInv' /\ Pending' = Pending
  <1>1. UNCHANGED <<connected, linking, session, rx, tx>>
    BY DEF LoopStarts, PacketsHandled
  <1>2. UNCHANGED vars
    <2>1. ~connected => txn.state = "IDLE"
      BY DEF LinkIInv, ConnectionInv, SetupInv
    <2>2. QED
      BY <2>1 DEF LoopStarts, PacketsHandled, DisconnectEnds
  <1>3. Calm /\ loaded' = loaded
    BY <1>2, UnchangedIsCalm DEF vars
  <1>4. Pending' = Pending
    BY <1>1 DEF Pending
  <1>5. ConnectionInv'
    BY <1>1 DEF LinkIInv, ConnectionInv
  <1>6. QED
    BY <1>1, <1>3, <1>4, <1>5, StillStep

LEMMA DrainStep ==
    ASSUME LinkIInv, LoopDrains, air' = air \o Notified,
           UNCHANGED <<phase, window, unsent, acked, resends, blob>>
    PROVE  ClientInv' /\ Pending' = Pending /\ air' \in Seq(AnyFrame)
  <1>1. UNCHANGED <<connected, linking, session, rx>> /\ UNCHANGED vars
    BY DEF LoopDrains
  <1>2. QueueTypes /\ tx \in Seq(AnyFrame) /\ Len(tx) \in Nat
    BY DEF LinkIInv, QueueTypes
  <1>3. Pending' = Pending /\ air' \in Seq(AnyFrame)
    <2>1. ASSUME NEW n \in 0 .. Len(tx), tx' = SubSeq(tx, n + 1, Len(tx))
          PROVE  Pending' = Pending /\ air' \in Seq(AnyFrame)
      <3>1. Len(tx') = Len(tx) - n
        BY <1>2, <2>1
      <3>2. Len(tx) - Len(tx') = n
        BY <1>2, <3>1
      <3>3. air' = air \o SubSeq(tx, 1, n)
        BY <3>2 DEF Notified
      <3>4. QED
        BY <1>2, <2>1, <3>3, PendingDrained
    <2>2. CASE connected
      <3>1. Lesser(LoopFrames, Len(tx)) \in 0 .. Len(tx)
        BY <1>2, ComponentAssumption DEF Lesser
      <3>2. QED
        BY <2>1, <2>2, <3>1 DEF LoopDrains
    <2>3. CASE ~connected
      <3>1. tx' = SubSeq(tx, 0 + 1, Len(tx))
        BY <1>2, <2>3, SubSeqFull DEF LoopDrains
      <3>2. 0 \in 0 .. Len(tx)
        BY <1>2
      <3>3. QED
        BY <2>1, <3>1, <3>2
    <2>4. QED
      BY <2>2, <2>3
  <1>4. Calm /\ loaded' = loaded
    BY <1>1, UnchangedIsCalm DEF vars
  <1>5. ConnectionInv'
    BY <1>1 DEF LinkIInv, ConnectionInv
  <1>6. QED
    BY <1>1, <1>3, <1>4, <1>5, StillStep

(* The tick ends a refresh with an answer, an open transfer without one, and does   *)
(* nothing to a client that is not in a transfer.                                   *)
LEMMA TickCalls ==
    ASSUME LinkIInv, Tick
    PROVE  /\ Calm /\ loaded' = loaded
           /\ \/ reply'.frames = <<>>
              \/ /\ txn.state = "REFRESHING"
                 /\ reply'.frames \in {<<RefreshSuccess>>, <<RefreshTimeout>>}
  <1>1. loaded' = loaded
    BY DEF Tick, TickReleases, TickExpires, TickIdles, Refuse, backendVars
  <1>2. txn' = NoTxn \/ txn' = txn
    BY DEF Tick, TickReleases, TickExpires, TickIdles, Refuse, Abort
  <1>3. Calm
    BY <1>2, UnchangedIsCalm DEF Calm, NoTxn
  <1>4. CASE TickReleases
    BY <1>1, <1>3, <1>4 DEF TickReleases, Answer, Failure, Silence, Reply
  <1>5. CASE TickExpires
    BY <1>1, <1>3, <1>5 DEF TickExpires, Answer, Failure, Reply
  <1>6. CASE TickIdles
    BY <1>1, <1>3, <1>6 DEF TickIdles, Refuse, Answer, Silence, Reply
  <1>7. QED
    BY <1>4, <1>5, <1>6 DEF Tick

LEMMA TickedStep ==
    ASSUME LinkIInv, LoopTicks, air' = air,
           UNCHANGED <<phase, window, unsent, acked, resends, blob>>
    PROVE  ClientInv' /\ (Pending' = Pending \/ \E f \in AnyFrame : Pending' = Append(Pending, f))
  <1>1. Tick /\ ApplyResult(reply') /\ UNCHANGED <<connected, linking, session, rx>>
    BY DEF LoopTicks
  <1>2. ConnectionInv' /\ QueueTypes /\ tx \in Seq(AnyFrame) /\ Pending \in Seq(AnyFrame)
    BY <1>1, PendingTyped DEF LinkIInv, ConnectionInv, QueueTypes
  <1>3. CASE tx' = tx
    <2>1. Pending' = Pending
      BY <1>3 DEF Pending
    <2>2. QED
      BY <1>1, <1>2, <2>1, TickCalls, StillStep
  <1>4. ASSUME NEW frame \in {RefreshSuccess, RefreshTimeout}, txn.state = "REFRESHING",
               tx' = Append(tx, frame)
        PROVE  ClientInv' /\ \E f \in AnyFrame : Pending' = Append(Pending, f)
    <2>1. frame \in AnyFrame
      BY FrameTypes DEF AnyFrame, RefreshSuccess, RefreshTimeout, Opcodes
    <2>2. Pending' = Append(Pending, frame)
      BY <1>2, <1>4, <2>1, PendingAppend
    <2>3. phase \in Transfer
      BY <1>4 DEF LinkIInv, SetupInv, Starting, ClientTypes, Transfer, Setup
    <2>4. Answered(Append(Pending, frame), loaded, acked)
      <3>1. TransferFrame(frame) /\ ~IsSack(frame) /\ frame # Ack("PIPE_END")
        BY OwnKinds DEF TransferFrame, IsSack
      <3>2. Answered(Pending, loaded, acked)
        BY <2>3 DEF LinkIInv, TransferInv
      <3>3. QED
        BY <1>2, <2>1, <3>1, <3>2, AnsweredOther
    <2>5. phase \notin Setup
      BY <2>3 DEF Transfer
    <2>6. QED
      BY <1>1, <1>2, <2>1, <2>2, <2>4, <2>5, TickCalls, CalmStep
  <1>5. \/ tx' = tx
        \/ /\ txn.state = "REFRESHING"
           /\ \E frame \in {RefreshSuccess, RefreshTimeout} : tx' = Append(tx, frame)
    <2>1. CASE reply'.frames = <<>>
      BY <1>1, <2>1, NothingApplied
    <2>2. ASSUME NEW frame \in {RefreshSuccess, RefreshTimeout}, reply'.frames = <<frame>>
          PROVE  tx' \in {tx, Append(tx, frame)}
      BY <1>1, <1>2, <2>2, OneApplied
    <2>3. QED
      BY <1>1, <2>1, <2>2, TickCalls
  <1>6. CASE txn.state = "REFRESHING" /\ \E frame \in {RefreshSuccess, RefreshTimeout} :
                                            tx' = Append(tx, frame)
    <2>1. ClientInv' /\ \E f \in AnyFrame : Pending' = Append(Pending, f)
      BY <1>4, <1>6
    <2>2. QED
      BY <2>1
  <1>7. QED
    BY <1>3, <1>5, <1>6

------------------------------------------------------------------------------
(* The packets. *)

(* One packet is handed to the engine or answered from what the component knows;  *)
(* it is never stale.                                                             *)
LEMMA PacketTaken ==
    ASSUME LinkIInv, PacketWithEntities, phase' = phase
    PROVE  /\ phase # "off" /\ rx # <<>> /\ Head(rx) = rx[1] /\ rx[1].session = session
           /\ rx' = Tail(rx) /\ Len(rx) \in Nat \ {0} /\ Len(rx') = Len(rx) - 1
           /\ \A i \in 1 .. Len(rx') : rx'[i] = rx[i + 1] /\ i + 1 \in 1 .. Len(rx)
           /\ HandleOwnPacket(rx[1].command, msd_status)
           /\ msd_status \in MsdStatuses
           /\ session' = session /\ ConnectionInv'
  <1> DEFINE S == [session : 0 .. MaxGeneration, command : Commands]
  <1>1. rx # <<>> /\ rx' = Tail(rx) /\ UNCHANGED <<connected, linking, session>>
    BY DEF PacketWithEntities, HandlePacket
  <1>2. phase # "off"
    BY <1>1 DEF LinkIInv, SetupInv
  <1>3. rx \in Seq(S)
    BY DEF LinkIInv, LinkInv
  <1> HIDE DEF S
  <1>4. /\ Head(rx) = rx[1] /\ Len(rx) \in Nat \ {0} /\ Len(rx') = Len(rx) - 1
        /\ \A i \in 1 .. Len(rx') : rx'[i] = rx[i + 1]
    BY <1>1, <1>3, HeadTailProperties, LenProperties
  <1>5. \A i \in 1 .. Len(rx') : i + 1 \in 1 .. Len(rx)
    BY <1>4
  <1>6. \A i \in 1 .. Len(rx) : rx[i].session = session
    BY DEF LinkIInv, ConnectionInv
  <1>7. 1 \in 1 .. Len(rx)
    BY <1>4
  <1>8. HandleOwnPacket(rx[1].command, msd_status)
    BY <1>4, <1>6, <1>7 DEF PacketWithEntities, HandlePacket
  <1>9. ConnectionInv'
    <2>1. \A i \in 1 .. Len(rx') : rx'[i].session = session
      BY <1>4, <1>5, <1>6
    <2>2. QED
      BY <1>1, <2>1 DEF LinkIInv, ConnectionInv
  <1>10. msd_status \in MsdStatuses
    BY DEF LinkIInv, EntityIInv, EntityTypeOK
  <1>11. QED
    BY <1>1, <1>2, <1>4, <1>5, <1>6, <1>7, <1>8, <1>9, <1>10

(* The only packet of a client that waits for an answer.                         *)
LEMMA OnlyPacket ==
    ASSUME LinkIInv, PacketWithEntities, phase' = phase, NEW c, rx = <<Packet(c)>>
    PROVE  HandleOwnPacket(c, msd_status) /\ rx' = <<>>
  <1>1. <<Packet(c)>>[1].command = c /\ Tail(<<Packet(c)>>) = <<>>
    BY DEF Packet
  <1>2. QED
    BY <1>1, PacketTaken

LEMMA NothingPending ==
    ASSUME QueueTypes, Pending = <<>>
    PROVE  /\ air = <<>> /\ tx = <<>>
           /\ \A more \in Seq(AnyFrame) : tx' = more /\ air' = air => Pending' = more
  <1>1. air \in Seq(AnyFrame) /\ tx \in Seq(AnyFrame)
    BY DEF QueueTypes
  <1>2. air = <<>> /\ tx = <<>>
    BY <1>1, ConcatProperties, EmptySeq DEF Pending
  <1>3. \A more \in Seq(AnyFrame) : <<>> \o more = more
    BY ConcatEmptySeq
  <1>4. QED
    BY <1>2, <1>3 DEF Pending

(* The answer to CONFIG_READ: chunks of the blob that share no byte, or one NACK. *)
LEMMA ConfigAnswer ==
    ASSUME tx = <<>>, SendUntilRefused(ConfigFrames)
    PROVE  /\ tx' \in Seq(AnyFrame)
           /\ tx' = <<Nack("CONFIG_READ")>> \/ ConfigFresh(tx', {})
  <1>1. PICK n \in 0 .. Len(ConfigFrames) : tx' = tx \o SubSeq(ConfigFrames, 1, n)
    BY DEF SendUntilRefused
  <1>2. /\ ConfigChunks \in [1 .. 2 -> OwnFrames]
        /\ \A i \in 1 .. 2 :
              /\ ConfigChunks[i].kind = "CONFIG"
              /\ ConfigChunks[i].bytes = ChunkBytes(ConfigBlobLength, i - 1)
    BY TwoChunks DEF ConfigChunks, OwnFrames
  <1>3. OwnFrames \subseteq AnyFrame /\ Nack("CONFIG_READ") \in AnyFrame
    BY DEF AnyFrame, OwnFrames
  <1>4. CASE ConfigFrames = <<Nack("CONFIG_READ")>>
    <2>1. \A f \in AnyFrame : /\ SubSeq(<<f>>, 1, 0) = <<>> /\ SubSeq(<<f>>, 1, 1) = <<f>>
                              /\ Len(<<f>>) = 1 /\ <<f>> \in Seq(AnyFrame)
      BY OneElement
    <2>2. n \in {0, 1} /\ \A q \in Seq(AnyFrame) : <<>> \o q = q
      BY <1>3, <1>4, <2>1, ConcatEmptySeq
    <2>3. <<>> \in Seq(AnyFrame)
      OBVIOUS
    <2>4. tx' \in {<<>>, <<Nack("CONFIG_READ")>>}
      BY <1>1, <1>3, <1>4, <2>1, <2>2, <2>3
    <2>5. ConfigFresh(<<>>, {})
      <3>1. \A i \in 1 .. Len(<<>>) : FALSE
        OBVIOUS
      <3>2. QED
        BY <3>1 DEF ConfigFresh
    <2>6. QED
      BY <1>3, <2>1, <2>3, <2>4, <2>5
  <1>5. CASE ConfigFrames = ConfigChunks
    <2>1. ConfigChunks \in Seq(AnyFrame) /\ Len(ConfigChunks) = 2
      <3>1. ConfigChunks \in [1 .. 2 -> AnyFrame]
        BY <1>2, <1>3
      <3>2. ConfigChunks \in Seq(AnyFrame)
        <4>1. Seq(AnyFrame) = UNION {[1 .. k -> AnyFrame] : k \in Nat}
          BY SeqDef
        <4>2. 2 \in Nat
          OBVIOUS
        <4>3. QED
          BY <3>1, <4>1, <4>2, Zenon
      <3>3. DOMAIN ConfigChunks = 1 .. 2
        BY <3>1
      <3>4. QED
        BY <3>2, <3>3, LenProperties
    <2> DEFINE chunks == ConfigChunks
               sent == SubSeq(chunks, 1, n)
    <2>2. /\ chunks \in Seq(AnyFrame) /\ Len(chunks) = 2 /\ n \in 0 .. 2
          /\ tx' = <<>> \o sent
      BY <1>1, <1>5, <2>1
    <2>3. \A i \in 1 .. 2 : chunks[i].kind = "CONFIG"
                             /\ chunks[i].bytes = ChunkBytes(ConfigBlobLength, i - 1)
      BY <1>2
    <2> HIDE DEF chunks
    <2>4. /\ sent \in Seq(AnyFrame) /\ Len(sent) = n
          /\ \A i \in 1 .. n : sent[i] = chunks[i] /\ i \in 1 .. 2
      BY <2>2
    <2> HIDE DEF sent
    <2>5. tx' = sent
      BY <2>2, <2>4, ConcatEmptySeq
    <2>6. \A i \in 1 .. 2 : /\ ChunkBytes(ConfigBlobLength, i - 1) # {}
                            /\ ChunkBytes(ConfigBlobLength, i - 1) \subseteq 0 .. ConfigBlobLength - 1
      <3>1. \A i \in 1 .. 2 : i - 1 \in {0, 1}
        OBVIOUS
      <3>2. QED
        BY <3>1, TwoChunks DEF ChunkBytes
    <2>7. ASSUME NEW i \in 1 .. 2, NEW j \in 1 .. 2, i # j
          PROVE  ChunkBytes(ConfigBlobLength, i - 1) \cap ChunkBytes(ConfigBlobLength, j - 1) = {}
      <3>1. i - 1 \in Nat /\ j - 1 \in Nat /\ i - 1 # j - 1
        BY <2>7
      <3>2. SUFFICES ASSUME NEW p, p \in ChunkBytes(ConfigBlobLength, i - 1),
                            p \in ChunkBytes(ConfigBlobLength, j - 1)
                     PROVE  FALSE
        OBVIOUS
      <3>3. p \in 0 .. ConfigBlobLength - 1
        BY <2>6, <3>2
      <3>4. i - 1 = ChunkOf(p) /\ j - 1 = ChunkOf(p)
        BY <3>1, <3>2, <3>3, TwoChunks, InChunk
      <3>5. QED
        BY <3>1, <3>4
    <2>8. ConfigFresh(sent, {})
      BY <2>3, <2>4, <2>6, <2>7 DEF ConfigFresh
    <2>9. QED
      BY <2>4, <2>5, <2>8
  <1>6. QED
    BY <1>4, <1>5 DEF ConfigFrames

LEMMA ConfigPacket ==
    ASSUME LinkIInv, PacketWithEntities, air' = air, phase = "config",
           UNCHANGED <<phase, window, unsent, acked, resends, blob>>
    PROVE  ClientInv' /\ loaded' = loaded
  <1> DEFINE c == [op |-> "CONFIG_READ"]
  <1>1. /\ QueueTypes /\ txn.state = "IDLE" /\ unsent = 0 /\ acked = {} /\ loaded = {}
        /\ rx # <<>> /\ ReadingConfig
    BY PacketTaken DEF LinkIInv, SetupInv, Setup
  <1>2. rx = <<Packet(c)>> /\ Pending = <<>> /\ blob = {}
    BY <1>1 DEF ReadingConfig
  <1> HIDE DEF c
  <1>3. HandleOwnPacket(c, msd_status) /\ rx' = <<>>
    BY <1>2, OnlyPacket
  <1>4. SendUntilRefused(ConfigFrames) /\ UNCHANGED vars
    BY <1>3 DEF HandleOwnPacket, HandleCommand, HandleQuery, OwnAnswer, c
  <1>5. tx = <<>>
    BY <1>1, <1>2, NothingPending
  <1>6. /\ tx' \in Seq(AnyFrame)
        /\ tx' = <<Nack("CONFIG_READ")>> \/ ConfigFresh(tx', {})
    BY <1>4, <1>5, ConfigAnswer
  <1>7. Pending' = tx'
    BY <1>1, <1>2, <1>6, NothingPending
  <1>8. ReadingConfig'
    <2>1. CASE tx' = <<Nack("CONFIG_READ")>>
      BY <1>3, <1>7, <2>1 DEF ReadingConfig, Nack
    <2>2. CASE ConfigFresh(tx', {})
      <3>1. ConfigFresh(Pending', blob')
        BY <1>2, <1>7, <2>2
      <3>2. QED
        BY <1>3, <3>1 DEF ReadingConfig
    <2>3. QED
      BY <1>6, <2>1, <2>2
  <1>9. UNCHANGED <<txn, loaded>>
    BY <1>4 DEF vars
  <1>10. SetupInv' /\ ClientTypes' /\ TransferInv' /\ PipeInv'
    BY <1>1, <1>8, <1>9
       DEF SetupInv, Setup, LinkIInv, ClientTypes, TransferInv, Transfer, PipeInv
  <1>11. ConnectionInv'
    BY PacketTaken
  <1>12. QED
    BY <1>9, <1>10, <1>11 DEF ClientInv

(* READ_MSD finds room for its one answer.                                       *)
LEMMA MsdPacket ==
    ASSUME LinkIInv, PacketWithEntities, air' = air, phase = "msd",
           UNCHANGED <<phase, window, unsent, acked, resends, blob>>
    PROVE  ClientInv' /\ loaded' = loaded
  <1> DEFINE c == [op |-> "READ_MSD"]
             frame == MsdFrame(msd_status)
  <1>1. /\ QueueTypes /\ txn.state = "IDLE" /\ unsent = 0 /\ acked = {} /\ loaded = {}
        /\ rx # <<>> /\ ReadingMsd /\ msd_status \in MsdStatuses
    BY PacketTaken DEF LinkIInv, SetupInv, Setup
  <1>2. rx = <<Packet(c)>> /\ Pending = <<>>
    BY <1>1 DEF ReadingMsd
  <1> HIDE DEF c
  <1>3. HandleOwnPacket(c, msd_status) /\ rx' = <<>>
    BY <1>2, OnlyPacket
  <1>4. SendUntilRefused(<<frame>>) /\ UNCHANGED vars
    BY <1>3 DEF HandleOwnPacket, HandleCommand, HandleQuery, OwnAnswer, c
  <1>5. tx = <<>>
    BY <1>1, <1>2, NothingPending
  <1>6. frame \in AnyFrame /\ frame.kind = "MSD" /\ frame.status = msd_status
    BY <1>1 DEF AnyFrame, OwnFrames, MsdFrame
  <1> HIDE DEF frame
  <1>7. tx' = <<frame>>
    <2>1. Len(tx) = 0 /\ Len(<<frame>>) = 1 /\ <<frame>> \in Seq(AnyFrame)
          /\ SubSeq(<<frame>>, 1, 1) = <<frame>>
      BY <1>5, <1>6, OneElement
    <2>2. TxAccepts(0, FALSE)
      BY ComponentAssumption DEF TxAccepts
    <2>3. PICK n \in 0 .. 1 : /\ n < 1 => ~TxAccepts(0 + n, FALSE)
                              /\ tx' = <<>> \o SubSeq(<<frame>>, 1, n)
      BY <1>4, <1>5, <2>1 DEF SendUntilRefused
    <2>4. n = 1
      <3>1. 0 + 0 = 0 /\ 0 < 1
        OBVIOUS
      <3>2. n # 0
        BY <2>2, <2>3, <3>1
      <3>3. QED
        BY <3>2
    <2>5. tx' = <<>> \o <<frame>>
      BY <2>1, <2>3, <2>4
    <2>6. QED
      BY <2>1, <2>5, ConcatEmptySeq
  <1>8. Pending' = <<frame>>
    <2>1. <<frame>> \in Seq(AnyFrame)
      BY <1>6
    <2>2. QED
      BY <1>1, <1>2, <1>7, <2>1, NothingPending
  <1>9. ReadingMsd'
    BY <1>1, <1>3, <1>8 DEF ReadingMsd, frame, MsdFrame
  <1>10. UNCHANGED <<txn, loaded>>
    BY <1>4 DEF vars
  <1>11. SetupInv' /\ ClientTypes' /\ TransferInv' /\ PipeInv'
    BY <1>1, <1>9, <1>10
       DEF SetupInv, Setup, LinkIInv, ClientTypes, TransferInv, Transfer, PipeInv
  <1>12. ConnectionInv'
    BY PacketTaken
  <1>13. QED
    BY <1>10, <1>11, <1>12 DEF ClientInv

(* START is answered, and what it begins has accepted nothing yet.               *)
LEMMA StartHandled ==
    ASSUME NEW request \in PipeRequests, OnPipeStart(request), txn.state = "IDLE", loaded = {}
    PROVE  /\ loaded' = {} /\ PipeInv' /\ txn'.state # "REFRESHING"
           /\ \/ reply'.frames = <<Nack("PIPE_START")>>
              \/ \E granted \in 1 .. MaxWindow, every \in 1 .. MaxAckEvery :
                    reply'.frames = <<StartAck(granted, every)>>
  <1> DEFINE granted == Lesser(request.req_window, MaxWindow)
             every == Lesser(request.req_ack_every, MaxAckEvery)
  <1>1. request.well_formed /\ ~request.compressed /\ request \in PipeRequestType
    BY LinkAssumption, EngineAssumption
  <1>2. granted \in 1 .. MaxWindow /\ every \in 1 .. MaxAckEvery
    BY <1>1, EngineAssumption DEF PipeRequestType, Lesser
  <1> HIDE DEF granted, every
  <1>3. CASE BeginRefused(request.total_size) /\ reply' = Failure(<<Nack("PIPE_START")>>)
    <2>1. loaded' = {} /\ txn'.state = "IDLE"
      BY <1>3 DEF BeginRefused, Abort, NoTxn
    <2>2. reply'.frames = <<Nack("PIPE_START")>>
      BY <1>3 DEF Failure, Reply
    <2>3. QED
      BY <2>1, <2>2 DEF PipeInv
  <1>4. CASE /\ BeginAccepted("PIPE", request.total_size, granted, every)
             /\ reply' = Reply(<<StartAck(granted, every)>>, TRUE, FALSE)
    <2>1. loaded' = {}
      BY <1>4 DEF BeginAccepted, BeginFrame
    <2>2. /\ txn'.state = "RECEIVING" /\ txn'.mode = "PIPE" /\ ~txn'.pipe_fatal
          /\ txn'.next_pipe_sequence = 0 /\ txn'.accepted_bytes = 0
          /\ txn'.accepted_packets = 0
      BY <1>4 DEF BeginAccepted, NoTxn
    <2>3. Lesser(0, AckMaskBits + 1) = 0
      BY EngineAssumption DEF Lesser
    <2>4. PipeInv'
      BY <2>2, <2>3, NumberZero DEF PipeInv
    <2>5. reply'.frames = <<StartAck(granted, every)>>
      BY <1>4 DEF Reply
    <2>6. QED
      BY <1>2, <2>1, <2>2, <2>4, <2>5
  <1>5. QED
    BY <1>1, <1>3, <1>4 DEF OnPipeStart, granted, every

LEMMA StartPacket ==
    ASSUME LinkIInv, PacketWithEntities, air' = air, phase = "start",
           UNCHANGED <<phase, window, unsent, acked, resends, blob>>
    PROVE  ClientInv' /\ loaded' = {}
  <1>1. /\ QueueTypes /\ unsent = 0 /\ acked = {} /\ loaded = {}
        /\ rx # <<>> /\ Starting
    BY PacketTaken DEF LinkIInv, SetupInv, Setup
  <1>2. PICK request \in PipeRequests :
            rx = <<Packet([op |-> "PIPE_START", request |-> request])>>
    BY <1>1 DEF Starting
  <1> DEFINE c == [op |-> "PIPE_START", request |-> request]
  <1>3. Pending = <<>> /\ txn.state = "IDLE" /\ rx = <<Packet(c)>>
    BY <1>1, <1>2 DEF Starting
  <1> HIDE DEF c
  <1>4. HandleOwnPacket(c, msd_status) /\ rx' = <<>>
    BY <1>3, OnlyPacket
  <1>5. OnPipeStart(request) /\ ApplyResult(reply')
    BY <1>4 DEF HandleOwnPacket, HandleCommand, HandleQuery, Queries, c
  <1>6. tx = <<>>
    BY <1>1, <1>3, NothingPending
  <1>7. /\ loaded' = {} /\ PipeInv' /\ txn'.state # "REFRESHING"
        /\ \/ reply'.frames = <<Nack("PIPE_START")>>
           \/ \E granted \in 1 .. MaxWindow, every \in 1 .. MaxAckEvery :
                 reply'.frames = <<StartAck(granted, every)>>
    BY <1>1, <1>3, <1>5, StartHandled
  <1>8. ASSUME NEW frame \in AnyFrame, reply'.frames = <<frame>>
        PROVE  Pending' = <<frame>>
    <2>1. tx \in Seq(AnyFrame) /\ <<frame>> \in Seq(AnyFrame)
      BY <1>1, OneElement DEF QueueTypes
    <2>2. tx' = <<frame>>
      BY <1>5, <1>6, <1>8, <2>1, OneApplied
    <2>3. QED
      BY <1>1, <1>3, <2>1, <2>2, NothingPending
  <1>9. Starting'
    <2>1. CASE reply'.frames = <<Nack("PIPE_START")>>
      <3>1. Nack("PIPE_START") \in AnyFrame
        BY FrameTypes DEF AnyFrame, Opcodes
      <3>2. QED
        BY <1>4, <1>7, <1>8, <2>1, <3>1 DEF Starting
    <2>2. ASSUME NEW granted \in 1 .. MaxWindow, NEW every \in 1 .. MaxAckEvery,
                 reply'.frames = <<StartAck(granted, every)>>
          PROVE  Starting'
      <3>1. StartAck(granted, every) \in AnyFrame
        BY FrameTypes DEF AnyFrame
      <3>2. QED
        BY <1>4, <1>7, <1>8, <2>2, <3>1 DEF Starting
    <2>3. QED
      BY <1>7, <2>1, <2>2
  <1>10. SetupInv' /\ ClientTypes' /\ TransferInv'
    BY <1>1, <1>7, <1>9
       DEF SetupInv, Setup, LinkIInv, ClientTypes, TransferInv, Transfer
  <1>11. ConnectionInv'
    BY PacketTaken
  <1>12. QED
    BY <1>7, <1>10, <1>11 DEF ClientInv

(* A chunk that is accepted is the one the receiver counts, not one whose number   *)
(* is the same.                                                                    *)
LEMMA ChunkIsNext ==
    ASSUME LinkIInv, InFlight, WindowInv, Len(rx) \in Nat \ {0}, Accepted(Number(rx[1]))
    PROVE  Number(rx[1]) = txn.accepted_bytes
  <1> DEFINE m == Number(rx[1])
             n == txn.accepted_bytes
  <1>1. /\ n \in Nat /\ m % SeqMod = n % SeqMod /\ loaded = 0 .. n - 1
        /\ unsent \in Nat /\ 1 \in 1 .. Len(rx)
        /\ MaxWindow \in Nat /\ SeqMod \in Nat /\ MaxWindow < SeqMod
    BY LinkAssumption, EngineAssumption, BackendAssumption
       DEF Accepted, LinkIInv, ClientTypes
  <1>2. m \in 0 .. unsent - 1 /\ \A k \in loaded : k < m + MaxWindow
    BY <1>1 DEF InFlight
  <1>3. PICK base \in 0 .. FullFrameBytes : acked = 0 .. base - 1 /\ unsent <= base + MaxWindow
    BY DEF WindowInv
  <1>4. acked \subseteq loaded /\ base \in Nat
    BY <1>3, BackendAssumption DEF WindowInv
  <1> HIDE DEF m, n
  <1>5. n < m + SeqMod
    <2>1. CASE n = 0
      BY <1>1, <1>2, <2>1, EngineAssumption
    <2>2. CASE n > 0
      <3>1. n - 1 \in loaded
        BY <1>1, <2>2
      <3>2. n - 1 < m + MaxWindow
        BY <1>2, <3>1
      <3>3. QED
        BY <1>1, <1>2, <3>2
    <2>3. QED
      BY <1>1, <2>1, <2>2
  <1>6. base <= n
    <2>1. CASE base = 0
      BY <1>1, <2>1
    <2>2. CASE base > 0
      <3>1. base - 1 \in 0 .. n - 1
        BY <1>1, <1>3, <1>4, <2>2
      <3>2. QED
        BY <1>1, <1>4, <3>1
    <2>3. QED
      BY <1>4, <2>1, <2>2
  <1>7. m < n + SeqMod /\ m \in Nat
    BY <1>1, <1>2, <1>3, <1>4, <1>6
  <1>8. m = n
    BY <1>1, <1>5, <1>7, NearNumbersDiffer
  <1>9. QED
    BY <1>8 DEF m, n

(* The rest of the ring keeps its distance.                                      *)
LEMMA InFlightTaken ==
    ASSUME InFlight, rx' = Tail(rx), Len(rx) \in Nat \ {0}, Len(rx') = Len(rx) - 1,
           \A i \in 1 .. Len(rx') : rx'[i] = rx[i + 1] /\ i + 1 \in 1 .. Len(rx),
           unsent' = unsent, txn'.state = "RECEIVING" => loaded' # {},
           \A n \in loaded' : n \in loaded \/ n = Number(rx[1])
    PROVE  InFlight'
  <1>1. \A i \in 1 .. Len(rx') : Number(rx'[i]) = Number(rx[i + 1])
    BY DEF Number
  <1>2. ASSUME NEW i \in 1 .. Len(rx')
        PROVE  /\ Number(rx'[i]) \in 0 .. unsent - 1
               /\ rx'[i].command = Chunk(Number(rx'[i]))
               /\ \A n \in loaded' : n < Number(rx'[i]) + MaxWindow
    <2>1. i + 1 \in 1 .. Len(rx) /\ 1 \in 1 .. Len(rx) /\ 1 < i + 1
      BY <1>2
    <2>2. Number(rx[1]) < Number(rx[i + 1]) + MaxWindow
      BY <2>1 DEF InFlight
    <2>3. \A n \in loaded : n < Number(rx[i + 1]) + MaxWindow
      BY <2>1 DEF InFlight
    <2>4. QED
      BY <1>1, <1>2, <2>1, <2>2, <2>3 DEF InFlight
  <1>3. ASSUME NEW i \in 1 .. Len(rx'), NEW j \in 1 .. Len(rx'), i < j
        PROVE  Number(rx'[i]) < Number(rx'[j]) + MaxWindow
    <2>1. i + 1 \in 1 .. Len(rx) /\ j + 1 \in 1 .. Len(rx) /\ i + 1 < j + 1
      BY <1>3
    <2>2. QED
      BY <1>1, <2>1 DEF InFlight
  <1>4. QED
    BY <1>2, <1>3 DEF InFlight

(* A SACK that counts what is received finds its place behind all the others.    *)
LEMMA SackQueued ==
    ASSUME QueueTypes, air' = air, NEW count \in Nat \ {0},
           NEW believed, believed \subseteq 0 .. count - 1,
           Answered(Pending, 0 .. count - 1, believed), NEW r, ApplyResult(r),
           \/ r.frames = <<>>
           \/ r.frames = <<SackAfter(count)>>
           \/ r.frames = <<SackAfter(count), Nack("PIPE_END")>>
           \/ count = FullFrameBytes /\ r.frames = <<SackAfter(count), Ack("PIPE_END")>>
    PROVE  Answered(Pending', 0 .. count - 1, believed)
  <1> DEFINE received == 0 .. count - 1
             sack == SackAfter(count)
             sacked == Append(Pending, sack)
  <1>1. tx \in Seq(AnyFrame) /\ Pending \in Seq(AnyFrame)
    BY PendingTyped DEF QueueTypes
  <1>2. sack \in AnyFrame
    BY SackIsTrue
  <1>3. /\ sacked \in Seq(AnyFrame) /\ Answered(sacked, received, believed)
        /\ count = FullFrameBytes => Answered(Append(sacked, Ack("PIPE_END")), received, believed)
    BY <1>1, AnsweredSack
  <1>4. /\ Nack("PIPE_END") \in AnyFrame /\ Ack("PIPE_END") \in AnyFrame
        /\ TransferFrame(Nack("PIPE_END")) /\ ~IsSack(Nack("PIPE_END"))
        /\ Nack("PIPE_END") # Ack("PIPE_END")
    <2>1. Nack("PIPE_END") \in Frames /\ Ack("PIPE_END") \in Frames
      BY FrameTypes DEF Opcodes
    <2>2. QED
      BY <2>1 DEF AnyFrame, TransferFrame, IsSack, Nack, Ack
  <1>5. Answered(Append(sacked, Nack("PIPE_END")), received, believed)
    BY <1>3, <1>4, AnsweredOther
  <1> HIDE DEF sack, received
  <1>6. CASE tx' = tx
    <2>1. Pending' = Pending
      BY <1>6 DEF Pending
    <2>2. QED
      BY <2>1
  <1>7. CASE tx' = Append(tx, sack)
    <2>1. Pending' = sacked
      BY <1>2, <1>7, PendingAppend
    <2>2. QED
      BY <1>3, <2>1 DEF received
  <1>8. CASE tx' = Append(Append(tx, sack), Nack("PIPE_END"))
    <2>1. Pending' = Append(sacked, Nack("PIPE_END"))
      BY <1>2, <1>4, <1>8, PendingAppendTwo
    <2>2. QED
      BY <1>5, <2>1 DEF received
  <1>9. CASE count = FullFrameBytes /\ tx' = Append(Append(tx, sack), Ack("PIPE_END"))
    <2>1. Pending' = Append(sacked, Ack("PIPE_END"))
      BY <1>2, <1>4, <1>9, PendingAppendTwo
    <2>2. QED
      BY <1>3, <1>9, <2>1 DEF received
  <1>10. CASE r.frames = <<>>
    BY <1>6, <1>10, NothingApplied
  <1>11. CASE r.frames = <<sack>>
    BY <1>1, <1>6, <1>7, <1>11, OneApplied
  <1>12. CASE r.frames = <<sack, Nack("PIPE_END")>>
    BY <1>1, <1>6, <1>7, <1>8, <1>12, TwoApplied
  <1>13. CASE count = FullFrameBytes /\ r.frames = <<sack, Ack("PIPE_END")>>
    BY <1>1, <1>6, <1>7, <1>9, <1>13, TwoApplied
  <1>14. QED
    BY <1>10, <1>11, <1>12, <1>13 DEF sack

(* The answer to a chunk is true, and so is every answer before it.              *)
LEMMA ChunkAnswered ==
    ASSUME IInv, QueueTypes, air' = air, WindowInv, Answered(Pending, loaded, acked),
           NEW m \in Nat, ApplyResult(reply'), PipeInv,
           \/ Ignored
           \/ Repeated(m) /\ loaded # {}
           \/ Accepted(m)
    PROVE  Answered(Pending', loaded', acked)
  <1>1. tx \in Seq(AnyFrame) /\ Pending \in Seq(AnyFrame) /\ acked \subseteq loaded
    BY PendingTyped DEF QueueTypes, WindowInv
  <1>2. CASE Ignored
    <2>1. ASSUME tx' = tx PROVE Answered(Pending', loaded', acked)
      <3>1. Pending' = Pending
        BY <2>1 DEF Pending
      <3>2. QED
        BY <1>2, <3>1 DEF Ignored
    <2>2. ASSUME NEW frame \in Frames, frame.kind = "PIPE_NACK", tx' = Append(tx, frame)
          PROVE  Answered(Pending', loaded', acked)
      <3>1. /\ frame \in AnyFrame /\ TransferFrame(frame) /\ ~IsSack(frame)
            /\ frame # Ack("PIPE_END")
        BY <2>2 DEF AnyFrame, TransferFrame, IsSack, Ack
      <3>2. Pending' = Append(Pending, frame)
        BY <2>2, <3>1, PendingAppend
      <3>3. QED
        BY <1>1, <1>2, <3>1, <3>2, AnsweredOther DEF Ignored
    <2>3. CASE reply'.frames = <<>>
      BY <2>1, <2>3, NothingApplied
    <2>4. ASSUME NEW frame \in Frames, frame.kind = "PIPE_NACK", reply'.frames = <<frame>>
          PROVE  Answered(Pending', loaded', acked)
      <3>1. tx' \in {tx, Append(tx, frame)}
        BY <1>1, <2>4, OneApplied
      <3>2. QED
        BY <2>1, <2>2, <2>4, <3>1
    <2>5. QED
      BY <1>2, <2>3, <2>4 DEF Ignored
  <1>3. CASE Repeated(m) /\ loaded # {}
    <2> DEFINE n == txn.accepted_bytes
    <2>1. n \in Nat /\ loaded = 0 .. n - 1 /\ txn.state = "RECEIVING"
      BY <1>3 DEF Repeated, IInv, TypeOK, FrameAccounting, Transactions
    <2>2. n > 0
      BY <1>3, <2>1
    <2>3. /\ txn.highest_seen = (n - 1) % SeqMod
          /\ txn.accepted_packets = Lesser(n, AckMaskBits + 1)
      BY <2>1, <2>2 DEF PipeInv
    <2>4. SackOf(txn) = SackAfter(n)
      BY <2>1, <2>3, SackOfAccepted
    <2>5. reply'.frames = <<SackAfter(n)>> /\ loaded' = 0 .. n - 1
      BY <1>3, <2>1, <2>4 DEF Repeated
    <2> HIDE DEF n
    <2>6. n \in Nat \ {0} /\ acked \subseteq 0 .. n - 1 /\ Answered(Pending, 0 .. n - 1, acked)
      BY <1>1, <2>1, <2>2
    <2>7. Answered(Pending', 0 .. n - 1, acked)
      BY <2>5, <2>6, SackQueued
    <2>8. QED
      BY <2>5, <2>7
  <1>4. CASE Accepted(m)
    <2> DEFINE n == txn.accepted_bytes
               count == n + 1
    <2>1. n \in Nat /\ loaded = 0 .. n - 1 /\ loaded' = 0 .. n
      BY <1>4 DEF Accepted
    <2>2. count \in Nat \ {0} /\ 0 .. n - 1 \subseteq 0 .. count - 1 /\ count - 1 = n
      BY <2>1
    <2>3. Answered(Pending, 0 .. count - 1, acked) /\ acked \subseteq 0 .. count - 1
      BY <1>1, <2>1, <2>2, AnsweredMore
    <2>4. \/ reply'.frames = <<>>
          \/ reply'.frames = <<SackAfter(count)>>
          \/ reply'.frames = <<SackAfter(count), Nack("PIPE_END")>>
          \/ count = FullFrameBytes /\ reply'.frames = <<SackAfter(count), Ack("PIPE_END")>>
      BY <1>4 DEF Accepted
    <2> HIDE DEF count
    <2>5. Answered(Pending', 0 .. count - 1, acked)
      BY <2>2, <2>3, <2>4, SackQueued
    <2>6. QED
      BY <2>1, <2>2, <2>5
  <1>5. QED
    BY <1>2, <1>3, <1>4

LEMMA TransferPacket ==
    ASSUME LinkIInv, PacketWithEntities, air' = air, phase \in Transfer,
           UNCHANGED <<phase, window, unsent, acked, resends, blob>>
    PROVE  /\ ClientInv'
           /\ loaded' = loaded \/ loaded' \ loaded = {Head(rx).command.chunk}
  <1> DEFINE m == Number(rx[1])
  <1>1. /\ IInv /\ PipeInv /\ QueueTypes /\ InFlight /\ WindowInv
        /\ Answered(Pending, loaded, acked) /\ unsent \in Nat
    BY BackendAssumption DEF LinkIInv, TransferInv, ClientTypes
  <1>2. /\ Head(rx) = rx[1] /\ rx' = Tail(rx)
        /\ Len(rx) \in Nat \ {0} /\ Len(rx') = Len(rx) - 1
        /\ \A i \in 1 .. Len(rx') : rx'[i] = rx[i + 1] /\ i + 1 \in 1 .. Len(rx)
        /\ HandleOwnPacket(rx[1].command, msd_status)
        /\ ConnectionInv'
    BY PacketTaken
  <1>3. 1 \in 1 .. Len(rx)
    BY <1>2
  <1>4. m \in 0 .. unsent - 1 /\ m \in Nat /\ unsent > 0 /\ rx[1].command = Chunk(m)
        /\ Head(rx).command.chunk = m
    BY <1>1, <1>2, <1>3 DEF InFlight, Number
  <1> HIDE DEF m
  <1>5. OnPipeData(<<m % SeqMod, 1>>) /\ ApplyResult(reply')
    <2>1. Chunk(m).op = "PIPE_DATA" /\ Chunk(m).payload = <<m % SeqMod, 1>>
      BY DEF Chunk
    <2>2. QED
      BY <1>2, <1>4, <2>1 DEF HandleOwnPacket, HandleCommand, HandleQuery, Queries
  <1>6. PipeInv' /\ (Ignored \/ Repeated(m) \/ Accepted(m))
    BY <1>1, <1>4, <1>5, ChunkHandled
  <1>7. Repeated(m) => loaded # {}
    <2>1. SUFFICES ASSUME Repeated(m), loaded = {} PROVE FALSE
      OBVIOUS
    <2>2. m = 0
      BY <1>1, <1>4, <2>1 DEF InFlight, Repeated, m
    <2>3. txn.accepted_bytes \in Nat /\ loaded = 0 .. txn.accepted_bytes - 1
      BY <1>1, <2>1 DEF Repeated, IInv, TypeOK, FrameAccounting, Transactions
    <2>4. txn.accepted_bytes = 0
      BY <2>1, <2>3
    <2>5. QED
      BY <2>1, <2>2, <2>4 DEF Repeated
  <1>8. Accepted(m) => /\ m = txn.accepted_bytes
                       /\ loaded' = loaded \cup {m} /\ m \notin loaded
    <2>1. SUFFICES ASSUME Accepted(m)
                   PROVE  m = txn.accepted_bytes /\ loaded' = loaded \cup {m} /\ m \notin loaded
      OBVIOUS
    <2>2. m = txn.accepted_bytes
      BY <1>1, <1>2, <2>1, ChunkIsNext DEF m
    <2>3. loaded = 0 .. m - 1 /\ loaded' = 0 .. m
      BY <2>1, <2>2 DEF Accepted
    <2>4. QED
      BY <1>4, <2>2, <2>3
  <1>9. loaded' = loaded \/ (loaded' = loaded \cup {m} /\ m \notin loaded)
    BY <1>6, <1>8 DEF Ignored, Repeated
  <1>10. InFlight'
    <2>1. txn'.state = "RECEIVING" => loaded' # {}
      BY <1>6, <1>7, <1>8 DEF Ignored, Repeated
    <2>2. \A n \in loaded' : n \in loaded \/ n = Number(rx[1])
      BY <1>9 DEF m
    <2>3. QED
      BY <1>1, <1>2, <2>1, <2>2, InFlightTaken
  <1>11. WindowInv'
    <2>1. acked \subseteq loaded' /\ loaded' \subseteq 0 .. unsent - 1
      BY <1>1, <1>4, <1>9 DEF WindowInv
    <2>2. QED
      BY <1>1, <2>1 DEF WindowInv
  <1>12. Answered(Pending', loaded', acked)
    BY <1>1, <1>4, <1>5, <1>6, <1>7, ChunkAnswered
  <1>13. TransferInv'
    BY <1>10, <1>11, <1>12 DEF TransferInv
  <1>14. phase \notin Setup
    BY DEF Transfer
  <1>15. SetupInv' /\ ClientTypes'
    BY <1>14 DEF SetupInv, Setup, LinkIInv, ClientTypes
  <1>16. QED
    BY <1>2, <1>4, <1>6, <1>9, <1>13, <1>15 DEF ClientInv

(* Whatever the client waits for, the packet is its own.                         *)
LEMMA PacketStep ==
    ASSUME LinkIInv, PacketWithEntities, air' = air,
           UNCHANGED <<phase, window, unsent, acked, resends, blob>>
    PROVE  /\ ClientInv'
           /\ loaded' # loaded /\ loaded' # {} => loaded' \ loaded = {Head(rx).command.chunk}
  <1>1. phase \in {"config", "msd", "start"} \cup Transfer
    BY PacketTaken DEF LinkIInv, ClientTypes, Transfer, Setup
  <1>2. CASE phase = "config"
    BY <1>2, ConfigPacket
  <1>3. CASE phase = "msd"
    BY <1>3, MsdPacket
  <1>4. CASE phase = "start"
    BY <1>4, StartPacket
  <1>5. CASE phase \in Transfer
    BY <1>5, TransferPacket
  <1>6. QED
    BY <1>1, <1>2, <1>3, <1>4, <1>5

------------------------------------------------------------------------------
(* All the steps together. *)

(* A local abort ends the transaction, and nobody is answered.                   *)
LEMMA AutomationStep ==
    ASSUME LinkIInv, Automation
    PROVE  ClientInv' /\ Pending' = Pending /\ UNCHANGED <<air, entityVars>>
  <1>1. /\ UNCHANGED <<componentVars, entityVars, clientVars>>
        /\ LocalAbort \/ (LocalUpdate /\ UNCHANGED engineVars)
    <2>1. Aborts \/ Updates
      BY DEF Automation
    <2>2. QED
      BY <2>1 DEF Aborts, Updates, World
  <1>2. /\ UNCHANGED <<connected, linking, session, rx, tx>>
        /\ UNCHANGED <<phase, window, unsent, acked, resends, blob, air>>
    BY <1>1 DEF componentVars, clientVars
  <1>3. Pending' = Pending
    BY <1>2 DEF Pending
  <1>4. Calm /\ loaded' = loaded
    <2>1. CASE LocalAbort
      BY <2>1 DEF LocalAbort, Abort, Refuse, backendVars, NoTxn, Calm
    <2>2. CASE LocalUpdate /\ UNCHANGED engineVars
      BY <2>2, UnchangedIsCalm DEF LocalUpdate, engineVars
    <2>3. QED
      BY <1>1, <2>1, <2>2
  <1>5. ConnectionInv'
    BY <1>2 DEF LinkIInv, ConnectionInv
  <1>6. QED
    BY <1>1, <1>2, <1>3, <1>4, <1>5, StillStep

(* The steps that neither loop() takes nor the client hears by.                  *)
LEMMA OtherLinkStep ==
    ASSUME LinkIInv,
           \/ Automation \/ Connect \/ Connecting
           \/ AskConfig \/ SendNext \/ ResendBase \/ ResendEarly
           \/ Finishes \/ DriverBreaks \/ World(DeadlinePasses) \/ UNCHANGED linkVars
    PROVE  ClientInv' /\ air' = air
  <1>1. CASE Automation
    BY <1>1, AutomationStep
  <1>2. CASE ~Automation
    <2>1. air' = air
      BY <1>2 DEF Connect, Connecting, AskConfig, SendNext, ResendBase, ResendEarly, Writes,
                  Finishes, DriverBreaks, World, linkVars, clientVars
    <2>2. QED
      BY <1>2, <2>1, ConnectStep, AskConfigStep, SendingStep, WorldStep
  <1>3. QED
    BY <1>1, <1>2

LEMMA LinkLoopStep ==
    ASSUME LinkIInv, LinkLoop
    PROVE  ClientInv' /\ air' \in Seq(AnyFrame)
  <1>1. /\ LoopWithEntities
        /\ UNCHANGED <<phase, window, unsent, acked, resends, blob>>
        /\ QueueTypes /\ air \in Seq(AnyFrame)
    BY DEF LinkLoop, LinkIInv, QueueTypes
  <1>2. CASE (LoopStarts \/ PacketsHandled) /\ UNCHANGED entityVars
    <2>1. air' = air
      BY <1>2 DEF LinkLoop, LoopStarts, PacketsHandled
    <2>2. ClientInv' /\ Pending' = Pending
      BY <1>1, <1>2, <2>1, LoopStartsStep
    <2>3. QED
      BY <1>1, <2>1, <2>2
  <1>3. CASE PacketWithEntities
    <2>1. air' = air
      BY <1>3 DEF LinkLoop, PacketWithEntities, HandlePacket
    <2>2. QED
      BY <1>1, <1>3, <2>1, PacketStep
  <1>4. CASE TickWithEntities
    <2>1. air' = air /\ LoopTicks
      BY <1>4 DEF LinkLoop, TickWithEntities, LoopTicks, UpdateMsd
    <2>2. ClientInv' /\ (Pending' = Pending \/ \E f \in AnyFrame : Pending' = Append(Pending, f))
      BY <1>1, <2>1, TickedStep
    <2>3. QED
      BY <1>1, <2>1, <2>2
  <1>5. CASE DrainWithEntities
    <2>1. air' = air \o Notified /\ LoopDrains
      BY <1>5 DEF LinkLoop, DrainWithEntities, LoopDrains
    <2>2. ClientInv' /\ Pending' = Pending /\ air' \in Seq(AnyFrame)
      BY <1>1, <2>1, DrainStep
    <2>3. QED
      BY <1>1, <2>1, <2>2
  <1>6. QED
    BY <1>1, <1>2, <1>3, <1>4, <1>5 DEF LoopWithEntities

LEMMA LinkIInvInit == LinkInit => LinkIInv
  <1> SUFFICES ASSUME LinkInit PROVE LinkIInv
    OBVIOUS
  <1>1. ComponentInit
    BY DEF LinkInit, EntitiesInit
  <1>2. IInv /\ LinkInv /\ LoopInv /\ TxInv
    BY <1>1, InitIInv, LinkInvInit, LoopInvInit, TxInvInit DEF ComponentInit
  <1>3. /\ rx = <<>> /\ tx = <<>> /\ air = <<>> /\ txn = NoTxn /\ loaded = {}
        /\ ~connected /\ linking = "no"
    BY <1>1 DEF LinkInit, ComponentInit, Init, BackendInit
  <1>4. QueueTypes
    BY <1>2, <1>3 DEF QueueTypes, TxInv
  <1>5. Pending = <<>> /\ txn.state = "IDLE"
    BY <1>3 DEF Pending, NoTxn
  <1>6. EntityIInv /\ LocalTypes
    <2>1. EntityIInv
      BY EntityIInvInit DEF LinkInit
    <2>2. 0 \in 0 .. MaxLocals
      BY LinkAssumption
    <2>3. QED
      BY <2>1, <2>2 DEF LinkInit, LocalTypes
  <1>7. ClientTypes
    <2>1. 0 \in 0 .. MaxWindow /\ 0 \in 0 .. FullFrameBytes /\ 0 \in 0 .. MaxResends
      BY EngineAssumption, BackendAssumption, LinkAssumption
    <2>2. QED
      BY <2>1 DEF LinkInit, ClientTypes, Phases
  <1>8. ConnectionInv
    <2>1. \A i \in 1 .. Len(<<>>) : FALSE
      OBVIOUS
    <2>2. QED
      BY <1>3, <2>1 DEF ConnectionInv, LinkInit
  <1>9. SetupInv /\ PipeInv /\ TransferInv
    BY <1>3, <1>5 DEF LinkInit, SetupInv, PipeInv, TransferInv, Transfer, Setup
  <1>10. QED
    BY <1>2, <1>4, <1>6, <1>7, <1>8, <1>9 DEF LinkIInv

LEMMA LinkIInvStep == LinkIInv /\ [LinkNext]_linkVars => LinkIInv'
  <1> SUFFICES ASSUME LinkIInv, [LinkNext]_linkVars PROVE LinkIInv'
    OBVIOUS
  <1>1. IInv' /\ LinkInv' /\ LoopInv' /\ TxInv' /\ EntityIInv'
    BY CoreStep
  <1>2. ClientInv' /\ air' \in Seq(AnyFrame)
    <2>1. CASE LinkLoop
      BY <2>1, LinkLoopStep
    <2>2. CASE Hear
      BY <2>2, HearStep
    <2>3. CASE \/ Automation \/ Connect \/ Connecting
               \/ AskConfig \/ SendNext \/ ResendBase \/ ResendEarly
               \/ Finishes \/ DriverBreaks \/ World(DeadlinePasses) \/ UNCHANGED linkVars
      BY <2>3, OtherLinkStep DEF LinkIInv, QueueTypes
    <2>4. QED
      BY <2>1, <2>2, <2>3 DEF LinkNext, Undisturbed, Client
  <1>3. QueueTypes'
    BY <1>1, <1>2 DEF QueueTypes, TxInv
  <1>4. LocalTypes'
    <2>1. CASE UNCHANGED localVars
      BY <2>1 DEF LinkIInv, LocalTypes, localVars
    <2>2. CASE Automation
      <3>1. locals' \in 0 .. MaxLocals
        BY <2>2, LinkAssumption DEF Automation, LinkIInv, LocalTypes
      <3>2. silenced' = silenced \/ silenced' = (silenced \/ txn.state = "REFRESHING")
        BY <2>2 DEF Automation, Aborts, Updates
      <3>3. silenced' \in BOOLEAN
        BY <3>2 DEF LinkIInv, LocalTypes
      <3>4. QED
        BY <3>1, <3>3 DEF LocalTypes
    <2>3. UNCHANGED localVars \/ Automation
      BY DEF LinkNext, Undisturbed, linkVars
    <2>4. QED
      BY <2>1, <2>2, <2>3
  <1>5. QED
    BY <1>1, <1>2, <1>3, <1>4 DEF LinkIInv, ClientInv

(* The inductive invariant: what is in the ring, in the TX queue and in the air    *)
(* fits what the engine has counted and what the client believes (on_pipe_data).   *)
THEOREM LinkInvariance == LinkSpec => []LinkIInv
  BY LinkIInvInit, LinkIInvStep, PTL DEF LinkSpec

(* Component, entities and client stay in their types: windows, numbers and        *)
(* positions of any size (opendisplay.cpp with on_pipe_start, on_pipe_data).       *)
THEOREM LinkTypeCorrect == LinkSpec => []LinkTypeOK
  <1>1. LinkIInv => LinkTypeOK
    <2> SUFFICES ASSUME LinkIInv PROVE LinkTypeOK
      OBVIOUS
    <2>1. ComponentTypeOK
      BY TypesTogether DEF LinkIInv, QueueTypes, TxInv
    <2>2. acked \subseteq Chunks
      BY LoadedInFrame DEF LinkIInv, SetupInv, TransferInv, Transfer, ClientTypes, WindowInv, Chunks
    <2>3. QED
      BY <2>1, <2>2 DEF LinkTypeOK, LinkIInv, EntityIInv, ClientTypes, LocalTypes
  <1>2. QED
    BY <1>1, LinkInvariance, PTL

(* What a SACK makes the client believe received is in the framebuffer, whatever   *)
(* the ring and the TX queue drop and the client repeats (SackOf, on_pipe_data).   *)
THEOREM AckedWereReceivedHolds == LinkSpec => []AckedWereReceived
  <1>1. LinkIInv => AckedWereReceived
    BY DEF LinkIInv, SetupInv, TransferInv, Transfer, ClientTypes, WindowInv, AckedWereReceived
  <1>2. QED
    BY <1>1, LinkInvariance, PTL

(* A client that hears the END ACK knows of every chunk already: the tail SACK is  *)
(* queued before it, and where that one is dropped so is the END ACK.              *)
THEOREM EndAfterLastSackHolds == LinkSpec => []EndAfterLastSack
  <1>1. LinkIInv => EndAfterLastSack
    BY DEF LinkIInv, TransferInv, Transfer, Setup, Phases, Ends, WindowInv, EndAfterLastSack
  <1>2. QED
    BY <1>1, LinkInvariance, PTL

(* A byte of the frame is only written from its own chunk: no repetition, delay    *)
(* or wrap of the numbers puts another chunk in its place (on_pipe_data).          *)
THEOREM ChunksInPlaceHolds == LinkSpec => ChunksInPlace
  <1> DEFINE Placed == stage = "packets" /\ popped' # popped /\ loaded' # loaded /\ loaded' # {}
                          => loaded' \ loaded = {Head(rx).command.chunk}
  <1>1. LinkIInv /\ [LinkNext]_linkVars => [Placed]_linkVars
    <2> SUFFICES ASSUME LinkIInv, LinkNext, stage = "packets", popped' # popped
                 PROVE  Placed
      OBVIOUS
    <2>1. LinkLoop
      BY DEF LinkNext, Undisturbed, Automation, Aborts, Updates, Connect, OnBleConnect,
             Connecting, CountConnection, TellEngine, Client,
             AskConfig, SendNext, ResendBase, ResendEarly, Hear, HearConfig, HearMsd,
             HearStartAck, HearSack, HearResult, Writes, OnBleWrite, Finishes, DriverBreaks,
             World, allVars, componentVars
    <2>2. PacketWithEntities /\ air' = air
      BY <2>1 DEF LinkLoop, LoopWithEntities, LoopStarts, PacketsHandled, TickWithEntities,
                  LoopTicks, DrainWithEntities, LoopDrains
    <2>3. UNCHANGED <<phase, window, unsent, acked, resends, blob>>
      BY <2>1 DEF LinkLoop
    <2>4. QED
      BY <2>2, <2>3, PacketStep
  <1>2. QED
    BY <1>1, LinkInvariance, PTL DEF LinkSpec, ChunksInPlace

(* With its client and its automations the component is the one of Entities, so     *)
(* all that is proved there holds of every PIPE transfer, the reboot flag that is   *)
(* not cleared unseen among it (loop, the BLE callbacks, opendisplay.abort).        *)
THEOREM LinkRunsEntities == LinkSpec => EntitiesSpec
  <1>1. LinkInit => EntitiesInit
    BY DEF LinkInit
  <1>2. LinkIInv /\ [LinkNext]_linkVars => [EntitiesNext]_entitiesVars
    BY LinkKeepsEntities
  <1>3. QED
    BY <1>1, <1>2, LinkInvariance, PTL DEF LinkSpec, EntitiesSpec

(* Behind its client, too, the engine behaves as its own module says, so all that   *)
(* is proved of it there holds of every PIPE transfer (loop, handle_packet_).       *)
THEOREM LinkDrivesEngine == LinkSpec => Spec
  BY LinkRunsEntities, EntitiesLookOn, ComponentDrivesEngine, PTL

(* A reply without a SACK. *)
NoSack(r) == \A i \in 1 .. Len(r.frames) : r.frames[i].kind # "SACK"

LEMMA PacketSacks ==
    ASSUME LinkIInv, PacketWithEntities, phase' = phase, SackMeansReceived
    PROVE  SackMeansReceived'
  <1>1. /\ rx # <<>> /\ Len(rx) \in Nat \ {0} /\ HandleOwnPacket(rx[1].command, msd_status)
        /\ phase # "off"
    BY PacketTaken
  <1>2. CASE phase \in {"config", "msd"}
    <2>1. txn.state = "IDLE" /\ rx[1].command.op \in Queries
      <3>1. \A c : <<Packet(c)>>[1].command = c
        BY DEF Packet
      <3>2. QED
        BY <1>1, <1>2, <3>1 DEF LinkIInv, SetupInv, ReadingConfig, ReadingMsd, Queries
    <2>2. UNCHANGED vars
      BY <1>1, <2>1 DEF HandleOwnPacket, HandleCommand, HandleQuery, Queries
    <2>3. QED
      BY <2>1, <2>2 DEF vars, SackMeansReceived, Receiving
  <1>3. CASE phase = "start"
    <2>1. Starting /\ loaded = {}
      BY <1>3 DEF LinkIInv, SetupInv, Setup
    <2>2. PICK request \in PipeRequests :
              rx = <<Packet([op |-> "PIPE_START", request |-> request])>>
      BY <1>1, <2>1 DEF Starting
    <2>3. OnPipeStart(request) /\ txn.state = "IDLE"
      <3>1. rx[1].command = [op |-> "PIPE_START", request |-> request]
        BY <2>2 DEF Packet
      <3>2. QED
        BY <1>1, <2>1, <3>1 DEF HandleOwnPacket, HandleCommand, HandleQuery, Queries, Starting
    <2>4. \/ reply'.frames = <<Nack("PIPE_START")>>
          \/ \E granted \in 1 .. MaxWindow, every \in 1 .. MaxAckEvery :
                reply'.frames = <<StartAck(granted, every)>>
      BY <2>1, <2>3, StartHandled
    <2>5. NoSack(reply')
      <3>1. ASSUME NEW f, f.kind # "SACK", reply'.frames = <<f>>
            PROVE  NoSack(reply')
        <4>1. \A i \in 1 .. Len(<<f>>) : <<f>>[i] = f
          OBVIOUS
        <4>2. QED
          BY <3>1, <4>1 DEF NoSack
      <3>2. Nack("PIPE_START").kind # "SACK"
            /\ \A granted, every : StartAck(granted, every).kind # "SACK"
        BY DEF Nack, StartAck
      <3>3. QED
        BY <2>4, <3>1, <3>2
    <2>6. QED
      BY <2>5 DEF NoSack, SackMeansReceived
  <1>4. CASE phase \in Transfer
    <2> DEFINE m == Number(rx[1])
    <2>1. /\ IInv /\ PipeInv /\ InFlight /\ unsent \in Nat
      BY <1>4, BackendAssumption DEF LinkIInv, TransferInv, ClientTypes
    <2>2. m \in Nat /\ unsent > 0 /\ rx[1].command = Chunk(m)
      BY <1>1, <2>1 DEF InFlight
    <2> HIDE DEF m
    <2>3. OnPipeData(<<m % SeqMod, 1>>)
      BY <1>1, <2>2 DEF HandleOwnPacket, HandleCommand, HandleQuery, Queries, Chunk
    <2>4. PipeInv' /\ (Ignored \/ Repeated(m) \/ Accepted(m))
      BY <2>1, <2>2, <2>3, ChunkHandled
    <2>5. CASE Ignored
      BY <2>5 DEF Ignored, SackMeansReceived, Receiving
    <2>6. CASE Repeated(m)
      <3>1. txn.accepted_bytes \in Nat /\ loaded = 0 .. txn.accepted_bytes - 1
        BY <2>1, <2>6 DEF Repeated, IInv, TypeOK, FrameAccounting, Transactions
      <3>2. loaded = {} => m = 0
        BY <2>1, <2>2, <2>6 DEF InFlight, Repeated, m
      <3>3. txn.accepted_bytes # 0
        BY <2>6, <3>1, <3>2 DEF Repeated
      <3>4. txn.accepted_packets > 0
        BY <2>1, <2>6, <3>1, <3>3, EngineAssumption DEF PipeInv, Repeated, Lesser
      <3>5. QED
        BY <2>6, <3>4 DEF Repeated, SackMeansReceived
    <2>7. CASE Accepted(m)
      <3>1. ASSUME txn'.state = "RECEIVING" PROVE txn'.accepted_packets > 0
        <4>1. IInv'
          <5>1. Chunk(m) \in Commands
            <6>1. Head(rx) \in [session : 0 .. MaxGeneration, command : Commands]
              BY <1>1, HeadTyped DEF LinkIInv, LinkInv
            <6>2. QED
              BY <1>1, <2>2, <6>1, PacketTaken
          <5>2. <<m % SeqMod, 1>> \in PipePayloads
            BY <5>1, CommandAssumption DEF Chunk
          <5>3. QED
            BY <2>1, <2>3, <5>2, OnPipeDataStep
        <4>2. txn.accepted_bytes \in Nat /\ loaded' = 0 .. txn.accepted_bytes
          BY <2>7 DEF Accepted
        <4>3. txn'.accepted_bytes \in Nat /\ loaded' = 0 .. txn'.accepted_bytes - 1
          BY <3>1, <4>1 DEF IInv, TypeOK, FrameAccounting, Transactions
        <4>4. txn'.accepted_bytes > 0
          <5>1. 0 \in loaded'
            BY <4>2
          <5>2. QED
            BY <4>3, <5>1
        <4>5. txn'.accepted_packets = Lesser(txn'.accepted_bytes, AckMaskBits + 1)
          BY <2>4, <3>1 DEF PipeInv
        <4>6. QED
          BY <4>3, <4>4, <4>5, EngineAssumption DEF Lesser
      <3>2. QED
        BY <3>1 DEF SackMeansReceived, Receiving
    <2>8. QED
      BY <2>4, <2>5, <2>6, <2>7
  <1>5. phase \in {"config", "msd", "start"} \cup Transfer
    BY <1>1 DEF LinkIInv, ClientTypes, Transfer, Setup
  <1>6. QED
    BY <1>2, <1>3, <1>4, <1>5

LEMMA SackStep ==
    ASSUME LinkIInv, SackMeansReceived, [LinkNext]_linkVars
    PROVE  SackMeansReceived'
  <1>1. CASE UNCHANGED <<txn, reply>>
    BY <1>1 DEF SackMeansReceived, Receiving
  <1>2. CASE World(DeadlinePasses)
    <2>1. txn \in Transactions
      BY DEF LinkIInv, IInv, TypeOK
    <2>2. txn' = [txn EXCEPT !.deadline = "passed"] /\ reply' = reply
      BY <1>2 DEF World, DeadlinePasses
    <2>3. /\ txn'.state = txn.state /\ txn'.mode = txn.mode
          /\ txn'.accepted_packets = txn.accepted_packets
      BY <2>1, <2>2 DEF Transactions
    <2>4. QED
      BY <2>2, <2>3 DEF SackMeansReceived, Receiving
  <1>3. CASE Tick
    <2>1. txn'.state = "RECEIVING" => reply'.frames = <<>>
      BY <1>3 DEF Tick, TickReleases, TickExpires, TickIdles, Refuse, Abort, NoTxn, Silence,
                  Answer, Reply
    <2>2. Len(<<>>) = 0
      OBVIOUS
    <2>3. QED
      BY <2>1, <2>2 DEF SackMeansReceived, Receiving
  <1>4. CASE PacketWithEntities /\ phase' = phase
    BY <1>4, PacketSacks
  <1>5. CASE LoopStarts
    <2>1. ~connected => txn.state = "IDLE"
      BY DEF LinkIInv, ConnectionInv, SetupInv
    <2>2. UNCHANGED vars
      BY <1>5, <2>1 DEF LoopStarts, DisconnectEnds
    <2>3. QED
      BY <1>1, <2>2 DEF vars
  <1>6. CASE LinkLoop
    <2>1. CASE PacketsHandled \/ LoopDrains
      BY <1>1, <2>1 DEF PacketsHandled, LoopDrains, vars
    <2>2. phase' = phase
      BY <1>6 DEF LinkLoop
    <2>3. QED
      BY <1>3, <1>4, <1>5, <1>6, <2>1, <2>2
         DEF LinkLoop, LoopWithEntities, TickWithEntities, LoopTicks, DrainWithEntities
  <1>7. CASE LocalAbort
    BY <1>7 DEF LocalAbort, Abort, NoTxn, SackMeansReceived, Receiving
  <1>8. UNCHANGED <<txn, reply>> \/ World(DeadlinePasses) \/ LinkLoop \/ LocalAbort
    BY DEF LinkNext, Undisturbed, Automation, Aborts, Updates, LocalUpdate, Connect,
           OnBleConnect, Connecting, CountConnection, TellEngine,
           SetConnectionGeneration, Client, AskConfig, SendNext, ResendBase, ResendEarly, Hear,
           HearConfig, HearMsd, HearStartAck, HearSack, HearResult, Writes, OnBleWrite,
           Finishes, DriverBreaks, World, DriverFinishes, DriverFails, engineVars, allVars,
           vars, linkVars, entitiesVars
  <1>9. QED
    BY <1>1, <1>2, <1>6, <1>7, <1>8

(* What the finding sack_before_data needs is a client that does not begin with     *)
(* chunk 0: one that keeps to the protocol never reads a SACK for nothing, whatever *)
(* the ring loses (SackOf, on_pipe_data).                                           *)
THEOREM SackMeansReceivedHolds == LinkSpec => []SackMeansReceived
  <1>1. LinkInit => SackMeansReceived
    BY DEF LinkInit, EntitiesInit, ComponentInit, Init, NoTxn, Receiving, SackMeansReceived
  <1>2. LinkIInv /\ SackMeansReceived /\ [LinkNext]_linkVars => SackMeansReceived'
    BY SackStep
  <1>3. QED
    BY <1>1, <1>2, LinkInvariance, PTL DEF LinkSpec

==============================================================================
