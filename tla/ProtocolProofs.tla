---------------------------- MODULE ProtocolProofs ----------------------------
(***************************************************************************)
(* What protocol.cpp computes, for every input: facts a test samples and a *)
(* model checker meets only inside its bounds.                             *)
(***************************************************************************)
EXTENDS TransferEngine, Protocol, Framebuffer, TLAPS

------------------------------------------------------------------------------
(* The chunks of the config blob. *)

LEMMA ChunkOffsets ==
    /\ ChunkOffset(0) = 0 /\ ChunkCapacity(0) = 94
    /\ \A i \in Nat \ {0} : ChunkOffset(i) = 96 * i - 2 /\ ChunkCapacity(i) = 96
  BY DEF ChunkOffset, ChunkCapacity, ChunkHeader, MaxResponseData

(* The chunk that carries position p. *)
ChunkOf(p) == (p + 2) \div 96

LEMMA ChunkOfIndex == \A p \in Nat :
    /\ ChunkOf(p) \in Nat
    /\ 96 * ChunkOf(p) <= p + 2 /\ p + 2 < 96 * ChunkOf(p) + 96
  BY DEF ChunkOf

LEMMA InChunk ==
    ASSUME NEW length \in Nat, NEW p \in 0 .. length - 1, NEW i \in Nat
    PROVE  p \in ChunkBytes(length, i) <=> i = ChunkOf(p)
  <1>0. /\ p \in Nat /\ ChunkOf(p) \in Nat
        /\ 96 * ChunkOf(p) <= p + 2 /\ p + 2 < 96 * ChunkOf(p) + 96
    BY ChunkOfIndex
  <1>1. CASE i = 0
    <2>1. p \in ChunkBytes(length, 0) <=> p < 94
      BY ChunkOffsets DEF ChunkBytes
    <2>2. p < 94 <=> ChunkOf(p) = 0
      BY <1>0
    <2>3. QED
      BY <1>1, <2>1, <2>2
  <1>2. CASE i # 0
    <2>1. p \in ChunkBytes(length, i) <=> 96 * i - 2 <= p /\ p < 96 * i + 94
      BY <1>2, ChunkOffsets DEF ChunkBytes
    <2>2. QED
      BY <1>0, <2>1
  <1>3. QED
    BY <1>1, <1>2

(* Every byte of the blob is in exactly one chunk, although chunk 0 is shorter  *)
(* than the others (encode_config_chunk).                                       *)
THEOREM ChunksPartition ==
    ASSUME NEW length \in Nat, NEW p \in 0 .. length - 1
    PROVE  \E i \in Nat : \A j \in Nat : p \in ChunkBytes(length, j) <=> j = i
  <1>1. ChunkOf(p) \in Nat
    BY ChunkOfIndex
  <1>2. \A j \in Nat : p \in ChunkBytes(length, j) <=> j = ChunkOf(p)
    BY InChunk
  <1>3. QED
    BY <1>1, <1>2

(* send_config_ stops at the first chunk that is empty, and has then queued the *)
(* whole blob.                                                                  *)
THEOREM FirstEmptyChunkEnds ==
    ASSUME NEW length \in Nat, NEW n \in Nat, ChunkBytes(length, n) = {}
    PROVE  \A p \in 0 .. length - 1 : \E i \in 0 .. n - 1 : p \in ChunkBytes(length, i)
  <1> SUFFICES ASSUME NEW p \in 0 .. length - 1
               PROVE  ChunkOf(p) \in 0 .. n - 1
    BY InChunk, ChunkOfIndex, SMTT(30)
  <1>1. ChunkOffset(n) >= length
    <2> SUFFICES ASSUME ChunkOffset(n) < length PROVE FALSE
      BY ChunkOffsets
    <2>1. ChunkOffset(n) \in 0 .. length - 1 /\ ChunkCapacity(n) > 0
      BY ChunkOffsets
    <2>2. ChunkOffset(n) < ChunkOffset(n) + ChunkCapacity(n)
      BY ChunkOffsets
    <2>3. ChunkOffset(n) \in ChunkBytes(length, n)
      BY <2>1, <2>2 DEF ChunkBytes
    <2>4. QED
      BY <2>3
  <1>2. /\ p \in Nat /\ ChunkOf(p) \in Nat
        /\ 96 * ChunkOf(p) <= p + 2
    BY ChunkOfIndex
  <1>3. p < ChunkOffset(n)
    BY <1>1, ChunkOffsets
  <1>4. CASE n = 0
    BY <1>2, <1>3, <1>4, ChunkOffsets
  <1>5. CASE n # 0
    <2>1. p < 96 * n - 2
      BY <1>3, <1>5, ChunkOffsets
    <2>2. QED
      BY <1>2, <2>1
  <1>6. QED
    BY <1>4, <1>5

(* No encoder writes past Response::data: the SHA of a version is cut at 40     *)
(* bytes and a chunk at what its header leaves (encode_version,                 *)
(* encode_config_chunk and the encoders of fixed length).                       *)
THEOREM ResponsesFit ==
    ASSUME NEW sha \in Nat, NEW length \in Nat, NEW index \in Nat
    PROVE  /\ {StartAckLength, SackLength, PipeNackLength, MsdLength, VersionLength(sha)}
                 \subseteq 0 .. MaxResponseData
           /\ ChunkOffset(index) < length => ChunkLength(length, index) \in 0 .. MaxResponseData
  <1>1. {StartAckLength, SackLength, PipeNackLength, MsdLength} \subseteq 0 .. 100
    BY DEF StartAckLength, SackLength, PipeNackLength, MsdLength, MsdBytes, StatusAndEcho
  <1>2. VersionLength(sha) \in 0 .. 100
    BY DEF VersionLength
  <1>3. ASSUME ChunkOffset(index) < length PROVE ChunkLength(length, index) \in 0 .. 100
    <2>1. ChunkHeader(index) \in {4, 6} /\ ChunkCapacity(index) = 100 - ChunkHeader(index)
      BY DEF ChunkHeader, ChunkCapacity, MaxResponseData
    <2>2. length - ChunkOffset(index) \in Nat
      BY <1>3, ChunkOffsets
    <2>3. QED
      BY <2>1, <2>2 DEF ChunkLength
  <1>4. QED
    BY <1>1, <1>2, <1>3 DEF MaxResponseData

(* A display that init() accepts can always be described: the error answer of   *)
(* send_config_ is unreachable (build_config_blob with init()).                 *)
THEOREM UsableDisplayDescribed ==
    ASSUME NEW display, Usable(display),
           display.native_width \in Nat, display.native_height \in Nat
    PROVE  ConfigValid(Capabilities(display), ConfigBlobMax)
  <1> DEFINE w == display.native_width
             h == display.native_height
  <1>1. w > 0 /\ h > 0
    BY DEF Usable
  <1>2. Stride(w) \in Nat \ {0}
    BY <1>1 DEF Stride
  <1>3. FrameBytes(w, h) # 0
    <2>1. \A a, b \in Nat \ {0} : a * b # 0
      OBVIOUS
    <2>2. QED
      BY <1>1, <1>2, <2>1 DEF FrameBytes
  <1>4. ConfigBlobLength <= ConfigBlobMax
    BY DEF ConfigBlobLength, ConfigBlobMax, OuterHeader, PacketLength, SystemConfig,
           ManufacturerData, PowerOption, DisplayConfig, Crc
  <1>5. QED
    BY <1>1, <1>3, <1>4 DEF ConfigValid, Capabilities

------------------------------------------------------------------------------
(* parse_pipe_start. *)

Agree(a, b, length) == \A i \in 0 .. length - 1 : a[i] = b[i]

LEMMA SumOfParts ==
    ASSUME NEW x \in Nat, NEW y \in Nat, NEW k \in Nat PROVE x + k * y \in Nat
  OBVIOUS

LEMMA U16InNat ==
    ASSUME NEW b, NEW i, b[i] \in Nat, b[i + 1] \in Nat PROVE U16(b, i) \in Nat
  <1> DEFINE low == b[i]
             high == b[i + 1]
  <1>1. low \in Nat /\ high \in Nat
    OBVIOUS
  <1> HIDE DEF low, high
  <1>2. low + 256 * high \in Nat
    BY <1>1, SumOfParts
  <1>3. QED
    BY <1>2 DEF U16, low, high

(* Whatever bytes a packet holds, the request that on_pipe_start goes on with   *)
(* is of the type the engine's theorems assume.                                 *)
THEOREM ParsedRequestTyped ==
    ASSUME NEW slot, \A i \in 0 .. 9 : slot[i] \in Byte, NEW length \in Nat
    PROVE  PipeStartRequest(slot, length) \in PipeRequestType
  <1>1. U32(slot, 6) \in Nat
    <2> DEFINE low == U16(slot, 6)
               high == U16(slot, 6 + 2)
    <2>1. /\ slot[6] \in Nat /\ slot[6 + 1] \in Nat
          /\ slot[6 + 2] \in Nat /\ slot[6 + 2 + 1] \in Nat
      BY SMTT(30) DEF Byte
    <2>2. low \in Nat
      BY <2>1, U16InNat
    <2>3. high \in Nat
      BY <2>1, U16InNat
    <2> HIDE DEF low, high
    <2>4. low + 65536 * high \in Nat
      BY <2>2, <2>3, SumOfParts
    <2>5. QED
      BY <2>4 DEF U32, low, high
  <1>2. Compressed(slot) \in BOOLEAN
    BY DEF Compressed
  <1>3. ASSUME WellFormed(slot, length)
        PROVE  slot[2] \in Nat \ {0} /\ slot[3] \in Nat \ {0}
    BY <1>3 DEF WellFormed, WindowLimits
  <1>4. CASE WellFormed(slot, length)
    BY <1>1, <1>2, <1>3, <1>4 DEF PipeStartRequest, PipeRequestType
  <1>5. CASE ~WellFormed(slot, length)
    BY <1>5 DEF PipeStartRequest, PipeRequestType
  <1>6. QED
    BY <1>4, <1>5

(* A request of the ten bytes that struct PipeStartRequest has is parsed from   *)
(* its own bytes only ...                                                       *)
THEOREM FullRequestReadsItself ==
    ASSUME NEW a, NEW b, NEW length \in Nat, length >= PipeStartWire, Agree(a, b, length)
    PROVE  PipeStartRequest(a, length) = PipeStartRequest(b, length)
  <1>1. \A i \in 0 .. 9 : a[i] = b[i]
    BY DEF PipeStartWire, Agree
  <1>2. U32(a, 6) = U32(b, 6)
    BY <1>1 DEF U32, U16
  <1>3. /\ WellFormed(a, length) <=> WellFormed(b, length)
        /\ Compressed(a) <=> Compressed(b)
    BY <1>1 DEF WellFormed, Compressed, Partial
  <1>4. a[2] = b[2] /\ a[3] = b[3]
    BY <1>1
  <1>5. (Compressed(a)) = (Compressed(b))
    BY <1>3 DEF Compressed
  <1>6. QED
    BY <1>2, <1>3, <1>4, <1>5 DEF PipeStartRequest

(* ... but one of the eight bytes that HDR asks for is accepted, and its total  *)
(* size taken from what the packet before left in the RX slot: protocol.h:59-60 *)
(* has parse_pipe_start return false on a short header (len < HDR).             *)
THEOREM ShortRequestReadsStale ==
    \E a, b \in [0 .. 9 -> Byte] :
        /\ Agree(a, b, PipeStartHeader)
        /\ WellFormed(a, PipeStartHeader) /\ WellFormed(b, PipeStartHeader)
        /\ PipeStartRequest(a, PipeStartHeader) # PipeStartRequest(b, PipeStartHeader)
  <1> DEFINE a == [i \in 0 .. 9 |-> IF i \in {0, 2, 3} THEN 1 ELSE 0]
             b == [i \in 0 .. 9 |-> IF i \in {0, 2, 3, 8} THEN 1 ELSE 0]
  <1>1. a \in [0 .. 9 -> Byte] /\ b \in [0 .. 9 -> Byte]
    BY DEF Byte
  <1>2. Agree(a, b, PipeStartHeader)
    BY DEF Agree, PipeStartHeader
  <1>3. WellFormed(a, PipeStartHeader) /\ WellFormed(b, PipeStartHeader)
    BY DEF WellFormed, PipeStartHeader, PipeVersion, Partial, WindowLimits
  <1>4. U32(a, 6) = 0 /\ U32(b, 6) = 65536
    BY DEF U32, U16
  <1>5. PipeStartRequest(a, PipeStartHeader).total_size = U32(a, 6)
    BY <1>3 DEF PipeStartRequest
  <1>6. PipeStartRequest(b, PipeStartHeader).total_size = U32(b, 6)
    BY <1>3 DEF PipeStartRequest
  <1>7. PipeStartRequest(a, PipeStartHeader) # PipeStartRequest(b, PipeStartHeader)
    BY <1>4, <1>5, <1>6
  <1>8. QED
    BY <1>1, <1>2, <1>3, <1>7

------------------------------------------------------------------------------
(* Clocks and flags. *)

(* A timeout is found to have passed exactly when that much time has, wherever  *)
(* millis() wraps, if tick() comes within half the clock's range and the sum    *)
(* is not the value that means unset (deadline_passed).                         *)
THEOREM DeadlineExact ==
    ASSUME NEW range \in Nat \ {0}, NEW start \in 0 .. range - 1,
           NEW timeout \in Nat, NEW elapsed \in Nat,
           2 * timeout < range, 2 * (elapsed - timeout) < range,
           Wrap(start + timeout, range) # 0
    PROVE  Passed(Wrap(start + timeout, range), Wrap(start + elapsed, range), range)
              <=> elapsed >= timeout
  <1>1. elapsed < range /\ timeout < range
    OBVIOUS
  <1>2. /\ Wrap(start + timeout, range) \in {start + timeout, start + timeout - range}
        /\ Wrap(start + timeout, range) \in 0 .. range - 1
    BY <1>1 DEF Wrap
  <1>3. /\ Wrap(start + elapsed, range) \in {start + elapsed, start + elapsed - range}
        /\ Wrap(start + elapsed, range) \in 0 .. range - 1
    BY <1>1 DEF Wrap
  <1> DEFINE deadline == Wrap(start + timeout, range)
             now == Wrap(start + elapsed, range)
  <1>4. Wrap(now - deadline, range) = IF elapsed >= timeout THEN elapsed - timeout
                                     ELSE elapsed - timeout + range
    BY <1>1, <1>2, <1>3 DEF Wrap
  <1>5. QED
    BY <1>4 DEF Passed

(* A host finds in the status byte the flag that build_msd was given, whatever  *)
(* battery, counter and connection bits stand beside it.                        *)
THEOREM RebootBitSurvives ==
    ASSUME NEW battery \in Nat, NEW reboot \in BOOLEAN, NEW requested \in BOOLEAN,
           NEW counter \in Nat
    PROVE  /\ ShowsReboot(MsdStatus(battery, reboot, requested, counter)) <=> reboot
           /\ MsdStatus(battery, reboot, requested, counter) \in Byte
  <1> DEFINE b == Flag(Clamp(battery, 511) >= 256, 1)
             r == Flag(reboot, 2)
             q == Flag(requested, 4)
             n == counter % 16
             status == b + r + q + 16 * n
  <1>1. MsdStatus(battery, reboot, requested, counter) = status
    BY DEF MsdStatus
  <1>2. b \in {0, 1} /\ q \in {0, 4} /\ n \in 0 .. 15
    BY DEF Flag
  <1>3. (reboot => r = 2) /\ (~reboot => r = 0)
    BY DEF Flag
  <1> HIDE DEF b, r, q, n
  <1>4. status \in 0 .. 255
    BY <1>2, <1>3
  <1>5. (status \div 2) % 2 = 1 <=> reboot
    <2>1. CASE reboot
      <3>1. status \div 2 = 1 + 2 * (q \div 4) + 8 * n
        BY <1>2, <1>3, <2>1
      <3>2. QED
        BY <1>2, <2>1, <3>1
    <2>2. CASE ~reboot
      <3>1. status \div 2 = 2 * (q \div 4) + 8 * n
        BY <1>2, <1>3, <2>2
      <3>2. QED
        BY <1>2, <2>2, <3>1
    <2>3. QED
      BY <2>1, <2>2
  <1>6. QED
    BY <1>1, <1>4, <1>5 DEF ShowsReboot, Byte

==============================================================================
