------------------------------- MODULE Protocol -------------------------------
(***************************************************************************)
(* protocol.cpp: what the bytes on the wire mean.  Operators only: the     *)
(* modules of the component use them, ProtocolProofs proves facts of them. *)
(*                                                                         *)
(* A byte is a number, a buffer a function from positions counted from 0.  *)
(* The widths and sizes are those of the code; they are small enough.      *)
(***************************************************************************)
EXTENDS Integers, Sequences

Byte == 0 .. 255

(* get_u16_le and get_u32_le at position i of buffer b. *)
U16(b, i) == b[i] + 256 * b[i + 1]
U32(b, i) == U16(b, i) + 65536 * U16(b, i + 2)

------------------------------------------------------------------------------
(* parse_frame: the opcode is big-endian, alone in that. *)

CarriesOpcode(length) == length >= 2
Opcode(b) == 256 * b[0] + b[1]

(* opendisplay_protocol.h: the opcodes of the commands handle_packet_ knows. *)
CMD_CONFIG_READ == 64
CMD_FIRMWARE_VERSION == 67
CMD_READ_MSD == 68
CMD_DIRECT_WRITE_START == 112
CMD_DIRECT_WRITE_DATA == 113
CMD_DIRECT_WRITE_END == 114
CMD_PIPE_WRITE_START == 128
CMD_PIPE_WRITE_DATA == 129
CMD_PIPE_WRITE_END == 130

(* Every other opcode is answered with a NACK. *)
CommandOf(opcode) ==
    CASE opcode = CMD_CONFIG_READ        -> "CONFIG_READ"
      [] opcode = CMD_FIRMWARE_VERSION   -> "FIRMWARE_VERSION"
      [] opcode = CMD_READ_MSD           -> "READ_MSD"
      [] opcode = CMD_DIRECT_WRITE_START -> "DIRECT_START"
      [] opcode = CMD_DIRECT_WRITE_DATA  -> "DIRECT_DATA"
      [] opcode = CMD_DIRECT_WRITE_END   -> "DIRECT_END"
      [] opcode = CMD_PIPE_WRITE_START   -> "PIPE_START"
      [] opcode = CMD_PIPE_WRITE_DATA    -> "PIPE_DATA"
      [] opcode = CMD_PIPE_WRITE_END     -> "PIPE_END"
      [] OTHER                           -> "UNSUPPORTED"

------------------------------------------------------------------------------
(* parse_pipe_start. `slot' is the payload's place in the RX slot: bytes at and *)
(* behind `length' are what the slot's last packet left there.                  *)

PipeVersion == 1
PipeStartHeader == 8      \* HDR, although total_size ends at byte 9
WindowLimits == 1 .. 32

(* struct PipeStartRequest: the six fields a request is made of. *)
PipeStartWire == 1 + 1 + 1 + 1 + 2 + 4

Compressed(slot) == slot[1] % 2 = 1
Partial(slot) == (slot[1] \div 2) % 2 = 1

(* A partial request is refused whether its extension is there or not, and a    *)
(* window or cadence out of range is an error, never clamped.                   *)
WellFormed(slot, length) ==
    /\ length >= PipeStartHeader
    /\ slot[0] = PipeVersion
    /\ slot[1] < 4 /\ ~Partial(slot)
    /\ slot[2] \in WindowLimits /\ slot[3] \in WindowLimits

(* The request as on_pipe_start sees it. *)
PipeStartRequest(slot, length) ==
    IF WellFormed(slot, length)
    THEN [well_formed |-> TRUE, compressed |-> Compressed(slot), total_size |-> U32(slot, 6),
          req_window |-> slot[2], req_ack_every |-> slot[3]]
    ELSE [well_formed |-> FALSE, compressed |-> FALSE, total_size |-> 0,
          req_window |-> 1, req_ack_every |-> 1]

------------------------------------------------------------------------------
(* What handle_packet_ makes of a packet in an RX slot: the command, and of its *)
(* payload what the handler looks at.                                           *)

Payload(slot) == [i \in {i - 2 : i \in DOMAIN slot \ {0, 1}} |-> slot[i + 2]]

Command(slot, length) ==
    LET op == CommandOf(Opcode(slot))
        payload_length == length - 2
    IN  IF ~CarriesOpcode(length) THEN [op |-> "NO_OPCODE"]
        ELSE IF op \in {"DIRECT_START", "DIRECT_DATA"}
        THEN [op |-> op, length |-> payload_length]
        ELSE IF op = "PIPE_START"
        THEN [op |-> op, request |-> PipeStartRequest(Payload(slot), payload_length)]
        ELSE IF op = "PIPE_DATA"
        THEN [op |-> op, payload |-> IF payload_length = 0 THEN <<>>
                                     ELSE <<slot[2], payload_length - 1>>]
        ELSE [op |-> op]

------------------------------------------------------------------------------
(* build_inorder_ack_mask, as the word it returns, and the bits of a word. *)

AckMaskWord(accepted_packets, bits) ==
    IF accepted_packets <= 1 THEN 0
    ELSE IF accepted_packets - 1 >= bits THEN 2^bits - 1
    ELSE 2^(accepted_packets - 1) - 1

BitsOf(word, bits) == {i \in 0 .. bits - 1 : (word \div 2^i) % 2 = 1}

------------------------------------------------------------------------------
(* The manufacturer-specific data: build_msd. Temperatures in half degrees, the *)
(* unit of the encoded byte, which is 0 at -40 degrees.                         *)

Clamp(v, top) == IF v < 0 THEN 0 ELSE IF v > top THEN top ELSE v

Flag(set, weight) == IF set THEN weight ELSE 0

(* OD_MSD_STATUS_*: battery bit 8, reboot, connection requested, loop counter. *)
MsdStatus(battery, reboot_flag, connection_requested, loop_counter) ==
    Flag(Clamp(battery, 511) >= 256, 1) + Flag(reboot_flag, 2)
        + Flag(connection_requested, 4) + 16 * (loop_counter % 16)

BuildMsd(half_degrees, battery, reboot_flag, connection_requested, loop_counter) ==
    [chip_temperature |-> Clamp(half_degrees + 80, 255),
     battery_voltage_low |-> Clamp(battery, 511) % 256,
     status |-> MsdStatus(battery, reboot_flag, connection_requested, loop_counter)]

(* A host reads the flag from bit 1. *)
ShowsReboot(status) == (status \div 2) % 2 = 1

------------------------------------------------------------------------------
(* The config blob: build_config_blob and encode_config_chunk. *)

ConfigBlobMax == 160
MaxResponseData == 100

(* append_packet: number and id in front of a struct of opendisplay_structs.h, *)
(* whose size is that of its fields.                                           *)
PacketLength(struct) == 2 + struct
OuterHeader == 2 + 1
SystemConfig == 2 + 1 + 1 + 1 + 15 + 1 + 1
ManufacturerData == 2 + 1 + 1 + 3 * 2 + 6 + 6
PowerOption == 1 + 3 + 2 + 6 * 1 + 2 + 4 + 2 + 3 * 1 + 2 + 1 + 4
DisplayConfig == 2 * 1 + 6 * 2 + 17 * 1 + 2 + 13
Crc == 2

ConfigBlobLength ==
    OuterHeader + PacketLength(SystemConfig) + PacketLength(ManufacturerData)
        + PacketLength(PowerOption) + PacketLength(DisplayConfig) + Crc

(* Capabilities are looked at before a byte is written; then each append_packet *)
(* and the CRC must fit.                                                        *)
ConfigValid(caps, capacity) ==
    /\ caps.width # 0 /\ caps.height # 0
    /\ caps.full_frame_bytes # 0
    /\ caps.supports_direct_write \/ caps.supports_pipe_write
    /\ ConfigBlobLength <= capacity

(* crc16_ccitt_false: a word is the set of its bits that are 1. *)
Xor(a, b) == (a \ b) \cup (b \ a)
Crc16Start == 0 .. 15
Crc16Shift(crc) ==
    LET shifted == {i + 1 : i \in crc \ {15}}
    IN  IF 15 \in crc THEN Xor(shifted, {0, 5, 12}) ELSE shifted

(* The register after the bytes of a sequence of numbers. *)
Crc16(bytes) ==
    LET AfterBits[crc \in SUBSET (0 .. 15), n \in 0 .. 8] ==
            IF n = 0 THEN crc ELSE Crc16Shift(AfterBits[crc, n - 1])
        After[n \in 0 .. Len(bytes)] ==
            IF n = 0 THEN Crc16Start
            ELSE AfterBits[Xor(After[n - 1], {i + 8 : i \in BitsOf(bytes[n], 8)}), 8]
    IN  After[Len(bytes)]

ChunkHeader(index) == IF index = 0 THEN 6 ELSE 4
ChunkCapacity(index) == MaxResponseData - ChunkHeader(index)

ChunkOffset(index) ==
    IF index = 0 THEN 0
    ELSE (MaxResponseData - 6) + (index - 1) * (MaxResponseData - 4)

(* The bytes of a blob chunk `index' carries; none when the blob is exhausted. *)
ChunkBytes(length, index) ==
    {p \in 0 .. length - 1 :
        ChunkOffset(index) <= p /\ p < ChunkOffset(index) + ChunkCapacity(index)}

------------------------------------------------------------------------------
(* The bytes a response takes in Response::data, whose size is MaxResponseData. *)

MsdBytes == 2 + 11 + 1 + 1 + 1

StatusAndEcho == 2
StartAckLength == StatusAndEcho + 1 + 1 + 1 + 2 + 1
SackLength == StatusAndEcho + 1 + 4
PipeNackLength == StatusAndEcho + 1 + 1 + 4
VersionLength(sha) == 6 + (IF sha < 40 THEN sha ELSE 40)
MsdLength == StatusAndEcho + MsdBytes
ChunkLength(length, index) ==
    ChunkHeader(index)
        + (IF length - ChunkOffset(index) < ChunkCapacity(index)
           THEN length - ChunkOffset(index) ELSE ChunkCapacity(index))

------------------------------------------------------------------------------
(* deadline_passed on a clock of `range' values: the sign of a difference.  A   *)
(* sum or difference of two clock values wraps at most once.                    *)

Wrap(v, range) == IF v < 0 THEN v + range ELSE IF v >= range THEN v - range ELSE v

Passed(deadline, now, range) ==
    /\ deadline # 0
    /\ 2 * Wrap(now - deadline, range) < range

==============================================================================
