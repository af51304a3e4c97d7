------------------------------ MODULE MCPipeLink ------------------------------
(* PipeLink with a frame of five chunks numbered modulo four and a client that *)
(* asks for more than it is granted.                                           *)
EXTENDS PipeLink

(* The payload of a 0x80 request as bytes: version, flags, window, cadence, a *)
(* frame of 244 bytes, the total size.                                        *)
StartBytes(asked, every) ==
    [i \in 0 .. 9 |-> CASE i = 0 -> 1 [] i = 2 -> asked [] i = 3 -> every
                        [] i = 4 -> 244 [] i = 6 -> FullFrameBytes [] OTHER -> 0]

(* A client that asks for more than it is granted, and one whose window closes *)
(* before a SACK is due.                                                       *)
MCPipeRequests ==
    {PipeStartRequest(StartBytes(4, 3), 10), PipeStartRequest(StartBytes(1, 2), 10)}

MCCommands ==
    {[op |-> "CONFIG_READ"], [op |-> "READ_MSD"]}
    \cup {[op |-> "PIPE_START", request |-> request] : request \in MCPipeRequests}
    \cup {Chunk(n) : n \in Chunks}

(* protocol.cpp:164-173 and :249-257 against what they should compute: the mask's *)
(* word is the engine's set of chunks, and the CRC of the nine digits is the check *)
(* value of CRC-16/CCITT-FALSE, which protocol.h:115 names.                        *)
ASSUME MaskWords ==
    \A bits \in 1 .. 12, n \in 0 .. 15 :
        BitsOf(AckMaskWord(n, bits), bits) = {i \in 0 .. bits - 1 : i + 1 < n}

ASSUME CrcCheckValue ==
    Crc16([i \in 1 .. 9 |-> 48 + i]) = BitsOf(10673, 16)    \* 0x29B1

(* The OD_STATIC_ASSERTs of opendisplay_structs.h on the structs of the blob. *)
ASSUME WireSizes ==
    /\ OuterHeader = 3 /\ SystemConfig = 22 /\ ManufacturerData = 22
    /\ PowerOption = 30 /\ DisplayConfig = 46
    /\ PipeStartWire = 10 /\ MsdBytes = 16
    /\ StartAckLength = 2 + 6 /\ SackLength = 2 + 5

FiveRows ==
    [failed |-> FALSE, rotation |-> 0, native_width |-> 5, native_height |-> 5,
     color_scheme |-> "MONO"]

==============================================================================
