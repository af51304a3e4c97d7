----------------------------- MODULE OpenDisplay -----------------------------
(***************************************************************************)
(* OpenDisplayComponent (opendisplay.cpp): the transfer engine, the RX and *)
(* TX queues and the connection, driven from loop(), with the BLE          *)
(* callbacks running between any two steps of it.                          *)
(*                                                                         *)
(* The RX ring is the bounded queue that module RxQueue implements.  The   *)
(* MSD record is any of MsdStatuses here; module Entities says which, and  *)
(* adds what the component publishes.                                      *)
(***************************************************************************)
EXTENDS TransferEngine, Protocol, Framebuffer

CONSTANTS
    Commands,        \* the commands clients send
    Display,         \* the display driver's geometry, as init() finds it
    MsdStatuses,     \* the status bytes the MSD record may hold
    RxSlots,         \* RX_QUEUE_SLOTS: 24
    TxSlots,         \* TX_QUEUE_SLOTS: 16
    TxReserved,      \* TX_RESERVED_FOR_TERMINAL: 4
    LoopPackets,     \* packets handled by one loop(): 8
    LoopFrames,      \* frames sent by one loop(): 4
    PromptLoop       \* loop() sees a disconnect, and an empty ring, before the next connect

ASSUME ComponentAssumption ==
    /\ RxSlots \in Nat \ {0, 1} /\ TxSlots \in Nat \ {0, 1}
    /\ TxReserved \in 0 .. TxSlots - 1
    /\ LoopPackets \in Nat \ {0} /\ LoopFrames \in Nat \ {0}
    /\ Usable(Display)
    /\ Capabilities(Display).full_frame_bytes = FullFrameBytes
    /\ MsdStatuses \subseteq Byte
    /\ PromptLoop \in BOOLEAN

(* What clients send is among the inputs the engine is modelled for.            *)
ASSUME CommandAssumption ==
    \A c \in Commands :
        /\ c.op \in {"DIRECT_START", "DIRECT_DATA"} => c.length \in DataLengths
        /\ c.op = "PIPE_START" => c.request \in PipeRequests
        /\ c.op = "PIPE_DATA" => c.payload \in PipePayloads

VARIABLES
    connected,       \* connected_
    linking,         \* how far on_ble_connect has come: no, connected, counted
    session,         \* the component's connection_generation_
    rx,              \* rx_
    tx,              \* tx_
    stage,           \* the next thing loop() does: start, packets, tick, drain
    popped,          \* packets this loop() has handled
    noticed          \* loop() has seen that nobody is connected and nothing is queued

componentVars == <<connected, linking, session, rx, tx, stage, popped, noticed>>
allVars == <<vars, componentVars>>

Outcomes == {RefreshSuccess, RefreshTimeout}
EndAcks == {Ack("DIRECT_END"), Ack("PIPE_END")}

ComponentInit ==
    /\ Init
    /\ connected = FALSE /\ linking = "no" /\ session = 0
    /\ rx = <<>> /\ tx = <<>>
    /\ stage = "start" /\ popped = 0
    /\ noticed = TRUE

------------------------------------------------------------------------------
(* Sending. *)

(* Mutant: the test of the reserve is turned round. *)
TxAcceptsTurned(used, terminal) ==
    /\ used < TxSlots - 1
    /\ terminal => used + TxReserved < TxSlots

(* Mutant: one slot more is kept than is reserved. *)
TxAcceptsOneFewer(used, terminal) ==
    /\ used < TxSlots - 1
    /\ ~terminal => used + TxReserved < TxSlots - 1

(* One slot of the ring stays free, and TxReserved are kept for terminal frames. *)
TxAccepts(used, terminal) ==
    /\ used < TxSlots - 1
    /\ ~terminal => used + TxReserved < TxSlots

(* send_: a frame that does not fit is dropped. *)
Send(q, frame, terminal) == IF TxAccepts(Len(q), terminal) THEN Append(q, frame) ELSE q

(* apply_result_ on the engine's reply r. A staged tail SACK and the outcome of   *)
(* a refresh go out as terminal frames, a response only if the call failed.       *)
Terminal(r, i) ==
    \/ r.failed
    \/ r.frames[i] \in Outcomes
    \/ i = 1 /\ Len(r.frames) = 2

(* The i-th frame of the reply, if there is one. *)
SendFrame(q, r, i) ==
    IF i <= Len(r.frames) THEN Send(q, r.frames[i], Terminal(r, i)) ELSE q

(* A reply is a staged tail SACK and one more frame at most. *)
ApplyResult(r) == tx' = SendFrame(SendFrame(tx, r, 1), r, 2)

------------------------------------------------------------------------------
(* The BLE callbacks, and the client behind them (external) *)

(* Mutant: a packet is stamped with the number of the next connection. *)
OnBleWriteAhead(c) ==
    /\ connected /\ linking = "no"
    /\ rx' = IF Len(rx) < RxSlots - 1 THEN Append(rx, [session |-> session + 1, command |-> c])
                                      ELSE rx
    /\ UNCHANGED <<connected, linking, session, tx, stage, popped, noticed>>
    /\ UNCHANGED vars

(* on_ble_write: a packet that finds the ring full is lost. *)
OnBleWrite(c) ==
    /\ connected /\ linking = "no"
    /\ rx' = IF Len(rx) < RxSlots - 1 THEN Append(rx, [session |-> session, command |-> c])
                                      ELSE rx
    /\ UNCHANGED <<connected, linking, session, tx, stage, popped, noticed>>
    /\ UNCHANGED vars

ClientWrites == \E c \in Commands : OnBleWrite(c)

(* on_ble_connect, whose three assignments loop() may run between. *)
OnBleConnect ==
    /\ ~connected
    /\ session < MaxGeneration
    /\ PromptLoop => noticed
    /\ connected' = TRUE
    /\ linking' = "connected"
    /\ UNCHANGED <<session, rx, tx, stage, popped, noticed>>
    /\ UNCHANGED vars

CountConnection ==
    /\ linking = "connected"
    /\ session' = session + 1
    /\ linking' = "counted"
    /\ UNCHANGED <<connected, rx, tx, stage, popped, noticed>>
    /\ UNCHANGED vars

TellEngine ==
    /\ linking = "counted"
    /\ SetConnectionGeneration
    /\ linking' = "no"
    /\ UNCHANGED <<connected, session, rx, tx, stage, popped, noticed>>

OnBleDisconnect ==
    /\ connected /\ linking = "no"
    /\ connected' = FALSE
    /\ noticed' = FALSE
    /\ UNCHANGED <<linking, session, rx, tx, stage, popped>>
    /\ UNCHANGED vars

------------------------------------------------------------------------------
(* loop() *)

(* Mutant: a disconnect is reported for the connection before. *)
LoopStartsLate ==
    /\ stage = "start"
    /\ IF ~connected /\ DisconnectEnds(session + 1) THEN OnDisconnect(session + 1)
                                                    ELSE UNCHANGED vars
    /\ noticed' = (~connected /\ rx = <<>>)
    /\ stage' = "packets" /\ popped' = 0
    /\ UNCHANGED <<connected, linking, session, rx, tx>>

LoopStarts ==
    /\ stage = "start"
    /\ IF ~connected /\ DisconnectEnds(session) THEN OnDisconnect(session)
                                                ELSE UNCHANGED vars
    /\ noticed' = (~connected /\ rx = <<>>)
    /\ stage' = "packets" /\ popped' = 0
    /\ UNCHANGED <<connected, linking, session, rx, tx>>

(* handle_packet_, for the opcodes of a transfer ... *)
HandleCommand(c) ==
    \/ c.op = "DIRECT_START" /\ OnDirectStart(c.length)
    \/ c.op = "DIRECT_DATA" /\ OnDirectData(c.length)
    \/ c.op = "DIRECT_END" /\ OnDirectEnd
    \/ c.op = "PIPE_START" /\ OnPipeStart(c.request)
    \/ c.op = "PIPE_DATA" /\ OnPipeData(c.payload)
    \/ c.op = "PIPE_END" /\ OnPipeEnd

(* send_config_: the chunks of the config blob up to the first empty one, or one *)
(* NACK.                                                                        *)
ChunkCount ==
    CHOOSE n \in 0 .. ConfigBlobLength :
        /\ ChunkBytes(ConfigBlobLength, n) = {}
        /\ \A i \in 0 .. n - 1 : ChunkBytes(ConfigBlobLength, i) # {}

ConfigChunks ==
    [n \in 1 .. ChunkCount |->
        [kind |-> "CONFIG", index |-> n - 1, bytes |-> ChunkBytes(ConfigBlobLength, n - 1)]]

ConfigFrames ==
    IF ConfigValid(Capabilities(Display), ConfigBlobMax) THEN ConfigChunks
                                                         ELSE <<Nack("CONFIG_READ")>>

VersionFrame == [kind |-> "VERSION"]
MsdFrame(status) == [kind |-> "MSD", status |-> status]
OwnFrames ==
    {VersionFrame, Nack("UNSUPPORTED"), Nack("CONFIG_READ")}
    \cup {MsdFrame(status) : status \in MsdStatuses}
    \cup {ConfigChunks[n] : n \in DOMAIN ConfigChunks}

(* ... and for those that never reach the engine. They are answered from what the *)
(* component knows and disturb no transfer. A packet without an opcode is ignored. *)
OwnAnswer(c, status) ==
    CASE c.op = "CONFIG_READ"      -> ConfigFrames
      [] c.op = "FIRMWARE_VERSION" -> <<VersionFrame>>
      [] c.op = "READ_MSD"         -> <<MsdFrame(status)>>
      [] c.op = "UNSUPPORTED"      -> <<Nack("UNSUPPORTED")>>
      [] c.op = "NO_OPCODE"        -> <<>>

Queries == {"CONFIG_READ", "FIRMWARE_VERSION", "READ_MSD", "UNSUPPORTED", "NO_OPCODE"}

(* The frames of an answer are normal ones. The first that does not fit is the end *)
(* of it.                                                                          *)
SendUntilRefused(frames) ==
    \E n \in 0 .. Len(frames) :
        /\ \A k \in 0 .. n - 1 : TxAccepts(Len(tx) + k, FALSE)
        /\ n < Len(frames) => ~TxAccepts(Len(tx) + n, FALSE)
        /\ tx' = tx \o SubSeq(frames, 1, n)

HandleQuery(c, status) ==
    /\ c.op \in Queries
    /\ SendUntilRefused(OwnAnswer(c, status))
    /\ UNCHANGED vars

HandleOwnPacket(c, status) ==
    \/ HandleCommand(c) /\ ApplyResult(reply')
    \/ HandleQuery(c, status)

HandlePacket(status) ==
    /\ stage = "packets" /\ popped < LoopPackets /\ rx # <<>>
    /\ IF Head(rx).session = session THEN HandleOwnPacket(Head(rx).command, status)
                                     ELSE UNCHANGED <<vars, tx>>
    /\ rx' = Tail(rx)
    /\ popped' = popped + 1
    /\ UNCHANGED <<connected, linking, session, stage, noticed>>

PacketsHandled ==
    /\ stage = "packets"
    /\ popped = LoopPackets \/ rx = <<>>
    /\ stage' = "tick"
    /\ UNCHANGED <<connected, linking, session, rx, tx, popped, noticed>>
    /\ UNCHANGED vars

LoopTicks ==
    /\ stage = "tick"
    /\ Tick
    /\ ApplyResult(reply')
    /\ stage' = "drain"
    /\ UNCHANGED <<connected, linking, session, rx, popped, noticed>>

(* drain_tx_. Frames for a client that has gone wait for the next one. *)
LoopDrains ==
    /\ stage = "drain"
    /\ tx' = IF connected THEN SubSeq(tx, Lesser(LoopFrames, Len(tx)) + 1, Len(tx)) ELSE tx
    /\ stage' = "start"
    /\ UNCHANGED <<connected, linking, session, rx, popped, noticed>>
    /\ UNCHANGED vars

Loop ==
    \/ LoopStarts
    \/ \E status \in MsdStatuses : HandlePacket(status)
    \/ PacketsHandled
    \/ LoopTicks
    \/ LoopDrains

(* opendisplay.abort from an automation, which may also hang off a trigger that   *)
(* apply_result_ fires.                                                           *)
AbortAction ==
    /\ LocalAbort
    /\ UNCHANGED componentVars

------------------------------------------------------------------------------
Ble == ClientWrites \/ OnBleConnect \/ CountConnection \/ TellEngine \/ OnBleDisconnect

ComponentNext ==
    \/ Ble
    \/ Loop
    \/ AbortAction
    \/ (DeadlinePasses \/ EnvironmentStep) /\ UNCHANGED componentVars

ComponentSpec == ComponentInit /\ [][ComponentNext]_allVars

------------------------------------------------------------------------------
(* Properties *)

ComponentTypeOK ==
    /\ TypeOK
    /\ connected \in BOOLEAN /\ noticed \in BOOLEAN
    /\ linking \in {"no", "connected", "counted"}
    /\ session \in 0 .. MaxGeneration
    /\ Len(rx) < RxSlots /\ Len(tx) < TxSlots
    /\ \A i \in DOMAIN rx : rx[i] \in [session : 0 .. MaxGeneration, command : Commands]
    /\ \A i \in DOMAIN tx : tx[i] \in Frames \cup OwnFrames
    /\ stage \in {"start", "packets", "tick", "drain"}
    /\ popped \in 0 .. LoopPackets

(* The step is handle_packet_ with a command for the engine, or the tick. *)
EngineCalled ==
    \/ /\ stage = "packets" /\ popped' # popped
       /\ Head(rx).session = session /\ Head(rx).command.op \notin Queries
    \/ stage = "tick" /\ stage' # stage

(* ble_transport.h:69-72: END ACK, 0x73 and 0x74 always find room in the TX queue, *)
(* whatever normal frames it holds. If one were dropped, the panel would change    *)
(* while its client waited for ever. For 0x73 and 0x74 the reserve sees to it; the *)
(* END ACK is a normal frame to apply_result_, and its half holds only where few   *)
(* answers can wait in front of it.                                                *)
OutcomesQueued ==
    [][EngineCalled /\ (\E f \in Outcomes \cup EndAcks : Says(f)')
         => tx' = tx \o reply'.frames]_allVars

(* Only the client that began a frame adds to it: Component_Plan.md:418 has a      *)
(* disconnect end the transfer it interrupts, and loop() drops stale packets.      *)
FrameFromOneClient ==
    [][stage = "packets" /\ popped' # popped /\ loaded' # loaded /\ loaded' # {}
         => Head(rx).session = txn.generation]_allVars

(* A client that has gone leaves no transfer behind once loop() has found its link *)
(* down and its packets used up, wherever in loop() it went away and whatever      *)
(* START it had still queued (loop() with on_disconnect).                          *)
GoneClientForgotten == noticed /\ ~connected => txn.state # "RECEIVING"

==============================================================================
