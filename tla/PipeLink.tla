------------------------------- MODULE PipeLink -------------------------------
(***************************************************************************)
(* The component and a PIPE client (external) over one connection.  The    *)
(* client reads the configuration and the MSD record, starts a transfer,   *)
(* keeps a window of chunks on their way, believes the SACKs it hears and  *)
(* sends again what they leave out.  A packet is lost only in a full ring, *)
(* an answer only in a full TX queue: the radio link itself is reliable.   *)
(*                                                                         *)
(* Every chunk has one byte, so chunk n is byte n of the frame.  The       *)
(* absolute number in a chunk is history: the component sees n % SeqMod.   *)
(***************************************************************************)
EXTENDS Entities

CONSTANTS
    MaxResends,    \* chunks the client repeats although an answer may be on its way
    MaxLocals      \* aborts and updates of the display by local automations

ASSUME LinkAssumption ==
    /\ \A request \in PipeRequests :
          /\ request.well_formed /\ ~request.compressed
          /\ request.total_size = FullFrameBytes
    /\ MaxWindow < SeqMod /\ MaxWindow <= AckMaskBits + 1
    /\ MaxResends \in Nat /\ MaxLocals \in Nat

VARIABLES
    phase,      \* what the client is doing
    window,     \* the window it was granted
    unsent,     \* the first chunk it has not sent yet
    acked,      \* the chunks it believes received
    resends,    \* repetitions so far that no timeout justified
    blob,       \* the positions of the config blob it has read
    air,        \* notifications on their way to it
    locals,     \* local aborts and updates so far
    silenced    \* one of them ended a refresh, of which nobody is told

clientVars == <<phase, window, unsent, acked, resends, blob, air>>
localVars == <<locals, silenced>>
linkVars == <<entitiesVars, clientVars, localVars>>

Chunks == FrameOffsets
Ends == {"shown", "timeout", "failed"}
Phases == {"off", "config", "msd", "start", "sending", "refreshing"} \cup Ends

LinkInit ==
    /\ EntitiesInit
    /\ phase = "off" /\ window = 0 /\ unsent = 0 /\ acked = {} /\ resends = 0
    /\ blob = {}
    /\ air = <<>>
    /\ locals = 0 /\ silenced = FALSE

------------------------------------------------------------------------------
(* The client's side *)

(* What a write callback leaves alone besides OnBleWrite's own. *)
Writes(c) == OnBleWrite(c) /\ UNCHANGED entityVars

Connect ==
    /\ OnBleConnect
    /\ UNCHANGED <<entityVars, clientVars>>

AskConfig ==
    /\ phase = "off"
    /\ Writes([op |-> "CONFIG_READ"])
    /\ phase' = "config"
    /\ UNCHANGED <<window, unsent, acked, resends, blob, air>>

Chunk(n) == [op |-> "PIPE_DATA", payload |-> <<n % SeqMod, 1>>, chunk |-> n]

(* All that the client sends is among the component's inputs. *)
ASSUME ClientAssumption ==
    /\ [op |-> "CONFIG_READ"] \in Commands /\ [op |-> "READ_MSD"] \in Commands
    /\ \A request \in PipeRequests : [op |-> "PIPE_START", request |-> request] \in Commands
    /\ \A n \in Chunks : Chunk(n) \in Commands

(* The lowest chunk that is not known to be received. *)
Base == CHOOSE n \in 0 .. FullFrameBytes :
            n \notin acked /\ \A k \in 0 .. n - 1 : k \in acked

SendNext ==
    /\ phase = "sending"
    /\ unsent \in Chunks /\ unsent < Base + window
    /\ Writes(Chunk(unsent))
    /\ unsent' = unsent + 1
    /\ UNCHANGED <<phase, window, acked, resends, blob, air>>

(* Nothing of the client's is on its way any more, nor an answer to it. *)
Quiet == rx = <<>> /\ tx = <<>> /\ air = <<>>

(* A timeout: the client sends again from where it knows the receiver to be. *)
ResendBase ==
    /\ phase = "sending" /\ Quiet
    /\ Base < unsent
    /\ Writes(Chunk(Base))
    /\ UNCHANGED clientVars

(* An impatient client repeats any chunk that is still open. *)
ResendEarly ==
    /\ phase = "sending" /\ ~Quiet
    /\ resends < MaxResends
    /\ \E n \in 0 .. unsent - 1 : n \notin acked /\ Writes(Chunk(n))
    /\ resends' = resends + 1
    /\ UNCHANGED <<phase, window, unsent, acked, blob, air>>

(* The chunks a SACK names: its numbers are taken relative to the lowest open chunk, *)
(* and a number outside the chunks sent since is old news.                           *)
Named(frame) ==
    LET highest == Base + ((frame.highest + SeqMod - (Base % SeqMod)) % SeqMod)
    IN  IF highest < unsent
        THEN {highest} \cup {highest - 1 - i : i \in {i \in frame.mask : i < highest}}
        ELSE {}

(* Reading the configuration ends with its last byte. *)
HearConfig(frame) ==
    /\ frame.kind = "CONFIG"
    /\ blob' = blob \cup frame.bytes
    /\ IF blob' = 0 .. ConfigBlobLength - 1
       THEN phase' = "msd" /\ Writes([op |-> "READ_MSD"])
       ELSE UNCHANGED <<phase, allVars, entityVars>>
    /\ UNCHANGED <<window, unsent, acked, resends>>

HearMsd(frame) ==
    /\ frame.kind = "MSD"
    /\ phase' = "start"
    /\ \E request \in PipeRequests : Writes([op |-> "PIPE_START", request |-> request])
    /\ UNCHANGED <<window, unsent, acked, resends, blob>>

HearStartAck(frame) ==
    /\ frame.kind = "START_ACK"
    /\ phase' = "sending"
    /\ window' = frame.window
    /\ UNCHANGED <<allVars, entityVars>>
    /\ UNCHANGED <<unsent, acked, resends, blob>>

HearSack(frame) ==
    /\ frame.kind = "SACK"
    /\ acked' = acked \cup Named(frame)
    /\ UNCHANGED <<allVars, entityVars>>
    /\ UNCHANGED <<phase, window, unsent, resends, blob>>

(* The end of the transfer; a NACK that comes after the END ACK is about a repetition. *)
HearResult(frame) ==
    /\ \/ frame = Ack("PIPE_END") /\ phase' = (IF phase = "sending" THEN "refreshing" ELSE phase)
       \/ frame = RefreshSuccess /\ phase' = (IF phase = "refreshing" THEN "shown" ELSE phase)
       \/ frame = RefreshTimeout /\ phase' = (IF phase = "refreshing" THEN "timeout" ELSE phase)
       \/ frame.kind \in {"NACK", "PIPE_NACK"}
          /\ phase' = (IF phase \in {"start", "sending"} THEN "failed" ELSE phase)
    /\ UNCHANGED <<allVars, entityVars>>
    /\ UNCHANGED <<window, unsent, acked, resends, blob>>

Hear ==
    /\ air # <<>>
    /\ air' = Tail(air)
    /\ \/ HearConfig(Head(air))
       \/ HearMsd(Head(air))
       \/ HearStartAck(Head(air))
       \/ HearSack(Head(air))
       \/ HearResult(Head(air))

Client == AskConfig \/ SendNext \/ ResendBase \/ ResendEarly \/ Hear

------------------------------------------------------------------------------
(* The component's side: what drain_tx_ takes from the TX queue is notified. *)

Notified == SubSeq(tx, 1, Len(tx) - Len(tx'))

LinkLoop ==
    /\ LoopWithEntities
    /\ air' = IF stage = "drain" THEN air \o Notified ELSE air
    /\ UNCHANGED <<phase, window, unsent, acked, resends, blob>>

Connecting == (CountConnection \/ TellEngine) /\ UNCHANGED <<entityVars, clientVars>>

(* The driver and the clock. *)
World(A) == A /\ UNCHANGED <<componentVars, entityVars, clientVars>>
Finishes == World(DriverFinishes /\ UNCHANGED engineVars)
DriverBreaks == World(DriverFails /\ UNCHANGED engineVars)

(* opendisplay.abort, and an automation that calls update() on the same display. *)
Aborts ==
    /\ World(LocalAbort)
    /\ silenced' = (silenced \/ txn.state = "REFRESHING")

Updates ==
    /\ World(LocalUpdate /\ UNCHANGED engineVars)
    /\ UNCHANGED silenced

Automation ==
    /\ locals < MaxLocals
    /\ Aborts \/ Updates
    /\ locals' = locals + 1

Undisturbed(A) == A /\ UNCHANGED localVars

LinkNext ==
    \/ Automation
    \/ Undisturbed(Connect)
    \/ Undisturbed(Connecting)
    \/ Undisturbed(Client)
    \/ Undisturbed(LinkLoop)
    \/ Undisturbed(Finishes)
    \/ Undisturbed(DriverBreaks)
    \/ Undisturbed(World(DeadlinePasses))

(* loop() runs for ever and a busy driver ends; the client connects, listens, sends *)
(* what its window allows and has a timeout.                                        *)
LinkSpec ==
    /\ LinkInit /\ [][LinkNext]_linkVars
    /\ WF_linkVars(Undisturbed(LinkLoop))
    /\ WF_linkVars(Undisturbed(Connecting))
    /\ WF_linkVars(Undisturbed(Finishes))
    /\ WF_linkVars(Undisturbed(Connect)) /\ WF_linkVars(Undisturbed(AskConfig))
    /\ WF_linkVars(Undisturbed(SendNext)) /\ WF_linkVars(Undisturbed(ResendBase))
    /\ WF_linkVars(Undisturbed(Hear))

------------------------------------------------------------------------------
(* Properties *)

LinkTypeOK ==
    /\ ComponentTypeOK /\ EntityTypeOK
    /\ phase \in Phases
    /\ window \in 0 .. MaxWindow
    /\ unsent \in 0 .. FullFrameBytes /\ acked \subseteq Chunks
    /\ resends \in 0 .. MaxResends
    /\ blob \subseteq 0 .. ConfigBlobLength - 1
    /\ locals \in 0 .. MaxLocals /\ silenced \in BOOLEAN

(* A byte of the frame is only ever written from its own chunk, however often     *)
(* chunks are lost, repeated or late and their numbers wrap (on_pipe_data).       *)
ChunksInPlace ==
    [][stage = "packets" /\ popped' # popped /\ loaded' # loaded /\ loaded' # {}
         => loaded' \ loaded = {Head(rx).command.chunk}]_linkVars

(* opendisplay_protocol.h:628-629: what a SACK made the client believe received is *)
(* in the framebuffer, over wrapped numbers, masks and answers that come late.     *)
AckedWereReceived == acked \subseteq loaded

(* The END ACK tells the client nothing new about chunks: the tail SACK before it *)
(* (transfer_engine.h:102-104) has named every chunk, and none was dropped.       *)
EndAfterLastSack == phase \in {"refreshing", "shown"} => acked = Chunks

(* A client with a timeout gets its image shown, whatever chunks the ring loses,  *)
(* unless a deadline passes, the driver fails, or an automation aborts the        *)
(* transfer or uses the display for itself.                                       *)
TransferSucceeds ==
    <>(phase = "shown" \/ txn.deadline = "passed" \/ driver = "failed" \/ locals > 0)

(* Even then the client is told, except in two cases: of a driver that fails      *)
(* during the refresh tick() tells YAML only, and opendisplay.abort during the    *)
(* refresh resets the transaction and sends nothing (transfer_engine.cpp:56-68),  *)
(* so that no 0x73 or 0x74 will ever come.                                        *)
ClientReleased == <>(phase \in Ends \/ driver = "failed" \/ silenced)

==============================================================================
