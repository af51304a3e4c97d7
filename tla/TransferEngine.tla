--------------------------- MODULE TransferEngine ---------------------------
(***************************************************************************)
(* The transfer engine of the OpenDisplay component: transfer_engine.h and *)
(* transfer_engine.cpp over the backend of module Backend.                 *)
(*                                                                         *)
(* One action is one call of a public method.  The methods run to          *)
(* completion in loop(), so VALIDATING and WRITING, which exist only       *)
(* inside finish_and_refresh_, are never seen between two actions.         *)
(* `reply' is what the last call made the component put on the wire: the   *)
(* staged tail SACK, then EngineResult::response, then 0x73 or 0x74.       *)
(* last_error_ and the statistics influence nothing and are left out.      *)
(***************************************************************************)
EXTENDS Backend, Sequences

CONSTANTS
    SeqMod,          \* the range of the uint8_t sequence number: 256
    AckMaskBits,     \* PIPE_ACK_MASK_BITS: 32
    MaxWindow,       \* PIPE_MAX_WINDOW: 16
    MaxAckEvery,     \* PIPE_MAX_ACK_EVERY: 4
    DataLengths,     \* the payload lengths a client may send
    PipeRequests,    \* the 0x80 requests a client may send, as parsed
    MaxGeneration    \* bound on the number of connections

PipeRequestType ==
    [well_formed : BOOLEAN, compressed : BOOLEAN, total_size : Nat,
     req_window : Nat \ {0}, req_ack_every : Nat \ {0}]

ASSUME EngineAssumption ==
    /\ SeqMod \in Nat \ {0}
    /\ AckMaskBits \in Nat
    /\ MaxWindow \in Nat \ {0}
    /\ MaxAckEvery \in Nat \ {0}
    /\ DataLengths \subseteq Nat
    /\ PipeRequests \subseteq PipeRequestType
    /\ MaxGeneration \in Nat

VARIABLES
    txn,                     \* Transaction
    hw_owned,                \* hw_owned_
    connection_generation,   \* connection_generation_
    reply                    \* EngineResult and tail SACK of the last call

engineVars == <<txn, hw_owned, connection_generation, reply>>
vars == <<txn, hw_owned, connection_generation, reply,
          driver, refresh_mark, loaded, shown>>

Lesser(a, b) == IF a < b THEN a ELSE b

------------------------------------------------------------------------------
(* The wire. *)

Ack(op)  == [kind |-> "ACK", op |-> op]
Nack(op) == [kind |-> "NACK", op |-> op]
StartAck(window, ack_every) ==
    [kind |-> "START_ACK", window |-> window, ack_every |-> ack_every]
Sack(highest, mask)     == [kind |-> "SACK", highest |-> highest, mask |-> mask]
PipeNack(highest, mask) == [kind |-> "PIPE_NACK", highest |-> highest, mask |-> mask]
RefreshSuccess == Ack("REFRESH_SUCCESS")   \* 0x0073
RefreshTimeout == Ack("REFRESH_TIMEOUT")   \* 0x0074

Opcodes == {"DIRECT_START", "DIRECT_DATA", "DIRECT_END", "PIPE_START", "PIPE_END",
            "REFRESH_SUCCESS", "REFRESH_TIMEOUT"}
Masks == SUBSET (0 .. AckMaskBits - 1)
Seqs == 0 .. SeqMod - 1
Frames ==
    [kind : {"ACK", "NACK"}, op : Opcodes]
    \cup [kind : {"START_ACK"}, window : 1 .. MaxWindow, ack_every : 1 .. MaxAckEvery]
    \cup [kind : {"SACK", "PIPE_NACK"}, highest : Seqs, mask : Masks]

(* EngineResult: the frames, transfer_started and terminal_error. *)
Reply(frames, started, failed) ==
    [frames |-> frames, started |-> started, failed |-> failed]
Answer(frames)  == Reply(frames, FALSE, FALSE)
Failure(frames) == Reply(frames, FALSE, TRUE)
Silence == Answer(<<>>)

Says(frame) == \E i \in 1 .. Len(reply.frames) : reply.frames[i] = frame

(* build_inorder_ack_mask: bit i stands for chunk highest_seen - 1 - i. *)
InorderAckMask(packets) == {i \in 0 .. AckMaskBits - 1 : i + 1 < packets}

(* accepted_packets is used for the mask only, which stops changing there. *)
CountPacket(packets) == Lesser(packets + 1, AckMaskBits + 1)

------------------------------------------------------------------------------
(* Transaction{}: the value reset() assigns. Of transfer_deadline_ms and      *)
(* refresh_deadline_ms, `deadline' is the one tick() tests in this state.     *)
NoTxn ==
    [mode |-> "NONE", state |-> "IDLE", generation |-> 0,
     expected_frame_bytes |-> 0, accepted_bytes |-> 0, next_direct_offset |-> 0,
     next_pipe_sequence |-> 0, highest_seen |-> 0, accepted_packets |-> 0,
     accepted_since_ack |-> 0, pipe_fatal |-> FALSE,
     negotiated_window |-> 0, negotiated_ack_every |-> 0, deadline |-> "unset"]

Transactions ==
    [mode : {"NONE", "DIRECT", "PIPE"}, state : {"IDLE", "RECEIVING", "REFRESHING"},
     generation : 0 .. MaxGeneration,
     expected_frame_bytes : Nat, accepted_bytes : Nat, next_direct_offset : Nat,
     next_pipe_sequence : Seqs, highest_seen : Seqs,
     accepted_packets : 0 .. AckMaskBits + 1, accepted_since_ack : 0 .. MaxAckEvery,
     pipe_fatal : BOOLEAN, negotiated_window : 0 .. MaxWindow,
     negotiated_ack_every : 0 .. MaxAckEvery, deadline : Deadlines]

Init ==
    /\ BackendInit
    /\ txn = NoTxn
    /\ hw_owned = FALSE
    /\ connection_generation = 0
    /\ reply = Silence

Receiving(mode) == txn.state = "RECEIVING" /\ txn.mode = mode

(* abort(): the backend hears of it only when a transaction is open, and      *)
(* hw_owned stays as it is.                                                   *)
Abort ==
    /\ txn' = NoTxn
    /\ IF txn.state = "IDLE" THEN UNCHANGED <<driver, refresh_mark, shown>>
                             ELSE AbortTransfer

(* A command the engine answers without touching anything. *)
Refuse(r) ==
    /\ reply' = r
    /\ UNCHANGED <<txn, hw_owned, connection_generation>>
    /\ UNCHANGED backendVars

(* A command that ends the transaction with a NACK. *)
AbortWith(frame) ==
    /\ Abort
    /\ reply' = Failure(<<frame>>)
    /\ UNCHANGED <<hw_owned, connection_generation, loaded>>

------------------------------------------------------------------------------
(* START *)

(* begin_transaction_ returns false. The panel is checked first, then an      *)
(* open transaction is aborted, and only then the size is looked at.          *)
BeginRefused(total) ==
    /\ \/ /\ hw_owned
          /\ UNCHANGED <<txn, refresh_mark, driver, shown>>
       \/ /\ ~hw_owned
          /\ total # FullFrameBytes
          /\ IF txn.state = "IDLE" THEN UNCHANGED <<txn, refresh_mark, driver, shown>>
                                   ELSE Abort
       \/ /\ ~hw_owned
          /\ total = FullFrameBytes
          /\ MayReportError("begin_frame")
          /\ Abort
    /\ UNCHANGED <<hw_owned, connection_generation, loaded>>

(* Mutant: the transaction is not reset, only its parameters are set. *)
BeginWithoutReset(mode, total, window, ack_every) ==
    /\ ~hw_owned
    /\ total = FullFrameBytes
    /\ BeginFrame
    /\ \E d \in ArmedDeadlines :
          txn' = [txn EXCEPT !.mode = mode, !.state = "RECEIVING",
                             !.generation = connection_generation,
                             !.expected_frame_bytes = total,
                             !.negotiated_window = window,
                             !.negotiated_ack_every = ack_every, !.deadline = d]
    /\ UNCHANGED <<hw_owned, connection_generation>>

(* Mutant: a START does not ask whether the panel is still owned. *)
BeginOverRefresh(mode, total, window, ack_every) ==
    /\ total = FullFrameBytes
    /\ BeginFrame
    /\ \E d \in ArmedDeadlines :
          txn' = [NoTxn EXCEPT !.mode = mode, !.state = "RECEIVING",
                               !.generation = connection_generation,
                               !.expected_frame_bytes = total,
                               !.negotiated_window = window,
                               !.negotiated_ack_every = ack_every, !.deadline = d]
    /\ UNCHANGED <<hw_owned, connection_generation>>

(* begin_transaction_ returns true; window and cadence are on_pipe_start's. *)
BeginAccepted(mode, total, window, ack_every) ==
    /\ ~hw_owned
    /\ total = FullFrameBytes
    /\ BeginFrame
    /\ \E d \in ArmedDeadlines :
          txn' = [NoTxn EXCEPT !.mode = mode,
                               !.state = "RECEIVING",
                               !.generation = connection_generation,
                               !.expected_frame_bytes = total,
                               !.negotiated_window = window,
                               !.negotiated_ack_every = ack_every,
                               !.deadline = d]
    /\ UNCHANGED <<hw_owned, connection_generation>>

OnDirectStart(len) ==
    \/ /\ len # 0
       /\ Refuse(Failure(<<Nack("DIRECT_START")>>))
    \/ /\ len = 0
       /\ BeginRefused(FullFrameBytes)
       /\ reply' = Failure(<<Nack("DIRECT_START")>>)
    \/ /\ len = 0
       /\ BeginAccepted("DIRECT", FullFrameBytes, 0, 0)
       /\ reply' = Reply(<<Ack("DIRECT_START")>>, TRUE, FALSE)

OnPipeStart(req) ==
    \/ /\ ~req.well_formed \/ req.compressed
       /\ Refuse(Failure(<<Nack("PIPE_START")>>))
    \/ /\ req.well_formed /\ ~req.compressed
       /\ BeginRefused(req.total_size)
       /\ reply' = Failure(<<Nack("PIPE_START")>>)
    \/ /\ req.well_formed /\ ~req.compressed
       /\ LET window == Lesser(req.req_window, MaxWindow)
              ack_every == Lesser(req.req_ack_every, MaxAckEvery)
          IN  /\ BeginAccepted("PIPE", req.total_size, window, ack_every)
              /\ reply' = Reply(<<StartAck(window, ack_every)>>, TRUE, FALSE)

------------------------------------------------------------------------------
(* Mutant: any frame that is not empty may be refreshed. *)
NonEmptyFrame(t) == t.accepted_bytes # 0

(* The length check of finish_and_refresh_. *)
WholeFrame(t) == t.accepted_bytes = t.expected_frame_bytes

(* finish_and_refresh_ on transaction t, whose last bytes may have arrived    *)
(* in the same call; `tail' is the staged tail SACK, if any.                  *)
FinishAndRefresh(t, tail, op) ==
    /\ \/ /\ \/ ~WholeFrame(t)
             \/ MayReportError("finish_frame")
             \/ RefreshRefused
          /\ Abort
          /\ reply' = Failure(Append(tail, Nack(op)))
          /\ UNCHANGED hw_owned
       \/ /\ WholeFrame(t)
          /\ BeginRefresh
          /\ hw_owned' = TRUE
          /\ \E d \in ArmedDeadlines :
                txn' = [t EXCEPT !.state = "REFRESHING", !.deadline = d]
          /\ reply' = Answer(Append(tail, Ack(op)))
    /\ UNCHANGED connection_generation

(* DIRECT *)

TooLong(len) == len > txn.expected_frame_bytes - txn.accepted_bytes

OnDirectData(len) ==
    \/ /\ ~Receiving("DIRECT")
       /\ Refuse(Answer(<<Nack("DIRECT_DATA")>>))
    \/ /\ Receiving("DIRECT")
       /\ \/ len = 0
          \/ TooLong(len)
          \/ ~InFrame(txn.next_direct_offset, len)
          \/ MayReportError("write_contiguous")
       /\ AbortWith(Nack("DIRECT_DATA"))
    \/ /\ Receiving("DIRECT")
       /\ len # 0
       /\ ~TooLong(len)
       /\ InFrame(txn.next_direct_offset, len)
       /\ loaded' = Written(txn.next_direct_offset, len)
       /\ \E d \in ArmedDeadlines :
             txn' = [txn EXCEPT !.next_direct_offset = @ + len,
                                !.accepted_bytes = @ + len,
                                !.deadline = d]
       /\ reply' = Answer(<<Ack("DIRECT_DATA")>>)
       /\ UNCHANGED <<hw_owned, connection_generation, driver, refresh_mark, shown>>

OnDirectEnd ==
    \/ /\ ~Receiving("DIRECT")
       /\ Refuse(Answer(<<Nack("DIRECT_END")>>))
    \/ /\ Receiving("DIRECT")
       /\ FinishAndRefresh(txn, <<>>, "DIRECT_END")
       /\ UNCHANGED loaded

------------------------------------------------------------------------------
(* PIPE *)

(* Mutant: a SACK names the chunk that is expected next. *)
SackOfNext(t) == Sack(t.next_pipe_sequence, InorderAckMask(t.accepted_packets))

SackOf(t) == Sack(t.highest_seen, InorderAckMask(t.accepted_packets))

(* A 0x81 payload: a sequence number and the length of the data behind it, or *)
(* nothing at all.                                                            *)
PipePayloads == {<<>>} \cup (Seqs \X DataLengths)

(* Mutant: the sequence number is kept in a wider integer. *)
WithWideChunk(seq, len, deadline) ==
    [txn EXCEPT !.accepted_bytes = @ + len, !.highest_seen = seq,
                !.next_pipe_sequence = seq + 1,
                !.accepted_packets = CountPacket(@),
                !.accepted_since_ack = @ + 1, !.deadline = deadline]

(* Mutant: the sequence byte is counted with the data behind it. *)
WithWholePayload(seq, len, deadline) ==
    [txn EXCEPT !.accepted_bytes = @ + len + 1, !.highest_seen = seq,
                !.next_pipe_sequence = (seq + 1) % SeqMod,
                !.accepted_packets = CountPacket(@),
                !.accepted_since_ack = @ + 1, !.deadline = deadline]

(* Mutant: an accepted chunk is not counted for the mask. *)
WithUncountedChunk(seq, len, deadline) ==
    [txn EXCEPT !.accepted_bytes = @ + len, !.highest_seen = seq,
                !.next_pipe_sequence = (seq + 1) % SeqMod,
                !.accepted_since_ack = @ + 1, !.deadline = deadline]

(* The transaction after the bytes of chunk seq were written. *)
WithChunk(seq, len, deadline) ==
    [txn EXCEPT !.accepted_bytes = @ + len,
                !.highest_seen = seq,
                !.next_pipe_sequence = (seq + 1) % SeqMod,
                !.accepted_packets = CountPacket(@),
                !.accepted_since_ack = @ + 1,
                !.deadline = deadline]

(* Mutant: one chunk too late. *)
SackOverdue(t) == t.accepted_since_ack > t.negotiated_ack_every

SackDue(t) == t.accepted_since_ack >= t.negotiated_ack_every

(* Mutant: AUTO-COMPLETE does not acknowledge the chunks that completed it. *)
AfterChunkUntold(t) ==
    \/ /\ t.accepted_bytes >= t.expected_frame_bytes
       /\ FinishAndRefresh([t EXCEPT !.accepted_since_ack = 0], <<>>, "PIPE_END")
    \/ /\ t.accepted_bytes < t.expected_frame_bytes
       /\ IF SackDue(t)
          THEN /\ txn' = [t EXCEPT !.accepted_since_ack = 0]
               /\ reply' = Answer(<<SackOf(t)>>)
          ELSE /\ txn' = t
               /\ reply' = Silence
       /\ UNCHANGED <<hw_owned, connection_generation, driver, refresh_mark, shown>>

(* What follows an accepted chunk: AUTO-COMPLETE, a SACK that is due, nothing. *)
AfterChunk(t) ==
    \/ /\ t.accepted_bytes >= t.expected_frame_bytes
       /\ FinishAndRefresh([t EXCEPT !.accepted_since_ack = 0], <<SackOf(t)>>, "PIPE_END")
    \/ /\ t.accepted_bytes < t.expected_frame_bytes
       /\ IF SackDue(t)
          THEN /\ txn' = [t EXCEPT !.accepted_since_ack = 0]
               /\ reply' = Answer(<<SackOf(t)>>)
          ELSE /\ txn' = t
               /\ reply' = Silence
       /\ UNCHANGED <<hw_owned, connection_generation, driver, refresh_mark, shown>>

(* Mutant: data outside a transfer is ignored. *)
StrayPipeDataIgnored ==
    /\ ~Receiving("PIPE")
    /\ Refuse(Silence)

(* 0x81 outside a PIPE transfer: a fatal NACK, and silence from then on. *)
StrayPipeData ==
    /\ ~Receiving("PIPE")
    /\ txn' = [txn EXCEPT !.pipe_fatal = TRUE]
    /\ reply' = Answer(<<PipeNack(txn.highest_seen, InorderAckMask(txn.accepted_packets))>>)
    /\ UNCHANGED <<hw_owned, connection_generation>>
    /\ UNCHANGED backendVars

(* abort() runs before the NACK is encoded, so it reports a reset position. *)
BadPipeData(payload) ==
    /\ Receiving("PIPE")
    /\ \/ payload = <<>>
       \/ /\ payload # <<>>
          /\ payload[1] = txn.next_pipe_sequence
          /\ \/ TooLong(payload[2])
             \/ ~InFrame(txn.accepted_bytes, payload[2])
             \/ MayReportError("write_contiguous")
    /\ AbortWith(PipeNack(NoTxn.highest_seen, {}))

(* Mutant: a chunk that is not the expected one is dropped without a word. *)
OutOfOrderPipeDataDropped(payload) ==
    /\ Receiving("PIPE")
    /\ payload # <<>>
    /\ payload[1] # txn.next_pipe_sequence
    /\ Refuse(Silence)

(* Strictly in order: any other chunk is answered with the known position. *)
OutOfOrderPipeData(payload) ==
    /\ Receiving("PIPE")
    /\ payload # <<>>
    /\ payload[1] # txn.next_pipe_sequence
    /\ Refuse(Answer(<<SackOf(txn)>>))

(* Mutant: the sequence number is not looked at. *)
AnyPipeData(payload) ==
    /\ Receiving("PIPE")
    /\ payload # <<>>
    /\ ~TooLong(payload[2])
    /\ InFrame(txn.accepted_bytes, payload[2])
    /\ loaded' = Written(txn.accepted_bytes, payload[2])
    /\ \E d \in ArmedDeadlines : AfterChunk(WithChunk(payload[1], payload[2], d))

InOrderPipeData(payload) ==
    /\ Receiving("PIPE")
    /\ payload # <<>>
    /\ payload[1] = txn.next_pipe_sequence
    /\ ~TooLong(payload[2])
    /\ InFrame(txn.accepted_bytes, payload[2])
    /\ loaded' = Written(txn.accepted_bytes, payload[2])
    /\ \E d \in ArmedDeadlines : AfterChunk(WithChunk(payload[1], payload[2], d))

OnPipeData(payload) ==
    \/ txn.pipe_fatal /\ Refuse(Silence)
    \/ ~txn.pipe_fatal /\ StrayPipeData
    \/ ~txn.pipe_fatal /\ BadPipeData(payload)
    \/ ~txn.pipe_fatal /\ OutOfOrderPipeData(payload)
    \/ ~txn.pipe_fatal /\ InOrderPipeData(payload)

OnPipeEnd ==
    \/ /\ ~Receiving("PIPE")
       /\ Refuse(Answer(<<Nack("PIPE_END")>>))
    \/ /\ Receiving("PIPE")
       /\ FinishAndRefresh([txn EXCEPT !.accepted_since_ack = 0],
                           IF txn.accepted_since_ack # 0 THEN <<SackOf(txn)>> ELSE <<>>,
                           "PIPE_END")
       /\ UNCHANGED loaded

------------------------------------------------------------------------------
(* tick() *)

PollEnds == hw_owned /\ PollRefresh # "PENDING"

(* The driver is done: the panel is released, and the transaction that still  *)
(* waits for it ends. A failed driver is reported to YAML, not on the wire.   *)
TickReleases ==
    /\ PollEnds
    /\ refresh_mark' = MarkAfterPoll
    /\ hw_owned' = FALSE
    /\ IF txn.state = "REFRESHING"
       THEN /\ txn' = NoTxn
            /\ reply' = IF PollRefresh = "COMPLETE" THEN Answer(<<RefreshSuccess>>)
                                                    ELSE Failure(<<>>)
       ELSE /\ reply' = Silence
            /\ UNCHANGED txn
    /\ UNCHANGED <<connection_generation, driver, loaded, shown>>

(* Mutants: only one of the two deadlines is tested. *)
TransferExpires ==
    /\ ~PollEnds
    /\ txn.state = "RECEIVING"
    /\ txn.deadline = "passed"
    /\ Abort
    /\ reply' = Failure(<<>>)
    /\ UNCHANGED <<hw_owned, connection_generation, loaded>>

RefreshExpires ==
    /\ ~PollEnds
    /\ txn.state = "REFRESHING"
    /\ txn.deadline = "passed"
    /\ Abort
    /\ reply' = Answer(<<RefreshTimeout>>)
    /\ UNCHANGED <<hw_owned, connection_generation, loaded>>

(* The transfer times out silently, the refresh with 0x74; the panel stays    *)
(* owned.                                                                     *)
TickExpires ==
    /\ ~PollEnds
    /\ txn.state # "IDLE"
    /\ txn.deadline = "passed"
    /\ Abort
    /\ reply' = IF txn.state = "REFRESHING" THEN Answer(<<RefreshTimeout>>)
                                            ELSE Failure(<<>>)
    /\ UNCHANGED <<hw_owned, connection_generation, loaded>>

TickIdles ==
    /\ ~PollEnds
    /\ txn.state = "IDLE" \/ txn.deadline # "passed"
    /\ Refuse(Silence)

Tick == TickReleases \/ TickExpires \/ TickIdles

------------------------------------------------------------------------------
(* The calls that come from elsewhere. *)

(* Mutant: written before there was a PIPE transfer. *)
DisconnectEndsDirect(generation) ==
    /\ Receiving("DIRECT")
    /\ txn.generation = generation

(* A disconnect leaves a refresh alone, and another connection's transfer.    *)
DisconnectEnds(generation) ==
    /\ txn.state \notin {"IDLE", "REFRESHING"}
    /\ txn.generation = generation

OnDisconnect(generation) ==
    /\ DisconnectEnds(generation)
    /\ Abort
    /\ reply' = Silence
    /\ UNCHANGED <<hw_owned, connection_generation, loaded>>

(* set_connection_generation, called with the next number on every connect. *)
SetConnectionGeneration ==
    /\ connection_generation < MaxGeneration
    /\ connection_generation' = connection_generation + 1
    /\ UNCHANGED <<txn, hw_owned, reply>>
    /\ UNCHANGED backendVars

(* The opendisplay.abort YAML action. *)
LocalAbort ==
    /\ Abort
    /\ reply' = Silence
    /\ UNCHANGED <<hw_owned, connection_generation, loaded>>

(* millis() reaches the armed deadline. *)
DeadlinePasses ==
    /\ txn.deadline = "pending"
    /\ txn' = [txn EXCEPT !.deadline = "passed"]
    /\ UNCHANGED <<hw_owned, connection_generation, reply>>
    /\ UNCHANGED backendVars

------------------------------------------------------------------------------
ClientStep ==
    \/ \E len \in DataLengths : OnDirectStart(len)
    \/ \E len \in DataLengths : OnDirectData(len)
    \/ OnDirectEnd
    \/ \E req \in PipeRequests : OnPipeStart(req)
    \/ \E payload \in PipePayloads : OnPipeData(payload)
    \/ OnPipeEnd

EnvironmentStep ==
    /\ DriverFinishes \/ DriverFails \/ LocalUpdate \/ SettlePasses
    /\ UNCHANGED engineVars

Next ==
    \/ ClientStep
    \/ Tick
    \/ \E generation \in 0 .. MaxGeneration : OnDisconnect(generation)
    \/ SetConnectionGeneration
    \/ LocalAbort
    \/ DeadlinePasses
    \/ EnvironmentStep

Spec == Init /\ [][Next]_vars

(* loop() calls tick() for ever, and the clock moves on. *)
Fairness ==
    /\ WF_vars(Tick)
    /\ WF_vars(DeadlinePasses)
    /\ WF_vars(DriverFinishes /\ UNCHANGED engineVars)
    /\ WF_vars(SettlePasses /\ UNCHANGED engineVars)

FairSpec == Spec /\ Fairness

------------------------------------------------------------------------------
(* Properties *)

TypeOK ==
    /\ BackendTypeOK
    /\ txn \in Transactions
    /\ hw_owned \in BOOLEAN
    /\ connection_generation \in 0 .. MaxGeneration
    /\ reply \in [frames : Seq(Frames), started : BOOLEAN, failed : BOOLEAN]

(* While a transaction is open, the framebuffer holds exactly its first         *)
(* accepted_bytes bytes, without a gap and never past the frame, whichever      *)
(* path wrote them (on_direct_data, on_pipe_data).                              *)
FrameAccounting ==
    txn.state # "IDLE" =>
        /\ txn.expected_frame_bytes = FullFrameBytes
        /\ txn.accepted_bytes <= FullFrameBytes
        /\ loaded = 0 .. txn.accepted_bytes - 1
        /\ txn.mode = "DIRECT" => txn.next_direct_offset = txn.accepted_bytes

(* While the driver carries out our refresh the engine owns the panel and the   *)
(* framebuffer is one whole frame, across refresh timeouts, disconnects and     *)
(* local aborts (the point of keeping hw_owned_ apart from the state).          *)
PanelHeld ==
    ObservesCompletion /\ driver = "ours" => hw_owned /\ loaded = FrameOffsets

(* A client that reads 0x73 sees its frame: the driver finished the very        *)
(* refresh that begin_refresh() started, and not somebody else's.               *)
SuccessMeansShown ==
    ObservesCompletion /\ Says(RefreshSuccess) => shown

(* Between two calls fewer chunks than the negotiated cadence are waiting for   *)
(* their SACK, so a client that counts to ack_every always gets one.            *)
AckCadence ==
    Receiving("PIPE") => txn.accepted_since_ack < txn.negotiated_ack_every

(* A transaction in REFRESHING owns the panel, and one in RECEIVING never does. *)
OwnershipMatchesState ==
    /\ txn.state = "REFRESHING" => hw_owned
    /\ txn.state = "RECEIVING" => ~hw_owned

(* What the engine promises the client and the panel (module PanelUpdate). *)
Phase ==
    IF txn.state = "RECEIVING" THEN "loading"
    ELSE IF txn.state = "REFRESHING" THEN "showing"
    ELSE IF hw_owned THEN "held" ELSE "free"

Panel == IF driver = "ours" THEN "reading" ELSE IF shown THEN "shown" ELSE "still"

Said ==
    IF Says(Ack("DIRECT_END")) \/ Says(Ack("PIPE_END")) THEN "accepted"
    ELSE IF Says(RefreshSuccess) THEN "complete"
    ELSE IF Says(RefreshTimeout) THEN "timeout" ELSE "nothing"

Promise == INSTANCE PanelUpdate WITH
    FrameBytes <- FullFrameBytes, Observed <- ObservesCompletion,
    phase <- Phase, panel <- Panel, said <- Said

(* The engine and its backend implement the abstract panel update.              *)
ImplementsPromise == Promise!Spec

(* Every refresh leaves REFRESHING: by completion, by driver failure, or by     *)
(* the refresh timeout, whatever the clients do meanwhile (tick()).             *)
RefreshEnds == txn.state = "REFRESHING" ~> txn.state # "REFRESHING"

(* A client that falls silent, without even a disconnect being reported,        *)
(* does not hold the engine: it returns to IDLE for good (transfer timeout).    *)
SilentClientReleased ==
    []<><<ClientStep>>_vars \/ <>[](txn.state = "IDLE")

(* opendisplay_protocol.h:628-629: a SACK says that chunk highest_seen and the   *)
(* chunks of its mask were received. Reception is strictly in order, so one that *)
(* answers an open PIPE transfer must follow an accepted chunk (on_pipe_data).   *)
SackMeansReceived ==
    Receiving("PIPE") /\ (\E i \in 1 .. Len(reply.frames) : reply.frames[i].kind = "SACK")
        => txn.accepted_packets > 0

(* transfer_engine.h:136-138: the panel is ours until the driver is genuinely   *)
(* idle, and TODO.md:436-437: quarantined until is_idle(). So once the driver   *)
(* stays idle the engine does not keep the panel (tick() after abort()).        *)
HardwareReleased == <>[](driver = "idle") => []<>(~hw_owned)

==============================================================================
