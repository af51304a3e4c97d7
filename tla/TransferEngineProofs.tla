------------------------ MODULE TransferEngineProofs ------------------------
(***************************************************************************)
(* Theorems about TransferEngine, for every frame size, sequence range,    *)
(* cadence and backend behaviour the assumptions allow.                    *)
(***************************************************************************)
EXTENDS TransferEngine, SequenceTheorems, TLAPS

(* What PanelHeld and SuccessMeansShown need of the panel to be preserved:      *)
(* an owned panel has a whole frame in its buffer, and on a backend that sees   *)
(* completion our refresh runs only while owned and is either still running,    *)
(* or lost with the driver, or on the panel.                                    *)
PanelInvariant ==
    /\ hw_owned => loaded = FrameOffsets
    /\ ObservesCompletion =>
          /\ driver = "ours" => hw_owned
          /\ hw_owned /\ driver \in {"idle", "other"} => shown

(* The inductive invariant. *)
IInv ==
    /\ TypeOK
    /\ FrameAccounting
    /\ AckCadence
    /\ OwnershipMatchesState
    /\ PanelInvariant
    /\ SuccessMeansShown

USE BackendAssumption, EngineAssumption

------------------------------------------------------------------------------
(* The frames the engine sends are frames. *)

LEMMA FrameTypes ==
    /\ \A op \in Opcodes : Ack(op) \in Frames /\ Nack(op) \in Frames
    /\ \A w \in 1 .. MaxWindow, a \in 1 .. MaxAckEvery : StartAck(w, a) \in Frames
    /\ \A h \in Seqs, p \in Nat :
          /\ Sack(h, InorderAckMask(p)) \in Frames
          /\ PipeNack(h, InorderAckMask(p)) \in Frames
    /\ \A h \in Seqs : PipeNack(h, {}) \in Frames
  <1>1. \A op \in Opcodes : Ack(op) \in Frames /\ Nack(op) \in Frames
    BY DEF Ack, Nack, Frames
  <1>2. \A w \in 1 .. MaxWindow, a \in 1 .. MaxAckEvery : StartAck(w, a) \in Frames
    BY DEF StartAck, Frames
  <1>3. \A h \in Seqs, m \in Masks : Sack(h, m) \in Frames /\ PipeNack(h, m) \in Frames
    BY DEF Sack, PipeNack, Frames
  <1>4. \A p \in Nat : InorderAckMask(p) \in Masks
    BY DEF InorderAckMask, Masks
  <1>5. {} \in Masks
    BY DEF Masks
  <1>6. QED
    BY <1>1, <1>2, <1>3, <1>4, <1>5

Replies == [frames : Seq(Frames), started : BOOLEAN, failed : BOOLEAN]

LEMMA ReplyTypes ==
    /\ Silence \in Replies
    /\ Failure(<<>>) \in Replies
    /\ \A f \in Frames :
          Answer(<<f>>) \in Replies /\ Failure(<<f>>) \in Replies
          /\ Reply(<<f>>, TRUE, FALSE) \in Replies
    /\ \A f, g \in Frames : Answer(<<f, g>>) \in Replies /\ Failure(<<f, g>>) \in Replies
  <1>1. <<>> \in Seq(Frames)
    OBVIOUS
  <1>2. \A f \in Frames : <<f>> \in Seq(Frames)
    OBVIOUS
  <1>3. \A f, g \in Frames : <<f, g>> \in Seq(Frames)
    OBVIOUS
  <1>4. QED
    BY <1>1, <1>2, <1>3 DEF Replies, Silence, Failure, Answer, Reply

(* The initial state satisfies the invariant. *)
LEMMA InitIInv == Init => IInv
  <1> SUFFICES ASSUME Init PROVE IInv
    OBVIOUS
  <1>1. reply \in Replies
    BY ReplyTypes DEF Init
  <1>2. txn \in Transactions
    BY DEF Init, NoTxn, Transactions, Seqs, Deadlines
  <1>3. TypeOK
    <2>1. BackendTypeOK
      BY DEF Init, BackendInit, BackendTypeOK, DriverStates, Deadlines
    <2>2. hw_owned \in BOOLEAN
      BY Zenon DEF Init
    <2>3. connection_generation \in 0 .. MaxGeneration
      BY DEF Init
    <2>4. QED
      BY <1>1, <1>2, <2>1, <2>2, <2>3 DEF TypeOK, Replies
  <1>4. ~Says(RefreshSuccess)
    BY DEF Init, Says, Silence, Answer, Reply
  <1>5. QED
    BY <1>3, <1>4 DEF Init, BackendInit, NoTxn, IInv, FrameAccounting, AckCadence,
       OwnershipMatchesState, PanelInvariant, SuccessMeansShown, Receiving

------------------------------------------------------------------------------
(* Replies that do not report success. *)

Spoken(r, frame) == \E i \in 1 .. Len(r.frames) : r.frames[i] = frame

Modest(r) == r \in Replies /\ ~Spoken(r, RefreshSuccess)

LEMMA NotSuccess ==
    /\ \A op \in Opcodes : Nack(op) # RefreshSuccess
    /\ \A op \in Opcodes \ {"REFRESH_SUCCESS"} : Ack(op) # RefreshSuccess
    /\ \A h, m : Sack(h, m) # RefreshSuccess /\ PipeNack(h, m) # RefreshSuccess
    /\ \A w, a : StartAck(w, a) # RefreshSuccess
  <1>1. RefreshSuccess.kind = "ACK" /\ RefreshSuccess.op = "REFRESH_SUCCESS"
    BY DEF RefreshSuccess, Ack
  <1>2. \A op \in Opcodes : Nack(op).kind = "NACK"
    BY DEF Nack
  <1>3. \A op \in Opcodes : Ack(op).op = op
    BY DEF Ack
  <1>4. \A h, m : Sack(h, m).kind = "SACK" /\ PipeNack(h, m).kind = "PIPE_NACK"
    BY DEF Sack, PipeNack
  <1>5. \A w, a : StartAck(w, a).kind = "START_ACK"
    BY DEF StartAck
  <1>6. QED
    BY <1>1, <1>2, <1>3, <1>4, <1>5

LEMMA ModestReplies ==
    /\ Modest(Silence)
    /\ Modest(Failure(<<>>))
    /\ \A f \in Frames : f # RefreshSuccess =>
          Modest(Answer(<<f>>)) /\ Modest(Failure(<<f>>)) /\ Modest(Reply(<<f>>, TRUE, FALSE))
    /\ \A f, g \in Frames : f # RefreshSuccess /\ g # RefreshSuccess =>
          Modest(Answer(<<f, g>>)) /\ Modest(Failure(<<f, g>>))
  <1>1. \A b, c \in BOOLEAN : ~Spoken(Reply(<<>>, b, c), RefreshSuccess)
    BY DEF Spoken, Reply
  <1>2. \A f, b, c : f # RefreshSuccess => ~Spoken(Reply(<<f>>, b, c), RefreshSuccess)
    BY DEF Spoken, Reply
  <1>3. \A f, g, b, c : f # RefreshSuccess /\ g # RefreshSuccess
                           => ~Spoken(Reply(<<f, g>>, b, c), RefreshSuccess)
    BY DEF Spoken, Reply
  <1>4. QED
    BY <1>1, <1>2, <1>3, ReplyTypes DEF Modest, Silence, Failure, Answer

(* A call that changes nothing but the reply. *)
LEMMA SameStep ==
    ASSUME IInv, UNCHANGED <<txn, hw_owned, connection_generation>>,
           UNCHANGED backendVars, Modest(reply')
    PROVE  IInv'
  <1>1. TypeOK'
    BY DEF IInv, TypeOK, BackendTypeOK, backendVars, Modest, Replies
  <1>2. SuccessMeansShown'
    BY DEF SuccessMeansShown, Says, Modest, Spoken
  <1>3. QED
    BY <1>1, <1>2 DEF IInv, FrameAccounting, AckCadence, Receiving, OwnershipMatchesState,
       PanelInvariant, backendVars

(* A call that ends in reset(), with the panel left as it is. *)
LEMMA ResetStep ==
    ASSUME IInv, txn' = NoTxn, UNCHANGED <<hw_owned, connection_generation, driver, shown>>,
           refresh_mark' \in Deadlines, loaded' \subseteq FrameOffsets,
           hw_owned => loaded' = loaded, Modest(reply')
    PROVE  IInv'
  <1>1. NoTxn \in Transactions
    BY DEF NoTxn, Transactions, Seqs, Deadlines
  <1>2. TypeOK'
    BY <1>1 DEF IInv, TypeOK, BackendTypeOK, Modest, Replies
  <1>3. SuccessMeansShown'
    BY DEF SuccessMeansShown, Says, Modest, Spoken
  <1>4. PanelInvariant'
    BY DEF IInv, PanelInvariant
  <1>5. QED
    BY <1>2, <1>3, <1>4 DEF IInv, FrameAccounting, AckCadence, Receiving,
       OwnershipMatchesState, NoTxn

(* Every path through abort(). *)
LEMMA AbortStep ==
    ASSUME IInv, Abort, UNCHANGED <<hw_owned, connection_generation>>,
           loaded' \subseteq FrameOffsets, hw_owned => loaded' = loaded, Modest(reply')
    PROVE  IInv'
  <1>1. UNCHANGED <<driver, shown>> /\ refresh_mark' \in Deadlines
    BY DEF Abort, AbortTransfer, IInv, TypeOK, BackendTypeOK, Deadlines
  <1>2. QED
    BY <1>1, ResetStep DEF Abort

LEMMA LoadedInFrame == IInv => loaded \subseteq FrameOffsets
  BY DEF IInv, TypeOK, BackendTypeOK

LEMMA RefuseStep == ASSUME IInv, NEW r, Modest(r), Refuse(r) PROVE IInv'
  BY SameStep DEF Refuse

LEMMA AbortWithStep ==
    ASSUME IInv, NEW f \in Frames, f # RefreshSuccess, AbortWith(f) PROVE IInv'
  <1>1. Modest(reply')
    BY ModestReplies DEF AbortWith
  <1>2. QED
    BY <1>1, AbortStep, LoadedInFrame DEF AbortWith

------------------------------------------------------------------------------
(* START *)

LEMMA BeginRefusedStep ==
    ASSUME IInv, NEW total, BeginRefused(total), Modest(reply') PROVE IInv'
  <1>1. CASE UNCHANGED <<txn, refresh_mark, driver, shown>>
    BY <1>1, SameStep DEF BeginRefused, backendVars
  <1>2. CASE Abort
    BY <1>2, AbortStep, LoadedInFrame DEF BeginRefused
  <1>3. QED
    BY <1>1, <1>2 DEF BeginRefused

LEMMA BeginAcceptedStep ==
    ASSUME IInv, NEW mode \in {"DIRECT", "PIPE"}, NEW total,
           NEW window \in 0 .. MaxWindow, NEW ack_every \in 0 .. MaxAckEvery,
           mode = "PIPE" => ack_every > 0,
           BeginAccepted(mode, total, window, ack_every), Modest(reply')
    PROVE  IInv'
  <1> DEFINE begun(d) ==
        [NoTxn EXCEPT !.mode = mode, !.state = "RECEIVING",
                      !.generation = connection_generation,
                      !.expected_frame_bytes = total,
                      !.negotiated_window = window,
                      !.negotiated_ack_every = ack_every,
                      !.deadline = d]
  <1>1. PICK d \in ArmedDeadlines : txn' = begun(d)
    BY DEF BeginAccepted
  <1>2. total = FullFrameBytes /\ ~hw_owned /\ hw_owned' = hw_owned
        /\ loaded' = {} /\ refresh_mark' = "unset"
        /\ UNCHANGED <<driver, shown, connection_generation>>
    BY DEF BeginAccepted, BeginFrame
  <1>3. d \in Deadlines
    BY DEF ArmedDeadlines, Deadlines
  <1>4. begun(d) \in Transactions
    <2>1. NoTxn \in Transactions
      BY DEF NoTxn, Transactions, Seqs, Deadlines
    <2>2. connection_generation \in 0 .. MaxGeneration /\ total \in Nat
      BY <1>2 DEF IInv, TypeOK
    <2>3. QED
      BY <1>3, <2>1, <2>2 DEF Transactions
  <1>5. TypeOK'
    BY <1>1, <1>2, <1>4 DEF IInv, TypeOK, BackendTypeOK, Modest, Replies, Deadlines
  <1>6. /\ txn'.state = "RECEIVING" /\ txn'.expected_frame_bytes = FullFrameBytes
        /\ txn'.accepted_bytes = 0 /\ txn'.next_direct_offset = 0
        /\ txn'.accepted_since_ack = 0 /\ txn'.negotiated_ack_every = ack_every
        /\ txn'.mode = mode
    BY <1>1, <1>2 DEF NoTxn
  <1>7. FrameAccounting'
    BY <1>2, <1>6 DEF FrameAccounting
  <1>8. AckCadence'
    BY <1>6 DEF AckCadence, Receiving
  <1>9. OwnershipMatchesState' /\ PanelInvariant'
    BY <1>2, <1>6 DEF IInv, OwnershipMatchesState, PanelInvariant
  <1>10. SuccessMeansShown'
    BY DEF SuccessMeansShown, Says, Modest, Spoken
  <1>11. QED
    BY <1>5, <1>7, <1>8, <1>9, <1>10 DEF IInv

LEMMA OnDirectStartStep ==
    ASSUME IInv, NEW len \in DataLengths, OnDirectStart(len) PROVE IInv'
  <1>1. Modest(Failure(<<Nack("DIRECT_START")>>))
        /\ Modest(Reply(<<Ack("DIRECT_START")>>, TRUE, FALSE))
    BY ModestReplies, NotSuccess, FrameTypes DEF Opcodes
  <1>2. CASE Refuse(Failure(<<Nack("DIRECT_START")>>))
    BY <1>1, <1>2, RefuseStep
  <1>3. CASE /\ BeginRefused(FullFrameBytes)
             /\ reply' = Failure(<<Nack("DIRECT_START")>>)
    BY <1>1, <1>3, BeginRefusedStep
  <1>4. CASE /\ BeginAccepted("DIRECT", FullFrameBytes, 0, 0)
             /\ reply' = Reply(<<Ack("DIRECT_START")>>, TRUE, FALSE)
    <2>1. 0 \in 0 .. MaxWindow /\ 0 \in 0 .. MaxAckEvery
      OBVIOUS
    <2>2. Modest(reply')
      BY <1>1, <1>4
    <2>3. QED
      BY <1>4, <2>1, <2>2, BeginAcceptedStep
  <1>5. QED
    BY <1>2, <1>3, <1>4 DEF OnDirectStart

LEMMA OnPipeStartStep ==
    ASSUME IInv, NEW req \in PipeRequests, OnPipeStart(req) PROVE IInv'
  <1> DEFINE window == Lesser(req.req_window, MaxWindow)
             ack_every == Lesser(req.req_ack_every, MaxAckEvery)
  <1>1. req \in PipeRequestType
    OBVIOUS
  <1>2. window \in 1 .. MaxWindow /\ ack_every \in 1 .. MaxAckEvery
    BY <1>1 DEF Lesser, PipeRequestType
  <1>3. Modest(Failure(<<Nack("PIPE_START")>>))
        /\ Modest(Reply(<<StartAck(window, ack_every)>>, TRUE, FALSE))
    BY <1>2, ModestReplies, NotSuccess, FrameTypes DEF Opcodes
  <1>4. CASE Refuse(Failure(<<Nack("PIPE_START")>>))
    BY <1>3, <1>4, RefuseStep
  <1>5. CASE /\ BeginRefused(req.total_size)
             /\ reply' = Failure(<<Nack("PIPE_START")>>)
    BY <1>3, <1>5, BeginRefusedStep
  <1>6. CASE /\ BeginAccepted("PIPE", req.total_size, window, ack_every)
             /\ reply' = Reply(<<StartAck(window, ack_every)>>, TRUE, FALSE)
    <2>1. window \in 0 .. MaxWindow /\ ack_every \in 0 .. MaxAckEvery /\ ack_every > 0
      BY <1>2
    <2>2. Modest(reply')
      BY <1>3, <1>6
    <2> HIDE DEF window, ack_every
    <2>3. QED
      BY <1>6, <2>1, <2>2, BeginAcceptedStep
  <1>7. QED
    BY <1>4, <1>5, <1>6 DEF OnPipeStart

------------------------------------------------------------------------------
(* END and the automatic end of a PIPE transfer *)

LEMMA FinishAndRefreshStep ==
    ASSUME IInv, txn.state = "RECEIVING",
           NEW t \in Transactions, NEW tail, NEW op \in {"DIRECT_END", "PIPE_END"},
           t.expected_frame_bytes = FullFrameBytes, t.accepted_bytes <= FullFrameBytes,
           t.mode = "DIRECT" => t.next_direct_offset = t.accepted_bytes,
           loaded' = 0 .. t.accepted_bytes - 1,
           tail = <<>> \/ \E f \in Frames : f # RefreshSuccess /\ tail = <<f>>,
           FinishAndRefresh(t, tail, op)
    PROVE  IInv'
  <1>1. /\ Ack(op) \in Frames /\ Ack(op) # RefreshSuccess
        /\ Nack(op) \in Frames /\ Nack(op) # RefreshSuccess
    BY FrameTypes, NotSuccess DEF Opcodes
  <1>2. \A f \in Frames : f # RefreshSuccess =>
           Modest(Failure(Append(tail, f))) /\ Modest(Answer(Append(tail, f)))
    <2> SUFFICES ASSUME NEW f \in Frames, f # RefreshSuccess
                 PROVE  Modest(Failure(Append(tail, f))) /\ Modest(Answer(Append(tail, f)))
      OBVIOUS
    <2>1. /\ tail \in Seq(Frames)
          /\ \A i \in 1 .. Len(tail) : tail[i] # RefreshSuccess
      <3>1. CASE tail = <<>>
        BY <3>1
      <3>2. CASE \E g \in Frames : g # RefreshSuccess /\ tail = <<g>>
        <4>1. PICK g \in Frames : g # RefreshSuccess /\ tail = <<g>>
          BY <3>2
        <4>2. <<g>> \in Seq(Frames) /\ Len(<<g>>) = 1 /\ <<g>>[1] = g
          OBVIOUS
        <4>3. QED
          BY <4>1, <4>2
      <3>3. QED
        BY <3>1, <3>2
    <2>2. /\ Append(tail, f) \in Seq(Frames)
          /\ \A i \in 1 .. Len(Append(tail, f)) : Append(tail, f)[i] # RefreshSuccess
      BY <2>1, AppendProperties
    <2>3. \A b, c \in BOOLEAN : Modest(Reply(Append(tail, f), b, c))
      BY <2>2 DEF Modest, Spoken, Replies, Reply
    <2>4. QED
      BY <2>3 DEF Failure, Answer
  <1>3. ~hw_owned /\ loaded' \subseteq FrameOffsets
    <2>1. ~hw_owned
      BY DEF IInv, OwnershipMatchesState
    <2>2. loaded' \subseteq FrameOffsets
      BY DEF FrameOffsets, Transactions
    <2>3. QED
      BY <2>1, <2>2
  <1>4. CASE /\ Abort
             /\ reply' = Failure(Append(tail, Nack(op)))
             /\ UNCHANGED hw_owned
    BY <1>1, <1>2, <1>3, <1>4, AbortStep DEF FinishAndRefresh
  <1>5. CASE /\ t.accepted_bytes = t.expected_frame_bytes
             /\ BeginRefresh
             /\ hw_owned' = TRUE
             /\ \E d \in ArmedDeadlines :
                   txn' = [t EXCEPT !.state = "REFRESHING", !.deadline = d]
             /\ reply' = Answer(Append(tail, Ack(op)))
    <2>1. PICK d \in ArmedDeadlines :
             txn' = [t EXCEPT !.state = "REFRESHING", !.deadline = d]
      BY <1>5
    <2>2. d \in Deadlines
      BY DEF ArmedDeadlines, Deadlines
    <2>3. txn' \in Transactions
      BY <2>1, <2>2 DEF Transactions
    <2>4. Modest(reply')
      BY <1>1, <1>2, <1>5
    <2>5. /\ driver' = "ours"
          /\ refresh_mark' \in Deadlines
          /\ shown' \in BOOLEAN
      BY <1>5 DEF BeginRefresh, ArmedDeadlines, Deadlines
    <2>6. connection_generation' = connection_generation
      BY DEF FinishAndRefresh
    <2>7. TypeOK'
      BY <1>3, <1>5, <2>3, <2>4, <2>5, <2>6
         DEF IInv, TypeOK, BackendTypeOK, Modest, Replies, DriverStates
    <2>8. /\ txn'.state = "REFRESHING" /\ txn'.mode = t.mode
          /\ txn'.expected_frame_bytes = FullFrameBytes
          /\ txn'.accepted_bytes = FullFrameBytes
          /\ txn'.next_direct_offset = t.next_direct_offset
      BY <1>5, <2>1 DEF Transactions
    <2>9. FrameAccounting' /\ AckCadence'
      BY <1>5, <2>8 DEF FrameAccounting, AckCadence, Receiving
    <2>10. OwnershipMatchesState' /\ PanelInvariant'
      BY <1>5, <2>5, <2>8 DEF OwnershipMatchesState, PanelInvariant, FrameOffsets
    <2>11. SuccessMeansShown'
      BY <2>4 DEF SuccessMeansShown, Says, Modest, Spoken
    <2>12. QED
      BY <2>7, <2>9, <2>10, <2>11 DEF IInv
  <1>6. QED
    BY <1>4, <1>5 DEF FinishAndRefresh, WholeFrame

LEMMA OnDirectEndStep == ASSUME IInv, OnDirectEnd PROVE IInv'
  <1>1. CASE Refuse(Answer(<<Nack("DIRECT_END")>>))
    <2>1. Modest(Answer(<<Nack("DIRECT_END")>>))
      BY ModestReplies, NotSuccess, FrameTypes DEF Opcodes
    <2>2. QED
      BY <1>1, <2>1, RefuseStep
  <1>2. CASE Receiving("DIRECT") /\ FinishAndRefresh(txn, <<>>, "DIRECT_END") /\ UNCHANGED loaded
    <2>1. /\ txn.state = "RECEIVING" /\ txn \in Transactions
          /\ txn.expected_frame_bytes = FullFrameBytes
          /\ txn.accepted_bytes <= FullFrameBytes
          /\ txn.mode = "DIRECT" => txn.next_direct_offset = txn.accepted_bytes
          /\ loaded' = 0 .. txn.accepted_bytes - 1
      BY <1>2 DEF Receiving, IInv, FrameAccounting, TypeOK
    <2>2. QED
      BY <1>2, <2>1, FinishAndRefreshStep
  <1>3. QED
    BY <1>1, <1>2 DEF OnDirectEnd

LEMMA ModestSack ==
    \A h \in Seqs, p \in Nat :
       /\ Sack(h, InorderAckMask(p)) \in Frames /\ Sack(h, InorderAckMask(p)) # RefreshSuccess
       /\ Modest(Answer(<<Sack(h, InorderAckMask(p))>>))
       /\ Modest(Answer(<<PipeNack(h, InorderAckMask(p))>>))
  BY FrameTypes, NotSuccess, ModestReplies

LEMMA ModestSackOf ==
    ASSUME NEW t \in Transactions
    PROVE  /\ SackOf(t) \in Frames /\ SackOf(t) # RefreshSuccess
           /\ Modest(Answer(<<SackOf(t)>>))
  <1>1. t.highest_seen \in Seqs /\ t.accepted_packets \in Nat
    BY DEF Transactions
  <1>2. QED
    BY <1>1, ModestSack DEF SackOf

LEMMA OnPipeEndStep == ASSUME IInv, OnPipeEnd PROVE IInv'
  <1> DEFINE t == [txn EXCEPT !.accepted_since_ack = 0]
             tail == IF txn.accepted_since_ack # 0 THEN <<SackOf(txn)>> ELSE <<>>
  <1>1. CASE Refuse(Answer(<<Nack("PIPE_END")>>))
    <2>1. Modest(Answer(<<Nack("PIPE_END")>>))
      BY ModestReplies, NotSuccess, FrameTypes DEF Opcodes
    <2>2. QED
      BY <1>1, <2>1, RefuseStep
  <1>2. CASE Receiving("PIPE") /\ FinishAndRefresh(t, tail, "PIPE_END") /\ UNCHANGED loaded
    <2>1. txn.state = "RECEIVING" /\ txn.mode = "PIPE" /\ txn \in Transactions
      BY <1>2 DEF Receiving, IInv, TypeOK
    <2>2. /\ t \in Transactions
          /\ t.expected_frame_bytes = txn.expected_frame_bytes
          /\ t.accepted_bytes = txn.accepted_bytes
          /\ t.mode = "PIPE"
      BY <2>1 DEF Transactions
    <2>3. /\ txn.expected_frame_bytes = FullFrameBytes
          /\ txn.accepted_bytes <= FullFrameBytes
          /\ loaded' = 0 .. txn.accepted_bytes - 1
      BY <1>2, <2>1 DEF IInv, FrameAccounting
    <2>4. tail = <<>> \/ \E f \in Frames : f # RefreshSuccess /\ tail = <<f>>
      BY <2>1, ModestSackOf
    <2> HIDE DEF t, tail
    <2>5. QED
      BY <1>2, <2>1, <2>2, <2>3, <2>4, FinishAndRefreshStep
  <1>3. QED
    BY <1>1, <1>2 DEF OnPipeEnd

------------------------------------------------------------------------------
(* DATA *)

(* write_contiguous at the end of what is loaded keeps the buffer gap-free. *)
LEMMA WrittenExtends ==
    ASSUME NEW a \in Nat, NEW len \in Nat, loaded = 0 .. a - 1
    PROVE  Written(a, len) = 0 .. a + len - 1
  BY DEF Written

LEMMA OnDirectDataStep ==
    ASSUME IInv, NEW len \in DataLengths, OnDirectData(len) PROVE IInv'
  <1>1. /\ Nack("DIRECT_DATA") \in Frames /\ Nack("DIRECT_DATA") # RefreshSuccess
        /\ Modest(Answer(<<Nack("DIRECT_DATA")>>))
        /\ Modest(Answer(<<Ack("DIRECT_DATA")>>))
    BY ModestReplies, NotSuccess, FrameTypes DEF Opcodes
  <1>2. CASE Refuse(Answer(<<Nack("DIRECT_DATA")>>))
    BY <1>1, <1>2, RefuseStep
  <1>3. CASE AbortWith(Nack("DIRECT_DATA"))
    BY <1>1, <1>3, AbortWithStep
  <1>4. CASE /\ Receiving("DIRECT")
             /\ ~TooLong(len)
             /\ loaded' = Written(txn.next_direct_offset, len)
             /\ \E d \in ArmedDeadlines :
                   txn' = [txn EXCEPT !.next_direct_offset = @ + len,
                                      !.accepted_bytes = @ + len,
                                      !.deadline = d]
             /\ reply' = Answer(<<Ack("DIRECT_DATA")>>)
             /\ UNCHANGED <<hw_owned, connection_generation, driver, refresh_mark, shown>>
    <2>1. PICK d \in ArmedDeadlines :
             txn' = [txn EXCEPT !.next_direct_offset = @ + len,
                                !.accepted_bytes = @ + len, !.deadline = d]
      BY <1>4
    <2>2. d \in Deadlines /\ len \in Nat
      BY DEF ArmedDeadlines, Deadlines
    <2>3. /\ txn \in Transactions /\ txn.state = "RECEIVING" /\ txn.mode = "DIRECT"
          /\ txn.expected_frame_bytes = FullFrameBytes
          /\ txn.accepted_bytes \in Nat
          /\ txn.next_direct_offset = txn.accepted_bytes
          /\ loaded = 0 .. txn.accepted_bytes - 1
      BY <1>4 DEF Receiving, IInv, TypeOK, FrameAccounting, Transactions
    <2>4. txn' \in Transactions
      <3> DEFINE n == txn.accepted_bytes + len
      <3>1. n \in Nat
        BY <2>2, <2>3
      <3>2. txn' = [txn EXCEPT !.next_direct_offset = n, !.accepted_bytes = n, !.deadline = d]
        BY <2>1, <2>3
      <3> HIDE DEF n
      <3>3. QED
        BY <2>2, <2>3, <3>1, <3>2 DEF Transactions
    <2>5. /\ txn'.state = "RECEIVING" /\ txn'.mode = "DIRECT"
          /\ txn'.expected_frame_bytes = FullFrameBytes
          /\ txn'.accepted_bytes = txn.accepted_bytes + len
          /\ txn'.next_direct_offset = txn.accepted_bytes + len
      BY <2>1, <2>3 DEF Transactions
    <2>6. txn'.accepted_bytes <= FullFrameBytes
      BY <1>4, <2>2, <2>3, <2>5 DEF TooLong
    <2>7. loaded' = 0 .. txn'.accepted_bytes - 1
      BY <1>4, <2>2, <2>3, <2>5, WrittenExtends
    <2>8. loaded' \subseteq FrameOffsets
      BY <2>2, <2>3, <2>5, <2>6, <2>7 DEF FrameOffsets
    <2>9. TypeOK'
      BY <1>1, <1>4, <2>4, <2>8 DEF IInv, TypeOK, BackendTypeOK, Modest, Replies
    <2>10. FrameAccounting' /\ AckCadence'
      BY <2>5, <2>6, <2>7 DEF FrameAccounting, AckCadence, Receiving
    <2>11. ~hw_owned
      BY <2>3 DEF IInv, OwnershipMatchesState
    <2>12. OwnershipMatchesState' /\ PanelInvariant'
      BY <1>4, <2>5, <2>11 DEF IInv, OwnershipMatchesState, PanelInvariant
    <2>13. SuccessMeansShown'
      BY <1>1, <1>4 DEF SuccessMeansShown, Says, Modest, Spoken
    <2>14. QED
      BY <2>9, <2>10, <2>12, <2>13 DEF IInv
  <1>5. QED
    BY <1>2, <1>3, <1>4 DEF OnDirectData

(* An accepted chunk yields a transaction of the right type, still in RECEIVING. *)
LEMMA WithChunkType ==
    ASSUME IInv, Receiving("PIPE"), NEW len \in Nat, ~TooLong(len), NEW d \in Deadlines,
           NEW seq, seq = txn.next_pipe_sequence
    PROVE  LET t == WithChunk(seq, len, d)
           IN  /\ t \in Transactions
               /\ t.state = "RECEIVING" /\ t.mode = "PIPE"
               /\ t.expected_frame_bytes = FullFrameBytes
               /\ t.accepted_bytes = txn.accepted_bytes + len
               /\ t.accepted_bytes <= FullFrameBytes
               /\ t.negotiated_ack_every = txn.negotiated_ack_every
               /\ t.negotiated_ack_every > 0
  <1> DEFINE n == txn.accepted_bytes + len
             next == (seq + 1) % SeqMod
             packets == CountPacket(txn.accepted_packets)
             since == txn.accepted_since_ack + 1
  <1>1. /\ txn \in Transactions /\ txn.state = "RECEIVING" /\ txn.mode = "PIPE"
        /\ txn.expected_frame_bytes = FullFrameBytes
        /\ txn.accepted_since_ack < txn.negotiated_ack_every
    BY DEF Receiving, IInv, TypeOK, FrameAccounting, AckCadence
  <1>2. /\ txn.accepted_bytes \in Nat /\ seq \in Seqs
        /\ txn.accepted_packets \in Nat
        /\ txn.accepted_since_ack \in 0 .. MaxAckEvery
        /\ txn.negotiated_ack_every \in 0 .. MaxAckEvery
    BY <1>1 DEF Transactions
  <1>3. n \in Nat /\ n <= FullFrameBytes
    BY <1>1, <1>2 DEF TooLong
  <1>4. next \in Seqs
    BY <1>2 DEF Seqs
  <1>5. packets \in 0 .. AckMaskBits + 1
    BY <1>2 DEF CountPacket, Lesser
  <1>6. since \in 0 .. MaxAckEvery /\ txn.negotiated_ack_every > 0
    BY <1>1, <1>2
  <1>7. WithChunk(seq, len, d) =
           [txn EXCEPT !.accepted_bytes = n, !.highest_seen = seq,
                       !.next_pipe_sequence = next, !.accepted_packets = packets,
                       !.accepted_since_ack = since, !.deadline = d]
    BY DEF WithChunk
  <1> HIDE DEF n, next, packets, since
  <1>8. WithChunk(seq, len, d) \in Transactions
    BY <1>1, <1>2, <1>3, <1>4, <1>5, <1>6, <1>7, ZenonT(60) DEF Transactions
  <1>9. /\ WithChunk(seq, len, d).state = "RECEIVING"
        /\ WithChunk(seq, len, d).mode = "PIPE"
        /\ WithChunk(seq, len, d).expected_frame_bytes = FullFrameBytes
        /\ WithChunk(seq, len, d).accepted_bytes = n
        /\ WithChunk(seq, len, d).negotiated_ack_every = txn.negotiated_ack_every
    BY <1>1, <1>7 DEF Transactions
  <1>10. QED
    BY <1>3, <1>6, <1>8, <1>9 DEF n

LEMMA InOrderPipeDataStep ==
    ASSUME IInv, NEW payload \in PipePayloads, InOrderPipeData(payload)
    PROVE  IInv'
  <1> DEFINE seq == payload[1]
             len == payload[2]
  <1>1. Receiving("PIPE") /\ seq = txn.next_pipe_sequence /\ ~TooLong(len)
        /\ loaded' = Written(txn.accepted_bytes, len)
    BY DEF InOrderPipeData
  <1>2. len \in Nat
    BY DEF InOrderPipeData, PipePayloads
  <1>3. PICK d \in ArmedDeadlines : AfterChunk(WithChunk(seq, len, d))
    BY DEF InOrderPipeData
  <1>4. d \in Deadlines
    BY DEF ArmedDeadlines, Deadlines
  <1> DEFINE t == WithChunk(seq, len, d)
  <1> HIDE DEF seq, len
  <1>5. /\ t \in Transactions
        /\ t.state = "RECEIVING" /\ t.mode = "PIPE"
        /\ t.expected_frame_bytes = FullFrameBytes
        /\ t.accepted_bytes = txn.accepted_bytes + len
        /\ t.accepted_bytes <= FullFrameBytes
        /\ t.negotiated_ack_every > 0
    BY <1>1, <1>2, <1>4, WithChunkType
  <1>6. /\ txn.state = "RECEIVING" /\ ~hw_owned
        /\ txn.accepted_bytes \in Nat /\ loaded = 0 .. txn.accepted_bytes - 1
    BY <1>1 DEF Receiving, IInv, OwnershipMatchesState, FrameAccounting, TypeOK, Transactions
  <1> HIDE DEF t
  <1>7. loaded' = 0 .. t.accepted_bytes - 1
    BY <1>1, <1>2, <1>5, <1>6, WrittenExtends
  <1> DEFINE u == [t EXCEPT !.accepted_since_ack = 0]
  <1>8. /\ u \in Transactions
        /\ u.state = "RECEIVING" /\ u.mode = "PIPE"
        /\ u.expected_frame_bytes = FullFrameBytes
        /\ u.accepted_bytes = t.accepted_bytes
        /\ u.negotiated_ack_every = t.negotiated_ack_every
        /\ u.accepted_since_ack = 0
    BY <1>5 DEF Transactions
  <1> HIDE DEF u
  <1>9. CASE FinishAndRefresh(u, <<SackOf(t)>>, "PIPE_END")
    BY <1>5, <1>6, <1>7, <1>8, <1>9, ModestSackOf, FinishAndRefreshStep
  <1>10. ASSUME NEW v \in {t, u}, txn' = v,
                v.accepted_since_ack < v.negotiated_ack_every,
                Modest(reply'),
                UNCHANGED <<hw_owned, connection_generation, driver, refresh_mark, shown>>
         PROVE  IInv'
    <2>1. /\ txn' \in Transactions
          /\ txn'.state = "RECEIVING" /\ txn'.mode = "PIPE"
          /\ txn'.expected_frame_bytes = FullFrameBytes
          /\ txn'.accepted_bytes = t.accepted_bytes
          /\ txn'.accepted_since_ack < txn'.negotiated_ack_every
      BY <1>5, <1>8, <1>10
    <2>2. loaded' \subseteq FrameOffsets
      BY <1>5, <1>7 DEF FrameOffsets, Transactions
    <2>3. TypeOK'
      BY <1>10, <2>1, <2>2 DEF IInv, TypeOK, BackendTypeOK, Modest, Replies
    <2>4. FrameAccounting' /\ AckCadence'
      BY <1>5, <1>7, <2>1 DEF FrameAccounting, AckCadence, Receiving
    <2>5. OwnershipMatchesState' /\ PanelInvariant'
      BY <1>6, <1>10, <2>1 DEF IInv, OwnershipMatchesState, PanelInvariant
    <2>6. SuccessMeansShown'
      BY <1>10 DEF SuccessMeansShown, Says, Modest, Spoken
    <2>7. QED
      BY <2>3, <2>4, <2>5, <2>6 DEF IInv
  <1>11. CASE /\ t.accepted_since_ack >= t.negotiated_ack_every
              /\ txn' = u
              /\ reply' = Answer(<<SackOf(t)>>)
              /\ UNCHANGED <<hw_owned, connection_generation, driver, refresh_mark, shown>>
    BY <1>5, <1>8, <1>10, <1>11, ModestSackOf
  <1>12. CASE /\ ~(t.accepted_since_ack >= t.negotiated_ack_every)
              /\ txn' = t
              /\ reply' = Silence
              /\ UNCHANGED <<hw_owned, connection_generation, driver, refresh_mark, shown>>
    <2>1. t.accepted_since_ack < t.negotiated_ack_every
      BY <1>5, <1>12 DEF Transactions
    <2>2. QED
      BY <1>10, <1>12, <2>1, ModestReplies
  <1>13. AfterChunk(t)
    BY <1>3 DEF t
  <1>14. QED
    BY <1>9, <1>11, <1>12, <1>13 DEF AfterChunk, SackDue, u

LEMMA OnPipeDataStep ==
    ASSUME IInv, NEW payload \in PipePayloads, OnPipeData(payload) PROVE IInv'
  <1>1. CASE Refuse(Silence)
    BY <1>1, RefuseStep, ModestReplies
  <1>2. CASE StrayPipeData
    <2>1. /\ txn \in Transactions
          /\ txn' = [txn EXCEPT !.pipe_fatal = TRUE]
          /\ txn.highest_seen \in Seqs /\ txn.accepted_packets \in Nat
      BY <1>2 DEF StrayPipeData, IInv, TypeOK, Transactions
    <2>2. Modest(reply')
      BY <1>2, <2>1, ModestSack DEF StrayPipeData
    <2>3. /\ txn' \in Transactions
          /\ txn'.state = txn.state /\ txn'.mode = txn.mode
          /\ txn'.expected_frame_bytes = txn.expected_frame_bytes
          /\ txn'.accepted_bytes = txn.accepted_bytes
          /\ txn'.next_direct_offset = txn.next_direct_offset
      BY <2>1 DEF Transactions
    <2>4. TypeOK'
      BY <1>2, <2>2, <2>3
         DEF StrayPipeData, IInv, TypeOK, BackendTypeOK, backendVars, Modest, Replies
    <2>5. FrameAccounting' /\ AckCadence' /\ OwnershipMatchesState' /\ PanelInvariant'
      BY <1>2, <2>3 DEF StrayPipeData, backendVars, IInv, FrameAccounting, AckCadence,
         Receiving, OwnershipMatchesState, PanelInvariant
    <2>6. SuccessMeansShown'
      BY <2>2 DEF SuccessMeansShown, Says, Modest, Spoken
    <2>7. QED
      BY <2>4, <2>5, <2>6 DEF IInv
  <1>3. CASE BadPipeData(payload)
    <2>1. PipeNack(NoTxn.highest_seen, {}) \in Frames
          /\ PipeNack(NoTxn.highest_seen, {}) # RefreshSuccess
      BY FrameTypes, NotSuccess DEF NoTxn, Seqs
    <2>2. QED
      BY <1>3, <2>1, AbortWithStep DEF BadPipeData
  <1>4. CASE OutOfOrderPipeData(payload)
    <2>1. Modest(Answer(<<SackOf(txn)>>))
      BY ModestSackOf DEF IInv, TypeOK
    <2>2. QED
      BY <1>4, <2>1, RefuseStep DEF OutOfOrderPipeData
  <1>5. CASE InOrderPipeData(payload)
    BY <1>5, InOrderPipeDataStep
  <1>6. QED
    BY <1>1, <1>2, <1>3, <1>4, <1>5 DEF OnPipeData

------------------------------------------------------------------------------
(* tick(), the calls from elsewhere, and the world *)

LEMMA TickReleasesStep == ASSUME IInv, TickReleases PROVE IInv'
  <1>1. /\ hw_owned /\ PollRefresh # "PENDING" /\ ~hw_owned'
        /\ UNCHANGED <<connection_generation, driver, loaded, shown>>
    BY DEF TickReleases, PollEnds
  <1>2. hw_owned' \in BOOLEAN
    BY Zenon DEF TickReleases
  <1>3. refresh_mark' \in Deadlines
    BY DEF TickReleases, MarkAfterPoll, IInv, TypeOK, BackendTypeOK, Deadlines
  <1>4. driver \in DriverStates
    BY DEF IInv, TypeOK, BackendTypeOK
  <1>5. ObservesCompletion => driver # "ours"
    BY <1>1, <1>4 DEF PollRefresh, IsIdle
  <1>6. ObservesCompletion /\ PollRefresh = "COMPLETE" => shown
    BY <1>1, <1>4 DEF PollRefresh, IsIdle, IInv, PanelInvariant
  <1>7. PanelInvariant'
    BY <1>1, <1>5 DEF PanelInvariant
  <1>8. CASE txn.state = "REFRESHING"
    <2>1. txn' = NoTxn /\ txn' \in Transactions
      <3>1. txn' = NoTxn
        BY <1>8 DEF TickReleases
      <3>2. NoTxn \in Transactions
        BY DEF NoTxn, Transactions, Seqs, Deadlines
      <3>3. QED
        BY <3>1, <3>2
    <2>2. reply' \in Replies
      <3>1. RefreshSuccess \in Frames
        BY FrameTypes DEF RefreshSuccess, Opcodes
      <3>2. QED
        BY <1>8, <3>1, ReplyTypes DEF TickReleases
    <2>3. SuccessMeansShown'
      <3>1. CASE PollRefresh = "COMPLETE"
        BY <1>1, <1>6, <3>1 DEF SuccessMeansShown
      <3>2. CASE PollRefresh # "COMPLETE"
        <4>1. reply' = Failure(<<>>)
          BY <1>8, <3>2 DEF TickReleases
        <4>2. QED
          BY <4>1, ModestReplies DEF SuccessMeansShown, Says, Modest, Spoken
      <3>3. QED
        BY <3>1, <3>2
    <2>4. TypeOK'
      BY <1>1, <1>2, <1>3, <2>1, <2>2 DEF IInv, TypeOK, BackendTypeOK, Replies
    <2>5. QED
      BY <1>7, <2>1, <2>3, <2>4 DEF IInv, FrameAccounting, AckCadence, Receiving,
         OwnershipMatchesState, NoTxn
  <1>9. CASE txn.state # "REFRESHING"
    <2>1. txn' = txn /\ Modest(reply')
      BY <1>9, ModestReplies DEF TickReleases
    <2>2. SuccessMeansShown'
      BY <2>1 DEF SuccessMeansShown, Says, Modest, Spoken
    <2>3. TypeOK'
      BY <1>1, <1>2, <1>3, <2>1 DEF IInv, TypeOK, BackendTypeOK, Modest, Replies
    <2>4. QED
      BY <1>1, <1>7, <1>9, <2>1, <2>2, <2>3 DEF IInv, FrameAccounting, AckCadence, Receiving,
         OwnershipMatchesState
  <1>10. QED
    BY <1>8, <1>9

LEMMA TickStep == ASSUME IInv, Tick PROVE IInv'
  <1>1. CASE TickReleases
    BY <1>1, TickReleasesStep
  <1>2. CASE TickExpires
    <2>1. Modest(reply')
      <3>1. RefreshTimeout \in Frames /\ RefreshTimeout # RefreshSuccess
        BY FrameTypes, NotSuccess DEF RefreshTimeout, Opcodes
      <3>2. QED
        BY <1>2, <3>1, ModestReplies DEF TickExpires
    <2>2. QED
      BY <1>2, <2>1, AbortStep, LoadedInFrame DEF TickExpires
  <1>3. CASE TickIdles
    BY <1>3, RefuseStep, ModestReplies DEF TickIdles
  <1>4. QED
    BY <1>1, <1>2, <1>3 DEF Tick

LEMMA OtherCallStep ==
    ASSUME IInv, \/ \E generation \in 0 .. MaxGeneration : OnDisconnect(generation)
                 \/ LocalAbort
    PROVE  IInv'
  <1>1. /\ Abort /\ reply' = Silence
        /\ UNCHANGED <<hw_owned, connection_generation, loaded>>
    BY DEF OnDisconnect, LocalAbort
  <1>2. QED
    BY <1>1, ModestReplies, AbortStep, LoadedInFrame

(* Steps that leave the reply alone. *)
LEMMA SetConnectionGenerationStep == ASSUME IInv, SetConnectionGeneration PROVE IInv'
  <1>1. connection_generation' \in 0 .. MaxGeneration
    BY DEF SetConnectionGeneration, IInv, TypeOK
  <1>2. TypeOK'
    BY <1>1 DEF SetConnectionGeneration, IInv, TypeOK, BackendTypeOK, backendVars
  <1>3. QED
    BY <1>2 DEF SetConnectionGeneration, backendVars, IInv, FrameAccounting, AckCadence,
       Receiving, OwnershipMatchesState, PanelInvariant, SuccessMeansShown, Says

LEMMA DeadlinePassesStep == ASSUME IInv, DeadlinePasses PROVE IInv'
  <1>1. /\ txn \in Transactions
        /\ txn' = [txn EXCEPT !.deadline = "passed"]
        /\ UNCHANGED <<hw_owned, connection_generation, reply>>
        /\ UNCHANGED <<driver, refresh_mark, loaded, shown>>
    BY DEF DeadlinePasses, IInv, TypeOK, backendVars
  <1>2. /\ txn' \in Transactions
        /\ txn'.state = txn.state /\ txn'.mode = txn.mode
        /\ txn'.expected_frame_bytes = txn.expected_frame_bytes
        /\ txn'.accepted_bytes = txn.accepted_bytes
        /\ txn'.next_direct_offset = txn.next_direct_offset
        /\ txn'.accepted_since_ack = txn.accepted_since_ack
        /\ txn'.negotiated_ack_every = txn.negotiated_ack_every
    BY <1>1 DEF Transactions, Deadlines
  <1>3. TypeOK'
    BY <1>1, <1>2 DEF IInv, TypeOK, BackendTypeOK
  <1>4. QED
    BY <1>1, <1>2, <1>3 DEF IInv, FrameAccounting, AckCadence,
       Receiving, OwnershipMatchesState, PanelInvariant, SuccessMeansShown, Says

LEMMA EnvironmentStepStep == ASSUME IInv, EnvironmentStep PROVE IInv'
  <1>1. UNCHANGED <<txn, hw_owned, connection_generation, reply>> /\ loaded' = loaded
    BY DEF EnvironmentStep, engineVars, DriverFinishes, DriverFails, LocalUpdate, SettlePasses
  <1>2. TypeOK'
    <2>1. driver' \in DriverStates /\ refresh_mark' \in Deadlines
      BY DEF EnvironmentStep, DriverFinishes, DriverFails, LocalUpdate, SettlePasses,
         IInv, TypeOK, BackendTypeOK, DriverStates, Deadlines
    <2>2. shown' \in BOOLEAN
      <3>1. CASE UNCHANGED shown
        BY <3>1 DEF IInv, TypeOK, BackendTypeOK
      <3>2. CASE DriverFinishes
        BY <3>2, Zenon DEF DriverFinishes
      <3>3. QED
        BY <3>1, <3>2 DEF EnvironmentStep, DriverFails, LocalUpdate, SettlePasses
    <2>3. QED
      BY <1>1, <2>1, <2>2 DEF IInv, TypeOK, BackendTypeOK
  <1>3. shown => shown'
    BY DEF EnvironmentStep, DriverFinishes, DriverFails, LocalUpdate, SettlePasses
  <1>4. PanelInvariant'
    BY <1>1 DEF EnvironmentStep, DriverFinishes, DriverFails, LocalUpdate, SettlePasses,
       IsIdle, IInv, PanelInvariant
  <1>5. QED
    BY <1>1, <1>2, <1>3, <1>4 DEF IInv, FrameAccounting, AckCadence, Receiving,
       OwnershipMatchesState, SuccessMeansShown, Says

------------------------------------------------------------------------------
(* The invariant, and what follows from it. *)

LEMMA StepIInv == IInv /\ [Next]_vars => IInv'
  <1> SUFFICES ASSUME IInv, [Next]_vars PROVE IInv'
    OBVIOUS
  <1>1. CASE ClientStep
    BY <1>1, OnDirectStartStep, OnDirectDataStep, OnDirectEndStep,
       OnPipeStartStep, OnPipeDataStep, OnPipeEndStep DEF ClientStep
  <1>2. CASE Tick
    BY <1>2, TickStep
  <1>3. CASE (\E generation \in 0 .. MaxGeneration : OnDisconnect(generation)) \/ LocalAbort
    BY <1>3, OtherCallStep
  <1>4. CASE SetConnectionGeneration
    BY <1>4, SetConnectionGenerationStep
  <1>5. CASE DeadlinePasses
    BY <1>5, DeadlinePassesStep
  <1>6. CASE EnvironmentStep
    BY <1>6, EnvironmentStepStep
  <1>7. CASE UNCHANGED vars
    BY <1>7 DEF vars, IInv, TypeOK, BackendTypeOK, FrameAccounting, AckCadence, Receiving,
       OwnershipMatchesState, PanelInvariant, SuccessMeansShown, Says
  <1>8. QED
    BY <1>1, <1>2, <1>3, <1>4, <1>5, <1>6, <1>7 DEF Next

(* IInv is an invariant of every behaviour of the engine. *)
THEOREM Invariance == Spec => []IInv
  BY InitIInv, StepIInv, PTL DEF Spec

(* Every variable keeps its type (Transaction, EngineResult, the backend).        *)
THEOREM TypeCorrect == Spec => []TypeOK
  <1>1. IInv => TypeOK
    BY DEF IInv
  <1>2. QED
    BY <1>1, Invariance, PTL

(* For every frame size and every sequence of commands, the bytes counted as      *)
(* accepted are the first bytes of the framebuffer, gap-free and within the       *)
(* frame (on_direct_data, on_pipe_data).                                          *)
THEOREM FrameAccountingHolds == Spec => []FrameAccounting
  <1>1. IInv => FrameAccounting
    BY DEF IInv
  <1>2. QED
    BY <1>1, Invariance, PTL

(* While the driver carries out our refresh the engine owns the panel and the     *)
(* framebuffer is one whole frame, whatever aborts, timeouts and disconnects      *)
(* happen meanwhile (hw_owned_).                                                  *)
THEOREM PanelHeldHolds == Spec => []PanelHeld
  <1>1. IInv => PanelHeld
    BY DEF IInv, PanelInvariant, PanelHeld
  <1>2. QED
    BY <1>1, Invariance, PTL

(* 0x73 is sent only once the frame is on the panel (begin_refresh, tick).        *)
THEOREM SuccessMeansShownHolds == Spec => []SuccessMeansShown
  <1>1. IInv => SuccessMeansShown
    BY DEF IInv
  <1>2. QED
    BY <1>1, Invariance, PTL

(* Fewer chunks than the negotiated cadence wait for a SACK between two calls.    *)
THEOREM AckCadenceHolds == Spec => []AckCadence
  <1>1. IInv => AckCadence
    BY DEF IInv
  <1>2. QED
    BY <1>1, Invariance, PTL

==============================================================================
