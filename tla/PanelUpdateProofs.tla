-------------------------- MODULE PanelUpdateProofs --------------------------
(***************************************************************************)
(* TransferEngine implements PanelUpdate, for every value of the constants.*)
(* Each call of the engine is one step of the abstract specification, or   *)
(* leaves phase, framebuffer, panel and last outcome as they are.          *)
(***************************************************************************)
EXTENDS TransferEngineProofs

USE BackendAssumption, EngineAssumption

promiseVars == <<Phase, loaded, Panel, Said>>

------------------------------------------------------------------------------
(* Replies that report no outcome. *)

OutcomeFrames == {Ack("DIRECT_END"), Ack("PIPE_END"), RefreshSuccess, RefreshTimeout}

Neutral(r) == \A f \in OutcomeFrames : ~Spoken(r, f)

LEMMA NeutralSays == ASSUME Neutral(reply') PROVE Said' = "nothing"
  BY DEF Neutral, OutcomeFrames, Spoken, Said, Says

LEMMA NeutralFrames ==
    /\ \A op : Nack(op) \notin OutcomeFrames
    /\ \A op \in {"DIRECT_START", "DIRECT_DATA"} : Ack(op) \notin OutcomeFrames
    /\ \A h, m : Sack(h, m) \notin OutcomeFrames /\ PipeNack(h, m) \notin OutcomeFrames
    /\ \A w, a : StartAck(w, a) \notin OutcomeFrames
  <1>1. \A f \in OutcomeFrames :
           /\ f.kind = "ACK"
           /\ f.op \in {"DIRECT_END", "PIPE_END", "REFRESH_SUCCESS", "REFRESH_TIMEOUT"}
    BY DEF OutcomeFrames, RefreshSuccess, RefreshTimeout, Ack
  <1>2. \A op : Nack(op).kind = "NACK" /\ Ack(op).op = op
    BY DEF Nack, Ack
  <1>3. \A h, m : Sack(h, m).kind = "SACK" /\ PipeNack(h, m).kind = "PIPE_NACK"
    BY DEF Sack, PipeNack
  <1>4. \A w, a : StartAck(w, a).kind = "START_ACK"
    BY DEF StartAck
  <1>5. QED
    BY <1>1, <1>2, <1>3, <1>4

LEMMA NeutralReplies ==
    /\ Neutral(Silence) /\ Neutral(Failure(<<>>))
    /\ \A f : f \notin OutcomeFrames =>
          Neutral(Answer(<<f>>)) /\ Neutral(Failure(<<f>>)) /\ Neutral(Reply(<<f>>, TRUE, FALSE))
  <1>1. \A b, c : Neutral(Reply(<<>>, b, c))
    BY DEF Neutral, Spoken, Reply
  <1>2. \A f, b, c : f \notin OutcomeFrames => Neutral(Reply(<<f>>, b, c))
    BY DEF Neutral, Spoken, Reply
  <1>3. QED
    BY <1>1, <1>2 DEF Silence, Failure, Answer

(* The reply of finish_and_refresh_: an optional SACK, then the END answer.       *)
LEMMA EndReplies ==
    ASSUME NEW tail, tail = <<>> \/ \E h, m : tail = <<Sack(h, m)>>,
           tail \in Seq(Frames),
           NEW op \in {"DIRECT_END", "PIPE_END"}
    PROVE  /\ Neutral(Failure(Append(tail, Nack(op))))
           /\ reply' = Answer(Append(tail, Ack(op))) => Said' = "accepted"
  <1>1. Nack(op) \in Frames /\ Ack(op) \in Frames
    BY FrameTypes DEF Opcodes
  <1>2. \A f \in Frames :
           /\ Len(Append(tail, f)) = Len(tail) + 1
           /\ Append(tail, f)[Len(tail) + 1] = f
           /\ \A i \in 1 .. Len(tail) : Append(tail, f)[i] = tail[i]
    BY AppendProperties
  <1>3. Len(tail) \in Nat /\ \A i \in 1 .. Len(tail) : tail[i] \notin OutcomeFrames
    <2>1. CASE tail = <<>>
      BY <2>1
    <2>2. CASE \E h, m : tail = <<Sack(h, m)>>
      <3>1. PICK h, m : tail = <<Sack(h, m)>>
        BY <2>2
      <3>2. Len(tail) = 1 /\ tail[1] = Sack(h, m)
        BY <3>1
      <3>3. QED
        BY <3>2, NeutralFrames
    <2>3. QED
      BY <2>1, <2>2
  <1>4. Neutral(Failure(Append(tail, Nack(op))))
    <2>1. \A i \in 1 .. Len(Append(tail, Nack(op))) :
             Append(tail, Nack(op))[i] \notin OutcomeFrames
      BY <1>1, <1>2, <1>3, NeutralFrames
    <2>2. QED
      BY <2>1 DEF Neutral, Spoken, Failure, Reply
  <1>5. reply' = Answer(Append(tail, Ack(op))) => Said' = "accepted"
    <2> SUFFICES ASSUME reply' = Answer(Append(tail, Ack(op))) PROVE Said' = "accepted"
      OBVIOUS
    <2>1. reply'.frames = Append(tail, Ack(op))
      BY DEF Answer, Reply
    <2>2. Says(Ack(op))'
      BY <1>1, <1>2, <1>3, <2>1 DEF Says
    <2>3. QED
      BY <2>2 DEF Said
  <1>6. QED
    BY <1>4, <1>5

------------------------------------------------------------------------------
(* What the invariant says in the terms of the promise. *)

LEMMA PromiseFacts ==
    ASSUME IInv
    PROVE  /\ txn.state \in {"IDLE", "RECEIVING", "REFRESHING"}
           /\ txn.state = "RECEIVING" =>
                 /\ ~hw_owned
                 /\ txn.expected_frame_bytes = FullFrameBytes
                 /\ txn.accepted_bytes \in 0 .. FullFrameBytes
                 /\ loaded = 0 .. txn.accepted_bytes - 1
           /\ txn.state = "REFRESHING" => hw_owned
           /\ Phase = "free" <=> txn.state = "IDLE" /\ ~hw_owned
           /\ Phase = "loading" <=> txn.state = "RECEIVING"
           /\ Phase = "showing" <=> txn.state = "REFRESHING"
           /\ Phase = "held" <=> txn.state = "IDLE" /\ hw_owned
           /\ Panel = "reading" <=> driver = "ours"
           /\ ~hw_owned => Promise!NotReading
  <1>1. txn.state \in {"IDLE", "RECEIVING", "REFRESHING"} /\ txn.accepted_bytes \in Nat
    BY DEF IInv, TypeOK, Transactions
  <1>2. Panel = "reading" <=> driver = "ours"
    BY DEF Panel
  <1>3. ~hw_owned => Promise!NotReading
    BY <1>2 DEF Promise!NotReading, IInv, PanelInvariant
  <1>4. QED
    BY <1>1, <1>2, <1>3 DEF Phase, IInv, FrameAccounting, OwnershipMatchesState

LEMMA QuietStep ==
    ASSUME Neutral(reply'), Phase' = Phase, Panel' = Panel, loaded' = loaded
    PROVE  Promise!Quiet
  BY NeutralSays DEF Promise!Quiet

LEMMA RefuseIsQuiet ==
    ASSUME NEW r, Neutral(r), Refuse(r) PROVE Promise!Quiet
  <1>1. Phase' = Phase /\ Panel' = Panel /\ loaded' = loaded
    BY DEF Refuse, backendVars, Phase, Panel
  <1>2. QED
    BY <1>1, QuietStep DEF Refuse

(* abort() abandons a frame being loaded, lets go of one being shown, and does    *)
(* nothing otherwise. A frame being loaded may have grown in the same call.       *)
Grown == txn.state = "RECEIVING" /\ \E n \in 0 .. FullFrameBytes :
            loaded \subseteq 0 .. n - 1 /\ loaded' = 0 .. n - 1

LEMMA SameIsGrown ==
    ASSUME IInv, txn.state = "RECEIVING", loaded' = loaded PROVE Grown
  BY PromiseFacts DEF Grown

LEMMA AbortLoadingRefines ==
    ASSUME IInv, Abort, hw_owned' = hw_owned, Grown, Neutral(reply') PROVE Promise!Next
  <1>1. txn'.state = "IDLE" /\ Panel' = Panel
    BY DEF Abort, AbortTransfer, NoTxn, Panel
  <1>2. Phase = "loading" /\ Phase' = "free"
    BY <1>1, PromiseFacts DEF Phase, Grown
  <1>3. Said' = "nothing"
    BY NeutralSays
  <1>4. QED
    BY <1>1, <1>2, <1>3 DEF Promise!Next, Promise!Abandon, Promise!Grow, Grown

LEMMA AbortShowingRefines ==
    ASSUME IInv, Abort, hw_owned' = hw_owned, loaded' = loaded,
           txn.state = "REFRESHING", Said' \in {"timeout", "nothing"}
    PROVE  Promise!Next
  <1>1. txn'.state = "IDLE" /\ Panel' = Panel
    BY DEF Abort, AbortTransfer, NoTxn, Panel
  <1>2. Phase = "showing" /\ Phase' = "held"
    BY <1>1, PromiseFacts DEF Phase
  <1>3. QED
    BY <1>1, <1>2 DEF Promise!Next, Promise!TimeOut

LEMMA AbortRefines ==
    ASSUME IInv, Abort, hw_owned' = hw_owned, loaded' = loaded, Neutral(reply')
    PROVE  Promise!Next
  <1>1. CASE txn.state = "IDLE"
    <2>1. Phase' = Phase /\ Panel' = Panel
      BY <1>1 DEF Abort, AbortTransfer, NoTxn, Phase, Panel
    <2>2. QED
      BY <2>1, QuietStep DEF Promise!Next
  <1>2. CASE txn.state = "RECEIVING"
    BY <1>2, SameIsGrown, AbortLoadingRefines
  <1>3. CASE txn.state = "REFRESHING"
    <2>1. Said' \in {"timeout", "nothing"}
      BY NeutralSays
    <2>2. QED
      BY <1>3, <2>1, AbortShowingRefines
  <1>4. QED
    BY <1>1, <1>2, <1>3, PromiseFacts

LEMMA AbortWithRefines ==
    ASSUME IInv, NEW f, f \notin OutcomeFrames, AbortWith(f) PROVE Promise!Next
  <1>1. Neutral(reply')
    BY NeutralReplies DEF AbortWith
  <1>2. Abort /\ hw_owned' = hw_owned /\ loaded' = loaded
    BY DEF AbortWith
  <1>3. QED
    BY <1>1, <1>2, AbortRefines

------------------------------------------------------------------------------
(* START *)

LEMMA BeginRefusedRefines ==
    ASSUME IInv, NEW total, BeginRefused(total), Neutral(reply') PROVE Promise!Next
  <1>1. CASE UNCHANGED <<txn, refresh_mark, driver, shown>>
    <2>1. Phase' = Phase /\ Panel' = Panel /\ loaded' = loaded
      BY <1>1 DEF BeginRefused, Phase, Panel
    <2>2. QED
      BY <2>1, QuietStep DEF Promise!Next
  <1>2. CASE Abort
    <2>1. hw_owned' = hw_owned /\ loaded' = loaded
      BY DEF BeginRefused
    <2>2. QED
      BY <1>2, <2>1, AbortRefines
  <1>3. QED
    BY <1>1, <1>2 DEF BeginRefused

LEMMA BeginAcceptedRefines ==
    ASSUME IInv, NEW mode, NEW total, NEW window, NEW ack_every,
           BeginAccepted(mode, total, window, ack_every), Neutral(reply')
    PROVE  Promise!Next
  <1>1. ~hw_owned /\ txn'.state = "RECEIVING" /\ loaded' = {} /\ Panel' = Panel
    BY DEF BeginAccepted, BeginFrame, NoTxn, Panel
  <1>2. Phase \in {"free", "loading"} /\ Promise!NotReading
    BY <1>1, PromiseFacts DEF Phase
  <1>3. Phase' = "loading" /\ Said' = "nothing"
    BY <1>1, NeutralSays DEF Phase
  <1>4. QED
    BY <1>1, <1>2, <1>3 DEF Promise!Next, Promise!Begin

LEMMA StartRefines ==
    ASSUME IInv, \/ \E len \in DataLengths : OnDirectStart(len)
                 \/ \E req \in PipeRequests : OnPipeStart(req)
    PROVE  Promise!Next
  <1>1. \A op \in {"DIRECT_START", "PIPE_START"} : Neutral(Failure(<<Nack(op)>>))
    BY NeutralReplies, NeutralFrames
  <1>2. \A w, a : Neutral(Reply(<<StartAck(w, a)>>, TRUE, FALSE))
    BY NeutralReplies, NeutralFrames
  <1>3. Neutral(Reply(<<Ack("DIRECT_START")>>, TRUE, FALSE))
    BY NeutralReplies, NeutralFrames
  <1>4. ASSUME NEW len \in DataLengths, OnDirectStart(len) PROVE Promise!Next
    <2>1. CASE Refuse(Failure(<<Nack("DIRECT_START")>>))
      BY <1>1, <2>1, RefuseIsQuiet DEF Promise!Next
    <2>2. CASE /\ BeginRefused(FullFrameBytes)
               /\ reply' = Failure(<<Nack("DIRECT_START")>>)
      BY <1>1, <2>2, BeginRefusedRefines
    <2>3. CASE /\ BeginAccepted("DIRECT", FullFrameBytes, 0, 0)
               /\ reply' = Reply(<<Ack("DIRECT_START")>>, TRUE, FALSE)
      BY <1>3, <2>3, BeginAcceptedRefines
    <2>4. QED
      BY <1>4, <2>1, <2>2, <2>3 DEF OnDirectStart
  <1>5. ASSUME NEW req \in PipeRequests, OnPipeStart(req) PROVE Promise!Next
    <2> DEFINE window == Lesser(req.req_window, MaxWindow)
               ack_every == Lesser(req.req_ack_every, MaxAckEvery)
    <2>1. CASE Refuse(Failure(<<Nack("PIPE_START")>>))
      BY <1>1, <2>1, RefuseIsQuiet DEF Promise!Next
    <2>2. CASE /\ BeginRefused(req.total_size)
               /\ reply' = Failure(<<Nack("PIPE_START")>>)
      BY <1>1, <2>2, BeginRefusedRefines
    <2>3. CASE /\ BeginAccepted("PIPE", req.total_size, window, ack_every)
               /\ reply' = Reply(<<StartAck(window, ack_every)>>, TRUE, FALSE)
      <3> HIDE DEF window, ack_every
      <3>1. QED
        BY <1>2, <2>3, BeginAcceptedRefines
    <2>4. QED
      BY <1>5, <2>1, <2>2, <2>3 DEF OnPipeStart
  <1>6. QED
    BY <1>4, <1>5

------------------------------------------------------------------------------
(* END and DATA *)

LEMMA FinishAndRefreshRefines ==
    ASSUME IInv, Grown, NEW t \in Transactions, NEW tail, NEW op \in {"DIRECT_END", "PIPE_END"},
           t.expected_frame_bytes = FullFrameBytes,
           loaded' = 0 .. t.accepted_bytes - 1,
           tail = <<>> \/ \E h, m : tail = <<Sack(h, m)>>,
           tail \in Seq(Frames),
           FinishAndRefresh(t, tail, op)
    PROVE  Promise!Next
  <1>1. /\ Neutral(Failure(Append(tail, Nack(op))))
        /\ reply' = Answer(Append(tail, Ack(op))) => Said' = "accepted"
    BY EndReplies
  <1>2. CASE Abort /\ reply' = Failure(Append(tail, Nack(op))) /\ UNCHANGED hw_owned
    BY <1>1, <1>2, AbortLoadingRefines
  <1>3. CASE /\ t.accepted_bytes = t.expected_frame_bytes
             /\ BeginRefresh
             /\ hw_owned' = TRUE
             /\ \E d \in ArmedDeadlines :
                   txn' = [t EXCEPT !.state = "REFRESHING", !.deadline = d]
             /\ reply' = Answer(Append(tail, Ack(op)))
    <2>1. txn'.state = "REFRESHING"
      BY <1>3 DEF Transactions
    <2>2. Phase = "loading" /\ Phase' = "showing"
      BY <2>1, PromiseFacts DEF Phase, Grown
    <2>3. Panel' = "reading" /\ loaded' = Promise!Whole
      BY <1>3 DEF BeginRefresh, Panel, Promise!Whole
    <2>4. QED
      BY <1>1, <1>3, <2>2, <2>3 DEF Promise!Next, Promise!Submit
  <1>4. QED
    BY <1>2, <1>3 DEF FinishAndRefresh, WholeFrame

LEMMA SackOfType == ASSUME NEW t \in Transactions PROVE <<SackOf(t)>> \in Seq(Frames)
  <1>1. SackOf(t) \in Frames
    BY ModestSackOf
  <1>2. QED
    BY <1>1

LEMMA OnDirectEndRefines == ASSUME IInv, OnDirectEnd PROVE Promise!Next
  <1>1. CASE Refuse(Answer(<<Nack("DIRECT_END")>>))
    BY <1>1, NeutralReplies, NeutralFrames, RefuseIsQuiet DEF Promise!Next
  <1>2. CASE Receiving("DIRECT") /\ FinishAndRefresh(txn, <<>>, "DIRECT_END") /\ UNCHANGED loaded
    <2>1. txn \in Transactions /\ txn.state = "RECEIVING" /\ <<>> \in Seq(Frames)
      BY <1>2 DEF Receiving, IInv, TypeOK
    <2>2. Grown
      BY <1>2, <2>1, SameIsGrown
    <2>3. txn.expected_frame_bytes = FullFrameBytes /\ loaded' = 0 .. txn.accepted_bytes - 1
      BY <1>2, <2>1, PromiseFacts
    <2>4. QED
      BY <1>2, <2>1, <2>2, <2>3, FinishAndRefreshRefines
  <1>3. QED
    BY <1>1, <1>2 DEF OnDirectEnd

LEMMA OnPipeEndRefines == ASSUME IInv, OnPipeEnd PROVE Promise!Next
  <1> DEFINE t == [txn EXCEPT !.accepted_since_ack = 0]
             tail == IF txn.accepted_since_ack # 0 THEN <<SackOf(txn)>> ELSE <<>>
  <1>1. CASE Refuse(Answer(<<Nack("PIPE_END")>>))
    BY <1>1, NeutralReplies, NeutralFrames, RefuseIsQuiet DEF Promise!Next
  <1>2. CASE Receiving("PIPE") /\ FinishAndRefresh(t, tail, "PIPE_END") /\ UNCHANGED loaded
    <2>1. txn \in Transactions /\ txn.state = "RECEIVING"
      BY <1>2 DEF Receiving, IInv, TypeOK
    <2>2. Grown
      BY <1>2, <2>1, SameIsGrown
    <2>3. /\ t \in Transactions
          /\ t.expected_frame_bytes = txn.expected_frame_bytes
          /\ t.accepted_bytes = txn.accepted_bytes
      BY <2>1 DEF Transactions
    <2>4. t.expected_frame_bytes = FullFrameBytes /\ loaded' = 0 .. t.accepted_bytes - 1
      BY <1>2, <2>1, <2>3, PromiseFacts
    <2>5. tail = <<>> \/ \E h, m : tail = <<Sack(h, m)>>
      BY DEF SackOf
    <2>6. tail \in Seq(Frames)
      BY <2>1, SackOfType
    <2> HIDE DEF t, tail
    <2>7. QED
      BY <1>2, <2>2, <2>3, <2>4, <2>5, <2>6, FinishAndRefreshRefines
  <1>3. QED
    BY <1>1, <1>2 DEF OnPipeEnd

(* write_contiguous at accepted_bytes is a growth of the framebuffer. *)
LEMMA WrittenIsGrown ==
    ASSUME IInv, txn.state = "RECEIVING", NEW len \in Nat, ~TooLong(len),
           loaded' = Written(txn.accepted_bytes, len)
    PROVE  Grown /\ loaded' = 0 .. txn.accepted_bytes + len - 1
  <1>1. /\ txn.accepted_bytes \in 0 .. FullFrameBytes
        /\ txn.expected_frame_bytes = FullFrameBytes
        /\ loaded = 0 .. txn.accepted_bytes - 1
    BY PromiseFacts
  <1>2. loaded' = 0 .. txn.accepted_bytes + len - 1
    BY <1>1, WrittenExtends
  <1>3. txn.accepted_bytes + len \in 0 .. FullFrameBytes
    BY <1>1 DEF TooLong
  <1> DEFINE n == txn.accepted_bytes + len
  <1>4. n \in 0 .. FullFrameBytes /\ loaded \subseteq 0 .. n - 1 /\ loaded' = 0 .. n - 1
    BY <1>1, <1>2, <1>3
  <1> HIDE DEF n
  <1>5. Grown
    BY <1>4 DEF Grown
  <1>6. QED
    BY <1>2, <1>5

LEMMA LoadRefines ==
    ASSUME IInv, Grown, txn'.state = "RECEIVING", Neutral(reply'),
           UNCHANGED <<hw_owned, driver, shown>>
    PROVE  Promise!Next
  <1>1. Phase = "loading" /\ Phase' = "loading" /\ Promise!NotReading
    BY PromiseFacts DEF Phase, Grown
  <1>2. Panel' = Panel
    BY DEF Panel
  <1>3. Said' = "nothing"
    BY NeutralSays
  <1>4. QED
    BY <1>1, <1>2, <1>3 DEF Promise!Next, Promise!Load, Promise!Grow, Grown

LEMMA OnDirectDataRefines ==
    ASSUME IInv, NEW len \in DataLengths, OnDirectData(len) PROVE Promise!Next
  <1>1. CASE Refuse(Answer(<<Nack("DIRECT_DATA")>>))
    BY <1>1, NeutralReplies, NeutralFrames, RefuseIsQuiet DEF Promise!Next
  <1>2. CASE AbortWith(Nack("DIRECT_DATA"))
    BY <1>2, NeutralFrames, AbortWithRefines
  <1>3. CASE /\ Receiving("DIRECT")
             /\ ~TooLong(len)
             /\ loaded' = Written(txn.next_direct_offset, len)
             /\ \E d \in ArmedDeadlines :
                   txn' = [txn EXCEPT !.next_direct_offset = @ + len,
                                      !.accepted_bytes = @ + len,
                                      !.deadline = d]
             /\ reply' = Answer(<<Ack("DIRECT_DATA")>>)
             /\ UNCHANGED <<hw_owned, connection_generation, driver, refresh_mark, shown>>
    <2>1. /\ txn \in Transactions /\ txn.state = "RECEIVING"
          /\ txn.next_direct_offset = txn.accepted_bytes
      BY <1>3 DEF Receiving, IInv, TypeOK, FrameAccounting
    <2>2. Grown
      BY <1>3, <2>1, WrittenIsGrown
    <2>3. txn'.state = "RECEIVING"
      BY <1>3, <2>1 DEF Transactions
    <2>4. Neutral(reply')
      BY <1>3, NeutralReplies, NeutralFrames
    <2>5. QED
      BY <1>3, <2>2, <2>3, <2>4, LoadRefines
  <1>4. QED
    BY <1>1, <1>2, <1>3 DEF OnDirectData

LEMMA InOrderPipeDataRefines ==
    ASSUME IInv, NEW payload \in PipePayloads, InOrderPipeData(payload)
    PROVE  Promise!Next
  <1> DEFINE seq == payload[1]
             len == payload[2]
  <1>1. Receiving("PIPE") /\ seq = txn.next_pipe_sequence /\ ~TooLong(len)
        /\ loaded' = Written(txn.accepted_bytes, len)
    BY DEF InOrderPipeData
  <1>2. len \in Nat
    BY DEF InOrderPipeData, PipePayloads
  <1>3. PICK d \in ArmedDeadlines : AfterChunk(WithChunk(seq, len, d))
    BY DEF InOrderPipeData
  <1>4. d \in Deadlines
    BY DEF ArmedDeadlines, Deadlines
  <1> DEFINE t == WithChunk(seq, len, d)
             u == [t EXCEPT !.accepted_since_ack = 0]
  <1> HIDE DEF seq, len
  <1>5. /\ t \in Transactions
        /\ t.state = "RECEIVING"
        /\ t.expected_frame_bytes = FullFrameBytes
        /\ t.accepted_bytes = txn.accepted_bytes + len
    BY <1>1, <1>2, <1>4, WithChunkType
  <1>6. Grown /\ loaded' = 0 .. txn.accepted_bytes + len - 1
    BY <1>1, <1>2, WrittenIsGrown DEF Receiving
  <1>7. Neutral(Answer(<<SackOf(t)>>)) /\ Neutral(Silence)
    BY NeutralReplies, NeutralFrames DEF SackOf
  <1> HIDE DEF t
  <1>8. /\ u \in Transactions /\ u.state = "RECEIVING"
        /\ u.expected_frame_bytes = FullFrameBytes
        /\ u.accepted_bytes = t.accepted_bytes
    BY <1>5 DEF Transactions
  <1> HIDE DEF u
  <1>9. CASE FinishAndRefresh(u, <<SackOf(t)>>, "PIPE_END")
    <2>1. txn.accepted_bytes \in Nat
      BY DEF IInv, TypeOK, Transactions
    <2>2. u.accepted_bytes = txn.accepted_bytes + len
      BY <1>5, <1>8
    <2>3. loaded' = 0 .. u.accepted_bytes - 1
      BY <1>2, <1>6, <2>1, <2>2
    <2>4. <<SackOf(t)>> \in Seq(Frames)
      BY <1>5, SackOfType
    <2>5. \E h, m : <<SackOf(t)>> = <<Sack(h, m)>>
      BY DEF SackOf
    <2>6. QED
      BY <1>6, <1>8, <1>9, <2>3, <2>4, <2>5, FinishAndRefreshRefines
  <1>10. CASE /\ txn' = u \/ txn' = t
              /\ Neutral(reply')
              /\ UNCHANGED <<hw_owned, connection_generation, driver, refresh_mark, shown>>
    BY <1>5, <1>6, <1>8, <1>10, LoadRefines
  <1>11. AfterChunk(t)
    BY <1>3 DEF t
  <1>12. QED
    BY <1>7, <1>9, <1>10, <1>11 DEF AfterChunk, u

LEMMA OnPipeDataRefines ==
    ASSUME IInv, NEW payload \in PipePayloads, OnPipeData(payload) PROVE Promise!Next
  <1>1. CASE Refuse(Silence)
    BY <1>1, NeutralReplies, RefuseIsQuiet DEF Promise!Next
  <1>2. CASE StrayPipeData
    <2>1. Neutral(reply')
      BY <1>2, NeutralReplies, NeutralFrames DEF StrayPipeData
    <2>2. txn'.state = txn.state
      BY <1>2 DEF StrayPipeData, IInv, TypeOK, Transactions
    <2>3. Phase' = Phase /\ Panel' = Panel /\ loaded' = loaded
      BY <1>2, <2>2 DEF StrayPipeData, backendVars, Phase, Panel
    <2>4. QED
      BY <2>1, <2>3, QuietStep DEF Promise!Next
  <1>3. CASE BadPipeData(payload)
    BY <1>3, NeutralFrames, AbortWithRefines DEF BadPipeData
  <1>4. CASE OutOfOrderPipeData(payload)
    <2>1. Neutral(Answer(<<SackOf(txn)>>))
      BY NeutralReplies, NeutralFrames DEF SackOf
    <2>2. QED
      BY <1>4, <2>1, RefuseIsQuiet DEF OutOfOrderPipeData, Promise!Next
  <1>5. CASE InOrderPipeData(payload)
    BY <1>5, InOrderPipeDataRefines
  <1>6. QED
    BY <1>1, <1>2, <1>3, <1>4, <1>5 DEF OnPipeData

------------------------------------------------------------------------------
(* tick() and the calls from elsewhere *)

LEMMA TickRefines == ASSUME IInv, Tick PROVE Promise!Next
  <1>1. CASE TickReleases
    <2>1. /\ hw_owned /\ PollRefresh # "PENDING" /\ ~hw_owned'
          /\ UNCHANGED <<driver, loaded, shown>>
      BY <1>1 DEF TickReleases, PollEnds
    <2>2. driver \in DriverStates
      BY DEF IInv, TypeOK, BackendTypeOK
    <2>3. Panel' = Panel /\ Promise!NotReading
      BY <2>1, <2>2 DEF Panel, Promise!NotReading, PollRefresh, IsIdle
    <2>4. ObservesCompletion /\ PollRefresh = "COMPLETE" => Panel = "shown"
      BY <2>1, <2>2 DEF PollRefresh, IsIdle, IInv, PanelInvariant, Panel
    <2>5. txn.state # "RECEIVING"
      BY <2>1, PromiseFacts
    <2>6. CASE txn.state = "REFRESHING" /\ PollRefresh = "COMPLETE"
      <3>1. txn'.state = "IDLE" /\ reply'.frames = <<RefreshSuccess>>
        BY <1>1, <2>6 DEF TickReleases, NoTxn, Answer, Reply
      <3>2. Phase = "showing" /\ Phase' = "free"
        BY <2>1, <2>6, <3>1 DEF Phase
      <3>3. Said' = "complete"
        BY <3>1 DEF Said, Says, RefreshSuccess, Ack
      <3>4. QED
        BY <2>1, <2>3, <2>4, <2>6, <3>2, <3>3 DEF Promise!Next, Promise!Confirm
    <2>7. CASE ~(txn.state = "REFRESHING" /\ PollRefresh = "COMPLETE")
      <3>1. Neutral(reply') /\ txn'.state = "IDLE"
        BY <1>1, <2>5, <2>7, NeutralReplies, PromiseFacts DEF TickReleases, NoTxn
      <3>2. Phase \in {"showing", "held"} /\ Phase' = "free"
        BY <2>1, <2>5, <3>1 DEF Phase
      <3>3. QED
        BY <2>1, <2>3, <3>1, <3>2, NeutralSays DEF Promise!Next, Promise!GiveUp
    <2>8. QED
      BY <2>6, <2>7
  <1>2. CASE TickExpires
    <2>1. Abort /\ hw_owned' = hw_owned /\ loaded' = loaded
      BY <1>2 DEF TickExpires
    <2>2. CASE txn.state = "REFRESHING"
      <3>1. reply'.frames = <<RefreshTimeout>>
        BY <1>2, <2>2 DEF TickExpires, Answer, Reply
      <3>2. Said' = "timeout"
        BY <3>1 DEF Said, Says, RefreshSuccess, RefreshTimeout, Ack
      <3>3. QED
        BY <2>1, <2>2, <3>2, AbortShowingRefines
    <2>3. CASE txn.state # "REFRESHING"
      <3>1. Neutral(reply')
        BY <1>2, <2>3, NeutralReplies DEF TickExpires
      <3>2. QED
        BY <2>1, <3>1, AbortRefines
    <2>4. QED
      BY <2>2, <2>3
  <1>3. CASE TickIdles
    BY <1>3, NeutralReplies, RefuseIsQuiet DEF TickIdles, Promise!Next
  <1>4. QED
    BY <1>1, <1>2, <1>3 DEF Tick

LEMMA OtherCallRefines ==
    ASSUME IInv, \/ \E generation \in 0 .. MaxGeneration : OnDisconnect(generation)
                 \/ LocalAbort
    PROVE  Promise!Next
  <1>1. /\ Abort /\ reply' = Silence
        /\ UNCHANGED <<hw_owned, connection_generation, loaded>>
    BY DEF OnDisconnect, LocalAbort
  <1>2. QED
    BY <1>1, NeutralReplies, AbortRefines

LEMMA UnheardStep ==
    ASSUME IInv, SetConnectionGeneration \/ DeadlinePasses PROVE UNCHANGED promiseVars
  <1>1. txn'.state = txn.state
    BY DEF SetConnectionGeneration, DeadlinePasses, IInv, TypeOK, Transactions
  <1>2. UNCHANGED <<hw_owned, reply, driver, loaded, shown>>
    BY DEF SetConnectionGeneration, DeadlinePasses, backendVars
  <1>3. QED
    BY <1>1, <1>2 DEF promiseVars, Phase, Panel, Said, Says

LEMMA EnvironmentRefines ==
    ASSUME IInv, EnvironmentStep PROVE Promise!Next \/ UNCHANGED promiseVars
  <1>1. UNCHANGED <<txn, hw_owned, connection_generation, reply>> /\ loaded' = loaded
    BY DEF EnvironmentStep, engineVars, DriverFinishes, DriverFails, LocalUpdate, SettlePasses
  <1>2. Phase' = Phase /\ Said' = Said
    BY <1>1 DEF Phase, Said, Says
  <1>3. CASE (DriverFinishes \/ DriverFails) /\ driver = "ours"
    <2>1. Panel = "reading" /\ Panel' \in {"shown", "still"}
      BY <1>3 DEF DriverFinishes, DriverFails, Panel
    <2>2. ObservesCompletion => loaded = Promise!Whole
      BY <1>3 DEF IInv, PanelInvariant, FrameOffsets, Promise!Whole
    <2>3. QED
      BY <1>1, <1>2, <2>1, <2>2 DEF Promise!Next, Promise!Appear
  <1>4. CASE ~((DriverFinishes \/ DriverFails) /\ driver = "ours")
    <2>1. driver' = "ours" <=> driver = "ours"
      BY <1>4 DEF EnvironmentStep, DriverFinishes, DriverFails, LocalUpdate, SettlePasses,
         IsIdle
    <2>2. driver # "ours" => (shown' <=> shown)
      BY <1>4, Zenon DEF EnvironmentStep, DriverFinishes, DriverFails, LocalUpdate, SettlePasses
    <2>3. Panel' = Panel
      BY <2>1, <2>2 DEF Panel
    <2>4. QED
      BY <1>1, <1>2, <2>3 DEF promiseVars
  <1>5. QED
    BY <1>3, <1>4

------------------------------------------------------------------------------
LEMMA InitRefines == Init => Promise!Init
  <1> SUFFICES ASSUME Init PROVE Promise!Init
    OBVIOUS
  <1>1. Phase = "free" /\ Panel = "still" /\ loaded = {}
    BY DEF Init, BackendInit, NoTxn, Phase, Panel
  <1>2. Said = "nothing"
    BY DEF Init, Silence, Answer, Reply, Said, Says
  <1>3. QED
    BY <1>1, <1>2 DEF Promise!Init

LEMMA StepRefines == IInv /\ [Next]_vars => [Promise!Next]_promiseVars
  <1> SUFFICES ASSUME IInv, [Next]_vars PROVE Promise!Next \/ UNCHANGED promiseVars
    OBVIOUS
  <1>1. CASE ClientStep
    BY <1>1, StartRefines, OnDirectDataRefines, OnDirectEndRefines, OnPipeDataRefines,
       OnPipeEndRefines DEF ClientStep
  <1>2. CASE Tick
    BY <1>2, TickRefines
  <1>3. CASE (\E generation \in 0 .. MaxGeneration : OnDisconnect(generation)) \/ LocalAbort
    BY <1>3, OtherCallRefines
  <1>4. CASE SetConnectionGeneration \/ DeadlinePasses
    BY <1>4, UnheardStep
  <1>5. CASE EnvironmentStep
    BY <1>5, EnvironmentRefines
  <1>6. CASE UNCHANGED vars
    BY <1>6 DEF vars, promiseVars, Phase, Panel, Said, Says
  <1>7. QED
    BY <1>1, <1>2, <1>3, <1>4, <1>5, <1>6 DEF Next

(* Whatever a client, the driver and the clock do, what the engine does to the    *)
(* panel and reports of it is a behaviour of the abstract panel update.           *)
THEOREM Refinement == Spec => ImplementsPromise
  <1>1. QED
    BY InitRefines, StepRefines, Invariance, PTL
       DEF Spec, ImplementsPromise, Promise!Spec, promiseVars

==============================================================================
