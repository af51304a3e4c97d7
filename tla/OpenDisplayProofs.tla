-------------------------- MODULE OpenDisplayProofs --------------------------
(***************************************************************************)
(* The component drives the engine the way the engine's module says it is  *)
(* driven, so that what is proved of the engine holds inside of it; and a  *)
(* client that has gone is forgotten.                                      *)
(***************************************************************************)
EXTENDS OpenDisplay, TransferEngineProofs, ProtocolProofs

------------------------------------------------------------------------------
(* What the component's steps do to the engine. *)

(* The part of ComponentTypeOK that bounds what reaches the engine.            *)
LinkInv ==
    /\ session \in 0 .. MaxGeneration
    /\ linking \in {"no", "connected", "counted"}
    /\ linking = "connected" => session < MaxGeneration
    /\ rx \in Seq([session : 0 .. MaxGeneration, command : Commands])
    /\ Len(rx) < RxSlots

LEMMA LinkInvInit == ComponentInit => LinkInv
  BY ComponentAssumption, EngineAssumption DEF ComponentInit, LinkInv

LEMMA OneMorePacket ==
    ASSUME LinkInv, NEW c \in Commands, OnBleWrite(c)
    PROVE  LinkInv'
  <1>1. [session |-> session, command |-> c] \in [session : 0 .. MaxGeneration, command : Commands]
    BY DEF LinkInv
  <1>2. CASE Len(rx) < RxSlots - 1
    <2>1. rx' = Append(rx, [session |-> session, command |-> c])
      BY <1>2 DEF OnBleWrite
    <2>2. Len(rx') = Len(rx) + 1 /\ rx' \in Seq([session : 0 .. MaxGeneration, command : Commands])
      BY <1>1, <2>1 DEF LinkInv
    <2>3. Len(rx') < RxSlots
      BY <1>2, <2>2, ComponentAssumption DEF LinkInv
    <2>4. QED
      BY <2>2, <2>3 DEF OnBleWrite, LinkInv
  <1>3. CASE ~(Len(rx) < RxSlots - 1)
    BY <1>3 DEF OnBleWrite, LinkInv
  <1>4. QED
    BY <1>2, <1>3

LEMMA HeadTyped == ASSUME NEW S, NEW q \in Seq(S), q # <<>> PROVE Head(q) \in S
  OBVIOUS

LEMMA OnePacketLess ==
    ASSUME LinkInv, NEW status \in MsdStatuses, HandlePacket(status)
    PROVE  LinkInv'
  <1>1. rx # <<>> /\ rx' = Tail(rx)
    BY DEF HandlePacket
  <1>2. rx' \in Seq([session : 0 .. MaxGeneration, command : Commands]) /\ Len(rx') = Len(rx) - 1
    BY <1>1 DEF LinkInv
  <1>3. QED
    BY <1>2, ComponentAssumption DEF HandlePacket, LinkInv

LEMMA LinkStep == LinkInv /\ [ComponentNext]_allVars => LinkInv'
  <1> SUFFICES ASSUME LinkInv, [ComponentNext]_allVars
               PROVE  LinkInv'
    OBVIOUS
  <1>1. CASE ClientWrites
    BY <1>1, OneMorePacket DEF ClientWrites
  <1>2. CASE OnBleConnect
    BY <1>2 DEF OnBleConnect, LinkInv
  <1>3. CASE CountConnection
    BY <1>3, EngineAssumption DEF CountConnection, LinkInv
  <1>4. CASE TellEngine
    BY <1>4 DEF TellEngine, LinkInv
  <1>5. CASE OnBleDisconnect
    BY <1>5 DEF OnBleDisconnect, LinkInv
  <1>6. CASE LoopStarts
    BY <1>6 DEF LoopStarts, LinkInv
  <1>7. CASE \E status \in MsdStatuses : HandlePacket(status)
    BY <1>7, OnePacketLess
  <1>8. CASE PacketsHandled
    BY <1>8 DEF PacketsHandled, LinkInv
  <1>9. CASE LoopTicks
    BY <1>9 DEF LoopTicks, LinkInv
  <1>10. CASE LoopDrains
    BY <1>10 DEF LoopDrains, LinkInv
  <1>11. CASE UNCHANGED componentVars
    BY <1>11 DEF componentVars, LinkInv
  <1>12. QED
    BY <1>1, <1>2, <1>3, <1>4, <1>5, <1>6, <1>7, <1>8, <1>9, <1>10, <1>11
       DEF ComponentNext, Ble, Loop, AbortAction, allVars, componentVars

LEMMA LinkInvHolds == ComponentSpec => []LinkInv
  BY LinkInvInit, LinkStep, PTL DEF ComponentSpec

(* handle_packet_ calls the engine with a client's command or not at all.       *)
LEMMA PacketIsClientStep ==
    ASSUME LinkInv, NEW status \in MsdStatuses, HandlePacket(status)
    PROVE  \/ UNCHANGED vars
           \/ /\ ClientStep
              /\ Head(rx).session = session
  <1>1. rx # <<>> /\ Head(rx) \in [session : 0 .. MaxGeneration, command : Commands]
    <2>1. rx # <<>>
      BY DEF HandlePacket
    <2>2. QED
      BY <2>1, HeadTyped DEF LinkInv
  <1>2. Head(rx).command \in Commands
    BY <1>1
  <1> DEFINE c == Head(rx).command
  <1>3. CASE Head(rx).session = session /\ HandleCommand(c)
    <2>1. /\ c.op \in {"DIRECT_START", "DIRECT_DATA"} => c.length \in DataLengths
          /\ c.op = "PIPE_START" => c.request \in PipeRequests
          /\ c.op = "PIPE_DATA" => c.payload \in PipePayloads
      BY <1>2, CommandAssumption
    <2> HIDE DEF c
    <2>2. QED
      BY <1>3, <2>1 DEF HandleCommand, ClientStep
  <1>4. CASE Head(rx).session = session /\ HandleQuery(c, status)
    BY <1>4 DEF HandleQuery
  <1>5. CASE Head(rx).session # session
    BY <1>5 DEF HandlePacket, vars
  <1>6. QED
    BY <1>3, <1>4, <1>5 DEF HandlePacket, HandleOwnPacket

(* Every step of the component is a step of the engine or none.                 *)
LEMMA EngineStep == LinkInv /\ [ComponentNext]_allVars => [Next]_vars
  <1> SUFFICES ASSUME LinkInv, [ComponentNext]_allVars
               PROVE  [Next]_vars
    OBVIOUS
  <1>1. CASE ClientWrites
    BY <1>1 DEF ClientWrites, OnBleWrite
  <1>2. CASE OnBleConnect \/ CountConnection \/ OnBleDisconnect \/ PacketsHandled \/ LoopDrains
    BY <1>2 DEF OnBleConnect, CountConnection, OnBleDisconnect, PacketsHandled, LoopDrains
  <1>3. CASE TellEngine
    BY <1>3 DEF TellEngine, Next
  <1>4. CASE LoopStarts
    BY <1>4 DEF LoopStarts, LinkInv, Next
  <1>5. CASE \E status \in MsdStatuses : HandlePacket(status)
    BY <1>5, PacketIsClientStep DEF Next
  <1>6. CASE LoopTicks
    BY <1>6 DEF LoopTicks, Next
  <1>7. CASE AbortAction \/ ((DeadlinePasses \/ EnvironmentStep) /\ UNCHANGED componentVars)
    BY <1>7 DEF AbortAction, Next
  <1>8. CASE UNCHANGED allVars
    BY <1>8 DEF allVars
  <1>9. QED
    BY <1>1, <1>2, <1>3, <1>4, <1>5, <1>6, <1>7, <1>8 DEF ComponentNext, Ble, Loop

(* Inside of the component the engine behaves as its own module says, whatever     *)
(* the queues, the callbacks and the packets of earlier clients do to its calls.   *)
THEOREM ComponentDrivesEngine == ComponentSpec => Spec
  <1>1. ComponentInit => Init
    BY DEF ComponentInit
  <1>2. QED
    BY <1>1, LinkInvHolds, EngineStep, PTL DEF ComponentSpec, Spec

(* So the frame is accounted for, and the panel is held while it is refreshed,     *)
(* in the whole component, over any number of connections (loop, handle_packet_).  *)
THEOREM ComponentKeepsPromises == ComponentSpec => [](FrameAccounting /\ PanelHeld /\ SuccessMeansShown)
  BY ComponentDrivesEngine, FrameAccountingHolds, PanelHeldHolds, SuccessMeansShownHolds, PTL

LEMMA EngineInvHolds == ComponentSpec => []IInv
  BY ComponentDrivesEngine, Invariance, PTL

------------------------------------------------------------------------------
(* Whose transfer it is. *)

(* An open transfer after a call: it was open before, or the call began it.     *)
Begun == txn'.state = "RECEIVING" => txn'.generation = connection_generation
Kept ==
    txn'.state = "RECEIVING" =>
        txn.state = "RECEIVING" /\ txn'.generation = txn.generation

LEMMA AbortKeeps == ASSUME Abort PROVE Kept
  BY DEF Abort, NoTxn, Kept

LEMMA BeginRefusedKeeps == ASSUME NEW total, BeginRefused(total) PROVE Kept
  BY AbortKeeps DEF BeginRefused, Kept

LEMMA BeginAcceptedBegins ==
    ASSUME NEW mode, NEW total, NEW window, NEW ack_every,
           BeginAccepted(mode, total, window, ack_every)
    PROVE  Begun /\ loaded' = {}
  BY DEF BeginAccepted, NoTxn, Begun, BeginFrame

LEMMA FinishKeeps ==
    ASSUME NEW t, NEW tail, NEW op, FinishAndRefresh(t, tail, op),
           t \in Transactions
    PROVE  Kept
  <1>1. CASE Abort
    BY <1>1, AbortKeeps
  <1>2. CASE \E d \in ArmedDeadlines : txn' = [t EXCEPT !.state = "REFRESHING", !.deadline = d]
    BY <1>2 DEF Transactions, Kept
  <1>3. QED
    BY <1>1, <1>2 DEF FinishAndRefresh

LEMMA AfterChunkKeeps ==
    ASSUME NEW t \in Transactions, AfterChunk(t),
           txn.state = "RECEIVING", t.generation = txn.generation
    PROVE  Kept
  <1>1. [t EXCEPT !.accepted_since_ack = 0] \in Transactions
    BY EngineAssumption DEF Transactions
  <1>2. [t EXCEPT !.accepted_since_ack = 0].generation = txn.generation
    BY DEF Transactions
  <1>3. CASE \E tail, op : FinishAndRefresh([t EXCEPT !.accepted_since_ack = 0], tail, op)
    BY <1>1, <1>3, FinishKeeps
  <1>4. CASE txn' = t \/ txn' = [t EXCEPT !.accepted_since_ack = 0]
    BY <1>2, <1>4 DEF Kept
  <1>5. QED
    BY <1>3, <1>4 DEF AfterChunk

LEMMA InOrderKeeps ==
    ASSUME IInv, NEW payload \in PipePayloads, InOrderPipeData(payload)
    PROVE  Kept
  <1> DEFINE seq == payload[1]
             len == payload[2]
  <1>1. Receiving("PIPE") /\ seq = txn.next_pipe_sequence /\ ~TooLong(len) /\ len \in Nat
    BY EngineAssumption DEF InOrderPipeData, PipePayloads
  <1>2. PICK d \in ArmedDeadlines : AfterChunk(WithChunk(seq, len, d))
    BY DEF InOrderPipeData
  <1>3. d \in Deadlines
    BY DEF ArmedDeadlines, Deadlines
  <1> HIDE DEF seq, len
  <1>4. WithChunk(seq, len, d) \in Transactions
    BY <1>1, <1>3, WithChunkType
  <1>5. txn \in Transactions /\ txn.state = "RECEIVING"
    BY <1>1 DEF IInv, TypeOK, Receiving
  <1>6. WithChunk(seq, len, d).generation = txn.generation
    BY <1>5 DEF WithChunk, Transactions
  <1>7. QED
    BY <1>2, <1>4, <1>5, <1>6, AfterChunkKeeps

LEMMA PipeDataKeeps ==
    ASSUME IInv, NEW payload \in PipePayloads, OnPipeData(payload)
    PROVE  Kept /\ (loaded' # loaded => txn.state = "RECEIVING")
  <1>1. txn \in Transactions
    BY DEF IInv, TypeOK
  <1>2. CASE Refuse(Silence)
    BY <1>2 DEF Refuse, Kept, backendVars
  <1>3. CASE StrayPipeData
    BY <1>1, <1>3 DEF StrayPipeData, Kept, backendVars, Transactions
  <1>4. CASE BadPipeData(payload)
    BY <1>4, AbortKeeps DEF BadPipeData, AbortWith, Receiving
  <1>5. CASE OutOfOrderPipeData(payload)
    BY <1>5 DEF OutOfOrderPipeData, Refuse, Kept, backendVars
  <1>6. CASE InOrderPipeData(payload)
    BY <1>6, InOrderKeeps DEF InOrderPipeData, Receiving
  <1>7. QED
    BY <1>2, <1>3, <1>4, <1>5, <1>6 DEF OnPipeData

LEMMA DirectDataKeeps ==
    ASSUME IInv, NEW len, OnDirectData(len)
    PROVE  Kept /\ (loaded' # loaded => txn.state = "RECEIVING")
  <1>1. txn \in Transactions
    BY DEF IInv, TypeOK
  <1>2. CASE Refuse(Answer(<<Nack("DIRECT_DATA")>>))
    BY <1>2 DEF Refuse, Kept, backendVars
  <1>3. CASE Receiving("DIRECT") /\ AbortWith(Nack("DIRECT_DATA"))
    BY <1>3, AbortKeeps DEF AbortWith, Receiving
  <1>4. ASSUME Receiving("DIRECT"), NEW d,
               txn' = [txn EXCEPT !.next_direct_offset = @ + len, !.accepted_bytes = @ + len,
                                  !.deadline = d]
        PROVE  Kept /\ txn.state = "RECEIVING"
    BY <1>1, <1>4 DEF Kept, Receiving, Transactions
  <1>5. QED
    BY <1>2, <1>3, <1>4 DEF OnDirectData

LEMMA EndKeeps ==
    ASSUME IInv, OnDirectEnd \/ OnPipeEnd
    PROVE  Kept /\ loaded' = loaded
  <1>1. txn \in Transactions /\ [txn EXCEPT !.accepted_since_ack = 0] \in Transactions
    <2>1. txn \in Transactions
      BY DEF IInv, TypeOK
    <2>2. QED
      BY <2>1, EngineAssumption DEF Transactions
  <1>2. ASSUME NEW r, Refuse(r) PROVE Kept /\ loaded' = loaded
    BY <1>2 DEF Refuse, Kept, backendVars
  <1>3. CASE OnDirectEnd
    BY <1>1, <1>2, <1>3, FinishKeeps DEF OnDirectEnd
  <1>4. CASE OnPipeEnd
    BY <1>1, <1>2, <1>4, FinishKeeps DEF OnPipeEnd
  <1>5. QED
    BY <1>3, <1>4

(* A START opens a transfer of the connection that is counted now.              *)
LEMMA StartBegins ==
    ASSUME (\E len \in DataLengths : OnDirectStart(len)) \/ (\E req \in PipeRequests : OnPipeStart(req))
    PROVE  (Kept \/ Begun) /\ (loaded' = loaded \/ loaded' = {})
  <1>1. ASSUME NEW r, Refuse(r) PROVE Kept /\ loaded' = loaded
    BY <1>1 DEF Refuse, Kept, backendVars
  <1>2. ASSUME NEW total, BeginRefused(total) PROVE Kept /\ loaded' = loaded
    BY <1>2, BeginRefusedKeeps DEF BeginRefused
  <1>3. CASE \E len \in DataLengths : OnDirectStart(len)
    BY <1>1, <1>2, <1>3, BeginAcceptedBegins DEF OnDirectStart
  <1>4. CASE \E req \in PipeRequests : OnPipeStart(req)
    BY <1>1, <1>2, <1>4, BeginAcceptedBegins DEF OnPipeStart
  <1>5. QED
    BY <1>3, <1>4

(* What a client's command does to the frame of the connection it is from.       *)
LEMMA ClientStepKeeps ==
    ASSUME IInv, ClientStep
    PROVE  /\ Kept \/ Begun
           /\ connection_generation' = connection_generation
           /\ loaded' # loaded /\ loaded' # {} => txn.state = "RECEIVING"
  <1>1. connection_generation' = connection_generation
    BY DEF ClientStep, OnDirectStart, OnDirectData, OnDirectEnd, OnPipeStart, OnPipeData, OnPipeEnd,
           Refuse, AbortWith, BeginRefused, BeginAccepted, FinishAndRefresh, StrayPipeData,
           BadPipeData, OutOfOrderPipeData, InOrderPipeData, AfterChunk
  <1>2. QED
    BY <1>1, StartBegins, DirectDataKeeps, EndKeeps, PipeDataKeeps DEF ClientStep

(* The tick, a disconnect, an abort and the panel open no transfer.               *)
LEMMA OthersKeep ==
    ASSUME IInv,
           \/ Tick \/ OnDisconnect(session) \/ LocalAbort \/ DeadlinePasses \/ EnvironmentStep
           \/ UNCHANGED vars
    PROVE  Kept /\ connection_generation' = connection_generation
  <1>1. txn \in Transactions
    BY DEF IInv, TypeOK
  <1>2. CASE Tick
    BY <1>2, AbortKeeps
       DEF Tick, TickReleases, TickExpires, TickIdles, Refuse, Kept, NoTxn
  <1>3. CASE OnDisconnect(session) \/ LocalAbort
    BY <1>3, AbortKeeps DEF OnDisconnect, LocalAbort
  <1>4. CASE DeadlinePasses
    BY <1>1, <1>4 DEF DeadlinePasses, Kept, Transactions
  <1>5. CASE EnvironmentStep \/ UNCHANGED vars
    BY <1>5 DEF EnvironmentStep, engineVars, vars, Kept
  <1>6. QED
    BY <1>2, <1>3, <1>4, <1>5

------------------------------------------------------------------------------
(* The two connection counters, which a connect moves one after the other.      *)
CountersInv ==
    /\ connection_generation = IF linking = "counted" THEN session - 1 ELSE session
    /\ linking # "no" => connected

LEMMA CountersStep ==
    LinkInv /\ IInv /\ CountersInv /\ [ComponentNext]_allVars => CountersInv'
  <1> SUFFICES ASSUME LinkInv, IInv, CountersInv, [ComponentNext]_allVars
               PROVE  CountersInv'
    OBVIOUS
  <1> USE DEF CountersInv
  <1>t. session \in 0 .. MaxGeneration /\ MaxGeneration \in Nat
    BY EngineAssumption DEF LinkInv
  <1>1. CASE ClientWrites
    BY <1>1 DEF ClientWrites, OnBleWrite, vars
  <1>2. CASE OnBleConnect
    BY <1>2 DEF OnBleConnect, vars
  <1>3. CASE CountConnection
    BY <1>3, <1>t DEF CountConnection, vars
  <1>4. CASE TellEngine
    BY <1>4, <1>t DEF TellEngine, SetConnectionGeneration
  <1>5. CASE OnBleDisconnect
    BY <1>5 DEF OnBleDisconnect, vars
  <1>6. CASE LoopStarts
    BY <1>6, OthersKeep DEF LoopStarts
  <1>7. ASSUME NEW status \in MsdStatuses, HandlePacket(status)
        PROVE  CountersInv'
    <2>1. UNCHANGED <<connected, linking, session>>
      BY <1>7 DEF HandlePacket
    <2>2. connection_generation' = connection_generation
      BY <1>7, PacketIsClientStep, ClientStepKeeps DEF vars
    <2>3. QED
      BY <2>1, <2>2
  <1>8. CASE PacketsHandled \/ LoopDrains
    BY <1>8 DEF PacketsHandled, LoopDrains, vars
  <1>9. CASE LoopTicks
    BY <1>9, OthersKeep DEF LoopTicks
  <1>10. CASE AbortAction \/ ((DeadlinePasses \/ EnvironmentStep) /\ UNCHANGED componentVars)
    BY <1>10, OthersKeep DEF AbortAction, componentVars
  <1>11. CASE UNCHANGED allVars
    BY <1>11 DEF allVars, vars, componentVars
  <1>12. QED
    BY <1>1, <1>2, <1>3, <1>4, <1>5, <1>6, <1>7, <1>8, <1>9, <1>10, <1>11
       DEF ComponentNext, Ble, Loop

LEMMA CountersHold == ComponentSpec => []CountersInv
  <1>1. ComponentInit => CountersInv
    BY DEF ComponentInit, Init, CountersInv
  <1>2. QED
    BY <1>1, CountersStep, LinkInvHolds, EngineInvHolds, PTL DEF ComponentSpec

(* Where loop() has seen the last link go down before the next one comes up, an *)
(* open transfer belongs to the client that is connected, and nothing is open   *)
(* or queued while a link comes up.                                             *)
ForgetInv ==
    /\ txn.state = "RECEIVING" => linking = "no" /\ txn.generation = session
    /\ (noticed /\ ~connected) \/ linking # "no" => rx = <<>> /\ txn.state # "RECEIVING"

LEMMA ForgetStep ==
    ASSUME PromptLoop, LinkInv, IInv, CountersInv, ForgetInv, [ComponentNext]_allVars
    PROVE  ForgetInv'
  <1> USE DEF ForgetInv
  <1>1. CASE ClientWrites
    <2>1. connected /\ linking = "no" /\ UNCHANGED <<connected, linking, session, noticed>>
      BY <1>1 DEF ClientWrites, OnBleWrite
    <2>2. UNCHANGED vars
      BY <1>1 DEF ClientWrites, OnBleWrite
    <2>3. QED
      BY <2>1, <2>2 DEF vars
  <1>2. CASE OnBleConnect
    BY <1>2 DEF OnBleConnect, vars
  <1>3. CASE CountConnection
    BY <1>3 DEF CountConnection, vars
  <1>4. CASE TellEngine
    BY <1>4 DEF TellEngine, SetConnectionGeneration, CountersInv
  <1>5. CASE OnBleDisconnect
    BY <1>5 DEF OnBleDisconnect, vars
  <1>6. CASE LoopStarts
    <2>1. Kept /\ UNCHANGED <<connected, linking, session, rx>>
      BY <1>6, OthersKeep DEF LoopStarts
    <2>2. noticed' = (~connected /\ rx = <<>>)
      BY <1>6 DEF LoopStarts
    <2>3. CASE connected
      BY <2>1, <2>2, <2>3 DEF Kept
    <2>4. CASE ~connected
      <3>1. txn'.state # "RECEIVING"
        BY <1>6, <2>4, AbortKeeps
           DEF LoopStarts, DisconnectEnds, OnDisconnect, Abort, NoTxn, vars
      <3>2. linking = "no"
        BY <2>4 DEF CountersInv
      <3>3. QED
        BY <2>1, <2>2, <3>1, <3>2
    <2>5. QED
      BY <2>3, <2>4
  <1>7. ASSUME NEW status \in MsdStatuses, HandlePacket(status)
        PROVE  ForgetInv'
    <2>1. rx # <<>> /\ UNCHANGED <<connected, linking, session, noticed>>
      BY <1>7 DEF HandlePacket
    <2>2. linking = "no" /\ ~(noticed /\ ~connected)
      BY <2>1
    <2>3. connection_generation = session
      BY <2>2 DEF CountersInv
    <2>4. txn'.state = "RECEIVING" => txn'.generation = session
      BY <1>7, <2>3, PacketIsClientStep, ClientStepKeeps DEF vars, Kept, Begun
    <2>5. QED
      BY <2>1, <2>2, <2>4
  <1>8. CASE PacketsHandled \/ LoopDrains
    BY <1>8 DEF PacketsHandled, LoopDrains, vars
  <1>9. CASE LoopTicks
    BY <1>9, OthersKeep DEF LoopTicks, Kept
  <1>10. CASE AbortAction \/ ((DeadlinePasses \/ EnvironmentStep) /\ UNCHANGED componentVars)
    BY <1>10, OthersKeep DEF AbortAction, componentVars, Kept
  <1>11. CASE UNCHANGED allVars
    BY <1>11 DEF allVars, vars, componentVars
  <1>12. QED
    BY <1>1, <1>2, <1>3, <1>4, <1>5, <1>6, <1>7, <1>8, <1>9, <1>10, <1>11
       DEF ComponentNext, Ble, Loop

LEMMA ForgetHolds == ComponentSpec => [](PromptLoop => ForgetInv)
  <1> DEFINE Inv == PromptLoop => ForgetInv
  <1>1. ComponentInit => Inv
    BY DEF ComponentInit, Init, NoTxn, ForgetInv
  <1>2. LinkInv /\ IInv /\ CountersInv /\ Inv /\ [ComponentNext]_allVars => Inv'
    BY ForgetStep
  <1> HIDE DEF Inv
  <1>3. ComponentSpec => []Inv
    BY <1>1, <1>2, LinkInvHolds, EngineInvHolds, CountersHold, PTL DEF ComponentSpec
  <1>4. QED
    BY <1>3 DEF Inv

(* A client that has gone leaves no transfer behind, over any number of             *)
(* connections and packets, provided that loop() sees every disconnect before the   *)
(* next connect; the run mixed_clients shows what happens where it does not.        *)
THEOREM GoneClientForgottenHolds == ComponentSpec => [](PromptLoop => GoneClientForgotten)
  <1>1. (PromptLoop => ForgetInv) => (PromptLoop => GoneClientForgotten)
    BY DEF ForgetInv, GoneClientForgotten
  <1>2. QED
    BY <1>1, ForgetHolds, PTL

(* On the same condition a frame is written by the client that began it, and by     *)
(* nobody else (loop(), handle_packet_).                                            *)
THEOREM FrameFromOneClientHolds == PromptLoop => (ComponentSpec => FrameFromOneClient)
  <1> SUFFICES ASSUME PromptLoop
               PROVE  ComponentSpec => FrameFromOneClient
    OBVIOUS
  <1> DEFINE OwnData ==
                stage = "packets" /\ popped' # popped /\ loaded' # loaded /\ loaded' # {}
                    => Head(rx).session = txn.generation
  <1>1. ASSUME LinkInv, IInv, PromptLoop => ForgetInv, ComponentNext, stage = "packets",
               popped' # popped, loaded' # loaded, loaded' # {}
        PROVE  Head(rx).session = txn.generation
    <2>1. PICK status \in MsdStatuses : HandlePacket(status)
      BY <1>1 DEF ComponentNext, Ble, Loop, ClientWrites, OnBleWrite, OnBleConnect,
                  CountConnection, TellEngine, OnBleDisconnect, LoopStarts, PacketsHandled,
                  LoopTicks, LoopDrains, AbortAction, componentVars
    <2>2. ClientStep /\ Head(rx).session = session
      BY <1>1, <2>1, PacketIsClientStep DEF vars
    <2>3. txn.state = "RECEIVING"
      BY <1>1, <2>2, ClientStepKeeps
    <2>4. QED
      BY <1>1, <2>2, <2>3 DEF ForgetInv
  <1>2. LinkInv /\ IInv /\ (PromptLoop => ForgetInv) /\ [ComponentNext]_allVars => [OwnData]_allVars
    BY <1>1
  <1> HIDE DEF OwnData
  <1>3. ComponentSpec => [][OwnData]_allVars
    BY <1>2, LinkInvHolds, EngineInvHolds, ForgetHolds, PTL DEF ComponentSpec
  <1>4. QED
    BY <1>3 DEF OwnData, FrameFromOneClient

------------------------------------------------------------------------------
(* Types, and the sizes of the queues. *)

AnyFrame == Frames \cup OwnFrames

(* The config blob takes two chunks.                                            *)
LEMMA TwoChunks ==
    /\ ChunkCount = 2
    /\ ConfigBlobLength \in Nat
    /\ \A i \in {0, 1} : ChunkBytes(ConfigBlobLength, i) # {}
  <1>1. ConfigBlobLength = 133
    BY DEF ConfigBlobLength, OuterHeader, PacketLength, SystemConfig, ManufacturerData,
           PowerOption, DisplayConfig, Crc
  <1>2. ChunkOffset(0) = 0 /\ ChunkOffset(1) = 94 /\ ChunkOffset(2) = 190
    BY ChunkOffsets
  <1>3. 0 \in ChunkBytes(133, 0) /\ 94 \in ChunkBytes(133, 1) /\ ChunkBytes(133, 2) = {}
    BY <1>2, ChunkOffsets DEF ChunkBytes
  <1>4. \A n \in 0 .. 133 :
            /\ ChunkBytes(133, n) = {}
            /\ \A i \in 0 .. n - 1 : ChunkBytes(133, i) # {}
            <=> n = 2
    <2>1. SUFFICES ASSUME NEW n \in 0 .. 133
                   PROVE  (/\ ChunkBytes(133, n) = {}
                           /\ \A i \in 0 .. n - 1 : ChunkBytes(133, i) # {}) <=> n = 2
      OBVIOUS
    <2>2. CASE n < 2
      BY <1>3, <2>2
    <2>3. CASE n = 2
      BY <1>3, <2>3
    <2>4. CASE n > 2
      BY <1>3, <2>4
    <2>5. QED
      BY <2>2, <2>3, <2>4
  <1>5. ChunkCount = 2
    BY <1>1, <1>4, SMTT(30) DEF ChunkCount
  <1>6. QED
    BY <1>1, <1>3, <1>5

LEMMA AnswerTyped ==
    ASSUME NEW c, c.op \in Queries, NEW status \in MsdStatuses
    PROVE  OwnAnswer(c, status) \in Seq(OwnFrames)
  <1>1. ConfigFrames \in Seq(OwnFrames)
    <2>1. ConfigChunks \in [1 .. 2 -> OwnFrames]
      BY TwoChunks DEF ConfigChunks, OwnFrames
    <2>2. ConfigChunks \in Seq(OwnFrames)
      BY <2>1, SeqDef
    <2>3. <<Nack("CONFIG_READ")>> \in Seq(OwnFrames)
      BY DEF OwnFrames
    <2>4. QED
      BY <2>2, <2>3 DEF ConfigFrames
  <1>2. /\ VersionFrame \in OwnFrames /\ MsdFrame(status) \in OwnFrames
        /\ Nack("UNSUPPORTED") \in OwnFrames
    BY DEF OwnFrames
  <1>3. QED
    BY <1>1, <1>2 DEF OwnAnswer, Queries

(* Whatever is pushed, and however, one slot of the ring stays free.            *)
TxInv == tx \in Seq(AnyFrame) /\ Len(tx) < TxSlots

LEMMA SendTyped ==
    ASSUME NEW q \in Seq(AnyFrame), Len(q) < TxSlots, NEW frame \in AnyFrame,
           NEW terminal
    PROVE  Send(q, frame, terminal) \in Seq(AnyFrame) /\ Len(Send(q, frame, terminal)) < TxSlots
  BY ComponentAssumption DEF Send, TxAccepts

LEMMA SendFrameTyped ==
    ASSUME NEW q \in Seq(AnyFrame), Len(q) < TxSlots, NEW r \in Replies, NEW i \in Nat \ {0}
    PROVE  SendFrame(q, r, i) \in Seq(AnyFrame) /\ Len(SendFrame(q, r, i)) < TxSlots
  <1>1. CASE i <= Len(r.frames)
    <2>1. r.frames \in Seq(Frames)
      BY DEF Replies
    <2>2. r.frames[i] \in AnyFrame
      BY <1>1, <2>1, ElementOfSeq DEF AnyFrame
    <2>3. QED
      BY <1>1, <2>2, SendTyped DEF SendFrame
  <1>2. CASE ~(i <= Len(r.frames))
    BY <1>2 DEF SendFrame
  <1>3. QED
    BY <1>1, <1>2

LEMMA ApplyResultTyped ==
    ASSUME TxInv, NEW r \in Replies, ApplyResult(r)
    PROVE  TxInv'
  BY SendFrameTyped DEF TxInv, ApplyResult

LEMMA QueryTyped ==
    ASSUME TxInv, NEW frames \in Seq(OwnFrames), SendUntilRefused(frames)
    PROVE  TxInv'
  <1>1. PICK n \in 0 .. Len(frames) :
            /\ \A k \in 0 .. n - 1 : TxAccepts(Len(tx) + k, FALSE)
            /\ tx' = tx \o SubSeq(frames, 1, n)
    BY DEF SendUntilRefused
  <1>2. frames \in Seq(AnyFrame)
    BY SeqMonotonic DEF AnyFrame
  <1>3. SubSeq(frames, 1, n) \in Seq(AnyFrame) /\ Len(SubSeq(frames, 1, n)) = n
    BY <1>2
  <1>4. tx' \in Seq(AnyFrame) /\ Len(tx') = Len(tx) + n
    BY <1>1, <1>3, ConcatProperties DEF TxInv
  <1>5. Len(tx) + n < TxSlots
    <2>1. CASE n = 0
      BY <2>1 DEF TxInv
    <2>2. CASE n > 0
      <3>1. n - 1 \in 0 .. n - 1
        BY <2>2
      <3>2. TxAccepts(Len(tx) + (n - 1), FALSE)
        BY <1>1, <3>1
      <3>3. QED
        BY <2>2, <3>2, ComponentAssumption DEF TxAccepts, TxInv
    <2>3. QED
      BY <2>1, <2>2
  <1>6. QED
    BY <1>4, <1>5 DEF TxInv

LEMMA DrainTyped ==
    ASSUME TxInv, LoopDrains
    PROVE  TxInv'
  <1>1. CASE tx' = tx
    BY <1>1 DEF TxInv
  <1>2. ASSUME NEW n \in 0 .. Len(tx), tx' = SubSeq(tx, n + 1, Len(tx))
        PROVE  TxInv'
    BY <1>2, ComponentAssumption DEF TxInv
  <1>3. Lesser(LoopFrames, Len(tx)) \in 0 .. Len(tx)
    BY ComponentAssumption DEF Lesser, TxInv
  <1>4. QED
    BY <1>1, <1>2, <1>3 DEF LoopDrains

LEMMA TxStep == IInv' /\ LinkInv /\ TxInv /\ [ComponentNext]_allVars => TxInv'
  <1> SUFFICES ASSUME IInv', LinkInv, TxInv, [ComponentNext]_allVars
               PROVE  TxInv'
    OBVIOUS
  <1>1. reply' \in Replies
    BY DEF IInv, TypeOK, Replies
  <1>2. CASE tx' = tx
    BY <1>2 DEF TxInv
  <1>3. ASSUME NEW status \in MsdStatuses, HandlePacket(status)
        PROVE  TxInv'
    <2>1. CASE ApplyResult(reply')
      BY <1>1, <2>1, ApplyResultTyped
    <2>2. CASE HandleQuery(Head(rx).command, status)
      BY <2>2, AnswerTyped, QueryTyped DEF HandleQuery
    <2>3. QED
      BY <1>2, <1>3, <2>1, <2>2 DEF HandlePacket, HandleOwnPacket
  <1>4. CASE LoopTicks
    BY <1>1, <1>4, ApplyResultTyped DEF LoopTicks
  <1>5. CASE LoopDrains
    BY <1>5, DrainTyped
  <1>6. QED
    BY <1>2, <1>3, <1>4, <1>5
       DEF ComponentNext, Ble, Loop, ClientWrites, OnBleWrite, OnBleConnect, CountConnection,
           TellEngine, OnBleDisconnect, LoopStarts, PacketsHandled, AbortAction, allVars,
           componentVars

LEMMA TxInvInit == ComponentInit => TxInv
  BY ComponentAssumption DEF ComponentInit, TxInv

LEMMA TxInvHolds == ComponentSpec => []TxInv
  BY TxInvInit, TxStep, LinkInvHolds, EngineInvHolds, PTL DEF ComponentSpec

(* The rest of loop()'s state.                                                  *)
LoopInv ==
    /\ connected \in BOOLEAN /\ noticed \in BOOLEAN
    /\ stage \in {"start", "packets", "tick", "drain"}
    /\ popped \in 0 .. LoopPackets

LEMMA LoopStep == LoopInv /\ [ComponentNext]_allVars => LoopInv'
  <1> SUFFICES ASSUME LoopInv, [ComponentNext]_allVars
               PROVE  LoopInv'
    OBVIOUS
  <1>t. LoopPackets \in Nat
    BY ComponentAssumption
  <1>1. CASE ClientWrites \/ OnBleConnect \/ CountConnection \/ TellEngine \/ OnBleDisconnect
    BY <1>1 DEF ClientWrites, OnBleWrite, OnBleConnect, CountConnection, TellEngine,
                OnBleDisconnect, LoopInv
  <1>2. CASE LoopStarts
    BY <1>2, <1>t DEF LoopStarts, LoopInv
  <1>3. ASSUME NEW status \in MsdStatuses, HandlePacket(status)
        PROVE  LoopInv'
    BY <1>3, <1>t DEF HandlePacket, LoopInv
  <1>4. CASE PacketsHandled \/ LoopTicks \/ LoopDrains
    BY <1>4 DEF PacketsHandled, LoopTicks, LoopDrains, LoopInv
  <1>5. CASE UNCHANGED componentVars
    BY <1>5 DEF componentVars, LoopInv
  <1>6. QED
    BY <1>1, <1>2, <1>3, <1>4, <1>5
       DEF ComponentNext, Ble, Loop, AbortAction, allVars, componentVars

LEMMA LoopInvInit == ComponentInit => LoopInv
  <1>1. 0 \in 0 .. LoopPackets
    BY ComponentAssumption
  <1>2. QED
    BY <1>1 DEF ComponentInit, LoopInv

LEMMA LoopInvHolds == ComponentSpec => []LoopInv
  BY LoopInvInit, LoopStep, PTL DEF ComponentSpec

LEMMA TypesTogether ==
    ASSUME IInv, LinkInv, TxInv, LoopInv
    PROVE  ComponentTypeOK
  <1>1. \A i \in DOMAIN rx : rx[i] \in [session : 0 .. MaxGeneration, command : Commands]
    <2> DEFINE S == [session : 0 .. MaxGeneration, command : Commands]
    <2>1. rx \in Seq(S)
      BY DEF LinkInv
    <2> HIDE DEF S
    <2>2. \A i \in DOMAIN rx : rx[i] \in S
      BY <2>1, ElementOfSeq, LenProperties
    <2>3. QED
      BY <2>2 DEF S
  <1>2. \A i \in DOMAIN tx : tx[i] \in Frames \cup OwnFrames
    BY ElementOfSeq DEF TxInv, AnyFrame
  <1>3. TypeOK
    BY DEF IInv
  <1>4. /\ session \in 0 .. MaxGeneration /\ linking \in {"no", "connected", "counted"}
        /\ Len(rx) < RxSlots /\ Len(tx) < TxSlots
    BY DEF LinkInv, TxInv
  <1>5. QED
    BY <1>1, <1>2, <1>3, <1>4 DEF LoopInv, ComponentTypeOK

(* Both queues keep one slot free and hold what the component writes, no counter    *)
(* runs out of its range: for all sizes of queues and frames, any number of         *)
(* connections and commands on their way.                                           *)
THEOREM ComponentTypeCorrect == ComponentSpec => []ComponentTypeOK
  BY TypesTogether, EngineInvHolds, LinkInvHolds, TxInvHolds, LoopInvHolds, PTL
==============================================================================
