---------------------------- MODULE EntitiesProofs ----------------------------
(***************************************************************************)
(* The component with its sensors and its MSD record, for whatever clients *)
(* and automations there are: it is the component of OpenDisplay, its      *)
(* entities keep their types, and the reboot flag is not cleared by an     *)
(* answer that does not show it.                                           *)
(***************************************************************************)
EXTENDS Entities, OpenDisplayProofs

(* As long as the flag is up the record shows it, however old the record is. *)
RecordInv ==
    /\ msd_status \in {Status(TRUE), Status(FALSE)}
    /\ reboot_flag => msd_status = Status(TRUE)

EntityIInv == EntityTypeOK /\ RecordInv

LEMMA EntityIInvInit == EntitiesInit => EntityIInv
  BY EntitiesAssumption DEF EntitiesInit, EntityIInv, EntityTypeOK, RecordInv, Activities

(* What the entities add leaves the component as it is. *)
LEMMA EntitiesKeepComponent ==
    ASSUME EntityTypeOK, [EntitiesNext]_entitiesVars
    PROVE  [ComponentNext]_allVars
  <1>1. CASE LoopWithEntities
    <2>1. msd_status \in MsdStatuses
      BY DEF EntityTypeOK
    <2>2. Loop
      BY <1>1, <2>1 DEF LoopWithEntities, PacketWithEntities, TickWithEntities,
                        DrainWithEntities, Loop
    <2>3. QED
      BY <2>2 DEF ComponentNext
  <1>2. CASE QuietStep
    BY <1>2 DEF QuietStep, ComponentNext
  <1>3. CASE UNCHANGED entitiesVars
    BY <1>3 DEF entitiesVars
  <1>4. QED
    BY <1>1, <1>2, <1>3 DEF EntitiesNext

LEMMA RecordStep ==
    ASSUME EntityIInv, LoopWithEntities \/ UNCHANGED entityVars
    PROVE  reboot_flag' \in BOOLEAN /\ RecordInv'
  <1>1. /\ reboot_flag \in BOOLEAN /\ msd_status \in {Status(TRUE), Status(FALSE)}
        /\ reboot_flag => msd_status = Status(TRUE)
    BY DEF EntityIInv, EntityTypeOK, RecordInv
  <1>2. CASE UNCHANGED <<reboot_flag, msd_status>>
    BY <1>1, <1>2 DEF RecordInv
  <1>3. CASE PacketWithEntities
    BY <1>1, <1>3 DEF PacketWithEntities, RecordInv
  <1>4. CASE UpdateMsd
    <2>1. /\ Status(reboot_flag) \in {Status(TRUE), Status(FALSE)}
          /\ reboot_flag => Status(reboot_flag) = Status(TRUE)
      BY <1>1
    <2>2. QED
      BY <1>1, <1>4, <2>1 DEF UpdateMsd, RecordInv
  <1>5. QED
    BY <1>2, <1>3, <1>4 DEF LoopWithEntities, TickWithEntities, DrainWithEntities, entityVars

LEMMA SensorsStep ==
    ASSUME EntityIInv, IInv, LoopWithEntities \/ UNCHANGED entityVars
    PROVE  /\ published_state' \in {"IDLE", "RECEIVING", "REFRESHING"} /\ activity' \in Activities
           /\ published_busy' \in BOOLEAN /\ error_pending' \in BOOLEAN
  <1>1. EntityTypeOK /\ txn.state \in {"IDLE", "RECEIVING", "REFRESHING"}
    BY DEF EntityIInv, IInv, TypeOK, Transactions
  <1>2. CASE UNCHANGED <<published_state, published_busy, activity>>
             /\ (NoteError \/ error_pending' = error_pending)
    BY <1>1, <1>2 DEF EntityTypeOK, NoteError
  <1>3. CASE UNCHANGED sensorVars
    BY <1>1, <1>3 DEF EntityTypeOK, sensorVars
  <1>4. CASE Publish
    <2>1. IsBusy \in BOOLEAN
      BY DEF IsBusy
    <2>2. activity' \in Activities
      BY <1>1, <1>4 DEF Publish, Activities
    <2>3. error_pending' \in BOOLEAN
      BY <1>1, <1>4 DEF Publish, EntityTypeOK
    <2>4. QED
      BY <1>1, <1>4, <2>1, <2>2, <2>3 DEF Publish
  <1>5. QED
    BY <1>2, <1>3, <1>4
       DEF LoopWithEntities, PacketWithEntities, TickWithEntities, DrainWithEntities,
           PublishChange, entityVars, sensorVars

LEMMA EntityIInvStep ==
    ASSUME EntityIInv, IInv, [EntitiesNext]_entitiesVars
    PROVE  EntityIInv'
  <1>1. LoopWithEntities \/ UNCHANGED entityVars
    BY DEF EntitiesNext, entitiesVars
  <1>2. RecordInv' /\ msd_status' \in MsdStatuses
    BY <1>1, RecordStep, EntitiesAssumption DEF RecordInv
  <1>3. QED
    BY <1>1, <1>2, RecordStep, SensorsStep DEF EntityIInv, EntityTypeOK

(* Sensors and record only look on: whatever is proved of the component alone      *)
(* holds of it with them, its types, the engine's promises and whose transfer it   *)
(* is (loop() with publish_state_ and update_msd_).                                *)
THEOREM EntitiesLookOn == EntitiesSpec => ComponentSpec /\ []EntityIInv
  <1>1. EntitiesInit => ComponentInit /\ Init /\ LinkInv /\ EntityIInv
    BY EntityIInvInit, LinkInvInit DEF EntitiesInit, ComponentInit
  <1>2. Init => IInv
    BY InitIInv
  <1>3. EntityIInv /\ LinkInv /\ IInv /\ [EntitiesNext]_entitiesVars
           => EntityIInv' /\ LinkInv' /\ IInv' /\ [ComponentNext]_allVars
    <2> SUFFICES ASSUME EntityIInv, LinkInv, IInv, [EntitiesNext]_entitiesVars
                 PROVE  EntityIInv' /\ LinkInv' /\ IInv' /\ [ComponentNext]_allVars
      OBVIOUS
    <2>1. [ComponentNext]_allVars
      BY EntitiesKeepComponent DEF EntityIInv
    <2>2. QED
      BY <2>1, EntityIInvStep, LinkStep, EngineStep, StepIInv
  <1>4. QED
    BY <1>1, <1>2, <1>3, PTL DEF EntitiesSpec, ComponentSpec

(* The entities' types: the busy sensor, the activity with its "error", and the    *)
(* status byte of the record (publish_state_, update_msd_).                        *)
THEOREM EntityTypeCorrect == EntitiesSpec => []EntityTypeOK
  <1>1. EntityIInv => EntityTypeOK
    BY DEF EntityIInv
  <1>2. QED
    BY <1>1, EntitiesLookOn, PTL

------------------------------------------------------------------------------
LEMMA OneElement ==
    ASSUME NEW S, NEW e \in S
    PROVE  /\ <<e>> \in Seq(S) /\ Len(<<e>>) = 1 /\ <<e>>[1] = e
           /\ SubSeq(<<e>>, 1, 0) = <<>> /\ SubSeq(<<e>>, 1, 1) = <<e>>
  <1> DEFINE q == <<e>>
  <1>1. q \in Seq(S) /\ Len(q) = 1 /\ q[1] = e
    OBVIOUS
  <1> HIDE DEF q
  <1>2. SubSeq(q, 1, 1) = q
    BY <1>1, SubSeqFull
  <1>3. SubSeq(q, 1, 0) \in Seq(S) /\ Len(SubSeq(q, 1, 0)) = 0
    BY <1>1
  <1>4. SubSeq(q, 1, 0) = <<>>
    BY <1>3, EmptySeq
  <1>5. QED
    BY <1>1, <1>2, <1>4 DEF q

(* A normal frame that is sent alone is sent as send_ sends any. *)
LEMMA SentAlone ==
    ASSUME TxInv, NEW frame \in AnyFrame, SendUntilRefused(<<frame>>)
    PROVE  tx' = Send(tx, frame, FALSE)
  <1>1. tx \in Seq(AnyFrame) /\ Len(tx) \in Nat
    BY DEF TxInv
  <1>2. /\ <<frame>> \in Seq(AnyFrame) /\ Len(<<frame>>) = 1
        /\ SubSeq(<<frame>>, 1, 0) = <<>> /\ SubSeq(<<frame>>, 1, 1) = <<frame>>
    BY OneElement
  <1>3. PICK n \in 0 .. 1 : /\ \A k \in 0 .. n - 1 : TxAccepts(Len(tx) + k, FALSE)
                            /\ n < 1 => ~TxAccepts(Len(tx) + n, FALSE)
                            /\ tx' = tx \o SubSeq(<<frame>>, 1, n)
    BY <1>2 DEF SendUntilRefused
  <1>4. Len(tx) + 0 = Len(tx) /\ 0 \in 0 .. 1 - 1
    BY <1>1
  <1>5. CASE n = 0
    <2>1. n < 1 /\ Len(tx) + n = Len(tx)
      BY <1>1, <1>5
    <2>2. ~TxAccepts(Len(tx), FALSE)
      BY <1>3, <2>1
    <2>3. tx' = tx \o <<>>
      BY <1>2, <1>3, <1>5
    <2>4. tx' = tx
      BY <1>1, <2>3, ConcatEmptySeq
    <2>5. QED
      BY <2>2, <2>4 DEF Send
  <1>6. CASE n = 1
    <2>1. TxAccepts(Len(tx), FALSE)
      BY <1>3, <1>4, <1>6
    <2>2. tx' = tx \o <<frame>>
      BY <1>2, <1>3, <1>6
    <2>3. tx' = Append(tx, frame)
      BY <1>1, <2>2
    <2>4. QED
      BY <2>1, <2>3 DEF Send
  <1>7. n = 0 \/ n = 1
    OBVIOUS
  <1>8. QED
    BY <1>5, <1>6, <1>7

(* The reboot flag is not cleared unseen by a record from before it was built, or  *)
(* after it was rebuilt: the answer that clears it shows it, if there is room for  *)
(* an answer at all (handle_packet_, update_msd_).                                 *)
THEOREM FlagClearedShownHolds == EntitiesSpec => FlagClearedShown
  <1> DEFINE Shown == reboot_flag /\ ~reboot_flag'
                         => tx' = Send(tx, MsdFrame(Status(TRUE)), FALSE)
  <1>1. EntityIInv /\ TxInv /\ [EntitiesNext]_entitiesVars => [Shown]_entitiesVars
    <2> SUFFICES ASSUME EntityIInv, TxInv, EntitiesNext, reboot_flag, ~reboot_flag'
                 PROVE  tx' = Send(tx, MsdFrame(Status(TRUE)), FALSE)
      OBVIOUS
    <2>1. PacketWithEntities
      BY DEF EntitiesNext, LoopWithEntities, TickWithEntities, DrainWithEntities, UpdateMsd,
             entityVars
    <2>2. ReadsMsd
      BY <2>1 DEF PacketWithEntities
    <2>3. HandleQuery(Head(rx).command, msd_status)
      BY <2>1, <2>2 DEF PacketWithEntities, HandlePacket, HandleOwnPacket, HandleCommand, ReadsMsd
    <2>4. OwnAnswer(Head(rx).command, msd_status) = <<MsdFrame(msd_status)>>
      BY <2>2 DEF ReadsMsd, OwnAnswer
    <2>5. msd_status = Status(TRUE) /\ msd_status \in MsdStatuses
      BY DEF EntityIInv, RecordInv, EntityTypeOK
    <2>6. MsdFrame(msd_status) \in AnyFrame
      BY <2>5 DEF AnyFrame, OwnFrames
    <2>7. SendUntilRefused(<<MsdFrame(msd_status)>>)
      BY <2>3, <2>4 DEF HandleQuery
    <2>8. tx' = Send(tx, MsdFrame(msd_status), FALSE)
      BY <2>6, <2>7, SentAlone
    <2>9. QED
      BY <2>5, <2>8
  <1>2. QED
    BY <1>1, EntitiesLookOn, TxInvHolds, PTL DEF EntitiesSpec, FlagClearedShown

==============================================================================
