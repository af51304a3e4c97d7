------------------------------- MODULE Entities -------------------------------
(***************************************************************************)
(* What the component shows besides its answers (opendisplay.cpp): the     *)
(* busy and activity sensors of publish_state_(), with error_pending_, and *)
(* the MSD record of update_msd_(), with the reboot flag that READ_MSD     *)
(* clears.  The state is that of a component whose setup() succeeded.      *)
(*                                                                         *)
(* One second of MSD_UPDATE_INTERVAL_MS passes or does not pass between    *)
(* two iterations of loop(); of the record only the status byte is kept,   *)
(* without its free-running counter.                                       *)
(***************************************************************************)
EXTENDS OpenDisplay

VARIABLES
    published_state,   \* published_state_
    published_busy,    \* published_busy_, the busy sensor
    activity,          \* the activity sensor
    error_pending,     \* error_pending_
    reboot_flag,       \* reboot_flag_
    msd_status         \* the status byte of msd_ and of the advertisement

sensorVars == <<published_state, published_busy, activity, error_pending>>
entityVars == <<sensorVars, reboot_flag, msd_status>>
entitiesVars == <<allVars, entityVars>>

Activities == {"IDLE", "RECEIVING", "REFRESHING", "error"}

Status(reboot) == MsdStatus(0, reboot, FALSE, 0)

ASSUME EntitiesAssumption == {Status(FALSE), Status(TRUE)} \subseteq MsdStatuses

(* setup() builds the record and publishes once. *)
EntitiesInit ==
    /\ ComponentInit
    /\ published_state = "IDLE" /\ published_busy = FALSE
    /\ activity = "IDLE" /\ error_pending = FALSE
    /\ reboot_flag = TRUE
    /\ msd_status = Status(TRUE)

------------------------------------------------------------------------------
IsBusy == txn.state # "IDLE" \/ hw_owned

(* apply_result_: refresh_timeout and terminal_error. *)
Fails(r) == r.failed \/ (\E i \in DOMAIN r.frames : r.frames[i] = RefreshTimeout)

NoteError == error_pending' = (error_pending \/ (EngineCalled /\ Fails(reply')))

(* publish_state_: an error is shown in the place of IDLE, once. *)
Publish ==
    /\ published_state' = txn.state
    /\ published_busy' = IsBusy
    /\ activity' = IF txn.state = "IDLE" /\ error_pending THEN "error" ELSE txn.state
    /\ error_pending' = (error_pending /\ txn.state # "IDLE")

(* Mutant: only a change of state is published. *)
PublishOnState ==
    IF txn.state # published_state THEN Publish ELSE UNCHANGED sensorVars

PublishChange ==
    IF txn.state # published_state \/ IsBusy # published_busy THEN Publish
                                                              ELSE UNCHANGED sensorVars

(* Mutant: the record is advertised with the flag once, and then without it. *)
UpdateMsdOnce ==
    \/ UNCHANGED <<msd_status, reboot_flag>>
    \/ /\ msd_status' = Status(reboot_flag)
       /\ reboot_flag' = FALSE

(* update_msd_: not due yet, or the record is rebuilt. *)
UpdateMsd ==
    /\ \/ UNCHANGED msd_status
       \/ msd_status' = Status(reboot_flag)
    /\ UNCHANGED reboot_flag

(* READ_MSD: the host has now observed the flag. *)
ReadsMsd ==
    /\ stage = "packets" /\ popped' # popped
    /\ Head(rx).session = session /\ Head(rx).command.op = "READ_MSD"

PacketWithEntities ==
    /\ HandlePacket(msd_status)
    /\ NoteError
    /\ reboot_flag' = (reboot_flag /\ ~ReadsMsd)
    /\ UNCHANGED <<published_state, published_busy, activity, msd_status>>

TickWithEntities ==
    /\ LoopTicks
    /\ NoteError
    /\ UpdateMsd
    /\ UNCHANGED <<published_state, published_busy, activity>>

DrainWithEntities ==
    /\ LoopDrains
    /\ PublishChange
    /\ UNCHANGED <<reboot_flag, msd_status>>

LoopWithEntities ==
    \/ (LoopStarts \/ PacketsHandled) /\ UNCHANGED entityVars
    \/ PacketWithEntities
    \/ TickWithEntities
    \/ DrainWithEntities

(* BLE callbacks, automations, the driver and the clock publish nothing. *)
QuietStep ==
    \/ Ble
    \/ AbortAction
    \/ (DeadlinePasses \/ EnvironmentStep) /\ UNCHANGED componentVars

EntitiesNext == LoopWithEntities \/ (QuietStep /\ UNCHANGED entityVars)

EntitiesSpec == EntitiesInit /\ [][EntitiesNext]_entitiesVars

------------------------------------------------------------------------------
(* Properties *)

EntityTypeOK ==
    /\ published_state \in {"IDLE", "RECEIVING", "REFRESHING"}
    /\ activity \in Activities
    /\ published_busy \in BOOLEAN /\ error_pending \in BOOLEAN
    /\ reboot_flag \in BOOLEAN
    /\ msd_status \in MsdStatuses

(* TODO.md M5, "No stuck busy, ever", and none that is missing: once the engine is *)
(* free, or busy, for good, the busy sensor says so for good. Transaction and        *)
(* hw_owned_ end at different times, and aborts, disconnects and local updates move  *)
(* them between two iterations (loop() with publish_state_).                         *)
BusySensorFollows ==
    /\ <>[](~IsBusy) => <>[](~published_busy)
    /\ <>[]IsBusy => <>[]published_busy

(* opendisplay.h:146 has the reboot flag cleared once the host has read it. What the *)
(* code does: the call that clears it sends a record that shows it, although that    *)
(* record was built up to a second ago. send_ drops the record if the TX queue is    *)
(* full, and the flag is cleared all the same (handle_packet_, READ_MSD).            *)
FlagClearedShown ==
    [][reboot_flag /\ ~reboot_flag'
         => tx' = Send(tx, MsdFrame(Status(TRUE)), FALSE)]_entitiesVars

==============================================================================
