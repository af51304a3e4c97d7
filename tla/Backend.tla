------------------------------- MODULE Backend -------------------------------
(***************************************************************************)
(* The adapter between the transfer engine and an ESPHome display driver   *)
(* (backend.h, backend_epaper_spi.cpp, backend_it8951.cpp), together with  *)
(* the driver itself, which is external code.                              *)
(*                                                                         *)
(* The two adapters differ in one thing that matters: epaper_spi observes  *)
(* the driver returning to idle, IT8951 waits a fixed settle time.  The    *)
(* constant ObservesCompletion selects one of them.                        *)
(***************************************************************************)
EXTENDS Naturals

CONSTANTS
    FullFrameBytes,      \* capabilities().full_frame_bytes, in model bytes
    ObservesCompletion,  \* TRUE: epaper_spi, FALSE: it8951
    MayFail,             \* the backend calls that may report an error
    ClockMayWrap         \* whether now + timeout may be the value 0

BackendCalls == {"begin_frame", "write_contiguous", "finish_frame", "update"}

ASSUME BackendAssumption ==
    /\ FullFrameBytes \in Nat \ {0}
    /\ ObservesCompletion \in BOOLEAN
    /\ MayFail \subseteq BackendCalls
    /\ ClockMayWrap \in BOOLEAN

VARIABLES
    driver,         \* the display component: idle, busy or failed for good
    refresh_mark,   \* refresh_started_ (epaper), refresh_settle_deadline_ms_ (it8951)
    loaded,         \* framebuffer offsets holding bytes of the frame last begun
    shown           \* the frame of the last accepted refresh reached the panel

backendVars == <<driver, refresh_mark, loaded, shown>>

FrameOffsets == 0 .. FullFrameBytes - 1

(* "ours": update() called by begin_refresh; "other": by a local automation *)
DriverStates == {"idle", "ours", "other", "failed"}

(* A deadline in milliseconds, seen through deadline_passed(): the value 0   *)
(* ("unset") never passes; any other value is still ahead or has passed.     *)
Deadlines == {"unset", "pending", "passed"}

(* The outcomes of storing now + timeout in a deadline. *)
ArmedDeadlines == {"pending"} \cup (IF ClockMayWrap THEN {"unset"} ELSE {})

BackendTypeOK ==
    /\ driver \in DriverStates
    /\ refresh_mark \in Deadlines
    /\ loaded \subseteq FrameOffsets
    /\ shown \in BOOLEAN

BackendInit ==
    /\ driver = "idle"
    /\ refresh_mark = "unset"
    /\ loaded = {}
    /\ shown = FALSE

------------------------------------------------------------------------------
(* The adapter's calls. Each is one piece of an engine handler. *)

MayReportError(call) == call \in MayFail

IsIdle == driver = "idle"

(* begin_frame succeeds: nothing is cleared, the next bytes are a new frame's. *)
BeginFrame ==
    /\ refresh_mark' = "unset"
    /\ loaded' = {}
    /\ UNCHANGED <<driver, shown>>

(* The bounds test of write_contiguous, made before any access. *)
InFrame(offset, length) ==
    /\ offset <= FullFrameBytes
    /\ length <= FullFrameBytes - offset

(* The framebuffer after write_contiguous(offset, _, length). *)
Written(offset, length) == loaded \cup (offset .. offset + length - 1)

(* Mutant: begin_refresh calls update() without asking whether the driver is   *)
(* idle; a busy driver ignores the call.                                       *)
BeginRefreshUnasked ==
    /\ driver' = IF IsIdle THEN "ours" ELSE driver
    /\ refresh_mark' \in (IF ObservesCompletion THEN {"pending"} ELSE ArmedDeadlines)
    /\ shown' = FALSE

(* begin_refresh returns OK: update() took the driver out of idle. *)
BeginRefresh ==
    /\ IsIdle
    /\ driver' = "ours"
    /\ refresh_mark' \in (IF ObservesCompletion THEN {"pending"} ELSE ArmedDeadlines)
    /\ shown' = FALSE

(* begin_refresh returns DEVICE_ERROR: the driver is busy, or update() left   *)
(* it idle, which only the epaper_spi adapter looks at.                       *)
RefreshRefused ==
    \/ ~IsIdle
    \/ ObservesCompletion /\ MayReportError("update")

(* abort_transfer. It does not touch the driver, which cannot be cancelled. *)
AbortTransfer ==
    /\ refresh_mark' = "unset"
    /\ UNCHANGED <<driver, shown>>

(* poll_refresh's answer ... *)
PollRefresh ==
    IF driver = "failed" THEN "FAILED"
    ELSE IF /\ refresh_mark # "unset"
            /\ IF ObservesCompletion THEN IsIdle ELSE refresh_mark = "passed"
         THEN "COMPLETE"
         ELSE "PENDING"

(* ... and its effect on the adapter. *)
MarkAfterPoll == IF PollRefresh = "COMPLETE" THEN "unset" ELSE refresh_mark

------------------------------------------------------------------------------
(* The driver and the world around the adapter (external). *)

DriverFinishes ==
    /\ driver \in {"ours", "other"}
    /\ driver' = "idle"
    /\ shown' = (shown \/ driver = "ours")
    /\ UNCHANGED <<refresh_mark, loaded>>

(* mark_failed(): the component never leaves the failed state. *)
DriverFails ==
    /\ driver \in {"ours", "other"}
    /\ driver' = "failed"
    /\ UNCHANGED <<refresh_mark, loaded, shown>>

(* A YAML automation calls update() on the same display. With the required    *)
(* no-op lambda and auto_clear_enabled: false the framebuffer is left alone.  *)
LocalUpdate ==
    /\ IsIdle
    /\ driver' = "other"
    /\ UNCHANGED <<refresh_mark, loaded, shown>>

(* millis() reaches the settle deadline of the it8951 adapter. *)
SettlePasses ==
    /\ ~ObservesCompletion
    /\ refresh_mark = "pending"
    /\ refresh_mark' = "passed"
    /\ UNCHANGED <<driver, loaded, shown>>

==============================================================================
