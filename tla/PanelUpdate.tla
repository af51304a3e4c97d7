----------------------------- MODULE PanelUpdate -----------------------------
(***************************************************************************)
(* What a client and the panel may rely on, without packets, modes or      *)
(* deadlines: a frame is loaded from its first byte on, only a whole frame *)
(* is submitted, the panel is not touched while it reads one, and every    *)
(* accepted frame is answered at most once, with "complete" only after the *)
(* panel shows it.                                                         *)
(***************************************************************************)
EXTENDS Naturals

CONSTANTS
    FrameBytes,
    Observed     \* whether the end of a refresh can be observed

VARIABLES
    phase,    \* free, loading, showing, held: nobody's, but not free yet
    loaded,   \* the offsets of the frame that are loaded
    panel,    \* reading the framebuffer, showing what it read, or neither
    said      \* the outcome last reported to the client

Whole == 0 .. FrameBytes - 1

NotReading == Observed => panel # "reading"

Init ==
    /\ phase = "free"
    /\ loaded = {}
    /\ panel = "still"
    /\ said = "nothing"

(* The framebuffer grows, but only at its end. *)
Grow == \E n \in 0 .. FrameBytes : loaded \subseteq 0 .. n - 1 /\ loaded' = 0 .. n - 1

Begin ==
    /\ phase \in {"free", "loading"}
    /\ NotReading
    /\ phase' = "loading" /\ loaded' = {} /\ said' = "nothing"
    /\ UNCHANGED panel

Load ==
    /\ phase = "loading"
    /\ NotReading
    /\ Grow
    /\ said' = "nothing"
    /\ UNCHANGED <<phase, panel>>

Submit ==
    /\ phase = "loading"
    /\ loaded' = Whole
    /\ phase' = "showing" /\ panel' = "reading" /\ said' = "accepted"

Abandon ==
    /\ phase = "loading"
    /\ Grow
    /\ phase' = "free" /\ said' = "nothing"
    /\ UNCHANGED panel

Confirm ==
    /\ phase = "showing"
    /\ Observed => panel = "shown"
    /\ phase' = "free" /\ said' = "complete"
    /\ UNCHANGED <<loaded, panel>>

GiveUp ==
    /\ phase \in {"showing", "held"}
    /\ NotReading
    /\ phase' = "free" /\ said' = "nothing"
    /\ UNCHANGED <<loaded, panel>>

(* The refresh is over for the client, but not for the panel. *)
TimeOut ==
    /\ phase = "showing"
    /\ phase' = "held" /\ said' \in {"timeout", "nothing"}
    /\ UNCHANGED <<loaded, panel>>

Appear ==
    /\ panel = "reading"
    /\ Observed => loaded = Whole
    /\ panel' \in {"shown", "still"}
    /\ UNCHANGED <<phase, loaded, said>>

Quiet ==
    /\ said' = "nothing"
    /\ UNCHANGED <<phase, loaded, panel>>

Next ==
    \/ Begin \/ Load \/ Submit \/ Abandon \/ Confirm
    \/ GiveUp \/ TimeOut \/ Appear \/ Quiet

Spec == Init /\ [][Next]_<<phase, loaded, panel, said>>

==============================================================================
