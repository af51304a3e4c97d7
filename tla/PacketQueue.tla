----------------------------- MODULE PacketQueue -----------------------------
(***************************************************************************)
(* What the BLE callback and loop() may rely on between them: a bounded    *)
(* first-in first-out queue that loses a packet only when it is full, and  *)
(* then tells the callback so.                                             *)
(***************************************************************************)
EXTENDS Naturals, Sequences

CONSTANTS
    Packets,
    Capacity,
    NoPacket     \* what pop() has returned before it returned anything

VARIABLES
    items,       \* the packets queued, oldest first
    handled,     \* the packet pop() returned last
    refused      \* whether the last push() was refused

Init == items = <<>> /\ handled = NoPacket /\ refused = FALSE

Put ==
    /\ Len(items) < Capacity
    /\ \E p \in Packets : items' = Append(items, p)
    /\ refused' = FALSE
    /\ UNCHANGED handled

Refuse ==
    /\ Len(items) = Capacity
    /\ refused' = TRUE
    /\ UNCHANGED <<items, handled>>

Take ==
    /\ items # <<>>
    /\ handled' = Head(items)
    /\ items' = Tail(items)
    /\ UNCHANGED refused

Next == Put \/ Refuse \/ Take

Spec == Init /\ [][Next]_<<items, handled, refused>>

==============================================================================
