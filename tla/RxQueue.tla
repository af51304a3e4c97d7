------------------------------- MODULE RxQueue -------------------------------
(***************************************************************************)
(* RxQueue (ble_transport.h, ble_transport.cpp): the ring through which    *)
(* the BLE callback hands packets to loop().  push() and pop() run in two  *)
(* contexts and are taken apart into their accesses to head_, tail_ and    *)
(* the slots.  An oversize or empty write is refused before any of them,   *)
(* and is left out.                                                        *)
(*                                                                         *)
(* Neither index is atomic and the slots are not volatile, so nothing      *)
(* orders the memcpy of push() before its store to head_ as the other      *)
(* context sees them.  StoresInOrder is TRUE where the compiler and the    *)
(* cores happen to keep that order.                                        *)
(***************************************************************************)
EXTENDS Naturals, Sequences

CONSTANTS
    Packets,         \* the packets clients write
    NoPacket,        \* a slot nobody wrote to
    RxSlots,         \* RX_QUEUE_SLOTS: 24
    StoresInOrder

ASSUME RxQueueAssumption ==
    /\ RxSlots \in Nat \ {0, 1}
    /\ StoresInOrder \in BOOLEAN
    /\ NoPacket \notin Packets

VARIABLES
    slots,        \* slots_, as loop() sees them
    head,         \* head_
    tail,         \* tail_
    high_water,   \* high_water_
    pushing,      \* where push() is: idle, check, fill, publish, measure
    packet,       \* the packet being pushed
    unseen,       \* a store to a slot that loop() does not see yet
    popping,      \* where pop() is: idle, copy, advance
    copied,       \* *out, being filled
    handled,      \* the packet pop() returned last
    refused       \* whether the last push() returned false

vars == <<slots, head, tail, high_water, pushing, packet, unseen,
          popping, copied, handled, refused>>

Indices == 0 .. RxSlots - 1
NothingUnseen == <<>>

(* Mutant: the index does not wrap. *)
NextIndexUnwrapped(i) == i + 1

NextIndex(i) == (i + 1) % RxSlots

Init ==
    /\ slots = [i \in Indices |-> NoPacket]
    /\ head = 0 /\ tail = 0 /\ high_water = 0
    /\ pushing = "idle" /\ packet = NoPacket /\ unseen = NothingUnseen
    /\ popping = "idle" /\ copied = NoPacket
    /\ handled = NoPacket /\ refused = FALSE

------------------------------------------------------------------------------
(* push(), in the context of the BLE callback *)

PushStarts ==
    /\ pushing = "idle"
    /\ \E p \in Packets : packet' = p
    /\ pushing' = "check"
    /\ UNCHANGED <<slots, head, tail, high_water, unseen, popping, copied, handled, refused>>

(* Mutant: nothing is ever refused. *)
RingIsNeverFull == FALSE

(* One slot stays free, so that a full ring differs from an empty one. *)
RingIsFull == NextIndex(head) = tail

PushRefused ==
    /\ pushing = "check"
    /\ RingIsFull
    /\ pushing' = "idle"
    /\ refused' = TRUE
    /\ UNCHANGED <<slots, head, tail, high_water, packet, unseen, popping, copied, handled>>

PushChecked ==
    /\ pushing = "check"
    /\ ~RingIsFull
    /\ pushing' = "fill"
    /\ UNCHANGED <<slots, head, tail, high_water, packet, unseen, popping, copied, handled, refused>>

(* The memcpy. loop() sees the store some time later; what was unseen before    *)
(* has long become visible.                                                   *)
PushFills ==
    /\ pushing = "fill"
    /\ unseen = NothingUnseen
    /\ unseen' = <<head, packet>>
    /\ pushing' = "publish"
    /\ UNCHANGED <<slots, head, tail, high_water, packet, popping, copied, handled, refused>>

(* A delayed store reaches the memory that loop() reads. *)
StoreBecomesVisible ==
    /\ unseen # NothingUnseen
    /\ slots' = [slots EXCEPT ![unseen[1]] = unseen[2]]
    /\ unseen' = NothingUnseen
    /\ UNCHANGED <<head, tail, high_water, pushing, packet, popping, copied, handled, refused>>

PushPublishes ==
    /\ pushing = "publish"
    /\ StoresInOrder => unseen = NothingUnseen
    /\ head' = NextIndex(head)
    /\ refused' = FALSE
    /\ pushing' = "measure"
    /\ UNCHANGED <<slots, tail, high_water, packet, unseen, popping, copied, handled>>

(* tail_ is read again, and pop() may have moved it meanwhile. *)
Depth == (head + RxSlots - tail) % RxSlots

PushMeasures ==
    /\ pushing = "measure"
    /\ high_water' = IF Depth > high_water THEN Depth ELSE high_water
    /\ pushing' = "idle"
    /\ UNCHANGED <<slots, head, tail, packet, unseen, popping, copied, handled, refused>>

(* Mutant: head_ moves on before the slot is filled. *)
PushPublishesFirst ==
    \/ PushStarts \/ PushRefused \/ PushChecked \/ PushMeasures
    \/ /\ pushing = "fill"
       /\ head' = NextIndex(head)
       /\ refused' = FALSE
       /\ pushing' = "publish"
       /\ UNCHANGED <<slots, tail, high_water, packet, unseen, popping, copied, handled>>
    \/ /\ pushing = "publish"
       /\ slots' = [slots EXCEPT ![(head + RxSlots - 1) % RxSlots] = packet]
       /\ pushing' = "measure"
       /\ UNCHANGED <<head, tail, high_water, packet, unseen, popping, copied, handled, refused>>

Push == PushStarts \/ PushRefused \/ PushChecked \/ PushFills \/ PushPublishes \/ PushMeasures

------------------------------------------------------------------------------
(* pop(), in loop() *)

(* Mutant: the last packet is taken for an empty ring. *)
PopStartsLate ==
    /\ popping = "idle"
    /\ tail # head /\ NextIndex(tail) # head
    /\ popping' = "copy"
    /\ UNCHANGED <<slots, head, tail, high_water, pushing, packet, unseen, copied, handled, refused>>

(* pop() finds the ring empty and returns false, and nothing has changed:     *)
(* that is no step.                                                           *)
PopStarts ==
    /\ popping = "idle"
    /\ tail # head
    /\ popping' = "copy"
    /\ UNCHANGED <<slots, head, tail, high_water, pushing, packet, unseen, copied, handled, refused>>

PopCopies ==
    /\ popping = "copy"
    /\ copied' = slots[tail]
    /\ popping' = "advance"
    /\ UNCHANGED <<slots, head, tail, high_water, pushing, packet, unseen, handled, refused>>

PopAdvances ==
    /\ popping = "advance"
    /\ tail' = NextIndex(tail)
    /\ handled' = copied
    /\ popping' = "idle"
    /\ UNCHANGED <<slots, head, high_water, pushing, packet, unseen, copied, refused>>

Pop == PopStarts \/ PopCopies \/ PopAdvances

------------------------------------------------------------------------------
Next == Push \/ Pop \/ StoreBecomesVisible

Spec == Init /\ [][Next]_vars

(* loop() is called for ever, a callback that started ends, and a store does  *)
(* not stay invisible.                                                        *)
FairSpec ==
    /\ Spec
    /\ WF_vars(Pop)
    /\ WF_vars(Push /\ pushing # "idle")
    /\ WF_vars(StoreBecomesVisible)

------------------------------------------------------------------------------
(* Properties *)

TypeOK ==
    /\ slots \in [Indices -> Packets \cup {NoPacket}]
    /\ head \in Indices /\ tail \in Indices /\ high_water \in Indices
    /\ pushing \in {"idle", "check", "fill", "publish", "measure"}
    /\ packet \in Packets \cup {NoPacket}
    /\ unseen \in {NothingUnseen} \cup (Indices \X Packets)
    /\ popping \in {"idle", "copy", "advance"}
    /\ copied \in Packets \cup {NoPacket} /\ handled \in Packets \cup {NoPacket}
    /\ refused \in BOOLEAN

(* push() never fills the slot that pop() is copying from, and pop() never      *)
(* copies from a slot that push() has not published.                            *)
SlotsApart ==
    /\ pushing \in {"fill", "publish"} => NextIndex(head) # tail
    /\ popping # "idle" => head # tail

(* The ring is a bounded queue of RX_QUEUE_SLOTS - 1 packets: in order, nothing *)
(* lost but what push() refused, and refused only when the ring was full.       *)
Items == [i \in 1 .. Depth |-> slots[(tail + i - 1) % RxSlots]]

Queue == INSTANCE PacketQueue WITH Capacity <- RxSlots - 1, items <- Items

ImplementsQueue == Queue!Spec

(* ble_transport.h:13: "the queue handoff is guarded". A packet that pop()      *)
(* returns was written by push(), whatever order loop() sees the stores in.     *)
HandoffGuarded == popping = "advance" => copied \in Packets

(* Every packet in the ring is popped, however long the client keeps writing.   *)
PacketsHandled == \A t \in Indices : (tail = t /\ head # t) ~> tail # t

==============================================================================
