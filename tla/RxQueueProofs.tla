---------------------------- MODULE RxQueueProofs ----------------------------
(***************************************************************************)
(* What keeps push() and pop() of RxQueue apart, for every ring size, and  *)
(* what the handoff owes to the order in which the stores become visible.  *)
(***************************************************************************)
EXTENDS RxQueue, SequenceTheorems, TLAPS

LEMMA NextIndexCases ==
    ASSUME NEW i \in Indices
    PROVE  /\ NextIndex(i) \in Indices
           /\ i = RxSlots - 1 => NextIndex(i) = 0
           /\ i # RxSlots - 1 => NextIndex(i) = i + 1
  BY RxQueueAssumption DEF NextIndex, Indices

LEMMA DepthInIndices ==
    ASSUME head \in Indices, tail \in Indices
    PROVE  Depth \in Indices
  BY RxQueueAssumption DEF Depth, Indices

------------------------------------------------------------------------------
(* Type correctness. A push() that got past its start carries a packet.        *)
TypeInv ==
    /\ TypeOK
    /\ pushing # "idle" => packet \in Packets

LEMMA TypeInit == Init => TypeInv
  BY RxQueueAssumption DEF Init, TypeInv, TypeOK, Indices, NothingUnseen

LEMMA TypePush ==
    ASSUME TypeInv, Push
    PROVE  TypeInv'
  <1> USE DEF TypeInv, TypeOK
  <1>1. CASE PushStarts
    BY <1>1 DEF PushStarts
  <1>2. CASE PushRefused
    BY <1>2 DEF PushRefused
  <1>3. CASE PushChecked
    BY <1>3 DEF PushChecked
  <1>4. CASE PushFills
    BY <1>4 DEF PushFills
  <1>5. CASE PushPublishes
    BY <1>5, NextIndexCases DEF PushPublishes
  <1>6. CASE PushMeasures
    BY <1>6, DepthInIndices DEF PushMeasures
  <1>7. QED
    BY <1>1, <1>2, <1>3, <1>4, <1>5, <1>6 DEF Push

LEMMA TypePop ==
    ASSUME TypeInv, Pop
    PROVE  TypeInv'
  <1> USE DEF TypeInv, TypeOK
  <1>1. CASE PopStarts
    BY <1>1 DEF PopStarts
  <1>2. CASE PopCopies
    BY <1>2 DEF PopCopies
  <1>3. CASE PopAdvances
    BY <1>3, NextIndexCases DEF PopAdvances
  <1>4. QED
    BY <1>1, <1>2, <1>3 DEF Pop

LEMMA TypeVisible ==
    ASSUME TypeInv, StoreBecomesVisible
    PROVE  TypeInv'
  <1>1. unseen \in Indices \X Packets
    BY DEF TypeInv, TypeOK, StoreBecomesVisible
  <1>2. unseen[1] \in Indices /\ unseen[2] \in Packets
    BY <1>1
  <1>3. slots' \in [Indices -> Packets \cup {NoPacket}]
    BY <1>2 DEF TypeInv, TypeOK, StoreBecomesVisible
  <1>4. QED
    BY <1>3 DEF TypeInv, TypeOK, StoreBecomesVisible

LEMMA TypeStep == TypeInv /\ [Next]_vars => TypeInv'
  <1>1. TypeInv /\ UNCHANGED vars => TypeInv'
    BY DEF TypeInv, TypeOK, vars
  <1>2. QED
    BY <1>1, TypePush, TypePop, TypeVisible DEF Next

(* The indices stay inside of the ring and push() never fills a slot with      *)
(* nothing (push() and pop()).                                                 *)
THEOREM TypeCorrect == Spec => []TypeOK
  <1>1. TypeInv => TypeOK
    BY DEF TypeInv
  <1>2. QED
    BY <1>1, TypeInit, TypeStep, PTL DEF Spec

LEMMA TypeInvHolds == Spec => []TypeInv
  BY TypeInit, TypeStep, PTL DEF Spec

------------------------------------------------------------------------------
(* The slot being filled and the slot being copied. Each side tests the other  *)
(* side's index once and acts on it later: that is safe because the other side *)
(* only ever moves its index away.                                             *)
LEMMA SlotsApartStep == TypeInv /\ SlotsApart /\ [Next]_vars => SlotsApart'
  <1> SUFFICES ASSUME TypeInv, SlotsApart, [Next]_vars
               PROVE  SlotsApart'
    OBVIOUS
  <1> USE DEF SlotsApart
  <1>t. head \in Indices /\ tail \in Indices
    BY DEF TypeInv, TypeOK
  <1>1. CASE PushStarts
    BY <1>1 DEF PushStarts, NextIndex
  <1>2. CASE PushRefused
    BY <1>2 DEF PushRefused, NextIndex
  <1>3. CASE PushChecked
    BY <1>3 DEF PushChecked, RingIsFull, NextIndex
  <1>4. CASE PushFills
    BY <1>4 DEF PushFills, NextIndex
  <1>5. CASE PushPublishes
    BY <1>5 DEF PushPublishes
  <1>6. CASE PushMeasures
    BY <1>6 DEF PushMeasures
  <1>7. CASE PopStarts
    BY <1>7 DEF PopStarts, NextIndex
  <1>8. CASE PopCopies
    BY <1>8 DEF PopCopies, NextIndex
  <1>9. CASE PopAdvances
    <2>1. NextIndex(head) # NextIndex(tail)
      BY <1>9, <1>t, NextIndexCases, RxQueueAssumption DEF PopAdvances, Indices
    <2>2. QED
      BY <1>9, <2>1 DEF PopAdvances, NextIndex
  <1>10. CASE StoreBecomesVisible
    BY <1>10 DEF StoreBecomesVisible, NextIndex
  <1>11. CASE UNCHANGED vars
    BY <1>11 DEF vars, NextIndex
  <1>12. QED
    BY <1>1, <1>2, <1>3, <1>4, <1>5, <1>6, <1>7, <1>8, <1>9, <1>10, <1>11
       DEF Next, Push, Pop

(* push() and pop() never use one slot at a time, whichever steps of theirs     *)
(* interleave and whatever the size of the ring (RxQueue::push, RxQueue::pop).  *)
THEOREM SlotsApartHolds == Spec => []SlotsApart
  <1>1. Init => SlotsApart
    BY DEF Init, SlotsApart
  <1>2. QED
    BY <1>1, TypeInvHolds, SlotsApartStep, PTL DEF Spec

------------------------------------------------------------------------------
(* The handoff, where the stores of push() are seen in the order it makes them. *)
Occupied(i) == IF tail <= head THEN tail <= i /\ i < head ELSE tail <= i \/ i < head

HandoffInv ==
    /\ \A i \in Indices : Occupied(i) => slots[i] \in Packets
    /\ unseen # NothingUnseen => pushing = "publish" /\ unseen \in {head} \X Packets
    /\ pushing = "publish" => slots[head] \in Packets \/ unseen # NothingUnseen
    /\ HandoffGuarded

LEMMA HandoffStep ==
    ASSUME StoresInOrder, TypeInv, SlotsApart, HandoffInv, [Next]_vars
    PROVE  HandoffInv'
  <1>t. /\ head \in Indices /\ tail \in Indices
        /\ slots \in [Indices -> Packets \cup {NoPacket}]
        /\ RxSlots \in Nat \ {0, 1} /\ Indices = 0 .. RxSlots - 1
    BY RxQueueAssumption DEF TypeInv, TypeOK, Indices
  <1>same. ASSUME UNCHANGED <<slots, head, tail>>
           PROVE  \A i \in Indices : Occupied(i)' => slots'[i] \in Packets
    BY <1>same DEF HandoffInv, Occupied
  <1>1. CASE PushStarts \/ PushRefused \/ PushChecked \/ PushMeasures
    BY <1>1, <1>same DEF HandoffInv, HandoffGuarded, PushStarts, PushRefused, PushChecked,
                         PushMeasures
  <1>2. CASE PushFills
    <2>1. unseen' \in {head} \X Packets /\ unseen' # NothingUnseen
      BY <1>2 DEF PushFills, TypeInv, NothingUnseen
    <2>2. QED
      BY <1>2, <2>1, <1>same DEF HandoffInv, HandoffGuarded, PushFills
  <1>3. CASE PushPublishes
    <2>1. slots[head] \in Packets /\ unseen' = NothingUnseen
      BY <1>3 DEF PushPublishes, HandoffInv
    <2>2. ASSUME NEW i \in Indices, Occupied(i)'
          PROVE  Occupied(i) \/ i = head
      <3>1. tail' = tail /\ head' = NextIndex(head) /\ NextIndex(head) # tail
        BY <1>3 DEF PushPublishes, SlotsApart
      <3>2. head' = IF head = RxSlots - 1 THEN 0 ELSE head + 1
        BY <1>t, <3>1, NextIndexCases
      <3>3. QED
        BY <1>t, <2>2, <3>1, <3>2 DEF Occupied
    <2>3. \A i \in Indices : Occupied(i)' => slots'[i] \in Packets
      BY <1>3, <2>1, <2>2 DEF PushPublishes, HandoffInv
    <2>4. QED
      BY <1>3, <2>1, <2>3 DEF PushPublishes, HandoffInv, HandoffGuarded
  <1>4. CASE PopStarts
    BY <1>4, <1>same DEF HandoffInv, HandoffGuarded, PopStarts
  <1>5. CASE PopCopies
    <2>1. Occupied(tail)
      BY <1>5, <1>t DEF PopCopies, SlotsApart, Occupied
    <2>2. copied' \in Packets
      BY <1>5, <1>t, <2>1 DEF PopCopies, HandoffInv
    <2>3. QED
      BY <1>5, <2>2, <1>same DEF PopCopies, HandoffInv, HandoffGuarded
  <1>6. CASE PopAdvances
    <2>1. ASSUME NEW i \in Indices, Occupied(i)'
          PROVE  Occupied(i)
      <3>1. head' = head /\ tail' = NextIndex(tail) /\ head # tail
        BY <1>6 DEF PopAdvances, SlotsApart
      <3>2. tail' = IF tail = RxSlots - 1 THEN 0 ELSE tail + 1
        BY <1>t, <3>1, NextIndexCases
      <3>3. QED
        BY <1>t, <2>1, <3>1, <3>2 DEF Occupied
    <2>2. QED
      BY <1>6, <2>1 DEF PopAdvances, HandoffInv, HandoffGuarded
  <1>7. CASE StoreBecomesVisible
    <2>1. unseen[1] = head /\ unseen[2] \in Packets
      BY <1>7 DEF StoreBecomesVisible, HandoffInv
    <2>2. slots' = [slots EXCEPT ![head] = unseen[2]]
      BY <1>7, <2>1 DEF StoreBecomesVisible
    <2>3. slots'[head] \in Packets
      BY <1>t, <2>1, <2>2
    <2>4. \A i \in Indices : Occupied(i)' => slots'[i] \in Packets
      BY <1>7, <1>t, <2>1, <2>2 DEF StoreBecomesVisible, HandoffInv, Occupied
    <2>5. QED
      BY <1>7, <2>3, <2>4 DEF StoreBecomesVisible, HandoffInv, HandoffGuarded
  <1>8. CASE UNCHANGED vars
    BY <1>8, <1>same DEF vars, HandoffInv, HandoffGuarded
  <1>9. QED
    BY <1>1, <1>2, <1>3, <1>4, <1>5, <1>6, <1>7, <1>8 DEF Next, Push, Pop

(* ble_transport.h:13 says the handoff is guarded. It is on a build that keeps    *)
(* the memcpy of push() before its store to head_, and only there: the run        *)
(* rx_weak_order shows the other case.                                            *)
THEOREM HandoffGuardedInOrder == Spec => [](StoresInOrder => HandoffGuarded)
  <1> DEFINE Inv == StoresInOrder => HandoffInv
  <1>1. Init => Inv
    BY RxQueueAssumption DEF Init, HandoffInv, HandoffGuarded, Occupied, Indices
  <1>2. TypeInv /\ SlotsApart /\ Inv /\ [Next]_vars => Inv'
    BY HandoffStep
  <1>3. Inv => (StoresInOrder => HandoffGuarded)
    BY DEF HandoffInv
  <1> HIDE DEF Inv
  <1>4. QED
    BY <1>1, <1>2, <1>3, TypeInvHolds, SlotsApartHolds, PTL DEF Spec

------------------------------------------------------------------------------
(* The ring implements the queue: its contents, as a sequence. *)

Content(ring, t, d) == [i \in 1 .. d |-> ring[(t + i - 1) % RxSlots]]
Distance(h, t) == (h + RxSlots - t) % RxSlots

LEMMA RingSize == RxSlots \in Nat \ {0, 1} /\ Indices = 0 .. RxSlots - 1
  BY RxQueueAssumption DEF Indices

LEMMA WrapOnce ==
    ASSUME NEW n \in Nat \ {0}, NEW a \in Nat, a < 2 * n
    PROVE  a % n = IF a < n THEN a ELSE a - n
  OBVIOUS

LEMMA DistanceCases ==
    ASSUME NEW h \in Indices, NEW t \in Indices
    PROVE  /\ Distance(h, t) = IF t <= h THEN h - t ELSE h + RxSlots - t
           /\ Distance(h, t) \in Indices
  <1> DEFINE a == h + RxSlots - t
  <1>1. a \in Nat /\ a < 2 * RxSlots
    BY RingSize
  <1>2. Distance(h, t) = a % RxSlots
    BY DEF Distance
  <1> HIDE DEF a
  <1>3. a % RxSlots = IF a < RxSlots THEN a ELSE a - RxSlots
    BY <1>1, WrapOnce, RingSize
  <1>4. QED
    BY <1>2, <1>3, RingSize DEF a

LEMMA SlotCases ==
    ASSUME NEW t \in Indices, NEW i \in 1 .. RxSlots
    PROVE  /\ (t + i - 1) % RxSlots = IF t + i - 1 < RxSlots THEN t + i - 1 ELSE t + i - 1 - RxSlots
           /\ (t + i - 1) % RxSlots \in Indices
  <1> DEFINE a == t + i - 1
  <1>1. a \in Nat /\ a < 2 * RxSlots
    BY RingSize
  <1> HIDE DEF a
  <1>2. a % RxSlots = IF a < RxSlots THEN a ELSE a - RxSlots
    BY <1>1, WrapOnce, RingSize
  <1>3. a % RxSlots \in Indices
    BY <1>1, <1>2, RingSize
  <1>4. QED
    BY <1>1, <1>2, <1>3, RingSize DEF a

(* push() finds the ring full when one slot is left, and not before.            *)
LEMMA OneSlotLeft ==
    ASSUME NEW h \in Indices, NEW t \in Indices
    PROVE  /\ NextIndex(h) = t => Distance(h, t) = RxSlots - 1
           /\ NextIndex(h) # t => Distance(h, t) < RxSlots - 1
  <1> DEFINE d == Distance(h, t)
             n == NextIndex(h)
  <1>1. d = IF t <= h THEN h - t ELSE h + RxSlots - t
    BY DistanceCases
  <1>2. n = IF h = RxSlots - 1 THEN 0 ELSE h + 1
    BY NextIndexCases
  <1> HIDE DEF d, n
  <1>3. (n = t => d = RxSlots - 1) /\ (n # t => d < RxSlots - 1)
    BY <1>1, <1>2, RingSize
  <1>4. QED
    BY <1>3 DEF d, n

LEMMA ContentTyped ==
    ASSUME NEW S, NEW ring \in [Indices -> S], NEW t \in Indices, NEW d \in Indices
    PROVE  Content(ring, t, d) \in Seq(S) /\ Len(Content(ring, t, d)) = d
  <1>1. d \in Nat /\ d < RxSlots
    BY RingSize
  <1>2. \A i \in 1 .. d : ring[(t + i - 1) % RxSlots] \in S
    BY <1>1, SlotCases, RingSize
  <1>3. QED
    BY <1>1, <1>2 DEF Content

(* The slot that is filled next is none of those in the queue.                  *)
LEMMA HeadIsFree ==
    ASSUME NEW h \in Indices, NEW t \in Indices, NEW i \in 1 .. Distance(h, t)
    PROVE  (t + i - 1) % RxSlots # h
  <1> DEFINE d == Distance(h, t)
  <1>d. d \in Indices /\ d = IF t <= h THEN h - t ELSE h + RxSlots - t
    BY DistanceCases
  <1> HIDE DEF d
  <1>1. i \in 1 .. RxSlots /\ i <= d
    BY <1>d, RingSize DEF d
  <1>2. (t + i - 1) % RxSlots = IF t + i - 1 < RxSlots THEN t + i - 1 ELSE t + i - 1 - RxSlots
    BY <1>1, SlotCases
  <1>3. h \in 0 .. RxSlots - 1 /\ t \in 0 .. RxSlots - 1 /\ RxSlots \in Nat
    BY RingSize
  <1> DEFINE slot == (t + i - 1) % RxSlots
  <1> HIDE DEF slot
  <1>4. slot # h
    BY <1>d, <1>1, <1>2, <1>3 DEF slot
  <1>5. QED
    BY <1>4 DEF slot

LEMMA ContentAppend ==
    ASSUME NEW S, NEW ring \in [Indices -> S], NEW h \in Indices, NEW t \in Indices,
           NextIndex(h) # t
    PROVE  /\ Distance(NextIndex(h), t) = Distance(h, t) + 1
           /\ Content(ring, t, Distance(h, t) + 1) = Append(Content(ring, t, Distance(h, t)), ring[h])
  <1> DEFINE d == Distance(h, t)
  <1>1. /\ d = IF t <= h THEN h - t ELSE h + RxSlots - t
        /\ d \in Indices
    BY DistanceCases
  <1>2. NextIndex(h) \in Indices /\ NextIndex(h) = IF h = RxSlots - 1 THEN 0 ELSE h + 1
    BY NextIndexCases
  <1>3. Distance(NextIndex(h), t) =
            IF t <= NextIndex(h) THEN NextIndex(h) - t ELSE NextIndex(h) + RxSlots - t
    BY <1>2, DistanceCases
  <1> HIDE DEF d
  <1>4. Distance(NextIndex(h), t) = d + 1
    BY <1>1, <1>2, <1>3, RingSize
  <1>5. d + 1 \in 1 .. RxSlots
    BY <1>1, RingSize
  <1>6. (t + (d + 1) - 1) % RxSlots = h
    <2>1. (t + (d + 1) - 1) % RxSlots =
              IF t + (d + 1) - 1 < RxSlots THEN t + (d + 1) - 1 ELSE t + (d + 1) - 1 - RxSlots
      BY <1>5, SlotCases
    <2>2. (IF t + (d + 1) - 1 < RxSlots THEN t + (d + 1) - 1 ELSE t + (d + 1) - 1 - RxSlots) = h
      BY <1>1, RingSize
    <2>3. QED
      BY <2>1, <2>2
  <1>7. Content(ring, t, d) \in Seq(S) /\ Len(Content(ring, t, d)) = d /\ d \in Nat
    BY <1>1, ContentTyped, RingSize
  <1>8. Append(Content(ring, t, d), ring[h]) =
            [i \in 1 .. d + 1 |-> IF i <= d THEN Content(ring, t, d)[i] ELSE ring[h]]
    BY <1>7
  <1>9. \A i \in 1 .. d : Content(ring, t, d)[i] = ring[(t + i - 1) % RxSlots]
    BY DEF Content
  <1>10. \A i \in 1 .. d + 1 :
             ring[(t + i - 1) % RxSlots] = IF i <= d THEN Content(ring, t, d)[i] ELSE ring[h]
    <2>1. ASSUME NEW i \in 1 .. d + 1, ~(i <= d) PROVE i = d + 1
      BY <1>7, <2>1
    <2>2. ASSUME NEW i \in 1 .. d + 1, i <= d PROVE i \in 1 .. d
      BY <1>7, <2>2
    <2>3. QED
      BY <1>6, <1>9, <2>1, <2>2
  <1>11. Content(ring, t, d + 1) = Append(Content(ring, t, d), ring[h])
    BY <1>8, <1>10 DEF Content
  <1>12. QED
    BY <1>4, <1>11 DEF d

LEMMA ContentTail ==
    ASSUME NEW S, NEW ring \in [Indices -> S], NEW h \in Indices, NEW t \in Indices, h # t
    PROVE  /\ Content(ring, t, Distance(h, t)) # <<>>
           /\ Head(Content(ring, t, Distance(h, t))) = ring[t]
           /\ Content(ring, NextIndex(t), Distance(h, NextIndex(t))) =
                  Tail(Content(ring, t, Distance(h, t)))
  <1> DEFINE d == Distance(h, t)
             q == Content(ring, t, d)
             u == NextIndex(t)
  <1>1. /\ d = IF t <= h THEN h - t ELSE h + RxSlots - t
        /\ d \in Indices
    BY DistanceCases
  <1>2. u \in Indices /\ u = IF t = RxSlots - 1 THEN 0 ELSE t + 1
    BY NextIndexCases
  <1>3. Distance(h, u) = IF u <= h THEN h - u ELSE h + RxSlots - u
    BY <1>2, DistanceCases
  <1>4. q \in Seq(S) /\ Len(q) = d
    BY <1>1, ContentTyped
  <1>5. \A i \in 1 .. d : q[i] = ring[(t + i - 1) % RxSlots]
    BY DEF Content
  <1> HIDE DEF d, u, q
  <1>6. d \in Nat \ {0} /\ d < RxSlots /\ Distance(h, u) = d - 1
    BY <1>1, <1>2, <1>3, RingSize
  <1>7. q # <<>> /\ Head(q) = q[1]
    BY <1>4, <1>6
  <1>8. (t + 1 - 1) % RxSlots = t
    <2>1. 1 \in 1 .. RxSlots
      BY RingSize
    <2>2. QED
      BY <2>1, SlotCases, RingSize
  <1>9. Head(q) = ring[t]
    BY <1>5, <1>6, <1>7, <1>8
  <1>10. /\ Tail(q) \in Seq(S) /\ Len(Tail(q)) = d - 1
         /\ \A i \in 1 .. d - 1 : Tail(q)[i] = q[i + 1]
    BY <1>4, <1>7, HeadTailProperties
  <1>11. ASSUME NEW i \in 1 .. d - 1
         PROVE  q[i + 1] = ring[(u + i - 1) % RxSlots]
    <2>1. i \in 1 .. RxSlots /\ i + 1 \in 1 .. RxSlots /\ i + 1 \in 1 .. d
      BY <1>6, RingSize
    <2>2. (u + i - 1) % RxSlots = IF u + i - 1 < RxSlots THEN u + i - 1 ELSE u + i - 1 - RxSlots
      BY <1>2, <2>1, SlotCases
    <2>3. (t + (i + 1) - 1) % RxSlots =
              IF t + (i + 1) - 1 < RxSlots THEN t + (i + 1) - 1 ELSE t + (i + 1) - 1 - RxSlots
      BY <2>1, SlotCases
    <2>4. (IF u + i - 1 < RxSlots THEN u + i - 1 ELSE u + i - 1 - RxSlots) =
              IF t + (i + 1) - 1 < RxSlots THEN t + (i + 1) - 1 ELSE t + (i + 1) - 1 - RxSlots
      BY <1>2, <2>1, RingSize
    <2>5. q[i + 1] = ring[(t + (i + 1) - 1) % RxSlots]
      BY <1>5, <2>1
    <2>6. QED
      BY <2>2, <2>3, <2>4, <2>5
  <1>12. Content(ring, u, d - 1) = Tail(q)
    <2>1. d - 1 \in Indices
      BY <1>6, RingSize
    <2>2. Content(ring, u, d - 1) \in Seq(S) /\ Len(Content(ring, u, d - 1)) = d - 1
      BY <1>2, <2>1, ContentTyped, ZenonT(60)
    <2>3. \A i \in 1 .. d - 1 : Content(ring, u, d - 1)[i] = ring[(u + i - 1) % RxSlots]
      BY DEF Content
    <2>4. \A i \in 1 .. d - 1 : Content(ring, u, d - 1)[i] = Tail(q)[i]
      BY <1>10, <1>11, <2>3
    <2>5. QED
      BY <1>10, <2>2, <2>4, SeqEqual
  <1>13. QED
    BY <1>6, <1>7, <1>9, <1>12 DEF d, q, u

(* pop() returns the packet it copied before it moved on: nothing can overwrite *)
(* the slot in between.                                                         *)
RefineInv == HandoffInv /\ (popping = "advance" => copied = slots[tail])

LEMMA CopiedStep ==
    ASSUME TypeInv, SlotsApart, HandoffInv, popping = "advance" => copied = slots[tail],
           [Next]_vars
    PROVE  (popping = "advance" => copied = slots[tail])'
  <1>1. CASE PushStarts \/ PushRefused \/ PushChecked \/ PushFills \/ PushPublishes \/ PushMeasures
    BY <1>1 DEF PushStarts, PushRefused, PushChecked, PushFills, PushPublishes, PushMeasures
  <1>2. CASE PopStarts \/ PopCopies \/ PopAdvances
    BY <1>2 DEF PopStarts, PopCopies, PopAdvances
  <1>3. CASE StoreBecomesVisible
    <2>1. unseen[1] = head /\ UNCHANGED <<tail, popping, copied>>
      BY <1>3 DEF StoreBecomesVisible, HandoffInv
    <2>2. slots' = [slots EXCEPT ![head] = unseen[2]]
      BY <1>3, <2>1 DEF StoreBecomesVisible
    <2>3. popping # "idle" => slots'[tail] = slots[tail]
      BY <2>2 DEF SlotsApart, TypeInv, TypeOK
    <2>4. QED
      BY <2>1, <2>3
  <1>4. CASE UNCHANGED vars
    BY <1>4 DEF vars
  <1>5. QED
    BY <1>1, <1>2, <1>3, <1>4 DEF Next, Push, Pop

LEMMA ItemsContent ==
    /\ Items = Content(slots, tail, Distance(head, tail))
    /\ Items' = Content(slots', tail', Distance(head', tail'))
  BY DEF Items, Content, Distance, Depth

LEMMA RefineStep ==
    ASSUME StoresInOrder, TypeInv, SlotsApart, RefineInv, [Next]_vars
    PROVE  [Queue!Next]_<<Items, handled, refused>>
  <1> DEFINE S == Packets \cup {NoPacket}
  <1>t. head \in Indices /\ tail \in Indices /\ slots \in [Indices -> S]
    BY DEF TypeInv, TypeOK
  <1>same. ASSUME UNCHANGED <<slots, head, tail>> PROVE Items' = Items
    BY <1>same, ItemsContent
  <1> HIDE DEF S
  <1>d. Distance(head, tail) \in 0 .. RxSlots - 1 /\ RxSlots \in Nat
    BY <1>t, DistanceCases, RingSize
  <1>len. Len(Items) = Distance(head, tail)
    <2>1. Distance(head, tail) \in Indices
      BY <1>d, RingSize
    <2>2. Len(Content(slots, tail, Distance(head, tail))) = Distance(head, tail)
      BY <1>t, <2>1, ContentTyped
    <2>3. QED
      BY <2>2, ItemsContent
  <1>1. CASE PushStarts \/ PushChecked \/ PushMeasures \/ PushFills
    BY <1>1, <1>same DEF PushStarts, PushChecked, PushMeasures, PushFills
  <1>2. CASE PushRefused
    <2>1. NextIndex(head) = tail /\ refused' = TRUE /\ UNCHANGED <<slots, head, tail, handled>>
      BY <1>2 DEF PushRefused, RingIsFull
    <2>2. Distance(head, tail) = RxSlots - 1
      BY <1>t, <2>1, OneSlotLeft
    <2>3. QED
      BY <1>len, <1>same, <2>1, <2>2 DEF Queue!Next, Queue!Refuse
  <1>3. CASE PushPublishes
    <2>1. /\ head' = NextIndex(head) /\ NextIndex(head) # tail /\ refused' = FALSE
          /\ UNCHANGED <<slots, tail, handled>>
      BY <1>3 DEF PushPublishes, SlotsApart
    <2>2. Items' = Append(Items, slots[head])
      BY <1>t, <2>1, ItemsContent, ContentAppend
    <2>3. Distance(head, tail) < RxSlots - 1
      BY <1>t, <2>1, OneSlotLeft
    <2>4. slots[head] \in Packets
      BY <1>3 DEF PushPublishes, RefineInv, HandoffInv
    <2>5. QED
      BY <1>len, <2>1, <2>2, <2>3, <2>4 DEF Queue!Next, Queue!Put
  <1>4. CASE PopStarts \/ PopCopies
    BY <1>4, <1>same DEF PopStarts, PopCopies
  <1>5. CASE PopAdvances
    <2>1. /\ tail' = NextIndex(tail) /\ head # tail /\ handled' = slots[tail]
          /\ UNCHANGED <<slots, head, refused>>
      BY <1>5 DEF PopAdvances, SlotsApart, RefineInv
    <2>2. Items # <<>> /\ Head(Items) = slots[tail] /\ Items' = Tail(Items)
      BY <1>t, <2>1, ItemsContent, ContentTail
    <2>3. QED
      BY <2>1, <2>2 DEF Queue!Next, Queue!Take
  <1>6. CASE StoreBecomesVisible
    <2>1. slots' = [slots EXCEPT ![head] = unseen[2]] /\ UNCHANGED <<head, tail, handled, refused>>
      BY <1>6 DEF StoreBecomesVisible, RefineInv, HandoffInv
    <2>2. ASSUME NEW i \in 1 .. Distance(head, tail)
          PROVE  slots'[(tail + i - 1) % RxSlots] = slots[(tail + i - 1) % RxSlots]
      <3>1. (tail + i - 1) % RxSlots # head
        BY <1>t, HeadIsFree
      <3>2. i \in 1 .. RxSlots
        BY <1>d
      <3>3. (tail + i - 1) % RxSlots \in Indices
        BY <1>t, <3>2, SlotCases
      <3>4. QED
        BY <1>t, <2>1, <3>1, <3>3
    <2>3. Items' = Items
      BY <2>1, <2>2, ItemsContent DEF Content
    <2>4. QED
      BY <2>1, <2>3
  <1>7. CASE UNCHANGED vars
    BY <1>7, <1>same DEF vars
  <1>8. QED
    BY <1>1, <1>2, <1>3, <1>4, <1>5, <1>6, <1>7 DEF Next, Push, Pop

(* Where the stores are seen in order, the ring is a bounded first-in first-out    *)
(* queue for every number of slots: what push() accepts is handled once, in order, *)
(* and push() refuses only when RX_QUEUE_SLOTS - 1 packets wait (RxQueue).         *)
THEOREM RingImplementsQueue == StoresInOrder => (Spec => ImplementsQueue)
  <1> SUFFICES ASSUME StoresInOrder
               PROVE  Spec => ImplementsQueue
    OBVIOUS
  <1>1. Init => RefineInv
    BY RxQueueAssumption
       DEF Init, RefineInv, HandoffInv, HandoffGuarded, Occupied, Indices
  <1>2. TypeInv /\ SlotsApart /\ RefineInv /\ [Next]_vars => RefineInv'
    BY HandoffStep, CopiedStep DEF RefineInv
  <1>3. Init => Queue!Init
    BY RingSize DEF Init, Queue!Init, Items, Depth
  <1>4. TypeInv /\ SlotsApart /\ RefineInv /\ [Next]_vars
            => [Queue!Next]_<<Items, handled, refused>>
    BY RefineStep
  <1>5. QED
    BY <1>1, <1>2, <1>3, <1>4, TypeInvHolds, SlotsApartHolds, PTL
       DEF Spec, ImplementsQueue, Queue!Spec
==============================================================================
