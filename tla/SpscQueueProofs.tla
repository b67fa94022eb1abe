-------------------------- MODULE SpscQueueProofs --------------------------
(***************************************************************************)
(* Proofs about fins::SPSCQueue for every capacity and every set of        *)
(* messages.  The argument rests on the order of the four indices round    *)
(* the ring (IndexOrder) and on the slot each side owns while it is inside *)
(* its call (SlotOwned); both are needed for either to be preserved.       *)
(***************************************************************************)
EXTENDS SpscQueue, TLAPS

(***************************************************************************)
(* Arithmetic of the ring, with the modulus eliminated.                    *)
(***************************************************************************)
LEMMA SuccCases ==
  \A i \in Index : Succ(i) = IF i = Capacity THEN 0 ELSE i + 1
<1> SUFFICES ASSUME NEW i \in Index
             PROVE  Succ(i) = IF i = Capacity THEN 0 ELSE i + 1
  OBVIOUS
<1>1. CASE i = Capacity
  BY <1>1, CapacityAssumption DEF Succ, Index
<1>2. CASE i < Capacity
  BY <1>2, CapacityAssumption DEF Succ, Index
<1> QED BY <1>1, <1>2, CapacityAssumption DEF Index

\* Succ stays on the ring and is injective.
LEMMA SuccRing ==
  /\ \A i \in Index : Succ(i) \in Index /\ Succ(i) # i
  /\ \A i, j \in Index : Succ(i) = Succ(j) => i = j
BY SuccCases, CapacityAssumption DEF Index

\* The distance between two places of the ring, and how Succ changes it.
LEMMA Distance ==
  \A t, h \in Index :
    /\ ReadAvailable(t, h) \in 0 .. Capacity
    /\ ReadAvailable(t, h) = 0 <=> t = h
    /\ Succ(h) # t <=> ReadAvailable(t, h) < Capacity
    /\ Succ(h) # t => ReadAvailable(t, Succ(h)) = ReadAvailable(t, h) + 1
    /\ t # h => ReadAvailable(Succ(t), h) = ReadAvailable(t, h) - 1
<1> SUFFICES ASSUME NEW t \in Index, NEW h \in Index
    PROVE /\ ReadAvailable(t, h) \in 0 .. Capacity
          /\ ReadAvailable(t, h) = 0 <=> t = h
          /\ Succ(h) # t <=> ReadAvailable(t, h) < Capacity
          /\ Succ(h) # t => ReadAvailable(t, Succ(h)) = ReadAvailable(t, h) + 1
          /\ t # h => ReadAvailable(Succ(t), h) = ReadAvailable(t, h) - 1
  OBVIOUS
<1>1. /\ Succ(h) = IF h = Capacity THEN 0 ELSE h + 1
      /\ Succ(t) = IF t = Capacity THEN 0 ELSE t + 1
  BY SuccCases
<1> QED BY <1>1, CapacityAssumption DEF ReadAvailable, Index

\* Three places in ring order: the distance splits at the one in the middle.
LEMMA DistanceSplits ==
  \A t, m, h \in Index :
    ReadAvailable(t, m) <= ReadAvailable(t, h)
      => ReadAvailable(t, h) = ReadAvailable(t, m) + ReadAvailable(m, h)
BY CapacityAssumption DEF ReadAvailable, Index

\* Different places are at different distances.
LEMMA DistanceInjective ==
  \A t, a, b \in Index : ReadAvailable(t, a) = ReadAvailable(t, b) => a = b
BY CapacityAssumption DEF ReadAvailable, Index

-----------------------------------------------------------------------------
(***************************************************************************)
(* What the inductive invariant says about the true indices, free of what  *)
(* each side has seen: the producer's slot is outside the occupied region  *)
(* and the consumer's slot is inside it.                                   *)
(***************************************************************************)
LEMMA TrueIndices ==
  ASSUME TypeOK, IndexOrder
  PROVE  /\ ReadAvailable(tailSeen, head)
               = ReadAvailable(tailSeen, tail) + ReadAvailable(tail, head)
         /\ ReadAvailable(tailSeen, headSeen)
               = ReadAvailable(tailSeen, tail) + ReadAvailable(tail, headSeen)
         /\ ReadAvailable(tail, headSeen) <= ReadAvailable(tail, head)
         /\ Succ(head) # tailSeen => Succ(head) # tail
         /\ tail # headSeen => tail # head
<1>1. /\ head \in Index /\ headSeen \in Index
      /\ tail \in Index /\ tailSeen \in Index
  BY DEF TypeOK
<1>2. /\ ReadAvailable(tailSeen, tail) <= ReadAvailable(tailSeen, headSeen)
      /\ ReadAvailable(tailSeen, headSeen) <= ReadAvailable(tailSeen, head)
      /\ ReadAvailable(tailSeen, tail) <= ReadAvailable(tailSeen, head)
  <2>1. \A h \in Index : ReadAvailable(tailSeen, h) \in 0 .. Capacity
    BY <1>1, Distance
  <2> QED BY <1>1, <2>1, CapacityAssumption DEF IndexOrder
<1>3. /\ ReadAvailable(tailSeen, head)
            = ReadAvailable(tailSeen, tail) + ReadAvailable(tail, head)
      /\ ReadAvailable(tailSeen, headSeen)
            = ReadAvailable(tailSeen, tail) + ReadAvailable(tail, headSeen)
  BY <1>1, <1>2, DistanceSplits
<1>4. \A t, h \in Index : ReadAvailable(t, h) \in 0 .. Capacity
  BY Distance
<1>5. ReadAvailable(tail, headSeen) <= ReadAvailable(tail, head)
  BY <1>1, <1>2, <1>3, <1>4, CapacityAssumption
<1>6. Succ(head) # tailSeen => Succ(head) # tail
  <2>1. Succ(head) # tailSeen <=> ReadAvailable(tailSeen, head) < Capacity
    BY <1>1, Distance
  <2>2. Succ(head) # tail <=> ReadAvailable(tail, head) < Capacity
    BY <1>1, Distance
  <2> QED BY <1>1, <1>3, <1>4, <2>1, <2>2, CapacityAssumption
<1>7. tail # headSeen => tail # head
  <2>1. ReadAvailable(tail, headSeen) = 0 <=> tail = headSeen
    BY <1>1, Distance
  <2>2. ReadAvailable(tail, head) = 0 <=> tail = head
    BY <1>1, Distance
  <2> QED BY <1>1, <1>4, <1>5, <2>1, <2>2, CapacityAssumption
<1> QED BY <1>3, <1>5, <1>6, <1>7

LEMMA TypeInit == Init => TypeOK
<1>1. 0 \in Index
  BY CapacityAssumption DEF Index
<1> SUFFICES ASSUME Init PROVE TypeOK
  OBVIOUS
<1>2. buffer \in [Index -> Msg \cup {None}]
  BY DEF Init
<1>3. /\ prod \in [pc : {"idle", "write", "publish"}, item : Msg \cup {None}]
      /\ cons \in [pc : {"idle", "read", "advance"}, item : Msg \cup {None}]
  BY DEF Init
<1>4. /\ head \in Index /\ headSeen \in Index
      /\ tail \in Index /\ tailSeen \in Index
      /\ accepted \in BOOLEAN
      /\ got \in Msg \cup {None}
  BY <1>1 DEF Init
<1> QED BY <1>2, <1>3, <1>4 DEF TypeOK

LEMMA TypeStep == TypeOK /\ [Next]_vars => TypeOK'
<1> SUFFICES ASSUME TypeOK, [Next]_vars PROVE TypeOK'
  OBVIOUS
<1> USE DEF TypeOK
<1>1. CASE PushFull
  BY <1>1 DEF PushFull, consVars
<1>2. ASSUME NEW m \in Msg, PushStart(m) PROVE TypeOK'
  BY <1>2 DEF PushStart, consVars
<1>3. CASE PushWrite
  BY <1>3 DEF PushWrite, consVars
<1>4. CASE PushPublish
  BY <1>4, SuccRing DEF PushPublish, consVars
<1>5. CASE HeadArrives
  BY <1>5, SuccRing DEF HeadArrives, prodVars, consVars
<1>6. CASE PopEmpty
  BY <1>6 DEF PopEmpty, prodVars
<1>7. CASE PopStart
  BY <1>7 DEF PopStart, prodVars
<1>8. CASE PopRead
  BY <1>8 DEF PopRead, prodVars
<1>9. CASE PopAdvance
  BY <1>9, SuccRing DEF PopAdvance, prodVars
<1>10. CASE TailArrives
  BY <1>10, SuccRing DEF TailArrives, prodVars, consVars
<1>11. CASE UNCHANGED vars
  BY <1>11 DEF vars, prodVars, consVars
<1> QED
  BY <1>1, <1>2, <1>3, <1>4, <1>5, <1>6, <1>7, <1>8, <1>9, <1>10, <1>11
     DEF Next, Push, Pop

(***************************************************************************)
(* Type correctness of the ring buffer, for every capacity.                *)
(***************************************************************************)
THEOREM TypeCorrect == Spec => []TypeOK
BY TypeInit, TypeStep, PTL DEF Spec

-----------------------------------------------------------------------------
LEMMA InvInit == Init => QueueInv
<1> SUFFICES ASSUME Init PROVE QueueInv
  OBVIOUS
<1>1. TypeOK
  BY TypeInit
<1>2. IndexOrder
  <2>1. ReadAvailable(0, 0) = 0
    BY DEF ReadAvailable
  <2> QED BY <2>1 DEF Init, IndexOrder
<1>3. SlotOwned
  BY DEF Init, SlotOwned
<1>4. SlotsHoldMessages
  <2>1. \A i \in Index : ~ (ReadAvailable(0, i) < ReadAvailable(0, 0))
    BY CapacityAssumption DEF ReadAvailable, Index
  <2> QED BY <2>1 DEF Init, SlotsHoldMessages
<1> QED BY <1>1, <1>2, <1>3, <1>4 DEF QueueInv

\* The order of the indices round the ring is kept.
LEMMA OrderStep == QueueInv /\ [Next]_vars => IndexOrder'
<1> SUFFICES ASSUME QueueInv, [Next]_vars PROVE IndexOrder'
  OBVIOUS
<1> USE DEF QueueInv
<1> DEFINE D(h) == ReadAvailable(tailSeen, h)
<1>1. /\ head \in Index /\ headSeen \in Index
      /\ tail \in Index /\ tailSeen \in Index
  BY DEF TypeOK
<1>2. \A h \in Index : /\ D(h) \in 0 .. Capacity
                       /\ Succ(h) # tailSeen <=> D(h) < Capacity
                       /\ Succ(h) # tailSeen => D(Succ(h)) = D(h) + 1
                       /\ tailSeen # h
                            => ReadAvailable(Succ(tailSeen), h) = D(h) - 1
  BY <1>1, Distance
<1>3. \A a, b \in Index : D(a) = D(b) => a = b
  BY <1>1, DistanceInjective
<1>4. D(tail) <= D(headSeen) /\ D(headSeen) <= D(head)
  BY DEF IndexOrder
<1>5. CASE UNCHANGED <<head, headSeen, tail, tailSeen>>
  BY <1>4, <1>5 DEF IndexOrder
<1>6. CASE PushPublish
  <2>1. head' = Succ(head) /\ UNCHANGED <<headSeen, tail, tailSeen>>
    BY <1>6 DEF PushPublish, consVars
  <2>2. D(Succ(head)) = D(head) + 1
    BY <1>1, <1>2, <1>6 DEF PushPublish, SlotOwned
  <2> QED BY <1>1, <1>2, <1>4, <2>1, <2>2, CapacityAssumption DEF IndexOrder
<1>7. CASE HeadArrives
  <2>1. headSeen' = Succ(headSeen) /\ headSeen # head
        /\ UNCHANGED <<head, tail, tailSeen>>
    BY <1>7 DEF HeadArrives, prodVars, consVars
  <2>2. D(headSeen) < D(head)
    BY <1>1, <1>2, <1>3, <1>4, <2>1, CapacityAssumption
  <2>3. D(Succ(headSeen)) = D(headSeen) + 1
    BY <1>1, <1>2, <2>2, CapacityAssumption
  <2> QED BY <1>1, <1>2, <1>4, <2>1, <2>2, <2>3, CapacityAssumption DEF IndexOrder
<1>8. CASE PopAdvance
  <2>1. tail' = Succ(tail) /\ UNCHANGED <<head, headSeen, tailSeen>>
    BY <1>8 DEF PopAdvance, prodVars
  <2>2. tail # headSeen
    BY <1>8 DEF PopAdvance, SlotOwned
  <2>3. D(tail) < D(headSeen)
    BY <1>1, <1>2, <1>3, <1>4, <2>2, CapacityAssumption
  <2>4. D(Succ(tail)) = D(tail) + 1
    BY <1>1, <1>2, <2>3, CapacityAssumption
  <2> QED BY <1>1, <1>2, <1>4, <2>1, <2>3, <2>4, CapacityAssumption DEF IndexOrder
<1>9. CASE TailArrives
  <2>1. tailSeen' = Succ(tailSeen) /\ tailSeen # tail
        /\ UNCHANGED <<head, headSeen, tail>>
    BY <1>9 DEF TailArrives, prodVars, consVars
  <2>2. D(tail) # 0 /\ D(headSeen) # 0 /\ D(head) # 0
    <3>1. D(tail) # 0
      BY <1>1, <2>1, Distance
    <3> QED BY <1>1, <1>2, <1>4, <3>1, CapacityAssumption
  <2>3. tailSeen # headSeen /\ tailSeen # head
    BY <1>1, <2>2, Distance
  <2> QED BY <1>1, <1>2, <1>4, <2>1, <2>3, CapacityAssumption DEF IndexOrder
<1> QED
  BY <1>5, <1>6, <1>7, <1>8, <1>9
     DEF Next, Push, Pop, PushFull, PushStart, PushWrite, PopEmpty, PopStart,
         PopRead, vars, prodVars, consVars

\* Each side keeps its slot until it has published its index.
LEMMA OwnedStep == QueueInv /\ [Next]_vars => SlotOwned'
<1> SUFFICES ASSUME QueueInv, [Next]_vars PROVE SlotOwned'
  OBVIOUS
<1> USE DEF QueueInv
<1>1. /\ head \in Index /\ headSeen \in Index
      /\ tail \in Index /\ tailSeen \in Index
  BY DEF TypeOK
<1>2. CASE PushFull \/ (\E m \in Msg : PushStart(m)) \/ PushWrite \/ PushPublish
  BY <1>2 DEF PushFull, PushStart, PushWrite, PushPublish, SlotOwned, consVars
<1>3. CASE PopEmpty \/ PopStart \/ PopRead \/ PopAdvance
  BY <1>3 DEF PopEmpty, PopStart, PopRead, PopAdvance, SlotOwned, prodVars
<1>4. CASE HeadArrives
  <2>1. headSeen' = Succ(headSeen) /\ headSeen # head
        /\ UNCHANGED <<head, tail, tailSeen, prod, cons>>
    BY <1>4 DEF HeadArrives, prodVars, consVars
  <2>2. ASSUME cons.pc \in {"read", "advance"} PROVE Succ(headSeen) # tail
    <3>1. ReadAvailable(tailSeen, tail) <= ReadAvailable(tailSeen, headSeen)
          /\ ReadAvailable(tailSeen, headSeen) < ReadAvailable(tailSeen, head)
      BY <1>1, <2>1, Distance, DistanceInjective, CapacityAssumption DEF IndexOrder
    <3>2. /\ ReadAvailable(tailSeen, head) \in 0 .. Capacity
          /\ ReadAvailable(tailSeen, headSeen) \in 0 .. Capacity
          /\ ReadAvailable(tailSeen, tail) \in 0 .. Capacity
      BY <1>1, Distance
    <3>3. ReadAvailable(tailSeen, Succ(headSeen))
            = ReadAvailable(tailSeen, headSeen) + 1
      BY <1>1, <3>1, <3>2, Distance, CapacityAssumption
    <3> QED BY <1>1, <3>1, <3>2, <3>3, CapacityAssumption
  <2> QED BY <2>1, <2>2 DEF SlotOwned
<1>5. CASE TailArrives
  <2>1. tailSeen' = Succ(tailSeen) /\ tailSeen # tail
        /\ UNCHANGED <<head, headSeen, tail, prod, cons>>
    BY <1>5 DEF TailArrives, prodVars, consVars
  <2>2. tailSeen # head
    <3>1. ReadAvailable(tailSeen, tail) # 0
      BY <1>1, <2>1, Distance
    <3>2. /\ ReadAvailable(tailSeen, head) \in 0 .. Capacity
          /\ ReadAvailable(tailSeen, headSeen) \in 0 .. Capacity
          /\ ReadAvailable(tailSeen, tail) \in 0 .. Capacity
      BY <1>1, Distance
    <3>3. ReadAvailable(tailSeen, head) # 0
      BY <3>1, <3>2, CapacityAssumption DEF IndexOrder
    <3> QED BY <1>1, <3>3, Distance
  <2>3. Succ(head) # Succ(tailSeen)
    BY <1>1, <2>2, SuccRing
  <2> QED BY <2>1, <2>3 DEF SlotOwned
<1>6. CASE UNCHANGED vars
  BY <1>6 DEF vars, prodVars, consVars, SlotOwned
<1> QED
  BY <1>2, <1>3, <1>4, <1>5, <1>6 DEF Next, Push, Pop

\* The occupied slots keep holding the messages that were copied into them.
LEMMA SlotsStep == QueueInv /\ [Next]_vars => SlotsHoldMessages'
<1> SUFFICES ASSUME QueueInv, [Next]_vars PROVE SlotsHoldMessages'
  OBVIOUS
<1> USE DEF QueueInv
<1> DEFINE D(i) == ReadAvailable(tail, i)
<1>1. /\ head \in Index /\ headSeen \in Index
      /\ tail \in Index /\ tailSeen \in Index
      /\ prod \in [pc : {"idle", "write", "publish"}, item : Msg \cup {None}]
      /\ cons \in [pc : {"idle", "read", "advance"}, item : Msg \cup {None}]
      /\ buffer \in [Index -> Msg \cup {None}]
  BY DEF TypeOK
<1>2. \A i \in Index : /\ D(i) \in 0 .. Capacity
                       /\ D(i) = 0 <=> tail = i
  BY <1>1, Distance
<1>3. /\ Succ(head) # tailSeen => Succ(head) # tail
      /\ tail # headSeen => tail # head
  BY TrueIndices
<1>4. CASE UNCHANGED <<buffer, head, tail, prod, cons>>
  BY <1>4 DEF SlotsHoldMessages
<1>5. ASSUME NEW m \in Msg, PushStart(m) PROVE SlotsHoldMessages'
  BY <1>1, <1>5 DEF PushStart, consVars, SlotsHoldMessages
<1>6. CASE PushWrite
  <2>1. /\ prod.pc = "write" /\ prod'.pc = "publish" /\ prod'.item = prod.item
        /\ buffer' = [buffer EXCEPT ![head] = prod.item]
        /\ UNCHANGED <<head, tail, cons>>
    BY <1>1, <1>6 DEF PushWrite, consVars
  <2>2. prod.item \in Msg /\ buffer'[head] = prod.item
    BY <1>1, <2>1 DEF SlotsHoldMessages
  <2>3. \A i \in Index : i # head => buffer'[i] = buffer[i]
    BY <1>1, <2>1
  <2>4. cons.pc = "advance" => tail # head
    BY <1>3 DEF SlotOwned
  <2> QED BY <1>1, <2>1, <2>2, <2>3, <2>4 DEF SlotsHoldMessages
<1>7. CASE PushPublish
  <2>1. /\ prod.pc = "publish" /\ prod'.pc = "idle" /\ head' = Succ(head)
        /\ UNCHANGED <<buffer, tail, cons>>
    BY <1>7 DEF PushPublish, consVars
  <2>2. buffer[head] \in Msg
    BY <2>1 DEF SlotsHoldMessages
  <2>3. D(Succ(head)) = D(head) + 1
    BY <1>1, <1>3, <2>1, Distance DEF SlotOwned
  <2>4. ASSUME NEW i \in Index, D(i) < D(head) + 1 PROVE buffer[i] \in Msg
    <3>1. CASE D(i) < D(head)
      BY <3>1 DEF SlotsHoldMessages
    <3>2. CASE D(i) = D(head)
      BY <1>1, <2>2, <3>2, DistanceInjective
    <3> QED BY <1>1, <1>2, <2>4, <3>1, <3>2
  <2> QED BY <2>1, <2>3, <2>4 DEF SlotsHoldMessages
<1>8. CASE PopStart
  BY <1>1, <1>8 DEF PopStart, prodVars, SlotsHoldMessages
<1>9. CASE PopRead
  BY <1>1, <1>9 DEF PopRead, prodVars, SlotsHoldMessages
<1>10. CASE PopAdvance
  <2>1. /\ cons.pc = "advance" /\ cons'.pc = "idle" /\ tail' = Succ(tail)
        /\ UNCHANGED <<buffer, head, prod>>
    BY <1>10 DEF PopAdvance, prodVars
  <2>2. tail # head
    BY <1>3, <2>1 DEF SlotOwned
  <2>3. ReadAvailable(Succ(tail), head) = D(head) - 1
    BY <1>1, <2>2, Distance
  <2>4. ASSUME NEW i \in Index,
               ReadAvailable(Succ(tail), i) < ReadAvailable(Succ(tail), head)
        PROVE  D(i) < D(head)
    <3>1. CASE i = tail
      BY <1>1, <1>2, <2>2, <3>1, CapacityAssumption
    <3>2. CASE i # tail
      <4>1. ReadAvailable(Succ(tail), i) = D(i) - 1
        BY <1>1, <3>2, Distance
      <4> QED BY <1>1, <1>2, <2>3, <2>4, <4>1, CapacityAssumption
    <3> QED BY <3>1, <3>2
  <2> QED BY <1>1, <2>1, <2>4, SuccRing DEF SlotsHoldMessages
<1> QED
  BY <1>4, <1>5, <1>6, <1>7, <1>8, <1>9, <1>10
     DEF Next, Push, Pop, PushFull, PopEmpty, HeadArrives, TailArrives,
         vars, prodVars, consVars

(***************************************************************************)
(* The inductive invariant of the ring buffer: the indices stay in order,  *)
(* each side owns the slot it works on, and the occupied slots hold the    *)
(* messages pushed, however late either index becomes visible.             *)
(***************************************************************************)
THEOREM QueueInvariant == Spec => []QueueInv
<1>1. QueueInv /\ [Next]_vars => QueueInv'
  BY TypeStep, OrderStep, OwnedStep, SlotsStep DEF QueueInv
<1> QED BY <1>1, InvInit, PTL DEF Spec

(***************************************************************************)
(* No data race on buffer_: push() and pop() are never inside a copy of    *)
(* the same slot at the same time.                                         *)
(***************************************************************************)
THEOREM SlotRaceFree == Spec => []NoSlotRace
<1>1. QueueInv => NoSlotRace
  BY TrueIndices DEF QueueInv, SlotOwned, NoSlotRace
<1> QED BY <1>1, QueueInvariant, PTL

-----------------------------------------------------------------------------
(***************************************************************************)
(* Refinement of BoundedFifo.  At(t, k) is the place k slots after t.      *)
(***************************************************************************)
At(t, k) == (t + k) % (Capacity + 1)

LEMMA AtCases ==
  \A t \in Index, k \in 0 .. Capacity :
    At(t, k) = IF t + k <= Capacity THEN t + k ELSE t + k - (Capacity + 1)
<1> SUFFICES ASSUME NEW t \in Index, NEW k \in 0 .. Capacity
    PROVE At(t, k) = IF t + k <= Capacity THEN t + k ELSE t + k - (Capacity + 1)
  OBVIOUS
<1>1. CASE t + k <= Capacity
  BY <1>1, CapacityAssumption DEF At, Index
<1>2. CASE t + k > Capacity
  BY <1>2, CapacityAssumption DEF At, Index
<1> QED BY <1>1, <1>2, CapacityAssumption DEF Index

\* Places by distance.
LEMMA AtPlaces ==
  /\ \A t \in Index, k \in 0 .. Capacity :
       At(t, k) \in Index /\ ReadAvailable(t, At(t, k)) = k
  /\ \A t, h \in Index : At(t, ReadAvailable(t, h)) = h
  /\ \A t \in Index : At(t, 0) = t
  /\ \A t \in Index, k \in 0 .. Capacity - 1 : At(Succ(t), k) = At(t, k + 1)
<1>1. \A t \in Index, k \in 0 .. Capacity :
        At(t, k) \in Index /\ ReadAvailable(t, At(t, k)) = k
  BY AtCases, CapacityAssumption DEF ReadAvailable, Index
<1>2. \A t, h \in Index : At(t, ReadAvailable(t, h)) = h
  BY AtCases, Distance, CapacityAssumption DEF ReadAvailable, Index
<1>3. \A t \in Index : At(t, 0) = t
  BY AtCases, CapacityAssumption DEF Index
<1>4. ASSUME NEW t \in Index, NEW k \in 0 .. Capacity - 1
      PROVE  At(Succ(t), k) = At(t, k + 1)
  <2>1. Succ(t) \in Index /\ Succ(t) = IF t = Capacity THEN 0 ELSE t + 1
    BY SuccCases, SuccRing
  <2>2. k \in 0 .. Capacity /\ k + 1 \in 0 .. Capacity
    BY CapacityAssumption
  <2>3. At(Succ(t), k) = IF Succ(t) + k <= Capacity
                           THEN Succ(t) + k ELSE Succ(t) + k - (Capacity + 1)
    BY <2>1, <2>2, AtCases
  <2>4. At(t, k + 1) = IF t + (k + 1) <= Capacity
                         THEN t + (k + 1) ELSE t + (k + 1) - (Capacity + 1)
    BY <2>2, AtCases
  <2> QED BY <2>1, <2>3, <2>4, CapacityAssumption DEF Index
<1> QED BY <1>1, <1>2, <1>3, <1>4

\* The messages in the queue, as a sequence.
ContentFacts ==
  /\ Content \in Seq(Msg)
  /\ Len(Content) = ReadAvailable(tail, head)
  /\ \A k \in 1 .. ReadAvailable(tail, head) :
       Content[k] = buffer[At(tail, k - 1)]

LEMMA ContentIsSequence == QueueInv => ContentFacts
<1> SUFFICES ASSUME QueueInv PROVE ContentFacts
  OBVIOUS
<1>1. /\ head \in Index /\ tail \in Index
      /\ buffer \in [Index -> Msg \cup {None}]
      /\ ReadAvailable(tail, head) \in 0 .. Capacity
  BY Distance DEF QueueInv, TypeOK
<1>2. ASSUME NEW k \in 1 .. ReadAvailable(tail, head)
      PROVE  /\ Content[k] = buffer[At(tail, k - 1)]
             /\ Content[k] \in Msg
  <2>1. (tail + k) - 1 = tail + (k - 1)
    BY <1>1, CapacityAssumption DEF Index
  <2>2. Content[k] = buffer[At(tail, k - 1)]
    BY <2>1 DEF Content, At
  <2>3. /\ At(tail, k - 1) \in Index
        /\ ReadAvailable(tail, At(tail, k - 1)) = k - 1
    <3>1. k - 1 \in 0 .. Capacity
      BY <1>1, CapacityAssumption
    <3> QED BY <1>1, <3>1, AtPlaces
  <2>4. ReadAvailable(tail, At(tail, k - 1)) < ReadAvailable(tail, head)
    BY <1>1, <2>3, CapacityAssumption
  <2> QED BY <2>2, <2>3, <2>4 DEF QueueInv, SlotsHoldMessages
<1>3. Content = [k \in 1 .. ReadAvailable(tail, head) |-> Content[k]]
  BY DEF Content
<1>4. Content \in [1 .. ReadAvailable(tail, head) -> Msg]
  BY <1>2, <1>3
<1>5. ReadAvailable(tail, head) \in Nat
  BY <1>1, CapacityAssumption
<1> QED BY <1>2, <1>4, <1>5 DEF ContentFacts

LEMMA ContentStaysSequence == QueueInv' => ContentFacts'
BY ContentIsSequence, PTL

\* Adding a message at the head and dropping one at the tail.
LEMMA SequenceFacts ==
  /\ \A s, u \in Seq(Msg), m \in Msg :
       /\ Len(u) = Len(s) + 1
       /\ \A k \in 1 .. Len(s) : u[k] = s[k]
       /\ u[Len(u)] = m
       => u = Append(s, m)
  /\ \A s, u \in Seq(Msg) :
       /\ Len(s) = Len(u) + 1
       /\ \A k \in 1 .. Len(u) : u[k] = s[k + 1]
       => u = Tail(s) /\ Head(s) = s[1]
OBVIOUS

LEMMA PublishIsPut ==
  ASSUME QueueInv, QueueInv', PushPublish
  PROVE  \E m \in Msg : Fifo!Put(m)
<1> DEFINE n == ReadAvailable(tail, head)
<1>1. /\ head \in Index /\ headSeen \in Index
      /\ tail \in Index /\ tailSeen \in Index
  BY DEF QueueInv, TypeOK
<1>2. /\ head' = Succ(head) /\ accepted' = TRUE
      /\ UNCHANGED <<buffer, headSeen, tailSeen, tail, got>>
  BY DEF PushPublish, consVars
<1>3. Succ(head) # tailSeen /\ Succ(head) # tail
  BY TrueIndices DEF PushPublish, QueueInv, SlotOwned
<1>4. /\ n \in 0 .. Capacity
      /\ ReadAvailable(tail, Succ(head)) = n + 1
      /\ ReadAvailable(tailSeen, head) \in 0 .. Capacity
      /\ ReadAvailable(tailSeen, head) < Capacity
      /\ ReadAvailable(tailSeen, Succ(head)) = ReadAvailable(tailSeen, head) + 1
  BY <1>1, <1>3, Distance
<1>5. prod.item \in Msg /\ buffer[head] = prod.item
  BY DEF QueueInv, SlotsHoldMessages, PushPublish
<1>6. Content' = Append(Content, prod.item)
  <2>1. /\ Content \in Seq(Msg) /\ Len(Content) = n
        /\ \A k \in 1 .. n : Content[k] = buffer[At(tail, k - 1)]
    BY ContentIsSequence DEF ContentFacts
  <2>2. /\ Content' \in Seq(Msg)
        /\ Len(Content') = ReadAvailable(tail', head')
        /\ \A k \in 1 .. ReadAvailable(tail', head') :
             Content'[k] = buffer'[At(tail', k - 1)]
    BY ContentStaysSequence DEF ContentFacts
  <2>3. ReadAvailable(tail', head') = n + 1
    BY <1>2, <1>4
  <2>4. Content'[n + 1] = prod.item
    <3>1. Content'[n + 1] = buffer[At(tail, (n + 1) - 1)]
      BY <1>2, <1>4, <2>2, <2>3, CapacityAssumption
    <3>2. (n + 1) - 1 = n
      BY <1>4, CapacityAssumption
    <3> QED BY <1>1, <1>5, <3>1, <3>2, AtPlaces
  <2>5. \A k \in 1 .. n : Content'[k] = Content[k]
    BY <1>2, <1>4, <2>1, <2>2, <2>3, CapacityAssumption
  <2> HIDE DEF n
  <2> QED BY <1>5, <2>1, <2>2, <2>3, <2>4, <2>5, SequenceFacts
<1> QED
  BY <1>1, <1>2, <1>4, <1>5, <1>6, CapacityAssumption DEF Fifo!Put

LEMMA AdvanceIsTake ==
  ASSUME QueueInv, QueueInv', PopAdvance
  PROVE  Fifo!Take
<1> DEFINE n == ReadAvailable(tail, head)
<1>1. /\ head \in Index /\ headSeen \in Index
      /\ tail \in Index /\ tailSeen \in Index
  BY DEF QueueInv, TypeOK
<1>2. /\ tail' = Succ(tail) /\ got' = cons.item
      /\ UNCHANGED <<buffer, head, headSeen, tailSeen, accepted>>
  BY DEF PopAdvance, prodVars
<1>3. tail # headSeen /\ tail # head
  BY TrueIndices DEF PopAdvance, QueueInv, SlotOwned
<1>4. /\ n \in 0 .. Capacity /\ n # 0
      /\ ReadAvailable(Succ(tail), head) = n - 1
      /\ ReadAvailable(tail, headSeen) \in 0 .. Capacity
      /\ ReadAvailable(tail, headSeen) # 0
      /\ ReadAvailable(Succ(tail), headSeen) = ReadAvailable(tail, headSeen) - 1
  BY <1>1, <1>3, Distance
<1>5. cons.item = buffer[tail]
  BY DEF QueueInv, SlotsHoldMessages, PopAdvance
<1>6. Content' = Tail(Content) /\ Head(Content) = cons.item
  <2>1. /\ Content \in Seq(Msg) /\ Len(Content) = n
        /\ \A k \in 1 .. n : Content[k] = buffer[At(tail, k - 1)]
    BY ContentIsSequence DEF ContentFacts
  <2>2. /\ Content' \in Seq(Msg)
        /\ Len(Content') = ReadAvailable(tail', head')
        /\ \A k \in 1 .. ReadAvailable(tail', head') :
             Content'[k] = buffer'[At(tail', k - 1)]
    BY ContentStaysSequence DEF ContentFacts
  <2>3. ReadAvailable(tail', head') = n - 1
    BY <1>2, <1>4
  <2>4. ASSUME NEW k \in 1 .. n - 1 PROVE Content'[k] = Content[k + 1]
    <3>1. Content'[k] = buffer[At(Succ(tail), k - 1)]
      BY <1>2, <2>2, <2>3
    <3>2. k - 1 \in 0 .. Capacity - 1 /\ (k - 1) + 1 = (k + 1) - 1
      BY <1>4, CapacityAssumption
    <3>3. At(Succ(tail), k - 1) = At(tail, (k + 1) - 1)
      BY <1>1, <3>2, AtPlaces
    <3>4. k + 1 \in 1 .. n
      BY <1>4, CapacityAssumption
    <3> QED BY <2>1, <3>1, <3>3, <3>4
  <2>5. Content[1] = cons.item
    <3>1. 1 \in 1 .. n /\ 1 - 1 = 0
      BY <1>4, CapacityAssumption
    <3> QED BY <1>1, <1>5, <2>1, <3>1, AtPlaces
  <2>6. Len(Content) = Len(Content') + 1
    BY <1>4, <2>1, <2>2, <2>3, CapacityAssumption
  <2> HIDE DEF n
  <2> QED BY <2>1, <2>2, <2>3, <2>4, <2>5, <2>6, SequenceFacts
<1> QED
  BY <1>2, <1>4, <1>6, CapacityAssumption DEF Fifo!Take

\* A store that becomes visible is news for the other side.
LEMMA ArrivalsAreLearnt ==
  ASSUME QueueInv
  PROVE  /\ HeadArrives => Fifo!LearnReady
         /\ TailArrives => Fifo!LearnRoom
<1> DEFINE n == ReadAvailable(tail, head)
<1>1. /\ head \in Index /\ headSeen \in Index
      /\ tail \in Index /\ tailSeen \in Index
  BY DEF QueueInv, TypeOK
<1>2. \A t, h \in Index : ReadAvailable(t, h) \in 0 .. Capacity
  BY Distance
<1>3. Len(Content) = n
  BY ContentIsSequence DEF ContentFacts
<1>4. /\ ReadAvailable(tailSeen, head) = ReadAvailable(tailSeen, tail) + n
      /\ ReadAvailable(tail, headSeen) <= n
  BY TrueIndices DEF QueueInv
<1>5. ASSUME HeadArrives PROVE Fifo!LearnReady
  <2>1. /\ headSeen # head /\ headSeen' = Succ(headSeen)
        /\ UNCHANGED <<buffer, head, accepted, tail, got, tailSeen>>
    BY <1>5 DEF HeadArrives, prodVars, consVars
  <2>2. ReadAvailable(tail, headSeen) # n
    BY <1>1, <2>1, DistanceInjective
  <2>3. ReadAvailable(tail, headSeen) < n /\ ReadAvailable(tail, headSeen) < Capacity
    BY <1>1, <1>2, <1>4, <2>2, CapacityAssumption
  <2>4. ReadAvailable(tail, Succ(headSeen)) = ReadAvailable(tail, headSeen) + 1
    BY <1>1, <2>3, Distance
  <2>5. UNCHANGED Content
    BY <2>1 DEF Content
  <2> QED BY <1>3, <2>1, <2>3, <2>4, <2>5 DEF Fifo!LearnReady
<1>6. ASSUME TailArrives PROVE Fifo!LearnRoom
  <2>1. /\ tailSeen # tail /\ tailSeen' = Succ(tailSeen)
        /\ UNCHANGED <<buffer, head, accepted, tail, got, headSeen>>
    BY <1>6 DEF TailArrives, prodVars, consVars
  <2>2. ReadAvailable(tailSeen, tail) # 0
    BY <1>1, <2>1, Distance
  <2>3. ReadAvailable(tailSeen, head) # 0
    BY <1>1, <1>2, <1>4, <2>2, CapacityAssumption
  <2>4. ReadAvailable(Succ(tailSeen), head) = ReadAvailable(tailSeen, head) - 1
    BY <1>1, <2>3, Distance
  <2>5. UNCHANGED Content
    BY <2>1 DEF Content
  <2>6. (Capacity - ReadAvailable(tailSeen, head)) + n < Capacity
    BY <1>1, <1>2, <1>4, <2>2, CapacityAssumption
  <2> QED
    BY <1>1, <1>2, <1>3, <2>1, <2>4, <2>5, <2>6, CapacityAssumption
       DEF Fifo!LearnRoom
<1> QED BY <1>5, <1>6

\* The copies in and out of a slot do not show in the content.
LEMMA CopiesAreInvisible ==
  ASSUME QueueInv, QueueInv',
         (\E m \in Msg : PushStart(m)) \/ PushWrite \/ PopStart \/ PopRead
  PROVE  UNCHANGED Fifo!vars
<1>1. UNCHANGED <<head, headSeen, tail, tailSeen, accepted, got>>
  BY DEF PushStart, PushWrite, PopStart, PopRead, prodVars, consVars
<1>2. UNCHANGED Content
  <2>1. CASE UNCHANGED buffer
    BY <1>1, <2>1 DEF Content
  <2>2. CASE PushWrite
    <3>1. /\ head \in Index /\ tail \in Index
          /\ ReadAvailable(tail, head) \in 0 .. Capacity
          /\ buffer \in [Index -> Msg \cup {None}]
      BY Distance DEF QueueInv, TypeOK
    <3>2. ASSUME NEW k \in 1 .. ReadAvailable(tail, head)
          PROVE  buffer'[(tail + k - 1) % (Capacity + 1)]
                   = buffer[(tail + k - 1) % (Capacity + 1)]
      <4>1. k - 1 \in 0 .. Capacity /\ k - 1 # ReadAvailable(tail, head)
        BY <3>1, CapacityAssumption
      <4>2. At(tail, k - 1) \in Index /\ At(tail, k - 1) # head
        BY <3>1, <4>1, AtPlaces
      <4>3. (tail + k) - 1 = tail + (k - 1)
        BY <3>1, CapacityAssumption DEF Index
      <4> QED BY <2>2, <3>1, <4>2, <4>3 DEF PushWrite, At
    <3> QED BY <1>1, <3>2 DEF Content
  <2> QED BY <2>1, <2>2 DEF PushStart, PopStart, PopRead, prodVars, consVars
<1> QED BY <1>1, <1>2 DEF Fifo!vars

(***************************************************************************)
(* fins::SPSCQueue implements the bounded first-in first-out channel for   *)
(* every capacity: messages pushed by one thread are popped by the other   *)
(* in order, each once, unless they are still queued; a push is refused    *)
(* only when the producer knows of no room and a pop fails only when the   *)
(* consumer can see no message.                                            *)
(***************************************************************************)
THEOREM Refinement == Spec => ImplementsFifo
<1>1. Init => Fifo!Init
  <2> SUFFICES ASSUME Init PROVE Fifo!Init
    OBVIOUS
  <2>1. ReadAvailable(0, 0) = 0
    BY DEF ReadAvailable
  <2>2. Content = <<>>
    <3>1. QueueInv /\ ReadAvailable(tail, head) = 0
      BY <2>1, InvInit DEF Init
    <3> QED BY <3>1, ContentIsSequence DEF ContentFacts
  <2> QED BY <2>1, <2>2, CapacityAssumption DEF Init, Fifo!Init
<1>2. QueueInv /\ QueueInv' /\ [Next]_vars => [Fifo!Next]_Fifo!vars
  <2> SUFFICES ASSUME QueueInv, QueueInv', [Next]_vars
               PROVE  Fifo!Next \/ UNCHANGED Fifo!vars
    OBVIOUS
  <2>1. /\ head \in Index /\ headSeen \in Index
        /\ tail \in Index /\ tailSeen \in Index
    BY DEF QueueInv, TypeOK
  <2>2. CASE PushFull
    <3>1. ReadAvailable(tailSeen, head) = Capacity
      <4>1. /\ ReadAvailable(tailSeen, head) \in 0 .. Capacity
            /\ Succ(head) # tailSeen <=> ReadAvailable(tailSeen, head) < Capacity
        BY <2>1, Distance
      <4>2. Succ(head) = tailSeen
        BY <2>2 DEF PushFull
      <4> QED BY <4>1, <4>2, CapacityAssumption
    <3>2. UNCHANGED <<Content, ReadAvailable(tailSeen, head),
                      ReadAvailable(tail, headSeen), got>> /\ accepted' = FALSE
      BY <2>2 DEF PushFull, consVars, Content
    <3>3. Fifo!Refuse
      BY <3>1, <3>2, CapacityAssumption DEF Fifo!Refuse
    <3> QED BY <3>3 DEF Fifo!Next
  <2>3. CASE PushPublish
    BY <2>3, PublishIsPut DEF Fifo!Next
  <2>4. CASE HeadArrives \/ TailArrives
    BY <2>4, ArrivalsAreLearnt DEF Fifo!Next
  <2>5. CASE PopEmpty
    <3>1. ReadAvailable(tail, headSeen) = 0
      BY <2>1, <2>5, Distance DEF PopEmpty
    <3>2. UNCHANGED <<Content, ReadAvailable(tailSeen, head),
                      ReadAvailable(tail, headSeen), accepted>> /\ got' = None
      BY <2>5 DEF PopEmpty, prodVars, Content
    <3>3. Fifo!FindNothing
      BY <3>1, <3>2 DEF Fifo!FindNothing
    <3> QED BY <3>3 DEF Fifo!Next
  <2>6. CASE PopAdvance
    BY <2>6, AdvanceIsTake DEF Fifo!Next
  <2>7. CASE (\E m \in Msg : PushStart(m)) \/ PushWrite \/ PopStart \/ PopRead
    BY <2>7, CopiesAreInvisible
  <2>8. CASE UNCHANGED vars
    BY <2>8 DEF vars, prodVars, consVars, Fifo!vars, Content
  <2> QED
    BY <2>2, <2>3, <2>4, <2>5, <2>6, <2>7, <2>8 DEF Next, Push, Pop
<1> QED
  BY <1>1, <1>2, QueueInvariant, PTL DEF Spec, ImplementsFifo, Fifo!Spec
=============================================================================
