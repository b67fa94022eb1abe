----------------------------- MODULE SpscQueue -----------------------------
(***************************************************************************)
(* fins::SPSCQueue (sdk/fins/spsc_queue.hpp): a ring of Capacity + 1 slots *)
(* with a head index that the producer advances and a tail index that the  *)
(* consumer advances.  One producer thread pushes, one consumer thread     *)
(* pops; that discipline is what the class is written for.                 *)
(*                                                                         *)
(* An access of the buffer is not atomic: a thread whose control is at     *)
(* "write" (or "read") is inside the copy of one slot.  A release store    *)
(* reaches the other thread some time later: headSeen is the value of      *)
(* head_ an acquire load of the consumer returns, tailSeen the value of    *)
(* tail_ an acquire load of the producer returns; each follows its index   *)
(* step by step.                                                           *)
(***************************************************************************)
EXTENDS Naturals, Sequences

CONSTANTS Capacity,   \* template parameter: most messages the queue holds
          Msg,        \* messages
          None        \* no message

ASSUME CapacityAssumption == Capacity \in Nat \ {0}
ASSUME NoneAssumption == None \notin Msg

VARIABLES buffer,     \* buffer_
          head,       \* head_, as the producer knows it
          headSeen,   \* head_, as the consumer loads it
          tail,       \* tail_, as the consumer knows it
          tailSeen,   \* tail_, as the producer loads it
          prod,       \* control and argument of the producer
          cons,       \* control and local copy of the consumer
          accepted,   \* what the last push returned
          got         \* what the last pop delivered, None if it returned false

prodVars == <<buffer, head, prod, accepted>>
consVars == <<tail, cons, got>>
vars == <<prodVars, headSeen, consVars, tailSeen>>

Index == 0 .. Capacity

\* The index after i, on a ring of Capacity + 1 slots.
Succ(i) == (i + 1) % (Capacity + 1)

\* read_available(): the number of slots from tail t up to head h.
ReadAvailable(t, h) == IF h >= t THEN h - t ELSE (Capacity + 1) - (t - h)

Init ==
  /\ buffer = [i \in Index |-> None]
  /\ head = 0 /\ headSeen = 0
  /\ tail = 0 /\ tailSeen = 0
  /\ prod = [pc |-> "idle", item |-> None]
  /\ cons = [pc |-> "idle", item |-> None]
  /\ accepted = FALSE
  /\ got = None

-----------------------------------------------------------------------------
(* bool push(const T &item) *)

\* The loads and the test: the queue looks full, push returns false.
PushFull ==
  /\ prod.pc = "idle"
  /\ Succ(head) = tailSeen
  /\ accepted' = FALSE
  /\ UNCHANGED <<buffer, head, prod, headSeen, tailSeen, consVars>>

\* A mutant: the full test is missing.
PushStart_NoFullTest(m) ==
  /\ prod.pc = "idle"
  /\ prod' = [pc |-> "write", item |-> m]
  /\ UNCHANGED <<buffer, head, accepted, headSeen, tailSeen, consVars>>

\* The loads and the test: there is a free slot, the copy into it begins.
PushStart(m) ==
  /\ prod.pc = "idle"
  /\ Succ(head) # tailSeen
  /\ prod' = [pc |-> "write", item |-> m]
  /\ UNCHANGED <<buffer, head, accepted, headSeen, tailSeen, consVars>>

\* buffer_[current_head] = item is complete.
PushWrite ==
  /\ prod.pc = "write"
  /\ buffer' = [buffer EXCEPT ![head] = prod.item]
  /\ prod' = [prod EXCEPT !.pc = "publish"]
  /\ UNCHANGED <<head, accepted, headSeen, tailSeen, consVars>>

\* A mutant: the index stored is not reduced to the ring.
PushPublish_NoWrap ==
  /\ prod.pc = "publish"
  /\ head' = IF head = Capacity THEN Capacity ELSE head + 1
  /\ prod' = [pc |-> "idle", item |-> None]
  /\ accepted' = TRUE
  /\ UNCHANGED <<buffer, headSeen, tailSeen, consVars>>

\* head_.store(next_head), push returns true.
PushPublish ==
  /\ prod.pc = "publish"
  /\ head' = Succ(head)
  /\ prod' = [pc |-> "idle", item |-> None]
  /\ accepted' = TRUE
  /\ UNCHANGED <<buffer, headSeen, tailSeen, consVars>>

\* One pending store of head_ becomes visible to the consumer.
HeadArrives ==
  /\ headSeen # head
  /\ headSeen' = Succ(headSeen)
  /\ UNCHANGED <<prodVars, tailSeen, consVars>>

-----------------------------------------------------------------------------
(* bool pop(T &item) *)

\* The loads and the test: the queue looks empty, pop returns false.
PopEmpty ==
  /\ cons.pc = "idle"
  /\ tail = headSeen
  /\ got' = None
  /\ UNCHANGED <<prodVars, headSeen, tailSeen, tail, cons>>

\* The loads and the test: there is a message, the copy out of its slot begins.
PopStart ==
  /\ cons.pc = "idle"
  /\ tail # headSeen
  /\ cons' = [cons EXCEPT !.pc = "read"]
  /\ UNCHANGED <<prodVars, headSeen, tailSeen, tail, got>>

\* A mutant: the slot after tail is copied.
PopRead_NextSlot ==
  /\ cons.pc = "read"
  /\ cons' = [pc |-> "advance", item |-> buffer[Succ(tail)]]
  /\ UNCHANGED <<prodVars, headSeen, tailSeen, tail, got>>

\* item = buffer_[current_tail] is complete.
PopRead ==
  /\ cons.pc = "read"
  /\ cons' = [pc |-> "advance", item |-> buffer[tail]]
  /\ UNCHANGED <<prodVars, headSeen, tailSeen, tail, got>>

\* A mutant: tail_ is not stored.
PopAdvance_Stays ==
  /\ cons.pc = "advance"
  /\ got' = cons.item
  /\ cons' = [pc |-> "idle", item |-> None]
  /\ UNCHANGED <<tail, prodVars, headSeen, tailSeen>>

\* tail_.store(...), pop returns true with the item.
PopAdvance ==
  /\ cons.pc = "advance"
  /\ tail' = Succ(tail)
  /\ got' = cons.item
  /\ cons' = [pc |-> "idle", item |-> None]
  /\ UNCHANGED <<prodVars, headSeen, tailSeen>>

\* One pending store of tail_ becomes visible to the producer.
TailArrives ==
  /\ tailSeen # tail
  /\ tailSeen' = Succ(tailSeen)
  /\ UNCHANGED <<prodVars, headSeen, consVars>>

-----------------------------------------------------------------------------
Push == PushFull \/ (\E m \in Msg : PushStart(m)) \/ PushWrite \/ PushPublish
Pop == PopEmpty \/ PopStart \/ PopRead \/ PopAdvance
Next == Push \/ HeadArrives \/ Pop \/ TailArrives

Spec == Init /\ [][Next]_vars

\* The listener thread keeps popping, a push that has begun completes, and
\* the hardware does not hold a store back for ever.
Fairness ==
  /\ WF_vars(Pop)
  /\ WF_vars(PushWrite \/ PushPublish)
  /\ WF_vars(HeadArrives)
  /\ WF_vars(TailArrives)

FairSpec == Spec /\ Fairness

-----------------------------------------------------------------------------
TypeOK ==
  /\ buffer \in [Index -> Msg \cup {None}]
  /\ head \in Index /\ headSeen \in Index
  /\ tail \in Index /\ tailSeen \in Index
  /\ prod \in [pc : {"idle", "write", "publish"}, item : Msg \cup {None}]
  /\ cons \in [pc : {"idle", "read", "advance"}, item : Msg \cup {None}]
  /\ accepted \in BOOLEAN
  /\ got \in Msg \cup {None}

(***************************************************************************)
(* The four indices never overtake each other: going round the ring from   *)
(* tailSeen one meets tail, then headSeen, then head.  An index that laps  *)
(* another makes a full queue look empty or the reverse.                   *)
(***************************************************************************)
IndexOrder ==
  /\ ReadAvailable(tailSeen, tail) <= ReadAvailable(tailSeen, headSeen)
  /\ ReadAvailable(tailSeen, headSeen) <= ReadAvailable(tailSeen, head)

(***************************************************************************)
(* A producer inside push() owns a free slot and a consumer inside pop()   *)
(* owns an occupied one, whatever the other thread does meanwhile.         *)
(***************************************************************************)
SlotOwned ==
  /\ prod.pc \in {"write", "publish"} => Succ(head) # tailSeen
  /\ cons.pc \in {"read", "advance"} => tail # headSeen

(***************************************************************************)
(* The messages between tail and head are those that were pushed and not   *)
(* popped: every such slot holds a message, and so does the copy of the    *)
(* consumer that is about to return.                                       *)
(***************************************************************************)
SlotsHoldMessages ==
  /\ \A i \in Index : ReadAvailable(tail, i) < ReadAvailable(tail, head)
                         => buffer[i] \in Msg
  /\ prod.pc \in {"write", "publish"} => prod.item \in Msg
  /\ prod.pc = "publish" => buffer[head] = prod.item
  /\ cons.pc = "advance" => cons.item = buffer[tail]

\* The inductive invariant of the queue.
QueueInv == TypeOK /\ IndexOrder /\ SlotOwned /\ SlotsHoldMessages

(***************************************************************************)
(* The producer never copies into the slot the consumer is copying from:   *)
(* no data race on buffer_.                                                *)
(***************************************************************************)
NoSlotRace == prod.pc = "write" /\ cons.pc = "read" => head # tail

(***************************************************************************)
(* Every push and every pop is one step of a bounded first-in first-out    *)
(* channel: nothing is lost, duplicated, reordered or torn, false answers  *)
(* of push and pop are given only by a side that has nothing to go by.     *)
(***************************************************************************)
Content == [k \in 1 .. ReadAvailable(tail, head) |->
              buffer[(tail + k - 1) % (Capacity + 1)]]

Fifo == INSTANCE BoundedFifo WITH
  fifo <- Content,
  room <- Capacity - ReadAvailable(tailSeen, head),
  ready <- ReadAvailable(tail, headSeen)

ImplementsFifo == Fifo!Spec

(***************************************************************************)
(* A message in the queue is eventually popped: the slot at tail does not  *)
(* stay occupied for ever.                                                 *)
(***************************************************************************)
OldestIsPopped ==
  \A i \in Index : (tail = i /\ head # i) ~> tail # i
=============================================================================
