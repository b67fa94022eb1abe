----------------------------- MODULE PipeProofs -----------------------------
(***************************************************************************)
(* Proofs about fins::Pipe, for every number of producers and stoppers,    *)
(* every capacity and any number of messages; wake-ups and types also for  *)
(* a ring that overflows.                                                  *)
(*                                                                         *)
(* No lost wakeup, when stores are visible at once.  The proof tracks what *)
(* the listener has learnt on its way from announcing itself to falling    *)
(* asleep: each of its findings is still true, or the thread that has      *)
(* overtaken it has not yet looked at consumer_waiting_ or has not yet     *)
(* notified.                                                               *)
(*                                                                         *)
(* The types, with store buffers as well as without.                       *)
(*                                                                         *)
(* Order and delivery, and the refinement of MessageChannel, for a ring    *)
(* that one producer at a time fills and that does not overflow.           *)
(***************************************************************************)
EXTENDS Pipe, WellFoundedInduction, TLAPS

Pushing == \E p \in Producers : pc[p] # "idle"
Stopping == \E s \in Stoppers : pc[s] \in {"lock", "notify"}

Labels == ProducerLabels \cup ListenerLabels \cup StopperLabels

\* The types the argument needs.
Types ==
  /\ mem \in Atomics
  /\ sb = [t \in Threads |-> <<>>]
  /\ pc \in [Threads -> Labels]
  /\ cur \in [Threads -> Index]

\* mutex_ is held by a notifier, and by the listener around its wait.
Locked ==
  /\ \A t \in Threads \ {Listener} : pc[t] = "notify" => lock = t
  /\ pc[Listener] \in {"announce", "head?", "tail?", "started?",
                       "withdraw", "again", "unlock"} => lock = Listener

\* consumer_waiting_ is set from the announcement to the withdrawal.
Announced ==
  pc[Listener] \in {"head?", "tail?", "started?", "asleep", "woken"}
    => mem.waiting

\* What the listener has found so far, or who is about to correct it.
Findings ==
  /\ pc[Listener] = "tail?" => cur[Listener] = mem.head \/ Pushing
  /\ pc[Listener] = "started?" => mem.head = mem.tail \/ Pushing
  /\ pc[Listener] = "asleep" => /\ mem.head = mem.tail \/ Pushing
                                /\ mem.started \/ Stopping

WakeupInv == Types /\ Locked /\ Announced /\ Findings

-----------------------------------------------------------------------------
LEMMA SuccIndex == \A i \in Index : Succ(i) \in Index
<1> SUFFICES ASSUME NEW i \in Index PROVE Succ(i) \in Index
  OBVIOUS
<1>1. CASE i = Capacity
  BY <1>1, CapacityAssumption DEF Succ, Index
<1>2. CASE i < Capacity
  BY <1>2, CapacityAssumption DEF Succ, Index
<1> QED BY <1>1, <1>2, CapacityAssumption DEF Index

\* With empty store buffers a load reads the shared value.
LEMMA LoadIsShared ==
  ASSUME Types, NEW t \in Threads, NEW loc
  PROVE  Load(t, loc) = mem[loc]
<1>1. sb[t] = <<>>
  BY DEF Types
<1>2. {i \in DOMAIN sb[t] : sb[t][i].loc = loc} = {}
  BY <1>1
<1> QED BY <1>2 DEF Load

LEMMA Roles ==
  /\ Listener \in Threads
  /\ \A p \in Producers : p \in Threads /\ p # Listener /\ p \notin Stoppers
  /\ \A s \in Stoppers : s \in Threads /\ s # Listener /\ s \notin Producers
BY ThreadsAssumption DEF Threads

LEMMA WakeupInit == Init => WakeupInv
<1> SUFFICES ASSUME Init PROVE WakeupInv
  OBVIOUS
<1>1. 0 \in Index
  BY CapacityAssumption DEF Index
<1>2. Types
  <2>1. mem \in Atomics
    BY <1>1 DEF Init, Atomics
  <2>2. "idle" \in Labels
    BY DEF Labels, ProducerLabels
  <2> QED BY <1>1, <2>1, <2>2 DEF Init, Types
<1>3. pc[Listener] = "idle" /\ \A t \in Threads : pc[t] = "idle"
  BY Roles DEF Init
<1> QED BY <1>2, <1>3 DEF WakeupInv, Locked, Announced, Findings

\* What a visible store does.
LEMMA StoreIsShared ==
  ASSUME Types, ~ Buffered, NEW t \in Threads,
         NEW loc \in {"head", "tail", "started", "waiting"}, NEW val,
         Store(t, loc, val)
  PROVE  mem' = [mem EXCEPT ![loc] = val] /\ sb' = sb
BY DEF Store

-----------------------------------------------------------------------------
(***************************************************************************)
(* A producer that stays inside its push.                                  *)
(***************************************************************************)
LEMMA PushContinues ==
  ASSUME WakeupInv, ~ Buffered, NEW p \in Producers,
         NEW label \in ProducerLabels \ {"idle"},
         pc' = [pc EXCEPT ![p] = label],
         label = "notify" => lock' = p,
         lock' = lock \/ (lock = None /\ lock' = p),
         sb' = sb,
         mem' \in Atomics, mem'.waiting = mem.waiting, mem'.started = mem.started,
         cur' \in [Threads -> Index], cur'[Listener] = cur[Listener]
  PROVE  WakeupInv'
<1>1. p \in Threads /\ p # Listener /\ p \notin Stoppers /\ Listener \in Threads
  BY Roles
<1>2. label \in Labels
  BY DEF Labels
<1>3. /\ pc'[p] = label
      /\ \A t \in Threads \ {p} : pc'[t] = pc[t]
      /\ pc' \in [Threads -> Labels]
  BY <1>1, <1>2 DEF WakeupInv, Types
<1>4. Types'
  BY <1>3 DEF WakeupInv, Types
<1>5. Pushing'
  BY <1>1, <1>3 DEF Pushing
<1>6. Stopping => Stopping'
  BY <1>3, Roles DEF Stopping
<1>7. Locked'
  BY <1>1, <1>3, ThreadsAssumption DEF WakeupInv, Locked
<1>8. Announced'
  BY <1>1, <1>3 DEF WakeupInv, Announced
<1>9. Findings'
  BY <1>1, <1>3, <1>5, <1>6 DEF WakeupInv, Findings
<1> QED BY <1>4, <1>7, <1>8, <1>9 DEF WakeupInv

LEMMA ProduceStep ==
  ASSUME WakeupInv, ~ Buffered, NEW p \in Producers, Produce(p)
  PROVE  WakeupInv'
<1>1. p \in Threads /\ p # Listener /\ p \notin Stoppers /\ Listener \in Threads
  BY Roles
<1>2. Types /\ mem \in Atomics /\ cur \in [Threads -> Index]
  BY DEF WakeupInv, Types
<1>3. /\ Load(p, "head") \in Index /\ Load(p, "tail") \in Index
      /\ Load(p, "waiting") = mem.waiting
      /\ Succ(cur[p]) \in Index
  BY <1>1, <1>2, LoadIsShared, SuccIndex DEF Atomics
<1>4. CASE PushStopped(p)
  BY <1>4 DEF PushStopped, WakeupInv, Types, Locked, Announced, Findings,
              Pushing, Stopping
<1>5. CASE PushBegin(p)
  <2>1. pc' = [pc EXCEPT ![p] = "push"] /\ UNCHANGED <<mem, sb, lock, cur>>
    BY <1>5 DEF PushBegin, Goto
  <2> QED BY <1>2, <2>1, PushContinues DEF ProducerLabels
<1>6. CASE PushLoad(p)
  <2>1. /\ pc' = [pc EXCEPT ![p] = "room"] /\ UNCHANGED <<mem, sb, lock>>
        /\ cur' = [cur EXCEPT ![p] = Load(p, "head")]
    BY <1>6 DEF PushLoad, Goto
  <2>2. cur' \in [Threads -> Index] /\ cur'[Listener] = cur[Listener]
    BY <1>1, <1>2, <1>3, <2>1
  <2> QED BY <1>2, <2>1, <2>2, PushContinues DEF ProducerLabels
<1>7. CASE PushTest(p)
  <2>1. PICK label \in {"write", "evict", "signal"} :
          pc' = [pc EXCEPT ![p] = label]
    BY <1>7 DEF PushTest, Goto
  <2>2. UNCHANGED <<mem, sb, lock, cur>>
    BY <1>7 DEF PushTest
  <2> QED BY <1>2, <2>1, <2>2, PushContinues DEF ProducerLabels
<1>8. CASE PushWrite(p)
  <2>1. pc' = [pc EXCEPT ![p] = "publish"] /\ UNCHANGED <<mem, sb, lock, cur>>
    BY <1>8 DEF PushWrite, Goto
  <2> QED BY <1>2, <2>1, PushContinues DEF ProducerLabels
<1>9. CASE PushPublish(p)
  <2>1. /\ pc' = [pc EXCEPT ![p] = "signal"] /\ UNCHANGED <<lock, cur>>
        /\ Store(p, "head", Succ(cur[p]))
    BY <1>9 DEF PushPublish, Goto
  <2>2. mem' = [mem EXCEPT !["head"] = Succ(cur[p])] /\ sb' = sb
    BY <1>1, <1>2, <2>1, StoreIsShared
  <2>3. /\ mem' \in Atomics
        /\ mem'.waiting = mem.waiting /\ mem'.started = mem.started
    BY <1>2, <1>3, <2>2 DEF Atomics
  <2> QED BY <1>2, <2>1, <2>2, <2>3, PushContinues DEF ProducerLabels
<1>10. CASE EvictLoad(p)
  <2>1. /\ pc' = [pc EXCEPT ![p] = "oldest"] /\ UNCHANGED <<mem, sb, lock>>
        /\ cur' = [cur EXCEPT ![p] = Load(p, "tail")]
    BY <1>10 DEF EvictLoad, Goto
  <2>2. cur' \in [Threads -> Index] /\ cur'[Listener] = cur[Listener]
    BY <1>1, <1>2, <1>3, <2>1
  <2> QED BY <1>2, <2>1, <2>2, PushContinues DEF ProducerLabels
<1>11. CASE EvictTest(p)
  <2>1. PICK label \in {"drop", "signal"} : pc' = [pc EXCEPT ![p] = label]
    BY <1>11 DEF EvictTest, Goto
  <2>2. UNCHANGED <<mem, sb, lock, cur>>
    BY <1>11 DEF EvictTest
  <2> QED BY <1>2, <2>1, <2>2, PushContinues DEF ProducerLabels
<1>12. CASE EvictAdvance(p)
  <2>1. /\ pc' = [pc EXCEPT ![p] = "push"] /\ UNCHANGED <<lock, cur>>
        /\ Store(p, "tail", Succ(cur[p]))
    BY <1>12 DEF EvictAdvance, Goto
  <2>2. mem' = [mem EXCEPT !["tail"] = Succ(cur[p])] /\ sb' = sb
    BY <1>1, <1>2, <2>1, StoreIsShared
  <2>3. /\ mem' \in Atomics
        /\ mem'.waiting = mem.waiting /\ mem'.started = mem.started
    BY <1>2, <1>3, <2>2 DEF Atomics
  <2> QED BY <1>2, <2>1, <2>2, <2>3, PushContinues DEF ProducerLabels
<1>13. CASE Signal(p)
  <2>1. UNCHANGED <<mem, sb, lock, cur>>
    BY <1>13 DEF Signal
  <2>2. CASE pc' = [pc EXCEPT ![p] = "lock"]
    BY <1>2, <2>1, <2>2, PushContinues DEF ProducerLabels
  <2>3. CASE ~ mem.waiting /\ pc' = [pc EXCEPT ![p] = "idle"]
    <3>1. /\ pc'[p] = "idle" /\ pc' \in [Threads -> Labels]
          /\ \A t \in Threads \ {p} : pc'[t] = pc[t]
      BY <1>1, <2>3 DEF WakeupInv, Types, Labels, ProducerLabels
    <3> QED
      BY <1>1, <2>1, <2>3, <3>1 DEF WakeupInv, Types, Locked, Announced, Findings
  <2> QED BY <1>3, <1>13, <2>2, <2>3 DEF Signal, Goto
<1>14. CASE PushLock(p)
  <2>1. /\ pc' = [pc EXCEPT ![p] = "notify"] /\ UNCHANGED <<mem, sb, cur>>
        /\ lock = None /\ lock' = p
    BY <1>14 DEF PushLock, Acquire, Goto
  <2> QED BY <1>2, <2>1, PushContinues DEF ProducerLabels
<1>15. CASE PushNotify(p)
  <2>1. /\ lock = p /\ lock' = None /\ UNCHANGED <<mem, sb, cur>>
        /\ pc' = [pc EXCEPT ![p] = "idle", ![Listener] =
                               IF @ = "asleep" THEN "woken" ELSE @]
    BY <1>15 DEF PushNotify, Wakes, Release
  <2>2. /\ pc'[p] = "idle" /\ pc' \in [Threads -> Labels]
        /\ \A t \in Threads \ {p, Listener} : pc'[t] = pc[t]
        /\ pc'[Listener] = IF pc[Listener] = "asleep" THEN "woken" ELSE pc[Listener]
    BY <1>1, <2>1 DEF WakeupInv, Types, Labels, ProducerLabels, ListenerLabels
  <2>3. lock # Listener /\ \A t \in Threads \ {Listener, p} : pc[t] # "notify"
    BY <1>1, <2>1 DEF WakeupInv, Locked
  <2>4. pc'[Listener] \notin {"announce", "head?", "tail?", "started?",
                             "withdraw", "again", "unlock", "asleep"}
    BY <2>2, <2>3 DEF WakeupInv, Locked
  <2> QED
    BY <1>1, <2>1, <2>2, <2>3, <2>4
       DEF WakeupInv, Types, Locked, Announced, Findings
<1> QED
  BY <1>4, <1>5, <1>6, <1>7, <1>8, <1>9, <1>10, <1>11, <1>12, <1>13, <1>14, <1>15
     DEF Produce

-----------------------------------------------------------------------------
(***************************************************************************)
(* A step of the listener changes nobody else's control.                   *)
(***************************************************************************)
LEMMA ListenerMoves ==
  ASSUME WakeupInv, NEW label \in ListenerLabels,
         pc' = [pc EXCEPT ![Listener] = label],
         lock' = lock \/ (lock = Listener /\ lock' = None) \/ lock' = Listener,
         lock' # lock => lock \in {None, Listener},
         label \in {"announce", "head?", "tail?", "started?", "withdraw",
                    "again", "unlock"} => lock' = Listener
  PROVE  /\ pc'[Listener] = label
         /\ pc' \in [Threads -> Labels]
         /\ Pushing' = Pushing /\ Stopping' = Stopping
         /\ Locked'
<1>1. label \in Labels /\ Listener \in Threads
  BY Roles DEF Labels
<1>2. /\ pc'[Listener] = label
      /\ pc' \in [Threads -> Labels]
      /\ \A t \in Threads \ {Listener} : pc'[t] = pc[t]
  BY <1>1 DEF WakeupInv, Types
<1>3. Pushing' = Pushing /\ Stopping' = Stopping
  BY <1>2, Roles DEF Pushing, Stopping
<1>4. Locked'
  BY <1>1, <1>2, ThreadsAssumption DEF WakeupInv, Locked
<1> QED BY <1>2, <1>3, <1>4

\* Steps of the listener that neither store nor end in the waiting part.
LEMMA ListenerElsewhere ==
  ASSUME WakeupInv,
         NEW label \in ListenerLabels
                \ {"head?", "tail?", "started?", "asleep", "woken"},
         pc' = [pc EXCEPT ![Listener] = label],
         lock' = lock \/ (lock = Listener /\ lock' = None) \/ lock' = Listener,
         lock' # lock => lock \in {None, Listener},
         label \in {"announce", "withdraw", "again", "unlock"} => lock' = Listener,
         sb' = sb, mem' \in Atomics, cur' \in [Threads -> Index]
  PROVE  WakeupInv'
<1>1. /\ pc'[Listener] = label
      /\ pc' \in [Threads -> Labels]
      /\ Locked'
  BY ListenerMoves
<1>2. Types'
  BY <1>1 DEF WakeupInv, Types
<1> QED BY <1>1, <1>2 DEF WakeupInv, Announced, Findings

LEMMA ListenStep ==
  ASSUME WakeupInv, ~ Buffered, Listen \/ SpuriousWake
  PROVE  WakeupInv'
<1>1. /\ Types /\ mem \in Atomics /\ cur \in [Threads -> Index]
      /\ Listener \in Threads
  BY Roles DEF WakeupInv, Types
<1>2. /\ Load(Listener, "head") = mem.head /\ Load(Listener, "tail") = mem.tail
      /\ Load(Listener, "started") = mem.started
      /\ mem.head \in Index /\ mem.tail \in Index
      /\ Succ(cur[Listener]) \in Index
  BY <1>1, LoadIsShared, SuccIndex DEF Atomics
<1>3. CASE PopLoad
  <2>1. cur' \in [Threads -> Index]
    BY <1>1, <1>2, <1>3 DEF PopLoad
  <2> QED BY <1>1, <1>3, <2>1, ListenerElsewhere DEF PopLoad, Goto, ListenerLabels
<1>4. CASE PopTest
  <2>1. PICK label \in {"read", "lock", "unlock"} :
          /\ pc' = [pc EXCEPT ![Listener] = label]
          /\ label = "unlock" => lock = Listener
    BY <1>4 DEF PopTest, Goto
  <2>2. UNCHANGED <<mem, sb, lock, cur>>
    BY <1>4 DEF PopTest
  <2> QED BY <1>1, <2>1, <2>2, ListenerElsewhere DEF ListenerLabels
<1>5. CASE PopRead
  BY <1>1, <1>5, ListenerElsewhere DEF PopRead, Goto, ListenerLabels
<1>6. CASE PopAdvance
  <2>1. mem' = [mem EXCEPT !["tail"] = Succ(cur[Listener])] /\ sb' = sb
    BY <1>1, <1>6, StoreIsShared DEF PopAdvance
  <2>2. mem' \in Atomics
    BY <1>1, <1>2, <2>1 DEF Atomics
  <2>3. PICK label \in {"unlock", "idle"} :
          /\ pc' = [pc EXCEPT ![Listener] = label]
          /\ label = "unlock" => lock = Listener
    BY <1>6 DEF PopAdvance, Goto
  <2>4. UNCHANGED <<lock, cur>>
    BY <1>6 DEF PopAdvance
  <2> QED BY <1>1, <2>1, <2>2, <2>3, <2>4, ListenerElsewhere DEF ListenerLabels
<1>7. CASE WaitLock
  BY <1>1, <1>7, ListenerElsewhere DEF WaitLock, Acquire, Goto, ListenerLabels
<1>8. CASE Announce
  <2>1. mem' = [mem EXCEPT !["waiting"] = TRUE] /\ sb' = sb
    BY <1>1, <1>8, StoreIsShared DEF Announce
  <2>2. mem' \in Atomics /\ mem'.waiting
    BY <1>1, <2>1 DEF Atomics
  <2>3. lock = Listener
    BY <1>8 DEF Announce, WakeupInv, Locked
  <2>4. pc' = [pc EXCEPT ![Listener] = "head?"] /\ UNCHANGED <<lock, cur>>
    BY <1>8 DEF Announce, Goto
  <2>5. pc'[Listener] = "head?" /\ pc' \in [Threads -> Labels] /\ Locked'
    BY <2>3, <2>4, ListenerMoves DEF ListenerLabels
  <2> QED
    BY <1>1, <2>1, <2>2, <2>4, <2>5 DEF WakeupInv, Types, Announced, Findings
<1>9. CASE WaitHead
  <2>1. lock = Listener /\ mem.waiting
    BY <1>9 DEF WaitHead, WakeupInv, Locked, Announced
  <2>2. /\ pc' = [pc EXCEPT ![Listener] = "tail?"] /\ UNCHANGED <<mem, sb, lock>>
        /\ cur' = [cur EXCEPT ![Listener] = mem.head]
    BY <1>2, <1>9 DEF WaitHead, Goto
  <2>3. pc'[Listener] = "tail?" /\ pc' \in [Threads -> Labels] /\ Locked'
    BY <2>1, <2>2, ListenerMoves DEF ListenerLabels
  <2>4. cur' \in [Threads -> Index] /\ cur'[Listener] = mem'.head
    BY <1>1, <1>2, <2>2
  <2> QED
    BY <1>1, <2>1, <2>2, <2>3, <2>4 DEF WakeupInv, Types, Announced, Findings
<1>10. CASE WaitTail
  <2>1. lock = Listener /\ mem.waiting /\ (cur[Listener] = mem.head \/ Pushing)
    BY <1>10 DEF WaitTail, WakeupInv, Locked, Announced, Findings
  <2>2. UNCHANGED <<mem, sb, lock, cur>>
    BY <1>10 DEF WaitTail
  <2>3. CASE pc' = [pc EXCEPT ![Listener] = "withdraw"]
    BY <1>1, <2>1, <2>2, <2>3, ListenerElsewhere DEF ListenerLabels
  <2>4. CASE /\ cur[Listener] = mem.tail
             /\ pc' = [pc EXCEPT ![Listener] = "started?"]
    <3>1. /\ pc'[Listener] = "started?" /\ pc' \in [Threads -> Labels] /\ Locked'
          /\ Pushing' = Pushing
      BY <2>1, <2>2, <2>4, ListenerMoves DEF ListenerLabels
    <3> QED
      BY <1>1, <2>1, <2>2, <2>4, <3>1 DEF WakeupInv, Types, Announced, Findings
  <2> QED BY <1>2, <1>10, <2>3, <2>4 DEF WaitTail, Goto
<1>11. CASE WaitStopped
  <2>1. lock = Listener
    BY <1>11 DEF WaitStopped, WakeupInv, Locked
  <2> QED BY <1>1, <1>11, <2>1, ListenerElsewhere DEF WaitStopped, Goto, ListenerLabels
<1>12. CASE WaitSleep
  <2>1. mem.waiting /\ (mem.head = mem.tail \/ Pushing) /\ mem.started
    BY <1>2, <1>12 DEF WaitSleep, WakeupInv, Announced, Findings
  <2>2. /\ pc' = [pc EXCEPT ![Listener] = "asleep"] /\ UNCHANGED <<mem, sb, cur>>
        /\ lock = Listener /\ lock' = None
    BY <1>12 DEF WaitSleep, Release, Goto
  <2>3. /\ pc'[Listener] = "asleep" /\ pc' \in [Threads -> Labels] /\ Locked'
        /\ Pushing' = Pushing
    BY <2>2, ListenerMoves DEF ListenerLabels
  <2> QED
    BY <1>1, <2>1, <2>2, <2>3 DEF WakeupInv, Types, Announced, Findings
<1>13. CASE SpuriousWake
  <2>1. /\ pc' = [pc EXCEPT ![Listener] = "woken"]
        /\ UNCHANGED <<mem, sb, lock, cur>> /\ mem.waiting
    BY <1>13 DEF SpuriousWake, Goto, WakeupInv, Announced
  <2>2. pc'[Listener] = "woken" /\ pc' \in [Threads -> Labels] /\ Locked'
    BY <2>1, ListenerMoves DEF ListenerLabels
  <2> QED BY <1>1, <2>1, <2>2 DEF WakeupInv, Types, Announced, Findings
<1>14. CASE WaitRelock
  <2>1. /\ pc' = [pc EXCEPT ![Listener] = "head?"]
        /\ UNCHANGED <<mem, sb, cur>> /\ mem.waiting
        /\ lock = None /\ lock' = Listener
    BY <1>14 DEF WaitRelock, Acquire, Goto, WakeupInv, Announced
  <2>2. pc'[Listener] = "head?" /\ pc' \in [Threads -> Labels] /\ Locked'
    BY <2>1, ListenerMoves DEF ListenerLabels
  <2> QED BY <1>1, <2>1, <2>2 DEF WakeupInv, Types, Announced, Findings
<1>15. CASE Withdraw
  <2>1. mem' = [mem EXCEPT !["waiting"] = FALSE] /\ sb' = sb
    BY <1>1, <1>15, StoreIsShared DEF Withdraw
  <2>2. mem' \in Atomics
    BY <1>1, <2>1 DEF Atomics
  <2>3. lock = Listener
    BY <1>15 DEF Withdraw, WakeupInv, Locked
  <2> QED
    BY <1>1, <1>15, <2>1, <2>2, <2>3, ListenerElsewhere
       DEF Withdraw, Goto, ListenerLabels
<1>16. CASE PopUnlock
  BY <1>1, <1>16, ListenerElsewhere DEF PopUnlock, Release, Goto, ListenerLabels
<1> QED
  BY <1>3, <1>4, <1>5, <1>6, <1>7, <1>8, <1>9, <1>10, <1>11, <1>12, <1>13,
     <1>14, <1>15, <1>16 DEF Listen

-----------------------------------------------------------------------------
LEMMA StopStep ==
  ASSUME WakeupInv, ~ Buffered, NEW s \in Stoppers, Stop(s)
  PROVE  WakeupInv'
<1>1. /\ s \in Threads /\ s # Listener /\ s \notin Producers
      /\ Listener \in Threads
  BY Roles
<1>2. Types /\ mem \in Atomics /\ cur \in [Threads -> Index]
  BY DEF WakeupInv, Types
<1>3. CASE StopFlag(s)
  <2>1. mem' = [mem EXCEPT !["started"] = FALSE] /\ sb' = sb
    BY <1>1, <1>2, <1>3, StoreIsShared DEF StopFlag
  <2>2. /\ mem' \in Atomics
        /\ mem'.head = mem.head /\ mem'.tail = mem.tail
        /\ mem'.waiting = mem.waiting
    BY <1>2, <2>1 DEF Atomics
  <2>3. pc' = [pc EXCEPT ![s] = "lock"] /\ UNCHANGED <<lock, cur>>
    BY <1>3 DEF StopFlag, Goto
  <2>4. /\ pc'[s] = "lock" /\ pc' \in [Threads -> Labels]
        /\ \A t \in Threads \ {s} : pc'[t] = pc[t]
    BY <1>1, <2>3 DEF WakeupInv, Types, Labels, StopperLabels
  <2>5. Pushing' = Pushing /\ Stopping'
    BY <2>4, Roles DEF Pushing, Stopping
  <2> QED
    BY <1>1, <2>1, <2>2, <2>3, <2>4, <2>5
       DEF WakeupInv, Types, Locked, Announced, Findings
<1>4. CASE StopLock(s)
  <2>1. /\ pc' = [pc EXCEPT ![s] = "notify"] /\ UNCHANGED <<mem, sb, cur>>
        /\ lock = None /\ lock' = s
    BY <1>4 DEF StopLock, Acquire, Goto
  <2>2. /\ pc'[s] = "notify" /\ pc' \in [Threads -> Labels]
        /\ \A t \in Threads \ {s} : pc'[t] = pc[t]
    BY <1>1, <2>1 DEF WakeupInv, Types, Labels, StopperLabels
  <2>3. Pushing' = Pushing /\ Stopping'
    BY <2>2, Roles DEF Pushing, Stopping
  <2> QED
    BY <1>1, <2>1, <2>2, <2>3, ThreadsAssumption
       DEF WakeupInv, Types, Locked, Announced, Findings
<1>5. CASE StopNotify(s)
  <2>1. /\ lock = s /\ lock' = None /\ UNCHANGED <<mem, sb, cur>>
        /\ pc' = [pc EXCEPT ![s] = "done", ![Listener] =
                               IF @ = "asleep" THEN "woken" ELSE @]
    BY <1>5 DEF StopNotify, Release
  <2>2. /\ pc'[s] = "done" /\ pc' \in [Threads -> Labels]
        /\ \A t \in Threads \ {s, Listener} : pc'[t] = pc[t]
        /\ pc'[Listener] = IF pc[Listener] = "asleep" THEN "woken" ELSE pc[Listener]
    BY <1>1, <2>1 DEF WakeupInv, Types, Labels, StopperLabels, ListenerLabels
  <2>3. lock # Listener /\ \A t \in Threads \ {Listener, s} : pc[t] # "notify"
    BY <1>1, <2>1 DEF WakeupInv, Locked
  <2>4. pc'[Listener] \notin {"announce", "head?", "tail?", "started?",
                             "withdraw", "again", "unlock", "asleep"}
    BY <2>2, <2>3 DEF WakeupInv, Locked
  <2> QED
    BY <1>1, <2>1, <2>2, <2>3, <2>4
       DEF WakeupInv, Types, Locked, Announced, Findings
<1> QED BY <1>3, <1>4, <1>5 DEF Stop

LEMMA WakeupStep ==
  ASSUME ~ Buffered, WakeupInv, [Next]_vars
  PROVE  WakeupInv'
<1>1. ASSUME NEW t \in Threads PROVE ~ Drain(t)
  BY <1>1 DEF Drain, WakeupInv, Types
<1>2. CASE UNCHANGED vars
  BY <1>2 DEF vars, WakeupInv, Types, Locked, Announced, Findings,
              Pushing, Stopping
<1> QED
  BY <1>1, <1>2, ProduceStep, ListenStep, StopStep DEF Next

(***************************************************************************)
(* With stores visible at once, pop_wait never sleeps through a message or *)
(* a stop: for every number of producers and stoppers, every capacity and  *)
(* any number of messages, overflow and spurious wakeups included.         *)
(***************************************************************************)
THEOREM NoWakeupIsLost ==
  ASSUME ~ Buffered
  PROVE  Spec => []NoLostWakeup
<1>1. WakeupInv => NoLostWakeup
  BY DEF WakeupInv, Announced, Findings, NoLostWakeup, Asleep, Pushing, Stopping
<1>2. WakeupInv /\ [Next]_vars => WakeupInv'
  BY WakeupStep
<1> QED BY <1>1, <1>2, WakeupInit, PTL DEF Spec

-----------------------------------------------------------------------------
(***************************************************************************)
(* The types, store buffers or not.                                        *)
(***************************************************************************)

\* What waits in a store buffer.
Pending == [loc : {"head", "tail"}, val : Index]
             \cup [loc : {"started", "waiting"}, val : BOOLEAN]

MemoryTypes == mem \in Atomics /\ sb \in [Threads -> Seq(Pending)]

Fits(t, label) ==
  /\ t \in Producers => label \in ProducerLabels
  /\ t = Listener => label \in ListenerLabels
  /\ t \in Stoppers => label \in StopperLabels

\* A push under way has a number.
ControlTypes ==
  /\ pc \in [Threads -> Labels] /\ \A t \in Threads : Fits(t, pc[t])
  /\ sent \in [Producers -> 0 .. Quota]
  /\ \A p \in Producers : pc[p] # "idle" => sent[p] \in 1 .. Quota

DataTypes ==
  /\ buffer \in [Index -> Message \cup {None}] /\ lock \in Threads \cup {None}
  /\ cur \in [Threads -> Index] /\ retry \subseteq Producers
  /\ item \in Message \cup {None} /\ lastGot \in [Producers -> 0 .. Quota]

TypeInv == MemoryTypes /\ ControlTypes /\ DataTypes

LEMMA Smallest ==
  ASSUME NEW D \in SUBSET Nat, D # {}
  PROVE  \E x \in D : \A y \in D : x <= y
<1> DEFINE R == {ss \in Nat \X Nat : ss[1] < ss[2]}
<1>1. IsWellFoundedOn(R, Nat)
  BY NatLessThanWellFounded DEF OpToRel
<1> HIDE DEF R
<1>2. PICK x \in D : \A y \in D : ~ (<<y, x>> \in R)
  BY <1>1, WFMin
<1>3. \A y \in D : ~ (y < x)
  BY <1>2 DEF R
<1> QED BY <1>3

LEMMA LatestStore ==
  ASSUME NEW n \in Nat, NEW S \in SUBSET (1 .. n), S # {}
  PROVE  Max(S) \in S
<1> DEFINE D == {n - i : i \in S}
<1>1. D \in SUBSET Nat /\ D # {}
  <2>1. \A i \in S : i \in Nat /\ n - i \in Nat
    OBVIOUS
  <2>2. PICK i : i \in S
    OBVIOUS
  <2> QED BY <2>1, <2>2
<1>2. PICK x \in D : \A y \in D : x <= y
  BY <1>1, Smallest
<1>3. PICK i \in S : x = n - i
  OBVIOUS
<1>4. \A j \in S : n - j \in D
  OBVIOUS
<1>5. \A j \in S : i >= j
  BY <1>2, <1>3, <1>4
<1> QED BY <1>5 DEF Max

LEMMA LoadTypes ==
  ASSUME MemoryTypes, NEW t \in Threads, NEW loc \in {"head", "tail"}
  PROVE  Load(t, loc) \in Index
<1> DEFINE own == {i \in DOMAIN sb[t] : sb[t][i].loc = loc}
<1>1. PICK q \in Seq(Pending) : q = sb[t]
  BY DEF MemoryTypes
<1>2. Len(q) \in Nat /\ own \in SUBSET (1 .. Len(q)) /\ \A i \in own : q[i] \in Pending
  BY <1>1
<1>3. CASE own = {}
  <2>1. Load(t, loc) = mem[loc]
    BY <1>3 DEF Load
  <2> QED BY <2>1 DEF MemoryTypes, Atomics
<1>4. CASE own # {}
  <2>1. Max(own) \in own
    BY <1>2, <1>4, LatestStore
  <2>2. Load(t, loc) = q[Max(own)].val
    BY <1>1, <1>4 DEF Load
  <2>3. q[Max(own)] \in Pending /\ q[Max(own)].loc = loc
    BY <1>1, <1>2, <2>1
  <2> HIDE DEF own
  <2> QED BY <2>2, <2>3 DEF Pending
<1> QED BY <1>3, <1>4

LEMMA StoreTypes ==
  ASSUME MemoryTypes, NEW t \in Threads, NEW loc, NEW val,
         [loc |-> loc, val |-> val] \in Pending, Store(t, loc, val)
  PROVE  MemoryTypes'
<1>1. CASE UNCHANGED mem /\ sb' = [sb EXCEPT ![t] = Append(@, [loc |-> loc, val |-> val])]
  <2>1. Append(sb[t], [loc |-> loc, val |-> val]) \in Seq(Pending)
    BY DEF MemoryTypes
  <2> QED BY <1>1, <2>1 DEF MemoryTypes
<1>2. CASE UNCHANGED sb /\ mem' = [mem EXCEPT ![loc] = val]
  <2>1. CASE loc \in {"head", "tail"} /\ val \in Index
    BY <1>2, <2>1 DEF MemoryTypes, Atomics
  <2>2. CASE loc \in {"started", "waiting"} /\ val \in BOOLEAN
    BY <1>2, <2>2 DEF MemoryTypes, Atomics
  <2>3. \/ loc \in {"head", "tail"} /\ val \in Index
        \/ loc \in {"started", "waiting"} /\ val \in BOOLEAN
    BY DEF Pending
  <2> QED BY <2>1, <2>2, <2>3
<1> QED BY <1>1, <1>2 DEF Store

LEMMA DrainTypes ==
  ASSUME TypeInv, NEW t \in Threads, Drain(t)
  PROVE  TypeInv'
<1>1. PICK e \in Pending, q \in Seq(Pending) : e = Head(sb[t]) /\ q = Tail(sb[t])
  <2>1. PICK r \in Seq(Pending) : r = sb[t] /\ r # <<>>
    BY DEF TypeInv, MemoryTypes, Drain
  <2>2. Head(r) \in Pending /\ Tail(r) \in Seq(Pending)
    BY <2>1
  <2> QED BY <2>1, <2>2
<1>2. mem' = [mem EXCEPT ![e.loc] = e.val] /\ sb' = [sb EXCEPT ![t] = q]
  BY <1>1 DEF Drain
<1>3. mem' \in Atomics
  <2>1. CASE e.loc \in {"head", "tail"} /\ e.val \in Index
    BY <1>2, <2>1 DEF TypeInv, MemoryTypes, Atomics
  <2>2. CASE e.loc \in {"started", "waiting"} /\ e.val \in BOOLEAN
    BY <1>2, <2>2 DEF TypeInv, MemoryTypes, Atomics
  <2> QED BY <2>1, <2>2 DEF Pending
<1>4. MemoryTypes'
  BY <1>2, <1>3 DEF TypeInv, MemoryTypes
<1>5. UNCHANGED <<buffer, lock, pc, cur, retry, sent, item, lastGot>>
  BY DEF Drain
<1> QED BY <1>4, <1>5 DEF TypeInv, ControlTypes, DataTypes

\* A thread goes on to a label of its own.
LEMMA ControlFrame ==
  ASSUME ControlTypes, NEW t \in Threads, NEW label, Fits(t, label),
         pc' = [pc EXCEPT ![t] = label],
         sent' = sent \/ (t \in Producers /\ sent' = [sent EXCEPT ![t] = @ + 1]
                          /\ sent[t] < Quota),
         t \in Producers /\ label # "idle" => pc[t] # "idle" \/ sent' # sent
  PROVE  ControlTypes'
<1>1. label \in Labels
  BY DEF Fits, Labels, Threads
<1>2. pc' \in [Threads -> Labels] /\ \A u \in Threads : pc'[u] = IF u = t THEN label ELSE pc[u]
  BY <1>1 DEF ControlTypes
<1>3. \A u \in Threads : Fits(u, pc'[u])
  BY <1>2 DEF ControlTypes
<1>4. /\ sent' \in [Producers -> 0 .. Quota]
      /\ \A p \in Producers : pc'[p] # "idle" => sent'[p] \in 1 .. Quota
  <2>1. CASE sent' = sent
    BY <1>2, <2>1, Roles DEF ControlTypes
  <2>2. CASE sent' # sent
    BY <1>2, <2>2, Roles, QuotaAssumption DEF ControlTypes
  <2> QED BY <2>1, <2>2
<1>5. ControlTypes' = (/\ pc' \in [Threads -> Labels]
                      /\ \A u \in Threads : Fits(u, pc'[u])
                      /\ sent' \in [Producers -> 0 .. Quota]
                      /\ \A p \in Producers : pc'[p] # "idle" => sent'[p] \in 1 .. Quota)
  BY DEF ControlTypes, Fits
<1> QED BY <1>2, <1>3, <1>4, <1>5

\* notify_one or notify_all.
LEMMA ControlWakes ==
  ASSUME ControlTypes, NEW t \in Threads \ {Listener}, NEW label \in {"idle", "done"},
         Fits(t, label), UNCHANGED sent, t \in Producers => label = "idle",
         pc' = [pc EXCEPT ![t] = label,
                          ![Listener] = IF @ = "asleep" THEN "woken" ELSE @]
  PROVE  ControlTypes'
<1>1. /\ label \in Labels /\ "woken" \in Labels /\ "woken" \in ListenerLabels
      /\ Listener \in Threads
  BY Roles DEF Labels, ProducerLabels, StopperLabels, ListenerLabels
<1>2. /\ pc' \in [Threads -> Labels]
      /\ \A u \in Threads : pc'[u] = IF u = t THEN label
                                     ELSE IF u = Listener /\ pc[u] = "asleep" THEN "woken"
                                     ELSE pc[u]
  BY <1>1 DEF ControlTypes
<1>3. ASSUME NEW u \in Threads PROVE Fits(u, pc'[u])
  <2>1. Fits(u, pc[u])
    BY DEF ControlTypes
  <2> QED BY <1>1, <1>2, <2>1, Roles DEF Fits
<1>4. \A p \in Producers : pc'[p] # "idle" => sent'[p] \in 1 .. Quota
  BY <1>2, Roles DEF ControlTypes
<1>5. ControlTypes' = (/\ pc' \in [Threads -> Labels]
                      /\ \A u \in Threads : Fits(u, pc'[u])
                      /\ sent' \in [Producers -> 0 .. Quota]
                      /\ \A p \in Producers : pc'[p] # "idle" => sent'[p] \in 1 .. Quota)
  BY DEF ControlTypes, Fits
<1> QED BY <1>2, <1>3, <1>4, <1>5 DEF ControlTypes

LEMMA TypesInit == Init => TypeInv
<1> SUFFICES ASSUME Init PROVE TypeInv
  OBVIOUS
<1>1. 0 \in Index /\ 0 \in 0 .. Quota
  BY CapacityAssumption, QuotaAssumption DEF Index
<1>2. MemoryTypes
  BY <1>1 DEF Init, MemoryTypes, Atomics
<1>3. ControlTypes
  BY <1>1, Roles DEF Init, ControlTypes, Fits, Labels, ProducerLabels, ListenerLabels,
                     StopperLabels
<1>4. DataTypes
  BY <1>1 DEF Init, DataTypes
<1> QED BY <1>2, <1>3, <1>4 DEF TypeInv

\* The steps of a push.
LEMMA ProduceTypes ==
  ASSUME TypeInv, NEW p \in Producers, Produce(p)
  PROVE  TypeInv'
<1>0. /\ p \in Threads \ {Listener} /\ p # Listener /\ p \notin Stoppers
      /\ MemoryTypes /\ ControlTypes /\ DataTypes /\ Fits(p, pc[p])
      /\ pc \in [Threads -> Labels]
  BY Roles DEF TypeInv, ControlTypes
<1>1. \A label \in ProducerLabels : Fits(p, label)
  BY <1>0 DEF Fits
<1>2. Load(p, "head") \in Index /\ Load(p, "tail") \in Index /\ Succ(cur[p]) \in Index
      /\ cur[p] \in Index
  BY <1>0, LoadTypes, SuccIndex DEF DataTypes
<1>3. MemoryTypes'
  <2>1. CASE PushPublish(p)
    <3>1. [loc |-> "head", val |-> Succ(cur[p])] \in Pending
      BY <1>2 DEF Pending
    <3> QED BY <1>0, <2>1, <3>1, StoreTypes DEF PushPublish
  <2>2. CASE EvictAdvance(p)
    <3>1. [loc |-> "tail", val |-> Succ(cur[p])] \in Pending
      BY <1>2 DEF Pending
    <3> QED BY <1>0, <2>2, <3>1, StoreTypes DEF EvictAdvance
  <2>3. CASE ~ PushPublish(p) /\ ~ EvictAdvance(p)
    <3>1. UNCHANGED <<mem, sb>>
      BY <2>3 DEF Produce, PushStopped, PushBegin, PushLoad, PushTest, PushWrite,
         EvictLoad, EvictTest, Signal, PushLock, PushNotify
    <3> QED BY <1>0, <3>1 DEF MemoryTypes
  <2> QED BY <2>1, <2>2, <2>3
<1>4. ControlTypes'
  <2>1. CASE PushStopped(p)
    <3>1. pc' = [pc EXCEPT ![p] = "idle"] /\ sent' = [sent EXCEPT ![p] = @ + 1]
          /\ sent[p] < Quota /\ "idle" \in ProducerLabels
      BY <1>0, <2>1 DEF PushStopped, ProducerLabels
    <3> QED BY <1>0, <1>1, <3>1, ControlFrame
  <2>2. CASE PushBegin(p)
    <3>1. /\ pc' = [pc EXCEPT ![p] = "push"] /\ sent' = [sent EXCEPT ![p] = @ + 1]
          /\ sent[p] < Quota /\ "push" \in ProducerLabels
      BY <1>0, <2>2 DEF PushBegin, Goto, ProducerLabels
    <3>2. sent' # sent
      <4>1. sent[p] \in Nat /\ sent'[p] = sent[p] + 1
        BY <1>0, <3>1, QuotaAssumption DEF ControlTypes
      <4> QED BY <4>1
    <3> QED BY <1>0, <1>1, <3>1, <3>2, ControlFrame
  <2>3. CASE PushNotify(p)
    <3>1. /\ UNCHANGED sent /\ "idle" \in ProducerLabels
          /\ pc' = [pc EXCEPT ![p] = "idle",
                              ![Listener] = IF @ = "asleep" THEN "woken" ELSE @]
      BY <2>3 DEF PushNotify, Wakes, ProducerLabels
    <3> QED BY <1>0, <1>1, <3>1, ControlWakes
  <2>4. CASE ~ PushStopped(p) /\ ~ PushBegin(p) /\ ~ PushNotify(p)
    <3>1. PICK label \in ProducerLabels : pc' = [pc EXCEPT ![p] = label]
      BY <2>4 DEF Produce, PushLoad, PushTest, PushWrite, PushPublish, EvictLoad,
         EvictTest, EvictAdvance, Signal, PushLock, Goto, ProducerLabels
    <3>2. pc[p] # "idle" /\ sent' = sent
      BY <2>4 DEF Produce, PushLoad, PushTest, PushWrite, PushPublish, EvictLoad,
         EvictTest, EvictAdvance, Signal, PushLock
    <3> QED BY <1>0, <1>1, <3>1, <3>2, ControlFrame
  <2> QED BY <2>1, <2>2, <2>3, <2>4
<1>5. UNCHANGED <<item, lastGot>> /\ lock' \in Threads \cup {None}
      /\ retry' \subseteq Producers
  BY <1>0 DEF Produce, PushStopped, PushBegin, PushLoad, PushTest, PushWrite,
     PushPublish, EvictLoad, EvictTest, EvictAdvance, Signal, PushLock, PushNotify,
     Acquire, Release, DataTypes
<1>6. buffer' \in [Index -> Message \cup {None}]
  <2>1. CASE PushWrite(p)
    <3>1. sent[p] \in 1 .. Quota
      BY <1>0, <2>1 DEF PushWrite, ControlTypes
    <3>2. <<p, sent[p]>> \in Message
      BY <3>1 DEF Message
    <3> QED BY <1>0, <1>2, <2>1, <3>2 DEF PushWrite, DataTypes
  <2>2. CASE ~ PushWrite(p)
    BY <1>0, <2>2 DEF Produce, PushStopped, PushBegin, PushLoad, PushTest, PushPublish,
       EvictLoad, EvictTest, EvictAdvance, Signal, PushLock, PushNotify, DataTypes
  <2> QED BY <2>1, <2>2
<1>7. cur' \in [Threads -> Index]
  BY <1>0, <1>2 DEF Produce, PushStopped, PushBegin, PushLoad, PushTest, PushWrite,
     PushPublish, EvictLoad, EvictTest, EvictAdvance, Signal, PushLock, PushNotify,
     DataTypes
<1> QED BY <1>0, <1>3, <1>4, <1>5, <1>6, <1>7 DEF TypeInv, DataTypes

\* The steps of a pop_wait.
LEMMA ListenTypes ==
  ASSUME TypeInv, Listen \/ SpuriousWake
  PROVE  TypeInv'
<1>0. /\ Listener \in Threads /\ Listener \notin Producers /\ Listener \notin Stoppers
      /\ MemoryTypes /\ ControlTypes /\ DataTypes
      /\ cur[Listener] \in Index
  BY Roles, ThreadsAssumption DEF TypeInv, DataTypes
<1>1. \A label \in ListenerLabels : Fits(Listener, label)
  BY <1>0 DEF Fits
<1>2. Load(Listener, "head") \in Index /\ Load(Listener, "tail") \in Index
      /\ Succ(cur[Listener]) \in Index
  BY <1>0, LoadTypes, SuccIndex
<1>3. MemoryTypes'
  <2>1. CASE PopAdvance
    <3>1. [loc |-> "tail", val |-> Succ(cur[Listener])] \in Pending
      BY <1>2 DEF Pending
    <3> QED BY <1>0, <2>1, <3>1, StoreTypes DEF PopAdvance
  <2>2. CASE Announce
    <3>1. [loc |-> "waiting", val |-> TRUE] \in Pending
      BY DEF Pending
    <3> QED BY <1>0, <2>2, <3>1, StoreTypes DEF Announce
  <2>3. CASE Withdraw
    <3>1. [loc |-> "waiting", val |-> FALSE] \in Pending
      BY DEF Pending
    <3> QED BY <1>0, <2>3, <3>1, StoreTypes DEF Withdraw
  <2>4. CASE ~ PopAdvance /\ ~ Announce /\ ~ Withdraw
    <3>1. UNCHANGED <<mem, sb>>
      BY <2>4 DEF Listen, PopLoad, PopTest, PopRead, WaitLock, WaitHead, WaitTail,
         WaitStopped, WaitSleep, WaitRelock, PopUnlock, SpuriousWake
    <3> QED BY <1>0, <3>1 DEF MemoryTypes
  <2> QED BY <2>1, <2>2, <2>3, <2>4
<1>4. ControlTypes'
  <2>1. PICK label \in ListenerLabels : pc' = [pc EXCEPT ![Listener] = label]
    BY DEF Listen, PopLoad, PopTest, PopRead, PopAdvance, WaitLock, Announce, WaitHead,
       WaitTail, WaitStopped, WaitSleep, WaitRelock, Withdraw, PopUnlock, SpuriousWake,
       Goto, ListenerLabels
  <2>2. sent' = sent
    BY DEF Listen, PopLoad, PopTest, PopRead, PopAdvance, WaitLock, Announce, WaitHead,
       WaitTail, WaitStopped, WaitSleep, WaitRelock, Withdraw, PopUnlock, SpuriousWake
  <2> QED BY <1>0, <1>1, <2>1, <2>2, ControlFrame
<1>5. UNCHANGED <<buffer, retry>> /\ lock' \in Threads \cup {None}
  BY <1>0 DEF Listen, PopLoad, PopTest, PopRead, PopAdvance, WaitLock, Announce,
     WaitHead, WaitTail, WaitStopped, WaitSleep, WaitRelock, Withdraw, PopUnlock,
     SpuriousWake, Acquire, Release, DataTypes
<1>6. cur' \in [Threads -> Index]
  BY <1>0, <1>2 DEF Listen, PopLoad, PopTest, PopRead, PopAdvance, WaitLock, Announce,
     WaitHead, WaitTail, WaitStopped, WaitSleep, WaitRelock, Withdraw, PopUnlock,
     SpuriousWake, DataTypes
<1>7. item' \in Message \cup {None} /\ lastGot' \in [Producers -> 0 .. Quota]
  <2>1. CASE PopAdvance
    <3>1. ASSUME NEW p \in Producers
          PROVE  (IF item # None /\ item[1] = p THEN item[2] ELSE lastGot[p]) \in 0 .. Quota
      <4>1. lastGot[p] \in 0 .. Quota /\ (item # None => item \in Producers \X (1 .. Quota))
        BY <1>0 DEF DataTypes, Message
      <4>2. item # None => item[2] \in 0 .. Quota
        BY <4>1, QuotaAssumption
      <4> QED BY <4>1, <4>2
    <3> QED BY <2>1, <3>1 DEF PopAdvance
  <2>2. CASE PopRead
    BY <1>0, <2>2 DEF PopRead, DataTypes
  <2>3. CASE ~ PopAdvance /\ ~ PopRead
    BY <1>0, <2>3 DEF Listen, PopLoad, PopTest, WaitLock, Announce, WaitHead, WaitTail,
       WaitStopped, WaitSleep, WaitRelock, Withdraw, PopUnlock, SpuriousWake, DataTypes
  <2> QED BY <2>1, <2>2, <2>3
<1> QED BY <1>0, <1>3, <1>4, <1>5, <1>6, <1>7 DEF TypeInv, DataTypes

\* The steps of a stop or a notify.
LEMMA StopTypes ==
  ASSUME TypeInv, NEW s \in Stoppers, Stop(s)
  PROVE  TypeInv'
<1>0. /\ s \in Threads \ {Listener} /\ s \notin Producers
      /\ MemoryTypes /\ ControlTypes /\ DataTypes
  BY Roles DEF TypeInv
<1>1. \A label \in StopperLabels : Fits(s, label)
  BY <1>0 DEF Fits
<1>2. MemoryTypes'
  <2>1. CASE StopFlag(s)
    <3>1. [loc |-> "started", val |-> FALSE] \in Pending
      BY DEF Pending
    <3> QED BY <1>0, <2>1, <3>1, StoreTypes DEF StopFlag
  <2>2. CASE ~ StopFlag(s)
    BY <1>0, <2>2 DEF Stop, StopLock, StopNotify, MemoryTypes
  <2> QED BY <2>1, <2>2
<1>3. ControlTypes'
  <2>1. CASE StopNotify(s)
    <3>1. /\ UNCHANGED sent /\ "done" \in StopperLabels
          /\ pc' = [pc EXCEPT ![s] = "done",
                              ![Listener] = IF @ = "asleep" THEN "woken" ELSE @]
      BY <2>1 DEF StopNotify, StopperLabels
    <3> QED BY <1>0, <1>1, <3>1, ControlWakes
  <2>2. CASE ~ StopNotify(s)
    <3>1. PICK label \in StopperLabels : pc' = [pc EXCEPT ![s] = label] /\ sent' = sent
      BY <2>2 DEF Stop, StopFlag, StopLock, Goto, StopperLabels
    <3> QED BY <1>0, <1>1, <3>1, ControlFrame
  <2> QED BY <2>1, <2>2
<1>4. UNCHANGED <<buffer, cur, retry, item, lastGot>> /\ lock' \in Threads \cup {None}
  BY <1>0 DEF Stop, StopFlag, StopLock, StopNotify, Acquire, Release, DataTypes
<1> QED BY <1>0, <1>2, <1>3, <1>4 DEF TypeInv, DataTypes

LEMMA TypesStep == TypeInv /\ [Next]_vars => TypeInv'
<1> SUFFICES ASSUME TypeInv, [Next]_vars PROVE TypeInv'
  OBVIOUS
<1>1. CASE UNCHANGED vars
  BY <1>1 DEF vars, TypeInv, MemoryTypes, ControlTypes, DataTypes
<1> QED BY <1>1, ProduceTypes, ListenTypes, StopTypes, DrainTypes DEF Next

\* The variables have their types, whether stores wait in store buffers or not:
\* a load that is answered from its thread's own buffer yields an index, too.
THEOREM TypeCorrect == Spec => []TypeOK
<1>1. TypeInv => TypeOK
  <2> SUFFICES ASSUME TypeInv PROVE TypeOK
    OBVIOUS
  <2>1. ASSUME NEW t \in Threads, NEW i \in DOMAIN sb[t]
        PROVE  \/ sb[t][i].loc \in {"head", "tail"} /\ sb[t][i].val \in Index
               \/ sb[t][i].loc \in {"started", "waiting"} /\ sb[t][i].val \in BOOLEAN
    <3>1. sb[t] \in Seq(Pending)
      BY DEF TypeInv, MemoryTypes
    <3>2. sb[t][i] \in Pending
      BY <3>1
    <3> QED BY <3>2 DEF Pending
  <2>2. /\ \A p \in Producers : pc[p] \in ProducerLabels
        /\ pc[Listener] \in ListenerLabels
        /\ \A s \in Stoppers : pc[s] \in StopperLabels
    BY Roles DEF TypeInv, ControlTypes, Fits
  <2> QED BY <2>1, <2>2 DEF TypeInv, MemoryTypes, ControlTypes, DataTypes, TypeOK
<1> QED BY TypesInit, TypesStep, <1>1, PTL DEF Spec

-----------------------------------------------------------------------------
(***************************************************************************)
(* The order of the messages, for a ring that is used as it has to be: no  *)
(* two producers are between the load and the store of head_ at once, and  *)
(* the ring does not overflow, so that nobody but the listener moves       *)
(* tail_.  Then the slots from tail_ to head_ hold, for each producer,     *)
(* messages with growing numbers, beginning with the one after the last    *)
(* that was delivered and, until a stop(), ending with the last pushed.    *)
(***************************************************************************)
Serial == \A p, q \in Producers : pc[p] \in Filling /\ pc[q] \in Filling => p = q
NoOverflow == \A p \in Producers : pc[p] # "evict"

InRing(i) == Gap(mem.tail, i) < Gap(mem.tail, mem.head)

\* How many pushes of each producer are over.
Pushed == [p \in Producers |->
             IF pc[p] \in {"push"} \cup Filling THEN sent[p] - 1 ELSE sent[p]]

\* What each side knows of the two indices.
Ends ==
  /\ retry = {}
  /\ pc[Listener] \in {"avail", "read", "advance"} => cur[Listener] = mem.tail
  /\ pc[Listener] \in {"read", "advance"} => mem.tail # mem.head
  /\ \A p \in Producers :
       /\ pc[p] \notin {"evict", "oldest", "drop"}
       /\ pc[p] \in Filling => cur[p] = mem.head
       /\ pc[p] \in {"write", "publish"} => Succ(mem.head) # mem.tail

Copies ==
  /\ pc[Listener] = "advance" => item = buffer[mem.tail]
  /\ \A p \in Producers : pc[p] = "publish" => buffer[mem.head] = <<p, sent[p]>>

Fresh ==
  /\ \A p \in Producers : lastGot[p] <= Pushed[p]
  /\ \A i \in Index : InRing(i) =>
       /\ buffer[i] \in Message
       /\ lastGot[buffer[i][1]] < buffer[i][2]
       /\ buffer[i][2] <= Pushed[buffer[i][1]]

Growing ==
  \A i, j \in Index :
    /\ InRing(i) /\ InRing(j)
    /\ Gap(mem.tail, i) < Gap(mem.tail, j)
    /\ buffer[i][1] = buffer[j][1]
    => buffer[i][2] < buffer[j][2]

\* The messages in the ring, of which none is left out.
Held == {buffer[i] : i \in {j \in Index : InRing(j)}}

Whole ==
  \A p \in Producers, k \in 1 .. Quota :
    <<p, k>> \in Held => \A j \in 1 .. k : j > lastGot[p] => <<p, j>> \in Held

Kept ==
  \A p \in Producers :
    mem.started \/ pc[p] \in {"push"} \cup Filling
      => \A k \in 1 .. Quota : lastGot[p] < k /\ k <= Pushed[p] => <<p, k>> \in Held

RingInv == Ends /\ Copies /\ Fresh /\ Growing /\ Whole /\ Kept

\* Arithmetic of the ring.
LEMMA Gaps ==
  \A t, h \in Index :
    /\ Gap(t, h) \in 0 .. Capacity
    /\ Gap(t, h) = 0 <=> t = h
    /\ Succ(h) # t => Gap(t, Succ(h)) = Gap(t, h) + 1
    /\ Gap(Succ(t), h) = IF t = h THEN Capacity ELSE Gap(t, h) - 1
    /\ \A i \in Index : Gap(t, i) = Gap(t, h) => i = h
<1> SUFFICES ASSUME NEW t \in Index, NEW h \in Index
    PROVE /\ Gap(t, h) \in 0 .. Capacity
          /\ Gap(t, h) = 0 <=> t = h
          /\ Succ(h) # t => Gap(t, Succ(h)) = Gap(t, h) + 1
          /\ Gap(Succ(t), h) = IF t = h THEN Capacity ELSE Gap(t, h) - 1
          /\ \A i \in Index : Gap(t, i) = Gap(t, h) => i = h
  OBVIOUS
<1>1. ASSUME NEW i \in Index PROVE Succ(i) = IF i = Capacity THEN 0 ELSE i + 1
  <2>1. CASE i = Capacity
    BY <2>1, CapacityAssumption DEF Succ, Index
  <2>2. CASE i < Capacity
    BY <2>2, CapacityAssumption DEF Succ, Index
  <2> QED BY <2>1, <2>2, CapacityAssumption DEF Index
<1>2. /\ Succ(h) = IF h = Capacity THEN 0 ELSE h + 1
      /\ Succ(t) = IF t = Capacity THEN 0 ELSE t + 1
  BY <1>1
<1> QED BY <1>2, CapacityAssumption DEF Gap, Index

\* The shared indices, and the loads that return them.
LEMMA Places ==
  ASSUME TypeInv, Types
  PROVE  /\ mem.head \in Index /\ mem.tail \in Index
         /\ \A t \in Threads : /\ Load(t, "head") = mem.head
                               /\ Load(t, "tail") = mem.tail
         /\ \A p \in Producers : /\ Pushed[p] \in Int /\ sent[p] \in 0 .. Quota
                                 /\ lastGot[p] \in 0 .. Quota
                                 /\ pc[p] \in {"push"} \cup Filling => Pushed[p] = sent[p] - 1
<1>1. mem.head \in Index /\ mem.tail \in Index
  BY DEF Types, Atomics
<1>2. ASSUME NEW p \in Producers
      PROVE  sent[p] \in 0 .. Quota /\ lastGot[p] \in 0 .. Quota
  BY DEF TypeInv, ControlTypes, DataTypes
<1> QED BY <1>1, <1>2, LoadIsShared, QuotaAssumption DEF Pushed

LEMMA RingInit == Init => RingInv
<1> SUFFICES ASSUME Init PROVE RingInv
  OBVIOUS
<1>1. pc[Listener] = "idle" /\ \A p \in Producers : pc[p] = "idle"
  BY Roles DEF Init
<1>2. \A i \in Index : ~ InRing(i)
  <2>1. mem.tail = 0 /\ mem.head = 0 /\ 0 \in Index
    BY CapacityAssumption DEF Init, Index
  <2>2. \A i \in Index : Gap(0, i) \in 0 .. Capacity
    BY <2>1, Gaps
  <2>3. Gap(0, 0) = 0
    BY <2>1, Gaps
  <2> QED BY <2>1, <2>2, <2>3, CapacityAssumption DEF InRing
<1>3. Ends /\ Copies
  BY <1>1 DEF Init, Ends, Copies, Filling
<1>4. \A p \in Producers : lastGot[p] <= Pushed[p]
  BY <1>1 DEF Init, Pushed, Filling
<1>5. Held = {}
  BY <1>2 DEF Held
<1>6. Kept
  <2>1. \A p \in Producers : lastGot[p] = 0 /\ Pushed[p] = 0
    BY <1>1 DEF Init, Pushed, Filling
  <2> QED BY <2>1, QuotaAssumption DEF Kept
<1> QED BY <1>2, <1>3, <1>4, <1>5, <1>6 DEF RingInv, Fresh, Growing, Whole

\* A step that moves neither index and leaves the slots between them alone.
LEMMA SlotsFrame ==
  ASSUME TypeInv, Types, TypeInv', Types', Fresh, Growing,
         mem'.head = mem.head, mem'.tail = mem.tail, lastGot' = lastGot,
         \A i \in Index : InRing(i) => buffer'[i] = buffer[i],
         \A p \in Producers : Pushed[p] <= Pushed'[p]
  PROVE  Fresh' /\ Growing' /\ Held' = Held
<1>1. \A i \in Index : InRing(i)' <=> InRing(i)
  BY DEF InRing
<1>2. \A p \in Producers : /\ Pushed[p] \in Int /\ Pushed'[p] \in Int
                           /\ lastGot[p] \in 0 .. Quota
  <2>1. sent' \in [Producers -> 0 .. Quota]
    BY DEF TypeInv, ControlTypes
  <2>2. \A p \in Producers : Pushed'[p] \in Int
    BY <2>1, QuotaAssumption DEF Pushed
  <2> QED BY <2>2, Places
<1>3. \A p \in Producers : lastGot'[p] <= Pushed'[p]
  BY <1>2, QuotaAssumption DEF Fresh
<1>4. ASSUME NEW i \in Index, InRing(i)'
      PROVE  /\ buffer'[i] \in Message
             /\ lastGot'[buffer'[i][1]] < buffer'[i][2]
             /\ buffer'[i][2] <= Pushed'[buffer'[i][1]]
  <2>1. PICK q \in Producers, k \in 1 .. Quota : buffer[i] = <<q, k>>
    BY <1>1, <1>4 DEF Fresh, Message
  <2>2. buffer'[i] = <<q, k>> /\ lastGot[q] < k /\ k <= Pushed[q]
    BY <1>1, <1>4, <2>1 DEF Fresh
  <2>3. k <= Pushed'[q]
    BY <1>2, <2>2, QuotaAssumption
  <2>4. buffer'[i] \in Message /\ lastGot'[q] < k
    BY <1>1, <1>4, <2>2 DEF Fresh
  <2> QED BY <2>2, <2>3, <2>4
<1>5. Growing'
  BY <1>1 DEF Growing
<1>6. Held' = Held
  BY <1>1 DEF Held
<1> QED BY <1>3, <1>4, <1>5, <1>6 DEF Fresh

\* No step takes back a push that is over.
LEMMA PushedGrows ==
  ASSUME TypeInv, Ends, NEW p \in Producers, Produce(p)
  PROVE  /\ \A q \in Producers : Pushed[q] <= Pushed'[q]
         /\ \A q \in Producers \ {p} : pc'[q] = pc[q] /\ sent'[q] = sent[q]
         /\ pc[Listener] \in {"avail", "read", "advance"}
              <=> pc'[Listener] \in {"avail", "read", "advance"}
         /\ pc[Listener] \in {"read", "advance"} <=> pc'[Listener] \in {"read", "advance"}
         /\ pc[Listener] = "advance" <=> pc'[Listener] = "advance"
<1>1. /\ pc \in [Threads -> Labels] /\ sent \in [Producers -> 0 .. Quota]
      /\ p \in Threads /\ Listener \in Threads /\ p # Listener
      /\ \A q \in Producers : q \in Threads /\ q # Listener /\ sent[q] \in Int
  BY Roles, QuotaAssumption DEF TypeInv, ControlTypes
<1>2. /\ \A q \in Producers \ {p} : pc'[q] = pc[q] /\ sent'[q] = sent[q]
      /\ \/ pc'[Listener] = pc[Listener]
         \/ pc[Listener] = "asleep" /\ pc'[Listener] = "woken"
  BY <1>1 DEF Produce, PushStopped, PushBegin, PushLoad, PushTest, PushWrite,
     PushPublish, EvictLoad, EvictTest, EvictAdvance, Signal, PushLock, PushNotify,
     Goto, Wakes
<1>3. Pushed[p] <= Pushed'[p]
  <2>1. CASE PushStopped(p)
    <3>1. sent'[p] = sent[p] + 1 /\ pc[p] = "idle" /\ pc'[p] = "idle"
      BY <1>1, <2>1 DEF PushStopped
    <3> QED BY <1>1, <3>1 DEF Pushed, Filling
  <2>2. CASE PushBegin(p)
    <3>1. sent'[p] = sent[p] + 1 /\ pc[p] = "idle" /\ pc'[p] = "push"
      BY <1>1, <2>2 DEF PushBegin, Goto
    <3> QED BY <1>1, <3>1 DEF Pushed, Filling
  <2>3. CASE ~ PushStopped(p) /\ ~ PushBegin(p)
    <3>1. /\ sent' = sent
          /\ pc'[p] \in {"push"} \cup Filling
               => pc[p] \in {"push"} \cup Filling
      BY <1>1, <2>3 DEF Ends, Produce, PushLoad, PushTest, PushWrite, PushPublish, EvictLoad,
         EvictTest, EvictAdvance, Signal, PushLock, PushNotify, Goto, Wakes, Filling
    <3> QED BY <1>1, <3>1 DEF Pushed
  <2> QED BY <2>1, <2>2, <2>3
<1>4. \A q \in Producers \ {p} : Pushed[q] = Pushed'[q] /\ Pushed[q] \in Int
  BY <1>1, <1>2 DEF Pushed
<1> QED BY <1>2, <1>3, <1>4

LEMMA ProduceRing ==
  ASSUME Types, TypeInv, Types', TypeInv', ~ Buffered, RingInv, Serial, NoOverflow',
         NEW p \in Producers, Produce(p)
  PROVE  RingInv'
<1>1. /\ mem.head \in Index /\ mem.tail \in Index /\ mem \in Atomics
      /\ p \in Threads /\ p # Listener /\ Listener \in Threads
      /\ Load(p, "head") = mem.head /\ Load(p, "tail") = mem.tail
      /\ cur \in [Threads -> Index] /\ buffer \in [Index -> Message \cup {None}]
      /\ pc \in [Threads -> Labels] /\ sent \in [Producers -> 0 .. Quota]
      /\ Ends /\ Copies /\ Fresh /\ Growing /\ Whole /\ Kept
      /\ \A q \in Producers : q \in Threads
  BY Places, Roles DEF Types, TypeInv, ControlTypes, DataTypes, RingInv
<1>2. /\ \A q \in Producers : Pushed[q] <= Pushed'[q]
      /\ \A q \in Producers \ {p} : pc'[q] = pc[q] /\ sent'[q] = sent[q]
      /\ pc[Listener] \in {"avail", "read", "advance"}
           <=> pc'[Listener] \in {"avail", "read", "advance"}
      /\ pc[Listener] \in {"read", "advance"} <=> pc'[Listener] \in {"read", "advance"}
      /\ pc[Listener] = "advance" <=> pc'[Listener] = "advance"
  BY <1>1, PushedGrows
<1>3. pc[p] \notin {"evict", "oldest", "drop"} /\ lastGot' = lastGot /\ item' = item
      /\ cur'[Listener] = cur[Listener] /\ mem'.started = mem.started /\ retry' = {}
  <2>1. mem'.started = mem.started
    <3>1. CASE PushPublish(p)
      <4>1. mem' = [mem EXCEPT !["head"] = Succ(cur[p])]
        BY <1>1, <3>1, StoreIsShared DEF PushPublish
      <4> QED BY <1>1, <4>1 DEF Atomics
    <3>2. CASE ~ PushPublish(p)
      BY <1>1, <3>2 DEF Ends, Produce, PushStopped, PushBegin, PushLoad, PushTest,
         PushWrite, EvictLoad, EvictTest, EvictAdvance, Signal, PushLock, PushNotify
    <3> QED BY <3>1, <3>2
  <2> QED BY <1>1, <2>1 DEF Ends, Produce, PushStopped, PushBegin, PushLoad, PushTest,
     PushWrite, PushPublish, EvictLoad, EvictTest, EvictAdvance, Signal, PushLock,
     PushNotify
<1>4. CASE PushWrite(p)
  <2>1. /\ buffer' = [buffer EXCEPT ![mem.head] = <<p, sent[p]>>] /\ mem' = mem
        /\ cur' = cur /\ sent' = sent /\ pc[p] = "write" /\ pc'[p] = "publish"
    BY <1>1, <1>4 DEF PushWrite, Ends, Filling, Goto
  <2>2. \A q \in Producers \ {p} : pc[q] \notin Filling
    BY <2>1 DEF Serial, Filling
  <2>3. Ends'
    BY <1>1, <1>2, <1>3, <2>1 DEF Ends, Filling
  <2>4. \A i \in Index : i # mem.head => buffer'[i] = buffer[i]
    BY <1>1, <2>1
  <2>5. Copies'
    BY <1>1, <1>2, <1>3, <2>1, <2>2, <2>4 DEF Copies, Ends, Filling
  <2>6. ~ InRing(mem.head)
    BY <1>1, Gaps, CapacityAssumption DEF InRing
  <2>7. Fresh' /\ Growing' /\ Held' = Held
    BY <1>1, <1>2, <1>3, <2>1, <2>4, <2>6, SlotsFrame
  <2>8. Pushed' = Pushed
    BY <1>2, <2>1 DEF Pushed, Filling
  <2>9. Kept'
    BY <1>1, <1>2, <1>3, <2>1, <2>7, <2>8 DEF Kept, Filling
  <2> QED BY <1>1, <1>3, <2>3, <2>5, <2>7, <2>9 DEF RingInv, Whole
<1>5. CASE PushPublish(p)
  <2>1. /\ mem' = [mem EXCEPT !["head"] = Succ(mem.head)] /\ buffer' = buffer
        /\ cur' = cur /\ sent' = sent /\ pc[p] = "publish" /\ pc'[p] = "signal"
    <3>1. mem' = [mem EXCEPT !["head"] = Succ(cur[p])]
      BY <1>1, <1>5, StoreIsShared DEF PushPublish
    <3> QED BY <1>1, <1>5, <3>1 DEF PushPublish, Ends, Filling, Goto
  <2>2. mem'.head = Succ(mem.head) /\ mem'.tail = mem.tail /\ Succ(mem.head) # mem.tail
    BY <1>1, <2>1 DEF Atomics, Ends
  <2>3. \A q \in Producers \ {p} : pc[q] \notin Filling
    BY <2>1 DEF Serial, Filling
  <2>4. Ends'
    <3>1. \A q \in Producers \ {p} : pc'[q] \notin Filling /\ pc'[q] = pc[q]
      BY <1>2, <2>3
    <3> QED BY <1>1, <1>2, <1>3, <2>1, <2>2, <3>1 DEF Ends, Filling
  <2>5. Copies'
    BY <1>1, <1>2, <1>3, <2>1, <2>2, <2>3 DEF Copies, Filling
  <2>6. ASSUME NEW i \in Index
        PROVE  InRing(i)' <=> InRing(i) \/ i = mem.head
    <3>1. PICK t \in Index, h \in Index : t = mem.tail /\ h = mem.head
      BY <1>1
    <3>2. /\ Gap(t, Succ(h)) = Gap(t, h) + 1 /\ Gap(t, i) \in 0 .. Capacity
          /\ Gap(t, h) \in 0 .. Capacity /\ (Gap(t, i) = Gap(t, h) <=> i = h)
      BY <2>2, <3>1, Gaps
    <3>3. Gap(t, i) < Gap(t, Succ(h)) <=> Gap(t, i) < Gap(t, h) \/ i = h
      BY <3>2, CapacityAssumption
    <3> QED BY <2>2, <3>1, <3>3 DEF InRing
  <2>7. /\ buffer[mem.head] = <<p, sent[p]>> /\ <<p, sent[p]>> \in Message
        /\ sent[p] \in 1 .. Quota /\ lastGot[p] < sent[p]
        /\ Pushed[p] < sent[p] /\ Pushed'[p] = sent[p]
    <3>1. sent[p] \in 1 .. Quota /\ lastGot[p] \in 0 .. Quota
      BY <2>1 DEF TypeInv, ControlTypes, DataTypes
    <3>2. Pushed[p] = sent[p] - 1 /\ lastGot[p] <= Pushed[p]
      BY <1>1, <2>1 DEF Pushed, Filling, Fresh
    <3>3. Pushed'[p] = sent[p]
      BY <2>1 DEF Pushed, Filling
    <3> QED BY <1>1, <2>1, <3>1, <3>2, <3>3, QuotaAssumption DEF Copies, Message
  <2>8. Fresh'
    <3>1. \A q \in Producers : /\ Pushed[q] \in Int /\ Pushed'[q] \in Int
                               /\ lastGot[q] \in 0 .. Quota
      <4>1. \A q \in Producers : Pushed'[q] \in Int
        BY <1>1, <2>1, QuotaAssumption DEF Pushed
      <4> QED BY <4>1, Places
    <3>2. \A q \in Producers : lastGot'[q] <= Pushed'[q]
      BY <1>1, <1>2, <1>3, <3>1, QuotaAssumption DEF Fresh
    <3>3. ASSUME NEW i \in Index, InRing(i)'
          PROVE  /\ buffer'[i] \in Message
                 /\ lastGot'[buffer'[i][1]] < buffer'[i][2]
                 /\ buffer'[i][2] <= Pushed'[buffer'[i][1]]
      <4>1. CASE i = mem.head
        BY <1>3, <2>1, <2>7, <4>1, QuotaAssumption
      <4>2. CASE InRing(i)
        <5>1. PICK q \in Producers, k \in 1 .. Quota : buffer[i] = <<q, k>>
          BY <1>1, <4>2 DEF Fresh, Message
        <5>2. lastGot[q] < k /\ k <= Pushed[q] /\ buffer[i] \in Message
          BY <1>1, <4>2, <5>1 DEF Fresh
        <5>3. k <= Pushed'[q]
          BY <1>2, <3>1, <5>2, QuotaAssumption
        <5> QED BY <1>3, <2>1, <5>1, <5>2, <5>3
      <4> QED BY <2>6, <3>3, <4>1, <4>2
    <3> QED BY <3>2, <3>3 DEF Fresh
  <2>9. Growing'
    <3> SUFFICES ASSUME NEW i \in Index, NEW j \in Index, InRing(i)', InRing(j)',
                        Gap(mem.tail, i) < Gap(mem.tail, j),
                        buffer[i][1] = buffer[j][1]
                 PROVE  buffer[i][2] < buffer[j][2]
      BY <2>1, <2>2 DEF Growing
    <3>1. CASE InRing(i) /\ InRing(j)
      BY <1>1, <3>1 DEF Growing
    <3>2. CASE InRing(i) /\ j = mem.head
      <4>1. PICK q \in Producers, k \in 1 .. Quota : buffer[i] = <<q, k>> /\ k <= Pushed[q]
        BY <1>1, <3>2 DEF Fresh, Message
      <4>2. q = p
        BY <2>7, <3>2, <4>1
      <4>3. Pushed[p] \in Int
        BY Places
      <4> QED BY <2>7, <3>2, <4>1, <4>2, <4>3, QuotaAssumption
    <3>3. CASE i = mem.head
      <4>1. /\ Gap(mem.tail, j) <= Gap(mem.tail, mem.head)
            /\ Gap(mem.tail, j) \in 0 .. Capacity /\ Gap(mem.tail, mem.head) \in 0 .. Capacity
        BY <1>1, <2>6, Gaps, CapacityAssumption DEF InRing
      <4> QED BY <3>3, <4>1, CapacityAssumption
    <3> QED BY <2>6, <3>1, <3>2, <3>3
  <2>10. Held' = Held \cup {<<p, sent[p]>>}
    BY <1>1, <2>1, <2>6, <2>7 DEF Held
  <2>11. \A k \in 1 .. Quota : lastGot[p] < k /\ k <= sent[p] => <<p, k>> \in Held'
    <3>1. \A k \in 1 .. Quota : lastGot[p] < k /\ k <= Pushed[p] => <<p, k>> \in Held
      BY <1>1, <2>1 DEF Kept, Filling
    <3>2. Pushed[p] = sent[p] - 1
      BY <2>1 DEF Pushed, Filling
    <3> QED BY <2>7, <2>10, <3>1, <3>2, QuotaAssumption
  <2>12. Kept'
    <3>1. ASSUME NEW q \in Producers \ {p}
          PROVE  pc'[q] = pc[q] /\ Pushed'[q] = Pushed[q]
      BY <1>2, <2>1 DEF Pushed
    <3> QED BY <1>1, <1>3, <2>7, <2>10, <2>11, <3>1 DEF Kept
  <2>13. Whole'
    <3> SUFFICES ASSUME NEW q \in Producers, NEW k \in 1 .. Quota, <<q, k>> \in Held',
                        NEW j \in 1 .. k, j > lastGot[q]
                 PROVE  <<q, j>> \in Held'
      BY <1>3 DEF Whole
    <3>1. CASE <<q, k>> \in Held
      BY <1>1, <2>10, <3>1 DEF Whole
    <3>2. CASE q = p /\ k = sent[p]
      <4>1. j \in 1 .. Quota /\ j <= sent[p] /\ lastGot[p] < j
        BY <2>7, <3>2, QuotaAssumption
      <4> QED BY <2>11, <3>2, <4>1
    <3> QED BY <2>10, <3>1, <3>2
  <2> QED BY <2>4, <2>5, <2>8, <2>9, <2>12, <2>13 DEF RingInv
<1>6. CASE ~ PushWrite(p) /\ ~ PushPublish(p)
  <2>1. /\ mem' = mem /\ buffer' = buffer
        /\ \A q \in Producers \ {p} : cur'[q] = cur[q]
    BY <1>1, <1>3, <1>6 DEF Produce, PushStopped, PushBegin, PushLoad, PushTest,
       EvictLoad, EvictTest, EvictAdvance, Signal, PushLock, PushNotify
  <2>2. /\ pc'[p] \notin {"evict", "oldest", "drop", "publish"}
        /\ pc'[p] \in Filling => cur'[p] = mem.head
        /\ pc'[p] = "write" => Succ(mem.head) # mem.tail
    <3>1. pc'[p] # "evict"
      BY DEF NoOverflow
    <3> QED BY <1>1, <1>3, <1>6, <3>1
         DEF Produce, PushStopped, PushBegin, PushLoad, PushTest, EvictLoad, EvictTest,
             EvictAdvance, Signal, PushLock, PushNotify, Goto, Wakes, Ends, Filling
  <2>3. Ends'
    <3>1. ASSUME NEW q \in Producers
          PROVE  /\ pc'[q] \notin {"evict", "oldest", "drop"}
                 /\ pc'[q] \in Filling => cur'[q] = mem.head
                 /\ pc'[q] \in {"write", "publish"} => Succ(mem.head) # mem.tail
      BY <1>1, <1>2, <2>1, <2>2 DEF Ends
    <3> QED BY <1>1, <1>2, <1>3, <2>1, <3>1 DEF Ends
  <2>4. Copies'
    BY <1>1, <1>2, <1>3, <2>1, <2>2 DEF Copies
  <2>5. Fresh' /\ Growing' /\ Held' = Held
    BY <1>1, <1>2, <1>3, <2>1, SlotsFrame
  <2>6. /\ mem.started \/ pc'[p] \in {"push"} \cup Filling
             => mem.started \/ pc[p] \in {"push"} \cup Filling
        /\ mem.started \/ pc'[p] \in {"push"} \cup Filling => Pushed'[p] = Pushed[p]
    <3>1. Load(p, "started") = mem.started
      BY <1>1, LoadIsShared
    <3>2. CASE PushStopped(p)
      BY <1>1, <3>1, <3>2 DEF PushStopped, Filling
    <3>3. CASE PushBegin(p)
      <4>1. /\ mem.started /\ sent'[p] = sent[p] + 1 /\ pc[p] = "idle"
            /\ pc'[p] = "push" /\ sent[p] \in Int
        BY <1>1, <3>1, <3>3, QuotaAssumption DEF PushBegin, Goto
      <4> QED BY <4>1 DEF Pushed, Filling
    <3>4. CASE ~ PushStopped(p) /\ ~ PushBegin(p)
      <4>1. sent' = sent /\ (pc[p] \in {"push"} \cup Filling
                               <=> pc'[p] \in {"push"} \cup Filling)
        <5>1. pc'[p] # "evict"
          BY DEF NoOverflow
        <5> QED BY <1>1, <1>3, <1>6, <3>4, <5>1
             DEF Produce, PushLoad, PushTest, EvictLoad, EvictTest, EvictAdvance, Signal,
                 PushLock, PushNotify, Goto, Wakes, Ends, Filling
      <4> QED BY <4>1 DEF Pushed
    <3> QED BY <3>2, <3>3, <3>4
  <2>7. Kept'
    <3>1. ASSUME NEW q \in Producers \ {p}
          PROVE  pc'[q] = pc[q] /\ Pushed'[q] = Pushed[q]
      BY <1>2 DEF Pushed
    <3> QED BY <1>1, <1>3, <2>5, <2>6, <3>1 DEF Kept
  <2> QED BY <1>1, <1>3, <2>3, <2>4, <2>5, <2>7 DEF RingInv, Whole
<1> QED BY <1>4, <1>5, <1>6

LEMMA ListenRing ==
  ASSUME Types, TypeInv, Types', TypeInv', ~ Buffered, RingInv, Listen \/ SpuriousWake
  PROVE  RingInv' /\ (PopAdvance => item # None /\ item[2] = lastGot[item[1]] + 1)
<1>1. /\ mem.head \in Index /\ mem.tail \in Index /\ mem \in Atomics
      /\ Listener \in Threads /\ \A p \in Producers : p \in Threads /\ p # Listener
      /\ Load(Listener, "head") = mem.head /\ Load(Listener, "tail") = mem.tail
      /\ cur \in [Threads -> Index] /\ buffer \in [Index -> Message \cup {None}]
      /\ pc \in [Threads -> Labels] /\ sent \in [Producers -> 0 .. Quota]
      /\ lastGot \in [Producers -> 0 .. Quota]
      /\ Ends /\ Copies /\ Fresh /\ Growing /\ Whole /\ Kept
  BY Places, Roles DEF Types, TypeInv, ControlTypes, DataTypes, RingInv
<1>2. /\ buffer' = buffer /\ sent' = sent /\ retry' = retry
      /\ \A p \in Producers : pc'[p] = pc[p]
      /\ \A p \in Producers : cur'[p] = cur[p]
  BY <1>1 DEF Listen, PopLoad, PopTest, PopRead, PopAdvance, WaitLock, Announce,
     WaitHead, WaitTail, WaitStopped, WaitSleep, WaitRelock, Withdraw, PopUnlock,
     SpuriousWake, Goto
<1>3. Pushed' = Pushed /\ \A p \in Producers : Pushed[p] \in Int
  BY <1>2, Places DEF Pushed
<1>4. CASE PopAdvance
  <2>1. /\ mem' = [mem EXCEPT !["tail"] = Succ(mem.tail)] /\ cur' = cur
        /\ pc[Listener] = "advance" /\ pc'[Listener] \in {"unlock", "idle"}
        /\ item = buffer[mem.tail] /\ mem.tail # mem.head
    <3>1. mem' = [mem EXCEPT !["tail"] = Succ(cur[Listener])]
      BY <1>1, <1>4, StoreIsShared DEF PopAdvance
    <3> QED BY <1>1, <1>4, <3>1 DEF PopAdvance, Ends, Copies, Goto
  <2>2. mem'.tail = Succ(mem.tail) /\ mem'.head = mem.head
    BY <1>1, <2>1 DEF Atomics
  <2>3. PICK t \in Index, h \in Index : t = mem.tail /\ h = mem.head
    BY <1>1
  <2>4. Gap(t, t) = 0 /\ Gap(t, h) \in 1 .. Capacity /\ InRing(t)
    BY <2>1, <2>3, Gaps, CapacityAssumption DEF InRing
  <2>5. PICK q \in Producers, k \in 1 .. Quota : buffer[t] = <<q, k>>
    BY <1>1, <2>4 DEF Fresh, Message
  <2>6. /\ item = <<q, k>> /\ item # None /\ lastGot[q] < k /\ k <= Pushed[q]
    BY <1>1, <2>1, <2>3, <2>4, <2>5, NoneAssumption DEF Fresh
  <2>7. \A p \in Producers : lastGot'[p] = IF p = q THEN k ELSE lastGot[p]
    BY <1>4, <2>6 DEF PopAdvance
  <2>8. ASSUME NEW i \in Index, InRing(i)'
        PROVE  InRing(i) /\ i # t /\ Gap(Succ(t), i) = Gap(t, i) - 1 /\ Gap(t, i) # 0
    <3>1. Gap(Succ(t), i) < Gap(Succ(t), h)
      BY <2>2, <2>3, <2>8 DEF InRing
    <3>2. /\ Gap(Succ(t), i) = IF t = i THEN Capacity ELSE Gap(t, i) - 1
          /\ Gap(Succ(t), h) = Gap(t, h) - 1
          /\ Gap(t, i) \in 0 .. Capacity /\ (Gap(t, i) = 0 <=> t = i)
      BY <2>1, <2>3, Gaps
    <3>3. t # i
      BY <2>4, <3>1, <3>2, CapacityAssumption
    <3>4. Gap(t, i) < Gap(t, h)
      BY <2>4, <3>1, <3>2, <3>3, CapacityAssumption
    <3> QED BY <2>3, <3>2, <3>3, <3>4 DEF InRing
  <2>9. Ends'
    <3>1. ASSUME NEW p \in Producers, pc[p] \in {"write", "publish"}
          PROVE  Succ(mem.head) # Succ(mem.tail)
      <4>1. Gap(Succ(t), h) = Gap(t, h) - 1 /\ Gap(Succ(t), t) = Capacity
        BY <2>1, <2>3, Gaps
      <4>2. Succ(h) # t
        BY <1>1, <2>3, <3>1 DEF Ends
      <4>3. /\ Succ(t) \in Index /\ Succ(h) \in Index
            /\ Gap(t, Succ(h)) = Gap(t, h) + 1 /\ Gap(t, Succ(h)) \in 0 .. Capacity
        BY <4>2, Gaps, SuccIndex
      <4>4. CASE Succ(t) = t
        BY <4>1, <4>4, <2>4, CapacityAssumption
      <4>5. CASE Succ(t) # t
        <5>1. Gap(t, Succ(t)) = 1
          BY <2>4, <4>5, Gaps
        <5> QED BY <2>3, <2>4, <4>3, <5>1, CapacityAssumption
      <4> QED BY <4>4, <4>5
    <3> QED BY <1>1, <1>2, <2>1, <2>2, <3>1 DEF Ends
  <2>10. Copies'
    BY <1>1, <1>2, <2>1, <2>2 DEF Copies
  <2>11. Fresh'
    <3>1. \A p \in Producers : lastGot'[p] <= Pushed'[p]
      BY <1>1, <1>3, <2>6, <2>7 DEF Fresh
    <3>2. ASSUME NEW i \in Index, InRing(i)'
          PROVE  /\ buffer'[i] \in Message
                 /\ lastGot'[buffer'[i][1]] < buffer'[i][2]
                 /\ buffer'[i][2] <= Pushed'[buffer'[i][1]]
      <4>1. PICK r \in Producers, n \in 1 .. Quota : buffer[i] = <<r, n>>
        BY <1>1, <2>8, <3>2 DEF Fresh, Message
      <4>2. lastGot[r] < n /\ n <= Pushed[r] /\ buffer[i] \in Message
        BY <1>1, <2>8, <3>2, <4>1 DEF Fresh
      <4>3. r = q => k < n
        <5>1. Gap(t, t) < Gap(t, i)
          BY <2>4, <2>8, <3>2, Gaps, CapacityAssumption
        <5>2. InRing(i)
          BY <2>8, <3>2
        <5>3. buffer[t][1] = buffer[i][1] => buffer[t][2] < buffer[i][2]
          BY <1>1, <2>3, <2>4, <5>1, <5>2 DEF Growing
        <5> QED BY <2>5, <4>1, <5>3
      <4> QED BY <1>2, <1>3, <2>7, <4>1, <4>2, <4>3
    <3> QED BY <3>1, <3>2 DEF Fresh
  <2>12. Growing'
    <3> SUFFICES ASSUME NEW i \in Index, NEW j \in Index, InRing(i)', InRing(j)',
                        Gap(mem'.tail, i) < Gap(mem'.tail, j),
                        buffer[i][1] = buffer[j][1]
                 PROVE  buffer[i][2] < buffer[j][2]
      BY <1>2 DEF Growing
    <3>1. Gap(t, i) < Gap(t, j)
      <4>1. Gap(t, i) \in Int /\ Gap(t, j) \in Int
        BY Gaps
      <4> QED BY <2>2, <2>3, <2>8, <4>1
    <3> QED BY <1>1, <2>3, <2>8, <3>1 DEF Growing
  <2>13. ASSUME NEW i \in Index, InRing(i), i # t PROVE InRing(i)'
    <3>1. /\ Gap(Succ(t), i) = Gap(t, i) - 1 /\ Gap(Succ(t), h) = Gap(t, h) - 1
          /\ Gap(t, i) \in 0 .. Capacity /\ Gap(t, i) < Gap(t, h)
      BY <2>1, <2>3, <2>13, Gaps DEF InRing
    <3>2. Gap(Succ(t), i) < Gap(Succ(t), h)
      BY <2>4, <3>1, CapacityAssumption
    <3> QED BY <2>2, <2>3, <3>2 DEF InRing
  <2>14. ASSUME NEW p \in Producers, NEW j \in 1 .. Quota, <<p, j>> \in Held,
                p = q => j # k
         PROVE  <<p, j>> \in Held'
    <3>1. PICK i \in Index : InRing(i) /\ buffer[i] = <<p, j>>
      BY <2>14 DEF Held
    <3>2. i # t
      BY <2>5, <2>14, <3>1
    <3> QED BY <1>2, <2>13, <3>1, <3>2 DEF Held
  <2>15. Held' \subseteq Held
    BY <1>2, <2>8 DEF Held
  <2>16. k = lastGot[q] + 1
    <3>1. lastGot[q] \in 0 .. Quota /\ lastGot[q] + 1 \in 1 .. k
      BY <1>1, <2>6, QuotaAssumption
    <3>2. <<q, k>> \in Held
      BY <2>3, <2>4, <2>5 DEF Held
    <3>3. lastGot[q] + 1 > lastGot[q]
      BY <3>1, QuotaAssumption
    <3>4. <<q, lastGot[q] + 1>> \in Held
      BY <1>1, <3>1, <3>2, <3>3 DEF Whole
    <3>5. PICK i \in Index : InRing(i) /\ buffer[i] = <<q, lastGot[q] + 1>>
      BY <3>4 DEF Held
    <3>6. CASE i = t
      BY <2>5, <3>5, <3>6
    <3>7. CASE i # t
      <4>1. Gap(t, t) < Gap(t, i)
        BY <2>4, <3>7, Gaps, CapacityAssumption
      <4>2. buffer[t][2] < buffer[i][2]
        BY <1>1, <2>3, <2>4, <2>5, <3>5, <4>1 DEF Growing
      <4> QED BY <2>5, <3>1, <3>5, <4>2, QuotaAssumption
    <3> QED BY <3>6, <3>7
  <2>17. Whole'
    <3> SUFFICES ASSUME NEW p \in Producers, NEW n \in 1 .. Quota, <<p, n>> \in Held',
                        NEW j \in 1 .. n, j > lastGot'[p]
                 PROVE  <<p, j>> \in Held'
      BY DEF Whole
    <3>1. j \in 1 .. Quota /\ j > lastGot[p] /\ (p = q => j # k)
      <4>1. lastGot[p] \in 0 .. Quota
        BY <1>1
      <4> QED BY <2>6, <2>7, <4>1, QuotaAssumption
    <3>2. <<p, j>> \in Held
      BY <1>1, <2>15, <3>1 DEF Whole
    <3> QED BY <2>14, <3>1, <3>2
  <2>18. Kept'
    <3> SUFFICES ASSUME NEW p \in Producers,
                        mem'.started \/ pc'[p] \in {"push"} \cup Filling,
                        NEW n \in 1 .. Quota, lastGot'[p] < n, n <= Pushed'[p]
                 PROVE  <<p, n>> \in Held'
      BY DEF Kept
    <3>1. mem'.started = mem.started
      BY <1>1, <2>1 DEF Atomics
    <3>2. lastGot[p] < n /\ (p = q => n # k)
      <4>1. lastGot[p] \in 0 .. Quota
        BY <1>1
      <4> QED BY <2>6, <2>7, <4>1, QuotaAssumption
    <3>3. <<p, n>> \in Held
      BY <1>1, <1>2, <1>3, <3>1, <3>2 DEF Kept
    <3> QED BY <2>14, <3>2, <3>3
  <2> QED BY <2>6, <2>9, <2>10, <2>11, <2>12, <2>16, <2>17, <2>18 DEF RingInv
<1>5. CASE ~ PopAdvance
  <2>1. /\ lastGot' = lastGot /\ mem'.head = mem.head /\ mem'.tail = mem.tail
        /\ mem'.started = mem.started
    <3>1. CASE Announce
      <4>1. mem' = [mem EXCEPT !["waiting"] = TRUE]
        BY <1>1, <3>1, StoreIsShared DEF Announce
      <4> QED BY <1>1, <3>1, <4>1 DEF Announce, Atomics
    <3>2. CASE Withdraw
      <4>1. mem' = [mem EXCEPT !["waiting"] = FALSE]
        BY <1>1, <3>2, StoreIsShared DEF Withdraw
      <4> QED BY <1>1, <3>2, <4>1 DEF Withdraw, Atomics
    <3>3. CASE ~ Announce /\ ~ Withdraw
      BY <1>5, <3>3 DEF Listen, PopLoad, PopTest, PopRead, WaitLock, WaitHead, WaitTail,
         WaitStopped, WaitSleep, WaitRelock, PopUnlock, SpuriousWake
    <3> QED BY <3>1, <3>2, <3>3
  <2>2. /\ pc'[Listener] \in {"avail", "read", "advance"} => cur'[Listener] = mem.tail
        /\ pc'[Listener] \in {"read", "advance"} => mem.tail # mem.head
        /\ pc'[Listener] = "advance" => item' = buffer[mem.tail]
    BY <1>1, <1>5 DEF Listen, PopLoad, PopTest, PopRead, WaitLock, Announce, WaitHead,
       WaitTail, WaitStopped, WaitSleep, WaitRelock, Withdraw, PopUnlock, SpuriousWake,
       Goto, Ends
  <2>3. Ends' /\ Copies'
    BY <1>1, <1>2, <2>1, <2>2 DEF Ends, Copies
  <2>4. Fresh' /\ Growing' /\ Held' = Held
    BY <1>1, <1>2, <1>3, <2>1, SlotsFrame
  <2>5. Whole' /\ Kept'
    BY <1>1, <1>2, <1>3, <2>1, <2>4 DEF Whole, Kept
  <2> QED BY <1>5, <2>3, <2>4, <2>5 DEF RingInv
<1> QED BY <1>4, <1>5

LEMMA StopRing ==
  ASSUME Types, TypeInv, Types', TypeInv', ~ Buffered, RingInv,
         NEW s \in Stoppers, Stop(s)
  PROVE  RingInv'
<1>1. /\ mem \in Atomics /\ pc \in [Threads -> Labels] /\ s \in Threads
      /\ s # Listener /\ s \notin Producers /\ Listener \in Threads
      /\ \A p \in Producers : p \in Threads /\ p # Listener
      /\ Ends /\ Copies /\ Fresh /\ Growing /\ Whole /\ Kept
  BY Roles DEF Types, RingInv
<1>2. mem'.head = mem.head /\ mem'.tail = mem.tail /\ (mem'.started => mem.started)
  <2>1. CASE StopFlag(s)
    <3>1. mem' = [mem EXCEPT !["started"] = FALSE]
      BY <1>1, <2>1, StoreIsShared DEF StopFlag
    <3> QED BY <1>1, <3>1 DEF Atomics
  <2>2. CASE ~ StopFlag(s)
    BY <2>2 DEF Stop, StopLock, StopNotify
  <2> QED BY <2>1, <2>2
<1>3. UNCHANGED <<buffer, cur, sent, item, lastGot, retry>>
  BY DEF Stop, StopFlag, StopLock, StopNotify
<1>4. /\ \A p \in Producers : pc'[p] = pc[p]
      /\ \/ pc'[Listener] = pc[Listener]
         \/ pc[Listener] = "asleep" /\ pc'[Listener] = "woken"
  BY <1>1 DEF Stop, StopFlag, StopLock, StopNotify, Goto
<1>5. Ends' /\ Copies'
  BY <1>1, <1>2, <1>3, <1>4 DEF Ends, Copies
<1>6. \A p \in Producers : Pushed[p] <= Pushed'[p]
  <2>1. Pushed' = Pushed /\ \A p \in Producers : Pushed[p] \in Int
    BY <1>3, <1>4, Places DEF Pushed
  <2> QED BY <2>1
<1>7. Fresh' /\ Growing' /\ Held' = Held
  BY <1>1, <1>2, <1>3, <1>6, SlotsFrame
<1>8. Whole' /\ Kept'
  <2>1. Pushed' = Pushed
    BY <1>3, <1>4 DEF Pushed
  <2> QED BY <1>1, <1>2, <1>3, <1>4, <1>7, <2>1 DEF Whole, Kept
<1> QED BY <1>5, <1>7, <1>8 DEF RingInv

LEMMA RingStep ==
  ASSUME WakeupInv, TypeInv, WakeupInv', TypeInv', ~ Buffered, RingInv, Serial,
         NoOverflow', [Next]_vars
  PROVE  RingInv' /\ (PopAdvance => item # None /\ item[2] = lastGot[item[1]] + 1)
<1>1. Types /\ Types'
  BY DEF WakeupInv
<1>2. CASE UNCHANGED vars
  <2>1. RingInv'
    <3>1. UNCHANGED <<Pushed, Held>>
      BY <1>2 DEF vars, InRing, Pushed, Held
    <3> QED BY <1>2, <3>1 DEF vars, RingInv, Ends, Copies, Fresh, Growing, InRing, Whole,
         Kept
  <2>2. ~ PopAdvance
    <3>1. pc \in [Threads -> Labels] /\ Listener \in Threads
      BY <1>1, Roles DEF Types
    <3> QED BY <1>2, <3>1 DEF vars, PopAdvance, Goto
  <2> QED BY <2>1, <2>2
<1>3. ASSUME NEW t \in Threads PROVE ~ Drain(t)
  BY <1>1 DEF Types, Drain
<1>4. ASSUME ~ Listen PROVE ~ PopAdvance
  BY <1>4 DEF Listen
<1>5. CASE Listen \/ SpuriousWake
  BY <1>1, <1>5, ListenRing
<1>6. ASSUME NEW p \in Producers, Produce(p), ~ Listen PROVE RingInv'
  BY <1>1, <1>6, ProduceRing
<1>7. ASSUME NEW s \in Stoppers, Stop(s), ~ Listen PROVE RingInv'
  BY <1>1, <1>7, StopRing
<1> QED BY <1>2, <1>3, <1>4, <1>5, <1>6, <1>7 DEF Next

\* The messages of one producer are delivered in the order of their pushes, none
\* twice and none left out, as long as no two producers fill a slot at once and the
\* ring does not overflow, with a stop() at any time.  A producer that pops the oldest message moves the listener's own
\* index, and two that push at once write into one slot.
THEOREM DeliveryInOrder ==
  ASSUME ~ Buffered
  PROVE  Spec /\ [](Serial /\ NoOverflow) => InOrder
<1> DEFINE Inv == WakeupInv /\ TypeInv /\ RingInv
<1>1. Init => Inv
  BY WakeupInit, TypesInit, RingInit
<1>2. Inv /\ (Serial /\ NoOverflow) /\ (Serial /\ NoOverflow)' /\ [Next]_vars => Inv'
  <2>1. WakeupInv /\ [Next]_vars => WakeupInv'
    BY WakeupStep
  <2> QED BY <2>1, TypesStep, RingStep
<1>3. Inv /\ (Serial /\ NoOverflow) /\ (Serial /\ NoOverflow)' /\ [Next]_vars
        => [PopAdvance => item # None /\ item[2] = lastGot[item[1]] + 1]_vars
  <2>1. WakeupInv /\ [Next]_vars => WakeupInv'
    BY WakeupStep
  <2> QED BY <2>1, TypesStep, RingStep
<1> HIDE DEF Inv
<1> QED BY <1>1, <1>2, <1>3, PTL DEF Spec, InOrder

-----------------------------------------------------------------------------
(***************************************************************************)
(* A pipe with one producer that pushes no more than fits does not         *)
(* overflow: the occupied slots are among the messages pushed and not yet  *)
(* delivered.                                                              *)
(***************************************************************************)
OneProducer == \A p, q \in Producers : p = q

RoomLeft ==
  \A p \in Producers : Gap(mem.tail, mem.head) <= Pushed[p] - lastGot[p]

LEMMA FitsInit == Init => RoomLeft /\ NoOverflow
<1> SUFFICES ASSUME Init PROVE RoomLeft /\ NoOverflow
  OBVIOUS
<1>1. 0 \in Index
  BY CapacityAssumption DEF Index
<1>2. Gap(mem.tail, mem.head) = 0
  BY <1>1, Gaps DEF Init
<1>3. \A p \in Producers : Pushed[p] = 0 /\ lastGot[p] = 0 /\ pc[p] = "idle"
  BY Roles DEF Init, Pushed, Filling
<1> QED BY <1>2, <1>3 DEF RoomLeft, NoOverflow

LEMMA FitsNoOverflow ==
  ASSUME Types, TypeInv, RingInv, RoomLeft, NoOverflow, Quota <= Capacity, [Next]_vars
  PROVE  NoOverflow'
<1>1. pc \in [Threads -> Labels] /\ cur \in [Threads -> Index]
      /\ \A p \in Producers : p \in Threads /\ p # Listener
  BY Roles DEF Types
<1>2. ASSUME NEW p \in Producers, pc'[p] = "evict" PROVE FALSE
  <2>1. pc[p] # "evict"
    BY DEF NoOverflow
  <2>2. PushTest(p) /\ Succ(cur[p]) = Load(p, "tail")
    <3>1. \A q \in Producers : Produce(q) => PushTest(p) /\ Succ(cur[p]) = Load(p, "tail")
      BY <1>1, <1>2, <2>1 DEF Produce, PushStopped, PushBegin, PushLoad, PushTest,
         PushWrite, PushPublish, EvictLoad, EvictTest, EvictAdvance, Signal, PushLock,
         PushNotify, Goto, Wakes
    <3>2. ~ (Listen \/ SpuriousWake)
      BY <1>1, <1>2, <2>1 DEF Listen, PopLoad, PopTest, PopRead, PopAdvance, WaitLock,
         Announce, WaitHead, WaitTail, WaitStopped, WaitSleep, WaitRelock, Withdraw,
         PopUnlock, SpuriousWake, Goto
    <3>3. \A q \in Stoppers : ~ Stop(q)
      BY <1>1, <1>2, <2>1 DEF Stop, StopFlag, StopLock, StopNotify, Goto
    <3>4. \A t \in Threads : ~ Drain(t)
      BY <1>2, <2>1 DEF Drain
    <3> QED BY <1>2, <2>1, <3>1, <3>2, <3>3, <3>4 DEF Next, vars
  <2>3. pc[p] = "room" /\ cur[p] = mem.head /\ Load(p, "tail") = mem.tail
        /\ mem.head \in Index /\ mem.tail \in Index
    BY <1>1, <2>2, Places DEF PushTest, RingInv, Ends, Filling
  <2>4. Gap(mem.tail, mem.head) = Capacity
    <3>1. PICK t \in Index, h \in Index : t = mem.tail /\ h = mem.head
      BY <2>3
    <3>2. Succ(h) = t
      BY <2>2, <2>3, <3>1
    <3>3. Gap(Succ(h), h) = Capacity
      BY <3>1, Gaps
    <3> QED BY <3>1, <3>2, <3>3
  <2>5. /\ Pushed[p] = sent[p] - 1 /\ sent[p] \in 0 .. Quota /\ lastGot[p] \in 0 .. Quota
        /\ Gap(mem.tail, mem.head) <= Pushed[p] - lastGot[p]
    BY <2>3, Places DEF Filling, RoomLeft
  <2> QED BY <2>4, <2>5, QuotaAssumption, CapacityAssumption
<1> QED BY <1>2 DEF NoOverflow

LEMMA FitsStep ==
  ASSUME Types, TypeInv, Types', TypeInv', ~ Buffered, RingInv, RoomLeft, OneProducer,
         [Next]_vars,
         PopAdvance => item # None /\ item[2] = lastGot[item[1]] + 1
  PROVE  RoomLeft'
<1>1. /\ mem \in Atomics /\ mem.head \in Index /\ mem.tail \in Index
      /\ pc \in [Threads -> Labels] /\ cur \in [Threads -> Index]
      /\ \A p \in Producers : p \in Threads /\ p # Listener
      /\ Listener \in Threads /\ Ends
      /\ \A p \in Producers : Pushed[p] \in Int /\ lastGot[p] \in Int
  BY Places, Roles, QuotaAssumption DEF Types, RingInv
<1>2. PICK t \in Index, h \in Index : t = mem.tail /\ h = mem.head
  BY <1>1
<1>3. Gap(t, h) \in Int /\ \A p \in Producers : Gap(t, h) <= Pushed[p] - lastGot[p]
  <2>1. Gap(t, h) \in 0 .. Capacity
    BY <1>2, Gaps
  <2> QED BY <1>2, <2>1, CapacityAssumption DEF RoomLeft
<1>4. \A p \in Producers : Pushed'[p] \in Int
  <2>1. sent' \in [Producers -> 0 .. Quota]
    BY DEF TypeInv, ControlTypes
  <2> QED BY <2>1, QuotaAssumption DEF Pushed
<1>5. ASSUME NEW p \in Producers, PushPublish(p) PROVE RoomLeft'
  <2>1. /\ mem' = [mem EXCEPT !["head"] = Succ(mem.head)] /\ lastGot' = lastGot
        /\ sent' = sent /\ pc[p] = "publish" /\ pc'[p] = "signal"
    <3>1. mem' = [mem EXCEPT !["head"] = Succ(cur[p])]
      BY <1>1, <1>5, StoreIsShared DEF PushPublish
    <3> QED BY <1>1, <1>5, <3>1 DEF PushPublish, Ends, Filling, Goto
  <2>2. mem'.head = Succ(h) /\ mem'.tail = t /\ Gap(t, Succ(h)) = Gap(t, h) + 1
    <3>1. Succ(h) # t
      BY <1>1, <1>2, <2>1 DEF Ends
    <3> QED BY <1>1, <1>2, <2>1, <3>1, Gaps DEF Atomics
  <2>3. Pushed'[p] = sent[p] /\ Pushed[p] = sent[p] - 1 /\ sent[p] \in Int
    BY <2>1, Places, QuotaAssumption DEF Pushed, Filling
  <2>4. Gap(t, Succ(h)) <= Pushed'[p] - lastGot[p]
    BY <1>1, <1>3, <2>2, <2>3
  <2> QED BY <2>1, <2>2, <2>4 DEF RoomLeft, OneProducer
<1>6. CASE PopAdvance
  <2>1. /\ mem' = [mem EXCEPT !["tail"] = Succ(mem.tail)] /\ sent' = sent
        /\ \A p \in Producers : pc'[p] = pc[p]
        /\ mem.tail # mem.head
    <3>1. mem' = [mem EXCEPT !["tail"] = Succ(cur[Listener])]
      BY <1>1, <1>6, StoreIsShared DEF PopAdvance
    <3> QED BY <1>1, <1>6, <3>1 DEF PopAdvance, Ends, Goto
  <2>2. mem'.head = h /\ mem'.tail = Succ(t) /\ Gap(Succ(t), h) = Gap(t, h) - 1
    BY <1>1, <1>2, <2>1, Gaps DEF Atomics
  <2>3. ASSUME NEW p \in Producers
        PROVE  lastGot'[p] = lastGot[p] + 1 /\ Pushed'[p] = Pushed[p]
    <3>1. item \in Producers \X (1 .. Quota) /\ item[1] = p
      <4>1. item \in Message \cup {None} /\ item # None
        BY <1>6 DEF TypeInv, DataTypes
      <4> QED BY <4>1 DEF Message, OneProducer
    <3> QED BY <1>6, <2>1, <3>1 DEF PopAdvance, Pushed
  <2>4. ASSUME NEW p \in Producers
        PROVE  Gap(Succ(t), h) <= Pushed'[p] - lastGot'[p]
    BY <1>1, <1>3, <2>2, <2>3
  <2> QED BY <2>2, <2>4 DEF RoomLeft
<1>7. CASE ~ PopAdvance /\ \A p \in Producers : ~ PushPublish(p)
  <2>1. /\ mem'.head = h /\ mem'.tail = t /\ lastGot' = lastGot
        /\ \A p \in Producers : Pushed[p] <= Pushed'[p]
    <3>1. CASE \E p \in Producers : Produce(p)
      <4>1. PICK p \in Producers : Produce(p)
        BY <3>1
      <4>2. \A q \in Producers : Pushed[q] <= Pushed'[q]
        BY <1>1, <4>1, PushedGrows
      <4>3. mem' = mem /\ lastGot' = lastGot
        BY <1>1, <1>7, <4>1 DEF Ends, Produce, PushStopped, PushBegin, PushLoad,
           PushTest, PushWrite, EvictLoad, EvictTest, EvictAdvance, Signal, PushLock,
           PushNotify
      <4> QED BY <1>2, <4>2, <4>3
    <3>2. CASE Listen \/ SpuriousWake
      <4>1. sent' = sent /\ lastGot' = lastGot /\ \A p \in Producers : pc'[p] = pc[p]
        BY <1>1, <1>7, <3>2 DEF Listen, PopLoad, PopTest, PopRead, WaitLock, Announce,
           WaitHead, WaitTail, WaitStopped, WaitSleep, WaitRelock, Withdraw, PopUnlock,
           SpuriousWake, Goto
      <4>2. Pushed' = Pushed
        BY <4>1 DEF Pushed
      <4>3. mem'.head = mem.head /\ mem'.tail = mem.tail
        <5>1. CASE Announce \/ Withdraw
          <6>1. PICK b \in BOOLEAN : Store(Listener, "waiting", b)
            BY <5>1 DEF Announce, Withdraw
          <6>2. mem' = [mem EXCEPT !["waiting"] = b]
            BY <1>1, <6>1, StoreIsShared
          <6> QED BY <1>1, <6>2 DEF Atomics
        <5>2. CASE ~ Announce /\ ~ Withdraw
          BY <1>7, <3>2, <5>2 DEF Listen, PopLoad, PopTest, PopRead, WaitLock, WaitHead,
             WaitTail, WaitStopped, WaitSleep, WaitRelock, PopUnlock, SpuriousWake
        <5> QED BY <5>1, <5>2
      <4> QED BY <1>1, <1>2, <4>1, <4>2, <4>3
    <3>3. ASSUME NEW s \in Stoppers, Stop(s) 
          PROVE  /\ mem'.head = h /\ mem'.tail = t /\ lastGot' = lastGot
                 /\ \A p \in Producers : Pushed[p] <= Pushed'[p]
      <4>1. /\ sent' = sent /\ lastGot' = lastGot /\ s \in Threads /\ s \notin Producers
        BY <3>3, Roles DEF Stop, StopFlag, StopLock, StopNotify
      <4>2. \A p \in Producers : pc'[p] = pc[p]
        BY <1>1, <3>3, <4>1 DEF Stop, StopFlag, StopLock, StopNotify, Goto
      <4>3. Pushed' = Pushed
        BY <4>1, <4>2 DEF Pushed
      <4>4. mem'.head = mem.head /\ mem'.tail = mem.tail
        <5>1. CASE StopFlag(s)
          <6>1. mem' = [mem EXCEPT !["started"] = FALSE]
            BY <4>1, <5>1, StoreIsShared DEF StopFlag
          <6> QED BY <1>1, <6>1 DEF Atomics
        <5>2. CASE ~ StopFlag(s)
          BY <3>3, <5>2 DEF Stop, StopLock, StopNotify
        <5> QED BY <5>1, <5>2
      <4> QED BY <1>1, <1>2, <4>1, <4>3, <4>4
    <3>4. CASE UNCHANGED vars
      <4>1. Pushed' = Pushed
        BY <3>4 DEF vars, Pushed
      <4> QED BY <1>1, <1>2, <3>4, <4>1 DEF vars
    <3>5. ASSUME NEW u \in Threads PROVE ~ Drain(u)
      BY DEF Types, Drain
    <3> QED BY <3>1, <3>2, <3>3, <3>4, <3>5 DEF Next
  <2>2. ASSUME NEW p \in Producers
        PROVE  Gap(t, h) <= Pushed'[p] - lastGot'[p]
    BY <1>1, <1>3, <1>4, <2>1
  <2> QED BY <2>1, <2>2 DEF RoomLeft
<1> QED BY <1>5, <1>6, <1>7

LEMMA FitsInvariant ==
  ASSUME ~ Buffered, OneProducer, Quota <= Capacity,
         WakeupInv, TypeInv, RingInv, RoomLeft, NoOverflow, [Next]_vars
  PROVE  /\ (WakeupInv /\ TypeInv /\ RingInv /\ RoomLeft /\ NoOverflow)'
         /\ PopAdvance => item # None /\ item[2] = lastGot[item[1]] + 1
<1>1. WakeupInv' /\ TypeInv' /\ Types /\ Types'
  <2>1. WakeupInv'
    BY WakeupStep
  <2> QED BY <2>1, TypesStep DEF WakeupInv
<1>2. NoOverflow'
  BY <1>1, FitsNoOverflow
<1>3. Serial
  BY DEF Serial, OneProducer
<1>4. RingInv' /\ (PopAdvance => item # None /\ item[2] = lastGot[item[1]] + 1)
  BY <1>1, <1>2, <1>3, RingStep
<1>5. RoomLeft'
  BY <1>1, <1>4, FitsStep
<1> QED BY <1>1, <1>2, <1>4, <1>5

\* A pipe with one producer that pushes no more messages than the ring holds
\* delivers them in order, none twice and none left out.
THEOREM OneProducerInOrder ==
  ASSUME ~ Buffered, OneProducer, Quota <= Capacity
  PROVE  Spec => InOrder
<1> DEFINE Inv == WakeupInv /\ TypeInv /\ RingInv /\ RoomLeft /\ NoOverflow
<1>1. Init => Inv
  BY WakeupInit, TypesInit, RingInit, FitsInit
<1>2. Inv /\ [Next]_vars
        => Inv' /\ [PopAdvance => item # None /\ item[2] = lastGot[item[1]] + 1]_vars
  BY FitsInvariant
<1> HIDE DEF Inv
<1> QED BY <1>1, <1>2, PTL DEF Spec, InOrder

-----------------------------------------------------------------------------
(***************************************************************************)
(* Refinement of MessageChannel.  At(t, k) is the place k slots after t.   *)
(***************************************************************************)
At(t, k) == (t + k) % (Capacity + 1)

LEMMA AtCases ==
  \A t \in Index, k \in 0 .. Capacity :
    At(t, k) = IF t + k <= Capacity THEN t + k ELSE t + k - (Capacity + 1)
<1> SUFFICES ASSUME NEW t \in Index, NEW k \in 0 .. Capacity
    PROVE At(t, k) = IF t + k <= Capacity THEN t + k ELSE t + k - (Capacity + 1)
  OBVIOUS
<1>1. CASE t + k <= Capacity
  BY <1>1, CapacityAssumption DEF At, Index
<1>2. CASE t + k > Capacity
  BY <1>2, CapacityAssumption DEF At, Index
<1> QED BY <1>1, <1>2, CapacityAssumption DEF Index

\* Places by distance.
LEMMA AtPlaces ==
  /\ \A t \in Index, k \in 0 .. Capacity : At(t, k) \in Index /\ Gap(t, At(t, k)) = k
  /\ \A t, h \in Index : At(t, Gap(t, h)) = h
  /\ \A t \in Index : At(t, 0) = t
  /\ \A t \in Index, k \in 0 .. Capacity - 1 : At(Succ(t), k) = At(t, k + 1)
<1>1. \A t \in Index, k \in 0 .. Capacity : At(t, k) \in Index /\ Gap(t, At(t, k)) = k
  BY AtCases, CapacityAssumption DEF Gap, Index
<1>2. \A t, h \in Index : At(t, Gap(t, h)) = h
  BY AtCases, Gaps, CapacityAssumption DEF Gap, Index
<1>3. \A t \in Index : At(t, 0) = t
  BY AtCases, CapacityAssumption DEF Index
<1>4. ASSUME NEW t \in Index, NEW k \in 0 .. Capacity - 1
      PROVE  At(Succ(t), k) = At(t, k + 1)
  <2>1. Succ(t) \in Index /\ Succ(t) = IF t = Capacity THEN 0 ELSE t + 1
    <3>1. t < Capacity => Succ(t) = t + 1
      BY CapacityAssumption DEF Succ, Index
    <3>2. t = Capacity => Succ(t) = 0
      BY CapacityAssumption DEF Succ, Index
    <3> QED BY <3>1, <3>2, SuccIndex, CapacityAssumption DEF Index
  <2>2. k \in 0 .. Capacity /\ k + 1 \in 0 .. Capacity
    BY CapacityAssumption
  <2>3. At(Succ(t), k) = IF Succ(t) + k <= Capacity
                           THEN Succ(t) + k ELSE Succ(t) + k - (Capacity + 1)
    BY <2>1, <2>2, AtCases
  <2>4. At(t, k + 1) = IF t + (k + 1) <= Capacity
                         THEN t + (k + 1) ELSE t + (k + 1) - (Capacity + 1)
    BY <2>2, AtCases
  <2> QED BY <2>1, <2>3, <2>4, CapacityAssumption DEF Index
<1> QED BY <1>1, <1>2, <1>3, <1>4

\* The messages in the ring, as a sequence.
ContentFacts ==
  /\ Content \in Seq(Message)
  /\ Len(Content) = Gap(mem.tail, mem.head)
  /\ \A k \in 1 .. Gap(mem.tail, mem.head) :
       Content[k] = buffer[At(mem.tail, k - 1)]

LEMMA ContentIsSequence == Types /\ TypeInv /\ RingInv => ContentFacts
<1> SUFFICES ASSUME Types, TypeInv, RingInv PROVE ContentFacts
  OBVIOUS
<1>1. PICK t \in Index, h \in Index : t = mem.tail /\ h = mem.head
  BY Places
<1>2. Gap(t, h) \in 0 .. Capacity
  BY Gaps
<1>3. ASSUME NEW k \in 1 .. Gap(t, h)
      PROVE  Content[k] = buffer[At(t, k - 1)] /\ Content[k] \in Message
  <2>1. (t + k) - 1 = t + (k - 1) /\ k - 1 \in 0 .. Capacity
    BY <1>2, CapacityAssumption DEF Index
  <2>2. Content[k] = buffer[At(t, k - 1)]
    BY <1>1, <2>1 DEF Content, At
  <2>3. At(t, k - 1) \in Index /\ Gap(t, At(t, k - 1)) = k - 1
    BY <2>1, AtPlaces
  <2>4. InRing(At(t, k - 1))
    BY <1>1, <1>2, <2>3, CapacityAssumption DEF InRing
  <2> QED BY <2>2, <2>3, <2>4 DEF RingInv, Fresh
<1>4. Content = [k \in 1 .. Gap(t, h) |-> Content[k]]
  BY <1>1 DEF Content
<1>5. Content \in [1 .. Gap(t, h) -> Message]
  BY <1>3, <1>4
<1>6. Gap(t, h) \in Nat
  BY <1>2, CapacityAssumption
<1> QED BY <1>1, <1>3, <1>5, <1>6 DEF ContentFacts

LEMMA ContentStaysSequence == Types' /\ TypeInv' /\ RingInv' => ContentFacts'
BY ContentIsSequence, PTL

\* Adding a message at the head and dropping one at the tail.
LEMMA SequenceFacts ==
  /\ \A s, u \in Seq(Message), m \in Message :
       /\ Len(u) = Len(s) + 1
       /\ \A k \in 1 .. Len(s) : u[k] = s[k]
       /\ u[Len(u)] = m
       => u = Append(s, m)
  /\ \A s, u \in Seq(Message) :
       /\ Len(s) = Len(u) + 1
       /\ \A k \in 1 .. Len(u) : u[k] = s[k + 1]
       => u = Tail(s) /\ Head(s) = s[1]
OBVIOUS

\* Steps that move neither index and leave the slots between them alone.
LEMMA ContentFrame ==
  ASSUME Types, TypeInv, mem'.head = mem.head, mem'.tail = mem.tail,
         \A i \in Index : InRing(i) => buffer'[i] = buffer[i]
  PROVE  Content' = Content
<1>1. PICK t \in Index, h \in Index : t = mem.tail /\ h = mem.head
  BY Places
<1>2. Gap(t, h) \in 0 .. Capacity
  BY Gaps
<1>3. ASSUME NEW k \in 1 .. Gap(t, h)
      PROVE  buffer'[(t + k - 1) % (Capacity + 1)] = buffer[(t + k - 1) % (Capacity + 1)]
  <2>1. (t + k) - 1 = t + (k - 1) /\ k - 1 \in 0 .. Capacity
    BY <1>2, CapacityAssumption DEF Index
  <2>2. At(t, k - 1) \in Index /\ Gap(t, At(t, k - 1)) = k - 1
    BY <2>1, AtPlaces
  <2>3. InRing(At(t, k - 1))
    BY <1>1, <1>2, <2>2, CapacityAssumption DEF InRing
  <2> QED BY <2>1, <2>2, <2>3 DEF At
<1> QED BY <1>1, <1>3 DEF Content

\* Steps that begin and end no push.
LEMMA UnderWayFrame ==
  ASSUME sent' = sent,
         \A p \in Producers : pc'[p] \in {"push"} \cup Filling
                               <=> pc[p] \in {"push"} \cup Filling
  PROVE  UnderWay' = UnderWay
BY DEF UnderWay

\* The store of head_ puts the message into the channel.
LEMMA PublishIsPut ==
  ASSUME Types, TypeInv, RingInv, Types', TypeInv', RingInv', ~ Buffered,
         NEW p \in Producers, PushPublish(p)
  PROVE  \E m \in UnderWay : Channel!Put(m)
<1>1. PICK t \in Index, h \in Index : t = mem.tail /\ h = mem.head
  BY Places
<1>2. /\ p \in Threads /\ pc \in [Threads -> Labels] /\ mem \in Atomics
      /\ \A q \in Producers : q \in Threads
      /\ pc[p] = "publish" /\ pc' = [pc EXCEPT ![p] = "signal"]
      /\ Succ(h) # t /\ cur[p] = h /\ buffer[h] = <<p, sent[p]>>
      /\ UNCHANGED <<buffer, sent, lastGot>>
  BY <1>1, Roles DEF PushPublish, Goto, Types, RingInv, Ends, Copies, Filling
<1>3. mem'.head = Succ(h) /\ mem'.tail = t /\ mem'.started = mem.started
  <2>1. mem' = [mem EXCEPT !["head"] = Succ(h)]
    BY <1>2, StoreIsShared DEF PushPublish
  <2> QED BY <1>1, <1>2, <2>1 DEF Atomics
<1>4. PICK n \in 0 .. Capacity : n = Gap(t, h)
  BY Gaps
<1>5. Gap(t, Succ(h)) = n + 1 /\ n < Capacity
  <2>1. Gap(t, Succ(h)) = n + 1
    BY <1>2, <1>4, Gaps
  <2>2. Gap(t, Succ(h)) \in 0 .. Capacity
    BY Gaps, SuccIndex
  <2> QED BY <1>4, <2>1, <2>2, CapacityAssumption
<1>6. PICK m \in Message : m = <<p, sent[p]>>
  <2>1. sent[p] \in 0 .. Quota /\ Pushed[p] = sent[p] - 1 /\ lastGot[p] \in 0 .. Quota
        /\ lastGot[p] <= Pushed[p]
    BY <1>2, Places DEF Filling, RingInv, Fresh
  <2>2. sent[p] \in 1 .. Quota
    BY <2>1, QuotaAssumption
  <2> QED BY <2>2 DEF Message
<1>7. /\ Content \in Seq(Message) /\ Len(Content) = n
      /\ \A k \in 1 .. n : Content[k] = buffer[At(t, k - 1)]
  BY <1>1, <1>4, ContentIsSequence DEF ContentFacts
<1>8. Content' = Append(Content, m)
  <2>1. /\ Content' \in Seq(Message) /\ Len(Content') = n + 1
        /\ \A k \in 1 .. n + 1 : Content'[k] = buffer[At(t, k - 1)]
    BY <1>2, <1>3, <1>5, ContentStaysSequence DEF ContentFacts
  <2>2. Content'[n + 1] = m
    <3>1. Content'[n + 1] = buffer[At(t, (n + 1) - 1)]
      BY <1>4, <2>1, CapacityAssumption
    <3>2. (n + 1) - 1 = n
      BY <1>4, CapacityAssumption
    <3> QED BY <1>2, <1>4, <1>6, <3>1, <3>2, AtPlaces
  <2>3. \A k \in 1 .. n : Content'[k] = Content[k]
    BY <1>4, <1>7, <2>1, CapacityAssumption
  <2> QED BY <1>7, <2>1, <2>2, <2>3, SequenceFacts
<1>9. m \in UnderWay /\ UnderWay' = UnderWay \ {m}
  <2>1. /\ pc'[p] \notin {"push"} \cup Filling /\ pc[p] \in {"push"} \cup Filling
        /\ \A q \in Producers \ {p} : pc'[q] = pc[q]
    BY <1>2 DEF Filling
  <2> QED BY <1>2, <1>6, <2>1 DEF UnderWay
<1> QED
  BY <1>2, <1>3, <1>4, <1>5, <1>7, <1>8, <1>9 DEF Channel!Put

\* The store of tail_ by the listener takes the oldest message out.
LEMMA AdvanceIsTake ==
  ASSUME Types, TypeInv, RingInv, Types', TypeInv', RingInv', ~ Buffered, PopAdvance
  PROVE  Channel!Take
<1>1. PICK t \in Index, h \in Index : t = mem.tail /\ h = mem.head
  BY Places
<1>2. /\ Listener \in Threads /\ pc \in [Threads -> Labels] /\ mem \in Atomics
      /\ pc[Listener] = "advance" /\ t # h /\ cur[Listener] = t /\ item = buffer[t]
      /\ UNCHANGED <<buffer, sent>>
  BY <1>1, Roles DEF PopAdvance, Types, RingInv, Ends, Copies
<1>3. mem'.head = h /\ mem'.tail = Succ(t) /\ mem'.started = mem.started
  <2>1. mem' = [mem EXCEPT !["tail"] = Succ(t)]
    BY <1>2, StoreIsShared DEF PopAdvance
  <2> QED BY <1>1, <1>2, <2>1 DEF Atomics
<1>4. PICK n \in 0 .. Capacity : n = Gap(t, h)
  BY Gaps
<1>5. n # 0 /\ Gap(Succ(t), h) = n - 1
  BY <1>2, <1>4, Gaps
<1>6. /\ Content \in Seq(Message) /\ Len(Content) = n
      /\ \A k \in 1 .. n : Content[k] = buffer[At(t, k - 1)]
  BY <1>1, <1>4, ContentIsSequence DEF ContentFacts
<1>7. /\ Content' \in Seq(Message) /\ Len(Content') = n - 1
      /\ \A k \in 1 .. n - 1 : Content'[k] = buffer[At(Succ(t), k - 1)]
  BY <1>2, <1>3, <1>5, ContentStaysSequence DEF ContentFacts
<1>8. ASSUME NEW k \in 1 .. n - 1 PROVE Content'[k] = Content[k + 1]
  <2>1. k - 1 \in 0 .. Capacity - 1 /\ (k - 1) + 1 = (k + 1) - 1 /\ k + 1 \in 1 .. n
    BY <1>4, CapacityAssumption
  <2>2. At(Succ(t), k - 1) = At(t, (k + 1) - 1)
    BY <2>1, AtPlaces
  <2> QED BY <1>6, <1>7, <2>1, <2>2
<1>9. Content[1] = item
  <2>1. 1 \in 1 .. n /\ 1 - 1 = 0
    BY <1>4, <1>5, CapacityAssumption
  <2> QED BY <1>2, <1>6, <2>1, AtPlaces
<1>10. Content' = Tail(Content) /\ Head(Content) = item /\ Content # <<>>
  <2>1. Len(Content) = Len(Content') + 1
    BY <1>4, <1>6, <1>7, CapacityAssumption
  <2>2. Content' = Tail(Content) /\ Head(Content) = Content[1]
    BY <1>6, <1>7, <1>8, <2>1, SequenceFacts
  <2> QED BY <1>5, <1>6, <1>9, <2>2
<1>11. lastGot' = [lastGot EXCEPT ![item[1]] = item[2]]
  <2>1. item \in Message
    <3>1. 1 \in 1 .. Len(Content)
      BY <1>4, <1>5, <1>6, CapacityAssumption
    <3> QED BY <1>6, <1>9, <3>1
  <2>2. item # None
    BY <2>1, NoneAssumption
  <2>3. lastGot \in [Producers -> 0 .. Quota]
    BY DEF TypeInv, DataTypes
  <2> QED BY <2>2, <2>3 DEF PopAdvance
<1>12. UnderWay' = UnderWay
  <2>1. \A q \in Producers : pc'[q] = pc[q]
    BY <1>2, Roles DEF PopAdvance, Goto
  <2> QED BY <1>2, <2>1, UnderWayFrame
<1> QED BY <1>2, <1>3, <1>10, <1>11, <1>12 DEF Channel!Take

\* What a producer does.
LEMMA ProduceIsChannel ==
  ASSUME Types, TypeInv, RingInv, Types', TypeInv', RingInv', ~ Buffered, NoOverflow',
         NEW p \in Producers, Produce(p)
  PROVE  Channel!Next \/ UNCHANGED Channel!vars
<1>1. /\ p \in Threads /\ p # Listener /\ Listener \in Threads
      /\ \A q \in Producers : q \in Threads /\ q # Listener
      /\ pc \in [Threads -> Labels] /\ sent \in [Producers -> 0 .. Quota]
      /\ mem.head \in Index /\ mem.tail \in Index /\ Ends
      /\ Load(p, "started") = mem.started
  BY Roles, Places, LoadIsShared DEF TypeInv, ControlTypes, RingInv
<1>2. CASE PushStopped(p)
  <2>1. /\ ~ mem.started /\ sent[p] < Quota /\ sent' = [sent EXCEPT ![p] = @ + 1]
        /\ UNCHANGED <<mem, buffer, lastGot, pc>> /\ pc[p] = "idle"
    BY <1>1, <1>2 DEF PushStopped
  <2>2. Content' = Content
    BY <2>1 DEF Content
  <2>3. UnderWay' = UnderWay
    <3>1. \A q \in Producers : pc[q] \in {"push"} \cup Filling => sent'[q] = sent[q]
      BY <1>1, <2>1 DEF Filling
    <3> QED BY <2>1, <3>1 DEF UnderWay
  <2>4. Channel!Drop(p)
    BY <2>1, <2>2, <2>3 DEF Channel!Drop, Channel!Number
  <2> QED BY <2>4 DEF Channel!Next
<1>3. CASE PushBegin(p)
  <2>1. /\ mem.started /\ sent[p] < Quota /\ sent' = [sent EXCEPT ![p] = @ + 1]
        /\ UNCHANGED <<mem, buffer, lastGot>>
        /\ pc[p] = "idle" /\ pc' = [pc EXCEPT ![p] = "push"]
    BY <1>1, <1>3 DEF PushBegin, Goto
  <2>2. Content' = Content
    BY <2>1 DEF Content
  <2>3. UnderWay' = UnderWay \cup {<<p, sent[p] + 1>>}
    <3>1. /\ pc[p] \notin {"push"} \cup Filling /\ pc'[p] \in {"push"} \cup Filling
          /\ sent'[p] = sent[p] + 1
          /\ \A q \in Producers \ {p} : pc'[q] = pc[q] /\ sent'[q] = sent[q]
      BY <1>1, <2>1 DEF Filling
    <3> QED BY <3>1 DEF UnderWay
  <2>4. Channel!Begin(p)
    BY <2>1, <2>2, <2>3 DEF Channel!Begin, Channel!Number
  <2> QED BY <2>4 DEF Channel!Next
<1>4. CASE PushPublish(p)
  BY <1>4, PublishIsPut DEF Channel!Next
<1>5. CASE ~ PushStopped(p) /\ ~ PushBegin(p) /\ ~ PushPublish(p)
  <2>1. UNCHANGED <<mem, sent, lastGot>>
    BY <1>1, <1>5 DEF Ends, Produce, PushLoad, PushTest, PushWrite, EvictLoad, EvictTest,
       EvictAdvance, Signal, PushLock, PushNotify
  <2>2. \A q \in Producers : pc'[q] \in {"push"} \cup Filling
                              <=> pc[q] \in {"push"} \cup Filling
    <3>1. \A q \in Producers \ {p} : pc'[q] = pc[q]
      BY <1>1, PushedGrows
    <3>2. pc'[p] # "evict" /\ retry = {}
      BY <1>1 DEF NoOverflow, Ends
    <3>3. pc'[p] \in {"push"} \cup Filling <=> pc[p] \in {"push"} \cup Filling
      BY <1>1, <1>5, <3>2 DEF Ends, Produce, PushLoad, PushTest, PushWrite, EvictLoad,
         EvictTest, EvictAdvance, Signal, PushLock, PushNotify, Goto, Wakes, Filling
    <3> QED BY <3>1, <3>3
  <2>3. \A i \in Index : InRing(i) => buffer'[i] = buffer[i]
    <3>1. CASE PushWrite(p)
      <4>1. buffer' = [buffer EXCEPT ![mem.head] = <<p, sent[p]>>]
            /\ buffer \in [Index -> Message \cup {None}]
        BY <1>1, <3>1 DEF PushWrite, Ends, Filling, TypeInv, DataTypes
      <4>2. ~ InRing(mem.head)
        BY <1>1, Gaps, CapacityAssumption DEF InRing
      <4> QED BY <4>1, <4>2
    <3>2. CASE ~ PushWrite(p)
      BY <1>5, <3>2 DEF Produce, PushLoad, PushTest, EvictLoad, EvictTest,
         EvictAdvance, Signal, PushLock, PushNotify
    <3> QED BY <3>1, <3>2
  <2>4. Content' = Content
    BY <2>1, <2>3, ContentFrame
  <2>5. UnderWay' = UnderWay
    BY <2>1, <2>2, UnderWayFrame
  <2> QED BY <2>1, <2>4, <2>5 DEF Channel!vars
<1> QED BY <1>2, <1>3, <1>4, <1>5

\* What the listener does.
LEMMA ListenIsChannel ==
  ASSUME Types, TypeInv, RingInv, Types', TypeInv', RingInv', ~ Buffered,
         Listen \/ SpuriousWake
  PROVE  Channel!Next \/ UNCHANGED Channel!vars
<1>1. /\ Listener \in Threads /\ mem \in Atomics /\ pc \in [Threads -> Labels]
      /\ \A q \in Producers : q \in Threads /\ q # Listener
  BY Roles DEF Types
<1>2. CASE PopAdvance
  BY <1>2, AdvanceIsTake DEF Channel!Next
<1>3. CASE ~ PopAdvance
  <2>1. /\ UNCHANGED <<buffer, sent, lastGot>>
        /\ \A q \in Producers : pc'[q] = pc[q]
    BY <1>1, <1>3 DEF Listen, PopLoad, PopTest, PopRead, WaitLock, Announce, WaitHead,
       WaitTail, WaitStopped, WaitSleep, WaitRelock, Withdraw, PopUnlock, SpuriousWake, Goto
  <2>2. /\ mem'.head = mem.head /\ mem'.tail = mem.tail /\ mem'.started = mem.started
    <3>1. CASE Announce \/ Withdraw
      <4>1. PICK b \in BOOLEAN : Store(Listener, "waiting", b)
        BY <3>1 DEF Announce, Withdraw
      <4>2. mem' = [mem EXCEPT !["waiting"] = b]
        BY <1>1, <4>1, StoreIsShared
      <4> QED BY <1>1, <4>2 DEF Atomics
    <3>2. CASE ~ Announce /\ ~ Withdraw
      BY <1>3, <3>2 DEF Listen, PopLoad, PopTest, PopRead, WaitLock, WaitHead, WaitTail,
         WaitStopped, WaitSleep, WaitRelock, PopUnlock, SpuriousWake
    <3> QED BY <3>1, <3>2
  <2>3. Content' = Content
    BY <2>1, <2>2, ContentFrame
  <2>4. UnderWay' = UnderWay
    BY <2>1, UnderWayFrame
  <2> QED BY <2>1, <2>2, <2>3, <2>4 DEF Channel!vars
<1> QED BY <1>2, <1>3

\* stop() closes the channel with its first store.
LEMMA StopIsChannel ==
  ASSUME Types, TypeInv, ~ Buffered, NEW s \in Stoppers, Stop(s)
  PROVE  Channel!Next \/ UNCHANGED Channel!vars
<1>1. /\ s \in Threads /\ s \notin Producers /\ mem \in Atomics
      /\ pc \in [Threads -> Labels] /\ Listener \in Threads
      /\ \A q \in Producers : q \in Threads /\ q # Listener
  BY Roles DEF Types
<1>2. UNCHANGED <<buffer, sent, lastGot>> /\ \A q \in Producers : pc'[q] = pc[q]
  BY <1>1 DEF Stop, StopFlag, StopLock, StopNotify, Goto
<1>3. UnderWay' = UnderWay
  BY <1>2, UnderWayFrame
<1>4. CASE StopFlag(s)
  <2>1. mem' = [mem EXCEPT !["started"] = FALSE]
    BY <1>1, <1>4, StoreIsShared DEF StopFlag
  <2>2. mem'.head = mem.head /\ mem'.tail = mem.tail /\ mem'.started = FALSE
    BY <1>1, <2>1 DEF Atomics
  <2>3. Content' = Content
    BY <1>2, <2>2, ContentFrame
  <2>4. Channel!Close
    BY <1>2, <1>3, <2>2, <2>3 DEF Channel!Close
  <2> QED BY <2>4 DEF Channel!Next
<1>5. CASE ~ StopFlag(s)
  <2>1. mem' = mem
    BY <1>5 DEF Stop, StopLock, StopNotify
  <2>2. Content' = Content
    BY <1>2, <2>1 DEF Content
  <2> QED BY <1>2, <1>3, <2>1, <2>2 DEF Channel!vars
<1> QED BY <1>4, <1>5

LEMMA ChannelInit == Init => Channel!Init
<1> SUFFICES ASSUME Init PROVE Channel!Init
  OBVIOUS
<1>1. Types /\ TypeInv /\ RingInv
  BY WakeupInit, TypesInit, RingInit DEF WakeupInv
<1>2. Gap(mem.tail, mem.head) = 0
  BY <1>1, Places, Gaps DEF Init
<1>3. Content = <<>>
  BY <1>1, <1>2, ContentIsSequence DEF ContentFacts
<1>4. UnderWay = {}
  BY Roles DEF Init, UnderWay, Filling
<1> QED BY <1>3, <1>4 DEF Init, Channel!Init

LEMMA ChannelStep ==
  ASSUME Types, TypeInv, RingInv, Types', TypeInv', RingInv', ~ Buffered, NoOverflow',
         [Next]_vars
  PROVE  [Channel!Next]_(Channel!vars)
<1>1. CASE UNCHANGED vars
  <2>1. UNCHANGED <<Content, UnderWay, sent, lastGot, mem>>
    BY <1>1 DEF vars, Content, UnderWay
  <2> QED BY <2>1 DEF Channel!vars
<1>2. ASSUME NEW t \in Threads PROVE ~ Drain(t)
  BY DEF Types, Drain
<1> QED
  BY <1>1, <1>2, ProduceIsChannel, ListenIsChannel, StopIsChannel DEF Next

\* fins::Pipe implements the closable first-in first-out channel, for any number of
\* messages, as long as no two producers fill a slot at once and the ring does not
\* overflow: nothing that push() has begun to send is lost, doubled or overtaken, and a
\* stop() drops only what is sent after it.
THEOREM ImplementsTheChannel ==
  ASSUME ~ Buffered
  PROVE  Spec /\ [](Serial /\ NoOverflow) => ImplementsChannel
<1> DEFINE Inv == WakeupInv /\ TypeInv /\ RingInv
<1>1. Init => Inv /\ Channel!Init
  BY WakeupInit, TypesInit, RingInit, ChannelInit
<1>2. Inv /\ (Serial /\ NoOverflow) /\ (Serial /\ NoOverflow)' /\ [Next]_vars
        => Inv' /\ [Channel!Next]_(Channel!vars)
  <2> SUFFICES ASSUME Inv, Serial /\ NoOverflow, (Serial /\ NoOverflow)', [Next]_vars
               PROVE  Inv' /\ [Channel!Next]_(Channel!vars)
    OBVIOUS
  <2>1. WakeupInv' /\ TypeInv' /\ Types /\ Types'
    <3>1. WakeupInv'
      BY WakeupStep
    <3> QED BY <3>1, TypesStep DEF WakeupInv
  <2>2. RingInv'
    BY <2>1, RingStep
  <2> QED BY <2>1, <2>2, ChannelStep
<1> HIDE DEF Inv
<1> QED BY <1>1, <1>2, PTL DEF Spec, ImplementsChannel, Channel!Spec

\* A pipe with one producer that pushes no more messages than the ring holds implements
\* the channel, without any hypothesis on the behaviour.
THEOREM OneProducerIsAChannel ==
  ASSUME ~ Buffered, OneProducer, Quota <= Capacity
  PROVE  Spec => ImplementsChannel
<1> DEFINE Inv == WakeupInv /\ TypeInv /\ RingInv /\ RoomLeft /\ NoOverflow
<1>1. Init => Inv /\ Channel!Init
  BY WakeupInit, TypesInit, RingInit, FitsInit, ChannelInit
<1>2. Inv /\ [Next]_vars => Inv' /\ [Channel!Next]_(Channel!vars)
  <2> SUFFICES ASSUME Inv, [Next]_vars
               PROVE  Inv' /\ [Channel!Next]_(Channel!vars)
    OBVIOUS
  <2>1. Inv' /\ Types /\ Types'
    <3>1. Inv'
      BY FitsInvariant
    <3> QED BY <3>1 DEF WakeupInv
  <2> QED BY <2>1, ChannelStep
<1> HIDE DEF Inv
<1> QED BY <1>1, <1>2, PTL DEF Spec, ImplementsChannel, Channel!Spec
=============================================================================
