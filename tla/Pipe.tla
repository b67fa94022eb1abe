-------------------------------- MODULE Pipe --------------------------------
(***************************************************************************)
(* fins::Pipe (sdk/fins/pipe.hpp): the ring of spsc_queue.hpp, a mutex, a  *)
(* condition variable and the flags started_ and consumer_waiting_.        *)
(*                                                                         *)
(* The threads are the Producers, which push (every thread on which a node *)
(* sends: several when it sends from the handlers of several ports), the   *)
(* Listener, which calls pop_wait in a loop, and the Stoppers, which call  *)
(* stop() or notify().  A producer that finds the ring full pops the       *)
(* oldest message itself: SpscQueue.tla says what the ring promises when   *)
(* only the listener pops, this module what becomes of it here.            *)
(*                                                                         *)
(* Every load, store, slot copy and lock operation is a step.  With        *)
(* Buffered, a store waits in its thread's FIFO store buffer until it is   *)
(* drained, and a lock operation drains it first: what x86 makes of the    *)
(* release stores and acquire loads of the code.  Without, a store is      *)
(* visible at once.                                                        *)
(***************************************************************************)
EXTENDS Integers, Sequences, FiniteSetsExt

CONSTANTS Producers, Listener, Stoppers,   \* threads
          Capacity,   \* PIPE_CAPACITY
          Quota,      \* bound: messages each producer pushes
          Buffered,   \* do stores wait in a store buffer?
          None        \* no message, no lock holder

Threads == Producers \cup {Listener} \cup Stoppers

ASSUME ThreadsAssumption ==
  /\ Listener \notin Producers \cup Stoppers
  /\ Producers \cap Stoppers = {}
  /\ None \notin Threads
ASSUME CapacityAssumption == Capacity \in Nat \ {0}
ASSUME QuotaAssumption == Quota \in Nat
ASSUME BufferedAssumption == Buffered \in BOOLEAN

VARIABLES mem,      \* the atomics: head_, tail_, started_, consumer_waiting_
          sb,       \* store buffer of each thread
          buffer,   \* buffer_
          lock,     \* who holds mutex_
          pc,       \* control of each thread
          cur,      \* the index a thread has loaded (current_head, current_tail)
          retry,    \* producers in the second queue_.push of their push
          sent,     \* messages each producer has pushed; <<p, k>> is its k-th
          item,     \* the message the listener has copied out of a slot
          lastGot   \* number of the last message of each producer delivered

vars == <<mem, sb, buffer, lock, pc, cur, retry, sent, item, lastGot>>

Index == 0 .. Capacity

\* A mutant: the index is not reduced to the ring.
Succ_NoWrap(i) == i + 1

\* The index after i, on a ring of Capacity + 1 slots.
Succ(i) == (i + 1) % (Capacity + 1)
Message == Producers \X (1 .. Quota)
ASSUME NoneAssumption == None \notin Message
Atomics == [head : Index, tail : Index, started : BOOLEAN, waiting : BOOLEAN]

Init ==
  /\ mem = [head |-> 0, tail |-> 0, started |-> TRUE, waiting |-> FALSE]
  /\ sb = [t \in Threads |-> <<>>]
  /\ buffer = [i \in Index |-> None]
  /\ lock = None
  /\ pc = [t \in Threads |-> "idle"]
  /\ cur = [t \in Threads |-> 0]
  /\ retry = {}
  /\ sent = [p \in Producers |-> 0]
  /\ item = None
  /\ lastGot = [p \in Producers |-> 0]

-----------------------------------------------------------------------------
(* Memory *)

\* A load returns the thread's own latest pending store, or the shared value.
Load(t, loc) ==
  LET own == {i \in DOMAIN sb[t] : sb[t][i].loc = loc}
  IN  IF own = {} THEN mem[loc] ELSE sb[t][Max(own)].val

Store(t, loc, val) ==
  \/ /\ Buffered
     /\ sb' = [sb EXCEPT ![t] = Append(@, [loc |-> loc, val |-> val])]
     /\ UNCHANGED mem
  \/ /\ ~ Buffered
     /\ mem' = [mem EXCEPT ![loc] = val]
     /\ UNCHANGED sb

Drain(t) ==
  /\ sb[t] # <<>>
  /\ mem' = [mem EXCEPT ![Head(sb[t]).loc] = Head(sb[t]).val]
  /\ sb' = [sb EXCEPT ![t] = Tail(@)]
  /\ UNCHANGED <<buffer, lock, pc, cur, retry, sent, item, lastGot>>

Goto(t, label) == pc' = [pc EXCEPT ![t] = label]

Acquire(t) == lock = None /\ sb[t] = <<>> /\ lock' = t
Release(t) == lock = t /\ sb[t] = <<>> /\ lock' = None

-----------------------------------------------------------------------------
(* void push(const AnyMsg &msg) *)

\* A stopped pipe drops the message.
PushStopped(p) ==
  /\ pc[p] = "idle" /\ sent[p] < Quota
  /\ ~ Load(p, "started")
  /\ sent' = [sent EXCEPT ![p] = @ + 1]
  /\ UNCHANGED <<mem, sb, buffer, lock, pc, cur, retry, item, lastGot>>

\* A mutant: a stopped pipe takes the message.
PushBegin_Stopped(p) ==
  /\ pc[p] = "idle" /\ sent[p] < Quota
  /\ sent' = [sent EXCEPT ![p] = @ + 1]
  /\ retry' = retry \ {p}
  /\ Goto(p, "push")
  /\ UNCHANGED <<mem, sb, buffer, lock, cur, item, lastGot>>

PushBegin(p) ==
  /\ pc[p] = "idle" /\ sent[p] < Quota
  /\ Load(p, "started")
  /\ sent' = [sent EXCEPT ![p] = @ + 1]
  /\ retry' = retry \ {p}
  /\ Goto(p, "push")
  /\ UNCHANGED <<mem, sb, buffer, lock, cur, item, lastGot>>

\* queue_.push: load head_.
PushLoad(p) ==
  /\ pc[p] = "push"
  /\ cur' = [cur EXCEPT ![p] = Load(p, "head")]
  /\ Goto(p, "room")
  /\ UNCHANGED <<mem, sb, buffer, lock, retry, sent, item, lastGot>>

\* queue_.push: load tail_ and test for a free slot.  Full the first time:
\* pop the oldest.  Full the second time: the message is given up.
PushTest(p) ==
  /\ pc[p] = "room"
  /\ \/ Succ(cur[p]) # Load(p, "tail") /\ Goto(p, "write")
     \/ Succ(cur[p]) = Load(p, "tail") /\ p \notin retry /\ Goto(p, "evict")
     \/ Succ(cur[p]) = Load(p, "tail") /\ p \in retry /\ Goto(p, "signal")
  /\ UNCHANGED <<mem, sb, buffer, lock, cur, retry, sent, item, lastGot>>

\* queue_.push: copy into the slot.
PushWrite(p) ==
  /\ pc[p] = "write"
  /\ buffer' = [buffer EXCEPT ![cur[p]] = <<p, sent[p]>>]
  /\ Goto(p, "publish")
  /\ UNCHANGED <<mem, sb, lock, cur, retry, sent, item, lastGot>>

\* A mutant: a first successful queue_.push returns without the wake-up.
PushPublish_NoSignal(p) ==
  /\ pc[p] = "publish"
  /\ Store(p, "head", Succ(cur[p]))
  /\ Goto(p, IF p \in retry THEN "signal" ELSE "idle")
  /\ UNCHANGED <<buffer, lock, cur, retry, sent, item, lastGot>>

\* queue_.push: store head_.
PushPublish(p) ==
  /\ pc[p] = "publish"
  /\ Store(p, "head", Succ(cur[p]))
  /\ Goto(p, "signal")
  /\ UNCHANGED <<buffer, lock, cur, retry, sent, item, lastGot>>

\* queue_.pop(temp) by the producer: load tail_.
EvictLoad(p) ==
  /\ pc[p] = "evict"
  /\ cur' = [cur EXCEPT ![p] = Load(p, "tail")]
  /\ Goto(p, "oldest")
  /\ UNCHANGED <<mem, sb, buffer, lock, retry, sent, item, lastGot>>

\* queue_.pop(temp): load head_; a queue meanwhile empty fails the pop, and
\* the message is given up.  (The copy into temp is read by nobody.)
EvictTest(p) ==
  /\ pc[p] = "oldest"
  /\ \/ cur[p] # Load(p, "head") /\ Goto(p, "drop")
     \/ cur[p] = Load(p, "head") /\ Goto(p, "signal")
  /\ UNCHANGED <<mem, sb, buffer, lock, cur, retry, sent, item, lastGot>>

\* queue_.pop(temp): store tail_, then the second queue_.push.
EvictAdvance(p) ==
  /\ pc[p] = "drop"
  /\ Store(p, "tail", Succ(cur[p]))
  /\ retry' = retry \cup {p}
  /\ Goto(p, "push")
  /\ UNCHANGED <<buffer, lock, cur, sent, item, lastGot>>

\* if (consumer_waiting_.load(...))
Signal(p) ==
  /\ pc[p] = "signal"
  /\ \/ Load(p, "waiting") /\ Goto(p, "lock")
     \/ ~ Load(p, "waiting") /\ Goto(p, "idle")
  /\ UNCHANGED <<mem, sb, buffer, lock, cur, retry, sent, item, lastGot>>

PushLock(p) ==
  /\ pc[p] = "lock"
  /\ Acquire(p)
  /\ Goto(p, "notify")
  /\ UNCHANGED <<mem, sb, buffer, cur, retry, sent, item, lastGot>>

\* notify_one wakes the listener if it sleeps, and the guard unlocks.
Wakes(t) ==
  pc' = [pc EXCEPT ![t] = "idle",
                   ![Listener] = IF @ = "asleep" THEN "woken" ELSE @]

PushNotify(p) ==
  /\ pc[p] = "notify"
  /\ Wakes(p)
  /\ Release(p)
  /\ UNCHANGED <<mem, sb, buffer, cur, retry, sent, item, lastGot>>

Produce(p) ==
  \/ PushStopped(p) \/ PushBegin(p)
  \/ PushLoad(p) \/ PushTest(p) \/ PushWrite(p) \/ PushPublish(p)
  \/ EvictLoad(p) \/ EvictTest(p) \/ EvictAdvance(p)
  \/ Signal(p) \/ PushLock(p) \/ PushNotify(p)

-----------------------------------------------------------------------------
(* std::optional<AnyMsg> pop_wait(), called in a loop.  The listener holds  *)
(* mutex_ during its second queue_.pop, so lock tells the two pops apart.   *)

\* queue_.pop: load tail_.
PopLoad ==
  /\ pc[Listener] \in {"idle", "again"}
  /\ cur' = [cur EXCEPT ![Listener] = Load(Listener, "tail")]
  /\ Goto(Listener, "avail")
  /\ UNCHANGED <<mem, sb, buffer, lock, retry, sent, item, lastGot>>

\* queue_.pop: load head_ and test.  Empty the first time: wait.  Empty the
\* second time: return nullopt.
PopTest ==
  /\ pc[Listener] = "avail"
  /\ \/ cur[Listener] # Load(Listener, "head") /\ Goto(Listener, "read")
     \/ /\ cur[Listener] = Load(Listener, "head")
        /\ lock # Listener /\ Goto(Listener, "lock")
     \/ /\ cur[Listener] = Load(Listener, "head")
        /\ lock = Listener /\ Goto(Listener, "unlock")
  /\ UNCHANGED <<mem, sb, buffer, lock, cur, retry, sent, item, lastGot>>

\* A mutant: the copy is made of the slot after tail_.
PopRead_NextSlot ==
  /\ pc[Listener] = "read"
  /\ item' = buffer[Succ(cur[Listener])]
  /\ Goto(Listener, "advance")
  /\ UNCHANGED <<mem, sb, buffer, lock, cur, retry, sent, lastGot>>

\* queue_.pop: copy out of the slot.
PopRead ==
  /\ pc[Listener] = "read"
  /\ item' = buffer[cur[Listener]]
  /\ Goto(Listener, "advance")
  /\ UNCHANGED <<mem, sb, buffer, lock, cur, retry, sent, lastGot>>

\* queue_.pop: store tail_; pop_wait has its message.  A slot nobody has
\* written yet yields a default-constructed one.
PopAdvance ==
  /\ pc[Listener] = "advance"
  /\ Store(Listener, "tail", Succ(cur[Listener]))
  /\ lastGot' = [p \in Producers |->
                   IF item # None /\ item[1] = p THEN item[2] ELSE lastGot[p]]
  /\ item' = None
  /\ Goto(Listener, IF lock = Listener THEN "unlock" ELSE "idle")
  /\ UNCHANGED <<buffer, lock, cur, retry, sent>>

WaitLock ==
  /\ pc[Listener] = "lock"
  /\ Acquire(Listener)
  /\ Goto(Listener, "announce")
  /\ UNCHANGED <<mem, sb, buffer, cur, retry, sent, item, lastGot>>

\* A mutant: the listener does not announce that it is going to wait.
Announce_Silently ==
  /\ pc[Listener] = "announce"
  /\ Goto(Listener, "head?")
  /\ UNCHANGED <<mem, sb, buffer, lock, cur, retry, sent, item, lastGot>>

\* consumer_waiting_.store(true)
Announce ==
  /\ pc[Listener] = "announce"
  /\ Store(Listener, "waiting", TRUE)
  /\ Goto(Listener, "head?")
  /\ UNCHANGED <<buffer, lock, cur, retry, sent, item, lastGot>>

\* The predicate of cond_.wait loads head_, then tail_, then started_.
WaitHead ==
  /\ pc[Listener] = "head?"
  /\ cur' = [cur EXCEPT ![Listener] = Load(Listener, "head")]
  /\ Goto(Listener, "tail?")
  /\ UNCHANGED <<mem, sb, buffer, lock, retry, sent, item, lastGot>>

WaitTail ==
  /\ pc[Listener] = "tail?"
  /\ \/ cur[Listener] # Load(Listener, "tail") /\ Goto(Listener, "withdraw")
     \/ cur[Listener] = Load(Listener, "tail") /\ Goto(Listener, "started?")
  /\ UNCHANGED <<mem, sb, buffer, lock, cur, retry, sent, item, lastGot>>

WaitStopped ==
  /\ pc[Listener] = "started?"
  /\ ~ Load(Listener, "started")
  /\ Goto(Listener, "withdraw")
  /\ UNCHANGED <<mem, sb, buffer, lock, cur, retry, sent, item, lastGot>>

\* Predicate false: unlock and sleep in one step.
WaitSleep ==
  /\ pc[Listener] = "started?"
  /\ Load(Listener, "started")
  /\ Release(Listener)
  /\ Goto(Listener, "asleep")
  /\ UNCHANGED <<mem, sb, buffer, cur, retry, sent, item, lastGot>>

\* A condition variable may wake its waiter without a notify.
SpuriousWake ==
  /\ pc[Listener] = "asleep"
  /\ Goto(Listener, "woken")
  /\ UNCHANGED <<mem, sb, buffer, lock, cur, retry, sent, item, lastGot>>

WaitRelock ==
  /\ pc[Listener] = "woken"
  /\ Acquire(Listener)
  /\ Goto(Listener, "head?")
  /\ UNCHANGED <<mem, sb, buffer, cur, retry, sent, item, lastGot>>

\* consumer_waiting_.store(false), then the second pop.
Withdraw ==
  /\ pc[Listener] = "withdraw"
  /\ Store(Listener, "waiting", FALSE)
  /\ Goto(Listener, "again")
  /\ UNCHANGED <<buffer, lock, cur, retry, sent, item, lastGot>>

PopUnlock ==
  /\ pc[Listener] = "unlock"
  /\ Release(Listener)
  /\ Goto(Listener, "idle")
  /\ UNCHANGED <<mem, sb, buffer, cur, retry, sent, item, lastGot>>

Listen ==
  \/ PopLoad \/ PopTest \/ PopRead \/ PopAdvance
  \/ WaitLock \/ Announce \/ WaitHead \/ WaitTail \/ WaitStopped \/ WaitSleep
  \/ WaitRelock \/ Withdraw \/ PopUnlock

-----------------------------------------------------------------------------
(* void stop(), void notify(): the same steps.  started_ is not set again:  *)
(* reset() has no caller.                                                   *)

\* A mutant: notify() as its name has it, without the store of started_.
StopFlag_NotifyOnly(s) ==
  /\ pc[s] = "idle"
  /\ Goto(s, "lock")
  /\ UNCHANGED <<mem, sb, buffer, lock, cur, retry, sent, item, lastGot>>

StopFlag(s) ==
  /\ pc[s] = "idle"
  /\ Store(s, "started", FALSE)
  /\ Goto(s, "lock")
  /\ UNCHANGED <<buffer, lock, cur, retry, sent, item, lastGot>>

StopLock(s) ==
  /\ pc[s] = "lock"
  /\ Acquire(s)
  /\ Goto(s, "notify")
  /\ UNCHANGED <<mem, sb, buffer, cur, retry, sent, item, lastGot>>

\* notify_all, and the guard unlocks.
StopNotify(s) ==
  /\ pc[s] = "notify"
  /\ pc' = [pc EXCEPT ![s] = "done",
                      ![Listener] = IF @ = "asleep" THEN "woken" ELSE @]
  /\ Release(s)
  /\ UNCHANGED <<mem, sb, buffer, cur, retry, sent, item, lastGot>>

Stop(s) == StopFlag(s) \/ StopLock(s) \/ StopNotify(s)

-----------------------------------------------------------------------------
Next ==
  \/ \E p \in Producers : Produce(p)
  \/ Listen
  \/ SpuriousWake
  \/ \E s \in Stoppers : Stop(s)
  \/ \E t \in Threads : Drain(t)

Spec == Init /\ [][Next]_vars

(***************************************************************************)
(* Threads that have begun a call are scheduled, the listener keeps        *)
(* calling pop_wait, store buffers drain, and a thread that keeps finding  *)
(* mutex_ free gets it.  Nobody has to push or to stop.                    *)
(***************************************************************************)
Fairness ==
  /\ \A p \in Producers :
       /\ WF_vars(pc[p] # "idle" /\ Produce(p))
       /\ SF_vars(PushLock(p))
  /\ WF_vars(Listen) /\ SF_vars(WaitLock) /\ SF_vars(WaitRelock)
  /\ \A s \in Stoppers :
       /\ WF_vars(pc[s] # "idle" /\ Stop(s))
       /\ SF_vars(StopLock(s))
  /\ \A t \in Threads : WF_vars(Drain(t))

FairSpec == Spec /\ Fairness

-----------------------------------------------------------------------------
ProducerLabels == {"idle", "push", "room", "write", "publish", "evict",
                   "oldest", "drop", "signal", "lock", "notify"}
ListenerLabels == {"idle", "avail", "read", "advance", "lock", "announce",
                   "head?", "tail?", "started?", "asleep", "woken",
                   "withdraw", "again", "unlock"}
StopperLabels == {"idle", "lock", "notify", "done"}

TypeOK ==
  /\ mem \in Atomics
  /\ \A t \in Threads : \A i \in DOMAIN sb[t] :
       \/ sb[t][i].loc \in {"head", "tail"} /\ sb[t][i].val \in Index
       \/ sb[t][i].loc \in {"started", "waiting"} /\ sb[t][i].val \in BOOLEAN
  /\ buffer \in [Index -> Message \cup {None}]
  /\ lock \in Threads \cup {None}
  /\ \A p \in Producers : pc[p] \in ProducerLabels
  /\ pc[Listener] \in ListenerLabels
  /\ \A s \in Stoppers : pc[s] \in StopperLabels
  /\ cur \in [Threads -> Index]
  /\ retry \subseteq Producers
  /\ sent \in [Producers -> 0 .. Quota]
  /\ item \in Message \cup {None}
  /\ lastGot \in [Producers -> 0 .. Quota]

Asleep == pc[Listener] = "asleep"

(***************************************************************************)
(* A listener that sleeps although the ring holds a message or the pipe    *)
(* has been stopped is about to be woken: a producer in the middle of a    *)
(* push is going to see consumer_waiting_, or a stopper has yet to notify. *)
(***************************************************************************)
NoLostWakeup ==
  Asleep =>
    /\ mem.waiting
    /\ mem.head # mem.tail => \E p \in Producers : pc[p] # "idle"
    /\ ~ mem.started => \E s \in Stoppers : pc[s] \in {"lock", "notify"}

(***************************************************************************)
(* A stop() releases the listener from pop_wait, whatever the producers    *)
(* do: the thread that joins the listener does not wait for ever.          *)
(***************************************************************************)
Parked == {"asleep", "woken", "head?", "tail?", "started?"}
StopReleases ==
  \A s \in Stoppers : pc[s] = "lock" ~> pc[Listener] \notin Parked

(***************************************************************************)
(* The messages of one producer are delivered in the order of their        *)
(* pushes, none twice and none left out (by a pipe that has one producer   *)
(* and does not overflow; a stop() cuts off the end of the sequence).      *)
(***************************************************************************)
InOrder ==
  [][PopAdvance => item # None /\ item[2] = lastGot[item[1]] + 1]_vars

\* A producer between the load and the store of head_, and the messages of the
\* pushes that may still put theirs into the ring.
Filling == {"room", "write", "publish"}
UnderWay == {<<p, sent[p]>> : p \in {q \in Producers :
                                      pc[q] \in {"push"} \cup Filling}}

\* The slots from place t of the ring up to place h, and what is in the ring.
Gap(t, h) == IF h >= t THEN h - t ELSE (Capacity + 1) - (t - h)
Content == [k \in 1 .. Gap(mem.tail, mem.head) |->
              buffer[(mem.tail + k - 1) % (Capacity + 1)]]

Channel == INSTANCE MessageChannel WITH
  underWay <- UnderWay, fifo <- Content, delivered <- lastGot, open <- mem.started

(***************************************************************************)
(* Every step of a pipe that one producer at a time fills and that does    *)
(* not overflow is a step of a closable first-in first-out channel: across *)
(* the load, the copy and the store of a push, those of a pop, and a       *)
(* stop() in between, a message is in one place and goes one way.          *)
(***************************************************************************)
ImplementsChannel == Channel!Spec

(***************************************************************************)
(* A push that begins while the listener sleeps wakes it.  Store buffers   *)
(* can let the listener fall asleep on a message it has been sent; the     *)
(* next push gets it going again.                                          *)
(***************************************************************************)
PushWakes ==
  \A p \in Producers : (Asleep /\ pc[p] = "push") ~> ~ Asleep

(***************************************************************************)
(* Every message that a running pipe has taken is delivered, unless the    *)
(* pipe is stopped (for a pipe that does not overflow).                    *)
(***************************************************************************)
Delivered ==
  \A p \in Producers, k \in 1 .. Quota :
    (sent[p] = k /\ pc[p] = "push") ~> lastGot[p] >= k \/ ~ mem.started
=============================================================================
