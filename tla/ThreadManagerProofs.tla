------------------------ MODULE ThreadManagerProofs ------------------------
(***************************************************************************)
(* Proofs about fins::ThreadManager, for any pool, any callers and any     *)
(* number of calls:                                                        *)
(*   - no worker sleeps on a task or through a shutdown (SleepInv: with    *)
(*     the types, stop_global_ is set exactly from the beginning of        *)
(*     shutdown());                                                        *)
(*   - the variables have their types, and the queues their bound;         *)
(*   - the messages of a listener are handled in order (OrderInv);         *)
(*   - every call has one outcome (AccountInv).                            *)
(***************************************************************************)
EXTENDS ThreadManager, FiniteSetTheorems, TLAPS

MainLabels == {"new", "start", "up", "flag", "notify", "join", "down"}
CallerLabels == {"idle", "state", "lock", "notify"}
WorkerLabels == {"none", "check", "asleep", "busy", "ended"}

\* The types the argument needs.
Types ==
  /\ main \in [pc : MainLabels, at : Pool]
  /\ caller \in [Callers -> CallerLabels]
  /\ worker \in [Pool -> WorkerLabels]
  /\ queue \in [Pool -> Seq(Callers \X Nat)]
  /\ called \in [Callers -> Nat]

StopsOnce == stopGlobal <=> main.pc \in {"flag", "notify", "join", "down"}

SleepInv == Types /\ StopsOnce /\ NoSleepOnWork

-----------------------------------------------------------------------------
LEMMA PoolFacts == Pool \subseteq Nat /\ 0 \in Pool
BY WorkersAssumption DEF Pool

LEMMA SleepInit == Init => SleepInv
<1> SUFFICES ASSUME Init PROVE SleepInv
  OBVIOUS
<1>1. Types
  BY PoolFacts DEF Init, Types, MainLabels, CallerLabels, WorkerLabels
<1>2. StopsOnce
  BY DEF Init, StopsOnce
<1>3. NoSleepOnWork
  BY DEF Init, NoSleepOnWork
<1> QED BY <1>1, <1>2, <1>3 DEF SleepInv

\* The loops of start() and shutdown() go through the workers in order.
LEMMA LoopGoesOn ==
  ASSUME Types, NEW loop \in MainLabels, NEW after \in MainLabels,
         NextWorker(loop, after)
  PROVE  /\ main' \in [pc : MainLabels, at : Pool]
         /\ main'.pc \in {loop, after}
         /\ \A w \in Pool : main.at < w =>
              main'.pc = loop /\ main'.at <= w
<1>1. main.at \in Pool /\ main.at \in Nat /\ 0 \in Pool
  BY PoolFacts DEF Types
<1>2. CASE main.at + 1 < Workers
  <2>1. main' = [pc |-> loop, at |-> main.at + 1]
    BY <1>2 DEF NextWorker
  <2>2. main.at + 1 \in Pool
    BY <1>1, <1>2, WorkersAssumption DEF Pool
  <2>3. \A w \in Pool : main.at < w => main.at + 1 <= w
    BY <1>1, WorkersAssumption DEF Pool
  <2> QED BY <2>1, <2>2, <2>3
<1>3. CASE ~ (main.at + 1 < Workers)
  <2>1. main' = [pc |-> after, at |-> 0]
    BY <1>3 DEF NextWorker
  <2>2. \A w \in Pool : ~ (main.at < w)
    BY <1>1, <1>3, WorkersAssumption DEF Pool
  <2> QED BY <1>1, <2>1, <2>2
<1> QED BY <1>2, <1>3

LEMMA EnqueueStep ==
  ASSUME SleepInv, NEW c \in Callers, Enqueue(c)
  PROVE  SleepInv'
<1> USE DEF SleepInv
<1>1. Affinity[c] \in Pool
  BY AffinityAssumption
<1>2. UNCHANGED <<stopGlobal, main, task>>
  BY DEF Enqueue, EnqueueRefused, EnqueueBegin, EnqueueState, EnqueueFull,
         EnqueuePush, EnqueueNotify, pool, work
<1>3. Types'
  <2>1. CASE EnqueueRefused(c) \/ EnqueueBegin(c)
    <3>1. called' \in [Callers -> Nat]
      BY <2>1 DEF EnqueueRefused, EnqueueBegin, Types
    <3>2. caller' \in [Callers -> CallerLabels]
      BY <2>1 DEF EnqueueRefused, EnqueueBegin, Types, Goto, CallerLabels
    <3>3. UNCHANGED <<queue, worker>>
      BY <2>1 DEF EnqueueRefused, EnqueueBegin, work
    <3> QED BY <3>1, <3>2, <3>3, <1>2 DEF Types
  <2>2. CASE EnqueueState(c) \/ EnqueueFull(c)
    BY <2>2, <1>2 DEF EnqueueState, EnqueueFull, Types, Goto, CallerLabels, work
  <2>3. CASE EnqueuePush(c)
    <3>1. <<c, called[c]>> \in Callers \X Nat
      BY DEF Types
    <3>2. queue' \in [Pool -> Seq(Callers \X Nat)]
      BY <2>3, <3>1, <1>1 DEF EnqueuePush, Types
    <3> QED BY <2>3, <1>2, <3>2 DEF EnqueuePush, Types, Goto, CallerLabels
  <2>4. CASE EnqueueNotify(c)
    BY <2>4, <1>2, <1>1 DEF EnqueueNotify, Types, Goto, CallerLabels, Notify,
                            WorkerLabels
  <2> QED BY <2>1, <2>2, <2>3, <2>4 DEF Enqueue
<1>4. StopsOnce'
  BY <1>2 DEF StopsOnce
<1>5. NoSleepOnWork'
  <2> SUFFICES ASSUME NEW w \in Pool, worker'[w] = "asleep"
               PROVE  /\ queue'[w] # <<>> =>
                           \E d \in Callers : Affinity[d] = w /\ caller'[d] = "notify"
                      /\ stopGlobal' => main'.pc \in {"flag", "notify"}
                                          /\ main'.at <= w
    BY DEF NoSleepOnWork
  <2>1. worker[w] = "asleep"
    BY <1>1 DEF Enqueue, EnqueueRefused, EnqueueBegin, EnqueueState, EnqueueFull,
           EnqueuePush, EnqueueNotify, work, Types, Notify
  <2>2. stopGlobal' => main'.pc \in {"flag", "notify"} /\ main'.at <= w
    BY <2>1, <1>2 DEF NoSleepOnWork
  <2>3. ASSUME queue'[w] # <<>>
        PROVE  \E d \in Callers : Affinity[d] = w /\ caller'[d] = "notify"
    <3>1. CASE EnqueuePush(c) /\ Affinity[c] = w
      BY <3>1 DEF EnqueuePush, Goto, Types
    <3>2. CASE ~ (EnqueuePush(c) /\ Affinity[c] = w)
      <4>1. queue'[w] = queue[w]
        BY <3>2, <1>1 DEF Enqueue, EnqueueRefused, EnqueueBegin, EnqueueState,
             EnqueueFull, EnqueuePush, EnqueueNotify, work, Types
      <4>2. PICK d \in Callers : Affinity[d] = w /\ caller[d] = "notify"
        BY <4>1, <2>1, <2>3 DEF NoSleepOnWork
      <4>3. ~ (EnqueueNotify(c) /\ Affinity[c] = w)
        BY <1>1 DEF EnqueueNotify, Notify, Types
      <4>4. caller'[d] = "notify"
        BY <4>2, <4>3 DEF Enqueue, EnqueueRefused, EnqueueBegin, EnqueueState,
             EnqueueFull, EnqueuePush, EnqueueNotify, Goto, Types
      <4> QED BY <4>2, <4>4
    <3> QED BY <3>1, <3>2
  <2> QED BY <2>2, <2>3
<1> QED BY <1>3, <1>4, <1>5

LEMMA WorkerStep ==
  ASSUME SleepInv, NEW w \in Pool, WorkerLoop(w) \/ SpuriousWake(w)
  PROVE  SleepInv'
<1> USE DEF SleepInv
<1>1. UNCHANGED <<stopGlobal, main, caller, called>>
  BY DEF WorkerLoop, WorkerSleep, WorkerExit, WorkerTake, WorkerDone,
         SpuriousWake, pool, calls
<1>2. Types'
  <2>1. CASE WorkerTake(w)
    <3>1. Tail(queue[w]) \in Seq(Callers \X Nat)
      BY <2>1 DEF WorkerTake, Types
    <3> QED BY <2>1, <1>1, <3>1 DEF WorkerTake, Types, WorkerLabels
  <2>2. CASE ~ WorkerTake(w)
    BY <2>2, <1>1 DEF WorkerLoop, WorkerSleep, WorkerExit, WorkerDone, SpuriousWake,
           Notify, Types, WorkerLabels
  <2> QED BY <2>1, <2>2
<1>3. StopsOnce'
  BY <1>1 DEF StopsOnce
<1>4. NoSleepOnWork'
  <2> SUFFICES ASSUME NEW v \in Pool, worker'[v] = "asleep"
               PROVE  /\ queue'[v] # <<>> =>
                           \E d \in Callers : Affinity[d] = v /\ caller'[d] = "notify"
                      /\ stopGlobal' => main'.pc \in {"flag", "notify"}
                                          /\ main'.at <= v
    BY DEF NoSleepOnWork
  <2>1. CASE v = w
    <3>1. WorkerSleep(w)
      BY <2>1 DEF WorkerLoop, WorkerExit, WorkerTake, WorkerDone, SpuriousWake,
             Notify, Types
    <3> QED BY <2>1, <3>1, <1>1 DEF WorkerSleep, Stopping
  <2>2. CASE v # w
    <3>1. worker'[v] = worker[v] /\ queue'[v] = queue[v]
      BY <2>2 DEF WorkerLoop, WorkerSleep, WorkerExit, WorkerTake, WorkerDone,
             SpuriousWake, Notify, Types
    <3> QED BY <3>1, <1>1 DEF NoSleepOnWork
  <2> QED BY <2>1, <2>2
<1> QED BY <1>2, <1>3, <1>4

LEMMA MainStep ==
  ASSUME SleepInv, Main
  PROVE  SleepInv'
<1> USE DEF SleepInv
<1>0. /\ main.pc \in MainLabels /\ main.at \in Pool /\ 0 \in Pool
      /\ Pool \subseteq Nat
  BY PoolFacts DEF Types
<1>1. UNCHANGED <<queue, caller, called>>
  BY DEF Main, StartWorker, Shutdown, FlagWorker, NotifyWorker, JoinWorker,
         work, calls
<1>2. CASE StartWorker
  <2>1. Types' /\ main'.pc \in {"start", "up"}
    BY <1>2, <1>1, LoopGoesOn DEF StartWorker, Types, MainLabels, WorkerLabels
  <2>2. ~ stopGlobal /\ ~ stopGlobal'
    BY <1>2 DEF StartWorker, StopsOnce
  <2>3. \A w \in Pool : worker'[w] = "asleep" => worker[w] = "asleep"
    BY <1>2 DEF StartWorker, Types
  <2> QED BY <2>1, <2>2, <2>3, <1>1 DEF StopsOnce, NoSleepOnWork
<1>3. CASE Shutdown
  <2>1. Types'
    BY <1>3, <1>1, <1>0 DEF Shutdown, Types, MainLabels, work
  <2>2. \A w \in Pool : 0 <= w
    BY <1>0
  <2> QED BY <2>1, <2>2, <1>3, <1>1 DEF Shutdown, StopsOnce, NoSleepOnWork, work
<1>4. CASE FlagWorker
  <2>1. main' = [main EXCEPT !.pc = "notify"] /\ main.pc = "flag"
    BY <1>4 DEF FlagWorker
  <2>2. main'.pc = "notify" /\ main'.at = main.at
        /\ main' \in [pc : MainLabels, at : Pool]
    BY <2>1 DEF Types, MainLabels
  <2> QED BY <2>1, <2>2, <1>4, <1>1 DEF FlagWorker, Types, StopsOnce,
                                        NoSleepOnWork, work
<1>5. CASE NotifyWorker
  <2>1. /\ main' \in [pc : MainLabels, at : Pool]
        /\ main'.pc \in {"flag", "join"}
        /\ \A w \in Pool : main.at < w => main'.pc = "flag" /\ main'.at <= w
    BY <1>5, LoopGoesOn DEF NotifyWorker, MainLabels
  <2>2. worker' \in [Pool -> WorkerLabels]
    BY <1>5 DEF NotifyWorker, Notify, Types, WorkerLabels
  <2>3. Types' /\ StopsOnce'
    BY <2>1, <2>2, <1>5, <1>1 DEF NotifyWorker, Types, StopsOnce
  <2>4. \A w \in Pool : worker'[w] = "asleep" => worker[w] = "asleep" /\ w # main.at
    BY <1>5, <1>0 DEF NotifyWorker, Notify, Types
  <2>5. ASSUME NEW w \in Pool, worker'[w] = "asleep"
        PROVE  main'.pc \in {"flag", "notify"} /\ main'.at <= w
    <3>1. worker[w] = "asleep" /\ w # main.at
      BY <2>4, <2>5
    <3>2. stopGlobal
      BY <1>5 DEF NotifyWorker, StopsOnce
    <3>3. main.at <= w
      BY <3>1, <3>2 DEF NoSleepOnWork
    <3>4. main.at \in Nat /\ w \in Nat
      BY <1>0
    <3>5. main.at < w
      BY <3>1, <3>3, <3>4
    <3> QED BY <2>1, <3>5
  <2> QED BY <2>3, <2>4, <2>5, <1>1 DEF NoSleepOnWork
<1>6. CASE JoinWorker
  <2>1. Types' /\ main'.pc \in {"join", "down"}
    BY <1>6, <1>1, LoopGoesOn DEF JoinWorker, Types, MainLabels, work
  <2>2. stopGlobal /\ stopGlobal'
    BY <1>6 DEF JoinWorker, StopsOnce
  <2>3. \A w \in Pool : worker[w] # "asleep"
    BY <1>6, <2>2 DEF JoinWorker, NoSleepOnWork
  <2>4. worker' = worker
    BY <1>6 DEF JoinWorker, work
  <2> QED BY <2>1, <2>2, <2>3, <2>4 DEF StopsOnce, NoSleepOnWork
<1> QED BY <1>2, <1>3, <1>4, <1>5, <1>6 DEF Main

LEMMA SleepStep == SleepInv /\ [Next]_vars => SleepInv'
<1> SUFFICES ASSUME SleepInv, [Next]_vars PROVE SleepInv'
  OBVIOUS
<1>1. CASE SetRunningState \/ UNCHANGED vars
  BY <1>1 DEF SetRunningState, vars, work, calls, SleepInv, Types, StopsOnce,
              NoSleepOnWork
<1>2. ASSUME NEW c \in Callers, Enqueue(c) PROVE SleepInv'
  BY <1>2, EnqueueStep
<1>3. ASSUME NEW w \in Pool, WorkerLoop(w) \/ SpuriousWake(w) PROVE SleepInv'
  BY <1>3, WorkerStep
<1>4. CASE Main
  BY <1>4, MainStep
<1> QED BY <1>1, <1>2, <1>3, <1>4 DEF Next

\* A worker that sleeps on a task or through a shutdown is going to be
\* notified (the unlock-then-notify of enqueue() and of shutdown()).
THEOREM NoWorkerSleepsOnWork == Spec => []NoSleepOnWork
<1>1. SleepInv => NoSleepOnWork
  BY DEF SleepInv
<1> QED BY SleepInit, SleepStep, <1>1, PTL DEF Spec

-----------------------------------------------------------------------------
(* The types, and with them the bound on the queues. *)

\* A call under way has a number, and a busy worker has a task.
TypeInv ==
  /\ TypeOK
  /\ queue \in [Pool -> Seq(Task)]
  /\ \A c \in Callers : caller[c] # "idle" => called[c] \in 1 .. Quota
  /\ \A w \in Pool : worker[w] = "busy" => task[w] \in Task

LEMMA TypeInit == Init => TypeInv
<1> SUFFICES ASSUME Init PROVE TypeInv
  OBVIOUS
<1>1. /\ queue \in [Pool -> Seq(Task)]
      /\ \A w \in Pool : queue[w] \in Seq(Task) /\ Len(queue[w]) <= Limit + 1
  BY LimitAssumption DEF Init
<1>2. /\ state \in {"RUN", "PAUSE"} /\ stopGlobal \in BOOLEAN
      /\ main \in [pc : MainLabels, at : Pool]
  BY PoolFacts DEF Init, MainLabels
<1>3. /\ running \in [Pool -> BOOLEAN] /\ stopFlag \in [Pool -> BOOLEAN]
      /\ worker \in [Pool -> WorkerLabels]
      /\ task \in [Pool -> Task \cup {NoTask}]
      /\ processed \in [Pool -> Nat]
      /\ \A w \in Pool : worker[w] # "busy"
  BY DEF Init, WorkerLabels
<1>4. /\ caller \in [Callers -> CallerLabels]
      /\ called \in [Callers -> 0 .. Quota] /\ executed \in [Callers -> 0 .. Quota]
      /\ \A c \in Callers : caller[c] = "idle"
  BY QuotaAssumption DEF Init, CallerLabels
<1>5. dropped \in Nat /\ refused \in Nat
  BY DEF Init
<1> QED BY <1>1, <1>2, <1>3, <1>4, <1>5
           DEF TypeInv, TypeOK, MainLabels, CallerLabels, WorkerLabels

\* The part of the types that a caller's or a worker's step leaves alone.
Control ==
  /\ state \in {"RUN", "PAUSE"} /\ stopGlobal \in BOOLEAN
  /\ main \in [pc : MainLabels, at : Pool]
  /\ running \in [Pool -> BOOLEAN] /\ stopFlag \in [Pool -> BOOLEAN]

LEMMA ControlStays ==
  ASSUME TypeInv, UNCHANGED <<state, stopGlobal, main, pool>>
  PROVE  Control'
BY DEF TypeInv, TypeOK, Control, pool, MainLabels

LEMMA TypesOfEnqueue ==
  ASSUME TypeInv, NEW c \in Callers, Enqueue(c)
  PROVE  TypeInv'
<1> USE QuotaAssumption, LimitAssumption
<1>1. Affinity[c] \in Pool
  BY AffinityAssumption
<1>2. Control' /\ UNCHANGED <<task, executed, processed>>
  <2>1. UNCHANGED <<state, stopGlobal, main, pool, task, executed, processed>>
    BY DEF Enqueue, EnqueueRefused, EnqueueBegin, EnqueueState, EnqueueFull,
           EnqueuePush, EnqueueNotify, work
  <2> QED BY <2>1, ControlStays
<1>3. /\ called' \in [Callers -> 0 .. Quota]
      /\ caller' \in [Callers -> CallerLabels]
      /\ \A d \in Callers : caller'[d] # "idle" => called'[d] \in 1 .. Quota
  <2>1. CASE EnqueueRefused(c)
    BY <2>1 DEF EnqueueRefused, TypeInv, TypeOK, CallerLabels
  <2>2. CASE EnqueueBegin(c)
    BY <2>2 DEF EnqueueBegin, TypeInv, TypeOK, Goto, CallerLabels
  <2>3. CASE ~ EnqueueRefused(c) /\ ~ EnqueueBegin(c)
    BY <2>3 DEF Enqueue, EnqueueState, EnqueueFull, EnqueuePush, EnqueueNotify,
                TypeInv, TypeOK, Goto, CallerLabels
  <2> QED BY <2>1, <2>2, <2>3
<1>4. dropped' \in Nat /\ refused' \in Nat
  BY DEF Enqueue, EnqueueRefused, EnqueueBegin, EnqueueState, EnqueueFull,
         EnqueuePush, EnqueueNotify, TypeInv, TypeOK, Count
<1>5. /\ worker' \in [Pool -> WorkerLabels]
      /\ \A w \in Pool : worker'[w] = "busy" => worker[w] = "busy"
  BY <1>1 DEF Enqueue, EnqueueRefused, EnqueueBegin, EnqueueState, EnqueueFull,
         EnqueuePush, EnqueueNotify, TypeInv, TypeOK, Notify, WorkerLabels, work
<1>6. /\ queue' \in [Pool -> Seq(Task)]
      /\ \A w \in Pool : Len(queue'[w]) <= Limit + 1
  <2>1. CASE EnqueuePush(c)
    <3>1. <<c, called[c]>> \in Task
      BY <2>1 DEF EnqueuePush, TypeInv, Task
    <3>2. /\ Append(queue[Affinity[c]], <<c, called[c]>>) \in Seq(Task)
          /\ Len(Append(queue[Affinity[c]], <<c, called[c]>>)) <= Limit + 1
      BY <1>1, <2>1, <3>1 DEF EnqueuePush, TypeInv
    <3> QED BY <1>1, <2>1, <3>2 DEF EnqueuePush, TypeInv, TypeOK
  <2>2. CASE ~ EnqueuePush(c)
    BY <2>2 DEF Enqueue, EnqueueRefused, EnqueueBegin, EnqueueState, EnqueueFull,
                EnqueueNotify, TypeInv, TypeOK, work
  <2> QED BY <2>1, <2>2
<1>7. TypeOK'
  BY <1>2, <1>3, <1>4, <1>5, <1>6
     DEF TypeInv, TypeOK, Control, MainLabels, CallerLabels, WorkerLabels
<1> QED BY <1>2, <1>3, <1>5, <1>6, <1>7 DEF TypeInv

LEMMA TypesOfWorker ==
  ASSUME TypeInv, NEW w \in Pool, WorkerLoop(w) \/ SpuriousWake(w)
  PROVE  TypeInv'
<1>1. Control' /\ UNCHANGED <<caller, called, dropped, refused>>
  <2>1. UNCHANGED <<state, stopGlobal, main, pool, calls>>
    BY DEF WorkerLoop, WorkerSleep, WorkerExit, WorkerTake, WorkerDone,
           SpuriousWake
  <2> QED BY <2>1, ControlStays DEF calls
<1>2. CASE WorkerTake(w)
  <2>1. /\ queue[w] \in Seq(Task) /\ queue[w] # <<>> /\ Limit \in Nat
        /\ Len(queue[w]) <= Limit + 1
    BY <1>2, LimitAssumption DEF WorkerTake, TypeInv, TypeOK
  <2>2. /\ Head(queue[w]) \in Task /\ Tail(queue[w]) \in Seq(Task)
        /\ Len(Tail(queue[w])) <= Limit + 1
    BY <2>1
  <2>3. /\ queue' \in [Pool -> Seq(Task)]
        /\ \A v \in Pool : Len(queue'[v]) <= Limit + 1
    BY <1>2, <2>2 DEF WorkerTake, TypeInv, TypeOK
  <2>4. /\ task' \in [Pool -> Task \cup {NoTask}]
        /\ \A v \in Pool : worker'[v] = "busy" => task'[v] \in Task
    BY <1>2, <2>2 DEF WorkerTake, TypeInv, TypeOK
  <2>5. worker' \in [Pool -> WorkerLabels] /\ UNCHANGED <<executed, processed>>
    BY <1>2 DEF WorkerTake, TypeInv, TypeOK, WorkerLabels
  <2> QED BY <1>1, <2>3, <2>4, <2>5
             DEF TypeInv, TypeOK, Control, MainLabels, WorkerLabels
<1>3. CASE WorkerDone(w)
  <2>1. task[w] \in Callers \X (1 .. Quota)
    BY <1>3 DEF WorkerDone, TypeInv, Task
  <2>2. task[w][1] \in Callers /\ task[w][2] \in 0 .. Quota
    BY <2>1, QuotaAssumption
  <2>3. executed' \in [Callers -> 0 .. Quota] /\ processed' \in [Pool -> Nat]
    BY <1>3, <2>2 DEF WorkerDone, TypeInv, TypeOK
  <2>4. /\ task' \in [Pool -> Task \cup {NoTask}]
        /\ \A v \in Pool : worker'[v] = "busy" => task'[v] \in Task
    BY <1>3 DEF WorkerDone, TypeInv, TypeOK
  <2>5. worker' \in [Pool -> WorkerLabels] /\ queue' = queue
    BY <1>3 DEF WorkerDone, TypeInv, TypeOK, WorkerLabels
  <2> QED BY <1>1, <2>3, <2>4, <2>5
             DEF TypeInv, TypeOK, Control, MainLabels, WorkerLabels
<1>4. CASE WorkerSleep(w) \/ WorkerExit(w) \/ SpuriousWake(w)
  <2>1. /\ worker' \in [Pool -> WorkerLabels]
        /\ \A v \in Pool : worker'[v] = "busy" => worker[v] = "busy"
        /\ UNCHANGED <<queue, task, executed, processed>>
    BY <1>4 DEF WorkerSleep, WorkerExit, SpuriousWake, Notify, TypeInv, TypeOK,
                WorkerLabels
  <2> QED BY <1>1, <2>1 DEF TypeInv, TypeOK, Control, MainLabels, WorkerLabels
<1> QED BY <1>2, <1>3, <1>4 DEF WorkerLoop

LEMMA TypesOfMain ==
  ASSUME TypeInv, Main
  PROVE  TypeInv'
<1>1. main.at \in Pool /\ 0 \in Pool
  BY PoolFacts DEF TypeInv, TypeOK
<1>2. Types
  <2>1. /\ \A q \in Seq(Task) : q \in Seq(Callers \X Nat)
        /\ \A n \in 0 .. Quota : n \in Nat
    BY QuotaAssumption DEF Task
  <2>2. queue \in [Pool -> Seq(Callers \X Nat)] /\ called \in [Callers -> Nat]
    BY <2>1 DEF TypeInv, TypeOK
  <2> QED BY <2>2 DEF TypeInv, TypeOK, Types, MainLabels, CallerLabels,
                      WorkerLabels
<1>3. main' \in [pc : MainLabels, at : Pool]
  <2>1. {"start", "up", "flag", "notify", "join", "down"} \subseteq MainLabels
    BY DEF MainLabels
  <2>2. CASE StartWorker
    BY <1>2, <2>1, <2>2, LoopGoesOn DEF StartWorker
  <2>3. CASE NotifyWorker
    BY <1>2, <2>1, <2>3, LoopGoesOn DEF NotifyWorker
  <2>4. CASE JoinWorker
    BY <1>2, <2>1, <2>4, LoopGoesOn DEF JoinWorker
  <2>5. CASE Shutdown \/ FlagWorker
    BY <1>1, <1>2, <2>1, <2>5 DEF Shutdown, FlagWorker, Types
  <2> QED BY <2>2, <2>3, <2>4, <2>5 DEF Main
<1>4. /\ state' = state /\ stopGlobal' \in BOOLEAN
      /\ running' \in [Pool -> BOOLEAN] /\ stopFlag' \in [Pool -> BOOLEAN]
  BY <1>1 DEF Main, StartWorker, Shutdown, FlagWorker, NotifyWorker, JoinWorker,
              TypeInv, TypeOK, pool
<1>5. UNCHANGED <<queue, task, executed, processed, calls>>
  BY DEF Main, StartWorker, Shutdown, FlagWorker, NotifyWorker, JoinWorker, work
<1>6. /\ worker' \in [Pool -> WorkerLabels]
      /\ \A v \in Pool : worker'[v] = "busy" => worker[v] = "busy"
  BY <1>1 DEF Main, StartWorker, Shutdown, FlagWorker, NotifyWorker, JoinWorker,
              Notify, TypeInv, TypeOK, WorkerLabels, work
<1> QED BY <1>3, <1>4, <1>5, <1>6
           DEF TypeInv, TypeOK, calls, MainLabels, WorkerLabels

LEMMA TypeStep == TypeInv /\ [Next]_vars => TypeInv'
<1> SUFFICES ASSUME TypeInv, [Next]_vars PROVE TypeInv'
  OBVIOUS
<1>1. CASE SetRunningState \/ UNCHANGED vars
  BY <1>1 DEF SetRunningState, vars, pool, work, calls, TypeInv, TypeOK
<1>2. ASSUME NEW c \in Callers, Enqueue(c) PROVE TypeInv'
  BY <1>2, TypesOfEnqueue
<1>3. ASSUME NEW w \in Pool, WorkerLoop(w) \/ SpuriousWake(w) PROVE TypeInv'
  BY <1>3, TypesOfWorker
<1>4. CASE Main
  BY <1>4, TypesOfMain
<1> QED BY <1>1, <1>2, <1>3, <1>4 DEF Next

\* The types of the pool's state; no queue of a worker holds more than one task
\* above the length at which enqueue() begins to drop.
THEOREM TypeCorrect == Spec => []TypeOK
<1>1. TypeInv => TypeOK
  BY DEF TypeInv
<1> QED BY TypeInit, TypeStep, <1>1, PTL DEF Spec

-----------------------------------------------------------------------------
(***************************************************************************)
(* The order in which the messages of a listener are handled.  The tasks   *)
(* of a caller are all with the worker of its step: the one being executed *)
(* first, the queued ones after it in the order of the calls, and a call   *)
(* under way comes after all of them.                                      *)
(***************************************************************************)
UnderWay(c) == caller[c] \in {"state", "lock"}

\* e is a task of worker w that is still to be executed.
Due(w, e) ==
  /\ Affinity[e[1]] = w /\ executed[e[1]] < e[2] /\ e[2] <= called[e[1]]
  /\ UnderWay(e[1]) => e[2] < called[e[1]]

Before(e, f) == e[1] = f[1] => e[2] < f[2]

QueueInv(w) ==
  /\ \A i \in DOMAIN queue[w] : Due(w, queue[w][i])
  /\ \A i, j \in DOMAIN queue[w] : i < j => Before(queue[w][i], queue[w][j])

TaskInv(w) ==
  worker[w] = "busy" =>
    /\ Due(w, task[w])
    /\ \A i \in DOMAIN queue[w] : Before(task[w], queue[w][i])

CallInv(c) ==
  executed[c] <= called[c] /\ (UnderWay(c) => executed[c] < called[c])

OrderInv ==
  /\ \A w \in Pool : QueueInv(w) /\ TaskInv(w)
  /\ \A c \in Callers : CallInv(c)

LEMMA OrderInit == Init => OrderInv
<1> SUFFICES ASSUME Init PROVE OrderInv
  OBVIOUS
<1>1. \A w \in Pool : QueueInv(w) /\ TaskInv(w)
  BY DEF Init, QueueInv, TaskInv
<1>2. \A c \in Callers : CallInv(c)
  BY DEF Init, CallInv, UnderWay
<1> QED BY <1>1, <1>2 DEF OrderInv

LEMMA TaskFacts ==
  ASSUME NEW e \in Task
  PROVE  e[1] \in Callers /\ e[2] \in Nat /\ e = <<e[1], e[2]>>
BY QuotaAssumption DEF Task

\* What a call changes leaves the tasks there are due.
LEMMA DueStays ==
  ASSUME TypeInv, NEW c \in Callers, Enqueue(c), NEW w \in Pool, NEW e \in Task,
         Due(w, e)
  PROVE  Due(w, e)'
<1>1. /\ called \in [Callers -> 0 .. Quota] /\ executed \in [Callers -> 0 .. Quota]
      /\ caller \in [Callers -> CallerLabels] /\ executed' = executed
  BY DEF TypeInv, TypeOK, CallerLabels, Enqueue, EnqueueRefused, EnqueueBegin,
         EnqueueState, EnqueueFull, EnqueuePush, EnqueueNotify, work
<1>2. e[1] \in Callers /\ e[2] \in Nat /\ called[e[1]] \in Nat
  BY <1>1, TaskFacts, QuotaAssumption
<1>3. CASE EnqueueRefused(c) \/ EnqueueBegin(c)
  <2>1. /\ called' = [called EXCEPT ![c] = called[c] + 1] /\ caller[c] = "idle"
        /\ \A d \in Callers \ {c} : caller'[d] = caller[d]
        /\ EnqueueRefused(c) => caller' = caller
    BY <1>1, <1>3 DEF EnqueueRefused, EnqueueBegin, Goto
  <2>2. CASE e[1] = c
    <3>1. called'[c] = called[c] + 1
      BY <1>1, <2>1
    <3> QED BY <1>1, <1>2, <2>2, <3>1 DEF Due
  <2>3. CASE e[1] # c
    <3>1. called'[e[1]] = called[e[1]] /\ caller'[e[1]] = caller[e[1]]
      BY <1>1, <1>2, <2>1, <2>3
    <3> QED BY <1>1, <3>1 DEF Due, UnderWay
  <2> QED BY <2>2, <2>3
<1>4. CASE ~ EnqueueRefused(c) /\ ~ EnqueueBegin(c)
  <2>1. /\ called' = called
        /\ \A d \in Callers : UnderWay(d)' => UnderWay(d)
    BY <1>1, <1>4 DEF Enqueue, EnqueueState, EnqueueFull, EnqueuePush, EnqueueNotify,
                      Goto, UnderWay
  <2> QED BY <1>1, <1>2, <2>1 DEF Due
<1> QED BY <1>3, <1>4

LEMMA OrderEnqueue ==
  ASSUME TypeInv, OrderInv, NEW c \in Callers, Enqueue(c)
  PROVE  OrderInv'
<1>0. /\ called \in [Callers -> 0 .. Quota] /\ executed \in [Callers -> 0 .. Quota]
      /\ caller \in [Callers -> CallerLabels] /\ UNCHANGED <<executed, task>>
      /\ Affinity[c] \in Pool /\ called[c] \in Nat /\ executed[c] \in Nat
      /\ queue \in [Pool -> Seq(Task)]
      /\ \A w \in Pool : worker[w] = "busy" => task[w] \in Task
  BY AffinityAssumption, QuotaAssumption DEF TypeInv, TypeOK, CallerLabels, Enqueue,
     EnqueueRefused, EnqueueBegin, EnqueueState, EnqueueFull, EnqueuePush,
     EnqueueNotify, work
<1>1. \A w \in Pool : worker'[w] = "busy" => worker[w] = "busy"
  BY <1>0 DEF TypeInv, TypeOK, Enqueue, EnqueueRefused, EnqueueBegin, EnqueueState,
     EnqueueFull, EnqueuePush, EnqueueNotify, work, Notify
<1>2. ASSUME NEW d \in Callers PROVE CallInv(d)'
  <2>1. CallInv(d) /\ called[d] \in Nat /\ executed[d] \in Nat
    BY <1>0, QuotaAssumption DEF OrderInv
  <2>2. CASE EnqueueRefused(c) \/ EnqueueBegin(c)
    <3>1. /\ called'[d] = IF d = c THEN called[c] + 1 ELSE called[d]
          /\ caller[c] = "idle" /\ (d # c => caller'[d] = caller[d])
      BY <1>0, <2>2 DEF EnqueueRefused, EnqueueBegin, Goto
    <3> QED BY <1>0, <2>1, <3>1 DEF CallInv, UnderWay
  <2>3. CASE ~ EnqueueRefused(c) /\ ~ EnqueueBegin(c)
    <3>1. called' = called /\ (UnderWay(d)' => UnderWay(d))
      BY <1>0, <2>3 DEF Enqueue, EnqueueState, EnqueueFull, EnqueuePush, EnqueueNotify,
                        Goto, UnderWay
    <3> QED BY <1>0, <2>1, <3>1 DEF CallInv
  <2> QED BY <2>2, <2>3
<1>3. ASSUME NEW w \in Pool, queue'[w] = queue[w] PROVE QueueInv(w)' /\ TaskInv(w)'
  <2>1. QueueInv(w) /\ TaskInv(w) /\ queue[w] \in Seq(Task)
    BY <1>0 DEF OrderInv
  <2>2. \A i \in DOMAIN queue[w] : queue[w][i] \in Task
    BY <2>1
  <2>3. QueueInv(w)'
    BY <1>3, <2>1, <2>2, DueStays DEF QueueInv, Before
  <2>4. TaskInv(w)'
    BY <1>0, <1>1, <1>3, <2>1, DueStays DEF TaskInv, Before
  <2> QED BY <2>3, <2>4
<1>4. CASE EnqueuePush(c)
  <2> DEFINE v == Affinity[c]
  <2>0. PICK e \in Task : e = <<c, called[c]>> /\ UnderWay(c)
    <3>1. caller[c] = "lock"
      BY <1>4 DEF EnqueuePush
    <3>2. <<c, called[c]>> \in Task
      BY <3>1 DEF TypeInv, Task
    <3> QED BY <3>1, <3>2 DEF UnderWay
  <2>1. PICK q \in Seq(Task) : q = queue[v] /\ QueueInv(v) /\ TaskInv(v)
    BY <1>0 DEF OrderInv
  <2>2. e[1] = c /\ e[2] = called[c] /\ UnderWay(c)
    BY <2>0
  <2>3. queue'[v] = Append(q, e) /\ \A w \in Pool \ {v} : queue'[w] = queue[w]
    BY <1>0, <1>4, <2>0, <2>1 DEF EnqueuePush
  <2>4. /\ DOMAIN Append(q, e) = 1 .. Len(q) + 1 /\ DOMAIN q = 1 .. Len(q)
        /\ Len(q) \in Nat /\ Append(q, e)[Len(q) + 1] = e
        /\ \A i \in 1 .. Len(q) : Append(q, e)[i] = q[i] /\ q[i] \in Task
    BY <2>1, <2>2
  <2>5. \A f \in Task : Due(v, f) => Before(f, e)
    BY <2>2, TaskFacts DEF Due, Before
  <2>6. Due(v, e)'
    <3>1. executed[c] < called[c]
      BY <2>2 DEF OrderInv, CallInv
    <3>2. called' = called /\ ~ UnderWay(c)'
      BY <1>0, <1>4 DEF EnqueuePush, Goto, UnderWay
    <3> QED BY <1>0, <2>2, <3>1, <3>2 DEF Due
  <2>7. QueueInv(v)'
    <3> DEFINE r == Append(q, e)
    <3>1. \A i \in DOMAIN r : Due(v, r[i])'
      <4> SUFFICES ASSUME NEW i \in 1 .. Len(q) + 1 PROVE Due(v, r[i])'
        BY <2>4
      <4>1. CASE i \in 1 .. Len(q)
        <5>1. Due(v, q[i]) /\ q[i] \in Task /\ r[i] = q[i]
          BY <2>1, <2>4, <4>1 DEF QueueInv
        <5>2. Due(v, q[i])'
          BY <1>0, <5>1, DueStays
        <5> QED BY <5>1, <5>2
      <4>2. CASE i = Len(q) + 1
        BY <2>4, <2>6, <4>2
      <4> QED BY <2>4, <4>1, <4>2
    <3>2. \A i, j \in DOMAIN r : i < j => Before(r[i], r[j])
      <4> SUFFICES ASSUME NEW i \in 1 .. Len(q) + 1, NEW j \in 1 .. Len(q) + 1, i < j
                   PROVE  Before(r[i], r[j])
        BY <2>4
      <4>1. i \in 1 .. Len(q)
        BY <2>4
      <4>2. CASE j \in 1 .. Len(q)
        BY <2>1, <2>4, <4>1, <4>2 DEF QueueInv
      <4>3. CASE j = Len(q) + 1
        <5>1. Due(v, q[i]) /\ q[i] \in Task
          BY <2>1, <2>4, <4>1 DEF QueueInv
        <5>2. Before(q[i], e)
          BY <2>5, <5>1
        <5> QED BY <2>4, <4>1, <4>3, <5>2
      <4> QED BY <2>4, <4>2, <4>3
    <3>3. r = queue'[v]
      BY <2>3
    <3> HIDE DEF r
    <3> QED BY <3>1, <3>2, <3>3 DEF QueueInv, Before
  <2>8. TaskInv(v)'
    <3> SUFFICES ASSUME worker[v] = "busy"
                 PROVE  /\ Due(v, task[v])'
                        /\ \A i \in DOMAIN queue'[v] : Before(task[v], queue'[v][i])
      BY <1>0, <1>1 DEF TaskInv, Before
    <3>1. Due(v, task[v]) /\ task[v] \in Task
      BY <1>0, <2>1 DEF TaskInv
    <3>2. Due(v, task[v])'
      BY <1>0, <3>1, DueStays
    <3>3. \A i \in 1 .. Len(q) : Before(task[v], q[i])
      BY <2>1, <2>4 DEF TaskInv
    <3>4. Before(task[v], e)
      BY <2>5, <3>1
    <3> QED BY <2>3, <2>4, <3>2, <3>3, <3>4
  <2>9. \A w \in Pool : QueueInv(w)' /\ TaskInv(w)'
    BY <1>3, <2>3, <2>7, <2>8
  <2> QED BY <1>2, <2>9 DEF OrderInv
<1>5. CASE ~ EnqueuePush(c)
  <2>1. queue' = queue
    BY <1>5 DEF Enqueue, EnqueueRefused, EnqueueBegin, EnqueueState, EnqueueFull,
                EnqueueNotify, work
  <2> QED BY <1>2, <1>3, <2>1 DEF OrderInv
<1> QED BY <1>4, <1>5

LEMMA OrderWorker ==
  ASSUME TypeInv, OrderInv, NEW w \in Pool, WorkerLoop(w) \/ SpuriousWake(w)
  PROVE  OrderInv' /\ \A c \in Callers : executed'[c] >= executed[c]
<1>0. /\ called \in [Callers -> 0 .. Quota] /\ executed \in [Callers -> 0 .. Quota]
      /\ UNCHANGED <<caller, called>> /\ queue \in [Pool -> Seq(Task)]
      /\ worker \in [Pool -> WorkerLabels]
      /\ \A v \in Pool : worker[v] = "busy" => task[v] \in Task
      /\ task \in [Pool -> Task \cup {NoTask}]
      /\ \A c \in Callers : executed[c] \in Nat /\ called[c] \in Nat
  BY QuotaAssumption DEF TypeInv, TypeOK, WorkerLabels, WorkerLoop, WorkerSleep,
     WorkerExit, WorkerTake, WorkerDone, SpuriousWake, calls
<1>1. CASE WorkerSleep(w) \/ WorkerExit(w) \/ SpuriousWake(w)
  <2>1. /\ \A v \in Pool : worker'[v] = "busy" => worker[v] = "busy"
        /\ UNCHANGED <<queue, task, executed>>
    BY <1>0, <1>1 DEF WorkerSleep, WorkerExit, SpuriousWake, Notify
  <2>2. OrderInv'
    BY <1>0, <2>1 DEF OrderInv, QueueInv, TaskInv, CallInv, Due, UnderWay, Before
  <2> QED BY <1>0, <2>1, <2>2
<1>2. CASE WorkerTake(w)
  <2>1. PICK q \in Seq(Task) : q = queue[w] /\ q # <<>> /\ QueueInv(w)
    BY <1>0, <1>2 DEF WorkerTake, OrderInv
  <2>2. /\ Len(q) \in Nat \ {0} /\ DOMAIN q = 1 .. Len(q) /\ Head(q) = q[1]
        /\ DOMAIN Tail(q) = 1 .. Len(q) - 1
        /\ \A i \in 1 .. Len(q) - 1 : Tail(q)[i] = q[i + 1]
    BY <2>1
  <2>3. /\ executed' = executed /\ task'[w] = q[1] /\ queue'[w] = Tail(q)
        /\ \A v \in Pool \ {w} : /\ worker'[v] = worker[v] /\ task'[v] = task[v]
                                 /\ queue'[v] = queue[v]
    BY <1>0, <1>2, <2>1, <2>2 DEF WorkerTake
  <2>4. \A v \in Pool : \A e : Due(v, e) => Due(v, e)'
    BY <1>0, <2>3 DEF Due, UnderWay
  <2>5. /\ 1 \in DOMAIN q
        /\ \A i \in 1 .. Len(q) - 1 : i + 1 \in DOMAIN q /\ 1 < i + 1
        /\ \A i, j \in 1 .. Len(q) - 1 : i < j => i + 1 < j + 1
    BY <2>2
  <2>6. QueueInv(w)' /\ TaskInv(w)'
    <3>1. \A i \in DOMAIN Tail(q) : Due(w, Tail(q)[i])'
      BY <2>1, <2>2, <2>4, <2>5 DEF QueueInv
    <3>2. \A i, j \in DOMAIN Tail(q) : i < j => Before(Tail(q)[i], Tail(q)[j])
      BY <2>1, <2>2, <2>5 DEF QueueInv
    <3>3. Due(w, q[1])' /\ \A i \in DOMAIN Tail(q) : Before(q[1], Tail(q)[i])
      BY <2>1, <2>2, <2>4, <2>5 DEF QueueInv
    <3> QED BY <2>3, <3>1, <3>2, <3>3 DEF QueueInv, TaskInv, Before
  <2>7. ASSUME NEW v \in Pool \ {w} PROVE QueueInv(v)' /\ TaskInv(v)'
    <3>1. QueueInv(v) /\ TaskInv(v)
      BY DEF OrderInv
    <3> QED BY <2>3, <2>4, <3>1 DEF QueueInv, TaskInv, Before
  <2>8. \A c \in Callers : CallInv(c)'
    BY <1>0, <2>3 DEF OrderInv, CallInv, UnderWay
  <2> QED BY <1>0, <2>3, <2>6, <2>7, <2>8 DEF OrderInv
<1>3. CASE WorkerDone(w)
  <2>1. PICK e \in Task : e = task[w] /\ Due(w, e) /\ worker[w] = "busy"
                          /\ \A i \in DOMAIN queue[w] : Before(e, queue[w][i])
    BY <1>0, <1>3 DEF WorkerDone, OrderInv, TaskInv
  <2>2. e[1] \in Callers /\ e[2] \in Nat
    BY TaskFacts
  <2>3. /\ \A c \in Callers : executed'[c] = IF c = e[1] THEN e[2] ELSE executed[c]
        /\ worker'[w] # "busy" /\ queue' = queue
        /\ \A v \in Pool \ {w} : worker'[v] = worker[v] /\ task'[v] = task[v]
    BY <1>0, <1>3, <2>1, <2>2 DEF WorkerDone
  <2>4. ASSUME NEW v \in Pool, NEW f \in Task, Due(v, f), v # w \/ Before(e, f)
        PROVE  Due(v, f)'
    <3>1. f[1] \in Callers /\ f[2] \in Nat
      BY TaskFacts
    <3>2. CASE f[1] = e[1]
      <4>1. Before(e, f)
        BY <2>1, <2>4, <3>2 DEF Due
      <4>2. executed'[f[1]] < f[2]
        BY <2>3, <3>1, <3>2, <4>1 DEF Before
      <4> QED BY <1>0, <2>4, <4>2 DEF Due, UnderWay
    <3>3. CASE f[1] # e[1]
      <4>1. executed'[f[1]] = executed[f[1]]
        BY <2>3, <3>1, <3>3
      <4> QED BY <1>0, <2>4, <4>1 DEF Due, UnderWay
    <3> QED BY <3>2, <3>3
  <2>5. ASSUME NEW v \in Pool PROVE QueueInv(v)' /\ TaskInv(v)'
    <3>1. /\ QueueInv(v) /\ TaskInv(v) /\ queue[v] \in Seq(Task)
      BY <1>0 DEF OrderInv
    <3>2. \A i \in DOMAIN queue[v] : queue[v][i] \in Task /\ Due(v, queue[v][i])
      BY <3>1 DEF QueueInv
    <3>3. \A i \in DOMAIN queue[v] : Due(v, queue[v][i])'
      <4>1. PICK q \in Seq(Task) : q = queue[v]
        BY <3>1
      <4>2. \A i \in DOMAIN q : Due(v, q[i])'
        BY <2>1, <2>4, <3>2, <4>1
      <4> QED BY <2>3, <4>1, <4>2 DEF Due
    <3>4. QueueInv(v)'
      BY <2>3, <3>1, <3>3 DEF QueueInv, Before
    <3>5. TaskInv(v)'
      <4>1. CASE v = w
        BY <2>3, <4>1 DEF TaskInv
      <4>2. CASE v # w
        BY <1>0, <2>3, <2>4, <3>1, <4>2 DEF TaskInv, Before
      <4> QED BY <4>1, <4>2
    <3> QED BY <3>4, <3>5
  <2>6. ASSUME NEW c \in Callers PROVE CallInv(c)' /\ executed'[c] >= executed[c]
    <3>1. CallInv(c)
      BY DEF OrderInv
    <3>2. CASE c = e[1]
      BY <1>0, <2>1, <2>2, <2>3, <3>2 DEF CallInv, Due, UnderWay
    <3>3. CASE c # e[1]
      BY <1>0, <2>3, <3>1, <3>3 DEF CallInv, UnderWay
    <3> QED BY <3>2, <3>3
  <2> QED BY <2>5, <2>6 DEF OrderInv
<1> QED BY <1>1, <1>2, <1>3 DEF WorkerLoop

LEMMA OrderStep ==
  TypeInv /\ OrderInv /\ [Next]_vars =>
    OrderInv' /\ \A c \in Callers : executed'[c] >= executed[c]
<1> SUFFICES ASSUME TypeInv, OrderInv, [Next]_vars
             PROVE  OrderInv' /\ \A c \in Callers : executed'[c] >= executed[c]
  OBVIOUS
<1>0. \A c \in Callers : executed[c] \in Nat
  BY QuotaAssumption DEF TypeInv, TypeOK
<1>1. CASE SetRunningState \/ UNCHANGED vars
  <2>1. UNCHANGED <<queue, worker, task, executed, caller, called>>
    BY <1>1 DEF SetRunningState, vars, work, calls
  <2> QED BY <1>0, <2>1 DEF OrderInv, QueueInv, TaskInv, CallInv, Due, UnderWay, Before
<1>2. ASSUME NEW c \in Callers, Enqueue(c)
      PROVE  OrderInv' /\ \A d \in Callers : executed'[d] >= executed[d]
  <2>1. executed' = executed
    BY <1>2 DEF Enqueue, EnqueueRefused, EnqueueBegin, EnqueueState, EnqueueFull,
                EnqueuePush, EnqueueNotify, work
  <2> QED BY <1>0, <1>2, <2>1, OrderEnqueue
<1>3. ASSUME NEW w \in Pool, WorkerLoop(w) \/ SpuriousWake(w)
      PROVE  OrderInv' /\ \A d \in Callers : executed'[d] >= executed[d]
  BY <1>3, OrderWorker
<1>4. CASE Main
  <2>1. UNCHANGED <<queue, task, executed, caller, called>>
    BY <1>4 DEF Main, StartWorker, Shutdown, FlagWorker, NotifyWorker, JoinWorker,
                work, calls
  <2>2. \A v \in Pool : worker'[v] = "busy" => worker[v] = "busy"
    BY <1>4 DEF Main, StartWorker, Shutdown, FlagWorker, NotifyWorker, JoinWorker,
                Notify, TypeInv, TypeOK, work
  <2> QED BY <1>0, <2>1, <2>2 DEF OrderInv, QueueInv, TaskInv, CallInv, Due, UnderWay,
                                  Before
<1> QED BY <1>1, <1>2, <1>3, <1>4 DEF Next

\* The messages of a listener are handled in the order it received them: its
\* tasks all go to one worker, which takes them in that order.
THEOREM InOrderOfCalls == Spec => HandledInOrder
<1>1. TypeInv /\ OrderInv /\ [Next]_vars =>
        [\A c \in Callers : executed'[c] >= executed[c]]_vars
  BY OrderStep
<1> QED BY TypeInit, TypeStep, OrderInit, OrderStep, <1>1, PTL DEF Spec, HandledInOrder

-----------------------------------------------------------------------------
(***************************************************************************)
(* The balance of the calls.  Each step moves one call from one term of    *)
(* Accounted to another; what has to be said besides is that start() makes *)
(* no worker of one that is busy.                                          *)
(***************************************************************************)
LEMMA NumberedIsFinite ==
  ASSUME NEW S, IsFiniteSet(S), NEW n \in [S -> Nat]
  PROVE  IsFiniteSet(Numbered(S, n))
<1> DEFINE f == [x \in S |-> {x} \X (1 .. n[x])]
           T == {{x} \X (1 .. n[x]) : x \in S}
<1>1. f \in Surjection(S, T)
  BY DEF Surjection
<1>2. IsFiniteSet(T)
  <2> HIDE DEF f, T
  <2> QED BY <1>1, FS_Surjection
<1>3. ASSUME NEW x \in S
      PROVE  IsFiniteSet({x} \X (1 .. n[x]))
  <2>1. IsFiniteSet({x})
    BY FS_Singleton
  <2>2. IsFiniteSet(1 .. n[x])
    <3>1. n[x] \in Int /\ 1 \in Int
      OBVIOUS
    <3> QED BY <3>1, FS_Interval
  <2> QED BY <2>1, <2>2, FS_Product
<1>4. \A U \in T : IsFiniteSet(U)
  BY <1>3
<1>5. IsFiniteSet(UNION T)
  <2> HIDE DEF T
  <2> QED BY <1>2, <1>4, FS_UNION
<1> QED BY <1>5 DEF Numbered

LEMMA OneMore ==
  ASSUME NEW S, IsFiniteSet(S), NEW n \in [S -> Nat], NEW x \in S,
         NEW m \in [S -> Nat], m = [n EXCEPT ![x] = @ + 1]
  PROVE  /\ Cardinality(Numbered(S, n)) \in Nat
         /\ Cardinality(Numbered(S, m)) = Cardinality(Numbered(S, n)) + 1
<1>1. IsFiniteSet(Numbered(S, n))
  BY NumberedIsFinite
<1>2. <<x, n[x] + 1>> \notin Numbered(S, n)
  BY DEF Numbered
<1>3. Numbered(S, m) = Numbered(S, n) \cup {<<x, n[x] + 1>>}
  <2>1. \A k : k \in 1 .. n[x] + 1 <=> k \in 1 .. n[x] \/ k = n[x] + 1
    OBVIOUS
  <2>2. m[x] = n[x] + 1 /\ \A y \in S \ {x} : m[y] = n[y]
    OBVIOUS
  <2>3. \A y, k : <<y, k>> \in Numbered(S, m) <=> y \in S /\ k \in 1 .. m[y]
    BY DEF Numbered
  <2>4. \A y, k : <<y, k>> \in Numbered(S, n) <=> y \in S /\ k \in 1 .. n[y]
    BY DEF Numbered
  <2>5. \A e \in Numbered(S, m) : \E y, k : e = <<y, k>>
    BY DEF Numbered
  <2>6. \A e \in Numbered(S, n) : \E y, k : e = <<y, k>>
    BY DEF Numbered
  <2>7. \A y, k : <<y, k>> \in Numbered(S, m)
                    <=> <<y, k>> \in Numbered(S, n) \/ (y = x /\ k = n[x] + 1)
    BY <2>1, <2>2, <2>3, <2>4
  <2>8. ASSUME NEW e PROVE e \in Numbered(S, m) <=> e \in Numbered(S, n) \/ e = <<x, n[x] + 1>>
    <3>1. CASE \E y, k : e = <<y, k>>
      <4>1. PICK y, k : e = <<y, k>>
        BY <3>1
      <4>2. e = <<x, n[x] + 1>> <=> y = x /\ k = n[x] + 1
        BY <4>1
      <4> QED BY <4>1, <4>2, <2>7
    <3>2. CASE ~ \E y, k : e = <<y, k>>
      BY <3>2, <2>5, <2>6
    <3> QED BY <3>1, <3>2
  <2> QED BY <2>8
<1>4. /\ Cardinality(Numbered(S, n) \cup {<<x, n[x] + 1>>})
           = Cardinality(Numbered(S, n)) + 1
      /\ Cardinality(Numbered(S, n)) \in Nat
  BY <1>1, <1>2, FS_AddElement, FS_CardinalityType
<1> QED BY <1>3, <1>4

\* The terms of Accounted.
Calls == Cardinality(Numbered(Callers, called))
CallsUnderWay == {c \in Callers : UnderWay(c)}
Busy == {w \in Pool : worker[w] = "busy"}
QueueLength == [w \in Pool |-> Len(queue[w])]
Queued == Cardinality(Numbered(Pool, QueueLength))
Processed == Cardinality(Numbered(Pool, processed))

NotStarted ==
  main.pc \in {"new", "start"} => \A w \in Pool : main.at <= w => worker[w] = "none"

AccountInv == Accounted /\ NotStarted

LEMMA AccountedTerms ==
  Accounted <=> Calls = Cardinality(CallsUnderWay) + refused + dropped
                          + Cardinality(Busy) + Queued + Processed
BY DEF Accounted, Calls, CallsUnderWay, UnderWay, Busy, QueueLength, Queued,
       Processed

LEMMA FiniteParts ==
  /\ IsFiniteSet(Pool) /\ IsFiniteSet(CallsUnderWay) /\ IsFiniteSet(Busy)
  /\ Cardinality(CallsUnderWay) \in Nat /\ Cardinality(Busy) \in Nat
<1>1. IsFiniteSet(Pool)
  <2>1. 0 \in Int /\ Workers - 1 \in Int
    BY WorkersAssumption
  <2> QED BY <2>1, FS_Interval DEF Pool
<1>2. IsFiniteSet(CallsUnderWay)
  BY CallersAssumption, FS_Subset DEF CallsUnderWay
<1>3. IsFiniteSet(Busy)
  BY <1>1, FS_Subset DEF Busy
<1> QED BY <1>1, <1>2, <1>3, FS_CardinalityType

LEMMA TermsAreNumbers ==
  ASSUME TypeInv
  PROVE  /\ QueueLength \in [Pool -> Nat]
         /\ processed \in [Pool -> Nat] /\ called \in [Callers -> Nat]
         /\ Calls \in Nat /\ Queued \in Nat /\ Processed \in Nat
         /\ refused \in Nat /\ dropped \in Nat
<1>1. QueueLength \in [Pool -> Nat]
  BY DEF QueueLength, TypeInv
<1>2. /\ processed \in [Pool -> Nat] /\ called \in [Callers -> Nat]
      /\ refused \in Nat /\ dropped \in Nat
  BY QuotaAssumption DEF TypeInv, TypeOK
<1>3. Calls \in Nat
  BY <1>2, CallersAssumption, NumberedIsFinite, FS_CardinalityType DEF Calls
<1>4. Queued \in Nat
  BY <1>1, FiniteParts, NumberedIsFinite, FS_CardinalityType DEF Queued
<1>5. Processed \in Nat
  BY <1>2, FiniteParts, NumberedIsFinite, FS_CardinalityType DEF Processed
<1> QED BY <1>1, <1>2, <1>3, <1>4, <1>5

LEMMA AccountInit == Init => AccountInv
<1> SUFFICES ASSUME Init PROVE AccountInv
  OBVIOUS
<1>1. CallsUnderWay = {} /\ Busy = {} /\ refused = 0 /\ dropped = 0
  BY DEF Init, CallsUnderWay, UnderWay, Busy
<1>2. Numbered(Callers, called) = {}
  <2>1. \A c \in Callers : {c} \X (1 .. called[c]) = {}
    BY DEF Init
  <2> QED BY <2>1 DEF Numbered
<1>3. Numbered(Pool, QueueLength) = {}
  <2>1. \A w \in Pool : {w} \X (1 .. QueueLength[w]) = {}
    BY DEF Init, QueueLength
  <2> QED BY <2>1 DEF Numbered
<1>4. Numbered(Pool, processed) = {}
  <2>1. \A w \in Pool : {w} \X (1 .. processed[w]) = {}
    BY DEF Init
  <2> QED BY <2>1 DEF Numbered
<1>5. Cardinality({}) = 0
  BY FS_EmptySet
<1>6. Accounted
  BY <1>1, <1>2, <1>3, <1>4, <1>5, AccountedTerms DEF Calls, Queued, Processed
<1>7. NotStarted
  BY DEF Init, NotStarted
<1> QED BY <1>6, <1>7 DEF AccountInv

\* What a step leaves alone leaves its term of the balance alone.
LEMMA SameTerms ==
  /\ called' = called => Calls' = Calls
  /\ caller' = caller => CallsUnderWay' = CallsUnderWay
  /\ worker' = worker => Busy' = Busy
  /\ queue' = queue => Queued' = Queued
  /\ processed' = processed => Processed' = Processed
BY DEF Calls, CallsUnderWay, UnderWay, Busy, QueueLength, Queued, Processed

\* A call that begins, comes under way, is no longer under way.
LEMMA CallTerms ==
  ASSUME TypeInv, TypeInv', NEW c \in Callers
  PROVE  /\ called' = [called EXCEPT ![c] = @ + 1] => Calls' = Calls + 1
         /\ \A l \in CallerLabels : Goto(c, l) =>
              /\ UnderWay(c)' /\ ~ UnderWay(c) =>
                   Cardinality(CallsUnderWay') = Cardinality(CallsUnderWay) + 1
              /\ UnderWay(c) /\ ~ UnderWay(c)' =>
                   Cardinality(CallsUnderWay) = Cardinality(CallsUnderWay') + 1
              /\ (UnderWay(c) <=> UnderWay(c)') => CallsUnderWay' = CallsUnderWay
<1>1. ASSUME called' = [called EXCEPT ![c] = @ + 1] PROVE Calls' = Calls + 1
  <2>1. called \in [Callers -> Nat] /\ called' \in [Callers -> Nat]
    BY QuotaAssumption DEF TypeInv, TypeOK
  <2> QED BY <1>1, <2>1, CallersAssumption, OneMore DEF Calls
<1>2. ASSUME NEW l \in CallerLabels, Goto(c, l)
      PROVE  \A d \in Callers \ {c} : UnderWay(d) <=> UnderWay(d)'
  BY <1>2 DEF Goto, UnderWay, TypeInv, TypeOK
<1>3. ASSUME UnderWay(c)', ~ UnderWay(c),
             \A d \in Callers \ {c} : UnderWay(d) <=> UnderWay(d)'
      PROVE  Cardinality(CallsUnderWay') = Cardinality(CallsUnderWay) + 1
  <2>1. c \notin CallsUnderWay /\ CallsUnderWay' = CallsUnderWay \cup {c}
    BY <1>3 DEF CallsUnderWay
  <2> QED BY <2>1, FiniteParts, FS_AddElement
<1>4. ASSUME UnderWay(c), ~ UnderWay(c)',
             \A d \in Callers \ {c} : UnderWay(d) <=> UnderWay(d)'
      PROVE  Cardinality(CallsUnderWay) = Cardinality(CallsUnderWay') + 1
  <2>1. c \in CallsUnderWay /\ CallsUnderWay' = CallsUnderWay \ {c}
    BY <1>4 DEF CallsUnderWay
  <2>2. Cardinality(CallsUnderWay') = Cardinality(CallsUnderWay) - 1
    BY <2>1, FiniteParts, FS_RemoveElement
  <2> QED BY <2>2, FiniteParts
<1>5. ASSUME UnderWay(c) <=> UnderWay(c)',
             \A d \in Callers \ {c} : UnderWay(d) <=> UnderWay(d)'
      PROVE  CallsUnderWay' = CallsUnderWay
  BY <1>5 DEF CallsUnderWay
<1> QED BY <1>1, <1>2, <1>3, <1>4, <1>5

LEMMA OneMoreOfWorker ==
  \A w \in Pool, n, m \in [Pool -> Nat] : m = [n EXCEPT ![w] = @ + 1] =>
    Cardinality(Numbered(Pool, m)) = Cardinality(Numbered(Pool, n)) + 1
BY FiniteParts, OneMore

\* A task that is pushed or taken, a worker that becomes busy or ready.
LEMMA WorkTerms ==
  ASSUME TypeInv, TypeInv', NEW w \in Pool
  PROVE  /\ QueueLength' = [QueueLength EXCEPT ![w] = @ + 1] => Queued' = Queued + 1
         /\ QueueLength = [QueueLength' EXCEPT ![w] = @ + 1] => Queued = Queued' + 1
         /\ processed' = [processed EXCEPT ![w] = @ + 1] => Processed' = Processed + 1
         /\ (\A v \in Pool \ {w} : worker'[v] = "busy" <=> worker[v] = "busy") =>
              /\ worker'[w] = "busy" /\ worker[w] # "busy" =>
                   Cardinality(Busy') = Cardinality(Busy) + 1
              /\ worker[w] = "busy" /\ worker'[w] # "busy" =>
                   Cardinality(Busy) = Cardinality(Busy') + 1
              /\ (worker[w] = "busy" <=> worker'[w] = "busy") => Busy' = Busy
<1>1. /\ QueueLength \in [Pool -> Nat] /\ QueueLength' \in [Pool -> Nat]
      /\ processed \in [Pool -> Nat] /\ processed' \in [Pool -> Nat]
      /\ IsFiniteSet(Pool)
  BY FiniteParts DEF QueueLength, TypeInv, TypeOK
<1>2. ASSUME QueueLength' = [QueueLength EXCEPT ![w] = @ + 1]
      PROVE  Queued' = Queued + 1
  BY <1>1, <1>2, OneMoreOfWorker DEF Queued
<1>3. ASSUME QueueLength = [QueueLength' EXCEPT ![w] = @ + 1]
      PROVE  Queued = Queued' + 1
  BY <1>1, <1>3, OneMoreOfWorker DEF Queued
<1>4. ASSUME processed' = [processed EXCEPT ![w] = @ + 1]
      PROVE  Processed' = Processed + 1
  BY <1>1, <1>4, OneMoreOfWorker DEF Processed
<1>5. ASSUME \A v \in Pool \ {w} : worker'[v] = "busy" <=> worker[v] = "busy"
      PROVE  /\ worker'[w] = "busy" /\ worker[w] # "busy" =>
                  Cardinality(Busy') = Cardinality(Busy) + 1
             /\ worker[w] = "busy" /\ worker'[w] # "busy" =>
                  Cardinality(Busy) = Cardinality(Busy') + 1
             /\ (worker[w] = "busy" <=> worker'[w] = "busy") => Busy' = Busy
  <2>1. ASSUME worker'[w] = "busy", worker[w] # "busy"
        PROVE  Cardinality(Busy') = Cardinality(Busy) + 1
    <3>1. w \notin Busy /\ Busy' = Busy \cup {w}
      BY <1>5, <2>1 DEF Busy
    <3> QED BY <3>1, FiniteParts, FS_AddElement
  <2>2. ASSUME worker[w] = "busy", worker'[w] # "busy"
        PROVE  Cardinality(Busy) = Cardinality(Busy') + 1
    <3>1. w \in Busy /\ Busy' = Busy \ {w}
      BY <1>5, <2>2 DEF Busy
    <3>2. Cardinality(Busy') = Cardinality(Busy) - 1
      BY <3>1, FiniteParts, FS_RemoveElement
    <3> QED BY <3>2, FiniteParts
  <2>3. (worker[w] = "busy" <=> worker'[w] = "busy") => Busy' = Busy
    BY <1>5 DEF Busy
  <2> QED BY <2>1, <2>2, <2>3
<1> QED BY <1>2, <1>3, <1>4, <1>5

LEMMA AccountEnqueue ==
  ASSUME TypeInv, TypeInv', AccountInv, NEW c \in Callers, Enqueue(c)
  PROVE  AccountInv'
<1>0. /\ Calls \in Nat /\ Queued \in Nat /\ Processed \in Nat
      /\ Cardinality(CallsUnderWay) \in Nat /\ Cardinality(Busy) \in Nat
      /\ refused \in Nat /\ dropped \in Nat
      /\ Calls = Cardinality(CallsUnderWay) + refused + dropped
                   + Cardinality(Busy) + Queued + Processed
      /\ Affinity[c] \in Pool /\ worker \in [Pool -> WorkerLabels]
      /\ caller \in [Callers -> CallerLabels]
  BY FiniteParts, TermsAreNumbers, AccountedTerms, AffinityAssumption
     DEF AccountInv, TypeInv, TypeOK, WorkerLabels, CallerLabels
<1>1. /\ Cardinality(CallsUnderWay') \in Nat /\ Processed' = Processed
      /\ Busy' = Busy
  <2>1. processed' = processed
    BY DEF Enqueue, EnqueueRefused, EnqueueBegin, EnqueueState, EnqueueFull,
           EnqueuePush, EnqueueNotify, work
  <2>2. \A w \in Pool : worker'[w] = "busy" <=> worker[w] = "busy"
    BY <1>0 DEF Enqueue, EnqueueRefused, EnqueueBegin, EnqueueState, EnqueueFull,
           EnqueuePush, EnqueueNotify, Notify, work
  <2>3. Busy' = Busy
    BY <2>2 DEF Busy
  <2>4. CallsUnderWay' \subseteq Callers
    BY DEF CallsUnderWay
  <2>5. Cardinality(CallsUnderWay') \in Nat
    BY <2>4, CallersAssumption, FS_Subset, FS_CardinalityType
  <2> QED BY <2>1, <2>3, <2>5, SameTerms
<1>2. NotStarted'
  <2>1. main' = main /\ \A w \in Pool : worker[w] = "none" => worker'[w] = "none"
    BY <1>0 DEF Enqueue, EnqueueRefused, EnqueueBegin, EnqueueState, EnqueueFull,
           EnqueuePush, EnqueueNotify, Notify, work
  <2> QED BY <2>1 DEF AccountInv, NotStarted
<1>3. Calls' = Cardinality(CallsUnderWay') + refused' + dropped'
                 + Cardinality(Busy') + Queued' + Processed'
  <2>1. CASE EnqueueRefused(c)
    <3>1. /\ called' = [called EXCEPT ![c] = @ + 1] /\ refused' = refused + 1
          /\ UNCHANGED <<caller, dropped, queue>>
      BY <2>1 DEF EnqueueRefused, Count, work
    <3>2. Calls' = Calls + 1
      BY <3>1, CallTerms
    <3> QED BY <1>0, <1>1, <3>1, <3>2, SameTerms
  <2>2. CASE EnqueueBegin(c)
    <3>1. /\ called' = [called EXCEPT ![c] = @ + 1]
          /\ Goto(c, "state") /\ UNCHANGED <<refused, dropped, queue>>
          /\ ~ UnderWay(c) /\ UnderWay(c)'
      BY <1>0, <2>2 DEF EnqueueBegin, work, Goto, UnderWay
    <3>2. "state" \in CallerLabels
      BY DEF CallerLabels
    <3>3. Calls' = Calls + 1
      BY <3>1, CallTerms
    <3>4. Cardinality(CallsUnderWay') = Cardinality(CallsUnderWay) + 1
      BY <3>1, <3>2, CallTerms
    <3> QED BY <1>0, <1>1, <3>1, <3>3, <3>4, SameTerms
  <2>3. CASE EnqueueState(c) \/ EnqueueFull(c)
    <3>1. CASE /\ dropped' = dropped + 1 /\ Goto(c, "idle")
               /\ UNCHANGED <<refused, called, queue>>
      <4>1. "idle" \in CallerLabels /\ UnderWay(c) /\ ~ UnderWay(c)'
        BY <1>0, <2>3, <3>1 DEF EnqueueState, EnqueueFull, Goto, UnderWay, CallerLabels
      <4>2. Cardinality(CallsUnderWay) = Cardinality(CallsUnderWay') + 1
        BY <3>1, <4>1, CallTerms
      <4> QED BY <1>0, <1>1, <3>1, <4>2, SameTerms
    <3>2. CASE Goto(c, "lock") /\ UNCHANGED <<dropped, refused, called, queue>>
      <4>1. "lock" \in CallerLabels /\ UnderWay(c) /\ UnderWay(c)'
        BY <1>0, <2>3, <3>2 DEF EnqueueState, EnqueueFull, Goto, UnderWay, CallerLabels
      <4>2. CallsUnderWay = CallsUnderWay'
        BY <3>2, <4>1, CallTerms
      <4> QED BY <1>0, <1>1, <3>2, <4>2, SameTerms
    <3> QED BY <2>3, <3>1, <3>2 DEF EnqueueState, EnqueueFull, Count, work
  <2>4. CASE EnqueuePush(c)
    <3>1. /\ Goto(c, "notify") /\ UNCHANGED <<dropped, refused, called>>
          /\ "notify" \in CallerLabels /\ UnderWay(c) /\ ~ UnderWay(c)'
      BY <1>0, <2>4 DEF EnqueuePush, Goto, UnderWay, CallerLabels
    <3>2. Cardinality(CallsUnderWay) = Cardinality(CallsUnderWay') + 1
      BY <3>1, CallTerms
    <3>3. QueueLength' = [QueueLength EXCEPT ![Affinity[c]] = @ + 1]
      <4>1. queue \in [Pool -> Seq(Task)]
        BY DEF TypeInv
      <4>2. PICK q \in Seq(Task), e \in Task :
              /\ q = queue[Affinity[c]] /\ queue'[Affinity[c]] = Append(q, e)
              /\ \A w \in Pool \ {Affinity[c]} : queue'[w] = queue[w]
        <5>1. <<c, called[c]>> \in Task
          BY <3>1 DEF TypeInv, Task, UnderWay
        <5> QED BY <1>0, <2>4, <4>1, <5>1 DEF EnqueuePush
      <4>3. Len(queue'[Affinity[c]]) = Len(queue[Affinity[c]]) + 1
        BY <4>2
      <4> QED BY <1>0, <4>2, <4>3 DEF QueueLength
    <3>4. Queued' = Queued + 1
      BY <1>0, <3>3, WorkTerms
    <3> QED BY <1>0, <1>1, <3>1, <3>2, <3>4, SameTerms
  <2>5. CASE EnqueueNotify(c)
    <3>1. /\ Goto(c, "idle") /\ UNCHANGED <<dropped, refused, called, queue>>
          /\ "idle" \in CallerLabels /\ ~ UnderWay(c) /\ ~ UnderWay(c)'
      BY <1>0, <2>5 DEF EnqueueNotify, Goto, UnderWay, CallerLabels
    <3>2. CallsUnderWay = CallsUnderWay'
      BY <3>1, CallTerms
    <3> QED BY <1>0, <1>1, <3>1, <3>2, SameTerms
  <2> QED BY <2>1, <2>2, <2>3, <2>4, <2>5 DEF Enqueue
<1>4. Accounted'
  BY <1>3 DEF Accounted, Calls, CallsUnderWay, UnderWay, Busy, QueueLength, Queued,
              Processed
<1> QED BY <1>2, <1>4 DEF AccountInv

LEMMA AccountWorker ==
  ASSUME TypeInv, TypeInv', AccountInv, NEW w \in Pool,
         WorkerLoop(w) \/ SpuriousWake(w)
  PROVE  AccountInv'
<1>0. /\ Calls \in Nat /\ Queued \in Nat /\ Processed \in Nat
      /\ Cardinality(CallsUnderWay) \in Nat /\ Cardinality(Busy) \in Nat
      /\ refused \in Nat /\ dropped \in Nat
      /\ Calls = Cardinality(CallsUnderWay) + refused + dropped
                   + Cardinality(Busy) + Queued + Processed
      /\ worker \in [Pool -> WorkerLabels] /\ processed \in [Pool -> Nat]
      /\ queue \in [Pool -> Seq(Task)]
  BY FiniteParts, TermsAreNumbers, AccountedTerms
     DEF AccountInv, TypeInv, TypeOK, WorkerLabels
<1>1. /\ UNCHANGED <<main, caller, called, refused, dropped>>
      /\ Calls' = Calls /\ CallsUnderWay' = CallsUnderWay
  <2>1. UNCHANGED <<main, caller, called, refused, dropped>>
    BY DEF WorkerLoop, WorkerSleep, WorkerExit, WorkerTake, WorkerDone,
           SpuriousWake, calls
  <2> QED BY <2>1, SameTerms
<1>2. \A v \in Pool \ {w} : worker'[v] = worker[v]
  BY <1>0 DEF WorkerLoop, WorkerSleep, WorkerExit, WorkerTake, WorkerDone,
              SpuriousWake, Notify
<1>3. NotStarted'
  <2>1. worker[w] # "none"
    BY DEF WorkerLoop, WorkerSleep, WorkerExit, WorkerTake, WorkerDone, SpuriousWake
  <2> QED BY <1>1, <1>2, <2>1 DEF AccountInv, NotStarted
<1>4. QueueLength' \in [Pool -> Nat] /\ Cardinality(Busy') \in Nat
  <2>1. Busy' \subseteq Pool
    BY DEF Busy
  <2> QED BY <2>1, FiniteParts, FS_Subset, FS_CardinalityType, TermsAreNumbers
             DEF QueueLength, TypeInv
<1>5. Cardinality(Busy') + Queued' + Processed'
        = Cardinality(Busy) + Queued + Processed
  <2>1. CASE WorkerSleep(w) \/ WorkerExit(w) \/ SpuriousWake(w)
    <3>1. UNCHANGED <<queue, processed>> /\ worker[w] # "busy" /\ worker'[w] # "busy"
      BY <1>0, <2>1 DEF WorkerSleep, WorkerExit, SpuriousWake, Notify
    <3>2. Busy' = Busy
      BY <1>2, <3>1 DEF Busy
    <3> QED BY <3>1, <3>2, SameTerms
  <2>2. CASE WorkerTake(w)
    <3>1. processed' = processed /\ worker[w] # "busy" /\ worker'[w] = "busy"
      BY <1>0, <2>2 DEF WorkerTake
    <3>2. Cardinality(Busy') = Cardinality(Busy) + 1
      BY <1>2, <3>1, WorkTerms
    <3>3. QueueLength = [QueueLength' EXCEPT ![w] = @ + 1]
      <4>1. PICK q \in Seq(Task) :
              /\ q = queue[w] /\ q # <<>> /\ queue'[w] = Tail(q)
              /\ \A v \in Pool \ {w} : queue'[v] = queue[v]
        BY <1>0, <2>2 DEF WorkerTake
      <4>2. Len(queue[w]) = Len(queue'[w]) + 1
        BY <4>1
      <4> QED BY <4>1, <4>2 DEF QueueLength
    <3>4. Queued = Queued' + 1
      BY <3>3, WorkTerms
    <3>5. Queued' \in Nat
      BY TermsAreNumbers, FiniteParts, NumberedIsFinite, FS_CardinalityType, <1>4
         DEF Queued
    <3> QED BY <1>0, <3>1, <3>2, <3>4, <3>5, SameTerms
  <2>3. CASE WorkerDone(w)
    <3>1. /\ queue' = queue /\ worker[w] = "busy" /\ worker'[w] # "busy"
          /\ processed' = [processed EXCEPT ![w] = @ + 1]
      BY <1>0, <2>3 DEF WorkerDone
    <3>2. Cardinality(Busy) = Cardinality(Busy') + 1
      BY <1>2, <3>1, WorkTerms
    <3>3. Processed' = Processed + 1
      BY <3>1, WorkTerms
    <3> QED BY <1>0, <1>4, <3>1, <3>2, <3>3, SameTerms
  <2> QED BY <2>1, <2>2, <2>3 DEF WorkerLoop
<1>6. Queued' \in Nat /\ Processed' \in Nat
  <2>1. processed' \in [Pool -> Nat]
    BY DEF TypeInv, TypeOK
  <2> QED BY <1>4, <2>1, FiniteParts, NumberedIsFinite, FS_CardinalityType
             DEF Queued, Processed
<1>7. Calls' = Cardinality(CallsUnderWay') + refused' + dropped'
                 + Cardinality(Busy') + Queued' + Processed'
  <2>1. /\ Cardinality(CallsUnderWay') = Cardinality(CallsUnderWay)
        /\ refused' = refused /\ dropped' = dropped /\ Calls' = Calls
    BY <1>1
  <2>2. Calls' = Cardinality(CallsUnderWay') + refused' + dropped'
                   + (Cardinality(Busy) + Queued + Processed)
    BY <1>0, <2>1
  <2>3. \A a, b, c, x, y, z \in Nat : a + b + c + (x + y + z) = a + b + c + x + y + z
    OBVIOUS
  <2>4. Calls' = Cardinality(CallsUnderWay') + refused' + dropped'
                   + (Cardinality(Busy') + Queued' + Processed')
    BY <1>5, <2>2
  <2>5. Cardinality(CallsUnderWay') \in Nat /\ refused' \in Nat /\ dropped' \in Nat
    BY <1>0, <2>1
  <2>6. Cardinality(Busy') \in Nat /\ Queued' \in Nat /\ Processed' \in Nat
    BY <1>4, <1>6
  <2> QED BY <2>3, <2>4, <2>5, <2>6
<1>8. Accounted'
  BY <1>7 DEF Accounted, Calls, CallsUnderWay, UnderWay, Busy, QueueLength, Queued,
              Processed
<1> QED BY <1>3, <1>8 DEF AccountInv

LEMMA AccountMain ==
  ASSUME TypeInv, AccountInv, Main
  PROVE  AccountInv'
<1>0. /\ main.at \in Pool /\ main.at \in Nat /\ Pool \subseteq Nat
      /\ worker \in [Pool -> WorkerLabels]
  BY PoolFacts DEF TypeInv, TypeOK, WorkerLabels
<1>1. UNCHANGED <<queue, processed, caller, called, refused, dropped>>
  BY DEF Main, StartWorker, Shutdown, FlagWorker, NotifyWorker, JoinWorker,
         work, calls
<1>2. \A w \in Pool : worker'[w] = "busy" <=> worker[w] = "busy"
  <2>1. CASE StartWorker
    <3>1. worker[main.at] = "none"
      BY <1>0, <2>1 DEF StartWorker, AccountInv, NotStarted
    <3> QED BY <1>0, <2>1, <3>1 DEF StartWorker
  <2>2. CASE ~ StartWorker
    BY <1>0, <2>2 DEF Main, Shutdown, FlagWorker, NotifyWorker, JoinWorker, Notify,
                      work
  <2> QED BY <2>1, <2>2
<1>3. Busy' = Busy
  BY <1>2 DEF Busy
<1>4. Accounted'
  BY <1>1, <1>3 DEF AccountInv, Accounted, Busy
<1>5. NotStarted'
  <2>1. CASE StartWorker
    <3>1. ASSUME main'.pc \in {"new", "start"}, NEW w \in Pool, main'.at <= w
          PROVE  worker'[w] = "none"
      <4>1. main'.at = main.at + 1
        BY <2>1, <3>1 DEF StartWorker, NextWorker
      <4>2. w # main.at /\ main.at <= w
        BY <1>0, <3>1, <4>1
      <4> QED BY <1>0, <2>1, <4>2 DEF StartWorker, AccountInv, NotStarted
    <3> QED BY <3>1 DEF NotStarted
  <2>2. CASE ~ StartWorker
    <3>1. main'.pc \notin {"new", "start"}
      BY <2>2 DEF Main, Shutdown, FlagWorker, NotifyWorker, JoinWorker, NextWorker,
                  TypeInv, TypeOK
    <3> QED BY <3>1 DEF NotStarted
  <2> QED BY <2>1, <2>2
<1> QED BY <1>4, <1>5 DEF AccountInv

LEMMA AccountStep == TypeInv /\ TypeInv' /\ AccountInv /\ [Next]_vars => AccountInv'
<1> SUFFICES ASSUME TypeInv, TypeInv', AccountInv, [Next]_vars PROVE AccountInv'
  OBVIOUS
<1>1. CASE SetRunningState \/ UNCHANGED vars
  <2>1. UNCHANGED <<main, queue, worker, processed, caller, called, refused, dropped>>
    BY <1>1 DEF SetRunningState, vars, work, calls
  <2> QED BY <2>1 DEF AccountInv, Accounted, NotStarted
<1>2. ASSUME NEW c \in Callers, Enqueue(c) PROVE AccountInv'
  BY <1>2, AccountEnqueue
<1>3. ASSUME NEW w \in Pool, WorkerLoop(w) \/ SpuriousWake(w) PROVE AccountInv'
  BY <1>3, AccountWorker
<1>4. CASE Main
  BY <1>4, AccountMain
<1> QED BY <1>1, <1>2, <1>3, <1>4 DEF Next

\* No call is lost or counted twice: each has exactly one outcome, whatever
\* the studio and the shutdown do meanwhile.
THEOREM EveryCallAccounted == Spec => []Accounted
<1>1. AccountInv => Accounted
  BY DEF AccountInv
<1> QED BY TypeInit, TypeStep, AccountInit, AccountStep, <1>1, PTL DEF Spec
=============================================================================
