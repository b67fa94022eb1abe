------------------------ MODULE ServiceManagerProofs ------------------------
(***************************************************************************)
(* A call of fins::ServiceManager that waits for its answer is in the      *)
(* queue or in the worker's hands, exactly once, and the worker never      *)
(* sleeps on it: for any clients, topics and handlers.  The two properties *)
(* are inductive with the types and with what the control of a thread      *)
(* says of its promise and of the mutex.                                   *)
(***************************************************************************)
EXTENDS ServiceManager, TLAPS

ClientLabels == {"idle", "notify", "get"}
WorkerLabels == {"loop", "lock", "decided", "asleep", "lookup", "handle",
                 "notify", "get", "return", "ended"}

\* The types the argument needs.
Types ==
  /\ queue \in Seq(Task)
  /\ HasTask => task \in Task
  /\ lock \in {None, Worker}
  /\ pc \in [Threads -> ClientLabels \cup WorkerLabels]
  /\ \A c \in Clients : pc[c] \in ClientLabels
  /\ pc[Worker] \in WorkerLabels
  /\ answer \in [Threads -> {"none", "pending", "value", "error", "broken"}]

\* A thread that is not inside a call has no promise, and a worker that has
\* decided to sleep holds the mutex, so that the queue stays empty.
Control ==
  /\ \A c \in Clients : pc[c] = "idle" => answer[c] = "none"
  /\ pc[Worker] \notin {"notify", "get"} => answer[Worker] = "none"
  /\ pc[Worker] = "decided" => lock = Worker /\ queue = <<>>

CallInv == Types /\ Control /\ CallsInHand /\ NoSleepOnCall

-----------------------------------------------------------------------------
(* The queue *)

\* A call that is appended is queued besides those that were.
LEMMA Appended ==
  ASSUME queue \in Seq(Task), NEW m \in Task, queue' = Append(queue, m)
  PROVE  /\ queue' \in Seq(Task)
         /\ DOMAIN queue' = DOMAIN queue \cup {Len(queue) + 1}
         /\ Len(queue) + 1 \notin DOMAIN queue
         /\ \A i \in DOMAIN queue : queue'[i] = queue[i]
         /\ queue'[Len(queue) + 1] = m
         /\ \A c : Queued(c)' <=> Queued(c) \/ m.from = c
<1>1. /\ queue' \in Seq(Task) /\ Len(queue) \in Nat
      /\ DOMAIN queue = 1 .. Len(queue) /\ DOMAIN queue' = 1 .. Len(queue) + 1
      /\ \A i \in 1 .. Len(queue) : queue'[i] = queue[i]
      /\ queue'[Len(queue) + 1] = m
  OBVIOUS
<1>2. /\ DOMAIN queue' = DOMAIN queue \cup {Len(queue) + 1}
      /\ Len(queue) + 1 \notin DOMAIN queue
  BY <1>1
<1> QED BY <1>1, <1>2 DEF Queued

\* When the first call is taken the others stay queued.
LEMMA Taken ==
  ASSUME queue \in Seq(Task), queue # <<>>, queue' = Tail(queue)
  PROVE  /\ queue' \in Seq(Task)
         /\ Head(queue) \in Task /\ Head(queue) = queue[1] /\ 1 \in DOMAIN queue
         /\ \A i \in DOMAIN queue' : /\ i + 1 \in DOMAIN queue /\ i + 1 # 1
                                     /\ queue'[i] = queue[i + 1]
         /\ \A i \in DOMAIN queue : i = 1 \/ \E j \in DOMAIN queue' : i = j + 1
<1>1. /\ queue' \in Seq(Task) /\ Len(queue) \in Nat /\ Len(queue) > 0
      /\ Head(queue) = queue[1] /\ Head(queue) \in Task
      /\ DOMAIN queue = 1 .. Len(queue) /\ DOMAIN queue' = 1 .. Len(queue) - 1
      /\ \A i \in 1 .. Len(queue) - 1 : queue'[i] = queue[i + 1]
  OBVIOUS
<1>2. ASSUME NEW i \in DOMAIN queue, i # 1
      PROVE  \E j \in DOMAIN queue' : i = j + 1
  <2>1. i - 1 \in DOMAIN queue' /\ i = (i - 1) + 1
    BY <1>1, <1>2
  <2> QED BY <2>1
<1> QED BY <1>1, <1>2

-----------------------------------------------------------------------------
LEMMA CallInit == Init => CallInv
<1> SUFFICES ASSUME Init PROVE CallInv
  OBVIOUS
<1>1. pc[Worker] = "loop" /\ (\A c \in Clients : pc[c] = "idle")
  BY ThreadsAssumption DEF Init, Threads
<1>2. Types
  BY <1>1, ThreadsAssumption
  DEF Init, Types, HasTask, Threads, ClientLabels, WorkerLabels
<1>3. Control
  BY <1>1, ThreadsAssumption DEF Init, Control, Threads
<1>4. DOMAIN queue = {}
  BY DEF Init
<1>5. CallsInHand
  BY <1>1, <1>4 DEF Init, CallsInHand, Queued, Served, HasTask
<1>6. NoSleepOnCall
  BY <1>1 DEF NoSleepOnCall
<1> QED BY <1>2, <1>3, <1>5, <1>6 DEF CallInv

LEMMA RefusedStep ==
  ASSUME CallInv, NEW c \in Threads, CallRefused(c)
  PROVE  CallInv'
<1> USE DEF CallInv
<1>1. \/ c \in Clients /\ c # Worker /\ pc[c] = "idle"
      \/ c = Worker /\ pc[c] = "handle"
  BY ThreadsAssumption DEF CallRefused, MayCall
<1>2. /\ pc' = [pc EXCEPT ![c] = "get"]
      /\ answer' = [answer EXCEPT ![c] = "error"]
      /\ UNCHANGED <<queue, lock, task>>
  BY DEF CallRefused, Goto
<1>3. HasTask' <=> HasTask
  BY <1>1, <1>2 DEF HasTask, Types, Threads
<1>4. Types'
  BY <1>1, <1>2, <1>3 DEF Types, Threads, ClientLabels, WorkerLabels
<1>5. Control'
  BY <1>1, <1>2 DEF Types, Control, Threads
<1>6. answer[c] = "none"
  BY <1>1 DEF Control
<1>7. \A d \in Threads : (Queued(d)' <=> Queued(d)) /\ (Served(d)' <=> Served(d))
  BY <1>2, <1>3 DEF Queued, Served
<1>8. CallsInHand'
  BY <1>2, <1>6, <1>7 DEF CallsInHand, Types
<1>9. NoSleepOnCall'
  BY <1>1, <1>2 DEF NoSleepOnCall, Types, Threads
<1> QED BY <1>4, <1>5, <1>8, <1>9

LEMMA CallStep ==
  ASSUME CallInv, NEW c \in Threads, NEW t \in Topics, NEW g \in Signatures,
         Call(c, t, g)
  PROVE  CallInv'
<1> USE DEF CallInv
<1> DEFINE m == [from |-> c, topic |-> t, signature |-> g]
<1>1. \/ c \in Clients /\ c # Worker /\ pc[c] = "idle"
      \/ c = Worker /\ pc[c] = "handle"
  BY ThreadsAssumption DEF Call, MayCall
<1>2. /\ pc' = [pc EXCEPT ![c] = "notify"]
      /\ answer' = [answer EXCEPT ![c] = "pending"]
      /\ lock = None
      /\ UNCHANGED <<lock, task>>
  BY DEF Call, Goto
<1>3. HasTask' <=> HasTask
  BY <1>1, <1>2 DEF HasTask, Types, Threads
<1>4. m \in Task /\ m.from = c /\ queue' = Append(queue, m)
  BY DEF Call, Task
<1>5. /\ queue' \in Seq(Task)
      /\ DOMAIN queue' = DOMAIN queue \cup {Len(queue) + 1}
      /\ \A i \in DOMAIN queue : queue'[i] = queue[i]
      /\ queue'[Len(queue) + 1].from = c
      /\ \A d : Queued(d)' <=> Queued(d) \/ d = c
  BY <1>4, Appended DEF Types
<1> HIDE DEF m
<1>6. Types'
  BY <1>1, <1>2, <1>3, <1>5 DEF Types, Threads, ClientLabels, WorkerLabels
<1>7. Control'
  BY <1>1, <1>2, ThreadsAssumption DEF Types, Control, Threads
<1>8. answer[c] = "none"
  BY <1>1 DEF Control
<1>9. ~ Queued(c) /\ ~ Served(c)
  BY <1>8 DEF CallsInHand
<1>10. \A d \in Threads : Served(d)' <=> Served(d)
  BY <1>2, <1>3 DEF Served
<1>11. CallsInHand'
  <2>1. \A d \in Threads : (answer[d] = "pending")' <=> (Queued(d) \/ Served(d))'
    BY <1>2, <1>5, <1>9, <1>10 DEF CallsInHand, Types
  <2>2. \A d \in Threads : ~ (Queued(d) /\ Served(d))'
    BY <1>5, <1>9, <1>10 DEF CallsInHand
  <2>3. \A i, j \in DOMAIN queue' : queue'[i].from = queue'[j].from => i = j
    BY <1>5, <1>9 DEF CallsInHand, Queued
  <2> QED BY <2>1, <2>2, <2>3 DEF CallsInHand
<1>12. NoSleepOnCall'
  <2>1. CASE c = Worker
    BY <2>1, <1>1, <1>2 DEF NoSleepOnCall, Types, Threads
  <2>2. CASE c \in Clients
    BY <2>2, <1>2 DEF NoSleepOnCall, Types, Threads
  <2> QED BY <2>1, <2>2, <1>1
<1> QED BY <1>6, <1>7, <1>11, <1>12

LEMMA NotifyStep ==
  ASSUME CallInv, NEW c \in Threads, CallNotify(c)
  PROVE  CallInv'
<1> USE DEF CallInv
<1>1. /\ pc' = [pc EXCEPT ![c] = "get",
                         ![Worker] = IF @ = "asleep" THEN "lock" ELSE @]
      /\ pc[c] = "notify"
      /\ UNCHANGED <<queue, lock, task, answer>>
  BY DEF CallNotify, NotifyAndGoto
<1>2. HasTask' <=> HasTask
  BY <1>1 DEF HasTask, Types, Threads
<1>3. Types'
  BY <1>1, <1>2 DEF Types, Threads, ClientLabels, WorkerLabels
<1>4. Control'
  BY <1>1 DEF Types, Control, Threads
<1>5. CallsInHand'
  BY <1>1, <1>2 DEF CallsInHand, Queued, Served
<1>6. NoSleepOnCall'
  <2>1. pc'[Worker] # "asleep"
    BY <1>1, ThreadsAssumption DEF Types, Threads
  <2>2. pc'[Worker] = "decided" => queue' = <<>>
    BY <1>1, ThreadsAssumption DEF Control, Types, Threads
  <2> QED BY <2>1, <2>2 DEF NoSleepOnCall
<1> QED BY <1>3, <1>4, <1>5, <1>6

LEMMA GetStep ==
  ASSUME CallInv, NEW c \in Threads, Get(c)
  PROVE  CallInv'
<1> USE DEF CallInv
<1>1. /\ pc' = [pc EXCEPT ![c] = IF c = Worker THEN "return" ELSE "idle"]
      /\ answer' = [answer EXCEPT ![c] = "none"]
      /\ pc[c] = "get" /\ answer[c] # "pending"
      /\ UNCHANGED <<queue, lock, task>>
  BY DEF Get, Goto
<1>2. HasTask' <=> HasTask
  BY <1>1 DEF HasTask, Types, Threads
<1>3. Types'
  <2>1. /\ \A d \in Clients : pc'[d] \in {pc[d], "idle"}
        /\ pc'[Worker] \in {pc[Worker], "return"}
    BY <1>1, ThreadsAssumption DEF Types, Threads
  <2>2. /\ pc' \in [Threads -> ClientLabels \cup WorkerLabels]
        /\ answer' \in [Threads -> {"none", "pending", "value", "error", "broken"}]
    BY <1>1 DEF Types, ClientLabels, WorkerLabels
  <2> QED BY <2>1, <2>2, <1>1, <1>2 DEF Types, ClientLabels, WorkerLabels
<1>4. Control'
  <2>1. CASE c = Worker
    BY <2>1, <1>1, ThreadsAssumption DEF Types, Control, Threads
  <2>2. CASE c \in Clients
    <3>1. pc'[Worker] = pc[Worker] /\ answer'[Worker] = answer[Worker]
      BY <2>2, <1>1, ThreadsAssumption DEF Types, Threads
    <3> QED BY <2>2, <3>1, <1>1 DEF Types, Control, Threads
  <2> QED BY <2>1, <2>2 DEF Threads
<1>5. CallsInHand'
  BY <1>1, <1>2 DEF CallsInHand, Queued, Served, Types
<1>6. NoSleepOnCall'
  <2>1. \A d \in Clients : pc[d] = "notify" => pc'[d] = "notify"
    BY <1>1 DEF Types, Threads
  <2>2. pc'[Worker] \in {"decided", "asleep"} => pc'[Worker] = pc[Worker]
    BY <1>1 DEF Types, Threads
  <2> QED BY <2>1, <2>2, <1>1 DEF NoSleepOnCall
<1> QED BY <1>3, <1>4, <1>5, <1>6

\* A step of the worker that neither takes nor answers a call.
LEMMA IdleStep ==
  ASSUME CallInv,
         WorkerLoop \/ WorkerTest \/ WorkerSleep \/ WorkerExit \/ SpuriousWake
  PROVE  CallInv'
<1> USE DEF CallInv
<1>1. /\ ~ HasTask
      /\ UNCHANGED <<queue, task, answer>>
      /\ pc[Worker] \notin {"notify", "get"}
      /\ \E l \in {"loop", "lock", "decided", "asleep", "ended"} :
           pc' = [pc EXCEPT ![Worker] = l]
  BY DEF HasTask, WorkerLoop, WorkerTest, WorkerSleep, WorkerExit, SpuriousWake, Goto
<1>2. ~ HasTask' /\ pc'[Worker] \in {"loop", "lock", "decided", "asleep", "ended"}
  BY <1>1 DEF HasTask, Types, Threads
<1>3. lock' \in {None, Worker}
  BY DEF WorkerLoop, WorkerTest, WorkerSleep, WorkerExit, SpuriousWake, Types
<1>4. Types'
  BY <1>1, <1>2, <1>3, ThreadsAssumption DEF Types, Threads, ClientLabels, WorkerLabels
<1>5. pc'[Worker] = "decided" => lock' = Worker /\ queue' = <<>>
  BY DEF WorkerLoop, WorkerTest, WorkerSleep, WorkerExit, SpuriousWake, Goto, Types,
         Threads
<1>6. Control'
  BY <1>1, <1>2, <1>5, ThreadsAssumption DEF Types, Control, Threads
<1>7. CallsInHand'
  BY <1>1, <1>2 DEF CallsInHand, Queued, Served
<1>8. NoSleepOnCall'
  <2>1. pc'[Worker] = "asleep" => pc[Worker] = "decided"
    BY DEF WorkerLoop, WorkerTest, WorkerSleep, WorkerExit, SpuriousWake, Goto, Types,
           Threads
  <2> QED BY <2>1, <1>1, <1>5, ThreadsAssumption DEF NoSleepOnCall, Types, Threads
<1> QED BY <1>4, <1>6, <1>7, <1>8

LEMMA TakeStep ==
  ASSUME CallInv, WorkerTake
  PROVE  CallInv'
<1> USE DEF CallInv
<1>1. /\ pc[Worker] = "lock" /\ pc' = [pc EXCEPT ![Worker] = "lookup"]
      /\ queue # <<>> /\ queue' = Tail(queue) /\ task' = Head(queue)
      /\ UNCHANGED <<lock, answer>>
  BY DEF WorkerTake, Goto
<1>2. ~ HasTask /\ HasTask' /\ pc'[Worker] = "lookup"
  BY <1>1 DEF HasTask, Types, Threads
<1>3. /\ queue' \in Seq(Task)
      /\ task' \in Task /\ task' = queue[1] /\ 1 \in DOMAIN queue
      /\ \A i \in DOMAIN queue' : /\ i + 1 \in DOMAIN queue /\ i + 1 # 1
                                  /\ queue'[i] = queue[i + 1]
      /\ \A i \in DOMAIN queue : i = 1 \/ \E j \in DOMAIN queue' : i = j + 1
  BY <1>1, Taken DEF Types
<1>4. Types'
  BY <1>1, <1>2, <1>3, ThreadsAssumption DEF Types, Threads, ClientLabels, WorkerLabels
<1>5. Control'
  BY <1>1, <1>2, ThreadsAssumption DEF Types, Control, Threads
<1>6. \A d \in Threads : Queued(d) <=> Queued(d)' \/ Served(d)'
  BY <1>2, <1>3 DEF Queued, Served
<1>7. CallsInHand'
  <2>1. \A d \in Threads : (answer[d] = "pending")' <=> (Queued(d) \/ Served(d))'
    BY <1>1, <1>2, <1>6 DEF CallsInHand, Served
  <2>2. ASSUME NEW d \in Threads, Queued(d)', Served(d)'
        PROVE  FALSE
    <3>1. PICK i \in DOMAIN queue' : queue'[i].from = d
      BY <2>2 DEF Queued
    <3>2. queue[i + 1].from = queue[1].from
      BY <2>2, <3>1, <1>3 DEF Served
    <3> QED BY <3>1, <3>2, <1>3 DEF CallsInHand
  <2>3. ASSUME NEW i \in DOMAIN queue', NEW j \in DOMAIN queue',
               queue'[i].from = queue'[j].from
        PROVE  i = j
    <3>1. i + 1 = j + 1
      BY <2>3, <1>3 DEF CallsInHand
    <3>2. i \in Nat /\ j \in Nat
      BY <1>3
    <3> QED BY <3>1, <3>2
  <2> QED BY <2>1, <2>2, <2>3 DEF CallsInHand
<1>8. NoSleepOnCall'
  BY <1>2 DEF NoSleepOnCall
<1> QED BY <1>4, <1>5, <1>7, <1>8

LEMMA AnswerStep ==
  ASSUME CallInv, NEW result \in {"value", "error"},
         pc[Worker] \in {"lookup", "handle", "return"}, Answer(result)
  PROVE  CallInv'
<1> USE DEF CallInv
<1>1. /\ pc' = [pc EXCEPT ![Worker] = "loop"]
      /\ answer' = [answer EXCEPT ![task.from] = result]
      /\ UNCHANGED <<queue, lock>>
  BY DEF Answer, Goto
<1>2. HasTask /\ ~ HasTask' /\ pc'[Worker] = "loop"
  BY <1>1 DEF HasTask, Types, Threads
<1>3. task.from \in Threads
  BY <1>2 DEF Types, Task
<1>4. Served(task.from) /\ ~ Queued(task.from) /\ answer[task.from] = "pending"
  BY <1>2, <1>3 DEF Served, CallsInHand
<1>5. task.from # Worker
  BY <1>4 DEF Control
<1>6. task.from \in Clients /\ pc[task.from] # "idle"
  BY <1>3, <1>4, <1>5 DEF Control, Threads
<1>7. Types'
  BY <1>1, <1>2, ThreadsAssumption DEF Types, Threads, ClientLabels, WorkerLabels
<1>8. Control'
  BY <1>1, <1>2, <1>5, <1>6, ThreadsAssumption DEF Types, Control, Threads
<1>9. \A d \in Threads : /\ Queued(d)' <=> Queued(d)
                         /\ ~ Served(d)'
                         /\ Served(d) <=> d = task.from
  BY <1>1, <1>2 DEF Queued, Served
<1>10. CallsInHand'
  <2>1. \A d \in Threads : (answer[d] = "pending")' <=> (Queued(d) \/ Served(d))'
    BY <1>1, <1>4, <1>9 DEF CallsInHand, Types
  <2> QED BY <2>1, <1>1, <1>9 DEF CallsInHand
<1>11. NoSleepOnCall'
  BY <1>2 DEF NoSleepOnCall
<1> QED BY <1>7, <1>8, <1>10, <1>11

\* The worker finds the server of its task and calls it.
LEMMA HandleStep ==
  ASSUME CallInv, pc[Worker] = "lookup", pc' = [pc EXCEPT ![Worker] = "handle"],
         UNCHANGED <<queue, lock, task, answer>>
  PROVE  CallInv'
<1> USE DEF CallInv
<1>1. HasTask /\ HasTask' /\ pc'[Worker] = "handle"
  BY DEF HasTask, Types, Threads
<1>2. Types'
  BY <1>1, ThreadsAssumption DEF Types, Threads, ClientLabels, WorkerLabels
<1>3. Control'
  BY <1>1, ThreadsAssumption DEF Types, Control, Threads
<1>4. CallsInHand'
  BY <1>1 DEF CallsInHand, Queued, Served
<1>5. NoSleepOnCall'
  BY <1>1 DEF NoSleepOnCall
<1> QED BY <1>2, <1>3, <1>4, <1>5

LEMMA MainStep ==
  ASSUME CallInv, Main
  PROVE  CallInv'
<1> USE DEF CallInv
<1>1. CASE StopFlag
  BY <1>1 DEF StopFlag, Types, HasTask, Control, CallsInHand, Queued, Served,
              NoSleepOnCall
<1>2. CASE StopNotify
  <2>1. /\ pc' = [pc EXCEPT ![Worker] = IF @ = "asleep" THEN "lock" ELSE @]
        /\ UNCHANGED <<queue, lock, task, answer>>
    BY <1>2 DEF StopNotify, NotifyAndGoto, Types, Threads
  <2>2. HasTask' <=> HasTask
    BY <2>1 DEF HasTask, Types, Threads
  <2>3. Types'
    BY <2>1, <2>2, ThreadsAssumption DEF Types, Threads, ClientLabels, WorkerLabels
  <2>4. Control'
    BY <2>1, ThreadsAssumption DEF Types, Control, Threads
  <2>5. CallsInHand'
    BY <2>1, <2>2 DEF CallsInHand, Queued, Served
  <2>6. NoSleepOnCall'
    BY <2>1, ThreadsAssumption DEF NoSleepOnCall, Types, Threads
  <2> QED BY <2>3, <2>4, <2>5, <2>6
<1>3. CASE StopJoin
  <2>1. /\ pc[Worker] = "ended" /\ queue' = <<>>
        /\ answer' = [d \in Threads |-> IF Queued(d) THEN "broken" ELSE answer[d]]
        /\ UNCHANGED <<lock, pc, task>>
    BY <1>3 DEF StopJoin, Queued
  <2>2. ~ HasTask /\ ~ HasTask' /\ DOMAIN queue' = {} /\ queue' \in Seq(Task)
    BY <2>1 DEF HasTask
  <2>3. \A d \in Threads : Queued(d) => answer[d] = "pending"
    BY DEF CallsInHand
  <2>4. Types'
    BY <2>1, <2>2 DEF Types
  <2>5. Control'
    BY <2>1, <2>3 DEF Types, Control, Threads
  <2>6. CallsInHand'
    BY <2>1, <2>2 DEF CallsInHand, Queued, Served
  <2>7. NoSleepOnCall'
    BY <2>1 DEF NoSleepOnCall
  <2> QED BY <2>4, <2>5, <2>6, <2>7
<1> QED BY <1>1, <1>2, <1>3 DEF Main

LEMMA CallInductive == CallInv /\ [Next]_vars => CallInv'
<1> SUFFICES ASSUME CallInv, [Next]_vars PROVE CallInv'
  OBVIOUS
<1>1. ASSUME NEW t \in Topics, NEW g \in Signatures, Register(t, g)
      PROVE  CallInv'
  BY <1>1 DEF Register, CallInv, Types, HasTask, Control, CallsInHand, Queued, Served,
              NoSleepOnCall
<1>2. ASSUME NEW c \in Threads, CallRefused(c) \/ CallNotify(c) \/ Get(c)
      PROVE  CallInv'
  BY <1>2, RefusedStep, NotifyStep, GetStep
<1>3. ASSUME NEW c \in Threads, NEW t \in Topics, NEW g \in Signatures, Call(c, t, g)
      PROVE  CallInv'
  BY <1>3, CallStep
<1>4. CASE WorkerLoop \/ WorkerTest \/ WorkerSleep \/ WorkerExit \/ SpuriousWake
  BY <1>4, IdleStep
<1>5. CASE WorkerTake
  BY <1>5, TakeStep
<1>6. CASE WorkerLookup
  BY <1>6, AnswerStep, HandleStep DEF WorkerLookup, Goto
<1>7. CASE WorkerReturn
  BY <1>7, AnswerStep DEF WorkerReturn
<1>8. CASE Main
  BY <1>8, MainStep
<1>9. CASE UNCHANGED vars
  BY <1>9 DEF vars, CallInv, Types, HasTask, Control, CallsInHand, Queued, Served,
              NoSleepOnCall
<1> QED BY <1>1, <1>2, <1>3, <1>4, <1>5, <1>6, <1>7, <1>8, <1>9 DEF Next, Work

LEMMA CallInvariant == Spec => []CallInv
BY CallInit, CallInductive, PTL DEF Spec

(***************************************************************************)
(* No call is forgotten and none is served twice: worker_loop, call_service*)
(* and the destructor, for any clients, topics and nesting of handlers.    *)
(***************************************************************************)
THEOREM NoCallIsLost == Spec => []CallsInHand
<1>1. CallInv => CallsInHand
  BY DEF CallInv
<1> QED BY <1>1, CallInvariant, PTL

(***************************************************************************)
(* The notify_one of call_service, made after the unlock, comes in time.   *)
(***************************************************************************)
THEOREM NoWorkerSleepsOnCall == Spec => []NoSleepOnCall
<1>1. CallInv => NoSleepOnCall
  BY DEF CallInv
<1> QED BY <1>1, CallInvariant, PTL

(***************************************************************************)
(* Every variable of the service manager has its type.                     *)
(***************************************************************************)
THEOREM TypeCorrect == Spec => []TypeOK
<1> DEFINE Rest == /\ services \in [Topics -> Signatures \cup {None}]
                   /\ stop \in BOOLEAN
                   /\ main \in {"up", "notify", "join", "down"}
<1>1. Init => Rest
  BY DEF Init
<1>2. Rest /\ [Next]_vars => Rest'
  <2> SUFFICES ASSUME Rest, [Next]_vars PROVE Rest'
    OBVIOUS
  <2>1. ASSUME NEW t \in Topics, NEW g \in Signatures, Register(t, g) PROVE Rest'
    BY <2>1 DEF Register
  <2>2. CASE Main
    BY <2>2 DEF Main, StopFlag, StopNotify, StopJoin
  <2>3. ASSUME ~ (\E t \in Topics, g \in Signatures : Register(t, g)), ~ Main
        PROVE  UNCHANGED <<services, stop, main>>
    BY <2>3
    DEF Next, Work, vars, CallRefused, CallNotify, Get, Call, WorkerLoop, WorkerTest,
        WorkerSleep, WorkerExit, SpuriousWake, WorkerTake, WorkerLookup, WorkerReturn,
        Answer
  <2> QED BY <2>1, <2>2, <2>3
<1>3. CallInv /\ Rest => TypeOK
  BY DEF CallInv, Types, TypeOK, ClientLabels, WorkerLabels
<1> QED BY <1>1, <1>2, <1>3, CallInvariant, PTL DEF Spec
=============================================================================
