--------------------------- MODULE ServiceManager ---------------------------
(***************************************************************************)
(* fins::ServiceManager (sdk/fins/service): the nodes register servers     *)
(* under topics, the client functions of nodes (node.hpp) put a call into  *)
(* one queue and wait for its future, and one worker thread serves them.   *)
(* The destructor, at the end of the process, stops the worker.            *)
(*                                                                         *)
(* A handler may itself call a client function, on the worker's thread:    *)
(* Nesting is the set of topics whose handlers do.                         *)
(*                                                                         *)
(* stop_ is set, and the worker notified, without the mutex of the queue,  *)
(* so the worker's test and its going to sleep are separate steps with the *)
(* mutex held.  Every other critical section is one step.                  *)
(***************************************************************************)
EXTENDS Naturals, Sequences, SequencesExt

CONSTANTS Clients,     \* threads of nodes that call services
          Worker,      \* worker_thread_
          Topics,
          Signatures,  \* types of a call or of a server
          Nesting,     \* topics whose handlers call services
          None

Threads == Clients \cup {Worker}

ASSUME ThreadsAssumption ==
  /\ Worker \notin Clients
  /\ None \notin Threads \cup Signatures
ASSUME NestingAssumption == Nesting \subseteq Topics

VARIABLES
  services,  \* signature of the server of each topic, or None
  queue,     \* tasks_
  lock,      \* who holds queue_mutex_
  stop,      \* stop_
  main,      \* control of the destructor
  pc,        \* control of each thread
  task,      \* the task of the worker
  answer     \* promise of the call each thread is waiting for

vars == <<services, queue, lock, stop, main, pc, task, answer>>

Task == [from : Threads, topic : Topics, signature : Signatures]
NoTask == <<>>

Init ==
  /\ services = [t \in Topics |-> None]
  /\ queue = <<>> /\ lock = None
  /\ stop = FALSE /\ main = "up"
  /\ pc = [t \in Threads |-> IF t = Worker THEN "loop" ELSE "idle"]
  /\ task = NoTask
  /\ answer = [t \in Threads |-> "none"]

Goto(t, label) == pc' = [pc EXCEPT ![t] = label]

\* notify_one() and notify_all(), then control of t goes on.
NotifyAndGoto(t, label) ==
  pc' = [pc EXCEPT ![t] = label,
                   ![Worker] = IF @ = "asleep" THEN "lock" ELSE @]

\* void register_service(...): a server that is there already is replaced.
Register(t, g) ==
  /\ services' = [services EXCEPT ![t] = g]
  /\ UNCHANGED <<queue, lock, stop, main, pc, task, answer>>

-----------------------------------------------------------------------------
(* The client function that register_client returns, and call_service *)

MayCall(c) ==
  \/ c \in Clients /\ pc[c] = "idle"
  \/ c = Worker /\ pc[c] = "handle" /\ task.topic \in Nesting

\* After the stop the future holds an exception at once.
CallRefused(c) ==
  /\ MayCall(c) /\ main # "down"
  /\ lock = None /\ stop
  /\ answer' = [answer EXCEPT ![c] = "error"]
  /\ Goto(c, "get")
  /\ UNCHANGED <<services, queue, lock, stop, main, task>>

Call(c, t, g) ==
  /\ MayCall(c) /\ main # "down"
  /\ lock = None /\ ~ stop
  /\ queue' = Append(queue, [from |-> c, topic |-> t, signature |-> g])
  /\ answer' = [answer EXCEPT ![c] = "pending"]
  /\ Goto(c, "notify")
  /\ UNCHANGED <<services, lock, stop, main, task>>

\* A mutant: the worker is not notified.
CallNotify_Silently(c) ==
  /\ pc[c] = "notify"
  /\ Goto(c, "get")
  /\ UNCHANGED <<services, queue, lock, stop, main, task, answer>>

CallNotify(c) ==
  /\ pc[c] = "notify"
  /\ NotifyAndGoto(c, "get")
  /\ UNCHANGED <<services, queue, lock, stop, main, task, answer>>

\* future.get() returns or throws.
Get(c) ==
  /\ pc[c] = "get" /\ answer[c] # "pending"
  /\ answer' = [answer EXCEPT ![c] = "none"]
  /\ Goto(c, IF c = Worker THEN "return" ELSE "idle")
  /\ UNCHANGED <<services, queue, lock, stop, main, task>>

-----------------------------------------------------------------------------
(* void worker_loop() *)

\* while (!stop_)
WorkerLoop ==
  /\ pc[Worker] = "loop"
  /\ Goto(Worker, IF stop THEN "ended" ELSE "lock")
  /\ UNCHANGED <<services, queue, lock, stop, main, task, answer>>

\* The wait's predicate is false; the mutex stays locked until the sleep.
WorkerTest ==
  /\ pc[Worker] = "lock" /\ lock = None
  /\ ~ stop /\ queue = <<>>
  /\ lock' = Worker
  /\ Goto(Worker, "decided")
  /\ UNCHANGED <<services, queue, stop, main, task, answer>>

WorkerSleep ==
  /\ pc[Worker] = "decided"
  /\ lock' = None
  /\ Goto(Worker, "asleep")
  /\ UNCHANGED <<services, queue, stop, main, task, answer>>

SpuriousWake ==
  /\ pc[Worker] = "asleep"
  /\ Goto(Worker, "lock")
  /\ UNCHANGED <<services, queue, lock, stop, main, task, answer>>

\* if (stop_ && tasks_.empty()) return;
WorkerExit ==
  /\ pc[Worker] = "lock" /\ lock = None
  /\ stop /\ queue = <<>>
  /\ Goto(Worker, "ended")
  /\ UNCHANGED <<services, queue, lock, stop, main, task, answer>>

\* A mutant: the task stays in the queue.
WorkerTake_Keeps ==
  /\ pc[Worker] = "lock" /\ lock = None
  /\ queue # <<>>
  /\ task' = Head(queue)
  /\ Goto(Worker, "lookup")
  /\ UNCHANGED <<services, queue, lock, stop, main, answer>>

WorkerTake ==
  /\ pc[Worker] = "lock" /\ lock = None
  /\ queue # <<>>
  /\ task' = Head(queue) /\ queue' = Tail(queue)
  /\ Goto(Worker, "lookup")
  /\ UNCHANGED <<services, lock, stop, main, answer>>

\* The promise of the task is set, and the task is gone.
Answer(result) ==
  /\ answer' = [answer EXCEPT ![task.from] = result]
  /\ task' = NoTask
  /\ Goto(Worker, "loop")
  /\ UNCHANGED <<services, queue, lock, stop, main>>

\* No server, or one of other types: the answer is an exception.
WorkerLookup ==
  /\ pc[Worker] = "lookup"
  /\ \/ services[task.topic] # task.signature /\ Answer("error")
     \/ /\ services[task.topic] = task.signature
        /\ Goto(Worker, "handle")
        /\ UNCHANGED <<services, queue, lock, stop, main, task, answer>>

\* The handler returns, or throws.
WorkerReturn ==
  /\ pc[Worker] \in {"handle", "return"}
  /\ Answer("value") \/ Answer("error")

Work ==
  \/ WorkerLoop \/ WorkerTest \/ WorkerSleep \/ WorkerExit \/ WorkerTake
  \/ WorkerLookup \/ WorkerReturn

-----------------------------------------------------------------------------
(* ~ServiceManager() *)

StopFlag ==
  /\ main = "up"
  /\ stop' = TRUE /\ main' = "notify"
  /\ UNCHANGED <<services, queue, lock, pc, task, answer>>

\* A mutant: the worker is not notified.
StopNotify_Silently ==
  /\ main = "notify"
  /\ main' = "join"
  /\ UNCHANGED <<services, queue, lock, stop, pc, task, answer>>

StopNotify ==
  /\ main = "notify"
  /\ main' = "join"
  /\ NotifyAndGoto(Worker, pc[Worker])
  /\ UNCHANGED <<services, queue, lock, stop, task, answer>>

\* A mutant: the promises outlive the queue.
StopJoin_Keeps ==
  /\ main = "join" /\ pc[Worker] = "ended"
  /\ main' = "down"
  /\ UNCHANGED <<services, lock, stop, queue, answer, pc, task>>

\* The worker is joined and the queue destroyed: the promise of a call that
\* was still in it is broken.
StopJoin ==
  /\ main = "join" /\ pc[Worker] = "ended"
  /\ main' = "down"
  /\ queue' = <<>>
  /\ answer' = [c \in Threads |->
                  IF \E i \in DOMAIN queue : queue[i].from = c
                    THEN "broken" ELSE answer[c]]
  /\ UNCHANGED <<services, lock, stop, pc, task>>

Main == StopFlag \/ StopNotify \/ StopJoin

-----------------------------------------------------------------------------
Next ==
  \/ \E t \in Topics, g \in Signatures : Register(t, g)
  \/ \E c \in Threads :
       \/ CallRefused(c) \/ CallNotify(c) \/ Get(c)
       \/ \E t \in Topics, g \in Signatures : Call(c, t, g)
  \/ Work \/ SpuriousWake
  \/ Main

Spec == Init /\ [][Next]_vars

\* Threads are scheduled, handlers return, a destructor that has begun goes
\* on.  Nobody has to call, to register or to stop.
Fairness ==
  /\ \A c \in Threads : WF_vars(CallNotify(c)) /\ WF_vars(Get(c))
  /\ WF_vars(Work)
  /\ WF_vars(StopNotify) /\ WF_vars(StopJoin)

FairSpec == Spec /\ Fairness

-----------------------------------------------------------------------------
\* The worker has a task from the time it takes it until it answers it.
HasTask == pc[Worker] \in {"lookup", "handle", "notify", "get", "return"}

TypeOK ==
  /\ services \in [Topics -> Signatures \cup {None}]
  /\ queue \in Seq(Task) /\ (HasTask => task \in Task)
  /\ lock \in {None, Worker} /\ stop \in BOOLEAN
  /\ main \in {"up", "notify", "join", "down"}
  /\ \A c \in Clients : pc[c] \in {"idle", "notify", "get"}
  /\ pc[Worker] \in {"loop", "lock", "decided", "asleep", "lookup", "handle",
                     "notify", "get", "return", "ended"}
  /\ answer \in [Threads -> {"none", "pending", "value", "error", "broken"}]

Queued(c) == \E i \in DOMAIN queue : queue[i].from = c
Served(c) == HasTask /\ task.from = c

(***************************************************************************)
(* A call that waits for its answer is in the queue or in the worker's     *)
(* hands, once: no call is forgotten, and none is served twice, when       *)
(* servers are missing or throw and when the manager stops.                *)
(***************************************************************************)
CallsInHand ==
  /\ \A c \in Threads : answer[c] = "pending" <=> Queued(c) \/ Served(c)
  /\ \A c \in Threads : ~ (Queued(c) /\ Served(c))
  /\ \A i, j \in DOMAIN queue : queue[i].from = queue[j].from => i = j

(***************************************************************************)
(* A worker that sleeps, or is about to, although calls are queued is      *)
(* going to be notified by a client.                                       *)
(***************************************************************************)
NoSleepOnCall ==
  pc[Worker] \in {"decided", "asleep"} /\ queue # <<>> =>
    \E c \in Clients : pc[c] = "notify"

\* The worker waits for a call of a handler that only it could serve.
WaitsForItself == pc[Worker] = "get" /\ answer[Worker] = "pending"

(***************************************************************************)
(* Every call is answered, by a value or an exception, also when the       *)
(* manager stops meanwhile, unless a handler makes the worker wait for     *)
(* itself.                                                                 *)
(***************************************************************************)
CallsAnswered ==
  \A c \in Clients :
    answer[c] = "pending" ~> answer[c] # "pending" \/ WaitsForItself

(***************************************************************************)
(* The destructor returns, unless stop_ was set between the worker's test  *)
(* and its sleep and notified before the sleep, or the worker waits for    *)
(* itself.                                                                 *)
(***************************************************************************)
StopReturns ==
  (main = "notify" /\ pc[Worker] # "decided")
    ~> main = "down" \/ WaitsForItself
=============================================================================
