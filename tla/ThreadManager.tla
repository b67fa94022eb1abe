--------------------------- MODULE ThreadManager ---------------------------
(***************************************************************************)
(* fins::ThreadManager (sdk/fins/thread_manager.hpp): a fixed pool of      *)
(* workers, each with a queue, a mutex and a condition variable of its     *)
(* own.  The Callers are listener threads of busy steps, which enqueue the *)
(* handling of a message; all tasks of a step go to one worker, the one    *)
(* its id hashes to.  The main thread starts and shuts the pool down, the  *)
(* operators of the studio run and pause it meanwhile.                     *)
(*                                                                         *)
(* A worker's mutex is never held across a wait, so a critical section is  *)
(* one step.  Notifying comes after the unlock and is a step of its own.   *)
(* The agent clears the studio before it shuts the pool down, but a step   *)
(* that a plugin reload runs again has listeners even then: calls may come *)
(* at any time.                                                            *)
(***************************************************************************)
EXTENDS Naturals, Sequences, FiniteSets

CONSTANTS Callers,    \* listener threads that enqueue
          Workers,    \* K_THREAD_POOL_SIZE: the workers are 0 .. Workers - 1
          Affinity,   \* worker of each caller: calculate_affinity_index
          Limit,      \* 2048, the length above which a queue takes no more
          Quota       \* bound: calls of each caller

Pool == 0 .. Workers - 1

ASSUME CallersAssumption == IsFiniteSet(Callers)
ASSUME WorkersAssumption == Workers \in Nat \ {0}
ASSUME AffinityAssumption == Affinity \in [Callers -> Pool]
ASSUME LimitAssumption == Limit \in Nat
ASSUME QuotaAssumption == Quota \in Nat

VARIABLES
  state,      \* g_running_state
  stopGlobal, \* stop_global_
  main,       \* control of the main thread and the worker it has got to
  running,    \* running of each worker
  stopFlag,   \* stop_flag of each worker
  queue,      \* queue of each worker; <<c, k>> is the task of caller c's call k
  worker,     \* control of each worker
  task,       \* the task a worker is executing
  caller,     \* control of each caller
  called,     \* number of calls of each caller
  executed,   \* the last call of each caller whose task has been executed
  processed,  \* processed_count of each worker
  dropped,    \* dropped_tasks_count_
  refused     \* calls that returned without a trace

pool == <<running, stopFlag>>
work == <<queue, worker, task, executed, processed>>
calls == <<caller, called, dropped, refused>>
vars == <<state, stopGlobal, main, pool, work, calls>>

NoTask == <<>>

Init ==
  /\ state = "PAUSE" /\ stopGlobal = FALSE
  /\ main = [pc |-> "new", at |-> 0]
  /\ running = [w \in Pool |-> FALSE]
  /\ stopFlag = [w \in Pool |-> FALSE]
  /\ queue = [w \in Pool |-> <<>>]
  /\ worker = [w \in Pool |-> "none"]
  /\ task = [w \in Pool |-> NoTask]
  /\ caller = [c \in Callers |-> "idle"]
  /\ called = [c \in Callers |-> 0]
  /\ executed = [c \in Callers |-> 0]
  /\ processed = [w \in Pool |-> 0]
  /\ dropped = 0 /\ refused = 0

\* Studio::run() and Studio::pause() change the state of the agent.
SetRunningState ==
  /\ state' = IF state = "RUN" THEN "PAUSE" ELSE "RUN"
  /\ UNCHANGED <<stopGlobal, main, pool, work, calls>>

-----------------------------------------------------------------------------
(* void enqueue(...) *)

Goto(c, label) == caller' = [caller EXCEPT ![c] = label]
Count(n) == n' = n + 1

\* After shutdown() has begun a call just returns.
EnqueueRefused(c) ==
  /\ caller[c] = "idle" /\ called[c] < Quota
  /\ stopGlobal
  /\ called' = [called EXCEPT ![c] = @ + 1]
  /\ Count(refused)
  /\ UNCHANGED <<state, stopGlobal, main, pool, work, caller, dropped>>

EnqueueBegin(c) ==
  /\ caller[c] = "idle" /\ called[c] < Quota
  /\ ~ stopGlobal
  /\ called' = [called EXCEPT ![c] = @ + 1]
  /\ Goto(c, "state")
  /\ UNCHANGED <<state, stopGlobal, main, pool, work, dropped, refused>>

\* In PAUSE the task is dropped.
EnqueueState(c) ==
  /\ caller[c] = "state"
  /\ \/ state = "PAUSE" /\ Count(dropped) /\ Goto(c, "idle")
     \/ state = "RUN" /\ Goto(c, "lock") /\ UNCHANGED dropped
  /\ UNCHANGED <<state, stopGlobal, main, pool, work, called, refused>>

\* A mutant: a full queue drops the task and does not count it.
EnqueueFull_Uncounted(c) ==
  /\ caller[c] = "lock"
  /\ Len(queue[Affinity[c]]) > Limit
  /\ Goto(c, "idle")
  /\ UNCHANGED <<state, stopGlobal, main, pool, work, called, dropped, refused>>

EnqueueFull(c) ==
  /\ caller[c] = "lock"
  /\ Len(queue[Affinity[c]]) > Limit
  /\ Count(dropped)
  /\ Goto(c, "idle")
  /\ UNCHANGED <<state, stopGlobal, main, pool, work, called, refused>>

EnqueuePush(c) ==
  /\ caller[c] = "lock"
  /\ Len(queue[Affinity[c]]) <= Limit
  /\ queue' = [queue EXCEPT ![Affinity[c]] = Append(@, <<c, called[c]>>)]
  /\ Goto(c, "notify")
  /\ UNCHANGED <<state, stopGlobal, main, pool, worker, task, executed,
                 processed, called, dropped, refused>>

\* notify_one() or notify_all(): the worker is the only one that waits.
Notify(w) ==
  worker' = [worker EXCEPT ![w] = IF @ = "asleep" THEN "check" ELSE @]

EnqueueNotify(c) ==
  /\ caller[c] = "notify"
  /\ Notify(Affinity[c])
  /\ Goto(c, "idle")
  /\ UNCHANGED <<state, stopGlobal, main, pool, queue, task, executed,
                 processed, called, dropped, refused>>

Enqueue(c) ==
  \/ EnqueueRefused(c) \/ EnqueueBegin(c) \/ EnqueueState(c)
  \/ EnqueueFull(c) \/ EnqueuePush(c) \/ EnqueueNotify(c)

-----------------------------------------------------------------------------
(* void worker_loop(Worker *me) *)

Stopping(w) == stopFlag[w] \/ stopGlobal

\* The predicate is false: unlock and sleep in one step.
WorkerSleep(w) ==
  /\ worker[w] = "check"
  /\ ~ Stopping(w) /\ queue[w] = <<>>
  /\ worker' = [worker EXCEPT ![w] = "asleep"]
  /\ UNCHANGED <<state, stopGlobal, main, pool, queue, task, executed,
                 processed, calls>>

SpuriousWake(w) ==
  /\ worker[w] = "asleep"
  /\ Notify(w)
  /\ UNCHANGED <<state, stopGlobal, main, pool, queue, task, executed,
                 processed, calls>>

WorkerExit(w) ==
  /\ worker[w] = "check"
  /\ Stopping(w) /\ queue[w] = <<>>
  /\ worker' = [worker EXCEPT ![w] = "ended"]
  /\ UNCHANGED <<state, stopGlobal, main, pool, queue, task, executed,
                 processed, calls>>

\* A mutant: the newest task is taken.
WorkerTake_Newest(w) ==
  /\ worker[w] = "check"
  /\ queue[w] # <<>>
  /\ task' = [task EXCEPT ![w] = queue[w][Len(queue[w])]]
  /\ queue' = [queue EXCEPT ![w] = SubSeq(@, 1, Len(@) - 1)]
  /\ worker' = [worker EXCEPT ![w] = "busy"]
  /\ UNCHANGED <<state, stopGlobal, main, pool, executed, processed, calls>>

\* A mutant: a worker told to stop leaves its queue.
WorkerTake_NotWhenStopping(w) ==
  /\ worker[w] = "check"
  /\ queue[w] # <<>> /\ ~ Stopping(w)
  /\ task' = [task EXCEPT ![w] = Head(queue[w])]
  /\ queue' = [queue EXCEPT ![w] = Tail(@)]
  /\ worker' = [worker EXCEPT ![w] = "busy"]
  /\ UNCHANGED <<state, stopGlobal, main, pool, executed, processed, calls>>

\* Stopping or not, running or paused: what is queued is taken.
WorkerTake(w) ==
  /\ worker[w] = "check"
  /\ queue[w] # <<>>
  /\ task' = [task EXCEPT ![w] = Head(queue[w])]
  /\ queue' = [queue EXCEPT ![w] = Tail(@)]
  /\ worker' = [worker EXCEPT ![w] = "busy"]
  /\ UNCHANGED <<state, stopGlobal, main, pool, executed, processed, calls>>

\* The handler returns, or throws a std::exception that is logged.
WorkerDone(w) ==
  /\ worker[w] = "busy"
  /\ executed' = [executed EXCEPT ![task[w][1]] = task[w][2]]
  /\ processed' = [processed EXCEPT ![w] = @ + 1]
  /\ task' = [task EXCEPT ![w] = NoTask]
  /\ worker' = [worker EXCEPT ![w] = "check"]
  /\ UNCHANGED <<state, stopGlobal, main, pool, queue, calls>>

WorkerLoop(w) ==
  WorkerSleep(w) \/ WorkerExit(w) \/ WorkerTake(w) \/ WorkerDone(w)

-----------------------------------------------------------------------------
(* void start(), void shutdown() *)

\* Go on with the next worker, or leave the loop.
NextWorker(loop, after) ==
  main' = IF main.at + 1 < Workers THEN [pc |-> loop, at |-> main.at + 1]
                                   ELSE [pc |-> after, at |-> 0]

StartWorker ==
  /\ main.pc \in {"new", "start"}
  /\ running' = [running EXCEPT ![main.at] = TRUE]
  /\ stopFlag' = [stopFlag EXCEPT ![main.at] = FALSE]
  /\ worker' = [worker EXCEPT ![main.at] = "check"]
  /\ NextWorker("start", "up")
  /\ UNCHANGED <<state, stopGlobal, queue, task, executed, processed, calls>>

\* The static agent shuts a pool down that it has never started.
Shutdown ==
  /\ main.pc \in {"new", "up"}
  /\ stopGlobal' = TRUE
  /\ main' = [pc |-> "flag", at |-> 0]
  /\ UNCHANGED <<state, pool, work, calls>>

FlagWorker ==
  /\ main.pc = "flag"
  /\ stopFlag' = [stopFlag EXCEPT ![main.at] = TRUE]
  /\ main' = [main EXCEPT !.pc = "notify"]
  /\ UNCHANGED <<state, stopGlobal, running, work, calls>>

\* A mutant: the workers are flagged and not notified.
NotifyWorker_Silently ==
  /\ main.pc = "notify"
  /\ NextWorker("flag", "join")
  /\ UNCHANGED <<state, stopGlobal, pool, work, calls>>

NotifyWorker ==
  /\ main.pc = "notify"
  /\ Notify(main.at)
  /\ NextWorker("flag", "join")
  /\ UNCHANGED <<state, stopGlobal, pool, queue, task, executed, processed,
                 calls>>

JoinWorker ==
  /\ main.pc = "join"
  /\ worker[main.at] \in {"none", "ended"}
  /\ running' = [running EXCEPT ![main.at] = FALSE]
  /\ NextWorker("join", "down")
  /\ UNCHANGED <<state, stopGlobal, stopFlag, work, calls>>

Main == StartWorker \/ Shutdown \/ FlagWorker \/ NotifyWorker \/ JoinWorker

-----------------------------------------------------------------------------
Next ==
  \/ SetRunningState
  \/ \E c \in Callers : Enqueue(c)
  \/ \E w \in Pool : WorkerLoop(w) \/ SpuriousWake(w)
  \/ Main

Spec == Init /\ [][Next]_vars

\* Threads are scheduled and handlers return; a call that has begun and a
\* start() or shutdown() that has begun go on.  Nobody has to call them.
Fairness ==
  /\ \A c \in Callers : WF_vars(caller[c] # "idle" /\ Enqueue(c))
  /\ \A w \in Pool : WF_vars(WorkerLoop(w))
  /\ WF_vars(main.pc \in {"start", "flag", "notify", "join"} /\ Main)

FairSpec == Spec /\ Fairness

-----------------------------------------------------------------------------
Task == Callers \X (1 .. Quota)

TypeOK ==
  /\ state \in {"RUN", "PAUSE"} /\ stopGlobal \in BOOLEAN
  /\ main \in [pc : {"new", "start", "up", "flag", "notify", "join", "down"},
               at : Pool]
  /\ running \in [Pool -> BOOLEAN] /\ stopFlag \in [Pool -> BOOLEAN]
  /\ \A w \in Pool : queue[w] \in Seq(Task) /\ Len(queue[w]) <= Limit + 1
  /\ worker \in [Pool -> {"none", "check", "asleep", "busy", "ended"}]
  /\ task \in [Pool -> Task \cup {NoTask}]
  /\ caller \in [Callers -> {"idle", "state", "lock", "notify"}]
  /\ called \in [Callers -> 0 .. Quota] /\ executed \in [Callers -> 0 .. Quota]
  /\ processed \in [Pool -> Nat]
  /\ dropped \in Nat /\ refused \in Nat

(***************************************************************************)
(* A worker that sleeps on a task, or through a shutdown, is going to be   *)
(* notified: no wake-up is lost between the unlock of an enqueue or of a   *)
(* shutdown and its notify.                                                *)
(***************************************************************************)
NoSleepOnWork ==
  \A w \in Pool : worker[w] = "asleep" =>
    /\ queue[w] # <<>> =>
         \E c \in Callers : Affinity[c] = w /\ caller[c] = "notify"
    /\ stopGlobal => main.pc \in {"flag", "notify"} /\ main.at <= w

\* The pairs of a member x of S and one of the numbers 1 .. n[x].
Numbered(S, n) == UNION {{x} \X (1 .. n[x]) : x \in S}

(***************************************************************************)
(* Every call has exactly one outcome: under way, refused, counted as      *)
(* dropped, in a queue, being executed, or executed.  The sums over the    *)
(* threads are written as numbers of pairs: a call is <<caller, number>>,  *)
(* a place in a queue or an execution <<worker, number>>.                  *)
(***************************************************************************)
Accounted ==
  LET UnderWay == {c \in Callers : caller[c] \in {"state", "lock"}}
      Busy == {w \in Pool : worker[w] = "busy"}
      length == [w \in Pool |-> Len(queue[w])]
  IN  Cardinality(Numbered(Callers, called)) =
        Cardinality(UnderWay) + refused + dropped + Cardinality(Busy)
          + Cardinality(Numbered(Pool, length))
          + Cardinality(Numbered(Pool, processed))

(***************************************************************************)
(* The messages of one listener are handled in the order it received them. *)
(***************************************************************************)
HandledInOrder ==
  [][\A c \in Callers : executed'[c] >= executed[c]]_vars

(***************************************************************************)
(* A task in the queue of a worker that has been started is executed, even *)
(* when the studio pauses or the pool is being shut down; only a task that *)
(* arrives after its worker has ended stays behind.                        *)
(***************************************************************************)
QueuedIsExecuted ==
  \A w \in Pool, c \in Callers, k \in 1 .. Quota :
    (/\ worker[w] \in {"check", "asleep", "busy"}
     /\ \E i \in DOMAIN queue[w] : queue[w][i] = <<c, k>>) ~> executed[c] >= k

(***************************************************************************)
(* shutdown() returns, whatever the callers do meanwhile.                  *)
(***************************************************************************)
ShutdownReturns == main.pc = "flag" ~> main.pc = "down"
=============================================================================
