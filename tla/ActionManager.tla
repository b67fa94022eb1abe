--------------------------- MODULE ActionManager ---------------------------
(***************************************************************************)
(* fins::ActionManager (sdk/fins/action): nodes register as commander or   *)
(* as actor of an action.  A commander's create_action makes a session     *)
(* and queues a goal; the one worker thread hands goals to actors, calling *)
(* their goal callback with map_mutex_ held; the actor finishes the        *)
(* session from a thread of its own, now or much later: succeed(), abort() *)
(* or set_canceled() set its state, call the commander's result callback,  *)
(* and then on_complete, which takes map_mutex_.                           *)
(*                                                                         *)
(* Prompt is the set of actions whose actor finishes the session inside    *)
(* the goal callback.  With Patient, a commander sends no goal before the  *)
(* one before it has had its result, and an actor is registered again only *)
(* when no goal of it is under way; the code asks for neither.             *)
(***************************************************************************)
EXTENDS Naturals, Sequences, SequencesExt

CONSTANTS Commanders,  \* threads that create and cancel actions
          Worker,      \* worker_thread_
          Actions,     \* action names
          Prompt,      \* those finished by their goal callback
          Patient,     \* see above
          MaxGoals,    \* bound: sessions made
          None

Sessions == 1 .. MaxGoals

ASSUME NamesAssumption ==
  /\ Prompt \subseteq Actions
  /\ None \notin Actions \cup Sessions \cup {Worker}
ASSUME BoundAssumption == Patient \in BOOLEAN /\ MaxGoals \in Nat

VARIABLES
  commanded,  \* actions that have a commander: commanders_
  actor,      \* of each action: "absent", "ready" or, is_executing, "executing"
  active,     \* active_sessions_: the session of each action, or None
  made,       \* number of sessions made
  name,       \* action of each session
  status,     \* state_ of each session
  finish,     \* how far the calls that finish a session have got
  results,    \* number of calls of each session's result callback
  lost,       \* sessions whose goal was dropped, or whose goal callback threw
  held,       \* sessions actors are working on
  mapLock,    \* who holds map_mutex_
  queueLock,  \* who holds queue_mutex_
  goals,      \* goal_tasks_: the session each goal was made with
  sending,    \* the session a commander has made and not queued yet, or None
  worker,     \* control of the worker
  task,       \* the goal it has taken
  stop,       \* stop_
  main        \* control of the destructor

registry == <<commanded, actor, active>>
session == <<made, name, status, finish, results, lost, held>>
queue == <<queueLock, goals, sending>>
thread == <<worker, task>>
ending == <<stop, main>>
vars == <<registry, session, mapLock, queue, thread, ending>>

Init ==
  /\ commanded = {}
  /\ actor = [a \in Actions |-> "absent"]
  /\ active = [a \in Actions |-> None]
  /\ made = 0
  /\ name = [s \in Sessions |-> None]
  /\ status = [s \in Sessions |-> "none"]
  /\ finish = [s \in Sessions |-> "none"]
  /\ results = [s \in Sessions |-> 0]
  /\ lost = {} /\ held = {}
  /\ mapLock = None /\ queueLock = None
  /\ goals = <<>>
  /\ sending = [c \in Commanders |-> None]
  /\ worker = "loop" /\ task = None
  /\ stop = FALSE /\ main = "up"

\* The goals of an action that are still to have their result.
UnderWay(a) == {s \in (1 .. made) \ lost : name[s] = a /\ results[s] = 0}

-----------------------------------------------------------------------------
(* Registration *)

RegisterCommander(a) ==
  /\ mapLock = None
  /\ commanded' = commanded \cup {a}
  /\ UNCHANGED <<actor, active, session, mapLock, queue, thread, ending>>

\* An actor that is there already is replaced by one that is ready.
RegisterActor(a) ==
  /\ mapLock = None
  /\ Patient => UnderWay(a) = {} /\ actor[a] # "executing"
  /\ actor' = [actor EXCEPT ![a] = "ready"]
  /\ UNCHANGED <<commanded, active, session, mapLock, queue, thread, ending>>

-----------------------------------------------------------------------------
(* Commanders *)

\* A mutant: whether the actor is executing is not asked.
CreateSession_Always(c, a) ==
  /\ sending[c] = None /\ made < MaxGoals
  /\ Patient => UnderWay(a) = {}
  /\ mapLock = None /\ main # "down"
  /\ a \in commanded
  /\ made' = made + 1
  /\ name' = [name EXCEPT ![made'] = a]
  /\ status' = [status EXCEPT ![made'] = "Accepted"]
  /\ active' = [active EXCEPT ![a] = made']
  /\ sending' = [sending EXCEPT ![c] = made']
  /\ UNCHANGED <<commanded, actor, finish, results, lost, held, mapLock,
                 queueLock, goals, thread, ending>>

\* create_action_session under map_mutex_.  It throws, and changes nothing,
\* for an executing actor and without a commander.
CreateSession(c, a) ==
  /\ sending[c] = None /\ made < MaxGoals
  /\ Patient => UnderWay(a) = {}
  /\ mapLock = None /\ main # "down"
  /\ actor[a] # "executing" /\ a \in commanded
  /\ made' = made + 1
  /\ name' = [name EXCEPT ![made'] = a]
  /\ status' = [status EXCEPT ![made'] = "Accepted"]
  /\ active' = [active EXCEPT ![a] = made']
  /\ sending' = [sending EXCEPT ![c] = made']
  /\ UNCHANGED <<commanded, actor, finish, results, lost, held, mapLock,
                 queueLock, goals, thread, ending>>

\* A mutant: the worker is not notified.
QueueGoal_Silently(c) ==
  /\ sending[c] # None /\ queueLock = None
  /\ goals' = Append(goals, sending[c])
  /\ sending' = [sending EXCEPT ![c] = None]
  /\ UNCHANGED <<registry, session, mapLock, queueLock, worker, task, ending>>

\* create_action_session under queue_mutex_.
QueueGoal(c) ==
  /\ sending[c] # None /\ queueLock = None
  /\ goals' = Append(goals, sending[c])
  /\ sending' = [sending EXCEPT ![c] = None]
  /\ worker' = IF worker = "asleep" THEN "lock" ELSE worker
  /\ UNCHANGED <<registry, session, mapLock, queueLock, task, ending>>

\* ActionSessionBase::cancel, by the session or through cancel_action.
Cancel(s) ==
  /\ status[s] = "Accepted"
  /\ status' = [status EXCEPT ![s] = "Canceling"]
  /\ UNCHANGED <<registry, made, name, finish, results, lost, held, mapLock,
                 queue, thread, ending>>

-----------------------------------------------------------------------------
(* succeed(), abort() and set_canceled() *)

\* The state, under the mutex of the session.  set_canceled() is for sessions
\* in state Canceling; the others do not look at it.
SetState(s, state) ==
  /\ state = "Canceled" => status[s] = "Canceling"
  /\ status' = [status EXCEPT ![s] = state]

Finish(s, state) ==
  /\ s \in held /\ finish[s] = "none"
  /\ SetState(s, state)
  /\ held' = held \ {s}
  /\ finish' = [finish EXCEPT ![s] = "result"]
  /\ UNCHANGED <<registry, made, name, results, lost, mapLock, queue, thread,
                 ending>>

\* result_callback_
Result(s) ==
  /\ finish[s] = "result"
  /\ results' = [results EXCEPT ![s] = @ + 1]
  /\ finish' = [finish EXCEPT ![s] = "complete"]
  /\ UNCHANGED <<registry, made, name, status, lost, held, mapLock, queue,
                 thread, ending>>

\* A mutant: the actor is not made ready.
Complete_StillBusy(s) ==
  /\ finish[s] = "complete" /\ mapLock = None
  /\ active' = [active EXCEPT ![name[s]] = None]
  /\ finish' = [finish EXCEPT ![s] = "none"]
  /\ UNCHANGED <<commanded, actor, made, name, status, results, lost, held,
                 mapLock, queue, thread, ending>>

\* on_complete
Complete(s) ==
  /\ finish[s] = "complete" /\ mapLock = None
  /\ actor' = [actor EXCEPT ![name[s]] = IF @ = "absent" THEN @ ELSE "ready"]
  /\ active' = [active EXCEPT ![name[s]] = None]
  /\ finish' = [finish EXCEPT ![s] = "none"]
  /\ UNCHANGED <<commanded, made, name, status, results, lost, held, mapLock,
                 queue, thread, ending>>

-----------------------------------------------------------------------------
(* void worker_loop() *)

WorkerGoto(label) == worker' = label

WorkerLoop ==
  /\ worker = "loop"
  /\ WorkerGoto(IF stop THEN "ended" ELSE "lock")
  /\ UNCHANGED <<registry, session, mapLock, queue, task, ending>>

\* The wait's predicate is false; the mutex stays locked until the sleep.
WorkerTest ==
  /\ worker = "lock" /\ queueLock = None
  /\ goals = <<>> /\ ~ stop
  /\ queueLock' = Worker
  /\ WorkerGoto("decided")
  /\ UNCHANGED <<registry, session, mapLock, goals, sending, task, ending>>

WorkerSleep ==
  /\ worker = "decided"
  /\ queueLock' = None
  /\ WorkerGoto("asleep")
  /\ UNCHANGED <<registry, session, mapLock, goals, sending, task, ending>>

SpuriousWake ==
  /\ worker = "asleep"
  /\ WorkerGoto("lock")
  /\ UNCHANGED <<registry, session, mapLock, queue, task, ending>>

\* if (stop_) break; the goals still queued are given up.
WorkerExit ==
  /\ worker = "lock" /\ queueLock = None
  /\ stop
  /\ WorkerGoto("ended")
  /\ UNCHANGED <<registry, session, mapLock, queue, task, ending>>

\* A mutant: the goal is not removed from the queue.
WorkerTake_Keeps ==
  /\ worker = "lock" /\ queueLock = None
  /\ goals # <<>> /\ ~ stop
  /\ task' = Head(goals)
  /\ WorkerGoto("lookup")
  /\ UNCHANGED <<registry, session, mapLock, queue, ending>>

WorkerTake ==
  /\ worker = "lock" /\ queueLock = None
  /\ goals # <<>> /\ ~ stop
  /\ task' = Head(goals) /\ goals' = Tail(goals)
  /\ WorkerGoto("lookup")
  /\ UNCHANGED <<registry, session, mapLock, queueLock, sending, ending>>

\* No actor, or no session: the goal is dropped.
WorkerDrop ==
  /\ worker = "lookup" /\ mapLock = None
  /\ actor[name[task]] = "absent" \/ active[name[task]] = None
  /\ lost' = lost \cup {task}
  /\ task' = None
  /\ WorkerGoto("loop")
  /\ UNCHANGED <<registry, made, name, status, finish, results, held, mapLock,
                 queue, ending>>

\* The actor is marked and its goal callback called with the session that is
\* active now.
WorkerStart ==
  /\ worker = "lookup" /\ mapLock = None
  /\ actor[name[task]] # "absent" /\ active[name[task]] # None
  /\ mapLock' = Worker
  /\ actor' = [actor EXCEPT ![name[task]] = "executing"]
  /\ WorkerGoto("callback")
  /\ UNCHANGED <<commanded, active, session, queue, task, ending>>

\* A mutant: the mutex is released only when the callback returns normally.
CallbackThrows_Locked ==
  /\ worker = "callback"
  /\ lost' = lost \cup {active[name[task]]}
  /\ task' = None
  /\ WorkerGoto("loop")
  /\ UNCHANGED <<registry, mapLock, made, name, status, finish, results, held,
                 queue, ending>>

\* The callback throws a std::exception that is logged.
CallbackThrows ==
  /\ worker = "callback"
  /\ lost' = lost \cup {active[name[task]]}
  /\ mapLock' = None /\ task' = None
  /\ WorkerGoto("loop")
  /\ UNCHANGED <<registry, made, name, status, finish, results, held, queue,
                 ending>>

\* The callback keeps the session to finish it later.
CallbackReturns ==
  /\ worker = "callback" /\ name[task] \notin Prompt
  /\ held' = held \cup {active[name[task]]}
  /\ mapLock' = None /\ task' = None
  /\ WorkerGoto("loop")
  /\ UNCHANGED <<registry, made, name, status, finish, results, lost, queue,
                 ending>>

\* The callback finishes the session, which calls result_callback_ and then
\* on_complete: it waits for the mutex that this thread holds.
CallbackFinishes(state) ==
  /\ worker = "callback" /\ name[task] \in Prompt
  /\ SetState(active[name[task]], state)
  /\ results' = [results EXCEPT ![active[name[task]]] = @ + 1]
  /\ WorkerGoto("stuck")
  /\ UNCHANGED <<registry, made, name, finish, lost, held, mapLock, queue, task,
                 ending>>

Ends == {"Succeeded", "Aborted", "Canceled"}

Work ==
  \/ WorkerLoop \/ WorkerTest \/ WorkerSleep \/ WorkerExit \/ WorkerTake
  \/ WorkerDrop \/ WorkerStart
  \/ CallbackThrows \/ CallbackReturns
  \/ \E state \in Ends : CallbackFinishes(state)

-----------------------------------------------------------------------------
(* ~ActionManager() *)

StopFlag ==
  /\ main = "up"
  /\ stop' = TRUE /\ main' = "notify"
  /\ UNCHANGED <<registry, session, mapLock, queue, thread>>

\* A mutant: the worker is not notified.
StopNotify_Silently ==
  /\ main = "notify"
  /\ main' = "join"
  /\ UNCHANGED <<registry, session, mapLock, queue, thread, stop>>

StopNotify ==
  /\ main = "notify"
  /\ main' = "join"
  /\ worker' = IF worker = "asleep" THEN "lock" ELSE worker
  /\ UNCHANGED <<registry, session, mapLock, queue, task, stop>>

StopJoin ==
  /\ main = "join" /\ worker = "ended"
  /\ main' = "down"
  /\ UNCHANGED <<registry, session, mapLock, queue, thread, stop>>

-----------------------------------------------------------------------------
Next ==
  \/ \E a \in Actions : RegisterCommander(a) \/ RegisterActor(a)
  \/ \E c \in Commanders : QueueGoal(c) \/ \E a \in Actions : CreateSession(c, a)
  \/ \E s \in Sessions :
       \/ Cancel(s) \/ Result(s) \/ Complete(s)
       \/ \E state \in Ends : Finish(s, state)
  \/ Work \/ SpuriousWake
  \/ StopFlag \/ StopNotify \/ StopJoin

Spec == Init /\ [][Next]_vars

\* Threads are scheduled, a call that has begun goes on, and an actor that has
\* taken a goal finishes it.  Nobody has to register, to command or to stop.
\* A thread that keeps finding a mutex free gets it.
Fairness ==
  /\ \A c \in Commanders : SF_vars(QueueGoal(c))
  /\ \A s \in Sessions :
       /\ WF_vars(\E state \in Ends : Finish(s, state))
       /\ WF_vars(Result(s)) /\ SF_vars(Complete(s))
  /\ WF_vars(Work)
  /\ WF_vars(StopNotify) /\ WF_vars(StopJoin)

FairSpec == Spec /\ Fairness

-----------------------------------------------------------------------------
TypeOK ==
  /\ commanded \subseteq Actions
  /\ actor \in [Actions -> {"absent", "ready", "executing"}]
  /\ active \in [Actions -> Sessions \cup {None}]
  /\ made \in 0 .. MaxGoals
  /\ name \in [Sessions -> Actions \cup {None}]
  /\ status \in [Sessions -> {"none", "Accepted", "Canceling"} \cup Ends]
  /\ finish \in [Sessions -> {"none", "result", "complete"}]
  /\ results \in [Sessions -> Nat]
  /\ lost \subseteq Sessions /\ held \subseteq Sessions
  /\ {mapLock, queueLock} \subseteq {None, Worker}
  /\ goals \in Seq(Sessions)
  /\ sending \in [Commanders -> Sessions \cup {None}]
  /\ worker \in {"loop", "lock", "decided", "asleep", "lookup", "callback",
                 "stuck", "ended"}
  /\ task \in Sessions \cup {None}
  /\ stop \in BOOLEAN /\ main \in {"up", "notify", "join", "down"}

(***************************************************************************)
(* An executing actor has a session, which cancel_action finds: is_executing*)
(* and active_sessions_ are two records of one thing.                      *)
(***************************************************************************)
ExecutingHasSession ==
  \A a \in Actions : actor[a] = "executing" => active[a] # None

(***************************************************************************)
(* A goal is handed to an actor that is not executing another, with the    *)
(* session that was made for it.                                           *)
(***************************************************************************)
OneGoalAtATime ==
  [][\A a \in Actions :
       WorkerStart /\ a = name[task] =>
         actor[a] # "executing" /\ active[a] = task]_vars

(***************************************************************************)
(* No goal gets a second result.                                           *)
(***************************************************************************)
OneResult == \A s \in Sessions : results[s] <= 1

\* The worker waits for the mutex it holds.
WaitsForItself == worker = "stuck"

(***************************************************************************)
(* Every goal that has been made gets a result, unless it is dropped for   *)
(* want of an actor, its callback throws, the worker waits for itself or   *)
(* the manager stops.                                                      *)
(***************************************************************************)
GoalsHaveResults ==
  \A s \in Sessions :
    status[s] = "Accepted" ~>
      results[s] > 0 \/ s \in lost \/ WaitsForItself \/ stop

(***************************************************************************)
(* An actor that has given its result is ready for the next goal.          *)
(***************************************************************************)
ReadyAgain ==
  \A a \in Actions, s \in Sessions :
    name[s] = a /\ finish[s] = "complete" ~>
      actor[a] = "ready" \/ WaitsForItself

(***************************************************************************)
(* The destructor returns, unless stop_ was set and notified between the   *)
(* worker's test and its sleep, or the worker waits for itself.            *)
(***************************************************************************)
StopReturns ==
  (main = "notify" /\ worker # "decided") ~> main = "down" \/ WaitsForItself
=============================================================================
