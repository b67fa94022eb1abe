# FineVision: the FINS agent in TLA+

An agent (`sdk/fins/agent/agent.cpp`) loads plugins with nodes, builds a
dataflow graph of steps from a JSON file, and runs it: nodes send messages into
pipes, listener threads take them out and call the handlers of other nodes.
Operators control it over HTTP, plugins are replaced while it runs, and it reports
to an orchestrator. This directory holds TLA+ models of it, their TLC
configurations, and TLAPS proofs. Paths below are relative to `sdk/fins/`.

## 1. Inventory

| component | state | operations | talks to |
|---|---|---|---|
| `SPSCQueue` (`spsc_queue.hpp`) | `buffer_`, atomic `head_`, `tail_` | `push`, `pop`, `empty` | one producer, one consumer thread |
| `Pipe` (`pipe.hpp`) | an `SPSCQueue`, `mutex_`, `cond_`, `started_`, `consumer_waiting_` | `push`, `pop_wait`, `stop`, `notify` (`reset`, `try_pop` unused) | sending threads, the listener, whoever pauses |
| `PipeFactory` (`pipe.hpp`) | map of pipe id to shared pipe, a mutex | `get_pipe`, `find_pipe`, `stop_all`, `clear` | `Step`, `Studio` |
| `Step` (`step.hpp`) | node, `pipes_in_`, `pipes_out_`, listener threads, `running_`, `shutdown_requested_` | `run`, `pause`, `reset`, `publish`, `input_listener_loop`, destructor | `Studio` calls it, its listeners call the node or the pool |
| `Studio` (`studio.hpp`, `shared_states.hpp`) | `steps_`, `topology_order_`, `mutex_`; the global `g_running_state` | `add_step`, `add_pipe`, `set_topology_order`, `run`, `pause`, `reset`, `clear` | HTTP routes, `NodeLib` |
| `ThreadManager` (`thread_manager.hpp`) | workers, each with a queue, mutex, condition variable; `stop_global_`, `dropped_tasks_count_` | `start`, `enqueue`, `worker_loop`, `shutdown` | listeners of busy steps, main thread |
| Agent process (`agent/agent.cpp`) | `g_running`, the order in which `main` starts and stops the rest | `main`, the signal handler | everything below |
| `AgentServer` (`agent/server.hpp`) | an HTTP server with four threads, a telemetry thread, `stop_monitoring_` | `start`, `stop`, `/load_dataflow`, `/set_status`, `/reset`, `registerAgent`, `reportTelemetry` | `Studio`, `NodeLib`, the orchestrator |
| `NodeLib` and `NodeFactory` (`nodelib.hpp`, `node.hpp`) | a `PluginContext` for each plugin (`handle`, `is_hot_reloadable`), `creators_` by class, an inotify thread | `load`, `create_step`, `load_json` in three passes, `reload_plugin_process` | `Studio`, `Step`, the plugin directory |
| `ServiceManager` (`service/`) | `services_` by topic, one worker, `tasks_` with a promise each, `stop_` | `register_service`, `call_service`, `worker_loop`, destructor | client functions of nodes wait for the futures; the worker calls server handlers |
| `ActionManager` and its sessions (`action/`) | `commanders_`, `actors_` with `is_executing`, `active_sessions_`, `goal_tasks_`, one worker, `stop_`; the state of a session | `register_commander`, `register_actor`, `create_action_session`, `cancel_action`, `succeed`, `abort`, `set_canceled`, `worker_loop`, destructor | commander nodes send goals and get results; the worker calls goal callbacks of actor nodes |
| `INode`, `Node`, `FunctionalNode` (`node.hpp`, `functional_node.hpp`) | ports, parameters, callbacks | dispatch of a message to a handler, `send` | `Step` |
| Performance recorder (`utils/performance_recorder.hpp`) | `queue_` of at most 5000 records, `running_`, one worker, a file | `push_record`, segment timers, `worker_loop`, `start`, `stop` | every handler pushes, `main` stops it |
| Node log (`node_log.hpp`) | the last 200 entries of each node | `log`, `get_and_clear_logs` | nodes write, the telemetry thread takes |
| Type register (`type/`) | converters by type, a mutex | `string_convert`, `get_name` | parameters of nodes |
| Parameter server (`agent/parameter_server.*`) | a map behind a mutex | parse, get | nodes |
| AoI analyzer and system monitor (`analysis/`) | statistics over records and `/proc` | record, read | telemetry |
| Inspector (`inspect/`), other `utils/` | | print a plugin's nodes; clock, file and network helpers | |
| `third_party/` | | | vendored fmt, json, httplib, zenoh-c |

What is hard, and what makes each part correct:

* **SPSCQueue**: indices published with release stores and read late. No two
  threads in one slot, indices that never lap each other, FIFO.
* **Pipe**: a lock-free fast path beside a condition variable, so a wake-up can
  be lost; a full ring makes the *producer* pop. Delivery in order, nobody asleep
  on a message, a stop that releases the listener.
* **PipeFactory, Step, Studio**: pipes are known by id and by object, threads
  are joined under a mutex, HTTP threads and listeners interleave, and `clear`
  does half its work after unlocking. Every request returns, a paused graph is
  quiet, a loaded graph is whole, messages reach the handlers of running nodes.
* **ThreadManager**: notify after unlock, two stop flags, a bounded queue, calls
  during shutdown. No lost wake-up, order per step, every call accounted for,
  queued work executed, shutdown returns.
* **NodeLib**: a load fails in any of three passes and leaves what it has made; a
  reload takes the nodes out of live steps, closes their library and puts new ones
  in, from a thread of its own, while builds arrive faster than it works and may not
  load. No thread in a node whose code is gone or old; an order of the steps that
  respects the pipes, whatever the file; the newest build in the end; a request that
  is answered.
* **Agent, telemetry, recorder, log**: five kinds of threads are stopped in one order
  while requests, reports, handlers and reloads are under way, and the one that reloads
  comes last; the recorder has to drain what steps still push; a log is emptied by one thread
  and destroyed by another; the recorder's loop tests its queue without the mutex. A
  log entry reported at most once and in order; records written or pushed out by
  newer ones; nothing under way when `main` returns; an exit that comes.
* **ServiceManager**: notify after unlock, a stop without the lock, handlers that
  call services on the one worker. Every call in one place and answered, also
  when the manager stops; the destructor returns.
* **ActionManager**: "is executing" and "has a session" are two records, set by
  different threads at different times and looked up by name; the goal callback
  runs under a mutex. One goal of an actor at a time and with its own session, one
  result per session, an actor that is ready again after it.

`PROJECT.json` lists every hazard at its line with the properties about it.

## 2. Modules

| module | models | extends / instantiates |
|---|---|---|
| `BoundedFifo` | what the ring promises: a bounded channel whose two sides learn of each other late | |
| `SpscQueue` | `SPSCQueue::push`, `pop` | refines `BoundedFifo` |
| `SpscQueueProofs` | proofs | `SpscQueue` |
| `MessageChannel` | what a pipe promises while it does not overflow: a first-in first-out channel that can be closed | |
| `Pipe` | `Pipe::push`, `pop_wait`, `stop`, `notify` with their threads | refines `MessageChannel` |
| `PipeProofs` | proofs | `Pipe` |
| `Dataflow` | `Studio`, `Step`, `PipeFactory`, the routes of `AgentServer`, `NodeLib::load_json` | |
| `DataflowProofs` | proofs | `Dataflow` |
| `ThreadManager` | `ThreadManager` with its callers and workers | |
| `ThreadManagerProofs` | proofs | `ThreadManager` |
| `ServiceManager` | `ServiceManager` with its clients (`node.hpp`), worker and destructor | |
| `ServiceManagerProofs` | proofs | `ServiceManager` |
| `ActionManager` | `ActionManager` with commanders, sessions, actors, worker and destructor | |
| `ActionManagerProofs` | proofs | `ActionManager` |
| `NodeLib` | `NodeLib`, `NodeFactory`: loading files and plugins, the sort, hot reload, with the steps and their threads | |
| `NodeLibProofs` | proofs | `NodeLib` |
| `Agent` | `agent.cpp`, the telemetry of `AgentServer`, node logs, the recorder | |
| `AgentProofs` | proofs | `Agent` |
| `MC*` | constants of the runs | the module of the same name |

**SpscQueue.** `push` is PushFull, or PushStart, PushWrite, PushPublish; `pop` is
PopEmpty, or PopStart, PopRead, PopAdvance: loads and test, slot copy, index
store. A slot copy takes time, so two threads in one slot can be seen.
`headSeen` and `tailSeen` are what an acquire load of the *other* thread returns;
they lag behind the index by any number of stores (HeadArrives, TailArrives).

**Pipe.** Every load, store, copy and lock operation is a step, and the threads
are producers, the listener and stoppers. With `Buffered` each thread has a FIFO
store buffer that lock operations drain, which is how x86 executes the release
stores and acquire loads of this code; without it stores are visible at once.
`Load`, `Store`, `Drain`, `Acquire`, `Release` and `Wakes` stand for the hardware
and the standard library and are the external definitions of the map. A pipe that
finds its ring full pops by itself (EvictLoad, EvictTest, EvictAdvance). While it
does not overflow the pipe implements `MessageChannel`: PushBegin is Begin,
PushStopped is Drop, PushPublish is Put, PopAdvance is Take and StopFlag is Close.

**Dataflow.** One operator per HTTP thread; a request is a sequence of steps with
`mutex_` held where the code holds it (`phase` is the control, `todo` the loop).
`/load_dataflow` is Clear, the loop over Step::pause, MoveOut, Destroy, Wipe
(first by the route, then again by `load_json`), AddStep for each node, AddPipe
for each connection, LoadReturns; LoadFails is an exception of `load_json`.
A source thread repeats SourceLoop, PublishTo for each output pipe, SendReturns; a
listener ListenerStart, ListenerLoop, ListenerHandle or ListenerNothing, and sends
on as a source does. A push and a `pop_wait` are one step each: `Pipe` has their
insides. Pipe objects are distinct from ids, because `clear` and `reset` replace
the object of an id while a listener still holds the old one.

**ThreadManager.** Critical sections of a worker's mutex contain no wait and are
one step each; the test of the state, the section and the notify of `enqueue` are
separate steps, as are flag, notify and join of `shutdown` for each worker.

**ServiceManager.** A client calls (Call, or CallRefused after the stop), notifies
(CallNotify) and waits for its future (Get). `answer` is the promise a thread
waits for: none, pending, a value, an exception ("error"), or broken. The worker
takes a task (WorkerTake), looks the server up (WorkerLookup) and sets the promise
(WorkerReturn), or sets an exception because there is no server or one of other
types. `Nesting` is the set of topics whose handlers call a client function
themselves, on the worker's thread. The destructor is StopFlag, StopNotify,
StopJoin; the last one destroys the queue and so breaks the promises in it. The
test of the worker's wait and its sleep are two steps, with the mutex held between,
because the destructor takes no mutex.

**ActionManager.** CreateSession is the section of `create_action_session` under
`map_mutex_`, QueueGoal the one under `queue_mutex_`. The worker's section is split
in two with `mapLock` held (WorkerStart, then one of CallbackThrows,
CallbackReturns, CallbackFinishes), since it calls the goal callback inside. An
actor that has kept its session ends it by Finish (the state), Result (the
commander's callback) and Complete (`on_complete`). `Prompt` is the set of actions
whose actor ends the session inside the goal callback: `on_complete` then waits for
the mutex its own thread holds, the state `WaitsForItself`. `Patient` is an
assumption about the environment, for each action: no goal is sent for it, by any
commander, while one is without result, and its actor is not registered again while a
goal of it is under way.
The code asks for neither; `action_overlap` shows what happens without.

**NodeLib.** A plugin is a sequence of builds, numbered; `disk` is the newest, `handle`
the one that is open, `judge` the one whose `is_hot_reloadable` is asked, and
`creators` the build a class is made from. `node` is the build a step's node is of, 0
for the null pointer. The operator's requests are Run, Pause and Load; a load is
Cleared, then pass 1 (CreateStep and Configure of each node, or CreateFails, or
ConfigureHangs), pass 2 (Connect, ConnectFails), pass 3 (the sort, Initialize) and
LoadReturns. The sort is steps of the load on the code's own locals (`node_ids`,
`adj`, `in_degree`, `queue` for `q`, `init_order`): Seed puts the steps no pipe
enters into the queue, Pop sorts its first and Cross goes through the pipes that
leave it, AddRest appends what is left behind a cycle in the order of the file, and
Sorted hands the order to the studio. A node's `initialize()` may throw, if its build
is in `Failing`: in a load (InitializeFails) the request fails with every step there
and only some initialized; in a reload (ReinitializeFails) the rest of the reload is
given up. The monitor thread reads an event (Notice) and loads a new plugin (LoadNew)
or replaces a known one: Kill and TakeOut for each step, Unload, Reopen, then Inject,
Reinitialize and Restart for each step, Reloaded. A build may not open (`Broken`),
throw in its `plugin_init` (`Throwing`), or not be hot reloadable (`Stateful`). Threads that run
nodes are Enter and Leave; a step in `Pooled` is one found busy, whose messages are
queued (Enqueue) and run by a worker (PoolTake). Messages, pipes' contents and the
steps of pausing are those of `Dataflow`. `Ask` is an assumption about the operator:
no request while a plugin is reloaded, and no reload while one is served. Nothing in
the code keeps them apart; see the observations below.

**Agent.** `main` is StopServer (the signal), CloseServer, StopRecorder, StopSteps and
TakeSteps (the two halves of `Studio::clear` under its mutex), ClearReturns, PoolEnds
(`ThreadManager::shutdown`) and Exit (`~NodeLib`), each waiting for the join before it.
The server thread is Listen and ListenerEnds; a request is Run, or Pause to
PauseReturns, or Pause, Cleared, AddStep, LoadReturns or LoadHangs, the state "stuck" of
`NodeLib`. The telemetry thread is RegisterAgent, then Report, GetStep and TakeLogs
(or TakeGone, for a step that has meanwhile left the studio) of each step, Post, and
StopReporting. The recorder is Collect, Write, TestRunning, TestQueue, which reads
the queue without the mutex. A handler is Enter, Log and Segment any number of times,
Leave; a step that is found busy (FindBusy) has its messages handled by the pool, and
one whose node has been destroyed under such a message is `late`. With `Watching` there
is the thread that reloads plugins, which `main` joins last and which therefore goes on
while everything else is stopped: Notice, Kill and TakeOut for each affected step,
Reopen, then Make, Restart and Release for each, Made, Called (the callback into
`AgentServer`), WatchEnds. It holds a step by a reference (`grip`), so a step that
`main` has dropped lives on until Release, and is destroyed there (Destroyed).
StepIsLost and Race are the points where it uses something that may be gone, and the
process may end in "crashed". Entries and records are numbered as they are made, so
that order, loss and repetition can be seen; `Newest` is a deque that drops its oldest.

## 3. Runs

| run | question | bounds | states |
|---|---|---|---|
| `spsc_queue` | is the ring a FIFO when indices arrive late? `QueueInv` also excludes two threads in one slot (`NoSlotRace`, a theorem). | 3 messages, 4 slots, unbounded runs | 27,001 |
| `pipe_delivery` | are wake-ups, order and delivery right while the ring does not overflow, and is the pipe a closable FIFO channel? | 1 producer, 3 pushes, capacity 3, a stop | 2,990 |
| `pipe_store_buffer` | what remains under store buffers and overflow? | capacity 1, 3 pushes, a stop | 43,257 |
| `dataflow` | one operator, all requests, on a chain of three steps | 1 message per pipe | 422,209 |
| `dataflow_operators` | two operators: quiet pauses, answered requests, handled messages | 2 steps, 1 message per pipe | 96,444 |
| `dataflow_restart` | do messages flow whenever the status is RUNNING? **No** | 2 steps, 1 operator | violated |
| `thread_manager` | are wake-ups, counts, order and shutdown right? | 2 callers of 2 calls to one of 2 workers, limit 1 | 100,332 |
| `service` | is every call in one place and answered, and does the stop return? | 2 clients, 2 topics (one nesting), 2 signatures | 55,279 |
| `action` | with patient commanders: one goal at a time, one result, a ready actor? | 2 commanders, 2 actions (one prompt), 2 sessions | 27,222 |
| `action_overlap` | is one goal at a time enforced by the manager? **No** | 2 commanders, 1 action, 2 sessions | violated |
| `hot_reload` | is the code that runs current, the order right, the newest build reached, every request answered? | 3 steps (one pooled), 2 plugins with 4 and 2 builds, 6 files | 218,420 |
| `agent` | are logs, records and the exit right, with a reload or a stuck load under way? | 1 step, inline and pooled; a log of 1 of 2 entries, a queue of 1, 1 record followed of any number | 980,464 |

*Why the bounds are enough.* The ring is run at four slots, so that indices wrap at
every phase and both sides lag by more than one store, with two message values to
tell a stale slot from a fresh one; behaviours are not bounded. A
pipe of capacity one overflows with its second push, and the third lets the
listener see a slot twice. In the graph a chain of three has a source, a relay and
a sink, so that the order of pausing matters and a listener sends; a depth of one
reaches both empty and full. Requests are unbounded in number: every sequence of
requests is explored, and the runs have no deadlock. Two operators are the least that
overlap; the others of the HTTP pool queue on the same mutex. With a
limit of one the test `> Limit` refuses the third task, at the same boundary as
2048; two callers on one worker contend for it while the other worker has
nothing but a shutdown to see. `Quota` bounds the pushes and calls of a thread and
is the only counter that is cut; `thread_manager` stops when they are used up
and switches off deadlock checking for that reason. Two clients of the service
manager queue behind each other, and the nesting handler adds the worker as a third
caller; calls are not bounded. Two sessions are one goal after another on
one action, or two actions at once; both contend for the one worker and
`map_mutex_` (three sessions pass as well, in more time than is worth spending).
`action` switches deadlock checking off because the worker that waits for itself
stops everything; its liveness properties name that state and no other.
In `hot_reload` three steps are the fewest that fork and join and that put a
step behind a cycle; one file lists a fork backwards and has two ports on one
source, one has a cycle, one mixes the two plugins, and three fail: an id twice, a
pipe that does not fit, a value that does not convert. The first plugin's second build does
not open, its third does but its nodes' `initialize()` may throw, and its fourth is
good, so that a good build follows each kind of bad one and two may be pending at
once; any file can fail in the third pass while the third build is in use. The other
plugin turns up later, its first build throws and its second is stateful. A load that
hangs stops the operator and with it the reloads, hence no deadlock check. In `agent`
two entries of a log with room for one make one push the other out at every point of a
report. Records are pushed without bound, so that the recorder may never be done; the
first one is followed, and of the later ones it matters only that there are enough to
push it out (`Latest`). One step can be under way in all the ways that matter to the
exit: handled by its listener or the pool, held by a report, held by a reload, dropped
by a load or by `main`; several steps (the theorems are for any number) multiply the
states beyond what a run can take with liveness. It checks no deadlock since an agent
that has exited stops.

*Fairness.* Each `FairSpec` assumes that threads are scheduled (weak fairness of
each thread's steps inside a call), that handlers return, that store buffers drain,
and that a thread which keeps finding a mutex free gets it in the end (strong
fairness of lock steps), and that an actor which has taken a goal ends it. In
`NodeLib` requests leave gaps in which the monitor thread reads its events (strong
fairness of Notice). In `Agent` the thread that reloads is scheduled like the others.
Nothing makes an operator send a request, a node send, a caller
call, a commander send a goal, a studio change state, a manager stop, a build or a
signal come, a server listen or a post arrive.

### What the violated runs show

* `dataflow_restart`: `pause` closes the input pipes with `notify()`; no code opens
  a pipe again (`Pipe::reset` has no caller). RUNNING after STOPPED starts every
  listener and node, and each push is dropped.
* `action_overlap`: two goals sent before the worker starts the first are both
  accepted, for `is_executing` is still false; the second session takes the place of
  the first in `active_sessions_`, and the worker hands the actor that second session
  twice. With `Patient` the property holds, and is proved.

### Exceptions that properties name

* `StopReturns` of both managers leaves out a stop that is set and notified between
  the worker's test and its sleep: the destructor takes no mutex, and that worker is
  never woken.
* `CallsAnswered`, `GoalsHaveResults`, `ReadyAgain` and `StopReturns` except
  `WaitsForItself`: a service handler that calls a service, or a goal callback that
  ends its session, blocks the one worker for ever.
* `Delivered` holds only without store buffers. With them, producer and listener can
  each read the other's flag before their stores land, and the listener sleeps on a
  message. `PushWakes`, which does hold, says that the next push gets it out.
* `CodeIsCurrent` leaves out `Pooled` steps: a task in the pool calls the node its
  step has when the task runs, and nothing joins the worker before that node is
  destroyed and its library closed. It also leaves out classes whose library is
  closed while their creators are still registered (`handle` is 0, or the build is
  in `Throwing`): `load` keeps no context of a library whose `plugin_init` throws,
  and a reload that fails has closed the old one.
* `CodeIsCurrent` says "was initialized" only of builds whose `initialize()` does not
  throw. When it throws in a reload (`nodelib.hpp:816`), the catch leaves the node in its
  step, and the next RUNNING runs it as if it were ready.
* `NewestCodeRuns` leaves out `Stateful` builds: the log of a reload says "deferred
  until graph stop" (`nodelib.hpp:827`), and nothing performs it later. It also leaves
  out `Failing` builds: after a throwing `initialize()` the steps behind that one stay
  without nodes until the next build.
* `RequestsReturn` of `NodeLib` leaves out "stuck": `string_convert`
  (`type/type_register.hpp:78`) calls `get_name` for the message of an exception, and
  that takes the mutex `string_convert` holds. One parameter value that does not
  convert stops the load, and with it every later request.
* `ShutdownReturns` of `Agent` names four ways in which `main` does not return. `Missed`:
  a signal that comes before the server listens makes `server_.stop()` without effect,
  and `main` waits in its join. A load that is stuck keeps the same join waiting (or the
  telemetry thread's, since the load has the studio's mutex). `Draining`: the recorder is
  joined (`agent/agent.cpp:162`) before the steps are paused, its loop ends only when it
  finds the queue empty (`utils/performance_recorder.hpp:87`), and steps that push faster
  than it writes keep it from that; only behaviours in which it finds records again and
  again are left out. "crashed": a reload under way uses what is not there any more.
* `ExitIsQuiet` says what a reload may still do while `main` ends: nothing joins its
  thread before `~NodeLib` (`nodelib.hpp:59`), so a step that `main` has dropped may be run
  once more, and be destroyed by the reload.
* `LogsOnce` says nothing of loss: a report whose post fails
  (`agent/server.hpp:279`) has emptied the logs, and its entries are gone.

### Observations without a run

* `push` on a full ring pops on the producer's thread. The listener has loaded
  `tail_` and stores its successor after the producer stored one of its own: `tail_`
  goes back, and a message comes a second time (`MCPipe` with capacity 2, a quota of
  4 and no stopper violates `InOrder`). Two producers inside `push` at once fill one
  slot. `DeliveryInOrder` proves that nothing else goes wrong: without the two,
  delivery is in order and complete.
* With two operators, the clear of one load runs `PipeFactory::clear` after it has
  released the studio, when the other load has built its graph: that one answers
  success, its pipes are gone from the factory, and its listeners will find none
  (`MCDataflow` with two operators that only load violates `LoadedIsComplete`; with
  requests asked one at a time, `Apart`, it is proved).
* All plugins share one `NodeFactory`: a reload of one recreates the nodes of all
  (`Affected`), and a build that fails to load takes them all out while the status
  stays RUNNING.
* The functions of a context are looked up again on a reload, except
  `is_hot_reloadable`, whose answer stays that of the first load.
* A reload gives the new nodes no parameters and no topics, although the log says
  "restored" (`given` loses the step in TakeOut and gets it back only by a load); it
  runs each step even when the status is STOPPED; and their input pipes have been
  closed by `pause`.
* Requests and reloads use the steps without a common mutex: a load during a reload
  leaves the monitor thread a null step, and a STOPPED is undone by its `run`.
  `Agent` has the same between a reload and the `clear` of `main`: `get_step` is not
  tested (`nodelib.hpp:751`, `805`).
* `Step::get_logs` reads `node_` without a mutex (`step.hpp:183`) while a reload replaces
  it, a reload destroys a node that a worker of the pool may be inside of, and the
  callback of a reload (`agent/server.hpp:39`) may come when `AgentServer` is gone: `Race`.
* `--threads-urgent` and its siblings (`agent/agent.cpp:30`) say they set pool sizes,
  and `set_urgent_threads` and the others (`thread_manager.hpp:108`) do nothing; the
  pool has four threads.

## 4. Proofs

For every value of the constants, from the modules' named ASSUMEs only:

| theorem | says | argument |
|---|---|---|
| `SpscQueueProofs!TypeCorrect`, `QueueInvariant` | `Spec => []QueueInv` | `QueueInv` is inductive: the four indices lie in the order tailSeen, tail, headSeen, head round the ring (`IndexOrder`), and a thread inside a call owns its slot (`SlotOwned`). Lemmas about `Succ` and `ReadAvailable` reduce modular arithmetic to distances. |
| `SlotRaceFree` | `Spec => []NoSlotRace` | follows from `SlotOwned` and `IndexOrder`. |
| `Refinement` | `Spec => Fifo!Spec` | each step of the ring maps to a step of `BoundedFifo` or a stutter, under `QueueInv`. |
| `PipeProofs!NoWakeupIsLost` | `~Buffered` implies `Spec => []NoLostWakeup` | the invariant follows `consumer_waiting_`, the mutex and the listener's control: a push published after the predicate loaded `head_` sees the flag, or waits for the mutex. |
| `PipeProofs!TypeCorrect` | `Spec => []TypeOK` | with store buffers and without: a load returns the newest store of its thread or the shared value (`LatestStore`), both in the variable's range. |
| `PipeProofs!DeliveryInOrder` | `~Buffered` implies `Spec /\ [](Serial /\ NoOverflow) => InOrder` | `RingInv`: each side's copy of an index is the index (`Ends`), the slots from `tail_` to `head_` hold for each producer growing numbers above the last one delivered and not above those pushed (`Fresh`, `Growing`), with none left out until a stop (`Whole`, `Kept`). So the oldest slot holds the next number. `Serial` says that no two producers are between the load and the store of `head_`, `NoOverflow` that no producer pops; without either the property fails. |
| `PipeProofs!OneProducerInOrder` | one producer and `Quota <= Capacity` imply `Spec => InOrder` | the two hypotheses above follow: the occupied slots are no more than the messages pushed and not delivered (`RoomLeft`). This is the pipe of `pipe_delivery`, with any quota and capacity. |
| `PipeProofs!ImplementsTheChannel` | `~Buffered` implies `Spec /\ [](Serial /\ NoOverflow) => ImplementsChannel` | a push that has begun and not yet stored `head_` is under way, the slots from `tail_` to `head_` are the channel (`Content`), `started_` says whether it is open. Under `RingInv` the store of `head_` is a `Put`, the listener's store of `tail_` a `Take` of the oldest, the first store of `stop()` is `Close`, and every other step of the three kinds of threads is invisible; `At` and `Gap` reduce the modular places to distances. |
| `PipeProofs!OneProducerIsAChannel` | one producer and `Quota <= Capacity` imply `Spec => ImplementsChannel` | the two hypotheses follow as for `OneProducerInOrder`. |
| `DataflowProofs!ListenersStayInReach` | `Spec => []NoOrphanWait` | inductive with the types it needs: objects leave the factory only through `ClearFactory`, which closes them, and `GetPipe` never revives an object a listener holds. Any graph, any number of operators. |
| `DataflowProofs!TypeCorrect` | `Spec => []TypeOK` | with `TypeInv`, which adds that a request has something to go through and a thread something in hand where control says so. |
| `DataflowProofs!PausedQuiet`, `HandlersActive` | `Spec => []PausedIsQuiet`, `Spec => []HandlersOnActiveNodes` | `StepInv`: the mutex is held by the request whose phase says so, by no other; outside a pause the steps with threads are exactly running ones, and during one the step that is being joined as well. |
| `DataflowProofs!LoadsAreComplete` | `Spec /\ Apart => LoadedIsComplete` | `LoadInv`: at most one request is under way (`OneAtATime`), and what it has gone through of the file is in the studio, linked and open in the factory (`LoadedTo`). `Apart`: a request is sent when none is under way. |
| `ThreadManagerProofs!NoWorkerSleepsOnWork` | `Spec => []NoSleepOnWork` | a push into the queue of a sleeping worker leaves its caller before the notify; shutdown passes every worker between setting the flag and joining. |
| `ThreadManagerProofs!InOrderOfCalls` | `Spec => HandledInOrder` | `OrderInv`: the tasks of a caller are all with its worker, the running one first and the queued ones in the order of the calls, and each is newer than what has been executed. |
| `ThreadManagerProofs!EveryCallAccounted` | `Spec => []Accounted` | `AccountInv`: the calls begun are split into those under way, queued, in hand of a worker, executed and dropped; each step moves one from a part to another, and every count is the cardinality of a finite set that gains or loses one member (`NotStarted`: a worker that `start` has not come to has no state). |
| `ServiceManagerProofs!NoCallIsLost`, `NoWorkerSleepsOnCall` | `Spec => []CallsInHand`, `Spec => []NoSleepOnCall` | the two are inductive together with the types and with what control says of the promise (an idle thread has none) and of the mutex (a worker about to sleep holds it, and the queue stays empty). |
| `ActionManagerProofs!OneGoalForAnActor`, `NoSecondResult` | `Patient` implies `Spec => OneGoalAtATime`, `Spec => []OneResult` | `GoalInv`: a session that waits, or that an actor has begun, is the one `active_sessions_` records for its action, so an action has one such session; `is_executing` tells the two cases apart, and a session is in one place at a time. Hence a goal is started with its own session, and `on_complete`, which works by name, hits nobody else's. |
| `ActionManagerProofs!ExecutingActorHasSession` | `Spec => []ExecutingHasSession` | inductive with the types; `Patient` is not needed. |
| `NodeLibProofs!NoStaleCode` | `Spec => []CodeIsCurrent` | `CurrentInv` is the types with three parts: `CodeInv` (every node and every class is of the build that is open; while a reload takes nodes out, a step that still has one is still to come, and when the library is closed none has), `LoadInv` (which steps each pass has made and initialized) and `ThreadInv` (a step that runs, or that a thread is inside of, has a node, initialized if the load was complete and its build is not in `Failing`; a request that pauses or loads leaves none running). |
| `NodeLibProofs!OrderIsTopological` | `Spec => []SortedOrder` | `SortInv`, by phase of the sort: `adj` and `in_degree` are those of the pipes (`GraphInv`, `CountInv`); a step is in the queue or sorted once and exactly if its in-degree is used up, and every crossed pipe leaves a sorted step (`SeedInv`, `KahnInv`). When the queue is empty each unsorted step has a predecessor that is unsorted, so the unsorted steps are a set closed under a predecessor of each: they are behind a cycle, and only they come last (`RestInv`, `DoneInv`). |
| `AgentProofs!NothingIsLeftBehind` | `Spec => []ExitIsQuiet` | `ExitInv`: each join of `main` leaves a thread ended that does not start again; once the listener has ended no request sets a step running, and once the studio is empty a reload makes no node: it can run only the step it holds, and destroys it before its thread ends. With and without that thread. |
| `AgentProofs!RecordsAreWritten` | `Spec => []RecordsWritten` | `RecordInv`: the queue holds the records that follow some number `base`, and what is written or in the batch is not above it and has every followed record up to it, unless `Room` later ones came; when the recorder passes both its tests, `base` is not below what had been pushed at the stop. |
| `AgentProofs!NoEntryTwice` | `Spec => []LogsOnce` | the places of an entry (received, payload, a dropped step's log, the log) in that order hold an increasing sequence not above `logged`; each step moves an end of one to the next, or drops some. |
| `TypeCorrect` of `ThreadManagerProofs`, `NodeLibProofs`, `AgentProofs` | `Spec => []TypeOK` | inductive with what control says of the variables of a call. |
| `TypeCorrect` of `ServiceManagerProofs` and `ActionManagerProofs` | `Spec => []TypeOK` | for the action manager `TypeInv` adds that only sessions that have been made are named anywhere, and that the session of a running goal callback is recorded. |

The ASSUMEs say what kind of values the constants are. Two stand for the standard
library: `OrderAssumption` of `NodeLib` (iterating a map gives its keys, each in
some place) and the finiteness of sets of callers. No algorithm of the code is
assumed: the sort, the loops over steps and the folds are steps of the models.
Two hypotheses restrict behaviours, `Serial /\ NoOverflow` and `Apart`; section 3 says
what the code does outside them. `~Buffered` (stores visible at once) is a hypothesis
of the wake-up and the order of the pipe; with store buffers the first is false.

Model-checked only: the properties that need fairness (OldestIsPopped, StopReleases,
PushWakes, Delivered, RequestsReturn, MessagesAreHandled, QueuedIsExecuted,
ShutdownReturns, CallsAnswered, GoalsHaveResults, ReadyAgain, StopReturns,
NewestCodeRuns): a proof of them goes through ENABLED, which this prover does not
treat. Every invariant and every action property of the passing runs is proved.

## 5. Abstractions

* Messages are values or counts; ports, types, parameters and names do not matter
  to the properties. One output port feeds an input port through one pipe.
* Handlers run on listener threads: a `FINS_LIGHT_SCHEDULER` build always, others
  until a step is found busy. The pool is modelled apart.
* `Dataflow` takes the order of a graph as the constant `Order`, and its requests are
  not disturbed by reloads; the sort, the failures of a load and the reload are in
  `NodeLib`, which has one operator and no messages.
* A parameter or topic is one the node knows, does not know, or cannot convert.
* The inotify queue holds a count of each plugin's events; the copy of a library to
  its runtime path is taken at the moment it is opened.
* Of what a plugin's code may do, `plugin_init` and `initialize()` may throw (a
  `std::exception`, which is what the code catches); constructors and `define()` do not.
* `Agent` has the states of a dataflow that matter to telemetry and exit: present,
  running, inside of a handler. A report is one sequence for each step. A step has one
  listener, and one message at a time with the pool, from when its listener gives it. A
  message that the pool still handles for a node that is gone logs where nobody reads.
  As in `NodeLib` requests come one at a time and none during a reload; `main` may end at
  any point of one. The thread reads one event at a time. Testing and setting `running_`
  is one step. Records beyond the followed ones are not told apart.
* `/reset` calls `node->reset()` on each node; what nodes do then is theirs.
* `thread_manager` lets the studio change state at any time.
* Services and actions: arguments, results and feedback are left out, the types of a
  call are one signature, and the error paths of `create_action_session` change
  nothing. An actor ends a session once each time it is handed it. A result callback
  that throws, and so skips `on_complete`, is left out.

Not modelled:

* parameter server (a map behind a mutex, filled from one text and read by key), AoI
  analyzer and system monitor (figures for telemetry over records and `/proc`; no
  other state depends on them, though records are read while another thread replaces
  them, `analysis/aoi_analyzer.hpp:79`);
* inspector, clock, formatting, file and network helpers: I/O without state of their
  own; vendored code in `third_party/`;
* the templates of `node.hpp` and `functional_node.hpp` that dispatch a message to a
  handler: what they keep is the user's state; of `/apply_parameters` and the routes
  that list things only the answer depends;
* code without a caller: `Pipe::reset`, `try_pop`, `Studio::remove_step`,
  `PipeFactory::remove_pipe`, `ActionSession`.

## 6. Plan

What would come next, most important first:

1. Requests that overlap a reload: `NodeLib` without `Ask`, with the steps of
   `Studio`'s mutex from `Dataflow`, to say which orders leave null or stopped steps.
2. Pooled steps: `Dataflow` with busy steps whose messages go through
   `ThreadManager`; order between inline and pooled messages.
3. `Pipe` with two producers (a node that sends from the handlers of two ports) and
   several pipes for one port (its listener blocks on the first empty one).
4. Services and actions of nodes that are cleared or replaced (`node.hpp:640`): their
   callbacks stay registered.
5. Proofs: delivery in order and the refinement of `MessageChannel` with store buffers;
   the pipe objects of `Dataflow` as such channels.
