------------------------------- MODULE Agent --------------------------------
(***************************************************************************)
(* The agent's process (agent.cpp): main, the HTTP thread and the          *)
(* telemetry thread of AgentServer (server.hpp), the thread of NodeLib     *)
(* that reloads plugins (nodelib.hpp), the logs of the nodes (NodeLogger   *)
(* in node_log.hpp), and the recorder that writes the times of handled     *)
(* messages to a file (PerformanceMonitor in performance_recorder.hpp).    *)
(*                                                                         *)
(* Log entries and records are numbered in the order they are made.  The   *)
(* insides of running, pausing and loading are in Dataflow, those of       *)
(* plugins in NodeLib, those of the pool in ThreadManager; here they are   *)
(* what matters to telemetry, records and the end of the process.  As in   *)
(* NodeLib, requests come one at a time, and none while a plugin is        *)
(* reloaded; a signal comes at any time.                                   *)
(***************************************************************************)
EXTENDS Naturals, Sequences, FiniteSets, SequencesExt

CONSTANTS Steps,     \* the steps of the dataflow
          None,
          Pooled,    \* steps that may be found busy; their messages go to the pool
          Watching,  \* has --load-all made load_directory start monitor_thread_?
          LogRoom,   \* entries a log keeps (200)
          Room,      \* records the queue keeps (5000)
          MaxLogs,   \* bound: entries each step logs
          MaxRecords \* bound: records that are followed; nodes push for ever

ASSUME AgentAssumption ==
  /\ None \notin Steps /\ Pooled \subseteq Steps /\ Watching \in BOOLEAN
  /\ LogRoom \in Nat \ {0} /\ Room \in Nat \ {0}
  /\ MaxLogs \in Nat /\ MaxRecords \in Nat

VARIABLES
  main,      \* control of main
  listener,  \* control of server_thread_
  request,   \* control of the request that is served
  state,     \* g_running_state
  present,   \* steps of the studio
  bare,      \* steps with a null node_
  running,   \* steps whose running_ is set
  forced,    \* steps whose force_pool_ is set
  busy,      \* steps whose node handles a message, or the pool has one for it
  late,      \* steps that have lost that node since, to a load or a reload
  logged,    \* how many entries each step has logged
  logs,      \* NodeLogger::logs_ of each step's node
  stop,      \* stop_monitoring_
  telemetry, \* control of monitoring_thread_
  ids,       \* steps that get_node_metrics still has to ask, in any order
  held,      \* the step it has a reference to
  gone,      \* the log of that step, once the studio has dropped it
  payload,   \* entries in the report, of each step
  received,  \* entries the orchestrator has been sent, of each step
  watch,     \* control of monitor_thread_
  affected,  \* affected_steps
  stale,     \* those of them a loop still has to go through
  grip,      \* the step it has a reference to
  recording, \* PerformanceMonitor::running_
  made,      \* how many records have been pushed, up to Latest
  queue,     \* PerformanceMonitor::queue_
  worker,    \* control of worker_loop
  batch,     \* its batch
  written,   \* the records in the file
  due        \* made when the recorder was told to stop

server == <<listener, request>>
studio == <<state, present, bare, running>>
handlers == <<forced, busy, late>>
entries == <<logged, logs>>
reports == <<stop, telemetry, ids, held, gone, payload, received>>
monitor == <<watch, affected, stale, grip>>
recorder == <<recording, worker, batch, written, due>>
records == <<made, queue>>
vars == <<main, server, studio, handlers, entries, reports, monitor, recorder,
          records>>

Empty == [s \in Steps |-> <<>>]

\* main has started the pool and the recorder, has loaded the plugins, and has
\* started the server.
Init ==
  /\ main = "serve" /\ listener = "starting" /\ request = "none"
  /\ state = "PAUSE" /\ present = {} /\ bare = {} /\ running = {}
  /\ forced = {} /\ busy = {} /\ late = {}
  /\ logged = [s \in Steps |-> 0] /\ logs = Empty
  /\ stop = FALSE /\ telemetry = "register"
  /\ ids = {} /\ held = None /\ gone = <<>>
  /\ payload = Empty /\ received = Empty
  /\ watch = (IF Watching THEN "idle" ELSE "off")
  /\ affected = {} /\ stale = {} /\ grip = None
  /\ recording = TRUE /\ made = 0 /\ queue = <<>>
  /\ worker = "wait" /\ batch = <<>> /\ written = <<>> /\ due = 0

\* The last n of a sequence: a deque that drops its oldest.
Newest(n, q) == IF Len(q) <= n THEN q ELSE SubSeq(q, Len(q) - n + 1, Len(q))

-----------------------------------------------------------------------------
(* The nodes *)

\* The listener of a step that runs finds that it is busy, and from now on gives
\* the messages to the pool.
FindBusy(s) ==
  /\ s \in (running \cap Pooled) \ (forced \cup busy)
  /\ forced' = forced \cup {s}
  /\ UNCHANGED <<main, server, studio, busy, late, entries, reports, monitor,
                 recorder, records>>

\* A node is handed a message: by the listener of a step that runs, or by the
\* worker of the pool that its listener has given it to.
Enter(s) ==
  /\ s \in running \ busy
  /\ s \in forced => state = "RUN" /\ s \notin late
  /\ busy' = busy \cup {s}
  /\ UNCHANGED <<main, server, studio, forced, late, entries, reports, monitor,
                 recorder, records>>

\* An entry of the level the agent keeps, or above it.
Log(s) ==
  /\ s \in busy /\ logged[s] < MaxLogs
  /\ logged' = [logged EXCEPT ![s] = @ + 1]
  /\ logs' = [logs EXCEPT ![s] = Newest(LogRoom, Append(@, logged'[s]))]
  /\ UNCHANGED <<main, server, studio, handlers, reports, monitor, recorder,
                 records>>

\* Records up to MaxRecords are followed; of those that come later it matters that
\* there are Room.
Latest == MaxRecords + Room

\* PerformanceMonitor::push_record
PushRecord ==
  /\ made' = IF made < Latest THEN made + 1 ELSE Latest
  /\ queue' = Newest(Room, Append(queue, made'))

\* A ScopedSegmentTimer of the handler goes out of scope.
Segment(s) ==
  /\ s \in busy \cup late
  /\ PushRecord
  /\ UNCHANGED <<main, server, studio, handlers, entries, reports, monitor,
                 recorder>>

\* The handler returns, and the listener or the worker pushes the record of the
\* message.
Leave(s) ==
  /\ \/ s \in busy /\ busy' = busy \ {s} /\ UNCHANGED late
     \/ s \in late /\ late' = late \ {s} /\ UNCHANGED busy
  /\ PushRecord
  /\ UNCHANGED <<main, server, studio, forced, entries, reports, monitor, recorder>>

-----------------------------------------------------------------------------
(* Requests *)

\* server_.listen(): the port is bound, or is not free and the thread ends.
Listen ==
  /\ listener = "starting"
  /\ listener' \in {"listening", "ended"}
  /\ UNCHANGED <<main, request, studio, handlers, entries, reports, monitor,
                 recorder, records>>

\* A request arrives while no plugin is being reloaded.
Ask ==
  /\ listener = "listening" /\ request = "none"
  /\ watch \in {"off", "idle"}

\* /set_status RUNNING; Step::run() does nothing without a node.
Run ==
  /\ Ask
  /\ state' = "RUN" /\ running' = present \ bare
  /\ UNCHANGED <<main, server, present, bare, handlers, entries, reports,
                 monitor, recorder, records>>

\* /set_status STOPPED, and the clear() of /load_dataflow, join the listeners.
Pause(label) ==
  /\ Ask
  /\ state' = "PAUSE" /\ running' = {}
  /\ request' = label
  /\ UNCHANGED <<main, listener, present, bare, handlers, entries, reports,
                 monitor, recorder, records>>

\* No listener is inside of a node any more; workers of the pool may be.
Joined == busy \subseteq forced

PauseReturns ==
  /\ request = "pause" /\ Joined
  /\ request' = "none"
  /\ UNCHANGED <<main, listener, studio, handlers, entries, reports, monitor,
                 recorder, records>>

\* The logs go with their nodes.  The telemetry thread may hold one of the steps,
\* and a worker of the pool is inside of a step that its task keeps.
DropSteps ==
  /\ present' = {}
  /\ busy' = busy \ forced /\ late' = late \cup (busy \cap forced)
  /\ forced' = forced \cap {grip}
  /\ logs' = Empty
  /\ IF telemetry = "logs"
       THEN telemetry' = "gone" /\ gone' = logs[held]
       ELSE UNCHANGED <<telemetry, gone>>
  /\ UNCHANGED <<logged, stop, ids, held, payload, received>>

\* clear() has joined the listeners, and the steps are destroyed.
Cleared ==
  /\ request = "load" /\ Joined
  /\ request' = "add"
  /\ bare' = {}
  /\ DropSteps
  /\ UNCHANGED <<main, listener, state, running, monitor, recorder, records>>

AddStep(s) ==
  /\ request = "add" /\ s \notin present
  /\ present' = present \cup {s}
  /\ UNCHANGED <<main, server, state, bare, running, handlers, entries, reports,
                 monitor, recorder, records>>

\* All steps are there, or the load has failed on the way.
LoadReturns ==
  /\ request = "add"
  /\ request' = "none"
  /\ UNCHANGED <<main, listener, studio, handlers, entries, reports, monitor,
                 recorder, records>>

\* A parameter value does not convert: string_convert takes its mutex twice.
LoadHangs ==
  /\ request = "add"
  /\ request' = "stuck"
  /\ UNCHANGED <<main, listener, studio, handlers, entries, reports, monitor,
                 recorder, records>>

\* The listening socket is closed; the thread waits for requests under way.
ListenerEnds ==
  /\ listener = "closing" /\ request = "none"
  /\ listener' = "ended"
  /\ UNCHANGED <<main, request, studio, handlers, entries, reports, monitor,
                 recorder, records>>

Serve == PauseReturns \/ Cleared \/ LoadReturns \/ LoadHangs \/ ListenerEnds

-----------------------------------------------------------------------------
(* Telemetry *)

Continue(label) == telemetry' = label

\* What the telemetry thread leaves alone.
TelemetryFrame == UNCHANGED <<main, server, studio, handlers, logged, stop,
                              monitor, recorder, records>>

\* registerAgent(), whatever comes of it.
RegisterAgent ==
  /\ telemetry = "register"
  /\ Continue("sleep")
  /\ TelemetryFrame /\ UNCHANGED <<logs, ids, held, gone, payload, received>>

\* The interval has passed: reportTelemetry(), of the nodes while they run.
Report ==
  /\ telemetry = "sleep" /\ ~ stop
  /\ Continue("nodes")
  /\ ids' = IF state = "RUN" THEN present ELSE {}
  /\ TelemetryFrame /\ UNCHANGED <<logs, held, gone, payload, received>>

\* get_step(): a reference to the step, if the studio has it still.  A load that is
\* stuck has the studio's mutex for ever.
GetStep ==
  /\ telemetry = "nodes" /\ request # "stuck"
  /\ \E s \in ids :
       /\ ids' = ids \ {s}
       /\ \/ s \in present /\ held' = s /\ Continue("logs")
          \/ s \notin present /\ UNCHANGED <<held, telemetry>>
  /\ TelemetryFrame /\ UNCHANGED <<logs, gone, payload, received>>

\* A mutant: the entries are copied and stay in the log.
TakeLogs_Keeps ==
  /\ telemetry = "logs"
  /\ payload' = [payload EXCEPT ![held] = @ \o logs[held]]
  /\ held' = None
  /\ Continue("nodes")
  /\ TelemetryFrame /\ UNCHANGED <<logs, ids, gone, received>>

\* get_and_clear_logs() of a step the studio has; without a node it has none.
TakeLogs ==
  /\ telemetry = "logs"
  /\ payload' = [payload EXCEPT ![held] = @ \o logs[held]]
  /\ logs' = [logs EXCEPT ![held] = <<>>]
  /\ held' = None
  /\ Continue("nodes")
  /\ TelemetryFrame /\ UNCHANGED <<ids, gone, received>>

\* The same of a step that only this thread still knows.
TakeGone ==
  /\ telemetry = "gone"
  /\ payload' = [payload EXCEPT ![held] = @ \o gone]
  /\ gone' = <<>>
  /\ held' = None
  /\ Continue("nodes")
  /\ TelemetryFrame /\ UNCHANGED <<logs, ids, received>>

\* client.Post(): it arrives, or it fails and the entries in it are lost.
Post ==
  /\ telemetry = "nodes" /\ ids = {}
  /\ \/ received' = [s \in Steps |-> received[s] \o payload[s]]
     \/ UNCHANGED received
  /\ payload' = Empty
  /\ Continue("sleep")
  /\ TelemetryFrame /\ UNCHANGED <<logs, ids, held, gone>>

StopReporting ==
  /\ telemetry = "sleep" /\ stop
  /\ Continue("ended")
  /\ TelemetryFrame /\ UNCHANGED <<logs, ids, held, gone, payload, received>>

Telemetry ==
  \/ RegisterAgent \/ Report \/ GetStep \/ TakeLogs \/ TakeGone \/ Post
  \/ StopReporting

-----------------------------------------------------------------------------
(* The thread that reloads plugins.  It is stopped by ~NodeLib, the last thing *)
(* main does, so that a reload may go on while all else is stopped.            *)

Watch(label) == watch' = label

\* reload_plugin_process returns.
Done ==
  /\ Watch("idle")
  /\ affected' = {} /\ stale' = {} /\ grip' = None

MonitorFrame == UNCHANGED <<main, server, logged, reports, recorder, records>>

\* A plugin has been built: one that no step has its node of, and the orchestrator
\* is told; or one that some have.
Notice ==
  /\ watch = "idle" /\ main # "library" /\ request = "none"
  /\ \/ Watch("call") /\ UNCHANGED <<affected, stale>>
     \/ Watch("kill") /\ affected' \in SUBSET present \ {{}} /\ stale' = affected'
  /\ MonitorFrame /\ UNCHANGED <<studio, handlers, logs, grip>>

\* get_step(), and the first half of step->pause().
Kill(s) ==
  /\ watch = "kill" /\ s \in stale \cap present
  /\ grip' = s /\ stale' = stale \ {s}
  /\ running' = running \ {s}
  /\ Watch("join")
  /\ MonitorFrame /\ UNCHANGED <<state, present, bare, handlers, logs, affected>>

\* The listeners of the step are joined, and its node is destroyed.
TakeOut ==
  /\ watch = "join" /\ grip \notin busy \ forced
  /\ bare' = bare \cup {grip}
  /\ logs' = [logs EXCEPT ![grip] = <<>>]
  /\ busy' = busy \ {grip} /\ late' = late \cup (busy \cap {grip})
  /\ UNCHANGED forced
  /\ grip' = None
  /\ Watch("kill")
  /\ MonitorFrame /\ UNCHANGED <<state, present, running, affected, stale>>

\* The plugin is opened again, or is not to be loaded and the reload is over.
Reopen ==
  /\ watch = "kill" /\ stale = {}
  /\ \/ Watch("make") /\ stale' = affected /\ UNCHANGED <<affected, grip>>
     \/ Done
  /\ MonitorFrame /\ UNCHANGED <<studio, handlers, logs>>

\* get_step(); a node is made, put in and initialized, or does not allow it and
\* the reload is over.
Make(s) ==
  /\ watch = "make" /\ s \in stale \cap present
  /\ bare' = bare \ {s}
  /\ \/ Watch("run") /\ grip' = s /\ stale' = stale \ {s} /\ UNCHANGED affected
     \/ Done
  /\ MonitorFrame /\ UNCHANGED <<state, present, running, handlers, logs>>

\* step->run(), whatever the state of the studio.
Restart ==
  /\ watch = "run"
  /\ running' = running \cup {grip}
  /\ Watch("release")
  /\ MonitorFrame
  /\ UNCHANGED <<state, present, bare, handlers, logs, affected, stale, grip>>

\* The reference goes.  If it was the last one the step is destroyed, ...
Release ==
  /\ watch = "release"
  /\ \/ /\ grip \in present
        /\ grip' = None /\ UNCHANGED running
        /\ Watch("make")
     \/ /\ grip \notin present
        /\ running' = running \ {grip} /\ UNCHANGED grip
        /\ Watch("destroy")
  /\ MonitorFrame
  /\ UNCHANGED <<state, present, bare, handlers, logs, affected, stale>>

\* ... and ~Step() joins its listeners.
Destroyed ==
  /\ watch = "destroy" /\ grip \notin busy
  /\ grip' = None
  /\ Watch("make")
  /\ MonitorFrame /\ UNCHANGED <<studio, handlers, logs, affected, stale>>

\* All steps have been gone through: on_reloaded_callback_ registers the agent.
Made ==
  /\ watch = "make" /\ stale = {}
  /\ Watch("call")
  /\ MonitorFrame /\ UNCHANGED <<studio, handlers, logs, affected, stale, grip>>

Called ==
  /\ watch = "call"
  /\ Done
  /\ MonitorFrame /\ UNCHANGED <<studio, handlers, logs>>

\* stop_monitor_ is set.
WatchEnds ==
  /\ watch = "idle" /\ main = "library"
  /\ Watch("ended")
  /\ MonitorFrame /\ UNCHANGED <<studio, handlers, logs, affected, stale, grip>>

Crash ==
  /\ main' = "crashed"
  /\ UNCHANGED <<server, studio, handlers, entries, reports, monitor, recorder,
                 records>>

\* get_step() of a step that main has dropped is null, and is used.
StepIsLost ==
  /\ watch \in {"kill", "make"} /\ stale \ present # {}
  /\ Crash

\* What may go well or not: a node is destroyed while a worker of the pool is
\* inside of it or the telemetry thread takes its log, or the callback uses the
\* AgentServer that main has destroyed.
Race ==
  /\ \/ watch = "join" /\ grip \notin busy \ forced
        /\ (grip \in busy \/ (telemetry = "logs" /\ held = grip))
     \/ watch = "call" /\ main = "library"
  /\ Crash

Monitor ==
  \/ \E s \in Steps : Kill(s) \/ Make(s)
  \/ TakeOut \/ Reopen \/ Restart \/ Release \/ Destroyed \/ Made \/ Called
  \/ WatchEnds \/ StepIsLost

-----------------------------------------------------------------------------
(* The recorder *)

RecorderFrame == UNCHANGED <<main, server, studio, handlers, entries, reports,
                             monitor, recording, due, made>>

\* It is notified, or 200 ms are over: it takes what is in the queue.
Collect ==
  /\ worker = "wait"
  /\ batch' = queue /\ queue' = <<>>
  /\ worker' = "write"
  /\ RecorderFrame /\ UNCHANGED written

Followed(r) == r <= MaxRecords

\* A batch with none that is followed is not looked at again.
Write ==
  /\ worker = "write"
  /\ written' = (IF \E r \in Range(batch) : Followed(r) THEN written \o batch
                                                     ELSE written)
  /\ batch' = <<>>
  /\ worker' = "test"
  /\ RecorderFrame /\ UNCHANGED queue

\* A mutant: the loop ends without a look at the queue.
TestRunning_Only ==
  /\ worker = "test"
  /\ worker' = IF recording THEN "wait" ELSE "ended"
  /\ RecorderFrame /\ UNCHANGED <<batch, written, queue>>

\* running_ || ...
TestRunning ==
  /\ worker = "test"
  /\ worker' = IF recording THEN "wait" ELSE "last"
  /\ RecorderFrame /\ UNCHANGED <<batch, written, queue>>

\* ... !queue_.empty(), without the mutex: it sees a push under way, or not.
TestQueue ==
  /\ worker = "last"
  /\ worker' = IF queue = <<>> THEN "ended" ELSE "wait"
  /\ RecorderFrame /\ UNCHANGED <<batch, written, queue>>

Recorder == Collect \/ Write \/ TestRunning \/ TestQueue

-----------------------------------------------------------------------------
(* main *)

Goto(label) == main' = label

\* A mutant: the telemetry thread is not told.
StopServer_Silently ==
  /\ main = "serve"
  /\ Goto("telemetry")
  /\ UNCHANGED <<server, studio, handlers, entries, reports, monitor, recorder,
                 records>>

\* A signal ends the loop of main: AgentServer::stop().
StopServer ==
  /\ main = "serve"
  /\ stop' = TRUE
  /\ Goto("telemetry")
  /\ UNCHANGED <<server, studio, handlers, entries, telemetry, ids, held, gone,
                 payload, received, monitor, recorder, records>>

\* monitoring_thread_ is joined.  server_.stop() closes the socket; of a server
\* that does not listen yet it does nothing.
CloseServer ==
  /\ main = "telemetry" /\ telemetry = "ended"
  /\ listener' = IF listener = "listening" THEN "closing" ELSE listener
  /\ Goto("listener")
  /\ UNCHANGED <<request, studio, handlers, entries, reports, monitor, recorder,
                 records>>

\* server_thread_ is joined; PerformanceMonitor::stop().
StopRecorder ==
  /\ main = "listener" /\ listener = "ended"
  /\ recording' = FALSE /\ due' = made
  /\ Goto("recorder")
  /\ UNCHANGED <<server, studio, handlers, entries, reports, monitor, worker,
                 batch, written, records>>

\* worker_thread_ is joined; Studio::clear() pauses the steps.
StopSteps ==
  /\ main = "recorder" /\ worker = "ended"
  /\ state' = "PAUSE" /\ running' = {}
  /\ Goto("clear")
  /\ UNCHANGED <<server, present, bare, handlers, entries, reports, monitor,
                 recorder, records>>

\* Their listeners are joined, not those of a step that a reload has begun to pause,
\* and they are taken from the studio.  Those of a step that a reload has run again
\* meanwhile are told to end by its destructor, which runs when the reload has let
\* go of it.
TakeSteps ==
  /\ main = "clear"
  /\ busy \ forced \subseteq (running \cup IF watch = "join" THEN {grip} ELSE {})
  /\ DropSteps
  /\ running' = running \cap {grip}
  /\ Goto("destroy")
  /\ UNCHANGED <<server, state, bare, monitor, recorder, records>>

\* The steps are destroyed, but for one that a reload has a reference to.
\* ThreadManager::shutdown().
ClearReturns ==
  /\ main = "destroy" /\ busy \subseteq {grip}
  /\ Goto("pool")
  /\ UNCHANGED <<server, studio, handlers, entries, reports, monitor, recorder,
                 records>>

\* The workers of the pool are joined.  main returns and destroys its locals: the
\* AgentServer, which has stopped already, and the NodeLib.
PoolEnds ==
  /\ main = "pool" /\ late = {}
  /\ Goto("library")
  /\ UNCHANGED <<server, studio, handlers, entries, reports, monitor, recorder,
                 records>>

\* A mutant: monitor_thread_ is detached.
Exit_Detached ==
  /\ main = "library"
  /\ Goto("exit")
  /\ UNCHANGED <<server, studio, handlers, entries, reports, monitor, recorder,
                 records>>

\* monitor_thread_ is joined.
Exit ==
  /\ main = "library" /\ watch \in {"off", "ended"}
  /\ Goto("exit")
  /\ UNCHANGED <<server, studio, handlers, entries, reports, monitor, recorder,
                 records>>

Shutdown ==
  \/ CloseServer \/ StopRecorder \/ StopSteps \/ TakeSteps \/ ClearReturns
  \/ PoolEnds \/ Exit

-----------------------------------------------------------------------------
Next ==
  /\ main # "crashed"
  /\ \/ \E s \in Steps :
          FindBusy(s) \/ Enter(s) \/ Log(s) \/ Segment(s) \/ Leave(s) \/ AddStep(s)
     \/ Listen \/ Run \/ Pause("pause") \/ Pause("load") \/ Serve
     \/ Telemetry \/ Recorder
     \/ Notice \/ Monitor \/ Race
     \/ StopServer \/ Shutdown

Spec == Init /\ [][Next]_vars

\* Handlers return and threads are scheduled.  No signal has to come, no request,
\* no message and no plugin.
Fairness ==
  /\ \A s \in Steps : WF_vars(Leave(s))
  /\ WF_vars(Serve) /\ WF_vars(Telemetry) /\ WF_vars(Recorder)
  /\ WF_vars(Monitor) /\ WF_vars(Shutdown)

FairSpec == Spec /\ Fairness

-----------------------------------------------------------------------------
TypeOK ==
  /\ main \in {"serve", "telemetry", "listener", "recorder", "clear", "destroy",
               "pool", "library", "exit", "crashed"}
  /\ listener \in {"starting", "listening", "closing", "ended"}
  /\ request \in {"none", "pause", "load", "add", "stuck"}
  /\ state \in {"RUN", "PAUSE"}
  /\ present \subseteq Steps /\ bare \subseteq Steps /\ running \subseteq Steps
  /\ forced \subseteq Pooled /\ busy \subseteq Steps /\ late \subseteq Pooled
  /\ logged \in [Steps -> Nat] /\ logs \in [Steps -> Seq(Nat)]
  /\ stop \in BOOLEAN
  /\ telemetry \in {"register", "sleep", "nodes", "logs", "gone", "ended"}
  /\ ids \subseteq Steps /\ held \in Steps \cup {None} /\ gone \in Seq(Nat)
  /\ payload \in [Steps -> Seq(Nat)] /\ received \in [Steps -> Seq(Nat)]
  /\ watch \in {"off", "idle", "kill", "join", "make", "run", "release", "destroy",
                "call", "ended"}
  /\ affected \subseteq Steps /\ stale \subseteq Steps
  /\ grip \in Steps \cup {None}
  /\ recording \in BOOLEAN /\ made \in Nat /\ queue \in Seq(Nat)
  /\ worker \in {"wait", "write", "test", "last", "ended"}
  /\ batch \in Seq(Nat) /\ written \in Seq(Nat) /\ due \in Nat

Increasing(q) == \A i, j \in DOMAIN q : i < j => q[i] < q[j]

(***************************************************************************)
(* The orchestrator gets what a node logs in the order it was logged, and  *)
(* no entry twice, through reports that fail, and dataflows and plugins    *)
(* that are loaded while a report is put together.                         *)
(***************************************************************************)
LogsOnce ==
  \A s \in Steps :
    LET old == IF telemetry = "gone" /\ held = s THEN gone ELSE <<>>
    IN  Increasing(received[s] \o payload[s] \o old \o logs[s])

(***************************************************************************)
(* A record is written once and in order, unless Room later ones push it   *)
(* out first; and when the recorder has ended, every record that had been  *)
(* pushed before it was told to stop is in the file, or was pushed out.    *)
(* What nodes push after that stays in the queue.                          *)
(***************************************************************************)
RecordsWritten ==
  LET all == written \o batch \o queue IN
    /\ \A i, j \in DOMAIN all : i < j /\ Followed(all[j]) => all[i] < all[j]
    /\ \A r \in 1..MaxRecords :
         r <= made => r \in Range(all) \/ made - r >= Room
    /\ worker = "ended" =>
         \A r \in Range(batch \o queue) : Followed(r) => r > due

(***************************************************************************)
(* When main returns nothing is left that uses what it destroys: no step   *)
(* runs and no handler is in a node, and no request, report, record or     *)
(* reload is under way.  As main gets there, from the end of the pool's    *)
(* workers on all that is left is the reload: the one step it still has in *)
(* its hands may run, and only ~NodeLib, which joins its thread, ends that *)
(* (Race has what its callback may do before).                             *)
(***************************************************************************)
ExitIsQuiet ==
  /\ main \in {"pool", "library", "exit"} =>
       /\ present = {} /\ running \cup busy \subseteq {grip}
       /\ listener = "ended" /\ request = "none"
       /\ telemetry = "ended" /\ worker = "ended"
  /\ main \in {"library", "exit"} => late = {}
  /\ main = "exit" =>
       /\ running = {} /\ busy = {}
       /\ watch \in {"off", "ended"}

\* server_.stop() came before the server listened, and was lost.
Missed == main = "listener" /\ listener \in {"starting", "listening"}

\* The recorder is told to stop, and finds records that steps have pushed since: it
\* is joined before the steps are paused.
Draining == main = "recorder" /\ worker = "last" /\ queue # <<>>

(***************************************************************************)
(* After a signal the agent exits, whatever requests, reports, reloads and *)
(* handlers are under way, but for four ways not to: a server that was     *)
(* stopped before it listened, and a load that is stuck, keep main in the  *)
(* join of the server; records that come faster than the recorder's rounds *)
(* keep it in the join of the recorder; and a reload may crash it.         *)
(***************************************************************************)
ShutdownReturns ==
  \/ []<>Draining
  \/ main # "serve" ~> (main \in {"exit", "crashed"} \/ Missed \/ request = "stuck")
=============================================================================
