------------------------------ MODULE NodeLib -------------------------------
(***************************************************************************)
(* fins::NodeLib (nodelib.hpp): it makes the nodes of a dataflow from the  *)
(* plugins it has loaded, and a thread of its own watches the plugin       *)
(* directory and replaces the nodes when a plugin has been built again.    *)
(*                                                                         *)
(* A plugin is known by its file, its code by the number of the build.     *)
(* NodeFactory is one object of the process: examples/CMakeLists.txt makes *)
(* the agent export its symbols, and every plugin that registers a class   *)
(* registers it there.  So get_node_count and get_node_name of any plugin  *)
(* list the classes of all, and so does affected_steps of any reload.      *)
(*                                                                         *)
(* Dataflow has the insides of running, pausing and clearing; here they    *)
(* are what matters to a reload.  A dataflow is loaded, run and paused by  *)
(* one operator, who leaves the agent alone while a plugin is reloaded:    *)
(* nothing in the code keeps the two apart, see the README.                *)
(***************************************************************************)
EXTENDS Integers, Sequences, FiniteSets, Functions

CONSTANTS Steps,     \* step ids
          Ordered,   \* the steps of a set in the order of the map Studio::steps_
          Plugins,   \* plugin files
          Classes,   \* node classes, by source/name@version
          Home,      \* the plugin of a class
          First,     \* the build of each plugin that the agent finds, or 0
          MaxBuild,  \* how many builds of each plugin are made
          Broken,    \* <<plugin, build>> that dlopen refuses
          Throwing,  \* <<plugin, build>> whose plugin_init throws
          Failing,   \* <<plugin, build>> with nodes whose initialize may throw
          Stateful,  \* <<plugin, build>> that are not is_hot_reloadable
          Files,     \* dataflow files
          Pooled,    \* steps found busy, whose messages go to the pool
          None

ASSUME PluginsAssumption ==
  /\ Home \in [Classes -> Plugins] /\ None \notin Classes
  /\ First \in [Plugins -> Nat] /\ MaxBuild \in [Plugins -> Nat]
  /\ \A p \in Plugins : First[p] <= MaxBuild[p]
  /\ Broken \cup Throwing \cup Failing \cup Stateful
       \subseteq Plugins \X (Nat \ {0})
  /\ \A p \in Plugins : <<p, First[p]>> \notin Broken \cup Throwing
ASSUME OrderAssumption ==
  /\ Ordered \in [SUBSET Steps -> Seq(Steps)]
  /\ \A S \in SUBSET Steps : Range(Ordered[S]) = S
ASSUME FilesAssumption ==
  \A f \in Files :
    /\ f.nodes \in Seq([id : Steps, class : Classes,
                        values : SUBSET {"known", "unknown", "bad"}])
    /\ f.pipes \in Seq([from : Steps, to : Steps, fits : BOOLEAN])
    /\ Range([i \in DOMAIN f.pipes |-> f.pipes[i].to])
         \subseteq Range([i \in DOMAIN f.nodes |-> f.nodes[i].id])

VARIABLES
  disk,      \* the newest build of each plugin in watch_dir_
  pending,   \* its inotify events not read yet
  handle,    \* PluginContext::handle: the build that is open, or 0
  judge,     \* the build is_hot_reloadable is a function of; 0 without context
  creators,  \* NodeFactory::creators_: the build a class is made from, or 0
  class,     \* the class of each step of the studio (cached_meta_), or None
  node,      \* the build of its node, 0 for a null node_
  given,     \* steps whose node has been given the parameters of the file
  ready,     \* steps whose node has been initialized
  state,     \* g_running_state
  running,   \* steps whose running_ is set
  busy,      \* steps whose node a thread is inside of
  queued,    \* steps with a task in the pool
  pipes,     \* connected steps
  node_ids,  \* load_json: the steps of the file so far, as listed
  adj,       \* load_json: the steps that pipes of a step enter
  in_degree, \* load_json: of the pipes into a step, those not crossed yet
  queue,     \* load_json: q, steps all of whose pipes in have been crossed
  init_order,\* load_json: the steps sorted so far
  order,     \* Studio::topology_order_
  loaded,    \* has the last load been answered with success?
  phase,     \* control of the operator's request
  file,      \* the dataflow file it loads
  todo,      \* nodes, pipes or steps that load_json still has to go through
  reload,    \* control of the monitor thread
  target,    \* the plugin it reloads
  affected,  \* affected_steps
  left       \* those of them the loop still has to go through

plugins == <<handle, judge, creators>>
nodes == <<class, node, given, ready>>
threads == <<running, busy, queued>>
graph == <<pipes, order, loaded>>
sort == <<node_ids, adj, in_degree, queue, init_order>>
request == <<phase, file, todo, sort>>
monitor == <<reload, target, affected, left>>
vars == <<disk, pending, plugins, nodes, state, threads, graph, request, monitor>>

NoFile == [nodes |-> <<>>, pipes |-> <<>>]

\* load_directory has loaded the plugins it found.
Init ==
  /\ disk = First /\ pending = [p \in Plugins |-> 0]
  /\ handle = First /\ judge = First
  /\ creators = [c \in Classes |-> First[Home[c]]]
  /\ class = [s \in Steps |-> None] /\ node = [s \in Steps |-> 0]
  /\ given = {} /\ ready = {}
  /\ state = "PAUSE"
  /\ running = {} /\ busy = {} /\ queued = {}
  /\ pipes = {} /\ order = <<>> /\ loaded = FALSE
  /\ phase = "idle" /\ file = NoFile /\ todo = <<>>
  /\ node_ids = <<>> /\ queue = <<>> /\ init_order = <<>>
  /\ adj = [s \in Steps |-> <<>>] /\ in_degree = [s \in Steps |-> 0]
  /\ reload = "idle" /\ target = None /\ affected = <<>> /\ left = <<>>

Present == {s \in Steps : class[s] # None}

-----------------------------------------------------------------------------
(* The threads that run nodes *)

\* The thread of a source, or a listener with a message, enters the node.
Enter(s) ==
  /\ s \in running \ (busy \cup Pooled)
  /\ busy' = busy \cup {s}
  /\ UNCHANGED <<disk, pending, plugins, nodes, state, running, queued, graph,
                 request, monitor>>

\* The listener of a busy step enqueues its message.
Enqueue(s) ==
  /\ s \in (running \cap Pooled) \ queued
  /\ queued' = queued \cup {s}
  /\ UNCHANGED <<disk, pending, plugins, nodes, state, running, busy, graph,
                 request, monitor>>

\* A worker of the pool calls the node the step has now, or drops the task.
PoolTake(s) ==
  /\ s \in queued \ busy
  /\ queued' = queued \ {s}
  /\ busy' = IF state = "RUN" THEN busy \cup {s} ELSE busy
  /\ UNCHANGED <<disk, pending, plugins, nodes, state, running, graph, request,
                 monitor>>

Leave(s) ==
  /\ s \in busy
  /\ busy' = busy \ {s}
  /\ UNCHANGED <<disk, pending, plugins, nodes, state, running, queued, graph,
                 request, monitor>>

\* A mutant: the threads of the step are told to end and not joined.
Joined_Detached(s) == s \in Steps

\* Step::pause() joins the threads of the step, not the workers of the pool.
Joined(s) == s \notin busy \ Pooled

-----------------------------------------------------------------------------
(* The operator *)

Continue(label) == phase' = label

\* A request arrives while no plugin is being reloaded.
Ask == phase = "idle" /\ reload = "idle"

\* /set_status RUNNING: Studio::run(); Step::run() does nothing without a node.
Run ==
  /\ Ask
  /\ state' = "RUN"
  /\ running' = running \cup {s \in Present : node[s] # 0}
  /\ UNCHANGED <<disk, pending, plugins, nodes, busy, queued, graph, request,
                 monitor>>

\* /set_status STOPPED: Studio::pause().
Pause ==
  /\ Ask
  /\ state' = "PAUSE" /\ running' = {}
  /\ Continue("pause")
  /\ UNCHANGED <<disk, pending, plugins, nodes, busy, queued, graph, file, todo,
                 sort, monitor>>

PauseReturns ==
  /\ phase = "pause" /\ \A s \in Steps : Joined(s)
  /\ Continue("idle")
  /\ UNCHANGED <<disk, pending, plugins, nodes, state, threads, graph, file,
                 todo, sort, monitor>>

\* /load_dataflow: Studio::clear() pauses first.
Load(f) ==
  /\ Ask
  /\ state' = "PAUSE" /\ running' = {} /\ loaded' = FALSE
  /\ file' = f
  /\ Continue("clear")
  /\ UNCHANGED <<disk, pending, plugins, nodes, busy, queued, pipes, order, todo,
                 sort, monitor>>

\* load_json starts with a graph of its own, an empty one.
NewGraph ==
  /\ node_ids' = <<>> /\ queue' = <<>> /\ init_order' = <<>>
  /\ adj' = [s \in Steps |-> <<>>] /\ in_degree' = [s \in Steps |-> 0]

\* The steps are destroyed; tasks in the pool keep theirs alive, out of reach.
Cleared ==
  /\ phase = "clear" /\ \A s \in Steps : Joined(s)
  /\ class' = [s \in Steps |-> None] /\ node' = [s \in Steps |-> 0]
  /\ given' = {} /\ ready' = {}
  /\ busy' = {} /\ queued' = {} /\ pipes' = {} /\ order' = <<>>
  /\ NewGraph
  /\ todo' = file.nodes
  /\ Continue("create")
  /\ UNCHANGED <<disk, pending, plugins, state, running, loaded, file, monitor>>

\* load_json throws; what has been added stays.
Fail ==
  /\ todo' = <<>>
  /\ Continue("idle")
  /\ UNCHANGED <<disk, pending, plugins, nodes, state, threads, graph, file,
                 sort, monitor>>

\* Pass 1: create_step of the next node.
CreateStep ==
  /\ phase = "create" /\ todo # <<>>
  /\ LET n == Head(todo) IN
       /\ creators[n.class] # 0 /\ class[n.id] = None
       /\ class' = [class EXCEPT ![n.id] = n.class]
       /\ node' = [node EXCEPT ![n.id] = creators[n.class]]
       /\ node_ids' = Append(node_ids, n.id)
       /\ in_degree' = [in_degree EXCEPT ![n.id] = 0]
  /\ Continue("configure")
  /\ UNCHANGED <<disk, pending, plugins, given, ready, state, threads, graph,
                 file, todo, adj, queue, init_order, monitor>>

\* A mutant: a step id that is there already is not refused.
CreateFails_UnknownClass ==
  /\ phase = "create" /\ todo # <<>>
  /\ creators[Head(todo).class] = 0
  /\ Fail

\* An unknown class, or a step id that is there already.
CreateFails ==
  /\ phase = "create" /\ todo # <<>>
  /\ \/ creators[Head(todo).class] = 0
     \/ class[Head(todo).id] # None
  /\ Fail

\* Pass 1: the parameters and topics of the node.  Of a parameter it does not
\* know the node warns.
Configure ==
  /\ phase = "configure" /\ "bad" \notin Head(todo).values
  /\ given' = given \cup {Head(todo).id}
  /\ todo' = Tail(todo)
  /\ Continue("create")
  /\ UNCHANGED <<disk, pending, plugins, class, node, ready, state, threads,
                 graph, file, sort, monitor>>

\* For a value that does not convert, string_convert calls get_name for its
\* message, and that takes the mutex string_convert holds.
ConfigureHangs ==
  /\ phase = "configure" /\ "bad" \in Head(todo).values
  /\ Continue("stuck")
  /\ UNCHANGED <<disk, pending, plugins, nodes, state, threads, graph, file,
                 todo, sort, monitor>>

Created ==
  /\ phase = "create" /\ todo = <<>>
  /\ todo' = file.pipes
  /\ Continue("connect")
  /\ UNCHANGED <<disk, pending, plugins, nodes, state, threads, graph, file,
                 sort, monitor>>

\* Pass 2: both ports exist and have the same type.
Connect ==
  /\ phase = "connect" /\ todo # <<>>
  /\ LET e == Head(todo) IN
       /\ e.fits /\ {e.from, e.to} \subseteq Present
       /\ pipes' = pipes \cup {<<e.from, e.to>>}
       /\ adj' = [adj EXCEPT ![e.from] = Append(@, e.to)]
       /\ in_degree' = [in_degree EXCEPT ![e.to] = @ + 1]
  /\ todo' = Tail(todo)
  /\ UNCHANGED <<disk, pending, plugins, nodes, state, threads, order, loaded,
                 phase, file, node_ids, queue, init_order, monitor>>

ConnectFails ==
  /\ phase = "connect" /\ todo # <<>>
  /\ ~ (Head(todo).fits /\ {Head(todo).from, Head(todo).to} \subseteq Present)
  /\ Fail

\* What a turn of pass 3 leaves alone.
SortFrame == UNCHANGED <<disk, pending, plugins, nodes, state, threads, graph,
                         file, node_ids, adj, monitor>>

Connected ==
  /\ phase = "connect" /\ todo = <<>>
  /\ todo' = node_ids
  /\ Continue("seed")
  /\ SortFrame /\ UNCHANGED <<in_degree, queue, init_order>>

\* Pass 3: the steps no pipe enters go into the queue, as listed.
Seed ==
  /\ phase = "seed" /\ todo # <<>>
  /\ queue' = IF in_degree[Head(todo)] = 0 THEN Append(queue, Head(todo))
              ELSE queue
  /\ todo' = Tail(todo)
  /\ SortFrame /\ UNCHANGED <<phase, in_degree, init_order>>

Seeded ==
  /\ phase = "seed" /\ todo = <<>>
  /\ Continue("sort")
  /\ SortFrame /\ UNCHANGED <<todo, in_degree, queue, init_order>>

\* Kahn's loop: the first step of the queue is sorted.
Pop ==
  /\ phase = "sort" /\ todo = <<>> /\ queue # <<>>
  /\ init_order' = Append(init_order, Head(queue))
  /\ queue' = Tail(queue)
  /\ todo' = adj[Head(queue)]
  /\ SortFrame /\ UNCHANGED <<phase, in_degree>>

\* A mutant: every step a pipe of the sorted one enters goes into the queue.
Cross_Eager ==
  /\ phase = "sort" /\ todo # <<>>
  /\ in_degree' = [in_degree EXCEPT ![Head(todo)] = @ - 1]
  /\ queue' = Append(queue, Head(todo))
  /\ todo' = Tail(todo)
  /\ SortFrame /\ UNCHANGED <<phase, init_order>>

\* Each pipe of the sorted step takes one from the in-degree of the step it
\* enters, and the last one that does puts that step into the queue.
Cross ==
  /\ phase = "sort" /\ todo # <<>>
  /\ in_degree' = [in_degree EXCEPT ![Head(todo)] = @ - 1]
  /\ queue' = IF in_degree'[Head(todo)] = 0 THEN Append(queue, Head(todo))
              ELSE queue
  /\ todo' = Tail(todo)
  /\ SortFrame /\ UNCHANGED <<phase, init_order>>

Drained ==
  /\ phase = "sort" /\ todo = <<>> /\ queue = <<>>
  /\ todo' = node_ids
  /\ Continue("rest")
  /\ SortFrame /\ UNCHANGED <<in_degree, queue, init_order>>

\* What is left, for a cycle, comes last, as listed.
AddRest ==
  /\ phase = "rest" /\ todo # <<>>
  /\ init_order' = IF Head(todo) \in Range(init_order) THEN init_order
                   ELSE Append(init_order, Head(todo))
  /\ todo' = Tail(todo)
  /\ SortFrame /\ UNCHANGED <<phase, in_degree, queue>>

\* Pass 3: set_topology_order.
Sorted ==
  /\ phase = "rest" /\ todo = <<>>
  /\ order' = init_order
  /\ todo' = order'
  /\ Continue("initialize")
  /\ UNCHANGED <<disk, pending, plugins, nodes, state, threads, pipes, loaded,
                 file, sort, monitor>>

\* Pass 3: the nodes are initialized in that order.
Initialize ==
  /\ phase = "initialize" /\ todo # <<>>
  /\ ready' = ready \cup {Head(todo)}
  /\ todo' = Tail(todo)
  /\ UNCHANGED <<disk, pending, plugins, class, node, given, state, threads,
                 graph, phase, file, sort, monitor>>

\* A step whose node is of a build in Failing.
MayFail(s) == <<Home[class[s]], node[s]>> \in Failing

\* initialize() throws: the load has failed, with every step there.
InitializeFails ==
  /\ phase = "initialize" /\ todo # <<>> /\ MayFail(Head(todo))
  /\ Fail

\* The route answers "Dataflow loaded."
LoadReturns ==
  /\ phase = "initialize" /\ todo = <<>>
  /\ loaded' = TRUE
  /\ Continue("idle")
  /\ UNCHANGED <<disk, pending, plugins, nodes, state, threads, pipes, order,
                 file, todo, sort, monitor>>

Serve ==
  \/ PauseReturns \/ Cleared
  \/ CreateStep \/ CreateFails \/ Configure \/ ConfigureHangs \/ Created
  \/ Connect \/ ConnectFails \/ Connected \/ Seed \/ Seeded \/ Pop \/ Cross
  \/ Drained \/ AddRest \/ Sorted \/ Initialize \/ InitializeFails \/ LoadReturns

-----------------------------------------------------------------------------
(* The plugin directory and the thread that watches it *)

\* A build is written, and closed.
Build(p) ==
  /\ disk[p] < MaxBuild[p]
  /\ disk' = [disk EXCEPT ![p] = @ + 1]
  /\ pending' = [pending EXCEPT ![p] = @ + 1]
  /\ UNCHANGED <<plugins, nodes, state, threads, graph, request, monitor>>

\* A mutant: a class that is registered already keeps its creator.
Register_Once(p, b) ==
  creators' = [c \in Classes |->
                 IF Home[c] = p /\ creators[c] = 0 THEN b ELSE creators[c]]

\* The static registrations of a library run when it is opened.
Register(p, b) ==
  creators' = [c \in Classes |-> IF Home[c] = p THEN b ELSE creators[c]]

Watch(label) == reload' = label

\* reload_plugin_process returns.
Done ==
  /\ Watch("idle")
  /\ target' = None /\ affected' = <<>> /\ left' = <<>>

\* The steps of every class that is registered, in the order of their ids.
Affected ==
  Ordered[{s \in Present : creators[class[s]] # 0}]

\* The event is read: a plugin nobody knows is loaded, a stateful one is left
\* as it is, of a stateless one the nodes are taken out.
Notice(p) ==
  /\ Ask /\ pending[p] > 0
  /\ pending' = [pending EXCEPT ![p] = @ - 1]
  /\ \/ /\ judge[p] = 0
        /\ Watch("new")
        /\ target' = p
        /\ UNCHANGED <<affected, left>>
     \/ /\ judge[p] # 0 /\ <<p, judge[p]>> \in Stateful
        /\ Done
     \/ /\ judge[p] # 0 /\ <<p, judge[p]>> \notin Stateful
        /\ Watch("kill")
        /\ target' = p /\ affected' = Affected /\ left' = Affected
  /\ UNCHANGED <<disk, plugins, nodes, state, threads, graph, request>>

\* dlopen() and plugin_init() of build b: a library that opens registers its
\* classes, also if its plugin_init throws then.
Open(p, b) ==
  IF <<p, b>> \in Broken THEN UNCHANGED creators ELSE Register(p, b)

Refused(p, b) == <<p, b>> \in Broken \cup Throwing

\* load() of what is in the directory now keeps a context of what it accepts.
LoadNew ==
  /\ reload = "new"
  /\ LET p == target
         b == disk[p]
     IN  /\ Open(p, b)
         /\ \/ Refused(p, b) /\ UNCHANGED <<handle, judge>>
            \/ /\ ~ Refused(p, b)
               /\ handle' = [handle EXCEPT ![p] = b]
               /\ judge' = [judge EXCEPT ![p] = b]
  /\ Done
  /\ UNCHANGED <<disk, pending, nodes, state, threads, graph, request>>

\* step->pause(), its first half.
Kill ==
  /\ reload = "kill" /\ left # <<>> /\ Head(left) \in running
  /\ running' = running \ {Head(left)}
  /\ UNCHANGED <<disk, pending, plugins, nodes, state, busy, queued, graph,
                 request, monitor>>

\* The threads of the step are joined; inject_node(nullptr).
TakeOut ==
  /\ reload = "kill" /\ left # <<>>
  /\ Head(left) \notin running /\ Joined(Head(left))
  /\ node' = [node EXCEPT ![Head(left)] = 0]
  /\ given' = given \ {Head(left)} /\ ready' = ready \ {Head(left)}
  /\ left' = Tail(left)
  /\ UNCHANGED <<disk, pending, plugins, class, state, threads, graph, request,
                 reload, target, affected>>

\* plugin_destroy() and dlclose().
Unload ==
  /\ reload = "kill" /\ left = <<>>
  /\ handle' = [handle EXCEPT ![target] = 0]
  /\ Watch("open")
  /\ UNCHANGED <<disk, pending, judge, creators, nodes, state, threads, graph,
                 request, target, affected, left>>

\* The library is opened again, as it is in the directory now.  The functions
\* of the context are looked up again, all but is_hot_reloadable.
Reopen ==
  /\ reload = "open"
  /\ LET p == target
         b == disk[p]
     IN  /\ Open(p, b)
         /\ handle' = [handle EXCEPT ![p] = IF <<p, b>> \in Broken THEN 0 ELSE b]
         /\ \/ Refused(p, b) /\ Done
            \/ /\ ~ Refused(p, b)
               /\ Watch("inject")
               /\ left' = affected
               /\ UNCHANGED <<target, affected>>
  /\ UNCHANGED <<disk, pending, judge, nodes, state, threads, graph, request>>

\* A node is made by the factory, and inject_node() puts it in the step.
Inject ==
  /\ reload = "inject" /\ left # <<>>
  /\ node' = [node EXCEPT ![Head(left)] = creators[class[Head(left)]]]
  /\ Watch("initialize")
  /\ UNCHANGED <<disk, pending, plugins, class, given, ready, state, threads,
                 graph, request, target, affected, left>>

Reinitialize ==
  /\ reload = "initialize"
  /\ ready' = ready \cup {Head(left)}
  /\ Watch("run")
  /\ UNCHANGED <<disk, pending, plugins, class, node, given, state, threads,
                 graph, request, target, affected, left>>

\* initialize() throws, and the reload is over: the step is left with a node that
\* was not initialized, those after it without one.
ReinitializeFails ==
  /\ reload = "initialize" /\ MayFail(Head(left))
  /\ Done
  /\ UNCHANGED <<disk, pending, plugins, nodes, state, threads, graph, request>>

\* step->run(), whatever the state of the studio.
Restart ==
  /\ reload = "run"
  /\ running' = running \cup {Head(left)}
  /\ left' = Tail(left)
  /\ Watch("inject")
  /\ UNCHANGED <<disk, pending, plugins, nodes, state, busy, queued, graph,
                 request, target, affected>>

Reloaded ==
  /\ reload = "inject" /\ left = <<>>
  /\ Done
  /\ UNCHANGED <<disk, pending, plugins, nodes, state, threads, graph, request>>

Reload ==
  \/ LoadNew \/ Kill \/ TakeOut \/ Unload \/ Reopen
  \/ Inject \/ Reinitialize \/ ReinitializeFails \/ Restart \/ Reloaded

-----------------------------------------------------------------------------
Next ==
  \/ \E s \in Steps : Enter(s) \/ Enqueue(s) \/ PoolTake(s) \/ Leave(s)
  \/ Run \/ Pause \/ (\E f \in Files : Load(f)) \/ Serve
  \/ \E p \in Plugins : Build(p) \/ Notice(p)
  \/ Reload

Spec == Init /\ [][Next]_vars

\* Handlers return, the operator's thread and the monitor's are scheduled, and
\* requests leave gaps for the monitor.
Fairness ==
  /\ \A s \in Steps : WF_vars(Leave(s))
  /\ WF_vars(Serve \/ Reload)
  /\ \A p \in Plugins : SF_vars(Notice(p))

FairSpec == Spec /\ Fairness

-----------------------------------------------------------------------------
TypeOK ==
  /\ disk \in [Plugins -> Nat] /\ pending \in [Plugins -> Nat]
  /\ handle \in [Plugins -> Nat] /\ judge \in [Plugins -> Nat]
  /\ creators \in [Classes -> Nat]
  /\ class \in [Steps -> Classes \cup {None}] /\ node \in [Steps -> Nat]
  /\ given \subseteq Steps /\ ready \subseteq Steps
  /\ state \in {"RUN", "PAUSE"}
  /\ running \subseteq Steps /\ busy \subseteq Steps /\ queued \subseteq Pooled
  /\ pipes \subseteq Steps \X Steps /\ order \in Seq(Steps)
  /\ loaded \in BOOLEAN
  /\ phase \in {"idle", "pause", "clear", "create", "configure", "connect",
                "seed", "sort", "rest", "initialize", "stuck"}
  /\ file \in Files \cup {NoFile}
  /\ node_ids \in Seq(Steps) /\ adj \in [Steps -> Seq(Steps)]
  /\ in_degree \in [Steps -> Int]
  /\ queue \in Seq(Steps) /\ init_order \in Seq(Steps)
  /\ reload \in {"idle", "new", "kill", "open", "inject", "initialize", "run"}
  /\ target \in Plugins \cup {None}
  /\ affected \in Seq(Steps) /\ left \in Seq(Steps)

(***************************************************************************)
(* While a plugin is replaced the rest of the graph keeps running.  A      *)
(* listener or source that is inside of a node is so in a node that is     *)
(* there, and is of the build of its plugin that is open now.  Of a build  *)
(* that was refused by its plugin_init, or was closed before one that does *)
(* not open, the factory has the classes still, and steps may be made of   *)
(* them: then handle[p] is 0, or the build is in Throwing.                 *)
(*   In a dataflow that was loaded to the end the node has been            *)
(* initialized, unless its initialize() can throw: where it does in a      *)
(* reload the node stays in its step, and the next RUNNING runs it.        *)
(***************************************************************************)
CodeIsCurrent ==
  \A s \in busy \ Pooled :
    LET p == Home[class[s]] IN
      /\ class[s] # None /\ node[s] # 0
      /\ loaded => s \in ready \/ MayFail(s)
      /\ handle[p] \in {0, node[s]} \/ <<p, node[s]>> \in Throwing

Before(u, v) ==
  \E i, j \in DOMAIN order : i < j /\ order[i] = u /\ order[j] = v

\* One can go back from s along pipes for ever: s lies on a cycle or behind one.
BehindCycle(s) ==
  \E C \in SUBSET Steps :
    s \in C /\ \A v \in C : \E u \in C : <<u, v>> \in pipes

(***************************************************************************)
(* A loaded dataflow has an order with each of its steps once, in which a  *)
(* step comes after those it gets messages from, whatever the order of the *)
(* file, with ports that share a source and with cycles elsewhere.         *)
(***************************************************************************)
SortedOrder ==
  loaded =>
    /\ Range(order) = Present /\ Len(order) = Cardinality(Present)
    /\ \A e \in pipes : ~ BehindCycle(e[2]) => Before(e[1], e[2])

\* The newest build of p is open, and no step runs an older one of it.
UpToDate(p) ==
  /\ handle[p] = disk[p]
  /\ \A s \in Present :
       Home[class[s]] = p =>
         node[s] = disk[p] \/ <<p, node[s]>> \in Throwing

\* The build of p that the next reload makes nodes from.
Current(p) == IF <<p, judge[p]>> \in Stateful THEN judge[p] ELSE disk[p]

Sound ==
  /\ Failing \cap Throwing = {}
  /\ \A p \in Plugins :
       ~ Refused(p, disk[p]) /\ <<p, Current(p)>> \notin Failing

(***************************************************************************)
(* A build that can be loaded is loaded, and gets into every step of the   *)
(* studio, also after builds that could not, and after builds in quick     *)
(* succession.  A build that is refused takes the nodes of all plugins out *)
(* until one is made that is not, and a node whose initialize() throws     *)
(* keeps the steps after its own without nodes until then (for ever, if it *)
(* is of a new plugin that was refused: the reload of another one makes    *)
(* its nodes, its own does not).  A plugin that was stateful when it was   *)
(* first loaded stays as it was, and nothing comes after a load that hangs.*)
(***************************************************************************)
NewestCodeRuns ==
  \A p \in Plugins :
    (disk[p] # 0 /\ Sound) ~>
      \/ UpToDate(p) \/ ~ Sound
      \/ <<p, judge[p]>> \in Stateful \/ phase = "stuck"

(***************************************************************************)
(* Every request is answered, of loads also those of files that do not fit *)
(* the plugins; a parameter value that does not convert is the exception.  *)
(***************************************************************************)
RequestsReturn == phase # "idle" ~> phase \in {"idle", "stuck"}
=============================================================================
