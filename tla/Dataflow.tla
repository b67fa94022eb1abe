------------------------------ MODULE Dataflow ------------------------------
(***************************************************************************)
(* The execution graph of an agent: fins::Studio (studio.hpp) holds the    *)
(* steps and runs, pauses, resets and clears them, fins::Step (step.hpp)   *)
(* holds a node and one listener thread per input port, fins::PipeFactory  *)
(* (pipe.hpp) maps pipe ids to pipes, and the routes of AgentServer        *)
(* (agent/server.hpp) call them from a pool of HTTP threads, the Operators.*)
(*                                                                         *)
(* A dataflow file connects each input port to at most one output port, so *)
(* a pipe also names the port it feeds and the listener thread of it.  The *)
(* node of a source runs a thread of its own, named like its step, which   *)
(* sends until the node is paused.  Handlers run on the listener threads,  *)
(* as they do in a FINS_LIGHT_SCHEDULER build always and in other builds   *)
(* until a step is found busy.                                             *)
(*                                                                         *)
(* A listener keeps the pipe object it found when it started, while the    *)
(* factory may drop that object and make another of the same id.  At any   *)
(* time an id has at most two objects anybody can reach, the one in the    *)
(* factory and the one its listener holds: Objects are two names for them. *)
(***************************************************************************)
EXTENDS Naturals, Sequences, FiniteSets, SequencesExt

CONSTANTS Sources,    \* steps whose node has a sending thread
          Sinks,      \* the other steps
          Pipes,      \* pipe ids, one for each connected input port
          From, To,   \* the step a pipe leaves and the one it enters
          Nodes,      \* the steps as the dataflow file lists them
          ById,       \* the steps as the map Studio::steps_ has them
          Order,      \* the steps in topological order
          Connects,   \* the pipes as the dataflow file lists them
          Depth,      \* PIPE_CAPACITY
          Operators,  \* HTTP threads
          Requests,   \* the requests they serve
          None

Steps == Sources \cup Sinks
Threads == Sources \cup Pipes
Objects == {"one", "other"}

ASSUME StepsAssumption ==
  /\ Sources \cap Sinks = {} /\ Steps \cap Pipes = {}
  /\ From \in [Pipes -> Steps] /\ To \in [Pipes -> Steps]
ASSUME FileAssumption ==
  /\ Nodes \in Seq(Steps) /\ Range(Nodes) = Steps
  /\ ById \in Seq(Steps) /\ Range(ById) = Steps
  /\ Order \in Seq(Steps) /\ Range(Order) = Steps
  /\ Connects \in Seq(Pipes) /\ Range(Connects) = Pipes
ASSUME RequestsAssumption ==
  /\ Depth \in Nat \ {0}
  /\ Requests \subseteq {"run", "pause", "reset", "load"}
  /\ None \notin Objects \cup Operators \cup Requests

VARIABLES
  state,     \* g_running_state
  lock,      \* who holds Studio::mutex_
  present,   \* Studio::steps_
  ordered,   \* is Studio::topology_order_ set?
  linked,    \* pipes in pipes_out_ of one step and pipes_in_ of another
  running,   \* steps whose running_ is set
  shutdown,  \* steps whose shutdown_requested_ is set
  active,    \* steps whose node is between run() and pause()
  factory,   \* PipeFactory::pipes_: the object of each pipe id, or None
  held,      \* the object each listener has in active_pipes, or None
  open,      \* started_ of each object
  depth,     \* number of messages in each object
  thread,    \* control of each source thread and of each listener
  targets,   \* the pipes a thread still has to push to
  request,   \* the request an operator is serving
  phase,     \* control of the operator
  todo,      \* steps or pipes it still has to go through
  doomed     \* input pipes of the steps it has moved out to destroy

studio == <<state, present, ordered>>
steps == <<running, shutdown, active>>
pipes == <<factory, open, depth>>
threads == <<held, thread, targets>>
control == <<request, phase, todo, doomed>>
vars == <<studio, lock, linked, steps, pipes, threads, control>>

Init ==
  /\ state = "PAUSE" /\ lock = None
  /\ present = {} /\ ordered = FALSE /\ linked = {}
  /\ running = {} /\ shutdown = {} /\ active = {}
  /\ factory = [p \in Pipes |-> None]
  /\ held = [p \in Pipes |-> None]
  /\ open = [p \in Pipes |-> [i \in Objects |-> FALSE]]
  /\ depth = [p \in Pipes |-> [i \in Objects |-> 0]]
  /\ thread = [t \in Threads |-> "none"]
  /\ targets = [t \in Threads |-> {}]
  /\ request = [o \in Operators |-> None]
  /\ phase = [o \in Operators |-> "idle"]
  /\ todo = [o \in Operators |-> <<>>]
  /\ doomed = [o \in Operators |-> {}]

-----------------------------------------------------------------------------
(* PipeFactory *)

Inputs(s) == {p \in linked : To[p] = s}
Outputs(s) == {p \in linked : From[p] = s}

\* The object get_pipe(p) answers, the one in the factory or a new one.
GetPipe(p) ==
  IF factory[p] # None THEN factory[p]
  ELSE CHOOSE i \in Objects : i # held[p]

\* The started_ flags after stop() or notify() of every pipe of P.
Stopped(P) ==
  [p \in Pipes |-> IF p \in P /\ factory[p] # None
                     THEN [open[p] EXCEPT ![factory[p]] = FALSE] ELSE open[p]]

\* A mutant: the pipes are dropped without being stopped.
ClearFactory_Open ==
  /\ factory' = [p \in Pipes |-> None]
  /\ UNCHANGED <<open, depth>>

\* PipeFactory::clear()
ClearFactory ==
  /\ open' = Stopped(Pipes)
  /\ factory' = [p \in Pipes |-> None]
  /\ depth' = [p \in Pipes |-> [i \in Objects |->
                 IF i = held[p] THEN depth[p][i] ELSE 0]]

-----------------------------------------------------------------------------
(* The threads of a step *)

StepOf(t) == IF t \in Pipes THEN To[t] ELSE t

\* The node sends: Step::publish copies the ids of the output pipes, and goes
\* through them.
Send(t) ==
  /\ thread' = [thread EXCEPT ![t] = "send"]
  /\ targets' = [targets EXCEPT ![t] = Outputs(StepOf(t))]

\* A source thread sends as long as its node is not paused.
SourceLoop(s) ==
  /\ thread[s] = "loop"
  /\ \/ s \in active /\ Send(s)
     \/ /\ s \notin active
        /\ thread' = [thread EXCEPT ![s] = "none"]
        /\ UNCHANGED targets
  /\ UNCHANGED <<studio, lock, linked, steps, pipes, held, control>>

\* A mutant: a full pipe grows instead of dropping its oldest message.
PublishTo_Grows(t, p) ==
  /\ thread[t] = "send" /\ p \in targets[t] /\ factory[p] # None
  /\ depth' = [depth EXCEPT ![p][factory[p]] = @ + 1]
  /\ targets' = [targets EXCEPT ![t] = @ \ {p}]
  /\ UNCHANGED <<studio, lock, linked, steps, factory, open, held, thread,
                 control>>

\* get_pipe and push of one target (Pipe.tla has the steps of a push).  A
\* stopped pipe drops the message, a full one its oldest.
PublishTo(t, p) ==
  /\ thread[t] = "send" /\ p \in targets[t]
  /\ LET i == GetPipe(p)
         fresh == factory[p] = None
         room == IF depth[p][i] < Depth THEN depth[p][i] + 1 ELSE Depth
     IN  /\ factory' = [factory EXCEPT ![p] = i]
         /\ open' = [open EXCEPT ![p][i] = @ \/ fresh]
         /\ depth' = [depth EXCEPT ![p][i] =
                        IF fresh THEN 1 ELSE IF open[p][i] THEN room ELSE @]
  /\ targets' = [targets EXCEPT ![t] = @ \ {p}]
  /\ UNCHANGED <<studio, lock, linked, steps, held, thread, control>>

\* The send, or the handler that sent, returns.
SendReturns(t) ==
  /\ thread[t] = "send" /\ targets[t] = {}
  /\ thread' = [thread EXCEPT ![t] = "loop"]
  /\ UNCHANGED <<studio, lock, linked, steps, pipes, held, targets, control>>

\* A new listener looks its pipe up; without one it ends.
ListenerStart(p) ==
  /\ thread[p] = "born"
  /\ held' = [held EXCEPT ![p] = IF p \in linked THEN factory[p] ELSE None]
  /\ thread' = [thread EXCEPT ![p] = IF held'[p] = None THEN "ended" ELSE "loop"]
  /\ UNCHANGED <<studio, lock, linked, steps, pipes, targets, control>>

\* while (!shutdown_requested_)
ListenerLoop(p) ==
  /\ thread[p] = "loop"
  /\ thread' = [thread EXCEPT ![p] =
                  IF To[p] \in shutdown THEN "ended" ELSE "wait"]
  /\ held' = [held EXCEPT ![p] = IF To[p] \in shutdown THEN None ELSE @]
  /\ UNCHANGED <<studio, lock, linked, steps, pipes, targets, control>>

\* A mutant: pop_wait() looks at started_ first.
ListenerHandle_OpenOnly(p) ==
  /\ thread[p] = "wait"
  /\ depth[p][held[p]] > 0 /\ open[p][held[p]]
  /\ depth' = [depth EXCEPT ![p][held[p]] = @ - 1]
  /\ Send(p)
  /\ UNCHANGED <<studio, lock, linked, steps, factory, open, held, control>>

\* pop_wait() answers a message, and the node handles and perhaps sends on.
ListenerHandle(p) ==
  /\ thread[p] = "wait"
  /\ depth[p][held[p]] > 0
  /\ depth' = [depth EXCEPT ![p][held[p]] = @ - 1]
  /\ Send(p)
  /\ UNCHANGED <<studio, lock, linked, steps, factory, open, held, control>>

\* pop_wait() finds a stopped and empty pipe; of an open and empty one it
\* does not return.
ListenerNothing(p) ==
  /\ thread[p] = "wait"
  /\ depth[p][held[p]] = 0 /\ ~ open[p][held[p]]
  /\ thread' = [thread EXCEPT ![p] = "loop"]
  /\ UNCHANGED <<studio, lock, linked, steps, pipes, held, targets, control>>

Work(t) ==
  \/ t \in Sources /\ SourceLoop(t)
  \/ \E p \in Pipes : PublishTo(t, p)
  \/ SendReturns(t)
  \/ t \in Pipes /\ (ListenerStart(t) \/ ListenerLoop(t)
                     \/ ListenerHandle(t) \/ ListenerNothing(t))

-----------------------------------------------------------------------------
(* The requests *)

Continue(o, label) == phase' = [phase EXCEPT ![o] = label]

Lock(o) == lock = None /\ lock' = o
Unlock(o) == lock = o /\ lock' = None

\* The order in which run() goes through the steps; pause() and clear() take
\* the reverse of a topological order, and the order of run() without one.  An
\* id that the studio has no step of is passed over when its turn comes.
RunOrder == IF ordered THEN Order ELSE ById
PauseOrder == IF ordered THEN Reverse(Order) ELSE ById

Begin(o, r) ==
  /\ phase[o] = "idle" /\ r \in Requests
  /\ request' = [request EXCEPT ![o] = r]

\* /set_status RUNNING: Studio::run() takes mutex_ and sets RUN.
Run(o) ==
  /\ Begin(o, "run") /\ Lock(o)
  /\ state' = "RUN"
  /\ todo' = [todo EXCEPT ![o] = RunOrder]
  /\ Continue(o, "start")
  /\ UNCHANGED <<present, ordered, linked, steps, pipes, threads, doomed>>

\* /set_status STOPPED: Studio::pause() takes mutex_ and sets PAUSE.
Pause(o) ==
  /\ Begin(o, "pause") /\ Lock(o)
  /\ state' = "PAUSE"
  /\ todo' = [todo EXCEPT ![o] = PauseOrder]
  /\ Continue(o, "stop")
  /\ UNCHANGED <<present, ordered, linked, steps, pipes, threads, doomed>>

\* /reset: Studio::reset(), all of it under mutex_; running or not.
Reset(o) ==
  /\ Begin(o, "reset") /\ lock = None
  /\ ClearFactory
  /\ UNCHANGED <<studio, lock, linked, steps, threads, phase, todo, doomed>>

\* /load_dataflow calls Studio::clear(), then NodeLib::load_json, which calls
\* it again: takes mutex_, sets PAUSE, stops every pipe.
Clear(o) ==
  /\ \/ Begin(o, "load")
     \/ /\ phase[o] = "clear"
        /\ request' = [request EXCEPT ![o] = "reload"]
  /\ Lock(o)
  /\ state' = "PAUSE"
  /\ open' = Stopped(Pipes)
  /\ todo' = [todo EXCEPT ![o] = PauseOrder]
  /\ Continue(o, "stop")
  /\ UNCHANGED <<present, ordered, linked, steps, factory, depth, threads,
                 doomed>>

\* Step::run() of the next step: the node, then the listeners.
StartStep(o) ==
  /\ phase[o] = "start" /\ todo[o] # <<>>
  /\ LET s == Head(todo[o]) IN
       \/ s \notin present \ running /\ UNCHANGED <<steps, thread>>
       \/ /\ s \in present \ running
          /\ running' = running \cup {s}
          /\ shutdown' = shutdown \ {s}
          /\ active' = active \cup {s}
          /\ thread' = [t \in Threads |->
                          IF t = s THEN "loop"
                          ELSE IF t \in Pipes /\ StepOf(t) = s THEN "born"
                          ELSE thread[t]]
  /\ todo' = [todo EXCEPT ![o] = Tail(@)]
  /\ UNCHANGED <<studio, lock, linked, pipes, held, targets, request, phase,
                 doomed>>

RunReturns(o) ==
  /\ phase[o] = "start" /\ todo[o] = <<>>
  /\ Unlock(o)
  /\ Continue(o, "idle")
  /\ UNCHANGED <<studio, linked, steps, pipes, threads, request, todo, doomed>>

\* Step::pause() of the next step: running_ and shutdown_requested_.
StopStep(o) ==
  /\ phase[o] = "stop" /\ todo[o] # <<>>
  /\ LET s == Head(todo[o]) IN
       \/ /\ s \notin running
          /\ todo' = [todo EXCEPT ![o] = Tail(@)]
          /\ UNCHANGED <<steps, phase>>
       \/ /\ s \in running
          /\ running' = running \ {s}
          /\ shutdown' = shutdown \cup {s}
          /\ Continue(o, "notify")
          /\ UNCHANGED <<active, todo>>
  /\ UNCHANGED <<studio, lock, linked, pipes, threads, request, doomed>>

\* A mutant: the listeners are not notified.
NotifyInputs_Skipped(o) ==
  /\ phase[o] = "notify"
  /\ Continue(o, "join")
  /\ UNCHANGED <<studio, lock, linked, steps, pipes, threads, request, todo,
                 doomed>>

\* stop_threads(): notify() closes the input pipes.
NotifyInputs(o) ==
  /\ phase[o] = "notify"
  /\ open' = Stopped(Inputs(Head(todo[o])))
  /\ Continue(o, "join")
  /\ UNCHANGED <<studio, lock, linked, steps, factory, depth, threads, request,
                 todo, doomed>>

\* A mutant: the node is paused before its listeners are joined.
JoinListeners_Early(o) ==
  /\ phase[o] = "join"
  /\ active' = active \ {Head(todo[o])}
  /\ Continue(o, "halt")
  /\ UNCHANGED <<studio, lock, linked, running, shutdown, pipes, threads,
                 request, todo, doomed>>

\* stop_threads(): the listeners are joined, and the node is paused.
JoinListeners(o) ==
  /\ phase[o] = "join"
  /\ LET s == Head(todo[o])
         mine == {p \in Pipes : To[p] = s}
     IN  /\ \A p \in mine : thread[p] \in {"none", "ended"}
         /\ thread' = [t \in Threads |-> IF t \in mine THEN "none" ELSE thread[t]]
         /\ active' = active \ {s}
  /\ Continue(o, "halt")
  /\ UNCHANGED <<studio, lock, linked, running, shutdown, pipes, held, targets,
                 request, todo, doomed>>

\* A mutant: the thread of the node is told to end and not joined.
JoinSource_Detached(o) ==
  /\ phase[o] = "halt"
  /\ todo' = [todo EXCEPT ![o] = Tail(@)]
  /\ Continue(o, "stop")
  /\ UNCHANGED <<studio, lock, linked, steps, pipes, threads, request, doomed>>

\* node_->pause() joins the thread of the node.
JoinSource(o) ==
  /\ phase[o] = "halt"
  /\ Head(todo[o]) \in Sources => thread[Head(todo[o])] = "none"
  /\ todo' = [todo EXCEPT ![o] = Tail(@)]
  /\ Continue(o, "stop")
  /\ UNCHANGED <<studio, lock, linked, steps, pipes, threads, request, doomed>>

PauseReturns(o) ==
  /\ phase[o] = "stop" /\ todo[o] = <<>> /\ request[o] = "pause"
  /\ Unlock(o)
  /\ Continue(o, "idle")
  /\ UNCHANGED <<studio, linked, steps, pipes, threads, request, todo, doomed>>

\* clear(): the steps leave the studio and mutex_ is released.
MoveOut(o) ==
  /\ phase[o] = "stop" /\ todo[o] = <<>> /\ request[o] \in {"load", "reload"}
  /\ Unlock(o)
  /\ doomed' = [doomed EXCEPT ![o] = linked]
  /\ present' = {} /\ ordered' = FALSE /\ linked' = {} /\ shutdown' = {}
  /\ Continue(o, "destroy")
  /\ UNCHANGED <<state, running, active, pipes, threads, request, todo>>

\* clear(): ~Step calls stop_threads(), which closes the pipes that have the
\* ids of its inputs now.
Destroy(o) ==
  /\ phase[o] = "destroy"
  /\ open' = Stopped(doomed[o])
  /\ doomed' = [doomed EXCEPT ![o] = {}]
  /\ Continue(o, "wipe")
  /\ UNCHANGED <<studio, lock, linked, steps, factory, depth, threads, request,
                 todo>>

\* clear(): the last statement, PipeFactory::clear().
Wipe(o) ==
  /\ phase[o] = "wipe"
  /\ ClearFactory
  /\ \/ /\ request[o] = "load"
        /\ Continue(o, "clear")
        /\ UNCHANGED todo
     \/ /\ request[o] = "reload"
        /\ Continue(o, "add")
        /\ todo' = [todo EXCEPT ![o] = Nodes]
  /\ UNCHANGED <<studio, lock, linked, steps, threads, request, doomed>>

\* load_json, pass 1: create_step of the next node.
AddStep(o) ==
  /\ phase[o] = "add" /\ todo[o] # <<>>
  /\ lock = None /\ Head(todo[o]) \notin present
  /\ present' = present \cup {Head(todo[o])}
  /\ todo' = [todo EXCEPT ![o] = Tail(@)]
  /\ UNCHANGED <<state, lock, ordered, linked, steps, pipes, threads, request,
                 phase, doomed>>

StepsAdded(o) ==
  /\ phase[o] = "add" /\ todo[o] = <<>>
  /\ todo' = [todo EXCEPT ![o] = Connects]
  /\ Continue(o, "connect")
  /\ UNCHANGED <<studio, lock, linked, steps, pipes, threads, request, doomed>>

\* A mutant: add_pipe looks the pipe up and leaves making it to the first push.
AddPipe_Lazy(o) ==
  /\ phase[o] = "connect" /\ todo[o] # <<>>
  /\ lock = None
  /\ {From[Head(todo[o])], To[Head(todo[o])]} \subseteq present
  /\ linked' = linked \cup {Head(todo[o])}
  /\ todo' = [todo EXCEPT ![o] = Tail(@)]
  /\ UNCHANGED <<studio, lock, steps, pipes, threads, request, phase, doomed>>

\* load_json, pass 2: add_pipe of the next connection; get_pipe makes the pipe.
AddPipe(o) ==
  /\ phase[o] = "connect" /\ todo[o] # <<>>
  /\ lock = None
  /\ LET p == Head(todo[o])
         i == GetPipe(p)
     IN  /\ {From[p], To[p]} \subseteq present
         /\ linked' = linked \cup {p}
         /\ factory' = [factory EXCEPT ![p] = i]
         /\ open' = [open EXCEPT ![p][i] = @ \/ factory[p] = None]
         /\ depth' = [depth EXCEPT ![p][i] = IF factory[p] = None THEN 0 ELSE @]
  /\ todo' = [todo EXCEPT ![o] = Tail(@)]
  /\ UNCHANGED <<studio, lock, steps, threads, request, phase, doomed>>

\* load_json, pass 3: set_topology_order; the route answers "success".
LoadReturns(o) ==
  /\ phase[o] = "connect" /\ todo[o] = <<>>
  /\ lock = None
  /\ ordered' = TRUE
  /\ Continue(o, "idle")
  /\ UNCHANGED <<state, lock, present, linked, steps, pipes, threads, request,
                 todo, doomed>>

\* load_json throws: a file that does not fit the library, a step that is
\* there already, one that is gone.  What has been added stays.
LoadFails(o) ==
  /\ phase[o] \in {"add", "connect"}
  /\ todo' = [todo EXCEPT ![o] = <<>>]
  /\ Continue(o, "idle")
  /\ UNCHANGED <<studio, lock, linked, steps, pipes, threads, request, doomed>>

Serve(o) ==
  \/ StartStep(o) \/ RunReturns(o)
  \/ StopStep(o) \/ NotifyInputs(o) \/ JoinListeners(o) \/ JoinSource(o)
  \/ PauseReturns(o)
  \/ MoveOut(o) \/ Destroy(o) \/ Wipe(o)
  \/ (phase[o] = "clear" /\ Clear(o))
  \/ AddStep(o) \/ StepsAdded(o) \/ AddPipe(o) \/ LoadReturns(o) \/ LoadFails(o)

Ask(o) == Run(o) \/ Pause(o) \/ Reset(o) \/ (phase[o] = "idle" /\ Clear(o))

-----------------------------------------------------------------------------
Next ==
  \/ \E o \in Operators : Ask(o) \/ Serve(o)
  \/ \E t \in Threads : Work(t)

Spec == Init /\ [][Next]_vars

\* The operating system schedules every thread, and gives mutex_ to an
\* operator that keeps finding it free.  No request has to arrive.
Fairness ==
  /\ \A o \in Operators : SF_vars(Serve(o))
  /\ \A t \in Threads : WF_vars(Work(t))

FairSpec == Spec /\ Fairness

-----------------------------------------------------------------------------
TypeOK ==
  /\ state \in {"RUN", "PAUSE"} /\ lock \in Operators \cup {None}
  /\ present \subseteq Steps /\ ordered \in BOOLEAN /\ linked \subseteq Pipes
  /\ running \cup shutdown \cup active \subseteq Steps
  /\ factory \in [Pipes -> Objects \cup {None}]
  /\ held \in [Pipes -> Objects \cup {None}]
  /\ open \in [Pipes -> [Objects -> BOOLEAN]]
  /\ depth \in [Pipes -> [Objects -> 0 .. Depth]]
  /\ thread \in [Threads -> {"none", "born", "loop", "wait", "send", "ended"}]
  /\ \A s \in Sources : thread[s] \in {"none", "loop", "send"}
  /\ targets \in [Threads -> SUBSET Pipes]
  /\ request \in [Operators -> Requests \cup {"reload", None}]
  /\ phase \in [Operators -> {"idle", "start", "stop", "notify", "join", "halt",
                              "clear", "destroy", "wipe", "add", "connect"}]
  /\ todo \in [Operators -> Seq(Steps \cup Pipes)]
  /\ doomed \in [Operators -> SUBSET Pipes]

(***************************************************************************)
(* A listener that still blocks on a pipe object the factory has dropped   *)
(* would be out of reach of notify(), and the join would not return: every *)
(* object that leaves the factory is closed first.                         *)
(***************************************************************************)
NoOrphanWait ==
  \A p \in Pipes : held[p] \notin {None, factory[p]} => ~ open[p][held[p]]

(***************************************************************************)
(* A handler runs, and a node sends, only between run() and pause() of the *)
(* node, and never for a step that has been cleared.                       *)
(***************************************************************************)
HandlersOnActiveNodes ==
  \A t \in Threads :
    thread[t] = "send" =>
      /\ StepOf(t) \in present
      /\ t \in Pipes => StepOf(t) \in active

(***************************************************************************)
(* When no operator is at work and the state is PAUSE, nothing runs: every *)
(* listener has been joined and every source thread has ended.             *)
(***************************************************************************)
PausedIsQuiet ==
  lock = None /\ state = "PAUSE" =>
    /\ active = {} /\ running = {}
    /\ \A t \in Threads : thread[t] = "none"

(***************************************************************************)
(* Every request is answered: pausing, clearing and loading do not wait    *)
(* for ever for a listener that waits for a message, whatever else goes on.*)
(***************************************************************************)
RequestsReturn ==
  \A o \in Operators : phase[o] # "idle" ~> phase[o] = "idle"

(***************************************************************************)
(* A message in an open pipe of a running step is taken by its listener,   *)
(* unless the step is paused or the pipe is replaced first.                *)
(***************************************************************************)
MessagesAreHandled ==
  \A p \in Pipes, i \in Objects :
    (held[p] = i /\ depth[p][i] > 0) ~> (thread[p] = "send" \/ held[p] # i)

(***************************************************************************)
(* While the status is RUNNING, messages reach every connected port.       *)
(***************************************************************************)
RunningMeansFlowing ==
  \A p \in Pipes :
    (state = "RUN" /\ lock = None /\ p \in linked) ~>
      (thread[p] = "send" \/ state = "PAUSE" \/ p \notin linked)

(***************************************************************************)
(* A dataflow that is answered to be loaded, with no other request under   *)
(* way, is complete, and each of its pipes is there and open.              *)
(***************************************************************************)
LoadedIsComplete ==
  [][\A o \in Operators :
       LoadReturns(o) /\ (\A q \in Operators \ {o} : phase[q] = "idle") =>
         /\ present = Steps /\ linked = Pipes
         /\ \A p \in Pipes : factory[p] # None /\ open[p][factory[p]]]_vars
=============================================================================
