--------------------------- MODULE DataflowProofs ---------------------------
(***************************************************************************)
(* Proofs about the dataflow, for every graph, any number of operators and *)
(* any requests:                                                           *)
(*   - the listeners stay within reach of notify() (ReachInv);             *)
(*   - the variables have their types (TypeInv);                           *)
(*   - nothing runs in a paused studio, and no handler runs on a node that *)
(*     is not active (StepInv, which says what holds of the threads of the *)
(*     steps in each phase of the request that has mutex_).                *)
(***************************************************************************)
EXTENDS Dataflow, TLAPS

\* The types the argument needs.
Types ==
  /\ factory \in [Pipes -> Objects \cup {None}]
  /\ held \in [Pipes -> Objects \cup {None}]
  /\ open \in [Pipes -> [Objects -> BOOLEAN]]

ReachInv == Types /\ NoOrphanWait

-----------------------------------------------------------------------------
\* There is an object for get_pipe to make that no listener holds.
LEMMA FreshObject ==
  ASSUME Types, NEW p \in Pipes
  PROVE  /\ GetPipe(p) \in Objects
         /\ factory[p] = None => GetPipe(p) # held[p]
         /\ factory[p] # None => GetPipe(p) = factory[p]
<1>1. CASE factory[p] # None
  BY <1>1 DEF GetPipe, Types
<1>2. CASE factory[p] = None
  <2>1. \E i \in Objects : i # held[p]
    BY DEF Objects
  <2> QED BY <1>2, <2>1 DEF GetPipe
<1> QED BY <1>1, <1>2

\* stop() and notify() leave the types and whatever is closed.
LEMMA StoppedFacts ==
  ASSUME Types, NEW P
  PROVE  /\ Stopped(P) \in [Pipes -> [Objects -> BOOLEAN]]
         /\ \A p \in Pipes, i \in Objects :
              Stopped(P)[p][i] <=> open[p][i] /\ ~ (p \in P /\ factory[p] = i)
<1>1. ASSUME NEW p \in Pipes
      PROVE  /\ Stopped(P)[p] \in [Objects -> BOOLEAN]
             /\ \A i \in Objects :
                  Stopped(P)[p][i] <=> open[p][i] /\ ~ (p \in P /\ factory[p] = i)
  <2>1. open[p] \in [Objects -> BOOLEAN] /\ factory[p] \in Objects \cup {None}
    BY DEF Types
  <2>2. None \notin Objects
    BY RequestsAssumption
  <2>3. CASE p \in P /\ factory[p] # None
    <3>1. Stopped(P)[p] = [open[p] EXCEPT ![factory[p]] = FALSE]
      BY <2>3 DEF Stopped
    <3> QED BY <2>1, <2>3, <3>1
  <2>4. CASE ~ (p \in P /\ factory[p] # None)
    <3>1. Stopped(P)[p] = open[p]
      BY <2>4 DEF Stopped
    <3> QED BY <2>1, <2>2, <2>4, <3>1
  <2> QED BY <2>3, <2>4
<1>2. Stopped(P) \in [Pipes -> [Objects -> BOOLEAN]]
  BY <1>1 DEF Stopped
<1> QED BY <1>1, <1>2

\* Closing pipes disturbs nothing.
LEMMA ClosingStep ==
  ASSUME ReachInv, NEW P, open' = Stopped(P), UNCHANGED <<factory, held>>
  PROVE  ReachInv'
<1> USE DEF ReachInv
<1>1. Types'
  BY StoppedFacts DEF Types
<1>2. NoOrphanWait'
  <2> SUFFICES ASSUME NEW p \in Pipes, held[p] \notin {None, factory[p]}
               PROVE  ~ Stopped(P)[p][held[p]]
    BY DEF NoOrphanWait
  <2>1. held[p] \in Objects /\ ~ open[p][held[p]]
    BY DEF Types, NoOrphanWait
  <2> QED BY <2>1, StoppedFacts
<1> QED BY <1>1, <1>2

\* PipeFactory::clear() stops what it drops.
LEMMA ClearStep ==
  ASSUME ReachInv, ClearFactory, UNCHANGED held
  PROVE  ReachInv'
<1> USE DEF ReachInv
<1>1. open' = Stopped(Pipes) /\ factory' = [p \in Pipes |-> None]
  BY DEF ClearFactory
<1>2. Types'
  BY <1>1, StoppedFacts DEF Types
<1>3. NoOrphanWait'
  <2> SUFFICES ASSUME NEW p \in Pipes, held[p] # None
               PROVE  ~ Stopped(Pipes)[p][held[p]]
    BY <1>1 DEF NoOrphanWait
  <2>1. held[p] \in Objects
    BY DEF Types
  <2>2. CASE held[p] = factory[p]
    BY <2>1, <2>2, StoppedFacts
  <2>3. CASE held[p] # factory[p]
    <3>1. ~ open[p][held[p]]
      BY <2>3 DEF NoOrphanWait
    <3> QED BY <2>1, <3>1, StoppedFacts
  <2> QED BY <2>2, <2>3
<1> QED BY <1>2, <1>3

\* get_pipe makes an object that is not the one a listener still holds.
LEMMA GetStep ==
  ASSUME ReachInv, NEW p \in Pipes, NEW was \in BOOLEAN,
         was <=> factory[p] = None,
         factory' = [factory EXCEPT ![p] = GetPipe(p)],
         open' = [open EXCEPT ![p][GetPipe(p)] = open[p][GetPipe(p)] \/ was],
         UNCHANGED held
  PROVE  ReachInv'
<1> USE DEF ReachInv
<1> DEFINE i == GetPipe(p)
<1>1. /\ i \in Objects
      /\ factory[p] = None => i # held[p]
      /\ factory[p] # None => i = factory[p]
  BY FreshObject
<1> HIDE DEF i
<1>2. Types'
  <2>1. (open[p][i] \/ was) \in BOOLEAN
    BY <1>1 DEF Types
  <2>2. open' \in [Pipes -> [Objects -> BOOLEAN]]
    BY <2>1, <1>1 DEF Types, i
  <2>3. factory' \in [Pipes -> Objects \cup {None}]
    BY <1>1 DEF Types, i
  <2> QED BY <2>2, <2>3 DEF Types
<1>3. NoOrphanWait'
  <2> SUFFICES ASSUME NEW q \in Pipes, held[q] \notin {None, factory'[q]}
               PROVE  ~ open'[q][held[q]]
    BY DEF NoOrphanWait
  <2>1. CASE q # p
    <3>1. factory'[q] = factory[q] /\ open'[q] = open[q]
      BY <2>1 DEF Types
    <3> QED BY <3>1 DEF NoOrphanWait
  <2>2. CASE q = p
    <3>1. factory'[p] = i
      BY DEF Types, i
    <3>2. held[p] # i /\ held[p] # None
      BY <2>2, <3>1
    <3>3. open'[p][held[p]] = open[p][held[p]]
      BY <3>2, <1>1 DEF Types, i
    <3>4. held[p] # factory[p]
      BY <3>2, <1>1
    <3> QED BY <2>2, <3>2, <3>3, <3>4 DEF NoOrphanWait
  <2> QED BY <2>1, <2>2
<1> QED BY <1>2, <1>3

-----------------------------------------------------------------------------
LEMMA ReachInit == Init => ReachInv
<1> SUFFICES ASSUME Init PROVE ReachInv
  OBVIOUS
<1>1. Types
  BY DEF Init, Types
<1>2. NoOrphanWait
  BY DEF Init, NoOrphanWait
<1> QED BY <1>1, <1>2 DEF ReachInv

LEMMA WorkStep ==
  ASSUME ReachInv, NEW t \in Threads, Work(t)
  PROVE  ReachInv'
<1>1. CASE SourceLoop(t) \/ SendReturns(t)
  BY <1>1 DEF SourceLoop, SendReturns, pipes, ReachInv, Types, NoOrphanWait
<1>2. ASSUME NEW p \in Pipes, PublishTo(t, p) PROVE ReachInv'
  <2>1. /\ factory' = [factory EXCEPT ![p] = GetPipe(p)]
        /\ open' = [open EXCEPT ![p][GetPipe(p)] =
                      open[p][GetPipe(p)] \/ (factory[p] = None)]
        /\ UNCHANGED held
    BY <1>2 DEF PublishTo
  <2> QED BY <2>1, GetStep
<1>3. CASE t \in Pipes /\ (ListenerStart(t) \/ ListenerLoop(t))
  <2>1. UNCHANGED <<factory, open>>
    BY <1>3 DEF ListenerStart, ListenerLoop, pipes
  <2>2. PICK x \in {None, factory[t], held[t]} : held' = [held EXCEPT ![t] = x]
    <3>1. CASE ListenerStart(t)
      BY <3>1 DEF ListenerStart
    <3>2. CASE ListenerLoop(t)
      BY <3>2 DEF ListenerLoop
    <3> QED BY <1>3, <3>1, <3>2
  <2>3. x \in Objects \cup {None}
    BY <1>3 DEF ReachInv, Types
  <2> QED BY <2>1, <2>2, <2>3, <1>3 DEF ReachInv, Types, NoOrphanWait
<1>4. CASE t \in Pipes /\ (ListenerHandle(t) \/ ListenerNothing(t))
  BY <1>4 DEF ListenerHandle, ListenerNothing, pipes, ReachInv, Types, NoOrphanWait
<1> QED BY <1>1, <1>2, <1>3, <1>4 DEF Work

LEMMA RequestStep ==
  ASSUME ReachInv, NEW o \in Operators, Ask(o) \/ Serve(o)
  PROVE  ReachInv'
<1>1. CASE Run(o) \/ Pause(o) \/ StartStep(o) \/ RunReturns(o) \/ StopStep(o)
  BY <1>1 DEF Run, Pause, StartStep, RunReturns, StopStep, pipes, threads,
              ReachInv, Types, NoOrphanWait
<1>2. CASE JoinListeners(o) \/ JoinSource(o) \/ PauseReturns(o) \/ MoveOut(o)
  BY <1>2 DEF JoinListeners, JoinSource, PauseReturns, MoveOut, pipes, threads,
              ReachInv, Types, NoOrphanWait
<1>3. CASE AddStep(o) \/ StepsAdded(o) \/ LoadReturns(o) \/ LoadFails(o)
  BY <1>3 DEF AddStep, StepsAdded, LoadReturns, LoadFails, pipes, threads,
              ReachInv, Types, NoOrphanWait
<1>4. CASE Clear(o) \/ NotifyInputs(o) \/ Destroy(o)
  <2>1. PICK P : open' = Stopped(P)
    BY <1>4 DEF Clear, NotifyInputs, Destroy
  <2>2. UNCHANGED <<factory, held>>
    BY <1>4 DEF Clear, NotifyInputs, Destroy, threads
  <2> QED BY <2>1, <2>2, ClosingStep
<1>5. CASE Reset(o) \/ Wipe(o)
  BY <1>5, ClearStep DEF Reset, Wipe, threads
<1>6. CASE AddPipe(o)
  <2> DEFINE p == Head(todo[o])
  <2>1. /\ factory' = [factory EXCEPT ![p] = GetPipe(p)]
        /\ open' = [open EXCEPT ![p][GetPipe(p)] =
                      open[p][GetPipe(p)] \/ (factory[p] = None)]
        /\ UNCHANGED held
    BY <1>6 DEF AddPipe, threads
  <2>2. CASE p \in Pipes
    BY <2>1, <2>2, GetStep
  <2>3. CASE p \notin Pipes
    <3>1. UNCHANGED <<factory, open>>
      BY <2>1, <2>3 DEF ReachInv, Types
    <3> QED BY <2>1, <3>1 DEF ReachInv, Types, NoOrphanWait
  <2> QED BY <2>2, <2>3
<1> QED BY <1>1, <1>2, <1>3, <1>4, <1>5, <1>6 DEF Ask, Serve

LEMMA ReachStep == ReachInv /\ [Next]_vars => ReachInv'
<1> SUFFICES ASSUME ReachInv, [Next]_vars PROVE ReachInv'
  OBVIOUS
<1>1. CASE UNCHANGED vars
  BY <1>1 DEF vars, pipes, threads, ReachInv, Types, NoOrphanWait
<1>2. ASSUME NEW o \in Operators, Ask(o) \/ Serve(o) PROVE ReachInv'
  BY <1>2, RequestStep
<1>3. ASSUME NEW t \in Threads, Work(t) PROVE ReachInv'
  BY <1>3, WorkStep
<1> QED BY <1>1, <1>2, <1>3 DEF Next

\* Every pipe object that leaves the factory while a listener holds it is
\* closed: stop_threads() can end the wait of every listener it joins.
THEOREM ListenersStayInReach == Spec => []NoOrphanWait
<1>1. ReachInv => NoOrphanWait
  BY DEF ReachInv
<1> QED BY ReachInit, ReachStep, <1>1, PTL DEF Spec
-----------------------------------------------------------------------------
(***************************************************************************)
(* The types, and with them what a listener holds while it runs and what   *)
(* an operator has to go through in each phase.                            *)
(***************************************************************************)
Locked == {"start", "stop", "notify", "join", "halt"}
Pausing == {"notify", "join", "halt"}

Phases == {"idle", "start", "stop", "notify", "join", "halt", "clear", "destroy",
           "wipe", "add", "connect"}

\* In phase l an operator may have x to go through.
Fits(l, x) ==
  /\ l \in Phases /\ x \in Seq(Steps \cup Pipes)
  /\ l \in Locked \cup {"add"} => x \in Seq(Steps)
  /\ l = "connect" => x \in Seq(Pipes)
  /\ l \in Pausing => x # <<>>

TodoTypes ==
  /\ phase \in [Operators -> Phases] /\ todo \in [Operators -> Seq(Steps \cup Pipes)]
  /\ \A o \in Operators : Fits(phase[o], todo[o])

Holding == \A p \in Pipes : thread[p] \in {"loop", "wait", "send"} => held[p] # None

TypeInv == TypeOK /\ Holding /\ TodoTypes

(***************************************************************************)
(* What holds of the threads of the steps while an operator has mutex_, in *)
(* each phase of its request, and while none has.  A step that is neither  *)
(* running nor being paused has no thread.                                 *)
(***************************************************************************)
Quiet(s) == \A t \in Threads : StepOf(t) = s => thread[t] = "none"

Rest(S) == \A s \in Steps \ (running \cup S) : Quiet(s)

Free == active = running /\ Rest({}) /\ (state = "PAUSE" => running = {})

Starting == state = "RUN" /\ active = running /\ Rest({})

Stopping(o) ==
  /\ state = "PAUSE" /\ active = running /\ Rest({})
  /\ running \subseteq Range(todo[o])

StoppingOne(o) ==
  LET s == Head(todo[o]) IN
    /\ state = "PAUSE" /\ s \in present \ running /\ Rest({s})
    /\ running \subseteq Range(Tail(todo[o]))
    /\ active = IF phase[o] = "halt" THEN running ELSE running \cup {s}
    /\ phase[o] = "halt" => \A p \in Pipes : To[p] = s => thread[p] = "none"

StepInv ==
  /\ running \subseteq present
  /\ \A o \in Operators : lock = o <=> phase[o] \in Locked
  /\ lock = None => Free
  /\ \A o \in Operators :
       /\ phase[o] = "start" => Starting
       /\ phase[o] = "stop" => Stopping(o)
       /\ phase[o] \in Pausing => StoppingOne(o)

LEMMA TypesOfTypeOK == TypeOK => Types
BY DEF TypeOK, Types

\* A request goes on: its phase and what it has to go through are replaced.
LEMMA TodoFrame ==
  ASSUME TodoTypes, NEW o \in Operators, NEW l, NEW x, Fits(l, x),
         phase' = [phase EXCEPT ![o] = l], todo' = [todo EXCEPT ![o] = x]
  PROVE  TodoTypes'
<1>1. l \in Phases /\ x \in Seq(Steps \cup Pipes)
  BY DEF Fits
<1>2. ASSUME NEW q \in Operators PROVE Fits(phase'[q], todo'[q])
  <2>1. CASE q = o
    <3>1. phase'[q] = l /\ todo'[q] = x
      BY <2>1 DEF TodoTypes
    <3> QED BY <3>1
  <2>2. CASE q # o
    <3>1. phase'[q] = phase[q] /\ todo'[q] = todo[q]
      BY <2>2 DEF TodoTypes
    <3> QED BY <3>1 DEF TodoTypes
  <2> QED BY <2>1, <2>2
<1>3. phase' \in [Operators -> Phases] /\ todo' \in [Operators -> Seq(Steps \cup Pipes)]
  BY <1>1 DEF TodoTypes
<1>4. TodoTypes' = (/\ phase' \in [Operators -> Phases]
                   /\ todo' \in [Operators -> Seq(Steps \cup Pipes)]
                   /\ \A q \in Operators : Fits(phase'[q], todo'[q]))
  BY DEF TodoTypes, Fits
<1> QED BY <1>2, <1>3, <1>4

\* The same when one of the two stays.
LEMMA TodoStays ==
  ASSUME TodoTypes, NEW o \in Operators
  PROVE  /\ UNCHANGED phase => phase' = [phase EXCEPT ![o] = phase[o]]
         /\ UNCHANGED todo => todo' = [todo EXCEPT ![o] = todo[o]]
         /\ Fits(phase[o], todo[o]) /\ todo[o] \in Seq(Steps \cup Pipes)
BY DEF TodoTypes

LEMMA ReverseFacts ==
  ASSUME NEW S, NEW q \in Seq(S)
  PROVE  Reverse(q) \in Seq(S) /\ Range(Reverse(q)) = Range(q)
<1>1. Len(q) \in Nat /\ DOMAIN q = 1 .. Len(q) /\ \A i \in 1 .. Len(q) : q[i] \in S
  OBVIOUS
<1>2. \A i \in 1 .. Len(q) : Len(q) - i + 1 \in 1 .. Len(q)
                             /\ Len(q) - (Len(q) - i + 1) + 1 = i
  BY <1>1
<1>3. /\ DOMAIN Reverse(q) = 1 .. Len(q)
      /\ \A i \in 1 .. Len(q) : Reverse(q)[i] = q[Len(q) - i + 1]
  BY DEF Reverse
<1>4. Reverse(q) \in Seq(S)
  BY <1>1, <1>2 DEF Reverse
<1> QED BY <1>1, <1>2, <1>3, <1>4 DEF Range

\* Whatever the order, all steps of the file are gone through.
LEMMA Orders ==
  /\ RunOrder \in Seq(Steps)
  /\ PauseOrder \in Seq(Steps) /\ Range(PauseOrder) = Steps
<1>1. Reverse(Order) \in Seq(Steps) /\ Range(Reverse(Order)) = Steps
  BY FileAssumption, ReverseFacts
<1> QED BY <1>1, FileAssumption DEF RunOrder, PauseOrder

LEMMA StepsOfSeq == \A q \in Seq(Steps) : q \in Seq(Steps \cup Pipes)
<1> SUFFICES ASSUME NEW q \in Seq(Steps) PROVE q \in Seq(Steps \cup Pipes)
  OBVIOUS
<1> QED OBVIOUS

LEMMA PipesOfSeq == \A q \in Seq(Pipes) : q \in Seq(Steps \cup Pipes)
OBVIOUS

\* Closing pipes, dropping them, and making one leave the types of the pipes.
PipeTypes ==
  /\ factory \in [Pipes -> Objects \cup {None}]
  /\ open \in [Pipes -> [Objects -> BOOLEAN]]
  /\ depth \in [Pipes -> [Objects -> 0 .. Depth]]

LEMMA ClosedTypes ==
  ASSUME TypeOK, NEW P, open' = Stopped(P), UNCHANGED <<factory, depth>>
  PROVE  PipeTypes'
BY TypesOfTypeOK, StoppedFacts DEF PipeTypes, TypeOK

LEMMA DroppedTypes ==
  ASSUME TypeOK, ClearFactory
  PROVE  PipeTypes'
<1>1. open' \in [Pipes -> [Objects -> BOOLEAN]]
  BY TypesOfTypeOK, StoppedFacts DEF ClearFactory
<1>2. depth' \in [Pipes -> [Objects -> 0 .. Depth]]
  <2>1. ASSUME NEW p \in Pipes, NEW i \in Objects
        PROVE  (IF i = held[p] THEN depth[p][i] ELSE 0) \in 0 .. Depth
    BY RequestsAssumption DEF TypeOK
  <2> QED BY <2>1 DEF ClearFactory
<1> QED BY <1>1, <1>2 DEF PipeTypes, ClearFactory

LEMMA MadeTypes ==
  ASSUME TypeOK, NEW p \in Pipes, NEW flag \in BOOLEAN, NEW n \in 0 .. Depth,
         factory' = [factory EXCEPT ![p] = GetPipe(p)],
         open' = [open EXCEPT ![p][GetPipe(p)] = flag],
         depth' = [depth EXCEPT ![p][GetPipe(p)] = n]
  PROVE  PipeTypes'
<1>1. GetPipe(p) \in Objects
  BY TypesOfTypeOK, FreshObject
<1>2. open' \in [Pipes -> [Objects -> BOOLEAN]]
  BY <1>1 DEF TypeOK
<1>3. depth' \in [Pipes -> [Objects -> 0 .. Depth]]
  BY <1>1 DEF TypeOK
<1> QED BY <1>1, <1>2, <1>3 DEF PipeTypes, TypeOK

LEMMA TypeInit == Init => TypeInv
<1> SUFFICES ASSUME Init PROVE TypeInv
  OBVIOUS
<1>1. depth \in [Pipes -> [Objects -> 0 .. Depth]]
  BY RequestsAssumption DEF Init
<1>2. todo \in [Operators -> Seq(Steps \cup Pipes)]
  BY DEF Init
<1>3. /\ factory \in [Pipes -> Objects \cup {None}]
      /\ held \in [Pipes -> Objects \cup {None}]
      /\ open \in [Pipes -> [Objects -> BOOLEAN]]
      /\ thread \in [Threads -> {"none", "born", "loop", "wait", "send", "ended"}]
      /\ \A s \in Sources : thread[s] \in {"none", "loop", "send"}
      /\ targets \in [Threads -> SUBSET Pipes]
  BY DEF Init, Threads
<1>4. TypeOK
  BY <1>1, <1>2, <1>3 DEF Init, TypeOK
<1>5. Holding
  BY DEF Init, Holding, Threads
<1>6. TodoTypes
  <2>1. Fits("idle", <<>>)
    BY DEF Fits, Phases, Locked, Pausing
  <2> QED BY <1>2, <2>1 DEF Init, TodoTypes, Phases
<1> QED BY <1>4, <1>5, <1>6 DEF TypeInv

LEMMA TypeWork ==
  ASSUME TypeInv, NEW t \in Threads, Work(t)
  PROVE  TypeInv'
<1> USE DEF studio, steps, pipes, control
<1>0. /\ TypeOK /\ UNCHANGED <<studio, lock, linked, steps, control>>
      /\ StepOf(t) \in Steps
  BY StepsAssumption DEF TypeInv, Work, SourceLoop, PublishTo, SendReturns,
     ListenerStart, ListenerLoop, ListenerHandle, ListenerNothing, StepOf, Threads,
     Steps
<1>1. TodoTypes'
  BY <1>0 DEF TypeInv, TodoTypes, Fits
<1>2. Sources \cap Pipes = {}
  BY StepsAssumption DEF Steps
<1>3. PipeTypes /\ Outputs(StepOf(t)) \subseteq Pipes
  BY <1>0 DEF TypeOK, PipeTypes, Outputs
<1>4. CASE t \in Sources /\ SourceLoop(t)
  <2>1. /\ thread' = [thread EXCEPT ![t] = "send"] \/ thread' = [thread EXCEPT ![t] = "none"]
        /\ targets' \in [Threads -> SUBSET Pipes]
        /\ UNCHANGED <<factory, open, depth, held>>
    BY <1>0, <1>3, <1>4 DEF SourceLoop, Send, TypeOK
  <2>2. Holding'
    BY <1>0, <1>2, <1>4, <2>1 DEF TypeInv, Holding, TypeOK, Threads
  <2>3. /\ thread' \in [Threads -> {"none", "born", "loop", "wait", "send", "ended"}]
        /\ \A s \in Sources : thread'[s] \in {"none", "loop", "send"}
    BY <1>0, <2>1 DEF TypeOK, Threads
  <2> QED BY <1>0, <1>1, <1>3, <2>1, <2>2, <2>3 DEF TypeInv, TypeOK
<1>5. ASSUME NEW p \in Pipes, PublishTo(t, p) PROVE TypeInv'
  <2> DEFINE fresh == factory[p] = None
             n == IF fresh THEN 1
                  ELSE IF open[p][GetPipe(p)]
                       THEN IF depth[p][GetPipe(p)] < Depth
                            THEN depth[p][GetPipe(p)] + 1 ELSE Depth
                       ELSE depth[p][GetPipe(p)]
  <2>1. GetPipe(p) \in Objects
    BY <1>0, TypesOfTypeOK, FreshObject
  <2>2. depth[p][GetPipe(p)] \in 0 .. Depth /\ open[p][GetPipe(p)] \in BOOLEAN
    BY <1>0, <2>1 DEF TypeOK
  <2>3. n \in 0 .. Depth
    BY <2>2, RequestsAssumption
  <2>4. (open[p][GetPipe(p)] \/ fresh) \in BOOLEAN
    OBVIOUS
  <2>5. /\ factory' = [factory EXCEPT ![p] = GetPipe(p)]
        /\ open' = [open EXCEPT ![p][GetPipe(p)] = open[p][GetPipe(p)] \/ fresh]
        /\ depth' = [depth EXCEPT ![p][GetPipe(p)] = n]
    BY <1>5 DEF PublishTo
  <2> HIDE DEF fresh, n
  <2>6. PipeTypes'
    BY <1>0, <2>3, <2>4, <2>5, MadeTypes
  <2>7. targets' \in [Threads -> SUBSET Pipes] /\ UNCHANGED <<held, thread>>
    BY <1>0, <1>5 DEF PublishTo, TypeOK
  <2> QED BY <1>0, <1>1, <2>6, <2>7 DEF TypeInv, TypeOK, PipeTypes, Holding
<1>6. CASE SendReturns(t)
  <2>1. /\ thread' = [thread EXCEPT ![t] = "loop"] /\ thread[t] = "send"
        /\ UNCHANGED <<factory, open, depth, held, targets>>
    BY <1>6 DEF SendReturns
  <2>2. Holding'
    BY <1>0, <2>1 DEF TypeInv, Holding, TypeOK, Threads
  <2> QED BY <1>0, <1>1, <2>1, <2>2 DEF TypeInv, TypeOK
<1>7. CASE t \in Pipes /\ ListenerStart(t)
  <2>1. /\ held' \in [Pipes -> Objects \cup {None}]
        /\ thread' = [thread EXCEPT ![t] = IF held'[t] = None THEN "ended" ELSE "loop"]
        /\ \A p \in Pipes \ {t} : held'[p] = held[p]
        /\ UNCHANGED <<factory, open, depth, targets>>
    BY <1>0, <1>7 DEF ListenerStart, TypeOK
  <2>2. Holding'
    BY <1>0, <1>7, <2>1 DEF TypeInv, Holding, TypeOK, Threads
  <2> QED BY <1>0, <1>1, <1>2, <1>7, <2>1, <2>2 DEF TypeInv, TypeOK
<1>8. CASE t \in Pipes /\ ListenerLoop(t)
  <2>1. /\ held' \in [Pipes -> Objects \cup {None}] /\ thread[t] = "loop"
        /\ \/ thread' = [thread EXCEPT ![t] = "ended"]
           \/ thread' = [thread EXCEPT ![t] = "wait"] /\ held'[t] = held[t]
        /\ \A p \in Pipes \ {t} : held'[p] = held[p]
        /\ UNCHANGED <<factory, open, depth, targets>>
    BY <1>0, <1>8 DEF ListenerLoop, TypeOK
  <2>2. Holding'
    BY <1>0, <1>8, <2>1 DEF TypeInv, Holding, TypeOK, Threads
  <2>3. /\ thread' \in [Threads -> {"none", "born", "loop", "wait", "send", "ended"}]
        /\ \A s \in Sources : thread'[s] \in {"none", "loop", "send"}
    BY <1>0, <1>2, <1>8, <2>1 DEF TypeOK, Threads
  <2> QED BY <1>0, <1>1, <1>3, <2>1, <2>2, <2>3 DEF TypeInv, TypeOK
<1>9. CASE t \in Pipes /\ ListenerHandle(t)
  <2>1. held[t] \in Objects /\ thread[t] = "wait"
    BY <1>0, <1>9 DEF ListenerHandle, TypeInv, Holding, TypeOK
  <2>2. depth[t][held[t]] \in 0 .. Depth /\ depth[t][held[t]] > 0
    BY <1>0, <1>9, <2>1 DEF ListenerHandle, TypeOK
  <2>3. depth[t][held[t]] - 1 \in 0 .. Depth
    BY <2>2, RequestsAssumption
  <2>4. depth' = [depth EXCEPT ![t][held[t]] = depth[t][held[t]] - 1]
    BY <1>9 DEF ListenerHandle
  <2>5. depth' \in [Pipes -> [Objects -> 0 .. Depth]]
    BY <1>0, <1>9, <2>1, <2>3, <2>4 DEF TypeOK
  <2>6. /\ thread' = [thread EXCEPT ![t] = "send"]
        /\ targets' \in [Threads -> SUBSET Pipes]
        /\ UNCHANGED <<factory, open, held>>
    BY <1>0, <1>3, <1>9 DEF ListenerHandle, Send, TypeOK
  <2>7. Holding'
    BY <1>0, <1>9, <2>1, <2>6 DEF TypeInv, Holding, TypeOK, Threads
  <2> QED BY <1>0, <1>1, <1>2, <1>9, <2>5, <2>6, <2>7 DEF TypeInv, TypeOK
<1>10. CASE t \in Pipes /\ ListenerNothing(t)
  <2>1. /\ thread' = [thread EXCEPT ![t] = "loop"] /\ thread[t] = "wait"
        /\ UNCHANGED <<factory, open, depth, held, targets>>
    BY <1>10 DEF ListenerNothing
  <2>2. Holding'
    BY <1>0, <2>1 DEF TypeInv, Holding, TypeOK, Threads
  <2> QED BY <1>0, <1>1, <1>2, <1>10, <2>1, <2>2 DEF TypeInv, TypeOK
<1> QED BY <1>4, <1>5, <1>6, <1>7, <1>8, <1>9, <1>10 DEF Work

\* A step of a request that leaves the threads and what they hold.
LEMMA TypeControl ==
  ASSUME TypeInv,
         state' \in {"RUN", "PAUSE"}, lock' \in Operators \cup {None},
         present' \subseteq Steps, ordered' \in BOOLEAN, linked' \subseteq Pipes,
         running' \cup shutdown' \cup active' \subseteq Steps,
         PipeTypes', UNCHANGED threads,
         request' \in [Operators -> Requests \cup {"reload", None}],
         doomed' \in [Operators -> SUBSET Pipes],
         TodoTypes'
  PROVE  TypeInv'
BY DEF TypeInv, TypeOK, PipeTypes, Holding, threads, TodoTypes, Phases

LEMMA TypeTake ==
  ASSUME TypeInv, NEW o \in Operators, Run(o) \/ Pause(o) \/ Reset(o) \/ Clear(o)
  PROVE  TypeInv'
<1> USE DEF studio, steps, Begin, Lock
<1>0. TypeOK /\ PipeTypes /\ TodoTypes
  BY DEF TypeInv, TypeOK, PipeTypes
<1>1. /\ UNCHANGED <<present, ordered, linked, steps, threads, doomed>>
      /\ state' \in {"RUN", "PAUSE"} /\ lock' \in Operators \cup {None}
      /\ request' \in [Operators -> Requests \cup {"reload", None}]
  BY <1>0 DEF Run, Pause, Reset, Clear, TypeOK
<1>2. PipeTypes'
  <2>1. CASE Run(o) \/ Pause(o)
    BY <1>0, <2>1 DEF Run, Pause, pipes, PipeTypes
  <2>2. CASE Reset(o)
    BY <1>0, <2>2, DroppedTypes DEF Reset
  <2>3. CASE Clear(o)
    BY <1>0, <2>3, ClosedTypes DEF Clear
  <2> QED BY <2>1, <2>2, <2>3
<1>3. /\ Fits("start", RunOrder) /\ Fits("stop", PauseOrder)
  BY Orders, StepsOfSeq DEF Fits, Phases, Locked, Pausing
<1>4. TodoTypes'
  <2>1. CASE Run(o)
    <3>1. /\ phase' = [phase EXCEPT ![o] = "start"]
          /\ todo' = [todo EXCEPT ![o] = RunOrder]
      BY <2>1 DEF Run, Continue
    <3> QED BY <1>0, <1>3, <3>1, TodoFrame
  <2>2. CASE Pause(o) \/ Clear(o)
    <3>1. /\ phase' = [phase EXCEPT ![o] = "stop"]
          /\ todo' = [todo EXCEPT ![o] = PauseOrder]
      BY <2>2 DEF Pause, Clear, Continue
    <3> QED BY <1>0, <1>3, <3>1, TodoFrame
  <2>3. CASE Reset(o)
    BY <1>0, <2>3 DEF Reset, TodoTypes, Fits
  <2> QED BY <2>1, <2>2, <2>3
<1> QED BY <1>0, <1>1, <1>2, <1>4, TypeControl DEF TypeOK

\* The steps of run() and pause() that make or end threads.
LEMMA TypeThreads ==
  ASSUME TypeInv, NEW o \in Operators, StartStep(o) \/ JoinListeners(o)
  PROVE  TypeInv'
<1> USE DEF studio, steps, pipes
<1>0. TypeOK /\ TodoTypes /\ Fits(phase[o], todo[o]) /\ Sources \cap Pipes = {}
  BY StepsAssumption DEF TypeInv, TodoTypes, Steps
<1>1. /\ UNCHANGED <<studio, lock, linked, pipes, held, targets, request, doomed>>
  BY DEF StartStep, JoinListeners
<1>2. /\ todo[o] \in Seq(Steps) /\ todo[o] # <<>>
      /\ phase[o] \in {"start", "join"}
  BY <1>0 DEF StartStep, JoinListeners, Fits, Locked, Pausing
<1>3. Head(todo[o]) \in Steps /\ Tail(todo[o]) \in Seq(Steps)
  BY <1>2
<1>4. running' \cup shutdown' \cup active' \subseteq Steps
  BY <1>0, <1>3 DEF StartStep, JoinListeners, TypeOK
<1>5. PICK label \in {"loop", "none"} :
        /\ \A p \in Pipes : thread'[p] \in {thread[p], "none", "born"}
        /\ \A s \in Sources : thread'[s] \in {thread[s], label}
        /\ thread' \in [Threads -> {"none", "born", "loop", "wait", "send", "ended"}]
  <2>1. CASE StartStep(o) /\ Head(todo[o]) \notin present \ running
    BY <1>0, <2>1 DEF StartStep, TypeOK, Threads
  <2>2. CASE StartStep(o) /\ Head(todo[o]) \in present \ running
    <3>1. thread' = [t \in Threads |->
                       IF t = Head(todo[o]) THEN "loop"
                       ELSE IF t \in Pipes /\ StepOf(t) = Head(todo[o]) THEN "born"
                       ELSE thread[t]]
      BY <2>2 DEF StartStep
    <3>2. Head(todo[o]) \notin Pipes
      BY <1>3, StepsAssumption
    <3> QED BY <1>0, <3>1, <3>2 DEF TypeOK, Threads
  <2>3. CASE JoinListeners(o)
    <3>1. thread' = [t \in Threads |-> IF t \in {p \in Pipes : To[p] = Head(todo[o])}
                                         THEN "none" ELSE thread[t]]
      BY <2>3 DEF JoinListeners
    <3> QED BY <1>0, <3>1 DEF TypeOK, Threads
  <2> QED BY <2>1, <2>2, <2>3
<1>6. Holding'
  BY <1>1, <1>5 DEF TypeInv, Holding
<1>7. TodoTypes'
  <2>1. CASE StartStep(o)
    <3>1. /\ phase' = [phase EXCEPT ![o] = "start"]
          /\ todo' = [todo EXCEPT ![o] = Tail(todo[o])]
      BY <1>0, <2>1, TodoStays DEF StartStep
    <3>2. Fits("start", Tail(todo[o]))
      BY <1>3, StepsOfSeq DEF Fits, Phases, Locked, Pausing
    <3> QED BY <1>0, <3>1, <3>2, TodoFrame
  <2>2. CASE JoinListeners(o)
    <3>1. /\ phase' = [phase EXCEPT ![o] = "halt"]
          /\ todo' = [todo EXCEPT ![o] = todo[o]]
      BY <1>0, <2>2, TodoStays DEF JoinListeners, Continue
    <3>2. Fits("halt", todo[o])
      BY <1>2, StepsOfSeq DEF Fits, Phases, Locked, Pausing
    <3> QED BY <1>0, <3>1, <3>2, TodoFrame
  <2> QED BY <2>1, <2>2
<1>8. \A s \in Sources : thread'[s] \in {"none", "loop", "send"}
  BY <1>0, <1>5 DEF TypeOK
<1>9. TypeOK'
  BY <1>0, <1>1, <1>4, <1>5, <1>7, <1>8 DEF TypeOK, TodoTypes, Phases
<1> QED BY <1>6, <1>7, <1>9 DEF TypeInv

\* The steps of pause() and clear() that the types of the pipes survive.
LEMMA TypePause ==
  ASSUME TypeInv, NEW o \in Operators,
         RunReturns(o) \/ StopStep(o) \/ NotifyInputs(o) \/ JoinSource(o)
         \/ PauseReturns(o) \/ MoveOut(o)
  PROVE  TypeInv'
<1> USE DEF studio, steps, pipes, Unlock
<1>0. TypeOK /\ PipeTypes /\ TodoTypes /\ Fits(phase[o], todo[o])
      /\ todo[o] \in Seq(Steps \cup Pipes)
  BY DEF TypeInv, TypeOK, PipeTypes, TodoTypes
<1>1. phase[o] \in Locked
  BY DEF RunReturns, StopStep, NotifyInputs, JoinSource, PauseReturns, MoveOut, Locked
<1>2. todo[o] \in Seq(Steps)
  BY <1>0, <1>1 DEF Fits
<1>3. todo[o] # <<>> => Head(todo[o]) \in Steps /\ Tail(todo[o]) \in Seq(Steps)
  BY <1>2
<1>4. /\ UNCHANGED <<threads, request>>
      /\ state' \in {"RUN", "PAUSE"} /\ lock' \in Operators \cup {None}
      /\ present' \subseteq Steps /\ ordered' \in BOOLEAN /\ linked' \subseteq Pipes
  BY <1>0 DEF RunReturns, StopStep, NotifyInputs, JoinSource, PauseReturns, MoveOut,
              TypeOK
<1>5. running' \cup shutdown' \cup active' \subseteq Steps
  BY <1>0, <1>3 DEF RunReturns, StopStep, NotifyInputs, JoinSource, PauseReturns,
                    MoveOut, TypeOK
<1>6. PipeTypes'
  <2>1. CASE NotifyInputs(o)
    BY <1>0, <2>1, ClosedTypes DEF NotifyInputs
  <2>2. CASE ~ NotifyInputs(o)
    <3>1. UNCHANGED pipes
      BY <2>2 DEF RunReturns, StopStep, JoinSource, PauseReturns, MoveOut
    <3> QED BY <1>0, <3>1 DEF PipeTypes
  <2> QED BY <2>1, <2>2
<1>7. doomed' \in [Operators -> SUBSET Pipes]
  BY <1>0 DEF RunReturns, StopStep, NotifyInputs, JoinSource, PauseReturns, MoveOut,
              TypeOK
<1>8. TodoTypes'
  <2>1. PICK l \in Phases, x \in {todo[o], Tail(todo[o])} :
          /\ phase' = [phase EXCEPT ![o] = l] /\ todo' = [todo EXCEPT ![o] = x]
          /\ x = Tail(todo[o]) => todo[o] # <<>> \/ x = todo[o]
          /\ l \in {"idle", "destroy", "stop", "notify", "join"}
          /\ l \in Pausing => todo[o] # <<>> /\ x = todo[o]
    <3>1. CASE RunReturns(o) \/ PauseReturns(o)
      BY <1>0, <3>1, TodoStays DEF RunReturns, PauseReturns, Continue, Phases, Pausing
    <3>2. CASE StopStep(o) /\ Head(todo[o]) \notin running
      BY <1>0, <3>2, TodoStays DEF StopStep, Phases, Pausing
    <3>3. CASE StopStep(o) /\ Head(todo[o]) \in running
      BY <1>0, <3>3, TodoStays DEF StopStep, Continue, Phases, Pausing
    <3>4. CASE NotifyInputs(o)
      BY <1>0, <3>4, TodoStays DEF NotifyInputs, Continue, Phases, Pausing, Fits
    <3>5. CASE JoinSource(o)
      BY <1>0, <3>5 DEF JoinSource, Continue, Phases, Pausing, Fits
    <3>6. CASE MoveOut(o)
      BY <1>0, <3>6, TodoStays DEF MoveOut, Continue, Phases, Pausing
    <3> QED BY <3>1, <3>2, <3>3, <3>4, <3>5, <3>6
  <2>2. x \in Seq(Steps)
    BY <1>2, <1>3, <2>1
  <2>3. Fits(l, x)
    BY <2>1, <2>2, StepsOfSeq DEF Fits
  <2> QED BY <1>0, <2>1, <2>3, TodoFrame
<1> QED BY <1>0, <1>4, <1>5, <1>6, <1>7, <1>8, TypeControl DEF TypeOK

\* The rest of clear(), and load_json.
LEMMA TypeLoad ==
  ASSUME TypeInv, NEW o \in Operators,
         Destroy(o) \/ Wipe(o) \/ AddStep(o) \/ StepsAdded(o) \/ LoadReturns(o)
         \/ LoadFails(o)
  PROVE  TypeInv'
<1> USE DEF studio, steps, pipes
<1>0. TypeOK /\ PipeTypes /\ TodoTypes /\ Fits(phase[o], todo[o])
      /\ todo[o] \in Seq(Steps \cup Pipes)
  BY DEF TypeInv, TypeOK, PipeTypes, TodoTypes
<1>1. AddStep(o) => todo[o] \in Seq(Steps) /\ todo[o] # <<>>
  BY <1>0 DEF AddStep, Fits
<1>2. AddStep(o) => Head(todo[o]) \in Steps /\ Tail(todo[o]) \in Seq(Steps)
  BY <1>1
<1>3. /\ UNCHANGED <<state, lock, linked, running, shutdown, active, threads, request>>
      /\ present' \subseteq Steps /\ ordered' \in BOOLEAN
  BY <1>0, <1>2 DEF Destroy, Wipe, AddStep, StepsAdded, LoadReturns, LoadFails, TypeOK
<1>4. doomed' \in [Operators -> SUBSET Pipes]
  BY <1>0 DEF Destroy, Wipe, AddStep, StepsAdded, LoadReturns, LoadFails, TypeOK
<1>5. PipeTypes'
  <2>1. CASE Destroy(o)
    BY <1>0, <2>1, ClosedTypes DEF Destroy
  <2>2. CASE Wipe(o)
    BY <1>0, <2>2, DroppedTypes DEF Wipe
  <2>3. CASE AddStep(o) \/ StepsAdded(o) \/ LoadReturns(o) \/ LoadFails(o)
    <3>1. UNCHANGED pipes
      BY <2>3 DEF AddStep, StepsAdded, LoadReturns, LoadFails
    <3> QED BY <1>0, <3>1 DEF PipeTypes
  <2> QED BY <2>1, <2>2, <2>3
<1>6. TodoTypes'
  <2> USE DEF Fits, Phases, Locked, Pausing
  <2>1. CASE Destroy(o)
    <3>1. phase' = [phase EXCEPT ![o] = "wipe"] /\ todo' = [todo EXCEPT ![o] = todo[o]]
      BY <1>0, <2>1, TodoStays DEF Destroy, Continue
    <3> QED BY <1>0, <3>1, TodoFrame
  <2>2. CASE Wipe(o) /\ request[o] = "load"
    <3>1. phase' = [phase EXCEPT ![o] = "clear"] /\ todo' = [todo EXCEPT ![o] = todo[o]]
      BY <1>0, <2>2, TodoStays DEF Wipe, Continue
    <3> QED BY <1>0, <3>1, TodoFrame
  <2>3. CASE Wipe(o) /\ request[o] = "reload"
    <3>1. phase' = [phase EXCEPT ![o] = "add"] /\ todo' = [todo EXCEPT ![o] = Nodes]
      BY <2>3 DEF Wipe, Continue
    <3> QED BY <1>0, <3>1, TodoFrame, FileAssumption, StepsOfSeq
  <2>4. CASE AddStep(o)
    <3>1. /\ phase' = [phase EXCEPT ![o] = "add"]
          /\ todo' = [todo EXCEPT ![o] = Tail(todo[o])]
      BY <1>0, <2>4, TodoStays DEF AddStep
    <3> QED BY <1>0, <1>2, <2>4, <3>1, TodoFrame, StepsOfSeq
  <2>5. CASE StepsAdded(o)
    <3>1. /\ phase' = [phase EXCEPT ![o] = "connect"]
          /\ todo' = [todo EXCEPT ![o] = Connects]
      BY <2>5 DEF StepsAdded, Continue
    <3> QED BY <1>0, <3>1, TodoFrame, FileAssumption, PipesOfSeq
  <2>6. CASE LoadReturns(o)
    <3>1. phase' = [phase EXCEPT ![o] = "idle"] /\ todo' = [todo EXCEPT ![o] = todo[o]]
      BY <1>0, <2>6, TodoStays DEF LoadReturns, Continue
    <3> QED BY <1>0, <3>1, TodoFrame
  <2>7. CASE LoadFails(o)
    <3>1. phase' = [phase EXCEPT ![o] = "idle"] /\ todo' = [todo EXCEPT ![o] = <<>>]
      BY <2>7 DEF LoadFails, Continue
    <3>2. Fits("idle", <<>>)
      OBVIOUS
    <3> QED BY <1>0, <3>1, <3>2, TodoFrame
  <2> QED BY <2>1, <2>2, <2>3, <2>4, <2>5, <2>6, <2>7 DEF Wipe
<1> QED BY <1>0, <1>3, <1>4, <1>5, <1>6, TypeControl DEF TypeOK

LEMMA TypeAddPipe ==
  ASSUME TypeInv, NEW o \in Operators, AddPipe(o)
  PROVE  TypeInv'
<1> USE DEF studio, steps
<1>0. TypeOK /\ TodoTypes /\ Fits(phase[o], todo[o])
  BY DEF TypeInv, TodoTypes
<1>1. todo[o] \in Seq(Pipes) /\ todo[o] # <<>>
  BY <1>0 DEF AddPipe, Fits
<1> DEFINE p == Head(todo[o])
           fresh == factory[p] = None
           n == IF fresh THEN 0 ELSE depth[p][GetPipe(p)]
<1>2. p \in Pipes /\ Tail(todo[o]) \in Seq(Pipes)
  BY <1>1
<1>3. GetPipe(p) \in Objects
  BY <1>0, <1>2, TypesOfTypeOK, FreshObject
<1>4. n \in 0 .. Depth
  BY <1>0, <1>2, <1>3, RequestsAssumption DEF TypeOK
<1>5. (open[p][GetPipe(p)] \/ fresh) \in BOOLEAN
  OBVIOUS
<1>6. /\ factory' = [factory EXCEPT ![p] = GetPipe(p)]
      /\ open' = [open EXCEPT ![p][GetPipe(p)] = open[p][GetPipe(p)] \/ fresh]
      /\ depth' = [depth EXCEPT ![p][GetPipe(p)] = n]
      /\ linked' = linked \cup {p}
  BY DEF AddPipe
<1>7. /\ UNCHANGED <<studio, lock, steps, threads, request, doomed>>
      /\ phase' = [phase EXCEPT ![o] = "connect"]
      /\ todo' = [todo EXCEPT ![o] = Tail(todo[o])]
  BY <1>0, TodoStays DEF AddPipe, TypeInv
<1> HIDE DEF p, fresh, n
<1>8. PipeTypes'
  BY <1>0, <1>2, <1>4, <1>5, <1>6, MadeTypes
<1>9. TodoTypes'
  <2>1. Fits("connect", Tail(todo[o]))
    BY <1>2, PipesOfSeq DEF Fits, Phases, Locked, Pausing
  <2> QED BY <1>0, <1>7, <2>1, TodoFrame
<1> QED BY <1>0, <1>2, <1>6, <1>7, <1>8, <1>9, TypeControl DEF TypeOK

LEMMA TypeStep == TypeInv /\ [Next]_vars => TypeInv'
<1> SUFFICES ASSUME TypeInv, [Next]_vars PROVE TypeInv'
  OBVIOUS
<1>1. CASE UNCHANGED vars
  BY <1>1 DEF vars, studio, steps, pipes, threads, control, TypeInv, TypeOK, Holding,
              TodoTypes
<1>2. ASSUME NEW o \in Operators, Ask(o) \/ Serve(o) PROVE TypeInv'
  BY <1>2, TypeTake, TypeThreads, TypePause, TypeLoad, TypeAddPipe DEF Ask, Serve
<1>3. ASSUME NEW t \in Threads, Work(t) PROVE TypeInv'
  BY <1>3, TypeWork
<1> QED BY <1>1, <1>2, <1>3 DEF Next

\* The variables have their types, whatever the graph and the requests.
THEOREM TypeCorrect == Spec => []TypeOK
<1>1. TypeInv => TypeOK
  BY DEF TypeInv
<1> QED BY TypeInit, TypeStep, <1>1, PTL DEF Spec

-----------------------------------------------------------------------------
LEMMA RangeFacts ==
  ASSUME NEW q \in Seq(Steps), q # <<>>
  PROVE  /\ Head(q) \in Range(q) /\ Head(q) \in Steps /\ Tail(q) \in Seq(Steps)
         /\ Range(Tail(q)) \subseteq Range(q)
         /\ Range(q) \subseteq {Head(q)} \cup Range(Tail(q))
<1>1. /\ Len(q) \in Nat \ {0} /\ DOMAIN q = 1 .. Len(q) /\ Head(q) = q[1]
      /\ Tail(q) \in Seq(Steps) /\ DOMAIN Tail(q) = 1 .. Len(q) - 1
      /\ \A i \in 1 .. Len(q) - 1 : Tail(q)[i] = q[i + 1]
      /\ Head(q) \in Steps
  OBVIOUS
<1>2. 1 \in DOMAIN q
  BY <1>1
<1>3. ASSUME NEW i \in 1 .. Len(q) - 1 PROVE i + 1 \in DOMAIN q
  BY <1>1
<1>4. ASSUME NEW i \in DOMAIN q, i # 1
      PROVE  i - 1 \in 1 .. Len(q) - 1 /\ q[i] = Tail(q)[i - 1]
  BY <1>1, <1>4
<1>5. Range(Tail(q)) \subseteq Range(q)
  BY <1>1, <1>3 DEF Range
<1>6. Range(q) \subseteq {Head(q)} \cup Range(Tail(q))
  BY <1>1, <1>4 DEF Range
<1> QED BY <1>1, <1>2, <1>5, <1>6 DEF Range

LEMMA NoRange == Range(<<>>) = {}
BY DEF Range

\* Who has mutex_ is alone in the phases of run() and pause().
LEMMA OwnStep ==
  ASSUME TypeInv, StepInv, NEW o \in Operators, lock \in {o, None},
         NEW l \in Phases, phase' = [phase EXCEPT ![o] = l],
         lock' = IF l \in Locked THEN o ELSE None,
         running' \subseteq present',
         l \notin Locked => Free',
         l = "start" => Starting',
         l = "stop" => Stopping(o)',
         l \in Pausing => StoppingOne(o)'
  PROVE  StepInv'
<1>1. phase \in [Operators -> Phases] /\ None \notin Operators
  BY RequestsAssumption DEF TypeInv, TodoTypes
<1>2. \A q \in Operators : phase'[q] = IF q = o THEN l ELSE phase[q]
  BY <1>1
<1>3. \A q \in Operators \ {o} : phase[q] \notin Locked
  BY <1>1 DEF StepInv
<1>4. \A q \in Operators : lock' = q <=> phase'[q] \in Locked
  BY <1>1, <1>2, <1>3
<1>5. lock' = None => Free'
  BY <1>1
<1>6. ASSUME NEW q \in Operators
      PROVE  /\ phase'[q] = "start" => Starting'
             /\ phase'[q] = "stop" => Stopping(q)'
             /\ phase'[q] \in Pausing => StoppingOne(q)'
  <2>1. CASE q = o
    BY <1>2, <2>1
  <2>2. CASE q # o
    BY <1>2, <1>3, <2>2 DEF Locked, Pausing
  <2> QED BY <2>1, <2>2
<1> QED BY <1>4, <1>5, <1>6 DEF StepInv

\* A step outside these phases leaves what mutex_ protects, but for new steps.
LEMMA OtherStep ==
  ASSUME TypeInv, StepInv, NEW o \in Operators, phase[o] \notin Locked,
         NEW l \in Phases \ Locked, phase' = [phase EXCEPT ![o] = l],
         UNCHANGED <<state, lock, running, active, thread>>,
         present \subseteq present',
         \A q \in Operators \ {o} : todo'[q] = todo[q]
  PROVE  StepInv'
<1>1. phase \in [Operators -> Phases]
  BY DEF TypeInv, TodoTypes
<1>2. \A q \in Operators : phase'[q] = IF q = o THEN l ELSE phase[q]
  BY <1>1
<1>3. \A q \in Operators : lock' = q <=> phase'[q] \in Locked
  BY <1>2 DEF StepInv
<1>4. lock' = None => Free'
  BY DEF StepInv, Free, Rest, Quiet
<1>5. ASSUME NEW q \in Operators
      PROVE  /\ phase'[q] = "start" => Starting'
             /\ phase'[q] = "stop" => Stopping(q)'
             /\ phase'[q] \in Pausing => StoppingOne(q)'
  <2>1. CASE q = o
    BY <1>2, <2>1 DEF Locked, Pausing
  <2>2. CASE q # o
    <3>1. phase'[q] = phase[q] /\ todo'[q] = todo[q]
      BY <1>2, <2>2
    <3>2. phase[q] = "start" => Starting'
      BY <3>1 DEF StepInv, Starting, Rest, Quiet
    <3>3. phase[q] = "stop" => Stopping(q)'
      BY <3>1 DEF StepInv, Stopping, Rest, Quiet
    <3>4. phase[q] \in Pausing => StoppingOne(q)'
      BY <3>1 DEF StepInv, StoppingOne, Rest, Quiet
    <3> QED BY <3>1, <3>2, <3>3, <3>4
  <2> QED BY <2>1, <2>2
<1>6. running' \subseteq present'
  BY DEF StepInv
<1> QED BY <1>3, <1>4, <1>5, <1>6 DEF StepInv

LEMMA StepInit == Init => StepInv
<1> SUFFICES ASSUME Init PROVE StepInv
  OBVIOUS
<1>1. Free
  BY DEF Init, Free, Rest, Quiet
<1>2. \A o \in Operators : lock # o /\ phase[o] = "idle"
  BY RequestsAssumption DEF Init
<1> QED BY <1>1, <1>2 DEF Init, StepInv, Locked, Pausing

\* No thread comes to life by its own work.
LEMMA StepWork ==
  ASSUME TypeInv, StepInv, NEW t \in Threads, Work(t)
  PROVE  StepInv'
<1>1. UNCHANGED <<state, present, lock, running, active, phase, todo>>
  BY DEF Work, SourceLoop, PublishTo, SendReturns, ListenerStart, ListenerLoop,
     ListenerHandle, ListenerNothing, studio, steps, control
<1>2. \A u \in Threads : thread[u] = "none" => thread'[u] = "none"
  <2>1. thread \in [Threads -> {"none", "born", "loop", "wait", "send", "ended"}]
    BY DEF TypeInv, TypeOK
  <2>2. thread[t] # "none" /\ \A u \in Threads \ {t} : thread'[u] = thread[u]
    BY <2>1 DEF Work, SourceLoop, PublishTo, SendReturns, ListenerStart,
       ListenerLoop, ListenerHandle, ListenerNothing, Send
  <2> QED BY <2>2
<1>3. \A s \in Steps : Quiet(s) => Quiet(s)'
  BY <1>2 DEF Quiet
<1>4. ASSUME NEW S PROVE Rest(S) => Rest(S)'
  BY <1>1, <1>3 DEF Rest
<1>5. Free => Free'
  BY <1>1, <1>4 DEF Free
<1>6. ASSUME NEW o \in Operators
      PROVE  /\ Starting => Starting'
             /\ Stopping(o) => Stopping(o)'
             /\ StoppingOne(o) => StoppingOne(o)'
  <2>1. \A p \in Pipes : thread[p] = "none" => thread'[p] = "none"
    BY <1>2 DEF Threads
  <2>2. Starting => Starting'
    BY <1>1, <1>4 DEF Starting
  <2>3. Stopping(o) => Stopping(o)'
    BY <1>1, <1>4 DEF Stopping
  <2>4. Rest({Head(todo[o])}) => Rest({Head(todo[o])})'
    BY <1>1, <1>3 DEF Rest
  <2>5. StoppingOne(o) => StoppingOne(o)'
    BY <1>1, <2>1, <2>4 DEF StoppingOne
  <2> QED BY <2>2, <2>3, <2>5
<1> QED BY <1>1, <1>5, <1>6 DEF StepInv

\* A request comes in and takes mutex_.
LEMMA StepTake ==
  ASSUME TypeInv, StepInv, NEW o \in Operators, Run(o) \/ Pause(o) \/ Clear(o)
  PROVE  StepInv'
<1> USE DEF studio, steps, threads
<1>1. /\ lock = None /\ lock' = o /\ Free
      /\ UNCHANGED <<present, running, active, thread>>
  BY DEF Run, Pause, Clear, Lock, StepInv
<1>2. Rest({})' /\ active' = running' /\ running' \subseteq present'
  BY <1>1 DEF Free, Rest, Quiet, StepInv
<1>3. todo \in [Operators -> Seq(Steps \cup Pipes)]
  BY DEF TypeInv, TodoTypes
<1>4. CASE Run(o)
  <2>1. phase' = [phase EXCEPT ![o] = "start"] /\ todo'[o] = RunOrder /\ state' = "RUN"
    BY <1>3, <1>4 DEF Run, Continue
  <2>2. Starting'
    BY <1>1, <1>2, <2>1 DEF Starting
  <2> QED BY <1>1, <1>2, <2>1, <2>2, OwnStep DEF Locked, Pausing, Phases
<1>5. CASE Pause(o) \/ Clear(o)
  <2>1. phase' = [phase EXCEPT ![o] = "stop"] /\ todo'[o] = PauseOrder /\ state' = "PAUSE"
    BY <1>3, <1>5 DEF Pause, Clear, Continue
  <2>2. running' \subseteq Steps
    BY <1>1 DEF TypeInv, TypeOK
  <2>3. Stopping(o)'
    BY <1>1, <1>2, <2>1, <2>2, Orders DEF Stopping
  <2> QED BY <1>1, <1>2, <2>1, <2>3, OwnStep DEF Locked, Pausing, Phases
<1> QED BY <1>4, <1>5

\* run() starts its steps, and releases mutex_.
LEMMA StepRun ==
  ASSUME TypeInv, StepInv, NEW o \in Operators, StartStep(o) \/ RunReturns(o)
  PROVE  StepInv'
<1> USE DEF studio, steps, threads
<1>0. TypeOK /\ TodoTypes /\ Fits(phase[o], todo[o]) /\ phase[o] = "start"
  BY DEF TypeInv, TodoTypes, StartStep, RunReturns
<1>1. Starting /\ lock = o /\ running \subseteq present
  BY <1>0 DEF StepInv, Locked
<1>2. CASE RunReturns(o)
  <2>1. Free'
    BY <1>1, <1>2 DEF RunReturns, Starting, Free, Rest, Quiet
  <2>2. /\ phase' = [phase EXCEPT ![o] = "idle"] /\ lock' = None
        /\ running' \subseteq present'
    BY <1>1, <1>2 DEF RunReturns, Unlock, Continue
  <2> QED BY <1>1, <2>1, <2>2, OwnStep DEF Locked, Pausing, Phases
<1>3. CASE StartStep(o)
  <2> DEFINE s == Head(todo[o])
  <2>1. todo[o] \in Seq(Steps) /\ todo[o] # <<>>
    BY <1>0, <1>3 DEF Fits, Locked, StartStep
  <2>2. s \in Steps
    BY <2>1
  <2>3. /\ UNCHANGED <<state, present, lock>>
        /\ phase' = [phase EXCEPT ![o] = "start"]
    BY <1>0, <1>3, TodoStays DEF StartStep
  <2>4. /\ running' \subseteq present /\ running \subseteq running' /\ active' = running'
        /\ s \notin running' => running' = running
        /\ \A t \in Threads : StepOf(t) \notin running' => thread'[t] = thread[t]
    <3>1. CASE s \notin present \ running
      <4>1. UNCHANGED <<running, active, thread>>
        BY <1>3, <3>1 DEF StartStep
      <4> QED BY <1>1, <4>1 DEF Starting
    <3>2. CASE s \in present \ running
      <4>1. /\ running' = running \cup {s} /\ active' = active \cup {s}
            /\ thread' = [t \in Threads |->
                            IF t = s THEN "loop"
                            ELSE IF t \in Pipes /\ StepOf(t) = s THEN "born"
                            ELSE thread[t]]
        BY <1>3, <3>2 DEF StartStep
      <4>2. StepOf(s) = s
        BY <2>2, StepsAssumption DEF StepOf
      <4> QED BY <1>1, <3>2, <4>1, <4>2 DEF Starting
    <3> QED BY <3>1, <3>2
  <2> HIDE DEF s
  <2>5. Rest({})'
    BY <1>1, <2>4 DEF Starting, Rest, Quiet
  <2>6. Starting' /\ running' \subseteq present'
    BY <1>1, <2>3, <2>4, <2>5 DEF Starting
  <2> QED BY <1>1, <2>3, <2>6, OwnStep DEF Locked, Pausing, Phases
<1> QED BY <1>2, <1>3

\* pause() and clear() go on to the next step, and to its end.
LEMMA StepStop ==
  ASSUME TypeInv, StepInv, NEW o \in Operators,
         StopStep(o) \/ PauseReturns(o) \/ MoveOut(o)
  PROVE  StepInv'
<1> USE DEF studio, steps, threads
<1>0. TypeOK /\ TodoTypes /\ Fits(phase[o], todo[o]) /\ phase[o] = "stop"
  BY DEF TypeInv, TodoTypes, StopStep, PauseReturns, MoveOut
<1>1. Stopping(o) /\ lock = o /\ running \subseteq present
  BY <1>0 DEF StepInv, Locked
<1>2. todo[o] \in Seq(Steps)
  BY <1>0 DEF Fits, Locked
<1>3. CASE PauseReturns(o) \/ MoveOut(o)
  <2>1. running = {}
    BY <1>1, <1>3, NoRange DEF PauseReturns, MoveOut, Stopping
  <2>2. PICK l \in {"idle", "destroy"} : phase' = [phase EXCEPT ![o] = l]
    BY <1>3 DEF PauseReturns, MoveOut, Continue
  <2>3. lock' = None /\ UNCHANGED <<state, running, active, thread>>
    BY <1>3 DEF PauseReturns, MoveOut, Unlock
  <2>4. Free' /\ running' \subseteq present'
    BY <1>1, <2>1, <2>3 DEF Stopping, Free, Rest, Quiet
  <2> QED BY <1>1, <2>2, <2>3, <2>4, OwnStep DEF Locked, Pausing, Phases
<1>4. CASE StopStep(o)
  <2> DEFINE s == Head(todo[o])
  <2>1. todo[o] # <<>> /\ UNCHANGED <<state, present, lock, thread>>
    BY <1>4 DEF StopStep
  <2>2. s \in Steps /\ running \subseteq {s} \cup Range(Tail(todo[o]))
    BY <1>1, <1>2, <2>1, RangeFacts DEF Stopping
  <2>3. CASE s \notin running
    <3>1. /\ todo'[o] = Tail(todo[o]) /\ phase' = [phase EXCEPT ![o] = "stop"]
          /\ UNCHANGED <<running, active>>
      BY <1>0, <1>4, <2>3, TodoStays DEF StopStep, TodoTypes
    <3>2. Stopping(o)'
      BY <1>1, <2>1, <2>2, <2>3, <3>1 DEF Stopping, Rest, Quiet
    <3> QED BY <1>1, <2>1, <3>1, <3>2, OwnStep DEF Locked, Pausing, Phases
  <2>4. CASE s \in running
    <3>1. /\ running' = running \ {s} /\ phase' = [phase EXCEPT ![o] = "notify"]
          /\ UNCHANGED <<active, todo>>
      BY <1>4, <2>4 DEF StopStep, Continue
    <3>2. phase'[o] = "notify"
      BY <1>0, <3>1 DEF TodoTypes
    <3> HIDE DEF s
    <3>3. \A x \in Steps \ (running' \cup {s}) : Quiet(x)'
      BY <1>1, <2>1, <3>1 DEF Stopping, Rest, Quiet
    <3>4. StoppingOne(o)'
      BY <1>1, <2>1, <2>2, <2>4, <3>1, <3>2, <3>3 DEF Stopping, StoppingOne, Rest, s
    <3> QED BY <1>1, <2>1, <3>1, <3>4, OwnStep DEF Locked, Pausing, Phases
  <2> QED BY <2>3, <2>4
<1> QED BY <1>3, <1>4

\* Step::pause(): the inputs are closed, the listeners joined, the node paused.
LEMMA StepPause ==
  ASSUME TypeInv, StepInv, NEW o \in Operators,
         NotifyInputs(o) \/ JoinListeners(o) \/ JoinSource(o)
  PROVE  StepInv'
<1> USE DEF studio, steps, threads
<1>0. TypeOK /\ TodoTypes /\ Fits(phase[o], todo[o]) /\ phase[o] \in Pausing
  BY DEF TypeInv, TodoTypes, NotifyInputs, JoinListeners, JoinSource, Pausing
<1>1. StoppingOne(o) /\ lock = o /\ running \subseteq present
  BY <1>0 DEF StepInv, Locked, Pausing
<1>2. todo[o] \in Seq(Steps) /\ todo[o] # <<>>
  BY <1>0 DEF Fits, Locked, Pausing
<1> DEFINE s == Head(todo[o])
<1>3. /\ state = "PAUSE" /\ s \in present \ running /\ Rest({s})
      /\ running \subseteq Range(Tail(todo[o]))
      /\ active = IF phase[o] = "halt" THEN running ELSE running \cup {s}
      /\ phase[o] = "halt" => \A p \in Pipes : To[p] = s => thread[p] = "none"
  BY <1>1 DEF StoppingOne
<1>4. UNCHANGED <<state, present, lock, running>>
  BY DEF NotifyInputs, JoinListeners, JoinSource
<1>5. CASE NotifyInputs(o)
  <2>1. /\ phase[o] = "notify" /\ phase' = [phase EXCEPT ![o] = "join"]
        /\ phase'[o] = "join"
        /\ UNCHANGED <<active, thread, todo>>
    BY <1>0, <1>5 DEF NotifyInputs, Continue, TodoTypes
  <2>2. Rest({s})'
    BY <1>3, <1>4, <2>1 DEF Rest, Quiet
  <2>3. StoppingOne(o)'
    BY <1>3, <1>4, <2>1, <2>2 DEF StoppingOne
  <2> QED BY <1>1, <1>4, <2>1, <2>3, OwnStep DEF Locked, Pausing, Phases
<1>6. CASE JoinListeners(o)
  <2>1. /\ phase[o] = "join" /\ phase' = [phase EXCEPT ![o] = "halt"]
        /\ phase'[o] = "halt" /\ active' = active \ {s}
        /\ UNCHANGED todo
    BY <1>0, <1>6 DEF JoinListeners, Continue, TodoTypes
  <2>2. thread' = [t \in Threads |-> IF t \in {p \in Pipes : To[p] = s} THEN "none"
                                     ELSE thread[t]]
    BY <1>6 DEF JoinListeners
  <2>3. active' = running
    BY <1>3, <2>1
  <2> HIDE DEF s
  <2>4. \A x \in Steps \ (running' \cup {s}) : Quiet(x)'
    BY <1>3, <1>4, <2>2 DEF Rest, Quiet
  <2>5. \A p \in Pipes : To[p] = s => thread'[p] = "none"
    BY <2>2 DEF Threads
  <2>6. StoppingOne(o)'
    BY <1>3, <1>4, <2>1, <2>3, <2>4, <2>5 DEF StoppingOne, Rest, s
  <2> QED BY <1>1, <1>4, <2>1, <2>6, OwnStep DEF Locked, Pausing, Phases
<1>7. CASE JoinSource(o)
  <2>1. /\ phase[o] = "halt" /\ phase' = [phase EXCEPT ![o] = "stop"]
        /\ todo'[o] = Tail(todo[o])
        /\ s \in Sources => thread[s] = "none"
        /\ UNCHANGED <<active, thread>>
    BY <1>0, <1>7 DEF JoinSource, Continue, TodoTypes
  <2> HIDE DEF s
  <2>2. Quiet(s)
    BY <1>3, <2>1 DEF Quiet, StepOf, Threads
  <2>3. Rest({})'
    BY <1>3, <1>4, <2>1, <2>2 DEF Rest, Quiet
  <2>4. Stopping(o)'
    BY <1>3, <1>4, <2>1, <2>3 DEF Stopping
  <2> QED BY <1>1, <1>4, <2>1, <2>4, OwnStep DEF Locked, Pausing, Phases
<1> QED BY <1>5, <1>6, <1>7

\* The rest of clear(), and load_json.
LEMMA StepLoad ==
  ASSUME TypeInv, StepInv, NEW o \in Operators,
         Reset(o) \/ Destroy(o) \/ Wipe(o) \/ AddStep(o) \/ StepsAdded(o)
         \/ AddPipe(o) \/ LoadReturns(o) \/ LoadFails(o)
  PROVE  StepInv'
<1> USE DEF studio, steps, threads
<1>1. todo \in [Operators -> Seq(Steps \cup Pipes)] /\ phase \in [Operators -> Phases]
  BY DEF TypeInv, TodoTypes
<1>2. /\ phase[o] \notin Locked
      /\ UNCHANGED <<state, lock, running, active, thread>>
      /\ present \subseteq present'
  BY DEF Reset, Begin, Destroy, Wipe, AddStep, StepsAdded, AddPipe, LoadReturns,
         LoadFails, Locked
<1>3. \A q \in Operators \ {o} : todo'[q] = todo[q]
  BY <1>1 DEF Reset, Destroy, Wipe, AddStep, StepsAdded, AddPipe, LoadReturns, LoadFails
<1>4. PICK l \in Phases \ Locked : phase' = [phase EXCEPT ![o] = l]
  <2>1. CASE UNCHANGED phase
    BY <1>1, <1>2, <2>1
  <2>2. CASE phase' # phase
    BY <2>2 DEF Reset, Destroy, Wipe, AddStep, StepsAdded, AddPipe, LoadReturns,
       LoadFails, Continue, Phases, Locked
  <2> QED BY <2>1, <2>2
<1> QED BY <1>2, <1>3, <1>4, OtherStep

LEMMA StepStep == TypeInv /\ StepInv /\ [Next]_vars => StepInv'
<1> SUFFICES ASSUME TypeInv, StepInv, [Next]_vars PROVE StepInv'
  OBVIOUS
<1>1. CASE UNCHANGED vars
  BY <1>1 DEF vars, studio, steps, threads, control, StepInv, Free, Starting, Stopping,
              StoppingOne, Rest, Quiet
<1>2. ASSUME NEW o \in Operators, Ask(o) \/ Serve(o) PROVE StepInv'
  BY <1>2, StepTake, StepRun, StepStop, StepPause, StepLoad DEF Ask, Serve
<1>3. ASSUME NEW t \in Threads, Work(t) PROVE StepInv'
  BY <1>3, StepWork
<1> QED BY <1>1, <1>2, <1>3 DEF Next

LEMMA StepsCorrect == Spec => [](TypeInv /\ StepInv)
BY TypeInit, TypeStep, StepInit, StepStep, PTL DEF Spec

\* Nothing runs while nobody has mutex_ and the state is PAUSE: pause() and
\* clear() have joined every listener and every source.
THEOREM PausedQuiet == Spec => []PausedIsQuiet
<1>1. TypeInv /\ StepInv => PausedIsQuiet
  <2> SUFFICES ASSUME TypeInv, StepInv, lock = None, state = "PAUSE"
               PROVE  active = {} /\ running = {} /\ \A t \in Threads : thread[t] = "none"
    BY DEF PausedIsQuiet
  <2>1. active = {} /\ running = {} /\ Rest({})
    BY DEF StepInv, Free
  <2>2. \A t \in Threads : StepOf(t) \in Steps
    BY StepsAssumption DEF StepOf, Threads, Steps
  <2> QED BY <2>1, <2>2 DEF Rest, Quiet
<1> QED BY StepsCorrect, <1>1, PTL

\* A handler runs only on a node that is between run() and pause(), and no
\* thread sends for a step that the studio has not got.
THEOREM HandlersActive == Spec => []HandlersOnActiveNodes
<1>1. TypeInv /\ StepInv => HandlersOnActiveNodes
  <2> SUFFICES ASSUME TypeInv, StepInv, NEW t \in Threads, thread[t] = "send"
               PROVE  /\ StepOf(t) \in present
                      /\ t \in Pipes => StepOf(t) \in active
    BY DEF HandlersOnActiveNodes
  <2> DEFINE s == StepOf(t)
  <2>1. s \in Steps /\ ~ Quiet(s)
    BY StepsAssumption DEF StepOf, Threads, Steps, Quiet
  <2>2. running \subseteq present
    BY DEF StepInv
  <2>3. CASE lock = None
    BY <2>1, <2>2, <2>3 DEF StepInv, Free, Rest
  <2>4. ASSUME NEW o \in Operators, lock = o
        PROVE  s \in present /\ (t \in Pipes => s \in active)
    <3>1. CASE phase[o] = "start"
      BY <2>1, <2>2, <3>1 DEF StepInv, Starting, Rest
    <3>2. CASE phase[o] = "stop"
      BY <2>1, <2>2, <3>2 DEF StepInv, Stopping, Rest
    <3>3. CASE phase[o] \in Pausing
      <4>1. StoppingOne(o)
        BY <3>3 DEF StepInv
      <4>2. s \in running \/ s = Head(todo[o])
        BY <2>1, <4>1 DEF StoppingOne, Rest
      <4>3. t \in Pipes => s = To[t]
        BY DEF StepOf
      <4> QED BY <2>2, <4>1, <4>2, <4>3 DEF StoppingOne
    <3>4. phase[o] \in Locked
      BY <2>4 DEF StepInv
    <3> QED BY <3>1, <3>2, <3>3, <3>4 DEF Locked, Pausing
  <2>5. lock \in Operators \cup {None}
    BY DEF TypeInv, TypeOK
  <2> QED BY <2>3, <2>4, <2>5
<1> QED BY StepsCorrect, <1>1, PTL

-----------------------------------------------------------------------------
(***************************************************************************)
(* A load that is served alone.  Nothing in the agent keeps two requests   *)
(* apart: the routes are served by a pool of threads, and load_json takes  *)
(* the mutex of the studio for each step and pipe anew.  The argument is   *)
(* about a client that waits for the answer before it asks again.          *)
(***************************************************************************)
AskedAlone == \A o \in Operators : Ask(o) => \A q \in Operators : phase[q] = "idle"

Apart == [][AskedAlone]_vars

OneAtATime ==
  \A o, q \in Operators : o # q => phase[o] = "idle" \/ phase[q] = "idle"

\* What has been loaded of the file when operator o has x to go through.
Emptied == present = {} /\ linked = {}
Made == \A p \in Pipes : factory[p] # None => open[p][factory[p]]
Added(x) == Steps \subseteq present \cup Range(x) /\ linked = {} /\ Made
Connected(x) ==
  /\ Steps \subseteq present /\ Pipes \subseteq linked \cup Range(x)
  /\ Made /\ \A p \in linked : factory[p] # None

LoadedTo(o) ==
  /\ phase[o] \in {"destroy", "wipe"} => Emptied
  /\ phase[o] = "add" => Added(todo[o])
  /\ phase[o] = "connect" => Connected(todo[o])

LoadInv == OneAtATime /\ \A o \in Operators : LoadedTo(o)

LEMMA RangeOfPipes ==
  ASSUME NEW q \in Seq(Pipes), q # <<>>
  PROVE  /\ Head(q) \in Pipes /\ Tail(q) \in Seq(Pipes)
         /\ Range(q) \subseteq {Head(q)} \cup Range(Tail(q))
<1>1. /\ Len(q) \in Nat \ {0} /\ DOMAIN q = 1 .. Len(q) /\ Head(q) = q[1]
      /\ Tail(q) \in Seq(Pipes) /\ DOMAIN Tail(q) = 1 .. Len(q) - 1
      /\ \A i \in 1 .. Len(q) - 1 : Tail(q)[i] = q[i + 1]
      /\ Head(q) \in Pipes
  OBVIOUS
<1>2. ASSUME NEW i \in DOMAIN q, i # 1
      PROVE  i - 1 \in 1 .. Len(q) - 1 /\ q[i] = Tail(q)[i - 1]
  BY <1>1, <1>2
<1>3. Range(q) \subseteq {Head(q)} \cup Range(Tail(q))
  BY <1>1, <1>2 DEF Range
<1> QED BY <1>1, <1>3

LEMMA LoadInit == Init => LoadInv
BY DEF Init, LoadInv, OneAtATime, LoadedTo

\* A request that comes in while the others are idle; one that goes on is the
\* only one.
LEMMA AloneStep ==
  ASSUME TypeInv, LoadInv, AskedAlone, NEW o \in Operators, Ask(o) \/ Serve(o)
  PROVE  /\ \A q \in Operators \ {o} : phase[q] = "idle" /\ phase'[q] = "idle"
         /\ OneAtATime'
<1>1. phase \in [Operators -> Phases] /\ todo \in [Operators -> Seq(Steps \cup Pipes)]
  BY DEF TypeInv, TodoTypes
<1>2. \A q \in Operators \ {o} : phase[q] = "idle"
  <2>1. CASE Ask(o)
    BY <2>1 DEF AskedAlone
  <2>2. CASE Serve(o)
    <3>1. phase[o] # "idle"
      BY <2>2 DEF Serve, StartStep, RunReturns, StopStep, NotifyInputs, JoinListeners,
         JoinSource, PauseReturns, MoveOut, Destroy, Wipe, AddStep, StepsAdded,
         AddPipe, LoadReturns, LoadFails
    <3> QED BY <3>1 DEF LoadInv, OneAtATime
  <2> QED BY <2>1, <2>2
<1>3. \A q \in Operators \ {o} : phase'[q] = phase[q]
  BY <1>1 DEF Ask, Serve, Run, Pause, Reset, Clear, StartStep, RunReturns, StopStep,
     NotifyInputs, JoinListeners, JoinSource, PauseReturns, MoveOut, Destroy, Wipe,
     AddStep, StepsAdded, AddPipe, LoadReturns, LoadFails, Continue
<1> QED BY <1>2, <1>3 DEF OneAtATime

LEMMA LoadServe ==
  ASSUME TypeInv, LoadInv, AskedAlone, NEW o \in Operators, Ask(o) \/ Serve(o)
  PROVE  LoadInv'
<1> USE DEF studio, steps, pipes, control
<1>0. /\ TypeOK /\ TodoTypes /\ Fits(phase[o], todo[o]) /\ LoadedTo(o)
      /\ todo \in [Operators -> Seq(Steps \cup Pipes)]
      /\ phase \in [Operators -> Phases]
  BY DEF TypeInv, TodoTypes, LoadInv
<1>1. \A q \in Operators \ {o} : LoadedTo(q)'
  BY AloneStep DEF LoadedTo
<1>2. LoadedTo(o)'
  <2>1. CASE Ask(o) \/ Clear(o)
    <3>1. phase'[o] \in {"idle", "start", "stop"}
      BY <1>0, <2>1 DEF Ask, Run, Pause, Reset, Clear, Begin, Continue
    <3> QED BY <3>1 DEF LoadedTo
  <2>2. CASE \/ StartStep(o) \/ RunReturns(o) \/ StopStep(o) \/ NotifyInputs(o)
             \/ JoinListeners(o) \/ JoinSource(o) \/ PauseReturns(o) \/ LoadReturns(o)
             \/ LoadFails(o)
    <3>1. phase'[o] \in {"idle", "start", "stop", "notify", "join", "halt"}
      BY <1>0, <2>2 DEF StartStep, RunReturns, StopStep, NotifyInputs, JoinListeners,
         JoinSource, PauseReturns, LoadReturns, LoadFails, Continue
    <3> QED BY <3>1 DEF LoadedTo
  <2>3. CASE MoveOut(o) \/ Destroy(o)
    <3>1. Emptied' /\ phase'[o] \in {"destroy", "wipe"}
      BY <1>0, <2>3 DEF MoveOut, Destroy, Continue, LoadedTo, Emptied
    <3> QED BY <3>1 DEF LoadedTo
  <2>4. CASE Wipe(o)
    <3>1. Emptied /\ UNCHANGED <<present, linked>>
      BY <1>0, <2>4 DEF Wipe, LoadedTo
    <3>2. \/ phase'[o] = "clear"
          \/ phase'[o] = "add" /\ todo'[o] = Nodes
      BY <1>0, <2>4 DEF Wipe, Continue
    <3>3. Made'
      BY <2>4 DEF Wipe, ClearFactory, Made
    <3> QED BY <3>1, <3>2, <3>3, FileAssumption DEF LoadedTo, Emptied, Added
  <2>5. CASE AddStep(o)
    <3>1. todo[o] \in Seq(Steps) /\ todo[o] # <<>> /\ Added(todo[o])
      BY <1>0, <2>5 DEF AddStep, Fits, LoadedTo
    <3>2. /\ phase'[o] = "add" /\ todo'[o] = Tail(todo[o])
          /\ present' = present \cup {Head(todo[o])}
          /\ UNCHANGED <<linked, factory, open>>
      BY <1>0, <2>5 DEF AddStep
    <3>3. Steps \subseteq present' \cup Range(todo'[o]) /\ linked' = {} /\ Made'
      BY <3>1, <3>2, RangeFacts DEF Added, Made
    <3> QED BY <3>2, <3>3 DEF LoadedTo, Added, Made
  <2>6. CASE StepsAdded(o)
    <3>1. Added(<<>>)
      BY <1>0, <2>6 DEF StepsAdded, LoadedTo
    <3>2. /\ phase'[o] = "connect" /\ todo'[o] = Connects
          /\ UNCHANGED <<present, linked, factory, open>>
      BY <1>0, <2>6 DEF StepsAdded, Continue
    <3>3. Connected(Connects)'
      BY <3>1, <3>2, NoRange, FileAssumption DEF Added, Connected, Made
    <3> QED BY <3>2, <3>3 DEF LoadedTo, Connected, Made
  <2>7. CASE AddPipe(o)
    <3> DEFINE p == Head(todo[o])
               i == GetPipe(p)
    <3>1. todo[o] \in Seq(Pipes) /\ todo[o] # <<>> /\ Connected(todo[o])
      BY <1>0, <2>7 DEF AddPipe, Fits, LoadedTo
    <3>2. p \in Pipes /\ Tail(todo[o]) \in Seq(Pipes)
          /\ Range(todo[o]) \subseteq {p} \cup Range(Tail(todo[o]))
      BY <3>1, RangeOfPipes
    <3>3. /\ phase'[o] = "connect" /\ todo'[o] = Tail(todo[o]) /\ present' = present
          /\ linked' = linked \cup {p}
          /\ factory' = [factory EXCEPT ![p] = i]
          /\ open' = [open EXCEPT ![p][i] = @ \/ factory[p] = None]
      BY <1>0, <2>7 DEF AddPipe
    <3>4. i \in Objects /\ None \notin Objects /\ (factory[p] # None => i = factory[p])
      BY <1>0, <3>2, TypesOfTypeOK, FreshObject, RequestsAssumption
    <3> HIDE DEF p, i
    <3>5. /\ factory \in [Pipes -> Objects \cup {None}]
          /\ open \in [Pipes -> [Objects -> BOOLEAN]] /\ linked \subseteq Pipes
      BY <1>0 DEF TypeOK
    <3>6. /\ \A x \in Pipes \ {p} : factory'[x] = factory[x] /\ open'[x] = open[x]
          /\ factory'[p] = i /\ i # None
          /\ open'[p][i] = (open[p][i] \/ factory[p] = None)
      BY <3>2, <3>3, <3>4, <3>5
    <3>7. Made'
      BY <3>1, <3>2, <3>4, <3>6 DEF Made, Connected
    <3>8. \A x \in linked' : factory'[x] # None
      BY <3>1, <3>3, <3>5, <3>6 DEF Connected
    <3> QED BY <3>1, <3>2, <3>3, <3>7, <3>8 DEF LoadedTo, Connected
  <2> QED BY <2>1, <2>2, <2>3, <2>4, <2>5, <2>6, <2>7 DEF Serve
<1> QED BY <1>1, <1>2, AloneStep DEF LoadInv

\* Threads push into what is there, or make an open pipe.
LEMMA LoadWork ==
  ASSUME TypeInv, LoadInv, NEW t \in Threads, Work(t)
  PROVE  LoadInv'
<1> USE DEF studio, steps, pipes, control
<1>1. UNCHANGED <<present, linked, phase, todo>>
  BY DEF Work, SourceLoop, PublishTo, SendReturns, ListenerStart, ListenerLoop,
     ListenerHandle, ListenerNothing
<1>2. /\ Made => Made'
      /\ \A p \in Pipes : factory[p] # None => factory'[p] # None
  <2>1. CASE UNCHANGED <<factory, open>>
    BY <2>1 DEF Made
  <2>2. ASSUME NEW p \in Pipes, PublishTo(t, p)
        PROVE  /\ Made => Made'
               /\ \A q \in Pipes : factory[q] # None => factory'[q] # None
    <3> DEFINE i == GetPipe(p)
    <3>1. TypeOK
      BY DEF TypeInv
    <3>2. /\ factory' = [factory EXCEPT ![p] = i]
          /\ open' = [open EXCEPT ![p][i] = @ \/ factory[p] = None]
      BY <2>2 DEF PublishTo
    <3>3. i \in Objects /\ None \notin Objects /\ (factory[p] # None => i = factory[p])
      BY <3>1, TypesOfTypeOK, FreshObject, RequestsAssumption
    <3> HIDE DEF i
    <3>4. /\ \A x \in Pipes \ {p} : factory'[x] = factory[x] /\ open'[x] = open[x]
          /\ factory'[p] = i /\ i # None
          /\ open'[p][i] = (open[p][i] \/ factory[p] = None)
      BY <3>1, <3>2, <3>3 DEF TypeOK
    <3> QED BY <3>3, <3>4 DEF Made
  <2>3. \/ UNCHANGED <<factory, open>>
        \/ \E p \in Pipes : PublishTo(t, p)
    BY DEF Work, SourceLoop, SendReturns, ListenerStart, ListenerLoop,
       ListenerHandle, ListenerNothing
  <2> QED BY <2>1, <2>2, <2>3
<1>3. linked \subseteq Pipes
  BY DEF TypeInv, TypeOK
<1>4. \A o \in Operators : LoadedTo(o)'
  BY <1>1, <1>2, <1>3 DEF LoadInv, LoadedTo, Emptied, Added, Connected
<1>5. OneAtATime'
  BY <1>1 DEF LoadInv, OneAtATime
<1> QED BY <1>4, <1>5 DEF LoadInv

LEMMA LoadStep == TypeInv /\ LoadInv /\ [Next]_vars /\ [AskedAlone]_vars => LoadInv'
<1> SUFFICES ASSUME TypeInv, LoadInv, [Next]_vars, [AskedAlone]_vars PROVE LoadInv'
  OBVIOUS
<1>1. CASE UNCHANGED vars
  BY <1>1 DEF vars, studio, pipes, control, LoadInv, OneAtATime, LoadedTo, Emptied,
              Added, Connected, Made
<1>2. ASSUME NEW o \in Operators, Ask(o) \/ Serve(o), ~ UNCHANGED vars PROVE LoadInv'
  BY <1>2, LoadServe
<1>3. ASSUME NEW t \in Threads, Work(t) PROVE LoadInv'
  BY <1>3, LoadWork
<1> QED BY <1>1, <1>2, <1>3 DEF Next

\* What the route answers "success" for is complete: whatever the graph, the
\* order of the file and what the studio held and did before.
THEOREM LoadsAreComplete == Spec /\ Apart => LoadedIsComplete
<1>1. ASSUME TypeInv, LoadInv, NEW o \in Operators, LoadReturns(o)
      PROVE  /\ present = Steps /\ linked = Pipes
             /\ \A p \in Pipes : factory[p] # None /\ open[p][factory[p]]
  <2>1. Connected(<<>>) /\ present \subseteq Steps /\ linked \subseteq Pipes
    BY <1>1 DEF LoadReturns, LoadInv, LoadedTo, TypeInv, TypeOK
  <2> QED BY <2>1, NoRange DEF Connected, Made
<1>2. TypeInv /\ LoadInv /\ [Next]_vars =>
        [\A o \in Operators :
           LoadReturns(o) /\ (\A q \in Operators \ {o} : phase[q] = "idle") =>
             /\ present = Steps /\ linked = Pipes
             /\ \A p \in Pipes : factory[p] # None /\ open[p][factory[p]]]_vars
  BY <1>1
<1> QED BY TypeInit, TypeStep, LoadInit, LoadStep, <1>2, PTL
        DEF Spec, Apart, LoadedIsComplete
=============================================================================
