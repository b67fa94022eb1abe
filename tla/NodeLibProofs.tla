--------------------------- MODULE NodeLibProofs ---------------------------
(***************************************************************************)
(* Theorems about loading and hot reload in fins::NodeLib, for any steps,  *)
(* plugins, builds and dataflow files: the types, that a loaded dataflow   *)
(* is in a topological order, and that no thread is inside of a node that  *)
(* was taken out, or is of a build that is not open any more, nor, unless  *)
(* its initialize() may throw, of one that has not been initialized.       *)
(***************************************************************************)
EXTENDS NodeLib, FiniteSetTheorems, TLAPS

Nodes == [id : Steps, class : Classes,
          values : SUBSET {"known", "unknown", "bad"}]
Wires == [from : Steps, to : Steps, fits : BOOLEAN]

Creating == {"create", "configure"}
Sorting == {"seed", "sort", "rest"}
Loading == {"create", "configure", "connect", "seed", "sort", "rest", "initialize",
            "stuck"}
Replacing == {"kill", "open", "inject", "initialize", "run"}

\* The file of a load that is under way, and the part of it that is left.
RequestTypes ==
  /\ phase \in Loading \cup {"clear"} => file \in Files
  /\ phase \in Creating => todo \in Seq(Nodes)
  /\ phase = "configure" => todo # <<>>
  /\ phase = "connect" => todo \in Seq(Wires)
  /\ phase \in Sorting \cup {"initialize"} => todo \in Seq(Steps)

\* The plugin that is reloaded, and the step the loop is at.
ReloadTypes ==
  /\ reload # "idle" => target \in Plugins
  /\ reload \in {"initialize", "run"} => left # <<>>
  /\ reload # "new" =>
       Range(left) \subseteq Present /\ Range(affected) \subseteq Present

TypeInv ==
  /\ TypeOK
  /\ phase # "idle" => reload = "idle"
  /\ RequestTypes
  /\ reload # "idle" => ReloadTypes

-----------------------------------------------------------------------------
LEMMA EmptyRange == Range(<<>>) = {}
BY DEF Range

LEMMA TailFacts ==
  ASSUME NEW S, NEW q \in Seq(S), q # <<>>
  PROVE  /\ Head(q) \in S /\ Tail(q) \in Seq(S)
         /\ Head(q) \in Range(q)
         /\ Range(q) = {Head(q)} \cup Range(Tail(q))
<1>1. /\ Len(q) \in Nat /\ Len(q) # 0 /\ DOMAIN q = 1 .. Len(q)
      /\ Head(q) = q[1] /\ Head(q) \in S /\ Tail(q) \in Seq(S)
      /\ Len(Tail(q)) = Len(q) - 1 /\ DOMAIN Tail(q) = 1 .. Len(q) - 1
  OBVIOUS
<1>2. \A i \in 1 .. Len(q) - 1 : Tail(q)[i] = q[i + 1]
  OBVIOUS
<1>3. 1 \in DOMAIN q
  BY <1>1
<1>4. ASSUME NEW i \in DOMAIN q PROVE q[i] \in {Head(q)} \cup Range(Tail(q))
  <2>1. CASE i = 1
    BY <1>1, <2>1
  <2>2. CASE i # 1
    <3>1. i - 1 \in 1 .. Len(q) - 1 /\ (i - 1) + 1 = i
      BY <1>1, <2>2
    <3>2. Tail(q)[i - 1] = q[i]
      BY <1>2, <3>1
    <3> QED BY <1>1, <3>1, <3>2 DEF Range
  <2> QED BY <2>1, <2>2
<1>5. ASSUME NEW i \in DOMAIN Tail(q) PROVE Tail(q)[i] \in Range(q)
  <2>1. i + 1 \in DOMAIN q /\ Tail(q)[i] = q[i + 1]
    BY <1>1, <1>2
  <2> QED BY <2>1 DEF Range
<1> QED BY <1>1, <1>3, <1>4, <1>5 DEF Range

LEMMA FileFacts ==
  ASSUME NEW f \in Files
  PROVE  f.nodes \in Seq(Nodes) /\ f.pipes \in Seq(Wires)
BY FilesAssumption DEF Nodes, Wires

LEMMA AffectedFacts ==
  Affected \in Seq(Steps) /\
  Range(Affected) = {s \in Present : creators[class[s]] # 0}
<1>1. {s \in Present : creators[class[s]] # 0} \in SUBSET Steps
  BY DEF Present
<1> QED BY <1>1, OrderAssumption DEF Affected

\* The types of the graph load_json keeps for itself.
SortTypes ==
  /\ node_ids \in Seq(Steps) /\ adj \in [Steps -> Seq(Steps)]
  /\ in_degree \in [Steps -> Int]
  /\ queue \in Seq(Steps) /\ init_order \in Seq(Steps)

LEMMA TypeInit == Init => TypeInv
<1> SUFFICES ASSUME Init PROVE TypeInv
  OBVIOUS
<1>1. /\ disk \in [Plugins -> Nat] /\ pending \in [Plugins -> Nat]
      /\ handle \in [Plugins -> Nat] /\ judge \in [Plugins -> Nat]
      /\ creators \in [Classes -> Nat]
  BY PluginsAssumption DEF Init
<1>2. class \in [Steps -> Classes \cup {None}] /\ node \in [Steps -> Nat]
  BY DEF Init
<1>3. /\ state \in {"RUN", "PAUSE"} /\ loaded \in BOOLEAN
      /\ given \subseteq Steps /\ ready \subseteq Steps
      /\ running \subseteq Steps /\ busy \subseteq Steps /\ queued \subseteq Pooled
      /\ pipes \subseteq Steps \X Steps
  BY DEF Init
<1>4. /\ order \in Seq(Steps) /\ affected \in Seq(Steps) /\ left \in Seq(Steps)
  BY DEF Init
<1>5. /\ phase = "idle" /\ reload = "idle"
      /\ file \in Files \cup {NoFile} /\ target \in Plugins \cup {None}
  BY DEF Init
<1>6. SortTypes
  BY DEF Init, SortTypes
<1>7. TypeOK
  BY <1>1, <1>2, <1>3, <1>4, <1>5, <1>6 DEF TypeOK, SortTypes
<1>8. RequestTypes
  BY <1>5 DEF RequestTypes, Creating, Sorting, Loading
<1> QED BY <1>5, <1>7, <1>8 DEF TypeInv

LEMMA TypeThreads ==
  ASSUME TypeInv, NEW s \in Steps,
         Enter(s) \/ Enqueue(s) \/ PoolTake(s) \/ Leave(s)
  PROVE  TypeInv'
<1>1. /\ busy' \subseteq Steps /\ queued' \subseteq Pooled
      /\ UNCHANGED <<disk, pending, plugins, nodes, state, running, graph, request,
                     monitor>>
  BY DEF Enter, Enqueue, PoolTake, Leave, TypeInv, TypeOK
<1>2. TypeOK'
  BY <1>1 DEF TypeInv, TypeOK, plugins, nodes, graph, request, sort, monitor
<1>3. RequestTypes' = RequestTypes /\ ReloadTypes' = ReloadTypes
  BY <1>1 DEF RequestTypes, ReloadTypes, Present, nodes, request, monitor
<1> QED BY <1>1, <1>2, <1>3 DEF TypeInv, request, monitor

LEMMA TypeRequests ==
  ASSUME TypeInv,
         Run \/ Pause \/ (\E f \in Files : Load(f)) \/ PauseReturns \/ Cleared
           \/ LoadReturns
  PROVE  TypeInv'
<1> USE DEF TypeInv, Ask, Continue, plugins, nodes, threads, graph, sort, monitor
<1>1. CASE Run
  BY <1>1 DEF Run, TypeOK, RequestTypes, ReloadTypes, Present, request
<1>2. CASE Pause \/ PauseReturns
  BY <1>2 DEF Pause, PauseReturns, TypeOK, RequestTypes, Creating, Sorting, Loading
<1>3. ASSUME NEW f \in Files, Load(f) PROVE TypeInv'
  BY <1>3 DEF Load, TypeOK, RequestTypes, Creating, Sorting, Loading
<1>4. CASE Cleared
  <2>1. file \in Files /\ todo' \in Seq(Nodes) /\ reload' = "idle" /\ file' = file
        /\ phase' = "create"
    BY <1>4, FileFacts DEF Cleared, NewGraph, RequestTypes
  <2>2. class' \in [Steps -> Classes \cup {None}] /\ node' \in [Steps -> Nat]
    BY <1>4 DEF Cleared, NewGraph
  <2> QED BY <1>4, <2>1, <2>2 DEF Cleared, NewGraph, TypeOK, RequestTypes, Creating,
                                             Sorting, Loading
<1>5. CASE LoadReturns
  BY <1>5 DEF LoadReturns, TypeOK, RequestTypes, Creating, Sorting, Loading
<1> QED BY <1>1, <1>2, <1>3, <1>4, <1>5

LEMMA TypeLoad ==
  ASSUME TypeInv,
         CreateStep \/ CreateFails \/ Configure \/ ConfigureHangs \/ Created
           \/ Connect \/ ConnectFails \/ Initialize \/ InitializeFails
  PROVE  TypeInv'
<1> USE DEF TypeInv, Continue, plugins, nodes, threads, graph, sort, monitor
<1>1. CASE CreateStep
  <2>1. /\ todo \in Seq(Nodes) /\ todo # <<>> /\ file \in Files /\ reload = "idle"
    BY <1>1 DEF CreateStep, RequestTypes, Creating, Sorting, Loading
  <2>2. PICK n \in Nodes : n = Head(todo)
    BY <2>1
  <2>3. n.id \in Steps /\ n.class \in Classes
    BY DEF Nodes
  <2>4. creators[n.class] \in Nat
    BY <2>3 DEF TypeOK
  <2>5. class' \in [Steps -> Classes \cup {None}] /\ node' \in [Steps -> Nat]
    BY <1>1, <2>2, <2>3, <2>4 DEF CreateStep, TypeOK
  <2>6. SortTypes'
    BY <1>1, <2>2, <2>3 DEF CreateStep, TypeOK, SortTypes
  <2>7. /\ UNCHANGED <<disk, pending, plugins, given, ready, state, threads, graph, file,
                       todo, monitor>>
        /\ phase' = "configure" /\ phase = "create"
    BY <1>1 DEF CreateStep
  <2>8. TypeOK'
    BY <2>5, <2>6, <2>7 DEF TypeOK, SortTypes
  <2> QED BY <2>1, <2>7, <2>8 DEF RequestTypes, Creating, Sorting, Loading
<1>2. CASE CreateFails \/ ConnectFails \/ InitializeFails
  BY <1>2 DEF CreateFails, ConnectFails, InitializeFails, Fail, TypeOK, RequestTypes, Creating, Sorting, Loading
<1>3. CASE Configure
  <2>1. todo \in Seq(Nodes) /\ todo # <<>> /\ file \in Files /\ reload = "idle"
    BY <1>3 DEF Configure, RequestTypes, Creating, Sorting, Loading
  <2>2. Head(todo) \in Nodes /\ Tail(todo) \in Seq(Nodes)
    BY <2>1
  <2>3. given' \subseteq Steps
    BY <1>3, <2>2 DEF Configure, TypeOK, Nodes
  <2> QED BY <1>3, <2>1, <2>2, <2>3
             DEF Configure, TypeOK, RequestTypes, Creating, Sorting, Loading
<1>4. CASE ConfigureHangs
  BY <1>4 DEF ConfigureHangs, TypeOK, RequestTypes, Creating, Sorting, Loading
<1>5. CASE Created
  <2>1. file \in Files /\ reload = "idle"
    BY <1>5 DEF Created, RequestTypes, Creating, Sorting, Loading
  <2>2. file.pipes \in Seq(Wires)
    BY <2>1, FileFacts
  <2> QED BY <1>5, <2>1, <2>2 DEF Created, TypeOK, RequestTypes, Creating, Sorting, Loading
<1>6. CASE Connect
  <2>1. todo \in Seq(Wires) /\ todo # <<>> /\ file \in Files /\ reload = "idle"
    BY <1>6 DEF Connect, RequestTypes, Loading
  <2>2. Head(todo) \in Wires /\ Tail(todo) \in Seq(Wires)
    BY <2>1
  <2>3. PICK e \in Wires : e = Head(todo)
    BY <2>2
  <2>4. e.from \in Steps /\ e.to \in Steps
    BY DEF Wires
  <2>5. /\ pipes' = pipes \cup {<<e.from, e.to>>}
        /\ adj' = [adj EXCEPT ![e.from] = Append(@, e.to)]
        /\ in_degree' = [in_degree EXCEPT ![e.to] = @ + 1]
        /\ UNCHANGED <<disk, pending, plugins, nodes, state, threads, order, loaded,
                       phase, file, node_ids, queue, init_order, monitor>>
        /\ todo' = Tail(todo) /\ phase = "connect"
    BY <1>6, <2>3 DEF Connect
  <2>6. adj \in [Steps -> Seq(Steps)] /\ adj[e.from] \in Seq(Steps)
    BY <2>4 DEF TypeOK
  <2>7. adj' \in [Steps -> Seq(Steps)] /\ in_degree' \in [Steps -> Int]
    <3>1. Append(adj[e.from], e.to) \in Seq(Steps)
      BY <2>4, <2>6
    <3>2. in_degree \in [Steps -> Int] /\ in_degree[e.to] + 1 \in Int
      BY <2>4 DEF TypeOK
    <3> QED BY <2>4, <2>5, <2>6, <3>1, <3>2
  <2>8. pipes' \subseteq Steps \X Steps
    BY <2>4, <2>5 DEF TypeOK
  <2>9. TypeOK'
    BY <2>5, <2>7, <2>8 DEF TypeOK
  <2> QED BY <2>1, <2>2, <2>5, <2>9 DEF RequestTypes, Creating, Sorting, Loading
<1>7. CASE Initialize
  <2>1. todo \in Seq(Steps) /\ todo # <<>> /\ file \in Files /\ reload = "idle"
    BY <1>7 DEF Initialize, RequestTypes, Loading, Sorting
  <2>2. Head(todo) \in Steps /\ Tail(todo) \in Seq(Steps)
    BY <2>1
  <2> QED BY <1>7, <2>1, <2>2 DEF Initialize, TypeOK, RequestTypes, Creating, Sorting, Loading
<1> QED BY <1>1, <1>2, <1>3, <1>4, <1>5, <1>6, <1>7

Turn ==
  \/ Connected \/ Seed \/ Seeded \/ Pop \/ Cross \/ Drained \/ AddRest \/ Sorted

LEMMA TypeTurn ==
  ASSUME TypeInv, Turn
  PROVE  TypeInv'
<1> USE DEF TypeInv, Continue, plugins, nodes, threads, graph, monitor, sort,
            SortFrame, Sorting
<1>0. /\ file \in Files /\ reload = "idle"
      /\ UNCHANGED <<disk, pending, plugins, nodes, state, threads, pipes, loaded,
                     file, node_ids, adj, monitor>>
      /\ phase' \in Sorting \cup {"initialize"}
  BY DEF Turn, Connected, Seed, Seeded, Pop, Cross, Drained, AddRest, Sorted,
         RequestTypes, Loading
<1>1. /\ node_ids \in Seq(Steps) /\ adj \in [Steps -> Seq(Steps)]
      /\ in_degree \in [Steps -> Int]
      /\ queue \in Seq(Steps) /\ init_order \in Seq(Steps) /\ order \in Seq(Steps)
      /\ phase \in Sorting => todo \in Seq(Steps)
  BY DEF TypeOK, RequestTypes
<1>2. /\ todo' \in Seq(Steps) /\ in_degree' \in [Steps -> Int]
      /\ queue' \in Seq(Steps) /\ init_order' \in Seq(Steps) /\ order' \in Seq(Steps)
  <2>1. CASE Connected \/ Drained \/ Seeded
    BY <1>1, <2>1 DEF Connected, Drained, Seeded
  <2>2. CASE Seed \/ AddRest
    <3>1. Head(todo) \in Steps /\ Tail(todo) \in Seq(Steps)
      BY <1>1, <2>2 DEF Seed, AddRest
    <3>2. /\ Append(queue, Head(todo)) \in Seq(Steps)
          /\ Append(init_order, Head(todo)) \in Seq(Steps)
      BY <1>1, <3>1
    <3>3. todo' = Tail(todo) /\ in_degree' = in_degree /\ order' = order
      BY <2>2 DEF Seed, AddRest
    <3>4. /\ queue' \in {queue, Append(queue, Head(todo))}
          /\ init_order' \in {init_order, Append(init_order, Head(todo))}
      BY <2>2 DEF Seed, AddRest
    <3> QED BY <1>1, <3>1, <3>2, <3>3, <3>4
  <2>3. CASE Pop
    <3>1. Head(queue) \in Steps /\ Tail(queue) \in Seq(Steps)
      BY <1>1, <2>3 DEF Pop
    <3> QED BY <1>1, <2>3, <3>1 DEF Pop
  <2>4. CASE Cross
    <3>1. Head(todo) \in Steps /\ Tail(todo) \in Seq(Steps)
      BY <1>1, <2>4 DEF Cross
    <3>2. in_degree' \in [Steps -> Int]
      BY <1>1, <2>4, <3>1 DEF Cross
    <3> QED BY <1>1, <2>4, <3>1, <3>2 DEF Cross
  <2>5. CASE Sorted
    BY <1>1, <2>5 DEF Sorted
  <2> QED BY <2>1, <2>2, <2>3, <2>4, <2>5 DEF Turn
<1>3. TypeOK'
  BY <1>0, <1>2 DEF TypeOK
<1>4. RequestTypes'
  BY <1>0, <1>2 DEF RequestTypes, Creating, Loading
<1> QED BY <1>0, <1>3, <1>4

LEMMA TypeRegister ==
  ASSUME TypeOK, NEW p \in Plugins, NEW b \in Nat, Open(p, b)
  PROVE  creators' \in [Classes -> Nat]
BY DEF Open, Register, TypeOK

LEMMA TypePlugins ==
  ASSUME TypeInv, NEW p \in Plugins, Build(p) \/ Notice(p)
  PROVE  TypeInv'
<1> USE DEF TypeInv, plugins, nodes, threads, graph, request, sort
<1>1. CASE Build(p)
  <2>1. disk' \in [Plugins -> Nat] /\ pending' \in [Plugins -> Nat]
    <3>1. disk \in [Plugins -> Nat] /\ pending \in [Plugins -> Nat]
      BY DEF TypeOK
    <3> QED BY <1>1, <3>1 DEF Build
  <2>2. UNCHANGED <<plugins, nodes, state, threads, graph, request, monitor>>
    BY <1>1 DEF Build
  <2>3. TypeOK'
    BY <2>1, <2>2 DEF TypeOK, monitor
  <2>4. RequestTypes'
    BY <2>2 DEF RequestTypes
  <2>5. ReloadTypes' = ReloadTypes /\ (phase # "idle" => reload' = "idle")
    BY <2>2 DEF ReloadTypes, Present, monitor
  <2> QED BY <2>2, <2>3, <2>4, <2>5 DEF monitor
<1>2. CASE Notice(p)
  <2>1. pending' \in [Plugins -> Nat] /\ phase = "idle" /\ reload = "idle"
    <3>1. /\ pending[p] > 0 /\ pending' = [pending EXCEPT ![p] = @ - 1]
          /\ phase = "idle" /\ reload = "idle"
      BY <1>2 DEF Notice, Ask
    <3> QED BY <3>1 DEF TypeOK
  <2>2. CASE reload' = "kill"
    <3>1. /\ affected' = Affected /\ left' = Affected /\ target' = p
          /\ UNCHANGED <<disk, plugins, nodes, state, threads, graph, request>>
      BY <1>2, <2>1, <2>2 DEF Notice, Watch, Done
    <3>2. Range(Affected) \subseteq Present /\ Affected \in Seq(Steps)
      BY AffectedFacts
    <3> QED BY <1>2, <2>1, <2>2, <3>1, <3>2
               DEF Notice, TypeOK, RequestTypes, ReloadTypes, Present, Creating, Sorting, Loading
  <2>3. CASE reload' # "kill"
    <3>1. /\ target' \in {p, None} /\ reload' \in {"idle", "new"}
          /\ reload' = "new" => target' = p
          /\ affected' = affected \/ affected' = <<>>
          /\ left' = left \/ left' = <<>>
      BY <1>2, <2>1, <2>3 DEF Notice, Watch, Done
    <3>2. affected' \in Seq(Steps) /\ left' \in Seq(Steps)
      <4>1. <<>> \in Seq(Steps) /\ affected \in Seq(Steps) /\ left \in Seq(Steps)
        BY DEF TypeOK
      <4> QED BY <3>1, <4>1
    <3>3. UNCHANGED <<disk, plugins, nodes, state, threads, graph, request>>
      BY <1>2 DEF Notice
    <3>4. TypeOK'
      BY <2>1, <3>1, <3>2, <3>3 DEF TypeOK
    <3>5. RequestTypes'
      BY <3>3 DEF RequestTypes
    <3> QED BY <2>1, <3>1, <3>3, <3>4, <3>5 DEF ReloadTypes
  <2> QED BY <2>2, <2>3
<1> QED BY <1>1, <1>2

LEMMA TypeReload ==
  ASSUME TypeInv, Reload
  PROVE  TypeInv'
<1> USE DEF TypeInv, Watch, Done, plugins, nodes, threads, graph, request, sort
<1>0. reload # "idle" /\ phase = "idle" /\ target \in Plugins /\ disk[target] \in Nat
  <2>1. reload # "idle"
    BY DEF Reload, LoadNew, Kill, TakeOut, Unload, Reopen, Inject, Reinitialize,
           ReinitializeFails, Restart, Reloaded, Done
  <2> QED BY <2>1 DEF ReloadTypes, TypeOK
<1>1. CASE LoadNew
  <2>1. creators' \in [Classes -> Nat]
    BY <1>0, <1>1, TypeRegister DEF LoadNew
  <2>2. handle' \in [Plugins -> Nat] /\ judge' \in [Plugins -> Nat]
    BY <1>0, <1>1 DEF LoadNew, TypeOK
  <2>3. /\ reload' = "idle" /\ target' = None /\ affected' = <<>> /\ left' = <<>>
        /\ UNCHANGED <<disk, pending, nodes, state, threads, graph, request>>
    BY <1>1 DEF LoadNew
  <2>4. TypeOK'
    <3>1. affected' \in Seq(Steps) /\ left' \in Seq(Steps)
      BY <2>3
    <3> QED BY <2>1, <2>2, <2>3, <3>1 DEF TypeOK
  <2>5. RequestTypes'
    BY <2>3 DEF RequestTypes
  <2> QED BY <2>3, <2>4, <2>5
<1>2. CASE Kill
  <2>1. /\ running' \subseteq Steps
        /\ UNCHANGED <<disk, pending, plugins, nodes, state, busy, queued, graph,
                       request, monitor>>
    BY <1>2 DEF Kill, TypeOK
  <2>2. TypeOK'
    BY <2>1 DEF TypeOK, monitor
  <2>3. RequestTypes' = RequestTypes
    BY <2>1 DEF RequestTypes
  <2>4. ReloadTypes'
    BY <1>0, <2>1 DEF ReloadTypes, Present, monitor
  <2> QED BY <1>0, <2>1, <2>2, <2>3, <2>4
<1>3. CASE TakeOut
  <2>1. /\ Head(left) \in Steps /\ Tail(left) \in Seq(Steps)
        /\ Range(Tail(left)) \subseteq Range(left)
    BY <1>3, TailFacts DEF TakeOut, TypeOK
  <2> QED BY <1>0, <1>3, <2>1
             DEF TakeOut, TypeOK, RequestTypes, ReloadTypes, Present, Creating, Sorting, Loading
<1>4. CASE Unload
  BY <1>0, <1>4 DEF Unload, TypeOK, RequestTypes, ReloadTypes, Present, Creating, Sorting, Loading
<1>5. CASE Reopen
  <2>1. creators' \in [Classes -> Nat]
    BY <1>0, <1>5, TypeRegister DEF Reopen
  <2>2. handle' \in [Plugins -> Nat]
    BY <1>0, <1>5 DEF Reopen, TypeOK
  <2>3. /\ \/ reload' = "idle" /\ target' = None /\ affected' = <<>> /\ left' = <<>>
           \/ /\ reload' = "inject" /\ left' = affected
              /\ UNCHANGED <<target, affected>>
        /\ UNCHANGED <<disk, pending, judge, nodes, state, threads, graph, request>>
    BY <1>5 DEF Reopen
  <2>4. left' \in Seq(Steps) /\ affected' \in Seq(Steps)
    <3>1. <<>> \in Seq(Steps) /\ affected \in Seq(Steps)
      BY DEF TypeOK
    <3> QED BY <2>3, <3>1
  <2>5. TypeOK'
    BY <2>1, <2>2, <2>3, <2>4 DEF TypeOK
  <2>6. RequestTypes'
    BY <2>3 DEF RequestTypes
  <2>7. reload' # "idle" => ReloadTypes'
    BY <1>0, <1>5, <2>3 DEF ReloadTypes, Present, Reopen
  <2> QED BY <1>0, <2>3, <2>5, <2>6, <2>7
<1>6. CASE Inject
  <2>1. Head(left) \in Present
    BY <1>0, <1>6, TailFacts DEF Inject, ReloadTypes, TypeOK
  <2>2. class[Head(left)] \in Classes
    BY <2>1 DEF Present, TypeOK
  <2>3. node' \in [Steps -> Nat]
    BY <1>6, <2>1, <2>2 DEF Inject, TypeOK
  <2> QED BY <1>0, <1>6, <2>3
             DEF Inject, TypeOK, RequestTypes, ReloadTypes, Present, Creating, Sorting, Loading
<1>7. CASE Reinitialize
  <2>1. Head(left) \in Steps
    BY <1>7 DEF Reinitialize, ReloadTypes, TypeOK
  <2> QED BY <1>0, <1>7, <2>1
             DEF Reinitialize, TypeOK, RequestTypes, ReloadTypes, Present, Creating, Sorting, Loading
<1>8. CASE Restart
  <2>1. left # <<>> /\ left \in Seq(Steps)
    BY <1>8 DEF Restart, ReloadTypes, TypeOK
  <2>2. /\ Head(left) \in Steps /\ Tail(left) \in Seq(Steps)
        /\ Range(Tail(left)) \subseteq Range(left)
    BY <2>1, TailFacts
  <2> QED BY <1>0, <1>8, <2>2
             DEF Restart, TypeOK, RequestTypes, ReloadTypes, Present, Creating, Sorting, Loading
<1>9. CASE Reloaded \/ ReinitializeFails
  <2>1. /\ reload' = "idle" /\ target' = None /\ affected' = <<>> /\ left' = <<>>
        /\ UNCHANGED <<disk, pending, plugins, nodes, state, threads, graph, request>>
    BY <1>9 DEF Reloaded, ReinitializeFails, Done
  <2>2. TypeOK'
    <3>1. affected' \in Seq(Steps) /\ left' \in Seq(Steps)
      BY <2>1
    <3> QED BY <2>1, <3>1 DEF TypeOK
  <2>3. RequestTypes'
    BY <2>1 DEF RequestTypes
  <2> QED BY <2>1, <2>2, <2>3
<1> QED BY <1>1, <1>2, <1>3, <1>4, <1>5, <1>6, <1>7, <1>8, <1>9 DEF Reload

LEMMA TypeStep == TypeInv /\ [Next]_vars => TypeInv'
<1> SUFFICES ASSUME TypeInv, [Next]_vars PROVE TypeInv'
  OBVIOUS
<1>1. CASE UNCHANGED vars
  <2>1. UNCHANGED <<disk, pending, handle, judge, creators, class, node, given, ready,
                    state, running, busy, queued, pipes, order, loaded, phase, file,
                    todo, node_ids, adj, in_degree, queue, init_order, reload, target,
                    affected, left>>
    BY <1>1 DEF vars, plugins, nodes, threads, graph, request, sort, monitor
  <2>2. TypeOK'
    BY <2>1 DEF TypeInv, TypeOK
  <2>3. RequestTypes' = RequestTypes /\ ReloadTypes' = ReloadTypes
    BY <2>1 DEF RequestTypes, ReloadTypes, Present
  <2> QED BY <2>1, <2>2, <2>3 DEF TypeInv
<1>2. CASE Serve
  BY <1>2, TypeRequests, TypeLoad, TypeTurn DEF Serve, Turn
<1> QED BY <1>1, <1>2, TypeThreads, TypeRequests, TypePlugins, TypeReload DEF Next

\* Every variable of the plugins, the graph, a request and a reload has its type.
THEOREM TypeCorrect == Spec => []TypeOK
<1>1. TypeInv => TypeOK
  BY DEF TypeInv
<1> QED BY TypeInit, TypeStep, <1>1, PTL DEF Spec
-----------------------------------------------------------------------------
(***************************************************************************)
(* The strengthening of SortedOrder, pass by pass.  While the pipes are    *)
(* connected the graph load_json keeps for itself is that of the studio    *)
(* (GraphInv), and the in-degree of a step counts the pipes into it that   *)
(* Kahn's loop has not crossed (CountInv), two ports on one source as two. *)
(* The loop keeps the steps without such pipes sorted or in the queue, and *)
(* sorts a step after those its pipes come from (SeedInv, KahnInv).  When  *)
(* the queue is empty, each step not sorted has a pipe from another one    *)
(* that is not: they lie behind a cycle, so that what is added for them    *)
(* cannot break the order (RestInv).                                       *)
(***************************************************************************)

\* The pipes as load_json has them: the k-th pipe out of step s.
Edges == UNION {{s} \X DOMAIN adj[s] : s \in Steps}
Enters(e) == adj[e[1]][e[2]]

\* Those Kahn's loop has still to cross: all of a step that is not sorted, and of
\* the last sorted one those in todo.
Uncrossed ==
  {e \in Edges :
     \/ e[1] \notin Range(init_order)
     \/ /\ e[1] = init_order[Len(init_order)]
        /\ e[2] > Len(adj[e[1]]) - Len(todo)}
Into(t) == {e \in Uncrossed : Enters(e) = t}

Precedes(o, u, v) == \E i, j \in DOMAIN o : i < j /\ o[i] = u /\ o[j] = v
Respects(o) == \A e \in pipes : ~ BehindCycle(e[2]) => Precedes(o, e[1], e[2])

Connecting == Creating \cup {"connect", "seed", "sort"}

GraphInv ==
  phase \in Connecting \cup {"rest"} =>
    /\ Range(node_ids) = Present /\ IsInjective(node_ids)
    /\ IsFiniteSet(Edges)
    /\ pipes = {<<e[1], Enters(e)>> : e \in Edges}
    /\ pipes \subseteq Present \X Present
    /\ phase \in Creating => Edges = {}
    /\ phase \in Creating \cup {"connect"} => queue = <<>>
    /\ phase \in Creating \cup {"connect", "seed"} => init_order = <<>>

CountInv ==
  phase \in Connecting => \A t \in Steps : in_degree[t] = Cardinality(Into(t))

SeedInv ==
  phase = "seed" =>
    /\ IsInjective(queue) /\ IsInjective(todo)
    /\ Range(queue) \cap Range(todo) = {}
    /\ Range(queue) \subseteq {t \in Present : in_degree[t] = 0}
    /\ {t \in Present : in_degree[t] = 0} \subseteq Range(queue) \cup Range(todo)
    /\ Range(todo) \subseteq Present

KahnInv ==
  phase = "sort" =>
    /\ IsInjective(queue) /\ IsInjective(init_order)
    /\ Range(queue) \cap Range(init_order) = {}
    /\ Range(queue) \cup Range(init_order) = {t \in Present : in_degree[t] = 0}
    /\ \A e \in pipes :
         e[2] \in Range(init_order) => Precedes(init_order, e[1], e[2])
    /\ todo # <<>> =>
         LET out == adj[init_order[Len(init_order)]]
         IN  /\ init_order # <<>> /\ Len(todo) <= Len(out)
             /\ \A i \in DOMAIN todo : todo[i] = out[Len(out) - Len(todo) + i]

RestInv ==
  phase = "rest" =>
    /\ IsInjective(init_order)
    /\ Range(init_order) \cup Range(todo) = Present
    /\ Respects(init_order)

DoneInv ==
  /\ phase \in Loading \cup {"clear"} => ~ loaded
  /\ phase = "initialize" \/ loaded =>
       IsInjective(order) /\ Range(order) = Present /\ Respects(order)

SortInv == GraphInv /\ CountInv /\ SeedInv /\ KahnInv /\ RestInv /\ DoneInv

LEMMA AppendFacts ==
  ASSUME NEW S, NEW q \in Seq(S), NEW x \in S
  PROVE  /\ Append(q, x) \in Seq(S) /\ DOMAIN Append(q, x) = DOMAIN q \cup {Len(q) + 1}
         /\ Append(q, x)[Len(q) + 1] = x
         /\ \A i \in DOMAIN q : Append(q, x)[i] = q[i] /\ i < Len(q) + 1
         /\ Range(Append(q, x)) = Range(q) \cup {x}
<1>1. /\ Append(q, x) \in Seq(S) /\ DOMAIN Append(q, x) = DOMAIN q \cup {Len(q) + 1}
      /\ Append(q, x)[Len(q) + 1] = x
      /\ \A i \in DOMAIN q : Append(q, x)[i] = q[i] /\ i < Len(q) + 1
  OBVIOUS
<1>2. Range(Append(q, x)) = Range(q) \cup {x}
  BY <1>1 DEF Range
<1> QED BY <1>1, <1>2

LEMMA InjectiveAppend ==
  ASSUME NEW S, NEW q \in Seq(S), NEW x \in S, IsInjective(q), x \notin Range(q)
  PROVE  IsInjective(Append(q, x))
<1>1. SUFFICES ASSUME NEW i \in DOMAIN Append(q, x), NEW j \in DOMAIN Append(q, x),
                      Append(q, x)[i] = Append(q, x)[j]
               PROVE  i = j
  BY DEF IsInjective
<1>2. \A k \in DOMAIN q : q[k] # x
  BY DEF Range
<1> QED BY <1>1, <1>2, AppendFacts DEF IsInjective

LEMMA InjectiveTail ==
  ASSUME NEW S, NEW q \in Seq(S), q # <<>>, IsInjective(q)
  PROVE  IsInjective(Tail(q)) /\ Head(q) \notin Range(Tail(q))
<1>1. /\ Len(q) \in Nat /\ Len(q) # 0 /\ DOMAIN q = 1 .. Len(q) /\ Head(q) = q[1]
      /\ DOMAIN Tail(q) = 1 .. Len(q) - 1
      /\ \A i \in 1 .. Len(q) - 1 : Tail(q)[i] = q[i + 1]
  OBVIOUS
<1>2. ASSUME NEW i \in DOMAIN Tail(q), NEW j \in DOMAIN Tail(q), Tail(q)[i] = Tail(q)[j]
      PROVE  i = j
  <2>1. i + 1 \in DOMAIN q /\ j + 1 \in DOMAIN q /\ q[i + 1] = q[j + 1]
    BY <1>1, <1>2
  <2>2. i + 1 = j + 1
    BY <2>1 DEF IsInjective
  <2> QED BY <1>1, <2>2
<1>3. ASSUME NEW i \in DOMAIN Tail(q), Tail(q)[i] = Head(q) PROVE FALSE
  <2>1. i + 1 \in DOMAIN q /\ 1 \in DOMAIN q /\ q[i + 1] = q[1]
    BY <1>1, <1>3
  <2>2. i + 1 = 1
    BY <2>1 DEF IsInjective
  <2> QED BY <1>1, <2>2
<1> QED BY <1>2, <1>3 DEF IsInjective, Range

LEMMA PrecedesAppend ==
  ASSUME NEW S, NEW q \in Seq(S), NEW x \in S
  PROVE  /\ \A u, v : Precedes(q, u, v) => Precedes(Append(q, x), u, v)
         /\ \A u \in Range(q) : Precedes(Append(q, x), u, x)
<1>1. ASSUME NEW u, NEW v, Precedes(q, u, v) PROVE Precedes(Append(q, x), u, v)
  <2>1. PICK i \in DOMAIN q, j \in DOMAIN q : i < j /\ q[i] = u /\ q[j] = v
    BY <1>1 DEF Precedes
  <2> QED BY <2>1, AppendFacts DEF Precedes
<1>2. ASSUME NEW u \in Range(q) PROVE Precedes(Append(q, x), u, x)
  <2>1. PICK i \in DOMAIN q : q[i] = u
    BY DEF Range
  <2>2. /\ i \in DOMAIN Append(q, x) /\ Append(q, x)[i] = u /\ i < Len(q) + 1
        /\ Len(q) + 1 \in DOMAIN Append(q, x) /\ Append(q, x)[Len(q) + 1] = x
    BY <2>1, AppendFacts
  <2> QED BY <2>2 DEF Precedes
<1> QED BY <1>1, <1>2

LEMMA EdgeFacts ==
  \A e : e \in Edges <=> \E s \in Steps : \E k \in DOMAIN adj[s] : e = <<s, k>>
BY DEF Edges

\* Where neither load_json nor the studio's graph moves.
LEMMA SortFrames ==
  ASSUME SortInv, UNCHANGED <<class, pipes, order, loaded, phase, todo, sort>>
  PROVE  SortInv'
<1>1. /\ Present' = Present /\ Edges' = Edges /\ (\A e : Enters(e)' = Enters(e))
      /\ (\A t : BehindCycle(t)' = BehindCycle(t))
  BY DEF sort, Present, Edges, Enters, BehindCycle
<1>2. \A t : Into(t)' = Into(t)
  BY <1>1 DEF Into, Uncrossed, sort
<1>3. \A o : Respects(o)' = Respects(o)
  BY <1>1 DEF Respects
<1>4. GraphInv' /\ CountInv'
  BY <1>1, <1>2 DEF SortInv, GraphInv, CountInv, sort
<1>5. SeedInv' /\ KahnInv'
  BY <1>1 DEF SortInv, SeedInv, KahnInv, sort
<1>6. RestInv' /\ DoneInv'
  BY <1>1, <1>3 DEF SortInv, RestInv, DoneInv, sort
<1> QED BY <1>4, <1>5, <1>6 DEF SortInv

\* Where load_json has been left or not entered yet, or has its order.
LEMMA SortOutside ==
  ASSUME SortInv, UNCHANGED <<class, pipes, order>>,
         phase' \in {"idle", "pause", "clear", "stuck", "initialize"},
         loaded' \/ phase' = "initialize" => loaded \/ phase = "initialize",
         phase' \in {"clear", "stuck", "initialize"} => ~ loaded'
  PROVE  SortInv'
<1>1. Present' = Present /\ (\A t : BehindCycle(t)' = BehindCycle(t))
  BY DEF Present, BehindCycle
<1>2. Respects(order)' = Respects(order)
  BY <1>1 DEF Respects
<1>3. GraphInv' /\ CountInv' /\ SeedInv' /\ KahnInv' /\ RestInv'
  BY DEF GraphInv, CountInv, SeedInv, KahnInv, RestInv, Connecting, Creating
<1>4. DoneInv'
  BY <1>1, <1>2 DEF SortInv, DoneInv, Loading
<1> QED BY <1>3, <1>4 DEF SortInv

LEMMA SortInit == Init => SortInv
BY DEF Init, SortInv, GraphInv, CountInv, SeedInv, KahnInv, RestInv, DoneInv, Creating,
       Connecting, Loading

\* The dataflow is empty, and its nodes are made: no pipe yet.
LEMMA SortCreate ==
  ASSUME TypeInv, SortInv, Cleared \/ CreateStep \/ Configure \/ Created
  PROVE  SortInv'
<1> USE DEF Continue, Connecting, Creating
<1>0. /\ Edges' = {} /\ pipes' = {} /\ queue' = <<>> /\ init_order' = <<>>
      /\ phase' \in {"create", "configure", "connect"} /\ ~ loaded'
  <2>1. CASE Cleared
    <3>1. \A s \in Steps : DOMAIN adj'[s] = {}
      BY <2>1 DEF Cleared, NewGraph
    <3> QED BY <2>1, <3>1 DEF Cleared, NewGraph, Edges, SortInv, DoneInv
  <2>2. CASE ~ Cleared
    <3>1. /\ phase \in Creating /\ UNCHANGED <<pipes, adj, queue, init_order, loaded>>
          /\ phase' \in {"create", "configure", "connect"}
      BY <2>2 DEF CreateStep, Configure, Created, graph, sort
    <3>2. Edges' = {} /\ Edges = {}
      BY <3>1 DEF SortInv, GraphInv, Edges
    <3> QED BY <3>1, <3>2 DEF SortInv, GraphInv, DoneInv, Loading
  <2> QED BY <2>1, <2>2
<1>1. Range(node_ids') = Present' /\ IsInjective(node_ids')
  <2>1. CASE Cleared
    <3>1. Present' = {} /\ node_ids' = <<>>
      BY <2>1 DEF Cleared, NewGraph, Present
    <3>2. Range(node_ids') = {} /\ IsInjective(node_ids')
      BY <3>1, EmptyRange DEF IsInjective
    <3> QED BY <3>1, <3>2
  <2>2. CASE CreateStep
    <3>1. todo \in Seq(Nodes) /\ todo # <<>> /\ phase = "create"
      BY <2>2 DEF CreateStep, TypeInv, RequestTypes
    <3>2. PICK n \in Nodes : n = Head(todo)
      BY <3>1
    <3> DEFINE s == n.id
    <3>3. /\ class' = [class EXCEPT ![s] = n.class] /\ class[s] = None
          /\ s \in Steps /\ n.class \in Classes
          /\ node_ids' = Append(node_ids, s) /\ node_ids \in Seq(Steps)
          /\ class \in [Steps -> Classes \cup {None}] /\ None \notin Classes
      BY <2>2, <3>2, PluginsAssumption DEF CreateStep, TypeInv, TypeOK, Nodes
    <3>4. Present' = Present \cup {s} /\ s \notin Present
      BY <3>3 DEF Present
    <3>5. Range(node_ids) = Present /\ IsInjective(node_ids)
      BY <3>1 DEF SortInv, GraphInv
    <3> QED BY <3>3, <3>4, <3>5, AppendFacts, InjectiveAppend
  <2>3. CASE Configure \/ Created
    BY <2>3 DEF Configure, Created, SortInv, GraphInv, Present, nodes, sort
  <2> QED BY <2>1, <2>2, <2>3
<1>2. \A t \in Steps : in_degree'[t] = 0
  <2>1. CASE Cleared
    BY <2>1 DEF Cleared, NewGraph
  <2>2. CASE ~ Cleared
    <3>1. phase \in Creating
      BY <2>2 DEF CreateStep, Configure, Created
    <3>2. Edges = {} /\ \A t \in Steps : in_degree[t] = Cardinality(Into(t))
      BY <3>1 DEF SortInv, GraphInv, CountInv
    <3>3. \A t \in Steps : in_degree[t] = 0
      BY <3>2, FS_EmptySet DEF Into, Uncrossed
    <3>4. \A t \in Steps : in_degree'[t] \in {in_degree[t], 0}
      BY <2>2 DEF CreateStep, Configure, Created, sort, TypeInv, TypeOK
    <3> QED BY <3>3, <3>4
  <2> QED BY <2>1, <2>2
<1>3. \A t : Into(t)' = {}
  BY <1>0 DEF Into, Uncrossed
<1>4. GraphInv'
  BY <1>0, <1>1, FS_EmptySet DEF GraphInv
<1>5. CountInv'
  BY <1>2, <1>3, FS_EmptySet DEF CountInv
<1>6. SeedInv' /\ KahnInv' /\ RestInv' /\ DoneInv'
  BY <1>0 DEF SeedInv, KahnInv, RestInv, DoneInv, Loading
<1> QED BY <1>4, <1>5, <1>6 DEF SortInv

\* A pipe is connected: the graph has one edge more, and the step it enters one more
\* that is not crossed.
LEMMA SortConnect ==
  ASSUME TypeInv, SortInv, Connect
  PROVE  SortInv'
<1>1. /\ phase = "connect" /\ phase' = "connect" /\ todo \in Seq(Wires) /\ todo # <<>>
      /\ UNCHANGED <<class, order, loaded, node_ids, queue, init_order>>
  BY DEF Connect, TypeInv, RequestTypes, nodes
<1>2. PICK w \in Wires : w = Head(todo)
  BY <1>1
<1>0. PICK n : n = Len(adj[w.from]) + 1
  OBVIOUS
<1> DEFINE u == w.from
           v == w.to
           x == <<u, n>>
<1>3. /\ u \in Present /\ v \in Present /\ u \in Steps /\ v \in Steps
      /\ pipes' = pipes \cup {<<u, v>>}
      /\ adj' = [adj EXCEPT ![u] = Append(@, v)]
      /\ in_degree' = [in_degree EXCEPT ![v] = @ + 1]
  BY <1>2 DEF Connect, Wires
<1>4. /\ GraphInv /\ CountInv /\ ~ loaded /\ queue = <<>> /\ init_order = <<>>
      /\ adj \in [Steps -> Seq(Steps)] /\ in_degree \in [Steps -> Int]
  BY <1>1 DEF SortInv, GraphInv, Connecting, DoneInv, Loading, TypeInv, TypeOK
<1>5. /\ adj[u] \in Seq(Steps) /\ adj'[u] = Append(adj[u], v)
      /\ \A s \in Steps : s # u => adj'[s] = adj[s]
      /\ adj' \in [Steps -> Seq(Steps)]
  BY <1>3, <1>4
<1>6. /\ DOMAIN adj'[u] = DOMAIN adj[u] \cup {n}
      /\ adj'[u][n] = v
      /\ \A k \in DOMAIN adj[u] : adj'[u][k] = adj[u][k] /\ k # n
  BY <1>0, <1>3, <1>5, AppendFacts
<1>7. Edges' = Edges \cup {x} /\ x \notin Edges
  <2>1. ASSUME NEW e \in Edges' PROVE e \in Edges \cup {x}
    <3>1. PICK s \in Steps : \E k \in DOMAIN adj'[s] : e = <<s, k>>
      BY DEF Edges
    <3>2. PICK k \in DOMAIN adj'[s] : e = <<s, k>>
      BY <3>1
    <3>3. CASE s = u
      BY <1>6, <3>2, <3>3, EdgeFacts
    <3>4. CASE s # u
      BY <1>5, <3>2, <3>4, EdgeFacts
    <3> QED BY <3>3, <3>4
  <2>2. ASSUME NEW e \in Edges PROVE e \in Edges' /\ e # x
    <3>0. PICK s \in Steps : \E k \in DOMAIN adj[s] : e = <<s, k>>
      BY EdgeFacts
    <3>1. PICK k \in DOMAIN adj[s] : e = <<s, k>>
      BY <3>0
    <3>2. k \in DOMAIN adj'[s] /\ (s = u => k # n)
      BY <1>5, <1>6
    <3> QED BY <3>1, <3>2 DEF Edges
  <2>3. x \in Edges'
    BY <1>3, <1>6 DEF Edges
  <2> QED BY <2>1, <2>2, <2>3
<1>8. Enters(x)' = v /\ (\A e \in Edges : Enters(e)' = Enters(e))
  <2>1. ASSUME NEW e \in Edges PROVE Enters(e)' = Enters(e)
    <3>0. PICK s \in Steps : \E k \in DOMAIN adj[s] : e = <<s, k>>
      BY EdgeFacts
    <3>1. PICK k \in DOMAIN adj[s] : e = <<s, k>>
      BY <3>0
    <3> QED BY <1>5, <1>6, <3>1 DEF Enters
  <2> QED BY <1>6, <2>1 DEF Enters
<1>9. Range(<<>>) = {}
  BY EmptyRange
<1>10. /\ \A t : Into(t) = {e \in Edges : Enters(e) = t}
       /\ \A t : Into(t)' = {e \in Edges' : Enters(e)' = t}
  BY <1>1, <1>4, <1>9 DEF Into, Uncrossed
<1>11. /\ Into(v)' = Into(v) \cup {x} /\ x \notin Into(v)
       /\ \A t : t # v => Into(t)' = Into(t)
  <2>1. Into(v)' = {e \in Edges' : Enters(e)' = v} /\ Into(v) = {e \in Edges : Enters(e) = v}
    BY <1>10
  <2>2. ASSUME NEW t, t # v PROVE Into(t)' = Into(t)
    BY <1>7, <1>8, <1>10, <2>2
  <2> QED BY <1>7, <1>8, <2>1, <2>2
<1>12. /\ IsFiniteSet(Edges) /\ IsFiniteSet(Edges') /\ IsFiniteSet(Into(v))
  <2>1. IsFiniteSet(Edges) /\ Into(v) \in SUBSET Edges
    BY <1>1, <1>4, <1>10 DEF GraphInv, Connecting
  <2>2. IsFiniteSet(Into(v))
    BY <2>1, FS_Subset
  <2> QED BY <1>7, <2>1, <2>2, FS_AddElement
<1>13. ASSUME NEW t \in Steps PROVE in_degree'[t] = Cardinality(Into(t)')
  <2>1. in_degree[t] = Cardinality(Into(t))
    BY <1>1, <1>4 DEF CountInv, Connecting
  <2>2. CASE t = v
    <3>1. Cardinality(Into(v)') = Cardinality(Into(v)) + 1
      BY <1>11, <1>12, FS_AddElement
    <3>2. in_degree'[v] = in_degree[v] + 1
      BY <1>3, <1>4
    <3> QED BY <2>1, <2>2, <3>1, <3>2
  <2>3. CASE t # v
    <3>1. in_degree'[t] = in_degree[t] /\ Into(t)' = Into(t)
      BY <1>3, <1>4, <1>11, <2>3
    <3> QED BY <2>1, <3>1
  <2> QED BY <2>2, <2>3
<1>14. /\ Range(node_ids') = Present' /\ IsInjective(node_ids') /\ Present' = Present
       /\ pipes = {<<e[1], Enters(e)>> : e \in Edges} /\ pipes \subseteq Present \X Present
  BY <1>1, <1>4 DEF GraphInv, Connecting, Present
<1>15. pipes' = {<<e[1], Enters(e)'>> : e \in Edges'}
  <2>1. ASSUME NEW y \in pipes' PROVE \E e \in Edges' : y = <<e[1], Enters(e)'>>
    <3>1. CASE y \in pipes
      <4>1. PICK e \in Edges : y = <<e[1], Enters(e)>>
        BY <1>14, <3>1
      <4> QED BY <1>7, <1>8, <4>1
    <3>2. CASE y = <<u, v>>
      <4>1. x \in Edges' /\ x[1] = u
        BY <1>7
      <4> QED BY <1>8, <3>2, <4>1
    <3> QED BY <1>3, <3>1, <3>2
  <2>2. ASSUME NEW e \in Edges' PROVE <<e[1], Enters(e)'>> \in pipes'
    <3>1. CASE e \in Edges
      BY <1>3, <1>8, <1>14, <3>1
    <3>2. CASE e = x
      BY <1>3, <1>8, <3>2
    <3> QED BY <1>7, <3>1, <3>2
  <2> QED BY <2>1, <2>2
<1>16. GraphInv'
  <2>1. pipes' \subseteq Present' \X Present'
    BY <1>3, <1>14
  <2>2. phase' \notin Creating /\ queue' = <<>> /\ init_order' = <<>>
    BY <1>1, <1>4 DEF Creating
  <2> QED BY <1>12, <1>14, <1>15, <2>1, <2>2 DEF GraphInv
<1>17. CountInv'
  BY <1>13 DEF CountInv
<1>18. SeedInv' /\ KahnInv' /\ RestInv' /\ DoneInv'
  BY <1>1, <1>4 DEF SeedInv, KahnInv, RestInv, DoneInv
<1> QED BY <1>16, <1>17, <1>18 DEF SortInv

\* What the turns of pass 3 rest on, and leave alone.
LEMMA TurnFrame ==
  ASSUME TypeInv, SortInv, Turn
  PROVE  /\ Present' = Present /\ Edges' = Edges /\ (\A e : Enters(e)' = Enters(e))
         /\ (\A t : BehindCycle(t)' = BehindCycle(t))
         /\ UNCHANGED <<pipes, adj, node_ids>>
         /\ node_ids \in Seq(Steps) /\ queue \in Seq(Steps) /\ init_order \in Seq(Steps)
         /\ adj \in [Steps -> Seq(Steps)] /\ in_degree \in [Steps -> Int]
         /\ phase # "connect" => todo \in Seq(Steps)
         /\ Range(node_ids) = Present /\ IsInjective(node_ids) /\ IsFiniteSet(Edges)
         /\ pipes = {<<e[1], Enters(e)>> : e \in Edges}
         /\ pipes \subseteq Present \X Present /\ Present \subseteq Steps
         /\ ~ loaded' /\ phase' \in Sorting \cup {"initialize"}
<1>1. /\ phase \in {"connect", "seed", "sort", "rest"}
      /\ phase' \in Sorting \cup {"initialize"}
      /\ UNCHANGED <<class, pipes, loaded, adj, node_ids>>
  BY DEF Turn, Connected, Seed, Seeded, Pop, Cross, Drained, AddRest, Sorted, SortFrame,
         Sorting, Continue, nodes, graph, sort
<1>2. /\ Present' = Present /\ Edges' = Edges /\ (\A e : Enters(e)' = Enters(e))
      /\ (\A t : BehindCycle(t)' = BehindCycle(t))
  BY <1>1 DEF Present, Edges, Enters, BehindCycle
<1>3. /\ node_ids \in Seq(Steps) /\ queue \in Seq(Steps) /\ init_order \in Seq(Steps)
      /\ adj \in [Steps -> Seq(Steps)] /\ in_degree \in [Steps -> Int]
      /\ phase # "connect" => todo \in Seq(Steps)
  BY <1>1 DEF TypeInv, TypeOK, RequestTypes, Sorting
<1>4. /\ Range(node_ids) = Present /\ IsInjective(node_ids) /\ IsFiniteSet(Edges)
      /\ pipes = {<<e[1], Enters(e)>> : e \in Edges}
      /\ pipes \subseteq Present \X Present
  BY <1>1 DEF SortInv, GraphInv, Connecting
<1>5. ~ loaded'
  BY <1>1 DEF SortInv, DoneInv, Loading
<1> QED BY <1>1, <1>2, <1>3, <1>4, <1>5 DEF Present

\* What the turns keep of the invariant: the graph, and that nothing is loaded.
LEMMA TurnGraph ==
  ASSUME TypeInv, SortInv, Turn
  PROVE  /\ (phase' = "seed" => init_order' = <<>>) => GraphInv'
         /\ phase' # "initialize" => DoneInv'
<1>1. phase' \notin Creating \cup {"connect"}
  BY TurnFrame DEF Creating, Sorting
<1>2. (phase' = "seed" => init_order' = <<>>) => GraphInv'
  BY <1>1, TurnFrame DEF GraphInv, Creating
<1>3. phase' # "initialize" => DoneInv'
  BY TurnFrame DEF DoneInv
<1> QED BY <1>2, <1>3

LEMMA SortSeed ==
  ASSUME TypeInv, SortInv, Connected \/ Seed \/ Seeded
  PROVE  SortInv'
<1> USE DEF Continue, SortFrame
<1>0. Turn
  BY DEF Turn
<1>1. /\ phase \in {"connect", "seed"} /\ phase' \in {"seed", "sort"}
      /\ UNCHANGED <<in_degree, init_order>> /\ init_order = <<>>
  BY DEF Connected, Seed, Seeded, SortInv, GraphInv, Connecting
<1>2. GraphInv' /\ DoneInv' /\ RestInv'
  BY <1>0, <1>1, TurnGraph DEF RestInv
<1>3. CountInv'
  <2>1. \A t : Into(t) = {e \in Edges : Enters(e) = t}
    BY <1>1, EmptyRange DEF Into, Uncrossed
  <2>2. \A t : Into(t)' = {e \in Edges' : Enters(e)' = t}
    BY <1>1, EmptyRange DEF Into, Uncrossed
  <2>3. \A t : Into(t)' = Into(t)
    BY <1>0, <2>1, <2>2, TurnFrame
  <2>4. \A t \in Steps : in_degree[t] = Cardinality(Into(t))
    BY <1>1 DEF SortInv, CountInv, Connecting
  <2> QED BY <1>1, <2>3, <2>4 DEF CountInv
<1>4. CASE Connected
  <2>1. /\ todo' = node_ids /\ queue' = <<>> /\ phase' = "seed"
    BY <1>4 DEF Connected, SortInv, GraphInv, Connecting
  <2>2. IsInjective(queue') /\ Range(queue') = {}
    BY <2>1, EmptyRange DEF IsInjective
  <2>3. /\ IsInjective(todo') /\ Range(todo') = Present'
    BY <1>0, <2>1, TurnFrame
  <2>4. SeedInv'
    BY <2>2, <2>3 DEF SeedInv
  <2>5. KahnInv'
    BY <2>1 DEF KahnInv
  <2> QED BY <1>2, <1>3, <2>4, <2>5 DEF SortInv
<1>5. CASE Seed
  <2>1. /\ SeedInv /\ phase = "seed" /\ phase' = "seed"
        /\ todo \in Seq(Steps) /\ todo # <<>> /\ todo' = Tail(todo)
        /\ queue \in Seq(Steps) /\ Present' = Present
    BY <1>0, <1>5, TurnFrame DEF Seed, SortInv
  <2>2. PICK t \in Steps : t = Head(todo)
    BY <2>1
  <2>3. /\ Range(todo) = {t} \cup Range(todo') /\ IsInjective(todo')
        /\ t \notin Range(todo') /\ t \in Present /\ t \notin Range(queue)
    BY <2>1, <2>2, TailFacts, InjectiveTail DEF SeedInv
  <2>4. CASE in_degree[t] = 0
    <3>1. queue' = Append(queue, t)
      BY <1>5, <2>2, <2>4 DEF Seed
    <3>2. Range(queue') = Range(queue) \cup {t} /\ IsInjective(queue')
      BY <2>1, <2>2, <2>3, <3>1, AppendFacts, InjectiveAppend DEF SeedInv
    <3> QED BY <1>1, <1>2, <1>3, <2>1, <2>3, <2>4, <3>2 DEF SeedInv, KahnInv, SortInv
  <2>5. CASE in_degree[t] # 0
    <3>1. queue' = queue
      BY <1>5, <2>2, <2>5 DEF Seed
    <3> QED BY <1>1, <1>2, <1>3, <2>1, <2>3, <2>5, <3>1 DEF SeedInv, KahnInv, SortInv
  <2> QED BY <2>4, <2>5
<1>6. CASE Seeded
  <2>1. /\ SeedInv /\ phase = "seed" /\ phase' = "sort" /\ todo = <<>>
        /\ UNCHANGED <<todo, queue>> /\ Present' = Present
    BY <1>0, <1>6, TurnFrame DEF Seeded, SortInv
  <2>2. Range(todo) = {} /\ Range(init_order) = {} /\ IsInjective(init_order)
    BY <1>1, <2>1, EmptyRange DEF IsInjective
  <2>3. /\ IsInjective(queue) /\ Range(queue) = {t \in Present : in_degree[t] = 0}
    BY <2>1, <2>2 DEF SeedInv
  <2>4. KahnInv'
    BY <1>1, <2>1, <2>2, <2>3 DEF KahnInv
  <2>5. SeedInv'
    BY <2>1 DEF SeedInv
  <2> QED BY <1>2, <1>3, <2>4, <2>5 DEF SortInv
<1> QED BY <1>4, <1>5, <1>6

\* The first step of the queue is sorted: of its pipes none has been crossed yet, of
\* those into it all have.
LEMMA SortPop ==
  ASSUME TypeInv, SortInv, Pop
  PROVE  SortInv'
<1> USE DEF SortFrame
<1>1. Turn
  BY DEF Turn
<1>2. /\ phase = "sort" /\ phase' = "sort" /\ todo = <<>> /\ queue # <<>>
      /\ queue \in Seq(Steps) /\ init_order \in Seq(Steps) /\ in_degree' = in_degree
      /\ KahnInv /\ adj' = adj /\ adj \in [Steps -> Seq(Steps)]
  BY <1>1, TurnFrame DEF Pop, SortInv
<1>3. PICK u \in Steps : u = Head(queue)
  BY <1>2
<1>4. /\ init_order' = Append(init_order, u) /\ queue' = Tail(queue) /\ todo' = adj[u]
  BY <1>3 DEF Pop
<1>5. /\ Range(queue) = {u} \cup Range(queue') /\ IsInjective(queue')
      /\ u \notin Range(queue') /\ u \notin Range(init_order)
  BY <1>2, <1>3, <1>4, TailFacts, InjectiveTail DEF KahnInv
<1>6. /\ Range(init_order') = Range(init_order) \cup {u} /\ IsInjective(init_order')
      /\ init_order' \in Seq(Steps) /\ init_order' # <<>>
      /\ init_order'[Len(init_order')] = u
  <2>1. Len(init_order') = Len(init_order) + 1 /\ Len(init_order) \in Nat
    BY <1>2, <1>4
  <2> QED BY <1>2, <1>4, <1>5, <2>1, AppendFacts, InjectiveAppend DEF KahnInv
<1>7. \A t : Into(t) = {e \in Edges : e[1] \notin Range(init_order) /\ Enters(e) = t}
  <2>1. ASSUME NEW e \in Edges PROVE ~ (e[2] > Len(adj[e[1]]) - Len(todo))
    <3>1. PICK s \in Steps : \E k \in DOMAIN adj[s] : e = <<s, k>>
      BY EdgeFacts
    <3>2. PICK k \in DOMAIN adj[s] : e = <<s, k>>
      BY <3>1
    <3>3. adj[s] \in Seq(Steps)
      BY <1>2
    <3>4. k \in 1 .. Len(adj[s]) /\ Len(adj[s]) \in Nat /\ Len(todo) = 0
      BY <1>2, <3>3
    <3> QED BY <3>2, <3>4
  <2> QED BY <2>1 DEF Into, Uncrossed
<1>8. \A t : Into(t)' = {e \in Edges : e[1] \notin Range(init_order) /\ Enters(e) = t}
  <2>1. ASSUME NEW e \in Edges, e[1] = u PROVE e[2] > Len(adj[e[1]]) - Len(todo')
    <3>1. PICK k \in DOMAIN adj[u] : e = <<u, k>>
      BY <2>1, EdgeFacts
    <3>2. adj[u] \in Seq(Steps)
      BY <1>2
    <3>3. k \in 1 .. Len(adj[u]) /\ Len(adj[u]) \in Nat
      BY <3>2
    <3> QED BY <1>4, <3>1, <3>3
  <2>2. /\ \A t : Into(t)' = {e \in Uncrossed' : Enters(e)' = t}
        /\ Uncrossed' = {e \in Edges : e[1] \notin Range(init_order)}
    BY <1>1, <1>2, <1>5, <1>6, <2>1, TurnFrame DEF Into, Uncrossed
  <2> QED BY <1>1, <2>2, TurnFrame
<1>9. \A t \in Steps : in_degree[t] = Cardinality(Into(t))
  BY <1>2 DEF SortInv, CountInv, Connecting
<1>10. CountInv'
  BY <1>2, <1>7, <1>8, <1>9 DEF CountInv
<1>11. ASSUME NEW e \in pipes, e[2] = u PROVE e[1] \in Range(init_order)
  <2>1. in_degree[u] = 0 /\ IsFiniteSet(Into(u))
    <3>1. Into(u) \in SUBSET Edges /\ IsFiniteSet(Edges)
      BY <1>1, TurnFrame DEF Into, Uncrossed
    <3>2. u \in Range(queue)
      BY <1>5
    <3> QED BY <1>2, <3>1, <3>2, FS_Subset DEF KahnInv
  <2>2. Into(u) = {}
    BY <1>3, <1>9, <2>1, FS_EmptySet
  <2>3. PICK x \in Edges : e = <<x[1], Enters(x)>>
    BY <1>1, TurnFrame
  <2>4. e[1] = x[1] /\ Enters(x) = u
    BY <1>11, <2>3
  <2> QED BY <1>7, <2>2, <2>4
<1>12. \A e \in pipes : e[2] \in Range(init_order') => Precedes(init_order', e[1], e[2])
  BY <1>2, <1>4, <1>6, <1>11, PrecedesAppend DEF KahnInv
<1>13. todo' # <<>> =>
         LET out == adj'[init_order'[Len(init_order')]]
         IN  /\ init_order' # <<>> /\ Len(todo') <= Len(out)
             /\ \A i \in DOMAIN todo' : todo'[i] = out[Len(out) - Len(todo') + i]
  <2>1. adj'[init_order'[Len(init_order')]] = todo' /\ todo' \in Seq(Steps)
    BY <1>2, <1>4, <1>6
  <2>2. Len(todo') \in Nat /\ \A i \in DOMAIN todo' : Len(todo') - Len(todo') + i = i
    BY <2>1
  <2> QED BY <1>6, <2>1, <2>2
<1>14. Present' = Present /\ pipes' = pipes
  BY <1>1, TurnFrame
<1>15. /\ Range(queue') \cap Range(init_order') = {}
       /\ Range(queue') \cup Range(init_order') = {t \in Present : in_degree[t] = 0}
  BY <1>2, <1>5, <1>6 DEF KahnInv
<1>16. KahnInv'
  BY <1>2, <1>5, <1>6, <1>12, <1>13, <1>14, <1>15 DEF KahnInv
<1> QED BY <1>1, <1>2, <1>10, <1>16, TurnGraph DEF SortInv, SeedInv, RestInv

\* A pipe of the last sorted step is crossed: the step it enters has one less, and
\* goes into the queue with the last.
LEMMA SortCross ==
  ASSUME TypeInv, SortInv, Cross
  PROVE  SortInv'
<1> USE DEF SortFrame
<1>1. Turn
  BY DEF Turn
<1>2. /\ phase = "sort" /\ phase' = "sort" /\ todo # <<>> /\ todo' = Tail(todo)
      /\ todo \in Seq(Steps) /\ queue \in Seq(Steps) /\ init_order \in Seq(Steps)
      /\ init_order' = init_order /\ in_degree \in [Steps -> Int]
      /\ KahnInv /\ adj' = adj /\ adj \in [Steps -> Seq(Steps)]
  BY <1>1, TurnFrame DEF Cross, SortInv
<1>3. PICK v \in Steps : v = Head(todo)
  BY <1>2
<1>4. /\ in_degree' = [in_degree EXCEPT ![v] = @ - 1]
      /\ queue' = IF in_degree'[v] = 0 THEN Append(queue, v) ELSE queue
  BY <1>3 DEF Cross
<1>5. PICK u \in Steps : u = init_order[Len(init_order)] /\ u \in Range(init_order)
  <2>1. init_order # <<>> /\ Len(init_order) \in DOMAIN init_order
    BY <1>2 DEF KahnInv
  <2> QED BY <1>2, <2>1 DEF Range
<1>6. /\ adj[u] \in Seq(Steps) /\ Len(adj[u]) \in Nat /\ Len(todo) \in Nat
      /\ Len(todo) <= Len(adj[u]) /\ Len(todo) # 0
      /\ DOMAIN todo = 1 .. Len(todo) /\ DOMAIN adj[u] = 1 .. Len(adj[u])
      /\ \A i \in DOMAIN todo : todo[i] = adj[u][Len(adj[u]) - Len(todo) + i]
      /\ v = todo[1]
  <2>1. /\ Len(todo) <= Len(adj[u])
        /\ \A i \in DOMAIN todo : todo[i] = adj[u][Len(adj[u]) - Len(todo) + i]
    BY <1>2, <1>5 DEF KahnInv
  <2>2. adj[u] \in Seq(Steps)
    BY <1>2
  <2>3. Len(adj[u]) \in Nat /\ DOMAIN adj[u] = 1 .. Len(adj[u])
    BY <2>2
  <2>4. Len(todo) \in Nat /\ Len(todo) # 0 /\ DOMAIN todo = 1 .. Len(todo) /\ v = todo[1]
    BY <1>2, <1>3
  <2> QED BY <2>1, <2>2, <2>3, <2>4
<1>7. PICK n \in DOMAIN adj[u] : n = Len(adj[u]) - Len(todo) + 1 /\ adj[u][n] = v
  BY <1>6
<1> DEFINE x == <<u, n>>
<1>8. /\ Len(todo') = Len(todo) - 1 /\ DOMAIN todo' = 1 .. Len(todo) - 1
      /\ \A i \in DOMAIN todo' : todo'[i] = todo[i + 1]
  BY <1>2
<1>9. x \in Edges /\ Enters(x) = v
  BY <1>5, <1>7, EdgeFacts DEF Enters
<1>10. Uncrossed' = Uncrossed \ {x} /\ x \in Uncrossed
  <2>1. Edges' = Edges
    BY <1>1, TurnFrame
  <2>2. ASSUME NEW e \in Edges, e[1] = u
        PROVE  e[2] > Len(adj[u]) - Len(todo') <=> e[2] > Len(adj[u]) - Len(todo) /\ e # x
    <3>1. PICK k \in DOMAIN adj[u] : e = <<u, k>>
      BY <2>2, EdgeFacts
    <3>2. k \in Nat /\ n \in Nat
      BY <1>6, <3>1
    <3>3. k > Len(adj[u]) - Len(todo') <=> k > Len(adj[u]) - Len(todo) /\ k # n
      BY <1>6, <1>7, <1>8, <3>2
    <3> QED BY <3>1, <3>3
  <2>3. n > Len(adj[u]) - Len(todo)
    BY <1>6, <1>7
  <2>4. Uncrossed = {e \in Edges : \/ e[1] \notin Range(init_order)
                                   \/ e[1] = u /\ e[2] > Len(adj[u]) - Len(todo)}
    BY <1>5 DEF Uncrossed
  <2>5. Uncrossed' = {e \in Edges : \/ e[1] \notin Range(init_order)
                                    \/ e[1] = u /\ e[2] > Len(adj[u]) - Len(todo')}
    BY <1>2, <1>5, <2>1 DEF Uncrossed
  <2>6. x \in Uncrossed
    BY <1>9, <2>3, <2>4
  <2> QED BY <1>5, <2>2, <2>4, <2>5, <2>6
<1>11. /\ Into(v)' = Into(v) \ {x} /\ x \in Into(v)
       /\ \A t : t # v => Into(t)' = Into(t)
  <2>1. /\ \A t : Into(t) = {e \in Uncrossed : Enters(e) = t}
        /\ \A t : Into(t)' = {e \in Uncrossed' : Enters(e) = t}
    BY <1>1, TurnFrame DEF Into
  <2> QED BY <1>9, <1>10, <2>1
<1>12. \A t \in Steps : /\ in_degree[t] = Cardinality(Into(t))
                        /\ IsFiniteSet(Into(t)) /\ in_degree[t] \in Nat
  <2>1. ASSUME NEW t \in Steps PROVE IsFiniteSet(Into(t))
    <3>1. Into(t) \in SUBSET Edges /\ IsFiniteSet(Edges)
      BY <1>1, TurnFrame DEF Into, Uncrossed
    <3> QED BY <3>1, FS_Subset
  <2>2. \A t \in Steps : in_degree[t] = Cardinality(Into(t))
    BY <1>2 DEF SortInv, CountInv, Connecting
  <2> QED BY <2>1, <2>2, FS_CardinalityType
<1>13. /\ in_degree[v] # 0 /\ in_degree'[v] = in_degree[v] - 1
       /\ \A t \in Steps : t # v => in_degree'[t] = in_degree[t]
  <2>1. in_degree[v] # 0
    BY <1>11, <1>12, FS_EmptySet
  <2> QED BY <1>2, <1>4, <2>1
<1>14. CountInv'
  <2>1. Cardinality(Into(v)') = Cardinality(Into(v)) - 1
    BY <1>11, <1>12, FS_RemoveElement
  <2>2. \A t \in Steps : in_degree'[t] = Cardinality(Into(t)')
    BY <1>11, <1>12, <1>13, <2>1
  <2> QED BY <2>2 DEF CountInv
<1>15. /\ v \in Present /\ v \notin Range(queue) /\ v \notin Range(init_order)
  <2>1. x \in Edges /\ <<x[1], Enters(x)>> \in pipes
    BY <1>1, <1>9, TurnFrame
  <2>2. v \in Present
    BY <1>1, <1>9, <2>1, TurnFrame
  <2> QED BY <1>2, <1>13, <2>2 DEF KahnInv
<1>16. /\ IsInjective(queue') /\ Range(queue') \cap Range(init_order) = {}
       /\ Range(queue') \cup Range(init_order) = {t \in Present : in_degree'[t] = 0}
  <2>0. Present \subseteq Steps
    BY DEF Present
  <2>1. CASE in_degree'[v] = 0
    <3>1. Range(queue') = Range(queue) \cup {v} /\ IsInjective(queue')
      BY <1>2, <1>4, <1>15, <2>1, AppendFacts, InjectiveAppend DEF KahnInv
    <3>2. {t \in Present : in_degree'[t] = 0} = {t \in Present : in_degree[t] = 0} \cup {v}
      BY <1>13, <1>15, <2>0, <2>1
    <3> QED BY <1>2, <1>15, <3>1, <3>2 DEF KahnInv
  <2>2. CASE in_degree'[v] # 0
    <3>1. queue' = queue
      BY <1>4, <2>2
    <3>2. {t \in Present : in_degree'[t] = 0} = {t \in Present : in_degree[t] = 0}
      BY <1>13, <1>15, <2>0, <2>2
    <3> QED BY <1>2, <3>1, <3>2 DEF KahnInv
  <2> QED BY <2>1, <2>2
<1>17. /\ Len(todo') <= Len(adj[u])
       /\ \A i \in DOMAIN todo' : todo'[i] = adj[u][Len(adj[u]) - Len(todo') + i]
  <2>1. ASSUME NEW i \in DOMAIN todo'
        PROVE  todo'[i] = adj[u][Len(adj[u]) - Len(todo') + i]
    <3>1. i + 1 \in DOMAIN todo /\ i \in Nat
      BY <1>6, <1>8
    <3>2. todo'[i] = adj[u][Len(adj[u]) - Len(todo) + (i + 1)]
      BY <1>6, <1>8, <3>1
    <3>3. PICK l \in Nat, m \in Nat : l = Len(adj[u]) /\ m = Len(todo)
      <4>1. adj[u] \in Seq(Steps)
        BY <1>2
      <4> QED BY <1>2, <4>1
    <3>4. l - m + (i + 1) = l - (m - 1) + i
      BY <3>1
    <3> QED BY <1>8, <3>2, <3>3, <3>4
  <2> QED BY <1>6, <1>8, <2>1
<1>18. Present' = Present /\ pipes' = pipes
  BY <1>1, TurnFrame
<1>19. KahnInv'
  BY <1>2, <1>5, <1>16, <1>17, <1>18 DEF KahnInv
<1> QED BY <1>1, <1>2, <1>14, <1>19, TurnGraph DEF SortInv, SeedInv, RestInv

\* The queue is empty: each step that is not sorted has a pipe from one that is not.
LEMMA LeftIsBehindCycle ==
  ASSUME TypeInv, SortInv, Turn, phase = "sort", todo = <<>>, queue = <<>>,
         NEW t \in Present \ Range(init_order)
  PROVE  BehindCycle(t)
<1> DEFINE C == Present \ Range(init_order)
<1>1. ASSUME NEW v \in C PROVE \E u \in C : <<u, v>> \in pipes
  <2>1. v \in Steps /\ in_degree[v] # 0
    <3>1. v \notin Range(queue)
      BY EmptyRange
    <3> QED BY <1>1, <3>1 DEF SortInv, KahnInv, Present
  <2>2. Into(v) # {}
    BY <2>1, FS_EmptySet DEF SortInv, CountInv, Connecting
  <2>3. PICK x \in Edges : x \in Uncrossed /\ Enters(x) = v
    BY <2>2 DEF Into, Uncrossed
  <2>4. PICK s \in Steps : \E k \in DOMAIN adj[s] : x = <<s, k>>
    BY EdgeFacts
  <2>5. PICK k \in DOMAIN adj[s] : x = <<s, k>>
    BY <2>4
  <2>6. adj[s] \in Seq(Steps)
    BY TurnFrame
  <2>7. k \in 1 .. Len(adj[s]) /\ Len(adj[s]) \in Nat /\ Len(todo) = 0
    BY <2>6
  <2>8. s \notin Range(init_order)
    BY <2>3, <2>5, <2>7 DEF Uncrossed
  <2>9. <<s, v>> \in pipes /\ pipes \subseteq Present \X Present
    BY <2>3, <2>5, TurnFrame
  <2> QED BY <2>8, <2>9
<1>2. C \in SUBSET Steps /\ t \in C
  BY DEF Present
<1> QED BY <1>1, <1>2 DEF BehindCycle

\* What cannot be sorted comes last, and the order is handed to the studio.
LEMMA SortRest ==
  ASSUME TypeInv, SortInv, Drained \/ AddRest \/ Sorted
  PROVE  SortInv'
<1> USE DEF SortFrame
<1>1. Turn
  BY DEF Turn
<1>2. CASE Drained
  <2>1. /\ phase = "sort" /\ phase' = "rest" /\ todo = <<>> /\ queue = <<>>
        /\ todo' = node_ids /\ init_order' = init_order /\ KahnInv
        /\ Range(node_ids) = Present /\ UNCHANGED pipes /\ Present' = Present
        /\ pipes \subseteq Present \X Present
        /\ \A t : BehindCycle(t)' = BehindCycle(t)
    BY <1>1, <1>2, TurnFrame DEF Drained, Continue, SortInv
  <2>2. ASSUME NEW e \in pipes, ~ BehindCycle(e[2])
        PROVE  Precedes(init_order, e[1], e[2])
    <3>1. e[2] \in Present
      BY <2>1
    <3>2. e[2] \in Range(init_order)
      BY <1>1, <2>1, <2>2, <3>1, LeftIsBehindCycle
    <3> QED BY <2>1, <3>2 DEF KahnInv
  <2>3. Respects(init_order)'
    BY <2>1, <2>2 DEF Respects, Precedes
  <2>4. RestInv'
    BY <2>1, <2>3 DEF KahnInv, RestInv
  <2> QED BY <1>1, <2>1, <2>4, TurnGraph
             DEF SortInv, SeedInv, KahnInv, CountInv, Connecting, Creating
<1>3. CASE AddRest
  <2>1. /\ phase = "rest" /\ phase' = "rest" /\ todo # <<>> /\ todo' = Tail(todo)
        /\ todo \in Seq(Steps) /\ init_order \in Seq(Steps)
        /\ RestInv /\ UNCHANGED pipes /\ Present' = Present
        /\ \A t : BehindCycle(t)' = BehindCycle(t)
    BY <1>1, <1>3, TurnFrame DEF AddRest, SortInv
  <2>2. PICK v \in Steps : v = Head(todo) /\ Range(todo) = {v} \cup Range(todo')
    BY <2>1, TailFacts
  <2>3. /\ IsInjective(init_order') /\ Range(init_order') = Range(init_order) \cup {v}
        /\ \A s, t : Precedes(init_order, s, t) => Precedes(init_order', s, t)
    <3>1. CASE v \in Range(init_order)
      BY <1>3, <2>1, <2>2, <3>1 DEF AddRest, RestInv
    <3>2. CASE v \notin Range(init_order)
      BY <1>3, <2>1, <2>2, <3>2, AppendFacts, InjectiveAppend, PrecedesAppend
         DEF AddRest, RestInv
    <3> QED BY <3>1, <3>2
  <2>4. Respects(init_order)'
    <3>1. \A e \in pipes : ~ BehindCycle(e[2]) => Precedes(init_order', e[1], e[2])
      BY <2>1, <2>3 DEF RestInv, Respects
    <3> QED BY <2>1, <3>1 DEF Respects, Precedes
  <2>5. RestInv'
    BY <2>1, <2>2, <2>3, <2>4 DEF RestInv
  <2> QED BY <1>1, <2>1, <2>5, TurnGraph
             DEF SortInv, SeedInv, KahnInv, CountInv, Connecting, Creating
<1>4. CASE Sorted
  <2>1. /\ phase = "rest" /\ phase' = "initialize" /\ todo = <<>>
        /\ order' = init_order /\ RestInv /\ UNCHANGED pipes /\ Present' = Present
        /\ \A t : BehindCycle(t)' = BehindCycle(t)
    BY <1>1, <1>4, TurnFrame DEF Sorted, Continue, SortInv
  <2>2. /\ IsInjective(order') /\ Range(order') = Present'
    BY <2>1, EmptyRange DEF RestInv
  <2>3. Respects(order)'
    BY <2>1 DEF RestInv, Respects, Precedes
  <2>4. DoneInv'
    BY <1>1, <2>2, <2>3, TurnFrame DEF DoneInv
  <2> QED BY <2>1, <2>4 DEF SortInv, GraphInv, SeedInv, KahnInv, RestInv, CountInv,
                            Connecting, Creating
<1> QED BY <1>2, <1>3, <1>4

LEMMA SortStep == TypeInv /\ SortInv /\ [Next]_vars => SortInv'
<1> SUFFICES ASSUME TypeInv, SortInv, [Next]_vars PROVE SortInv'
  OBVIOUS
<1> USE DEF Continue, nodes, graph, request
<1>1. CASE UNCHANGED vars
  BY <1>1, SortFrames DEF vars
<1>2. ASSUME NEW s \in Steps, Enter(s) \/ Enqueue(s) \/ PoolTake(s) \/ Leave(s)
      PROVE  SortInv'
  BY <1>2, SortFrames DEF Enter, Enqueue, PoolTake, Leave
<1>3. ASSUME NEW p \in Plugins, Build(p) \/ Notice(p) PROVE SortInv'
  BY <1>3, SortFrames DEF Build, Notice
<1>4. CASE Run \/ Reload
  BY <1>4, SortFrames DEF Run, Reload, LoadNew, Kill, TakeOut, Unload, Reopen, Inject,
                          Reinitialize, ReinitializeFails,
                          Restart, Reloaded, Done
<1>5. CASE Pause \/ (\E f \in Files : Load(f)) \/ PauseReturns \/ LoadReturns
  <2>1. /\ UNCHANGED <<class, pipes, order>> /\ phase' \in {"idle", "pause", "clear"}
        /\ loaded' => loaded \/ phase = "initialize"
        /\ phase' = "clear" => ~ loaded'
    BY <1>5 DEF Pause, Load, PauseReturns, LoadReturns
  <2> QED BY <2>1, SortOutside
<1>6. CASE CreateFails \/ ConnectFails \/ InitializeFails \/ ConfigureHangs \/ Initialize
  <2>1. /\ UNCHANGED <<class, pipes, order, loaded>> /\ phase \in Loading
        /\ phase' \in {"idle", "stuck", "initialize"}
        /\ phase' = "initialize" => phase = "initialize"
    BY <1>6 DEF CreateFails, ConnectFails, InitializeFails, Fail, ConfigureHangs, Initialize, Loading
  <2>2. ~ loaded
    BY <2>1 DEF SortInv, DoneInv
  <2> QED BY <2>1, <2>2, SortOutside
<1>7. CASE Serve
  BY <1>5, <1>6, <1>7, SortCreate, SortConnect, SortSeed, SortPop, SortCross, SortRest
     DEF Serve
<1> QED BY <1>1, <1>2, <1>3, <1>4, <1>5, <1>7 DEF Next

\* A loaded dataflow has an order with each of its steps once, in which a step comes
\* after those it gets messages from, if it is not behind a cycle.
THEOREM OrderIsTopological == Spec => []SortedOrder
<1>1. TypeInv /\ SortInv => SortedOrder
  <2> SUFFICES ASSUME TypeInv, SortInv, loaded
               PROVE  /\ Range(order) = Present /\ Len(order) = Cardinality(Present)
                      /\ \A e \in pipes : ~ BehindCycle(e[2]) => Before(e[1], e[2])
    BY DEF SortedOrder
  <2>1. IsInjective(order) /\ Range(order) = Present /\ Respects(order)
    BY DEF SortInv, DoneInv
  <2>2. order \in Seq(Steps) /\ Len(order) \in Nat /\ DOMAIN order = 1 .. Len(order)
    BY DEF TypeInv, TypeOK
  <2>3. /\ order \in Surjection(1 .. Len(order), Present)
        /\ order \in Injection(1 .. Len(order), Present)
    <3>1. order \in [1 .. Len(order) -> Present]
      BY <2>1, <2>2 DEF Range
    <3>2. \A s \in Present : \E i \in 1 .. Len(order) : order[i] = s
      BY <2>1, <2>2 DEF Range
    <3> QED BY <2>1, <3>1, <3>2 DEF Surjection, Injection
  <2>4. Cardinality(Present) = Cardinality(1 .. Len(order))
    <3>1. IsFiniteSet(1 .. Len(order))
      BY <2>2, FS_Interval
    <3> QED BY <2>3, <3>1, FS_Surjection
  <2>5. Cardinality(1 .. Len(order)) = Len(order)
    BY <2>2, FS_Interval
  <2>6. \A e \in pipes : ~ BehindCycle(e[2]) => Before(e[1], e[2])
    BY <2>1 DEF Respects, Precedes, Before
  <2> QED BY <2>1, <2>4, <2>5, <2>6
<1> QED BY TypeInit, TypeStep, SortInit, SortStep, <1>1, PTL DEF Spec

-----------------------------------------------------------------------------
(***************************************************************************)
(* The strengthening of CodeIsCurrent.  CodeIsCurrent alone is not kept: a *)
(* step may be entered later than its node was made, and between the two   *)
(* the library may be closed, the node taken out and another put in.  So   *)
(* the invariant is about every node of the studio and every class of the  *)
(* factory (CodeInv), about what load_json has brought the steps to        *)
(* (LoadInv), and about the threads (ThreadInv).                           *)
(***************************************************************************)

\* Code of build b of plugin p is of the library that is open, if one is, or of
\* one whose plugin_init threw.
Fits(p, b) ==
  b # 0 => <<p, b>> \in Throwing \/ (judge[p] # 0 /\ handle[p] \in {0, b})

CodeInv ==
  /\ \A p \in Plugins : pending[p] # 0 => disk[p] # 0
  /\ reload # "idle" => disk[target] # 0
  /\ reload \in Replacing => judge[target] # 0
  /\ reload = "new" => judge[target] = 0
  /\ \A k \in Classes : Fits(Home[k], creators[k])
  /\ \A s \in Present : creators[class[s]] # 0 /\ Fits(Home[class[s]], node[s])
  /\ reload = "kill" => \A s \in Present : node[s] # 0 => s \in Range(left)
  /\ reload = "open" => \A s \in Present : node[s] = 0

LoadInv ==
  /\ phase = "initialize" => Present \subseteq ready \cup Range(todo)
  /\ loaded =>
       \A s \in Present :
         node[s] # 0 => \/ s \in ready \/ MayFail(s)
                        \/ reload = "initialize" /\ s = Head(left)

\* A thread may be inside of the node of step s.
Enterable(s) ==
  s \in Present /\ node[s] # 0 /\ (loaded => s \in ready \/ MayFail(s))

ThreadInv ==
  /\ \A s \in running \cup (busy \ Pooled) : Enterable(s)
  /\ phase # "idle" => running = {}
  /\ phase \in Loading => busy = {} /\ queued = {}
  /\ reload \in {"initialize", "run"} => node[Head(left)] # 0
  /\ reload = "run" => Head(left) \in ready
  /\ reload \in {"inject", "initialize", "run"} =>
       \A s \in Range(left) :
         node[s] # 0 => s \in ready \/ (reload = "initialize" /\ s = Head(left))

CurrentInv == TypeInv /\ SortInv /\ CodeInv /\ LoadInv /\ ThreadInv

LEMMA OpenFacts ==
  ASSUME TypeOK, NEW p \in Plugins, NEW b \in Nat, Open(p, b), NEW k \in Classes
  PROVE  creators'[k] =
           IF Home[k] = p /\ <<p, b>> \notin Broken THEN b ELSE creators[k]
BY DEF Open, Register, TypeOK

LEMMA CurrentInit == Init => CurrentInv
<1> SUFFICES ASSUME Init PROVE CurrentInv
  OBVIOUS
<1>1. Present = {}
  BY DEF Init, Present
<1>2. /\ \A p \in Plugins : pending[p] = 0
      /\ \A k \in Classes :
           /\ Home[k] \in Plugins /\ creators[k] = First[Home[k]]
           /\ judge[Home[k]] = First[Home[k]] /\ handle[Home[k]] = First[Home[k]]
  BY PluginsAssumption DEF Init
<1>3. CodeInv
  BY <1>1, <1>2 DEF Init, CodeInv, Fits, Replacing
<1>4. LoadInv /\ ThreadInv
  BY DEF Init, LoadInv, ThreadInv, Creating, Sorting, Loading
<1> QED BY <1>3, <1>4, TypeInit, SortInit DEF CurrentInv

-----------------------------------------------------------------------------
(* The code of the nodes and of the factory *)

\* Where neither the code nor the loop of the monitor moves.
LEMMA CodeFrame ==
  ASSUME CodeInv,
         UNCHANGED <<disk, pending, handle, judge, creators, class, node, reload,
                     target, left>>
  PROVE  CodeInv'
<1>1. Present' = Present /\ (\A p, b : Fits(p, b)' = Fits(p, b))
  BY DEF Present, Fits
<1> QED BY <1>1 DEF CodeInv

LEMMA CodeStudio ==
  ASSUME CurrentInv, Cleared \/ CreateStep
  PROVE  CodeInv'
<1> USE DEF Continue, plugins, monitor
<1>0. /\ TypeOK /\ CodeInv /\ reload = "idle"
      /\ UNCHANGED <<disk, pending, handle, judge, creators, reload, target, left>>
      /\ \A p, b : Fits(p, b)' = Fits(p, b)
  BY DEF Cleared, NewGraph, CreateStep, CurrentInv, TypeInv, Fits
<1>1. CASE Cleared
  <2>1. Present' = {}
    BY <1>1 DEF Cleared, NewGraph, Present
  <2> QED BY <1>0, <2>1 DEF CodeInv, Replacing
<1>2. CASE CreateStep
  <2>1. todo \in Seq(Nodes) /\ todo # <<>>
    BY <1>2 DEF CreateStep, CurrentInv, TypeInv, RequestTypes, Creating
  <2>2. PICK n \in Nodes : n = Head(todo)
    BY <2>1
  <2>3. /\ n.id \in Steps /\ n.class \in Classes /\ creators[n.class] # 0
        /\ class' = [class EXCEPT ![n.id] = n.class]
        /\ node' = [node EXCEPT ![n.id] = creators[n.class]]
    BY <1>2, <2>2 DEF CreateStep, Nodes
  <2>4. ASSUME NEW s \in Present'
        PROVE  creators[class'[s]] # 0 /\ Fits(Home[class'[s]], node'[s])
    <3>1. CASE s = n.id
      <4>1. class'[s] = n.class /\ node'[s] = creators[n.class]
        BY <1>0, <2>3, <3>1 DEF TypeOK
      <4> QED BY <1>0, <2>3, <4>1 DEF CodeInv
    <3>2. CASE s # n.id
      <4>1. s \in Present /\ class'[s] = class[s] /\ node'[s] = node[s]
        BY <1>0, <2>3, <2>4, <3>2 DEF TypeOK, Present
      <4> QED BY <1>0, <4>1 DEF CodeInv
    <3> QED BY <3>1, <3>2
  <2> QED BY <1>0, <2>4 DEF CodeInv, Replacing
<1> QED BY <1>1, <1>2

LEMMA CodePlugins ==
  ASSUME CurrentInv, NEW p \in Plugins, Build(p) \/ Notice(p)
  PROVE  CodeInv'
<1> USE DEF plugins, nodes
<1>0. /\ TypeOK /\ CodeInv
      /\ UNCHANGED <<handle, judge, creators, class, node>>
      /\ Present' = Present /\ (\A q, b : Fits(q, b)' = Fits(q, b))
  BY DEF Build, Notice, CurrentInv, TypeInv, Present, Fits
<1>1. CASE Build(p)
  <2>1. UNCHANGED <<reload, target, left>>
    BY <1>1 DEF Build, monitor
  <2>2. \A q \in Plugins : /\ disk'[q] = IF q = p THEN disk[p] + 1 ELSE disk[q]
                           /\ pending'[q] # 0 => q = p \/ pending[q] # 0
    BY <1>0, <1>1 DEF Build, TypeOK
  <2>3. disk[p] \in Nat
    BY <1>0 DEF TypeOK
  <2>4. (\A q \in Plugins : pending'[q] # 0 => disk'[q] # 0)
    BY <1>0, <2>2, <2>3 DEF CodeInv
  <2>5. reload # "idle" => target \in Plugins /\ disk'[target] # 0
    BY <1>0, <2>2, <2>3 DEF CodeInv, CurrentInv, TypeInv, ReloadTypes
  <2> QED BY <1>0, <2>1, <2>4, <2>5 DEF CodeInv
<1>2. CASE Notice(p)
  <2>1. /\ reload' \in {"idle", "new", "kill"} /\ disk' = disk
        /\ reload' # "idle" => target' = p
        /\ reload' = "new" => judge[p] = 0
        /\ reload' = "kill" => judge[p] # 0 /\ left' = Affected
    BY <1>2 DEF Notice, Ask, Watch, Done
  <2>2. pending[p] # 0
    BY <1>0, <1>2 DEF Notice, TypeOK
  <2>3. disk[p] # 0 /\ (\A q \in Plugins : pending'[q] # 0 => pending[q] # 0)
    BY <1>0, <1>2, <2>2 DEF Notice, TypeOK, CodeInv
  <2>4. Range(Affected) = Present
    BY <1>0, AffectedFacts DEF CodeInv
  <2> QED BY <1>0, <2>1, <2>3, <2>4 DEF CodeInv, Replacing
<1> QED BY <1>1, <1>2

LEMMA CodeOpen ==
  ASSUME CurrentInv, LoadNew \/ Reopen
  PROVE  CodeInv'
<1> USE DEF Watch, nodes
<1>0. /\ TypeOK /\ CodeInv /\ target \in Plugins /\ disk[target] \in Nat
      /\ disk[target] # 0
      /\ UNCHANGED <<disk, pending, class, node>> /\ Present' = Present
      /\ reload' # "idle" => target' = target
  BY DEF LoadNew, Reopen, Done, CurrentInv, TypeInv, ReloadTypes, TypeOK, CodeInv, Present
<1> PICK t \in Plugins, b \in Nat : t = target /\ b = disk[target]
  BY <1>0
<1>1. \A s \in Present : class[s] \in Classes
  BY <1>0 DEF Present, TypeOK
<1>2. \A k \in Classes : creators'[k] =
        IF Home[k] = t /\ <<t, b>> \notin Broken THEN b ELSE creators[k]
  BY <1>0, OpenFacts DEF LoadNew, Reopen
<1>3. \A s \in Present : creators'[class[s]] # 0
  BY <1>0, <1>1, <1>2 DEF CodeInv
<1>4. CASE LoadNew
  <2>1. judge[t] = 0 /\ reload' = "idle"
    BY <1>0, <1>4 DEF LoadNew, Done, CodeInv
  <2>2. CASE Refused(t, b)
    <3>1. UNCHANGED <<handle, judge>> /\ (\A q, c : Fits(q, c)' = Fits(q, c))
      BY <1>4, <2>2 DEF LoadNew, Fits
    <3>2. <<t, b>> \notin Broken => Fits(t, b)
      BY <2>2 DEF Refused, Fits
    <3>3. \A k \in Classes : Fits(Home[k], creators'[k])
      BY <1>0, <1>2, <3>2 DEF CodeInv
    <3> QED BY <1>0, <1>3, <2>1, <3>1, <3>3 DEF CodeInv, Replacing
  <2>3. CASE ~ Refused(t, b)
    <3>1. /\ handle' = [handle EXCEPT ![t] = b]
          /\ judge' = [judge EXCEPT ![t] = b] /\ <<t, b>> \notin Broken
      BY <1>4, <2>3 DEF LoadNew, Refused
    <3>2. /\ handle'[t] = b /\ judge'[t] = b
          /\ \A q \in Plugins \ {t} :
               handle'[q] = handle[q] /\ judge'[q] = judge[q]
      BY <1>0, <3>1 DEF TypeOK
    <3>3. ASSUME NEW q \in Plugins, NEW c, Fits(q, c) PROVE Fits(q, c)'
      BY <1>0, <2>1, <3>2, <3>3 DEF Fits
    <3>4. Fits(t, b)'
      BY <1>0, <3>2 DEF Fits
    <3>5. \A k \in Classes : Home[k] \in Plugins
      BY PluginsAssumption
    <3>6. \A k \in Classes : Fits(Home[k], creators[k])'
      BY <1>0, <1>2, <3>1, <3>3, <3>4, <3>5 DEF CodeInv
    <3>7. \A s \in Present : Fits(Home[class[s]], node[s])'
      BY <1>0, <1>1, <3>3, <3>5 DEF CodeInv
    <3> QED BY <1>0, <1>3, <2>1, <3>6, <3>7 DEF CodeInv, Replacing
  <2> QED BY <2>2, <2>3
<1>5. CASE Reopen
  <2>1. /\ judge' = judge /\ judge[t] # 0 /\ reload' \in {"idle", "inject"}
        /\ \A s \in Present : node[s] = 0
    BY <1>0, <1>5 DEF Reopen, Done, CodeInv, Replacing
  <2>2. /\ handle'[t] = IF <<t, b>> \in Broken THEN 0 ELSE b
        /\ \A q \in Plugins \ {t} : handle'[q] = handle[q]
    BY <1>0, <1>5 DEF Reopen, TypeOK
  <2>3. \A k \in Classes : Home[k] \in Plugins
    BY PluginsAssumption
  <2>4. ASSUME NEW k \in Classes PROVE Fits(Home[k], creators[k])'
    <3>1. Fits(Home[k], creators[k])
      BY <1>0 DEF CodeInv
    <3> QED BY <1>0, <1>2, <2>1, <2>2, <2>3, <3>1 DEF Fits
  <2>5. \A s \in Present : Fits(Home[class[s]], node[s])'
    BY <1>0, <2>1 DEF Fits
  <2> QED BY <1>0, <1>3, <2>1, <2>4, <2>5 DEF CodeInv, Replacing
<1> QED BY <1>4, <1>5

LEMMA CodeReload ==
  ASSUME CurrentInv,
         \/ TakeOut \/ Unload \/ Inject \/ Reinitialize \/ ReinitializeFails
         \/ Restart \/ Reloaded
  PROVE  CodeInv'
<1> USE DEF Watch, plugins, nodes
<1>0. /\ TypeOK /\ CodeInv /\ ReloadTypes
      /\ UNCHANGED <<disk, pending, judge, creators, class>>
      /\ reload' # "idle" => target' = target
      /\ Present' = Present /\ Present \subseteq Steps
  BY DEF TakeOut, Unload, Inject, Reinitialize, ReinitializeFails, Restart,
         Reloaded, Done, CurrentInv, TypeInv, Present
<1>1. CASE TakeOut
  <2>1. /\ left \in Seq(Steps) /\ left # <<>> /\ reload = "kill" /\ reload' = "kill"
        /\ left' = Tail(left) /\ handle' = handle
    BY <1>0, <1>1 DEF TakeOut, TypeOK
  <2>2. Head(left) \in Steps /\ Range(left) = {Head(left)} \cup Range(left')
    BY <2>1, TailFacts
  <2>3. \A s \in Steps : node'[s] = IF s = Head(left) THEN 0 ELSE node[s]
    BY <1>0, <1>1 DEF TakeOut, TypeOK
  <2>4. \A s \in Present : node'[s] # 0 => s \in Range(left')
    BY <1>0, <2>1, <2>2, <2>3 DEF CodeInv
  <2>5. \A s \in Present : Fits(Home[class[s]], node[s])'
    BY <1>0, <2>1, <2>3 DEF CodeInv, Fits
  <2> QED BY <1>0, <2>1, <2>4, <2>5 DEF CodeInv, Replacing, Fits
<1>2. CASE Unload
  <2>1. node' = node /\ reload = "kill" /\ reload' = "open" /\ left = <<>>
    BY <1>2 DEF Unload
  <2>2. \A s \in Present : node[s] = 0
    BY <1>0, <2>1, EmptyRange DEF CodeInv
  <2>3. \A q \in Plugins : handle'[q] = handle[q] \/ handle'[q] = 0
    BY <1>0, <1>2 DEF Unload, TypeOK
  <2>4. \A k \in Classes : Home[k] \in Plugins
    BY PluginsAssumption
  <2>5. \A k \in Classes : Fits(Home[k], creators[k])'
    BY <1>0, <2>3, <2>4 DEF CodeInv, Fits
  <2> QED BY <1>0, <2>1, <2>2, <2>5 DEF CodeInv, Replacing, Fits
<1>3. CASE Inject
  <2>1. /\ left \in Seq(Steps) /\ left # <<>> /\ reload = "inject"
        /\ reload' = "initialize" /\ handle' = handle
    BY <1>0, <1>3 DEF Inject, TypeOK
  <2>2. Head(left) \in Present
    BY <1>0, <2>1, TailFacts DEF ReloadTypes
  <2>3. class[Head(left)] \in Classes
    BY <1>0, <2>2 DEF Present, TypeOK
  <2>4. \A s \in Steps : node'[s] = IF s = Head(left) THEN creators[class[Head(left)]]
                                                     ELSE node[s]
    BY <1>0, <1>3 DEF Inject, TypeOK
  <2>5. \A s \in Present : Fits(Home[class[s]], node'[s])
    BY <1>0, <2>3, <2>4 DEF CodeInv
  <2> QED BY <1>0, <2>1, <2>5 DEF CodeInv, Replacing, Fits
<1>4. CASE Reinitialize \/ ReinitializeFails \/ Restart \/ Reloaded
  <2>1. /\ node' = node /\ handle' = handle
        /\ reload \in {"inject", "initialize", "run"}
        /\ reload' \in {"idle", "inject", "run"}
    BY <1>4 DEF Reinitialize, ReinitializeFails, Restart, Reloaded, Done
  <2> QED BY <1>0, <2>1 DEF CodeInv, Replacing, Fits
<1> QED BY <1>1, <1>2, <1>3, <1>4

-----------------------------------------------------------------------------
(* What load_json has brought the steps to *)

LEMMA LoadFrame ==
  ASSUME LoadInv, UNCHANGED <<class, node, ready, loaded, phase, file, todo>>,
         \/ reload' = reload /\ left' = left
         \/ reload # "initialize"
  PROVE  LoadInv'
<1>1. Present' = Present
  BY DEF Present
<1> QED BY <1>1 DEF LoadInv, MayFail

LEMMA LoadRequests ==
  ASSUME CurrentInv,
         \/ Run \/ Pause \/ (\E f \in Files : Load(f)) \/ PauseReturns \/ Cleared
         \/ LoadReturns
  PROVE  LoadInv'
<1> USE DEF Continue, nodes, monitor, Ask
<1>0. LoadInv /\ TypeOK
  BY DEF CurrentInv, TypeInv
<1>1. CASE Run
  BY <1>0, <1>1, LoadFrame DEF Run, graph, request
<1>2. CASE Pause \/ PauseReturns
  <2>1. /\ UNCHANGED <<class, node, ready, loaded, file, todo, reload, left>>
        /\ phase' \in {"idle", "pause"} /\ Present' = Present
    BY <1>2 DEF Pause, PauseReturns, graph, Present
  <2> QED BY <1>0, <2>1 DEF LoadInv, MayFail, Creating, Sorting, Loading
<1>3. ASSUME NEW f \in Files, Load(f) PROVE LoadInv'
  BY <1>3 DEF Load, LoadInv, MayFail, Creating, Sorting, Loading
<1>4. CASE Cleared
  <2>1. phase = "clear" /\ phase' = "create" /\ loaded' = loaded
    BY <1>4 DEF Cleared, NewGraph
  <2> QED BY <2>1 DEF LoadInv, MayFail, CurrentInv, SortInv, DoneInv
<1>5. CASE LoadReturns
  <2>1. /\ UNCHANGED <<class, node, ready, reload, left>>
        /\ Present' = Present /\ phase' = "idle"
        /\ Present \subseteq ready \cup Range(todo) /\ todo = <<>>
    BY <1>0, <1>5 DEF LoadReturns, LoadInv, Present
  <2>2. Present \subseteq ready
    BY <2>1, EmptyRange
  <2> QED BY <2>1, <2>2 DEF LoadInv, MayFail, Creating, Sorting, Loading
<1> QED BY <1>1, <1>2, <1>3, <1>4, <1>5

LEMMA LoadPasses ==
  ASSUME CurrentInv,
         \/ CreateStep \/ CreateFails \/ Configure \/ ConfigureHangs \/ Created
         \/ Connect \/ ConnectFails \/ Turn \/ Initialize \/ InitializeFails
  PROVE  LoadInv'
<1> USE DEF Continue, nodes, monitor, graph, SortFrame
<1>0. /\ TypeOK /\ RequestTypes /\ LoadInv /\ phase \in Loading
      /\ ~ loaded /\ loaded' = loaded
  BY DEF CurrentInv, SortInv, DoneInv, TypeInv, CreateStep, CreateFails, Fail, Configure,
         ConfigureHangs, Created, Connect, ConnectFails, Turn, Connected, Seed, Seeded,
         Pop, Cross, Drained, AddRest, Sorted, Initialize, InitializeFails, Loading
<1>1. CASE Sorted
  <2>1. /\ phase = "rest" /\ todo = <<>> /\ todo' = init_order /\ Present' = Present
    BY <1>1 DEF Sorted, Present
  <2>2. Present = Range(todo')
    BY <2>1, EmptyRange DEF CurrentInv, SortInv, RestInv
  <2> QED BY <1>0, <2>1, <2>2 DEF LoadInv, MayFail
<1>2. CASE Initialize
  <2>1. /\ todo \in Seq(Steps) /\ todo # <<>> /\ todo' = Tail(todo)
        /\ phase' = "initialize" /\ class' = class
        /\ ready' = ready \cup {Head(todo)}
        /\ Present \subseteq ready \cup Range(todo)
    BY <1>0, <1>2 DEF Initialize, RequestTypes, LoadInv, Sorting
  <2>2. Range(todo) = {Head(todo)} \cup Range(todo') /\ Present' = Present
    BY <2>1, TailFacts DEF Present
  <2> QED BY <1>0, <2>1, <2>2 DEF LoadInv, MayFail
<1>3. CASE ~ Sorted /\ ~ Initialize
  <2>1. phase' # "initialize"
    BY <1>3 DEF CreateStep, CreateFails, Fail, Configure, ConfigureHangs, Created,
                Connect, ConnectFails, Turn, Connected, Seed, Seeded, Pop, Cross,
                Drained, AddRest, InitializeFails
  <2> QED BY <1>0, <2>1 DEF LoadInv, MayFail
<1> QED BY <1>1, <1>2, <1>3

LEMMA LoadReload ==
  ASSUME CurrentInv, Reload
  PROVE  LoadInv'
<1> USE DEF Watch, nodes, graph, request
<1>0. /\ TypeOK /\ ReloadTypes /\ LoadInv /\ phase = "idle"
      /\ UNCHANGED <<class, loaded, phase, file, todo>> /\ Present' = Present
  BY DEF Reload, LoadNew, Kill, TakeOut, Unload, Reopen, Inject, Reinitialize,
         ReinitializeFails, Restart, Reloaded, Done, CurrentInv, TypeInv, Present
<1>1. CASE LoadNew \/ Kill \/ Unload \/ Reopen \/ Restart \/ Reloaded
  <2>1. reload # "initialize" /\ UNCHANGED <<node, ready>>
    BY <1>1 DEF LoadNew, Kill, Unload, Reopen, Restart, Reloaded, Done
  <2> QED BY <1>0, <2>1, LoadFrame
<1>2. CASE TakeOut
  <2>1. /\ reload = "kill" /\ ready' = ready \ {Head(left)}
        /\ \A s \in Steps : node'[s] = IF s = Head(left) THEN 0 ELSE node[s]
    BY <1>0, <1>2 DEF TakeOut, TypeOK
  <2> QED BY <1>0, <2>1 DEF LoadInv, MayFail, Creating, Sorting, Loading, Present
<1>3. CASE Inject
  <2>1. /\ reload = "inject" /\ reload' = "initialize" /\ UNCHANGED <<ready, left>>
        /\ \A s \in Steps : s # Head(left) => node'[s] = node[s]
    BY <1>0, <1>3 DEF Inject, TypeOK
  <2> QED BY <1>0, <2>1 DEF LoadInv, MayFail, Creating, Sorting, Loading, Present
<1>4. CASE Reinitialize
  <2>1. ready' = ready \cup {Head(left)} /\ node' = node
    BY <1>4 DEF Reinitialize
  <2> QED BY <1>0, <2>1 DEF LoadInv, MayFail, Creating, Sorting, Loading
<1>5. CASE ReinitializeFails
  <2>1. /\ UNCHANGED <<node, ready>> /\ reload = "initialize" /\ reload' = "idle"
        /\ MayFail(Head(left))
    BY <1>5 DEF ReinitializeFails, Done
  <2> QED BY <1>0, <2>1 DEF LoadInv, MayFail, Creating, Sorting, Loading
<1> QED BY <1>1, <1>2, <1>3, <1>4, <1>5 DEF Reload

-----------------------------------------------------------------------------
(* The threads *)

\* Where the steps and the loop of the monitor stay: what may be entered is what
\* it was.
LEMMA ThreadFrame ==
  ASSUME ThreadInv, UNCHANGED <<class, node, ready, loaded, phase, reload, left>>,
         running' \cup (busy' \ Pooled) \subseteq running \cup (busy \ Pooled),
         phase # "idle" => running' = {},
         phase \in Loading => busy' = {} /\ queued' = {}
  PROVE  ThreadInv'
<1>1. \A s : Enterable(s)' = Enterable(s)
  BY DEF Enterable, MayFail, Present
<1> QED BY <1>1 DEF ThreadInv

LEMMA ThreadHandlers ==
  ASSUME CurrentInv, NEW s \in Steps,
         Enter(s) \/ Enqueue(s) \/ PoolTake(s) \/ Leave(s)
  PROVE  ThreadInv'
<1>1. /\ UNCHANGED <<class, node, ready, loaded, phase, reload, left>>
      /\ running' = running /\ queued \subseteq Pooled /\ ThreadInv
  BY DEF Enter, Enqueue, PoolTake, Leave, nodes, graph, request, sort, monitor,
         CurrentInv, TypeInv, TypeOK
<1>2. busy' \ Pooled \subseteq running \cup (busy \ Pooled)
  BY <1>1 DEF Enter, Enqueue, PoolTake, Leave
<1>3. phase \in Loading => busy' = {} /\ queued' = {}
  BY <1>1 DEF Enter, Enqueue, PoolTake, Leave, ThreadInv, Loading
<1> QED BY <1>1, <1>2, <1>3, ThreadFrame DEF ThreadInv

LEMMA ThreadRequests ==
  ASSUME CurrentInv,
         \/ Run \/ Pause \/ (\E f \in Files : Load(f)) \/ PauseReturns \/ Cleared
         \/ LoadReturns
  PROVE  ThreadInv'
<1> USE DEF Continue, nodes, monitor, Ask
<1>0. TypeInv /\ LoadInv /\ ThreadInv
  BY DEF CurrentInv
<1>1. CASE Run
  <2>1. /\ UNCHANGED <<class, node, ready, loaded, phase, reload, left, busy, queued>>
        /\ phase = "idle" /\ reload = "idle"
        /\ running' = running \cup {s \in Present : node[s] # 0}
    BY <1>1 DEF Run, graph, request
  <2>2. ASSUME NEW s \in Present, node[s] # 0 PROVE Enterable(s)
    BY <1>0, <2>1, <2>2 DEF LoadInv, MayFail, Enterable
  <2>3. \A s : Enterable(s)' = Enterable(s)
    BY <2>1 DEF Enterable, MayFail, Present
  <2> QED BY <1>0, <2>1, <2>2, <2>3 DEF ThreadInv, Loading
<1>2. CASE Pause \/ PauseReturns
  <2>1. /\ UNCHANGED <<class, node, ready, loaded, reload, left, busy, queued>>
        /\ running' = {} /\ phase' \in {"idle", "pause"} /\ reload = "idle"
    BY <1>0, <1>2 DEF Pause, PauseReturns, graph, threads, ThreadInv, TypeInv
  <2>2. \A s : Enterable(s)' = Enterable(s)
    BY <2>1 DEF Enterable, MayFail, Present
  <2> QED BY <1>0, <2>1, <2>2 DEF ThreadInv, Loading
<1>3. ASSUME NEW f \in Files, Load(f) PROVE ThreadInv'
  <2>1. /\ UNCHANGED <<class, node, ready, reload, left, busy, queued>>
        /\ running' = {} /\ phase' = "clear" /\ reload = "idle" /\ loaded' = FALSE
    BY <1>3 DEF Load
  <2>2. \A s : Enterable(s) => Enterable(s)'
    BY <2>1 DEF Enterable, MayFail, Present
  <2> QED BY <1>0, <2>1, <2>2 DEF ThreadInv, Loading
<1>4. CASE Cleared
  <2>1. /\ busy' = {} /\ queued' = {} /\ running' = running /\ phase = "clear"
        /\ reload' = reload /\ phase' = "create"
    BY <1>4 DEF Cleared, NewGraph
  <2>2. running' = {} /\ reload' = "idle"
    BY <1>0, <2>1 DEF ThreadInv, TypeInv
  <2> QED BY <2>1, <2>2 DEF ThreadInv
<1>5. CASE LoadReturns
  <2>1. /\ UNCHANGED <<running, busy, queued, reload>> /\ phase = "initialize"
        /\ phase' = "idle"
    BY <1>5 DEF LoadReturns, threads
  <2>2. running = {} /\ busy = {} /\ queued = {} /\ reload = "idle"
    BY <1>0, <2>1 DEF ThreadInv, TypeInv, Loading
  <2> QED BY <2>1, <2>2 DEF ThreadInv
<1> QED BY <1>1, <1>2, <1>3, <1>4, <1>5

\* Nothing is running or in the pool while a dataflow is loaded.
LEMMA ThreadPasses ==
  ASSUME CurrentInv,
         \/ CreateStep \/ CreateFails \/ Configure \/ ConfigureHangs \/ Created
         \/ Connect \/ ConnectFails \/ Turn \/ Initialize \/ InitializeFails
  PROVE  ThreadInv'
<1>1. /\ phase \in Loading \ {"stuck"}
      /\ UNCHANGED <<running, busy, queued, reload>>
  BY DEF CreateStep, CreateFails, Fail, Configure, ConfigureHangs, Created, Connect,
         ConnectFails, Turn, Connected, Seed, Seeded, Pop, Cross, Drained, AddRest, Sorted,
         SortFrame, Initialize, InitializeFails, Loading, threads, monitor
<1>2. running = {} /\ busy = {} /\ queued = {} /\ reload = "idle"
  BY <1>1 DEF CurrentInv, TypeInv, ThreadInv, Loading
<1> QED BY <1>1, <1>2 DEF ThreadInv

LEMMA ThreadPlugins ==
  ASSUME CurrentInv, NEW p \in Plugins, Build(p) \/ Notice(p)
  PROVE  ThreadInv'
<1>1. /\ UNCHANGED <<class, node, ready, loaded, phase, running, busy, queued>>
      /\ \/ reload' = reload /\ left' = left
         \/ reload' \in {"idle", "new", "kill"}
  BY DEF Build, Notice, Done, nodes, graph, request, threads, monitor, Watch, Ask
<1>2. \A s : Enterable(s)' = Enterable(s)
  BY <1>1 DEF Enterable, MayFail, Present
<1> QED BY <1>1, <1>2 DEF ThreadInv, CurrentInv

LEMMA ThreadReload ==
  ASSUME CurrentInv, Reload
  PROVE  ThreadInv'
<1> USE DEF Watch, nodes, graph, request, threads
<1>0. /\ TypeOK /\ ReloadTypes /\ CodeInv /\ LoadInv /\ ThreadInv /\ phase = "idle"
      /\ UNCHANGED <<class, loaded, phase, busy, queued>> /\ Present' = Present
      /\ Present \subseteq Steps
  BY DEF Reload, LoadNew, Kill, TakeOut, Unload, Reopen, Inject, Reinitialize,
         ReinitializeFails, Restart, Reloaded, Done, CurrentInv, TypeInv, Present
<1>1. CASE \/ LoadNew \/ Kill \/ Unload \/ Reopen \/ ReinitializeFails
           \/ Reloaded
  <2>1. /\ UNCHANGED <<node, ready>> /\ running' \subseteq running
        /\ reload' \in {"idle", "kill", "open", "inject"}
    BY <1>1 DEF LoadNew, Kill, Unload, Reopen, ReinitializeFails, Reloaded, Done,
                monitor
  <2>2. \A s : Enterable(s)' = Enterable(s)
    BY <1>0, <2>1 DEF Enterable, MayFail
  <2>3. reload' = "inject" => \A s \in Range(left') : node'[s] = 0
    <3>1. reload' = "inject" => reload = "open" /\ left' = affected
      BY <1>1 DEF LoadNew, Kill, Unload, Reopen, ReinitializeFails, Reloaded, Done,
                  monitor
    <3> QED BY <1>0, <2>1, <3>1 DEF CodeInv, ReloadTypes
  <2> QED BY <1>0, <2>1, <2>2, <2>3 DEF ThreadInv, Loading
<1>2. CASE TakeOut
  <2>1. /\ Head(left) \notin running /\ Head(left) \notin busy \ Pooled
        /\ ready' = ready \ {Head(left)} /\ running' = running /\ reload' = "kill"
        /\ \A s \in Steps : s # Head(left) => node'[s] = node[s]
    BY <1>0, <1>2 DEF TakeOut, Joined, TypeOK
  <2>2. \A s : s # Head(left) /\ Enterable(s) => Enterable(s)'
    BY <1>0, <2>1 DEF Enterable, MayFail
  <2> QED BY <1>0, <2>1, <2>2 DEF ThreadInv, Loading
<1>3. CASE Inject
  <2>1. /\ left \in Seq(Steps) /\ left # <<>> /\ reload = "inject" /\ left' = left
        /\ reload' = "initialize" /\ UNCHANGED <<ready, running>>
    BY <1>0, <1>3 DEF Inject, TypeOK
  <2>2. Head(left) \in Present
    BY <1>0, <2>1, TailFacts DEF ReloadTypes
  <2>3. creators[class[Head(left)]] # 0
    BY <1>0, <2>2 DEF CodeInv
  <2>4. \A s \in Steps : node'[s] = IF s = Head(left) THEN creators[class[Head(left)]]
                                                     ELSE node[s]
    BY <1>0, <1>3 DEF Inject, TypeOK
  <2>5. \A s : Enterable(s) => Enterable(s)'
    <3>1. node[Head(left)] # 0 => Head(left) \in ready
      BY <1>0, <2>1, TailFacts DEF ThreadInv
    <3> QED BY <1>0, <2>1, <2>3, <2>4, <3>1 DEF Enterable, MayFail
  <2>6. node'[Head(left')] # 0
    BY <1>0, <2>1, <2>2, <2>3, <2>4
  <2>7. \A s \in Range(left) : node'[s] # 0 => s \in ready \/ s = Head(left)
    BY <1>0, <2>1, <2>4 DEF ThreadInv, ReloadTypes
  <2> QED BY <1>0, <2>1, <2>5, <2>6, <2>7 DEF ThreadInv, Loading
<1>4. CASE Reinitialize
  <2>1. /\ ready' = ready \cup {Head(left)} /\ reload = "initialize"
        /\ reload' = "run" /\ UNCHANGED <<node, running, left>>
    BY <1>4 DEF Reinitialize
  <2>2. \A s : Enterable(s) => Enterable(s)'
    BY <1>0, <2>1 DEF Enterable, MayFail
  <2> QED BY <1>0, <2>1, <2>2 DEF ThreadInv, Loading
<1>5. CASE Restart
  <2>1. /\ left \in Seq(Steps) /\ left # <<>> /\ reload = "run"
        /\ reload' = "inject" /\ UNCHANGED <<node, ready>>
        /\ running' = running \cup {Head(left)}
    BY <1>0, <1>5 DEF Restart, TypeOK, ReloadTypes
  <2>2. Head(left) \in Present
    BY <1>0, <2>1, TailFacts DEF ReloadTypes
  <2>3. Enterable(Head(left)) /\ (\A s : Enterable(s)' = Enterable(s))
    BY <1>0, <2>1, <2>2 DEF Enterable, MayFail, ThreadInv
  <2>4. Range(left') \subseteq Range(left)
    <3>1. left' = Tail(left)
      BY <1>5 DEF Restart
    <3> QED BY <2>1, <3>1, TailFacts
  <2> QED BY <1>0, <2>1, <2>3, <2>4 DEF ThreadInv, Loading
<1> QED BY <1>1, <1>2, <1>3, <1>4, <1>5 DEF Reload

-----------------------------------------------------------------------------
LEMMA CurrentStep == CurrentInv /\ [Next]_vars => CurrentInv'
<1> SUFFICES ASSUME CurrentInv, [Next]_vars PROVE CurrentInv'
  OBVIOUS
<1>0. TypeInv' /\ SortInv'
  BY TypeStep, SortStep DEF CurrentInv
<1>1. CASE UNCHANGED vars
  <2>1. UNCHANGED <<disk, pending, handle, judge, creators, class, node, ready, running,
                    busy, queued, loaded, phase, file, todo, reload, target, left>>
    BY <1>1 DEF vars, plugins, nodes, threads, graph, request, sort, monitor
  <2>2. CodeInv' /\ LoadInv'
    BY <2>1, CodeFrame, LoadFrame DEF CurrentInv
  <2>3. ThreadInv'
    BY <2>1, ThreadFrame DEF CurrentInv, ThreadInv
  <2> QED BY <1>0, <2>2, <2>3 DEF CurrentInv
<1>2. ASSUME NEW s \in Steps, Enter(s) \/ Enqueue(s) \/ PoolTake(s) \/ Leave(s)
      PROVE  CurrentInv'
  <2>1. UNCHANGED <<disk, pending, handle, judge, creators, class, node, ready, loaded,
                    phase, file, todo, reload, target, left>>
    BY <1>2 DEF Enter, Enqueue, PoolTake, Leave, plugins, nodes, graph, request,
                monitor
  <2>2. CodeInv' /\ LoadInv'
    BY <2>1, CodeFrame, LoadFrame DEF CurrentInv
  <2> QED BY <1>0, <1>2, <2>2, ThreadHandlers DEF CurrentInv
<1>3. CASE \/ Run \/ Pause \/ (\E f \in Files : Load(f)) \/ PauseReturns \/ Cleared
           \/ LoadReturns
  <2>1. CodeInv'
    <3>1. CASE Cleared
      BY <3>1, CodeStudio
    <3>2. CASE ~ Cleared
      <4>1. UNCHANGED <<disk, pending, handle, judge, creators, class, node, reload,
                        target, left>>
        BY <1>3, <3>2 DEF Run, Pause, Load, PauseReturns, LoadReturns, plugins, nodes,
                          monitor
      <4> QED BY <4>1, CodeFrame DEF CurrentInv
    <3> QED BY <3>1, <3>2
  <2> QED BY <1>0, <1>3, <2>1, LoadRequests, ThreadRequests DEF CurrentInv
<1>4. CASE \/ CreateStep \/ CreateFails \/ Configure \/ ConfigureHangs \/ Created
           \/ Connect \/ ConnectFails \/ Turn \/ Initialize \/ InitializeFails
  <2>1. CodeInv'
    <3>1. CASE CreateStep
      BY <3>1, CodeStudio
    <3>2. CASE ~ CreateStep
      <4>1. UNCHANGED <<disk, pending, handle, judge, creators, class, node, reload,
                        target, left>>
        BY <1>4, <3>2 DEF CreateFails, Fail, Configure, ConfigureHangs, Created, Connect,
                          ConnectFails, Turn, Connected, Seed, Seeded, Pop, Cross,
                          Drained, AddRest, Sorted, SortFrame, Initialize,
                          InitializeFails, plugins, nodes, monitor
      <4> QED BY <4>1, CodeFrame DEF CurrentInv
    <3> QED BY <3>1, <3>2
  <2> QED BY <1>0, <1>4, <2>1, LoadPasses, ThreadPasses DEF CurrentInv
<1>5. ASSUME NEW p \in Plugins, Build(p) \/ Notice(p) PROVE CurrentInv'
  <2>1. /\ UNCHANGED <<class, node, ready, loaded, phase, file, todo>>
        /\ \/ reload' = reload /\ left' = left
           \/ reload # "initialize"
    BY <1>5 DEF Build, Notice, Ask, nodes, graph, request, sort, monitor
  <2>2. LoadInv'
    BY <2>1, LoadFrame DEF CurrentInv
  <2> QED BY <1>0, <1>5, <2>2, CodePlugins, ThreadPlugins DEF CurrentInv
<1>6. CASE Reload
  <2>1. CodeInv'
    <3>1. CASE Kill
      <4>1. UNCHANGED <<disk, pending, handle, judge, creators, class, node, reload,
                        target, left>>
        BY <3>1 DEF Kill, plugins, nodes, monitor
      <4> QED BY <4>1, CodeFrame DEF CurrentInv
    <3> QED BY <1>6, <3>1, CodeOpen, CodeReload DEF Reload
  <2> QED BY <1>0, <1>6, <2>1, LoadReload, ThreadReload DEF CurrentInv
<1>7. CASE Serve
  BY <1>3, <1>4, <1>7 DEF Serve, Turn
<1> QED BY <1>1, <1>2, <1>3, <1>5, <1>6, <1>7 DEF Next

\* While plugins are reloaded under a running graph, a thread is inside of a node
\* that is there and is of the build that is open.  After a load that succeeded it
\* was initialized, or is one whose initialize() may throw: a reload that it ends
\* leaves such a node in its step, and the next RUNNING runs it.
THEOREM NoStaleCode == Spec => []CodeIsCurrent
<1>1. CurrentInv => CodeIsCurrent
  <2> SUFFICES ASSUME CurrentInv, NEW s \in busy \ Pooled
               PROVE  /\ class[s] # None /\ node[s] # 0
                      /\ loaded => s \in ready \/ MayFail(s)
                      /\ \/ handle[Home[class[s]]] \in {0, node[s]}
                         \/ <<Home[class[s]], node[s]>> \in Throwing
    BY DEF CodeIsCurrent
  <2>1. /\ s \in Present /\ node[s] # 0
        /\ loaded => s \in ready \/ MayFail(s)
    BY DEF CurrentInv, ThreadInv, Enterable
  <2>2. class[s] # None /\ Fits(Home[class[s]], node[s])
    BY <2>1 DEF CurrentInv, CodeInv, Present
  <2> QED BY <2>1, <2>2 DEF Fits
<1> QED BY CurrentInit, CurrentStep, <1>1, PTL DEF Spec
=============================================================================
