---------------------------- MODULE AgentProofs ----------------------------
(***************************************************************************)
(* Theorems about the agent's process, for any steps and any bounds on     *)
(* logs and records, with or without the thread that reloads plugins: its  *)
(* types; that main leaves nothing behind that uses what it destroys; that *)
(* the recorder writes every record once, in order, and at its end all     *)
(* that had been pushed; and that the orchestrator gets no log entry       *)
(* twice.                                                                  *)
(***************************************************************************)
EXTENDS Agent, TLAPS

\* The telemetry thread holds a step while it takes its log.
HoldsAStep == telemetry \in {"logs", "gone"} => held \in Steps

\* The reload has a reference to a step, or to none.
GripsAStep == IF watch \in {"join", "run", "release", "destroy"} THEN grip \in Steps
                                                                 ELSE grip = None

TypeInv == TypeOK /\ HoldsAStep /\ GripsAStep

-----------------------------------------------------------------------------
(* Types *)

LEMMA NewestFacts ==
  ASSUME NEW n \in Nat, NEW q \in Seq(Nat)
  PROVE  /\ Newest(n, q) \in Seq(Nat)
         /\ Len(Newest(n, q)) = IF Len(q) <= n THEN Len(q) ELSE n
         /\ \A i \in 1 .. Len(Newest(n, q)) :
              Newest(n, q)[i] = q[Len(q) - Len(Newest(n, q)) + i]
<1>1. CASE Len(q) <= n
  BY <1>1 DEF Newest
<1>2. CASE ~ (Len(q) <= n)
  <2>1. Newest(n, q) = SubSeq(q, Len(q) - n + 1, Len(q))
    BY <1>2 DEF Newest
  <2>2. Len(Newest(n, q)) = n /\ Newest(n, q) \in Seq(Nat)
    BY <1>2, <2>1
  <2>3. \A i \in 1 .. n : Newest(n, q)[i] = q[Len(q) - n + i]
    <3> SUFFICES ASSUME NEW i \in 1 .. n
                 PROVE  Newest(n, q)[i] = q[Len(q) - n + i]
      OBVIOUS
    <3>1. Newest(n, q)[i] = q[(Len(q) - n + 1) + i - 1]
      BY <1>2, <2>1, <2>2
    <3>2. (Len(q) - n + 1) + i - 1 = Len(q) - n + i
      OBVIOUS
    <3> QED BY <3>1, <3>2
  <2> QED BY <1>2, <2>2, <2>3
<1> QED BY <1>1, <1>2

LEMMA TypeInit == Init => TypeInv
<1> SUFFICES ASSUME Init PROVE TypeInv
  OBVIOUS
<1>1. Empty \in [Steps -> Seq(Nat)] /\ <<>> \in Seq(Nat)
  BY DEF Empty
<1>2. logged \in [Steps -> Nat]
  BY DEF Init
<1>3. watch \in {"off", "idle"}
  BY DEF Init
<1> QED BY <1>1, <1>2, <1>3 DEF Init, TypeInv, TypeOK, HoldsAStep, GripsAStep

LEMMA TypePush ==
  ASSUME TypeOK, PushRecord
  PROVE  made' \in Nat /\ queue' \in Seq(Nat)
<1>1. Latest \in Nat
  BY AgentAssumption DEF Latest
<1>2. made' \in Nat /\ Append(queue, made') \in Seq(Nat)
  BY <1>1 DEF TypeOK, PushRecord
<1> QED BY <1>2, NewestFacts, AgentAssumption DEF PushRecord

LEMMA TypeNodes ==
  ASSUME TypeInv, NEW s \in Steps,
         FindBusy(s) \/ Enter(s) \/ Log(s) \/ Segment(s) \/ Leave(s)
           \/ AddStep(s)
  PROVE  TypeInv'
<1> USE DEF TypeInv, HoldsAStep, GripsAStep, server, studio, reports, monitor,
            recorder
<1>1. CASE FindBusy(s) \/ Enter(s)
  <2>1. CASE FindBusy(s)
    BY <2>1, SMTT(30) DEF FindBusy, TypeOK, entries, records
  <2>2. CASE Enter(s)
    BY <2>2, SMTT(30) DEF Enter, TypeOK, entries, records
  <2> QED BY <1>1, <2>1, <2>2
<1>2. CASE Log(s)
  <2>1. logged'[s] \in Nat /\ logged' \in [Steps -> Nat]
    BY <1>2, SMTT(30) DEF Log, TypeOK
  <2>2. Append(logs[s], logged'[s]) \in Seq(Nat)
    BY <2>1, SMTT(30) DEF TypeOK
  <2>3. logs' \in [Steps -> Seq(Nat)]
    BY <1>2, <2>2, NewestFacts, AgentAssumption DEF Log, TypeOK
  <2> QED BY <1>2, <2>1, <2>3, SMTT(30) DEF Log, TypeOK, handlers, records
<1>3. CASE Segment(s)
  <2>1. made' \in Nat /\ queue' \in Seq(Nat)
    BY <1>3, TypePush, SMTT(30) DEF Segment
  <2> QED BY <1>3, <2>1, SMTT(30) DEF Segment, TypeOK, handlers, entries
<1>4. CASE Leave(s)
  <2>1. made' \in Nat /\ queue' \in Seq(Nat)
    BY <1>4, TypePush, SMTT(30) DEF Leave
  <2>2. busy' \subseteq Steps /\ late' \subseteq Pooled
    BY <1>4, SMTT(30) DEF Leave, TypeOK
  <2>3. UNCHANGED <<main, server, studio, forced, entries, reports, monitor, recorder>>
    BY <1>4, SMTT(30) DEF Leave
  <2>4. TypeOK'
    BY <2>1, <2>2, <2>3, SMTT(30) DEF TypeOK, entries
  <2> QED BY <2>3, <2>4
<1>5. CASE AddStep(s)
  BY <1>5, SMTT(30) DEF AddStep, TypeOK, handlers, entries, records
<1> QED BY <1>1, <1>2, <1>3, <1>4, <1>5

LEMMA TypeDrop ==
  ASSUME TypeInv, DropSteps
  PROVE  /\ logs' \in [Steps -> Seq(Nat)] /\ gone' \in Seq(Nat)
         /\ telemetry' \in {"register", "sleep", "nodes", "logs", "gone",
                            "ended"}
         /\ telemetry' \in {"logs", "gone"} => held \in Steps
         /\ present' \subseteq Steps /\ forced' \subseteq Pooled
         /\ busy' \subseteq Steps /\ late' \subseteq Pooled
         /\ UNCHANGED <<logged, stop, ids, held, payload, received>>
<1>1. logs' \in [Steps -> Seq(Nat)]
  BY DEF DropSteps, Empty
<1>2. /\ present' \subseteq Steps /\ forced' \subseteq Pooled
      /\ busy' \subseteq Steps /\ late' \subseteq Pooled
  BY DEF DropSteps, TypeInv, TypeOK
<1>3. CASE telemetry = "logs"
  BY <1>1, <1>2, <1>3, SMTT(30) DEF DropSteps, TypeInv, TypeOK, HoldsAStep
<1>4. CASE telemetry # "logs"
  BY <1>1, <1>2, <1>4, SMTT(30) DEF DropSteps, TypeInv, TypeOK, HoldsAStep
<1> QED BY <1>3, <1>4

LEMMA TypeRequests ==
  ASSUME TypeInv,
         Listen \/ Run \/ Pause("pause") \/ Pause("load") \/ Serve
  PROVE  TypeInv'
<1> USE DEF TypeInv, HoldsAStep, GripsAStep, server, studio, monitor, recorder,
            records
<1>1. CASE Listen \/ Run \/ Pause("pause") \/ Pause("load")
  <2> USE DEF TypeOK, reports, handlers, entries
  <2>1. CASE Listen
    BY <2>1, SMTT(30) DEF Listen
  <2>2. CASE Run
    BY <2>2, SMTT(30) DEF Run
  <2>3. CASE Pause("pause") \/ Pause("load")
    BY <2>3, SMTT(30) DEF Pause
  <2> QED BY <1>1, <2>1, <2>2, <2>3
<1>2. CASE PauseReturns \/ LoadReturns \/ LoadHangs \/ ListenerEnds
  <2> USE DEF TypeOK, reports, handlers, entries
  <2>1. CASE PauseReturns \/ LoadReturns
    BY <2>1, SMTT(30) DEF PauseReturns, LoadReturns
  <2>2. CASE LoadHangs \/ ListenerEnds
    BY <2>2, SMTT(30) DEF LoadHangs, ListenerEnds
  <2> QED BY <1>2, <2>1, <2>2
<1>3. CASE Cleared
  <2>1. bare' \subseteq Steps /\ request' = "add"
    BY <1>3, SMTT(30) DEF Cleared
  <2> QED BY <1>3, <2>1, TypeDrop, SMTT(30) DEF Cleared, TypeOK
<1> QED BY <1>1, <1>2, <1>3, SMTT(30) DEF Serve

LEMMA TypeTelemetry ==
  ASSUME TypeInv, Telemetry
  PROVE  TypeInv'
<1> USE DEF TypeInv, HoldsAStep, GripsAStep, TelemetryFrame, Continue, server,
            studio, handlers, monitor, recorder, records
<1>1. CASE RegisterAgent \/ Report \/ StopReporting
  <2>1. CASE RegisterAgent \/ StopReporting
    BY <2>1, SMTT(30) DEF RegisterAgent, StopReporting, TypeOK
  <2>2. CASE Report
    BY <2>2, SMTT(30) DEF Report, TypeOK
  <2> QED BY <1>1, <2>1, <2>2
<1>2. CASE GetStep
  BY <1>2, SMTT(30) DEF GetStep, TypeOK
<1>3. CASE TakeLogs
  <2>1. payload[held] \o logs[held] \in Seq(Nat)
    BY <1>3, SMTT(30) DEF TakeLogs, TypeOK
  <2>2. payload' \in [Steps -> Seq(Nat)]
    BY <1>3, <2>1, SMTT(30) DEF TakeLogs, TypeOK
  <2>3. logs' \in [Steps -> Seq(Nat)]
    <3>1. <<>> \in Seq(Nat)
      OBVIOUS
    <3> QED BY <1>3, <3>1, SMTT(30) DEF TakeLogs, TypeOK
  <2> QED BY <1>3, <2>2, <2>3, SMTT(30) DEF TakeLogs, TypeOK
<1>4. CASE TakeGone
  <2>1. payload[held] \o gone \in Seq(Nat)
    BY <1>4, SMTT(30) DEF TakeGone, TypeOK
  <2> QED BY <1>4, <2>1, SMTT(30) DEF TakeGone, TypeOK
<1>5. CASE Post
  <2>1. received' \in [Steps -> Seq(Nat)] /\ payload' \in [Steps -> Seq(Nat)]
    <3>1. \A s \in Steps : received[s] \o payload[s] \in Seq(Nat)
      BY DEF TypeOK
    <3>2. /\ [s \in Steps |-> received[s] \o payload[s]] \in [Steps -> Seq(Nat)]
          /\ Empty \in [Steps -> Seq(Nat)]
      BY <3>1, SMTT(30) DEF Empty
    <3> QED BY <1>5, <3>2 DEF Post, TypeOK
  <2> QED BY <1>5, <2>1, SMTT(30) DEF Post, TypeOK
<1> QED BY <1>1, <1>2, <1>3, <1>4, <1>5, SMTT(30) DEF Telemetry

LEMMA TypeMonitor ==
  ASSUME TypeInv, Notice \/ Monitor
  PROVE  TypeInv'
<1> USE AgentAssumption DEF TypeInv, HoldsAStep, GripsAStep, MonitorFrame, Watch,
            Done, server, studio, handlers, reports, recorder, records
<1>1. CASE Notice
  BY <1>1, SMTT(30) DEF Notice, TypeOK
<1>2. ASSUME NEW s \in Steps, Kill(s)
      PROVE  TypeInv'
  BY <1>2, SMTT(30) DEF Kill, TypeOK
<1>3. ASSUME NEW s \in Steps, Make(s)
      PROVE  TypeInv'
  BY <1>3, SMTT(30) DEF Make, TypeOK
<1>4. CASE TakeOut
  <2>1. logs' \in [Steps -> Seq(Nat)]
    <3>1. <<>> \in Seq(Nat)
      OBVIOUS
    <3> QED BY <1>4, <3>1, SMTT(30) DEF TakeOut, TypeOK
  <2>2. grip \in Steps /\ grip \notin busy \ forced
    BY <1>4, SMTT(30) DEF TakeOut
  <2>3. bare' \subseteq Steps /\ busy' \subseteq Steps /\ late' \subseteq Pooled
    BY <1>4, <2>2, SMTT(30) DEF TakeOut, TypeOK
  <2> QED BY <1>4, <2>1, <2>3, SMTT(30) DEF TakeOut, TypeOK
<1>5. CASE Reopen
  BY <1>5, SMTT(30) DEF Reopen, TypeOK
<1>6. CASE Restart \/ Release \/ Destroyed
  <2>1. CASE Restart
    BY <2>1, SMTT(30) DEF Restart, TypeOK
  <2>2. CASE Release
    BY <2>2, SMTT(30) DEF Release, TypeOK
  <2>3. CASE Destroyed
    BY <2>3, SMTT(30) DEF Destroyed, TypeOK
  <2> QED BY <1>6, <2>1, <2>2, <2>3
<1>7. CASE Made \/ Called \/ WatchEnds
  <2>1. CASE Made
    BY <2>1, SMTT(30) DEF Made, TypeOK
  <2>2. CASE Called
    BY <2>2, SMTT(30) DEF Called, TypeOK
  <2>3. CASE WatchEnds
    BY <2>3, SMTT(30) DEF WatchEnds, TypeOK
  <2> QED BY <1>7, <2>1, <2>2, <2>3
<1>8. CASE StepIsLost
  BY <1>8, SMTT(30) DEF StepIsLost, Crash, TypeOK, entries, monitor
<1> QED BY <1>1, <1>2, <1>3, <1>4, <1>5, <1>6, <1>7, <1>8, SMTT(30) DEF Monitor

LEMMA TypeRace == TypeInv /\ Race => TypeInv'
BY
   DEF Race, Crash, TypeInv, TypeOK, HoldsAStep, GripsAStep, server, studio, handlers,
       entries, reports, monitor, recorder, records

LEMMA TypeRecorder ==
  ASSUME TypeInv, Recorder
  PROVE  TypeInv'
<1> USE DEF TypeInv, HoldsAStep, GripsAStep, RecorderFrame, server, studio, handlers,
            entries, reports, monitor
<1>1. CASE Collect
  <2>1. <<>> \in Seq(Nat)
    OBVIOUS
  <2> QED BY <1>1, <2>1, SMTT(30) DEF Collect, TypeOK
<1>2. CASE Write
  <2>1. written \o batch \in Seq(Nat) /\ <<>> \in Seq(Nat)
    BY DEF TypeOK
  <2>2. written' \in Seq(Nat) /\ batch' \in Seq(Nat)
    BY <1>2, <2>1, SMTT(30) DEF Write, TypeOK
  <2> QED BY <1>2, <2>2, SMTT(30) DEF Write, TypeOK
<1>3. CASE TestRunning \/ TestQueue
  <2>1. CASE TestRunning
    BY <2>1, SMTT(30) DEF TestRunning, TypeOK
  <2>2. CASE TestQueue
    BY <2>2, SMTT(30) DEF TestQueue, TypeOK
  <2> QED BY <1>3, <2>1, <2>2
<1> QED BY <1>1, <1>2, <1>3, SMTT(30) DEF Recorder

LEMMA TypeMain ==
  ASSUME TypeInv, StopServer \/ Shutdown
  PROVE  TypeInv'
<1> USE DEF TypeInv, HoldsAStep, GripsAStep, server, studio, monitor, recorder,
            records, Goto
<1>1. CASE StopServer \/ CloseServer \/ StopRecorder \/ StopSteps
  <2> USE DEF TypeOK, reports, handlers, entries
  <2>1. CASE StopServer
    BY <2>1, SMTT(30) DEF StopServer
  <2>2. CASE CloseServer
    BY <2>2, SMTT(30) DEF CloseServer
  <2>3. CASE StopRecorder
    <3>1. due' \in Nat /\ recording' \in BOOLEAN /\ main' = "recorder"
      BY <2>3 DEF StopRecorder
    <3> QED BY <2>3, <3>1, SMTT(30) DEF StopRecorder
  <2>4. CASE StopSteps
    BY <2>4, SMTT(30) DEF StopSteps
  <2> QED BY <1>1, <2>1, <2>2, <2>3, <2>4
<1>2. CASE TakeSteps
  <2>1. running' \subseteq Steps
    BY <1>2, SMTT(30) DEF TakeSteps, TypeOK
  <2> QED BY <1>2, <2>1, TypeDrop, SMTT(30) DEF TakeSteps, TypeOK
<1>3. CASE ClearReturns \/ PoolEnds \/ Exit
  <2> USE DEF TypeOK, reports, handlers, entries
  <2>1. CASE ClearReturns
    BY <2>1, SMTT(30) DEF ClearReturns
  <2>2. CASE PoolEnds
    BY <2>2, SMTT(30) DEF PoolEnds
  <2>3. CASE Exit
    BY <2>3, SMTT(30) DEF Exit
  <2> QED BY <1>3, <2>1, <2>2, <2>3
<1> QED BY <1>1, <1>2, <1>3, SMTT(30) DEF Shutdown

LEMMA TypeStep == TypeInv /\ [Next]_vars => TypeInv'
<1> SUFFICES ASSUME TypeInv, [Next]_vars PROVE TypeInv'
  OBVIOUS
<1>1. CASE UNCHANGED vars
  BY <1>1, SMTT(30)
     DEF vars, server, studio, handlers, entries, reports, monitor, recorder,
              records, TypeInv, TypeOK, HoldsAStep, GripsAStep
<1> QED BY <1>1, TypeNodes, TypeRequests, TypeTelemetry, TypeMonitor, TypeRace,
           TypeRecorder, TypeMain DEF Next

\* Every variable of the agent has its type.
THEOREM TypeCorrect == Spec => []TypeOK
<1>1. TypeInv => TypeOK
  BY DEF TypeInv
<1> QED BY TypeInit, TypeStep, <1>1, PTL DEF Spec

-----------------------------------------------------------------------------
(* What main leaves behind *)

(***************************************************************************)
(* What the joins of main have established by the time it is at a label.   *)
(* Steps that the studio has dropped end with their destructor, but for    *)
(* the one that a reload has in its hands, which it runs at most once.     *)
(***************************************************************************)
ExitInv ==
  /\ TypeInv
  /\ watch \in {"join", "destroy"} => grip \notin running
  /\ request # "none" => listener \in {"listening", "closing"}
  /\ main \notin {"serve", "telemetry", "crashed"} => telemetry = "ended"
  /\ main \notin {"serve", "telemetry", "listener", "crashed"} => listener = "ended"
  /\ main \in {"clear", "destroy", "pool", "library", "exit"} =>
       worker = "ended" /\ state = "PAUSE"
  /\ main \in {"destroy", "pool", "library", "exit"} =>
       present = {} /\ running \subseteq {grip} /\ busy \cap forced = {}
  /\ main \in {"pool", "library", "exit"} => busy \subseteq {grip}
  /\ main \in {"library", "exit"} => late = {}
  /\ main = "exit" => watch \in {"off", "ended"}

LEMMA ExitInit == Init => ExitInv
<1> SUFFICES ASSUME Init PROVE ExitInv
  OBVIOUS
<1>1. watch \in {"off", "idle"}
  BY DEF Init
<1> QED BY <1>1, TypeInit DEF Init, ExitInv

LEMMA ExitNodes ==
  ASSUME ExitInv, TypeInv', NEW s \in Steps,
         FindBusy(s) \/ Enter(s) \/ Log(s) \/ Segment(s) \/ Leave(s)
           \/ AddStep(s)
  PROVE  ExitInv'
<1> USE DEF ExitInv, server, studio, reports, monitor, recorder
<1>1. CASE Enter(s)
  <2>1. /\ busy' = busy \cup {s} /\ s \in running
        /\ s \in forced => state = "RUN"
        /\ UNCHANGED <<main, listener, request, state, present, running, forced,
                       late, telemetry, watch, grip, worker>>
    BY <1>1, SMTT(30) DEF Enter
  <2> QED BY <2>1
<1>2. CASE Leave(s)
  <2>1. /\ busy' \subseteq busy /\ late' \subseteq late
        /\ UNCHANGED <<main, listener, request, state, present, running, forced,
                       telemetry, watch, grip, worker>>
    BY <1>2, SMTT(30) DEF Leave
  <2> QED BY <2>1
<1>3. CASE FindBusy(s) \/ Log(s) \/ Segment(s)
  BY <1>3, SMTT(30) DEF FindBusy, Log, Segment, handlers
<1>4. CASE AddStep(s)
  <2>1. listener # "ended"
    BY <1>4, SMTT(30) DEF AddStep
  <2> QED BY <1>4, <2>1 DEF AddStep, handlers, TypeInv, TypeOK
<1> QED BY <1>1, <1>2, <1>3, <1>4

LEMMA ExitRequests ==
  ASSUME ExitInv, TypeInv',
         Listen \/ Run \/ Pause("pause") \/ Pause("load") \/ Serve
  PROVE  ExitInv'
<1> USE DEF ExitInv, server, studio, monitor, recorder, records
<1>1. CASE Listen \/ Run \/ Pause("pause") \/ Pause("load")
  BY <1>1, SMTT(30) DEF Listen, Run, Pause, Ask, handlers, reports, TypeInv, TypeOK
<1>2. CASE PauseReturns \/ LoadReturns \/ LoadHangs \/ ListenerEnds
  BY <1>2, SMTT(30)
     DEF PauseReturns, LoadReturns, LoadHangs, ListenerEnds, handlers, reports
<1>3. CASE Cleared
  <2>1. main \in {"serve", "telemetry", "listener", "crashed"}
    BY <1>3, SMTT(30) DEF Cleared, TypeInv, TypeOK
  <2>2. /\ request # "none" /\ request' # "none"
        /\ UNCHANGED <<main, listener, state, running, watch, grip, worker>>
        /\ telemetry = "ended" => telemetry' = "ended"
    BY <1>3, SMTT(30) DEF Cleared, DropSteps
  <2> QED BY <2>1, <2>2
<1> QED BY <1>1, <1>2, <1>3, SMTT(30) DEF Serve

LEMMA ExitMonitor ==
  ASSUME ExitInv, TypeInv', Notice \/ Monitor
  PROVE  ExitInv'
<1> USE AgentAssumption DEF ExitInv, MonitorFrame, Watch, Done, server, studio,
            handlers, reports, recorder, TypeInv, GripsAStep
<1>1. CASE Notice
  BY <1>1, SMTT(30) DEF Notice
<1>2. ASSUME NEW s \in Steps, Kill(s)
      PROVE  ExitInv'
  BY <1>2, SMTT(30) DEF Kill
<1>3. ASSUME NEW s \in Steps, Make(s)
      PROVE  ExitInv'
  <2>1. main \notin {"destroy", "pool", "library", "exit"}
    BY <1>3, SMTT(30) DEF Make
  <2>2. /\ watch = "make" /\ watch' \in {"run", "idle"}
        /\ UNCHANGED <<main, listener, request, state, running, telemetry, worker>>
    BY <1>3, SMTT(30) DEF Make
  <2> QED BY <2>1, <2>2
<1>4. CASE TakeOut
  <2>1. /\ busy' = busy \ {grip} /\ late' = late \cup (busy \cap {grip})
        /\ grip \notin running /\ (grip \in busy => grip \in forced)
        /\ watch = "join" /\ watch' = "kill"
        /\ UNCHANGED <<main, listener, request, state, present, running, forced,
                       telemetry, worker>>
    BY <1>4, SMTT(30) DEF TakeOut
  <2>2. main \in {"destroy", "pool", "library", "exit"} =>
          running = {} /\ busy \cap {grip} = {}
    BY <2>1
  <2>3. main \in {"pool", "library", "exit"} => busy' = {}
    BY <2>1
  <2>4. main \in {"destroy", "pool", "library", "exit"} => busy' \cap forced' = {}
    BY <2>1
  <2>5. main \in {"library", "exit"} => late' = {}
    BY <2>1, <2>2
  <2> QED BY <2>1, <2>2, <2>3, <2>4, <2>5
<1>5. CASE Reopen
  BY <1>5, SMTT(30) DEF Reopen
<1>6. CASE Restart \/ Release \/ Destroyed
  BY <1>6, SMTT(30) DEF Restart, Release, Destroyed
<1>7. CASE Made \/ Called \/ WatchEnds
  BY <1>7, SMTT(30) DEF Made, Called, WatchEnds
<1>8. CASE StepIsLost
  BY <1>8, SMTT(30) DEF StepIsLost, Crash, monitor
<1> QED BY <1>1, <1>2, <1>3, <1>4, <1>5, <1>6, <1>7, <1>8, SMTT(30) DEF Monitor

LEMMA ExitMain ==
  ASSUME ExitInv, TypeInv', StopServer \/ Shutdown
  PROVE  ExitInv'
<1> USE DEF ExitInv, server, studio, handlers, reports, monitor, recorder, Goto
<1>1. CASE StopServer \/ CloseServer
  BY <1>1, SMTT(30) DEF StopServer, CloseServer, TypeInv, TypeOK
<1>2. CASE StopRecorder \/ StopSteps
  BY <1>2, SMTT(30) DEF StopRecorder, StopSteps
<1>3. CASE TakeSteps
  <2>1. /\ main = "clear" /\ main' = "destroy" /\ present' = {}
        /\ running' = running \cap {grip} /\ busy' = busy \ forced
        /\ forced' = forced \cap {grip}
        /\ telemetry' = telemetry
        /\ UNCHANGED <<listener, request, state, watch, grip, worker>>
    BY <1>3, SMTT(30) DEF TakeSteps, DropSteps
  <2> QED BY <2>1
<1>4. CASE ClearReturns \/ PoolEnds \/ Exit
  BY <1>4, SMTT(30) DEF ClearReturns, PoolEnds, Exit
<1> QED BY <1>1, <1>2, <1>3, <1>4, SMTT(30) DEF Shutdown

LEMMA ExitStep == ExitInv /\ [Next]_vars => ExitInv'
<1> SUFFICES ASSUME ExitInv, [Next]_vars PROVE ExitInv'
  OBVIOUS
<1>1. TypeInv'
  BY TypeStep, SMTT(30) DEF ExitInv
<1>2. CASE Telemetry
  BY <1>1, <1>2 DEF ExitInv, Telemetry, RegisterAgent, Report, GetStep, TakeLogs,
       TakeGone, Post, StopReporting, Continue, TelemetryFrame, server, studio,
       handlers, monitor, recorder
<1>3. CASE Recorder
  BY <1>1, <1>3, SMTT(30)
     DEF ExitInv, Recorder, Collect, Write, TestRunning, TestQueue,
       RecorderFrame, server, studio, handlers, reports, monitor
<1>4. CASE Race
  BY <1>1, <1>4, SMTT(30)
     DEF ExitInv, Race, Crash, server, studio, handlers, reports, monitor,
       recorder
<1>5. CASE UNCHANGED vars
  BY <1>1, <1>5, SMTT(30)
     DEF ExitInv, vars, server, studio, handlers, reports, monitor,
       recorder
<1> QED BY <1>1, <1>2, <1>3, <1>4, <1>5, ExitNodes, ExitRequests, ExitMonitor,
           ExitMain DEF Next

\* When main returns no handler, request, report, record or reload is under way and
\* no step runs; and from the end of the pool's workers on only the step that a
\* reload has in its hands can: the order in which main joins, clears and destroys
\* is enough for that.
THEOREM NothingIsLeftBehind == Spec => []ExitIsQuiet
<1>1. ASSUME ExitInv PROVE ExitIsQuiet
  <2>1. ASSUME main = "exit" PROVE grip = None /\ running = {} /\ busy = {}
    <3>1. grip = None
      BY <1>1, <2>1 DEF ExitInv, TypeInv, GripsAStep
    <3> QED BY <1>1, <2>1, <3>1, AgentAssumption DEF ExitInv, TypeInv, TypeOK
  <2>2. main \in {"pool", "library", "exit"} => request = "none"
    BY <1>1 DEF ExitInv
  <2> QED BY <1>1, <2>1, <2>2 DEF ExitInv, ExitIsQuiet
<1> QED BY ExitInit, ExitStep, <1>1, PTL DEF Spec

-----------------------------------------------------------------------------
(* Sequences, one after the other *)

LEMMA Concatenation ==
  ASSUME NEW q \in Seq(Nat), NEW r \in Seq(Nat)
  PROVE  /\ q \o r \in Seq(Nat) /\ Len(q) \in Nat /\ Len(r) \in Nat
         /\ DOMAIN q = 1 .. Len(q) /\ DOMAIN r = 1 .. Len(r)
         /\ DOMAIN (q \o r) = 1 .. Len(q) + Len(r)
         /\ \A i \in 1 .. Len(q) : (q \o r)[i] = q[i]
         /\ \A i \in 1 .. Len(r) : (q \o r)[Len(q) + i] = r[i]
         /\ \A i \in 1 .. Len(q) + Len(r) :
              i \in 1 .. Len(q) \/ \E j \in 1 .. Len(r) : i = Len(q) + j
         /\ Range(q \o r) = Range(q) \cup Range(r)
<1>1. /\ q \o r \in Seq(Nat) /\ Len(q) \in Nat /\ Len(r) \in Nat
      /\ DOMAIN q = 1 .. Len(q) /\ DOMAIN r = 1 .. Len(r)
      /\ DOMAIN (q \o r) = 1 .. Len(q) + Len(r)
  OBVIOUS
<1>2. \A i \in 1 .. Len(q) : (q \o r)[i] = q[i]
  OBVIOUS
<1>3. \A i \in 1 .. Len(r) : (q \o r)[Len(q) + i] = r[i]
  OBVIOUS
<1>4. \A i \in 1 .. Len(q) + Len(r) :
        i \in 1 .. Len(q) \/ \E j \in 1 .. Len(r) : i = Len(q) + j
  <2> SUFFICES ASSUME NEW i \in 1 .. Len(q) + Len(r), i > Len(q)
               PROVE  \E j \in 1 .. Len(r) : i = Len(q) + j
    BY <1>1
  <2>1. i - Len(q) \in 1 .. Len(r) /\ i = Len(q) + (i - Len(q))
    BY <1>1
  <2> QED BY <2>1
<1>5. Range(q \o r) = Range(q) \cup Range(r)
  <2>1. ASSUME NEW i \in DOMAIN (q \o r) PROVE (q \o r)[i] \in Range(q) \cup Range(r)
    <3>1. CASE i \in 1 .. Len(q)
      BY <1>1, <1>2, <3>1 DEF Range
    <3>2. CASE i \notin 1 .. Len(q)
      <4>1. PICK j \in 1 .. Len(r) : i = Len(q) + j
        BY <1>1, <1>4, <3>2
      <4> QED BY <1>1, <1>3, <4>1 DEF Range
    <3> QED BY <3>1, <3>2
  <2>2. ASSUME NEW i \in DOMAIN q PROVE q[i] \in Range(q \o r)
    <3>1. i \in DOMAIN (q \o r)
      BY <1>1
    <3> QED BY <3>1, <1>1, <1>2 DEF Range
  <2>3. ASSUME NEW i \in DOMAIN r PROVE r[i] \in Range(q \o r)
    <3>1. Len(q) + i \in DOMAIN (q \o r)
      BY <1>1
    <3> QED BY <3>1, <1>1, <1>3 DEF Range
  <2> QED BY <2>1, <2>2, <2>3 DEF Range
<1> QED BY <1>1, <1>2, <1>3, <1>4, <1>5

-----------------------------------------------------------------------------
(* What the recorder writes *)

\* The order of the records that are followed.
Rising(q) == \A i, j \in DOMAIN q : i < j /\ Followed(q[j]) => q[i] < q[j]
Below(q, r) == \A i \in DOMAIN q, j \in DOMAIN r : Followed(r[j]) => q[i] < r[j]
UpTo(q, n) == \A i \in DOMAIN q : q[i] <= n

\* The number of the n-th record.
Cap(n) == IF n < Latest THEN n ELSE Latest

LEMMA UpToMore ==
  ASSUME NEW q \in Seq(Nat), NEW m \in Int, NEW n \in Int, m <= n, UpTo(q, m)
  PROVE  UpTo(q, n)
<1> SUFFICES ASSUME NEW i \in DOMAIN q PROVE q[i] <= n
  BY DEF UpTo
<1>1. q[i] \in Nat /\ q[i] <= m
  BY DEF UpTo
<1> QED BY <1>1

LEMMA CapFacts ==
  /\ Latest \in Nat /\ \A r \in 1 .. MaxRecords : r \in Nat /\ r + Room <= Latest
  /\ \A n \in Nat :
       /\ Cap(n) \in Nat /\ Cap(n) <= n
       /\ n <= Latest => Cap(n) = n
       /\ Followed(Cap(n)) => Cap(n) = n
  /\ \A m, n \in Nat : m <= n => Cap(m) <= Cap(n)
  /\ Cap(0) = 0
<1>1. MaxRecords \in Nat /\ Room \in Nat /\ Room >= 1 /\ Latest = MaxRecords + Room
  BY AgentAssumption DEF Latest
<1> QED BY <1>1 DEF Cap, Followed

LEMMA JoinRising ==
  ASSUME NEW q \in Seq(Nat), NEW r \in Seq(Nat), Rising(q), Rising(r), Below(q, r)
  PROVE  Rising(q \o r)
<1> SUFFICES ASSUME NEW i \in 1 .. Len(q) + Len(r), NEW j \in 1 .. Len(q) + Len(r),
                    i < j, Followed((q \o r)[j])
             PROVE  (q \o r)[i] < (q \o r)[j]
  BY Concatenation DEF Rising
<1>1. CASE j \in 1 .. Len(q)
  <2>1. i \in 1 .. Len(q)
    BY <1>1, Concatenation
  <2> QED BY <1>1, <2>1, Concatenation DEF Rising
<1>2. CASE j \notin 1 .. Len(q)
  <2>1. PICK m \in 1 .. Len(r) : j = Len(q) + m
    BY <1>2, Concatenation
  <2>2. (q \o r)[j] = r[m] /\ m \in DOMAIN r
    BY <2>1, Concatenation
  <2>3. CASE i \in 1 .. Len(q)
    BY <2>2, <2>3, Concatenation DEF Below
  <2>4. CASE i \notin 1 .. Len(q)
    <3>1. PICK k \in 1 .. Len(r) : i = Len(q) + k
      BY <2>4, Concatenation
    <3>2. k < m /\ k \in DOMAIN r /\ (q \o r)[i] = r[k]
      BY <2>1, <3>1, Concatenation
    <3> QED BY <2>2, <3>2 DEF Rising
  <2> QED BY <2>3, <2>4
<1> QED BY <1>1, <1>2

\* The first records that were made, as many as base, have left the queue; they are
\* written, in the batch, or were pushed out when Room newer ones had been made.
\* The queue holds the others.
LeftQueue(base) ==
  /\ made = Cap(base + Len(queue))
  /\ \A i \in 1 .. Len(queue) : queue[i] = Cap(base + i)
  /\ UpTo(written, base) /\ UpTo(batch, base)
  /\ \A r \in 1 .. MaxRecords :
       r <= base => \/ r \in Range(written) \/ r \in Range(batch)
                    \/ made - r >= Room
  /\ worker = "ended" => due <= Cap(base)

(***************************************************************************)
(* What is in the file, the batch and the queue is in order.  While main   *)
(* waits for anything else the recorder runs.                              *)
(***************************************************************************)
RecordInv ==
  /\ TypeInv
  /\ Len(queue) <= Room
  /\ \E base \in Nat : LeftQueue(base)
  /\ Rising(written) /\ Rising(batch) /\ Below(written, batch)
  /\ worker # "write" => batch = <<>>
  /\ due <= made
  /\ main \in {"serve", "telemetry", "listener"} => recording
  /\ worker \in {"last", "ended"} => ~ recording

LEMMA RecordInit == Init => RecordInv
<1> SUFFICES ASSUME Init PROVE RecordInv
  OBVIOUS
<1>1. /\ queue = <<>> /\ batch = <<>> /\ written = <<>> /\ made = 0 /\ due = 0
      /\ worker = "wait" /\ recording = TRUE
  BY DEF Init
<1>2. Len(queue) = 0 /\ 0 <= Room /\ 0 + 0 = 0
  BY <1>1, AgentAssumption
<1>3. LeftQueue(0)
  BY <1>1, <1>2, CapFacts DEF LeftQueue, UpTo
<1> QED BY <1>1, <1>2, <1>3, TypeInit DEF RecordInv, Rising, Below

\* What RecordInv says of the queue while a record is pushed.
LEMMA RecordPush ==
  ASSUME RecordInv, PushRecord, TypeInv',
         UNCHANGED <<main, recording, worker, batch, written, due>>
  PROVE  RecordInv'
<1>1. /\ made \in Nat /\ queue \in Seq(Nat) /\ Room \in Nat /\ Room >= 1
      /\ made' \in Nat /\ due \in Nat /\ Len(queue) \in Nat /\ Len(queue) <= Room
      /\ written \in Seq(Nat) /\ batch \in Seq(Nat)
  BY AgentAssumption DEF RecordInv, TypeInv, TypeOK
<1>2. PICK base \in Nat : LeftQueue(base)
  BY DEF RecordInv
<1>3. PICK q \in Seq(Nat) : q = Append(queue, made')
  <2>1. Append(queue, made') \in Seq(Nat)
    BY <1>1
  <2> QED BY <2>1
<1>4. Len(q) = Len(queue) + 1 /\ Len(q) \in Nat /\ made' = Cap(base + Len(q))
  <2>1. Len(q) = Len(queue) + 1 /\ Len(q) \in Nat
    BY <1>1, <1>3
  <2>2. made = Cap(base + Len(queue))
    BY <1>2 DEF LeftQueue
  <2>3. made' = IF made < Latest THEN made + 1 ELSE Latest
    BY DEF PushRecord
  <2> QED BY <1>1, <2>1, <2>2, <2>3, CapFacts DEF Cap
<1>5. \A i \in 1 .. Len(q) : q[i] = Cap(base + i)
  <2> SUFFICES ASSUME NEW i \in 1 .. Len(q) PROVE q[i] = Cap(base + i)
    OBVIOUS
  <2>1. CASE i = Len(q)
    BY <1>1, <1>3, <1>4, <2>1
  <2>2. CASE i # Len(q)
    <3>1. i \in 1 .. Len(queue)
      BY <1>4, <2>2
    <3>2. q[i] = queue[i]
      BY <1>1, <1>3, <3>1
    <3> QED BY <1>2, <3>1, <3>2 DEF LeftQueue
  <2> QED BY <2>1, <2>2
<1>6. /\ queue' = Newest(Room, q) /\ queue' \in Seq(Nat)
      /\ Len(queue') = (IF Len(q) <= Room THEN Len(q) ELSE Room)
      /\ \A i \in 1 .. Len(queue') : queue'[i] = q[Len(q) - Len(queue') + i]
  <2>1. queue' = Newest(Room, q)
    BY <1>3 DEF PushRecord
  <2> QED BY <1>1, <2>1, NewestFacts
<1>7. made <= made' /\ due <= made'
  <2>1. made <= made'
    BY <1>1, <1>2, <1>4, CapFacts DEF LeftQueue
  <2>2. due <= made
    BY DEF RecordInv
  <2> QED BY <1>1, <2>1, <2>2
<1>8. PICK n \in Nat : n = Len(queue')
  BY <1>1, <1>4, <1>6
<1>9. PICK b \in Nat : b = base + (Len(q) - n)
  <2>1. base + (Len(q) - n) \in Nat
    BY <1>1, <1>4, <1>6, <1>8
  <2> QED BY <2>1
<1>10. /\ n <= Room /\ n <= Len(q) /\ made' = Cap(b + n)
       /\ base <= b /\ b <= base + 1
       /\ b # base => n = Room
  <2>1. n = (IF Len(q) <= Room THEN Len(q) ELSE Room)
    BY <1>6, <1>8
  <2>2. n <= Room /\ n <= Len(q) /\ Len(q) - n \in {0, 1}
    BY <1>1, <1>4, <2>1
  <2>3. b + n = base + Len(q)
    BY <1>4, <1>9
  <2>4. made' = Cap(b + n)
    BY <1>4, <2>3
  <2>5. base <= b /\ b <= base + 1 /\ (b # base => n = Room)
    BY <1>4, <1>9, <2>1, <2>2
  <2> QED BY <2>2, <2>4, <2>5
<1>11. \A i \in 1 .. n : queue'[i] = Cap(b + i)
  <2> SUFFICES ASSUME NEW i \in 1 .. n PROVE queue'[i] = Cap(b + i)
    OBVIOUS
  <2>1. Len(q) - n + i \in 1 .. Len(q)
    BY <1>4, <1>10
  <2>2. queue'[i] = q[Len(q) - n + i]
    BY <1>6, <1>8
  <2>3. base + (Len(q) - n + i) = b + i
    BY <1>4, <1>9
  <2> QED BY <1>5, <2>1, <2>2, <2>3
<1>12. UpTo(written, b) /\ UpTo(batch, b)
  BY <1>1, <1>2, <1>10, UpToMore DEF LeftQueue
<1>13. ASSUME NEW r \in 1 .. MaxRecords, r <= b
       PROVE  r \in Range(written) \/ r \in Range(batch) \/ made' - r >= Room
  <2>1. CASE r <= base
    <3>1. r \in Range(written) \/ r \in Range(batch) \/ made - r >= Room
      BY <1>2, <2>1 DEF LeftQueue
    <3>2. r \in Nat
      BY CapFacts
    <3>3. made - r >= Room => made' - r >= Room
      <4>1. \A x, y \in Nat : x <= y /\ x - r >= Room => y - r >= Room
        BY <1>1, <3>2
      <4> QED BY <1>1, <1>7, <4>1
    <3> QED BY <3>1, <3>3
  <2>2. CASE ~ (r <= base)
    <3>1. r \in Nat /\ r + Room <= Latest
      BY CapFacts
    <3>2. r = b /\ n = Room
      BY <1>10, <1>13, <2>2, <3>1
    <3>3. made' = r + Room
      BY <1>1, <1>10, <3>1, <3>2, CapFacts
    <3> QED BY <1>1, <3>1, <3>3
  <2> QED BY <2>1, <2>2
<1>14. worker = "ended" => due <= Cap(b)
  <2>1. Cap(base) <= Cap(b) /\ Cap(base) \in Nat /\ Cap(b) \in Nat
    BY <1>10, CapFacts
  <2>2. worker = "ended" => due <= Cap(base)
    BY <1>2 DEF LeftQueue
  <2> QED BY <1>1, <2>1, <2>2
<1>15. LeftQueue(b)'
  BY <1>8, <1>10, <1>11, <1>12, <1>13, <1>14 DEF LeftQueue
<1> QED BY <1>7, <1>8, <1>10, <1>15 DEF RecordInv

\* The batch is the queue; the queue is empty.
LEMMA RecordCollect ==
  ASSUME RecordInv, Collect, TypeInv'
  PROVE  RecordInv'
<1>1. /\ made \in Nat /\ queue \in Seq(Nat) /\ Len(queue) \in Nat
      /\ DOMAIN queue = 1 .. Len(queue) /\ written \in Seq(Nat)
  BY DEF RecordInv, TypeInv, TypeOK
<1>2. /\ batch = <<>> /\ batch' = queue /\ queue' = <<>> /\ Len(queue') = 0
      /\ worker = "wait" /\ worker' = "write"
      /\ UNCHANGED <<main, recording, written, due, made>>
  BY DEF RecordInv, Collect, RecorderFrame
<1>3. PICK base \in Nat : LeftQueue(base)
  BY DEF RecordInv
<1>4. PICK b \in Nat : b = base + Len(queue)
  BY <1>1
<1>5. \A i \in 1 .. Len(queue) : queue[i] = Cap(base + i) /\ queue[i] \in Nat
  BY <1>1, <1>3 DEF LeftQueue
<1>6. Rising(queue)
  <2> SUFFICES ASSUME NEW i \in 1 .. Len(queue), NEW j \in 1 .. Len(queue), i < j,
                      Followed(queue[j])
               PROVE  queue[i] < queue[j]
    BY <1>1 DEF Rising
  <2>1. queue[j] = base + j /\ queue[i] <= base + i
    BY <1>5, CapFacts
  <2> QED BY <1>5, <2>1
<1>7. UpTo(queue, b)
  <2> SUFFICES ASSUME NEW i \in 1 .. Len(queue) PROVE queue[i] <= b
    BY <1>1 DEF UpTo
  <2>1. queue[i] <= base + i
    BY <1>5, CapFacts
  <2> QED BY <1>1, <1>4, <1>5, <2>1
<1>8. UpTo(written, b)
  BY <1>1, <1>3, <1>4, UpToMore DEF LeftQueue
<1>9. Below(written, queue)
  <2> SUFFICES ASSUME NEW i \in DOMAIN written, NEW j \in 1 .. Len(queue),
                      Followed(queue[j])
               PROVE  written[i] < queue[j]
    BY <1>1 DEF Below
  <2>1. written[i] \in Nat /\ written[i] <= base
    BY <1>1, <1>3 DEF LeftQueue, UpTo
  <2>2. queue[j] = base + j
    BY <1>5, CapFacts
  <2> QED BY <2>1, <2>2
<1>10. ASSUME NEW r \in 1 .. MaxRecords, r <= b
       PROVE  r \in Range(written) \/ r \in Range(queue) \/ made - r >= Room
  <2>1. CASE r <= base
    <3>1. Range(batch) = {}
      BY <1>2 DEF Range
    <3> QED BY <1>3, <2>1, <3>1 DEF LeftQueue
  <2>2. CASE ~ (r <= base)
    <3>1. r - base \in 1 .. Len(queue) /\ base + (r - base) = r
      BY <1>1, <1>4, <1>10, <2>2
    <3>2. r \in Nat /\ r <= Latest
      BY CapFacts, AgentAssumption
    <3>3. queue[r - base] = r
      BY <1>5, <3>1, <3>2, CapFacts
    <3> QED BY <1>1, <3>1, <3>3 DEF Range
  <2> QED BY <2>1, <2>2
<1>11. made = Cap(b) /\ b + 0 = b
  BY <1>3, <1>4 DEF LeftQueue
<1>12. LeftQueue(b)'
  BY <1>2, <1>7, <1>8, <1>10, <1>11 DEF LeftQueue
<1>13. Len(queue') <= Room
  BY <1>2, AgentAssumption
<1>14. /\ Rising(written) /\ due <= made
       /\ main \in {"serve", "telemetry", "listener"} => recording
  BY DEF RecordInv
<1> QED BY <1>2, <1>6, <1>9, <1>12, <1>13, <1>14 DEF RecordInv

LEMMA RecordWrite ==
  ASSUME RecordInv, Write, TypeInv'
  PROVE  RecordInv'
<1>1. written \in Seq(Nat) /\ batch \in Seq(Nat)
  BY DEF RecordInv, TypeInv, TypeOK
<1>2. /\ worker = "write" /\ worker' = "test" /\ batch' = <<>>
      /\ \/ written' = written \o batch
         \/ written' = written /\ ~ \E r \in Range(batch) : Followed(r)
      /\ UNCHANGED <<main, recording, queue, due, made>>
  BY DEF Write, RecorderFrame
<1>3. /\ Range(written') \subseteq Range(written) \cup Range(batch)
      /\ \A r \in 1 .. MaxRecords :
           r \in Range(written) \/ r \in Range(batch) => r \in Range(written')
  <2>1. Range(written \o batch) = Range(written) \cup Range(batch)
    BY <1>1, Concatenation
  <2>2. \A r \in 1 .. MaxRecords : Followed(r)
    BY AgentAssumption DEF Followed
  <2> QED BY <1>2, <2>1, <2>2
<1>4. Rising(written')
  BY <1>1, <1>2, JoinRising DEF RecordInv
<1>5. Rising(batch') /\ Below(written', batch')
  BY <1>2 DEF Rising, Below
<1>6. PICK base \in Nat : LeftQueue(base)
  BY DEF RecordInv
<1>7. UpTo(written', base) /\ UpTo(batch', base)
  <2>1. \A x \in Range(written) \cup Range(batch) : x <= base
    BY <1>6 DEF LeftQueue, Range, UpTo
  <2> QED BY <1>2, <1>3, <2>1 DEF Range, UpTo
<1>8. LeftQueue(base)'
  BY <1>2, <1>3, <1>6, <1>7 DEF LeftQueue
<1>9. /\ Len(queue) <= Room /\ due <= made
      /\ main \in {"serve", "telemetry", "listener"} => recording
  BY DEF RecordInv
<1> QED BY <1>2, <1>4, <1>5, <1>8, <1>9 DEF RecordInv

\* A step that leaves the recorder alone, or moves only its control or main.
LEMMA RecordControl ==
  ASSUME RecordInv, TypeInv',
         UNCHANGED <<made, queue, written, batch>>,
         \/ UNCHANGED <<recording, worker, due>> /\ main' = main
         \/ UNCHANGED <<recording, worker, due>>
            /\ main' \notin {"serve", "telemetry", "listener"}
         \/ UNCHANGED <<recording, worker, due>>
            /\ main \in {"serve", "telemetry", "listener"}
         \/ StopRecorder \/ TestRunning \/ TestQueue
  PROVE  RecordInv'
<1>1. /\ made \in Nat /\ Len(queue) \in Nat /\ queue \in Seq(Nat)
  BY DEF RecordInv, TypeInv, TypeOK
<1>2. PICK base \in Nat : LeftQueue(base)
  BY DEF RecordInv
<1>3. CASE /\ UNCHANGED <<recording, worker, due>>
           /\ \/ main' = main
              \/ main' \notin {"serve", "telemetry", "listener"}
              \/ main \in {"serve", "telemetry", "listener"}
  <2>1. LeftQueue(base)'
    BY <1>2, <1>3 DEF LeftQueue
  <2> QED BY <1>3, <2>1 DEF RecordInv
<1>4. CASE TestRunning
  <2>1. /\ worker = "test" /\ UNCHANGED <<main, recording, due>>
        /\ worker' = IF recording THEN "wait" ELSE "last"
    BY <1>4 DEF TestRunning, RecorderFrame
  <2>2. LeftQueue(base)'
    BY <1>2, <2>1 DEF LeftQueue
  <2> QED BY <2>1, <2>2 DEF RecordInv
<1>5. CASE TestQueue
  <2>1. /\ UNCHANGED <<main, recording, due>> /\ worker = "last"
        /\ worker' = IF queue = <<>> THEN "ended" ELSE "wait"
    BY <1>5 DEF TestQueue, RecorderFrame
  <2>2. worker' = "ended" => made = Cap(base)
    <3>1. queue = <<>> => base + Len(queue) = base
      OBVIOUS
    <3> QED BY <1>2, <2>1, <3>1 DEF LeftQueue
  <2>3. due <= made
    BY DEF RecordInv
  <2>4. LeftQueue(base)'
    BY <1>2, <2>1, <2>2, <2>3 DEF LeftQueue
  <2> QED BY <2>1, <2>4 DEF RecordInv
<1>6. CASE StopRecorder
  <2>1. /\ main = "listener" /\ main' = "recorder" /\ worker' = worker
        /\ recording' = FALSE /\ due' = made
    BY <1>6 DEF StopRecorder, Goto
  <2>2. worker # "ended"
    BY <2>1 DEF RecordInv
  <2>3. LeftQueue(base)'
    BY <1>2, <2>1, <2>2 DEF LeftQueue
  <2> QED BY <1>1, <2>1, <2>3 DEF RecordInv
<1> QED BY <1>3, <1>4, <1>5, <1>6

LEMMA RecordStep == RecordInv /\ [Next]_vars => RecordInv'
<1> SUFFICES ASSUME RecordInv, [Next]_vars PROVE RecordInv'
  OBVIOUS
<1>1. TypeInv /\ TypeInv'
  BY TypeStep DEF RecordInv
<1> USE DEF recorder, records
<1>2. ASSUME NEW s \in Steps,
             FindBusy(s) \/ Enter(s) \/ Log(s) \/ Segment(s) \/ Leave(s)
           \/ AddStep(s)
      PROVE  RecordInv'
  <2>1. CASE Segment(s) \/ Leave(s)
    BY <1>1, <2>1, RecordPush DEF Segment, Leave
  <2>2. CASE FindBusy(s) \/ Enter(s) \/ Log(s) \/ AddStep(s)
    BY <1>1, <2>2, RecordControl DEF FindBusy, Enter, Log, AddStep
  <2> QED BY <1>2, <2>1, <2>2
<1>3. CASE Listen \/ Run \/ Pause("pause") \/ Pause("load") \/ Serve
  <2>1. UNCHANGED <<main, recorder, records>>
    BY <1>3 DEF Listen, Run, Pause, Serve, PauseReturns, Cleared, LoadReturns,
         LoadHangs, ListenerEnds
  <2> QED BY <1>1, <2>1, RecordControl
<1>4. CASE Telemetry
  <2>1. UNCHANGED <<main, recorder, records>>
    BY <1>4 DEF Telemetry, RegisterAgent, Report, GetStep, TakeLogs, TakeGone, Post,
         StopReporting, TelemetryFrame
  <2> QED BY <1>1, <2>1, RecordControl
<1>5. CASE Notice \/ Monitor \/ Race
  <2>1. /\ UNCHANGED <<recorder, records>>
        /\ main' = main \/ main' \notin {"serve", "telemetry", "listener"}
    BY <1>5 DEF Notice, Monitor, Kill, TakeOut, Reopen, Make, Restart, Release,
         Destroyed, Made, Called, WatchEnds, StepIsLost, Race, Crash, MonitorFrame
  <2> QED BY <1>1, <2>1, RecordControl
<1>6. CASE Recorder
  <2>1. CASE Collect \/ Write
    BY <1>1, <2>1, RecordCollect, RecordWrite
  <2>2. CASE TestRunning \/ TestQueue
    BY <1>1, <2>2, RecordControl DEF TestRunning, TestQueue, RecorderFrame
  <2> QED BY <1>6, <2>1, <2>2 DEF Recorder
<1>7. CASE StopServer \/ Shutdown
  <2>1. CASE StopRecorder
    BY <1>1, <2>1, RecordControl DEF StopRecorder
  <2>2. CASE ~ StopRecorder
    <3>1. /\ UNCHANGED <<recorder, records>>
          /\ \/ main \in {"serve", "telemetry", "listener"}
             \/ main' \notin {"serve", "telemetry", "listener"}
      BY <1>7, <2>2 DEF StopServer, Shutdown, CloseServer, StopSteps, TakeSteps,
           ClearReturns, PoolEnds, Exit, Goto
    <3> QED BY <1>1, <3>1, RecordControl
  <2> QED BY <2>1, <2>2
<1>8. CASE UNCHANGED vars
  BY <1>1, <1>8, RecordControl DEF vars
<1> QED BY <1>2, <1>3, <1>4, <1>5, <1>6, <1>7, <1>8 DEF Next

\* The recorder writes every record once and in order unless Room later ones
\* pushed it out, and ends with nothing left that was pushed before stop().
THEOREM RecordsAreWritten == Spec => []RecordsWritten
<1>1. ASSUME RecordInv PROVE RecordsWritten
  <2>1. /\ made \in Nat /\ queue \in Seq(Nat) /\ Len(queue) \in Nat /\ due \in Nat
        /\ written \in Seq(Nat) /\ batch \in Seq(Nat)
        /\ DOMAIN queue = 1 .. Len(queue)
    BY <1>1 DEF RecordInv, TypeInv, TypeOK
  <2>2. PICK base \in Nat : LeftQueue(base)
    BY <1>1 DEF RecordInv
  <2>3. PICK front \in Seq(Nat) :
          /\ front = written \o batch /\ Rising(front)
          /\ Range(front) = Range(written) \cup Range(batch)
    BY <1>1, <2>1, JoinRising, Concatenation DEF RecordInv
  <2>4. \A i \in 1 .. Len(queue) : queue[i] = Cap(base + i) /\ queue[i] \in Nat
    BY <2>1, <2>2 DEF LeftQueue
  <2>5. Rising(queue)
    <3> SUFFICES ASSUME NEW i \in 1 .. Len(queue), NEW j \in 1 .. Len(queue), i < j,
                        Followed(queue[j])
                 PROVE  queue[i] < queue[j]
      BY <2>1 DEF Rising
    <3>1. queue[j] = base + j /\ queue[i] <= base + i
      BY <2>4, CapFacts
    <3> QED BY <2>4, <3>1
  <2>6. Below(front, queue)
    <3> SUFFICES ASSUME NEW i \in DOMAIN front, NEW j \in 1 .. Len(queue),
                        Followed(queue[j])
                 PROVE  front[i] < queue[j]
      BY <2>1 DEF Below
    <3>1. front[i] \in Nat /\ front[i] \in Range(front)
      BY DEF Range
    <3>2. front[i] <= base
      BY <2>2, <2>3, <3>1 DEF LeftQueue, Range, UpTo
    <3>3. queue[j] = base + j
      BY <2>4, CapFacts
    <3> QED BY <3>1, <3>2, <3>3
  <2>7. /\ Rising(front \o queue)
        /\ Range(front \o queue) = Range(front) \cup Range(queue)
    BY <2>1, <2>3, <2>5, <2>6, JoinRising, Concatenation
  <2>8. ASSUME NEW r \in 1 .. MaxRecords, r <= made
        PROVE  r \in Range(front \o queue) \/ made - r >= Room
    <3>1. CASE r <= base
      BY <2>2, <2>3, <2>7, <3>1 DEF LeftQueue
    <3>2. CASE ~ (r <= base)
      <4>1. made <= base + Len(queue)
        BY <2>1, <2>2, CapFacts DEF LeftQueue
      <4>2. r - base \in 1 .. Len(queue) /\ base + (r - base) = r /\ r \in Nat
        BY <2>1, <2>8, <3>2, <4>1
      <4>3. r <= Latest
        BY CapFacts, AgentAssumption
      <4>4. queue[r - base] = r
        BY <2>4, <4>2, <4>3, CapFacts
      <4>5. r \in Range(queue)
        BY <2>1, <4>2, <4>4 DEF Range
      <4> QED BY <2>7, <4>5
    <3> QED BY <3>1, <3>2
  <2>9. ASSUME worker = "ended", NEW r \in Range(batch \o queue), Followed(r)
        PROVE  r > due
    <3>1. batch = <<>> /\ due <= Cap(base)
      BY <1>1, <2>2, <2>9 DEF RecordInv, LeftQueue
    <3>2. r \in Range(queue)
      <4>1. batch \o queue = queue
        BY <2>1, <3>1
      <4> QED BY <2>9, <4>1
    <3>3. PICK i \in 1 .. Len(queue) : r = queue[i]
      BY <2>1, <3>2 DEF Range
    <3>4. base + i \in Nat /\ Followed(Cap(base + i)) /\ r = Cap(base + i)
      BY <2>4, <2>9, <3>3
    <3>5. r = base + i
      BY <3>4, CapFacts
    <3>6. Cap(base) <= base /\ Cap(base) \in Nat
      BY CapFacts
    <3> QED BY <2>1, <3>1, <3>5, <3>6
  <2> QED BY <2>3, <2>7, <2>8, <2>9 DEF RecordsWritten, Rising
<1> QED BY RecordInit, RecordStep, <1>1, PTL DEF Spec

-----------------------------------------------------------------------------
(* What the orchestrator gets *)

\* The part of a log that went with its step while the telemetry thread held it.
Old(s) == IF telemetry = "gone" /\ held = s THEN gone ELSE <<>>

\* Four lists of numbers in ascending order, one after the other, up to n.
InOrder(a, b, c, d, n) ==
  /\ Increasing(a) /\ Increasing(b) /\ Increasing(c) /\ Increasing(d)
  /\ \A x \in Range(a), y \in Range(b) \cup Range(c) \cup Range(d) : x < y
  /\ \A x \in Range(b), y \in Range(c) \cup Range(d) : x < y
  /\ \A x \in Range(c), y \in Range(d) : x < y
  /\ \A x \in Range(a) \cup Range(b) \cup Range(c) \cup Range(d) : x <= n

LogInv ==
  /\ TypeInv
  /\ \A s \in Steps :
       InOrder(received[s], payload[s], Old(s), logs[s], logged[s])

LEMMA EmptyFacts == Range(<<>>) = {} /\ Increasing(<<>>) /\ <<>> \in Seq(Nat)
BY DEF Range, Increasing

LEMMA JoinInOrder ==
  ASSUME NEW q \in Seq(Nat), NEW r \in Seq(Nat), Increasing(q), Increasing(r),
         \A x \in Range(q), y \in Range(r) : x < y
  PROVE  /\ Increasing(q \o r) /\ q \o r \in Seq(Nat)
         /\ Range(q \o r) = Range(q) \cup Range(r)
<1>1. \A i \in DOMAIN q, j \in DOMAIN r : q[i] < r[j]
  BY DEF Range
<1> SUFFICES ASSUME NEW i \in 1 .. Len(q) + Len(r), NEW j \in 1 .. Len(q) + Len(r),
                    i < j
             PROVE  (q \o r)[i] < (q \o r)[j]
  BY Concatenation DEF Increasing
<1>2. CASE j \in 1 .. Len(q)
  <2>1. i \in 1 .. Len(q)
    BY <1>2, Concatenation
  <2> QED BY <1>2, <2>1, Concatenation DEF Increasing
<1>3. CASE j \notin 1 .. Len(q)
  <2>1. PICK m \in 1 .. Len(r) : j = Len(q) + m
    BY <1>3, Concatenation
  <2>2. (q \o r)[j] = r[m] /\ m \in DOMAIN r
    BY <2>1, Concatenation
  <2>3. CASE i \in 1 .. Len(q)
    BY <1>1, <2>2, <2>3, Concatenation
  <2>4. CASE i \notin 1 .. Len(q)
    <3>1. PICK k \in 1 .. Len(r) : i = Len(q) + k
      BY <2>4, Concatenation
    <3>2. k < m /\ k \in DOMAIN r /\ (q \o r)[i] = r[k]
      BY <2>1, <3>1, Concatenation
    <3> QED BY <2>2, <3>2 DEF Increasing
  <2> QED BY <2>3, <2>4
<1> QED BY <1>2, <1>3

\* The positions before the last of a sequence that has one element more.
LEMMA Before ==
  ASSUME NEW m \in Nat, NEW k \in 1 .. m + 1
  PROVE  /\ k # m + 1 => k \in 1 .. m
         /\ \A j \in 1 .. m + 1 : k < j => k \in 1 .. m
OBVIOUS

\* An entry is made, and the oldest may go.
LEMMA NewestInOrder ==
  ASSUME NEW d \in Seq(Nat), NEW n \in Nat, Increasing(d),
         \A x \in Range(d) : x <= n
  PROVE  /\ Increasing(Newest(LogRoom, Append(d, n + 1)))
         /\ Range(Newest(LogRoom, Append(d, n + 1))) \subseteq Range(d) \cup {n + 1}
<1>1. PICK q \in Seq(Nat) : q = Append(d, n + 1)
  <2>1. Append(d, n + 1) \in Seq(Nat)
    OBVIOUS
  <2> QED BY <2>1
<1>2. /\ Len(q) = Len(d) + 1 /\ Len(d) \in Nat /\ q[Len(q)] = n + 1
      /\ DOMAIN q = 1 .. Len(q) /\ DOMAIN d = 1 .. Len(d)
      /\ \A i \in 1 .. Len(d) : q[i] = d[i]
  BY <1>1
<1>3. \A i \in DOMAIN q : q[i] \in Range(d) \cup {n + 1}
  <2> SUFFICES ASSUME NEW i \in 1 .. Len(q) PROVE q[i] \in Range(d) \cup {n + 1}
    BY <1>2
  <2>1. CASE i = Len(q)
    BY <1>2, <2>1
  <2>2. CASE i # Len(q)
    <3>1. i \in 1 .. Len(d)
      BY <1>2, <2>2, Before
    <3> QED BY <1>2, <3>1 DEF Range
  <2> QED BY <2>1, <2>2
<1>4. \A i, j \in DOMAIN q : i < j => q[i] < q[j]
  <2> SUFFICES ASSUME NEW i \in 1 .. Len(q), NEW j \in 1 .. Len(q), i < j
               PROVE  q[i] < q[j]
    BY <1>2
  <2>1. i \in 1 .. Len(d) /\ q[i] = d[i] /\ d[i] \in Nat /\ d[i] <= n
    <3>1. i \in 1 .. Len(d)
      BY <1>2, Before
    <3>2. i \in DOMAIN d /\ d[i] \in Nat /\ q[i] = d[i]
      BY <1>2, <3>1
    <3>3. d[i] \in Range(d)
      BY <3>2 DEF Range
    <3> QED BY <3>1, <3>2, <3>3
  <2>2. CASE j = Len(q)
    BY <1>2, <2>1, <2>2
  <2>3. CASE j # Len(q)
    <3>1. j \in 1 .. Len(d)
      BY <1>2, <2>3, Before
    <3>2. q[j] = d[j] /\ i \in DOMAIN d /\ j \in DOMAIN d
      BY <1>2, <2>1, <3>1
    <3> QED BY <2>1, <3>2 DEF Increasing
  <2> QED BY <2>2, <2>3
<1>5. PICK r \in Seq(Nat) : r = Newest(LogRoom, q)
  <2>1. LogRoom \in Nat
    BY AgentAssumption
  <2>2. Newest(LogRoom, q) \in Seq(Nat)
    BY <2>1, NewestFacts
  <2> QED BY <2>2
<1>6. /\ Len(r) \in Nat /\ Len(r) <= Len(q) /\ DOMAIN r = 1 .. Len(r)
      /\ \A i \in 1 .. Len(r) : r[i] = q[Len(q) - Len(r) + i]
  <2>1. LogRoom \in Nat
    BY AgentAssumption
  <2>2. /\ Len(r) = (IF Len(q) <= LogRoom THEN Len(q) ELSE LogRoom)
        /\ \A i \in 1 .. Len(r) : r[i] = q[Len(q) - Len(r) + i]
    BY <1>5, <2>1, NewestFacts
  <2>3. Len(r) \in Nat /\ Len(q) \in Nat /\ DOMAIN r = 1 .. Len(r)
    OBVIOUS
  <2>4. Len(r) <= Len(q)
    BY <2>1, <2>2, <2>3
  <2> QED BY <2>2, <2>3, <2>4
<1>7. \A i \in DOMAIN r : Len(q) - Len(r) + i \in DOMAIN q
  BY <1>2, <1>6
<1>8. Increasing(r)
  <2> SUFFICES ASSUME NEW i \in DOMAIN r, NEW j \in DOMAIN r, i < j PROVE r[i] < r[j]
    BY DEF Increasing
  <2>1. Len(q) - Len(r) + i < Len(q) - Len(r) + j
    BY <1>2, <1>6
  <2> QED BY <1>4, <1>6, <1>7, <2>1
<1>9. Range(r) \subseteq Range(d) \cup {n + 1}
  BY <1>3, <1>6, <1>7 DEF Range
<1> QED BY <1>1, <1>5, <1>8, <1>9

\* The moves of entries: out of a log, into a report, to the orchestrator.
LEMMA Moves ==
  ASSUME NEW a \in Seq(Nat), NEW b \in Seq(Nat), NEW c \in Seq(Nat),
         NEW d \in Seq(Nat), NEW n \in Nat, InOrder(a, b, c, d, n)
  PROVE  /\ InOrder(a, b, c, <<>>, n)
         /\ c = <<>> => InOrder(a, b, d, <<>>, n)
         /\ c = <<>> => InOrder(a, b \o d, <<>>, <<>>, n)
         /\ InOrder(a, b \o c, <<>>, d, n)
         /\ InOrder(a \o b, <<>>, c, d, n)
         /\ InOrder(a, <<>>, c, d, n)
         /\ InOrder(a, b, c, Newest(LogRoom, Append(d, n + 1)), n + 1)
<1> USE EmptyFacts
<1>1. InOrder(a, b, c, <<>>, n) /\ InOrder(a, <<>>, c, d, n)
  BY DEF InOrder
<1>2. c = <<>> => InOrder(a, b, d, <<>>, n)
  BY DEF InOrder
<1>3. InOrder(a, b \o d, <<>>, <<>>, n)
  <2>1. Increasing(b \o d) /\ Range(b \o d) = Range(b) \cup Range(d)
    BY JoinInOrder DEF InOrder
  <2> QED BY <2>1 DEF InOrder
<1>4. InOrder(a, b \o c, <<>>, d, n)
  <2>1. Increasing(b \o c) /\ Range(b \o c) = Range(b) \cup Range(c)
    BY JoinInOrder DEF InOrder
  <2> QED BY <2>1 DEF InOrder
<1>5. InOrder(a \o b, <<>>, c, d, n)
  <2>1. Increasing(a \o b) /\ Range(a \o b) = Range(a) \cup Range(b)
    BY JoinInOrder DEF InOrder
  <2> QED BY <2>1 DEF InOrder
<1>6. InOrder(a, b, c, Newest(LogRoom, Append(d, n + 1)), n + 1)
  <2>1. PICK e : e = Newest(LogRoom, Append(d, n + 1))
    OBVIOUS
  <2>2. Increasing(e) /\ Range(e) \subseteq Range(d) \cup {n + 1}
    BY <2>1, NewestInOrder DEF InOrder
  <2>3. \A q \in {a, b, c, d} : \A x \in Range(q) : x \in Nat /\ x <= n
    BY DEF InOrder, Range
  <2>4. \A q \in {a, b, c, d} : \A x \in Range(q) : x < n + 1 /\ x <= n + 1
    BY <2>3
  <2>5. InOrder(a, b, c, e, n + 1)
    BY <2>2, <2>4 DEF InOrder
  <2> QED BY <2>1, <2>5
<1> QED BY <1>1, <1>2, <1>3, <1>4, <1>5, <1>6

LEMMA LogInit == Init => LogInv
<1> SUFFICES ASSUME Init PROVE LogInv
  OBVIOUS
<1>1. \A s \in Steps : received[s] = <<>> /\ payload[s] = <<>> /\ Old(s) = <<>>
                           /\ logs[s] = <<>>
  BY DEF Init, Empty, Old
<1> QED BY <1>1, TypeInit, EmptyFacts DEF LogInv, InOrder

\* The types of what InOrder is said of.
LEMMA LogTypes ==
  ASSUME TypeInv, NEW s \in Steps
  PROVE  /\ received[s] \in Seq(Nat) /\ payload[s] \in Seq(Nat)
         /\ Old(s) \in Seq(Nat) /\ logs[s] \in Seq(Nat) /\ logged[s] \in Nat
BY DEF TypeInv, TypeOK, Old

LEMMA LogDrop ==
  ASSUME LogInv, DropSteps, NEW s \in Steps
  PROVE  InOrder(received'[s], payload'[s], Old(s)', logs'[s], logged'[s])
<1>1. /\ received' = received /\ payload' = payload /\ held' = held
      /\ logs'[s] = <<>> /\ logged' = logged
  BY DEF DropSteps, Empty
<1>2. InOrder(received[s], payload[s], Old(s), logs[s], logged[s])
  BY DEF LogInv
<1>3. InOrder(received[s], payload[s], Old(s), <<>>, logged[s])
  BY <1>2, LogTypes, Moves DEF LogInv
<1>4. CASE telemetry = "logs" /\ held = s
  <2>1. Old(s) = <<>> /\ Old(s)' = logs[s]
    BY <1>1, <1>4 DEF DropSteps, Old
  <2>2. InOrder(received[s], payload[s], logs[s], <<>>, logged[s])
    BY <1>2, <2>1, LogTypes, Moves DEF LogInv
  <2> QED BY <1>1, <2>1, <2>2
<1>5. CASE ~ (telemetry = "logs" /\ held = s)
  <2>1. Old(s)' = Old(s)
    BY <1>1, <1>5 DEF DropSteps, Old
  <2> QED BY <1>1, <1>3, <2>1
<1> QED BY <1>4, <1>5

LEMMA LogStep == LogInv /\ [Next]_vars => LogInv'
<1> SUFFICES ASSUME LogInv, [Next]_vars PROVE LogInv'
  OBVIOUS
<1>1. TypeInv /\ TypeInv'
  BY TypeStep DEF LogInv
<1> SUFFICES ASSUME NEW s \in Steps
             PROVE  InOrder(received'[s], payload'[s], Old(s)', logs'[s], logged'[s])
  BY <1>1 DEF LogInv
<1>2. InOrder(received[s], payload[s], Old(s), logs[s], logged[s])
  BY DEF LogInv
<1>3. /\ received[s] \in Seq(Nat) /\ payload[s] \in Seq(Nat)
      /\ Old(s) \in Seq(Nat) /\ logs[s] \in Seq(Nat) /\ logged[s] \in Nat
  BY <1>1, LogTypes
<1> USE DEF reports, entries
<1>4. CASE UNCHANGED <<reports, logs, logged>>
  BY <1>2, <1>4 DEF Old
<1>5. ASSUME NEW t \in Steps,
             FindBusy(t) \/ Enter(t) \/ Log(t) \/ Segment(t) \/ Leave(t) \/ AddStep(t)
      PROVE  InOrder(received'[s], payload'[s], Old(s)', logs'[s], logged'[s])
  <2>1. CASE Log(t) /\ t = s
    <3>1. logged'[s] = logged[s] + 1
          /\ logs'[s] = Newest(LogRoom, Append(logs[s], logged[s] + 1))
      BY <1>1, <2>1 DEF Log, TypeInv, TypeOK
    <3>2. received' = received /\ payload' = payload /\ Old(s)' = Old(s)
      BY <2>1 DEF Log, Old
    <3> QED BY <1>2, <1>3, <3>1, <3>2, Moves
  <2>2. CASE Log(t) /\ t # s
    <3>1. logged'[s] = logged[s] /\ logs'[s] = logs[s]
      BY <1>1, <2>2 DEF Log, TypeInv, TypeOK
    <3>2. received' = received /\ payload' = payload /\ Old(s)' = Old(s)
      BY <2>2 DEF Log, Old
    <3> QED BY <1>2, <3>1, <3>2
  <2>3. CASE FindBusy(t) \/ Enter(t) \/ Segment(t) \/ Leave(t) \/ AddStep(t)
    BY <1>4, <2>3 DEF FindBusy, Enter, Segment, Leave, AddStep
  <2> QED BY <1>5, <2>1, <2>2, <2>3
<1>6. CASE Listen \/ Run \/ Pause("pause") \/ Pause("load") \/ Serve
  <2>1. CASE Cleared
    BY <2>1, LogDrop DEF Cleared
  <2>2. CASE ~ Cleared
    BY <1>4, <1>6, <2>2 DEF Listen, Run, Pause, Serve, PauseReturns, LoadReturns,
         LoadHangs, ListenerEnds
  <2> QED BY <2>1, <2>2
<1>7. CASE Telemetry
  <2> USE DEF TelemetryFrame
  <2>1. logged' = logged
    BY <1>7 DEF Telemetry, RegisterAgent, Report, GetStep, TakeLogs, TakeGone, Post,
         StopReporting
  <2>2. CASE RegisterAgent \/ Report \/ GetStep \/ StopReporting
    <3>1. /\ received' = received /\ payload' = payload /\ logs' = logs
          /\ Old(s)' = Old(s)
      BY <2>2 DEF RegisterAgent, Report, GetStep, StopReporting, Continue, Old
    <3> QED BY <1>2, <2>1, <3>1
  <2>3. CASE TakeLogs
    <3>1. Old(s) = <<>> /\ Old(s)' = <<>> /\ received' = received
      BY <2>3 DEF TakeLogs, Continue, Old
    <3>2. CASE s = held
      <4>1. payload'[s] = payload[s] \o logs[s] /\ logs'[s] = <<>>
        BY <1>1, <2>3, <3>2 DEF TakeLogs, TypeInv, TypeOK
      <4> QED BY <1>2, <1>3, <2>1, <3>1, <4>1, Moves
    <3>3. CASE s # held
      <4>1. payload'[s] = payload[s] /\ logs'[s] = logs[s]
        BY <1>1, <2>3, <3>3 DEF TakeLogs, TypeInv, TypeOK
      <4> QED BY <1>2, <2>1, <3>1, <4>1
    <3> QED BY <3>2, <3>3
  <2>4. CASE TakeGone
    <3>1. Old(s)' = <<>> /\ received' = received /\ logs' = logs
      BY <2>4 DEF TakeGone, Continue, Old
    <3>2. CASE s = held
      <4>1. payload'[s] = payload[s] \o Old(s)
        BY <1>1, <2>4, <3>2 DEF TakeGone, TypeInv, TypeOK, Old
      <4> QED BY <1>2, <1>3, <2>1, <3>1, <4>1, Moves
    <3>3. CASE s # held
      <4>1. payload'[s] = payload[s] /\ Old(s) = <<>>
        BY <1>1, <2>4, <3>3 DEF TakeGone, TypeInv, TypeOK, Old
      <4> QED BY <1>2, <2>1, <3>1, <4>1
    <3> QED BY <3>2, <3>3
  <2>5. CASE Post
    <3>1. /\ Old(s)' = Old(s) /\ logs' = logs /\ payload'[s] = <<>>
          /\ \/ received'[s] = received[s] \o payload[s]
             \/ received'[s] = received[s]
      BY <2>5 DEF Post, Continue, Old, Empty
    <3> QED BY <1>2, <1>3, <2>1, <3>1, Moves
  <2> QED BY <1>7, <2>2, <2>3, <2>4, <2>5 DEF Telemetry
<1>8. CASE Recorder
  BY <1>4, <1>8 DEF Recorder, Collect, Write, TestRunning, TestQueue, RecorderFrame
<1>9. CASE StopServer \/ Shutdown
  <2>1. CASE StopServer
    BY <1>2, <2>1 DEF StopServer, Old
  <2>2. CASE TakeSteps
    BY <2>2, LogDrop DEF TakeSteps
  <2>3. CASE CloseServer \/ StopRecorder \/ StopSteps \/ ClearReturns \/ PoolEnds \/ Exit
    BY <1>4, <2>3 DEF CloseServer, StopRecorder, StopSteps, ClearReturns, PoolEnds,
         Exit
  <2> QED BY <1>9, <2>1, <2>2, <2>3 DEF Shutdown
<1>10. CASE Notice \/ Monitor \/ Race
  <2>1. CASE TakeOut
    <3>1. /\ logs' = [logs EXCEPT ![grip] = <<>>]
          /\ UNCHANGED <<reports, logged>>
      BY <2>1 DEF TakeOut, MonitorFrame
    <3>2. logs'[s] = logs[s] \/ logs'[s] = <<>>
      BY <1>1, <3>1 DEF TypeInv, TypeOK
    <3>3. Old(s)' = Old(s)
      BY <3>1 DEF Old
    <3> QED BY <1>2, <1>3, <3>1, <3>2, <3>3, Moves
  <2>2. CASE ~ TakeOut
    <3>1. UNCHANGED <<reports, logs, logged>>
      BY <1>10, <2>2 DEF Notice, Monitor, Kill, Reopen, Make, Restart, Release,
           Destroyed, Made, Called, WatchEnds, StepIsLost, Race, Crash, MonitorFrame
    <3> QED BY <1>4, <3>1
  <2> QED BY <2>1, <2>2
<1>11. CASE UNCHANGED vars
  BY <1>4, <1>11 DEF vars
<1> QED BY <1>5, <1>6, <1>7, <1>8, <1>9, <1>10, <1>11 DEF Next

\* The orchestrator gets the entries of a log in the order they were made, and
\* none twice, through reports that fail, and steps that are dropped and nodes that
\* are replaced meanwhile.
THEOREM NoEntryTwice == Spec => []LogsOnce
<1>1. ASSUME LogInv PROVE LogsOnce
  <2> SUFFICES ASSUME NEW s \in Steps
               PROVE  Increasing(received[s] \o payload[s] \o Old(s) \o logs[s])
    BY DEF LogsOnce, Old
  <2>1. /\ received[s] \in Seq(Nat) /\ payload[s] \in Seq(Nat)
        /\ Old(s) \in Seq(Nat) /\ logs[s] \in Seq(Nat)
    BY <1>1, LogTypes DEF LogInv
  <2>2. InOrder(received[s], payload[s], Old(s), logs[s], logged[s])
    BY <1>1 DEF LogInv
  <2>3. PICK q \in Seq(Nat) :
          /\ q = received[s] \o payload[s] /\ Increasing(q)
          /\ Range(q) = Range(received[s]) \cup Range(payload[s])
    BY <2>1, <2>2, JoinInOrder DEF InOrder
  <2>4. PICK r \in Seq(Nat) :
          /\ r = q \o Old(s) /\ Increasing(r)
          /\ Range(r) = Range(q) \cup Range(Old(s))
    BY <2>1, <2>2, <2>3, JoinInOrder DEF InOrder
  <2>5. Increasing(r \o logs[s])
    BY <2>1, <2>2, <2>3, <2>4, JoinInOrder DEF InOrder
  <2> QED BY <2>3, <2>4, <2>5
<1> QED BY LogInit, LogStep, <1>1, PTL DEF Spec
=============================================================================
