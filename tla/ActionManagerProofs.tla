------------------------ MODULE ActionManagerProofs ------------------------
(***************************************************************************)
(* With patient commanders fins::ActionManager hands an actor one goal at  *)
(* a time, with the session that was made for it, and a session gives one  *)
(* result: for any commanders and actions.  The key of the argument is     *)
(* active_sessions_: a session that waits for its actor, or that its actor *)
(* has begun, is the one recorded for its action, so that an action has at *)
(* most one such session, and is_executing tells which of the two it is.   *)
(* Without Patient a second session takes the record of the first.         *)
(***************************************************************************)
EXTENDS ActionManager, TLAPS

\* The types the argument needs.
Types ==
  /\ actor \in [Actions -> {"absent", "ready", "executing"}]
  /\ active \in [Actions -> Sessions \cup {None}]
  /\ made \in 0 .. MaxGoals
  /\ name \in [Sessions -> Actions \cup {None}]
  /\ finish \in [Sessions -> {"none", "result", "complete"}]
  /\ results \in [Sessions -> Nat]
  /\ held \subseteq Sessions
  /\ goals \in Seq(Sessions)
  /\ sending \in [Commanders -> Sessions \cup {None}]
  /\ worker \in {"lookup", "callback"} => task \in Sessions

\* A session that has been made has an action; the others are blank.
Blank ==
  \A s \in Sessions :
    IF s <= made THEN name[s] \in Actions ELSE results[s] = 0 /\ s \notin lost

\* The places a session passes through before its actor begins it.
Sent(s) == \E c \in Commanders : sending[c] = s
Queued(s) == \E i \in DOMAIN goals : goals[i] = s
Taken(s) == worker = "lookup" /\ task = s
Waiting(s) == Sent(s) \/ Queued(s) \/ Taken(s)

\* Those it passes through from then on.
Begun(s) == (worker = "callback" /\ task = s) \/ s \in held \/ finish[s] # "none"

\* A session waits in one place.
OnePlace ==
  /\ \A c, d \in Commanders : sending[c] # None /\ sending[c] = sending[d] => c = d
  /\ \A i, j \in DOMAIN goals : goals[i] = goals[j] => i = j
  /\ \A s \in Sessions : /\ Sent(s) => ~ Queued(s) /\ ~ Taken(s)
                         /\ Queued(s) => ~ Taken(s)

WaitingIsActive ==
  \A s \in Sessions : Waiting(s) =>
    /\ s <= made /\ s \notin lost /\ results[s] = 0
    /\ active[name[s]] = s /\ actor[name[s]] # "executing"

BegunIsActive ==
  \A s \in Sessions : Begun(s) =>
    s <= made /\ active[name[s]] = s /\ actor[name[s]] = "executing"

\* A session is begun in one place, and has no result before the call of its
\* result callback.
NoResultYet ==
  /\ worker = "callback" =>
       task \notin held /\ finish[task] = "none" /\ results[task] = 0
  /\ \A s \in held : finish[s] = "none" /\ results[s] = 0
  /\ \A s \in Sessions : finish[s] = "result" => results[s] = 0

GoalInv ==
  /\ Types /\ Blank /\ OnePlace /\ WaitingIsActive /\ BegunIsActive /\ NoResultYet
  /\ OneResult

-----------------------------------------------------------------------------
\* A goal that is appended is queued besides those that were.
LEMMA Appended ==
  ASSUME goals \in Seq(Sessions), NEW s \in Sessions, goals' = Append(goals, s)
  PROVE  /\ goals' \in Seq(Sessions)
         /\ DOMAIN goals' = DOMAIN goals \cup {Len(goals) + 1}
         /\ \A i \in DOMAIN goals : goals'[i] = goals[i]
         /\ goals'[Len(goals) + 1] = s
         /\ \A t : Queued(t)' <=> Queued(t) \/ t = s
<1>1. /\ goals' \in Seq(Sessions) /\ Len(goals) \in Nat
      /\ DOMAIN goals = 1 .. Len(goals) /\ DOMAIN goals' = 1 .. Len(goals) + 1
      /\ \A i \in 1 .. Len(goals) : goals'[i] = goals[i]
      /\ goals'[Len(goals) + 1] = s
  OBVIOUS
<1>2. DOMAIN goals' = DOMAIN goals \cup {Len(goals) + 1}
  BY <1>1
<1> QED BY <1>1, <1>2 DEF Queued

\* When the first goal is taken the others stay queued.
LEMMA TakenFirst ==
  ASSUME goals \in Seq(Sessions), goals # <<>>, goals' = Tail(goals)
  PROVE  /\ goals' \in Seq(Sessions)
         /\ Head(goals) \in Sessions /\ Head(goals) = goals[1]
         /\ 1 \in DOMAIN goals
         /\ \A i \in DOMAIN goals' : /\ i + 1 \in DOMAIN goals /\ i + 1 # 1
                                     /\ i \in Nat
                                     /\ goals'[i] = goals[i + 1]
OBVIOUS

-----------------------------------------------------------------------------
LEMMA GoalInit == Init => GoalInv
<1> SUFFICES ASSUME Init PROVE GoalInv
  OBVIOUS
<1>1. DOMAIN goals = {} /\ goals \in Seq(Sessions)
  BY DEF Init
<1>2. Types /\ Blank
  BY <1>1, BoundAssumption DEF Init, Types, Blank, Sessions
<1>3. \A s \in Sessions : ~ Waiting(s) /\ ~ Begun(s)
  BY <1>1, NamesAssumption DEF Init, Waiting, Sent, Queued, Taken, Begun
<1>4. OnePlace /\ WaitingIsActive /\ BegunIsActive
  BY <1>1, <1>3 DEF Init, OnePlace, WaitingIsActive, BegunIsActive, Waiting, Sent
<1>5. NoResultYet /\ OneResult
  BY DEF Init, NoResultYet, OneResult
<1> QED BY <1>2, <1>4, <1>5 DEF GoalInv

\* A step that leaves sessions, goals and the actors' marks alone.
LEMMA QuietStep ==
  ASSUME GoalInv,
         UNCHANGED <<actor, active, made, name, finish, results, lost, held, goals,
                     sending, task>>,
         worker' = worker \/ {worker, worker'} \cap {"lookup", "callback"} = {}
  PROVE  GoalInv'
<1>1. Types' /\ Blank' /\ NoResultYet' /\ OneResult'
  BY DEF GoalInv, Types, Blank, NoResultYet, OneResult
<1>2. \A s : /\ Sent(s)' <=> Sent(s)
             /\ Queued(s)' <=> Queued(s)
             /\ Taken(s)' <=> Taken(s)
             /\ Begun(s)' <=> Begun(s)
  BY DEF Sent, Queued, Taken, Begun
<1>3. OnePlace'
  BY <1>2 DEF GoalInv, OnePlace
<1>4. WaitingIsActive' /\ BegunIsActive'
  BY <1>2 DEF GoalInv, WaitingIsActive, BegunIsActive, Waiting
<1> QED BY <1>1, <1>3, <1>4 DEF GoalInv

\* An actor that is not executing and has no goal under way is registered.
LEMMA RegisterStep ==
  ASSUME GoalInv, Patient, NEW a \in Actions, RegisterActor(a)
  PROVE  GoalInv'
<1>1. /\ actor[a] # "executing"
      /\ actor' = [actor EXCEPT ![a] = "ready"]
      /\ UNCHANGED <<active, session, queue, thread>>
  BY DEF RegisterActor
<1>2. Types' /\ Blank' /\ NoResultYet' /\ OneResult' /\ OnePlace'
  BY <1>1 DEF GoalInv, Types, Blank, NoResultYet, OneResult, OnePlace, Sent, Queued,
              Taken, session, queue, thread
<1>3. \A s : (Waiting(s)' <=> Waiting(s)) /\ (Begun(s)' <=> Begun(s))
  BY <1>1 DEF Waiting, Sent, Queued, Taken, Begun, session, queue, thread
<1>4. WaitingIsActive'
  BY <1>1, <1>3 DEF GoalInv, Types, Blank, WaitingIsActive, session
<1>5. BegunIsActive'
  BY <1>1, <1>3 DEF GoalInv, Types, Blank, BegunIsActive, session
<1> QED BY <1>2, <1>4, <1>5 DEF GoalInv

\* No session of the action waits or is begun when a session is made for it.
LEMMA CreateStep ==
  ASSUME GoalInv, Patient, NEW c \in Commanders, NEW a \in Actions,
         CreateSession(c, a)
  PROVE  GoalInv'
<1> PICK n : n = made + 1
  OBVIOUS
<1>1. /\ made < MaxGoals /\ sending[c] = None
      /\ UnderWay(a) = {} /\ actor[a] # "executing"
      /\ made' = n
      /\ name' = [name EXCEPT ![n] = a]
      /\ active' = [active EXCEPT ![a] = n]
      /\ sending' = [sending EXCEPT ![c] = n]
      /\ UNCHANGED <<actor, finish, results, lost, held, goals, worker, task>>
  BY DEF CreateSession, thread
<1>2. n \in Sessions /\ n > made /\ n <= MaxGoals /\ n # None
  BY <1>1, BoundAssumption, NamesAssumption DEF GoalInv, Types, Sessions
<1>3. results[n] = 0 /\ n \notin lost /\ ~ Waiting(n) /\ ~ Begun(n)
  BY <1>2 DEF GoalInv, Types, Blank, WaitingIsActive, BegunIsActive
<1>4. ASSUME NEW s \in Sessions, s <= made, name[s] = a
      PROVE  ~ Waiting(s) /\ ~ Begun(s)
  <2>1. s \in 1 .. made
    BY <1>4 DEF GoalInv, Types, Sessions
  <2>2. s \in lost \/ results[s] # 0
    BY <2>1, <1>1, <1>4 DEF UnderWay
  <2> QED BY <2>2, <1>1, <1>4 DEF GoalInv, WaitingIsActive, BegunIsActive
<1>5. Types'
  BY <1>1, <1>2, BoundAssumption DEF GoalInv, Types
<1>6. Blank'
  BY <1>1, <1>2 DEF GoalInv, Types, Blank, Sessions
<1>7. \A s \in Sessions : /\ Sent(s)' => Sent(s) \/ s = n
                          /\ Queued(s)' <=> Queued(s)
                          /\ Taken(s)' <=> Taken(s)
                          /\ Begun(s)' <=> Begun(s)
  <2>1. \A d \in Commanders : sending'[d] = IF d = c THEN n ELSE sending[d]
    BY <1>1 DEF GoalInv, Types
  <2>2. ASSUME NEW s \in Sessions, Sent(s)' PROVE Sent(s) \/ s = n
    <3>1. PICK d \in Commanders : sending'[d] = s
      BY <2>2 DEF Sent
    <3> QED BY <2>1, <3>1 DEF Sent
  <2>3. \A s \in Sessions : /\ Queued(s)' <=> Queued(s)
                            /\ Taken(s)' <=> Taken(s)
                            /\ Begun(s)' <=> Begun(s)
    BY <1>1 DEF Queued, Taken, Begun
  <2> QED BY <2>2, <2>3 DEF Sent, Queued, Taken, Begun
<1>8. /\ name'[n] = a /\ active'[a] = n
      /\ \A s \in Sessions : s <= made => s <= n /\ s # n /\ name'[s] = name[s]
      /\ \A b \in Actions : b # a => active'[b] = active[b]
  BY <1>1, <1>2 DEF GoalInv, Types, Sessions
<1>9. ASSUME NEW s \in Sessions, Waiting(s) \/ Begun(s)
      PROVE  /\ s <= n /\ s # n /\ name'[s] = name[s]
             /\ active'[name[s]] = active[name[s]]
  <2>1. s <= made
    BY <1>9 DEF GoalInv, WaitingIsActive, BegunIsActive
  <2>2. name[s] \in Actions /\ name[s] # a
    BY <1>9, <2>1, <1>4 DEF GoalInv, Blank
  <2> QED BY <2>1, <2>2, <1>8
<1>10. OnePlace'
  <2>1. \A d \in Commanders : sending'[d] = IF d = c THEN n ELSE sending[d]
    BY <1>1 DEF GoalInv, Types
  <2>2. \A d \in Commanders : sending[d] # n
    BY <1>3 DEF Waiting, Sent
  <2>3. ASSUME NEW d \in Commanders, NEW e \in Commanders,
               sending'[d] # None, sending'[d] = sending'[e]
        PROVE  d = e
    BY <2>1, <2>2, <2>3 DEF GoalInv, OnePlace
  <2>4. ~ Queued(n) /\ ~ Taken(n)
    BY <1>3 DEF Waiting
  <2>5. \A s \in Sessions : /\ Sent(s)' => ~ Queued(s)' /\ ~ Taken(s)'
                            /\ Queued(s)' => ~ Taken(s)'
    BY <2>4, <1>7 DEF GoalInv, OnePlace, Sent, Queued, Taken
  <2>6. \A i, j \in DOMAIN goals' : goals'[i] = goals'[j] => i = j
    BY <1>1 DEF GoalInv, OnePlace
  <2> QED BY <2>3, <2>5, <2>6 DEF OnePlace
<1>11. WaitingIsActive'
  <2> SUFFICES ASSUME NEW s \in Sessions, Waiting(s)'
               PROVE  /\ s <= made' /\ s \notin lost' /\ results'[s] = 0
                      /\ active'[name'[s]] = s /\ actor'[name'[s]] # "executing"
    BY DEF WaitingIsActive
  <2>1. CASE Waiting(s)
    BY <2>1, <1>1, <1>9 DEF GoalInv, WaitingIsActive
  <2>2. CASE s = n
    BY <2>2, <1>1, <1>2, <1>3, <1>8
  <2> QED BY <2>1, <2>2, <1>7 DEF Waiting, Sent, Queued, Taken
<1>12. BegunIsActive'
  <2> SUFFICES ASSUME NEW s \in Sessions, Begun(s)'
               PROVE  s <= made' /\ active'[name'[s]] = s /\ actor'[name'[s]] = "executing"
    BY DEF BegunIsActive
  <2>1. Begun(s)
    BY <1>7 DEF Begun
  <2> QED BY <2>1, <1>1, <1>9 DEF GoalInv, BegunIsActive
<1>13. NoResultYet' /\ OneResult'
  BY <1>1 DEF GoalInv, NoResultYet, OneResult
<1> QED BY <1>5, <1>6, <1>10, <1>11, <1>12, <1>13 DEF GoalInv

\* The goal goes from the commander to the queue.
LEMMA QueueStep ==
  ASSUME GoalInv, NEW c \in Commanders, QueueGoal(c)
  PROVE  GoalInv'
<1> PICK n : n = sending[c]
  OBVIOUS
<1>1. /\ n # None /\ goals' = Append(goals, n)
      /\ sending' = [sending EXCEPT ![c] = None]
      /\ worker' = worker \/ {worker, worker'} \cap {"lookup", "callback"} = {}
      /\ UNCHANGED <<actor, active, made, name, finish, results, lost, held, task>>
  BY DEF QueueGoal, registry, session
<1>2. n \in Sessions
  BY <1>1 DEF GoalInv, Types
<1>3. /\ goals' \in Seq(Sessions)
      /\ DOMAIN goals' = DOMAIN goals \cup {Len(goals) + 1}
      /\ \A i \in DOMAIN goals : goals'[i] = goals[i]
      /\ goals'[Len(goals) + 1] = n
      /\ \A t : Queued(t)' <=> Queued(t) \/ t = n
  BY <1>1, <1>2, Appended DEF GoalInv, Types
<1>4. /\ \A d \in Commanders : sending'[d] = IF d = c THEN None ELSE sending[d]
      /\ \A d \in Commanders : sending[d] = n => d = c
      /\ Sent(n) /\ ~ Queued(n) /\ ~ Taken(n)
  BY <1>1, <1>2 DEF GoalInv, Types, OnePlace, Sent
<1>5. \A s \in Sessions : /\ Sent(s)' => Sent(s) /\ s # n
                          /\ Taken(s)' <=> Taken(s)
                          /\ Begun(s)' <=> Begun(s)
  BY <1>1, <1>2, <1>4, NamesAssumption DEF Sent, Taken, Begun
<1>6. Types'
  BY <1>1, <1>3 DEF GoalInv, Types
<1>7. Blank' /\ NoResultYet' /\ OneResult'
  BY <1>1 DEF GoalInv, Blank, NoResultYet, OneResult
<1>8. OnePlace'
  <2>1. \A d, e \in Commanders :
          sending'[d] # None /\ sending'[d] = sending'[e] => d = e
    BY <1>4 DEF GoalInv, OnePlace
  <2>2. \A s \in Sessions : /\ Sent(s)' => ~ Queued(s)' /\ ~ Taken(s)'
                            /\ Queued(s)' => ~ Taken(s)'
    BY <1>3, <1>4, <1>5 DEF GoalInv, OnePlace
  <2>3. \A i \in DOMAIN goals : goals[i] # n
    BY <1>4 DEF Queued
  <2>4. \A i, j \in DOMAIN goals' : goals'[i] = goals'[j] => i = j
    BY <1>3, <2>3 DEF GoalInv, OnePlace
  <2> QED BY <2>1, <2>2, <2>4 DEF OnePlace
<1>9. \A s \in Sessions : Waiting(s)' => Waiting(s)
  BY <1>3, <1>4, <1>5 DEF Waiting
<1>10. WaitingIsActive'
  BY <1>1, <1>9 DEF GoalInv, WaitingIsActive
<1>11. BegunIsActive'
  BY <1>1, <1>5 DEF GoalInv, BegunIsActive
<1> QED BY <1>6, <1>7, <1>8, <1>10, <1>11 DEF GoalInv

\* The goal goes from the queue to the worker.
LEMMA TakeStep ==
  ASSUME GoalInv, WorkerTake
  PROVE  GoalInv'
<1>1. /\ goals # <<>> /\ goals' = Tail(goals) /\ task' = Head(goals)
      /\ worker = "lock" /\ worker' = "lookup"
      /\ UNCHANGED <<actor, active, made, name, finish, results, lost, held, sending>>
  BY DEF WorkerTake, WorkerGoto, registry, session
<1>2. /\ goals' \in Seq(Sessions)
      /\ task' \in Sessions /\ task' = goals[1] /\ 1 \in DOMAIN goals
      /\ \A i \in DOMAIN goals' : /\ i + 1 \in DOMAIN goals /\ i + 1 # 1
                                  /\ i \in Nat
                                  /\ goals'[i] = goals[i + 1]
  BY <1>1, TakenFirst DEF GoalInv, Types
<1>3. Types'
  BY <1>1, <1>2 DEF GoalInv, Types
<1>4. Blank' /\ NoResultYet' /\ OneResult'
  BY <1>1 DEF GoalInv, Blank, NoResultYet, OneResult
<1>5. \A s \in Sessions : /\ Sent(s)' <=> Sent(s)
                          /\ Queued(s)' => Queued(s) /\ s # task'
                          /\ Taken(s)' => s = task' /\ Queued(s)
                          /\ Begun(s)' => Begun(s)
  <2>1. ASSUME NEW s \in Sessions, Queued(s)' PROVE Queued(s) /\ s # task'
    <3>1. PICK i \in DOMAIN goals' : goals'[i] = s
      BY <2>1 DEF Queued
    <3> QED BY <3>1, <1>2 DEF GoalInv, OnePlace, Queued
  <2>2. ASSUME NEW s \in Sessions, Taken(s)' PROVE s = task' /\ Queued(s)
    BY <2>2, <1>2 DEF Taken, Queued
  <2>3. \A s \in Sessions : (Sent(s)' <=> Sent(s)) /\ (Begun(s)' => Begun(s))
    BY <1>1 DEF Sent, Begun
  <2> QED BY <2>1, <2>2, <2>3
<1>6. OnePlace'
  <2>1. \A s \in Sessions : /\ Sent(s)' => ~ Queued(s)' /\ ~ Taken(s)'
                            /\ Queued(s)' => ~ Taken(s)'
    BY <1>5 DEF GoalInv, OnePlace
  <2>2. ASSUME NEW i \in DOMAIN goals', NEW j \in DOMAIN goals', goals'[i] = goals'[j]
        PROVE  i = j
    <3>1. i + 1 = j + 1
      BY <2>2, <1>2 DEF GoalInv, OnePlace
    <3> QED BY <3>1, <1>2
  <2> QED BY <1>1, <2>1, <2>2 DEF GoalInv, OnePlace
<1>7. \A s \in Sessions : Waiting(s)' => Waiting(s)
  BY <1>5 DEF Waiting
<1>8. WaitingIsActive'
  BY <1>1, <1>7 DEF GoalInv, WaitingIsActive
<1>9. BegunIsActive'
  BY <1>1, <1>5 DEF GoalInv, BegunIsActive
<1> QED BY <1>3, <1>4, <1>6, <1>8, <1>9 DEF GoalInv

\* A goal that is dropped waits nowhere any more.
LEMMA DropStep ==
  ASSUME GoalInv, WorkerDrop
  PROVE  GoalInv'
<1>1. /\ worker = "lookup" /\ worker' = "loop" /\ lost' = lost \cup {task}
      /\ UNCHANGED <<actor, active, made, name, finish, results, held, goals, sending>>
  BY DEF WorkerDrop, WorkerGoto, registry, queue
<1>2. task \in Sessions /\ Taken(task) /\ task <= made
  BY <1>1 DEF GoalInv, Types, Taken, WaitingIsActive, Waiting
<1>3. Types' /\ NoResultYet' /\ OneResult'
  BY <1>1 DEF GoalInv, Types, NoResultYet, OneResult
<1>4. Blank'
  BY <1>1, <1>2 DEF GoalInv, Blank
<1>5. \A s \in Sessions : /\ Sent(s)' <=> Sent(s)
                          /\ Queued(s)' <=> Queued(s)
                          /\ ~ Taken(s)'
                          /\ Begun(s)' => Begun(s)
  BY <1>1 DEF Sent, Queued, Taken, Begun
<1>6. OnePlace'
  BY <1>1, <1>5 DEF GoalInv, OnePlace
<1>7. \A s \in Sessions : Waiting(s)' => Waiting(s) /\ s # task
  BY <1>2, <1>5 DEF GoalInv, OnePlace, Waiting
<1>8. WaitingIsActive'
  BY <1>1, <1>7 DEF GoalInv, WaitingIsActive
<1>9. BegunIsActive'
  BY <1>1, <1>5 DEF GoalInv, BegunIsActive
<1> QED BY <1>3, <1>4, <1>6, <1>8, <1>9 DEF GoalInv

\* The session of the task is the active one: no other session of the action
\* waits, and none is begun.
LEMMA StartStep ==
  ASSUME GoalInv, WorkerStart
  PROVE  GoalInv'
<1>1. /\ worker = "lookup" /\ worker' = "callback"
      /\ actor' = [actor EXCEPT ![name[task]] = "executing"]
      /\ UNCHANGED <<active, made, name, finish, results, lost, held, goals, sending,
                     task>>
  BY DEF WorkerStart, WorkerGoto, session, queue
<1>2. task \in Sessions /\ Taken(task) /\ Waiting(task)
  BY <1>1 DEF GoalInv, Types, Taken, Waiting
<1>3. /\ task <= made /\ results[task] = 0
      /\ active[name[task]] = task /\ actor[name[task]] # "executing"
      /\ name[task] \in Actions
  BY <1>2 DEF GoalInv, WaitingIsActive, Blank
<1>4. ~ Begun(task)
  BY <1>2, <1>3 DEF GoalInv, BegunIsActive
<1>5. Types' /\ Blank' /\ OneResult'
  BY <1>1, <1>2, <1>3 DEF GoalInv, Types, Blank, OneResult
<1>6. NoResultYet'
  BY <1>1, <1>3, <1>4 DEF GoalInv, NoResultYet, Begun
<1>7. \A s \in Sessions : /\ Sent(s)' <=> Sent(s)
                          /\ Queued(s)' <=> Queued(s)
                          /\ ~ Taken(s)'
                          /\ Begun(s)' => Begun(s) \/ s = task
  BY <1>1 DEF Sent, Queued, Taken, Begun
<1>8. OnePlace'
  BY <1>1, <1>7 DEF GoalInv, OnePlace
<1>9. \A s \in Sessions : Waiting(s)' => Waiting(s) /\ s # task
  BY <1>2, <1>7 DEF GoalInv, OnePlace, Waiting
<1>10. \A s \in Sessions : s <= made /\ active[name[s]] = s /\ s # task =>
          name[s] \in Actions /\ actor'[name[s]] = actor[name[s]]
  BY <1>1, <1>3 DEF GoalInv, Types, Blank
<1>11. WaitingIsActive'
  BY <1>1, <1>9, <1>10 DEF GoalInv, WaitingIsActive
<1>12. BegunIsActive'
  BY <1>1, <1>3, <1>7, <1>10 DEF GoalInv, Types, BegunIsActive
<1> QED BY <1>5, <1>6, <1>8, <1>11, <1>12 DEF GoalInv

\* What holds while the goal callback runs.
LEMMA InCallback ==
  ASSUME GoalInv, worker = "callback"
  PROVE  /\ task \in Sessions /\ task <= made
         /\ active[name[task]] = task /\ actor[name[task]] = "executing"
         /\ task \notin held /\ finish[task] = "none" /\ results[task] = 0
         /\ ~ Waiting(task)
<1>1. task \in Sessions /\ Begun(task)
  BY DEF GoalInv, Types, Begun
<1> QED BY <1>1 DEF GoalInv, BegunIsActive, NoResultYet, WaitingIsActive

\* The end of the callback: the session is lost, kept by the actor, or has its
\* result.
LEMMA CallbackStep ==
  ASSUME GoalInv,
         CallbackThrows \/ CallbackReturns \/ (\E state \in Ends : CallbackFinishes(state))
  PROVE  GoalInv'
<1>1. /\ worker = "callback" /\ worker' \in {"loop", "stuck"}
      /\ UNCHANGED <<actor, active, made, name, finish, goals, sending>>
      /\ lost' \in {lost, lost \cup {active[name[task]]}}
      /\ held' \in {held, held \cup {active[name[task]]}}
      /\ results' \in {results, [results EXCEPT ![active[name[task]]] = @ + 1]}
      /\ results' = results \/ held' = held
  BY DEF CallbackThrows, CallbackReturns, CallbackFinishes, WorkerGoto, registry, queue
<1>2. /\ task \in Sessions /\ task <= made
      /\ active[name[task]] = task /\ actor[name[task]] = "executing"
      /\ task \notin held /\ finish[task] = "none" /\ results[task] = 0
      /\ ~ Waiting(task)
  BY <1>1, InCallback
<1>3. Types'
  <2>1. results \in [Sessions -> Nat] /\ task \in Sessions
    BY <1>2 DEF GoalInv, Types
  <2>2. results' = results \/ results' = [results EXCEPT ![task] = @ + 1]
    BY <1>1, <1>2
  <2>3. results' \in [Sessions -> Nat]
    BY <2>1, <2>2
  <2>4. held' \subseteq Sessions
    BY <1>1, <1>2 DEF GoalInv, Types
  <2> QED BY <1>1, <2>3, <2>4 DEF GoalInv, Types
<1>4. Blank'
  BY <1>1, <1>2 DEF GoalInv, Types, Blank
<1>5. \A s \in Sessions : /\ Sent(s)' <=> Sent(s)
                          /\ Queued(s)' <=> Queued(s)
                          /\ ~ Taken(s)'
                          /\ Begun(s)' => Begun(s)
  BY <1>1, <1>2 DEF Sent, Queued, Taken, Begun
<1>6. OnePlace'
  BY <1>1, <1>5 DEF GoalInv, OnePlace
<1>7. \A s \in Sessions : Waiting(s)' => Waiting(s) /\ s # task
  BY <1>2, <1>5 DEF Waiting
<1>8. WaitingIsActive'
  BY <1>1, <1>2, <1>7 DEF GoalInv, Types, WaitingIsActive
<1>9. BegunIsActive'
  BY <1>1, <1>5 DEF GoalInv, BegunIsActive
<1>10. NoResultYet'
  BY <1>1, <1>2 DEF GoalInv, Types, NoResultYet
<1>11. OneResult'
  BY <1>1, <1>2 DEF GoalInv, Types, OneResult
<1> QED BY <1>3, <1>4, <1>6, <1>8, <1>9, <1>10, <1>11 DEF GoalInv

\* succeed(), abort() and set_canceled() up to the unlock of the session.
LEMMA FinishStep ==
  ASSUME GoalInv, NEW n \in Sessions, NEW state \in Ends, Finish(n, state)
  PROVE  GoalInv'
<1>1. /\ n \in held /\ held' = held \ {n}
      /\ finish' = [finish EXCEPT ![n] = "result"]
      /\ UNCHANGED <<actor, active, made, name, results, lost, goals, sending, worker,
                     task>>
  BY DEF Finish, registry, queue, thread
<1>2. finish[n] = "none" /\ results[n] = 0 /\ (worker = "callback" => task # n)
  BY <1>1 DEF GoalInv, NoResultYet
<1>3. Types' /\ Blank' /\ OneResult'
  BY <1>1 DEF GoalInv, Types, Blank, OneResult
<1>4. \A s \in Sessions : /\ Sent(s)' <=> Sent(s)
                          /\ Queued(s)' <=> Queued(s)
                          /\ Taken(s)' <=> Taken(s)
                          /\ Begun(s)' => Begun(s)
  BY <1>1 DEF Sent, Queued, Taken, Begun, GoalInv, Types
<1>5. OnePlace'
  BY <1>1, <1>4 DEF GoalInv, OnePlace
<1>6. WaitingIsActive'
  BY <1>1, <1>4 DEF GoalInv, WaitingIsActive, Waiting
<1>7. BegunIsActive'
  BY <1>1, <1>4 DEF GoalInv, BegunIsActive
<1>8. NoResultYet'
  BY <1>1, <1>2 DEF GoalInv, Types, NoResultYet
<1> QED BY <1>3, <1>5, <1>6, <1>7, <1>8 DEF GoalInv

\* The result callback.
LEMMA ResultStep ==
  ASSUME GoalInv, NEW n \in Sessions, Result(n)
  PROVE  GoalInv'
<1>1. /\ finish[n] = "result" /\ finish' = [finish EXCEPT ![n] = "complete"]
      /\ results' = [results EXCEPT ![n] = @ + 1]
      /\ UNCHANGED <<actor, active, made, name, lost, held, goals, sending, worker, task>>
  BY DEF Result, registry, queue, thread
<1>2. results[n] = 0 /\ n \notin held /\ (worker = "callback" => task # n)
  BY <1>1 DEF GoalInv, NoResultYet
<1>3. n <= made /\ ~ Waiting(n)
  BY <1>1 DEF GoalInv, BegunIsActive, WaitingIsActive, Begun
<1>4. Types'
  BY <1>1 DEF GoalInv, Types
<1>5. Blank'
  BY <1>1, <1>3 DEF GoalInv, Types, Blank
<1>6. \A s \in Sessions : /\ Sent(s)' <=> Sent(s)
                          /\ Queued(s)' <=> Queued(s)
                          /\ Taken(s)' <=> Taken(s)
                          /\ Begun(s)' => Begun(s)
  BY <1>1 DEF Sent, Queued, Taken, Begun, GoalInv, Types
<1>7. OnePlace'
  BY <1>1, <1>6 DEF GoalInv, OnePlace
<1>8. WaitingIsActive'
  BY <1>1, <1>3, <1>6 DEF GoalInv, Types, WaitingIsActive, Waiting
<1>9. BegunIsActive'
  BY <1>1, <1>6 DEF GoalInv, BegunIsActive
<1>10. NoResultYet' /\ OneResult'
  BY <1>1, <1>2 DEF GoalInv, Types, NoResultYet, OneResult
<1> QED BY <1>4, <1>5, <1>7, <1>8, <1>9, <1>10 DEF GoalInv

\* on_complete: the session was the only one of its action that was begun, and
\* none waits, so that nobody else loses the record or the mark.
LEMMA CompleteStep ==
  ASSUME GoalInv, NEW n \in Sessions, Complete(n)
  PROVE  GoalInv'
<1>1. /\ finish[n] = "complete" /\ finish' = [finish EXCEPT ![n] = "none"]
      /\ actor' = [actor EXCEPT ![name[n]] = IF @ = "absent" THEN @ ELSE "ready"]
      /\ active' = [active EXCEPT ![name[n]] = None]
      /\ UNCHANGED <<made, name, results, lost, held, goals, sending, worker, task>>
  BY DEF Complete, queue, thread
<1>2. Begun(n) /\ ~ (worker = "callback" /\ task = n) /\ n \notin held
  BY <1>1 DEF GoalInv, NoResultYet, Begun
<1>3. /\ n <= made /\ active[name[n]] = n /\ actor[name[n]] = "executing"
      /\ name[n] \in Actions
  BY <1>2 DEF GoalInv, BegunIsActive, Blank
<1>4. Types' /\ Blank' /\ OneResult'
  BY <1>1, <1>3 DEF GoalInv, Types, Blank, OneResult
<1>5. NoResultYet'
  BY <1>1, <1>2 DEF GoalInv, Types, NoResultYet
<1>6. \A s \in Sessions : /\ Sent(s)' <=> Sent(s)
                          /\ Queued(s)' <=> Queued(s)
                          /\ Taken(s)' <=> Taken(s)
                          /\ Begun(s)' => Begun(s) /\ s # n
  BY <1>1, <1>2 DEF Sent, Queued, Taken, Begun, GoalInv, Types
<1>7. OnePlace'
  BY <1>1, <1>6 DEF GoalInv, OnePlace
<1>8. \A s \in Sessions : s <= made /\ active[name[s]] = s /\ s # n =>
         active'[name[s]] = active[name[s]] /\ actor'[name[s]] = actor[name[s]]
  BY <1>1, <1>3 DEF GoalInv, Types, Blank
<1>9. WaitingIsActive'
  BY <1>1, <1>3, <1>6, <1>8 DEF GoalInv, WaitingIsActive, Waiting
<1>10. BegunIsActive'
  BY <1>1, <1>6, <1>8 DEF GoalInv, BegunIsActive
<1> QED BY <1>4, <1>5, <1>7, <1>9, <1>10 DEF GoalInv

-----------------------------------------------------------------------------
LEMMA GoalInductive == Patient /\ GoalInv /\ [Next]_vars => GoalInv'
<1> SUFFICES ASSUME Patient, GoalInv, [Next]_vars PROVE GoalInv'
  OBVIOUS
<1>1. ASSUME NEW a \in Actions, RegisterCommander(a) PROVE GoalInv'
  BY <1>1, QuietStep DEF RegisterCommander, session, queue, thread
<1>2. ASSUME NEW a \in Actions, RegisterActor(a) PROVE GoalInv'
  BY <1>2, RegisterStep
<1>3. ASSUME NEW c \in Commanders, QueueGoal(c) PROVE GoalInv'
  BY <1>3, QueueStep
<1>4. ASSUME NEW c \in Commanders, NEW a \in Actions, CreateSession(c, a) PROVE GoalInv'
  BY <1>4, CreateStep
<1>5. ASSUME NEW s \in Sessions, Cancel(s) PROVE GoalInv'
  BY <1>5, QuietStep DEF Cancel, registry, queue, thread
<1>6. ASSUME NEW s \in Sessions, Result(s) PROVE GoalInv'
  BY <1>6, ResultStep
<1>7. ASSUME NEW s \in Sessions, Complete(s) PROVE GoalInv'
  BY <1>7, CompleteStep
<1>8. ASSUME NEW s \in Sessions, NEW state \in Ends, Finish(s, state) PROVE GoalInv'
  BY <1>8, FinishStep
<1>9. CASE WorkerLoop \/ WorkerTest \/ WorkerSleep \/ WorkerExit \/ SpuriousWake
  BY <1>9, QuietStep
  DEF WorkerLoop, WorkerTest, WorkerSleep, WorkerExit, SpuriousWake, WorkerGoto,
      registry, session, queue
<1>10. CASE WorkerTake
  BY <1>10, TakeStep
<1>11. CASE WorkerDrop
  BY <1>11, DropStep
<1>12. CASE WorkerStart
  BY <1>12, StartStep
<1>13. CASE CallbackThrows \/ CallbackReturns \/ \E state \in Ends : CallbackFinishes(state)
  BY <1>13, CallbackStep
<1>14. CASE StopFlag \/ StopNotify \/ StopJoin
  BY <1>14, QuietStep DEF StopFlag, StopNotify, StopJoin, registry, session, queue, thread
<1>15. CASE UNCHANGED vars
  BY <1>15, QuietStep DEF vars, registry, session, queue, thread
<1> QED
  BY <1>1, <1>2, <1>3, <1>4, <1>5, <1>6, <1>7, <1>8, <1>9, <1>10, <1>11, <1>12, <1>13,
     <1>14, <1>15 DEF Next, Work

LEMMA GoalInvariant == ASSUME Patient PROVE Spec => []GoalInv
<1>1. GoalInv /\ [Next]_vars => GoalInv'
  BY GoalInductive
<1> QED BY <1>1, GoalInit, PTL DEF Spec

(***************************************************************************)
(* worker_loop hands a goal only to an actor that is not executing, with   *)
(* the session create_action_session made for it, if commanders are        *)
(* patient.                                                                *)
(***************************************************************************)
THEOREM OneGoalForAnActor == ASSUME Patient PROVE Spec => OneGoalAtATime
<1>1. ASSUME GoalInv, [Next]_vars, NEW a \in Actions, WorkerStart, a = name[task]
      PROVE  actor[a] # "executing" /\ active[a] = task
  <2>1. task \in Sessions /\ Waiting(task)
    BY <1>1 DEF WorkerStart, GoalInv, Types, Waiting, Taken
  <2> QED BY <1>1, <2>1 DEF GoalInv, WaitingIsActive
<1>2. GoalInv /\ [Next]_vars =>
        [\A a \in Actions : WorkerStart /\ a = name[task] =>
           actor[a] # "executing" /\ active[a] = task]_vars
  BY <1>1
<1> QED BY <1>2, GoalInvariant, PTL DEF Spec, OneGoalAtATime

(***************************************************************************)
(* result_callback_ is called once at most for a session, if commanders    *)
(* are patient.                                                            *)
(***************************************************************************)
THEOREM NoSecondResult == ASSUME Patient PROVE Spec => []OneResult
<1>1. GoalInv => OneResult
  BY DEF GoalInv
<1> QED BY <1>1, GoalInvariant, PTL

\* An actor is executing only with a session: on_complete ends both at once.
ExecutingInv ==
  /\ actor \in [Actions -> {"absent", "ready", "executing"}]
  /\ active \in [Actions -> Sessions \cup {None}]
  /\ made \in Nat
  /\ ExecutingHasSession

(***************************************************************************)
(* An executing actor has a session to cancel, whether commanders are      *)
(* patient or not.                                                         *)
(***************************************************************************)
THEOREM ExecutingActorHasSession == Spec => []ExecutingHasSession
<1>1. Init => ExecutingInv
  BY DEF Init, ExecutingInv, ExecutingHasSession
<1>2. ExecutingInv /\ [Next]_vars => ExecutingInv'
  <2> SUFFICES ASSUME ExecutingInv, [Next]_vars PROVE ExecutingInv'
    OBVIOUS
  <2> USE DEF ExecutingInv, ExecutingHasSession
  <2>1. ASSUME NEW a \in Actions, RegisterActor(a) PROVE ExecutingInv'
    BY <2>1 DEF RegisterActor, session
  <2>2. ASSUME NEW c \in Commanders, NEW a \in Actions, CreateSession(c, a)
        PROVE  ExecutingInv'
    BY <2>2, BoundAssumption, NamesAssumption DEF CreateSession, Sessions
  <2>3. ASSUME NEW s \in Sessions, Complete(s) PROVE ExecutingInv'
    BY <2>3 DEF Complete
  <2>4. CASE WorkerStart
    BY <2>4 DEF WorkerStart, session
  <2>5. CASE UNCHANGED <<actor, active, made>>
    BY <2>5
  <2>6. ASSUME ~ (\E a \in Actions : RegisterActor(a)),
               ~ (\E c \in Commanders, a \in Actions : CreateSession(c, a)),
               ~ (\E s \in Sessions : Complete(s)), ~ WorkerStart
        PROVE  UNCHANGED <<actor, active, made>>
    BY <2>6
    DEF Next, Work, vars, registry, session, queue, thread, RegisterCommander, QueueGoal,
        Cancel, Result, Finish, WorkerLoop, WorkerTest, WorkerSleep, SpuriousWake,
        WorkerExit, WorkerTake, WorkerDrop, CallbackThrows, CallbackReturns,
        CallbackFinishes, StopFlag, StopNotify, StopJoin
  <2> QED BY <2>1, <2>2, <2>3, <2>4, <2>5, <2>6
<1>3. ExecutingInv => ExecutingHasSession
  BY DEF ExecutingInv
<1> QED BY <1>1, <1>2, <1>3, PTL DEF Spec

-----------------------------------------------------------------------------
(* Types, whether commanders are patient or not *)

\* Sessions that are named anywhere have been made, and have an action; the
\* session of a goal callback is recorded, for the mutex is held.
TypeInv ==
  /\ TypeOK
  /\ \A s \in 1 .. made : name[s] \in Actions
  /\ \A c \in Commanders : sending[c] # None => sending[c] <= made
  /\ \A i \in DOMAIN goals : goals[i] <= made
  /\ worker \in {"lookup", "callback"} => task \in Sessions /\ task <= made
  /\ worker = "callback" => mapLock = Worker /\ active[name[task]] # None

LEMMA TypeStep == TypeInv /\ [Next]_vars => TypeInv'
<1> SUFFICES ASSUME TypeInv, [Next]_vars PROVE TypeInv'
  OBVIOUS
<1> USE DEF TypeInv, TypeOK
<1>0. Worker # None
  BY NamesAssumption
<1>1. ASSUME NEW a \in Actions, RegisterCommander(a) \/ RegisterActor(a) PROVE TypeInv'
  BY <1>1, <1>0 DEF RegisterCommander, RegisterActor, session, queue, thread, ending
<1>2. ASSUME NEW c \in Commanders, QueueGoal(c) PROVE TypeInv'
  <2>1. sending[c] \in Sessions /\ goals' = Append(goals, sending[c])
    BY <1>2 DEF QueueGoal
  <2>2. goals' \in Seq(Sessions) /\ \A i \in DOMAIN goals' : goals'[i] <= made
    <3>1. /\ goals' \in Seq(Sessions)
          /\ DOMAIN goals' = DOMAIN goals \cup {Len(goals) + 1}
          /\ \A i \in DOMAIN goals : goals'[i] = goals[i]
          /\ goals'[Len(goals) + 1] = sending[c]
      BY <2>1, Appended
    <3> QED BY <3>1, <2>1, NamesAssumption
  <2> QED BY <1>2, <2>2 DEF QueueGoal, registry, session, ending
<1>3. ASSUME NEW c \in Commanders, NEW a \in Actions, CreateSession(c, a) PROVE TypeInv'
  <2> PICK n : n = made + 1
    OBVIOUS
  <2>1. /\ made < MaxGoals /\ made' = n /\ mapLock = None
        /\ name' = [name EXCEPT ![n] = a]
        /\ status' = [status EXCEPT ![n] = "Accepted"]
        /\ active' = [active EXCEPT ![a] = n]
        /\ sending' = [sending EXCEPT ![c] = n]
        /\ UNCHANGED <<commanded, actor, finish, results, lost, held, mapLock,
                       queueLock, goals, worker, task, stop, main>>
    BY <1>3 DEF CreateSession, thread, ending
  <2>2. n \in Sessions /\ n > made /\ n \in 0 .. MaxGoals
    BY <2>1, BoundAssumption DEF Sessions
  <2>3. TypeOK'
    BY <2>1, <2>2
  <2>4. \A s \in 1 .. n : name'[s] \in Actions
    BY <2>1, <2>2 DEF Sessions
  <2>5. \A d \in Commanders : sending'[d] # None => sending'[d] <= n
    BY <2>1, <2>2 DEF Sessions
  <2>6. \A i \in DOMAIN goals : goals[i] <= n
    <3>1. \A i \in DOMAIN goals : goals[i] \in Sessions /\ goals[i] <= made
      OBVIOUS
    <3> QED BY <3>1, <2>2 DEF Sessions
  <2>7. /\ worker \in {"lookup", "callback"} => task <= n
        /\ worker # "callback"
    BY <2>1, <2>2, <1>0 DEF Sessions
  <2> QED BY <2>1, <2>3, <2>4, <2>5, <2>6, <2>7
<1>4. ASSUME NEW s \in Sessions, Cancel(s) \/ Result(s) PROVE TypeInv'
  <2>1. CASE Cancel(s)
    BY <2>1 DEF Cancel, registry, queue, thread, ending
  <2>2. CASE Result(s)
    <3>1. results' \in [Sessions -> Nat] /\ finish' \in [Sessions -> {"none", "result", "complete"}]
      BY <2>2 DEF Result
    <3> QED BY <2>2, <3>1 DEF Result, registry, queue, thread, ending
  <2> QED BY <1>4, <2>1, <2>2
<1>5. ASSUME NEW s \in Sessions, NEW state \in Ends, Finish(s, state) PROVE TypeInv'
  BY <1>5 DEF Finish, SetState, registry, queue, thread, ending
<1>6. ASSUME NEW s \in Sessions, Complete(s) PROVE TypeInv'
  BY <1>6, <1>0 DEF Complete, queue, thread, ending
<1>7. CASE WorkerLoop \/ WorkerTest \/ WorkerSleep \/ WorkerExit \/ SpuriousWake
  BY <1>7
  DEF WorkerLoop, WorkerTest, WorkerSleep, WorkerExit, SpuriousWake, WorkerGoto,
      registry, session, queue, ending
<1>8. CASE WorkerTake
  <2>1. /\ goals' \in Seq(Sessions) /\ task' \in Sessions /\ task' <= made
        /\ \A i \in DOMAIN goals' : goals'[i] <= made
    BY <1>8, TakenFirst DEF WorkerTake
  <2> QED BY <1>8, <2>1 DEF WorkerTake, WorkerGoto, registry, session, ending
<1>9. CASE WorkerDrop
  BY <1>9 DEF WorkerDrop, WorkerGoto, registry, queue, ending
<1>10. CASE WorkerStart
  BY <1>10 DEF WorkerStart, WorkerGoto, session, queue, ending
<1>11. CASE CallbackThrows \/ CallbackReturns \/ \E state \in Ends : CallbackFinishes(state)
  <2>1. worker = "callback" /\ active[name[task]] \in Sessions
    BY <1>11 DEF CallbackThrows, CallbackReturns, CallbackFinishes, Sessions
  <2>2. CASE CallbackThrows
    BY <2>1, <2>2 DEF CallbackThrows, WorkerGoto, registry, queue, ending
  <2>3. CASE CallbackReturns
    BY <2>1, <2>3 DEF CallbackReturns, WorkerGoto, registry, queue, ending
  <2>4. ASSUME NEW state \in Ends, CallbackFinishes(state) PROVE TypeInv'
    BY <2>1, <2>4 DEF CallbackFinishes, SetState, WorkerGoto, registry, queue, ending
  <2> QED BY <1>11, <2>2, <2>3, <2>4
<1>12. CASE StopFlag \/ StopNotify \/ StopJoin
  BY <1>12 DEF StopFlag, StopNotify, StopJoin, registry, session, queue, thread
<1>13. CASE UNCHANGED vars
  BY <1>13 DEF vars, registry, session, queue, thread, ending
<1> QED
  BY <1>1, <1>2, <1>3, <1>4, <1>5, <1>6, <1>7, <1>8, <1>9, <1>10, <1>11, <1>12, <1>13
  DEF Next, Work

(***************************************************************************)
(* Every variable of the action manager has its type.                      *)
(***************************************************************************)
THEOREM TypeCorrect == Spec => []TypeOK
<1>1. ASSUME Init PROVE TypeInv
  <2>1. /\ goals \in Seq(Sessions) /\ DOMAIN goals = {}
        /\ made = 0 /\ 0 \in 0 .. MaxGoals /\ 1 .. 0 = {}
    BY <1>1, BoundAssumption DEF Init
  <2>2. TypeOK
    BY <1>1, <2>1 DEF Init, TypeOK
  <2> QED BY <1>1, <2>1, <2>2 DEF Init, TypeInv
<1>2. TypeInv => TypeOK
  BY DEF TypeInv
<1> QED BY <1>1, <1>2, TypeStep, PTL DEF Spec
=============================================================================
