SPECIFICATION FairSpec
\* The worker may wait for the mutex it holds, and everything stops then.
CHECK_DEADLOCK FALSE
CONSTANTS
  Commanders = {c1, c2}
  Worker = worker
  Actions = {later, now}
  Prompt = {now}
  Patient = TRUE
  MaxGoals = 2
  None = None
INVARIANTS
  ExecutingHasSession
  OneResult
PROPERTIES
  OneGoalAtATime
  GoalsHaveResults
  ReadyAgain
  StopReturns
