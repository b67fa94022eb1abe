SPECIFICATION FairSpec
CONSTANTS
  Commanders = {c1, c2}
  Worker = worker
  Actions = {later}
  Prompt = {}
  Patient = FALSE
  MaxGoals = 2
  None = None
PROPERTIES
  OneGoalAtATime
