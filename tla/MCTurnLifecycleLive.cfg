CONSTANTS
  t1 = t1  t2 = t2  t3 = t3  m1 = m1  m2 = m2  p1 = p1
  p2 = p2  p3 = p3  d1 = d1  j1 = j1  g1 = g1
  Loop = Loop  GoalCaller = GoalCaller  Guardian = Guardian
  NoTurn = NoTurn  NoActor = NoActor
  Turn <- MCTurn2  Reviewed = {}
  Mail = {m1}  TriggerMail = {}  Prompt = {p1}
  Denied = {}  Injected = {j1}  GoalPrompt = {}
  CompactTurns = 1  MaxInterrupts = 1  MaxTools = 0
SPECIFICATION LiveSpec
PROPERTY EveryTurnEnds
CHECK_DEADLOCK FALSE
