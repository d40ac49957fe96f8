CONSTANTS
  c1 = c1  c2 = c2  c3 = c3  s1 = s1  s2 = s2  p1 = p1
  None = None
  Connection = {c1, c2}
  Session = {s1}
  Process = {p1}
  MaxStarts = 1
SPECIFICATION FairSpec
PROPERTY ProcessesTerminated
CHECK_DEADLOCK FALSE
