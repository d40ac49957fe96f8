CONSTANTS
  c1 = c1  c2 = c2  c3 = c3  s1 = s1  s2 = s2  p1 = p1
  None = None
  Connection = {c1, c2, c3}
  Session = {s1}
  Process = {p1}
  MaxStarts = 2
SPECIFICATION Spec
CHECK_DEADLOCK FALSE
INVARIANT AttachedIsNotified
