SPECIFICATION FairSpec
CONSTANTS
  c1 = c1
  c2 = c2
  read1 = read1
  write = write
  read2 = read2
  exec1 = exec1
  exec2 = exec2
  free = free
  Connection = {c1, c2}
  Request = {read1, read2, write, free}
  ConnOf <- MCConnOf
  ScopeOf <- MCScopeOf
  MayPanic = TRUE
INVARIANTS ConflictsInOrder OneOwnerPerQueue TornDownQuiescent SkippedOnlyWhenClosed
PROPERTIES ImplementsSerializedAccess EveryRequestEnds CloseCompletes
CHECK_DEADLOCK FALSE
