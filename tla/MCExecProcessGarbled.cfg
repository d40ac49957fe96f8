CONSTANTS
  out = out  err = err
  Stream = {out}
  MaxChunks = 1
  Retained = 1
  EventCapacity = 1
  Consumers = {"wake"}
  Garbles = TRUE
SPECIFICATION Spec
INVARIANT NoCallAfterDrain
CHECK_DEADLOCK FALSE
