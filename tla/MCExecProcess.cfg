CONSTANTS
  out = out  err = err
  Stream = {out, err}
  MaxChunks = 2
  Retained = 1
  EventCapacity = 1
  Consumers = {"wake", "events"}
  Garbles = TRUE
SYMMETRY Symmetry
SPECIFICATION Spec
INVARIANT NoOutputSkipped
INVARIANT CloseIsComplete
INVARIANT RouteKeptUntilClosed
INVARIANT ConsumerNeverStuck
PROPERTY ImplementsEventStream
VIEW View
CHECK_DEADLOCK FALSE
