CONSTANTS
  w1 = w1  w2 = w2  w3 = w3  t1 = t1  t2 = t2
  NoOwner = NoOwner  NoOutput = NoOutput  NoBaseline = NoBaseline
  Worker = {w1, w2}  Thread = {t1, t2}
  MaxSource = 2  MaxRunning = 1  Retries = 1  Lease = 2
  MayReset = FALSE
SPECIFICATION Spec
SYMMETRY Symmetry
INVARIANT WatermarkIsExtracted
INVARIANT OneConsolidation
INVARIANT BaselineWasConsolidated
PROPERTY ImplementsMemoryPipeline
PROPERTY SelectionIsConsolidated
CHECK_DEADLOCK FALSE
