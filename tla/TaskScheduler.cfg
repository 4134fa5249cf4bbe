SPECIFICATION Spec
CONSTANTS
  Workers = {w1, w2}
  IoWorkers = {io1}
  Main = Main
  Sim = Sim
  None = None
  step1 = step1
  step2 = step2
  final = final
  switch = switch
  back = back
  load1 = load1
  rest1 = rest1
  load2 = load2
  rest2 = rest2
  Tasks <- MCTasks
  Kind <- MCKind
  After <- MCAfter
  Coroutine <- MCCoroutine
SYMMETRY WorkerSymmetry
INVARIANTS RunOnce ContinuationKept NoTaskStranded PoolDrained
PROPERTY ImplementsPool
CHECK_DEADLOCK FALSE
