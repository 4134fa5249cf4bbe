SPECIFICATION FairSpec
CONSTANTS
  Workers = {w1}
  IoWorkers = {io1}
  Main = Main
  Sim = Sim
  None = None
  step1 = step1
  step2 = step2
  final = final
  switch = switch
  back = back
  load1 = load1
  rest1 = rest1
  load2 = load2
  rest2 = rest2
  Tasks <- FewTasks
  Kind <- FewKind
  After <- FewAfter
  Coroutine <- FewCoroutine
PROPERTIES AcceptedRuns ContinuationRuns ShutdownEnds
CHECK_DEADLOCK FALSE
