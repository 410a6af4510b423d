CONSTANTS
  NumThreads = 2
  Tasks <- MCTasks
  Roots <- MCRoots
  Children <- MCChildren
  Main = Main
  Free = Free
  Capacity = 1
  Spins = 1
SPECIFICATION FairSpec
INVARIANTS WorkIsNeverStranded CountersAreExact
PROPERTIES RunsEveryTaskOnce DestructorReturns QueuedTaskRuns
