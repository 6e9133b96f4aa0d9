SPECIFICATION LiveSpec
CONSTANTS
  TimeWheelSize = 3
  TimeWheelLevelNum = 2
  MaxUrgentQueueSize = 1
  MaxTasks = 7
CHECK_DEADLOCK FALSE
INVARIANTS
  TypeOK
  TasksAccounted
  OnePerTick
  OnTime
PROPERTY
  EveryTaskRuns
