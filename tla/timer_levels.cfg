SPECIFICATION Spec
CONSTANTS
  TimeWheelSize = 2
  TimeWheelLevelNum = 8
  MaxUrgentQueueSize = 1
  MaxTasks = 1
CHECK_DEADLOCK FALSE
INVARIANT
  HeadInRange
