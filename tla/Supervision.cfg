SPECIFICATION Spec
CONSTANTS
  Callers = {c1, c2, c3}
  MaxTasks = 8
PROPERTIES LoopComesBack
CHECK_DEADLOCK FALSE
