SPECIFICATION SchedSpec
CONSTANTS
  Schedulers = {s1, s2}
  Tasks = {t1, t2}
  GroupTasks = {t2}
  Targets <- MCTargets
  Schemas = {FALSE}
  Batch = 2
  MaxSchedFaults = 0
PROPERTY DueIsSent
CHECK_DEADLOCK FALSE
