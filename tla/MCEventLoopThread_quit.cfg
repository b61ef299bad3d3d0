SPECIFICATION ThreadSpec
CONSTANTS
  Threads = {own, th1}
  Tasks = {t1, t2}
  OutsideTasks = {t1}
  owner = own
  UserQuits = FALSE
CHECK_DEADLOCK FALSE
PROPERTIES DestructorReturns
