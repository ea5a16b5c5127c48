\* The README's guarantee for tasks, idle included.
CONSTANTS
  NO_TASK = NO_TASK
  ACT_INVALID = ACT_INVALID
  Main = Main
  Task = {t1}
  QTask = {}
  Act = {idle, red, pxy}
  Idle = idle
  Proxy = {pxy}
SPECIFICATION Spec
PROPERTY TasksStartAsPosted
