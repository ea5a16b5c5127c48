\* Two ordinary tasks, one low-priority task, one application activity besides
\* idle, and one interrupt proxy; two timers, so that one
\* can be served before the other, with a delay of zero and a short one, from
\* now or from an instant at which the short one would be over.  The
\* state space is finite without further bounds.
CONSTANTS
  NO_TASK = NO_TASK
  ACT_INVALID = ACT_INVALID
  Main = Main
  Task = {t1, t2}
  QTask = {q1}
  Act = {idle, red, pxy}
  Idle = idle
  Proxy = {pxy}
  NUM_TIMERS = 2
  Dt = {0, 2}
  Past = {0, 2}
  MAXINT = 3
  TimerAct = {red}
  TIMER = timer
  Lag = 2
  None = none
SPECIFICATION FairKernel
INVARIANTS TypeOK ListsHoldPosts CodeKeepsItsActivity LogTellsContext SleepsIdle NextExpiryCovered
PROPERTIES ImplementsTaskFifo PostedTasksRun ImplementsTimerService ExpiredTimersFire
