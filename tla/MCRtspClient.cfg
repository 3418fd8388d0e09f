CONSTANTS
  KEEP_ALIVE_TASK_LOOP_SLEEP = 2
  WAIT_TO_EXIT_KEEP_ALIVE_THREAD = 5
  RTSP_DEFAULT_KEEP_ALIVE = 60
  Timeouts = {30, 60, 65}
  MaxDelay = 3
SPECIFICATION FairSpec
INVARIANT ClientOK
INVARIANT SessionKeptAlive
PROPERTY CallsReturn
CHECK_DEADLOCK FALSE
