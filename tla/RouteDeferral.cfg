\* One route that is paused: the deferrals of its poll run out, and after the
\* resume no tick enqueues another one.
CONSTANTS
  w1 = w1
  w2 = w2
  Nobody = Nobody
  Jobs <- MCJobs
  Workers <- MCWorkers1
  NoJob <- MCNoJob
  MaxAttempts = 1
  MaxRetries = 0
  MaxPosts = 1
  MaxVersion = 0
  MaxActs = 1
  MaxPolls = 2
  MaxDefer = 1
  Window = 2
  Disturbances = {"pause"}
SPECIFICATION LiveSpec
PROPERTIES
  DueRoutePolled
CHECK_DEADLOCK FALSE
