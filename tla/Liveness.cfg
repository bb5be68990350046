\* One worker that may die at any step, under the fairness of workers,
\* scheduler and scripts: accepted work of every component comes to an end.
CONSTANTS
  w1 = w1
  telegram = telegram
  shorter = shorter
  page = page
  row1 = row1
  row2 = row2
  api = api
  item1 = item1
  name1 = name1
  p1 = p1
  sub1 = sub1
  check1 = check1
  Nobody = Nobody
  NoJob = NoJob
  Jobs = {}
  Workers = {w1}
  MaxAttempts = 2
  MaxRetries = 1
SPECIFICATION MCLiveSpec
PROPERTIES
  AutomationsProceed
  EditorialWorkEnds
  OperationsEnd
CHECK_DEADLOCK FALSE
