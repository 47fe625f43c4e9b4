SPECIFICATION FairSpec
CONSTANTS
  Worker = {w1}
  Dispatcher = {d1}
  Reaper = {p1}
  MAX_RETRIES = 2
  MaxEvent = 1
  MaxMessages = 1
  Nothing = Nothing
PROPERTY FailedRequeued
CHECK_DEADLOCK FALSE
