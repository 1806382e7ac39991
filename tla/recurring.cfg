SPECIFICATION FairSpec
CONSTANTS
  t1 = t1
  t2 = t2
  Never = Never
  Templates = {t1, t2}
  Schedules <- Setups
  Ends <- EndDates
  Closable = {2}
  Length <- MonthLengths
  LastDay = 2
  Created <- LastOfFirst
  Users = {u}
  Worker = Worker
  MaxActs = 2
  MaxCrashes = 1
INVARIANTS TypeOK NoCycleMissed OncePerCycle EarlyByRequest
PROPERTY CatchesUp
CHECK_DEADLOCK FALSE
