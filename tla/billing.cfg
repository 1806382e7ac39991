SPECIFICATION FairSpec
CONSTANTS
  Never = Never
  CycleDays <- Periods
  RetryDays <- Retries
  SuspendAfter = 3
  TrialDays = 1
  GraceDays = 1
  PauseDays = {1}
  Handlers = {"change-plan", "assign-plan", "pause", "resume", "mark-paid",
              "retry-now", "suspend-now", "policy", "card"}
  MaxLate = 1
  MaxActs = 2
  MaxCrashes = 1
INVARIANTS
  TypeOK
  ChargedOnce
  DeclinesBounded
PROPERTIES
  PastDueResolves
  UnpaidIsCancelled
