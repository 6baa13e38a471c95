\* two workers, two sinks, more rows than a tick reads, failures and a crash
SPECIFICATION FairSpec
CONSTANTS
  Worker = {w1, w2}
  MaxEvents = 3
  Sinks = 2
  Batch = 2
  MaxFailures = 1
  MaxCrashes = 1
INVARIANTS MarkedWasDelivered DuplicatesHaveACause
PROPERTY EventuallyDelivered
