SPECIFICATION FairSpec
CONSTANTS
  Producers = {main}
  Consumers = {w1, w2}
  Nobody = Nobody
  Garbage = Garbage
  MaxJobs = 4
CHECK_DEADLOCK FALSE
INVARIANTS
  NotAllAsleep
PROPERTIES
  ImplementsFifo
  JobsAreTaken
