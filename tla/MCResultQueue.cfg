SPECIFICATION FairSpec
CONSTANTS
  Workers = {w1, w2, w3}
  Main = main
  Nobody = Nobody
  PipeSize = 2
  MaxOutstanding = 3
  MaxResults = 6
CHECK_DEADLOCK FALSE
INVARIANTS
  BytesCountItems
  NoMutualWait
PROPERTIES
  ImplementsFifo
  ResultsAreTaken
