SPECIFICATION FairSpec
CONSTANTS
  Processes = {p1}
  Ticker = Ticker
  Types = {exited, tick}
  TickTypes = {tick}
  s1 = s1
  Streams = {s1}
  Listeners = {l1, l2}
  Pool = Pool
  Hook = Hook
  Scenarios <- MCScenarios
  QueueSize = 1
  MaxRetries = 2
  Threshold = 2
  MaxEvents = 2
INVARIANTS
  StreamInOrder
  OpenGetsAll
  OneAtATime
  BreakerCountsRuns
PROPERTIES
  PublishEnds
CHECK_DEADLOCK FALSE
