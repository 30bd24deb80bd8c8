SPECIFICATION FairSpec
CONSTANTS
  MaxReports = 3
  MaxRuns = 2
INVARIANTS TypeOK SinglePublisher PublishedInOrder
PROPERTIES SpinningStops QueuedIsPublished
