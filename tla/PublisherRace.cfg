SPECIFICATION FairSpec
CONSTANTS
  MaxReports = 1
  MaxRuns = 2
PROPERTIES StopReturns
