SPECIFICATION PoolFairSpec
CONSTANTS
  NUM_THREADS = 6
  NUM_SEMS_IN_GROUP = 3
  Total <- MCTotal
  jobTable <- MCjobTable
CHECK_DEADLOCK FALSE
INVARIANT PoolTypeOK
INVARIANT Conservation
INVARIANT GroupOutlivesThreads
PROPERTY Termination
