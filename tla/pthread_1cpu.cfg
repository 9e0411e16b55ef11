CONSTANTS NCpu = 1
          MaxThr = 2
          Mutexes = {m1}
          Conds = {c1}
          Onces = {}
          MaxCalls = 4
          Keys <- MCKeys
          Buckets <- MCBucketsApart
          Hash <- MCHashApart
SPECIFICATION PthreadSpec
INVARIANTS MutexWakeupKept SignalHeard JoinReturns SleepersFound RunningRuns
           BucketsUnshared
PROPERTY ImplementsSched
\* A thread that has used its calls may stay in application code.
CHECK_DEADLOCK FALSE
