CONSTANTS NCpu = 1
          MaxThr = 2
          Mutexes = {m1}
          Conds = {c1}
          Onces = {}
          MaxCalls = 3
          Keys <- MCKeys
          Buckets <- MCBucketOne
          Hash <- MCHashOne
SPECIFICATION PthreadSpec
INVARIANT SignalHeard
CHECK_DEADLOCK FALSE
