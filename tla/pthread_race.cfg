CONSTANTS NCpu = 2
          MaxThr = 1
          Mutexes = {}
          Conds = {}
          Onces = {}
          MaxCalls = 1
          Keys <- MCKeys
          Buckets <- MCBucketsApart
          Hash <- MCHashApart
SPECIFICATION PthreadSpec
INVARIANT NoCorruption
CHECK_DEADLOCK FALSE
