CONSTANTS NCpu = 2
          MaxThr = 2
          Mutexes = {m1}
          Conds = {c1}
          Onces = {o1}
          MaxCalls = 2
          Keys <- MCKeys
          Buckets <- MCBucketsApart
          Hash <- MCHashApart
SPECIFICATION PthreadSpec
INVARIANTS MutualExclusion OnceRunsOnce
\* The machine stops at its first undefined behaviour, and a thread that has
\* used its calls may stay in application code.
CHECK_DEADLOCK FALSE
