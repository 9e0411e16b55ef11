CONSTANTS NCpu = 1
          MaxThr = 2
SPECIFICATION FairSpec
INVARIANTS NoCorruption RunQueueExact HandlesValid
PROPERTIES DoneIsFinal RunnableRuns
