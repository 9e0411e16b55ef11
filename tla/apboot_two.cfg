CONSTANTS APs = {a1, a2}
          FwCounts <- MCTwoAps
          MaxCpu = 3
SPECIFICATION Spec
INVARIANT OneByOne
CHECK_DEADLOCK FALSE
