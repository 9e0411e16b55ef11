\* MAX_CPUS may announce a processor that is not there, or more than kcpus
\* has room for.
CONSTANTS APs = {a1}
          FwCounts <- MCOneAp
          MaxCpu = 2
SPECIFICATION Spec
INVARIANTS ApBootTypeOK OwnStack OnlineIsTrue
PROPERTY BringupEnds
\* smp_bringup returns, and the processors halt.
CHECK_DEADLOCK FALSE
