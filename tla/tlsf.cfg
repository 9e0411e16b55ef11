CONSTANTS p1 = p1  p2 = p2  p3 = p3
          SlLog2 = 2
          FlMax = 5
          Handles <- MCHandles
          Cpus = {"cpu0", "cpu1"}
          PoolStart = 1
          PoolWords = 26
          Sizes = {1, 4, 9}
          Aligns = {2, 4}
SYMMETRY MCSymmetry
SPECIFICATION Spec
INVARIANTS Integrity ContentsKept FreeMergesAll RefusesOnlyWhenFull
PROPERTIES ImplementsHeap
