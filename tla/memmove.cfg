CONSTANTS Units = {"move"}
          Word = 4
          Large = 9
          Cutoff = 3
          StackSize = 4
          Arrays <- MCArrays
          IntBits = 4
          LongBits = 6
          DaySeconds = 4
          Times <- MCTimes
          Low = 28
          High = 42
          EstLow = 1
          EstHigh = 200
          Default = 35
          EdgeLimit = 60
          WindowLimit = 50
          Machines <- MCMachines
          Right = {35}
          MaxUpdates = 3
          Hz = 6
          Second = 2
          Margin = 8
          Period = 12
          Modulus = 1024
          Start = {3, 100, 105}
          Wants = {0, 1, 9, 20}
          Jump = 2
          Sides <- MCSides
          MaxSide = 4
          PagePixels = 4
          Small = 2
          MaxInits = 2
          Slots = 2
          Users = {"t1", "t2"}
          Values = {1, 2}
          MaxKeys = 3
          Entries = 2
          Sizes = {0, 2, 3}
          Embedded = 4
          Counts = {1, 3}
          Offsets <- MCOffsets
SPECIFICATION Spec
INVARIANT MemmoveMoves
