CONSTANTS RING_N = 4
          Slot = 2
          Clip = 4
          Delay = 1
          FrameCap = 3
          MaxLate = 4
SPECIFICATION FairSpec
INVARIANTS PlaybackTypeOK SlotsClean
PROPERTIES ShowsInOrder EveryFrameShown
