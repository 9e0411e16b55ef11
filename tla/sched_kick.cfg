CONSTANTS NCpu = 2
          MaxThr = 1
SPECIFICATION Spec
PROPERTY KickBreaksHlt
CHECK_DEADLOCK FALSE
