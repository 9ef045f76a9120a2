\* x86-64 style frame: slots are negative offsets from the frame base.
CONSTANTS
  FRAME_INDEXING_NEGATIVE = TRUE
  FrameInit = 8
  Sizes = {2, 8, 24}
  MaxFrame = 48
  MaxLive = 3
SPECIFICATION Spec
INVARIANT FrameTiled SlotsAligned
PROPERTY AbsSpec
