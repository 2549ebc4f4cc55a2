\* Two frames, or a frame and a resize; fair threads, a responsive compositor.
CONSTANTS
  small = small
  large = large
  Sizes = {small, large}
  NoFrame = NoFrame
  MaxFrames = 2
  MaxGenerations = 2
  MaxWork = 3
SPECIFICATION FairSpec
PROPERTIES
  PendingFrameMoves
  CloseReturns
