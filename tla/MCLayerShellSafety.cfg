\* Three frames - one being submitted, one in the mailbox, one being imported -
\* or two and a resize, or one overtaken by two resizes.
CONSTANTS
  small = small
  large = large
  Sizes = {small, large}
  NoFrame = NoFrame
  MaxFrames = 3
  MaxGenerations = 3
  MaxWork = 4
SYMMETRY SizeSymmetry
SPECIFICATION Spec
INVARIANTS
  TypeOK
  LeaseExactlyOnce
  ReturnedIsNotHeld
  HeldBuffersLive
  OneFrameCallback
  FrameAccounting
  CloseReleasesAll
PROPERTIES
  NewestWins
  NoTornFrame
  CommitMatchesAck
  KeepsContract
