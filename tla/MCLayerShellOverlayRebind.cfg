CONSTANTS
  small = small
  large = large
  t1 = t1
  t2 = t2
  Sizes = {small}
  Textures = {t1, t2}
  NoTexture = NoTexture
  MaxSubmissionId = 1
  MaxSources = 2
  MaxGeneration = 2
  MaxConfigures = 0
SPECIFICATION Spec
SYMMETRY Symmetry
INVARIANTS
  SourceServed
PROPERTIES
  LateCallbacksInert
  FramesInOrder
