CONSTANTS
  small = small
  large = large
  t1 = t1
  t2 = t2
  Sizes = {small, large}
  Textures = {t1, t2}
  NoTexture = NoTexture
  MaxSubmissionId = 2
  MaxSources = 1
  MaxGeneration = 1
  MaxConfigures = 1
SPECIFICATION Spec
SYMMETRY Symmetry
INVARIANTS
  TypeOK
  TextureOwnedOnce
  HeldTexturesRetained
  ClosedIsClean
