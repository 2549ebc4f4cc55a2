\* No resize: two textures whose imports may fail.
CONSTANTS
  small = small
  large = large
  t1 = t1
  t2 = t2
  Sizes = {small}
  Textures = {t1, t2}
  NoTexture = NoTexture
  MaxSubmissionId = 2
  MaxSources = 1
  MaxGeneration = 1
  MaxConfigures = 0
SPECIFICATION LeaseSpec
PROPERTIES
  CompletedReleased
  SurfaceServed
