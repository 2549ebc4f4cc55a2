CONSTANTS
  small = small
  large = large
  t1 = t1
  t2 = t2
  Sizes = {small, large}
  Textures = {}
  NoTexture = NoTexture
  MaxSubmissionId = 1
  MaxSources = 1
  MaxGeneration = 1
  MaxConfigures = 2
SPECIFICATION SurfaceSpec
PROPERTIES
  SurfaceRefilled
