\* A parent that may close at any time.
CONSTANTS
  Places = {1}
  Parents = {"game"}
  NoParent = "none"
  NoPlace = NoPlace
  Scale = 100
SPECIFICATION Spec
INVARIANT
  AttachReturnsParent
