\* X11: shown and hidden at any point of any call; one parent.
\* Win32: a parent that moves and closes, on a display of another scale.
\* macOS: two first screens.  Wayland-Electron: any call throws.
CONSTANTS
  Places = {1, 2}
  Parents = {"game"}
  NoParent = "none"
  NoPlace = NoPlace
  Scale = 150
  MaxInbox = 3
SPECIFICATION Spec
INVARIANTS
  TypeOK
  PolicyHolds
  PositionHolds
