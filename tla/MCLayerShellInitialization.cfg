\* One output, requested; the compositor offers any globals and may be silent.
CONSTANTS
  Outputs = {"DP-1"}
  Requested = "DP-1"
  NoOutput = "none"
  MaxSocket = 3
SPECIFICATION Spec
INVARIANTS
  TypeOK
  ObjectsInUseExist
  RejectedIsClean
PROPERTIES
  InitializeSettles
