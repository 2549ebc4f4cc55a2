\* Every scenario, each alone, with the two targets of its script.
CONSTANTS
  Targets = {"first", "second"}
  Scenarios <- MCScenarios
SPECIFICATION Spec
INVARIANTS
  TypeOK
  AnswerMeansDone
  PassMeansAttached
PROPERTIES
  DemoSettles
  TargetsEnd
\* A demo that has reported or exited has stopped.
CHECK_DEADLOCK FALSE
