CONSTANTS
  Keys = {"a", "b", "c", "d"}
  Setups <- MCSetups
SPECIFICATION Spec
INVARIANTS AnswersTruly
PROPERTIES Answered
CHECK_DEADLOCK FALSE
