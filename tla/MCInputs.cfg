SPECIFICATION Spec
CONSTANTS
  Arguments <- MCArguments
  Inputs <- MCInputsSet
  I64Max = 3
  Modes = {"Strict", "Fast"}
INVARIANTS ChecksAgree RefusalsAreDeserved AnswersCanBeSentBack ValidatorsHold
CHECK_DEADLOCK FALSE
