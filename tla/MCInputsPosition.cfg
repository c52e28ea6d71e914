SPECIFICATION Spec
CONSTANTS
  Arguments <- MCArguments
  Inputs <- MCInputsSet
  I64Max = 3
  Modes = {"Strict"}
INVARIANT VariablesFit
CHECK_DEADLOCK FALSE
