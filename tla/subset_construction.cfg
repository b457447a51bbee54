CONSTANTS
  StartState = s0
  State = {s0, s1}
  Symbol = {a, b}
  Machines <- MCMachines
SPECIFICATION Spec
INVARIANTS Simulation SameAnswer
PROPERTIES Implements
CHECK_DEADLOCK FALSE
