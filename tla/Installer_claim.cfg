SPECIFICATION Spec
CONSTANTS
  None = None
  RuntimeOrder <- PythonThenBun
  Files <- OnlyBun
  Setups <- Changes
  python = python
  bun = bun
INVARIANT
  ClaimedRestorationIsOne
CHECK_DEADLOCK FALSE
