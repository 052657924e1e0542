CONSTANTS
  i1 = i1
  i2 = i2
  i3 = i3
  i4 = i4
  i5 = i5
  i6 = i6
  i7 = i7
  a1 = a1
  a2 = a2
  a3 = a3
  a4 = a4
  old = old
  new = new
  r1 = r1
  r2 = r2
  None = None
  Schemas <- MCSchemas
  Configs = {old, new}
  Transferring = {new}
  PhoneGiven = TRUE
  Runners = {r1, r2}
  ToolIds = {i1, i2, i3, i4, i5, i6, i7}
  AssistantIds = {a1, a2, a3, a4}
  MaxRuns = 3
  MaxFaults = 1
SPECIFICATION Spec
INVARIANTS TypeOK NoDuplicateTools AssistantsAreComplete
PROPERTY RunsAreUniform
SYMMETRY RunnersAreAlike
CHECK_DEADLOCK FALSE
