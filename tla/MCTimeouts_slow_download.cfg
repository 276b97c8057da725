SPECIFICATION TimeoutsSpec
CONSTANTS
  Second = 2
  TimeoutValues = {0, 1}
  Long = 9
  MaxUnits = 2
PROPERTIES CutOnlyWhenStalled
