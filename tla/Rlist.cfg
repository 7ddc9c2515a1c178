CONSTANTS
  Ranks = {0, 1, 2}
  cores <- MCcores
  Requests <- MCRequests
  FitModes = {"worst-fit", "best-fit", "first-fit"}
  HelloDown = FALSE
SPECIFICATION Spec
INVARIANTS
  AvailAgrees
  AllocExact
  DeniedOnlyIfNever
