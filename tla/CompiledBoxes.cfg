SPECIFICATION Spec
CONSTANTS
  a = a
  b = b
  Threads = {a, b}
  MaxCompiles = 2
  MaxRestarts = 2
  Nothing = Nothing
INVARIANTS AnsweredCompilationIsActive TornIsNeverUsed ObservationUsesActive
PROPERTIES ProvidersConverge
