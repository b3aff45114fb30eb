CONSTANTS
  Query = {"q1", "q2"}
  Dir <- MCDir
  MaxBytes = 2
  MaxRestarts = 1
SPECIFICATION Spec
INVARIANTS ResetsAreExact
