SPECIFICATION Spec
CONSTANTS
  Unit <- TheUnits
  Statement <- OddSpellings
  Schemas <- TheSchemas
  Keep = Keep
  MaxUnits = 1
INVARIANTS
  SessionTracked
