SPECIFICATION Spec
CONSTANTS
  Unit <- TheUnits
  Statement <- BothSpellings
  Schemas <- TheSchemas
  Keep = Keep
  MaxUnits = 1
INVARIANT SessionTracked
