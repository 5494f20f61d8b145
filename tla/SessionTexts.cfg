SPECIFICATION Spec
CONSTANTS
  Unit <- TheUnits
  Statement <- TheStatements
  Schemas <- TheSchemas
  Keep = Keep
  MaxUnits = 4
CONSTRAINT LongOnesInNewSessions
INVARIANTS
  SessionTracked
PROPERTIES
  WritesAreFound
  SchemaFound
