SPECIFICATION Spec
CONSTANTS
  Unit <- TheUnits
  Statement <- TheStatements
  Schemas <- TheSchemas
  Keep = Keep
  MaxUnits = 2
PROPERTIES
  SchemaAlwaysFound
