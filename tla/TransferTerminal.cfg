SPECIFICATION Spec
CONSTANTS
  MaxExports = 2
  Contents <- Kinds
  None = None
PROPERTIES
  TerminalStops
