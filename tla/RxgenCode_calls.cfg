\* Functions with up to three parameters.
CONSTANTS
  Parameters <- ParametersDef
  MaxParameters = 3
  Limit = 1
  Strays <- StraysDef
SPECIFICATION CallSpec
INVARIANTS
  RequestIsXdr
  
  
  StubCompiles
