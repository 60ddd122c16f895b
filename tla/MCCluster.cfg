SPECIFICATION CSpec
CONSTANTS
  w1 = w1
  w2 = w2
  w3 = w3
  Workers = {w1, w2, w3}
  MaxClients = 3
  Who <- MCWho
  MaxFaults = 2
  None = None
CHECK_DEADLOCK FALSE
INVARIANT RegistryIsTrue
PROPERTY CallsEnd
