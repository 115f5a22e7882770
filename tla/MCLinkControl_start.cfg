CONSTANTS
  Client = {c1}
  CONNECT_TIMES = 2
SPECIFICATION Spec
INVARIANT
  StartHeeded
