\* Every ring of up to six places with two backends.
SPECIFICATION Spec
CONSTANTS
  Places = 6
  b1 = b1
  b2 = b2
  Backends = {b1, b2}
  MaxTaken = 7
INVARIANTS ClosestExact
PROPERTIES OneChanges
