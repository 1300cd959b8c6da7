SPECIFICATION DiagSpec
CONSTANTS
  Devices = {d1}
  Memory = {i1, i2}
  Procs = {p1, p2}
  Minors = {0, 1}
  Readers = {r1, r2}
  None = None
INVARIANT
  FoundInstanceExists
