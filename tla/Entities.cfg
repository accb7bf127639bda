SPECIFICATION Spec
CONSTANTS
  a = a
  b = b
  c = c
  x = x
  y = y
  Key = {a, b, c}
  Value = {x, y}
  Fields <- TwoFields
  Plain = {0, 1}
  NoValue = NoValue
  Absent = Absent
  None = None
  MaxCached = 2
  MaxPending = 2
  TouchLimit = 2
INVARIANTS TypeOK IndexSound PendingVisible UniqueValues
SYMMETRY Interchangeable
