SPECIFICATION Spec
CONSTANTS
  Key = {1, 2, 3}
  Value = {1, 2, 3}
  Archives <- Dumps
  Address = {a1, a2, a3}
  Thread = {t1, t2}
  MaxLevel = 2
  NULL = NULL
  Header = Header
  Absent = Absent
SYMMETRY Symmetric
INVARIANT LoadsWhatWasDumped
