\* Three instances with the same path.
SPECIFICATION Spec
CONSTANTS
  p1 = p1
  p2 = p2
  p3 = p3
  f1 = f1
  f2 = f2
  f3 = f3
  f4 = f4
  Procs = {p1, p2, p3}
  Files = {f1, f2, f3, f4}
  NoProc = NoProc
  NoFile = NoFile
SYMMETRY Symmetry
INVARIANTS TypeOK RestingFileIsRight LockIsOwn
CHECK_DEADLOCK FALSE
