SPECIFICATION Spec
CONSTANTS
  r1 = r1  r2 = r2  a = a  b = b  x = x
  Request = {r1, r2}
  Name = {a, b, x}
  Job = {a, b}
  Single = Single
  Nil = Nil
  Params <- SomeParams
INVARIANTS OwnJobs
SYMMETRY Symmetry
CHECK_DEADLOCK FALSE
