SPECIFICATION Spec
CONSTANTS
  a = a  b = b  ra = ra  rb = rb  rab = rab  rx = rx
  s1 = s1  s2 = s2  p1 = p1  p2 = p2  k1 = k1  k2 = k2  q1 = q1  q2 = q2
  Name = {a, b}
  Unset = Unset
  Query = {q1, q2}
  Own = Own
  Ref = {ra, rb, rab, rx}
  Matches <- MCMatches
  Secret = {s1, s2}
  Literal = Literal
  Place = {p1, p2}
  Label = {"t", "u"}
  Key = {k1, k2}
  DefaultKey = k2
  MaxVersion = 1
  Document <- MCDocument
INVARIANTS OwnPlace
CHECK_DEADLOCK FALSE
