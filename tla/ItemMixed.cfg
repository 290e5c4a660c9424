SPECIFICATION Spec
CONSTANTS
  s1 = s1
  q1 = q1
  q2 = q2
  NoCode = NoCode
  NoId = 0
  N = 1
  MaxVersion = 2
  PadBase = 10000
  Run = {s1}
  Ask <- MCAsk
  Id <- MCId
  Typed = {1}
  Foreign <- MCForeign
  OriginOf <- MCOriginOf
  FirstUncastable <- MCCastable
  Roles = {"customer"}
  Visited = {"overview", "products", "scan", "add-step"}
SYMMETRY MCSymmetry
INVARIANT ItemOfItsChain
CHECK_DEADLOCK FALSE
