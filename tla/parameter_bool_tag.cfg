SPECIFICATION Spec
CONSTANTS
  p = p
  q = q
  r = r
  NameOrder <- MCNameOrder
  Values <- MCValues
  Threw = Threw
INVARIANT BoolReadAsBool
