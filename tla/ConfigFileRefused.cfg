SPECIFICATION Spec
CONSTANTS
  Keys = {template, k1, k2}
  Template = template
  NoKey = NoKey
  Options = {o1, o2}
  Rests = {r1, r2}
  Broken = Broken
  MaxForeign = 1
INVARIANTS
  RefusedIsKept
