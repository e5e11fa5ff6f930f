SPECIFICATION Spec
CONSTANTS
  Heads = {h1, h2}
  Elements = {a, b, c, d}
  Null = Null
SYMMETRY Symmetry
INVARIANTS TypeOK Links VisitsAll
