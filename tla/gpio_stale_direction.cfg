SPECIFICATION Spec
CONSTANTS
  Procs = {p1, p2}
  Minors = {16, 17, 42, 43}
SYMMETRY Symmetry
INVARIANT ReadsCurrent
