CONSTANTS
  Jobs = {j1, j2, j3}
  Listers = {l1, l2}
  Limits = {2, 3}
SPECIFICATION Spec
SYMMETRY ListSymmetry
INVARIANTS TypeOK ListMissesNothing TruncationBounds
PROPERTY NewestThirdKept
