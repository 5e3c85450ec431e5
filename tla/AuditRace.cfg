SPECIFICATION Spec
CONSTANTS
  Writers = {w1, w2}
  Files = {f1, f2, f3, f4, f5, f6}
  Capacity = 2
  NoFile = NoFile
  MaxHalves = 0
  PromptAgent = TRUE
SYMMETRY Alike
INVARIANTS RotationIsFollowed
