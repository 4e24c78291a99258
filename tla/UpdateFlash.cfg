SPECIFICATION Spec
CONSTANTS
  Families = {"ameba", "amebad", "amebaz2"}
  Versions = {1, 2}
  ImgLen = 5
  BlockCells = 2
  Erased = Erased
  Mixed = Mixed
INVARIANTS NeverBootPartial CompleteFileVerifies VerifiedStays
