SPECIFICATION Spec
SYMMETRY Symmetry
CONSTANTS
  p1 = p1
  p2 = p2
  Proc <- Procs
  IBLEN = 3
  Typed <- Keys
  Lens = {2}
  MaxCells = 3
PROPERTIES
  LineAnnounced
  ImplementsLineBuffer
  ScreenShowsLine
