SPECIFICATION FairSpec
CONSTANTS
  NSEM = 2
  Nserial = 2
  Process = {p1, p2}
  COMBUFSZ = 2
  a = a
  nl = nl
  Char <- MCChar
  Console = 1
  Heard = {1}
  Written <- MCWritten
  Newline = nl
  CR = cr
INVARIANT SemsOwned
INVARIANT OutputInOrder
INVARIANT StuckByClash
INVARIANT OutputDriven
PROPERTY OutputMoves
