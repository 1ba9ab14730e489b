SPECIFICATION Spec
CONSTANTS
  Side = 2
  Width = 2
  pawn = pawn
  enemy = enemy
  NULL = NULL
  Ids = {pawn, enemy}
  Mine = {pawn}
  Pawns = {pawn}
  Home <- MCHome
  Spots <- MCSpots
INVARIANTS TypeOK ImagesMatchBoard UnmarkedPawnWillBeMarked FrameShowsBoard
PROPERTY GlideEnds
