\* Two files of which the validator refuses nothing: two changes suffice for a
\* valid file not to be served.
SPECIFICATION Spec
CONSTANTS
  p1 = p1
  p2 = p2
  p3 = p3
  Oversize = Oversize
  Garbage = Garbage
  Nothing = Nothing
  Paths <- TwoPaths
  Scrapers <- Colliding
  Unbuildable <- NoneRefused
  MaxEdits = 2
INVARIANTS
  ValidFilesAreServed
CHECK_DEADLOCK FALSE
