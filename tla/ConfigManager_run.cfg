\* Three files whose definitions collide, one definition the validator refuses,
\* two changes of the directory at any moment; polls go on.
SPECIFICATION FairSpec
CONSTANTS
  p1 = p1
  p2 = p2
  p3 = p3
  Oversize = Oversize
  Garbage = Garbage
  Nothing = Nothing
  Paths <- ThreePaths
  Scrapers <- Few
  Unbuildable <- RefusedFew
  MaxEdits = 2
INVARIANTS
  ConflictsAreResolved
  ServedIsVetted
PROPERTIES
  LastGoodIsKept
  DirectoryIsApplied
CHECK_DEADLOCK FALSE
