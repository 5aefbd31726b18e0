\* One task of each job that the service accepts; with the first of them also
\* the whole life of the process, two requests and the sync loop.
SPECIFICATION FairSpec
CONSTANTS
  Width = 21
  TermOrder <- MCTermOrder
  Runes <- MCRunes
  SummaryMaxLength = 20
  Numerals <- MCNumerals
  Now = 7
  Jobs <- MCJobs
  Replies <- MCReplies
  Before <- MCBefore
  Requests = {r1, r2}
  Loop = loop
  MaxQueries = 1
  Alone <- MCAlone
INVARIANTS
  StoreOutlivesItsUsers
  ResultIsTrue
  StoredIsNormalized
  AcceptedRuns
PROPERTY
  ShutdownEnds
CHECK_DEADLOCK FALSE
