\* Two instances on one database, which may have been version 1's, that start,
\* register the target and store the same two contents in either order, while
\* a client lists them; one fault anywhere.
SPECIFICATION ListingSpec
CONSTANTS
  s1 = s1
  s2 = s2
  NoRow = NoRow
  Legacy <- TheFirst
  Sessions <- TwoSessions
  Contents <- TwoContents
  Feeds <- BothOrders
  MaxClock = 2
  PageSize = 1
  MaxFaults = 1
INVARIANTS
  ListingIsComplete
  ExportsFollow
PROPERTIES
  StartupSucceeds
  ExportStateIsKept
  CatalogSpec
  EveryTransactionEnds
CHECK_DEADLOCK FALSE
