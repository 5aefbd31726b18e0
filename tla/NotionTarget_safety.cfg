\* Two instances that deliver two contents again and again, each from what it
\* has listed while the other was at work; two pages (bound: Confined).
SPECIFICATION Spec
CONSTANTS
  c1 = c1
  c2 = c2
  i1 = i1
  i2 = i2
  g1 = g1
  g2 = g2
  g3 = g3
  Nobody = Nobody
  Contents <- TwoContents
  Clients <- TwoInstances
  Pages <- TwoPages
  Appends = 1
  MaxLate = 1
INVARIANTS
  FinalIsComplete
  OnePage
  DeliveredIsThere
CONSTRAINT Confined
SYMMETRY Symmetric
CHECK_DEADLOCK FALSE
