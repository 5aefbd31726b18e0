\* Two instances and two contents: deliveries of a content that do not overlap
\* leave one page, whatever a cached list says (client_test.go:182).
SPECIFICATION Spec
CONSTANTS
  c1 = c1
  c2 = c2
  i1 = i1
  i2 = i2
  g1 = g1
  g2 = g2
  g3 = g3
  Nobody = Nobody
  Contents <- TwoContents
  Clients <- TwoInstances
  Pages <- ThreePages
  Appends = 0
  MaxLate = 0
INVARIANTS
  NeverDuplicated
SYMMETRY Symmetric
CHECK_DEADLOCK FALSE
