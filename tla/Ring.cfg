\* A ring of four slots whose indices wrap within the bound; every push length,
\* including one more than the ring can take.
CONSTANTS
  Capacity = 4
  W = 8
  MaxItems = 10
SPECIFICATION Spec
INVARIANTS
  TypeOK
  StaleReadsAreConservative
  InPlaceBlocksFit
  UnreadItemsIntact
PROPERTY FifoSpec
