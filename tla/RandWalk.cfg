\* Four cores, three epochs: two reuses of the barrier by every core.
CONSTANTS
  NumCores = 4
  MAX_EPOCHS = 3

SPECIFICATION FairSpec

INVARIANTS
  TypeOK
  MutualExclusion
  ResetLosesNobody
  Lockstep
  Inv

PROPERTIES
  ImplementsBarrier
  ImplementsForkJoin
