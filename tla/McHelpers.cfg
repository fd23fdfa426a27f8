\* Four cores, one to three calls of sync_barrier each; the whole cycle of
\* mc_rand; mc_rand_bit 400 times by one core, and twice by each of two.  Cores
\* stuck in the barrier are the subject of SyncBarrierReused and calls of
\* mc_rand_bit are bounded, so a state without a step is no error here.
CONSTANTS
  NumCores = 4
  Rounds = 3
  CallsAlone = 400
  CallsRacing = 2

SPECIFICATION FairSpec

INVARIANT RegistersNeverZero

PROPERTIES
  ImplementsBarrier
  EveryoneLeavesOnce
  SeedRecurs

CHECK_DEADLOCK FALSE
