\* Two cores, two calls each: the smallest reuse of the barrier.
CONSTANTS
  NumCores = 2
  Rounds = 2

SPECIFICATION FairSpec

PROPERTY EveryoneLeaves

\* after its last call a core has nothing left to do
CHECK_DEADLOCK FALSE
