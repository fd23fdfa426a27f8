\* Two cores, one array of three elements each; DATA one element too short, and
\* one too long.  The sort compares and exchanges positions fixed in advance,
\* so elements 0 and 1 are enough to tell whether it sorts (the 0-1 principle).
CONSTANTS
  NumCores = 2
  ARRAYS_PER_CORE = 1
  ARRAY_LEN = 3
  DataLens = {5, 7}
  Values = {0, 1}

SPECIFICATION FairSpec

INVARIANTS
  OneOwner
  SortedOrRefused

PROPERTY ImplementsForkJoin
