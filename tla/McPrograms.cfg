\* Three cores.  Two increments each with LR/SC, so that an SC can fail because
\* of either of the others more than once; two passes through a body of two
\* adds; two elements each over a memory that may answer old values, and one
\* element each for the template; matrices of five elements, too small for
\* mc_sanity.c, of two, too small for both, and of seven.
CONSTANTS
  NumCores = 3
  LrscN = 2
  AmoN = 4
  BODY = 2
  SanityN = 2
  TemplateN = 1
  MatrixSizes = {2, 5, 7}
  StaleValues = {0}

SPECIFICATION FairSpec

INVARIANTS
  NoLostAdd
  AmoPasses
  SanityVerdictIsExact
  SumsOverInitialised

PROPERTY ImplementsForkJoin
