\* The proportions of the defaults, N < MATRIX_SIZE, on two cores.
CONSTANTS
  NumCores = 2
  N = 2
  MatrixSizes = {4}

SPECIFICATION Spec

INVARIANT InBounds
