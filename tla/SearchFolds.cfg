SPECIFICATION Spec
CONSTANTS
  Drawers = {1, 2}
  Vectors = {11, 12, 13}
  Scopes = {21, 22}
  ScopesOf <- Wings
  Embeds <- Embedded
  Requests <- Asked
  Readers = {r1, r2}
  Folds = {f1, f2, f3}
  Dim <- OneDim
  Cosine <- Good
  Lexical <- Words
  QueryDim = 1
  K = 2
  ScanLimit = 1
  Numpy = TRUE
  MaxWrites = 2
  MaxStrays = 1
SYMMETRY Symmetry
INVARIANTS
  CachesAreRebuilt
  AnswerIsFresh
  FiledIsFound
  RowsPerDrawer
CHECK_DEADLOCK FALSE
