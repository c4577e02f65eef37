CONSTANTS
  Kinds = {"word", "slides", "sheets"}
  MaxTarget = 3
  Words = {"a", "b", "c"}
  Blank = Blank
  Nothing = Nothing
  Inputs <- SomeInputs
SPECIFICATION MergeSpec
INVARIANTS
  MergedRight
  EitherOrder
  EligibleMeans
\* One request, one answer.
CHECK_DEADLOCK FALSE
