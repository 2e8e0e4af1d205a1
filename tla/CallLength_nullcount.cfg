CONSTANTS
  MaxLen = 2
  PageSize = 2
  CountReported = {TRUE, FALSE}
  MaxCalls = 1
SPECIFICATION Spec
INVARIANT MutationWithinProduced
