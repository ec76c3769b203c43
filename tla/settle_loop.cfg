SPECIFICATION Spec
CONSTANTS
  Requests <- MCRequests
  Offers <- MCOffers
  TypeOf <- MCTypeOf
CHECK_DEADLOCK FALSE
INVARIANT LoopComputesMatches
