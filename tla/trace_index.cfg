SPECIFICATION FairSpec
CONSTANTS
  Traces = {t1}
  BatchSize = 1
  MaxDay = 2
  MaxMishaps = 2
  None = None
INVARIANT ListingsWhole
PROPERTIES EventuallyIndexed EventuallyRevisited EventuallyReady
