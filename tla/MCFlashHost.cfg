SPECIFICATION Spec
CONSTANTS
  Host <- TwoHosts
  Page <- EveryPage
  Deployments <- AllDeployments
  BadSets <- NoneOrOneBad
  MaxFaults = 1
  Repeats = 2
  RandomReads = 2
INVARIANTS TagsOwned CountersExact PagesNotContended FlashMatchesStatus VerdictExact OneBusWrites
