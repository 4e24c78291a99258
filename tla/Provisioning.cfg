SPECIFICATION FairSpec
CONSTANTS
  Images <- Flashed
  Sizes = {"fits", "edge", "large"}
  MaxKeys = 3
  MaxResets = 2
CHECK_DEADLOCK FALSE
INVARIANTS ProvidedStored PairMatches
PROPERTIES ProvisioningEnds
