SPECIFICATION FairSpec
CONSTANTS
  f1 = f1  f2 = f2  f3 = f3
  i1 = i1  i2 = i2
  d1 = d1  d2 = d2  d3 = d3
  File <- MCFiles
  Id <- MCId
  BatchOf <- MCSameId
  DigestOf <- MCDigests
  Class <- MCMixed
  MaxAttempts = 1
  MaxClaims = 2
  MaxFaults = 1
INVARIANTS
  FilesBelong
PROPERTIES
  EveryFileSettles
