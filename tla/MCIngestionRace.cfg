SPECIFICATION Spec
CONSTANTS
  a1 = a1  a2 = a2  b1 = b1  ca = ca  cb = cb  dice = dice  linkedin = linkedin
  Cron = Cron  None = None
  Listings = {a1, a2, b1}
  SourceOf <- TwoProviders
  Url <- ThreeUrls
  Opening <- TwoOpenings
  Collections = {ca, cb}
  StaleAge = 1
INVARIANT
  RemainsActive
