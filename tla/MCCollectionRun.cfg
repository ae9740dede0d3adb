SPECIFICATION Spec
CONSTANTS
  Listings = {1, 2}
  Runs = {a, b}
  AtOnce <- MCAtOnce
  Offers <- MCOffers
  PageSize = 2
  MaxPages = 2
  Attempts = 2
  MaxJobs = 2
  RepairLimit = 1
  ScrapedPays <- MCScrapedPays
INVARIANTS TypeOK CacheServes LocalRepairHelps
PROPERTIES NoNeedlessFetch NothingForgotten TruthfulStatistics EveryListingSeen
SYMMETRY MCSymmetry
