SPECIFICATION FairSpec
CONSTANTS
  c1 = c1
  c2 = c2
  page = page
  css = css
  js = js
  Crawls <- TwoCrawls
  Urls <- ThreeUrls
  Loads <- MCLoads
  Assets <- TwoAssets
  Large <- OneLarge
  MaxAssets = 1
  MaxRequested = 1
  MaxRepeats = 2
  MaxLaunches = 2
INVARIANTS
  NoAssetTwice
  CapHoldsUnlessOverlap
  ContextsAreClosed
  SpareBrowsersComeFromRaces
PROPERTY
  CrawlEnds
CHECK_DEADLOCK FALSE
