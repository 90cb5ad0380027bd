SPECIFICATION BoundedSpec
CONSTANTS
  c1 = c1
  c2 = c2
  page = page
  css = css
  js = js
  Crawls = {c1}
  Urls <- ThreeUrls
  Loads <- MCLoads
  Assets <- TwoAssets
  Large <- OneLarge
  MaxAssets = 1
  MaxRequested = 1
  MaxRepeats = 2
  MaxLaunches = 2
PROPERTY
  CrawlEnds
CHECK_DEADLOCK FALSE
