SPECIFICATION Spec
CONSTANTS
  Terms <- MCTerms
  Catalog <- MCCatalog
  MaxTerms = 2
  MaxExcludeTerms = 1
  Volumes <- MCVolumes
  ShortPaths = {"top-a"}
  Prefix <- MCPrefix
  Specs <- MCSpecs
  SpecOf <- MCSpecOf
  GlobalLimits <- MCGlobalLimits
  LocalLimits <- MCLocalLimits
  Infinite <- MCInfinite
INVARIANT LimitsKept
CHECK_DEADLOCK FALSE
