CONSTANTS
  BundleFiles <- MCBundleFiles
  OtherFiles <- MCOtherFiles
  MaxRewrites = 1
  Services <- MCServices
  Databases = {"d1", "d2"}
SPECIFICATION Spec
INVARIANTS WholeIsComplete PassEarned
PROPERTIES Cleaned
CHECK_DEADLOCK FALSE
