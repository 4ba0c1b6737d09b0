SPECIFICATION Spec
CONSTANTS
  near = near
  mid = mid
  edge = edge
  bad = bad
  narrow = narrow
  wide = wide
  far = far
  k1 = k1
  Keys = {k1}
  Locations = {near}
  Malformed = {}
  Criteria = {wide}
  Cell <- MCCell
  Area <- MCArea
  QueriesFor <- MCQueriesFor
  GeoHashQueries <- MCGeoHashQueries
  MaxHandle = 2
  MaxRegistrations = 4
  MaxWrites = 1
  MaxRemovals = 1
  MaxCriteriaChanges = 0
  WritesWhileLoading = TRUE
CHECK_DEADLOCK FALSE
INVARIANTS ReadyMeansLoaded
