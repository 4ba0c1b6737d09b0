SPECIFICATION Spec
CONSTANTS
  near = near
  mid = mid
  edge = edge
  bad = bad
  narrow = narrow
  wide = wide
  far = far
  k1 = k1
  Keys = {k1}
  Locations = {near, mid, edge}
  Malformed = {}
  Criteria = {wide}
  Cell <- MCCell
  Area <- MCArea
  QueriesFor <- MCQueriesFor
  GeoHashQueries <- MCGeoHashQueries
  MaxHandle = 2
  MaxRegistrations = 2
  MaxWrites = 3
  MaxRemovals = 0
  MaxCriteriaChanges = 0
  WritesWhileLoading = FALSE
CHECK_DEADLOCK FALSE
INVARIANTS QuiescentAccurate ReadyMeansLoaded
