SPECIFICATION Spec
CONSTANTS
  near = near
  mid = mid
  edge = edge
  bad = bad
  narrow = narrow
  wide = wide
  far = far
  k1 = k1
  Keys = {k1}
  Locations = {near, mid, edge}
  Malformed = {bad}
  Criteria = {narrow, far}
  Cell <- MCCell
  Area <- MCArea
  QueriesFor <- MCQueriesFor
  GeoHashQueries <- MCGeoHashQueries
  MaxHandle = 3
  MaxRegistrations = 3
  MaxWrites = 1
  MaxRemovals = 1
  MaxCriteriaChanges = 1
  WritesWhileLoading = TRUE
CHECK_DEADLOCK FALSE
INVARIANTS TypeOK NoOrphanListener KnownKeysWatched InQueryAgreesWithCriteria OutstandingWillLoad BlocksHaveLocation
PROPERTIES EventsFollowEntered
