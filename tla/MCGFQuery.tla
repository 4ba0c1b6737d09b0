----------------------------- MODULE MCGFQuery -----------------------------
(***************************************************************************)
(* Small instances of GFQuery: two geohash cells, and criteria that watch  *)
(* one of them, both by two ranges, or both by one range.                  *)
(***************************************************************************)
EXTENDS GFQuery, TLC

CONSTANTS near, mid, edge, bad, narrow, wide, far, k1

\* Each of `wide' and `far' watches a location that its area does not accept,
\* and a change between `narrow' and `far' replaces every range.
CellOf == near :> 1 @@ bad :> 1 @@ mid :> 2 @@ edge :> 2

CriteriaAreas == narrow :> {near} @@ wide :> {near, mid} @@ far :> {mid, edge}
CriteriaQueries == narrow :> {{1}} @@ wide :> {{1}, {2}} @@ far :> {{1, 2}}

MCCell == [v \in Values |-> CellOf[v]]
MCArea == [c \in Criteria |-> CriteriaAreas[c] \cap Locations]
MCQueriesFor == [c \in Criteria |-> CriteriaQueries[c]]
MCGeoHashQueries == UNION {CriteriaQueries[c] : c \in Criteria}
=============================================================================
