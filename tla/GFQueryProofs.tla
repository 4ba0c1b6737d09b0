--------------------------- MODULE GFQueryProofs ---------------------------
(***************************************************************************)
(* Theorems of GFQuery, for every set of keys, locations, criteria and     *)
(* ranges, and for every bound: type correctness and the safety            *)
(* invariants; in which order its observers are called; and what a query   *)
(* shows once Firebase has nothing more to say, when it is set up once and *)
(* the stored data does not change while its ranges load.                  *)
(***************************************************************************)
EXTENDS GFQuery, FiniteSetTheorems, TLAPS

-----------------------------------------------------------------------------
(* The two queues: what Dispatch, Taken and Frozen do to their contents.   *)

\* A dispatched batch joins the queue: all of its entries, and only they.
LEMMA DispatchFacts ==
  ASSUME NEW T, NEW queue \in Seq(T), NEW batch \in T
  PROVE  /\ Dispatch(queue, batch) \in Seq(T)
         /\ Queued(Dispatch(queue, batch)) = Queued(queue) \cup batch
<1>1. CASE batch = {}
  BY <1>1 DEF Dispatch
<1>2. CASE batch # {}
  <2> DEFINE new == Append(queue, batch)
  <2>1. Dispatch(queue, batch) = new
    BY <1>2 DEF Dispatch
  <2>2. /\ new \in Seq(T)
        /\ DOMAIN new = DOMAIN queue \cup {Len(queue) + 1}
        /\ new[Len(queue) + 1] = batch
        /\ \A i \in DOMAIN queue : new[i] = queue[i]
    OBVIOUS
  <2>3. Queued(new) = Queued(queue) \cup batch
    <3> HIDE DEF new
    <3>1. ASSUME NEW x \in Queued(new)
          PROVE  x \in Queued(queue) \cup batch
      BY <2>2 DEF Queued
    <3>2. ASSUME NEW x \in Queued(queue) \cup batch
          PROVE  x \in Queued(new)
      BY <2>2 DEF Queued
    <3> QED  BY <3>1, <3>2
  <2> QED  BY <2>1, <2>2, <2>3
<1> QED  BY <1>1, <1>2

\* Taking x off the first batch leaves every other entry in the queue, and
\* adds none.
LEMMA TakenFacts ==
  ASSUME NEW T, NEW queue \in Seq(T), queue # <<>>, NEW x \in Head(queue),
         \A batch \in T : batch \ {x} \in T
  PROVE  /\ Taken(queue, x) \in Seq(T)
         /\ Queued(Taken(queue, x)) \subseteq Queued(queue)
         /\ Queued(queue) \subseteq Queued(Taken(queue, x)) \cup {x}
<1>0. 1 \in DOMAIN queue /\ Head(queue) = queue[1] /\ DOMAIN queue = 1..Len(queue)
  OBVIOUS
<1>1. CASE Head(queue) = {x}
  <2> DEFINE rest == Tail(queue)
  <2>1. Taken(queue, x) = rest
    BY <1>1 DEF Taken
  <2>2. /\ rest \in Seq(T)
        /\ DOMAIN rest = 1..(Len(queue) - 1)
        /\ \A i \in DOMAIN rest : rest[i] = queue[i + 1]
    OBVIOUS
  <2> HIDE DEF rest
  <2>3. ASSUME NEW y \in Queued(rest)
        PROVE  y \in Queued(queue)
    <3>1. PICK i \in DOMAIN rest : y \in rest[i]
      BY <2>3 DEF Queued
    <3>2. i + 1 \in DOMAIN queue /\ y \in queue[i + 1]
      BY <3>1, <2>2, <1>0
    <3> QED  BY <3>2 DEF Queued
  <2>4. ASSUME NEW y \in Queued(queue), y # x
        PROVE  y \in Queued(rest)
    <3>1. PICK j \in DOMAIN queue : y \in queue[j]
      BY <2>4 DEF Queued
    <3>2. j # 1
      BY <1>0, <1>1, <2>4, <3>1
    <3>3. j - 1 \in DOMAIN rest /\ rest[j - 1] = queue[j]
      BY <3>2, <2>2, <1>0
    <3> QED  BY <3>1, <3>3 DEF Queued
  <2> QED  BY <2>1, <2>2, <2>3, <2>4
<1>2. CASE Head(queue) # {x}
  <2> DEFINE rest == [queue EXCEPT ![1] = queue[1] \ {x}]
  <2>1. Taken(queue, x) = rest
    BY <1>2 DEF Taken
  <2>2. /\ rest \in Seq(T)
        /\ DOMAIN rest = DOMAIN queue
        /\ rest[1] = queue[1] \ {x}
        /\ \A i \in DOMAIN queue : i # 1 => rest[i] = queue[i]
    BY <1>0
  <2> HIDE DEF rest
  <2>3. ASSUME NEW y \in Queued(rest)
        PROVE  y \in Queued(queue)
    BY <2>2 DEF Queued
  <2>4. ASSUME NEW y \in Queued(queue), y # x
        PROVE  y \in Queued(rest)
    BY <2>2, <2>4 DEF Queued
  <2> QED  BY <2>1, <2>2, <2>3, <2>4
<1> QED  BY <1>1, <1>2

\* What becomes of one block when the infos of the keys `removed' are dropped.
FrozenBlock(b, removed) ==
  IF b.location = Live /\ b.key \in removed
    THEN Block(b.type, b.to, b.key, locationInfos[b.key].location) ELSE b

\* Freezing the locations of removed keys keeps the queue well formed, and
\* freezes each block of it.
LEMMA FrozenFacts ==
  ASSUME locationInfos \in [Keys -> InfoSet],
         NEW queue \in Seq(SUBSET BlockSet), NEW removed \in SUBSET Keys
  PROVE  /\ Frozen(queue, removed) \in Seq(SUBSET BlockSet)
         /\ \A b \in Queued(Frozen(queue, removed)) :
              \E a \in Queued(queue) : a \in BlockSet /\ b = FrozenBlock(a, removed)
<1> DEFINE frozen == Frozen(queue, removed)
<1>1. ASSUME NEW b \in BlockSet
      PROVE  FrozenBlock(b, removed) \in BlockSet
  BY <1>1 DEF FrozenBlock, Block, BlockSet, InfoSet
<1>2. frozen = [i \in 1..Len(queue) |-> {FrozenBlock(b, removed) : b \in queue[i]}]
  BY DEF Frozen, FrozenBlock
<1>3. \A i \in 1..Len(queue) : queue[i] \in SUBSET BlockSet
  OBVIOUS
<1>4. \A i \in 1..Len(queue) : {FrozenBlock(b, removed) : b \in queue[i]} \in SUBSET BlockSet
  BY <1>1, <1>3
<1>5. frozen \in Seq(SUBSET BlockSet)
  BY <1>2, <1>4
<1>6. ASSUME NEW b \in Queued(frozen)
      PROVE  \E a \in Queued(queue) : a \in BlockSet /\ b = FrozenBlock(a, removed)
  <2>1. PICK i \in 1..Len(queue) : b \in {FrozenBlock(a, removed) : a \in queue[i]}
    BY <1>2, <1>6 DEF Queued
  <2>2. PICK a \in queue[i] : b = FrozenBlock(a, removed)
    BY <2>1
  <2>3. i \in DOMAIN queue
    OBVIOUS
  <2> QED  BY <2>2, <2>3, <1>3 DEF Queued
<1> QED  BY <1>5, <1>6

\* The blocks that a change of one key's info dispatches.
LEMMA BlocksForFacts ==
  ASSUME NEW obs \in [ObserverTypes -> SUBSET Nat], NEW c, NEW k \in Keys, NEW l
  PROVE  /\ BlocksFor(obs, c, k, l) \in SUBSET BlockSet
         /\ \A b \in BlocksFor(obs, c, k, l) : b.key = k /\ b.location = Live
<1>1. EventFor(c, locationInfos[k], l) \in EventTypes \cup {"none"}
  BY DEF EventFor, EventTypes
<1>2. ASSUME NEW t \in EventTypes
      PROVE  /\ Blocks(obs, t, k, Live) \in SUBSET BlockSet
             /\ \A b \in Blocks(obs, t, k, Live) : b.key = k /\ b.location = Live
  BY DEF Blocks, Block, BlockSet, BlockTypes, ObserverTypes
<1> QED
  BY <1>1, <1>2 DEF BlocksFor

\* The blocks of checkAndFireReadyEvent are typed and carry no key.
LEMMA ReadyBlocksFacts ==
  ASSUME NEW hs \in SUBSET Nat
  PROVE  /\ ReadyBlocks(hs) \in SUBSET BlockSet
         /\ \A b \in ReadyBlocks(hs) : b.type = "ready" /\ b.location = NoLocation
BY DEF ReadyBlocks, Block, BlockSet, BlockTypes

-----------------------------------------------------------------------------
(* The inductive invariant: the safety invariants, and what they rest on.  *)

\* Registrations are numbered in order, and no two watched ranges share one.
RegistrationsOK ==
  /\ \A q \in GeoHashQueries : firebaseHandles[q] <= registrations
  /\ \A q, r \in Watched : firebaseHandles[q] = firebaseHandles[r] => q = r

\* An event on its way was raised for a range that held the value, and the
\* observer it names, if still attached, watches that range.
EventsOK ==
  \A e \in Queued(events) : e.type \in {"added", "changed", "removed"} =>
    /\ e.reg <= registrations
    /\ \A l \in listens : l.reg = e.reg => l.query = e.query
    /\ e.type # "removed" => Holds(e.query, e.value)

\* A block that will read an info object finds the key's present one, and a
\* block that will not carries a location if it reports an entry or a move.
BlockOK(b, known) ==
  /\ b.location = Live => b.key \in known
  /\ b.type \in {"entered", "moved"} => b.location \in Locations \cup {Live}

BlocksOK == \A b \in Queued(callbacks) : BlockOK(b, KnownKeys)

IInv ==
  /\ TypeOK
  /\ RegistrationsOK /\ NoOrphanListener /\ EventsOK
  /\ KnownKeysWatched /\ InQueryAgreesWithCriteria /\ BlocksOK
  /\ OutstandingWillLoad

-----------------------------------------------------------------------------
(* The infos and the blocks that hold them.                                *)

\* A known key has a location.
LEMMA KnownLocation ==
  ASSUME locationInfos \in [Keys -> InfoSet], KnownKeysWatched, NEW k \in KnownKeys
  PROVE  locationInfos[k].location \in Locations
BY DataAssumption DEF KnownKeys, KnownKeysWatched, Holds, InfoSet

\* After the keys `removed' are dropped and their blocks frozen, every block
\* is in order for the keys that remain.
LEMMA FrozenBlocks ==
  ASSUME locationInfos \in [Keys -> InfoSet], KnownKeysWatched,
         NEW queue \in Seq(SUBSET BlockSet), NEW removed \in SUBSET Keys,
         \A b \in Queued(queue) : BlockOK(b, KnownKeys)
  PROVE  /\ Frozen(queue, removed) \in Seq(SUBSET BlockSet)
         /\ \A b \in Queued(Frozen(queue, removed)) : BlockOK(b, KnownKeys \ removed)
<1>1. Frozen(queue, removed) \in Seq(SUBSET BlockSet)
  BY FrozenFacts
<1>2. ASSUME NEW b \in Queued(Frozen(queue, removed))
      PROVE  BlockOK(b, KnownKeys \ removed)
  <2>1. PICK a \in Queued(queue) : a \in BlockSet /\ b = FrozenBlock(a, removed)
    BY FrozenFacts
  <2>2. CASE a.location = Live /\ a.key \in removed
    <3>1. /\ b.type = a.type /\ b.key = a.key
          /\ b.location = locationInfos[a.key].location
      BY <2>1, <2>2 DEF FrozenBlock, Block
    <3>2. a.key \in KnownKeys
      BY <2>1, <2>2 DEF BlockOK
    <3>3. b.location \in Locations
      BY <3>1, <3>2, KnownLocation
    <3> QED  BY <3>3, DataAssumption DEF Values, BlockOK
  <2>3. CASE ~(a.location = Live /\ a.key \in removed)
    <3>1. b = a
      BY <2>1, <2>3 DEF FrozenBlock
    <3> QED  BY <3>1, <2>1, <2>3 DEF BlockOK
  <2> QED  BY <2>2, <2>3
<1> QED  BY <1>1, <1>2

-----------------------------------------------------------------------------
(* updateQueries.                                                          *)

Added(c) == QueriesFor[c] \ Watched
Deleted(c) == Watched \ QueriesFor[c]

\* What updateQueries does to the ranges and their Firebase observers.
LEMMA UpdateQueriesRanges ==
  ASSUME TypeOK, NEW c \in Criteria, NEW obs, NEW queue0,
         updateQueries(c, obs, queue0)
  PROVE  /\ queries' \in SUBSET GeoHashQueries
         /\ queries' = QueriesFor[c]
         /\ Watched' = QueriesFor[c]
         /\ registrations' \in Nat /\ registrations <= registrations'
         /\ outstandingQueries' = (outstandingQueries \ Deleted(c)) \cup Added(c)
         /\ \E number \in [Added(c) -> Nat] :
              /\ \A q \in Added(c) : registrations < number[q] /\ number[q] <= registrations'
              /\ \A q, r \in Added(c) : number[q] = number[r] => q = r
              /\ firebaseHandles' = [q \in GeoHashQueries |->
                   IF q \in Added(c) THEN number[q] ELSE firebaseHandles[q]]
              /\ listens' = Detached(Deleted(c)) \cup
                   {[reg |-> number[q], query |-> q, synced |-> FALSE] : q \in Added(c)}
              /\ singles' = singles \cup {[reg |-> number[q], query |-> q] : q \in Added(c)}
         /\ UNCHANGED <<stored, gets, events>>
<1> DEFINE toAdd == Added(c)
<1>1. QueriesFor[c] \in SUBSET GeoHashQueries /\ QueriesFor[c] # NoQueries
  BY DataAssumption DEF NoQueries
<1>2. Watched = IF queries = NoQueries THEN {} ELSE queries
  BY DEF Watched
<1>3. /\ queries' = QueriesFor[c]
      /\ outstandingQueries' = (outstandingQueries \ Deleted(c)) \cup toAdd
      /\ registrations' = registrations + Cardinality(toAdd)
      /\ UNCHANGED <<stored, gets, events>>
      /\ \E number \in Numberings(toAdd) :
              /\ firebaseHandles' = [q \in GeoHashQueries |->
                   IF q \in toAdd THEN number[q] ELSE firebaseHandles[q]]
              /\ listens' = Detached(Deleted(c)) \cup
                   {[reg |-> number[q], query |-> q, synced |-> FALSE] : q \in toAdd}
              /\ singles' = singles \cup {[reg |-> number[q], query |-> q] : q \in toAdd}
  BY <1>2 DEF updateQueries, Added, Deleted
<1>4. Cardinality(toAdd) \in Nat
  <2>1. toAdd \in SUBSET GeoHashQueries
    BY <1>1 DEF Added
  <2>2. IsFiniteSet(toAdd)
    BY <2>1, FS_Subset, DataAssumption
  <2> QED  BY <2>2, FS_CardinalityType
<1>5. Watched' = QueriesFor[c]
  BY <1>1, <1>3 DEF Watched, NoQueries
<1>6. registrations \in Nat
  BY DEF TypeOK
<1>7. PICK number \in Numberings(toAdd) :
              /\ firebaseHandles' = [q \in GeoHashQueries |->
                   IF q \in toAdd THEN number[q] ELSE firebaseHandles[q]]
              /\ listens' = Detached(Deleted(c)) \cup
                   {[reg |-> number[q], query |-> q, synced |-> FALSE] : q \in toAdd}
              /\ singles' = singles \cup {[reg |-> number[q], query |-> q] : q \in toAdd}
  BY <1>3
<1>8. /\ number \in [toAdd -> Nat]
      /\ \A q \in toAdd : registrations < number[q] /\ number[q] <= registrations'
      /\ \A q, r \in toAdd : number[q] = number[r] => q = r
  <2> HIDE DEF toAdd
  <2>1. /\ number \in [toAdd -> (registrations + 1)..(registrations + Cardinality(toAdd))]
        /\ \A q, r \in toAdd : number[q] = number[r] => q = r
    BY <1>7 DEF Numberings
  <2> QED  BY <2>1, <1>3, <1>4, <1>6
<1>9. registrations' \in Nat /\ registrations <= registrations'
  BY <1>3, <1>4, <1>6
<1> HIDE DEF toAdd
<1>10. \E n \in [toAdd -> Nat] :
              /\ \A q \in toAdd : registrations < n[q] /\ n[q] <= registrations'
              /\ \A q, r \in toAdd : n[q] = n[r] => q = r
              /\ firebaseHandles' = [q \in GeoHashQueries |->
                   IF q \in toAdd THEN n[q] ELSE firebaseHandles[q]]
              /\ listens' = Detached(Deleted(c)) \cup
                   {[reg |-> n[q], query |-> q, synced |-> FALSE] : q \in toAdd}
              /\ singles' = singles \cup {[reg |-> n[q], query |-> q] : q \in toAdd}
  BY <1>7, <1>8
<1> QED  BY <1>1, <1>3, <1>5, <1>9, <1>10 DEF toAdd

\* It keeps one attached observer for each watched range, under a handle of
\* its own, and attaches none under the handle of an event on its way.
LEMMA UpdateQueriesListeners ==
  ASSUME TypeOK, RegistrationsOK, NoOrphanListener, EventsOK,
         NEW c \in Criteria, NEW obs, NEW queue0, updateQueries(c, obs, queue0)
  PROVE  RegistrationsOK' /\ NoOrphanListener' /\ EventsOK'
<1>1. PICK number \in [Added(c) -> Nat] :
              /\ \A q \in Added(c) : registrations < number[q] /\ number[q] <= registrations'
              /\ \A q, r \in Added(c) : number[q] = number[r] => q = r
              /\ firebaseHandles' = [q \in GeoHashQueries |->
                   IF q \in Added(c) THEN number[q] ELSE firebaseHandles[q]]
              /\ listens' = Detached(Deleted(c)) \cup
                   {[reg |-> number[q], query |-> q, synced |-> FALSE] : q \in Added(c)}
  BY UpdateQueriesRanges
<1>2. /\ queries' \in SUBSET GeoHashQueries /\ queries' = QueriesFor[c]
      /\ Watched' = QueriesFor[c]
      /\ registrations' \in Nat /\ registrations <= registrations'
      /\ events' = events
  BY UpdateQueriesRanges
<1>3. /\ Watched \in SUBSET GeoHashQueries
      /\ registrations \in Nat
      /\ firebaseHandles \in [GeoHashQueries -> Nat]
      /\ listens \in SUBSET [reg : Nat, query : GeoHashQueries, synced : BOOLEAN]
  BY DEF TypeOK, Watched
<1>4. RegistrationsOK'
  <2>1. \A q \in GeoHashQueries : firebaseHandles'[q] <= registrations'
    BY <1>1, <1>2, <1>3 DEF RegistrationsOK
  <2>2. \A q, r \in Watched' : firebaseHandles'[q] = firebaseHandles'[r] => q = r
    BY <1>1, <1>2, <1>3 DEF RegistrationsOK, Added
  <2> QED  BY <2>1, <2>2 DEF RegistrationsOK
<1>5. \A l \in Detached(Deleted(c)) :
        /\ l \in listens /\ l.query \in QueriesFor[c] /\ l.query \notin Added(c)
        /\ l.reg = firebaseHandles[l.query]
  BY <1>3 DEF Detached, Deleted, Added, NoOrphanListener
<1>6. \A l \in listens' : l.query \in Watched' /\ l.reg = firebaseHandles'[l.query]
  <2>1. ASSUME NEW l \in Detached(Deleted(c))
        PROVE  l.query \in Watched' /\ l.reg = firebaseHandles'[l.query]
    BY <1>1, <1>2, <1>3, <1>5
  <2>2. ASSUME NEW q \in Added(c)
        PROVE  q \in Watched' /\ number[q] = firebaseHandles'[q]
    BY <1>1, <1>2 DEF Added
  <2> QED  BY <1>1, <2>1, <2>2
<1>7. \A q \in Watched' : \E l \in listens' : l.query = q
  <2> SUFFICES ASSUME NEW q \in Watched'
               PROVE  \E l \in listens' : l.query = q
    OBVIOUS
  <2>1. CASE q \in Added(c)
    <3>1. [reg |-> number[q], query |-> q, synced |-> FALSE] \in listens'
      BY <1>1, <2>1
    <3> QED  BY <3>1
  <2>2. CASE q \notin Added(c)
    <3>1. q \in Watched
      BY <1>2, <2>2 DEF Added
    <3>2. PICK l \in listens : l.query = q
      BY <3>1 DEF NoOrphanListener
    <3>3. \A r \in Deleted(c) : l.reg # firebaseHandles[r]
      BY <1>2, <3>1, <3>2 DEF Deleted, NoOrphanListener, RegistrationsOK
    <3>4. l \in Detached(Deleted(c))
      BY <3>2, <3>3 DEF Detached
    <3> QED  BY <1>1, <3>2, <3>4
  <2> QED  BY <2>1, <2>2
<1>8. EventsOK'
  <2>0. Queued(events)' = Queued(events)
    BY <1>2 DEF Queued
  <2> SUFFICES ASSUME NEW e \in Queued(events),
                      e.type \in {"added", "changed", "removed"}
               PROVE  /\ e.reg <= registrations'
                      /\ \A l \in listens' : l.reg = e.reg => l.query = e.query
                      /\ e.type # "removed" => Holds(e.query, e.value)
    BY <2>0 DEF EventsOK
  <2>1. /\ e.reg <= registrations /\ e.reg \in Nat
        /\ \A l \in listens : l.reg = e.reg => l.query = e.query
        /\ e.type # "removed" => Holds(e.query, e.value)
    BY DEF EventsOK, TypeOK, Queued, EventSet
  <2>2. e.reg <= registrations'
    BY <2>1, <1>2, <1>3
  <2>3. ASSUME NEW l \in listens', l.reg = e.reg
        PROVE  l.query = e.query
    <3>1. \A q \in Added(c) : number[q] # e.reg
      BY <1>1, <1>3, <2>1
    <3>2. l \in Detached(Deleted(c))
      BY <1>1, <2>3, <3>1
    <3> QED  BY <3>2, <2>1, <2>3 DEF Detached
  <2> QED  BY <2>1, <2>2, <2>3
<1> QED  BY <1>4, <1>6, <1>7, <1>8 DEF NoOrphanListener

\* It keeps what the query knows of each key watched and in agreement with
\* the criterion, and the blocks it dispatches and freezes well formed.
LEMMA UpdateQueriesInfos ==
  ASSUME TypeOK, KnownKeysWatched, BlocksOK,
         NEW c \in Criteria, NEW obs \in [ObserverTypes -> SUBSET Nat],
         NEW queue0 \in Seq(SUBSET BlockSet),
         \A b \in Queued(queue0) : BlockOK(b, KnownKeys),
         updateQueries(c, obs, queue0), criteria' = c
  PROVE  /\ locationInfos' \in [Keys -> InfoSet]
         /\ callbacks' \in Seq(SUBSET BlockSet)
         /\ KnownKeysWatched' /\ InQueryAgreesWithCriteria' /\ BlocksOK'
<1> DEFINE new == QueriesFor[c]
           oldLocations ==
             {k \in KnownKeys : ~queriesContainGeoHash(new, locationInfos[k].location)}
           reported ==
             UNION {BlocksFor(obs, c, k, locationInfos[k].location) : k \in KnownKeys}
           ready == IF outstandingQueries' = {} THEN ReadyBlocks(obs["ready"]) ELSE {}
           queue1 == Dispatch(queue0, reported)
           queue2 == Frozen(queue1, oldLocations)
<1>1. /\ locationInfos' = [k \in Keys |->
           IF k \in KnownKeys \ oldLocations
             THEN InfoFor(c, locationInfos[k].location) ELSE NoInfo]
      /\ callbacks' = Dispatch(queue2, ready)
  BY DEF updateQueries
<1>2. /\ locationInfos \in [Keys -> InfoSet]
      /\ KnownKeys \in SUBSET Keys
      /\ oldLocations \in SUBSET Keys
  BY DEF TypeOK, KnownKeys
<1>3. Watched' = new
  BY UpdateQueriesRanges
<1>4. \A k \in KnownKeys : locationInfos[k].location \in Locations
  BY <1>2, KnownLocation
<1>5. KnownKeys' = KnownKeys \ oldLocations
  BY <1>1, <1>2 DEF KnownKeys, InfoFor, NoInfo
<1>6. locationInfos' \in [Keys -> InfoSet]
  BY <1>1, <1>2, <1>4 DEF InfoFor, NoInfo, InfoSet, locationIsInQuery
<1>7. KnownKeysWatched'
  BY <1>1, <1>2, <1>3 DEF KnownKeysWatched, InfoFor, NoInfo, queriesContainGeoHash,
                          Holds
<1>8. InQueryAgreesWithCriteria'
  BY <1>1 DEF InQueryAgreesWithCriteria, InfoFor, NoInfo, locationIsInQuery
<1>9. reported \in SUBSET BlockSet /\ \A b \in reported : b.key \in KnownKeys /\ b.location = Live
  <2>1. \A k \in KnownKeys :
          /\ BlocksFor(obs, c, k, locationInfos[k].location) \in SUBSET BlockSet
          /\ \A b \in BlocksFor(obs, c, k, locationInfos[k].location) :
               b.key = k /\ b.location = Live
    BY <1>2, BlocksForFacts
  <2> QED  BY <2>1
<1>10. ready \in SUBSET BlockSet /\ \A b \in ready : b.type = "ready" /\ b.location = NoLocation
  BY ReadyBlocksFacts DEF ObserverTypes
<1>11. queue1 \in Seq(SUBSET BlockSet) /\ Queued(queue1) = Queued(queue0) \cup reported
  <2> HIDE DEF reported
  <2> QED  BY <1>9, DispatchFacts
<1>12. \A b \in Queued(queue1) : BlockOK(b, KnownKeys)
  BY <1>9, <1>11 DEF BlockOK
<1> HIDE DEF queue1, ready, oldLocations
<1>13. /\ queue2 \in Seq(SUBSET BlockSet)
       /\ \A b \in Queued(queue2) : BlockOK(b, KnownKeys \ oldLocations)
  BY <1>2, <1>11, <1>12, FrozenBlocks
<1> HIDE DEF queue2
<1>14. /\ callbacks' \in Seq(SUBSET BlockSet)
       /\ Queued(callbacks') = Queued(queue2) \cup ready
  <2>1. ready \in SUBSET BlockSet /\ queue2 \in Seq(SUBSET BlockSet)
    BY <1>10, <1>13
  <2>2. /\ Dispatch(queue2, ready) \in Seq(SUBSET BlockSet)
        /\ Queued(Dispatch(queue2, ready)) = Queued(queue2) \cup ready
    BY ONLY <2>1, DispatchFacts
  <2> QED  BY <1>1, <2>2
<1>15. BlocksOK'
  <2>1. \A b \in ready : BlockOK(b, KnownKeys \ oldLocations)
    BY <1>10 DEF BlockOK, NoLocation, Live
  <2>2. \A b \in Queued(callbacks') : BlockOK(b, KnownKeys')
    BY <1>5, <1>13, <1>14, <2>1
  <2> QED  BY <2>2 DEF BlocksOK, BlockOK
<1> QED  BY <1>6, <1>7, <1>8, <1>14, <1>15

\* It keeps a value event to come for every range that is waited for.
LEMMA UpdateQueriesOutstanding ==
  ASSUME TypeOK, OutstandingWillLoad, NEW c \in Criteria, NEW obs, NEW queue0,
         updateQueries(c, obs, queue0)
  PROVE  OutstandingWillLoad'
<1>1. PICK number \in [Added(c) -> Nat] :
         singles' = singles \cup {[reg |-> number[q], query |-> q] : q \in Added(c)}
  BY UpdateQueriesRanges
<1>2. /\ outstandingQueries' = (outstandingQueries \ Deleted(c)) \cup Added(c)
      /\ events' = events
  BY UpdateQueriesRanges
<1>3. ASSUME NEW q \in Added(c)
      PROVE  \E s \in singles' : s.query = q
  <2>1. [reg |-> number[q], query |-> q] \in singles'
    BY <1>1
  <2> QED  BY <2>1
<1>4. ASSUME NEW q \in outstandingQueries
      PROVE  \/ \E s \in singles' : s.query = q
             \/ \E e \in Queued(events') : e.type = "value" /\ e.query = q
  BY <1>1, <1>2 DEF OutstandingWillLoad
<1> QED  BY <1>2, <1>3, <1>4 DEF OutstandingWillLoad

\* The variables it assigns keep their types.
LEMMA UpdateQueriesType ==
  ASSUME TypeOK, NEW c \in Criteria, NEW obs, NEW queue0,
         updateQueries(c, obs, queue0)
  PROVE  /\ queries' \in (SUBSET GeoHashQueries) \cup {NoQueries}
         /\ firebaseHandles' \in [GeoHashQueries -> Nat]
         /\ outstandingQueries' \in SUBSET GeoHashQueries
         /\ listens' \in SUBSET [reg : Nat, query : GeoHashQueries, synced : BOOLEAN]
         /\ singles' \in SUBSET [reg : Nat, query : GeoHashQueries]
         /\ registrations' \in Nat
         /\ UNCHANGED <<stored, gets, events>>
<1>1. PICK number \in [Added(c) -> Nat] :
              /\ firebaseHandles' = [q \in GeoHashQueries |->
                   IF q \in Added(c) THEN number[q] ELSE firebaseHandles[q]]
              /\ listens' = Detached(Deleted(c)) \cup
                   {[reg |-> number[q], query |-> q, synced |-> FALSE] : q \in Added(c)}
              /\ singles' = singles \cup {[reg |-> number[q], query |-> q] : q \in Added(c)}
  BY UpdateQueriesRanges
<1>2. /\ queries' \in SUBSET GeoHashQueries /\ queries' = QueriesFor[c]
      /\ registrations' \in Nat
      /\ outstandingQueries' = (outstandingQueries \ Deleted(c)) \cup Added(c)
      /\ UNCHANGED <<stored, gets, events>>
  BY UpdateQueriesRanges
<1>3. Added(c) \in SUBSET GeoHashQueries
  BY <1>2 DEF Added
<1>4. /\ listens \in SUBSET [reg : Nat, query : GeoHashQueries, synced : BOOLEAN]
      /\ singles \in SUBSET [reg : Nat, query : GeoHashQueries]
      /\ firebaseHandles \in [GeoHashQueries -> Nat]
      /\ outstandingQueries \in SUBSET GeoHashQueries
  BY DEF TypeOK
<1>5. Detached(Deleted(c)) \in SUBSET [reg : Nat, query : GeoHashQueries, synced : BOOLEAN]
  BY <1>4 DEF Detached
<1>6. firebaseHandles' \in [GeoHashQueries -> Nat]
  BY <1>1, <1>4
<1>7. listens' \in SUBSET [reg : Nat, query : GeoHashQueries, synced : BOOLEAN]
  <2>1. \A q \in Added(c) : [reg |-> number[q], query |-> q, synced |-> FALSE]
           \in [reg : Nat, query : GeoHashQueries, synced : BOOLEAN]
    BY <1>3
  <2>2. \A l \in listens' : \/ l \in Detached(Deleted(c))
                            \/ \E q \in Added(c) :
                                 l = [reg |-> number[q], query |-> q, synced |-> FALSE]
    BY <1>1
  <2> QED  BY <1>5, <2>1, <2>2
<1>8. singles' \in SUBSET [reg : Nat, query : GeoHashQueries]
  BY <1>1, <1>3, <1>4
<1>9. outstandingQueries' \in SUBSET GeoHashQueries
  BY <1>2, <1>3, <1>4
<1> QED  BY <1>2, <1>6, <1>7, <1>8, <1>9

-----------------------------------------------------------------------------
(* reset.                                                                  *)

\* reset detaches every Firebase observer and leaves blocks that can run
\* without the infos.
LEMMA ResetFacts ==
  ASSUME IInv, reset
  PROVE  /\ listens' = {}
         /\ RegistrationsOK' /\ NoOrphanListener' /\ EventsOK'
         /\ KnownKeysWatched' /\ BlocksOK' /\ OutstandingWillLoad'
         /\ \A k \in Keys : locationInfos'[k] = NoInfo
         /\ callbacks' \in Seq(SUBSET BlockSet)
<1> USE DEF IInv
<1>1. listens' = {}
  <2>1. listens' = Detached(Watched)
    BY DEF reset, Watched
  <2>2. \A l \in listens : l.query \in Watched /\ l.reg = firebaseHandles[l.query]
    BY DEF NoOrphanListener
  <2> QED  BY <2>1, <2>2 DEF Detached
<1>2. Watched' = {} /\ outstandingQueries' = {} /\ registrations' = registrations
      /\ events' = events
  BY DEF reset, Watched
<1>3. firebaseHandles' = [q \in GeoHashQueries |-> 0] /\ registrations \in Nat
  BY DEF reset, TypeOK
<1>4. RegistrationsOK' /\ NoOrphanListener' /\ OutstandingWillLoad'
  BY <1>1, <1>2, <1>3 DEF RegistrationsOK, NoOrphanListener, OutstandingWillLoad
<1>5. EventsOK'
  BY <1>1, <1>2 DEF EventsOK, Queued
<1>6. \A k \in Keys : locationInfos'[k] = NoInfo
  BY DEF reset
<1>7. KnownKeysWatched' /\ KnownKeys' = {}
  BY <1>6 DEF KnownKeysWatched, KnownKeys, NoInfo
<1>8. /\ callbacks' \in Seq(SUBSET BlockSet)
      /\ \A b \in Queued(callbacks') : BlockOK(b, KnownKeys \ Keys)
  <2>1. callbacks \in Seq(SUBSET BlockSet) /\ locationInfos \in [Keys -> InfoSet]
    BY DEF TypeOK
  <2>2. \A b \in Queued(callbacks) : BlockOK(b, KnownKeys)
    BY DEF BlocksOK
  <2>3. callbacks' = Frozen(callbacks, Keys)
    BY DEF reset
  <2> QED  BY <2>1, <2>2, <2>3, FrozenBlocks
<1>9. BlocksOK'
  <2>1. KnownKeys \ Keys = {}
    BY DEF KnownKeys
  <2> QED  BY <1>7, <1>8, <2>1 DEF BlocksOK, BlockOK
<1> QED  BY <1>1, <1>4, <1>5, <1>6, <1>7, <1>8, <1>9

\* reset keeps every variable in its type.
LEMMA ResetType ==
  ASSUME IInv, reset
  PROVE  /\ queries' \in (SUBSET GeoHashQueries) \cup {NoQueries}
         /\ firebaseHandles' \in [GeoHashQueries -> Nat]
         /\ outstandingQueries' \in SUBSET GeoHashQueries
         /\ observers' \in [ObserverTypes -> SUBSET Nat]
         /\ locationInfos' \in [Keys -> InfoSet]
         /\ callbacks' \in Seq(SUBSET BlockSet)
         /\ listens' \in SUBSET [reg : Nat, query : GeoHashQueries, synced : BOOLEAN]
         /\ UNCHANGED <<singles, gets, stored, events, registrations>>
BY ResetFacts DEF reset, InfoSet, NoInfo

-----------------------------------------------------------------------------
(* The public methods keep the invariant.                                  *)

\* A step that changes neither the ranges nor the infos nor Firebase, and
\* adds to the callback queue only blocks that carry no location.
LEMMA QuietStep ==
  ASSUME IInv, TypeOK',
         UNCHANGED <<criteria, queries, firebaseHandles, outstandingQueries,
                     locationInfos, listens, singles, events, registrations>>,
         \A b \in Queued(callbacks') :
           \/ b \in Queued(callbacks)
           \/ b.location = NoLocation /\ b.type \in {"ready", "initial"}
  PROVE  IInv'
<1>1. /\ RegistrationsOK' /\ NoOrphanListener' /\ KnownKeysWatched'
      /\ InQueryAgreesWithCriteria'
  BY DEF IInv, RegistrationsOK, NoOrphanListener, KnownKeysWatched,
         InQueryAgreesWithCriteria, Watched
<1>2. EventsOK' /\ OutstandingWillLoad'
  BY DEF IInv, EventsOK, OutstandingWillLoad, Queued
<1>3. KnownKeys' = KnownKeys
  BY DEF KnownKeys
<1>4. \A b \in Queued(callbacks') : BlockOK(b, KnownKeys)
  BY DEF IInv, BlocksOK, BlockOK, NoLocation, Live
<1> QED  BY <1>1, <1>2, <1>3, <1>4 DEF IInv, BlocksOK, BlockOK

\* A step that runs updateQueries, all of it.
LEMMA UpdateStep ==
  ASSUME IInv, NEW c \in Criteria, NEW obs \in [ObserverTypes -> SUBSET Nat],
         NEW queue0 \in Seq(SUBSET BlockSet),
         \A b \in Queued(queue0) : BlockOK(b, KnownKeys),
         updateQueries(c, obs, queue0), criteria' = c, observers' = obs,
         currentHandle' \in Nat,
         writes' \in Nat, removals' \in Nat, criteriaChanges' \in Nat,
         heard' \in SUBSET (Nat \X Keys), joined' \in SUBSET (Nat \X Keys),
         readied' \in SUBSET Nat
  PROVE  IInv'
<1> USE DEF IInv
<1>1. RegistrationsOK' /\ NoOrphanListener' /\ EventsOK'
  BY UpdateQueriesListeners
<1>2. /\ locationInfos' \in [Keys -> InfoSet] /\ callbacks' \in Seq(SUBSET BlockSet)
      /\ KnownKeysWatched' /\ InQueryAgreesWithCriteria' /\ BlocksOK'
  BY UpdateQueriesInfos
<1>3. OutstandingWillLoad'
  BY UpdateQueriesOutstanding
<1>4. TypeOK'
  BY <1>2, UpdateQueriesType DEF TypeOK
<1> QED  BY <1>1, <1>2, <1>3, <1>4

\* observeEventType:withBlock: preserves the invariant.
LEMMA ObserveEventType ==
  ASSUME IInv, NEW t \in EventTypes, observeEventType(t)
  PROVE  IInv'
<1> DEFINE obs == [observers EXCEPT ![t] = @ \cup {currentHandle}]
           first == {Block("initial", currentHandle, NoKey, NoLocation)}
           queue == IF t = "entered" THEN Append(callbacks, first) ELSE callbacks
<1>1. /\ currentHandle \in Nat
      /\ observers \in [ObserverTypes -> SUBSET Nat]
      /\ callbacks \in Seq(SUBSET BlockSet)
      /\ joined \in SUBSET (Nat \X Keys)
  BY DEF IInv, TypeOK
<1>2. obs \in [ObserverTypes -> SUBSET Nat] /\ observers' = obs
  BY <1>1 DEF observeEventType
<1>3. first \in SUBSET BlockSet /\ first # {}
  BY <1>1 DEF Block, BlockSet, BlockTypes
<1>4. /\ queue \in Seq(SUBSET BlockSet)
      /\ \A b \in Queued(queue) : b \in Queued(callbacks) \/ b \in first
  <2>1. queue = callbacks \/ queue = Dispatch(callbacks, first)
    BY <1>3 DEF Dispatch
  <2> HIDE DEF first, queue
  <2>2. /\ Dispatch(callbacks, first) \in Seq(SUBSET BlockSet)
        /\ Queued(Dispatch(callbacks, first)) = Queued(callbacks) \cup first
    BY ONLY <1>1, <1>3, DispatchFacts
  <2> QED  BY <1>1, <2>1, <2>2
<1>5. \A b \in first : b.location = NoLocation /\ b.type = "initial"
  BY DEF Block
<1>6. /\ currentHandle' \in Nat
      /\ joined' \in SUBSET (Nat \X Keys)
      /\ UNCHANGED <<criteria, boundVars, heard, readied>>
  BY <1>1 DEF observeEventType
<1> HIDE DEF obs, first, queue
<1>7. CASE queries = NoQueries /\ updateQueries(criteria, obs, queue)
  <2>1. \A b \in Queued(queue) : BlockOK(b, KnownKeys)
    BY <1>4, <1>5 DEF IInv, BlocksOK, BlockOK, NoLocation, Live
  <2>2. /\ criteria \in Criteria
        /\ writes \in Nat /\ removals \in Nat /\ criteriaChanges \in Nat
        /\ heard \in SUBSET (Nat \X Keys) /\ readied \in SUBSET Nat
    BY DEF IInv, TypeOK
  <2>3. /\ criteria' = criteria /\ heard' = heard /\ readied' = readied
        /\ writes' = writes /\ removals' = removals /\ criteriaChanges' = criteriaChanges
    BY <1>6 DEF boundVars
  <2> QED  BY <1>2, <1>4, <1>6, <1>7, <2>1, <2>2, <2>3, UpdateStep
<1>8. CASE /\ callbacks' = queue
           /\ UNCHANGED <<queries, firebaseHandles, outstandingQueries,
                          locationInfos, firebaseVars>>
  <2>1. TypeOK'
    BY <1>2, <1>4, <1>6, <1>8 DEF IInv, TypeOK, firebaseVars, boundVars
  <2>2. \A b \in Queued(callbacks') :
          \/ b \in Queued(callbacks)
          \/ b.location = NoLocation /\ b.type \in {"ready", "initial"}
    BY <1>4, <1>5, <1>8
  <2>3. UNCHANGED <<criteria, queries, firebaseHandles, outstandingQueries,
                    locationInfos, listens, singles, events, registrations>>
    BY <1>6, <1>8 DEF firebaseVars
  <2> QED  BY <2>1, <2>2, <2>3, QuietStep
<1> QED  BY <1>7, <1>8 DEF observeEventType, obs, queue, first

\* observeReadyWithBlock: preserves the invariant.
LEMMA ObserveReady ==
  ASSUME IInv, observeReadyWithBlock
  PROVE  IInv'
<1> DEFINE obs == [observers EXCEPT !["ready"] = @ \cup {currentHandle}]
           batch == ReadyBlocks({currentHandle})
<1>1. /\ currentHandle \in Nat
      /\ observers \in [ObserverTypes -> SUBSET Nat]
      /\ callbacks \in Seq(SUBSET BlockSet)
  BY DEF IInv, TypeOK
<1>2. obs \in [ObserverTypes -> SUBSET Nat] /\ observers' = obs
  BY <1>1 DEF observeReadyWithBlock
<1>3. /\ batch \in SUBSET BlockSet /\ batch # {}
      /\ \A b \in batch : b.type = "ready" /\ b.location = NoLocation
  BY <1>1, ReadyBlocksFacts DEF ReadyBlocks
<1>4. currentHandle' \in Nat /\ UNCHANGED <<criteria, boundVars, historyVars>>
  BY <1>1 DEF observeReadyWithBlock
<1> HIDE DEF obs, batch
<1>5. CASE queries = NoQueries /\ updateQueries(criteria, obs, callbacks)
  <2>1. \A b \in Queued(callbacks) : BlockOK(b, KnownKeys)
    BY DEF IInv, BlocksOK
  <2>2. /\ criteria \in Criteria
        /\ writes \in Nat /\ removals \in Nat /\ criteriaChanges \in Nat
        /\ heard \in SUBSET (Nat \X Keys) /\ joined \in SUBSET (Nat \X Keys)
        /\ readied \in SUBSET Nat
    BY DEF IInv, TypeOK
  <2>3. /\ criteria' = criteria /\ heard' = heard /\ readied' = readied /\ joined' = joined
        /\ writes' = writes /\ removals' = removals /\ criteriaChanges' = criteriaChanges
    BY <1>4 DEF boundVars, historyVars
  <2> QED  BY <1>1, <1>2, <1>4, <1>5, <2>1, <2>2, <2>3, UpdateStep
<1>6. CASE /\ callbacks' = IF outstandingQueries = {}
                             THEN Append(callbacks, batch) ELSE callbacks
           /\ UNCHANGED <<queries, firebaseHandles, outstandingQueries,
                          locationInfos, firebaseVars>>
  <2>1. callbacks' = callbacks \/ callbacks' = Dispatch(callbacks, batch)
    BY <1>3, <1>6 DEF Dispatch
  <2>2. /\ Dispatch(callbacks, batch) \in Seq(SUBSET BlockSet)
        /\ Queued(Dispatch(callbacks, batch)) = Queued(callbacks) \cup batch
    BY ONLY <1>1, <1>3, DispatchFacts
  <2>3. callbacks' \in Seq(SUBSET BlockSet)
    BY <1>1, <2>1, <2>2
  <2>4. TypeOK'
    BY <1>2, <1>4, <1>6, <2>3 DEF IInv, TypeOK, firebaseVars, boundVars, historyVars
  <2>5. \A b \in Queued(callbacks') :
          \/ b \in Queued(callbacks)
          \/ b.location = NoLocation /\ b.type \in {"ready", "initial"}
    BY <1>3, <2>1, <2>2
  <2>6. UNCHANGED <<criteria, queries, firebaseHandles, outstandingQueries,
                    locationInfos, listens, singles, events, registrations>>
    BY <1>4, <1>6 DEF firebaseVars
  <2> QED  BY <2>4, <2>5, <2>6, QuietStep
<1> QED  BY <1>5, <1>6 DEF observeReadyWithBlock, obs, batch

\* setCenter:, setRadius: and setRegion: preserve the invariant.
LEMMA SetCriteria ==
  ASSUME IInv, NEW c \in Criteria, setCriteria(c)
  PROVE  IInv'
<1>1. /\ callbacks \in Seq(SUBSET BlockSet)
      /\ observers \in [ObserverTypes -> SUBSET Nat] /\ currentHandle \in Nat
      /\ writes \in Nat /\ removals \in Nat /\ criteriaChanges \in Nat
      /\ heard \in SUBSET (Nat \X Keys) /\ joined \in SUBSET (Nat \X Keys)
      /\ readied \in SUBSET Nat
  BY DEF IInv, TypeOK
<1>2. /\ criteria' = c /\ observers' = observers /\ currentHandle' = currentHandle
      /\ heard' = heard /\ readied' = readied /\ joined' = joined
      /\ writes' = writes /\ removals' = removals /\ criteriaChanges' = criteriaChanges + 1
  BY DEF setCriteria, historyVars
<1>3. CASE queries # NoQueries /\ updateQueries(c, observers, callbacks)
  <2>1. \A b \in Queued(callbacks) : BlockOK(b, KnownKeys)
    BY DEF IInv, BlocksOK
  <2> QED  BY <1>1, <1>2, <1>3, <2>1, UpdateStep
<1>4. CASE /\ queries = NoQueries
           /\ UNCHANGED <<queries, firebaseHandles, outstandingQueries,
                          locationInfos, callbacks, firebaseVars>>
  <2>1. TypeOK'
    BY <1>1, <1>2, <1>4 DEF IInv, TypeOK, firebaseVars
  <2>2. Watched = {}
    BY <1>4 DEF Watched
  <2>3. \A k \in Keys : ~locationInfos[k].known /\ ~locationInfos[k].isInQuery
    BY <2>2 DEF IInv, KnownKeysWatched, InQueryAgreesWithCriteria, TypeOK, InfoSet
  <2>4. InQueryAgreesWithCriteria'
    BY <1>4, <2>3 DEF InQueryAgreesWithCriteria
  <2>5. /\ RegistrationsOK' /\ NoOrphanListener' /\ KnownKeysWatched'
    BY <1>4 DEF IInv, RegistrationsOK, NoOrphanListener, KnownKeysWatched, Watched,
                firebaseVars
  <2>6. EventsOK' /\ OutstandingWillLoad' /\ BlocksOK'
    BY <1>4 DEF IInv, EventsOK, OutstandingWillLoad, BlocksOK, BlockOK, KnownKeys, Queued,
                firebaseVars
  <2> QED  BY <2>1, <2>4, <2>5, <2>6 DEF IInv
<1> QED  BY <1>3, <1>4 DEF setCriteria

\* A step that runs reset, all of it.
LEMMA ResetStep ==
  ASSUME IInv, reset, UNCHANGED <<criteria, currentHandle, writes, criteriaChanges, historyVars>>,
         removals' \in Nat
  PROVE  IInv'
<1>1. TypeOK'
  BY ResetType DEF IInv, TypeOK, historyVars
<1>2. InQueryAgreesWithCriteria'
  BY ResetFacts DEF InQueryAgreesWithCriteria, NoInfo
<1> QED  BY <1>1, <1>2, ResetFacts DEF IInv

\* removeAllObservers and removeObserverWithFirebaseHandle: preserve the
\* invariant.
LEMMA RemoveObservers ==
  ASSUME IInv,
         removeAllObservers \/ \E h \in Registered : removeObserverWithFirebaseHandle(h)
  PROVE  IInv'
<1>1. removals \in Nat
  BY DEF IInv, TypeOK
<1>2. CASE removeAllObservers
  BY <1>1, <1>2, ResetStep DEF removeAllObservers
<1>3. ASSUME NEW h \in Registered, removeObserverWithFirebaseHandle(h)
      PROVE  IInv'
  <2> DEFINE remaining == [t \in ObserverTypes |-> observers[t] \ {h}]
  <2>1. /\ removals' \in Nat
        /\ UNCHANGED <<criteria, currentHandle, writes, criteriaChanges, historyVars>>
    BY <1>1, <1>3 DEF removeObserverWithFirebaseHandle
  <2>2. CASE reset
    BY <2>1, <2>2, ResetStep
  <2>3. CASE /\ observers' = remaining
             /\ UNCHANGED <<queries, firebaseHandles, outstandingQueries,
                            locationInfos, callbacks, firebaseVars>>
    <3>1. remaining \in [ObserverTypes -> SUBSET Nat]
      BY DEF IInv, TypeOK
    <3>2. TypeOK'
      BY <2>1, <2>3, <3>1 DEF IInv, TypeOK, firebaseVars, historyVars
    <3>3. Queued(callbacks') = Queued(callbacks)
      BY <2>3
    <3>4. UNCHANGED <<criteria, queries, firebaseHandles, outstandingQueries,
                      locationInfos, listens, singles, events, registrations>>
      BY <2>1, <2>3 DEF firebaseVars
    <3> QED  BY <3>2, <3>3, <3>4, QuietStep
  <2> QED  BY <1>3, <2>2, <2>3 DEF removeObserverWithFirebaseHandle
<1> QED  BY <1>2, <1>3

-----------------------------------------------------------------------------
(* The handlers of Firebase events keep the invariant.                     *)

\* What remains of the event queue when one event is handled.
LEMMA TakenEvent ==
  ASSUME TypeOK, events # <<>>, NEW e \in Head(events), events' = Taken(events, e)
  PROVE  /\ e \in EventSet /\ e \in Queued(events)
         /\ events' \in Seq(SUBSET EventSet)
         /\ Queued(events') \subseteq Queued(events)
         /\ Queued(events) \subseteq Queued(events') \cup {e}
<1>1. events \in Seq(SUBSET EventSet)
  BY DEF TypeOK
<1>2. \A batch \in SUBSET EventSet : batch \ {e} \in SUBSET EventSet
  OBVIOUS
<1>3. /\ Taken(events, e) \in Seq(SUBSET EventSet)
      /\ Queued(Taken(events, e)) \subseteq Queued(events)
      /\ Queued(events) \subseteq Queued(Taken(events, e)) \cup {e}
  BY <1>1, <1>2, TakenFacts
<1>4. 1 \in DOMAIN events /\ e \in events[1] /\ events[1] \in SUBSET EventSet
  BY <1>1
<1> QED  BY <1>3, <1>4 DEF Queued

\* The handlers of Firebase events preserve the invariant.
LEMMA FirebaseEvent ==
  ASSUME IInv, firebaseEvent
  PROVE  IInv'
<1> USE DEF IInv
<1>1. PICK e \in Head(events) :
        /\ events # <<>> /\ events' = Taken(events, e)
        /\ \/ childAddedOrChanged(e) \/ childRemoved(e) \/ childRemovedAnswer(e)
           \/ initialDataLoaded(e) \/ eventOfRemovedObserver(e)
  BY DEF firebaseEvent
<1>2. /\ e \in EventSet /\ e \in Queued(events)
      /\ events' \in Seq(SUBSET EventSet)
      /\ Queued(events') \subseteq Queued(events)
      /\ Queued(events) \subseteq Queued(events') \cup {e}
  BY <1>1, TakenEvent
<1>3. UNCHANGED <<criteria, firebaseHandles, observers, currentHandle, stored,
                  listens, singles, registrations, writes, removals,
                  criteriaChanges, heard, joined, readied>>
  BY DEF firebaseEvent, boundVars, historyVars
<1>4. queries' = queries /\ Watched' = Watched
  BY <1>1 DEF childAddedOrChanged, childRemoved, childRemovedAnswer,
              initialDataLoaded, eventOfRemovedObserver, Watched
<1>5. RegistrationsOK' /\ NoOrphanListener'
  BY <1>3, <1>4 DEF RegistrationsOK, NoOrphanListener
<1>6. EventsOK'
  BY <1>2, <1>3 DEF EventsOK
<1>7. OutstandingWillLoad'
  <2>1. ASSUME NEW q \in outstandingQueries, ~\E s \in singles : s.query = q,
               e.type = "value" => e.query # q
        PROVE  \E x \in Queued(events') : x.type = "value" /\ x.query = q
    <3>1. PICK x \in Queued(events) : x.type = "value" /\ x.query = q
      BY <2>1 DEF OutstandingWillLoad
    <3> QED  BY <3>1, <2>1, <1>2
  <2>2. CASE initialDataLoaded(e)
    BY <1>3, <2>1, <2>2 DEF initialDataLoaded, OutstandingWillLoad
  <2>3. CASE e.type # "value" /\ outstandingQueries' = outstandingQueries
    BY <1>3, <2>1, <2>3 DEF OutstandingWillLoad
  <2>4. initialDataLoaded(e) \/ (e.type # "value" /\ outstandingQueries' = outstandingQueries)
    BY <1>1 DEF childAddedOrChanged, childRemoved, childRemovedAnswer,
                eventOfRemovedObserver
  <2> QED  BY <2>2, <2>3, <2>4
<1>8. /\ locationInfos \in [Keys -> InfoSet] /\ callbacks \in Seq(SUBSET BlockSet)
      /\ observers \in [ObserverTypes -> SUBSET Nat] /\ criteria \in Criteria
      /\ gets \in [Keys -> Nat] /\ outstandingQueries \in SUBSET GeoHashQueries
      /\ \A b \in Queued(callbacks) : BlockOK(b, KnownKeys)
  BY DEF TypeOK, BlocksOK
<1>9. /\ gets' \in [Keys -> Nat] /\ outstandingQueries' \in SUBSET GeoHashQueries
  BY <1>1, <1>8 DEF childAddedOrChanged, childRemoved, childRemovedAnswer,
              initialDataLoaded, eventOfRemovedObserver
<1>10. /\ locationInfos' \in [Keys -> InfoSet] /\ callbacks' \in Seq(SUBSET BlockSet)
       /\ KnownKeysWatched' /\ InQueryAgreesWithCriteria' /\ BlocksOK'
  <2>1. CASE locationInfos' = locationInfos /\ callbacks' = callbacks
    <3>1. KnownKeysWatched' /\ InQueryAgreesWithCriteria'
      BY <1>3, <1>4, <2>1 DEF KnownKeysWatched, InQueryAgreesWithCriteria
    <3>2. BlocksOK'
      BY <1>8, <2>1 DEF BlocksOK, BlockOK, KnownKeys
    <3> QED  BY <1>8, <2>1, <3>1, <3>2
  <2>2. CASE childAddedOrChanged(e) /\ e.value \in Locations
    <3> DEFINE k == e.key
               batch == BlocksFor(observers, criteria, k, e.value)
    <3>1. /\ k \in Keys
          /\ locationInfos' = [locationInfos EXCEPT ![k] = InfoFor(criteria, e.value)]
          /\ callbacks' = Dispatch(callbacks, batch)
      BY <1>2, <2>2 DEF childAddedOrChanged, EventSet
    <3>2. InfoFor(criteria, e.value) \in InfoSet
      BY <2>2 DEF InfoFor, InfoSet, locationIsInQuery
    <3>3. locationInfos' \in [Keys -> InfoSet]
      BY <1>8, <3>1, <3>2
    <3>4. \E q \in Watched : Holds(q, e.value)
      <4>1. PICK l \in listens : l.reg = e.reg
        BY <2>2 DEF childAddedOrChanged, Attached
      <4>2. /\ e.type \in {"added", "changed"}
        BY <2>2 DEF childAddedOrChanged
      <4>3. l.query = e.query /\ Holds(e.query, e.value)
        BY <1>2, <4>1, <4>2 DEF EventsOK
      <4>4. l.query \in Watched
        BY <4>1 DEF NoOrphanListener
      <4> QED  BY <4>3, <4>4
    <3>5. KnownKeysWatched'
      <4>1. ASSUME NEW x \in Keys, locationInfos'[x].known
            PROVE  \E q \in Watched : Holds(q, locationInfos'[x].location)
        BY <1>8, <3>1, <3>4, <4>1 DEF KnownKeysWatched, InfoFor
      <4> QED  BY <1>4, <4>1 DEF KnownKeysWatched, Holds
    <3>6. InQueryAgreesWithCriteria'
      BY <1>3, <1>8, <3>1 DEF InQueryAgreesWithCriteria, InfoFor, locationIsInQuery
    <3>7. batch \in SUBSET BlockSet /\ \A b \in batch : b.key = k /\ b.location = Live
      BY <1>8, <3>1, BlocksForFacts
    <3> HIDE DEF batch, k
    <3>8. /\ Dispatch(callbacks, batch) \in Seq(SUBSET BlockSet)
          /\ Queued(Dispatch(callbacks, batch)) = Queued(callbacks) \cup batch
      BY ONLY <1>8, <3>7, DispatchFacts
    <3>9. KnownKeys' = KnownKeys \cup {k}
      BY <1>8, <3>1 DEF KnownKeys, InfoFor
    <3>10. \A b \in Queued(callbacks') : BlockOK(b, KnownKeys')
      BY <1>8, <3>1, <3>7, <3>8, <3>9 DEF BlockOK
    <3> QED  BY <3>1, <3>3, <3>5, <3>6, <3>8, <3>10 DEF BlocksOK, BlockOK
  <2>3. CASE childRemovedAnswer(e) /\ ~UNCHANGED <<locationInfos, callbacks>>
    <3> DEFINE k == e.key
               location == IF e.value \in Locations THEN e.value ELSE NoLocation
               batch == IF locationInfos[k].isInQuery
                          THEN Blocks(observers, "exited", k, location) ELSE {}
               frozen == Frozen(callbacks, {k})
    <3>1. /\ k \in Keys
          /\ locationInfos' = [locationInfos EXCEPT ![k] = NoInfo]
          /\ callbacks' = Dispatch(frozen, batch)
      BY <1>2, <2>3 DEF childRemovedAnswer, EventSet
    <3>2. locationInfos' \in [Keys -> InfoSet]
      BY <1>8, <3>1 DEF NoInfo, InfoSet
    <3>3. KnownKeysWatched'
      BY <1>4, <1>8, <3>1 DEF KnownKeysWatched, NoInfo, Holds
    <3>4. InQueryAgreesWithCriteria'
      BY <1>3, <1>8, <3>1 DEF InQueryAgreesWithCriteria, NoInfo
    <3>5. /\ batch \in SUBSET BlockSet
          /\ \A b \in batch : b.type = "exited" /\ b.location # Live
      <4>1. location \in Locations \cup {NoLocation} /\ location # Live
        BY DataAssumption DEF Values, NoLocation, Live
      <4> HIDE DEF location
      <4>2. observers["exited"] \in SUBSET Nat
        BY <1>8 DEF ObserverTypes, EventTypes
      <4>3. \A h \in observers["exited"] :
              /\ Block("exited", h, k, location) \in BlockSet
              /\ Block("exited", h, k, location).type = "exited"
              /\ Block("exited", h, k, location).location # Live
        BY <3>1, <4>1, <4>2 DEF Block, BlockSet, BlockTypes, EventTypes
      <4> QED  BY <4>3 DEF Blocks
    <3>6. frozen \in Seq(SUBSET BlockSet) /\ \A b \in Queued(frozen) : BlockOK(b, KnownKeys \ {k})
      BY <1>8, <3>1, FrozenBlocks
    <3> HIDE DEF batch, frozen, k
    <3>7. /\ Dispatch(frozen, batch) \in Seq(SUBSET BlockSet)
          /\ Queued(Dispatch(frozen, batch)) = Queued(frozen) \cup batch
      BY ONLY <3>5, <3>6, DispatchFacts
    <3>8. KnownKeys' = KnownKeys \ {k}
      BY <1>8, <3>1 DEF KnownKeys, NoInfo
    <3>9. \A b \in Queued(callbacks') : BlockOK(b, KnownKeys')
      BY <3>1, <3>5, <3>6, <3>7, <3>8 DEF BlockOK
    <3> QED  BY <3>1, <3>2, <3>3, <3>4, <3>7, <3>9 DEF BlocksOK, BlockOK
  <2>4. CASE initialDataLoaded(e)
    <3> DEFINE batch == IF outstandingQueries' = {} THEN ReadyBlocks(observers["ready"]) ELSE {}
    <3>1. callbacks' = Dispatch(callbacks, batch) /\ locationInfos' = locationInfos
      BY <2>4 DEF initialDataLoaded
    <3>2. /\ batch \in SUBSET BlockSet
          /\ \A b \in batch : b.type = "ready" /\ b.location = NoLocation
      BY <1>8, ReadyBlocksFacts DEF ObserverTypes
    <3> HIDE DEF batch
    <3>3. /\ Dispatch(callbacks, batch) \in Seq(SUBSET BlockSet)
          /\ Queued(Dispatch(callbacks, batch)) = Queued(callbacks) \cup batch
      BY ONLY <1>8, <3>2, DispatchFacts
    <3>4. KnownKeysWatched' /\ InQueryAgreesWithCriteria' /\ KnownKeys' = KnownKeys
      BY <1>3, <1>4, <3>1 DEF KnownKeysWatched, InQueryAgreesWithCriteria, KnownKeys
    <3>5. \A b \in Queued(callbacks') : BlockOK(b, KnownKeys')
      BY <1>8, <3>1, <3>2, <3>3, <3>4 DEF BlockOK, NoLocation, Live
    <3> QED  BY <1>8, <3>1, <3>3, <3>4, <3>5 DEF BlocksOK, BlockOK
  <2> QED  BY <1>1, <2>1, <2>2, <2>3, <2>4
            DEF childAddedOrChanged, childRemoved, eventOfRemovedObserver
<1>11. TypeOK'
  BY <1>2, <1>3, <1>4, <1>9, <1>10 DEF TypeOK
<1> QED  BY <1>5, <1>6, <1>7, <1>10, <1>11

-----------------------------------------------------------------------------
(* The callback queue and Firebase keep the invariant.                     *)

\* Running a dispatched block preserves the invariant.
LEMMA RunSomeBlock ==
  ASSUME IInv, runSomeBlock
  PROVE  IInv'
<1>1. PICK b \in Head(callbacks) : callbacks # <<>> /\ runBlock(b)
  BY DEF runSomeBlock
<1>2. callbacks \in Seq(SUBSET BlockSet)
  BY DEF IInv, TypeOK
<1>3. \A batch \in SUBSET BlockSet : batch \ {b} \in SUBSET BlockSet
  OBVIOUS
<1>4. callbacks' \in Seq(SUBSET BlockSet) /\ Queued(callbacks') \subseteq Queued(callbacks)
  <2>1. /\ Taken(callbacks, b) \in Seq(SUBSET BlockSet)
        /\ Queued(Taken(callbacks, b)) \subseteq Queued(callbacks)
    BY <1>1, <1>2, <1>3, TakenFacts
  <2> QED  BY <1>1, <2>1 DEF runBlock
<1>5. b \in BlockSet
  <2>1. 1 \in DOMAIN callbacks /\ b \in callbacks[1] /\ callbacks[1] \in SUBSET BlockSet
    BY <1>1, <1>2
  <2> QED  BY <2>1
<1>6. b.to \in Nat
  BY <1>5 DEF BlockSet
<1>7. /\ UNCHANGED <<queryVars, firebaseVars, boundVars, joined>>
      /\ heard' = heard \cup {<<b.to, k>> : k \in ToldKeys(b)}
      /\ readied' = IF b.type = "ready" THEN readied \cup {b.to} ELSE readied
  BY <1>1 DEF runBlock
<1>8. TypeOK'
  <2>1. heard' \in SUBSET (Nat \X Keys) /\ readied' \in SUBSET Nat
    <3>1. heard \in SUBSET (Nat \X Keys) /\ readied \in SUBSET Nat
      BY DEF IInv, TypeOK
    <3>2. \A k \in ToldKeys(b) : <<b.to, k>> \in Nat \X Keys
      BY <1>6 DEF ToldKeys
    <3>3. heard' \in SUBSET (Nat \X Keys)
      BY ONLY <1>7, <3>1, <3>2
    <3> QED  BY <1>6, <1>7, <3>1, <3>3
  <2> QED  BY <1>4, <1>7, <2>1 DEF IInv, TypeOK, queryVars, firebaseVars, boundVars
<1>9. UNCHANGED <<criteria, queries, firebaseHandles, outstandingQueries,
                  locationInfos, listens, singles, events, registrations>>
  BY <1>7 DEF queryVars, firebaseVars
<1> QED  BY <1>4, <1>8, <1>9, QuietStep

\* A step of Firebase that leaves the query object alone, adds well-formed
\* events, and leaves the same ranges attached under the same handles.
LEMMA FirebaseStep ==
  ASSUME IInv, UNCHANGED <<queryVars, callbacks, registrations, historyVars>>,
         UNCHANGED <<removals, criteriaChanges>>, writes' \in Nat,
         stored' \in [Keys -> Values \cup {NoLocation}], gets' \in [Keys -> Nat],
         singles' \in SUBSET [reg : Nat, query : GeoHashQueries],
         listens' \in SUBSET [reg : Nat, query : GeoHashQueries, synced : BOOLEAN],
         \A l \in listens' : \E m \in listens : l.reg = m.reg /\ l.query = m.query,
         \A m \in listens : \E l \in listens' : l.reg = m.reg /\ l.query = m.query,
         events' \in Seq(SUBSET EventSet),
         Queued(events) \subseteq Queued(events'),
         \A e \in Queued(events') :
           \/ e \in Queued(events)
           \/ e.type \in {"get", "value"}
           \/ /\ \E l \in listens : l.reg = e.reg /\ l.query = e.query
              /\ e.type # "removed" => Holds(e.query, e.value),
         \A s \in singles : \/ s \in singles'
                            \/ \E e \in Queued(events') : e.type = "value" /\ e.query = s.query
  PROVE  IInv'
<1> USE DEF IInv
<1>1. /\ criteria' = criteria /\ queries' = queries /\ firebaseHandles' = firebaseHandles
      /\ outstandingQueries' = outstandingQueries /\ locationInfos' = locationInfos
      /\ observers' = observers /\ currentHandle' = currentHandle /\ callbacks' = callbacks
      /\ registrations' = registrations /\ Watched' = Watched
  BY DEF queryVars, Watched
<1>2. TypeOK'
  BY <1>1 DEF TypeOK, historyVars
<1>3. RegistrationsOK' /\ NoOrphanListener'
  BY <1>1 DEF RegistrationsOK, NoOrphanListener
<1>4. KnownKeysWatched' /\ InQueryAgreesWithCriteria' /\ BlocksOK'
  BY <1>1 DEF KnownKeysWatched, InQueryAgreesWithCriteria, BlocksOK, BlockOK, KnownKeys, Queued
<1>5. EventsOK'
  <2> SUFFICES ASSUME NEW e \in Queued(events'),
                      e.type \in {"added", "changed", "removed"}
               PROVE  /\ e.reg <= registrations
                      /\ \A l \in listens' : l.reg = e.reg => l.query = e.query
                      /\ e.type # "removed" => Holds(e.query, e.value)
    BY <1>1 DEF EventsOK, Holds
  <2>1. CASE e \in Queued(events)
    BY <2>1 DEF EventsOK
  <2>2. CASE e \notin Queued(events)
    <3>1. PICK l \in listens : l.reg = e.reg /\ l.query = e.query
      BY <2>2
    <3>2. l.query \in Watched /\ e.reg = firebaseHandles[l.query]
      BY <3>1 DEF NoOrphanListener
    <3>3. Watched \subseteq GeoHashQueries
      BY DEF Watched, TypeOK
    <3>4. e.reg <= registrations
      BY <3>2, <3>3 DEF RegistrationsOK
    <3>5. ASSUME NEW m \in listens', m.reg = e.reg
          PROVE  m.query = e.query
      <4>1. m.query \in Watched /\ m.reg = firebaseHandles[m.query]
        BY DEF NoOrphanListener
      <4>2. firebaseHandles[m.query] = firebaseHandles[l.query]
        BY <3>2, <3>5, <4>1
      <4>3. \A q, r \in Watched : firebaseHandles[q] = firebaseHandles[r] => q = r
        BY DEF RegistrationsOK
      <4> QED  BY ONLY <3>1, <3>2, <4>1, <4>2, <4>3
    <3>6. e.type # "removed" => Holds(e.query, e.value)
      BY <2>2
    <3> QED  BY <3>4, <3>5, <3>6
  <2> QED  BY <2>1, <2>2
<1>6. OutstandingWillLoad'
  <2>1. ASSUME NEW q \in outstandingQueries
        PROVE  \/ \E s \in singles' : s.query = q
               \/ \E e \in Queued(events') : e.type = "value" /\ e.query = q
    BY DEF OutstandingWillLoad
  <2> QED  BY <1>1, <2>1 DEF OutstandingWillLoad
<1> QED  BY <1>2, <1>3, <1>4, <1>5, <1>6

\* A change of the stored data preserves the invariant.
LEMMA FirebaseWrite ==
  ASSUME IInv, NEW k \in Keys, NEW v \in Values \cup {NoLocation}, firebaseWrite(k, v)
  PROVE  IInv'
<1> DEFINE was == stored[k]
           change(l) == IF ~Holds(l.query, v) THEN "removed"
                        ELSE IF Holds(l.query, was) THEN "changed" ELSE "added"
           touched == {l \in listens : l.synced /\ (Holds(l.query, was) \/ Holds(l.query, v))}
           batch == {Event(change(l), l.reg, l.query, k, v) : l \in touched}
<1>1. /\ stored \in [Keys -> Values \cup {NoLocation}]
      /\ listens \in SUBSET [reg : Nat, query : GeoHashQueries, synced : BOOLEAN]
      /\ events \in Seq(SUBSET EventSet) /\ writes \in Nat
      /\ gets \in [Keys -> Nat]
      /\ singles \in SUBSET [reg : Nat, query : GeoHashQueries]
  BY DEF IInv, TypeOK
<1>2. /\ events' = Dispatch(events, batch)
      /\ stored' = [stored EXCEPT ![k] = v] /\ writes' = writes + 1
      /\ UNCHANGED <<queryVars, callbacks, listens, singles, gets, registrations,
                     removals, criteriaChanges, historyVars>>
  BY DEF firebaseWrite
<1>3. \A e \in batch : \E l \in listens :
        e = Event(change(l), l.reg, l.query, k, v)
  OBVIOUS
<1>4. ASSUME NEW l \in listens
      PROVE  /\ Event(change(l), l.reg, l.query, k, v) \in EventSet
             /\ Event(change(l), l.reg, l.query, k, v).type \in {"added", "changed", "removed"}
             /\ Event(change(l), l.reg, l.query, k, v).reg = l.reg
             /\ Event(change(l), l.reg, l.query, k, v).query = l.query
             /\ Event(change(l), l.reg, l.query, k, v).value = v
             /\ Event(change(l), l.reg, l.query, k, v).type # "removed" => Holds(l.query, v)
  BY <1>1 DEF Event, EventSet
<1>5. /\ batch \in SUBSET EventSet
      /\ \A e \in batch : /\ \E l \in listens : l.reg = e.reg /\ l.query = e.query
                          /\ e.type # "removed" => Holds(e.query, e.value)
  <2> HIDE DEF batch
  <2>1. ASSUME NEW e \in batch
        PROVE  /\ e \in EventSet
               /\ \E l \in listens : l.reg = e.reg /\ l.query = e.query
               /\ e.type # "removed" => Holds(e.query, e.value)
    <3>1. PICK l \in listens : e = Event(change(l), l.reg, l.query, k, v)
      BY <1>3
    <3> QED  BY <3>1, <1>4
  <2> QED  BY <2>1
<1> HIDE DEF batch
<1>6. /\ Dispatch(events, batch) \in Seq(SUBSET EventSet)
      /\ Queued(Dispatch(events, batch)) = Queued(events) \cup batch
  BY ONLY <1>1, <1>5, DispatchFacts
<1>7. stored' \in [Keys -> Values \cup {NoLocation}] /\ writes' \in Nat
  BY <1>1, <1>2
<1>8. /\ events' \in Seq(SUBSET EventSet) /\ Queued(events') = Queued(events) \cup batch
  BY <1>2, <1>6
<1> QED  BY <1>1, <1>2, <1>5, <1>7, <1>8, FirebaseStep

\* The arrival of a range's initial data preserves the invariant.
LEMMA FirebaseSync ==
  ASSUME IInv, NEW q \in GeoHashQueries, firebaseSync(q)
  PROVE  IInv'
<1> DEFINE waiting == {l \in listens : l.query = q /\ ~l.synced}
           asking == {s \in singles : s.query = q}
           held == {k \in Keys : Holds(q, stored[k])}
           added == {Event("added", l.reg, q, k, stored[k]) : l \in waiting, k \in held}
           loaded == {Event("value", s.reg, q, NoKey, NoLocation) : s \in asking}
<1>1. /\ stored \in [Keys -> Values \cup {NoLocation}]
      /\ listens \in SUBSET [reg : Nat, query : GeoHashQueries, synced : BOOLEAN]
      /\ events \in Seq(SUBSET EventSet) /\ writes \in Nat
      /\ gets \in [Keys -> Nat]
      /\ singles \in SUBSET [reg : Nat, query : GeoHashQueries]
  BY DEF IInv, TypeOK
<1>2. /\ events' = Dispatch(Dispatch(events, added), loaded)
      /\ listens' = (listens \ waiting) \cup
           {[reg |-> l.reg, query |-> q, synced |-> TRUE] : l \in waiting}
      /\ singles' = singles \ asking
      /\ UNCHANGED <<queryVars, callbacks, stored, gets, registrations, boundVars,
                     historyVars>>
  BY DEF firebaseSync
<1>3. /\ added \in SUBSET EventSet
      /\ \A e \in added : /\ \E l \in listens : l.reg = e.reg /\ l.query = e.query
                          /\ e.type # "removed" => Holds(e.query, e.value)
  <2>1. ASSUME NEW l \in waiting, NEW k \in held
        PROVE  /\ Event("added", l.reg, q, k, stored[k]) \in EventSet
               /\ Event("added", l.reg, q, k, stored[k]).reg = l.reg
               /\ Event("added", l.reg, q, k, stored[k]).query = l.query
               /\ Event("added", l.reg, q, k, stored[k]).query = q
               /\ Event("added", l.reg, q, k, stored[k]).value = stored[k]
               /\ l \in listens /\ Holds(q, stored[k])
    BY <1>1 DEF Event, EventSet
  <2>2. ASSUME NEW e \in added
        PROVE  /\ e \in EventSet
               /\ \E l \in listens : l.reg = e.reg /\ l.query = e.query
               /\ e.type # "removed" => Holds(e.query, e.value)
    <3>1. PICK l \in waiting, k \in held : e = Event("added", l.reg, q, k, stored[k])
      OBVIOUS
    <3> HIDE DEF waiting, held
    <3> QED  BY <2>1, <3>1
  <2> QED  BY <2>2
<1>4. /\ loaded \in SUBSET EventSet
      /\ \A e \in loaded : e.type = "value" /\ e.query = q
      /\ \A s \in asking : \E e \in loaded : e.type = "value" /\ e.query = s.query
  <2>1. ASSUME NEW s \in asking
        PROVE  /\ Event("value", s.reg, q, NoKey, NoLocation) \in EventSet
               /\ Event("value", s.reg, q, NoKey, NoLocation).type = "value"
               /\ Event("value", s.reg, q, NoKey, NoLocation).query = q
               /\ s.query = q
    BY <1>1 DEF Event, EventSet
  <2>2. \A s \in asking : Event("value", s.reg, q, NoKey, NoLocation) \in loaded
    OBVIOUS
  <2>3. \A e \in loaded : \E s \in asking : e = Event("value", s.reg, q, NoKey, NoLocation)
    OBVIOUS
  <2> HIDE DEF asking, loaded
  <2> QED  BY <2>1, <2>2, <2>3
<1>5. /\ listens' \in SUBSET [reg : Nat, query : GeoHashQueries, synced : BOOLEAN]
      /\ \A l \in listens' : \E m \in listens : l.reg = m.reg /\ l.query = m.query
      /\ \A m \in listens : \E l \in listens' : l.reg = m.reg /\ l.query = m.query
  <2>1. ASSUME NEW l \in waiting
        PROVE  /\ [reg |-> l.reg, query |-> q, synced |-> TRUE] \in
                    [reg : Nat, query : GeoHashQueries, synced : BOOLEAN]
               /\ l \in listens /\ l.query = q
    BY <1>1
  <2>2. ASSUME NEW l \in waiting
        PROVE  [reg |-> l.reg, query |-> q, synced |-> TRUE] \in listens'
    BY <1>2
  <2>3. ASSUME NEW l \in listens', l \notin listens
        PROVE  \E m \in waiting : l = [reg |-> m.reg, query |-> q, synced |-> TRUE]
    BY <1>2, <2>3
  <2>4. \A m \in listens : m \in waiting \/ m \in listens'
    BY <1>2
  <2> HIDE DEF waiting
  <2>5. \A l \in listens' : \E m \in listens : l.reg = m.reg /\ l.query = m.query
    <3> TAKE l \in listens'
    <3>1. CASE l \in listens
      BY <3>1
    <3>2. CASE l \notin listens
      <4>1. PICK m \in waiting : l = [reg |-> m.reg, query |-> q, synced |-> TRUE]
        BY <2>3, <3>2
      <4> QED  BY <2>1, <4>1
    <3> QED  BY <3>1, <3>2
  <2>6. \A m \in listens : \E l \in listens' : l.reg = m.reg /\ l.query = m.query
    <3> TAKE m \in listens
    <3>1. CASE m \in waiting
      BY <2>1, <2>2, <3>1
    <3>2. CASE m \notin waiting
      BY <2>4, <3>2
    <3> QED  BY <3>1, <3>2
  <2>7. listens' \in SUBSET [reg : Nat, query : GeoHashQueries, synced : BOOLEAN]
    <3> SUFFICES ASSUME NEW l \in listens'
                 PROVE  l \in [reg : Nat, query : GeoHashQueries, synced : BOOLEAN]
      OBVIOUS
    <3>1. CASE l \in listens
      BY <1>1, <3>1
    <3>2. CASE l \notin listens
      <4>1. PICK m \in waiting : l = [reg |-> m.reg, query |-> q, synced |-> TRUE]
        BY <2>3, <3>2
      <4> QED  BY <2>1, <4>1
    <3> QED  BY <3>1, <3>2
  <2> QED  BY <2>5, <2>6, <2>7
<1>6. singles' \in SUBSET [reg : Nat, query : GeoHashQueries]
      /\ \A s \in singles : s \in singles' \/ s \in asking
  BY <1>1, <1>2
<1> HIDE DEF waiting, asking, added, loaded
<1>7. /\ Dispatch(events, added) \in Seq(SUBSET EventSet)
      /\ Queued(Dispatch(events, added)) = Queued(events) \cup added
  BY ONLY <1>1, <1>3, DispatchFacts
<1>8. /\ Dispatch(Dispatch(events, added), loaded) \in Seq(SUBSET EventSet)
      /\ Queued(Dispatch(Dispatch(events, added), loaded)) = Queued(events) \cup added \cup loaded
  BY ONLY <1>4, <1>7, DispatchFacts
<1>9. /\ events' \in Seq(SUBSET EventSet)
      /\ Queued(events') = Queued(events) \cup added \cup loaded
  BY <1>2, <1>8
<1>10. \A e \in Queued(events') :
           \/ e \in Queued(events)
           \/ e.type \in {"get", "value"}
           \/ /\ \E l \in listens : l.reg = e.reg /\ l.query = e.query
              /\ e.type # "removed" => Holds(e.query, e.value)
  BY <1>3, <1>4, <1>9
<1>11. \A s \in singles : \/ s \in singles'
                          \/ \E e \in Queued(events') : e.type = "value" /\ e.query = s.query
  BY <1>4, <1>6, <1>9
<1>12. /\ UNCHANGED <<queryVars, callbacks, registrations, historyVars>>
       /\ UNCHANGED <<removals, criteriaChanges>> /\ writes' \in Nat
       /\ stored' \in [Keys -> Values \cup {NoLocation}] /\ gets' \in [Keys -> Nat]
  BY <1>1, <1>2 DEF boundVars
<1> QED  BY <1>5, <1>6, <1>9, <1>10, <1>11, <1>12, FirebaseStep

\* The answer to a single read preserves the invariant.
LEMMA FirebaseGet ==
  ASSUME IInv, NEW k \in Keys, firebaseGet(k)
  PROVE  IInv'
<1> DEFINE batch == {Event("get", 0, {}, k, stored[k])}
<1>1. /\ stored \in [Keys -> Values \cup {NoLocation}]
      /\ listens \in SUBSET [reg : Nat, query : GeoHashQueries, synced : BOOLEAN]
      /\ events \in Seq(SUBSET EventSet) /\ writes \in Nat
      /\ gets \in [Keys -> Nat]
      /\ singles \in SUBSET [reg : Nat, query : GeoHashQueries]
  BY DEF IInv, TypeOK
<1>2. /\ batch \in SUBSET EventSet /\ batch # {}
      /\ \A e \in batch : e.type = "get"
  BY <1>1 DEF Event, EventSet
<1>3. /\ events' = Dispatch(events, batch)
      /\ gets' = [gets EXCEPT ![k] = @ - 1] /\ gets[k] > 0
      /\ UNCHANGED <<queryVars, callbacks, stored, listens, singles, registrations,
                     boundVars, historyVars>>
  BY <1>2 DEF firebaseGet, Dispatch
<1>4. gets' \in [Keys -> Nat]
  BY <1>1, <1>3
<1> HIDE DEF batch
<1>5. /\ Dispatch(events, batch) \in Seq(SUBSET EventSet)
      /\ Queued(Dispatch(events, batch)) = Queued(events) \cup batch
  BY ONLY <1>1, <1>2, DispatchFacts
<1>6. /\ events' \in Seq(SUBSET EventSet) /\ Queued(events') = Queued(events) \cup batch
  BY <1>3, <1>5
<1>7. /\ UNCHANGED <<queryVars, callbacks, registrations, historyVars>>
      /\ UNCHANGED <<removals, criteriaChanges>> /\ writes' \in Nat
      /\ stored' \in [Keys -> Values \cup {NoLocation}]
      /\ listens' = listens /\ singles' = singles
  BY <1>1, <1>3 DEF boundVars
<1> QED  BY <1>1, <1>2, <1>4, <1>6, <1>7, FirebaseStep

-----------------------------------------------------------------------------
(* The theorems.                                                           *)

\* A query that was just created satisfies the invariant.
LEMMA InitInv == Init => IInv
<1> SUFFICES ASSUME Init PROVE IInv
  OBVIOUS
<1>1. TypeOK
  BY DEF Init, TypeOK, InfoSet, NoInfo
<1>2. Queued(events) = {} /\ Queued(callbacks) = {}
  BY DEF Init, Queued
<1>3. Watched = {} /\ \A k \in Keys : locationInfos[k] = NoInfo
  BY DEF Init, Watched
<1>4. RegistrationsOK /\ NoOrphanListener
  BY <1>3 DEF Init, RegistrationsOK, NoOrphanListener
<1>5. EventsOK /\ BlocksOK /\ OutstandingWillLoad
  BY <1>2 DEF Init, EventsOK, BlocksOK, OutstandingWillLoad
<1>6. KnownKeysWatched /\ InQueryAgreesWithCriteria
  BY <1>3 DEF KnownKeysWatched, InQueryAgreesWithCriteria, NoInfo
<1> QED  BY <1>1, <1>4, <1>5, <1>6 DEF IInv

\* Every step of the query, of Firebase and of the callback queue keeps the
\* invariant.
LEMMA NextInv == IInv /\ [Next]_vars => IInv'
<1> SUFFICES ASSUME IInv, [Next]_vars PROVE IInv'
  OBVIOUS
<1>1. CASE UNCHANGED vars
  <2>1. TypeOK'
    BY <1>1 DEF IInv, TypeOK, vars, queryVars, firebaseVars, boundVars, historyVars
  <2>2. UNCHANGED <<criteria, queries, firebaseHandles, outstandingQueries,
                    locationInfos, listens, singles, events, registrations, callbacks>>
    BY <1>1 DEF vars, queryVars, firebaseVars
  <2> QED  BY <2>1, <2>2, QuietStep
<1>2. CASE userCall
  BY <1>2, ObserveEventType, ObserveReady, SetCriteria, RemoveObservers DEF userCall
<1>3. CASE firebaseStep
  BY <1>3, FirebaseWrite, FirebaseSync, FirebaseGet DEF firebaseStep
<1>4. CASE firebaseEvent
  BY <1>4, FirebaseEvent
<1>5. CASE runSomeBlock
  BY <1>5, RunSomeBlock
<1> QED  BY <1>1, <1>2, <1>3, <1>4, <1>5 DEF Next

\* The invariant holds in every reachable state.
LEMMA Invariance == Spec => []IInv
<1>1. Init => IInv
  BY InitInv
<1>2. IInv /\ [Next]_vars => IInv'
  BY NextInv
<1> QED  BY <1>1, <1>2, PTL DEF Spec

\* Every variable of the query object, of its two queues and of Firebase keeps
\* its type in every behaviour.
THEOREM TypeCorrect == Spec => []TypeOK
<1>1. IInv => TypeOK
  BY DEF IInv
<1> QED  BY <1>1, Invariance, PTL

\* updateQueries and reset leave no Firebase observer behind, and never meet
\* the exception "Wanted to remove a geohash query that was not registered!".
THEOREM NoOrphans == Spec => []NoOrphanListener
<1>1. IInv => NoOrphanListener
  BY DEF IInv
<1> QED  BY <1>1, Invariance, PTL

\* Whatever the query knows of a key, a watched range covers it.
THEOREM KnownKeysStayWatched == Spec => []KnownKeysWatched
<1>1. IInv => KnownKeysWatched
  BY DEF IInv
<1> QED  BY <1>1, Invariance, PTL

\* isInQuery agrees with the criterion in force, whatever the order of calls
\* and events.
THEOREM InQueryIsCurrent == Spec => []InQueryAgreesWithCriteria
<1>1. IInv => InQueryAgreesWithCriteria
  BY DEF IInv
<1> QED  BY <1>1, Invariance, PTL

\* A range that is waited for has its value event still to come.
THEOREM ReadyNotLost == Spec => []OutstandingWillLoad
<1>1. IInv => OutstandingWillLoad
  BY DEF IInv
<1> QED  BY <1>1, Invariance, PTL

\* A block that reports an entry or a move finds a location when it runs.
THEOREM LocationsReported == Spec => []BlocksHaveLocation
<1>1. IInv => BlocksHaveLocation
  <2> SUFFICES ASSUME IInv, NEW b \in Queued(callbacks), b.type \in {"entered", "moved"}
               PROVE  SeenLocation(b) \in Locations
    BY DEF BlocksHaveLocation
  <2>1. BlockOK(b, KnownKeys)
    BY DEF IInv, BlocksOK
  <2>2. CASE b.location = Live
    <3>1. b.key \in KnownKeys
      BY <2>1, <2>2 DEF BlockOK
    <3>2. locationInfos[b.key].location \in Locations
      BY <3>1, KnownLocation DEF IInv, TypeOK
    <3> QED  BY <2>2, <3>2 DEF SeenLocation
  <2>3. CASE b.location # Live
    BY <2>1, <2>3 DEF BlockOK, SeenLocation
  <2> QED  BY <2>2, <2>3
<1> QED  BY <1>1, Invariance, PTL

-----------------------------------------------------------------------------
(* An observer of entries is called first.                                 *)

\* Before batch n a block is queued that tells the observer h of the key k.
Awaits(queue, n, h, k) ==
  \E j \in DOMAIN queue : j < n /\ \E b \in queue[j] : b.type = "entered" /\ b.to = h /\ b.key = k

\* h was told of k, or will be before batch n; `told' are the pairs <<h, k>> that
\* are settled.
Told(queue, n, told, h, k) == <<h, k>> \in told \/ Awaits(queue, n, h, k)

\* The observers hs of entries come before any block of an exit or a move.
Ordered(queue, hs, told) ==
  \A i \in DOMAIN queue : \A b \in queue[i] : b.type \in {"exited", "moved"} =>
    \A h \in hs : h < b.to => Told(queue, i, told, h, b.key)

\* ... and know, or will know, of all keys in the query.
Aware(queue, hs, told, infos) ==
  \A k \in Keys : infos[k].isInQuery => \A h \in hs : Told(queue, Len(queue) + 1, told, h, k)

\* A block of an exit or a move is for a handle below n; one of an entry has a key.
Addressed(b, n) ==
  /\ b.type \in {"exited", "moved"} => b.to < n
  /\ b.type = "entered" => b.key \in Keys

\* Handles are given out in order.
HandlesInv ==
  /\ \A t \in ObserverTypes : \A h \in observers[t] : h < currentHandle
  /\ \A b \in Queued(callbacks) : Addressed(b, currentHandle)

OrderInv ==
  /\ HandlesInv
  /\ Ordered(callbacks, observers["entered"], joined \cup heard)
  /\ Aware(callbacks, observers["entered"], joined \cup heard, locationInfos)

\* Dispatching a batch keeps the order if its exits and moves are of keys that
\* the observers of entries already know of.
LEMMA DispatchOrder ==
  ASSUME NEW queue \in Seq(SUBSET BlockSet), NEW batch \in SUBSET BlockSet,
         NEW hs \in SUBSET Nat, NEW told, Ordered(queue, hs, told),
         \A b \in batch : b.type \in {"exited", "moved"} =>
           \A h \in hs : h < b.to => Told(queue, Len(queue) + 1, told, h, b.key)
  PROVE  LET new == Dispatch(queue, batch)
         IN  /\ new \in Seq(SUBSET BlockSet)
             /\ Queued(new) = Queued(queue) \cup batch
             /\ Ordered(new, hs, told)
             /\ \A h, k : Told(queue, Len(queue) + 1, told, h, k) =>
                            Told(new, Len(new) + 1, told, h, k)
             /\ \A h, k : (\E b \in batch : b.type = "entered" /\ b.to = h /\ b.key = k) =>
                            Told(new, Len(new) + 1, told, h, k)
<1> DEFINE new == Dispatch(queue, batch)
<1>0. new \in Seq(SUBSET BlockSet) /\ Queued(new) = Queued(queue) \cup batch
  BY DispatchFacts
<1>1. CASE batch = {}
  BY <1>0, <1>1 DEF Dispatch
<1>2. CASE batch # {}
  <2>1. new = Append(queue, batch)
    BY <1>2 DEF Dispatch
  <2>2. /\ DOMAIN queue = 1..Len(queue) /\ Len(queue) \in Nat
        /\ DOMAIN new = 1..(Len(queue) + 1) /\ Len(new) = Len(queue) + 1
        /\ new[Len(queue) + 1] = batch
        /\ \A i \in DOMAIN queue : new[i] = queue[i]
    BY <2>1
  <2> HIDE DEF new
  <2>3. \A n, h, k : Awaits(queue, n, h, k) => Awaits(new, n, h, k)
    <3> SUFFICES ASSUME NEW n, NEW h, NEW k, Awaits(queue, n, h, k)
                 PROVE  Awaits(new, n, h, k)
      OBVIOUS
    <3>1. PICK j \in DOMAIN queue : j < n /\ \E b \in queue[j] : b.type = "entered" /\ b.to = h /\ b.key = k
      BY DEF Awaits
    <3>2. j \in DOMAIN new /\ new[j] = queue[j]
      BY <2>2
    <3> QED  BY <3>1, <3>2 DEF Awaits
  <2>4. \A h, k : Told(queue, Len(queue) + 1, told, h, k) => Told(new, Len(queue) + 1, told, h, k)
    BY <2>3 DEF Told
  <2>5. \A n, h, k : Told(queue, n, told, h, k) => Told(new, n, told, h, k)
    BY <2>3 DEF Told
  <2>6. Ordered(new, hs, told)
    <3> SUFFICES ASSUME NEW i \in DOMAIN new, NEW b \in new[i], b.type \in {"exited", "moved"},
                        NEW h \in hs, h < b.to
                 PROVE  Told(new, i, told, h, b.key)
      BY DEF Ordered
    <3>1. CASE i \in DOMAIN queue
      BY <2>2, <2>5, <3>1 DEF Ordered
    <3>2. CASE i = Len(queue) + 1
      BY <2>2, <2>4, <3>2
    <3> QED  BY <2>2, <3>1, <3>2
  <2>7. \A h, k : Told(queue, Len(queue) + 1, told, h, k) => Told(new, Len(new) + 1, told, h, k)
    <3> SUFFICES ASSUME NEW h, NEW k, Awaits(queue, Len(queue) + 1, h, k)
                 PROVE  Awaits(new, Len(new) + 1, h, k)
      BY DEF Told
    <3>1. PICK j \in DOMAIN queue : \E b \in queue[j] : b.type = "entered" /\ b.to = h /\ b.key = k
      BY DEF Awaits
    <3>2. j \in DOMAIN new /\ new[j] = queue[j] /\ j < Len(new) + 1
      BY <2>2
    <3> QED  BY <3>1, <3>2 DEF Awaits
  <2>8. \A h, k : (\E b \in batch : b.type = "entered" /\ b.to = h /\ b.key = k) =>
                    Told(new, Len(new) + 1, told, h, k)
    <3>1. Len(queue) + 1 \in DOMAIN new /\ Len(queue) + 1 < Len(new) + 1
      BY <2>2
    <3> QED  BY <2>2, <3>1 DEF Told, Awaits
  <2> QED  BY <1>0, <2>6, <2>7, <2>8 DEF new
<1> QED  BY <1>1, <1>2

\* Freezing locations changes neither the order nor what is told.
LEMMA FrozenOrder ==
  ASSUME locationInfos \in [Keys -> InfoSet],
         NEW queue \in Seq(SUBSET BlockSet), NEW removed \in SUBSET Keys,
         NEW hs, NEW told, Ordered(queue, hs, told)
  PROVE  LET new == Frozen(queue, removed)
         IN  /\ new \in Seq(SUBSET BlockSet) /\ Len(new) = Len(queue)
             /\ Ordered(new, hs, told)
             /\ \A n, h, k : Told(queue, n, told, h, k) => Told(new, n, told, h, k)
             /\ \A b \in Queued(new) : \E a \in Queued(queue) :
                  a.type = b.type /\ a.to = b.to /\ a.key = b.key
<1> DEFINE new == Frozen(queue, removed)
<1>1. new \in Seq(SUBSET BlockSet)
  BY FrozenFacts
<1>2. new = [i \in DOMAIN queue |-> {FrozenBlock(b, removed) : b \in queue[i]}]
  BY DEF Frozen, FrozenBlock
<1>3. \A b : b \in BlockSet =>
        /\ FrozenBlock(b, removed).type = b.type /\ FrozenBlock(b, removed).to = b.to
        /\ FrozenBlock(b, removed).key = b.key
  BY DEF FrozenBlock, Block
<1>4. DOMAIN new = DOMAIN queue /\ Len(new) = Len(queue)
  BY <1>1, <1>2
<1>5. \A i \in DOMAIN queue : queue[i] \subseteq BlockSet
  OBVIOUS
<1>6. \A i \in DOMAIN queue : \A b \in new[i] : \E a \in queue[i] :
        b.type = a.type /\ b.to = a.to /\ b.key = a.key
  BY <1>2, <1>3, <1>5
<1>7. \A i \in DOMAIN queue : \A a \in queue[i] : \E b \in new[i] :
        b.type = a.type /\ b.to = a.to /\ b.key = a.key
  BY <1>2, <1>3, <1>5
<1> HIDE DEF new
<1>8. \A n, h, k : Told(queue, n, told, h, k) => Told(new, n, told, h, k)
  <2> SUFFICES ASSUME NEW n, NEW h, NEW k, Awaits(queue, n, h, k)
               PROVE  Awaits(new, n, h, k)
    BY DEF Told
  <2>1. PICK j \in DOMAIN queue : j < n /\ \E b \in queue[j] : b.type = "entered" /\ b.to = h /\ b.key = k
    BY DEF Awaits
  <2>2. \E b \in new[j] : b.type = "entered" /\ b.to = h /\ b.key = k
    BY <1>7, <2>1
  <2> QED  BY <1>4, <2>1, <2>2 DEF Awaits
<1>9. Ordered(new, hs, told)
  <2> SUFFICES ASSUME NEW i \in DOMAIN queue, NEW b \in new[i], b.type \in {"exited", "moved"},
                      NEW h \in hs, h < b.to
               PROVE  Told(new, i, told, h, b.key)
    BY <1>4 DEF Ordered
  <2>1. PICK a \in queue[i] : b.type = a.type /\ b.to = a.to /\ b.key = a.key
    BY <1>6
  <2>2. Told(queue, i, told, h, a.key)
    BY <2>1 DEF Ordered
  <2> QED  BY <1>8, <2>1, <2>2
<1>10. \A b \in Queued(new) : \E a \in Queued(queue) :
         a.type = b.type /\ a.to = b.to /\ a.key = b.key
  BY <1>4, <1>6 DEF Queued
<1> QED  BY <1>1, <1>4, <1>8, <1>9, <1>10 DEF new

\* Running a block keeps the order, when the keys that it tells count as told.
LEMMA TakenOrder ==
  ASSUME NEW queue \in Seq(SUBSET BlockSet), queue # <<>>, NEW x \in Head(queue),
         NEW hs, NEW told, Ordered(queue, hs, told), NEW infos, Aware(queue, hs, told, infos),
         NEW now, told \subseteq now, x.type = "entered" => <<x.to, x.key>> \in now
  PROVE  /\ Ordered(Taken(queue, x), hs, now)
         /\ Aware(Taken(queue, x), hs, now, infos)
<1> DEFINE new == Taken(queue, x)
<1>0. 1 \in DOMAIN queue /\ Head(queue) = queue[1] /\ DOMAIN queue = 1..Len(queue) /\ Len(queue) \in Nat
  OBVIOUS
<1>1. CASE Head(queue) = {x}
  <2>1. new = Tail(queue)
    BY <1>1 DEF Taken
  <2>2. /\ DOMAIN new = 1..(Len(queue) - 1) /\ Len(new) = Len(queue) - 1
        /\ \A i \in DOMAIN new : new[i] = queue[i + 1] /\ i + 1 \in DOMAIN queue
    BY <2>1
  <2> HIDE DEF new
  <2>3. ASSUME NEW n \in Nat, NEW h, NEW k, Told(queue, n + 1, told, h, k)
        PROVE  Told(new, n, now, h, k)
    <3>1. CASE <<h, k>> \in told
      BY <3>1 DEF Told
    <3>2. CASE Awaits(queue, n + 1, h, k)
      <4>1. PICK j \in DOMAIN queue : j < n + 1 /\ \E b \in queue[j] : b.type = "entered" /\ b.to = h /\ b.key = k
        BY <3>2 DEF Awaits
      <4>2. CASE j = 1
        BY <1>0, <1>1, <4>1, <4>2 DEF Told
      <4>3. CASE j # 1
        <5>1. j - 1 \in DOMAIN new /\ new[j - 1] = queue[j] /\ j - 1 < n
          BY <1>0, <2>2, <4>1, <4>3
        <5> QED  BY <4>1, <5>1 DEF Told, Awaits
      <4> QED  BY <4>2, <4>3
    <3> QED  BY <2>3, <3>1, <3>2 DEF Told
  <2>4. Ordered(new, hs, now)
    <3> SUFFICES ASSUME NEW i \in DOMAIN new, NEW b \in new[i], b.type \in {"exited", "moved"},
                        NEW h \in hs, h < b.to
                 PROVE  Told(new, i, now, h, b.key)
      BY DEF Ordered
    <3>1. b \in queue[i + 1] /\ i + 1 \in DOMAIN queue /\ i \in Nat
      BY <2>2
    <3>2. Told(queue, i + 1, told, h, b.key)
      BY <3>1 DEF Ordered
    <3> QED  BY <2>3, <3>1, <3>2
  <2>5. Aware(new, hs, now, infos)
    <3> SUFFICES ASSUME NEW k \in Keys, infos[k].isInQuery, NEW h \in hs
                 PROVE  Told(new, Len(new) + 1, now, h, k)
      BY DEF Aware
    <3>1. Told(queue, Len(queue) + 1, told, h, k)
      BY DEF Aware
    <3> QED  BY <1>0, <2>2, <2>3, <3>1
  <2> QED  BY <2>4, <2>5 DEF new
<1>2. CASE Head(queue) # {x}
  <2>1. new = [queue EXCEPT ![1] = queue[1] \ {x}]
    BY <1>2 DEF Taken
  <2>2. /\ DOMAIN new = DOMAIN queue /\ Len(new) = Len(queue)
        /\ \A i \in DOMAIN queue : new[i] \subseteq queue[i] /\ \A y \in queue[i] : y = x \/ y \in new[i]
    BY <1>0, <2>1
  <2> HIDE DEF new
  <2>3. ASSUME NEW n, NEW h, NEW k, Told(queue, n, told, h, k)
        PROVE  Told(new, n, now, h, k)
    <3>1. CASE <<h, k>> \in told
      BY <3>1 DEF Told
    <3>2. CASE Awaits(queue, n, h, k)
      <4>1. PICK j \in DOMAIN queue : j < n /\ \E b \in queue[j] : b.type = "entered" /\ b.to = h /\ b.key = k
        BY <3>2 DEF Awaits
      <4> QED  BY <2>2, <4>1 DEF Told, Awaits
    <3> QED  BY <2>3, <3>1, <3>2 DEF Told
  <2>4. Ordered(new, hs, now)
    <3> SUFFICES ASSUME NEW i \in DOMAIN new, NEW b \in new[i], b.type \in {"exited", "moved"},
                        NEW h \in hs, h < b.to
                 PROVE  Told(new, i, now, h, b.key)
      BY DEF Ordered
    <3>2. Told(queue, i, told, h, b.key)
      BY <2>2 DEF Ordered
    <3> QED  BY <2>3, <3>2
  <2>5. Aware(new, hs, now, infos)
    BY <2>2, <2>3 DEF Aware
  <2> QED  BY <2>4, <2>5 DEF new
<1> QED  BY <1>1, <1>2

\* What a change of one key's info tells: an entry when the key comes into the
\* query, and an exit or a move only of a key that was in it.
LEMMA BlocksForOrder ==
  ASSUME NEW obs \in [ObserverTypes -> SUBSET Nat], NEW c \in Criteria, NEW k \in Keys, NEW l,
         locationInfos[k].isInQuery => locationInfos[k].known
  PROVE  /\ \A b \in BlocksFor(obs, c, k, l) :
              /\ b.key = k /\ b.type \in EventTypes /\ b.to \in obs[b.type]
              /\ b.type \in {"exited", "moved"} => locationInfos[k].isInQuery
         /\ locationIsInQuery(c, l) /\ ~locationInfos[k].isInQuery =>
              \A h \in obs["entered"] :
                \E b \in BlocksFor(obs, c, k, l) : b.type = "entered" /\ b.to = h /\ b.key = k
<1> DEFINE type == EventFor(c, locationInfos[k], l)
<1>1. /\ type \in EventTypes \cup {"none"}
      /\ type \in {"exited", "moved"} => locationInfos[k].isInQuery
      /\ locationIsInQuery(c, l) /\ ~locationInfos[k].isInQuery => type = "entered"
  BY DEF EventFor, EventTypes
<1>2. BlocksFor(obs, c, k, l) = IF type = "none" THEN {} ELSE Blocks(obs, type, k, Live)
  BY DEF BlocksFor
<1> HIDE DEF type
<1>3. \A b \in Blocks(obs, type, k, Live) : b.key = k /\ b.type = type /\ b.to \in obs[type]
  BY DEF Blocks, Block
<1>4. type = "entered" => \A h \in obs["entered"] :
        \E b \in Blocks(obs, type, k, Live) : b.type = "entered" /\ b.to = h /\ b.key = k
  <2> SUFFICES ASSUME type = "entered", NEW h \in obs["entered"]
               PROVE  \E b \in Blocks(obs, type, k, Live) :
                        b.type = "entered" /\ b.to = h /\ b.key = k
    OBVIOUS
  <2>1. Block(type, h, k, Live) \in Blocks(obs, type, k, Live)
    BY DEF Blocks
  <2>2. /\ Block(type, h, k, Live).type = "entered"
        /\ Block(type, h, k, Live).to = h /\ Block(type, h, k, Live).key = k
    BY DEF Block
  <2> QED  BY <2>1, <2>2
<1> QED  BY <1>1, <1>2, <1>3, <1>4

\* updateQueries tells of what enters the query under the criterion c, and of
\* what leaves it, after all that is queued.
LEMMA UpdateQueriesOrder ==
  ASSUME TypeOK, KnownKeysWatched, InQueryAgreesWithCriteria,
         NEW c \in Criteria, NEW obs \in [ObserverTypes -> SUBSET Nat],
         NEW queue0 \in Seq(SUBSET BlockSet), updateQueries(c, obs, queue0),
         NEW n \in Nat, \A t \in ObserverTypes : \A h \in obs[t] : h < n,
         \A b \in Queued(queue0) : Addressed(b, n),
         NEW told, Ordered(queue0, obs["entered"], told),
         Aware(queue0, obs["entered"], told, locationInfos)
  PROVE  /\ \A b \in Queued(callbacks') : Addressed(b, n)
         /\ Ordered(callbacks', obs["entered"], told)
         /\ Aware(callbacks', obs["entered"], told, locationInfos')
<1> DEFINE oldLocations ==
             {k \in KnownKeys : ~queriesContainGeoHash(QueriesFor[c], locationInfos[k].location)}
           reported ==
             UNION {BlocksFor(obs, c, k, locationInfos[k].location) : k \in KnownKeys}
           ready == IF outstandingQueries' = {} THEN ReadyBlocks(obs["ready"]) ELSE {}
           q1 == Dispatch(queue0, reported)
           q2 == Frozen(q1, oldLocations)
           hs == obs["entered"]
<1>1. /\ callbacks' = Dispatch(q2, ready)
      /\ locationInfos' = [k \in Keys |->
           IF k \in KnownKeys \ oldLocations
             THEN InfoFor(c, locationInfos[k].location) ELSE NoInfo]
  BY DEF updateQueries
<1>2. locationInfos \in [Keys -> InfoSet]
  BY DEF TypeOK
<1>3. \A k \in Keys : locationInfos[k].isInQuery => locationInfos[k].known
  BY DEF InQueryAgreesWithCriteria
<1>4. /\ KnownKeys \subseteq Keys /\ oldLocations \subseteq Keys
      /\ \A k \in Keys : locationInfos[k].known => k \in KnownKeys
  BY DEF KnownKeys
<1>5. reported \in SUBSET BlockSet
  BY <1>2, <1>4, BlocksForFacts
<1>6. \A b \in reported :
        /\ b.key \in Keys /\ b.type \in EventTypes /\ b.to \in obs[b.type]
        /\ b.type \in {"exited", "moved"} => locationInfos[b.key].isInQuery
  BY <1>3, <1>4, BlocksForOrder
<1>7. ASSUME NEW k \in KnownKeys, locationIsInQuery(c, locationInfos[k].location),
             ~locationInfos[k].isInQuery, NEW h \in hs
      PROVE  \E b \in reported : b.type = "entered" /\ b.to = h /\ b.key = k
  BY <1>3, <1>4, <1>7, BlocksForOrder
<1>8. hs \in SUBSET Nat /\ ready \in SUBSET BlockSet /\ \A b \in ready : b.type = "ready"
  BY ReadyBlocksFacts DEF ObserverTypes, EventTypes
<1> HIDE DEF oldLocations, reported, ready, hs
<1>9. \A b \in reported : b.type \in {"exited", "moved"} =>
        \A h \in hs : h < b.to => Told(queue0, Len(queue0) + 1, told, h, b.key)
  BY <1>6 DEF Aware, hs
<1>10. /\ q1 \in Seq(SUBSET BlockSet)
       /\ Queued(q1) = Queued(queue0) \cup reported
       /\ Ordered(q1, hs, told)
       /\ \A h, k : Told(queue0, Len(queue0) + 1, told, h, k) => Told(q1, Len(q1) + 1, told, h, k)
       /\ \A h, k : (\E b \in reported : b.type = "entered" /\ b.to = h /\ b.key = k) =>
                      Told(q1, Len(q1) + 1, told, h, k)
  BY <1>5, <1>8, <1>9, DispatchOrder DEF hs
<1> HIDE DEF q1
<1>11. /\ q2 \in Seq(SUBSET BlockSet) /\ Len(q2) = Len(q1)
       /\ Ordered(q2, hs, told)
       /\ \A m, h, k : Told(q1, m, told, h, k) => Told(q2, m, told, h, k)
       /\ \A b \in Queued(q2) : \E a \in Queued(q1) :
            a.type = b.type /\ a.to = b.to /\ a.key = b.key
  BY <1>2, <1>4, <1>10, FrozenOrder
<1> HIDE DEF q2
<1>12. \A b \in ready : b.type \in {"exited", "moved"} =>
        \A h \in hs : h < b.to => Told(q2, Len(q2) + 1, told, h, b.key)
  BY <1>8
<1>13. /\ Queued(callbacks') = Queued(q2) \cup ready
       /\ Ordered(callbacks', hs, told)
       /\ \A h, k : Told(q2, Len(q2) + 1, told, h, k) =>
                      Told(callbacks', Len(callbacks') + 1, told, h, k)
  BY <1>1, <1>8, <1>11, <1>12, DispatchOrder
<1>14. \A b \in Queued(callbacks') : Addressed(b, n)
  <2>1. \A b \in reported : b.to < n /\ b.key \in Keys
    BY <1>6 DEF ObserverTypes
  <2>2. \A b \in Queued(q1) : Addressed(b, n)
    BY <1>10, <2>1 DEF Addressed
  <2>3. \A b \in Queued(q2) : Addressed(b, n)
    BY <1>11, <2>2 DEF Addressed
  <2> QED  BY <1>8, <1>13, <2>3 DEF Addressed
<1>15. Aware(callbacks', hs, told, locationInfos')
  <2> SUFFICES ASSUME NEW k \in Keys, locationInfos'[k].isInQuery, NEW h \in hs
               PROVE  Told(callbacks', Len(callbacks') + 1, told, h, k)
    BY DEF Aware
  <2>1. k \in KnownKeys /\ locationIsInQuery(c, locationInfos[k].location)
    BY <1>1 DEF NoInfo, InfoFor
  <2>2. Told(q1, Len(q1) + 1, told, h, k)
    <3>1. CASE locationInfos[k].isInQuery
      BY <1>10, <3>1 DEF Aware, hs
    <3>2. CASE ~locationInfos[k].isInQuery
      BY <1>7, <1>10, <2>1, <3>2
    <3> QED  BY <3>1, <3>2
  <2> QED  BY <1>11, <1>13, <2>2
<1> QED  BY <1>13, <1>14, <1>15 DEF hs

\* More pairs may be told, and fewer observers need to be.
LEMMA OrderWeakens ==
  ASSUME NEW queue, NEW hs, NEW told, NEW infos,
         Ordered(queue, hs, told), Aware(queue, hs, told, infos),
         NEW some \in SUBSET hs, NEW more, told \subseteq more
  PROVE  Ordered(queue, some, more) /\ Aware(queue, some, more, infos)
BY DEF Ordered, Aware, Told


\* The types that the steps below need.
LEMMA QueueTypes ==
  ASSUME TypeOK
  PROVE  /\ callbacks \in Seq(SUBSET BlockSet)
         /\ observers \in [ObserverTypes -> SUBSET Nat] /\ currentHandle \in Nat
         /\ locationInfos \in [Keys -> InfoSet] /\ criteria \in Criteria
         /\ "entered" \in ObserverTypes
BY DEF TypeOK, ObserverTypes, EventTypes

\* A step that changes neither the blocks, nor the infos, nor the observers.
LEMMA OrderQuiet ==
  ASSUME OrderInv,
         UNCHANGED <<callbacks, locationInfos, observers, currentHandle, joined, heard>>
  PROVE  OrderInv'
BY DEF OrderInv, HandlesInv, Queued, Ordered, Aware, Told, Awaits

\* observeEventType:withBlock: keeps the order: the keys that a new observer of
\* entries finds in the query are its to be told by its first block, and it comes
\* after every observer that a queued block is for.
LEMMA ObserveOrder ==
  ASSUME IInv, OrderInv, NEW t \in EventTypes, observeEventType(t)
  PROVE  OrderInv'
<1> DEFINE h == currentHandle
           obs == [observers EXCEPT ![t] = @ \cup {h}]
           first == IF t = "entered" THEN {Block("initial", h, NoKey, NoLocation)} ELSE {}
           queue == Dispatch(callbacks, first)
           told == joined \cup heard
           more == joined' \cup heard'
           hs == observers["entered"]
<1>1. TypeOK /\ KnownKeysWatched /\ InQueryAgreesWithCriteria
  BY DEF IInv
<1>2. /\ callbacks \in Seq(SUBSET BlockSet)
      /\ observers \in [ObserverTypes -> SUBSET Nat] /\ currentHandle \in Nat
      /\ locationInfos \in [Keys -> InfoSet] /\ criteria \in Criteria
      /\ t \in ObserverTypes /\ "entered" \in ObserverTypes
  BY <1>1, QueueTypes DEF ObserverTypes
<1>3. obs \in [ObserverTypes -> SUBSET Nat] /\ obs["entered"] \subseteq hs \cup {h}
      /\ hs \in SUBSET Nat
  BY <1>2
<1>4. first \in SUBSET BlockSet /\ \A b \in first : b.type = "initial"
  BY <1>2 DEF Block, BlockSet, BlockTypes
<1>5. /\ observers' = obs /\ currentHandle' = h + 2 /\ told \subseteq more
      /\ \A k \in Keys : t = "entered" /\ locationInfos[k].isInQuery => <<h, k>> \in more
      /\ \/ queries = NoQueries /\ updateQueries(criteria, obs, queue)
         \/ callbacks' = queue /\ locationInfos' = locationInfos
  <2>1. queue = IF t = "entered"
                 THEN Append(callbacks, {Block("initial", h, NoKey, NoLocation)})
                 ELSE callbacks
    BY DEF Dispatch
  <2> QED  BY <2>1 DEF observeEventType
<1>6. \A b \in Queued(callbacks) : Addressed(b, h)
  BY DEF OrderInv, HandlesInv
<1>7. /\ Ordered(callbacks, hs, told) /\ Aware(callbacks, hs, told, locationInfos)
  BY DEF OrderInv
<1>8. t # "entered" => obs["entered"] = hs
  BY <1>2
<1>9. \A i \in DOMAIN callbacks : callbacks[i] \subseteq BlockSet
  BY <1>2
<1>19. \A b \in BlockSet : b.to \in Nat
  BY DEF BlockSet
<1>18. \A u \in ObserverTypes : \A x \in obs[u] : x < h + 2
  BY <1>2 DEF OrderInv, HandlesInv
<1> HIDE DEF obs, first, told, more, hs
<1>10. Ordered(callbacks, obs["entered"], more)
  <2> SUFFICES ASSUME NEW i \in DOMAIN callbacks, NEW b \in callbacks[i],
                      b.type \in {"exited", "moved"}, NEW x \in obs["entered"], x < b.to
               PROVE  Told(callbacks, i, more, x, b.key)
    BY DEF Ordered
  <2>1. b.to < h /\ b.to \in Nat
    BY <1>6, <1>9, <1>19 DEF Queued, Addressed
  <2>2. x \in hs
    BY <1>2, <1>3, <2>1
  <2> QED  BY <1>5, <1>7, <2>2 DEF Ordered, Told
<1>11. Aware(callbacks, obs["entered"], more, locationInfos)
  <2> SUFFICES ASSUME NEW k \in Keys, locationInfos[k].isInQuery, NEW x \in obs["entered"]
               PROVE  Told(callbacks, Len(callbacks) + 1, more, x, k)
    BY DEF Aware
  <2>1. CASE x \in hs
    BY <1>5, <1>7, <2>1 DEF Aware, Told
  <2>2. CASE x = h /\ t = "entered"
    BY <1>5, <2>2 DEF Told
  <2> QED  BY <1>3, <1>8, <2>1, <2>2
<1>12. \A b \in first : b.type \in {"exited", "moved"} =>
         \A x \in obs["entered"] : x < b.to => Told(callbacks, Len(callbacks) + 1, more, x, b.key)
  BY <1>4
<1>13. obs["entered"] \in SUBSET Nat
  BY <1>2, <1>3
<1>14. /\ queue \in Seq(SUBSET BlockSet) /\ Queued(queue) = Queued(callbacks) \cup first
       /\ Ordered(queue, obs["entered"], more)
       /\ \A x, k : Told(callbacks, Len(callbacks) + 1, more, x, k) =>
                      Told(queue, Len(queue) + 1, more, x, k)
  BY <1>2, <1>4, <1>10, <1>12, <1>13, DispatchOrder
<1>15. Aware(queue, obs["entered"], more, locationInfos)
  BY <1>11, <1>14 DEF Aware
<1>16. \A b \in Queued(queue) : Addressed(b, h + 2)
  <2> SUFFICES ASSUME NEW b \in Queued(callbacks)
               PROVE  Addressed(b, h + 2)
    BY <1>4, <1>14 DEF Addressed
  <2>1. Addressed(b, h) /\ b.to \in Nat
    BY <1>6, <1>9, <1>19 DEF Queued
  <2> QED  BY <1>2, <2>1 DEF Addressed
<1> HIDE DEF queue
<1>17. /\ \A b \in Queued(callbacks') : Addressed(b, h + 2)
       /\ Ordered(callbacks', obs["entered"], more)
       /\ Aware(callbacks', obs["entered"], more, locationInfos')
  <2>1. CASE updateQueries(criteria, obs, queue)
    <3>1. h + 2 \in Nat
      BY <1>2
    <3> QED  BY <1>1, <1>2, <1>3, <1>14, <1>15, <1>16, <1>18, <2>1, <3>1, UpdateQueriesOrder
  <2>2. CASE callbacks' = queue /\ locationInfos' = locationInfos
    BY <1>14, <1>15, <1>16, <2>2
  <2> QED  BY <1>5, <2>1, <2>2
<1>20. HandlesInv'
  BY <1>5, <1>17, <1>18 DEF HandlesInv
<1>21. Ordered(callbacks', observers'["entered"], joined' \cup heard')
       /\ Aware(callbacks', observers'["entered"], joined' \cup heard', locationInfos')
  BY <1>5, <1>17 DEF more
<1> QED  BY <1>20, <1>21 DEF OrderInv, Ordered, Aware, Told, Awaits


\* observeReadyWithBlock: tells of no key, but what updateQueries finds.
LEMMA ObserveReadyOrder ==
  ASSUME IInv, OrderInv, observeReadyWithBlock
  PROVE  OrderInv'
<1> DEFINE h == currentHandle
           obs == [observers EXCEPT !["ready"] = @ \cup {h}]
           batch == IF outstandingQueries = {} THEN ReadyBlocks({h}) ELSE {}
           told == joined \cup heard
           hs == observers["entered"]
<1>1. TypeOK /\ KnownKeysWatched /\ InQueryAgreesWithCriteria
  BY DEF IInv
<1>2. /\ callbacks \in Seq(SUBSET BlockSet)
      /\ observers \in [ObserverTypes -> SUBSET Nat] /\ currentHandle \in Nat
      /\ locationInfos \in [Keys -> InfoSet] /\ criteria \in Criteria
      /\ "entered" \in ObserverTypes
  BY <1>1, QueueTypes
<1>3. obs \in [ObserverTypes -> SUBSET Nat] /\ obs["entered"] = hs /\ hs \in SUBSET Nat
  BY <1>2
<1>4. batch \in SUBSET BlockSet /\ \A b \in batch : b.type = "ready"
  BY <1>2, ReadyBlocksFacts
<1>5. /\ observers' = obs /\ currentHandle' = h + 1 /\ joined' = joined /\ heard' = heard
      /\ \/ queries = NoQueries /\ updateQueries(criteria, obs, callbacks)
         \/ callbacks' = Dispatch(callbacks, batch) /\ locationInfos' = locationInfos
  <2>1. ReadyBlocks({h}) # {}
    BY DEF ReadyBlocks
  <2> QED  BY <2>1 DEF observeReadyWithBlock, Dispatch, historyVars
<1>6. /\ Ordered(callbacks, hs, told) /\ Aware(callbacks, hs, told, locationInfos)
  BY DEF OrderInv
<1>7. \A u \in ObserverTypes : \A x \in obs[u] : x < h + 1
  BY <1>2 DEF OrderInv, HandlesInv
<1>8. \A b \in Queued(callbacks) : Addressed(b, h + 1)
  <2> SUFFICES ASSUME NEW b \in Queued(callbacks)
               PROVE  Addressed(b, h + 1)
    OBVIOUS
  <2>1. b \in BlockSet
    BY <1>2 DEF Queued
  <2>2. Addressed(b, h) /\ b.to \in Nat
    BY <2>1 DEF OrderInv, HandlesInv, BlockSet
  <2> QED  BY <1>2, <2>2 DEF Addressed
<1> HIDE DEF obs, batch, told, hs
<1>9. /\ \A b \in Queued(callbacks') : Addressed(b, h + 1)
      /\ Ordered(callbacks', obs["entered"], told)
      /\ Aware(callbacks', obs["entered"], told, locationInfos')
  <2>1. CASE updateQueries(criteria, obs, callbacks)
    <3>1. h + 1 \in Nat
      BY <1>2
    <3> QED  BY <1>1, <1>2, <1>3, <1>6, <1>7, <1>8, <2>1, <3>1, UpdateQueriesOrder
  <2>2. CASE callbacks' = Dispatch(callbacks, batch) /\ locationInfos' = locationInfos
    <3>1. /\ Queued(callbacks') = Queued(callbacks) \cup batch
          /\ Ordered(callbacks', hs, told)
          /\ \A x, k : Told(callbacks, Len(callbacks) + 1, told, x, k) =>
                         Told(callbacks', Len(callbacks') + 1, told, x, k)
      BY <1>2, <1>3, <1>4, <1>6, <2>2, DispatchOrder
    <3> QED  BY <1>3, <1>4, <1>6, <1>8, <2>2, <3>1 DEF Aware, Addressed
  <2> QED  BY <1>5, <2>1, <2>2
<1>10. HandlesInv'
  BY <1>5, <1>7, <1>9 DEF HandlesInv
<1>11. Ordered(callbacks', observers'["entered"], joined' \cup heard')
       /\ Aware(callbacks', observers'["entered"], joined' \cup heard', locationInfos')
  BY <1>5, <1>9 DEF told
<1> QED  BY <1>10, <1>11 DEF OrderInv, Ordered, Aware, Told, Awaits

\* setCenter:, setRadius: and setRegion:
LEMMA SetCriteriaOrder ==
  ASSUME IInv, OrderInv, NEW c \in Criteria, setCriteria(c)
  PROVE  OrderInv'
<1>1. TypeOK /\ KnownKeysWatched /\ InQueryAgreesWithCriteria
  BY DEF IInv
<1>2. /\ callbacks \in Seq(SUBSET BlockSet)
      /\ observers \in [ObserverTypes -> SUBSET Nat] /\ currentHandle \in Nat
  BY <1>1, QueueTypes
<1>3. /\ observers' = observers /\ currentHandle' = currentHandle
      /\ joined' = joined /\ heard' = heard
  BY DEF setCriteria, historyVars
<1>4. CASE updateQueries(c, observers, callbacks)
  <2>1. /\ \A b \in Queued(callbacks') : Addressed(b, currentHandle)
        /\ Ordered(callbacks', observers["entered"], joined \cup heard)
        /\ Aware(callbacks', observers["entered"], joined \cup heard, locationInfos')
    BY <1>1, <1>2, <1>4, UpdateQueriesOrder DEF OrderInv, HandlesInv
  <2>2. HandlesInv'
    BY <1>3, <2>1 DEF OrderInv, HandlesInv
  <2> QED  BY <1>3, <2>1, <2>2 DEF OrderInv, Ordered, Aware, Told, Awaits
<1>5. CASE UNCHANGED <<locationInfos, callbacks>>
  BY <1>3, <1>5, OrderQuiet
<1> QED  BY <1>4, <1>5 DEF setCriteria

\* removeAllObservers and removeObserverWithFirebaseHandle: leave fewer observers.
LEMMA RemoveOrder ==
  ASSUME IInv, OrderInv,
         removeAllObservers \/ \E h \in Registered : removeObserverWithFirebaseHandle(h)
  PROVE  OrderInv'
<1>1. TypeOK
  BY DEF IInv
<1>2. /\ callbacks \in Seq(SUBSET BlockSet) /\ locationInfos \in [Keys -> InfoSet]
      /\ "entered" \in ObserverTypes
  BY <1>1, QueueTypes
<1>3. currentHandle' = currentHandle /\ joined' = joined /\ heard' = heard
  BY DEF removeAllObservers, removeObserverWithFirebaseHandle, historyVars
<1>4. CASE reset
  <2>1. /\ callbacks' = Frozen(callbacks, Keys)
        /\ observers' = [t \in ObserverTypes |-> {}]
    BY <1>4 DEF reset
  <2>2. \A b \in Queued(callbacks') : \E a \in Queued(callbacks) :
          a.type = b.type /\ a.to = b.to /\ a.key = b.key
    BY <1>2, <2>1, FrozenOrder DEF OrderInv
  <2>3. HandlesInv'
    BY <1>3, <2>1, <2>2 DEF OrderInv, HandlesInv, Addressed
  <2>4. observers'["entered"] = {}
    BY <1>2, <2>1
  <2> QED  BY <2>3, <2>4 DEF OrderInv, Ordered, Aware
<1>5. ASSUME NEW h, observers' = [t \in ObserverTypes |-> observers[t] \ {h}],
             UNCHANGED <<locationInfos, callbacks>>
      PROVE  OrderInv'
  <2>1. HandlesInv'
    BY <1>3, <1>5 DEF OrderInv, HandlesInv, Queued
  <2>2. observers'["entered"] \subseteq observers["entered"]
    BY <1>2, <1>5
  <2>3. /\ Ordered(callbacks, observers'["entered"], joined \cup heard)
        /\ Aware(callbacks, observers'["entered"], joined \cup heard, locationInfos)
    BY <2>2, OrderWeakens DEF OrderInv
  <2> QED  BY <1>3, <1>5, <2>1, <2>3 DEF OrderInv, Ordered, Aware, Told, Awaits
<1> QED  BY <1>4, <1>5 DEF removeAllObservers, removeObserverWithFirebaseHandle

\* A batch about one key joins the queue, after that key's blocks were frozen
\* if the key is forgotten.
LEMMA DispatchedOrder ==
  ASSUME TypeOK, OrderInv, UNCHANGED <<observers, currentHandle, joined, heard>>,
         NEW queue \in Seq(SUBSET BlockSet), NEW batch \in SUBSET BlockSet,
         callbacks' = Dispatch(queue, batch),
         Ordered(queue, observers["entered"], joined \cup heard),
         Aware(queue, observers["entered"], joined \cup heard, locationInfos),
         \A b \in Queued(queue) : Addressed(b, currentHandle),
         \A b \in batch : b.type \in {"exited", "moved"} =>
           /\ b.to \in observers[b.type]
           /\ b.key \in Keys /\ locationInfos[b.key].isInQuery,
         \A b \in batch : b.type = "entered" => b.key \in Keys,
         \A k \in Keys : locationInfos'[k].isInQuery =>
           \/ locationInfos[k].isInQuery
           \/ \A h \in observers["entered"] :
                \E b \in batch : b.type = "entered" /\ b.to = h /\ b.key = k
  PROVE  OrderInv'
<1> DEFINE told == joined \cup heard
           hs == observers["entered"]
<1>1. hs \in SUBSET Nat
  BY QueueTypes
<1>2. \A b \in batch : b.type \in {"exited", "moved"} =>
        \A h \in hs : h < b.to => Told(queue, Len(queue) + 1, told, h, b.key)
  BY DEF Aware
<1> HIDE DEF told, hs
<1>3. /\ Queued(callbacks') = Queued(queue) \cup batch
      /\ Ordered(callbacks', hs, told)
      /\ \A h, k : Told(queue, Len(queue) + 1, told, h, k) =>
                     Told(callbacks', Len(callbacks') + 1, told, h, k)
      /\ \A h, k : (\E b \in batch : b.type = "entered" /\ b.to = h /\ b.key = k) =>
                     Told(callbacks', Len(callbacks') + 1, told, h, k)
  BY <1>1, <1>2, DispatchOrder DEF hs, told
<1>4. Aware(callbacks', hs, told, locationInfos')
  <2> SUFFICES ASSUME NEW k \in Keys, locationInfos'[k].isInQuery, NEW h \in hs
               PROVE  Told(callbacks', Len(callbacks') + 1, told, h, k)
    BY DEF Aware
  <2>1. CASE locationInfos[k].isInQuery
    BY <1>3, <2>1 DEF Aware, hs, told
  <2>2. CASE ~locationInfos[k].isInQuery
    BY <1>3, <2>2 DEF hs
  <2> QED  BY <2>1, <2>2
<1>5. HandlesInv'
  <2>1. \A b \in batch : Addressed(b, currentHandle)
    BY DEF OrderInv, HandlesInv, ObserverTypes, EventTypes, Addressed
  <2> QED  BY <1>3, <2>1 DEF OrderInv, HandlesInv
<1> QED  BY <1>3, <1>4, <1>5 DEF OrderInv, Ordered, Aware, Told, Awaits, hs, told

\* The handlers of Firebase events tell of the key they are about.
LEMMA EventOrder ==
  ASSUME IInv, OrderInv, firebaseEvent
  PROVE  OrderInv'
<1>1. PICK e \in Head(events) :
        /\ events # <<>> /\ events' = Taken(events, e)
        /\ \/ childAddedOrChanged(e) \/ childRemoved(e) \/ childRemovedAnswer(e)
           \/ initialDataLoaded(e) \/ eventOfRemovedObserver(e)
  BY DEF firebaseEvent
<1>2. TypeOK /\ InQueryAgreesWithCriteria
  BY DEF IInv
<1>3. e \in EventSet
  BY <1>1, <1>2, TakenEvent
<1>4. UNCHANGED <<observers, currentHandle, joined, heard, criteria>>
  BY DEF firebaseEvent, historyVars
<1>5. /\ callbacks \in Seq(SUBSET BlockSet)
      /\ observers \in [ObserverTypes -> SUBSET Nat] /\ currentHandle \in Nat
      /\ locationInfos \in [Keys -> InfoSet] /\ criteria \in Criteria
  BY <1>2, QueueTypes
<1>6. \A k \in Keys : locationInfos[k].isInQuery => locationInfos[k].known
  BY <1>2 DEF InQueryAgreesWithCriteria
<1>7. /\ Ordered(callbacks, observers["entered"], joined \cup heard)
      /\ Aware(callbacks, observers["entered"], joined \cup heard, locationInfos)
      /\ \A b \in Queued(callbacks) : Addressed(b, currentHandle)
  BY DEF OrderInv, HandlesInv
<1>8. CASE UNCHANGED <<locationInfos, callbacks>>
  BY <1>4, <1>8, OrderQuiet
<1>9. CASE childAddedOrChanged(e) /\ e.value \in Locations
  <2> DEFINE k == e.key
             batch == BlocksFor(observers, criteria, k, e.value)
  <2>1. /\ k \in Keys
        /\ locationInfos' = [locationInfos EXCEPT ![k] = InfoFor(criteria, e.value)]
        /\ callbacks' = Dispatch(callbacks, batch)
    BY <1>3, <1>9 DEF childAddedOrChanged, EventSet
  <2>2. batch \in SUBSET BlockSet
    BY <1>5, <2>1, BlocksForFacts
  <2>3. /\ \A b \in batch :
              /\ b.key = k /\ b.type \in EventTypes /\ b.to \in observers[b.type]
              /\ b.type \in {"exited", "moved"} => locationInfos[k].isInQuery
        /\ locationIsInQuery(criteria, e.value) /\ ~locationInfos[k].isInQuery =>
              \A h \in observers["entered"] :
                \E b \in batch : b.type = "entered" /\ b.to = h /\ b.key = k
    BY <1>5, <1>6, <2>1, BlocksForOrder
  <2> HIDE DEF k, batch
  <2>4. \A x \in Keys : locationInfos'[x].isInQuery =>
           \/ locationInfos[x].isInQuery
           \/ x = k /\ locationIsInQuery(criteria, e.value)
    BY <1>5, <2>1 DEF InfoFor
  <2>5. \A b \in batch : b.type \in {"exited", "moved"} =>
           /\ b.to \in observers[b.type]
           /\ b.key \in Keys /\ locationInfos[b.key].isInQuery
    BY <2>1, <2>3
  <2>7. \A b \in batch : b.type = "entered" => b.key \in Keys
    BY <2>1, <2>3
  <2>6. \A x \in Keys : locationInfos'[x].isInQuery =>
           \/ locationInfos[x].isInQuery
           \/ \A h \in observers["entered"] :
                \E b \in batch : b.type = "entered" /\ b.to = h /\ b.key = x
    BY <2>3, <2>4
  <2> QED  BY <1>2, <1>4, <1>5, <1>7, <2>1, <2>2, <2>5, <2>6, <2>7, DispatchedOrder
<1>10. CASE childRemovedAnswer(e) /\ ~UNCHANGED <<locationInfos, callbacks>>
  <2> DEFINE k == e.key
             location == IF e.value \in Locations THEN e.value ELSE NoLocation
             batch == IF locationInfos[k].isInQuery
                        THEN Blocks(observers, "exited", k, location) ELSE {}
             frozen == Frozen(callbacks, {k})
  <2>1. /\ k \in Keys
        /\ locationInfos' = [locationInfos EXCEPT ![k] = NoInfo]
        /\ callbacks' = Dispatch(frozen, batch)
    BY <1>3, <1>10 DEF childRemovedAnswer, EventSet
  <2>2. /\ batch \in SUBSET BlockSet
        /\ \A b \in batch : /\ b.type = "exited" /\ b.to \in observers["exited"]
                            /\ b.key = k /\ locationInfos[k].isInQuery
    <3>1. location \in Locations \cup {NoLocation}
      OBVIOUS
    <3> HIDE DEF location
    <3>2. observers["exited"] \in SUBSET Nat
      BY <1>5 DEF ObserverTypes, EventTypes
    <3>3. \A h \in observers["exited"] :
            /\ Block("exited", h, k, location) \in BlockSet
            /\ Block("exited", h, k, location).type = "exited"
            /\ Block("exited", h, k, location).to = h
            /\ Block("exited", h, k, location).key = k
      BY <2>1, <3>1, <3>2 DEF Block, BlockSet, BlockTypes, EventTypes
    <3> QED  BY <3>3 DEF Blocks
  <2>3. /\ frozen \in Seq(SUBSET BlockSet) /\ Len(frozen) = Len(callbacks)
        /\ Ordered(frozen, observers["entered"], joined \cup heard)
        /\ \A n, h, x : Told(callbacks, n, joined \cup heard, h, x) =>
                          Told(frozen, n, joined \cup heard, h, x)
        /\ \A b \in Queued(frozen) : \E a \in Queued(callbacks) :
          a.type = b.type /\ a.to = b.to /\ a.key = b.key
    BY <1>5, <1>7, <2>1, FrozenOrder
  <2> HIDE DEF k, batch, frozen
  <2>4. Aware(frozen, observers["entered"], joined \cup heard, locationInfos)
    BY <1>7, <2>3 DEF Aware
  <2>5. \A b \in Queued(frozen) : Addressed(b, currentHandle)
    BY <1>7, <2>3 DEF Addressed
  <2>6. \A b \in batch : b.type \in {"exited", "moved"} =>
           /\ b.to \in observers[b.type]
           /\ b.key \in Keys /\ locationInfos[b.key].isInQuery
    BY <2>1, <2>2
  <2>7. \A x \in Keys : locationInfos'[x].isInQuery => locationInfos[x].isInQuery
    BY <1>5, <2>1 DEF NoInfo
  <2> QED  BY <1>2, <1>4, <2>1, <2>2, <2>3, <2>4, <2>5, <2>6, <2>7, DispatchedOrder
<1>11. CASE initialDataLoaded(e)
  <2> DEFINE batch == IF outstandingQueries' = {} THEN ReadyBlocks(observers["ready"]) ELSE {}
  <2>1. callbacks' = Dispatch(callbacks, batch) /\ locationInfos' = locationInfos
    BY <1>11 DEF initialDataLoaded
  <2>2. /\ batch \in SUBSET BlockSet /\ \A b \in batch : b.type = "ready"
    BY <1>5, ReadyBlocksFacts DEF ObserverTypes
  <2> HIDE DEF batch
  <2> QED  BY <1>2, <1>4, <1>5, <1>7, <2>1, <2>2, DispatchedOrder
<1>12. \/ UNCHANGED <<locationInfos, callbacks>>
       \/ childAddedOrChanged(e) /\ e.value \in Locations
       \/ childRemovedAnswer(e) \/ initialDataLoaded(e)
  BY <1>1 DEF childAddedOrChanged, childRemoved, eventOfRemovedObserver
<1> QED  BY <1>8, <1>9, <1>10, <1>11, <1>12

\* A block that tells an observer of a key makes the pair one that was heard.
LEMMA RunOrder ==
  ASSUME IInv, OrderInv, runSomeBlock
  PROVE  OrderInv'
<1>1. PICK b \in Head(callbacks) : callbacks # <<>> /\ runBlock(b)
  BY DEF runSomeBlock
<1>2. /\ callbacks' = Taken(callbacks, b)
      /\ heard' = heard \cup {<<b.to, k>> : k \in ToldKeys(b)}
      /\ UNCHANGED <<observers, currentHandle, joined, locationInfos>>
  BY <1>1 DEF runBlock, queryVars
<1>3. callbacks \in Seq(SUBSET BlockSet)
  BY QueueTypes DEF IInv
<1>4. 1 \in DOMAIN callbacks /\ b \in callbacks[1] /\ callbacks[1] \subseteq BlockSet
  BY <1>1, <1>3
<1>5. b.type = "entered" => <<b.to, b.key>> \in joined' \cup heard'
  <2> SUFFICES ASSUME b.type = "entered"
               PROVE  b.key \in ToldKeys(b)
    BY <1>2
  <2>1. b.key \in Keys
    BY <1>3, <1>4 DEF OrderInv, HandlesInv, Addressed, Queued
  <2> QED  BY <2>1 DEF ToldKeys
<1>6. /\ Ordered(callbacks', observers["entered"], joined' \cup heard')
      /\ Aware(callbacks', observers["entered"], joined' \cup heard', locationInfos)
  <2>1. joined \cup heard \subseteq joined' \cup heard'
    BY <1>2
  <2> QED  BY <1>1, <1>2, <1>3, <1>5, <2>1, TakenOrder DEF OrderInv
<1>7. HandlesInv'
  <2>1. \A batch \in SUBSET BlockSet : batch \ {b} \in SUBSET BlockSet
    OBVIOUS
  <2>2. Queued(callbacks') \subseteq Queued(callbacks)
    BY <1>1, <1>2, <1>3, <2>1, TakenFacts
  <2> QED  BY <1>2, <2>2 DEF OrderInv, HandlesInv
<1> QED  BY <1>2, <1>6, <1>7 DEF OrderInv, Ordered, Aware, Told, Awaits

\* Every step keeps the order.
LEMMA NextOrder == IInv /\ OrderInv /\ [Next]_vars => OrderInv'
<1> SUFFICES ASSUME IInv, OrderInv, [Next]_vars PROVE OrderInv'
  OBVIOUS
<1>1. CASE UNCHANGED vars
  BY <1>1, OrderQuiet DEF vars, queryVars, historyVars
<1>2. CASE userCall
  BY <1>2, ObserveOrder, ObserveReadyOrder, SetCriteriaOrder, RemoveOrder DEF userCall
<1>3. CASE firebaseStep
  <2>1. UNCHANGED <<callbacks, locationInfos, observers, currentHandle, joined, heard>>
    <3>1. UNCHANGED <<queryVars, callbacks, historyVars>>
      <4>1. ASSUME NEW k \in Keys, NEW v, firebaseWrite(k, v)
            PROVE  UNCHANGED <<queryVars, callbacks, historyVars>>
        BY <4>1 DEF firebaseWrite
      <4>2. ASSUME NEW q \in GeoHashQueries, firebaseSync(q)
            PROVE  UNCHANGED <<queryVars, callbacks, historyVars>>
        BY <4>2 DEF firebaseSync
      <4>3. ASSUME NEW k \in Keys, firebaseGet(k)
            PROVE  UNCHANGED <<queryVars, callbacks, historyVars>>
        BY <4>3 DEF firebaseGet
      <4> QED  BY <1>3, <4>1, <4>2, <4>3 DEF firebaseStep
    <3> QED  BY <3>1 DEF queryVars, historyVars
  <2> QED  BY <2>1, OrderQuiet
<1>4. CASE firebaseEvent
  BY <1>4, EventOrder
<1>5. CASE runSomeBlock
  BY <1>5, RunOrder
<1> QED  BY <1>1, <1>2, <1>3, <1>4, <1>5 DEF Next


\* The invariant and the order hold in every reachable state.
LEMMA OrderHolds == Spec => [](IInv /\ OrderInv)
<1>1. Init => OrderInv
  <2> SUFFICES ASSUME Init PROVE OrderInv
    OBVIOUS
  <2>1. callbacks = <<>> /\ \A k \in Keys : ~locationInfos[k].isInQuery
    BY DEF Init, NoInfo
  <2>2. HandlesInv
    BY <2>1 DEF Init, HandlesInv, Queued
  <2> QED  BY <2>1, <2>2 DEF OrderInv, Ordered, Aware
<1> QED  BY <1>1, InitInv, NextInv, NextOrder, PTL DEF Spec

\* An observer of exits or moves is called for a key only after the observers of
\* entries that came before it were called for that key, unless the key was in the
\* query when they came: no dispatch, freezing or removal changes the order.
THEOREM EntersComeFirst == Spec => EventsFollowEntered
<1> DEFINE A == \A b \in IF callbacks = <<>> THEN {} ELSE Head(callbacks) :
       runBlock(b) /\ b.type \in {"exited", "moved"} =>
         \A h \in observers["entered"] :
           h < b.to /\ <<h, b.key>> \notin joined => <<h, b.key>> \in heard
<1>1. IInv /\ OrderInv => A
  <2> SUFFICES ASSUME IInv, OrderInv, callbacks # <<>>, NEW b \in Head(callbacks),
                      b.type \in {"exited", "moved"}, NEW h \in observers["entered"],
                      h < b.to, <<h, b.key>> \notin joined
               PROVE  <<h, b.key>> \in heard
    OBVIOUS
  <2>1. callbacks \in Seq(SUBSET BlockSet)
    BY QueueTypes DEF IInv
  <2>2. 1 \in DOMAIN callbacks /\ b \in callbacks[1] /\ DOMAIN callbacks \subseteq Nat \ {0}
    BY <2>1
  <2>3. Told(callbacks, 1, joined \cup heard, h, b.key)
    BY <2>2 DEF OrderInv, Ordered
  <2>4. ~Awaits(callbacks, 1, h, b.key)
    BY <2>2 DEF Awaits
  <2> QED  BY <2>3, <2>4 DEF Told
<1>2. IInv /\ OrderInv => [A]_vars
  BY <1>1
<1> QED  BY <1>2, OrderHolds, PTL DEF EventsFollowEntered


-----------------------------------------------------------------------------
(* A query that is set up once: its observers stay and its criterion too.  *)

SetUpOnce == MaxRemovals = 0 /\ MaxCriteriaChanges = 0

\* Until the first observer there is no listener, nothing known and nothing on
\* its way; from then on the ranges are those of the criterion.
OnceInv ==
  /\ queries = NoQueries =>
       /\ listens = {} /\ singles = {} /\ events = <<>>
       /\ \A k \in Keys : gets[k] = 0 /\ ~locationInfos[k].known
  /\ queries # NoQueries => queries = QueriesFor[criteria]

\* Each range that is outstanding is loaded once: it has a single-event observer,
\* or that one's event is on its way.
LoadInv ==
  /\ \A s, r \in singles : s.query = r.query => s = r
  /\ \A s \in singles : s.query \in outstandingQueries
  /\ \A s \in singles : \A e \in Queued(events) : e.type = "value" => e.query # s.query
  /\ \A e \in Queued(events) : e.type = "value" => e.query \in outstandingQueries
  /\ \A i, j \in DOMAIN events : \A d \in events[i], e \in events[j] :
       d.type = "value" /\ e.type = "value" /\ d.query = e.query => i = j /\ d = e
  /\ \A l \in listens : ~l.synced => \E s \in singles : s.query = l.query

\* updateQueries of the first observer.
LEMMA FirstUpdate ==
  ASSUME IInv, OnceInv, NEW obs, NEW queue0, queries = NoQueries,
         updateQueries(criteria, obs, queue0), criteria' = criteria
  PROVE  /\ OnceInv' /\ LoadInv'
         /\ Watched' = QueriesFor[criteria] /\ UNCHANGED <<stored, gets, events>>
         /\ \A q \in Watched' : \E l \in listens' : l.query = q /\ ~l.synced
         /\ \A k \in Keys : ~locationInfos'[k].known
<1>1. TypeOK /\ criteria \in Criteria
  BY DEF IInv, TypeOK
<1>2. Watched = {} /\ Added(criteria) = QueriesFor[criteria] /\ Deleted(criteria) = {}
  BY DEF Watched, Added, Deleted
<1>3. PICK number \in [Added(criteria) -> Nat] :
        /\ listens' = Detached(Deleted(criteria)) \cup
             {[reg |-> number[q], query |-> q, synced |-> FALSE] : q \in Added(criteria)}
        /\ singles' = singles \cup
             {[reg |-> number[q], query |-> q] : q \in Added(criteria)}
  BY <1>1, UpdateQueriesRanges
<1>4. /\ queries' = QueriesFor[criteria] /\ queries' \in SUBSET GeoHashQueries
      /\ Watched' = QueriesFor[criteria]
      /\ outstandingQueries' = (outstandingQueries \ Deleted(criteria)) \cup Added(criteria)
      /\ UNCHANGED <<stored, gets, events>>
  BY <1>1, UpdateQueriesRanges
<1>5. /\ listens = {} /\ singles = {} /\ events = <<>>
      /\ \A k \in Keys : gets[k] = 0 /\ ~locationInfos[k].known
  BY DEF OnceInv
<1>6. /\ listens' = {[reg |-> number[q], query |-> q, synced |-> FALSE] : q \in QueriesFor[criteria]}
      /\ singles' = {[reg |-> number[q], query |-> q] : q \in QueriesFor[criteria]}
  BY <1>2, <1>3, <1>5 DEF Detached
<1>7. queries' # NoQueries
  BY <1>1, <1>4, DataAssumption DEF NoQueries
<1>8. \A k \in Keys : ~locationInfos'[k].known
  BY <1>5 DEF updateQueries, KnownKeys, NoInfo
<1>9. OnceInv'
  <2>1. queries' = QueriesFor[criteria'] /\ queries' # NoQueries
    BY <1>4, <1>7
  <2> QED  BY <2>1 DEF OnceInv
<1>10. LoadInv'
  <2>1. Queued(events') = {} /\ DOMAIN events' = {}
    BY <1>4, <1>5 DEF Queued
  <2>2. \A s, r \in singles' : s.query = r.query => s = r
    BY <1>6
  <2>3. \A s \in singles' : s.query \in outstandingQueries'
    BY <1>2, <1>4, <1>6
  <2>4. \A l \in listens' : \E s \in singles' : s.query = l.query
    <3> SUFFICES ASSUME NEW l \in listens'
                 PROVE  \E s \in singles' : s.query = l.query
      OBVIOUS
    <3>1. PICK q \in QueriesFor[criteria] : l = [reg |-> number[q], query |-> q, synced |-> FALSE]
      BY <1>6
    <3>2. [reg |-> number[q], query |-> q] \in singles'
      BY <1>6
    <3> QED  BY <3>1, <3>2
  <2> QED  BY <2>1, <2>2, <2>3, <2>4 DEF LoadInv
<1>11. \A q \in Watched' : \E l \in listens' : l.query = q /\ ~l.synced
  <2> SUFFICES ASSUME NEW q \in QueriesFor[criteria]
               PROVE  \E l \in listens' : l.query = q /\ ~l.synced
    BY <1>4
  <2>1. [reg |-> number[q], query |-> q, synced |-> FALSE] \in listens'
    BY <1>6
  <2> QED  BY <2>1
<1> QED  BY <1>4, <1>8, <1>9, <1>10, <1>11

\* A step that leaves the ranges, Firebase and the infos alone.
LEMMA OnceQuiet ==
  ASSUME OnceInv, LoadInv,
         UNCHANGED <<criteria, queries, outstandingQueries, locationInfos,
                     listens, singles, gets, events>>
  PROVE  OnceInv' /\ LoadInv'
BY DEF OnceInv, LoadInv, Queued

\* The user's calls: the first observer sets the query up, and what follows only
\* adds observers.
LEMMA OnceUser ==
  ASSUME SetUpOnce, IInv, OnceInv, LoadInv, userCall
  PROVE  \/ /\ queries = NoQueries /\ criteria' = criteria
            /\ \E obs, queue0 : updateQueries(criteria, obs, queue0)
         \/ UNCHANGED <<criteria, queries, outstandingQueries, locationInfos, firebaseVars>>
<1>1. removals \in Nat /\ criteriaChanges \in Nat
  BY DEF IInv, TypeOK
<1>2. ~removeAllObservers /\ \A h \in Registered : ~removeObserverWithFirebaseHandle(h)
  BY <1>1 DEF SetUpOnce, removeAllObservers, removeObserverWithFirebaseHandle
<1>3. \A c \in Criteria : ~setCriteria(c)
  BY <1>1 DEF SetUpOnce, setCriteria
<1>4. \/ \E t \in EventTypes : observeEventType(t)
      \/ observeReadyWithBlock
  BY <1>2, <1>3 DEF userCall
<1> QED  BY <1>4 DEF observeEventType, observeReadyWithBlock

\* A range is synchronised once, and its value event follows.
LEMMA LoadSync ==
  ASSUME IInv, OnceInv, LoadInv, NEW q \in GeoHashQueries, firebaseSync(q)
  PROVE  OnceInv' /\ LoadInv'
<1> DEFINE waiting == {l \in listens : l.query = q /\ ~l.synced}
           asking == {s \in singles : s.query = q}
           held == {k \in Keys : Holds(q, stored[k])}
           added == {Event("added", l.reg, q, k, stored[k]) : l \in waiting, k \in held}
           loaded == {Event("value", s.reg, q, NoKey, NoLocation) : s \in asking}
           between == Dispatch(events, added)
<1>1. /\ events \in Seq(SUBSET EventSet)
      /\ singles \in SUBSET [reg : Nat, query : GeoHashQueries]
      /\ listens \in SUBSET [reg : Nat, query : GeoHashQueries, synced : BOOLEAN]
  BY DEF IInv, TypeOK
<1>2. /\ events' = Dispatch(between, loaded)
      /\ listens' = (listens \ waiting) \cup
           {[reg |-> l.reg, query |-> q, synced |-> TRUE] : l \in waiting}
      /\ singles' = singles \ asking /\ asking # {}
      /\ UNCHANGED <<queryVars, stored, gets>>
  BY DEF firebaseSync
<1>3. PICK s0 \in singles : s0.query = q /\ asking = {s0}
  BY <1>2 DEF LoadInv
<1>4. loaded = {Event("value", s0.reg, q, NoKey, NoLocation)}
  BY <1>3
<1>5. queries # NoQueries
  BY <1>3 DEF OnceInv
<1>6. OnceInv'
  BY <1>2, <1>5 DEF OnceInv, queryVars
<1>7. \A e \in added : e.type = "added"
  BY DEF Event
<1>8. DEFINE val == Event("value", s0.reg, q, NoKey, NoLocation)
<1>9. val.type = "value" /\ val.query = q
  BY DEF Event
<1>10. \A s \in singles' : s \in singles /\ s.query # q
  BY <1>2
<1>11. \A l \in listens' : ~l.synced => l \in listens /\ l.query # q
  BY <1>1, <1>2
<1>12. \A l \in listens' : ~l.synced => \E s \in singles' : s.query = l.query
  <2> SUFFICES ASSUME NEW l \in listens', ~l.synced
               PROVE  \E s \in singles' : s.query = l.query
    OBVIOUS
  <2>1. l \in listens /\ l.query # q
    BY <1>11
  <2>2. PICK s \in singles : s.query = l.query
    BY <2>1 DEF LoadInv
  <2>3. s \in singles'
    BY <1>2, <2>1, <2>2
  <2> QED  BY <2>2, <2>3
<1> HIDE DEF waiting, asking, held, added, loaded, val, between
\* No value event of q is queued before, and val is the only one after.
<1>13. /\ \A i \in DOMAIN events : \A e \in events[i] : e.type = "value" => e.query # q
       /\ \A i \in DOMAIN events : \A e \in events[i] : e \in Queued(events)
  BY <1>3 DEF LoadInv, Queued
<1>14. /\ DOMAIN events = 1..Len(events) /\ Len(events) \in Nat
  BY <1>1
<1>15. /\ between \in Seq((SUBSET EventSet) \cup {added}) /\ Len(between) \in Nat
       /\ DOMAIN between = 1..Len(between)
       /\ Len(events) <= Len(between)
       /\ \A i \in DOMAIN events : between[i] = events[i]
       /\ \A i \in DOMAIN between : i \notin DOMAIN events => between[i] = added
  <2>1. CASE added = {}
    BY <1>1, <2>1 DEF between, Dispatch
  <2>2. CASE added # {}
    <3>1. between = Append(events, added) /\ events \in Seq((SUBSET EventSet) \cup {added})
      BY <1>1, <2>2 DEF between, Dispatch
    <3> QED  BY <1>14, <3>1
  <2> QED  BY <2>1, <2>2
<1>16. /\ events' = Append(between, {val})
       /\ Len(events') = Len(between) + 1 /\ DOMAIN events' = 1..(Len(between) + 1)
       /\ events'[Len(between) + 1] = {val}
       /\ \A i \in DOMAIN between : events'[i] = between[i]
  <2>1. events' = Append(between, {val})
    BY <1>2, <1>4 DEF Dispatch, val
  <2> QED  BY <1>15, <2>1
<1>17. \A i \in DOMAIN events' : \A e \in events'[i] : e.type = "value" =>
         \/ i \in DOMAIN events /\ e \in events[i] /\ e.query # q
         \/ i = Len(between) + 1 /\ e = val
  <2> SUFFICES ASSUME NEW i \in DOMAIN events', NEW e \in events'[i], e.type = "value"
               PROVE  \/ i \in DOMAIN events /\ e \in events[i] /\ e.query # q
                      \/ i = Len(between) + 1 /\ e = val
    OBVIOUS
  <2>1. CASE i = Len(between) + 1
    BY <1>16, <2>1
  <2>2. CASE i \in DOMAIN between
    BY <1>7, <1>13, <1>15, <1>16, <2>2
  <2> QED  BY <1>15, <1>16, <2>1, <2>2
<1>18. \A i, j \in DOMAIN events' : \A d \in events'[i], e \in events'[j] :
         d.type = "value" /\ e.type = "value" /\ d.query = e.query => i = j /\ d = e
  <2> SUFFICES ASSUME NEW i \in DOMAIN events', NEW j \in DOMAIN events',
                      NEW d \in events'[i], NEW e \in events'[j],
                      d.type = "value", e.type = "value", d.query = e.query
               PROVE  i = j /\ d = e
    OBVIOUS
  <2>1. \/ i \in DOMAIN events /\ d \in events[i] /\ d.query # q
        \/ i = Len(between) + 1 /\ d = val
    BY <1>17
  <2>2. \/ j \in DOMAIN events /\ e \in events[j] /\ e.query # q
        \/ j = Len(between) + 1 /\ e = val
    BY <1>17
  <2> QED  BY <1>9, <2>1, <2>2 DEF LoadInv
<1>19. outstandingQueries' = outstandingQueries
  BY <1>2 DEF queryVars
<1>20. \A e \in Queued(events') : e.type = "value" =>
         e.query = q \/ (e \in Queued(events) /\ e.query # q)
  BY <1>9, <1>13, <1>17 DEF Queued
<1>21. \A s \in singles' : \A e \in Queued(events') : e.type = "value" => e.query # s.query
  BY <1>10, <1>20 DEF LoadInv
<1>22. \A e \in Queued(events') : e.type = "value" => e.query \in outstandingQueries'
  BY <1>3, <1>19, <1>20 DEF LoadInv
<1>23. /\ \A s, r \in singles' : s.query = r.query => s = r
       /\ \A s \in singles' : s.query \in outstandingQueries'
  BY <1>10, <1>19 DEF LoadInv
<1> QED  BY <1>6, <1>12, <1>18, <1>21, <1>22, <1>23 DEF LoadInv


\* Where the batches of a queue are when an entry x of the first one is taken.
LEMMA TakenShift ==
  ASSUME NEW T, NEW queue \in Seq(T), queue # <<>>, NEW x \in Head(queue)
  PROVE  \E s \in {0, 1} :
           /\ DOMAIN Taken(queue, x) = 1..(Len(queue) - s)
           /\ Len(Taken(queue, x)) = Len(queue) - s
           /\ s = 1 => queue[1] = {x}
           /\ \A i \in DOMAIN Taken(queue, x) :
                /\ i + s \in DOMAIN queue
                /\ i + s = 1 => Taken(queue, x)[i] = queue[1] \ {x}
                /\ i + s # 1 => Taken(queue, x)[i] = queue[i + s]
<1>0. 1 \in DOMAIN queue /\ Head(queue) = queue[1] /\ DOMAIN queue = 1..Len(queue) /\ Len(queue) \in Nat
  OBVIOUS
<1>1. CASE Head(queue) = {x}
  <2>1. Taken(queue, x) = Tail(queue)
    BY <1>1 DEF Taken
  <2>2. /\ DOMAIN Tail(queue) = 1..(Len(queue) - 1) /\ Len(Tail(queue)) = Len(queue) - 1
        /\ \A i \in DOMAIN Tail(queue) : Tail(queue)[i] = queue[i + 1] /\ i + 1 \in DOMAIN queue /\ i + 1 # 1
    OBVIOUS
  <2> QED  BY <1>0, <1>1, <2>1, <2>2
<1>2. CASE Head(queue) # {x}
  <2> DEFINE new == [queue EXCEPT ![1] = queue[1] \ {x}]
  <2>1. Taken(queue, x) = new
    BY <1>2 DEF Taken
  <2>2. /\ DOMAIN new = 1..Len(queue) /\ Len(new) = Len(queue)
        /\ new[1] = queue[1] \ {x}
        /\ \A i \in DOMAIN new : i \in DOMAIN queue /\ (i # 1 => new[i] = queue[i])
    BY <1>0
  <2> HIDE DEF new
  <2>3. /\ DOMAIN new = 1..(Len(queue) - 0) /\ Len(new) = Len(queue) - 0
        /\ \A i \in DOMAIN new : /\ i + 0 \in DOMAIN queue
                                 /\ i + 0 = 1 => new[i] = queue[1] \ {x}
                                 /\ i + 0 # 1 => new[i] = queue[i + 0]
    BY <1>0, <2>2
  <2>4. 0 \in {0, 1} /\ (0 = 1 => queue[1] = {x})
    OBVIOUS
  <2> QED  BY <2>1, <2>3, <2>4
<1> QED  BY <1>1, <1>2

\* A value event that is handled was the last of its range.
LEMMA LoadEvent ==
  ASSUME IInv, OnceInv, LoadInv, firebaseEvent
  PROVE  OnceInv' /\ LoadInv'
<1>1. PICK e \in Head(events) :
        /\ events # <<>> /\ events' = Taken(events, e)
        /\ \/ childAddedOrChanged(e) \/ childRemoved(e) \/ childRemovedAnswer(e)
           \/ initialDataLoaded(e) \/ eventOfRemovedObserver(e)
  BY DEF firebaseEvent
<1>2. events \in Seq(SUBSET EventSet)
  BY DEF IInv, TypeOK
<1>3. UNCHANGED <<criteria, listens, singles>> /\ queries' = queries /\ queries # NoQueries
  <2>1. queries' = queries
    BY <1>1 DEF childAddedOrChanged, childRemoved, childRemovedAnswer,
                initialDataLoaded, eventOfRemovedObserver
  <2> QED  BY <1>1, <2>1 DEF firebaseEvent, OnceInv
<1>4. OnceInv'
  BY <1>3 DEF OnceInv
<1>5. PICK s \in {0, 1} :
        /\ DOMAIN events' = 1..(Len(events) - s)
        /\ \A i \in DOMAIN events' :
             /\ i + s \in DOMAIN events
             /\ i + s = 1 => events'[i] = events[1] \ {e}
             /\ i + s # 1 => events'[i] = events[i + s]
  BY <1>1, <1>2, TakenShift
<1>6. 1 \in DOMAIN events /\ e \in events[1] /\ DOMAIN events = 1..Len(events) /\ Len(events) \in Nat
  BY <1>1, <1>2
<1>7. \A i \in DOMAIN events' : i + s \in DOMAIN events /\ events'[i] \subseteq events[i + s]
  BY <1>5, <1>6
<1>8. \A i, j \in DOMAIN events' : i + s = j + s => i = j
  BY <1>5, <1>6
<1>9. \A i, j \in DOMAIN events' : \A d \in events'[i], x \in events'[j] :
        d.type = "value" /\ x.type = "value" /\ d.query = x.query => i = j /\ d = x
  BY <1>7, <1>8 DEF LoadInv
<1>10. \A x \in Queued(events') : x \in Queued(events)
  BY <1>7 DEF Queued
<1>11. e.type = "value" => \A x \in Queued(events') : x.type = "value" => x.query # e.query
  <2> SUFFICES ASSUME e.type = "value", NEW i \in DOMAIN events', NEW x \in events'[i],
                      x.type = "value", x.query = e.query
               PROVE  FALSE
    BY DEF Queued
  <2>1. i + s \in DOMAIN events /\ x \in events[i + s]
    BY <1>7
  <2>2. i + s = 1 /\ x = e
    BY <1>6, <2>1 DEF LoadInv
  <2> QED  BY <1>5, <2>2
<1>12. \/ outstandingQueries' = outstandingQueries
       \/ e.type = "value" /\ outstandingQueries' = outstandingQueries \ {e.query}
  BY <1>1 DEF childAddedOrChanged, childRemoved, childRemovedAnswer,
              initialDataLoaded, eventOfRemovedObserver
<1>13. e \in Queued(events)
  BY <1>6 DEF Queued
<1>14. \A r \in singles : e.type = "value" => e.query # r.query
  BY <1>13 DEF LoadInv
<1>15. /\ \A x \in Queued(events') : x.type = "value" => x.query \in outstandingQueries'
       /\ \A r \in singles' : r.query \in outstandingQueries'
       /\ \A r \in singles' : \A x \in Queued(events') : x.type = "value" => x.query # r.query
  BY <1>3, <1>10, <1>11, <1>12, <1>14 DEF LoadInv
<1> QED  BY <1>3, <1>4, <1>9, <1>15 DEF LoadInv

\* A batch without value events joins the queue of events.
LEMMA LoadDispatch ==
  ASSUME TypeOK, OnceInv, LoadInv, NEW batch \in SUBSET EventSet,
         \A e \in batch : e.type # "value",
         events' = Dispatch(events, batch), batch # {} => queries # NoQueries,
         \A k \in Keys : queries = NoQueries => gets'[k] = gets[k],
         UNCHANGED <<criteria, queries, outstandingQueries, locationInfos, listens, singles>>
  PROVE  OnceInv' /\ LoadInv'
<1>1. events \in Seq(SUBSET EventSet)
  BY DEF TypeOK
<1>2. CASE batch = {}
  <2>1. events' = events
    BY <1>2 DEF Dispatch
  <2> QED  BY <2>1 DEF OnceInv, LoadInv, Queued
<1>3. CASE batch # {}
  <2>1. events' = Append(events, batch)
    BY <1>3 DEF Dispatch
  <2>2. /\ DOMAIN events' = 1..(Len(events) + 1) /\ Len(events) \in Nat
        /\ DOMAIN events = 1..Len(events)
        /\ \A i \in DOMAIN events : events'[i] = events[i]
        /\ events'[Len(events) + 1] = batch
    BY <1>1, <2>1
  <2>3. \A i \in DOMAIN events' : \A e \in events'[i] :
          e.type = "value" => i \in DOMAIN events /\ e \in events[i]
    BY <2>2
  <2>4. \A e \in Queued(events') : e.type = "value" => e \in Queued(events)
    BY <2>3 DEF Queued
  <2>5. OnceInv'
    BY <1>3 DEF OnceInv
  <2>6. \A i, j \in DOMAIN events' : \A d \in events'[i], x \in events'[j] :
          d.type = "value" /\ x.type = "value" /\ d.query = x.query => i = j /\ d = x
    BY <2>3 DEF LoadInv
  <2> QED  BY <2>4, <2>5, <2>6 DEF LoadInv
<1> QED  BY <1>2, <1>3

\* What a write and the answer of a read put into the queue.
LEMMA WriteBatch ==
  ASSUME TypeOK, NEW k \in Keys, NEW v \in Values \cup {NoLocation}, firebaseWrite(k, v)
  PROVE  \E batch \in SUBSET EventSet :
           /\ events' = Dispatch(events, batch)
           /\ \A e \in batch :
                /\ e.type \in {"added", "changed", "removed"} /\ e.key = k /\ e.value = v
                /\ \E l \in listens :
                     /\ l.synced /\ e.reg = l.reg /\ e.query = l.query
                     /\ Holds(l.query, v) \/ Holds(l.query, stored[k])
                     /\ e.type = "removed" <=> ~Holds(l.query, v)
           /\ \A l \in listens : l.synced /\ (Holds(l.query, v) \/ Holds(l.query, stored[k])) =>
                \E e \in batch : e.type = "removed" <=> ~Holds(l.query, v)
<1> DEFINE change(l) == IF ~Holds(l.query, v) THEN "removed"
                        ELSE IF Holds(l.query, stored[k]) THEN "changed" ELSE "added"
           event(l) == Event(change(l), l.reg, l.query, k, v)
           touched == {l \in listens : l.synced /\ (Holds(l.query, stored[k]) \/ Holds(l.query, v))}
           batch == {event(l) : l \in touched}
<1>1. listens \in SUBSET [reg : Nat, query : GeoHashQueries, synced : BOOLEAN]
  BY DEF TypeOK
<1>2. events' = Dispatch(events, batch)
  BY DEF firebaseWrite
<1>3. ASSUME NEW l \in touched
      PROVE  /\ event(l) \in EventSet
             /\ event(l).type \in {"added", "changed", "removed"} /\ event(l).key = k
             /\ event(l).value = v /\ event(l).reg = l.reg /\ event(l).query = l.query
             /\ event(l).type = "removed" <=> ~Holds(l.query, v)
  BY <1>1 DEF Event, EventSet
<1>4. /\ \A l \in touched : event(l) \in batch
      /\ \A e \in batch : \E l \in touched : e = event(l)
  OBVIOUS
<1>5. \A l \in touched : l \in listens /\ l.synced /\ (Holds(l.query, stored[k]) \/ Holds(l.query, v))
  OBVIOUS
<1>6. \A l \in listens : l.synced /\ (Holds(l.query, v) \/ Holds(l.query, stored[k])) => l \in touched
  OBVIOUS
<1> HIDE DEF touched, batch, event
<1>7. batch \in SUBSET EventSet
  BY <1>3, <1>4
<1>8. \A e \in batch :
                /\ e.type \in {"added", "changed", "removed"} /\ e.key = k /\ e.value = v
                /\ \E l \in listens :
                     /\ l.synced /\ e.reg = l.reg /\ e.query = l.query
                     /\ Holds(l.query, v) \/ Holds(l.query, stored[k])
                     /\ e.type = "removed" <=> ~Holds(l.query, v)
  <2> SUFFICES ASSUME NEW e \in batch
               PROVE  /\ e.type \in {"added", "changed", "removed"} /\ e.key = k /\ e.value = v
                      /\ \E l \in listens :
                           /\ l.synced /\ e.reg = l.reg /\ e.query = l.query
                           /\ Holds(l.query, v) \/ Holds(l.query, stored[k])
                           /\ e.type = "removed" <=> ~Holds(l.query, v)
    OBVIOUS
  <2>1. PICK l \in touched : e = event(l)
    BY <1>4
  <2> QED  BY <1>3, <1>5, <2>1
<1>9. \A l \in listens : l.synced /\ (Holds(l.query, v) \/ Holds(l.query, stored[k])) =>
        \E e \in batch : e.type = "removed" <=> ~Holds(l.query, v)
  BY <1>3, <1>4, <1>6
<1> QED  BY <1>2, <1>7, <1>8, <1>9

\* Every step of a query that is set up once keeps the two invariants.
LEMMA NextLoad == SetUpOnce /\ IInv /\ OnceInv /\ LoadInv /\ [Next]_vars => OnceInv' /\ LoadInv'
<1> SUFFICES ASSUME SetUpOnce, IInv, OnceInv, LoadInv, [Next]_vars
             PROVE  OnceInv' /\ LoadInv'
  OBVIOUS
<1>0. TypeOK
  BY DEF IInv
<1>1. CASE UNCHANGED vars
  BY <1>1, OnceQuiet DEF vars, queryVars, firebaseVars
<1>2. CASE userCall
  BY <1>2, OnceUser, FirstUpdate, OnceQuiet DEF firebaseVars
<1>3. ASSUME NEW k \in Keys, NEW v \in Values \cup {NoLocation}, firebaseWrite(k, v)
      PROVE  OnceInv' /\ LoadInv'
  <2>1. PICK batch \in SUBSET EventSet :
           /\ events' = Dispatch(events, batch)
           /\ \A e \in batch : e.type \in {"added", "changed", "removed"} /\ \E l \in listens : TRUE
    BY <1>0, <1>3, WriteBatch
  <2>2. batch # {} => queries # NoQueries
    BY <2>1 DEF OnceInv
  <2>3. UNCHANGED <<criteria, queries, outstandingQueries, locationInfos, listens, singles, gets>>
    BY <1>3 DEF firebaseWrite, queryVars
  <2> QED  BY <1>0, <2>1, <2>2, <2>3, LoadDispatch
<1>4. ASSUME NEW q \in GeoHashQueries, firebaseSync(q)
      PROVE  OnceInv' /\ LoadInv'
  BY <1>4, LoadSync
<1>5. ASSUME NEW k \in Keys, firebaseGet(k)
      PROVE  OnceInv' /\ LoadInv'
  <2> DEFINE batch == {Event("get", 0, {}, k, stored[k])}
  <2>1. batch \in SUBSET EventSet /\ \A e \in batch : e.type = "get"
    BY <1>0 DEF TypeOK, Event, EventSet
  <2>2. events' = Dispatch(events, batch)
    BY <1>5 DEF firebaseGet, Dispatch
  <2>3. queries # NoQueries
    BY <1>5 DEF firebaseGet, OnceInv
  <2>4. UNCHANGED <<criteria, queries, outstandingQueries, locationInfos, listens, singles>>
    BY <1>5 DEF firebaseGet, queryVars
  <2> HIDE DEF batch
  <2> QED  BY <1>0, <2>1, <2>2, <2>3, <2>4, LoadDispatch
<1>6. CASE firebaseEvent
  BY <1>6, LoadEvent
<1>7. CASE runSomeBlock
  <2>1. UNCHANGED <<criteria, queries, outstandingQueries, locationInfos,
                    listens, singles, gets, events>>
    BY <1>7 DEF runSomeBlock, runBlock, queryVars, firebaseVars
  <2> QED  BY <2>1, OnceQuiet
<1> QED  BY <1>1, <1>2, <1>3, <1>4, <1>5, <1>6, <1>7 DEF Next, firebaseStep

\* They hold in every reachable state.
LEMMA LoadHolds ==
  ASSUME SetUpOnce
  PROVE  Spec => [](IInv /\ OnceInv /\ LoadInv)
<1>1. Init => OnceInv /\ LoadInv
  <2> SUFFICES ASSUME Init PROVE OnceInv /\ LoadInv
    OBVIOUS
  <2>1. Queued(events) = {} /\ DOMAIN events = {}
    BY DEF Init, Queued
  <2> QED  BY <2>1 DEF Init, OnceInv, LoadInv, NoInfo
<1>2. IInv /\ OnceInv /\ LoadInv /\ [Next]_vars => OnceInv' /\ LoadInv'
  BY NextLoad
<1> QED  BY <1>1, <1>2, InitInv, NextInv, PTL DEF Spec

\* A query that is set up once reports ready only when all its initial data was
\* delivered: with several ranges, in any order of their loads, and with data that
\* changes meanwhile.  A range that was dropped and is watched again may be
\* reported early (the run query_premature).
THEOREM ReadyIsNotEarly ==
  ASSUME SetUpOnce
  PROVE  Spec => []ReadyMeansLoaded
<1>1. IInv /\ OnceInv /\ LoadInv => ReadyMeansLoaded
  <2> SUFFICES ASSUME IInv, LoadInv, outstandingQueries = {}, NEW l \in listens
               PROVE  l.synced /\ \A e \in Queued(events) : ~(e.type = "value" /\ e.reg = l.reg)
    BY DEF ReadyMeansLoaded
  <2> QED  BY DEF LoadInv
<1> QED  BY <1>1, LoadHolds, PTL



-----------------------------------------------------------------------------
(* What is known once Firebase has nothing more to say.                    *)

\* A watched range holds the value v.
Within(v) == \E q \in Watched : Holds(q, v)

\* From some batch on, which has an entry of `fix', or from now on if `base', the
\* queue holds entries of `ok' only.
Settled(queue, base, fix, ok) ==
  \E i \in 0..Len(queue) :
    /\ IF i = 0 THEN base ELSE queue[i] \cap fix # {}
    /\ \A j \in 1..Len(queue) : i <= j => queue[j] \subseteq ok

\* The events that tell the query that k is at v, and those that do not tell otherwise.
Tells(k, v) == {e \in EventSet : e.type \in {"added", "changed"} /\ e.key = k /\ e.value = v}
Agrees(k, v) == {e \in EventSet : e.key = k /\ e.type \in {"added", "changed", "get"} => e.value = v}

\* The events after which k is forgotten, at once or once it was read again, and
\* those that do not make it known.
Drops(k) == {e \in EventSet : /\ e.key = k
                              /\ \/ e.type = "removed"
                                 \/ e.type = "get" /\ ~Within(e.value)}
Spares(k) == {e \in EventSet : ~(e.key = k /\ e.type \in {"added", "changed"})}

\* The stored value of k is known, or will be: the range that holds it has still to
\* load, or an event that tells it is the last word on the key.  A value that no
\* range holds is forgotten, or will be.
KeyAccurate(k) ==
  IF Within(stored[k])
    THEN \/ \E l \in listens : ~l.synced /\ Holds(l.query, stored[k])
         \/ Settled(events, locationInfos[k] = InfoFor(criteria, stored[k]),
                    Tells(k, stored[k]), Agrees(k, stored[k]))
    ELSE Settled(events, ~locationInfos[k].known \/ gets[k] > 0, Drops(k), Spares(k))

AccurateInv ==
  /\ \A e \in Queued(events) : e.type \in {"added", "changed", "removed"} => Attached(e)
  /\ \A k \in Keys : KeyAccurate(k)

\* A batch of `ok' entries keeps a queue settled; one with an entry of `fix'
\* settles any queue.
LEMMA SettledDispatch ==
  ASSUME NEW T, NEW queue \in Seq(T), NEW batch \in T, NEW base \in BOOLEAN,
         NEW fix, NEW ok, batch \subseteq ok,
         Settled(queue, base, fix, ok) \/ batch \cap fix # {}
  PROVE  Settled(Dispatch(queue, batch), base, fix, ok)
<1>1. CASE batch = {}
  <2>1. Settled(queue, base, fix, ok)
    BY <1>1
  <2> QED  BY <1>1, <2>1 DEF Dispatch
<1>2. CASE batch # {}
  <2> DEFINE new == Append(queue, batch)
  <2>1. Dispatch(queue, batch) = new
    BY <1>2 DEF Dispatch
  <2>2. /\ Len(queue) \in Nat /\ Len(new) = Len(queue) + 1 /\ new[Len(queue) + 1] = batch
        /\ \A j \in 1..Len(queue) : new[j] = queue[j]
    OBVIOUS
  <2> HIDE DEF new
  <2>3. CASE batch \cap fix # {}
    <3>1. Len(queue) + 1 \in 0..Len(new) /\ Len(queue) + 1 # 0
      BY <2>2
    <3>2. \A j \in 1..Len(new) : Len(queue) + 1 <= j => new[j] \subseteq ok
      BY <2>2
    <3> QED  BY <2>1, <2>2, <2>3, <3>1, <3>2 DEF Settled
  <2>4. CASE Settled(queue, base, fix, ok)
    <3>1. PICK i \in 0..Len(queue) :
            /\ IF i = 0 THEN base ELSE queue[i] \cap fix # {}
            /\ \A j \in 1..Len(queue) : i <= j => queue[j] \subseteq ok
      BY <2>4 DEF Settled
    <3>2. i \in 0..Len(new) /\ (IF i = 0 THEN base ELSE new[i] \cap fix # {})
      BY <2>2, <3>1
    <3>3. \A j \in 1..Len(new) : i <= j => new[j] \subseteq ok
      BY <2>2, <3>1
    <3> QED  BY <2>1, <3>2, <3>3 DEF Settled
  <2> QED  BY <2>3, <2>4
<1> QED  BY <1>1, <1>2

\* Taking an entry keeps a queue settled when an entry of `fix' makes the new base
\* true, and an entry of `ok' does not make it false.
LEMMA SettledTaken ==
  ASSUME NEW T, NEW queue \in Seq(T), queue # <<>>, NEW x \in Head(queue),
         NEW base \in BOOLEAN, NEW base1 \in BOOLEAN, NEW fix, NEW ok,
         x \in fix => base1, base /\ x \in ok => base1,
         Settled(queue, base, fix, ok)
  PROVE  Settled(Taken(queue, x), base1, fix, ok)
<1> DEFINE new == Taken(queue, x)
<1>1. PICK s \in {0, 1} :
        /\ DOMAIN new = 1..(Len(queue) - s)
        /\ Len(new) = Len(queue) - s
        /\ s = 1 => queue[1] = {x}
        /\ \A i \in DOMAIN new :
             /\ i + s \in DOMAIN queue
             /\ i + s = 1 => new[i] = queue[1] \ {x}
             /\ i + s # 1 => new[i] = queue[i + s]
  BY TakenShift
<1>2. Len(queue) \in Nat /\ Len(queue) >= 1 /\ x \in queue[1] /\ DOMAIN queue = 1..Len(queue)
  OBVIOUS
<1>3. PICK i \in 0..Len(queue) :
        /\ IF i = 0 THEN base ELSE queue[i] \cap fix # {}
        /\ \A j \in 1..Len(queue) : i <= j => queue[j] \subseteq ok
  BY DEF Settled
<1> HIDE DEF new
<1>4. \A j \in 1..Len(new) : i <= j + s => new[j] \subseteq ok
  BY <1>1, <1>2, <1>3
<1>5. \A j \in 1..Len(new) : i = j + s /\ i # 1 => new[j] \cap fix # {}
  BY <1>1, <1>2, <1>3
\* The queue is settled from now on.
<1>6. CASE i = 0 \/ (i = 1 /\ base1)
  <2>1. base1
    BY <1>2, <1>3, <1>6
  <2>2. \A j \in 1..Len(new) : new[j] \subseteq ok
    BY <1>1, <1>2, <1>4, <1>6
  <2>3. 0 \in 0..Len(new)
    BY <1>1, <1>2
  <2> QED  BY <2>1, <2>2, <2>3 DEF Settled, new
\* An entry of the first batch will settle it, and it is not the one taken.
<1>7. CASE i = 1 /\ ~base1
  <2>1. x \notin fix
    BY <1>7
  <2>2. PICK y \in queue[1] : y \in fix
    BY <1>3, <1>7
  <2>3. s = 0 /\ new[1] = queue[1] \ {x} /\ 1 \in 0..Len(new)
    BY <1>1, <1>2, <2>1, <2>2
  <2>4. new[1] \cap fix # {}
    BY <2>1, <2>2, <2>3
  <2>5. \A j \in 1..Len(new) : 1 <= j => new[j] \subseteq ok
    BY <1>4, <1>7, <2>3
  <2> QED  BY <2>3, <2>4, <2>5 DEF Settled, new
<1>8. CASE i > 1
  <2> DEFINE j0 == i - s
  <2>1. j0 \in 1..Len(new) /\ i = j0 + s
    BY <1>1, <1>2, <1>3, <1>8
  <2> HIDE DEF j0
  <2>2. new[j0] \cap fix # {} /\ j0 # 0 /\ j0 \in 0..Len(new)
    BY <1>5, <1>8, <2>1
  <2>3. \A j \in 1..Len(new) : j0 <= j => new[j] \subseteq ok
    BY <1>1, <1>2, <1>4, <2>1
  <2> QED  BY <2>2, <2>3 DEF Settled, new
<1> QED  BY <1>3, <1>6, <1>7, <1>8


\* Nothing is taken back, nothing changes while the ranges load, and every stored
\* value has a location.
Undisturbed == SetUpOnce /\ ~WritesWhileLoading /\ Malformed = {}

\* What a step that leaves the criterion and the ranges alone has to show.
LEMMA KeyStays ==
  ASSUME NEW k \in Keys, NEW v, stored'[k] = v, UNCHANGED <<criteria, queries>>,
         Within(v) =>
           \/ \E l \in listens' : ~l.synced /\ Holds(l.query, v)
           \/ Settled(events', locationInfos'[k] = InfoFor(criteria, v), Tells(k, v), Agrees(k, v)),
         ~Within(v) =>
           Settled(events', ~locationInfos'[k].known \/ gets'[k] > 0, Drops(k), Spares(k))
  PROVE  KeyAccurate(k)'
<1>1. \A x : Within(x)' <=> Within(x)
  BY DEF Within, Watched, Holds
<1>2. Drops(k)' = Drops(k) /\ Spares(k)' = Spares(k)
  BY <1>1 DEF Drops, Spares
<1>3. Within(stored[k])' <=> Within(v)
  BY DEF Within, Watched, Holds
<1>4. /\ Tells(k, stored[k])' = Tells(k, v)
      /\ Agrees(k, stored[k])' = Agrees(k, v)
      /\ InfoFor(criteria, stored[k])' = InfoFor(criteria, v)
  BY DEF Tells, Agrees, InfoFor
<1> QED  BY <1>2, <1>3, <1>4 DEF KeyAccurate

\* What handling an event does to one key.
LEMMA EventEffect ==
  ASSUME TypeOK, Malformed = {}, NEW e \in EventSet, NEW k \in Keys,
         \/ childAddedOrChanged(e) \/ childRemoved(e) \/ childRemovedAnswer(e)
         \/ initialDataLoaded(e) \/ eventOfRemovedObserver(e)
  PROVE  /\ \/ locationInfos'[k] = locationInfos[k]
            \/ /\ e.type \in {"added", "changed"} /\ e.key = k
               /\ locationInfos'[k] = InfoFor(criteria, e.value)
            \/ /\ e.type = "get" /\ e.key = k /\ ~Within(e.value)
               /\ ~locationInfos'[k].known
         /\ gets[k] > 0 => gets'[k] > 0
         /\ e.key = k /\ e.type \in {"added", "changed"} /\ Attached(e) /\ e.value \in Locations
              => locationInfos'[k] = InfoFor(criteria, e.value)
         /\ e.key = k /\ e.type = "removed" /\ Attached(e)
              => ~locationInfos'[k].known \/ gets'[k] > 0
         /\ e.key = k /\ e.type = "get" /\ ~Within(e.value) => ~locationInfos'[k].known
<1>1. gets \in [Keys -> Nat] /\ locationInfos \in [Keys -> InfoSet]
  BY DEF TypeOK
<1>2. CASE childAddedOrChanged(e)
  <2>1. UNCHANGED gets /\ e.type \in {"added", "changed"}
    BY <1>2 DEF childAddedOrChanged
  <2>2. \/ locationInfos' = [locationInfos EXCEPT ![e.key] = InfoFor(criteria, e.value)]
        \/ e.value \notin Locations /\ UNCHANGED locationInfos
    BY <1>2 DEF childAddedOrChanged
  <2> QED  BY <1>1, <2>1, <2>2
<1>3. CASE childRemoved(e)
  <2>1. /\ gets' = IF locationInfos[e.key].known THEN [gets EXCEPT ![e.key] = @ + 1] ELSE gets
        /\ UNCHANGED locationInfos /\ e.type = "removed"
    BY <1>3 DEF childRemoved
  <2> QED  BY <1>1, <2>1
<1>4. CASE childRemovedAnswer(e)
  <2> DEFINE location == IF e.value \in Locations THEN e.value ELSE NoLocation
  <2>1. e.type = "get" /\ UNCHANGED gets
    BY <1>4 DEF childRemovedAnswer
  <2>2. \/ UNCHANGED locationInfos /\ queriesContainGeoHash(Watched, location)
        \/ /\ locationInfos' = [locationInfos EXCEPT ![e.key] = NoInfo]
           /\ ~queriesContainGeoHash(Watched, location)
    BY <1>4 DEF childRemovedAnswer, Watched
  <2>3. queriesContainGeoHash(Watched, location) <=> Within(e.value)
    BY DataAssumption DEF queriesContainGeoHash, Within, Holds, Values
  <2>4. ~NoInfo.known
    BY DEF NoInfo
  <2> HIDE DEF location
  <2> QED  BY <1>1, <2>1, <2>2, <2>3, <2>4
<1>5. CASE initialDataLoaded(e) \/ eventOfRemovedObserver(e)
  BY <1>5 DEF initialDataLoaded, eventOfRemovedObserver
<1> QED  BY <1>2, <1>3, <1>4, <1>5

\* Handling an event keeps every key accurate.
LEMMA EventAccurate ==
  ASSUME Undisturbed, IInv, AccurateInv, firebaseEvent
  PROVE  AccurateInv'
<1>1. PICK e \in Head(events) :
        /\ events # <<>> /\ events' = Taken(events, e)
        /\ \/ childAddedOrChanged(e) \/ childRemoved(e) \/ childRemovedAnswer(e)
           \/ initialDataLoaded(e) \/ eventOfRemovedObserver(e)
  BY DEF firebaseEvent
<1>2. TypeOK /\ events \in Seq(SUBSET EventSet)
  BY DEF IInv, TypeOK
<1>3. 1 \in DOMAIN events /\ e \in events[1] /\ e \in EventSet /\ e \in Queued(events)
  <2>1. 1 \in DOMAIN events /\ e \in events[1] /\ e \in EventSet
    BY <1>1, <1>2
  <2> QED  BY <2>1 DEF Queued
<1>4. UNCHANGED <<criteria, stored, listens>> /\ queries' = queries
  BY <1>1 DEF firebaseEvent, childAddedOrChanged, childRemoved, childRemovedAnswer,
              initialDataLoaded, eventOfRemovedObserver
<1>5. \A x \in Queued(events') : x.type \in {"added", "changed", "removed"} => Attached(x)'
  <2>1. \A batch \in SUBSET EventSet : batch \ {e} \in SUBSET EventSet
    OBVIOUS
  <2>2. Queued(events') \subseteq Queued(events)
    BY <1>1, <1>2, <2>1, TakenFacts
  <2> QED  BY <1>4, <2>2 DEF AccurateInv, Attached
<1>6. e.type \in {"added", "changed", "removed"} => Attached(e)
  BY <1>3 DEF AccurateInv
<1>7. ASSUME NEW k \in Keys
      PROVE  KeyAccurate(k)'
  <2> DEFINE v == stored[k]
             was == locationInfos[k] = InfoFor(criteria, v)
             is == locationInfos'[k] = InfoFor(criteria, v)
             forgotten == ~locationInfos[k].known \/ gets[k] > 0
             forgets == ~locationInfos'[k].known \/ gets'[k] > 0
  <2>1. /\ \/ locationInfos'[k] = locationInfos[k]
           \/ /\ e.type \in {"added", "changed"} /\ e.key = k
              /\ locationInfos'[k] = InfoFor(criteria, e.value)
           \/ /\ e.type = "get" /\ e.key = k /\ ~Within(e.value)
              /\ ~locationInfos'[k].known
        /\ gets[k] > 0 => gets'[k] > 0
        /\ e.key = k /\ e.type \in {"added", "changed"} /\ e.value \in Locations
             => locationInfos'[k] = InfoFor(criteria, e.value)
        /\ e.key = k /\ e.type = "removed"
             => ~locationInfos'[k].known \/ gets'[k] > 0
        /\ e.key = k /\ e.type = "get" /\ ~Within(e.value) => ~locationInfos'[k].known
    BY <1>1, <1>2, <1>3, <1>6, EventEffect DEF Undisturbed
  <2>2. was \in BOOLEAN /\ is \in BOOLEAN /\ forgotten \in BOOLEAN /\ forgets \in BOOLEAN
    OBVIOUS
  <2>3. ASSUME Within(v)
        PROVE  \/ \E l \in listens' : ~l.synced /\ Holds(l.query, v)
               \/ Settled(events', is, Tells(k, v), Agrees(k, v))
    <3>1. v \in Locations
      BY <2>3 DEF Within, Holds, Values, Undisturbed
    <3>2. e \in Tells(k, v) => is
      BY <2>1, <3>1 DEF Tells
    <3>3. was /\ e \in Agrees(k, v) => is
      BY <2>1, <2>3 DEF Agrees
    <3>4. \/ \E l \in listens : ~l.synced /\ Holds(l.query, v)
          \/ Settled(events, was, Tells(k, v), Agrees(k, v))
      BY <2>3 DEF AccurateInv, KeyAccurate
    <3> HIDE DEF was, is, v
    <3> QED  BY <1>1, <1>2, <1>4, <2>2, <3>2, <3>3, <3>4, SettledTaken
  <2>4. ASSUME ~Within(v)
        PROVE  Settled(events', forgets, Drops(k), Spares(k))
    <3>1. e \in Drops(k) => forgets
      BY <2>1 DEF Drops
    <3>2. forgotten /\ e \in Spares(k) => forgets
      BY <2>1 DEF Spares
    <3>3. Settled(events, forgotten, Drops(k), Spares(k))
      BY <2>4 DEF AccurateInv, KeyAccurate
    <3> HIDE DEF forgotten, forgets
    <3> QED  BY <1>1, <1>2, <2>2, <3>1, <3>2, <3>3, SettledTaken
  <2> QED  BY <1>4, <2>3, <2>4, KeyStays
<1> QED  BY <1>5, <1>7 DEF AccurateInv

\* A step that neither the stored values, nor the queue of events, nor the query's
\* state notice.
LEMMA AccurateQuiet ==
  ASSUME AccurateInv,
         UNCHANGED <<criteria, queries, locationInfos, stored, listens, gets, events>>
  PROVE  AccurateInv'
<1>1. ASSUME NEW k \in Keys
      PROVE  KeyAccurate(k)'
  <2>1. KeyAccurate(k)
    BY DEF AccurateInv
  <2> QED  BY <2>1, KeyStays DEF KeyAccurate
<1> QED  BY <1>1 DEF AccurateInv, Attached

\* What a batch of events does to a key it has nothing new about.
LEMMA DispatchAccurate ==
  ASSUME TypeOK, AccurateInv, NEW k \in Keys, NEW batch \in SUBSET EventSet,
         events' = Dispatch(events, batch),
         Within(stored[k]) => batch \subseteq Agrees(k, stored[k]),
         ~Within(stored[k]) => batch \subseteq Spares(k),
         stored'[k] = stored[k], gets'[k] = gets[k],
         UNCHANGED <<criteria, queries, locationInfos, listens>>
  PROVE  KeyAccurate(k)'
<1> DEFINE v == stored[k]
           was == locationInfos[k] = InfoFor(criteria, v)
           forgotten == ~locationInfos[k].known \/ gets[k] > 0
<1>1. events \in Seq(SUBSET EventSet) /\ was \in BOOLEAN /\ forgotten \in BOOLEAN
  BY DEF TypeOK
<1>2. KeyAccurate(k)
  BY DEF AccurateInv
<1>3. Within(v) =>
        \/ \E l \in listens' : ~l.synced /\ Holds(l.query, v)
        \/ Settled(events', was, Tells(k, v), Agrees(k, v))
  <2> SUFFICES ASSUME Within(v), Settled(events, was, Tells(k, v), Agrees(k, v))
               PROVE  Settled(events', was, Tells(k, v), Agrees(k, v))
    BY <1>2 DEF KeyAccurate
  <2> HIDE DEF was
  <2> QED  BY <1>1, SettledDispatch
<1>4. ~Within(v) => Settled(events', forgotten, Drops(k), Spares(k))
  <2> SUFFICES ASSUME ~Within(v), Settled(events, forgotten, Drops(k), Spares(k))
               PROVE  Settled(events', forgotten, Drops(k), Spares(k))
    BY <1>2 DEF KeyAccurate
  <2> HIDE DEF forgotten
  <2> QED  BY <1>1, SettledDispatch
<1> QED  BY <1>3, <1>4, KeyStays

\* The stored values change only when every range has loaded, and each listener that
\* held or holds the value is told.
LEMMA WriteAccurate ==
  ASSUME Undisturbed, IInv, OnceInv, LoadInv, AccurateInv,
         NEW k0 \in Keys, NEW v0 \in Values \cup {NoLocation}, firebaseWrite(k0, v0)
  PROVE  AccurateInv'
<1>1. TypeOK /\ events \in Seq(SUBSET EventSet) /\ stored \in [Keys -> Values \cup {NoLocation}]
  BY DEF IInv, TypeOK
<1>2. PICK batch \in SUBSET EventSet :
           /\ events' = Dispatch(events, batch)
           /\ \A e \in batch :
                /\ e.type \in {"added", "changed", "removed"} /\ e.key = k0 /\ e.value = v0
                /\ \E l \in listens :
                     /\ l.synced /\ e.reg = l.reg /\ e.query = l.query
                     /\ Holds(l.query, v0) \/ Holds(l.query, stored[k0])
                     /\ e.type = "removed" <=> ~Holds(l.query, v0)
           /\ \A l \in listens : l.synced /\ (Holds(l.query, v0) \/ Holds(l.query, stored[k0])) =>
                \E e \in batch : e.type = "removed" <=> ~Holds(l.query, v0)
  BY <1>1, WriteBatch
<1>3. /\ singles = {} /\ stored' = [stored EXCEPT ![k0] = v0]
      /\ UNCHANGED <<criteria, queries, locationInfos, listens, gets>>
  BY DEF firebaseWrite, queryVars, Undisturbed
<1>4. /\ \A l \in listens : l.synced /\ l.query \in Watched
      /\ \A q \in Watched : \E l \in listens : l.query = q
  BY <1>3 DEF LoadInv, IInv, NoOrphanListener
<1>5. \A x \in Queued(events') : x.type \in {"added", "changed", "removed"} => Attached(x)'
  <2>1. Queued(events') = Queued(events) \cup batch
    BY <1>1, <1>2, DispatchFacts
  <2>2. \A e \in batch : Attached(e)
    BY <1>2 DEF Attached
  <2> QED  BY <1>3, <2>1, <2>2 DEF AccurateInv, Attached
<1>6. ASSUME NEW k \in Keys, k # k0
      PROVE  KeyAccurate(k)'
  <2>1. batch \subseteq Agrees(k, stored[k]) /\ batch \subseteq Spares(k)
    BY <1>2, <1>6 DEF Agrees, Spares
  <2>2. stored'[k] = stored[k]
    BY <1>1, <1>3, <1>6
  <2> QED  BY <1>1, <1>2, <1>3, <2>1, <2>2, DispatchAccurate
<1>7. stored'[k0] = v0
  BY <1>1, <1>3
<1>8. ASSUME Within(v0)
      PROVE  Settled(events', locationInfos'[k0] = InfoFor(criteria, v0),
                     Tells(k0, v0), Agrees(k0, v0))
  <2>1. PICK l \in listens : l.synced /\ Holds(l.query, v0)
    BY <1>4, <1>8 DEF Within
  <2>2. PICK e \in batch : e.type # "removed"
    BY <1>2, <2>1
  <2>3. e \in Tells(k0, v0)
    BY <1>2, <2>2 DEF Tells
  <2>4. batch \subseteq Agrees(k0, v0) /\ batch \cap Tells(k0, v0) # {}
    BY <1>2, <2>3 DEF Agrees
  <2> DEFINE is == locationInfos'[k0] = InfoFor(criteria, v0)
  <2>5. is \in BOOLEAN
    OBVIOUS
  <2> HIDE DEF is
  <2>6. Settled(events', is, Tells(k0, v0), Agrees(k0, v0))
    BY <1>1, <1>2, <2>4, <2>5, SettledDispatch
  <2> QED  BY <2>6 DEF is
<1>9. ASSUME ~Within(v0)
      PROVE  Settled(events', ~locationInfos'[k0].known \/ gets'[k0] > 0,
                     Drops(k0), Spares(k0))
  <2>1. \A e \in batch : e.type = "removed"
    BY <1>2, <1>4, <1>9 DEF Within
  <2>2. batch \subseteq Spares(k0) /\ batch \subseteq Drops(k0)
    BY <1>2, <2>1 DEF Spares, Drops
  <2> DEFINE forgets == ~locationInfos'[k0].known \/ gets'[k0] > 0
  <2>3. forgets \in BOOLEAN
    OBVIOUS
  <2>4. Settled(events, forgets, Drops(k0), Spares(k0)) \/ batch \cap Drops(k0) # {}
    <3>1. CASE Within(stored[k0])
      <4>1. PICK l \in listens : l.synced /\ Holds(l.query, stored[k0])
        BY <1>4, <3>1 DEF Within
      <4>2. batch # {}
        BY <1>2, <4>1
      <4> QED  BY <2>2, <4>2
    <3>2. CASE ~Within(stored[k0])
      BY <1>3, <3>2 DEF AccurateInv, KeyAccurate
    <3> QED  BY <3>1, <3>2
  <2> HIDE DEF forgets
  <2>5. Settled(events', forgets, Drops(k0), Spares(k0))
    BY <1>1, <1>2, <2>2, <2>3, <2>4, SettledDispatch
  <2> QED  BY <2>5 DEF forgets
<1>10. KeyAccurate(k0)'
  BY <1>3, <1>7, <1>8, <1>9, KeyStays
<1> QED  BY <1>5, <1>6, <1>10 DEF AccurateInv

\* The answer of a read has the value stored when it was sent.
LEMMA GetAccurate ==
  ASSUME IInv, AccurateInv, NEW k0 \in Keys, firebaseGet(k0)
  PROVE  AccurateInv'
<1> DEFINE e == Event("get", 0, {}, k0, stored[k0])
           batch == {e}
<1>1. /\ TypeOK /\ events \in Seq(SUBSET EventSet) /\ gets \in [Keys -> Nat]
      /\ stored \in [Keys -> Values \cup {NoLocation}]
  BY DEF IInv, TypeOK
<1>2. /\ e \in EventSet /\ e.type = "get" /\ e.key = k0 /\ e.value = stored[k0]
  BY <1>1 DEF Event, EventSet
<1>3. /\ events' = Dispatch(events, batch) /\ gets' = [gets EXCEPT ![k0] = @ - 1]
      /\ UNCHANGED <<criteria, queries, locationInfos, listens, stored>>
  BY DEF firebaseGet, queryVars, Dispatch
<1> HIDE DEF e
<1>4. batch \in SUBSET EventSet
  BY <1>2
<1>5. \A k \in Keys : batch \subseteq Agrees(k, stored[k]) /\ batch \subseteq Spares(k)
  BY <1>2 DEF Agrees, Spares
<1>6. ~Within(stored[k0]) => batch \cap Drops(k0) # {}
  BY <1>2 DEF Drops
<1>10. \A x \in batch : x.type = "get"
  BY <1>2
<1> HIDE DEF batch
<1>7. \A x \in Queued(events') : x.type \in {"added", "changed", "removed"} => Attached(x)'
  <2>1. Queued(Dispatch(events, batch)) = Queued(events) \cup batch
    BY <1>1, <1>4, DispatchFacts
  <2> QED  BY <1>3, <1>10, <2>1 DEF AccurateInv, Attached
<1>8. ASSUME NEW k \in Keys, k # k0
      PROVE  KeyAccurate(k)'
  <2>1. gets'[k] = gets[k]
    BY <1>1, <1>3, <1>8
  <2> QED  BY <1>1, <1>3, <1>4, <1>5, <2>1, DispatchAccurate
<1>9. KeyAccurate(k0)'
  <2> DEFINE v == stored[k0]
             was == locationInfos[k0] = InfoFor(criteria, v)
             forgets == ~locationInfos'[k0].known \/ gets'[k0] > 0
  <2>1. was \in BOOLEAN /\ forgets \in BOOLEAN
    OBVIOUS
  <2>2. Within(v) =>
          \/ \E l \in listens' : ~l.synced /\ Holds(l.query, v)
          \/ Settled(events', was, Tells(k0, v), Agrees(k0, v))
    <3> SUFFICES ASSUME Within(v), Settled(events, was, Tells(k0, v), Agrees(k0, v))
                 PROVE  Settled(events', was, Tells(k0, v), Agrees(k0, v))
      BY <1>3 DEF AccurateInv, KeyAccurate
    <3> HIDE DEF was
    <3> QED  BY <1>1, <1>3, <1>4, <1>5, <2>1, SettledDispatch
  <2>3. ASSUME ~Within(v)
        PROVE  Settled(events', forgets, Drops(k0), Spares(k0))
    <3> HIDE DEF forgets
    <3> QED  BY <1>1, <1>3, <1>4, <1>5, <1>6, <2>1, <2>3, SettledDispatch
  <2> QED  BY <1>3, <2>2, <2>3, KeyStays
<1> QED  BY <1>7, <1>8, <1>9 DEF AccurateInv

\* A range that loads tells of every key it holds.
LEMMA SyncAccurate ==
  ASSUME IInv, AccurateInv, NEW q \in GeoHashQueries, firebaseSync(q)
  PROVE  AccurateInv'
<1> DEFINE waiting == {l \in listens : l.query = q /\ ~l.synced}
           held == {k \in Keys : Holds(q, stored[k])}
           added == {Event("added", l.reg, q, k, stored[k]) : l \in waiting, k \in held}
           loaded == {Event("value", s.reg, q, NoKey, NoLocation) : s \in {r \in singles : r.query = q}}
           between == Dispatch(events, added)
<1>1. /\ events \in Seq(SUBSET EventSet) /\ stored \in [Keys -> Values \cup {NoLocation}]
      /\ listens \in SUBSET [reg : Nat, query : GeoHashQueries, synced : BOOLEAN]
      /\ singles \in SUBSET [reg : Nat, query : GeoHashQueries]
  BY DEF IInv, TypeOK
<1>2. /\ events' = Dispatch(between, loaded)
      /\ listens' = (listens \ waiting) \cup
           {[reg |-> l.reg, query |-> q, synced |-> TRUE] : l \in waiting}
      /\ UNCHANGED <<criteria, queries, locationInfos, stored, gets>>
  BY DEF firebaseSync, queryVars
<1>3. \A e \in added : /\ e \in EventSet /\ e.type = "added" /\ e.key \in held
                       /\ e.value = stored[e.key]
                       /\ \E l \in waiting : e.reg = l.reg
  BY <1>1 DEF Event, EventSet
<1>4. \A e \in loaded : e \in EventSet /\ e.type = "value"
  BY <1>1 DEF Event, EventSet
<1>5. \A l \in waiting, k \in held :
        \E e \in added : e.key = k /\ e.value = stored[k]
  <2> SUFFICES ASSUME NEW l \in waiting, NEW k \in held
               PROVE  \E e \in added : e.key = k /\ e.value = stored[k]
    OBVIOUS
  <2>1. Event("added", l.reg, q, k, stored[k]) \in added
    OBVIOUS
  <2> QED  BY <2>1 DEF Event
<1>6. waiting # {} => q \in Watched
  BY DEF IInv, NoOrphanListener
<1>7. \A l \in listens : l \in listens' \/ (l \in waiting /\ l.query = q)
  BY <1>2
<1>8. \A l \in listens : \E m \in listens' : m.reg = l.reg
  <2> SUFFICES ASSUME NEW l \in waiting PROVE \E m \in listens' : m.reg = l.reg
    BY <1>7
  <2>1. [reg |-> l.reg, query |-> q, synced |-> TRUE] \in listens'
    BY <1>2
  <2> QED  BY <2>1
<1>9. \A l \in waiting : l \in listens
  OBVIOUS
<1>10. \A k \in held : k \in Keys /\ Holds(q, stored[k])
  OBVIOUS
<1>11. \A k \in Keys : Holds(q, stored[k]) => k \in held
  OBVIOUS
<1> HIDE DEF waiting, held, added, loaded
<1>12. added \in SUBSET EventSet /\ loaded \in SUBSET EventSet
  BY <1>3, <1>4
<1>13. between \in Seq(SUBSET EventSet) /\ Queued(events') = Queued(events) \cup added \cup loaded
  <2>1. between \in Seq(SUBSET EventSet) /\ Queued(between) = Queued(events) \cup added
    BY <1>1, <1>12, DispatchFacts
  <2> HIDE DEF between
  <2>2. Queued(events') = Queued(between) \cup loaded
    BY <1>2, <1>12, <2>1, DispatchFacts
  <2> QED  BY <2>1, <2>2
<1>14. \A x \in Queued(events') : x.type \in {"added", "changed", "removed"} => Attached(x)'
  <2>1. \A x \in Queued(events) \cup added :
          x.type \in {"added", "changed", "removed"} => \E l \in listens : l.reg = x.reg
    BY <1>3, <1>9 DEF AccurateInv, Attached
  <2> QED  BY <1>4, <1>8, <1>13, <2>1 DEF Attached
<1>15. ASSUME NEW k \in Keys
       PROVE  KeyAccurate(k)'
  <2> DEFINE v == stored[k]
             was == locationInfos[k] = InfoFor(criteria, v)
             forgotten == ~locationInfos[k].known \/ gets[k] > 0
  <2>1. was \in BOOLEAN /\ forgotten \in BOOLEAN /\ stored'[k] = v
    BY <1>2
  <2>2. loaded \subseteq Agrees(k, v) /\ loaded \subseteq Spares(k)
    BY <1>4 DEF Agrees, Spares
  <2>3. added \subseteq Agrees(k, v)
    BY <1>3 DEF Agrees
  <2>4. Within(v) =>
          \/ \E l \in listens' : ~l.synced /\ Holds(l.query, v)
          \/ Settled(events', was, Tells(k, v), Agrees(k, v))
    <3> SUFFICES ASSUME Within(v), ~\E l \in listens' : ~l.synced /\ Holds(l.query, v)
                 PROVE  Settled(events', was, Tells(k, v), Agrees(k, v))
      OBVIOUS
    <3>1. added \cap Tells(k, v) # {} \/ Settled(events, was, Tells(k, v), Agrees(k, v))
      <4>1. CASE \E l \in listens : ~l.synced /\ Holds(l.query, v)
        <5>1. PICK l \in listens : ~l.synced /\ Holds(l.query, v)
          BY <4>1
        <5>2. l \in waiting /\ k \in held
          BY <1>7, <1>11, <5>1
        <5>3. PICK e \in added : e.key = k /\ e.value = v
          BY <1>5, <5>2
        <5>4. e \in Tells(k, v)
          BY <1>3, <5>3 DEF Tells
        <5> QED  BY <5>4
      <4>2. CASE ~\E l \in listens : ~l.synced /\ Holds(l.query, v)
        BY <4>2 DEF AccurateInv, KeyAccurate
      <4> QED  BY <4>1, <4>2
    <3> HIDE DEF was
    <3>2. Settled(between, was, Tells(k, v), Agrees(k, v))
      BY <1>1, <1>12, <2>1, <2>3, <3>1, SettledDispatch
    <3> HIDE DEF between
    <3> QED  BY <1>2, <1>12, <1>13, <2>1, <2>2, <3>2, SettledDispatch
  <2>5. ASSUME ~Within(v)
        PROVE  Settled(events', forgotten, Drops(k), Spares(k))
    <3>1. added \subseteq Spares(k)
      <4>1. ASSUME NEW e \in added, e.key = k
            PROVE  FALSE
        BY <1>3, <1>6, <1>10, <2>5, <4>1 DEF Within
      <4> QED  BY <1>3, <4>1 DEF Spares
    <3>2. Settled(events, forgotten, Drops(k), Spares(k))
      BY <2>5 DEF AccurateInv, KeyAccurate
    <3> HIDE DEF forgotten
    <3>3. Settled(between, forgotten, Drops(k), Spares(k))
      BY <1>1, <1>12, <2>1, <3>1, <3>2, SettledDispatch
    <3> HIDE DEF between
    <3> QED  BY <1>2, <1>12, <1>13, <2>1, <2>2, <3>3, SettledDispatch
  <2> QED  BY <1>2, <2>4, <2>5, KeyStays
<1> QED  BY <1>14, <1>15 DEF AccurateInv

\* An empty queue is settled when its base holds.
LEMMA SettledEmpty ==
  ASSUME NEW base, base, NEW fix, NEW ok
  PROVE  Settled(<<>>, base, fix, ok)
<1>1. 0 \in 0..Len(<<>>) /\ \A j \in 1..Len(<<>>) : <<>>[j] \subseteq ok
  OBVIOUS
<1> QED  BY <1>1 DEF Settled

\* The first observer attaches a listener to every range that holds a stored value.
LEMMA FirstAccurate ==
  ASSUME IInv, OnceInv, NEW obs, NEW queue0, queries = NoQueries,
         updateQueries(criteria, obs, queue0), criteria' = criteria
  PROVE  AccurateInv'
<1>1. /\ events' = <<>>
      /\ \A q \in Watched' : \E l \in listens' : l.query = q /\ ~l.synced
      /\ \A k \in Keys : ~locationInfos'[k].known
  BY FirstUpdate DEF OnceInv
<1>2. Queued(events') = {}
  BY <1>1 DEF Queued
<1>3. ASSUME NEW k \in Keys
      PROVE  KeyAccurate(k)'
  <2>1. Within(stored[k])' => \E l \in listens' : ~l.synced /\ Holds(l.query, stored'[k])
    BY <1>1 DEF Within, Holds
  <2>2. Settled(events, ~locationInfos[k].known \/ gets[k] > 0, Drops(k), Spares(k))'
    BY <1>1, <1>3, SettledEmpty
  <2> QED  BY <2>1, <2>2 DEF KeyAccurate, Holds
<1> QED  BY <1>2, <1>3 DEF AccurateInv

\* Every step of an undisturbed query keeps the keys accurate.
LEMMA NextAccurate ==
  Undisturbed /\ IInv /\ OnceInv /\ LoadInv /\ AccurateInv /\ [Next]_vars => AccurateInv'
<1> SUFFICES ASSUME Undisturbed, IInv, OnceInv, LoadInv, AccurateInv, [Next]_vars
             PROVE  AccurateInv'
  OBVIOUS
<1>1. CASE UNCHANGED vars
  BY <1>1, AccurateQuiet DEF vars, queryVars, firebaseVars
<1>2. CASE userCall
  <2>1. \/ /\ queries = NoQueries /\ criteria' = criteria
           /\ \E obs, queue0 : updateQueries(criteria, obs, queue0)
        \/ UNCHANGED <<criteria, queries, outstandingQueries, locationInfos, firebaseVars>>
    BY <1>2, OnceUser DEF Undisturbed
  <2> QED  BY <2>1, FirstAccurate, AccurateQuiet DEF firebaseVars
<1>3. CASE firebaseStep
  BY <1>3, WriteAccurate, SyncAccurate, GetAccurate DEF firebaseStep
<1>4. CASE firebaseEvent
  BY <1>4, EventAccurate
<1>5. CASE runSomeBlock
  <2>1. UNCHANGED <<criteria, queries, locationInfos, stored, listens, gets, events>>
    BY <1>5 DEF runSomeBlock, runBlock, queryVars, firebaseVars
  <2> QED  BY <2>1, AccurateQuiet
<1> QED  BY <1>1, <1>2, <1>3, <1>4, <1>5 DEF Next

\* The keys of an undisturbed query are those whose stored location satisfies the
\* criterion, once Firebase has nothing more to say: whatever was written in
\* whatever order, with a key held by several ranges or by none.  Values that
\* change while a range loads may leave a key behind (the run query_ghost).
THEOREM QuietQueryIsAccurate ==
  ASSUME Undisturbed
  PROVE  Spec => []QuiescentAccurate
<1>1. Init => AccurateInv
  <2> SUFFICES ASSUME Init PROVE AccurateInv
    OBVIOUS
  <2>1. /\ Queued(events) = {} /\ events = <<>> /\ Watched = {}
        /\ \A k \in Keys : ~locationInfos[k].known
    BY DEF Init, Queued, Watched, NoInfo
  <2>2. ASSUME NEW k \in Keys
        PROVE  KeyAccurate(k)
    <3>1. ~Within(stored[k])
      BY <2>1 DEF Within
    <3>2. Settled(events, ~locationInfos[k].known \/ gets[k] > 0, Drops(k), Spares(k))
      BY <2>1, SettledEmpty
    <3> QED  BY <3>1, <3>2 DEF KeyAccurate
  <2> QED  BY <2>1, <2>2 DEF AccurateInv
<1>2. IInv /\ OnceInv /\ LoadInv /\ AccurateInv => QuiescentAccurate
  <2> SUFFICES ASSUME IInv, OnceInv, LoadInv, AccurateInv, Quiescent, NEW k \in Keys
               PROVE  /\ locationInfos[k].isInQuery <=> stored[k] \in Area[criteria]
                      /\ locationInfos[k].isInQuery => locationInfos[k].location = stored[k]
    BY DEF QuiescentAccurate
  <2>1. /\ queries # NoQueries /\ queries = QueriesFor[criteria] /\ Watched = QueriesFor[criteria]
        /\ singles = {} /\ events = <<>> /\ gets[k] = 0 /\ criteria \in Criteria
    BY DEF Quiescent, OnceInv, IInv, TypeOK, Watched
  <2>2. \A base, fix, ok : Settled(events, base, fix, ok) => base
    <3>1. Len(events) = 0
      BY <2>1
    <3> QED  BY <3>1 DEF Settled
  <2>3. \A l \in listens : l.synced
    BY <2>1 DEF LoadInv
  <2>4. CASE Within(stored[k])
    <3>1. locationInfos[k] = InfoFor(criteria, stored[k])
      BY <2>2, <2>3, <2>4 DEF AccurateInv, KeyAccurate
    <3>2. /\ InfoFor(criteria, stored[k]).known
          /\ InfoFor(criteria, stored[k]).location = stored[k]
      BY DEF InfoFor
    <3> QED  BY <3>1, <3>2 DEF IInv, InQueryAgreesWithCriteria
  <2>5. CASE ~Within(stored[k])
    <3>1. ~locationInfos[k].known
      <4>1. ~locationInfos[k].known \/ gets[k] > 0
        BY <2>2, <2>5 DEF AccurateInv, KeyAccurate
      <4> QED  BY <2>1, <4>1
    <3>2. stored[k] \notin Area[criteria]
      <4>1. Area[criteria] \subseteq Values
        BY <2>1, DataAssumption DEF Values
      <4> QED  BY <2>1, <2>5, <4>1, CoverAssumption DEF Within, Holds
    <3> QED  BY <3>1, <3>2 DEF IInv, InQueryAgreesWithCriteria
  <2> QED  BY <2>4, <2>5
<1>3. IInv /\ OnceInv /\ LoadInv /\ AccurateInv /\ [Next]_vars => AccurateInv'
  BY NextAccurate
<1>4. Spec => [](IInv /\ OnceInv /\ LoadInv)
  BY LoadHolds DEF Undisturbed
<1> QED  BY <1>1, <1>2, <1>3, <1>4, PTL DEF Spec
=============================================================================
