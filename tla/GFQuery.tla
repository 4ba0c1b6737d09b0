------------------------------ MODULE GFQuery ------------------------------
(***************************************************************************)
(* GeoFire's live geo query: GFQuery.m, with its two concrete subclasses   *)
(* GFCircleQuery and GFRegionQuery, its Firebase observers and the         *)
(* dispatch queue on which the observers' blocks run.                      *)
(*                                                                         *)
(* A geo query watches a set of geohash ranges (`queries') of a Firebase   *)
(* location.  Child events of those ranges keep `locationInfos' up to      *)
(* date, and every change there is reported to observers by blocks that    *)
(* are dispatched asynchronously.  All handlers run under                  *)
(* @synchronized(self), so a handler is one atomic action here; what       *)
(* interleaves are user calls, Firebase events and dispatched blocks.      *)
(*                                                                         *)
(* Data is abstracted as follows.  A geohash is a cell, a GFGeoHashQuery   *)
(* is the set of cells of its range, and a search criterion is an abstract *)
(* value with the area it accepts (locationIsInQuery:) and the ranges it   *)
(* watches (queriesForCurrentCriteria).                                    *)
(***************************************************************************)
EXTENDS Naturals, Sequences, FiniteSets

CONSTANTS
  Keys,            \* the GeoFire keys
  Locations,       \* valid locations
  Malformed,       \* stored values that carry an index "g" but no valid "l"
  Criteria,        \* centre and radius, or region, of the query
  GeoHashQueries,  \* the ranges of geohashes that some criterion watches
  Cell,            \* Cell[v]: the geohash under which the value v is indexed
  Area,            \* Area[c]: the locations that satisfy criterion c
  QueriesFor,      \* QueriesFor[c]: the ranges watched for criterion c
  MaxHandle,       \* bound: no observer is added once currentHandle exceeds it
  MaxRegistrations,\* bound: number of times a range is registered
  MaxWrites,       \* bound: number of changes of the Firebase location
  MaxRemovals,     \* bound: calls that remove observers
  MaxCriteriaChanges, \* bound: calls that set centre, radius or region
  WritesWhileLoading \* whether stored values change while a range is loading

NoLocation == "no location"     \* nil, or the NSNull of an absent child
Live == "live"                  \* a block that will read info.location when run
NoQueries == {{}}               \* self.queries = nil
NoInfo == [known |-> FALSE, location |-> NoLocation, isInQuery |-> FALSE]

Values == Locations \cup Malformed

ASSUME DataAssumption ==
  /\ NoLocation \notin Values /\ Live \notin Values
  /\ Locations \cap Malformed = {}
  /\ Area \in [Criteria -> SUBSET Locations]
  /\ QueriesFor \in [Criteria -> (SUBSET GeoHashQueries) \ {{}}]
  /\ {} \notin GeoHashQueries /\ IsFiniteSet(GeoHashQueries)
  /\ DOMAIN Cell = Values

ASSUME BoundAssumption ==
  /\ MaxHandle \in Nat /\ MaxRegistrations \in Nat /\ MaxWrites \in Nat
  /\ MaxRemovals \in Nat /\ MaxCriteriaChanges \in Nat
  /\ WritesWhileLoading \in BOOLEAN

\* What GFGeoHashQuery promises of the ranges it computes for an area.
ASSUME CoverAssumption ==
  \A c \in Criteria : \A l \in Area[c] : \E q \in QueriesFor[c] : Cell[l] \in q

VARIABLES
  \* --- the GFQuery object
  criteria,           \* centerLocation and radius, or region
  queries,            \* the watched ranges, NoQueries while nil
  firebaseHandles,    \* range -> registration, 0 when there is no entry
  outstandingQueries, \* ranges whose initial data has not been seen
  locationInfos,      \* key -> what the query knows of it
  observers,          \* event type -> handles of its observers
  currentHandle,
  \* --- the callback queue: a sequence of batches; the blocks of one batch
  \* --- were dispatched by one enumeration of a dictionary, in any order
  callbacks,
  \* --- Firebase, external: the stored values, the attached observers, the
  \* --- single-event observers, and the events on their way to the client
  stored, listens, singles, gets, events, registrations,
  \* --- how often the bounded calls have happened
  writes, removals, criteriaChanges,
  \* --- history of the observers' blocks
  heard,   \* <<h, k>>: the key-entered observer h was told of k
  joined,  \* <<h, k>>: k was already in the query when h was registered
  readied  \* handles whose ready block ran

queryVars == <<criteria, queries, firebaseHandles, outstandingQueries,
               locationInfos, observers, currentHandle>>
firebaseVars == <<stored, listens, singles, gets, events, registrations>>
boundVars == <<writes, removals, criteriaChanges>>
historyVars == <<heard, joined, readied>>
vars == <<queryVars, callbacks, firebaseVars, boundVars, historyVars>>

EventTypes == {"entered", "exited", "moved"}
ObserverTypes == EventTypes \cup {"ready"}

-----------------------------------------------------------------------------
(* Dispatching blocks.                                                     *)

\* dispatch_async of a set of blocks; enumerating an empty dictionary
\* dispatches nothing.
Dispatch(queue, batch) == IF batch = {} THEN queue ELSE Append(queue, batch)

\* The blocks, or events, of all batches.
Queued(queue) == UNION {queue[i] : i \in DOMAIN queue}

\* Running one block of the first batch.
Taken(queue, x) ==
  IF Head(queue) = {x} THEN Tail(queue)
                       ELSE [queue EXCEPT ![1] = @ \ {x}]

Block(type, to, key, location) ==
  [type |-> type, to |-> to, key |-> key, location |-> location]

\* One block per observer of the event type.
Blocks(obs, type, key, location) ==
  {Block(type, h, key, location) : h \in obs[type]}

NoKey == "no key"

\* Mutant: the block looks the key up in locationInfos when it runs.
FrozenByKey(queue, removed) == queue

\* A dispatched block holds the info object, not the location.  Once the
\* object leaves locationInfos nothing writes to it any more.
Frozen(queue, removed) ==
  [i \in DOMAIN queue |->
    {IF b.location = Live /\ b.key \in removed
       THEN Block(b.type, b.to, b.key, locationInfos[b.key].location)
       ELSE b : b \in queue[i]}]

-----------------------------------------------------------------------------
(* GFQuery's helpers, on the criterion c and the ranges qs in force.       *)

locationIsInQuery(c, l) == l \in Area[c]

\* Mutant: every geohash passes for a watched one.
queriesContainAnyGeoHash(qs, l) == TRUE

queriesContainGeoHash(qs, l) == l \in Values /\ \E q \in qs : Cell[l] \in q

\* Mutant: the criterion in force before the handler began.
InfoForOldCriteria(c, l) ==
  [known |-> TRUE, location |-> l, isInQuery |-> locationIsInQuery(criteria, l)]

InfoFor(c, l) ==
  [known |-> TRUE, location |-> l, isInQuery |-> locationIsInQuery(c, l)]

\* Mutant: a new key is taken to have been in the query already.
EventForNewKeyMoves(c, info, l) ==
  LET now == locationIsInQuery(c, l)
  IN  IF info.known /\ ~info.isInQuery /\ now THEN "entered"
      ELSE IF info.location # l /\ now THEN "moved"
      ELSE IF info.isInQuery /\ ~now THEN "exited"
      ELSE "none"

\* The event that updateLocationInfo:forKey: reports, "none" when nothing.
EventFor(c, info, l) ==
  LET now == locationIsInQuery(c, l)
      changedLocation == info.location # l
  IN  IF (~info.known \/ ~info.isInQuery) /\ now THEN "entered"
      ELSE IF info.known /\ changedLocation /\ now THEN "moved"
      ELSE IF info.isInQuery /\ ~now THEN "exited"
      ELSE "none"

BlocksFor(obs, c, k, l) ==
  LET type == EventFor(c, locationInfos[k], l)
  IN  IF type = "none" THEN {} ELSE Blocks(obs, type, k, Live)

ReadyBlocks(readyObservers) ==
  {Block("ready", h, NoKey, NoLocation) : h \in readyObservers}

KnownKeys == {k \in Keys : locationInfos[k].known}

-----------------------------------------------------------------------------
(* The Firebase observers that updateQueries and reset attach and detach.  *)

\* Mutant: the observers of dropped ranges stay attached.
DetachedNone(qs) == listens

\* removeObserverWithHandle: for the handles recorded for the ranges qs.
Detached(qs) == {l \in listens : \A q \in qs : l.reg # firebaseHandles[q]}

\* A fresh registration number for each range of toAdd.
Numberings(toAdd) ==
  {f \in [toAdd -> (registrations + 1)..(registrations + Cardinality(toAdd))] :
     \A q, r \in toAdd : f[q] = f[r] => q = r}

-----------------------------------------------------------------------------
(* updateQueries, called with the criterion c, the observers obs and the   *)
(* blocks queue0 dispatched before it in the same handler.                 *)
(* firebaseHandles keeps the entries of deleted ranges: it is asked to      *)
(* remove the key `handle', and its keys are ranges.                       *)

updateQueries(c, obs, queue0) ==
  LET old == IF queries = NoQueries THEN {} ELSE queries
      new == QueriesFor[c]
      toDelete == old \ new
      toAdd == new \ old
      outstanding == (outstandingQueries \ toDelete) \cup toAdd
      reported == 
        UNION {BlocksFor(obs, c, k, locationInfos[k].location) : k \in KnownKeys}
      oldLocations ==
        {k \in KnownKeys : ~queriesContainGeoHash(new, locationInfos[k].location)}
      ready == IF outstanding = {} THEN ReadyBlocks(obs["ready"]) ELSE {}
  IN  /\ registrations + Cardinality(toAdd) <= MaxRegistrations
      /\ queries' = new
      /\ outstandingQueries' = outstanding
      /\ \E number \in Numberings(toAdd) :
           /\ firebaseHandles' = [q \in GeoHashQueries |->
                IF q \in toAdd THEN number[q] ELSE firebaseHandles[q]]
           /\ listens' = Detached(toDelete) \cup
                {[reg |-> number[q], query |-> q, synced |-> FALSE] : q \in toAdd}
           /\ singles' = singles \cup
                {[reg |-> number[q], query |-> q] : q \in toAdd}
      /\ registrations' = registrations + Cardinality(toAdd)
      /\ locationInfos' = [k \in Keys |->
           IF k \in KnownKeys \ oldLocations
             THEN InfoFor(c, locationInfos[k].location) ELSE NoInfo]
      /\ callbacks' =
           Dispatch(Frozen(Dispatch(queue0, reported), oldLocations), ready)
      /\ UNCHANGED <<stored, gets, events>>

\* reset: detaches the observers of every watched range and forgets all.
reset ==
  /\ listens' = Detached(IF queries = NoQueries THEN {} ELSE queries)
  /\ firebaseHandles' = [q \in GeoHashQueries |-> 0]
  /\ queries' = NoQueries
  /\ outstandingQueries' = {}
  /\ observers' = [t \in ObserverTypes |-> {}]
  /\ locationInfos' = [k \in Keys |-> NoInfo]
  /\ callbacks' = Frozen(callbacks, Keys)
  /\ UNCHANGED <<singles, gets, stored, events, registrations>>

-----------------------------------------------------------------------------
(* The public methods.                                                     *)

Registered == UNION {observers[t] : t \in ObserverTypes}

\* observeEventType:withBlock:.  A key-entered observer first gets a block
\* that reports the keys in the query at the time the block runs.
observeEventType(t) ==
  LET h == currentHandle
      obs == [observers EXCEPT ![t] = @ \cup {h}]
      queue == IF t = "entered"
                 THEN Append(callbacks, {Block("initial", h, NoKey, NoLocation)})
                 ELSE callbacks
  IN  /\ currentHandle <= MaxHandle
      /\ observers' = obs
      /\ currentHandle' = currentHandle + 2
      /\ joined' = joined \cup
           {<<h, k>> : k \in {x \in Keys : t = "entered" /\ locationInfos[x].isInQuery}}
      /\ \/ /\ queries = NoQueries
            /\ updateQueries(criteria, obs, queue)
         \/ /\ queries # NoQueries
            /\ callbacks' = queue
            /\ UNCHANGED <<queries, firebaseHandles, outstandingQueries,
                           locationInfos, firebaseVars>>
      /\ UNCHANGED <<criteria, boundVars, heard, readied>>

\* observeReadyWithBlock:.
observeReadyWithBlock ==
  LET h == currentHandle
      obs == [observers EXCEPT !["ready"] = @ \cup {h}]
  IN  /\ currentHandle <= MaxHandle
      /\ observers' = obs
      /\ currentHandle' = currentHandle + 1
      /\ \/ /\ queries = NoQueries
            /\ updateQueries(criteria, obs, callbacks)
         \/ /\ queries # NoQueries
            /\ callbacks' = IF outstandingQueries = {}
                              THEN Append(callbacks, ReadyBlocks({h})) ELSE callbacks
            /\ UNCHANGED <<queries, firebaseHandles, outstandingQueries,
                           locationInfos, firebaseVars>>
      /\ UNCHANGED <<criteria, boundVars, historyVars>>

\* setCenter:, setRadius: and setRegion:, through searchCriteriaDidChange.
setCriteria(c) ==
  /\ criteriaChanges < MaxCriteriaChanges
  /\ criteriaChanges' = criteriaChanges + 1
  /\ criteria' = c
  /\ \/ /\ queries # NoQueries
        /\ updateQueries(c, observers, callbacks)
     \/ /\ queries = NoQueries
        /\ UNCHANGED <<queries, firebaseHandles, outstandingQueries,
                       locationInfos, callbacks, firebaseVars>>
  /\ UNCHANGED <<observers, currentHandle, writes, removals, historyVars>>

removeAllObservers ==
  /\ removals < MaxRemovals
  /\ removals' = removals + 1
  /\ reset
  /\ UNCHANGED <<criteria, currentHandle, writes, criteriaChanges, historyVars>>

removeObserverWithFirebaseHandle(h) ==
  LET remaining == [t \in ObserverTypes |-> observers[t] \ {h}]
  IN  /\ removals < MaxRemovals
      /\ removals' = removals + 1
      /\ \/ /\ \A t \in ObserverTypes : remaining[t] = {}
            /\ reset
         \/ /\ \E t \in ObserverTypes : remaining[t] # {}
            /\ observers' = remaining
            /\ UNCHANGED <<queries, firebaseHandles, outstandingQueries,
                           locationInfos, callbacks, firebaseVars>>
      /\ UNCHANGED <<criteria, currentHandle, writes, criteriaChanges, historyVars>>

-----------------------------------------------------------------------------
(* The handlers of Firebase events.                                        *)

Attached(e) == \E l \in listens : l.reg = e.reg

\* Mutant: the test for a nil location is missing.
childAddedOrChangedUnchecked(e) ==
  /\ e.type \in {"added", "changed"}
  /\ Attached(e)
  /\ locationInfos' = [locationInfos EXCEPT ![e.key] = InfoFor(criteria, e.value)]
  /\ callbacks' = Dispatch(callbacks, BlocksFor(observers, criteria, e.key, e.value))
  /\ UNCHANGED <<queries, outstandingQueries, gets>>

\* childAdded: and childChanged:; a value without a valid location is ignored.
childAddedOrChanged(e) ==
  /\ e.type \in {"added", "changed"}
  /\ Attached(e)
  /\ \/ /\ e.value \in Locations
        /\ locationInfos' = [locationInfos EXCEPT ![e.key] = InfoFor(criteria, e.value)]
        /\ callbacks' = Dispatch(callbacks, BlocksFor(observers, criteria, e.key, e.value))
     \/ /\ e.value \notin Locations
        /\ UNCHANGED <<locationInfos, callbacks>>
  /\ UNCHANGED <<queries, outstandingQueries, gets>>

\* childRemoved: asks Firebase for the key's present value.
childRemoved(e) ==
  /\ e.type = "removed"
  /\ Attached(e)
  /\ gets' = IF locationInfos[e.key].known THEN [gets EXCEPT ![e.key] = @ + 1] ELSE gets
  /\ UNCHANGED <<queries, outstandingQueries, locationInfos, callbacks>>

\* The answer: the key is forgotten unless a watched range still holds it.
\* The location of the key-exited block is the one of the answer.
childRemovedAnswer(e) ==
  LET location == IF e.value \in Locations THEN e.value ELSE NoLocation
      qs == IF queries = NoQueries THEN {} ELSE queries
  IN  /\ e.type = "get"
      /\ \/ /\ queriesContainGeoHash(qs, location)
            /\ UNCHANGED <<locationInfos, callbacks>>
         \/ /\ ~queriesContainGeoHash(qs, location)
            /\ locationInfos' = [locationInfos EXCEPT ![e.key] = NoInfo]
            /\ callbacks' = Dispatch(Frozen(callbacks, {e.key}),
                 IF locationInfos[e.key].isInQuery
                   THEN Blocks(observers, "exited", e.key, location) ELSE {})
      /\ UNCHANGED <<queries, outstandingQueries, gets>>

\* Mutant: the loaded range is not taken out of outstandingQueries.
initialDataLoadedKept(e) ==
  /\ e.type = "value"
  /\ callbacks' = Dispatch(callbacks,
       IF outstandingQueries = {} THEN ReadyBlocks(observers["ready"]) ELSE {})
  /\ UNCHANGED <<queries, outstandingQueries, locationInfos, gets>>

\* Mutant: the first range to load ends the waiting.
initialDataLoadedFirst(e) ==
  /\ e.type = "value"
  /\ outstandingQueries' = {}
  /\ callbacks' = Dispatch(callbacks, ReadyBlocks(observers["ready"]))
  /\ UNCHANGED <<queries, locationInfos, gets>>

\* Mutant: checkAndFireReadyEvent runs before the range is taken out.
initialDataLoadedCheckedFirst(e) ==
  /\ e.type = "value"
  /\ outstandingQueries' = outstandingQueries \ {e.query}
  /\ callbacks' = Dispatch(callbacks,
       IF outstandingQueries = {} THEN ReadyBlocks(observers["ready"]) ELSE {})
  /\ UNCHANGED <<queries, locationInfos, gets>>

\* The single value event of a range: its initial data is complete.  The
\* block captured `query' and runs whether or not the range is still watched.
initialDataLoaded(e) ==
  /\ e.type = "value"
  /\ outstandingQueries' = outstandingQueries \ {e.query}
  /\ callbacks' = Dispatch(callbacks,
       IF outstandingQueries' = {} THEN ReadyBlocks(observers["ready"]) ELSE {})
  /\ UNCHANGED <<queries, locationInfos, gets>>

\* Firebase calls no block of an observer that was removed.
eventOfRemovedObserver(e) ==
  /\ e.type \in {"added", "changed", "removed"}
  /\ ~Attached(e)
  /\ UNCHANGED <<queries, outstandingQueries, locationInfos, callbacks, gets>>

firebaseEvent ==
  /\ events # <<>>
  /\ \E e \in Head(events) :
       /\ \/ childAddedOrChanged(e)
          \/ childRemoved(e)
          \/ childRemovedAnswer(e)
          \/ initialDataLoaded(e)
          \/ eventOfRemovedObserver(e)
       /\ events' = Taken(events, e)
  /\ UNCHANGED <<criteria, firebaseHandles, observers, currentHandle, stored,
                 listens, singles, registrations, boundVars, historyVars>>

-----------------------------------------------------------------------------
(* The callback queue runs a block.                                        *)

\* The location an observer sees is read when the block runs.
SeenLocation(b) ==
  IF b.location = Live THEN locationInfos[b.key].location ELSE b.location

\* The keys that the block reports as being in the query.
ToldKeys(b) ==
  {k \in Keys : \/ b.type = "entered" /\ k = b.key
                \/ b.type = "initial" /\ locationInfos[k].isInQuery}

runBlock(b) ==
  /\ callbacks # <<>>
  /\ b \in Head(callbacks)
  /\ callbacks' = Taken(callbacks, b)
  /\ heard' = heard \cup {<<b.to, k>> : k \in ToldKeys(b)}
  /\ readied' = IF b.type = "ready" THEN readied \cup {b.to} ELSE readied
  /\ UNCHANGED <<queryVars, firebaseVars, boundVars, joined>>

runSomeBlock == callbacks # <<>> /\ \E b \in Head(callbacks) : runBlock(b)

-----------------------------------------------------------------------------
(* Firebase, external: modelled from how GFQuery.m uses it.                *)

Event(type, reg, query, key, value) ==
  [type |-> type, reg |-> reg, query |-> query, key |-> key, value |-> value]

Holds(q, v) == v \in Values /\ Cell[v] \in q

\* A child of the location is set (setLocation:forKey:) or removed
\* (removeKey:) by some client: every synchronised observer whose range held
\* or holds it gets an event.
firebaseWrite(k, v) ==
  LET was == stored[k]
      change(l) ==
        IF ~Holds(l.query, v) THEN "removed"
        ELSE IF Holds(l.query, was) THEN "changed" ELSE "added"
      touched == {l \in listens : l.synced /\ (Holds(l.query, was) \/ Holds(l.query, v))}
  IN  /\ writes < MaxWrites
      /\ writes' = writes + 1
      /\ WritesWhileLoading \/ singles = {}
      /\ v # was
      /\ stored' = [stored EXCEPT ![k] = v]
      /\ events' = Dispatch(events,
           {Event(change(l), l.reg, l.query, k, v) : l \in touched})
      /\ UNCHANGED <<queryVars, callbacks, listens, singles, gets, registrations,
                     removals, criteriaChanges, historyVars>>

\* The initial data of a range arrives: child-added events, then the value
\* event of every waiting single-event observer of the range.
firebaseSync(q) ==
  LET waiting == {l \in listens : l.query = q /\ ~l.synced}
      asking == {s \in singles : s.query = q}
      held == {k \in Keys : Holds(q, stored[k])}
      added == {Event("added", l.reg, q, k, stored[k]) : l \in waiting, k \in held}
      loaded == {Event("value", s.reg, q, NoKey, NoLocation) : s \in asking}
  IN  /\ asking # {}
      /\ events' = Dispatch(Dispatch(events, added), loaded)
      /\ listens' = (listens \ waiting) \cup
           {[reg |-> l.reg, query |-> q, synced |-> TRUE] : l \in waiting}
      /\ singles' = singles \ asking
      /\ UNCHANGED <<queryVars, callbacks, stored, gets, registrations, boundVars,
                     historyVars>>

\* The answer to observeSingleEventOfType: on a key.
firebaseGet(k) ==
  /\ gets[k] > 0
  /\ gets' = [gets EXCEPT ![k] = @ - 1]
  /\ events' = Append(events, {Event("get", 0, {}, k, stored[k])})
  /\ UNCHANGED <<queryVars, callbacks, stored, listens, singles, registrations,
                 boundVars, historyVars>>

-----------------------------------------------------------------------------
\* initWithGeoFire: and the initial values of the subclasses.
Init ==
  /\ criteria \in Criteria
  /\ queries = NoQueries
  /\ firebaseHandles = [q \in GeoHashQueries |-> 0]
  /\ outstandingQueries = {}
  /\ locationInfos = [k \in Keys |-> NoInfo]
  /\ observers = [t \in ObserverTypes |-> {}]
  /\ currentHandle = 1
  /\ callbacks = <<>>
  /\ stored \in [Keys -> Values \cup {NoLocation}]
  /\ listens = {} /\ singles = {} /\ events = <<>>
  /\ gets = [k \in Keys |-> 0]
  /\ registrations = 0
  /\ writes = 0 /\ removals = 0 /\ criteriaChanges = 0
  /\ heard = {} /\ joined = {} /\ readied = {}

userCall ==
  \/ \E t \in EventTypes : observeEventType(t)
  \/ observeReadyWithBlock
  \/ \E c \in Criteria : setCriteria(c)
  \/ removeAllObservers
  \/ \E h \in Registered : removeObserverWithFirebaseHandle(h)

firebaseStep ==
  \/ \E k \in Keys, v \in Values \cup {NoLocation} : firebaseWrite(k, v)
  \/ \E q \in GeoHashQueries : firebaseSync(q)
  \/ \E k \in Keys : firebaseGet(k)

Next == userCall \/ firebaseStep \/ firebaseEvent \/ runSomeBlock

\* The server answers, and the two queues keep running; nothing obliges the
\* user to call or the stored data to change.
Fairness ==
  /\ \A q \in GeoHashQueries : WF_vars(firebaseSync(q))
  /\ \A k \in Keys : WF_vars(firebaseGet(k))
  /\ WF_vars(firebaseEvent)
  /\ WF_vars(runSomeBlock)

Spec == Init /\ [][Next]_vars
FairSpec == Spec /\ Fairness

-----------------------------------------------------------------------------
(* Properties.                                                             *)

Watched == IF queries = NoQueries THEN {} ELSE queries

BlockTypes == EventTypes \cup {"ready", "initial"}

BlockSet == [type : BlockTypes, to : Nat, key : Keys \cup {NoKey},
             location : Locations \cup {Live, NoLocation}]

EventSet ==
  {e \in [type : {"added", "changed", "removed", "get", "value"}, reg : Nat,
          query : GeoHashQueries \cup {{}}, key : Keys \cup {NoKey},
          value : Values \cup {NoLocation}] : e.type # "value" => e.key \in Keys}

InfoSet == [known : BOOLEAN, location : Locations \cup {NoLocation},
            isInQuery : BOOLEAN]

\* Every variable has its type: the query object, its two queues and Firebase.
TypeOK ==
  /\ criteria \in Criteria
  /\ queries \in (SUBSET GeoHashQueries) \cup {NoQueries}
  /\ firebaseHandles \in [GeoHashQueries -> Nat]
  /\ outstandingQueries \in SUBSET GeoHashQueries
  /\ locationInfos \in [Keys -> InfoSet]
  /\ observers \in [ObserverTypes -> SUBSET Nat]
  /\ currentHandle \in Nat
  /\ callbacks \in Seq(SUBSET BlockSet)
  /\ stored \in [Keys -> Values \cup {NoLocation}]
  /\ listens \in SUBSET [reg : Nat, query : GeoHashQueries, synced : BOOLEAN]
  /\ singles \in SUBSET [reg : Nat, query : GeoHashQueries]
  /\ gets \in [Keys -> Nat]
  /\ events \in Seq(SUBSET EventSet)
  /\ registrations \in Nat
  /\ writes \in Nat /\ removals \in Nat /\ criteriaChanges \in Nat
  /\ heard \in SUBSET (Nat \X Keys)
  /\ joined \in SUBSET (Nat \X Keys)
  /\ readied \in SUBSET Nat

\* The Firebase observers that are attached are exactly those that the query
\* can still detach: one for each watched range, under the handle recorded in
\* firebaseHandles.  So neither updateQueries nor reset can leave an observer
\* behind, or raise "Wanted to remove a geohash query that was not registered!".
NoOrphanListener ==
  /\ \A l \in listens : l.query \in Watched /\ l.reg = firebaseHandles[l.query]
  /\ \A q \in Watched : \E l \in listens : l.query = q

\* What the query knows of a key is covered by a watched range, so that
\* Firebase will report the key's next change: updateQueries (oldLocations)
\* and childRemoved: drop every key that no range would report any more.
KnownKeysWatched ==
  \A k \in Keys : locationInfos[k].known =>
    \E q \in Watched : Holds(q, locationInfos[k].location)

\* isInQuery always agrees with the criterion in force, through every change
\* of centre, radius or region between the events.
InQueryAgreesWithCriteria ==
  \A k \in Keys : locationInfos[k].isInQuery <=>
    locationInfos[k].known /\ locationInfos[k].location \in Area[criteria]

\* A range that is waited for has its value event still to come: the ready
\* event can not be lost, whatever was removed or registered again meanwhile.
OutstandingWillLoad ==
  \A q \in outstandingQueries :
    \/ \E s \in singles : s.query = q
    \/ \E e \in Queued(events) : e.type = "value" /\ e.query = q

\* Every block that reports an entry or a move finds a location when it runs,
\* although the key may have been forgotten, or forgotten and found again,
\* since it was dispatched: the block holds the info object itself.
BlocksHaveLocation ==
  \A b \in Queued(callbacks) : b.type \in {"entered", "moved"} => SeenLocation(b) \in Locations

\* An observer of exits or moves is called for a key only after the observers
\* of entries that were registered before it were called for that key, unless
\* the key was in the query when the observer of entries was registered.
\* GeoFire's README promises it without "unless" ("Key moved and key exited
\* events are guaranteed to be preceded by a key entered event"), but such a key
\* may leave before the first block of the observer enumerates locationInfos.
EventsFollowEntered ==
  [][\A b \in IF callbacks = <<>> THEN {} ELSE Head(callbacks) :
       runBlock(b) /\ b.type \in {"exited", "moved"} =>
         \A h \in observers["entered"] :
           h < b.to /\ <<h, b.key>> \notin joined => <<h, b.key>> \in heard]_vars

\* GFQuery.h: the ready observer is called "once all initial GeoFire data has
\* been loaded": when no range is outstanding, the initial child-added events
\* of every attached observer have been delivered.
ReadyMeansLoaded ==
  queries # NoQueries /\ outstandingQueries = {} =>
    \A l \in listens :
      /\ l.synced
      /\ \A e \in Queued(events) : ~(e.type = "value" /\ e.reg = l.reg)

Quiescent ==
  /\ queries # NoQueries
  /\ singles = {} /\ events = <<>> /\ \A k \in Keys : gets[k] = 0

\* README: "As the locations for keys change, the query is updated in realtime":
\* once Firebase has nothing more to say, the keys reported as inside are the
\* keys whose stored location satisfies the criterion, at that location.
QuiescentAccurate ==
  Quiescent =>
    \A k \in Keys :
      /\ locationInfos[k].isInQuery <=> stored[k] \in Area[criteria]
      /\ locationInfos[k].isInQuery => locationInfos[k].location = stored[k]

\* A ready observer that stays registered is eventually called, even when
\* criteria change and other observers come and go.
ReadyEventually ==
  \A h \in 1..(MaxHandle + 1) :
    h \in observers["ready"] ~> (h \in readied \/ h \notin observers["ready"])
=============================================================================
