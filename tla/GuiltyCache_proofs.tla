------------------------- MODULE GuiltyCache_proofs -------------------------
(***************************************************************************)
(* The cached list of top guilties, for any number of readers, posts and   *)
(* updates, any expiration and time limit, and wherever Redis is: how long *)
(* a page may lack an update, and which pages lack none.                   *)
(***************************************************************************)
EXTENDS GuiltyCache, TLAPS

(* The time of an update starts with its commit.                           *)
SinceInv == \A n \in 1..MaxUpdates : n > updates => since[n] = 0

(* The entry was new, give or take a request, when it was stored.          *)
EntryInv == cached # Nothing => LacksOnly(cached, stored + HARAKIRI)

(* A list that is about to be stored is as old as its request; one from    *)
(* the cache was at most as old as an entry when the request began.        *)
ListInv ==
    \A r \in Reader :
        /\ page[r] = "set" => LacksOnly(list[r], elapsed[r])
        /\ page[r] \in {"again", "done"} =>
               LacksOnly(list[r], EXPIRATION + HARAKIRI + elapsed[r])

(* A list that was queried for is one the request may have asked for.      *)
AskedInv ==
    \A r \in Reader :
        /\ asked[r] <= updates
        /\ (page[r] = "set" \/ (page[r] \in {"again", "done"} /\ ~hit[r])) =>
               list[r] >= asked[r]

IInv == TypeOK /\ SinceInv /\ EntryInv /\ ListInv /\ AskedInv /\ OnlyHitsAreOld

LEMMA Bounds ==
  /\ MaxUpdates \in Nat /\ MaxFails \in Nat /\ EXPIRATION \in Nat /\ HARAKIRI \in Nat
  /\ Nothing \notin Nat /\ Deployments \subseteq BOOLEAN
  BY CacheAssumption
-----------------------------------------------------------------------------
LEMMA InitInv == Init => IInv
  <1>. SUFFICES ASSUME Init PROVE IInv
    OBVIOUS
  <1>1. TypeOK
    <2>1. direct \in [Reader -> BOOLEAN] /\ hit \in [Reader -> BOOLEAN]
      BY DEF Init
    <2>2. 0 \in 0..Horizon /\ 0 \in Age /\ 0 \in 0..EXPIRATION /\ 0 \in 0..HARAKIRI
      BY Bounds DEF Horizon, Age
    <2>. QED
      BY <2>1, <2>2, Bounds DEF Init, TypeOK, Page, Editing
  <1>2. SinceInv
    BY Bounds DEF Init, SinceInv
  <1>3. EntryInv /\ ListInv /\ AskedInv /\ OnlyHitsAreOld
    BY DEF Init, EntryInv, ListInv, AskedInv, OnlyHitsAreOld
  <1>. QED
    BY <1>1, <1>2, <1>3 DEF IInv

(* The steps of a GET, of a POST, and of what is around them.              *)
ReaderStep(r)  == Request(r) \/ View(r) \/ FailView(r)
EditorStep(e) == Post(e) \/ Edit(e) \/ FailPost(e)

LEMMA TypeStep ==
  ASSUME TypeOK, [Next]_vars
  PROVE  TypeOK'
  <1>. USE Bounds DEF TypeOK, Age, Page, Editing, table, entry, request
  <1>1. ASSUME NEW r \in Reader, ReaderStep(r)
        PROVE  TypeOK'
    <2>1. CASE Request(r)
      BY <2>1 DEF Request, Go
    <2>2. CASE Get(r)
      <3>1. hit' \in [Reader -> BOOLEAN] /\ UNCHANGED <<local, table, entry, redis, direct,
                                                       elapsed, asked, editing, fails>>
        BY <2>2 DEF Get
      <3>2. CASE Have(r, cached) /\ Go(r, Render(r)) /\ cached # Nothing
        BY <3>1, <3>2 DEF Have, Go, Render
      <3>3. CASE page' = [page EXCEPT ![r] = "query"] /\ UNCHANGED list
        BY <3>1, <3>3
      <3>4. CASE page' = [page EXCEPT ![r] = "fallback"] /\ UNCHANGED list
        BY <3>1, <3>4
      <3>. QED
        BY <2>2, <3>2, <3>3, <3>4 DEF Get, Go
    <2>3. CASE Query(r)
      BY <2>3 DEF Query, Go, Have, Render
    <2>4. CASE Set(r)
      <3>1. UNCHANGED <<local, table, redis, direct, list, elapsed, asked, hit, editing, fails>>
            /\ list[r] \in Age /\ 0 \in 0..EXPIRATION
        BY <2>4 DEF Set
      <3>2. CASE cached' = list[r] /\ stored' = 0 /\ Go(r, Render(r))
        BY <2>4, <3>1, <3>2 DEF Set, Go, Render
      <3>3. CASE UNCHANGED entry /\ Go(r, "fallback")
        BY <3>1, <3>3 DEF Go
      <3>. QED
        BY <2>4, <3>2, <3>3 DEF Set
    <2>5. CASE QueryAgain(r)
      BY <2>5 DEF QueryAgain, Go, Have
    <2>6. CASE Respond(r)
      BY <2>6 DEF Respond, Leave, Go, Have
    <2>7. CASE FailView(r)
      BY <2>7 DEF FailView, Leave, Go, Have
    <2>. QED
      BY <1>1, <2>1, <2>2, <2>3, <2>4, <2>5, <2>6, <2>7 DEF ReaderStep, View
  <1>2. ASSUME NEW e \in Editor, EditorStep(e)
        PROVE  TypeOK'
    <2>1. CASE Post(e)
      BY <2>1 DEF Post, Proceed
    <2>2. CASE UpdateHidden(e) \/ UpdateComment(e)
      <3>1. updates' \in Age /\ UNCHANGED <<local, since, entry, redis, request, fails>>
        BY <2>2 DEF UpdateHidden, UpdateComment, Update
      <3>2. PICK step \in Editing : Proceed(e, step)
        BY <2>2 DEF UpdateHidden, UpdateComment
      <3>. QED
        BY <3>1, <3>2 DEF Proceed
    <2>3. CASE Uncache(e)
      BY <2>3 DEF Uncache, Proceed
    <2>4. CASE FailPost(e)
      BY <2>4 DEF FailPost, Proceed
    <2>. QED
      BY <1>2, <2>1, <2>2, <2>3, <2>4 DEF EditorStep, Edit
  <1>3. ASSUME NEW u \in Unhider, Unhide(u)
        PROVE  TypeOK'
    BY <1>3 DEF Unhide, Update
  <1>4. CASE Tick
    <2>1. since' \in [1..MaxUpdates -> 0..Horizon]
      BY <1>4 DEF Tick, Horizon
    <2>2. stored' \in 0..EXPIRATION
      BY <1>4 DEF Tick
    <2>3. elapsed' \in [Reader -> 0..HARAKIRI]
      BY <1>4 DEF Tick
    <2>4. UNCHANGED <<local, updates, cached, redis, page, direct, list, asked, hit,
                      editing, fails>>
      BY <1>4 DEF Tick
    <2>. QED
      BY <2>1, <2>2, <2>3, <2>4
  <1>5. CASE Expire \/ StopRedis \/ StartRedis
    BY <1>5 DEF Expire, StopRedis, StartRedis
  <1>6. CASE UNCHANGED vars
    BY <1>6 DEF vars
  <1>. QED
    BY <1>1, <1>2, <1>3, <1>4, <1>5, <1>6 DEF Next, ReaderStep, EditorStep

-----------------------------------------------------------------------------
(* What the steps do to the time of the updates.                           *)
LEMMA SinceStep ==
  ASSUME TypeOK, SinceInv, [Next]_vars
  PROVE  /\ SinceInv'
         /\ updates' \in {updates, updates + 1} /\ (~Tick => since' = since)
  <1>. USE Bounds DEF TypeOK, SinceInv, Age
  <1>1. CASE Tick
    BY <1>1 DEF Tick
  <1>2. ASSUME NEW r \in Reader, ReaderStep(r)
        PROVE  UNCHANGED <<updates, since>>
    BY <1>2 DEF ReaderStep, Request, View, Get, Query, Set, QueryAgain, Respond, FailView, table
  <1>3. ASSUME NEW e \in Editor, EditorStep(e)
        PROVE  since' = since /\ updates' \in {updates, updates + 1}
    BY <1>3 DEF EditorStep, Post, Edit, UpdateHidden, UpdateComment, Uncache, FailPost, Update, table
  <1>4. ASSUME NEW u \in Unhider, Unhide(u)
        PROVE  since' = since /\ updates' \in {updates, updates + 1}
    BY <1>4 DEF Unhide, Update
  <1>5. CASE Expire \/ StopRedis \/ StartRedis \/ UNCHANGED vars
    BY <1>5 DEF Expire, StopRedis, StartRedis, vars, table
  <1>. QED
    BY <1>1, <1>2, <1>3, <1>4, <1>5 DEF Next, ReaderStep, EditorStep

(* A list lacks no older update after a commit than before it ...          *)
LEMMA LacksAfterCommit ==
  ASSUME TypeOK, SinceInv, [Next]_vars, ~Tick, NEW age \in Age, NEW ticks \in Nat,
         LacksOnly(age, ticks)
  PROVE  \A n \in 1..updates' : n > age => since'[n] <= ticks
  <1>. USE Bounds DEF TypeOK, SinceInv, Age
  <1>1. since' = since /\ updates' \in {updates, updates + 1} /\ updates' \in Age
    BY SinceStep, TypeStep
  <1>2. ASSUME NEW n \in 1..updates', n > age
        PROVE  since'[n] <= ticks
    <2>1. CASE n <= updates
      BY <1>1, <1>2, <2>1 DEF LacksOnly
    <2>2. CASE n > updates
      BY <1>1, <1>2, <2>2
    <2>. QED
      BY <1>1, <2>1, <2>2
  <1>. QED
    BY <1>2

(* ... and one that is a tick older after a tick.                          *)
LEMMA LacksAfterTick ==
  ASSUME TypeOK, Tick, NEW age \in Age, NEW ticks \in Nat, LacksOnly(age, ticks)
  PROVE  \A n \in 1..updates' : n > age => since'[n] <= ticks + 1
  <1>. USE Bounds DEF TypeOK, Age
  <1>1. updates' = updates /\ \A n \in 1..MaxUpdates : since'[n] <= since[n] + 1
    BY DEF Tick, Horizon
  <1>2. \A n \in 1..updates : n \in 1..MaxUpdates /\ since[n] \in Nat /\ since'[n] \in Int
    BY DEF Tick, Horizon
  <1>. QED
    BY <1>1, <1>2 DEF LacksOnly

LEMMA EntryStep ==
  ASSUME IInv, [Next]_vars
  PROVE  EntryInv'
  <1>. USE Bounds DEF IInv
  <1>. SUFFICES ASSUME cached' # Nothing
                PROVE  \A n \in 1..updates' : n > cached' => since'[n] <= stored' + HARAKIRI
    BY DEF EntryInv, LacksOnly
  <1>1. CASE Tick
    <2>1. /\ cached \in Age /\ cached' = cached /\ stored \in Nat /\ stored' = stored + 1
          /\ LacksOnly(cached, stored + HARAKIRI)
      BY <1>1 DEF Tick, TypeOK, EntryInv
    <2>2. \A n \in 1..updates' : n > cached => since'[n] <= stored + HARAKIRI + 1
      BY <1>1, <2>1, LacksAfterTick
    <2>. QED
      BY <2>1, <2>2
  <1>2. CASE ~Tick /\ cached' = cached /\ stored' = stored
    <2>1. cached \in Age /\ stored + HARAKIRI \in Nat /\ LacksOnly(cached, stored + HARAKIRI)
      BY <1>2 DEF TypeOK, EntryInv
    <2>2. \A n \in 1..updates' : n > cached => since'[n] <= stored + HARAKIRI
      BY <1>2, <2>1, LacksAfterCommit
    <2>. QED
      BY <1>2, <2>2
  <1>3. ASSUME NEW r \in Reader, Set(r), cached' = list[r], stored' = 0
        PROVE  \A n \in 1..updates' : n > cached' => since'[n] <= stored' + HARAKIRI
    <2>1. /\ list[r] \in Age /\ elapsed[r] \in 0..HARAKIRI /\ LacksOnly(list[r], elapsed[r])
          /\ UNCHANGED <<updates, since>>
      BY <1>3 DEF Set, TypeOK, ListInv, table
    <2>2. \A n \in 1..updates : since[n] \in Nat
      BY DEF TypeOK, Age, Horizon
    <2>. QED
      BY <1>3, <2>1, <2>2 DEF LacksOnly
  <1>. QED
    <2>1. ASSUME NEW r \in Reader, ReaderStep(r)
          PROVE  UNCHANGED <<cached, stored>> \/ (Set(r) /\ cached' = list[r] /\ stored' = 0)
      BY <2>1 DEF ReaderStep, View, Request, Get, Query, Set, QueryAgain, Respond, FailView, entry
    <2>2. ASSUME NEW e \in Editor, EditorStep(e)
          PROVE  UNCHANGED <<cached, stored>>
      BY <2>2 DEF EditorStep, Post, Edit, UpdateHidden, UpdateComment, Uncache, FailPost, entry
    <2>3. CASE Expire \/ StopRedis \/ StartRedis \/ (\E u \in Unhider : Unhide(u)) \/ UNCHANGED vars
      <3>1. UNCHANGED <<cached, stored>>
        BY <2>3 DEF Expire, StopRedis, StartRedis, Unhide, entry, vars
      <3>. QED
        BY <1>1, <1>2, <3>1
    <2>. QED
      BY <1>1, <1>2, <1>3, <2>1, <2>2, <2>3 DEF Next, ReaderStep, EditorStep

(* A step of another request, or of none, leaves the one at hand alone.    *)
Same(r) ==
    /\ page'[r] = page[r] /\ direct'[r] = direct[r] /\ list'[r] = list[r]
    /\ elapsed'[r] = elapsed[r] /\ asked'[r] = asked[r] /\ hit'[r] = hit[r]

LEMMA OtherRequests ==
  ASSUME TypeOK, [Next]_vars, ~Tick, NEW r \in Reader, ~ReaderStep(r)
  PROVE  Same(r)
  <1>. USE DEF TypeOK, Same, request
  <1>1. ASSUME NEW q \in Reader, q # r, ReaderStep(q)
        PROVE  Same(r)
    BY <1>1 DEF ReaderStep, View, Request, Get, Query, Set, QueryAgain, Respond, FailView, Go, Have, Leave
  <1>2. ASSUME NEW e \in Editor, EditorStep(e)
        PROVE  Same(r)
    BY <1>2 DEF EditorStep, Post, Edit, UpdateHidden, UpdateComment, Uncache, FailPost
  <1>3. CASE Expire \/ StopRedis \/ StartRedis \/ (\E u \in Unhider : Unhide(u)) \/ UNCHANGED vars
    BY <1>3 DEF Expire, StopRedis, StartRedis, Unhide, vars
  <1>. QED
    BY <1>1, <1>2, <1>3 DEF Next, ReaderStep, EditorStep

LEMMA ListStep ==
  ASSUME IInv, [Next]_vars
  PROVE  ListInv'
  <1>. USE Bounds DEF IInv
  <1>. SUFFICES ASSUME NEW r \in Reader, page'[r] \in {"set", "again", "done"}
                PROVE  \A n \in 1..updates' : n > list'[r] =>
                           since'[n] <= IF page'[r] = "set" THEN elapsed'[r]
                                        ELSE EXPIRATION + HARAKIRI + elapsed'[r]
    BY DEF ListInv, LacksOnly
  <1>. DEFINE limit == IF page[r] = "set" THEN elapsed[r] ELSE EXPIRATION + HARAKIRI + elapsed[r]
  <1>0. limit \in Nat /\ elapsed[r] \in Nat /\ \A n \in 1..updates : since[n] \in Nat
    BY DEF TypeOK, Age, Horizon
  <1>1. CASE Tick
    <2>1. page'[r] = page[r] /\ list'[r] = list[r] /\ elapsed'[r] = elapsed[r] + 1
      BY <1>1 DEF Tick, TypeOK
    <2>2. list[r] \in Age /\ LacksOnly(list[r], limit)
      BY <2>1 DEF TypeOK, ListInv
    <2>3. \A n \in 1..updates' : n > list[r] => since'[n] <= limit + 1
      <3>. HIDE DEF limit
      <3>. QED BY <1>0, <1>1, <2>2, LacksAfterTick
    <2>. QED
      BY <1>0, <2>1, <2>3
  <1>2. CASE ~Tick /\ Same(r)
    <2>1. list[r] \in Age /\ LacksOnly(list[r], limit)
      BY <1>2 DEF TypeOK, ListInv, Same
    <2>2. \A n \in 1..updates' : n > list[r] => since'[n] <= limit
      <3>. HIDE DEF limit
      <3>. QED BY <1>0, <1>2, <2>1, LacksAfterCommit
    <2>. QED
      BY <1>2, <2>2 DEF Same
  <1>3. CASE ReaderStep(r)
    <2>. USE DEF TypeOK, ListInv, LacksOnly, table
    <2>1. CASE Query(r) \/ QueryAgain(r)
      <3>1. list'[r] = updates /\ UNCHANGED updates
        BY <2>1 DEF Query, QueryAgain, Have, Go
      <3>2. \A n \in 1..updates : ~(n > updates)
        BY Bounds DEF Age
      <3>. QED
        BY <3>1, <3>2
    <2>2. CASE Get(r)
      <3>1. stored \in 0..EXPIRATION /\ cached # Nothing /\ list'[r] = cached
            /\ page'[r] \in {"again", "done"} /\ UNCHANGED <<updates, since, elapsed>>
        BY <2>2 DEF Get, Have, Go, Render
      <3>2. \A n \in 1..updates : n > cached => since[n] <= stored + HARAKIRI
        BY <3>1 DEF EntryInv
      <3>. QED
        BY <1>0, <3>1, <3>2
    <2>3. CASE Set(r)
      <3>1. page[r] = "set" /\ list'[r] = list[r] /\ page'[r] \in {"again", "done"}
            /\ UNCHANGED <<updates, since, elapsed>>
        BY <2>3 DEF Set, Go, Render
      <3>2. \A n \in 1..updates : n > list[r] => since[n] <= elapsed[r]
        BY <3>1
      <3>. QED
        BY <1>0, <3>1, <3>2
    <2>4. CASE Request(r) \/ Respond(r) \/ FailView(r)
      BY <2>4 DEF Request, Respond, FailView, Leave, Go
    <2>. QED
      BY <1>3, <2>1, <2>2, <2>3, <2>4 DEF ReaderStep, View
  <1>. QED
    BY <1>1, <1>2, <1>3, OtherRequests

LEMMA AskedStep ==
  ASSUME IInv, [Next]_vars
  PROVE  AskedInv' /\ OnlyHitsAreOld'
  <1>. USE Bounds DEF IInv, AskedInv, OnlyHitsAreOld
  <1>. SUFFICES ASSUME NEW r \in Reader
                PROVE  /\ asked'[r] <= updates'
                       /\ (page'[r] = "set" \/ (page'[r] \in {"again", "done"} /\ ~hit'[r])) =>
                              list'[r] >= asked'[r]
                       /\ (page'[r] = "done" /\ (direct'[r] \/ ~hit'[r])) => list'[r] >= asked'[r]
    OBVIOUS
  <1>0. updates \in Nat /\ asked[r] \in Nat /\ updates' \in {updates, updates + 1}
    BY SinceStep DEF TypeOK, Age
  <1>1. CASE Same(r)
    BY <1>0, <1>1 DEF Same
  <1>2. CASE Tick
    BY <1>0, <1>2 DEF Tick
  <1>3. CASE ReaderStep(r)
    <2>. USE DEF TypeOK, Age, table
    <2>1. CASE Request(r)
      BY <1>0, <2>1 DEF Request, Go
    <2>2. CASE Get(r)
      BY <1>0, <2>2 DEF Get, Go, Have, Render
    <2>3. CASE Query(r)
      BY <1>0, <2>3 DEF Query, Go, Have, Render
    <2>4. CASE Set(r)
      BY <1>0, <2>4 DEF Set, Go, Render
    <2>5. CASE QueryAgain(r)
      BY <1>0, <2>5 DEF QueryAgain, Go, Have
    <2>6. CASE Respond(r) \/ FailView(r)
      BY <1>0, <2>6 DEF Respond, FailView, Leave, Go
    <2>. QED
      BY <1>3, <2>1, <2>2, <2>3, <2>4, <2>5, <2>6 DEF ReaderStep, View
  <1>. QED
    BY <1>1, <1>2, <1>3, OtherRequests

(* The invariant holds throughout.                                         *)
LEMMA Invariant == Spec => []IInv
  <1>1. IInv /\ [Next]_vars => IInv'
    BY TypeStep, SinceStep, EntryStep, ListStep, AskedStep DEF IInv
  <1>. QED
    BY InitInv, <1>1, PTL DEF Spec

(* The cache, the requests and the posts keep their types (cache.py).      *)
THEOREM TypeCorrect == Spec => []TypeOK
  <1>1. IInv => TypeOK
    BY DEF IInv
  <1>. QED
    BY <1>1, Invariant, PTL

(* An update shows on every page once the time of an entry and of two      *)
(* requests is over, and in the entry once that of an entry and of one is, *)
(* whether or not anybody deletes the entry (get_cached_data).             *)
THEOREM UpdatesShowInTime == Spec => []ShownInTime
  <1>1. IInv => ShownInTime
    <2>. SUFFICES ASSUME IInv PROVE ShownInTime
      OBVIOUS
    <2>. USE Bounds DEF IInv, TypeOK, Age, Horizon
    <2>0. \A n \in 1..updates : since[n] \in Nat
      OBVIOUS
    <2>1. cached # Nothing => LacksOnly(cached, EXPIRATION + HARAKIRI)
      BY <2>0 DEF EntryInv, LacksOnly
    <2>2. ASSUME NEW r \in Reader, page[r] = "done"
          PROVE  LacksOnly(list[r], EXPIRATION + 2 * HARAKIRI)
      BY <2>0, <2>2 DEF ListInv, LacksOnly
    <2>. QED
      BY <2>1, <2>2 DEF ShownInTime
  <1>. QED
    BY <1>1, Invariant, PTL

(* A page that does not come from the cache, and every page of /crashes,   *)
(* has what was committed before it was asked for (crashes,                *)
(* get_cached_data).                                                       *)
THEOREM OtherPagesAreCurrent == Spec => []OnlyHitsAreOld
  <1>1. IInv => OnlyHitsAreOld
    BY DEF IInv
  <1>. QED
    BY <1>1, Invariant, PTL
=============================================================================
