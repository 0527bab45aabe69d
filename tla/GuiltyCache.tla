---------------------------- MODULE GuiltyCache ----------------------------
(***************************************************************************)
(* The cached list of top crash guilties (telemetryui/cache.py and the     *)
(* crashes views of telemetryui/views.py): a read-through entry in Redis   *)
(* that expires, filled by every crashes page and deleted after a guilty   *)
(* has been hidden or commented on.                                        *)
(*                                                                         *)
(* What a list shows is abstracted to its age: the number of committed     *)
(* updates of guilty.hide and guilty.comment it reflects.  An update that  *)
(* writes the value it has read changes nothing and is left out.           *)
(*                                                                         *)
(* Time passes in ticks.  Redis counts the time of the entry, uwsgi that   *)
(* of a request, which is dropped when it takes too long; how long a page  *)
(* may go on lacking an update is a matter of these two.                   *)
(***************************************************************************)
EXTENDS Integers

CONSTANTS
    Reader,         \* GET requests for a crashes page
    Editor,         \* POST requests of the details form of /crashes
    Unhider,        \* POST requests of the hidden guilties page
    Deployments,    \* the values local may have; FALSE is the one of compose
    Nothing,        \* no entry, no list
    EXPIRATION,     \* ticks until an entry expires (600 s)
    HARAKIRI,       \* ticks until a request is dropped (60 s)
    MaxUpdates,     \* bound: committed updates
    MaxFails        \* bound: requests that fail and outages of Redis

ASSUME CacheAssumption ==
    /\ Deployments \subseteq BOOLEAN
    /\ Nothing \notin Nat
    /\ EXPIRATION \in Nat /\ HARAKIRI \in Nat
    /\ MaxUpdates \in Nat /\ MaxFails \in Nat

VARIABLES
    local,      \* REDIS_HOSTNAME is the host uncache_data connects to
    updates,    \* committed updates of the guilty table
    since,      \* since[n]: ticks since update n was committed (history)
    cached,     \* the entry GUILTY_CACHE_KEY: updates it reflects, or Nothing
    stored,     \* ticks since the entry was stored
    redis,      \* "up" or "down"
    page,       \* page[r]: the next step of a GET
    direct,     \* direct[r]: /crashes, which queries again after the cache
    list,       \* list[r]: the list the request has in hand
    elapsed,    \* elapsed[r]: ticks since the GET began
    asked,      \* asked[r]: updates when the GET began (history)
    hit,        \* hit[r]: the list was in the cache (history)
    editing,    \* editing[e]: the next step of a POST
    fails       \* failures so far (history)

table   == <<updates, since>>
entry   == <<cached, stored>>
request == <<page, direct, list, elapsed, asked, hit>>
vars    == <<local, table, entry, redis, request, editing, fails>>

Age     == 0..MaxUpdates
(* The entry lacks a committed update.                                     *)
Old     == cached # Nothing /\ cached < updates

(* The time beyond which nothing depends on how long ago an update was.    *)
Horizon == EXPIRATION + 2 * HARAKIRI + 1

Page    == {"idle", "get", "query", "set", "fallback", "again", "done"}
Editing == {"idle", "hide", "comment", "uncache"}

TypeOK ==
    /\ local \in Deployments
    /\ updates \in Age
    /\ since \in [1..MaxUpdates -> 0..Horizon]
    /\ cached \in Age \cup {Nothing}
    /\ stored \in 0..EXPIRATION
    /\ redis \in {"up", "down"}
    /\ page \in [Reader -> Page]
    /\ direct \in [Reader -> BOOLEAN]
    /\ list \in [Reader -> Age \cup {Nothing}]
    /\ elapsed \in [Reader -> 0..HARAKIRI]
    /\ asked \in [Reader -> Age]
    /\ hit \in [Reader -> BOOLEAN]
    /\ editing \in [Editor -> Editing]
    /\ fails \in 0..MaxFails
    /\ \A r \in Reader : page[r] \in {"set", "again", "done"} => list[r] # Nothing

Init ==
    /\ local \in Deployments
    /\ updates = 0 /\ since = [n \in 1..MaxUpdates |-> 0]
    /\ cached = Nothing /\ stored = 0
    /\ redis = "up"
    /\ page = [r \in Reader |-> "idle"]
    /\ direct = [r \in Reader |-> FALSE]
    /\ list = [r \in Reader |-> Nothing]
    /\ elapsed = [r \in Reader |-> 0]
    /\ asked = [r \in Reader |-> 0]
    /\ hit = [r \in Reader |-> FALSE]
    /\ editing = [e \in Editor |-> "idle"]
    /\ fails = 0

-----------------------------------------------------------------------------
(* GET /crashes/offset/n shows the cached list, GET /crashes fills the     *)
(* cache and then queries again.                                           *)

Go(r, step)  == page' = [page EXCEPT ![r] = step]
Have(r, age) == list' = [list EXCEPT ![r] = age]

Request(r) ==
    /\ page[r] = "idle"
    /\ Go(r, "get")
    /\ \E b \in BOOLEAN : direct' = [direct EXCEPT ![r] = b]
    /\ asked' = [asked EXCEPT ![r] = updates]
    /\ UNCHANGED <<local, table, entry, redis, list, elapsed, hit, editing, fails>>

(* Nothing of a request is left when it is over.                           *)
Leave(r) ==
    /\ Go(r, "idle")
    /\ Have(r, Nothing)
    /\ direct' = [direct EXCEPT ![r] = FALSE]
    /\ elapsed' = [elapsed EXCEPT ![r] = 0]
    /\ asked' = [asked EXCEPT ![r] = 0]
    /\ hit' = [hit EXCEPT ![r] = FALSE]

(* A slip: /crashes without its second query.                              *)
AlwaysCached(r) == "done"

(* After get_cached_data the offset page is rendered.                      *)
Render(r) == IF direct[r] THEN "again" ELSE "done"

(* Slips: a miss is stored for what it is, None; a hit renews the time of  *)
(* the entry, as that of a session would be.                               *)
StoreMiss(r) ==
    /\ page[r] = "get"
    /\ redis = "up"
    /\ IF cached # Nothing
       THEN Have(r, cached) /\ Go(r, Render(r))
       ELSE Go(r, "set") /\ UNCHANGED list
    /\ UNCHANGED <<local, table, entry, redis, direct, elapsed, asked, hit, editing, fails>>

GetRenewing(r) ==
    /\ page[r] = "get"
    /\ redis = "up"
    /\ IF cached # Nothing
       THEN /\ Have(r, cached) /\ Go(r, Render(r))
            /\ hit' = [hit EXCEPT ![r] = TRUE]
            /\ stored' = 0
       ELSE Go(r, "query") /\ UNCHANGED <<list, hit, stored>>
    /\ UNCHANGED <<local, table, cached, redis, direct, elapsed, asked, editing, fails>>

(* redis_client.get: a hit, a miss, or a ConnectionError.                  *)
Get(r) ==
    /\ page[r] = "get"
    /\ \/ /\ redis = "up" /\ cached # Nothing
          /\ Have(r, cached)
          /\ hit' = [hit EXCEPT ![r] = TRUE]
          /\ Go(r, Render(r))
       \/ /\ redis = "up" /\ cached = Nothing
          /\ Go(r, "query")
          /\ UNCHANGED <<list, hit>>
       \/ /\ redis = "down"
          /\ Go(r, "fallback")
          /\ UNCHANGED <<list, hit>>
    /\ UNCHANGED <<local, table, entry, redis, direct, elapsed, asked, editing, fails>>

(* ret = funct(...), in the try and in the except branch.                  *)
Query(r) ==
    /\ page[r] \in {"query", "fallback"}
    /\ Have(r, updates)
    /\ Go(r, IF page[r] = "query" THEN "set" ELSE Render(r))
    /\ UNCHANGED <<local, table, entry, redis, direct, elapsed, asked, hit, editing, fails>>

(* redis_client.set(..., ex=expiration)                                    *)
Set(r) ==
    /\ page[r] = "set"
    /\ \/ /\ redis = "up"
          /\ cached' = list[r]
          /\ stored' = 0
          /\ Go(r, Render(r))
       \/ /\ redis = "down"
          /\ Go(r, "fallback")
          /\ UNCHANGED entry
    /\ UNCHANGED <<local, table, redis, direct, list, elapsed, asked, hit, editing, fails>>

(* tmp = Record.get_top_crash_guilties(...), once more                     *)
QueryAgain(r) ==
    /\ page[r] = "again"
    /\ Have(r, updates)
    /\ Go(r, "done")
    /\ UNCHANGED <<local, table, entry, redis, direct, elapsed, asked, hit, editing, fails>>

Respond(r) ==
    /\ page[r] = "done"
    /\ Leave(r)
    /\ UNCHANGED <<local, table, entry, redis, editing, fails>>

-----------------------------------------------------------------------------
(* POST /crashes: hide and comment are committed one after the other, then *)
(* the entry is deleted.                                                   *)

Proceed(e, step) == editing' = [editing EXCEPT ![e] = step]

Update == updates < MaxUpdates /\ updates' = updates + 1 /\ UNCHANGED since

(* hidden == 'yes', or only the comment.                                   *)
Post(e) ==
    /\ editing[e] = "idle"
    /\ \E step \in {"hide", "comment"} : Proceed(e, step)
    /\ UNCHANGED <<local, table, entry, redis, request, fails>>

UpdateHidden(e) ==
    /\ editing[e] = "hide"
    /\ Update
    /\ Proceed(e, "comment")
    /\ UNCHANGED <<local, entry, redis, request, fails>>

(* On the page of one build, url_for names an endpoint there is not: the   *)
(* view fails before it deletes the entry.                                 *)
UpdateComment(e) ==
    /\ editing[e] = "comment"
    /\ Update
    /\ Proceed(e, "uncache") \/ Proceed(e, "idle")
    /\ UNCHANGED <<local, entry, redis, request, fails>>

(* uncache_data: a ConnectionError is printed and the view goes on.        *)
Uncache(e) ==
    /\ editing[e] = "uncache"
    /\ Proceed(e, "idle")
    /\ \/ /\ local /\ redis = "up"
          /\ cached' = Nothing /\ stored' = 0
       \/ /\ ~local \/ redis = "down"
          /\ UNCHANGED entry
    /\ UNCHANGED <<local, table, redis, request, fails>>

(* guilty_hidden: Guilty.update_hidden(id, False), and nothing else.       *)
Unhide(u) ==
    /\ Update
    /\ UNCHANGED <<local, entry, redis, request, editing, fails>>

-----------------------------------------------------------------------------
(* A tick.  An entry is gone and a request is over when their time is.     *)
Tick ==
    /\ cached # Nothing => stored < EXPIRATION
    /\ \A r \in Reader : page[r] # "idle" => elapsed[r] < HARAKIRI
    /\ stored' = IF cached = Nothing THEN stored ELSE stored + 1
    /\ elapsed' = [r \in Reader |-> IF page[r] = "idle" THEN elapsed[r] ELSE elapsed[r] + 1]
    /\ since' = [n \in 1..MaxUpdates |->
                    IF n <= updates /\ since[n] < Horizon THEN since[n] + 1 ELSE since[n]]
    /\ UNCHANGED <<local, updates, cached, redis, page, direct, list, asked, hit,
                   editing, fails>>

(* ex=600, whether Redis can be reached or not.                            *)
Expire ==
    /\ cached # Nothing
    /\ stored = EXPIRATION
    /\ cached' = Nothing /\ stored' = 0
    /\ UNCHANGED <<local, table, redis, request, editing, fails>>

(* A POST fails at a commit or its worker is killed.                       *)
FailPost(e) ==
    /\ editing[e] # "idle"
    /\ fails < MaxFails
    /\ fails' = fails + 1
    /\ Proceed(e, "idle")
    /\ UNCHANGED <<local, table, entry, redis, request>>

(* A GET ends without an answer, and nothing is stored: its query fails,   *)
(* as it does on a build of more digits than an INTEGER has, its worker is *)
(* killed, or uwsgi drops it (harakiri).                                   *)
FailView(r) ==
    /\ page[r] # "idle"
    /\ \/ fails < MaxFails /\ fails' = fails + 1
       \/ elapsed[r] = HARAKIRI /\ UNCHANGED fails
    /\ Leave(r)
    /\ UNCHANGED <<local, table, entry, redis, editing>>

(* Redis keeps its entries across an outage or loses them.                 *)
StopRedis ==
    /\ redis = "up"
    /\ fails < MaxFails
    /\ fails' = fails + 1
    /\ redis' = "down"
    /\ \/ UNCHANGED entry
       \/ cached' = Nothing /\ stored' = 0
    /\ UNCHANGED <<local, table, request, editing>>

StartRedis ==
    /\ redis = "down"
    /\ redis' = "up"
    /\ UNCHANGED <<local, table, entry, request, editing, fails>>

View(r)  == Get(r) \/ Query(r) \/ Set(r) \/ QueryAgain(r) \/ Respond(r)
Edit(e)  == UpdateHidden(e) \/ UpdateComment(e) \/ Uncache(e)

Next ==
    \/ \E r \in Reader : Request(r) \/ View(r) \/ FailView(r)
    \/ \E e \in Editor : Post(e) \/ Edit(e) \/ FailPost(e)
    \/ \E u \in Unhider : Unhide(u)
    \/ Tick \/ Expire \/ StopRedis \/ StartRedis

Spec == Init /\ [][Next]_vars

-----------------------------------------------------------------------------
(* A list of this age lacks no update but the most recent ones.            *)
LacksOnly(age, ticks) == \A n \in 1..updates : n > age => since[n] <= ticks

(* An update gets through in time, wherever uncache_data connects to,      *)
(* whoever forgets to call it and whatever is stored behind its back: the  *)
(* entry lacks what was committed while its list was on the way to the     *)
(* cache and since, and a page what was committed until its own request    *)
(* is over.                                                                *)
ShownInTime ==
    /\ cached # Nothing => LacksOnly(cached, EXPIRATION + HARAKIRI)
    /\ \A r \in Reader :
           page[r] = "done" => LacksOnly(list[r], EXPIRATION + 2 * HARAKIRI)

(* Only an offset page that was served from the cache can lack an update   *)
(* committed before its request: not one of /crashes, where an             *)
(* administrator is sent after the update, and not one that had to query   *)
(* because Redis missed, failed at the get or failed at the set.           *)
OnlyHitsAreOld ==
    \A r \in Reader :
        (page[r] = "done" /\ (direct[r] \/ ~hit[r])) => list[r] >= asked[r]

(* "Delete cached query when user updates a guilty with comment or hidden" *)
(* (views.py:152): once no POST is being served, the entry is not old.     *)
DeletedOnUpdate == Old => \E e \in Editor : editing[e] # "idle"
=============================================================================
