------------------------------- MODULE Caches -------------------------------
(***************************************************************************)
(* Two caches in the memory of the server: createMiningFetcher of          *)
(* src/lib/metrics/v2/mining.ts, with one entry, an age that is shown and  *)
(* no memory of requests under way; and fetchRepoStats of                  *)
(* src/lib/github-stats.ts, which remembers the request of a repository.   *)
(*                                                                         *)
(* Abstractions.  An answer is the time at which the other side made it.   *)
(* Requests are told apart by the tick they were asked in.                 *)
(***************************************************************************)
EXTENDS Integers, FiniteSets

CONSTANTS
  Repos,       \* repositories, by their normalized key
  Ttl,         \* CACHE_TTL_MS, and TTL_MS of the statistics
  MaxStale,    \* MAX_STALE_MS
  Deadline,    \* FETCH_DEADLINE_MS
  MaxClock,    \* bound: the last tick
  MaxRequests  \* bound: requests to the pool at once

ASSUME CacheConstants ==
  /\ {Ttl, MaxStale, Deadline, MaxClock, MaxRequests} \subseteq Nat \ {0} /\ Ttl <= MaxStale

VARIABLES
  clock,
  pool,    \* requests to the pool: [asked, made], made = 0 before its answer
  mining,  \* the cache: [observed, made]
  told,    \* the last result a page was given: [at, freshness, observed, made]
  asking,  \* per repository: requests to GitHub under way
  inFlight,\* per repository: the request others wait for
  stats    \* per repository: the cache, [ts, made]

cacheVars == <<clock, pool, mining, told, asking, inFlight, stats>>

-----------------------------------------------------------------------------
Empty == [observed |-> 0, made |-> 0]
Unavailable == [at |-> 0, freshness |-> "unavailable", observed |-> 0, made |-> 0]
NoStats == [ts |-> 0, made |-> 0]

CacheInit ==
  /\ clock = 1 /\ pool = {} /\ mining = Empty /\ told = Unavailable
  /\ asking = [r \in Repos |-> {}] /\ inFlight = [r \in Repos |-> 0]
  /\ stats = [r \in Repos |-> NoStats]

\* The deadline aborts a request to the pool before time goes on.
ClockTicks ==
  /\ clock < MaxClock /\ \A q \in pool : clock - q.asked < Deadline
  /\ clock' = clock + 1
  /\ UNCHANGED <<pool, mining, told, asking, inFlight, stats>>

\* Mutant: the cache is current for as long as it may be shown when stale.
NotTooOld == mining # Empty /\ clock - mining.observed <= MaxStale
Current == mining # Empty /\ clock - mining.observed < Ttl

Result(cache, freshness) ==
  [at |-> clock, freshness |-> freshness, observed |-> cache.observed, made |-> cache.made]

PageFromCache ==
  /\ Current /\ told' = Result(mining, "unknown")
  /\ UNCHANGED <<clock, pool, mining, asking, inFlight, stats>>

PageAsksPool ==
  /\ ~Current /\ Cardinality(pool) < MaxRequests
  /\ pool' = pool \cup {[asked |-> clock, made |-> 0]}
  /\ UNCHANGED <<clock, mining, told, asking, inFlight, stats>>

PoolAnswers ==
  /\ \E q \in pool : q.made = 0 /\ pool' = (pool \ {q}) \cup {[q EXCEPT !.made = clock]}
  /\ UNCHANGED <<clock, mining, told, asking, inFlight, stats>>

\* The answer is read, parsed and cached, whatever was cached meanwhile.
AnswerRead ==
  /\ \E q \in pool :
       /\ q.made # 0 /\ pool' = pool \ {q}
       /\ mining' = [observed |-> clock, made |-> q.made]
       /\ told' = Result(mining', "unknown")
  /\ UNCHANGED <<clock, asking, inFlight, stats>>

\* A refusal, an unusable body, or the deadline.
PoolFails ==
  /\ \E q \in pool : pool' = pool \ {q}
  /\ told' = IF mining # Empty /\ clock - mining.observed <= MaxStale
               THEN Result(mining, "stale") ELSE Unavailable
  /\ UNCHANGED <<clock, mining, asking, inFlight, stats>>

-----------------------------------------------------------------------------
StatsCurrent(r) == stats[r] # NoStats /\ clock - stats[r].ts < Ttl
MustAsk(r) == ~StatsCurrent(r) /\ inFlight[r] = 0

AskGitHub ==
  /\ \E r \in Repos :
       /\ MustAsk(r)
       /\ asking' = [asking EXCEPT ![r] = @ \cup {[asked |-> clock, nth |-> Cardinality(@)]}]
       /\ inFlight' = [inFlight EXCEPT ![r] = clock]
  /\ UNCHANGED <<clock, pool, mining, told, stats>>

\* Both calls have answered, or one has failed; a failure is not cached.
GitHubAnswers ==
  /\ \E r \in Repos : \E q \in asking[r] :
       /\ asking' = [asking EXCEPT ![r] = @ \ {q}]
       /\ inFlight' = [inFlight EXCEPT ![r] = IF @ = q.asked THEN 0 ELSE @]
       /\ \/ \E made \in q.asked..clock :
               stats' = [stats EXCEPT ![r] = [ts |-> clock, made |-> made]]
          \/ UNCHANGED stats
  /\ UNCHANGED <<clock, pool, mining, told>>

CacheNext ==
  \/ ClockTicks \/ PageFromCache \/ PageAsksPool \/ PoolAnswers \/ AnswerRead \/ PoolFails
  \/ AskGitHub \/ GitHubAnswers

CacheSpec == CacheInit /\ [][CacheNext]_cacheVars

-----------------------------------------------------------------------------
CacheTypeOK ==
  /\ clock \in 1..MaxClock /\ mining.observed \in 0..MaxClock
  /\ told.freshness \in {"unknown", "stale", "unavailable"}
  /\ \A r \in Repos : stats[r].ts \in 0..MaxClock

\* The age under the pool's numbers is their age up to the deadline, although
\* requests overlap and an older answer may replace a newer one; numbers
\* shown as current, or as last known, are never older than that plus the
\* limit; and however many pages ask, one request at a time asks GitHub for a
\* repository.
CachesHonest ==
  /\ CacheTypeOK
  /\ told.freshness # "unavailable" => told.observed - told.made <= Deadline
  /\ told.freshness = "unknown" => told.at - told.made < Ttl + Deadline
  /\ told.freshness = "stale" => told.at - told.made <= MaxStale + Deadline
  /\ \A r \in Repos : Cardinality(asking[r]) <= 1
=============================================================================
