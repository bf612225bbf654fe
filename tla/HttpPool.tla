------------------------------ MODULE HttpPool ------------------------------
(***************************************************************************)
(* The upstream connection pools and their shared budget                   *)
(* (src/http/http_pool.hpp), the table of pools that a hot reload replaces *)
(* (src/http/upstream_manager.hpp), and the proxied requests that hold     *)
(* pools and connections (ConnGuard in src/http/proxy_forwarder.hpp, the   *)
(* proxy attempts in src/http/client_session.hpp).                         *)
(*                                                                         *)
(* Every step is one critical section of a shard or one atomic operation   *)
(* on total_count, in_flight_count or the budget.  An idle connection is   *)
(* represented by what is known of the bytes on it.                        *)
(***************************************************************************)
EXTENDS Naturals, FiniteSets, Sequences, ProxyResponse

CONSTANTS
    Requests,       \* client sessions
    Sweepers,       \* {} or the pool_stats_service, which also evicts
    Pools,          \* HttpPool objects, one per service and generation
    FirstPools,     \* those of the configuration the process starts with
    NShards,        \* kShards
    MaxSize,        \* max_size
    ConcurrencyLimits,  \* the values max_concurrent takes, 0 when unlimited
    BudgetLimits,   \* the values max_total_connections takes, 0 when unlimited
    None

ASSUME SetsAssumption ==
    /\ IsFiniteSet(Requests) /\ IsFiniteSet(Pools) /\ FirstPools \subseteq Pools
    /\ IsFiniteSet(Sweepers) /\ Sweepers \cap Requests = {} /\ None \notin Nat /\ None \notin Pools
ASSUME NumbersAssumption ==
    /\ NShards \in Nat \ {0} /\ MaxSize \in Nat \ {0}
    /\ ConcurrencyLimits \subseteq Nat /\ ConcurrencyLimits # {}
    /\ BudgetLimits \subseteq Nat /\ BudgetLimits # {}

Actors == Requests \cup Sweepers
Shards == 0..(NShards - 1)
Slots  == {"total", "budget", "inFlight"}

VARIABLES
    table,          \* the pools in UpstreamManager::pools_
    prepared,       \* those of a PreparedReload
    ready,          \* prepare_reload() returned, publish_reload() did not
    life,           \* of each pool: not made yet, in use, being destroyed, gone
    maxConcurrent,  \* max_concurrent, which the service's pool is made with
    limit, budget,  \* limit_ and current_ of HttpConnectionBudget
    total,          \* total_count
    inFlight,       \* in_flight_count
    idle,           \* Shard::idle
    shTotal, shInFlight,    \* Shard::total, Shard::in_flight
    active,         \* Shard::active, for all shards
    pc, pool,       \* where an actor is, the pool it holds a reference to
    locked,         \* the shard it has locked while evicting
    shard, tried,   \* shard_idx and try_idx
    has,            \* the slots reserved for the request
    sock,           \* the request owns an open socket
    wire,           \* "clean", or bytes of an earlier exchange are still to come:
                    \* "thrown" after an exception, "unread" after a response
    reused,         \* reused_from_idle
    attempt, again  \* proxy attempt, and whether another follows

poolVars == <<total, inFlight, idle, shTotal, shInFlight, active>>
tableVars == <<table, prepared, ready, life>>
callVars == <<shard, tried, has, sock, wire, reused, attempt, again>>
limits == <<maxConcurrent, limit>>
vars == <<tableVars, limits, budget, poolVars, pc, pool, locked, callVars>>

LifeStates == {"fresh", "live", "closing", "closeTotal", "closeBudget", "gone"}
ActorPCs == {"new", "sweep", "sweepTotal", "sweepBudget", "reserve", "scan",
             "scanTotal", "scanBudget", "track", "total", "budget", "insert",
             "connect", "use", "release", "releaseBad", "dropped", "giveBack"}

WireStates == {"clean", "thrown", "unread"}

Init ==
    /\ table = FirstPools /\ prepared = {} /\ ready = FALSE
    /\ life = [p \in Pools |-> IF p \in FirstPools THEN "live" ELSE "fresh"]
    /\ maxConcurrent \in [Pools -> ConcurrencyLimits]
    /\ limit \in BudgetLimits /\ budget = 0
    /\ total = [p \in Pools |-> 0] /\ inFlight = [p \in Pools |-> 0]
    /\ idle = [p \in Pools |-> [h \in Shards |-> <<>>]]
    /\ shTotal = [p \in Pools |-> [h \in Shards |-> 0]]
    /\ shInFlight = [p \in Pools |-> [h \in Shards |-> 0]]
    /\ active = [p \in Pools |-> {}]
    /\ pc = [a \in Actors |-> "new"] /\ pool = [a \in Actors |-> None]
    /\ locked = [a \in Actors |-> None]
    /\ shard = [r \in Requests |-> 0] /\ tried = [r \in Requests |-> 0]
    /\ has = [r \in Requests |-> {}]
    /\ sock = [r \in Requests |-> FALSE] /\ wire = [r \in Requests |-> "clean"]
    /\ reused = [r \in Requests |-> FALSE]
    /\ attempt = [r \in Requests |-> 0] /\ again = [r \in Requests |-> FALSE]

Goto(a, l) == pc' = [pc EXCEPT ![a] = l]
Unlock(a) == locked' = [locked EXCEPT ![a] = None]

\* The mutex of shard h of pool p can be taken by actor a.
CanLock(a, p, h) == \A b \in Actors \ {a} : ~(pool[b] = p /\ locked[b] = h)

\* decrement_counter() and HttpConnectionBudget::release() stop at zero.
Dec(n) == IF n > 0 THEN n - 1 ELSE 0

\* try_acquire()
BudgetLeft == limit = 0 \/ budget < limit

-----------------------------------------------------------------------------
(* UpstreamManager: hot reload of the table of pools *)

\* prepare_reload(): a pool whose address and settings did not change is kept.
PrepareReload(kept, made) ==
    /\ ~ready /\ ready' = TRUE
    /\ kept \subseteq table /\ \A p \in made : life[p] = "fresh"
    /\ prepared' = kept \cup made
    /\ life' = [p \in Pools |-> IF p \in made THEN "live" ELSE life[p]]
    /\ UNCHANGED <<table, limits, budget, poolVars, pc, pool, locked, callVars>>

\* publish_reload(), under the unique lock that evict_stale() holds shared.
PublishReload ==
    /\ ready /\ ready' = FALSE
    /\ \A a \in Sweepers : pc[a] = "new"
    /\ table' = prepared /\ prepared' = {}
    /\ limit' \in BudgetLimits
    /\ UNCHANGED <<life, maxConcurrent, budget, poolVars, pc, pool, locked, callVars>>

\* Variant: the sessions hold no reference.
NotInTable(p) == p \notin table \cup prepared

\* ~HttpPool() runs where the last reference is dropped: shutdown() closes the idle
\* connections one by one.
Unreferenced(p) ==
    p \notin table \cup prepared /\ \A a \in Actors : pool[a] # p

DestroyPool(p) ==
    /\ life[p] = "live" /\ Unreferenced(p)
    /\ life' = [life EXCEPT ![p] = "closing"]
    /\ UNCHANGED <<table, prepared, ready, limits, budget, poolVars, pc, pool, locked,
                   callVars>>

CloseIdle(p) ==
    /\ life[p] = "closing"
    /\ \E h \in Shards :
         /\ idle[p][h] # <<>>
         /\ idle' = [idle EXCEPT ![p][h] = Tail(@)]
         /\ shTotal' = [shTotal EXCEPT ![p][h] = @ - 1]
    /\ life' = [life EXCEPT ![p] = "closeTotal"]
    /\ UNCHANGED <<table, prepared, ready, limits, budget, total, inFlight, shInFlight,
                   active, pc, pool, locked, callVars>>

CloseGiveTotal(p) ==
    /\ life[p] = "closeTotal" /\ life' = [life EXCEPT ![p] = "closeBudget"]
    /\ total' = [total EXCEPT ![p] = Dec(@)]
    /\ UNCHANGED <<table, prepared, ready, limits, budget, inFlight, idle, shTotal,
                   shInFlight, active, pc, pool, locked, callVars>>

\* Variant: the destructor keeps the budget.
CloseKeepBudget(p) ==
    /\ life[p] = "closeBudget" /\ life' = [life EXCEPT ![p] = "closing"]
    /\ UNCHANGED <<table, prepared, ready, limits, budget, poolVars, pc, pool, locked,
                   callVars>>

CloseGiveBudget(p) ==
    /\ life[p] = "closeBudget" /\ life' = [life EXCEPT ![p] = "closing"]
    /\ budget' = Dec(budget)
    /\ UNCHANGED <<table, prepared, ready, limits, poolVars, pc, pool, locked, callVars>>

CloseDone(p) ==
    /\ life[p] = "closing" /\ \A h \in Shards : idle[p][h] = <<>>
    /\ life' = [life EXCEPT ![p] = "gone"]
    /\ UNCHANGED <<table, prepared, ready, limits, budget, poolVars, pc, pool, locked,
                   callVars>>

-----------------------------------------------------------------------------
(* Eviction of stale idle connections: evict_stale() of the statistics service, *)
(* the once-a-second sweep in acquire(), and each shard acquire() scans.        *)

\* UpstreamManager::evict_stale()
StatsSweep(a) ==
    /\ pc[a] = "new" /\ Goto(a, "sweep")
    /\ \E p \in table : pool' = [pool EXCEPT ![a] = p]
    /\ UNCHANGED <<tableVars, limits, budget, poolVars, locked, callVars>>

\* evict_stale_idle(): the oldest connection of the shard has expired.
EvictFrom(a, h) ==
    LET p == pool[a] IN
    /\ CanLock(a, p, h) /\ idle[p][h] # <<>>
    /\ idle' = [idle EXCEPT ![p][h] = Tail(@)]
    /\ shTotal' = [shTotal EXCEPT ![p][h] = @ - 1]
    /\ locked' = [locked EXCEPT ![a] = h]
    /\ UNCHANGED <<tableVars, limits, budget, total, inFlight, shInFlight, active, pool,
                   callVars>>

EvictInSweep(a) ==
    pc[a] = "sweep" /\ Goto(a, "sweepTotal") /\ \E h \in Shards : EvictFrom(a, h)

EvictInScan(r) == pc[r] = "scan" /\ Goto(r, "scanTotal") /\ EvictFrom(r, shard[r])

EvictGiveTotal(a) ==
    /\ \/ pc[a] = "sweepTotal" /\ Goto(a, "sweepBudget")
       \/ pc[a] = "scanTotal" /\ Goto(a, "scanBudget")
    /\ total' = [total EXCEPT ![pool[a]] = Dec(@)]
    /\ UNCHANGED <<tableVars, limits, budget, inFlight, idle, shTotal, shInFlight, active,
                   pool, locked, callVars>>

EvictGiveBudget(a) ==
    /\ \/ pc[a] = "sweepBudget" /\ Goto(a, "sweep")
       \/ pc[a] = "scanBudget" /\ Goto(a, "scan")
    /\ budget' = Dec(budget)
    /\ UNCHANGED <<tableVars, limits, poolVars, pool, locked, callVars>>

SweepDone(a) ==
    /\ pc[a] = "sweep" /\ Unlock(a)
    /\ IF a \in Sweepers THEN Goto(a, "new") /\ pool' = [pool EXCEPT ![a] = None]
                          ELSE Goto(a, "reserve") /\ pool' = pool
    /\ UNCHANGED <<tableVars, limits, budget, poolVars, callVars>>

-----------------------------------------------------------------------------
(* acquire() *)

\* UpstreamManager::route() hands the session a reference to the pool.
RouteRequest(r) ==
    /\ pc[r] = "new" /\ Goto(r, "sweep")
    /\ \E p \in table : pool' = [pool EXCEPT ![r] = p]
    /\ UNCHANGED <<tableVars, limits, budget, poolVars, locked, callVars>>

ReserveInFlight(r) ==
    /\ pc[r] = "reserve" /\ Goto(r, "scan")
    /\ maxConcurrent[pool[r]] = 0 \/ inFlight[pool[r]] < maxConcurrent[pool[r]]
    /\ inFlight' = [inFlight EXCEPT ![pool[r]] = @ + 1]
    /\ has' = [has EXCEPT ![r] = {"inFlight"}]
    /\ \E h \in Shards : shard' = [shard EXCEPT ![r] = h]
    /\ UNCHANGED <<tableVars, limits, budget, total, idle, shTotal, shInFlight, active,
                   pool, locked, tried, sock, wire, reused, attempt, again>>

\* acquire() returns null: the session answers 503 and drops the pool.
RefuseInFlight(r) ==
    /\ pc[r] = "reserve" /\ Goto(r, "new")
    /\ maxConcurrent[pool[r]] # 0 /\ inFlight[pool[r]] >= maxConcurrent[pool[r]]
    /\ pool' = [pool EXCEPT ![r] = None] /\ attempt' = [attempt EXCEPT ![r] = 0]
    /\ UNCHANGED <<tableVars, limits, budget, poolVars, locked, shard, tried, has, sock,
                   wire, reused, again>>

ScanPop(r) ==
    LET p == pool[r] h == shard[r] IN
    /\ pc[r] = "scan" /\ Goto(r, "track")
    /\ CanLock(r, p, h) /\ idle[p][h] # <<>>
    /\ idle' = [idle EXCEPT ![p][h] = Tail(@)]
    /\ shInFlight' = [shInFlight EXCEPT ![p][h] = @ + 1]
    /\ has' = [has EXCEPT ![r] = Slots]
    /\ sock' = [sock EXCEPT ![r] = TRUE] /\ wire' = [wire EXCEPT ![r] = Head(idle[p][h])]
    /\ reused' = [reused EXCEPT ![r] = TRUE]
    /\ tried' = [tried EXCEPT ![r] = 0]
    /\ Unlock(r)
    /\ UNCHANGED <<tableVars, limits, budget, total, inFlight, shTotal, active, pool,
                   shard, attempt, again>>

\* bad_alloc before the connection leaves the deque
ScanThrow(r) ==
    /\ pc[r] = "scan" /\ Goto(r, "giveBack")
    /\ CanLock(r, pool[r], shard[r]) /\ idle[pool[r]][shard[r]] # <<>>
    /\ Unlock(r)
    /\ UNCHANGED <<tableVars, limits, budget, poolVars, pool, callVars>>

\* Variant: the index runs past the last shard.
ScanNextPastEnd(r) ==
    /\ pc[r] = "scan" /\ Goto(r, IF tried[r] + 1 < NShards THEN "scan" ELSE "total")
    /\ CanLock(r, pool[r], shard[r]) /\ idle[pool[r]][shard[r]] = <<>>
    /\ shard' = [shard EXCEPT ![r] = @ + 1]
    /\ tried' = [tried EXCEPT ![r] = (@ + 1) % NShards]
    /\ Unlock(r)
    /\ UNCHANGED <<tableVars, limits, budget, poolVars, pool, has, sock, wire, reused,
                   attempt, again>>

\* After kShards of them shard_idx is the first one again.
ScanNext(r) ==
    /\ pc[r] = "scan" /\ Goto(r, IF tried[r] + 1 < NShards THEN "scan" ELSE "total")
    /\ CanLock(r, pool[r], shard[r]) /\ idle[pool[r]][shard[r]] = <<>>
    /\ shard' = [shard EXCEPT ![r] = (@ + 1) % NShards]
    /\ tried' = [tried EXCEPT ![r] = (@ + 1) % NShards]
    /\ Unlock(r)
    /\ UNCHANGED <<tableVars, limits, budget, poolVars, pool, has, sock, wire, reused,
                   attempt, again>>

\* The second critical section of the reuse path
Track(r) ==
    /\ pc[r] = "track" /\ Goto(r, "use")
    /\ CanLock(r, pool[r], shard[r])
    /\ active' = [active EXCEPT ![pool[r]] = @ \cup {r}]
    /\ UNCHANGED <<tableVars, limits, budget, total, inFlight, idle, shTotal, shInFlight,
                   pool, locked, callVars>>

\* The connection of r leaves its shard; its counters follow one by one.
LeaveShard(r) ==
    LET p == pool[r] h == shard[r] IN
    /\ CanLock(r, p, h)
    /\ shTotal' = [shTotal EXCEPT ![p][h] = @ - 1]
    /\ shInFlight' = [shInFlight EXCEPT ![p][h] = @ - 1]
    /\ active' = [active EXCEPT ![p] = @ \ {r}]

\* Variant: the shard keeps counting the connection.
TrackThrowKeepsShard(r) ==
    /\ pc[r] = "track" /\ Goto(r, "giveBack")
    /\ sock' = [sock EXCEPT ![r] = FALSE]
    /\ UNCHANGED <<tableVars, limits, budget, poolVars, pool, locked, shard, tried, has,
                   wire, reused, attempt, again>>

TrackThrow(r) ==
    /\ pc[r] = "track" /\ Goto(r, "giveBack")
    /\ LeaveShard(r)
    /\ sock' = [sock EXCEPT ![r] = FALSE]
    /\ UNCHANGED <<tableVars, limits, budget, total, inFlight, idle, pool, locked, shard,
                   tried, has, wire, reused, attempt, again>>

\* Variant: the limit is checked by <=.
ReserveTotalLax(r) ==
    /\ pc[r] = "total"
    /\ IF total[pool[r]] <= MaxSize
       THEN /\ Goto(r, "budget")
            /\ total' = [total EXCEPT ![pool[r]] = @ + 1]
            /\ has' = [has EXCEPT ![r] = @ \cup {"total"}]
       ELSE Goto(r, "giveBack") /\ UNCHANGED <<total, has>>
    /\ UNCHANGED <<tableVars, limits, budget, inFlight, idle, shTotal, shInFlight, active,
                   pool, locked, shard, tried, sock, wire, reused, attempt, again>>

ReserveTotal(r) ==
    /\ pc[r] = "total"
    /\ IF total[pool[r]] < MaxSize
       THEN /\ Goto(r, "budget")
            /\ total' = [total EXCEPT ![pool[r]] = @ + 1]
            /\ has' = [has EXCEPT ![r] = @ \cup {"total"}]
       ELSE Goto(r, "giveBack") /\ UNCHANGED <<total, has>>
    /\ UNCHANGED <<tableVars, limits, budget, inFlight, idle, shTotal, shInFlight, active,
                   pool, locked, shard, tried, sock, wire, reused, attempt, again>>

ReserveBudget(r) ==
    /\ pc[r] = "budget"
    /\ IF BudgetLeft
       THEN /\ Goto(r, "insert")
            /\ budget' = budget + 1
            /\ has' = [has EXCEPT ![r] = @ \cup {"budget"}]
       ELSE Goto(r, "giveBack") /\ UNCHANGED <<budget, has>>
    /\ UNCHANGED <<tableVars, limits, poolVars, pool, locked, shard, tried, sock, wire,
                   reused, attempt, again>>

Insert(r) ==
    LET p == pool[r] h == shard[r] IN
    /\ pc[r] = "insert" /\ Goto(r, "connect")
    /\ CanLock(r, p, h)
    /\ active' = [active EXCEPT ![p] = @ \cup {r}]
    /\ shTotal' = [shTotal EXCEPT ![p][h] = @ + 1]
    /\ shInFlight' = [shInFlight EXCEPT ![p][h] = @ + 1]
    /\ sock' = [sock EXCEPT ![r] = TRUE] /\ wire' = [wire EXCEPT ![r] = "clean"]
    /\ reused' = [reused EXCEPT ![r] = FALSE]
    /\ UNCHANGED <<tableVars, limits, budget, total, inFlight, idle, pool, locked, shard,
                   tried, has, attempt, again>>

InsertThrow(r) ==
    /\ pc[r] = "insert" /\ Goto(r, "giveBack")
    /\ UNCHANGED <<tableVars, limits, budget, poolVars, pool, locked, callVars>>

ConnectOk(r) ==
    /\ pc[r] = "connect" /\ Goto(r, "use")
    /\ UNCHANGED <<tableVars, limits, budget, poolVars, pool, locked, callVars>>

\* A timeout closes the socket; after an error it lives until the coroutine unwinds.
ConnectFail(r) ==
    /\ pc[r] = "connect" /\ Goto(r, "giveBack")
    /\ LeaveShard(r)
    /\ \E open \in BOOLEAN : sock' = [sock EXCEPT ![r] = open]
    /\ UNCHANGED <<tableVars, limits, budget, total, inFlight, idle, pool, locked, shard,
                   tried, has, wire, reused, attempt, again>>

-----------------------------------------------------------------------------
(* The proxy attempt and ~ConnGuard() *)

\* The ways the attempt can end; each destroys the guard, which untracks first.
EndUse(r, next) ==
    /\ pc[r] = "use" /\ Goto(r, next)
    /\ CanLock(r, pool[r], shard[r])
    /\ active' = [active EXCEPT ![pool[r]] = @ \ {r}]
    /\ reused' = [reused EXCEPT ![r] = FALSE]
    /\ UNCHANGED <<tableVars, limits, budget, total, inFlight, idle, shTotal, shInFlight,
                   pool, locked, shard, tried, has, sock>>

\* build_proxy_request finds a header it cannot forward: nothing was sent.
BuildRefuses(r) == EndUse(r, "release") /\ UNCHANGED <<wire, attempt, again>>

\* The response was read.  connection_close marks the guard bad; release() closes a
\* connection with bytes in read_buffer just so.
UseOk(r) ==
    \E got \in Outcomes :
        LET kept == ~got.close /\ ~got.rest IN
        /\ ~got.error
        /\ EndUse(r, IF kept THEN "release" ELSE "releaseBad")
        /\ wire' = [wire EXCEPT ![r] = IF kept /\ got.unread THEN "unread" ELSE @]
        /\ UNCHANGED <<attempt, again>>

\* The request could not be written, or the response not read: on a reused connection
\* an idempotent request is tried once more.
UseBad(r) ==
    /\ EndUse(r, "releaseBad")
    /\ \E idempotent \in BOOLEAN :
         again' = [again EXCEPT ![r] = idempotent /\ reused[r] /\ attempt[r] = 0]
    /\ attempt' = [attempt EXCEPT ![r] = 1]
    /\ UNCHANGED wire

\* An exception between the request and the end of its response: good_ is still true.
UseThrow(r) ==
    /\ EndUse(r, "release")
    /\ wire' = [wire EXCEPT ![r] = "thrown"]
    /\ UNCHANGED <<attempt, again>>

\* release() of an open connection without leftover bytes
ReleaseIdle(r) ==
    LET p == pool[r] h == shard[r] IN
    /\ pc[r] = "release" /\ Goto(r, "giveBack")
    /\ CanLock(r, p, h)
    /\ idle' = [idle EXCEPT ![p][h] = Append(@, wire[r])]
    /\ shInFlight' = [shInFlight EXCEPT ![p][h] = @ - 1]
    /\ has' = [has EXCEPT ![r] = {"inFlight"}]
    /\ sock' = [sock EXCEPT ![r] = FALSE] /\ wire' = [wire EXCEPT ![r] = "clean"]
    /\ UNCHANGED <<tableVars, limits, budget, total, inFlight, shTotal, active, pool,
                   locked, shard, tried, reused, attempt, again>>

\* The deque cannot grow: in_flight_count goes first, then the socket, then the rest.
ReleaseNoMemory(r) ==
    /\ pc[r] = "release" /\ Goto(r, "dropped")
    /\ LeaveShard(r)
    /\ UNCHANGED <<tableVars, limits, budget, total, inFlight, idle, pool, locked, callVars>>

DropInFlight(r) ==
    /\ pc[r] = "dropped" /\ Goto(r, "giveBack")
    /\ inFlight' = [inFlight EXCEPT ![pool[r]] = Dec(@)]
    /\ has' = [has EXCEPT ![r] = @ \ {"inFlight"}]
    /\ sock' = [sock EXCEPT ![r] = FALSE]
    /\ UNCHANGED <<tableVars, limits, budget, total, idle, shTotal, shInFlight, active, pool,
                   locked, shard, tried, wire, reused, attempt, again>>

\* release_bad(), and release() of a connection whose exchange set connection_close
\* before it was broken off
ReleaseClosed(r) ==
    /\ \/ pc[r] = "releaseBad"
       \/ pc[r] = "release" /\ wire[r] = "thrown"
    /\ Goto(r, "giveBack")
    /\ LeaveShard(r)
    /\ sock' = [sock EXCEPT ![r] = FALSE]
    /\ UNCHANGED <<tableVars, limits, budget, total, inFlight, idle, pool, locked, shard,
                   tried, has, wire, reused, attempt, again>>

\* The tail of every failing path and of every release: total_count, the budget and
\* in_flight_count, in this order, as far as they are still reserved.
GiveTotal(r) ==
    /\ pc[r] = "giveBack" /\ "total" \in has[r]
    /\ total' = [total EXCEPT ![pool[r]] = Dec(@)]
    /\ has' = [has EXCEPT ![r] = @ \ {"total"}]
    /\ UNCHANGED <<tableVars, limits, budget, inFlight, idle, shTotal, shInFlight, active,
                   pc, pool, locked, shard, tried, sock, wire, reused, attempt, again>>

GiveBudget(r) ==
    /\ pc[r] = "giveBack" /\ "total" \notin has[r] /\ "budget" \in has[r]
    /\ budget' = Dec(budget)
    /\ has' = [has EXCEPT ![r] = @ \ {"budget"}]
    /\ UNCHANGED <<tableVars, limits, poolVars, pc, pool, locked, shard, tried, sock, wire,
                   reused, attempt, again>>

GiveInFlight(r) ==
    /\ pc[r] = "giveBack" /\ has[r] = {"inFlight"}
    /\ inFlight' = [inFlight EXCEPT ![pool[r]] = Dec(@)]
    /\ has' = [has EXCEPT ![r] = {}]
    /\ UNCHANGED <<tableVars, limits, budget, total, idle, shTotal, shInFlight, active, pc,
                   pool, locked, shard, tried, sock, wire, reused, attempt, again>>

\* Variant: the session keeps its reference to the pool.
EndAttemptKeepsPool(r) ==
    /\ pc[r] = "giveBack" /\ has[r] = {}
    /\ sock' = [sock EXCEPT ![r] = FALSE] /\ wire' = [wire EXCEPT ![r] = "clean"]
    /\ reused' = [reused EXCEPT ![r] = FALSE]
    /\ again' = [again EXCEPT ![r] = FALSE]
    /\ shard' = [shard EXCEPT ![r] = 0] /\ tried' = [tried EXCEPT ![r] = 0]
    /\ Goto(r, IF again[r] THEN "sweep" ELSE "new")
    /\ UNCHANGED <<tableVars, limits, budget, poolVars, pool, locked, has, attempt>>

\* The connection object is gone; the session tries again or drops the pool; the
\* locals of the attempt go out of scope.
EndAttempt(r) ==
    /\ pc[r] = "giveBack" /\ has[r] = {}
    /\ sock' = [sock EXCEPT ![r] = FALSE] /\ wire' = [wire EXCEPT ![r] = "clean"]
    /\ reused' = [reused EXCEPT ![r] = FALSE]
    /\ again' = [again EXCEPT ![r] = FALSE]
    /\ shard' = [shard EXCEPT ![r] = 0] /\ tried' = [tried EXCEPT ![r] = 0]
    /\ IF again[r] THEN Goto(r, "sweep") /\ UNCHANGED <<pool, attempt>>
                   ELSE /\ Goto(r, "new") /\ pool' = [pool EXCEPT ![r] = None]
                        /\ attempt' = [attempt EXCEPT ![r] = 0]
    /\ UNCHANGED <<tableVars, limits, budget, poolVars, locked, has>>

-----------------------------------------------------------------------------
EvictStep(a) ==
    EvictInSweep(a) \/ EvictGiveTotal(a) \/ EvictGiveBudget(a) \/ SweepDone(a)

RequestStep(r) ==
    \/ EvictStep(r) \/ EvictInScan(r)
    \/ ReserveInFlight(r) \/ RefuseInFlight(r) \/ ScanPop(r) \/ ScanThrow(r) \/ ScanNext(r)
    \/ Track(r) \/ TrackThrow(r) \/ ReserveTotal(r) \/ ReserveBudget(r)
    \/ Insert(r) \/ InsertThrow(r) \/ ConnectOk(r) \/ ConnectFail(r)
    \/ BuildRefuses(r) \/ UseOk(r) \/ UseBad(r) \/ UseThrow(r)
    \/ ReleaseIdle(r) \/ ReleaseNoMemory(r) \/ DropInFlight(r) \/ ReleaseClosed(r)
    \/ GiveTotal(r) \/ GiveBudget(r) \/ GiveInFlight(r) \/ EndAttempt(r)

DestroyStep(p) ==
    \/ DestroyPool(p) \/ CloseIdle(p) \/ CloseGiveTotal(p) \/ CloseGiveBudget(p)
    \/ CloseDone(p)

Next ==
    \/ \E kept, made \in SUBSET Pools : PrepareReload(kept, made)
    \/ PublishReload
    \/ \E a \in Sweepers : StatsSweep(a) \/ EvictStep(a)
    \/ \E r \in Requests : RouteRequest(r) \/ RequestStep(r)
    \/ \E p \in Pools : DestroyStep(p)

Spec == Init /\ [][Next]_vars

\* Mutexes are given to those who wait, connects, reads and writes have timeouts, and
\* the destructor runs on the thread that dropped the last reference.
Fairness ==
    /\ \A r \in Requests : SF_vars(RequestStep(r))
    /\ \A a \in Sweepers : SF_vars(EvictStep(a))
    /\ \A p \in Pools : WF_vars(DestroyStep(p))

FairSpec == Spec /\ Fairness

-----------------------------------------------------------------------------
(* Properties *)

\* Types; the counters of a shard never wrap below zero.
TypeOK ==
    /\ table \subseteq Pools /\ prepared \subseteq Pools /\ ready \in BOOLEAN
    /\ life \in [Pools -> LifeStates]
    /\ maxConcurrent \in [Pools -> ConcurrencyLimits]
    /\ limit \in BudgetLimits /\ budget \in Nat
    /\ total \in [Pools -> Nat] /\ inFlight \in [Pools -> Nat]
    /\ idle \in [Pools -> [Shards -> Seq(WireStates)]]
    /\ shTotal \in [Pools -> [Shards -> Nat]] /\ shInFlight \in [Pools -> [Shards -> Nat]]
    /\ active \in [Pools -> SUBSET Requests]
    /\ pc \in [Actors -> ActorPCs] /\ pool \in [Actors -> Pools \cup {None}]
    /\ locked \in [Actors -> Shards \cup {None}]
    /\ shard \in [Requests -> Shards] /\ tried \in [Requests -> Shards]
    /\ has \in [Requests -> SUBSET Slots]
    /\ sock \in [Requests -> BOOLEAN] /\ wire \in [Requests -> WireStates]
    /\ reused \in [Requests -> BOOLEAN]
    /\ attempt \in [Requests -> 0..1] /\ again \in [Requests -> BOOLEAN]

\* The idle connections of the pools P, by their pool, shard and place in the deque
IdleConns(P) == UNION {{<<p, h>>} \X DOMAIN idle[p][h] : p \in P, h \in Shards}
InShard(p, h) == {r \in Requests : /\ pool[r] = p /\ shard[r] = h
                                   /\ pc[r] \in {"track", "connect", "use", "release",
                                                 "releaseBad"}}
Reserved(P, slot) == {r \in Requests : pool[r] \in P /\ slot \in has[r]}
\* Evicted or closed sockets whose slot has not been given back yet
Evicting(P, where) == {a \in Actors : pool[a] \in P /\ pc[a] \in where}
Closing(P, where) == {p \in P : life[p] \in where}

\* Where the total and where the budget of an evicted or closed socket is still taken
EvictOwes(slot) == {"sweepTotal", "scanTotal"}
                   \cup (IF slot = "total" THEN {} ELSE {"sweepBudget", "scanBudget"})
CloseOwes(slot) == {"closeTotal"} \cup (IF slot = "total" THEN {} ELSE {"closeBudget"})

\* How many of the slots are taken by connections of the pools P
Taken(P, slot) ==
    Cardinality(IdleConns(P)) + Cardinality(Reserved(P, slot))
    + Cardinality(Evicting(P, EvictOwes(slot))) + Cardinality(Closing(P, CloseOwes(slot)))

\* Every counter is the number of those it counts, on every path through acquire(),
\* release(), release_bad(), eviction and shutdown(), whoever else runs: total_count and
\* in_flight_count of each pool, total, in_flight and active of each shard, and the
\* budget that all pools, the replaced ones included, share.
Accounting ==
    /\ \A p \in Pools :
         /\ total[p] = Taken({p}, "total")
         /\ inFlight[p] = Cardinality(Reserved({p}, "inFlight"))
         /\ active[p] = {r \in Requests : pool[r] = p /\ pc[r] \in {"connect", "use"}}
         /\ \A h \in Shards :
              /\ shInFlight[p][h] = Cardinality(InShard(p, h))
              /\ shTotal[p][h] = Len(idle[p][h]) + Cardinality(InShard(p, h))
    /\ budget = Taken(Pools, "budget")

\* "hard cap on total connections": a pool has no more sockets than max_size, but for
\* those of failed connects whose coroutine is still unwinding.
SocketsBounded ==
    \A p \in Pools :
        Cardinality(IdleConns({p}))
        + Cardinality({r \in Reserved({p}, "total") : sock[r]}) <= MaxSize

\* Requests never run on a pool whose destructor has started, although a reload may
\* replace the table at any moment.
NoUseAfterDestroy ==
    \A a \in Actors : pool[a] # None => life[pool[a]] = "live"

\* A pool that a reload removed is destroyed, and with it all its idle sockets and
\* their share of the budget, as soon as the requests that use it are through.
RetiredPoolsVanish ==
    \A p \in Pools :
        (life[p] = "live" /\ p \notin table \cup prepared)
            ~> (life[p] = "gone" /\ IdleConns({p}) = {} /\ total[p] = 0)

\* "auto-mark bad on exception paths": a connection taken from the pool carries no
\* response to an earlier request.
ReusedConnectionsAreClean ==
    \A r \in Requests : pc[r] = "use" => wire[r] = "clean"

\* A response that was read leaves nothing behind on a connection that is used again:
\* whatever its framing, its end and the bytes that came with it, the connection is
\* closed unless the response was read exactly to its end.
ResponsesAreReadWhole ==
    \A r \in Requests : pc[r] = "use" => wire[r] # "unread"
=============================================================================
