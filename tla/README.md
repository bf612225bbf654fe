# TLA+ models of the gateway

The repository is an API gateway in C++20 coroutines on asio: it accepts HTTP/1.1
connections, applies security rules, answers local routes from MySQL and Redis, and
forwards everything else to upstream services.  Its configuration is reloaded while it
runs, from files or from a configuration centre kept in Redis.  This directory models
the parts whose correctness depends on the order in which threads, coroutines, timers,
failures and reloads happen, checks them with TLC on small instances and proves the most
important invariants with TLAPS for every instance.

Source paths below are relative to `src/`.

## Parts of the system

| Part | Source | State | Runs on | Model |
|---|---|---|---|---|
| MySQL pool | `db/mysql_pool.hpp` | idle deque, `total_`, `creating_` under `mtx_`/`cv_` | io threads, maintain thread, caller of `shutdown()` | `MysqlPool` |
| Redis pool | `db/redis_pool.hpp` | the same, with connections that go stale | io threads, maintain thread, caller of `shutdown()` | `RedisPool` (worker mode) |
| Upstream HTTP pools | `http/http_pool.hpp` | 16 shards with a mutex each, atomics `total_count`, `in_flight_count`, the process budget | every io thread | `HttpPool` |
| Upstream manager | `http/upstream_manager.hpp` | tables of addresses and pools, generation | reload handler, io threads, statistics timer | `HttpPool` (pools), `HotReload` (generation) |
| Reload service | `app/reload_service.hpp` | two fingerprints | timer handler | `HotReload` |
| Security rules | `security/security_rules.hpp` | snapshot, generation, cache per thread | reload handler, io threads | `HotReload` (publication) |
| Client session | `http/client_session.hpp`, `http/http_body_reader.hpp` | locals of one connection and one request, session registry | a strand of the io_context | `Server` (life of a connection), `HotReload` (check and route), `HttpPool` (proxy attempts) |
| Proxy forwarder | `http/proxy_forwarder.hpp` | `ConnGuard`, locals of one exchange | io threads | `HttpPool`, `ProxyResponse` |
| Server and shutdown | `http/http_server.hpp`, `http/route_lifecycle.hpp`, `common/shutdown_coordinator.hpp`, `app/application.cpp` | phases, leases, registry | acceptor strand, signal handler, main thread | `Server` |
| Combined queries | `app/public_routes.cpp`, `app/combo_*.hpp` | permits, claim of the answer | session strand, timer | `Combo`, composed in `Server` |
| Config centre store | `app/admin/config_history_scripts.cpp`, `config_history_data.cpp` | keys in Redis, changed by Lua scripts | Redis | `ConfigStore`; what it promises: `ConfigRegister` |
| History service | `app/config_history_service.hpp` | one chain of commands per process, callers waiting | timer, io threads | `ConfigHistory` |
| Admin operations | `app/admin/admin_config_routes.cpp`, `admin_history_*.cpp` | locals of one request | io threads | `ConfigAdmin` |
| Config centre client | `app/config_sync_*.cpp` | `config.d/`, state file | timer and worker of every node | `ConfigSync`, composed in `ConfigCenter` |
| Config loader | `common/config.hpp`, `app/app_config.hpp` | none | reload handler | reading of several files in `HotReload` |
| Rate limiter | `security/rate_limiter.hpp`, `app/snapshot_service.hpp` | buckets, snapshot file | io threads, timer | not modelled |
| HTTP syntax, filters | `http/http_protocol.hpp`, `http/response_builder.hpp`, `http/cors.hpp`, `security/path_*.hpp`, `security/cidr.hpp`, ... | none | io threads | not modelled |
| Logging, JSON, cryptography, HTML | `common/logger.hpp`, `http/json_transform.hpp`, `security/jwt_auth.hpp`, `app/admin/pages` | | | not modelled |

How they meet: the reload service prepares new rules and a new route table and publishes
both; a session checks the rules, looks up the route, receives a reference to a pool and
takes a connection from it; the pools of all services draw on one budget; local routes
run queries in the database pools; the configuration centre's client writes the files
that the reload service watches; the server's stop closes the sessions, waits for them,
ends the io threads and only then shuts the database pools down.

## Modules

### MysqlPool

One request is one call of `execute()`.  `pc[r]` is its place in `execute()`,
`acquire()`, `do_query()` and `~ConnectionGuard()`; `mpc` is the maintain thread's place in
`maintain_loop()`/`do_maintain()`; `spc` is the place of `shutdown()`.  `open` is the set of
MYSQL handles connected and not closed, whoever holds them.

A critical section is one action.  Between the test of `running_` and the wait on `cv_`
the thread keeps `mtx`, as a step of its own: `shutdown()` takes no lock and may run there.
A wait ends by a notification (`woken`) or by its deadline, and a notified request may
still report a timeout when it gets the mutex back after its deadline, as
`std::condition_variable::wait_until` does.  Connecting, resetting, pinging and querying
succeed or fail arbitrarily.  `push_back` may run out of memory in `release()`, where the
code handles it.  Ages are left out: any prefix of the idle deque may be stale.  Spurious
wake-ups are left out; they only let a thread repeat its test.

### HotReload

A *version* is the content of `config.d/` after that many edits and stands for its
fingerprint.  An edit is `good`, rejected while the rules are prepared, rejected while the
routes are prepared, or one that switches reloading off.  `Config::load()` reads the rules
and the routes at different moments, so an edit in between gives a mixture; reading the
directory or a file may fail.  `sec` and `up` are the published pairs of generation and
version, `cache` the thread-local cache of `snapshot_view_fast()`, which reads the
generation outside the lock (`BeginCheck`) and refreshes under it (`FinishCheck`).  The
session's loop reads each generation and the table in steps of their own.

### HttpPool

One step is one critical section of a shard or one operation on an atomic counter.  A
thread that evicts keeps the shard's mutex while it lowers the counters (`locked`).
`has[r]` is the set of counters in which request `r` holds a place, given back one by one
in the order of the code.  A pool lives while the table, a prepared reload, a request or
the statistics sweep refers to it; then its destructor closes the idle connections.  An
idle connection is what is known of its bytes: `clean`, or `thrown` after an exception in
the middle of an exchange, or `unread` after a response that was not read to its end.
Allocation may fail where the code has a handler for it.  The test that throws away an idle connection with leftover
bytes in `acquire()` is covered by the eviction of the head of the deque, which has the
same effect on every counter.

`ProxyResponse` holds `read_proxy_response` as an operator: an answer is a record of what
the function tells apart (interim responses, how the last header ends, framing, how the
body ends, bytes beyond the end that came with it), its result says whether `error` and
`connection_close` are set, whether `read_buffer` keeps bytes, and, which the code cannot
see, whether bytes of the exchange are left over.  An upstream that sends more than its
answer after the connection went back to the pool is outside the model.

### RedisPool

Worker mode of `db/redis_pool.hpp`, in the form of `MysqlPool`.  A connection is `live`, or
`dead` once Redis has closed it; a dead one looks like a live one until a command or a
PING uses it.  `Outage` makes every connection dead and connecting impossible until
`Recovery`.  `req[r].sent` counts how often a command may have reached Redis.  `NotifyOne`
may wake any waiter or the maintain thread, and a notification nobody waits for is lost.
Ages are left out, as in `MysqlPool`.

### Where a query runs

Both pools say that their blocking calls run on their own worker threads.  The code
resumes elsewhere.  `co_await asio::post(worker_pool_, asio::use_awaitable)` completes on
the worker pool, but the handler of `use_awaitable` is associated with the coroutine's
executor, so the rest of the coroutine runs on the session's strand, on a thread of the
io_context (seen with a small program against the asio version the repository vendors).
The models follow the code.

In the pools a call passes through `Execute` (in Redis `Submit`: the test of `running_` on an
io thread), `Post`, `Dispatch` (a worker hands the coroutine back to its executor) and
`Resume` (an io thread takes it up and tests `running_` again).  At most `IoThreads` calls
are between two statements at once.  `worker_pool_.join()` (`JoinWorkers`) therefore waits for
the tasks that only hand coroutines back, not for a query that runs, and a call that is
posted after the join is never resumed.  `shutdown()` may be called at any moment.  If calls
still run, it closes the idle connections and sets `total_` to zero under them: they bring
connections back to a pool that is down, and `--total_` wraps (`Decremented`, with `SizeMax`
the largest `size_t`).  What keeps the program from this is `Application`: it joins the io
threads (`JoinIo`) before `cleanup()` shuts the pools down.  `CleanStop` says what that order
is worth to a pool, and `PoolsOutliveQueries` in `Server` that the order is kept.

For the sessions the same fact means that a query occupies its strand and an io thread,
which is what `Combo` and `Server` model.

### Combo and Server

`ses[s]` is the coroutine of a session slot: `pc` is its place in `ClientSession::run`,
`clean` says that no rest of a body is on the wire.  A step is what a handler does between
two accesses to state that others share.  `Accept`, `Admit` and `Recheck` are the three
accesses of `try_enter_session`; `EnterHandler` and `EnterHandlerRecheck` those of
`enter_handler`; `RegisterSession` to `EndSession` follow the loop of the session.
`ReadContentLengthBody` and `ReadChunkedBody` end with a body or with one of the results
of the reader, which `StatusOf` turns into an answer.  A route that answers at once is
`HandleLocal`; `/api/combo` goes through `Combo`: cache hit, refusal for lack of a permit,
or a query (`RunQuery`, `EndQuery`) that races `Deadline` for the answer.
`RequestStop`, `BeginDraining`, `DispatchStop`, `StopServer`, `Drained`, `DrainTimeout`, `StopIo`,
`JoinIo` and `Cleanup` are the stop in the order of `application.cpp`; `HandlerThrows` is
an exception that leaves a handler, before or during the stop.

### ConfigStore, ConfigHistory, ConfigAdmin, ConfigSync, ConfigCenter

Each module extends the one before it; `ConfigCenter` composes them.

`ConfigStore` has the keys in Redis as one record and every Lua script as an operator that
returns its reply and the stores its successive writes produce.  Redis runs a script
without interleaving but does not undo a script that stops half way, so `Eval` takes any
prefix of the writes when the fault `abort` strikes (all of them when only the reply is
lost), and the caller gets an error; with `error` a command that only reads fails.  `published` is a history variable:
what each version was when the version key took it.

`ConfigHistory` is the service in every process: the health check, whose callers are
collected in `pending` while a chain is in flight, the migration of data from releases
without history, the two commands of the collector.  `ConfigAdmin` has one action per Redis
command of a request; `base`, `target`, `files`, `meta` are what the request remembers from
earlier replies.  `ConfigSync` is a node: read the version, seed if the store is empty,
read the snapshot or the mirror, verify the hash and the version, replace the files one by
one (`ApplyFile`), write the state file, send the heartbeat.  `Crash` forgets everything
but the files and the state file.  A `write` fault makes the write of a file or of the
state file fail, and the node notices.  A `full` fault is the write that nobody notices:
`write_state` (`config_sync_state.cpp:207`) and `write_managed_file_if_changed`
(`config_sync_files.cpp:79`) do not ask the stream for errors before they rename, so a full
disk puts a beginning of the text in place.  Of a managed file that is `Torn`; of the state
file it is any of `ShortStates`: what `load_state` reads from the lines before the cut, of
which the last may be a number without its last digits or a hash without its end
(`NoHash`).  `Drift` is somebody who changes the files by hand, to sets that are fit or not;
a file whose name is not fit (`Stray`) is never removed, because
`collect_local_managed_file_names` passes over it, and keeps `collect_local_managed_files`
from a result at every tick.

`ConfigRegister` is the abstract specification: versions are published one after the
other, a version that can be read is as it was published, only old versions are
forgotten (or the current one, when the snapshot itself gets lost).  `ConfigCenter`
instantiates it with `version <- store.version`, `content <- ` what was published and
`history <- ` the snapshots the history page lists.

## Runs

| Run | Instance | What it shows |
|---|---|---|
| `mysql` | 2 requests on 2 io threads, 2 handles, min = max = 1, one creation at a time | `TypeOK`, `Accounting`, `Limits`, `Ownership`, `SocketBound`, `CleanStop`; `ShutdownReturns`, `QueriesReturn` |
| `mysql_wake` | 1 request | `ShutdownWakesMaintain` is violated (below) |
| `redis` | a read-only command and a write on 2 io threads, min = max = 1, 2 faults | `TypeOK`, `Accounting`, `CleanStop`, `WritesAtMostOnce`, `CommandsReturn` |
| `reload` | 1 request that moves between 2 threads, 2 edits of any kind, 2 failed reads | `RulesNotOlderThanRoutes`, `OneConfigurationIsLive`, `GenerationIdentifiesRules`, `ChangesGoLive` |
| `http_reload` | 1 request, the statistics sweep, 2 pools of size 1, one request at a time in each, budget 1 or unlimited | `Accounting` across reloads, `NoUseAfterDestroy`, `RetiredPoolsVanish` |
| `http_shards` | 2 requests, 1 pool with 2 shards and size 2, `max_concurrent` 1 or unlimited, budget 1 or unlimited | `Accounting`, `SocketsBounded`, `ResponsesAreReadWhole` |
| `http_clean` | 1 request | `ReusedConnectionsAreClean` is violated (below) |
| `server` | 2 sessions, limit of 1 or 2 clients, 2 queries, 2 permits, 2 io threads | `DrainedMeansGone`, `PermitsMatchQueries`, `StopReachesReaders`, `CleanBeforeReuse`, `PoolsOutliveQueries`, `StopTerminates` |
| `server_deadline` | 1 session, 1 query, 2 io threads | `DeadlineIsKept` is violated (below) |
| `config_store` | 2 administrators, 1 server, versions to 3, 2 retained, 1 fault | `IsRegister` (the store implements `ConfigRegister`), `AnswersAreTrue`, `NewestAreRetained` |
| `config_nodes` | 1 node, 1 server, 1 administrator, versions to 2, 1 fault of any kind | `StateIsTrue`, `AnswersAreTrue`, `NodesConverge`, `RefreshesAreAnswered` |
| `config_seed` | 1 node, 1 server, a crash and a loss of the store | `PublishedIsWhole` is violated (below) |

In words: every counter of every pool is the number of what it counts; every handle has
one owner; a command that may have reached Redis is not sent again unless it only reads;
a request is never judged by rules older than its route; a pool outlives its users and
dies after them; a connection is read again only from a message boundary, towards the
client (`CleanBeforeReuse`) and towards the upstream (`ResponsesAreReadWhole`); once the
drain has seen no session, none begins; once `stop()` has run, no session reads unnoticed;
the database pools shut down after the last query, and a pool that is shut down then has
nothing left; the stop ends whatever the clients do.
For the configuration centre: versions follow one another and stay as they were published
although scripts stop half way, an answer pairs the files of a version with its number,
the collector keeps the newest, a node's state file vouches only for what was published,
nodes reach the published version, and callers of the health check are answered.

`StateIsTrue` compares the state file with what was published, not with the directory:
somebody may change the files after the state was written.  Its second half is about the
directory: a node that finds its files as the state says, and so reports itself in step,
has the files of that version.  One case is left open.  A state file cut before its first
`file.` line loads as a version without files, status `ok`; if the directory loses all its
managed files as well, the node takes itself to be in step and does not write them again
before the next version.  That takes two faults, and `NodesConverge` is checked with one.
`NodesConverge` speaks of the managed names: a stray file stays where it is.

### Bounds

The `mysql` instance is small, one connection for two requests, because its safety
properties are proved for every instance; a pool of one connection makes the second
request depend on a notification, which is what its liveness is about.  `redis` has one
connection for the same reason; two faults let the second one strike the retry of a
command that the first one broke.  `SizeMax` is small, so that a counter that wraps shows.
Two edits are the fewest for which an
edit falls into a load and a reload into a check.  Two shards make the scan wrap, a budget
below the sum of the pool sizes makes one connection block another, two pools let a
retired one and its successor live together.  In `server` two sessions meet the limit of
one and fill the limit of two; two queries on two io threads block all of them; sessions
and queries are reused any number of times.  In `config_store` two administrators with
the same base version compete, and three versions with two retained let the collector
delete one; one of them also reads the current version (`get`), which others move between
its commands; one fault, at any command; combinations of faults were not explored.
In `config_nodes` the interleaving is between a node, a
collector and an administrator; nodes do not see one another except through the store.
`MaxClock` bounds the ages the collector compares, `Retain` the versions it keeps.
`Answers` has no, eight and nine interim responses, around the limit of eight.

Requests, and sets of files, are interchangeable (symmetry is used for safety only).
Deadlock is not checked where the system stops: after `shutdown()`, after the bounded
edits, faults and versions, and after `cleanup()`.

### Fairness

`MysqlPool`: every io thread, every worker and the maintain thread are scheduled, a free io
thread takes up a resumed call and the mutex starves none (strong fairness), network calls
have timeouts, and the deadline of `acquire()` is absolute, so that a request that always
goes back to sleep reaches it.  Nobody is obliged to call `execute()` or `shutdown()` or to
join the io threads.  `QueriesReturn` and `CommandsReturn` speak of calls posted before the
workers are joined, and of every call that was resumed.  `RedisPool`: the same; a waiter
reaches its deadline (strong fairness).  Outage and recovery are not
forced.  `HotReload`: the timer keeps firing, because `schedule()` is called at the end of
every handler, also after an exception.  Edits, failures and `stop()` are not forced.
`HttpPool`: requests and the sweep get the shard mutexes they wait for and their I/O times
out; the destructor runs to its end.  Reloads are not forced.  `Server`, `FairSpec`: the
threads that stop the server run, a query ends, by its timeout at the latest, and the
drain timer fires when an io thread is free again and again (strong fairness, since
queries occupy the io threads); clients and sessions owe nothing.  `SlowSpec`, for
`server_deadline`: handlers and timers that can run do, but a query may take for ever.
`ConfigCenter`: every Redis command is answered or times out and timers fire, for every
server, administrator and node; faults, crashes and local edits are not forced.

### Disagreements with comments and documents

* `mysql_wake`: `db/mysql_pool.hpp:314` says that shutdown "triggers immediate wake via
  cv_.notify_all" and line 92 that shutdown is "not gated by keepalive_sec".
  `shutdown()` stores `running_` and notifies without `mtx_`; both may happen after the
  maintain thread has evaluated its predicate and before it sleeps.  It then sleeps until
  `keepalive_sec` is over or another thread notifies.  `ShutdownReturns` holds all the same.
* `http_clean`: `http/proxy_forwarder.hpp:26` says that `ConnGuard` does "auto-mark bad on
  exception paths".  The flag starts as good and only explicit calls clear it; an exception
  after the request was written returns the connection to the idle deque while its
  response is outstanding, and the next request takes it.
* `config_seed`: `docs/CONFIG_CENTER_DESIGN_2026-08-16.md:254` takes a missing state file
  for a new machine that was never partial.  Files are replaced one by one before the
  first state file is written; a node that stops in between may later seed the mixture.
* `server_deadline`: `docs/DB_POOL_DESIGN.md:12` keeps blocking MySQL calls off the threads
  of the io_context and `:246` promises 504 after `combo_deadline_ms`.  The query resumes
  on the session's strand (see "Where a query runs"), where its deadline waits too.

`docs/CONFIG_CENTER_DESIGN_2026-08-16.md:297` says of half-written files that they do not
exist, because of tmp and rename.  On a full disk they do (see `full` above): the rename
follows a write whose result nobody asked for.  The node repairs a torn file at a later
tick, and a short state file vouches for less and not for more, which is what
`NodesConverge` and `StateIsTrue` are checked for.

Observed on the way, without a run of its own: the retry of a read-only Redis command
takes the next idle connection, which may be as stale as the first, although
`db/redis_pool.hpp:162` speaks of a fresh one; a node in compatibility mode applies a
mirror whose hash it cannot verify; a migration that is broken off leaves the history
frozen until it is repaired; a heartbeat names the version of the store also when the
node has not applied it; an edit between the first load and `start()` waits for the next.

## Proofs

`MysqlPoolProofs` proves, for any finite set of requests, any set of handles and any sizes
with `min <= max`: `TypeCorrect`, `AccountingCorrect`, `LimitsCorrect`.  They follow from
one inductive invariant `PoolInv`.  `Accounting` alone is not inductive: that the refill
returns `need - Len(newConns)` slots is right only if no more were created than reserved,
and that phases 2 and 3 start from zero only if the previous pass cleaned up
(`MaintainInv`); that a retry stays in its type needs `retry < 2` for every busy request
(`RequestInv`).  After `shutdown()` has set `total_` to zero the equation is given up, but not
the bound on the slots in use.  What `CleanStop` needs is in `JoinInv`: once the io threads
are joined no request sits on one, so that nothing is held when the deque is closed, and
the maintain thread has left before that.  The counting rests on
`MoveOne` (how the cardinality of a set of requests changes when one moves) and
`MoveCounts`; a step that moves one request and changes `total` and `creating` by
the same amounts preserves the invariant (`BalancedStep`), and so for the maintain thread
(`MaintainBalancedStep`).  One step per action then checks that it is balanced.

The second half of the module proves `OwnershipCorrect`, `SocketBoundCorrect` and
`CleanStopCorrect`.  The invariant `OwnInv` says that the idle
deque and the maintain thread's two lists repeat no handle, that no two requests hold the
same one, that exactly the requests in certain places hold one, and that the idle deque,
the lists, the handles to be closed and the held ones partition `open`.  Each action moves
one handle, or one list, from part to part; the module begins with the facts about
sequences without repetitions that this needs.  The bound on sockets then is counting: the parts are
disjoint, and `Accounting` bounds all of them but the ones about to be closed.

`HotReloadProofs` proves, for any sets of sessions and threads and any number of edits and
failed reads: `TypeCorrect`, `RulesNotOlder`, `WholeConfigurations`, `CachesAgree`.  The
invariant `Inv` adds: versions are ordered `up.ver <= sec.ver <= current <= disk` while a
reload runs and a load that passed the second fingerprint read one version
(`ReloadInv`; versions read at different moments are ordered, so equal ends mean equal
middles); no cached or remembered generation is ahead of the live one
(`GenerationInv`); a remembered route is at most as new as the live table (`RouteInv`).
At the last comparison of the session the rules it was judged by are the live ones, and
these are at least as new as the live table, hence as its route.

`RedisPoolProofs` proves, for any finite set of commands, any sizes and any number of
outages: `TypeCorrect`, `AccountingCorrect`, `CleanStopCorrect`, `WritesAtMostOnceCorrect`.
The invariant `PoolInv` has four parts.  `CommandInv` ties how often a command was sent to
the attempt it is in: `WritesAtMostOnce` alone says nothing of a command that is about to
be sent.  `MaintainInv` says in which phases the maintain thread has reservations and
connections, `CountInv` counts them together with those of the commands, and `JoinInv`
says whom `Application` and `shutdown()` have waited for, so that nothing is left when the
deque is freed.  As in `MysqlPool` the counter is exact until `shutdown()` zeroes it.

`ServerProofs` proves, for any finite sets of sessions and queries, any limits and any
number of io threads: `TypeCorrect`, `DrainedMeansGoneCorrect`, `PermitsMatchQueriesCorrect`,
`StopReachesReadersCorrect`, `CleanBeforeReuseCorrect`, `PoolsOutliveQueriesCorrect`.
`SessionInv` makes the counters and the registry functions of the sessions' places;
`CleanInv` says that a connection with unread bytes is only written to once more, with an
answer that closes it; `PermitInv` counts the queries; `StopInv` orders the steps of the
stop; `DrainInv` and `ReaderInv` need what a single step of a session may do (`Flows`): a
session that was not entered when the drain looked gets no further than its second look
at the phase, and one begins to read only while `running` is set.

`HttpPoolProofs` proves, for any finite sets of requests and pools and any sizes and limits,
first `NoUseAfterDestroyCorrect`, from `RefInv` (the table and the prepared reload hold only
live pools, so that whoever takes a reference takes a live one), and `ResponsesReadWhole`,
from `WireInv` (what was `unread` is in no deque and in no session's hands) and `HeldInv` (a
session in `acquire()` holds a pool and a valid shard index, so that what it pops is in one
of those deques).  The step that matters is `KeptIsRead`, about every possible answer.
With `HttpSlotProofs`, which follows the slots through every step, it also proves
`AccountingCorrect`, `SocketsBoundedCorrect` and `TypeCorrect`.  The invariant (all its parts
are in `HttpInvariants`) adds `HasInv` (the place of a session determines which slots it has reserved,
except while it gives them back one by one), `SlotInv` (`total_count`, `in_flight_count` and
the budget, with the places that evictions and destructors still owe), `ShardInv` and
`ActiveInv`.  `Accounting` alone is not inductive: that a decrement does not go below
zero, and that a release returns what was reserved, is in `HasInv`; that a destructor
may close a pool without counting its users is in `RefInv`.  A step changes what one actor
owns and perhaps one idle connection; `SlotMoves`, `MovesHas`, `PopIdle` and `PushIdle` say
how the sets, and so their cardinalities, change.  The facts about sizes of sets that these
lemmas use are one named hypothesis, `Counting`; `CountingHolds` discharges it.

`ConfigGatewayProofs` and `ConfigProofs` prove, for any sets of administrators, servers and
nodes, any number of versions and faults and any `Retain`: `TypeCorrect`,
`AnswersAreTrueCorrect`, `NewestAreRetainedCorrect`, `StateIsTrueCorrect`,
`PublishedIsWholeCorrect` and `RegisterRefined`, that the centre implements
`ConfigRegister`.  The first module has the stores, the invariant, the history services and
the nodes; the second the administrators, the whole and the theorems.  `StoreInv` relates a store to
what was published: the history has nothing else of an existing version (`Truthful`);
of the versions to come there is at most what a script that stopped left of the next one
(`Fresh`); the current version is in the history, or the mirror has it and nothing is in
the way of its migration (`Settled`); the `Retain` newest are in the history (`Retained`).
There is one lemma per script: every prefix of its writes leaves a store that satisfies
`StoreInv`, changes nothing that was published (`Later`) and is a step of the register or
none (`Moves`).  That is why the order of the writes matters: a version key written before the
snapshot publishes a version nobody can read, which is no step of the register.

The invariant `Inv` adds what the processes remember.  It says of a request that
what it read, once it has compared the hash or the version, is what was published under
the version it names (`RequestInv`), of a collector that it holds only candidates older
than the version it saw (`ServiceInv`), and of a node that what it verified, and what its
state file vouches for, is what was published (`NodeInv`, `StateOK`).  That a state cut short
says no more than the whole one is `ShortOK`; to survive being cut twice the invariant says
that a state with files in `last_ok.` lines has all its `file.` lines (`Vouched`).
`AnswersAreTrue` alone says
nothing of a request that is not answered yet, nor `StateIsTrue` of a node between two
files.  All this is stable while versions only grow and published ones stay (`Later`), so
a step preserves what the others remember without looking at it, and each action has one
lemma, `<Action>Step`, about the actor it moves.  The refinement then follows from `Moves`.
`Inv` also carries the constant fact `VersionSets`, that a set of versions has a size and a
subset no larger one, which counting the retained versions needs; `VersionSetsHold` proves it.

Two theorems need their hypotheses.  `StateIsTrue` is proved for `~Compat`: in compatibility
mode a node applies the mirror without a hash to compare it with, and the state file then
names whatever the mirror was.  For the same reason `AnswersAreTrue` speaks of a plain read only
in the required mode.  `PublishedIsWhole` is proved of `Spec`, where Redis keeps its
data: a node seeds only while the version is 0, and until there is a first version no
node replaces files.  With `Flush` it is false, as `config_seed` shows.

Assumptions: those named in the modules (`RequestsAssumption`, `SizesAssumption`,
`NamesAssumption`, `BoundsAssumption`, `NoneAssumption`, `SetsAssumption`,
`NumbersAssumption`, `PoolAssumption`, `ComboAssumption`, `ServerAssumption`,
`StoreAssumption`, `FilesAssumption`, `HistoryAssumption`), all facts that
`validate_config()` establishes or that only say that sets are finite and names differ.

Only model-checked:

* Every liveness property: `ShutdownReturns`, `QueriesReturn`, `CommandsReturn`,
  `ChangesGoLive`, `RetiredPoolsVanish`, `StopTerminates`, `NodesConverge`,
  `RefreshesAreAnswered`.  Fairness is out of the prover's reach.

Compatibility mode of the configuration centre (`Compat`) is the other way round: the runs
use the required mode, and the theorems without a hypothesis on `Compat` cover both.

## Not modelled

* Rate limiter and its snapshot file.  Its buckets are independent of every modelled part,
  and what matters in them is arithmetic on doubles over a millisecond clock, which a small
  instance would replace by something else.  Rejected requests subtract a token and return
  it, so a refill in between can lift the global bucket above its burst, by at most the
  number of threads inside the check.
* Redis direct mode: one connection per thread, nothing shared.
* The cache of `/api/combo` as a Redis command: its answer is a choice in `Combo`; that it
  too occupies the strand changes no property.
* `ConfigSyncServiceImpl::stop()` and `ConfigHistoryService::stop()`: after the io_context
  has stopped they return at once; a node that has stopped takes no step.  Administrators'
  requests that are refused before their first Redis command change nothing.
* Exceptions out of the callback of a Redis command of the history service.
  `run_command` (`config_history_service.hpp:455`) swallows them and leaves `in_flight_` set,
  so no later check would start.  `RefreshesAreAnswered` does not cover that.
* Bytes that arrive on an idle upstream connection after it went back to the pool.
* Construction of the parts in `Application`, and the second signal, which exits at once.
* Pure functions on strings: HTTP syntax, rewriting of headers, path normalisation, CIDR
  matching, the INI grammar, JSON keys, rows to JSON.  Where one decides something, the
  models take both outcomes.
* Responses and pages as text, logging, statistics, cryptography and password hashing, the
  drivers for MySQL and Redis.
