-------------------------------- MODULE Combo --------------------------------
(***************************************************************************)
(* The queries of /api/combo (app/combo_query_limiter.hpp,                 *)
(* app/combo_deadline.hpp, app/public_routes.cpp): on a cache miss the     *)
(* handler takes a permit, starts the query and a timer, and answers with  *)
(* whichever claims the state first.                                       *)
(*                                                                         *)
(* A query is blocking.  MysqlPool::execute hops to the pool's executor    *)
(* with co_await post(worker_pool_, use_awaitable); the handler of         *)
(* use_awaitable is associated with the executor of the coroutine, so asio *)
(* dispatches the rest of the coroutine back to it: the query runs on the  *)
(* strand of the session, on a thread of the io_context.                   *)
(***************************************************************************)
EXTENDS Naturals, FiniteSets

CONSTANTS
    Sessions,       \* slots for client sessions
    Queries,        \* slots for queries
    MaxInFlight,    \* combo_max_in_flight_queries
    IoThreads       \* threads that run the io_context

ASSUME ComboAssumption ==
    /\ IsFiniteSet(Sessions) /\ IsFiniteSet(Queries)
    /\ MaxInFlight \in 1 .. Cardinality(Queries)
    /\ IoThreads \in Nat \ {0}

VARIABLES
    inFlight,       \* Counter::in_flight
    query,          \* the queries, done or not
    waiting         \* what each session's handler waits for, and its answer

comboVars == <<inFlight, query, waiting>>

Nobody == "nobody"
FreeSlot == [pc |-> "free", owner |-> Nobody, winner |-> "none"]

ComboInit ==
    /\ inFlight = 0
    /\ query = [q \in Queries |-> FreeSlot]
    /\ waiting = [s \in Sessions |-> "nothing"]

-----------------------------------------------------------------------------
\* a strand runs one handler at a time; a query blocks its strand and a thread
Running == {q \in Queries : query[q].pc = "running"}
StrandFree(s) == \A q \in Running : query[q].owner # s
ThreadFree == Cardinality(Running) < IoThreads

\* try_acquire
MayStart == inFlight < MaxInFlight

\* get_cache answers: a value, or nothing and the query is needed
CacheHit(s) ==
    /\ waiting[s] = "nothing"
    /\ waiting' = [waiting EXCEPT ![s] = "answered"]
    /\ UNCHANGED <<inFlight, query>>

TryAcquireRejects(s) ==
    /\ waiting[s] = "nothing"
    /\ ~MayStart
    /\ waiting' = [waiting EXCEPT ![s] = "answered"]
    /\ UNCHANGED <<inFlight, query>>

\* the permit moves into the state that query and timer share; any free slot
\* will do for it
StartQuery(s) ==
    /\ waiting[s] = "nothing"
    /\ MayStart
    /\ query' = [query EXCEPT ![CHOOSE q \in Queries : query[q].pc = "free"] =
                    [pc |-> "queued", owner |-> s, winner |-> "pending"]]
    /\ inFlight' = inFlight + 1
    /\ waiting' = [waiting EXCEPT ![s] = "query"]

\* after the hop to the worker thread, which takes nothing and changes
\* nothing there, and back
RunQuery(q) ==
    /\ query[q].pc = "queued"
    /\ StrandFree(query[q].owner)
    /\ ThreadFree
    /\ query' = [query EXCEPT ![q].pc = "running"]
    /\ UNCHANGED <<inFlight, waiting>>

\* a plausible bug: only the winner gives the permit back
ClaimQueryWinnerOnly(q) ==
    inFlight' = IF query[q].winner = "pending" THEN inFlight - 1 ELSE inFlight

\* claim_query: the permit goes back whoever won
ClaimQuery(q) == inFlight' = inFlight - 1

\* the completion of the query, on the strand it held
EndQuery(q) ==
    /\ query[q].pc = "running"
    /\ ClaimQuery(q)
    /\ waiting' = IF query[q].winner = "pending"
                  THEN [waiting EXCEPT ![query[q].owner] = "answered"]
                  ELSE waiting
    /\ query' = [query EXCEPT ![q] = FreeSlot]

\* send_combo_deadline and claim_timeout
Deadline(q) ==
    /\ query[q].pc = "queued"
    /\ query[q].winner = "pending"
    /\ StrandFree(query[q].owner)
    /\ ThreadFree
    /\ query' = [query EXCEPT ![q].winner = "timeout"]
    /\ waiting' = [waiting EXCEPT ![query[q].owner] = "answered"]
    /\ UNCHANGED inFlight

ComboStep(s) == CacheHit(s) \/ TryAcquireRejects(s) \/ StartQuery(s)
=============================================================================
