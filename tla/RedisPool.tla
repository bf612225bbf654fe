------------------------------ MODULE RedisPool ------------------------------
(***************************************************************************)
(* RedisPool in worker mode (src/db/redis_pool.hpp): commands take a      *)
(* connection from the idle queue or make one, and give it back; a         *)
(* maintenance thread recycles, refills and pings the queue; shutdown      *)
(* joins it and the workers.  One action is one critical section of mtx_,  *)
(* one call of hiredis, or one access to running_.                         *)
(*                                                                         *)
(* As in MysqlPool, a worker only hands the posted coroutine back to its   *)
(* executor: the io threads run the commands, and joining the workers is   *)
(* no wait for a command that runs.  Application joins the io threads      *)
(* before it calls shutdown(); a caller of the class need not.             *)
(*                                                                         *)
(* A connection is "live", or "dead" once Redis has closed it: nobody      *)
(* notices before the next command or PING.                                *)
(***************************************************************************)
EXTENDS Naturals, Sequences, FiniteSets

CONSTANTS
    Requests,       \* commands submitted by coroutines
    ReadOnly,       \* those whose verb is_readonly_idempotent accepts
    MinSize, MaxSize, MaxCreating,
    MaxCheck,       \* connections pinged in one round (4 in the code)
    IoThreads,      \* the threads that run the io_context
    SizeMax,        \* the largest size_t
    MaxFaults       \* bound: restarts of Redis, timeouts and failed allocations

ASSUME PoolAssumption ==
    /\ IsFiniteSet(Requests) /\ ReadOnly \subseteq Requests
    /\ MinSize \in Nat /\ MaxSize \in Nat \ {0} /\ MinSize <= MaxSize
    /\ MaxCreating \in 1 .. MaxSize
    /\ MaxCheck \in Nat \ {0} /\ IoThreads \in Nat \ {0} /\ MaxFaults \in Nat
    /\ SizeMax \in Nat /\ MaxSize <= SizeMax

VARIABLES
    running, total, creating,
    idle,       \* idle_pool_, front first
    req,        \* the command of each request
    mt,         \* the maintenance thread
    stop,       \* the thread in shutdown()
    io,         \* the io threads: "run", or "joined"
    up,         \* Redis accepts connections
    faults      \* faults so far

vars == <<running, total, creating, idle, req, mt, stop, io, up, faults>>

NoConn == "none"
Kinds == {"live", "dead"}

Quiet == [pc |-> "wait", need |-> 0, tried |-> 0, made |-> <<>>,
          check |-> <<>>, dead |-> 0]

Fresh == [pc |-> "new", attempt |-> 0, retry |-> 0, conn |-> NoConn, sent |-> 0]

\* The pool starts with the connections that could be made, at most MinSize.
Init ==
    /\ running = TRUE
    /\ up = TRUE
    /\ faults = 0
    /\ \E n \in 0 .. MinSize : idle = [i \in 1 .. n |-> "live"] /\ total = n
    /\ creating = 0
    /\ req = [r \in Requests |-> Fresh]
    /\ mt = Quiet
    /\ stop = "no" /\ io = "run"

-----------------------------------------------------------------------------
(* cv_: waiting requests look at the pool again; a notification the        *)
(* maintenance thread receives is swallowed while running_ is set.         *)

Waiters == {r \in Requests : req[r].pc = "waiting"}

NotifyAll(q) ==
    [r \in Requests |-> IF q[r].pc = "waiting" THEN [q[r] EXCEPT !.pc = "acquire"]
                                               ELSE q[r]]

\* notify_one: one waiter, which may be the maintenance thread
NotifyOne(q) ==
    {[q EXCEPT ![r].pc = "acquire"] : r \in Waiters}
    \cup (IF Waiters = {} \/ mt.pc = "wait" THEN {q} ELSE {})

\* commands that sit between two statements on an io thread
Active == {r \in Requests :
              req[r].pc \in {"posting", "acquire", "waiting", "create", "use"}}
FreeThread == Cardinality(Active) < IoThreads

\* --total_, a size_t
Decremented(n) == IF n = 0 THEN SizeMax ELSE n - 1

\* the command of a request returns; only what Redis has seen is remembered
Answered(q) == [Fresh EXCEPT !.pc = "done", !.sent = q.sent]
Failed(q) == [Fresh EXCEPT !.pc = "failed", !.sent = q.sent]

\* push_idle_locked: its allocation may fail
Push(pooled) ==
    /\ pooled \/ faults < MaxFaults
    /\ faults' = IF pooled THEN faults ELSE faults + 1

-----------------------------------------------------------------------------
(* cmd_argv and get: the caller's coroutine, worker_pool_ and the coroutine *)
(* again.                                                                  *)

Submit(r) ==
    /\ req[r].pc = "new" /\ io = "run" /\ FreeThread
    /\ req' = [req EXCEPT ![r] = IF running THEN [@ EXCEPT !.pc = "posting"]
                                            ELSE Failed(@)]
    /\ UNCHANGED <<running, total, creating, idle, mt, stop, io, up, faults>>

Post(r) ==
    /\ req[r].pc = "posting"
    /\ req' = [req EXCEPT ![r].pc = "posted"]
    /\ UNCHANGED <<running, total, creating, idle, mt, stop, io, up, faults>>

\* a worker dispatches the coroutine to its executor, until the workers are joined
Dispatch(r) ==
    /\ req[r].pc = "posted" /\ stop \notin {"free", "done"}
    /\ req' = [req EXCEPT ![r].pc = "resumed"]
    /\ UNCHANGED <<running, total, creating, idle, mt, stop, io, up, faults>>

Resume(r) ==
    /\ req[r].pc = "resumed" /\ io = "run" /\ FreeThread
    /\ req' = [req EXCEPT ![r] = IF running THEN [@ EXCEPT !.pc = "acquire"]
                                            ELSE Failed(@)]
    /\ UNCHANGED <<running, total, creating, idle, mt, stop, io, up, faults>>

MayCreate == total < MaxSize /\ creating < MaxCreating

\* the critical section of acquire_worker
AcquireWorker(r) ==
    /\ req[r].pc = "acquire"
    /\ IF ~running
       THEN /\ req' = [req EXCEPT ![r] = Failed(@)]
            /\ UNCHANGED <<total, creating, idle>>
       ELSE IF idle # <<>>
       THEN /\ req' = [req EXCEPT ![r].pc = "use", ![r].conn = Head(idle)]
            /\ idle' = Tail(idle)
            /\ UNCHANGED <<total, creating>>
       ELSE IF MayCreate
       THEN /\ req' = [req EXCEPT ![r].pc = "create"]
            /\ total' = total + 1
            /\ creating' = creating + 1
            /\ UNCHANGED idle
       ELSE /\ req' = [req EXCEPT ![r].pc = "waiting"]
            /\ UNCHANGED <<total, creating, idle>>
    /\ UNCHANGED <<running, mt, stop, io, up, faults>>

\* The deadline, fixed when the acquisition began, has passed: wait_until
\* returns timeout and there is no second look at the idle queue.
WaitTimeout(r) ==
    /\ req[r].pc = "waiting"
    /\ req' = [req EXCEPT ![r] = Failed(@)]
    /\ UNCHANGED <<running, total, creating, idle, mt, stop, io, up, faults>>

\* a plausible bug: failed creations are not counted
RetryAlways(r) == TRUE

\* acquire_worker makes two attempts
MayRetry(r) == req[r].retry = 0

CreateConnection(r) ==
    /\ req[r].pc = "create"
    /\ creating' = creating - 1
    /\ IF up
       THEN /\ req' = [req EXCEPT ![r].pc = "use", ![r].conn = "live"]
            /\ UNCHANGED total
       ELSE /\ total' = Decremented(total)
            /\ req' = NotifyAll([req EXCEPT ![r] =
                        IF MayRetry(r)
                        THEN [@ EXCEPT !.pc = "acquire", !.retry = 1]
                        ELSE Failed(@)])
    /\ UNCHANGED <<running, idle, mt, stop, io, up, faults>>

\* a plausible bug: every command is replayed
MaxAttemptsAny(r) == 2

MaxAttempts(r) == IF r \in ReadOnly THEN 2 ELSE 1

\* the command has reached Redis n times more
Sent(q, n) == [q EXCEPT !.sent = @ + n]

\* redisCommandArgv answers; the guard gives the connection back
CommandOk(r) ==
    /\ req[r].pc = "use"
    /\ req[r].conn = "live"
    /\ \E pooled \in BOOLEAN :
        /\ Push(pooled)
        /\ idle' = IF pooled THEN Append(idle, "live") ELSE idle
        /\ total' = IF pooled \/ total = 0 THEN total ELSE total - 1
    /\ req' \in NotifyOne([req EXCEPT ![r] = Answered(Sent(req[r], 1))])
    /\ UNCHANGED <<running, creating, mt, stop, io, up>>

\* a plausible bug: the retry keeps the connection that broke
AfterBreakHeld(r, q) ==
    IF q.attempt + 1 < MaxAttempts(r) /\ running
    THEN [q EXCEPT !.pc = "acquire", !.attempt = 1, !.retry = 0]
    ELSE Failed(q)

\* the connection is gone: another attempt, or the end
AfterBreak(r, q) ==
    IF q.attempt + 1 < MaxAttempts(r) /\ running
    THEN [q EXCEPT !.pc = "acquire", !.attempt = 1, !.retry = 0, !.conn = NoConn]
    ELSE Failed(q)

\* No reply, from a closed connection or within cmd_timeout_ms: the command
\* may or may not have reached Redis.
CommandBroken(r) ==
    /\ req[r].pc = "use"
    /\ \/ req[r].conn = "dead" /\ UNCHANGED faults
       \/ req[r].conn = "live" /\ faults < MaxFaults /\ faults' = faults + 1
    /\ total' = Decremented(total)
    /\ \E reached \in {0, 1} :
        req' = NotifyAll([req EXCEPT ![r] = AfterBreak(r, Sent(req[r], reached))])
    /\ UNCHANGED <<running, creating, idle, mt, stop, io, up>>

-----------------------------------------------------------------------------
(* maintain_loop and do_maintain.                                          *)

\* the end of a round: while (running_)
NextRound == [Quiet EXCEPT !.pc = IF running THEN "wait" ELSE "exited"]

\* 30 s have passed, or shutdown is noticed
MaintainWakes ==
    /\ mt.pc = "wait"
    /\ mt' = [mt EXCEPT !.pc = IF running THEN "recycle" ELSE "exited"]
    /\ UNCHANGED <<running, total, creating, idle, req, stop, io, up, faults>>

\* connections idle for max_idle_sec are at the front
Recycle ==
    /\ mt.pc = "recycle"
    /\ \E k \in 0 .. Len(idle) :
        /\ idle' = SubSeq(idle, k + 1, Len(idle))
        /\ total' = total - k
    /\ req' = NotifyAll(req)
    /\ mt' = IF running THEN [mt EXCEPT !.pc = "need"] ELSE NextRound
    /\ UNCHANGED <<running, creating, stop, io, up, faults>>

Need ==
    LET missing  == IF Len(idle) < MinSize THEN MinSize - Len(idle) ELSE 0
        headroom == IF total > MaxSize THEN 0 ELSE MaxSize - total
    IN  IF missing < headroom THEN missing ELSE headroom

Reserve ==
    /\ mt.pc = "need"
    /\ mt' = [mt EXCEPT !.pc = "fill", !.need = Need]
    /\ total' = total + Need
    /\ UNCHANGED <<running, creating, idle, req, stop, io, up, faults>>

\* need creations are tried, until shutdown is noticed
Fill ==
    /\ mt.pc = "fill"
    /\ mt' = IF mt.tried = mt.need \/ ~running
             THEN [mt EXCEPT !.pc = "pool"]
             ELSE [mt EXCEPT !.tried = @ + 1,
                             !.made = IF up THEN Append(@, "live") ELSE @]
    /\ UNCHANGED <<running, total, creating, idle, req, stop, io, up, faults>>

\* a plausible bug: reservations of failed creations are not returned
UnusedKept(pooled) == 0

Unused(pooled) == mt.need - pooled

PoolNew ==
    /\ mt.pc = "pool"
    /\ \E pooled \in 0 .. Len(mt.made) :
        /\ Push(pooled = Len(mt.made))
        /\ idle' = idle \o SubSeq(mt.made, 1, pooled)
        /\ total' = total - Unused(pooled)
    /\ req' = NotifyAll(req)
    /\ mt' = IF running THEN [Quiet EXCEPT !.pc = "take"] ELSE NextRound
    /\ UNCHANGED <<running, creating, stop, io, up>>

TakeForPing ==
    /\ mt.pc = "take"
    /\ LET n == IF Len(idle) < MaxCheck THEN Len(idle) ELSE MaxCheck IN
       /\ mt' = [mt EXCEPT !.pc = "ping", !.check = SubSeq(idle, 1, n)]
       /\ idle' = SubSeq(idle, n + 1, Len(idle))
    /\ UNCHANGED <<running, total, creating, req, stop, io, up, faults>>

\* A live connection goes back to the queue, without a notification.  When
\* shutdown is noticed the connections not yet pinged are freed.
Ping ==
    /\ mt.pc = "ping"
    /\ mt.check # <<>>
    /\ \/ /\ ~running
          /\ mt' = [mt EXCEPT !.check = <<>>, !.dead = @ + Len(mt.check)]
          /\ UNCHANGED <<idle, faults>>
       \/ /\ running
          /\ Head(mt.check) = "dead"
          /\ mt' = [mt EXCEPT !.check = Tail(@), !.dead = @ + 1]
          /\ UNCHANGED <<idle, faults>>
       \/ /\ running
          /\ Head(mt.check) = "live"
          /\ \E pooled \in BOOLEAN :
              /\ Push(pooled)
              /\ idle' = IF pooled THEN Append(idle, "live") ELSE idle
              /\ mt' = [mt EXCEPT !.check = Tail(@),
                                  !.dead = IF pooled THEN @ ELSE @ + 1]
    /\ UNCHANGED <<running, total, creating, req, stop, io, up>>

Settle ==
    /\ mt.pc = "ping"
    /\ mt.check = <<>>
    /\ total' = total - mt.dead
    /\ req' = IF mt.dead > 0 THEN NotifyAll(req) ELSE req
    /\ mt' = NextRound
    /\ UNCHANGED <<running, creating, idle, stop, io, up, faults>>

Maintain ==
    MaintainWakes \/ Recycle \/ Reserve \/ Fill \/ PoolNew \/ TakeForPing
        \/ Ping \/ Settle

-----------------------------------------------------------------------------
(* shutdown and shutdown_worker_mode.                                      *)

BeginShutdown ==
    /\ stop = "no"
    /\ running' = FALSE
    /\ stop' = "notify"
    /\ UNCHANGED <<total, creating, idle, req, mt, io, up, faults>>

NotifyStop ==
    /\ stop = "notify"
    /\ req' = NotifyAll(req)
    /\ stop' = "maintain"
    /\ UNCHANGED <<running, total, creating, idle, mt, io, up, faults>>

\* a plausible bug: the maintenance thread is not joined
JoinMaintainNot ==
    /\ stop = "maintain"
    /\ stop' = "workers"
    /\ UNCHANGED <<running, total, creating, idle, req, mt, io, up, faults>>

JoinMaintain ==
    /\ stop = "maintain"
    /\ mt.pc = "exited"
    /\ stop' = "workers"
    /\ UNCHANGED <<running, total, creating, idle, req, mt, io, up, faults>>

\* worker_pool_->join() returns when every posted coroutine has been handed on
JoinWorkers ==
    /\ stop = "workers"
    /\ \A r \in Requests : req[r].pc # "posted"
    /\ stop' = "free"
    /\ UNCHANGED <<running, total, creating, idle, req, mt, io, up, faults>>

FreeIdle ==
    /\ stop = "free"
    /\ idle' = <<>>
    /\ total' = 0
    /\ stop' = "done"
    /\ UNCHANGED <<running, creating, req, mt, io, up, faults>>

Shutdown ==
    BeginShutdown \/ NotifyStop \/ JoinMaintain \/ JoinWorkers \/ FreeIdle

-----------------------------------------------------------------------------
(* Application::run(): the io threads are joined when each is between two  *)
(* handlers, before cleanup() calls shutdown().                            *)

JoinIo ==
    /\ stop = "no" /\ io = "run"
    /\ Active = {}
    /\ io' = "joined"
    /\ UNCHANGED <<running, total, creating, idle, req, mt, stop, up, faults>>

-----------------------------------------------------------------------------
(* Redis stops, closing every connection, and comes back.                  *)

Outage ==
    /\ up
    /\ faults < MaxFaults
    /\ faults' = faults + 1
    /\ up' = FALSE
    /\ idle' = [i \in DOMAIN idle |-> "dead"]
    /\ req' = [r \in Requests |->
                IF req[r].conn = "live" THEN [req[r] EXCEPT !.conn = "dead"]
                                        ELSE req[r]]
    /\ mt' = [mt EXCEPT !.check = [i \in DOMAIN @ |-> "dead"],
                        !.made = [i \in DOMAIN @ |-> "dead"]]
    /\ UNCHANGED <<running, total, creating, stop, io>>

Recovery ==
    /\ ~up
    /\ up' = TRUE
    /\ UNCHANGED <<running, total, creating, idle, req, mt, stop, io, faults>>

-----------------------------------------------------------------------------
Command(r) ==
    \/ Submit(r) \/ Post(r) \/ Dispatch(r) \/ Resume(r)
    \/ AcquireWorker(r) \/ WaitTimeout(r) \/ CreateConnection(r) \/ CommandOk(r) \/ CommandBroken(r)

Next ==
    \/ \E r \in Requests : Command(r)
    \/ Maintain
    \/ Shutdown
    \/ JoinIo
    \/ Outage
    \/ Recovery

Spec == Init /\ [][Next]_vars

\* Threads run, a free io thread takes a resumed command, and a command that keeps
\* going back to wait meets its deadline: the deadline does not move.  Nobody is
\* obliged to begin the shutdown or to join the io threads.
FairSpec ==
    /\ Spec
    /\ \A r \in Requests :
          WF_vars(Command(r)) /\ SF_vars(Resume(r)) /\ SF_vars(WaitTimeout(r))
    /\ WF_vars(Maintain)
    /\ WF_vars(NotifyStop \/ JoinMaintain \/ JoinWorkers \/ FreeIdle)

-----------------------------------------------------------------------------
Holding == {r \in Requests : req[r].pc \in {"create", "use"}}

\* Every variable has its type.
TypeOK ==
    /\ running \in BOOLEAN /\ up \in BOOLEAN
    /\ total \in 0 .. SizeMax /\ creating \in 0 .. MaxCreating
    /\ idle \in Seq(Kinds)
    /\ \A r \in Requests :
          (req[r].pc = "use") <=> (req[r].conn \in Kinds)
    /\ Len(mt.made) <= mt.tried /\ mt.tried <= mt.need
    /\ io \in {"run", "joined"}

\* The slots in use: connections, whoever has them, and creations under way.
Used == Len(idle) + Cardinality(Holding) + mt.need + Len(mt.check) + mt.dead

\* Until shutdown() has zeroed it total_ counts the slots in use, which never exceed
\* max_size; creating_ counts the commands that are connecting.  Commands, the
\* maintenance thread and failures in between neither leak a slot nor return one
\* twice.
Accounting ==
    /\ creating = Cardinality({r \in Requests : req[r].pc = "create"})
    /\ Used <= MaxSize
    /\ stop # "done" => total = Used

\* When the io threads were joined before shutdown() was called, as Application
\* does, nothing is left once it returns: no connection in the queue, in a command
\* or with the maintenance thread, and nobody will put one back.
CleanStop ==
    stop = "done" /\ io = "joined" =>
        /\ idle = <<>> /\ total = 0
        /\ Holding = {}
        /\ mt = [Quiet EXCEPT !.pc = "exited"]

\* "Non-idempotent commands are NEVER auto-retried": such a command reaches
\* Redis at most once, whatever breaks.
WritesAtMostOnce == \A r \in Requests \ ReadOnly : req[r].sent <= 1

\* A command is answered when it is posted before the workers are joined, and when
\* it has been resumed, whatever breaks and with shutdown at any moment, unless the
\* io threads are joined first.  One that read running_ before shutdown() and is
\* posted after that join waits for ever.
CommandsReturn ==
    \A r \in Requests :
        (\/ req[r].pc = "posted" /\ stop \notin {"free", "done"}
         \/ req[r].pc \in {"resumed", "acquire", "waiting", "create", "use"})
            ~> (req[r].pc \in {"done", "failed"} \/ io = "joined")
=============================================================================
