----------------------------- MODULE MysqlPool -----------------------------
(***************************************************************************)
(* The MySQL connection pool of src/db/mysql_pool.hpp.                     *)
(*                                                                         *)
(* Three kinds of threads share one mutex mtx_ and one condition variable  *)
(* cv_: the io threads that run the queries, the maintain thread, and the  *)
(* thread that calls shutdown().  running_ is an atomic that shutdown()    *)
(* flips WITHOUT taking mtx_.                                              *)
(*                                                                         *)
(* execute() posts itself to worker_pool_, but a coroutine always resumes  *)
(* on its own executor: the worker only hands it back to the io threads,   *)
(* and one of those runs the blocking query.  Joining worker_pool_ is      *)
(* therefore no wait for queries that run.  Application joins the io       *)
(* threads before it calls shutdown(); a caller of the class need not, so  *)
(* both orders are behaviours here.                                        *)
(*                                                                         *)
(* A section of code under mtx_ is one action, enabled when mtx = Free.    *)
(* The one place where that would hide behaviour is the read of running_   *)
(* followed by a wait on cv_: there the thread keeps mtx between the two   *)
(* steps, so that shutdown() may run in between.                           *)
(*                                                                         *)
(* A thread is blocked on cv_ when its program counter is "waiting".       *)
(***************************************************************************)
EXTENDS Naturals, FiniteSets, Sequences, Functions

CONSTANTS
    Requests,       \* the calls of execute()
    Conn,           \* identities of MYSQL* handles
    MinSize,        \* Config::min_size
    MaxSize,        \* Config::max_size
    MaxCreating,    \* max_creating_limit_
    MaxCheck,       \* max_check of do_maintain() (4 in the code)
    IoThreads,      \* the threads that run the io_context
    SizeMax,        \* the largest size_t
    Free, Maintain, \* values of mtx: nobody, the maintain thread
    NoConn          \* nullptr

ASSUME RequestsAssumption == IsFiniteSet(Requests)
ASSUME SizesAssumption ==
    /\ MinSize \in Nat /\ MaxSize \in Nat \ {0} /\ MinSize <= MaxSize
    /\ MaxCreating \in 1..MaxSize
    /\ MaxCheck \in Nat \ {0} /\ IoThreads \in Nat \ {0}
    /\ SizeMax \in Nat /\ MaxSize <= SizeMax
ASSUME NamesAssumption ==
    /\ Free \notin Requests /\ Maintain \notin Requests /\ Free # Maintain
    /\ NoConn \notin Conn

VARIABLES
    running,        \* running_
    mtx,            \* holder of mtx_ between two steps, or Free
    idle,           \* idle_pool_, front first
    total,          \* total_
    creating,       \* creating_
    open,           \* handles connected and not yet passed to mysql_close()
    pc,             \* where each request is
    conn,           \* the handle each request owns
    retry,          \* the loop variable of acquire()
    mpc,            \* where the maintain thread is
    toClose,        \* to_close of phase 1
    need,           \* slots reserved by phase 2
    left,           \* iterations left in the creation loop of phase 2
    newConns,       \* new_conns of phase 2
    toCheck,        \* to_check of phase 3 not yet pinged
    dead,           \* dead_count of phase 3
    spc,            \* where shutdown() is
    io              \* the io threads: "run", or "joined"

poolVars == <<idle, total, creating, open>>
reqVars  == <<conn, retry>>
mntVars  == <<toClose, need, left, newConns, toCheck, dead>>
vars == <<running, mtx, poolVars, pc, reqVars, mpc, mntVars, spc, io>>

MaxRetries == 2

\* A request that still sits between two statements on an io thread.
Busy == {"posting", "acquire", "towait", "waiting", "woken", "reset", "create",
         "query", "closing"}
\* A request whose slot is counted in total_.
Holds == {"reset", "create", "query"}
Finished == {"done", "failed"}
RequestPCs == Busy \cup Finished \cup {"new", "queued", "resumed"}
MaintainPCs == {"top", "towait", "waiting", "phase1", "close1", "phase2",
                "create2", "phase3", "ping", "exited"}
ShutdownPCs == {"up", "notify", "joinMaintain", "joinWorkers", "close", "down"}

\* --total_, a size_t
Decremented(n) == IF n = 0 THEN SizeMax ELSE n - 1
Min2(a, b) == IF a < b THEN a ELSE b

-----------------------------------------------------------------------------
(* Condition variable: a notification moves a waiter to where it re-takes
   the mutex and evaluates its condition again. *)

Woken(f) == [r \in Requests |-> IF f[r] = "waiting" THEN "woken" ELSE f[r]]
MaintainWoken == IF mpc = "waiting" THEN "top" ELSE mpc

NotifyAll(f) == pc' = Woken(f) /\ mpc' = MaintainWoken

\* cv_ is shared, so the one thread woken may be the maintain thread.
NotifyOne(f) ==
    \/ \E r \in Requests : /\ f[r] = "waiting"
                           /\ pc' = [f EXCEPT ![r] = "woken"]
                           /\ mpc' = mpc
    \/ mpc = "waiting" /\ mpc' = "top" /\ pc' = f
    \/ /\ mpc # "waiting" /\ \A r \in Requests : f[r] # "waiting"
       /\ pc' = f /\ mpc' = mpc

-----------------------------------------------------------------------------
Init ==
    /\ running = TRUE /\ mtx = Free
    /\ idle \in UNION {[1..n -> Conn] : n \in 0..MinSize}
    /\ IsInjective(idle)
    /\ total = Len(idle) /\ creating = 0
    /\ open = Range(idle)
    /\ pc = [r \in Requests |-> "new"]
    /\ conn = [r \in Requests |-> NoConn]
    /\ retry = [r \in Requests |-> 0]
    /\ mpc = "top" /\ toClose = {} /\ need = 0 /\ left = 0
    /\ newConns = <<>> /\ toCheck = <<>> /\ dead = 0
    /\ spc = "up" /\ io = "run"

-----------------------------------------------------------------------------
(* execute(): the caller's coroutine, worker_pool_ and the coroutine again. *)

FreeThread == Cardinality({q \in Requests : pc[q] \in Busy}) < IoThreads

Execute(r) ==
    /\ pc[r] = "new" /\ io = "run" /\ FreeThread
    /\ pc' = [pc EXCEPT ![r] = IF running THEN "posting" ELSE "failed"]
    /\ UNCHANGED <<running, mtx, poolVars, reqVars, mpc, mntVars, spc, io>>

Post(r) ==
    /\ pc[r] = "posting"
    /\ pc' = [pc EXCEPT ![r] = "queued"]
    /\ UNCHANGED <<running, mtx, poolVars, reqVars, mpc, mntVars, spc, io>>

\* A worker takes the task and dispatches the coroutine to its own executor.  The
\* workers are gone once joined.
Dispatch(r) ==
    /\ pc[r] = "queued" /\ spc \notin {"close", "down"}
    /\ pc' = [pc EXCEPT ![r] = "resumed"]
    /\ UNCHANGED <<running, mtx, poolVars, reqVars, mpc, mntVars, spc, io>>

\* An io thread resumes the coroutine: running_ again, then do_query().
Resume(r) ==
    /\ pc[r] = "resumed" /\ io = "run" /\ FreeThread
    /\ pc' = [pc EXCEPT ![r] = IF running THEN "acquire" ELSE "failed"]
    /\ retry' = [retry EXCEPT ![r] = 0]
    /\ UNCHANGED <<running, mtx, poolVars, conn, mpc, mntVars, spc, io>>

-----------------------------------------------------------------------------
(* acquire() *)

Scanning(r) == pc[r] \in {"acquire", "woken"} /\ mtx = Free
\* Variant: one too many.
MayCreateLax == total <= MaxSize /\ creating < MaxCreating

MayCreate == total < MaxSize /\ creating < MaxCreating

AcquireStopped(r) ==
    /\ Scanning(r) /\ ~running
    /\ pc' = [pc EXCEPT ![r] = "failed"]
    /\ UNCHANGED <<running, mtx, poolVars, reqVars, mpc, mntVars, spc, io>>

\* Variant: the handle stays in the idle list.
AcquireIdleNoPop(r) ==
    /\ Scanning(r) /\ running /\ idle # <<>>
    /\ conn' = [conn EXCEPT ![r] = idle[Len(idle)]]
    /\ pc' = [pc EXCEPT ![r] = "reset"]
    /\ UNCHANGED <<running, mtx, poolVars, retry, mpc, mntVars, spc, io>>

AcquireIdle(r) ==
    /\ Scanning(r) /\ running /\ idle # <<>>
    /\ conn' = [conn EXCEPT ![r] = idle[Len(idle)]]
    /\ idle' = SubSeq(idle, 1, Len(idle) - 1)
    /\ pc' = [pc EXCEPT ![r] = "reset"]
    /\ UNCHANGED <<running, mtx, total, creating, open, retry, mpc, mntVars, spc, io>>

AcquireReserve(r) ==
    /\ Scanning(r) /\ running /\ idle = <<>> /\ MayCreate
    /\ total' = total + 1 /\ creating' = creating + 1
    /\ pc' = [pc EXCEPT ![r] = "create"]
    /\ UNCHANGED <<running, mtx, idle, open, reqVars, mpc, mntVars, spc, io>>

AcquireMustWait(r) ==
    /\ Scanning(r) /\ running /\ idle = <<>> /\ ~MayCreate
    /\ mtx' = r
    /\ pc' = [pc EXCEPT ![r] = "towait"]
    /\ UNCHANGED <<running, poolVars, reqVars, mpc, mntVars, spc, io>>

AcquireWait(r) ==
    /\ pc[r] = "towait"
    /\ mtx' = Free
    /\ pc' = [pc EXCEPT ![r] = "waiting"]
    /\ UNCHANGED <<running, poolVars, reqVars, mpc, mntVars, spc, io>>

\* wait_until() reports a timeout by the clock, also to a thread that was
\* notified and got the mutex back after its deadline.
AcquireTimeout(r) ==
    /\ pc[r] \in {"waiting", "woken"} /\ mtx = Free
    /\ pc' = [pc EXCEPT ![r] = "failed"]
    /\ UNCHANGED <<running, mtx, poolVars, reqVars, mpc, mntVars, spc, io>>

\* Variants: one retry too many; retries that are not counted.
NextRetryLax(r) ==
    /\ retry' = [retry EXCEPT ![r] = @ + 1]
    /\ NotifyAll([pc EXCEPT ![r] =
                    IF retry[r] + 1 <= MaxRetries THEN "acquire" ELSE "failed"])

NextRetryUncounted(r) ==
    /\ retry' = retry
    /\ NotifyAll([pc EXCEPT ![r] = "acquire"])

\* continue of the retry loop
NextRetry(r) ==
    /\ retry' = [retry EXCEPT ![r] = @ + 1]
    /\ NotifyAll([pc EXCEPT ![r] =
                    IF retry[r] + 1 < MaxRetries THEN "acquire" ELSE "failed"])

ResetOk(r) ==
    /\ pc[r] = "reset"
    /\ pc' = [pc EXCEPT ![r] = "query"]
    /\ UNCHANGED <<running, mtx, poolVars, reqVars, mpc, mntVars, spc, io>>

\* drop_bad_connection(): close the handle, give the slot back, notify all.
Drop(r) ==
    /\ mtx = Free
    /\ open' = open \ {conn[r]}
    /\ conn' = [conn EXCEPT ![r] = NoConn]
    /\ total' = Decremented(total)

ResetFail(r) ==
    /\ pc[r] = "reset"
    /\ Drop(r)
    /\ NextRetry(r)
    /\ UNCHANGED <<running, mtx, idle, creating, mntVars, spc, io>>

CreateOk(r) ==
    /\ pc[r] = "create" /\ mtx = Free
    /\ \E c \in Conn \ open : /\ open' = open \cup {c}
                              /\ conn' = [conn EXCEPT ![r] = c]
    /\ creating' = creating - 1
    /\ pc' = [pc EXCEPT ![r] = "query"]
    /\ UNCHANGED <<running, mtx, idle, total, retry, mpc, mntVars, spc, io>>

CreateFail(r) ==
    /\ pc[r] = "create" /\ mtx = Free
    /\ creating' = creating - 1 /\ total' = Decremented(total)
    /\ NextRetry(r)
    /\ UNCHANGED <<running, mtx, idle, open, conn, mntVars, spc, io>>

-----------------------------------------------------------------------------
(* do_query() and ~ConnectionGuard() *)

\* The query ended, with a result or an SQL error: the handle goes back.
Release(r) ==
    /\ pc[r] = "query" /\ mtx = Free
    /\ idle' = Append(idle, conn[r])
    /\ conn' = [conn EXCEPT ![r] = NoConn]
    /\ NotifyOne([pc EXCEPT ![r] = "done"])
    /\ UNCHANGED <<running, mtx, total, creating, open, retry, mntVars, spc, io>>

\* The idle deque cannot grow: the slot is given back before the handle is
\* closed.
ReleaseNoMemory(r) ==
    /\ pc[r] = "query" /\ mtx = Free
    /\ total' = IF total > 0 THEN total - 1 ELSE total
    /\ pc' = [pc EXCEPT ![r] = "closing"]
    /\ UNCHANGED <<running, mtx, idle, creating, open, reqVars, mpc, mntVars, spc, io>>

CloseUnpooled(r) ==
    /\ pc[r] = "closing"
    /\ open' = open \ {conn[r]}
    /\ conn' = [conn EXCEPT ![r] = NoConn]
    /\ NotifyOne([pc EXCEPT ![r] = "done"])
    /\ UNCHANGED <<running, mtx, idle, total, creating, retry, mntVars, spc, io>>

\* A connection error: mark_bad(), so the guard drops the handle.
QueryConnectionError(r) ==
    /\ pc[r] = "query"
    /\ Drop(r)
    /\ NotifyAll([pc EXCEPT ![r] = "done"])
    /\ UNCHANGED <<running, mtx, idle, creating, retry, mntVars, spc, io>>

-----------------------------------------------------------------------------
(* maintain_loop() and do_maintain() *)

\* The wait's predicate is !running_; a notified thread evaluates it again.
MaintainTop ==
    /\ mpc = "top" /\ mtx = Free
    /\ IF running THEN mpc' = "towait" /\ mtx' = Maintain
                  ELSE mpc' = "exited" /\ mtx' = mtx
    /\ UNCHANGED <<running, poolVars, pc, reqVars, mntVars, spc, io>>

MaintainWait ==
    /\ mpc = "towait"
    /\ mpc' = "waiting" /\ mtx' = Free
    /\ UNCHANGED <<running, poolVars, pc, reqVars, mntVars, spc, io>>

\* Variant: cv_.wait() in place of cv_.wait_for().
MaintainNeverTicks == mpc = "waiting" /\ FALSE /\ UNCHANGED vars

\* keepalive_sec elapsed
MaintainTick ==
    /\ mpc = "waiting" /\ mtx = Free
    /\ mpc' = IF running THEN "phase1" ELSE "exited"
    /\ UNCHANGED <<running, mtx, poolVars, pc, reqVars, mntVars, spc, io>>

\* The n oldest idle handles are past max_idle_sec.
Phase1 ==
    /\ mpc = "phase1" /\ mtx = Free
    /\ \E n \in 0..Len(idle) :
        /\ n > 0 => total - n >= MinSize
        /\ toClose' = Range(SubSeq(idle, 1, n))
        /\ idle' = SubSeq(idle, n + 1, Len(idle))
        /\ total' = total - n
    /\ pc' = Woken(pc) /\ mpc' = "close1"
    /\ UNCHANGED <<running, mtx, creating, open, reqVars, need, left, newConns,
                   toCheck, dead, spc, io>>

CloseStale ==
    /\ mpc = "close1"
    /\ open' = open \ toClose /\ toClose' = {}
    /\ mpc' = IF running THEN "phase2" ELSE "top"
    /\ UNCHANGED <<running, mtx, idle, total, creating, pc, reqVars, need, left,
                   newConns, toCheck, dead, spc, io>>

\* Variant: the headroom below max_size is not considered.
Phase2NoHeadroom ==
    /\ mpc = "phase2" /\ mtx = Free
    /\ need' = IF Len(idle) < MinSize THEN MinSize - Len(idle) ELSE 0
    /\ total' = total + need' /\ left' = need'
    /\ mpc' = "create2"
    /\ UNCHANGED <<running, mtx, idle, creating, open, pc, reqVars, toClose,
                   newConns, toCheck, dead, spc, io>>

Phase2 ==
    /\ mpc = "phase2" /\ mtx = Free
    /\ need' = IF Len(idle) < MinSize
               THEN Min2(MinSize - Len(idle),
                         IF total > MaxSize THEN 0 ELSE MaxSize - total)
               ELSE 0
    /\ total' = total + need' /\ left' = need'
    /\ mpc' = "create2"
    /\ UNCHANGED <<running, mtx, idle, creating, open, pc, reqVars, toClose,
                   newConns, toCheck, dead, spc, io>>

RefillCreate ==
    /\ mpc = "create2" /\ left > 0 /\ running
    /\ left' = left - 1
    /\ \/ \E c \in Conn \ open : open' = open \cup {c}
                                 /\ newConns' = Append(newConns, c)
       \/ UNCHANGED <<open, newConns>>
    /\ UNCHANGED <<running, mtx, idle, total, creating, pc, reqVars, mpc, toClose,
                   need, toCheck, dead, spc, io>>

RefillPublish ==
    /\ mpc = "create2" /\ mtx = Free /\ (left = 0 \/ ~running)
    /\ total' = total - (need - Len(newConns))
    /\ idle' = idle \o newConns
    /\ need' = 0 /\ left' = 0 /\ newConns' = <<>>
    /\ pc' = Woken(pc)
    /\ mpc' = IF running THEN "phase3" ELSE "top"
    /\ UNCHANGED <<running, mtx, creating, open, reqVars, toClose, toCheck, dead, spc, io>>

Phase3 ==
    /\ mpc = "phase3" /\ mtx = Free
    /\ LET n == Min2(Len(idle), MaxCheck)
       IN  /\ toCheck' = SubSeq(idle, 1, n)
           /\ idle' = SubSeq(idle, n + 1, Len(idle))
    /\ mpc' = "ping"
    /\ UNCHANGED <<running, mtx, total, creating, open, pc, reqVars, toClose, need,
                   left, newConns, dead, spc, io>>

\* The handle is put back without a notification.
PingAlive ==
    /\ mpc = "ping" /\ toCheck # <<>> /\ running /\ mtx = Free
    /\ idle' = Append(idle, Head(toCheck)) /\ toCheck' = Tail(toCheck)
    /\ UNCHANGED <<running, mtx, total, creating, open, pc, reqVars, mpc, toClose,
                   need, left, newConns, dead, spc, io>>

PingDead ==
    /\ mpc = "ping" /\ toCheck # <<>> /\ running
    /\ open' = open \ {Head(toCheck)} /\ toCheck' = Tail(toCheck)
    /\ dead' = dead + 1
    /\ UNCHANGED <<running, mtx, idle, total, creating, pc, reqVars, mpc, toClose,
                   need, left, newConns, spc, io>>

\* Variant: only the handles found dead give their slots back.
PingEndDeadOnly ==
    /\ mpc = "ping" /\ mtx = Free /\ (toCheck = <<>> \/ ~running)
    /\ open' = open \ Range(toCheck)
    /\ total' = total - dead
    /\ pc' = IF dead > 0 THEN Woken(pc) ELSE pc
    /\ toCheck' = <<>> /\ dead' = 0 /\ mpc' = "top"
    /\ UNCHANGED <<running, mtx, idle, creating, reqVars, toClose, need, left,
                   newConns, spc, io>>

\* After shutdown the handles not yet pinged are closed.
PingEnd ==
    /\ mpc = "ping" /\ mtx = Free /\ (toCheck = <<>> \/ ~running)
    /\ open' = open \ Range(toCheck)
    /\ total' = total - (dead + Len(toCheck))
    /\ pc' = IF dead + Len(toCheck) > 0 THEN Woken(pc) ELSE pc
    /\ toCheck' = <<>> /\ dead' = 0 /\ mpc' = "top"
    /\ UNCHANGED <<running, mtx, idle, creating, reqVars, toClose, need, left,
                   newConns, spc, io>>

-----------------------------------------------------------------------------
(* shutdown(): neither the store to running_ nor the notification takes mtx_. *)

ShutdownFlag ==
    /\ spc = "up" /\ spc' = "notify" /\ running' = FALSE
    /\ UNCHANGED <<mtx, poolVars, pc, reqVars, mpc, mntVars, io>>

ShutdownNotify ==
    /\ spc = "notify" /\ spc' = "joinMaintain"
    /\ NotifyAll(pc)
    /\ UNCHANGED <<running, mtx, poolVars, reqVars, mntVars, io>>

\* Variant: the maintain thread is not joined.
JoinMaintainNot ==
    /\ spc = "joinMaintain" /\ spc' = "joinWorkers"
    /\ UNCHANGED <<running, mtx, poolVars, pc, reqVars, mpc, mntVars, io>>

JoinMaintain ==
    /\ spc = "joinMaintain" /\ mpc = "exited" /\ spc' = "joinWorkers"
    /\ UNCHANGED <<running, mtx, poolVars, pc, reqVars, mpc, mntVars, io>>

\* thread_pool::join() returns when the posted tasks have been handed on.
JoinWorkers ==
    /\ spc = "joinWorkers" /\ spc' = "close"
    /\ \A r \in Requests : pc[r] # "queued"
    /\ UNCHANGED <<running, mtx, poolVars, pc, reqVars, mpc, mntVars, io>>

CloseAll ==
    /\ spc = "close" /\ mtx = Free /\ spc' = "down"
    /\ open' = open \ Range(idle) /\ idle' = <<>> /\ total' = 0
    /\ UNCHANGED <<running, mtx, creating, pc, reqVars, mpc, mntVars, io>>

-----------------------------------------------------------------------------
(* Application::run(): the io threads are joined when each is between two handlers,
   before cleanup() calls shutdown(). *)

JoinIo ==
    /\ spc = "up" /\ io = "run"
    /\ \A r \in Requests : pc[r] \notin Busy
    /\ io' = "joined"
    /\ UNCHANGED <<running, mtx, poolVars, pc, reqVars, mpc, mntVars, spc>>

-----------------------------------------------------------------------------
QueryStep(r) ==
    \/ Resume(r) \/ AcquireStopped(r) \/ AcquireIdle(r) \/ AcquireReserve(r)
    \/ AcquireMustWait(r) \/ AcquireWait(r) \/ AcquireTimeout(r)
    \/ ResetOk(r) \/ ResetFail(r) \/ CreateOk(r) \/ CreateFail(r)
    \/ Release(r) \/ ReleaseNoMemory(r) \/ CloseUnpooled(r)
    \/ QueryConnectionError(r)

MaintainStep ==
    \/ MaintainTop \/ MaintainWait \/ MaintainTick
    \/ Phase1 \/ CloseStale \/ Phase2 \/ RefillCreate \/ RefillPublish
    \/ Phase3 \/ PingAlive \/ PingDead \/ PingEnd

ShutdownStep ==
    \/ ShutdownFlag \/ ShutdownNotify \/ JoinMaintain \/ JoinWorkers \/ CloseAll

Next ==
    \/ \E r \in Requests : Execute(r) \/ Post(r) \/ Dispatch(r) \/ QueryStep(r)
    \/ MaintainStep
    \/ ShutdownStep
    \/ JoinIo

Spec == Init /\ [][Next]_vars

(* Every thread is scheduled and mtx_ starves no io thread (hence SF); every network
   operation and every timed wait ends, because each of them has a timeout in the
   code.  The deadline of acquire() is absolute: a request that keeps going back to
   sleep reaches it.  Nobody is obliged to call execute(), to start shutdown() or to
   join the io threads. *)
Fairness ==
    /\ \A r \in Requests : /\ WF_vars(Post(r)) /\ WF_vars(Dispatch(r))
                           /\ SF_vars(QueryStep(r)) /\ SF_vars(AcquireTimeout(r))
    /\ WF_vars(MaintainStep)
    /\ WF_vars(ShutdownNotify \/ JoinMaintain \/ JoinWorkers \/ CloseAll)

FairSpec == Spec /\ Fairness

-----------------------------------------------------------------------------
(* Properties *)

\* The types of the pool's fields and of the threads' local variables.
TypeOK ==
    /\ running \in BOOLEAN
    /\ mtx \in Requests \cup {Free, Maintain}
    /\ idle \in Seq(Conn) /\ newConns \in Seq(Conn) /\ toCheck \in Seq(Conn)
    /\ total \in 0..SizeMax /\ creating \in Nat
    /\ open \subseteq Conn /\ toClose \subseteq Conn
    /\ pc \in [Requests -> RequestPCs]
    /\ conn \in [Requests -> Conn \cup {NoConn}]
    /\ retry \in [Requests -> 0..MaxRetries]
    /\ mpc \in MaintainPCs /\ spc \in ShutdownPCs /\ io \in {"run", "joined"}
    /\ need \in Nat /\ left \in Nat /\ dead \in Nat

Holders == {r \in Requests : pc[r] \in Holds}
Creators == {r \in Requests : pc[r] = "create"}

\* The slots in use, whoever has them at the moment: the idle deque, a request, the
\* refill of phase 2 or the pings of phase 3.
Used == Len(idle) + Cardinality(Holders) + need + Len(toCheck) + dead

\* Until shutdown() has zeroed it, total_ is the number of slots in use; creating_
\* is always the number of requests that are connecting.  A slot lost on any error
\* path of acquire(), release() or do_maintain() would shrink the pool for good, a
\* slot returned twice would wrap total_ around.
Accounting ==
    /\ spc # "down" => total = Used
    /\ creating = Cardinality(Creators)

\* max_size bounds the slots in use and max_creating_limit_ bounds creating_,
\* although acquire() and phase 2 reserve slots concurrently, and although a query
\* that outlives shutdown() finds a total_ that counts it no more.
Limits == Used <= MaxSize /\ creating <= MaxCreating

Owners(c) ==
    {<<"idle", i>> : i \in {i \in DOMAIN idle : idle[i] = c}} \cup
    {<<"new", i>> : i \in {i \in DOMAIN newConns : newConns[i] = c}} \cup
    {<<"check", i>> : i \in {i \in DOMAIN toCheck : toCheck[i] = c}} \cup
    {<<"close", 0>> : d \in {d \in toClose : d = c}} \cup
    {<<"request", r>> : r \in {r \in Requests : conn[r] = c}}

\* An open handle has exactly one owner and a closed one has none: no two threads
\* use one MYSQL*, none uses it after mysql_close(), and none is leaked.
Ownership == \A c \in Conn : Cardinality(Owners(c)) = IF c \in open THEN 1 ELSE 0

\* The sockets open at the server exceed max_size by at most the handles whose
\* slot phase 1 or release() has already given back and that are being closed.
SocketBound ==
    Cardinality(open) <= MaxSize + Cardinality(toClose)
                           + Cardinality({r \in Requests : pc[r] = "closing"})

\* When the io threads were joined before shutdown() was called, as Application
\* does, every handle is closed and every count is zero once it returns, wherever
\* the maintain thread was when it was called.
CleanStop == spc = "down" /\ io = "joined" => open = {} /\ total = 0 /\ creating = 0

\* shutdown() returns.
ShutdownReturns == spc = "notify" ~> spc = "down"

\* A query is answered when it is posted before the workers are joined, and when it
\* has been resumed, unless the io threads are joined first.
QueriesReturn ==
    \A r \in Requests :
        (\/ pc[r] = "queued" /\ spc \notin {"close", "down"}
         \/ pc[r] = "resumed" \/ pc[r] \in Busy \ {"posting"})
            ~> (pc[r] \in Finished \/ io = "joined")

\* "use cv_.wait_for instead of sleep_for, shutdown triggers immediate wake via
\* cv_.notify_all": once shutdown() has notified, the maintain thread does not
\* sleep on cv_.
ShutdownWakesMaintain ==
    spc \in {"joinMaintain", "joinWorkers", "close", "down"} => mpc # "waiting"
=============================================================================
