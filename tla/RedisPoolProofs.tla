--------------------------- MODULE RedisPoolProofs ---------------------------
(***************************************************************************)
(* Proofs about RedisPool for every number of commands, io threads and     *)
(* faults and every size of the pool.                                      *)
(***************************************************************************)
EXTENDS RedisPool, Counting, FiniteSetTheorems, TLAPS

-----------------------------------------------------------------------------
(* Sizes of finite sets *)

\* What adding or removing at most one element does to the size of a set.
LEMMA OneElement ==
    ASSUME NEW A, NEW B, NEW s, IsFiniteSet(A), A \ {s} = B \ {s}
    PROVE  /\ Cardinality(A) \in Nat /\ Cardinality(B) \in Nat
           /\ Cardinality(B) = Cardinality(A) + In(s, B) - In(s, A)
           /\ s \in A => Cardinality(A) > 0
           /\ IsFiniteSet(B)
<1>0. IsFiniteSet(B)
  <2>1. IsFiniteSet(A \cup {s}) /\ B \in SUBSET (A \cup {s})
    BY FS_AddElement
  <2> QED BY <2>1, FS_Subset
<1>1. Cardinality(A) \in Nat
  BY FS_CardinalityType
<1>2. s \in A => Cardinality(A) > 0
  BY <1>1, FS_EmptySet
<1>3. CASE s \in A <=> s \in B
  <2>1. A = B
    BY <1>3
  <2> QED BY <1>0, <1>1, <1>2, <2>1 DEF In
<1>4. CASE s \notin A /\ s \in B
  <2>1. B = A \cup {s}
    BY <1>4
  <2>2. Cardinality(B) = Cardinality(A) + 1
    BY <2>1, <1>4, FS_AddElement
  <2> QED BY <1>0, <1>1, <1>4, <2>2 DEF In
<1>5. CASE s \in A /\ s \notin B
  <2>1. B = A \ {s}
    BY <1>5
  <2>2. Cardinality(B) = Cardinality(A) - 1
    BY <2>1, <1>5, FS_RemoveElement
  <2> QED BY <1>0, <1>1, <1>2, <1>5, <2>2 DEF In
<1> QED BY <1>3, <1>4, <1>5

\* The elements of an interval that starts at zero are natural numbers.
LEMMA Within == \A n \in Nat : \A k \in 0 .. n : k \in Nat
  BY SMT

\* The connections that are kept, in four parts
LEMMA FourParts ==
    \A a, b, c, d \in Nat :
        /\ a + b + c + d \in Nat /\ 0 + b + c + d \in Nat
        /\ 0 + b + c + d <= a + b + c + d
        /\ a + 0 + 0 + 0 = a /\ a + 0 + 0 + d = a + d
  BY SMT

USE ZenonT(30)

-----------------------------------------------------------------------------
(* The inductive invariant *)

Finished == {"done", "failed"}
Holds == {"create", "use"}
OnThread == {"posting", "acquire", "waiting"} \cup Holds
CommandPCs == {"new", "posted", "resumed"} \cup OnThread \cup Finished
Commands == [pc : CommandPCs, attempt : 0 .. 1, retry : 0 .. 1,
             conn : Kinds \cup {NoConn}, sent : Nat]

MaintainPCs == {"wait", "recycle", "need", "fill", "pool", "take", "ping", "exited"}
Maintainers == [pc : MaintainPCs, need : Nat, tried : Nat, made : Seq(Kinds),
                check : Seq(Kinds), dead : Nat]

\* A command q of request r has a connection exactly while it uses one, and
\* has been sent at most once per attempt that is over.
CommandOf(r, q) ==
    /\ q.pc = "use" <=> q.conn \in Kinds
    /\ q.pc \notin Finished => q.sent <= q.attempt /\ q.attempt < MaxAttempts(r)
    /\ q.pc \in Finished => q.sent <= MaxAttempts(r)

CommandInv ==
    /\ req \in [Requests -> Commands]
    /\ \A r \in Requests : CommandOf(r, req[r])

\* The reservations and the connections of the maintenance thread exist only
\* in the phases that use them.
MaintainInv ==
    /\ mt \in Maintainers
    /\ Len(mt.made) <= mt.tried /\ mt.tried <= mt.need
    /\ mt.pc \notin {"fill", "pool"} => mt.need = 0
    /\ mt.pc # "ping" => mt.check = <<>> /\ mt.dead = 0

At(f, S) == {r \in Requests : f[r].pc \in S}

\* Connections that no command holds, and reservations
Kept == Len(idle) + mt.need + Len(mt.check) + mt.dead

\* shutdown() zeroes total_ under a command that still runs.
CountInv ==
    /\ idle \in Seq(Kinds) /\ total \in 0 .. SizeMax
    /\ stop # "done" => total = Kept + Cardinality(At(req, Holds))
    /\ Kept + Cardinality(At(req, Holds)) <= MaxSize
    /\ creating = Cardinality(At(req, {"create"})) /\ creating <= MaxCreating

\* What shutdown, and Application before it, has waited for
JoinInv ==
    /\ running \in BOOLEAN /\ up \in BOOLEAN
    /\ stop \in {"no", "notify", "maintain", "workers", "free", "done"}
    /\ stop # "no" => running = FALSE
    /\ stop \in {"workers", "free", "done"} => mt.pc = "exited"
    /\ io \in {"run", "joined"}
    /\ io = "joined" => \A r \in Requests : req[r].pc \notin OnThread
    /\ stop = "done" /\ io = "joined" => idle = <<>> /\ total = 0

PoolInv == CommandInv /\ MaintainInv /\ CountInv /\ JoinInv

-----------------------------------------------------------------------------
(* Counting *)

LEMMA CountsTyped ==
    \A f, S : IsFiniteSet(At(f, S)) /\ Cardinality(At(f, S)) \in Nat
<1> SUFFICES ASSUME NEW f, NEW S
             PROVE  IsFiniteSet(At(f, S)) /\ Cardinality(At(f, S)) \in Nat
  OBVIOUS
<1>1. IsFiniteSet(At(f, S))
  BY PoolAssumption, FS_Subset DEF At
<1> QED BY <1>1, FS_CardinalityType

LEMMA KeptTyped ==
    ASSUME MaintainInv, idle \in Seq(Kinds)
    PROVE  /\ Kept \in Nat /\ Len(idle) \in Nat /\ mt.need \in Nat
           /\ Len(mt.check) \in Nat /\ mt.dead \in Nat /\ Len(mt.made) \in Nat
<1>1. /\ mt.need \in Nat /\ mt.check \in Seq(Kinds) /\ mt.dead \in Nat
      /\ mt.made \in Seq(Kinds)
  BY DEF MaintainInv, Maintainers
<1>2. Len(idle) \in Nat /\ Len(mt.check) \in Nat /\ Len(mt.made) \in Nat
  BY <1>1, SMT
<1> QED BY <1>1, <1>2, SMT DEF Kept

\* A request at q is woken by a notification at most: then it acquires again.
Woken(q, w) == w = q \/ (q.pc = "waiting" /\ w = [q EXCEPT !.pc = "acquire"])

\* The step gives the command of r the new state x and at most wakes others.
Moves(r, x) ==
    /\ req' \in [Requests -> Commands]
    /\ req'[r] = x
    /\ \A q \in Requests \ {r} : Woken(req[q], req'[q])

\* The step at most wakes commands.
Wakes ==
    /\ req' \in [Requests -> Commands]
    /\ \A q \in Requests : Woken(req[q], req'[q])

\* A woken command holds what it held, nothing.
LEMMA WokenFacts ==
    ASSUME NEW q \in Commands, NEW w, Woken(q, w)
    PROVE  /\ q.pc \in Holds <=> w.pc \in Holds
           /\ q.pc \in {"create"} <=> w.pc \in {"create"}
           /\ q.pc \notin OnThread => w = q
           /\ \A r : CommandOf(r, q) => CommandOf(r, w)
<1>1. CASE w = q
  BY <1>1
<1>2. CASE q.pc = "waiting" /\ w = [q EXCEPT !.pc = "acquire"]
  <2>1. /\ w.pc = "acquire" /\ w.conn = q.conn /\ w.sent = q.sent
        /\ w.attempt = q.attempt
    BY <1>2 DEF Commands
  <2> QED BY <1>2, <2>1 DEF Holds, OnThread, Finished, CommandOf
<1> QED BY <1>1, <1>2 DEF Woken

\* The counts after the command of r has changed.
LEMMA MoveCounts ==
    ASSUME CommandInv, NEW r \in Requests, NEW x, Moves(r, x)
    PROVE  /\ Cardinality(At(req', Holds)) = Cardinality(At(req, Holds))
                                             + In(x.pc, Holds) - In(req[r].pc, Holds)
           /\ Cardinality(At(req', {"create"})) = Cardinality(At(req, {"create"}))
                              + In(x.pc, {"create"}) - In(req[r].pc, {"create"})
<1>1. \A q \in Requests : req[q] \in Commands
  BY DEF CommandInv
<1>2. /\ \A q \in Requests \ {r} : req[q].pc \in Holds <=> req'[q].pc \in Holds
      /\ \A q \in Requests \ {r} : req[q].pc \in {"create"} <=> req'[q].pc \in {"create"}
  BY <1>1, WokenFacts DEF Moves
<1>3. ASSUME NEW S, \A q \in Requests \ {r} : req[q].pc \in S <=> req'[q].pc \in S
      PROVE  Cardinality(At(req', S)) = Cardinality(At(req, S)) + In(x.pc, S)
                                        - In(req[r].pc, S)
  <2>1. /\ At(req, S) \ {r} = At(req', S) \ {r}
        /\ In(r, At(req', S)) = In(x.pc, S)
        /\ In(r, At(req, S)) = In(req[r].pc, S)
    BY <1>3 DEF At, In, Moves
  <2> QED BY <2>1, CountsTyped, OneElement, SMT
<1> QED BY <1>2, <1>3

LEMMA WakeCounts ==
    ASSUME CommandInv, Wakes
    PROVE  /\ At(req', Holds) = At(req, Holds)
           /\ At(req', {"create"}) = At(req, {"create"})
<1>1. \A q \in Requests : req[q] \in Commands
  BY DEF CommandInv
<1>2. /\ \A q \in Requests : req[q].pc \in Holds <=> req'[q].pc \in Holds
      /\ \A q \in Requests : req[q].pc \in {"create"} <=> req'[q].pc \in {"create"}
  BY <1>1, WokenFacts DEF Wakes
<1> QED BY <1>2 DEF At

-----------------------------------------------------------------------------
(* Steps of a command *)

\* A notification after the command of r has got the state x
LEMMA NotifyMoves ==
    ASSUME CommandInv, NEW r \in Requests, NEW x \in Commands,
           \/ req' = [req EXCEPT ![r] = x]
           \/ x.pc # "waiting" /\ req' = NotifyAll([req EXCEPT ![r] = x])
           \/ req[r].pc # "waiting" /\ req' \in NotifyOne([req EXCEPT ![r] = x])
    PROVE  Moves(r, x)
<1> DEFINE f == [req EXCEPT ![r] = x]
<1>1. /\ f \in [Requests -> Commands] /\ f[r] = x
      /\ \A q \in Requests \ {r} : f[q] = req[q]
  BY DEF CommandInv
<1>2. \A q \in Commands : [q EXCEPT !.pc = "acquire"] \in Commands
  BY DEF Commands, CommandPCs, OnThread
<1> HIDE DEF f
<1>3. CASE req' = f
  BY <1>1, <1>3 DEF Moves, Woken
<1>4. CASE x.pc # "waiting" /\ req' = NotifyAll(f)
  <2>1. \A q \in Requests : req'[q] = IF f[q].pc = "waiting"
                                      THEN [f[q] EXCEPT !.pc = "acquire"] ELSE f[q]
    BY <1>4 DEF NotifyAll
  <2>2. req' \in [Requests -> Commands]
    BY <1>1, <1>2, <1>4 DEF NotifyAll
  <2> QED BY <1>1, <1>4, <2>1, <2>2 DEF Moves, Woken
<1>5. CASE req[r].pc # "waiting" /\ req' \in NotifyOne(f)
  <2>1. CASE req' = f
    BY <1>1, <2>1 DEF Moves, Woken
  <2>2. CASE \E w \in Waiters : req' = [f EXCEPT ![w].pc = "acquire"]
    <3>1. PICK w \in Waiters : req' = [f EXCEPT ![w].pc = "acquire"]
      BY <2>2
    <3>2. w \in Requests \ {r} /\ req[w].pc = "waiting"
      BY <1>5 DEF Waiters
    <3>3. req' = [f EXCEPT ![w] = [f[w] EXCEPT !.pc = "acquire"]]
      BY <3>1
    <3>4. /\ req' \in [Requests -> Commands] /\ req'[r] = x
          /\ req'[w] = [req[w] EXCEPT !.pc = "acquire"]
          /\ \A q \in Requests \ {r, w} : req'[q] = req[q]
      BY <1>1, <1>2, <3>2, <3>3
    <3> QED BY <3>2, <3>4 DEF Moves, Woken
  <2> QED BY <1>5, <2>1, <2>2 DEF NotifyOne
<1> QED BY <1>3, <1>4, <1>5 DEF f

\* The command of r gets the state x, and the counters change by what it
\* takes, gives back or puts into the queue.  Once shutdown() has zeroed
\* total_ a command takes nothing, and what it gives back is not counted.
Balanced(r, x) ==
    /\ Moves(r, x) /\ CommandOf(r, x)
    /\ UNCHANGED <<running, mt, stop, io, up>>
    /\ idle' \in Seq(Kinds) /\ total' \in 0 .. SizeMax
    /\ stop # "done" =>
          /\ total' = total + Len(idle') - Len(idle) + In(x.pc, Holds) - In(req[r].pc, Holds)
          /\ total' <= MaxSize
    /\ stop = "done" =>
          Len(idle') + In(x.pc, Holds) <= Len(idle) + In(req[r].pc, Holds)
    /\ creating' = creating + In(x.pc, {"create"}) - In(req[r].pc, {"create"})
    /\ creating' <= MaxCreating
    /\ io = "joined" => x.pc \notin OnThread /\ UNCHANGED <<total, idle>>

LEMMA BalancedStep ==
    ASSUME PoolInv, NEW r \in Requests, NEW x, Balanced(r, x)
    PROVE  PoolInv'
<1>1. CommandInv /\ MaintainInv /\ CountInv /\ JoinInv /\ Moves(r, x) /\ mt' = mt
  BY DEF PoolInv, Balanced
<1>2. CommandInv'
  <2>1. \A q \in Requests : req[q] \in Commands /\ CommandOf(q, req[q])
    BY <1>1 DEF CommandInv
  <2>2. \A q \in Requests \ {r} : CommandOf(q, req'[q])
    BY <1>1, <2>1, WokenFacts DEF Moves
  <2>3. req'[r] = x /\ CommandOf(r, x) /\ req' \in [Requests -> Commands]
    BY DEF Balanced, Moves
  <2>4. \A q \in Requests : CommandOf(q, req'[q])
    BY <2>2, <2>3
  <2> QED BY <2>3, <2>4 DEF CommandInv, CommandOf, MaxAttempts
<1>3. MaintainInv'
  BY <1>1 DEF MaintainInv
<1>4. CountInv'
  <2>1. /\ Len(idle) \in Nat /\ Len(idle') \in Nat /\ mt.need \in Nat
        /\ Len(mt.check) \in Nat /\ mt.dead \in Nat
    BY <1>1, KeptTyped, SMT DEF Balanced, CountInv
  <2>2. /\ Cardinality(At(req, Holds)) \in Nat
        /\ Cardinality(At(req, {"create"})) \in Nat
    BY CountsTyped
  <2>3. In(x.pc, Holds) \in Nat /\ In(req[r].pc, Holds) \in Nat
    BY DEF In
  <2>4. /\ stop # "done" => total' = Kept' + Cardinality(At(req', Holds))
        /\ Kept' + Cardinality(At(req', Holds)) <= MaxSize
    <3>1. Cardinality(At(req', Holds)) = Cardinality(At(req, Holds))
                                         + In(x.pc, Holds) - In(req[r].pc, Holds)
      BY <1>1, MoveCounts
    <3>2. Kept' = Len(idle') + mt.need + Len(mt.check) + mt.dead
      BY <1>1 DEF Kept
    <3>3. Kept = Len(idle) + mt.need + Len(mt.check) + mt.dead
      BY DEF Kept
    <3> DEFINE a == Len(idle)  b == Len(idle')  n == mt.need  c == Len(mt.check)
               d == mt.dead    h == Cardinality(At(req, Holds))
               g == Cardinality(At(req', Holds))
               i == In(x.pc, Holds)  j == In(req[r].pc, Holds)
               k == Kept  l == Kept'  t == total  u == total'
    <3>4. /\ a \in Nat /\ b \in Nat /\ n \in Nat /\ c \in Nat /\ d \in Nat
          /\ h \in Nat /\ i \in Nat /\ j \in Nat /\ MaxSize \in Nat
          /\ g = h + i - j /\ l = b + n + c + d /\ k = a + n + c + d /\ k + h <= MaxSize
      BY <1>1, <2>1, <2>2, <2>3, <3>1, <3>2, <3>3, PoolAssumption DEF CountInv
    <3>5. CASE stop # "done"
      <4>1. t = k + h /\ u = t + b - a + i - j /\ u <= MaxSize
        BY <1>1, <3>5 DEF CountInv, Balanced
      <4> HIDE DEF a, b, n, c, d, h, g, i, j, k, l, t, u
      <4>2. u = l + g /\ l + g <= MaxSize
        BY <3>4, <4>1, SMT
      <4> QED BY <4>2 DEF u, l, g
    <3>6. CASE stop = "done"
      <4>1. b + i <= a + j
        BY <3>6 DEF Balanced
      <4> HIDE DEF a, b, n, c, d, h, g, i, j, k, l, t, u
      <4>2. l + g <= MaxSize
        BY <3>4, <4>1, SMT
      <4> QED BY <3>6, <4>2 DEF l, g
    <3> QED BY <3>5, <3>6
  <2>5. creating' = Cardinality(At(req', {"create"}))
    BY <1>1, MoveCounts DEF Balanced, CountInv
  <2> QED BY <2>4, <2>5 DEF CountInv, Balanced, At, Holds
<1>5. JoinInv'
  <2>1. UNCHANGED <<running, mt, stop, io, up>>
    BY DEF Balanced
  <2>2. CASE io = "joined"
    <3>1. \A q \in Requests : req[q].pc \notin OnThread
      BY <1>1, <2>2 DEF JoinInv
    <3>2. \A q \in Requests \ {r} : req'[q] = req[q]
      BY <1>1, <3>1, WokenFacts DEF CommandInv, Moves
    <3>3. req'[r].pc \notin OnThread /\ idle' = idle /\ total' = total
      BY <2>2 DEF Balanced, Moves
    <3>4. \A q \in Requests : req'[q].pc \notin OnThread
      BY <3>1, <3>2, <3>3
    <3> QED BY <1>1, <2>1, <3>3, <3>4 DEF JoinInv, OnThread, Holds
  <2>3. CASE io # "joined"
    BY <1>1, <2>1, <2>3 DEF JoinInv
  <2> QED BY <2>2, <2>3
<1> QED BY <1>2, <1>3, <1>4, <1>5 DEF PoolInv

\* The counters of the pool and their limits
LEMMA CounterFacts ==
    ASSUME PoolInv
    PROVE  /\ idle \in Seq(Kinds) /\ Len(idle) \in Nat
           /\ total \in Nat /\ total <= SizeMax /\ creating \in Nat
           /\ stop # "done" => total <= MaxSize
           /\ creating <= MaxCreating /\ MaxCreating \in Nat
           /\ MaxSize \in Nat /\ SizeMax \in Nat /\ MaxSize <= SizeMax
<1>1. /\ MaxSize \in Nat /\ SizeMax \in Nat /\ MaxSize <= SizeMax
      /\ MaxCreating \in Nat
  BY PoolAssumption, SMT
<1>2. idle \in Seq(Kinds) /\ total \in 0 .. SizeMax /\ creating <= MaxCreating
  BY DEF PoolInv, CountInv
<1>3. Kept \in Nat /\ Len(idle) \in Nat
  BY <1>2, KeptTyped DEF PoolInv
<1>4. Cardinality(At(req, Holds)) \in Nat /\ Cardinality(At(req, {"create"})) \in Nat
  BY CountsTyped
<1>5. /\ stop # "done" => total = Kept + Cardinality(At(req, Holds))
      /\ Kept + Cardinality(At(req, Holds)) <= MaxSize
      /\ creating = Cardinality(At(req, {"create"}))
  BY DEF PoolInv, CountInv
<1> DEFINE h == Cardinality(At(req, Holds))
           k == Kept
<1>6. /\ h \in Nat /\ k \in Nat /\ k + h <= MaxSize
      /\ total \in 0 .. SizeMax /\ (stop # "done" => total = k + h)
  BY <1>2, <1>3, <1>4, <1>5
<1> HIDE DEF h, k
<1>7. total \in Nat /\ total <= SizeMax /\ (stop # "done" => total <= MaxSize)
  BY <1>1, <1>6, SMT
<1> QED BY <1>1, <1>2, <1>3, <1>4, <1>5, <1>7

\* What a command in progress is
LEMMA CommandFacts ==
    ASSUME PoolInv, NEW r \in Requests
    PROVE  /\ req[r] \in Commands /\ CommandOf(r, req[r]) /\ CommandInv
           /\ MaxAttempts(r) \in {1, 2}
           /\ stop # "done" /\ req[r].pc \in Holds => total > 0
           /\ running \in BOOLEAN /\ (running = TRUE => stop # "done")
           /\ req[r].pc \in OnThread => io # "joined"
<1>1. /\ req[r] \in Commands /\ CommandOf(r, req[r]) /\ CommandInv
      /\ running \in BOOLEAN /\ (running = TRUE => stop # "done")
      /\ req[r].pc \in OnThread => io # "joined"
  BY DEF PoolInv, CommandInv, JoinInv
<1>2. MaxAttempts(r) \in {1, 2}
  BY DEF MaxAttempts
<1>3. req[r].pc \in Holds => Cardinality(At(req, Holds)) > 0
  <2> DEFINE A == At(req, Holds)
  <2>1. IsFiniteSet(A)
    BY CountsTyped
  <2>2. req[r].pc \in Holds => r \in A
    BY DEF At
  <2> HIDE DEF A
  <2>3. r \in A => Cardinality(A) > 0
    BY <2>1, OneElement
  <2> QED BY <2>2, <2>3 DEF A
<1>4. CASE stop # "done" /\ req[r].pc \in Holds
  <2> DEFINE h == Cardinality(At(req, Holds))
             k == Kept
  <2>1. h \in Nat /\ h > 0 /\ k \in Nat /\ total = k + h
    BY <1>3, <1>4, CounterFacts, CountsTyped, KeptTyped DEF PoolInv, CountInv
  <2> HIDE DEF h, k
  <2>2. total > 0
    BY <2>1, SMT
  <2> QED BY <1>1, <1>2, <2>2
<1> QED BY <1>1, <1>2, <1>4

\* A command that is not over has not been sent more often than it was tried.
LEMMA SentFacts ==
    ASSUME NEW r \in Requests, NEW q \in Commands, CommandOf(r, q), q.pc \notin Finished
    PROVE  /\ q.sent \in Nat /\ q.attempt \in Nat /\ MaxAttempts(r) \in Nat
           /\ q.sent <= q.attempt /\ q.attempt < MaxAttempts(r)
           /\ q.sent <= MaxAttempts(r) /\ q.sent + 1 <= MaxAttempts(r)
<1>1. MaxAttempts(r) \in Nat
  BY SMT DEF MaxAttempts
<1>2. q.sent \in Nat /\ q.attempt \in 0 .. 1
  BY DEF Commands
<1>3. q.sent <= q.attempt /\ q.attempt < MaxAttempts(r)
  BY DEF CommandOf
<1> HIDE DEF MaxAttempts
<1> QED BY <1>1, <1>2, <1>3, SMT

\* A command that holds a slot gives it back.
LEMMA DropFacts ==
    ASSUME PoolInv, NEW r \in Requests, req[r].pc \in Holds
    PROVE  /\ Decremented(total) \in 0 .. SizeMax
           /\ stop # "done" => Decremented(total) = total - 1 /\ total - 1 <= MaxSize
<1>1. /\ total \in Nat /\ total <= SizeMax /\ SizeMax \in Nat /\ MaxSize \in Nat
      /\ stop # "done" => total <= MaxSize /\ total > 0
  BY CounterFacts, CommandFacts
<1> QED BY <1>1, SMT DEF Decremented

\* A command that gives up, from any state in which it could be
LEMMA FailedFacts ==
    ASSUME NEW r \in Requests, NEW q \in Commands, q.sent <= MaxAttempts(r)
    PROVE  /\ Failed(q) \in Commands /\ CommandOf(r, Failed(q)) /\ Failed(q).pc = "failed"
           /\ Answered(q) \in Commands /\ CommandOf(r, Answered(q))
           /\ Answered(q).pc = "done"
<1>1. q.sent \in Nat
  BY DEF Commands
<1>2. "failed" \in CommandPCs /\ "done" \in CommandPCs /\ "new" \in CommandPCs
  BY DEF CommandPCs, Finished
<1>3. /\ Fresh \in Commands /\ Fresh.conn = NoConn
  BY <1>2, SMT DEF Fresh, Commands
<1>4. /\ Failed(q) \in Commands /\ Failed(q).pc = "failed"
      /\ Failed(q).conn = NoConn /\ Failed(q).sent = q.sent
      /\ Answered(q) \in Commands /\ Answered(q).pc = "done"
      /\ Answered(q).conn = NoConn /\ Answered(q).sent = q.sent
  BY <1>1, <1>2, <1>3 DEF Failed, Answered, Commands
<1>5. NoConn \notin Kinds
  BY DEF NoConn, Kinds
<1> QED BY <1>4, <1>5 DEF CommandOf, Finished

\* A command that changes neither what it holds nor what it has sent
LEMMA SamePlace ==
    ASSUME PoolInv, NEW r \in Requests, NEW x \in Commands,
           req' = [req EXCEPT ![r] = x], CommandOf(r, x),
           req[r].pc \notin Holds \cup Finished, x.pc \notin Holds,
           x.pc \in OnThread => io # "joined",
           UNCHANGED <<running, total, creating, idle, mt, stop, io, up>>
    PROVE  PoolInv'
<1>1. Moves(r, x)
  BY CommandFacts, NotifyMoves
<1>2. /\ In(x.pc, Holds) = 0 /\ In(req[r].pc, Holds) = 0
      /\ In(x.pc, {"create"}) = 0 /\ In(req[r].pc, {"create"}) = 0
  BY DEF In, Holds
<1>3. Balanced(r, x)
  BY <1>1, <1>2, CounterFacts, SMT DEF Balanced
<1> QED BY <1>3, BalancedStep

\* cmd_argv is called and posted, a worker hands it on, an io thread takes it
\* up, or its wait times out.
LEMMA WaitSteps ==
    ASSUME PoolInv, NEW r \in Requests,
           Submit(r) \/ Post(r) \/ Dispatch(r) \/ Resume(r) \/ WaitTimeout(r)
    PROVE  PoolInv'
<1>0. /\ req[r] \in Commands /\ CommandOf(r, req[r]) /\ CommandInv
      /\ req \in [Requests -> Commands]
      /\ req[r].pc \in {"new", "posting", "posted", "resumed", "waiting"}
      /\ UNCHANGED <<running, total, creating, idle, mt, stop, io, up>>
  BY CommandFacts DEF CommandInv, Submit, Post, Dispatch, Resume, WaitTimeout
<1>1. req[r].sent <= MaxAttempts(r)
  BY <1>0, SentFacts DEF Finished
<1>2. CASE req' = [req EXCEPT ![r] = Failed(req[r])]
  BY <1>0, <1>1, <1>2, FailedFacts, SamePlace DEF Holds, OnThread, Finished
<1>3. CASE \E pc \in {"posting", "posted", "resumed", "acquire"} :
              /\ pc \in {"posting", "acquire"} => io # "joined"
              /\ req' = [req EXCEPT ![r] = [req[r] EXCEPT !.pc = pc]]
  <2>1. PICK pc \in {"posting", "posted", "resumed", "acquire"} :
              /\ pc \in {"posting", "acquire"} => io # "joined"
              /\ req' = [req EXCEPT ![r] = [req[r] EXCEPT !.pc = pc]]
    BY <1>3
  <2> DEFINE x == [req[r] EXCEPT !.pc = pc]
  <2>2. x \in Commands /\ x.pc = pc
    BY <1>0 DEF Commands, CommandPCs, OnThread
  <2>3. CommandOf(r, x)
    BY <1>0, <2>2 DEF CommandOf, Commands, Finished
  <2>4. x.pc \in OnThread => io # "joined"
    BY <2>1, <2>2 DEF OnThread, Holds
  <2> HIDE DEF x
  <2> QED BY <1>0, <2>1, <2>2, <2>3, <2>4, SamePlace DEF x, Holds, Finished
<1>4. CASE Submit(r) \/ Resume(r)
  BY <1>2, <1>3, <1>4 DEF Submit, Resume
<1>5. CASE Post(r) \/ Dispatch(r)
  BY <1>0, <1>3, <1>5 DEF Post, Dispatch
<1> QED BY <1>2, <1>4, <1>5 DEF WaitTimeout

\* The critical section of acquire_worker
LEMMA AcquireStep ==
    ASSUME PoolInv, NEW r \in Requests, AcquireWorker(r)
    PROVE  PoolInv'
<1>0. /\ req[r] \in Commands /\ CommandOf(r, req[r]) /\ CommandInv
      /\ running \in BOOLEAN /\ req \in [Requests -> Commands]
      /\ req[r].pc = "acquire" /\ UNCHANGED <<running, mt, stop, io, up>>
  BY CommandFacts DEF CommandInv, AcquireWorker
<1>1. /\ req[r].sent <= MaxAttempts(r) /\ req[r].sent <= req[r].attempt
      /\ req[r].attempt < MaxAttempts(r) /\ req[r].conn \notin Kinds
  <2>1. req[r].conn \notin Kinds
    BY <1>0 DEF CommandOf
  <2> QED BY <1>0, <2>1, SentFacts DEF Finished
<1>2. CASE /\ req' = [req EXCEPT ![r] = Failed(req[r])]
           /\ UNCHANGED <<total, creating, idle>>
  BY <1>0, <1>1, <1>2, FailedFacts, SamePlace DEF Holds, OnThread, Finished
<1>3. CASE /\ idle # <<>>
           /\ req' = [req EXCEPT ![r].pc = "use", ![r].conn = Head(idle)]
           /\ idle' = Tail(idle)
           /\ UNCHANGED <<total, creating>>
  <2> DEFINE x == [req[r] EXCEPT !.pc = "use", !.conn = Head(idle)]
  <2>1. Head(idle) \in Kinds /\ Tail(idle) \in Seq(Kinds)
        /\ Len(Tail(idle)) = Len(idle) - 1
    BY <1>3, CounterFacts, SMT
  <2>2. x \in Commands /\ x.pc = "use" /\ x.conn \in Kinds
        /\ x.sent = req[r].sent /\ x.attempt = req[r].attempt
    BY <1>0, <2>1 DEF Commands, CommandPCs, OnThread, Holds
  <2>3. req' = [req EXCEPT ![r] = x]
    BY <1>0, <1>3
  <2> HIDE DEF x
  <2>4. Moves(r, x)
    BY <1>0, <2>2, <2>3, NotifyMoves
  <2>5. CommandOf(r, x)
    BY <1>1, <2>2 DEF CommandOf, Finished
  <2>6. /\ In(x.pc, Holds) = 1 /\ In(req[r].pc, Holds) = 0
        /\ In(x.pc, {"create"}) = 0 /\ In(req[r].pc, {"create"}) = 0
        /\ io # "joined"
    BY <1>0, <2>2, CommandFacts DEF In, Holds, OnThread
  <2>7. /\ idle' \in Seq(Kinds) /\ Len(idle') = Len(idle) - 1
        /\ total' = total /\ creating' = creating
    BY <1>3, <2>1
  <2>8. Balanced(r, x)
    BY <1>0, <2>4, <2>5, <2>6, <2>7, CounterFacts, SMT DEF Balanced
  <2> QED BY <2>8, BalancedStep
<1>4. CASE /\ running /\ MayCreate
           /\ req' = [req EXCEPT ![r].pc = "create"]
           /\ total' = total + 1 /\ creating' = creating + 1 /\ UNCHANGED idle
  <2> DEFINE x == [req[r] EXCEPT !.pc = "create"]
  <2>1. x \in Commands /\ x.pc = "create" /\ x.conn = req[r].conn
        /\ x.sent = req[r].sent /\ x.attempt = req[r].attempt
    BY <1>0 DEF Commands, CommandPCs, OnThread, Holds
  <2>2. req' = [req EXCEPT ![r] = x]
    BY <1>0, <1>4
  <2> HIDE DEF x
  <2>3. Moves(r, x)
    BY <1>0, <2>1, <2>2, NotifyMoves
  <2>4. CommandOf(r, x)
    BY <1>1, <2>1 DEF CommandOf, Finished
  <2>5. /\ stop # "done" /\ total' <= MaxSize /\ total' \in 0 .. SizeMax
        /\ creating' <= MaxCreating
    <3>1. stop # "done"
      BY <1>0, <1>4, CommandFacts
    <3> QED BY <1>4, <3>1, CounterFacts, PoolAssumption, SMT DEF MayCreate
  <2>6. /\ In(x.pc, Holds) = 1 /\ In(req[r].pc, Holds) = 0
        /\ In(x.pc, {"create"}) = 1 /\ In(req[r].pc, {"create"}) = 0
        /\ io # "joined"
    BY <1>0, <2>1, CommandFacts DEF In, Holds, OnThread
  <2>7. Balanced(r, x)
    BY <1>0, <1>4, <2>3, <2>4, <2>5, <2>6, CounterFacts, SMT DEF Balanced
  <2> QED BY <2>7, BalancedStep
<1>5. CASE /\ req' = [req EXCEPT ![r].pc = "waiting"]
           /\ UNCHANGED <<total, creating, idle>>
  <2> DEFINE x == [req[r] EXCEPT !.pc = "waiting"]
  <2>1. x \in Commands /\ x.pc = "waiting" /\ x.conn = req[r].conn
        /\ x.sent = req[r].sent /\ x.attempt = req[r].attempt
    BY <1>0 DEF Commands, CommandPCs, OnThread
  <2>2. req' = [req EXCEPT ![r] = x]
    BY <1>0, <1>5
  <2> HIDE DEF x
  <2>3. CommandOf(r, x)
    BY <1>1, <2>1 DEF CommandOf, Finished
  <2>4. io # "joined"
    BY <1>0, CommandFacts DEF OnThread
  <2> QED BY <1>0, <1>5, <2>1, <2>2, <2>3, <2>4, SamePlace DEF Holds, Finished
<1> QED BY <1>2, <1>3, <1>4, <1>5, SMTT(30) DEF AcquireWorker

\* A connection is made or not; then the slot is returned.
LEMMA CreateStep ==
    ASSUME PoolInv, NEW r \in Requests, CreateConnection(r)
    PROVE  PoolInv'
<1>0. /\ req[r] \in Commands /\ CommandOf(r, req[r]) /\ CommandInv
      /\ req \in [Requests -> Commands] /\ req[r].pc = "create"
      /\ UNCHANGED <<running, mt, stop, io, up>> /\ idle' = idle
      /\ creating' = creating - 1
  BY CommandFacts DEF CommandInv, CreateConnection
<1>1. /\ req[r].sent <= MaxAttempts(r) /\ req[r].sent <= req[r].attempt
      /\ req[r].attempt < MaxAttempts(r) /\ req[r].conn \notin Kinds
  <2>1. req[r].conn \notin Kinds
    BY <1>0 DEF CommandOf
  <2> QED BY <1>0, <2>1, SentFacts DEF Finished
<1>2. creating' <= MaxCreating
  BY <1>0, CounterFacts, PoolAssumption, SMT
<1>3. CASE /\ req' = [req EXCEPT ![r].pc = "use", ![r].conn = "live"]
           /\ UNCHANGED total
  <2> DEFINE x == [req[r] EXCEPT !.pc = "use", !.conn = "live"]
  <2>1. x \in Commands /\ x.pc = "use" /\ x.conn \in Kinds
        /\ x.sent = req[r].sent /\ x.attempt = req[r].attempt
    BY <1>0 DEF Commands, CommandPCs, OnThread, Holds, Kinds
  <2>2. req' = [req EXCEPT ![r] = x]
    BY <1>0, <1>3
  <2> HIDE DEF x
  <2>3. Moves(r, x)
    BY <1>0, <2>1, <2>2, NotifyMoves
  <2>4. CommandOf(r, x)
    BY <1>1, <2>1 DEF CommandOf, Finished
  <2>5. /\ In(x.pc, Holds) = 1 /\ In(req[r].pc, Holds) = 1
        /\ In(x.pc, {"create"}) = 0 /\ In(req[r].pc, {"create"}) = 1
        /\ io # "joined"
    BY <1>0, <2>1, CommandFacts DEF In, Holds, OnThread
  <2>6. Balanced(r, x)
    BY <1>0, <1>2, <1>3, <2>3, <2>4, <2>5, CounterFacts, SMT DEF Balanced
  <2> QED BY <2>6, BalancedStep
<1>4. CASE /\ total' = Decremented(total)
           /\ req' = NotifyAll([req EXCEPT ![r] =
                        IF MayRetry(r)
                        THEN [req[r] EXCEPT !.pc = "acquire", !.retry = 1]
                        ELSE Failed(req[r])])
  <2> DEFINE again == [req[r] EXCEPT !.pc = "acquire", !.retry = 1]
             x == IF MayRetry(r) THEN again ELSE Failed(req[r])
  <2>0. "acquire" \in CommandPCs /\ 1 \in 0 .. 1
    BY SMT DEF CommandPCs, OnThread
  <2>1. again \in Commands /\ again.pc = "acquire" /\ again.conn = req[r].conn
        /\ again.sent = req[r].sent /\ again.attempt = req[r].attempt
    BY <1>0, <2>0 DEF Commands
  <2>2. CommandOf(r, again)
    BY <1>1, <2>1 DEF CommandOf, Finished
  <2>3. x \in Commands /\ CommandOf(r, x) /\ x.pc \in {"acquire", "failed"}
    BY <1>0, <1>1, <2>1, <2>2, FailedFacts
  <2>4. req' = NotifyAll([req EXCEPT ![r] = x])
    BY <1>4
  <2> HIDE DEF x
  <2>5. Moves(r, x)
    BY <1>0, <2>3, <2>4, NotifyMoves
  <2>6. /\ total' \in 0 .. SizeMax
        /\ stop # "done" => total' = total - 1 /\ total' <= MaxSize
    BY <1>0, <1>4, DropFacts DEF Holds
  <2>7. /\ In(x.pc, Holds) = 0 /\ In(req[r].pc, Holds) = 1
        /\ In(x.pc, {"create"}) = 0 /\ In(req[r].pc, {"create"}) = 1
        /\ io # "joined"
    BY <1>0, <2>3, CommandFacts DEF In, Holds, OnThread
  <2>8. Balanced(r, x)
    BY <1>0, <1>2, <2>3, <2>5, <2>6, <2>7, CounterFacts, SMT DEF Balanced
  <2> QED BY <2>8, BalancedStep
<1> QED BY <1>3, <1>4 DEF CreateConnection

\* The reply arrives and the connection goes back to the queue or is freed.
LEMMA OkStep ==
    ASSUME PoolInv, NEW r \in Requests, CommandOk(r)
    PROVE  PoolInv'
<1>0. /\ req[r] \in Commands /\ CommandOf(r, req[r]) /\ CommandInv
      /\ req \in [Requests -> Commands] /\ req[r].pc = "use"
      /\ UNCHANGED <<running, mt, stop, io, up>> /\ creating' = creating
  BY CommandFacts DEF CommandInv, CommandOk
<1> DEFINE q == Sent(req[r], 1)
           x == Answered(q)
<1>1. q \in Commands /\ q.sent <= MaxAttempts(r)
  <2>1. req[r].sent \in Nat /\ req[r].sent + 1 <= MaxAttempts(r)
    BY <1>0, SentFacts DEF Finished
  <2>2. q \in Commands /\ q.sent = req[r].sent + 1
    BY <1>0, SMT DEF Commands, Sent
  <2> QED BY <2>1, <2>2
<1>2. req' \in NotifyOne([req EXCEPT ![r] = x])
  BY DEF CommandOk
<1> HIDE DEF q
<1>3. x \in Commands /\ CommandOf(r, x) /\ x.pc = "done"
  BY <1>1, FailedFacts
<1> HIDE DEF x
<1>4. Moves(r, x)
  BY <1>0, <1>2, <1>3, NotifyMoves
<1>5. \/ idle' = Append(idle, "live") /\ total' = total
      \/ idle' = idle /\ total' = IF total = 0 THEN total ELSE total - 1
  BY DEF CommandOk
<1>6. /\ idle' \in Seq(Kinds) /\ total' \in 0 .. SizeMax
      /\ Len(idle') <= Len(idle) + 1
      /\ stop # "done" => /\ total' = total + Len(idle') - Len(idle) - 1
                          /\ total' <= MaxSize
  <2>1. "live" \in Kinds
    BY DEF Kinds
  <2>2. Append(idle, "live") \in Seq(Kinds) /\ Len(Append(idle, "live")) = Len(idle) + 1
    BY <2>1, CounterFacts, SMT
  <2>3. /\ total \in Nat /\ total <= SizeMax /\ SizeMax \in Nat /\ Len(idle) \in Nat
        /\ MaxSize \in Nat /\ idle \in Seq(Kinds)
        /\ stop # "done" => total <= MaxSize /\ total > 0
    BY <1>0, CounterFacts, CommandFacts DEF Holds
  <2> QED BY <1>5, <2>2, <2>3, SMT
<1>7. /\ In(x.pc, Holds) = 0 /\ In(req[r].pc, Holds) = 1
      /\ In(x.pc, {"create"}) = 0 /\ In(req[r].pc, {"create"}) = 0
      /\ io # "joined"
  BY <1>0, <1>3, CommandFacts DEF In, Holds, OnThread
<1>8. Balanced(r, x)
  BY <1>0, <1>3, <1>4, <1>6, <1>7, CounterFacts, SMT DEF Balanced
<1> QED BY <1>8, BalancedStep

\* The connection breaks: it is freed, and the command may be tried again.
LEMMA BrokenStep ==
    ASSUME PoolInv, NEW r \in Requests, CommandBroken(r)
    PROVE  PoolInv'
<1>0. /\ req[r] \in Commands /\ CommandOf(r, req[r]) /\ CommandInv
      /\ req \in [Requests -> Commands] /\ req[r].pc = "use"
      /\ UNCHANGED <<running, mt, stop, io, up>> /\ creating' = creating /\ idle' = idle
      /\ total' = Decremented(total)
  BY CommandFacts DEF CommandInv, CommandBroken
<1>1. PICK reached \in {0, 1} :
        req' = NotifyAll([req EXCEPT ![r] = AfterBreak(r, Sent(req[r], reached))])
  BY DEF CommandBroken
<1> DEFINE q == Sent(req[r], reached)
           again == [q EXCEPT !.pc = "acquire", !.attempt = 1, !.retry = 0,
                              !.conn = NoConn]
           x == AfterBreak(r, q)
<1>2. req' = NotifyAll([req EXCEPT ![r] = x])
  BY <1>1
<1>3. /\ q \in Commands /\ q.sent <= q.attempt + 1 /\ q.attempt + 1 <= MaxAttempts(r)
      /\ q.attempt \in Nat
  <2>1. q \in Commands /\ q.attempt = req[r].attempt /\ q.sent = req[r].sent + reached
    BY <1>0, SMT DEF Commands, Sent
  <2>2. /\ req[r].sent \in Nat /\ req[r].attempt \in Nat /\ MaxAttempts(r) \in Nat
        /\ req[r].sent <= req[r].attempt /\ req[r].attempt < MaxAttempts(r)
    BY <1>0, SentFacts DEF Finished
  <2> HIDE DEF q
  <2> QED BY <2>1, <2>2, SMT
<1> HIDE DEF q
<1>4. q.sent \in Nat /\ q.sent <= MaxAttempts(r)
  <2>1. q.sent \in Nat
    BY <1>3 DEF Commands
  <2>2. MaxAttempts(r) \in Nat
    BY SMT DEF MaxAttempts
  <2> QED BY <1>3, <2>1, <2>2, SMT
<1>5. /\ again \in Commands /\ again.pc = "acquire" /\ again.conn = NoConn
      /\ again.sent = q.sent /\ again.attempt = 1
  <2>1. "acquire" \in CommandPCs /\ 1 \in 0 .. 1 /\ 0 \in 0 .. 1
    BY SMT DEF CommandPCs, OnThread
  <2> QED BY <1>3, <2>1 DEF Commands
<1>6. q.attempt + 1 < MaxAttempts(r) => CommandOf(r, again)
  <2>1. NoConn \notin Kinds
    BY DEF NoConn, Kinds
  <2>2. MaxAttempts(r) \in {1, 2}
    BY DEF MaxAttempts
  <2>3. q.attempt + 1 < MaxAttempts(r) => q.sent <= 1 /\ 1 < MaxAttempts(r)
    BY <1>3, <1>4, <2>2, SMT
  <2> QED BY <1>5, <2>1, <2>3 DEF CommandOf, Finished
<1>7. x \in Commands /\ CommandOf(r, x) /\ x.pc \in {"acquire", "failed"}
  <2>1. (x = again /\ q.attempt + 1 < MaxAttempts(r)) \/ x = Failed(q)
    BY DEF AfterBreak
  <2> QED BY <1>3, <1>4, <1>5, <1>6, <2>1, FailedFacts
<1> HIDE DEF x
<1>8. Moves(r, x)
  BY <1>0, <1>2, <1>7, NotifyMoves
<1>9. /\ total' \in 0 .. SizeMax
      /\ stop # "done" => total' = total - 1 /\ total' <= MaxSize
  BY <1>0, DropFacts DEF Holds
<1>10. /\ In(x.pc, Holds) = 0 /\ In(req[r].pc, Holds) = 1
       /\ In(x.pc, {"create"}) = 0 /\ In(req[r].pc, {"create"}) = 0
       /\ io # "joined"
  BY <1>0, <1>7, CommandFacts DEF In, Holds, OnThread
<1>11. Balanced(r, x)
  BY <1>0, <1>7, <1>8, <1>9, <1>10, CounterFacts, SMT DEF Balanced
<1> QED BY <1>11, BalancedStep

-----------------------------------------------------------------------------
(* Steps of the maintenance thread *)

LEMMA NotifyWakes ==
    ASSUME CommandInv, req' = req \/ req' = NotifyAll(req)
    PROVE  Wakes
<1>1. req \in [Requests -> Commands]
  BY DEF CommandInv
<1>2. \A q \in Commands : [q EXCEPT !.pc = "acquire"] \in Commands
  BY DEF Commands, CommandPCs, OnThread
<1>3. CASE req' = req
  BY <1>1, <1>3 DEF Wakes, Woken
<1>4. CASE req' = NotifyAll(req)
  <2>1. \A q \in Requests : req'[q] = IF req[q].pc = "waiting"
                                      THEN [req[q] EXCEPT !.pc = "acquire"] ELSE req[q]
    BY <1>4 DEF NotifyAll
  <2>2. req' \in [Requests -> Commands]
    BY <1>1, <1>2, <1>4 DEF NotifyAll
  <2> QED BY <2>1, <2>2 DEF Wakes, Woken
<1> QED BY <1>3, <1>4

LEMMA WakesCommands ==
    ASSUME CommandInv, Wakes
    PROVE  CommandInv'
<1>1. \A q \in Requests : req[q] \in Commands /\ CommandOf(q, req[q])
  BY DEF CommandInv
<1>2. \A q \in Requests : CommandOf(q, req'[q])
  BY <1>1, WokenFacts DEF Wakes
<1> QED BY <1>2 DEF Wakes, CommandInv, CommandOf, MaxAttempts

\* Once the io threads are joined there is nobody to wake.
LEMMA WakesOffThread ==
    ASSUME CommandInv, JoinInv, Wakes, io = "joined"
    PROVE  \A q \in Requests : req'[q].pc \notin OnThread
<1>1. \A q \in Requests : req[q] \in Commands /\ req[q].pc \notin OnThread
  BY DEF CommandInv, JoinInv
<1> QED BY <1>1, WokenFacts DEF Wakes

\* The maintenance thread, while it runs, moves connections and reservations
\* between its own hands, the queue and the outside, and total_ follows.
Upkeep ==
    /\ req' = req \/ req' = NotifyAll(req)
    /\ UNCHANGED <<running, creating, stop, io, up>>
    /\ mt.pc # "exited"
    /\ MaintainInv'
    /\ idle' \in Seq(Kinds)
    /\ total' \in Int /\ total' + Kept = total + Kept'
    /\ total' <= MaxSize

LEMMA UpkeepStep ==
    ASSUME PoolInv, Upkeep
    PROVE  PoolInv'
<1>1. CommandInv /\ MaintainInv /\ CountInv /\ JoinInv /\ Wakes
  BY NotifyWakes DEF PoolInv, Upkeep
<1>2. CommandInv'
  BY <1>1, WakesCommands
<1>3. CountInv'
  <2>1. Kept \in Nat
    BY <1>1, KeptTyped DEF CountInv
  <2>2. Kept' \in Nat
    <3>1. /\ mt'.need \in Nat /\ mt'.check \in Seq(Kinds) /\ mt'.dead \in Nat
          /\ idle' \in Seq(Kinds)
      BY DEF Upkeep, MaintainInv, Maintainers
    <3>2. Len(idle') \in Nat /\ Len(mt'.check) \in Nat
      BY <3>1, SMT
    <3> QED BY <3>1, <3>2, FourParts DEF Kept
  <2>3. At(req', Holds) = At(req, Holds) /\ At(req', {"create"}) = At(req, {"create"})
    BY <1>1, WakeCounts
  <2>4. /\ total = Kept + Cardinality(At(req, Holds))
        /\ total' + Kept = total + Kept'
        /\ Cardinality(At(req, Holds)) \in Nat
    BY <1>1, CountsTyped DEF CountInv, JoinInv, Upkeep
  <2>5. total \in Nat
    BY <2>1, <2>4, SMT
  <2>6. total' = Kept' + Cardinality(At(req, Holds)) /\ total' \in 0 .. SizeMax
    <3> DEFINE h == Cardinality(At(req, Holds))  k == Kept  l == Kept'
               m == total  n == total'
    <3>1. /\ h \in Nat /\ k \in Nat /\ l \in Nat /\ m \in Nat /\ n \in Int
          /\ m = k + h /\ n + k = m + l /\ n <= MaxSize
          /\ MaxSize \in Nat /\ SizeMax \in Nat /\ MaxSize <= SizeMax
      BY <2>1, <2>2, <2>4, <2>5, PoolAssumption DEF Upkeep
    <3> HIDE DEF h, k, l, m, n
    <3>2. n = l + h /\ n \in 0 .. SizeMax
      BY <3>1, SMT
    <3> QED BY <3>2 DEF h, l, n
  <2> QED BY <1>1, <2>3, <2>6 DEF CountInv, Upkeep, At, Holds
<1>4. io = "joined" => \A q \in Requests : req'[q].pc \notin OnThread
  BY <1>1, WakesOffThread
<1>5. JoinInv'
  <2>1. stop # "done"
    BY <1>1 DEF JoinInv, Upkeep
  <2> QED BY <1>1, <1>4, <2>1 DEF JoinInv, Upkeep, OnThread, Holds
<1> QED BY <1>2, <1>3, <1>5 DEF PoolInv, Upkeep

\* The fields of the maintenance thread
LEMMA MaintainFacts ==
    ASSUME PoolInv
    PROVE  /\ mt \in Maintainers /\ mt.need \in Nat /\ mt.tried \in Nat /\ mt.dead \in Nat
           /\ mt.made \in Seq(Kinds) /\ mt.check \in Seq(Kinds)
           /\ Len(mt.made) \in Nat /\ Len(mt.check) \in Nat
           /\ Len(mt.made) <= mt.tried /\ mt.tried <= mt.need
           /\ mt.pc \notin {"fill", "pool"} => mt.need = 0 /\ mt.tried = 0 /\ Len(mt.made) = 0
           /\ mt.pc # "ping" => mt.check = <<>> /\ Len(mt.check) = 0 /\ mt.dead = 0
           /\ idle \in Seq(Kinds) /\ Len(idle) \in Nat
           /\ total \in Nat /\ MaxSize \in Nat
           /\ Kept = Len(idle) + mt.need + Len(mt.check) + mt.dead
           /\ mt.pc # "exited" => total <= MaxSize
<1>1. /\ mt \in Maintainers /\ mt.need \in Nat /\ mt.tried \in Nat /\ mt.dead \in Nat
      /\ mt.made \in Seq(Kinds) /\ mt.check \in Seq(Kinds)
  BY DEF PoolInv, MaintainInv, Maintainers
<1>2. Len(mt.made) \in Nat /\ Len(mt.check) \in Nat
  BY <1>1, SMT
<1>3. Len(mt.made) <= mt.tried /\ mt.tried <= mt.need
  BY DEF PoolInv, MaintainInv
<1>4. mt.pc \notin {"fill", "pool"} => mt.need = 0 /\ mt.tried = 0 /\ Len(mt.made) = 0
  BY <1>1, <1>2, <1>3, SMT DEF PoolInv, MaintainInv
<1>5. mt.pc # "ping" => mt.check = <<>> /\ Len(mt.check) = 0 /\ mt.dead = 0
  BY SMT DEF PoolInv, MaintainInv
<1>6. /\ idle \in Seq(Kinds) /\ Len(idle) \in Nat /\ total \in Nat
      /\ MaxSize \in Nat
  BY PoolAssumption, SMT DEF PoolInv, CountInv
<1>7. Kept = Len(idle) + mt.need + Len(mt.check) + mt.dead /\ Kept \in Nat
  <2>1. Kept \in Nat
    BY <1>6, KeptTyped DEF PoolInv
  <2> QED BY <2>1 DEF Kept
<1>8. mt.pc # "exited" => total <= MaxSize
  BY DEF PoolInv, CountInv, JoinInv
<1> QED BY <1>1, <1>2, <1>3, <1>4, <1>5, <1>6, <1>7, <1>8

\* A round begins or ends with nothing in hand.
Empty(x) ==
    /\ x \in Maintainers
    /\ x.need = 0 /\ x.tried = 0 /\ x.made = <<>> /\ x.check = <<>> /\ x.dead = 0

LEMMA EmptyRounds ==
    /\ Empty(Quiet) /\ Empty(NextRound) /\ Empty([Quiet EXCEPT !.pc = "take"])
<1>1. "wait" \in MaintainPCs /\ "exited" \in MaintainPCs /\ "take" \in MaintainPCs
  BY DEF MaintainPCs
<1>2. Empty(Quiet)
  <2>1. <<>> \in Seq(Kinds)
    BY SMT
  <2> QED BY <1>1, <2>1 DEF Empty, Quiet, Maintainers
<1>3. \A p \in MaintainPCs : Empty([Quiet EXCEPT !.pc = p])
  BY <1>2 DEF Empty, Maintainers
<1>4. NextRound = [Quiet EXCEPT !.pc = "wait"] \/ NextRound = [Quiet EXCEPT !.pc = "exited"]
  BY DEF NextRound
<1> QED BY <1>1, <1>2, <1>3, <1>4

\* With an empty hand the thread satisfies its invariant in every phase, and
\* the queue is all that is kept.
LEMMA EmptyHand ==
    ASSUME Empty(mt'), Len(idle') \in Nat
    PROVE  MaintainInv' /\ Kept' = Len(idle')
<1>1. /\ mt' \in Maintainers /\ mt'.need = 0 /\ mt'.tried = 0
      /\ mt'.made = <<>> /\ mt'.check = <<>> /\ mt'.dead = 0
  BY DEF Empty
<1>2. Len(mt'.made) = 0 /\ Len(mt'.check) = 0
  BY <1>1
<1>3. MaintainInv'
  BY <1>1, <1>2, SMT DEF MaintainInv
<1>4. Len(idle') + 0 + 0 + 0 = Len(idle')
  BY FourParts
<1> QED BY <1>1, <1>2, <1>3, <1>4 DEF Kept

\* The thread wakes up, and leaves when the pool is no longer running.
LEMMA WakesStep == ASSUME PoolInv, MaintainWakes PROVE PoolInv'
<1> DEFINE p == IF running THEN "recycle" ELSE "exited"
<1>1. /\ mt.pc = "wait" /\ mt' = [mt EXCEPT !.pc = p]
      /\ UNCHANGED <<running, total, creating, idle, req, stop, io, up>>
  BY DEF MaintainWakes
<1>2. p \in MaintainPCs /\ p \in {"recycle", "exited"}
  BY DEF MaintainPCs
<1> HIDE DEF p
<1>3. /\ mt' \in Maintainers /\ mt'.need = mt.need /\ mt'.tried = mt.tried
      /\ mt'.made = mt.made /\ mt'.check = mt.check /\ mt'.dead = mt.dead /\ mt'.pc = p
  BY <1>1, <1>2, MaintainFacts DEF Maintainers
<1>4. MaintainInv'
  BY <1>1, <1>2, <1>3, MaintainFacts DEF MaintainInv
<1>5. Kept' = Kept
  BY <1>1, <1>3 DEF Kept
<1>6. Upkeep
  BY <1>1, <1>4, <1>5, MaintainFacts, SMT DEF Upkeep
<1> QED BY <1>6, UpkeepStep

\* The front and the rest of a queue
LEMMA Parts ==
    ASSUME NEW s \in Seq(Kinds), NEW k \in 0 .. Len(s)
    PROVE  /\ SubSeq(s, 1, k) \in Seq(Kinds) /\ Len(SubSeq(s, 1, k)) = k
           /\ SubSeq(s, k + 1, Len(s)) \in Seq(Kinds)
           /\ Len(SubSeq(s, k + 1, Len(s))) = Len(s) - k
<1>1. Len(s) \in Nat /\ k \in Nat
  BY SMT
<1>2. \A i \in 1 .. Len(s) : s[i] \in Kinds
  BY SMT
<1>3. /\ \A i \in 1 .. k : i \in 1 .. Len(s)
      /\ \A i \in k + 1 .. Len(s) : i \in 1 .. Len(s)
  BY <1>1, SMT
<1> QED BY <1>1, <1>2, <1>3, SMT

\* Two queues, one after the other
LEMMA Joined ==
    ASSUME NEW s \in Seq(Kinds), NEW t \in Seq(Kinds)
    PROVE  /\ s \o t \in Seq(Kinds) /\ Len(s \o t) = Len(s) + Len(t)
           /\ Len(s \o t) \in Nat
  BY SMT

\* The total after n connections or reservations have gone
LEMMA LessTotal ==
    ASSUME PoolInv, mt.pc # "exited", NEW n \in Nat, total' = total - n
    PROVE  total' \in Int /\ total' <= MaxSize
<1>1. total \in Nat /\ total <= MaxSize /\ MaxSize \in Nat
  BY MaintainFacts
<1> QED BY <1>1, SMT

\* Connections that were idle too long are freed.
LEMMA RecycleStep == ASSUME PoolInv, Recycle PROVE PoolInv'
<1>1. PICK k \in 0 .. Len(idle) :
        idle' = SubSeq(idle, k + 1, Len(idle)) /\ total' = total - k
  BY DEF Recycle
<1>2. /\ mt.pc = "recycle" /\ req' = NotifyAll(req)
      /\ UNCHANGED <<running, creating, stop, io, up>>
      /\ mt' = [mt EXCEPT !.pc = "need"] \/ mt' = NextRound
  BY DEF Recycle
<1>3. idle' \in Seq(Kinds) /\ Len(idle') = Len(idle) - k /\ Len(idle') \in Nat
  <2>1. idle' \in Seq(Kinds) /\ Len(idle') = Len(idle) - k
    BY <1>1, MaintainFacts, Parts
  <2> QED BY <2>1, SMT
<1>4. Empty(mt')
  <2>1. mt.made = <<>>
    BY <1>2, MaintainFacts, SMT
  <2>2. "need" \in MaintainPCs
    BY DEF MaintainPCs
  <2>3. Empty([mt EXCEPT !.pc = "need"])
    BY <1>2, <2>1, <2>2, MaintainFacts DEF Empty, Maintainers
  <2> QED BY <1>2, <2>3, EmptyRounds
<1>5. MaintainInv' /\ Kept' = Len(idle')
  BY <1>3, <1>4, EmptyHand
<1>6. Kept = Len(idle)
  BY <1>2, MaintainFacts, SMT
<1>7. total' \in Int /\ total' <= MaxSize /\ total' + Kept = total + Kept'
  <2>1. total \in Nat /\ Len(idle) \in Nat /\ k \in Nat
    BY <1>1, MaintainFacts, SMT
  <2>2. total' \in Int /\ total' <= MaxSize
    BY <1>1, <1>2, <2>1, LessTotal
  <2>3. (total - k) + Len(idle) = total + (Len(idle) - k)
    BY <2>1, SMT
  <2> QED BY <1>1, <1>3, <1>5, <1>6, <2>2, <2>3
<1>8. Upkeep
  BY <1>2, <1>3, <1>5, <1>7 DEF Upkeep
<1> QED BY <1>8, UpkeepStep

\* The headroom is counted before it is used.
LEMMA NeedFits ==
    ASSUME PoolInv, mt.pc # "exited" PROVE Need \in Nat /\ total + Need <= MaxSize
<1>1. /\ Len(idle) \in Nat /\ total \in Nat /\ total <= MaxSize /\ MaxSize \in Nat
      /\ MinSize \in Nat
  BY MaintainFacts, PoolAssumption
<1> QED BY <1>1, SMT DEF Need

\* The reservation of the connections that are missing
LEMMA ReserveStep == ASSUME PoolInv, Reserve PROVE PoolInv'
<1>1. /\ mt.pc = "need" /\ mt' = [mt EXCEPT !.pc = "fill", !.need = Need]
      /\ total' = total + Need /\ UNCHANGED <<running, creating, idle, req, stop, io, up>>
  BY DEF Reserve
<1>2. "fill" \in MaintainPCs /\ Need \in Nat
  BY <1>1, NeedFits DEF MaintainPCs
<1>3. /\ mt' \in Maintainers /\ mt'.need = Need /\ mt'.tried = mt.tried
      /\ mt'.made = mt.made /\ mt'.check = mt.check /\ mt'.dead = mt.dead
      /\ mt'.pc = "fill"
  BY <1>1, <1>2, MaintainFacts DEF Maintainers
<1>4. MaintainInv'
  BY <1>1, <1>2, <1>3, MaintainFacts, SMT DEF MaintainInv
<1>5. Kept' = Len(idle) + Need /\ Kept = Len(idle)
  BY <1>1, <1>2, <1>3, MaintainFacts, SMT DEF Kept
<1>6. total' \in Int /\ total' <= MaxSize /\ total' + Kept = total + Kept'
  BY <1>1, <1>2, <1>5, NeedFits, MaintainFacts, SMT
<1>7. Upkeep
  BY <1>1, <1>4, <1>6, MaintainFacts DEF Upkeep
<1> QED BY <1>7, UpkeepStep

\* One of the reserved connections is made, or the attempt fails.
LEMMA FillStep == ASSUME PoolInv, Fill PROVE PoolInv'
<1>1. /\ mt.pc = "fill" /\ UNCHANGED <<running, total, creating, idle, req, stop, io, up>>
      /\ \/ mt' = [mt EXCEPT !.pc = "pool"]
         \/ /\ mt.tried # mt.need
            /\ \/ mt' = [mt EXCEPT !.tried = @ + 1, !.made = Append(@, "live")]
               \/ mt' = [mt EXCEPT !.tried = @ + 1, !.made = @]
  BY DEF Fill
<1>2. "pool" \in MaintainPCs /\ "fill" \in MaintainPCs /\ "live" \in Kinds
  BY DEF MaintainPCs, Kinds
<1>3. /\ mt' \in Maintainers /\ mt'.need = mt.need /\ mt'.check = mt.check
      /\ mt'.dead = mt.dead /\ mt'.pc \in {"fill", "pool"}
      /\ \/ mt'.tried = mt.tried /\ mt'.made = mt.made
         \/ /\ mt.tried # mt.need /\ mt'.tried = mt.tried + 1
            /\ mt'.made = mt.made \/ mt'.made = Append(mt.made, "live")
  <2>1. CASE mt' = [mt EXCEPT !.pc = "pool"]
    BY <1>2, <2>1, MaintainFacts DEF Maintainers
  <2>2. CASE /\ mt.tried # mt.need
             /\ mt' = [mt EXCEPT !.tried = @ + 1, !.made = Append(@, "live")]
    <3>1. mt.tried + 1 \in Nat /\ Append(mt.made, "live") \in Seq(Kinds)
      BY <1>2, MaintainFacts, SMT
    <3> QED BY <1>1, <2>2, <3>1, MaintainFacts DEF Maintainers
  <2>3. CASE /\ mt.tried # mt.need
             /\ mt' = [mt EXCEPT !.tried = @ + 1, !.made = @]
    <3>1. mt.tried + 1 \in Nat
      BY MaintainFacts, SMT
    <3> QED BY <1>1, <2>3, <3>1, MaintainFacts DEF Maintainers
  <2> QED BY <1>1, <2>1, <2>2, <2>3
<1>4. Len(mt'.made) <= mt'.tried /\ mt'.tried <= mt'.need
  <2>1. Len(Append(mt.made, "live")) = Len(mt.made) + 1
    BY MaintainFacts, SMT
  <2>2. /\ Len(mt.made) \in Nat /\ mt.tried \in Nat /\ mt.need \in Nat
        /\ Len(mt.made) <= mt.tried /\ mt.tried <= mt.need
    BY MaintainFacts
  <2>3. \/ mt'.tried = mt.tried /\ Len(mt'.made) = Len(mt.made)
        \/ /\ mt.tried # mt.need /\ mt'.tried = mt.tried + 1
           /\ Len(mt'.made) = Len(mt.made) \/ Len(mt'.made) = Len(mt.made) + 1
    BY <1>3, <2>1
  <2> QED BY <1>3, <2>2, <2>3, SMT
<1>5. MaintainInv'
  BY <1>1, <1>3, <1>4, MaintainFacts DEF MaintainInv
<1>6. Kept' = Kept
  BY <1>1, <1>3 DEF Kept
<1>7. Upkeep
  BY <1>1, <1>5, <1>6, MaintainFacts, SMT DEF Upkeep
<1> QED BY <1>7, UpkeepStep

\* The new connections go to the queue and the rest of the reservation back.
LEMMA PoolStep == ASSUME PoolInv, PoolNew PROVE PoolInv'
<1>1. PICK pooled \in 0 .. Len(mt.made) :
        idle' = idle \o SubSeq(mt.made, 1, pooled) /\ total' = total - Unused(pooled)
  BY DEF PoolNew
<1>2. /\ mt.pc = "pool" /\ req' = NotifyAll(req)
      /\ UNCHANGED <<running, creating, stop, io, up>>
      /\ mt' = [Quiet EXCEPT !.pc = "take"] \/ mt' = NextRound
  BY DEF PoolNew
<1>3. SubSeq(mt.made, 1, pooled) \in Seq(Kinds) /\ Len(SubSeq(mt.made, 1, pooled)) = pooled
  BY <1>1, MaintainFacts, Parts
<1>4. idle' \in Seq(Kinds) /\ Len(idle') = Len(idle) + pooled /\ Len(idle') \in Nat
  BY <1>1, <1>3, MaintainFacts, Joined
<1>5. MaintainInv' /\ Kept' = Len(idle')
  BY <1>2, <1>4, EmptyRounds, EmptyHand
<1>6. Kept = Len(idle) + mt.need /\ pooled <= mt.need
  BY <1>2, MaintainFacts, SMT
<1>7. total' \in Int /\ total' <= MaxSize /\ total' + Kept = total + Kept'
  <2>1. pooled \in Nat
    BY <1>1, MaintainFacts, Within
  <2>2. total' = total - (mt.need - pooled)
    BY <1>1 DEF Unused
  <2>3. /\ MaxSize \in Nat /\ total \in Nat /\ total <= MaxSize
        /\ Len(idle) \in Nat /\ mt.need \in Nat /\ pooled <= mt.need
    BY <1>2, <1>6, MaintainFacts
  <2>4. /\ total - (mt.need - pooled) \in Int /\ total - (mt.need - pooled) <= MaxSize
        /\ (total - (mt.need - pooled)) + (Len(idle) + mt.need) = total + (Len(idle) + pooled)
    BY <2>1, <2>3, SMT
  <2> QED BY <1>4, <1>5, <1>6, <2>2, <2>4
<1>8. Upkeep
  BY <1>2, <1>4, <1>5, <1>7 DEF Upkeep
<1> QED BY <1>8, UpkeepStep

\* Connections are taken from the queue to be pinged.
LEMMA TakeStep == ASSUME PoolInv, TakeForPing PROVE PoolInv'
<1> DEFINE n == IF Len(idle) < MaxCheck THEN Len(idle) ELSE MaxCheck
<1>1. /\ mt.pc = "take" /\ UNCHANGED <<running, total, creating, req, stop, io, up>>
      /\ mt' = [mt EXCEPT !.pc = "ping", !.check = SubSeq(idle, 1, n)]
      /\ idle' = SubSeq(idle, n + 1, Len(idle))
  BY DEF TakeForPing
<1>2. n \in 0 .. Len(idle)
  BY MaintainFacts, PoolAssumption, SMT
<1> HIDE DEF n
<1>3. /\ SubSeq(idle, 1, n) \in Seq(Kinds) /\ Len(SubSeq(idle, 1, n)) = n
      /\ idle' \in Seq(Kinds) /\ Len(idle') = Len(idle) - n
  BY <1>1, <1>2, MaintainFacts, Parts
<1>4. "ping" \in MaintainPCs
  BY DEF MaintainPCs
<1>5. /\ mt' \in Maintainers /\ mt'.need = mt.need /\ mt'.tried = mt.tried
      /\ mt'.made = mt.made /\ mt'.check = SubSeq(idle, 1, n) /\ mt'.dead = mt.dead
      /\ mt'.pc = "ping"
  BY <1>1, <1>3, <1>4, MaintainFacts DEF Maintainers
<1>6. MaintainInv'
  BY <1>1, <1>5, MaintainFacts DEF MaintainInv
<1>7. Kept' = Kept
  <2>1. Kept = Len(idle) + mt.need + 0 + mt.dead
    BY <1>1, MaintainFacts
  <2>2. Kept' = (Len(idle) - n) + mt.need + n + mt.dead
    BY <1>3, <1>5 DEF Kept
  <2>3. Len(idle) \in Nat /\ n \in Nat /\ mt.need \in Nat /\ mt.dead \in Nat
    BY <1>2, MaintainFacts, SMT
  <2> QED BY <2>1, <2>2, <2>3, SMT
<1>8. Upkeep
  BY <1>1, <1>3, <1>6, <1>7, MaintainFacts, SMT DEF Upkeep
<1> QED BY <1>8, UpkeepStep

\* A PING leaves the queue s, the connections c to be pinged and d dead ones.
PingMove(s, c, d) ==
    /\ mt.pc = "ping"
    /\ mt' = [mt EXCEPT !.check = c, !.dead = d]
    /\ idle' = s
    /\ Len(s) + Len(c) + d = Len(idle) + Len(mt.check) + mt.dead
    /\ UNCHANGED <<running, total, creating, req, stop, io, up>>

LEMMA PingRecord ==
    ASSUME PoolInv, NEW s \in Seq(Kinds), NEW c \in Seq(Kinds), NEW d \in Nat,
           PingMove(s, c, d)
    PROVE  PoolInv'
<1>1. /\ mt' \in Maintainers /\ mt'.need = mt.need /\ mt'.tried = mt.tried
      /\ mt'.made = mt.made /\ mt'.check = c /\ mt'.dead = d /\ mt'.pc = "ping"
  BY MaintainFacts DEF Maintainers, PingMove
<1>2. MaintainInv'
  BY <1>1, MaintainFacts DEF MaintainInv, PingMove
<1>3. Kept' = Kept
  <2>1. Kept = Len(idle) + mt.need + Len(mt.check) + mt.dead
    BY MaintainFacts
  <2>2. Kept' = Len(s) + mt.need + Len(c) + d
    BY <1>1 DEF Kept, PingMove
  <2>3. /\ Len(idle) \in Nat /\ Len(mt.check) \in Nat /\ mt.need \in Nat
        /\ mt.dead \in Nat /\ Len(s) \in Nat /\ Len(c) \in Nat
    BY MaintainFacts, SMT
  <2> DEFINE i == Len(idle)  j == Len(s)  a == Len(c)  b == Len(mt.check)
             n == mt.need    e == mt.dead  x == Kept    y == Kept'
  <2>4. /\ i \in Nat /\ j \in Nat /\ a \in Nat /\ b \in Nat /\ n \in Nat /\ e \in Nat
        /\ x = i + n + b + e /\ y = j + n + a + d /\ j + a + d = i + b + e
    BY <2>1, <2>2, <2>3 DEF PingMove
  <2> HIDE DEF i, j, a, b, n, e, x, y
  <2>5. x = y
    BY <2>4, SMT
  <2> QED BY <2>5 DEF x, y
<1>4. Upkeep
  BY <1>2, <1>3, MaintainFacts, SMT DEF Upkeep, PingMove
<1> QED BY <1>4, UpkeepStep

\* One connection is pinged, or all that are left are freed.
LEMMA PingStep == ASSUME PoolInv, Ping PROVE PoolInv'
<1>0. /\ mt.pc = "ping" /\ mt.check # <<>>
      /\ UNCHANGED <<running, total, creating, req, stop, io, up>>
  BY DEF Ping
<1>1. /\ Tail(mt.check) \in Seq(Kinds) /\ Len(Tail(mt.check)) = Len(mt.check) - 1
      /\ <<>> \in Seq(Kinds) /\ Len(<<>>) = 0
      /\ Append(idle, "live") \in Seq(Kinds) /\ Len(Append(idle, "live")) = Len(idle) + 1
  <2>1. "live" \in Kinds
    BY DEF Kinds
  <2> QED BY <1>0, <2>1, MaintainFacts, SMT
<1>2. /\ Len(idle) \in Nat /\ Len(mt.check) \in Nat /\ mt.dead \in Nat
      /\ idle \in Seq(Kinds) /\ mt \in Maintainers
  BY MaintainFacts
<1> DEFINE rest == Tail(mt.check)
           more == Append(idle, "live")
<1>3. /\ rest \in Seq(Kinds) /\ more \in Seq(Kinds) /\ <<>> \in Seq(Kinds)
      /\ mt.dead + 1 \in Nat /\ mt.dead + Len(mt.check) \in Nat
      /\ Len(idle) + Len(rest) + (mt.dead + 1) = Len(idle) + Len(mt.check) + mt.dead
      /\ Len(more) + Len(rest) + mt.dead = Len(idle) + Len(mt.check) + mt.dead
      /\ Len(idle) + Len(<<>>) + (mt.dead + Len(mt.check))
            = Len(idle) + Len(mt.check) + mt.dead
  <2> DEFINE i == Len(idle)  b == Len(mt.check)  e == mt.dead
             r == Len(rest)  m == Len(more)  z == Len(<<>>)
  <2>1. /\ i \in Nat /\ b \in Nat /\ e \in Nat /\ r = b - 1 /\ m = i + 1 /\ z = 0
    BY <1>1, <1>2
  <2> HIDE DEF i, b, e, r, m, z
  <2>2. /\ e + 1 \in Nat /\ e + b \in Nat /\ i + r + (e + 1) = i + b + e
        /\ m + r + e = i + b + e /\ i + z + (e + b) = i + b + e
    BY <2>1, SMT
  <2> QED BY <1>1, <2>2 DEF i, b, e, r, m, z
<1>4. \/ PingMove(idle, <<>>, mt.dead + Len(mt.check))
      \/ PingMove(idle, rest, mt.dead + 1)
      \/ PingMove(more, rest, mt.dead)
  <2>1. \/ /\ mt' = [mt EXCEPT !.check = <<>>, !.dead = @ + Len(mt.check)]
           /\ idle' = idle
        \/ mt' = [mt EXCEPT !.check = Tail(@), !.dead = @ + 1] /\ idle' = idle
        \/ mt' = [mt EXCEPT !.check = Tail(@), !.dead = @] /\ idle' = more
    BY DEF Ping
  <2> HIDE DEF more, rest
  <2>2. CASE /\ mt' = [mt EXCEPT !.check = <<>>, !.dead = @ + Len(mt.check)]
             /\ idle' = idle
    BY <1>0, <1>2, <1>3, <2>2 DEF Maintainers, PingMove
  <2>3. CASE mt' = [mt EXCEPT !.check = Tail(@), !.dead = @ + 1] /\ idle' = idle
    BY <1>0, <1>2, <1>3, <2>3 DEF Maintainers, PingMove, rest
  <2>4. CASE mt' = [mt EXCEPT !.check = Tail(@), !.dead = @] /\ idle' = more
    BY <1>0, <1>2, <1>3, <2>4 DEF Maintainers, PingMove, rest
  <2> QED BY <2>1, <2>2, <2>3, <2>4
<1> HIDE DEF rest, more
<1>5. CASE PingMove(idle, <<>>, mt.dead + Len(mt.check))
  BY <1>2, <1>3, <1>5, PingRecord
<1>6. CASE PingMove(idle, rest, mt.dead + 1)
  BY <1>2, <1>3, <1>6, PingRecord
<1>7. CASE PingMove(more, rest, mt.dead)
  BY <1>2, <1>3, <1>7, PingRecord
<1> QED BY <1>4, <1>5, <1>6, <1>7

\* The dead connections are subtracted and the round ends.
LEMMA SettleStep == ASSUME PoolInv, Settle PROVE PoolInv'
<1>1. /\ mt.pc = "ping" /\ mt.check = <<>> /\ total' = total - mt.dead
      /\ req' = req \/ req' = NotifyAll(req)
      /\ mt' = NextRound /\ UNCHANGED <<running, creating, idle, stop, io, up>>
  BY DEF Settle
<1>2. MaintainInv' /\ Kept' = Len(idle)
  BY <1>1, EmptyRounds, EmptyHand, MaintainFacts
<1>3. Kept = Len(idle) + mt.dead
  <2>1. Len(mt.check) = 0
    BY <1>1, SMT
  <2> QED BY <1>1, <2>1, MaintainFacts, SMT
<1>4. total' \in Int /\ total' <= MaxSize /\ total' + Kept = total + Kept'
  <2>1. total \in Nat /\ Len(idle) \in Nat /\ mt.dead \in Nat
    BY MaintainFacts
  <2>2. total' \in Int /\ total' <= MaxSize
    BY <1>1, <2>1, LessTotal
  <2>3. total' + Kept = total + Kept'
    <3> DEFINE n == Len(idle)
               d == mt.dead
    <3>1. /\ n \in Nat /\ d \in Nat /\ total \in Nat /\ total' = total - d
          /\ Kept = n + d /\ Kept' = n
      BY <1>1, <1>2, <1>3, <2>1
    <3> HIDE DEF n, d
    <3> QED BY <3>1, SMT
  <2> QED BY <2>2, <2>3
<1>5. Upkeep
  BY <1>1, <1>2, <1>4, MaintainFacts DEF Upkeep
<1> QED BY <1>5, UpkeepStep

-----------------------------------------------------------------------------
(* Shutdown and the faults of Redis *)

\* shutdown() waits for the maintenance thread and for the workers, and
\* empties the queue under whatever commands still run.
LEMMA ShutdownStep == ASSUME PoolInv, Shutdown PROVE PoolInv'
<1>0. CommandInv /\ MaintainInv /\ CountInv /\ JoinInv
  BY DEF PoolInv
<1>1. CASE BeginShutdown \/ JoinMaintain \/ JoinWorkers
  <2>1. UNCHANGED <<total, creating, idle, req, mt, io, up>> /\ stop # "done"
    BY <1>1 DEF BeginShutdown, JoinMaintain, JoinWorkers
  <2>2. CommandInv' /\ MaintainInv'
    BY <1>0, <2>1 DEF CommandInv, CommandOf, MaxAttempts, MaintainInv
  <2>3. CountInv'
    BY <1>0, <2>1 DEF CountInv, Kept, At
  <2>4. JoinInv'
    BY <1>0, <1>1, <2>1 DEF JoinInv, BeginShutdown, JoinMaintain, JoinWorkers
  <2> QED BY <2>2, <2>3, <2>4 DEF PoolInv
<1>2. CASE NotifyStop
  <2>1. /\ stop = "notify" /\ stop' = "maintain" /\ req' = NotifyAll(req)
        /\ UNCHANGED <<running, total, creating, idle, mt, io, up>>
    BY <1>2 DEF NotifyStop
  <2>2. Wakes
    BY <1>0, <2>1, NotifyWakes
  <2>3. /\ CommandInv' /\ At(req', Holds) = At(req, Holds)
        /\ At(req', {"create"}) = At(req, {"create"})
        /\ io = "joined" => \A q \in Requests : req'[q].pc \notin OnThread
    BY <1>0, <2>2, WakesCommands, WakeCounts, WakesOffThread
  <2>4. MaintainInv' /\ CountInv'
    BY <1>0, <2>1, <2>3 DEF MaintainInv, CountInv, Kept, At, Holds
  <2>5. JoinInv'
    BY <1>0, <2>1, <2>3 DEF JoinInv, OnThread, Holds
  <2> QED BY <2>3, <2>4, <2>5 DEF PoolInv
<1>3. CASE FreeIdle
  <2>1. /\ stop = "free" /\ stop' = "done" /\ idle' = <<>> /\ total' = 0
        /\ UNCHANGED <<running, creating, req, mt, io, up>>
    BY <1>3 DEF FreeIdle
  <2>2. CommandInv' /\ MaintainInv'
    BY <1>0, <2>1 DEF CommandInv, CommandOf, MaxAttempts, MaintainInv
  <2>3. Kept' \in Nat /\ Kept \in Nat /\ Kept' <= Kept
    <3>1. Kept' = 0 + mt.need + Len(mt.check) + mt.dead
      BY <2>1 DEF Kept
    <3>2. /\ Kept = Len(idle) + mt.need + Len(mt.check) + mt.dead
          /\ Len(idle) \in Nat /\ mt.need \in Nat /\ Len(mt.check) \in Nat
          /\ mt.dead \in Nat
      BY MaintainFacts
    <3> QED BY <3>1, <3>2, FourParts
  <2>4. CountInv'
    <3>1. <<>> \in Seq(Kinds) /\ 0 \in 0 .. SizeMax
      BY PoolAssumption, SMT
    <3> DEFINE h == Cardinality(At(req, Holds))  k == Kept  l == Kept'
    <3>2. h \in Nat /\ k \in Nat /\ l \in Nat /\ l <= k /\ k + h <= MaxSize /\ MaxSize \in Nat
      BY <1>0, <2>3, CountsTyped, PoolAssumption DEF CountInv
    <3> HIDE DEF h, k, l
    <3>3. l + h <= MaxSize
      BY <3>2, SMT
    <3> QED BY <1>0, <2>1, <3>1, <3>3 DEF CountInv, At, h, l
  <2>5. JoinInv'
    BY <1>0, <2>1 DEF JoinInv
  <2> QED BY <2>2, <2>4, <2>5 DEF PoolInv
<1> QED BY <1>1, <1>2, <1>3 DEF Shutdown

\* The io threads are joined with no command on one of them.
LEMMA JoinIoStep == ASSUME PoolInv, JoinIo PROVE PoolInv'
<1>0. CommandInv /\ MaintainInv /\ CountInv /\ JoinInv
  BY DEF PoolInv
<1>1. /\ stop = "no" /\ Active = {} /\ io' = "joined"
      /\ UNCHANGED <<running, total, creating, idle, req, mt, stop, up>>
  BY DEF JoinIo
<1>2. CommandInv' /\ MaintainInv'
  BY <1>0, <1>1 DEF CommandInv, CommandOf, MaxAttempts, MaintainInv
<1>3. CountInv'
  BY <1>0, <1>1 DEF CountInv, Kept, At
<1>4. \A r \in Requests : req[r].pc \notin OnThread
  BY <1>1 DEF Active, OnThread, Holds
<1>5. JoinInv'
  BY <1>0, <1>1, <1>4 DEF JoinInv
<1> QED BY <1>2, <1>3, <1>5 DEF PoolInv

\* A sequence of connections of which all have been closed by Redis
LEMMA AllDead ==
    ASSUME NEW s \in Seq(Kinds)
    PROVE  /\ [i \in DOMAIN s |-> "dead"] \in Seq(Kinds)
           /\ Len([i \in DOMAIN s |-> "dead"]) = Len(s)
           /\ s = <<>> => [i \in DOMAIN s |-> "dead"] = <<>>
<1>1. DOMAIN s = 1 .. Len(s) /\ Len(s) \in Nat
  BY SMT
<1>2. "dead" \in Kinds
  BY DEF Kinds
<1> DEFINE t == [i \in 1 .. Len(s) |-> "dead"]
<1>3. t \in Seq(Kinds) /\ Len(t) = Len(s)
  BY <1>1, <1>2, SMT
<1> HIDE DEF t
<1>4. s = <<>> => t = <<>>
  BY <1>3, SMT
<1> QED BY <1>1, <1>3, <1>4 DEF t

\* Redis goes away: every connection stays where it is.
LEMMA OutageStep == ASSUME PoolInv, Outage PROVE PoolInv'
<1>0. CommandInv /\ MaintainInv /\ CountInv /\ JoinInv
  BY DEF PoolInv
<1>1. /\ up' = FALSE /\ UNCHANGED <<running, total, creating, stop, io>>
      /\ idle' = [i \in DOMAIN idle |-> "dead"]
      /\ req' = [r \in Requests |->
                  IF req[r].conn = "live" THEN [req[r] EXCEPT !.conn = "dead"] ELSE req[r]]
      /\ mt' = [mt EXCEPT !.check = [i \in DOMAIN @ |-> "dead"],
                          !.made = [i \in DOMAIN @ |-> "dead"]]
  BY DEF Outage
<1>2. ASSUME NEW r \in Requests
      PROVE  req'[r] \in Commands /\ req'[r].pc = req[r].pc /\ CommandOf(r, req'[r])
  <2>1. req[r] \in Commands /\ CommandOf(r, req[r])
    BY <1>0 DEF CommandInv
  <2>2. req'[r] = IF req[r].conn = "live" THEN [req[r] EXCEPT !.conn = "dead"] ELSE req[r]
    BY <1>1
  <2>3. CASE req[r].conn = "live"
    <3>1. "live" \in Kinds /\ "dead" \in Kinds
      BY DEF Kinds
    <3>2. /\ req'[r] \in Commands /\ req'[r].pc = req[r].pc /\ req'[r].conn = "dead"
          /\ req'[r].sent = req[r].sent /\ req'[r].attempt = req[r].attempt
      BY <2>1, <2>2, <2>3, <3>1 DEF Commands
    <3> QED BY <2>1, <2>3, <3>1, <3>2 DEF CommandOf
  <2>4. CASE req[r].conn # "live"
    BY <2>1, <2>2, <2>4
  <2> QED BY <2>3, <2>4
<1>3. CommandInv'
  <2>1. req' \in [Requests -> Commands]
    BY <1>1, <1>2
  <2> QED BY <1>2, <2>1 DEF CommandInv, CommandOf, MaxAttempts
<1>4. At(req', Holds) = At(req, Holds) /\ At(req', {"create"}) = At(req, {"create"})
  BY <1>2 DEF At
<1> DEFINE c == [i \in DOMAIN mt.check |-> "dead"]
           m == [i \in DOMAIN mt.made |-> "dead"]
<1>5. /\ c \in Seq(Kinds) /\ Len(c) = Len(mt.check) /\ (mt.check = <<>> => c = <<>>)
      /\ m \in Seq(Kinds) /\ Len(m) = Len(mt.made)
      /\ idle' \in Seq(Kinds) /\ Len(idle') = Len(idle) /\ (idle = <<>> => idle' = <<>>)
  BY <1>1, AllDead, MaintainFacts
<1>6. mt' = [mt EXCEPT !.check = c, !.made = m]
  <2>1. [mt EXCEPT !.check = c].made = mt.made
    BY MaintainFacts DEF Maintainers
  <2> QED BY <1>1, <2>1
<1> HIDE DEF c, m
<1>7. /\ mt' \in Maintainers /\ mt'.need = mt.need /\ mt'.tried = mt.tried
      /\ mt'.made = m /\ mt'.check = c /\ mt'.dead = mt.dead /\ mt'.pc = mt.pc
  BY <1>5, <1>6, MaintainFacts DEF Maintainers
<1>8. MaintainInv'
  BY <1>0, <1>5, <1>7 DEF MaintainInv
<1>9. Kept' = Kept
  BY <1>5, <1>7 DEF Kept
<1>10. CountInv'
  BY <1>0, <1>1, <1>4, <1>5, <1>9 DEF CountInv, At, Holds
<1>11. JoinInv'
  BY <1>0, <1>1, <1>2, <1>5, <1>7 DEF JoinInv
<1> QED BY <1>3, <1>8, <1>10, <1>11 DEF PoolInv

-----------------------------------------------------------------------------
(* Theorems *)

LEMMA InitPool == Init => PoolInv
<1> SUFFICES ASSUME Init PROVE PoolInv
  OBVIOUS
<1>1. PICK n \in 0 .. MinSize : idle = [i \in 1 .. n |-> "live"] /\ total = n
  BY DEF Init
<1>2. n \in Nat /\ n <= MaxSize
  BY <1>1, PoolAssumption, SMT
<1>3. idle \in Seq(Kinds) /\ Len(idle) = n
  BY <1>1, <1>2, SMT DEF Kinds
<1>4. Fresh \in Commands /\ Fresh.pc = "new"
      /\ Fresh.conn = NoConn /\ Fresh.sent = 0 /\ Fresh.attempt = 0
  <2>1. "new" \in CommandPCs
    BY DEF CommandPCs
  <2> QED BY <2>1, SMT DEF Fresh, Commands
<1>5. CommandInv
  <2>1. \A r \in Requests : CommandOf(r, Fresh)
    BY <1>4, SMT DEF CommandOf, Finished, MaxAttempts, NoConn, Kinds
  <2> QED BY <1>4, <2>1 DEF Init, CommandInv
<1>6. Empty(mt) /\ mt.pc = "wait"
  BY EmptyRounds DEF Init, Quiet
<1>7. MaintainInv /\ Kept = n
  <2>1. /\ mt.need = 0 /\ Len(mt.check) = 0 /\ mt.dead = 0 /\ Len(mt.made) = 0
        /\ mt.tried = 0 /\ mt \in Maintainers /\ mt.check = <<>>
    BY <1>6 DEF Empty
  <2> QED BY <1>2, <1>3, <2>1, SMT DEF MaintainInv, Kept
<1>8. At(req, Holds) = {} /\ At(req, {"create"}) = {}
  BY <1>4 DEF Init, At, Holds
<1>9. CountInv
  <2>1. Cardinality(At(req, Holds)) = 0 /\ Cardinality(At(req, {"create"})) = 0
    BY <1>8, FS_EmptySet
  <2>2. n + 0 = n /\ n \in 0 .. SizeMax /\ 0 <= MaxCreating
    BY <1>2, PoolAssumption, SMT
  <2> QED BY <1>1, <1>2, <1>3, <1>7, <2>1, <2>2 DEF CountInv, Init
<1>10. JoinInv
  BY <1>4 DEF Init, JoinInv
<1> QED BY <1>5, <1>7, <1>9, <1>10 DEF PoolInv

LEMMA StepPool == PoolInv /\ [Next]_vars => PoolInv'
<1> SUFFICES ASSUME PoolInv, [Next]_vars PROVE PoolInv'
  OBVIOUS
<1>1. CASE \E r \in Requests : Command(r)
  BY <1>1, WaitSteps, AcquireStep, CreateStep, OkStep, BrokenStep DEF Command
<1>2. CASE Maintain
  BY <1>2, WakesStep, RecycleStep, ReserveStep, FillStep, PoolStep, TakeStep, PingStep,
     SettleStep DEF Maintain
<1>3. CASE Recovery \/ UNCHANGED vars
  <2>1. UNCHANGED <<running, total, creating, idle, req, mt, stop, io>> /\ up' \in BOOLEAN
    BY <1>3 DEF Recovery, vars, PoolInv, JoinInv
  <2>2. CommandInv' /\ MaintainInv'
    BY <2>1 DEF PoolInv, CommandInv, CommandOf, MaxAttempts, MaintainInv
  <2>3. CountInv' /\ JoinInv'
    BY <2>1 DEF PoolInv, CountInv, Kept, At, JoinInv
  <2> QED BY <2>2, <2>3 DEF PoolInv
<1> QED BY <1>1, <1>2, <1>3, ShutdownStep, JoinIoStep, OutageStep DEF Next

\* In every reachable state of the pool a command holds a connection exactly
\* while it uses one, the maintenance thread holds connections only in the
\* phases that use them, total_ is the sum of what everyone holds until
\* shutdown() zeroes it, no io thread that was joined runs a command, and the
\* maintenance thread has ended once it is joined.
THEOREM PoolInvariant == Spec => []PoolInv
  BY InitPool, StepPool, PTL DEF Spec

\* Every variable has its type, and creating_ stays within max_creating_.
THEOREM TypeCorrect == Spec => []TypeOK
<1>1. ASSUME PoolInv PROVE TypeOK
  <2>1. /\ running \in BOOLEAN /\ up \in BOOLEAN /\ idle \in Seq(Kinds)
        /\ total \in 0 .. SizeMax /\ io \in {"run", "joined"}
        /\ Len(mt.made) <= mt.tried /\ mt.tried <= mt.need
    BY <1>1 DEF PoolInv, JoinInv, CountInv, MaintainInv
  <2>2. \A r \in Requests : (req[r].pc = "use") <=> (req[r].conn \in Kinds)
    BY <1>1 DEF PoolInv, CommandInv, CommandOf
  <2>3. creating \in 0 .. MaxCreating
    <3>1. creating \in Nat /\ creating <= MaxCreating
      BY <1>1, CountsTyped DEF PoolInv, CountInv
    <3> QED BY <3>1, PoolAssumption, SMT
  <2> QED BY <2>1, <2>2, <2>3 DEF TypeOK
<1> QED BY <1>1, PoolInvariant, PTL

\* Until shutdown() zeroes it total_ counts every connection and every
\* reservation once, whoever has it, and there are never more than max_size_:
\* no interleaving of commands, maintenance, faults and shutdown leaks a slot
\* or returns one twice.
THEOREM AccountingCorrect == Spec => []Accounting
<1>1. ASSUME PoolInv PROVE Accounting
  <2>1. At(req, Holds) = Holding /\ At(req, {"create"}) = {r \in Requests : req[r].pc = "create"}
    BY DEF At, Holds, Holding
  <2>2. creating = Cardinality({r \in Requests : req[r].pc = "create"})
    BY <1>1, <2>1 DEF PoolInv, CountInv
  <2>3. /\ stop # "done" => total = Kept + Cardinality(Holding)
        /\ Kept + Cardinality(Holding) <= MaxSize
        /\ Cardinality(Holding) \in Nat
    BY <1>1, <2>1, CountsTyped DEF PoolInv, CountInv
  <2>4. /\ Len(idle) \in Nat /\ mt.need \in Nat /\ Len(mt.check) \in Nat /\ mt.dead \in Nat
        /\ Kept = Len(idle) + mt.need + Len(mt.check) + mt.dead
    BY <1>1, MaintainFacts
  <2>5. Used = Kept + Cardinality(Holding)
    <3> DEFINE i == Len(idle)  h == Cardinality(Holding)  n == mt.need
               b == Len(mt.check)  e == mt.dead  k == Kept  u == Used
    <3>1. /\ i \in Nat /\ h \in Nat /\ n \in Nat /\ b \in Nat /\ e \in Nat
          /\ k = i + n + b + e /\ u = i + h + n + b + e
      BY <2>3, <2>4 DEF Used
    <3> HIDE DEF i, h, n, b, e, k, u
    <3>2. u = k + h
      BY <3>1, SMT
    <3> QED BY <3>2 DEF h, k, u
  <2> QED BY <2>2, <2>3, <2>5 DEF Accounting
<1> QED BY <1>1, PoolInvariant, PTL

\* When Application calls shutdown(), with its io threads joined, no connection
\* is left in the queue, in a command or with the maintenance thread after it.
THEOREM CleanStopCorrect == Spec => []CleanStop
<1>1. ASSUME PoolInv PROVE CleanStop
  <2> SUFFICES ASSUME stop = "done", io = "joined"
               PROVE  /\ idle = <<>> /\ total = 0 /\ Holding = {}
                      /\ mt = [Quiet EXCEPT !.pc = "exited"]
    BY DEF CleanStop
  <2>1. /\ idle = <<>> /\ total = 0 /\ mt.pc = "exited"
        /\ \A r \in Requests : req[r].pc \notin OnThread
    BY <1>1 DEF PoolInv, JoinInv
  <2>2. Holding = {}
    BY <2>1 DEF Holding, OnThread, Holds
  <2>3. /\ mt \in Maintainers /\ mt.need = 0 /\ mt.tried = 0 /\ mt.made = <<>>
        /\ mt.check = <<>> /\ mt.dead = 0
    BY <1>1, <2>1, MaintainFacts, SMT
  <2>4. mt = [pc |-> "exited", need |-> 0, tried |-> 0, made |-> <<>>,
              check |-> <<>>, dead |-> 0]
    BY <2>1, <2>3 DEF Maintainers
  <2>5. [Quiet EXCEPT !.pc = "exited"] =
          [pc |-> "exited", need |-> 0, tried |-> 0, made |-> <<>>,
           check |-> <<>>, dead |-> 0]
    BY SMT DEF Quiet
  <2> QED BY <2>1, <2>2, <2>4, <2>5
<1> QED BY <1>1, PoolInvariant, PTL

\* A command that is not idempotent reaches Redis at most once, whatever
\* breaks and whenever it is retried.
THEOREM WritesAtMostOnceCorrect == Spec => []WritesAtMostOnce
<1>1. ASSUME PoolInv PROVE WritesAtMostOnce
  <2> SUFFICES ASSUME NEW r \in Requests \ ReadOnly PROVE req[r].sent <= 1
    BY DEF WritesAtMostOnce
  <2>1. MaxAttempts(r) = 1
    BY DEF MaxAttempts
  <2>2. req[r] \in Commands /\ CommandOf(r, req[r])
    BY <1>1 DEF PoolInv, CommandInv
  <2>3. req[r].sent \in Nat /\ req[r].attempt \in Nat
    BY <2>2, SMT DEF Commands
  <2> QED BY <2>1, <2>2, <2>3, SMT DEF CommandOf
<1> QED BY <1>1, PoolInvariant, PTL
=============================================================================
