--------------------------- MODULE HttpInvariants ---------------------------
(***************************************************************************)
(* The inductive invariant of HttpPool: who refers to a pool, who holds    *)
(* one, what is on the wires, which slots the sessions have reserved and   *)
(* what the counters of the pools and of their shards count.               *)
(***************************************************************************)
EXTENDS HttpPool, Counting

\* The part of the state the lifetime of a pool depends on
RefType ==
    /\ table \subseteq Pools /\ prepared \subseteq Pools
    /\ life \in [Pools -> LifeStates]
    /\ pool \in [Actors -> Pools \cup {None}]

\* NoUseAfterDestroy is not inductive: a session takes its pool from the table, and a
\* reload takes a table from the prepared one, so both must hold live pools only.
RefInv ==
    /\ RefType
    /\ \A p \in table \cup prepared : life[p] = "live"
    /\ NoUseAfterDestroy

\* What may be on the wire of a connection in the pool or in a session's hands
Kept == {"clean", "thrown"}

\* A session between route() and the end of its attempts holds a pool, and its index is
\* that of a shard: the deque it pops is one of the deques the invariant speaks of.
HeldInv ==
    /\ pc \in [Actors -> ActorPCs]
    /\ shard \in [Requests -> Shards]
    /\ \A r \in Requests : pc[r] # "new" => pool[r] # None

WireInv ==
    /\ wire \in [Requests -> Kept]
    /\ idle \in [Pools -> [Shards -> Seq(Kept)]]

\* The slots S that a session at l has reserved
Fits(l, S) ==
    /\ l \in {"new", "sweep", "sweepTotal", "sweepBudget", "reserve"} => S = {}
    /\ l \in {"scan", "scanTotal", "scanBudget", "total"} => S = {"inFlight"}
    /\ l = "budget" => S = {"inFlight", "total"}
    /\ l \in {"track", "insert", "connect", "use", "release", "releaseBad", "dropped"}
          => S = Slots

HasInv ==
    /\ has \in [Requests -> SUBSET Slots]
    /\ \A r \in Requests : Fits(pc[r], has[r])
    /\ \A a \in Actors : pc[a] # "new" => pool[a] \in Pools

\* The shards know their connections.
OfShard == {"track", "connect", "use", "release", "releaseBad"}

ShardInv ==
    /\ shTotal \in [Pools -> [Shards -> Nat]] /\ shInFlight \in [Pools -> [Shards -> Nat]]
    /\ \A p \in Pools : \A h \in Shards :
          /\ shInFlight[p][h] = Cardinality(InShard(p, h))
          /\ shTotal[p][h] = Len(idle[p][h]) + Cardinality(InShard(p, h))

\* Shard::active holds what is being connected or used.
Users(p) == {r \in Requests : pool[r] = p /\ pc[r] \in {"connect", "use"}}

ActiveInv ==
    /\ active \in [Pools -> SUBSET Requests]
    /\ \A p \in Pools : active[p] = Users(p)

\* Every slot that is taken is taken by somebody.
SlotInv ==
    /\ IsFiniteSet(IdleConns(Pools))
    /\ total \in [Pools -> Nat] /\ inFlight \in [Pools -> Nat] /\ budget \in Nat
    /\ \A p \in Pools : /\ total[p] = Taken({p}, "total") /\ total[p] <= MaxSize
                        /\ inFlight[p] = Cardinality(Reserved({p}, "inFlight"))
    /\ budget = Taken(Pools, "budget")

PoolInv ==
    RefInv /\ HeldInv /\ WireInv /\ HasInv /\ SlotInv /\ ShardInv /\ ActiveInv

\* What no other invariant gives
RestType ==
    /\ ready \in BOOLEAN
    /\ maxConcurrent \in [Pools -> ConcurrencyLimits] /\ limit \in BudgetLimits
    /\ locked \in [Actors -> Shards \cup {None}]
    /\ tried \in [Requests -> Shards]
    /\ sock \in [Requests -> BOOLEAN] /\ reused \in [Requests -> BOOLEAN]
    /\ attempt \in [Requests -> 0..1] /\ again \in [Requests -> BOOLEAN]
=============================================================================
