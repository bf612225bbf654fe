--------------------------- MODULE HttpSlotProofs ---------------------------
(***************************************************************************)
(* The slots of the upstream pools and of the budget they share, for any   *)
(* number of sessions, pools, shards and any limits: total_count,          *)
(* in_flight_count and the budget count exactly what exists, whatever is   *)
(* evicted, reloaded or destroyed meanwhile.                               *)
(***************************************************************************)
EXTENDS HttpInvariants, TLAPS

USE ZenonT(30)

\* What an actor has of a slot
Owns(a, slot) == (a \in Requests /\ slot \in has[a]) \/ pc[a] \in EvictOwes(slot)

One(b) == IF b THEN 1 ELSE 0

\* The step concerns the actor a only.
OneActor(a) ==
    /\ \A b \in Actors \ {a} : pool'[b] = pool[b] /\ pc'[b] = pc[b]
    /\ \A b \in Requests \ {a} : has'[b] = has[b]
    /\ life' = life

\* The pool p has e idle connections more, the other pools as many as before.
IdleDelta(p, e) ==
    \A P \in SUBSET Pools :
        /\ IsFiniteSet(IdleConns(P)')
        /\ Cardinality(IdleConns(P)') = Cardinality(IdleConns(P)) + (IF p \in P THEN e ELSE 0)

\* IdleConns for the deques f
Places(f, P) == UNION {{<<p, h>>} \X DOMAIN f[p][h] : p \in P, h \in Shards}

LEMMA PlaceMember ==
    ASSUME NEW f, NEW P
    PROVE  \A x : x \in Places(f, P) <=>
              \E p \in P : \E h \in Shards : \E i \in DOMAIN f[p][h] : x = <<<<p, h>>, i>>
<1> DEFINE S(p, h) == {<<p, h>>} \X DOMAIN f[p][h]
<1>1. \A p, h : \A x : x \in S(p, h) <=> \E i \in DOMAIN f[p][h] : x = <<<<p, h>>, i>>
  BY SMT
<1>2. Places(f, P) = UNION {S(p, h) : p \in P, h \in Shards}
  BY SMT DEF Places
<1> HIDE DEF S
<1>3. \A x : x \in Places(f, P) <=> \E p \in P : \E h \in Shards : x \in S(p, h)
  BY <1>2, SMT
<1> QED BY <1>1, <1>3, SMT

LEMMA IdlePlaces ==
    ASSUME NEW P
    PROVE  IdleConns(P) = Places(idle, P) /\ IdleConns(P)' = Places(idle', P)
  BY SMT DEF IdleConns, Places

LEMMA Finite ==
    ASSUME Counting, IsFiniteSet(IdleConns(Pools)), NEW P \in SUBSET Pools, NEW w
    PROVE  /\ IsFiniteSet(IdleConns(P)) /\ Cardinality(IdleConns(P)) \in Nat
           /\ IsFiniteSet(Reserved(P, w)) /\ Cardinality(Reserved(P, w)) \in Nat
           /\ IsFiniteSet(Evicting(P, w)) /\ Cardinality(Evicting(P, w)) \in Nat
           /\ IsFiniteSet(Closing(P, w)) /\ Cardinality(Closing(P, w)) \in Nat
<1>1. IsFiniteSet(IdleConns(P))
  <2>1. IdleConns(P) \in SUBSET IdleConns(Pools)
    BY IdlePlaces, PlaceMember, SMT
  <2> QED BY <2>1 DEF Counting, SubsetsAreSmaller
<1>2. IsFiniteSet(Reserved(P, w))
  BY SetsAssumption DEF Reserved, Counting, SubsetsAreSmaller
<1>3. IsFiniteSet(Evicting(P, w))
  <2>1. IsFiniteSet(Actors)
    BY SetsAssumption, ZenonT(30) DEF Actors, Counting, UnionsAreFinite
  <2> QED BY <2>1 DEF Evicting, Counting, SubsetsAreSmaller
<1>4. IsFiniteSet(Closing(P, w))
  <2>1. IsFiniteSet(P)
    BY SetsAssumption DEF Counting, SubsetsAreSmaller
  <2> QED BY <2>1 DEF Closing, Counting, SubsetsAreSmaller
<1> QED BY <1>1, <1>2, <1>3, <1>4 DEF Counting, SizesAreNumbers

\* Only the actor's own slots change.
LEMMA ActorTaken ==
    ASSUME Counting, IsFiniteSet(IdleConns(Pools)), HasInv, HasInv', NEW a \in Actors, OneActor(a),
           NEW e \in Int, IdleDelta(pool[a], e), pool'[a] = pool[a],
           NEW P \in SUBSET Pools, NEW slot \in {"total", "budget"}
    PROVE  /\ Taken(P, slot) \in Nat /\ Taken(P, slot)' \in Nat
           /\ Taken(P, slot)' = Taken(P, slot)
                + (IF pool[a] \in P THEN e + One(Owns(a, slot)') - One(Owns(a, slot)) ELSE 0)
<1> DEFINE R == Reserved(P, slot)                E == Evicting(P, EvictOwes(slot))
           C == Closing(P, CloseOwes(slot))      I == IdleConns(P)
<1>1. /\ IsFiniteSet(R) /\ IsFiniteSet(E) /\ Cardinality(C) \in Nat
      /\ Cardinality(R) \in Nat /\ Cardinality(E) \in Nat /\ Cardinality(I) \in Nat
  BY Finite
<1>2. C' = C
  BY DEF Closing, OneActor
<1>3. R \ {a} = R' \ {a}
  BY DEF Reserved, OneActor, Actors
<1>4. E \ {a} = E' \ {a}
  BY DEF Evicting, OneActor
<1>5. Cardinality(R') \in Nat /\ Cardinality(R') = Cardinality(R) + In(a, R') - In(a, R)
  BY <1>1, <1>3 DEF Counting, OneElementCounts
<1>6. Cardinality(E') \in Nat /\ Cardinality(E') = Cardinality(E) + In(a, E') - In(a, E)
  BY <1>1, <1>4 DEF Counting, OneElementCounts
<1>7. /\ Cardinality(I') \in Nat
      /\ Cardinality(I') = Cardinality(I) + (IF pool[a] \in P THEN e ELSE 0)
  BY DEF IdleDelta, Counting, SizesAreNumbers
<1>8. In(a, R) + In(a, E) = IF pool[a] \in P THEN One(Owns(a, slot)) ELSE 0
  <2>1. ~(a \in R /\ a \in E)
    BY DEF HasInv, Fits, Reserved, Evicting, EvictOwes
  <2>2. a \in R \/ a \in E <=> pool[a] \in P /\ Owns(a, slot)
    BY DEF Reserved, Evicting, Owns
  <2> QED BY <2>1, <2>2, SMT DEF In, One
<1>9. In(a, R') + In(a, E') = IF pool[a] \in P THEN One(Owns(a, slot)') ELSE 0
  <2>1. ~(a \in R' /\ a \in E')
    BY DEF HasInv, Fits, Reserved, Evicting, EvictOwes
  <2>2. a \in R' \/ a \in E' <=> pool[a] \in P /\ Owns(a, slot)'
    BY DEF Reserved, Evicting, Owns
  <2> QED BY <2>1, <2>2, SMT DEF In, One
<1>10. /\ Taken(P, slot) = Cardinality(I) + Cardinality(R) + Cardinality(E) + Cardinality(C)
       /\ Taken(P, slot)' = Cardinality(I') + Cardinality(R') + Cardinality(E') + Cardinality(C)
  BY <1>2 DEF Taken
<1>11. /\ In(a, R) \in {0, 1} /\ In(a, R') \in {0, 1} /\ In(a, E) \in {0, 1}
       /\ In(a, E') \in {0, 1}
       /\ One(Owns(a, slot)) \in {0, 1} /\ One(Owns(a, slot)') \in {0, 1}
  BY DEF In, One
<1> DEFINE r == Cardinality(R)  x == Cardinality(E)  c == Cardinality(C)  i == Cardinality(I)
           r1 == Cardinality(R')  x1 == Cardinality(E')  i1 == Cardinality(I')
           ar == In(a, R)  ar1 == In(a, R')  ae == In(a, E)  ae1 == In(a, E')
           o == One(Owns(a, slot))  o1 == One(Owns(a, slot)')
           t == Taken(P, slot)  t1 == Taken(P, slot)'
<1>12. /\ r \in Nat /\ x \in Nat /\ c \in Nat /\ i \in Nat /\ o \in Int /\ o1 \in Int
       /\ ar \in Int /\ ar1 \in Int /\ ae \in Int /\ ae1 \in Int
       /\ r1 \in Nat /\ x1 \in Nat /\ i1 \in Nat
       /\ r1 = r + ar1 - ar /\ x1 = x + ae1 - ae
       /\ i1 = i + (IF pool[a] \in P THEN e ELSE 0)
       /\ ar + ae = (IF pool[a] \in P THEN o ELSE 0)
       /\ ar1 + ae1 = (IF pool[a] \in P THEN o1 ELSE 0)
       /\ t = i + r + x + c /\ t1 = i1 + r1 + x1 + c
  BY <1>1, <1>5, <1>6, <1>7, <1>8, <1>9, <1>10, <1>11, SMT
<1> HIDE DEF r, x, c, i, r1, x1, i1, ar, ar1, ae, ae1, o, o1, t, t1
<1>13. t \in Nat /\ t1 \in Nat /\ t1 = t + (IF pool[a] \in P THEN e + o1 - o ELSE 0)
  BY <1>12, SMT
<1> QED BY <1>13 DEF t, t1, o, o1

\* Nothing happens to the deques.
LEMMA IdleKeeps ==
    ASSUME Counting, IsFiniteSet(IdleConns(Pools)), idle' = idle, NEW p
    PROVE  IdleDelta(p, 0)
<1> SUFFICES ASSUME NEW P \in SUBSET Pools
             PROVE  /\ IsFiniteSet(IdleConns(P)')
                    /\ Cardinality(IdleConns(P)') = Cardinality(IdleConns(P)) + 0
  BY DEF IdleDelta
<1>1. IdleConns(P)' = IdleConns(P)
  BY SMT DEF IdleConns
<1>2. IsFiniteSet(IdleConns(P)) /\ Cardinality(IdleConns(P)) \in Nat
  BY Finite
<1> QED BY <1>1, <1>2, SMT

\* A deque grows or shrinks by one connection.
LEMMA IdleChanges ==
    ASSUME Counting, IsFiniteSet(IdleConns(Pools)), WireInv, WireInv',
           NEW p \in Pools, NEW h \in Shards, NEW e \in {-1, 1},
           \A q \in Pools : \A g \in Shards :
              (q = p /\ g = h) \/ idle'[q][g] = idle[q][g],
           Len(idle'[p][h]) = Len(idle[p][h]) + e
    PROVE  IdleDelta(p, e)
<1> SUFFICES ASSUME NEW P \in SUBSET Pools
             PROVE  /\ IsFiniteSet(IdleConns(P)')
                    /\ Cardinality(IdleConns(P)') =
                         Cardinality(IdleConns(P)) + (IF p \in P THEN e ELSE 0)
  BY DEF IdleDelta
<1> DEFINE n == Len(idle[p][h])
           k == IF e = 1 THEN n + 1 ELSE n
           x == <<<<p, h>>, k>>
           A == Places(idle, P)
           B == Places(idle', P)
<1>1. /\ n \in Nat /\ DOMAIN idle[p][h] = 1 .. n /\ DOMAIN idle'[p][h] = 1 .. (n + e)
      /\ n + e \in Nat
  BY SMT DEF WireInv
<1>2. /\ \A i : i # k => (i \in 1 .. n <=> i \in 1 .. (n + e))
      /\ k \in 1 .. n <=> e = -1
      /\ k \in 1 .. (n + e) <=> e = 1
  BY <1>1, SMT
<1>3. /\ \A y : y \in A <=> \E q \in P : \E g \in Shards :
                              \E i \in DOMAIN idle[q][g] : y = <<<<q, g>>, i>>
      /\ \A y : y \in B <=> \E q \in P : \E g \in Shards :
                              \E i \in DOMAIN idle'[q][g] : y = <<<<q, g>>, i>>
  BY PlaceMember, SMT
<1> HIDE DEF n, k, A, B
<1>4. A \ {x} \subseteq B
  <2> SUFFICES ASSUME NEW y \in A, y # x PROVE y \in B
    OBVIOUS
  <2>1. PICK q \in P, g \in Shards : \E i \in DOMAIN idle[q][g] : y = <<<<q, g>>, i>>
    BY <1>3, SMT
  <2>0. PICK i \in DOMAIN idle[q][g] : y = <<<<q, g>>, i>>
    BY <2>1
  <2>2. i \in DOMAIN idle'[q][g]
    <3>1. CASE q = p /\ g = h
      BY <1>1, <1>2, <2>0, <3>1 DEF x
    <3>2. CASE ~(q = p /\ g = h)
      BY <2>0, <3>2
    <3> QED BY <3>1, <3>2
  <2> QED BY <1>3, <2>0, <2>2
<1>5. B \ {x} \subseteq A
  <2> SUFFICES ASSUME NEW y \in B, y # x PROVE y \in A
    OBVIOUS
  <2>1. PICK q \in P, g \in Shards : \E i \in DOMAIN idle'[q][g] : y = <<<<q, g>>, i>>
    BY <1>3, SMT
  <2>0. PICK i \in DOMAIN idle'[q][g] : y = <<<<q, g>>, i>>
    BY <2>1
  <2>2. i \in DOMAIN idle[q][g]
    <3>1. CASE q = p /\ g = h
      BY <1>1, <1>2, <2>0, <3>1 DEF x
    <3>2. CASE ~(q = p /\ g = h)
      BY <2>0, <3>2
    <3> QED BY <3>1, <3>2
  <2> QED BY <1>3, <2>0, <2>2
<1>6. x \in A <=> p \in P /\ e = -1
  <2>1. x \in A <=> p \in P /\ k \in DOMAIN idle[p][h]
    BY <1>3, SMT
  <2> QED BY <1>1, <1>2, <2>1
<1>7. x \in B <=> p \in P /\ e = 1
  <2>1. x \in B <=> p \in P /\ k \in DOMAIN idle'[p][h]
    BY <1>3, SMT
  <2> QED BY <1>1, <1>2, <2>1
<1>8. A = IdleConns(P) /\ B = IdleConns(P)' /\ IsFiniteSet(A)
  <2>1. IsFiniteSet(IdleConns(P))
    BY Finite, ZenonT(30)
  <2> QED BY <2>1, IdlePlaces DEF A, B
<1> HIDE DEF x
<1>9. A \ {x} = B \ {x}
  BY <1>4, <1>5
<1>10. /\ IsFiniteSet(B) /\ Cardinality(A) \in Nat
       /\ Cardinality(B) = Cardinality(A) + In(x, B) - In(x, A)
  BY <1>8, <1>9, ZenonT(30) DEF Counting, OneElementCounts
<1>11. In(x, B) - In(x, A) = IF p \in P THEN e ELSE 0
  BY <1>6, <1>7, SMT DEF In
<1>12. In(x, A) \in Int /\ In(x, B) \in Int
  BY SMT DEF In
<1> QED BY <1>8, <1>10, <1>11, <1>12

\* An actor that uses a pool goes to l and keeps the pool; a session has the slots S then.
Moves(a, l, S) ==
    /\ pc[a] # "new" /\ l # "new"
    /\ pc' = [pc EXCEPT ![a] = l] /\ UNCHANGED <<pool, life>>
    /\ IF a \in Requests
       THEN S \in SUBSET Slots /\ Fits(l, S) /\ has' = [has EXCEPT ![a] = S]
       ELSE UNCHANGED has

Holds(a) == a \in Requests /\ "inFlight" \in has[a]

\* The counters follow what the actor takes and what it gives back.
Counts(a, e, f, g, k) ==
    /\ total' = [total EXCEPT ![pool[a]] = @ + f] /\ total[pool[a]] + f <= MaxSize
    /\ budget' = budget + g
    /\ inFlight' = [inFlight EXCEPT ![pool[a]] = @ + k]
    /\ f = e + One(Owns(a, "total")') - One(Owns(a, "total"))
    /\ g = e + One(Owns(a, "budget")') - One(Owns(a, "budget"))
    /\ k = One(Holds(a)') - One(Holds(a))

\* evict_stale_idle(), acquire() and shutdown() take a connection from a deque.
LEMMA PopPlace ==
    ASSUME Counting, SlotInv, WireInv, WireInv', NEW p \in Pools, NEW h \in Shards,
           idle[p][h] # <<>>, idle' = [idle EXCEPT ![p][h] = Tail(@)]
    PROVE  IdleDelta(p, -1)
<1>1. idle[p][h] \in Seq(Kept) /\ idle'[p][h] = Tail(idle[p][h])
  BY SMT DEF WireInv
<1>2. Len(idle'[p][h]) = Len(idle[p][h]) + (-1)
  <2> DEFINE s == idle[p][h]
  <2>1. s \in Seq(Kept) /\ s # <<>>
    BY <1>1
  <2> HIDE DEF s
  <2>2. Len(s) \in Nat /\ Len(Tail(s)) = Len(s) + (-1)
    BY <2>1, SMT
  <2> QED BY <1>1, <2>2, ZenonT(30) DEF s
<1>3. \A q \in Pools : \A g \in Shards : (q = p /\ g = h) \/ idle'[q][g] = idle[q][g]
  BY DEF WireInv
<1>4. IsFiniteSet(IdleConns(Pools))
  BY DEF SlotInv
<1>5. -1 \in {-1, 1}
  OBVIOUS
<1> QED BY <1>2, <1>3, <1>4, <1>5, IdleChanges, ZenonT(30)

\* release() puts one back.
LEMMA PushPlace ==
    ASSUME Counting, SlotInv, WireInv, WireInv', NEW p \in Pools, NEW h \in Shards,
           NEW w \in Kept, idle' = [idle EXCEPT ![p][h] = Append(@, w)]
    PROVE  IdleDelta(p, 1)
<1>1. idle[p][h] \in Seq(Kept) /\ idle'[p][h] = Append(idle[p][h], w)
  BY SMT DEF WireInv
<1>2. Len(idle'[p][h]) = Len(idle[p][h]) + 1
  BY <1>1, SMT
<1>3. \A q \in Pools : \A g \in Shards : (q = p /\ g = h) \/ idle'[q][g] = idle[q][g]
  BY DEF WireInv
<1>4. IsFiniteSet(IdleConns(Pools))
  BY DEF SlotInv
<1>5. 1 \in {-1, 1}
  OBVIOUS
<1> QED BY <1>2, <1>3, <1>4, <1>5, IdleChanges, ZenonT(30)

LEMMA MovesHas ==
    ASSUME HeldInv, HasInv, NEW a \in Actors, NEW l, NEW S, Moves(a, l, S)
    PROVE  HasInv' /\ OneActor(a) /\ pool' = pool /\ pool[a] \in Pools
<1>1. OneActor(a) /\ pool' = pool /\ pool[a] \in Pools
  <2>1. CASE a \in Requests
    BY <2>1 DEF OneActor, Moves, HasInv, HeldInv
  <2>2. CASE a \notin Requests
    BY <2>2 DEF OneActor, Moves, HasInv, HeldInv
  <2> QED BY <2>1, <2>2
<1>2. HasInv'
  <2>1. CASE a \in Requests
    <3>1. pc' = [pc EXCEPT ![a] = l] /\ has' = [has EXCEPT ![a] = S] /\ pool' = pool
          /\ S \in SUBSET Slots /\ Fits(l, S) /\ pc[a] # "new"
      BY <2>1 DEF Moves
    <3>2. has' \in [Requests -> SUBSET Slots]
      BY <3>1, ZenonT(30) DEF HasInv
    <3>3. ASSUME NEW r \in Requests PROVE Fits(pc'[r], has'[r])
      <4>1. CASE r = a
        <5>1. pc'[r] = l /\ has'[r] = S
          BY <3>1, <4>1 DEF HasInv, HeldInv
        <5> QED BY <3>1, <5>1
      <4>2. CASE r # a
        <5>1. pc'[r] = pc[r] /\ has'[r] = has[r]
          BY <3>1, <4>2 DEF HasInv, HeldInv, Actors
        <5> QED BY <5>1 DEF HasInv
      <4> QED BY <4>1, <4>2
    <3>4. \A b \in Actors : pc'[b] # "new" => pool'[b] \in Pools
      BY <3>1 DEF HasInv, HeldInv
    <3>5. \A r \in Requests : Fits(pc'[r], has'[r])
      BY <3>3
    <3>6. (\A r \in Requests : Fits(pc[r], has[r]))'
      BY <3>5 DEF Fits
    <3> QED BY <3>2, <3>4, <3>6 DEF HasInv
  <2>2. CASE a \notin Requests
    <3>1. pc' = [pc EXCEPT ![a] = l] /\ has' = has /\ pool' = pool /\ pc[a] # "new"
      BY <2>2 DEF Moves
    <3>2. \A r \in Requests : pc'[r] = pc[r]
      BY <2>2, <3>1 DEF HeldInv, Actors
    <3>3. (\A r \in Requests : Fits(pc[r], has[r]))'
      BY <3>1, <3>2 DEF HasInv, Fits
    <3>4. \A b \in Actors : pc'[b] # "new" => pool'[b] \in Pools
      BY <3>1 DEF HasInv, HeldInv
    <3> QED BY <3>1, <3>3, <3>4 DEF HasInv
  <2> QED BY <2>1, <2>2
<1> QED BY <1>1, <1>2

LEMMA ActorReserved ==
    ASSUME Counting, IsFiniteSet(IdleConns(Pools)), NEW a \in Actors, OneActor(a), pool' = pool,
           NEW P \in SUBSET Pools
    PROVE  /\ Cardinality(Reserved(P, "inFlight"))' \in Nat
           /\ Cardinality(Reserved(P, "inFlight"))' = Cardinality(Reserved(P, "inFlight"))
                + (IF pool[a] \in P THEN One(Holds(a)') - One(Holds(a)) ELSE 0)
<1> DEFINE R == Reserved(P, "inFlight")
<1>1. IsFiniteSet(R)
  BY Finite
<1>2. R \ {a} = R' \ {a}
  BY DEF Reserved, OneActor, Actors
<1>3. /\ Cardinality(R) \in Nat /\ Cardinality(R') \in Nat
      /\ Cardinality(R') = Cardinality(R) + In(a, R') - In(a, R)
  BY <1>1, <1>2 DEF Counting, OneElementCounts
<1>4. /\ In(a, R) = IF pool[a] \in P THEN One(Holds(a)) ELSE 0
      /\ In(a, R') = IF pool[a] \in P THEN One(Holds(a)') ELSE 0
  BY DEF In, One, Holds, Reserved
<1>5. In(a, R) \in Int /\ In(a, R') \in Int
  BY SMT DEF In
<1> HIDE DEF R
<1> QED BY <1>3, <1>4, <1>5, SMT DEF R

\* A step of an actor within its pool, whose counters follow it, keeps the accounts.
LEMMA SlotMoves ==
    ASSUME Counting, HeldInv, HasInv, SlotInv, NEW a \in Actors, NEW l, NEW S, Moves(a, l, S),
           NEW e \in Int, IdleDelta(pool[a], e),
           NEW f \in Int, NEW g \in Int, NEW k \in Int, Counts(a, e, f, g, k)
    PROVE  HasInv' /\ SlotInv'
<1> DEFINE q == pool[a]
<1>1. HasInv' /\ OneActor(a) /\ pool' = pool /\ q \in Pools
  BY MovesHas
<1>2. IsFiniteSet(IdleConns(Pools)) /\ IsFiniteSet(IdleConns(Pools)')
  BY DEF SlotInv, IdleDelta
<1>3. ASSUME NEW P \in SUBSET Pools
      PROVE  /\ Taken(P, "total") \in Nat /\ Taken(P, "total")' \in Nat
             /\ Taken(P, "total")' = Taken(P, "total") + (IF q \in P THEN f ELSE 0)
             /\ Taken(P, "budget") \in Nat /\ Taken(P, "budget")' \in Nat
             /\ Taken(P, "budget")' = Taken(P, "budget") + (IF q \in P THEN g ELSE 0)
             /\ Cardinality(Reserved(P, "inFlight"))' \in Nat
             /\ Cardinality(Reserved(P, "inFlight"))'
                  = Cardinality(Reserved(P, "inFlight")) + (IF q \in P THEN k ELSE 0)
  <2>1. pool'[a] = pool[a]
    BY <1>1
  <2>2. /\ Taken(P, "total") \in Nat /\ Taken(P, "total")' \in Nat
        /\ Taken(P, "total")' = Taken(P, "total") + (IF q \in P THEN f ELSE 0)
    BY <1>1, <1>2, <2>1, ActorTaken DEF Counts
  <2>3. /\ Taken(P, "budget") \in Nat /\ Taken(P, "budget")' \in Nat
        /\ Taken(P, "budget")' = Taken(P, "budget") + (IF q \in P THEN g ELSE 0)
    BY <1>1, <1>2, <2>1, ActorTaken DEF Counts
  <2>4. /\ Cardinality(Reserved(P, "inFlight"))' \in Nat
        /\ Cardinality(Reserved(P, "inFlight"))'
             = Cardinality(Reserved(P, "inFlight")) + (IF q \in P THEN k ELSE 0)
    BY <1>1, <1>2, ActorReserved DEF Counts
  <2> QED BY <2>2, <2>3, <2>4
<1>4. /\ total' = [total EXCEPT ![q] = @ + f] /\ total[q] + f <= MaxSize
      /\ budget' = budget + g /\ inFlight' = [inFlight EXCEPT ![q] = @ + k]
  BY DEF Counts
<1>5. /\ total \in [Pools -> Nat] /\ inFlight \in [Pools -> Nat] /\ budget \in Nat
      /\ \A p \in Pools : /\ total[p] = Taken({p}, "total") /\ total[p] <= MaxSize
                          /\ inFlight[p] = Cardinality(Reserved({p}, "inFlight"))
      /\ budget = Taken(Pools, "budget")
  BY DEF SlotInv
<1>6. /\ budget' \in Nat /\ budget' = Taken(Pools, "budget")'
  BY <1>1, <1>3, <1>4, <1>5
<1> HIDE DEF q
<1>7. ASSUME NEW p \in Pools
      PROVE  /\ total'[p] \in Nat /\ total'[p] = Taken({p}, "total")' /\ total'[p] <= MaxSize
             /\ inFlight'[p] \in Nat /\ inFlight'[p] = Cardinality(Reserved({p}, "inFlight"))'
  <2> DEFINE t == Taken({p}, "total")  t1 == Taken({p}, "total")'
             c == Cardinality(Reserved({p}, "inFlight"))
             c1 == Cardinality(Reserved({p}, "inFlight"))'
  <2>1. {p} \in SUBSET Pools /\ (q \in {p} <=> q = p)
    OBVIOUS
  <2>2. /\ t \in Nat /\ t1 \in Nat /\ t1 = t + (IF q = p THEN f ELSE 0)
        /\ c1 \in Nat /\ c1 = c + (IF q = p THEN k ELSE 0)
        /\ total[p] = t /\ total[p] <= MaxSize /\ inFlight[p] = c
        /\ total[p] \in Nat /\ inFlight[p] \in Nat
    BY <1>3, <1>5, <2>1
  <2> HIDE DEF t, t1, c, c1
  <2>3. /\ total'[p] = IF q = p THEN total[p] + f ELSE total[p]
        /\ inFlight'[p] = IF q = p THEN inFlight[p] + k ELSE inFlight[p]
    BY <1>1, <1>4, <1>5
  <2>4. total'[p] = t1 /\ inFlight'[p] = c1
    BY <2>2, <2>3, SMT
  <2>5. total'[p] <= MaxSize
    BY <1>4, <2>2, <2>3
  <2> QED BY <2>2, <2>4, <2>5 DEF t1, c1
<1>8. total' \in [Pools -> Nat] /\ inFlight' \in [Pools -> Nat]
  BY <1>4, <1>5, <1>7, ZenonT(30)
<1>9. /\ IsFiniteSet(IdleConns(Pools))'
      /\ (\A p \in Pools : /\ total[p] = Taken({p}, "total") /\ total[p] <= MaxSize
                           /\ inFlight[p] = Cardinality(Reserved({p}, "inFlight")))'
  BY <1>2, <1>7
<1> QED BY <1>1, <1>6, <1>8, <1>9 DEF SlotInv

\* Who has a slot is counted: decrement_counter() and release() of the budget do not
\* meet their guard against zero.
LEMMA OwnsPositive ==
    ASSUME Counting, SlotInv, HasInv, NEW a \in Actors, pool[a] \in Pools
    PROVE  /\ Owns(a, "total") => total[pool[a]] > 0
           /\ Owns(a, "budget") => budget > 0
           /\ Holds(a) => inFlight[pool[a]] > 0
<1>1. ASSUME NEW P \in SUBSET Pools, pool[a] \in P, NEW slot \in {"total", "budget"},
             Owns(a, slot)
      PROVE  Taken(P, slot) > 0
  <2> DEFINE R == Reserved(P, slot)  E == Evicting(P, EvictOwes(slot))
             C == Closing(P, CloseOwes(slot))  I == IdleConns(P)
  <2>1. /\ IsFiniteSet(R) /\ IsFiniteSet(E) /\ Cardinality(C) \in Nat
        /\ Cardinality(R) \in Nat /\ Cardinality(E) \in Nat /\ Cardinality(I) \in Nat
    BY Finite DEF SlotInv
  <2>2. a \in R \/ a \in E
    BY <1>1 DEF Reserved, Evicting, Owns
  <2>3. Cardinality(R) > 0 \/ Cardinality(E) > 0
    BY <2>1, <2>2, SMT DEF Counting, EmptyIsZero
  <2>4. Taken(P, slot) = Cardinality(I) + Cardinality(R) + Cardinality(E) + Cardinality(C)
    BY DEF Taken
  <2> HIDE DEF R, E, C, I
  <2> QED BY <2>1, <2>3, <2>4, SMT
<1>2. Holds(a) => Cardinality(Reserved({pool[a]}, "inFlight")) > 0
  <2>1. /\ IsFiniteSet(Reserved({pool[a]}, "inFlight"))
        /\ Cardinality(Reserved({pool[a]}, "inFlight")) \in Nat
    BY Finite DEF SlotInv
  <2>2. Holds(a) => a \in Reserved({pool[a]}, "inFlight")
    BY DEF Holds, Reserved
  <2> QED BY <2>1, <2>2, SMT DEF Counting, EmptyIsZero
<1> QED BY <1>1, <1>2 DEF SlotInv

\* Steps that touch no slot: an actor without one takes or drops its reference, or goes
\* on with what it has.
LEMMA SlotQuiet ==
    ASSUME SlotInv, UNCHANGED <<total, inFlight, budget, idle, has>>,
           \A p \in Pools : \A slot \in {"total", "budget"} :
              p \in Closing(Pools, CloseOwes(slot))' <=> p \in Closing(Pools, CloseOwes(slot)),
           \A a \in Actors : \/ pool'[a] = pool[a] /\ pc'[a] = pc[a]
                             \/ /\ a \in Requests => has[a] = {} \/ pool'[a] = pool[a]
                                /\ pc[a] \notin EvictOwes("budget")
                                /\ pc'[a] \notin EvictOwes("budget")
    PROVE  SlotInv'
<1>1. ASSUME NEW P \in SUBSET Pools, NEW slot \in {"total", "budget"}
      PROVE  Taken(P, slot)' = Taken(P, slot)
  <2>1. IdleConns(P)' = IdleConns(P)
    BY SMT DEF IdleConns
  <2>2. Reserved(P, slot)' = Reserved(P, slot)
    BY SMT DEF Reserved, Actors
  <2>3. Evicting(P, EvictOwes(slot))' = Evicting(P, EvictOwes(slot))
    BY DEF Evicting, EvictOwes
  <2>4. Closing(P, CloseOwes(slot))' = Closing(P, CloseOwes(slot))
    BY DEF Closing
  <2> QED BY <2>1, <2>2, <2>3, <2>4 DEF Taken
<1>2. \A P : Reserved(P, "inFlight")' = Reserved(P, "inFlight")
  BY SMT DEF Reserved, Actors
<1>3. IdleConns(Pools)' = IdleConns(Pools)
  BY SMT DEF IdleConns
<1>4. \A p \in Pools : /\ Taken({p}, "total")' = Taken({p}, "total")
                       /\ Cardinality(Reserved({p}, "inFlight"))'
                            = Cardinality(Reserved({p}, "inFlight"))
  BY <1>1, <1>2
<1>5. Taken(Pools, "budget")' = Taken(Pools, "budget")
  BY <1>1
<1> QED BY <1>3, <1>4, <1>5 DEF SlotInv

LEMMA QuietMoves ==
    ASSUME HeldInv, HasInv, SlotInv, NEW a \in Actors, NEW l, l # "new", pc[a] # "new",
           Goto(a, l), UNCHANGED <<pool, life, has, total, inFlight, budget, idle>>,
           pc[a] \notin EvictOwes("budget"), l \notin EvictOwes("budget"),
           a \in Requests => Fits(l, has[a])
    PROVE  HasInv' /\ SlotInv'
<1>1. Moves(a, l, IF a \in Requests THEN has[a] ELSE {})
  <2>1. CASE a \in Requests
    <3>1. has' = [has EXCEPT ![a] = has[a]] /\ has[a] \in SUBSET Slots
      BY <2>1 DEF HasInv
    <3> QED BY <2>1, <3>1, ZenonT(30) DEF Moves, Goto
  <2>2. CASE a \notin Requests
    BY <2>2 DEF Moves, Goto
  <2> QED BY <2>1, <2>2
<1>2. HasInv'
  BY <1>1, MovesHas
<1>3. \A b \in Actors : \/ pool'[b] = pool[b] /\ pc'[b] = pc[b]
                        \/ /\ pool'[b] = pool[b] /\ pc[b] \notin EvictOwes("budget")
                           /\ pc'[b] \notin EvictOwes("budget")
  BY DEF Goto, HeldInv
<1>4. \A p \in Pools : \A slot \in {"total", "budget"} :
        p \in Closing(Pools, CloseOwes(slot))' <=> p \in Closing(Pools, CloseOwes(slot))
  BY DEF Closing
<1>5. SlotInv'
  BY <1>3, <1>4, SlotQuiet
<1> QED BY <1>2, <1>5

\* The steps of a request that change no slot
LEMMA StayHas ==
    ASSUME HeldInv, HasInv, SlotInv, NEW r \in Requests,
           \/ ScanThrow(r) \/ ScanNext(r) \/ Track(r) \/ TrackThrow(r) \/ Insert(r)
           \/ InsertThrow(r) \/ ConnectOk(r) \/ ConnectFail(r) \/ ReleaseNoMemory(r)
           \/ ReleaseClosed(r) \/ BuildRefuses(r) \/ UseOk(r) \/ UseBad(r) \/ UseThrow(r)
    PROVE  HasInv' /\ SlotInv'
<1>0. r \in Actors
  BY DEF Actors
<1>1. UNCHANGED <<pool, life, has, total, inFlight, budget, idle>>
  <2>1. CASE ScanThrow(r) \/ ScanNext(r) \/ Track(r) \/ TrackThrow(r) \/ Insert(r)
    BY <2>1 DEF ScanThrow, ScanNext, Track, TrackThrow, Insert, callVars, poolVars, tableVars
  <2>2. CASE InsertThrow(r) \/ ConnectOk(r) \/ ConnectFail(r) \/ ReleaseNoMemory(r)
             \/ ReleaseClosed(r)
    BY <2>2 DEF InsertThrow, ConnectOk, ConnectFail, ReleaseNoMemory, ReleaseClosed,
       callVars, poolVars, tableVars
  <2>3. CASE BuildRefuses(r) \/ UseOk(r) \/ UseBad(r) \/ UseThrow(r)
    BY <2>3 DEF BuildRefuses, UseOk, UseBad, UseThrow, EndUse, tableVars
  <2> QED BY <2>1, <2>2, <2>3
<1>2. \E l : /\ Goto(r, l)
             /\ \/ pc[r] = "scan" /\ l \in {"scan", "total", "giveBack"}
                \/ pc[r] \in OfShard \cup {"insert"} /\ l \in OfShard \cup {"dropped", "giveBack"}
  <2>1. CASE ScanThrow(r) \/ ScanNext(r)
    BY <2>1 DEF ScanThrow, ScanNext
  <2>2. CASE Track(r) \/ TrackThrow(r) \/ Insert(r) \/ InsertThrow(r) \/ ConnectOk(r)
    BY <2>2 DEF Track, TrackThrow, Insert, InsertThrow, ConnectOk, OfShard
  <2>3. CASE ConnectFail(r) \/ ReleaseNoMemory(r) \/ ReleaseClosed(r)
    BY <2>3 DEF ConnectFail, ReleaseNoMemory, ReleaseClosed, OfShard
  <2>4. ASSUME NEW l \in {"release", "releaseBad"}, EndUse(r, l)
        PROVE  Goto(r, l) /\ pc[r] \in OfShard /\ l \in OfShard
    BY <2>4 DEF EndUse, OfShard
  <2>5. CASE BuildRefuses(r) \/ UseBad(r) \/ UseThrow(r)
    BY <2>4, <2>5 DEF BuildRefuses, UseBad, UseThrow
  <2>6. CASE UseOk(r)
    BY <2>4, <2>6 DEF UseOk
  <2> QED BY <2>1, <2>2, <2>3, <2>5, <2>6
<1>3. PICK l : /\ Goto(r, l)
               /\ \/ pc[r] = "scan" /\ l \in {"scan", "total", "giveBack"}
                  \/ /\ pc[r] \in OfShard \cup {"insert"}
                     /\ l \in OfShard \cup {"dropped", "giveBack"}
  BY <1>2
<1>4. Fits(pc[r], has[r])
  BY DEF HasInv
<1>5. Fits(l, has[r])
  BY <1>3, <1>4 DEF Fits, OfShard
<1>6. /\ pc[r] # "new" /\ l # "new" /\ pc[r] \notin EvictOwes("budget")
      /\ l \notin EvictOwes("budget")
  BY <1>3 DEF OfShard, EvictOwes
<1> QED BY <1>0, <1>1, <1>3, <1>5, <1>6, QuietMoves

\* An actor without slots takes a reference to a pool or drops it.
LEMMA ReferHas ==
    ASSUME HeldInv, RefInv, HasInv, SlotInv, NEW a \in Actors, NEW l, Goto(a, l),
           NEW p \in Pools \cup {None}, pool' = [pool EXCEPT ![a] = p],
           p \in Pools \/ l = "new", l \notin EvictOwes("budget"),
           pc[a] \notin EvictOwes("budget"),
           a \in Requests => has[a] = {} /\ Fits(l, {}),
           UNCHANGED <<life, has, total, inFlight, budget, idle>>
    PROVE  HasInv' /\ SlotInv'
<1>1. \A b \in Actors \ {a} : pool'[b] = pool[b] /\ pc'[b] = pc[b]
  BY DEF Goto, HeldInv, RefInv, RefType
<1>2. pc'[a] = l /\ pool'[a] = p
  BY DEF Goto, HeldInv, RefInv, RefType
<1>3. \A b \in Actors : pc'[b] # "new" => pool'[b] \in Pools
  BY <1>1, <1>2 DEF HasInv
<1>4. ASSUME NEW r \in Requests PROVE Fits(pc'[r], has'[r])
  <2>1. CASE r = a
    BY <1>2, <2>1
  <2>2. CASE r # a
    <3>1. pc'[r] = pc[r] /\ has'[r] = has[r]
      BY <1>1, <2>2 DEF Actors
    <3> QED BY <3>1 DEF HasInv
  <2> QED BY <2>1, <2>2
<1>5. (\A r \in Requests : Fits(pc[r], has[r]))'
  BY <1>4 DEF Fits
<1>6. HasInv'
  BY <1>3, <1>5 DEF HasInv
<1>7. \A b \in Actors : \/ pool'[b] = pool[b] /\ pc'[b] = pc[b]
                        \/ /\ b \in Requests => has[b] = {}
                           /\ pc[b] \notin EvictOwes("budget")
                           /\ pc'[b] \notin EvictOwes("budget")
  BY <1>1, <1>2
<1>8. \A q \in Pools : \A slot \in {"total", "budget"} :
        q \in Closing(Pools, CloseOwes(slot))' <=> q \in Closing(Pools, CloseOwes(slot))
  BY DEF Closing
<1>9. SlotInv'
  BY <1>7, <1>8, SlotQuiet
<1> QED BY <1>6, <1>9

\* route(), evict_stale() and the answers without a connection
LEMMA RouteHas ==
    ASSUME HeldInv, RefInv, HasInv, SlotInv, NEW a \in Actors,
           \/ a \in Sweepers /\ StatsSweep(a)
           \/ SweepDone(a)
           \/ a \in Requests /\ (RouteRequest(a) \/ RefuseInFlight(a) \/ EndAttempt(a))
    PROVE  HasInv' /\ SlotInv'
<1>1. a \in Requests => a \notin Sweepers /\ Fits(pc[a], has[a])
  BY SetsAssumption DEF HasInv
<1>2. CASE a \in Sweepers /\ StatsSweep(a)
  <2>1. PICK p \in table : pool' = [pool EXCEPT ![a] = p]
    BY <1>2, ZenonT(30) DEF StatsSweep
  <2>2. p \in Pools
    BY DEF RefInv, RefType
  <2>3. UNCHANGED <<life, has, total, inFlight, budget, idle>> /\ pc[a] = "new" /\ Goto(a, "sweep")
    BY <1>2 DEF StatsSweep, tableVars, poolVars, callVars
  <2>4. "sweep" \notin EvictOwes("budget") /\ "new" \notin EvictOwes("budget")
    BY DEF EvictOwes
  <2> QED BY <1>1, <1>2, <2>1, <2>2, <2>3, <2>4, ReferHas, ZenonT(30)
<1>3. CASE a \in Requests /\ RouteRequest(a)
  <2>1. PICK p \in table : pool' = [pool EXCEPT ![a] = p]
    BY <1>3, ZenonT(30) DEF RouteRequest
  <2>2. p \in Pools
    BY DEF RefInv, RefType
  <2>3. UNCHANGED <<life, has, total, inFlight, budget, idle>> /\ pc[a] = "new" /\ Goto(a, "sweep")
    BY <1>3 DEF RouteRequest, tableVars, poolVars, callVars
  <2>4. "sweep" \notin EvictOwes("budget") /\ "new" \notin EvictOwes("budget")
    BY DEF EvictOwes
  <2>5. has[a] = {} /\ Fits("sweep", {})
    BY <1>1, <1>3, <2>3 DEF Fits
  <2> QED BY <2>1, <2>2, <2>3, <2>4, <2>5, ReferHas, ZenonT(30)
<1>4. ASSUME a \in Requests => has[a] = {}, Goto(a, "new"), pool' = [pool EXCEPT ![a] = None],
             UNCHANGED <<life, has, total, inFlight, budget, idle>>,
             pc[a] \notin EvictOwes("budget")
      PROVE  HasInv' /\ SlotInv'
  <2>1. "new" \notin EvictOwes("budget") /\ Fits("new", {})
    BY DEF EvictOwes, Fits
  <2> QED BY <1>4, <2>1, ReferHas, ZenonT(30)
<1>5. ASSUME a \in Requests => has[a] = {}, NEW l \in {"sweep", "reserve"}, Goto(a, l),
             pool' = pool, UNCHANGED <<life, has, total, inFlight, budget, idle>>,
             pc[a] # "new", pc[a] \notin EvictOwes("budget")
      PROVE  HasInv' /\ SlotInv'
  <2>1. l \notin EvictOwes("budget") /\ l # "new" /\ Fits(l, {})
    BY DEF EvictOwes, Fits
  <2> QED BY <1>5, <2>1, QuietMoves
<1>6. CASE SweepDone(a)
  <2>1. /\ pc[a] = "sweep" /\ UNCHANGED <<life, has, total, inFlight, budget, idle>>
        /\ \/ Goto(a, "new") /\ pool' = [pool EXCEPT ![a] = None]
           \/ Goto(a, "reserve") /\ pool' = pool
    BY <1>6 DEF SweepDone, tableVars, poolVars, callVars
  <2>2. a \in Requests => has[a] = {}
    BY <1>1, <2>1 DEF Fits
  <2>3. pc[a] # "new" /\ pc[a] \notin EvictOwes("budget")
    BY <2>1 DEF EvictOwes
  <2> QED BY <1>4, <1>5, <2>1, <2>2, <2>3
<1>7. CASE a \in Requests /\ RefuseInFlight(a)
  <2>1. /\ pc[a] = "reserve" /\ UNCHANGED <<life, has, total, inFlight, budget, idle>>
        /\ Goto(a, "new") /\ pool' = [pool EXCEPT ![a] = None]
    BY <1>7 DEF RefuseInFlight, tableVars, poolVars
  <2>2. has[a] = {} /\ pc[a] \notin EvictOwes("budget")
    BY <1>1, <1>7, <2>1 DEF Fits, EvictOwes
  <2> QED BY <1>4, <2>1, <2>2
<1>8. CASE a \in Requests /\ EndAttempt(a)
  <2>1. /\ pc[a] = "giveBack" /\ has[a] = {} /\ UNCHANGED <<life, has, total, inFlight, budget, idle>>
    BY <1>8 DEF EndAttempt, tableVars, poolVars
  <2>2. \/ Goto(a, "sweep") /\ pool' = pool
        \/ Goto(a, "new") /\ pool' = [pool EXCEPT ![a] = None]
    BY <1>8, Zenon DEF EndAttempt
  <2>3. pc[a] # "new" /\ pc[a] \notin EvictOwes("budget")
    BY <2>1 DEF EvictOwes
  <2> QED BY <1>4, <1>5, <2>1, <2>2, <2>3
<1> QED BY <1>2, <1>3, <1>6, <1>7, <1>8

\* The counters of the pool of an actor, when it takes or gives back nothing
LEMMA SameCounters ==
    ASSUME SlotInv, NEW a \in Actors, pool[a] \in Pools
    PROVE  /\ total = [total EXCEPT ![pool[a]] = @ + 0] /\ total[pool[a]] + 0 <= MaxSize
           /\ budget = budget + 0
           /\ inFlight = [inFlight EXCEPT ![pool[a]] = @ + 0]
<1>1. /\ total \in [Pools -> Nat] /\ inFlight \in [Pools -> Nat] /\ budget \in Nat
      /\ total[pool[a]] <= MaxSize
  BY ZenonT(30) DEF SlotInv
<1>2. /\ total[pool[a]] + 0 = total[pool[a]] /\ inFlight[pool[a]] + 0 = inFlight[pool[a]]
      /\ budget = budget + 0
  BY <1>1, SMT
<1>3. total = [total EXCEPT ![pool[a]] = total[pool[a]]]
  BY <1>1
<1>4. inFlight = [inFlight EXCEPT ![pool[a]] = inFlight[pool[a]]]
  BY <1>1
<1> QED BY <1>1, <1>2, <1>3, <1>4

\* Eviction: the socket leaves the deque, then total_count and the budget follow.
LEMMA EvictHas ==
    ASSUME Counting, HeldInv, RefInv, WireInv, WireInv', HasInv, SlotInv, NEW a \in Actors,
           NEW h \in Shards, EvictFrom(a, h),
           \/ pc[a] = "sweep" /\ Goto(a, "sweepTotal")
           \/ a \in Requests /\ pc[a] = "scan" /\ Goto(a, "scanTotal")
    PROVE  HasInv' /\ SlotInv'
<1> DEFINE l == IF pc[a] = "sweep" THEN "sweepTotal" ELSE "scanTotal"
           S == IF a \in Requests THEN has[a] ELSE {}
<1>1. pc[a] \in {"sweep", "scan"} /\ Goto(a, l) /\ pool[a] \in Pools
  BY DEF HasInv
<1>2. /\ UNCHANGED <<pool, life, has, total, inFlight, budget>>
      /\ idle[pool[a]][h] # <<>>
      /\ idle' = [idle EXCEPT ![pool[a]][h] = Tail(@)]
  BY DEF EvictFrom, tableVars, callVars
<1>3. IdleDelta(pool[a], -1)
  BY <1>1, <1>2, PopPlace, ZenonT(30)
<1>4. Moves(a, l, S)
  <2>1. CASE a \in Requests
    <3>1. has' = [has EXCEPT ![a] = has[a]] /\ has[a] \in SUBSET Slots
      BY <1>2, <2>1 DEF HasInv
    <3>2. Fits(l, has[a])
      BY <1>1, <2>1 DEF HasInv, Fits
    <3> QED BY <1>1, <1>2, <2>1, <3>1, <3>2, ZenonT(30) DEF Moves, Goto
  <2>2. CASE a \notin Requests
    BY <1>1, <1>2, <2>2 DEF Moves, Goto
  <2> QED BY <2>1, <2>2
<1>5. pc'[a] = l
  BY <1>1 DEF Goto, HeldInv
<1>6. /\ ~Owns(a, "total") /\ ~Owns(a, "budget")
  BY <1>1, SMT DEF Owns, EvictOwes, HasInv, Fits
<1>7. /\ Owns(a, "total")' /\ Owns(a, "budget")'
  BY <1>5 DEF Owns, EvictOwes
<1>8. Holds(a)' <=> Holds(a)
  BY <1>2 DEF Holds
<1>9. Counts(a, -1, 0, 0, 0)
  <2>1. /\ One(Owns(a, "total")) = 0 /\ One(Owns(a, "budget")) = 0
        /\ One(Owns(a, "total")') = 1 /\ One(Owns(a, "budget")') = 1
        /\ One(Holds(a)') - One(Holds(a)) = 0
    BY <1>6, <1>7, <1>8, SMT DEF One
  <2> QED BY <1>1, <1>2, <2>1, SameCounters, SMT DEF Counts
<1> QED BY <1>3, <1>4, <1>9, SlotMoves, SMT

LEMMA EvictedHas ==
    ASSUME Counting, HeldInv, HasInv, SlotInv, NEW a \in Actors, EvictGiveTotal(a) \/ EvictGiveBudget(a)
    PROVE  HasInv' /\ SlotInv'
<1> DEFINE S == IF a \in Requests THEN has[a] ELSE {}
<1>0. /\ total \in [Pools -> Nat] /\ inFlight \in [Pools -> Nat] /\ budget \in Nat
      /\ \A p \in Pools : total[p] <= MaxSize
  BY ZenonT(30) DEF SlotInv
<1>1. ASSUME NEW l, l # "new", pc[a] # "new", Goto(a, l), UNCHANGED <<pool, life, has>>,
             a \in Requests => Fits(l, has[a])
      PROVE  Moves(a, l, S)
  <2>1. CASE a \in Requests
    <3>1. has' = [has EXCEPT ![a] = has[a]] /\ has[a] \in SUBSET Slots
      BY <1>1, <2>1 DEF HasInv
    <3> QED BY <1>1, <2>1, <3>1, ZenonT(30) DEF Moves, Goto
  <2>2. CASE a \notin Requests
    BY <1>1, <2>2 DEF Moves, Goto
  <2> QED BY <2>1, <2>2
<1>2. CASE EvictGiveTotal(a)
  <2>1. PICK l \in {"sweepBudget", "scanBudget"} :
            /\ Goto(a, l) /\ pc[a] \in {"sweepTotal", "scanTotal"}
            /\ pc[a] = "sweepTotal" <=> l = "sweepBudget"
    BY <1>2 DEF EvictGiveTotal
  <2>2. /\ UNCHANGED <<pool, life, has, inFlight, budget, idle>>
        /\ total' = [total EXCEPT ![pool[a]] = Dec(@)]
    BY <1>2 DEF EvictGiveTotal, tableVars, callVars
  <2>3. pool[a] \in Pools
    BY <2>1 DEF HasInv
  <2>4. Moves(a, l, S)
    BY <1>1, <2>1, <2>2 DEF HasInv, Fits
  <2>5. pc'[a] = l
    BY <2>1 DEF Goto, HeldInv
  <2>6. Owns(a, "total") /\ Owns(a, "budget")
    BY <2>1 DEF Owns, EvictOwes
  <2>7. ~Owns(a, "total")' /\ Owns(a, "budget")'
    BY <2>1, <2>2, <2>5, SMT DEF Owns, EvictOwes, HasInv, Fits
  <2>8. total[pool[a]] > 0
    BY <2>3, <2>6, OwnsPositive
  <2>9. Counts(a, 0, -1, 0, 0)
    <3>1. /\ One(Owns(a, "total")) = 1 /\ One(Owns(a, "budget")) = 1
          /\ One(Owns(a, "total")') = 0 /\ One(Owns(a, "budget")') = 1
          /\ One(Holds(a)') - One(Holds(a)) = 0
      BY <2>2, <2>6, <2>7, SMT DEF One, Holds
    <3>2. Dec(total[pool[a]]) = total[pool[a]] + (-1) /\ total[pool[a]] + (-1) <= MaxSize
      BY <1>0, <2>3, <2>8, NumbersAssumption, SMT DEF Dec
    <3>3. total' = [total EXCEPT ![pool[a]] = @ + (-1)]
      BY <2>2, <3>2
    <3> QED BY <2>2, <2>3, <3>1, <3>2, <3>3, SameCounters, SMT DEF Counts
  <2>10. IdleDelta(pool[a], 0)
    BY <2>2, IdleKeeps DEF SlotInv
  <2>11. 0 \in Int /\ -1 \in Int
    BY SMT
  <2> QED BY <2>4, <2>9, <2>10, <2>11, SlotMoves, ZenonT(30)
<1>3. CASE EvictGiveBudget(a)
  <2>1. PICK l \in {"sweep", "scan"} :
            /\ Goto(a, l) /\ pc[a] \in {"sweepBudget", "scanBudget"}
            /\ pc[a] = "sweepBudget" <=> l = "sweep"
    BY <1>3 DEF EvictGiveBudget
  <2>2. /\ UNCHANGED <<pool, life, has, inFlight, total, idle>>
        /\ budget' = Dec(budget)
    BY <1>3 DEF EvictGiveBudget, tableVars, callVars, poolVars
  <2>3. pool[a] \in Pools
    BY <2>1 DEF HasInv
  <2>4. Moves(a, l, S)
    BY <1>1, <2>1, <2>2 DEF HasInv, Fits
  <2>5. pc'[a] = l
    BY <2>1 DEF Goto, HeldInv
  <2>6. ~Owns(a, "total") /\ Owns(a, "budget")
    BY <2>1, SMT DEF Owns, EvictOwes, HasInv, Fits
  <2>7. ~Owns(a, "total")' /\ ~Owns(a, "budget")'
    BY <2>1, <2>2, <2>5, SMT DEF Owns, EvictOwes, HasInv, Fits
  <2>8. budget > 0
    BY <2>3, <2>6, OwnsPositive
  <2>9. Counts(a, 0, 0, -1, 0)
    <3>1. /\ One(Owns(a, "total")) = 0 /\ One(Owns(a, "budget")) = 1
          /\ One(Owns(a, "total")') = 0 /\ One(Owns(a, "budget")') = 0
          /\ One(Holds(a)') - One(Holds(a)) = 0
      BY <2>2, <2>6, <2>7, SMT DEF One, Holds
    <3>2. budget' = budget + (-1)
      BY <1>0, <2>2, <2>8 DEF Dec
    <3> QED BY <2>2, <2>3, <3>1, <3>2, SameCounters, SMT DEF Counts
  <2>10. IdleDelta(pool[a], 0)
    BY <2>2, IdleKeeps DEF SlotInv
  <2>11. 0 \in Int /\ -1 \in Int
    BY SMT
  <2> QED BY <2>4, <2>9, <2>10, <2>11, SlotMoves, ZenonT(30)
<1> QED BY <1>2, <1>3

\* A request goes on with the slots S, and the counters of its pool follow.
Takes(r, l, S, e, f, g, k) ==
    /\ pc[r] \notin EvictOwes("budget") \cup {"new"} /\ l \notin EvictOwes("budget") \cup {"new"}
    /\ S \in SUBSET Slots /\ Fits(l, S)
    /\ pc' = [pc EXCEPT ![r] = l] /\ has' = [has EXCEPT ![r] = S] /\ UNCHANGED <<pool, life>>
    /\ total' = [total EXCEPT ![pool[r]] = @ + f] /\ total[pool[r]] + f <= MaxSize
    /\ budget' = budget + g
    /\ inFlight' = [inFlight EXCEPT ![pool[r]] = @ + k]
    /\ f = e + In("total", S) - In("total", has[r])
    /\ g = e + In("budget", S) - In("budget", has[r])
    /\ k = In("inFlight", S) - In("inFlight", has[r])

LEMMA TakesSlots ==
    ASSUME Counting, HeldInv, HasInv, SlotInv, NEW r \in Requests, NEW l, NEW S,
           NEW e \in Int, NEW f \in Int, NEW g \in Int, NEW k \in Int,
           Takes(r, l, S, e, f, g, k), IdleDelta(pool[r], e)
    PROVE  HasInv' /\ SlotInv'
<1>0. r \in Actors
  BY DEF Actors
<1>1. Moves(r, l, S)
  BY DEF Moves, Takes
<1>2. pc'[r] = l /\ has'[r] = S
  BY <1>0 DEF Takes, HeldInv, HasInv
<1>3. \A slot \in {"total", "budget"} :
        pc[r] \notin EvictOwes(slot) /\ l \notin EvictOwes(slot)
  BY DEF Takes, EvictOwes
<1>4. \A slot \in {"total", "budget"} : /\ One(Owns(r, slot)) = In(slot, has[r])
                                        /\ One(Owns(r, slot)') = In(slot, S)
  BY <1>2, <1>3 DEF Owns, One, In
<1>5. One(Holds(r)) = In("inFlight", has[r]) /\ One(Holds(r)') = In("inFlight", S)
  BY <1>2 DEF Holds, One, In
<1>6. Counts(r, e, f, g, k)
  BY <1>4, <1>5 DEF Counts, Takes
<1> QED BY <1>0, <1>1, <1>6, SlotMoves

\* A slot that a request has is counted.
LEMMA HasPositive ==
    ASSUME Counting, SlotInv, HasInv, NEW r \in Requests, pool[r] \in Pools
    PROVE  /\ "total" \in has[r] => /\ Dec(total[pool[r]]) = total[pool[r]] + (-1)
                                    /\ total[pool[r]] + (-1) <= MaxSize
           /\ "budget" \in has[r] => Dec(budget) = budget + (-1)
           /\ "inFlight" \in has[r] => Dec(inFlight[pool[r]]) = inFlight[pool[r]] + (-1)
<1>0. r \in Actors
  BY DEF Actors
<1>1. /\ "total" \in has[r] => total[pool[r]] > 0
      /\ "budget" \in has[r] => budget > 0
      /\ "inFlight" \in has[r] => inFlight[pool[r]] > 0
  BY <1>0, OwnsPositive DEF Owns, Holds
<1>2. /\ total[pool[r]] \in Nat /\ inFlight[pool[r]] \in Nat /\ budget \in Nat
      /\ total[pool[r]] <= MaxSize
  BY ZenonT(30) DEF SlotInv
<1> QED BY <1>1, <1>2, NumbersAssumption, SMT DEF Dec

\* acquire(): the reservations
LEMMA ReserveHas ==
    ASSUME Counting, HeldInv, HasInv, SlotInv, NEW r \in Requests,
           ReserveInFlight(r) \/ ReserveTotal(r) \/ ReserveBudget(r)
    PROVE  HasInv' /\ SlotInv'
<1>0. /\ r \in Actors /\ pc[r] \in {"reserve", "total", "budget"} /\ pool[r] \in Pools
      /\ Fits(pc[r], has[r])
  BY DEF Actors, ReserveInFlight, ReserveTotal, ReserveBudget, HasInv
<1>1. /\ total = [total EXCEPT ![pool[r]] = @ + 0] /\ total[pool[r]] + 0 <= MaxSize
      /\ budget = budget + 0 /\ inFlight = [inFlight EXCEPT ![pool[r]] = @ + 0]
      /\ 0 \in Int /\ 1 \in Int
  BY <1>0, SameCounters, SMT
<1>2. idle' = idle /\ pool' = pool /\ life' = life
  BY DEF ReserveInFlight, ReserveTotal, ReserveBudget, tableVars, poolVars
<1>3. IdleDelta(pool[r], 0)
  BY <1>2, IdleKeeps DEF SlotInv
<1>4. CASE ReserveInFlight(r)
  <2>1. has[r] = {} /\ pc[r] = "reserve"
    BY <1>0, <1>4 DEF Fits, ReserveInFlight
  <2>2. /\ In("total", {"inFlight"}) = 0 /\ In("budget", {"inFlight"}) = 0
        /\ In("inFlight", {"inFlight"}) = 1
        /\ In("total", has[r]) = 0 /\ In("budget", has[r]) = 0 /\ In("inFlight", has[r]) = 0
    BY <2>1 DEF In
  <2>3. /\ pc[r] \notin EvictOwes("budget") \cup {"new"}
        /\ "scan" \notin EvictOwes("budget") \cup {"new"} /\ {"inFlight"} \in SUBSET Slots
    BY <2>1 DEF EvictOwes, Slots
  <2>4. Fits("scan", {"inFlight"})
    BY DEF Fits
  <2>5. Takes(r, "scan", {"inFlight"}, 0, 0, 0, 1)
    BY <1>1, <1>2, <1>4, <2>2, <2>3, <2>4, SMT DEF Takes, ReserveInFlight, Goto
  <2> QED BY <1>1, <1>3, <2>5, TakesSlots
<1>5. CASE ReserveTotal(r)
  <2>1. has[r] = {"inFlight"} /\ pc[r] = "total"
    BY <1>0, <1>5 DEF Fits, ReserveTotal
  <2>2. CASE total[pool[r]] < MaxSize
    <3> DEFINE S == has[r] \cup {"total"}
    <3>1. /\ In("total", S) = 1 /\ In("budget", S) = 0 /\ In("inFlight", S) = 1
          /\ In("total", has[r]) = 0 /\ In("budget", has[r]) = 0 /\ In("inFlight", has[r]) = 1
      BY <2>1 DEF In
    <3>2. /\ pc[r] \notin EvictOwes("budget") \cup {"new"}
          /\ "budget" \notin EvictOwes("budget") \cup {"new"} /\ S \in SUBSET Slots
      BY <2>1 DEF EvictOwes, Slots
    <3>3. Fits("budget", S)
      BY <2>1 DEF Fits
    <3>4. total[pool[r]] + 1 <= MaxSize
      BY <1>0, <2>2, NumbersAssumption, SMT DEF SlotInv
    <3>5. /\ Goto(r, "budget") /\ total' = [total EXCEPT ![pool[r]] = @ + 1]
          /\ has' = [has EXCEPT ![r] = S] /\ budget' = budget /\ inFlight' = inFlight
      BY <1>5, <2>2 DEF ReserveTotal
    <3>6. Takes(r, "budget", S, 0, 1, 0, 0)
      BY <1>1, <1>2, <3>1, <3>2, <3>3, <3>4, <3>5, SMT DEF Takes, Goto
    <3> QED BY <1>1, <1>3, <3>6, TakesSlots
  <2>3. CASE ~(total[pool[r]] < MaxSize)
    <3>1. Goto(r, "giveBack") /\ UNCHANGED <<pool, life, has, total, inFlight, budget, idle>>
      BY <1>2, <1>5, <2>3 DEF ReserveTotal
    <3>2. /\ "giveBack" \notin EvictOwes("budget") /\ pc[r] \notin EvictOwes("budget")
          /\ pc[r] # "new" /\ Fits("giveBack", has[r])
      BY <2>1 DEF EvictOwes, Fits
    <3> QED BY <1>0, <3>1, <3>2, QuietMoves
  <2> QED BY <2>2, <2>3
<1>6. CASE ReserveBudget(r)
  <2>1. has[r] = {"inFlight", "total"} /\ pc[r] = "budget"
    BY <1>0, <1>6 DEF Fits, ReserveBudget
  <2>2. CASE BudgetLeft
    <3> DEFINE S == has[r] \cup {"budget"}
    <3>1. /\ In("total", S) = 1 /\ In("budget", S) = 1 /\ In("inFlight", S) = 1
          /\ In("total", has[r]) = 1 /\ In("budget", has[r]) = 0 /\ In("inFlight", has[r]) = 1
      BY <2>1 DEF In
    <3>2. /\ pc[r] \notin EvictOwes("budget") \cup {"new"}
          /\ "insert" \notin EvictOwes("budget") \cup {"new"} /\ S \in SUBSET Slots
      BY <2>1 DEF EvictOwes, Slots
    <3>3. Fits("insert", S)
      BY <2>1 DEF Fits, Slots
    <3>5. /\ Goto(r, "insert") /\ budget' = budget + 1
          /\ has' = [has EXCEPT ![r] = S] /\ total' = total /\ inFlight' = inFlight
      BY <1>6, <2>2 DEF ReserveBudget, poolVars
    <3>6. Takes(r, "insert", S, 0, 0, 1, 0)
      BY <1>1, <1>2, <3>1, <3>2, <3>3, <3>5, SMT DEF Takes, Goto
    <3> QED BY <1>1, <1>3, <3>6, TakesSlots
  <2>3. CASE ~BudgetLeft
    <3>1. Goto(r, "giveBack") /\ UNCHANGED <<pool, life, has, total, inFlight, budget, idle>>
      BY <1>2, <1>6, <2>3 DEF ReserveBudget, poolVars
    <3>2. /\ "giveBack" \notin EvictOwes("budget") /\ pc[r] \notin EvictOwes("budget")
          /\ pc[r] # "new" /\ Fits("giveBack", has[r])
      BY <2>1 DEF EvictOwes, Fits
    <3> QED BY <1>0, <3>1, <3>2, QuietMoves
  <2> QED BY <2>2, <2>3
<1> QED BY <1>4, <1>5, <1>6

\* A connection moves between a deque and a request, with its slots.
LEMMA ReuseHas ==
    ASSUME Counting, HeldInv, RefInv, WireInv, WireInv', HasInv, SlotInv, NEW r \in Requests,
           ScanPop(r) \/ ReleaseIdle(r)
    PROVE  HasInv' /\ SlotInv'
<1>0. /\ r \in Actors /\ pc[r] \in {"scan", "release"} /\ pool[r] \in Pools
      /\ Fits(pc[r], has[r]) /\ shard[r] \in Shards
  BY DEF Actors, ScanPop, ReleaseIdle, HasInv, HeldInv
<1>1. /\ total = [total EXCEPT ![pool[r]] = @ + 0] /\ total[pool[r]] + 0 <= MaxSize
      /\ budget = budget + 0 /\ inFlight = [inFlight EXCEPT ![pool[r]] = @ + 0]
      /\ 0 \in Int /\ 1 \in Int /\ -1 \in Int
  BY <1>0, SameCounters, SMT
<1>2. UNCHANGED <<pool, life, total, budget, inFlight>>
  BY DEF ScanPop, ReleaseIdle, tableVars
<1>3. /\ In("total", {"inFlight"}) = 0 /\ In("budget", {"inFlight"}) = 0
      /\ In("inFlight", {"inFlight"}) = 1
      /\ In("total", Slots) = 1 /\ In("budget", Slots) = 1 /\ In("inFlight", Slots) = 1
  BY DEF In, Slots
<1>4. CASE ScanPop(r)
  <2>1. has[r] = {"inFlight"} /\ pc[r] = "scan"
    BY <1>0, <1>4 DEF Fits, ScanPop
  <2>2. /\ pc[r] \notin EvictOwes("budget") \cup {"new"}
        /\ "track" \notin EvictOwes("budget") \cup {"new"} /\ Slots \in SUBSET Slots
    BY <2>1 DEF EvictOwes
  <2>3. Fits("track", Slots)
    BY DEF Fits
  <2>4. pc' = [pc EXCEPT ![r] = "track"] /\ has' = [has EXCEPT ![r] = Slots]
    BY <1>4 DEF ScanPop, Goto
  <2>5. Takes(r, "track", Slots, -1, 0, 0, 0)
    BY <1>1, <1>2, <1>3, <2>1, <2>2, <2>3, <2>4, SMT DEF Takes
  <2>6. IdleDelta(pool[r], -1)
    <3>1. /\ idle[pool[r]][shard[r]] # <<>>
          /\ idle' = [idle EXCEPT ![pool[r]][shard[r]] = Tail(@)]
      BY <1>4 DEF ScanPop
    <3> QED BY <1>0, <3>1, PopPlace, ZenonT(30)
  <2> QED BY <1>1, <2>5, <2>6, TakesSlots
<1>5. CASE ReleaseIdle(r)
  <2>1. has[r] = Slots /\ pc[r] = "release"
    BY <1>0, <1>5 DEF Fits, ReleaseIdle
  <2>2. /\ pc[r] \notin EvictOwes("budget") \cup {"new"}
        /\ "giveBack" \notin EvictOwes("budget") \cup {"new"} /\ {"inFlight"} \in SUBSET Slots
    BY <2>1 DEF EvictOwes, Slots
  <2>3. Fits("giveBack", {"inFlight"})
    BY DEF Fits
  <2>4. pc' = [pc EXCEPT ![r] = "giveBack"] /\ has' = [has EXCEPT ![r] = {"inFlight"}]
    BY <1>5 DEF ReleaseIdle, Goto
  <2>5. Takes(r, "giveBack", {"inFlight"}, 1, 0, 0, 0)
    BY <1>1, <1>2, <1>3, <2>1, <2>2, <2>3, <2>4, SMT DEF Takes
  <2>6. wire[r] \in Kept /\ idle' = [idle EXCEPT ![pool[r]][shard[r]] = Append(@, wire[r])]
    BY <1>5 DEF ReleaseIdle, WireInv
  <2>7. IdleDelta(pool[r], 1)
    BY <1>0, <2>6, PushPlace, ZenonT(30)
  <2> QED BY <1>1, <2>5, <2>7, TakesSlots
<1> QED BY <1>4, <1>5

LEMMA Removed ==
    ASSUME NEW H, NEW x \in H
    PROVE  /\ -1 = In(x, H \ {x}) - In(x, H) /\ -1 = 0 + In(x, H \ {x}) - In(x, H)
           /\ \A y : y # x => /\ 0 = In(y, H \ {x}) - In(y, H)
                            /\ 0 = 0 + In(y, H \ {x}) - In(y, H)
<1>1. In(x, H \ {x}) = 0 /\ In(x, H) = 1
  BY DEF In
<1>2. ASSUME NEW y, y # x PROVE In(y, H \ {x}) = In(y, H) /\ In(y, H) \in Int
  BY <1>2, SMT DEF In
<1> QED BY <1>1, <1>2, SMT

\* The tail of every failing path and of every release
LEMMA GiveHas ==
    ASSUME Counting, HeldInv, HasInv, SlotInv, NEW r \in Requests,
           DropInFlight(r) \/ GiveTotal(r) \/ GiveBudget(r) \/ GiveInFlight(r)
    PROVE  HasInv' /\ SlotInv'
<1>0. /\ r \in Actors /\ pc[r] \in {"dropped", "giveBack"} /\ pool[r] \in Pools
      /\ has[r] \in SUBSET Slots /\ Fits(pc[r], has[r])
  BY DEF Actors, DropInFlight, GiveTotal, GiveBudget, GiveInFlight, HasInv
<1>1. /\ total = [total EXCEPT ![pool[r]] = @ + 0] /\ total[pool[r]] + 0 <= MaxSize
      /\ budget = budget + 0 /\ inFlight = [inFlight EXCEPT ![pool[r]] = @ + 0]
      /\ 0 \in Int /\ 1 \in Int /\ -1 \in Int
  BY <1>0, SameCounters, SMT
<1>2. UNCHANGED <<pool, life, idle>>
  BY DEF DropInFlight, GiveTotal, GiveBudget, GiveInFlight, tableVars, poolVars
<1>3. IdleDelta(pool[r], 0)
  BY <1>2, IdleKeeps DEF SlotInv
<1>4. /\ pc[r] \notin EvictOwes("budget") \cup {"new"}
      /\ "giveBack" \notin EvictOwes("budget") \cup {"new"}
      /\ \A S : Fits("giveBack", S)
  BY <1>0 DEF EvictOwes, Fits
<1>5. pc' = [pc EXCEPT ![r] = "giveBack"]
  <2>1. CASE DropInFlight(r)
    BY <2>1 DEF DropInFlight, Goto
  <2>2. CASE GiveTotal(r) \/ GiveBudget(r) \/ GiveInFlight(r)
    BY <1>0, <2>2 DEF GiveTotal, GiveBudget, GiveInFlight, HeldInv
  <2> QED BY <2>1, <2>2
<1>8. CASE GiveTotal(r)
  <2> DEFINE S == has[r] \ {"total"}
  <2>1. /\ S \in SUBSET Slots
        /\ -1 = 0 + In("total", S) - In("total", has[r])
        /\ 0 = 0 + In("budget", S) - In("budget", has[r])
        /\ 0 = In("inFlight", S) - In("inFlight", has[r])
    <3>1. S \in SUBSET Slots /\ "total" \in has[r]
      BY <1>0, <1>8 DEF GiveTotal
    <3>2. "total" # "budget" /\ "total" # "inFlight" /\ "budget" # "inFlight"
      OBVIOUS
    <3> QED BY <3>1, <3>2, Removed, Zenon
  <2>2. /\ total' = [total EXCEPT ![pool[r]] = @ + (-1)] /\ total[pool[r]] + (-1) <= MaxSize
        /\ has' = [has EXCEPT ![r] = S] /\ UNCHANGED <<budget, inFlight>>
    BY <1>0, <1>8, HasPositive, ZenonT(30) DEF GiveTotal
  <2>3. Takes(r, "giveBack", S, 0, -1, 0, 0)
    BY <1>1, <1>2, <1>4, <1>5, <2>1, <2>2 DEF Takes
  <2> QED BY <1>1, <1>3, <2>3, TakesSlots
<1>9. CASE GiveBudget(r)
  <2> DEFINE S == has[r] \ {"budget"}
  <2>1. /\ S \in SUBSET Slots
        /\ 0 = 0 + In("total", S) - In("total", has[r])
        /\ -1 = 0 + In("budget", S) - In("budget", has[r])
        /\ 0 = In("inFlight", S) - In("inFlight", has[r])
    <3>1. S \in SUBSET Slots /\ "budget" \in has[r]
      BY <1>0, <1>9 DEF GiveBudget
    <3>2. "total" # "budget" /\ "total" # "inFlight" /\ "budget" # "inFlight"
      OBVIOUS
    <3> QED BY <3>1, <3>2, Removed, Zenon
  <2>2. /\ budget' = budget + (-1)
        /\ has' = [has EXCEPT ![r] = S] /\ UNCHANGED <<total, inFlight>>
    BY <1>0, <1>9, HasPositive DEF GiveBudget, poolVars
  <2>3. Takes(r, "giveBack", S, 0, 0, -1, 0)
    BY <1>1, <1>2, <1>4, <1>5, <2>1, <2>2 DEF Takes
  <2> QED BY <1>1, <1>3, <2>3, TakesSlots
<1>10. CASE DropInFlight(r) \/ GiveInFlight(r)
  <2> DEFINE S == has[r] \ {"inFlight"}
  <2>0. "inFlight" \in has[r]
    BY <1>0, <1>10 DEF DropInFlight, GiveInFlight, Fits, Slots
  <2>1. /\ S \in SUBSET Slots
        /\ 0 = 0 + In("total", S) - In("total", has[r])
        /\ 0 = 0 + In("budget", S) - In("budget", has[r])
        /\ -1 = In("inFlight", S) - In("inFlight", has[r])
    <3>1. S \in SUBSET Slots
      BY <1>0
    <3>2. "total" # "budget" /\ "total" # "inFlight" /\ "budget" # "inFlight"
      OBVIOUS
    <3> QED BY <2>0, <3>1, <3>2, Removed, Zenon
  <2>2. /\ inFlight' = [inFlight EXCEPT ![pool[r]] = @ + (-1)]
        /\ has' = [has EXCEPT ![r] = S] /\ UNCHANGED <<total, budget>>
    <3>1. Dec(inFlight[pool[r]]) = inFlight[pool[r]] + (-1)
      BY <1>0, <2>0, HasPositive
    <3>2. has[r] = {"inFlight"} => S = {}
      OBVIOUS
    <3> QED BY <1>10, <3>1, <3>2 DEF DropInFlight, GiveInFlight
  <2>3. Takes(r, "giveBack", S, 0, 0, 0, -1)
    BY <1>1, <1>2, <1>4, <1>5, <2>1, <2>2 DEF Takes
  <2> QED BY <1>1, <1>3, <2>3, TakesSlots
<1> QED BY <1>8, <1>9, <1>10

\* shutdown() of the pool p
LEMMA CloseSlots ==
    ASSUME Counting, RefInv, SlotInv, NEW p \in Pools, UNCHANGED <<pc, pool, has, inFlight>>,
           NEW l, life' = [life EXCEPT ![p] = l],
           NEW e \in Int, IdleDelta(p, e), NEW f \in Int, NEW g \in Int,
           f = e + In(l, CloseOwes("total")) - In(life[p], CloseOwes("total")),
           g = e + In(l, CloseOwes("budget")) - In(life[p], CloseOwes("budget")),
           total' = [total EXCEPT ![p] = @ + f], total[p] + f <= MaxSize,
           budget' = budget + g
    PROVE  SlotInv'
<1>0. IsFiniteSet(IdleConns(Pools)) /\ IsFiniteSet(IdleConns(Pools)')
  BY DEF SlotInv, IdleDelta
<1>1. ASSUME NEW P \in SUBSET Pools, NEW slot \in {"total", "budget"}
      PROVE  /\ Taken(P, slot) \in Nat /\ Taken(P, slot)' \in Nat
             /\ Taken(P, slot)' = Taken(P, slot)
                  + (IF p \in P THEN e + In(l, CloseOwes(slot)) - In(life[p], CloseOwes(slot))
                                ELSE 0)
  <2> DEFINE R == Reserved(P, slot)                E == Evicting(P, EvictOwes(slot))
             C == Closing(P, CloseOwes(slot))      I == IdleConns(P)
  <2>1. /\ IsFiniteSet(C) /\ Cardinality(C) \in Nat
        /\ Cardinality(R) \in Nat /\ Cardinality(E) \in Nat /\ Cardinality(I) \in Nat
    BY <1>0, Finite, ZenonT(30)
  <2>2. R' = R /\ E' = E
    BY DEF Reserved, Evicting
  <2>3. C \ {p} = C' \ {p}
    BY DEF Closing, RefInv, RefType
  <2>4. Cardinality(C') \in Nat /\ Cardinality(C') = Cardinality(C) + In(p, C') - In(p, C)
    BY <2>1, <2>3 DEF Counting, OneElementCounts
  <2>5. /\ Cardinality(I') \in Nat
        /\ Cardinality(I') = Cardinality(I) + (IF p \in P THEN e ELSE 0)
    BY DEF IdleDelta, Counting, SizesAreNumbers
  <2>6. /\ In(p, C) = IF p \in P THEN In(life[p], CloseOwes(slot)) ELSE 0
        /\ In(p, C') = IF p \in P THEN In(l, CloseOwes(slot)) ELSE 0
    BY DEF In, Closing, RefInv, RefType
  <2>7. /\ Taken(P, slot) = Cardinality(I) + Cardinality(R) + Cardinality(E) + Cardinality(C)
        /\ Taken(P, slot)' = Cardinality(I') + Cardinality(R) + Cardinality(E) + Cardinality(C')
    BY <2>2 DEF Taken
  <2>8. In(l, CloseOwes(slot)) \in Int /\ In(life[p], CloseOwes(slot)) \in Int
    BY SMT DEF In
  <2> DEFINE r == Cardinality(R)  x == Cardinality(E)  c == Cardinality(C)  i == Cardinality(I)
             c1 == Cardinality(C')  i1 == Cardinality(I')
             o == In(life[p], CloseOwes(slot))  o1 == In(l, CloseOwes(slot))
             t == Taken(P, slot)  t1 == Taken(P, slot)'
  <2>9. /\ r \in Nat /\ x \in Nat /\ c \in Nat /\ i \in Nat /\ o \in Int /\ o1 \in Int
        /\ c1 \in Nat /\ i1 \in Nat
        /\ c1 = c + (IF p \in P THEN o1 ELSE 0) - (IF p \in P THEN o ELSE 0)
        /\ i1 = i + (IF p \in P THEN e ELSE 0)
        /\ t = i + r + x + c /\ t1 = i1 + r + x + c1
    BY <2>1, <2>4, <2>5, <2>6, <2>7, <2>8
  <2> HIDE DEF r, x, c, i, c1, i1, o, o1, t, t1
  <2>10. t \in Nat /\ t1 \in Nat /\ t1 = t + (IF p \in P THEN e + o1 - o ELSE 0)
    BY <2>9, SMT
  <2> QED BY <2>10 DEF t, t1, o, o1
<1>2. ASSUME NEW P \in SUBSET Pools
      PROVE  /\ Taken(P, "total") \in Nat /\ Taken(P, "total")' \in Nat
             /\ Taken(P, "total")' = Taken(P, "total") + (IF p \in P THEN f ELSE 0)
             /\ Taken(P, "budget") \in Nat /\ Taken(P, "budget")' \in Nat
             /\ Taken(P, "budget")' = Taken(P, "budget") + (IF p \in P THEN g ELSE 0)
  <2>1. "total" \in {"total", "budget"} /\ "budget" \in {"total", "budget"}
    OBVIOUS
  <2> QED BY <1>1, <2>1
<1>3. /\ total \in [Pools -> Nat] /\ inFlight \in [Pools -> Nat] /\ budget \in Nat
      /\ \A q \in Pools : /\ total[q] = Taken({q}, "total") /\ total[q] <= MaxSize
                          /\ inFlight[q] = Cardinality(Reserved({q}, "inFlight"))
      /\ budget = Taken(Pools, "budget")
  BY DEF SlotInv
<1>4. /\ budget' \in Nat /\ budget' = Taken(Pools, "budget")'
  BY <1>2, <1>3
<1>5. ASSUME NEW q \in Pools
      PROVE  total'[q] \in Nat /\ total'[q] = Taken({q}, "total")' /\ total'[q] <= MaxSize
  <2> DEFINE t == Taken({q}, "total")  t1 == Taken({q}, "total")'
  <2>1. {q} \in SUBSET Pools /\ (p \in {q} <=> q = p)
    OBVIOUS
  <2>2. /\ t \in Nat /\ t1 \in Nat /\ t1 = t + (IF q = p THEN f ELSE 0)
        /\ total[q] = t /\ total[q] <= MaxSize /\ total[q] \in Nat
    BY <1>2, <1>3, <2>1
  <2> HIDE DEF t, t1
  <2>3. total'[q] = IF q = p THEN total[q] + f ELSE total[q]
    BY <1>3
  <2>4. total'[q] = t1 /\ total'[q] <= MaxSize
    BY <2>2, <2>3, SMT
  <2> QED BY <2>2, <2>4 DEF t1
<1>6. total' \in [Pools -> Nat]
  BY <1>3, <1>5, ZenonT(30)
<1>7. \A q \in Pools : inFlight'[q] = Cardinality(Reserved({q}, "inFlight"))'
  BY <1>3, ZenonT(30) DEF Reserved
<1>8. (\A q \in Pools : /\ total[q] = Taken({q}, "total") /\ total[q] <= MaxSize
                        /\ inFlight[q] = Cardinality(Reserved({q}, "inFlight")))'
  BY <1>5, <1>7, ZenonT(30)
<1> QED BY <1>0, <1>3, <1>4, <1>6, <1>8, ZenonT(30) DEF SlotInv

\* What is being closed is counted.
LEMMA ClosingPositive ==
    ASSUME Counting, SlotInv, NEW p \in Pools
    PROVE  /\ life[p] \in CloseOwes("total") => Dec(total[p]) = total[p] + (-1)
           /\ life[p] \in CloseOwes("budget") => Dec(budget) = budget + (-1)
<1>1. ASSUME NEW P \in SUBSET Pools, p \in P, NEW slot, life[p] \in CloseOwes(slot)
      PROVE  Taken(P, slot) > 0
  <2> DEFINE R == Reserved(P, slot)  E == Evicting(P, EvictOwes(slot))
             C == Closing(P, CloseOwes(slot))  I == IdleConns(P)
  <2>1. /\ IsFiniteSet(C) /\ Cardinality(C) \in Nat
        /\ Cardinality(R) \in Nat /\ Cardinality(E) \in Nat /\ Cardinality(I) \in Nat
    BY Finite DEF SlotInv
  <2>2. p \in C
    BY <1>1 DEF Closing
  <2>3. Cardinality(C) > 0
    BY <2>1, <2>2, SMT DEF Counting, EmptyIsZero
  <2>4. Taken(P, slot) = Cardinality(I) + Cardinality(R) + Cardinality(E) + Cardinality(C)
    BY DEF Taken
  <2> HIDE DEF R, E, C, I
  <2> QED BY <2>1, <2>3, <2>4, SMT
<1>2. /\ life[p] \in CloseOwes("total") => Taken({p}, "total") > 0
      /\ life[p] \in CloseOwes("budget") => Taken(Pools, "budget") > 0
  BY <1>1
<1>3. /\ total[p] \in Nat /\ budget \in Nat
      /\ total[p] = Taken({p}, "total") /\ budget = Taken(Pools, "budget")
  BY DEF SlotInv
<1> QED BY <1>2, <1>3 DEF Dec

\* ~HttpPool()
LEMMA DestroyHas ==
    ASSUME Counting, RefInv, WireInv, WireInv', HasInv, SlotInv, NEW p \in Pools, DestroyStep(p)
    PROVE  HasInv' /\ SlotInv'
<1>0. UNCHANGED <<pc, pool, has, inFlight>>
  BY DEF DestroyStep, DestroyPool, CloseIdle, CloseGiveTotal, CloseGiveBudget, CloseDone,
     poolVars, callVars
<1>1. HasInv'
  BY <1>0 DEF HasInv, Fits
<1>2. /\ total \in [Pools -> Nat] /\ total[p] \in Nat /\ budget \in Nat /\ total[p] <= MaxSize
      /\ MaxSize \in Nat /\ life \in [Pools -> LifeStates]
  BY NumbersAssumption, ZenonT(30) DEF SlotInv, RefInv, RefType
<1>3. /\ total = [total EXCEPT ![p] = total[p]] /\ total[p] + 0 = total[p] /\ budget + 0 = budget
      /\ total[p] + (-1) <= MaxSize /\ 0 \in Int /\ -1 \in Int
  BY <1>2, SMT
<1>4. total = [total EXCEPT ![p] = @ + 0] /\ total[p] + 0 <= MaxSize
  BY <1>2, <1>3
<1>5. \A slot \in {"total", "budget"} :
        /\ In("live", CloseOwes(slot)) = 0 /\ In("closing", CloseOwes(slot)) = 0
        /\ In("gone", CloseOwes(slot)) = 0 /\ In("closeTotal", CloseOwes(slot)) = 1
        /\ In("closeBudget", CloseOwes(slot)) = IF slot = "total" THEN 0 ELSE 1
  BY DEF In, CloseOwes
<1>6. idle' = idle => IdleDelta(p, 0)
  BY IdleKeeps DEF SlotInv
<1>7. CASE DestroyPool(p)
  <2>1. /\ life[p] = "live" /\ life' = [life EXCEPT ![p] = "closing"]
        /\ UNCHANGED <<idle, total, budget>>
    BY <1>7 DEF DestroyPool, poolVars
  <2>2. /\ 0 = 0 + In("closing", CloseOwes("total")) - In(life[p], CloseOwes("total"))
        /\ 0 = 0 + In("closing", CloseOwes("budget")) - In(life[p], CloseOwes("budget"))
    BY <1>5, <2>1, SMT
  <2> QED BY <1>0, <1>1, <1>3, <1>4, <1>6, <2>1, <2>2, CloseSlots, ZenonT(30)
<1>8. CASE CloseDone(p)
  <2>1. /\ life[p] = "closing" /\ life' = [life EXCEPT ![p] = "gone"]
        /\ UNCHANGED <<idle, total, budget>>
    BY <1>8 DEF CloseDone, poolVars
  <2>2. /\ 0 = 0 + In("gone", CloseOwes("total")) - In(life[p], CloseOwes("total"))
        /\ 0 = 0 + In("gone", CloseOwes("budget")) - In(life[p], CloseOwes("budget"))
    BY <1>5, <2>1, SMT
  <2> QED BY <1>0, <1>1, <1>3, <1>4, <1>6, <2>1, <2>2, CloseSlots, ZenonT(30)
<1>9. CASE CloseIdle(p)
  <2>1. PICK h \in Shards : idle[p][h] # <<>> /\ idle' = [idle EXCEPT ![p][h] = Tail(@)]
    BY <1>9, ZenonT(30) DEF CloseIdle
  <2>2. /\ life[p] = "closing" /\ life' = [life EXCEPT ![p] = "closeTotal"]
        /\ UNCHANGED <<total, budget>>
    BY <1>9 DEF CloseIdle
  <2>3. IdleDelta(p, -1)
    BY <2>1, PopPlace, ZenonT(30)
  <2>4. /\ 0 = (-1) + In("closeTotal", CloseOwes("total")) - In(life[p], CloseOwes("total"))
        /\ 0 = (-1) + In("closeTotal", CloseOwes("budget")) - In(life[p], CloseOwes("budget"))
    BY <1>5, <2>2, SMT
  <2> QED BY <1>0, <1>1, <1>3, <1>4, <2>2, <2>3, <2>4, CloseSlots, ZenonT(30)
<1>10. CASE CloseGiveTotal(p)
  <2>1. /\ life[p] = "closeTotal" /\ life' = [life EXCEPT ![p] = "closeBudget"]
        /\ total' = [total EXCEPT ![p] = Dec(@)] /\ UNCHANGED <<idle, budget>>
    BY <1>10 DEF CloseGiveTotal
  <2>2. Dec(total[p]) = total[p] + (-1)
    BY <2>1, ClosingPositive DEF CloseOwes
  <2>3. /\ -1 = 0 + In("closeBudget", CloseOwes("total")) - In(life[p], CloseOwes("total"))
        /\ 0 = 0 + In("closeBudget", CloseOwes("budget")) - In(life[p], CloseOwes("budget"))
    BY <1>5, <2>1, SMT
  <2>4. total' = [total EXCEPT ![p] = @ + (-1)]
    BY <2>1, <2>2
  <2> QED BY <1>0, <1>1, <1>3, <1>6, <2>1, <2>3, <2>4, CloseSlots, ZenonT(30)
<1>11. CASE CloseGiveBudget(p)
  <2>1. /\ life[p] = "closeBudget" /\ life' = [life EXCEPT ![p] = "closing"]
        /\ budget' = Dec(budget) /\ UNCHANGED <<idle, total>>
    BY <1>11 DEF CloseGiveBudget, poolVars
  <2>2. Dec(budget) = budget + (-1)
    BY <2>1, ClosingPositive DEF CloseOwes
  <2>3. /\ 0 = 0 + In("closing", CloseOwes("total")) - In(life[p], CloseOwes("total"))
        /\ -1 = 0 + In("closing", CloseOwes("budget")) - In(life[p], CloseOwes("budget"))
    BY <1>5, <2>1, SMT
  <2> QED BY <1>0, <1>1, <1>3, <1>4, <1>6, <2>1, <2>2, <2>3, CloseSlots, ZenonT(30)
<1> QED BY <1>7, <1>8, <1>9, <1>10, <1>11 DEF DestroyStep

\* prepare_reload() and publish_reload() touch no slot: a new pool has none.
LEMMA ReloadHas ==
    ASSUME HasInv, SlotInv, RefInv,
           \/ \E kept, made \in SUBSET Pools : PrepareReload(kept, made)
           \/ PublishReload
           \/ UNCHANGED vars
    PROVE  HasInv' /\ SlotInv'
<1>1. UNCHANGED <<pc, pool, has, total, inFlight, budget, idle>>
  BY DEF PrepareReload, PublishReload, vars, poolVars, callVars
<1>2. HasInv'
  BY <1>1 DEF HasInv, Fits
<1>3. \A p \in Pools : life'[p] = life[p] \/ (life[p] = "fresh" /\ life'[p] = "live")
  BY DEF PrepareReload, PublishReload, vars, tableVars, RefInv, RefType
<1>4. \A p \in Pools : \A slot \in {"total", "budget"} :
        p \in Closing(Pools, CloseOwes(slot))' <=> p \in Closing(Pools, CloseOwes(slot))
  BY <1>3 DEF Closing, CloseOwes
<1>5. \A a \in Actors : pool'[a] = pool[a] /\ pc'[a] = pc[a]
  BY <1>1
<1>6. SlotInv'
  BY <1>1, <1>4, <1>5, SlotQuiet
<1> QED BY <1>2, <1>6

\* The statistics service and the sessions evict alike.
LEMMA SweepHas ==
    ASSUME Counting, HeldInv, RefInv, WireInv, WireInv', HasInv, SlotInv, NEW a \in Actors, EvictStep(a)
    PROVE  HasInv' /\ SlotInv'
<1>1. CASE EvictInSweep(a)
  BY <1>1, EvictHas DEF EvictInSweep
<1> QED BY <1>1, EvictedHas, RouteHas DEF EvictStep

LEMMA StepSlots ==
    Counting /\ RefInv /\ HeldInv /\ WireInv /\ WireInv' /\ HasInv /\ SlotInv /\ [Next]_vars
        => HasInv' /\ SlotInv'
<1> SUFFICES ASSUME Counting, RefInv, HeldInv, WireInv, WireInv', HasInv, SlotInv, [Next]_vars
             PROVE  HasInv' /\ SlotInv'
  OBVIOUS
<1>1. ASSUME NEW a \in Sweepers, StatsSweep(a) \/ EvictStep(a) PROVE HasInv' /\ SlotInv'
  BY <1>1, RouteHas, SweepHas DEF Actors
<1>2. ASSUME NEW r \in Requests, RouteRequest(r) \/ RequestStep(r) PROVE HasInv' /\ SlotInv'
  <2>0. r \in Actors
    BY DEF Actors
  <2>1. CASE RouteRequest(r) \/ RefuseInFlight(r) \/ EndAttempt(r)
    BY <2>0, <2>1, RouteHas
  <2>2. CASE EvictStep(r)
    BY <2>0, <2>2, SweepHas
  <2>3. CASE EvictInScan(r)
    BY <2>0, <2>3, EvictHas DEF EvictInScan, HeldInv
  <2>4. CASE ReserveInFlight(r) \/ ReserveTotal(r) \/ ReserveBudget(r)
    BY <2>4, ReserveHas
  <2>5. CASE ScanPop(r) \/ ReleaseIdle(r)
    BY <2>5, ReuseHas
  <2>6. CASE DropInFlight(r) \/ GiveTotal(r) \/ GiveBudget(r) \/ GiveInFlight(r)
    BY <2>6, GiveHas
  <2>7. CASE \/ ScanThrow(r) \/ ScanNext(r) \/ Track(r) \/ TrackThrow(r) \/ Insert(r)
             \/ InsertThrow(r) \/ ConnectOk(r) \/ ConnectFail(r) \/ ReleaseNoMemory(r)
             \/ ReleaseClosed(r) \/ BuildRefuses(r) \/ UseOk(r) \/ UseBad(r) \/ UseThrow(r)
    BY <2>7, StayHas
  <2> QED BY <1>2, <2>1, <2>2, <2>3, <2>4, <2>5, <2>6, <2>7 DEF RequestStep
<1>3. ASSUME NEW p \in Pools, DestroyStep(p) PROVE HasInv' /\ SlotInv'
  BY <1>3, DestroyHas
<1> QED BY <1>1, <1>2, <1>3, ReloadHas DEF Next

\* Nothing is taken at the start.
LEMMA InitSlots == Counting /\ Init => HasInv /\ SlotInv
<1> SUFFICES ASSUME Counting, Init PROVE HasInv /\ SlotInv
  OBVIOUS
<1>1. HasInv
  BY DEF Init, HasInv, Fits, Actors
<1>2. ASSUME NEW P \in SUBSET Pools, NEW slot
      PROVE  /\ IdleConns(P) = {} /\ Reserved(P, slot) = {}
             /\ Evicting(P, EvictOwes(slot)) = {} /\ Closing(P, CloseOwes(slot)) = {}
  <2>1. IdleConns(P) = {}
    <3>1. \A p \in P : \A h \in Shards : DOMAIN idle[p][h] = {}
      BY SMT DEF Init
    <3> QED BY <3>1, IdlePlaces, PlaceMember, SMT
  <2>2. Reserved(P, slot) = {}
    BY DEF Init, Reserved
  <2>3. Evicting(P, EvictOwes(slot)) = {}
    BY DEF Init, Evicting, EvictOwes
  <2>4. Closing(P, CloseOwes(slot)) = {}
    BY DEF Init, Closing, CloseOwes
  <2> QED BY <2>1, <2>2, <2>3, <2>4
<1>3. Cardinality({}) = 0 /\ IsFiniteSet({})
  BY DEF Counting, EmptyIsZero
<1>4. \A P \in SUBSET Pools : \A slot : Taken(P, slot) = 0
  <2>1. ASSUME NEW P \in SUBSET Pools, NEW slot PROVE Taken(P, slot) = 0 + 0 + 0 + 0
    BY <1>2, <1>3 DEF Taken
  <2>2. 0 + 0 + 0 + 0 = 0
    BY SMT
  <2> QED BY <2>1, <2>2
<1>5. IsFiniteSet(IdleConns(Pools))
  BY <1>2, <1>3
<1>6. \A p \in Pools : /\ Taken({p}, "total") = 0
                       /\ Cardinality(Reserved({p}, "inFlight")) = 0
  BY <1>2, <1>3, <1>4
<1>7. Taken(Pools, "budget") = 0
  BY <1>4
<1>8. SlotInv
  BY <1>5, <1>6, <1>7, NumbersAssumption, SMT DEF Init, SlotInv
<1> QED BY <1>1, <1>8
=============================================================================
