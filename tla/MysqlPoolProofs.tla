-------------------------- MODULE MysqlPoolProofs --------------------------
(***************************************************************************)
(* Proofs about MysqlPool for every number of requests and every size: its *)
(* types, counters and limits first, then who owns the handles, from an    *)
(* invariant that divides the open handles among their owners.             *)
(***************************************************************************)
EXTENDS MysqlPool, Integers, FiniteSetTheorems, TLAPS

-----------------------------------------------------------------------------
(* Sequences without repetition, such as deques of handles *)

Uniq(s) == \A i, j \in 1..Len(s) : s[i] = s[j] => i = j

\* The elements of a sequence, by position.
LEMMA RangeOf ==
    ASSUME NEW S, NEW s \in Seq(S)
    PROVE  /\ \A i \in 1..Len(s) : s[i] \in Range(s)
           /\ \A x \in Range(s) : \E i \in 1..Len(s) : s[i] = x
  BY DEF Range

\* push_back() of a handle that is not in the deque
LEMMA UniqAppend ==
    ASSUME NEW S, NEW s \in Seq(S), NEW e \in S, Uniq(s), e \notin Range(s)
    PROVE  Uniq(Append(s, e)) /\ Range(Append(s, e)) = Range(s) \cup {e}
<1>1. /\ Len(Append(s, e)) = Len(s) + 1 /\ Append(s, e) \in Seq(S)
      /\ \A i \in 1..Len(s) : Append(s, e)[i] = s[i]
      /\ Append(s, e)[Len(s) + 1] = e
  OBVIOUS
<1>2. Uniq(Append(s, e))
  BY <1>1, RangeOf DEF Uniq
<1>3. Range(Append(s, e)) = Range(s) \cup {e}
  BY <1>1 DEF Range
<1> QED BY <1>2, <1>3

\* Splitting a deque after its first n handles
LEMMA UniqSplit ==
    ASSUME NEW S, NEW s \in Seq(S), NEW n \in 0..Len(s), Uniq(s)
    PROVE  /\ Uniq(SubSeq(s, 1, n)) /\ Uniq(SubSeq(s, n + 1, Len(s)))
           /\ Range(SubSeq(s, 1, n)) \cup Range(SubSeq(s, n + 1, Len(s))) = Range(s)
           /\ Range(SubSeq(s, 1, n)) \cap Range(SubSeq(s, n + 1, Len(s))) = {}
<1> DEFINE a == SubSeq(s, 1, n) b == SubSeq(s, n + 1, Len(s))
<1>1. /\ Len(a) = n /\ \A i \in 1..n : a[i] = s[i]
      /\ Len(b) = Len(s) - n /\ \A i \in 1..(Len(s) - n) : b[i] = s[n + i]
      /\ a \in Seq(S) /\ b \in Seq(S) /\ Len(s) \in Nat /\ n \in Nat
  OBVIOUS
<1> HIDE DEF a, b
<1>2. Uniq(a)
  <2> SUFFICES ASSUME NEW i \in 1..Len(a), NEW j \in 1..Len(a), a[i] = a[j] PROVE i = j
    BY DEF Uniq
  <2>1. i \in 1..Len(s) /\ j \in 1..Len(s) /\ s[i] = s[j]
    BY <1>1
  <2> QED BY <2>1 DEF Uniq
<1>3. Uniq(b)
  <2> SUFFICES ASSUME NEW i \in 1..Len(b), NEW j \in 1..Len(b), b[i] = b[j] PROVE i = j
    BY DEF Uniq
  <2>1. n + i \in 1..Len(s) /\ n + j \in 1..Len(s) /\ s[n + i] = s[n + j]
    BY <1>1
  <2>2. n + i = n + j
    BY <2>1 DEF Uniq
  <2> QED BY <1>1, <2>2
<1>4. Range(a) \cup Range(b) = Range(s)
  <2>1. \A i \in 1..n : i \in 1..Len(s)
    BY <1>1
  <2>2. \A i \in 1..(Len(s) - n) : n + i \in 1..Len(s)
    BY <1>1
  <2>3. \A i \in 1..Len(s) : i \in 1..n \/ (i - n \in 1..(Len(s) - n) /\ n + (i - n) = i)
    BY <1>1
  <2>4. ASSUME NEW x \in Range(a) PROVE x \in Range(s)
    BY <1>1, <2>1, RangeOf
  <2>5. ASSUME NEW x \in Range(b) PROVE x \in Range(s)
    <3>1. PICK i \in 1..Len(b) : b[i] = x
      BY <1>1, RangeOf
    <3> QED BY <1>1, <2>2, <3>1, RangeOf
  <2>6. ASSUME NEW x \in Range(s) PROVE x \in Range(a) \cup Range(b)
    <3>1. PICK i \in 1..Len(s) : s[i] = x
      BY RangeOf
    <3>2. CASE i \in 1..n
      BY <1>1, <3>1, <3>2, RangeOf
    <3>3. CASE i - n \in 1..(Len(s) - n) /\ n + (i - n) = i
      <4>1. i - n \in 1..Len(b) /\ b[i - n] = x
        BY <1>1, <3>1, <3>3
      <4> QED BY <1>1, <4>1, RangeOf
    <3> QED BY <2>3, <3>2, <3>3
  <2> QED BY <2>4, <2>5, <2>6
<1>5. Range(a) \cap Range(b) = {}
  <2> SUFFICES ASSUME NEW x \in Range(a), x \in Range(b) PROVE FALSE
    OBVIOUS
  <2>1. PICK i \in 1..Len(a) : a[i] = x
    BY <1>1, RangeOf
  <2>2. PICK j \in 1..Len(b) : b[j] = x
    BY <1>1, RangeOf
  <2>3. i \in 1..Len(s) /\ n + j \in 1..Len(s) /\ s[i] = s[n + j]
    BY <1>1, <2>1, <2>2
  <2>4. i = n + j
    BY <2>3 DEF Uniq
  <2> QED BY <1>1, <2>1, <2>2, <2>4
<1> QED BY <1>2, <1>3, <1>4, <1>5 DEF a, b

\* pop_back() and pop_front()
LEMMA UniqEnds ==
    ASSUME NEW S, NEW s \in Seq(S), Uniq(s), s # <<>>
    PROVE  /\ Uniq(SubSeq(s, 1, Len(s) - 1)) /\ s[Len(s)] \in Range(s)
           /\ Range(SubSeq(s, 1, Len(s) - 1)) = Range(s) \ {s[Len(s)]}
           /\ Uniq(Tail(s)) /\ Range(Tail(s)) = Range(s) \ {Head(s)} /\ Head(s) \in Range(s)
<1>1. Len(s) \in Nat /\ Len(s) >= 1 /\ Len(s) - 1 \in 0..Len(s)
  OBVIOUS
<1>2. /\ SubSeq(s, Len(s) - 1 + 1, Len(s)) \in Seq(S)
      /\ Len(SubSeq(s, Len(s) - 1 + 1, Len(s))) = 1
      /\ SubSeq(s, Len(s) - 1 + 1, Len(s))[1] = s[Len(s)]
  BY <1>1
<1>3. Range(SubSeq(s, Len(s) - 1 + 1, Len(s))) = {s[Len(s)]}
  BY <1>2 DEF Range
<1>4. /\ Uniq(SubSeq(s, 1, Len(s) - 1)) /\ s[Len(s)] \in Range(s)
      /\ Range(SubSeq(s, 1, Len(s) - 1)) = Range(s) \ {s[Len(s)]}
  <2>1. /\ Uniq(SubSeq(s, 1, Len(s) - 1))
        /\ Range(SubSeq(s, 1, Len(s) - 1)) \cup {s[Len(s)]} = Range(s)
        /\ Range(SubSeq(s, 1, Len(s) - 1)) \cap {s[Len(s)]} = {}
    BY <1>1, <1>2, <1>3, UniqSplit
  <2> QED BY <2>1
<1>5. /\ SubSeq(s, 1, 1) \in Seq(S) /\ Len(SubSeq(s, 1, 1)) = 1
      /\ SubSeq(s, 1, 1)[1] = Head(s) /\ Tail(s) = SubSeq(s, 1 + 1, Len(s))
  BY <1>1
<1>6. Range(SubSeq(s, 1, 1)) = {Head(s)}
  BY <1>5 DEF Range
<1>7. Uniq(Tail(s)) /\ Range(Tail(s)) = Range(s) \ {Head(s)} /\ Head(s) \in Range(s)
  <2>1. PICK n \in 0..Len(s) : n = 1
    BY <1>1
  <2>3. /\ Uniq(SubSeq(s, n + 1, Len(s)))
        /\ Range(SubSeq(s, 1, n)) \cup Range(SubSeq(s, n + 1, Len(s))) = Range(s)
        /\ Range(SubSeq(s, 1, n)) \cap Range(SubSeq(s, n + 1, Len(s))) = {}
    BY UniqSplit
  <2>4. SubSeq(s, n + 1, Len(s)) = Tail(s) /\ SubSeq(s, 1, n) = SubSeq(s, 1, 1)
    BY <2>1, <1>5
  <2>2. /\ Uniq(Tail(s)) /\ {Head(s)} \cup Range(Tail(s)) = Range(s)
        /\ {Head(s)} \cap Range(Tail(s)) = {}
    BY <2>3, <2>4, <1>6, ZenonT(60)
  <2> QED BY <2>2
<1> QED BY <1>4, <1>7

\* Appending the new handles of a refill
LEMMA UniqCat ==
    ASSUME NEW S, NEW s \in Seq(S), NEW t \in Seq(S), Uniq(s), Uniq(t),
           Range(s) \cap Range(t) = {}
    PROVE  Uniq(s \o t) /\ Range(s \o t) = Range(s) \cup Range(t)
<1> DEFINE u == s \o t
<1>1. /\ u \in Seq(S) /\ Len(u) = Len(s) + Len(t) /\ Len(s) \in Nat /\ Len(t) \in Nat
      /\ \A i \in 1..Len(s) : u[i] = s[i]
      /\ \A i \in 1..Len(u) : i > Len(s) => u[i] = t[i - Len(s)]
  OBVIOUS
<1>2. \A i \in 1..Len(t) : Len(s) + i \in 1..Len(u) /\ u[Len(s) + i] = t[i]
  OBVIOUS
<1> HIDE DEF u
<1>3. ASSUME NEW i \in 1..Len(u), i > Len(s)
      PROVE  i - Len(s) \in 1..Len(t) /\ u[i] = t[i - Len(s)] /\ u[i] \in Range(t)
  BY <1>1, <1>3, RangeOf
<1>4. ASSUME NEW i \in 1..Len(u), i <= Len(s)
      PROVE  i \in 1..Len(s) /\ u[i] = s[i] /\ u[i] \in Range(s)
  BY <1>1, <1>4, RangeOf
<1>5. Uniq(u)
  <2> SUFFICES ASSUME NEW i \in 1..Len(u), NEW j \in 1..Len(u), u[i] = u[j] PROVE i = j
    BY DEF Uniq
  <2>1. CASE i <= Len(s) /\ j <= Len(s)
    BY <2>1, <1>4 DEF Uniq
  <2>2. CASE i > Len(s) /\ j > Len(s)
    <3>1. i - Len(s) = j - Len(s)
      BY <2>2, <1>3 DEF Uniq
    <3> QED BY <3>1, <1>1
  <2>3. CASE (i <= Len(s) /\ j > Len(s)) \/ (i > Len(s) /\ j <= Len(s))
    BY <2>3, <1>3, <1>4
  <2> QED BY <2>1, <2>2, <2>3, <1>1
<1>6. Range(u) = Range(s) \cup Range(t)
  <2>1. ASSUME NEW x \in Range(u) PROVE x \in Range(s) \cup Range(t)
    BY <1>1, <1>3, <1>4, RangeOf
  <2>2. ASSUME NEW x \in Range(s) PROVE x \in Range(u)
    <3>1. PICK i \in 1..Len(s) : s[i] = x
      BY RangeOf
    <3>2. i \in 1..Len(u) /\ u[i] = x
      BY <1>1, <3>1
    <3> QED BY <3>2, <1>1, RangeOf
  <2>3. ASSUME NEW x \in Range(t) PROVE x \in Range(u)
    <3>1. PICK i \in 1..Len(t) : t[i] = x
      BY RangeOf
    <3> QED BY <1>1, <1>2, <3>1, RangeOf, ZenonT(60)
  <2> QED BY <2>1, <2>2, <2>3
<1> QED BY <1>5, <1>6 DEF u

\* A deque holds finitely many handles.
LEMMA RangeFinite ==
    ASSUME NEW S, NEW s \in Seq(S)
    PROVE  /\ IsFiniteSet(Range(s)) /\ Cardinality(Range(s)) <= Len(s)
           /\ Cardinality(Range(s)) \in Nat
<1>1. s \in Surjection(1..Len(s), Range(s))
  BY RangeOf DEF Surjection
<1>2. IsFiniteSet(1..Len(s)) /\ Cardinality(1..Len(s)) = Len(s) /\ Len(s) \in Nat
  <2>1. Len(s) \in Nat /\ Len(s) \in Int /\ 1 \in Int
    OBVIOUS
  <2>2. /\ IsFiniteSet(1..Len(s))
        /\ Cardinality(1..Len(s)) = IF 1 > Len(s) THEN 0 ELSE Len(s) - 1 + 1
    BY <2>1, FS_Interval
  <2> QED BY <2>1, <2>2
<1>3. IsFiniteSet(Range(s)) /\ Cardinality(Range(s)) <= Cardinality(1..Len(s))
  BY <1>1, <1>2, FS_Surjection
<1> QED BY <1>2, <1>3, FS_CardinalityType

\* The empty deque has no elements.
LEMMA EmptyRange == Range(<<>>) = {} /\ Uniq(<<>>)
  BY DEF Range, Uniq

\* The size of a union.
LEMMA UnionBound ==
    ASSUME NEW S, IsFiniteSet(S), NEW T, IsFiniteSet(T)
    PROVE  /\ IsFiniteSet(S \cup T) /\ Cardinality(S \cup T) \in Nat
           /\ Cardinality(S) \in Nat /\ Cardinality(T) \in Nat
           /\ Cardinality(S \cup T) <= Cardinality(S) + Cardinality(T)
<1>1. IsFiniteSet(S \cap T) /\ Cardinality(S \cap T) \in Nat
  BY FS_Intersection, FS_CardinalityType
<1>2. Cardinality(S) \in Nat /\ Cardinality(T) \in Nat
  BY FS_CardinalityType
<1>3. /\ IsFiniteSet(S \cup T)
      /\ Cardinality(S \cup T) = Cardinality(S) + Cardinality(T) - Cardinality(S \cap T)
  BY FS_Union
<1>4. Cardinality(S \cup T) \in Nat
  BY <1>3, FS_CardinalityType
<1> QED BY <1>1, <1>2, <1>3, <1>4

USE ZenonT(30)

-----------------------------------------------------------------------------
(* The inductive invariant *)

\* What a request's program counter says of its local variables.
RequestInv ==
    \A r \in Requests :
        /\ pc[r] \in {"reset", "query", "closing"} => conn[r] \in Conn
        /\ pc[r] \in Busy \cup {"new"} => retry[r] < MaxRetries

\* The reservations of phases 2 and 3 exist only inside those phases.
MaintainInv ==
    /\ mpc # "create2" => need = 0 /\ left = 0 /\ newConns = <<>>
    /\ Len(newConns) + left <= need
    /\ mpc # "ping" => toCheck = <<>> /\ dead = 0

\* What shutdown() and the joins have waited for, and what a shutdown after the io
\* threads leaves.
JoinInv ==
    /\ running => spc = "up"
    /\ spc \in {"joinWorkers", "close", "down"} => mpc = "exited"
    /\ io = "joined" => \A r \in Requests : pc[r] \notin Busy
    /\ spc = "down" /\ io = "joined" => total = 0

PoolInv ==
    TypeOK /\ Accounting /\ Limits /\ RequestInv /\ MaintainInv /\ JoinInv

-----------------------------------------------------------------------------
\* The requests of f whose program counter is in S.
At(f, S) == {q \in Requests : f[q] \in S}

\* What one request's move does to the number of requests in a set of program
\* counters, when every other request stays inside or outside that set.
LEMMA MoveOne ==
    ASSUME NEW f, NEW g, NEW S, NEW r \in Requests,
           \A q \in Requests \ {r} : f[q] \in S <=> g[q] \in S
    PROVE  /\ Cardinality(At(f, S)) \in Nat
           /\ Cardinality(At(g, S)) \in Nat
           /\ (f[r] \in S <=> g[r] \in S) => Cardinality(At(g, S)) = Cardinality(At(f, S))
           /\ f[r] \notin S /\ g[r] \in S => Cardinality(At(g, S)) = Cardinality(At(f, S)) + 1
           /\ f[r] \in S /\ g[r] \notin S => Cardinality(At(g, S)) = Cardinality(At(f, S)) - 1
<1>1. IsFiniteSet(At(f, S)) /\ IsFiniteSet(At(g, S))
  BY RequestsAssumption, FS_Subset DEF At
<1>2. Cardinality(At(f, S)) \in Nat /\ Cardinality(At(g, S)) \in Nat
  BY <1>1, FS_CardinalityType
<1>3. ASSUME f[r] \in S <=> g[r] \in S
      PROVE  Cardinality(At(g, S)) = Cardinality(At(f, S))
  <2>1. At(g, S) = At(f, S)
    BY <1>3 DEF At
  <2> QED BY <2>1
<1>4. ASSUME f[r] \notin S, g[r] \in S
      PROVE  Cardinality(At(g, S)) = Cardinality(At(f, S)) + 1
  <2>1. At(g, S) = At(f, S) \cup {r} /\ r \notin At(f, S)
    BY <1>4 DEF At
  <2> QED BY <2>1, <1>1, FS_AddElement
<1>5. ASSUME f[r] \in S, g[r] \notin S
      PROVE  Cardinality(At(g, S)) = Cardinality(At(f, S)) - 1
  <2>1. At(g, S) = At(f, S) \ {r} /\ r \in At(f, S)
    BY <1>5 DEF At
  <2> QED BY <2>1, <1>1, FS_RemoveElement
<1> QED BY <1>2, <1>3, <1>4, <1>5

\* A notification moves requests only between two waiting states, which hold no
\* slot.
LEMMA WokenFacts ==
    ASSUME NEW f \in [Requests -> RequestPCs]
    PROVE  /\ Woken(f) \in [Requests -> RequestPCs]
           /\ \A q \in Requests : Woken(f)[q] \in Holds <=> f[q] \in Holds
           /\ \A q \in Requests : Woken(f)[q] \in {"create"} <=> f[q] \in {"create"}
           /\ \A q \in Requests : Woken(f)[q] \in Busy <=> f[q] \in Busy
           /\ \A q \in Requests : Woken(f)[q] # f[q] => Woken(f)[q] = "woken"
  BY DEF Woken, RequestPCs, Busy, Finished, Holds

\* Taking from an end of a sequence, and splitting it.
LEMMA SeqEnds ==
    ASSUME NEW S, NEW s \in Seq(S)
    PROVE  /\ s # <<>> => /\ s[Len(s)] \in S /\ SubSeq(s, 1, Len(s) - 1) \in Seq(S)
                          /\ Len(SubSeq(s, 1, Len(s) - 1)) = Len(s) - 1
                          /\ Head(s) \in S /\ Tail(s) \in Seq(S)
                          /\ Len(Tail(s)) = Len(s) - 1
           /\ \A n \in 0..Len(s) :
                /\ SubSeq(s, 1, n) \in Seq(S) /\ Len(SubSeq(s, 1, n)) = n
                /\ SubSeq(s, n + 1, Len(s)) \in Seq(S)
                /\ Len(SubSeq(s, n + 1, Len(s))) = Len(s) - n
                /\ Range(SubSeq(s, 1, n)) \subseteq S
           /\ Range(s) \subseteq S
<1>1. ASSUME NEW n \in 0..Len(s)
      PROVE  /\ SubSeq(s, 1, n) \in Seq(S) /\ Len(SubSeq(s, 1, n)) = n
             /\ SubSeq(s, n + 1, Len(s)) \in Seq(S)
             /\ Len(SubSeq(s, n + 1, Len(s))) = Len(s) - n
  BY SMT
<1>2. ASSUME s # <<>>
      PROVE  /\ s[Len(s)] \in S /\ SubSeq(s, 1, Len(s) - 1) \in Seq(S)
             /\ Len(SubSeq(s, 1, Len(s) - 1)) = Len(s) - 1
  <2>1. Len(s) \in Nat /\ Len(s) > 0 /\ Len(s) - 1 \in 0..Len(s)
    BY <1>2, SMT
  <2>2. s[Len(s)] \in S
    BY <2>1, SMT
  <2> QED BY <2>1, <2>2, <1>1
<1>3. s # <<>> => /\ Head(s) \in S /\ Tail(s) \in Seq(S)
                  /\ Len(Tail(s)) = Len(s) - 1
  BY SMT
<1>4. \A t \in Seq(S) : Range(t) \subseteq S
  BY SMT DEF Range
<1> QED BY <1>1, <1>2, <1>3, <1>4, ZenonT(60)

\* The constructor establishes the invariant.
LEMMA InitInv == Init => PoolInv
<1> SUFFICES ASSUME Init PROVE PoolInv
  OBVIOUS
<1>1. idle \in Seq(Conn) /\ Len(idle) <= MinSize /\ Range(idle) \subseteq Conn
  BY SizesAssumption, SMT DEF Init, Range
<1>2. Holders = {} /\ Creators = {}
  BY DEF Init, Holders, Creators, Holds
<1>3. TypeOK
  BY <1>1, SizesAssumption, SMT DEF Init, TypeOK, RequestPCs, MaintainPCs, ShutdownPCs,
     MaxRetries
<1>4. total = Used /\ Used <= MaxSize /\ creating = Cardinality(Creators)
  BY <1>1, <1>2, FS_EmptySet, SizesAssumption, SMT DEF Init, Used
<1>5. Accounting /\ Limits
  BY <1>4, SizesAssumption, SMT DEF Init, Accounting, Limits
<1>6. RequestInv /\ MaintainInv /\ JoinInv
  BY SMT DEF Init, RequestInv, MaintainInv, JoinInv, Busy, MaxRetries
<1> QED BY <1>3, <1>5, <1>6 DEF PoolInv

-----------------------------------------------------------------------------
(* Steps of a request *)

\* The step moves r to x and at most wakes other requests.
Moves(r, x) ==
    /\ pc' \in [Requests -> RequestPCs]
    /\ pc'[r] = x
    /\ \A q \in Requests \ {r} :
          pc'[q] = pc[q] \/ (pc[q] = "waiting" /\ pc'[q] = "woken")

\* The step at most wakes requests.
Wakes ==
    /\ pc' \in [Requests -> RequestPCs]
    /\ \A q \in Requests :
          pc'[q] = pc[q] \/ (pc[q] = "waiting" /\ pc'[q] = "woken")

\* The counts of slot holders and of connecting requests after one request moved.
LEMMA MoveCounts ==
    ASSUME NEW r \in Requests, NEW x, Moves(r, x)
    PROVE  /\ Cardinality(Holders) \in Nat /\ Cardinality(Holders') \in Nat
           /\ Cardinality(Creators) \in Nat /\ Cardinality(Creators') \in Nat
           /\ (pc[r] \in Holds <=> x \in Holds)
                => Cardinality(Holders') = Cardinality(Holders)
           /\ pc[r] \notin Holds /\ x \in Holds
                => Cardinality(Holders') = Cardinality(Holders) + 1
           /\ pc[r] \in Holds /\ x \notin Holds
                => Cardinality(Holders') = Cardinality(Holders) - 1
           /\ (pc[r] = "create" <=> x = "create")
                => Cardinality(Creators') = Cardinality(Creators)
           /\ pc[r] # "create" /\ x = "create"
                => Cardinality(Creators') = Cardinality(Creators) + 1
           /\ pc[r] = "create" /\ x # "create"
                => Cardinality(Creators') = Cardinality(Creators) - 1
<1>1. /\ \A q \in Requests \ {r} : pc[q] \in Holds <=> pc'[q] \in Holds
      /\ \A q \in Requests \ {r} : pc[q] \in {"create"} <=> pc'[q] \in {"create"}
  BY DEF Moves, Holds
<1>2. /\ Holders = At(pc, Holds) /\ Holders' = At(pc', Holds)
      /\ Creators = At(pc, {"create"}) /\ Creators' = At(pc', {"create"})
  BY DEF Holders, Creators, At
<1>3. pc'[r] = x
  BY DEF Moves
<1>4. /\ Cardinality(Holders) \in Nat /\ Cardinality(Holders') \in Nat
      /\ (pc[r] \in Holds <=> x \in Holds)
           => Cardinality(Holders') = Cardinality(Holders)
      /\ pc[r] \notin Holds /\ x \in Holds
           => Cardinality(Holders') = Cardinality(Holders) + 1
      /\ pc[r] \in Holds /\ x \notin Holds
           => Cardinality(Holders') = Cardinality(Holders) - 1
  BY <1>1, <1>2, <1>3, MoveOne, SMT
<1>5. /\ Cardinality(Creators) \in Nat /\ Cardinality(Creators') \in Nat
      /\ (pc[r] \in {"create"} <=> x \in {"create"})
           => Cardinality(Creators') = Cardinality(Creators)
      /\ pc[r] \notin {"create"} /\ x \in {"create"}
           => Cardinality(Creators') = Cardinality(Creators) + 1
      /\ pc[r] \in {"create"} /\ x \notin {"create"}
           => Cardinality(Creators') = Cardinality(Creators) - 1
  BY <1>1, <1>2, <1>3, MoveOne, SMT
<1> QED BY <1>4, <1>5

\* A step that only wakes requests leaves both counts alone.
LEMMA WakeCounts ==
    ASSUME Wakes
    PROVE  /\ Cardinality(Holders') = Cardinality(Holders)
           /\ Cardinality(Creators') = Cardinality(Creators)
           /\ Cardinality(Holders) \in Nat /\ Cardinality(Creators) \in Nat
<1>1. Holders' = Holders /\ Creators' = Creators
  BY DEF Wakes, Holders, Creators, Holds
<1>2. IsFiniteSet(Holders) /\ IsFiniteSet(Creators)
  BY RequestsAssumption, FS_Subset DEF Holders, Creators
<1> QED BY <1>1, <1>2, FS_CardinalityType

\* Both notifications only wake requests, and leave the maintain thread where it is
\* or take it out of its wait.
LEMMA NotifyFacts ==
    ASSUME TypeOK, NEW r \in Requests, NEW x \in RequestPCs, x # "waiting",
           NotifyAll([pc EXCEPT ![r] = x]) \/ NotifyOne([pc EXCEPT ![r] = x])
    PROVE  Moves(r, x) /\ (mpc' = mpc \/ (mpc = "waiting" /\ mpc' = "top"))
<1> DEFINE f == [pc EXCEPT ![r] = x]
<1>1. f \in [Requests -> RequestPCs] /\ f[r] = x /\ \A q \in Requests \ {r} : f[q] = pc[q]
  BY DEF TypeOK
<1> HIDE DEF f
<1>2. CASE NotifyAll(f)
  BY <1>1, <1>2 DEF NotifyAll, Woken, MaintainWoken, Moves, RequestPCs, Busy
<1>3. CASE NotifyOne(f)
  BY <1>1, <1>3, SMT DEF NotifyOne, Moves, RequestPCs, Busy
<1> QED BY <1>2, <1>3 DEF f

\* The slots that a request at program counter p holds, and how many it is filling.
Slots(p) == IF p \in Holds THEN 1 ELSE 0
Filling(p) == IF p = "create" THEN 1 ELSE 0

\* The step of r is balanced: creating_ and, until shutdown() has zeroed it, total_
\* change by what r takes or gives back, net of what it moves into or out of the
\* idle deque; after that no slot is taken.
Balanced(r, x) ==
    /\ Moves(r, x)
    /\ UNCHANGED <<need, toCheck, dead, spc>>
    /\ idle' \in Seq(Conn)
    /\ creating' = creating + (Filling(x) - Filling(pc[r]))
    /\ creating' <= MaxCreating
    /\ spc = "down" => /\ total' \in 0..SizeMax
                       /\ Len(idle') + Slots(x) <= Len(idle) + Slots(pc[r])
    /\ spc # "down" =>
          /\ total' = total + (Len(idle') - Len(idle)) + (Slots(x) - Slots(pc[r]))
          /\ total' <= MaxSize

\* The slots in use are a number, at least the one a request holds.
LEMMA UsedFacts ==
    ASSUME TypeOK
    PROVE  /\ Used \in Nat /\ Cardinality(Holders) \in Nat /\ Cardinality(Creators) \in Nat
           /\ \A r \in Requests : pc[r] \in Holds => Used > 0
<1>1. IsFiniteSet(Holders) /\ IsFiniteSet(Creators)
  BY RequestsAssumption, FS_Subset DEF Holders, Creators
<1>2. Cardinality(Holders) \in Nat /\ Cardinality(Creators) \in Nat
  BY <1>1, FS_CardinalityType
<1>3. /\ Len(idle) \in Nat /\ Len(toCheck) \in Nat /\ need \in Nat /\ dead \in Nat
  BY SMT DEF TypeOK
<1>4. Used \in Nat /\ Used >= Cardinality(Holders)
  BY <1>2, <1>3, SMT DEF Used
<1>5. \A r \in Requests : pc[r] \in Holds => Cardinality(Holders) # 0
  BY <1>1, FS_EmptySet DEF Holders
<1> QED BY <1>2, <1>4, <1>5, SMT

\* A balanced step keeps the accounts.
LEMMA BalancedStep ==
    ASSUME TypeOK, Accounting, Limits, NEW r \in Requests, NEW x, Balanced(r, x)
    PROVE  Accounting' /\ Limits' /\ total' \in 0..SizeMax /\ creating' \in Nat
<1>1. Moves(r, x)
  BY DEF Balanced
<1>2. /\ Cardinality(Holders) \in Nat /\ Cardinality(Holders') \in Nat
      /\ Slots(x) \in Int /\ Slots(pc[r]) \in Int
      /\ Cardinality(Holders') = Cardinality(Holders) + (Slots(x) - Slots(pc[r]))
  BY <1>1, MoveCounts, SMT DEF Slots
<1>3. /\ Cardinality(Creators) \in Nat /\ Cardinality(Creators') \in Nat
      /\ Cardinality(Creators') = Cardinality(Creators) + (Filling(x) - Filling(pc[r]))
  BY <1>1, MoveCounts, SMT DEF Filling
<1>4. /\ Len(idle) \in Nat /\ Len(idle') \in Nat /\ Len(toCheck) \in Nat
      /\ need \in Nat /\ dead \in Nat
  BY SMT DEF TypeOK, Balanced
<1>5. need' = need /\ toCheck' = toCheck /\ dead' = dead /\ spc' = spc
  BY DEF Balanced
<1>6. /\ Used \in Nat /\ Used' \in Nat
      /\ Used' = Used + (Len(idle') - Len(idle)) + (Slots(x) - Slots(pc[r]))
  <2> DEFINE a == Slots(x) b == Slots(pc[r])
             h == Cardinality(Holders) hh == Cardinality(Holders')
             i == Len(idle) ii == Len(idle') c == Len(toCheck)
  <2>1. a \in Int /\ b \in Int /\ h \in Nat /\ hh \in Nat /\ hh = h + (a - b)
    BY <1>2
  <2>2. i \in Nat /\ ii \in Nat /\ c \in Nat
    BY <1>4
  <2>3. Used = i + h + need + c + dead
    BY DEF Used
  <2>4. Used' = ii + hh + need + c + dead
    BY <1>5 DEF Used
  <2> HIDE DEF a, b, h, hh, i, ii, c
  <2>5. Used \in Nat /\ Used' \in Nat /\ Used' = Used + (ii - i) + (a - b)
    BY <1>4, <2>1, <2>2, <2>3, <2>4, SMT
  <2> QED BY <2>5 DEF a, b, i, ii
<1>7. (spc # "down" => total' = Used') /\ Used' <= MaxSize /\ total' \in 0..SizeMax
  <2>1. CASE spc = "down"
    <3>1. /\ Len(idle') + Slots(x) <= Len(idle) + Slots(pc[r]) /\ total' \in 0..SizeMax
          /\ Used <= MaxSize
      BY <2>1 DEF Balanced, Limits
    <3>2. Used' <= Used
      <4> DEFINE a == Slots(x) b == Slots(pc[r]) i == Len(idle) ii == Len(idle')
      <4>1. /\ a \in Int /\ b \in Int /\ i \in Nat /\ ii \in Nat /\ ii + a <= i + b
            /\ Used \in Nat /\ Used' = Used + (ii - i) + (a - b)
        BY <1>2, <1>4, <1>6, <3>1
      <4> HIDE DEF a, b, i, ii
      <4> QED BY <4>1, SMT
    <3> QED BY <1>6, <2>1, <3>1, <3>2, SizesAssumption, SMT
  <2>2. CASE spc # "down"
    <3>1. /\ total' = total + (Len(idle') - Len(idle)) + (Slots(x) - Slots(pc[r]))
          /\ total' <= MaxSize /\ total = Used
      BY <2>2 DEF Balanced, Accounting
    <3> QED BY <1>6, <3>1, SizesAssumption, SMT
  <2> QED BY <2>1, <2>2
<1>8. creating' = Cardinality(Creators') /\ creating' <= MaxCreating
  BY <1>3 DEF Balanced, Accounting
<1> QED BY <1>3, <1>5, <1>7, <1>8 DEF Accounting, Limits

\* Every step of execute(), acquire(), do_query(), release() and
\* drop_bad_connection() preserves the invariant.
LEMMA RequestStepInv ==
    ASSUME PoolInv, NEW r \in Requests,
           Execute(r) \/ Post(r) \/ Dispatch(r) \/ QueryStep(r)
    PROVE  PoolInv'
<1> USE SizesAssumption, NamesAssumption DEF PoolInv
<1>20. spc # "down" => total <= MaxSize
  BY DEF Accounting, Limits
<1>21. pc[r] \in Holds /\ spc # "down" => total > 0
  BY UsedFacts DEF Accounting
<1>1. CASE Execute(r)
  <2> DEFINE x == IF running THEN "posting" ELSE "failed"
  <2>2. Moves(r, x) /\ mpc' = mpc
    BY <1>1 DEF Execute, Moves, TypeOK, RequestPCs, Busy, Finished
  <2>4. Balanced(r, x)
    BY <1>1, <1>20, <2>2, SMT DEF Execute, Balanced, Slots, Filling, Holds, TypeOK,
       Limits, RequestInv, poolVars, mntVars
  <2>5. Accounting' /\ Limits' /\ total' \in 0..SizeMax /\ creating' \in Nat
    BY <2>4, BalancedStep
  <2>6. TypeOK'
    BY <1>1, <2>2, <2>4, <2>5 DEF Execute, Balanced, Moves, TypeOK, RequestInv,
       MaintainPCs, MaxRetries, Busy, poolVars, reqVars, mntVars
  <2>7. RequestInv' /\ MaintainInv' /\ JoinInv'
    BY <1>1, <2>2, SMT DEF Execute, Moves, TypeOK, RequestInv, MaintainInv,
       JoinInv, MaxRetries, Busy, poolVars, reqVars, mntVars
  <2> QED BY <2>5, <2>6, <2>7
<1>2. CASE Post(r)
  <2>2. Moves(r, "queued") /\ mpc' = mpc
    BY <1>2 DEF Post, Moves, TypeOK, RequestPCs, Busy, Finished
  <2>4. Balanced(r, "queued")
    BY <1>2, <1>20, <2>2, SMT DEF Post, Balanced, Slots, Filling, Holds, TypeOK,
       Limits, RequestInv, poolVars, mntVars
  <2>5. Accounting' /\ Limits' /\ total' \in 0..SizeMax /\ creating' \in Nat
    BY <2>4, BalancedStep
  <2>6. TypeOK'
    BY <1>2, <2>2, <2>4, <2>5 DEF Post, Balanced, Moves, TypeOK, RequestInv,
       MaintainPCs, MaxRetries, Busy, poolVars, reqVars, mntVars
  <2>7. RequestInv' /\ MaintainInv' /\ JoinInv'
    BY <1>2, <2>2 DEF Post, Moves, TypeOK, RequestInv, MaintainInv,
       JoinInv, MaxRetries, Busy, poolVars, reqVars, mntVars
  <2> QED BY <2>5, <2>6, <2>7
<1>18. CASE Dispatch(r)
  <2>2. Moves(r, "resumed") /\ mpc' = mpc
    BY <1>18 DEF Dispatch, Moves, TypeOK, RequestPCs, Busy, Finished
  <2>4. Balanced(r, "resumed")
    BY <1>18, <1>20, <2>2, SMT DEF Dispatch, Balanced, Slots, Filling, Holds, TypeOK,
       Limits, RequestInv, poolVars, mntVars
  <2>5. Accounting' /\ Limits' /\ total' \in 0..SizeMax /\ creating' \in Nat
    BY <2>4, BalancedStep
  <2>6. TypeOK'
    BY <1>18, <2>2, <2>4, <2>5 DEF Dispatch, Balanced, Moves, TypeOK, RequestInv,
       MaintainPCs, MaxRetries, Busy, poolVars, reqVars, mntVars
  <2>7. RequestInv' /\ MaintainInv' /\ JoinInv'
    BY <1>18, <2>2 DEF Dispatch, Moves, TypeOK, RequestInv, MaintainInv,
       JoinInv, MaxRetries, Busy, poolVars, reqVars, mntVars
  <2> QED BY <2>5, <2>6, <2>7
<1>3. CASE Resume(r)
  <2> DEFINE x == IF running THEN "acquire" ELSE "failed"
  <2>2. Moves(r, x) /\ mpc' = mpc
    BY <1>3 DEF Resume, Moves, TypeOK, RequestPCs, Busy, Finished
  <2>4. Balanced(r, x)
    BY <1>3, <1>20, <2>2, SMT DEF Resume, Balanced, Slots, Filling, Holds, TypeOK,
       Limits, RequestInv, poolVars, mntVars
  <2>5. Accounting' /\ Limits' /\ total' \in 0..SizeMax /\ creating' \in Nat
    BY <2>4, BalancedStep
  <2>6. TypeOK'
    BY <1>3, <2>2, <2>4, <2>5, SMT DEF Resume, Balanced, Moves, TypeOK, RequestInv,
       MaintainPCs, MaxRetries, Busy, poolVars, reqVars, mntVars
  <2>7. RequestInv' /\ MaintainInv' /\ JoinInv'
    BY <1>3, <2>2, SMT DEF Resume, Moves, TypeOK, RequestInv, MaintainInv,
       JoinInv, MaxRetries, Busy, poolVars, reqVars, mntVars
  <2> QED BY <2>5, <2>6, <2>7
<1>4. CASE AcquireStopped(r)
  <2>2. Moves(r, "failed") /\ mpc' = mpc
    BY <1>4 DEF AcquireStopped, Scanning, Moves, TypeOK, RequestPCs, Busy, Finished
  <2>4. Balanced(r, "failed")
    BY <1>4, <1>20, <2>2, SMT DEF AcquireStopped, Scanning, Balanced, Slots, Filling, Holds, TypeOK,
       Limits, RequestInv, poolVars, mntVars
  <2>5. Accounting' /\ Limits' /\ total' \in 0..SizeMax /\ creating' \in Nat
    BY <2>4, BalancedStep
  <2>6. TypeOK'
    BY <1>4, <2>2, <2>4, <2>5 DEF AcquireStopped, Scanning, Balanced, Moves, TypeOK, RequestInv,
       MaintainPCs, MaxRetries, Busy, poolVars, reqVars, mntVars
  <2>7. RequestInv' /\ MaintainInv' /\ JoinInv'
    BY <1>4, <2>2 DEF AcquireStopped, Scanning, Moves, TypeOK, RequestInv, MaintainInv,
       JoinInv, MaxRetries, Busy, poolVars, reqVars, mntVars
  <2> QED BY <2>5, <2>6, <2>7
<1>5. CASE AcquireIdle(r)
  <2>2. Moves(r, "reset") /\ mpc' = mpc
    BY <1>5 DEF AcquireIdle, Scanning, Moves, TypeOK, RequestPCs, Busy, Finished
  <2>3. /\ idle[Len(idle)] \in Conn /\ idle' \in Seq(Conn)
        /\ Len(idle') = Len(idle) - 1 /\ Len(idle) \in Nat
    BY <1>5, SeqEnds, SMT DEF AcquireIdle, TypeOK
  <2>4. Balanced(r, "reset")
    BY <1>5, <1>20, <2>2, <2>3, SMT DEF AcquireIdle, Scanning, Balanced, Slots, Filling, Holds, TypeOK,
       Limits, RequestInv, poolVars, mntVars
  <2>5. Accounting' /\ Limits' /\ total' \in 0..SizeMax /\ creating' \in Nat
    BY <2>4, BalancedStep
  <2>6. TypeOK'
    BY <1>5, <2>2, <2>4, <2>5, <2>3, ZenonT(60) DEF AcquireIdle, Scanning, Balanced, Moves, TypeOK, RequestInv,
       MaintainPCs, MaxRetries, Busy, poolVars, reqVars, mntVars
  <2>7. RequestInv' /\ MaintainInv' /\ JoinInv'
    BY <1>5, <2>2, <2>3 DEF AcquireIdle, Scanning, Moves, TypeOK, RequestInv, MaintainInv,
       JoinInv, MaxRetries, Busy, poolVars, reqVars, mntVars
  <2> QED BY <2>5, <2>6, <2>7
<1>6. CASE AcquireReserve(r)
  <2>2. Moves(r, "create") /\ mpc' = mpc
    BY <1>6 DEF AcquireReserve, Scanning, MayCreate, Moves, TypeOK, RequestPCs, Busy, Finished
  <2>4. Balanced(r, "create")
    BY <1>6, <1>20, <2>2, SMT DEF AcquireReserve, Scanning, MayCreate, Balanced, Slots, Filling, Holds, TypeOK,
       JoinInv, Limits, RequestInv, poolVars, mntVars
  <2>5. Accounting' /\ Limits' /\ total' \in 0..SizeMax /\ creating' \in Nat
    BY <2>4, BalancedStep
  <2>6. TypeOK'
    BY <1>6, <2>2, <2>4, <2>5 DEF AcquireReserve, Scanning, MayCreate, Balanced, Moves, TypeOK, RequestInv,
       MaintainPCs, MaxRetries, Busy, poolVars, reqVars, mntVars
  <2>7. RequestInv' /\ MaintainInv' /\ JoinInv'
    BY <1>6, <2>2 DEF AcquireReserve, Scanning, MayCreate, Moves, TypeOK, RequestInv, MaintainInv,
       JoinInv, MaxRetries, Busy, poolVars, reqVars, mntVars
  <2> QED BY <2>5, <2>6, <2>7
<1>7. CASE AcquireMustWait(r)
  <2>2. Moves(r, "towait") /\ mpc' = mpc
    BY <1>7 DEF AcquireMustWait, Scanning, Moves, TypeOK, RequestPCs, Busy, Finished
  <2>4. Balanced(r, "towait")
    BY <1>7, <1>20, <2>2, SMT DEF AcquireMustWait, Scanning, Balanced, Slots, Filling, Holds, TypeOK,
       Limits, RequestInv, poolVars, mntVars
  <2>5. Accounting' /\ Limits' /\ total' \in 0..SizeMax /\ creating' \in Nat
    BY <2>4, BalancedStep
  <2>6. TypeOK'
    BY <1>7, <2>2, <2>4, <2>5 DEF AcquireMustWait, Scanning, Balanced, Moves, TypeOK, RequestInv,
       MaintainPCs, MaxRetries, Busy, poolVars, reqVars, mntVars
  <2>7. RequestInv' /\ MaintainInv' /\ JoinInv'
    BY <1>7, <2>2 DEF AcquireMustWait, Scanning, Moves, TypeOK, RequestInv, MaintainInv,
       JoinInv, MaxRetries, Busy, poolVars, reqVars, mntVars
  <2> QED BY <2>5, <2>6, <2>7
<1>8. CASE AcquireWait(r)
  <2>2. Moves(r, "waiting") /\ mpc' = mpc
    BY <1>8 DEF AcquireWait, Moves, TypeOK, RequestPCs, Busy, Finished
  <2>4. Balanced(r, "waiting")
    BY <1>8, <1>20, <2>2, SMT DEF AcquireWait, Balanced, Slots, Filling, Holds, TypeOK,
       Limits, RequestInv, poolVars, mntVars
  <2>5. Accounting' /\ Limits' /\ total' \in 0..SizeMax /\ creating' \in Nat
    BY <2>4, BalancedStep
  <2>6. TypeOK'
    BY <1>8, <2>2, <2>4, <2>5 DEF AcquireWait, Balanced, Moves, TypeOK, RequestInv,
       MaintainPCs, MaxRetries, Busy, poolVars, reqVars, mntVars
  <2>7. RequestInv' /\ MaintainInv' /\ JoinInv'
    BY <1>8, <2>2 DEF AcquireWait, Moves, TypeOK, RequestInv, MaintainInv,
       JoinInv, MaxRetries, Busy, poolVars, reqVars, mntVars
  <2> QED BY <2>5, <2>6, <2>7
<1>9. CASE AcquireTimeout(r)
  <2>2. Moves(r, "failed") /\ mpc' = mpc
    BY <1>9 DEF AcquireTimeout, Moves, TypeOK, RequestPCs, Busy, Finished
  <2>4. Balanced(r, "failed")
    BY <1>9, <1>20, <2>2, SMT DEF AcquireTimeout, Balanced, Slots, Filling, Holds, TypeOK,
       Limits, RequestInv, poolVars, mntVars
  <2>5. Accounting' /\ Limits' /\ total' \in 0..SizeMax /\ creating' \in Nat
    BY <2>4, BalancedStep
  <2>6. TypeOK'
    BY <1>9, <2>2, <2>4, <2>5 DEF AcquireTimeout, Balanced, Moves, TypeOK, RequestInv,
       MaintainPCs, MaxRetries, Busy, poolVars, reqVars, mntVars
  <2>7. RequestInv' /\ MaintainInv' /\ JoinInv'
    BY <1>9, <2>2 DEF AcquireTimeout, Moves, TypeOK, RequestInv, MaintainInv,
       JoinInv, MaxRetries, Busy, poolVars, reqVars, mntVars
  <2> QED BY <2>5, <2>6, <2>7
<1>10. CASE ResetOk(r)
  <2>2. Moves(r, "query") /\ mpc' = mpc
    BY <1>10 DEF ResetOk, Moves, TypeOK, RequestPCs, Busy, Finished
  <2>4. Balanced(r, "query")
    BY <1>10, <1>20, <2>2, SMT DEF ResetOk, Balanced, Slots, Filling, Holds, TypeOK,
       Limits, RequestInv, poolVars, mntVars
  <2>5. Accounting' /\ Limits' /\ total' \in 0..SizeMax /\ creating' \in Nat
    BY <2>4, BalancedStep
  <2>6. TypeOK'
    BY <1>10, <2>2, <2>4, <2>5 DEF ResetOk, Balanced, Moves, TypeOK, RequestInv,
       MaintainPCs, MaxRetries, Busy, poolVars, reqVars, mntVars
  <2>7. RequestInv' /\ MaintainInv' /\ JoinInv'
    BY <1>10, <2>2 DEF ResetOk, Moves, TypeOK, RequestInv, MaintainInv,
       JoinInv, MaxRetries, Busy, poolVars, reqVars, mntVars
  <2> QED BY <2>5, <2>6, <2>7
<1>11. CASE ResetFail(r)
  <2> DEFINE x == IF retry[r] + 1 < MaxRetries THEN "acquire" ELSE "failed"
  <2>1. x \in RequestPCs /\ x # "waiting"
    BY DEF RequestPCs, Busy, Finished
  <2>2. Moves(r, x) /\ (mpc' = mpc \/ (mpc = "waiting" /\ mpc' = "top"))
    BY <1>11, <2>1, NotifyFacts DEF ResetFail, Drop, NextRetry
  <2>3. retry' \in [Requests -> 0..MaxRetries]
    BY <1>11, SMT DEF ResetFail, NextRetry, TypeOK, RequestInv, Busy, MaxRetries
  <2>4. Balanced(r, x)
    BY <1>11, <1>20, <1>21, <2>2, SMT DEF ResetFail, Drop, Decremented, NextRetry, Balanced, Slots, Filling, Holds, TypeOK,
       Limits, RequestInv, poolVars, mntVars
  <2>5. Accounting' /\ Limits' /\ total' \in 0..SizeMax /\ creating' \in Nat
    BY <2>4, BalancedStep
  <2>6. TypeOK'
    BY <1>11, <2>2, <2>4, <2>5, <2>3, ZenonT(60) DEF ResetFail, Drop, Balanced, Moves, TypeOK, RequestInv,
       MaintainPCs, MaxRetries, Busy, poolVars, reqVars, mntVars
  <2>7. RequestInv' /\ MaintainInv' /\ JoinInv'
    BY <1>11, <2>2, <2>3 DEF ResetFail, Drop, NextRetry, Moves, TypeOK, RequestInv, MaintainInv,
       JoinInv, MaxRetries, Busy, poolVars, reqVars, mntVars
  <2> QED BY <2>5, <2>6, <2>7
<1>12. CASE CreateOk(r)
  <2>2. Moves(r, "query") /\ mpc' = mpc
    BY <1>12 DEF CreateOk, Moves, TypeOK, RequestPCs, Busy, Finished
  <2>4. Balanced(r, "query")
    BY <1>12, <1>20, <2>2, SMT DEF CreateOk, Balanced, Slots, Filling, Holds, TypeOK,
       Limits, RequestInv, poolVars, mntVars
  <2>5. Accounting' /\ Limits' /\ total' \in 0..SizeMax /\ creating' \in Nat
    BY <2>4, BalancedStep
  <2>6. TypeOK'
    BY <1>12, <2>2, <2>4, <2>5, SMT DEF CreateOk, Balanced, Moves, TypeOK, RequestInv,
       MaintainPCs, MaxRetries, Busy, poolVars, reqVars, mntVars
  <2>7. RequestInv' /\ MaintainInv' /\ JoinInv'
    BY <1>12, <2>2 DEF CreateOk, Moves, TypeOK, RequestInv, MaintainInv,
       JoinInv, MaxRetries, Busy, poolVars, reqVars, mntVars
  <2> QED BY <2>5, <2>6, <2>7
<1>13. CASE CreateFail(r)
  <2> DEFINE x == IF retry[r] + 1 < MaxRetries THEN "acquire" ELSE "failed"
  <2>1. x \in RequestPCs /\ x # "waiting"
    BY DEF RequestPCs, Busy, Finished
  <2>2. Moves(r, x) /\ (mpc' = mpc \/ (mpc = "waiting" /\ mpc' = "top"))
    BY <1>13, <2>1, NotifyFacts DEF CreateFail, NextRetry
  <2>3. retry' \in [Requests -> 0..MaxRetries]
    BY <1>13, SMT DEF CreateFail, NextRetry, TypeOK, RequestInv, Busy, MaxRetries
  <2>4. Balanced(r, x)
    BY <1>13, <1>20, <1>21, <2>2, SMT DEF CreateFail, Decremented, NextRetry, Balanced, Slots, Filling, Holds, TypeOK,
       Limits, RequestInv, poolVars, mntVars
  <2>5. Accounting' /\ Limits' /\ total' \in 0..SizeMax /\ creating' \in Nat
    BY <2>4, BalancedStep
  <2>6. TypeOK'
    BY <1>13, <2>2, <2>4, <2>5, <2>3, ZenonT(60) DEF CreateFail, Balanced, Moves, TypeOK, RequestInv,
       MaintainPCs, MaxRetries, Busy, poolVars, reqVars, mntVars
  <2>7. RequestInv' /\ MaintainInv' /\ JoinInv'
    BY <1>13, <2>2, <2>3 DEF CreateFail, NextRetry, Moves, TypeOK, RequestInv, MaintainInv,
       JoinInv, MaxRetries, Busy, poolVars, reqVars, mntVars
  <2> QED BY <2>5, <2>6, <2>7
<1>14. CASE Release(r)
  <2>1. "done" \in RequestPCs /\ "done" # "waiting"
    BY DEF RequestPCs, Busy, Finished
  <2>2. Moves(r, "done") /\ (mpc' = mpc \/ (mpc = "waiting" /\ mpc' = "top"))
    BY <1>14, <2>1, NotifyFacts DEF Release
  <2>4. Balanced(r, "done")
    BY <1>14, <1>20, <2>2, SMT DEF Release, Balanced, Slots, Filling, Holds, TypeOK,
       Limits, RequestInv, poolVars, mntVars
  <2>5. Accounting' /\ Limits' /\ total' \in 0..SizeMax /\ creating' \in Nat
    BY <2>4, BalancedStep
  <2>6. TypeOK'
    BY <1>14, <2>2, <2>4, <2>5, ZenonT(60) DEF Release, Balanced, Moves, TypeOK, RequestInv,
       MaintainPCs, MaxRetries, Busy, poolVars, reqVars, mntVars
  <2>7. RequestInv' /\ MaintainInv' /\ JoinInv'
    BY <1>14, <2>2, ZenonT(60) DEF Release, Moves, TypeOK, RequestInv, MaintainInv,
       JoinInv, MaxRetries, Busy, poolVars, reqVars, mntVars
  <2> QED BY <2>5, <2>6, <2>7
<1>15. CASE ReleaseNoMemory(r)
  <2>2. Moves(r, "closing") /\ mpc' = mpc
    BY <1>15 DEF ReleaseNoMemory, Moves, TypeOK, RequestPCs, Busy, Finished
  <2>4. Balanced(r, "closing")
    BY <1>15, <1>20, <1>21, <2>2, SMT DEF ReleaseNoMemory, Balanced, Slots, Filling, Holds, TypeOK,
       Limits, RequestInv, poolVars, mntVars
  <2>5. Accounting' /\ Limits' /\ total' \in 0..SizeMax /\ creating' \in Nat
    BY <2>4, BalancedStep
  <2>6. TypeOK'
    BY <1>15, <2>2, <2>4, <2>5, ZenonT(60) DEF ReleaseNoMemory, Balanced, Moves, TypeOK, RequestInv,
       MaintainPCs, MaxRetries, Busy, poolVars, reqVars, mntVars
  <2>7. RequestInv' /\ MaintainInv' /\ JoinInv'
    BY <1>15, <2>2, ZenonT(60) DEF ReleaseNoMemory, Moves, TypeOK, RequestInv, MaintainInv,
       JoinInv, MaxRetries, Busy, poolVars, reqVars, mntVars
  <2> QED BY <2>5, <2>6, <2>7
<1>16. CASE CloseUnpooled(r)
  <2>1. "done" \in RequestPCs /\ "done" # "waiting"
    BY DEF RequestPCs, Busy, Finished
  <2>2. Moves(r, "done") /\ (mpc' = mpc \/ (mpc = "waiting" /\ mpc' = "top"))
    BY <1>16, <2>1, NotifyFacts DEF CloseUnpooled
  <2>4. Balanced(r, "done")
    BY <1>16, <1>20, <2>2, SMT DEF CloseUnpooled, Balanced, Slots, Filling, Holds, TypeOK,
       Limits, RequestInv, poolVars, mntVars
  <2>5. Accounting' /\ Limits' /\ total' \in 0..SizeMax /\ creating' \in Nat
    BY <2>4, BalancedStep
  <2>6. TypeOK'
    BY <1>16, <2>2, <2>4, <2>5, ZenonT(60) DEF CloseUnpooled, Balanced, Moves, TypeOK, RequestInv,
       MaintainPCs, MaxRetries, Busy, poolVars, reqVars, mntVars
  <2>7. RequestInv' /\ MaintainInv' /\ JoinInv'
    BY <1>16, <2>2 DEF CloseUnpooled, Moves, TypeOK, RequestInv, MaintainInv,
       JoinInv, MaxRetries, Busy, poolVars, reqVars, mntVars
  <2> QED BY <2>5, <2>6, <2>7
<1>17. CASE QueryConnectionError(r)
  <2>1. "done" \in RequestPCs /\ "done" # "waiting"
    BY DEF RequestPCs, Busy, Finished
  <2>2. Moves(r, "done") /\ (mpc' = mpc \/ (mpc = "waiting" /\ mpc' = "top"))
    BY <1>17, <2>1, NotifyFacts DEF QueryConnectionError, Drop
  <2>4. Balanced(r, "done")
    BY <1>17, <1>20, <1>21, <2>2, SMTT(60) DEF QueryConnectionError, Drop, Decremented, Balanced, Slots, Filling, Holds, TypeOK,
       Limits, RequestInv, poolVars, mntVars
  <2>5. Accounting' /\ Limits' /\ total' \in 0..SizeMax /\ creating' \in Nat
    BY <2>4, BalancedStep
  <2>6. TypeOK'
    BY <1>17, <2>2, <2>4, <2>5, ZenonT(60) DEF QueryConnectionError, Drop, Balanced, Moves, TypeOK, RequestInv,
       MaintainPCs, MaxRetries, Busy, poolVars, reqVars, mntVars
  <2>7. RequestInv' /\ MaintainInv' /\ JoinInv'
    BY <1>17, <2>2, ZenonT(60) DEF QueryConnectionError, Drop, Moves, TypeOK, RequestInv, MaintainInv,
       JoinInv, MaxRetries, Busy, poolVars, reqVars, mntVars
  <2> QED BY <2>5, <2>6, <2>7
<1> QED BY <1>1, <1>2, <1>3, <1>4, <1>5, <1>6, <1>7, <1>8, <1>9, <1>10, <1>11, <1>12, <1>13, <1>14, <1>15, <1>16, <1>17, <1>18
       DEF QueryStep

-----------------------------------------------------------------------------
(* Steps of the maintain thread *)

\* total_ changes by the slots the maintain thread takes or gives back.
MaintainBalanced ==
    /\ Wakes /\ creating' = creating
    /\ idle' \in Seq(Conn) /\ toCheck' \in Seq(Conn) /\ need' \in Nat /\ dead' \in Nat
    /\ total' = total + (Len(idle') - Len(idle)) + (need' - need)
                  + (Len(toCheck') - Len(toCheck)) + (dead' - dead)
    /\ total' <= MaxSize

\* A balanced step of the maintain thread keeps the accounts.
LEMMA MaintainBalancedStep ==
    ASSUME TypeOK, Accounting, Limits, spc # "down", MaintainBalanced
    PROVE  Accounting' /\ Limits' /\ total' \in 0..SizeMax /\ creating' \in Nat
<1>1. /\ Cardinality(Holders') = Cardinality(Holders) /\ Cardinality(Holders) \in Nat
      /\ Cardinality(Creators') = Cardinality(Creators)
  BY WakeCounts DEF MaintainBalanced
<1>2. /\ Len(idle) \in Nat /\ Len(idle') \in Nat /\ Len(toCheck) \in Nat
      /\ Len(toCheck') \in Nat /\ need \in Nat /\ dead \in Nat
      /\ need' \in Nat /\ dead' \in Nat
  <2>1. /\ idle \in Seq(Conn) /\ toCheck \in Seq(Conn) /\ need \in Nat /\ dead \in Nat
    BY DEF TypeOK
  <2>2. /\ idle' \in Seq(Conn) /\ toCheck' \in Seq(Conn) /\ need' \in Nat /\ dead' \in Nat
    BY DEF MaintainBalanced
  <2> QED BY <2>1, <2>2, SMT
<1>3. total = Len(idle) + Cardinality(Holders) + need + Len(toCheck) + dead
  BY DEF Accounting, Used
<1>4. total' = total + (Len(idle') - Len(idle)) + (need' - need)
                 + (Len(toCheck') - Len(toCheck)) + (dead' - dead)
  BY DEF MaintainBalanced
<1>5. /\ total' = Len(idle') + Cardinality(Holders) + need' + Len(toCheck') + dead'
      /\ total' \in Nat
  <2> DEFINE h == Cardinality(Holders) i == Len(idle) ii == Len(idle')
             c == Len(toCheck) cc == Len(toCheck')
             n == need nn == need' d == dead dd == dead'
  <2>1. h \in Nat
    BY <1>1
  <2>2. /\ i \in Nat /\ ii \in Nat /\ c \in Nat /\ cc \in Nat
        /\ n \in Nat /\ nn \in Nat /\ d \in Nat /\ dd \in Nat
    BY <1>2
  <2>3. total = i + h + n + c + d
    BY <1>3
  <2>4. total' = total + (ii - i) + (nn - n) + (cc - c) + (dd - d)
    BY <1>4
  <2> HIDE DEF h, i, ii, c, cc, n, nn, d, dd
  <2>5. total' = ii + h + nn + cc + dd /\ total' \in Nat
    BY <2>1, <2>2, <2>3, <2>4, SMT
  <2> QED BY <2>5 DEF h, ii, cc, nn, dd
<1>6. total' = Used'
  BY <1>1, <1>5 DEF Used
<1>7. creating' = Cardinality(Creators') /\ creating' <= MaxCreating /\ creating' \in Nat
  BY <1>1 DEF MaintainBalanced, Accounting, Limits, TypeOK
<1>8. total' <= MaxSize
  BY DEF MaintainBalanced
<1>9. total' \in 0..SizeMax
  BY <1>5, <1>8, SizesAssumption, SMT
<1> QED BY <1>6, <1>7, <1>8, <1>9 DEF Accounting, Limits

\* Every step of maintain_loop() and do_maintain() preserves the invariant.
LEMMA MaintainStepInv ==
    ASSUME PoolInv, MaintainStep
    PROVE  PoolInv'
<1> USE SizesAssumption, NamesAssumption DEF PoolInv
<1> DEFINE Rest == RequestInv' /\ MaintainInv' /\ JoinInv'
<1>0. spc \notin {"joinWorkers", "close", "down"}
  BY ZenonT(60) DEF MaintainStep, MaintainTop, MaintainWait, MaintainTick, Phase1, CloseStale,
     Phase2, RefillCreate, RefillPublish, Phase3, PingAlive, PingDead, PingEnd, JoinInv
<1>20. total <= MaxSize /\ total \in Nat
  BY <1>0, SMT DEF Accounting, Limits, TypeOK
<1>1. CASE MaintainTop
  <2>3. Wakes
    BY <1>1 DEF MaintainTop, Woken, Wakes, TypeOK, RequestPCs, Busy
  <2>4. MaintainBalanced
    BY <1>20, <1>1, <2>3, SMT DEF MaintainTop, MaintainBalanced, TypeOK, MaintainInv, poolVars, mntVars
  <2>5. Accounting' /\ Limits' /\ total' \in 0..SizeMax /\ creating' \in Nat
    BY <1>0, <2>4, MaintainBalancedStep
  <2>6. TypeOK'
    BY <1>1, <2>3, <2>4, <2>5, ZenonT(60) DEF MaintainTop, MaintainBalanced, Wakes, TypeOK, MaintainPCs,
       poolVars, reqVars, mntVars
  <2>7. Rest
    BY <1>0, <1>1, <2>3, ZenonT(60) DEF MaintainTop, Wakes, TypeOK, RequestInv, MaintainInv, JoinInv,
       Busy, poolVars, reqVars, mntVars
  <2> QED BY <2>5, <2>6, <2>7
<1>2. CASE MaintainWait
  <2>3. Wakes
    BY <1>2 DEF MaintainWait, Woken, Wakes, TypeOK, RequestPCs, Busy
  <2>4. MaintainBalanced
    BY <1>20, <1>2, <2>3, SMT DEF MaintainWait, MaintainBalanced, TypeOK, MaintainInv, poolVars, mntVars
  <2>5. Accounting' /\ Limits' /\ total' \in 0..SizeMax /\ creating' \in Nat
    BY <1>0, <2>4, MaintainBalancedStep
  <2>6. TypeOK'
    BY <1>2, <2>3, <2>4, <2>5, ZenonT(60) DEF MaintainWait, MaintainBalanced, Wakes, TypeOK, MaintainPCs,
       poolVars, reqVars, mntVars
  <2>7. Rest
    BY <1>0, <1>2, <2>3, ZenonT(60) DEF MaintainWait, Wakes, TypeOK, RequestInv, MaintainInv, JoinInv,
       Busy, poolVars, reqVars, mntVars
  <2> QED BY <2>5, <2>6, <2>7
<1>3. CASE MaintainTick
  <2>3. Wakes
    BY <1>3 DEF MaintainTick, Woken, Wakes, TypeOK, RequestPCs, Busy
  <2>4. MaintainBalanced
    BY <1>20, <1>3, <2>3, SMT DEF MaintainTick, MaintainBalanced, TypeOK, MaintainInv, poolVars, mntVars
  <2>5. Accounting' /\ Limits' /\ total' \in 0..SizeMax /\ creating' \in Nat
    BY <1>0, <2>4, MaintainBalancedStep
  <2>6. TypeOK'
    BY <1>3, <2>3, <2>4, <2>5, ZenonT(60) DEF MaintainTick, MaintainBalanced, Wakes, TypeOK, MaintainPCs,
       poolVars, reqVars, mntVars
  <2>7. Rest
    BY <1>0, <1>3, <2>3, ZenonT(60) DEF MaintainTick, Wakes, TypeOK, RequestInv, MaintainInv, JoinInv,
       Busy, poolVars, reqVars, mntVars
  <2> QED BY <2>5, <2>6, <2>7
<1>4. CASE Phase1
  <2>1. PICK n \in 0..Len(idle) :
            /\ n > 0 => total - n >= MinSize
            /\ toClose' = Range(SubSeq(idle, 1, n))
            /\ idle' = SubSeq(idle, n + 1, Len(idle))
            /\ total' = total - n
    BY <1>4 DEF Phase1
  <2>2. /\ idle' \in Seq(Conn) /\ Len(idle') = Len(idle) - n /\ Len(idle) \in Nat
        /\ toClose' \subseteq Conn /\ total' \in Int /\ total' <= MaxSize
    <3>1. idle \in Seq(Conn) /\ total \in Nat /\ total <= MaxSize
      BY <1>20 DEF TypeOK
    <3>2. /\ SubSeq(idle, n + 1, Len(idle)) \in Seq(Conn)
          /\ Len(SubSeq(idle, n + 1, Len(idle))) = Len(idle) - n
          /\ Range(SubSeq(idle, 1, n)) \subseteq Conn
      BY <3>1, SeqEnds, SMT
    <3> QED BY <2>1, <3>1, <3>2, SMT
  <2>8. /\ UNCHANGED <<running, mtx, creating, open, conn, retry, need, left, newConns, toCheck, dead, spc, io>>
        /\ mpc' = "close1"
    BY <1>4 DEF Phase1, reqVars
  <2>3. Wakes
    BY <1>4 DEF Phase1, Woken, Wakes, TypeOK, RequestPCs, Busy
  <2>4. MaintainBalanced
    BY <1>20, <2>8, <2>3, <2>1, <2>2, SMT DEF MaintainBalanced, TypeOK, MaintainInv, poolVars, mntVars
  <2>5. Accounting' /\ Limits' /\ total' \in 0..SizeMax /\ creating' \in Nat
    BY <1>0, <2>4, MaintainBalancedStep
  <2>6. TypeOK'
    BY <2>8, <2>3, <2>4, <2>5, <2>1, <2>2 DEF MaintainBalanced, Wakes, TypeOK, MaintainPCs,
       poolVars, reqVars, mntVars
  <2>7. Rest
    BY <1>0, <1>4, <2>3, <2>1, <2>2 DEF Phase1, Wakes, TypeOK, RequestInv, MaintainInv, JoinInv,
       Busy, poolVars, reqVars, mntVars
  <2> QED BY <2>5, <2>6, <2>7
<1>5. CASE CloseStale
  <2>3. Wakes
    BY <1>5 DEF CloseStale, Woken, Wakes, TypeOK, RequestPCs, Busy
  <2>4. MaintainBalanced
    BY <1>20, <1>5, <2>3, SMT DEF CloseStale, MaintainBalanced, TypeOK, MaintainInv, poolVars, mntVars
  <2>5. Accounting' /\ Limits' /\ total' \in 0..SizeMax /\ creating' \in Nat
    BY <1>0, <2>4, MaintainBalancedStep
  <2>6. TypeOK'
    BY <1>5, <2>3, <2>4, <2>5 DEF CloseStale, MaintainBalanced, Wakes, TypeOK, MaintainPCs,
       poolVars, reqVars, mntVars
  <2>7. Rest
    BY <1>0, <1>5, <2>3 DEF CloseStale, Wakes, TypeOK, RequestInv, MaintainInv, JoinInv,
       Busy, poolVars, reqVars, mntVars
  <2> QED BY <2>5, <2>6, <2>7
<1>6. CASE Phase2
  <2>1. /\ need' \in Nat /\ left' \in Nat /\ total' = total + need'
        /\ total' <= MaxSize
    BY <1>6, <1>20, SMT DEF Phase2, Min2, TypeOK
  <2>2. need = 0 /\ idle' = idle /\ Len(idle) \in Nat /\ toCheck' = toCheck
        /\ Len(toCheck) \in Nat /\ dead' = dead /\ dead \in Nat /\ total \in Nat
        /\ idle' \in Seq(Conn) /\ toCheck' \in Seq(Conn) /\ dead' \in Nat
    BY <1>6, <1>20, SMT DEF Phase2, TypeOK, MaintainInv
  <2>9. total' = total + (Len(idle') - Len(idle)) + (need' - need)
                   + (Len(toCheck') - Len(toCheck)) + (dead' - dead)
    BY <2>1, <2>2, SMT
  <2>8. /\ UNCHANGED <<running, mtx, idle, creating, open, conn, retry, toClose, newConns, toCheck, dead, spc, io>>
        /\ mpc' = "create2"
    BY <1>6 DEF Phase2, reqVars
  <2>3. Wakes
    BY <1>6 DEF Phase2, Woken, Wakes, TypeOK, RequestPCs, Busy
  <2>10. creating' = creating
    BY <2>8
  <2>4. MaintainBalanced
    BY <2>1, <2>2, <2>3, <2>9, <2>10, Zenon DEF MaintainBalanced
  <2>5. Accounting' /\ Limits' /\ total' \in 0..SizeMax /\ creating' \in Nat
    BY <1>0, <2>4, MaintainBalancedStep
  <2>11. need' \in Nat /\ left' \in Nat
    BY <2>1
  <2>6. TypeOK'
    BY <2>3, <2>5, <2>8, <2>11 DEF Wakes, TypeOK, MaintainPCs
  <2>7. Rest
    BY <1>0, <1>6, <2>3, <2>1, <2>2, SMTT(60) DEF Phase2, Wakes, TypeOK, RequestInv, MaintainInv, JoinInv,
       Busy, poolVars, reqVars, mntVars
  <2> QED BY <2>5, <2>6, <2>7
<1>7. CASE RefillCreate
  <2>1. left' \in Nat /\ open' \subseteq Conn /\ newConns' \in Seq(Conn)
        /\ Len(newConns') + left' <= need
    <3>1. \/ newConns' = newConns /\ open' = open
          \/ \E c \in Conn : newConns' = Append(newConns, c) /\ open' = open \cup {c}
      BY <1>7 DEF RefillCreate
    <3>2. left \in Nat /\ left > 0 /\ left' = left - 1
      BY <1>7 DEF RefillCreate, TypeOK
    <3>3. newConns \in Seq(Conn) /\ open \subseteq Conn /\ Len(newConns) + left <= need
      BY DEF TypeOK, MaintainInv
    <3>4. CASE newConns' = newConns /\ open' = open
      BY <3>2, <3>3, <3>4, SMT DEF TypeOK
    <3>5. CASE \E c \in Conn : newConns' = Append(newConns, c) /\ open' = open \cup {c}
      <4>1. newConns' \in Seq(Conn) /\ Len(newConns') = Len(newConns) + 1
            /\ Len(newConns) \in Nat /\ open' \subseteq Conn
        BY <3>3, <3>5, SMT
      <4> QED BY <3>2, <3>3, <4>1, SMT DEF TypeOK
    <3> QED BY <3>1, <3>4, <3>5
  <2>3. Wakes
    BY <1>7 DEF RefillCreate, Woken, Wakes, TypeOK, RequestPCs, Busy
  <2>4. MaintainBalanced
    BY <1>20, <1>7, <2>3, <2>1, SMTT(60) DEF RefillCreate, MaintainBalanced, TypeOK, MaintainInv, poolVars, mntVars
  <2>5. Accounting' /\ Limits' /\ total' \in 0..SizeMax /\ creating' \in Nat
    BY <1>0, <2>4, MaintainBalancedStep
  <2>6. TypeOK'
    BY <1>7, <2>3, <2>4, <2>5, <2>1, ZenonT(60) DEF RefillCreate, MaintainBalanced, Wakes, TypeOK, MaintainPCs,
       poolVars, reqVars, mntVars
  <2>7. Rest
    BY <1>0, <1>7, <2>3, <2>1, ZenonT(60) DEF RefillCreate, Wakes, TypeOK, RequestInv, MaintainInv, JoinInv,
       Busy, poolVars, reqVars, mntVars
  <2> QED BY <2>5, <2>6, <2>7
<1>8. CASE RefillPublish
  <2>1. /\ idle' \in Seq(Conn) /\ Len(idle') = Len(idle) + Len(newConns)
        /\ Len(newConns) \in Nat /\ Len(idle) \in Nat /\ Len(newConns) <= need
    BY <1>8, SMT DEF RefillPublish, TypeOK, MaintainInv
  <2>3. Wakes
    BY <1>8, ZenonT(60) DEF RefillPublish, Woken, Wakes, TypeOK, RequestPCs, Busy
  <2>4. MaintainBalanced
    BY <1>20, <1>8, <2>3, <2>1, SMTT(60) DEF RefillPublish, MaintainBalanced, TypeOK, MaintainInv, poolVars, mntVars
  <2>5. Accounting' /\ Limits' /\ total' \in 0..SizeMax /\ creating' \in Nat
    BY <1>0, <2>4, MaintainBalancedStep
  <2>6. TypeOK'
    BY <1>8, <2>3, <2>4, <2>5, <2>1, SMTT(60) DEF RefillPublish, MaintainBalanced, Wakes, TypeOK, MaintainPCs,
       poolVars, reqVars, mntVars
  <2>7. Rest
    BY <1>0, <1>8, <2>3, <2>1, SMTT(60) DEF RefillPublish, Wakes, TypeOK, RequestInv, MaintainInv, JoinInv,
       Busy, poolVars, reqVars, mntVars
  <2> QED BY <2>5, <2>6, <2>7
<1>9. CASE Phase3
  <2> DEFINE n == Min2(Len(idle), MaxCheck)
  <2>0. idle \in Seq(Conn) /\ Len(idle) \in Nat /\ n \in 0..Len(idle)
    BY SMTT(60) DEF TypeOK, Min2
  <2>1. toCheck' = SubSeq(idle, 1, n) /\ idle' = SubSeq(idle, n + 1, Len(idle))
    BY <1>9 DEF Phase3
  <2> HIDE DEF n
  <2>2. /\ idle' \in Seq(Conn) /\ Len(idle') = Len(idle) - n /\ Len(idle) \in Nat
        /\ toCheck' \in Seq(Conn) /\ Len(toCheck') = n
        /\ Len(toCheck) = 0
    <3>1. toCheck = <<>>
      BY <1>9 DEF Phase3, MaintainInv
    <3> QED BY <2>0, <2>1, <3>1, SeqEnds, SMTT(60)
  <2>8. /\ UNCHANGED <<running, mtx, total, creating, open, conn, retry, toClose, need, left, newConns, dead, spc, io>>
        /\ mpc' = "ping"
    BY <1>9 DEF Phase3, reqVars
  <2>3. Wakes
    BY <1>9, ZenonT(60) DEF Phase3, Woken, Wakes, TypeOK, RequestPCs, Busy
  <2>4. MaintainBalanced
    BY <1>20, <2>8, <2>3, <2>0, <2>2, SMTT(60) DEF MaintainBalanced, TypeOK, MaintainInv, poolVars, mntVars
  <2>5. Accounting' /\ Limits' /\ total' \in 0..SizeMax /\ creating' \in Nat
    BY <1>0, <2>4, MaintainBalancedStep
  <2>6. TypeOK'
    BY <2>8, <2>3, <2>4, <2>5, <2>0, <2>2, ZenonT(60) DEF MaintainBalanced, Wakes, TypeOK, MaintainPCs,
       poolVars, reqVars, mntVars
  <2>7. Rest
    BY <1>0, <1>9, <2>3, <2>0, <2>2, ZenonT(60) DEF Phase3, Wakes, TypeOK, RequestInv, MaintainInv, JoinInv,
       Busy, poolVars, reqVars, mntVars
  <2> QED BY <2>5, <2>6, <2>7
<1>10. CASE PingAlive
  <2>1. /\ idle' \in Seq(Conn) /\ Len(idle') = Len(idle) + 1 /\ Len(idle) \in Nat
        /\ toCheck' \in Seq(Conn) /\ Len(toCheck') = Len(toCheck) - 1
        /\ Len(toCheck) \in Nat
    BY <1>10, SeqEnds, SMTT(60) DEF PingAlive, TypeOK
  <2>3. Wakes
    BY <1>10, ZenonT(60) DEF PingAlive, Woken, Wakes, TypeOK, RequestPCs, Busy
  <2>4. MaintainBalanced
    BY <1>20, <1>10, <2>3, <2>1, SMTT(60) DEF PingAlive, MaintainBalanced, TypeOK, MaintainInv, poolVars, mntVars
  <2>5. Accounting' /\ Limits' /\ total' \in 0..SizeMax /\ creating' \in Nat
    BY <1>0, <2>4, MaintainBalancedStep
  <2>6. TypeOK'
    BY <1>10, <2>3, <2>4, <2>5, <2>1, ZenonT(60) DEF PingAlive, MaintainBalanced, Wakes, TypeOK, MaintainPCs,
       poolVars, reqVars, mntVars
  <2>7. Rest
    BY <1>0, <1>10, <2>3, <2>1, ZenonT(60) DEF PingAlive, Wakes, TypeOK, RequestInv, MaintainInv, JoinInv,
       Busy, poolVars, reqVars, mntVars
  <2> QED BY <2>5, <2>6, <2>7
<1>11. CASE PingDead
  <2>1. /\ toCheck' \in Seq(Conn) /\ Len(toCheck') = Len(toCheck) - 1
        /\ Len(toCheck) \in Nat /\ Len(idle) \in Nat
    BY <1>11, SeqEnds, SMTT(60) DEF PingDead, TypeOK
  <2>3. Wakes
    BY <1>11, ZenonT(60) DEF PingDead, Woken, Wakes, TypeOK, RequestPCs, Busy
  <2>4. MaintainBalanced
    BY <1>20, <1>11, <2>3, <2>1, SMTT(60) DEF PingDead, MaintainBalanced, TypeOK, MaintainInv, poolVars, mntVars
  <2>5. Accounting' /\ Limits' /\ total' \in 0..SizeMax /\ creating' \in Nat
    BY <1>0, <2>4, MaintainBalancedStep
  <2>6. TypeOK'
    BY <1>11, <2>3, <2>4, <2>5, <2>1, ZenonT(60) DEF PingDead, MaintainBalanced, Wakes, TypeOK, MaintainPCs,
       poolVars, reqVars, mntVars
  <2>7. Rest
    BY <1>0, <1>11, <2>3, <2>1, ZenonT(60) DEF PingDead, Wakes, TypeOK, RequestInv, MaintainInv, JoinInv,
       Busy, poolVars, reqVars, mntVars
  <2> QED BY <2>5, <2>6, <2>7
<1>12. CASE PingEnd
  <2>1. /\ toCheck' \in Seq(Conn) /\ Len(toCheck') = 0
        /\ Len(toCheck) \in Nat /\ Len(idle) \in Nat
    BY <1>12, SMTT(60) DEF PingEnd, TypeOK
  <2>3. Wakes
    BY <1>12, ZenonT(60) DEF PingEnd, Woken, Wakes, TypeOK, RequestPCs, Busy
  <2>4. MaintainBalanced
    BY <1>20, <1>12, <2>3, <2>1, SMTT(60) DEF PingEnd, MaintainBalanced, TypeOK, MaintainInv, poolVars, mntVars
  <2>5. Accounting' /\ Limits' /\ total' \in 0..SizeMax /\ creating' \in Nat
    BY <1>0, <2>4, MaintainBalancedStep
  <2>6. TypeOK'
    BY <1>12, <2>3, <2>4, <2>5, <2>1, ZenonT(60) DEF PingEnd, MaintainBalanced, Wakes, TypeOK, MaintainPCs,
       poolVars, reqVars, mntVars
  <2>7. Rest
    BY <1>0, <1>12, <2>3, <2>1, ZenonT(60) DEF PingEnd, Wakes, TypeOK, RequestInv, MaintainInv, JoinInv,
       Busy, poolVars, reqVars, mntVars
  <2> QED BY <2>5, <2>6, <2>7
<1> QED BY <1>1, <1>2, <1>3, <1>4, <1>5, <1>6, <1>7, <1>8, <1>9, <1>10, <1>11, <1>12, ZenonT(60) DEF MaintainStep

-----------------------------------------------------------------------------
(* Steps of shutdown() *)

\* Every step of shutdown(), and the join of the io threads before it, preserves the
\* invariant; when the last one sets total_ to zero it stops counting the slots of
\* queries that still run.
LEMMA ShutdownStepInv ==
    ASSUME PoolInv, ShutdownStep \/ JoinIo
    PROVE  PoolInv'
<1> USE SizesAssumption, NamesAssumption DEF PoolInv
<1>1. CASE ShutdownFlag \/ JoinMaintain \/ JoinWorkers \/ JoinIo
  <2>1. /\ UNCHANGED <<mtx, idle, total, creating, open, pc, conn, retry, mpc>>
        /\ UNCHANGED <<toClose, need, left, newConns, toCheck, dead>>
        /\ spc # "down" /\ spc' \in ShutdownPCs \ {"down"}
        /\ io' \in {"run", "joined"} /\ running' \in BOOLEAN
    BY <1>1 DEF ShutdownFlag, JoinMaintain, JoinWorkers, JoinIo, TypeOK, ShutdownPCs,
       poolVars, reqVars, mntVars
  <2>2. TypeOK'
    BY <2>1 DEF TypeOK
  <2>3. Used' = Used /\ Creators' = Creators
    BY <2>1 DEF Used, Holders, Creators
  <2>4. Accounting' /\ Limits'
    BY <2>1, <2>3 DEF Accounting, Limits
  <2>5. RequestInv' /\ MaintainInv'
    BY <2>1 DEF RequestInv, MaintainInv
  <2>6. JoinInv'
    BY <1>1, <2>1 DEF ShutdownFlag, JoinMaintain, JoinWorkers, JoinIo, JoinInv
  <2> QED BY <2>2, <2>4, <2>5, <2>6
<1>2. CASE ShutdownNotify
  <2>1. Wakes /\ (mpc' = mpc \/ (mpc = "waiting" /\ mpc' = "top"))
    BY <1>2, ZenonT(60) DEF ShutdownNotify, NotifyAll, MaintainWoken, Woken, Wakes, TypeOK,
       RequestPCs, Busy
  <2>2. Accounting' /\ Limits'
    <3>1. Used' = Used /\ Cardinality(Creators') = Cardinality(Creators)
      BY <1>2, <2>1, WakeCounts DEF ShutdownNotify, Used, poolVars, mntVars
    <3> QED BY <1>2, <3>1 DEF ShutdownNotify, Accounting, Limits, poolVars
  <2>3. TypeOK'
    BY <1>2, <2>1, ZenonT(60) DEF ShutdownNotify, Wakes, TypeOK, MaintainPCs, ShutdownPCs,
       poolVars, reqVars, mntVars
  <2>4. RequestInv' /\ MaintainInv' /\ JoinInv'
    BY <1>2, <2>1, ZenonT(60) DEF ShutdownNotify, Wakes, TypeOK, RequestInv, MaintainInv, JoinInv,
       Busy, poolVars, reqVars, mntVars
  <2> QED BY <2>2, <2>3, <2>4
<1>3. CASE CloseAll
  <2>1. /\ UNCHANGED <<running, mtx, creating, pc, conn, retry, mpc, io>>
        /\ UNCHANGED <<toClose, need, left, newConns, toCheck, dead>>
        /\ idle' = <<>> /\ total' = 0 /\ open' \subseteq open /\ spc = "close" /\ spc' = "down"
    BY <1>3 DEF CloseAll, reqVars, mntVars
  <2>2. /\ Len(idle') = 0 /\ Len(idle) \in Nat /\ Len(toCheck) \in Nat
        /\ 0 \in 0..SizeMax /\ idle' \in Seq(Conn)
    BY <2>1, SMT DEF TypeOK
  <2>3. Holders' = Holders /\ Creators' = Creators
    BY <2>1 DEF Holders, Creators
  <2>4. Used' <= MaxSize
    <3>1. Used' = 0 + Cardinality(Holders) + need + Len(toCheck) + dead
      BY <2>1, <2>2, <2>3 DEF Used
    <3>2. Used = Len(idle) + Cardinality(Holders) + need + Len(toCheck) + dead
      BY DEF Used
    <3>3. Cardinality(Holders) \in Nat /\ need \in Nat /\ dead \in Nat /\ Used <= MaxSize
      BY UsedFacts DEF TypeOK, Limits
    <3> QED BY <2>2, <3>1, <3>2, <3>3, SMT
  <2>5. Accounting' /\ Limits'
    BY <2>1, <2>3, <2>4 DEF Accounting, Limits
  <2>6. TypeOK'
    BY <2>1, <2>2 DEF TypeOK, ShutdownPCs
  <2>7. RequestInv' /\ MaintainInv' /\ JoinInv'
    BY <2>1 DEF RequestInv, MaintainInv, JoinInv
  <2> QED BY <2>5, <2>6, <2>7
<1> QED BY <1>1, <1>2, <1>3 DEF ShutdownStep

-----------------------------------------------------------------------------
\* A step that changes no variable keeps the invariant.
LEMMA StutterInv == PoolInv /\ UNCHANGED vars => PoolInv'
<1> SUFFICES ASSUME PoolInv, UNCHANGED vars PROVE PoolInv'
  OBVIOUS
<1>1. /\ UNCHANGED <<running, mtx, idle, total, creating, open, pc, conn, retry, mpc>>
      /\ UNCHANGED <<toClose, need, left, newConns, toCheck, dead, spc, io>>
  BY DEF vars, poolVars, reqVars, mntVars
<1>2. TypeOK'
  BY <1>1 DEF PoolInv, TypeOK
<1>3. Accounting' /\ Limits'
  BY <1>1 DEF PoolInv, Accounting, Limits, Used, Holders, Creators
<1>4. RequestInv' /\ MaintainInv' /\ JoinInv'
  BY <1>1 DEF PoolInv, RequestInv, MaintainInv, JoinInv
<1> QED BY <1>2, <1>3, <1>4 DEF PoolInv

\* The accounts of the pool are right in every reachable state, for every number of
\* concurrent calls of execute() and every configuration of sizes.
THEOREM PoolInvariant == Spec => []PoolInv
<1>1. Init => PoolInv
  BY InitInv
<1>2. PoolInv /\ [Next]_vars => PoolInv'
  BY RequestStepInv, MaintainStepInv, ShutdownStepInv, StutterInv DEF Next
<1> QED BY <1>1, <1>2, PTL DEF Spec

\* The fields and locals of the pool keep their types, also when queries outlive
\* shutdown().
THEOREM TypeCorrect == Spec => []TypeOK
<1>1. PoolInv => TypeOK
  BY DEF PoolInv
<1> QED BY <1>1, PoolInvariant, PTL

\* Until shutdown() has zeroed it, total_ is exactly the number of slots in use, and
\* creating_ is always the number of requests that are connecting.
THEOREM AccountingCorrect == Spec => []Accounting
<1>1. PoolInv => Accounting
  BY DEF PoolInv
<1> QED BY <1>1, PoolInvariant, PTL

\* The slots in use never exceed max_size, nor the requests that are connecting
\* max_creating_limit_.
THEOREM LimitsCorrect == Spec => []Limits
<1>1. PoolInv => Limits
  BY DEF PoolInv
<1> QED BY <1>1, PoolInvariant, PTL

-----------------------------------------------------------------------------
(* Who owns the handles *)

Using == {"reset", "query", "closing"}

\* The handles that requests own.
Held == {conn[r] : r \in Requests} \ {NoConn}

\* No two requests own the same handle.
Single == \A q, r \in Requests : conn[q] = conn[r] /\ conn[q] # NoConn => q = r

\* A request owns a handle only while it resets, uses or closes it.
UsersHold == \A r \in Requests : conn[r] # NoConn => pc[r] \in Using

\* The set of open handles, in disjoint parts.
Parted(i, n, c, d, h, o) ==
    /\ i \cap n = {} /\ i \cap c = {} /\ i \cap d = {} /\ i \cap h = {}
    /\ n \cap c = {} /\ n \cap d = {} /\ n \cap h = {}
    /\ c \cap d = {} /\ c \cap h = {} /\ d \cap h = {}
    /\ o = i \cup n \cup c \cup d \cup h

NoRepeats == Uniq(idle) /\ Uniq(newConns) /\ Uniq(toCheck)

\* Where every open handle is; what phase 1 leaves behind, and what a shutdown after
\* the io threads does.
OwnInv ==
    /\ NoRepeats /\ Single /\ UsersHold
    /\ Parted(Range(idle), Range(newConns), Range(toCheck), toClose, Held, open)
    /\ IsFiniteSet(toClose) /\ (mpc # "close1" => toClose = {})
    /\ spc = "down" /\ io = "joined" => idle = <<>>

\* A request takes a handle that nobody owns.
LEMMA HeldTake ==
    ASSUME TypeOK, Single, NEW r \in Requests, NEW c \in Conn, conn[r] = NoConn,
           c \notin Held, conn' = [conn EXCEPT ![r] = c]
    PROVE  Held' = Held \cup {c} /\ Single'
<1> USE NamesAssumption
<1>1. conn'[r] = c /\ \A q \in Requests \ {r} : conn'[q] = conn[q]
  BY DEF TypeOK
<1>2. Held' = Held \cup {c}
  BY <1>1 DEF Held
<1>3. Single'
  <2> SUFFICES ASSUME NEW p \in Requests, NEW q \in Requests, conn'[p] = conn'[q],
                      conn'[p] # NoConn
               PROVE  p = q
    BY DEF Single
  <2>1. \A s \in Requests \ {r} : conn'[s] # c \/ conn'[s] = NoConn
    BY <1>1 DEF Held
  <2> QED BY <1>1, <2>1 DEF Single
<1> QED BY <1>2, <1>3

\* A request gives its handle away.
LEMMA HeldDrop ==
    ASSUME TypeOK, Single, NEW r \in Requests, conn[r] # NoConn,
           conn' = [conn EXCEPT ![r] = NoConn]
    PROVE  Held' = Held \ {conn[r]} /\ conn[r] \in Held /\ Single'
<1>1. conn'[r] = NoConn /\ \A q \in Requests \ {r} : conn'[q] = conn[q]
  BY DEF TypeOK
<1>2. conn[r] \in Held
  BY DEF Held
<1>3. \A q \in Requests \ {r} : conn[q] # conn[r]
  BY DEF Single
<1>4. Held' = Held \ {conn[r]}
  BY <1>1, <1>3 DEF Held
<1>5. Single'
  BY <1>1 DEF Single
<1> QED BY <1>2, <1>4, <1>5

\* What a move of one request means for the requests that own handles.
LEMMA UsersHoldMove ==
    ASSUME UsersHold, NEW r \in Requests, NEW x, Moves(r, x),
           \A q \in Requests \ {r} : conn'[q] = conn[q],
           conn'[r] # NoConn => x \in Using
    PROVE  UsersHold'
<1> SUFFICES ASSUME NEW q \in Requests, conn'[q] # NoConn PROVE pc'[q] \in Using
  BY DEF UsersHold
<1>1. CASE q = r
  BY <1>1 DEF Moves
<1>2. CASE q # r
  BY <1>2 DEF Moves, UsersHold, Using
<1> QED BY <1>1, <1>2

\* The constructor owns the first handles.
LEMMA InitOwn == Init => OwnInv
<1> SUFFICES ASSUME Init PROVE OwnInv
  OBVIOUS
<1>1. Uniq(idle)
  BY SMT DEF Init, Uniq, IsInjective
<1>2. Held = {} /\ Single /\ UsersHold
  BY DEF Init, Held, Single, UsersHold
<1>3. Range(newConns) = {} /\ Range(toCheck) = {} /\ Uniq(newConns) /\ Uniq(toCheck)
  BY SMT DEF Init, Range, Uniq
<1> QED BY <1>1, <1>2, <1>3, FS_EmptySet DEF Init, OwnInv, NoRepeats, Parted

-----------------------------------------------------------------------------
(* Steps of a request *)

\* A step that moves no handle.
LEMMA QuietOwn ==
    ASSUME OwnInv, UNCHANGED <<idle, open, conn, newConns, toCheck, toClose>>, UsersHold',
           mpc' = mpc \/ (mpc # "close1" /\ toClose = {}),
           UNCHANGED <<spc, io>> \/ spc' # "down"
    PROVE  OwnInv'
<1>1. Held' = Held /\ Single'
  BY DEF Held, OwnInv, Single
<1>2. NoRepeats'
  BY DEF NoRepeats, OwnInv
<1>3. Parted(Range(idle), Range(newConns), Range(toCheck), toClose, Held, open)'
  BY <1>1 DEF OwnInv, Parted
<1> QED BY <1>1, <1>2, <1>3 DEF OwnInv

\* The steps of execute(), acquire() and release() that move no handle preserve the
\* ownership of all of them.
LEMMA RequestQuiet ==
    ASSUME PoolInv, OwnInv, NEW r \in Requests,
           \/ Execute(r) \/ Post(r) \/ Dispatch(r) \/ Resume(r)
           \/ AcquireStopped(r) \/ AcquireReserve(r) \/ AcquireMustWait(r) \/ AcquireWait(r)
           \/ AcquireTimeout(r) \/ ResetOk(r) \/ ReleaseNoMemory(r) \/ CreateFail(r)
    PROVE  OwnInv'
<1>1. TypeOK /\ UsersHold
  BY DEF PoolInv, OwnInv
<1>2. CASE Execute(r) \/ Post(r) \/ Dispatch(r) \/ Resume(r)
  <2>1. PICK x : x \in RequestPCs /\ pc' = [pc EXCEPT ![r] = x] /\ pc[r] \notin Using
    BY <1>2 DEF Execute, Post, Dispatch, Resume, RequestPCs, Busy, Finished, Using
  <2>2. UNCHANGED <<idle, open, conn, newConns, toCheck, toClose, mpc, spc, io>>
    BY <1>2 DEF Execute, Post, Dispatch, Resume, poolVars, reqVars, mntVars
  <2>3. UsersHold'
    BY <1>1, <2>1, <2>2 DEF UsersHold, TypeOK
  <2> QED BY <2>2, <2>3, QuietOwn
<1>3. CASE \/ AcquireStopped(r) \/ AcquireReserve(r) \/ AcquireMustWait(r)
           \/ AcquireWait(r) \/ AcquireTimeout(r)
  <2>1. PICK x : x \in RequestPCs /\ pc' = [pc EXCEPT ![r] = x] /\ pc[r] \notin Using
    BY <1>3 DEF AcquireStopped, AcquireReserve, AcquireMustWait, AcquireWait,
       AcquireTimeout, Scanning, RequestPCs, Busy, Finished, Using
  <2>2. UNCHANGED <<idle, open, conn, newConns, toCheck, toClose, mpc, spc, io>>
    BY <1>3 DEF AcquireStopped, AcquireReserve, AcquireMustWait, AcquireWait,
       AcquireTimeout, poolVars, reqVars, mntVars
  <2>3. UsersHold'
    BY <1>1, <2>1, <2>2 DEF UsersHold, TypeOK
  <2> QED BY <2>2, <2>3, QuietOwn
<1>4. CASE ResetOk(r) \/ ReleaseNoMemory(r)
  <2>1. PICK x : x \in Using /\ pc' = [pc EXCEPT ![r] = x]
    BY <1>4 DEF ResetOk, ReleaseNoMemory, Using
  <2>2. UNCHANGED <<idle, open, conn, newConns, toCheck, toClose, mpc, spc, io>>
    BY <1>4 DEF ResetOk, ReleaseNoMemory, poolVars, reqVars, mntVars
  <2>3. UsersHold'
    BY <1>1, <2>1, <2>2 DEF UsersHold, TypeOK
  <2> QED BY <2>2, <2>3, QuietOwn
<1>5. CASE CreateFail(r)
  <2> DEFINE x == IF retry[r] + 1 < MaxRetries THEN "acquire" ELSE "failed"
  <2>1. x \in RequestPCs /\ x # "waiting" /\ NotifyAll([pc EXCEPT ![r] = x])
    BY <1>5 DEF CreateFail, NextRetry, RequestPCs, Busy, Finished
  <2>2. Moves(r, x) /\ (mpc' = mpc \/ (mpc = "waiting" /\ mpc' = "top"))
    BY <1>1, <2>1, NotifyFacts
  <2>3. UNCHANGED <<idle, open, conn, newConns, toCheck, toClose, spc, io>>
    BY <1>5 DEF CreateFail, mntVars
  <2>4. conn[r] = NoConn
    BY <1>1, <1>5 DEF CreateFail, UsersHold, Using
  <2>5. UsersHold'
    BY <1>1, <2>2, <2>3, <2>4, UsersHoldMove
  <2> QED BY <2>2, <2>3, <2>5, QuietOwn DEF OwnInv
<1> QED BY <1>2, <1>3, <1>4, <1>5

\* The steps of acquire(), release() and drop_bad_connection() that move a handle
\* take it from one owner and give it to another, or close it.
LEMMA RequestMoves ==
    ASSUME PoolInv, OwnInv, NEW r \in Requests,
           \/ AcquireIdle(r) \/ ResetFail(r) \/ CreateOk(r) \/ Release(r)
           \/ CloseUnpooled(r) \/ QueryConnectionError(r)
    PROVE  OwnInv'
<1> USE NamesAssumption
<1> DEFINE A == Range(idle) B == Range(newConns) C == Range(toCheck)
<1>1. /\ TypeOK /\ Single /\ UsersHold /\ NoRepeats /\ idle \in Seq(Conn)
      /\ Parted(A, B, C, toClose, Held, open)
  BY DEF PoolInv, OwnInv, TypeOK
<1>2. /\ pc[r] \in Using => conn[r] \in Conn /\ conn[r] # NoConn
      /\ pc[r] \in Busy => io # "joined"
  BY DEF PoolInv, RequestInv, JoinInv, Using
<1>3. UNCHANGED <<newConns, toCheck, toClose, spc, io>>
  BY DEF AcquireIdle, ResetFail, CreateOk, Release, CloseUnpooled, QueryConnectionError,
     mntVars
<1>4. B' = B /\ C' = C /\ Uniq(newConns)' /\ Uniq(toCheck)' /\ IsFiniteSet(toClose)'
  BY <1>3 DEF OwnInv, NoRepeats
<1>5. CASE AcquireIdle(r)
  <2>1. conn[r] = NoConn /\ pc[r] \in Busy
    BY <1>1, <1>5 DEF AcquireIdle, Scanning, UsersHold, Using, Busy
  <2>2. idle[Len(idle)] \in A /\ Uniq(idle)' /\ A' = A \ {idle[Len(idle)]} /\ idle[Len(idle)] \in Conn
    BY <1>1, <1>5, UniqEnds, SeqEnds DEF AcquireIdle, NoRepeats
  <2>3. Held' = Held \cup {idle[Len(idle)]} /\ Single'
    BY <1>1, <1>5, <2>1, <2>2, HeldTake, ZenonT(60) DEF AcquireIdle, Parted
  <2>4. UsersHold'
    BY <1>1, <1>5 DEF AcquireIdle, UsersHold, Using, TypeOK
  <2>5. Parted(A', B', C', toClose', Held', open')
    BY <1>1, <1>3, <1>4, <1>5, <2>2, <2>3 DEF AcquireIdle, Parted
  <2> QED BY <1>2, <1>3, <1>4, <1>5, <2>1, <2>2, <2>3, <2>4, <2>5
          DEF AcquireIdle, OwnInv, NoRepeats
<1>6. CASE CreateOk(r)
  <2>1. PICK c \in Conn \ open : /\ open' = open \cup {c}
                                 /\ conn' = [conn EXCEPT ![r] = c]
    BY <1>6, ZenonT(60) DEF CreateOk
  <2>2. conn[r] = NoConn
    BY <1>1, <1>6 DEF CreateOk, UsersHold, Using
  <2>3. Held' = Held \cup {c} /\ Single'
    BY <1>1, <2>1, <2>2, HeldTake, ZenonT(60) DEF Parted
  <2>4. UsersHold'
    BY <1>1, <1>6, <2>1 DEF CreateOk, UsersHold, Using, TypeOK
  <2>5. A' = A /\ Uniq(idle)'
    BY <1>1, <1>6 DEF CreateOk, NoRepeats
  <2>6. Parted(A', B', C', toClose', Held', open')
    BY <1>1, <1>3, <1>4, <2>1, <2>3, <2>5 DEF Parted
  <2> QED BY <1>3, <1>4, <1>6, <2>3, <2>4, <2>5, <2>6 DEF CreateOk, OwnInv, NoRepeats
<1>7. CASE ResetFail(r) \/ QueryConnectionError(r) \/ CloseUnpooled(r)
  <2>1. /\ pc[r] \in Using /\ open' = open \ {conn[r]} /\ idle' = idle
        /\ conn' = [conn EXCEPT ![r] = NoConn]
    BY <1>7 DEF ResetFail, QueryConnectionError, CloseUnpooled, Drop, Using
  <2>2. PICK x \in {"acquire", "failed", "done"} :
           NotifyAll([pc EXCEPT ![r] = x]) \/ NotifyOne([pc EXCEPT ![r] = x])
    BY <1>7, ZenonT(60) DEF ResetFail, QueryConnectionError, CloseUnpooled, NextRetry
  <2>3. Moves(r, x) /\ (mpc' = mpc \/ (mpc = "waiting" /\ mpc' = "top"))
    BY <1>1, <2>2, NotifyFacts, ZenonT(60) DEF RequestPCs, Busy, Finished
  <2>4. Held' = Held \ {conn[r]} /\ conn[r] \in Held /\ Single'
    BY <1>1, <1>2, <2>1, HeldDrop, ZenonT(60)
  <2>5. UsersHold'
    BY <1>1, <2>1, <2>3, UsersHoldMove DEF TypeOK
  <2>6. Parted(A', B', C', toClose', Held', open')
    BY <1>1, <1>3, <1>4, <2>1, <2>4 DEF Parted
  <2> QED BY <1>1, <1>3, <1>4, <2>1, <2>3, <2>4, <2>5, <2>6 DEF OwnInv, NoRepeats
<1>8. CASE Release(r)
  <2>1. /\ pc[r] \in Using /\ pc[r] \in Busy /\ open' = open
        /\ idle' = Append(idle, conn[r]) /\ conn' = [conn EXCEPT ![r] = NoConn]
    BY <1>8 DEF Release, Using, Busy
  <2>2. Moves(r, "done") /\ (mpc' = mpc \/ (mpc = "waiting" /\ mpc' = "top"))
    BY <1>1, <1>8, NotifyFacts DEF Release, RequestPCs, Finished
  <2>3. Held' = Held \ {conn[r]} /\ conn[r] \in Held /\ Single'
    BY <1>1, <1>2, <2>1, HeldDrop, ZenonT(60)
  <2>4. UsersHold'
    BY <1>1, <2>1, <2>2, UsersHoldMove DEF TypeOK
  <2>5. Uniq(idle)' /\ A' = A \cup {conn[r]}
    <3>1. conn[r] \notin Range(idle) /\ conn[r] \in Conn
      BY <1>1, <1>2, <2>1, <2>3 DEF Parted
    <3>2. idle \in Seq(Conn) /\ Uniq(idle)
      BY <1>1 DEF NoRepeats
    <3> QED BY <2>1, <3>1, <3>2, UniqAppend, SMT
  <2>6. Parted(A', B', C', toClose', Held', open')
    BY <1>1, <1>3, <1>4, <2>1, <2>3, <2>5 DEF Parted
  <2> QED BY <1>2, <1>3, <1>4, <2>1, <2>2, <2>3, <2>4, <2>5, <2>6 DEF OwnInv, NoRepeats
<1> QED BY <1>5, <1>6, <1>7, <1>8

-----------------------------------------------------------------------------
(* Steps of the maintain thread and of shutdown() *)

\* Waking the waiting requests makes none of them an owner.
LEMMA UsersHoldWake ==
    ASSUME TypeOK, UsersHold, conn' = conn, pc' = pc \/ pc' = Woken(pc)
    PROVE  UsersHold'
<1> SUFFICES ASSUME NEW q \in Requests, conn'[q] # NoConn PROVE pc'[q] \in Using
  BY DEF UsersHold
<1>1. pc[q] \in Using
  BY DEF UsersHold
<1> QED BY <1>1 DEF Woken, Using

\* The steps of maintain_loop() and shutdown() that move no handle
LEMMA ThreadsQuiet ==
    ASSUME PoolInv, OwnInv,
           \/ MaintainTop \/ MaintainWait \/ MaintainTick \/ Phase2
           \/ ShutdownFlag \/ ShutdownNotify \/ JoinMaintain \/ JoinWorkers \/ JoinIo
    PROVE  OwnInv'
<1>1. /\ UNCHANGED <<idle, open, conn, newConns, toCheck, toClose>>
      /\ mpc' = mpc \/ mpc # "close1"
      /\ pc' = pc \/ pc' = Woken(pc)
      /\ UNCHANGED <<spc, io>> \/ spc' # "down"
  BY DEF MaintainTop, MaintainWait, MaintainTick, Phase2, ShutdownFlag, ShutdownNotify,
     JoinMaintain, JoinWorkers, JoinIo, NotifyAll, MaintainWoken, poolVars, reqVars, mntVars
<1>2. UsersHold'
  BY <1>1, UsersHoldWake DEF OwnInv, PoolInv
<1> QED BY <1>1, <1>2, QuietOwn DEF OwnInv

\* The steps of do_maintain() that move handles, and the end of shutdown()
LEMMA ThreadsMove ==
    ASSUME PoolInv, OwnInv,
           \/ Phase1 \/ CloseStale \/ RefillCreate \/ RefillPublish \/ Phase3
           \/ PingAlive \/ PingDead \/ PingEnd \/ CloseAll
    PROVE  OwnInv'
<1> DEFINE A == Range(idle) B == Range(newConns) C == Range(toCheck)
<1>1. /\ TypeOK /\ Single /\ UsersHold /\ NoRepeats
      /\ idle \in Seq(Conn) /\ newConns \in Seq(Conn) /\ toCheck \in Seq(Conn)
      /\ Parted(A, B, C, toClose, Held, open) /\ Len(idle) \in Nat
  BY SMT DEF PoolInv, OwnInv, TypeOK
<1>2. conn' = conn /\ (pc' = pc \/ pc' = Woken(pc))
  BY DEF Phase1, CloseStale, RefillCreate, RefillPublish, Phase3, PingAlive, PingDead,
     PingEnd, CloseAll, reqVars
<1>3. Held' = Held /\ Single' /\ UsersHold'
  BY <1>1, <1>2, UsersHoldWake DEF Held, Single
<1>4. mpc # "exited" => spc # "down"
  BY DEF PoolInv, JoinInv
<1>5. CASE Phase1
  <2>1. PICK n \in 0..Len(idle) : /\ toClose' = Range(SubSeq(idle, 1, n))
                                  /\ idle' = SubSeq(idle, n + 1, Len(idle))
    BY <1>5 DEF Phase1
  <2>2. /\ toClose = {} /\ UNCHANGED <<open, newConns, toCheck, spc, io>>
        /\ mpc' = "close1" /\ spc # "down"
    BY <1>4, <1>5 DEF Phase1, OwnInv
  <2>3. Uniq(idle)' /\ toClose' \cup A' = A /\ toClose' \cap A' = {}
    BY <1>1, <2>1, UniqSplit DEF NoRepeats
  <2>4. IsFiniteSet(toClose')
    BY <1>1, <2>1, RangeFinite, SeqEnds, ZenonT(60)
  <2>5. Parted(A', B', C', toClose', Held', open')
    BY <1>1, <1>3, <2>2, <2>3 DEF Parted
  <2> QED BY <1>1, <1>3, <2>2, <2>3, <2>4, <2>5 DEF OwnInv, NoRepeats
<1>6. CASE CloseStale
  <2>1. /\ toClose' = {} /\ open' = open \ toClose /\ UNCHANGED <<idle, newConns, toCheck, spc, io>>
    BY <1>6 DEF CloseStale
  <2>2. Parted(A', B', C', toClose', Held', open')
    BY <1>1, <1>3, <2>1 DEF Parted
  <2> QED BY <1>1, <1>3, <2>1, <2>2, FS_EmptySet DEF OwnInv, NoRepeats
<1>7. CASE RefillCreate
  <2>1. UNCHANGED <<idle, toCheck, toClose, mpc, spc, io>>
    BY <1>7 DEF RefillCreate
  <2>2. /\ Uniq(newConns)'
        /\ \/ B' = B /\ open' = open
           \/ \E c \in Conn \ open : B' = B \cup {c} /\ open' = open \cup {c}
    <3>1. CASE UNCHANGED <<open, newConns>>
      BY <1>1, <3>1 DEF NoRepeats
    <3>2. CASE \E c \in Conn \ open : /\ open' = open \cup {c}
                                      /\ newConns' = Append(newConns, c)
      <4>1. PICK c \in Conn \ open : /\ open' = open \cup {c}
                                     /\ newConns' = Append(newConns, c)
        BY <3>2
      <4>2. c \notin B
        BY <1>1 DEF Parted
      <4>3. Uniq(newConns)' /\ B' = B \cup {c}
        BY <1>1, <4>1, <4>2, UniqAppend, SMT DEF NoRepeats
      <4> QED BY <4>1, <4>3
    <3> QED BY <1>7, <3>1, <3>2 DEF RefillCreate
  <2>3. Parted(A', B', C', toClose', Held', open')
    BY <1>1, <1>3, <2>1, <2>2, SMT DEF Parted
  <2> QED BY <1>1, <1>3, <2>1, <2>2, <2>3 DEF OwnInv, NoRepeats
<1>8. CASE RefillPublish
  <2>1. /\ idle' = idle \o newConns /\ newConns' = <<>>
        /\ UNCHANGED <<open, toCheck, toClose, spc, io>> /\ toClose = {} /\ spc # "down"
    BY <1>4, <1>8 DEF RefillPublish, OwnInv
  <2>2. Uniq(idle)' /\ A' = A \cup B
    BY <1>1, <2>1, UniqCat, SMT DEF NoRepeats, Parted
  <2>3. B' = {} /\ Uniq(newConns)'
    BY <2>1, EmptyRange
  <2>4. Parted(A', B', C', toClose', Held', open')
    BY <1>1, <1>3, <2>1, <2>2, <2>3 DEF Parted
  <2> QED BY <1>1, <1>3, <2>1, <2>2, <2>3, <2>4, FS_EmptySet DEF OwnInv, NoRepeats
<1>9. CASE Phase3
  <2>1. PICK n \in 0..Len(idle) : /\ toCheck' = SubSeq(idle, 1, n)
                                  /\ idle' = SubSeq(idle, n + 1, Len(idle))
    <3>1. Min2(Len(idle), MaxCheck) \in 0..Len(idle)
      BY <1>1, SizesAssumption, SMT DEF Min2
    <3> QED BY <1>9, <3>1 DEF Phase3
  <2>2. /\ C = {} /\ UNCHANGED <<open, newConns, toClose, spc, io>> /\ toClose = {}
        /\ spc # "down"
    BY <1>4, <1>9, EmptyRange DEF Phase3, OwnInv, PoolInv, MaintainInv
  <2>3. Uniq(idle)' /\ Uniq(toCheck)' /\ C' \cup A' = A /\ C' \cap A' = {}
    BY <1>1, <2>1, UniqSplit DEF NoRepeats
  <2>4. Parted(A', B', C', toClose', Held', open')
    BY <1>1, <1>3, <2>2, <2>3 DEF Parted
  <2> QED BY <1>1, <1>3, <2>2, <2>3, <2>4, FS_EmptySet DEF OwnInv, NoRepeats
<1>10. CASE PingAlive \/ PingDead
  <2>1. /\ toCheck # <<>> /\ toCheck' = Tail(toCheck) /\ spc # "down"
        /\ UNCHANGED <<newConns, toClose, mpc, spc, io>>
    BY <1>4, <1>10 DEF PingAlive, PingDead
  <2>2. Uniq(toCheck)' /\ C' = C \ {Head(toCheck)} /\ Head(toCheck) \in C
    BY <1>1, <2>1, UniqEnds DEF NoRepeats
  <2>3. Head(toCheck) \notin A /\ Head(toCheck) \in Conn
    BY <1>1, <2>1, <2>2, SeqEnds DEF Parted
  <2>4. CASE PingAlive
    <3>1. idle' = Append(idle, Head(toCheck)) /\ open' = open
      BY <2>4 DEF PingAlive
    <3>2. Uniq(idle)' /\ A' = A \cup {Head(toCheck)}
      BY <1>1, <2>3, <3>1, UniqAppend DEF NoRepeats
    <3>3. Parted(A', B', C', toClose', Held', open')
      BY <1>1, <1>3, <2>1, <2>2, <3>1, <3>2 DEF Parted
    <3> QED BY <1>1, <1>3, <2>1, <2>2, <3>2, <3>3 DEF OwnInv, NoRepeats
  <2>5. CASE PingDead
    <3>1. idle' = idle /\ open' = open \ {Head(toCheck)}
      BY <2>5 DEF PingDead
    <3>3. Parted(A', B', C', toClose', Held', open')
      BY <1>1, <1>3, <2>1, <2>2, <3>1 DEF Parted
    <3> QED BY <1>1, <1>3, <2>1, <2>2, <3>1, <3>3 DEF OwnInv, NoRepeats
  <2> QED BY <1>10, <2>4, <2>5
<1>11. CASE PingEnd
  <2>1. /\ toCheck' = <<>> /\ open' = open \ C /\ toClose = {} /\ spc # "down"
        /\ UNCHANGED <<idle, newConns, toClose, spc, io>>
    BY <1>4, <1>11 DEF PingEnd, OwnInv
  <2>2. C' = {} /\ Uniq(toCheck)'
    BY <2>1, EmptyRange
  <2>3. Parted(A', B', C', toClose', Held', open')
    BY <1>1, <1>3, <2>1, <2>2 DEF Parted
  <2> QED BY <1>1, <1>3, <2>1, <2>2, <2>3, FS_EmptySet DEF OwnInv, NoRepeats
<1>12. CASE CloseAll
  <2>1. /\ idle' = <<>> /\ open' = open \ A /\ UNCHANGED <<newConns, toCheck, toClose, mpc>>
    BY <1>12 DEF CloseAll, mntVars
  <2>2. A' = {} /\ Uniq(idle)'
    BY <2>1, EmptyRange
  <2>3. Parted(A', B', C', toClose', Held', open')
    BY <1>1, <1>3, <2>1, <2>2 DEF Parted
  <2> QED BY <1>1, <1>3, <2>1, <2>2, <2>3 DEF OwnInv, NoRepeats
<1> QED BY <1>5, <1>6, <1>7, <1>8, <1>9, <1>10, <1>11, <1>12

-----------------------------------------------------------------------------
(* Theorems *)

\* Every step preserves the ownership of the handles.
LEMMA StepOwn == PoolInv /\ OwnInv /\ [Next]_vars => OwnInv'
<1> SUFFICES ASSUME PoolInv, OwnInv, [Next]_vars PROVE OwnInv'
  OBVIOUS
<1>1. CASE \E r \in Requests : Execute(r) \/ Post(r) \/ Dispatch(r) \/ QueryStep(r)
  BY <1>1, RequestQuiet, RequestMoves DEF QueryStep
<1>2. CASE MaintainStep \/ ShutdownStep \/ JoinIo
  BY <1>2, ThreadsQuiet, ThreadsMove DEF MaintainStep, ShutdownStep
<1>3. CASE UNCHANGED vars
  <2>1. UsersHold'
    BY <1>3 DEF OwnInv, UsersHold, vars, poolVars, reqVars, mntVars
  <2> QED BY <1>3, <2>1, QuietOwn DEF vars, poolVars, reqVars, mntVars
<1> QED BY <1>1, <1>2, <1>3 DEF Next

\* In every reachable state the open handles are divided among the idle deque, the
\* requests and the three phases of do_maintain().
THEOREM OwnInvariant == Spec => [](PoolInv /\ OwnInv)
<1>1. Init => OwnInv
  BY InitOwn
<1>2. PoolInv /\ OwnInv /\ [Next]_vars => OwnInv'
  BY StepOwn
<1> QED BY <1>1, <1>2, PoolInvariant, PTL DEF Spec

-----------------------------------------------------------------------------
(* What the division of the handles means: every handle has one owner, the *)
(* sockets are bounded, and shutdown() leaves none.                        *)

\* The places of a handle, as Owners(c) lists them.
LEMMA OwnersOf ==
    ASSUME PoolInv, OwnInv, NEW c \in Conn
    PROVE  IF c \in open THEN \E x : Owners(c) = {x} ELSE Owners(c) = {}
<1> USE NamesAssumption
<1>1. /\ NoRepeats /\ Single
      /\ Parted(Range(idle), Range(newConns), Range(toCheck), toClose, Held, open)
      /\ idle \in Seq(Conn) /\ newConns \in Seq(Conn) /\ toCheck \in Seq(Conn)
  BY DEF PoolInv, OwnInv, TypeOK
<1> DEFINE I == {i \in DOMAIN idle : idle[i] = c}
           N == {i \in DOMAIN newConns : newConns[i] = c}
           K == {i \in DOMAIN toCheck : toCheck[i] = c}
           R == {r \in Requests : conn[r] = c}
<1>2. /\ c \notin Range(idle) => I = {}
      /\ c \notin Range(newConns) => N = {}
      /\ c \notin Range(toCheck) => K = {}
      /\ c \notin Held => R = {}
  BY DEF Range, Held
<1>3. /\ c \in Range(idle) => \E i : I = {i}
      /\ c \in Range(newConns) => \E i : N = {i}
      /\ c \in Range(toCheck) => \E i : K = {i}
      /\ c \in Held => \E r : R = {r}
  <2>1. ASSUME NEW s \in Seq(Conn), Uniq(s), c \in Range(s)
        PROVE  \E i : {j \in DOMAIN s : s[j] = c} = {i}
    <3>1. PICK k \in 1..Len(s) : s[k] = c
      BY <2>1, RangeOf
    <3>2. {j \in DOMAIN s : s[j] = c} = {k}
      BY <2>1, <3>1, SMT DEF Uniq
    <3> WITNESS k
    <3> QED BY <3>2
  <2>2. c \in Held => \E r : R = {r}
    BY <1>1, ZenonT(60) DEF Held, Single
  <2> QED BY <1>1, <2>1, <2>2, ZenonT(60) DEF NoRepeats
<1>4. Owners(c) = {<<"idle", i>> : i \in I} \cup {<<"new", i>> : i \in N} \cup
                  {<<"check", i>> : i \in K} \cup {<<"close", 0>> : d \in {d \in toClose : d = c}}
                  \cup {<<"request", r>> : r \in R}
  BY DEF Owners
<1> HIDE DEF I, N, K, R
<1>5. CASE c \in Range(idle)
  <2>1. N = {} /\ K = {} /\ R = {} /\ c \notin toClose /\ c \in open
    BY <1>1, <1>2, <1>5 DEF Parted
  <2>2. PICK i : I = {i}
    BY <1>3, <1>5
  <2>3. Owners(c) = {<<"idle", i>>}
    BY <1>4, <2>1, <2>2
  <2> QED BY <2>1, <2>3, ZenonT(60)
<1>6. CASE c \in Range(newConns)
  <2>1. I = {} /\ K = {} /\ R = {} /\ c \notin toClose /\ c \in open
    BY <1>1, <1>2, <1>6 DEF Parted
  <2>2. PICK i : N = {i}
    BY <1>3, <1>6
  <2>3. Owners(c) = {<<"new", i>>}
    BY <1>4, <2>1, <2>2
  <2> QED BY <2>1, <2>3, ZenonT(60)
<1>7. CASE c \in Range(toCheck)
  <2>1. I = {} /\ N = {} /\ R = {} /\ c \notin toClose /\ c \in open
    BY <1>1, <1>2, <1>7 DEF Parted
  <2>2. PICK i : K = {i}
    BY <1>3, <1>7
  <2>3. Owners(c) = {<<"check", i>>}
    BY <1>4, <2>1, <2>2
  <2> QED BY <2>1, <2>3, ZenonT(60)
<1>8. CASE c \in toClose
  <2>1. I = {} /\ N = {} /\ K = {} /\ R = {} /\ c \in open
    BY <1>1, <1>2, <1>8 DEF Parted
  <2>2. Owners(c) = {<<"close", 0>>}
    BY <1>4, <1>8, <2>1
  <2> QED BY <2>1, <2>2, ZenonT(60)
<1>9. CASE c \in Held
  <2>1. I = {} /\ N = {} /\ K = {} /\ c \notin toClose /\ c \in open
    BY <1>1, <1>2, <1>9 DEF Parted
  <2>2. PICK r : R = {r}
    BY <1>3, <1>9
  <2>3. Owners(c) = {<<"request", r>>}
    BY <1>4, <2>1, <2>2
  <2> QED BY <2>1, <2>3, ZenonT(60)
<1>10. CASE c \notin open
  <2>1. I = {} /\ N = {} /\ K = {} /\ R = {} /\ c \notin toClose
    BY <1>1, <1>2, <1>10 DEF Parted
  <2> QED BY <1>4, <1>10, <2>1, SMT
<1> QED BY <1>1, <1>5, <1>6, <1>7, <1>8, <1>9, <1>10, ZenonT(60) DEF Parted

\* An open handle has exactly one owner and a closed one has none, for every number of
\* concurrent calls and every configuration of sizes.
THEOREM OwnershipCorrect == Spec => []Ownership
<1>1. PoolInv /\ OwnInv => Ownership
  <2> SUFFICES ASSUME PoolInv, OwnInv, NEW c \in Conn
               PROVE  Cardinality(Owners(c)) = IF c \in open THEN 1 ELSE 0
    BY DEF Ownership
  <2>1. IF c \in open THEN \E x : Owners(c) = {x} ELSE Owners(c) = {}
    BY OwnersOf, ZenonT(60)
  <2> QED BY <2>1, FS_Singleton, FS_EmptySet, ZenonT(60)
<1> QED BY <1>1, OwnInvariant, PTL

Closers == {r \in Requests : pc[r] = "closing"}

\* The requests own no more handles than there are slot holders and closers.
LEMMA HeldBound ==
    ASSUME PoolInv, OwnInv
    PROVE  /\ IsFiniteSet(Held) /\ Cardinality(Held) \in Nat
           /\ Cardinality(Holders) \in Nat /\ Cardinality(Closers) \in Nat
           /\ Cardinality(Held) <= Cardinality(Holders) + Cardinality(Closers)
<1> DEFINE U == {r \in Requests : conn[r] # NoConn}
           f == [r \in U |-> conn[r]]
<1>1. IsFiniteSet(U) /\ IsFiniteSet(Holders) /\ IsFiniteSet(Closers)
  BY RequestsAssumption, FS_Subset DEF Holders, Closers
<1>2. f \in Surjection(U, Held)
  BY DEF Surjection, Held
<1>3. IsFiniteSet(Held) /\ Cardinality(Held) <= Cardinality(U)
  BY <1>1, <1>2, FS_Surjection
<1>4. U \subseteq Holders \cup Closers
  BY DEF OwnInv, UsersHold, Using, Holders, Closers, Holds
<1>5. /\ IsFiniteSet(Holders \cup Closers) /\ Cardinality(Holders \cup Closers) \in Nat
      /\ Cardinality(Holders) \in Nat /\ Cardinality(Closers) \in Nat
      /\ Cardinality(Holders \cup Closers) <= Cardinality(Holders) + Cardinality(Closers)
  BY <1>1, UnionBound
<1>6. Cardinality(U) <= Cardinality(Holders \cup Closers)
  BY <1>4, <1>5, FS_Subset
<1>7. Cardinality(U) \in Nat /\ Cardinality(Held) \in Nat
  BY <1>1, <1>3, FS_CardinalityType
<1> HIDE DEF U, f
<1> QED BY <1>3, <1>5, <1>6, <1>7, SMT

\* The sockets at the server exceed max_size by at most the handles that are being
\* closed after their slot was given back.
THEOREM SocketBoundCorrect == Spec => []SocketBound
<1>1. ASSUME PoolInv, OwnInv PROVE SocketBound
  <2> DEFINE A == Range(idle) B == Range(newConns) C == Range(toCheck)
             a == Cardinality(A) b == Cardinality(B) c == Cardinality(C)
             d == Cardinality(toClose) h == Cardinality(Held)
             k == Cardinality(Holders) e == Cardinality(Closers)
             x == Len(idle) y == Len(newConns) z == Len(toCheck)
  <2>1. /\ idle \in Seq(Conn) /\ newConns \in Seq(Conn) /\ toCheck \in Seq(Conn)
        /\ IsFiniteSet(toClose) /\ open = A \cup B \cup C \cup toClose \cup Held
    BY <1>1 DEF PoolInv, OwnInv, TypeOK, Parted
  <2>2. /\ IsFiniteSet(A) /\ IsFiniteSet(B) /\ IsFiniteSet(C) /\ IsFiniteSet(Held)
        /\ a \in Nat /\ b \in Nat /\ c \in Nat /\ h \in Nat /\ k \in Nat /\ e \in Nat
        /\ a <= x /\ b <= y /\ c <= z /\ h <= k + e
    BY <1>1, <2>1, RangeFinite, HeldBound
  <2>3. /\ IsFiniteSet(A \cup B) /\ Cardinality(A \cup B) \in Nat
        /\ Cardinality(A \cup B) <= a + b
    BY <2>2, UnionBound, ZenonT(60)
  <2>4. /\ IsFiniteSet(A \cup B \cup C) /\ Cardinality(A \cup B \cup C) \in Nat
        /\ Cardinality(A \cup B \cup C) <= Cardinality(A \cup B) + c
    BY <2>2, <2>3, UnionBound, ZenonT(60)
  <2>5. /\ IsFiniteSet(A \cup B \cup C \cup toClose) /\ d \in Nat
        /\ Cardinality(A \cup B \cup C \cup toClose) \in Nat
        /\ Cardinality(A \cup B \cup C \cup toClose) <= Cardinality(A \cup B \cup C) + d
    BY <2>1, <2>4, UnionBound, ZenonT(60)
  <2>6. /\ Cardinality(open) \in Nat
        /\ Cardinality(open) <= Cardinality(A \cup B \cup C \cup toClose) + h
    BY <2>1, <2>2, <2>5, UnionBound, ZenonT(60)
  <2>7. Cardinality(open) <= a + b + c + d + h
    <3> DEFINE ab == Cardinality(A \cup B) abc == Cardinality(A \cup B \cup C)
               abcd == Cardinality(A \cup B \cup C \cup toClose) o == Cardinality(open)
    <3>1. /\ ab \in Nat /\ abc \in Nat /\ abcd \in Nat /\ o \in Nat
          /\ ab <= a + b /\ abc <= ab + c /\ abcd <= abc + d /\ o <= abcd + h
          /\ a \in Nat /\ b \in Nat /\ c \in Nat /\ d \in Nat /\ h \in Nat
      BY <2>2, <2>3, <2>4, <2>5, <2>6
    <3> HIDE DEF ab, abc, abcd, o, a, b, c, d, h
    <3>2. o <= a + b + c + d + h
      BY <3>1, SMT
    <3> QED BY <3>2 DEF o
  <2>8. /\ x + k + need + z + dead <= MaxSize /\ y + left <= need
        /\ x \in Nat /\ y \in Nat /\ z \in Nat /\ need \in Nat /\ left \in Nat
        /\ dead \in Nat /\ MaxSize \in Nat
    BY <1>1, <2>1, SizesAssumption, SMT DEF PoolInv, TypeOK, Limits, Used, MaintainInv
  <2>9. Cardinality(open) <= MaxSize + d + e
    <3> DEFINE o == Cardinality(open)
    <3>1. o \in Nat /\ o <= a + b + c + d + h
      BY <2>6, <2>7
    <3>2. d \in Nat
      BY <2>5
    <3> HIDE DEF o, a, b, c, d, h, k, e, x, y, z, A, B, C
    <3>3. o <= MaxSize + d + e
      BY <2>2, <2>8, <3>1, <3>2, SMT
    <3> QED BY <3>3 DEF o
  <2> QED BY <2>9 DEF SocketBound, Closers
<1> QED BY <1>1, OwnInvariant, PTL

\* When Application has joined the io threads before it calls shutdown(), every handle
\* is closed and every count is zero once that returns.
THEOREM CleanStopCorrect == Spec => []CleanStop
<1>1. ASSUME PoolInv, OwnInv PROVE CleanStop
  <2> SUFFICES ASSUME spc = "down", io = "joined"
               PROVE  open = {} /\ total = 0 /\ creating = 0
    BY DEF CleanStop
  <2>1. /\ mpc = "exited" /\ idle = <<>> /\ total = 0
        /\ \A r \in Requests : pc[r] \notin Busy
    BY <1>1 DEF PoolInv, OwnInv, JoinInv
  <2>2. newConns = <<>> /\ toCheck = <<>> /\ toClose = {}
    BY <1>1, <2>1 DEF PoolInv, OwnInv, MaintainInv
  <2>3. Creators = {}
    BY <2>1 DEF Creators, Busy
  <2>4. Held = {}
    BY <1>1, <2>1 DEF OwnInv, UsersHold, Held, Using, Busy
  <2>5. open = {}
    BY <1>1, <2>1, <2>2, <2>4, EmptyRange DEF OwnInv, Parted
  <2>6. creating = 0
    BY <1>1, <2>3, FS_EmptySet DEF PoolInv, Accounting
  <2> QED BY <2>1, <2>5, <2>6
<1> QED BY <1>1, OwnInvariant, PTL
=============================================================================
