------------------------ MODULE ConfigGatewayProofs -------------------------
(***************************************************************************)
(* What every prefix of the writes of every script makes of a store s that *)
(* has published p; the invariant of the configuration centre; and what    *)
(* the gateway processes, the history service and the nodes, make of it,   *)
(* who remember what they read of earlier stores.  All for any number of   *)
(* processes, versions and faults.                                         *)
(***************************************************************************)
EXTENDS ConfigCenter, TLAPS

USE ZenonT(30)

-----------------------------------------------------------------------------
(* The invariant of a store *)

\* A snapshot may have been deleted by mistake.
Lossy == "snapshot" \in Faults /\ faults > 0

\* The files f are those of version v, which exists.
Known(v, f, s, p) == v \in 1 .. s.version /\ f = p[v]

\* What the history has of an existing version is what was published.
Truthful(s, p) ==
    \A v \in 1 .. s.version :
        /\ s.snap[v] \in {NoFiles, p[v]}
        /\ s.meta[v] = NoMeta \/ s.meta[v].hash = p[v]
        /\ v \in s.index => p[v] # NoFiles

\* Nothing is known of the versions to come, but for what a script that
\* stopped left of the next one.
Fresh(s, p) ==
    \A v \in s.version + 1 .. MaxVersion :
        p[v] = NoFiles /\ (v > s.version + 1 => ~Occupied(s, v))

\* A version that is in the history for good.
Kept(s, v, lossy) ==
    v \in s.index /\ s.meta[v] # NoMeta /\ (s.snap[v] # NoFiles \/ lossy)

\* The current version is in the history, or the mirror is all there is of it.
Settled(s, p, lossy) ==
    s.version > 0 =>
        \/ Kept(s, s.version, lossy)
        \/ s.mirror = p[s.version] /\ \A v \in Version : v > s.version => ~Occupied(s, v)

Above(p, v) == {w \in Version : w > v /\ p[w] # NoFiles}

Retained(s, p, lossy) ==
    \A v \in 1 .. s.version - 1 :
        p[v] # NoFiles /\ Cardinality(Above(p, v)) < Retain => Kept(s, v, lossy)

StoreInv(s, p, lossy) ==
    /\ s \in Stores /\ p \in [Version -> Authored]
    /\ Truthful(s, p) /\ Fresh(s, p) /\ Settled(s, p, lossy) /\ Retained(s, p, lossy)

-----------------------------------------------------------------------------
(* What a write may do *)

CanLose == "snapshot" \in Faults

SameAt(s, t, v) ==
    /\ t.snap[v] = s.snap[v] /\ t.meta[v] = s.meta[v]
    /\ v \in t.index <=> v \in s.index

\* Only what the store has of version v changes.
OnlyAt(s, t, v) == \A w \in Version : w # v => SameAt(s, t, w)

After(s, p, t) ==
    IF t.version = s.version THEN p ELSE [p EXCEPT ![t.version] = t.mirror]

\* Published versions stay what they are.
Later(s, p, t, q) == s.version <= t.version /\ \A v \in 1 .. s.version : q[v] = p[v]

\* The readable versions that s and t share are the same in both.
SameFiles(s, t) == \A v \in Listed(s) \cap Listed(t) : t.snap[v] = s.snap[v]

Silent(s, p, t, q) == t.version = s.version /\ q = p /\ Listed(t) = Listed(s)

Published(s, p, t, q) ==
    /\ t.version = s.version + 1 /\ t.version \in Version
    /\ q = [p EXCEPT ![t.version] = t.mirror] /\ t.mirror # NoFiles
    /\ Listed(t) = Listed(s) \cup {t.version} /\ t.version \notin Listed(s)
    /\ t.snap[t.version] = t.mirror
    /\ s.version \in Listed(s) \cup {0} \/ CanLose

PublishedNothing(s, p, t, q) ==
    s.version = 0 /\ t.version = 1 /\ q = p /\ Listed(t) = Listed(s)

Archived(s, p, t, q) ==
    /\ t.version = s.version /\ q = p
    /\ s.version \in Version \ Listed(s) /\ p[s.version] # NoFiles
    /\ Listed(t) = Listed(s) \cup {s.version} /\ t.snap[s.version] = p[s.version]

Forgotten(s, p, t, q) ==
    /\ t.version = s.version /\ q = p
    /\ \E v \in Listed(s) : /\ v < s.version \/ (CanLose /\ v = s.version)
                            /\ Listed(t) = Listed(s) \ {v}

Moves(s, p, t, q) ==
    /\ SameFiles(s, t)
    /\ \/ Silent(s, p, t, q) \/ Published(s, p, t, q) \/ PublishedNothing(s, p, t, q)
       \/ Archived(s, p, t, q) \/ Forgotten(s, p, t, q)

\* The store t with what was published q may follow the store s with p.
Good(s, p, t, q, lossy) ==
    StoreInv(t, q, lossy) /\ Later(s, p, t, q) /\ Moves(s, p, t, q)

\* Sets of versions have sizes, and a larger set has no smaller one.  ConfigProofs,
\* where the theorems on finite sets are at hand, shows that this is so.
VersionSets ==
    \A A, B \in SUBSET Version :
        Cardinality(A) \in Nat /\ (A \subseteq B => Cardinality(A) <= Cardinality(B))

\* The premise of every lemma about stores
Sane(s, p, lossy) == StoreInv(s, p, lossy) /\ (lossy => CanLose) /\ VersionSets


-----------------------------------------------------------------------------
(* Stores and single writes *)

LEMMA StoreFields ==
    ASSUME NEW s \in Stores
    PROVE  /\ s.version \in 0 .. MaxVersion /\ s.version \in Nat /\ s.mirror \in Authored
           /\ s.snap \in [Version -> Authored] /\ s.meta \in [Version -> Metas]
           /\ s.index \in SUBSET Version /\ s.machines \in [Machines -> 0 .. MaxVersion]
  BY StoreAssumption, SMT DEF Stores

LEMMA Versions ==
    /\ MaxVersion \in Nat /\ \A v \in Version : v \in Nat /\ v > 0 /\ v <= MaxVersion
    /\ \A v \in Nat : v > 0 /\ v <= MaxVersion => v \in Version
  BY StoreAssumption, SMT DEF Version

\* The order of versions
LEMMA Numbers ==
    /\ \A n \in Nat : 0 <= n /\ (n # 0 => n > 0)
    /\ \A a \in 0 .. MaxVersion : \A n \in Nat : a <= n => a \in 0 .. n /\ (a > 0 => n # 0)
    /\ \A v \in Version : \A c \in 0 .. MaxVersion : v < c => v \in 1 .. c - 1
    /\ \A n \in Nat : \A v \in 1 .. n - 1 : v \in 1 .. n
    /\ \A v \in Version : v \in 1 .. v
    /\ 0 \in 0 .. MaxClock /\ 0 \in Nat /\ ~(0 > 0)
<1>1. MaxVersion \in Nat /\ MaxClock \in Nat
  BY StoreAssumption, SMT
<1> QED BY <1>1, SMT DEF Version

\* Versions up to the newest one, and what stays below it when it grows
LEMMA Bounds ==
    /\ \A m \in 0 .. MaxVersion : \A v \in 1 .. m : v \in 0 .. MaxVersion /\ v > 0
    /\ \A m \in 0 .. MaxVersion : \A v \in 0 .. m : v \in 0 .. MaxVersion /\ v <= m
    /\ \A v \in 0 .. MaxVersion : v < MaxVersion => v \in 0 .. MaxVersion - 1
    /\ \A v \in Version, m \in Nat, n \in Nat : v <= m /\ m <= n => v \in 1 .. m /\ v <= n
  BY StoreAssumption, SMT DEF Version

\* What a store lists, by version
LEMMA ListedAre ==
    ASSUME NEW s \in Stores, NEW v
    PROVE  v \in Listed(s) <=> v \in Version /\ v <= s.version /\ Complete(s, v)
  BY StoreFields DEF Listed, Complete

\* A version that did not change is listed as before, while the version key
\* stands still.
LEMMA SameListed ==
    ASSUME NEW s \in Stores, NEW t \in Stores, NEW v \in Version, SameAt(s, t, v)
    PROVE  /\ Complete(t, v) <=> Complete(s, v)
           /\ Occupied(t, v) <=> Occupied(s, v)
           /\ t.version = s.version => (v \in Listed(t) <=> v \in Listed(s))
<1>1. Complete(t, v) <=> Complete(s, v)
  BY DEF SameAt, Complete
<1>2. Occupied(t, v) <=> Occupied(s, v)
  BY DEF SameAt, Occupied
<1> QED BY <1>1, <1>2, ListedAre

LEMMA SameKept ==
    ASSUME NEW s, NEW t, NEW v, NEW l, SameAt(s, t, v), Kept(s, v, l)
    PROVE  Kept(t, v, l)
  BY DEF SameAt, Kept

\* More may be lost later.
LEMMA LossyLater ==
    ASSUME NEW s, NEW p, NEW l \in BOOLEAN, NEW m \in BOOLEAN, l => m,
           StoreInv(s, p, l)
    PROVE  StoreInv(s, p, m)
  BY DEF StoreInv, Settled, Retained, Kept

\* A write that changes only what the store has of the current version, its
\* mirror or the heartbeats.
LEMMA CurrentWrite ==
    ASSUME NEW s, NEW p, NEW l \in BOOLEAN, Sane(s, p, l),
           NEW m \in BOOLEAN, l => m,
           NEW t \in Stores, t.version = s.version, OnlyAt(s, t, s.version),
           s.version > 0 =>
               /\ t.snap[s.version] \in {NoFiles, p[s.version]}
               /\ t.meta[s.version] = NoMeta \/ t.meta[s.version].hash = p[s.version]
               /\ s.version \in t.index => p[s.version] # NoFiles,
           Settled(t, p, m),
           s.version > 0 /\ Complete(s, s.version) /\ ~Complete(t, s.version) => CanLose
    PROVE  Good(s, p, t, p, m)
<1> DEFINE V == s.version
<1>0. /\ s \in Stores /\ V \in Nat /\ V <= MaxVersion /\ t.version = V
      /\ p \in [Version -> Authored] /\ StoreInv(s, p, m)
  BY StoreFields, LossyLater, SMT DEF Sane, StoreInv
<1>1. \A v \in Version : v # V => SameAt(s, t, v)
  BY DEF OnlyAt
<1>2. Truthful(t, p)
  <2> SUFFICES ASSUME NEW v \in 1 .. V
               PROVE  /\ t.snap[v] \in {NoFiles, p[v]}
                      /\ t.meta[v] = NoMeta \/ t.meta[v].hash = p[v]
                      /\ v \in t.index => p[v] # NoFiles
    BY <1>0 DEF Truthful
  <2>1. v \in Version /\ V > 0
    BY <1>0, Versions, SMT
  <2>2. CASE v = V
    BY <2>1, <2>2
  <2>3. CASE v # V
    BY <1>0, <1>1, <2>1, <2>3 DEF StoreInv, Truthful, SameAt
  <2> QED BY <2>2, <2>3
<1>3. Fresh(t, p)
  <2> SUFFICES ASSUME NEW v \in V + 1 .. MaxVersion
               PROVE  p[v] = NoFiles /\ (v > V + 1 => ~Occupied(t, v))
    BY <1>0 DEF Fresh
  <2>1. v \in Version /\ v # V
    BY <1>0, Versions, SMT
  <2> QED BY <1>0, <1>1, <2>1, SameListed DEF StoreInv, Fresh
<1>4. Retained(t, p, m)
  <2> SUFFICES ASSUME NEW v \in 1 .. V - 1, p[v] # NoFiles,
                      Cardinality(Above(p, v)) < Retain
               PROVE  Kept(t, v, m)
    BY <1>0 DEF Retained
  <2>1. v \in Version /\ v # V
    BY <1>0, Versions, SMT
  <2> QED BY <1>0, <1>1, <2>1, SameKept DEF StoreInv, Retained
<1>5. Later(s, p, t, p)
  BY <1>0, SMT DEF Later
<1>6. SameFiles(s, t)
  <2> SUFFICES ASSUME NEW v \in Listed(s) \cap Listed(t) PROVE t.snap[v] = s.snap[v]
    BY DEF SameFiles
  <2>1. v \in Version /\ v <= V /\ s.snap[v] # NoFiles /\ t.snap[v] # NoFiles
    BY <1>0, ListedAre DEF Complete
  <2>2. v \in 1 .. V
    BY <1>0, <2>1, Versions, SMT
  <2> QED BY <1>0, <1>2, <2>1, <2>2 DEF StoreInv, Truthful
<1>7. \A v \in Version : v # V => (v \in Listed(t) <=> v \in Listed(s))
  BY <1>0, <1>1, SameListed
<1>8. Listed(s) \subseteq Version /\ Listed(t) \subseteq Version
  BY <1>0, ListedAre
<1>9. CASE V \in Listed(s) <=> V \in Listed(t)
  <2>1. Listed(t) = Listed(s)
    BY <1>7, <1>8, <1>9, SMT
  <2> QED BY <1>0, <1>2, <1>3, <1>4, <1>5, <1>6, <2>1 DEF Good, StoreInv, Moves, Silent
<1>10. CASE V \in Listed(t) /\ V \notin Listed(s)
  <2>1. Listed(t) = Listed(s) \cup {V}
    BY <1>7, <1>8, <1>10
  <2>2. V \in Version /\ V \in t.index /\ t.snap[V] # NoFiles
    BY <1>0, <1>10, ListedAre DEF Complete
  <2>3. V > 0
    BY <2>2, Versions
  <2>4. t.snap[V] = p[V] /\ p[V] # NoFiles
    BY <2>2, <2>3
  <2>5. Archived(s, p, t, p)
    BY <1>0, <1>10, <2>1, <2>2, <2>4 DEF Archived
  <2> QED BY <1>0, <1>2, <1>3, <1>4, <1>5, <1>6, <2>5 DEF Good, StoreInv, Moves
<1>11. CASE V \in Listed(s) /\ V \notin Listed(t)
  <2>1. Listed(t) = Listed(s) \ {V}
    BY <1>7, <1>8, <1>11
  <2>2. V \in Version /\ V <= t.version /\ Complete(s, V) /\ ~Complete(t, V)
    BY <1>0, <1>11, ListedAre, SMT
  <2>3. CanLose
    BY <2>2, Versions
  <2>4. Forgotten(s, p, t, p)
    BY <1>0, <1>11, <2>1, <2>3 DEF Forgotten
  <2> QED BY <1>0, <1>2, <1>3, <1>4, <1>5, <1>6, <2>4 DEF Good, StoreInv, Moves
<1> QED BY <1>9, <1>10, <1>11

\* A write to the version after the current one, which is not published by it.
LEMMA NextWrite ==
    ASSUME NEW s, NEW p, NEW l \in BOOLEAN, Sane(s, p, l),
           NEW t \in Stores, t.version = s.version, OnlyAt(s, t, s.version + 1),
           \/ s.version = 0 \/ Kept(s, s.version, l)
           \/ /\ t.mirror = s.mirror
              /\ Occupied(t, s.version + 1) => Occupied(s, s.version + 1)
    PROVE  Good(s, p, t, p, l)
<1> DEFINE V == s.version
<1>0. /\ s \in Stores /\ V \in Nat /\ V <= MaxVersion /\ t.version = V
      /\ p \in [Version -> Authored] /\ StoreInv(s, p, l)
  BY StoreFields, SMT DEF Sane, StoreInv
<1>1. \A v \in Version : v # V + 1 => SameAt(s, t, v)
  BY DEF OnlyAt
<1>2. \A v \in 1 .. V : v \in Version /\ SameAt(s, t, v)
  BY <1>0, <1>1, Versions, SMT
<1>3. Truthful(t, p)
  BY <1>0, <1>2 DEF StoreInv, Truthful, SameAt
<1>4. Fresh(t, p)
  <2> SUFFICES ASSUME NEW v \in V + 1 .. MaxVersion
               PROVE  p[v] = NoFiles /\ (v > V + 1 => ~Occupied(t, v))
    BY <1>0 DEF Fresh
  <2>1. v \in Version /\ (v > V + 1 => v # V + 1)
    BY <1>0, Versions, SMT
  <2> QED BY <1>0, <1>1, <2>1, SameListed DEF StoreInv, Fresh
<1>5. Retained(t, p, l)
  <2> SUFFICES ASSUME NEW v \in 1 .. V - 1, p[v] # NoFiles,
                      Cardinality(Above(p, v)) < Retain
               PROVE  Kept(t, v, l)
    BY <1>0 DEF Retained
  <2>1. v \in 1 .. V
    BY <1>0, SMT
  <2> QED BY <1>0, <1>2, <2>1, SameKept DEF StoreInv, Retained
<1>6. Settled(t, p, l)
  <2> SUFFICES ASSUME V > 0
               PROVE  \/ Kept(t, V, l)
                      \/ t.mirror = p[V] /\ \A v \in Version : v > V => ~Occupied(t, v)
    BY <1>0 DEF Settled
  <2>1. V \in 1 .. V /\ V # 0
    BY <1>0, SMT
  <2>2. CASE Kept(s, V, l)
    <3>1. V \in Version /\ SameAt(s, t, V)
      BY <1>2, <2>1
    <3> QED BY <2>2, <3>1, SameKept
  <2>3. CASE /\ ~Kept(s, V, l) /\ t.mirror = s.mirror
             /\ Occupied(t, V + 1) => Occupied(s, V + 1)
    <3>1. s.mirror = p[V] /\ \A v \in Version : v > V => ~Occupied(s, v)
      BY <1>0, <2>3 DEF StoreInv, Settled
    <3>2. ASSUME NEW v \in Version, v > V PROVE ~Occupied(t, v)
      <4>1. CASE v = V + 1
        BY <2>3, <3>1, <3>2, <4>1
      <4>2. CASE v # V + 1
        BY <1>0, <1>1, <3>1, <3>2, <4>2, SameListed
      <4> QED BY <4>1, <4>2
    <3> QED BY <2>3, <3>1, <3>2
  <2> QED BY <2>1, <2>2, <2>3
<1>7. ASSUME NEW v PROVE v \in Listed(t) <=> v \in Listed(s)
  <2>1. v \in Version /\ v <= V => v \in 1 .. V
    BY <1>0, Versions, SMT
  <2> QED BY <1>0, <1>2, <2>1, ListedAre, SameListed
<1>8. Listed(t) = Listed(s)
  BY <1>7
<1>9. SameFiles(s, t)
  <2> SUFFICES ASSUME NEW v \in Listed(s) PROVE t.snap[v] = s.snap[v]
    BY DEF SameFiles
  <2>1. v \in 1 .. V
    BY <1>0, ListedAre, Versions, SMT
  <2> QED BY <1>2, <2>1 DEF SameAt
<1>10. Later(s, p, t, p)
  BY <1>0, SMT DEF Later
<1> QED BY <1>0, <1>3, <1>4, <1>5, <1>6, <1>8, <1>9, <1>10
        DEF Good, StoreInv, Moves, Silent

\* A larger set of published versions has at least as many newer ones.
LEMMA AboveGrows ==
    ASSUME VersionSets, NEW p, NEW q, NEW v,
           \A w \in Version : p[w] # NoFiles => q[w] # NoFiles
    PROVE  /\ Cardinality(Above(p, v)) \in Nat /\ Cardinality(Above(q, v)) \in Nat
           /\ Cardinality(Above(p, v)) <= Cardinality(Above(q, v))
<1>1. /\ Above(p, v) \in SUBSET Version /\ Above(q, v) \in SUBSET Version
      /\ Above(p, v) \subseteq Above(q, v)
  BY DEF Above
<1> QED BY <1>1 DEF VersionSets

\* The version key moves to the next version, which is complete by then.
LEMMA VersionWrite ==
    ASSUME NEW s, NEW p, NEW l \in BOOLEAN, Sane(s, p, l),
           NEW t \in Stores, t.version = s.version + 1, OnlyAt(s, t, t.version),
           s.version = 0 \/ Kept(s, s.version, l),
           Complete(t, t.version), t.snap[t.version] = t.mirror,
           t.meta[t.version].hash = t.mirror
    PROVE  Good(s, p, t, After(s, p, t), l)
<1> DEFINE V == s.version
           N == t.version
           q == [p EXCEPT ![N] = t.mirror]
<1>0. /\ s \in Stores /\ V \in Nat /\ N = V + 1 /\ N \in Version /\ N \in Nat
      /\ p \in [Version -> Authored] /\ StoreInv(s, p, l) /\ N # V /\ N > 0
  BY StoreFields, Versions, SMT DEF Sane, StoreInv
<1>1. After(s, p, t) = q
  BY <1>0 DEF After
<1>2. /\ t.mirror # NoFiles /\ t.mirror \in Authored /\ N \in t.index
      /\ q \in [Version -> Authored] /\ q[N] = t.mirror
      /\ \A v \in Version : v # N => q[v] = p[v] /\ SameAt(s, t, v)
  <2>1. t.mirror # NoFiles /\ t.mirror \in Authored /\ N \in t.index
    BY StoreFields DEF Complete
  <2> QED BY <1>0, <2>1 DEF OnlyAt
<1>3. \A v \in 1 .. V : v \in Version /\ v # N
  BY <1>0, Versions, SMT
<1>4. Truthful(t, q)
  <2> SUFFICES ASSUME NEW v \in 1 .. N
               PROVE  /\ t.snap[v] \in {NoFiles, q[v]}
                      /\ t.meta[v] = NoMeta \/ t.meta[v].hash = q[v]
                      /\ v \in t.index => q[v] # NoFiles
    BY DEF Truthful
  <2>1. CASE v = N
    BY <1>2, <2>1
  <2>2. CASE v # N
    <3>1. v \in 1 .. V
      BY <1>0, <2>2, SMT
    <3> QED BY <1>0, <1>2, <1>3, <3>1 DEF StoreInv, Truthful, SameAt
  <2> QED BY <2>1, <2>2
<1>5. Fresh(t, q)
  <2> SUFFICES ASSUME NEW v \in N + 1 .. MaxVersion
               PROVE  q[v] = NoFiles /\ (v > N + 1 => ~Occupied(t, v))
    BY DEF Fresh
  <2>1. v \in Version /\ v # N /\ v \in V + 1 .. MaxVersion /\ v > V + 1
    BY <1>0, Versions, SMT
  <2> QED BY <1>0, <1>2, <2>1, SameListed DEF StoreInv, Fresh
<1>6. Kept(t, N, l)
  <2>1. t.meta[N] # NoMeta
    BY DEF Complete
  <2> QED BY <1>2, <2>1 DEF Kept
<1>7. Retained(t, q, l)
  <2> SUFFICES ASSUME NEW v \in 1 .. N - 1, q[v] # NoFiles,
                      Cardinality(Above(q, v)) < Retain
               PROVE  Kept(t, v, l)
    BY DEF Retained
  <2>1. v \in 1 .. V /\ (v = V \/ v \in 1 .. V - 1)
    BY <1>0, SMT
  <2>2. v \in Version /\ v # N /\ SameAt(s, t, v) /\ q[v] = p[v]
    BY <1>2, <1>3, <2>1
  <2>3. Kept(s, v, l)
    <3>1. CASE v = V
      <4>1. V # 0
        BY <2>2, <3>1, Versions, SMT
      <4> QED BY <3>1, <4>1
    <3>2. CASE v \in 1 .. V - 1
      <4>1. \A w \in Version : p[w] # NoFiles => q[w] # NoFiles
        BY <1>2
      <4>2. Cardinality(Above(p, v)) < Retain
        <5>1. /\ Cardinality(Above(p, v)) \in Nat /\ Cardinality(Above(q, v)) \in Nat
              /\ Cardinality(Above(p, v)) <= Cardinality(Above(q, v))
          BY <1>0, <1>2, <4>1, AboveGrows DEF Sane
        <5> HIDE DEF q
        <5> QED BY <5>1, StoreAssumption, SMT
      <4> QED BY <1>0, <2>2, <3>2, <4>2 DEF StoreInv, Retained
    <3> QED BY <2>1, <3>1, <3>2
  <2> QED BY <2>2, <2>3, SameKept
<1>8. Later(s, p, t, q)
  <2>1. V <= N
    BY <1>0, SMT
  <2> QED BY <1>2, <1>3, <2>1 DEF Later
<1>9. ASSUME NEW v, v # N PROVE v \in Listed(t) <=> v \in Listed(s)
  <2>1. v \in Version => (v <= N <=> v <= V)
    BY <1>0, <1>9, Versions, SMT
  <2> QED BY <1>0, <1>2, <1>9, <2>1, ListedAre, SameListed
<1>10. N \in Listed(t) /\ N \notin Listed(s)
  <2>1. N <= N /\ ~(N <= V)
    BY <1>0, SMT
  <2> QED BY <1>0, <2>1, ListedAre
<1>11. Listed(t) = Listed(s) \cup {N}
  BY <1>9, <1>10
<1>12. SameFiles(s, t)
  <2> SUFFICES ASSUME NEW v \in Listed(s) PROVE t.snap[v] = s.snap[v]
    BY DEF SameFiles
  <2>1. v \in Version /\ v # N
    BY <1>0, <1>10, ListedAre
  <2> QED BY <1>2, <2>1 DEF SameAt
<1>13. V \in Listed(s) \cup {0} \/ CanLose
  <2>1. CASE V # 0 /\ Kept(s, V, l) /\ ~l
    <3>1. V \in Version /\ V <= V
      BY <1>0, <2>1, StoreFields, Versions, SMT
    <3> QED BY <1>0, <2>1, <3>1, ListedAre DEF Kept, Complete
  <2> QED BY <2>1 DEF Sane
<1>14. Published(s, p, t, q)
  BY <1>0, <1>2, <1>10, <1>11, <1>13 DEF Published
<1>15. Settled(t, q, l)
  BY <1>6 DEF Settled
<1>16. StoreInv(t, q, l)
  BY <1>2, <1>4, <1>5, <1>7, <1>15 DEF StoreInv
<1> QED BY <1>1, <1>8, <1>12, <1>14, <1>16 DEF Good, Moves

\* An old version that is not among the newest is erased.
LEMMA OldWrite ==
    ASSUME NEW s, NEW p, NEW l \in BOOLEAN, Sane(s, p, l), NEW c \in Version,
           c < s.version, ~(Cardinality(Above(p, c)) < Retain),
           NEW t \in Stores, t.version = s.version, OnlyAt(s, t, c),
           t.mirror = s.mirror, t.snap[c] = NoFiles,
           t.meta[c] \in {NoMeta, s.meta[c]}, c \in t.index => c \in s.index
    PROVE  Good(s, p, t, p, l)
<1> DEFINE V == s.version
<1>0. /\ s \in Stores /\ V \in Nat /\ V <= MaxVersion /\ t.version = V /\ c \in 1 .. V
      /\ p \in [Version -> Authored] /\ StoreInv(s, p, l) /\ V \in Version /\ V # c
  BY StoreFields, Versions, SMT DEF Sane, StoreInv
<1>1. \A v \in Version : v # c => SameAt(s, t, v)
  BY DEF OnlyAt
<1>2. \A v \in 1 .. V : v \in Version
  BY <1>0, Versions, SMT
<1>3. Truthful(t, p)
  <2> SUFFICES ASSUME NEW v \in 1 .. V
               PROVE  /\ t.snap[v] \in {NoFiles, p[v]}
                      /\ t.meta[v] = NoMeta \/ t.meta[v].hash = p[v]
                      /\ v \in t.index => p[v] # NoFiles
    BY <1>0 DEF Truthful
  <2>1. CASE v = c
    BY <1>0, <2>1 DEF StoreInv, Truthful
  <2>2. CASE v # c
    BY <1>0, <1>1, <1>2, <2>2 DEF StoreInv, Truthful, SameAt
  <2> QED BY <2>1, <2>2
<1>4. \A v \in Version : v > V => v # c
  BY <1>0, Versions, SMT
<1>5. Fresh(t, p)
  <2> SUFFICES ASSUME NEW v \in V + 1 .. MaxVersion
               PROVE  p[v] = NoFiles /\ (v > V + 1 => ~Occupied(t, v))
    BY <1>0 DEF Fresh
  <2>1. v \in Version /\ v # c
    BY <1>0, Versions, SMT
  <2> QED BY <1>0, <1>1, <2>1, SameListed DEF StoreInv, Fresh
<1>6. Settled(t, p, l)
  <2>1. CASE Kept(s, V, l)
    BY <1>0, <1>1, <2>1, SameKept DEF Settled
  <2>2. CASE ~Kept(s, V, l)
    <3>1. V > 0 => t.mirror = p[V] /\ \A v \in Version : v > V => ~Occupied(s, v)
      BY <1>0, <2>2 DEF StoreInv, Settled
    <3>2. V > 0 => \A v \in Version : v > V => ~Occupied(t, v)
      BY <1>0, <1>1, <1>4, <3>1, SameListed
    <3> QED BY <1>0, <3>1, <3>2 DEF Settled
  <2> QED BY <2>1, <2>2
<1>7. Retained(t, p, l)
  <2> SUFFICES ASSUME NEW v \in 1 .. V - 1, p[v] # NoFiles,
                      Cardinality(Above(p, v)) < Retain
               PROVE  Kept(t, v, l)
    BY <1>0 DEF Retained
  <2>1. v \in Version /\ v # c
    BY <1>0, Versions, SMT
  <2> QED BY <1>0, <1>1, <2>1, SameKept DEF StoreInv, Retained
<1>8. Later(s, p, t, p)
  BY <1>0, SMT DEF Later
<1>9. ASSUME NEW v PROVE v \in Listed(t) <=> v \in Listed(s) /\ v # c
  <2>1. c \notin Listed(t)
    BY ListedAre DEF Complete
  <2>2. v # c => (v \in Listed(t) <=> v \in Listed(s))
    BY <1>0, <1>1, ListedAre, SameListed
  <2> QED BY <2>1, <2>2
<1>10. Listed(t) = Listed(s) \ {c}
  BY <1>9
<1>11. SameFiles(s, t)
  <2> SUFFICES ASSUME NEW v \in Listed(s) \cap Listed(t) PROVE t.snap[v] = s.snap[v]
    BY DEF SameFiles
  <2>1. v \in Version /\ v # c
    BY <1>0, <1>9, ListedAre
  <2> QED BY <1>1, <2>1 DEF SameAt
<1>12. CASE c \in Listed(s)
  <2>1. Forgotten(s, p, t, p)
    BY <1>0, <1>10, <1>12 DEF Forgotten
  <2> QED BY <1>0, <1>3, <1>5, <1>6, <1>7, <1>8, <1>11, <2>1 DEF Good, StoreInv, Moves
<1>13. CASE c \notin Listed(s)
  <2>1. Listed(t) = Listed(s)
    BY <1>10, <1>13
  <2> QED BY <1>0, <1>3, <1>5, <1>6, <1>7, <1>8, <1>11, <2>1
          DEF Good, StoreInv, Moves, Silent
<1> QED BY <1>12, <1>13

\* An installation without files becomes version 1 without history.
LEMMA EmptyWrite ==
    ASSUME NEW s, NEW p, NEW l \in BOOLEAN, Sane(s, p, l), s.version = 0,
           \A v \in Version : ~Occupied(s, v),
           NEW t \in Stores, \A v \in Version : SameAt(s, t, v),
           t.mirror = NoFiles, t.version \in {0, 1}
    PROVE  Good(s, p, t, After(s, p, t), l)
<1>0. s \in Stores /\ p \in [Version -> Authored] /\ StoreInv(s, p, l)
  BY DEF Sane, StoreInv
<1>1. \A v \in Version : ~Occupied(t, v)
  BY <1>0, SameListed
<1>2. \A v \in Version : p[v] = NoFiles
  <2>1. \A v \in Version : v \in s.version + 1 .. MaxVersion
    BY Versions, SMT
  <2> QED BY <1>0, <2>1 DEF StoreInv, Fresh
<1>3. After(s, p, t) = p
  <2>1. CASE t.version = 0
    BY <2>1 DEF After
  <2>2. CASE t.version = 1
    <3>1. 1 \in Version /\ 1 # 0
      BY Versions, StoreAssumption, SMT
    <3>2. [p EXCEPT ![1] = NoFiles] = p
      BY <1>0, <1>2, <3>1
    <3> QED BY <2>2, <3>1, <3>2 DEF After
  <2> QED BY <2>1, <2>2
<1>4. \A v \in 1 .. t.version : v \in Version
  BY Versions, StoreAssumption, SMT
<1>5. Truthful(t, p)
  BY <1>1, <1>4 DEF Truthful, Occupied
<1>6. Fresh(t, p)
  <2>1. \A v \in t.version + 1 .. MaxVersion : v \in Version
    BY Versions, StoreAssumption, SMT
  <2> QED BY <1>1, <1>2, <2>1 DEF Fresh
<1>7. Settled(t, p, l)
  <2>1. t.version > 0 => t.version \in 1 .. t.version
    BY SMT
  <2> QED BY <1>1, <1>2, <1>4, <2>1 DEF Settled
<1>8. Retained(t, p, l)
  <2>1. \A v \in 1 .. t.version - 1 : v \in Version
    BY Versions, StoreAssumption, SMT
  <2> QED BY <1>2, <2>1 DEF Retained
<1>9. Later(s, p, t, p)
  BY SMT DEF Later
<1>10. Listed(t) = {} /\ Listed(s) = {}
  BY <1>0, <1>1, ListedAre DEF Complete, Occupied
<1>11. Moves(s, p, t, p)
  BY <1>10 DEF Moves, SameFiles, Silent, PublishedNothing
<1> QED BY <1>0, <1>3, <1>5, <1>6, <1>7, <1>8, <1>9, <1>11 DEF Good, StoreInv

-----------------------------------------------------------------------------
(* Scripts *)

\* The store t after k writes of the publication of f as version v
PublishStage(s, t, v, f, m, k) ==
    /\ t \in Stores /\ OnlyAt(s, t, v) /\ t.snap[v] = f
    /\ k = 1 => t.meta[v] = s.meta[v]
    /\ k > 1 => t.meta[v] = m
    /\ k < 3 => t.index = s.index
    /\ k > 2 => t.index = s.index \cup {v}
    /\ k < 4 => t.mirror = s.mirror
    /\ k > 3 => t.mirror = f
    /\ k < 5 => t.version = s.version
    /\ k = 5 => t.version = v

LEMMA PublishPrefix ==
    ASSUME NEW s \in Stores, NEW v \in Version, NEW f \in Authored, NEW m \in Metas
    PROVE  /\ Len(PublishWrites(s, v, f, m)) = 5
           /\ \A k \in 1 .. 5 :
                PublishStage(s, PublishWrites(s, v, f, m)[k], v, f, m, k)
<1> DEFINE s1 == [s EXCEPT !.snap[v] = f]
           s2 == [s1 EXCEPT !.meta[v] = m]
           s3 == [s2 EXCEPT !.index = @ \cup {v}]
           s4 == [s3 EXCEPT !.mirror = f]
           s5 == [s4 EXCEPT !.version = v]
<1>0. v \in 0 .. MaxVersion
  BY Versions, SMT
<1>1. s1 \in Stores /\ s1.snap = [s.snap EXCEPT ![v] = f] /\ s1.meta = s.meta
      /\ s1.index = s.index /\ s1.mirror = s.mirror /\ s1.version = s.version
  BY SMT DEF Stores
<1> HIDE DEF s1
<1>2. s2 \in Stores /\ s2.snap = s1.snap /\ s2.meta = [s1.meta EXCEPT ![v] = m]
      /\ s2.index = s1.index /\ s2.mirror = s1.mirror /\ s2.version = s1.version
  BY <1>1, SMT DEF Stores
<1> HIDE DEF s2
<1>3. s3 \in Stores /\ s3.snap = s2.snap /\ s3.meta = s2.meta
      /\ s3.index = s2.index \cup {v} /\ s3.mirror = s2.mirror /\ s3.version = s2.version
  BY <1>2, SMT DEF Stores
<1> HIDE DEF s3
<1>4. s4 \in Stores /\ s4.snap = s3.snap /\ s4.meta = s3.meta
      /\ s4.index = s3.index /\ s4.mirror = f /\ s4.version = s3.version
  BY <1>3, SMT DEF Stores
<1> HIDE DEF s4
<1>5. s5 \in Stores /\ s5.snap = s4.snap /\ s5.meta = s4.meta
      /\ s5.index = s4.index /\ s5.mirror = s4.mirror /\ s5.version = v
  BY <1>0, <1>4, SMT DEF Stores
<1> HIDE DEF s5
<1>6. PublishWrites(s, v, f, m) = <<s1, s2, s3, s4, s5>>
  BY DEF PublishWrites, s1, s2, s3, s4, s5
<1>7. /\ Len(<<s1, s2, s3, s4, s5>>) = 5
      /\ <<s1, s2, s3, s4, s5>>[1] = s1 /\ <<s1, s2, s3, s4, s5>>[2] = s2
      /\ <<s1, s2, s3, s4, s5>>[3] = s3 /\ <<s1, s2, s3, s4, s5>>[4] = s4
      /\ <<s1, s2, s3, s4, s5>>[5] = s5
  BY SMT
<1>8. s.snap \in [Version -> Authored] /\ s.meta \in [Version -> Metas]
  BY StoreFields
<1>9. s1.snap[v] = f /\ \A w \in Version : w # v => s1.snap[w] = s.snap[w]
  BY <1>1, <1>8, SMT
<1>10. s2.meta[v] = m /\ \A w \in Version : w # v => s2.meta[w] = s.meta[w]
  BY <1>1, <1>2, <1>8, SMT
<1>11. PublishStage(s, s1, v, f, m, 1)
  BY <1>1, <1>9, SMT DEF PublishStage, OnlyAt, SameAt
<1>12. PublishStage(s, s2, v, f, m, 2)
  BY <1>1, <1>2, <1>9, <1>10, SMT DEF PublishStage, OnlyAt, SameAt
<1>13. PublishStage(s, s3, v, f, m, 3)
  BY <1>1, <1>2, <1>3, <1>9, <1>10, SMT DEF PublishStage, OnlyAt, SameAt
<1>14. PublishStage(s, s4, v, f, m, 4)
  BY <1>4, <1>13, SMT DEF PublishStage, OnlyAt, SameAt
<1>15. PublishStage(s, s5, v, f, m, 5)
  BY <1>5, <1>14, SMT DEF PublishStage, OnlyAt, SameAt
<1>16. 1 .. 5 = {1, 2, 3, 4, 5}
  BY SMT
<1> QED BY <1>6, <1>7, <1>11, <1>12, <1>13, <1>14, <1>15, <1>16

\* Wherever the script stops, the store it leaves may follow s.
Safe(r, s, p, l) ==
    /\ Len(r.writes) \in Nat
    /\ \A k \in 1 .. Len(r.writes) :
          Good(s, p, r.writes[k], After(s, p, r.writes[k]), l)

LEMMA RefusalSafe ==
    ASSUME NEW s, NEW p, NEW l, NEW code
    PROVE  Safe(Refuse(code), s, p, l) /\ Refuse(code).code = code
<1>1. Refuse(code).writes = <<>> /\ Refuse(code).code = code
  BY SMT DEF Refuse
<1>2. 1 .. Len(<<>>) = {} /\ Len(<<>>) \in Nat
  BY SMT
<1> QED BY <1>1, <1>2 DEF Safe

LEMMA NoMetaIs == NoMeta.hash = NoFiles
  BY SMT DEF NoMeta

\* A version key that stands still publishes nothing.
LEMMA StillAfter ==
    ASSUME NEW s, NEW p, NEW t, t.version = s.version
    PROVE  After(s, p, t) = p
  BY DEF After

LEMMA PublicationSafe ==
    ASSUME NEW s, NEW p, NEW l \in BOOLEAN, Sane(s, p, l),
           s.version = 0 \/ Kept(s, s.version, l),
           NEW v \in Version, v = s.version + 1,
           NEW f \in Authored, f # NoFiles, NEW m \in Metas, m.hash = f
    PROVE  Safe([code |-> v, writes |-> PublishWrites(s, v, f, m)], s, p, l)
<1> DEFINE r == [code |-> v, writes |-> PublishWrites(s, v, f, m)]
<1>0. s \in Stores
  BY DEF Sane, StoreInv
<1> SUFFICES ASSUME NEW k \in 1 .. 5
             PROVE  Good(s, p, r.writes[k], After(s, p, r.writes[k]), l)
  <2>1. 5 \in Nat
    BY SMT
  <2> QED BY <1>0, <2>1, PublishPrefix DEF Safe
<1> DEFINE t == r.writes[k]
<1>1. PublishStage(s, t, v, f, m, k)
  BY <1>0, PublishPrefix
<1>2. t \in Stores /\ OnlyAt(s, t, v) /\ t.snap[v] = f
  BY <1>1 DEF PublishStage
<1>3. k < 5 \/ k = 5
  BY SMT
<1> HIDE DEF t
<1> SUFFICES Good(s, p, t, After(s, p, t), l)
  BY DEF t
<1>4. CASE k < 5
  <2>1. t.version = s.version
    BY <1>1, <1>4 DEF PublishStage
  <2> QED BY <1>2, <2>1, NextWrite, StillAfter
<1>5. CASE k = 5
  <2>1. t.version = v /\ t.meta[v] = m /\ t.index = s.index \cup {v} /\ t.mirror = f
    <3>1. 5 > 1 /\ 5 > 2 /\ 5 > 3
      BY SMT
    <3> QED BY <1>1, <1>5, <3>1 DEF PublishStage
  <2>2. m # NoMeta
    BY NoMetaIs
  <2>3. Complete(t, v)
    BY <1>2, <2>1, <2>2 DEF Complete
  <2> QED BY <1>2, <2>1, <2>3, VersionWrite
<1> QED BY <1>3, <1>4, <1>5

\* The newest version of the index, when it is the one after the current.
LEMMA TopIsNext ==
    ASSUME NEW s, NEW p, NEW l, Sane(s, p, l), s.version + 1 \in s.index
    PROVE  Top(s) = s.version + 1
<1> DEFINE N == s.version + 1
           S == s.index \cup {0}
<1>1. /\ s \in Stores /\ N \in Nat /\ N \in S
      /\ s.index \in SUBSET Version /\ Fresh(s, p) /\ s.version \in Nat
  BY StoreFields, SMT DEF Sane, StoreInv
<1>2. ASSUME NEW v \in S PROVE v \in Nat /\ v <= N
  <2>1. v \in Nat /\ (v # 0 => v \in Version)
    BY <1>1, Versions, SMT
  <2>2. CASE v > N
    <3>1. v \in N .. MaxVersion /\ v \in s.index
      BY <1>1, <2>1, <2>2, Versions, SMT
    <3>2. ~Occupied(s, v)
      BY <1>1, <2>2, <3>1 DEF Fresh
    <3> QED BY <3>1, <3>2 DEF Occupied
  <2> QED BY <1>1, <2>1, <2>2, SMT
<1> HIDE DEF S, N
<1>3. \A y \in S : N >= y
  BY <1>1, <1>2, SMT
<1>4. \A x \in S : (\A y \in S : x >= y) => x = N
  BY <1>1, <1>2, SMT
<1>5. Max(S) = N
  BY <1>1, <1>3, <1>4 DEF Max
<1> QED BY <1>5 DEF Top, S, N

\* A history that is fit has the current version, and is ready for the next.
LEMMA FitIsKept ==
    ASSUME NEW s, NEW p, NEW l, Sane(s, p, l), HistoryFit(s)
    PROVE  s.version = 0 \/ Kept(s, s.version, l)
<1>1. s.version \in Nat
  BY StoreFields DEF Sane, StoreInv
<1>2. CASE s.version > 0
  BY <1>2 DEF HistoryFit, Complete, Kept
<1>3. CASE ~(s.version > 0)
  BY <1>1, <1>3, SMT
<1> QED BY <1>2, <1>3

\* A script that is safe, and publishes f after base when its reply is above 0
Saves(r, s, p, l, base, f) ==
    /\ Safe(r, s, p, l)
    /\ r.code > 0 => /\ s.version = base /\ Len(r.writes) # 0
                     /\ r.writes[Len(r.writes)].version = base + 1
                     /\ r.writes[Len(r.writes)].mirror = f

LEMMA RefusalSaves ==
    ASSUME NEW s, NEW p, NEW l, NEW base, NEW f, NEW c \in {0, -1, -5, -6, -9}
    PROVE  Saves(Refuse(c), s, p, l, base, f)
<1>1. ~(c > 0)
  BY SMT
<1> QED BY <1>1, RefusalSafe DEF Saves

\* save_script: every prefix of its writes is safe, and a reply above 0 is
\* the version that now has the files.
LEMMA SaveSafe ==
    ASSUME NEW s, NEW p, NEW l \in BOOLEAN, Sane(s, p, l),
           NEW base \in 0 .. MaxVersion - 1, NEW f \in Authored, f # NoFiles,
           NEW m \in Metas, m.hash = f
    PROVE  Saves(SaveScript(s, base, f, m), s, p, l, base, f)
<1> DEFINE r == SaveScript(s, base, f, m)
           w == [code |-> base + 1, writes |-> PublishWrites(s, base + 1, f, m)]
<1>0. s \in Stores /\ base + 1 \in Version
  BY Versions, SMT DEF Sane, StoreInv
<1>1. ASSUME s.version = base, HistoryFit(s) PROVE Saves(w, s, p, l, base, f)
  <2>1. Safe(w, s, p, l)
    BY <1>0, <1>1, FitIsKept, PublicationSafe
  <2>2. Len(w.writes) = 5 /\ PublishStage(s, w.writes[5], base + 1, f, m, 5)
    <3>1. 5 \in 1 .. 5
      BY SMT
    <3> QED BY <1>0, <3>1, PublishPrefix
  <2>3. w.writes[5].version = base + 1 /\ w.writes[5].mirror = f
    <3>1. 5 > 3
      BY SMT
    <3> QED BY <2>2, <3>1 DEF PublishStage
  <2>4. 5 # 0
    BY SMT
  <2> HIDE DEF w
  <2> QED BY <1>1, <2>1, <2>2, <2>3, <2>4 DEF Saves
<1>2. \/ \E c \in {0, -1, -5, -6, -9} : r = Refuse(c)
      \/ r = w /\ s.version = base /\ HistoryFit(s)
  BY DEF SaveScript
<1> HIDE DEF w
<1> QED BY <1>1, <1>2, RefusalSaves

LEMMA RollbackSafe ==
    ASSUME NEW s, NEW p, NEW l \in BOOLEAN, Sane(s, p, l),
           NEW base \in 0 .. MaxVersion - 1, NEW source \in Version,
           NEW f \in Authored, NEW old, NEW m \in Metas, m.hash = f
    PROVE  LET r == RollbackScript(s, base, source, f, old, m) IN
           Saves(r, s, p, l, base, f) /\ (r.code > 0 => Known(source, f, s, p))
<1> DEFINE r == RollbackScript(s, base, source, f, old, m)
<1>1. ASSUME NEW c \in {0, -1, -5, -6, -9}, r = Refuse(c)
      PROVE  Saves(r, s, p, l, base, f) /\ ~(r.code > 0)
  <2>1. ~(c > 0)
    BY SMT
  <2> QED BY <1>1, <2>1, RefusalSaves, RefusalSafe
<1>2. ASSUME r = SaveScript(s, base, f, m), ~(source > s.version), SameSource(s, source, f, old)
      PROVE  Saves(r, s, p, l, base, f) /\ Known(source, f, s, p)
  <2>1. f # NoFiles /\ f = s.snap[source]
    BY <1>2 DEF SameSource, Complete
  <2>2. source \in 1 .. s.version
    BY <1>2, StoreFields, Versions, SMT DEF Sane, StoreInv
  <2>3. f = p[source]
    BY <2>1, <2>2 DEF Sane, StoreInv, Truthful
  <2> QED BY <1>2, <2>1, <2>2, <2>3, SaveSafe DEF Known
<1>3. \/ \E c \in {0, -1, -5, -6, -9} : r = Refuse(c)
      \/ /\ r = SaveScript(s, base, f, m) /\ ~(source > s.version)
         /\ SameSource(s, source, f, old)
  BY DEF RollbackScript
<1> HIDE DEF r
<1>4. Saves(r, s, p, l, base, f) /\ (r.code > 0 => Known(source, f, s, p))
  BY <1>1, <1>2, <1>3
<1> QED BY <1>4 DEF r

-----------------------------------------------------------------------------
(* Repairs *)

\* What is settled stays so while the mirror and the versions to come stay.
LEMMA StaysSettled ==
    ASSUME NEW s \in Stores, NEW p, NEW l, Settled(s, p, l),
           NEW t \in Stores, t.version = s.version, OnlyAt(s, t, s.version),
           t.mirror = s.mirror, Kept(s, s.version, l) => Kept(t, s.version, l)
    PROVE  Settled(t, p, l)
<1>1. \A v \in Version : v > s.version => v # s.version
  BY StoreFields, Versions, SMT
<1>2. \A v \in Version : v > s.version => (Occupied(t, v) <=> Occupied(s, v))
  BY <1>1, SameListed DEF OnlyAt
<1> QED BY <1>2 DEF Settled

\* A repair of the current version loses nothing of it.
Repaired(s, p, t, v) ==
    /\ t.snap[v] \in {NoFiles, p[v]}
    /\ t.meta[v] = NoMeta \/ t.meta[v].hash = p[v]
    /\ v \in t.index => p[v] # NoFiles
    /\ Complete(s, v) => Complete(t, v)

LEMMA RepairWrite ==
    ASSUME NEW s, NEW p, NEW l \in BOOLEAN, Sane(s, p, l),
           NEW v \in Version, s.version = v,
           NEW t \in Stores, t.version = v, OnlyAt(s, t, v),
           Settled(t, p, l), Repaired(s, p, t, v)
    PROVE  Good(s, p, t, After(s, p, t), l)
<1>1. After(s, p, t) = p
  BY StillAfter
<1>2. Good(s, p, t, p, l)
  BY CurrentWrite DEF Repaired
<1> QED BY <1>1, <1>2

LEMMA OneWrite ==
    ASSUME NEW s, NEW p, NEW l, NEW t, NEW r, r.writes = <<t>>,
           Good(s, p, t, After(s, p, t), l)
    PROVE  Safe(r, s, p, l)
<1>1. 1 .. Len(<<t>>) = {1} /\ <<t>>[1] = t /\ Len(<<t>>) \in Nat
  BY SMT
<1> QED BY <1>1 DEF Safe

LEMMA SnapshotRepairSafe ==
    ASSUME NEW s, NEW p, NEW l \in BOOLEAN, Sane(s, p, l),
           NEW v \in Version, NEW m, NEW f \in Authored, m.hash = f
    PROVE  Safe(SnapshotRepairScript(s, v, m, f), s, p, l)
<1> DEFINE r == SnapshotRepairScript(s, v, m, f)
           t == [s EXCEPT !.snap[v] = f]
           w == [code |-> v, writes |-> <<t>>]
<1>1. ASSUME s.version = v, s.snap[v] = NoFiles, s.meta[v] = m, v \in s.index
      PROVE  Good(s, p, t, After(s, p, t), l)
  <2>0. s \in Stores /\ s.snap \in [Version -> Authored] /\ Settled(s, p, l)
    BY StoreFields DEF Sane, StoreInv
  <2>1. /\ t \in Stores /\ t.snap = [s.snap EXCEPT ![v] = f] /\ t.meta = s.meta
        /\ t.index = s.index /\ t.mirror = s.mirror /\ t.version = s.version
    BY <2>0, SMT DEF Stores
  <2> HIDE DEF t
  <2>2. t.snap[v] = f /\ \A u \in Version : u # v => t.snap[u] = s.snap[u]
    BY <2>0, <2>1
  <2>3. OnlyAt(s, t, s.version)
    BY <1>1, <2>1, <2>2 DEF OnlyAt, SameAt
  <2>4. Repaired(s, p, t, v)
    <3>1. v \in 1 .. s.version
      BY <1>1, Versions, SMT
    <3>2. ~Complete(s, v)
      BY <1>1 DEF Complete
    <3> QED BY <1>1, <2>1, <2>2, <3>1, <3>2, NoMetaIs
            DEF Repaired, Sane, StoreInv, Truthful
  <2>5. Kept(s, v, l) => Kept(t, v, l)
    BY <1>1, <2>1 DEF Kept
  <2>7. Settled(t, p, l)
    BY <1>1, <2>0, <2>1, <2>3, <2>5, StaysSettled
  <2>8. t \in Stores /\ s.version = v /\ t.version = v /\ OnlyAt(s, t, v)
    BY <1>1, <2>1, <2>3
  <2> QED BY <2>4, <2>7, <2>8, RepairWrite
<1>2. \/ \E c \in {-4, -1, -5, -6, -9} : r = Refuse(c)
      \/ r = w /\ s.version = v /\ s.snap[v] = NoFiles /\ s.meta[v] = m /\ v \in s.index
  BY DEF SnapshotRepairScript
<1> HIDE DEF t
<1>3. w.writes = <<t>>
  BY SMT
<1> HIDE DEF w
<1>4. CASE r = w /\ s.version = v /\ s.snap[v] = NoFiles /\ s.meta[v] = m /\ v \in s.index
  BY <1>1, <1>3, <1>4, OneWrite
<1>5. ASSUME NEW c, r = Refuse(c) PROVE Safe(r, s, p, l)
  BY <1>5, RefusalSafe
<1> QED BY <1>2, <1>4, <1>5

\* A write to the mirror alone
MirrorOnly(s, t, f) ==
    /\ t \in Stores /\ t.mirror = f /\ t.version = s.version
    /\ \A v \in Version : SameAt(s, t, v)

LEMMA MirrorWrite ==
    ASSUME NEW s \in Stores, NEW f \in Authored
    PROVE  MirrorOnly(s, [s EXCEPT !.mirror = f], f)
<1> DEFINE t == [s EXCEPT !.mirror = f]
<1>1. /\ t \in Stores /\ t.snap = s.snap /\ t.meta = s.meta
      /\ t.index = s.index /\ t.mirror = f /\ t.version = s.version
  BY SMT DEF Stores
<1> HIDE DEF t
<1>2. MirrorOnly(s, t, f)
  BY <1>1 DEF MirrorOnly, SameAt
<1> QED BY <1>2 DEF t

LEMMA MirrorRebuildSafe ==
    ASSUME NEW s, NEW p, NEW l \in BOOLEAN, Sane(s, p, l),
           NEW v \in Version, NEW m, NEW f \in Authored
    PROVE  Safe(MirrorRebuildScript(s, v, m, f), s, p, l)
<1> DEFINE r == MirrorRebuildScript(s, v, m, f)
           t == [s EXCEPT !.mirror = f]
           w == [code |-> v, writes |-> <<t>>]
<1>1. ASSUME s.version = v, SameSource(s, v, f, m)
      PROVE  Good(s, p, t, After(s, p, t), l)
  <2>0. s \in Stores /\ Complete(s, v)
    BY <1>1 DEF Sane, StoreInv, SameSource
  <2>1. /\ t \in Stores /\ t.version = v /\ s.version = v
        /\ \A u \in Version : SameAt(s, t, u)
    <3>1. MirrorOnly(s, t, f)
      BY <2>0, MirrorWrite
    <3> QED BY <1>1, <3>1 DEF MirrorOnly
  <2> HIDE DEF t
  <2>2. OnlyAt(s, t, v) /\ Complete(t, v)
    BY <2>0, <2>1, SameListed DEF OnlyAt
  <2>3. Settled(t, p, l)
    BY <2>1, <2>2 DEF Settled, Kept, Complete
  <2>4. Repaired(s, p, t, v)
    <3>1. v \in 1 .. s.version
      BY <1>1, Versions, SMT
    <3>2. SameAt(s, t, v)
      BY <2>1
    <3> QED BY <2>2, <3>1, <3>2 DEF Repaired, Sane, StoreInv, Truthful, SameAt
  <2> QED BY <2>1, <2>2, <2>3, <2>4, RepairWrite
<1>2. \/ \E c \in {-4, -1, -5, -9} : r = Refuse(c)
      \/ r = w /\ s.version = v /\ SameSource(s, v, f, m)
  BY DEF MirrorRebuildScript
<1> HIDE DEF t
<1>3. w.writes = <<t>>
  BY SMT
<1> HIDE DEF w
<1>4. CASE r = w /\ s.version = v /\ SameSource(s, v, f, m)
  BY <1>1, <1>3, <1>4, OneWrite
<1>5. ASSUME NEW c, r = Refuse(c) PROVE Safe(r, s, p, l)
  BY <1>5, RefusalSafe
<1> QED BY <1>2, <1>4, <1>5

LEMMA MigrationSafe ==
    ASSUME NEW s, NEW p, NEW l \in BOOLEAN, Sane(s, p, l),
           NEW v \in Version, NEW m \in Metas, NEW f \in Authored, f # NoFiles, m.hash = f
    PROVE  Safe(MigrationScript(s, v, m, f), s, p, l)
<1> DEFINE r == MigrationScript(s, v, m, f)
           P == PublishWrites(s, v, f, m)
           w == [code |-> v, writes |-> SubSeq(P, 1, 3)]
<1>0. s \in Stores /\ Settled(s, p, l)
  BY DEF Sane, StoreInv
<1>1. ASSUME s.version = v, NoHistory(s), s.snap[v] = NoFiles, s.mirror = f,
             NEW k \in 1 .. 3
      PROVE  Good(s, p, P[k], After(s, p, P[k]), l)
  <2>1. v > 0 /\ k \in 1 .. 5 /\ k < 4 /\ k < 5 /\ (k > 1 \/ k = 1)
    BY Versions, SMT
  <2>2. ~Kept(s, v, l) /\ ~Complete(s, v) /\ s.meta[v] = NoMeta
    BY <1>1 DEF NoHistory, Kept, Complete
  <2>3. f = p[v]
    BY <1>0, <1>1, <2>1, <2>2 DEF Settled
  <2> DEFINE t == P[k]
  <2>4. PublishStage(s, t, v, f, m, k)
    BY <1>0, <2>1, PublishPrefix
  <2> HIDE DEF t
  <2>5. t \in Stores /\ s.version = v /\ t.version = v /\ OnlyAt(s, t, v)
    BY <1>1, <2>1, <2>4 DEF PublishStage
  <2>6. t.mirror = s.mirror
    BY <2>1, <2>4 DEF PublishStage
  <2>7. Settled(t, p, l)
    BY <1>0, <2>2, <2>5, <2>6, StaysSettled
  <2>8. t.snap[v] = p[v] /\ (t.meta[v] = NoMeta \/ t.meta[v].hash = p[v])
    BY <2>1, <2>2, <2>3, <2>4 DEF PublishStage
  <2>9. Repaired(s, p, t, v)
    BY <2>2, <2>3, <2>8 DEF Repaired
  <2>10. Good(s, p, t, After(s, p, t), l)
    BY <2>5, <2>7, <2>9, RepairWrite
  <2> QED BY <2>10 DEF t
<1>2. \/ \E c \in {-4, -1, -5, -6, -9} : r = Refuse(c)
      \/ r = w /\ s.version = v /\ NoHistory(s) /\ s.snap[v] = NoFiles /\ s.mirror = f
  BY DEF MigrationScript
<1> HIDE DEF P
<1>3. w.writes = SubSeq(P, 1, 3) /\ Len(SubSeq(P, 1, 3)) = 3 /\ 3 \in Nat
      /\ \A k \in 1 .. 3 : SubSeq(P, 1, 3)[k] = P[k]
  BY SMT
<1> HIDE DEF w
<1>4. CASE r = w /\ s.version = v /\ NoHistory(s) /\ s.snap[v] = NoFiles /\ s.mirror = f
  BY <1>1, <1>3, <1>4 DEF Safe
<1>5. ASSUME NEW c, r = Refuse(c) PROVE Safe(r, s, p, l)
  BY <1>5, RefusalSafe
<1> QED BY <1>2, <1>4, <1>5

\* restore_version_script: the version it publishes is the one after the
\* current, which a publication that stopped has left behind complete.
LEMMA RestoreSafe ==
    ASSUME NEW s, NEW p, NEW l \in BOOLEAN, Sane(s, p, l),
           NEW c \in 0 .. MaxVersion, NEW v \in Version,
           NEW m, NEW f \in Authored, m.hash = f
    PROVE  Safe(RestoreVersionScript(s, c, v, m, f), s, p, l)
<1> DEFINE r == RestoreVersionScript(s, c, v, m, f)
           t == [s EXCEPT !.mirror = f]
           u == [t EXCEPT !.version = v]
           w == [code |-> v, writes |-> <<t, u>>]
<1>0. s \in Stores /\ Settled(s, p, l) /\ Fresh(s, p) /\ s.version \in Nat
  BY StoreFields DEF Sane, StoreInv
<1>1. ASSUME s.version = c, ~(v <= c), SameSource(s, v, f, m)
      PROVE  Good(s, p, t, After(s, p, t), l) /\ Good(s, p, u, After(s, p, u), l)
  <2>1. Complete(s, v) /\ Occupied(s, v) /\ s.meta[v] = m /\ s.snap[v] = f
    BY <1>1 DEF SameSource, Complete, Occupied
  <2>2. v = s.version + 1 /\ v > s.version
    <3>1. v \in s.version + 1 .. MaxVersion /\ v > s.version
      BY <1>0, <1>1, Versions, SMT
    <3>2. ~(v > s.version + 1)
      BY <1>0, <2>1, <3>1 DEF Fresh
    <3> QED BY <1>0, <3>1, <3>2, SMT
  <2>3. s.version = 0 \/ Kept(s, s.version, l)
    <3>1. s.version = 0 \/ s.version > 0
      BY <1>0, SMT
    <3> QED BY <1>0, <2>1, <2>2, <3>1 DEF Settled
  <2>4. /\ t \in Stores /\ t.version = s.version /\ t.mirror = f
        /\ \A x \in Version : SameAt(s, t, x)
    <3>1. MirrorOnly(s, t, f)
      BY <1>0, MirrorWrite
    <3> HIDE DEF t
    <3> QED BY <3>1 DEF MirrorOnly
  <2> HIDE DEF t
  <2>5. Good(s, p, t, p, l)
    <3>1. OnlyAt(s, t, s.version + 1)
      BY <2>4 DEF OnlyAt
    <3>2. t \in Stores /\ t.version = s.version
      BY <2>4
    <3> QED BY <2>3, <3>1, <3>2, NextWrite
  <2>6. After(s, p, t) = p
    BY <2>4, StillAfter
  <2>7. /\ u \in Stores /\ u.snap = t.snap /\ u.meta = t.meta
        /\ u.index = t.index /\ u.mirror = t.mirror /\ u.version = v
    <3>1. v \in 0 .. MaxVersion
      BY Versions, SMT
    <3> QED BY <2>4, <3>1, SMT DEF Stores
  <2> HIDE DEF u
  <2>8. \A x \in Version : SameAt(s, u, x)
    BY <2>4, <2>7 DEF SameAt
  <2>9. /\ u \in Stores /\ u.version = s.version + 1 /\ OnlyAt(s, u, u.version)
        /\ Complete(u, u.version) /\ u.snap[u.version] = u.mirror
        /\ u.meta[u.version].hash = u.mirror
    <3>1. SameAt(s, u, v)
      BY <2>8
    <3>2. u.snap[v] = f /\ u.meta[v] = m /\ u.mirror = f /\ Complete(u, v)
      BY <2>1, <2>4, <2>7, <3>1, SameListed, <1>0 DEF SameAt
    <3>3. u.version = v /\ OnlyAt(s, u, v)
      BY <2>7, <2>8 DEF OnlyAt
    <3> QED BY <2>2, <2>7, <3>2, <3>3
  <2> QED BY <2>3, <2>5, <2>6, <2>9, VersionWrite
<1>2. \/ \E x \in {-1, -5, -9} : r = Refuse(x)
      \/ r = w /\ s.version = c /\ ~(v <= c) /\ SameSource(s, v, f, m)
  BY DEF RestoreVersionScript
<1> HIDE DEF t, u
<1>3. w.writes = <<t, u>> /\ 1 .. Len(<<t, u>>) = {1, 2} /\ Len(<<t, u>>) \in Nat
      /\ <<t, u>>[1] = t /\ <<t, u>>[2] = u
  BY SMT
<1> HIDE DEF w
<1>4. CASE r = w /\ s.version = c /\ ~(v <= c) /\ SameSource(s, v, f, m)
  <2>1. Good(s, p, t, After(s, p, t), l) /\ Good(s, p, u, After(s, p, u), l)
    BY <1>1, <1>4
  <2> QED BY <1>3, <1>4, <2>1 DEF Safe
<1>5. ASSUME NEW x, r = Refuse(x) PROVE Safe(r, s, p, l)
  BY <1>5, RefusalSafe
<1> QED BY <1>2, <1>4, <1>5

\* What a script that erases version v leaves after some of its writes
LEMMA ErasePrefix ==
    ASSUME NEW s \in Stores, NEW v \in Version
    PROVE  /\ Len(EraseWrites(s, v)) = 3
           /\ \A k \in 1 .. 3 : LET t == EraseWrites(s, v)[k] IN
                /\ t \in Stores /\ t.version = s.version /\ t.mirror = s.mirror
                /\ OnlyAt(s, t, v) /\ t.snap[v] = NoFiles
                /\ t.meta[v] \in {NoMeta, s.meta[v]}
                /\ v \in t.index => v \in s.index
<1> DEFINE s1 == [s EXCEPT !.snap[v] = NoFiles]
           s2 == [s1 EXCEPT !.meta[v] = NoMeta]
           s3 == [s2 EXCEPT !.index = @ \ {v}]
           Erased(t) == /\ t \in Stores /\ t.version = s.version /\ t.mirror = s.mirror
                        /\ OnlyAt(s, t, v) /\ t.snap[v] = NoFiles
                        /\ t.meta[v] \in {NoMeta, s.meta[v]}
                        /\ v \in t.index => v \in s.index
<1>0. s.snap \in [Version -> Authored] /\ s.meta \in [Version -> Metas]
      /\ NoFiles \in Authored /\ NoMeta \in Metas
  <2>1. NoFiles \in Authored
    BY DEF Authored
  <2>2. NoMeta \in Metas
    BY <2>1, StoreAssumption, SMT DEF NoMeta, Metas
  <2> QED BY <2>1, <2>2, StoreFields
<1>1. s1 \in Stores /\ s1.snap = [s.snap EXCEPT ![v] = NoFiles] /\ s1.meta = s.meta
      /\ s1.index = s.index /\ s1.mirror = s.mirror /\ s1.version = s.version
  BY <1>0, SMT DEF Stores
<1> HIDE DEF s1
<1>2. s2 \in Stores /\ s2.snap = s1.snap /\ s2.meta = [s1.meta EXCEPT ![v] = NoMeta]
      /\ s2.index = s1.index /\ s2.mirror = s1.mirror /\ s2.version = s1.version
  BY <1>0, <1>1, SMT DEF Stores
<1> HIDE DEF s2
<1>3. s3 \in Stores /\ s3.snap = s2.snap /\ s3.meta = s2.meta
      /\ s3.index = s2.index \ {v} /\ s3.mirror = s2.mirror /\ s3.version = s2.version
  BY <1>2, SMT DEF Stores
<1> HIDE DEF s3
<1>4. EraseWrites(s, v) = <<s1, s2, s3>>
  BY DEF EraseWrites, s1, s2, s3
<1>5. /\ Len(<<s1, s2, s3>>) = 3 /\ 1 .. 3 = {1, 2, 3}
      /\ <<s1, s2, s3>>[1] = s1 /\ <<s1, s2, s3>>[2] = s2 /\ <<s1, s2, s3>>[3] = s3
  BY SMT
<1>6. s1.snap[v] = NoFiles /\ \A w \in Version : w # v => s1.snap[w] = s.snap[w]
  BY <1>0, <1>1, SMT
<1>7. s2.meta[v] = NoMeta /\ \A w \in Version : w # v => s2.meta[w] = s.meta[w]
  BY <1>0, <1>1, <1>2, SMT
<1>8. Erased(s1)
  BY <1>1, <1>6 DEF OnlyAt, SameAt
<1>9. Erased(s2)
  BY <1>1, <1>2, <1>6, <1>7 DEF OnlyAt, SameAt
<1>10. Erased(s3)
  <2>1. v \notin s3.index /\ \A w \in Version : w # v => (w \in s3.index <=> w \in s2.index)
    BY <1>3
  <2> QED BY <1>3, <1>9, <2>1 DEF OnlyAt, SameAt
<1>11. \A k \in 1 .. 3 : Erased(EraseWrites(s, v)[k])
  <2> HIDE DEF Erased
  <2> QED BY <1>4, <1>5, <1>8, <1>9, <1>10
<1> QED BY <1>4, <1>5, <1>11

LEMMA DeleteOrphanSafe ==
    ASSUME NEW s, NEW p, NEW l \in BOOLEAN, Sane(s, p, l),
           NEW c, NEW v \in Version, NEW trace
    PROVE  Safe(DeleteOrphanScript(s, c, v, trace), s, p, l)
<1> DEFINE r == DeleteOrphanScript(s, c, v, trace)
           E == EraseWrites(s, v)
           w == [code |-> 1, writes |-> E]
<1>0. s \in Stores
  BY DEF Sane, StoreInv
<1>1. ASSUME s.version = c, v = c + 1, Occupied(s, v), NEW k \in 1 .. 3
      PROVE  Good(s, p, E[k], After(s, p, E[k]), l)
  <2> DEFINE t == E[k]
  <2>1. t \in Stores /\ t.version = s.version /\ t.mirror = s.mirror /\ OnlyAt(s, t, v)
    BY <1>0, ErasePrefix
  <2> HIDE DEF t
  <2>2. t \in Stores /\ t.version = s.version
    BY <2>1
  <2>3. OnlyAt(s, t, s.version + 1)
    BY <1>1, <2>1
  <2>4. /\ t.mirror = s.mirror
        /\ Occupied(t, s.version + 1) => Occupied(s, s.version + 1)
    BY <1>1, <2>1
  <2>5. Good(s, p, t, p, l)
    BY <2>2, <2>3, <2>4, NextWrite
  <2>6. Good(s, p, t, After(s, p, t), l)
    BY <2>2, <2>5, StillAfter
  <2> QED BY <2>6 DEF t
<1>2. \/ \E x \in {-1, -5, -9} : r = Refuse(x)
      \/ r = w /\ s.version = c /\ v = c + 1 /\ Occupied(s, v)
  BY DEF DeleteOrphanScript
<1>3. w.writes = E /\ Len(E) = 3 /\ 3 \in Nat
  <2>1. 3 \in Nat
    BY SMT
  <2> QED BY <1>0, <2>1, ErasePrefix
<1> HIDE DEF w, E
<1>4. CASE r = w /\ s.version = c /\ v = c + 1 /\ Occupied(s, v)
  BY <1>1, <1>3, <1>4 DEF Safe
<1>5. ASSUME NEW x, r = Refuse(x) PROVE Safe(r, s, p, l)
  BY <1>5, RefusalSafe
<1> QED BY <1>2, <1>4, <1>5

\* The newer versions in the index are newer versions that were published.
LEMMA IndexedAbove ==
    ASSUME NEW s, NEW p, NEW l, Sane(s, p, l), ~(Top(s) > s.version), NEW c \in Version,
           Cardinality({w \in s.index : w > c}) >= Retain
    PROVE  ~(Cardinality(Above(p, c)) < Retain)
<1> DEFINE I == {w \in s.index : w > c}
<1>0. /\ s \in Stores /\ s.version \in Nat /\ s.index \in SUBSET Version
      /\ p \in [Version -> Authored] /\ Truthful(s, p) /\ Fresh(s, p)
  BY StoreFields DEF Sane, StoreInv
<1>1. s.version + 1 \notin s.index
  <2>1. s.version + 1 > s.version
    BY <1>0, SMT
  <2> QED BY <2>1, TopIsNext
<1>2. ASSUME NEW w \in s.index PROVE w \in Version /\ p[w] # NoFiles
  <2>1. w \in Version /\ w # s.version + 1
    BY <1>0, <1>1
  <2>2. CASE w \in 1 .. s.version
    BY <1>0, <2>1, <2>2 DEF Truthful
  <2>3. CASE w \notin 1 .. s.version
    <3>1. w \in s.version + 1 .. MaxVersion /\ w > s.version + 1
      BY <1>0, <2>1, <2>3, Versions, SMT
    <3> QED BY <1>0, <3>1 DEF Fresh, Occupied
  <2> QED BY <2>2, <2>3
<1>3. I \in SUBSET Above(p, c)
  BY <1>2 DEF Above
<1>4. I \in SUBSET Version /\ Above(p, c) \in SUBSET Version
  BY <1>2 DEF Above
<1>5. /\ Cardinality(Above(p, c)) \in Nat /\ Cardinality(I) \in Nat
      /\ Cardinality(I) <= Cardinality(Above(p, c))
  <2> HIDE DEF I
  <2> QED BY <1>3, <1>4 DEF Sane, VersionSets
<1>6. Cardinality(I) >= Retain
  OBVIOUS
<1> DEFINE n == Cardinality(I)
           k == Cardinality(Above(p, c))
<1> HIDE DEF n, k
<1>7. n >= Retain /\ n <= k /\ k \in Nat /\ n \in Nat
  BY <1>5, <1>6 DEF n, k
<1>8. ~(k < Retain)
  BY <1>7, StoreAssumption, SMT
<1> QED BY <1>8 DEF k

\* gc_delete_script counts once more when it deletes.
LEMMA GcDeleteSafe ==
    ASSUME NEW s, NEW p, NEW l \in BOOLEAN, Sane(s, p, l), NEW c, NEW cutoff
    PROVE  Safe(GcDeleteScript(s, c, cutoff), s, p, l)
<1> DEFINE r == GcDeleteScript(s, c, cutoff)
           E == EraseWrites(s, c)
           w == [code |-> 1, writes |-> E]
<1>0. s \in Stores /\ s.version \in Nat /\ s.index \in SUBSET Version
  BY StoreFields DEF Sane, StoreInv
<1>1. ASSUME ~(Top(s) > s.version), ~(c >= s.version), c \in Expendable(s, cutoff)
      PROVE  Len(E) = 3 /\ \A k \in 1 .. 3 : Good(s, p, E[k], After(s, p, E[k]), l)
  <2>1. c \in Version /\ Cardinality({x \in s.index : x > c}) >= Retain
    BY <1>0, <1>1 DEF Expendable
  <2>2. ~(Cardinality(Above(p, c)) < Retain)
    BY <1>1, <2>1, IndexedAbove
  <2>3. c < s.version
    BY <1>0, <1>1, <2>1, Versions, SMT
  <2>4. ASSUME NEW k \in 1 .. 3 PROVE Good(s, p, E[k], After(s, p, E[k]), l)
    <3> DEFINE t == E[k]
    <3>1. /\ t \in Stores /\ t.version = s.version /\ t.mirror = s.mirror
          /\ OnlyAt(s, t, c) /\ t.snap[c] = NoFiles /\ t.meta[c] \in {NoMeta, s.meta[c]}
          /\ c \in t.index => c \in s.index
      BY <1>0, <2>1, ErasePrefix
    <3> HIDE DEF t
    <3>2. Good(s, p, t, p, l)
      BY <2>1, <2>2, <2>3, <3>1, OldWrite
    <3>3. Good(s, p, t, After(s, p, t), l)
      BY <3>1, <3>2, StillAfter
    <3> QED BY <3>3 DEF t
  <2> QED BY <1>0, <2>1, <2>4, ErasePrefix
<1>2. \/ \E x \in {-2, -5, 0} : r = Refuse(x)
      \/ /\ r = w /\ ~(Top(s) > s.version) /\ ~(c >= s.version)
         /\ c \in Expendable(s, cutoff)
  BY DEF GcDeleteScript
<1>3. w.writes = E /\ 3 \in Nat
  BY SMT
<1> HIDE DEF w, E
<1>4. CASE /\ r = w /\ ~(Top(s) > s.version) /\ ~(c >= s.version)
           /\ c \in Expendable(s, cutoff)
  <2>1. Len(E) = 3 /\ \A k \in 1 .. 3 : Good(s, p, E[k], After(s, p, E[k]), l)
    BY <1>1, <1>4
  <2> QED BY <1>3, <1>4, <2>1 DEF Safe
<1>5. ASSUME NEW x, r = Refuse(x) PROVE Safe(r, s, p, l)
  BY <1>5, RefusalSafe
<1> QED BY <1>2, <1>4, <1>5

LEMMA SeedSafe ==
    ASSUME NEW s, NEW p, NEW l \in BOOLEAN, Sane(s, p, l),
           NEW f \in Authored, NEW m \in Metas, m.hash = f
    PROVE  Saves(SeedScript(s, f, m), s, p, l, 0, f)
<1> DEFINE r == SeedScript(s, f, m)
           P == [code |-> 1, writes |-> PublishWrites(s, 1, f, m)]
           t == [s EXCEPT !.mirror = NoFiles]
           u == [t EXCEPT !.version = 1]
           w == [code |-> 1, writes |-> <<t, u>>]
<1>0. /\ s \in Stores /\ Fresh(s, p) /\ 1 \in Version /\ 0 + 1 = 1 /\ 1 \in 0 .. MaxVersion
      /\ NoFiles \in Authored
  BY StoreAssumption, Versions, SMT DEF Sane, StoreInv, Authored
<1>1. ASSUME s.version = 0, f # NoFiles PROVE Saves(P, s, p, l, 0, f)
  <2>1. 1 = s.version + 1 /\ 5 > 3 /\ 5 \in 1 .. 5 /\ 5 # 0
    BY <1>1, SMT
  <2>2. Safe(P, s, p, l)
    BY <1>0, <1>1, <2>1, PublicationSafe
  <2>3. Len(P.writes) = 5 /\ PublishStage(s, P.writes[5], 1, f, m, 5)
    BY <1>0, <2>1, PublishPrefix
  <2> HIDE DEF P
  <2>4. P.writes[5].version = 1 /\ P.writes[5].mirror = f
    BY <2>1, <2>3 DEF PublishStage
  <2> QED BY <1>0, <1>1, <2>1, <2>2, <2>3, <2>4 DEF Saves
<1>2. ASSUME s.version = 0, NoHistory(s), s.snap[1] = NoFiles, f = NoFiles
      PROVE  Saves(w, s, p, l, 0, f)
  <2>1. ASSUME NEW v \in Version PROVE ~Occupied(s, v)
    <3>1. CASE v = 1
      BY <1>2, <3>1 DEF NoHistory, Occupied
    <3>2. CASE v # 1
      <4>1. v \in s.version + 1 .. MaxVersion /\ v > s.version + 1
        BY <1>2, <3>2, Versions, SMT
      <4> QED BY <1>0, <4>1 DEF Fresh
    <3> QED BY <3>1, <3>2
  <2>2. MirrorOnly(s, t, NoFiles)
    BY <1>0, MirrorWrite
  <2> HIDE DEF t
  <2>3. /\ t \in Stores /\ t.version \in {0, 1} /\ t.mirror = NoFiles
        /\ \A v \in Version : SameAt(s, t, v)
    BY <1>2, <2>2 DEF MirrorOnly
  <2>4. /\ u \in Stores /\ u.snap = t.snap /\ u.meta = t.meta
        /\ u.index = t.index /\ u.mirror = t.mirror /\ u.version = 1
    BY <1>0, <2>3, SMT DEF Stores
  <2> HIDE DEF u
  <2>5. /\ u \in Stores /\ u.version \in {0, 1} /\ u.mirror = NoFiles
        /\ \A v \in Version : SameAt(s, u, v)
    BY <2>3, <2>4 DEF SameAt
  <2>6. Good(s, p, t, After(s, p, t), l)
    BY <1>2, <2>1, <2>3, EmptyWrite
  <2>7. Good(s, p, u, After(s, p, u), l)
    BY <1>2, <2>1, <2>5, EmptyWrite
  <2>8. /\ w.writes = <<t, u>> /\ 1 .. Len(<<t, u>>) = {1, 2} /\ Len(<<t, u>>) = 2
        /\ <<t, u>>[1] = t /\ <<t, u>>[2] = u /\ 2 # 0 /\ 2 \in Nat
    BY SMT
  <2> HIDE DEF w
  <2>9. Safe(w, s, p, l)
    BY <2>6, <2>7, <2>8 DEF Safe
  <2>10. u.version = 0 + 1 /\ u.mirror = f
    BY <1>0, <1>2, <2>4, <2>5
  <2> QED BY <1>2, <2>8, <2>9, <2>10 DEF Saves
<1>3. \/ \E x \in {0, -6} : r = Refuse(x)
      \/ r = P /\ s.version = 0 /\ f # NoFiles
      \/ r = w /\ s.version = 0 /\ NoHistory(s) /\ s.snap[1] = NoFiles /\ f = NoFiles
  BY DEF SeedScript
<1>4. ASSUME NEW x \in {0, -6}, r = Refuse(x) PROVE Saves(r, s, p, l, 0, f)
  BY <1>4, RefusalSaves
<1> HIDE DEF P, w, r
<1>5. Saves(r, s, p, l, 0, f)
  BY <1>1, <1>2, <1>3, <1>4
<1> QED BY <1>5 DEF r

LEMMA GoodLater ==
    ASSUME NEW s, NEW p, NEW t, NEW q, NEW l \in BOOLEAN, NEW m \in BOOLEAN, l => m,
           Good(s, p, t, q, l)
    PROVE  Good(s, p, t, q, m)
<1>1. StoreInv(t, q, m)
  BY LossyLater DEF Good
<1> QED BY <1>1 DEF Good

\* A store that does not change may follow itself.
LEMMA GoodStutter ==
    ASSUME NEW s, NEW p, NEW l, StoreInv(s, p, l) PROVE Good(s, p, s, p, l)
<1>1. s.version <= s.version
  BY StoreFields, SMT DEF StoreInv
<1> QED BY <1>1 DEF Good, Later, Moves, SameFiles, Silent

-----------------------------------------------------------------------------
(* The first stores *)

\* A version that is named is a version.
LEMMA Named ==
    /\ \A v \in 0 .. MaxVersion : v # 0 => v \in Version
    /\ \A v \in 0 .. MaxVersion : v > 0 => v \in Version
    /\ \A v \in Version : v \in 0 .. MaxVersion /\ v > 0 /\ v # 0
    /\ ~(0 > 0) /\ 0 \in 0 .. MaxVersion
  BY StoreAssumption, SMT DEF Version

LEMMA One ==
    1 \in Version /\ 1 \in 0 .. MaxVersion /\ 0 \in 0 .. MaxVersion - 1 /\ 1 > 0 /\ 0 + 1 = 1
  BY StoreAssumption, SMT DEF Version

LEMMA Nothing == NoFiles \in Authored /\ NoMeta \in Metas
<1>1. NoFiles \in Authored
  BY DEF Authored
<1> QED BY <1>1, StoreAssumption, SMT DEF NoMeta, Metas

\* A store without history and what was published with it
Bare(s, p) ==
    /\ s.version \in {0, 1} /\ s.index = {}
    /\ s.snap = [v \in Version |-> NoFiles] /\ s.meta = [v \in Version |-> NoMeta]
    /\ p = [v \in Version |-> IF v = s.version THEN s.mirror ELSE NoFiles]

LEMMA BareStore ==
    ASSUME NEW s \in Stores, NEW p, NEW l, Bare(s, p)
    PROVE  StoreInv(s, p, l)
<1>1. s.version \in Nat /\ s.version \in {0, 1} /\ s.mirror \in Authored
  BY StoreFields DEF Bare
<1>2. p \in [Version -> Authored]
  BY <1>1, Nothing DEF Bare
<1>3. \A v \in Version : /\ s.snap[v] = NoFiles /\ s.meta[v] = NoMeta
                         /\ p[v] = IF v = s.version THEN s.mirror ELSE NoFiles
  BY DEF Bare
<1>4. /\ \A v \in 1 .. s.version : v \in Version
      /\ \A v \in s.version + 1 .. MaxVersion : v \in Version /\ v # s.version
      /\ 1 .. s.version - 1 = {}
      /\ s.version > 0 => s.version \in Version
  BY <1>1, StoreAssumption, SMT DEF Version
<1>5. \A v \in Version : ~Occupied(s, v)
  BY <1>3 DEF Occupied, Bare
<1>6. Truthful(s, p)
  BY <1>3, <1>4 DEF Truthful, Bare
<1>7. Fresh(s, p)
  BY <1>3, <1>4, <1>5 DEF Fresh
<1>8. Settled(s, p, l)
  BY <1>3, <1>4, <1>5 DEF Settled
<1>9. Retained(s, p, l)
  BY <1>4 DEF Retained
<1> QED BY <1>2, <1>6, <1>7, <1>8, <1>9 DEF StoreInv

LEMMA FirstStore ==
    ASSUME StoreInit
    PROVE  /\ store \in Stores /\ Bare(store, published) /\ clock = 0 /\ faults = 0
           /\ store.version = 0 => store.mirror = NoFiles
           /\ store.version # 0 => store.mirror \in FileSets
<1> DEFINE Blank(s) == /\ s \in Stores /\ s.snap = [v \in Version |-> NoFiles]
                       /\ s.meta = [v \in Version |-> NoMeta] /\ s.index = {}
<1>1. Blank(EmptyStore) /\ EmptyStore.version = 0 /\ EmptyStore.mirror = NoFiles
  BY Nothing, StoreAssumption, SMT DEF EmptyStore, Stores
<1>2. ASSUME NEW f \in FileSets
      PROVE  LegacyStore(f).version = 1 /\ LegacyStore(f).mirror = f /\ Blank(LegacyStore(f))
  <2> DEFINE s == [EmptyStore EXCEPT !.mirror = f]
             t == [s EXCEPT !.version = 1]
  <2>1. f \in Authored /\ 1 \in 0 .. MaxVersion
    BY One DEF Authored
  <2>2. s \in Stores /\ s.mirror = f /\ Blank(s)
    BY <1>1, <2>1, SMT DEF Stores
  <2> HIDE DEF s
  <2>3. t \in Stores /\ t.version = 1 /\ t.mirror = s.mirror /\ Blank(t)
    BY <2>1, <2>2, SMT DEF Stores
  <2>4. LegacyStore(f) = t
    BY DEF LegacyStore, s
  <2> HIDE DEF t
  <2> QED BY <2>2, <2>3, <2>4
<1> HIDE DEF Blank
<1>3. store = EmptyStore \/ \E f \in FileSets : store = LegacyStore(f)
  BY DEF StoreInit
<1>4. /\ Blank(store) /\ store.version \in {0, 1}
      /\ store.version = 0 => store.mirror = NoFiles
      /\ store.version # 0 => store.mirror \in FileSets
  <2>1. 1 # 0
    BY SMT
  <2>2. CASE store = EmptyStore
    BY <1>1, <2>2
  <2>3. CASE \E f \in FileSets : store = LegacyStore(f)
    BY <1>2, <2>1, <2>3
  <2> QED BY <1>3, <2>2, <2>3
<1> QED BY <1>4 DEF StoreInit, Bare, Blank

-----------------------------------------------------------------------------
(* The invariant of the clients *)

ServiceFields ==
    {"pc", "inconsistent", "observed", "pending", "serving", "current", "cutoff",
     "todo", "files"}

IsService(r) ==
    /\ DOMAIN r = ServiceFields
    /\ r.pending \in SUBSET (Admins \cup {Timer}) /\ r.serving \in SUBSET (Admins \cup {Timer})
    /\ r.current \in 0 .. MaxVersion /\ r.todo \in SUBSET Version /\ r.files \in Authored

ServiceInv(r) ==
    /\ IsService(r)
    /\ r.pc = "idle" <=> r.serving = {}
    /\ \A v \in r.todo : v < r.current
    /\ r.pc # "delete" => r.todo = {}
    /\ r.pc = "publish" => r.files # NoFiles
    /\ r.pc \in {"migrate", "publish"} => r.current > 0

RequestFields ==
    {"pc", "op", "srv", "base", "target", "files", "meta", "indexed", "attempt",
     "other", "rows"}

IsRequest(q) ==
    /\ DOMAIN q = RequestFields
    /\ q.base \in 0 .. MaxVersion /\ q.target \in 0 .. MaxVersion
    /\ q.files \in Authored /\ q.meta \in Metas /\ q.other \in Authored
    /\ q.rows \in SUBSET Version

\* the commands of a request belong to its kind
Staged(q) ==
    /\ q.pc \in {"version", "files", "mirror", "hash", "verify"} => q.op = "get"
    /\ q.pc = "list" => q.op = "list"
    /\ q.pc = "diff" => q.op = "diff" /\ q.base > 0
    /\ q.pc = "repairmirror" => q.op \in {"snapshot", "migration"}
    /\ q.pc = "repairmeta" => q.op = "snapshot"
    /\ q.pc = "inspect" => q.op \in {"restore", "delete"}
    /\ q.pc = "repair" => q.op \in {"snapshot", "mirror", "migration", "restore", "delete"}
    /\ q.op \in {"save", "rollback"} /\ q.pc \in {"detail", "submit"} => q.base < MaxVersion
    /\ q.op = "save" => q.files \in FileSets
    /\ q.op \in {"detail", "diff", "rollback", "restore", "delete"} => q.target > 0
    /\ q.op \in {"snapshot", "mirror", "migration"} => q.base > 0
    /\ q.pc = "repair" /\ q.op # "delete" => q.meta.hash = q.files
    /\ q.pc = "repair" /\ q.op = "migration" => q.files # NoFiles

\* what a request knows of the store
RequestInv(q, s, p) ==
    /\ IsRequest(q) /\ Staged(q)
    /\ q.base <= s.version
    /\ \A v \in q.rows : v <= s.version /\ p[v] # NoFiles
    /\ q.op = "get" /\ q.pc \in {"verify", "answered"} /\ ~Compat =>
          Known(q.base, q.files, s, p)
    /\ q.op \in {"save", "rollback"} /\ q.pc = "answered" =>
          Known(q.base + 1, q.files, s, p)
    /\ q.op \in {"rollback", "detail", "diff"} /\ q.pc \in {"diff", "answered"} =>
          Known(q.target, q.files, s, p)
    /\ q.op = "diff" /\ q.pc = "answered" => Known(q.base, q.other, s, p)

IsNode(x) ==
    /\ DOMAIN x = {"pc", "ver", "files", "degraded", "failed", "cut"}
    /\ x.ver \in 0 .. MaxVersion /\ x.files \in Authored

IsDisk(d) == DOMAIN d = {"files", "st"}

\* The state vouches at most for the files f.
Vouched(st, f) ==
    /\ \A g \in DOMAIN st.ok : st.ok[g] = NoHash \/ (g \in DOMAIN f /\ st.ok[g] = f[g])
    /\ st.ok = NoFiles \/ st.managed = f

\* what a state file, cut or not, says of the store
StateOK(st, s, p) ==
    /\ DOMAIN st = {"exists", "synced", "status", "managed", "ok"}
    /\ st.synced \in 0 .. MaxVersion /\ st.synced <= s.version
    /\ st.synced > 0 /\ ~Compat => Vouched(st, p[st.synced])

\* what a node and its disk know of the store
NodeInv(x, d, s, p) ==
    /\ IsNode(x) /\ IsDisk(d) /\ StateOK(d.st, s, p)
    /\ x.ver <= s.version
    /\ x.pc \notin {"idle", "seed"} => x.ver > 0
    /\ x.pc = "seeded" => Known(1, x.files, s, p)
    /\ x.pc \in {"verify", "apply"} /\ ~Compat => Known(x.ver, x.files, s, p)
    /\ s.version = 0 => d.files \in LocalSets \cup DriftSets

ServicesOK ==
    svc = [s \in Servers |-> svc[s]] /\ \A s \in Servers : ServiceInv(svc[s])

RequestsOK ==
    adm = [a \in Admins |-> adm[a]] /\ \A a \in Admins : RequestInv(adm[a], store, published)

NodesOK ==
    /\ node = [n \in Machines |-> node[n]] /\ disk = [n \in Machines |-> disk[n]]
    /\ \A n \in Machines : NodeInv(node[n], disk[n], store, published)

Inv ==
    /\ clock \in 0 .. MaxClock /\ faults \in Nat /\ VersionSets
    /\ StoreInv(store, published, Lossy)
    /\ ServicesOK /\ RequestsOK /\ NodesOK

-----------------------------------------------------------------------------
(* The store in a step *)

\* What a step of any process does to the store
StoreStep == Good(store, published, store', published', Lossy') /\ (Lossy => Lossy')

LEMMA SaneNow == ASSUME Inv PROVE Sane(store, published, Lossy) /\ Lossy \in BOOLEAN
  BY DEF Inv, Sane, Lossy, CanLose

LEMMA LossyGrows ==
    ASSUME faults \in Nat, faults' = faults \/ faults' = faults + 1
    PROVE  faults' \in Nat /\ (Lossy => Lossy') /\ Lossy' \in BOOLEAN
  BY SMT DEF Lossy

\* EVAL of a safe script: whatever it did before it stopped may follow.
LEMMA EvalStep ==
    ASSUME NEW r, NEW code, Inv, Safe(r, store, published, Lossy), Eval(r, code)
    PROVE  StoreStep /\ faults' \in Nat /\ clock' = clock
<1>0. faults \in Nat /\ clock' = clock /\ StoreInv(store, published, Lossy)
  BY DEF Inv, Eval
<1>1. faults' = faults \/ faults' = faults + 1
  BY DEF Eval, Fault
<1>2. Lossy \in BOOLEAN /\ Lossy' \in BOOLEAN /\ (Lossy => Lossy') /\ faults' \in Nat
  BY <1>0, <1>1, SaneNow, LossyGrows
<1>3. PICK k \in 0 .. Len(r.writes) : Written(r, k)
  <2>1. Len(r.writes) \in 0 .. Len(r.writes)
    BY SMT DEF Safe
  <2> QED BY <2>1 DEF Eval
<1>4. Good(store, published, store', published', Lossy)
  <2>1. CASE k = 0
    <3>1. store' = store /\ published' = published
      BY <1>3, <2>1 DEF Written
    <3> QED BY <1>0, <3>1, GoodStutter
  <2>2. CASE k # 0
    <3>1. k \in 1 .. Len(r.writes)
      BY <2>2, SMT DEF Safe
    <3>2. store' = r.writes[k] /\ published' = After(store, published, store')
      BY <1>3, <2>2 DEF Written, After
    <3> QED BY <3>1, <3>2 DEF Safe
  <2> QED BY <2>1, <2>2
<1> QED BY <1>0, <1>2, <1>4, GoodLater DEF StoreStep

\* A successful save, rollback or seed has published its files.
LEMMA EvalSaves ==
    ASSUME NEW r, NEW base \in 0 .. MaxVersion - 1, NEW f, NEW code,
           Inv, Saves(r, store, published, Lossy, base, f),
           Eval(r, code), code \in Replies(r), code > 0
    PROVE  Known(base + 1, f, store', published')
<1>1. ~(Error > 0)
  BY SMT DEF Error
<1>2. code = r.code /\ Written(r, Len(r.writes))
  BY <1>1 DEF Eval, Replies
<1>3. /\ store.version = base /\ store'.version = base + 1 /\ store'.mirror = f
      /\ published' = After(store, published, store')
  BY <1>2 DEF Saves, Written, After
<1>4. base + 1 # base /\ base + 1 \in Version /\ base + 1 \in 1 .. base + 1
  BY Versions, SMT
<1>5. published \in [Version -> Authored]
  BY DEF Inv, StoreInv
<1>6. published'[base + 1] = f
  BY <1>3, <1>4, <1>5 DEF After
<1> QED BY <1>3, <1>4, <1>6 DEF Known

LEMMA StoreNow ==
    ASSUME Inv
    PROVE  /\ store \in Stores /\ store.version \in Nat /\ store.version \in 0 .. MaxVersion
           /\ 0 <= store.version /\ store.version <= store.version
           /\ store.mirror \in Authored /\ store.snap \in [Version -> Authored]
           /\ store.meta \in [Version -> Metas] /\ store.index \in SUBSET Version
<1>1. store \in Stores
  BY DEF Inv, StoreInv
<1>2. store.version \in Nat
  BY <1>1, StoreFields
<1>3. 0 <= store.version /\ store.version <= store.version
  BY <1>2, SMT
<1> QED BY <1>1, <1>3, StoreFields

\* What can be read of an existing version is what was published.
LEMMA ReadIsKnown ==
    ASSUME Inv, NEW v \in Version, v <= store.version
    PROVE  /\ store.snap[v] # NoFiles => Known(v, store.snap[v], store, published)
           /\ store.meta[v] # NoMeta => Known(v, store.meta[v].hash, store, published)
           /\ v \in store.index => published[v] # NoFiles
<1>1. v \in 1 .. store.version
  BY StoreNow, Versions, SMT
<1> QED BY <1>1 DEF Inv, StoreInv, Truthful, Known

LEMMA KnownVersion ==
    ASSUME NEW s, s.version \in Nat, NEW v, NEW f, NEW p, Known(v, f, s, p)
    PROVE  v <= s.version
  BY SMT DEF Known

LEMMA MetaOfIs ==
    ASSUME Inv, NEW f \in Authored PROVE MetaOf(f) \in Metas /\ MetaOf(f).hash = f
  BY SMT DEF Inv, MetaOf, Metas

\* Heartbeats are written and removed.
LEMMA MachinesWrite ==
    ASSUME Inv, NEW h \in [Machines -> 0 .. MaxVersion],
           store' = [store EXCEPT !.machines = h], UNCHANGED <<published, faults>>
    PROVE  StoreStep /\ faults' \in Nat /\ store'.version = store.version
<1> DEFINE t == [store EXCEPT !.machines = h]
<1>1. /\ t \in Stores /\ t.version = store.version /\ t.mirror = store.mirror
      /\ t.snap = store.snap /\ t.meta = store.meta /\ t.index = store.index
  BY StoreNow, SMT DEF Stores
<1> HIDE DEF t
<1>2. \A v : SameAt(store, t, v) /\ (Complete(t, v) <=> Complete(store, v))
  BY <1>1 DEF SameAt, Complete
<1>3. OnlyAt(store, t, store.version)
  BY <1>2 DEF OnlyAt
<1>4. Settled(t, published, Lossy)
  BY <1>1, <1>2 DEF Inv, StoreInv, Settled, Kept, Occupied
<1>5. store.version > 0 =>
        /\ t.snap[store.version] \in {NoFiles, published[store.version]}
        /\ \/ t.meta[store.version] = NoMeta
           \/ t.meta[store.version].hash = published[store.version]
        /\ store.version \in t.index => published[store.version] # NoFiles
  <2>1. store.version > 0 => store.version \in 1 .. store.version
    BY StoreNow, SMT
  <2> QED BY <1>1, <2>1 DEF Inv, StoreInv, Truthful
<1>6. Good(store, published, t, published, Lossy)
  BY <1>1, <1>2, <1>3, <1>4, <1>5, SaneNow, CurrentWrite
<1>7. Lossy' = Lossy /\ store' = t /\ faults' \in Nat
  BY DEF Lossy, t, Inv
<1> QED BY <1>1, <1>6, <1>7 DEF StoreStep

\* A snapshot of the current version is deleted by mistake.
LEMMA LoseSnapshotStore ==
    ASSUME Inv, LoseSnapshot PROVE StoreStep /\ faults' \in Nat /\ clock' = clock
<1> DEFINE V == store.version
           t == [store EXCEPT !.snap = [store.snap EXCEPT ![V] = NoFiles]]
<1>0. /\ V > 0 /\ faults' = faults + 1 /\ "snapshot" \in Faults /\ store' = t
      /\ published' = published /\ clock' = clock /\ faults \in Nat
  BY DEF LoseSnapshot, Fault, Inv
<1>1. Lossy' /\ faults' \in Nat
  BY <1>0, SMT DEF Lossy
<1>2. V \in Version /\ V \in 1 .. V /\ NoFiles \in Authored
  <2>1. V \in Version
    BY <1>0, StoreNow, Named
  <2> QED BY <2>1, Numbers, Nothing
<1>3. [store.snap EXCEPT ![V] = NoFiles] \in [Version -> Authored]
  BY <1>2, StoreNow
<1>4. /\ t \in Stores /\ t.version = V /\ t.mirror = store.mirror
      /\ t.snap = [store.snap EXCEPT ![V] = NoFiles]
      /\ t.meta = store.meta /\ t.index = store.index
  BY <1>3, StoreNow, SMT DEF Stores
<1> HIDE DEF t
<1>5. t.snap[V] = NoFiles /\ \A v \in Version : v # V => t.snap[v] = store.snap[v]
  BY <1>2, <1>4, StoreNow
<1>6. \A v \in Version : v # V => SameAt(store, t, v)
  BY <1>4, <1>5 DEF SameAt
<1>7. OnlyAt(store, t, V)
  BY <1>6 DEF OnlyAt
<1>8. Settled(t, published, TRUE)
  <2>1. CASE Kept(store, V, Lossy)
    BY <1>4, <2>1 DEF Settled, Kept
  <2>2. CASE /\ store.mirror = published[V]
             /\ \A v \in Version : v > V => ~Occupied(store, v)
    <3>1. ASSUME NEW v \in Version, v > V PROVE ~Occupied(t, v)
      <4>1. v # V
        BY <3>1, StoreNow, Versions, SMT
      <4> QED BY <1>4, <1>5, <2>2, <3>1, <4>1 DEF Occupied
    <3> QED BY <1>4, <2>2, <3>1 DEF Settled
  <2> QED BY <1>0, <2>1, <2>2 DEF Inv, StoreInv, Settled
<1>9. /\ t.snap[V] \in {NoFiles, published[V]}
      /\ t.meta[V] = NoMeta \/ t.meta[V].hash = published[V]
      /\ V \in t.index => published[V] # NoFiles
  BY <1>2, <1>4, <1>5 DEF Inv, StoreInv, Truthful
<1> HIDE DEF V
<1>10. Good(store, published, t, published, TRUE)
  BY <1>0, <1>4, <1>7, <1>8, <1>9, SaneNow, CurrentWrite DEF V, CanLose
<1> QED BY <1>0, <1>1, <1>10 DEF StoreStep

-----------------------------------------------------------------------------
(* What the clients know outlives every step of the store. *)

LEMMA KnownLater ==
    ASSUME NEW s, NEW p, NEW t, NEW q, s.version \in Nat, t.version \in Nat,
           Later(s, p, t, q), NEW v, NEW f, Known(v, f, s, p)
    PROVE  Known(v, f, t, q)
<1>1. v \in 1 .. t.version
  BY SMT DEF Later, Known
<1> QED BY <1>1 DEF Later, Known

LEMMA RequestLater ==
    ASSUME NEW s, NEW p, NEW t, NEW q, s.version \in Nat, t.version \in Nat,
           Later(s, p, t, q), NEW r, RequestInv(r, s, p)
    PROVE  RequestInv(r, t, q)
<1>1. \A v, f : Known(v, f, s, p) => Known(v, f, t, q)
  BY KnownLater
<1>2. IsRequest(r) /\ Staged(r)
  BY DEF RequestInv
<1>3. r.base <= t.version
  <2>1. r.base \in Nat /\ r.base <= s.version
    BY <1>2, StoreAssumption, SMT DEF IsRequest, RequestInv
  <2> QED BY <2>1, SMT DEF Later
<1>4. \A v \in r.rows : v <= t.version /\ q[v] # NoFiles
  <2> SUFFICES ASSUME NEW v \in r.rows PROVE v <= t.version /\ q[v] # NoFiles
    OBVIOUS
  <2>1. v \in Version /\ v <= s.version /\ p[v] # NoFiles
    BY <1>2 DEF RequestInv, IsRequest
  <2>2. v \in 1 .. s.version /\ v <= t.version
    BY <2>1, Bounds DEF Later
  <2> QED BY <2>1, <2>2 DEF Later
<1> QED BY <1>1, <1>2, <1>3, <1>4 DEF RequestInv

LEMMA StateLater ==
    ASSUME NEW s, NEW p, NEW t, NEW q, s.version \in Nat, t.version \in Nat,
           Later(s, p, t, q), NEW st, StateOK(st, s, p)
    PROVE  StateOK(st, t, q)
<1> DEFINE v == st.synced
<1>1. v \in 0 .. MaxVersion /\ v \in Nat /\ v <= s.version
  BY StoreAssumption, SMT DEF StateOK
<1> HIDE DEF v
<1>2. v <= t.version /\ (v > 0 => v \in 1 .. s.version)
  BY <1>1, SMT DEF Later
<1>3. v > 0 => q[v] = p[v]
  BY <1>2 DEF Later
<1> QED BY <1>1, <1>2, <1>3 DEF StateOK, v

LEMMA NodeLater ==
    ASSUME NEW s, NEW p, NEW t, NEW q, s.version \in Nat, t.version \in Nat,
           Later(s, p, t, q), NEW x, NEW d, NodeInv(x, d, s, p)
    PROVE  NodeInv(x, d, t, q)
<1>1. \A v, f : Known(v, f, s, p) => Known(v, f, t, q)
  BY KnownLater
<1>2. x.ver <= t.version /\ (t.version = 0 => s.version = 0)
  <2>1. x.ver \in Nat /\ x.ver <= s.version
    BY StoreAssumption, SMT DEF NodeInv, IsNode
  <2> QED BY <2>1, SMT DEF Later
<1>3. StateOK(d.st, t, q)
  BY StateLater DEF NodeInv
<1> QED BY <1>1, <1>2, <1>3 DEF NodeInv

LEMMA NumbersLater ==
    ASSUME StoreStep
    PROVE  /\ store' \in Stores /\ store'.version \in Nat
           /\ Later(store, published, store', published')
           /\ StoreInv(store', published', Lossy')
<1>1. store' \in Stores
  BY DEF StoreStep, Good, StoreInv
<1>2. store'.version \in Nat
  BY <1>1, StoreFields
<1> QED BY <1>1, <1>2 DEF StoreStep, Good

LEMMA RequestsStay ==
    ASSUME Inv, StoreStep, UNCHANGED adm PROVE RequestsOK'
<1>1. /\ store.version \in Nat /\ store'.version \in Nat
      /\ Later(store, published, store', published')
  BY StoreNow, NumbersLater
<1>2. ASSUME NEW a \in Admins PROVE RequestInv(adm[a], store', published')
  <2>1. RequestInv(adm[a], store, published)
    BY DEF Inv, RequestsOK
  <2> QED BY <1>1, <2>1, RequestLater
<1> QED BY <1>2 DEF Inv, RequestsOK

LEMMA NodesStay ==
    ASSUME Inv, StoreStep, UNCHANGED syncVars PROVE NodesOK'
<1>1. /\ store.version \in Nat /\ store'.version \in Nat
      /\ Later(store, published, store', published')
  BY StoreNow, NumbersLater
<1>2. ASSUME NEW n \in Machines PROVE NodeInv(node[n], disk[n], store', published')
  <2>1. NodeInv(node[n], disk[n], store, published)
    BY DEF Inv, NodesOK
  <2> QED BY <1>1, <2>1, NodeLater
<1> QED BY <1>2 DEF Inv, NodesOK, syncVars

\* One request, or one node, goes on.
LEMMA RequestsMove ==
    ASSUME Inv, StoreStep, NEW a \in Admins, NEW q, adm' = [adm EXCEPT ![a] = q],
           RequestInv(q, store', published')
    PROVE  RequestsOK'
<1>1. /\ store.version \in Nat /\ store'.version \in Nat
      /\ Later(store, published, store', published')
  BY StoreNow, NumbersLater
<1>2. adm = [b \in Admins |-> adm[b]]
  BY DEF Inv, RequestsOK
<1>3. adm' = [b \in Admins |-> adm'[b]] /\ \A b \in Admins : adm'[b] = IF b = a THEN q ELSE adm[b]
  BY <1>2, SMT
<1>4. ASSUME NEW b \in Admins PROVE RequestInv(adm'[b], store', published')
  <2>1. CASE b = a
    BY <1>3, <2>1
  <2>2. CASE b # a
    <3>1. RequestInv(adm[b], store, published)
      BY DEF Inv, RequestsOK
    <3> QED BY <1>1, <1>3, <2>2, <3>1, RequestLater
  <2> QED BY <2>1, <2>2
<1> QED BY <1>3, <1>4 DEF RequestsOK

LEMMA NodesMove ==
    ASSUME Inv, StoreStep, NEW n \in Machines, NEW x, NEW d,
           node' = [node EXCEPT ![n] = x], disk' = [disk EXCEPT ![n] = d],
           NodeInv(x, d, store', published')
    PROVE  NodesOK'
<1>1. /\ store.version \in Nat /\ store'.version \in Nat
      /\ Later(store, published, store', published')
  BY StoreNow, NumbersLater
<1>2. node = [m \in Machines |-> node[m]] /\ disk = [m \in Machines |-> disk[m]]
  BY DEF Inv, NodesOK
<1>3. /\ node' = [m \in Machines |-> node'[m]]
      /\ \A m \in Machines : node'[m] = IF m = n THEN x ELSE node[m]
  BY <1>2, SMT
<1>4. /\ disk' = [m \in Machines |-> disk'[m]]
      /\ \A m \in Machines : disk'[m] = IF m = n THEN d ELSE disk[m]
  BY <1>2, SMT
<1>5. ASSUME NEW m \in Machines PROVE NodeInv(node'[m], disk'[m], store', published')
  <2>1. CASE m = n
    BY <1>3, <1>4, <2>1
  <2>2. CASE m # n
    <3>1. NodeInv(node[m], disk[m], store, published)
      BY DEF Inv, NodesOK
    <3>2. node'[m] = node[m] /\ disk'[m] = disk[m]
      BY <1>3, <1>4, <2>2
    <3> QED BY <1>1, <3>1, <3>2, NodeLater
  <2> QED BY <2>1, <2>2
<1> QED BY <1>3, <1>4, <1>5 DEF NodesOK

-----------------------------------------------------------------------------
(* Steps *)

LEMMA FreeFields ==
    /\ IsRequest(Free) /\ Free.pc = "idle" /\ Free.op = "none" /\ Free.base = 0
    /\ Free.target = 0 /\ Free.files = NoFiles /\ Free.meta = NoMeta /\ Free.rows = {}
  BY Nothing, Named DEF Free, IsRequest, RequestFields

LEMMA StoreRests ==
    ASSUME Inv, UNCHANGED <<store, published>>, faults' = faults \/ faults' = faults + 1
    PROVE  StoreStep /\ faults' \in Nat
<1>1. Lossy \in BOOLEAN /\ Lossy' \in BOOLEAN /\ (Lossy => Lossy') /\ faults' \in Nat
  BY SaneNow, LossyGrows DEF Inv
<1>2. Good(store, published, store, published, Lossy)
  BY GoodStutter DEF Inv
<1>3. Good(store, published, store', published', Lossy)
  BY <1>2
<1> QED BY <1>1, <1>3, GoodLater DEF StoreStep

\* Inv holds after a step, and the step is one of the store's.
Fine == Inv' /\ StoreStep

-----------------------------------------------------------------------------
(* The history service of a process *)

LEMMA Launched ==
    ASSUME NEW r, IsService(r), r.todo = {}, r.pending # {}
    PROVE  ServiceInv(LaunchHealthCheck(r))
<1> DEFINE x == LaunchHealthCheck(r)
<1>1. /\ IsService(x) /\ x.pc = "health" /\ x.serving = r.pending /\ x.todo = {}
  BY DEF LaunchHealthCheck, IsService, ServiceFields
<1> HIDE DEF x
<1>2. ServiceInv(x)
  BY <1>1 DEF ServiceInv
<1> QED BY <1>2 DEF x

LEMMA Requested ==
    ASSUME NEW r, ServiceInv(r), NEW who \in Admins \cup {Timer}
    PROVE  ServiceInv(RequestHealthCheck(r, who))
<1> DEFINE x == [r EXCEPT !.pending = r.pending \cup {who}]
<1>1. /\ IsService(x) /\ x.pc = r.pc /\ x.serving = r.serving /\ x.todo = r.todo
      /\ x.current = r.current /\ x.files = r.files /\ x.pending # {}
  BY DEF ServiceInv, IsService, ServiceFields
<1>2. RequestHealthCheck(r, who) = IF r.pc = "idle" THEN LaunchHealthCheck(x) ELSE x
  BY DEF RequestHealthCheck
<1> HIDE DEF x
<1>3. ServiceInv(x)
  BY <1>1 DEF ServiceInv
<1>4. r.pc = "idle" => x.todo = {}
  BY <1>1 DEF ServiceInv
<1> QED BY <1>1, <1>2, <1>3, <1>4, Launched

LEMMA Finished ==
    ASSUME NEW r, IsService(r)
    PROVE  ServiceInv(FinishHealthCheck(r))
<1> DEFINE x == [r EXCEPT !.pc = "idle", !.serving = {}, !.current = 0,
                          !.cutoff = 0, !.todo = {}, !.files = NoFiles]
<1>1. /\ IsService(x) /\ x.pc = "idle" /\ x.serving = {} /\ x.todo = {}
      /\ x.pending = r.pending
  BY Named, FreeFields DEF IsService, ServiceFields, IsRequest
<1>2. FinishHealthCheck(r) = IF r.pending = {} THEN x ELSE LaunchHealthCheck(x)
  BY DEF FinishHealthCheck
<1> HIDE DEF x
<1>3. ServiceInv(x)
  BY <1>1 DEF ServiceInv
<1> QED BY <1>1, <1>2, <1>3, Launched

LEMMA Marked ==
    ASSUME NEW r, IsService(r)
    PROVE  ServiceInv(MarkInconsistent(r))
<1> DEFINE x == [r EXCEPT !.inconsistent = TRUE]
<1>1. IsService(x)
  BY DEF IsService, ServiceFields
<1> HIDE DEF x
<1>2. ServiceInv(FinishHealthCheck(x))
  BY <1>1, Finished
<1> QED BY <1>2 DEF x, MarkInconsistent

\* One service goes on.
LEMMA ServicesMove ==
    ASSUME Inv, NEW s, NEW r, svc' = [svc EXCEPT ![s] = r],
           s \in Servers => ServiceInv(r)
    PROVE  ServicesOK'
<1>1. svc = [b \in Servers |-> svc[b]] /\ \A b \in Servers : ServiceInv(svc[b])
  BY DEF Inv, ServicesOK
<1>2. /\ svc' = [b \in Servers |-> svc'[b]]
      /\ \A b \in Servers : svc'[b] = IF b = s THEN r ELSE svc[b]
  BY <1>1, SMT
<1>3. \A b \in Servers : ServiceInv(svc'[b])
  BY <1>1, <1>2
<1> QED BY <1>2, <1>3 DEF ServicesOK

LEMMA ServiceNow ==
    ASSUME Inv, NEW s \in Servers PROVE ServiceInv(svc[s]) /\ IsService(svc[s])
  BY DEF Inv, ServicesOK, ServiceInv

\* A service goes on as r after a command that does not write.
LEMMA ServiceTold ==
    ASSUME Inv, NEW s \in Servers, NEW r, svc' = [svc EXCEPT ![s] = r], ServiceInv(r),
           UNCHANGED <<store, published, clock>>,
           faults' = faults \/ faults' = faults + 1, UNCHANGED <<adm, syncVars>>
    PROVE  Fine
<1>1. StoreStep /\ faults' \in Nat
  BY StoreRests
<1>2. RequestsOK' /\ NodesOK'
  BY <1>1, RequestsStay, NodesStay
<1>3. ServicesOK'
  BY ServicesMove
<1>4. clock' \in 0 .. MaxClock
  BY DEF Inv
<1> QED BY <1>1, <1>2, <1>3, <1>4, NumbersLater DEF Inv, Fine

\* A service goes on as r after a script or a command that writes.
LEMMA ServiceWrote ==
    ASSUME Inv, NEW s \in Servers, NEW r, svc' = [svc EXCEPT ![s] = r], ServiceInv(r),
           StoreStep, faults' \in Nat, clock' = clock, UNCHANGED <<adm, syncVars>>
    PROVE  Fine
<1>2. RequestsOK' /\ NodesOK'
  BY RequestsStay, NodesStay
<1>3. ServicesOK'
  BY ServicesMove
<1>4. clock' \in 0 .. MaxClock
  BY DEF Inv
<1> QED BY <1>2, <1>3, <1>4, NumbersLater DEF Inv, Fine

LEMMA TimerFiresStep ==
    ASSUME Inv, NEW s \in Servers, UNCHANGED <<adm, syncVars>>, TimerFires(s) PROVE Fine
<1> DEFINE r == RequestHealthCheck(svc[s], Timer)
<1>1. svc' = [svc EXCEPT ![s] = r] /\ UNCHANGED <<store, published, clock, faults>>
  BY DEF TimerFires, storeVars
<1>2. ServiceInv(r)
  BY ServiceNow, Requested
<1> HIDE DEF r
<1> QED BY <1>1, <1>2, ServiceTold

LEMMA MigrateLegacyStep ==
    ASSUME Inv, NEW s \in Servers, UNCHANGED <<adm, syncVars>>, MigrateLegacy(s) PROVE Fine
<1> DEFINE x == [svc[s] EXCEPT !.pc = "publish", !.files = store.mirror]
           y == MarkInconsistent(svc[s])
           r == svc[s]
<1>1. /\ UNCHANGED <<store, published, clock>>
      /\ faults' = faults \/ faults' = faults + 1
      /\ \/ store.mirror # NoFiles /\ svc' = [svc EXCEPT ![s] = x]
         \/ svc' = [svc EXCEPT ![s] = y]
      /\ svc[s].pc = "migrate"
  BY DEF MigrateLegacy, Read, Fault
<1>2. ServiceInv(y) /\ ServiceInv(r)
  BY ServiceNow, Marked
<1>3. /\ IsService(x) /\ x.pc = "publish" /\ x.serving = r.serving /\ x.todo = r.todo
      /\ x.current = r.current /\ x.files = store.mirror
  BY <1>2, StoreNow DEF ServiceInv, IsService, ServiceFields
<1>4. r.pc = "migrate"
  BY <1>1
<1> HIDE DEF x, y, r
<1>5. store.mirror # NoFiles => ServiceInv(x)
  BY <1>2, <1>3, <1>4 DEF ServiceInv
<1> QED BY <1>1, <1>2, <1>5, ServiceTold

LEMMA JudgedOK ==
    ASSUME NEW r, ServiceInv(r), r.pc = "health", NEW s, s.version \in 0 .. MaxVersion
    PROVE  ServiceInv(Judged(r, s))
<1> DEFINE seen == [r EXCEPT !.observed = Max({r.observed, s.version})]
           healthy == [seen EXCEPT !.inconsistent = FALSE]
           x == [seen EXCEPT !.pc = "migrate", !.current = s.version]
           y == [healthy EXCEPT !.pc = "candidates", !.current = s.version]
<1>1. \/ Judged(r, s) = MarkInconsistent(seen)
      \/ Judged(r, s) = x /\ Integrity(s) = "legacy"
      \/ Judged(r, s) = FinishHealthCheck(healthy)
      \/ Judged(r, s) = y
  BY DEF Judged
<1>2. Integrity(s) = "legacy" => s.version > 0
  <2>1. s.version # 0 => s.version > 0
    BY StoreAssumption, SMT
  <2> QED BY <2>1 DEF Integrity
<1>3. /\ IsService(seen) /\ seen.serving = r.serving /\ seen.todo = r.todo
  BY DEF ServiceInv, IsService, ServiceFields
<1> HIDE DEF seen
<1>4. /\ IsService(healthy) /\ healthy.serving = r.serving /\ healthy.todo = r.todo
  BY <1>3 DEF IsService, ServiceFields
<1> HIDE DEF healthy
<1>5. /\ IsService(x) /\ x.pc = "migrate" /\ x.serving = r.serving /\ x.todo = r.todo
      /\ x.current = s.version
  BY <1>3 DEF IsService, ServiceFields
<1>6. /\ IsService(y) /\ y.pc = "candidates" /\ y.serving = r.serving /\ y.todo = r.todo
      /\ y.current = s.version
  BY <1>4 DEF IsService, ServiceFields
<1> HIDE DEF x, y
<1>7. r.todo = {} /\ r.serving # {}
  BY DEF ServiceInv
<1>8. Integrity(s) = "legacy" => ServiceInv(x)
  BY <1>2, <1>5, <1>7 DEF ServiceInv
<1>9. ServiceInv(y)
  BY <1>6, <1>7 DEF ServiceInv
<1>10. ServiceInv(MarkInconsistent(seen)) /\ ServiceInv(FinishHealthCheck(healthy))
  BY <1>3, <1>4, Marked, Finished
<1> QED BY <1>1, <1>8, <1>9, <1>10

LEMMA HealthCheckStep ==
    ASSUME Inv, NEW s \in Servers, UNCHANGED <<adm, syncVars>>, HealthCheck(s) PROVE Fine
<1>0. ServiceInv(svc[s]) /\ IsService(svc[s]) /\ svc[s].pc = "health"
  BY ServiceNow DEF HealthCheck
<1>1. CASE Read(FALSE) /\ svc' = [svc EXCEPT ![s] = FinishHealthCheck(svc[s])]
  <2>1. ServiceInv(FinishHealthCheck(svc[s]))
    BY <1>0, Finished
  <2>2. UNCHANGED <<store, published, clock>> /\ (faults' = faults \/ faults' = faults + 1)
    BY <1>1 DEF Read, Fault
  <2> QED BY <1>1, <2>1, <2>2, ServiceTold
<1>2. CASE \E stale \in SUBSET {m \in Machines : store.machines[m] > 0} :
            /\ store' = [store EXCEPT !.machines =
                            [m \in Machines |-> IF m \in stale THEN 0 ELSE @[m]]]
            /\ svc' = [svc EXCEPT ![s] = Judged(@, store')]
            /\ UNCHANGED <<published, clock, faults>>
  <2>1. PICK stale :
            /\ store' = [store EXCEPT !.machines =
                  [m \in Machines |-> IF m \in stale THEN 0 ELSE store.machines[m]]]
            /\ svc' = [svc EXCEPT ![s] = Judged(svc[s], store')]
            /\ UNCHANGED <<published, clock, faults>>
    BY <1>2
  <2> DEFINE h == [m \in Machines |-> IF m \in stale THEN 0 ELSE store.machines[m]]
             r == Judged(svc[s], store')
  <2>2. store.machines \in [Machines -> 0 .. MaxVersion]
    BY StoreNow, StoreFields
  <2>3. h \in [Machines -> 0 .. MaxVersion]
    BY <2>2, Named
  <2>4. store' = [store EXCEPT !.machines = h]
    BY <2>1
  <2> HIDE DEF h
  <2>5. StoreStep /\ faults' \in Nat /\ store'.version = store.version
    BY <2>1, <2>3, <2>4, MachinesWrite
  <2>6. store'.version \in 0 .. MaxVersion
    BY <2>5, StoreNow
  <2>7. ServiceInv(r) /\ svc' = [svc EXCEPT ![s] = r]
    BY <1>0, <2>1, <2>6, JudgedOK
  <2> HIDE DEF r
  <2>8. clock' = clock
    BY <2>1
  <2> QED BY <2>5, <2>7, <2>8, ServiceWrote
<1> QED BY <1>1, <1>2 DEF HealthCheck

LEMMA PublishLegacySnapshotStep ==
    ASSUME Inv, NEW s \in Servers, UNCHANGED <<adm, syncVars>>, PublishLegacySnapshot(s)
    PROVE  Fine
<1> DEFINE r == svc[s]
           script == MigrationScript(store, r.current, MetaOf(r.files), r.files)
           x == [r EXCEPT !.pc = "health", !.files = NoFiles, !.current = 0]
           y == MarkInconsistent(r)
<1>0. ServiceInv(r) /\ IsService(r)
  BY ServiceNow
<1>1. PICK code \in Replies(script) :
        /\ Eval(script, code)
        /\ \/ svc' = [svc EXCEPT ![s] = x]
           \/ svc' = [svc EXCEPT ![s] = y]
  BY DEF PublishLegacySnapshot
<1>2. r.pc = "publish" /\ r.current \in Version /\ r.files \in Authored /\ r.files # NoFiles
  BY <1>0, Named DEF PublishLegacySnapshot, ServiceInv, IsService
<1>3. MetaOf(r.files) \in Metas /\ MetaOf(r.files).hash = r.files
  BY <1>2, MetaOfIs
<1>4. Safe(script, store, published, Lossy)
  BY <1>2, <1>3, SaneNow, MigrationSafe
<1> HIDE DEF script
<1>5. StoreStep /\ faults' \in Nat /\ clock' = clock
  BY <1>1, <1>4, EvalStep
<1>6. IsService(x) /\ x.pc = "health" /\ x.serving = r.serving /\ x.todo = r.todo
  BY <1>0, Named, FreeFields DEF IsService, ServiceFields, IsRequest
<1> HIDE DEF x
<1>7. ServiceInv(x)
  BY <1>0, <1>2, <1>6 DEF ServiceInv
<1>8. ServiceInv(y)
  BY <1>0, Marked
<1> HIDE DEF y, r
<1> QED BY <1>1, <1>5, <1>7, <1>8, ServiceWrote

LEMMA ReadGcCandidatesStep ==
    ASSUME Inv, NEW s \in Servers, UNCHANGED <<adm, syncVars>>, ReadGcCandidates(s)
    PROVE  Fine
<1> DEFINE r == svc[s]
           todo == GcCandidatesScript(store, r.current, clock)
           x == [r EXCEPT !.pc = "delete", !.todo = todo, !.cutoff = clock]
           y == FinishHealthCheck(r)
<1>0. ServiceInv(r) /\ IsService(r)
  BY ServiceNow
<1>1. /\ UNCHANGED <<store, published, clock>>
      /\ faults' = faults \/ faults' = faults + 1
      /\ svc' = [svc EXCEPT ![s] = x] \/ svc' = [svc EXCEPT ![s] = y]
      /\ r.pc = "candidates"
  BY DEF ReadGcCandidates, Read, Fault
<1>2. todo \in SUBSET Version /\ \A v \in todo : v < r.current
  BY StoreNow DEF GcCandidatesScript, Expendable
<1> HIDE DEF todo
<1>3. /\ IsService(x) /\ x.pc = "delete" /\ x.serving = r.serving /\ x.todo = todo
      /\ x.current = r.current
  BY <1>0, <1>2 DEF IsService, ServiceFields
<1>4. ServiceInv(y)
  BY <1>0, Finished
<1> HIDE DEF x, y, r
<1>5. ServiceInv(x)
  BY <1>0, <1>1, <1>2, <1>3 DEF ServiceInv
<1> QED BY <1>1, <1>4, <1>5, ServiceTold

LEMMA DeleteNextCandidateStep ==
    ASSUME Inv, NEW s \in Servers, UNCHANGED <<adm, syncVars>>, DeleteNextCandidate(s)
    PROVE  Fine
<1> DEFINE r == svc[s]
           c == Min(r.todo)
           script == GcDeleteScript(store, c, r.cutoff)
           x == [r EXCEPT !.todo = r.todo \ {c}]
           y == MarkInconsistent(r)
           z == FinishHealthCheck(r)
<1>0. ServiceInv(r) /\ IsService(r) /\ r.pc = "delete"
  BY ServiceNow DEF DeleteNextCandidate
<1>1. PICK code \in Replies(script) :
        /\ Eval(script, code)
        /\ \/ svc' = [svc EXCEPT ![s] = x]
           \/ svc' = [svc EXCEPT ![s] = y]
           \/ svc' = [svc EXCEPT ![s] = z]
  BY DEF DeleteNextCandidate
<1>2. Safe(script, store, published, Lossy)
  BY SaneNow, GcDeleteSafe
<1> HIDE DEF script, c
<1>3. StoreStep /\ faults' \in Nat /\ clock' = clock
  BY <1>1, <1>2, EvalStep
<1>4. /\ IsService(x) /\ x.pc = r.pc /\ x.serving = r.serving /\ x.todo = r.todo \ {c}
      /\ x.current = r.current
  BY <1>0 DEF IsService, ServiceFields
<1> HIDE DEF x
<1>5. ServiceInv(x)
  BY <1>0, <1>4 DEF ServiceInv
<1>6. ServiceInv(y) /\ ServiceInv(z)
  BY <1>0, Marked, Finished
<1> HIDE DEF y, z, r
<1> QED BY <1>1, <1>3, <1>5, <1>6, ServiceWrote

-----------------------------------------------------------------------------
(* Nodes *)

LEMMA NodeNow ==
    ASSUME Inv, NEW n \in Machines
    PROVE  /\ NodeInv(node[n], disk[n], store, published) /\ IsNode(node[n])
           /\ IsDisk(disk[n])
           /\ node = [node EXCEPT ![n] = node[n]] /\ disk = [disk EXCEPT ![n] = disk[n]]
<1>1. NodeInv(node[n], disk[n], store, published)
  BY DEF Inv, NodesOK
<1>2. node = [m \in Machines |-> node[m]] /\ disk = [m \in Machines |-> disk[m]]
  BY DEF Inv, NodesOK
<1>3. node = [node EXCEPT ![n] = node[n]]
  BY <1>2, SMT
<1>4. disk = [disk EXCEPT ![n] = disk[n]]
  BY <1>2, SMT
<1> QED BY <1>1, <1>3, <1>4 DEF NodeInv

\* The node n goes on as x with the disk d.
Went(n, x, d) ==
    node' = [node EXCEPT ![n] = x] /\ disk' = [disk EXCEPT ![n] = d]

\* ... after a step that leaves the store alone
Alone ==
    /\ UNCHANGED <<store, published, clock, svc, adm>>
    /\ faults' = faults \/ faults' = faults + 1

LEMMA NodeWrote ==
    ASSUME Inv, NEW n \in Machines, NEW x, NEW d, Went(n, x, d),
           NodeInv(x, d, store', published'),
           StoreStep, faults' \in Nat, clock' = clock, UNCHANGED <<svc, adm>>
    PROVE  Fine
<1>1. NodesOK'
  BY NodesMove DEF Went
<1>2. RequestsOK'
  BY RequestsStay
<1>3. ServicesOK' /\ clock' \in 0 .. MaxClock
  BY DEF Inv, ServicesOK
<1> QED BY <1>1, <1>2, <1>3, NumbersLater DEF Inv, Fine

LEMMA NodeTold ==
    ASSUME Inv, NEW n \in Machines, NEW x, NEW d, Went(n, x, d), Alone,
           NodeInv(x, d, store, published)
    PROVE  Fine
<1>1. StoreStep /\ faults' \in Nat
  BY StoreRests DEF Alone
<1>2. NodeInv(x, d, store', published') /\ clock' = clock /\ UNCHANGED <<svc, adm>>
  BY DEF Alone
<1> QED BY <1>1, <1>2, NodeWrote

\* A chain that ends leaves the disk as it is.
LEMMA IdleOK ==
    ASSUME NEW x, NEW d, NEW s, NEW p, s.version \in Nat, NodeInv(x, d, s, p)
    PROVE  NodeInv(Idle, d, s, p)
<1>1. 0 <= s.version
  BY SMT
<1>2. IsNode(Idle) /\ Idle.pc = "idle" /\ Idle.ver = 0
  BY Named, FreeFields DEF Idle, IsNode, IsRequest
<1> QED BY <1>1, <1>2 DEF NodeInv

LEMMA IdleTold ==
    ASSUME Inv, NEW n \in Machines, Went(n, Idle, disk[n]), Alone
    PROVE  Fine
  BY NodeNow, StoreNow, IdleOK, NodeTold

LEMMA SyncOnceStep ==
    ASSUME Inv, NEW n \in Machines, UNCHANGED <<svc, adm>>, SyncOnce(n) PROVE Fine
<1> DEFINE x == node[n]
           d == disk[n]
           pc == IF LocalMatches(n, store.version) THEN "beat" ELSE "files"
           y == [x EXCEPT !.pc = "seed", !.files = d.files]
           z == [x EXCEPT !.pc = pc, !.ver = store.version]
<1>0. NodeInv(x, d, store, published) /\ disk = [disk EXCEPT ![n] = d]
  BY NodeNow
<1>1. /\ Alone
      /\ \/ Went(n, x, d)
         \/ Went(n, Idle, d)
         \/ store.version = 0 /\ Went(n, y, d)
         \/ store.version # 0 /\ Went(n, z, d)
  BY NodeNow DEF SyncOnce, Read, Fault, Step, Finish, Went, Alone
<1>2. store.version # 0 => store.version > 0
  BY StoreNow, Numbers
<1>3. pc \in {"beat", "files"}
  OBVIOUS
<1> HIDE DEF pc
<1>4. store.version = 0 => IsNode(y) /\ y.pc = "seed" /\ y.ver = x.ver
  BY <1>0 DEF NodeInv, IsNode, Authored
<1>5. IsNode(z) /\ z.pc = pc /\ z.ver = store.version
  BY <1>0, StoreNow DEF NodeInv, IsNode
<1> HIDE DEF x, d, y, z
<1>6. ASSUME store.version = 0 PROVE NodeInv(y, d, store, published)
  BY <1>0, <1>4, <1>6 DEF NodeInv
<1>7. ASSUME store.version # 0 PROVE NodeInv(z, d, store, published)
  BY <1>0, <1>2, <1>3, <1>5, <1>7, StoreNow DEF NodeInv
<1>8. CASE Went(n, Idle, d)
  BY <1>1, <1>8, IdleTold DEF d
<1> QED BY <1>0, <1>1, <1>6, <1>7, <1>8, NodeTold

LEMMA SeedIfEligibleStep ==
    ASSUME Inv, NEW n \in Machines, UNCHANGED <<svc, adm>>, SeedIfEligible(n) PROVE Fine
<1> DEFINE x == node[n]
           d == disk[n]
           r == SeedScript(store, x.files, MetaOf(x.files))
           y == [x EXCEPT !.pc = "seeded", !.ver = 1]
<1>0. /\ NodeInv(x, d, store, published) /\ disk = [disk EXCEPT ![n] = d]
      /\ x.files \in Authored /\ disk' = disk
  BY NodeNow DEF NodeInv, IsNode, SeedIfEligible
<1>1. PICK code \in Replies(r) :
        /\ Eval(r, code)
        /\ IF code = 1 THEN node' = [node EXCEPT ![n] = y] ELSE node' = [node EXCEPT ![n] = Idle]
  BY DEF SeedIfEligible, Step, Finish
<1>2. MetaOf(x.files) \in Metas /\ MetaOf(x.files).hash = x.files
  BY <1>0, MetaOfIs
<1>3. Saves(r, store, published, Lossy, 0, x.files)
  BY <1>0, <1>2, SaneNow, SeedSafe
<1> HIDE DEF r
<1>4. Safe(r, store, published, Lossy)
  BY <1>3 DEF Saves
<1>5. StoreStep /\ faults' \in Nat /\ clock' = clock
  BY <1>1, <1>4, EvalStep
<1>6. /\ store.version \in Nat /\ store'.version \in Nat
      /\ Later(store, published, store', published')
  BY <1>5, StoreNow, NumbersLater
<1>7. NodeInv(x, d, store', published')
  BY <1>0, <1>6, NodeLater
<1>8. CASE code = 1
  <2>1. 0 \in 0 .. MaxVersion - 1 /\ code > 0 /\ 0 + 1 = 1
    BY <1>8, One
  <2>2. Known(0 + 1, x.files, store', published')
    BY <1>1, <1>3, <2>1, EvalSaves
  <2>3. Known(1, x.files, store', published')
    BY <2>1, <2>2
  <2>4. 1 \in 0 .. MaxVersion /\ 1 > 0 /\ 1 <= store'.version
    BY <1>6, <2>3, One, KnownVersion
  <2>5. IsNode(y) /\ y.pc = "seeded" /\ y.ver = 1 /\ y.files = x.files
    BY <1>7, <2>4 DEF NodeInv, IsNode
  <2>6. Went(n, y, d)
    BY <1>0, <1>1, <1>8 DEF Went
  <2> HIDE DEF x, d, y
  <2>7. NodeInv(y, d, store', published')
    BY <1>7, <2>3, <2>4, <2>5 DEF NodeInv
  <2> QED BY <1>5, <2>6, <2>7, NodeWrote
<1>9. CASE code # 1
  <2>1. Went(n, Idle, d)
    BY <1>0, <1>1, <1>9 DEF Went
  <2>2. NodeInv(Idle, d, store', published')
    BY <1>6, <1>7, IdleOK
  <2> HIDE DEF d
  <2> QED BY <1>5, <2>1, <2>2, NodeWrote
<1> QED BY <1>8, <1>9

\* A state that lists no file vouches for none.
LEMMA EmptyVouched ==
    ASSUME NEW st, st.ok = NoFiles, NEW f PROVE Vouched(st, f)
  BY DEF Vouched, NoFiles

\* The lines before the cut are lines of m, but for the end of the last one.
LEMMA BeginningsIs ==
    ASSUME NEW m, NEW b \in Beginnings(m)
    PROVE  /\ DOMAIN b \subseteq DOMAIN m
           /\ \A f \in DOMAIN b : b[f] = NoHash \/ b[f] = m[f]
           /\ m = NoFiles => b = NoFiles
<1> DEFINE Last(S) == {f \in S : \A g \in S : g <= f}
           Cut(S, C) == [f \in S |-> IF f \in C THEN NoHash ELSE m[f]]
<1>1. \E S \in SUBSET DOMAIN m : b \in {Cut(S, C) : C \in {{}, Last(S)}}
  BY DEF Beginnings
<1>2. PICK S \in SUBSET DOMAIN m :
        \E C \in {{}, Last(S)} : b = [f \in S |-> IF f \in C THEN NoHash ELSE m[f]]
  BY <1>1
<1>3. m = NoFiles => S = {}
  BY DEF NoFiles
<1>4. S = {} => b = NoFiles
  BY <1>2 DEF NoFiles
<1> QED BY <1>2, <1>3, <1>4

\* What is loaded of a state that was cut says no more than the whole state.
LEMMA ShortOK ==
    ASSUME NEW s, s.version \in Nat, NEW p, NEW st, StateOK(st, s, p), NEW t \in ShortStates(st)
    PROVE  StateOK(t, s, p)
<1>0. /\ DOMAIN st = {"exists", "synced", "status", "managed", "ok"}
      /\ st.synced \in 0 .. MaxVersion /\ st.synced <= s.version
  BY DEF StateOK
<1>1. ASSUME NEW v \in Shorter(st.synced) PROVE v \in 0 .. MaxVersion /\ v <= s.version
  <2> DEFINE w == st.synced
  <2>1. v \in 0 .. w /\ w \in 0 .. MaxVersion /\ w <= s.version
    BY <1>0 DEF Shorter
  <2> HIDE DEF w
  <2> QED BY <2>1, StoreAssumption, SMT
<1>2. ASSUME DOMAIN t = {"exists", "synced", "status", "managed", "ok"}, t.ok = NoFiles,
             t.synced \in Shorter(st.synced) \cup {st.synced}
      PROVE  StateOK(t, s, p)
  BY <1>0, <1>1, <1>2, EmptyVouched DEF StateOK
<1>3. ASSUME NEW v \in Shorter(st.synced), t = [NoState EXCEPT !.exists = TRUE, !.synced = v]
      PROVE  StateOK(t, s, p)
  <2>1. DOMAIN t = {"exists", "synced", "status", "managed", "ok"} /\ t.ok = NoFiles /\ t.synced = v
    BY <1>3 DEF NoState
  <2> QED BY <1>2, <1>3, <2>1
<1>4. ASSUME t = [NoState EXCEPT !.exists = TRUE, !.synced = st.synced, !.status = "cut"]
      PROVE  StateOK(t, s, p)
  <2>1. /\ DOMAIN t = {"exists", "synced", "status", "managed", "ok"}
        /\ t.ok = NoFiles /\ t.synced = st.synced
    BY <1>4 DEF NoState
  <2> QED BY <1>2, <2>1
<1>5. ASSUME NEW m, t = [st EXCEPT !.managed = m, !.ok = NoFiles]
      PROVE  StateOK(t, s, p)
  <2>1. /\ DOMAIN t = {"exists", "synced", "status", "managed", "ok"}
        /\ t.ok = NoFiles /\ t.synced = st.synced
    BY <1>0, <1>5
  <2> QED BY <1>2, <2>1
<1>6. ASSUME NEW m \in Beginnings(st.ok), t = [st EXCEPT !.ok = m]
      PROVE  StateOK(t, s, p)
  <2>1. /\ DOMAIN t = {"exists", "synced", "status", "managed", "ok"}
        /\ t.ok = m /\ t.managed = st.managed /\ t.synced = st.synced
    BY <1>0, <1>6
  <2>2. ASSUME NEW f, Vouched(st, f) PROVE Vouched(t, f)
    <3>1. /\ DOMAIN m \subseteq DOMAIN st.ok
          /\ \A g \in DOMAIN m : m[g] = NoHash \/ m[g] = st.ok[g]
          /\ st.ok = NoFiles => m = NoFiles
      BY BeginningsIs
    <3> QED BY <2>1, <2>2, <3>1 DEF Vouched
  <2> QED BY <1>0, <2>1, <2>2 DEF StateOK
<1> QED BY <1>3, <1>4, <1>5, <1>6 DEF ShortStates

\* The node goes on as x after it has written the state file, whatever became of it.
LEMMA NodeSaved ==
    ASSUME Inv, NEW n \in Machines, NEW x, NodeInv(x, disk[n], store, published),
           node' = [node EXCEPT ![n] = x], UNCHANGED <<store, published, clock, svc, adm>>,
           NEW st, StateOK(st, store, published), NEW done, WriteState(n, st, done)
    PROVE  Fine
<1>1. Alone
  BY DEF WriteState, Fault, Alone
<1>2. ASSUME NEW t, StateOK(t, store, published), disk' = [disk EXCEPT ![n].st = t]
      PROVE  Fine
  <2> DEFINE d == [disk[n] EXCEPT !.st = t]
  <2>1. IsDisk(d) /\ d.files = disk[n].files /\ d.st = t
    BY NodeNow DEF IsDisk
  <2>2. Went(n, x, d)
    BY <1>2 DEF Went
  <2> HIDE DEF d
  <2>3. NodeInv(x, d, store, published)
    BY <1>2, <2>1 DEF NodeInv
  <2> QED BY <1>1, <2>2, <2>3, NodeTold
<1>3. ASSUME disk' = disk PROVE Fine
  <2>1. Went(n, x, disk[n])
    BY <1>3, NodeNow DEF Went
  <2> QED BY <1>1, <2>1, NodeTold
<1>4. \A t \in ShortStates(st) : StateOK(t, store, published)
  BY StoreNow, ShortOK
<1> QED BY <1>2, <1>3, <1>4 DEF WriteState

\* The state of a node that applied the version v, and an old state marked partial
LEMMA CleanOK ==
    ASSUME NEW s, NEW p, NEW v \in 0 .. MaxVersion, v <= s.version, NEW f, NEW degraded,
           ~Compat => f = p[v]
    PROVE  StateOK(Clean(v, f, degraded), s, p)
<1> DEFINE st == Clean(v, f, degraded)
<1>1. /\ DOMAIN st = {"exists", "synced", "status", "managed", "ok"}
      /\ st.synced = v /\ st.managed = f /\ st.ok = f
  BY DEF Clean
<1> HIDE DEF st
<1>2. Vouched(st, f)
  BY <1>1 DEF Vouched
<1>3. StateOK(st, s, p)
  BY <1>1, <1>2 DEF StateOK
<1> QED BY <1>3 DEF st

LEMMA PartialOK ==
    ASSUME NEW s, NEW p, NEW old, StateOK(old, s, p)
    PROVE  StateOK([old EXCEPT !.exists = TRUE, !.status = "partial"], s, p)
<1> DEFINE st == [old EXCEPT !.exists = TRUE, !.status = "partial"]
<1>1. /\ DOMAIN st = {"exists", "synced", "status", "managed", "ok"}
      /\ st.synced = old.synced /\ st.managed = old.managed /\ st.ok = old.ok
  BY DEF StateOK
<1> HIDE DEF st
<1>2. \A f : Vouched(old, f) => Vouched(st, f)
  BY <1>1 DEF Vouched
<1>3. StateOK(st, s, p)
  BY <1>1, <1>2 DEF StateOK
<1> QED BY <1>3 DEF st

LEMMA WriteSeededStateStep ==
    ASSUME Inv, NEW n \in Machines, UNCHANGED <<svc, adm>>, WriteSeededState(n) PROVE Fine
<1> DEFINE x == node[n]
           st == Clean(1, x.files, FALSE)
           y == [x EXCEPT !.pc = "beat"]
<1>0. NodeInv(x, disk[n], store, published)
  BY NodeNow
<1>1. PICK done \in BOOLEAN :
        /\ WriteState(n, st, done)
        /\ node' = [node EXCEPT ![n] = y] \/ node' = [node EXCEPT ![n] = Idle]
  BY DEF WriteSeededState, Step, Finish
<1>2. x.pc = "seeded" /\ UNCHANGED <<store, published, clock, svc, adm>>
  BY DEF WriteSeededState
<1>3. Known(1, x.files, store, published)
  BY <1>0, <1>2 DEF NodeInv
<1>4. 1 \in 0 .. MaxVersion /\ 1 <= store.version
  BY <1>3, One, StoreNow, KnownVersion
<1>5. StateOK(st, store, published)
  BY <1>3, <1>4, CleanOK DEF Known
<1>6. IsNode(y) /\ y.pc = "beat" /\ y.ver = x.ver
  BY <1>0 DEF NodeInv, IsNode
<1> HIDE DEF x, y, st
<1>7. NodeInv(y, disk[n], store, published)
  BY <1>0, <1>2, <1>6 DEF NodeInv
<1>8. NodeInv(Idle, disk[n], store, published)
  BY <1>0, StoreNow, IdleOK
<1> QED BY <1>1, <1>2, <1>5, <1>7, <1>8, NodeSaved

LEMMA RecordHistoryFailureStep ==
    ASSUME Inv, NEW n \in Machines, UNCHANGED <<svc, adm>>, RecordHistoryFailure(n) PROVE Fine
<1> DEFINE x == node[n]
           st == [disk[n].st EXCEPT !.exists = TRUE, !.status = "partial"]
           y == [x EXCEPT !.pc = "beat"]
<1>0. NodeInv(x, disk[n], store, published)
  BY NodeNow
<1>1. PICK done \in BOOLEAN : WriteState(n, st, done)
  BY DEF RecordHistoryFailure
<1>2. /\ x.pc = "record" /\ node' = [node EXCEPT ![n] = y]
      /\ UNCHANGED <<store, published, clock, svc, adm>>
  BY DEF RecordHistoryFailure, Step
<1>3. StateOK(st, store, published)
  BY <1>0, PartialOK DEF NodeInv
<1>4. IsNode(y) /\ y.pc = "beat" /\ y.ver = x.ver
  BY <1>0 DEF NodeInv, IsNode
<1> HIDE DEF x, y, st
<1>5. NodeInv(y, disk[n], store, published)
  BY <1>0, <1>2, <1>4 DEF NodeInv
<1> QED BY <1>1, <1>2, <1>3, <1>5, NodeSaved

LEMMA ReadRemoteFilesStep ==
    ASSUME Inv, NEW n \in Machines, UNCHANGED <<svc, adm>>, ReadRemoteFiles(n) PROVE Fine
<1> DEFINE x == node[n]
           d == disk[n]
           f == store.snap[x.ver]
           y == [x EXCEPT !.pc = "mirror"]
           z == [x EXCEPT !.pc = "hash", !.files = f]
<1>0. NodeInv(x, d, store, published) /\ disk = [disk EXCEPT ![n] = d]
  BY NodeNow
<1>1. Alone /\ x.pc = "files" /\ (Went(n, Idle, d) \/ Went(n, y, d) \/ Went(n, z, d))
  BY <1>0 DEF ReadRemoteFiles, Read, Fault, Step, Finish, Went, Alone
<1>2. x.ver \in Version /\ f \in Authored
  BY <1>0, <1>1, Named, StoreNow DEF NodeInv, IsNode
<1> HIDE DEF f
<1>3. IsNode(y) /\ y.pc = "mirror" /\ y.ver = x.ver
  BY <1>0 DEF NodeInv, IsNode
<1>4. IsNode(z) /\ z.pc = "hash" /\ z.ver = x.ver
  BY <1>0, <1>2 DEF NodeInv, IsNode
<1> HIDE DEF x, y, z, d
<1>5. NodeInv(y, d, store, published) /\ NodeInv(z, d, store, published)
  BY <1>0, <1>1, <1>3, <1>4 DEF NodeInv
<1>6. CASE Went(n, Idle, d)
  BY <1>1, <1>6, IdleTold DEF d
<1> QED BY <1>1, <1>5, <1>6, NodeTold

LEMMA ReadCurrentMirrorStep ==
    ASSUME Inv, NEW n \in Machines, UNCHANGED <<svc, adm>>, ReadCurrentMirror(n) PROVE Fine
<1> DEFINE x == node[n]
           d == disk[n]
           pc == IF Compat THEN "verify" ELSE "hash"
           y == [x EXCEPT !.pc = pc, !.degraded = ~Compat, !.files = store.mirror]
           z == [x EXCEPT !.pc = "record"]
<1>0. NodeInv(x, d, store, published) /\ disk = [disk EXCEPT ![n] = d]
  BY NodeNow
<1>1. Alone /\ x.pc = "mirror" /\ (Went(n, y, d) \/ Went(n, z, d))
  BY <1>0 DEF ReadCurrentMirror, Read, Fault, Step, Went, Alone
<1>2. pc \in {"verify", "hash"} /\ (~Compat => pc = "hash")
  OBVIOUS
<1> HIDE DEF pc
<1>3. IsNode(y) /\ y.pc = pc /\ y.ver = x.ver
  BY <1>0, StoreNow DEF NodeInv, IsNode
<1>4. IsNode(z) /\ z.pc = "record" /\ z.ver = x.ver
  BY <1>0 DEF NodeInv, IsNode
<1> HIDE DEF x, y, z, d
<1>5. NodeInv(y, d, store, published) /\ NodeInv(z, d, store, published)
  BY <1>0, <1>1, <1>2, <1>3, <1>4 DEF NodeInv
<1> QED BY <1>1, <1>5, NodeTold

LEMMA VerifySnapshotHashStep ==
    ASSUME Inv, NEW n \in Machines, UNCHANGED <<svc, adm>>, VerifySnapshotHash(n) PROVE Fine
<1> DEFINE x == node[n]
           d == disk[n]
           y == [x EXCEPT !.pc = "verify"]
           z == [x EXCEPT !.pc = "record", !.files = NoFiles, !.degraded = FALSE]
<1>0. NodeInv(x, d, store, published) /\ disk = [disk EXCEPT ![n] = d]
  BY NodeNow
<1>1. /\ Alone /\ x.pc = "hash"
      /\ \/ /\ store.meta[x.ver] # NoMeta /\ store.meta[x.ver].hash = x.files
            /\ Went(n, y, d)
         \/ Went(n, z, d)
  BY <1>0 DEF VerifySnapshotHash, HashMatches, Read, Fault, Step, Went, Alone
<1>2. x.ver \in Version /\ x.ver <= store.version
  BY <1>0, <1>1, Named DEF NodeInv, IsNode
<1>3. IsNode(y) /\ y.pc = "verify" /\ y.ver = x.ver /\ y.files = x.files
  BY <1>0 DEF NodeInv, IsNode
<1>4. IsNode(z) /\ z.pc = "record" /\ z.ver = x.ver
  BY <1>0, FreeFields DEF NodeInv, IsNode, IsRequest
<1> HIDE DEF x, y, z, d
<1>5. ASSUME store.meta[x.ver] # NoMeta, store.meta[x.ver].hash = x.files
      PROVE  NodeInv(y, d, store, published)
  <2>1. Known(x.ver, x.files, store, published)
    BY <1>2, <1>5, ReadIsKnown
  <2> QED BY <1>0, <1>1, <1>3, <2>1 DEF NodeInv
<1>6. NodeInv(z, d, store, published)
  BY <1>0, <1>1, <1>4 DEF NodeInv
<1> QED BY <1>1, <1>5, <1>6, NodeTold

LEMMA VerifyRemoteVersionStep ==
    ASSUME Inv, NEW n \in Machines, UNCHANGED <<svc, adm>>, VerifyRemoteVersion(n) PROVE Fine
<1> DEFINE x == node[n]
           d == disk[n]
           y == [x EXCEPT !.pc = "apply", !.failed = Unfit(n)]
<1>0. NodeInv(x, d, store, published) /\ disk = [disk EXCEPT ![n] = d]
  BY NodeNow
<1>1. Alone /\ x.pc = "verify" /\ (Went(n, Idle, d) \/ Went(n, y, d))
  BY <1>0 DEF VerifyRemoteVersion, Read, Fault, Step, Finish, Went, Alone
<1>2. IsNode(y) /\ y.pc = "apply" /\ y.ver = x.ver /\ y.files = x.files
  BY <1>0 DEF NodeInv, IsNode
<1> HIDE DEF x, y, d
<1>3. NodeInv(y, d, store, published)
  BY <1>0, <1>1, <1>2 DEF NodeInv
<1>4. CASE Went(n, Idle, d)
  BY <1>1, <1>4, IdleTold DEF d
<1> QED BY <1>1, <1>3, <1>4, NodeTold

\* A chain that has read a version finds one in the store.
LEMMA VersionExists ==
    ASSUME Inv, NEW n \in Machines, node[n].pc \notin {"idle", "seed"}
    PROVE  store.version # 0
<1>1. node[n].ver > 0 /\ node[n].ver <= store.version /\ node[n].ver \in 0 .. MaxVersion
  BY NodeNow DEF NodeInv, IsNode
<1> QED BY <1>1, StoreNow, Numbers

LEMMA ApplyFileStep ==
    ASSUME Inv, NEW n \in Machines, UNCHANGED <<svc, adm>>, ApplyFile(n) PROVE Fine
<1> DEFINE x == node[n]
           f == Min(Pending(n))
           D(whole) == [disk[n] EXCEPT !.files = Replaced(n, f, whole)]
           y == [x EXCEPT !.failed = x.failed \cup {f}]
           z == [x EXCEPT !.cut = x.cut \cup {f}]
<1>0. /\ NodeInv(x, disk[n], store, published)
      /\ node = [node EXCEPT ![n] = x] /\ disk = [disk EXCEPT ![n] = disk[n]]
  BY NodeNow
<1>1. /\ x.pc = "apply" /\ Alone
      /\ Went(n, x, D(TRUE)) \/ Went(n, z, D(FALSE)) \/ Went(n, y, disk[n])
  BY <1>0 DEF ApplyFile, Fault, Step, Went, Alone
<1> HIDE DEF f
<1>2. \A whole \in BOOLEAN : IsDisk(D(whole)) /\ D(whole).st = disk[n].st
  BY <1>0 DEF NodeInv, IsDisk
<1>3. /\ IsNode(y) /\ y.pc = "apply" /\ y.ver = x.ver /\ y.files = x.files
      /\ IsNode(z) /\ z.pc = "apply" /\ z.ver = x.ver /\ z.files = x.files
  BY <1>0, <1>1 DEF NodeInv, IsNode
<1>4. store.version # 0
  BY <1>1, VersionExists
<1> HIDE DEF x, y, z, D
<1>5. NodeInv(y, disk[n], store, published) /\ NodeInv(z, disk[n], store, published)
  BY <1>0, <1>1, <1>3 DEF NodeInv
<1>6. NodeInv(x, D(TRUE), store, published)
  BY <1>0, <1>2, <1>4 DEF NodeInv
<1>7. NodeInv(z, D(FALSE), store, published)
  BY <1>2, <1>4, <1>5 DEF NodeInv
<1> QED BY <1>1, <1>5, <1>6, <1>7, NodeTold

LEMMA WriteAppliedStateStep ==
    ASSUME Inv, NEW n \in Machines, UNCHANGED <<svc, adm>>, WriteAppliedState(n) PROVE Fine
<1> DEFINE x == node[n]
           st == AppliedState(n)
           y == [x EXCEPT !.pc = "beat", !.files = NoFiles, !.failed = {}, !.cut = {},
                          !.degraded = FALSE]
<1>0. NodeInv(x, disk[n], store, published)
  BY NodeNow
<1>1. PICK done \in BOOLEAN : WriteState(n, st, done)
  BY DEF WriteAppliedState
<1>2. /\ x.pc = "apply" /\ node' = [node EXCEPT ![n] = y]
      /\ UNCHANGED <<store, published, clock, svc, adm>>
  BY DEF WriteAppliedState, Step
<1>3. StateOK(st, store, published)
  <2>1. StateOK([disk[n].st EXCEPT !.exists = TRUE, !.status = "partial"], store, published)
    BY <1>0, PartialOK DEF NodeInv
  <2>2. /\ x.ver \in 0 .. MaxVersion /\ x.ver <= store.version
        /\ ~Compat => x.files = published[x.ver]
    BY <1>0, <1>2 DEF NodeInv, IsNode, Known
  <2>3. StateOK(Clean(x.ver, x.files, x.degraded), store, published)
    BY <2>2, CleanOK
  <2> QED BY <2>1, <2>3 DEF AppliedState
<1>4. IsNode(y) /\ y.pc = "beat" /\ y.ver = x.ver
  BY <1>0, FreeFields DEF NodeInv, IsNode, IsRequest
<1> HIDE DEF x, y, st
<1>5. NodeInv(y, disk[n], store, published)
  BY <1>0, <1>2, <1>4 DEF NodeInv
<1> QED BY <1>1, <1>2, <1>3, <1>5, NodeSaved

LEMMA HeartbeatStep ==
    ASSUME Inv, NEW n \in Machines, UNCHANGED <<svc, adm>>, Heartbeat(n) PROVE Fine
<1> DEFINE d == disk[n]
           h == [store.machines EXCEPT ![n] = node[n].ver]
<1>0. NodeInv(node[n], d, store, published) /\ disk = [disk EXCEPT ![n] = d]
  BY NodeNow
<1>1. /\ Went(n, Idle, d)
      /\ \/ Alone
         \/ store' = [store EXCEPT !.machines = h] /\ UNCHANGED <<published, clock, faults>>
  BY <1>0 DEF Heartbeat, Read, Fault, Finish, Went, Alone
<1>2. CASE Alone
  BY <1>1, <1>2, IdleTold
<1>3. CASE store' = [store EXCEPT !.machines = h] /\ UNCHANGED <<published, clock, faults>>
  <2>1. store.machines \in [Machines -> 0 .. MaxVersion] /\ node[n].ver \in 0 .. MaxVersion
    BY StoreNow, StoreFields, NodeNow DEF IsNode
  <2>2. h \in [Machines -> 0 .. MaxVersion]
    BY <2>1
  <2> HIDE DEF h
  <2>3. StoreStep /\ faults' \in Nat /\ clock' = clock
    BY <1>3, <2>2, MachinesWrite
  <2>4. /\ store.version \in Nat /\ store'.version \in Nat
        /\ Later(store, published, store', published')
    BY <2>3, StoreNow, NumbersLater
  <2>5. NodeInv(node[n], d, store', published')
    BY <1>0, <2>4, NodeLater
  <2>6. NodeInv(Idle, d, store', published')
    BY <2>4, <2>5, IdleOK
  <2> HIDE DEF d
  <2> QED BY <1>1, <2>3, <2>6, NodeWrote
<1> QED BY <1>1, <1>2, <1>3

LEMMA CrashStep ==
    ASSUME Inv, NEW n \in Machines, UNCHANGED <<svc, adm>>, Crash(n) PROVE Fine
<1>1. Alone /\ Went(n, Idle, disk[n])
  BY NodeNow DEF Crash, Fault, Finish, Went, Alone
<1> QED BY <1>1, IdleTold

LEMMA DriftStep ==
    ASSUME Inv, NEW n \in Machines, UNCHANGED <<svc, adm>>, Drift(n) PROVE Fine
<1> DEFINE x == node[n]
<1>0. /\ NodeInv(x, disk[n], store, published) /\ node = [node EXCEPT ![n] = x]
  BY NodeNow
<1>1. PICK f \in DriftSets : disk' = [disk EXCEPT ![n].files = f]
  BY DEF Drift
<1> DEFINE d == [disk[n] EXCEPT !.files = f]
<1>2. Alone /\ Went(n, x, d)
  BY <1>0, <1>1 DEF Drift, Fault, Went, Alone
<1>3. IsDisk(d) /\ d.st = disk[n].st /\ d.files = f
  BY <1>0 DEF NodeInv, IsDisk
<1> HIDE DEF x, d
<1>4. NodeInv(x, d, store, published)
  BY <1>0, <1>3 DEF NodeInv
<1> QED BY <1>2, <1>4, NodeTold
=============================================================================
