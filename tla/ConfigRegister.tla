--------------------------- MODULE ConfigRegister ----------------------------
(***************************************************************************)
(* What the configuration centre promises its clients: a register whose    *)
(* versions are published one after the other and whose old versions stay  *)
(* readable, as they were published, until they are forgotten.             *)
(***************************************************************************)
EXTENDS Naturals

CONSTANTS
    Contents,   \* the sets of files that may be published
    CanLose     \* the current snapshot may get lost, until it is repaired

VARIABLES
    version,    \* the current version, 0 before the first
    content,    \* what was published, by version
    history     \* what can be read, by version

vars == <<version, content, history>>

Put(f, v, x) == [w \in DOMAIN f \cup {v} |-> IF w = v THEN x ELSE f[w]]
Drop(f, v) == [w \in DOMAIN f \ {v} |-> f[w]]

Init ==
    /\ version \in {0, 1}
    /\ history = [v \in {} |-> v]
    /\ IF version = 0 THEN content = history
                      ELSE \E x \in Contents : content = Put(history, 1, x)

\* Exactly one successor of a version is ever published, and what it replaces
\* can be read, unless it got lost.
Publish(x) ==
    /\ version' = version + 1
    /\ version \in DOMAIN history \cup {0} \/ CanLose
    /\ content' = Put(content, version + 1, x)
    /\ history' = Put(history, version + 1, x)

\* an installation without files starts at version 1 without history
PublishNothing ==
    /\ version = 0
    /\ version' = 1
    /\ UNCHANGED <<content, history>>

\* the current version becomes readable: migrated, or repaired
Archive ==
    /\ version \in DOMAIN content \ DOMAIN history
    /\ history' = Put(history, version, content[version])
    /\ UNCHANGED <<version, content>>

Forget(v) ==
    /\ v < version \/ (CanLose /\ v = version)
    /\ history' = Drop(history, v)
    /\ UNCHANGED <<version, content>>

Next ==
    \/ \E x \in Contents : Publish(x)
    \/ PublishNothing
    \/ Archive
    \/ \E v \in DOMAIN history : Forget(v)

Spec == Init /\ [][Next]_vars
=============================================================================
