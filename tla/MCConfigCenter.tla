---------------------------- MODULE MCConfigCenter ---------------------------
(* Instances of ConfigCenter for TLC.                                      *)
EXTENDS ConfigCenter

CONSTANTS a1, a2, srv, n1, n2, fa, fb

\* Files are numbered.  Nodes are installed with two files; the set that is
\* published changes one of them and removes the other.
Installed == (1 :> "i") @@ (2 :> "i")
Saved == (1 :> "s")

MCFileSets == {Saved}
MCLocalSets == {Installed}

\* Somebody puts the published files in place by hand, alone or with a file of
\* a name that is not fit to be managed, or a file of such a content.
MCRefused == {"x"}
MCStray == {3}
MCDriftSets == {Saved, Saved @@ (3 :> "s"), (1 :> "x")}

\* In the store instance one administrator reads the history, rolls back and
\* repairs while the other saves and resolves orphans.
StoreOps == (a1 :> {"get", "list", "detail", "diff", "rollback", "snapshot", "mirror"})
            @@ (a2 :> {"save", "restore", "delete"})
NodeOps == (a1 :> {"get", "save", "restore", "delete"})

\* In the store instance a set of files is opaque.
StoreSymmetry == Permutations(FileSets)
=============================================================================
