---------------------------- MODULE MCScopeStore ----------------------------
(* Instances of ScopeStore for TLC. *)
EXTENDS ScopeStore, TLC

On(k, t) == [kind |-> k, over |-> "one", tables |-> {t}]

OnAll(k) == [kind |-> k, over |-> "all", tables |-> {}]

\* Every command on one table, a statement each.
OneCommand == {<<On(k, t)>> : k \in Kind, t \in Table}

\* Every command on one table but those that only add a schema file.
Faulty ==
    {<<On(k, t)>> : k \in Kind \ {"create", "extend"}, t \in Table}

\* The commands that loop over files others may take away.
Maintenance ==
    {<<On(k, t)>> : k \in {"query", "append", "extend", "compact", "drop", "gc"}, t \in Table}

\* Scripts of two commands (one lock, one refresh), on one table or two,
\* statements over all tables, and plain ones.
Sessions ==
    LET T == CHOOSE t \in Table : TRUE
        U == CHOOSE u \in Table : u # T
    IN {<<On("append", T), On("compact", T)>>,
        <<On("delete", T), On("append", U)>>,
        <<On("replace", T), On("query", T)>>,
        <<On("query", T)>>, <<On("drop", U)>>, <<OnAll("compact")>>}

\* One table's name begins the other's (Log and Log_Archive).
LongerName == LET t == CHOOSE t \in Table : TRUE IN {<<t, u>> : u \in Table \ {t}}

DataSymmetry == Permutations(File) \cup Permutations(Row)

FullSymmetry == DataSymmetry \cup Permutations(Proc)
=============================================================================
