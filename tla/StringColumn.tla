---------------------------- MODULE StringColumn ----------------------------
(***************************************************************************)
(* What a stored string column promises to its writers and readers,        *)
(* whatever stands in its extents.  A statement has the extents there were *)
(* when it began, and its own, and they do not change under it; it reads   *)
(* each as the cells it was written from.  Founders alone (the engines the *)
(* implementation says are) may miss values; those they read are right.    *)
(* SharedDict implements this with dictionary codes.                       *)
(***************************************************************************)

CONSTANTS
    Proc,      \* engines
    Cell,      \* what may be written
    Shown(_),  \* what a cell is read as
    Lost       \* a value that cannot be read

VARIABLES
    written,   \* the extents: functions from the cells written to their values
    snapshot,  \* per engine: the extents its statement has
    seen,      \* per engine: what it reads them as
    founder    \* per engine: whether it is a founder

\* The values of extents.
Extents == {[v \in W |-> Shown(v)] : W \in (SUBSET Cell) \ {{}}}

\* y is x but for values lost.
Misses(x, y) ==
    /\ DOMAIN y = DOMAIN x
    /\ \A v \in DOMAIN x : y[v] \in {x[v], Lost}

Reads(p) ==
    IF founder[p]
    THEN /\ \A x \in snapshot[p] : \E y \in seen[p] : Misses(x, y)
         /\ \A y \in seen[p] : \E x \in snapshot[p] : Misses(x, y)
    ELSE seen[p] = snapshot[p]

AllRead == \A p \in Proc : Reads(p)

Init ==
    /\ written = {}
    /\ snapshot = [p \in Proc |-> {}]
    /\ founder = [p \in Proc |-> FALSE]
    /\ AllRead

\* A statement begins, or ends.
Turn(p) ==
    /\ UNCHANGED written
    /\ snapshot' \in {[snapshot EXCEPT ![p] = V] : V \in {written, {}}}

Append(p) ==
    \E x \in snapshot'[p] :
        /\ x \in Extents
        /\ written' = written \cup {x}
        /\ snapshot' = [snapshot EXCEPT ![p] = @ \cup {x}]

\* Engines learn and forget values, and read.
Rest == UNCHANGED <<written, snapshot>>

Next == (Rest \/ \E p \in Proc : Turn(p) \/ Append(p)) /\ AllRead'

Spec == Init /\ [][Next]_<<written, snapshot, seen, founder>>
=============================================================================
