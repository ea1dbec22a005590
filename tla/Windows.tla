-------------------------------- MODULE Windows --------------------------------
(***************************************************************************)
(* Window functions: what a row's expression reads of other rows           *)
(* (window.go).  computeColumn evaluates their arguments on every row      *)
(* before it goes down the rows.                                           *)
(***************************************************************************)
EXTENDS Expressions, FiniteSetsExt

\* sameValue starts a run where the value is not that of the row before.
Changes(values, from, to) == {j \in from + 1 .. to : values[j] # values[j - 1]}

\* row_window_session: a value's session starts at the first value that has not come
\* distance from it, nor apart from the one before; a null ends it.  Distances are
\* taken for timespans, of 100 ns.
Sessions(values, distance, apart, restarts) ==
  LET step(open, i) ==
        LET v == values[i]
            began == IF open.from # Null /\ ~restarts[i]
                     THEN v >= open.from + distance[i] * 100 \/ v >= open.last + apart[i] * 100
                     ELSE TRUE
        IN  IF v = Null THEN [from |-> Null, last |-> Null]
            ELSE [from |-> IF began THEN v ELSE open.from, last |-> v]
  IN  FoldLeft(LAMBDA s, i : Append(s, step(s[Len(s)], i)), <<[from |-> Null, last |-> Null]>>,
               [i \in DOMAIN values |-> i])

\* windowAt and computeColumn, from the values of the arguments on every row: prev
\* and next read another row, the others everything since the last restart, which is
\* their last argument.
WindowAt(fn, args, rows, i) ==
  LET since(k) == Max({1} \cup {j \in 1..i : k \in DOMAIN args /\ args[k][j] = TRUE})
      offset == IF Len(args) < 2 THEN 1 ELSE args[2][i]
      at == IF fn = "next" THEN i + offset ELSE i - offset
  IN  CASE fn \in {"prev", "next"} ->
             IF at \in DOMAIN rows THEN args[1][at] ELSE IF Len(args) = 3 THEN args[3][i] ELSE Null
        [] fn = "row_number" -> (IF args = << >> THEN 1 ELSE args[1][1]) + i - since(2)
        [] fn = "row_cumsum" ->
             MapThenSumSet(LAMBDA j : args[1][j], {j \in since(2)..i : args[1][j] # Null})
        [] fn = "row_rank_dense" -> 1 + Cardinality(Changes(args[1], since(2), i))
        [] fn = "row_rank_min" -> Max({since(2)} \cup Changes(args[1], since(2), i)) - since(2) + 1
        [] fn = "row_window_session" ->
             Sessions([j \in 1..i |-> args[1][j]], args[2], args[3],
                      IF Len(args) = 4 THEN args[4] ELSE [j \in 1..i |-> FALSE])[i + 1].from
==============================================================================
