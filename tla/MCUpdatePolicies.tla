-------------------------- MODULE MCUpdatePolicies --------------------------
(* Writers, policies and schemas for TLC.                                    *)
EXTENDS UpdatePolicies, TLC

CONSTANTS w1, w2, A, B, C

MCWriter == {w1}
TwoWriters == {w1, w2}
MCTable == {A, B, C}

Long(names) == [n \in names |-> "long"]
Text(names) == [n \in names |-> "string"]
MCSchema == {Long({"x"}), Text({"x"}), Long({"x", "y"})}

P(s, t, tx, block) == [target |-> t, source |-> s, enabled |-> TRUE, tx |-> tx, block |-> block]
Policies(ps) == [t \in MCTable |-> {p \in ps : p.target = t}]

\* A chain of each kind, a chain that mixes them, a fork, a cycle.
MCConfig ==
  { Policies({}),
    Policies({P(A, B, TRUE, TRUE), P(B, C, TRUE, FALSE)}),
    Policies({P(A, B, FALSE, FALSE), P(B, C, FALSE, FALSE)}),
    Policies({P(A, B, TRUE, FALSE), P(A, C, FALSE, FALSE), P(B, C, FALSE, FALSE)}),
    Policies({P(A, B, FALSE, TRUE), P(B, A, FALSE, FALSE)}),
    Policies({P(A, B, TRUE, TRUE), P(B, A, TRUE, FALSE)}) }

Cmd(mode, t, cols, extend) == [mode |-> mode, table |-> t, cols |-> cols, extend |-> extend]

MCScript ==
  [w \in MCWriter |->
    { <<Cmd("set-or-append", A, Long({"x"}), FALSE)>>,
      <<Cmd("append", B, Long({"x"}), FALSE)>>,
      <<Cmd("ingest", A, Long({"x"}), FALSE)>>,
      <<Cmd("set-or-append", A, Long({"x"}), FALSE),
        Cmd("set-or-append", B, Long({"x", "y"}), TRUE)>>,
      <<Cmd("set-or-append", C, Long({"x"}), FALSE),
        Cmd("set-or-append", C, Long({"x", "y"}), TRUE)>>,
      <<Cmd("set-or-append", C, Long({"x"}), FALSE)>> }]

\* Two processes create one table, each with a column of its own type.
TwoScripts ==
  w1 :> { <<Cmd("set-or-append", C, Long({"x"}), FALSE)>> }
  @@ w2 :> { <<Cmd("set-or-append", C, Text({"x"}), FALSE)>> }

MCStart == [t \in MCTable |-> IF t = C THEN NoTable ELSE Long({"x"})]
==============================================================================
