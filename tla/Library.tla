-------------------------------- MODULE Library --------------------------------
(***************************************************************************)
(* The function library: the file that knows a function's name evaluates   *)
(* its calls (evalFuncRaw, functions.go); what none of them knows are user *)
(* functions, which Statements models.  A call reads nothing a statement   *)
(* leaves behind, so a session that calls does so before any statement.    *)
(***************************************************************************)
EXTENDS Statements, Arrays, Texts, Addresses

CONSTANTS DynamicArguments, TextArguments, NetArguments   \* by function, the lists of arguments of the calls

VARIABLES call, answer

sessionVars == <<vars, call, answer>>

NoCall == [family |-> "none"]
InFamily(family, c) == [family |-> family, fn |-> c.fn, args |-> c.args]
CallsTo(arguments) == UNION {{Call(fn, args) : args \in arguments[fn]} : fn \in DOMAIN arguments}

SessionInit == Init /\ call = NoCall /\ answer = Nil

Fresh == call = NoCall /\ functions = << >> /\ last.stmt.kind = "none" /\ UNCHANGED vars

\* Each file handles the functions it knows.
EvalDynamicFunc ==
  /\ Fresh
  /\ \E c \in CallsTo(DynamicArguments) : call' = InFamily("dynamic", c) /\ answer' = CallDynamic(c)

EvalStringFunc ==
  /\ Fresh
  /\ \E c \in CallsTo(TextArguments) : call' = InFamily("text", c) /\ answer' = CallText(c)

EvalNetFunc ==
  /\ Fresh
  /\ \E c \in CallsTo(NetArguments) : call' = InFamily("net", c) /\ answer' = CallNet(c)

Return == call # NoCall /\ call' = NoCall /\ answer' = Nil /\ UNCHANGED vars

RunStatements == call = NoCall /\ Next /\ UNCHANGED <<call, answer>>

SessionNext == RunStatements \/ EvalDynamicFunc \/ EvalStringFunc \/ EvalNetFunc \/ Return

SessionSpec == SessionInit /\ [][SessionNext]_sessionVars

------------------------------------------------------------------------------
================================================================================
