----------------------------- MODULE ExprGraph -----------------------------
(***************************************************************************)
(* The computation E = A * B + C * D of kupl/mt/graph, graph_lambda and    *)
(* queue_event_dependency as a graph of three nodes.                       *)
(***************************************************************************)
EXTENDS Integers, Sequences

Axb == <<"axb">>
Cxd == <<"cxd">>
Fpg == <<"fpg">>
ExprNode == {Axb, Cxd, Fpg}

ExprDep == {<<Axb, Fpg>>, <<Cxd, Fpg>>}

ExprCell == {"A", "B", "C", "D", "E", "F", "G"}

ExprInitMem == [A |-> 1, B |-> 2, C |-> 3, D |-> 4, E |-> 0, F |-> 0, G |-> 0]

ExprReads == [x \in ExprNode |->
  CASE x = Axb -> {"A", "B"} [] x = Cxd -> {"C", "D"} [] x = Fpg -> {"F", "G"}]

ExprWrites == [x \in ExprNode |->
  CASE x = Axb -> {"F"} [] x = Cxd -> {"G"} [] x = Fpg -> {"E"}]

ExprEval(x, in) ==
  CASE x = Axb -> [F |-> in.A * in.B]
    [] x = Cxd -> [G |-> in.C * in.D]
    [] x = Fpg -> [E |-> in.F + in.G]

-----------------------------------------------------------------------------
(* The main of queue_event_dependency; its args die with its frame.        *)

\* Mutant: q1 is not told to wait for the event.
ExprScriptNoAwait == <<
  <<"queue_submit", "q1", "axb">>,
  <<"queue_submit", "q2", "cxd">>,
  <<"event_record", "event", "q2">>,
  <<"queue_submit", "q1", "fpg">>,
  <<"queue_wait", "q1">>,
  <<"print">>,
  <<"destroy", "event">>,
  <<"destroy", "q2">>,
  <<"destroy", "q1">>,
  <<"destroy", "args">> >>

\* Mutant: the event is not recorded.
ExprScriptNoRecord == <<
  <<"queue_submit", "q1", "axb">>,
  <<"queue_submit", "q2", "cxd">>,
  <<"queue_wait_event", "q1", "event">>,
  <<"queue_submit", "q1", "fpg">>,
  <<"queue_wait", "q1">>,
  <<"print">>,
  <<"destroy", "event">>,
  <<"destroy", "q2">>,
  <<"destroy", "q1">>,
  <<"destroy", "args">> >>

\* Mutant: the event is recorded before the task it is to stand for.
ExprScriptRecordEarly == <<
  <<"queue_submit", "q1", "axb">>,
  <<"event_record", "event", "q2">>,
  <<"queue_submit", "q2", "cxd">>,
  <<"queue_wait_event", "q1", "event">>,
  <<"queue_submit", "q1", "fpg">>,
  <<"queue_wait", "q1">>,
  <<"print">>,
  <<"destroy", "event">>,
  <<"destroy", "q2">>,
  <<"destroy", "q1">>,
  <<"destroy", "args">> >>

ExprScript == <<
  <<"queue_submit", "q1", "axb">>,
  <<"queue_submit", "q2", "cxd">>,
  <<"event_record", "event", "q2">>,
  <<"queue_wait_event", "q1", "event">>,
  <<"queue_submit", "q1", "fpg">>,
  <<"queue_wait", "q1">>,
  <<"print">>,
  <<"destroy", "event">>,
  <<"destroy", "q2">>,
  <<"destroy", "q1">>,
  <<"destroy", "args">> >>

ExprUses == [t \in {"axb", "cxd", "fpg"} |-> {"args"}]
=============================================================================
