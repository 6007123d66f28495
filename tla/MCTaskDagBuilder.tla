-------------------------- MODULE MCTaskDagBuilder --------------------------
(* Every NIGIR of three nodes with these inputs, each node elided or not, in
   every list order, cycles included; and NIGIRs with two outputs per node,
   tensors with two producers and names that sanitize alike. *)
EXTENDS TaskDagBuilder

MCTensor == {"", "x", "w", "w.", "o1", "o2", "o3", "o4"}

MCSanitize == [t \in MCTensor |-> IF t = "w." THEN "w" ELSE t]

MkNode(elided, ins, outs) == [elided |-> elided, inputs |-> ins, outputs |-> outs]
Nig(nodes) == [nodes |-> nodes, graph_inputs |-> {"x"}]

InputLists ==
  {<<>>, <<"o1">>, <<"o2">>, <<"o3">>, <<"x">>, <<"", "o1">>, <<"o2", "x">>, <<"o3", "o1">>}

Out == <<"o1", "o2", "o3">>

AnyThree ==
  {Nig([n \in 1..3 |-> MkNode(e[n], i[n], <<Out[n]>>)]) :
     e \in [1..3 -> BOOLEAN], i \in [1..3 -> InputLists]}

Special ==
  {Nig(<<MkNode(e, <<i>>, <<"o1", "o2">>), MkNode(f, <<"o2", j>>, o),
         MkNode(FALSE, <<"o1", "w">>, <<"o4">>)>>) :
     e \in BOOLEAN, f \in BOOLEAN, i \in {"x", "o1", "w", ""}, j \in {"w.", "o4"},
     o \in {<<"o3">>, <<"o2">>, <<"o1", "o3">>}}

MCNigs == AnyThree \cup Special

(* Two nodes in a cycle, and a third one: with two compute nodes, as the test
   has it, or with layout nodes in their place. *)
MCCycles ==
  {Nig(<<MkNode(e, <<"o2">>, <<"o1">>), MkNode(f, <<"o1">>, <<"o2">>),
         MkNode(FALSE, <<"o2">>, <<"o3">>)>>) : e \in BOOLEAN, f \in BOOLEAN}

(* A layout node and its consumer; the layout node may have no input. *)
MCLayouts ==
  {Nig(<<MkNode(TRUE, i, <<"o1">>), MkNode(FALSE, <<"o1", "w">>, <<"o2">>)>>) :
     i \in {<<>>, <<"x">>, <<"", "x">>, <<"", "">>}}
=============================================================================
