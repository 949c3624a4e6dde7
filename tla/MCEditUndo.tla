------------------------------ MODULE MCEditUndo ------------------------------
(***************************************************************************)
(* EditUndo over two node ids, one edge id and the mutations below.        *)
(***************************************************************************)
EXTENDS EditUndo, TLC

\* One registered type that refuses the value "bad", and one unknown type.
MCTypes == {"registered", "unknown"}
MCAccepts == [t \in MCTypes |->
                IF t = "unknown" THEN Params
                ELSE {f \in Params : \A p \in ParamNames : f[p] # "bad"}]

MCParam(v) == [p \in ParamNames |-> v]

\* A source and a sink, each with or without a parameter, and a grouped node.
MCNodes == [type : {"registered"}, params : Params,
            ins : {{}, {"port"}}, outs : {{"port"}}, group : {None}, placed : {FALSE}]
           \cup [type : {"unknown"}, params : {MCParam("bad")}, ins : {{"port"}},
                 outs : {{"port"}}, group : NodeIds \cup {None}, placed : {TRUE}]

MCGraphs == {g \in [nodes : Dict(NodeIds, MCNodes), edges : Dict(EdgeIds, Edge)] :
               StructurallyValid(g)}

\* Nodes an edit adds: a bare one and one with a parameter.
MCNewNodes == {n \in MCNodes : n.params \in {MCParam(None), MCParam("v")} /\ n.ins # {}}

MCMutations == [addNodes : Dict(NodeIds, MCNewNodes),
                addEdges : Dict(EdgeIds, Edge),
                removeNodes : SUBSET NodeIds,
                removeEdges : SUBSET EdgeIds,
                setParams : Dict(NodeIds, {MCParam("v"), MCParam("bad")})]
=============================================================================
