---------------------------- MODULE WorkflowEditor ----------------------------
(***************************************************************************)
(* The workflow builder: edits of a graph in the browser, each of which     *)
(* checks part of the rules, before the whole is validated and saved.       *)
(* Source: frontend/features/automations: workflow-graph-edits.ts,          *)
(* workflow-graph-contracts.ts, workflow-canvas.tsx, workflow-editor-state. *)
(*                                                                         *)
(* Undo, redo and reload give a graph that was there before.                *)
(***************************************************************************)
EXTENDS AutomationGraph

CONSTANTS Types,     \* node types in use
          MaxNodes   \* catalog.maxNodes

VARIABLE graph

WorkflowEditorAssumption == Types \subseteq NodeTypes /\ MaxNodes \in Nat

Ids == 1..MaxNodes

TypeOK ==
  /\ NodesOf(graph) \subseteq Ids
  /\ \A n \in NodesOf(graph) : graph.type[n] \in Types
  /\ graph.edges \subseteq NodesOf(graph) \X NodesOf(graph)
  /\ graph.entry \in NodesOf(graph) \cup {NoEntry}
  /\ graph.outputs \subseteq NodesOf(graph)

Init == graph = EmptyGraph

\* staticPortCompatibility: of the contracts alone, what is kept is not known.
StaticShape(t) ==
  [kind |-> Output[t].kind, caps |-> Output[t].caps, known |-> Output[t].kind # "none" /\ ~Output[t].keeps]

\* compatiblePortPairs is not empty.
Pairs(s, t) ==
  s \in DOMAIN Output /\ t \in DOMAIN Input /\ Match(StaticShape(s), Input[t]) # "incompatible"

In(n)  == {e \in graph.edges : e[2] = n}
Out(n) == {e \in graph.edges : e[1] = n}

\* uniqueNodeId
Fresh == CHOOSE n \in Ids \ NodesOf(graph) : TRUE
With(n, t) == [m \in NodesOf(graph) \cup {n} |-> IF m = n THEN t ELSE graph.type[m]]
Without(n) == [m \in NodesOf(graph) \ {n} |-> graph.type[m]]

\* insertWorkflowNode, the first node.
InsertFirst(t) ==
  /\ NodesOf(graph) = {} /\ t \in Entries /\ MaxNodes > 0
  /\ graph' = GraphOf(With(Fresh, t), {}, Fresh, IF t \in Terminals THEN {Fresh} ELSE {})

\* insertWorkflowNode after a node, the one selected or near the end of the path.
Insert(t, after) ==
  LET n == Fresh
      next == {e[2] : e \in Out(after)} IN
  /\ after \in NodesOf(graph) /\ t \notin Entries
  /\ Cardinality(NodesOf(graph)) < MaxNodes
  /\ Cardinality(next) <= 1
  /\ Pairs(graph.type[after], t)
  /\ \A m \in next : Pairs(t, graph.type[m])
  /\ graph' = [graph EXCEPT
       !.type = With(n, t),
       !.edges = (@ \ Out(after)) \cup {<<after, n>>} \cup ({n} \X next),
       !.outputs = IF next # {} THEN @
                   ELSE IF t \in Terminals THEN {n}
                   ELSE IF after \in @ THEN {} ELSE @]

\* duplicateWorkflowNode: a trigger is put beside the other, an inner step
\* after itself.
DuplicateEntry(n) ==
  /\ n \in NodesOf(graph) /\ graph.type[n] \in Entries
  /\ Cardinality(NodesOf(graph)) < MaxNodes
  /\ graph' = [graph EXCEPT !.type = With(Fresh, graph.type[n])]

Duplicate(n) ==
  /\ n \in NodesOf(graph) /\ graph.type[n] \notin Entries \cup Terminals
  /\ Insert(graph.type[n], n)

IsEntry(n) == n = graph.entry \/ graph.type[n] \in Entries

\* The edge that takes the place of a deleted inner step.
Rejoined(n) == IF IsEntry(n) THEN {} ELSE {<<e[1], d[2]>> : e \in In(n), d \in Out(n)}

\* workflowNodeActionState: an output is not deleted, and neighbours must fit.
CanDelete(n) ==
  IsEntry(n) \/ /\ n \notin graph.outputs
                /\ Cardinality(In(n)) <= 1 /\ Cardinality(Out(n)) <= 1
                /\ \A e \in In(n), d \in Out(n) : Pairs(graph.type[e[1]], graph.type[d[2]])

\* Mutant of OutputsWithout: the deleted node stays an output.
OutputsWithoutNone(n) == IF n \in Ids THEN graph.outputs ELSE {}

OutputsWithout(n) == graph.outputs \ {n}

Delete(n) ==
  /\ n \in NodesOf(graph) /\ CanDelete(n)
  /\ graph' = GraphOf(Without(n), (graph.edges \ (In(n) \cup Out(n))) \cup Rejoined(n),
                      IF graph.entry = n THEN NoEntry ELSE graph.entry, OutputsWithout(n))

\* orderedWorkflowNodes: the nodes below the entry, each followed by those
\* below it; the order of siblings and of unconnected nodes is left open.
Orders ==
  {p \in [1..Cardinality(NodesOf(graph)) -> NodesOf(graph)] :
     /\ \A i, k \in DOMAIN p : p[i] = p[k] => i = k
     /\ graph.entry # NoEntry =>
          /\ p[1] = graph.entry
          /\ \A i \in DOMAIN p : p[i] \in {graph.entry} \cup Below(graph.edges, graph.entry) =>
               LET b == Below(graph.edges, p[i]) IN
               {p[k] : k \in DOMAIN p \cap (i + 1)..(i + Cardinality(b))} = b}

\* moveWorkflowNode: a step changes places with the next, and the nodes become
\* one path.
Move(i) ==
  /\ i > 1 /\ i + 1 < Cardinality(NodesOf(graph))
  /\ \E p \in Orders :
       LET q == [p EXCEPT ![i] = p[i + 1], ![i + 1] = p[i]]
           path == {<<q[k], q[k + 1]>> : k \in 1..(Len(q) - 1)} IN
       /\ \A e \in path : Pairs(graph.type[e[1]], graph.type[e[2]])
       /\ graph' = [graph EXCEPT !.edges = path]

\* Mutant of InputFree: inputs take any number of connections.
InputFreeAlways(n) == n \in NodesOf(graph)

\* max_connections of an input is 1.
InputFree(n) == In(n) = {}

\* connectWorkflowNodes
Connect(n, m) ==
  /\ {n, m} \subseteq NodesOf(graph) /\ n # m /\ <<n, m>> \notin graph.edges
  /\ graph.type[m] \notin Entries
  /\ Compatibility(graph, <<n, m>>) # "incompatible"
  /\ InputFree(m)
  /\ ~Cyclic(graph, graph.edges \cup {<<n, m>>})
  /\ graph' = [graph EXCEPT !.edges = @ \cup {<<n, m>>}]

\* onEdgesChange
Disconnect(e) == e \in graph.edges /\ graph' = [graph EXCEPT !.edges = @ \ {e}]

Next ==
  \/ \E t \in Types : InsertFirst(t) \/ \E n \in Ids : Insert(t, n)
  \/ \E n \in Ids : DuplicateEntry(n) \/ Duplicate(n) \/ Delete(n) \/ Move(n)
  \/ \E n, m \in Ids : Connect(n, m) \/ Disconnect(<<n, m>>)

Spec == Init /\ [][Next]_graph

-----------------------------------------------------------------------------
(* Properties. *)

\* What the browser calls valid is what the server saves and activates, as
\* long as it is one path: no check is weaker or stronger on either side.
ClientAgrees == NodesOf(graph) # {} => (ClientValid(graph) /\ Linear(graph) <=> Saveable(graph))

\* In a plan the approved draft is what is published: the review comes after the
\* generation, whatever was approved before.
ReviewedBeforePublish ==
  Compiles(graph) =>
    LET plan == PlanOf(graph) IN
    \A i \in DOMAIN plan : graph.type[plan[i]] = "telegram_publish" =>
      \E k \in 1..(i - 1) :
        /\ graph.type[plan[k]] = "human_review"
        /\ \A l \in k..i : graph.type[plan[l]] # "generate_content_pack"

\* Every stage of a plan gets what it takes: shapes are those of the path, once
\* and in order.
PlanFits ==
  Compiles(graph) =>
    LET plan == PlanOf(graph) IN
    /\ Len(plan) = Cardinality(NodesOf(graph))
    /\ \A i \in DOMAIN plan \ {1} :
         Match(OutputShape(graph, plan[i - 1]), Input[graph.type[plan[i]]]) = "compatible"

\* The edits keep the graph a forest.
Forest == ~Cyclic(graph, graph.edges) /\ \A n \in NodesOf(graph) : Cardinality(In(n)) <= 1
=============================================================================
