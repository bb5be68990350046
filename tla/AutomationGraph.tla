---------------------------- MODULE AutomationGraph ----------------------------
(***************************************************************************)
(* Workflow graphs: the contracts of the node types, the validation of a    *)
(* graph by the server and by the browser, and the plan compiled from it.   *)
(* Source: backend/app/automations/definitions: registry.py, artifacts.py,  *)
(* validation.py, compiler.py; frontend/features/automations:               *)
(* workflow-graph-contracts.ts, workflow-graph-topology.ts,                 *)
(* workflow-graph-validation.ts.                                            *)
(*                                                                         *)
(* A type has at most one input and one output, so an edge is a pair of     *)
(* nodes.  Configurations and resources are complete; layout is left out.   *)
(***************************************************************************)
EXTENDS Integers, Sequences, FiniteSets

NoEntry == 0  \* entry_node_id ""

\* A graph: the type of each node (numbers), edges, entry, output nodes.
GraphOf(type, edges, entry, outputs) ==
  [type |-> type, edges |-> edges, entry |-> entry, outputs |-> outputs]
EmptyGraph == GraphOf(<<>>, {}, NoEntry, {})
NodesOf(g) == DOMAIN g.type

-----------------------------------------------------------------------------
(* Contracts: NODE_REGISTRY. *)

Entries   == {"manual", "collection_article_added", "new_source_item", "schedule"}
Terminals == {"collection_article_added", "new_source_item", "save_drafts",
              "manual_package", "telegram_publish"}

Makes(kind, caps) == [kind |-> kind, caps |-> caps, keeps |-> FALSE]
Keeps(kind, caps) == [kind |-> kind, caps |-> caps, keeps |-> TRUE]

Article  == {"textual", "structured", "article", "reviewable", "generatable"}
Research == {"textual", "structured", "research", "reviewable", "generatable"}
Draft    == {"textual", "structured", "draft", "reviewable"}

\* Output contracts; save_drafts has no output.
Output ==
  [manual                   |-> Makes("article", Article),
   collection_article_added |-> Makes("article", Article \cup {"collection-context"}),
   new_source_item          |-> Makes("article", Article \cup {"source-context"}),
   schedule                 |-> Makes("schedule_event", {"structured", "schedule-context"}),
   select_content           |-> Makes("article", Article),
   filter_content           |-> Keeps("none", {}),
   research                 |-> Makes("research", Research),
   generate_content_pack    |-> Makes("draft", Draft),
   validate                 |-> Keeps("none", {}),
   human_review             |-> Keeps("none", {"approved", "publishable"}),
   manual_package           |-> Keeps("draft", {"structured"}),
   telegram_publish         |-> Makes("publication", {"structured", "approved", "publishable"})]

Takes(all, any, kinds) == [all |-> all, any |-> any, kinds |-> kinds]
AnyKind == {"article", "research", "draft", "publication", "schedule_event"}

\* Input contracts; triggers have no input.
Input ==
  [select_content        |-> Takes({"schedule-context"}, {}, {"schedule_event"}),
   filter_content        |-> Takes({"textual"}, {"article", "generatable"}, {"article", "research"}),
   research              |-> Takes({"textual"}, {"article", "generatable"}, {"article", "research"}),
   generate_content_pack |-> Takes({"generatable"}, {}, {"article", "research"}),
   validate              |-> Takes({"draft"}, {}, {"draft"}),
   human_review          |-> Takes({"reviewable"}, {}, AnyKind),
   save_drafts           |-> Takes({"draft"}, {}, {"draft"}),
   manual_package        |-> Takes({"draft"}, {}, {"draft"}),
   telegram_publish      |-> Takes({"approved", "publishable"}, {}, {"draft"})]

NodeTypes == DOMAIN Output \cup DOMAIN Input
Required == DOMAIN Input \ {"select_content"}  \* inputs that must be connected

-----------------------------------------------------------------------------
(* Shapes of artifacts. *)

Unknown == [kind |-> "none", caps |-> {}, known |-> FALSE]

\* Mutant of ShapeFor: every type passes on what it was given.
ShapeForKeeping(c, up) ==
  [kind |-> IF c.kind # "none" THEN c.kind ELSE up.kind,
   caps |-> c.caps \cup up.caps,
   known |-> TRUE]

\* shape_for_output_contract
ShapeFor(c, up) ==
  IF c.keeps
  THEN [kind |-> IF c.kind # "none" THEN c.kind ELSE up.kind,
        caps |-> c.caps \cup up.caps,
        known |-> up.known /\ (c.kind # "none" \/ up.kind # "none")]
  ELSE [kind |-> c.kind, caps |-> c.caps, known |-> TRUE]

\* _output_shape: of a node with one predecessor, from the shape of that one;
\* around a cycle (more steps than nodes) nothing is known.
OutputShape(g, node) ==
  LET preds(n) == {e[1] : e \in {d \in g.edges : d[2] = n}}
      shape[n \in NodesOf(g), k \in 0..Cardinality(NodesOf(g))] ==
        IF g.type[n] \notin DOMAIN Output \/ k = 0 THEN Unknown
        ELSE ShapeFor(Output[g.type[n]],
                      IF Cardinality(preds(n)) = 1
                      THEN shape[CHOOSE m \in preds(n) : TRUE, k - 1] ELSE Unknown)
  IN shape[node, Cardinality(NodesOf(g))]

\* match_input_contract
Match(shape, c) ==
  IF ~shape.known THEN "incomplete"
  ELSE IF /\ shape.kind \in c.kinds
          /\ c.all \subseteq shape.caps
          /\ c.any # {} => c.any \cap shape.caps # {}
  THEN "compatible" ELSE "incompatible"

\* _edge_compatibility
Compatibility(g, e) ==
  IF g.type[e[1]] \notin DOMAIN Output \/ g.type[e[2]] \notin DOMAIN Input
  THEN "incompatible" ELSE Match(OutputShape(g, e[1]), Input[g.type[e[2]]])

\* Nodes that edges lead to, one step or more.
Below(edges, n) ==
  LET out(s) == {e[2] : e \in {d \in edges : d[1] \in s}}
      reach[k \in 0..Cardinality(edges)] ==
        IF k = 0 THEN out({n}) ELSE reach[k - 1] \cup out(reach[k - 1])
  IN reach[Cardinality(edges)]

Cyclic(g, edges) == \E n \in NodesOf(g) : n \in Below(edges, n)

-----------------------------------------------------------------------------
(* validate_graph *)

\* adjacency: edges that were not refused.
Accepted(g) ==
  {e \in g.edges : e[1] # e[2] /\ g.type[e[2]] \notin Entries
                     /\ Compatibility(g, e) # "incompatible"}

EntryInvalid(g) ==
  \/ g.entry \notin NodesOf(g)
  \/ g.type[g.entry] \notin Entries
  \/ Cardinality({n \in NodesOf(g) : g.type[n] \in Entries}) # 1

\* Each input has one edge; edges: those that count.
CardinalityInvalid(g, edges) ==
  \E n \in NodesOf(g) :
    LET count == Cardinality({e \in edges : e[2] = n}) IN
    g.type[n] \in DOMAIN Input /\ (count > 1 \/ (count = 0 /\ g.type[n] \in Required))

Unreachable(g, edges) ==
  IF g.entry \in NodesOf(g)
  THEN ~(NodesOf(g) \subseteq {g.entry} \cup Below(edges, g.entry)) ELSE NodesOf(g) # {}

OutputInvalid(g, edges) ==
  \E n \in g.outputs :
    \/ n \notin NodesOf(g)
    \/ g.type[n] \notin Terminals
    \/ \E e \in edges : e[1] = n

\* A publish node without a human review above it.
Unreviewed(g) ==
  \E n \in NodesOf(g) :
    /\ g.type[n] = "telegram_publish"
    /\ ~\E v \in NodesOf(g) : g.type[v] = "human_review" /\ n \in Below(Accepted(g), v)

\* The codes of the errors found.
Findings(g) ==
  LET adjacency == Accepted(g)
      found(c) ==
        CASE c = "graph_entry_invalid"         -> EntryInvalid(g)
          [] c = "edge_port_invalid"           -> \E e \in g.edges \ adjacency : e[1] # e[2]
          [] c = "graph_cycle"                 -> (\E e \in g.edges : e[1] = e[2]) \/ Cyclic(g, adjacency)
          [] c = "edge_cardinality_invalid"    -> CardinalityInvalid(g, adjacency)
          [] c = "graph_unreachable_node"      -> Unreachable(g, adjacency)
          [] c = "graph_output_invalid"        -> OutputInvalid(g, adjacency)
          [] c = "automation_activation_invalid" -> Unreviewed(g)
  IN {c \in {"graph_entry_invalid", "edge_port_invalid", "graph_cycle", "edge_cardinality_invalid",
             "graph_unreachable_node", "graph_output_invalid", "automation_activation_invalid"} : found(c)}

IsValid(g) == Findings(g) = {}

-----------------------------------------------------------------------------
(* compile_graph *)

\* _ordered_node_ids: one path.
Linear(g) ==
  \A e, d \in g.edges : (e[1] = d[1] \/ e[2] = d[2]) => e = d

Compiles(g) == IsValid(g) /\ Linear(g)

\* The stages in order.
PlanOf(g) ==
  LET next(n) == {e[2] : e \in {d \in g.edges : d[1] = n}}
      plan[k \in 1..Cardinality(NodesOf(g))] ==
        IF k = 1 THEN <<g.entry>>
        ELSE plan[k - 1] \o (LET last == plan[k - 1][Len(plan[k - 1])] IN
                             IF next(last) = {} THEN <<>> ELSE <<CHOOSE n \in next(last) : TRUE>>)
  IN plan[Cardinality(NodesOf(g))]

\* create_version: _require_saveable and the compilation in _new_version; an
\* empty graph is saved as it is.
SaveBlocking ==
  {"edge_cardinality_invalid", "edge_port_invalid", "graph_cycle", "graph_entry_invalid",
   "graph_output_invalid", "graph_unreachable_node"}

Saveable(g) == g = EmptyGraph \/ (Findings(g) \cap SaveBlocking = {} /\ Compiles(g))

-----------------------------------------------------------------------------
(* validateWorkflowClient: incomplete edges do not count as connections,    *)
(* cycles, reachability and outputs are those of all edges.                 *)

ClientConnections(g) ==
  {e \in g.edges : g.type[e[2]] \notin Entries /\ Compatibility(g, e) = "compatible"}

\* Mutant of ClientOutputInvalid: an output may have successors.
ClientOutputInvalidEnd(g) == OutputInvalid(g, {})

ClientOutputInvalid(g) == OutputInvalid(g, g.edges)

ClientValid(g) ==
  /\ ~EntryInvalid(g)
  /\ \A e \in g.edges : g.type[e[2]] \notin Entries /\ Compatibility(g, e) # "incompatible"
  /\ ~CardinalityInvalid(g, ClientConnections(g))
  /\ ~Cyclic(g, g.edges)
  /\ ~Unreachable(g, g.edges)
  /\ ~ClientOutputInvalid(g)
=============================================================================
