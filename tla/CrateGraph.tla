----------------------------- MODULE CrateGraph -----------------------------
(***************************************************************************)
(* The graph of crates (psy-common/src/graph.rs).                          *)
(*                                                                         *)
(* The parser walks it breadth first to load every crate, and the type     *)
(* checker in topological order to check every crate after the crates it   *)
(* depends on.  Keys and targets are kept in the order of insertion, so    *)
(* that the compiler's output is reproducible; the walks are recursive     *)
(* functions that call a visitor, which may fail.                          *)
(*                                                                         *)
(* A walk is modelled one edge or one call of the visitor at a time, with  *)
(* the recursion as a stack of frames.  Grey nodes are those of the frames *)
(* (ts only); the nodes of the visited sets of dfs and bfs are black.      *)
(***************************************************************************)
EXTENDS Naturals, SequencesExt

CONSTANTS Node,     \* what the graph connects: entry paths, or crates
          Walks     \* the walks of an instance, a subset of {"dfs", "bfs", "ts"}

ASSUME WalksAssumption == Walks \subseteq {"dfs", "bfs", "ts"}

VARIABLES graph,    \* [keys, targets]: Graph::edges, an IndexMap of IndexSets
          walk,     \* the walk under way, or "none"
          roots,    \* what is left of its outer loop
          stack,    \* the frames of dfs_inner or ts_inner: [node, rest]
          queue,    \* the queue of bfs_inner
          mark,     \* the set visited, or the map colors
          calls,    \* the nodes the visitor was called with, in order
          outcome   \* "none", "running", or what the walk returned

walkVars == <<walk, roots, stack, queue, mark, calls, outcome>>
vars == <<graph, walkVars>>

Color == {"white", "grey", "black"}
Frame == [node : Node, rest : Seq(Node)]
Graph == [keys : Seq(Node), targets : [Node -> Seq(Node)]]

----------------------------------------------------------------------------
(* Building a graph.                                                       *)

EmptyGraph == [keys |-> <<>>, targets |-> [n \in Node |-> <<>>]]

\* Insertion into an IndexMap or an IndexSet: what is there stays where it is.
Insert(s, n) == IF n \in ToSet(s) THEN s ELSE Append(s, n)

ContainsNode(g, n) == n \in ToSet(g.keys)

WithNode(g, n) == [g EXCEPT !.keys = Insert(@, n)]

\* Mistake: the target gets no entry of its own.
WithEdgeOneKey(g, from, to) ==
    [keys |-> Insert(g.keys, from), targets |-> [g.targets EXCEPT ![from] = Insert(@, to)]]

\* An edge to the node itself is dropped, the node is not.
WithEdge(g, from, to) ==
    IF from = to
    THEN WithNode(g, to)
    ELSE [g EXCEPT !.keys = Insert(Insert(@, from), to), !.targets[from] = Insert(@, to)]

Targets(g, n) == ToSet(g.targets[n])

\* starting_nodes returns the keys that are nobody's target, in the order of the keys.
Starting(g, n) == \A m \in ToSet(g.keys) : n \notin Targets(g, m)

----------------------------------------------------------------------------
Init ==
    /\ graph = EmptyGraph
    /\ walk = "none"
    /\ roots = <<>>
    /\ stack = <<>>
    /\ queue = <<>>
    /\ mark = [n \in Node |-> "white"]
    /\ calls = <<>>
    /\ outcome = "none"

AddNode(n) ==
    /\ outcome = "none"
    /\ graph' = WithNode(graph, n)
    /\ UNCHANGED walkVars

AddEdge(from, to) ==
    /\ outcome = "none"
    /\ graph' = WithEdge(graph, from, to)
    /\ UNCHANGED walkVars

\* A walk over graph g begins, with an empty visited set.
Begin(w, g) ==
    /\ walk' = w
    /\ roots' = g.keys
    /\ stack' = <<>>
    /\ queue' = <<>>
    /\ mark' = [n \in Node |-> "white"]
    /\ calls' = <<>>
    /\ outcome' = "running"

Start(w) == outcome = "none" /\ Begin(w, graph) /\ UNCHANGED graph

Walking(w) == outcome = "running" /\ walk = w

FrameOf(n) == [node |-> n, rest |-> graph.targets[n]]

Top == Last(stack)

\* The stack after the top frame has taken the next of its targets.
Advanced == Append(Front(stack), [Top EXCEPT !.rest = Tail(@)])

----------------------------------------------------------------------------
(* ts: a node is visited after its targets.                                *)

\* Mistake: the walk is started at the nodes without predecessors only.
TsRootStarting ==
    /\ Walking("ts") /\ stack = <<>> /\ roots # <<>>
    /\ roots' = Tail(roots)
    /\ IF Starting(graph, Head(roots))
       THEN /\ stack' = <<FrameOf(Head(roots))>>
            /\ mark' = [mark EXCEPT ![Head(roots)] = "grey"]
       ELSE UNCHANGED <<stack, mark>>
    /\ UNCHANGED <<graph, walk, queue, calls, outcome>>

\* Mistake: a root that has its color already is skipped without being taken.
TsRootStuck ==
    /\ Walking("ts") /\ stack = <<>> /\ roots # <<>>
    /\ IF mark[Head(roots)] = "white"
       THEN /\ roots' = Tail(roots)
            /\ stack' = <<FrameOf(Head(roots))>>
            /\ mark' = [mark EXCEPT ![Head(roots)] = "grey"]
       ELSE UNCHANGED <<roots, stack, mark>>
    /\ UNCHANGED <<graph, walk, queue, calls, outcome>>

TsRoot ==
    /\ Walking("ts") /\ stack = <<>> /\ roots # <<>>
    /\ roots' = Tail(roots)
    /\ IF mark[Head(roots)] = "white"
       THEN /\ stack' = <<FrameOf(Head(roots))>>
            /\ mark' = [mark EXCEPT ![Head(roots)] = "grey"]
       ELSE UNCHANGED <<stack, mark>>
    /\ UNCHANGED <<graph, walk, queue, calls, outcome>>

\* Mistake: targets without a color are left to the outer loop.
TsEdgeShallow ==
    /\ Walking("ts") /\ stack # <<>> /\ Top.rest # <<>>
    /\ IF mark[Head(Top.rest)] = "grey"
       THEN outcome' = "cycle" /\ UNCHANGED stack
       ELSE stack' = Advanced /\ UNCHANGED outcome
    /\ UNCHANGED <<graph, walk, roots, queue, mark, calls>>

\* A grey target is one of the frames below: the edge closes a cycle.
TsEdge ==
    /\ Walking("ts") /\ stack # <<>> /\ Top.rest # <<>>
    /\ LET target == Head(Top.rest) IN
         \/ /\ mark[target] = "grey"
            /\ outcome' = "cycle"
            /\ UNCHANGED <<stack, mark>>
         \/ /\ mark[target] = "white"
            /\ stack' = Append(Advanced, FrameOf(target))
            /\ mark' = [mark EXCEPT ![target] = "grey"]
            /\ UNCHANGED outcome
         \/ /\ mark[target] = "black"
            /\ stack' = Advanced
            /\ UNCHANGED <<mark, outcome>>
    /\ UNCHANGED <<graph, walk, roots, queue, calls>>

\* Mistake: the node stays grey when its function returns.
TsVisitKeepingGrey(ok) ==
    /\ Walking("ts") /\ stack # <<>> /\ Top.rest = <<>>
    /\ calls' = Append(calls, Top.node)
    /\ IF ok
       THEN stack' = Front(stack) /\ UNCHANGED outcome
       ELSE outcome' = "failed" /\ UNCHANGED stack
    /\ UNCHANGED <<graph, walk, roots, queue, mark>>

TsVisit(ok) ==
    /\ Walking("ts") /\ stack # <<>> /\ Top.rest = <<>>
    /\ calls' = Append(calls, Top.node)
    /\ IF ok
       THEN /\ mark' = [mark EXCEPT ![Top.node] = "black"]
            /\ stack' = Front(stack)
            /\ UNCHANGED outcome
       ELSE /\ outcome' = "failed"
            /\ UNCHANGED <<mark, stack>>
    /\ UNCHANGED <<graph, walk, roots, queue>>

----------------------------------------------------------------------------
(* dfs: a node is visited before its targets; its visitor cannot fail.     *)

DfsCall(n) ==
    IF mark[n] = "white"
    THEN /\ mark' = [mark EXCEPT ![n] = "black"]
         /\ calls' = Append(calls, n)
    ELSE UNCHANGED <<mark, calls>>

DfsRoot ==
    /\ Walking("dfs") /\ stack = <<>> /\ roots # <<>>
    /\ roots' = Tail(roots)
    /\ stack' = IF mark[Head(roots)] = "white" THEN <<FrameOf(Head(roots))>> ELSE <<>>
    /\ DfsCall(Head(roots))
    /\ UNCHANGED <<graph, walk, queue, outcome>>

DfsEdge ==
    /\ Walking("dfs") /\ stack # <<>> /\ Top.rest # <<>>
    /\ LET target == Head(Top.rest) IN
         /\ stack' = IF mark[target] = "white" THEN Append(Advanced, FrameOf(target)) ELSE Advanced
         /\ DfsCall(target)
    /\ UNCHANGED <<graph, walk, roots, queue, outcome>>

DfsReturn ==
    /\ Walking("dfs") /\ stack # <<>> /\ Top.rest = <<>>
    /\ stack' = Front(stack)
    /\ UNCHANGED <<graph, walk, roots, queue, mark, calls, outcome>>

----------------------------------------------------------------------------
(* bfs: from each starting node in turn, a queue. The frame is the node     *)
(* whose targets are being queued.                                         *)

\* Mistake: the first starting node is taken for the only one.
BfsRootOnce ==
    /\ Walking("bfs") /\ stack = <<>> /\ queue = <<>> /\ roots # <<>>
    /\ IF Starting(graph, Head(roots))
       THEN /\ roots' = <<>>
            /\ queue' = <<Head(roots)>>
            /\ mark' = [mark EXCEPT ![Head(roots)] = "black"]
       ELSE roots' = Tail(roots) /\ UNCHANGED <<queue, mark>>
    /\ UNCHANGED <<graph, walk, stack, calls, outcome>>

BfsRoot ==
    /\ Walking("bfs") /\ stack = <<>> /\ queue = <<>> /\ roots # <<>>
    /\ roots' = Tail(roots)
    /\ IF Starting(graph, Head(roots))
       THEN /\ queue' = <<Head(roots)>>
            /\ mark' = [mark EXCEPT ![Head(roots)] = "black"]
       ELSE UNCHANGED <<queue, mark>>
    /\ UNCHANGED <<graph, walk, stack, calls, outcome>>

BfsTake(ok) ==
    /\ Walking("bfs") /\ stack = <<>> /\ queue # <<>>
    /\ queue' = Tail(queue)
    /\ calls' = Append(calls, Head(queue))
    /\ IF ok
       THEN stack' = <<FrameOf(Head(queue))>> /\ UNCHANGED outcome
       ELSE outcome' = "failed" /\ UNCHANGED stack
    /\ UNCHANGED <<graph, walk, roots, mark>>

\* Mistake: targets are queued without being marked.
BfsEdgeUnmarked ==
    /\ Walking("bfs") /\ stack # <<>> /\ Top.rest # <<>>
    /\ queue' = IF mark[Head(Top.rest)] = "white" THEN Append(queue, Head(Top.rest)) ELSE queue
    /\ stack' = Advanced
    /\ UNCHANGED <<graph, walk, roots, mark, calls, outcome>>

\* Targets are marked when they enter the queue, not when they leave it.
BfsEdge ==
    /\ Walking("bfs") /\ stack # <<>> /\ Top.rest # <<>>
    /\ LET target == Head(Top.rest) IN
         IF mark[target] = "white"
         THEN /\ queue' = Append(queue, target)
              /\ mark' = [mark EXCEPT ![target] = "black"]
         ELSE UNCHANGED <<queue, mark>>
    /\ stack' = Advanced
    /\ UNCHANGED <<graph, walk, roots, calls, outcome>>

BfsNext ==
    /\ Walking("bfs") /\ stack # <<>> /\ Top.rest = <<>>
    /\ stack' = Front(stack)
    /\ UNCHANGED <<graph, walk, roots, queue, mark, calls, outcome>>

----------------------------------------------------------------------------
Exhausted == stack = <<>> /\ queue = <<>> /\ roots = <<>>

Finish ==
    /\ outcome = "running" /\ Exhausted
    /\ outcome' = "ok"
    /\ UNCHANGED <<graph, walk, roots, stack, queue, mark, calls>>

\* The caller takes the result; visited sets and frames are gone.
Return ==
    /\ outcome \notin {"none", "running"}
    /\ walk' = "none"
    /\ roots' = <<>>
    /\ stack' = <<>>
    /\ queue' = <<>>
    /\ mark' = [n \in Node |-> "white"]
    /\ calls' = <<>>
    /\ outcome' = "none"
    /\ UNCHANGED graph

Step ==
    \/ TsRoot \/ TsEdge \/ (\E ok \in BOOLEAN : TsVisit(ok))
    \/ DfsRoot \/ DfsEdge \/ DfsReturn
    \/ BfsRoot \/ (\E ok \in BOOLEAN : BfsTake(ok)) \/ BfsEdge \/ BfsNext
    \/ Finish

Next ==
    \/ \E n \in Node : AddNode(n)
    \/ \E from, to \in Node : AddEdge(from, to)
    \/ \E w \in Walks : Start(w)
    \/ Step
    \/ Return

\* A walk is a function call: once begun it is executed, visitor included.
Spec == Init /\ [][Next]_vars /\ WF_vars(Step)

----------------------------------------------------------------------------
(* Properties.                                                             *)

\* The keys, and the targets of a key, are distinct, and every target is a key too:
\* otherwise a walk would meet nodes that have no entry in the IndexMap.
GraphOK(g) ==
    /\ g \in Graph
    /\ IsInjective(g.keys)
    /\ \A n \in Node : IsInjective(g.targets[n]) /\ Targets(g, n) \subseteq ToSet(g.keys)

\* Every variable has its type, and the graph is well formed however it was built.
TypeOK ==
    /\ GraphOK(graph)
    /\ walk \in {"none", "dfs", "bfs", "ts"}
    /\ roots \in Seq(Node)
    /\ stack \in Seq(Frame)
    /\ queue \in Seq(Node)
    /\ mark \in [Node -> Color]
    /\ calls \in Seq(Node)
    /\ outcome \in {"none", "running", "ok", "cycle", "failed"}

\* The visitor sees no node twice, although nodes are reached along several edges.
CallsOnce == IsInjective(calls)

\* A topological walk calls the visitor with a node only after it was called with all
\* its targets: a crate is checked after the crates it uses.
TargetsFirst ==
    walk = "ts" =>
        \A i \in DOMAIN calls : \A t \in Targets(graph, calls[i]) :
            \E j \in DOMAIN calls : j < i /\ calls[j] = t

\* There is a cycle: a set of nodes none of which is without a target in the set.
Cyclic(g) ==
    \E C \in SUBSET ToSet(g.keys) :
        C # {} /\ \A n \in C : Targets(g, n) \cap C # {}

\* CycleGraph is reported only for graphs that have a cycle, not for a node
\* that is merely reached twice.
CycleIsReal == outcome = "cycle" => Cyclic(graph)

\* A walk from every key that succeeds has called the visitor with every key.
WalkIsComplete ==
    outcome = "ok" /\ walk \in {"ts", "dfs"} => ToSet(calls) = ToSet(graph.keys)

\* bfs leaves a node out only if all its predecessors chain back into a cycle: each
\* node left out is the target of one left out. So an acyclic graph is visited
\* completely, on which the parser relies when it indexes crate_id_map.
OnlyCyclesAreSkipped ==
    outcome = "ok" /\ walk = "bfs" =>
        \A n \in ToSet(graph.keys) \ ToSet(calls) :
            \E m \in ToSet(graph.keys) \ ToSet(calls) : n \in Targets(graph, m)

\* Every walk ends, on cyclic graphs too.
WalksEnd == outcome = "running" ~> outcome # "running"
=============================================================================
