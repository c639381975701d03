---------------------------- MODULE CratePipeline ----------------------------
(***************************************************************************)
(* From a manifest to checked crates.                                      *)
(*                                                                         *)
(* A program is a package and the packages it depends on. They are         *)
(*   resolved from their manifests, on disk (psy-package/src/lib.rs) or in *)
(*   memory (psy-package/src/source.rs),                                   *)
(*   connected by a graph of entry paths (resolve_crate_path_graph, or     *)
(*   compile_source_workspace_full for packages in memory),                *)
(*   parsed in breadth-first order and numbered, the standard library      *)
(*   added as a dependency of all (Parser::parse, finish_inner),           *)
(*   and checked in topological order (visit_program).                     *)
(*                                                                         *)
(* Each stage takes for granted what the earlier ones established: the     *)
(* parser indexes its map of crates with every node of the graph, and the  *)
(* type checker looks names up in crates it has checked before.            *)
(*                                                                         *)
(* A package stands for its manifest, its entry path and its crate. What a *)
(* manifest says is chosen when it is first read.                          *)
(***************************************************************************)
EXTENDS CrateGraph, FiniteSets

CONSTANTS Package,
          Std,        \* the crate of the standard library
          Sources,    \* where packages come from, a subset of {"disk", "memory"}
          MaxDeps,    \* bound on the dependencies of a manifest
          Unread      \* the manifest of a package that was not read yet

ASSUME PackageAssumption == Std \notin Package /\ Node = Package \cup {Std}
ASSUME UnreadAssumption == Unread \notin Seq(Package)
ASSUME SourcesAssumption == Sources \subseteq {"disk", "memory"}

VARIABLES source,     \* where the packages of this compilation are
          manifest,   \* the dependencies of each package, in the order of a BTreeMap
          frames,     \* of resolve_to_package or resolve_package: [package, rest]
          resolved,   \* ResolveState::packages; of no use on disk
          todo,       \* the packages still to be connected
          phase,      \* "idle", "resolve", "connect", "parse", "order", "check", "end"
          verdict     \* how the compilation ended

packageVars == <<source, manifest, frames, resolved, todo>>
pipelineVars == <<vars, packageVars, phase, verdict>>

\* Dependencies have distinct names, and here distinct packages too.
Manifests(p) ==
    IF manifest[p] # Unread
    THEN {manifest[p]}
    ELSE UNION {SetToSeqs(D) :
                    D \in {S \in SUBSET Package : IsFiniteSet(S) /\ Cardinality(S) <= MaxDeps}}

\* Mistake: a manifest is never taken off the list of those being resolved.
ReadBefore == {p \in Package : manifest[p] # Unread}

\* The manifests being resolved: the list processed, or the stack.
Reading == {f.package : f \in ToSet(frames)}

End(v) == phase' = "end" /\ verdict' = v

----------------------------------------------------------------------------
PipelineInit ==
    /\ Init
    /\ source = "none"
    /\ manifest = [p \in Package |-> Unread]
    /\ frames = <<>>
    /\ resolved = {}
    /\ todo = <<>>
    /\ phase = "idle"
    /\ verdict = "none"

----------------------------------------------------------------------------
(* Resolving.                                                              *)

\* The manifest of p is read; its dependencies are then resolved one by one.
Enter(p, below) ==
    \E ds \in Manifests(p) :
        /\ manifest' = [manifest EXCEPT ![p] = ds]
        /\ frames' = Append(below, [package |-> p, rest |-> ds])

ResolveRoot(s, p) ==
    /\ phase = "idle"
    /\ source' = s
    /\ Enter(p, <<>>)
    /\ phase' = "resolve"
    /\ UNCHANGED <<vars, resolved, todo, verdict>>

Resolving == phase = "resolve" /\ frames # <<>>

\* The frames after the innermost has taken its next dependency.
FramesAfter == Append(Front(frames), [Last(frames) EXCEPT !.rest = Tail(@)])

\* Mistake: a package counts as resolved as soon as it is being resolved.
MemoizedEarly(p) == source = "memory" /\ (p \in resolved \/ p \in Reading)

\* In memory, a package is resolved once; on disk, once for each path to it.
Memoized(p) == source = "memory" /\ p \in resolved

Dependency ==
    /\ Resolving /\ Last(frames).rest # <<>>
    /\ LET p == Head(Last(frames).rest) IN
         \/ /\ Memoized(p)
            /\ frames' = FramesAfter
            /\ UNCHANGED <<manifest, phase, verdict>>
         \/ /\ ~Memoized(p) /\ p \in Reading
            /\ End("cyclic")
            /\ UNCHANGED <<frames, manifest>>
         \/ /\ ~Memoized(p) /\ p \notin Reading
            /\ Enter(p, FramesAfter)
            /\ UNCHANGED <<phase, verdict>>
    /\ UNCHANGED <<vars, source, resolved, todo>>

\* A manifest or an entry file is missing or wrong, or git fails.
Unreadable ==
    /\ Resolving
    /\ End("failed")
    /\ UNCHANGED <<vars, packageVars>>

\* In memory the packages come in the order of their ids, which is any order.
PackageDone ==
    /\ Resolving /\ Last(frames).rest = <<>>
    /\ frames' = Front(frames)
    /\ resolved' = IF source = "memory" THEN resolved \cup {Last(frames).package} ELSE resolved
    /\ IF Len(frames) = 1
       THEN /\ phase' = "connect"
            /\ IF source = "disk"
               THEN todo' = <<Last(frames).package>>
               ELSE todo' \in SetToSeqs(resolved')
       ELSE UNCHANGED <<phase, todo>>
    /\ UNCHANGED <<vars, source, manifest, verdict>>
----------------------------------------------------------------------------
(* Connecting.                                                             *)

\* An edge from n to each of ts: add_edge in a loop.
WithEdges(g, n, ts) ==
    LET G[i \in 0..Len(ts)] == IF i = 0 THEN g ELSE WithEdge(G[i - 1], n, ts[i])
    IN G[Len(ts)]

\* Mistake: the node is added with its first edge only.
LinkedByEdges(g, n, ts) == WithEdges(g, n, ts)

\* A node and its edges: add_node, and then add_edge in a loop.
Linked(g, n, ts) == WithEdges(WithNode(g, n), n, ts)

Connecting == phase = "connect" /\ todo # <<>>

\* Mistake: a package that is passed over is not taken from the queue.
ConnectTreeStuck ==
    /\ Connecting /\ source = "disk"
    /\ IF ContainsNode(graph, Head(todo))
       THEN UNCHANGED <<graph, todo>>
       ELSE /\ graph' = Linked(graph, Head(todo), manifest[Head(todo)])
            /\ todo' = Tail(todo) \o manifest[Head(todo)]
    /\ UNCHANGED <<walkVars, source, manifest, frames, resolved, phase, verdict>>

\* On disk, the packages are taken from a queue. One that is a node already is passed
\* over, also when it is a node only as the target of an edge.
ConnectTree ==
    /\ Connecting /\ source = "disk"
    /\ IF ContainsNode(graph, Head(todo))
       THEN todo' = Tail(todo) /\ UNCHANGED graph
       ELSE /\ graph' = Linked(graph, Head(todo), manifest[Head(todo)])
            /\ todo' = Tail(todo) \o manifest[Head(todo)]
    /\ UNCHANGED <<walkVars, source, manifest, frames, resolved, phase, verdict>>

ConnectAll ==
    /\ Connecting /\ source = "memory"
    /\ graph' = Linked(graph, Head(todo), manifest[Head(todo)])
    /\ todo' = Tail(todo)
    /\ UNCHANGED <<walkVars, source, manifest, frames, resolved, phase, verdict>>

StartParsing ==
    /\ phase = "connect" /\ todo = <<>>
    /\ Begin("bfs", graph)
    /\ phase' = "parse"
    /\ UNCHANGED <<graph, packageVars, verdict>>

----------------------------------------------------------------------------
(* Parsing and checking: walks of the graph. A visitor fails when its      *)
(* crate has an error.                                                     *)

ParseStep ==
    /\ phase = "parse"
    /\ BfsRoot \/ (\E ok \in BOOLEAN : BfsTake(ok)) \/ BfsEdge \/ BfsNext \/ Finish
    /\ UNCHANGED <<packageVars, phase, verdict>>

\* The graph of crates: its nodes come in the order in which the entry paths, and the
\* targets of each, were looked up.
Numbered(g) ==
    LET N[i \in 0..Len(g.keys)] ==
            IF i = 0 THEN EmptyGraph
            ELSE Linked(N[i - 1], g.keys[i], g.targets[g.keys[i]])
    IN N[Len(g.keys)]

\* Mistake: the library is a node without edges.
WithStdAlone(g) == WithNode(g, Std)

\* Every crate depends on the standard library, itself excepted.
WithStd(g) ==
    [keys |-> Insert(g.keys, Std),
     targets |-> [n \in Node |-> IF n \in ToSet(g.keys) \ {Std} THEN Insert(g.targets[n], Std)
                                                               ELSE g.targets[n]]]

\* crate_id_map has the entry paths that were parsed.
AllParsed == ToSet(graph.keys) \subseteq ToSet(calls)

Number ==
    /\ phase = "parse" /\ outcome = "ok" /\ AllParsed
    /\ LET crates == WithStd(Numbered(graph)) IN graph' = crates /\ Begin("ts", crates)
    /\ phase' = "order"
    /\ UNCHANGED <<packageVars, verdict>>

\* A crate, or after all of them the library, does not parse; or a HashMap is indexed
\* with a key it does not have.
ParseFails ==
    /\ phase = "parse" /\ outcome # "running"
    /\ End(IF outcome = "ok" /\ ~AllParsed THEN "panic" ELSE "failed")
    /\ UNCHANGED <<vars, packageVars>>

\* check_cycle: the visitor does nothing and cannot fail.
OrderStep ==
    /\ phase = "order"
    /\ TsRoot \/ TsEdge \/ TsVisit(TRUE) \/ Finish
    /\ UNCHANGED <<packageVars, phase, verdict>>

StartChecking ==
    /\ phase = "order" /\ outcome = "ok"
    /\ Begin("ts", graph)
    /\ phase' = "check"
    /\ UNCHANGED <<graph, packageVars, verdict>>

CheckStep ==
    /\ phase = "check"
    /\ TsRoot \/ TsEdge \/ (\E ok \in BOOLEAN : TsVisit(ok)) \/ Finish
    /\ UNCHANGED <<packageVars, phase, verdict>>

\* The first error of a walk is the compiler's.
WalkFails ==
    /\ phase \in {"order", "check"} /\ outcome \in {"cycle", "failed"}
    /\ End(outcome)
    /\ UNCHANGED <<vars, packageVars>>

Checked ==
    /\ phase = "check" /\ outcome = "ok"
    /\ End("ok")
    /\ UNCHANGED <<vars, packageVars>>

----------------------------------------------------------------------------
Compile ==
    \/ Dependency \/ Unreadable \/ PackageDone
    \/ ConnectTree \/ ConnectAll \/ StartParsing
    \/ ParseStep \/ Number \/ ParseFails
    \/ OrderStep \/ StartChecking \/ CheckStep \/ WalkFails \/ Checked

\* The caller takes the result. The next compilation begins with nothing but the disk,
\* on which anything may have changed.
Again ==
    /\ phase = "end"
    /\ graph' = EmptyGraph
    /\ walk' = "none" /\ outcome' = "none"
    /\ roots' = <<>> /\ stack' = <<>> /\ queue' = <<>> /\ calls' = <<>>
    /\ mark' = [n \in Node |-> "white"]
    /\ source' = "none"
    /\ manifest' = [p \in Package |-> Unread]
    /\ frames' = <<>> /\ resolved' = {} /\ todo' = <<>>
    /\ phase' = "idle" /\ verdict' = "none"

PipelineNext == Compile \/ Again \/ \E s \in Sources, p \in Package : ResolveRoot(s, p)

\* A compilation is one function call: once begun it is executed.
PipelineSpec == PipelineInit /\ [][PipelineNext]_pipelineVars /\ WF_pipelineVars(Compile)

----------------------------------------------------------------------------
(* Properties.                                                             *)

Read == {p \in Package : manifest[p] # Unread}

\* CyclicDependency is reported only if some packages depend on each other in a circle,
\* not for a package that is used by two others.
CyclicIsReal ==
    verdict = "cyclic" =>
        \E C \in SUBSET Read : C # {} /\ \A p \in C : ToSet(manifest[p]) \cap C # {}

\* A package graph that was resolved suits the parser: the map it builds while it walks
\* the graph has every node, and its own check for cycles finds none.
ResolvedSuitsParser == verdict \notin {"panic", "cycle"}

\* What is compiled is what the manifests ask for: the root and everything it depends on,
\* directly or not.
EveryPackageIsANode == phase = "parse" => ToSet(graph.keys) = Read

\* The same of packages in memory, which are connected by a loop of their own.
EveryPackageInMemoryIsANode == source = "memory" => EveryPackageIsANode

Before(a, b) == \E i, j \in DOMAIN calls : i < j /\ calls[i] = a /\ calls[j] = b

\* When all crates of packages in memory are checked, each was checked after those its
\* manifest names and after the standard library.
DependenciesFirst ==
    verdict = "ok" /\ source = "memory" =>
        \A p \in Read : Before(Std, p) /\ \A d \in ToSet(manifest[p]) : Before(d, p)

\* Every compilation ends, whatever the manifests say.
CompilationEnds == phase # "idle" ~> phase = "end"
=============================================================================
