-------------------------- MODULE CrateGraphProofs --------------------------
(***************************************************************************)
(* Proofs that the walks of CrateGraph do what their callers rely on, for  *)
(* every set of nodes and every graph built over it.                       *)
(*                                                                         *)
(* The invariant Inv says what frames, marks and calls have to do with      *)
(* each other; it has a part of its own for each kind of walk.             *)
(***************************************************************************)
EXTENDS CrateGraph, SequenceTheorems, TLAPS

----------------------------------------------------------------------------
(* Sequences.                                                              *)

LEMMA AppendFacts ==
  ASSUME NEW S, NEW s \in Seq(S), NEW x \in S
  PROVE  /\ Append(s, x) \in Seq(S)
         /\ Len(Append(s, x)) = Len(s) + 1
         /\ \A i \in DOMAIN s : i \in DOMAIN Append(s, x) /\ Append(s, x)[i] = s[i]
         /\ Append(s, x)[Len(s) + 1] = x
         /\ DOMAIN Append(s, x) = 1 .. Len(s) + 1
         /\ ToSet(Append(s, x)) = ToSet(s) \cup {x}
  BY DEF ToSet

LEMMA TailFacts ==
  ASSUME NEW S, NEW s \in Seq(S), s # <<>>
  PROVE  /\ Head(s) \in S /\ Head(s) = s[1] /\ Head(s) \in ToSet(s)
         /\ Tail(s) \in Seq(S)
         /\ Len(Tail(s)) = Len(s) - 1
         /\ \A i \in DOMAIN Tail(s) : i + 1 \in DOMAIN s /\ Tail(s)[i] = s[i + 1]
         /\ ToSet(s) = ToSet(Tail(s)) \cup {Head(s)}
<1>1. /\ Head(s) \in S /\ Head(s) = s[1] /\ Head(s) \in ToSet(s)
      /\ Tail(s) \in Seq(S)
      /\ Len(Tail(s)) = Len(s) - 1
      /\ \A i \in DOMAIN Tail(s) : i + 1 \in DOMAIN s /\ Tail(s)[i] = s[i + 1]
  BY DEF ToSet
<1>2. ToSet(Tail(s)) \cup {Head(s)} \subseteq ToSet(s)
  BY <1>1 DEF ToSet
<1>3. ASSUME NEW i \in DOMAIN s PROVE s[i] \in ToSet(Tail(s)) \cup {Head(s)}
  <2>1. CASE i = 1
    BY <2>1, <1>1
  <2>2. CASE i # 1
    <3>1. i - 1 \in DOMAIN Tail(s) /\ Tail(s)[i - 1] = s[i]
      BY <2>2
    <3> QED
      BY <3>1 DEF ToSet
  <2> QED
    BY <2>1, <2>2
<1> QED
  BY <1>1, <1>2, <1>3 DEF ToSet

LEMMA FrontFacts ==
  ASSUME NEW S, NEW s \in Seq(S), s # <<>>
  PROVE  /\ Front(s) \in Seq(S)
         /\ Len(Front(s)) = Len(s) - 1
         /\ DOMAIN Front(s) = 1 .. Len(s) - 1
         /\ \A i \in 1 .. Len(s) - 1 : Front(s)[i] = s[i]
         /\ Last(s) = s[Len(s)] /\ Last(s) \in S /\ Len(s) \in DOMAIN s
<1>1. Len(s) \in Nat /\ Len(s) > 0 /\ DOMAIN s = 1 .. Len(s)
  BY EmptySeq, LenProperties
<1>2. Front(s) = SubSeq(s, 1, Len(s) - 1) /\ Last(s) = s[Len(s)]
  BY DEF Front, Last
<1>3. \A i \in 1 .. Len(s) - 1 : s[i] \in S
  BY <1>1
<1> QED
  BY <1>1, <1>2, <1>3, SubSeqProperties

LEMMA InsertFacts ==
  ASSUME NEW s \in Seq(Node), NEW n \in Node
  PROVE  /\ Insert(s, n) \in Seq(Node)
         /\ ToSet(Insert(s, n)) = ToSet(s) \cup {n}
         /\ IsInjective(s) => IsInjective(Insert(s, n))
<1>1. CASE n \in ToSet(s)
  BY <1>1 DEF Insert
<1>2. CASE n \notin ToSet(s)
  <2>1. Insert(s, n) = Append(s, n)
    BY <1>2 DEF Insert
  <2>2. ASSUME IsInjective(s) PROVE IsInjective(Append(s, n))
    BY <1>2, <2>2, AppendFacts DEF IsInjective, ToSet
  <2> QED
    BY <2>1, <2>2, AppendFacts
<1> QED
  BY <1>1, <1>2

LEMMA NoElements == ToSet(<<>>) = {} /\ IsInjective(<<>>) /\ DOMAIN <<>> = {} /\ Len(<<>>) = 0
<1>1. <<>> = [i \in 1 .. 0 |-> TRUE]
  OBVIOUS
<1> QED
  BY <1>1 DEF ToSet, IsInjective

----------------------------------------------------------------------------
(* The graph: keys are distinct, targets are keys.                         *)

LEMMA EmptyGraphOK == GraphOK(EmptyGraph)
  BY NoElements DEF GraphOK, EmptyGraph, Graph, Targets

LEMMA WithNodeOK ==
  ASSUME NEW g, GraphOK(g), NEW n \in Node
  PROVE  GraphOK(WithNode(g, n))
<1>1. /\ WithNode(g, n) = [keys |-> Insert(g.keys, n), targets |-> g.targets]
      /\ g.keys \in Seq(Node) /\ g.targets \in [Node -> Seq(Node)]
  BY DEF GraphOK, Graph, WithNode
<1> QED
  BY <1>1, InsertFacts DEF GraphOK, Graph, Targets

\* The graph with another edge, field by field.
LEMMA WithEdgeForm ==
  ASSUME NEW g \in Graph, NEW from, NEW to, from # to
  PROVE  WithEdge(g, from, to) = [keys |-> Insert(Insert(g.keys, from), to),
                                  targets |-> [g.targets EXCEPT ![from] = Insert(@, to)]]
BY DEF WithEdge, Graph

LEMMA WithEdgeOK ==
  ASSUME NEW g, GraphOK(g), NEW from \in Node, NEW to \in Node
  PROVE  GraphOK(WithEdge(g, from, to))
<1>1. CASE from = to
  BY <1>1, WithNodeOK DEF WithEdge
<1>2. CASE from # to
  <2> DEFINE keys == Insert(Insert(g.keys, from), to)
             targets == [g.targets EXCEPT ![from] = Insert(@, to)]
  <2>1. WithEdge(g, from, to) = [keys |-> keys, targets |-> targets]
    BY <1>2, WithEdgeForm DEF GraphOK
  <2>2. g.keys \in Seq(Node) /\ IsInjective(g.keys) /\ g.targets \in [Node -> Seq(Node)]
    BY DEF GraphOK, Graph
  <2>3. /\ keys \in Seq(Node) /\ IsInjective(keys)
        /\ ToSet(keys) = ToSet(g.keys) \cup {from, to}
    <3> DEFINE mid == Insert(g.keys, from)
    <3>1. mid \in Seq(Node) /\ IsInjective(mid) /\ ToSet(mid) = ToSet(g.keys) \cup {from}
      BY <2>2, InsertFacts
    <3> HIDE DEF mid
    <3>2. /\ Insert(mid, to) \in Seq(Node) /\ IsInjective(Insert(mid, to))
          /\ ToSet(Insert(mid, to)) = ToSet(mid) \cup {to}
      BY <3>1, InsertFacts
    <3> QED
      BY <3>1, <3>2 DEF mid
  <2>4. targets \in [Node -> Seq(Node)]
    BY <2>2, InsertFacts
  <2>a. ASSUME NEW n \in Node PROVE IsInjective(targets[n])
    <3>1. IsInjective(g.targets[n]) /\ g.targets[n] \in Seq(Node)
      BY <2>2 DEF GraphOK
    <3>2. targets[n] = g.targets[n] \/ targets[n] = Insert(g.targets[n], to)
      BY <2>2
    <3> QED
      BY <3>1, <3>2, InsertFacts
  <2>5. ASSUME NEW n \in Node PROVE ToSet(targets[n]) \subseteq ToSet(keys)
    <3>1. ToSet(g.targets[n]) \subseteq ToSet(g.keys)
      BY DEF GraphOK, Targets
    <3>2. CASE n = from
      <4>1. targets[n] = Insert(g.targets[n], to)
        BY <3>2, <2>2
      <4>2. ToSet(targets[n]) = ToSet(g.targets[n]) \cup {to}
        BY <4>1, <2>2, InsertFacts
      <4> QED
        BY <4>2, <3>1, <2>3
    <3>3. CASE n # from
      BY <3>3, <3>1, <2>2, <2>3
    <3> QED
      BY <3>2, <3>3
  <2> QED
    BY <2>1, <2>3, <2>4, <2>a, <2>5 DEF GraphOK, Graph, Targets
<1> QED
  BY <1>1, <1>2

----------------------------------------------------------------------------
(* The inductive invariant.                                                *)

\* Outer loop: it has the keys that were not looked at yet, and every other one is
\* marked (bfs leaves out those that are not starting nodes).
RootsOK ==
    /\ ToSet(roots) \subseteq ToSet(graph.keys)
    /\ IsInjective(roots)
    /\ \A n \in ToSet(graph.keys) :
          \/ n \in ToSet(roots)
          \/ mark[n] # "white"
          \/ walk = "bfs" /\ ~Starting(graph, n)

\* What is called, and what is queued to be, is a key; no key is called twice.
CallsOK ==
    /\ IsInjective(calls)
    /\ ToSet(calls) \cup ToSet(queue) \subseteq ToSet(graph.keys)

\* A frame is at a key and has some of its targets left.
FramesOK ==
    \A i \in DOMAIN stack :
        /\ stack[i].node \in ToSet(graph.keys)
        /\ ToSet(stack[i].rest) \subseteq Targets(graph, stack[i].node)

\* The frames of ts are a path of distinct grey nodes.
GreyPath ==
    /\ \A i \in DOMAIN stack : mark[stack[i].node] = "grey"
    /\ \A n \in Node : mark[n] = "grey" => \E i \in DOMAIN stack : stack[i].node = n
    /\ \A i, j \in DOMAIN stack : stack[i].node = stack[j].node => i = j
    /\ \A i \in DOMAIN stack :
          i + 1 \in DOMAIN stack => stack[i + 1].node \in Targets(graph, stack[i].node)

\* What a frame of ts has passed is black, but for the target above it.
Explored ==
    \A i \in DOMAIN stack : \A t \in Targets(graph, stack[i].node) :
        \/ t \in ToSet(stack[i].rest)
        \/ mark[t] = "black"
        \/ i + 1 \in DOMAIN stack /\ t = stack[i + 1].node

TsOK ==
    /\ GreyPath
    /\ Explored
    /\ \A n \in Node : mark[n] = "black" => n \in ToSet(calls)
    /\ outcome # "failed" => \A n \in ToSet(calls) : mark[n] = "black"
    /\ queue = <<>>

DfsOK ==
    /\ \A n \in Node : mark[n] # "grey"
    /\ \A n \in Node : mark[n] = "black" <=> n \in ToSet(calls)
    /\ queue = <<>>

\* What bfs has marked is queued or called; what it called has all targets marked,
\* but for those the frame has left; roots it may still queue are not marked.
BfsOK ==
    /\ \A n \in Node : mark[n] # "grey"
    /\ \A n \in Node : mark[n] = "black" <=> n \in ToSet(calls) \cup ToSet(queue)
    /\ IsInjective(queue)
    /\ ToSet(calls) \cap ToSet(queue) = {}
    /\ \A r \in ToSet(roots) : Starting(graph, r) => mark[r] = "white"
    /\ outcome # "failed" =>
          \A n \in ToSet(calls) : \A t \in Targets(graph, n) :
              mark[t] = "black" \/ (stack # <<>> /\ Top.node = n /\ t \in ToSet(Top.rest))
    /\ Len(stack) <= 1

Inv ==
    /\ TypeOK
    /\ outcome = "none" <=> walk = "none"
    /\ outcome = "ok" => Exhausted
    /\ walk # "none" => RootsOK /\ FramesOK /\ CallsOK
    /\ walk = "ts" => TsOK
    /\ walk = "dfs" => DfsOK
    /\ walk = "bfs" => BfsOK
    /\ walk = "none" => calls = <<>>
    /\ TargetsFirst
    /\ CycleIsReal

----------------------------------------------------------------------------
(* The stack of frames.                                                    *)

LEMMA FrameOfFacts ==
  ASSUME NEW n \in Node, graph \in Graph
  PROVE  /\ FrameOf(n) \in Frame
         /\ FrameOf(n).node = n
         /\ ToSet(FrameOf(n).rest) = Targets(graph, n)
  BY DEF FrameOf, Frame, Graph, Targets

LEMMA OneFrame ==
  ASSUME NEW f \in Frame
  PROVE  /\ <<f>> \in Seq(Frame) /\ Len(<<f>>) = 1 /\ DOMAIN <<f>> = 1 .. 1
         /\ <<f>>[1] = f /\ Last(<<f>>) = f /\ <<f>> # <<>>
  BY DEF Last

LEMMA TopFacts ==
  ASSUME stack \in Seq(Frame), stack # <<>>
  PROVE  /\ Len(stack) \in DOMAIN stack /\ Len(stack) \in Nat \ {0}
         /\ DOMAIN stack = 1 .. Len(stack)
         /\ Top = stack[Len(stack)] /\ Top \in Frame
         /\ Top.node \in Node /\ Top.rest \in Seq(Node)
<1>1. Top = stack[Len(stack)] /\ Top \in Frame /\ Len(stack) \in DOMAIN stack
  BY FrontFacts DEF Top
<1> QED
  BY <1>1, LenProperties DEF Frame

\* Taking a target from the top frame changes that frame's rest only.
LEMMA AdvancedFacts ==
  ASSUME stack \in Seq(Frame), stack # <<>>, Top.rest # <<>>
  PROVE  /\ Head(Top.rest) \in Node
         /\ Head(Top.rest) \in ToSet(Top.rest)
         /\ Advanced \in Seq(Frame) /\ Advanced # <<>>
         /\ Len(Advanced) = Len(stack)
         /\ DOMAIN Advanced = DOMAIN stack
         /\ \A i \in DOMAIN stack :
               /\ Advanced[i].node = stack[i].node
               /\ i # Len(stack) => Advanced[i] = stack[i]
         /\ Advanced[Len(stack)].rest = Tail(Top.rest)
         /\ ToSet(Top.rest) = ToSet(Tail(Top.rest)) \cup {Head(Top.rest)}
<1> DEFINE moved == [Top EXCEPT !.rest = Tail(@)]
<1>1. /\ Len(stack) \in DOMAIN stack /\ DOMAIN stack = 1 .. Len(stack)
      /\ Len(stack) \in Nat \ {0}
      /\ Top = stack[Len(stack)] /\ Top \in Frame /\ Top.rest \in Seq(Node)
  BY TopFacts
<1>2. /\ Head(Top.rest) \in Node /\ Head(Top.rest) \in ToSet(Top.rest)
      /\ Tail(Top.rest) \in Seq(Node)
      /\ ToSet(Top.rest) = ToSet(Tail(Top.rest)) \cup {Head(Top.rest)}
  BY <1>1, TailFacts
<1>3. moved \in Frame /\ moved.node = Top.node /\ moved.rest = Tail(Top.rest)
  BY <1>1, <1>2 DEF Frame
<1>4. /\ Front(stack) \in Seq(Frame) /\ Len(Front(stack)) = Len(stack) - 1
      /\ DOMAIN Front(stack) = 1 .. Len(stack) - 1
      /\ \A i \in 1 .. Len(stack) - 1 : Front(stack)[i] = stack[i]
  BY FrontFacts
<1> HIDE DEF moved
<1>5. Advanced = Append(Front(stack), moved)
  BY DEF Advanced, moved
<1>6. /\ Advanced \in Seq(Frame) /\ Len(Advanced) = Len(Front(stack)) + 1
      /\ \A i \in DOMAIN Front(stack) : Advanced[i] = Front(stack)[i]
      /\ Advanced[Len(Front(stack)) + 1] = moved
      /\ DOMAIN Advanced = 1 .. Len(Front(stack)) + 1
  BY <1>3, <1>4, <1>5, AppendFacts
<1>7. /\ Len(Advanced) = Len(stack) /\ DOMAIN Advanced = DOMAIN stack
      /\ Advanced[Len(stack)] = moved
      /\ \A i \in DOMAIN stack : i # Len(stack) => Advanced[i] = stack[i]
  BY <1>1, <1>4, <1>6
<1>8. Advanced # <<>>
  BY <1>1, <1>7, NoElements
<1> QED
  BY <1>1, <1>2, <1>3, <1>6, <1>7, <1>8

\* Calling the function for a target: the advanced stack, and a frame on top of it.
LEMMA PushedFacts ==
  ASSUME stack \in Seq(Frame), stack # <<>>, Top.rest # <<>>, NEW f \in Frame
  PROVE  LET pushed == Append(Advanced, f) IN
         /\ pushed \in Seq(Frame) /\ pushed # <<>>
         /\ Len(pushed) = Len(stack) + 1
         /\ DOMAIN pushed = 1 .. Len(stack) + 1
         /\ pushed[Len(stack) + 1] = f
         /\ \A i \in DOMAIN stack :
               /\ pushed[i].node = stack[i].node
               /\ i # Len(stack) => pushed[i] = stack[i]
         /\ pushed[Len(stack)].rest = Tail(Top.rest)
<1> DEFINE pushed == Append(Advanced, f)
<1>1. /\ Len(stack) \in DOMAIN stack /\ DOMAIN stack = 1 .. Len(stack)
      /\ Len(stack) \in Nat \ {0}
  BY TopFacts
<1>2. /\ Advanced \in Seq(Frame) /\ Len(Advanced) = Len(stack)
      /\ DOMAIN Advanced = DOMAIN stack
      /\ \A i \in DOMAIN stack :
            /\ Advanced[i].node = stack[i].node
            /\ i # Len(stack) => Advanced[i] = stack[i]
      /\ Advanced[Len(stack)].rest = Tail(Top.rest)
  BY AdvancedFacts
<1>3. /\ pushed \in Seq(Frame) /\ Len(pushed) = Len(stack) + 1
      /\ DOMAIN pushed = 1 .. Len(stack) + 1
      /\ pushed[Len(stack) + 1] = f
      /\ \A i \in DOMAIN stack : pushed[i] = Advanced[i]
  BY <1>2, AppendFacts
<1>4. pushed # <<>>
  BY <1>1, <1>3, NoElements
<1> QED
  BY <1>1, <1>2, <1>3, <1>4

----------------------------------------------------------------------------
(* Steps outside a walk.                                                   *)

LEMMA InitInv == Init => Inv
<1> SUFFICES ASSUME Init PROVE Inv
  OBVIOUS
<1>1. GraphOK(graph)
  BY EmptyGraphOK DEF Init
<1>2. TypeOK
  BY <1>1 DEF Init, TypeOK, GraphOK, Color
<1> QED
  BY <1>1, <1>2 DEF Init, Inv, TargetsFirst, CycleIsReal

\* The graph may be added to while no walk is under way.
LEMMA BuiltInv ==
  ASSUME Inv, walk = "none", GraphOK(graph'), UNCHANGED walkVars
  PROVE  Inv'
<1>1. TypeOK'
  BY DEF Inv, TypeOK, GraphOK, walkVars
<1> QED
  BY <1>1 DEF Inv, TargetsFirst, CycleIsReal, walkVars

LEMMA BuildInv ==
  ASSUME Inv,
         \/ \E n \in Node : AddNode(n)
         \/ \E from, to \in Node : AddEdge(from, to)
  PROVE  Inv'
<1>1. GraphOK(graph')
  BY WithNodeOK, WithEdgeOK DEF Inv, TypeOK, AddNode, AddEdge
<1>2. walk = "none" /\ UNCHANGED walkVars
  BY DEF Inv, AddNode, AddEdge
<1> QED
  BY <1>1, <1>2, BuiltInv

\* A walk over any well formed graph.
LEMMA BeginInv ==
  ASSUME NEW g, GraphOK(g), NEW w \in {"dfs", "bfs", "ts"}, Begin(w, g), graph' = g
  PROVE  Inv'
<1>1. /\ graph' = g /\ walk' = w /\ roots' = g.keys /\ stack' = <<>>
      /\ queue' = <<>> /\ mark' = [n \in Node |-> "white"] /\ calls' = <<>>
      /\ outcome' = "running"
  BY DEF Begin
<1>2. /\ g \in Graph /\ g.keys \in Seq(Node) /\ IsInjective(g.keys)
      /\ GraphOK(graph)'
  BY <1>1 DEF GraphOK, Graph
<1>3. TypeOK'
  BY <1>1, <1>2 DEF TypeOK, Color
<1>4. RootsOK' /\ FramesOK' /\ CallsOK'
  BY <1>1, <1>2, NoElements DEF RootsOK, FramesOK, CallsOK
<1>5. /\ stack' = <<>> /\ DOMAIN stack' = {} /\ Len(stack') = 0
      /\ ToSet(queue') = {} /\ ToSet(calls') = {} /\ IsInjective(queue')
      /\ \A n \in Node : mark'[n] = "white"
  BY <1>1, NoElements
<1>6. TsOK'
  BY <1>1, <1>5 DEF TsOK, GreyPath, Explored
<1>7. DfsOK'
  BY <1>1, <1>5 DEF DfsOK
<1>8. BfsOK'
  <2>1. ToSet(roots') \subseteq Node
    BY <1>1, <1>2 DEF ToSet
  <2> QED
    BY <1>1, <1>5, <2>1 DEF BfsOK
<1>9. TargetsFirst'
  BY <1>1, NoElements DEF TargetsFirst
<1> QED
  BY <1>1, <1>2, <1>3, <1>4, <1>6, <1>7, <1>8, <1>9 DEF Inv, CycleIsReal

LEMMA StartInv ==
  ASSUME Inv, NEW w \in Walks, Start(w)
  PROVE  Inv'
<1>1. w \in {"dfs", "bfs", "ts"} /\ GraphOK(graph) /\ Begin(w, graph) /\ graph' = graph
  BY WalksAssumption DEF Inv, TypeOK, Start
<1> QED
  BY <1>1, BeginInv

LEMMA ReturnInv ==
  ASSUME Inv, Return
  PROVE  Inv'
<1>1. TypeOK'
  BY DEF Inv, TypeOK, Return, Color
<1> QED
  BY <1>1 DEF Inv, Return, TargetsFirst, CycleIsReal

LEMMA FinishInv ==
  ASSUME Inv, Finish
  PROVE  Inv'
<1>1. /\ outcome = "running" /\ outcome' = "ok" /\ Exhausted /\ walk \in {"ts", "dfs", "bfs"}
      /\ UNCHANGED <<graph, walk, roots, stack, queue, mark, calls>>
  BY DEF Inv, Finish, TypeOK
<1>2. TypeOK' /\ GraphOK(graph)'
  BY <1>1 DEF Inv, TypeOK
<1>3. RootsOK' /\ FramesOK' /\ CallsOK'
  BY <1>1 DEF Inv, RootsOK, FramesOK, CallsOK
<1>4. (walk = "ts" => TsOK)' /\ (walk = "dfs" => DfsOK)' /\ (walk = "bfs" => BfsOK)'
  BY <1>1 DEF Inv, TsOK, GreyPath, Explored, DfsOK, BfsOK, Top
<1> QED
  BY <1>1, <1>2, <1>3, <1>4 DEF Inv, Exhausted, TargetsFirst, CycleIsReal

----------------------------------------------------------------------------
(* Parts of the invariant that the walks keep in the same way.             *)

LEMMA KeysAreNodes == ASSUME graph \in Graph PROVE ToSet(graph.keys) \subseteq Node
<1>1. graph.keys \in Seq(Node)
  BY DEF Graph
<1> QED
  BY <1>1, ElementOfSeq, LenProperties DEF ToSet

LEMMA TargetsAreNodes ==
  ASSUME graph \in Graph, NEW n \in Node PROVE Targets(graph, n) \subseteq Node
<1>1. graph.targets[n] \in Seq(Node)
  BY DEF Graph
<1> QED
  BY <1>1, ElementOfSeq, LenProperties DEF ToSet, Targets

LEMMA TailInjective ==
  ASSUME NEW S, NEW s \in Seq(S), s # <<>>, IsInjective(s)
  PROVE  IsInjective(Tail(s)) /\ Head(s) \notin ToSet(Tail(s))
<1>1. /\ Head(s) = s[1] /\ 1 \in DOMAIN s
      /\ \A i \in DOMAIN Tail(s) : i \in Nat \ {0} /\ i + 1 \in DOMAIN s /\ Tail(s)[i] = s[i + 1]
  BY TailFacts, LenProperties, EmptySeq
<1> QED
  BY <1>1 DEF IsInjective, ToSet

LEMMA AppendInjectiveSeq ==
  ASSUME NEW S, NEW s \in Seq(S), NEW x \in S, IsInjective(s), x \notin ToSet(s)
  PROVE  IsInjective(Append(s, x))
  BY AppendFacts DEF IsInjective, ToSet

\* Marks are never taken back, so keys that were seen stay seen.
LEMMA RootsKept ==
  ASSUME graph \in Graph, RootsOK, UNCHANGED <<graph, walk, roots>>,
         \A n \in Node : mark[n] # "white" => mark'[n] # "white"
  PROVE  RootsOK'
  BY KeysAreNodes DEF RootsOK

LEMMA RootTaken ==
  ASSUME graph \in Graph, RootsOK, roots \in Seq(Node), roots # <<>>,
         roots' = Tail(roots), UNCHANGED <<graph, walk>>,
         \A n \in Node : mark[n] # "white" => mark'[n] # "white",
         mark'[Head(roots)] # "white" \/ (walk = "bfs" /\ ~Starting(graph, Head(roots)))
  PROVE  RootsOK'
<1>1. /\ ToSet(roots) = ToSet(roots') \cup {Head(roots)}
      /\ IsInjective(roots')
  BY TailFacts, TailInjective DEF RootsOK
<1> QED
  BY <1>1, KeysAreNodes DEF RootsOK

LEMMA RootFacts ==
  ASSUME graph \in Graph, RootsOK, roots \in Seq(Node), roots # <<>>
  PROVE  /\ Head(roots) \in Node /\ Head(roots) \in ToSet(graph.keys)
         /\ Tail(roots) \in Seq(Node)
         /\ ToSet(roots) = ToSet(Tail(roots)) \cup {Head(roots)}
         /\ Head(roots) \notin ToSet(Tail(roots))
  BY TailFacts, TailInjective DEF RootsOK

\* A frame that was just entered has all targets of its node left.
LEMMA FramesEntered ==
  ASSUME graph \in Graph, UNCHANGED graph, NEW n \in ToSet(graph.keys), stack' = <<FrameOf(n)>>
  PROVE  FramesOK'
<1>1. n \in Node
  BY KeysAreNodes
<1>2. FrameOf(n).node = n /\ ToSet(FrameOf(n).rest) = Targets(graph, n)
  BY <1>1, FrameOfFacts
<1>3. \A i \in DOMAIN stack' : stack'[i] = FrameOf(n)
  OBVIOUS
<1> QED
  BY <1>2, <1>3 DEF FramesOK

LEMMA FramesAdvanced ==
  ASSUME FramesOK, stack \in Seq(Frame), stack # <<>>, Top.rest # <<>>,
         UNCHANGED graph, stack' = Advanced
  PROVE  FramesOK'
<1>1. Len(stack) \in DOMAIN stack /\ Top = stack[Len(stack)]
  BY TopFacts
<1> QED
  BY <1>1, AdvancedFacts DEF FramesOK

LEMMA FramesPushed ==
  ASSUME FramesOK, stack \in Seq(Frame), stack # <<>>, Top.rest # <<>>,
         GraphOK(graph), UNCHANGED graph, stack' = Append(Advanced, FrameOf(Head(Top.rest)))
  PROVE  FramesOK'
<1> DEFINE n == Head(Top.rest)
<1>1. Len(stack) \in DOMAIN stack /\ Top = stack[Len(stack)] /\ Top.node \in Node
  BY TopFacts
<1>2. n \in Node /\ n \in Targets(graph, Top.node) /\ ToSet(Tail(Top.rest)) \subseteq ToSet(Top.rest)
  BY <1>1, AdvancedFacts DEF FramesOK
<1>3. n \in ToSet(graph.keys)
  BY <1>1, <1>2 DEF GraphOK
<1>4. FrameOf(n) \in Frame /\ FrameOf(n).node = n /\ ToSet(FrameOf(n).rest) = Targets(graph, n)
  BY <1>2, FrameOfFacts DEF GraphOK
<1>5. /\ DOMAIN stack' = 1 .. Len(stack) + 1
      /\ stack'[Len(stack) + 1] = FrameOf(n)
      /\ \A i \in DOMAIN stack :
            /\ stack'[i].node = stack[i].node
            /\ i # Len(stack) => stack'[i] = stack[i]
      /\ stack'[Len(stack)].rest = Tail(Top.rest)
  BY <1>4, PushedFacts
<1> HIDE DEF n
<1>6. \A i \in DOMAIN stack' : i = Len(stack) + 1 \/ i \in DOMAIN stack
  BY <1>5, LenProperties
<1> SUFFICES ASSUME NEW i \in DOMAIN stack'
             PROVE  /\ stack'[i].node \in ToSet(graph.keys)
                    /\ ToSet(stack'[i].rest) \subseteq Targets(graph, stack'[i].node)
  BY DEF FramesOK
<1>7. CASE i = Len(stack) + 1
  BY <1>3, <1>4, <1>5, <1>7
<1>8. CASE i = Len(stack)
  BY <1>1, <1>2, <1>5, <1>8 DEF FramesOK
<1>9. CASE i \in DOMAIN stack /\ i # Len(stack)
  BY <1>5, <1>9 DEF FramesOK
<1> QED
  BY <1>6, <1>7, <1>8, <1>9

LEMMA FramesPopped ==
  ASSUME FramesOK, stack \in Seq(Frame), stack # <<>>, UNCHANGED graph, stack' = Front(stack)
  PROVE  FramesOK'
<1>1. \A i \in DOMAIN stack' : i \in DOMAIN stack /\ stack'[i] = stack[i]
  BY FrontFacts, LenProperties
<1> QED
  BY <1>1 DEF FramesOK

----------------------------------------------------------------------------
(* Steps of ts.                                                            *)

LEMMA TsFacts ==
  ASSUME Inv, Walking("ts")
  PROVE  /\ TypeOK /\ GraphOK(graph) /\ graph \in Graph
         /\ RootsOK /\ FramesOK /\ CallsOK /\ TsOK
         /\ walk = "ts" /\ outcome = "running"
         /\ roots \in Seq(Node) /\ stack \in Seq(Frame) /\ calls \in Seq(Node)
         /\ mark \in [Node -> Color]
         /\ TargetsFirst
  BY DEF Inv, Walking, TypeOK, GraphOK

LEMMA TsRootInv ==
  ASSUME Inv, TsRoot
  PROVE  Inv'
<1> DEFINE h == Head(roots)
<1>1. /\ Walking("ts") /\ stack = <<>> /\ roots # <<>> /\ roots' = Tail(roots)
      /\ UNCHANGED <<graph, walk, queue, calls, outcome>>
  BY DEF TsRoot
<1>2. /\ TypeOK /\ GraphOK(graph) /\ graph \in Graph
      /\ RootsOK /\ FramesOK /\ CallsOK /\ TsOK
      /\ walk = "ts" /\ outcome = "running"
      /\ roots \in Seq(Node) /\ mark \in [Node -> Color]
      /\ TargetsFirst
  BY <1>1, TsFacts
<1>3. h \in Node /\ h \in ToSet(graph.keys) /\ Tail(roots) \in Seq(Node)
  BY <1>1, <1>2, RootFacts
<1>4. CallsOK' /\ GraphOK(graph)' /\ TargetsFirst'
  BY <1>1, <1>2 DEF CallsOK, TargetsFirst
<1>5. CASE mark[h] = "white"
  <2>1. stack' = <<FrameOf(h)>> /\ mark' = [mark EXCEPT ![h] = "grey"]
    BY <1>5 DEF TsRoot
  <2>2. /\ FrameOf(h) \in Frame /\ FrameOf(h).node = h
        /\ ToSet(FrameOf(h).rest) = Targets(graph, h)
    BY <1>2, <1>3, FrameOfFacts
  <2>3. mark' \in [Node -> Color] /\ mark'[h] = "grey"
        /\ \A n \in Node : n # h => mark'[n] = mark[n]
    BY <1>2, <1>3, <2>1 DEF Color
  <2>4. /\ stack' \in Seq(Frame) /\ DOMAIN stack' = 1 .. 1
        /\ \A i \in DOMAIN stack' : i = 1 /\ stack'[i] = FrameOf(h)
    <3> HIDE DEF h
    <3> QED
      BY <2>1, <2>2, OneFrame
  <2>5. TypeOK'
    BY <1>1, <1>2, <1>3, <2>3, <2>4 DEF TypeOK
  <2>6. RootsOK'
    BY <1>1, <1>2, <2>3, RootTaken
  <2>7. FramesOK'
    BY <1>1, <1>2, <1>3, <2>1, FramesEntered
  <2>8. \A n \in Node : mark[n] # "grey"
    BY <1>1, <1>2, NoElements DEF TsOK, GreyPath
  <2>9. GreyPath' /\ Explored'
    BY <1>1, <2>2, <2>3, <2>4, <2>8 DEF GreyPath, Explored
  <2>a. \A n \in ToSet(calls) : mark[n] = "black" /\ n \in Node
    BY <1>2, KeysAreNodes DEF TsOK, CallsOK
  <2>b. TsOK'
    BY <1>1, <1>2, <1>5, <2>3, <2>9, <2>a DEF TsOK
  <2> QED
    BY <1>1, <1>2, <1>4, <2>5, <2>6, <2>7, <2>b DEF Inv, CycleIsReal
<1>6. CASE mark[h] # "white"
  <2>1. stack' = stack /\ mark' = mark
    BY <1>6 DEF TsRoot
  <2>2. TypeOK'
    BY <1>1, <1>2, <1>3, <2>1 DEF TypeOK
  <2>3. RootsOK'
    BY <1>1, <1>2, <1>6, <2>1, RootTaken
  <2>4. FramesOK' /\ TsOK'
    BY <1>1, <1>2, <2>1 DEF FramesOK, TsOK, GreyPath, Explored
  <2> QED
    BY <1>1, <1>2, <1>4, <2>2, <2>3, <2>4 DEF Inv, CycleIsReal
<1> QED
  BY <1>5, <1>6

\* The frames from a grey target to the top are a cycle.
LEMMA GreyTargetClosesCycle ==
  ASSUME graph \in Graph, FramesOK, GreyPath, stack \in Seq(Frame), stack # <<>>, Top.rest # <<>>,
         mark[Head(Top.rest)] = "grey"
  PROVE  Cyclic(graph)
<1> DEFINE t == Head(Top.rest)
<1>1. /\ DOMAIN stack = 1 .. Len(stack) /\ Len(stack) \in DOMAIN stack
      /\ Len(stack) \in Nat \ {0} /\ Top = stack[Len(stack)]
  BY TopFacts
<1>2. t \in Node /\ t \in ToSet(Top.rest)
  BY AdvancedFacts
<1>3. PICK k \in DOMAIN stack : stack[k].node = t
  BY <1>2 DEF GreyPath
<1>4. /\ k .. Len(stack) \subseteq DOMAIN stack /\ k \in k .. Len(stack)
      /\ \A i \in k .. Len(stack) : i # Len(stack) =>
            i + 1 \in DOMAIN stack /\ i + 1 \in k .. Len(stack)
  <2> DEFINE top == Len(stack)
  <2>1. top \in Nat /\ k \in 1 .. top /\ DOMAIN stack = 1 .. top
    BY <1>1, <1>3
  <2> HIDE DEF top
  <2>2. /\ k .. top \subseteq 1 .. top /\ k \in k .. top
        /\ \A i \in k .. top : i # top => i + 1 \in 1 .. top /\ i + 1 \in k .. top
    BY <2>1
  <2> QED
    BY <2>1, <2>2 DEF top
<1> DEFINE C == {stack[i].node : i \in k .. Len(stack)}
<1>5. C \in SUBSET ToSet(graph.keys) /\ t \in C
  BY <1>3, <1>4 DEF FramesOK
<1>6. ASSUME NEW n \in C PROVE Targets(graph, n) \cap C # {}
  <2>1. PICK i \in k .. Len(stack) : n = stack[i].node
    OBVIOUS
  <2>2. CASE i = Len(stack)
    <3>1. t \in Targets(graph, n)
      BY <1>1, <1>2, <2>1, <2>2 DEF FramesOK
    <3> QED
      BY <3>1, <1>5
  <2>3. CASE i # Len(stack)
    <3>1. i \in DOMAIN stack /\ i + 1 \in DOMAIN stack /\ i + 1 \in k .. Len(stack)
      BY <1>4, <2>3
    <3>2. stack[i + 1].node \in Targets(graph, n) /\ stack[i + 1].node \in C
      BY <2>1, <3>1 DEF GreyPath
    <3> QED
      BY <3>2
  <2> QED
    BY <2>2, <2>3
<1> HIDE DEF C, t
<1> QED
  BY <1>5, <1>6 DEF Cyclic

LEMMA TsEdgeInv ==
  ASSUME Inv, TsEdge
  PROVE  Inv'
<1> DEFINE t == Head(Top.rest)
<1>1. /\ Walking("ts") /\ stack # <<>> /\ Top.rest # <<>>
      /\ UNCHANGED <<graph, walk, roots, queue, calls>>
  BY DEF TsEdge
<1>2. /\ TypeOK /\ GraphOK(graph) /\ graph \in Graph
      /\ RootsOK /\ FramesOK /\ CallsOK /\ TsOK
      /\ walk = "ts" /\ outcome = "running"
      /\ stack \in Seq(Frame) /\ mark \in [Node -> Color]
      /\ TargetsFirst
  BY <1>1, TsFacts
<1>3. /\ DOMAIN stack = 1 .. Len(stack) /\ Len(stack) \in DOMAIN stack
      /\ Len(stack) \in Nat \ {0} /\ Top = stack[Len(stack)]
  BY <1>1, <1>2, TopFacts
<1>4. t \in Node /\ t \in ToSet(Top.rest) /\ t \in Targets(graph, Top.node)
  BY <1>1, <1>2, <1>3, AdvancedFacts DEF FramesOK
<1>5. CallsOK' /\ GraphOK(graph)' /\ TargetsFirst'
  BY <1>1, <1>2 DEF CallsOK, TargetsFirst
<1>6. CASE mark[t] = "grey" /\ outcome' = "cycle" /\ UNCHANGED <<stack, mark>>
  <2>1. Cyclic(graph)
    BY <1>1, <1>2, <1>6, GreyTargetClosesCycle DEF TsOK
  <2>2. TypeOK' /\ RootsOK' /\ FramesOK' /\ TsOK'
    BY <1>1, <1>2, <1>6 DEF TypeOK, RootsOK, FramesOK, TsOK, GreyPath, Explored
  <2> QED
    BY <1>1, <1>2, <1>5, <1>6, <2>1, <2>2 DEF Inv, CycleIsReal
<1>7. CASE /\ mark[t] = "white" /\ stack' = Append(Advanced, FrameOf(t))
           /\ mark' = [mark EXCEPT ![t] = "grey"] /\ UNCHANGED outcome
  <2>1. /\ FrameOf(t) \in Frame /\ FrameOf(t).node = t
        /\ ToSet(FrameOf(t).rest) = Targets(graph, t)
    BY <1>2, <1>4, FrameOfFacts
  <2>2. mark' \in [Node -> Color] /\ mark'[t] = "grey"
        /\ \A n \in Node : n # t => mark'[n] = mark[n]
    BY <1>2, <1>4, <1>7 DEF Color
  <2>3. /\ stack' \in Seq(Frame)
        /\ DOMAIN stack' = 1 .. Len(stack) + 1
        /\ stack'[Len(stack) + 1] = FrameOf(t)
        /\ \A i \in DOMAIN stack :
              /\ stack'[i].node = stack[i].node
              /\ i # Len(stack) => stack'[i] = stack[i]
        /\ stack'[Len(stack)].rest = Tail(Top.rest)
    BY <1>1, <1>2, <1>7, <2>1, PushedFacts
  <2>4. \A i \in DOMAIN stack' : i = Len(stack) + 1 \/ i \in DOMAIN stack
    BY <1>3, <2>3
  <2>5. TypeOK'
    BY <1>1, <1>2, <1>7, <2>2, <2>3 DEF TypeOK
  <2>6. RootsOK'
    BY <1>1, <1>2, <1>7, <2>2, RootsKept
  <2>7. FramesOK'
    BY <1>1, <1>2, <1>7, FramesPushed
  <2>8. \A i \in DOMAIN stack : stack[i].node \in Node /\ stack[i].node # t
    BY <1>2, <1>7, KeysAreNodes DEF FramesOK, TsOK, GreyPath
  <2>9. GreyPath'
    <3>1. \A i \in DOMAIN stack' : mark'[stack'[i].node] = "grey"
      BY <1>2, <2>1, <2>2, <2>3, <2>4, <2>8 DEF TsOK, GreyPath
    <3>2. ASSUME NEW n \in Node, mark'[n] = "grey"
          PROVE  \E i \in DOMAIN stack' : stack'[i].node = n
      <4>1. CASE n = t
        BY <1>3, <2>1, <2>3, <4>1
      <4>2. CASE n # t
        BY <1>2, <1>3, <2>2, <2>3, <3>2, <4>2 DEF TsOK, GreyPath
      <4> QED
        BY <4>1, <4>2
    <3>3. \A i, j \in DOMAIN stack' : stack'[i].node = stack'[j].node => i = j
      BY <1>2, <2>1, <2>3, <2>4, <2>8 DEF TsOK, GreyPath
    <3>4. ASSUME NEW i \in DOMAIN stack', i + 1 \in DOMAIN stack'
          PROVE  stack'[i + 1].node \in Targets(graph, stack'[i].node)
      <4>1. i \in DOMAIN stack
        BY <1>3, <2>3, <3>4
      <4>2. CASE i = Len(stack)
        BY <1>3, <1>4, <2>1, <2>3, <4>1, <4>2
      <4>3. CASE i # Len(stack)
        <5>1. i + 1 \in DOMAIN stack
          BY <1>3, <4>1, <4>3
        <5> QED
          BY <1>2, <2>3, <4>1, <5>1 DEF TsOK, GreyPath
      <4> QED
        BY <4>2, <4>3
    <3> QED
      BY <1>1, <3>1, <3>2, <3>3, <3>4 DEF GreyPath
  <2>a. Explored'
    <3> SUFFICES ASSUME NEW i \in DOMAIN stack', NEW u \in Targets(graph, stack'[i].node)
                 PROVE  \/ u \in ToSet(stack'[i].rest)
                        \/ mark'[u] = "black"
                        \/ i + 1 \in DOMAIN stack' /\ u = stack'[i + 1].node
      BY <1>1 DEF Explored, Targets
    <3>1. CASE i = Len(stack) + 1
      BY <2>1, <2>3, <3>1
    <3>2. CASE i \in DOMAIN stack
      <4>1. /\ stack'[i].node = stack[i].node /\ stack[i].node \in Node
            /\ i + 1 \in DOMAIN stack'
        BY <1>3, <2>3, <2>8, <3>2
      <4>2. u \in Node
        BY <1>2, <4>1, TargetsAreNodes
      <4>3. \/ u \in ToSet(stack[i].rest)
            \/ mark[u] = "black"
            \/ i + 1 \in DOMAIN stack /\ u = stack[i + 1].node
        BY <1>2, <3>2, <4>1 DEF TsOK, Explored
      <4>4. CASE mark[u] = "black"
        BY <1>7, <2>2, <4>2, <4>4
      <4>5. CASE i # Len(stack)
        BY <2>3, <3>2, <4>1, <4>3, <4>4, <4>5
      <4>6. CASE i = Len(stack) /\ u \in ToSet(Top.rest)
        <5>1. u \in ToSet(Tail(Top.rest)) \/ u = t
          BY <1>1, <1>2, <4>6, AdvancedFacts
        <5> QED
          BY <2>1, <2>3, <4>1, <4>6, <5>1
      <4>7. CASE i = Len(stack) /\ u \notin ToSet(Top.rest)
        BY <1>3, <4>3, <4>4, <4>7
      <4> QED
        BY <4>5, <4>6, <4>7
    <3> QED
      BY <2>4, <3>1, <3>2
  <2>b. \A n \in ToSet(calls) : mark[n] = "black" /\ n \in Node
    BY <1>2, KeysAreNodes DEF TsOK, CallsOK
  <2>c. TsOK'
    BY <1>1, <1>2, <1>7, <2>2, <2>9, <2>a, <2>b DEF TsOK
  <2> QED
    BY <1>1, <1>2, <1>5, <1>7, <2>5, <2>6, <2>7, <2>c DEF Inv, CycleIsReal
<1>8. CASE mark[t] = "black" /\ stack' = Advanced /\ UNCHANGED <<mark, outcome>>
  <2>1. /\ stack' \in Seq(Frame) /\ DOMAIN stack' = DOMAIN stack
        /\ \A i \in DOMAIN stack :
              /\ stack'[i].node = stack[i].node
              /\ i # Len(stack) => stack'[i] = stack[i]
        /\ stack'[Len(stack)].rest = Tail(Top.rest)
        /\ ToSet(Top.rest) = ToSet(Tail(Top.rest)) \cup {t}
    BY <1>1, <1>2, <1>8, AdvancedFacts
  <2>2. TypeOK'
    BY <1>1, <1>2, <1>8, <2>1 DEF TypeOK
  <2>3. RootsOK'
    BY <1>1, <1>2, <1>8, RootsKept
  <2>4. FramesOK'
    BY <1>1, <1>2, <1>8, FramesAdvanced
  <2>5. GreyPath'
    BY <1>1, <1>2, <1>8, <2>1 DEF TsOK, GreyPath
  <2>6. Explored'
    <3> SUFFICES ASSUME NEW i \in DOMAIN stack, NEW u \in Targets(graph, stack[i].node)
                 PROVE  \/ u \in ToSet(stack'[i].rest)
                        \/ mark[u] = "black"
                        \/ i + 1 \in DOMAIN stack /\ u = stack'[i + 1].node
      BY <1>1, <1>8, <2>1 DEF Explored, Targets
    <3>1. \/ u \in ToSet(stack[i].rest)
          \/ mark[u] = "black"
          \/ i + 1 \in DOMAIN stack /\ u = stack[i + 1].node
      BY <1>2 DEF TsOK, Explored
    <3>2. CASE i = Len(stack)
      BY <1>3, <1>8, <2>1, <3>1, <3>2
    <3>3. CASE i # Len(stack)
      BY <2>1, <3>1, <3>3
    <3> QED
      BY <3>2, <3>3
  <2>7. TsOK'
    BY <1>1, <1>2, <1>8, <2>5, <2>6 DEF TsOK
  <2> QED
    BY <1>1, <1>2, <1>5, <1>8, <2>2, <2>3, <2>4, <2>7 DEF Inv, CycleIsReal
<1> QED
  BY <1>6, <1>7, <1>8 DEF TsEdge

LEMMA TsVisitInv ==
  ASSUME Inv, NEW ok \in BOOLEAN, TsVisit(ok)
  PROVE  Inv'
<1> DEFINE n == Top.node
<1>1. /\ Walking("ts") /\ stack # <<>> /\ Top.rest = <<>> /\ calls' = Append(calls, n)
      /\ UNCHANGED <<graph, walk, roots, queue>>
  BY DEF TsVisit
<1>2. /\ TypeOK /\ GraphOK(graph) /\ graph \in Graph
      /\ RootsOK /\ FramesOK /\ CallsOK /\ TsOK
      /\ walk = "ts" /\ outcome = "running"
      /\ stack \in Seq(Frame) /\ calls \in Seq(Node) /\ mark \in [Node -> Color]
      /\ TargetsFirst
  BY <1>1, TsFacts
<1>3. /\ DOMAIN stack = 1 .. Len(stack) /\ Len(stack) \in DOMAIN stack
      /\ Len(stack) \in Nat \ {0} /\ Top = stack[Len(stack)] /\ n \in Node
  BY <1>1, <1>2, TopFacts
<1>4. n \in ToSet(graph.keys) /\ mark[n] = "grey" /\ n \notin ToSet(calls)
  BY <1>2, <1>3 DEF FramesOK, TsOK, GreyPath
<1>5. \A t \in Targets(graph, n) : mark[t] = "black" /\ t \in ToSet(calls)
  <2>1. ToSet(Top.rest) = {} /\ Len(stack) + 1 \notin DOMAIN stack
    BY <1>1, <1>3, NoElements
  <2>2. \A t \in Targets(graph, n) : mark[t] = "black" /\ t \in Node
    BY <1>2, <1>3, <2>1, TargetsAreNodes DEF TsOK, Explored
  <2> QED
    BY <1>2, <2>2 DEF TsOK
<1> HIDE DEF n
<1>6. /\ calls' \in Seq(Node) /\ ToSet(calls') = ToSet(calls) \cup {n}
      /\ DOMAIN calls' = 1 .. Len(calls) + 1 /\ calls'[Len(calls) + 1] = n
      /\ \A i \in DOMAIN calls : i \in DOMAIN calls' /\ calls'[i] = calls[i]
      /\ DOMAIN calls = 1 .. Len(calls) /\ Len(calls) \in Nat
  BY <1>1, <1>2, <1>3, AppendFacts, LenProperties
<1>7. CallsOK' /\ GraphOK(graph)'
  BY <1>1, <1>2, <1>3, <1>4, <1>6, AppendInjectiveSeq DEF CallsOK
<1>8. TargetsFirst'
  <2> SUFFICES ASSUME NEW i \in DOMAIN calls', NEW t \in Targets(graph, calls'[i])
               PROVE  \E j \in DOMAIN calls' : j < i /\ calls'[j] = t
    BY <1>1 DEF TargetsFirst, Targets
  <2>1. CASE i = Len(calls) + 1
    <3>1. PICK j \in DOMAIN calls : calls[j] = t
      BY <1>5, <1>6, <2>1 DEF ToSet
    <3> QED
      BY <1>6, <2>1, <3>1
  <2>2. CASE i \in DOMAIN calls
    <3>1. PICK j \in DOMAIN calls : j < i /\ calls[j] = t
      BY <1>2, <1>6, <2>2 DEF TargetsFirst
    <3> QED
      BY <1>6, <3>1
  <2> QED
    BY <1>6, <2>1, <2>2
<1>9. CASE ~ok
  <2>1. outcome' = "failed" /\ UNCHANGED <<mark, stack>>
    BY <1>9 DEF TsVisit
  <2>2. TypeOK' /\ RootsOK' /\ FramesOK'
    BY <1>1, <1>2, <1>6, <2>1 DEF TypeOK, RootsOK, FramesOK
  <2>3. TsOK'
    BY <1>1, <1>2, <1>6, <2>1 DEF TsOK, GreyPath, Explored
  <2> QED
    BY <1>1, <1>2, <1>7, <1>8, <2>1, <2>2, <2>3 DEF Inv, CycleIsReal
<1>a. CASE ok
  <2>1. mark' = [mark EXCEPT ![n] = "black"] /\ stack' = Front(stack) /\ outcome' = outcome
    BY <1>a DEF TsVisit, n
  <2>2. mark' \in [Node -> Color] /\ mark'[n] = "black"
        /\ \A m \in Node : m # n => mark'[m] = mark[m]
    BY <1>2, <1>3, <2>1 DEF Color
  <2>3. /\ stack' \in Seq(Frame) /\ DOMAIN stack' = 1 .. Len(stack) - 1
        /\ \A i \in DOMAIN stack' : /\ stack'[i] = stack[i]
                                    /\ i \in DOMAIN stack /\ i # Len(stack)
    <3>1. /\ stack' \in Seq(Frame) /\ DOMAIN stack' = 1 .. Len(stack) - 1
          /\ \A i \in 1 .. Len(stack) - 1 : stack'[i] = stack[i]
      BY <1>1, <1>2, <2>1, FrontFacts
    <3>2. \A i \in 1 .. Len(stack) - 1 : i \in DOMAIN stack /\ i # Len(stack)
      <4> DEFINE top == Len(stack)
      <4>1. top \in Nat /\ DOMAIN stack = 1 .. top
        BY <1>3
      <4> HIDE DEF top
      <4>2. \A i \in 1 .. top - 1 : i \in 1 .. top /\ i # top
        BY <4>1
      <4> QED
        BY <4>1, <4>2 DEF top
    <3> QED
      BY <3>1, <3>2
  <2>4. TypeOK'
    BY <1>1, <1>2, <1>6, <2>1, <2>2, <2>3 DEF TypeOK
  <2>5. RootsOK'
    BY <1>1, <1>2, <2>2, RootsKept
  <2>6. FramesOK'
    BY <1>1, <1>2, <2>1, FramesPopped
  <2>7. \A i \in DOMAIN stack' : stack'[i].node # n /\ stack'[i].node \in Node
    BY <1>2, <1>3, <2>3, KeysAreNodes DEF TsOK, GreyPath, FramesOK, n
  <2>8. GreyPath'
    <3>1. \A i \in DOMAIN stack' : mark'[stack'[i].node] = "grey"
      BY <1>2, <2>2, <2>3, <2>7 DEF TsOK, GreyPath
    <3>2. ASSUME NEW m \in Node, mark'[m] = "grey"
          PROVE  \E i \in DOMAIN stack' : stack'[i].node = m
      <4>1. m # n /\ mark[m] = "grey"
        BY <2>2, <3>2
      <4>2. PICK i \in DOMAIN stack : stack[i].node = m
        BY <1>2, <4>1 DEF TsOK, GreyPath
      <4>3. i # Len(stack)
        BY <1>3, <4>1, <4>2 DEF n
      <4>4. i \in DOMAIN stack'
        BY <1>3, <2>3, <4>3
      <4> QED
        BY <2>3, <4>2, <4>4
    <3>3. \A i, j \in DOMAIN stack' : stack'[i].node = stack'[j].node => i = j
      BY <1>2, <2>3 DEF TsOK, GreyPath
    <3>4. \A i \in DOMAIN stack' :
             i + 1 \in DOMAIN stack' => stack'[i + 1].node \in Targets(graph, stack'[i].node)
      BY <1>2, <2>3 DEF TsOK, GreyPath
    <3> QED
      BY <1>1, <3>1, <3>2, <3>3, <3>4 DEF GreyPath
  <2>9. Explored'
    <3> SUFFICES ASSUME NEW i \in DOMAIN stack', NEW t \in Targets(graph, stack'[i].node)
                 PROVE  \/ t \in ToSet(stack'[i].rest)
                        \/ mark'[t] = "black"
                        \/ i + 1 \in DOMAIN stack' /\ t = stack'[i + 1].node
      BY <1>1 DEF Explored, Targets
    <3>1. t \in Node /\ i \in DOMAIN stack /\ stack'[i] = stack[i]
      BY <1>2, <2>3, <2>7, TargetsAreNodes
    <3>2. \/ t \in ToSet(stack[i].rest)
          \/ mark[t] = "black"
          \/ i + 1 \in DOMAIN stack /\ t = stack[i + 1].node
      BY <1>2, <3>1 DEF TsOK, Explored
    <3>3. CASE t = n
      BY <2>2, <3>3
    <3>4. CASE t # n
      <4>1. i + 1 \in DOMAIN stack /\ t = stack[i + 1].node => i + 1 \in DOMAIN stack'
        BY <1>3, <2>3, <3>4 DEF n
      <4> QED
        BY <2>2, <2>3, <3>1, <3>2, <3>4, <4>1
    <3> QED
      BY <3>3, <3>4
  <2>a. \A m \in ToSet(calls) : mark[m] = "black" /\ m \in Node
    BY <1>2, KeysAreNodes DEF TsOK, CallsOK
  <2>b. TsOK'
    BY <1>1, <1>2, <1>6, <2>1, <2>2, <2>8, <2>9, <2>a DEF TsOK
  <2> QED
    BY <1>1, <1>2, <1>7, <1>8, <2>1, <2>4, <2>5, <2>6, <2>b DEF Inv, CycleIsReal
<1> QED
  BY <1>9, <1>a

----------------------------------------------------------------------------
(* Steps of dfs.                                                           *)

LEMMA DfsFacts ==
  ASSUME Inv, Walking("dfs")
  PROVE  /\ TypeOK /\ GraphOK(graph) /\ graph \in Graph
         /\ RootsOK /\ FramesOK /\ CallsOK /\ DfsOK
         /\ walk = "dfs" /\ outcome = "running"
         /\ roots \in Seq(Node) /\ stack \in Seq(Frame) /\ calls \in Seq(Node)
         /\ mark \in [Node -> Color]
  BY DEF Inv, Walking, TypeOK, GraphOK

LEMMA DfsCallFacts ==
  ASSUME Inv, Walking("dfs"), NEW n \in ToSet(graph.keys), DfsCall(n), UNCHANGED <<graph, queue>>
  PROVE  /\ calls' \in Seq(Node) /\ mark' \in [Node -> Color]
         /\ CallsOK' /\ DfsOK'
         /\ \A m \in Node : mark[m] # "white" => mark'[m] # "white"
         /\ mark'[n] # "white"
<1>1. /\ graph \in Graph /\ CallsOK /\ DfsOK /\ calls \in Seq(Node) /\ mark \in [Node -> Color]
  BY DfsFacts
<1>2. n \in Node
  BY <1>1, KeysAreNodes
<1>3. CASE mark[n] = "white"
  <2>1. mark' = [mark EXCEPT ![n] = "black"] /\ calls' = Append(calls, n)
    BY <1>3 DEF DfsCall
  <2>2. n \notin ToSet(calls)
    BY <1>1, <1>2, <1>3 DEF DfsOK
  <2>3. calls' \in Seq(Node) /\ ToSet(calls') = ToSet(calls) \cup {n}
    BY <1>1, <1>2, <2>1, AppendFacts
  <2>4. IsInjective(calls')
    BY <1>1, <1>2, <2>1, <2>2, AppendInjectiveSeq DEF CallsOK
  <2>5. mark' \in [Node -> Color] /\ mark'[n] = "black"
        /\ \A m \in Node : m # n => mark'[m] = mark[m]
    BY <1>1, <1>2, <2>1 DEF Color
  <2> QED
    BY <1>1, <2>3, <2>4, <2>5 DEF CallsOK, DfsOK
<1>4. CASE mark[n] # "white"
  BY <1>1, <1>4 DEF DfsCall, CallsOK, DfsOK
<1> QED
  BY <1>3, <1>4

LEMMA DfsRootInv ==
  ASSUME Inv, DfsRoot
  PROVE  Inv'
<1> DEFINE h == Head(roots)
<1>1. /\ Walking("dfs") /\ stack = <<>> /\ roots # <<>> /\ roots' = Tail(roots)
      /\ stack' = IF mark[h] = "white" THEN <<FrameOf(h)>> ELSE <<>>
      /\ DfsCall(h)
      /\ UNCHANGED <<graph, walk, queue, outcome>>
  BY DEF DfsRoot
<1>2. /\ TypeOK /\ GraphOK(graph) /\ graph \in Graph /\ RootsOK /\ FramesOK
      /\ walk = "dfs" /\ outcome = "running" /\ roots \in Seq(Node)
  BY <1>1, DfsFacts
<1>3. h \in Node /\ h \in ToSet(graph.keys) /\ Tail(roots) \in Seq(Node)
  BY <1>1, <1>2, RootFacts
<1> HIDE DEF h
<1>4. /\ calls' \in Seq(Node) /\ mark' \in [Node -> Color]
      /\ CallsOK' /\ DfsOK'
      /\ \A m \in Node : mark[m] # "white" => mark'[m] # "white"
      /\ mark'[h] # "white"
  BY <1>1, <1>3, DfsCallFacts
<1>5. RootsOK'
  BY <1>1, <1>2, <1>4, RootTaken DEF h
<1>6. stack' \in Seq(Frame) /\ FramesOK'
  <2>1. CASE mark[h] = "white"
    BY <1>1, <1>2, <1>3, <2>1, FrameOfFacts, OneFrame, FramesEntered
  <2>2. CASE mark[h] # "white"
    BY <1>1, <1>2, <2>2, NoElements DEF FramesOK
  <2> QED
    BY <2>1, <2>2
<1>7. TypeOK' /\ GraphOK(graph)'
  BY <1>1, <1>2, <1>3, <1>4, <1>6 DEF TypeOK
<1> QED
  BY <1>1, <1>2, <1>4, <1>5, <1>6, <1>7 DEF Inv, CycleIsReal, TargetsFirst

LEMMA DfsEdgeInv ==
  ASSUME Inv, DfsEdge
  PROVE  Inv'
<1> DEFINE t == Head(Top.rest)
<1>1. /\ Walking("dfs") /\ stack # <<>> /\ Top.rest # <<>>
      /\ stack' = IF mark[t] = "white" THEN Append(Advanced, FrameOf(t)) ELSE Advanced
      /\ DfsCall(t)
      /\ UNCHANGED <<graph, walk, roots, queue, outcome>>
  BY DEF DfsEdge
<1>2. /\ TypeOK /\ GraphOK(graph) /\ graph \in Graph /\ RootsOK /\ FramesOK
      /\ walk = "dfs" /\ outcome = "running" /\ stack \in Seq(Frame)
  BY <1>1, DfsFacts
<1>3. t \in Node /\ t \in ToSet(graph.keys)
  <2>1. Len(stack) \in DOMAIN stack /\ Top = stack[Len(stack)] /\ Top.node \in Node
    BY <1>1, <1>2, TopFacts
  <2> QED
    BY <1>1, <1>2, <2>1, AdvancedFacts DEF FramesOK, GraphOK
<1>4. /\ calls' \in Seq(Node) /\ mark' \in [Node -> Color]
      /\ CallsOK' /\ DfsOK'
      /\ \A m \in Node : mark[m] # "white" => mark'[m] # "white"
  BY <1>1, <1>3, DfsCallFacts
<1>5. RootsOK'
  BY <1>1, <1>2, <1>4, RootsKept
<1>6. stack' \in Seq(Frame) /\ FramesOK'
  <2>1. CASE mark[t] = "white"
    <3>1. FrameOf(t) \in Frame
      BY <1>2, <1>3, FrameOfFacts
    <3> QED
      BY <1>1, <1>2, <2>1, <3>1, PushedFacts, FramesPushed
  <2>2. CASE mark[t] # "white"
    BY <1>1, <1>2, <2>2, AdvancedFacts, FramesAdvanced
  <2> QED
    BY <2>1, <2>2
<1>7. TypeOK' /\ GraphOK(graph)'
  BY <1>1, <1>2, <1>4, <1>6 DEF TypeOK
<1> QED
  BY <1>1, <1>2, <1>4, <1>5, <1>6, <1>7 DEF Inv, CycleIsReal, TargetsFirst

LEMMA DfsReturnInv ==
  ASSUME Inv, DfsReturn
  PROVE  Inv'
<1>1. /\ Walking("dfs") /\ stack # <<>> /\ stack' = Front(stack)
      /\ UNCHANGED <<graph, walk, roots, queue, mark, calls, outcome>>
  BY DEF DfsReturn
<1>2. /\ TypeOK /\ GraphOK(graph) /\ RootsOK /\ FramesOK /\ CallsOK /\ DfsOK
      /\ walk = "dfs" /\ outcome = "running" /\ stack \in Seq(Frame)
  BY <1>1, DfsFacts
<1>3. FramesOK' /\ TypeOK'
  BY <1>1, <1>2, FramesPopped, FrontFacts DEF TypeOK
<1>4. RootsOK' /\ CallsOK' /\ DfsOK' /\ GraphOK(graph)'
  BY <1>1, <1>2 DEF RootsOK, CallsOK, DfsOK
<1> QED
  BY <1>1, <1>2, <1>3, <1>4 DEF Inv, CycleIsReal, TargetsFirst

----------------------------------------------------------------------------
(* Steps of bfs.                                                           *)

LEMMA BfsFacts ==
  ASSUME Inv, Walking("bfs")
  PROVE  /\ TypeOK /\ GraphOK(graph) /\ graph \in Graph
         /\ RootsOK /\ FramesOK /\ CallsOK /\ BfsOK
         /\ walk = "bfs" /\ outcome = "running"
         /\ roots \in Seq(Node) /\ stack \in Seq(Frame) /\ calls \in Seq(Node)
         /\ queue \in Seq(Node) /\ mark \in [Node -> Color]
  BY DEF Inv, Walking, TypeOK, GraphOK

LEMMA BfsRootInv ==
  ASSUME Inv, BfsRoot
  PROVE  Inv'
<1> DEFINE h == Head(roots)
<1>1. /\ Walking("bfs") /\ stack = <<>> /\ queue = <<>> /\ roots # <<>> /\ roots' = Tail(roots)
      /\ UNCHANGED <<graph, walk, stack, calls, outcome>>
  BY DEF BfsRoot
<1>2. /\ TypeOK /\ GraphOK(graph) /\ graph \in Graph
      /\ RootsOK /\ FramesOK /\ CallsOK /\ BfsOK
      /\ walk = "bfs" /\ outcome = "running"
      /\ roots \in Seq(Node) /\ calls \in Seq(Node) /\ mark \in [Node -> Color]
  BY <1>1, BfsFacts
<1>3. /\ h \in Node /\ h \in ToSet(graph.keys) /\ Tail(roots) \in Seq(Node)
      /\ ToSet(roots) = ToSet(Tail(roots)) \cup {h} /\ h \notin ToSet(Tail(roots))
  BY <1>1, <1>2, RootFacts
<1>4. ToSet(Tail(roots)) \subseteq Node /\ ToSet(calls) \subseteq Node /\ ToSet(queue) = {}
  BY <1>1, <1>2, <1>3, KeysAreNodes, NoElements DEF RootsOK, CallsOK
<1>5. FramesOK'
  BY <1>1, NoElements DEF FramesOK
<1>6. CASE Starting(graph, h)
  <2>1. queue' = <<h>> /\ mark' = [mark EXCEPT ![h] = "black"]
    BY <1>6 DEF BfsRoot
  <2>2. /\ queue' \in Seq(Node) /\ ToSet(queue') = {h} /\ IsInjective(queue')
    <3> HIDE DEF h
    <3>1. <<h>> \in Seq(Node) /\ DOMAIN <<h>> = {1} /\ <<h>>[1] = h
      BY <1>3
    <3> QED
      BY <2>1, <3>1 DEF ToSet, IsInjective
  <2>3. mark' \in [Node -> Color] /\ mark'[h] = "black"
        /\ \A m \in Node : m # h => mark'[m] = mark[m]
    BY <1>2, <1>3, <2>1 DEF Color
  <2>4. mark[h] = "white" /\ h \notin ToSet(calls)
    BY <1>2, <1>3, <1>6 DEF BfsOK
  <2>5. TypeOK'
    BY <1>1, <1>2, <1>3, <2>2, <2>3 DEF TypeOK
  <2>6. RootsOK'
    BY <1>1, <1>2, <2>3, RootTaken
  <2>7. CallsOK'
    BY <1>1, <1>2, <1>3, <2>2 DEF CallsOK
  <2>8. BfsOK'
    <3>1. /\ \A n \in Node : mark'[n] # "grey"
          /\ \A n \in Node : mark'[n] = "black" <=> n \in ToSet(calls') \cup ToSet(queue')
          /\ ToSet(calls') \cap ToSet(queue') = {}
      BY <1>1, <1>2, <1>4, <2>2, <2>3, <2>4 DEF BfsOK
    <3>2. \A r \in ToSet(roots') : Starting(graph', r) => mark'[r] = "white"
      BY <1>1, <1>2, <1>3, <1>4, <2>3 DEF BfsOK
    <3>3. ASSUME NEW n \in ToSet(calls'), NEW t \in Targets(graph', n)
          PROVE  mark'[t] = "black"
      <4>1. t \in Node
        BY <1>1, <1>2, <1>4, <3>3, TargetsAreNodes
      <4>2. mark[t] = "black"
        BY <1>1, <1>2, <3>3 DEF BfsOK
      <4> QED
        BY <2>3, <4>1, <4>2
    <3> QED
      BY <1>1, <2>2, <3>1, <3>2, <3>3, NoElements DEF BfsOK
  <2> QED
    BY <1>1, <1>2, <1>5, <2>5, <2>6, <2>7, <2>8 DEF Inv, CycleIsReal, TargetsFirst
<1>7. CASE ~Starting(graph, h)
  <2>1. queue' = queue /\ mark' = mark
    BY <1>7 DEF BfsRoot
  <2>2. TypeOK' /\ GraphOK(graph)' /\ CallsOK'
    BY <1>1, <1>2, <1>3, <2>1 DEF TypeOK, CallsOK
  <2>3. RootsOK'
    BY <1>1, <1>2, <1>7, <2>1, RootTaken
  <2>4. BfsOK'
    BY <1>1, <1>2, <1>3, <2>1 DEF BfsOK
  <2> QED
    BY <1>1, <1>2, <1>5, <2>2, <2>3, <2>4 DEF Inv, CycleIsReal, TargetsFirst
<1> QED
  BY <1>6, <1>7

LEMMA BfsTakeInv ==
  ASSUME Inv, NEW ok \in BOOLEAN, BfsTake(ok)
  PROVE  Inv'
<1> DEFINE h == Head(queue)
<1>1. /\ Walking("bfs") /\ stack = <<>> /\ queue # <<>> /\ queue' = Tail(queue)
      /\ calls' = Append(calls, h)
      /\ UNCHANGED <<graph, walk, roots, mark>>
  BY DEF BfsTake
<1>2. /\ TypeOK /\ GraphOK(graph) /\ graph \in Graph
      /\ RootsOK /\ FramesOK /\ CallsOK /\ BfsOK
      /\ walk = "bfs" /\ outcome = "running"
      /\ queue \in Seq(Node) /\ calls \in Seq(Node) /\ mark \in [Node -> Color]
  BY <1>1, BfsFacts
<1>3. /\ h \in Node /\ queue' \in Seq(Node) /\ IsInjective(queue')
      /\ ToSet(queue) = ToSet(queue') \cup {h} /\ h \notin ToSet(queue')
  BY <1>1, <1>2, TailFacts, TailInjective DEF BfsOK
<1>4. h \in ToSet(graph.keys) /\ h \notin ToSet(calls)
  BY <1>2, <1>3 DEF BfsOK, CallsOK
<1> HIDE DEF h
<1>5. calls' \in Seq(Node) /\ ToSet(calls') = ToSet(calls) \cup {h} /\ IsInjective(calls')
  BY <1>1, <1>2, <1>3, <1>4, AppendFacts, AppendInjectiveSeq DEF CallsOK
<1>6. CallsOK'
  BY <1>1, <1>2, <1>3, <1>4, <1>5 DEF CallsOK
<1>7. RootsOK'
  BY <1>1, <1>2 DEF RootsOK
<1>8. /\ \A n \in Node : mark'[n] # "grey"
      /\ \A n \in Node : mark'[n] = "black" <=> n \in ToSet(calls') \cup ToSet(queue')
      /\ ToSet(calls') \cap ToSet(queue') = {}
      /\ \A r \in ToSet(roots') : Starting(graph', r) => mark'[r] = "white"
  BY <1>1, <1>2, <1>3, <1>5 DEF BfsOK
<1>9. CASE ok
  <2>1. stack' = <<FrameOf(h)>> /\ outcome' = outcome
    BY <1>9 DEF BfsTake, h
  <2>2. /\ FrameOf(h) \in Frame /\ FrameOf(h).node = h
        /\ ToSet(FrameOf(h).rest) = Targets(graph, h)
    BY <1>2, <1>3, FrameOfFacts
  <2>3. stack' \in Seq(Frame) /\ Len(stack') = 1 /\ stack' # <<>> /\ Top' = FrameOf(h)
    BY <2>1, <2>2, OneFrame DEF Top
  <2>4. FramesOK'
    BY <1>1, <1>2, <1>4, <2>1, FramesEntered
  <2>5. ASSUME NEW n \in ToSet(calls'), NEW t \in Targets(graph', n)
        PROVE  mark'[t] = "black" \/ (stack' # <<>> /\ Top'.node = n /\ t \in ToSet(Top'.rest))
    <3>1. CASE n = h
      BY <1>1, <2>2, <2>3, <2>5, <3>1
    <3>2. CASE n \in ToSet(calls)
      BY <1>1, <1>2, <2>5, <3>2 DEF BfsOK
    <3> QED
      BY <1>5, <3>1, <3>2
  <2>6. BfsOK'
    BY <1>3, <1>8, <2>3, <2>5 DEF BfsOK
  <2>7. TypeOK'
    BY <1>1, <1>2, <1>3, <1>5, <2>1, <2>3 DEF TypeOK
  <2> QED
    BY <1>1, <1>2, <1>6, <1>7, <2>1, <2>4, <2>6, <2>7 DEF Inv, CycleIsReal, TargetsFirst
<1>a. CASE ~ok
  <2>1. outcome' = "failed" /\ stack' = stack
    BY <1>a DEF BfsTake
  <2>2. TypeOK' /\ FramesOK'
    BY <1>1, <1>2, <1>3, <1>5, <2>1 DEF TypeOK, FramesOK
  <2>3. BfsOK'
    BY <1>1, <1>2, <1>3, <1>8, <2>1 DEF BfsOK
  <2> QED
    BY <1>1, <1>2, <1>6, <1>7, <2>1, <2>2, <2>3 DEF Inv, CycleIsReal, TargetsFirst
<1> QED
  BY <1>9, <1>a

LEMMA BfsEdgeInv ==
  ASSUME Inv, BfsEdge
  PROVE  Inv'
<1> DEFINE t == Head(Top.rest)
<1>1. /\ Walking("bfs") /\ stack # <<>> /\ Top.rest # <<>> /\ stack' = Advanced
      /\ UNCHANGED <<graph, walk, roots, calls, outcome>>
  BY DEF BfsEdge
<1>2. /\ TypeOK /\ GraphOK(graph) /\ graph \in Graph
      /\ RootsOK /\ FramesOK /\ CallsOK /\ BfsOK
      /\ walk = "bfs" /\ outcome = "running" /\ stack \in Seq(Frame)
      /\ queue \in Seq(Node) /\ calls \in Seq(Node) /\ mark \in [Node -> Color]
  BY <1>1, BfsFacts
<1>3. Len(stack) \in DOMAIN stack /\ Top = stack[Len(stack)] /\ Top.node \in Node
  BY <1>1, <1>2, TopFacts
<1>4. /\ t \in Node /\ t \in Targets(graph, Top.node) /\ Top.node \in ToSet(graph.keys)
      /\ t \in ToSet(graph.keys)
  BY <1>1, <1>2, <1>3, AdvancedFacts DEF FramesOK, GraphOK
<1>5. /\ stack' \in Seq(Frame) /\ Len(stack') = Len(stack) /\ stack' # <<>>
      /\ stack'[Len(stack)].node = Top.node
      /\ stack'[Len(stack)].rest = Tail(Top.rest)
      /\ ToSet(Top.rest) = ToSet(Tail(Top.rest)) \cup {t}
  BY <1>1, <1>2, <1>3, AdvancedFacts
<1>6. Top'.node = Top.node /\ Top'.rest = Tail(Top.rest)
  <2>1. Top' = stack'[Len(stack)]
    BY <1>5 DEF Top, Last
  <2> QED
    BY <1>5, <2>1
<1> HIDE DEF t
<1>7. FramesOK'
  BY <1>1, <1>2, FramesAdvanced
<1>8. \A r \in ToSet(roots) : Starting(graph, r) => r # t
  BY <1>4 DEF Starting
<1>9. /\ mark' \in [Node -> Color] /\ mark'[t] = "black"
      /\ \A m \in Node : m # t => mark'[m] = mark[m]
      /\ queue' \in Seq(Node) /\ IsInjective(queue')
      /\ \A m \in Node : mark'[m] = "black" <=> m \in ToSet(calls) \cup ToSet(queue')
      /\ ToSet(calls) \cap ToSet(queue') = {}
      /\ ToSet(queue') \subseteq ToSet(graph.keys)
  <2>1. CASE mark[t] = "white"
    <3>1. queue' = Append(queue, t) /\ mark' = [mark EXCEPT ![t] = "black"]
      BY <2>1 DEF BfsEdge, t
    <3>2. t \notin ToSet(queue) /\ t \notin ToSet(calls)
      BY <1>2, <1>4, <2>1 DEF BfsOK
    <3>3. mark' \in [Node -> Color] /\ mark'[t] = "black"
          /\ \A m \in Node : m # t => mark'[m] = mark[m]
      BY <1>2, <1>4, <3>1 DEF Color
    <3>4. queue' \in Seq(Node) /\ ToSet(queue') = ToSet(queue) \cup {t}
      BY <1>2, <1>4, <3>1, AppendFacts
    <3>5. IsInjective(queue')
      BY <1>2, <1>4, <3>1, <3>2, AppendInjectiveSeq DEF BfsOK
    <3> QED
      BY <1>2, <1>4, <3>2, <3>3, <3>4, <3>5 DEF BfsOK, CallsOK
  <2>2. CASE mark[t] # "white"
    <3>1. queue' = queue /\ mark' = mark
      BY <2>2 DEF BfsEdge, t
    <3>2. mark[t] = "black"
      BY <1>2, <1>4, <2>2 DEF BfsOK, Color
    <3> QED
      BY <1>2, <3>1, <3>2 DEF BfsOK, CallsOK
  <2> QED
    BY <2>1, <2>2
<1>a. TypeOK'
  BY <1>1, <1>2, <1>5, <1>9 DEF TypeOK
<1>b. RootsOK'
  BY <1>1, <1>2, <1>9, RootsKept
<1>c. CallsOK'
  BY <1>1, <1>2, <1>9 DEF CallsOK
<1>d. BfsOK'
  <2>1. \A r \in ToSet(roots') : Starting(graph', r) => mark'[r] = "white"
    BY <1>1, <1>2, <1>8, <1>9, KeysAreNodes DEF BfsOK, RootsOK
  <2>2. ASSUME NEW n \in ToSet(calls'), NEW u \in Targets(graph', n)
        PROVE  mark'[u] = "black" \/ (Top'.node = n /\ u \in ToSet(Top'.rest))
    <3>1. u \in Node
      BY <1>1, <1>2, <2>2, KeysAreNodes, TargetsAreNodes DEF CallsOK
    <3>2. mark[u] = "black" \/ (Top.node = n /\ u \in ToSet(Top.rest))
      BY <1>1, <1>2, <2>2 DEF BfsOK
    <3> QED
      BY <1>5, <1>6, <1>9, <3>1, <3>2
  <2>3. \A n \in Node : mark'[n] # "grey"
    BY <1>2, <1>9 DEF BfsOK
  <2>4. Len(stack') <= 1
    BY <1>2, <1>5 DEF BfsOK
  <2> QED
    BY <1>1, <1>5, <1>9, <2>1, <2>2, <2>3, <2>4 DEF BfsOK
<1> QED
  BY <1>1, <1>2, <1>7, <1>a, <1>b, <1>c, <1>d DEF Inv, CycleIsReal, TargetsFirst

LEMMA BfsNextInv ==
  ASSUME Inv, BfsNext
  PROVE  Inv'
<1>1. /\ Walking("bfs") /\ stack # <<>> /\ Top.rest = <<>> /\ stack' = Front(stack)
      /\ UNCHANGED <<graph, walk, roots, queue, mark, calls, outcome>>
  BY DEF BfsNext
<1>2. /\ TypeOK /\ GraphOK(graph) /\ RootsOK /\ FramesOK /\ CallsOK /\ BfsOK
      /\ walk = "bfs" /\ outcome = "running" /\ stack \in Seq(Frame)
  BY <1>1, BfsFacts
<1>3. FramesOK' /\ TypeOK'
  BY <1>1, <1>2, FramesPopped, FrontFacts DEF TypeOK
<1>4. Len(stack') <= 1
  <2>1. stack' \in Seq(Frame) /\ Len(stack') = Len(stack) - 1 /\ Len(stack) \in Nat
    BY <1>1, <1>2, FrontFacts, LenProperties
  <2> QED
    BY <1>2, <2>1 DEF BfsOK
<1>5. RootsOK' /\ CallsOK' /\ GraphOK(graph)'
  BY <1>1, <1>2 DEF RootsOK, CallsOK
<1>6. BfsOK'
  <2>1. ToSet(Top.rest) = {}
    BY <1>1, NoElements
  <2> QED
    BY <1>1, <1>2, <1>4, <2>1 DEF BfsOK
<1> QED
  BY <1>1, <1>2, <1>3, <1>5, <1>6 DEF Inv, CycleIsReal, TargetsFirst

----------------------------------------------------------------------------
(* The theorems.                                                           *)

LEMMA StutterInv == ASSUME Inv, UNCHANGED vars PROVE Inv'
<1>1. UNCHANGED <<graph, walk, roots, stack, queue, mark, calls, outcome>>
  BY DEF vars, walkVars
<1>2. TypeOK' <=> TypeOK
  BY <1>1 DEF TypeOK
<1>3. (RootsOK /\ FramesOK /\ CallsOK)' <=> RootsOK /\ FramesOK /\ CallsOK
  BY <1>1 DEF RootsOK, FramesOK, CallsOK
<1>4. (TsOK' <=> TsOK) /\ (DfsOK' <=> DfsOK)
  BY <1>1 DEF TsOK, GreyPath, Explored, DfsOK
<1>5. BfsOK' <=> BfsOK
  BY <1>1 DEF BfsOK, Top
<1>6. (TargetsFirst' <=> TargetsFirst) /\ (CycleIsReal' <=> CycleIsReal)
  BY <1>1 DEF TargetsFirst, CycleIsReal
<1> QED
  BY <1>1, <1>2, <1>3, <1>4, <1>5, <1>6 DEF Inv, Exhausted

\* A ts or dfs that succeeded has called every key.
LEMMA ReachesEveryKey == Inv => WalkIsComplete
<1> SUFFICES ASSUME Inv, outcome = "ok", walk \in {"ts", "dfs"}
             PROVE  ToSet(calls) = ToSet(graph.keys)
  BY DEF WalkIsComplete
<1>1. /\ graph \in Graph /\ mark \in [Node -> Color] /\ RootsOK /\ CallsOK
      /\ stack = <<>> /\ roots = <<>>
  BY DEF Inv, Exhausted, TypeOK, GraphOK
<1>2. ToSet(roots) = {} /\ DOMAIN stack = {}
  BY <1>1, NoElements
<1>3. ASSUME NEW n \in ToSet(graph.keys) PROVE n \in ToSet(calls)
  <2>1. n \in Node /\ mark[n] # "white"
    BY <1>1, <1>2, KeysAreNodes DEF RootsOK
  <2>2. mark[n] # "grey"
    BY <1>2, <2>1 DEF Inv, TsOK, GreyPath, DfsOK
  <2>3. mark[n] = "black"
    BY <1>1, <2>1, <2>2 DEF Color
  <2> QED
    BY <2>1, <2>3 DEF Inv, TsOK, DfsOK
<1> QED
  BY <1>1, <1>3 DEF CallsOK

\* A key that bfs left out is no starting node, so it is a target, but of no key called.
LEMMA SkipsOnlyCycles == Inv => OnlyCyclesAreSkipped
<1> SUFFICES ASSUME Inv, outcome = "ok", walk = "bfs",
                    NEW n \in ToSet(graph.keys) \ ToSet(calls)
             PROVE  \E m \in ToSet(graph.keys) \ ToSet(calls) : n \in Targets(graph, m)
  BY DEF OnlyCyclesAreSkipped
<1>1. /\ graph \in Graph /\ mark \in [Node -> Color] /\ RootsOK /\ CallsOK /\ BfsOK
      /\ stack = <<>> /\ roots = <<>> /\ queue = <<>>
  BY DEF Inv, Exhausted, TypeOK, GraphOK
<1>2. ToSet(roots) = {} /\ ToSet(queue) = {} /\ n \in Node
  BY <1>1, NoElements, KeysAreNodes
<1>3. mark[n] = "white"
  BY <1>1, <1>2 DEF BfsOK, Color
<1>4. PICK m \in ToSet(graph.keys) : n \in Targets(graph, m)
  BY <1>1, <1>2, <1>3 DEF RootsOK, Starting
<1>5. m \notin ToSet(calls)
  BY <1>1, <1>3, <1>4 DEF BfsOK
<1> QED
  BY <1>4, <1>5

\* The invariant holds always: one lemma above for each action.
THEOREM Invariance == Spec => []Inv
<1>1. Inv /\ [Next]_vars => Inv'
  BY BuildInv, StartInv, ReturnInv, FinishInv, TsRootInv, TsEdgeInv, TsVisitInv,
     DfsRootInv, DfsEdgeInv, DfsReturnInv, BfsRootInv, BfsTakeInv, BfsEdgeInv, BfsNextInv,
     StutterInv DEF Next, Step
<1> QED
  BY InitInv, <1>1, PTL DEF Spec

\* Every variable has its type whatever is built and walked, and however often.
THEOREM TypeCorrect == Spec => []TypeOK
<1>1. Inv => TypeOK
  BY DEF Inv
<1> QED
  BY Invariance, <1>1, PTL

\* No walk calls the visitor twice with one node.
THEOREM CallsOnceCorrect == Spec => []CallsOnce
<1>1. Inv => CallsOnce
  BY NoElements DEF Inv, CallsOnce, CallsOK
<1> QED
  BY Invariance, <1>1, PTL

\* ts calls the visitor with the targets of a node before the node, on every graph.
THEOREM TargetsFirstCorrect == Spec => []TargetsFirst
<1>1. Inv => TargetsFirst
  BY DEF Inv
<1> QED
  BY Invariance, <1>1, PTL

\* ts reports CycleGraph only for graphs with a cycle.
THEOREM CycleIsRealCorrect == Spec => []CycleIsReal
<1>1. Inv => CycleIsReal
  BY DEF Inv
<1> QED
  BY Invariance, <1>1, PTL

\* A successful ts or dfs has called the visitor with every key of the graph.
THEOREM WalkIsCompleteCorrect == Spec => []WalkIsComplete
<1> QED
  BY Invariance, ReachesEveryKey, PTL

\* What a successful bfs leaves out is the target of something it leaves out.
THEOREM OnlyCyclesAreSkippedCorrect == Spec => []OnlyCyclesAreSkipped
<1> QED
  BY Invariance, SkipsOnlyCycles, PTL
=============================================================================
