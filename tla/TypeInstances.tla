---------------------------- MODULE TypeInstances ----------------------------
(***************************************************************************)
(* How psy-sema finds the member of a type that a program means, and how   *)
(* it makes instances of what is generic: a function, an impl, and the     *)
(* checked trees of their bodies.  A lookup may need an instance, and      *)
(* rewriting the body of an instance looks up members.                     *)
(*                                                                         *)
(* Further fields of a checker:                                            *)
(*   structs    name -> [generics, fields: sequence of [name, type, public]] *)
(*   traits     name -> [generics, methods: name -> id, bodies of syntax]  *)
(*   names      the types by name in the scopes that are open              *)
(*   short      the name a type variable has in the source                 *)
(*   active     the generic functions an instance is being made of         *)
(*   expected   the arguments a callee is looked up for: none, or <<types>> *)
(*   type, node the result                                                 *)
(* Left out: the types that a trait or an impl associates with a name.     *)
(***************************************************************************)
EXTENDS TypeInference

\* A checked tree.  A path keeps what is left of its `::', as it is written and
\* as a type.
Checked(kind, names, parts, type) ==
    [kind |-> kind, names |-> names, parts |-> parts, type |-> type, root |-> NoBody, trait |-> NoTrait]

Refuse(c) == [c EXCEPT !.fault = "refused", !.ok = FALSE]
Then(c, Next(_)) == IF c.fault = "" THEN Next(c) ELSE c
Require(c, condition, Next(_)) == IF c.fault = "" THEN IF condition THEN Next(c) ELSE Refuse(c) ELSE c

\* Two types, or two sequences of them, have to unify.
Agree(c, left, right, Next(_)) == LET d == Unify(c, left, right) IN Require(d, d.ok, Next)
AgreeEach(c, lefts, rights, Next(_)) == LET d == UnifyEach(c, lefts, rights) IN Require(d, d.ok, Next)

Typed(c, type) == [c EXCEPT !.type = type]
Noted(c, node) == [c EXCEPT !.node = node]

\* The names and equations of a scope go with it.
Close(c, before) == [c EXCEPT !.bind = before.bind, !.names = before.names, !.expected = before.expected]

LiteralType(token) == CASE token = "1u32" -> U32 [] token \in {"true", "false"} -> BOOL [] OTHER -> FELT
LiteralConst(token) == Const(token, LiteralType(token))

----------------------------------------------------------------------------
(***************************************************************************)
(* Types as they are written.                                              *)
(***************************************************************************)
BuiltinTypes == ("Felt" :> FELT) @@ ("bool" :> BOOL) @@ ("u32" :> U32)

FunctionType(c, id) == Type("function", id, c.functions[id].generics)

\* What a name stands for; a function may have got its parameters since.
Named(c, name) == LET type == c.names[name] IN IF type.kind = "function" THEN FunctionType(c, type.name) ELSE type

RECURSIVE TypeWritten(_, _), TypesWritten(_, _, _)
TypesWritten(trees, c, sofar) ==
    IF trees = <<>> THEN [c EXCEPT !.types = sofar]
    ELSE Then(TypeWritten(Head(trees), c), LAMBDA d : TypesWritten(Tail(trees), d, Append(sofar, d.type)))

\* A struct, the array or a trait, with arguments.  A trait may get fewer or
\* more than it has parameters.
Apply(c, type, args) ==
    CASE type.kind = "struct" /\ Len(type.args) # Len(args) -> Refuse(c)
      [] type.kind = "array" /\ Len(args) # 2               -> Refuse(c)
      [] type.kind \in {"struct", "array", "trait"} ->
             AgreeEach(c, type.args, args, LAMBDA d : Typed(d, SubstituteType(d, type)))
      [] OTHER -> Refuse(c)

ResultOf(list, c) == IF list.parts = <<>> THEN Typed(c, VOID) ELSE TypeWritten(list.parts[1], c)

TypeWritten(tree, c) ==
    LET name == tree.names[1]
        typed ==
          CASE tree.kind = "unknown" -> Typed(c, UNKNOWN)
            [] tree.kind = "const"   -> Typed(c, LiteralConst(name))
            [] tree.kind = "basic"   ->
                 IF name \in DOMAIN BuiltinTypes THEN Typed(c, BuiltinTypes[name])
                 ELSE Require(c, name \in DOMAIN c.names, LAMBDA d : Typed(d, Named(d, name)))
            [] tree.kind = "generic" ->
                 Require(c, name \in DOMAIN c.names, LAMBDA d :
                 Then(TypesWritten(tree.parts, d, <<>>), LAMBDA e : Apply(e, d.names[name], e.types)))
            [] tree.kind = "array"   ->
                 Then(TypeWritten(tree.parts[1], c), LAMBDA d : Apply(d, PolyArray, <<d.type, LiteralConst(name)>>))
            [] tree.kind = "tuple type" ->
                 Then(TypesWritten(tree.parts, c, <<>>), LAMBDA d : Typed(d, Tuple(d.types)))
            [] tree.kind = "fn type" ->
                 Then(TypesWritten(tree.parts[1].parts, c, <<>>), LAMBDA d :
                 Then(ResultOf(tree.parts[2], d), LAMBDA e : Typed(e, Signature(d.types, e.type))))
            [] tree.kind = "trait cast" -> TypeWritten(tree.parts[1], c)
            [] OTHER -> Refuse(c)
    IN  Close(typed, c)

\* The declaration of type variables: each has traits for its bounds, or one
\* scalar type.  names and types of c grow by them.
RECURSIVE Parameters(_, _, _, _)
Parameters(owner, trees, c, sofar) ==
    LET name == trees[1].names[1]
        id   == owner \o "." \o name
    IN  IF trees = <<>> THEN [c EXCEPT !.types = sofar]
        ELSE Then(TypesWritten(trees[1].parts, c, <<>>), LAMBDA d :
             LET kinds == {d.types[i].kind : i \in DOMAIN d.types}
                 var   == Var(id, d.types)
             IN  Require(d, kinds \subseteq {"trait"} \/ (Len(d.types) = 1 /\ d.types[1] \in {FELT, BOOL, U32}),
                 LAMBDA e : Parameters(owner, Tail(trees),
                              [e EXCEPT !.names = (name :> var) @@ @, !.short = (id :> name) @@ @],
                              Append(sofar, var))))

\* An instance has names for what its parameters stand for.
Naming(c, params, args) ==
    LET vars == {i \in DOMAIN params : params[i].kind = "var" /\ i \in DOMAIN args}
    IN  [n \in {c.short[params[i].name] : i \in vars} |->
            args[CHOOSE i \in vars : c.short[params[i].name] = n]]

----------------------------------------------------------------------------
(***************************************************************************)
(* Instances.                                                              *)
(***************************************************************************)
RECURSIVE Rewrite(_, _), RewriteAll(_, _, _), FindMember(_, _, _, _, _), InstanceOfBodies(_, _)

\* The checker with one function more; the first one that has these arguments
\* is the one that a lookup among the instances finds.
WithFunction(c, id, f) ==
    [c EXCEPT !.functions = (id :> [f EXCEPT !.registered = FindInstance(c, f.poly, f.generics) = {}]) @@ @]

FreshId(c, id) == c.functions[id].poly \o "#" \o ToString(Cardinality(DOMAIN c.functions))

SubstituteSignature(c, f) ==
    [f EXCEPT !.generics = [i \in DOMAIN @ |-> SubstituteType(c, @[i])],
              !.params   = [i \in DOMAIN @ |-> SubstituteType(c, @[i])],
              !.result   = SubstituteType(c, @)]

\* An instance gets a body only if the generic function has one by now.
InstantiateFunction(id, args, c) ==
    LET f == c.functions[id]
        made ==
          AgreeEach([c EXCEPT !.names = Naming(c, f.generics, args) @@ @], f.generics, args, LAMBDA d :
          Then(IF f.body = NoBody THEN Noted(d, NoBody) ELSE Rewrite(f.body, d), LAMBDA e :
          LET new == FreshId(e, id)
              g   == [SubstituteSignature(e, f) EXCEPT !.body = e.node]
          IN  Typed(WithFunction(e, new, g), Type("function", new, g.generics))))
    IN  Close(made, c)

\* The type under the equations; a generic function becomes an instance.
Substitute(type, c) ==
    LET s    == SubstituteType(c, type)
        poly == c.functions[s.name].poly
        made == InstantiateFunction(poly, s.args, [c EXCEPT !.active = @ \cup {poly}])
    IN  IF s.kind # "function" \/ DOMAIN c.bind = {} \/ FindInstance(c, poly, s.args) # {} THEN Typed(c, s)
        ELSE IF poly \in c.active THEN Refuse(c)
        ELSE [made EXCEPT !.active = c.active]

\* The signatures of the methods first, then the impl, then the bodies: they
\* may use the impl.
RECURSIVE InstanceOfSignatures(_, _, _)
InstanceOfSignatures(todo, methods, c) ==
    LET m  == CHOOSE n \in todo : TRUE
        id == FreshId(c, methods[m])
        g  == SubstituteSignature(c, c.functions[methods[m]])
    IN  IF todo = {} THEN [c EXCEPT !.made = methods]
        ELSE InstanceOfSignatures(todo \ {m}, [methods EXCEPT ![m] = id], WithFunction(c, id, g))

InstanceOfBodies(ids, c) ==
    LET id == CHOOSE i \in ids : TRUE
    IN  IF ids = {} \/ c.fault # "" THEN c
        ELSE IF c.functions[id].body = NoBody THEN InstanceOfBodies(ids \ {id}, c)
        ELSE InstanceOfBodies(ids \ {id},
               LET d == Rewrite(c.functions[id].body, c)
               IN  [d EXCEPT !.functions[id].body = d.node, !.bind = c.bind, !.names = c.names])

InstantiateImpl(i, args, c) ==
    LET generic == c.impls[i]
        params  == Generics(generic.self)
        made ==
          AgreeEach([c EXCEPT !.bind = NoEquations, !.names = Naming(c, params, args) @@ @], params, args, LAMBDA d :
          LET self == SubstituteType(d, generic.self)
              e == InstanceOfSignatures(DOMAIN generic.methods, generic.methods,
                                        [d EXCEPT !.names = ("Self" :> self) @@ @])
              f == [e EXCEPT !.impls = Append(@, [self |-> self, trait |-> SubstituteType(e, generic.trait),
                                                  methods |-> e.made])]
          IN  [InstanceOfBodies({e.made[m] : m \in DOMAIN e.made}, f) EXCEPT !.made = e.made])
    IN  Close(made, c)

----------------------------------------------------------------------------
(***************************************************************************)
(* Members.                                                                *)
(***************************************************************************)
\* Whether a candidate can be called with what is expected.
Fits(c, id, expected) ==
    LET call == Callable(c, FunctionType(c, id))
    IN  expected = <<>> \/ (Len(call[1]) = Len(expected[1]) /\ UnifyEach(c, call[1], expected[1]).ok)

IsTemplate(c, i) == \E j \in DOMAIN c.impls[i].self.args : c.impls[i].self.args[j].kind = "var"
IsExact(c, i, type) == Generics(c.impls[i].self) = Generics(type)

\* The impls that have such a member and are for the type as it is, and after
\* them those with parameters.
Providers(c, type, member, inherent) ==
    LET for == SelectSeq([i \in DOMAIN c.impls |-> i],
                 LAMBDA i : (c.impls[i].trait = NoTrait) = inherent /\ member \in DOMAIN c.impls[i].methods
                            /\ PolyOf(c, c.impls[i].self) = PolyOf(c, type))
    IN  SelectSeq(for, LAMBDA i : IsExact(c, i, type))
          \o SelectSeq(for, LAMBDA i : ~IsExact(c, i, type) /\ IsTemplate(c, i))

SameTrait(c, one, other) ==
    PolyOf(c, one) = PolyOf(c, other) /\ Len(Generics(one)) = Len(Generics(other))
      /\ UnifyEach(c, Generics(one), Generics(other)).ok

Requested(c, trait, i) == trait = NoTrait \/ SameTrait(c, trait, c.impls[i].trait)

Found(c, id) == [c EXCEPT !.type = FunctionType(c, id), !.ok = TRUE]
NotFound(c) == [c EXCEPT !.ok = FALSE]

\* One impl of the type itself is looked at, the first.
FindInherent(c, type, member, expected) ==
    LET order == Providers(c, type, member, TRUE)
        i     == order[1]
        id    == c.impls[i].methods[member]
        d     == InstantiateImpl(i, Generics(type), c)
    IN  CASE order = <<>> -> NotFound(c)
          [] IsExact(c, i, type) /\ Fits(c, id, expected) -> Found(c, id)
          [] ~SatisfiesConstraints(c, Generics(type), Generics(c.impls[i].self)) -> NotFound(c)
          [] ~Fits(c, id, expected) -> NotFound(c)
          [] OTHER -> Then(d, LAMBDA e : IF Fits(e, e.made[member], expected) THEN Found(e, e.made[member])
                                         ELSE NotFound(e))

\* The layers of an array of arrays, the innermost first.
RECURSIVE Layers(_)
Layers(type) == IF type.kind = "array" THEN Append(Layers(type.args[1]), type.args) ELSE <<>>

RECURSIVE InstantiateLayers(_, _, _)
InstantiateLayers(i, layers, c) ==
    IF layers = <<>> \/ c.fault # "" THEN c
    ELSE InstantiateLayers(i, Tail(layers), InstantiateImpl(i, Head(layers), c))

\* The impls of traits, one after the other; c.matches has those that fit.
RECURSIVE MatchGeneric(_, _, _, _, _)
MatchGeneric(order, type, member, expected, c) ==
    LET i       == order[1]
        poly    == c.impls[i].methods[member]
        known   == \E m \in DOMAIN c.matches : SameTrait(c, c.matches[m].trait, c.impls[i].trait)
        suits   == SatisfiesConstraints(c, Generics(type), Generics(c.impls[i].self))
        Match(d) == IF d.fault = "" /\ Fits(d, d.made[member], expected)
                    THEN [d EXCEPT !.matches = Append(@, [id |-> d.made[member], trait |-> c.impls[i].trait])]
                    ELSE d
        one     == IF suits THEN Match(InstantiateImpl(i, Generics(type), c)) ELSE c
        layered == IF one.fault = "" /\ Len(one.matches) = Len(c.matches) /\ type.kind = "array" /\ IsTemplate(c, i)
                   THEN Match(InstantiateLayers(i, Layers(type), one)) ELSE one
    IN  IF order = <<>> \/ c.fault # "" THEN c
        ELSE MatchGeneric(Tail(order), type, member, expected,
               IF known \/ ~Fits(c, poly, expected) THEN c ELSE layered)

FindInTraitImpls(c, type, trait, member, expected) ==
    LET order == SelectSeq(Providers(c, type, member, FALSE), LAMBDA i : Requested(c, trait, i))
        exact == SelectSeq(order, LAMBDA i : IsExact(c, i, type) /\ Fits(c, c.impls[i].methods[member], expected))
        several == \E n \in DOMAIN exact : ~SameTrait(c, c.impls[exact[1]].trait, c.impls[exact[n]].trait)
        made  == MatchGeneric(order, type, member, expected, [c EXCEPT !.matches = <<>>])
    IN  IF exact # <<>>
        THEN IF several THEN Refuse(c) ELSE Found(c, c.impls[exact[1]].methods[member])
        ELSE Then(made, LAMBDA d :
               CASE Len(d.matches) > 1 -> Refuse(d)
                 [] Len(d.matches) = 1 -> Found(d, d.matches[1].id)
                 [] OTHER              -> NotFound(d))

\* A type variable has the members of its bounds.
FindInBounds(c, var, member, expected) ==
    LET bounds == {i \in DOMAIN var.args : var.args[i].kind = "trait"
                                            /\ member \in DOMAIN c.traits[var.args[i].name].methods}
        ids == {c.traits[var.args[i].name].methods[member] : i \in bounds}
        fit == {id \in ids : Fits(c, id, expected)}
    IN  CASE Cardinality(fit) > 1 -> Refuse(c)
          [] fit = {}             -> NotFound(c)
          [] OTHER                -> Found(c, CHOOSE id \in fit : TRUE)

\* The result is in type if ok, and else there is no such member.
FindMember(c, given, trait, member, expected) ==
    LET type == SubstituteType(c, given)
    IN  Then(FindInherent(c, type, member, expected), LAMBDA d :
        IF d.ok THEN d ELSE
        Then(FindInTraitImpls(d, type, trait, member, expected), LAMBDA e :
        IF e.ok \/ type.kind # "var" THEN e ELSE FindInBounds(e, type, member, expected)))

TheMember(c, type, trait, member, expected, Next(_)) ==
    LET d == FindMember(c, type, trait, member, expected) IN Require(d, d.ok, Next)

----------------------------------------------------------------------------
(***************************************************************************)
(* The tree of an instance.                                                *)
(***************************************************************************)
FieldType(c, type, name) ==
    LET s == c.structs[type.name]
        i == CHOOSE j \in DOMAIN s.fields : s.fields[j].name = name
    IN  Applied(c, s.generics, type.args, s.fields[i].type)

HasField(c, type, name) ==
    type.kind = "struct" /\ \E j \in DOMAIN c.structs[type.name].fields : c.structs[type.name].fields[j].name = name

RewriteAll(nodes, c, done) ==
    IF nodes = <<>> \/ c.fault # "" THEN [c EXCEPT !.nodes = done]
    ELSE LET d == Rewrite(Head(nodes), c) IN RewriteAll(Tail(nodes), d, Append(done, d.node))

WithType(c, node) == Then(Substitute(node.type, c), LAMBDA d : Noted(d, [node EXCEPT !.type = d.type]))

TypesOfNodes(nodes) == [i \in DOMAIN nodes |-> nodes[i].type]

\* What is left of `::' is resolved once more, the member looked up again.
RewritePath(node, c) ==
    LET trait == SubstituteType(c, node.trait)
        again == TypeWritten(node.root.tree, c)
        root  == IF again.fault = "" THEN again.type ELSE node.root.type
    IN  IF node.root = NoBody THEN WithType(c, node)
        ELSE TheMember(c, root, trait, node.names[1], c.expected, LAMBDA d :
               Noted(d, [node EXCEPT !.type = d.type, !.trait = trait]))

\* The arguments before what is called.
RewriteCall(node, c) ==
    Then(Substitute(node.type, c), LAMBDA d :
    Then(RewriteAll(Tail(node.parts), d, <<>>), LAMBDA e :
    Then(Rewrite(node.parts[1], [e EXCEPT !.expected = <<TypesOfNodes(e.nodes)>>]), LAMBDA f :
    Noted([f EXCEPT !.expected = c.expected],
          [node EXCEPT !.type = d.type, !.parts = <<f.node>> \o e.nodes]))))

RewriteMemberCall(node, c) ==
    Then(Substitute(node.type, c), LAMBDA d :
    Then(RewriteAll(<<node.parts[1].parts[1]>> \o Tail(node.parts), d, <<>>), LAMBDA e :
    Then(Rewrite(node.parts[1], [e EXCEPT !.expected = <<TypesOfNodes(e.nodes)>>]), LAMBDA f :
    Noted([f EXCEPT !.expected = c.expected],
          [node EXCEPT !.type = d.type, !.parts = <<f.node>> \o Tail(e.nodes)]))))

RewriteMember(node, c) ==
    Then(Rewrite(node.parts[1], c), LAMBDA d :
    LET target == d.node
        now(type) == [node EXCEPT !.type = type, !.parts = <<target>>]
    IN  IF node.type.kind = "function"
        THEN TheMember(d, target.type, NoTrait, node.names[1], d.expected, LAMBDA e : Noted(e, now(e.type)))
        ELSE IF HasField(d, target.type, node.names[1])
        THEN Noted(d, now(FieldType(d, target.type, node.names[1])))
        ELSE Panic(d))

Endpoint(type) == type \in {FELT, U32} \/ type.kind = "var" \/ (type.kind = "const" /\ type.args[1] \in {FELT, U32})

\* A loop is the one statement whose types are checked again.
RewriteFor(node, c) ==
    Then(RewriteAll(node.parts, c, <<>>), LAMBDA d :
    Require(d, \A i \in {1, 2} : Endpoint(SubstituteType(d, d.nodes[i].type)), LAMBDA e :
    Noted(e, [node EXCEPT !.parts = e.nodes])))

\* A function within a function and a closure are left as they are.
Rewrite(node, c) ==
    CASE DOMAIN c.bind = {} \/ node.kind \in {"lambda", "definition"} -> Noted(c, node)
      [] node.kind = "path"        -> RewritePath(node, c)
      [] node.kind = "call"        -> RewriteCall(node, c)
      [] node.kind = "member call" -> RewriteMemberCall(node, c)
      [] node.kind = "member"      -> RewriteMember(node, c)
      [] node.kind = "for"         -> RewriteFor(node, c)
      [] OTHER -> Then(RewriteAll(node.parts, c, <<>>), LAMBDA d : WithType(d, [node EXCEPT !.parts = d.nodes]))
=============================================================================
