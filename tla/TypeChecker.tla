----------------------------- MODULE TypeChecker -----------------------------
(***************************************************************************)
(* The type checker of psy-sema: one visit function per kind of syntax     *)
(* tree, which gives the checked tree with its types or stops with a       *)
(* fault, and the passes over the definitions of a program.                *)
(*                                                                         *)
(* A tree is [kind, names, parts] as RecursiveParser makes it.  Further    *)
(* fields of a checker:                                                    *)
(*   path, outer  the kinds of the trees that are being visited, and the   *)
(*                equations to go back to when each of them has been       *)
(*   vars         the scopes of the function's variables: name ->          *)
(*                [type, mutable]                                          *)
(*   method       whether this is a method of an impl without trait        *)
(*   std          whether this is the standard library                     *)
(*   bodies       the functions whose bodies are still to be checked       *)
(* Left out: modules, associated types, lengths and constants given by an  *)
(* expression that has to be evaluated.  No name is defined twice, and a   *)
(* trait with parameters is defined before it is used.                     *)
(***************************************************************************)
EXTENDS TypeInstances
LOCAL INSTANCE SequencesExt

Yield(c, kind, names, parts, type) == Noted(c, Checked(kind, names, parts, type))

\* With the type under the equations.
YieldNow(c, kind, names, parts, type) ==
    Then(Substitute(type, c), LAMBDA d : Yield(d, kind, names, parts, d.type))

\* The first of some scalar types that the type can be.
RECURSIVE OneOf(_, _, _)
OneOf(c, type, scalars) ==
    LET d == Unify(c, type, Head(scalars))
    IN  IF scalars = <<>> THEN Answer(c, FALSE)
        ELSE IF d.ok THEN Typed(d, Head(scalars)) ELSE OneOf(d, type, Tail(scalars))

MustBe(c, type, scalars, Next(_)) == LET d == OneOf(c, type, scalars) IN Require(d, d.ok, Next)

----------------------------------------------------------------------------
(***************************************************************************)
(* Scopes.  An error that is swallowed leaves its tree on path and outer.  *)
(***************************************************************************)
RECURSIVE Dispatch(_, _), Define(_, _)

Enter(tree, c) == [c EXCEPT !.path = Append(@, tree.kind), !.outer = Append(@, c.bind)]
Exit(c) == IF c.fault # "" THEN c
           ELSE [c EXCEPT !.path = Front(@), !.outer = Front(@), !.bind = Last(c.outer)]

Visit(tree, c) == Exit(Dispatch(tree, Enter(tree, c)))

Attempt(tree, c) == LET d == Visit(tree, c) IN IF d.fault = "refused" THEN [d EXCEPT !.fault = ""] ELSE d

\* The kind of the tree around the one that is visited, and of the one around that.
Ancestor(c, n) == c.path[Len(c.path) - n]

RECURSIVE VisitAll(_, _, _)
VisitAll(trees, c, done) ==
    IF trees = <<>> THEN [c EXCEPT !.nodes = done]
    ELSE Then(Visit(Head(trees), c), LAMBDA d : VisitAll(Tail(trees), d, Append(done, d.node)))

OpenScope(c) == [c EXCEPT !.vars = Append(@, [n \in {} |-> VOID])]
CloseScope(c, before) == [c EXCEPT !.vars = before.vars, !.names = before.names]

Declare(c, name, type, mutable, Next(_)) ==
    Require(c, name \notin DOMAIN Last(c.vars), LAMBDA d :
    Next([d EXCEPT !.vars[Len(d.vars)] = (name :> [type |-> type, mutable |-> mutable]) @@ @]))

Scopes(c, name) == {i \in DOMAIN c.vars : name \in DOMAIN c.vars[i]}
VariableOf(c, name) == c.vars[CHOOSE i \in Scopes(c, name) : \A j \in Scopes(c, name) : j <= i][name]

----------------------------------------------------------------------------
(***************************************************************************)
(* Values.                                                                 *)
(***************************************************************************)
ArrayNode(c, kind, names, nodes, inner, size) ==
    AgreeEach(c, PolyArray.args, <<inner, LiteralConst(size)>>, LAMBDA d : YieldNow(d, kind, names, nodes, PolyArray))

\* Each element against the one before it.
RECURSIVE VisitElements(_, _, _, _)
VisitElements(trees, inner, c, done) ==
    IF trees = <<>> THEN ArrayNode(c, "array value", <<>>, done, inner, ToString(Len(done)))
    ELSE Then(Visit(Head(trees), c), LAMBDA d :
         Agree(d, d.node.type, inner, LAMBDA e : VisitElements(Tail(trees), d.node.type, e, Append(done, d.node))))

VisitRepeat(tree, c) ==
    Then(Visit(tree.parts[1], c), LAMBDA d :
    ArrayNode(d, "array repeat", tree.names, <<d.node>>, d.node.type, tree.names[1]))

VisitTuple(tree, c) ==
    Then(VisitAll(tree.parts, c, <<>>), LAMBDA d :
    Yield(d, "tuple", <<>>, d.nodes, Tuple(TypesOfNodes(d.nodes))))

\* The fields in the order of the definition.
RECURSIVE VisitFields(_, _, _, _, _)
VisitFields(fields, values, type, c, done) ==
    LET given == SelectSeq(values, LAMBDA v : v.names[1] = Head(fields).name)
    IN  CASE fields = <<>> -> [c EXCEPT !.nodes = done]
          [] given = <<>>  -> Panic(c)
          [] OTHER -> Then(Visit(given[1].parts[1], c), LAMBDA d :
                      Agree(d, FieldType(d, type, Head(fields).name), d.node.type, LAMBDA e :
                      VisitFields(Tail(fields), values, type, e, Append(done, d.node))))

VisitStruct(tree, c) ==
    Then(Visit(tree.parts[1], c), LAMBDA d :
    LET type   == d.node.type
        fields == d.structs[type.name].fields
    IN  IF type.kind # "struct" THEN Panic(d)
        ELSE Require(d, Len(fields) = Len(tree.parts) - 1, LAMBDA e :
             Then(VisitFields(fields, Tail(tree.parts), type, e, <<>>), LAMBDA f :
             YieldNow(f, "struct value", [i \in DOMAIN fields |-> fields[i].name], f.nodes, type))))

----------------------------------------------------------------------------
(***************************************************************************)
(* Paths.                                                                  *)
(***************************************************************************)
Rooted(name, type, root, tree, trait) ==
    [Checked("path", <<name, "type">>, <<>>, type) EXCEPT !.root = [tree |-> tree, type |-> root], !.trait = trait]

\* A type variable has the traits among its bounds.
HasTrait(c, type, trait) ==
    IF type.kind = "var"
    THEN \E i \in DOMAIN type.args : /\ PolyOf(c, type.args[i]) = PolyOf(c, trait)
                                     /\ SatisfiesConstraint(c, type.args[i], trait)
    ELSE ImplementsTrait(c, type, trait)

VisitTraitMember(root, name, c) ==
    Then(TypeWritten(root.parts[2], c), LAMBDA d :
    Then(TypeWritten(root.parts[1], d), LAMBDA e :
    Require(e, d.type.kind = "trait" /\ HasTrait(e, e.type, d.type), LAMBDA f :
    TheMember(f, e.type, d.type, name, <<>>, LAMBDA g :
    Then(Substitute(g.type, g), LAMBDA h :
    Noted(h, Rooted(name, h.type, e.type, root, SubstituteType(h, d.type))))))))

\* The one place where a private member is refused.
VisitMemberOfType(root, name, c) ==
    Then(TypeWritten(root, c), LAMBDA d :
    TheMember(d, d.type, NoTrait, name, <<>>, LAMBDA e :
    Require(e, e.functions[e.type.name].public, LAMBDA f :
    Then(Substitute(f.type, f), LAMBDA g : Noted(g, Rooted(name, g.type, d.type, root, NoTrait))))))

VisitName(name, c) ==
    IF Scopes(c, name) # {} THEN YieldNow(c, "path", <<name, "variable">>, <<>>, VariableOf(c, name).type)
    ELSE Require(c, name \in DOMAIN c.names, LAMBDA d : YieldNow(d, "path", <<name, "type">>, <<>>, Named(d, name)))

VisitPath(tree, c) ==
    LET last == Last(tree.parts)
    IN  CASE Len(tree.parts) = 1 /\ last.kind = "basic" -> VisitName(last.names[1], c)
          [] Len(tree.parts) = 1 ->
                 Then(TypeWritten(last, c), LAMBDA d : YieldNow(d, "path", <<"", "type">>, <<>>, d.type))
          [] tree.parts[1].kind = "trait cast" -> VisitTraitMember(tree.parts[1], last.names[1], c)
          [] OTHER -> VisitMemberOfType(tree.parts[1], last.names[1], c)

IsSelfPath(tree) == tree.kind = "path" /\ Len(tree.parts) = 1 /\ tree.parts[1].names = <<"self">>

VisitField(tree, target, c) ==
    LET name == tree.names[1]
        f == c.structs[target.type.name].fields
        public == f[CHOOSE i \in DOMAIN f : f[i].name = name].public
    IN  Require(c, HasField(c, target.type, name), LAMBDA d :
        Require(d, public \/ (d.method /\ IsSelfPath(tree.parts[1])), LAMBDA e :
        YieldNow(e, "member", <<name>>, <<target>>, FieldType(e, target.type, name))))

\* The receiver of a call may be a method, before it is a field.
VisitMember(tree, c) ==
    Then(Visit(tree.parts[1], c), LAMBDA d :
    LET found == FindMember(d, d.node.type, NoTrait, tree.names[1], <<>>)
    IN  IF Ancestor(d, 1) = "member call" /\ found.ok
        THEN Require(found, found.functions[found.type.name].public \/ (d.method /\ IsSelfPath(tree.parts[1])), LAMBDA e :
             Yield(e, "member", tree.names, <<d.node>>, e.type))
        ELSE VisitField(tree, d.node, d))

VisitTupleAccess(tree, c) ==
    Then(Visit(tree.parts[1], c), LAMBDA d :
    LET i == 1 + CHOOSE n \in 0 .. 9 : ToString(n) = tree.names[1]
    IN  Require(d, d.node.type.kind = "tuple" /\ i \in DOMAIN d.node.type.args, LAMBDA e :
        YieldNow(e, "tuple access", tree.names, <<d.node>>, d.node.type.args[i])))

----------------------------------------------------------------------------
(***************************************************************************)
(* Operators.                                                              *)
(***************************************************************************)
\* A method of the left side that takes both sides; types has its parameters.
OperatorMethod(c, name, left, right, Next(_)) ==
    TheMember(c, left.type, NoTrait, name, <<<<left.type, right.type>>>>, LAMBDA d :
    LET call   == Callable(d, d.type)
        member == Checked("member", <<name>>, <<left>>, d.type)
    IN  Require(d, call # <<>>, LAMBDA e :
        Next([Yield(e, "member call", <<>>, <<member, right>>, call[2]) EXCEPT !.types = call[1]])))

TakesBoth(c, left, right, Next(_)) ==
    Require(c, Len(c.types) = 2, LAMBDA d : AgreeEach(d, d.types, <<left.type, right.type>>, Next))

\* Scalars are compared as they are, other types by their method eq.
Equality(c, op, left, right) ==
    LET same   == Unify(c, left.type, right.type)
        scalar == IF same.ok THEN OneOf(same, left.type, <<BOOL, FELT, U32>>) ELSE same
    IN  IF scalar.ok THEN Yield(scalar, "binary", <<op>>, <<left, right>>, BOOL)
        ELSE OperatorMethod(scalar, "eq", left, right, LAMBDA d :
             TakesBoth(d, left, right, LAMBDA e :
             Agree(e, d.node.type, BOOL, LAMBDA f :
             IF op = "==" THEN Noted(f, [d.node EXCEPT !.type = BOOL])
             ELSE Yield(f, "unary", <<"!">>, <<[d.node EXCEPT !.type = BOOL]>>, BOOL))))

OperandTypes(op) ==
    CASE op = "^"                         -> <<FELT, U32, BOOL>>
      [] op \in {"&&", "||"}              -> <<BOOL>>
      [] OTHER                            -> <<FELT, U32>>

ResultType(op, type) == IF op \in {"<", "<=", ">", ">="} THEN BOOL ELSE type

\* Mistake: only the left operand is looked at.
VisitBinaryLeftOnly(tree, c) ==
    LET op == tree.names[1]
    IN  Then(VisitAll(tree.parts, c, <<>>), LAMBDA d :
        IF op \in {"==", "!="} THEN Equality(d, op, d.nodes[1], d.nodes[2])
        ELSE MustBe(d, d.nodes[1].type, OperandTypes(op), LAMBDA e :
             Yield(e, "binary", <<op>>, d.nodes, ResultType(op, e.type))))

VisitBinary(tree, c) ==
    LET op == tree.names[1]
    IN  Then(VisitAll(tree.parts, c, <<>>), LAMBDA d :
        LET left  == d.nodes[1]
            right == d.nodes[2]
        IN  IF op \in {"==", "!="} THEN Equality(d, op, left, right)
            ELSE Agree(d, left.type, right.type, LAMBDA e :
                 MustBe(e, left.type, OperandTypes(op), LAMBDA f :
                 Yield(f, "binary", <<op>>, <<left, right>>, ResultType(op, f.type)))))

VisitUnary(tree, c) ==
    Then(Visit(tree.parts[1], c), LAMBDA d :
    MustBe(d, d.node.type, IF tree.names[1] = "-" THEN <<FELT>> ELSE <<BOOL>>, LAMBDA e :
    YieldNow(e, "unary", tree.names, <<d.node>>, d.node.type)))

VisitCast(tree, c) ==
    Then(Visit(tree.parts[1], c), LAMBDA d :
    Then(TypeWritten(tree.parts[2], d), LAMBDA e :
    MustBe(e, d.node.type, <<FELT, BOOL, U32>>, LAMBDA f :
    MustBe(f, e.type, <<FELT, BOOL, U32>>, LAMBDA g : Yield(g, "cast", <<>>, <<d.node>>, e.type)))))

VisitIndex(tree, c) ==
    Then(VisitAll(tree.parts, c, <<>>), LAMBDA d :
    LET target == d.nodes[1]
        index  == d.nodes[2]
    IN  Agree(d, index.type, FELT, LAMBDA e :
        IF target.type.kind = "array" THEN YieldNow(e, "index", <<>>, e.nodes, target.type.args[1])
        ELSE OperatorMethod(e, "index", target, index, LAMBDA f :
             TakesBoth(f, target, index, LAMBDA g :
             YieldNow(g, "member call", <<>>, f.node.parts, f.node.type)))))

----------------------------------------------------------------------------
(***************************************************************************)
(* Calls.                                                                  *)
(***************************************************************************)
\* A parameter whose type is the length of an array in the signature is given
\* the value of its argument.
RECURSIVE UsesAsLength(_, _, _)
UsesAsLength(c, type, param) ==
    LET call  == Callable(c, type)
        parts == CASE type.kind \in {"array", "tuple", "struct"} -> type.args
                   [] type.kind = "function" -> Append(call[1], call[2])
                   [] OTHER -> <<>>
    IN  \/ type.kind = "array" /\ type.args[2] = param
        \/ \E i \in DOMAIN parts : UsesAsLength(c, parts[i], param)

IsLength(c, param, call) ==
    /\ param.kind = "var"
    /\ \E i \in 1 .. Len(call[1]) + 1 :
          LET type == Append(call[1], call[2])[i] IN type # param /\ UsesAsLength(c, type, param)

HasLength(node) == node.kind \in {"felt", "u32"} \/ node.type.kind \in {"var", "const"}
ArgumentType(c, param, call, node) ==
    IF IsLength(c, param, call) /\ node.kind \in {"felt", "u32"} THEN LiteralConst(node.names[1]) ELSE node.type

\* The arguments against the parameters, with the generic arguments that are given.
CallWith(c, type, generics, nodes, Next(_)) ==
    Then(TypesWritten(generics, c, <<>>), LAMBDA d :
    AgreeEach(d, Generics(type), d.types, LAMBDA e :
    LET call == Callable(e, type)
    IN  Require(e, call # <<>> /\ Len(call[1]) = Len(nodes), LAMBDA f :
        Require(f, \A i \in DOMAIN nodes : IsLength(f, call[1][i], call) => HasLength(nodes[i]), LAMBDA g :
        AgreeEach(g, call[1], [i \in DOMAIN nodes |-> ArgumentType(g, call[1][i], call, nodes[i])], Next)))))

BoundedBy(c, type, trait) ==
    IF type.kind = "var" THEN \E i \in DOMAIN type.args : Unify(c, type.args[i], trait).ok
    ELSE ImplementsTrait(c, type, trait)

\* The member is looked up without regard to whether it may be used here; the
\* error the path itself gives is swallowed.
VisitCallee(tree, nodes, c) ==
    LET root  == tree.parts[1]
        name  == Last(tree.parts).names[1]
        self  == TypeWritten(root, c)
        trait == TypeWritten(root.parts[2], self)
        Member(type, t, d) ==
            TheMember(d, type, t, name, <<TypesOfNodes(nodes)>>, LAMBDA e :
            Noted(e, Rooted(name, e.type, type, root, t)))
    IN  CASE tree.kind # "path" \/ Len(tree.parts) = 1 -> Visit(tree, c)
          [] self.fault # ""          -> Visit(tree, c)
          [] root.kind = "trait cast" ->
                 Then(trait, LAMBDA d :
                 Require(d, BoundedBy(d, self.type, d.type), LAMBDA e : Member(self.type, d.type, e)))
          [] OTHER -> Then(Attempt(tree, self), LAMBDA d : Member(self.type, NoTrait, d))

VisitCall(tree, c) ==
    Then(VisitAll(tree.parts[3].parts, c, <<>>), LAMBDA d :
    Then(VisitCallee(tree.parts[1], d.nodes, d), LAMBDA e :
    CallWith(e, e.node.type, tree.parts[2].parts, d.nodes, LAMBDA f :
    Then(Rewrite(e.node, f), LAMBDA g :
    YieldNow(g, "call", <<>>, <<g.node>> \o d.nodes, Callable(f, e.node.type)[2])))))

RECURSIVE IsTypeNode(_)
IsTypeNode(node) ==
    CASE node.kind = "path"   -> node.names[2] = "type"
      [] node.kind = "member" -> IsTypeNode(node.parts[1])
      [] OTHER                -> FALSE

\* A receiver that is a type is not an argument.
VisitMemberCall(tree, c) ==
    LET member == tree.parts[1]
    IN  Then(Visit(member.parts[1], c), LAMBDA r :
        Then(VisitAll(tree.parts[3].parts, r, <<>>), LAMBDA d :
        LET nodes == IF IsTypeNode(r.node) THEN d.nodes ELSE <<r.node>> \o d.nodes
        IN  TheMember(d, r.node.type, NoTrait, member.names[1], <<TypesOfNodes(nodes)>>, LAMBDA e :
            LET callee == Checked("member", member.names, <<r.node>>, e.type)
                call   == Callable(e, e.type)
            IN  Then(TypesWritten(tree.parts[2].parts, e, <<>>), LAMBDA f :
                AgreeEach(f, Generics(e.type), f.types, LAMBDA g :
                Require(g, call # <<>> /\ Len(call[1]) = Len(nodes), LAMBDA h :
                AgreeEach(h, call[1], TypesOfNodes(nodes), LAMBDA i :
                YieldNow(i, "member call", <<>>, <<callee>> \o d.nodes, call[2]))))))))

----------------------------------------------------------------------------
(***************************************************************************)
(* Blocks and branches.                                                    *)
(***************************************************************************)
\* The statements share the equations of the block.
RECURSIVE VisitStatements(_, _, _)
VisitStatements(trees, c, done) ==
    IF trees = <<>> THEN [c EXCEPT !.nodes = done]
    ELSE LET tree == Head(trees)
             d    == Dispatch(tree, [c EXCEPT !.path = Append(@, tree.kind)])
         IN  Then(d, LAMBDA e : VisitStatements(Tail(trees), [e EXCEPT !.path = Front(@)], Append(done, e.node)))

\* A return is the last thing of a block.
VisitBlock(tree, c) ==
    LET statements == tree.parts[1].parts
        value      == tree.parts[2].parts
        returns    == {i \in DOMAIN statements : statements[i].kind = "return"}
    IN  Then(VisitStatements(statements, OpenScope(c), <<>>), LAMBDA d :
        Require(d, returns = {} \/ (returns = {Len(statements)} /\ value = <<>>), LAMBDA e :
        Then(VisitAll(value, e, <<>>), LAMBDA f :
        LET last == Last(d.nodes)
            type == CASE value # <<>> -> f.nodes[1].type
                      [] returns # {} /\ last.parts # <<>> -> last.parts[1].type
                      [] OTHER -> VOID
        IN  CloseScope(Yield(f, "block", IF value = <<>> THEN <<>> ELSE <<"value">>, d.nodes \o f.nodes, type), c))))

\* The test of a branch and its block.
VisitCase(test, body, c, Next(_, _)) ==
    Then(Visit(test, c), LAMBDA d :
    Agree(d, d.node.type, BOOL, LAMBDA e : Then(Visit(body, e), LAMBDA f : Next(f, <<d.node, f.node>>))))

RECURSIVE VisitElseIfs(_, _, _, _)
VisitElseIfs(cases, type, c, done) ==
    IF cases = <<>> THEN [c EXCEPT !.nodes = done]
    ELSE VisitCase(cases[1].parts[1], cases[1].parts[2], c, LAMBDA d, nodes :
         Agree(d, nodes[2].type, type, LAMBDA e : VisitElseIfs(Tail(cases), type, e, done \o nodes)))

\* Without an else the value may not be used.
VisitIf(tree, c) ==
    LET other == tree.parts[3].parts[2].parts
    IN  VisitCase(tree.parts[1], tree.parts[2], c, LAMBDA d, nodes :
        LET type == nodes[2].type
        IN  Then(VisitElseIfs(tree.parts[3].parts[1].parts, type, d, nodes), LAMBDA e :
            IF other = <<>>
            THEN Require(e, type = VOID \/ Ancestor(e, 1) = "expression statement", LAMBDA f :
                 YieldNow(f, "if", <<>>, e.nodes, type))
            ELSE Then(Visit(other[1], e), LAMBDA f :
                 Agree(f, f.node.type, type, LAMBDA g :
                 YieldNow(g, "if", <<"else">>, Append(e.nodes, f.node), type)))))

\* The arms with a pattern, and after them the one without; type is that of
\* the first body, or nothing yet.
RECURSIVE VisitArms(_, _, _, _, _, _)
VisitArms(trees, scrutinee, types, c, arms, otherwise) ==
    LET wild == trees[1].parts[1].kind = "placeholder"
        Pattern(Next(_)) ==
            IF wild THEN Require(c, otherwise = <<>>, LAMBDA d : Next([d EXCEPT !.nodes = <<>>]))
            ELSE Then(Visit(trees[1].parts[1], c), LAMBDA d :
                 Agree(d, scrutinee, d.node.type, LAMBDA e : Next([e EXCEPT !.nodes = <<d.node>>])))
    IN  IF trees = <<>> THEN [c EXCEPT !.nodes = arms \o otherwise, !.types = types]
        ELSE Pattern(LAMBDA p :
             Then(Visit(trees[1].parts[2], p), LAMBDA d :
             LET arm   == Checked(IF wild THEN "otherwise" ELSE "arm", <<>>, Append(p.nodes, d.node), VOID)
                 first == IF types = <<>> THEN <<d.node.type>> ELSE types
             IN  Agree(d, first[1], d.node.type, LAMBDA e :
                 VisitArms(Tail(trees), scrutinee, first, e,
                   IF wild THEN arms ELSE Append(arms, arm), IF wild THEN <<arm>> ELSE otherwise))))

CoversBool(arms) ==
    \/ \E i \in DOMAIN arms : arms[i].kind = "otherwise"
    \/ Cardinality({arms[i].parts[1].names : i \in {j \in DOMAIN arms : arms[j].parts[1].kind = "bool"}}) = 2

VisitMatch(tree, c) ==
    Then(Visit(tree.parts[1], c), LAMBDA d :
    LET type == d.node.type
    IN  Require(d, type \in {FELT, BOOL, U32}, LAMBDA e :
        Then(VisitArms(Tail(tree.parts), type, <<>>, e, <<>>, <<>>), LAMBDA f :
        Require(f, type # BOOL \/ CoversBool(f.nodes), LAMBDA g :
        Yield(g, "match", <<>>, <<d.node>> \o f.nodes, IF f.types = <<>> THEN VOID ELSE f.types[1])))))

RECURSIVE DeclareAll(_, _, _)
DeclareAll(params, types, c) ==
    IF params = <<>> THEN c
    ELSE Declare(c, params[1].names[2], types[1], params[1].names[1] = "mut", LAMBDA d :
         DeclareAll(Tail(params), Tail(types), d))

TypeTrees(params) == [i \in DOMAIN params |-> params[i].parts[1]]
ParamNames(params) == [i \in DOMAIN params |-> params[i].names[2]]

VisitLambda(tree, c) ==
    LET params == tree.parts[1].parts
    IN  Then(TypesWritten(TypeTrees(params), OpenScope(c), <<>>), LAMBDA d :
        Then(DeclareAll(params, d.types, d), LAMBDA e :
        Then(ResultOf(tree.parts[2], e), LAMBDA f :
        Then(Visit(tree.parts[3], f), LAMBDA g :
        Agree(g, f.type, g.node.type, LAMBDA h :
        LET type == Type("lambda", "lambda#" \o ToString(h.lambdas), <<Tuple(d.types), f.type>>)
        IN  CloseScope(Yield([h EXCEPT !.lambdas = @ + 1], "lambda", [i \in DOMAIN params |-> params[i].names], <<g.node>>, type), c))))))

----------------------------------------------------------------------------
(***************************************************************************)
(* Statements.                                                             *)
(***************************************************************************)
UnknownTree == [kind |-> "unknown", names |-> <<"">>]

\* The variable gets the type of the value, not the one that is written.
VisitLet(tree, c) ==
    LET declared == tree.parts[1].parts
    IN  Then(TypeWritten(IF declared = <<>> THEN UnknownTree ELSE declared[1], c), LAMBDA d :
        Then(Visit(tree.parts[2], d), LAMBDA e :
        Agree(e, e.node.type, d.type, LAMBDA f :
        Declare(f, tree.names[2], e.node.type, tree.names[1] = "mut", LAMBDA g :
        YieldNow(g, "let", tree.names, <<e.node>>, e.node.type)))))

AssignMethod ==
    [op \in {"=", "+=", "-=", "*=", "/=", "%=", "&=", "|=", "^=", "<<=", ">>="} |->
       CASE op = "="   -> "eq_assign"     [] op = "+="  -> "add_assign"   [] op = "-="  -> "sub_assign"
         [] op = "*="  -> "mul_assign"    [] op = "/="  -> "div_assign"   [] op = "%="  -> "rem_assign"
         [] op = "&="  -> "bitand_assign" [] op = "|="  -> "bitor_assign" [] op = "^="  -> "bitxor_assign"
         [] op = "<<=" -> "shl_assign"    [] op = ">>=" -> "shr_assign"]

\* Only a variable of scalar type has to be mutable here, and of the operators
\* only those on bool are looked at.
VisitAssignment(tree, c) ==
    LET op == tree.names[1]
    IN  Then(Visit(tree.parts[2], c), LAMBDA v :
        Then(Visit(tree.parts[1], v), LAMBDA d :
        LET target == d.node
            value  == v.node
            fixed  == target.kind = "path" /\ target.names[2] = "variable"
                        /\ ~VariableOf(d, target.names[1]).mutable /\ target.type \in {FELT, BOOL, U32}
            e      == Unify(d, target.type, value.type)
        IN  Require(d, ~fixed, LAMBDA f :
            IF e.ok
            THEN Require(e, SubstituteType(e, target.type) # BOOL \/ op \in {"=", "^="}, LAMBDA g :
                 YieldNow(g, "assignment", <<op>>, <<target, value>>, target.type))
            ELSE OperatorMethod(e, AssignMethod[op], target, value, LAMBDA g :
                 Then(Substitute(g.node.type, g), LAMBDA h :
                 Noted(h, Checked("expression statement", <<>>, <<[g.node EXCEPT !.type = h.type]>>, VOID)))))))

VisitReturn(tree, c) ==
    Require(c, Ancestor(c, 1) = "block" /\ Ancestor(c, 2) \in {"function", "lambda"}, LAMBDA d :
    Then(VisitAll(tree.parts, d, <<>>), LAMBDA e : Yield(e, "return", <<>>, e.nodes, VOID)))

VisitWhile(tree, c) ==
    VisitCase(tree.parts[1], tree.parts[2], c, LAMBDA d, nodes : Yield(d, "while", <<>>, nodes, VOID))

\* A type variable may stand for either type of number.
EndpointsFit(from, to) ==
    LET base(type) == IF type.kind = "const" THEN type.args[1] ELSE type
    IN  Endpoint(from) /\ Endpoint(to) /\ ("var" \in {from.kind, to.kind} \/ base(from) = base(to))

VisitFor(tree, c) ==
    Then(VisitAll(SubSeq(tree.parts, 1, 2), OpenScope(c), <<>>), LAMBDA d :
    LET Now(i) == SubstituteType(d, d.nodes[i].type)
    IN  Require(d, EndpointsFit(Now(1), Now(2)), LAMBDA e :
        Declare(e, tree.names[1], d.nodes[1].type, TRUE, LAMBDA f :
        Then(Visit(tree.parts[3], OpenScope(f)), LAMBDA g :
        CloseScope(Yield(g, "for", tree.names, Append(d.nodes, g.node), VOID), c)))))

VisitAssert(tree, c) ==
    Then(Visit(tree.parts[1], c), LAMBDA d :
    Agree(d, d.node.type, BOOL, LAMBDA e : Yield(e, "assert", <<>>, <<d.node>>, VOID)))

VisitAssertEq(tree, c) ==
    Then(VisitAll(tree.parts, c, <<>>), LAMBDA d :
    Then(Equality(d, "==", d.nodes[1], d.nodes[2]), LAMBDA e : Yield(e, "assert", <<>>, <<e.node>>, VOID)))

VisitClear(c) == Require(c, c.std, LAMBDA d : Yield(d, "clear", <<>>, <<>>, VOID))

VisitExpressionStatement(tree, c) ==
    Then(Visit(tree.parts[1], c), LAMBDA d : Yield(d, "expression statement", <<>>, <<d.node>>, VOID))

VisitDefinition(tree, c) ==
    Then(Define(tree, c), LAMBDA d : Yield(d, "definition", <<>>, <<>>, VOID))

----------------------------------------------------------------------------
(***************************************************************************)
(* Intrinsics: what the arguments have to be, and the result.  Where the   *)
(* checker does not look, the type is unknown.                             *)
(***************************************************************************)
ContextIntrinsics ==
    [n \in {"__ctx_get_user_id", "__ctx_get_contract_id", "__ctx_get_caller_contract_id", "__ctx_get_checkpoint_id",
            "__ctx_get_last_nonce"} |-> <<<<>>, FELT>>]
      @@ [n \in {"__ctx_get_user_public_key_hash", "__ctx_get_session_proof_tree_root"} |-> <<<<>>, HASH>>]
      @@ [n \in {"__ctx_get_contract_deployer", "__ctx_get_contract_state_tree_height"} |-> <<<<FELT>>, FELT>>]

OwnStateIntrinsics ==
    ("__ctx_get_state_hash_at" :> <<<<FELT>>, HASH>>) @@ ("__imt_get" :> <<<<HASH, FELT, FELT>>, HASH>>)

OtherUserIntrinsics == "__imt_get_other_user" :> <<<<FELT, FELT, FELT, HASH, FELT, FELT>>, HASH>>

OtherContractIntrinsics ==
    ("__ctx_get_other_contract_state_hash_at" :> <<<<FELT, FELT, FELT>>, HASH>>)
      @@ ("__ctx_get_other_user_contract_state_hash_at" :> <<<<FELT, FELT, FELT, FELT>>, HASH>>)

WriteIntrinsics ==
    ("__ctx_set_state_hash_at" :> <<<<FELT, HASH>>, HASH>>) @@ ("__imt_set" :> <<<<HASH, HASH, FELT, FELT>>, HASH>>)

MembershipIntrinsics ==
    ("__imt_contains_other_user" :> <<<<FELT, FELT, FELT, HASH, FELT, FELT>>, BOOL>>)
      @@ ("__imt_contains" :> <<<<HASH, FELT, FELT>>, BOOL>>)

StorageIntrinsics ==
    ("__storage_read" :> <<<<FELT, FELT, FELT, FELT>>, FELT>>)
      @@ ("__storage_read_range" :> <<<<FELT, FELT, FELT, FELT, FELT>>, UNKNOWN>>)
      @@ ("__storage_write" :> <<<<FELT, FELT>>, FELT>>) @@ ("__storage_write_range" :> <<<<FELT, UNKNOWN>>, VOID>>)

HashIntrinsics ==
    ("hash" :> <<<<UNKNOWN>>, HASH>>) @@ ("keccak256" :> <<<<UNKNOWN>>, Array(U32, Const("8", FELT))>>)
      @@ ("hash_two_to_one" :> <<<<HASH, HASH>>, HASH>>)
      @@ ("__invoke_deferred" :> <<<<UNKNOWN, UNKNOWN, UNKNOWN>>, VOID>>)
      @@ ("__secp256k1_verify" :> <<<<UNKNOWN, UNKNOWN, UNKNOWN>>, BOOL>>)

CheckpointIntrinsics ==
    [n \in {"__ctx_get_checkpoint_stats", "__ctx_get_register_users_root", "__ctx_get_gutas_root",
            "__ctx_get_checkpoint_user_tree_root", "__ctx_get_checkpoint_contract_tree_root",
            "__ctx_get_checkpoint_deposit_tree_root", "__ctx_get_checkpoint_withdrawal_tree_root",
            "__ctx_get_checkpoint_user_registration_tree_root", "__ctx_get_deploy_contracts_root",
            "__ctx_get_guta_fees_collected", "__ctx_get_da_fees_collected", "__ctx_get_user_ops_processed",
            "__ctx_get_total_transactions", "__ctx_get_slots_modified", "__ctx_get_register_users_completed",
            "__ctx_get_gutas_completed", "__ctx_get_deploy_contracts_completed", "__emit"} |-> <<<<UNKNOWN>>, UNKNOWN>>]
      @@ ("__sum_bits" :> <<<<UNKNOWN>>, FELT>>)

Intrinsics ==
    ContextIntrinsics @@ OwnStateIntrinsics @@ OtherUserIntrinsics @@ OtherContractIntrinsics @@ WriteIntrinsics
      @@ MembershipIntrinsics @@ StorageIntrinsics @@ HashIntrinsics @@ CheckpointIntrinsics

\* Those with a type among their arguments.
TypedResult(name, c) ==
    CASE name = "__mem_size_of" -> FELT [] name = "__mem_transmute" -> SubstituteType(c, c.type) [] OTHER -> c.type

\* Most of them are for the standard library only.
VisitIntrinsic(tree, c) ==
    LET name == tree.names[1]
        Made(d, nodes, type) == Yield(d, "intrinsic", <<name>>, nodes, type)
    IN  Require(c, c.std \/ name \in {"hash", "keccak256", "hash_two_to_one"}, LAMBDA s :
        Then(VisitAll(tree.parts[2].parts, s, <<>>), LAMBDA d :
        CASE tree.parts[1].parts # <<>> ->
                 Then(TypeWritten(tree.parts[1].parts[1], d), LAMBDA e : Made(e, d.nodes, TypedResult(name, e)))
          [] name = "__split_bits" ->
                 Require(d, SubstituteType(d, d.nodes[2].type).kind \in {"const", "var"}, LAMBDA e :
                 Made(e, d.nodes, PolyArray))
          [] OTHER ->
                 AgreeEach(d, TypesOfNodes(d.nodes), Intrinsics[name][1], LAMBDA e :
                 Made(e, d.nodes, Intrinsics[name][2]))))

----------------------------------------------------------------------------
(***************************************************************************)
(* Definitions.  A function is first known by name, then it has a          *)
(* signature, and then a body.                                             *)
(***************************************************************************)
NamesOf(trees, types) ==
    [n \in {trees[i].names[1] : i \in DOMAIN trees} |-> types[CHOOSE i \in DOMAIN trees : trees[i].names[1] = n]]

\* own: the names that only this function sees.
Predeclare(id, tree, own, inherent, c) ==
    [c EXCEPT !.functions = (id :>
        [poly |-> id, generics |-> <<>>, params |-> <<>>, result |-> VOID, body |-> NoBody,
         public |-> tree.names[1] = "pub", registered |-> FALSE, tree |-> tree, own |-> own, inherent |-> inherent]) @@ @]

SignatureOf(id, c) ==
    LET f      == c.functions[id]
        params == f.tree.parts[3].parts
        names  == ParamNames(params)
        signed ==
          Then(Parameters(id, f.tree.parts[2].parts, [c EXCEPT !.names = f.own @@ @], <<>>), LAMBDA d :
          Then(TypesWritten(TypeTrees(params), d, <<>>), LAMBDA e :
          Require(e, \A i, j \in DOMAIN names : names[i] = names[j] => i = j, LAMBDA g :
          Then(ResultOf(f.tree.parts[4], g), LAMBDA h :
          [h EXCEPT !.functions[id].generics = d.types, !.functions[id].params = e.types,
                    !.functions[id].result = h.type, !.functions[id].registered = TRUE,
                    !.functions[id].own = NamesOf(f.tree.parts[2].parts, d.types) @@ @]))))
    IN  [signed EXCEPT !.names = c.names]

RECURSIVE SignaturesOf(_, _)
SignaturesOf(ids, c) ==
    IF ids = <<>> \/ c.fault # "" THEN c ELSE SignaturesOf(Tail(ids), SignatureOf(Head(ids), c))

\* The variables a function starts with.
ParameterScope(f) ==
    LET params == f.tree.parts[3].parts
    IN  [n \in {params[i].names[2] : i \in DOMAIN params} |->
            LET i == CHOOSE j \in DOMAIN params : params[j].names[2] = n
            IN  [type |-> f.params[i], mutable |-> params[i].names[1] = "mut"]]

\* A function of the program or of a block is checked under equations of its own.
BodyOf(id, c) ==
    LET f == c.functions[id]
        inside == [c EXCEPT !.names = f.own @@ @, !.vars = <<ParameterScope(f)>>, !.path = Append(@, "function"),
                            !.bind = NoEquations, !.outer = <<>>, !.method = f.inherent]
        done == Then(Visit(f.tree.parts[5].parts[1], inside), LAMBDA d :
                Agree(d, f.result, d.node.type, LAMBDA e : [e EXCEPT !.functions[id].body = d.node]))
    IN  IF f.tree.parts[5].parts = <<>> THEN c
        ELSE [done EXCEPT !.names = c.names, !.vars = c.vars, !.path = c.path, !.bind = c.bind, !.outer = c.outer,
                          !.method = c.method]

WithName(c, name, type) == [c EXCEPT !.names = (name :> type) @@ @]

FunctionPredecl(tree, c) ==
    LET name == tree.names[4]
    IN  WithName(Predeclare(name, tree, [n \in {} |-> VOID], FALSE, c), name, Type("function", name, <<>>))

WithStruct(c, name, generics, fields) ==
    WithName([c EXCEPT !.structs = (name :> [generics |-> generics, fields |-> fields]) @@ @],
             name, Type("struct", name, generics))

StructPredecl(tree, c) == WithStruct(c, tree.names[2], <<>>, <<>>)

StructHeader(tree, c) ==
    LET fields == tree.parts[3].parts
    IN  Then(Parameters(tree.names[2], tree.parts[2].parts, c, <<>>), LAMBDA d :
        Then(TypesWritten([i \in DOMAIN fields |-> fields[i].parts[2]], d, <<>>), LAMBDA e :
        WithStruct([e EXCEPT !.names = c.names], tree.names[2], d.types,
                   [i \in DOMAIN fields |->
                      [name |-> fields[i].names[2], type |-> e.types[i], public |-> fields[i].names[1] = "pub"]])))

\* The functions of a trait or an impl, by name.
MethodsOf(owner, trees) == [n \in {trees[i].names[4] : i \in DOMAIN trees} |-> owner \o "." \o n]
MethodTypes(methods) == [n \in DOMAIN methods |-> Type("function", methods[n], <<>>)]

PredeclareMethods(owner, trees, own, inherent, c) ==
    FoldLeft(LAMBDA d, tree : Predeclare(owner \o "." \o tree.names[4], tree, own, inherent, d), c, trees)

Ids(owner, trees) == [i \in DOMAIN trees |-> owner \o "." \o trees[i].names[4]]

TraitPredecl(tree, c) ==
    LET name    == tree.names[2]
        trees   == tree.parts[3].parts
        methods == MethodsOf(name, trees)
    IN  WithName([PredeclareMethods(name, trees, [n \in {} |-> VOID], FALSE, c) EXCEPT
                    !.traits = (name :> [generics |-> <<>>, methods |-> methods, trees |-> trees]) @@ @],
                 name, Type("trait", name, <<>>))

\* The Self of a trait is a type variable bounded by the trait.
TraitHeader(tree, c) ==
    LET name  == tree.names[2]
        trees == tree.parts[3].parts
    IN  Then(Parameters(name, tree.parts[1].parts, c, <<>>), LAMBDA d :
        LET type == Type("trait", name, d.types)
            self == Var(name \o ".Self", <<type>>)
            own  == ("Self" :> self) @@ NamesOf(tree.parts[1].parts, d.types) @@ MethodTypes(MethodsOf(name, trees))
            e    == [d EXCEPT !.names = (name :> type) @@ c.names, !.short = (name \o ".Self" :> "Self") @@ @,
                              !.traits[name].generics = d.types]
        IN  SignaturesOf(Ids(name, trees), PredeclareMethods(name, trees, own, FALSE, e)))

ParametersOf(c, type) ==
    CASE type.kind = "struct" -> c.structs[type.name].generics
      [] type.kind = "trait"  -> c.traits[type.name].generics
      [] type.kind = "array"  -> PolyArray.args
      [] OTHER                -> <<>>

\* With the impl known, its methods get their signatures; ids has them.
RegisterImpl(k, trees, self, trait, own, c) ==
    LET d == PredeclareMethods(k, trees, own @@ ("Self" :> self) @@ MethodTypes(MethodsOf(k, trees)), trait = NoTrait, c)
    IN  SignaturesOf(Ids(k, trees),
          [d EXCEPT !.impls = Append(@, [self |-> self, trait |-> trait, methods |-> MethodsOf(k, trees)])])

ImplHeader(tree, c) ==
    LET k == "impl" \o ToString(Len(c.impls))
    IN  Then(Parameters(k, tree.parts[2].parts, c, <<>>), LAMBDA d :
        Then(TypeWritten(tree.parts[3].parts[1], d), LAMBDA e :
        AgreeEach(e, ParametersOf(e, e.type), Generics(e.type), LAMBDA f :
        RegisterImpl(k, tree.parts[5].parts, e.type, NoTrait, NamesOf(tree.parts[2].parts, d.types),
                     [f EXCEPT !.names = c.names, !.bind = c.bind]))))

\* What the impl does not give is copied from the trait, with a body or without.
TraitImplHeader(tree, c) ==
    LET k     == "impl" \o ToString(Len(c.impls))
        given == tree.parts[5].parts
        names == {given[i].names[4] : i \in DOMAIN given}
    IN  Then(Parameters(k, tree.parts[2].parts, c, <<>>), LAMBDA d :
        Then(TypesWritten(tree.parts[3].parts, d, <<>>), LAMBDA e :
        LET trait == e.types[1]
            self  == e.types[2]
            wanted == e.traits[trait.name].trees
        IN  AgreeEach(e, ParametersOf(e, self), Generics(self), LAMBDA f :
            AgreeEach(f, ParametersOf(e, trait), Generics(trait), LAMBDA g :
            Require(g, trait.kind = "trait", LAMBDA h :
            Require(h, names \subseteq DOMAIN h.traits[trait.name].methods, LAMBDA i :
            RegisterImpl(k, given \o SelectSeq(wanted, LAMBDA t : t.names[4] \notin names), self, trait,
                         NamesOf(tree.parts[2].parts, d.types), [i EXCEPT !.names = c.names, !.bind = c.bind])))))))

DefineAlias(tree, c) == Then(TypeWritten(tree.parts[1], c), LAMBDA d : WithName(d, tree.names[2], d.type))

\* A constant is a type.
DefineConst(tree, c) ==
    Then(TypeWritten(tree.parts[1], c), LAMBDA d :
    Then(Visit(tree.parts[2], d), LAMBDA e :
    LET type == e.node.type
    IN  Agree(e, d.type, type, LAMBDA f :
        WithName(f, tree.names[2], IF type.kind = "const" THEN type ELSE Const(e.node.names[1], type)))))

\* Mistake: a struct is not known before its fields are.
PredeclWithoutStructs(tree, c) ==
    CASE tree.kind = "function"         -> FunctionPredecl(tree, c)
      [] tree.kind = "trait"            -> TraitPredecl(tree, c)
      [] tree.kind = "const definition" -> DefineConst(tree, c)
      [] OTHER                          -> c

Predecl(tree, c) ==
    CASE tree.kind = "function"         -> FunctionPredecl(tree, c)
      [] tree.kind = "struct"           -> StructPredecl(tree, c)
      [] tree.kind = "trait"            -> TraitPredecl(tree, c)
      [] tree.kind = "const definition" -> DefineConst(tree, c)
      [] OTHER                          -> c

\* The functions that are to get a body are those added here, and the ones
\* of a trait.
Later(c, ids) == [c EXCEPT !.bodies = @ \o ids]

AnImpl(tree, c) == IF Len(tree.parts[3].parts) = 1 THEN ImplHeader(tree, c) ELSE TraitImplHeader(tree, c)

\* The methods an impl has got, those that are written first.
ImplBodies(tree, c) ==
    LET methods == Last(c.impls).methods
        given   == Ids("impl" \o ToString(Len(c.impls) - 1), tree.parts[5].parts)
        copied  == {methods[m] : m \in DOMAIN methods} \ {given[i] : i \in DOMAIN given}
    IN  given \o SetToSeq(copied)

Header(tree, c) ==
    CASE tree.kind = "function"   -> Later(SignatureOf(tree.names[4], c), <<tree.names[4]>>)
      [] tree.kind = "struct"     -> StructHeader(tree, c)
      [] tree.kind = "impl"       -> Then(AnImpl(tree, c), LAMBDA d : Later(d, ImplBodies(tree, d)))
      [] tree.kind = "trait"      -> Later(TraitHeader(tree, c), Ids(tree.names[2], tree.parts[3].parts))
      [] tree.kind = "type alias" -> DefineAlias(tree, c)
      [] tree.kind = "enum"       -> Later(c, <<"">>)
      [] OTHER                    -> c

\* Within a block all of it happens at once, but the methods of an impl or a
\* trait get no bodies.
Define(tree, c) ==
    CASE tree.kind = "function" ->
             Then(SignatureOf(tree.names[4], FunctionPredecl(tree, c)), LAMBDA d : BodyOf(tree.names[4], d))
      [] tree.kind = "enum" -> Refuse(c)
      [] tree.kind = "const definition" -> DefineConst(tree, c)
      [] OTHER -> [Header(tree, Predecl(tree, c)) EXCEPT !.bodies = c.bodies]

\* An enum is refused, when its turn comes.
Body(id, c) == IF id = "" THEN Refuse(c) ELSE BodyOf(id, c)

EmptyChecker(std) ==
    [bind |-> NoEquations, outer |-> <<>>, path |-> <<>>, functions |-> [f \in {} |-> NoBody], impls |-> <<>>,
     structs |-> [s \in {} |-> NoBody], traits |-> [t \in {} |-> NoBody], names |-> ("Array" :> PolyArray),
     short |-> ("Array.T" :> "T") @@ ("Array.N" :> "N"), vars |-> <<>>, expected |-> <<>>, active |-> {},
     method |-> FALSE, std |-> std, bodies |-> <<>>, lambdas |-> 0, ok |-> TRUE, fault |-> "", type |-> VOID,
     types |-> <<>>, node |-> NoBody, nodes |-> <<>>, made |-> <<>>, matches |-> <<>>]

\* One pass after the other over all definitions.
RECURSIVE Passes(_, _, _)
Passes(pass, list, c) ==
    LET d == CASE pass = "predecl" -> Predecl(Head(list), c)
               [] pass = "header"  -> Header(Head(list), c)
               [] pass = "body"    -> Body(Head(list), c)
    IN  IF list = <<>> \/ c.fault # "" THEN c ELSE Passes(pass, Tail(list), d)

CheckProgram(trees, std) ==
    LET headers == Passes("header", trees, Passes("predecl", trees, EmptyChecker(std)))
    IN  Passes("body", headers.bodies, headers)

----------------------------------------------------------------------------
(***************************************************************************)
(* The visit function of each kind of tree.                                *)
(***************************************************************************)
Dispatch(tree, c) ==
    CASE tree.kind \in {"felt", "u32", "bool"} ->
             Yield(c, tree.kind, tree.names, <<>>, [felt |-> FELT, u32 |-> U32, bool |-> BOOL][tree.kind])
      [] tree.kind \in {"path", "type path"} -> VisitPath(tree, c)
      [] tree.kind = "array value"  -> VisitElements(tree.parts, UNKNOWN, c, <<>>)
      [] tree.kind = "array repeat" -> VisitRepeat(tree, c)
      [] tree.kind = "tuple"        -> VisitTuple(tree, c)
      [] tree.kind = "struct value" -> VisitStruct(tree, c)
      [] tree.kind = "parentheses"  -> Visit(tree.parts[1], c)
      [] tree.kind = "unary"        -> VisitUnary(tree, c)
      [] tree.kind = "binary"       -> VisitBinary(tree, c)
      [] tree.kind = "cast"         -> VisitCast(tree, c)
      [] tree.kind = "index"        -> VisitIndex(tree, c)
      [] tree.kind = "member"       -> VisitMember(tree, c)
      [] tree.kind = "tuple access" -> VisitTupleAccess(tree, c)
      [] tree.kind = "call"         -> VisitCall(tree, c)
      [] tree.kind = "member call"  -> VisitMemberCall(tree, c)
      [] tree.kind = "if"           -> VisitIf(tree, c)
      [] tree.kind = "match"        -> VisitMatch(tree, c)
      [] tree.kind = "lambda"       -> VisitLambda(tree, c)
      [] tree.kind = "block"        -> VisitBlock(tree, c)
      [] tree.kind = "intrinsic"    -> VisitIntrinsic(tree, c)
      [] tree.kind = "let"          -> VisitLet(tree, c)
      [] tree.kind = "assignment"   -> VisitAssignment(tree, c)
      [] tree.kind = "return"       -> VisitReturn(tree, c)
      [] tree.kind = "while"        -> VisitWhile(tree, c)
      [] tree.kind = "for"          -> VisitFor(tree, c)
      [] tree.kind = "assert"       -> VisitAssert(tree, c)
      [] tree.kind = "assert_eq"    -> VisitAssertEq(tree, c)
      [] tree.kind = "clear"        -> VisitClear(c)
      [] tree.kind = "expression statement" -> VisitExpressionStatement(tree, c)
      [] OTHER                      -> VisitDefinition(tree, c)
=============================================================================
