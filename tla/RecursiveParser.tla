--------------------------- MODULE RecursiveParser ---------------------------
(***************************************************************************)
(* The recursive-descent parser of psy-parser: from the tokens of a file   *)
(* to its syntax tree.  Every parse function takes the tokens that are     *)
(* left and returns a tree with the tokens after it; `?' is a rest that no *)
(* function can continue from.  Locations are left out, identifiers are    *)
(* the members of Ident, there is one literal of each type, one string and *)
(* one comment, and nesting stays far below MAX_EXPRESSION_DEPTH.          *)
(*                                                                         *)
(* The functions of the grammar that call each other in a circle do so     *)
(* through Parse, which takes the name of what is to be read.              *)
(***************************************************************************)
EXTENDS Naturals, Sequences, TLC

CONSTANT Ident      \* the identifiers of the programs

(***************************************************************************)
(* Syntax trees.  names holds what a node carries besides its parts: an    *)
(* identifier, an operator, a literal, and the modifiers of a definition   *)
(* ("" where one is absent).  A part that may be absent is a list.         *)
(***************************************************************************)
Tree(kind, names, parts) == [kind |-> kind, names |-> names, parts |-> parts, comments |-> <<>>]
Commented(comments, node) == [node EXCEPT !.comments = comments \o @]
List(parts) == Tree("list", <<>>, parts)
Basic(name) == Tree("basic", <<name>>, <<>>)
ZeroLiteral == Tree("felt", <<"0">>, <<>>)

Parsed(node, rest) == [node |-> node, rest |-> rest]
Stuck == <<"error">>
Failed == Parsed(List(<<>>), Stuck)

----------------------------------------------------------------------------
(***************************************************************************)
(* The cursor.                                                             *)
(***************************************************************************)
Peek(s) == IF s = <<>> THEN "eof" ELSE Head(s)
Expect(token, s) == IF Peek(s) = token THEN Tail(s) ELSE Stuck
Skip(token, s) == IF Peek(s) = token THEN Tail(s) ELSE s
Flag(token, s) == IF Peek(s) = token THEN token ELSE ""
AfterName(s) == IF Peek(s) \in Ident THEN Tail(s) ELSE Stuck

ExpectWholeTypeGt(s) == Expect(">", s)

\* A closer of generic arguments may be the first half of a shift operator.
ExpectTypeGt(s) ==
    CASE Peek(s) = ">"   -> Tail(s)
      [] Peek(s) = ">>"  -> <<">">> \o Tail(s)
      [] Peek(s) = ">>=" -> <<">=">> \o Tail(s)
      [] OTHER           -> Stuck

RECURSIVE AfterComments(_)
AfterComments(s) == IF Peek(s) = "//" THEN AfterComments(Tail(s)) ELSE s

LeadingComments(s) == SubSeq(s, 1, Len(s) - Len(AfterComments(s)))

\* The token after the next one.
Lookahead(s) == IF s = <<>> THEN "eof" ELSE Peek(AfterComments(Tail(s)))

----------------------------------------------------------------------------
(***************************************************************************)
(* Lists.  Elements allows a comma after the last element, Separated does  *)
(* not; the arms of a match and the fields of a struct literal may have    *)
(* comments between them, which are dropped.                               *)
(***************************************************************************)
RECURSIVE Parse(_, _)

RECURSIVE Elements(_, _, _, _)
Elements(what, close, s, sofar) ==
    LET at == IF what \in {"arm", "field value"} THEN AfterComments(s) ELSE s
        e  == Parse(what, at)
    IN  IF Peek(at) = close THEN Parsed(List(sofar), at)
        ELSE IF Peek(e.rest) = "," THEN Elements(what, close, Tail(e.rest), Append(sofar, e.node))
        ELSE Parsed(List(Append(sofar, e.node)), e.rest)

Delimited(what, close, s) ==
    LET es == Elements(what, close, s, <<>>) IN Parsed(es.node, Expect(close, es.rest))

RECURSIVE Separated(_, _, _, _)
Separated(what, separator, s, sofar) ==
    LET e == Parse(what, s)
    IN  IF Peek(e.rest) = separator THEN Separated(what, separator, Tail(e.rest), Append(sofar, e.node))
        ELSE Parsed(List(Append(sofar, e.node)), e.rest)

----------------------------------------------------------------------------
(***************************************************************************)
(* Types.                                                                  *)
(***************************************************************************)
FeltLiteral == {"0", "1", "2", "4"}
Literal == FeltLiteral \cup {"1u32", "true", "false"}
TypeName == {"Felt", "bool", "u32", "Self"}

BasicType(s) ==
    IF Peek(s) \in TypeName \cup Ident THEN Parsed(Basic(Head(s)), Tail(s)) ELSE Failed

BasicIdentTy(s) == IF Peek(s) = "self" THEN Parsed(Basic("self"), Tail(s)) ELSE BasicType(s)

\* `<Type>' and `<Type as Trait>' as a segment of a path.
BasicIdentOrGenericTy(s) ==
    IF Peek(s) # "<" THEN BasicIdentTy(s)
    ELSE LET inner == Parse("type", Tail(s))
             trait == Parse("type", Tail(inner.rest))
         IN  IF Peek(inner.rest) = "as"
             THEN Parsed(Tree("trait cast", <<>>, <<inner.node, trait.node>>), ExpectTypeGt(trait.rest))
             ELSE Parsed(inner.node, ExpectTypeGt(inner.rest))

MonomorphizationTy(s) ==
    IF Peek(s) \in Literal THEN Parsed(Tree("const", <<Head(s)>>, <<>>), Tail(s)) ELSE Parse("type", s)

RECURSIVE GenericArgList(_, _)
GenericArgList(s, sofar) ==
    LET arg  == MonomorphizationTy(AfterComments(s))
        args == Append(sofar, arg.node)
        next == AfterComments(arg.rest)
        past == AfterComments(Tail(next))
    IN  IF Peek(next) # "," THEN Parsed(List(args), ExpectTypeGt(next))
        ELSE IF ExpectTypeGt(past) # Stuck THEN Parsed(List(args), ExpectTypeGt(past))
        ELSE GenericArgList(past, args)

\* The arguments after `<'; an empty list is refused.
GenericArgs(s) ==
    IF ExpectTypeGt(AfterComments(s)) # Stuck THEN Failed ELSE GenericArgList(s, <<>>)

ApplyGenericArgs(component, args) ==
    IF component.kind = "basic" /\ args.rest # Stuck
    THEN Parsed(Tree("generic", component.names, args.node.parts), args.rest)
    ELSE Failed

FunctionReturn(s) ==
    LET type == Parse("type", Tail(s))
    IN  IF Peek(s) = "->" THEN Parsed(List(<<type.node>>), type.rest) ELSE Parsed(List(<<>>), s)

FunctionSignatureType(s) ==
    LET open   == Expect("(", Tail(s))
        types  == IF Peek(open) = ")" THEN Parsed(List(<<>>), open) ELSE Separated("type", ",", open, <<>>)
        result == FunctionReturn(Expect(")", types.rest))
    IN  Parsed(Tree("fn type", <<>>, <<types.node, result.node>>), result.rest)

\* `[T; 1]' is an array, `[T; N]' the generic type Array of T and N.
ArrayType(s) ==
    LET element == Parse("type", Tail(s))
        size    == Expect(";", element.rest)
    IN  CASE Peek(size) \in FeltLiteral ->
               Parsed(Tree("array", <<Head(size)>>, <<element.node>>), Expect("]", Tail(size)))
          [] Peek(size) \in Ident ->
               Parsed(Tree("generic", <<"Array">>, <<element.node, Basic(Head(size))>>), Expect("]", Tail(size)))
          [] OTHER -> Failed

Ty(s) ==
    CASE Peek(s) = "fn" -> FunctionSignatureType(s)
      [] Peek(s) = "["  -> ArrayType(s)
      [] Peek(s) = "("  -> LET types == Delimited("type", ")", Tail(s))
                           IN  Parsed(Tree("tuple type", <<>>, types.node.parts), types.rest)
      [] OTHER          -> LET basic == BasicType(s)
                           IN  IF Peek(basic.rest) = "<"
                               THEN ApplyGenericArgs(basic.node, GenericArgs(Tail(basic.rest)))
                               ELSE basic

TypePath(segments, target) ==
    IF segments = <<>> THEN target.node ELSE Tree("type path", <<>>, Append(segments, target.node))

RECURSIVE PathTy(_, _)
PathTy(s, segments) ==
    LET component == BasicIdentOrGenericTy(s)
        after     == Tail(component.rest)
        applied   == ApplyGenericArgs(component.node, GenericArgs(Tail(after)))
    IN  IF Peek(component.rest) # "::"
        THEN LET target == Ty(s) IN Parsed(TypePath(segments, target), target.rest)
        ELSE IF Peek(after) # "<" THEN PathTy(after, Append(segments, component.node))
        ELSE IF Peek(applied.rest) = "::" THEN PathTy(Tail(applied.rest), Append(segments, applied.node))
        ELSE Parsed(TypePath(segments, applied), applied.rest)

ConstType(s) == IF BasicType(s).rest # Stuck THEN BasicType(s) ELSE PathTy(s, <<>>)

GenericParameter(s) ==
    LET name   == AfterName(s)
        bounds == Separated("type", "+", Tail(name), <<>>)
    IN  IF Peek(name) = ":" THEN Parsed(Tree("generic parameter", <<Peek(s)>>, bounds.node.parts), bounds.rest)
        ELSE Parsed(Tree("generic parameter", <<Peek(s)>>, <<>>), name)

GenericParameters(s) ==
    LET params == Elements("generic parameter", ">", Tail(s), <<>>)
    IN  IF Peek(s) # "<" THEN Parsed(List(<<>>), s)
        ELSE IF params.node.parts = <<>> THEN Failed
        ELSE Parsed(params.node, ExpectTypeGt(params.rest))

\* `mut name: Type', or `self' for `self: Self'.
Parameter(s) ==
    LET at   == Skip("mut", s)
        name == IF Peek(at) = "self" THEN Tail(at) ELSE AfterName(at)
        type == Parse("type", Tail(name))
    IN  IF Peek(name) = ":"
        THEN Parsed(Tree("parameter", <<Flag("mut", s), Peek(at)>>, <<type.node>>), type.rest)
        ELSE IF Peek(at) = "self"
        THEN Parsed(Tree("parameter", <<Flag("mut", s), "self">>, <<Basic("Self")>>), name)
        ELSE Failed

----------------------------------------------------------------------------
(***************************************************************************)
(* Expressions.  allowed says whether a path may be the name of a struct   *)
(* literal: it may not where `{' opens the body of an if, a match or a     *)
(* loop.  Everything inside delimiters is read with Parse("expr", ..),     *)
(* where it may.                                                           *)
(***************************************************************************)
OperatorsByLevel ==
    <<{"||"}, {"&&"}, {"==", "!="}, {">", "<", ">=", "<="}, {"|"}, {"^"}, {"&"}, {"<<", ">>"},
      {"+", "-"}, {"*", "/", "%"}, {"**"}>>

Level == [op \in UNION {OperatorsByLevel[i] : i \in DOMAIN OperatorsByLevel} |->
            CHOOSE i \in DOMAIN OperatorsByLevel : op \in OperatorsByLevel[i]]

NoneRightAssociative == {}
RightAssociative == {"**"}
PrefixOperator == {"!", "-"}
AssignmentOperator == {"=", "+=", "-=", "*=", "/=", "%=", "&=", "|=", "^=", "<<=", ">>="}

\* The number of arguments of each intrinsic, at least and at most; where
\* they differ, the missing ones are 0.
CheckpointGetter ==
    {"__ctx_get_checkpoint_stats", "__ctx_get_register_users_root", "__ctx_get_gutas_root",
     "__ctx_get_checkpoint_user_tree_root", "__ctx_get_checkpoint_contract_tree_root",
     "__ctx_get_checkpoint_deposit_tree_root", "__ctx_get_checkpoint_withdrawal_tree_root",
     "__ctx_get_checkpoint_user_registration_tree_root", "__ctx_get_deploy_contracts_root",
     "__ctx_get_guta_fees_collected", "__ctx_get_da_fees_collected", "__ctx_get_user_ops_processed",
     "__ctx_get_total_transactions", "__ctx_get_slots_modified", "__ctx_get_deploy_contracts_completed",
     "__ctx_get_register_users_completed", "__ctx_get_gutas_completed"}

ContextGetter ==
    {"__ctx_get_user_id", "__ctx_get_contract_id", "__ctx_get_caller_contract_id", "__ctx_get_checkpoint_id",
     "__ctx_get_last_nonce", "__ctx_get_user_public_key_hash", "__ctx_get_session_proof_tree_root"}

IntrinsicsByArity ==
    (ContextGetter \cup {"__mem_size_of"} :> <<0, 0>>)
      @@ (CheckpointGetter \cup {"hash", "keccak256", "__ctx_get_contract_deployer",
            "__ctx_get_contract_state_tree_height", "__ctx_get_state_hash_at", "__sum_bits", "__emit",
            "__mem_transmute"} :> <<1, 1>>)
      @@ ({"hash_two_to_one", "__storage_write", "__storage_write_range", "__ctx_set_state_hash_at",
            "__split_bits"} :> <<2, 2>>)
      @@ ({"__ctx_get_other_contract_state_hash_at", "__imt_contains", "__invoke_sync", "__invoke_deferred",
            "__secp256k1_verify"} :> <<3, 3>>)
      @@ ({"__storage_read", "__ctx_get_other_user_contract_state_hash_at"} :> <<4, 4>>)
      @@ ({"__storage_read_range"} :> <<5, 5>>)
      @@ ({"__imt_get_other_user", "__imt_contains_other_user"} :> <<6, 6>>)
      @@ ({"__imt_get"} :> <<1, 3>>) @@ ({"__imt_set"} :> <<2, 4>>)

IntrinsicName == UNION DOMAIN IntrinsicsByArity
Arity == [name \in IntrinsicName |->
            IntrinsicsByArity[CHOOSE names \in DOMAIN IntrinsicsByArity : name \in names]]

TypedIntrinsic == {"__mem_transmute", "__mem_size_of", "__invoke_sync"}

RECURSIVE Arguments(_, _, _)
Arguments(n, s, sofar) ==
    IF n = Len(sofar) THEN Parsed(List(sofar), s)
    ELSE LET e == Parse("expr", IF sofar = <<>> THEN s ELSE Expect(",", s))
         IN  Arguments(n, e.rest, Append(sofar, e.node))

Intrinsic(s) ==
    LET name   == Head(s)
        low    == Arity[name][1]
        high   == Arity[name][2]
        type   == Parse("type", Expect("<", Expect("::", Tail(s))))
        types  == IF name \in TypedIntrinsic THEN <<type.node>> ELSE <<>>
        open   == Expect("(", IF name \in TypedIntrinsic THEN ExpectTypeGt(type.rest) ELSE Tail(s))
        few    == Arguments(low, open, <<>>)
        args   == IF low < high /\ Peek(few.rest) = "," THEN Arguments(high, open, <<>>) ELSE few
        given  == args.node.parts
        zeros  == [i \in 1 .. high - Len(given) |-> ZeroLiteral]
        close  == IF high >= 2 /\ zeros = <<>> THEN Skip(",", args.rest) ELSE args.rest
    IN  Parsed(Tree("intrinsic", <<name>>, <<List(types), List(given \o zeros)>>), Expect(")", close))

\* `[a, b]' or `[a; 1]'.
ArrayExpression(s) ==
    LET first == Parse("expr", Tail(s))
        count == Tail(first.rest)
        all   == Delimited("expr", "]", Tail(s))
    IN  IF Peek(Tail(s)) # "]" /\ Peek(first.rest) = ";"
        THEN IF Peek(count) \in FeltLiteral
             THEN Parsed(Tree("array repeat", <<Head(count)>>, <<first.node>>), Expect("]", Tail(count)))
             ELSE Failed
        ELSE Parsed(Tree("array value", <<>>, all.node.parts), all.rest)

\* A comma makes a tuple of what is in parentheses.
TupleOrParentheses(s) ==
    LET first == Parse("expr", Tail(s))
        all   == Delimited("expr", ")", Tail(s))
    IN  IF Peek(first.rest) = "," THEN Parsed(Tree("tuple", <<>>, all.node.parts), all.rest)
        ELSE Parsed(Tree("parentheses", <<>>, <<first.node>>), Expect(")", first.rest))

LiteralKind(token) == CASE token = "1u32" -> "u32" [] token \in {"true", "false"} -> "bool" [] OTHER -> "felt"

ValueExpression(s) ==
    CASE Peek(s) = "[" -> ArrayExpression(s)
      [] Peek(s) = "(" -> TupleOrParentheses(s)
      [] OTHER         -> Parsed(Tree(LiteralKind(Head(s)), <<Head(s)>>, <<>>), Tail(s))

\* `field: value', or `field' for the variable of that name.
FieldValue(s) ==
    LET name  == AfterName(s)
        value == Parse("expr", Tail(name))
    IN  IF Peek(name) = ":" THEN Parsed(Tree("field value", <<Head(s)>>, <<value.node>>), value.rest)
        ELSE Parsed(Tree("field value", <<Peek(s)>>, <<Tree("path", <<>>, <<Basic(Peek(s))>>)>>), name)

StructLiteral(components, target, s) ==
    LET type   == TypePath(components, Parsed(target, s))
        fields == Delimited("field value", "}", Expect("{", s))
    IN  Parsed(Tree("struct value", <<>>, <<Tree("type path", <<>>, <<type>>)>> \o fields.node.parts), fields.rest)

PathComponent(s) ==
    CASE Peek(s) \in {"super", "crate"} -> Parsed(Basic(Head(s)), Tail(s))
      [] Peek(s) = "<"                  -> BasicIdentOrGenericTy(s)
      [] OTHER                          -> BasicIdentTy(s)

\* `Name<T>' is the name of a struct literal only when `{' follows, and else
\* the left side of a comparison.  `::<T>' before `(' belongs to the call,
\* before `::' it is a segment of the path, and else it ends the path.
RECURSIVE PathExpression(_, _, _)
PathExpression(allowed, s, components) ==
    LET component == PathComponent(s)
        next      == component.rest
        path      == Parsed(Tree("path", <<>>, Append(components, component.node)), next)
        probe     == ApplyGenericArgs(component.node, GenericArgs(Tail(next)))
        after     == Tail(next)
        generics  == GenericArgs(Tail(after))
        applied   == ApplyGenericArgs(component.node, generics)
    IN  CASE Peek(next) = "{" /\ allowed -> StructLiteral(components, component.node, next)
          [] Peek(next) = "<" /\ allowed /\ Peek(probe.rest) = "{" ->
               StructLiteral(components, probe.node, probe.rest)
          [] Peek(next) # "::" -> path
          [] Peek(after) # "<" -> PathExpression(allowed, after, Append(components, component.node))
          [] Peek(generics.rest) = "(" -> path
          [] Peek(generics.rest) = "{" /\ allowed -> StructLiteral(components, applied.node, applied.rest)
          [] Peek(generics.rest) = "::" -> PathExpression(allowed, after, Append(components, component.node))
          [] OTHER -> Parsed(Tree("path", <<>>, Append(components, applied.node)), applied.rest)

RECURSIVE ElseBranches(_, _)
ElseBranches(s, elseifs) ==
    LET test  == Parse("predicate", Tail(Tail(s)))
        body  == Parse("block", test.rest)
        other == Parse("block", Tail(s))
    IN  IF Peek(s) # "else" THEN Parsed(Tree("else", <<>>, <<List(elseifs), List(<<>>)>>), s)
        ELSE IF Peek(Tail(s)) = "if"
        THEN ElseBranches(body.rest, Append(elseifs, Tree("case", <<>>, <<test.node, body.node>>)))
        ELSE Parsed(Tree("else", <<>>, <<List(elseifs), List(<<other.node>>)>>), other.rest)

IfExpression(s) ==
    LET test   == Parse("predicate", Tail(s))
        body   == Parse("block", test.rest)
        others == ElseBranches(body.rest, <<>>)
    IN  Parsed(Tree("if", <<>>, <<test.node, body.node, others.node>>), others.rest)

MatchArm(s) ==
    LET pattern == IF Peek(s) = "_" THEN Parsed(Tree("placeholder", <<>>, <<>>), Tail(s)) ELSE Parse("expr", s)
        body    == Parse("expr", Expect("=>", pattern.rest))
    IN  Parsed(Tree("arm", <<>>, <<pattern.node, body.node>>), body.rest)

MatchExpression(s) ==
    LET scrutinee == Parse("predicate", Tail(s))
        arms      == Delimited("arm", "}", Expect("{", scrutinee.rest))
    IN  Parsed(Tree("match", <<>>, <<scrutinee.node>> \o arms.node.parts), arms.rest)

LambdaExpression(s) ==
    LET params == IF Peek(s) = "||" THEN Parsed(List(<<>>), Tail(s)) ELSE Delimited("parameter", "|", Tail(s))
        result == FunctionReturn(params.rest)
        body   == Parse("block", result.rest)
    IN  Parsed(Tree("lambda", <<>>, <<params.node, result.node, body.node>>), body.rest)

Primary(allowed, s) ==
    CASE Peek(s) \in IntrinsicName        -> Intrinsic(s)
      [] Peek(s) \in Literal \cup {"[", "("} -> ValueExpression(s)
      [] Peek(s) = "{"                    -> Parse("block", s)
      [] Peek(s) = "if"                   -> IfExpression(s)
      [] Peek(s) = "match"                -> MatchExpression(s)
      [] Peek(s) \in {"||", "|"}          -> LambdaExpression(s)
      [] Peek(s) \in Ident \cup TypeName \cup {"self", "super", "crate", "<"} ->
           PathExpression(allowed, s, <<>>)
      [] OTHER                            -> Failed

RECURSIVE PostfixChain(_, _)
CallPostfix(callee, generics, s) ==
    LET args == Delimited("expr", ")", s)
        kind == IF callee.kind = "member" THEN "member call" ELSE "call"
    IN  PostfixChain(Tree(kind, <<>>, <<callee, generics, args.node>>), args.rest)

PostfixChain(lhs, s) ==
    LET after    == Tail(s)
        index    == Parse("expr", after)
        type     == ConstType(after)
        generics == GenericArgs(Expect("<", after))
    IN  CASE Peek(s) = "." /\ Peek(after) \in FeltLiteral ->
               PostfixChain(Tree("tuple access", <<Head(after)>>, <<lhs>>), Tail(after))
          [] Peek(s) = "." /\ Peek(after) \in Ident ->
               PostfixChain(Tree("member", <<Head(after)>>, <<lhs, List(<<>>)>>), Tail(after))
          [] Peek(s) = "." /\ Peek(after) \notin FeltLiteral \cup Ident -> Failed
          [] Peek(s) = "[" -> PostfixChain(Tree("index", <<>>, <<lhs, index.node>>), Expect("]", index.rest))
          [] Peek(s) = "as" -> PostfixChain(Tree("cast", <<>>, <<lhs, type.node>>), type.rest)
          [] Peek(s) = "(" -> CallPostfix(lhs, List(<<>>), after)
          [] Peek(s) = "::" /\ Lookahead(s) = "<" ->
               IF Peek(generics.rest) = "(" THEN CallPostfix(lhs, generics.node, Tail(generics.rest))
               ELSE IF lhs.kind = "member"
               THEN PostfixChain([lhs EXCEPT !.parts[2] = generics.node], generics.rest)
               ELSE Failed
          [] OTHER -> Parsed(lhs, s)

RECURSIVE Prefix(_, _)
Prefix(allowed, s) ==
    LET at      == AfterComments(s)
        rhs     == Prefix(allowed, Tail(at))
        primary == Primary(allowed, at)
    IN  IF Peek(at) \in PrefixOperator THEN Parsed(Tree("unary", <<Head(at)>>, <<rhs.node>>), rhs.rest)
        ELSE PostfixChain(primary.node, primary.rest)

RECURSIVE Precedence(_, _, _)
RECURSIVE Climb(_, _, _, _)
Climb(lhs, lowest, allowed, s) ==
    LET at  == AfterComments(s)
        op  == Peek(at)
        rhs == Precedence(IF op \in RightAssociative THEN Level[op] ELSE Level[op] + 1, allowed, Tail(at))
    IN  IF op \notin DOMAIN Level \/ Level[op] < lowest THEN Parsed(lhs, at)
        ELSE Climb(Tree("binary", <<op>>, <<lhs, rhs.node>>), lowest, allowed, rhs.rest)

Precedence(lowest, allowed, s) ==
    IF lowest = 0 /\ Peek(s) \in {"||", "|"} THEN LambdaExpression(s)
    ELSE LET lhs == Prefix(allowed, s) IN Climb(lhs.node, lowest, allowed, lhs.rest)

----------------------------------------------------------------------------
(***************************************************************************)
(* Blocks and statements.  comments are those read before the statement.   *)
(***************************************************************************)
DefinitionStart == {"const", "fn", "struct", "enum", "impl", "trait", "type", "use", "extern", "pub", "#"}
IntrinsicStatement == {"assert", "assert_eq", "__ctx_clear_entire_tree"}
StatementStart == {"let", "return", "while", "for"} \cup IntrinsicStatement \cup DefinitionStart

VariableStatement(s) ==
    LET at    == Skip("mut", Tail(s))
        name  == AfterName(at)
        type  == Parse("type", Tail(name))
        types == IF Peek(name) = ":" THEN Parsed(List(<<type.node>>), type.rest) ELSE Parsed(List(<<>>), name)
        value == Parse("expr", Expect("=", types.rest))
    IN  Parsed(Tree("let", <<Flag("mut", Tail(s)), Peek(at)>>, <<types.node, value.node>>), Expect(";", value.rest))

AssignmentAfterLhs(lhs, s) ==
    LET value == Parse("expr", Tail(s))
    IN  Parsed(Tree("assignment", <<Head(s)>>, <<lhs, value.node>>), Expect(";", value.rest))

ReturnStatement(s) ==
    LET value == Parse("expr", Tail(s))
    IN  IF Peek(Tail(s)) = ";" THEN Parsed(Tree("return", <<>>, <<>>), Tail(Tail(s)))
        ELSE Parsed(Tree("return", <<>>, <<value.node>>), Expect(";", value.rest))

WhileStatement(s) ==
    LET test == Parse("predicate", Tail(s))
        body == Parse("block", test.rest)
    IN  Parsed(Tree("while", <<>>, <<test.node, body.node>>), body.rest)

ForStatement(s) ==
    LET from == Parse("predicate", Expect("in", AfterName(Tail(s))))
        to   == Parse("predicate", Expect("..", from.rest))
        body == Parse("block", to.rest)
    IN  Parsed(Tree("for", <<Peek(Tail(s))>>, <<from.node, to.node, body.node>>), body.rest)

\* assert and assert_eq: one or two expressions and perhaps a message.  A
\* message that is absent is no name at all.
AssertStatement(s) ==
    LET operands == Arguments(IF Head(s) = "assert" THEN 1 ELSE 2, Expect("(", Tail(s)), <<>>)
        at       == Skip(",", operands.rest)
        told     == at # operands.rest /\ Peek(at) = "text"
        close    == Skip(",", IF told THEN Tail(at) ELSE at)
    IN  Parsed(Tree(Head(s), IF told THEN <<"text">> ELSE <<>>, operands.node.parts),
               Expect(";", Expect(")", close)))

ClearEntireTree(s) ==
    Parsed(Tree("clear", <<>>, <<>>), Expect(";", Expect(")", Expect("(", Tail(s)))))

Statement(s) ==
    CASE Peek(s) = "let"    -> VariableStatement(s)
      [] Peek(s) = "return" -> ReturnStatement(s)
      [] Peek(s) = "while"  -> WhileStatement(s)
      [] Peek(s) = "for"    -> ForStatement(s)
      [] Peek(s) \in {"assert", "assert_eq"} -> AssertStatement(s)
      [] Peek(s) = "__ctx_clear_entire_tree" -> ClearEntireTree(s)
      [] OTHER              -> Parse("definition", s)

\* An expression that is not assigned to is a statement if `;' follows it,
\* and the value of the block if `}' does.
RECURSIVE BlockFrom(_, _)
BlockFrom(s, statements) ==
    LET comments == LeadingComments(s)
        at       == AfterComments(s)
        statement == Statement(at)
        e        == Parse("expr", at)
        assigned == AssignmentAfterLhs(e.node, e.rest)
        Block(value) == Commented(comments, Tree("block", <<>>, <<List(statements), List(value)>>))
        More(node, rest) == IF rest = Stuck THEN Failed ELSE BlockFrom(rest, Append(statements, node))
    IN  CASE Peek(at) = "}" -> Parsed(Block(<<>>), Tail(at))
          [] Peek(at) \in StatementStart -> More(Commented(comments, statement.node), statement.rest)
          [] OTHER ->
               CASE Peek(e.rest) \in AssignmentOperator -> More(Commented(comments, assigned.node), assigned.rest)
                 [] Peek(e.rest) = ";" -> More(Tree("expression statement", <<>>, <<e.node>>), Tail(e.rest))
                 [] Peek(e.rest) = "}" -> Parsed(Block(<<e.node>>), Tail(e.rest))
                 [] OTHER              -> Failed

----------------------------------------------------------------------------
(***************************************************************************)
(* Definitions.  at stands after the attributes and the visibility.        *)
(***************************************************************************)
Attribute(s) ==
    LET path  == Separated("identifier", "::", Expect("[", Tail(s)), <<>>)
        props == IF Peek(path.rest) = "(" THEN Delimited("identifier", ")", Tail(path.rest))
                 ELSE Parsed(List(<<>>), path.rest)
    IN  Parsed(Tree("attribute", <<>>, <<path.node, props.node>>), Expect("]", props.rest))

RECURSIVE Attributes(_, _)
Attributes(s, sofar) ==
    LET attribute == Attribute(s)
    IN  IF Peek(s) # "#" THEN Parsed(List(sofar), s)
        ELSE Attributes(attribute.rest, Append(sofar, attribute.node))

\* `use root::a::b;' or `use root::a::*;'
RECURSIVE UsePath(_, _)
UsePath(s, names) ==
    LET next == AfterName(s)
    IN  CASE Peek(s) = "*"     -> Parsed(Tree("use", Append(names, "*"), <<>>), Expect(";", Tail(s)))
          [] Peek(next) = "::" -> UsePath(Tail(next), Append(names, Head(s)))
          [] OTHER             -> Parsed(Tree("use", Append(names, Peek(s)), <<>>), Expect(";", next))

UseDefinition(pub, at) ==
    LET root == IF Peek(Tail(at)) \in {"self", "super", "crate"} THEN Tail(Tail(at)) ELSE AfterName(Tail(at))
    IN  UsePath(Expect("::", root), <<pub, Peek(Tail(at))>>)

ConstDefinition(pub, at) ==
    LET type  == Expect(":", AfterName(Tail(at)))
        value == Parse("expr", Expect("=", Tail(type)))
    IN  IF Peek(type) \notin TypeName \ {"Self"} THEN Failed
        ELSE Parsed(Tree("const definition", <<pub, Peek(Tail(at))>>, <<Basic(Head(type)), value.node>>),
                    Expect(";", value.rest))

IsSelf(param) == param.names[2] = "self"
SelfComesFirst(params) == \A i \in 2 .. Len(params) : ~ IsSelf(params[i])
TakesNoSelf(params) == \A i \in DOMAIN params : ~ IsSelf(params[i]) /\ params[i].parts[1] # Basic("Self")

\* where is "top", "impl" or "trait".
Function(where, pub, attrs, at) ==
    LET once    == IF Peek(at) \in {"const", "extern"} THEN Tail(at) ELSE at
        twice   == IF once # at /\ Peek(once) \in {"const", "extern"} \ {Peek(at)} THEN Tail(once) ELSE once
        Given(qualifier) == IF qualifier \in {at[i] : i \in 1 .. Len(at) - Len(twice)} THEN qualifier ELSE ""
        name    == Expect("fn", twice)
        generics == GenericParameters(AfterName(name))
        params  == Delimited("parameter", ")", Expect("(", generics.rest))
        result  == FunctionReturn(params.rest)
        block   == Parse("block", result.rest)
        body    == IF Peek(result.rest) = "{" THEN Parsed(List(<<block.node>>), block.rest)
                   ELSE Parsed(List(<<>>), Expect(";", result.rest))
        needed  == where = "impl" \/ (where = "top" /\ Given("extern") = "")
    IN  IF \/ needed /\ body.node.parts = <<>>
           \/ ~ SelfComesFirst(params.node.parts)
           \/ where = "top" /\ ~ TakesNoSelf(params.node.parts)
        THEN Failed
        ELSE Parsed(Tree("function", <<pub, Given("extern"), Given("const"), Peek(name)>>,
                         <<attrs, generics.node, params.node, result.node, body.node>>), body.rest)

\* A field of a struct definition or of a struct variant.
StructField(s) ==
    LET attrs == Attributes(AfterComments(s), <<>>)
        at    == Skip("pub", attrs.rest)
        type  == Parse("type", Expect(":", AfterName(at)))
    IN  Parsed(Commented(LeadingComments(s),
                         Tree("field", <<Flag("pub", attrs.rest), Peek(at)>>, <<attrs.node, type.node>>)), type.rest)

StructDefinition(pub, attrs, at) ==
    LET generics == GenericParameters(AfterName(Tail(at)))
        fields   == Delimited("field", "}", Expect("{", generics.rest))
    IN  Parsed(Tree("struct", <<pub, Peek(Tail(at))>>, <<attrs, generics.node, fields.node>>), fields.rest)

EnumVariant(s) ==
    LET next   == AfterName(s)
        types  == Delimited("type", ")", Tail(next))
        fields == Delimited("field", "}", Tail(next))
    IN  CASE Peek(next) = "(" -> Parsed(Tree("tuple variant", <<Peek(s)>>, types.node.parts), types.rest)
          [] Peek(next) = "{" -> Parsed(Tree("struct variant", <<Peek(s)>>, fields.node.parts), fields.rest)
          [] OTHER            -> Parsed(Tree("basic variant", <<Peek(s)>>, <<>>), next)

EnumDefinition(pub, at) ==
    LET generics == GenericParameters(AfterName(Tail(at)))
        variants == Delimited("variant", "}", Expect("{", generics.rest))
    IN  Parsed(Tree("enum", <<pub, Peek(Tail(at))>>, <<generics.node, variants.node>>), variants.rest)

TypeAlias(kind, pub, at) ==
    LET type == Parse("type", Expect("=", AfterName(Tail(at))))
    IN  Parsed(Tree(kind, <<pub, Peek(Tail(at))>>, <<type.node>>), Expect(";", type.rest))

TraitAssociatedType(pub, at) ==
    LET param == GenericParameter(Tail(at))
    IN  Parsed(Tree("associated type", <<pub, Peek(Tail(at))>>, param.node.parts), Expect(";", param.rest))

\* The associated types of an impl or a trait come before its functions.
RECURSIVE Members(_, _, _, _)
Members(where, s, types, functions) ==
    LET at       == AfterComments(s)
        own      == LeadingComments(s)
        typed    == Skip("pub", at)
        type     == IF where = "trait" THEN TraitAssociatedType(Flag("pub", at), typed)
                    ELSE TypeAlias("associated value", Flag("pub", at), typed)
        attrs    == Attributes(at, <<>>)
        function == Function(where, Flag("pub", attrs.rest), attrs.node, Skip("pub", attrs.rest))
    IN  CASE Peek(at) = "}" -> Parsed(Commented(own, Tree("members", <<>>, <<List(types), List(functions)>>)), Tail(at))
          [] Peek(at) = "type" \/ (Peek(at) = "pub" /\ Lookahead(at) = "type") ->
               IF functions # <<>> \/ type.rest = Stuck THEN Failed
               ELSE Members(where, type.rest, Append(types, Commented(own, type.node)), functions)
          [] OTHER ->
               IF function.rest = Stuck THEN Failed
               ELSE Members(where, function.rest, types, Append(functions, Commented(own, function.node)))

\* Comments before the closing brace go to the owner.
ImplDefinition(attrs, at) ==
    LET generics == GenericParameters(Tail(at))
        first    == Parse("type", generics.rest)
        second   == Parse("type", Tail(first.rest))
        trait    == Peek(first.rest) = "for"
        members  == Members("impl", Expect("{", IF trait THEN second.rest ELSE first.rest), <<>>, <<>>)
        owner    == IF trait THEN <<first.node, second.node>> ELSE <<first.node>>
    IN  Parsed(Commented(members.node.comments,
                 Tree("impl", <<>>, <<attrs, generics.node, List(owner)>> \o members.node.parts)), members.rest)

TraitDefinition(pub, at) ==
    LET generics == GenericParameters(AfterName(Tail(at)))
        members  == Members("trait", Expect("{", generics.rest), <<>>, <<>>)
    IN  Parsed(Commented(members.node.comments,
                 Tree("trait", <<pub, Peek(Tail(at))>>, <<generics.node>> \o members.node.parts)), members.rest)

\* An external module `mod m;', or an inline one with its contents.
Module(comments, pub, at) ==
    LET next   == AfterName(Tail(at))
        inside == Parse("module items", Tail(next))
    IN  CASE Peek(next) = ";" /\ comments = <<>> -> Parsed(Tree("external module", <<pub, Peek(Tail(at))>>, <<>>), Tail(next))
          [] Peek(next) = "{" ->
               Parsed([inside.node EXCEPT !.kind = "inline module", !.names = <<pub, Peek(Tail(at))>>],
                      Expect("}", inside.rest))
          [] OTHER -> Failed

\* One item, which may be a definition or a module.
ModuleItem(comments, s) ==
    LET attrs == Attributes(s, <<>>)
        pub   == Flag("pub", attrs.rest)
        at    == Skip("pub", attrs.rest)
        bare  == attrs.node.parts = <<>>
        item  == CASE Peek(at) = "mod" /\ bare -> Module(comments, pub, at)
                   [] Peek(at) = "use" /\ bare -> UseDefinition(pub, at)
                   [] Peek(at) = "const" /\ bare /\ Lookahead(at) \notin {"extern", "fn"} -> ConstDefinition(pub, at)
                   [] Peek(at) \in {"fn", "extern"} \/ (Peek(at) = "const" /\ (~ bare \/ Lookahead(at) \in {"extern", "fn"})) ->
                        Function("top", pub, attrs.node, at)
                   [] Peek(at) = "struct" -> StructDefinition(pub, attrs.node, at)
                   [] Peek(at) = "enum" /\ bare -> EnumDefinition(pub, at)
                   [] Peek(at) = "impl" /\ pub = "" -> ImplDefinition(attrs.node, at)
                   [] Peek(at) = "trait" /\ bare -> TraitDefinition(pub, at)
                   [] Peek(at) = "type" /\ bare -> TypeAlias("type alias", pub, at)
                   [] OTHER -> Failed
    IN  Parsed(Commented(comments, item.node), item.rest)

\* The items of a file, or of an inline module up to its brace: external
\* modules, inline modules and definitions are kept apart.
RECURSIVE ModuleItems(_, _, _, _)
ModuleItems(s, external, inline, definitions) ==
    LET at       == AfterComments(s)
        comments == LeadingComments(s)
        item     == ModuleItem(comments, at)
        kind     == item.node.kind
    IN  CASE Peek(at) \in {"eof", "}"} ->
               Parsed(Commented(comments, Tree("module", <<>>, <<List(external), List(inline), List(definitions)>>)), at)
          [] item.rest = Stuck -> Failed
          [] kind = "external module" -> ModuleItems(item.rest, Append(external, item.node), inline, definitions)
          [] kind = "inline module" -> ModuleItems(item.rest, external, Append(inline, item.node), definitions)
          [] OTHER -> ModuleItems(item.rest, external, inline, Append(definitions, item.node))

\* A file: the comments at its top and at its end belong to the module.
File(s) ==
    LET items == ModuleItems(AfterComments(s), <<>>, <<>>, <<>>)
    IN  IF items.rest = <<>> THEN Parsed(Commented(LeadingComments(s), items.node), <<>>) ELSE Failed

Definition(s) ==
    LET item == ModuleItem(<<>>, s)
    IN  IF item.node.kind \in {"external module", "inline module"} THEN Failed ELSE item

Parse(what, s) ==
    CASE what = "type"              -> PathTy(s, <<>>)
      [] what = "generic parameter" -> GenericParameter(s)
      [] what = "parameter"         -> Parameter(s)
      [] what = "expr"              -> Precedence(0, TRUE, s)
      [] what = "predicate"         -> Precedence(0, FALSE, s)
      [] what = "field value"       -> FieldValue(s)
      [] what = "arm"               -> MatchArm(s)
      [] what = "block"             -> BlockFrom(Expect("{", s), <<>>)
      [] what = "identifier"        -> Parsed(Basic(Peek(s)), AfterName(s))
      [] what = "field"             -> StructField(s)
      [] what = "variant"           -> EnumVariant(s)
      [] what = "definition"        -> Definition(s)
      [] what = "module items"      -> ModuleItems(s, <<>>, <<>>, <<>>)
=============================================================================
