------------------------------ MODULE Formatter ------------------------------
(***************************************************************************)
(* psy-fmt: from the syntax tree of a file back to its text, as the tokens *)
(* the lexer finds in it.  Indentation and line ends are left out.  The    *)
(* angle brackets of types are printed as "g<" and "g>": Lexed joins those *)
(* that stand together into the shift operators a lexer makes of them.     *)
(* An operator that prints kinds of nodes is named for the visitor.        *)
(***************************************************************************)
EXTENDS RecursiveParser

RECURSIVE Joined(_, _)
Joined(separator, texts) ==
    CASE texts = <<>>   -> <<>>
      [] Len(texts) = 1 -> texts[1]
      [] OTHER          -> texts[1] \o separator \o Joined(separator, Tail(texts))

Commas(texts) == Joined(<<",">>, texts)
Concat(texts) == Joined(<<>>, texts)

\* The modifiers of a definition, those that are absent left out.
Given(names) == SelectSeq(names, LAMBDA name : name # "")

RECURSIVE Lexed(_)
Lexed(text) ==
    LET closer(token) == CASE token = "g<" -> "<" [] token = "g>" -> ">" [] OTHER -> token
        twice == Len(text) > 1 /\ text[1] = text[2] /\ text[1] \in {"g<", "g>"}
    IN  IF text = <<>> THEN <<>>
        ELSE IF twice THEN <<closer(text[1]) \o closer(text[1])>> \o Lexed(SubSeq(text, 3, Len(text)))
        ELSE <<closer(text[1])>> \o Lexed(Tail(text))

----------------------------------------------------------------------------
(***************************************************************************)
(* Types.  As a segment of the path of an expression (is_generic) a type   *)
(* with arguments is put in angle brackets; before `::' in a path of types *)
(* its arguments follow `::'.                                              *)
(***************************************************************************)
RECURSIVE visit_unchecked_type(_, _)

visit_unchecked_generic_parameters(args) ==
    IF args = <<>> THEN <<>>
    ELSE <<"g<">> \o Commas([i \in DOMAIN args |-> visit_unchecked_type(args[i], FALSE)]) \o <<"g>">>

Turbofish(args) == IF args = <<>> THEN <<>> ELSE <<"::">> \o visit_unchecked_generic_parameters(args)

visit_return_type(type) == IF type.parts = <<>> THEN <<>> ELSE <<"->">> \o visit_unchecked_type(type.parts[1], FALSE)

visit_path_node(path) ==
    LET is_ty == path.kind = "type path"
        Segment(i) ==
            IF is_ty /\ i < Len(path.parts) /\ path.parts[i].kind = "generic"
            THEN path.parts[i].names \o Turbofish(path.parts[i].parts)
            ELSE visit_unchecked_type(path.parts[i], ~ is_ty)
    IN  Joined(<<"::">>, [i \in DOMAIN path.parts |-> Segment(i)])

visit_unchecked_type(type, is_generic) ==
    LET Bracketed(text) == IF is_generic THEN <<"g<">> \o text \o <<"g>">> ELSE text
        parts == [i \in DOMAIN type.parts |-> visit_unchecked_type(type.parts[i], is_generic)]
    IN  CASE type.kind \in {"basic", "const"} -> type.names
          [] type.kind = "type path" -> visit_path_node(type)
          [] type.kind = "generic" /\ type.names = <<"Array">> ->
               Bracketed(<<"[">> \o parts[1] \o <<";">> \o parts[2] \o <<"]">>)
          [] type.kind = "generic" -> Bracketed(type.names \o visit_unchecked_generic_parameters(type.parts))
          [] type.kind = "array" -> Bracketed(<<"[">> \o parts[1] \o <<";">> \o type.names \o <<"]">>)
          [] type.kind = "tuple type" -> <<"(">> \o Commas(parts) \o <<")">>
          [] type.kind = "fn type" ->
               LET params == type.parts[1].parts
               IN  <<"fn", "(">> \o Commas([i \in DOMAIN params |-> visit_unchecked_type(params[i], is_generic)])
                     \o <<")">> \o visit_return_type(type.parts[2])
          [] type.kind = "trait cast" ->
               <<"g<">> \o visit_unchecked_type(type.parts[1], FALSE) \o <<"as">>
                 \o visit_unchecked_type(type.parts[2], FALSE) \o <<"g>">>

Type(type) == visit_unchecked_type(type, FALSE)

\* A name and the traits it must have.
Constrained(name, bounds) ==
    IF bounds = <<>> THEN <<name>>
    ELSE <<name, ":">> \o Joined(<<"+">>, [i \in DOMAIN bounds |-> Type(bounds[i])])

visit_generic_parameters(params) ==
    IF params.parts = <<>> THEN <<>>
    ELSE <<"g<">> \o Commas([i \in DOMAIN params.parts |->
                               Constrained(params.parts[i].names[1], params.parts[i].parts)]) \o <<"g>">>

Parameters(params) ==
    Commas([i \in DOMAIN params.parts |->
              Given(params.parts[i].names) \o <<":">> \o Type(params.parts[i].parts[1])])

visit_attr(attrs) ==
    LET names(list) == [i \in DOMAIN list.parts |-> list.parts[i].names]
        Text(attr) ==
            LET properties == Commas(names(attr.parts[2]))
            IN  <<"#", "[">> \o Joined(<<"::">>, names(attr.parts[1]))
                  \o (IF properties = <<>> THEN <<>> ELSE <<"(">> \o properties \o <<")">>) \o <<"]">>
    IN  Concat([i \in DOMAIN attrs.parts |-> Text(attrs.parts[i])])

----------------------------------------------------------------------------
(***************************************************************************)
(* Expressions and statements.                                             *)
(***************************************************************************)
RECURSIVE Visit(_)
VisitAll(nodes) == [i \in DOMAIN nodes |-> Visit(nodes[i])]
Indented(text) == <<"{">> \o text \o <<"}">>

visit_value(node) ==
    LET fields == Tail(node.parts)
    IN  CASE node.kind = "array value"  -> <<"[">> \o Commas(VisitAll(node.parts)) \o <<"]">>
          [] node.kind = "array repeat" -> <<"[">> \o Visit(node.parts[1]) \o <<";">> \o node.names \o <<"]">>
          [] node.kind = "struct value" ->
               visit_path_node(node.parts[1])
                 \o Indented(Concat([i \in DOMAIN fields |->
                                       fields[i].names \o <<":">> \o Visit(fields[i].parts[1]) \o <<",">>]))
          [] OTHER -> node.names

visit_call(node) ==
    Visit(node.parts[1]) \o Turbofish(node.parts[2].parts)
      \o <<"(">> \o Commas(VisitAll(node.parts[3].parts)) \o <<")">>

visit_member_access(node) == Visit(node.parts[1]) \o <<".">> \o node.names \o Turbofish(node.parts[2].parts)

visit_intrinsic_expr(node) ==
    node.names \o Turbofish(node.parts[1].parts) \o <<"(">> \o Commas(VisitAll(node.parts[2].parts)) \o <<")">>

visit_if_expr(node) ==
    LET cases == node.parts[3].parts[1].parts
        other == node.parts[3].parts[2].parts
        Branch(case) == <<"if">> \o Visit(case[1]) \o Visit(case[2])
    IN  Branch(node.parts) \o Concat([i \in DOMAIN cases |-> <<"else">> \o Branch(cases[i].parts)])
          \o (IF other = <<>> THEN <<>> ELSE <<"else">> \o Visit(other[1]))

visit_match(node) ==
    LET arms == Tail(node.parts)
        Pattern(arm) == IF arm.parts[1].kind = "placeholder" THEN <<"_">> ELSE Visit(arm.parts[1])
    IN  <<"match">> \o Visit(node.parts[1])
          \o Indented(Concat([i \in DOMAIN arms |->
                                Pattern(arms[i]) \o <<"=>">> \o Visit(arms[i].parts[2]) \o <<",">>]))

\* No parameters at all leave the two bars as the operator `||'.
visit_lambda_function(node) ==
    LET params == Parameters(node.parts[1])
    IN  (IF params = <<>> THEN <<"||">> ELSE <<"|">> \o params \o <<"|">>)
          \o visit_return_type(node.parts[2]) \o Visit(node.parts[3])

\* The comments of the block are those before its value.
visit_block_expr(node) ==
    Indented(Concat(VisitAll(node.parts[1].parts)) \o node.comments \o Concat(VisitAll(node.parts[2].parts)))

\* A variable without a type has the type "unknown", which is not printed.
visit_variable(node) ==
    LET type == Concat([i \in DOMAIN node.parts[1].parts |-> Type(node.parts[1].parts[i])])
    IN  <<"let">> \o Given(node.names) \o (IF type \in {<<>>, <<"unknown">>} THEN <<>> ELSE <<":">> \o type)
          \o <<"=">> \o Visit(node.parts[2]) \o <<";">>

\* An assertion without a message gets an empty one.
visit_intrinsic_stmt(node) ==
    IF node.kind = "clear" THEN <<"__ctx_clear_entire_tree", "(", ")", ";">>
    ELSE <<node.kind, "(">> \o Commas(VisitAll(node.parts)) \o <<",", "text", ")", ";">>

visit_stmt(node) ==
    CASE node.kind = "let" -> visit_variable(node)
      [] node.kind = "assignment" -> Visit(node.parts[1]) \o node.names \o Visit(node.parts[2]) \o <<";">>
      [] node.kind = "return" -> <<"return">> \o Concat(VisitAll(node.parts)) \o <<";">>
      [] node.kind = "while" -> <<"while">> \o Visit(node.parts[1]) \o Visit(node.parts[2])
      [] node.kind = "for" ->
           <<"for">> \o node.names \o <<"in">> \o Visit(node.parts[1]) \o <<"..">> \o Visit(node.parts[2])
             \o Visit(node.parts[3])
      [] OTHER -> visit_intrinsic_stmt(node)

visit_expr(node) ==
    CASE node.kind \in {"felt", "u32", "bool", "array value", "array repeat", "struct value"} -> visit_value(node)
      [] node.kind = "path"    -> visit_path_node(node)
      [] node.kind = "unary"   -> node.names \o Visit(node.parts[1])
      [] node.kind = "binary"  -> Visit(node.parts[1]) \o node.names \o Visit(node.parts[2])
      [] node.kind = "cast"    -> Visit(node.parts[1]) \o <<"as">> \o Type(node.parts[2])
      [] node.kind = "index"   -> Visit(node.parts[1]) \o <<"[">> \o Visit(node.parts[2]) \o <<"]">>
      [] node.kind = "member"  -> visit_member_access(node)
      [] node.kind = "tuple access" -> Visit(node.parts[1]) \o <<".">> \o node.names
      [] node.kind \in {"tuple", "parentheses"} -> <<"(">> \o Commas(VisitAll(node.parts)) \o <<")">>
      [] node.kind \in {"call", "member call"} -> visit_call(node)
      [] node.kind = "intrinsic" -> visit_intrinsic_expr(node)
      [] node.kind = "if"      -> visit_if_expr(node)
      [] node.kind = "match"   -> visit_match(node)
      [] node.kind = "lambda"  -> visit_lambda_function(node)
      [] OTHER                 -> visit_block_expr(node)

----------------------------------------------------------------------------
(***************************************************************************)
(* Definitions.                                                            *)
(***************************************************************************)
\* std is imported into every module and its imports are not printed.
visit_use(node) ==
    LET path == Tail(node.names)
    IN  Given(<<node.names[1]>>) \o <<"use">> \o Joined(<<"::">>, [i \in DOMAIN path |-> <<path[i]>>]) \o <<";">>

Signature(node, generics) ==
    Given(SubSeq(node.names, 1, 3)) \o <<"fn", node.names[4]>> \o generics
      \o <<"(">> \o Parameters(node.parts[3]) \o <<")">> \o visit_return_type(node.parts[4])

\* A function without a body gets an empty one.
visit_function(node) ==
    node.comments \o visit_attr(node.parts[1]) \o Signature(node, visit_generic_parameters(node.parts[2]))
      \o (IF node.parts[5].parts = <<>> THEN <<"{", "}">> ELSE Visit(node.parts[5].parts[1]))

\* A function of a trait, whose generic parameters and attributes are lost.
TraitFunction(node) ==
    node.comments \o Signature(node, <<>>)
      \o (IF node.parts[5].parts = <<>> THEN <<";">> ELSE Visit(node.parts[5].parts[1]))

Fields(fields, with_attributes) ==
    Concat([i \in DOMAIN fields |->
              fields[i].comments \o (IF with_attributes THEN visit_attr(fields[i].parts[1]) ELSE <<>>)
                \o Given(fields[i].names) \o <<":">> \o Type(fields[i].parts[2]) \o <<",">>])

visit_struct(node) ==
    visit_attr(node.parts[1]) \o Given(<<node.names[1], "struct", node.names[2]>>)
      \o visit_generic_parameters(node.parts[2]) \o Indented(Fields(node.parts[3].parts, TRUE))

\* The attributes of the fields of a struct variant are lost.
visit_enum(node) ==
    LET variants == node.parts[2].parts
        types(v) == Commas([i \in DOMAIN v.parts |-> Type(v.parts[i])])
        Variant(v) ==
            v.names \o (CASE v.kind = "basic variant" -> <<>>
                          [] v.kind = "tuple variant" -> <<"(">> \o types(v) \o <<")">>
                          [] OTHER                    -> Indented(Fields(v.parts, FALSE))) \o <<",">>
    IN  Given(<<node.names[1], "enum", node.names[2]>>) \o visit_generic_parameters(node.parts[1])
          \o Indented(Concat([i \in DOMAIN variants |-> Variant(variants[i])]))

ImplBody(node) ==
    LET types == node.parts[4].parts
        Assigned(t) == t.comments \o Given(<<t.names[1], "type", t.names[2]>>) \o <<"=">> \o Type(t.parts[1]) \o <<";">>
    IN  Indented(Concat([i \in DOMAIN types |-> Assigned(types[i])]) \o Concat(VisitAll(node.parts[5].parts)))

\* The attributes of an impl are lost.
visit_impl(node) ==
    <<"impl">> \o visit_generic_parameters(node.parts[2]) \o Type(node.parts[3].parts[1]) \o ImplBody(node)

visit_trait_impl(node) ==
    <<"impl">> \o visit_generic_parameters(node.parts[2]) \o Type(node.parts[3].parts[1])
      \o <<"for">> \o Type(node.parts[3].parts[2]) \o ImplBody(node)

visit_trait(node) ==
    LET types     == node.parts[2].parts
        functions == node.parts[3].parts
        Declared(t) == t.comments \o Given(<<t.names[1], "type">>) \o Constrained(t.names[2], t.parts) \o <<";">>
    IN  Given(<<node.names[1], "trait", node.names[2]>>) \o visit_generic_parameters(node.parts[1])
          \o Indented(Concat([i \in DOMAIN types |-> Declared(types[i])])
                        \o Concat([i \in DOMAIN functions |-> TraitFunction(functions[i])]))

\* The visibility is lost.
visit_type_alias(node) == <<"type", node.names[2], "=">> \o Type(node.parts[1]) \o <<";">>

visit_const(node) ==
    Given(<<node.names[1], "const", node.names[2]>>) \o <<":">> \o Type(node.parts[1])
      \o <<"=">> \o Visit(node.parts[2]) \o <<";">>

visit_definition(node) ==
    CASE node.kind = "use"              -> visit_use(node)
      [] node.kind = "struct"           -> visit_struct(node)
      [] node.kind = "enum"             -> visit_enum(node)
      [] node.kind = "impl" /\ Len(node.parts[3].parts) = 1 -> visit_impl(node)
      [] node.kind = "impl"             -> visit_trait_impl(node)
      [] node.kind = "trait"            -> visit_trait(node)
      [] node.kind = "type alias"       -> visit_type_alias(node)
      [] node.kind = "const definition" -> visit_const(node)

Statements == {"let", "assignment", "return", "while", "for", "assert", "assert_eq", "clear"}
Definitions == {"use", "struct", "enum", "impl", "trait", "type alias", "const definition"}

\* The comments before an expression statement were dropped by the parser.
Visit(node) ==
    CASE node.kind = "expression statement" -> visit_expr(node.parts[1]) \o <<";">>
      [] node.kind = "function"     -> visit_function(node)
      [] node.kind \in Statements   -> node.comments \o visit_stmt(node)
      [] node.kind \in Definitions  -> node.comments \o visit_definition(node)
      [] OTHER                      -> visit_expr(node)

----------------------------------------------------------------------------
(***************************************************************************)
(* A file.  A module counts as inline when any inline module of the        *)
(* program has its name.  The files of the external modules are empty.     *)
(***************************************************************************)
RECURSIVE InlineNames(_)
InlineNames(module) ==
    UNION {{m.names[2]} \cup InlineNames(m) : m \in {module.parts[2].parts[i] : i \in DOMAIN module.parts[2].parts}}

RECURSIVE format_module_helper(_, _, _)
format_module_helper(module, is_first, inline) ==
    LET children    == IF module.kind = "external module" THEN <<>> ELSE module.parts[2].parts \o module.parts[1].parts
        definitions == IF module.kind = "external module" THEN <<>>
                       ELSE SelectSeq(module.parts[3].parts, LAMBDA d : d.kind # "use" \/ d.names[2] # "std")
        contents    == Concat([i \in DOMAIN children |-> format_module_helper(children[i], FALSE, inline)])
                         \o Concat(VisitAll(definitions))
        named       == Given(<<module.names[1], "mod", module.names[2]>>)
    IN  module.comments \o
          (CASE is_first -> contents
             [] ~ is_first /\ module.names[2] \notin inline -> named \o <<";">>
             [] OTHER -> named \o Indented(contents))

\* The text of the file whose module is `file', as the lexer reads it.
format_module(file) == Lexed(format_module_helper(file, TRUE, InlineNames(file)))
=============================================================================
