------------------------------ MODULE MCSyntax ------------------------------
(***************************************************************************)
(* The parser and the formatter on small programs.  A form is the text of  *)
(* a program with holes; an expansion puts a construct in one of them, and *)
(* the simplest text in those that are left makes a program of every form. *)
(* Another family of programs is built up operator by operator.            *)
(*                                                                         *)
(* Left out are the constructs that the formatter is known not to keep:    *)
(* they are listed in the README.                                          *)
(***************************************************************************)
EXTENDS Formatter

CONSTANTS
    MaxExpansions,      \* how many holes are filled with a construct
    MaxOperators        \* how long a chain of operators gets

VARIABLES form, expansions, operators

syntaxVars == <<form, expansions, operators>>

\* The simplest text of each kind of hole.
Simplest ==
    ("<item>" :> <<"fn", "f", "(", ")", "{", "}">>) @@ ("<statement>" :> <<"x", ";">>)
      @@ ("<value>" :> <<"x">>) @@ ("<operand>" :> <<"x">>) @@ ("<predicate>" :> <<"x">>)
      @@ ("<block>" :> <<"{", "}">>) @@ ("<type>" :> <<"x">>) @@ ("<argument>" :> <<"x">>)
      @@ ("<target>" :> <<"Felt">>) @@ ("<result>" :> <<>>) @@ ("<parameter>" :> <<"x", ":", "x">>)
      @@ ("<generic>" :> <<"x">>)

Closed(f) == Concat([i \in DOMAIN f |-> IF f[i] \in DOMAIN Simplest THEN Simplest[f[i]] ELSE <<f[i]>>])

Operands ==
    {<<"1u32">>, <<"true">>, <<"<operand>", "+", "<operand>">>, <<"<operand>", "**", "<operand>">>,
     <<"<operand>", "<", "<operand>">>, <<"<operand>", ">>", "<operand>">>, <<"<operand>", "||", "<operand>">>,
     <<"-", "<operand>">>, <<"<operand>", "as", "<target>">>,
     <<"<operand>", ".", "x">>, <<"<operand>", ".", "1">>, <<"<operand>", "[", "<value>", "]">>,
     <<"<operand>", "(", "<value>", ",", "x", ")">>, <<"x", ".", "x", "(", "<value>", ")">>,
     <<"x", "::", "<", "<argument>", ">", "(", "<value>", ")">>, <<"x", ".", "x", "::", "<", "<argument>", ">", "(", ")">>,
     <<"x", ".", "x", "::", "<", "<argument>", ">">>, <<"x", "::", "<", "<argument>", ">">>,
     <<"x", "<", "<argument>", ">", "{", "}">>, <<"super", "::", "x", "{", "x", ":", "<value>", ",", "f", "}">>,
     <<"x", "::", "<", "<argument>", ">", "{", "x", "}">>, <<"x", "::", "<", "x", ">", "::", "f">>,
     <<"<", "<argument>", "as", "<argument>", ">", "::", "f">>, <<"<", "Felt", ">", "::", "f">>,
     <<"[", "<value>", ",", "<value>", "]">>, <<"[", "<value>", ";", "1", "]">>,
     <<"(", "<value>", ")">>, <<"(", "<value>", ",", "<value>", ",", ")">>,
     <<"if", "<predicate>", "<block>">>,
     <<"if", "<predicate>", "{", "x", "}", "else", "if", "<predicate>", "{", "x", "}", "else", "<block>">>,
     <<"match", "<predicate>", "{", "<operand>", "=>", "<value>", ",", "_", "=>", "<block>", "}">>,
     <<"hash", "(", "<value>", ")">>, <<"__imt_get", "(", "<value>", ")">>, <<"__imt_set", "(", "x", ",", "<value>", ",", "x", ",", "1", ",", ")">>,
     <<"__mem_transmute", "::", "<", "<argument>", ">", "(", "<value>", ")">>}

Production ==
    ("<item>" :>
       {<<"pub", "const", "extern", "fn", "f", "<", "<generic>", ",", "x", ">", "(", "<parameter>", ",", ")", "<result>", "{", "}">>,
        <<"#", "[", "x", "]", "#", "[", "x", "::", "f", "(", "x", ",", "f", ")", "]", "extern", "const", "fn", "f", "(", ")", "<block>">>,
        <<"#", "[", "x", "]", "pub", "struct", "x", "<", "<generic>", ">", "{", "//", "pub", "x", ":", "<type>", ",",
          "#", "[", "x", "]", "f", ":", "<type>", "}">>,
        <<"enum", "x", "<", "<generic>", ">", "{", "x", ",", "x", "(", "<type>", ",", "<type>", ")", ",",
          "f", "{", "//", "pub", "x", ":", "<type>", "}", "}">>,
        <<"impl", "<", "<generic>", ">", "x", "<", "<argument>", ">", "{", "//", "pub", "type", "x", "=", "<type>", ";",
          "//", "#", "[", "x", "]", "pub", "fn", "f", "(", "mut", "self", ",", "<parameter>", ")", "<result>", "{", "}", "//", "}">>,
        <<"impl", "<argument>", "for", "<type>", "{", "type", "x", "=", "<type>", ";", "fn", "f", "(", ")", "{", "}", "fn", "x", "(", ")", "{", "}", "}">>,
        <<"pub", "trait", "x", "<", "<generic>", ">", "{", "//", "type", "x", ":", "<type>", "+", "x", ";", "pub", "type", "f", ";",
          "//", "fn", "f", "(", "self", ")", "<result>", ";", "const", "fn", "x", "(", "<parameter>", ")", "<block>", "//", "}">>,
        <<"type", "x", "=", "<type>", ";">>, <<"pub", "use", "crate", "::", "x", "::", "*", ";">>, <<"use", "x", "::", "f", ";">>,
        <<"pub", "const", "x", ":", "u32", "=", "<value>", ";">>,
        <<"pub", "mod", "x", "{", "//", "<item>", "//", "}">>, <<"<item>", "//", "<item>">>, <<"<item>", "pub", "mod", "f", ";">>})
      @@ ("<statement>" :>
       {<<"<operand>", ";">>, <<"let", "x", ":", "<type>", "=", "<value>", ";">>, <<"//", "let", "mut", "x", "=", "<value>", ";">>,
        <<"//", "<operand>", "=", "<value>", ";">>, <<"x", ".", "x", "<<=", "<value>", ";">>, <<"//", "return", ";">>,
        <<"return", "<value>", ";">>, <<"//", "while", "<predicate>", "<block>">>,
        <<"for", "x", "in", "<predicate>", "..", "<predicate>", "<block>">>, <<"//", "assert", "(", "<value>", ",", "text", ")", ";">>,
        <<"assert_eq", "(", "<value>", ",", "x", ",", "text", ",", ")", ";">>, <<"__ctx_clear_entire_tree", "(", ")", ";">>,
        <<"//", "const", "x", ":", "Felt", "=", "<value>", ";">>, <<"//", "fn", "f", "(", "<parameter>", ")", "<result>", "<block>">>,
        <<"use", "crate", "::", "x", ";">>, <<"<statement>", "<statement>">>})
      @@ ("<value>" :> {<<"<operand>">>, <<"|", "mut", "x", ":", "<type>", "|", "->", "<type>", "<block>">>, <<"||", "<block>">>})
      @@ ("<operand>" :> Operands)
      @@ ("<predicate>" :>
       {<<"!", "<predicate>">>, <<"<predicate>", "==", "<predicate>">>, <<"x", "<", "x">>, <<"(", "<value>", ")">>,
        <<"<predicate>", ".", "x">>, <<"x", "(", "<value>", ")">>, <<"x", "::", "<", "<argument>", ">">>})
      @@ ("<block>" :>
       {<<"{", "<operand>", "}">>, <<"{", "<statement>", "}">>, <<"{", "<statement>", "//", "<operand>", "}">>, <<"{", "//", "}">>})
      @@ ("<argument>" :>
       {<<"x", "<", "<argument>", ">">>, <<"x", "<", "<argument>", ",", "1", ">">>, <<"[", "<type>", ";", "1", "]">>,
        <<"[", "<type>", ";", "x", "]">>, <<"(", "<type>", ",", "<type>", ")">>, <<"fn", "(", "<type>", ",", "x", ")", "<result>">>,
        <<"fn", "(", ")">>, <<"x", "::", "f">>, <<"x", "::", "<", "<argument>", ">", "::", "f">>, <<"x", "::", "f", "<", "<argument>", ">">>})
      @@ ("<type>" :> {<<"<argument>">>, <<"<", "x", ">", "::", "x">>, <<"<", "<argument>", "as", "<argument>", ">", "::", "x">>})
      @@ ("<target>" :> {<<"[", "<type>", ";", "1", "]">>, <<"(", "<type>", ",", ")">>, <<"u32">>})
      @@ ("<result>" :> {<<"->", "<type>">>})
      @@ ("<parameter>" :> {<<"mut", "x", ":", "<type>">>, <<"f", ":", "<type>">>})
      @@ ("<generic>" :> {<<"f">>, <<"f", ":", "<type>", "+", "<type>">>})

SyntaxInit ==
    /\ form \in {<<"//", "<item>", "//">>, <<"type", "x", "=", "<type>", ";">>,
                 <<"fn", "f", "(", ")", "{", "let", "x", "=", "<value>", ";", "}">>,
                 <<"fn", "f", "(", ")", "{", "<statement>", "}">>,
                 <<"fn", "f", "(", ")", "{", "<operand>", "}">>}
    /\ expansions = 0
    /\ operators = <<>>

Fill ==
    /\ expansions < MaxExpansions /\ operators = <<>>
    /\ \E i \in DOMAIN form :
         /\ form[i] \in DOMAIN Production
         /\ \E text \in Production[form[i]] :
              form' = SubSeq(form, 1, i - 1) \o text \o SubSeq(form, i + 1, Len(form))
    /\ expansions' = expansions + 1
    /\ UNCHANGED operators

\* One operator of each level, and one level with two.
ChainOperators == {"||", "&&", "==", "<", "|", "^", "&", "<<", "+", "-", "*", "**"}

Chain(ops) == <<"x">> \o Concat([i \in DOMAIN ops |-> <<ops[i], "x">>])

Extend ==
    /\ expansions = 0 /\ Len(operators) < MaxOperators
    /\ \E op \in ChainOperators : operators' = Append(operators, op)
    /\ form' = <<"type", "x", "=", "x", ";">> \o <<"const", "x", ":", "Felt", "=">> \o Chain(operators') \o <<";">>
    /\ UNCHANGED expansions

\* The program is read and formatted.
Format ==
    /\ form # <<>>
    /\ form' = <<>> /\ expansions' = MaxExpansions /\ operators' = <<>>

SyntaxNext == Fill \/ Extend \/ Format

----------------------------------------------------------------------------
Program == Closed(form)
CommentsIn(text) == Len(SelectSeq(text, LAMBDA token : token = "//"))

RECURSIVE Bare(_)
Bare(node) == [node EXCEPT !.comments = <<>>, !.parts = [i \in DOMAIN node.parts |-> Bare(node.parts[i])]]

\* Formatting a program gives a program with the same syntax tree but for the
\* place of its comments, of which none is lost; to format it once more
\* changes nothing.  Nothing the parser has read is dropped in printing, and
\* nothing printed is read as something else.
FormattingKeepsTheProgram ==
    [][Format =>
         LET parsed    == File(Program)
             text      == format_module(parsed.node)
             formatted == File(text)
         IN  /\ parsed.rest = <<>> /\ formatted.rest = <<>>
             /\ Bare(formatted.node) = Bare(parsed.node)
             /\ CommentsIn(text) = CommentsIn(Program)
             /\ format_module(formatted.node) = text]_syntaxVars

\* What a chain of operators means: it is split at the operator that binds
\* least, the last of them, or the first one if it associates to the right.
BindsFrom(op) ==
    CASE op = "||" -> 1 [] op = "&&" -> 2 [] op = "==" -> 3 [] op = "<" -> 4 [] op = "|" -> 5 [] op = "^" -> 6
      [] op = "&" -> 7 [] op = "<<" -> 8 [] op \in {"+", "-"} -> 9 [] op = "*" -> 10 [] op = "**" -> 11

RECURSIVE Meaning(_)
Meaning(ops) ==
    LET least == {i \in DOMAIN ops : \A j \in DOMAIN ops : BindsFrom(ops[i]) <= BindsFrom(ops[j])}
        split == CHOOSE i \in least : \A j \in least : IF ops[i] = "**" THEN i <= j ELSE j <= i
    IN  IF ops = <<>> THEN Tree("path", <<>>, <<Basic("x")>>)
        ELSE Tree("binary", <<ops[split]>>,
                  <<Meaning(SubSeq(ops, 1, split - 1)), Meaning(SubSeq(ops, split + 1, Len(ops)))>>)

\* The operators of an expression bind by precedence and associativity, as
\* the operator table of the language has it.
OperatorsBindByPrecedence ==
    [][Format /\ operators # <<>> =>
         File(Program).node.parts[3].parts[2].parts[2] = Meaning(operators)]_syntaxVars
=============================================================================
