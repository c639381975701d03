------------------------------ MODULE MCTyping ------------------------------
(***************************************************************************)
(* The parser, the type checker and the interpreter on small programs.  A  *)
(* program is a sequence of definitions with holes; a filling puts a       *)
(* construct in one of them, and the simplest text in those that are left  *)
(* makes a program of every sketch.                                        *)
(***************************************************************************)
EXTENDS Evaluator
LOCAL INSTANCE SequencesExt

CONSTANT
    MaxFillings         \* how many holes are filled with a construct

VARIABLES family, sketch, fillings

typingVars == <<family, sketch, fillings>>

Identifier ==
    {"self", "Self", "Array", "main", "S", "P", "A", "B", "T", "f", "g", "h", "m", "n", "d", "x", "y", "z",
     "a", "b", "u", "t", "v", "s", "k", "get", "of"}

Parser == INSTANCE RecursiveParser WITH Ident <- Identifier

Simplest ==
    ("<Felt>" :> <<"a">>) @@ ("<bool>" :> <<"b">>) @@ ("<S>" :> <<"s">>) @@ ("<pair>" :> <<"t">>)
      @@ ("<array>" :> <<"v">>) @@ ("<statement>" :> <<>>)

Written(definition) ==
    FlattenSeq([i \in DOMAIN definition |->
        IF definition[i] \in DOMAIN Simplest THEN Simplest[definition[i]] ELSE <<definition[i]>>])

Program(definitions) == FlattenSeq([i \in DOMAIN definitions |-> Written(definitions[i])])

----------------------------------------------------------------------------
(***************************************************************************)
(* Programs with values of every kind.  A hole is for a value of one type; *)
(* what may be put there has this type, or is a variable of another.       *)
(***************************************************************************)
ValueSketch(type, value) ==
    <<<<"struct", "S", "{", "pub", "x", ":", "Felt", ",", "pub", "y", ":", "bool", "}">>,
      <<"impl", "S", "{", "pub", "fn", "of", "(", "x", ":", "Felt", ")", "->", "Self", "{", "S", "{", "x", ",",
        "y", ":", "true", "}", "}", "pub", "fn", "get", "(", "self", ")", "->", "Felt", "{", "self", ".", "x", "}", "}">>,
      <<"fn", "f", "(", "x", ":", "Felt", ",", "y", ":", "bool", ")", "->", "bool", "{", "x", "==", "1", "||", "y", "}">>,
      <<"fn", "main", "(", "mut", "a", ":", "Felt", ",", "mut", "b", ":", "bool", ",", "mut", "u", ":", "u32", ",",
        "mut", "t", ":", "(", "Felt", ",", "bool", ")", ",", "mut", "v", ":", "[", "Felt", ";", "2", "]", ",",
        "mut", "s", ":", "S", ")", "->">> \o type \o <<"{", "<statement>", value, "}">>>>

Production ==
    ("<Felt>" :>
       {<<"b">>, <<"u">>, <<"(", "<Felt>", "+", "<Felt>", ")">>, <<"(", "-", "<Felt>", ")">>,
        <<"(", "<bool>", "as", "Felt", ")">>, <<"<S>", ".", "x">>, <<"<pair>", ".", "0">>,
        <<"<array>", "[", "<Felt>", "]">>, <<"if", "<bool>", "{", "<Felt>", "}", "else", "{", "<Felt>", "}">>,
        <<"if", "<bool>", "{", "<Felt>", "}", "else", "if", "<bool>", "{", "<Felt>", "}", "else", "{", "<Felt>", "}">>,
        <<"match", "<Felt>", "{", "1", "=>", "<Felt>", ",", "_", "=>", "<Felt>", "}">>,
        <<"<S>", ".", "get", "(", ")">>, <<"hash", "(", "<pair>", ")", "[", "<Felt>", "]">>})
      @@ ("<bool>" :>
       {<<"a">>, <<"(", "<Felt>", "==", "<Felt>", ")">>, <<"(", "<array>", "==", "<array>", ")">>,
        <<"(", "<bool>", "&&", "<bool>", ")">>, <<"(", "!", "<bool>", ")">>, <<"(", "<Felt>", "as", "bool", ")">>,
        <<"<S>", ".", "y">>, <<"<pair>", ".", "1">>, <<"f", "(", "<Felt>", ",", "<bool>", ")">>})
      @@ ("<S>" :>
       {<<"t">>, <<"S", "{", "x", ":", "<Felt>", ",", "y", ":", "<bool>", "}">>,
        <<"S", "::", "of", "(", "<Felt>", ")">>,
        <<"match", "<bool>", "{", "true", "=>", "<S>", ",", "false", "=>", "<S>", "}">>})
      @@ ("<pair>" :>
       {<<"v">>, <<"(", "<Felt>", ",", "<bool>", ")">>,
        <<"__mem_transmute", "::", "<", "(", "Felt", ",", "bool", ")", ">", "(", "<array>", ")">>,
        <<"if", "<bool>", "{", "<pair>", "}", "else", "{", "t", "}">>})
      @@ ("<array>" :>
       {<<"s">>, <<"[", "<Felt>", ",", "<Felt>", "]">>, <<"[", "<Felt>", ";", "2", "]">>,
        <<"[", "<Felt>", ";", "1", "]">>,
        <<"__mem_transmute", "::", "<", "[", "Felt", ";", "2", "]", ">", "(", "<S>", ")">>})
      @@ ("<statement>" :>
       {<<"let", "z", "=", "<Felt>", ";", "a", "=", "z", ";">>,
        <<"let", "z", ":", "S", "=", "<S>", ";", "s", "=", "z", ";">>,
        <<"let", "mut", "z", "=", "<pair>", ";", "z", ".", "0", "=", "<Felt>", ";", "t", "=", "z", ";">>,
        <<"b", "=", "<bool>", ";">>, <<"u", "=", "<Felt>", ";">>, <<"t", ".", "0", "+=", "<Felt>", ";">>,
        <<"v", "[", "<Felt>", "]", "-=", "<Felt>", ";">>, <<"s", ".", "y", "^=", "<bool>", ";">>,
        <<"v", "=", "<array>", ";">>,
        <<"for", "k", "in", "<Felt>", "..", "<Felt>", "{", "a", "=", "a", "+", "k", ";", "}">>,
        <<"while", "<bool>", "{", "<statement>", "}">>, <<"assert", "(", "<bool>", ",", "text", ")", ";">>,
        <<"let", "k", "=", "|", "z", ":", "Felt", "|", "->", "Felt", "{", "z", "+", "<Felt>", "}", ";", "a", "=", "k", "(", "<Felt>", ")", ";">>,
        <<"{", "let", "a", "=", "<bool>", ";", "b", "=", "a", ";", "}">>})

----------------------------------------------------------------------------
(***************************************************************************)
(* Programs with a generic function and a call of it: the bound of its     *)
(* variable, its result and body, the argument and the result of main are  *)
(* open.                                                                   *)
(***************************************************************************)
Library ==
    <<<<"trait", "A", "{", "fn", "m", "(", "self", ")", "->", "Felt", ";",
        "fn", "d", "(", "self", ")", "->", "Felt", "{", "self", ".", "m", "(", ")", "}", "}">>,
      <<"trait", "B", "{", "fn", "n", "(", "self", ")", "->", "Self", ";", "}">>,
      <<"struct", "P", "<", "T", ">", "{", "pub", "z", ":", "T", "}">>,
      <<"impl", "A", "for", "Felt", "{", "fn", "m", "(", "self", ")", "->", "Felt", "{", "self", "}", "}">>,
      <<"impl", "A", "for", "[", "Felt", ";", "2", "]", "{",
        "fn", "m", "(", "self", ")", "->", "Felt", "{", "self", "[", "0", "]", "}",
        "fn", "d", "(", "self", ")", "->", "Felt", "{", "self", "[", "1", "]", "}", "}">>,
      <<"impl", "B", "for", "bool", "{", "fn", "n", "(", "self", ")", "->", "Self", "{", "!", "self", "}", "}">>,
      <<"impl", "<", "T", ">", "P", "<", "T", ">", "{",
        "pub", "fn", "get", "(", "self", ")", "->", "T", "{", "self", ".", "z", "}",
        "pub", "fn", "of", "(", "z", ":", "T", ")", "->", "P", "<", "T", ">", "{", "P", "::", "<", "T", ">", "{", "z", "}", "}", "}">>,
      <<"impl", "<", "T", ":", "A", ">", "A", "for", "P", "<", "T", ">", "{",
        "fn", "m", "(", "self", ")", "->", "Felt", "{", "self", ".", "z", ".", "m", "(", ")", "}", "}">>,
      <<"fn", "h", "<", "T", ">", "(", "x", ":", "T", ")", "->", "P", "<", "T", ">", "{", "P", "::", "<", "T", ">", "{", "z", ":", "x", "}", "}">>>>

Bounds == {<<>>, <<":", "A">>, <<":", "B">>, <<":", "A", "+", "B">>}

\* A result and a body each.
Bodies ==
    {<<<<"Felt">>, <<"x", ".", "m", "(", ")">>>>, <<<<"Felt">>, <<"x", ".", "d", "(", ")">>>>,
     <<<<"T">>, <<"x", ".", "n", "(", ")">>>>, <<<<"T">>, <<"x">>>>,
     <<<<"P", "<", "T", ">">>, <<"h", "(", "x", ")">>>>,
     <<<<"P", "<", "T", ">">>, <<"P", "::", "<", "T", ">", "::", "of", "(", "x", ")">>>>,
     <<<<"Felt">>, <<"P", "::", "<", "T", ">", "{", "z", ":", "x", "}", ".", "m", "(", ")">>>>,
     <<<<"T">>, <<"h", "(", "x", ")", ".", "get", "(", ")">>>>,
     <<<<"(", "T", ",", "T", ")">>, <<"(", "x", ",", "x", ")">>>>,
     <<<<"P", "<", "P", "<", "T", ">>">>, <<"h", "(", "h", "(", "x", ")", ")">>>>,
     <<<<"Felt">>, <<"h", "(", "x", ")", ".", "d", "(", ")">>>>}

\* A type and a value each.
Arguments ==
    {<<<<"Felt">>, <<"a">>>>, <<<<"bool">>, <<"b">>>>, <<<<"u32">>, <<"u">>>>,
     <<<<"[", "Felt", ";", "2", "]">>, <<"[", "a", ",", "a", "]">>>>,
     <<<<"P", "<", "Felt", ">">>, <<"P", "::", "<", "Felt", ">", "{", "z", ":", "a", "}">>>>,
     <<<<"P", "<", "bool", ">">>, <<"P", "::", "<", "bool", ">", "::", "of", "(", "b", ")">>>>,
     <<<<"P", "<", "P", "<", "Felt", ">>">>, <<"h", "(", "h", "(", "a", ")", ")">>>>}

\* The result of the function for this argument, and another type.
Results(body, argument) ==
    {FlattenSeq([i \in DOMAIN body[1] |-> IF body[1][i] = "T" THEN argument[1] ELSE <<body[1][i]>>]), <<"bool">>}

GenericProgram(bound, body, argument, result) ==
    Library \o
    <<<<"fn", "g", "<", "T">> \o bound \o <<">", "(", "x", ":", "T", ")", "->">> \o body[1] \o <<"{">> \o body[2] \o <<"}">>,
      <<"fn", "main", "(", "a", ":", "Felt", ",", "b", ":", "bool", ",", "u", ":", "u32", ")", "->">> \o result
        \o <<"{", "g", "(">> \o argument[2] \o <<")", "}">>>>

----------------------------------------------------------------------------
(***************************************************************************)
(* Programs of the standard library with an intrinsic and its arguments,   *)
(* or one argument of another type.                                        *)
(***************************************************************************)
TextOf(type) ==
    CASE type = FELT -> <<"Felt">> [] type = BOOL -> <<"bool">> [] type = HASH -> <<"[", "Felt", ";", "4", "]">>

Exact == {n \in DOMAIN Intrinsics : {Intrinsics[n][1][i] : i \in DOMAIN Intrinsics[n][1]} \cup {Intrinsics[n][2]} \subseteq {FELT, BOOL, HASH}}

IntrinsicProgram(name, wrong) ==
    LET types == Intrinsics[name][1]
        argument(i) == IF i = wrong THEN <<"b">> ELSE IF types[i] = FELT THEN <<"a">> ELSE <<"v">>
    IN  <<<<"fn", "main", "(", "a", ":", "Felt", ",", "b", ":", "bool", ",", "v", ":">> \o TextOf(HASH) \o <<")", "->">>
            \o TextOf(Intrinsics[name][2]) \o <<"{", name, "(">>
            \o FlattenSeq([i \in DOMAIN types |-> (IF i = 1 THEN <<>> ELSE <<",">>) \o argument(i)]) \o <<")", "}">>>>

----------------------------------------------------------------------------
\* A family says how its programs are made.  Only those with values have holes.
TypingInit ==
    \/ /\ family = "values" /\ fillings = 0
       /\ \/ sketch = ValueSketch(<<"Felt">>, "<Felt>")
          \/ sketch = ValueSketch(<<"bool">>, "<bool>")
          \/ sketch = ValueSketch(<<"S">>, "<S>")
          \/ sketch = ValueSketch(<<"(", "Felt", ",", "bool", ")">>, "<pair>")
          \/ sketch = ValueSketch(<<"[", "Felt", ";", "2", "]">>, "<array>")
    \/ /\ family = "generic" /\ fillings = MaxFillings
       /\ \E bound \in Bounds, body \in Bodies, argument \in Arguments :
            \E result \in Results(body, argument) : sketch = GenericProgram(bound, body, argument, result)
    \/ /\ family = "intrinsic" /\ fillings = MaxFillings
       /\ \E name \in Exact : \E wrong \in 0 .. Len(Intrinsics[name][1]) : sketch = IntrinsicProgram(name, wrong)

Fill ==
    /\ fillings < MaxFillings
    /\ \E d \in DOMAIN sketch : \E i \in DOMAIN sketch[d] :
         /\ sketch[d][i] \in DOMAIN Production
         /\ \E text \in Production[sketch[d][i]] :
              sketch' = [sketch EXCEPT ![d] = SubSeq(@, 1, i - 1) \o text \o SubSeq(@, i + 1, Len(@))]
    /\ fillings' = fillings + 1
    /\ UNCHANGED family

\* The program is read, checked and run.
Check ==
    /\ sketch # <<>>
    /\ sketch' = <<>> /\ fillings' = MaxFillings
    /\ UNCHANGED family

TypingNext == Fill \/ Check

Verdict(definitions) ==
    LET read == Parser!File(Program(definitions))
    IN  IF read.rest # <<>> THEN Refuse(EmptyChecker(FALSE)) ELSE CheckProgram(read.node.parts[3].parts, family = "intrinsic")

\* A value with the parts that its type says.
RECURSIVE HasType(_, _, _)
HasType(c, v, type) ==
    /\ v.kind = IF type.kind = "scalar" THEN type.name ELSE type.kind
    /\ CASE type.kind \in {"tuple", "struct"} ->
              LET types == MemberTypes(c, type)
              IN  Len(v.parts) = Len(types) /\ \A i \in DOMAIN types : HasType(c, v.parts[i], types[i])
         [] type.kind = "array" ->
              Len(v.parts) = NumberOf(type.args[2].name) /\ \A i \in DOMAIN v.parts : HasType(c, v.parts[i], type.args[1])
         [] OTHER -> TRUE

\* What the type checker accepts the interpreter can run: no expression has a
\* value that the `unreachable!' and `expect' of psy-interpreter/src/lib.rs take
\* for impossible, no name is without one, and what main returns has the type
\* it declares.  Only what depends on values may still be refused: an index out
\* of bounds, a bound of a loop that is no constant, an assertion.
AcceptedProgramsRun ==
    [][Check =>
         LET c   == Verdict(sketch)
             run == RunMain(c)
         IN  c.fault = "" => \/ run.fault = "refused"
                             \/ run.fault = "" /\ HasType(c, run.value, c.functions["main"].result)]_typingVars

\* The types that have the traits A and B, by the impls of the library.
RECURSIVE HasA(_)
HasA(type) ==
    \/ type \in {FELT, Array(FELT, Const("2", FELT))}
    \/ type.kind = "struct" /\ HasA(type.args[1])

HasB(type) == type = BOOL

\* An instance of a generic function is only made of types that have all the
\* traits its variable is bound by (satisfies_constraints), also when a type has
\* them by an impl that is generic itself.
BoundsAreMet ==
    [][Check /\ family = "generic" =>
         LET c     == Verdict(sketch)
             bound == {sketch[Len(sketch) - 1][i] : i \in 5 .. 8}
         IN  c.fault = "" =>
               \A f \in DOMAIN c.functions :
                 c.functions[f].poly = "g" /\ c.functions[f].generics[1].kind # "var" =>
                   /\ "A" \in bound => HasA(c.functions[f].generics[1])
                   /\ "B" \in bound => HasB(c.functions[f].generics[1])]_typingVars

\* The order of definitions that are not generic makes no difference, neither
\* to whether a program is accepted nor to the value it has: every pass of
\* visit_program has registered what the next one looks up.
DefinitionsComeInAnyOrder ==
    [][Check /\ family = "values" =>
         LET c == Verdict(sketch)
             d == Verdict(Reverse(sketch))
         IN  c.fault = d.fault /\ (c.fault = "" => RunMain(c).value = RunMain(d).value)]_typingVars
=============================================================================
