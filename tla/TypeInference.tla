---------------------------- MODULE TypeInference ----------------------------
(***************************************************************************)
(* The inference of psy-sema: types, the equations between a type variable *)
(* and what it stands for, unification, and which types implement which    *)
(* traits.                                                                 *)
(*                                                                         *)
(* The state of a checker is a record c.  Those of its fields that this    *)
(* module reads or changes:                                                *)
(*   bind       the equations of the current context.  A scope of          *)
(*              equations is left by going back to an earlier bind.        *)
(*   functions  every function, generic or not, and every instance, by id: *)
(*              [poly, generics, params, result, body, public].            *)
(*   impls      the impls registered so far, the instances included, in    *)
(*              order: [self, trait, methods].                             *)
(*   ok         the answer to the last question                            *)
(*   fault      "" or why the checker has stopped: "refused", "panic"      *)
(* A type id of the code is the type itself: types are interned by name    *)
(* and arguments.                                                          *)
(***************************************************************************)
EXTENDS Naturals, Sequences, FiniteSets, TLC

Type(kind, name, args) == [kind |-> kind, name |-> name, args |-> args]
Scalar(name) == Type("scalar", name, <<>>)
FELT == Scalar("Felt")
BOOL == Scalar("bool")
U32 == Scalar("u32")
VOID == Scalar("Void")
UNKNOWN == Scalar("Unknown")

Var(name, constraints) == Type("var", name, constraints)
Tuple(types) == Type("tuple", "", types)
Signature(params, result) == Type("signature", "", <<Tuple(params), result>>)
Const(value, type) == Type("const", value, <<type>>)
Array(inner, size) == Type("array", "Array", <<inner, size>>)
PolyArray == Array(Var("Array.T", <<>>), Var("Array.N", <<FELT>>))
HASH == Array(FELT, Const("4", FELT))

NoTrait == Type("none", "", <<>>)
NoBody == [kind |-> "none"]

\* The generic arguments of a type; a scalar, a tuple and a variable have none.
Generics(type) == IF type.kind \in {"struct", "trait", "array", "function"} THEN type.args ELSE <<>>

----------------------------------------------------------------------------
(***************************************************************************)
(* Equations.                                                              *)
(***************************************************************************)
NoEquations == [v \in {} |-> UNKNOWN]
Equate(c, var, type) == [c EXCEPT !.bind = (var.name :> type) @@ @]
Leave(c, before) == [c EXCEPT !.bind = before.bind]
Answer(c, yes) == [c EXCEPT !.ok = yes /\ c.fault = ""]
Panic(c) == [c EXCEPT !.fault = "panic", !.ok = FALSE]

FindInstance(c, poly, args) ==
    {f \in DOMAIN c.functions : c.functions[f].poly = poly /\ c.functions[f].generics = args
                                /\ c.functions[f].registered}

\* A function type that has no instance yet keeps the name of the generic one.
RECURSIVE SubstituteType(_, _)
SubstituteType(c, type) ==
    LET args == [i \in DOMAIN type.args |-> SubstituteType(c, type.args[i])]
        poly == c.functions[type.name].poly
        made == FindInstance(c, poly, args)
    IN  CASE DOMAIN c.bind = {} -> type
          [] type.kind = "var"  -> IF type.name \in DOMAIN c.bind THEN c.bind[type.name] ELSE type
          [] type.kind \in {"scalar", "const", "lambda", "none"} -> type
          [] type.kind = "function" ->
                 IF made = {} THEN Type("function", poly, args)
                 ELSE Type("function", CHOOSE f \in made : TRUE, args)
          [] OTHER -> [type EXCEPT !.args = args]

\* The type with the parameters replaced, whatever the equations are.
Applied(c, params, args, type) ==
    SubstituteType([c EXCEPT !.bind = [v \in {params[i].name : i \in DOMAIN params} |->
                                         args[CHOOSE i \in DOMAIN params : params[i].name = v]]], type)

\* The type without the arguments it has been given.
PolyOf(c, type) ==
    CASE type.kind \in {"struct", "trait", "array"} -> [type EXCEPT !.args = <<>>]
      [] type.kind = "function" -> [type EXCEPT !.name = c.functions[type.name].poly, !.args = <<>>]
      [] OTHER -> type

\* What can be called: <<parameters, result>>, or nothing.
Callable(c, type) ==
    CASE type.kind = "function" ->
             LET f == c.functions[type.name]
             IN  << [i \in DOMAIN f.params |-> Applied(c, f.generics, type.args, f.params[i])],
                    Applied(c, f.generics, type.args, f.result) >>
      [] type.kind \in {"signature", "lambda"} -> <<type.args[1].args, type.args[2]>>
      [] OTHER -> <<>>

----------------------------------------------------------------------------
(***************************************************************************)
(* Unification.  A variable on the left is bound, one on the right only    *)
(* asked whether it would accept.  Bindings of an attempt that fails stay  *)
(* until the scope is left.                                                *)
(***************************************************************************)
RECURSIVE Unify(_, _, _), UnifyEach(_, _, _), SatisfiesConstraint(_, _, _)

UnifyEach(c, ls, rs) ==
    IF ls = <<>> \/ rs = <<>> THEN Answer(c, TRUE)
    ELSE LET first == Unify(c, Head(ls), Head(rs))
         IN  IF first.ok THEN UnifyEach(first, Tail(ls), Tail(rs)) ELSE first

Unify(c, left, right) ==
    LET l     == SubstituteType(c, left)
        r     == SubstituteType(c, right)
        kinds == {l.kind, r.kind}
        each  == UnifyEach(c, l.args, r.args)
    IN  CASE l = r -> Answer(c, TRUE)
          [] UNKNOWN \in {l, r} -> Answer(c, TRUE)
          [] l.kind = "var" -> IF SatisfiesConstraint(c, r, l) THEN Answer(Equate(c, l, r), TRUE)
                               ELSE Answer(c, FALSE)
          [] r.kind = "var" -> Answer(c, SatisfiesConstraint(c, l, r))
          [] kinds \in {{"struct"}, {"trait"}} ->
                 IF l.name = r.name /\ Len(l.args) = Len(r.args) THEN each ELSE Answer(c, FALSE)
          [] kinds = {"array"} -> each
          [] kinds = {"tuple"} -> IF each.ok /\ Len(l.args) # Len(r.args) THEN Panic(each) ELSE each
          [] kinds \in {{"function", "signature"}, {"lambda", "signature"}} ->
                 Answer(c, Callable(c, l) = Callable(c, r))
          [] l.kind = "const" /\ r.kind # "const" -> Answer(c, l.args[1] = r)
          [] r.kind = "const" /\ l.kind # "const" -> Answer(c, r.args[1] = l)
          [] OTHER -> Answer(c, FALSE)

\* Mistake: the arguments are only counted.
SatisfiesConstraintsCounted(c, args, params) == Len(args) = Len(params)

SatisfiesConstraints(c, args, params) ==
    /\ Len(args) = Len(params)
    /\ \A i \in DOMAIN params : SatisfiesConstraint(c, args[i], params[i])

\* The traits of a type, each with the arguments that some impl of it for any
\* instance of the same generic type was declared with.
ImplementedTraits(c, type) ==
    LET ofPoly == {i \in DOMAIN c.impls : c.impls[i].trait # NoTrait
                                           /\ PolyOf(c, c.impls[i].self) = PolyOf(c, type)}
        fitting == {i \in ofPoly : SatisfiesConstraints(c, Generics(type), Generics(c.impls[i].self))}
    IN  {c.impls[j].trait : j \in {k \in ofPoly : \E i \in fitting :
                                      PolyOf(c, c.impls[k].trait) = PolyOf(c, c.impls[i].trait)}}

ImplementsTrait(c, type, trait) ==
    \E t \in ImplementedTraits(c, type) :
        PolyOf(c, t) = PolyOf(c, trait) /\ SatisfiesConstraints(c, Generics(trait), Generics(t))

\* The equations this makes are dropped.
SatisfiesConstraint(c, left, right) ==
    LET l == SubstituteType(c, left)
        r == SubstituteType(c, right)
        Accepts(var, type) ==
            \A i \in DOMAIN var.args :
                IF var.args[i].kind = "trait" THEN ImplementsTrait(c, type, var.args[i])
                ELSE Unify(c, type, var.args[i]).ok
    IN  CASE l.kind # "var" /\ r.kind # "var" -> Unify(c, r, l).ok
          [] l.kind # "var" /\ r.kind = "var" -> Accepts(r, l)
          [] l.kind = "var" /\ r.kind # "var" -> Accepts(l, r)
          [] OTHER -> \A i \in DOMAIN r.args : \E j \in DOMAIN l.args : Unify(c, l.args[j], r.args[i]).ok
=============================================================================
