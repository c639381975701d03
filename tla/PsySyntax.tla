----------------------------- MODULE PsySyntax -----------------------------
(***************************************************************************)
(* The pieces of a type-checked Psy program that both the meaning of the   *)
(* language (SourceSemantics) and the compiler's symbolic interpreter      *)
(* (SymExec) talk about: names, functions, scalar values and expressions.  *)
(*                                                                         *)
(* A variable is named by the scope that declares it and its identifier,   *)
(* as in the checked tree, where every path carries a VarId.  Scopes are   *)
(* numbered by their place on the control stack, so <<1, x>> is x of the   *)
(* entry point.  Booleans are the values 0 and 1, as they are for the VM.  *)
(***************************************************************************)
EXTENDS Integers, Sequences

CONSTANTS
    Input,      \* the witnesses: each is one run of the compiled entry point
    Arg,        \* Arg[i] is the entry point's argument in run i
    P,          \* Felt values are 0 .. P-1 and arithmetic wraps at P
    Name,       \* identifiers of local variables
    Param,      \* the identifier every function gives its parameter
    Fn,         \* functions that can be called
    Lambda,     \* those of them that are closures: they share the caller's frame
    Main,       \* the entry point
    Exprs,      \* the expressions a program may use
    Constructs, \* bound: the kinds of construct programs are made of
    NoValue     \* the value of a block that ends without an expression

Val == 0 .. P - 1

ASSUME InputAssumption == Input # {}
ASSUME PAssumption == P \in Nat /\ P >= 2
ASSUME ArgAssumption == Arg \in [Input -> Val]
ASSUME ParamAssumption == Param \in Name
ASSUME MainAssumption == Main \notin Fn /\ Lambda \subseteq Fn
ASSUME NoValueAssumption == NoValue \notin Val /\ NoValue \notin Exprs
ASSUME ConstructsAssumption ==
    Constructs \subseteq {"let", "assert", "storage", "if", "ifvalue", "call", "elseifcall", "while", "for"}

(***************************************************************************)
(* Operands and expressions.  "lit" is a literal, "var" a local variable,  *)
(* "slot" a read of the contract's storage slot.  "fst" keeps the left     *)
(* operand, so a bare operand is an expression too.                        *)
(***************************************************************************)
Operand ==
    [kind : {"lit"}, n : Val]
      \cup [kind : {"var"}, at : Nat \ {0}, name : Name]
      \cup [kind : {"slot"}]

Expr == [op : {"fst", "add", "eq"}, l : Operand, r : Operand]

ASSUME ExprsAssumption == \A e \in Exprs : e \in Expr

\* One VM operation on two values of the field.
Apply(op, a, b) ==
    CASE op = "add" -> (a + b) % P
      [] op = "eq"  -> IF a = b THEN 1 ELSE 0
      [] OTHER      -> a

(***************************************************************************)
(* What is done with the value of a call or of an if-expression: nothing,  *)
(* `let name = ..', `name = ..' or `name += ..', or, for a call, the       *)
(* predicate of an `if' or of an `else if'.                                *)
(***************************************************************************)
Discard == [kind |-> "discard"]
LetUse(x) == [kind |-> "let", name |-> x]
AssignUse(d, x, op) == [kind |-> "assign", at |-> d, name |-> x, op |-> op]
IfUse == [kind |-> "if"]
ElseIfUse == [kind |-> "elseif"]

AssignOps == {"set", "add"}

\* The value an assignment stores, from the old value and the right-hand side.
Updated(op, old, new) == IF op = "add" THEN Apply("add", old, new) ELSE new
=============================================================================
